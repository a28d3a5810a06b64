----------------------------- MODULE FeedProofs -----------------------------
(***************************************************************************)
(* Theorems about what wemixvisor reads and follows: the heights of the    *)
(* node (HeightMonitor), the upgrade file (UpgradeWatcher) and the         *)
(* configuration (ConfigManager), each for any of its constants.           *)
(***************************************************************************)
EXTENDS HeightMonitor, UpgradeWatcher, ConfigManager, TLAPS

-----------------------------------------------------------------------------
(***************************************************************************)
(* The height monitor, for any subscribers, heights, buffers and callers   *)
(* of Stop: HeightInv, that Stop is final, and that what each subscriber   *)
(* sees implements HeightFeed.                                             *)
(*                                                                         *)
(* The order of what is buffered rests on what is still to be sent: while  *)
(* a change is on its way to a subscriber, all it was sent is older.       *)
(***************************************************************************)

Known(s) == received[s] \cup InQueue(s) \cup dropped[s]
OnWay(s) == loop = "lock" \/ s \in next

\* The loop, the round it is in, and what Stop has seen of it.
LoopInv ==
  /\ next # {} => loop = "notify"
  /\ loop \in {"lock", "notify"} => Len(changes) > 0
  /\ \A s \in next : Subscribed(s)
  /\ loop # "none" => started
  /\ \A c \in HeightStoppers : heightStop[c] = "returned" => loop = "exited"

\* What a subscriber knows is no younger than the last change, and older than
\* one that is on its way to it.
SentInv == \A s \in Subscribers :
  /\ Subscribed(s) => since[s] <= Len(changes)
  /\ \A i \in Known(s) : i <= Len(changes) /\ (OnWay(s) => i < Len(changes))
  /\ \E n \in received[s] \cup {0} : \A m \in received[s] : m <= n

HeightIInv == HeightTypeOK /\ LoopInv /\ SentInv /\ InOrder /\ Accounted

-----------------------------------------------------------------------------
(* Sequences of changes.                                                   *)

LEMMA SeqFacts ==
  ASSUME NEW S, NEW q \in Seq(S)
  PROVE  /\ Len(q) \in Nat /\ DOMAIN q = 1..Len(q) /\ \A k \in DOMAIN q : q[k] \in S
         /\ q # <<>> => Len(q) > 0
OBVIOUS

LEMMA AppendFacts ==
  ASSUME NEW S, NEW q \in Seq(S), NEW n \in S
  PROVE  /\ Append(q, n) \in Seq(S) /\ Len(Append(q, n)) = Len(q) + 1
         /\ DOMAIN Append(q, n) = 1..(Len(q) + 1)
         /\ \A k \in 1..Len(q) : Append(q, n)[k] = q[k]
         /\ Append(q, n)[Len(q) + 1] = n
OBVIOUS

LEMMA TailFacts ==
  ASSUME NEW S, NEW q \in Seq(S), q # <<>>
  PROVE  /\ Tail(q) \in Seq(S) /\ Len(Tail(q)) = Len(q) - 1 /\ Head(q) = q[1]
         /\ DOMAIN Tail(q) = 1..(Len(q) - 1)
         /\ \A k \in 1..(Len(q) - 1) : Tail(q)[k] = q[k + 1]
OBVIOUS

LEMMA Lengths ==
  ASSUME HeightTypeOK
  PROVE  /\ Len(changes) \in Nat /\ MaxChanges \in Nat /\ BufferSize \in Nat \ {0}
         /\ \A s \in Subscribers : /\ queue[s] \in Seq(1..MaxChanges) /\ Len(queue[s]) \in Nat
                                   /\ DOMAIN queue[s] = 1..Len(queue[s])
                                   /\ InQueue(s) \subseteq 1..MaxChanges
                                   /\ received[s] \subseteq 1..MaxChanges
                                   /\ dropped[s] \subseteq 1..MaxChanges
                                   /\ since[s] \in Nat
<1>1. changes \in Seq(Heights) /\ MaxChanges \in Nat /\ BufferSize \in Nat \ {0}
  BY HeightAssumption DEF HeightTypeOK
<1>2. ASSUME NEW s \in Subscribers
      PROVE  /\ queue[s] \in Seq(1..MaxChanges) /\ Len(queue[s]) \in Nat
             /\ DOMAIN queue[s] = 1..Len(queue[s])
             /\ InQueue(s) \subseteq 1..MaxChanges
  <2>1. queue[s] \in Seq(1..MaxChanges)
    BY DEF HeightTypeOK
  <2>2. /\ Len(queue[s]) \in Nat /\ DOMAIN queue[s] = 1..Len(queue[s])
        /\ \A k \in DOMAIN queue[s] : queue[s][k] \in 1..MaxChanges
    BY <2>1, SeqFacts
  <2>3. QED  BY <2>1, <2>2 DEF InQueue
<1>3. Len(changes) \in Nat
  BY <1>1, SeqFacts
<1>4. QED  BY <1>1, <1>2, <1>3 DEF HeightTypeOK, Never

\* What Append does to the members and the order of a buffer.
LEMMA Appended ==
  ASSUME HeightTypeOK, NEW s \in Subscribers, NEW n \in 1..MaxChanges,
         queue' = [queue EXCEPT ![s] = Append(queue[s], n)]
  PROVE  /\ queue'[s] \in Seq(1..MaxChanges) /\ Len(queue'[s]) = Len(queue[s]) + 1
         /\ InQueue(s)' = InQueue(s) \cup {n}
         /\ \A k \in DOMAIN queue[s] : queue'[s][k] = queue[s][k]
         /\ queue'[s][Len(queue[s]) + 1] = n
         /\ DOMAIN queue'[s] = 1..(Len(queue[s]) + 1)
<1>1. queue[s] \in Seq(1..MaxChanges) /\ queue'[s] = Append(queue[s], n)
  BY DEF HeightTypeOK
<1>2. /\ Len(queue[s]) \in Nat /\ DOMAIN queue[s] = 1..Len(queue[s])
      /\ DOMAIN queue'[s] = 1..(Len(queue[s]) + 1)
      /\ \A k \in 1..Len(queue[s]) : queue'[s][k] = queue[s][k]
      /\ queue'[s][Len(queue[s]) + 1] = n
      /\ queue'[s] \in Seq(1..MaxChanges) /\ Len(queue'[s]) = Len(queue[s]) + 1
  <2>1. Len(queue[s]) \in Nat /\ DOMAIN queue[s] = 1..Len(queue[s])
    BY <1>1, SeqFacts
  <2>2. LET q == Append(queue[s], n) IN
        /\ q \in Seq(1..MaxChanges) /\ Len(q) = Len(queue[s]) + 1
        /\ DOMAIN q = 1..(Len(queue[s]) + 1) /\ q[Len(queue[s]) + 1] = n
        /\ \A k \in 1..Len(queue[s]) : q[k] = queue[s][k]
    BY <1>1, AppendFacts
  <2>3. QED  BY <1>1, <2>1, <2>2
<1>3. InQueue(s)' = InQueue(s) \cup {n}
  BY <1>2 DEF InQueue
<1>4. QED  BY <1>2, <1>3

\* What receiving from a buffer does to them.
LEMMA Taken ==
  ASSUME HeightTypeOK, NEW s \in Subscribers, queue[s] # <<>>,
         queue' = [queue EXCEPT ![s] = Tail(queue[s])]
  PROVE  /\ queue'[s] \in Seq(1..MaxChanges) /\ Len(queue'[s]) = Len(queue[s]) - 1
         /\ Head(queue[s]) = queue[s][1] /\ 1 \in DOMAIN queue[s]
         /\ InQueue(s) = InQueue(s)' \cup {Head(queue[s])}
         /\ DOMAIN queue'[s] = 1..(Len(queue[s]) - 1)
         /\ \A k \in DOMAIN queue'[s] : k + 1 \in DOMAIN queue[s] /\ queue'[s][k] = queue[s][k + 1]
<1>1. queue[s] \in Seq(1..MaxChanges) /\ queue'[s] = Tail(queue[s])
  BY DEF HeightTypeOK
<1>2. /\ Len(queue[s]) \in Nat \ {0} /\ DOMAIN queue[s] = 1..Len(queue[s])
      /\ DOMAIN queue'[s] = 1..(Len(queue[s]) - 1)
      /\ \A k \in 1..(Len(queue[s]) - 1) : queue'[s][k] = queue[s][k + 1]
      /\ Head(queue[s]) = queue[s][1]
      /\ queue'[s] \in Seq(1..MaxChanges) /\ Len(queue'[s]) = Len(queue[s]) - 1
  <2>1. Len(queue[s]) \in Nat \ {0} /\ DOMAIN queue[s] = 1..Len(queue[s])
    BY <1>1, SeqFacts
  <2>2. QED  BY <1>1, <2>1, TailFacts
<1>3. InQueue(s)' \cup {Head(queue[s])} \subseteq InQueue(s)
  BY <1>2 DEF InQueue
<1>4. ASSUME NEW k \in DOMAIN queue[s]
      PROVE  queue[s][k] \in InQueue(s)' \cup {Head(queue[s])}
  <2>1. CASE k = 1
    BY <1>2, <2>1
  <2>2. CASE k # 1
    <3>1. k - 1 \in DOMAIN queue'[s] /\ queue'[s][k - 1] = queue[s][k]
      BY <1>2, <2>2
    <3>2. QED  BY <3>1 DEF InQueue
  <2>3. QED  BY <2>1, <2>2
<1>5. InQueue(s) \subseteq InQueue(s)' \cup {Head(queue[s])}
  BY <1>4 DEF InQueue
<1>6. QED  BY <1>2, <1>3, <1>5

-----------------------------------------------------------------------------
(* The initial state, and the steps that send nothing.                     *)

LEMMA HeightInitial == HeightInit => HeightIInv
<1> SUFFICES ASSUME HeightInit PROVE HeightIInv
  OBVIOUS
<1> USE HeightAssumption DEF HeightInit
<1>1. HeightTypeOK
  <2>1. changes \in Seq(Heights) /\ Len(changes) = 0 /\ Len(changes) <= MaxChanges
    OBVIOUS
  <2>2. queue \in [Subscribers -> Seq(1..MaxChanges)] /\ \A s \in Subscribers : Len(queue[s]) <= BufferSize
    <3>1. <<>> \in Seq(1..MaxChanges) /\ Len(<<>>) = 0 /\ 0 <= BufferSize
      OBVIOUS
    <3>2. QED  BY <3>1
  <2>3. since \in [Subscribers -> 0..Never]
    <3>1. Never \in 0..Never
      BY DEF Never
    <3>2. QED  BY <3>1
  <2>4. QED  BY <2>1, <2>2, <2>3 DEF HeightTypeOK
<1>2. \A s \in Subscribers : InQueue(s) = {} /\ ~ Subscribed(s)
  <2>1. DOMAIN <<>> = {}
    OBVIOUS
  <2>2. QED  BY <2>1 DEF InQueue, Subscribed
<1>3. QED
  BY <1>1, <1>2 DEF HeightIInv, LoopInv, SentInv, InOrder, Accounted, Known, OnWay

\* Queues, ghosts and changes stay, and no more is on its way than before.
LEMMA SilentStep ==
  ASSUME HeightIInv, UNCHANGED <<changes, queue, received, dropped, since>>,
         \A s \in Subscribers : OnWay(s)' => OnWay(s),
         \A s \in Subscribers : OnWay(s) /\ Subscribed(s) => OnWay(s)'
  PROVE  SentInv' /\ InOrder' /\ Accounted'
BY DEF HeightIInv, SentInv, InOrder, Accounted, Known, OnWay, InQueue, Subscribed

LEMMA CallSteps ==
  ASSUME HeightIInv,
         Start \/ \E c \in HeightStoppers : StopCancel(c) \/ HeightStopReturn(c)
  PROVE  HeightIInv'
<1> USE DEF Start, StopCancel, HeightStopReturn, chanVars
<1>1. HeightTypeOK'
  BY DEF HeightIInv, HeightTypeOK
<1>2. LoopInv'
  BY DEF HeightIInv, HeightTypeOK, LoopInv, Subscribed
<1>3. SentInv' /\ InOrder' /\ Accounted'
  BY SilentStep DEF HeightIInv, LoopInv, OnWay
<1>4. QED  BY <1>1, <1>2, <1>3 DEF HeightIInv

LEMMA LoopSteps ==
  ASSUME HeightIInv, LoopExit \/ PollTick \/ PollError \/ NotifyBegin \/ NotifyEnd
  PROVE  HeightIInv'
<1> USE DEF LoopExit, PollTick, PollError, NotifyBegin, NotifyEnd, Loop, LoopOnly, chanVars
<1>1. HeightTypeOK'
  BY DEF HeightIInv, HeightTypeOK
<1>2. LoopInv'
  BY DEF HeightIInv, HeightTypeOK, LoopInv, Subscribed
<1>3. SentInv' /\ InOrder' /\ Accounted'
  BY SilentStep DEF HeightIInv, LoopInv, OnWay
<1>4. QED  BY <1>1, <1>2, <1>3 DEF HeightIInv

LEMMA SubscribeStep ==
  ASSUME HeightIInv, NEW s \in Subscribers, Subscribe(s)
  PROVE  HeightIInv'
<1> USE Lengths DEF Subscribe
<1>1. since' = [since EXCEPT ![s] = Len(changes)] /\ Len(changes) \in 0..MaxChanges
      /\ since \in [Subscribers -> 0..Never]
  BY DEF HeightIInv, HeightTypeOK
<1>2. HeightTypeOK'
  BY <1>1 DEF HeightIInv, HeightTypeOK, Never
<1>3. Known(s) = {} /\ s \notin next
  BY DEF HeightIInv, LoopInv, Accounted, Known
<1>4. LoopInv'
  BY <1>1, <1>3 DEF HeightIInv, LoopInv, Subscribed, Never
<1>5. SentInv' /\ InOrder'
  <2>1. \A d \in Subscribers : Known(d)' = Known(d) /\ OnWay(d)' = OnWay(d)
    BY DEF Known, OnWay, InQueue
  <2>2. \A d \in Subscribers : Subscribed(d)' => since'[d] <= Len(changes)
    BY <1>1 DEF HeightIInv, SentInv, Subscribed, Never
  <2>3. SentInv'
    BY <2>1, <2>2 DEF HeightIInv, SentInv
  <2>4. InOrder'
    BY DEF HeightIInv, InOrder, InQueue
  <2>5. QED  BY <2>3, <2>4
<1>6. Accounted'
  <2>1. \A d \in Subscribers : Known(d)' = Known(d) /\ (OnWay(d)' <=> OnWay(d))
    BY DEF Known, OnWay, InQueue
  <2>2. ASSUME NEW d \in Subscribers
        PROVE  /\ Subscribed(d)' => (since'[d] + 1)..Len(changes) \subseteq
                     Known(d) \cup (IF OnWay(d) THEN {Len(changes)} ELSE {})
               /\ ~ Subscribed(d)' => Known(d) = {}
               /\ \A i \in Known(d) : i >= since'[d]
    <3>1. CASE d = s
      <4>1. since'[d] = Len(changes) /\ (Len(changes) + 1)..Len(changes) = {}
        BY <1>1, <3>1
      <4>2. QED  BY <1>3, <3>1, <4>1
    <3>2. CASE d # s
      <4>1. since'[d] = since[d]
        BY <1>1, <3>2
      <4>2. QED  BY <4>1 DEF HeightIInv, Accounted, Known, OnWay, Subscribed
    <3>3. QED  BY <3>1, <3>2
  <2>3. QED  BY <2>1, <2>2 DEF Accounted, Known, OnWay
<1>7. QED  BY <1>2, <1>4, <1>5, <1>6 DEF HeightIInv

-----------------------------------------------------------------------------
(* A change is observed, sent and received.                                *)

LEMMA PollStep ==
  ASSUME HeightIInv, NEW h \in Heights, PollReturns(h)
  PROVE  HeightIInv'
<1>1. CASE UNCHANGED changes
  <2>1. h = CurrentHeight
    <3>1. changes \in Seq(Heights) /\ Len(Append(changes, h)) = Len(changes) + 1 /\ Len(changes) \in Nat
      BY DEF HeightIInv, HeightTypeOK
    <3>2. changes # Append(changes, h)
      BY <3>1
    <3>3. QED  BY <1>1, <3>2 DEF PollReturns
  <2>2. HeightTypeOK' /\ LoopInv'
    BY <2>1 DEF PollReturns, Loop, LoopOnly, chanVars, HeightIInv, HeightTypeOK, LoopInv, Subscribed
  <2>3. SentInv' /\ InOrder' /\ Accounted'
    BY <2>1, SilentStep DEF PollReturns, Loop, LoopOnly, chanVars, HeightIInv, LoopInv, OnWay
  <2>4. QED  BY <2>2, <2>3 DEF HeightIInv
<1>2. CASE /\ Len(changes) < MaxChanges /\ changes' = Append(changes, h)
           /\ Loop("poll", "lock")
           /\ UNCHANGED <<started, cancelled, next, chanVars, heightStop>>
  <2> USE <1>2 DEF Loop, chanVars
  <2>1. changes' \in Seq(Heights) /\ Len(changes') = Len(changes) + 1 /\ Len(changes) \in Nat
    BY DEF HeightIInv, HeightTypeOK
  <2>2. HeightTypeOK'
    <3>1. Len(changes') <= MaxChanges
      BY <2>1, HeightAssumption
    <3>2. QED  BY <2>1, <3>1 DEF HeightIInv, HeightTypeOK
  <2>3. LoopInv' /\ next = {}
    BY <2>1 DEF HeightIInv, LoopInv, Subscribed
  <2>4. \A s \in Subscribers : Known(s)' = Known(s) /\ Known(s) \subseteq Nat /\ since[s] \in Nat
    BY Lengths DEF HeightIInv, Known, InQueue
  <2>5. SentInv'
    <3>1. ASSUME NEW s \in Subscribers
          PROVE  /\ Subscribed(s) => since[s] <= Len(changes')
                 /\ \A i \in Known(s) : i <= Len(changes') /\ i < Len(changes')
      BY <2>1, <2>4 DEF HeightIInv, SentInv
    <3>2. QED  BY <2>4, <3>1 DEF HeightIInv, SentInv, Subscribed
  <2>6. InOrder'
    BY DEF HeightIInv, InOrder, InQueue
  <2>7. Accounted'
    <3>1. ASSUME NEW s \in Subscribers, Subscribed(s)
          PROVE  (since[s] + 1)..Len(changes') \subseteq Known(s) \cup {Len(changes')}
      <4>1. (since[s] + 1)..Len(changes) \subseteq Known(s)
        BY <2>3, <3>1 DEF HeightIInv, Accounted, Known
      <4>2. QED  BY <2>1, <2>4, <4>1
    <3>2. QED  BY <2>4, <3>1 DEF HeightIInv, Accounted, Known, Subscribed, InQueue
  <2>8. QED  BY <2>2, <2>3, <2>5, <2>6, <2>7 DEF HeightIInv
<1>3. QED
  BY <1>1, <1>2 DEF PollReturns, LoopOnly

\* What is sent is younger than all that was.
LEMMA NotifyStep ==
  ASSUME HeightIInv, NEW s \in Subscribers, Notify(s)
  PROVE  HeightIInv'
<1> DEFINE n == Len(changes)
<1>1. /\ s \in next /\ loop = "notify" /\ Subscribed(s) /\ next' = next \ {s}
      /\ UNCHANGED <<started, cancelled, changes, loop, since, received, heightStop>>
  BY DEF Notify, HeightIInv, LoopInv
<1>2. n \in 1..MaxChanges /\ n \in Nat
  BY <1>1, Lengths DEF HeightIInv, HeightTypeOK, LoopInv
<1>3. \A i \in Known(s) : i < n
  BY <1>1 DEF HeightIInv, SentInv, OnWay
<1>4. /\ queue' \in [Subscribers -> Seq(1..MaxChanges)]
      /\ dropped' \in [Subscribers -> SUBSET (1..MaxChanges)]
      /\ \A d \in Subscribers : Len(queue'[d]) <= BufferSize
      /\ \A d \in Subscribers \ {s} : queue'[d] = queue[d] /\ dropped'[d] = dropped[d]
      /\ Known(s)' = Known(s) \cup {n}
      /\ InQueue(s)' \subseteq InQueue(s) \cup {n}
      /\ \A j, k \in DOMAIN queue'[s] : j < k => queue'[s][j] < queue'[s][k]
  <2>1. CASE Len(queue[s]) < BufferSize
    <3>1. queue' = [queue EXCEPT ![s] = Append(queue[s], n)] /\ dropped' = dropped
      BY <2>1 DEF Notify
    <3>2. /\ queue'[s] \in Seq(1..MaxChanges) /\ Len(queue'[s]) = Len(queue[s]) + 1
          /\ InQueue(s)' = InQueue(s) \cup {n}
          /\ \A k \in DOMAIN queue[s] : queue'[s][k] = queue[s][k]
          /\ queue'[s][Len(queue[s]) + 1] = n
          /\ DOMAIN queue'[s] = 1..(Len(queue[s]) + 1)
      BY <1>2, <3>1, Appended DEF HeightIInv
    <3>3. Len(queue'[s]) <= BufferSize
      BY <2>1, <3>2, Lengths DEF HeightIInv
    <3>4. Known(s)' = Known(s) \cup {n}
      BY <1>1, <3>1, <3>2 DEF Known
    <3>5. ASSUME NEW j \in DOMAIN queue'[s], NEW k \in DOMAIN queue'[s], j < k
          PROVE  queue'[s][j] < queue'[s][k]
      <4>1. j \in DOMAIN queue[s]
        BY <3>2, <3>5, Lengths DEF HeightIInv
      <4>2. queue[s][j] < n
        BY <1>3, <4>1 DEF Known, InQueue
      <4>3. CASE k \in DOMAIN queue[s]
        BY <3>2, <3>5, <4>1, <4>3 DEF HeightIInv, InOrder
      <4>4. CASE k \notin DOMAIN queue[s]
        <5>1. k = Len(queue[s]) + 1
          <6>1. Len(queue[s]) \in Nat /\ DOMAIN queue[s] = 1..Len(queue[s])
            BY <1>2, Lengths DEF HeightIInv
          <6>2. k \in 1..(Len(queue[s]) + 1) /\ k \notin 1..Len(queue[s])
            BY <3>2, <4>4, <6>1
          <6>3. QED  BY <6>1, <6>2
        <5>2. QED  BY <3>2, <4>1, <4>2, <5>1
      <4>5. QED  BY <4>3, <4>4
    <3>6. QED
      BY <3>1, <3>2, <3>3, <3>4, <3>5 DEF HeightIInv, HeightTypeOK
  <2>2. CASE ~ (Len(queue[s]) < BufferSize)
    <3>1. queue' = queue /\ dropped' = [dropped EXCEPT ![s] = dropped[s] \cup {n}]
      BY <2>2 DEF Notify
    <3>2. Known(s)' = Known(s) \cup {n} /\ InQueue(s)' = InQueue(s)
      BY <1>1, <3>1 DEF Known, InQueue, HeightIInv, HeightTypeOK
    <3>3. QED
      BY <1>2, <3>1, <3>2 DEF HeightIInv, HeightTypeOK, InOrder
  <2>3. QED  BY <2>1, <2>2
<1>5. HeightTypeOK'
  BY <1>1, <1>4 DEF HeightIInv, HeightTypeOK
<1>6. LoopInv'
  BY <1>1 DEF HeightIInv, LoopInv, Subscribed
<1>7. \A d \in Subscribers \ {s} : Known(d)' = Known(d) /\ InQueue(d)' = InQueue(d) /\ OnWay(d)' = OnWay(d)
  BY <1>1, <1>4 DEF Known, InQueue, OnWay
<1>8. ~ OnWay(s)'
  BY <1>1 DEF OnWay
<1>9. \A i \in Known(s)' : i <= n
  <2>1. Known(s) \subseteq 1..MaxChanges
    BY Lengths DEF HeightIInv, Known
  <2>2. QED  BY <1>2, <1>3, <1>4, <2>1
<1>10. SentInv'
  BY <1>1, <1>7, <1>8, <1>9 DEF HeightIInv, SentInv, Subscribed
<1>11. InOrder'
  <2>1. \A i \in received[s] : \A j \in InQueue(s)' : i < j
    <3>1. \A i \in received[s] : i < n
      BY <1>3 DEF Known
    <3>2. QED  BY <1>4, <3>1 DEF HeightIInv, InOrder
  <2>2. QED  BY <1>1, <1>4, <1>7, <2>1 DEF HeightIInv, InOrder
<1>12. Accounted'
  <2>1. (since[s] + 1)..n \subseteq Known(s)'
    BY <1>1, <1>4 DEF HeightIInv, Accounted, Known
  <2>2. since[s] <= n
    BY <1>1 DEF HeightIInv, SentInv
  <2>3. \A i \in Known(s)' : i >= since[s]
    BY <1>2, <1>4, <2>2, Lengths DEF HeightIInv, Accounted, Known
  <2>4. QED
    BY <1>1, <1>7, <2>1, <2>3 DEF HeightIInv, Accounted, Known, OnWay, Subscribed
<1>13. QED  BY <1>5, <1>6, <1>10, <1>11, <1>12 DEF HeightIInv

LEMMA ReceiveStep ==
  ASSUME HeightIInv, NEW s \in Subscribers, Receive(s)
  PROVE  HeightIInv'
<1> DEFINE n == Head(queue[s])
<1>1. /\ queue[s] # <<>> /\ received' = [received EXCEPT ![s] = received[s] \cup {n}]
      /\ queue' = [queue EXCEPT ![s] = Tail(queue[s])]
      /\ UNCHANGED <<started, cancelled, changes, loop, next, since, dropped, heightStop>>
  BY DEF Receive
<1>2. /\ queue'[s] \in Seq(1..MaxChanges) /\ Len(queue'[s]) = Len(queue[s]) - 1
      /\ n = queue[s][1] /\ 1 \in DOMAIN queue[s]
      /\ InQueue(s) = InQueue(s)' \cup {n}
      /\ DOMAIN queue'[s] = 1..(Len(queue[s]) - 1)
      /\ \A k \in DOMAIN queue'[s] : k + 1 \in DOMAIN queue[s] /\ queue'[s][k] = queue[s][k + 1]
  BY <1>1, Taken DEF HeightIInv
<1>3. n \in InQueue(s) /\ n \in 1..MaxChanges
  BY <1>2, Lengths DEF HeightIInv
<1>4. received'[s] = received[s] \cup {n} /\ Known(s)' = Known(s)
  BY <1>1, <1>2 DEF HeightIInv, HeightTypeOK, Known
<1>5. \A d \in Subscribers \ {s} : /\ queue'[d] = queue[d] /\ received'[d] = received[d]
                                   /\ Known(d)' = Known(d) /\ InQueue(d)' = InQueue(d)
  BY <1>1 DEF HeightIInv, HeightTypeOK, Known, InQueue
<1>6. HeightTypeOK'
  <2>1. Len(queue'[s]) <= BufferSize
    BY <1>2, Lengths DEF HeightIInv, HeightTypeOK
  <2>2. QED  BY <1>1, <1>2, <1>3, <2>1 DEF HeightIInv, HeightTypeOK
<1>7. LoopInv'
  BY <1>1 DEF HeightIInv, LoopInv, Subscribed
<1>8. SentInv'
  <2>1. \A m \in received[s] : m < n
    BY <1>3 DEF HeightIInv, InOrder
  <2>2. \A m \in received'[s] : m <= n
    BY <1>3, <1>4, <2>1, Lengths DEF HeightIInv
  <2>3. QED  BY <1>1, <1>4, <1>5, <2>2 DEF HeightIInv, SentInv, OnWay, Subscribed
<1>9. InOrder'
  <2>1. ASSUME NEW j \in DOMAIN queue'[s], NEW k \in DOMAIN queue'[s], j < k
        PROVE  queue'[s][j] < queue'[s][k]
    <3>1. j + 1 < k + 1
      BY <1>2, <2>1, Lengths DEF HeightIInv
    <3>2. QED  BY <1>2, <3>1 DEF HeightIInv, InOrder
  <2>2. ASSUME NEW j \in InQueue(s)'
        PROVE  n < j
    <3>1. PICK k \in DOMAIN queue'[s] : j = queue'[s][k]
      BY DEF InQueue
    <3>2. 1 < k + 1 /\ k + 1 \in DOMAIN queue[s] /\ j = queue[s][k + 1]
      BY <1>2, <3>1, Lengths DEF HeightIInv
    <3>3. QED  BY <1>2, <3>2 DEF HeightIInv, InOrder
  <2>3. \A i \in received[s] : \A j \in InQueue(s)' : i < j
    BY <1>2 DEF HeightIInv, InOrder
  <2>4. QED  BY <1>4, <1>5, <2>1, <2>2, <2>3 DEF HeightIInv, InOrder
<1>10. Accounted'
  BY <1>1, <1>4, <1>5 DEF HeightIInv, Accounted, Known, Subscribed
<1>11. QED  BY <1>6, <1>7, <1>8, <1>9, <1>10 DEF HeightIInv

-----------------------------------------------------------------------------
(* The theorems.                                                           *)

LEMMA HeightStep == HeightIInv /\ [HeightNext]_heightVars => HeightIInv'
<1> SUFFICES ASSUME HeightIInv, [HeightNext]_heightVars PROVE HeightIInv'
  OBVIOUS
<1>1. CASE HeightNext
  BY <1>1, CallSteps, LoopSteps, SubscribeStep, PollStep, NotifyStep, ReceiveStep
     DEF HeightNext, MonitorLoop
<1>2. CASE UNCHANGED heightVars
  <2>1. HeightTypeOK' /\ LoopInv'
    BY <1>2 DEF heightVars, chanVars, HeightIInv, HeightTypeOK, LoopInv, Subscribed
  <2>2. SentInv' /\ InOrder' /\ Accounted'
    BY <1>2, SilentStep DEF heightVars, chanVars, OnWay
  <2>3. QED  BY <2>1, <2>2 DEF HeightIInv
<1>3. QED  BY <1>1, <1>2

LEMMA HeightInductive == HeightSpec => []HeightIInv
<1>1. QED  BY HeightInitial, HeightStep, PTL DEF HeightSpec

\* HeightInv: what a subscriber receives is in order, and every change it does
\* not receive is buffered, on its way or reported as dropped (notifySubscribers).
THEOREM HeightInvariant == HeightSpec => []HeightInv
<1>1. HeightIInv => HeightInv  BY DEF HeightIInv, HeightInv
<1>2. QED  BY <1>1, HeightInductive, PTL

\* QuietAfterStop: once a Stop has returned nothing is observed, dropped or sent
\* any more, whoever calls Start or Subscribe then (Stop, started).
THEOREM QuietFromStop == HeightSpec => QuietAfterStop
<1> DEFINE Quiet == /\ UNCHANGED <<changes, dropped>>
                    /\ \A s \in Subscribers : Len(queue'[s]) <= Len(queue[s])
<1>1. ASSUME HeightIInv, HeightNext, NEW c \in HeightStoppers, heightStop[c] = "returned"
      PROVE  Quiet
  <2>1. loop = "exited" /\ started /\ next = {}
    BY <1>1 DEF HeightIInv, LoopInv
  <2>2. ASSUME NEW s \in Subscribers, Receive(s)
        PROVE  Quiet
    <3>1. queue[s] # <<>> /\ queue' = [queue EXCEPT ![s] = Tail(queue[s])]
          /\ UNCHANGED <<changes, dropped>>
      BY <2>2 DEF Receive
    <3>2. Len(queue'[s]) = Len(queue[s]) - 1 /\ Len(queue[s]) \in Nat
      BY <1>1, <3>1, Taken, Lengths DEF HeightIInv
    <3>3. \A d \in Subscribers \ {s} : queue'[d] = queue[d] /\ Len(queue[d]) \in Nat
      BY <1>1, <3>1, Lengths DEF HeightIInv, HeightTypeOK
    <3>4. QED  BY <3>1, <3>2, <3>3
  <2>3. CASE UNCHANGED <<changes, dropped, queue>>
    BY <1>1, <2>3, Lengths DEF HeightIInv
  <2>4. QED
    BY <1>1, <2>1, <2>2, <2>3
       DEF HeightNext, MonitorLoop, Start, Subscribe, StopCancel, HeightStopReturn, LoopExit,
           PollTick, PollError, PollReturns, NotifyBegin, Notify, NotifyEnd, Loop, chanVars
<1>2. HeightIInv /\ [HeightNext]_heightVars =>
        [(\E c \in HeightStoppers : heightStop[c] = "returned") => Quiet]_heightVars
  BY <1>1
<1>3. QED  BY <1>2, HeightInductive, PTL DEF HeightSpec, QuietAfterStop

-----------------------------------------------------------------------------
(* The refinement: what a subscriber sees is a HeightFeed.                 *)

\* The last received is the greatest, which is there and is the only one.
LEMMA LastIs ==
  ASSUME NEW s \in Subscribers, received[s] \subseteq Nat \ {0},
         NEW n \in received[s] \cup {0}, \A m \in received[s] : m <= n
  PROVE  LastReceived(s) = n
<1>1. \A k \in received[s] \cup {0} : (\A m \in received[s] : m <= k) => k = n
  <2>1. ASSUME NEW k \in received[s] \cup {0}, \A m \in received[s] : m <= k
        PROVE  k = n
    <3>1. k \in Nat /\ n \in Nat /\ (k = 0 => received[s] = {}) /\ (n = 0 => received[s] = {})
      BY <2>1
    <3>2. CASE k \in received[s] /\ n \in received[s]
      BY <2>1, <3>1, <3>2
    <3>3. CASE ~ (k \in received[s] /\ n \in received[s])
      BY <3>1, <3>3
    <3>4. QED  BY <3>2, <3>3
  <2>2. QED  BY <2>1
<1>2. QED  BY <1>1 DEF LastReceived

LEMMA LastAfter ==
  ASSUME NEW s \in Subscribers, received'[s] \subseteq Nat \ {0},
         NEW n \in received'[s] \cup {0}, \A m \in received'[s] : m <= n
  PROVE  LastReceived(s)' = n
<1>1. \A k \in received'[s] \cup {0} : (\A m \in received'[s] : m <= k) => k = n
  <2>1. ASSUME NEW k \in received'[s] \cup {0}, \A m \in received'[s] : m <= k
        PROVE  k = n
    <3>1. k \in Nat /\ n \in Nat /\ (k = 0 => received'[s] = {}) /\ (n = 0 => received'[s] = {})
      BY <2>1
    <3>2. CASE k \in received'[s] /\ n \in received'[s]
      BY <2>1, <3>1, <3>2
    <3>3. CASE ~ (k \in received'[s] /\ n \in received'[s])
      BY <3>1, <3>3
    <3>4. QED  BY <3>2, <3>3
  <2>2. QED  BY <2>1
<1>2. QED  BY <1>1 DEF LastReceived

\* The last message of a buffer is one that is known.
LEMMA LastSentKnown ==
  ASSUME HeightIInv, NEW s \in Subscribers
  PROVE  IF queue[s] = <<>> THEN LastReceived(s) \in received[s] \cup {0}
                             ELSE queue[s][Len(queue[s])] \in InQueue(s)
<1>1. PICK n \in received[s] \cup {0} : \A m \in received[s] : m <= n
  BY DEF HeightIInv, SentInv
<1>2. LastReceived(s) = n
  BY <1>1, LastIs, Lengths DEF HeightIInv
<1>3. queue[s] # <<>> => Len(queue[s]) \in DOMAIN queue[s]
  <2>1. queue[s] \in Seq(1..MaxChanges)
    BY Lengths DEF HeightIInv
  <2>2. QED  BY <2>1, SeqFacts
<1>4. QED  BY <1>2, <1>3 DEF InQueue

\* One subscriber's view of one step of the monitor.
LEMMA FeedStep ==
  ASSUME HeightIInv, HeightNext, NEW s \in Subscribers
  PROVE  Feed(s)!FeedNext \/ UNCHANGED <<changes, queue[s], LastReceived(s)>>
<1>1. ASSUME NEW h \in Heights, PollReturns(h)
      PROVE  Feed(s)!FeedNext \/ UNCHANGED <<changes, queue[s], LastReceived(s)>>
  <2>1. UNCHANGED <<queue, received>>
    BY <1>1 DEF PollReturns, LoopOnly, chanVars
  <2>2. UNCHANGED <<queue[s], LastReceived(s)>>
    BY <2>1 DEF LastReceived
  <2>3. CASE UNCHANGED changes
    BY <2>2, <2>3
  <2>4. CASE h # CurrentHeight
    BY <1>1, <2>2, <2>4
       DEF PollReturns, CurrentHeight, Feed!FeedNext, Feed!Observe, Feed!Observed
  <2>5. QED  BY <1>1, <2>3, <2>4 DEF PollReturns, LoopOnly
<1>2. ASSUME NEW d \in Subscribers, Notify(d)
      PROVE  Feed(s)!FeedNext \/ UNCHANGED <<changes, queue[s], LastReceived(s)>>
  <2>1. UNCHANGED <<changes, received, LastReceived(s)>>
    BY <1>2 DEF Notify, LastReceived
  <2>2. CASE d = s /\ Len(queue[s]) < BufferSize
    <3>1. queue'[s] = Append(queue[s], Len(changes))
      BY <1>2, <2>2 DEF Notify, HeightIInv, HeightTypeOK
    <3>2. (IF queue[s] = <<>> THEN LastReceived(s) ELSE queue[s][Len(queue[s])]) < Len(changes)
      <4>1. s \in next /\ Len(changes) > 0 /\ Len(changes) \in Nat
        BY <1>2, <2>2, Lengths DEF Notify, HeightIInv, LoopInv
      <4>2. \A i \in received[s] \cup InQueue(s) \cup {0} : i < Len(changes)
        BY <4>1 DEF HeightIInv, SentInv, Known, OnWay
      <4>3. QED  BY <4>2, LastSentKnown
    <3>3. Feed(s)!Publish
      BY <2>1, <2>2, <3>1, <3>2 DEF Feed!Publish, Feed!LastSent
    <3>4. QED  BY <3>3 DEF Feed!FeedNext
  <2>3. CASE ~ (d = s /\ Len(queue[s]) < BufferSize)
    <3>1. queue'[s] = queue[s]
      BY <1>2, <2>3 DEF Notify, HeightIInv, HeightTypeOK
    <3>2. QED  BY <2>1, <3>1
  <2>4. QED  BY <2>2, <2>3
<1>3. ASSUME NEW d \in Subscribers, Receive(d)
      PROVE  Feed(s)!FeedNext \/ UNCHANGED <<changes, queue[s], LastReceived(s)>>
  <2>1. /\ queue[d] # <<>> /\ changes' = changes
        /\ queue' = [queue EXCEPT ![d] = Tail(queue[d])]
        /\ received' = [received EXCEPT ![d] = received[d] \cup {Head(queue[d])}]
    BY <1>3 DEF Receive
  <2>2. CASE d # s
    <3>1. queue'[s] = queue[s] /\ received'[s] = received[s]
      BY <2>1, <2>2 DEF HeightIInv, HeightTypeOK
    <3>2. QED  BY <2>1, <3>1 DEF LastReceived
  <2>3. CASE d = s
    <3>1. Head(queue[s]) = queue[s][1] /\ 1 \in DOMAIN queue[s]
      BY <2>1, <2>3, Taken DEF HeightIInv
    <3>2. Head(queue[s]) \in InQueue(s) /\ Head(queue[s]) \in Nat \ {0}
      BY <3>1, Lengths DEF HeightIInv, InQueue
    <3>3. received'[s] = received[s] \cup {Head(queue[s])} /\ received[s] \subseteq Nat \ {0}
      BY <2>1, <2>3, Lengths DEF HeightIInv, HeightTypeOK
    <3>4. \A m \in received'[s] : m <= Head(queue[s])
      BY <3>2, <3>3 DEF HeightIInv, InOrder
    <3>5. LastReceived(s)' = Head(queue[s])
      BY <3>2, <3>3, <3>4, LastAfter
    <3>6. queue'[s] = Tail(queue[s])
      BY <2>1, <2>3 DEF HeightIInv, HeightTypeOK
    <3>7. QED  BY <2>1, <2>3, <3>5, <3>6 DEF Feed!FeedNext, Feed!Receive
  <2>4. QED  BY <2>2, <2>3
<1>4. CASE UNCHANGED <<changes, queue, received>>
  BY <1>4 DEF LastReceived
<1>5. QED
  BY <1>1, <1>2, <1>3, <1>4
     DEF HeightNext, MonitorLoop, Start, Subscribe, StopCancel, HeightStopReturn, LoopExit,
         PollTick, PollError, NotifyBegin, NotifyEnd, LoopOnly, chanVars

\* IsHeightFeed: each subscription implements HeightFeed, initial state to initial
\* state and every step of the monitor to a step of the feed or a stutter.
THEOREM MonitorIsFeed == HeightSpec => IsHeightFeed
<1>1. HeightInit => \A s \in Subscribers : Feed(s)!FeedInit
  <2>1. ASSUME HeightInit, NEW s \in Subscribers
        PROVE  LastReceived(s) = 0
    <3>1. received[s] = {}
      BY <2>1 DEF HeightInit
    <3>2. QED  BY <3>1, LastIs
  <2>2. QED  BY <2>1 DEF HeightInit, Feed!FeedInit
<1>2. HeightIInv /\ [HeightNext]_heightVars =>
        [\A s \in Subscribers :
           Feed(s)!FeedNext \/ UNCHANGED <<changes, queue[s], LastReceived(s)>>]_heightVars
  BY FeedStep
<1>3. QED  BY <1>1, <1>2, HeightInductive, PTL DEF HeightSpec, IsHeightFeed

-----------------------------------------------------------------------------
(***************************************************************************)
(* The upgrade file watcher, for any waiters and monitors: WatcherInv, for *)
(* one waiter, and that no detection follows Stop.                         *)
(*                                                                         *)
(* With one waiter nobody clears the flag between its reading and its      *)
(* clearing, so the flag, and a waiter that has seen it, stand for an      *)
(* upgrade that is detected and not handed out.                            *)
(***************************************************************************)

\* While a waiter has seen the flag, or the flag is set, an upgrade that was
\* detected has not been handed out.
FlagInv ==
  /\ handed <= detected
  /\ needsUpdate => handed < detected
  /\ \A w \in Waiters : wait[w] \in {"get", "clear"} => handed < detected

\* The bounds of the counters, and the lock, which Start or one monitor holds.
CounterInv ==
  /\ writer # "idle" => mtime <= MaxWrites
  /\ starting => starts < MaxStarts

LockInv ==
  /\ starting => locked /\ \A m \in Monitors : monitor[m] # "parse"
  /\ \A m \in Monitors : monitor[m] = "parse" =>
       locked /\ \A n \in Monitors : monitor[n] = "parse" => m = n

WatcherIInv == TypeOK /\ CounterInv /\ LockInv

LEMMA WatcherInitial == Init => WatcherIInv /\ FlagInv
<1> SUFFICES ASSUME Init PROVE WatcherIInv /\ FlagInv
  OBVIOUS
<1> USE WatcherAssumption DEF Init, FileInit, WatcherInit, WaitInit
<1>1. mtime \in 0..(MaxWrites + 1) /\ starts \in 0..MaxStarts /\ lastMod \in 0..mtime
      /\ seen \in 0..mtime
  OBVIOUS
<1>2. TypeOK
  BY <1>1 DEF TypeOK, Monitors
<1>3. CounterInv /\ LockInv /\ FlagInv
  BY DEF CounterInv, LockInv, FlagInv
<1>4. QED  BY <1>2, <1>3 DEF WatcherIInv

\* What the watcher and the commands may do to the flag.
FlagMove == /\ UNCHANGED waitVars
            /\ UNCHANGED flagVars \/ UNCHANGED <<needsUpdate, detected>> \/ Detect

LEMMA FlagMoveTypes ==
  WatcherIInv /\ FlagMove => detected' \in Nat /\ needsUpdate' \in BOOLEAN
<1> SUFFICES ASSUME WatcherIInv, FlagMove
             PROVE  detected' \in Nat /\ needsUpdate' \in BOOLEAN
  OBVIOUS
<1> USE DEF WatcherIInv, TypeOK
<1>1. CASE UNCHANGED flagVars \/ UNCHANGED <<needsUpdate, detected>>
  BY <1>1 DEF flagVars
<1>2. CASE Detect
  BY <1>2 DEF Detect
<1>3. QED  BY <1>1, <1>2 DEF FlagMove

LEMMA CommandSteps == WatcherIInv /\ Commands => WatcherIInv' /\ FlagMove
<1> SUFFICES ASSUME WatcherIInv, Commands PROVE WatcherIInv' /\ FlagMove
  OBVIOUS
<1> USE WatcherAssumption DEF WatcherIInv
<1>1. KeepsWatcher
  BY DEF Commands, ScheduleTruncate, ScheduleWrite, ScheduleDies, Cancel
<1>2. FlagMove
  BY <1>1 DEF KeepsWatcher, FlagMove
<1>3. /\ mtime' \in 0..(MaxWrites + 1) /\ mtime <= mtime'
      /\ file' \in Plans \cup {"missing", "empty", "garbage"}
      /\ writer' \in Plans \cup {"idle", "garbage"}
      /\ writer' # "idle" => mtime' <= MaxWrites
  BY DEF Commands, ScheduleTruncate, ScheduleWrite, ScheduleDies, Cancel, Modify, TypeOK, CounterInv
<1>4. TypeOK' /\ CounterInv' /\ LockInv'
  BY <1>1, <1>3 DEF TypeOK, CounterInv, LockInv, KeepsWatcher, flagVars, checkVars, stopVars, waitVars
<1>5. QED  BY <1>2, <1>4

LEMMA LaunchSteps ==
  ASSUME WatcherIInv, Launch, starts < MaxStarts
  PROVE  /\ monitor' \in [Monitors -> {"none", "select", "lock", "parse", "exited"}]
         /\ \A m \in Monitors : monitor'[m] = "parse" => monitor[m] = "parse"
         /\ starts' \in 0..MaxStarts /\ initialized' \in BOOLEAN
<1> USE WatcherAssumption DEF WatcherIInv, TypeOK, Launch, Monitors
<1>1. starts' \in 0..MaxStarts
  OBVIOUS
<1>2. QED  BY <1>1

LEMMA StartSteps ==
  ASSUME WatcherIInv, StartStat \/ StartParse
  PROVE  WatcherIInv' /\ FlagMove
<1> USE DEF KeepsCheck, fileVars, flagVars, checkVars, stopVars, waitVars
<1>1. starts < MaxStarts /\ UNCHANGED <<fileVars, stopVars, waitVars, panicked, needsUpdate, detected>>
  BY DEF StartStat, StartParse, WatcherIInv, CounterInv
<1>2. FlagMove /\ detected' \in Nat /\ needsUpdate' \in BOOLEAN
  BY <1>1, FlagMoveTypes DEF FlagMove
<1>3. /\ monitor' \in [Monitors -> {"none", "select", "lock", "parse", "exited"}]
      /\ \A m \in Monitors : monitor'[m] = "parse" => monitor[m] = "parse"
      /\ starts' \in 0..MaxStarts /\ initialized' \in BOOLEAN
  <2>1. Launch \/ UNCHANGED <<monitor, starts, initialized>>
    BY DEF StartStat, StartParse
  <2>2. QED  BY <1>1, <2>1, LaunchSteps DEF WatcherIInv, TypeOK
<1>4. /\ locked' \in BOOLEAN /\ starting' \in BOOLEAN
      /\ starting' => (locked' /\ starts' < MaxStarts)
      /\ lastMod' \in {lastMod, seen} /\ seen' \in {seen, mtime}
      /\ current' \in Plans \cup {NoPlan}
      /\ \A m \in Monitors : monitor[m] # "parse"
  <2>1. CASE StartStat
    BY <2>1 DEF StartStat, WatcherIInv, TypeOK, LockInv, Launch
  <2>2. CASE StartParse
    BY <2>2 DEF StartParse, WatcherIInv, TypeOK, LockInv
  <2>3. QED  BY <2>1, <2>2
<1>5. mtime \in 0..mtime
  BY DEF WatcherIInv, TypeOK
<1>6. TypeOK'
  <2>1. lastMod' \in 0..mtime' /\ seen' \in 0..mtime'
    BY <1>1, <1>4, <1>5 DEF WatcherIInv, TypeOK
  <2>2. UNCHANGED <<file, mtime, writer, stopChan, stopped, stop, wait, given, handed, panicked>>
    BY <1>1
  <2>3. QED  BY <1>2, <1>3, <1>4, <2>1, <2>2 DEF WatcherIInv, TypeOK
<1>7. CounterInv'
  BY <1>1, <1>4 DEF WatcherIInv, CounterInv
<1>8. LockInv'
  BY <1>3, <1>4 DEF LockInv
<1>9. QED  BY <1>2, <1>6, <1>7, <1>8 DEF WatcherIInv

LEMMA CheckSteps ==
  ASSUME WatcherIInv, NEW m \in Monitors, Check(m)
  PROVE  WatcherIInv' /\ FlagMove
<1> USE DEF KeepsCheck, Monitor, fileVars, flagVars, checkVars, stopVars, waitVars
<1>1. /\ UNCHANGED <<fileVars, stopChan, stop, waitVars, initialized, starting, starts>>
      /\ monitor' \in [Monitors -> {"none", "select", "lock", "parse", "exited"}]
      /\ stopped' \in BOOLEAN /\ panicked' \in BOOLEAN
  BY DEF Check, Tick, CheckStat, CheckForUpdate, MonitorExit, WatcherIInv, TypeOK
<1>2. UNCHANGED flagVars \/ (Detect /\ file \in Plans)
  <2>1. CASE CheckForUpdate(m)
    BY <2>1 DEF CheckForUpdate
  <2>2. CASE Tick(m)         BY <2>2 DEF Tick
  <2>3. CASE CheckStat(m)    BY <2>3 DEF CheckStat
  <2>4. CASE MonitorExit(m)  BY <2>4 DEF MonitorExit
  <2>5. QED  BY <2>1, <2>2, <2>3, <2>4 DEF Check
<1>3. lastMod' \in {lastMod, seen} /\ seen' \in {seen, mtime} /\ locked' \in BOOLEAN
  BY DEF Check, Tick, CheckStat, CheckForUpdate, MonitorExit, WatcherIInv, TypeOK
<1>4. FlagMove /\ detected' \in Nat /\ needsUpdate' \in BOOLEAN
  <2>1. FlagMove
    BY <1>1, <1>2 DEF FlagMove
  <2>2. QED  BY <2>1, FlagMoveTypes
<1>5. LockInv'
  <2> USE DEF WatcherIInv, TypeOK, LockInv
  <2>1. CASE Tick(m)            BY <2>1 DEF Tick
  <2>2. CASE CheckStat(m)       BY <2>2 DEF CheckStat
  <2>3. CASE CheckForUpdate(m)  BY <2>3 DEF CheckForUpdate
  <2>4. CASE MonitorExit(m)     BY <2>4 DEF MonitorExit
  <2>5. QED  BY <2>1, <2>2, <2>3, <2>4 DEF Check
<1>6. TypeOK' /\ CounterInv'
  <2>1. mtime \in 0..mtime /\ current' \in Plans \cup {NoPlan}
    BY <1>2 DEF Detect, WatcherIInv, TypeOK
  <2>2. QED  BY <1>1, <1>3, <1>4, <2>1 DEF WatcherIInv, TypeOK, CounterInv
<1>7. QED  BY <1>4, <1>5, <1>6 DEF WatcherIInv

LEMMA StopSteps ==
  ASSUME WatcherIInv, NEW c \in Stoppers, Stop(c)
  PROVE  WatcherIInv' /\ FlagMove
<1> USE DEF KeepsStop, StopStep, fileVars, flagVars, checkVars, stopVars, waitVars
<1>1. /\ UNCHANGED <<fileVars, flagVars, lastMod, seen, starting, starts, monitor, waitVars, locked,
                     stopped>>
      /\ initialized' \in BOOLEAN /\ stopChan' \in BOOLEAN /\ panicked' \in BOOLEAN
      /\ stop' \in [Stoppers -> {"idle", "close", "waiting", "returned", "unused"}]
  BY DEF Stop, StopGoesOn, StopEnter, StopClose, StopReturn, WatcherIInv, TypeOK
<1>2. QED  BY <1>1 DEF WatcherIInv, TypeOK, CounterInv, LockInv, FlagMove

LEMMA WaitSteps ==
  ASSUME WatcherIInv, NEW w \in Waiters, WaitCall(w) \/ WaitGoesOn(w)
  PROVE  WatcherIInv'
<1> USE DEF KeepsWait, WaitStep, fileVars, checkVars, stopVars, waitVars, NeedsUpdate,
            GetCurrentUpgrade, ClearUpdateFlag
<1>1. /\ UNCHANGED <<fileVars, current, detected, checkVars, monitor, stopVars, panicked>>
      /\ wait' \in [Waiters -> {"idle", "poll", "get", "clear"}]
      /\ given' \in [Waiters -> Plans \cup {NoPlan}]
      /\ handed' \in {handed, handed + 1} /\ needsUpdate' \in {needsUpdate, FALSE}
  <2> USE DEF WatcherIInv, TypeOK
  <2>1. CASE WaitCall(w)     BY <2>1 DEF WaitCall
  <2>2. CASE WaitStopped(w)  BY <2>2 DEF WaitStopped
  <2>3. CASE WaitPoll(w)     BY <2>3 DEF WaitPoll
  <2>4. CASE WaitGet(w)      BY <2>4 DEF WaitGet
  <2>5. CASE WaitClear(w)    BY <2>5 DEF WaitClear
  <2>6. QED  BY <2>1, <2>2, <2>3, <2>4, <2>5 DEF WaitGoesOn
<1>2. TypeOK' /\ CounterInv' /\ LockInv'
  <2>1. handed' \in Nat
    BY <1>1 DEF WatcherIInv, TypeOK
  <2>2. needsUpdate' \in BOOLEAN
    BY <1>1 DEF WatcherIInv, TypeOK
  <2>3. QED  BY <1>1, <2>1, <2>2 DEF WatcherIInv, TypeOK, CounterInv, LockInv
<1>3. QED  BY <1>2 DEF WatcherIInv

LEMMA WatcherStep == WatcherIInv /\ [Next]_vars => WatcherIInv'
<1> SUFFICES ASSUME WatcherIInv, [Next]_vars PROVE WatcherIInv'
  OBVIOUS
<1>1. CASE UNCHANGED vars
  BY <1>1 DEF vars, fileVars, flagVars, checkVars, stopVars, waitVars,
       WatcherIInv, TypeOK, CounterInv, LockInv
<1>2. CASE Next
  BY <1>2, CommandSteps, StartSteps, CheckSteps, StopSteps, WaitSteps DEF Next, WatcherNext
<1>3. QED  BY <1>1, <1>2

\* One waiter that has seen the flag is the only one that clears it.
LEMMA FlagStep ==
  ASSUME \A v, w \in Waiters : v = w
  PROVE  WatcherIInv /\ FlagInv /\ [Next]_vars => FlagInv'
<1> SUFFICES ASSUME WatcherIInv, FlagInv, [Next]_vars PROVE FlagInv'
  OBVIOUS
<1> USE DEF WatcherIInv, TypeOK, FlagInv, waitVars, flagVars
<1>1. CASE UNCHANGED waitVars /\ (UNCHANGED flagVars \/ UNCHANGED <<needsUpdate, detected>>)
  <2>1. UNCHANGED <<wait, handed, needsUpdate, detected>>
    BY <1>1
  <2>2. QED  BY <2>1
<1>2. CASE UNCHANGED waitVars /\ Detect
  BY <1>2 DEF Detect
<1>3. ASSUME NEW w \in Waiters, WaitCall(w) \/ WaitGoesOn(w)
      PROVE  FlagInv'
  <2> USE <1>3 DEF KeepsWait, WaitStep
  <2>1. CASE WaitCall(w)     BY <2>1 DEF WaitCall
  <2>2. CASE WaitStopped(w)  BY <2>2 DEF WaitStopped
  <2>3. CASE WaitPoll(w)     BY <2>3 DEF WaitPoll, NeedsUpdate
  <2>4. CASE WaitGet(w)      BY <2>4 DEF WaitGet
  <2>5. CASE WaitClear(w)    BY <2>5 DEF WaitClear, ClearUpdateFlag
  <2>6. QED  BY <2>1, <2>2, <2>3, <2>4, <2>5 DEF WaitGoesOn
<1>4. CASE UNCHANGED vars
  BY <1>1, <1>4 DEF vars
<1>5. CASE WatcherNext
  <2>1. FlagMove
    BY <1>5, CommandSteps, StartSteps, CheckSteps, StopSteps DEF WatcherNext
  <2>2. QED  BY <2>1, <1>1, <1>2 DEF FlagMove
<1>6. QED  BY <1>3, <1>4, <1>5 DEF Next

\* WatcherInv: WaitForUpgrade, called over and over again by one goroutine,
\* hands out no more upgrades than were detected (needsUpdate, ClearUpdateFlag).
THEOREM WatcherInvariant ==
  ASSUME \A v, w \in Waiters : v = w
  PROVE  Spec => []WatcherInv
<1>1. WatcherIInv /\ FlagInv => WatcherInv
  BY DEF WatcherIInv, WatcherInv, FlagInv, HandedOnce
<1>2. WatcherIInv /\ FlagInv /\ [Next]_vars => FlagInv'
  BY FlagStep
<1>3. QED  BY <1>1, <1>2, WatcherInitial, WatcherStep, PTL DEF Spec

-----------------------------------------------------------------------------
(* A Stop that has returned.                                               *)

\* Stop returns when stoppedChan is closed, which a monitor does as its last; and
\* there is one monitor for each Start.
StoppedInv ==
  /\ \A c \in Stoppers : stop[c] = "returned" => stopped
  /\ stopped => \E m \in Monitors : monitor[m] = "exited"
  /\ \A m \in Monitors : monitor[m] # "none" => m <= starts

LEMMA StoppedStep == WatcherIInv /\ StoppedInv /\ [Next]_vars => StoppedInv'
<1> SUFFICES ASSUME WatcherIInv, StoppedInv, [Next]_vars PROVE StoppedInv'
  OBVIOUS
<1> USE DEF StoppedInv, WatcherIInv, TypeOK, Monitors,
            fileVars, flagVars, checkVars, stopVars, waitVars
<1>1. CASE UNCHANGED <<stop, stopped, monitor, starts>>
  BY <1>1
<1>2. CASE StartStat \/ StartParse
  <2>1. UNCHANGED <<stop, stopped>> /\ (Launch \/ UNCHANGED <<monitor, starts>>)
    BY <1>2 DEF StartStat, StartParse, KeepsCheck
  <2>2. CASE Launch
    BY <2>1, <2>2 DEF Launch
  <2>3. QED  BY <1>1, <2>1, <2>2
<1>3. ASSUME NEW m \in Monitors, Check(m)
      PROVE  StoppedInv'
  <2>1. /\ UNCHANGED <<stop, starts>> /\ monitor[m] # "none" /\ monitor[m] # "exited"
        /\ \E to \in {"select", "lock", "parse", "exited"} :
             /\ monitor' = [monitor EXCEPT ![m] = to]
             /\ \/ stopped' = stopped
                \/ stopped' = TRUE /\ to = "exited"
    <3> USE DEF KeepsCheck, Monitor
    <3>1. CASE Tick(m)            BY <3>1 DEF Tick
    <3>2. CASE CheckStat(m)       BY <3>2 DEF CheckStat
    <3>3. CASE CheckForUpdate(m)  BY <3>3 DEF CheckForUpdate
    <3>4. CASE MonitorExit(m)     BY <3>4 DEF MonitorExit
    <3>5. QED  BY <1>3, <3>1, <3>2, <3>3, <3>4 DEF Check
  <2>2. QED  BY <2>1
<1>4. ASSUME NEW c \in Stoppers, Stop(c)
      PROVE  StoppedInv'
  <2>1. /\ UNCHANGED <<starts, monitor, stopped>>
        /\ \E to \in {"close", "unused", "waiting", "returned"} :
             stop' = [stop EXCEPT ![c] = to] /\ (to = "returned" => stopped)
    <3> USE DEF KeepsStop, StopStep
    <3>1. CASE StopEnter(c)   BY <3>1 DEF StopEnter
    <3>2. CASE StopClose(c)   BY <3>2 DEF StopClose
    <3>3. CASE StopReturn(c)  BY <3>3 DEF StopReturn
    <3>4. QED  BY <1>4, <3>1, <3>2, <3>3 DEF Stop, StopGoesOn
  <2>2. QED  BY <2>1
<1>5. CASE Commands
  <2>1. KeepsWatcher
    BY <1>5 DEF Commands, ScheduleTruncate, ScheduleWrite, ScheduleDies, Cancel
  <2>2. QED  BY <1>1, <2>1 DEF KeepsWatcher
<1>6. ASSUME NEW w \in Waiters, WaitCall(w) \/ WaitGoesOn(w)
      PROVE  StoppedInv'
  <2>1. KeepsWait
    BY <1>6 DEF WaitCall, WaitGoesOn, WaitStopped, WaitPoll, WaitGet, WaitClear
  <2>2. QED  BY <1>1, <2>1 DEF KeepsWait
<1>7. CASE UNCHANGED vars
  BY <1>1, <1>7 DEF vars
<1>8. QED
  BY <1>2, <1>3, <1>4, <1>5, <1>6, <1>7 DEF Next, WatcherNext

LEMMA StoppedInitial == Init => StoppedInv
BY DEF Init, WatcherInit, StoppedInv, Monitors

\* Once a Stop that had something to stop has returned, the watcher detects
\* nothing, also when Stop overlapped with a check; unless Start was called again
\* (stopChan, stoppedChan), which ends in a panic.
StopEndsDetection ==
  [][starts <= 1 /\ (\E c \in Stoppers : stop[c] = "returned") => UNCHANGED detected]_vars

\* StopIsFinal, the half of it that says what may not happen any more.
THEOREM WatcherStopIsFinal == Spec => StopEndsDetection
<1>1. ASSUME WatcherIInv, StoppedInv, [Next]_vars,
             starts <= 1, NEW c \in Stoppers, stop[c] = "returned"
      PROVE  detected' = detected
  <2> USE DEF fileVars, flagVars, checkVars, stopVars, waitVars
  <2>1. \A m \in Monitors : monitor[m] \in {"none", "exited"}
    BY <1>1 DEF StoppedInv, Monitors, WatcherIInv, TypeOK
  <2>2. ASSUME NEW m \in Monitors, Check(m)
        PROVE  detected' = detected
    BY <2>1, <2>2 DEF Check, Tick, CheckStat, CheckForUpdate, MonitorExit, Monitor, KeepsCheck
  <2>3. CASE Commands
    BY <2>3 DEF Commands, ScheduleTruncate, ScheduleWrite, ScheduleDies, Cancel, KeepsWatcher
  <2>4. CASE StartStat \/ StartParse
    BY <2>4 DEF StartStat, StartParse, KeepsCheck
  <2>5. ASSUME NEW d \in Stoppers, Stop(d)
        PROVE  detected' = detected
    BY <2>5 DEF Stop, StopGoesOn, StopEnter, StopClose, StopReturn, KeepsStop
  <2>6. ASSUME NEW w \in Waiters, WaitCall(w) \/ WaitGoesOn(w)
        PROVE  detected' = detected
    BY <2>6 DEF WaitCall, WaitGoesOn, WaitStopped, WaitPoll, WaitGet, WaitClear, KeepsWait
  <2>7. QED
    BY <1>1, <2>2, <2>3, <2>4, <2>5, <2>6 DEF Next, WatcherNext, vars
<1>2. WatcherIInv /\ StoppedInv /\ [Next]_vars =>
        [starts <= 1 /\ (\E c \in Stoppers : stop[c] = "returned") => UNCHANGED detected]_vars
  BY <1>1
<1>3. QED
  BY <1>2, WatcherInitial, WatcherStep, StoppedInitial, StoppedStep, PTL DEF Spec, StopEndsDetection

-----------------------------------------------------------------------------
(***************************************************************************)
(* The configuration manager, for any queue, bounds and versions:          *)
(* ConfigInv.                                                              *)
(*                                                                         *)
(* What is in force was read from the file, unless an event for it is      *)
(* queued or being handled.  Migrate follows the list of versions by a     *)
(* path of at most as many steps as the list has versions: PathFacts says  *)
(* what a step of it is, PathFills that no registered step is left out.    *)
(***************************************************************************)

\* One step of Migrate's loop.
StepOf(b, to) ==
  IF b.at = to THEN b
  ELSE [at |-> GetNextVersion(b.at, to), config |-> MigrateStep(b.at, GetNextVersion(b.at, to), b.config)]

LEMMA PathFacts ==
  ASSUME NEW from, NEW to, NEW m
  PROVE  \E f : /\ f[0] = [at |-> from, config |-> m]
                /\ \A n \in 1..8 : f[n] = StepOf(f[n - 1], to)
                /\ MigratePath(from, to, m) = f[8].config
<1> DEFINE a0 == [at |-> from, config |-> m]
           G(f) == [n \in 0..Len(Listed) |-> IF n = 0 THEN a0 ELSE StepOf(f[n - 1], to)]
           Step == CHOOSE f : f = G(f)
<1>1. Len(Listed) = 8
  BY DEF Listed
<1>2. \E f : f = G(f)
  <2> DEFINE a1 == StepOf(a0, to)
             a2 == StepOf(a1, to)
             a3 == StepOf(a2, to)
             a4 == StepOf(a3, to)
             a5 == StepOf(a4, to)
             a6 == StepOf(a5, to)
             a7 == StepOf(a6, to)
             a8 == StepOf(a7, to)
  <2> HIDE DEF a0, a1, a2, a3, a4, a5, a6, a7, a8
  <2> DEFINE f == [n \in 0..8 |-> CASE n = 0 -> a0 [] n = 1 -> a1 [] n = 2 -> a2 [] n = 3 -> a3
                                    [] n = 4 -> a4 [] n = 5 -> a5 [] n = 6 -> a6 [] n = 7 -> a7
                                    [] n = 8 -> a8]
  <2>1. f[0] = a0 /\ f[1] = a1 /\ f[2] = a2 /\ f[3] = a3 /\ f[4] = a4 /\ f[5] = a5 /\ f[6] = a6
        /\ f[7] = a7 /\ f[8] = a8
    OBVIOUS
  <2> DEFINE e(n) == IF n = 0 THEN a0 ELSE StepOf(f[n - 1], to)
  <2>2. ASSUME NEW n \in 0..8 PROVE f[n] = e(n)
    <3> HIDE DEF f
    <3>1. n \in {0, 1, 2, 3, 4, 5, 6, 7, 8}
      OBVIOUS
    <3>2. e(0) = a0 /\ e(1) = a1 /\ e(2) = a2 /\ e(3) = a3 /\ e(4) = a4 /\ e(5) = a5 /\ e(6) = a6
          /\ e(7) = a7 /\ e(8) = a8
      BY <2>1 DEF a1, a2, a3, a4, a5, a6, a7, a8
    <3> HIDE DEF e
    <3>3. QED  BY <2>1, <3>1, <3>2
  <2>3. f = [n \in 0..8 |-> e(n)]
    BY <2>2
  <2>4. f = G(f)
    BY <1>1, <2>3
  <2> HIDE DEF f, G
  <2>5. QED  BY <2>4
<1>3. Step = G(Step)
  BY <1>2
<1>4. MigratePath(from, to, m) = Step[Len(Listed)].config
  BY DEF MigratePath, StepOf
<1> HIDE DEF Step, a0
<1>5. Step[0] = a0
  BY <1>1, <1>3
<1>6. \A n \in 1..8 : Step[n] = StepOf(Step[n - 1], to)
  BY <1>1, <1>3
<1>7. QED  BY <1>1, <1>4, <1>5, <1>6 DEF a0


\* A step fills in what the version it leads to has.
LEMMA StepFills ==
  ASSUME NEW m \in LiveType, NEW a, NEW b
  PROVE  LET r == MigrateStep(a, b, m) IN
         /\ r \in LiveType /\ m.gens \subseteq r.gens
         /\ <<a, b>> \in {<<10, 20>>, <<20, 30>>, <<30, 40>>, <<40, 50>>} => b \in r.gens
<1> DEFINE r == MigrateStep(a, b, m)
<1>1. /\ m = [port |-> m.port, addr |-> m.addr, health |-> m.health, gens |-> m.gens]
      /\ m.port \in PortValues /\ m.addr \in PortValues /\ m.health \in HealthValues
      /\ m.gens \subseteq Filled
  BY DEF LiveType
<1>2. 1 \in PortValues /\ 1 \in HealthValues /\ Unset \in PortValues
  BY DEF PortValues, HealthValues, Ports, Healths
<1> DEFINE With(v) == [m EXCEPT !.gens = @ \cup {v}]
           h == IF m.health = Unset THEN 1 ELSE m.health
           q == IF m.port # Unset THEN m.port ELSE IF m.addr # Unset THEN m.addr ELSE 1
           t == [m EXCEPT !.health = h, !.port = q, !.gens = @ \cup {40}]
<1>3. \A v \in Filled : With(v) \in LiveType /\ With(v).gens = m.gens \cup {v}
  BY <1>1 DEF LiveType
<1>4. t \in LiveType /\ t.gens = m.gens \cup {40}
  <2>1. h \in HealthValues /\ q \in PortValues /\ m.gens \cup {40} \in SUBSET Filled
    BY <1>1, <1>2 DEF Filled
  <2> HIDE DEF h, q
  <2> DEFINE g == m.gens \cup {40}
             m1 == [port |-> m.port, addr |-> m.addr, health |-> m.health, gens |-> m.gens]
             m2 == [m1 EXCEPT !.health = h]
             m3 == [m2 EXCEPT !.port = q]
  <2>4. t = [m3 EXCEPT !.gens = g]
    BY <1>1
  <2> HIDE DEF g, t
  <2>5. m2 = [port |-> m.port, addr |-> m.addr, health |-> h, gens |-> m.gens]
    OBVIOUS
  <2> HIDE DEF m2
  <2>6. m3 = [port |-> q, addr |-> m.addr, health |-> h, gens |-> m.gens]
    BY <2>5
  <2> HIDE DEF m3
  <2>2. t = [port |-> q, addr |-> m.addr, health |-> h, gens |-> g]
    BY <2>4, <2>6
  <2>3. QED  BY <1>1, <2>1, <2>2 DEF LiveType, g, t
<1>5. 20 \in Filled /\ 30 \in Filled /\ 50 \in Filled
  BY DEF Filled
<1>6. CASE a = 10 /\ b = 20
  <2>1. r = With(20)
    BY <1>6 DEF MigrateStep
  <2> HIDE DEF With
  <2>2. QED  BY <1>3, <1>5, <1>6, <2>1
<1>7. CASE a = 20 /\ b = 30
  <2>1. r = With(30)
    BY <1>7 DEF MigrateStep
  <2> HIDE DEF With
  <2>2. QED  BY <1>3, <1>5, <1>7, <2>1
<1>8. CASE a = 30 /\ b = 40
  <2>1. r = t
    BY <1>8 DEF MigrateStep
  <2> HIDE DEF t
  <2>2. QED  BY <1>4, <1>8, <2>1
<1>9. CASE a = 40 /\ b = 50
  <2>1. r = With(50)
    BY <1>9 DEF MigrateStep
  <2> HIDE DEF With
  <2>2. QED  BY <1>3, <1>5, <1>9, <2>1
<1>10. CASE <<a, b>> \notin {<<10, 20>>, <<20, 30>>, <<30, 40>>, <<40, 50>>}
  <2>1. r = m
    BY <1>10 DEF MigrateStep
  <2>2. QED  BY <1>10, <2>1
<1>11. QED  BY <1>6, <1>7, <1>8, <1>9, <1>10

ListedVersions == {10, 20, 30, 40, 50, 60, 70, 100}

LEMMA ListedFacts ==
  /\ Len(Listed) = 8 /\ Listed[1] = 10 /\ Listed[2] = 20 /\ Listed[3] = 30 /\ Listed[4] = 40
  /\ Listed[5] = 50 /\ Listed[6] = 60 /\ Listed[7] = 70 /\ Listed[8] = 100
BY DEF Listed

\* getNextVersion goes to the next of the list, or to the target if that is nearer.
LEMMA NextVersion ==
  ASSUME NEW k \in 1..7, NEW to \in Nat
  PROVE  GetNextVersion(Listed[k], to) = IF Listed[k + 1] <= to THEN Listed[k + 1] ELSE to
<1> DEFINE after == {Listed[i + 1] : i \in {j \in 1..(Len(Listed) - 1) : Listed[j] = Listed[k]}}
<1>1. k \in {1, 2, 3, 4, 5, 6, 7}
  OBVIOUS
<1>2. \A j \in 1..7 : Listed[j] = Listed[k] => j = k
  <2>1. \A j \in 1..7 : j \in {1, 2, 3, 4, 5, 6, 7}
    OBVIOUS
  <2>2. QED  BY <1>1, <2>1, ListedFacts
<1>3. after = {Listed[k + 1]}
  <2>1. {j \in 1..(Len(Listed) - 1) : Listed[j] = Listed[k]} = {k}
    <3>1. Len(Listed) - 1 = 7
      BY ListedFacts
    <3>2. QED  BY <1>2, <3>1
  <2>2. QED  BY <2>1
<1>4. GetNextVersion(Listed[k], to) =
        IF \E v \in after : v <= to THEN CHOOSE v \in after : TRUE ELSE to
  BY DEF GetNextVersion
<1> HIDE DEF after
<1>5. QED  BY <1>3, <1>4

LEMMA BetweenListed ==
  ASSUME NEW k \in 1..7
  PROVE  /\ \A v \in Filled : Listed[k] < v => Listed[k + 1] <= v
         /\ Listed[k + 1] \in Filled =>
              <<Listed[k], Listed[k + 1]>> \in {<<10, 20>>, <<20, 30>>, <<30, 40>>, <<40, 50>>}
         /\ Listed[k] \in Nat /\ Listed[k + 1] \in Nat /\ Listed[k] < Listed[k + 1]
<1>1. k \in {1, 2, 3, 4, 5, 6, 7}
  OBVIOUS
<1> DEFINE L(a, b) ==
      /\ \A v \in Filled : a < v => b <= v
      /\ b \in Filled => <<a, b>> \in {<<10, 20>>, <<20, 30>>, <<30, 40>>, <<40, 50>>}
      /\ a \in Nat /\ b \in Nat /\ a < b
<1>2. L(10, 20) /\ L(20, 30) /\ L(30, 40) /\ L(40, 50) /\ L(50, 60) /\ L(60, 70) /\ L(70, 100)
  BY DEF Filled
<1> HIDE DEF L
<1>3. L(Listed[k], Listed[k + 1])
  <2>1. /\ 1 + 1 = 2 /\ 2 + 1 = 3 /\ 3 + 1 = 4 /\ 4 + 1 = 5 /\ 5 + 1 = 6 /\ 6 + 1 = 7 /\ 7 + 1 = 8
    OBVIOUS
  <2>2. QED  BY <1>1, <1>2, <2>1, ListedFacts
<1>4. QED  BY <1>3 DEF L

LEMMA VersionFacts ==
  ASSUME NEW v \in Versions
  PROVE  /\ v \in Nat /\ v <= 100
         /\ v \notin Unlisted => \E k \in 1..8 : v = Listed[k]
<1>1. DOMAIN Listed = 1..8
  BY DEF Listed
<1>2. CASE v \in Unlisted
  BY <1>2 DEF Unlisted
<1>3. CASE v \notin Unlisted
  <2>1. PICK k \in 1..8 : v = Listed[k]
    BY <1>1, <1>3, ConfigAssumption
  <2>2. k \in {1, 2, 3, 4, 5, 6, 7, 8}
    OBVIOUS
  <2>3. QED  BY <1>3, <2>1, <2>2, ListedFacts
<1>4. QED  BY <1>2, <1>3

\* Migrate reaches its target by every listed version in between, and leaves none of
\* the registered migrations out.
LEMMA PathFills ==
  ASSUME NEW from \in Versions, NEW to \in Versions, from <= to, NEW m \in LiveType
  PROVE  LET r == MigratePath(from, to, m) IN
         /\ r \in LiveType
         /\ from \notin Unlisted => Registered(from, to) \subseteq r.gens
<1>1. PICK f : /\ f[0] = [at |-> from, config |-> m]
               /\ \A n \in 1..8 : f[n] = StepOf(f[n - 1], to)
               /\ MigratePath(from, to, m) = f[8].config
  BY PathFacts
<1>2. from \in Nat /\ to \in Nat /\ to <= 100
  BY VersionFacts
<1> DEFINE Typed(n) == f[n].config \in LiveType
           Done(n) == Registered(from, f[n].at) \subseteq f[n].config.gens
           OnPath(n) == f[n].at = to \/ \E k \in (n + 1)..8 : f[n].at = Listed[k] /\ Listed[k] < to
           nextOf(n) == GetNextVersion(f[n].at, to)
<1>3. ASSUME NEW n \in 1..8
      PROVE  \/ f[n - 1].at = to /\ f[n] = f[n - 1]
             \/ /\ f[n - 1].at # to /\ f[n].at = nextOf(n - 1)
                /\ f[n].config = MigrateStep(f[n - 1].at, nextOf(n - 1), f[n - 1].config)
  BY <1>1 DEF StepOf
<1>4. f[0].at = from /\ f[0].config = m
  BY <1>1
<1> DEFINE P(n) == Typed(n) /\ (from \notin Unlisted => Done(n) /\ OnPath(n))
<1>5. P(0)
  <2>1. Registered(from, from) = {}
    BY <1>2 DEF Registered
  <2>2. ASSUME from \notin Unlisted PROVE from = to \/ \E k \in 1..8 : from = Listed[k] /\ Listed[k] < to
    BY <1>2, <2>2, VersionFacts
  <2>3. QED  BY <1>4, <2>1, <2>2
<1>6. ASSUME NEW n \in 1..8, P(n - 1) PROVE P(n)
  <2> DEFINE b == f[n - 1]
             v == nextOf(n - 1)
  <2>1. CASE b.at = to /\ f[n] = b
    BY <1>6, <2>1
  <2>2. CASE /\ b.at # to /\ f[n].at = v /\ f[n].config = MigrateStep(b.at, v, b.config)
    <3> HIDE DEF v
    <3>1. /\ f[n].config \in LiveType /\ b.config.gens \subseteq f[n].config.gens
          /\ <<b.at, v>> \in {<<10, 20>>, <<20, 30>>, <<30, 40>>, <<40, 50>>} => v \in f[n].config.gens
      BY <1>6, <2>2, StepFills
    <3>2. ASSUME from \notin Unlisted PROVE Done(n) /\ OnPath(n)
      <4>1. PICK k \in n..8 : b.at = Listed[k] /\ Listed[k] < to
        <5>1. (n - 1) + 1 = n
          OBVIOUS
        <5>2. QED  BY <1>6, <2>2, <3>2, <5>1
      <4>2. k \in 1..7
        <5>1. k # 8
          BY <1>2, <4>1, ListedFacts
        <5>2. QED  BY <5>1
      <4>3. v = IF Listed[k + 1] <= to THEN Listed[k + 1] ELSE to
        BY <1>2, <4>1, <4>2, NextVersion DEF v
      <4>4. /\ \A w \in Filled : Listed[k] < w => Listed[k + 1] <= w
            /\ Listed[k + 1] \in Filled =>
                 <<Listed[k], Listed[k + 1]>> \in {<<10, 20>>, <<20, 30>>, <<30, 40>>, <<40, 50>>}
            /\ Listed[k] \in Nat /\ Listed[k + 1] \in Nat /\ Listed[k] < Listed[k + 1]
        BY <4>2, BetweenListed
      <4>5. Done(n)
        <5> SUFFICES ASSUME NEW w \in Filled, from < w, w <= v PROVE w \in f[n].config.gens
          BY <2>2 DEF Registered, Filled
        <5>1. w \in Nat
          BY DEF Filled
        <5>2. CASE w <= Listed[k]
          <6>1. w \in Registered(from, b.at)
            BY <4>1, <5>2 DEF Registered, Filled
          <6>2. QED  BY <1>6, <3>1, <3>2, <6>1
        <5>3. CASE Listed[k] < w
          <6>1. Listed[k + 1] <= w
            BY <4>4, <5>3
          <6>2. v = Listed[k + 1] /\ w = v
            BY <1>2, <4>3, <4>4, <5>1, <6>1
          <6>3. QED  BY <3>1, <4>1, <4>4, <6>2
        <5>4. QED  BY <4>4, <5>1, <5>2, <5>3
      <4>6. OnPath(n)
        <5>1. CASE v = to
          BY <2>2, <5>1
        <5>2. CASE v # to
          <6>1. v = Listed[k + 1] /\ Listed[k + 1] < to
            BY <1>2, <4>3, <4>4, <5>2
          <6>2. k + 1 \in (n + 1)..8
            BY <4>2
          <6>3. QED  BY <2>2, <6>1, <6>2
        <5>3. QED  BY <5>1, <5>2
      <4>7. QED  BY <4>5, <4>6
    <3>3. QED  BY <3>1, <3>2
  <2>3. QED  BY <1>3, <2>1, <2>2
<1> HIDE DEF P
<1>7. P(8)
  <2>1. /\ 1 - 1 = 0 /\ 2 - 1 = 1 /\ 3 - 1 = 2 /\ 4 - 1 = 3 /\ 5 - 1 = 4 /\ 6 - 1 = 5 /\ 7 - 1 = 6 /\ 8 - 1 = 7
        /\ \A n \in {1, 2, 3, 4, 5, 6, 7, 8} : n \in 1..8
    OBVIOUS
  <2>2. P(1) /\ P(2)
    BY <1>5, <1>6, <2>1
  <2>3. P(3) /\ P(4)
    BY <1>6, <2>1, <2>2
  <2>4. P(5) /\ P(6)
    BY <1>6, <2>1, <2>3
  <2>5. QED  BY <1>6, <2>1, <2>4
<1>8. f[8].at = to \/ from \in Unlisted
  <2>1. (8 + 1)..8 = {}
    OBVIOUS
  <2>2. QED  BY <1>7, <2>1 DEF P
<1>9. QED  BY <1>1, <1>7, <1>8 DEF P

\* What the file can hold.

LEMMA FileFacts ==
  /\ Missing.kind # "config" /\ Garbled.kind # "config" /\ Missing # Garbled
  /\ \A c : Holds(c).kind = "config" /\ Holds(c).config = c /\ Holds(c) \notin {Missing, Garbled}
<1>1. Missing.kind = "missing" /\ Garbled.kind = "garbled"
  BY DEF Missing, Garbled
<1>2. \A c : Holds(c).kind = "config" /\ Holds(c).config = c
  BY DEF Holds
<1>3. QED  BY <1>1, <1>2

LEMMA StoredFacts ==
  ASSUME NEW s \in Stored
  PROVE  /\ s.port \in PortValues /\ s.health \in HealthValues /\ s.net \in {1, 2}
         /\ s = [port |-> s.port, health |-> s.health, net |-> s.net]
         /\ Holds(s) \in FileValues
<1>1. /\ s.port \in PortValues /\ s.health \in HealthValues /\ s.net \in {1, 2}
      /\ s = [port |-> s.port, health |-> s.health, net |-> s.net]
  BY DEF Stored, PortValues, HealthValues
<1>2. s \in FileConfig
  BY <1>1 DEF FileConfig
<1>3. QED  BY <1>1, <1>2 DEF FileValues

\* The merge and the split keep the fields' types; what is merged from a file that is
\* read follows it.
LEMMA MergeFacts ==
  ASSUME NEW s \in Stored
  PROVE  /\ MergeConfigs(s) \in LiveType
         /\ MergeConfigs(s).port = s.port /\ MergeConfigs(s).addr = s.port
         /\ MergeConfigs(s).health = s.health
<1>1. s.port \in PortValues /\ s.health \in HealthValues
  BY StoredFacts
<1>2. QED  BY <1>1 DEF MergeConfigs, LiveType

LEMMA SplitFacts ==
  ASSUME NEW s \in Stored, NEW m \in LiveType PROVE SplitConfig(s, m) \in Stored
<1>1. m.port \in PortValues
  BY DEF LiveType
<1>2. QED  BY <1>1 DEF SplitConfig, Stored, PortValues

LEMMA UnmarshalFacts ==
  ASSUME NEW f \in FileConfig, NEW s \in Stored
  PROVE  /\ Unmarshal(f, s) \in Stored /\ Unmarshal(f, s).port = f.port
         /\ f.health \in {Absent, Unmarshal(f, s).health}
<1>1. /\ s.port \in PortValues /\ s.health \in HealthValues /\ s.net \in {1, 2}
      /\ s = [port |-> s.port, health |-> s.health, net |-> s.net]
  BY StoredFacts
<1>2. /\ f.port \in PortValues /\ f.health \in HealthValues \cup {Absent} /\ f.net \in {1, 2}
  BY DEF FileConfig
<1>3. f.port # Absent /\ f.net # Absent
  BY <1>2 DEF PortValues, Ports, Unset, Absent
<1> DEFINE h == IF f.health = Absent THEN s.health ELSE f.health
           r == [port |-> f.port, health |-> h, net |-> f.net]
<1>4. DOMAIN s = {"port", "health", "net"}
  BY <1>1
<1>5. Unmarshal(f, s) = r
  <2>1. \A k \in DOMAIN s : r[k] = IF f[k] = Absent THEN s[k] ELSE f[k]
    BY <1>3, <1>4
  <2>2. DOMAIN r = DOMAIN s
    BY <1>4
  <2>3. r = [k \in DOMAIN s |-> r[k]]
    BY <2>2
  <2> HIDE DEF r
  <2>4. QED  BY <2>1, <2>3 DEF Unmarshal
<1>6. h \in HealthValues
  BY <1>1, <1>2
<1>7. r \in Stored
  <2> HIDE DEF h
  <2>1. QED  BY <1>2, <1>6 DEF Stored, PortValues, HealthValues
<1>8. QED  BY <1>5, <1>7

LEMMA DefaultsFacts == Defaults \in Stored
BY DEF Defaults, Stored, Ports, Healths, Unset

LEMMA TemplateFacts ==
  ASSUME NEW t \in DOMAIN TemplateValues, NEW s \in Stored
  PROVE  ApplyTemplateValues(t, s) \in Stored
<1>1. /\ s.port \in PortValues /\ s.health \in HealthValues /\ s.net \in {1, 2}
      /\ s = [port |-> s.port, health |-> s.health, net |-> s.net]
  BY StoredFacts
<1> DEFINE T == TemplateValues[t]
<1>2. T.port \in PortValues /\ T.health \in HealthValues /\ T.net \in {Unset, 1, 2}
  BY DEF TemplateValues, PortValues, HealthValues, Ports, Healths, Unset
<1> HIDE DEF T
<1> DEFINE p == IF T.port = Unset THEN s.port ELSE T.port
           h == IF T.health = Unset THEN s.health ELSE T.health
           n == IF T.net = Unset THEN s.net ELSE T.net
           r == [port |-> p, health |-> h, net |-> n]
<1>3. p \in PortValues /\ h \in HealthValues /\ n \in {1, 2}
  BY <1>1, <1>2
<1>4. DOMAIN s = {"port", "health", "net"}
  BY <1>1
<1>5. ApplyTemplateValues(t, s) = r
  <2>1. \A k \in DOMAIN s : r[k] = IF T[k] = Unset THEN s[k] ELSE T[k]
    BY <1>4
  <2>2. DOMAIN r = DOMAIN s
    BY <1>4
  <2>3. r = [k \in DOMAIN s |-> r[k]]
    BY <2>2
  <2> HIDE DEF r
  <2>4. QED  BY <2>1, <2>3 DEF ApplyTemplateValues, T
<1>6. r \in Stored
  <2> HIDE DEF p, h, n
  <2>1. QED  BY <1>3 DEF Stored, PortValues, HealthValues
<1>7. QED  BY <1>5, <1>6

\* Before the watcher is started nobody reads the file: what is in force then is what
\* NewManager has read, as it is whenever the watcher is quiet.
Quiet == (/\ confPhase \in {"loaded", "running"} /\ watchLoop \in {"none", "idle"}
          /\ fsEvents = 0 /\ ~ unseen) => FollowsFile
ConfIInv == /\ ConfTypeOK /\ Quiet /\ ToldInForce /\ MigrationComplete
            /\ confPhase = "loaded" => watchLoop = "none"

LEMMA ConfConstants ==
  QueueSize \in Nat \ {0} /\ MaxCalls \in Nat /\ MaxEdits \in Nat /\ MaxBinds \in Nat
BY ConfigAssumption

LEMMA ConfInitial == ConfInit => ConfIInv
<1> SUFFICES ASSUME ConfInit PROVE ConfIInv
  OBVIOUS
<1> DEFINE f == [port |-> 1, health |-> Absent, net |-> 2]
<1>1. stored = [port |-> 1, health |-> Unset, net |-> 2] /\ confFile = Holds(f) /\ live = MergeConfigs(stored)
  BY DEF ConfInit
<1>2. stored \in Stored /\ stored.port = 1
  BY <1>1 DEF Stored, Ports, Healths, Unset
<1>3. live \in LiveType /\ live.port = 1 /\ live.addr = 1
  BY <1>1, <1>2, MergeFacts
<1>4. f \in FileConfig /\ f.port = 1 /\ f.health = Absent
  BY DEF FileConfig, PortValues, Ports, Unset
<1> HIDE DEF f
<1>5. confFile \in FileValues
  BY <1>1, <1>4 DEF FileValues
<1>6. 0 \in 0..QueueSize /\ 0 \in 0..MaxCalls /\ 0 \in 0..MaxEdits /\ 0 \in 0..MaxBinds
  BY ConfConstants
<1>7. ConfTypeOK
  BY <1>2, <1>3, <1>5, <1>6 DEF ConfInit, ConfTypeOK
<1>8. FollowsFile
  <2>1. confFile.config = f
    BY <1>1, FileFacts
  <2>2. QED  BY <1>3, <1>4, <2>1 DEF FollowsFile
<1>9. QED
  BY <1>7, <1>8 DEF ConfInit, ConfIInv, Quiet, ToldInForce, MigrationComplete

\* A reader who misses nothing has been told what is sent.
LEMMA NotifyFacts ==
  ASSUME ConfTypeOK, ~ confPanic, NEW c, NotifyUpdate(c)
  PROVE  /\ updates' \in 0..QueueSize /\ confPanic' \in BOOLEAN /\ untold' \in BOOLEAN
         /\ ~ untold' /\ ~ confPanic' => told' = c
<1>1. /\ updates \in 0..QueueSize /\ confPanic \in BOOLEAN /\ untold \in BOOLEAN
      /\ QueueSize \in Nat
  BY ConfConstants DEF ConfTypeOK
<1>2. updates < QueueSize => updates + 1 \in 0..QueueSize
  BY <1>1
<1>3. QED  BY <1>1, <1>2 DEF NotifyUpdate

\* UpdateConfig, ApplyTemplate and Migrate: m is put in force, saved and told, or what
\* was in force stays.
LEMMA PutSteps ==
  ASSUME ConfIInv, NEW s \in Stored, NEW m \in LiveType, Call,
         gaps' \subseteq Versions, gaps' \subseteq Unlisted, stored' = s,
         \/ live' = m /\ Saved(s) /\ NotifyUpdate(ToldConfig(m))
         \/ UNCHANGED <<live, confFile, fsEvents, toldVars>>
  PROVE  ConfIInv'
<1>1. /\ ConfTypeOK /\ Quiet /\ ToldInForce /\ ~ confPanic /\ confPhase \in {"running", "cancelled"}
      /\ UNCHANGED <<confPhase, watchLoop, boundPorts, edits, binds, unseen>>
  BY DEF ConfIInv, Call
<1>2. confCalls' \in 0..MaxCalls
  BY <1>1, ConfConstants DEF Call, ConfTypeOK
<1>3. confPhase' # "loaded" /\ MigrationComplete'
  BY <1>1 DEF MigrationComplete
<1>4. CASE live' = m /\ Saved(s) /\ NotifyUpdate(ToldConfig(m))
  <2>1. confFile' = Holds(s) /\ fsEvents' = fsEvents + 1
    BY <1>1, <1>4 DEF Saved
  <2>2. fsEvents' \in Nat /\ fsEvents' # 0
    BY <1>1, <2>1 DEF ConfTypeOK
  <2>3. /\ updates' \in 0..QueueSize /\ confPanic' \in BOOLEAN /\ untold' \in BOOLEAN
        /\ ~ untold' /\ ~ confPanic' => told' = ToldConfig(m)
    BY <1>1, <1>4, NotifyFacts
  <2>4. ConfTypeOK'
    BY <1>1, <1>2, <1>4, <2>1, <2>2, <2>3, StoredFacts DEF ConfTypeOK
  <2>5. Quiet' /\ ToldInForce'
    BY <1>4, <2>2, <2>3 DEF Quiet, ToldInForce
  <2>6. QED  BY <1>3, <2>4, <2>5 DEF ConfIInv
<1>5. CASE UNCHANGED <<live, confFile, fsEvents, toldVars>>
  <2>1. UNCHANGED <<updates, confPanic, told, untold>>
    BY <1>5 DEF toldVars
  <2>2. ConfTypeOK'
    BY <1>1, <1>2, <1>5, <2>1 DEF ConfTypeOK
  <2>3. Quiet' /\ ToldInForce'
    BY <1>1, <1>5, <2>1 DEF Quiet, FollowsFile, ToldInForce
  <2>4. QED  BY <1>3, <2>2, <2>3 DEF ConfIInv
<1>6. QED  BY <1>4, <1>5

LEMMA UpdateSteps == ASSUME ConfIInv, UpdateConfig PROVE ConfIInv'
<1>1. Call /\ gaps' = gaps /\ live \in LiveType /\ stored \in Stored
      /\ gaps \subseteq Versions /\ gaps \subseteq Unlisted
  BY DEF UpdateConfig, ConfIInv, ConfTypeOK, MigrationComplete
<1>2. PICK m \in FieldUpdates :
        /\ stored' = SplitConfig(stored, m)
        /\ \/ live' = m /\ Saved(stored') /\ NotifyUpdate(ToldConfig(m))
           \/ UNCHANGED <<live, confFile, fsEvents, toldVars>>
  BY DEF UpdateConfig, SaveFails
<1>3. m \in LiveType
  <2>1. CASE m \in {[live EXCEPT !.port = p] : p \in Ports \cup {Unset}}
    BY <1>1, <2>1 DEF LiveType, PortValues
  <2>2. CASE m \in {[live EXCEPT !.health = h] : h \in Healths}
    BY <1>1, <2>2 DEF LiveType, HealthValues
  <2>3. CASE m \in {[live EXCEPT !.gens = @ \cup {50}]}
    BY <1>1, <2>3 DEF LiveType, Filled
  <2>4. QED  BY <2>1, <2>2, <2>3 DEF FieldUpdates
<1>4. SplitConfig(stored, m) \in Stored
  BY <1>1, <1>3, SplitFacts
<1>5. QED  BY <1>1, <1>2, <1>3, <1>4, PutSteps

LEMMA TemplateSteps == ASSUME ConfIInv, ApplyTemplate PROVE ConfIInv'
<1>1. Call /\ gaps' = gaps /\ live \in LiveType /\ stored \in Stored
      /\ gaps \subseteq Versions /\ gaps \subseteq Unlisted
  BY DEF ApplyTemplate, ConfIInv, ConfTypeOK, MigrationComplete
<1>2. PICK t \in TemplateNames :
        IF t = "unknown" THEN UNCHANGED <<stored, live, confFile, fsEvents, toldVars>>
        ELSE /\ stored' = ApplyTemplateValues(t, stored)
             /\ \/ live' = MergeConfigs(stored') /\ Saved(stored') /\ NotifyUpdate(ToldConfig(live'))
                \/ UNCHANGED <<live, confFile, fsEvents, toldVars>>
  BY DEF ApplyTemplate, SaveFails
<1>3. CASE t = "unknown"
  BY <1>1, <1>2, <1>3, PutSteps
<1>4. CASE t # "unknown"
  <2>1. t \in DOMAIN TemplateValues
    BY <1>4 DEF TemplateNames
  <2>2. stored' \in Stored
    BY <1>1, <1>2, <1>4, <2>1, TemplateFacts
  <2>3. MergeConfigs(stored') \in LiveType
    BY <2>2, MergeFacts
  <2>4. \/ live' = MergeConfigs(stored') /\ Saved(stored') /\ NotifyUpdate(ToldConfig(MergeConfigs(stored')))
        \/ UNCHANGED <<live, confFile, fsEvents, toldVars>>
    BY <1>2, <1>4
  <2>5. QED  BY <1>1, <2>2, <2>3, <2>4, PutSteps
<1>5. QED  BY <1>3, <1>4

LEMMA MigrateSteps == ASSUME ConfIInv, Migrate PROVE ConfIInv'
<1>1. Call /\ live \in LiveType /\ stored \in Stored
      /\ gaps \subseteq Versions /\ gaps \subseteq Unlisted
  BY DEF Migrate, ConfIInv, ConfTypeOK, MigrationComplete
<1>2. PICK from \in Versions, to \in Versions :
        LET m == MigratePath(from, to, live)
        IN  IF from > to \/ ~ Valid(m)
            THEN UNCHANGED <<stored, live, confFile, fsEvents, toldVars, gaps>>
            ELSE /\ stored' = SplitConfig(stored, m)
                 /\ \/ /\ live' = m /\ Saved(stored') /\ NotifyUpdate(ToldConfig(m))
                       /\ gaps' = IF Registered(from, to) \subseteq m.gens THEN gaps
                                  ELSE gaps \cup {from}
                    \/ UNCHANGED <<live, toldVars, gaps>> /\ SaveFails
  BY DEF Migrate
<1> DEFINE m == MigratePath(from, to, live)
<1>3. CASE from > to \/ ~ Valid(m)
  <2>1. UNCHANGED <<stored, live, confFile, fsEvents, toldVars, gaps>>
    BY <1>2, <1>3
  <2>2. QED  BY <1>1, <2>1, PutSteps
<1>4. CASE ~ (from > to \/ ~ Valid(m))
  <2>1. from <= to
    BY <1>4, VersionFacts
  <2>2. m \in LiveType /\ (from \notin Unlisted => Registered(from, to) \subseteq m.gens)
    BY <1>1, <2>1, PathFills
  <2>3. /\ stored' = SplitConfig(stored, m)
        /\ \/ /\ live' = m /\ Saved(stored') /\ NotifyUpdate(ToldConfig(m))
              /\ gaps' = IF Registered(from, to) \subseteq m.gens THEN gaps ELSE gaps \cup {from}
           \/ UNCHANGED <<live, confFile, fsEvents, toldVars, gaps>>
    BY <1>2, <1>4 DEF SaveFails
  <2> HIDE DEF m
  <2>4. gaps' \subseteq Versions /\ gaps' \subseteq Unlisted
    BY <1>1, <2>2, <2>3
  <2>5. SplitConfig(stored, m) \in Stored
    BY <1>1, <2>2, SplitFacts
  <2>6. \/ live' = m /\ Saved(stored') /\ NotifyUpdate(ToldConfig(m))
        \/ UNCHANGED <<live, confFile, fsEvents, toldVars>>
    BY <2>3
  <2>7. stored' \in Stored
    BY <2>3, <2>5
  <2>8. QED  BY <1>1, <2>2, <2>4, <2>6, <2>7, PutSteps
<1>5. QED  BY <1>3, <1>4

\* handleConfigChange: what is in force afterwards is what the file holds, or the event
\* of the saved defaults is still to come.
LEMMA HandleSteps == ASSUME ConfIInv, HandleConfigChange PROVE ConfIInv'
<1>1. /\ ConfTypeOK /\ Quiet /\ ToldInForce /\ ~ confPanic /\ MigrationComplete
      /\ watchLoop = "handling" /\ watchLoop' = "idle" /\ confPhase # "loaded"
      /\ UNCHANGED <<confPhase, boundPorts, confCalls, edits, binds, unseen, gaps>>
  BY DEF ConfIInv, HandleConfigChange
<1>2. ASSUME NEW c, NotifyUpdate(c), stored' \in Stored, live' \in LiveType, confFile' \in FileValues,
             fsEvents' \in Nat, (fsEvents' = 0 /\ confPhase = "running") => FollowsFile',
             c = NoConfig \/ c = ToldConfig(live')
      PROVE  ConfIInv'
  <2>1. /\ updates' \in 0..QueueSize /\ confPanic' \in BOOLEAN /\ untold' \in BOOLEAN
        /\ ~ untold' /\ ~ confPanic' => told' = c
    BY <1>1, <1>2, NotifyFacts
  <2>2. ConfTypeOK'
    BY <1>1, <1>2, <2>1 DEF ConfTypeOK
  <2>3. Quiet' /\ ToldInForce' /\ MigrationComplete'
    BY <1>1, <1>2, <2>1 DEF Quiet, ToldInForce, MigrationComplete
  <2>4. QED  BY <1>1, <2>2, <2>3 DEF ConfIInv
<1>3. CASE /\ confFile = Missing
           /\ stored' = Defaults /\ live' = MergeConfigs(Defaults)
           /\ \/ Saved(Defaults) /\ NotifyUpdate(ToldConfig(live'))
              \/ SaveFails /\ NotifyUpdate(NoConfig)
  <2>1. stored' \in Stored /\ live' \in LiveType
    BY <1>3, DefaultsFacts, MergeFacts
  <2>2. CASE Saved(Defaults) /\ NotifyUpdate(ToldConfig(live'))
    <3>1. confFile' \in FileValues
      BY <2>2, DefaultsFacts, StoredFacts DEF Saved
    <3>2. fsEvents' \in Nat /\ (confPhase = "running" => fsEvents' # 0)
      BY <1>1, <2>2 DEF Saved, ConfTypeOK
    <3>3. QED  BY <1>2, <2>1, <2>2, <3>1, <3>2
  <2>3. CASE SaveFails /\ NotifyUpdate(NoConfig)
    <3>1. UNCHANGED <<confFile, fsEvents>> /\ FollowsFile'
      BY <1>3, <2>3, FileFacts DEF SaveFails, FollowsFile
    <3>2. QED  BY <1>1, <1>2, <2>1, <2>3, <3>1 DEF ConfTypeOK
  <2>4. QED  BY <1>3, <2>2, <2>3
<1>4. CASE confFile = Garbled /\ NotifyUpdate(NoConfig) /\ UNCHANGED <<stored, live, confFile, fsEvents>>
  <2>1. FollowsFile'
    BY <1>4, FileFacts DEF FollowsFile
  <2>2. QED  BY <1>1, <1>2, <1>4, <2>1 DEF ConfTypeOK
<1>5. CASE /\ confFile \notin {Missing, Garbled}
           /\ stored' = Unmarshal(confFile.config, stored)
           /\ live' = MergeConfigs(stored')
           /\ NotifyUpdate(IF Valid(live') THEN ToldConfig(live') ELSE NoConfig)
           /\ UNCHANGED <<confFile, fsEvents>>
  <2>1. PICK f \in FileConfig : confFile = Holds(f)
    BY <1>1, <1>5 DEF ConfTypeOK, FileValues
  <2>2. confFile.config = f
    BY <2>1, FileFacts
  <2>3. /\ stored' \in Stored /\ stored'.port = f.port /\ f.health \in {Absent, stored'.health}
    BY <1>1, <1>5, <2>2, UnmarshalFacts DEF ConfTypeOK
  <2>4. /\ live' \in LiveType /\ live'.port = f.port /\ live'.addr = f.port
        /\ f.health \in {Absent, live'.health}
    BY <1>5, <2>3, MergeFacts
  <2>5. FollowsFile'
    BY <1>5, <2>2, <2>4 DEF FollowsFile
  <2>6. QED  BY <1>1, <1>2, <1>5, <2>3, <2>4, <2>5 DEF ConfTypeOK
<1>6. QED  BY <1>3, <1>4, <1>5 DEF HandleConfigChange

LEMMA OtherSteps ==
  ASSUME ConfIInv,
         \/ StartWatching \/ WatchEvent \/ WatchEnds
         \/ ConfStop \/ ReceiveUpdate \/ EditFile \/ BindPort
  PROVE  ConfIInv'
<1>1. ConfTypeOK /\ Quiet /\ ToldInForce /\ MigrationComplete /\ (confPhase = "loaded" => watchLoop = "none")
  BY DEF ConfIInv
<1>2. UNCHANGED <<stored, live, confPanic, confCalls, told, untold, gaps>>
  BY DEF StartWatching, WatchEvent, WatchEnds, ConfStop, ReceiveUpdate, EditFile, BindPort, toldVars
<1>3. ToldInForce' /\ MigrationComplete'
  BY <1>1, <1>2 DEF ToldInForce, MigrationComplete
<1>4. CASE StartWatching \/ WatchEvent \/ WatchEnds \/ ConfStop
  <2>2. CASE StartWatching
    <3>1. /\ confPhase = "loaded" /\ confPhase' = "running" /\ watchLoop' = "idle"
          /\ UNCHANGED <<confFile, updates, boundPorts, edits, binds, unseen, fsEvents>>
      BY <2>2 DEF StartWatching, toldVars
    <3>2. ConfTypeOK' /\ Quiet'
      BY <1>1, <1>2, <3>1 DEF ConfTypeOK, Quiet, FollowsFile
    <3>3. QED  BY <1>3, <3>1, <3>2 DEF ConfIInv
  <2>3. CASE WatchEvent
    <3>1. /\ watchLoop = "idle" /\ watchLoop' = "handling" /\ fsEvents > 0 /\ fsEvents' = fsEvents - 1
          /\ UNCHANGED <<confFile, confPhase, updates, boundPorts, edits, binds, unseen>>
      BY <2>3 DEF WatchEvent, toldVars
    <3>2. fsEvents' \in Nat
      BY <1>1, <3>1 DEF ConfTypeOK
    <3>3. ConfTypeOK' /\ Quiet' /\ confPhase # "loaded"
      BY <1>1, <1>2, <3>1, <3>2 DEF ConfTypeOK, Quiet
    <3>4. QED  BY <1>3, <3>1, <3>3 DEF ConfIInv
  <2>4. CASE WatchEnds \/ ConfStop
    <3>1. /\ UNCHANGED <<confFile, fsEvents, updates, boundPorts, edits, binds, unseen>>
          /\ watchLoop' \in {watchLoop, "ended"} /\ confPhase' \in {confPhase, "cancelled", "closed"}
          /\ confPhase' \in {"cancelled", "closed"}
      BY <2>4 DEF WatchEnds, ConfStop, toldVars
    <3>2. ConfTypeOK' /\ Quiet'
      BY <1>1, <1>2, <3>1 DEF ConfTypeOK, Quiet
    <3>3. QED  BY <1>3, <3>1, <3>2 DEF ConfIInv
  <2>5. QED  BY <1>4, <2>2, <2>3, <2>4
<1>5. CASE ReceiveUpdate \/ BindPort
  <2>1. UNCHANGED <<confFile, fsEvents, confPhase, watchLoop, edits, unseen>>
    BY <1>5 DEF ReceiveUpdate, BindPort, toldVars
  <2>2. /\ updates' \in 0..QueueSize /\ boundPorts' \subseteq Ports /\ binds' \in 0..MaxBinds
    <3>1. CASE ReceiveUpdate
      BY <1>1, <3>1, ConfConstants DEF ReceiveUpdate, ConfTypeOK
    <3>2. CASE BindPort
      <4>1. binds' \in 0..MaxBinds
        BY <1>1, <3>2, ConfConstants DEF BindPort, ConfTypeOK
      <4>2. QED  BY <1>1, <3>2, <4>1 DEF BindPort, ConfTypeOK, toldVars
    <3>3. QED  BY <1>5, <3>1, <3>2
  <2>3. ConfTypeOK' /\ Quiet'
    BY <1>1, <1>2, <2>1, <2>2 DEF ConfTypeOK, Quiet, FollowsFile
  <2>4. QED  BY <1>1, <1>3, <2>1, <2>3 DEF ConfIInv
<1>6. CASE EditFile
  <2>1. /\ UNCHANGED <<confPhase, watchLoop, updates, boundPorts, binds>>
        /\ unseen' = (unseen \/ confPhase = "loaded")
        /\ fsEvents' = fsEvents +
             (IF confPhase \in {"running", "cancelled"} /\ confFile' # Missing THEN 1 ELSE 0)
    BY <1>6 DEF EditFile, toldVars
  <2>2. edits' \in 0..MaxEdits
    BY <1>1, <1>6, ConfConstants DEF EditFile, ConfTypeOK
  <2>3. confFile' \in FileValues
    <3>1. \A h \in {Short, Absent} : [port |-> 2, health |-> h, net |-> 2] \in FileConfig
      BY DEF FileConfig, PortValues, HealthValues, Ports, Healths
    <3>2. QED  BY <1>6, <3>1 DEF EditFile, FileValues
  <2>4. fsEvents' \in Nat /\ ((confPhase = "running" /\ confFile' # Missing) => fsEvents' # 0)
    BY <1>1, <2>1 DEF ConfTypeOK
  <2>5. confFile' = Missing => FollowsFile'
    BY FileFacts DEF FollowsFile
  <2>6. ConfTypeOK'
    BY <1>1, <1>2, <2>1, <2>2, <2>3, <2>4 DEF ConfTypeOK
  <2>7. Quiet'
    BY <2>1, <2>4, <2>5 DEF Quiet
  <2>8. QED  BY <1>1, <1>3, <2>1, <2>6, <2>7 DEF ConfIInv
<1>7. QED  BY <1>4, <1>5, <1>6

\* Whatever is saved, refused, edited or migrated meanwhile, the configuration in force
\* is that of the file once the watcher has nothing left to read, who misses no update
\* knows it, and a migration from a listed version leaves no registered one out.
THEOREM ConfigInvariant == ConfSpec => []ConfigInv
<1>1. ConfIInv /\ [ConfNext]_confVars => ConfIInv'
  <2> SUFFICES ASSUME ConfIInv, [ConfNext]_confVars PROVE ConfIInv'
    OBVIOUS
  <2>1. CASE ConfNext
    BY <2>1, UpdateSteps, TemplateSteps, MigrateSteps, HandleSteps, OtherSteps DEF ConfNext
  <2>2. CASE UNCHANGED confVars
    BY <2>2 DEF confVars, ConfIInv, ConfTypeOK, Quiet, FollowsFile, ToldInForce, MigrationComplete
  <2>3. QED  BY <2>1, <2>2
<1>2. ConfIInv => ConfigInv
  BY DEF ConfIInv, ConfigInv, Quiet, QuietAgrees
<1>3. QED  BY <1>1, <1>2, ConfInitial, PTL DEF ConfSpec

=============================================================================
