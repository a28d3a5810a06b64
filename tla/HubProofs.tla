----------------------------- MODULE HubProofs ------------------------------
(***************************************************************************)
(* Theorems about WebSocketHub: HubInv holds of HubSpec for any clients,   *)
(* topics, buffer sizes and numbers of messages.                           *)
(*                                                                         *)
(* HubInv is not inductive: that a send meets an open channel follows from *)
(* where the client's reader is, and that a confirmation precedes the      *)
(* updates from who holds client.mu.  Served and Confirmations say so.     *)
(***************************************************************************)
EXTENDS WebSocketHub, TLAPS

Confirmed(c, t) == \E j \in DOMAIN sent[c] : sent[c][j] = Message("subscribed", t)

\* Where a client's reader is and what there is of the client.
Served == \A c \in WSClients :
  /\ conn[c] = "none" => c \notin registered /\ wsReader[c] = "none"
  /\ wsReader[c] = "none" =>
       /\ c \notin sending
       /\ sendQ[c] = <<>> /\ sent[c] = <<>> /\ subscriptions[c] = {}
  /\ wsReader[c] # "none" => sent[c] # <<>>
  /\ wsReader[c] # "ended" => c \notin sendClosed

\* The broadcaster holds clients only while it holds wsClientsMu.
RoundHolds == round = NoTopic => todo = {} /\ sending = {}

\* A subscription has been confirmed, or is about to be under client.mu.
Confirmations ==
  /\ \A c \in WSClients : wsReader[c] = "confirms" => confirming[c].kind # "update"
  /\ \A c \in WSClients \ skipped :
       /\ \A t \in subscriptions[c] :
            \/ Confirmed(c, t)
            \/ wsReader[c] = "confirms" /\ confirming[c] = Message("subscribed", t)
       /\ c \in sending => Confirmed(c, round)

HubIInv ==
  /\ HubTypeOK /\ NoSendOnClosed /\ OpenWhileRegistered /\ WelcomeFirst /\ ConfirmedFirst
  /\ Served /\ RoundHolds /\ Confirmations

-----------------------------------------------------------------------------
(* Messages and sends.                                                     *)

LEMMA MessageKinds ==
  /\ Welcome \in Messages /\ Welcome.kind = "connected"
  /\ \A t \in Topics : \A k \in {"subscribed", "unsubscribed", "update"} :
       Message(k, t) \in Messages /\ Message(k, t).kind = k /\ Message(k, t).topic = t
<1>1. Welcome \in Messages /\ Welcome.kind = "connected"
  BY DEF Messages, Welcome
<1>2. ASSUME NEW t \in Topics, NEW k \in {"subscribed", "unsubscribed", "update"}
      PROVE  Message(k, t) \in Messages /\ Message(k, t).kind = k /\ Message(k, t).topic = t
  <2>1. Message(k, t) \in Messages  BY DEF Messages
  <2>2. QED  BY <2>1 DEF Message
<1>3. QED  BY <1>1, <1>2

\* What a send to an open channel does: it adds the message behind the others,
\* or finds the channel full.
LEMMA SendOpen ==
  ASSUME HubTypeOK, NEW c \in WSClients, c \notin sendClosed, NEW m \in Messages,
         WriteMessage(c, m)
  PROVE  /\ hubPanic' = hubPanic
         /\ sendQ' \in [WSClients -> Seq(Messages)]
         /\ \A d \in WSClients : Len(sendQ'[d]) <= SendSize
         /\ \A d \in WSClients \ {c} : sendQ'[d] = sendQ[d] /\ sent'[d] = sent[d]
         /\ sent' \in [WSClients -> Seq(Messages)]
         /\ \/ sent'[c] = Append(sent[c], m) /\ skipped' = skipped
            \/ /\ sent' = sent /\ Len(sendQ[c]) = SendSize
               /\ skipped' = IF m.kind = "update" THEN skipped ELSE skipped \cup {c}
<1> USE HubAssumption DEF HubTypeOK, WriteMessage
<1>1. CASE Len(sendQ[c]) < SendSize
  <2>1. sendQ[c] \in Seq(Messages) /\ sent[c] \in Seq(Messages)
    OBVIOUS
  <2>2. Len(Append(sendQ[c], m)) = Len(sendQ[c]) + 1 /\ Len(sendQ[c]) \in Nat
    BY <2>1
  <2>3. /\ sendQ' = [sendQ EXCEPT ![c] = Append(sendQ[c], m)]
        /\ sent' = [sent EXCEPT ![c] = Append(sent[c], m)]
        /\ UNCHANGED <<skipped, hubPanic>>
    BY <1>1
  <2>4. Append(sendQ[c], m) \in Seq(Messages) /\ Append(sent[c], m) \in Seq(Messages)
    BY <2>1
  <2>5. \A d \in WSClients : Len(sendQ'[d]) <= SendSize
    BY <1>1, <2>2, <2>3
  <2>6. QED  BY <2>3, <2>4, <2>5
<1>2. CASE ~ (Len(sendQ[c]) < SendSize)
  <2>1. Len(sendQ[c]) = SendSize
    <3>1. Len(sendQ[c]) \in Nat /\ Len(sendQ[c]) <= SendSize  OBVIOUS
    <3>2. QED  BY <3>1, <1>2
  <2>2. QED  BY <1>2, <2>1
<1>3. QED  BY <1>1, <1>2

\* What was sent stays where it was.
LEMMA SentGrows ==
  ASSUME HubTypeOK, NEW c \in WSClients, c \notin sendClosed, NEW m \in Messages,
         WriteMessage(c, m), NEW d \in WSClients
  PROVE  /\ \A i \in DOMAIN sent[d] : i \in DOMAIN sent'[d] /\ sent'[d][i] = sent[d][i]
         /\ \A i \in DOMAIN sent'[d] : i \in Nat \ {0}
         /\ \A i \in DOMAIN sent'[d] \ DOMAIN sent[d] :
              d = c /\ i = Len(sent[d]) + 1 /\ sent'[d][i] = m
         /\ \A t : Confirmed(d, t) => Confirmed(d, t)'
<1>1. sent[d] \in Seq(Messages) /\ sent'[d] \in Seq(Messages)
  BY SendOpen DEF HubTypeOK
<1>2. CASE sent'[d] = sent[d]
  BY <1>1, <1>2 DEF Confirmed
<1>3. CASE d = c /\ sent'[c] = Append(sent[c], m)
  <2>1. /\ DOMAIN sent[d] = 1..Len(sent[d]) /\ Len(sent[d]) \in Nat
        /\ DOMAIN sent'[d] = 1..(Len(sent[d]) + 1)
        /\ \A i \in 1..Len(sent[d]) : sent'[d][i] = sent[d][i]
        /\ sent'[d][Len(sent[d]) + 1] = m
    BY <1>1, <1>3
  <2>2. \A t : Confirmed(d, t) => Confirmed(d, t)'
    BY <2>1 DEF Confirmed
  <2>3. QED  BY <1>3, <2>1, <2>2
<1>4. QED  BY <1>2, <1>3, SendOpen

-----------------------------------------------------------------------------
(* The initial state, and the actions that send nothing.                   *)

LEMMA HubInitial == HubInit => HubIInv
BY HubAssumption, MessageKinds
   DEF HubInit, HubIInv, HubTypeOK, NoSendOnClosed, OpenWhileRegistered, WelcomeFirst,
       ConfirmedFirst, Served, RoundHolds, Confirmations, NoTopic

\* Nothing is sent, no subscription is made: what was confirmed stays so.
LEMMA QuietStep ==
  ASSUME HubIInv, UNCHANGED <<sent, skipped, hubPanic, subscriptions, wsReader, confirming>>,
         sending' \subseteq sending, sending' # {} => round' = round
  PROVE  NoSendOnClosed' /\ WelcomeFirst' /\ ConfirmedFirst' /\ Confirmations'
BY DEF HubIInv, NoSendOnClosed, WelcomeFirst, ConfirmedFirst, Confirmations, Confirmed

LEMMA ServerSteps ==
  ASSUME HubIInv, ServerStart \/ ServerStop \/ Broadcast
  PROVE  HubIInv'
<1> USE HubAssumption
<1>1. HubTypeOK'
  <2>1. CASE ServerStart \/ ServerStop
    BY <2>1 DEF HubIInv, HubTypeOK, ServerStart, ServerStop, clientVars, roundVars, sendVars
  <2>2. CASE Broadcast
    <3>1. wsBroadcast' \in Seq(Topics) /\ Len(wsBroadcast') <= BroadcastSize
      BY <2>2 DEF HubIInv, HubTypeOK, Broadcast
    <3>2. QED  BY <2>2, <3>1 DEF HubIInv, HubTypeOK, Broadcast, clientVars, sendVars
  <2>3. QED  BY <2>1, <2>2
<1>2. NoSendOnClosed' /\ WelcomeFirst' /\ ConfirmedFirst' /\ Confirmations'
  BY QuietStep DEF ServerStart, ServerStop, Broadcast, clientVars, roundVars, sendVars
<1>3. OpenWhileRegistered' /\ Served' /\ RoundHolds'
  BY DEF HubIInv, OpenWhileRegistered, Served, RoundHolds,
         ServerStart, ServerStop, Broadcast, clientVars, roundVars, sendVars
<1>4. QED  BY <1>1, <1>2, <1>3 DEF HubIInv

LEMMA ConnectionSteps ==
  ASSUME HubIInv, NEW c \in WSClients, Register(c) \/ Leave(c) \/ HandleWSWrite(c)
  PROVE  HubIInv'
<1> USE HubAssumption
<1>1. HubTypeOK'
  <2>1. sendQ[c] # <<>> => Tail(sendQ[c]) \in Seq(Messages) /\ Len(Tail(sendQ[c])) <= SendSize
    <3>1. sendQ[c] \in Seq(Messages) /\ Len(sendQ[c]) <= SendSize
      BY DEF HubIInv, HubTypeOK
    <3>2. QED  BY <3>1
  <2>2. CASE Register(c) \/ Leave(c) \/ WriterEnds(c)
    BY <2>2 DEF HubIInv, HubTypeOK, Register, Leave, WriterEnds, roundVars, sendVars
  <2>3. CASE WriteNext(c)
    BY <2>1, <2>3 DEF HubIInv, HubTypeOK, WriteNext, roundVars
  <2>4. QED  BY <2>2, <2>3 DEF HandleWSWrite
<1>2. NoSendOnClosed' /\ WelcomeFirst' /\ ConfirmedFirst' /\ Confirmations'
  BY QuietStep DEF Register, Leave, HandleWSWrite, WriteNext, WriterEnds, roundVars, sendVars
<1>3. OpenWhileRegistered' /\ Served' /\ RoundHolds'
  <2> USE DEF HubIInv, HubTypeOK, OpenWhileRegistered, Served, RoundHolds, roundVars, sendVars
  <2>1. CASE Register(c)    BY <2>1 DEF Register
  <2>2. CASE Leave(c)       BY <2>2 DEF Leave
  <2>3. CASE WriterEnds(c)  BY <2>3 DEF WriterEnds
  <2>4. CASE WriteNext(c)   BY <2>4 DEF WriteNext
  <2>5. QED  BY <2>1, <2>2, <2>3, <2>4 DEF HandleWSWrite
<1>4. QED  BY <1>1, <1>2, <1>3 DEF HubIInv

\* A client is looked at while its reader does not hold client.mu, so that
\* every subscription that is seen has been confirmed.
LEMMA RoundSteps ==
  ASSUME HubIInv, RoundBegin \/ RoundEnd \/ \E c \in WSClients : LookAt(c)
  PROVE  HubIInv'
<1> USE HubAssumption
<1>1. CASE RoundBegin
  <2>1. Head(wsBroadcast) \in Topics /\ Tail(wsBroadcast) \in Seq(Topics)
        /\ Len(Tail(wsBroadcast)) <= BroadcastSize
    <3>1. wsBroadcast \in Seq(Topics) /\ Len(wsBroadcast) <= BroadcastSize /\ wsBroadcast # <<>>
      BY <1>1 DEF HubIInv, HubTypeOK, RoundBegin
    <3>2. QED  BY <3>1
  <2>2. HubTypeOK'
    BY <1>1, <2>1 DEF HubIInv, HubTypeOK, RoundBegin, clientVars, sendVars
  <2>3. sending = {} /\ sending' = {}
    BY <1>1 DEF HubIInv, RoundHolds, RoundBegin
  <2>4. NoSendOnClosed' /\ WelcomeFirst' /\ ConfirmedFirst' /\ Confirmations'
    BY <1>1, <2>3, QuietStep DEF RoundBegin, clientVars, sendVars
  <2>5. OpenWhileRegistered' /\ Served' /\ RoundHolds'
    BY <1>1, <2>1, <2>3 DEF HubIInv, OpenWhileRegistered, Served, RoundHolds, RoundBegin,
                            clientVars, sendVars, NoTopic
  <2>6. QED  BY <2>2, <2>4, <2>5 DEF HubIInv
<1>2. CASE RoundEnd
  <2>1. HubTypeOK' /\ OpenWhileRegistered' /\ Served' /\ RoundHolds'
    BY <1>2 DEF HubIInv, HubTypeOK, OpenWhileRegistered, Served, RoundHolds, RoundEnd,
                clientVars, sendVars
  <2>2. NoSendOnClosed' /\ WelcomeFirst' /\ ConfirmedFirst' /\ Confirmations'
    BY <1>2, QuietStep DEF RoundEnd, clientVars, sendVars
  <2>3. QED  BY <2>1, <2>2 DEF HubIInv
<1>3. ASSUME NEW c \in WSClients, LookAt(c)
      PROVE  HubIInv'
  <2> USE <1>3 DEF LookAt, clientVars, sendVars
  <2>1. HubTypeOK' /\ OpenWhileRegistered'
    BY DEF HubIInv, HubTypeOK, OpenWhileRegistered
  <2>2. Served' /\ RoundHolds'
    BY DEF HubIInv, Served, RoundHolds
  <2>3. NoSendOnClosed' /\ WelcomeFirst' /\ ConfirmedFirst'
    BY DEF HubIInv, NoSendOnClosed, WelcomeFirst, ConfirmedFirst
  <2>4. Confirmations'
    <3>1. c \notin skipped /\ round \in subscriptions[c] => Confirmed(c, round)
      BY DEF HubIInv, Confirmations
    <3>2. QED  BY <3>1 DEF HubIInv, Confirmations, Confirmed
  <2>5. QED  BY <2>1, <2>2, <2>3, <2>4 DEF HubIInv
<1>4. QED  BY <1>1, <1>2, <1>3

-----------------------------------------------------------------------------
(* The reader.                                                             *)

LEMMA SubscriptionStep ==
  ASSUME HubIInv, NEW c \in WSClients, HandleWSSubscription(c)
  PROVE  HubIInv'
<1> USE HubAssumption DEF HandleWSSubscription, roundVars, sendVars
<1>1. PICK t \in Topics, action \in {"subscribe", "unsubscribe"} :
        /\ subscriptions' = [subscriptions EXCEPT ![c] =
                               IF action = "subscribe" THEN @ \cup {t} ELSE @ \ {t}]
        /\ confirming' = [confirming EXCEPT ![c] =
                            Message(IF action = "subscribe" THEN "subscribed"
                                    ELSE "unsubscribed", t)]
  OBVIOUS
<1>2. confirming' \in [WSClients -> Messages] /\ confirming'[c].kind # "update"
      /\ (action = "subscribe" => confirming'[c] = Message("subscribed", t))
  BY <1>1, MessageKinds DEF HubIInv, HubTypeOK
<1>3. HubTypeOK'
  BY <1>1, <1>2 DEF HubIInv, HubTypeOK
<1>4. NoSendOnClosed' /\ WelcomeFirst' /\ ConfirmedFirst'
  BY DEF HubIInv, NoSendOnClosed, WelcomeFirst, ConfirmedFirst
<1>5. OpenWhileRegistered' /\ Served' /\ RoundHolds'
  BY DEF HubIInv, HubTypeOK, OpenWhileRegistered, Served, RoundHolds
<1>6. Confirmations'
  <2>1. \A d \in WSClients : wsReader'[d] = "confirms" => confirming'[d].kind # "update"
    BY <1>1, <1>2 DEF HubIInv, HubTypeOK, Confirmations
  <2>2. ASSUME NEW d \in WSClients \ skipped', NEW s \in subscriptions'[d]
        PROVE  \/ Confirmed(d, s)'
               \/ wsReader'[d] = "confirms" /\ confirming'[d] = Message("subscribed", s)
    <3>1. CASE d = c /\ action = "subscribe" /\ s = t
      BY <1>2, <3>1 DEF HubIInv, HubTypeOK
    <3>2. CASE ~ (d = c /\ action = "subscribe" /\ s = t)
      <4>1. s \in subscriptions[d] /\ (d = c => wsReader[d] = "reads")
        BY <1>1, <3>2 DEF HubIInv, HubTypeOK
      <4>2. \/ Confirmed(d, s)
            \/ d # c /\ wsReader[d] = "confirms" /\ confirming[d] = Message("subscribed", s)
        BY <4>1 DEF HubIInv, Confirmations
      <4>3. QED  BY <1>1, <4>2 DEF HubIInv, HubTypeOK, Confirmed
    <3>3. QED  BY <3>1, <3>2
  <2>3. \A d \in WSClients \ skipped' : d \in sending' => Confirmed(d, round)'
    BY DEF HubIInv, Confirmations, Confirmed
  <2>4. QED  BY <2>1, <2>2, <2>3 DEF Confirmations
<1>7. QED  BY <1>3, <1>4, <1>5, <1>6 DEF HubIInv

LEMMA ReaderEnds ==
  ASSUME HubIInv, NEW c \in WSClients, ReadFails(c) \/ RemoveWSClient(c)
  PROVE  HubIInv'
<1> USE HubAssumption DEF ReadFails, RemoveWSClient, roundVars, sendVars
<1>1. HubTypeOK'
  BY DEF HubIInv, HubTypeOK
<1>2. NoSendOnClosed' /\ WelcomeFirst' /\ ConfirmedFirst'
  BY DEF HubIInv, NoSendOnClosed, WelcomeFirst, ConfirmedFirst
<1>3. OpenWhileRegistered' /\ RoundHolds'
  BY DEF HubIInv, OpenWhileRegistered, RoundHolds
<1>4. wsReader[c] \in {"reads", "removes"} /\ wsReader'[c] \in {"removes", "ended"}
      /\ \A d \in WSClients : d # c => wsReader'[d] = wsReader[d]
  BY DEF HubIInv, HubTypeOK
<1>5. Served'
  <2>1. CASE ReadFails(c)
    BY <1>4, <2>1 DEF HubIInv, Served
  <2>2. CASE RemoveWSClient(c)
    BY <1>4, <2>2 DEF HubIInv, HubTypeOK, Served
  <2>3. QED  BY <2>1, <2>2
<1>6. Confirmations'
  BY <1>4 DEF HubIInv, Confirmations, Confirmed
<1>7. QED  BY <1>1, <1>2, <1>3, <1>5, <1>6 DEF HubIInv

-----------------------------------------------------------------------------
(* The three that send.                                                    *)

\* What a send of anything but an unconfirmed update keeps.
LEMMA SendKeeps ==
  ASSUME HubIInv, NEW c \in WSClients, c \notin sendClosed, NEW m \in Messages,
         WriteMessage(c, m), sent[c] = <<>> => m = Welcome,
         c \notin skipped /\ m.kind = "update" => Confirmed(c, m.topic)
  PROVE  NoSendOnClosed' /\ WelcomeFirst' /\ ConfirmedFirst'
<1>1. NoSendOnClosed'
  BY SendOpen DEF HubIInv, NoSendOnClosed
<1>2. skipped \subseteq skipped'
  BY SendOpen DEF HubIInv
<1>3. ASSUME NEW d \in WSClients, sent'[d] # <<>>
      PROVE  sent'[d][1] = Welcome
  <2>1. sent[d] \in Seq(Messages) /\ sent'[d] \in Seq(Messages)
    BY SendOpen DEF HubIInv, HubTypeOK
  <2>2. CASE sent[d] = <<>>
    <3>1. 1 \in DOMAIN sent'[d] /\ 1 \notin DOMAIN sent[d]
      BY <1>3, <2>1, <2>2
    <3>2. QED  BY <2>2, <3>1, SentGrows DEF HubIInv
  <2>3. CASE sent[d] # <<>>
    <3>1. 1 \in DOMAIN sent[d] /\ sent[d][1] = Welcome
      BY <2>1, <2>3 DEF HubIInv, WelcomeFirst
    <3>2. QED  BY <3>1, SentGrows DEF HubIInv
  <2>4. QED  BY <2>2, <2>3
<1>4. ASSUME NEW d \in WSClients \ skipped', NEW i \in DOMAIN sent'[d],
             sent'[d][i].kind = "update"
      PROVE  \E j \in 1..(i - 1) : sent'[d][j] = Message("subscribed", sent'[d][i].topic)
  <2>1. sent[d] \in Seq(Messages) /\ d \notin skipped
    BY <1>2 DEF HubIInv, HubTypeOK
  <2>2. CASE i \in DOMAIN sent[d]
    <3>1. sent'[d][i] = sent[d][i]
      BY <2>2, SentGrows DEF HubIInv
    <3>2. PICK j \in 1..(i - 1) : sent[d][j] = Message("subscribed", sent[d][i].topic)
      BY <1>4, <2>1, <2>2, <3>1 DEF HubIInv, ConfirmedFirst
    <3>3. j \in DOMAIN sent[d]
      BY <2>1, <2>2, <3>2
    <3>4. sent'[d][j] = sent[d][j]
      BY <3>3, SentGrows DEF HubIInv
    <3>5. QED  BY <3>1, <3>2, <3>4
  <2>3. CASE i \notin DOMAIN sent[d]
    <3>1. d = c /\ i = Len(sent[d]) + 1 /\ sent'[d][i] = m
      BY <2>3, SentGrows DEF HubIInv
    <3>2. PICK j \in DOMAIN sent[c] : sent[c][j] = Message("subscribed", m.topic)
      BY <1>4, <2>1, <3>1 DEF Confirmed
    <3>3. j \in 1..(i - 1)
      BY <2>1, <3>1
    <3>4. sent'[d][j] = sent[d][j]
      BY <3>1, SentGrows DEF HubIInv
    <3>5. QED  BY <3>1, <3>2, <3>3, <3>4
  <2>4. QED  BY <2>2, <2>3
<1>5. QED  BY <1>1, <1>3, <1>4 DEF WelcomeFirst, ConfirmedFirst

LEMMA GreetStep ==
  ASSUME HubIInv, NEW c \in WSClients, Greet(c)
  PROVE  HubIInv'
<1> USE HubAssumption DEF Greet, roundVars
<1>1. c \notin sendClosed /\ c \notin sending /\ sendQ[c] = <<>> /\ sent[c] = <<>>
      /\ subscriptions[c] = {}
  BY DEF HubIInv, Served
<1>2. sent'[c] = Append(sent[c], Welcome) /\ skipped' = skipped
  BY <1>1, SendOpen, MessageKinds DEF HubIInv
<1>3. sent'[c] # <<>>
  BY <1>1, <1>2
<1>4. HubTypeOK'
  BY <1>1, SendOpen, MessageKinds DEF HubIInv, HubTypeOK
<1>5. NoSendOnClosed' /\ WelcomeFirst' /\ ConfirmedFirst'
  <2>1. Welcome \in Messages /\ Welcome.kind # "update"
    BY MessageKinds
  <2>2. QED  BY <1>1, <2>1, SendKeeps
<1>6. OpenWhileRegistered' /\ RoundHolds'
  BY DEF HubIInv, OpenWhileRegistered, RoundHolds
<1>7. Served'
  BY <1>1, <1>3, SendOpen, MessageKinds DEF HubIInv, HubTypeOK, OpenWhileRegistered, Served
<1>8. Confirmations'
  <2>1. \A d \in WSClients : \A t : Confirmed(d, t) => Confirmed(d, t)'
    BY <1>1, SentGrows, MessageKinds DEF HubIInv
  <2>2. QED  BY <1>1, <1>2, <2>1 DEF HubIInv, HubTypeOK, Confirmations
<1>9. QED  BY <1>4, <1>5, <1>6, <1>7, <1>8 DEF HubIInv

LEMMA ConfirmStep ==
  ASSUME HubIInv, NEW c \in WSClients, Confirm(c)
  PROVE  HubIInv'
<1> USE HubAssumption DEF Confirm, roundVars
<1> DEFINE m == confirming[c]
<1>1. c \notin sendClosed /\ sent[c] # <<>> /\ m \in Messages /\ m.kind # "update"
  BY DEF HubIInv, HubTypeOK, Served, Confirmations
<1>2. HubTypeOK'
  BY <1>1, SendOpen, MessageKinds DEF HubIInv, HubTypeOK
<1>3. NoSendOnClosed' /\ WelcomeFirst' /\ ConfirmedFirst'
  BY <1>1, SendKeeps
<1>4. OpenWhileRegistered' /\ RoundHolds'
  BY DEF HubIInv, OpenWhileRegistered, RoundHolds
<1>5. sent'[c] # <<>>
  <2>1. sent[c] \in Seq(Messages) /\ (sent'[c] = Append(sent[c], m) \/ sent' = sent)
    BY <1>1, SendOpen DEF HubIInv, HubTypeOK
  <2>2. QED  BY <1>1, <2>1
<1>6. Served'
  BY <1>1, <1>5, SendOpen DEF HubIInv, HubTypeOK, Served
<1>7. Confirmations'
  <2>1. \A d \in WSClients : \A t : Confirmed(d, t) => Confirmed(d, t)'
    BY <1>1, SentGrows DEF HubIInv
  <2>2. skipped \subseteq skipped'
    BY <1>1, SendOpen DEF HubIInv
  <2>3. ASSUME c \notin skipped', NEW t \in subscriptions'[c]
        PROVE  Confirmed(c, t)'
    <3>1. CASE Confirmed(c, t)
      BY <3>1, <2>1
    <3>2. CASE m = Message("subscribed", t)
      <4>1. sent[c] \in Seq(Messages)
        BY DEF HubIInv, HubTypeOK
      <4>2. sent'[c] = Append(sent[c], m)
        BY <1>1, <2>3, SendOpen DEF HubIInv
      <4>3. Len(sent[c]) + 1 \in DOMAIN sent'[c] /\ sent'[c][Len(sent[c]) + 1] = m
        BY <4>1, <4>2
      <4>4. QED  BY <3>2, <4>3 DEF Confirmed
    <3>3. QED  BY <2>2, <2>3, <3>1, <3>2 DEF HubIInv, Confirmations
  <2>4. \A d \in WSClients : d # c => wsReader'[d] = wsReader[d] /\ confirming'[d] = confirming[d]
    BY DEF HubIInv, HubTypeOK
  <2>5. wsReader'[c] = "reads"
    BY DEF HubIInv, HubTypeOK
  <2>6. QED
    BY <2>1, <2>2, <2>3, <2>4, <2>5 DEF HubIInv, HubTypeOK, Confirmations
<1>8. QED  BY <1>2, <1>3, <1>4, <1>6, <1>7 DEF HubIInv

LEMMA SendUpdateStep ==
  ASSUME HubIInv, NEW c \in WSClients, SendUpdate(c)
  PROVE  HubIInv'
<1> USE HubAssumption DEF SendUpdate, clientVars
<1> DEFINE m == Message("update", round)
<1>1. c \notin sendClosed /\ wsReader[c] # "none" /\ round \in Topics
  BY DEF HubIInv, HubTypeOK, OpenWhileRegistered, Served, RoundHolds
<1>2. m \in Messages /\ m.kind = "update" /\ m.topic = round
  BY <1>1, MessageKinds
<1>3. HubTypeOK'
  BY <1>1, <1>2, SendOpen DEF HubIInv, HubTypeOK
<1>4. sent[c] # <<>>
  BY <1>1 DEF HubIInv, Served
<1>5. NoSendOnClosed' /\ WelcomeFirst' /\ ConfirmedFirst'
  <2>1. c \notin skipped => Confirmed(c, round)
    BY DEF HubIInv, Confirmations
  <2>2. QED  BY <1>1, <1>2, <1>4, <2>1, SendKeeps
<1>6. OpenWhileRegistered' /\ RoundHolds'
  BY DEF HubIInv, OpenWhileRegistered, RoundHolds
<1>7. sent'[c] # <<>>
  <2>1. sent[c] \in Seq(Messages) /\ (sent'[c] = Append(sent[c], m) \/ sent' = sent)
    BY <1>1, <1>2, SendOpen DEF HubIInv, HubTypeOK
  <2>2. QED  BY <1>4, <2>1
<1>8. Served'
  BY <1>1, <1>2, <1>7, SendOpen DEF HubIInv, HubTypeOK, Served
<1>9. Confirmations'
  <2>1. \A d \in WSClients : \A t : Confirmed(d, t) => Confirmed(d, t)'
    BY <1>1, <1>2, SentGrows DEF HubIInv
  <2>2. skipped' = skipped
    BY <1>1, <1>2, SendOpen DEF HubIInv
  <2>3. QED  BY <2>1, <2>2 DEF HubIInv, Confirmations
<1>10. QED  BY <1>3, <1>5, <1>6, <1>8, <1>9 DEF HubIInv

-----------------------------------------------------------------------------
(* The theorems.                                                           *)

LEMMA HubStep == HubIInv /\ [HubNext]_hubVars => HubIInv'
<1> SUFFICES ASSUME HubIInv, [HubNext]_hubVars PROVE HubIInv'
  OBVIOUS
<1>1. CASE HubNext
  <2>1. CASE ServerStart \/ ServerStop \/ Broadcast
    BY <2>1, ServerSteps
  <2>2. CASE HandleWSBroadcast
    BY <2>2, RoundSteps, SendUpdateStep DEF HandleWSBroadcast
  <2>3. ASSUME NEW c \in WSClients, Register(c) \/ Leave(c) \/ HandleWSWrite(c)
        PROVE  HubIInv'
    BY <2>3, ConnectionSteps
  <2>4. ASSUME NEW c \in WSClients, Greet(c) \/ HandleWSRead(c)
        PROVE  HubIInv'
    BY <2>4, GreetStep, SubscriptionStep, ConfirmStep, ReaderEnds DEF HandleWSRead
  <2>5. QED  BY <1>1, <2>1, <2>2, <2>3, <2>4 DEF HubNext
<1>2. CASE UNCHANGED hubVars
  BY <1>2 DEF hubVars, clientVars, roundVars, sendVars, HubIInv, HubTypeOK, NoSendOnClosed,
       OpenWhileRegistered, WelcomeFirst, ConfirmedFirst, Served, RoundHolds, Confirmations,
       Confirmed
<1>3. QED  BY <1>1, <1>2

LEMMA HubInductive == HubSpec => []HubIInv
<1>1. HubInit => HubIInv  BY HubInitial
<1>2. HubIInv /\ [HubNext]_hubVars => HubIInv'  BY HubStep
<1>3. QED  BY <1>1, <1>2, PTL DEF HubSpec

\* HubInv: no send on a closed channel, only registered clients are sent to, the
\* welcome is first, and an update follows the confirmation of its subscription.
THEOREM HubInvariant == HubSpec => []HubInv
<1>1. HubIInv => HubInv  BY DEF HubIInv, HubInv
<1>2. QED  BY <1>1, HubInductive, PTL

\* No interleaving of broadcaster, handlers and readers sends on the channel
\* that removeWSClient has closed (server.go, writeMessage and close(client.send)).
THEOREM NoPanicOnSend == HubSpec => []NoSendOnClosed
<1>1. HubIInv => NoSendOnClosed  BY DEF HubIInv
<1>2. QED  BY <1>1, HubInductive, PTL
=============================================================================
