----------------------------- MODULE PoolProofs -----------------------------
(***************************************************************************)
(* Theorems about the pools and the cache, for any workers, tasks,         *)
(* clients, connections, keys and bounds: PoolInv of WorkerPool, ConnInv   *)
(* of ConnectionPool and CacheInv of Cache.                                *)
(*                                                                         *)
(* The pools count: a task, or a connection, is at one place at a time.    *)
(* The places are functions and sequences, and Occurs counts how often a   *)
(* value is in one; the first lemmas say how an update, an append and a    *)
(* tail change that number.                                                *)
(***************************************************************************)
EXTENDS WorkerPool, ConnectionPool, Cache, FiniteSetTheorems, WellFoundedInduction, TLAPS

\* How often x is a value of the function or sequence f.
Occurs(f, x) == Cardinality({i \in DOMAIN f : f[i] = x})
\* How often one of P is.
Within(f, P) == Cardinality({i \in DOMAIN f : f[i] \in P})
One(test) == IF test THEN 1 ELSE 0

LEMMA OccursType ==
  ASSUME NEW f, IsFiniteSet(DOMAIN f), NEW x
  PROVE  Occurs(f, x) \in Nat /\ IsFiniteSet({i \in DOMAIN f : f[i] = x})
<1>1. {i \in DOMAIN f : f[i] = x} \in SUBSET DOMAIN f
  OBVIOUS
<1>2. QED  BY <1>1, FS_Subset, FS_CardinalityType DEF Occurs

LEMMA OccursNone ==
  ASSUME NEW f, NEW x, \A i \in DOMAIN f : f[i] # x
  PROVE  Occurs(f, x) = 0
<1>1. {i \in DOMAIN f : f[i] = x} = {}
  OBVIOUS
<1>2. QED  BY <1>1, FS_EmptySet DEF Occurs

LEMMA OccursSome ==
  ASSUME NEW f, IsFiniteSet(DOMAIN f), NEW i \in DOMAIN f
  PROVE  Occurs(f, f[i]) >= 1
<1> DEFINE S == {j \in DOMAIN f : f[j] = f[i]}
<1>1. IsFiniteSet(S) /\ S # {} /\ Cardinality(S) \in Nat
  BY OccursType, FS_CardinalityType
<1>2. Cardinality(S) # 0
  BY <1>1, FS_EmptySet
<1>3. QED  BY <1>1, <1>2 DEF Occurs

\* One value of a function is replaced.
LEMMA WithinSplit ==
  ASSUME NEW D, IsFiniteSet(D), NEW i \in D, NEW f, DOMAIN f = D, NEW P
  PROVE  /\ Cardinality({j \in D \ {i} : f[j] \in P}) \in Nat
         /\ Within(f, P) = Cardinality({j \in D \ {i} : f[j] \in P}) + One(f[i] \in P)
<1> DEFINE R == {j \in D \ {i} : f[j] \in P}
           W == {j \in DOMAIN f : f[j] \in P}
<1>1. R \in SUBSET D /\ i \notin R
  OBVIOUS
<1>2. (f[i] \in P => W = R \cup {i}) /\ (f[i] \notin P => W = R)
  OBVIOUS
<1>3. Within(f, P) = Cardinality(W)
  BY DEF Within
<1> HIDE DEF R, W
<1>4. IsFiniteSet(R) /\ Cardinality(R) \in Nat
  BY <1>1, FS_Subset, FS_CardinalityType
<1>5. Cardinality(R \cup {i}) = Cardinality(R) + 1
  BY <1>1, <1>4, FS_AddElement
<1>6. CASE f[i] \in P
  BY <1>2, <1>3, <1>4, <1>5, <1>6 DEF One, R
<1>7. CASE f[i] \notin P
  BY <1>2, <1>3, <1>4, <1>7 DEF One, R
<1>8. QED  BY <1>6, <1>7

LEMMA WithinExcept ==
  ASSUME NEW D, IsFiniteSet(D), NEW i \in D, NEW f, DOMAIN f = D, NEW g, DOMAIN g = D,
         \A j \in D \ {i} : g[j] = f[j], NEW P
  PROVE  /\ Within(f, P) \in Nat /\ Within(g, P) \in Nat
         /\ Within(g, P) = Within(f, P) - One(f[i] \in P) + One(g[i] \in P)
<1> DEFINE rest(h) == Cardinality({j \in D \ {i} : h[j] \in P})
<1>1. rest(g) = rest(f)
  OBVIOUS
<1>2. rest(f) \in Nat /\ Within(f, P) = rest(f) + One(f[i] \in P)
  BY WithinSplit
<1>3. Within(g, P) = rest(g) + One(g[i] \in P)
  BY WithinSplit
<1>4. One(f[i] \in P) \in Nat /\ One(g[i] \in P) \in Nat
  BY DEF One
<1> HIDE DEF rest
<1>5. QED  BY <1>1, <1>2, <1>3, <1>4

LEMMA OccursExcept ==
  ASSUME NEW D, IsFiniteSet(D), NEW i \in D, NEW f, DOMAIN f = D, NEW g, DOMAIN g = D,
         \A j \in D \ {i} : g[j] = f[j], NEW x
  PROVE  Occurs(g, x) = Occurs(f, x) - One(f[i] = x) + One(g[i] = x)
<1>1. Occurs(f, x) = Within(f, {x}) /\ Occurs(g, x) = Within(g, {x})
  BY DEF Occurs, Within
<1>2. One(f[i] = x) = One(f[i] \in {x}) /\ One(g[i] = x) = One(g[i] \in {x})
  BY DEF One
<1>3. QED  BY <1>1, <1>2, WithinExcept

\* Two sets of values without a common one.
LEMMA WithinBoth ==
  ASSUME NEW f, IsFiniteSet(DOMAIN f), NEW P, NEW Q, P \cap Q = {}
  PROVE  /\ Within(f, P) \in Nat /\ Within(f, Q) \in Nat /\ Cardinality(DOMAIN f) \in Nat
         /\ Within(f, P) + Within(f, Q) <= Cardinality(DOMAIN f)
<1> DEFINE A == {i \in DOMAIN f : f[i] \in P}
           B == {i \in DOMAIN f : f[i] \in Q}
<1>1. A \in SUBSET DOMAIN f /\ B \in SUBSET DOMAIN f /\ A \cup B \in SUBSET DOMAIN f
      /\ A \cap B = {}
  OBVIOUS
<1>2. Within(f, P) = Cardinality(A) /\ Within(f, Q) = Cardinality(B)
  BY DEF Within
<1> HIDE DEF A, B
<1>3. IsFiniteSet(A) /\ IsFiniteSet(B) /\ Cardinality(A \cup B) <= Cardinality(DOMAIN f)
  BY <1>1, FS_Subset
<1>4. /\ Cardinality(A) \in Nat /\ Cardinality(B) \in Nat /\ Cardinality(DOMAIN f) \in Nat
  BY <1>3, FS_CardinalityType
<1>5. Cardinality(A \cup B) = Cardinality(A) + Cardinality(B) - Cardinality(A \cap B)
  BY <1>3, FS_Union
<1>6. Cardinality(A \cap B) = 0
  BY <1>1, FS_EmptySet
<1>7. QED  BY <1>2, <1>3, <1>4, <1>5, <1>6

LEMMA SeqDomain ==
  ASSUME NEW S, NEW q \in Seq(S)
  PROVE  Len(q) \in Nat /\ DOMAIN q = 1..Len(q) /\ IsFiniteSet(DOMAIN q)
<1>1. Len(q) \in Nat /\ DOMAIN q = 1..Len(q)
  OBVIOUS
<1>2. QED  BY <1>1, FS_Interval

LEMMA OccursAppend ==
  ASSUME NEW S, NEW q \in Seq(S), NEW e \in S, NEW x
  PROVE  Occurs(Append(q, e), x) = Occurs(q, x) + One(e = x)
<1> DEFINE n == Len(q) + 1
           p == Append(q, e)
           R == {j \in DOMAIN q : q[j] = x}
<1>1. /\ Len(q) \in Nat /\ DOMAIN q = 1..Len(q) /\ DOMAIN p = 1..n /\ p[n] = e
      /\ \A j \in 1..Len(q) : p[j] = q[j]
  OBVIOUS
<1>2. DOMAIN p = DOMAIN q \cup {n} /\ n \notin DOMAIN q
  BY <1>1
<1>3. IsFiniteSet(R) /\ Cardinality(R) \in Nat /\ n \notin R
  BY <1>2, SeqDomain, OccursType DEF Occurs
<1>4. Cardinality(R \cup {n}) = Cardinality(R) + 1
  BY <1>3, FS_AddElement
<1>5. {j \in DOMAIN p : p[j] = x} = IF e = x THEN R \cup {n} ELSE R
  BY <1>1, <1>2
<1>6. Occurs(p, x) = Cardinality(R) + One(e = x)
  <2>1. CASE e = x
    <3>1. {j \in DOMAIN p : p[j] = x} = R \cup {n}
      BY <2>1, <1>5
    <3>2. Occurs(p, x) = Cardinality(R \cup {n}) /\ One(e = x) = 1
      BY <2>1, <3>1 DEF Occurs, One
    <3>3. QED  BY <3>2, <1>3, <1>4
  <2>2. CASE e # x
    <3>1. {j \in DOMAIN p : p[j] = x} = R
      BY <2>2, <1>5
    <3>2. Occurs(p, x) = Cardinality(R) /\ One(e = x) = 0
      BY <2>2, <3>1 DEF Occurs, One
    <3>3. QED  BY <3>2, <1>3
  <2>3. QED  BY <2>1, <2>2
<1>7. Occurs(q, x) = Cardinality(R)
  BY DEF Occurs
<1>8. QED  BY <1>6, <1>7

LEMMA OccursTail ==
  ASSUME NEW S, NEW q \in Seq(S), q # <<>>, NEW x
  PROVE  Occurs(Tail(q), x) = Occurs(q, x) - One(Head(q) = x)
<1> DEFINE p == Tail(q)
           R == {j \in DOMAIN q \ {1} : q[j] = x}
           T == {j \in DOMAIN p : p[j] = x}
           f == [j \in T |-> j + 1]
<1>1. /\ Len(q) \in Nat \ {0} /\ DOMAIN q = 1..Len(q) /\ DOMAIN p = 1..(Len(q) - 1)
      /\ Head(q) = q[1] /\ \A j \in 1..(Len(q) - 1) : p[j] = q[j + 1]
  OBVIOUS
<1>2. f \in Bijection(T, R)
  <2>1. f \in [T -> R]
    BY <1>1
  <2>2. \A i, j \in T : f[i] = f[j] => i = j
    BY <1>1
  <2>3. ASSUME NEW j \in R
        PROVE  \E i \in T : f[i] = j
    <3>1. j - 1 \in T
      BY <1>1
    <3>2. QED  BY <3>1, <1>1
  <2>4. QED  BY <2>1, <2>2, <2>3 DEF Bijection, Injection, Surjection, IsInjective
<1>3. IsFiniteSet(DOMAIN p) /\ IsFiniteSet(DOMAIN q)
  BY <1>1, FS_Interval
<1>4. IsFiniteSet(T) /\ R \in SUBSET DOMAIN q
  BY <1>3, OccursType
<1>5. /\ IsFiniteSet(R) /\ Cardinality(R) = Cardinality(T)
      /\ Cardinality(R) \in Nat /\ Cardinality(T) \in Nat
  <2> HIDE DEF R, T, f
  <2>1. ExistsBijection(T, R)
    BY <1>2 DEF ExistsBijection
  <2>2. IsFiniteSet(R)
    BY <1>3, <1>4, FS_Subset
  <2>3. Cardinality(R) = Cardinality(T)
    BY <2>1, <2>2, <1>4, FS_Bijection
  <2>4. QED  BY <2>2, <2>3, <1>4, FS_CardinalityType
<1>6. 1 \notin R /\ Cardinality(R \cup {1}) = Cardinality(R) + 1
  BY <1>5, FS_AddElement
<1>7. {j \in DOMAIN q : q[j] = x} = IF Head(q) = x THEN R \cup {1} ELSE R
  BY <1>1
<1>8. Occurs(q, x) = Cardinality(R) + One(Head(q) = x)
  <2> HIDE DEF p, f, T
  <2>1. CASE Head(q) = x
    <3>1. {j \in DOMAIN q : q[j] = x} = R \cup {1}
      BY <2>1, <1>7
    <3>2. Occurs(q, x) = Cardinality(R \cup {1}) /\ One(Head(q) = x) = 1
      BY <2>1, <3>1 DEF Occurs, One
    <3>3. QED  BY <3>2, <1>5, <1>6
  <2>2. CASE Head(q) # x
    <3>1. {j \in DOMAIN q : q[j] = x} = R
      BY <2>2, <1>7
    <3>2. Occurs(q, x) = Cardinality(R) /\ One(Head(q) = x) = 0
      BY <2>2, <3>1 DEF Occurs, One
    <3>3. QED  BY <3>2, <1>5
  <2>3. QED  BY <2>1, <2>2
<1>9. Occurs(Tail(q), x) = Cardinality(T)
  BY DEF Occurs
<1>10. One(Head(q) = x) \in Nat
  BY DEF One
<1> HIDE DEF p, R, T, f
<1>11. QED  BY <1>5, <1>8, <1>9, <1>10

LEMMA OneIn ==
  ASSUME NEW x, NEW S
  PROVE  Cardinality({x} \cap S) = One(x \in S)
<1>1. CASE x \in S
  <2>1. {x} \cap S = {x}
    BY <1>1
  <2>2. Cardinality({x}) = 1
    BY FS_Singleton
  <2>3. QED  BY <1>1, <2>1, <2>2 DEF One
<1>2. CASE x \notin S
  <2>1. {x} \cap S = {}
    BY <1>2
  <2>2. QED  BY <1>2, <2>1, FS_EmptySet DEF One
<1>3. QED  BY <1>1, <1>2

SpreadBut(f, k, x) ==
  UNION {{j} \X {i \in DOMAIN f[j] : f[j][i] = x} : j \in DOMAIN f \ {k}}

LEMMA SpreadSplit ==
  ASSUME NEW D, IsFiniteSet(D), NEW k \in D, NEW f, DOMAIN f = D, NEW x,
         \A j \in D : IsFiniteSet(DOMAIN f[j])
  PROVE  /\ Cardinality(SpreadBut(f, k, x)) \in Nat /\ Occurs(f[k], x) \in Nat
         /\ Cardinality(Spread(f, x)) = Cardinality(SpreadBut(f, k, x)) + Occurs(f[k], x)
<1> DEFINE place == [j \in D \ {k} |-> {j} \X {i \in DOMAIN f[j] : f[j][i] = x}]
           parts == {{j} \X {i \in DOMAIN f[j] : f[j][i] = x} : j \in D \ {k}}
           A == {i \in DOMAIN f[k] : f[k][i] = x}
           B == {k} \X A
<1>1. IsFiniteSet(parts)
  <2>1. place \in Surjection(D \ {k}, parts)
    BY DEF Surjection
  <2>2. IsFiniteSet(D \ {k})
    BY FS_Difference
  <2>3. QED  BY <2>1, <2>2, FS_Surjection
<1>2. IsFiniteSet(UNION parts)
  <2>1. ASSUME NEW j \in D \ {k} PROVE IsFiniteSet({j} \X {i \in DOMAIN f[j] : f[j][i] = x})
    <3>1. IsFiniteSet({i \in DOMAIN f[j] : f[j][i] = x})
      BY OccursType
    <3>2. QED  BY <3>1, FS_Singleton, FS_Product
  <2>2. \A T \in parts : IsFiniteSet(T)
    BY <2>1
  <2> HIDE DEF parts
  <2>3. QED  BY <1>1, <2>2, FS_UNION
<1>3. IsFiniteSet(B) /\ Cardinality(B) = Occurs(f[k], x) /\ Occurs(f[k], x) \in Nat
  <2>1. IsFiniteSet(A) /\ Cardinality(A) = Occurs(f[k], x) /\ Occurs(f[k], x) \in Nat
    BY OccursType DEF Occurs
  <2>2. IsFiniteSet({k}) /\ Cardinality({k}) = 1
    BY FS_Singleton
  <2> HIDE DEF A
  <2>3. IsFiniteSet(B) /\ Cardinality(B) = 1 * Cardinality(A)
    BY <2>1, <2>2, FS_Product
  <2>4. QED  BY <2>1, <2>3
<1>4. Spread(f, x) = (UNION parts) \cup B
  BY DEF Spread
<1>5. (UNION parts) \cap B = {}
  OBVIOUS
<1> HIDE DEF parts, B, A, place
<1>6. Cardinality(UNION parts) \in Nat
  BY <1>2, FS_CardinalityType
<1>7. Cardinality(Spread(f, x)) = Cardinality(UNION parts) + Occurs(f[k], x)
  <2>1. Cardinality((UNION parts) \cup B)
          = Cardinality(UNION parts) + Cardinality(B) - Cardinality((UNION parts) \cap B)
    BY <1>2, <1>3, FS_Union
  <2>2. Cardinality((UNION parts) \cap B) = 0
    BY <1>5, FS_EmptySet
  <2>3. QED  BY <2>1, <2>2, <1>3, <1>4, <1>6
<1>8. SpreadBut(f, k, x) = UNION parts
  BY DEF SpreadBut, parts
<1>9. QED  BY <1>3, <1>6, <1>7, <1>8

LEMMA SpreadExcept ==
  ASSUME NEW D, IsFiniteSet(D), NEW k \in D, NEW f, DOMAIN f = D, NEW g, DOMAIN g = D, NEW x,
         \A j \in D : IsFiniteSet(DOMAIN f[j]) /\ IsFiniteSet(DOMAIN g[j]),
         \A j \in D \ {k} : g[j] = f[j]
  PROVE  /\ Cardinality(Spread(f, x)) \in Nat /\ Cardinality(Spread(g, x)) \in Nat
         /\ Occurs(f[k], x) \in Nat /\ Occurs(f[k], x) <= Cardinality(Spread(f, x))
         /\ Cardinality(Spread(g, x)) =
              Cardinality(Spread(f, x)) - Occurs(f[k], x) + Occurs(g[k], x)
<1>1. SpreadBut(f, k, x) = SpreadBut(g, k, x)
  BY DEF SpreadBut
<1>2. /\ Cardinality(SpreadBut(f, k, x)) \in Nat /\ Occurs(f[k], x) \in Nat
      /\ Cardinality(Spread(f, x)) = Cardinality(SpreadBut(f, k, x)) + Occurs(f[k], x)
  BY SpreadSplit
<1>3. /\ Cardinality(SpreadBut(g, k, x)) \in Nat /\ Occurs(g[k], x) \in Nat
      /\ Cardinality(Spread(g, x)) = Cardinality(SpreadBut(g, k, x)) + Occurs(g[k], x)
  BY SpreadSplit
<1>4. QED  BY <1>1, <1>2, <1>3

-----------------------------------------------------------------------------

\* WorkerTypeOK, without the bound on the executions that InOnePlace gives.
WorkerTypes ==
  /\ submit \in [Tasks -> {"no", "send", "accepted", "refused"}]
  /\ taskQueue \in Seq(Tasks) /\ Len(taskQueue) <= QueueSize
  /\ queueClosed \in BOOLEAN /\ poolPanic \in BOOLEAN
  /\ dispatcher \in {"idle", "assign", "requeue", "gone"}
  /\ inHand \in Tasks \cup {NoTask} /\ tryNext \in 1..MaxWorkers + 1
  /\ taskChan \in [Workers -> Tasks \cup {NoTask}]
  /\ worker \in [Workers -> {"idle", "taken", "active", "gone"}]
  /\ task \in [Workers -> Tasks \cup {NoTask}]
  /\ poolStop \in {"no", "wait", "done"}
  /\ executed \in [Tasks -> Nat] /\ dropped \subseteq Tasks
  /\ waitFor \in {"no", "idle", "returned"} /\ awaited \subseteq Tasks

\* The dispatcher holds a task exactly while it looks for a worker or puts the
\* task back, and a worker from the receive to the end of the task.
HandHolds ==
  /\ inHand # NoTask <=> dispatcher \in {"assign", "requeue"}
  /\ dispatcher = "assign" => tryNext <= MaxWorkers
WorkerHolds == \A w \in Workers : task[w] # NoTask <=> worker[w] \in {"taken", "active"}

\* The places of a task, as a sum of what the lemmas count.
PlaceSum(t) ==
  executed[t] + One(t \in dropped) + One(t = inHand)
    + Occurs(taskQueue, t) + Occurs(taskChan, t) + Occurs(task, t)

WorkerIInv ==
  /\ WorkerTypes /\ HandHolds /\ WorkerHolds
  /\ \A t \in Tasks : PlaceSum(t) = One(t \in Accepted)

LEMMA PlacesAreSummed ==
  ASSUME DOMAIN taskChan = Workers, DOMAIN task = Workers, NEW t
  PROVE  Places(t) = PlaceSum(t)
<1>1. /\ Cardinality({t} \cap dropped) = One(t \in dropped)
      /\ Cardinality({t} \cap {inHand}) = One(t \in {inHand})
  BY OneIn
<1>2. One(t \in {inHand}) = One(t = inHand)
  BY DEF One
<1>3. /\ Cardinality({i \in DOMAIN taskQueue : taskQueue[i] = t}) = Occurs(taskQueue, t)
      /\ Cardinality({w \in Workers : taskChan[w] = t}) = Occurs(taskChan, t)
      /\ Cardinality({w \in Workers : task[w] = t}) = Occurs(task, t)
  BY DEF Occurs
<1>4. QED  BY <1>1, <1>2, <1>3 DEF Places, PlaceSum

\* The counts are numbers.
LEMMA PlaceTypes ==
  ASSUME WorkerTypes, NEW t \in Tasks
  PROVE  /\ executed[t] \in Nat
         /\ Occurs(taskQueue, t) \in Nat /\ Occurs(taskChan, t) \in Nat
         /\ Occurs(task, t) \in Nat
         /\ IsFiniteSet(Workers)
<1>1. IsFiniteSet(Workers)
  BY WorkerAssumption, FS_Interval DEF Workers
<1>2. IsFiniteSet(DOMAIN taskQueue)
  BY SeqDomain DEF WorkerTypes
<1>3. DOMAIN taskChan = Workers /\ DOMAIN task = Workers /\ executed[t] \in Nat
  BY DEF WorkerTypes
<1>4. QED  BY <1>1, <1>2, <1>3, OccursType

LEMMA WorkerInvFromParts == ASSUME WorkerIInv PROVE PoolInv
<1>1. \A t \in Tasks : Places(t) = PlaceSum(t)
  BY PlacesAreSummed DEF WorkerIInv, WorkerTypes
<1>2. InOnePlace
  BY <1>1 DEF WorkerIInv, InOnePlace, One
<1>3. ASSUME NEW t \in Tasks PROVE executed[t] \in 0..1
  <2>1. PlaceSum(t) = One(t \in Accepted)
    BY DEF WorkerIInv
  <2>2. One(t \in Accepted) <= 1 /\ One(t \in dropped) \in Nat /\ One(t = inHand) \in Nat
    BY DEF One
  <2>3. /\ executed[t] \in Nat /\ Occurs(taskQueue, t) \in Nat
        /\ Occurs(taskChan, t) \in Nat /\ Occurs(task, t) \in Nat
    BY PlaceTypes DEF WorkerIInv
  <2>4. executed[t] <= 1
    BY <2>1, <2>2, <2>3 DEF PlaceSum
  <2>5. QED  BY <2>3, <2>4
<1>4. WorkerTypeOK
  BY <1>3 DEF WorkerIInv, WorkerTypes, WorkerTypeOK
<1>5. QED  BY <1>2, <1>4 DEF PoolInv

LEMMA WorkerInitial == WorkerInit => WorkerIInv
<1> SUFFICES ASSUME WorkerInit PROVE WorkerIInv
  OBVIOUS
<1>1. WorkerTypes
  <2>1. taskQueue \in Seq(Tasks) /\ Len(taskQueue) = 0 /\ Len(taskQueue) <= QueueSize
    BY WorkerAssumption DEF WorkerInit
  <2>2. tryNext \in 1..MaxWorkers + 1
    BY WorkerAssumption DEF WorkerInit
  <2>3. QED  BY <2>1, <2>2 DEF WorkerInit, WorkerTypes
<1>2. HandHolds /\ WorkerHolds
  BY DEF WorkerInit, HandHolds, WorkerHolds
<1>3. ASSUME NEW t \in Tasks PROVE PlaceSum(t) = One(t \in Accepted)
  <2>1. t # NoTask
    BY WorkerAssumption
  <2>2. /\ Occurs(taskQueue, t) = 0 /\ Occurs(taskChan, t) = 0 /\ Occurs(task, t) = 0
    BY <2>1, OccursNone DEF WorkerInit
  <2>3. executed[t] = 0 /\ One(t \in dropped) = 0 /\ One(t = inHand) = 0
    BY <2>1 DEF WorkerInit, One
  <2>4. One(t \in Accepted) = 0
    BY DEF WorkerInit, One, Accepted
  <2>5. QED  BY <2>2, <2>3, <2>4 DEF PlaceSum
<1>4. QED  BY <1>1, <1>2, <1>3 DEF WorkerIInv

\* Steps that move no task: what may change is where the actors are.
LEMMA IdleSteps ==
  ASSUME WorkerIInv,
         \/ \E t \in Tasks : SubmitBegin(t) \/ SubmitPanics(t) \/ SubmitTimeout(t)
         \/ DispatchExit \/ RequeuePanics
         \/ \E w \in Workers : SetActive(w) \/ WorkerExit(w)
         \/ StopBegin \/ StopReturn \/ CountActive \/ CountQueued
         \/ UNCHANGED workerPoolVars
  PROVE  WorkerIInv'
<1> USE DEF WorkerIInv
<1>1. /\ WorkerTypes' /\ HandHolds' /\ WorkerHolds' /\ Accepted' = Accepted
      /\ UNCHANGED <<executed, dropped, inHand, taskQueue, taskChan, task>>
  <2> USE DEF WorkerTypes, HandHolds, WorkerHolds, Accepted, dispatchVars, workingVars,
              waitVars
  <2>1. ASSUME NEW t \in Tasks, SubmitBegin(t) \/ SubmitPanics(t) \/ SubmitTimeout(t)
        PROVE  <1>1!:
    <3>1. /\ UNCHANGED <<taskQueue, queueClosed, dispatchVars, taskChan, workingVars,
                         poolStop, dropped, waitVars>>
          /\ poolPanic' \in BOOLEAN
      BY <2>1 DEF SubmitBegin, SubmitPanics, SubmitTimeout, SubmitOnly
    <3>2. submit' \in [Tasks -> {"no", "send", "accepted", "refused"}]
      BY <2>1 DEF SubmitBegin, SubmitPanics, SubmitTimeout
    <3>3. Accepted' = Accepted
      BY <2>1 DEF SubmitBegin, SubmitPanics, SubmitTimeout
    <3>4. QED  BY <3>1, <3>2, <3>3
  <2>2. CASE DispatchExit \/ RequeuePanics
    BY <2>2 DEF DispatchExit, RequeuePanics, DispatchOnly
  <2>3. ASSUME NEW w \in Workers, SetActive(w) \/ WorkerExit(w)
        PROVE  <1>1!:
    <3>1. /\ UNCHANGED <<submit, taskQueue, queueClosed, dispatchVars, taskChan, task,
                         executed, poolStop, poolPanic, dropped, waitVars>>
          /\ \E place \in {"active", "gone"} :
               /\ worker' = [worker EXCEPT ![w] = place]
               /\ place = "active" <=> worker[w] \in {"taken", "active"}
      BY <2>3 DEF SetActive, WorkerExit, WorkOnly
    <3>2. PICK place \in {"active", "gone"} :
               /\ worker' = [worker EXCEPT ![w] = place]
               /\ place = "active" <=> worker[w] \in {"taken", "active"}
      BY <3>1
    <3>3. worker' \in [Workers -> {"idle", "taken", "active", "gone"}]
      BY <3>2
    <3>4. \A v \in Workers : worker'[v] \in {"taken", "active"} <=> worker[v] \in {"taken", "active"}
      BY <3>2
    <3>5. QED  BY <3>1, <3>3, <3>4
  <2>4. CASE StopBegin \/ StopReturn
    BY <2>4 DEF StopBegin, StopReturn
  <2>5. CASE CountActive \/ CountQueued
    BY <2>5 DEF CountActive, CountQueued
  <2>6. CASE UNCHANGED workerPoolVars
    BY <2>6 DEF workerPoolVars
  <2>7. QED  BY <2>1, <2>2, <2>3, <2>4, <2>5, <2>6
<1>2. \A t \in Tasks : PlaceSum(t)' = One(t \in Accepted)'
  BY <1>1 DEF PlaceSum
<1>3. QED  BY <1>1, <1>2

\* A task enters the pool, or moves inside it: what the counts say of each step.
LEMMA SubmitSteps ==
  ASSUME WorkerIInv, NEW s \in Tasks, SubmitSend(s)
  PROVE  WorkerIInv'
<1> USE DEF WorkerIInv
<1>1. /\ UNCHANGED <<queueClosed, dispatcher, inHand, tryNext, taskChan, worker, task,
                     executed, poolStop, dropped, waitFor, awaited, poolPanic>>
      /\ submit' = [submit EXCEPT ![s] = "accepted"] /\ submit[s] = "send"
      /\ taskQueue' = Append(taskQueue, s) /\ Len(taskQueue) < QueueSize
  BY DEF SubmitSend, SubmitOnly, dispatchVars, workingVars, waitVars
<1>2. taskQueue' \in Seq(Tasks) /\ Len(taskQueue') <= QueueSize
  BY <1>1, WorkerAssumption DEF WorkerTypes
<1>3. WorkerTypes' /\ HandHolds' /\ WorkerHolds'
  BY <1>1, <1>2 DEF WorkerTypes, HandHolds, WorkerHolds
<1>4. ASSUME NEW t \in Tasks PROVE PlaceSum(t)' = One(t \in Accepted)'
  <2>1. Occurs(taskQueue', t) = Occurs(taskQueue, t) + One(s = t)
    BY <1>1, OccursAppend DEF WorkerTypes
  <2>2. One(t \in Accepted)' = One(t \in Accepted) + One(s = t)
    BY <1>1 DEF One, Accepted, WorkerTypes
  <2>3. One(t \in dropped) \in Nat /\ One(t = inHand) \in Nat /\ One(s = t) \in Nat
    BY DEF One
  <2>4. PlaceSum(t)' = PlaceSum(t) + One(s = t)
    <3>1. /\ One(t \in dropped)' = One(t \in dropped) /\ One(t = inHand)' = One(t = inHand)
          /\ Occurs(taskChan, t)' = Occurs(taskChan, t) /\ Occurs(task, t)' = Occurs(task, t)
          /\ executed'[t] = executed[t]
      BY <1>1
    <3>2. QED  BY <2>1, <2>3, <3>1, PlaceTypes DEF PlaceSum
  <2>5. QED  BY <2>2, <2>4
<1>5. QED  BY <1>3, <1>4

\* A name is free for another task: the old one is in no place of the pool.
LEMMA NewTaskSteps ==
  ASSUME WorkerIInv, NEW s \in Tasks, NewTask(s)
  PROVE  WorkerIInv'
<1> USE DEF WorkerIInv
<1>1. /\ UNCHANGED <<taskQueue, queueClosed, dispatcher, inHand, tryNext, taskChan, worker, task,
                     poolStop, poolPanic, waitFor, awaited>>
      /\ submit' = [submit EXCEPT ![s] = "no"] /\ executed' = [executed EXCEPT ![s] = 0]
      /\ dropped' = dropped \ {s} /\ Ended(s)
  BY DEF NewTask, dispatchVars, waitVars
<1>2. WorkerTypes' /\ HandHolds' /\ WorkerHolds'
  BY <1>1 DEF WorkerTypes, HandHolds, WorkerHolds
<1>3. ASSUME NEW t \in Tasks PROVE PlaceSum(t)' = One(t \in Accepted)'
  <2>1. /\ PlaceSum(t)' = executed'[t] + One(t \in dropped') + One(t = inHand)
                           + Occurs(taskQueue, t) + Occurs(taskChan, t) + Occurs(task, t)
        /\ One(t \in Accepted)' = One(t \in Accepted')
    BY <1>1 DEF PlaceSum
  <2>2. CASE t # s
    <3>1. executed'[t] = executed[t] /\ One(t \in dropped') = One(t \in dropped)
          /\ One(t \in Accepted') = One(t \in Accepted)
      BY <1>1, <2>2 DEF WorkerTypes, Accepted, One
    <3>2. QED  BY <2>1, <3>1 DEF PlaceSum
  <2>3. CASE t = s
    <3>1. executed'[t] = 0 /\ One(t \in dropped') = 0 /\ One(t \in Accepted') = 0
      BY <1>1, <2>3 DEF WorkerTypes, Accepted, One
    <3>2. PlaceSum(t) = One(t \in Accepted) /\ (submit[t] = "refused" => One(t \in Accepted) = 0)
          /\ One(t \in Accepted) \in 0..1 /\ One(t = inHand) \in Nat
          /\ One(t \in dropped) \in Nat /\ (t \in dropped => One(t \in dropped) = 1)
      BY DEF Accepted, One
    <3>3. submit[t] = "refused" \/ executed[t] = 1 \/ t \in dropped
      BY <1>1, <2>3 DEF Ended
    <3>4. executed[t] + One(t \in dropped) + One(t = inHand) + Occurs(taskQueue, t)
            + Occurs(taskChan, t) + Occurs(task, t) = One(t \in Accepted)
      BY <3>2 DEF PlaceSum
    <3>5. /\ executed[t] \in Nat /\ Occurs(taskQueue, t) \in Nat
          /\ Occurs(taskChan, t) \in Nat /\ Occurs(task, t) \in Nat
      BY PlaceTypes
    <3>6. /\ One(t = inHand) = 0 /\ Occurs(taskQueue, t) = 0 /\ Occurs(taskChan, t) = 0
          /\ Occurs(task, t) = 0
      <4>1. One(t = inHand) + Occurs(taskQueue, t) + Occurs(taskChan, t) + Occurs(task, t) <= 0
        <5>1. CASE submit[t] = "refused"
          BY <3>2, <3>4, <3>5, <5>1
        <5>2. CASE executed[t] = 1
          BY <3>2, <3>4, <3>5, <5>2
        <5>3. CASE t \in dropped
          BY <3>2, <3>4, <3>5, <5>3
        <5>4. QED  BY <3>3, <5>1, <5>2, <5>3
      <4> DEFINE a == One(t = inHand)
                 b == Occurs(taskQueue, t)
                 d == Occurs(taskChan, t)
                 e == Occurs(task, t)
      <4>2. a \in Nat /\ b \in Nat /\ d \in Nat /\ e \in Nat /\ a + b + d + e <= 0
        BY <3>2, <3>5, <4>1
      <4> HIDE DEF a, b, d, e
      <4>3. a = 0 /\ b = 0 /\ d = 0 /\ e = 0
        BY <4>2
      <4>4. QED  BY <4>3 DEF a, b, d, e
    <3>7. QED  BY <2>1, <3>1, <3>6
  <2>4. QED  BY <2>2, <2>3
<1>4. QED  BY <1>2, <1>3

LEMMA DispatchSteps ==
  ASSUME WorkerIInv, Take \/ Assign \/ Requeue \/ RequeueTimeout
  PROVE  WorkerIInv'
<1> USE DEF WorkerIInv
<1>1. /\ UNCHANGED <<submit, queueClosed, worker, task, executed, poolStop, waitFor, poolPanic>>
      /\ Accepted' = Accepted /\ WorkerHolds' /\ awaited' \subseteq awaited
  BY DEF Take, Assign, Requeue, RequeueTimeout, DispatchOnly, workingVars, waitVars,
         Accepted, WorkerHolds
<1>2. ASSUME NEW t \in Tasks
      PROVE  /\ One(t \in dropped) \in Nat /\ One(t = inHand) \in Nat
             /\ t # NoTask
  BY WorkerAssumption DEF One
<1>3. CASE Take
  <2>1. /\ dispatcher' = "assign" /\ inHand' = Head(taskQueue) /\ tryNext' = 1
        /\ taskQueue' = Tail(taskQueue) /\ taskQueue # <<>> /\ inHand = NoTask
        /\ UNCHANGED <<taskChan, dropped>>
    BY <1>3 DEF Take, HandHolds
  <2>2. /\ Head(taskQueue) \in Tasks /\ taskQueue' \in Seq(Tasks)
        /\ Len(taskQueue') <= QueueSize
    BY <2>1, WorkerAssumption DEF WorkerTypes
  <2>3. WorkerTypes' /\ HandHolds'
    BY <1>1, <2>1, <2>2, WorkerAssumption DEF WorkerTypes, HandHolds
  <2>4. ASSUME NEW t \in Tasks PROVE PlaceSum(t)' = PlaceSum(t)
    <3>1. Occurs(taskQueue', t) = Occurs(taskQueue, t) - One(Head(taskQueue) = t)
      BY <2>1, OccursTail DEF WorkerTypes
    <3>2. One(t = inHand) = 0 /\ One(t = inHand)' = One(Head(taskQueue) = t)
      BY <1>2, <2>1 DEF One
    <3>3. One(Head(taskQueue) = t) \in Nat
      BY DEF One
    <3>4. QED  BY <1>1, <1>2, <2>1, <3>1, <3>2, <3>3, PlaceTypes DEF PlaceSum
  <2>5. QED  BY <1>1, <2>3, <2>4
<1>4. CASE Assign
  <2>1. CASE Accepts(tryNext)
    <3>1. /\ taskChan' = [taskChan EXCEPT ![tryNext] = inHand] /\ taskChan[tryNext] = NoTask
          /\ tryNext \in Workers /\ dispatcher' = "idle" /\ inHand' = NoTask /\ tryNext' = 1
          /\ inHand \in Tasks /\ UNCHANGED <<taskQueue, dropped>>
      BY <1>4, <2>1, WorkerAssumption
         DEF Assign, Accepts, HandHolds, WorkerTypes, Workers
    <3>2. taskChan' \in [Workers -> Tasks \cup {NoTask}]
      BY <3>1 DEF WorkerTypes
    <3>3. WorkerTypes' /\ HandHolds'
      BY <1>1, <3>1, <3>2, WorkerAssumption DEF WorkerTypes, HandHolds
    <3>4. ASSUME NEW t \in Tasks PROVE PlaceSum(t)' = PlaceSum(t)
      <4>1. Occurs(taskChan', t) =
              Occurs(taskChan, t) - One(taskChan[tryNext] = t) + One(inHand = t)
        <5>1. /\ DOMAIN taskChan = Workers /\ DOMAIN taskChan' = Workers
              /\ taskChan'[tryNext] = inHand
              /\ \A v \in Workers \ {tryNext} : taskChan'[v] = taskChan[v]
          BY <3>1 DEF WorkerTypes
        <5>2. tryNext \in Workers /\ IsFiniteSet(Workers)
          BY <3>1, PlaceTypes
        <5>3. Occurs(taskChan', t) =
                Occurs(taskChan, t) - One(taskChan[tryNext] = t) + One(taskChan'[tryNext] = t)
          BY <5>1, <5>2, OccursExcept
        <5>4. QED  BY <5>1, <5>3
      <4>2. /\ One(taskChan[tryNext] = t) = 0 /\ One(inHand = t) = One(t = inHand)
            /\ One(t = inHand)' = 0
        BY <1>2, <3>1 DEF One
      <4>3. QED  BY <1>1, <1>2, <3>1, <4>1, <4>2, PlaceTypes DEF PlaceSum
    <3>5. QED  BY <1>1, <3>3, <3>4
  <2>2. CASE ~ Accepts(tryNext)
    <3>1. /\ tryNext' = tryNext + 1 /\ tryNext <= MaxWorkers /\ inHand # NoTask
          /\ dispatcher' = IF tryNext = MaxWorkers THEN "requeue" ELSE "assign"
          /\ UNCHANGED <<taskQueue, dropped, taskChan, inHand>>
      BY <1>4, <2>2 DEF Assign, HandHolds
    <3>2. tryNext' \in 1..MaxWorkers + 1 /\ (dispatcher' = "assign" => tryNext' <= MaxWorkers)
      BY <3>1, WorkerAssumption DEF WorkerTypes
    <3>3. WorkerTypes' /\ HandHolds'
      BY <1>1, <3>1, <3>2 DEF WorkerTypes, HandHolds
    <3>4. QED  BY <1>1, <3>1, <3>3 DEF PlaceSum
  <2>3. QED  BY <2>1, <2>2
<1>5. CASE Requeue
  <2>1. /\ dispatcher' = "idle" /\ inHand' = NoTask /\ inHand \in Tasks
        /\ taskQueue' = Append(taskQueue, inHand) /\ Len(taskQueue) < QueueSize
        /\ UNCHANGED <<tryNext, taskChan, dropped>>
    BY <1>5 DEF Requeue, HandHolds, WorkerTypes
  <2>2. taskQueue' \in Seq(Tasks) /\ Len(taskQueue') <= QueueSize
    BY <2>1, WorkerAssumption DEF WorkerTypes
  <2>3. WorkerTypes' /\ HandHolds'
    BY <1>1, <2>1, <2>2 DEF WorkerTypes, HandHolds
  <2>4. ASSUME NEW t \in Tasks PROVE PlaceSum(t)' = PlaceSum(t)
    <3>1. Occurs(taskQueue', t) = Occurs(taskQueue, t) + One(inHand = t)
      BY <2>1, OccursAppend DEF WorkerTypes
    <3>2. One(t = inHand)' = 0 /\ One(t = inHand) = One(inHand = t)
      BY <1>2, <2>1 DEF One
    <3>3. /\ One(t \in dropped)' = One(t \in dropped)
          /\ Occurs(taskChan, t)' = Occurs(taskChan, t) /\ Occurs(task, t)' = Occurs(task, t)
          /\ executed'[t] = executed[t]
      BY <1>1, <2>1
    <3>4. QED  BY <1>2, <3>1, <3>2, <3>3, PlaceTypes DEF PlaceSum
  <2>5. QED  BY <1>1, <2>3, <2>4
<1>6. CASE RequeueTimeout
  <2>1. /\ dispatcher' = "idle" /\ inHand' = NoTask /\ inHand \in Tasks
        /\ dropped' = dropped \cup {inHand}
        /\ UNCHANGED <<tryNext, taskQueue, taskChan>>
    BY <1>6 DEF RequeueTimeout, HandHolds, WorkerTypes
  <2>2. WorkerTypes' /\ HandHolds'
    BY <1>1, <2>1 DEF WorkerTypes, HandHolds
  <2>3. ASSUME NEW t \in Tasks PROVE PlaceSum(t)' = PlaceSum(t)
    <3>1. PlaceSum(t) <= 1
      BY DEF One
    <3>2. ~ (t \in dropped /\ t = inHand)
      <4>1. SUFFICES ASSUME t \in dropped, t = inHand PROVE FALSE
        OBVIOUS
      <4>2. One(t \in dropped) = 1 /\ One(t = inHand) = 1
        BY <4>1 DEF One
      <4>3. QED  BY <3>1, <4>2, PlaceTypes DEF PlaceSum
    <3>3. One(t \in dropped)' + One(t = inHand)' = One(t \in dropped) + One(t = inHand)
      BY <1>2, <2>1, <3>2 DEF One
    <3>4. One(t \in dropped)' \in Nat /\ One(t = inHand)' \in Nat
      BY DEF One
    <3>5. QED  BY <1>1, <1>2, <2>1, <3>3, <3>4, PlaceTypes DEF PlaceSum
  <2>4. QED  BY <1>1, <2>2, <2>3
<1>7. QED  BY <1>3, <1>4, <1>5, <1>6

LEMMA WorkSteps ==
  ASSUME WorkerIInv, NEW w \in Workers, Receive(w) \/ Execute(w)
  PROVE  WorkerIInv'
<1> USE DEF WorkerIInv
<1>1. /\ UNCHANGED <<submit, taskQueue, queueClosed, dispatcher, inHand, tryNext, poolStop,
                     poolPanic, dropped, waitFor>>
      /\ Accepted' = Accepted /\ HandHolds' /\ awaited' \subseteq awaited
  BY DEF Receive, Execute, WorkOnly, dispatchVars, waitVars, Accepted, HandHolds
<1>2. ASSUME NEW t \in Tasks
      PROVE  One(t \in dropped) \in Nat /\ One(t = inHand) \in Nat /\ t # NoTask
  BY WorkerAssumption DEF One
<1>3. CASE Receive(w)
  <2>1. /\ worker' = [worker EXCEPT ![w] = "taken"]
        /\ task' = [task EXCEPT ![w] = taskChan[w]]
        /\ taskChan' = [taskChan EXCEPT ![w] = NoTask]
        /\ task[w] = NoTask /\ taskChan[w] \in Tasks /\ UNCHANGED executed
    BY <1>3 DEF Receive, WorkerHolds, WorkerTypes
  <2>2. /\ worker' \in [Workers -> {"idle", "taken", "active", "gone"}]
        /\ task' \in [Workers -> Tasks \cup {NoTask}]
        /\ taskChan' \in [Workers -> Tasks \cup {NoTask}]
    BY <2>1 DEF WorkerTypes
  <2>3. WorkerTypes'
    BY <1>1, <2>1, <2>2 DEF WorkerTypes
  <2>4. WorkerHolds'
    BY <2>1, WorkerAssumption DEF WorkerHolds, WorkerTypes
  <2>5. ASSUME NEW t \in Tasks PROVE PlaceSum(t)' = PlaceSum(t)
    <3>1. /\ Occurs(task', t) = Occurs(task, t) - One(task[w] = t) + One(taskChan[w] = t)
          /\ Occurs(taskChan', t) =
               Occurs(taskChan, t) - One(taskChan[w] = t) + One(NoTask = t)
      <4>1. /\ DOMAIN task = Workers /\ DOMAIN task' = Workers /\ task'[w] = taskChan[w]
            /\ \A v \in Workers \ {w} : task'[v] = task[v]
        BY <2>1 DEF WorkerTypes
      <4>2. /\ DOMAIN taskChan = Workers /\ DOMAIN taskChan' = Workers
            /\ taskChan'[w] = NoTask
            /\ \A v \in Workers \ {w} : taskChan'[v] = taskChan[v]
        BY <2>1 DEF WorkerTypes
      <4>3. QED  BY <4>1, <4>2, PlaceTypes, OccursExcept
    <3>2. One(task[w] = t) = 0 /\ One(NoTask = t) = 0 /\ One(taskChan[w] = t) \in Nat
      BY <1>2, <2>1 DEF One
    <3>3. QED  BY <1>1, <1>2, <2>1, <3>1, <3>2, PlaceTypes DEF PlaceSum
  <2>6. QED  BY <1>1, <2>3, <2>4, <2>5
<1>4. CASE Execute(w)
  <2>1. /\ worker' = [worker EXCEPT ![w] = "idle"]
        /\ task' = [task EXCEPT ![w] = NoTask] /\ task[w] \in Tasks
        /\ executed' = [executed EXCEPT ![task[w]] = @ + 1] /\ UNCHANGED taskChan
    BY <1>4 DEF Execute, WorkerHolds, WorkerTypes
  <2>2. /\ worker' \in [Workers -> {"idle", "taken", "active", "gone"}]
        /\ task' \in [Workers -> Tasks \cup {NoTask}]
        /\ executed' \in [Tasks -> Nat]
    BY <2>1 DEF WorkerTypes
  <2>3. WorkerTypes'
    BY <1>1, <2>1, <2>2 DEF WorkerTypes
  <2>4. WorkerHolds'
    BY <2>1 DEF WorkerHolds, WorkerTypes
  <2>5. ASSUME NEW t \in Tasks PROVE PlaceSum(t)' = PlaceSum(t)
    <3>1. Occurs(task', t) = Occurs(task, t) - One(task[w] = t) + One(NoTask = t)
      <4>1. /\ DOMAIN task = Workers /\ DOMAIN task' = Workers /\ task'[w] = NoTask
            /\ \A v \in Workers \ {w} : task'[v] = task[v]
        BY <2>1 DEF WorkerTypes
      <4>2. QED  BY <4>1, PlaceTypes, OccursExcept
    <3>2. One(NoTask = t) = 0 /\ One(task[w] = t) \in Nat
      BY <1>2 DEF One
    <3>3. executed'[t] = executed[t] + One(task[w] = t)
      BY <2>1, PlaceTypes DEF WorkerTypes, One
    <3>4. QED  BY <1>1, <1>2, <2>1, <3>1, <3>2, <3>3, PlaceTypes DEF PlaceSum
  <2>6. QED  BY <1>1, <2>3, <2>4, <2>5
<1>5. QED  BY <1>3, <1>4

\* No task is lost, doubled or executed twice, whatever the number of workers and
\* the size of the queue: Submit, the dispatcher, the workers and Stop hand each
\* accepted task from one place to the next.
THEOREM PoolInvariant == WorkerSpec => []PoolInv
<1>1. WorkerIInv /\ [WorkerNext]_workerPoolVars => WorkerIInv'
  <2> SUFFICES ASSUME WorkerIInv, [WorkerNext]_workerPoolVars PROVE WorkerIInv'
    OBVIOUS
  <2>1. CASE \E t \in Tasks : SubmitBegin(t) \/ Submit(t) \/ NewTask(t)
    BY <2>1, IdleSteps, SubmitSteps, NewTaskSteps DEF Submit
  <2>2. CASE Dispatch
    BY <2>2, IdleSteps, DispatchSteps DEF Dispatch
  <2>3. CASE \E w \in Workers : Work(w)
    BY <2>3, IdleSteps, WorkSteps DEF Work
  <2>4. CASE StopBegin \/ StopReturn \/ CountActive \/ CountQueued
    BY <2>4, IdleSteps
  <2>5. CASE UNCHANGED workerPoolVars
    BY <2>5, IdleSteps
  <2>6. QED  BY <2>1, <2>2, <2>3, <2>4, <2>5 DEF WorkerNext
<1>2. QED  BY <1>1, WorkerInitial, WorkerInvFromParts, PTL DEF WorkerSpec

-----------------------------------------------------------------------------

LEMMA SpreadType ==
  ASSUME NEW D, IsFiniteSet(D), NEW f, DOMAIN f = D, NEW x,
         \A j \in D : IsFiniteSet(DOMAIN f[j])
  PROVE  Cardinality(Spread(f, x)) \in Nat
<1>1. CASE D = {}
  <2>1. Spread(f, x) = {}
    BY <1>1 DEF Spread
  <2>2. QED  BY <2>1, FS_EmptySet
<1>2. CASE D # {}
  <2>1. PICK k \in D : TRUE
    BY <1>2
  <2>2. /\ Cardinality(SpreadBut(f, k, x)) \in Nat /\ Occurs(f[k], x) \in Nat
        /\ Cardinality(Spread(f, x)) = Cardinality(SpreadBut(f, k, x)) + Occurs(f[k], x)
    BY SpreadSplit
  <2>3. QED  BY <2>2
<1>3. QED  BY <1>1, <1>2

\* ConnTypeOK, without the bound of the count.
ConnTypes ==
  /\ connAt \in [Clients -> {"out", "get", "try", "room", "dial", "wait", "count",
                             "held", "put", "uncount"}]
  /\ connOf \in [Clients -> Made \cup {NoConn}]
  /\ connIdle \in Seq(Made) /\ Len(connIdle) <= PoolSize
  /\ connClosed \in BOOLEAN /\ connPanic \in BOOLEAN
  /\ connMade \in 0..MaxConns /\ connDead \subseteq Made /\ connLost \subseteq Made
  /\ connCleaner \in [Cleaners -> {"no", "drain", "return"}]
  /\ connKept \in [Cleaners -> Seq(Made)]

\* A client has a connection from the moment it takes one until it gives it away.
Holding   == {"count", "held", "put"}
ConnHolds == \A c \in Clients : connOf[c] # NoConn <=> connAt[c] \in Holding

\* Clients that are counted, and those that may still count themselves.  Stop leaves
\* the count as it is when a connection comes back, so that it is never too small:
\* and a client whose connection was not counted off gets no other.
Counted  == {"held", "put", "uncount"}
Counting == {"try", "room", "dial", "wait", "count"}
ConnCounts ==
  /\ connActive \in Nat /\ Within(connAt, Counted) <= connActive
  /\ ~ connClosed => connActive = Within(connAt, Counted)
  /\ connActive + Within(connAt, Counting) <= Cardinality(Clients)

ConnSum(n) ==
  Occurs(connOf, n) + Occurs(connIdle, n) + Cardinality(Spread(connKept, n))
    + One(n \in connDead) + One(n \in connLost)
ConnSums == \A n \in Made : ConnSum(n) = 1

ConnIInv == ConnTypes /\ ConnHolds /\ ConnCounts /\ ConnSums

LEMMA ConnSumTypes ==
  ASSUME ConnTypes, NEW n
  PROVE  /\ Occurs(connOf, n) \in Nat /\ Occurs(connIdle, n) \in Nat
         /\ Cardinality(Spread(connKept, n)) \in Nat
         /\ One(n \in connDead) \in Nat /\ One(n \in connLost) \in Nat
<1>1. /\ IsFiniteSet(DOMAIN connOf) /\ IsFiniteSet(DOMAIN connIdle)
      /\ \A k \in Cleaners : IsFiniteSet(DOMAIN connKept[k])
      /\ DOMAIN connKept = Cleaners /\ IsFiniteSet(Cleaners)
  BY ConnAssumption, SeqDomain DEF ConnTypes
<1>2. One(n \in connDead) \in Nat /\ One(n \in connLost) \in Nat
  BY DEF One
<1>3. QED  BY <1>1, <1>2, OccursType, SpreadType

LEMMA ConnPlacesAreSummed == ASSUME ConnTypes, NEW n PROVE ConnPlaces(n) = ConnSum(n)
<1>1. /\ Cardinality({n} \cap connDead) = One(n \in connDead)
      /\ Cardinality({n} \cap connLost) = One(n \in connLost)
  BY OneIn
<1>2. /\ Cardinality({c \in Clients : connOf[c] = n}) = Occurs(connOf, n)
      /\ Cardinality({i \in DOMAIN connIdle : connIdle[i] = n}) = Occurs(connIdle, n)
  BY DEF Occurs, ConnTypes
<1>3. QED  BY <1>1, <1>2 DEF ConnPlaces, ConnSum

LEMMA ConnInvFromParts == ASSUME ConnIInv PROVE ConnInv
<1>1. ConnOnce
  BY ConnPlacesAreSummed DEF ConnIInv, ConnSums, ConnOnce
<1>2. {c \in Clients : connAt[c] \in {"held", "put", "uncount"}}
        = {c \in DOMAIN connAt : connAt[c] \in Counted}
  BY DEF ConnIInv, ConnTypes, Counted
<1>3. ActiveExact
  BY <1>2 DEF ConnIInv, ConnCounts, ActiveExact, Within
<1>4. connActive \in 0..Cardinality(Clients)
  <2>1. IsFiniteSet(DOMAIN connAt) /\ Counted \cap Counting = {}
    BY ConnAssumption DEF ConnIInv, ConnTypes, Counted, Counting
  <2>2. Within(connAt, Counting) \in Nat
    BY <2>1, WithinBoth
  <2>3. Cardinality(Clients) \in Nat
    BY ConnAssumption, FS_CardinalityType
  <2>4. QED  BY <2>2, <2>3 DEF ConnIInv, ConnCounts
<1>5. ConnTypeOK
  BY <1>4 DEF ConnIInv, ConnTypes, ConnTypeOK
<1>6. QED  BY <1>1, <1>3, <1>5 DEF ConnInv

LEMMA ConnInitial == ConnInit => ConnIInv
<1> SUFFICES ASSUME ConnInit PROVE ConnIInv
  OBVIOUS
<1>1. ConnTypes
  <2>1. connIdle \in Seq(Made) /\ Len(connIdle) = 0 /\ Len(connIdle) <= PoolSize
    BY ConnAssumption DEF ConnInit
  <2>2. connMade \in 0..MaxConns
    BY ConnAssumption DEF ConnInit
  <2>3. connKept \in [Cleaners -> Seq(Made)]
    BY DEF ConnInit
  <2>4. QED  BY <2>1, <2>2, <2>3 DEF ConnInit, ConnTypes
<1>2. ConnHolds
  BY DEF ConnInit, ConnHolds, Holding
<1>3. ConnCounts
  <2>1. {c \in DOMAIN connAt : connAt[c] \in Counted} = {}
        /\ {c \in DOMAIN connAt : connAt[c] \in Counting} = {}
    BY DEF ConnInit, Counted, Counting
  <2>2. Within(connAt, Counted) = 0 /\ Within(connAt, Counting) = 0
    BY <2>1, FS_EmptySet DEF Within
  <2>3. Cardinality(Clients) \in Nat /\ connActive = 0
    BY ConnAssumption, FS_CardinalityType DEF ConnInit
  <2>4. QED  BY <2>2, <2>3 DEF ConnCounts
<1>4. ConnSums
  <2>1. Made = {}
    BY DEF ConnInit, Made
  <2>2. QED  BY <2>1 DEF ConnSums
<1>5. QED  BY <1>1, <1>2, <1>3, <1>4 DEF ConnIInv

-----------------------------------------------------------------------------
(* The counts of the clients: every action moves one client.               *)

LEMMA ClientCounts ==
  ASSUME ConnTypes, ConnCounts, NEW c \in Clients, ConnClient(c)
  PROVE  ConnCounts'
<1> USE DEF Counted, Counting
<1>1. PICK q \in {"out", "get", "try", "room", "dial", "wait", "count", "held", "put",
                  "uncount"} :
        /\ connAt' = [connAt EXCEPT ![c] = q] /\ connClosed' = connClosed
        /\ \/ /\ connActive' = connActive /\ connAt[c] \notin Counted /\ q \notin Counted
              /\ q \in Counting /\ connClosed => connAt[c] \in Counting
           \/ connActive' = connActive + 1 /\ connAt[c] = "count" /\ q = "held"
           \/ connActive' = connActive /\ connAt[c] = "held" /\ q = "out" /\ connClosed
           \/ connActive' = connActive /\ connAt[c] \in Counted /\ q \in Counted
           \/ connActive' = connActive - 1 /\ connAt[c] = "uncount" /\ q = "out"
  <2> USE DEF ConnGoto
  <2>1. connClosed' = connClosed
    BY DEF ConnClient
  <2>2. CASE GetCall(c) \/ GetCheck(c) \/ GetRoom(c) \/ GetGivesUp(c)
    BY <2>1, <2>2 DEF GetCall, GetCheck, GetRoom, GetGivesUp
  <2>3. CASE GetTry(c) \/ GetWait(c)
    BY <2>1, <2>3 DEF GetTry, GetWait, ConnServe
  <2>4. CASE GetDial(c) \/ GetCount(c)
    BY <2>1, <2>4 DEF GetDial, GetCount
  <2>5. CASE PutCheck(c) \/ PutSend(c) \/ PutUncount(c)
    BY <2>1, <2>5 DEF PutCheck, PutSend, PutUncount
  <2>6. QED  BY <2>2, <2>3, <2>4, <2>5 DEF ConnClient, ConnCall
<1>2. /\ DOMAIN connAt = Clients /\ DOMAIN connAt' = Clients /\ connAt'[c] = q
      /\ \A d \in Clients \ {c} : connAt'[d] = connAt[d]
      /\ IsFiniteSet(Clients)
  BY <1>1, ConnAssumption DEF ConnTypes
<1> DEFINE h == Within(connAt, Counted)
           t == Within(connAt, Counting)
           a == Within(connAt', Counted)
           b == Within(connAt', Counting)
           n == Cardinality(Clients)
<1>3. /\ h \in Nat /\ t \in Nat /\ a \in Nat /\ b \in Nat
      /\ a = h - One(connAt[c] \in Counted) + One(q \in Counted)
      /\ b = t - One(connAt[c] \in Counting) + One(q \in Counting)
  <2> HIDE DEF Counted, Counting
  <2>1. QED  BY <1>2, WithinExcept
<1>4. n \in Nat /\ a + b <= n
  <2>1. Counted \cap Counting = {}
    OBVIOUS
  <2> HIDE DEF Counted, Counting
  <2>2. QED  BY <1>2, <2>1, WithinBoth
<1>5. /\ connActive \in Nat /\ h <= connActive /\ connActive + t <= n
      /\ ~ connClosed => connActive = h
  BY DEF ConnCounts
<1>6. /\ connActive' \in Nat /\ a <= connActive' /\ connActive' + b <= n
      /\ ~ connClosed => connActive' = a
  <2> HIDE DEF h, t, a, b, n
  <2>1. CASE /\ connActive' = connActive /\ connAt[c] \notin Counted /\ q \notin Counted
             /\ q \in Counting /\ connClosed => connAt[c] \in Counting
    <3>1. One(connAt[c] \in Counted) = 0 /\ One(q \in Counted) = 0
      BY <2>1 DEF One
    <3>2. a = h
      BY <1>3, <3>1
    <3>3. CASE connClosed
      <4>1. One(q \in Counting) <= One(connAt[c] \in Counting)
            /\ One(q \in Counting) \in Nat /\ One(connAt[c] \in Counting) \in Nat
        BY <2>1, <3>3 DEF One
      <4>2. b <= t
        BY <1>3, <4>1
      <4>3. QED  BY <1>3, <1>4, <1>5, <2>1, <3>2, <3>3, <4>2
    <3>4. CASE ~ connClosed
      BY <1>3, <1>4, <1>5, <2>1, <3>2, <3>4
    <3>5. QED  BY <3>3, <3>4
  <2>2. CASE connActive' = connActive + 1 /\ connAt[c] = "count" /\ q = "held"
    <3>1. /\ One(connAt[c] \in Counted) = 0 /\ One(q \in Counted) = 1
          /\ One(connAt[c] \in Counting) = 1 /\ One(q \in Counting) = 0
      BY <2>2 DEF One
    <3>2. QED  BY <1>3, <1>4, <1>5, <2>2, <3>1
  <2>3. CASE connActive' = connActive /\ connAt[c] = "held" /\ q = "out" /\ connClosed
    <3>1. /\ One(connAt[c] \in Counted) = 1 /\ One(q \in Counted) = 0
          /\ One(connAt[c] \in Counting) = 0 /\ One(q \in Counting) = 0
      BY <2>3 DEF One
    <3>2. QED  BY <1>3, <1>4, <1>5, <2>3, <3>1
  <2>4. CASE connActive' = connActive /\ connAt[c] \in Counted /\ q \in Counted
    <3>1. /\ One(connAt[c] \in Counted) = 1 /\ One(q \in Counted) = 1
          /\ One(connAt[c] \in Counting) = 0 /\ One(q \in Counting) = 0
      BY <2>4 DEF One
    <3>2. QED  BY <1>3, <1>4, <1>5, <2>4, <3>1
  <2>5. CASE connActive' = connActive - 1 /\ connAt[c] = "uncount" /\ q = "out"
    <3>1. /\ One(connAt[c] \in Counted) = 1 /\ One(q \in Counted) = 0
          /\ One(connAt[c] \in Counting) = 0 /\ One(q \in Counting) = 0
      BY <2>5 DEF One
    <3>2. QED  BY <1>3, <1>4, <1>5, <2>5, <3>1
  <2>6. QED  BY <1>1, <2>1, <2>2, <2>3, <2>4, <2>5
<1>7. QED  BY <1>1, <1>6 DEF ConnCounts

-----------------------------------------------------------------------------
(* The places of the connections.                                          *)

\* What is closed or thrown away was somewhere else until then.
LEMMA Disposal ==
  ASSUME ConnTypes, ConnSums, NEW x \in Made,
         Occurs(connOf, x) + Occurs(connIdle, x) + Cardinality(Spread(connKept, x)) >= 1
  PROVE  \A n : /\ One(n \in connDead \cup {x}) = One(n \in connDead) + One(x = n)
                /\ One(n \in connLost \cup {x}) = One(n \in connLost) + One(x = n)
<1>1. One(x \in connDead) = 0 /\ One(x \in connLost) = 0
  BY ConnSumTypes DEF ConnSums, ConnSum
<1>2. x \notin connDead /\ x \notin connLost
  BY <1>1 DEF One
<1>3. QED  BY <1>2 DEF One

\* The first of the idle connections.
LEMMA IdleHead ==
  ASSUME ConnTypes, connIdle # <<>>
  PROVE  /\ Head(connIdle) \in Made /\ Occurs(connIdle, Head(connIdle)) >= 1
         /\ Tail(connIdle) \in Seq(Made) /\ Len(Tail(connIdle)) <= PoolSize
         /\ \A n : Occurs(Tail(connIdle), n) = Occurs(connIdle, n) - One(Head(connIdle) = n)
<1>1. connIdle \in Seq(Made) /\ Len(connIdle) <= PoolSize
  BY DEF ConnTypes
<1>2. /\ Head(connIdle) = connIdle[1] /\ 1 \in DOMAIN connIdle /\ Head(connIdle) \in Made
      /\ Tail(connIdle) \in Seq(Made)
  BY <1>1
<1>3. Len(Tail(connIdle)) <= PoolSize
  BY <1>1, ConnAssumption
<1>4. Occurs(connIdle, connIdle[1]) >= 1
  BY <1>1, <1>2, SeqDomain, OccursSome
<1>5. QED  BY <1>1, <1>2, <1>3, <1>4, OccursTail

\* One client gets a connection, or gives its own away.
ConnOfBecomes(c, m) ==
  /\ DOMAIN connOf = Clients /\ DOMAIN connOf' = Clients
  /\ connOf'[c] = m /\ \A d \in Clients \ {c} : connOf'[d] = connOf[d]

LEMMA OfClient ==
  ASSUME NEW c \in Clients, NEW m, ConnOfBecomes(c, m)
  PROVE  \A n : Occurs(connOf', n) = Occurs(connOf, n) - One(connOf[c] = n) + One(m = n)
<1>1. IsFiniteSet(Clients)
  BY ConnAssumption
<1>2. ASSUME NEW n
      PROVE  Occurs(connOf', n) = Occurs(connOf, n) - One(connOf[c] = n) + One(connOf'[c] = n)
  BY <1>1, OccursExcept DEF ConnOfBecomes
<1>3. QED  BY <1>2 DEF ConnOfBecomes

LEMMA ServeStep ==
  ASSUME ConnTypes, ConnHolds, ConnSums, NEW c \in Clients, connAt[c] \in {"try", "wait"},
         connIdle # <<>>, ConnServe(c),
         UNCHANGED <<connDead, connCleanVars, connClosed, connPanic>>
  PROVE  ConnTypes' /\ ConnHolds' /\ ConnSums'
<1>1. /\ connOf' = [connOf EXCEPT ![c] = Head(connIdle)] /\ connIdle' = Tail(connIdle)
      /\ connAt' = [connAt EXCEPT ![c] = "count"]
      /\ UNCHANGED <<connActive, connMade, connLost, connDead, connCleaner, connKept,
                     connClosed, connPanic>>
      /\ Made' = Made
  BY DEF ConnServe, ConnGoto, connCleanVars, Made
<1>2. /\ Head(connIdle) \in Made /\ Tail(connIdle) \in Seq(Made)
      /\ Len(Tail(connIdle)) <= PoolSize
  BY IdleHead
<1>3. Head(connIdle) # NoConn
  BY <1>2 DEF Made, NoConn, ConnTypes
<1>4. ConnTypes'
  BY <1>1, <1>2 DEF ConnTypes
<1>5. ConnHolds'
  BY <1>1, <1>3 DEF ConnHolds, ConnTypes, Holding
<1>6. connOf[c] = NoConn
  BY DEF ConnHolds, Holding
<1>7. ASSUME NEW n \in Made PROVE ConnSum(n)' = ConnSum(n)
  <2>1. /\ Occurs(connOf', n) = Occurs(connOf, n) - One(connOf[c] = n) + One(Head(connIdle) = n)
        /\ Occurs(connIdle', n) = Occurs(connIdle, n) - One(Head(connIdle) = n)
    <3>1. ConnOfBecomes(c, Head(connIdle))
      BY <1>1 DEF ConnTypes, ConnOfBecomes
    <3>2. c \in Clients
      OBVIOUS
    <3>3. \A k : Occurs(connOf', k) =
                   Occurs(connOf, k) - One(connOf[c] = k) + One(Head(connIdle) = k)
      BY ONLY <3>1, <3>2, OfClient
    <3>4. QED  BY <1>1, <3>3, IdleHead
  <2>2. One(connOf[c] = n) = 0 /\ One(Head(connIdle) = n) \in Nat
    BY <1>6 DEF One, Made, NoConn, ConnTypes
  <2>3. Occurs(connOf', n) + Occurs(connIdle', n) = Occurs(connOf, n) + Occurs(connIdle, n)
    BY <2>1, <2>2, ConnSumTypes
  <2>4. QED  BY <1>1, <2>3 DEF ConnSum
<1>8. QED  BY <1>1, <1>4, <1>5, <1>7 DEF ConnSums

\* An idle connection is closed, or thrown away open.
LEMMA DiscardStep ==
  ASSUME ConnTypes, ConnHolds, ConnSums, NEW c \in Clients, NEW q \in {"room", "get"},
         connAt[c] \in {"try", "wait"}, ConnGoto(c, q), connIdle # <<>>,
         connIdle' = Tail(connIdle),
         UNCHANGED <<connOf, connMade, connCleanVars, connClosed, connPanic>>,
         \/ connDead' = connDead \cup {Head(connIdle)} /\ UNCHANGED connLost
         \/ connLost' = connLost \cup {Head(connIdle)} /\ UNCHANGED connDead
  PROVE  ConnTypes' /\ ConnHolds' /\ ConnSums'
<1>1. /\ connAt' = [connAt EXCEPT ![c] = q] /\ Made' = Made
      /\ UNCHANGED <<connOf, connMade, connCleaner, connKept, connClosed, connPanic>>
  BY DEF ConnGoto, connCleanVars, Made
<1>2. /\ Head(connIdle) \in Made /\ Tail(connIdle) \in Seq(Made)
      /\ Len(Tail(connIdle)) <= PoolSize
  BY IdleHead
<1>3. ConnTypes'
  BY <1>1, <1>2 DEF ConnTypes
<1>4. ConnHolds'
  BY <1>1 DEF ConnHolds, ConnTypes, Holding
<1>5. ASSUME NEW n \in Made PROVE ConnSum(n)' = ConnSum(n)
  <2>1. Occurs(connIdle', n) = Occurs(connIdle, n) - One(Head(connIdle) = n)
    BY IdleHead
  <2>2. /\ One(n \in connDead \cup {Head(connIdle)}) = One(n \in connDead) + One(Head(connIdle) = n)
        /\ One(n \in connLost \cup {Head(connIdle)}) = One(n \in connLost) + One(Head(connIdle) = n)
    <3>1. Occurs(connIdle, Head(connIdle)) >= 1
      BY IdleHead
    <3>2. Occurs(connOf, Head(connIdle)) + Occurs(connIdle, Head(connIdle))
            + Cardinality(Spread(connKept, Head(connIdle))) >= 1
      BY <3>1, ConnSumTypes
    <3>3. QED  BY <1>2, <3>2, Disposal
  <2>3. One(n \in connDead)' + One(n \in connLost)'
          = One(n \in connDead) + One(n \in connLost) + One(Head(connIdle) = n)
    BY <2>2, ConnSumTypes DEF One
  <2>4. One(Head(connIdle) = n) \in Nat /\ One(n \in connDead)' \in Nat /\ One(n \in connLost)' \in Nat
    BY DEF One
  <2>5. Occurs(connOf, n)' = Occurs(connOf, n) /\ Spread(connKept, n)' = Spread(connKept, n)
    BY <1>1
  <2>6. /\ Occurs(connOf, n) \in Nat /\ Occurs(connIdle, n) \in Nat
        /\ Cardinality(Spread(connKept, n)) \in Nat
        /\ One(n \in connDead) \in Nat /\ One(n \in connLost) \in Nat
    BY ConnSumTypes
  <2>7. ConnSum(n)' = Occurs(connOf, n) + Occurs(connIdle', n) + Cardinality(Spread(connKept, n))
                        + One(n \in connDead)' + One(n \in connLost)'
    BY <2>5 DEF ConnSum
  <2>8. QED  BY ONLY <2>1, <2>3, <2>4, <2>6, <2>7 DEF ConnSum
<1>6. QED  BY <1>1, <1>3, <1>4, <1>5 DEF ConnSums

\* The factory's new connection is nowhere before.
LEMMA DialStep ==
  ASSUME ConnTypes, ConnHolds, ConnSums, NEW c \in Clients, connAt[c] = "dial",
         connMade < MaxConns, connMade' = connMade + 1,
         connOf' = [connOf EXCEPT ![c] = connMade'], ConnGoto(c, "count"),
         UNCHANGED <<connLost, connIdle, connDead, connCleanVars, connClosed, connPanic>>
  PROVE  ConnTypes' /\ ConnHolds' /\ ConnSums'
<1> DEFINE m == connMade + 1
<1>1. /\ connAt' = [connAt EXCEPT ![c] = "count"] /\ connOf' = [connOf EXCEPT ![c] = m]
      /\ UNCHANGED <<connLost, connIdle, connDead, connCleaner, connKept, connClosed, connPanic>>
  BY DEF ConnGoto, connCleanVars
<1>2. /\ connMade \in Nat /\ m \in 0..MaxConns /\ Made' = Made \cup {m} /\ m \notin Made
      /\ m # NoConn
  BY ConnAssumption DEF ConnTypes, Made, NoConn
<1>3. connIdle \in Seq(Made') /\ \A k \in Cleaners : connKept[k] \in Seq(Made')
  <2>1. Made \subseteq Made'
    BY <1>2
  <2>2. \A s \in Seq(Made) : s \in Seq(Made')
    BY <2>1
  <2>3. QED  BY <2>2 DEF ConnTypes
<1>4. ConnTypes'
  <2>1. connKept' \in [Cleaners -> Seq(Made')]
    BY <1>1, <1>3 DEF ConnTypes
  <2>2. connOf' \in [Clients -> Made' \cup {NoConn}]
    BY <1>1, <1>2 DEF ConnTypes
  <2>3. connDead' \subseteq Made' /\ connLost' \subseteq Made' /\ connMade' \in 0..MaxConns
    BY <1>1, <1>2 DEF ConnTypes
  <2>4. QED  BY <1>1, <1>3, <2>1, <2>2, <2>3 DEF ConnTypes
<1>5. ConnHolds'
  BY <1>1, <1>2 DEF ConnHolds, ConnTypes, Holding
<1>6. connOf[c] = NoConn
  BY DEF ConnHolds, Holding
<1>7. \A n : Occurs(connOf', n) = Occurs(connOf, n) - One(connOf[c] = n) + One(m = n)
  <2>1. ConnOfBecomes(c, m)
    BY <1>1 DEF ConnTypes, ConnOfBecomes
  <2>2. c \in Clients
    OBVIOUS
  <2>3. QED  BY ONLY <2>1, <2>2, OfClient
<1>8. \A n : n # NoConn => ConnSum(n)' = ConnSum(n) + One(m = n)
  <2>1. SUFFICES ASSUME NEW n, n # NoConn PROVE ConnSum(n)' = ConnSum(n) + One(m = n)
    OBVIOUS
  <2>2. One(connOf[c] = n) = 0 /\ One(m = n) \in Nat
    BY <1>6, <2>1 DEF One
  <2>3. Occurs(connOf', n) = Occurs(connOf, n) + One(m = n)
    <3>1. Occurs(connOf', n) = Occurs(connOf, n) - One(connOf[c] = n) + One(m = n)
      BY <1>7
    <3>2. Occurs(connOf, n) \in Nat
      BY ConnSumTypes
    <3> HIDE DEF m
    <3>3. QED  BY ONLY <2>2, <3>1, <3>2
  <2> HIDE DEF m
  <2>4. QED  BY <1>1, <2>2, <2>3, ConnSumTypes DEF ConnSum
<1>9. ConnSum(m) = 0
  <2>1. (\A d \in DOMAIN connOf : connOf[d] # m) /\ (\A i \in DOMAIN connIdle : connIdle[i] # m)
    BY <1>2 DEF ConnTypes
  <2>2. Occurs(connOf, m) = 0 /\ Occurs(connIdle, m) = 0
    BY <2>1, OccursNone
  <2>3. Spread(connKept, m) = {}
    <3>1. \A k \in Cleaners : \A i \in DOMAIN connKept[k] : connKept[k][i] # m
      BY <1>2 DEF ConnTypes
    <3>2. QED  BY <3>1 DEF Spread, ConnTypes
  <2>4. One(m \in connDead) = 0 /\ One(m \in connLost) = 0
    BY <1>2 DEF One, ConnTypes
  <2>5. QED  BY <2>2, <2>3, <2>4, FS_EmptySet DEF ConnSum
<1> HIDE DEF m
<1>10. ASSUME NEW n \in Made' PROVE ConnSum(n)' = 1
  <2>1. CASE n = m
    <3>1. ConnSum(n)' = ConnSum(n) + One(m = n)
      BY <1>2, <1>8, <2>1
    <3>2. One(m = n) = 1 /\ ConnSum(n) = 0
      BY <1>9, <2>1 DEF One
    <3>3. QED  BY <3>1, <3>2
  <2>2. CASE n # m
    <3>1. n \in Made /\ n # NoConn
      BY <1>2, <2>2 DEF Made, NoConn
    <3>2. ConnSum(n) = 1 /\ One(m = n) = 0
      BY <2>2, <3>1 DEF ConnSums, One
    <3>3. QED  BY <1>8, <3>1, <3>2
  <2>3. QED  BY <2>1, <2>2
<1>11. QED  BY <1>4, <1>5, <1>10 DEF ConnSums

\* A new connection under the name of one that is gone.
LEMMA RedialStep ==
  ASSUME ConnTypes, ConnHolds, ConnSums, NEW c \in Clients, connAt[c] = "dial",
         NEW m \in connDead \cup connLost,
         connDead' = connDead \ {m}, connLost' = connLost \ {m},
         connOf' = [connOf EXCEPT ![c] = m], ConnGoto(c, "count"),
         UNCHANGED <<connMade, connIdle, connCleanVars, connClosed, connPanic>>
  PROVE  ConnTypes' /\ ConnHolds' /\ ConnSums'
<1>1. /\ connAt' = [connAt EXCEPT ![c] = "count"]
      /\ UNCHANGED <<connMade, connIdle, connCleaner, connKept, connClosed, connPanic>>
      /\ Made' = Made /\ m \in Made /\ m # NoConn
  BY DEF ConnGoto, connCleanVars, Made, ConnTypes, NoConn
<1>2. ConnTypes'
  BY <1>1 DEF ConnTypes
<1>3. ConnHolds'
  BY <1>1 DEF ConnHolds, ConnTypes, Holding
<1>4. connOf[c] = NoConn
  BY DEF ConnHolds, Holding
<1>5. \A n : Occurs(connOf', n) = Occurs(connOf, n) - One(connOf[c] = n) + One(m = n)
  <2>1. ConnOfBecomes(c, m)
    BY DEF ConnTypes, ConnOfBecomes
  <2>2. QED  BY ONLY <2>1, c \in Clients, OfClient
<1>6. ASSUME NEW n \in Made' PROVE ConnSum(n)' = 1
  <2>1. ConnSum(n) = 1 /\ One(connOf[c] = n) = 0
    BY <1>1, <1>4 DEF ConnSums, Made, NoConn, One
  <2>2. ConnSum(n)' = Occurs(connOf', n) + Occurs(connIdle, n) + Cardinality(Spread(connKept, n))
                        + One(n \in connDead') + One(n \in connLost')
    BY <1>1 DEF ConnSum
  <2>3. CASE n = m
    <3>1. One(m = n) = 1 /\ One(n \in connDead') = 0 /\ One(n \in connLost') = 0
          /\ (One(n \in connDead) = 1 \/ One(n \in connLost) = 1)
      BY <2>3 DEF One
    <3>2. Occurs(connOf', n) = Occurs(connOf, n) - One(connOf[c] = n) + One(m = n)
      BY <1>5
    <3>3. QED  BY <2>1, <2>2, <3>1, <3>2, ConnSumTypes DEF ConnSum
  <2>4. CASE n # m
    <3>1. One(m = n) = 0 /\ One(n \in connDead') = One(n \in connDead)
          /\ One(n \in connLost') = One(n \in connLost)
      BY <2>4 DEF One
    <3>2. Occurs(connOf', n) = Occurs(connOf, n) - One(connOf[c] = n) + One(m = n)
      BY <1>5
    <3>3. QED  BY <2>1, <2>2, <3>1, <3>2, ConnSumTypes DEF ConnSum
  <2>5. QED  BY <2>3, <2>4
<1>7. QED  BY <1>2, <1>3, <1>6 DEF ConnSums

\* A client gives its connection away: to the channel, or it is closed.
LEMMA GiveStep ==
  ASSUME ConnTypes, ConnHolds, ConnSums, NEW c \in Clients, NEW q \in {"out", "uncount"},
         connAt[c] \in {"held", "put"}, ConnGoto(c, q),
         connOf' = [connOf EXCEPT ![c] = NoConn],
         UNCHANGED <<connMade, connLost, connCleanVars, connClosed, connPanic>>,
         \/ /\ Len(connIdle) < PoolSize /\ connIdle' = Append(connIdle, connOf[c])
            /\ UNCHANGED connDead
         \/ connDead' = connDead \cup {connOf[c]} /\ UNCHANGED connIdle
  PROVE  ConnTypes' /\ ConnHolds' /\ ConnSums'
<1> DEFINE x == connOf[c]
<1>1. /\ connAt' = [connAt EXCEPT ![c] = q] /\ Made' = Made
      /\ UNCHANGED <<connMade, connLost, connCleaner, connKept, connClosed, connPanic>>
  BY DEF ConnGoto, connCleanVars, Made
<1>2. x \in Made /\ connOf \in [Clients -> Made \cup {NoConn}] /\ connIdle \in Seq(Made)
  BY DEF ConnHolds, ConnTypes, Holding
<1>3. /\ connIdle' \in Seq(Made) /\ Len(connIdle') <= PoolSize
      /\ connDead' \subseteq Made
  <2>1. CASE connIdle' = Append(connIdle, x) /\ Len(connIdle) < PoolSize /\ UNCHANGED connDead
    <3>1. Len(Append(connIdle, x)) = Len(connIdle) + 1 /\ Append(connIdle, x) \in Seq(Made)
          /\ Len(connIdle) \in Nat
      BY <1>2
    <3>2. QED  BY <2>1, <3>1, ConnAssumption DEF ConnTypes
  <2>2. CASE connDead' = connDead \cup {x} /\ UNCHANGED connIdle
    BY <1>2, <2>2 DEF ConnTypes
  <2>3. QED  BY <2>1, <2>2
<1>4. ConnTypes'
  BY <1>1, <1>2, <1>3 DEF ConnTypes
<1>5. ConnHolds'
  BY <1>1 DEF ConnHolds, ConnTypes, Holding
<1>6. ASSUME NEW n \in Made PROVE ConnSum(n)' = ConnSum(n)
  <2>1. Occurs(connOf', n) = Occurs(connOf, n) - One(x = n) + One(NoConn = n)
    <3>1. ConnOfBecomes(c, NoConn)
      BY <1>2 DEF ConnOfBecomes
    <3>2. c \in Clients
      OBVIOUS
    <3>3. QED  BY ONLY <3>1, <3>2, OfClient
  <2>2. One(NoConn = n) = 0 /\ One(x = n) \in Nat
    BY DEF One, Made, NoConn, ConnTypes
  <2>3. Occurs(connOf, x) >= 1
    <3>1. DOMAIN connOf = Clients /\ IsFiniteSet(Clients)
      BY <1>2, ConnAssumption
    <3>2. QED  BY <3>1, OccursSome
  <2>4. One(n \in connDead \cup {x}) = One(n \in connDead) + One(x = n)
    <3>1. Occurs(connOf, x) + Occurs(connIdle, x) + Cardinality(Spread(connKept, x)) >= 1
      BY <2>3, ConnSumTypes
    <3>2. QED  BY <1>2, <3>1, Disposal
  <2>5. Occurs(connIdle', n) + One(n \in connDead)'
          = Occurs(connIdle, n) + One(n \in connDead) + One(x = n)
    <3>1. CASE connIdle' = Append(connIdle, connOf[c]) /\ UNCHANGED connDead
      <4>1. Occurs(connIdle', n) = Occurs(connIdle, n) + One(x = n)
        BY <1>2, <3>1, OccursAppend
      <4>2. One(n \in connDead)' = One(n \in connDead)
        BY <3>1
      <4>3. QED  BY <2>2, <4>1, <4>2, ConnSumTypes
    <3>2. CASE connDead' = connDead \cup {connOf[c]} /\ UNCHANGED connIdle
      <4>1. One(n \in connDead)' = One(n \in connDead) + One(x = n) /\ connIdle' = connIdle
        BY <2>4, <3>2
      <4>2. QED  BY <2>2, <4>1, ConnSumTypes
    <3>3. QED  BY <3>1, <3>2
  <2>6. Occurs(connIdle', n) \in Nat /\ One(n \in connDead)' \in Nat
    BY <1>3, SeqDomain, OccursType DEF One
  <2>7. Spread(connKept, n)' = Spread(connKept, n) /\ One(n \in connLost)' = One(n \in connLost)
    BY <1>1
  <2> HIDE DEF x
  <2>8. /\ Occurs(connOf, n) \in Nat /\ Occurs(connIdle, n) \in Nat
        /\ Cardinality(Spread(connKept, n)) \in Nat
        /\ One(n \in connDead) \in Nat /\ One(n \in connLost) \in Nat
    BY ConnSumTypes
  <2>9. ConnSum(n)' = Occurs(connOf', n) + Occurs(connIdle', n) + Cardinality(Spread(connKept, n))
                        + One(n \in connDead)' + One(n \in connLost)
    BY <2>7 DEF ConnSum
  <2>10. QED  BY ONLY <2>1, <2>2, <2>5, <2>6, <2>8, <2>9 DEF ConnSum
<1>7. QED  BY <1>1, <1>4, <1>5, <1>6 DEF ConnSums

\* Steps of a client that move no connection.
LEMMA StayStep ==
  ASSUME ConnTypes, ConnHolds, ConnSums, NEW c \in Clients,
         NEW q \in {"out", "get", "try", "room", "dial", "wait", "count", "held", "put",
                    "uncount"},
         ConnGoto(c, q), connAt[c] \in Holding <=> q \in Holding,
         UNCHANGED <<connOf, connMade, connLost, connIdle, connDead, connCleanVars, connClosed,
                     connPanic>>
  PROVE  ConnTypes' /\ ConnHolds' /\ ConnSums'
<1>1. /\ connAt' = [connAt EXCEPT ![c] = q] /\ Made' = Made
      /\ UNCHANGED <<connOf, connMade, connLost, connIdle, connDead, connCleaner, connKept,
                     connClosed, connPanic>>
  BY DEF ConnGoto, connCleanVars, Made
<1>2. ConnTypes'
  BY <1>1 DEF ConnTypes
<1>3. ConnHolds'
  BY <1>1 DEF ConnHolds, ConnTypes
<1>4. QED  BY <1>1, <1>2, <1>3 DEF ConnSums, ConnSum

LEMMA ClientStep ==
  ASSUME ConnTypes, ConnHolds, ConnSums, NEW c \in Clients, ConnClient(c)
  PROVE  ConnTypes' /\ ConnHolds' /\ ConnSums'
<1>1. UNCHANGED <<connCleanVars, connClosed, connPanic>>
  BY DEF ConnClient
<1>2. CASE GetCall(c) \/ GetCheck(c) \/ GetRoom(c) \/ GetGivesUp(c)
  <2>1. \E q \in {"out", "get", "try", "dial", "wait"} :
          /\ ConnGoto(c, q) /\ connAt[c] \in {"out", "get", "room", "try", "wait"}
          /\ UNCHANGED <<connOf, connMade, connLost, connIdle, connDead>>
    <3>1. CASE GetCall(c)
      BY <3>1 DEF GetCall
    <3>2. CASE GetCheck(c)
      BY <3>2 DEF GetCheck
    <3>3. CASE GetRoom(c)
      BY <3>3 DEF GetRoom
    <3>4. CASE GetGivesUp(c)
      BY <3>4 DEF GetGivesUp
    <3>5. QED  BY <1>2, <3>1, <3>2, <3>3, <3>4
  <2>2. QED  BY <1>1, <2>1, StayStep DEF Holding
<1>3. CASE GetTry(c) \/ GetWait(c)
  <2>1. CASE connIdle # <<>> /\ ConnServe(c) /\ connAt[c] \in {"try", "wait"} /\ UNCHANGED connDead
    BY <1>1, <2>1, ServeStep
  <2>2. CASE /\ \E q \in {"room", "get"} : ConnGoto(c, q)
             /\ connIdle # <<>> /\ connIdle' = Tail(connIdle)
             /\ connAt[c] \in {"try", "wait"} /\ UNCHANGED <<connOf, connMade>>
             /\ \/ connDead' = connDead \cup {Head(connIdle)} /\ UNCHANGED connLost
                \/ connLost' = connLost \cup {Head(connIdle)} /\ UNCHANGED connDead
    BY <1>1, <2>2, DiscardStep
  <2>3. CASE /\ \E q \in {"room", "get"} : ConnGoto(c, q)
             /\ connAt[c] \in {"try", "wait"}
             /\ UNCHANGED <<connOf, connMade, connLost, connIdle, connDead>>
    BY <1>1, <2>3, StayStep DEF Holding
  <2>4. QED  BY <1>3, <2>1, <2>2, <2>3 DEF GetTry, GetWait, ConnServe
<1>4. CASE GetDial(c)
  <2>1. CASE ConnGoto(c, "out") /\ UNCHANGED <<connMade, connOf, connDead, connLost>>
    <3>1. connAt[c] = "dial" /\ UNCHANGED connIdle
      BY <1>4 DEF GetDial
    <3>2. QED  BY <1>1, <2>1, <3>1, StayStep DEF Holding
  <2>2. CASE connMade < MaxConns /\ connMade' = connMade + 1
             /\ connOf' = [connOf EXCEPT ![c] = connMade'] /\ ConnGoto(c, "count")
             /\ UNCHANGED <<connDead, connLost>>
    BY <1>1, <1>4, <2>2, DialStep DEF GetDial
  <2>3. ASSUME NEW m \in connDead \cup connLost,
               connDead' = connDead \ {m}, connLost' = connLost \ {m},
               connOf' = [connOf EXCEPT ![c] = m], ConnGoto(c, "count"), UNCHANGED connMade
        PROVE  ConnTypes' /\ ConnHolds' /\ ConnSums'
    BY <1>1, <1>4, <2>3, RedialStep DEF GetDial
  <2>4. QED  BY <1>4, <2>1, <2>2, <2>3 DEF GetDial
<1>5. CASE GetCount(c) \/ PutUncount(c)
  <2>1. /\ UNCHANGED <<connOf, connMade, connLost, connIdle, connDead>>
        /\ \/ connAt[c] = "count" /\ ConnGoto(c, "held")
           \/ connAt[c] = "uncount" /\ ConnGoto(c, "out")
    BY <1>5 DEF GetCount, PutUncount
  <2>2. QED  BY <1>1, <2>1, StayStep DEF Holding
<1>6. CASE PutCheck(c)
  <2>1. CASE connClosed
    BY <1>1, <1>6, <2>1, GiveStep DEF PutCheck
  <2>2. CASE ~ connClosed
    BY <1>1, <1>6, <2>2, StayStep DEF PutCheck, Holding
  <2>3. QED  BY <2>1, <2>2
<1>7. CASE PutSend(c)
  BY <1>1, <1>7, GiveStep DEF PutSend
<1>8. QED  BY <1>2, <1>3, <1>4, <1>5, <1>6, <1>7 DEF ConnClient, ConnCall

\* One cleaner's kept connections are replaced.
LEMMA KeptBecomes ==
  ASSUME ConnTypes, NEW k \in Cleaners, connKept' \in [Cleaners -> Seq(Made)],
         \A j \in Cleaners \ {k} : connKept'[j] = connKept[j], NEW n
  PROVE  /\ Occurs(connKept[k], n) \in Nat
         /\ Occurs(connKept[k], n) <= Cardinality(Spread(connKept, n))
         /\ Cardinality(Spread(connKept, n)) \in Nat
         /\ Cardinality(Spread(connKept', n)) =
              Cardinality(Spread(connKept, n)) - Occurs(connKept[k], n) + Occurs(connKept'[k], n)
<1>1. /\ DOMAIN connKept = Cleaners /\ DOMAIN connKept' = Cleaners /\ IsFiniteSet(Cleaners)
      /\ \A j \in Cleaners : IsFiniteSet(DOMAIN connKept[j]) /\ IsFiniteSet(DOMAIN connKept'[j])
  BY ConnAssumption, SeqDomain DEF ConnTypes
<1>2. k \in Cleaners /\ \A j \in Cleaners \ {k} : connKept'[j] = connKept[j]
  OBVIOUS
<1>3. QED  BY ONLY <1>1, <1>2, SpreadExcept

\* A clean-up takes the next idle connection, and keeps or closes it.
LEMMA DrainStep ==
  ASSUME ConnTypes, ConnSums, NEW k \in Cleaners, CleanDrain(k),
         UNCHANGED <<connClientVars, connClosed, connPanic>>
  PROVE  ConnTypes' /\ ConnSums'
<1> DEFINE x == Head(connIdle)
<1>1. /\ connIdle # <<>> /\ connIdle' = Tail(connIdle) /\ Made' = Made
      /\ UNCHANGED <<connAt, connOf, connActive, connMade, connLost, connCleaner, connClosed,
                     connPanic>>
      /\ \/ connKept' = [connKept EXCEPT ![k] = Append(@, x)] /\ UNCHANGED connDead
         \/ connDead' = connDead \cup {x} /\ UNCHANGED connKept
  BY DEF CleanDrain, connClientVars, Made
<1>2. x \in Made /\ Tail(connIdle) \in Seq(Made) /\ Len(Tail(connIdle)) <= PoolSize
  BY <1>1, IdleHead
<1> HIDE DEF x
<1>3. connKept' \in [Cleaners -> Seq(Made)] /\ connDead' \subseteq Made
  <2>1. CASE connKept' = [connKept EXCEPT ![k] = Append(@, x)] /\ UNCHANGED connDead
    <3>1. Append(connKept[k], x) \in Seq(Made)
      BY <1>2 DEF ConnTypes
    <3>2. QED  BY <2>1, <3>1 DEF ConnTypes
  <2>2. CASE connDead' = connDead \cup {x} /\ UNCHANGED connKept
    BY <1>2, <2>2 DEF ConnTypes
  <2>3. QED  BY <1>1, <2>1, <2>2
<1>4. ConnTypes'
  BY <1>1, <1>2, <1>3 DEF ConnTypes
<1>5. ASSUME NEW n \in Made PROVE ConnSum(n)' = ConnSum(n)
  <2>1. Occurs(connIdle', n) = Occurs(connIdle, n) - One(x = n)
    BY <1>1, IdleHead DEF x
  <2>2. One(x = n) \in Nat
    BY DEF One
  <2>3. Cardinality(Spread(connKept', n)) + One(n \in connDead)'
          = Cardinality(Spread(connKept, n)) + One(n \in connDead) + One(x = n)
    <3>1. CASE connKept' = [connKept EXCEPT ![k] = Append(@, x)] /\ UNCHANGED connDead
      <4>1. /\ \A j \in Cleaners \ {k} : connKept'[j] = connKept[j]
            /\ connKept'[k] = Append(connKept[k], x) /\ connKept[k] \in Seq(Made)
        BY <3>1 DEF ConnTypes
      <4>2. Occurs(connKept'[k], n) = Occurs(connKept[k], n) + One(x = n)
        BY ONLY <1>2, <4>1, OccursAppend
      <4>3. /\ Occurs(connKept[k], n) \in Nat /\ Cardinality(Spread(connKept, n)) \in Nat
            /\ Cardinality(Spread(connKept', n)) =
                 Cardinality(Spread(connKept, n)) - Occurs(connKept[k], n) + Occurs(connKept'[k], n)
        BY <1>3, <4>1, KeptBecomes
      <4>4. One(n \in connDead)' = One(n \in connDead) /\ One(n \in connDead) \in Nat
        BY <3>1, ConnSumTypes
      <4>5. QED  BY ONLY <2>2, <4>2, <4>3, <4>4
    <3>2. CASE connDead' = connDead \cup {x} /\ UNCHANGED connKept
      <4>1. Occurs(connIdle, x) >= 1
        BY <1>1, IdleHead DEF x
      <4>2. Occurs(connOf, x) + Occurs(connIdle, x) + Cardinality(Spread(connKept, x)) >= 1
        BY <4>1, ConnSumTypes
      <4>3. One(n \in connDead)' = One(n \in connDead) + One(x = n)
        BY <1>2, <3>2, <4>2, Disposal
      <4>4. Cardinality(Spread(connKept', n)) = Cardinality(Spread(connKept, n))
        BY <3>2
      <4>5. Cardinality(Spread(connKept, n)) \in Nat /\ One(n \in connDead) \in Nat
        BY ConnSumTypes
      <4>6. QED  BY ONLY <2>2, <4>3, <4>4, <4>5
    <3>3. QED  BY <1>1, <3>1, <3>2
  <2>4. /\ Occurs(connOf, n) \in Nat /\ Occurs(connIdle, n) \in Nat
        /\ Cardinality(Spread(connKept, n)) \in Nat
        /\ One(n \in connDead) \in Nat /\ One(n \in connLost) \in Nat
    BY ConnSumTypes
  <2>5. Cardinality(Spread(connKept', n)) \in Nat /\ One(n \in connDead)' \in Nat
    <3>1. \A j \in Cleaners : IsFiniteSet(DOMAIN connKept'[j])
      BY <1>3, SeqDomain
    <3>2. IsFiniteSet(Cleaners) /\ DOMAIN connKept' = Cleaners
      BY <1>3, ConnAssumption
    <3>3. Cardinality(Spread(connKept', n)) \in Nat
      BY ONLY <3>1, <3>2, SpreadType
    <3>4. QED  BY <3>3 DEF One
  <2>6. ConnSum(n)' = Occurs(connOf, n) + Occurs(connIdle', n) + Cardinality(Spread(connKept', n))
                        + One(n \in connDead)' + One(n \in connLost)
    BY <1>1 DEF ConnSum
  <2>7. QED  BY ONLY <2>1, <2>2, <2>3, <2>4, <2>5, <2>6 DEF ConnSum
<1>6. QED  BY <1>1, <1>4, <1>5 DEF ConnSums

\* It puts back what it has kept, or closes that for want of a place.
LEMMA ReturnStep ==
  ASSUME ConnTypes, ConnSums, NEW k \in Cleaners, CleanReturn(k),
         UNCHANGED <<connClientVars, connClosed, connPanic>>
  PROVE  ConnTypes' /\ ConnSums'
<1> DEFINE x == Head(connKept[k])
<1>1. /\ connKept[k] # <<>> /\ connKept' = [connKept EXCEPT ![k] = Tail(@)] /\ Made' = Made
      /\ UNCHANGED <<connAt, connOf, connActive, connMade, connLost, connCleaner, connClosed,
                     connPanic>>
      /\ \/ /\ Len(connIdle) < PoolSize /\ connIdle' = Append(connIdle, x)
            /\ UNCHANGED connDead
         \/ connDead' = connDead \cup {x} /\ UNCHANGED connIdle
  BY DEF CleanReturn, connClientVars, Made
<1>2. /\ connKept[k] \in Seq(Made) /\ x = connKept[k][1] /\ 1 \in DOMAIN connKept[k]
      /\ x \in Made /\ Tail(connKept[k]) \in Seq(Made) /\ connIdle \in Seq(Made)
  <2>1. connKept[k] \in Seq(Made) /\ connIdle \in Seq(Made)
    BY DEF ConnTypes
  <2>2. QED  BY <1>1, <2>1
<1>3. Occurs(connKept[k], x) >= 1
  BY <1>2, SeqDomain, OccursSome
<1> HIDE DEF x
<1>4. connKept' \in [Cleaners -> Seq(Made)] /\ connDead' \subseteq Made
  BY <1>1, <1>2 DEF ConnTypes
<1>5. connIdle' \in Seq(Made) /\ Len(connIdle') <= PoolSize
  <2>1. /\ Len(Append(connIdle, x)) = Len(connIdle) + 1 /\ Append(connIdle, x) \in Seq(Made)
        /\ Len(connIdle) \in Nat
    BY <1>2
  <2>2. CASE connIdle' = Append(connIdle, x) /\ Len(connIdle) < PoolSize
    BY <2>1, <2>2, ConnAssumption
  <2>3. CASE connIdle' = connIdle
    BY <1>2, <2>3 DEF ConnTypes
  <2>4. QED  BY <1>1, <2>2, <2>3
<1>6. ConnTypes'
  BY <1>1, <1>4, <1>5 DEF ConnTypes
<1>7. ASSUME NEW m
      PROVE  /\ Occurs(connKept[k], m) \in Nat
             /\ Occurs(connKept[k], m) <= Cardinality(Spread(connKept, m))
             /\ Cardinality(Spread(connKept', m)) = Cardinality(Spread(connKept, m)) - One(x = m)
  <2>1. /\ \A j \in Cleaners \ {k} : connKept'[j] = connKept[j]
        /\ connKept'[k] = Tail(connKept[k])
    BY <1>1 DEF ConnTypes
  <2>2. Occurs(connKept'[k], m) = Occurs(connKept[k], m) - One(x = m)
    BY <1>1, <1>2, <2>1, OccursTail DEF x
  <2>3. /\ Occurs(connKept[k], m) \in Nat
        /\ Occurs(connKept[k], m) <= Cardinality(Spread(connKept, m))
        /\ Cardinality(Spread(connKept, m)) \in Nat
        /\ Cardinality(Spread(connKept', m)) =
             Cardinality(Spread(connKept, m)) - Occurs(connKept[k], m) + Occurs(connKept'[k], m)
    BY <1>4, <2>1, KeptBecomes
  <2>4. One(x = m) \in Nat
    BY DEF One
  <2>5. QED  BY ONLY <2>2, <2>3, <2>4
<1>8. ASSUME NEW n \in Made PROVE ConnSum(n)' = ConnSum(n)
  <2>1. Cardinality(Spread(connKept', n)) = Cardinality(Spread(connKept, n)) - One(x = n)
    BY <1>7
  <2>2. One(x = n) \in Nat
    BY DEF One
  <2>3. Occurs(connIdle', n) + One(n \in connDead)'
          = Occurs(connIdle, n) + One(n \in connDead) + One(x = n)
    <3>1. CASE connIdle' = Append(connIdle, x) /\ UNCHANGED connDead
      <4>1. Occurs(connIdle', n) = Occurs(connIdle, n) + One(x = n)
        BY <1>2, <3>1, OccursAppend
      <4>2. One(n \in connDead)' = One(n \in connDead)
        BY <3>1
      <4>3. Occurs(connIdle, n) \in Nat /\ One(n \in connDead) \in Nat
        BY ConnSumTypes
      <4>4. QED  BY ONLY <2>2, <4>1, <4>2, <4>3
    <3>2. CASE connDead' = connDead \cup {x} /\ UNCHANGED connIdle
      <4>1. Occurs(connOf, x) + Occurs(connIdle, x) + Cardinality(Spread(connKept, x)) >= 1
        BY <1>3, <1>7, ConnSumTypes
      <4>2. One(n \in connDead)' = One(n \in connDead) + One(x = n) /\ connIdle' = connIdle
        BY <1>2, <3>2, <4>1, Disposal
      <4>3. Occurs(connIdle, n) \in Nat /\ One(n \in connDead) \in Nat
        BY ConnSumTypes
      <4>4. QED  BY <2>2, <4>2, <4>3
    <3>3. QED  BY <1>1, <3>1, <3>2
  <2>4. /\ Occurs(connOf, n) \in Nat /\ Occurs(connIdle, n) \in Nat
        /\ Cardinality(Spread(connKept, n)) \in Nat
        /\ One(n \in connDead) \in Nat /\ One(n \in connLost) \in Nat
    BY ConnSumTypes
  <2>5. Occurs(connIdle', n) \in Nat /\ One(n \in connDead)' \in Nat
    BY <1>5, SeqDomain, OccursType DEF One
  <2>6. ConnSum(n)' = Occurs(connOf, n) + Occurs(connIdle', n) + Cardinality(Spread(connKept', n))
                        + One(n \in connDead)' + One(n \in connLost)
    BY <1>1 DEF ConnSum
  <2>7. QED  BY ONLY <2>1, <2>2, <2>3, <2>4, <2>5, <2>6 DEF ConnSum
<1>9. QED  BY <1>1, <1>6, <1>8 DEF ConnSums

\* Stop closes what is idle.
LEMMA StopCloses ==
  ASSUME ConnTypes, ConnSums, ConnStop
  PROVE  ConnTypes' /\ ConnSums'
<1>1. /\ connDead' = connDead \cup {connIdle[i] : i \in DOMAIN connIdle} /\ connIdle' = <<>>
      /\ UNCHANGED <<connAt, connOf, connActive, connMade, connLost, connCleaner, connKept,
                     connPanic>>
      /\ Made' = Made /\ connClosed' = TRUE
  BY DEF ConnStop, connClientVars, connCleanVars, Made
<1>2. ConnTypes'
  <2>1. {connIdle[i] : i \in DOMAIN connIdle} \subseteq Made
    BY DEF ConnTypes
  <2>2. connIdle' \in Seq(Made) /\ Len(connIdle') = 0 /\ Len(connIdle') <= PoolSize
    BY <1>1, ConnAssumption
  <2>3. QED  BY <1>1, <2>1, <2>2 DEF ConnTypes
<1>3. ASSUME NEW n \in Made PROVE ConnSum(n)' = ConnSum(n)
  <2>1. Occurs(connIdle', n) = 0
    BY <1>1, OccursNone
  <2>2. One(n \in connDead)' = Occurs(connIdle, n) + One(n \in connDead)
    <3>1. CASE \E i \in DOMAIN connIdle : connIdle[i] = n
      <4>1. Occurs(connIdle, n) >= 1
        BY <3>1, SeqDomain, OccursSome DEF ConnTypes
      <4>2. Occurs(connIdle, n) = 1 /\ One(n \in connDead) = 0
        BY <4>1, ConnSumTypes DEF ConnSums, ConnSum
      <4>3. One(n \in connDead)' = 1
        BY <1>1, <3>1 DEF One
      <4>4. QED  BY <4>2, <4>3
    <3>2. CASE \A i \in DOMAIN connIdle : connIdle[i] # n
      <4>1. Occurs(connIdle, n) = 0
        BY <3>2, OccursNone
      <4>2. One(n \in connDead)' = One(n \in connDead)
        BY <1>1, <3>2 DEF One
      <4>3. QED  BY <4>1, <4>2, ConnSumTypes
    <3>3. QED  BY <3>1, <3>2
  <2>3. /\ Occurs(connOf, n) \in Nat /\ Occurs(connIdle, n) \in Nat
        /\ Cardinality(Spread(connKept, n)) \in Nat
        /\ One(n \in connDead) \in Nat /\ One(n \in connLost) \in Nat
    BY ConnSumTypes
  <2>4. ConnSum(n)' = Occurs(connOf, n) + Occurs(connIdle', n) + Cardinality(Spread(connKept, n))
                        + One(n \in connDead)' + One(n \in connLost)
    BY <1>1 DEF ConnSum
  <2>5. QED  BY ONLY <2>1, <2>2, <2>3, <2>4 DEF ConnSum
<1>4. QED  BY <1>1, <1>2, <1>3 DEF ConnSums

LEMMA QuietStep ==
  ASSUME ConnTypes, ConnSums, connCleaner' \in [Cleaners -> {"no", "drain", "return"}],
         connPanic' \in BOOLEAN,
         UNCHANGED <<connAt, connOf, connMade, connLost, connKept, connIdle, connClosed, connDead>>
  PROVE  ConnTypes' /\ ConnSums'
<1>1. Made' = Made
  BY DEF Made
<1>2. ConnTypes'
  BY <1>1 DEF ConnTypes
<1>3. ASSUME NEW n PROVE ConnSum(n)' = ConnSum(n)
  BY DEF ConnSum
<1>4. QED  BY <1>1, <1>2, <1>3 DEF ConnSums

\* However many callers, clean-ups and connections there are: no connection is
\* shared, doubled, or lost but by a waiting Get, and Get decides on new ones with
\* the right count.
THEOREM ConnInvariant == ConnSpec => []ConnInv
<1>1. ConnIInv /\ [ConnNext]_connVars => ConnIInv'
  <2> SUFFICES ASSUME ConnIInv, [ConnNext]_connVars PROVE ConnIInv'
    OBVIOUS
  <2>1. ConnTypes /\ ConnHolds /\ ConnCounts /\ ConnSums
    BY DEF ConnIInv
  <2>2. ASSUME NEW c \in Clients, ConnClient(c) PROVE ConnIInv'
    BY <2>1, <2>2, ClientCounts, ClientStep DEF ConnIInv
  <2>3. ASSUME NEW k \in Cleaners, ConnClean(k) \/ ConnCleanBegin(k) PROVE ConnIInv'
    <3>1. UNCHANGED <<connClientVars, connClosed, connPanic>>
      BY <2>3 DEF ConnClean, ConnCleanBegin
    <3>2. UNCHANGED <<connAt, connOf, connActive, connMade, connLost, connClosed, connPanic>>
      BY <3>1 DEF connClientVars
    <3>3. ConnHolds' /\ ConnCounts'
      BY <2>1, <3>2 DEF ConnHolds, ConnCounts
    <3>4. CASE CleanDrain(k)
      BY <2>1, <3>1, <3>3, <3>4, DrainStep DEF ConnIInv
    <3>5. CASE CleanReturn(k)
      BY <2>1, <3>1, <3>3, <3>5, ReturnStep DEF ConnIInv
    <3>6. CASE CleanDrained(k) \/ CleanEnd(k) \/ CleanBegin(k)
      <4>1. /\ connCleaner' \in [Cleaners -> {"no", "drain", "return"}]
            /\ UNCHANGED <<connKept, connIdle, connDead>>
        BY <2>1, <3>6 DEF CleanDrained, CleanEnd, CleanBegin, ConnTypes
      <4>2. ConnTypes' /\ ConnSums'
        BY <2>1, <3>2, <4>1, QuietStep DEF ConnTypes
      <4>3. QED  BY <3>3, <4>2 DEF ConnIInv
    <3>7. QED  BY <2>3, <3>4, <3>5, <3>6 DEF ConnClean, ConnCleanBegin
  <2>4. CASE ConnStop
    <3>1. UNCHANGED <<connAt, connOf, connActive>> /\ connClosed'
      BY <2>4 DEF ConnStop, connClientVars
    <3>2. ConnHolds' /\ ConnCounts'
      BY <2>1, <3>1 DEF ConnHolds, ConnCounts
    <3>3. QED  BY <2>1, <2>4, <3>2, StopCloses DEF ConnIInv
  <2>5. CASE ConnSendPanics \/ UNCHANGED connVars
    <3>1. /\ UNCHANGED <<connAt, connOf, connActive, connMade, connLost, connCleaner, connKept,
                         connIdle, connClosed, connDead>>
          /\ connPanic' \in BOOLEAN
      BY <2>1, <2>5 DEF ConnSendPanics, connVars, connClientVars, connCleanVars, ConnTypes
    <3>2. ConnHolds' /\ ConnCounts'
      BY <2>1, <3>1 DEF ConnHolds, ConnCounts
    <3>3. ConnTypes' /\ ConnSums'
      BY <2>1, <3>1, QuietStep DEF ConnTypes
    <3>4. QED  BY <3>2, <3>3 DEF ConnIInv
  <2>6. QED  BY <2>2, <2>3, <2>4, <2>5 DEF ConnNext
<1>2. QED  BY <1>1, ConnInitial, ConnInvFromParts, PTL DEF ConnSpec

-----------------------------------------------------------------------------
(***************************************************************************)
(* The cache, for any keys, sizes and number of pushes: CacheInv.          *)
(*                                                                         *)
(* The list is a ring, in the order of last use: Directly says which item  *)
(* follows which, and each operation of the list takes one item out of     *)
(* that order or puts one in front.  The clean-up removes one item after   *)
(* the other, in any order; its loop is followed to the least of the       *)
(* numbers for which it would go wrong.                                    *)
(***************************************************************************)

\* The order of the naturals is well-founded: a set of them has a least one.
LEMMA LeastNumber == ASSUME NEW T, T \subseteq Nat, T # {} PROVE \E n \in T : \A m \in T : n <= m
<1> DEFINE R == OpToRel(<, Nat)
<1>1. IsWellFoundedOn(R, Nat)
  BY NatLessThanWellFounded, Zenon
<1>2. \A m, n \in Nat : m < n => <<m, n>> \in R
  BY DEF OpToRel
<1> HIDE DEF R
<1>3. PICK n \in T : \A m \in T : ~ (<<m, n>> \in R)
  BY <1>1, WFMin
<1>4. ASSUME NEW m \in T PROVE n <= m
  <2>1. m \in Nat /\ n \in Nat
    OBVIOUS
  <2>2. ~ (m < n)
    BY <1>2, <1>3, <2>1
  <2>3. QED  BY <2>1, <2>2
<1>5. QED  BY <1>4

Nodes == 0..MaxPushes
ListType == [next : [Nodes -> Nodes], prev : [Nodes -> Nodes], owned : SUBSET Elements, len : Int]

\* What the order of use is: total on the items that are held.
OrderOn(R, S) ==
  /\ R \subseteq S \X S
  /\ \A x \in S : <<x, x>> \in R
  /\ \A x, y \in S : x # y => (Later(R, x, y) <=> ~ Later(R, y, x))
  /\ \A x, y, z \in S : Later(R, x, y) /\ Later(R, y, z) => Later(R, x, z)

\* The list holds S in the order R.
ListHolds(l, S, R) ==
  /\ l \in ListType /\ S \subseteq l.owned /\ OrderOn(R, S)
  /\ Linked(l, S, R) /\ l.len = Cardinality(S)

LEMMA CacheConstants ==
  /\ MaxPushes \in Nat /\ CacheSize \in Nat \ {0} /\ NoKey \notin Keys
  /\ Elements \subseteq Nodes /\ Root \in Nodes /\ Root \notin Elements
  /\ Nodes = Elements \cup {Root}
BY CacheAssumption DEF Nodes, Elements, Root

LEMMA ElementsFinite ==
  ASSUME NEW S \in SUBSET Elements
  PROVE  IsFiniteSet(S) /\ Cardinality(S) \in Nat
<1>1. IsFiniteSet(Elements)
  BY FS_Interval, CacheAssumption DEF Elements
<1>2. QED  BY <1>1, FS_Subset, FS_CardinalityType

-----------------------------------------------------------------------------
(* Orders.                                                                 *)

LEMMA HeldFacts ==
  ASSUME NEW R, NEW S, OrderOn(R, S) PROVE Held(R) = S
<1>1. \A x \in S : <<x, x>> \in R
  BY DEF OrderOn
<1>2. \A p \in R : p[1] \in S
  BY DEF OrderOn
<1>3. \A x \in S : \E p \in R : p[1] = x
  <2> SUFFICES ASSUME NEW x \in S PROVE \E p \in R : p[1] = x
    OBVIOUS
  <2>1. <<x, x>>[1] = x
    OBVIOUS
  <2>2. QED  BY <1>1, <2>1
<1>4. QED  BY <1>2, <1>3 DEF Held

\* A part of an order.
LEMMA KeepFacts ==
  ASSUME NEW R, NEW S, OrderOn(R, S), NEW T \in SUBSET S
  PROVE  /\ OrderOn(Keep(R, T), T)
         /\ \A x, y : Later(Keep(R, T), x, y) <=> x \in T /\ y \in T /\ Later(R, x, y)
<1>1. \A x, y : <<x, y>> \in Keep(R, T) <=> x \in T /\ y \in T /\ <<x, y>> \in R
  BY DEF Keep
<1>2. \A x, y : Later(Keep(R, T), x, y) <=> x \in T /\ y \in T /\ Later(R, x, y)
  BY <1>1 DEF Later
<1>3. /\ \A x \in T : <<x, x>> \in Keep(R, T)
      /\ Keep(R, T) \subseteq T \X T
  BY <1>1 DEF OrderOn, Keep
<1>4. /\ \A x, y \in T : x # y => (Later(R, x, y) <=> ~ Later(R, y, x))
      /\ \A x, y, z \in T : Later(R, x, y) /\ Later(R, y, z) => Later(R, x, z)
  BY DEF OrderOn
<1>5. QED  BY <1>2, <1>3, <1>4 DEF OrderOn

LEMMA ForgetFacts ==
  ASSUME NEW R, NEW S, OrderOn(R, S), NEW D PROVE Forget(R, D) = Keep(R, S \ D)
BY HeldFacts DEF Forget

\* Using e puts it before all others.
LEMMA UseFacts ==
  ASSUME NEW R, NEW S, OrderOn(R, S), NEW e
  PROVE  /\ OrderOn(Use(R, e), S \cup {e})
         /\ \A x, y : Later(Use(R, e), x, y) <=>
              \/ x \in S \ {e} /\ y \in S \ {e} /\ Later(R, x, y)
              \/ x = e /\ y \in S \ {e}
<1> DEFINE T == S \ {e}
<1>1. Use(R, e) = Keep(R, T) \cup ({e} \X (S \cup {e}))
  BY HeldFacts, ForgetFacts DEF Use
<1>2. /\ OrderOn(Keep(R, T), T)
      /\ \A x, y : Later(Keep(R, T), x, y) <=> x \in T /\ y \in T /\ Later(R, x, y)
  BY KeepFacts
<1>3. \A x, y : <<x, y>> \in Use(R, e) <=> <<x, y>> \in Keep(R, T) \/ (x = e /\ y \in S \cup {e})
  BY <1>1
<1>4. \A x, y : Later(Use(R, e), x, y) <=>
              \/ x \in T /\ y \in T /\ Later(R, x, y)
              \/ x = e /\ y \in T
  <2>1. \A x, y : Later(Use(R, e), x, y) <=> Later(Keep(R, T), x, y) \/ (x = e /\ y \in T)
    <3> SUFFICES ASSUME NEW x, NEW y
                 PROVE  Later(Use(R, e), x, y) <=> Later(Keep(R, T), x, y) \/ (x = e /\ y \in T)
      OBVIOUS
    <3>1. Later(Use(R, e), x, y) <=> <<x, y>> \in Use(R, e) /\ x # y
      BY DEF Later
    <3>2. Later(Keep(R, T), x, y) <=> <<x, y>> \in Keep(R, T) /\ x # y
      BY DEF Later
    <3>3. (x = e /\ y \in S \cup {e} /\ x # y) <=> (x = e /\ y \in T)
      OBVIOUS
    <3>4. <<x, y>> \in Use(R, e) <=> <<x, y>> \in Keep(R, T) \/ (x = e /\ y \in S \cup {e})
      BY <1>3
    <3>5. QED  BY ONLY <3>1, <3>2, <3>3, <3>4
  <2>2. QED  BY <1>2, <2>1
<1>5. Use(R, e) \subseteq (S \cup {e}) \X (S \cup {e}) /\ \A x \in S \cup {e} : <<x, x>> \in Use(R, e)
  <2>1. \A x \in T : <<x, x>> \in Keep(R, T)
    BY <1>2 DEF OrderOn
  <2>2. Keep(R, T) \subseteq T \X T
    BY <1>2 DEF OrderOn
  <2>3. QED  BY <1>1, <1>3, <2>1, <2>2
<1>6. \A x, y \in S : x # y => (Later(R, x, y) <=> ~ Later(R, y, x))
  BY DEF OrderOn
<1>7. \A x, y, z \in S : Later(R, x, y) /\ Later(R, y, z) => Later(R, x, z)
  BY DEF OrderOn
<1>8. \A x, y \in S \cup {e} : x # y => (Later(Use(R, e), x, y) <=> ~ Later(Use(R, e), y, x))
  BY <1>4, <1>6
<1>9. \A x, y, z \in S \cup {e} :
        (Later(Use(R, e), x, y) /\ Later(Use(R, e), y, z)) => Later(Use(R, e), x, z)
  BY <1>4, <1>7
<1>10. QED  BY <1>4, <1>5, <1>8, <1>9 DEF OrderOn

\* What is linked depends on the order of what is held.
LEMMA LinkedSame ==
  ASSUME NEW l, NEW S, NEW R, NEW Q, Root \notin S, Linked(l, S, R),
         \A x, y \in S : Later(R, x, y) <=> Later(Q, x, y)
  PROVE  Linked(l, S, Q)
<1>1. \A x, y \in S \cup {Root} : Ahead(R, x, y) <=> Ahead(Q, x, y)
  BY DEF Ahead
<1>2. \A x, y \in S \cup {Root} : Directly(R, S, x, y) => Directly(Q, S, x, y)
  BY <1>1 DEF Directly
<1>3. QED  BY <1>2 DEF Linked

-----------------------------------------------------------------------------
(* container/list.                                                         *)

\* The neighbours of an element.
LEMMA Neighbours ==
  ASSUME NEW l, NEW S \in SUBSET Elements, NEW R, OrderOn(R, S), Linked(l, S, R), NEW e \in S
  PROVE  /\ l.prev[e] \in (S \ {e}) \cup {Root} /\ l.next[l.prev[e]] = e
         /\ l.next[e] \in (S \ {e}) \cup {Root} /\ l.prev[l.next[e]] = e
         /\ Directly(R, S, l.prev[e], e) /\ Directly(R, S, e, l.next[e])
<1>1. e # Root
  BY CacheConstants
<1>2. /\ l.prev[e] \in S \cup {Root} /\ l.next[l.prev[e]] = e
      /\ l.next[e] \in S \cup {Root} /\ l.prev[l.next[e]] = e
  BY DEF Linked
<1>3. Directly(R, S, l.prev[e], e) /\ Directly(R, S, e, l.next[e])
  <2>1. Directly(R, S, l.prev[e], l.next[l.prev[e]]) /\ Directly(R, S, e, l.next[e])
    BY <1>2 DEF Linked
  <2>2. QED  BY <1>2, <2>1
<1>4. ~ Ahead(R, e, e)
  BY <1>1 DEF Ahead, Later
<1>5. l.prev[e] # e /\ l.next[e] # e
  BY <1>3, <1>4 DEF Directly
<1>6. QED  BY <1>2, <1>3, <1>5

\* Without e its neighbours are neighbours.
LEMMA Between ==
  ASSUME NEW S \in SUBSET Elements, NEW R, OrderOn(R, S), NEW e \in S,
         NEW p \in (S \ {e}) \cup {Root}, NEW n \in (S \ {e}) \cup {Root},
         Directly(R, S, p, e), Directly(R, S, e, n)
  PROVE  Directly(R, S \ {e}, p, n)
<1>1. e # Root /\ Root \notin S
  BY CacheConstants
<1>2. /\ p = Root \/ Later(R, p, e)
      /\ n = Root \/ Later(R, e, n)
  BY <1>1 DEF Directly, Ahead
<1>3. Ahead(R, p, n)
  BY <1>2 DEF Ahead, OrderOn
<1>4. ASSUME NEW z \in S \ {e}, Ahead(R, p, z), Ahead(R, z, n) PROVE FALSE
  <2>1. Later(R, z, e) \/ Later(R, e, z)
    BY DEF OrderOn
  <2>2. CASE Later(R, z, e)
    BY <1>4, <2>2 DEF Directly, Ahead
  <2>3. CASE Later(R, e, z)
    BY <1>4, <2>3 DEF Directly, Ahead
  <2>4. QED  BY <2>1, <2>2, <2>3
<1>5. QED  BY <1>3, <1>4 DEF Directly

\* Fewer items are in the way.
LEMMA FewerBetween ==
  ASSUME NEW S, NEW R, NEW T \in SUBSET S, NEW x, NEW y, Directly(R, S, x, y)
  PROVE  Directly(R, T, x, y)
BY DEF Directly

LEMMA UnlinkLinks ==
  ASSUME NEW l \in ListType, NEW S \in SUBSET Elements, NEW R, OrderOn(R, S), Linked(l, S, R),
         NEW e \in S
  PROVE  LET u == Unlink(l, e) IN
         /\ u \in ListType /\ u.owned = l.owned /\ u.len = l.len
         /\ Linked(u, S \ {e}, Keep(R, S \ {e}))
<1> DEFINE p == l.prev[e]
           n == l.next[e]
           T == S \ {e}
           u == Unlink(l, e)
<1>1. /\ p \in T \cup {Root} /\ l.next[p] = e /\ n \in T \cup {Root} /\ l.prev[n] = e
      /\ Directly(R, S, p, e) /\ Directly(R, S, e, n)
  BY Neighbours
<1>2. /\ l.next \in [Nodes -> Nodes] /\ l.prev \in [Nodes -> Nodes]
      /\ e \in Nodes /\ p \in Nodes /\ n \in Nodes /\ e # Root /\ p # e /\ n # e
  BY <1>1, CacheConstants DEF ListType
<1>3. /\ u.next = [l.next EXCEPT ![p] = n] /\ u.prev = [l.prev EXCEPT ![n] = p]
      /\ u.owned = l.owned /\ u.len = l.len /\ u \in ListType
  <2>1. [l.next EXCEPT ![p] = n][e] = n
    BY <1>2
  <2>2. u = [l EXCEPT !.next = [l.next EXCEPT ![p] = n], !.prev = [l.prev EXCEPT ![n] = p]]
    BY <2>1 DEF Unlink
  <2>3. [l.next EXCEPT ![p] = n] \in [Nodes -> Nodes] /\ [l.prev EXCEPT ![n] = p] \in [Nodes -> Nodes]
    BY <1>2
  <2> HIDE DEF p, n, u
  <2>4. QED  BY <2>2, <2>3 DEF ListType
<1>4. \A x \in T \cup {Root} : /\ u.next[x] = IF x = p THEN n ELSE l.next[x]
                               /\ u.prev[x] = IF x = n THEN p ELSE l.prev[x]
  <2>1. T \cup {Root} \subseteq Nodes
    BY CacheConstants
  <2>2. QED  BY <1>2, <1>3, <2>1
<1> HIDE DEF u, p, n
<1>5. ASSUME NEW x \in T \cup {Root}
      PROVE  /\ u.next[x] \in T \cup {Root} /\ u.prev[u.next[x]] = x
             /\ u.prev[x] \in T \cup {Root} /\ u.next[u.prev[x]] = x
             /\ Directly(R, T, x, u.next[x])
  <2>1. /\ l.next[x] \in S \cup {Root} /\ l.prev[l.next[x]] = x
        /\ l.prev[x] \in S \cup {Root} /\ l.next[l.prev[x]] = x
        /\ Directly(R, S, x, l.next[x]) /\ x # e
    BY <1>2 DEF Linked
  <2>2. x # p => l.next[x] # e /\ l.next[x] # n
    BY <1>1, <2>1 DEF p
  <2>3. x # n => l.prev[x] # e /\ l.prev[x] # p
    BY <1>1, <2>1 DEF n
  <2>4. u.next[x] \in T \cup {Root} /\ u.prev[u.next[x]] = x
    BY <1>1, <1>4, <2>1, <2>2
  <2>5. u.prev[x] \in T \cup {Root} /\ u.next[u.prev[x]] = x
    BY <1>1, <1>4, <2>1, <2>3
  <2>6. Directly(R, T, x, u.next[x])
    <3>1. CASE x = p
      BY <1>1, <1>4, <3>1, Between
    <3>2. CASE x # p
      BY <1>4, <2>1, <3>2, FewerBetween
    <3>3. QED  BY <3>1, <3>2
  <2>7. QED  BY <2>4, <2>5, <2>6
<1>6. Linked(u, T, R)
  BY <1>5 DEF Linked
<1>7. Linked(u, T, Keep(R, T))
  <2>1. Root \notin T
    BY CacheConstants
  <2>2. QED  BY <1>6, <2>1, KeepFacts, LinkedSame
<1>8. QED  BY <1>3, <1>7 DEF u

\* A new element in front.
LEMMA LinkFrontLinks ==
  ASSUME NEW l \in ListType, NEW S \in SUBSET Elements, NEW R, OrderOn(R, S), Linked(l, S, R),
         NEW e \in Elements \ S
  PROVE  LET u == LinkFront(l, e) IN
         /\ u \in ListType /\ u.owned = l.owned /\ u.len = l.len
         /\ Linked(u, S \cup {e}, Use(R, e))
<1> DEFINE f == l.next[Root]
           T == S \cup {e}
           u == LinkFront(l, e)
           Q == Use(R, e)
<1>1. /\ f \in S \cup {Root} /\ l.prev[f] = Root /\ Directly(R, S, Root, f)
  BY DEF Linked
<1>2. /\ l.next \in [Nodes -> Nodes] /\ l.prev \in [Nodes -> Nodes]
      /\ e \in Nodes /\ f \in Nodes /\ Root \in Nodes /\ e # Root /\ f # e
      /\ T \cup {Root} \subseteq Nodes /\ Root \notin T
  BY <1>1, CacheConstants DEF ListType
<1>3. /\ u.next = [l.next EXCEPT ![e] = f, ![Root] = e]
      /\ u.prev = [l.prev EXCEPT ![e] = Root, ![f] = e]
      /\ u.owned = l.owned /\ u.len = l.len /\ u \in ListType
  <2>1. u = [l EXCEPT !.next = [l.next EXCEPT ![e] = f, ![Root] = e],
                      !.prev = [l.prev EXCEPT ![e] = Root, ![f] = e]]
    BY DEF LinkFront
  <2>2. /\ [l.next EXCEPT ![e] = f, ![Root] = e] \in [Nodes -> Nodes]
        /\ [l.prev EXCEPT ![e] = Root, ![f] = e] \in [Nodes -> Nodes]
    BY <1>2
  <2> HIDE DEF f, u
  <2>3. QED  BY <2>1, <2>2 DEF ListType
<1>4. \A x \in T \cup {Root} :
        /\ u.next[x] = IF x = Root THEN e ELSE IF x = e THEN f ELSE l.next[x]
        /\ u.prev[x] = IF x = f THEN e ELSE IF x = e THEN Root ELSE l.prev[x]
  BY <1>2, <1>3
<1>5. \A x, y : Later(Q, x, y) <=> \/ x \in S /\ y \in S /\ Later(R, x, y)
                                   \/ x = e /\ y \in S
  <2>1. \A x, y : Later(Use(R, e), x, y) <=>
              \/ x \in S \ {e} /\ y \in S \ {e} /\ Later(R, x, y)
              \/ x = e /\ y \in S \ {e}
    BY UseFacts
  <2>2. S \ {e} = S
    OBVIOUS
  <2>3. QED  BY <2>1, <2>2
<1> HIDE DEF u, f, Q
<1>6. \A x \in T \cup {Root}, y \in T \cup {Root} : Ahead(Q, x, y) <=>
        \/ x = Root \/ y = Root \/ (x = e /\ y \in S)
        \/ (x \in S /\ y \in S /\ Later(R, x, y))
  BY <1>5 DEF Ahead
<1>7. ASSUME NEW x \in T \cup {Root}
      PROVE  /\ u.next[x] \in T \cup {Root} /\ u.prev[u.next[x]] = x
             /\ u.prev[x] \in T \cup {Root} /\ u.next[u.prev[x]] = x
             /\ Directly(Q, T, x, u.next[x])
  <2>1. x \in S \cup {Root} =>
          /\ l.next[x] \in S \cup {Root} /\ l.prev[l.next[x]] = x
          /\ l.prev[x] \in S \cup {Root} /\ l.next[l.prev[x]] = x
          /\ Directly(R, S, x, l.next[x])
    BY DEF Linked
  <2>2. x \in S => l.next[x] # f
    BY <1>1, <1>2, <2>1
  <2>3. (x \in S \cup {Root} /\ x # f) => l.prev[x] # Root
    BY <2>1 DEF f
  <2>4. u.next[x] \in T \cup {Root} /\ u.prev[u.next[x]] = x
    BY <1>1, <1>2, <1>4, <2>1, <2>2
  <2>5. u.prev[x] \in T \cup {Root} /\ u.next[u.prev[x]] = x
    BY <1>1, <1>2, <1>4, <2>1, <2>3
  <2>6. Directly(Q, T, x, u.next[x])
    <3>1. CASE x = Root
      <4>1. u.next[x] = e
        BY <1>4, <3>1
      <4>2. QED  BY <1>2, <1>6, <3>1, <4>1 DEF Directly
    <3>2. CASE x = e
      <4>1. u.next[x] = f
        BY <1>2, <1>4, <3>2
      <4>2. \A z \in S : ~ Ahead(R, z, f)
        BY <1>1 DEF Directly, Ahead
      <4>3. Ahead(Q, e, f) /\ \A z \in T : ~ Ahead(Q, z, f) \/ ~ Ahead(Q, e, z)
        BY <1>1, <1>2, <1>6, <4>2 DEF Ahead
      <4>4. QED  BY <3>2, <4>1, <4>3 DEF Directly
    <3>3. CASE x \in S
      <4>1. u.next[x] = l.next[x] /\ Directly(R, S, x, l.next[x]) /\ l.next[x] \in S \cup {Root}
        BY <1>2, <1>4, <2>1, <3>3
      <4>2. QED  BY <1>2, <1>6, <3>3, <4>1 DEF Directly, Ahead
    <3>4. QED  BY <3>1, <3>2, <3>3
  <2>7. QED  BY <2>4, <2>5, <2>6
<1>8. Linked(u, T, Q)
  BY <1>7 DEF Linked
<1>9. QED  BY <1>3, <1>8 DEF u, Q

\* What the operations do to any list, also to one that a Clear has broken.
LEMMA UnlinkTypes ==
  ASSUME NEW l \in ListType, NEW e \in Nodes
  PROVE  Unlink(l, e) \in ListType /\ Unlink(l, e).owned = l.owned /\ Unlink(l, e).len = l.len
<1> DEFINE p == l.prev[e]
           n == [l.next EXCEPT ![p] = l.next[e]]
           v == [l.prev EXCEPT ![n[e]] = p]
<1>1. /\ p \in Nodes /\ l.next \in [Nodes -> Nodes] /\ l.prev \in [Nodes -> Nodes]
      /\ l.next[e] \in Nodes
  BY DEF ListType
<1>2. n \in [Nodes -> Nodes] /\ n[e] \in Nodes
  BY <1>1
<1>3. v \in [Nodes -> Nodes]
  BY <1>1, <1>2
<1>4. Unlink(l, e) = [l EXCEPT !.next = n, !.prev = v]
  BY DEF Unlink
<1> HIDE DEF n, v
<1>5. QED  BY <1>2, <1>3, <1>4 DEF ListType

LEMMA LinkFrontTypes ==
  ASSUME NEW l \in ListType, NEW e \in Nodes
  PROVE  /\ LinkFront(l, e) \in ListType
         /\ LinkFront(l, e).owned = l.owned /\ LinkFront(l, e).len = l.len
<1> DEFINE f == l.next[Root]
           n == [l.next EXCEPT ![e] = f, ![Root] = e]
           v == [l.prev EXCEPT ![e] = Root, ![f] = e]
<1>1. /\ Root \in Nodes /\ l.next \in [Nodes -> Nodes] /\ l.prev \in [Nodes -> Nodes]
      /\ f \in Nodes
  BY CacheConstants DEF ListType
<1>2. n \in [Nodes -> Nodes] /\ v \in [Nodes -> Nodes]
  BY <1>1
<1>3. LinkFront(l, e) = [l EXCEPT !.next = n, !.prev = v]
  BY DEF LinkFront
<1> HIDE DEF n, v
<1>4. QED  BY <1>2, <1>3 DEF ListType

LEMMA MoveTypes ==
  ASSUME NEW l \in ListType, NEW e \in Nodes
  PROVE  /\ MoveToFront(l, e) \in ListType
         /\ MoveToFront(l, e).owned = l.owned /\ MoveToFront(l, e).len = l.len
BY UnlinkTypes, LinkFrontTypes DEF MoveToFront

LEMMA CountedTypes ==
  ASSUME NEW l \in ListType, NEW e \in Elements
  PROVE  LET m == [l EXCEPT !.owned = @ \cup {e}, !.len = @ + 1] IN
         /\ m \in ListType /\ m.owned = l.owned \cup {e} /\ m.len = l.len + 1
         /\ m.next = l.next /\ m.prev = l.prev
<1> DEFINE o == l.owned \cup {e}
           c == l.len + 1
           m == [l EXCEPT !.owned = o, !.len = c]
<1>1. o \in SUBSET Elements /\ c \in Int
  BY DEF ListType
<1> HIDE DEF o, c
<1>2. m \in ListType /\ m.owned = o /\ m.len = c /\ m.next = l.next /\ m.prev = l.prev
  BY <1>1 DEF ListType
<1>3. QED  BY <1>2 DEF o, c

LEMMA PushTypes ==
  ASSUME NEW l \in ListType, NEW e \in Elements
  PROVE  /\ PushFront(l, e) \in ListType
         /\ PushFront(l, e).owned = l.owned \cup {e} /\ PushFront(l, e).len = l.len + 1
<1> DEFINE m == [l EXCEPT !.owned = @ \cup {e}, !.len = @ + 1]
<1>1. m \in ListType /\ m.owned = l.owned \cup {e} /\ m.len = l.len + 1
  BY CountedTypes
<1>2. PushFront(l, e) = LinkFront(m, e)
  BY DEF PushFront
<1> HIDE DEF m
<1>3. QED  BY <1>1, <1>2, LinkFrontTypes, CacheConstants

LEMMA RemoveTypes ==
  ASSUME NEW l \in ListType, NEW e \in Nodes
  PROVE  LET r == Remove(l, e) IN
         /\ r \in ListType /\ r.owned = l.owned \ {e}
         /\ r.len = IF e \in l.owned THEN l.len - 1 ELSE l.len
<1>1. CASE e \notin l.owned
  BY <1>1 DEF Remove
<1>2. CASE e \in l.owned
  <2> DEFINE u == Unlink(l, e)
             r == [u EXCEPT !.next[e] = Root, !.prev[e] = Root, !.owned = @ \ {e}, !.len = @ - 1]
  <2>1. u \in ListType /\ u.owned = l.owned /\ u.len = l.len
    BY UnlinkTypes
  <2>2. Remove(l, e) = r
    BY <1>2 DEF Remove
  <2>3. Root \in Nodes
    BY CacheConstants
  <2> HIDE DEF u
  <2>4. r \in ListType /\ r.owned = u.owned \ {e} /\ r.len = u.len - 1
    <3>1. u.len - 1 \in Int /\ u.owned \ {e} \in SUBSET Elements
      BY <2>1 DEF ListType
    <3>2. [u.next EXCEPT ![e] = Root] \in [Nodes -> Nodes] /\ [u.prev EXCEPT ![e] = Root] \in [Nodes -> Nodes]
      BY <2>1, <2>3 DEF ListType
    <3>3. QED  BY <2>1, <3>1, <3>2 DEF ListType
  <2>5. QED  BY <1>2, <2>1, <2>2, <2>4
<1>3. QED  BY <1>1, <1>2

-----------------------------------------------------------------------------
(* The list while it is whole.                                             *)

\* Only the pointers of the root and of what is held count.
LEMMA LinkedPointers ==
  ASSUME NEW l, NEW m, NEW S, NEW R, Linked(l, S, R),
         \A x \in S \cup {Root} : m.next[x] = l.next[x] /\ m.prev[x] = l.prev[x]
  PROVE  Linked(m, S, R)
BY DEF Linked

LEMMA OneLess ==
  ASSUME NEW S \in SUBSET Elements, NEW e \in S
  PROVE  Cardinality(S \ {e}) = Cardinality(S) - 1
BY ElementsFinite, FS_RemoveElement

LEMMA OneMore ==
  ASSUME NEW S \in SUBSET Elements, NEW e \in Elements \ S
  PROVE  Cardinality(S \cup {e}) = Cardinality(S) + 1
BY ElementsFinite, FS_AddElement

LEMMA RemoveHolds ==
  ASSUME NEW l, NEW S \in SUBSET Elements, NEW R, ListHolds(l, S, R), NEW e \in S
  PROVE  ListHolds(Remove(l, e), S \ {e}, Keep(R, S \ {e}))
<1> DEFINE u == Unlink(l, e)
           r == Remove(l, e)
           T == S \ {e}
<1>1. /\ l \in ListType /\ S \subseteq l.owned /\ OrderOn(R, S) /\ Linked(l, S, R)
      /\ l.len = Cardinality(S) /\ e \in Nodes
  BY CacheConstants DEF ListHolds
<1>2. r \in ListType /\ T \subseteq r.owned /\ r.len = Cardinality(T)
  BY <1>1, RemoveTypes, OneLess
<1>3. OrderOn(Keep(R, T), T)
  BY <1>1, KeepFacts
<1>4. u \in ListType /\ Linked(u, T, Keep(R, T))
  BY <1>1, UnlinkLinks
<1>5. \A x \in T \cup {Root} : r.next[x] = u.next[x] /\ r.prev[x] = u.prev[x]
  <2>1. r = [u EXCEPT !.next[e] = Root, !.prev[e] = Root, !.owned = @ \ {e}, !.len = @ - 1]
    BY <1>1 DEF Remove
  <2>2. e # Root /\ T \cup {Root} \subseteq Nodes
    BY CacheConstants
  <2> HIDE DEF u, r
  <2>3. r.next = [u.next EXCEPT ![e] = Root] /\ r.prev = [u.prev EXCEPT ![e] = Root]
    BY <1>4, <2>1 DEF ListType
  <2>4. u.next \in [Nodes -> Nodes] /\ u.prev \in [Nodes -> Nodes]
    BY <1>4 DEF ListType
  <2>5. QED  BY <2>2, <2>3, <2>4
<1> HIDE DEF u, r
<1>6. Linked(r, T, Keep(R, T))
  BY <1>4, <1>5, LinkedPointers
<1>7. QED  BY <1>2, <1>3, <1>6 DEF ListHolds, r

LEMMA PushHolds ==
  ASSUME NEW l, NEW S \in SUBSET Elements, NEW R, ListHolds(l, S, R), NEW e \in Elements \ S
  PROVE  ListHolds(PushFront(l, e), S \cup {e}, Use(R, e))
<1> DEFINE m == [l EXCEPT !.owned = @ \cup {e}, !.len = @ + 1]
           u == PushFront(l, e)
<1>1. /\ l \in ListType /\ S \subseteq l.owned /\ OrderOn(R, S) /\ Linked(l, S, R)
      /\ l.len = Cardinality(S)
  BY DEF ListHolds
<1>2. u \in ListType /\ S \cup {e} \subseteq u.owned /\ u.len = Cardinality(S \cup {e})
  BY <1>1, PushTypes, OneMore
<1>3. m \in ListType /\ m.next = l.next /\ m.prev = l.prev
  BY <1>1, CountedTypes
<1>4. u = LinkFront(m, e)
  BY DEF PushFront
<1> HIDE DEF m, u
<1>5. Linked(m, S, R)
  BY <1>1, <1>3, LinkedPointers
<1>6. Linked(u, S \cup {e}, Use(R, e))
  BY <1>1, <1>3, <1>4, <1>5, LinkFrontLinks
<1>7. OrderOn(Use(R, e), S \cup {e})
  BY <1>1, UseFacts
<1>8. QED  BY <1>2, <1>6, <1>7 DEF ListHolds, u

LEMMA MoveHolds ==
  ASSUME NEW l, NEW S \in SUBSET Elements, NEW R, ListHolds(l, S, R), NEW e \in S
  PROVE  ListHolds(MoveToFront(l, e), S, Use(R, e))
<1> DEFINE T == S \ {e}
           m == MoveToFront(l, e)
<1>1. /\ l \in ListType /\ S \subseteq l.owned /\ OrderOn(R, S) /\ Linked(l, S, R)
      /\ l.len = Cardinality(S) /\ e \in l.owned /\ S \cup {e} = S /\ T \cup {e} = S
  BY DEF ListHolds
<1>2. m \in ListType /\ S \subseteq m.owned /\ m.len = Cardinality(S)
  BY <1>1, MoveTypes, CacheConstants
<1>3. /\ OrderOn(Use(R, e), S)
      /\ \A x, y : Later(Use(R, e), x, y) <=>
           \/ x \in T /\ y \in T /\ Later(R, x, y)
           \/ x = e /\ y \in T
  BY <1>1, UseFacts
<1>4. CASE l.next[Root] = e
  <2>1. Directly(R, S, Root, e)
    BY <1>1, <1>4 DEF Linked
  <2>2. \A x \in S : ~ Later(R, x, e)
    BY <2>1 DEF Directly, Ahead
  <2>3. \A x \in T : Later(R, e, x)
    BY <1>1, <2>2 DEF OrderOn
  <2>4. ~ Later(R, e, e)
    BY DEF Later
  <2>5. \A x, y \in S : Later(R, x, y) <=> Later(Use(R, e), x, y)
    BY <1>3, <2>2, <2>3, <2>4
  <2>6. Linked(l, S, Use(R, e))
    BY <1>1, <2>5, LinkedSame, CacheConstants
  <2>7. m = l
    BY <1>4 DEF MoveToFront
  <2>8. QED  BY <1>2, <1>3, <2>6, <2>7 DEF ListHolds
<1>5. CASE l.next[Root] # e
  <2> DEFINE u == Unlink(l, e)
             K == Keep(R, T)
  <2>1. m = LinkFront(u, e)
    BY <1>1, <1>5 DEF MoveToFront
  <2>2. u \in ListType /\ Linked(u, T, K)
    BY <1>1, UnlinkLinks
  <2>3. /\ OrderOn(K, T)
        /\ \A x, y : Later(K, x, y) <=> x \in T /\ y \in T /\ Later(R, x, y)
    BY <1>1, KeepFacts
  <2> HIDE DEF m, u, K
  <2>4. e \in Elements \ T
    OBVIOUS
  <2>5. Linked(m, T \cup {e}, Use(K, e))
    BY <2>1, <2>2, <2>3, <2>4, LinkFrontLinks
  <2>6. \A x, y : Later(Use(K, e), x, y) <=>
              \/ x \in T /\ y \in T /\ Later(K, x, y)
              \/ x = e /\ y \in T
    <3>1. T \ {e} = T
      OBVIOUS
    <3>2. \A x, y : Later(Use(K, e), x, y) <=>
              \/ x \in T \ {e} /\ y \in T \ {e} /\ Later(K, x, y)
              \/ x = e /\ y \in T \ {e}
      <4> HIDE DEF T
      <4>1. QED  BY <2>3, UseFacts
    <3>3. QED  BY <3>1, <3>2
  <2>7. \A x, y \in S : Later(Use(K, e), x, y) <=> Later(Use(R, e), x, y)
    BY <1>3, <2>3, <2>6
  <2>8. Linked(m, S, Use(R, e))
    BY <1>1, <2>5, <2>7, LinkedSame, CacheConstants
  <2>9. QED  BY <1>2, <1>3, <2>8 DEF ListHolds, m
<1>6. QED  BY <1>4, <1>5

LEMMA InitHolds ==
  ASSUME NEW l \in ListType
  PROVE  /\ InitList(l) \in ListType /\ InitList(l).owned = l.owned /\ InitList(l).len = 0
         /\ ListHolds(InitList(l), {}, {})
<1> DEFINE m == InitList(l)
<1>1. Root \in Nodes
  BY CacheConstants
<1>2. /\ m \in ListType /\ m.owned = l.owned /\ m.len = 0
      /\ m.next[Root] = Root /\ m.prev[Root] = Root
  <2> DEFINE n == [l.next EXCEPT ![Root] = Root]
             v == [l.prev EXCEPT ![Root] = Root]
  <2>1. /\ n \in [Nodes -> Nodes] /\ v \in [Nodes -> Nodes] /\ n[Root] = Root /\ v[Root] = Root
    BY <1>1 DEF ListType
  <2>2. m = [l EXCEPT !.next = n, !.prev = v, !.len = 0]
    BY DEF InitList
  <2> HIDE DEF n, v, m
  <2>3. l = [next |-> l.next, prev |-> l.prev, owned |-> l.owned, len |-> l.len]
        /\ l.owned \in SUBSET Elements
    BY DEF ListType
  <2>4. m = [next |-> n, prev |-> v, owned |-> l.owned, len |-> 0]
    BY <2>2, <2>3
  <2>5. m \in ListType
    BY <2>1, <2>3, <2>4 DEF ListType
  <2>6. QED  BY <2>1, <2>4, <2>5
<1> HIDE DEF m
<1>3. OrderOn({}, {})
  BY DEF OrderOn
<1>4. Linked(m, {}, {})
  BY <1>2 DEF Linked, Directly, Ahead
<1>5. QED  BY <1>2, <1>3, <1>4, FS_EmptySet DEF ListHolds, m

-----------------------------------------------------------------------------
(* The clean-up: a loop over the expired items, in any order.              *)

\* f is the lists that the loop goes through.
Removals(f, order, n) ==
  /\ f[0] = lru /\ RemoveAll(order, n) = f[n]
  /\ \A i \in 1..n : f[i] = Remove(f[i - 1], order[i])

\* One after the other they are removed.
LEMMA RemoveAllFacts == ASSUME NEW n \in Nat, NEW order PROVE \E f : Removals(f, order, n)
<1> DEFINE Run(g, m) == g[0] = lru /\ \A i \in 1..m : g[i] = Remove(g[i - 1], order[i])
           Missing == {m \in Nat : ~ \E g : Run(g, m)}
           G(f) == [i \in 0..n |-> IF i = 0 THEN lru ELSE Remove(f[i - 1], order[i])]
           After == CHOOSE f : f = G(f)
<1>1. \E g : Run(g, n)
  <2> SUFFICES ASSUME Missing # {} PROVE FALSE
    BY DEF Missing
  <2>1. PICK m \in Missing : \A j \in Missing : m <= j
    BY LeastNumber DEF Missing
  <2>2. m \in Nat /\ ~ \E g : Run(g, m)
    BY DEF Missing
  <2>3. CASE m = 0
    <3> DEFINE g == [i \in {0} |-> lru]
    <3>1. Run(g, 0)
      OBVIOUS
    <3>2. QED  BY <2>2, <2>3, <3>1
  <2>4. CASE m # 0
    <3>1. m - 1 \in Nat /\ ~ (m <= m - 1)
      BY <2>2, <2>4
    <3>2. PICK g : Run(g, m - 1)
      BY <2>1, <3>1 DEF Missing
    <3> DEFINE h == [i \in 0..m |-> IF i = m THEN Remove(g[m - 1], order[m]) ELSE g[i]]
    <3>3. h[0] = lru /\ h[m] = Remove(h[m - 1], order[m])
      BY <2>2, <2>4, <3>2
    <3>4. ASSUME NEW i \in 1..(m - 1) PROVE h[i] = Remove(h[i - 1], order[i])
      BY <2>2, <3>1, <3>2
    <3>5. \A i \in 1..m : i = m \/ i \in 1..(m - 1)
      BY <2>2
    <3> HIDE DEF h
    <3>6. Run(h, m)
      BY <3>3, <3>4, <3>5
    <3>7. QED  BY <2>2, <3>6
  <2>5. QED  BY <2>3, <2>4
<1>2. \E f : f = G(f)
  <2>1. PICK g : Run(g, n)
    BY <1>1
  <2> DEFINE f == [i \in 0..n |-> g[i]]
  <2>2. ASSUME NEW i \in 0..n PROVE f[i] = IF i = 0 THEN lru ELSE Remove(f[i - 1], order[i])
    <3>1. CASE i = 0
      BY <2>1, <3>1
    <3>2. CASE i # 0
      <4>1. i \in 1..n /\ i - 1 \in 0..n
        BY <3>2
      <4>2. f[i] = g[i] /\ f[i - 1] = g[i - 1]
        BY <4>1
      <4>3. QED  BY <2>1, <3>2, <4>1, <4>2
    <3>3. QED  BY <3>1, <3>2
  <2>3. f = G(f)
    BY <2>2
  <2> HIDE DEF f, G
  <2>4. QED  BY <2>3
<1>3. After = G(After)
  BY <1>2
<1>4. RemoveAll(order, n) = After[n]
  BY DEF RemoveAll
<1> HIDE DEF After
<1>5. After[0] = lru
  BY <1>3
<1>6. \A i \in 1..n : After[i] = Remove(After[i - 1], order[i])
  BY <1>3
<1>7. Removals(After, order, n)
  BY <1>4, <1>5, <1>6 DEF Removals
<1>8. QED  BY <1>7

LEMMA KeepKeep ==
  ASSUME NEW R, NEW S, NEW T \in SUBSET S PROVE Keep(Keep(R, S), T) = Keep(R, T)
BY DEF Keep

\* What is left after the first of them.
Firsts(order, n) == {order[j] : j \in 1..n}

LEMMA RemoveAllKeeps ==
  ASSUME lru \in ListType, NEW L \in SUBSET Elements, NEW n \in Nat, NEW order \in [1..n -> L]
  PROVE  LET l == RemoveAll(order, n)
             D == Firsts(order, n)
         IN  /\ l \in ListType /\ l.owned = lru.owned \ D /\ l.len <= lru.len
             /\ Cardinality(l.owned) - l.len = Cardinality(lru.owned) - lru.len
             /\ ListHolds(lru, L, recent) => ListHolds(l, L \ D, Keep(recent, L \ D))
<1>0. PICK f : Removals(f, order, n)
  BY RemoveAllFacts, Zenon
<1>1. /\ f[0] = lru /\ RemoveAll(order, n) = f[n]
      /\ \A i \in 1..n : f[i] = Remove(f[i - 1], order[i])
  BY <1>0 DEF Removals
<1> DEFINE D(i) == Firsts(order, i)
           P(i) == /\ f[i] \in ListType /\ f[i].owned = lru.owned \ D(i) /\ f[i].len <= lru.len
                   /\ Cardinality(f[i].owned) - f[i].len = Cardinality(lru.owned) - lru.len
                   /\ ListHolds(lru, L, recent) => ListHolds(f[i], L \ D(i), Keep(recent, L \ D(i)))
           Wrong == {i \in 0..n : ~ P(i)}
<1>2. P(0)
  <2>1. D(0) = {}
    BY DEF Firsts
  <2>2. ListHolds(lru, L, recent) => Keep(recent, L) = recent
    BY DEF ListHolds, OrderOn, Keep
  <2>3. lru.len <= lru.len
    BY DEF ListType
  <2> HIDE DEF D
  <2>4. L \ D(0) = L /\ lru.owned \ D(0) = lru.owned
    BY <2>1
  <2>5. QED  BY <1>1, <2>2, <2>3, <2>4
<1>3. ASSUME NEW i \in 1..n, P(i - 1) PROVE P(i)
  <2> DEFINE l == f[i - 1]
             e == order[i]
             r == Remove(l, e)
             S == L \ D(i - 1)
  <2>1. f[i] = r /\ e \in L /\ e \in Nodes /\ e \in Elements
    BY <1>1, CacheConstants
  <2>2. D(i) = D(i - 1) \cup {e}
    <3>1. 1..i = (1..(i - 1)) \cup {i}
      OBVIOUS
    <3>2. QED  BY <3>1 DEF Firsts
  <2> HIDE DEF D, e
  <2>3. /\ l \in ListType /\ l.owned = lru.owned \ D(i - 1) /\ l.len <= lru.len
        /\ Cardinality(l.owned) - l.len = Cardinality(lru.owned) - lru.len
        /\ ListHolds(lru, L, recent) => ListHolds(l, S, Keep(recent, S))
    BY <1>3
  <2> HIDE DEF P, l
  <2>4. /\ r \in ListType /\ r.owned = l.owned \ {e}
        /\ r.len = IF e \in l.owned THEN l.len - 1 ELSE l.len
    BY <2>1, <2>3, RemoveTypes
  <2>5. r.owned = lru.owned \ D(i)
    BY <2>2, <2>3, <2>4
  <2>6. r.len <= lru.len /\ Cardinality(r.owned) - r.len = Cardinality(lru.owned) - lru.len
    <3>1. l.len \in Int /\ lru.len \in Int /\ l.owned \in SUBSET Elements /\ lru.owned \in SUBSET Elements
      BY <2>3 DEF ListType
    <3>2. Cardinality(l.owned) \in Nat /\ Cardinality(lru.owned) \in Nat
      BY <3>1, ElementsFinite
    <3>3. CASE e \in l.owned
      <4>1. Cardinality(r.owned) = Cardinality(l.owned) - 1
        BY <2>4, <3>1, <3>3, OneLess
      <4>2. QED  BY <2>3, <2>4, <3>1, <3>2, <3>3, <4>1
    <3>4. CASE e \notin l.owned
      <4>1. r.owned = l.owned /\ r.len = l.len
        BY <2>4, <3>4
      <4>2. QED  BY <2>3, <4>1
    <3>5. QED  BY <3>3, <3>4
  <2>7. ASSUME ListHolds(lru, L, recent) PROVE ListHolds(r, L \ D(i), Keep(recent, L \ D(i)))
    <3>1. ListHolds(l, S, Keep(recent, S)) /\ S \in SUBSET Elements /\ L \ D(i) = S \ {e}
      BY <2>2, <2>3, <2>7
    <3>2. CASE e \in S
      <4>1. ListHolds(r, S \ {e}, Keep(Keep(recent, S), S \ {e}))
        BY <3>1, <3>2, RemoveHolds
      <4>2. Keep(Keep(recent, S), S \ {e}) = Keep(recent, S \ {e})
        BY KeepKeep
      <4>3. QED  BY <3>1, <4>1, <4>2
    <3>3. CASE e \notin S
      <4>1. e \notin l.owned /\ S \ {e} = S
        BY <2>1, <2>3, <3>3
      <4>2. r = l
        BY <4>1 DEF Remove
      <4>3. QED  BY <3>1, <4>1, <4>2
    <3>4. QED  BY <3>2, <3>3
  <2>8. QED  BY <2>1, <2>4, <2>5, <2>6, <2>7 DEF P
<1>4. Wrong = {}
  <2> SUFFICES ASSUME Wrong # {} PROVE FALSE
    OBVIOUS
  <2> HIDE DEF P
  <2>1. PICK i \in Wrong : \A j \in Wrong : i <= j
    <3>1. Wrong \subseteq Nat
      OBVIOUS
    <3>2. QED  BY <3>1, LeastNumber
  <2>2. i \in 1..n
    BY <1>2
  <2>3. i - 1 \in 0..n /\ ~ (i <= i - 1)
    BY <2>2
  <2>4. P(i - 1)
    BY <2>1, <2>3
  <2>5. QED  BY <1>3, <2>2, <2>4
<1>5. P(n)
  <2> HIDE DEF P
  <2>1. QED  BY <1>4
<1>6. QED  BY <1>1, <1>5

-----------------------------------------------------------------------------
(* The cache.                                                              *)

\* An element that was removed is not counted, or a Clear has forgotten the count.
CacheIInv ==
  /\ CacheTypeOK /\ ItemsAreOwned
  /\ lru.len <= pushes /\ Cardinality(lru.owned) - lru.len <= pushes
  /\ ~ staleMove => ListHolds(lru, Live, recent)
  /\ \A r \in Readers : reader[r] # "out" => readKey[r] \in Keys

LEMMA CacheFacts ==
  ASSUME CacheIInv
  PROVE  /\ lru \in ListType /\ pushes \in Nat /\ pushes <= MaxPushes /\ Live \subseteq 1..pushes
         /\ Live \in SUBSET Elements /\ Live \subseteq lru.owned /\ lru.owned \subseteq 1..pushes
         /\ \A k \in Keys : items[k] # NoItem => items[k] \in Live
         /\ \A k, j \in Keys : (items[k] # NoItem /\ items[k] = items[j]) => k = j
<1>1. /\ items \in [Keys -> 0..pushes] /\ pushes \in 0..MaxPushes
      /\ lru \in [next : [0..MaxPushes -> 0..MaxPushes], prev : [0..MaxPushes -> 0..MaxPushes],
                  owned : SUBSET (1..pushes), len : - MaxPushes..MaxPushes]
  BY DEF CacheIInv, CacheTypeOK
<1>2. pushes \in Nat /\ pushes <= MaxPushes
  BY <1>1, CacheConstants
<1>3. 1..pushes \subseteq Elements
  BY <1>2, CacheConstants DEF Elements
<1>4. lru \in ListType
  <2>1. - MaxPushes..MaxPushes \subseteq Int
    BY CacheConstants
  <2>2. SUBSET (1..pushes) \subseteq SUBSET Elements
    BY <1>3
  <2>3. QED  BY <1>1, <2>1, <2>2 DEF ListType, Nodes
<1>5. \A k \in Keys : items[k] # NoItem => items[k] \in lru.owned /\ keyOf[items[k]] = k
  BY DEF CacheIInv, ItemsAreOwned
<1>6. Live \subseteq lru.owned /\ lru.owned \subseteq 1..pushes
  BY <1>1, <1>5 DEF Live
<1>7. QED  BY <1>2, <1>3, <1>4, <1>5, <1>6 DEF Live

LEMMA UseTypes ==
  ASSUME NEW n \in Nat, NEW R \in SUBSET ((1..n) \X (1..n)), NEW e \in 1..n, NEW D
  PROVE  Use(R, e) \in SUBSET ((1..n) \X (1..n)) /\ Forget(R, D) \in SUBSET ((1..n) \X (1..n))
<1>1. Held(R) \subseteq 1..n
  BY DEF Held
<1>2. Forget(R, D) \subseteq R /\ Forget(R, {e}) \subseteq R
  BY DEF Forget, Keep
<1>3. {e} \X (Held(R) \cup {e}) \subseteq (1..n) \X (1..n)
  BY <1>1
<1>4. QED  BY <1>2, <1>3 DEF Use

\* A list that is well-formed and counted: the type of lru.
LEMMA ListTypes ==
  ASSUME NEW l \in ListType, NEW n \in Nat, n <= MaxPushes, l.owned \subseteq 1..n, l.len <= n,
         Cardinality(l.owned) - l.len <= n
  PROVE  l \in [next : [0..MaxPushes -> 0..MaxPushes], prev : [0..MaxPushes -> 0..MaxPushes],
                owned : SUBSET (1..n), len : - MaxPushes..MaxPushes]
<1>1. l.len \in Int /\ l.owned \in SUBSET Elements
  BY DEF ListType
<1>2. Cardinality(l.owned) \in Nat
  BY <1>1, ElementsFinite
<1>3. l.len \in - MaxPushes..MaxPushes
  BY <1>1, <1>2, CacheConstants
<1>4. QED  BY <1>3 DEF ListType, Nodes

LEMMA CacheInitial == CacheInit => CacheIInv
<1> SUFFICES ASSUME CacheInit PROVE CacheIInv
  OBVIOUS
<1>1. /\ items = [k \in Keys |-> NoItem] /\ pushes = 0 /\ keyOf = [e \in Elements |-> NoKey]
      /\ expired = {} /\ lru = EmptyList /\ recent = {}
      /\ reader = [r \in Readers |-> "out"]
      /\ readKey = [r \in Readers |-> NoKey] /\ readItem = [r \in Readers |-> NoItem]
      /\ cachePanic = FALSE /\ staleMove = FALSE
  BY DEF CacheInit
<1>2. /\ EmptyList \in ListType /\ EmptyList.owned = {} /\ EmptyList.len = 0
      /\ EmptyList.next[Root] = Root /\ EmptyList.prev[Root] = Root
  BY CacheConstants DEF EmptyList, ListType, Nodes
<1>3. Live = {}
  BY <1>1 DEF Live, NoItem
<1>4. OrderOn({}, {}) /\ Cardinality({}) = 0
  BY FS_EmptySet DEF OrderOn
<1>5. ListHolds(lru, Live, recent)
  <2>1. Linked(EmptyList, {}, {})
    BY <1>2 DEF Linked, Directly, Ahead
  <2>2. QED  BY <1>1, <1>2, <1>3, <1>4, <2>1 DEF ListHolds
<1>6. lru \in [next : [0..MaxPushes -> 0..MaxPushes], prev : [0..MaxPushes -> 0..MaxPushes],
               owned : SUBSET (1..pushes), len : - MaxPushes..MaxPushes]
  <2>1. /\ 0 \in Nat /\ 0 <= MaxPushes /\ EmptyList.owned \subseteq 1..0 /\ EmptyList.len <= 0
        /\ Cardinality(EmptyList.owned) - EmptyList.len <= 0
    BY <1>2, <1>4, CacheConstants
  <2>2. QED  BY <1>1, <1>2, <2>1, ListTypes
<1>7. CacheTypeOK
  <2>1. items \in [Keys -> 0..pushes] /\ pushes \in 0..MaxPushes /\ readItem \in [Readers -> 0..pushes]
    BY <1>1, CacheConstants DEF NoItem
  <2>2. /\ keyOf \in [Elements -> Keys \cup {NoKey}] /\ readKey \in [Readers -> Keys \cup {NoKey}]
        /\ reader \in [Readers -> {"out", "found", "expired", "hit"}]
    BY <1>1
  <2>3. /\ expired \subseteq 1..pushes /\ recent \subseteq (1..pushes) \X (1..pushes)
        /\ cachePanic \in BOOLEAN /\ staleMove \in BOOLEAN
    BY <1>1
  <2>4. QED  BY <1>6, <2>1, <2>2, <2>3 DEF CacheTypeOK
<1>8. QED  BY <1>1, <1>2, <1>4, <1>5, <1>7 DEF CacheIInv, ItemsAreOwned

\* A step that makes no item and leaves the readers alone but for those that return.
LEMMA StepKeeps ==
  ASSUME CacheIInv, UNCHANGED <<pushes, keyOf, cachePanic>>, lru' \in ListType,
         lru'.owned \subseteq lru.owned, lru'.len <= pushes, Cardinality(lru'.owned) - lru'.len <= pushes,
         items' \in [Keys -> 0..pushes],
         \A k \in Keys : items'[k] # NoItem => items'[k] = items[k] /\ items[k] \in lru'.owned,
         expired' \subseteq 1..pushes, recent' \in SUBSET ((1..pushes) \X (1..pushes)),
         staleMove' \in BOOLEAN, ~ staleMove' => ListHolds(lru', Live', recent'),
         UNCHANGED readVars \/ \E r \in Readers : ReturnFrom(r)
  PROVE  CacheIInv'
<1>1. CacheTypeOK /\ ItemsAreOwned /\ lru.owned \subseteq 1..pushes /\ pushes \in Nat /\ pushes <= MaxPushes
  BY CacheFacts DEF CacheIInv
<1>2. lru' \in [next : [0..MaxPushes -> 0..MaxPushes], prev : [0..MaxPushes -> 0..MaxPushes],
                owned : SUBSET (1..pushes), len : - MaxPushes..MaxPushes]
  BY <1>1, ListTypes
<1>3. /\ reader' \in [Readers -> {"out", "found", "expired", "hit"}]
      /\ readKey' \in [Readers -> Keys \cup {NoKey}] /\ readItem' \in [Readers -> 0..pushes]
      /\ \A r \in Readers : reader'[r] # "out" => readKey'[r] \in Keys
  <2>1. /\ reader \in [Readers -> {"out", "found", "expired", "hit"}]
        /\ readKey \in [Readers -> Keys \cup {NoKey}] /\ readItem \in [Readers -> 0..pushes]
        /\ \A r \in Readers : reader[r] # "out" => readKey[r] \in Keys
    BY DEF CacheIInv, CacheTypeOK
  <2>2. CASE UNCHANGED readVars
    BY <2>1, <2>2 DEF readVars
  <2>3. ASSUME NEW r \in Readers, ReturnFrom(r)
        PROVE  /\ reader' \in [Readers -> {"out", "found", "expired", "hit"}]
               /\ readKey' \in [Readers -> Keys \cup {NoKey}] /\ readItem' \in [Readers -> 0..pushes]
               /\ \A q \in Readers : reader'[q] # "out" => readKey'[q] \in Keys
    <3>1. NoItem \in 0..pushes
      BY <1>1 DEF NoItem
    <3>2. QED  BY <2>1, <2>3, <3>1 DEF ReturnFrom
  <2>4. QED  BY <2>2, <2>3
<1>4. CacheTypeOK'
  BY <1>1, <1>2, <1>3 DEF CacheTypeOK
<1>5. ItemsAreOwned'
  BY <1>1 DEF ItemsAreOwned
<1>6. QED  BY <1>3, <1>4, <1>5 DEF CacheIInv

LEMMA SetOldSteps == ASSUME CacheIInv, NEW k \in Keys, SetOld(k) PROVE CacheIInv'
<1> DEFINE e == items[k]
<1>1. /\ e # NoItem /\ expired' = expired \ {e} /\ lru' = MoveToFront(lru, e)
      /\ recent' = Use(recent, e) /\ UNCHANGED <<items, pushes, keyOf, cachePanic, staleMove, readVars>>
  BY DEF SetOld
<1>2. /\ lru \in ListType /\ e \in Live /\ Live \in SUBSET Elements /\ pushes \in Nat /\ e \in 1..pushes
      /\ Live \subseteq lru.owned
  BY <1>1, CacheFacts
<1> HIDE DEF e
<1>3. lru' \in ListType /\ lru'.owned = lru.owned /\ lru'.len = lru.len
  BY <1>1, <1>2, MoveTypes, CacheConstants
<1>4. Live' = Live
  BY <1>1 DEF Live
<1>5. ~ staleMove' => ListHolds(lru', Live', recent')
  BY <1>1, <1>2, <1>4, MoveHolds DEF CacheIInv
<1>6. expired' \subseteq 1..pushes /\ recent' \in SUBSET ((1..pushes) \X (1..pushes))
  BY <1>1, <1>2, UseTypes DEF CacheIInv, CacheTypeOK
<1>7. items' \in [Keys -> 0..pushes] /\ staleMove' \in BOOLEAN
  BY <1>1 DEF CacheIInv, CacheTypeOK
<1>8. lru'.len <= pushes /\ Cardinality(lru'.owned) - lru'.len <= pushes
  BY <1>3 DEF CacheIInv
<1>9. \A j \in Keys : items'[j] # NoItem => items'[j] = items[j] /\ items[j] \in lru'.owned
  BY <1>1, <1>3 DEF CacheIInv, ItemsAreOwned
<1>10. QED  BY <1>1, <1>3, <1>5, <1>6, <1>7, <1>8, <1>9, StepKeeps

\* Dropping the item of a key, by Delete and by a Get that found it expired.
LEMMA DropSteps ==
  ASSUME CacheIInv, NEW k \in Keys, items[k] # NoItem, Drop(k),
         UNCHANGED readVars \/ \E r \in Readers : ReturnFrom(r)
  PROVE  CacheIInv'
<1> DEFINE e == items[k]
<1>1. /\ e # NoItem /\ lru' = Remove(lru, e) /\ items' = [items EXCEPT ![k] = NoItem]
      /\ recent' = Forget(recent, {e}) /\ UNCHANGED <<pushes, keyOf, expired, cachePanic, staleMove>>
  BY DEF Drop
<1>2. /\ lru \in ListType /\ e \in Live /\ Live \in SUBSET Elements /\ pushes \in Nat /\ e \in 1..pushes
      /\ Live \subseteq lru.owned /\ lru.owned \in SUBSET Elements /\ e \in Nodes
      /\ \A j \in Keys : items[j] = e => j = k
  BY <1>1, CacheFacts, CacheConstants DEF ListType
<1>3. items \in [Keys -> 0..pushes]
  BY DEF CacheIInv, CacheTypeOK
<1>4. Live' = Live \ {e} /\ items' \in [Keys -> 0..pushes]
  <2>1. NoItem \in 0..pushes
    BY <1>2 DEF NoItem
  <2>2. QED  BY <1>1, <1>2, <1>3, <2>1 DEF Live
<1>5. \A j \in Keys : items'[j] # NoItem => j # k /\ items'[j] = items[j]
  BY <1>1, <1>3
<1> HIDE DEF e
<1>6. lru' \in ListType /\ lru'.owned = lru.owned \ {e} /\ lru'.len = lru.len - 1
  BY <1>1, <1>2, RemoveTypes
<1>7. Cardinality(lru'.owned) = Cardinality(lru.owned) - 1
  BY <1>2, <1>6, OneLess
<1>8. lru'.len <= pushes /\ Cardinality(lru'.owned) - lru'.len <= pushes
  <2>1. Cardinality(lru.owned) \in Nat /\ lru.len \in Int
    BY <1>2, ElementsFinite DEF ListType
  <2>2. lru.len <= pushes /\ Cardinality(lru.owned) - lru.len <= pushes
    BY DEF CacheIInv
  <2>3. QED  BY <1>2, <1>6, <1>7, <2>1, <2>2
<1>9. ~ staleMove' => ListHolds(lru', Live', recent')
  <2> SUFFICES ASSUME ~ staleMove PROVE ListHolds(lru', Live', recent')
    BY <1>1
  <2>1. ListHolds(lru, Live, recent)
    BY DEF CacheIInv
  <2>2. recent' = Keep(recent, Live \ {e})
    BY <1>1, <2>1, ForgetFacts DEF ListHolds
  <2>3. QED  BY <1>1, <1>2, <1>4, <2>1, <2>2, RemoveHolds
<1>10. expired' \subseteq 1..pushes /\ recent' \in SUBSET ((1..pushes) \X (1..pushes)) /\ staleMove' \in BOOLEAN
  BY <1>1, <1>2, UseTypes DEF CacheIInv, CacheTypeOK
<1>11. \A j \in Keys : items'[j] # NoItem => items'[j] = items[j] /\ items[j] \in lru'.owned
  BY <1>2, <1>5, <1>6 DEF CacheIInv, ItemsAreOwned
<1>12. QED  BY <1>1, <1>4, <1>6, <1>8, <1>9, <1>10, <1>11, StepKeeps

LEMMA ClearSteps == ASSUME CacheIInv, Clear PROVE CacheIInv'
<1>1. /\ items' = [k \in Keys |-> NoItem] /\ lru' = InitList(lru) /\ recent' = {}
      /\ UNCHANGED <<pushes, keyOf, expired, cachePanic, staleMove, readVars>>
  BY DEF Clear
<1>2. /\ lru \in ListType /\ pushes \in Nat /\ lru.owned \subseteq 1..pushes
  BY CacheFacts
<1>3. lru' \in ListType /\ lru'.owned = lru.owned /\ lru'.len = 0 /\ ListHolds(lru', {}, {})
  BY <1>1, <1>2, InitHolds
<1>4. Live' = {} /\ items' \in [Keys -> 0..pushes] /\ \A k \in Keys : items'[k] = NoItem
  BY <1>1, <1>2 DEF Live, NoItem
<1>5. Cardinality(lru.owned) <= pushes
  <2>1. IsFiniteSet(1..pushes) /\ Cardinality(1..pushes) = pushes
    <3>1. Cardinality(1..pushes) = IF 1 > pushes THEN 0 ELSE pushes - 1 + 1
      BY <1>2, FS_Interval
    <3>2. QED  BY <1>2, <3>1, FS_Interval
  <2>2. QED  BY <1>2, <2>1, FS_Subset
<1>6. lru'.len <= pushes /\ Cardinality(lru'.owned) - lru'.len <= pushes
  <2>1. Cardinality(lru.owned) \in Nat
    BY <1>2, ElementsFinite DEF ListType
  <2>2. QED  BY <1>2, <1>3, <1>5, <2>1
<1>7. expired' \subseteq 1..pushes /\ recent' \in SUBSET ((1..pushes) \X (1..pushes)) /\ staleMove' \in BOOLEAN
  BY <1>1 DEF CacheIInv, CacheTypeOK
<1>8. ~ staleMove' => ListHolds(lru', Live', recent')
  BY <1>1, <1>3, <1>4
<1>9. QED  BY <1>1, <1>3, <1>4, <1>6, <1>7, <1>8, StepKeeps

LEMMA CleanupSteps == ASSUME CacheIInv, Cleanup PROVE CacheIInv'
<1> DEFINE old == Live \cap expired
           n == Cardinality(old)
<1>1. /\ items' = [k \in Keys |-> IF items[k] \in expired THEN NoItem ELSE items[k]]
      /\ recent' = Forget(recent, expired)
      /\ UNCHANGED <<pushes, keyOf, expired, cachePanic, staleMove, readVars>>
  BY DEF Cleanup
<1>2. PICK order \in [1..n -> old] : {order[i] : i \in 1..n} = old /\ lru' = RemoveAll(order, n)
  BY DEF Cleanup
<1>3. /\ lru \in ListType /\ Live \in SUBSET Elements /\ pushes \in Nat
      /\ lru.owned \in SUBSET Elements /\ Live \subseteq lru.owned
      /\ items \in [Keys -> 0..pushes]
  BY CacheFacts DEF ListType, CacheIInv, CacheTypeOK
<1>4. n \in Nat /\ order \in [1..n -> Live]
  BY <1>3, ElementsFinite
<1>5. /\ lru' \in ListType /\ lru'.owned = lru.owned \ old /\ lru'.len <= lru.len
      /\ Cardinality(lru'.owned) - lru'.len = Cardinality(lru.owned) - lru.len
      /\ ListHolds(lru, Live, recent) => ListHolds(lru', Live \ old, Keep(recent, Live \ old))
  <2> DEFINE l == RemoveAll(order, n)
             D == Firsts(order, n)
  <2> HIDE DEF n, old
  <2>1. /\ l \in ListType /\ l.owned = lru.owned \ D /\ l.len <= lru.len
        /\ Cardinality(l.owned) - l.len = Cardinality(lru.owned) - lru.len
        /\ ListHolds(lru, Live, recent) => ListHolds(l, Live \ D, Keep(recent, Live \ D))
    BY <1>3, <1>4, RemoveAllKeeps
  <2>2. lru' = l /\ D = old
    BY <1>2 DEF Firsts
  <2> HIDE DEF l, D
  <2>3. QED  BY <2>1, <2>2
<1>6. \A k \in Keys : items'[k] # NoItem => items'[k] = items[k] /\ items[k] \notin expired
  BY <1>1
<1>7. Live' = Live \ old /\ items' \in [Keys -> 0..pushes]
  <2>1. NoItem \in 0..pushes
    BY <1>3 DEF NoItem
  <2>2. \A k \in Keys : items'[k] = IF items[k] \in expired THEN NoItem ELSE items[k]
    BY <1>1
  <2>3. QED  BY <1>1, <1>3, <2>1, <2>2 DEF Live
<1>8. lru'.len <= pushes /\ Cardinality(lru'.owned) - lru'.len <= pushes
  <2>1. lru.len <= pushes /\ Cardinality(lru.owned) - lru.len <= pushes
    BY DEF CacheIInv
  <2>2. lru.len \in Int /\ lru'.len \in Int
    BY <1>3, <1>5 DEF ListType
  <2>3. QED  BY <1>3, <1>5, <2>1, <2>2
<1>9. ~ staleMove' => ListHolds(lru', Live', recent')
  <2> SUFFICES ASSUME ~ staleMove PROVE ListHolds(lru', Live', recent')
    BY <1>1
  <2>1. ListHolds(lru, Live, recent)
    BY DEF CacheIInv
  <2>2. Live \ expired = Live \ old
    OBVIOUS
  <2>3. recent' = Keep(recent, Live \ old)
    BY <1>1, <2>1, <2>2, ForgetFacts DEF ListHolds
  <2>4. QED  BY <1>5, <1>7, <2>1, <2>3
<1>10. expired' \subseteq 1..pushes /\ recent' \in SUBSET ((1..pushes) \X (1..pushes)) /\ staleMove' \in BOOLEAN
  <2>1. expired \subseteq 1..pushes /\ recent \in SUBSET ((1..pushes) \X (1..pushes)) /\ staleMove \in BOOLEAN
    BY DEF CacheIInv, CacheTypeOK
  <2>2. Forget(recent, expired) \subseteq recent
    BY DEF Forget, Keep
  <2>3. QED  BY <1>1, <2>1, <2>2
<1>11. \A k \in Keys : items'[k] # NoItem => items'[k] = items[k] /\ items[k] \in lru'.owned
  BY <1>5, <1>6 DEF CacheIInv, ItemsAreOwned
<1>12. QED  BY <1>1, <1>5, <1>7, <1>8, <1>9, <1>10, <1>11, StepKeeps

LEMMA MoveSteps == ASSUME CacheIInv, NEW r \in Readers, GetMove(r) PROVE CacheIInv'
<1> DEFINE e == readItem[r]
<1>1. /\ ReturnFrom(r) /\ lru' = MoveToFront(lru, e)
      /\ staleMove' = (staleMove \/ e \in lru.owned \ Live)
      /\ recent' = IF e \in Live THEN Use(recent, e) ELSE recent
      /\ UNCHANGED <<items, pushes, keyOf, expired, cachePanic>>
  BY DEF GetMove
<1>2. /\ lru \in ListType /\ Live \in SUBSET Elements /\ pushes \in Nat /\ Live \subseteq 1..pushes
      /\ e \in Nodes
  <2>1. e \in 0..pushes /\ pushes \in Nat /\ pushes <= MaxPushes
    BY CacheFacts DEF CacheIInv, CacheTypeOK
  <2>2. e \in Nodes
    BY <2>1, CacheConstants DEF Nodes
  <2>3. QED  BY <2>2, CacheFacts
<1> HIDE DEF e
<1>3. lru' \in ListType /\ lru'.owned = lru.owned /\ lru'.len = lru.len
  BY <1>1, <1>2, MoveTypes
<1>4. Live' = Live
  BY <1>1 DEF Live
<1>5. ~ staleMove' => ListHolds(lru', Live', recent')
  <2> SUFFICES ASSUME ~ staleMove, e \notin lru.owned \/ e \in Live PROVE ListHolds(lru', Live', recent')
    BY <1>1
  <2>1. ListHolds(lru, Live, recent)
    BY DEF CacheIInv
  <2>2. CASE e \in Live
    BY <1>1, <1>2, <1>4, <2>1, <2>2, MoveHolds
  <2>3. CASE e \notin Live
    BY <1>1, <1>4, <2>1, <2>3 DEF MoveToFront
  <2>4. QED  BY <2>2, <2>3
<1>6. expired' \subseteq 1..pushes /\ recent' \in SUBSET ((1..pushes) \X (1..pushes)) /\ staleMove' \in BOOLEAN
  <2>1. expired \subseteq 1..pushes /\ recent \in SUBSET ((1..pushes) \X (1..pushes)) /\ staleMove \in BOOLEAN
    BY DEF CacheIInv, CacheTypeOK
  <2>2. e \in Live => Use(recent, e) \in SUBSET ((1..pushes) \X (1..pushes))
    BY <1>2, <2>1, UseTypes
  <2>3. QED  BY <1>1, <2>1, <2>2
<1>7. items' \in [Keys -> 0..pushes]
  BY <1>1 DEF CacheIInv, CacheTypeOK
<1>8. lru'.len <= pushes /\ Cardinality(lru'.owned) - lru'.len <= pushes
  BY <1>3 DEF CacheIInv
<1>9. \A j \in Keys : items'[j] # NoItem => items'[j] = items[j] /\ items[j] \in lru'.owned
  BY <1>1, <1>3 DEF CacheIInv, ItemsAreOwned
<1>10. QED  BY <1>1, <1>3, <1>5, <1>6, <1>7, <1>8, <1>9, StepKeeps

\* The steps that leave the list alone.
LEMMA ReadSteps ==
  ASSUME CacheIInv,
         \/ \E e \in Elements : Expire(e)
         \/ \E r \in Readers : (\E k \in Keys : GetLookup(r, k)) \/ GetExpiry(r)
  PROVE  CacheIInv'
<1>1. UNCHANGED <<items, pushes, keyOf, lru, cachePanic, recent, staleMove>> /\ Live' = Live
  BY DEF Expire, GetLookup, GetExpiry, Live
<1>2. CacheTypeOK /\ Live \subseteq 1..pushes
  BY CacheFacts DEF CacheIInv
<1>3. expired' \subseteq 1..pushes
  BY <1>2 DEF Expire, GetLookup, GetExpiry, CacheTypeOK
<1>4. /\ reader' \in [Readers -> {"out", "found", "expired", "hit"}]
      /\ readKey' \in [Readers -> Keys \cup {NoKey}] /\ readItem' \in [Readers -> 0..pushes]
      /\ \A r \in Readers : reader'[r] # "out" => readKey'[r] \in Keys
  <2>1. /\ reader \in [Readers -> {"out", "found", "expired", "hit"}] /\ items \in [Keys -> 0..pushes]
        /\ readKey \in [Readers -> Keys \cup {NoKey}] /\ readItem \in [Readers -> 0..pushes]
        /\ \A r \in Readers : reader[r] # "out" => readKey[r] \in Keys
    BY DEF CacheIInv, CacheTypeOK
  <2>2. CASE \E e \in Elements : Expire(e)
    BY <2>1, <2>2 DEF Expire, readVars
  <2>3. ASSUME NEW r \in Readers, NEW k \in Keys, GetLookup(r, k)
        PROVE  /\ reader' \in [Readers -> {"out", "found", "expired", "hit"}]
               /\ readKey' \in [Readers -> Keys \cup {NoKey}] /\ readItem' \in [Readers -> 0..pushes]
               /\ \A q \in Readers : reader'[q] # "out" => readKey'[q] \in Keys
    <3>1. items[k] \in 0..pushes
      BY <2>1
    <3>2. QED  BY <2>1, <2>3, <3>1 DEF GetLookup
  <2>4. ASSUME NEW r \in Readers, GetExpiry(r)
        PROVE  /\ reader' \in [Readers -> {"out", "found", "expired", "hit"}]
               /\ readKey' \in [Readers -> Keys \cup {NoKey}] /\ readItem' \in [Readers -> 0..pushes]
               /\ \A q \in Readers : reader'[q] # "out" => readKey'[q] \in Keys
    BY <2>1, <2>4 DEF GetExpiry
  <2>5. QED  BY <2>2, <2>3, <2>4
<1>5. CacheTypeOK'
  BY <1>1, <1>2, <1>3, <1>4 DEF CacheTypeOK
<1>6. QED  BY <1>1, <1>4, <1>5 DEF CacheIInv, ItemsAreOwned

\* A new item, and the oldest out when there are too many.
LEMMA SetNewSteps == ASSUME CacheIInv, NEW k \in Keys, SetNew(k) PROVE CacheIInv'
<1> DEFINE n == pushes + 1
           full == PushFront(lru, n)
           old == full.prev[Root]
           set == [items EXCEPT ![k] = n]
           key == [keyOf EXCEPT ![n] = k]
           all == Use(recent, n)
           L == Live \cup {n}
<1>1. /\ items[k] = NoItem /\ pushes < MaxPushes /\ pushes' = n /\ keyOf' = key
      /\ lru' = IF TooMany(full) THEN Remove(full, old) ELSE full
      /\ items' = [k2 \in Keys |-> IF TooMany(full) /\ old # Root /\ k2 = key[old]
                                   THEN NoItem ELSE set[k2]]
      /\ cachePanic' = (TooMany(full) /\ old = Root)
      /\ recent' = IF Cardinality(Held(all)) > CacheSize THEN Forget(all, Oldest(all)) ELSE all
      /\ UNCHANGED <<expired, staleMove, readVars>>
  BY DEF SetNew
<1>2. /\ lru \in ListType /\ pushes \in Nat /\ Live \subseteq 1..pushes /\ Live \in SUBSET Elements
      /\ lru.owned \subseteq 1..pushes /\ Live \subseteq lru.owned
      /\ n \in Nat /\ n <= MaxPushes /\ n \in Elements /\ n # Root /\ n # NoItem /\ 1..n = (1..pushes) \cup {n}
      /\ n \notin lru.owned /\ n \notin Live /\ L \in SUBSET Elements
  <2>1. /\ lru \in ListType /\ pushes \in Nat /\ Live \subseteq 1..pushes /\ Live \in SUBSET Elements
        /\ lru.owned \subseteq 1..pushes /\ Live \subseteq lru.owned
    BY CacheFacts
  <2>2. /\ n \in Nat /\ n <= MaxPushes /\ n \in Elements /\ n # Root /\ n # NoItem
        /\ 1..n = (1..pushes) \cup {n} /\ n \notin 1..pushes
    BY <1>1, <2>1, CacheConstants DEF Elements, Root, NoItem
  <2> HIDE DEF n
  <2>3. QED  BY <2>1, <2>2
<1>3. /\ items \in [Keys -> 0..pushes] /\ keyOf \in [Elements -> Keys \cup {NoKey}]
      /\ expired \subseteq 1..pushes /\ recent \in SUBSET ((1..pushes) \X (1..pushes))
      /\ lru.len <= pushes /\ Cardinality(lru.owned) - lru.len <= pushes
      /\ \A j \in Keys : items[j] # NoItem => items[j] \in lru.owned /\ keyOf[items[j]] = j
  BY DEF CacheIInv, CacheTypeOK, ItemsAreOwned
<1>4. full \in ListType /\ full.owned = lru.owned \cup {n} /\ full.len = lru.len + 1 /\ old \in Nodes
  <2>1. full \in ListType /\ full.owned = lru.owned \cup {n} /\ full.len = lru.len + 1
    BY <1>2, PushTypes
  <2> HIDE DEF full
  <2>2. QED  BY <2>1, CacheConstants DEF ListType
<1>5. /\ set \in [Keys -> 0..n] /\ key \in [Elements -> Keys \cup {NoKey}]
      /\ \A j \in Keys : set[j] = IF j = k THEN n ELSE items[j]
      /\ \A e \in Elements : key[e] = IF e = n THEN k ELSE keyOf[e]
  <2> HIDE DEF n
  <2>1. 0..pushes \subseteq 0..n /\ n \in 0..n
    BY <1>2 DEF n
  <2>2. QED  BY <1>2, <1>3, <2>1
<1>6. \A j \in Keys : set[j] # NoItem => set[j] \in full.owned /\ set[j] \in L /\ key[set[j]] = j
  <2>1. \A j \in Keys : items[j] # NoItem => items[j] \in Live /\ items[j] \in Elements /\ items[j] # n
    BY <1>2, <1>3, CacheFacts
  <2> HIDE DEF n, set, key, full
  <2>2. QED  BY <1>2, <1>3, <1>4, <1>5, <2>1
<1>7. /\ full.len <= n /\ Cardinality(full.owned) - full.len <= n /\ full.owned \in SUBSET Elements
      /\ Cardinality(full.owned) \in Nat /\ full.len \in Int /\ full.owned \subseteq 1..n
  <2>1. lru.owned \in SUBSET Elements /\ lru.len \in Int
    BY <1>2 DEF ListType
  <2>2. Cardinality(full.owned) = Cardinality(lru.owned) + 1 /\ Cardinality(lru.owned) \in Nat
    BY <1>2, <1>4, <2>1, OneMore, ElementsFinite
  <2>3. full.owned \in SUBSET Elements /\ full.owned \subseteq 1..n
    BY <1>2, <1>4, <2>1
  <2> HIDE DEF full
  <2>4. QED  BY <1>2, <1>3, <1>4, <2>1, <2>2, <2>3
<1> HIDE DEF n, full, old, set, key
<1>8. lru' \in ListType /\ lru'.owned \subseteq full.owned /\ lru'.len <= n
      /\ Cardinality(lru'.owned) - lru'.len <= n /\ (TooMany(full) => lru'.owned = full.owned \ {old})
  <2>1. CASE ~ TooMany(full)
    BY <1>1, <1>4, <1>7, <2>1
  <2>2. CASE TooMany(full)
    <3>1. /\ lru' \in ListType /\ lru'.owned = full.owned \ {old}
          /\ lru'.len = IF old \in full.owned THEN full.len - 1 ELSE full.len
      BY <1>1, <1>4, <2>2, RemoveTypes
    <3>2. CASE old \in full.owned
      <4>1. Cardinality(lru'.owned) = Cardinality(full.owned) - 1
        BY <1>7, <3>1, <3>2, OneLess
      <4>2. QED  BY <1>2, <1>7, <3>1, <3>2, <4>1
    <3>3. CASE old \notin full.owned
      <4>1. lru'.owned = full.owned /\ lru'.len = full.len
        BY <3>1, <3>3
      <4>2. QED  BY <1>7, <3>1, <4>1
    <3>4. QED  BY <3>1, <3>2, <3>3
  <2>3. QED  BY <2>1, <2>2
<1>9. \A j \in Keys : items'[j] = IF TooMany(full) /\ old # Root /\ j = key[old] THEN NoItem ELSE set[j]
  BY <1>1
<1>10. ItemsAreOwned'
  <2> SUFFICES ASSUME NEW j \in Keys, items'[j] # NoItem
               PROVE  items'[j] \in lru'.owned /\ keyOf'[items'[j]] = j
    BY DEF ItemsAreOwned
  <2>1. items'[j] = set[j] /\ ~ (TooMany(full) /\ old # Root /\ j = key[old])
    BY <1>9
  <2>2. set[j] \in full.owned /\ key[set[j]] = j /\ set[j] # Root
    BY <1>6, <2>1 DEF NoItem, Root
  <2>3. TooMany(full) => set[j] # old
    BY <2>1, <2>2
  <2>4. items'[j] \in lru'.owned
    BY <1>1, <1>8, <2>1, <2>2, <2>3
  <2>5. QED  BY <1>1, <2>1, <2>2, <2>4
<1>11. items' \in [Keys -> 0..n]
  <2>1. NoItem \in 0..n
    BY <1>2 DEF NoItem
  <2>2. QED  BY <1>1, <1>5, <2>1
<1>12. all \in SUBSET ((1..n) \X (1..n)) /\ recent' \in SUBSET ((1..n) \X (1..n))
  <2>1. recent \in SUBSET ((1..n) \X (1..n)) /\ n \in 1..n
    BY <1>2, <1>3
  <2>2. all \in SUBSET ((1..n) \X (1..n))
    BY <1>2, <2>1, UseTypes
  <2>3. Forget(all, Oldest(all)) \subseteq all
    BY DEF Forget, Keep
  <2> HIDE DEF all
  <2>4. QED  BY <1>1, <2>2, <2>3
<1>13. CacheTypeOK'
  <2>1. lru' \in [next : [0..MaxPushes -> 0..MaxPushes], prev : [0..MaxPushes -> 0..MaxPushes],
                  owned : SUBSET (1..n), len : - MaxPushes..MaxPushes]
    BY <1>2, <1>7, <1>8, ListTypes
  <2>2. n \in 0..MaxPushes /\ 1..pushes \subseteq 1..n /\ 0..pushes \subseteq 0..n
    BY <1>2 DEF n
  <2>3. expired' \subseteq 1..n /\ cachePanic' \in BOOLEAN
    BY <1>1, <1>3, <2>2
  <2>4. /\ reader' \in [Readers -> {"out", "found", "expired", "hit"}]
        /\ readKey' \in [Readers -> Keys \cup {NoKey}] /\ readItem' \in [Readers -> 0..n]
        /\ staleMove' \in BOOLEAN
    BY <1>1, <2>2 DEF CacheIInv, CacheTypeOK, readVars
  <2>5. QED  BY <1>1, <1>5, <1>11, <1>12, <2>1, <2>2, <2>3, <2>4 DEF CacheTypeOK
<1>14. ASSUME ~ staleMove PROVE ListHolds(lru', Live', recent')
  <2>1. ListHolds(full, L, all)
    BY <1>2, <1>14, PushHolds DEF CacheIInv, full
  <2>2. /\ full.len = Cardinality(L) /\ OrderOn(all, L) /\ Held(all) = L /\ Linked(full, L, all)
    BY <2>1, HeldFacts DEF ListHolds
  <2>3. \A e : e \in L <=> \E j \in Keys : set[j] = e /\ set[j] # NoItem
    <3>1. \A e \in L : \E j \in Keys : set[j] = e /\ set[j] # NoItem
      <4>1. \A e \in Live : \E j \in Keys : items[j] = e /\ items[j] # NoItem /\ j # k
        BY <1>1 DEF Live
      <4>2. QED  BY <1>2, <1>5, <4>1
    <3>2. QED  BY <1>6, <3>1
  <2> HIDE DEF all, L
  <2>4. CASE ~ TooMany(full)
    <3>1. recent' = all /\ lru' = full
      BY <1>1, <2>2, <2>4 DEF TooMany
    <3>2. Live' = L
      BY <1>9, <2>3, <2>4 DEF Live
    <3>3. QED  BY <2>1, <3>1, <3>2
  <2>5. CASE TooMany(full)
    <3>1. /\ old \in L \cup {Root} /\ full.next[old] = Root /\ Directly(all, L, old, Root)
      <4>1. old \in L \cup {Root} /\ full.next[old] = Root
        BY <2>2 DEF Linked, old
      <4>2. Directly(all, L, old, full.next[old])
        BY <2>2, <4>1 DEF Linked
      <4>3. QED  BY <4>1, <4>2
    <3>2. \A z \in L : ~ Ahead(all, old, z)
      BY <3>1 DEF Directly, Ahead
    <3>3. old \in L /\ old # Root
      <4>1. n \in L
        BY DEF L
      <4>2. QED  BY <3>1, <3>2, <4>1 DEF Ahead
    <3>4. \A z \in L : ~ Later(all, old, z) /\ (z # old => Later(all, z, old))
      BY <2>2, <3>2, <3>3 DEF Ahead, OrderOn
    <3>5. Oldest(all) = {old}
      <4>1. \A z \in L : <<z, old>> \in all
        BY <2>2, <3>3, <3>4 DEF Later, OrderOn
      <4>2. \A z \in L : z # old => <<old, z>> \notin all
        BY <3>4 DEF Later
      <4>3. QED  BY <2>2, <3>3, <4>1, <4>2 DEF Oldest
    <3>6. recent' = Keep(all, L \ {old}) /\ lru' = Remove(full, old)
      BY <1>1, <2>2, <2>5, <3>5, ForgetFacts DEF TooMany
    <3>7. Live' = L \ {old}
      <4>1. \A j \in Keys : set[j] # NoItem => (set[j] = old <=> j = key[old])
        <5>1. \A j \in Keys : set[j] # NoItem => key[set[j]] = j
          BY <1>6
        <5>2. PICK i \in Keys : set[i] = old /\ set[i] # NoItem
          BY <2>3, <3>3
        <5>3. QED  BY <5>1, <5>2
      <4>2. \A j \in Keys : items'[j] = IF j = key[old] THEN NoItem ELSE set[j]
        BY <1>9, <2>5, <3>3
      <4>3. QED  BY <2>3, <4>1, <4>2 DEF Live
    <3>8. L \in SUBSET Elements
      BY <1>2 DEF L
    <3>9. QED  BY <2>1, <3>3, <3>6, <3>7, <3>8, RemoveHolds
  <2>6. QED  BY <2>4, <2>5
<1>15. \A r \in Readers : reader'[r] # "out" => readKey'[r] \in Keys
  BY <1>1 DEF CacheIInv, readVars
<1>16. QED  BY <1>1, <1>8, <1>10, <1>13, <1>14, <1>15 DEF CacheIInv

\* However Get, Set, Delete, Clear and the clean-up overlap, map and list are one cache:
\* the list holds the map's items by their last use, so that the one that is evicted is
\* the least recently used; unless a Get overlaps a Clear, and even then each item of
\* the map is the list's.
THEOREM CacheInvariant == CacheSpec => []CacheInv
<1>1. CacheIInv /\ [CacheNext]_cacheVars => CacheIInv'
  <2> SUFFICES ASSUME CacheIInv, [CacheNext]_cacheVars PROVE CacheIInv'
    OBVIOUS
  <2>1. ASSUME NEW k \in Keys, Delete(k) PROVE CacheIInv'
    BY <2>1, DropSteps DEF Delete
  <2>2. ASSUME NEW r \in Readers, GetDelete(r) PROVE CacheIInv'
    <3>1. readKey[r] \in Keys /\ ReturnFrom(r)
      BY <2>2 DEF CacheIInv, GetDelete
    <3>2. CASE items[readKey[r]] # NoItem /\ Drop(readKey[r])
      BY <3>1, <3>2, DropSteps
    <3>3. CASE UNCHANGED <<items, pushes, keyOf, expired, lru, cachePanic, recent, staleMove>>
      <4>1. Live' = Live
        BY <3>3 DEF Live
      <4>2. /\ reader' \in [Readers -> {"out", "found", "expired", "hit"}]
            /\ readKey' \in [Readers -> Keys \cup {NoKey}] /\ readItem' \in [Readers -> 0..pushes]
            /\ \A q \in Readers : reader'[q] # "out" => readKey'[q] \in Keys
        <5>1. NoItem \in 0..pushes
          BY CacheFacts DEF NoItem
        <5>2. QED  BY <3>1, <5>1 DEF ReturnFrom, CacheIInv, CacheTypeOK
      <4>3. CacheTypeOK'
        BY <3>3, <4>2 DEF CacheIInv, CacheTypeOK
      <4>4. QED  BY <3>3, <4>1, <4>2, <4>3 DEF CacheIInv, ItemsAreOwned
    <3>4. QED  BY <2>2, <3>2, <3>3 DEF GetDelete
  <2>3. CASE CacheNext
    BY <2>1, <2>2, <2>3, SetOldSteps, SetNewSteps, ClearSteps, CleanupSteps, MoveSteps, ReadSteps
       DEF CacheNext
  <2>4. CASE UNCHANGED cacheVars
    <3>1. Live' = Live
      BY <2>4 DEF cacheVars, Live
    <3>2. QED  BY <2>4, <3>1 DEF cacheVars, readVars, CacheIInv, CacheTypeOK, ItemsAreOwned
  <2>5. QED  BY <2>3, <2>4
<1>2. CacheIInv => CacheInv
  BY HeldFacts DEF CacheIInv, CacheInv, ListIsRecent, ListHolds
<1>3. QED  BY <1>1, <1>2, CacheInitial, PTL DEF CacheSpec

=============================================================================
