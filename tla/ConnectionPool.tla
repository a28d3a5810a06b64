--------------------------- MODULE ConnectionPool ---------------------------
(***************************************************************************)
(* The connection pool, internal/performance/pool.go: a channel of idle    *)
(* connections, a count of the active ones, a minute's clean-up and Stop.  *)
(* p.mu guards the test of closed alone, the channel and the count guard   *)
(* themselves: every step in between is an action.  Whether a connection   *)
(* is still valid, or has been idle for too long, is a choice.             *)
(***************************************************************************)
EXTENDS Naturals, Sequences, FiniteSets

CONSTANTS
  Clients,    \* callers of Get and Put, which return what they got, once
  Cleaners,   \* cleanupLoop, and callers of Optimize
  PoolSize,   \* p.maxSize
  MaxConns    \* bound: the connections that there are at a time

NoConn   == 0
ConnLoop == "loop"   \* the cleaner that is cleanupLoop

\* At any time the program has finitely many goroutines.
ASSUME ConnAssumption ==
  /\ PoolSize \in Nat \ {0} /\ MaxConns \in Nat
  /\ IsFiniteSet(Clients) /\ IsFiniteSet(Cleaners)

VARIABLES
  connAt,       \* where each client is in Get or Put
  connOf,       \* the connection each client has
  connIdle,     \* p.connections
  connClosed,   \* p.closed, and the channel: Stop closes both under p.mu
  connActive,   \* stats.Active
  connMade,     \* the number of names that connections have had
  connDead,     \* those of connections that were closed
  connCleaner,  \* "no", "drain", "return"
  connKept,     \* validConns of each cleaner
  connPanic,    \* a send on the closed channel has ended the program
  connLost      \* ghost: connections a waiting Get has thrown away open

connClientVars == <<connAt, connOf, connActive, connMade, connLost>>
connCleanVars  == <<connCleaner, connKept>>
connVars == <<connClientVars, connCleanVars, connIdle, connClosed, connDead, connPanic>>

Made == 1..connMade

ConnTypeOK ==
  /\ connAt \in [Clients -> {"out", "get", "try", "room", "dial", "wait", "count",
                             "held", "put", "uncount"}]
  /\ connOf \in [Clients -> Made \cup {NoConn}]
  /\ connIdle \in Seq(Made) /\ Len(connIdle) <= PoolSize
  /\ connClosed \in BOOLEAN /\ connPanic \in BOOLEAN
  /\ connActive \in 0..Cardinality(Clients)
  /\ connMade \in 0..MaxConns /\ connDead \subseteq Made /\ connLost \subseteq Made
  /\ connCleaner \in [Cleaners -> {"no", "drain", "return"}]
  /\ connKept \in [Cleaners -> Seq(Made)]

ConnInit ==
  /\ connAt = [c \in Clients |-> "out"] /\ connOf = [c \in Clients |-> NoConn]
  /\ connIdle = <<>> /\ connClosed = FALSE /\ connActive = 0
  /\ connMade = 0 /\ connDead = {} /\ connLost = {}
  /\ connCleaner = [k \in Cleaners |-> "no"] /\ connKept = [k \in Cleaners |-> <<>>]
  /\ connPanic = FALSE

-----------------------------------------------------------------------------
(* Get.                                                                    *)

ConnGoto(c, place) == connAt' = [connAt EXCEPT ![c] = place]

\* Head of the channel to the client; it counts it next.
ConnServe(c) ==
  /\ connOf' = [connOf EXCEPT ![c] = Head(connIdle)]
  /\ connIdle' = Tail(connIdle)
  /\ ConnGoto(c, "count")
  /\ UNCHANGED <<connActive, connMade, connLost, connDead>>

GetCall(c) ==
  /\ connAt[c] = "out" /\ ConnGoto(c, "get")
  /\ UNCHANGED <<connOf, connActive, connMade, connLost, connIdle, connDead>>

\* The test of closed, at the call and at every repetition.
GetCheck(c) ==
  /\ connAt[c] = "get" /\ ConnGoto(c, IF connClosed THEN "out" ELSE "try")
  /\ UNCHANGED <<connOf, connActive, connMade, connLost, connIdle, connDead>>

GetTry(c) ==
  /\ connAt[c] = "try"
  /\ \/ connIdle # <<>> /\ ConnServe(c)
     \/ /\ connIdle # <<>>
        /\ connDead' = connDead \cup {Head(connIdle)}
        /\ connIdle' = Tail(connIdle)
        /\ ConnGoto(c, "room")
        /\ UNCHANGED <<connOf, connActive, connMade, connLost>>
     \/ /\ connIdle = <<>>
        /\ ConnGoto(c, "room")
        /\ UNCHANGED <<connOf, connActive, connMade, connLost, connIdle, connDead>>

GetRoom(c) ==
  /\ connAt[c] = "room"
  /\ ConnGoto(c, IF connActive < PoolSize THEN "dial" ELSE "wait")
  /\ UNCHANGED <<connOf, connActive, connMade, connLost, connIdle, connDead>>

\* The factory: a connection that nobody has counted yet, under a new name or that of
\* one that is gone; or an error.
GetDial(c) ==
  /\ connAt[c] = "dial"
  /\ \/ /\ connMade < MaxConns
        /\ connMade' = connMade + 1
        /\ connOf' = [connOf EXCEPT ![c] = connMade']
        /\ ConnGoto(c, "count") /\ UNCHANGED <<connDead, connLost>>
     \/ \E n \in connDead \cup connLost :
          /\ connDead' = connDead \ {n} /\ connLost' = connLost \ {n}
          /\ connOf' = [connOf EXCEPT ![c] = n]
          /\ ConnGoto(c, "count") /\ UNCHANGED connMade
     \/ ConnGoto(c, "out") /\ UNCHANGED <<connMade, connOf, connDead, connLost>>
  /\ UNCHANGED <<connActive, connIdle>>

GetCount(c) ==
  /\ connAt[c] = "count" /\ ConnGoto(c, "held")
  /\ connActive' = connActive + 1
  /\ UNCHANGED <<connOf, connMade, connLost, connIdle, connDead>>

\* The second receive: what is invalid is not closed; the closed channel yields nil.
GetWait(c) ==
  /\ connAt[c] = "wait"
  /\ \/ connIdle # <<>> /\ ConnServe(c)
     \/ /\ connIdle # <<>>
        /\ connLost' = connLost \cup {Head(connIdle)}
        /\ connIdle' = Tail(connIdle)
        /\ ConnGoto(c, "get")
        /\ UNCHANGED <<connOf, connActive, connMade, connDead>>
     \/ /\ connIdle = <<>> /\ connClosed
        /\ ConnGoto(c, "get")
        /\ UNCHANGED <<connOf, connActive, connMade, connLost, connIdle, connDead>>

\* ctx is done, or thirty seconds have passed.
GetGivesUp(c) ==
  /\ connAt[c] \in {"try", "wait"} /\ ConnGoto(c, "out")
  /\ UNCHANGED <<connOf, connActive, connMade, connLost, connIdle, connDead>>

-----------------------------------------------------------------------------
(* Put.                                                                    *)

PutCheck(c) ==
  /\ connAt[c] = "held"
  /\ IF connClosed
       THEN /\ connDead' = connDead \cup {connOf[c]}
            /\ connOf' = [connOf EXCEPT ![c] = NoConn]
            /\ ConnGoto(c, "out")
       ELSE ConnGoto(c, "put") /\ UNCHANGED <<connDead, connOf>>
  /\ UNCHANGED <<connActive, connMade, connLost, connIdle>>

\* Mutant: a connection for which there is no place is not counted off.
PutSend_FullReturns(c) ==
  /\ connAt[c] = "put" /\ ~ connClosed
  /\ connOf' = [connOf EXCEPT ![c] = NoConn]
  /\ \/ /\ Len(connIdle) < PoolSize
        /\ connIdle' = Append(connIdle, connOf[c])
        /\ ConnGoto(c, "uncount") /\ UNCHANGED connDead
     \/ /\ Len(connIdle) = PoolSize
        /\ connDead' = connDead \cup {connOf[c]}
        /\ ConnGoto(c, "out") /\ UNCHANGED connIdle
  /\ UNCHANGED <<connActive, connMade, connLost>>

PutSend(c) ==
  /\ connAt[c] = "put" /\ ~ connClosed
  /\ connOf' = [connOf EXCEPT ![c] = NoConn]
  /\ ConnGoto(c, "uncount")
  /\ \/ /\ Len(connIdle) < PoolSize
        /\ connIdle' = Append(connIdle, connOf[c]) /\ UNCHANGED connDead
     \/ /\ Len(connIdle) = PoolSize
        /\ connDead' = connDead \cup {connOf[c]} /\ UNCHANGED connIdle
  /\ UNCHANGED <<connActive, connMade, connLost>>

PutUncount(c) ==
  /\ connAt[c] = "uncount" /\ ConnGoto(c, "out")
  /\ connActive' = connActive - 1
  /\ UNCHANGED <<connOf, connMade, connLost, connIdle, connDead>>

-----------------------------------------------------------------------------
(* cleanup, Stop, and a send on the closed channel.                        *)

\* cleanupLoop tests closed, Optimize does not.
CleanBegin(k) ==
  /\ connCleaner[k] = "no" /\ (k = ConnLoop => ~ connClosed)
  /\ connCleaner' = [connCleaner EXCEPT ![k] = "drain"]
  /\ UNCHANGED <<connKept, connIdle, connDead>>

\* Out of the closed channel come nils for ever: no action.
CleanDrain(k) ==
  /\ connCleaner[k] = "drain" /\ connIdle # <<>>
  /\ connIdle' = Tail(connIdle)
  /\ \/ /\ connKept' = [connKept EXCEPT ![k] = Append(@, Head(connIdle))]
        /\ UNCHANGED connDead
     \/ connDead' = connDead \cup {Head(connIdle)} /\ UNCHANGED connKept
  /\ UNCHANGED connCleaner

CleanDrained(k) ==
  /\ connCleaner[k] = "drain" /\ connIdle = <<>> /\ ~ connClosed
  /\ connCleaner' = [connCleaner EXCEPT ![k] = "return"]
  /\ UNCHANGED <<connKept, connIdle, connDead>>

\* Mutant: a send that waits for a place.
CleanReturn_Blocks(k) ==
  /\ connCleaner[k] = "return" /\ connKept[k] # <<>> /\ ~ connClosed
  /\ Len(connIdle) < PoolSize
  /\ connKept' = [connKept EXCEPT ![k] = Tail(@)]
  /\ connIdle' = Append(connIdle, Head(connKept[k]))
  /\ UNCHANGED <<connCleaner, connDead>>

CleanReturn(k) ==
  /\ connCleaner[k] = "return" /\ connKept[k] # <<>> /\ ~ connClosed
  /\ connKept' = [connKept EXCEPT ![k] = Tail(@)]
  /\ \/ /\ Len(connIdle) < PoolSize
        /\ connIdle' = Append(connIdle, Head(connKept[k])) /\ UNCHANGED connDead
     \/ /\ Len(connIdle) = PoolSize
        /\ connDead' = connDead \cup {Head(connKept[k])} /\ UNCHANGED connIdle
  /\ UNCHANGED connCleaner

CleanEnd(k) ==
  /\ connCleaner[k] = "return" /\ connKept[k] = <<>>
  /\ connCleaner' = [connCleaner EXCEPT ![k] = "no"]
  /\ UNCHANGED <<connKept, connIdle, connDead>>

ConnStop ==
  /\ ~ connClosed /\ connClosed' = TRUE
  /\ connDead' = connDead \cup {connIdle[i] : i \in DOMAIN connIdle}
  /\ connIdle' = <<>>
  /\ UNCHANGED <<connClientVars, connCleanVars, connPanic>>

\* The test of closed is older than the send.
ConnSendPanics ==
  /\ connClosed
  /\ \/ \E c \in Clients : connAt[c] = "put"
     \/ \E k \in Cleaners : connCleaner[k] = "return" /\ connKept[k] # <<>>
  /\ connPanic' = TRUE
  /\ UNCHANGED <<connClientVars, connCleanVars, connIdle, connClosed, connDead>>

-----------------------------------------------------------------------------

ConnCall(c) == GetCheck(c) \/ GetTry(c) \/ GetRoom(c) \/ GetDial(c) \/ GetCount(c)
                 \/ GetWait(c) \/ GetGivesUp(c) \/ PutSend(c) \/ PutUncount(c)
ConnClient(c) ==
  /\ GetCall(c) \/ ConnCall(c) \/ PutCheck(c)
  /\ UNCHANGED <<connCleanVars, connClosed, connPanic>>
ConnClean(k) ==
  /\ CleanDrain(k) \/ CleanDrained(k) \/ CleanReturn(k) \/ CleanEnd(k)
  /\ UNCHANGED <<connClientVars, connClosed, connPanic>>
ConnCleanBegin(k) ==
  CleanBegin(k) /\ UNCHANGED <<connClientVars, connClosed, connPanic>>

ConnNext ==
  /\ ~ connPanic
  /\ \/ \E c \in Clients : ConnClient(c)
     \/ \E k \in Cleaners : ConnClean(k) \/ ConnCleanBegin(k)
     \/ ConnStop \/ ConnSendPanics

ConnSpec == ConnInit /\ [][ConnNext]_connVars

-----------------------------------------------------------------------------
(* Properties.                                                             *)

\* The places of x in the sequences that a function yields.
Spread(f, x) == UNION {{k} \X {i \in DOMAIN f[k] : f[k][i] = x} : k \in DOMAIN f}

\* However Get, Put, two clean-ups and Stop interleave, a connection is in one
\* place: with one client, in the channel once, kept by one cleaner, closed, or
\* lost by a waiting Get.  Two clients never share one.
ConnPlaces(n) ==
  Cardinality({c \in Clients : connOf[c] = n})
    + Cardinality({i \in DOMAIN connIdle : connIdle[i] = n})
    + Cardinality(Spread(connKept, n)) + Cardinality({n} \cap connDead) + Cardinality({n} \cap connLost)
ConnOnce == \A n \in Made : ConnPlaces(n) = 1

\* The count that decides on new connections is that of the clients between
\* their two updates of it, until the pool is closed.
ActiveExact == ~ connClosed =>
  connActive = Cardinality({c \in Clients : connAt[c] \in {"held", "put", "uncount"}})

\* No connection is shared, duplicated or counted wrongly.
ConnInv == ConnTypeOK /\ ConnOnce /\ ActiveExact

NoMoreConns == <>[](\A c \in Clients : connAt[c] # "dial")

\* Get returns, with a connection or without, once no more connections are made: until
\* then it may start over with each one that it receives and finds invalid.
GetReturns == \A c \in Clients :
  []<>(connAt[c] \in {"out", "held", "put", "uncount"} \/ connPanic)

\* A clean-up ends, whatever is put into the channel that it drains, once no more
\* connections are made, unless Stop closes the channel.
CleanupEnds == \A k \in Cleaners : []<>(connCleaner[k] = "no" \/ connClosed)

\* Put returns in any case.
PutReturns == \A c \in Clients : []<>(connAt[c] \notin {"put", "uncount"} \/ connPanic)

\* No caller of the connection pool is kept for ever.
ConnProgress == PutReturns /\ (NoMoreConns => GetReturns /\ CleanupEnds)

-----------------------------------------------------------------------------
(* What the documentation says and the code does not do.                   *)

\* pool.go:168, "Put returns a connection to the pool": it does not crash.
ConnNoPanic == ~ connPanic

\* pool.go:224, "cleanup removes expired connections", and returns.
CleanupReturns == \A k \in Cleaners :
  connCleaner[k] = "drain" ~> (connCleaner[k] = "no" \/ connPanic)
=============================================================================
