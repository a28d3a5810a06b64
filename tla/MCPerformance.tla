--------------------------- MODULE MCPerformance ----------------------------
(* Bounded instances for TLC of what is pooled and queued: three parts of   *)
(* internal/performance, and the WebSocket hub of internal/api.  They share *)
(* nothing, so that each behaviour explores one and leaves the others alone. *)
EXTENDS WorkerPool, ConnectionPool, Cache, WebSocketHub

CONSTANTS t1, t2, t3, c1, c2, k1, k2, k3, r1, Parts

VARIABLE part
vars == <<workerPoolVars, connVars, cacheVars, hubVars, part>>

Init == part \in Parts /\ WorkerInit /\ ConnInit /\ CacheInit /\ HubInit

Next ==
  /\ part' = part
  /\ \/ part = "workers"     /\ WorkerNext /\ UNCHANGED <<connVars, cacheVars, hubVars>>
        /\ (poolStop' = "no" \/ waitFor' = "no")      \* who waits only reads
     \/ part = "connections" /\ ConnNext   /\ UNCHANGED <<workerPoolVars, cacheVars, hubVars>>
     \/ part = "cache"       /\ CacheNext  /\ UNCHANGED <<workerPoolVars, connVars, hubVars>>
        /\ (pushes = 0 => keyOf'[1] \in {NoKey, k1})  \* keys are alike: the first is k1
     \/ part = "hub"         /\ HubNext    /\ UNCHANGED <<workerPoolVars, connVars, cacheVars>>

\* Goroutines run, timers fire, tasks end; select takes what stays ready.
WorkersRun == part = "workers" /\ ~ poolPanic
WorkerFairness ==
  /\ WF_workerPoolVars(WorkersRun /\ Dispatch) /\ WF_workerPoolVars(WorkersRun /\ StopReturn)
  /\ \A w \in Workers : /\ WF_workerPoolVars(WorkersRun /\ Work(w))
                        /\ SF_workerPoolVars(WorkersRun /\ WorkerExit(w))

\* Nobody has to call Get, to return a connection, or to stop the pool.
ConnectionsRun == part = "connections" /\ ~ connPanic
ConnFairness ==
  /\ \A c \in Clients  : WF_connVars(/\ ConnectionsRun /\ ConnCall(c)
                                     /\ UNCHANGED <<connCleanVars, connClosed, connPanic>>)
  /\ \A k \in Cleaners : WF_connVars(ConnectionsRun /\ ConnClean(k))
  /\ WF_connVars(ConnectionsRun /\ ConnSendPanics)

\* The server's goroutines run; nobody has to connect, ask, leave or broadcast.
HubRuns == part = "hub" /\ ~ hubPanic
HubFairness ==
  /\ WF_hubVars(HubRuns /\ HandleWSBroadcast)
  /\ \A c \in WSClients :
       /\ WF_hubVars(HubRuns /\ Greet(c)) /\ WF_hubVars(HubRuns /\ HandleWSWrite(c))
       /\ WF_hubVars(HubRuns /\ (Confirm(c) \/ ReadFails(c) \/ RemoveWSClient(c)))

\* Nobody in either pool waits for ever.
PoolsProgress == PoolProgress /\ ConnProgress

FairSpec == Init /\ [][Next]_vars /\ WorkerFairness /\ ConnFairness /\ HubFairness
=============================================================================
