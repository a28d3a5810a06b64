---------------------------- MODULE WebSocketHub ----------------------------
(***************************************************************************)
(* The WebSocket side of the API server, internal/api/server.go: clients   *)
(* are registered, subscribe to topics, get what is broadcast, and are     *)
(* removed.  A client is served by a reader and a writer goroutine; one    *)
(* goroutine works off the broadcasts.  wsClientsMu is held for one action *)
(* by who writes, and by the broadcaster during a round; client.mu is held *)
(* by the reader while it subscribes and confirms.                         *)
(***************************************************************************)
EXTENDS Integers, Sequences

CONSTANTS
  WSClients,      \* the connections that may be made
  Topics,         \* validTopics
  SendSize,       \* the capacity of client.send
  BroadcastSize,  \* the capacity of wsBroadcast
  MaxBroadcasts,  \* bound: calls of the Broadcast methods
  MaxRequests     \* bound: requests of the clients

ASSUME HubAssumption ==
  /\ SendSize \in Nat \ {0} /\ BroadcastSize \in Nat \ {0}
  /\ MaxBroadcasts \in Nat /\ MaxRequests \in Nat
  /\ "none" \notin Topics

NoTopic == "none"
Welcome == [kind |-> "connected", topic |-> NoTopic]
Message(k, t) == [kind |-> k, topic |-> t]
Messages == {Welcome} \cup
  {Message(k, t) : k \in {"subscribed", "unsubscribed", "update"}, t \in Topics}

VARIABLES
  server,         \* "new", "up", "down"
  registered,     \* the keys of wsClients
  conn,           \* "none", "open", "broken": the peer is gone, "closed"
  sendQ,          \* client.send
  sendClosed,     \* the clients whose send channel is closed
  subscriptions,
  wsReader,       \* "none", "reads", "confirms": holds client.mu, "removes", "ended"
  confirming,     \* the confirmation that the reader is about to send
  wsWriter,       \* "none", "runs", "ended"
  wsBroadcast,    \* the topics of the messages in the channel
  round,          \* the topic being sent, or none; the broadcaster holds wsClientsMu
  todo,           \* the clients of the round still to be looked at
  sending,        \* the client found subscribed, about to be sent to
  broadcasts, requests,
  hubPanic,       \* a message was sent on a closed channel
  sent,           \* ghost: all that was put into each channel
  received,       \* ghost: how much of it the peer has received
  skipped         \* ghost: a confirmation found the channel full

clientVars == <<registered, conn, sendClosed, subscriptions, wsReader, confirming, wsWriter>>
roundVars  == <<wsBroadcast, round, todo, sending>>
sendVars   == <<sendQ, sent, skipped, hubPanic>>
hubVars    == <<server, clientVars, roundVars, sendVars, broadcasts, requests, received>>

HubInit ==
  /\ server = "new" /\ registered = {}
  /\ conn = [c \in WSClients |-> "none"]
  /\ sendQ = [c \in WSClients |-> <<>>] /\ sendClosed = {}
  /\ subscriptions = [c \in WSClients |-> {}]
  /\ wsReader = [c \in WSClients |-> "none"] /\ wsWriter = [c \in WSClients |-> "none"]
  /\ confirming = [c \in WSClients |-> Welcome]
  /\ wsBroadcast = <<>> /\ round = NoTopic /\ todo = {} /\ sending = {}
  /\ broadcasts = 0 /\ requests = 0 /\ hubPanic = FALSE
  /\ sent = [c \in WSClients |-> <<>>] /\ received = [c \in WSClients |-> 0]
  /\ skipped = {}

\* The non-blocking send of writeMessage; on a closed channel it panics.
WriteMessage(c, m) ==
  IF c \in sendClosed THEN hubPanic' = TRUE /\ UNCHANGED <<sendQ, sent, skipped>>
  ELSE IF Len(sendQ[c]) < SendSize
       THEN /\ sendQ' = [sendQ EXCEPT ![c] = Append(@, m)]
            /\ sent' = [sent EXCEPT ![c] = Append(@, m)]
            /\ UNCHANGED <<skipped, hubPanic>>
       ELSE /\ skipped' = IF m.kind = "update" THEN skipped ELSE skipped \cup {c}
            /\ UNCHANGED <<sendQ, sent, hubPanic>>

-----------------------------------------------------------------------------
(* The server and a new connection.                                        *)

ServerStart ==
  /\ server = "new" /\ server' = "up"
  /\ UNCHANGED <<clientVars, roundVars, sendVars, broadcasts, requests, received>>

\* Shutdown waits for requests, and leaves hijacked connections alone.
ServerStop ==
  /\ server = "up" /\ server' = "down"
  /\ UNCHANGED <<clientVars, roundVars, sendVars, broadcasts, requests, received>>

\* handleWebSocket: the connection is upgraded and the client registered.
Register(c) ==
  /\ server = "up" /\ conn[c] = "none" /\ round = NoTopic
  /\ conn' = [conn EXCEPT ![c] = "open"] /\ registered' = registered \cup {c}
  /\ UNCHANGED <<server, sendClosed, subscriptions, wsReader, confirming, wsWriter, roundVars,
                 sendVars, broadcasts, requests, received>>

\* handleWebSocket: the welcome, then the client's two goroutines.
Greet(c) ==
  /\ c \in registered /\ wsReader[c] = "none"
  /\ WriteMessage(c, Welcome)
  /\ wsReader' = [wsReader EXCEPT ![c] = "reads"]
  /\ wsWriter' = [wsWriter EXCEPT ![c] = "runs"]
  /\ UNCHANGED <<server, registered, conn, sendClosed, subscriptions, confirming, roundVars,
                 broadcasts, requests, received>>

-----------------------------------------------------------------------------
(* The reader.                                                             *)

\* A request is read: client.mu is taken and the subscription changed.  An
\* unknown topic or action changes nothing.
HandleWSSubscription(c) ==
  /\ wsReader[c] = "reads" /\ conn[c] = "open"
  /\ requests < MaxRequests /\ requests' = requests + 1
  /\ \E t \in Topics, action \in {"subscribe", "unsubscribe"} :
       /\ subscriptions' = [subscriptions EXCEPT ![c] =
                              IF action = "subscribe" THEN @ \cup {t} ELSE @ \ {t}]
       /\ confirming' = [confirming EXCEPT ![c] =
                           Message(IF action = "subscribe" THEN "subscribed"
                                   ELSE "unsubscribed", t)]
  /\ wsReader' = [wsReader EXCEPT ![c] = "confirms"]
  /\ UNCHANGED <<server, registered, conn, sendClosed, wsWriter, roundVars, sendVars,
                 broadcasts, received>>

\* The confirmation, after which client.mu is released.
Confirm(c) ==
  /\ wsReader[c] = "confirms"
  /\ WriteMessage(c, confirming[c])
  /\ wsReader' = [wsReader EXCEPT ![c] = "reads"]
  /\ confirming' = [confirming EXCEPT ![c] = Welcome]
  /\ UNCHANGED <<server, registered, conn, sendClosed, subscriptions, wsWriter, roundVars,
                 broadcasts, requests, received>>

\* ReadMessage fails: the peer has left, is silent for 60 s, or the connection
\* was closed on this side.
ReadFails(c) ==
  /\ wsReader[c] = "reads" /\ conn[c] # "open"
  /\ wsReader' = [wsReader EXCEPT ![c] = "removes"]
  /\ UNCHANGED <<server, registered, conn, sendClosed, subscriptions, confirming, wsWriter,
                 roundVars, sendVars, broadcasts, requests, received>>

\* Mutant: wsClientsMu is not taken.
RemoveWSClient_NoLock(c) ==
  /\ wsReader[c] = "removes"
  /\ registered' = registered \ {c} /\ sendClosed' = sendClosed \cup {c}
  /\ wsReader' = [wsReader EXCEPT ![c] = "ended"]
  /\ conn' = [conn EXCEPT ![c] = "closed"]
  /\ UNCHANGED <<server, subscriptions, confirming, wsWriter, roundVars, sendVars, broadcasts,
                 requests, received>>

\* removeWSClient and the end of the reader.
RemoveWSClient(c) ==
  /\ wsReader[c] = "removes" /\ round = NoTopic
  /\ registered' = registered \ {c} /\ sendClosed' = sendClosed \cup {c}
  /\ wsReader' = [wsReader EXCEPT ![c] = "ended"]
  /\ conn' = [conn EXCEPT ![c] = "closed"]
  /\ UNCHANGED <<server, subscriptions, confirming, wsWriter, roundVars, sendVars, broadcasts,
                 requests, received>>

-----------------------------------------------------------------------------
(* The writer.                                                             *)

\* A message is taken and written; what is written to a peer that is gone is
\* lost or reported, and after an error the writer closes the connection.
WriteNext(c) ==
  /\ wsWriter[c] = "runs" /\ sendQ[c] # <<>>
  /\ sendQ' = [sendQ EXCEPT ![c] = Tail(@)]
  /\ \/ /\ conn[c] = "open" /\ received' = [received EXCEPT ![c] = @ + 1]
        /\ UNCHANGED <<conn, wsWriter>>
     \/ conn[c] = "broken" /\ UNCHANGED <<conn, wsWriter, received>>
     \/ /\ conn[c] # "open" /\ UNCHANGED received
        /\ wsWriter' = [wsWriter EXCEPT ![c] = "ended"]
        /\ conn' = [conn EXCEPT ![c] = "closed"]
  /\ UNCHANGED <<server, registered, sendClosed, subscriptions, wsReader, confirming, roundVars,
                 sent, skipped, hubPanic, broadcasts, requests>>

\* Mutant: the writer waits for its peer after the channel was closed.
WriterEnds_PingOnly(c) ==
  /\ wsWriter[c] = "runs" /\ conn[c] = "broken"
  /\ wsWriter' = [wsWriter EXCEPT ![c] = "ended"]
  /\ conn' = [conn EXCEPT ![c] = "closed"]
  /\ UNCHANGED <<server, registered, sendClosed, subscriptions, wsReader, confirming, roundVars,
                 sendVars, broadcasts, requests, received>>

\* The channel is closed, or a ping fails.
WriterEnds(c) ==
  /\ wsWriter[c] = "runs"
  /\ (c \in sendClosed /\ sendQ[c] = <<>>) \/ conn[c] # "open"
  /\ wsWriter' = [wsWriter EXCEPT ![c] = "ended"]
  /\ conn' = [conn EXCEPT ![c] = "closed"]
  /\ UNCHANGED <<server, registered, sendClosed, subscriptions, wsReader, confirming, roundVars,
                 sendVars, broadcasts, requests, received>>

\* The peer leaves.
Leave(c) ==
  /\ conn[c] = "open" /\ conn' = [conn EXCEPT ![c] = "broken"]
  /\ UNCHANGED <<server, registered, sendClosed, subscriptions, wsReader, confirming, wsWriter,
                 roundVars, sendVars, broadcasts, requests, received>>

-----------------------------------------------------------------------------
(* Broadcasts.                                                             *)

\* BroadcastMetrics, -Alert, -Log and -Proposal: dropped when the channel is full.
Broadcast ==
  /\ broadcasts < MaxBroadcasts /\ broadcasts' = broadcasts + 1
  /\ \E t \in Topics :
       wsBroadcast' = IF Len(wsBroadcast) < BroadcastSize THEN Append(wsBroadcast, t)
                      ELSE wsBroadcast
  /\ UNCHANGED <<server, clientVars, round, todo, sending, sendVars, requests, received>>

\* handleWSBroadcast receives a message and takes wsClientsMu for reading.
RoundBegin ==
  /\ round = NoTopic /\ wsBroadcast # <<>>
  /\ round' = Head(wsBroadcast) /\ wsBroadcast' = Tail(wsBroadcast)
  /\ todo' = registered
  /\ UNCHANGED <<server, clientVars, sending, sendVars, broadcasts, requests, received>>

\* The subscriptions of the next client are read under client.mu.
LookAt(c) ==
  /\ c \in todo /\ sending = {} /\ wsReader[c] # "confirms"
  /\ todo' = todo \ {c}
  /\ sending' = IF round \in subscriptions[c] THEN {c} ELSE {}
  /\ UNCHANGED <<server, clientVars, wsBroadcast, round, sendVars, broadcasts, requests,
                 received>>

SendUpdate(c) ==
  /\ c \in sending /\ sending' = {}
  /\ WriteMessage(c, Message("update", round))
  /\ UNCHANGED <<server, clientVars, wsBroadcast, round, todo, broadcasts, requests, received>>

RoundEnd ==
  /\ round # NoTopic /\ todo = {} /\ sending = {} /\ round' = NoTopic
  /\ UNCHANGED <<server, clientVars, wsBroadcast, todo, sending, sendVars, broadcasts, requests,
                 received>>

HandleWSBroadcast ==
  RoundBegin \/ RoundEnd \/ \E c \in WSClients : LookAt(c) \/ SendUpdate(c)
HandleWSRead(c) == HandleWSSubscription(c) \/ Confirm(c) \/ ReadFails(c) \/ RemoveWSClient(c)
HandleWSWrite(c) == WriteNext(c) \/ WriterEnds(c)

HubNext ==
  /\ ~ hubPanic
  /\ \/ ServerStart \/ ServerStop \/ Broadcast \/ HandleWSBroadcast
     \/ \E c \in WSClients :
          Register(c) \/ Greet(c) \/ HandleWSRead(c) \/ HandleWSWrite(c) \/ Leave(c)

HubSpec == HubInit /\ [][HubNext]_hubVars

-----------------------------------------------------------------------------
(* Properties.                                                             *)

HubTypeOK ==
  /\ server \in {"new", "up", "down"} /\ registered \subseteq WSClients
  /\ conn \in [WSClients -> {"none", "open", "broken", "closed"}]
  /\ sendQ \in [WSClients -> Seq(Messages)] /\ sent \in [WSClients -> Seq(Messages)]
  /\ \A c \in WSClients : Len(sendQ[c]) <= SendSize
  /\ subscriptions \in [WSClients -> SUBSET Topics]
  /\ wsReader \in [WSClients -> {"none", "reads", "confirms", "removes", "ended"}]
  /\ wsWriter \in [WSClients -> {"none", "runs", "ended"}]
  /\ confirming \in [WSClients -> Messages]
  /\ wsBroadcast \in Seq(Topics) /\ Len(wsBroadcast) <= BroadcastSize
  /\ round \in Topics \cup {NoTopic}
  /\ todo \subseteq WSClients /\ sending \subseteq WSClients
  /\ broadcasts \in 0..MaxBroadcasts /\ requests \in 0..MaxRequests

\* No message is ever sent on a client's channel that removeWSClient has closed,
\* although broadcaster, handler and reader all send without asking.
NoSendOnClosed == ~ hubPanic

\* Who is sent to is registered with an open channel (wsClients and close(send)).
OpenWhileRegistered ==
  /\ registered \cap sendClosed = {}
  /\ todo \cup sending \subseteq registered

\* The welcome comes first (handleWebSocket), whatever is broadcast meanwhile.
WelcomeFirst ==
  \A c \in WSClients : sent[c] # <<>> => sent[c][1] = Welcome

\* A client gets updates of a topic after the confirmation of its subscription
\* only, unless that found the channel full (handleWSSubscription).
ConfirmedFirst ==
  \A c \in WSClients \ skipped : \A i \in DOMAIN sent[c] :
    sent[c][i].kind = "update" =>
      \E j \in 1..(i - 1) : sent[c][j] = Message("subscribed", sent[c][i].topic)

HubInv ==
  HubTypeOK /\ NoSendOnClosed /\ OpenWhileRegistered /\ WelcomeFirst /\ ConfirmedFirst

\* A connection that is lost is removed, and both its goroutines end
\* (handleWSRead, handleWSWrite); every round of the broadcaster ends.
HubProgress ==
  /\ \A c \in WSClients :
       []<>(conn[c] \in {"broken", "closed"} =>
              c \notin registered /\ wsReader[c] = "ended" /\ wsWriter[c] = "ended")
  /\ []<>(round = NoTopic)

\* "Stop stops the API server": nothing is sent to clients afterwards.
StopEndsUpdates ==
  [][server = "down" => \A c \in WSClients : received'[c] = received[c]]_hubVars

\* An unsubscribed topic is quiet once that is confirmed (handleWSSubscription).
UnsubscribedIsQuiet ==
  \A c \in WSClients : \A i \in DOMAIN sent[c] : \A j \in 1..(i - 1) :
    (sent[c][j].kind = "unsubscribed" /\ sent[c][i] = Message("update", sent[c][j].topic)) =>
      \E k \in (j + 1)..(i - 1) : sent[c][k] = Message("subscribed", sent[c][j].topic)

HubFairSpec ==
  /\ HubSpec
  /\ WF_hubVars(HandleWSBroadcast)
  /\ \A c \in WSClients :
       /\ WF_hubVars(Greet(c)) /\ WF_hubVars(HandleWSWrite(c))
       /\ WF_hubVars(Confirm(c) \/ ReadFails(c) \/ RemoveWSClient(c))
=============================================================================
