------------------------------ MODULE Notifier ------------------------------
(***************************************************************************)
(* The governance notifier, internal/governance/notifier.go.  The Notify   *)
(* methods make a notification without the lock and store it under it,     *)
(* with one goroutine per enabled handler; the monitor's loops call them   *)
(* at the same time.  Notifications are numbered by their time stamps.     *)
(***************************************************************************)
EXTENDS Integers, FiniteSets, SequencesExt

CONSTANTS
  Handlers,          \* the handlers that may be registered
  HandlerType,       \* GetType of each
  MaxNotifications,  \* n.maxNotifications
  MaxNotifies        \* bound: calls of the Notify methods

ASSUME NotifierAssumption ==
  /\ HandlerType \in [Handlers -> STRING]
  /\ MaxNotifications \in Nat /\ MaxNotifies \in Nat

VARIABLES
  notified,    \* notifications made so far
  unsent,      \* made, and sendNotification not yet entered
  stored,      \* the keys of n.notifications
  read,        \* those that were marked as read
  expired,     \* the notifications up to this one are older than maxAge
  handlers,    \* n.handlers
  enabled,
  handling     \* the goroutines that are to call a handler

notifierVars == <<notified, unsent, stored, read, expired, handlers, enabled, handling>>

NotifierInit ==
  /\ notified = 0 /\ unsent = {} /\ stored = {} /\ read = {} /\ expired = 0
  /\ handlers = <<>> /\ enabled = TRUE /\ handling = {}

\* The notification is made: identity and time stamp.
Notify ==
  /\ notified < MaxNotifies /\ notified' = notified + 1 /\ unsent' = unsent \cup {notified + 1}
  /\ UNCHANGED <<stored, read, expired, handlers, enabled, handling>>

\* A disabled notifier drops it.  A goroutine each for the handlers there are.
SendNotification(n) ==
  /\ n \in unsent /\ unsent' = unsent \ {n}
  /\ IF enabled
     THEN /\ stored' = stored \cup {n}
          /\ handling' = handling \cup {<<h, n>> : h \in ToSet(handlers)}
     ELSE UNCHANGED <<stored, handling>>
  /\ UNCHANGED <<notified, read, expired, handlers, enabled>>

\* Handle is called, at any later time, and its error only logged.
Handle(g) ==
  /\ handling' = handling \ {g}
  /\ UNCHANGED <<notified, unsent, stored, read, expired, handlers, enabled>>

AddHandler(h) ==
  /\ h \notin ToSet(handlers) /\ handlers' = Append(handlers, h)
  /\ UNCHANGED <<notified, unsent, stored, read, expired, enabled, handling>>

\* The first handler of the type.
RemoveHandler(h) ==
  /\ \E i \in DOMAIN handlers :
       /\ handlers[i] = h /\ \A j \in 1..(i - 1) : HandlerType[handlers[j]] # HandlerType[h]
       /\ handlers' = RemoveAt(handlers, i)
  /\ UNCHANGED <<notified, unsent, stored, read, expired, enabled, handling>>

\* Stop and SetEnabled; Start does not change the flag.
SetEnabled ==
  /\ enabled' = ~ enabled
  /\ UNCHANGED <<notified, unsent, stored, read, expired, handlers, handling>>

MarkAsRead ==
  /\ \/ \E n \in stored \ read : read' = read \cup {n}
     \/ stored \ read # {} /\ read' = read \cup stored
  /\ UNCHANGED <<notified, unsent, stored, expired, handlers, enabled, handling>>

Newest(S) == {n \in S : Cardinality({m \in S : m > n}) < MaxNotifications}

\* Mutant: of the rest the oldest stay.
NotifierCleanupOld_Oldest ==
  /\ stored' = {n \in stored : n > expired /\ Cardinality({m \in stored : m < n}) < MaxNotifications}
  /\ read' = read \cap stored'
  /\ UNCHANGED <<notified, unsent, expired, handlers, enabled, handling>>

\* The expired go, and of the rest the newest stay.
NotifierCleanupOld ==
  /\ stored' = Newest({n \in stored : n > expired})
  /\ read' = read \cap stored'
  /\ UNCHANGED <<notified, unsent, expired, handlers, enabled, handling>>

\* External: time passes.
NotifierTime ==
  /\ expired < notified /\ expired' = expired + 1
  /\ UNCHANGED <<notified, unsent, stored, read, handlers, enabled, handling>>

NotifierNext ==
  \/ Notify \/ SetEnabled \/ MarkAsRead \/ NotifierCleanupOld \/ NotifierTime
  \/ \E n \in unsent : SendNotification(n)
  \/ \E g \in handling : Handle(g)
  \/ \E h \in Handlers : AddHandler(h) \/ RemoveHandler(h)

NotifierSpec == NotifierInit /\ [][NotifierNext]_notifierVars

-----------------------------------------------------------------------------
(* Properties.                                                             *)

\* Whatever is removed and whenever it was stored, nothing is lost that has not
\* expired unless maxNotifications newer ones are kept; and what is read or
\* unread stays so for as long as it is there.
NothingLost ==
  [][ /\ \A n \in stored \ stored' :
           n <= expired \/ Cardinality({m \in stored' : m > n}) = MaxNotifications
      /\ read \cap stored' \subseteq read' ]_notifierVars

\* Does not hold: a handler is called after RemoveHandler has returned.
RemovedIsQuiet == \A g \in handling : g[1] \in ToSet(handlers)

\* Does not hold: a notification is handled when it was cleaned up long ago.
HandledIsStored == \A g \in handling : g[2] \in stored
=============================================================================
