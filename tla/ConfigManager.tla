--------------------------- MODULE ConfigManager ----------------------------
(***************************************************************************)
(* The configuration manager: internal/config/manager.go with the rules of *)
(* validator.go, the templates and the migrator.  The same settings are    *)
(* kept in four places: the file, the two structs that are saved (stored), *)
(* and the merged Config that GetConfig hands out (live).  Of each kind of *)
(* field there is one: port goes both ways, health only from stored to     *)
(* live, net is never merged, addr is made from port by the merge, and     *)
(* gens, the fields that migrations fill in, is in live only.              *)
(* m.mu is held for one action.                                            *)
(***************************************************************************)
EXTENDS Integers, Sequences

CONSTANTS
  QueueSize,  \* the capacity of updateCh
  Versions,   \* the versions that Migrate is asked for
  MaxCalls,   \* bound: UpdateConfig, ApplyTemplate and Migrate
  MaxEdits,   \* bound: changes of the file by others
  MaxBinds    \* bound: times a port is taken or freed

Unset  == 0    \* the zero value of a field
Absent == -1   \* a key that is not in the file
Short  == 9    \* a health check interval below 5 s
Ports  == {1, 2}
Healths == {1, 2, Short}

Missing == [kind |-> "missing"]
Garbled == [kind |-> "garbled"]
Holds(s) == [kind |-> "config", config |-> s]
Stored == [port : Ports \cup {Unset}, health : Healths \cup {Unset}, net : {1, 2}]

\* Versions 0.1 to 0.7 and 1.0; 0.2.1 stands for those getNextVersion does
\* not list.
Listed   == <<10, 20, 30, 40, 50, 60, 70, 100>>
Unlisted == {21}

ASSUME ConfigAssumption ==
  /\ QueueSize \in Nat \ {0} /\ Versions \subseteq {Listed[i] : i \in DOMAIN Listed} \cup Unlisted
  /\ MaxCalls \in Nat /\ MaxEdits \in Nat /\ MaxBinds \in Nat

VARIABLES
  confFile,     \* the file: missing, garbled, or the fields it holds
  stored,       \* m.wemixvisorConfig and m.nodeConfig
  live,         \* *m.mergedConfig
  fsEvents,     \* events of the file that watchLoop has not received
  confPhase,    \* "loaded", "running", and in Stop "cancelled", "closed"
  watchLoop,    \* "none", "idle", "handling", "ended"
  updates,      \* the number of updates in updateCh
  confPanic,    \* an update was sent on the closed channel
  boundPorts,   \* the ports something listens on
  confCalls, edits, binds,
  told,         \* ghost: the configuration of the last update, or none
  untold,       \* ghost: an update was dropped, or lost to Stop
  unseen,       \* ghost: the file was changed before it was watched
  gaps          \* ghost: the versions from which a migration left one out

confVars == <<confFile, stored, live, fsEvents, confPhase, watchLoop, updates, confPanic,
              boundPorts, confCalls, edits, binds, told, untold, unseen, gaps>>

toldVars == <<updates, confPanic, told, untold>>

-----------------------------------------------------------------------------
(* Validator, merge and split.                                             *)

Available(p) == p \notin boundPorts

PortsValid(m)     == m.port # Unset => Available(m.port)
NetworkValid(m)   == m.addr # Unset   \* the port of the address is in range
ResourcesValid(m) == m.health # Short
Valid(m)          == PortsValid(m) /\ NetworkValid(m) /\ ResourcesValid(m)

MergeConfigs(s) == [port |-> s.port, addr |-> s.port, health |-> s.health, gens |-> {}]

SplitConfig(s, m) == [s EXCEPT !.port = m.port]

Defaults == [port |-> 1, health |-> 1, net |-> 2]

\* Unmarshal into the structs there are: a missing key changes nothing.
Unmarshal(f, s) ==
  [k \in DOMAIN s |-> IF f[k] = Absent THEN s[k] ELSE f[k]]

-----------------------------------------------------------------------------
(* Templates and migrations.                                               *)

\* The default templates; devnet sets the fields that testnet sets, and rpc
\* those of validator.
TemplateValues ==
  [mainnet   |-> [port |-> 2,     health |-> Unset, net |-> 1],
   testnet   |-> [port |-> 1,     health |-> Unset, net |-> 2],
   validator |-> [port |-> Unset, health |-> 2,     net |-> Unset],
   archive   |-> [port |-> Unset, health |-> Unset, net |-> Unset]]
TemplateNames == DOMAIN TemplateValues \cup {"unknown"}

\* What a template does not name stays.
ApplyTemplateValues(t, s) ==
  [k \in DOMAIN s |-> IF TemplateValues[t][k] = Unset THEN s[k] ELSE TemplateValues[t][k]]

GetNextVersion(current, target) ==
  LET after == {Listed[i + 1] : i \in {j \in 1..(Len(Listed) - 1) : Listed[j] = current}}
  IN  IF \E v \in after : v <= target THEN CHOOSE v \in after : TRUE ELSE target

\* The step between two versions: the registered migration, or the generic one.
MigrateStep(from, to, m) ==
  CASE <<from, to>> = <<10, 20>> -> [m EXCEPT !.gens = @ \cup {20}]
    [] <<from, to>> = <<20, 30>> -> [m EXCEPT !.gens = @ \cup {30}]
    [] <<from, to>> = <<30, 40>> ->
         [m EXCEPT !.health = IF @ = Unset THEN 1 ELSE @,
                   !.port = IF @ # Unset THEN @ ELSE IF m.addr # Unset THEN m.addr ELSE 1,
                   !.gens = @ \cup {40}]
    [] <<from, to>> = <<40, 50>> -> [m EXCEPT !.gens = @ \cup {50}]
    [] OTHER -> m

\* The versions between the two that a registered migration leads to.
Registered(from, to) == {v \in {20, 30, 40, 50} : from < v /\ v <= to}

MigratePath(from, to, m) ==
  LET Step[n \in 0..Len(Listed)] ==
        IF n = 0 THEN [at |-> from, config |-> m]
        ELSE LET before == Step[n - 1]
                 next   == GetNextVersion(before.at, to)
             IN  IF before.at = to THEN before
                 ELSE [at |-> next, config |-> MigrateStep(before.at, next, before.config)]
  IN  Step[Len(Listed)].config

-----------------------------------------------------------------------------
(* Saving, notifying and loading.                                          *)

\* Mutant: only Write events are looked at, and a rename makes a Create event.
Saved_WritesOnly(s) == confFile' = Holds(s) /\ fsEvents' = fsEvents

\* Outcomes of saveConfig: a temporary file is written and renamed, or not.
Saved(s) ==
  /\ confFile' = Holds(s)
  /\ fsEvents' = fsEvents + (IF confPhase \in {"running", "cancelled"} THEN 1 ELSE 0)
SaveFails == UNCHANGED <<confFile, fsEvents>>

\* The select of notifyUpdate.  Once the context is cancelled any ready case
\* may be taken, a send on the closed channel, which panics, among them.
NotifyUpdate(new) ==
  \/ /\ confPhase # "closed" /\ updates < QueueSize
     /\ updates' = updates + 1 /\ told' = new
     /\ UNCHANGED <<confPanic, untold>>
  \/ /\ confPhase = "closed" /\ confPanic' = TRUE
     /\ UNCHANGED <<updates, told, untold>>
  \/ /\ confPhase \in {"cancelled", "closed"}
     /\ untold' = TRUE /\ UNCHANGED <<updates, confPanic, told>>
  \/ /\ confPhase \in {"loaded", "running"} /\ updates = QueueSize
     /\ untold' = TRUE /\ UNCHANGED <<updates, confPanic, told>>

NoConfig == [config |-> "none"]
ToldConfig(m) == [config |-> "new", value |-> m]

ConfInit ==
  /\ stored = [port |-> 1, health |-> Unset, net |-> 2]
  /\ confFile = Holds([stored EXCEPT !.health = Absent])
  /\ live = MergeConfigs(stored)
  /\ fsEvents = 0 /\ confPhase = "loaded" /\ watchLoop = "none"
  /\ updates = 0 /\ confPanic = FALSE /\ boundPorts = {}
  /\ confCalls = 0 /\ edits = 0 /\ binds = 0
  /\ told = ToldConfig(live) /\ untold = FALSE /\ unseen = FALSE
  /\ gaps = {}

\* NewManager has loaded the file; from now on its directory is watched.
StartWatching ==
  /\ confPhase = "loaded"
  /\ confPhase' = "running" /\ watchLoop' = "idle"
  /\ UNCHANGED <<confFile, stored, live, fsEvents, toldVars, boundPorts, confCalls, edits,
                 binds, unseen, gaps>>

\* Nobody calls a manager whose Stop has returned.
Call ==
  /\ confPhase \in {"running", "cancelled"} /\ ~ confPanic
  /\ confCalls < MaxCalls /\ confCalls' = confCalls + 1
  /\ UNCHANGED <<confPhase, watchLoop, boundPorts, edits, binds, unseen>>

\* Settings by UpdateConfig: in both kinds of fields, and in one of live only.
FieldUpdates ==
  {[live EXCEPT !.port = p] : p \in Ports \cup {Unset}}
    \cup {[live EXCEPT !.health = h] : h \in Healths}
    \cup {[live EXCEPT !.gens = @ \cup {50}]}

UpdateConfig ==
  /\ Call /\ UNCHANGED gaps
  /\ \E m \in FieldUpdates :
       /\ stored' = SplitConfig(stored, m)
       /\ \/ Valid(m) /\ live' = m /\ Saved(stored') /\ NotifyUpdate(ToldConfig(m))
          \/ Valid(m) /\ UNCHANGED <<live, toldVars>> /\ SaveFails
          \/ ~ Valid(m) /\ UNCHANGED <<live, confFile, fsEvents, toldVars>>

ApplyTemplate ==
  /\ Call /\ UNCHANGED gaps
  /\ \E t \in TemplateNames :
       IF t = "unknown" THEN UNCHANGED <<stored, live, confFile, fsEvents, toldVars>>
       ELSE /\ stored' = ApplyTemplateValues(t, stored)
            /\ LET m == MergeConfigs(stored')
               IN  \/ Valid(m) /\ live' = m /\ Saved(stored') /\ NotifyUpdate(ToldConfig(m))
                   \/ Valid(m) /\ UNCHANGED <<live, toldVars>> /\ SaveFails
                   \/ ~ Valid(m) /\ UNCHANGED <<live, confFile, fsEvents, toldVars>>

Migrate ==
  /\ Call
  /\ \E from, to \in Versions :
       LET m == MigratePath(from, to, live)
       IN  IF from > to \/ ~ Valid(m)
           THEN UNCHANGED <<stored, live, confFile, fsEvents, toldVars, gaps>>
           ELSE /\ stored' = SplitConfig(stored, m)
                /\ \/ /\ live' = m /\ Saved(stored') /\ NotifyUpdate(ToldConfig(m))
                      /\ gaps' = IF Registered(from, to) \subseteq m.gens THEN gaps
                                 ELSE gaps \cup {from}
                   \/ UNCHANGED <<live, toldVars, gaps>> /\ SaveFails

\* Mutant: an update that is not valid is not put in force.
HandleConfigChange_Validates ==
  /\ watchLoop = "handling" /\ watchLoop' = "idle" /\ ~ confPanic
  /\ \/ /\ confFile = Missing
        /\ stored' = Defaults /\ live' = MergeConfigs(Defaults)
        /\ \/ Saved(Defaults) /\ NotifyUpdate(ToldConfig(live'))
           \/ SaveFails /\ NotifyUpdate(NoConfig)
     \/ /\ confFile = Garbled
        /\ NotifyUpdate(NoConfig) /\ UNCHANGED <<stored, live, confFile, fsEvents>>
     \/ /\ confFile \notin {Missing, Garbled}
        /\ stored' = Unmarshal(confFile.config, stored)
        /\ live' = IF Valid(MergeConfigs(stored')) THEN MergeConfigs(stored') ELSE live
        /\ NotifyUpdate(IF live' # live THEN ToldConfig(live') ELSE NoConfig)
        /\ UNCHANGED <<confFile, fsEvents>>
  /\ UNCHANGED <<confPhase, boundPorts, confCalls, edits, binds, unseen, gaps>>

\* loadConfig puts the configuration in force before it is validated.
HandleConfigChange ==
  /\ watchLoop = "handling" /\ watchLoop' = "idle" /\ ~ confPanic
  /\ \/ /\ confFile = Missing
        /\ stored' = Defaults /\ live' = MergeConfigs(Defaults)
        /\ \/ Saved(Defaults) /\ NotifyUpdate(ToldConfig(live'))
           \/ SaveFails /\ NotifyUpdate(NoConfig)
     \/ /\ confFile = Garbled
        /\ NotifyUpdate(NoConfig) /\ UNCHANGED <<stored, live, confFile, fsEvents>>
     \/ /\ confFile \notin {Missing, Garbled}
        /\ stored' = Unmarshal(confFile.config, stored)
        /\ live' = MergeConfigs(stored')
        /\ NotifyUpdate(IF Valid(live') THEN ToldConfig(live') ELSE NoConfig)
        /\ UNCHANGED <<confFile, fsEvents>>
  /\ UNCHANGED <<confPhase, boundPorts, confCalls, edits, binds, unseen, gaps>>

\* The select of watchLoop: an event, or the cancelled context.
WatchEvent ==
  /\ watchLoop = "idle" /\ confPhase \in {"running", "cancelled"} /\ fsEvents > 0
  /\ fsEvents' = fsEvents - 1 /\ watchLoop' = "handling"
  /\ UNCHANGED <<confFile, stored, live, confPhase, toldVars, boundPorts, confCalls, edits,
                 binds, unseen, gaps>>

WatchEnds ==
  /\ watchLoop = "idle" /\ confPhase \in {"cancelled", "closed"}
  /\ watchLoop' = "ended"
  /\ UNCHANGED <<confFile, stored, live, fsEvents, confPhase, toldVars, boundPorts, confCalls,
                 edits, binds, unseen, gaps>>

\* cancel() and watcher.Close(), then close(updateCh); watchLoop is not waited
\* for.
ConfStop ==
  /\ \/ confPhase = "running"   /\ confPhase' = "cancelled"
     \/ confPhase = "cancelled" /\ confPhase' = "closed"
  /\ UNCHANGED <<confFile, stored, live, fsEvents, watchLoop, toldVars, boundPorts, confCalls,
                 edits, binds, unseen, gaps>>

ReceiveUpdate ==
  /\ updates > 0 /\ updates' = updates - 1
  /\ UNCHANGED <<confFile, stored, live, fsEvents, confPhase, watchLoop, confPanic, boundPorts,
                 confCalls, edits, binds, told, untold, unseen, gaps>>

\* Others truncate, write or remove the file.
EditFile ==
  /\ edits < MaxEdits /\ edits' = edits + 1
  /\ confFile' \in {Missing, Garbled}
       \cup {Holds([port |-> 2, health |-> h, net |-> 2]) : h \in {Short, Absent}}
  /\ confFile' # confFile
  /\ fsEvents' = fsEvents + (IF confPhase \in {"running", "cancelled"} /\ confFile' # Missing
                             THEN 1 ELSE 0)
  /\ unseen' = (unseen \/ confPhase = "loaded")
  /\ UNCHANGED <<stored, live, confPhase, watchLoop, toldVars, boundPorts, confCalls, binds,
                 gaps>>

\* A port is taken by another program, or by the node itself, or freed.
BindPort ==
  /\ binds < MaxBinds /\ binds' = binds + 1
  /\ \E p \in Ports : boundPorts' = IF p \in boundPorts THEN boundPorts \ {p}
                                    ELSE boundPorts \cup {p}
  /\ UNCHANGED <<confFile, stored, live, fsEvents, confPhase, watchLoop, toldVars, confCalls,
                 edits, unseen, gaps>>

ConfNext ==
  \/ StartWatching \/ UpdateConfig \/ ApplyTemplate \/ Migrate
  \/ WatchEvent \/ HandleConfigChange \/ WatchEnds \/ ConfStop
  \/ ReceiveUpdate \/ EditFile \/ BindPort

-----------------------------------------------------------------------------
(* Properties.                                                             *)

\* What the places can hold: a key may be absent from the file, a field may be unset.
PortValues == Ports \cup {Unset}
HealthValues == Healths \cup {Unset}
Filled == {20, 30, 40, 50}
FileConfig == [port : PortValues, health : HealthValues \cup {Absent}, net : {1, 2}]
FileValues == {Missing, Garbled} \cup {Holds(c) : c \in FileConfig}
LiveType == [port : PortValues, addr : PortValues, health : HealthValues, gens : SUBSET Filled]

\* Each place holds a value of its kind, and the counters keep their bounds.
ConfTypeOK ==
  /\ confFile \in FileValues /\ stored \in Stored /\ live \in LiveType
  /\ fsEvents \in Nat /\ confPhase \in {"loaded", "running", "cancelled", "closed"}
  /\ watchLoop \in {"none", "idle", "handling", "ended"}
  /\ updates \in 0..QueueSize /\ confPanic \in BOOLEAN /\ boundPorts \subseteq Ports
  /\ confCalls \in 0..MaxCalls /\ edits \in 0..MaxEdits /\ binds \in 0..MaxBinds
  /\ gaps \subseteq Versions /\ untold \in BOOLEAN /\ unseen \in BOOLEAN

\* The configuration in force has the values that the file has.
FollowsFile ==
  confFile.kind = "config" =>
    /\ confFile.config.health \in {Absent, live.health}
    /\ confFile.config.port = live.port /\ confFile.config.port = live.addr

\* When watchLoop has no event left, the configuration in force is that of the
\* file, whatever was refused, saved in part or edited before (handleConfigChange).
QuietAgrees ==
  (confPhase = "running" /\ watchLoop = "idle" /\ fsEvents = 0 /\ ~ unseen) => FollowsFile

\* Who reads updateCh and misses nothing knows the configuration in force, or
\* was told that it cannot be loaded.
ToldInForce ==
  (~ untold /\ ~ confPanic) => told \in {NoConfig, ToldConfig(live)}

\* A migration from a listed version applies every registered migration between
\* the two versions (Migrate, "Apply migrations in sequence").
MigrationComplete == gaps \subseteq Unlisted

ConfigInv == ConfTypeOK /\ QuietAgrees /\ ToldInForce /\ MigrationComplete

\* Again and again the configuration in force is that of the file, unless the
\* manager is stopped: changes reach it, and what the file does not hold, the
\* one-way fields, is undone (watchLoop).
ConfigFollowsFile == []<>(confPhase \notin {"loaded", "running"} \/ confPanic \/ unseen
                            \/ FollowsFile)

\* What the code's own test expects after Migrate: the version that a migration
\* has filled in stays while nobody calls the manager or edits the file.
MigrationStays ==
  [][edits = 0 /\ confCalls' = confCalls => live.gens \subseteq live'.gens]_confVars

\* "Rollback on validation failure": what was refused is not saved later.
RefusedIsForgotten ==
  [][UpdateConfig /\ confFile' # confFile /\ confFile.kind = "config" =>
       confFile'.config.net = confFile.config.net]_confVars

\* What a reload has refused is not in force ("failed to reload config").
InForceIsValid == (told = NoConfig /\ boundPorts = {}) => Valid(live)

\* "Apply migrations in sequence", from any version.
MigrationFromAny == gaps = {}

\* Stop leaves no sender behind.
ConfigNoPanic == ~ confPanic

\* What UpdateConfig has accepted can be loaded again.
AcceptedIsLoadable ==
  [][UpdateConfig /\ live' # live => MergeConfigs(stored').addr # Unset]_confVars

ConfSpec == ConfInit /\ [][ConfNext]_confVars
ConfFairSpec ==
  /\ ConfSpec /\ WF_confVars(StartWatching)
  /\ WF_confVars(WatchEvent) /\ WF_confVars(HandleConfigChange)
=============================================================================
