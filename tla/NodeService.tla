---------------------------- MODULE NodeService ----------------------------
(***************************************************************************)
(* What the callers of the node manager may rely on, abstractly: the state *)
(* that GetState returns, and how one critical section of the manager may  *)
(* change it.  A node is only started when it is stopped, only a running   *)
(* one is asked to stop, and an exit never overrides a Stop in progress.   *)
(*                                                                         *)
(* NodeManager implements it (IsNodeService), UpgradeSystem uses it.       *)
(***************************************************************************)
VARIABLE state

ServiceInit == state = "Stopped"

Starts     == state = "Stopped" /\ state' = "Running"
StartFails == state = "Stopped" /\ state' = "Error"
StopBegins == state = "Running" /\ state' = "Stopping"

\* The end of Stop, and the reset before a restart.
BecomesStopped == state' = "Stopped"

NodeExits == state # "Stopping" /\ state' \in {"Crashed", "Error"}

ServiceNext == Starts \/ StartFails \/ StopBegins \/ BecomesStopped \/ NodeExits

ServiceSpec == ServiceInit /\ [][ServiceNext]_state
=============================================================================
