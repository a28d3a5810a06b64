-------------------------- MODULE MCProcessManager --------------------------
(* Bounded instances of ProcessManager for TLC.                            *)
EXTENDS ProcessManager

CONSTANTS v1, v2   \* two upgrades
=============================================================================
