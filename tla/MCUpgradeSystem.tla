-------------------------- MODULE MCUpgradeSystem --------------------------
(* Bounded instances of UpgradeSystem for TLC.                             *)
EXTENDS UpgradeSystem, TLC

CONSTANTS p1, p2

\* Two upgrades, due one block apart; or the first of them alone.
TwoNames   == (p1 :> "v1") @@ (p2 :> "v2")
TwoHeights == (p1 :> 2) @@ (p2 :> 3)
OneName    == p1 :> "v1"
OneHeight  == p1 :> 2
=============================================================================
