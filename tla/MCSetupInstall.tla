---------------------------- MODULE MCSetupInstall ----------------------------
(* Instances of SetupInstall for TLC. *)
EXTENDS SetupInstall, TLC

CONSTANTS p1, p2, r1, r2, d1, d2, i1, i2, i3, i4

\* Two hosts with one database: a fresh one and one with a configuration.
OwnDirectory == (p1 :> d1) @@ (p2 :> d2)
PriorConfigs == (d1 :> "prior") @@ (d2 :> "absent")
=============================================================================
