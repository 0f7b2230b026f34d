-------------------------- MODULE MCCommandLifecycle --------------------------
(* Instances of CommandLifecycle for TLC. *)
EXTENDS CommandLifecycle, TLC

CONSTANTS c1, c2, w1, w2, k1, k2

\* The Provider of every Command.
WwtiotOnly == [c \in Commands |-> "wwtiot"]
OmniOnly == [c \in Commands |-> "omni"]
SimulatorOnly == [c \in Commands |-> "simulator"]
=============================================================================
