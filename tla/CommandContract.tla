---------------------------- MODULE CommandContract ----------------------------
(***************************************************************************)
(* What the platform promises the caller of a Command: the Command stays   *)
(* open until it is either withdrawn, and then nothing is ever sent for    *)
(* it, or committed, and then its one request may leave at any later time, *)
(* even after the Command was closed (an adapter call cannot be recalled). *)
(***************************************************************************)
EXTENDS Naturals

CONSTANT Commands

VARIABLES
    stage,  \* "new", "open", "withdrawn", "committed" or "closed"
    sends   \* requests that left for the Device

vars == <<stage, sends>>

Stages == {"new", "open", "withdrawn", "committed", "closed"}

Init ==
    /\ stage = [c \in Commands |-> "new"]
    /\ sends = [c \in Commands |-> 0]

Move(c, from, to) ==
    /\ stage[c] = from
    /\ stage' = [stage EXCEPT ![c] = to]
    /\ UNCHANGED sends

Accept(c) == Move(c, "new", "open")
Withdraw(c) == Move(c, "open", "withdrawn")
Commit(c) == Move(c, "open", "committed")
Close(c) == Move(c, "committed", "closed")

Send(c) ==
    /\ stage[c] \in {"committed", "closed"}
    /\ sends[c] = 0
    /\ sends' = [sends EXCEPT ![c] = 1]
    /\ UNCHANGED stage

Next == \E c \in Commands : Accept(c) \/ Withdraw(c) \/ Commit(c) \/ Close(c) \/ Send(c)

Spec == Init /\ [][Next]_vars
=============================================================================
