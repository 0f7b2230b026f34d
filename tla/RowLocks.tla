-------------------------------- MODULE RowLocks --------------------------------
(***************************************************************************)
(* The locks of PostgreSQL that the services rely on: row locks and        *)
(* transaction-scoped advisory locks, held until the transaction ends.     *)
(* Shared by the modules whose requests are transactions.                  *)
(***************************************************************************)
EXTENDS Integers, Sequences, FiniteSets

\* Row locks, weakest first; "advisory" locks are exclusive.  An INSERT that waits
\* for another one of the same unique key is an advisory lock on the key.
Modes == {"key_share", "share", "no_key_update", "update", "advisory"}
Conflict(m, n) ==
    \/ "update" \in {m, n} \/ m = "advisory"
    \/ m = "no_key_update" /\ n \in {"no_key_update", "share"}
    \/ m = "share" /\ n = "no_key_update"

Lock(row, mode) == [row |-> row, mode |-> mode]

\* The holders, among the locks held, that keep r from the lock l.
LockedBy(held, r, l) ==
    {k.by : k \in {k \in held : k.row = l.row /\ k.by # r /\ Conflict(k.mode, l.mode)}}

\* Rows locked one after another in the order of their ids.
InOrder(rank, rows, mode) ==
    [i \in 1 .. Cardinality(rows) |->
        Lock(CHOOSE x \in rows : Cardinality({y \in rows : rank[y] <= rank[x]}) = i, mode)]

\* r is part of a cycle of waits.
InCycle(waitsFor, r) ==
    \E S \in SUBSET DOMAIN waitsFor : r \in S /\ \A s \in S : waitsFor[s] \cap S # {}

=============================================================================
