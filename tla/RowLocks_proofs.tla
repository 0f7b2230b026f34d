----------------------------- MODULE RowLocks_proofs -----------------------------
(***************************************************************************)
(* What the transactions of ProjectAccess and DeviceIntake rely on when    *)
(* they ask for their locks one after another.                             *)
(***************************************************************************)
EXTENDS RowLocks, FiniteSetTheorems, SequenceTheorems, TLAPS

\* A lock that has still to be asked for.
Pending(todo, row, mode) == \E i \in 1 .. Len(todo) : todo[i] = Lock(row, mode)

\* Two rows locked in the order of their ids are both locked.
LEMMA InOrderPair ==
    ASSUME NEW rank, NEW a, NEW b, NEW mode, rank[a] \in Nat, rank[b] \in Nat, a # b => rank[a] # rank[b]
    PROVE  /\ InOrder(rank, {a, b}, mode) \in Seq({Lock(a, mode), Lock(b, mode)})
           /\ Pending(InOrder(rank, {a, b}, mode), a, mode)
           /\ Pending(InOrder(rank, {a, b}, mode), b, mode)
  <1> DEFINE S == {a, b}
             below(x) == {y \in S : rank[y] <= rank[x]}
             pick(i) == CHOOSE x \in S : Cardinality(below(x)) = i
             s == InOrder(rank, S, mode)
  <1>1. s = [i \in 1 .. Cardinality(S) |-> Lock(pick(i), mode)]
    BY DEF InOrder
  <1>2. CASE a = b
    <2>1. S = {a} /\ below(a) = {a}
      BY <1>2
    <2>2. Cardinality(S) = 1 /\ Cardinality(below(a)) = 1
      BY <2>1, FS_Singleton
    <2>3. pick(1) = a
      BY <2>1, <2>2
    <2>4. s = [i \in 1 .. 1 |-> Lock(pick(i), mode)]
      BY <1>1, <2>2
    <2> HIDE DEF S, pick, s
    <2>5. s \in Seq({Lock(a, mode), Lock(b, mode)}) /\ Len(s) = 1 /\ s[1] = Lock(a, mode)
      BY <2>3, <2>4
    <2>6. /\ s \in Seq({Lock(a, mode), Lock(b, mode)})
          /\ \E i \in 1 .. Len(s) : s[i] = Lock(a, mode)
          /\ \E i \in 1 .. Len(s) : s[i] = Lock(b, mode)
      BY <1>2, <2>5
    <2> QED
      BY <2>6 DEF s, S, Pending
  <1>3. CASE a # b
    <2> DEFINE lo == IF rank[a] < rank[b] THEN a ELSE b
               hi == IF rank[a] < rank[b] THEN b ELSE a
    <2>1. S = {lo, hi} /\ lo # hi /\ rank[lo] < rank[hi] /\ rank[lo] \in Nat /\ rank[hi] \in Nat
      BY <1>3
    <2>2. below(lo) = {lo} /\ below(hi) = {lo, hi}
      <3> HIDE DEF lo, hi, S
      <3> QED
        BY <2>1
    <2> HIDE DEF lo, hi
    <2>3. Cardinality({lo}) = 1 /\ Cardinality({lo, hi}) = 2
      <3>1. IsFiniteSet({lo}) /\ Cardinality({lo}) = 1
        BY FS_Singleton
      <3>2. {lo, hi} = {lo} \cup {hi} /\ hi \notin {lo}
        BY <2>1
      <3>3. Cardinality({lo} \cup {hi}) = Cardinality({lo}) + 1
        BY <3>1, <3>2, FS_AddElement
      <3> QED
        BY <3>1, <3>2, <3>3
    <2>4. pick(1) = lo /\ pick(2) = hi
      <3> HIDE DEF S
      <3>1. \A x \in S : Cardinality(below(x)) = 1 <=> x = lo
        BY <2>1, <2>2, <2>3
      <3>2. \A x \in S : Cardinality(below(x)) = 2 <=> x = hi
        BY <2>1, <2>2, <2>3
      <3> HIDE DEF below
      <3> QED
        BY <2>1, <3>1, <3>2
    <2>5. s = [i \in 1 .. 2 |-> Lock(pick(i), mode)]
      BY <1>1, <2>1, <2>3
    <2> HIDE DEF S, pick, s
    <2>6. s = [i \in 1 .. 2 |-> IF i = 1 THEN Lock(lo, mode) ELSE Lock(hi, mode)]
      BY <2>4, <2>5
    <2>7. Len(s) = 2 /\ s[1] = Lock(lo, mode) /\ s[2] = Lock(hi, mode)
          /\ s \in Seq({Lock(lo, mode), Lock(hi, mode)})
      BY <2>6
    <2>8. (lo = a /\ hi = b) \/ (lo = b /\ hi = a)
      BY DEF lo, hi
    <2>9. /\ s \in Seq({Lock(a, mode), Lock(b, mode)})
          /\ \E i \in 1 .. Len(s) : s[i] = Lock(a, mode)
          /\ \E i \in 1 .. Len(s) : s[i] = Lock(b, mode)
      <3>1. {Lock(lo, mode), Lock(hi, mode)} = {Lock(a, mode), Lock(b, mode)}
        BY <2>8
      <3>2. 1 \in 1 .. Len(s) /\ 2 \in 1 .. Len(s)
        BY <2>7
      <3> QED
        BY <2>7, <2>8, <3>1, <3>2
    <2> QED
      BY <2>9 DEF s, S, Pending
  <1> QED
    BY <1>2, <1>3

\* After a request either the lock was the one asked for, or it is still to come.
LEMMA TailPending ==
    ASSUME NEW L, NEW todo \in Seq(L), todo # <<>>, NEW row, NEW mode, Pending(todo, row, mode)
    PROVE  /\ Head(todo) \in L /\ Tail(todo) \in Seq(L)
           /\ Head(todo) = Lock(row, mode) \/ Pending(Tail(todo), row, mode)
  <1>1. PICK i \in 1 .. Len(todo) : todo[i] = Lock(row, mode)
    BY DEF Pending
  <1>2. Head(todo) \in L /\ Tail(todo) \in Seq(L)
    OBVIOUS
  <1>3. CASE i = 1
    BY <1>1, <1>2, <1>3
  <1>4. CASE i # 1
    <2>1. i - 1 \in 1 .. Len(Tail(todo)) /\ Tail(todo)[i - 1] = todo[i]
      BY <1>4
    <2> QED
      BY <1>1, <1>2, <2>1 DEF Pending
  <1> QED
    BY <1>3, <1>4

=============================================================================
