------------------------ MODULE CommandContract_proofs ------------------------
(***************************************************************************)
(* CommandLifecycle implements CommandContract: the proof that every       *)
(* initial state maps to an initial state of the contract, and every step  *)
(* to a step of the contract or to none.                                   *)
(***************************************************************************)
EXTENDS CommandLifecycle_proofs

Stage == [c \in Commands |-> StageOf(command[c])]

\* A row that leaves the stage of its Command alone is invisible.
LEMMA ContractStutters ==
    ASSUME TypeOK, NEW c \in Commands, NEW row, command' = [command EXCEPT ![c] = row],
           wire' = wire, StageOf(row) = StageOf(command[c])
    PROVE  [Contract!Next]_(Contract!vars)
  <1>1. Stage' = [Stage EXCEPT ![c] = Stage[c]]
    BY DEF Stage, TypeOK
  <1>2. Stage' = Stage
    BY <1>1 DEF Stage
  <1> QED
    BY <1>2 DEF Stage, Contract!vars

\* The edges of the contract.
Edge(from, to) ==
    \/ from = "new" /\ to = "open"
    \/ from = "open" /\ to = "withdrawn"
    \/ from = "open" /\ to = "committed"
    \/ from = "committed" /\ to = "closed"

\* A row that takes its Command along an edge is a step of the contract.
LEMMA ContractMoves ==
    ASSUME TypeOK, NEW c \in Commands, NEW row, command' = [command EXCEPT ![c] = row],
           wire' = wire, Edge(StageOf(command[c]), StageOf(row))
    PROVE  [Contract!Next]_(Contract!vars)
  <1>1. Stage' = [Stage EXCEPT ![c] = StageOf(row)] /\ Stage[c] = StageOf(command[c])
    BY DEF Stage, TypeOK
  <1>2. Contract!Move(c, StageOf(command[c]), StageOf(row))
    BY <1>1 DEF Contract!Move, Stage
  <1>3. Contract!Accept(c) \/ Contract!Withdraw(c) \/ Contract!Commit(c) \/ Contract!Close(c)
    BY <1>2 DEF Edge, Contract!Accept, Contract!Withdraw, Contract!Commit, Contract!Close
  <1> QED
    BY <1>3 DEF Contract!Next

\* The stages, one status at a time.
LEMMA StageCases ==
    ASSUME NEW row
    PROVE  /\ row.status = "none" => StageOf(row) = "new"
           /\ row.status = "queued" => StageOf(row) = "open"
           /\ row.status \in {"sent", "acked"} => StageOf(row) = "committed"
           /\ IsTerminal(row.status) /\ row.reason \in UnsentReasons => StageOf(row) = "withdrawn"
           /\ IsTerminal(row.status) /\ row.reason \notin UnsentReasons => StageOf(row) = "closed"
  <1>1. ASSUME row.status = "none" PROVE StageOf(row) = "new"
    BY <1>1 DEF StageOf, IsTerminal
  <1>2. ASSUME row.status = "queued" PROVE StageOf(row) = "open"
    BY <1>2 DEF StageOf, IsTerminal
  <1>3. ASSUME row.status \in {"sent", "acked"} PROVE StageOf(row) = "committed"
    BY <1>3 DEF StageOf, IsTerminal
  <1>4. ASSUME IsTerminal(row.status), row.reason \in UnsentReasons PROVE StageOf(row) = "withdrawn"
    BY <1>4 DEF StageOf, IsTerminal
  <1>5. ASSUME IsTerminal(row.status), row.reason \notin UnsentReasons PROVE StageOf(row) = "closed"
    BY <1>5 DEF StageOf, IsTerminal
  <1> QED
    BY <1>1, <1>2, <1>3, <1>4, <1>5

\* The stages of the rows that the transactions write.
LEMMA StagesOfRows ==
    ASSUME TypeOK, NEW c \in Commands
    PROVE  /\ \A status, reason, level, evidence :
                 IsTerminal(status) /\ reason \in UnsentReasons =>
                     StageOf(Finished(c, status, reason, level, evidence)) = "withdrawn"
           /\ \A answer : StageOf(RaisedRow(c, answer)) = StageOf(command[c])
           /\ \A answer : FailsCommand(c, answer) => StageOf(FailedRow(c, answer)) = "closed"
           /\ StageOf(Unobserved(c)) = "closed"
           /\ \A outcome \in ResultOutcomes :
                 StageOf(ResultRow(c, outcome)) \in {"committed", "closed"}
           /\ \A outcome : StageOf(LateRow(c, outcome)) = StageOf(command[c])
  <1>0. command[c] \in CommandRows
    BY DEF TypeOK
  <1> USE <1>0 DEF StageOf, CommandRows
  <1>1. \A status, reason, level, evidence :
           IsTerminal(status) /\ reason \in UnsentReasons =>
               StageOf(Finished(c, status, reason, level, evidence)) = "withdrawn"
    BY DEF Finished, IsTerminal
  <1>2. \A answer : StageOf(RaisedRow(c, answer)) = StageOf(command[c])
    BY DEF RaisedRow
  <1>3. \A answer : FailsCommand(c, answer) => StageOf(FailedRow(c, answer)) = "closed"
    BY DEF FailsCommand, FailedRow, Finished, AttemptTransitionMatches, UnsentReasons, PrepareFailures
  <1>4. StageOf(Unobserved(c)) = "closed"
    BY DEF Unobserved, UnsentReasons, PrepareFailures
  <1>5. \A outcome \in ResultOutcomes : StageOf(ResultRow(c, outcome)) \in {"committed", "closed"}
    BY DEF ResultRow, Finished, UnsentReasons, PrepareFailures
  <1>6. \A outcome : StageOf(LateRow(c, outcome)) = StageOf(command[c])
    BY DEF LateRow
  <1> QED
    BY <1>1, <1>2, <1>3, <1>4, <1>5, <1>6

\* Every step of a worker is a contract step or invisible.
LEMMA WorkerStepRefines ==
    ASSUME DispatchInv, NEW w \in Workers, WorkerStep(w)
    PROVE  [Contract!Next]_(Contract!vars)
  <1> DEFINE c == worker[w].cmd
  <1>0. TypeOK /\ (worker[w].pc # "idle" => c \in Commands)
    BY DEF DispatchInv, TypeOK
  <1>1. ASSUME command' = command, wire' = wire
        PROVE  [Contract!Next]_(Contract!vars)
    BY <1>1 DEF Contract!vars
  <1>2. ASSUME NEW outcome, NEW reason, FailQueued(w, outcome, reason), c \in Commands, wire' = wire
        PROVE  [Contract!Next]_(Contract!vars)
    <2> DEFINE row == Finished(c, "failed", reason, "none", "none")
    <2>1. command' = [command EXCEPT ![c] = row] /\ command[c].status = "queued"
      BY <1>2 DEF FailQueued, StatusChanged, Commit
    <2>2. reason \in UnsentReasons
      BY <1>2 DEF FailQueued, PreDispatchCompletionAllowed, UnsentReasons
    <2>3. StageOf(command[c]) = "open" /\ StageOf(row) = "withdrawn"
      BY <1>0, <1>2, <2>1, <2>2, StagesOfRows, StageCases DEF IsTerminal
    <2>4. Edge(StageOf(command[c]), StageOf(row))
      BY <2>3 DEF Edge
    <2> HIDE DEF row
    <2> QED
      BY <1>0, <1>2, <2>1, <2>4, ContractMoves
  <1>3. CASE FailBeforeDispatch(w) \/ FailNotOnline(w)
    BY <1>0, <1>2, <1>3 DEF FailBeforeDispatch, FailNotOnline
  <1>4. CASE MarkDispatching(w)
    <2> DEFINE row == [command[c] EXCEPT !.status = "sent", !.sentAt = worker[w].now]
    <2>1. /\ command' = [command EXCEPT ![c] = row] /\ wire' = wire
          /\ command[c].status = "queued" /\ c \in Commands
      BY <1>0, <1>4 DEF MarkDispatching, StatusChanged, Commit
    <2>2. command[c] \in CommandRows
      BY <1>0, <2>1 DEF TypeOK
    <2>3. row.status = "sent"
      BY <2>2 DEF CommandRows
    <2>4. StageOf(command[c]) = "open" /\ StageOf(row) = "committed"
      BY <2>1, <2>3, StageCases
    <2>5. Edge(StageOf(command[c]), StageOf(row))
      BY <2>4 DEF Edge
    <2> HIDE DEF row
    <2> QED
      BY <1>0, <2>1, <2>5, ContractMoves
  <1>5. CASE Dispatch(w)
    <2>1. /\ c \in Commands /\ Committed(command[c]) /\ wire[c] = 0
          /\ wire' = [wire EXCEPT ![c] = 1] /\ command' = command
      <3>1. wire' = [wire EXCEPT ![c] = wire[c] + 1] /\ command' = command /\ worker[w].pc = "dispatching"
        BY <1>5 DEF Dispatch
      <3>2. c \in Commands /\ Committed(command[c]) /\ wire[c] = 0
        BY <1>0, <3>1 DEF DispatchInv, SenderInv
      <3>3. wire[c] + 1 = 1
        BY <3>2
      <3> QED
        BY <3>1, <3>2, <3>3
    <2>2. command[c] \in CommandRows
      BY <1>0, <2>1 DEF TypeOK
    <2>3. StageOf(command[c]) \in {"committed", "closed"}
      BY <2>1, <2>2 DEF StageOf, Committed, CommandRows
    <2>4. Contract!Send(c)
      BY <2>1, <2>3 DEF Contract!Send
    <2> QED
      BY <2>1, <2>4 DEF Contract!Next
  <1>6. CASE PersistResult(w)
    <2> DEFINE answer == worker[w].answer
    <2>1. c \in Commands /\ wire' = wire /\ command[c].status = "sent"
      BY <1>0, <1>6 DEF PersistResult, CanComplete
    <2>2. \/ command' = [command EXCEPT ![c] = RaisedRow(c, answer)]
          \/ FailsCommand(c, answer) /\ command' = [command EXCEPT ![c] = FailedRow(c, answer)]
      BY <1>6 DEF PersistResult, StatusChanged, Commit
    <2>3. StageOf(command[c]) = "committed"
      BY <2>1, StageCases
    <2>4. CASE command' = [command EXCEPT ![c] = RaisedRow(c, answer)]
      <3>1. StageOf(RaisedRow(c, answer)) = StageOf(command[c])
        BY <1>0, <2>1, StagesOfRows
      <3> QED
        BY <1>0, <2>1, <2>4, <3>1, ContractStutters
    <2>5. CASE FailsCommand(c, answer) /\ command' = [command EXCEPT ![c] = FailedRow(c, answer)]
      <3>1. Edge(StageOf(command[c]), StageOf(FailedRow(c, answer)))
        BY <1>0, <2>1, <2>3, <2>5, StagesOfRows DEF Edge
      <3> QED
        BY <1>0, <2>1, <2>5, <3>1, ContractMoves
    <2> QED
      BY <2>2, <2>4, <2>5
  <1> QED
    BY <1>1, <1>3, <1>4, <1>5, <1>6
    DEF WorkerStep, ClaimSelect, ClaimNext, BeginFail, BeginCommit, DispatchReturns, Abandon

LEMMA StepRefines ==
    DispatchInv /\ [Next]_vars => [Contract!Next]_(Contract!vars)
  <1> SUFFICES ASSUME DispatchInv, [Next]_vars PROVE [Contract!Next]_(Contract!vars)
    OBVIOUS
  <1>0. TypeOK
    BY DEF DispatchInv
  <1>1. ASSUME command' = command, wire' = wire
        PROVE  [Contract!Next]_(Contract!vars)
    BY <1>1 DEF Contract!vars
  <1>2. ASSUME NEW c \in Commands, Create(c) PROVE [Contract!Next]_(Contract!vars)
    <2> DEFINE Row(t) == [NoCommand EXCEPT !.status = "queued", !.queuedAt = t,
                                          !.dispatchDeadline = t + DispatchDeadline]
    <2>1. PICK t : command' = [command EXCEPT ![c] = Row(t)]
      BY <1>2 DEF Create
    <2>2. command[c].status = "none" /\ wire' = wire
      BY <1>2 DEF Create
    <2>3. Row(t).status = "queued"
      BY DEF NoCommand
    <2>4. StageOf(command[c]) = "new" /\ StageOf(Row(t)) = "open"
      BY <2>2, <2>3, StageCases
    <2>5. Edge(StageOf(command[c]), StageOf(Row(t)))
      BY <2>4 DEF Edge
    <2> HIDE DEF Row
    <2> QED
      BY <1>0, <2>1, <2>2, <2>5, ContractMoves
  <1>3. ASSUME NEW c \in Commands, NEW status, NEW reason, FinishQueued(c, status, reason),
               IsTerminal(status), reason \in UnsentReasons
        PROVE  [Contract!Next]_(Contract!vars)
    <2> DEFINE row == Finished(c, status, reason, "none", "none")
    <2>1. command' = [command EXCEPT ![c] = row] /\ wire' = wire /\ command[c].status = "queued"
      BY <1>3 DEF FinishQueued, StatusChanged, Commit
    <2>2. StageOf(command[c]) = "open" /\ StageOf(row) = "withdrawn"
      BY <1>0, <1>3, <2>1, StagesOfRows, StageCases
    <2>3. Edge(StageOf(command[c]), StageOf(row))
      BY <2>2 DEF Edge
    <2> HIDE DEF row
    <2> QED
      BY <1>0, <2>1, <2>3, ContractMoves
  <1>4. ASSUME NEW c \in Commands, Cancel(c) \/ ExpireNextQueued(c)
        PROVE  [Contract!Next]_(Contract!vars)
    BY <1>3, <1>4 DEF Cancel, ExpireNextQueued, IsTerminal, UnsentReasons
  <1>5. ASSUME NEW c \in Commands, RecoverNext(c) PROVE [Contract!Next]_(Contract!vars)
    <2> DEFINE row == [command[c] EXCEPT !.level = "transport_sent", !.evidence = "unverified"]
    <2>1. command' = [command EXCEPT ![c] = row] /\ wire' = wire
      BY <1>5 DEF RecoverNext, RecoveredRow, Commit
    <2>2. StageOf(row) = StageOf(command[c])
      BY <1>0 DEF StageOf, TypeOK, CommandRows
    <2> HIDE DEF row
    <2> QED
      BY <1>0, <2>1, <2>2, ContractStutters
  <1>6. ASSUME NEW c \in Commands, ExpireNextResultObservation(c)
        PROVE  [Contract!Next]_(Contract!vars)
    <2>1. /\ command' = [command EXCEPT ![c] = Unobserved(c)] /\ wire' = wire
          /\ command[c].status \in {"sent", "acked"}
      BY <1>6 DEF ExpireNextResultObservation, ObservationOver, StatusChanged, Commit
    <2>2. StageOf(command[c]) = "committed" /\ StageOf(Unobserved(c)) = "closed"
      BY <1>0, <2>1, StagesOfRows, StageCases
    <2>3. Edge(StageOf(command[c]), StageOf(Unobserved(c)))
      BY <2>2 DEF Edge
    <2> QED
      BY <1>0, <2>1, <2>3, ContractMoves
  <1>7. ASSUME NEW c \in Commands, NEW k \in ResultKeys, NEW outcome \in ResultOutcomes,
               Record(c, k, outcome)
        PROVE  [Contract!Next]_(Contract!vars)
    <2>1. wire' = wire
      BY <1>7 DEF Record
    <2>2. CASE IsTerminal(command[c].status)
      <3>1. command' = [command EXCEPT ![c] = LateRow(c, outcome)]
        BY <1>7, <2>2 DEF Record, Commit
      <3>2. StageOf(LateRow(c, outcome)) = StageOf(command[c])
        BY <1>0, StagesOfRows
      <3> QED
        BY <1>0, <2>1, <3>1, <3>2, ContractStutters
    <2>3. CASE ~IsTerminal(command[c].status)
      <3>1. /\ command' = [command EXCEPT ![c] = ResultRow(c, outcome)]
            /\ command[c].status \in {"sent", "acked"}
        BY <1>7, <2>3 DEF Record, Commit
      <3>2. StageOf(command[c]) = "committed" /\ StageOf(ResultRow(c, outcome)) \in {"committed", "closed"}
        BY <1>0, <3>1, StagesOfRows, StageCases
      <3>3. CASE StageOf(ResultRow(c, outcome)) = "committed"
        BY <1>0, <2>1, <3>1, <3>2, <3>3, ContractStutters
      <3>4. CASE StageOf(ResultRow(c, outcome)) = "closed"
        <4>1. Edge(StageOf(command[c]), StageOf(ResultRow(c, outcome)))
          BY <3>2, <3>4 DEF Edge
        <4> QED
          BY <1>0, <2>1, <3>1, <4>1, ContractMoves
      <3> QED
        BY <3>2, <3>3, <3>4
    <2> QED
      BY <2>2, <2>3
  <1>8. ASSUME NEW c \in Commands, ConnectionChanges(c) PROVE [Contract!Next]_(Contract!vars)
    BY <1>1, <1>8 DEF ConnectionChanges
  <1>9. CASE Tick \/ UNCHANGED vars
    BY <1>1, <1>9 DEF Tick, vars
  <1> QED
    BY <1>2, <1>4, <1>5, <1>6, <1>7, <1>8, <1>9, WorkerStepRefines DEF Next

\* The whole protocol of claims, leases, recovery and results gives the
\* caller the contract: at most one request, none for a withdrawn Command,
\* and no way back from withdrawn or closed.
THEOREM LifecycleRefinesContract == Spec => RefinesContract
  <1>1. Init => Contract!Init
    <2>1. StageOf(NoCommand) = "new"
      BY StageCases DEF NoCommand
    <2>2. ASSUME Init PROVE \A c \in Commands : StageOf(command[c]) = "new"
      BY <2>1, <2>2 DEF Init
    <2> QED
      BY <2>2 DEF Init, Contract!Init
  <1>2. Spec => []DispatchInv
    BY DispatchInit, DispatchStep, PTL DEF Spec
  <1>3. DispatchInv /\ [Next]_vars => [Contract!Next]_(Contract!vars)
    BY StepRefines
  <1> QED
    BY <1>1, <1>2, <1>3, PTL DEF Spec, RefinesContract, Contract!Spec
=============================================================================
