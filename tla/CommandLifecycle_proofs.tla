----------------------- MODULE CommandLifecycle_proofs -----------------------
(***************************************************************************)
(* Proofs about CommandLifecycle for every set of Commands, Workers and    *)
(* result keys and for all durations, clock skews and bounds.              *)
(***************************************************************************)
EXTENDS CommandLifecycle, FiniteSetTheorems, TLAPS

WellTyped(a) ==
    /\ a.outcome \in Outcomes
    /\ a.level \in ConfirmationLevels
    /\ a.evidence \in EvidenceStatuses

LEMMA AnswerWellTyped ==
    ASSUME NEW o \in Outcomes, NEW r, NEW l \in ConfirmationLevels, NEW e \in EvidenceStatuses
    PROVE  WellTyped(Answer(o, r, l, e))
  BY DEF WellTyped, Answer

\* Every answer a worker can hold is made of the enumerations' values.
LEMMA AnswerTypes ==
    ASSUME NEW a \in WorkerAnswers
    PROVE  WellTyped(a)
  <1> USE DEF Outcomes, ConfirmationLevels, EvidenceStatuses
  <1>1. WellTyped(UnsentAnswer)
    BY AnswerWellTyped DEF UnsentAnswer
  <1>2. WellTyped(Unknown) /\ WellTyped(Invalid)
    BY AnswerWellTyped DEF Unknown, Invalid
  <1>3. \A x \in WwtiotAnswers : WellTyped(x)
    <2>1. WellTyped(Answer("provider_rejected", "", "transport_sent", "unverified"))
      BY AnswerWellTyped
    <2>2. WellTyped(Answer("provider_accepted", "", "provider_accepted", "unverified"))
      BY AnswerWellTyped
    <2> QED
      BY <1>1, <1>2, <2>1, <2>2 DEF WwtiotAnswers
  <1>4. \A x \in SimulatorAnswers : WellTyped(x)
    <2>1. WellTyped(Answer("provider_rejected", "", "transport_sent", "verified"))
      BY AnswerWellTyped
    <2>2. WellTyped(Answer("provider_accepted", "", "provider_accepted", "verified"))
      BY AnswerWellTyped
    <2> QED
      BY <1>1, <1>2, <2>1, <2>2 DEF SimulatorAnswers
  <1>5. \A r \in PrepareFailures : WellTyped(Answer("invalid_request", r, "none", "none"))
    BY AnswerWellTyped
  <1>6. \A x \in OmniAnswers : WellTyped(x)
    BY <1>2 DEF OmniAnswers
  <1>7. Answers \subseteq {UnsentAnswer} \cup WwtiotAnswers \cup OmniAnswers \cup SimulatorAnswers
    BY DEF Answers, SentAnswers
  <1> QED
    BY <1>1, <1>3, <1>4, <1>5, <1>6, <1>7 DEF WorkerAnswers

EventTypes == {"command.created", "command.status_changed", "command.evidence_updated",
               "command.result_recorded"}
EventIds == Outcomes \cup {"", "recovered"} \cup ResultKeys

\* A committed row keeps the tables well typed: the CHECKs exclude a row
\* without a status.
LEMMA CommitType ==
    ASSUME TypeOK, NEW c \in Commands, NEW row \in CommandRows, NEW at,
           NEW type \in EventTypes, NEW id \in EventIds,
           Commit(c, row, at, type, id)
    PROVE  /\ command' \in [Commands -> CommandRows]
           /\ events' \in [Commands -> SUBSET EventRecords]
  <1>1. row.status \in CommandStatuses
    BY DEF Commit, RowAllowed, ReasonCheck, CommandStatuses
  <1>2. [type |-> type, status |-> row.status, id |-> id] \in EventRecords
    BY <1>1 DEF EventRecords, EventTypes, EventIds
  <1>3. command' \in [Commands -> CommandRows]
    BY DEF Commit, TypeOK
  <1>4. events' \in [Commands -> SUBSET EventRecords]
    BY <1>2 DEF Commit, TypeOK
  <1> QED
    BY <1>3, <1>4

\* The types and deduplication ids of the Events the transactions write.
LEMMA EventVocabulary ==
    /\ "command.status_changed" \in EventTypes
    /\ "command.evidence_updated" \in EventTypes
    /\ "command.result_recorded" \in EventTypes
    /\ "" \in EventIds /\ "recovered" \in EventIds
    /\ Outcomes \subseteq EventIds
    /\ ResultKeys \subseteq EventIds
  BY DEF EventTypes, EventIds

LEMMA StatusChangedType ==
    ASSUME TypeOK, NEW c \in Commands, NEW row \in CommandRows, NEW at,
           StatusChanged(c, row, at)
    PROVE  /\ command' \in [Commands -> CommandRows]
           /\ events' \in [Commands -> SUBSET EventRecords]
  <1>1. Commit(c, row, at, "command.status_changed", "")
    BY DEF StatusChanged
  <1> QED
    BY <1>1, CommitType, EventVocabulary

\* The rows the transactions build are rows.
LEMMA RowTypes ==
    ASSUME TypeOK, NEW c \in Commands, NEW status \in CommandStatuses, NEW reason \in Reasons,
           NEW level \in ConfirmationLevels, NEW evidence \in EvidenceStatuses,
           NEW outcome \in Outcomes
    PROVE  /\ Finished(c, status, reason, level, evidence) \in CommandRows
           /\ [command[c] EXCEPT !.level = level, !.evidence = evidence] \in CommandRows
           /\ Completed(c, outcome, level, evidence) \in AttemptRows
  <1>1. command[c] \in CommandRows /\ attempt[c] \in AttemptRows
    BY DEF TypeOK
  <1>2. Finished(c, status, reason, level, evidence) \in CommandRows
    BY <1>1 DEF CommandRows, Finished
  <1>3. [command[c] EXCEPT !.level = level, !.evidence = evidence] \in CommandRows
    BY <1>1 DEF CommandRows
  <1>4. Completed(c, outcome, level, evidence) \in AttemptRows
    BY <1>1 DEF AttemptRows, Completed, Phases
  <1> QED
    BY <1>2, <1>3, <1>4

LEMMA ReleaseType ==
    ASSUME TypeOK, NEW w \in Workers, Release(w)
    PROVE  /\ worker' \in [Workers -> WorkerStates]
           /\ \A v \in Workers : worker'[v].pc # "idle" => worker'[v].cmd \in Commands
  <1>1. Idle \in WorkerStates
    BY DEF Idle, WorkerStates, Steps, WorkerAnswers, Answers
  <1> QED
    BY <1>1 DEF Release, TypeOK, Idle
LEMMA WorkerType ==
    ASSUME TypeOK, NEW w \in Workers, NEW state \in WorkerStates, state.cmd \in Commands,
           worker' = [worker EXCEPT ![w] = state]
    PROVE  /\ worker' \in [Workers -> WorkerStates]
           /\ \A v \in Workers : worker'[v].pc # "idle" => worker'[v].cmd \in Commands
  BY DEF TypeOK

\* FinishQueued, in a cancellation or in the scanner, keeps the types.
LEMMA FinishQueuedType ==
    ASSUME TypeOK, NEW c \in Commands, NEW status \in CommandStatuses, NEW reason \in Reasons,
           FinishQueued(c, status, reason)
    PROVE  TypeOK'
  <1>1. Finished(c, status, reason, "none", "none") \in CommandRows
    BY RowTypes DEF ConfirmationLevels, EvidenceStatuses, Outcomes
  <1>2. Completed(c, "not_dispatched", "none", "none") \in AttemptRows
    BY RowTypes DEF ConfirmationLevels, EvidenceStatuses, Outcomes
  <1>3. command' \in [Commands -> CommandRows] /\ events' \in [Commands -> SUBSET EventRecords]
    <2>1. StatusChanged(c, Finished(c, status, reason, "none", "none"), clock)
      BY DEF FinishQueued
    <2> QED
      BY <1>1, <2>1, StatusChangedType
  <1>4. attempt' \in [Commands -> AttemptRows]
    BY <1>2 DEF FinishQueued, TypeOK
  <1> QED
    BY <1>3, <1>4 DEF FinishQueued, TypeOK

\* The same for a claim that fails before its dispatch.
LEMMA FailQueuedType ==
    ASSUME TypeOK, NEW w \in Workers, worker[w].cmd \in Commands,
           NEW outcome \in Outcomes, NEW reason,
           FailQueued(w, outcome, reason)
    PROVE  /\ command' \in [Commands -> CommandRows]
           /\ events' \in [Commands -> SUBSET EventRecords]
           /\ attempt' \in [Commands -> AttemptRows]
  <1> DEFINE c == worker[w].cmd
  <1>1. reason \in Reasons
    BY DEF FailQueued, PreDispatchCompletionAllowed, Reasons
  <1>2. Finished(c, "failed", reason, "none", "none") \in CommandRows
    BY <1>1, RowTypes DEF ConfirmationLevels, EvidenceStatuses, CommandStatuses
  <1>3. Completed(c, outcome, "none", "none") \in AttemptRows
    BY <1>1, RowTypes DEF ConfirmationLevels, EvidenceStatuses, CommandStatuses
  <1>5. StatusChanged(c, Finished(c, "failed", reason, "none", "none"), worker[w].now)
    BY DEF FailQueued
  <1>6. command' \in [Commands -> CommandRows] /\ events' \in [Commands -> SUBSET EventRecords]
    BY <1>2, <1>5, StatusChangedType
  <1> QED
    BY <1>3, <1>6 DEF FailQueued, TypeOK

\* Every step of a worker keeps the types.
LEMMA WorkerStepType ==
    ASSUME TypeOK, NEW w \in Workers, WorkerStep(w)
    PROVE  TypeOK'
  <1> USE ConstantsAssumption
  <1>0. worker[w] \in WorkerStates /\ (worker[w].pc # "idle" => worker[w].cmd \in Commands)
    BY DEF TypeOK
  <1>1. ASSUME NEW c \in Commands, ClaimSelect(w, c) PROVE TypeOK'
    <2>1. [Idle EXCEPT !.pc = "claiming", !.cmd = c, !.now = clock] \in WorkerStates
      BY DEF Idle, WorkerStates, Steps, WorkerAnswers, Answers, TypeOK
    <2> QED
      BY <1>1, <2>1, WorkerType DEF ClaimSelect, TypeOK, Idle
  <1>2. CASE ClaimNext(w)
    <2> DEFINE c == worker[w].cmd
               no == IF Incomplete(c) THEN attempt[c].no ELSE attempt[c].no + 1
               lease == Earlier(worker[w].now + LeaseDuration, command[c].dispatchDeadline)
    <2>1. c \in Commands
      BY <1>0, <1>2 DEF ClaimNext
    <2>2. no \in Nat /\ attempt[c].token + 1 \in Nat /\ lease \in Nat
      BY <2>1 DEF TypeOK, AttemptRows, CommandRows, WorkerStates, Earlier
    <2>3. [NoAttempt EXCEPT !.no = no, !.phase = "claimed", !.token = attempt[c].token + 1,
                            !.lease = lease] \in AttemptRows
      BY <2>2 DEF NoAttempt, AttemptRows, Phases, ConfirmationLevels, EvidenceStatuses
    <2>4. [worker[w] EXCEPT !.pc = "claimed", !.no = no, !.token = attempt[c].token + 1,
                            !.now = 0] \in WorkerStates
      BY <1>0, <2>2 DEF WorkerStates, Steps
    <2>5. worker' = [worker EXCEPT ![w] = [worker[w] EXCEPT !.pc = "claimed", !.no = no,
                                              !.token = attempt[c].token + 1, !.now = 0]]
      BY <1>2 DEF ClaimNext, NextNo, FreshToken, TypeOK
    <2>6. attempt' \in [Commands -> AttemptRows]
      BY <1>2, <2>3 DEF ClaimNext, NextNo, FreshToken, TypeOK
    <2>7. [worker[w] EXCEPT !.pc = "claimed", !.no = no, !.token = attempt[c].token + 1,
                            !.now = 0].cmd \in Commands
      BY <1>0, <2>1 DEF WorkerStates
    <2>8. /\ worker' \in [Workers -> WorkerStates]
          /\ \A v \in Workers : worker'[v].pc # "idle" => worker'[v].cmd \in Commands
      BY <2>4, <2>5, <2>7, WorkerType
    <2>9. UNCHANGED <<clock, online, command, events, results, wire>>
      BY <1>2 DEF ClaimNext
    <2> QED
      BY <2>6, <2>8, <2>9 DEF TypeOK
  <1>3. ASSUME NEW reason \in PrepareFailures, BeginFail(w, reason) PROVE TypeOK'
    <2>1. Answer("invalid_request", reason, "none", "none") \in WorkerAnswers
      BY DEF WorkerAnswers
    <2>2. [worker[w] EXCEPT !.pc = "failing", !.now = clock,
              !.answer = Answer("invalid_request", reason, "none", "none")] \in WorkerStates
      BY <1>0, <2>1 DEF WorkerStates, Steps, TypeOK
    <2> QED
      BY <1>0, <1>3, <2>2, WorkerType DEF BeginFail, TypeOK
  <1>4. CASE FailBeforeDispatch(w)
    <2>1. worker[w].cmd \in Commands
      BY <1>0, <1>4 DEF FailBeforeDispatch
    <2> QED
      BY <1>4, <2>1, FailQueuedType, ReleaseType DEF FailBeforeDispatch, TypeOK, Outcomes
  <1>5. CASE BeginCommit(w)
    <2>1. [worker[w] EXCEPT !.pc = "committing", !.now = clock] \in WorkerStates
      BY <1>0 DEF WorkerStates, Steps, TypeOK
    <2> QED
      BY <1>0, <1>5, <2>1, WorkerType DEF BeginCommit, TypeOK
  <1>6. CASE FailNotOnline(w)
    <2>1. worker[w].cmd \in Commands
      BY <1>0, <1>6 DEF FailNotOnline
    <2> QED
      BY <1>6, <2>1, FailQueuedType, ReleaseType DEF FailNotOnline, TypeOK, Outcomes
  <1>7. CASE MarkDispatching(w)
    <2> DEFINE c == worker[w].cmd
               row == [command[c] EXCEPT !.status = "sent", !.sentAt = worker[w].now]
    <2>1. c \in Commands /\ worker[w].now \in Nat
      BY <1>0, <1>7 DEF MarkDispatching, WorkerStates
    <2>2. command[c] \in CommandRows /\ attempt[c] \in AttemptRows
      BY <2>1 DEF TypeOK
    <2>3. row \in CommandRows
      BY <2>1, <2>2 DEF CommandRows, CommandStatuses
    <2>4. StatusChanged(c, row, worker[w].now)
      BY <1>7 DEF MarkDispatching
    <2>5. command' \in [Commands -> CommandRows] /\ events' \in [Commands -> SUBSET EventRecords]
      BY <2>1, <2>3, <2>4, StatusChangedType
    <2>6. [attempt[c] EXCEPT !.phase = "dispatching", !.lease = worker[w].now + DispatchLease]
             \in AttemptRows
      <3>1. worker[w].now + DispatchLease \in Nat
        BY <2>1
      <3>2. "dispatching" \in Phases
        BY DEF Phases
      <3> QED
        BY <2>2, <3>1, <3>2 DEF AttemptRows
    <2>7. attempt' \in [Commands -> AttemptRows]
      BY <1>7, <2>6 DEF MarkDispatching, TypeOK
    <2>8. [worker[w] EXCEPT !.pc = "dispatching", !.now = 0] \in WorkerStates
      BY <1>0 DEF WorkerStates, Steps
    <2>9. worker' = [worker EXCEPT ![w] = [worker[w] EXCEPT !.pc = "dispatching", !.now = 0]]
      BY <1>7 DEF MarkDispatching, TypeOK
    <2>10. UNCHANGED <<clock, online, results, wire>>
      BY <1>7 DEF MarkDispatching
    <2> QED
      BY <1>0, <2>1, <2>5, <2>7, <2>8, <2>9, <2>10, WorkerType DEF TypeOK
  <1>8. CASE Dispatch(w)
    <2>1. [worker[w] EXCEPT !.pc = "waiting"] \in WorkerStates
      BY <1>0 DEF WorkerStates, Steps
    <2>2. wire' \in [Commands -> Nat]
      BY <1>8 DEF Dispatch, TypeOK
    <2> QED
      BY <1>0, <1>8, <2>1, <2>2, WorkerType DEF Dispatch, TypeOK
  <1>9. CASE DispatchReturns(w)
    <2>1. PICK answer \in Answers :
             /\ worker[w].pc \in {"dispatching", "waiting"}
             /\ worker' = [worker EXCEPT ![w].pc = "persisting", ![w].now = clock,
                                         ![w].answer = answer]
      BY <1>9 DEF DispatchReturns
    <2>2. [worker[w] EXCEPT !.pc = "persisting", !.now = clock, !.answer = answer] \in WorkerStates
      BY <1>0 DEF WorkerStates, Steps, TypeOK, WorkerAnswers
    <2>3. worker' = [worker EXCEPT ![w] =
                       [worker[w] EXCEPT !.pc = "persisting", !.now = clock, !.answer = answer]]
      BY <2>1 DEF TypeOK
    <2>4. [worker[w] EXCEPT !.pc = "persisting", !.now = clock, !.answer = answer].cmd \in Commands
      BY <1>0, <2>1 DEF WorkerStates
    <2>5. /\ worker' \in [Workers -> WorkerStates]
          /\ \A v \in Workers : worker'[v].pc # "idle" => worker'[v].cmd \in Commands
      BY <2>2, <2>3, <2>4, WorkerType
    <2>6. UNCHANGED <<clock, online, command, attempt, events, results, wire>>
      BY <1>9 DEF DispatchReturns
    <2> QED
      BY <2>5, <2>6 DEF TypeOK
  <1>10. CASE PersistResult(w)
    <2> DEFINE c == worker[w].cmd
               answer == worker[w].answer
    <2>1. c \in Commands /\ answer \in WorkerAnswers
      BY <1>0, <1>10 DEF PersistResult, WorkerStates
    <2>2. /\ answer.outcome \in Outcomes /\ answer.level \in ConfirmationLevels
          /\ answer.evidence \in EvidenceStatuses
      BY <2>1, AnswerTypes DEF WellTyped
    <2>3. RaisedRow(c, answer) \in CommandRows
      BY <2>1, <2>2, RowTypes DEF RaisedRow, CommandStatuses, Reasons
    <2>4. Completed(c, answer.outcome, answer.level, answer.evidence) \in AttemptRows
      BY <2>1, <2>2, RowTypes DEF CommandStatuses, Reasons
    <2>5. attempt' \in [Commands -> AttemptRows]
      BY <1>10, <2>4 DEF PersistResult, TypeOK
    <2>6. ASSUME Commit(c, RaisedRow(c, answer), worker[w].now,
                        "command.evidence_updated", answer.outcome)
          PROVE  command' \in [Commands -> CommandRows] /\ events' \in [Commands -> SUBSET EventRecords]
      BY <2>1, <2>2, <2>3, <2>6, CommitType, EventVocabulary
    <2>7. ASSUME FailsCommand(c, answer), StatusChanged(c, FailedRow(c, answer), worker[w].now)
          PROVE  command' \in [Commands -> CommandRows] /\ events' \in [Commands -> SUBSET EventRecords]
      <3>1. ResultReason(answer) \in Reasons
        BY <2>7 DEF FailsCommand, AttemptTransitionMatches, Reasons
      <3>2. FailedRow(c, answer) \in CommandRows
        BY <2>1, <2>2, <3>1, RowTypes DEF FailedRow, CommandStatuses
      <3> QED
        BY <2>1, <2>7, <3>2, StatusChangedType
    <2>8. command' \in [Commands -> CommandRows] /\ events' \in [Commands -> SUBSET EventRecords]
      <3>1. \/ Commit(c, RaisedRow(c, answer), worker[w].now,
                      "command.evidence_updated", answer.outcome)
            \/ FailsCommand(c, answer) /\ StatusChanged(c, FailedRow(c, answer), worker[w].now)
        BY <1>10 DEF PersistResult
      <3> QED
        BY <2>6, <2>7, <3>1
    <2>9. Release(w) /\ UNCHANGED <<clock, online, results, wire>>
      BY <1>10 DEF PersistResult
    <2> QED
      BY <2>5, <2>8, <2>9, ReleaseType DEF TypeOK
  <1>11. CASE Abandon(w)
    BY <1>11, ReleaseType DEF Abandon, TypeOK
  <1> QED
    BY <1>1, <1>2, <1>3, <1>4, <1>5, <1>6, <1>7, <1>8, <1>9, <1>10, <1>11 DEF WorkerStep
\* Storing a Device's result keeps the types.
LEMMA RecordType ==
    ASSUME TypeOK, NEW c \in Commands, NEW k \in ResultKeys, NEW outcome \in ResultOutcomes,
           Record(c, k, outcome)
    PROVE  TypeOK'
  <1> DEFINE late == IsTerminal(command[c].status)
             row == IF late THEN LateRow(c, outcome) ELSE ResultRow(c, outcome)
  <1>1. command[c] \in CommandRows
    BY DEF TypeOK
  <1>2. LateRow(c, outcome) \in CommandRows
    BY <1>1 DEF LateRow, CommandRows, ResultLevel, ConfirmationLevels, EvidenceStatuses
  <1>3. ResultRow(c, outcome) \in CommandRows
    BY <1>1 DEF ResultRow, Finished, CommandRows, CommandStatuses, Reasons, ConfirmationLevels,
                EvidenceStatuses
  <1>4. row \in CommandRows
    BY <1>2, <1>3
  <1>5. \E at : Commit(c, row, at, "command.result_recorded", k)
    BY DEF Record
  <1>6. command' \in [Commands -> CommandRows] /\ events' \in [Commands -> SUBSET EventRecords]
    BY <1>4, <1>5, CommitType, EventVocabulary
  <1>7. [cmd |-> c, outcome |-> outcome, late |-> late] \in ResultRows
    BY DEF ResultRows, IsTerminal
  <1>8. results' \in [ResultKeys -> ResultRows]
    BY <1>7 DEF Record, TypeOK
  <1>9. UNCHANGED <<clock, online, attempt, worker, wire>>
    BY DEF Record
  <1> QED
    BY <1>6, <1>8, <1>9 DEF TypeOK

\* The recovery of an expired dispatch keeps the types.
LEMMA RecoverType ==
    ASSUME TypeOK, NEW c \in Commands, RecoverNext(c)
    PROVE  TypeOK'
  <1> DEFINE row == [command[c] EXCEPT !.level = "transport_sent", !.evidence = "unverified"]
  <1>1. row \in CommandRows /\ Completed(c, "indeterminate", "transport_sent", "unverified") \in AttemptRows
    BY RowTypes DEF CommandStatuses, Reasons, ConfirmationLevels, EvidenceStatuses, Outcomes
  <1>2. Commit(c, row, clock, "command.evidence_updated", "recovered")
    BY DEF RecoverNext, RecoveredRow
  <1>3. command' \in [Commands -> CommandRows] /\ events' \in [Commands -> SUBSET EventRecords]
    BY <1>1, <1>2, CommitType, EventVocabulary
  <1>4. attempt' \in [Commands -> AttemptRows]
    BY <1>1 DEF RecoverNext, RecoveredAttempt, TypeOK
  <1>5. UNCHANGED <<clock, online, results, worker, wire>>
    BY DEF RecoverNext
  <1> QED
    BY <1>3, <1>4, <1>5 DEF TypeOK

\* So does the end of an observation window.
LEMMA ObservationType ==
    ASSUME TypeOK, NEW c \in Commands, ExpireNextResultObservation(c)
    PROVE  TypeOK'
  <1>1. command[c] \in CommandRows
    BY DEF TypeOK
  <1>2. Unobserved(c) \in CommandRows
    BY <1>1 DEF Unobserved, CommandRows, CommandStatuses, Reasons
  <1>3. command' \in [Commands -> CommandRows] /\ events' \in [Commands -> SUBSET EventRecords]
    BY <1>2, StatusChangedType DEF ExpireNextResultObservation
  <1> QED
    BY <1>3 DEF ExpireNextResultObservation, TypeOK

LEMMA CreateType ==
    ASSUME TypeOK, NEW c \in Commands, Create(c)
    PROVE  TypeOK'
  <1> USE ConstantsAssumption
  <1>1. PICK queuedAt \in {t \in (clock - Skew) .. (clock + Skew) : t > 0} :
          /\ command' = [command EXCEPT ![c] =
                [NoCommand EXCEPT !.status = "queued", !.queuedAt = queuedAt,
                                  !.dispatchDeadline = queuedAt + DispatchDeadline]]
          /\ events' = [events EXCEPT ![c] =
                {[type |-> "command.created", status |-> "queued", id |-> ""]}]
    BY DEF Create
  <1>2. queuedAt \in Nat /\ queuedAt + DispatchDeadline \in Nat
    BY DEF TypeOK
  <1>3. [NoCommand EXCEPT !.status = "queued", !.queuedAt = queuedAt,
                          !.dispatchDeadline = queuedAt + DispatchDeadline] \in CommandRows
    BY <1>2 DEF NoCommand, CommandRows, CommandStatuses, Reasons, ConfirmationLevels, EvidenceStatuses
  <1>4. [type |-> "command.created", status |-> "queued", id |-> ""] \in EventRecords
    BY DEF EventRecords, CommandStatuses
  <1>5. events' \in [Commands -> SUBSET EventRecords]
    BY <1>1, <1>4 DEF TypeOK
  <1>6. command' \in [Commands -> CommandRows]
    BY <1>1, <1>3 DEF TypeOK
  <1>7. UNCHANGED <<clock, online, attempt, results, worker, wire>>
    BY DEF Create
  <1> QED
    BY <1>5, <1>6, <1>7 DEF TypeOK

LEMMA TypeInit == Init => TypeOK
  <1> SUFFICES ASSUME Init PROVE TypeOK
    OBVIOUS
  <1>1. NoCommand \in CommandRows
    BY DEF NoCommand, CommandRows, CommandStatuses, Reasons, ConfirmationLevels, EvidenceStatuses
  <1>2. NoAttempt \in AttemptRows
    BY DEF NoAttempt, AttemptRows, Phases, Outcomes, ConfirmationLevels, EvidenceStatuses
  <1>3. Idle \in WorkerStates
    BY DEF Idle, WorkerStates, Steps, WorkerAnswers, Answers
  <1> QED
    BY <1>1, <1>2, <1>3 DEF Init, TypeOK, ResultRows, Idle

LEMMA TypeStep == TypeOK /\ [Next]_vars => TypeOK'
  <1> SUFFICES ASSUME TypeOK, [Next]_vars PROVE TypeOK'
    OBVIOUS
  <1>1. ASSUME NEW c \in Commands, Cancel(c) PROVE TypeOK'
    BY <1>1, FinishQueuedType DEF Cancel, CommandStatuses, Reasons
  <1>2. ASSUME NEW c \in Commands, ExpireNextQueued(c) PROVE TypeOK'
    BY <1>2, FinishQueuedType DEF ExpireNextQueued, CommandStatuses, Reasons
  <1>3. ASSUME NEW c \in Commands, ConnectionChanges(c) PROVE TypeOK'
    BY <1>3 DEF ConnectionChanges, TypeOK
  <1>4. CASE Tick
    BY <1>4 DEF Tick, TypeOK
  <1>5. CASE UNCHANGED vars
    BY <1>5 DEF vars, TypeOK
  <1> QED
    BY <1>1, <1>2, <1>3, <1>4, <1>5, WorkerStepType, CreateType, RecoverType, ObservationType,
       RecordType DEF Next

\* Type correctness of the whole protocol: every row, every Event and every
\* worker's memory keeps its type in every behaviour.
THEOREM TypeCorrect == Spec => []TypeOK
  BY TypeInit, TypeStep, PTL DEF Spec

-----------------------------------------------------------------------------
(***************************************************************************)
(* At most one dispatch.  AtMostOneDispatch and UnsentIsUnsent are not     *)
(* inductive: a worker about to send must be known to be the only one, and *)
(* to hold a Command that was committed and not yet sent.                  *)
(***************************************************************************)

\* A Command for which the dispatch was committed.
Committed(row) == row.status \notin {"none", "queued"} /\ row.reason \notin UnsentReasons

\* What a worker that may still send, or has sent, knows of its Command.
SenderInv ==
    /\ \A w \in Workers :
          worker[w].pc = "dispatching" =>
              Committed(command[worker[w].cmd]) /\ wire[worker[w].cmd] = 0
    /\ \A v, w \in Workers :
          /\ worker[v].pc = "dispatching" /\ worker[w].pc = "dispatching"
          /\ worker[v].cmd = worker[w].cmd
          => v = w

\* What the Command's row knows of the wire.
WireInv ==
    \A c \in Commands :
        /\ wire[c] <= 1
        /\ wire[c] > 0 => Committed(command[c])

DispatchInv == TypeOK /\ SenderInv /\ WireInv

\* A step that leaves the wire alone, lets no further worker begin to send
\* and takes no Command back keeps the invariant.
LEMMA KeepsDispatch ==
    ASSUME DispatchInv, TypeOK', wire' = wire,
           \A w \in Workers : worker'[w].pc = "dispatching" => worker'[w] = worker[w],
           \A c \in Commands : Committed(command[c]) => Committed(command'[c])
    PROVE  DispatchInv'
  <1>1. SenderInv'
    BY DEF DispatchInv, SenderInv, TypeOK
  <1>2. WireInv'
    BY DEF DispatchInv, WireInv
  <1> QED
    BY <1>1, <1>2 DEF DispatchInv

\* Committing a row of one Command takes no other back, and not that one
\* either if its new row is committed or its old one was not.
LEMMA CommitKeeps ==
    ASSUME TypeOK, NEW c \in Commands, NEW row, NEW at, NEW type, NEW id,
           Commit(c, row, at, type, id),
           Committed(command[c]) => Committed(row)
    PROVE  \A d \in Commands : Committed(command[d]) => Committed(command'[d])
  BY DEF Commit, TypeOK

LEMMA ReleaseKeeps ==
    ASSUME TypeOK, NEW w \in Workers, Release(w)
    PROVE  \A v \in Workers : worker'[v].pc = "dispatching" => worker'[v] = worker[v]
  BY DEF Release, Idle, TypeOK

LEMMA QueuedNotCommitted ==
    ASSUME NEW row, row.status = "queued"
    PROVE  ~Committed(row)
  BY DEF Committed

\* The rows a worker or the scanner commits for a sent Command are committed.
LEMMA SentRowsCommitted ==
    ASSUME TypeOK, NEW c \in Commands
    PROVE  /\ \A answer : Committed(command[c]) => Committed(RaisedRow(c, answer))
           /\ \A answer : FailsCommand(c, answer) => Committed(FailedRow(c, answer))
           /\ Committed(Unobserved(c))
           /\ \A outcome \in ResultOutcomes : Committed(ResultRow(c, outcome))
           /\ \A outcome : Committed(command[c]) => Committed(LateRow(c, outcome))
  <1>0. command[c] \in CommandRows
    BY DEF TypeOK
  <1> USE DEF UnsentReasons, PrepareFailures, Committed
  <1>1. \A answer : Committed(command[c]) => Committed(RaisedRow(c, answer))
    BY <1>0 DEF RaisedRow, CommandRows
  <1>2. \A answer : FailsCommand(c, answer) => Committed(FailedRow(c, answer))
    BY <1>0 DEF FailsCommand, FailedRow, Finished, AttemptTransitionMatches, CommandRows
  <1>3. Committed(Unobserved(c))
    BY <1>0 DEF Unobserved, CommandRows
  <1>4. \A outcome \in ResultOutcomes : Committed(ResultRow(c, outcome))
    BY <1>0 DEF ResultRow, Finished, CommandRows
  <1>5. \A outcome : Committed(command[c]) => Committed(LateRow(c, outcome))
    BY <1>0 DEF LateRow, CommandRows
  <1> QED
    BY <1>1, <1>2, <1>3, <1>4, <1>5

\* The step that commits a dispatch: the Command was queued, so nothing has
\* been sent for it and no other worker is about to.
LEMMA MarkDispatchingKeeps ==
    ASSUME DispatchInv, TypeOK', NEW w \in Workers, MarkDispatching(w)
    PROVE  DispatchInv'
  <1> DEFINE c == worker[w].cmd
             row == [command[c] EXCEPT !.status = "sent", !.sentAt = worker[w].now]
  <1>1. c \in Commands /\ command[c] \in CommandRows /\ worker[w] \in WorkerStates
    BY DEF MarkDispatching, DispatchInv, TypeOK
  <1>2. /\ command[c].status = "queued" /\ wire' = wire
        /\ command' = [command EXCEPT ![c] = row] /\ RowAllowed(row, worker[w].now)
    BY DEF MarkDispatching, StatusChanged, Commit
  <1>3. ~Committed(command[c])
    BY <1>2, QueuedNotCommitted
  <1>4. row.status = "sent" /\ row.reason = ""
    BY <1>1, <1>2 DEF RowAllowed, ReasonCheck, CommandRows
  <1>5. Committed(row)
    BY <1>4 DEF Committed, UnsentReasons, PrepareFailures
  <1>6. /\ worker'[w].pc = "dispatching" /\ worker'[w].cmd = c
        /\ \A v \in Workers \ {w} : worker'[v] = worker[v]
    BY <1>1 DEF MarkDispatching, DispatchInv, TypeOK, WorkerStates
  <1>7. \A d \in Commands : Committed(command[d]) => Committed(command'[d])
    BY <1>1, <1>2, <1>3 DEF DispatchInv, TypeOK
  <1>8. command'[c] = row /\ wire[c] = 0
    <2>1. command'[c] = row /\ wire[c] \in Nat
      BY <1>1, <1>2 DEF DispatchInv, TypeOK
    <2>2. ~(wire[c] > 0)
      BY <1>1, <1>3 DEF DispatchInv, WireInv
    <2> QED
      BY <2>1, <2>2
  <1>9. \A v \in Workers : worker[v].pc = "dispatching" => worker[v].cmd # c
    BY <1>3 DEF DispatchInv, SenderInv
  <1>10. \A v \in Workers : worker'[v].pc = "dispatching" =>
            Committed(command'[worker'[v].cmd]) /\ wire'[worker'[v].cmd] = 0
    <2> SUFFICES ASSUME NEW v \in Workers, worker'[v].pc = "dispatching"
                 PROVE  Committed(command'[worker'[v].cmd]) /\ wire'[worker'[v].cmd] = 0
      OBVIOUS
    <2>1. CASE v = w
      BY <2>1, <1>2, <1>5, <1>6, <1>8
    <2>2. CASE v # w
      BY <2>2, <1>2, <1>6, <1>7 DEF DispatchInv, SenderInv, TypeOK
    <2> QED
      BY <2>1, <2>2
  <1>11. \A u, v \in Workers :
            /\ worker'[u].pc = "dispatching" /\ worker'[v].pc = "dispatching"
            /\ worker'[u].cmd = worker'[v].cmd
            => u = v
    BY <1>6, <1>9 DEF DispatchInv, SenderInv
  <1>12. WireInv'
    BY <1>2, <1>7 DEF DispatchInv, WireInv
  <1> QED
    BY <1>10, <1>11, <1>12 DEF DispatchInv, SenderInv

\* The send itself: the sender was the only one and nothing had been sent.
LEMMA DispatchKeeps ==
    ASSUME DispatchInv, TypeOK', NEW w \in Workers, Dispatch(w)
    PROVE  DispatchInv'
  <1> DEFINE c == worker[w].cmd
  <1>1. c \in Commands /\ worker[w].pc = "dispatching" /\ wire[c] = 0 /\ Committed(command[c])
    BY DEF Dispatch, DispatchInv, SenderInv, TypeOK
  <1>2. command' = command /\ wire' = [wire EXCEPT ![c] = 1]
    <2>1. command' = command /\ wire' = [wire EXCEPT ![c] = wire[c] + 1]
      BY DEF Dispatch
    <2>2. wire[c] + 1 = 1
      BY <1>1
    <2> QED
      BY <2>1, <2>2
  <1>3. /\ worker'[w].pc = "waiting"
        /\ \A v \in Workers \ {w} : worker'[v] = worker[v]
    BY DEF Dispatch, DispatchInv, TypeOK, WorkerStates
  <1>4. \A v \in Workers : worker'[v].pc = "dispatching" =>
            v # w /\ worker[v].pc = "dispatching" /\ worker'[v].cmd = worker[v].cmd
                  /\ worker[v].cmd \in Commands /\ worker[v].cmd # c
    BY <1>1, <1>3 DEF DispatchInv, SenderInv, TypeOK
  <1>5. SenderInv'
    BY <1>2, <1>4 DEF DispatchInv, SenderInv, TypeOK
  <1>6. WireInv'
    BY <1>1, <1>2 DEF DispatchInv, WireInv, TypeOK
  <1> QED
    BY <1>5, <1>6 DEF DispatchInv

\* The invariant survives every step of a worker ...
LEMMA WorkerStepKeeps ==
    ASSUME DispatchInv, TypeOK', NEW w \in Workers, WorkerStep(w)
    PROVE  DispatchInv'
  <1>0. TypeOK /\ worker[w] \in WorkerStates
    BY DEF DispatchInv, TypeOK
  <1>1. ASSUME NEW state, worker' = [worker EXCEPT ![w] = state], state.pc # "dispatching",
               wire' = wire, command' = command
        PROVE  DispatchInv'
    <2>1. \A v \in Workers : worker'[v].pc = "dispatching" => worker'[v] = worker[v]
      BY <1>0, <1>1 DEF TypeOK
    <2> QED
      BY <1>1, <2>1, KeepsDispatch
  <1>2. ASSUME NEW c \in Commands, ClaimSelect(w, c) PROVE DispatchInv'
    <2> DEFINE state == [Idle EXCEPT !.pc = "claiming", !.cmd = c, !.now = clock]
    <2>1. worker' = [worker EXCEPT ![w] = state] /\ wire' = wire /\ command' = command
      BY <1>2 DEF ClaimSelect
    <2>2. state.pc # "dispatching"
      BY DEF Idle
    <2> QED
      BY <1>1, <2>1, <2>2
  <1>3. CASE ClaimNext(w)
    <2>1. \A v \in Workers : worker'[v].pc = "dispatching" => worker'[v] = worker[v]
      BY <1>0, <1>3 DEF ClaimNext, TypeOK, WorkerStates
    <2> QED
      BY <1>3, <2>1, KeepsDispatch DEF ClaimNext
  <1>4. ASSUME NEW reason, BeginFail(w, reason) PROVE DispatchInv'
    <2>1. \A v \in Workers : worker'[v].pc = "dispatching" => worker'[v] = worker[v]
      BY <1>0, <1>4 DEF BeginFail, TypeOK, WorkerStates
    <2> QED
      BY <1>4, <2>1, KeepsDispatch DEF BeginFail
  <1>5. CASE BeginCommit(w)
    <2>1. \A v \in Workers : worker'[v].pc = "dispatching" => worker'[v] = worker[v]
      BY <1>0, <1>5 DEF BeginCommit, TypeOK, WorkerStates
    <2> QED
      BY <1>5, <2>1, KeepsDispatch DEF BeginCommit
  <1>6. CASE DispatchReturns(w)
    <2>1. \A v \in Workers : worker'[v].pc = "dispatching" => worker'[v] = worker[v]
      BY <1>0, <1>6 DEF DispatchReturns, TypeOK, WorkerStates
    <2> QED
      BY <1>6, <2>1, KeepsDispatch DEF DispatchReturns
  <1>7. ASSUME NEW outcome, NEW reason, FailQueued(w, outcome, reason), Release(w), wire' = wire,
               worker[w].cmd \in Commands
        PROVE  DispatchInv'
    <2> DEFINE c == worker[w].cmd
               row == Finished(c, "failed", reason, "none", "none")
    <2>1. Commit(c, row, worker[w].now, "command.status_changed", "") /\ ~Committed(command[c])
      BY <1>7, QueuedNotCommitted DEF FailQueued, StatusChanged
    <2>2. \A d \in Commands : Committed(command[d]) => Committed(command'[d])
      BY <1>0, <1>7, <2>1, CommitKeeps
    <2> QED
      BY <1>0, <1>7, <2>2, ReleaseKeeps, KeepsDispatch
  <1>8. CASE FailBeforeDispatch(w)
    BY <1>0, <1>7, <1>8 DEF FailBeforeDispatch, TypeOK
  <1>9. CASE FailNotOnline(w)
    BY <1>0, <1>7, <1>9 DEF FailNotOnline, TypeOK
  <1>10. CASE PersistResult(w)
    <2> DEFINE c == worker[w].cmd
               answer == worker[w].answer
    <2>1. c \in Commands /\ Release(w) /\ wire' = wire
      BY <1>0, <1>10 DEF PersistResult, TypeOK
    <2>2. \/ Commit(c, RaisedRow(c, answer), worker[w].now, "command.evidence_updated", answer.outcome)
          \/ /\ FailsCommand(c, answer)
             /\ Commit(c, FailedRow(c, answer), worker[w].now, "command.status_changed", "")
      BY <1>10 DEF PersistResult, StatusChanged
    <2>3. \A d \in Commands : Committed(command[d]) => Committed(command'[d])
      BY <1>0, <2>1, <2>2, SentRowsCommitted, CommitKeeps
    <2> QED
      BY <1>0, <2>1, <2>3, ReleaseKeeps, KeepsDispatch
  <1>11. CASE Abandon(w)
    BY <1>0, <1>11, ReleaseKeeps, KeepsDispatch DEF Abandon
  <1> QED
    BY <1>2, <1>3, <1>4, <1>5, <1>6, <1>8, <1>9, <1>10, <1>11, MarkDispatchingKeeps, DispatchKeeps
    DEF WorkerStep

\* ... and every other step.
LEMMA DispatchStep == DispatchInv /\ [Next]_vars => DispatchInv'
  <1> SUFFICES ASSUME DispatchInv, [Next]_vars PROVE DispatchInv'
    OBVIOUS
  <1>0. TypeOK /\ TypeOK'
    BY TypeStep DEF DispatchInv
  <1>1. ASSUME worker' = worker, wire' = wire,
               \A c \in Commands : Committed(command[c]) => Committed(command'[c])
        PROVE  DispatchInv'
    BY <1>0, <1>1, KeepsDispatch
  <1>2. ASSUME NEW c \in Commands, Create(c) PROVE DispatchInv'
    <2>1. ~Committed(command[c])
      BY <1>2 DEF Create, Committed
    <2>2. \A d \in Commands \ {c} : command'[d] = command[d]
      BY <1>0, <1>2 DEF Create, TypeOK
    <2> QED
      BY <1>1, <1>2, <2>1, <2>2 DEF Create
  <1>3. ASSUME NEW c \in Commands, NEW status, NEW reason, FinishQueued(c, status, reason)
        PROVE  DispatchInv'
    <2>1. /\ Commit(c, Finished(c, status, reason, "none", "none"), clock, "command.status_changed", "")
          /\ ~Committed(command[c]) /\ worker' = worker /\ wire' = wire
      BY <1>3, QueuedNotCommitted DEF FinishQueued, StatusChanged
    <2> QED
      BY <1>0, <1>1, <2>1, CommitKeeps
  <1>4. ASSUME NEW c \in Commands, RecoverNext(c) PROVE DispatchInv'
    <2> DEFINE row == [command[c] EXCEPT !.level = "transport_sent", !.evidence = "unverified"]
    <2>1. Commit(c, row, clock, "command.evidence_updated", "recovered")
          /\ worker' = worker /\ wire' = wire
      BY <1>4 DEF RecoverNext, RecoveredRow
    <2>2. Committed(command[c]) => Committed(row)
      BY <1>0 DEF TypeOK, CommandRows, Committed
    <2> QED
      BY <1>0, <1>1, <2>1, <2>2, CommitKeeps
  <1>5. ASSUME NEW c \in Commands, ExpireNextResultObservation(c) PROVE DispatchInv'
    <2>1. Commit(c, Unobserved(c), clock, "command.status_changed", "")
          /\ worker' = worker /\ wire' = wire
      BY <1>5 DEF ExpireNextResultObservation, StatusChanged
    <2> QED
      BY <1>0, <1>1, <2>1, CommitKeeps, SentRowsCommitted
  <1>6. ASSUME NEW c \in Commands, NEW k \in ResultKeys, NEW outcome \in ResultOutcomes,
               Record(c, k, outcome)
        PROVE  DispatchInv'
    <2>1. PICK row, at : /\ Commit(c, row, at, "command.result_recorded", k)
                         /\ row = LateRow(c, outcome) \/ row = ResultRow(c, outcome)
      BY <1>6 DEF Record
    <2>2. worker' = worker /\ wire' = wire
      BY <1>6 DEF Record
    <2>3. Committed(command[c]) => Committed(row)
      BY <1>0, <2>1, SentRowsCommitted
    <2> QED
      BY <1>0, <1>1, <2>1, <2>2, <2>3, CommitKeeps
  <1>7. ASSUME NEW c \in Commands, ConnectionChanges(c) PROVE DispatchInv'
    BY <1>1, <1>7 DEF ConnectionChanges
  <1>8. CASE Tick \/ UNCHANGED vars
    BY <1>1, <1>8 DEF Tick, vars
  <1>9. ASSUME NEW w \in Workers, WorkerStep(w) PROVE DispatchInv'
    BY <1>0, <1>9, WorkerStepKeeps
  <1> QED
    BY <1>2, <1>3, <1>4, <1>5, <1>6, <1>7, <1>8, <1>9 DEF Next, Cancel, ExpireNextQueued

LEMMA DispatchInit == Init => DispatchInv
  <1> SUFFICES ASSUME Init PROVE DispatchInv
    OBVIOUS
  <1>1. TypeOK
    BY TypeInit
  <1>2. SenderInv
    BY DEF Init, SenderInv, Idle
  <1>3. WireInv
    BY DEF Init, WireInv
  <1> QED
    BY <1>1, <1>2, <1>3 DEF DispatchInv

\* For any number of Commands and workers, whatever crashes, however stale
\* the transactions' times: a Command leaves the platform at most once.
THEOREM DispatchedAtMostOnce == Spec => []AtMostOneDispatch
  <1>1. DispatchInv => AtMostOneDispatch
    BY DEF DispatchInv, WireInv, AtMostOneDispatch
  <1> QED
    BY <1>1, DispatchInit, DispatchStep, PTL DEF Spec

\* A Command that is still queued, was cancelled, expired in the queue or
\* failed before its dispatch has not been sent and will not be.
THEOREM UnsentStaysUnsent == Spec => []UnsentIsUnsent
  <1>1. DispatchInv => UnsentIsUnsent
    BY DEF DispatchInv, WireInv, SenderInv, UnsentIsUnsent, Committed, TypeOK
  <1> QED
    BY <1>1, DispatchInit, DispatchStep, PTL DEF Spec

-----------------------------------------------------------------------------
(***************************************************************************)
(* What a step may do to a Command.  Every transaction that writes a row   *)
(* of device_commands is one of the kinds below; all other steps leave the *)
(* row, its Events and its results alone.                                  *)
(***************************************************************************)

Becomes(c, row) ==
    /\ row \in CommandRows /\ command'[c] = row
    /\ row.queuedAt = command[c].queuedAt
    /\ \E e : e.status = row.status /\ events'[c] = events[c] \cup {e}
    /\ \E at : RowAllowed(row, at)

KeepsEvidence(c, row) == row.level = command[c].level /\ row.evidence = command[c].evidence

Opens(c) ==
    /\ command[c].status = "none" /\ command'[c] \in CommandRows
    /\ command'[c].status = "queued" /\ command'[c].reason = "" /\ command'[c].level = "none"
    /\ command'[c].evidence = "none" /\ command'[c].sentAt = 0
    /\ \E e : e.status = "queued" /\ events'[c] = {e}
    /\ attempt'[c] = attempt[c] /\ results' = results

Withdraws(c, row) ==
    /\ command[c].status = "queued" /\ Becomes(c, row)
    /\ row.status \in {"cancelled", "timeout", "failed"} /\ row.reason \in UnsentReasons
    /\ row.level = "none" /\ row.evidence = "none" /\ row.sentAt = command[c].sentAt
    /\ attempt'[c].phase \in {"none", "completed"} /\ results' = results

Sends(c, row) ==
    /\ command[c].status = "queued" /\ Becomes(c, row)
    /\ row.status = "sent" /\ KeepsEvidence(c, row) /\ RowAllowed(row, row.sentAt)
    /\ \E w \in Workers : worker[w].pc = "committing" /\ row.sentAt = worker[w].now
    /\ attempt'[c].phase = "dispatching" /\ results' = results

\* The answer of the Provider, or the recovery of a dispatch without one.
IsAnswered(c, row) ==
    /\ command[c].status = "sent" /\ attempt[c].phase = "dispatching" /\ Becomes(c, row)
    /\ \/ row.status = "sent" /\ row.level \in {"transport_sent", "provider_accepted"}
       \/ row.status = "failed" /\ row.reason \in {"provider_transport_error", "provider_rejected"}
    /\ row.sentAt = command[c].sentAt
    /\ attempt'[c].phase = "completed" /\ results' = results

Unobserves(c, row) ==
    /\ command[c].status \in {"sent", "acked"} /\ ~Incomplete(c) /\ Becomes(c, row)
    /\ row.status = "timeout" /\ row.reason = "result_observation_timeout" /\ KeepsEvidence(c, row)
    /\ row.sentAt = command[c].sentAt
    /\ attempt'[c] = attempt[c] /\ results' = results

\* A result that decides, and one that comes too late to.
Decides(c, row, k, outcome) ==
    /\ \/ command[c].status = "sent"
       \/ command[c].status = "acked" /\ outcome # "device_acked"
    /\ Becomes(c, row)
    /\ outcome = "device_acked" => row.status = "acked" /\ row.reason = "" /\ row.level = "device_acked"
    /\ outcome = "device_succeeded" => row.status = "success" /\ row.reason = "" /\ row.level = "device_final"
    /\ outcome = "device_failed" =>
          row.status = "failed" /\ row.reason = "device_reported_failure" /\ row.level = "device_final"
    /\ row.evidence = "verified" /\ row.sentAt = command[c].sentAt /\ attempt'[c] = attempt[c]
    /\ results[k] = NoResult /\ results' = [results EXCEPT ![k] = [cmd |-> c, outcome |-> outcome, late |-> FALSE]]

ComesLate(c, row, k, outcome) ==
    /\ IsTerminal(command[c].status) /\ Becomes(c, row)
    /\ row.status = command[c].status /\ row.reason = command[c].reason
    /\ EvidenceDoesNotRegress(command[c].level, command[c].evidence, row.level, row.evidence)
    /\ row.sentAt = command[c].sentAt /\ attempt'[c] = attempt[c]
    /\ results[k] = NoResult /\ results' = [results EXCEPT ![k] = [cmd |-> c, outcome |-> outcome, late |-> TRUE]]

Writes(c) ==
    \/ Opens(c)
    \/ \E row : Withdraws(c, row) \/ Sends(c, row) \/ IsAnswered(c, row) \/ Unobserves(c, row)
    \/ \E row \in CommandRows, k \in ResultKeys, outcome \in ResultOutcomes :
          Decides(c, row, k, outcome) \/ ComesLate(c, row, k, outcome)

\* A Command that a step is not about: others may get results, and a worker may
\* claim it.
Keeps(c) ==
    /\ command'[c] = command[c] /\ events'[c] = events[c]
    /\ \/ attempt'[c] = attempt[c]
       \/ command[c].status = "queued" /\ attempt'[c].phase = "claimed"
    /\ \A k \in ResultKeys :
          \/ results'[k] = results[k]
          \/ /\ results[k] = NoResult
             /\ \E d \in Commands \ {c}, o \in ResultOutcomes, late \in BOOLEAN :
                   results'[k] = [cmd |-> d, outcome |-> o, late |-> late]

LEMMA CommitWrites ==
    ASSUME TypeOK, NEW c \in Commands, NEW row \in CommandRows, NEW at, NEW type, NEW id,
           Commit(c, row, at, type, id), row.queuedAt = command[c].queuedAt
    PROVE  /\ Becomes(c, row) /\ RowAllowed(row, at)
           /\ \A d \in Commands \ {c} : command'[d] = command[d] /\ events'[d] = events[d]
  <1> DEFINE e == [type |-> type, status |-> row.status, id |-> id]
  <1>1. /\ RowAllowed(row, at) /\ command' = [command EXCEPT ![c] = row]
        /\ events' = [events EXCEPT ![c] = @ \cup {e}]
    BY DEF Commit
  <1>2. e.status = row.status
    OBVIOUS
  <1> HIDE DEF e
  <1> QED
    BY <1>1, <1>2 DEF Becomes, TypeOK

\* The fields of the rows that the transactions build.
LEMMA RowFields ==
    ASSUME TypeOK, NEW c \in Commands, NEW status, NEW reason, NEW level, NEW evidence
    PROVE  LET f == Finished(c, status, reason, level, evidence)
               r == [command[c] EXCEPT !.level = level, !.evidence = evidence]
           IN  /\ f.status = status /\ f.reason = reason /\ f.level = level /\ f.evidence = evidence
               /\ f.queuedAt = command[c].queuedAt /\ f.sentAt = command[c].sentAt
               /\ r.status = command[c].status /\ r.reason = command[c].reason /\ r.level = level
               /\ r.evidence = evidence /\ r.queuedAt = command[c].queuedAt /\ r.sentAt = command[c].sentAt
  <1>1. command[c] \in CommandRows
    BY DEF TypeOK
  <1> QED
    BY <1>1 DEF Finished, CommandRows

LEMMA WithdrawsQueued ==
    ASSUME TypeOK, NEW c \in Commands, NEW at, NEW status \in {"cancelled", "timeout", "failed"},
           NEW reason \in UnsentReasons, command[c].status = "queued",
           StatusChanged(c, Finished(c, status, reason, "none", "none"), at),
           attempt'[c].phase \in {"none", "completed"}, results' = results
    PROVE  /\ Writes(c)
           /\ \A d \in Commands \ {c} : command'[d] = command[d] /\ events'[d] = events[d]
  <1> DEFINE row == Finished(c, status, reason, "none", "none")
  <1>1. row \in CommandRows
    BY RowTypes DEF CommandStatuses, Reasons, UnsentReasons, ConfirmationLevels, EvidenceStatuses, Outcomes
  <1>2. /\ row.status = status /\ row.reason = reason /\ row.level = "none" /\ row.evidence = "none"
        /\ row.queuedAt = command[c].queuedAt /\ row.sentAt = command[c].sentAt
    BY RowFields
  <1>3. Commit(c, row, at, "command.status_changed", "")
    BY DEF StatusChanged
  <1> HIDE DEF row
  <1>4. Becomes(c, row) /\ \A d \in Commands \ {c} : command'[d] = command[d] /\ events'[d] = events[d]
    BY <1>1, <1>2, <1>3, CommitWrites
  <1>5. Withdraws(c, row)
    BY <1>2, <1>4 DEF Withdraws
  <1> QED
    BY <1>4, <1>5 DEF Writes

LEMMA CompletedPhase ==
    ASSUME TypeOK, NEW c \in Commands, NEW outcome, NEW level, NEW evidence,
           attempt' = [attempt EXCEPT ![c] = Completed(c, outcome, level, evidence)]
    PROVE  attempt'[c].phase = "completed" /\ \A d \in Commands \ {c} : attempt'[d] = attempt[d]
  <1>1. attempt[c] \in AttemptRows
    BY DEF TypeOK
  <1>2. Completed(c, outcome, level, evidence).phase = "completed"
    BY <1>1 DEF Completed, AttemptRows
  <1> QED
    BY <1>2 DEF TypeOK

LEMMA OthersKept ==
    ASSUME TypeOK, NEW c \in Commands, NEW d \in Commands, d # c, results' = results,
           command'[d] = command[d], events'[d] = events[d], attempt'[d] = attempt[d]
    PROVE  Keeps(d)
  BY DEF Keeps

\* The steps of a worker.
LEMMA WorkerStepWrites ==
    ASSUME TypeOK, NEW w \in Workers, WorkerStep(w), NEW d \in Commands
    PROVE  Writes(d) \/ Keeps(d)
  <1> DEFINE c == worker[w].cmd
             now == worker[w].now
  <1>0. worker[w] \in WorkerStates /\ (worker[w].pc # "idle" => c \in Commands) /\ now \in Nat
    BY DEF TypeOK, WorkerStates
  <1>1. CASE UNCHANGED <<command, attempt, events, results>>
    BY <1>1 DEF Keeps
  <1>2. CASE ClaimNext(w)
    <2>1. c \in Commands /\ command[c].status = "queued" /\ UNCHANGED <<command, events, results>>
      BY <1>0, <1>2 DEF ClaimNext, Claimable
    <2>2. attempt'[c].phase = "claimed" /\ \A q \in Commands \ {c} : attempt'[q] = attempt[q]
      BY <1>2, <2>1 DEF ClaimNext, NoAttempt, TypeOK
    <2> QED
      BY <2>1, <2>2 DEF Keeps
  <1>3. ASSUME NEW outcome, NEW reason, FailQueued(w, outcome, reason), c \in Commands, results' = results
        PROVE  Writes(d) \/ Keeps(d)
    <2>1. /\ command[c].status = "queued" /\ reason \in UnsentReasons
          /\ attempt' = [attempt EXCEPT ![c] = Completed(c, outcome, "none", "none")]
          /\ StatusChanged(c, Finished(c, "failed", reason, "none", "none"), now)
      BY <1>3 DEF FailQueued, PreDispatchCompletionAllowed, UnsentReasons
    <2>2. attempt'[c].phase = "completed" /\ \A q \in Commands \ {c} : attempt'[q] = attempt[q]
      BY <1>3, <2>1, CompletedPhase
    <2>3. Writes(c) /\ \A q \in Commands \ {c} : command'[q] = command[q] /\ events'[q] = events[q]
      BY <1>3, <2>1, <2>2, WithdrawsQueued
    <2> QED
      BY <1>3, <2>2, <2>3, OthersKept
  <1>4. CASE FailBeforeDispatch(w)
    BY <1>0, <1>3, <1>4 DEF FailBeforeDispatch
  <1>5. CASE FailNotOnline(w)
    BY <1>0, <1>3, <1>5 DEF FailNotOnline
  <1>6. CASE MarkDispatching(w)
    <2> DEFINE row == [command[c] EXCEPT !.status = "sent", !.sentAt = now]
    <2>1. c \in Commands /\ command[c] \in CommandRows /\ attempt[c] \in AttemptRows
      BY <1>0, <1>6 DEF MarkDispatching, TypeOK
    <2>2. row \in CommandRows
      BY <1>0, <2>1 DEF CommandRows, CommandStatuses
    <2>3. /\ row.status = "sent" /\ row.sentAt = now /\ row.queuedAt = command[c].queuedAt
          /\ row.level = command[c].level /\ row.evidence = command[c].evidence
      BY <2>1 DEF CommandRows
    <2>4. /\ Commit(c, row, now, "command.status_changed", "") /\ command[c].status = "queued"
          /\ worker[w].pc = "committing" /\ results' = results
          /\ attempt' = [attempt EXCEPT ![c].phase = "dispatching", ![c].lease = now + DispatchLease]
      BY <1>6 DEF MarkDispatching, StatusChanged
    <2>5. attempt'[c].phase = "dispatching" /\ \A q \in Commands \ {c} : attempt'[q] = attempt[q]
      BY <2>1, <2>4 DEF TypeOK, AttemptRows
    <2> HIDE DEF row
    <2>6. /\ Becomes(c, row) /\ RowAllowed(row, now)
          /\ \A q \in Commands \ {c} : command'[q] = command[q] /\ events'[q] = events[q]
      BY <2>1, <2>2, <2>3, <2>4, CommitWrites
    <2>7. Sends(c, row)
      BY <2>3, <2>4, <2>5, <2>6 DEF Sends, KeepsEvidence
    <2> QED
      BY <2>1, <2>4, <2>5, <2>6, <2>7, OthersKept DEF Writes
  <1>7. CASE PersistResult(w)
    <2> DEFINE answer == worker[w].answer
    <2>1. c \in Commands /\ answer \in WorkerAnswers /\ results' = results /\ CanComplete(w)
      BY <1>0, <1>7 DEF PersistResult, WorkerStates
    <2>2. /\ answer.outcome \in Outcomes /\ answer.level \in ConfirmationLevels
          /\ answer.evidence \in EvidenceStatuses
      BY <2>1, AnswerTypes DEF WellTyped
    <2>3. command[c].status = "sent" /\ attempt[c].phase = "dispatching"
      BY <2>1 DEF CanComplete, AttemptCompletionAllowed
    <2>4. attempt'[c].phase = "completed" /\ \A q \in Commands \ {c} : attempt'[q] = attempt[q]
      BY <1>7, <2>1, CompletedPhase DEF PersistResult
    <2>5. ASSUME RaisesEvidence(c, answer),
                 Commit(c, RaisedRow(c, answer), now, "command.evidence_updated", answer.outcome)
          PROVE  Writes(d) \/ Keeps(d)
      <3> DEFINE row == RaisedRow(c, answer)
      <3>1. row \in CommandRows
        BY <2>1, <2>2, RowTypes DEF RaisedRow, CommandStatuses, Reasons
      <3>2. /\ row.status = "sent" /\ row.level = answer.level
            /\ row.queuedAt = command[c].queuedAt /\ row.sentAt = command[c].sentAt
        BY <2>1, <2>3, RowFields DEF RaisedRow
      <3>3. row.level \in {"transport_sent", "provider_accepted"}
        BY <2>1, <2>5, <3>2 DEF RaisesEvidence, CanComplete, AttemptCompletionAllowed, EvidenceFitsOutcome
      <3> HIDE DEF row
      <3>4. Becomes(c, row) /\ \A q \in Commands \ {c} : command'[q] = command[q] /\ events'[q] = events[q]
        BY <2>1, <2>5, <3>1, <3>2, CommitWrites DEF row
      <3>5. IsAnswered(c, row)
        BY <2>1, <2>3, <2>4, <3>2, <3>3, <3>4 DEF IsAnswered
      <3> QED
        BY <2>1, <2>4, <3>4, <3>5, OthersKept DEF Writes
    <2>6. ASSUME FailsCommand(c, answer), StatusChanged(c, FailedRow(c, answer), now)
          PROVE  Writes(d) \/ Keeps(d)
      <3> DEFINE row == FailedRow(c, answer)
                 reason == ResultReason(answer)
      <3>1. reason \in {"provider_transport_error", "provider_rejected"}
        BY <2>6 DEF FailsCommand, AttemptTransitionMatches
      <3>2. row \in CommandRows
        BY <2>1, <2>2, <3>1, RowTypes DEF FailedRow, CommandStatuses, Reasons
      <3>3. /\ row.status = "failed" /\ row.reason = reason
            /\ row.queuedAt = command[c].queuedAt /\ row.sentAt = command[c].sentAt
        BY <2>1, RowFields DEF FailedRow
      <3>4. Commit(c, row, now, "command.status_changed", "")
        BY <2>6 DEF StatusChanged
      <3> HIDE DEF row, reason
      <3>5. Becomes(c, row) /\ \A q \in Commands \ {c} : command'[q] = command[q] /\ events'[q] = events[q]
        BY <2>1, <3>2, <3>3, <3>4, CommitWrites
      <3>6. IsAnswered(c, row)
        BY <2>1, <2>3, <2>4, <3>1, <3>3, <3>5 DEF IsAnswered
      <3> QED
        BY <2>1, <2>4, <3>5, <3>6, OthersKept DEF Writes
    <2> QED
      BY <1>7, <2>5, <2>6 DEF PersistResult
  <1> QED
    BY <1>1, <1>2, <1>4, <1>5, <1>6, <1>7
    DEF WorkerStep, ClaimSelect, BeginFail, BeginCommit, Dispatch, DispatchReturns, Abandon

\* A result, in time or late.
LEMMA RecordWrites ==
    ASSUME TypeOK, NEW c \in Commands, NEW k \in ResultKeys, NEW outcome \in ResultOutcomes,
           Record(c, k, outcome), NEW d \in Commands
    PROVE  Writes(d) \/ Keeps(d)
  <1> DEFINE late == IsTerminal(command[c].status)
             row == IF late THEN LateRow(c, outcome) ELSE ResultRow(c, outcome)
             result == [cmd |-> c, outcome |-> outcome, late |-> late]
  <1>0. command[c] \in CommandRows /\ late \in BOOLEAN
    BY DEF TypeOK, IsTerminal
  <1>1. /\ results[k] = NoResult /\ results' = [results EXCEPT ![k] = result] /\ attempt' = attempt
        /\ \/ late
           \/ command[c].status = "sent"
           \/ command[c].status = "acked" /\ outcome # "device_acked"
        /\ \E at : Commit(c, row, at, "command.result_recorded", k)
    BY DEF Record
  <1>2. LateRow(c, outcome) \in CommandRows
    BY <1>0 DEF LateRow, CommandRows, ResultLevel, ConfirmationLevels, EvidenceStatuses
  <1>3. ResultRow(c, outcome) \in CommandRows
    BY <1>0 DEF ResultRow, Finished, CommandRows, CommandStatuses, Reasons, ConfirmationLevels, EvidenceStatuses
  <1>4. row \in CommandRows
    BY <1>2, <1>3
  <1>5. /\ late => /\ row.status = command[c].status /\ row.reason = command[c].reason
                   /\ EvidenceDoesNotRegress(command[c].level, command[c].evidence, row.level, row.evidence)
                   /\ row.sentAt = command[c].sentAt /\ row.queuedAt = command[c].queuedAt
    <2> SUFFICES ASSUME late
                 PROVE  /\ row.status = command[c].status /\ row.reason = command[c].reason
                        /\ EvidenceDoesNotRegress(command[c].level, command[c].evidence, row.level, row.evidence)
                        /\ row.sentAt = command[c].sentAt /\ row.queuedAt = command[c].queuedAt
      OBVIOUS
    <2>1. row = LateRow(c, outcome)
      OBVIOUS
    <2>2. CASE EvidenceProgresses(command[c].level, command[c].evidence, ResultLevel(outcome), "verified")
      <3>1. row = [command[c] EXCEPT !.level = ResultLevel(outcome), !.evidence = "verified"]
        BY <2>1, <2>2 DEF LateRow
      <3>2. /\ row.status = command[c].status /\ row.reason = command[c].reason
            /\ row.level = ResultLevel(outcome) /\ row.evidence = "verified"
            /\ row.sentAt = command[c].sentAt /\ row.queuedAt = command[c].queuedAt
        BY <1>0, <3>1 DEF CommandRows
      <3> QED
        BY <2>2, <3>2 DEF EvidenceProgresses, EvidenceDoesNotRegress
    <2>3. CASE ~EvidenceProgresses(command[c].level, command[c].evidence, ResultLevel(outcome), "verified")
      <3>1. row = command[c]
        BY <2>1, <2>3 DEF LateRow
      <3>2. EvidenceDoesNotRegress(command[c].level, command[c].evidence, command[c].level, command[c].evidence)
        BY <1>0 DEF EvidenceDoesNotRegress, CanAdvanceConfirmation, ConfirmationRank, CommandRows, EvidenceStatuses
      <3> QED
        BY <3>1, <3>2
    <2> QED
      BY <2>2, <2>3
  <1>6. ~late =>
           /\ outcome = "device_acked" => row.status = "acked" /\ row.reason = "" /\ row.level = "device_acked"
           /\ outcome = "device_succeeded" => row.status = "success" /\ row.reason = "" /\ row.level = "device_final"
           /\ outcome = "device_failed" =>
                 row.status = "failed" /\ row.reason = "device_reported_failure" /\ row.level = "device_final"
           /\ row.evidence = "verified"
           /\ row.sentAt = command[c].sentAt /\ row.queuedAt = command[c].queuedAt
    BY <1>0 DEF ResultRow, Finished, CommandRows, ResultOutcomes
  <1>7. row.queuedAt = command[c].queuedAt
    BY <1>5, <1>6
  <1>8. late => result = [cmd |-> c, outcome |-> outcome, late |-> TRUE]
    OBVIOUS
  <1>9. ~late => result = [cmd |-> c, outcome |-> outcome, late |-> FALSE]
    BY <1>0
  <1> HIDE DEF row
  <1>10. Becomes(c, row) /\ \A q \in Commands \ {c} : command'[q] = command[q] /\ events'[q] = events[q]
    BY <1>1, <1>4, <1>7, CommitWrites
  <1>11. CASE d = c
    <2>1. CASE late
      <3>1. ComesLate(c, row, k, outcome)
        BY <1>1, <1>5, <1>8, <1>10, <2>1 DEF ComesLate
      <3> QED
        BY <1>4, <1>11, <3>1 DEF Writes
    <2>2. CASE ~late
      <3>1. Decides(c, row, k, outcome)
        BY <1>1, <1>6, <1>9, <1>10, <2>2 DEF Decides
      <3> QED
        BY <1>4, <1>11, <3>1 DEF Writes
    <2> QED
      BY <2>1, <2>2
  <1>12. CASE d # c
    <2>1. ASSUME NEW q \in ResultKeys
          PROVE  \/ results'[q] = results[q]
                 \/ results[q] = NoResult /\ results'[q] = [cmd |-> c, outcome |-> outcome, late |-> late]
      BY <1>1 DEF TypeOK
    <2> QED
      BY <1>0, <1>1, <1>10, <1>12, <2>1 DEF Keeps
  <1> QED
    BY <1>11, <1>12

LEMMA StepWrites ==
    ASSUME TypeOK, [Next]_vars, NEW d \in Commands
    PROVE  Writes(d) \/ Keeps(d)
  <1>1. ASSUME NEW c \in Commands, Create(c) PROVE Writes(d) \/ Keeps(d)
    <2>1. PICK t \in {t \in (clock - Skew) .. (clock + Skew) : t > 0} :
             /\ command' = [command EXCEPT ![c] =
                   [NoCommand EXCEPT !.status = "queued", !.queuedAt = t, !.dispatchDeadline = t + DispatchDeadline]]
             /\ events' = [events EXCEPT ![c] =
                   {[type |-> "command.created", status |-> "queued", id |-> ""]}]
      BY <1>1 DEF Create
    <2> DEFINE row == [NoCommand EXCEPT !.status = "queued", !.queuedAt = t, !.dispatchDeadline = t + DispatchDeadline]
               e == [type |-> "command.created", status |-> "queued", id |-> ""]
    <2>2. /\ row.status = "queued" /\ row.reason = "" /\ row.level = "none" /\ row.evidence = "none" /\ row.sentAt = 0
          /\ e.status = "queued"
      BY DEF NoCommand
    <2>3. TypeOK' /\ command[c].status = "none" /\ UNCHANGED <<attempt, results>>
      BY <1>1, CreateType DEF Create
    <2> HIDE DEF row, e
    <2>4. command' = [command EXCEPT ![c] = row] /\ events' = [events EXCEPT ![c] = {e}]
      BY <2>1 DEF row, e
    <2>5. CASE d = c
      <3>1. command'[c] = row /\ events'[c] = {e} /\ command'[c] \in CommandRows
        BY <2>3, <2>4 DEF TypeOK
      <3>2. Opens(c)
        BY <2>2, <2>3, <3>1 DEF Opens
      <3> QED
        BY <2>5, <3>2 DEF Writes
    <2>6. CASE d # c
      BY <2>3, <2>4, <2>6, OthersKept DEF TypeOK
    <2> QED
      BY <2>5, <2>6
  <1>2. ASSUME NEW c \in Commands, NEW status \in {"cancelled", "timeout", "failed"}, NEW reason \in UnsentReasons,
               FinishQueued(c, status, reason)
        PROVE  Writes(d) \/ Keeps(d)
    <2>1. /\ command[c].status = "queued" /\ results' = results
          /\ StatusChanged(c, Finished(c, status, reason, "none", "none"), clock)
      BY <1>2 DEF FinishQueued
    <2>2. attempt'[c].phase \in {"none", "completed"} /\ \A q \in Commands \ {c} : attempt'[q] = attempt[q]
      <3>1. CASE Incomplete(c)
        BY <1>2, <3>1, CompletedPhase DEF FinishQueued
      <3>2. CASE ~Incomplete(c)
        BY <1>2, <3>2 DEF FinishQueued, Incomplete, TypeOK, AttemptRows, Phases
      <3> QED
        BY <3>1, <3>2
    <2>3. Writes(c) /\ \A q \in Commands \ {c} : command'[q] = command[q] /\ events'[q] = events[q]
      BY <2>1, <2>2, WithdrawsQueued
    <2> QED
      BY <2>1, <2>2, <2>3, OthersKept
  <1>3. ASSUME NEW c \in Commands, RecoverNext(c) PROVE Writes(d) \/ Keeps(d)
    <2> DEFINE row == [command[c] EXCEPT !.level = "transport_sent", !.evidence = "unverified"]
    <2>1. row \in CommandRows
      BY RowTypes DEF CommandStatuses, Reasons, ConfirmationLevels, EvidenceStatuses, Outcomes
    <2>2. /\ row.status = command[c].status /\ row.level = "transport_sent"
          /\ row.queuedAt = command[c].queuedAt /\ row.sentAt = command[c].sentAt
      BY RowFields
    <2>3. /\ command[c].status = "sent" /\ attempt[c].phase = "dispatching" /\ results' = results
          /\ Commit(c, row, clock, "command.evidence_updated", "recovered")
          /\ attempt' = [attempt EXCEPT ![c] = Completed(c, "indeterminate", "transport_sent", "unverified")]
      BY <1>3 DEF RecoverNext, RecoveredRow, RecoveredAttempt
    <2>4. attempt'[c].phase = "completed" /\ \A q \in Commands \ {c} : attempt'[q] = attempt[q]
      BY <2>3, CompletedPhase
    <2> HIDE DEF row
    <2>5. Becomes(c, row) /\ \A q \in Commands \ {c} : command'[q] = command[q] /\ events'[q] = events[q]
      BY <2>1, <2>2, <2>3, CommitWrites
    <2>6. IsAnswered(c, row)
      BY <2>2, <2>3, <2>4, <2>5 DEF IsAnswered
    <2> QED
      BY <2>3, <2>4, <2>5, <2>6, OthersKept DEF Writes
  <1>4. ASSUME NEW c \in Commands, ExpireNextResultObservation(c) PROVE Writes(d) \/ Keeps(d)
    <2> DEFINE row == Unobserved(c)
    <2>1. command[c] \in CommandRows
      BY DEF TypeOK
    <2>2. /\ row \in CommandRows /\ row.status = "timeout" /\ row.reason = "result_observation_timeout"
          /\ row.level = command[c].level /\ row.evidence = command[c].evidence
          /\ row.queuedAt = command[c].queuedAt /\ row.sentAt = command[c].sentAt
      BY <2>1 DEF Unobserved, CommandRows, CommandStatuses, Reasons
    <2>3. /\ command[c].status \in {"sent", "acked"} /\ ~Incomplete(c) /\ UNCHANGED <<attempt, results>>
          /\ Commit(c, row, clock, "command.status_changed", "")
      BY <1>4 DEF ExpireNextResultObservation, ObservationOver, StatusChanged
    <2> HIDE DEF row
    <2>4. Becomes(c, row) /\ \A q \in Commands \ {c} : command'[q] = command[q] /\ events'[q] = events[q]
      BY <2>2, <2>3, CommitWrites
    <2>5. Unobserves(c, row)
      BY <2>2, <2>3, <2>4 DEF Unobserves, KeepsEvidence
    <2> QED
      BY <2>3, <2>4, <2>5, OthersKept DEF Writes
  <1>5. CASE UNCHANGED <<command, attempt, events, results>>
    BY <1>5 DEF Keeps
  <1>6. ASSUME NEW c \in Commands, Cancel(c) PROVE Writes(d) \/ Keeps(d)
    BY <1>2, <1>6 DEF Cancel, UnsentReasons
  <1>7. ASSUME NEW c \in Commands, ExpireNextQueued(c) PROVE Writes(d) \/ Keeps(d)
    BY <1>2, <1>7 DEF ExpireNextQueued, UnsentReasons
  <1> QED
    BY <1>1, <1>3, <1>4, <1>5, <1>6, <1>7, WorkerStepWrites, RecordWrites DEF Next, vars, ConnectionChanges, Tick


\* A row is rewritten under another status only from a status that is not
\* terminal.
LEMMA WritesStatus ==
    ASSUME NEW c \in Commands, Writes(c)
    PROVE  \/ command'[c].status = "queued" /\ \E e : e.status = "queued" /\ events'[c] = {e}
           \/ /\ command'[c].status = command[c].status \/ ~IsTerminal(command[c].status)
              /\ \E e : e.status = command'[c].status /\ events'[c] = events[c] \cup {e}
  <1>1. CASE Opens(c)
    BY <1>1 DEF Opens
  <1>2. ASSUME NEW row, Becomes(c, row)
        PROVE  \E e : e.status = command'[c].status /\ events'[c] = events[c] \cup {e}
    BY <1>2 DEF Becomes
  <1>3. ASSUME NEW row, Withdraws(c, row) \/ Sends(c, row) \/ IsAnswered(c, row) \/ Unobserves(c, row)
        PROVE  Becomes(c, row) /\ ~IsTerminal(command[c].status)
    BY <1>3 DEF Withdraws, Sends, IsAnswered, Unobserves, IsTerminal
  <1>4. ASSUME NEW row, NEW k, NEW outcome, Decides(c, row, k, outcome)
        PROVE  Becomes(c, row) /\ ~IsTerminal(command[c].status)
    BY <1>4 DEF Decides, IsTerminal
  <1>5. ASSUME NEW row, NEW k, NEW outcome, ComesLate(c, row, k, outcome)
        PROVE  Becomes(c, row) /\ command'[c].status = command[c].status
    BY <1>5 DEF ComesLate, Becomes
  <1> QED
    BY <1>1, <1>2, <1>3, <1>4, <1>5 DEF Writes

\* Every status a Command reaches (commandservice, commandworker, the recovery
\* loops and commandresultservice alike) is announced by an Event of the same
\* transaction, and no two different terminal statuses are ever announced.
THEOREM StatusesAnnounced == Spec => []StatusAnnounced
  <1>1. Init => StatusAnnounced
    <2> SUFFICES ASSUME Init, NEW c \in Commands
                 PROVE  command[c].status = "none" /\ {e.status : e \in events[c]} = {}
      BY DEF StatusAnnounced
    <2> QED
      BY DEF Init, NoCommand
  <1>2. TypeOK /\ StatusAnnounced /\ [Next]_vars => StatusAnnounced'
    <2> SUFFICES ASSUME TypeOK, StatusAnnounced, [Next]_vars, NEW c \in Commands
                 PROVE  LET announced == {e.status : e \in events'[c]}
                        IN  /\ command'[c].status # "none" => command'[c].status \in announced
                            /\ \A s \in announced : IsTerminal(s) => s = command'[c].status
      BY DEF StatusAnnounced
    <2>0. /\ command[c].status # "none" => command[c].status \in {e.status : e \in events[c]}
          /\ \A s \in {e.status : e \in events[c]} : IsTerminal(s) => s = command[c].status
      BY DEF StatusAnnounced
    <2>1. CASE command'[c] = command[c] /\ events'[c] = events[c]
      BY <2>0, <2>1
    <2>2. CASE command'[c].status = "queued" /\ \E e : e.status = "queued" /\ events'[c] = {e}
      BY <2>2 DEF IsTerminal
    <2>3. CASE /\ command'[c].status = command[c].status \/ ~IsTerminal(command[c].status)
               /\ \E e : e.status = command'[c].status /\ events'[c] = events[c] \cup {e}
      <3>1. PICK e : e.status = command'[c].status /\ events'[c] = events[c] \cup {e}
        BY <2>3
      <3>2. {x.status : x \in events'[c]} = {x.status : x \in events[c]} \cup {command'[c].status}
        BY <3>1
      <3> QED
        BY <2>0, <2>3, <3>2
    <2> QED
      BY <2>1, <2>2, <2>3, StepWrites, WritesStatus DEF Keeps
  <1> QED
    BY <1>1, <1>2, TypeCorrect, PTL DEF Spec


-----------------------------------------------------------------------------
(***************************************************************************)
(* What a stored row says.  The CHECK constraints hold of every row, but   *)
(* they do not say how far the evidence of a sent Command may have come;   *)
(* that depends on its Attempt: nothing is confirmed before an answer is   *)
(* stored, and what the answer or the recovery leaves is never nothing.    *)
(***************************************************************************)

RowChecks(row) ==
    ReasonCheck(row) /\ ReasonEvidenceCheck(row) /\ StatusConfirmationCheck(row) /\ StatusTimingCheck(row)

\* A row together with the phase of its latest Attempt.
RowSound(row, phase) ==
    /\ row.status = "none" => row.level = "none" /\ row.evidence = "none" /\ row.sentAt = 0 /\ row.reason = ""
    /\ row.status # "none" => RowChecks(row)
    /\ row.sentAt # 0 => row.queuedAt <= row.sentAt
    /\ row.status = "sent" =>
          IF phase = "dispatching" THEN row.level = "none"
                                   ELSE row.level \in {"transport_sent", "provider_accepted"}
    /\ row.status = "acked" => row.level = "device_acked"

RowInv == \A c \in Commands : RowSound(command[c], attempt[c].phase)

LEMMA BecomesChecked ==
    ASSUME NEW c \in Commands, NEW row, Becomes(c, row)
    PROVE  RowChecks(row) /\ row \in CommandRows /\ command'[c] = row /\ row.queuedAt = command[c].queuedAt
  BY DEF Becomes, RowAllowed, RowChecks

LEMMA RowStep ==
    ASSUME TypeOK, RowInv, [Next]_vars
    PROVE  RowInv'
  <1> SUFFICES ASSUME NEW c \in Commands PROVE RowSound(command'[c], attempt'[c].phase)
    BY DEF RowInv
  <1>0. RowSound(command[c], attempt[c].phase)
    BY DEF RowInv
  <1>1. CASE Keeps(c)
    BY <1>0, <1>1 DEF Keeps, RowSound
  <1>2. CASE Opens(c)
    <2>1. RowChecks(command'[c])
      BY <1>2 DEF Opens, RowChecks, ReasonCheck, ReasonEvidenceCheck, StatusConfirmationCheck, StatusTimingCheck
    <2> QED
      BY <1>2, <2>1 DEF Opens, RowSound
  <1>3. ASSUME NEW row, Withdraws(c, row) PROVE RowSound(command'[c], attempt'[c].phase)
    BY <1>0, <1>3, BecomesChecked DEF Withdraws, RowSound
  <1>4. ASSUME NEW row, Sends(c, row) PROVE RowSound(command'[c], attempt'[c].phase)
    <2>1. row.level = "none"
      BY <1>0, <1>4 DEF Sends, KeepsEvidence, RowSound, RowChecks, StatusConfirmationCheck
    <2>2. row.queuedAt <= row.sentAt
      BY <1>4, BecomesChecked DEF Sends, RowAllowed, CommandRows
    <2> QED
      BY <1>4, <2>1, <2>2, BecomesChecked DEF Sends, RowSound
  <1>5. ASSUME NEW row, IsAnswered(c, row) PROVE RowSound(command'[c], attempt'[c].phase)
    BY <1>0, <1>5, BecomesChecked DEF IsAnswered, RowSound
  <1>6. ASSUME NEW row, Unobserves(c, row) PROVE RowSound(command'[c], attempt'[c].phase)
    BY <1>0, <1>6, BecomesChecked DEF Unobserves, RowSound
  <1>7. ASSUME NEW row, NEW k, NEW outcome \in ResultOutcomes, Decides(c, row, k, outcome)
        PROVE  RowSound(command'[c], attempt'[c].phase)
    BY <1>0, <1>7, BecomesChecked DEF Decides, RowSound, ResultOutcomes
  <1>8. ASSUME NEW row, NEW k, NEW outcome, ComesLate(c, row, k, outcome)
        PROVE  RowSound(command'[c], attempt'[c].phase)
    BY <1>0, <1>8, BecomesChecked DEF ComesLate, RowSound, IsTerminal
  <1> QED
    BY <1>1, <1>2, <1>3, <1>4, <1>5, <1>6, <1>7, <1>8, StepWrites DEF Writes

LEMMA RowInit == Init => RowInv
  <1> SUFFICES ASSUME Init, NEW c \in Commands PROVE RowSound(command[c], attempt[c].phase)
    BY DEF RowInv
  <1>1. /\ command[c].status = "none" /\ command[c].level = "none" /\ command[c].evidence = "none"
        /\ command[c].sentAt = 0 /\ command[c].reason = ""
    BY DEF Init, NoCommand
  <1> QED
    BY <1>1 DEF RowSound

LEMMA RowsSound == Spec => [](TypeOK /\ RowInv)
  <1>1. TypeOK /\ RowInv /\ [Next]_vars => RowInv'
    BY RowStep
  <1> QED
    BY <1>1, RowInit, TypeCorrect, PTL DEF Spec

LEMMA EvidenceKept ==
    ASSUME TypeOK, NEW c \in Commands
    PROVE  EvidenceDoesNotRegress(command[c].level, command[c].evidence, command[c].level, command[c].evidence)
  BY DEF EvidenceDoesNotRegress, CanAdvanceConfirmation, ConfirmationRank, TypeOK, CommandRows, EvidenceStatuses

LEMMA EvidenceStep ==
    ASSUME TypeOK, RowInv, [Next]_vars, NEW c \in Commands
    PROVE  EvidenceDoesNotRegress(command[c].level, command[c].evidence, command'[c].level, command'[c].evidence)
  <1> DEFINE goal == EvidenceDoesNotRegress(command[c].level, command[c].evidence,
                                            command'[c].level, command'[c].evidence)
  <1>0. RowSound(command[c], attempt[c].phase) /\ command[c] \in CommandRows
    BY DEF RowInv, TypeOK
  <1>1. ASSUME command'[c].level = command[c].level, command'[c].evidence = command[c].evidence PROVE goal
    BY <1>1, EvidenceKept
  <1>2. ASSUME command[c].level = "none", command[c].evidence = "none", command'[c] \in CommandRows PROVE goal
    BY <1>2 DEF EvidenceDoesNotRegress, CanAdvanceConfirmation, ConfirmationRank, CommandRows, ConfirmationLevels
  <1>3. CASE Opens(c)
    BY <1>0, <1>2, <1>3 DEF Opens, RowSound
  <1>4. ASSUME NEW row, Withdraws(c, row) \/ IsAnswered(c, row) PROVE goal
    <2>1. command[c].level = "none" /\ command[c].evidence = "none"
      BY <1>0, <1>4 DEF Withdraws, IsAnswered, RowSound, RowChecks, StatusConfirmationCheck
    <2>2. command'[c] \in CommandRows
      BY <1>4, BecomesChecked DEF Withdraws, IsAnswered
    <2> QED
      BY <1>2, <2>1, <2>2
  <1>5. ASSUME NEW row, Sends(c, row) \/ Unobserves(c, row) PROVE goal
    BY <1>1, <1>5, BecomesChecked DEF Sends, Unobserves, KeepsEvidence
  <1>6. ASSUME NEW row, NEW k, NEW outcome \in ResultOutcomes, Decides(c, row, k, outcome) PROVE goal
    <2>1. command[c].level \in {"none", "transport_sent", "provider_accepted", "device_acked"}
      BY <1>0, <1>6 DEF Decides, RowSound
    <2>2. command'[c] = row /\ row.evidence = "verified" /\ row.level \in {"device_acked", "device_final"}
      BY <1>6, BecomesChecked DEF Decides, ResultOutcomes
    <2> QED
      BY <2>1, <2>2 DEF EvidenceDoesNotRegress, CanAdvanceConfirmation, ConfirmationRank
  <1>7. ASSUME NEW row, NEW k, NEW outcome, ComesLate(c, row, k, outcome) PROVE goal
    BY <1>7, BecomesChecked DEF ComesLate
  <1>8. CASE Keeps(c)
    BY <1>1, <1>8 DEF Keeps
  <1> QED
    BY <1>3, <1>4, <1>5, <1>6, <1>7, <1>8, StepWrites DEF Writes

\* The evidence a Command carries is never lowered: not by the recovery, which
\* overwrites it unread, nor by an answer, the observation scanner or a result
\* of the Device, in whatever order they reach the row.
THEOREM EvidenceNeverFalls == Spec => EvidenceMonotone
  <1>1. TypeOK /\ RowInv /\ [Next]_vars =>
          [\A c \in Commands : EvidenceDoesNotRegress(command[c].level, command[c].evidence,
                                                      command'[c].level, command'[c].evidence)]_vars
    BY EvidenceStep
  <1> QED
    BY <1>1, RowsSound, PTL DEF Spec, EvidenceMonotone


-----------------------------------------------------------------------------
(***************************************************************************)
(* Leases.  Only two kinds of transaction take a Command out of queued:    *)
(* those of the worker whose token and lease they check, and finishQueued, *)
(* which passes no live claim.                                             *)
(***************************************************************************)

LEMMA CommitsOne ==
    ASSUME TypeOK, NEW c \in Commands, NEW row, NEW at, NEW type, NEW id, Commit(c, row, at, type, id),
           NEW d \in Commands, command'[d] # command[d]
    PROVE  d = c
  BY DEF Commit, TypeOK

LEMMA LeaseStep ==
    ASSUME TypeOK, [Next]_vars, NEW d \in Commands, command[d].status = "queued",
           command'[d].status # "queued", attempt[d].phase = "claimed", attempt[d].lease > clock
    PROVE  \E w \in Workers : /\ worker[w].cmd = d /\ worker[w].token = attempt[d].token
                              /\ worker'[w] # worker[w]
  <1> DEFINE goal == \E w \in Workers : /\ worker[w].cmd = d /\ worker[w].token = attempt[d].token
                                        /\ worker'[w] # worker[w]
  <1>0. command'[d] # command[d]
    OBVIOUS
  <1>1. ASSUME NEW w \in Workers, worker[w].cmd \in Commands, HoldsLease(w), worker[w].pc # worker'[w].pc,
               NEW row, NEW at, NEW type, NEW id, Commit(worker[w].cmd, row, at, type, id)
        PROVE  goal
    BY <1>0, <1>1, CommitsOne DEF HoldsLease
  <1>2. ASSUME NEW c \in Commands, command[c].status # "queued",
               NEW row, NEW at, NEW type, NEW id, Commit(c, row, at, type, id)
        PROVE  goal
    BY <1>0, <1>2, CommitsOne
  <1>3. ASSUME NEW w \in Workers, NEW outcome, NEW reason, FailQueued(w, outcome, reason), Release(w),
               worker[w].pc # "idle"
        PROVE  goal
    <2>1. worker[w].cmd \in Commands /\ worker'[w].pc = "idle"
      BY <1>3 DEF TypeOK, Release, Idle
    <2> QED
      BY <1>1, <1>3, <2>1 DEF FailQueued, StatusChanged
  <1>4. ASSUME NEW w \in Workers, WorkerStep(w) PROVE goal
    <2>1. CASE FailBeforeDispatch(w)
      BY <1>3, <2>1 DEF FailBeforeDispatch
    <2>2. CASE FailNotOnline(w)
      BY <1>3, <2>2 DEF FailNotOnline
    <2>3. CASE MarkDispatching(w)
      <3>1. worker[w].cmd \in Commands /\ worker[w].pc # worker'[w].pc
        BY <2>3 DEF MarkDispatching, TypeOK, WorkerStates
      <3> QED
        BY <1>1, <2>3, <3>1 DEF MarkDispatching, StatusChanged
    <2>4. CASE PersistResult(w)
      <3>1. worker[w].cmd \in Commands /\ command[worker[w].cmd].status = "sent"
        BY <2>4 DEF PersistResult, CanComplete, TypeOK
      <3> QED
        BY <1>2, <2>4, <3>1 DEF PersistResult, StatusChanged
    <2>5. CASE command' = command
      BY <1>0, <2>5
    <2> QED
      BY <1>4, <2>1, <2>2, <2>3, <2>4, <2>5
      DEF WorkerStep, ClaimSelect, ClaimNext, BeginFail, BeginCommit, Dispatch, DispatchReturns, Abandon
  <1>5. ASSUME NEW c \in Commands, NEW status, NEW reason, FinishQueued(c, status, reason) PROVE goal
    BY <1>0, <1>5, CommitsOne DEF FinishQueued, StatusChanged, Owned, Incomplete
  <1>6. ASSUME NEW c \in Commands, Create(c) PROVE goal
    BY <1>0, <1>6 DEF Create, TypeOK
  <1>7. ASSUME NEW c \in Commands, RecoverNext(c) PROVE goal
    BY <1>2, <1>7 DEF RecoverNext
  <1>8. ASSUME NEW c \in Commands, ExpireNextResultObservation(c) PROVE goal
    BY <1>2, <1>8 DEF ExpireNextResultObservation, ObservationOver, StatusChanged
  <1>9. ASSUME NEW c \in Commands, NEW k \in ResultKeys, NEW outcome \in ResultOutcomes, Record(c, k, outcome)
        PROVE  goal
    BY <1>2, <1>9 DEF Record, IsTerminal
  <1>10. CASE command' = command
    BY <1>0, <1>10
  <1> QED
    BY <1>4, <1>5, <1>6, <1>7, <1>8, <1>9, <1>10
    DEF Next, vars, Cancel, ExpireNextQueued, ConnectionChanges, Tick

\* What AttemptsFinal says of one Attempt.
AttemptKept(d) ==
    attempt'[d] # attempt[d] =>
        /\ attempt[d].phase = "completed" => attempt'[d].no > attempt[d].no
        /\ attempt[d].phase = "dispatching" /\ attempt[d].lease > clock =>
              \E w \in Workers :
                 /\ worker[w].pc = "persisting"
                 /\ worker[w].cmd = d /\ worker[w].token = attempt[d].token
                 /\ worker'[w] # worker[w]

\* Claims, and what ends a claim: the Attempt was neither completed nor dispatching,
\* or a completed one is followed by the next.
LEMMA ClaimKeepsAttempts ==
    ASSUME TypeOK, NEW d \in Commands, NEW w \in Workers, ClaimNext(w)
    PROVE  AttemptKept(d)
  <1> DEFINE c == worker[w].cmd
  <1>1. CASE d = c
    <2>1. attempt[d].phase # "dispatching"
      BY <1>1 DEF ClaimNext, Claimable, Owned, Incomplete
    <2>2. attempt[d].no \in Nat /\ attempt \in [Commands -> AttemptRows]
      BY DEF TypeOK, AttemptRows
    <2>3. attempt'[d].no = NextNo(d)
      BY <1>1, <2>2 DEF ClaimNext, NoAttempt
    <2>4. attempt[d].phase = "completed" => NextNo(d) = attempt[d].no + 1
      BY DEF NextNo, Incomplete
    <2> QED
      BY <2>1, <2>2, <2>3, <2>4 DEF AttemptKept
  <1>2. CASE d # c
    BY <1>2 DEF ClaimNext, AttemptKept, TypeOK
  <1> QED
    BY <1>1, <1>2

LEMMA AttemptStep ==
    ASSUME TypeOK, [Next]_vars, NEW d \in Commands
    PROVE  AttemptKept(d)
  <1>1. ASSUME NEW c \in Commands, NEW row, attempt' = [attempt EXCEPT ![c] = row],
               attempt[c].phase \notin {"completed", "dispatching"}
        PROVE  AttemptKept(d)
    BY <1>1 DEF AttemptKept, TypeOK
  <1>2. CASE attempt' = attempt
    BY <1>2 DEF AttemptKept
  <1>3. ASSUME NEW w \in Workers, worker[w].cmd \in Commands, NEW outcome, NEW reason,
               FailQueued(w, outcome, reason)
        PROVE  AttemptKept(d)
    BY <1>1, <1>3 DEF FailQueued, PreDispatchCompletionAllowed
  <1>4. ASSUME NEW w \in Workers, PersistResult(w) PROVE AttemptKept(d)
    <2>1. /\ worker[w].pc = "persisting" /\ worker[w].token = attempt[worker[w].cmd].token
          /\ attempt[worker[w].cmd].phase = "dispatching"
      BY <1>4 DEF PersistResult, CanComplete, HoldsLease, AttemptCompletionAllowed
    <2>2. worker'[w].pc = "idle"
      BY <1>4 DEF PersistResult, Release, Idle, TypeOK
    <2>3. attempt'[d] # attempt[d] => worker[w].cmd = d
      BY <1>4 DEF PersistResult, TypeOK
    <2> QED
      BY <2>1, <2>2, <2>3 DEF AttemptKept
  <1>5. ASSUME NEW w \in Workers, WorkerStep(w) PROVE AttemptKept(d)
    <2>1. CASE ClaimNext(w)
      BY <2>1, ClaimKeepsAttempts
    <2>2. CASE FailBeforeDispatch(w) \/ FailNotOnline(w)
      <3>1. worker[w].cmd \in Commands
        BY <2>2 DEF FailBeforeDispatch, FailNotOnline, TypeOK
      <3> QED
        BY <1>3, <2>2, <3>1 DEF FailBeforeDispatch, FailNotOnline
    <2>3. CASE MarkDispatching(w)
      <3>1. worker[w].cmd \in Commands /\ attempt[worker[w].cmd].phase = "claimed"
        BY <2>3 DEF MarkDispatching, TypeOK
      <3>2. d # worker[w].cmd => attempt'[d] = attempt[d]
        BY <2>3, <3>1 DEF MarkDispatching, TypeOK
      <3> QED
        BY <3>1, <3>2 DEF AttemptKept
    <2>4. CASE PersistResult(w)
      BY <1>4, <2>4
    <2> QED
      BY <1>2, <1>5, <2>1, <2>2, <2>3, <2>4
      DEF WorkerStep, ClaimSelect, BeginFail, BeginCommit, Dispatch, DispatchReturns, Abandon
  <1>6. ASSUME NEW c \in Commands, NEW status, NEW reason, FinishQueued(c, status, reason)
        PROVE  AttemptKept(d)
    <2>1. CASE Incomplete(c)
      BY <1>1, <1>6, <2>1 DEF FinishQueued, Owned, Incomplete
    <2>2. CASE ~Incomplete(c)
      BY <1>2, <1>6, <2>2 DEF FinishQueued
    <2> QED
      BY <2>1, <2>2
  <1>7. ASSUME NEW c \in Commands, RecoverNext(c) PROVE AttemptKept(d)
    <2>1. attempt[c].lease \in Nat /\ clock \in Nat
      BY DEF TypeOK, AttemptRows
    <2>2. /\ attempt[c].phase = "dispatching" /\ ~(attempt[c].lease > clock)
          /\ d # c => attempt'[d] = attempt[d]
      BY <1>7, <2>1 DEF RecoverNext, TypeOK
    <2> QED
      BY <2>2 DEF AttemptKept
  <1> QED
    BY <1>2, <1>5, <1>6, <1>7
    DEF Next, vars, Cancel, ExpireNextQueued, ConnectionChanges, Tick, Create,
        ExpireNextResultObservation, Record

\* While a claim's lease is valid only the worker that holds its token takes the
\* Command out of queued, Cancel and the deadline scanner never pass it; and what
\* an Attempt came to is decided once: by its worker while the lease is valid, and by
\* nobody after it is completed.
THEOREM LeasesRespected == Spec => LeaseRespected
  <1>1. TypeOK /\ [Next]_vars =>
          [\A c \in Commands :
              /\ command[c].status = "queued" /\ command'[c].status # "queued"
              /\ attempt[c].phase = "claimed" /\ attempt[c].lease > clock
              => \E w \in Workers :
                    /\ worker[w].cmd = c /\ worker[w].token = attempt[c].token
                    /\ worker'[w] # worker[w]]_vars
    BY LeaseStep
  <1>2. TypeOK /\ [Next]_vars =>
          [\A c \in Commands : attempt'[c] # attempt[c] =>
              /\ attempt[c].phase = "completed" => attempt'[c].no > attempt[c].no
              /\ attempt[c].phase = "dispatching" /\ attempt[c].lease > clock =>
                    \E w \in Workers :
                       /\ worker[w].pc = "persisting"
                       /\ worker[w].cmd = c /\ worker[w].token = attempt[c].token
                       /\ worker'[w] # worker[w]]_vars
    BY AttemptStep DEF AttemptKept
  <1> QED
    BY <1>1, <1>2, TypeCorrect, PTL DEF Spec, LeaseRespected, ClaimRespected, AttemptsFinal


-----------------------------------------------------------------------------
(***************************************************************************)
(* Device results.  A result that is not late is the one that decides, and *)
(* that is read off the results alone: the invariant says which results    *)
(* are there for every status and reason a row may have.                   *)
(***************************************************************************)

Timely(table, c, o) == {k \in ResultKeys : table[k] = [cmd |-> c, outcome |-> o, late |-> FALSE]}

DecidedBy(table, c) == Timely(table, c, "device_succeeded") \cup Timely(table, c, "device_failed")

ResultSound(row, table, c) ==
    /\ row.status = "success" <=> Timely(table, c, "device_succeeded") # {}
    /\ row.reason = "device_reported_failure" <=> Timely(table, c, "device_failed") # {}
    /\ row.status = "acked" => Timely(table, c, "device_acked") # {}
    /\ DecidedBy(table, c) = {} \/ \E k : DecidedBy(table, c) = {k}

ResultInv == \A c \in Commands : ResultSound(command[c], results, c)

\* The records of two results are equal only if their fields are.
LEMMA ResultRecords ==
    ASSUME NEW c, NEW o, NEW late, NEW d, NEW p, NEW l
    PROVE  /\ [cmd |-> c, outcome |-> o, late |-> late] = [cmd |-> d, outcome |-> p, late |-> l] =>
                 c = d /\ o = p /\ late = l
           /\ o # "none" => [cmd |-> c, outcome |-> o, late |-> late] # NoResult
  <1>1. ASSUME [cmd |-> c, outcome |-> o, late |-> late] = [cmd |-> d, outcome |-> p, late |-> l]
        PROVE  c = d /\ o = p /\ late = l
    <2>1. /\ [cmd |-> c, outcome |-> o, late |-> late].cmd = [cmd |-> d, outcome |-> p, late |-> l].cmd
          /\ [cmd |-> c, outcome |-> o, late |-> late].outcome = [cmd |-> d, outcome |-> p, late |-> l].outcome
          /\ [cmd |-> c, outcome |-> o, late |-> late].late = [cmd |-> d, outcome |-> p, late |-> l].late
      BY <1>1, Zenon
    <2> QED
      BY <2>1
  <1>2. ASSUME [cmd |-> c, outcome |-> o, late |-> late] = NoResult PROVE o = "none"
    <2>1. [cmd |-> c, outcome |-> o, late |-> late].outcome = NoResult.outcome
      BY <1>2, Zenon
    <2> QED
      BY <2>1 DEF NoResult
  <1> QED
    BY <1>1, <1>2

\* A table that gains only results of other Commands, or late ones, says the
\* same of a Command.
LEMMA TimelyKept ==
    ASSUME NEW c \in Commands, NEW o \in ResultOutcomes,
           \A k \in ResultKeys :
              \/ results'[k] = results[k]
              \/ /\ results[k] = NoResult
                 /\ \E d \in Commands, p \in ResultOutcomes, late \in BOOLEAN :
                       /\ results'[k] = [cmd |-> d, outcome |-> p, late |-> late]
                       /\ d # c \/ late
    PROVE  Timely(results', c, o) = Timely(results, c, o)
  <1>1. ASSUME NEW k \in ResultKeys
        PROVE  results'[k] = [cmd |-> c, outcome |-> o, late |-> FALSE] <=>
                   results[k] = [cmd |-> c, outcome |-> o, late |-> FALSE]
    <2>1. CASE results'[k] = results[k]
      BY <2>1
    <2>2. ASSUME results[k] = NoResult, NEW d \in Commands, NEW p \in ResultOutcomes, NEW late \in BOOLEAN,
                 results'[k] = [cmd |-> d, outcome |-> p, late |-> late], d # c \/ late
          PROVE  /\ results'[k] # [cmd |-> c, outcome |-> o, late |-> FALSE]
                 /\ results[k] # [cmd |-> c, outcome |-> o, late |-> FALSE]
      <3>1. o # "none"
        BY DEF ResultOutcomes
      <3> QED
        BY <2>2, <3>1, ResultRecords
    <2> QED
      BY <2>1, <2>2
  <1> QED
    BY <1>1 DEF Timely

\* A timely result of a Command is seen in its own outcome and in no other.
LEMMA TimelyAdded ==
    ASSUME TypeOK, NEW c \in Commands, NEW o \in ResultOutcomes, NEW k \in ResultKeys, NEW p \in ResultOutcomes,
           results[k] = NoResult,
           results' = [results EXCEPT ![k] = [cmd |-> c, outcome |-> p, late |-> FALSE]]
    PROVE  Timely(results', c, o) = IF o = p THEN Timely(results, c, o) \cup {k} ELSE Timely(results, c, o)
  <1>1. results'[k] = [cmd |-> c, outcome |-> p, late |-> FALSE]
    BY DEF TypeOK
  <1>2. \A j \in ResultKeys \ {k} : results'[j] = results[j]
    BY DEF TypeOK
  <1>3. results'[k] = [cmd |-> c, outcome |-> o, late |-> FALSE] <=> o = p
    <2>1. [cmd |-> c, outcome |-> o, late |-> FALSE] = [cmd |-> c, outcome |-> p, late |-> FALSE] => o = p
      BY ResultRecords, Zenon
    <2> QED
      BY <1>1, <2>1
  <1>4. results[k] # [cmd |-> c, outcome |-> o, late |-> FALSE]
    <2>1. o # "none"
      BY DEF ResultOutcomes
    <2>2. [cmd |-> c, outcome |-> o, late |-> FALSE] # NoResult
      BY <2>1, ResultRecords, Zenon
    <2> QED
      BY <2>2
  <1> QED
    BY <1>2, <1>3, <1>4 DEF Timely


LEMMA ResultStep ==
    ASSUME TypeOK, RowInv, ResultInv, [Next]_vars
    PROVE  ResultInv'
  <1> SUFFICES ASSUME NEW c \in Commands PROVE ResultSound(command'[c], results', c)
    BY DEF ResultInv
  <1>0. ResultSound(command[c], results, c) /\ RowSound(command[c], attempt[c].phase)
    BY DEF ResultInv, RowInv
  <1>00. /\ "device_succeeded" \in ResultOutcomes /\ "device_failed" \in ResultOutcomes
         /\ "device_acked" \in ResultOutcomes
    BY DEF ResultOutcomes
  <1> DEFINE same == \A o \in ResultOutcomes : Timely(results', c, o) = Timely(results, c, o)
             sound == ResultSound(command'[c], results', c)
  <1>1. results' = results => same
    BY DEF Timely
  \* An open Command has no result that decided it.
  <1>2. ASSUME command[c].status \in {"none", "queued", "sent", "acked"}
        PROVE  Timely(results, c, "device_succeeded") = {} /\ Timely(results, c, "device_failed") = {}
    BY <1>0, <1>2 DEF ResultSound, RowSound, RowChecks, ReasonCheck
  <1>3. ASSUME command[c].status \in {"none", "queued", "sent", "acked"}, same,
               command'[c].status \notin {"success", "acked"}, command'[c].reason # "device_reported_failure"
        PROVE  sound
    BY <1>00, <1>2, <1>3 DEF ResultSound, DecidedBy
  <1>4. CASE Keeps(c)
    <2>1. same
      BY <1>4, TimelyKept DEF Keeps
    <2> QED
      BY <1>0, <1>00, <1>4, <2>1 DEF Keeps, ResultSound, DecidedBy
  <1>5. CASE Opens(c)
    BY <1>1, <1>3, <1>5 DEF Opens
  <1>6. ASSUME NEW row, Withdraws(c, row) \/ Sends(c, row) \/ IsAnswered(c, row) \/ Unobserves(c, row)
        PROVE  sound
    <2>1. command[c].status \in {"queued", "sent", "acked"} /\ results' = results /\ Becomes(c, row)
      BY <1>6 DEF Withdraws, Sends, IsAnswered, Unobserves
    <2>2. row.status \in {"cancelled", "timeout", "failed", "sent"} /\ row.reason # "device_reported_failure"
      BY <1>6, <2>1, BecomesChecked
      DEF Withdraws, Sends, IsAnswered, Unobserves, UnsentReasons, PrepareFailures, RowChecks, ReasonCheck
    <2> QED
      BY <1>1, <1>3, <2>1, <2>2, BecomesChecked
  <1>7. ASSUME NEW row \in CommandRows, NEW k \in ResultKeys, NEW outcome \in ResultOutcomes,
               Decides(c, row, k, outcome)
        PROVE  sound
    <2>1. /\ \A o \in ResultOutcomes : Timely(results', c, o) =
                IF o = outcome THEN Timely(results, c, o) \cup {k} ELSE Timely(results, c, o)
      BY <1>7, TimelyAdded DEF Decides
    <2>2. Timely(results, c, "device_succeeded") = {} /\ Timely(results, c, "device_failed") = {}
      BY <1>2, <1>7 DEF Decides
    <2>3. command'[c] = row
      BY <1>7, BecomesChecked DEF Decides
    <2>4. CASE outcome = "device_acked"
      BY <1>00, <1>7, <2>1, <2>2, <2>3, <2>4 DEF Decides, ResultSound, DecidedBy
    <2>5. CASE outcome = "device_succeeded"
      BY <1>00, <1>7, <2>1, <2>2, <2>3, <2>5 DEF Decides, ResultSound, DecidedBy
    <2>6. CASE outcome = "device_failed"
      BY <1>00, <1>7, <2>1, <2>2, <2>3, <2>6 DEF Decides, ResultSound, DecidedBy
    <2> QED
      BY <2>4, <2>5, <2>6 DEF ResultOutcomes
  <1>8. ASSUME NEW row \in CommandRows, NEW k \in ResultKeys, NEW outcome \in ResultOutcomes,
               ComesLate(c, row, k, outcome)
        PROVE  sound
    <2>1. \A j \in ResultKeys :
             \/ results'[j] = results[j]
             \/ results[j] = NoResult /\ results'[j] = [cmd |-> c, outcome |-> outcome, late |-> TRUE]
      BY <1>8 DEF ComesLate, TypeOK
    <2>2. same
      BY <2>1, TimelyKept
    <2>3. command'[c] = row /\ row.status = command[c].status /\ row.reason = command[c].reason
      BY <1>8, BecomesChecked DEF ComesLate
    <2> QED
      BY <1>0, <1>00, <2>2, <2>3 DEF ResultSound, DecidedBy
  <1> QED
    BY <1>4, <1>5, <1>6, <1>7, <1>8, StepWrites DEF Writes

LEMMA ResultInit == Init => ResultInv
  <1> SUFFICES ASSUME Init, NEW c \in Commands PROVE ResultSound(command[c], results, c)
    BY DEF ResultInv
  <1>1. command[c].status = "none" /\ command[c].reason = ""
    BY DEF Init, NoCommand
  <1>2. ASSUME NEW o \in ResultOutcomes PROVE Timely(results, c, o) = {}
    <2>1. o # "none"
      BY DEF ResultOutcomes
    <2>2. [cmd |-> c, outcome |-> o, late |-> FALSE] # NoResult
      BY <2>1, ResultRecords, Zenon
    <2>3. \A k \in ResultKeys : results[k] = NoResult
      BY DEF Init
    <2> QED
      BY <2>2, <2>3 DEF Timely
  <1> QED
    BY <1>1, <1>2 DEF ResultSound, DecidedBy, ResultOutcomes

\* What a Device reports decides a Command exactly once: a success or a reported
\* failure (commandresultservice.Record) stands if and only if a timely result
\* says so, and at most one final result is timely, however many arrive.
THEOREM OneResultDecides == Spec => []ResultsDecide
  <1>1. ResultInv => ResultsDecide
    <2> SUFFICES ASSUME ResultInv, NEW c \in Commands
                 PROVE  /\ command[c].status = "success" <=> Timely(results, c, "device_succeeded") # {}
                        /\ command[c].reason = "device_reported_failure" <=>
                              Timely(results, c, "device_failed") # {}
                        /\ command[c].status = "acked" => Timely(results, c, "device_acked") # {}
                        /\ Cardinality(DecidedBy(results, c)) <= 1
      BY DEF ResultsDecide, Timely, DecidedBy
    <2>1. ResultSound(command[c], results, c)
      BY DEF ResultInv
    <2>2. Cardinality(DecidedBy(results, c)) <= 1
      <3>1. ASSUME NEW k PROVE Cardinality({k}) = 1
        BY FS_Singleton
      <3>2. Cardinality({}) = 0
        BY FS_EmptySet
      <3> QED
        BY <2>1, <3>1, <3>2 DEF ResultSound
    <2> QED
      BY <2>1, <2>2 DEF ResultSound
  <1>2. TypeOK /\ RowInv /\ ResultInv /\ [Next]_vars => ResultInv'
    BY ResultStep
  <1> QED
    BY <1>1, <1>2, ResultInit, RowsSound, PTL DEF Spec


-----------------------------------------------------------------------------
(***************************************************************************)
(* Nothing is stranded.  What is added here is what a worker knows between *)
(* the commit of a dispatch and the storing of its answer: its Command is  *)
(* out of queued for good, so sent_at does not move any more, the answer   *)
(* is one of its Provider's, and its transaction began after sent_at.      *)
(***************************************************************************)

Sending == {"dispatching", "waiting", "persisting"}

WorkerSound(m) ==
    /\ m.now <= clock
    /\ m.pc \in Sending => command[m.cmd].status \notin {"none", "queued"}
    /\ m.pc = "persisting" =>
          /\ m.answer \in {UnsentAnswer} \cup SentAnswers(ProviderOf[m.cmd])
          /\ command[m.cmd].sentAt <= m.now

TimeInv ==
    /\ \A w \in Workers : WorkerSound(worker[w])
    /\ \A c \in Commands : command[c].sentAt <= clock

\* What a step may do to the memory of a worker.
Moves(w) ==
    \/ worker'[w] = worker[w]
    \/ worker'[w].pc \notin Sending /\ worker'[w].now \in {0, clock, worker[w].now}
    \/ /\ worker'[w].pc = "dispatching" /\ worker'[w].now = 0
       /\ command'[worker'[w].cmd].status = "sent"
    \/ /\ worker[w].pc = "dispatching" /\ worker'[w].pc = "waiting"
       /\ worker'[w].cmd = worker[w].cmd /\ worker'[w].now = worker[w].now
    \/ /\ worker[w].pc \in Sending /\ worker'[w].pc = "persisting"
       /\ worker'[w].cmd = worker[w].cmd /\ worker'[w].now = clock /\ command' = command
       /\ worker'[w].answer \in {UnsentAnswer} \cup SentAnswers(ProviderOf[worker[w].cmd])

LEMMA StepMoves ==
    ASSUME TypeOK, [Next]_vars, NEW v \in Workers
    PROVE  Moves(v)
  <1>1. CASE worker' = worker
    BY <1>1 DEF Moves
  <1>2. ASSUME NEW w \in Workers, WorkerStep(w) PROVE Moves(v)
    <2>0. worker[w] \in WorkerStates
      BY DEF TypeOK
    <2>1. \A u \in Workers \ {w} : worker'[u] = worker[u]
      BY <1>2 DEF WorkerStep, ClaimSelect, ClaimNext, BeginFail, FailBeforeDispatch, BeginCommit, FailNotOnline,
                  MarkDispatching, Dispatch, DispatchReturns, PersistResult, Abandon, Release, TypeOK
    <2>2. ASSUME NEW c \in Commands, ClaimSelect(w, c) PROVE Moves(w)
      BY <2>2 DEF ClaimSelect, Idle, Moves, Sending, TypeOK
    <2>3. ASSUME ClaimNext(w) PROVE Moves(w)
      BY <2>0, <2>3 DEF ClaimNext, Moves, Sending, TypeOK, WorkerStates
    <2>4. ASSUME NEW reason, BeginFail(w, reason) PROVE Moves(w)
      BY <2>0, <2>4 DEF BeginFail, Moves, Sending, TypeOK, WorkerStates
    <2>5. ASSUME BeginCommit(w) PROVE Moves(w)
      BY <2>0, <2>5 DEF BeginCommit, Moves, Sending, TypeOK, WorkerStates
    <2>6. ASSUME Release(w) PROVE Moves(w)
      BY <2>6 DEF Release, Idle, Moves, Sending, TypeOK
    <2>7. ASSUME MarkDispatching(w) PROVE Moves(w)
      <3> DEFINE row == [command[worker[w].cmd] EXCEPT !.status = "sent", !.sentAt = worker[w].now]
      <3>1. worker[w].cmd \in Commands /\ row.status = "sent"
        BY <2>7 DEF MarkDispatching, TypeOK, CommandRows
      <3>2. command' = [command EXCEPT ![worker[w].cmd] = row]
        BY <2>7 DEF MarkDispatching, StatusChanged, Commit
      <3>3. worker'[w].pc = "dispatching" /\ worker'[w].now = 0 /\ worker'[w].cmd = worker[w].cmd
        BY <2>0, <2>7 DEF MarkDispatching, TypeOK, WorkerStates
      <3> HIDE DEF row
      <3>4. command'[worker'[w].cmd].status = "sent"
        BY <3>1, <3>2, <3>3 DEF TypeOK
      <3> QED
        BY <3>3, <3>4, Zenon DEF Moves
    <2>8. ASSUME Dispatch(w) PROVE Moves(w)
      BY <2>0, <2>8 DEF Dispatch, Moves, Sending, TypeOK, WorkerStates
    <2>9. ASSUME DispatchReturns(w) PROVE Moves(w)
      <3>1. PICK answer \in Answers :
               /\ \/ worker[w].pc = "dispatching" /\ answer = UnsentAnswer
                  \/ worker[w].pc = "waiting" /\ answer \in SentAnswers(ProviderOf[worker[w].cmd])
               /\ worker' = [worker EXCEPT ![w].pc = "persisting", ![w].now = clock, ![w].answer = answer]
        BY <2>9 DEF DispatchReturns
      <3>2. /\ worker'[w].pc = "persisting" /\ worker'[w].cmd = worker[w].cmd /\ worker'[w].now = clock
            /\ worker'[w].answer = answer
        BY <2>0, <3>1 DEF TypeOK, WorkerStates
      <3> QED
        <4>1. worker[w].pc \in Sending /\ command' = command
          BY <2>9, <3>1 DEF DispatchReturns, Sending
        <4>2. worker'[w].answer \in {UnsentAnswer} \cup SentAnswers(ProviderOf[worker[w].cmd])
          BY <3>1, <3>2
        <4> QED
          BY <3>2, <4>1, <4>2, Zenon DEF Moves
    <2>10. Moves(w)
      <3>1. ASSUME FailBeforeDispatch(w) \/ FailNotOnline(w) \/ PersistResult(w) \/ Abandon(w) PROVE Release(w)
        BY <3>1 DEF FailBeforeDispatch, FailNotOnline, PersistResult, Abandon
      <3> QED
        BY <1>2, <2>2, <2>3, <2>4, <2>5, <2>6, <2>7, <2>8, <2>9, <3>1, Zenon DEF WorkerStep
    <2> QED
      BY <2>1, <2>10 DEF Moves
  <1> QED
    BY <1>1, <1>2 DEF Next, vars, Create, Cancel, RecoverNext, ExpireNextQueued, FinishQueued,
                      ExpireNextResultObservation, Record, ConnectionChanges, Tick

\* Once a Command is out of queued it stays out, and its sent_at stays.
LEMMA OutOfQueued ==
    ASSUME TypeOK, [Next]_vars, NEW c \in Commands, command[c].status \notin {"none", "queued"}
    PROVE  command'[c].status \notin {"none", "queued"} /\ command'[c].sentAt = command[c].sentAt
  <1>1. CASE Keeps(c)
    BY <1>1 DEF Keeps
  <1>2. CASE Opens(c)
    BY <1>2 DEF Opens
  <1>3. ASSUME NEW row, Withdraws(c, row) \/ Sends(c, row)
        PROVE  FALSE
    BY <1>3 DEF Withdraws, Sends
  <1>4. ASSUME NEW row, IsAnswered(c, row) \/ Unobserves(c, row)
        PROVE  command'[c].status \notin {"none", "queued"} /\ command'[c].sentAt = command[c].sentAt
    BY <1>4, BecomesChecked DEF IsAnswered, Unobserves
  <1>5. ASSUME NEW row, NEW k, NEW outcome \in ResultOutcomes, Decides(c, row, k, outcome)
        PROVE  command'[c].status \notin {"none", "queued"} /\ command'[c].sentAt = command[c].sentAt
    BY <1>5, BecomesChecked DEF Decides, ResultOutcomes
  <1>6. ASSUME NEW row, NEW k, NEW outcome, ComesLate(c, row, k, outcome)
        PROVE  command'[c].status \notin {"none", "queued"} /\ command'[c].sentAt = command[c].sentAt
    BY <1>6, BecomesChecked DEF ComesLate
  <1> QED
    BY <1>1, <1>2, <1>3, <1>4, <1>5, <1>6, StepWrites DEF Writes

\* A sent_at is stored only with the time of a worker's transaction.
LEMMA SentAtChange ==
    ASSUME TypeOK, [Next]_vars, NEW c \in Commands
    PROVE  \/ command'[c].sentAt = command[c].sentAt
           \/ command'[c].sentAt = 0
           \/ \E w \in Workers : command'[c].sentAt = worker[w].now
  <1>1. CASE Keeps(c)
    BY <1>1 DEF Keeps
  <1>2. CASE Opens(c)
    BY <1>2 DEF Opens
  <1>3. ASSUME NEW row, Withdraws(c, row) \/ IsAnswered(c, row) \/ Unobserves(c, row)
        PROVE  command'[c].sentAt = command[c].sentAt
    BY <1>3, BecomesChecked DEF Withdraws, IsAnswered, Unobserves
  <1>4. ASSUME NEW row, Sends(c, row)
        PROVE  \E w \in Workers : command'[c].sentAt = worker[w].now
    BY <1>4, BecomesChecked DEF Sends
  <1>5. ASSUME NEW row, NEW k, NEW outcome, Decides(c, row, k, outcome) \/ ComesLate(c, row, k, outcome)
        PROVE  command'[c].sentAt = command[c].sentAt
    BY <1>5, BecomesChecked DEF Decides, ComesLate
  <1> QED
    BY <1>1, <1>2, <1>3, <1>4, <1>5, StepWrites DEF Writes

LEMMA TimeStep ==
    ASSUME TypeOK, TimeInv, [Next]_vars
    PROVE  TimeInv'
  <1>1. TypeOK' /\ clock' >= clock
    <2>1. TypeOK'
      BY TypeStep
    <2>2. clock' = clock \/ clock' = clock + 1
      BY DEF Next, vars, WorkerStep, ClaimSelect, ClaimNext, BeginFail, FailBeforeDispatch, BeginCommit,
             FailNotOnline, MarkDispatching, Dispatch, DispatchReturns, PersistResult, Abandon, Create, Cancel,
             RecoverNext, ExpireNextQueued, FinishQueued, ExpireNextResultObservation, Record,
             ConnectionChanges, Tick
    <2> QED
      BY <2>1, <2>2 DEF TypeOK
  <1>2. ASSUME NEW c \in Commands PROVE command'[c].sentAt <= clock'
    <2>1. command'[c].sentAt <= clock
      BY SentAtChange DEF TimeInv, TypeOK, WorkerSound
    <2>2. command'[c].sentAt \in Nat /\ clock \in Nat /\ clock' \in Nat
      BY <1>1 DEF TypeOK, CommandRows
    <2> QED
      BY <1>1, <2>1, <2>2
  <1>3. ASSUME NEW w \in Workers PROVE WorkerSound(worker[w])'
    <2>0. /\ WorkerSound(worker[w]) /\ worker[w].now \in Nat /\ worker'[w].now \in Nat
          /\ clock \in Nat /\ clock' \in Nat
      BY <1>1 DEF TimeInv, TypeOK, WorkerStates
    <2>1. worker'[w].now <= clock'
      <3>1. worker'[w].now \in {0, clock, worker[w].now}
        BY StepMoves DEF Moves
      <3> QED
        BY <1>1, <2>0, <3>1 DEF WorkerSound
    <2>2. worker[w].pc \in Sending => worker[w].cmd \in Commands
      BY DEF TypeOK, Sending
    <2>3. CASE worker'[w] = worker[w]
      BY <2>0, <2>1, <2>2, <2>3, OutOfQueued DEF WorkerSound, Sending
    <2>4. CASE worker'[w].pc \notin Sending
      BY <2>1, <2>4 DEF WorkerSound, Sending
    <2>5. CASE worker'[w].pc = "dispatching" /\ command'[worker'[w].cmd].status = "sent"
      BY <2>1, <2>5 DEF WorkerSound, Sending
    <2>6. CASE worker[w].pc = "dispatching" /\ worker'[w].pc = "waiting" /\ worker'[w].cmd = worker[w].cmd
      BY <2>0, <2>1, <2>2, <2>6, OutOfQueued DEF WorkerSound, Sending
    <2>7. CASE /\ worker[w].pc \in Sending /\ worker'[w].pc = "persisting"
               /\ worker'[w].cmd = worker[w].cmd /\ worker'[w].now = clock /\ command' = command
               /\ worker'[w].answer \in {UnsentAnswer} \cup SentAnswers(ProviderOf[worker[w].cmd])
      BY <2>0, <2>1, <2>2, <2>7 DEF WorkerSound, TimeInv
    <2> QED
      BY <2>3, <2>4, <2>5, <2>6, <2>7, StepMoves DEF Moves
  <1> QED
    BY <1>2, <1>3 DEF TimeInv

LEMMA TimeInit == Init => TimeInv
  <1> SUFFICES ASSUME Init PROVE TimeInv
    OBVIOUS
  <1>1. ASSUME NEW w \in Workers PROVE worker[w].pc = "idle" /\ worker[w].now = 0 /\ clock = 1
    BY DEF Init, Idle
  <1>2. ASSUME NEW c \in Commands PROVE command[c].sentAt = 0 /\ clock = 1
    BY DEF Init, NoCommand
  <1> QED
    BY <1>1, <1>2 DEF TimeInv, WorkerSound, Sending

LEMMA TimesSound == Spec => [](TypeOK /\ RowInv /\ TimeInv)
  <1>1. TypeOK /\ TimeInv /\ [Next]_vars => TimeInv'
    BY TimeStep
  <1> QED
    BY <1>1, TimeInit, RowsSound, PTL DEF Spec


\* What every adapter's answer is, field by field.
LEMMA AnswerCases ==
    ASSUME NEW p \in ProviderCodes, NEW answer \in {UnsentAnswer} \cup SentAnswers(p)
    PROVE  \/ /\ answer.outcome = "transport_error_before_send" /\ answer.reason = "provider_transport_error"
              /\ answer.level = "none" /\ answer.evidence = "none"
           \/ /\ answer.outcome = "indeterminate" /\ answer.level = "transport_sent" /\ answer.evidence = "verified"
              /\ answer.reason \in {"provider_delivery_unknown", "provider_response_invalid"}
              /\ p = "omni" => answer.reason = "provider_delivery_unknown"
           \/ /\ answer.outcome = "provider_rejected" /\ answer.reason = "" /\ answer.level = "transport_sent"
              /\ p # "omni" /\ answer.evidence = IF p = "wwtiot" THEN "unverified" ELSE "verified"
           \/ /\ answer.outcome = "provider_accepted" /\ answer.reason = "" /\ answer.level = "provider_accepted"
              /\ p # "omni" /\ answer.evidence = IF p = "wwtiot" THEN "unverified" ELSE "verified"
  <1>0. \A a \in {Unknown, Invalid} :
           /\ a.outcome = "indeterminate" /\ a.level = "transport_sent" /\ a.evidence = "verified"
           /\ a.reason \in {"provider_delivery_unknown", "provider_response_invalid"}
    BY DEF Unknown, Invalid, Answer
  <1>1. CASE answer = UnsentAnswer
    BY <1>1 DEF UnsentAnswer, Answer
  <1>2. CASE p = "wwtiot" /\ answer \in WwtiotAnswers
    <2>1. CASE answer \in {Unknown, Invalid}
      BY <1>0, <1>2, <2>1
    <2>2. CASE answer = Answer("provider_rejected", "", "transport_sent", "unverified")
      BY <1>2, <2>2 DEF Answer
    <2>3. CASE answer = Answer("provider_accepted", "", "provider_accepted", "unverified")
      BY <1>2, <2>3 DEF Answer
    <2> QED
      BY <1>1, <1>2, <2>1, <2>2, <2>3 DEF WwtiotAnswers
  <1>3. CASE p = "omni" /\ answer \in OmniAnswers
    BY <1>3 DEF OmniAnswers, Unknown, Answer
  <1>4. CASE p = "simulator" /\ answer \in SimulatorAnswers
    <2>1. CASE answer \in {Unknown, Invalid}
      BY <1>0, <1>4, <2>1
    <2>2. CASE answer = Answer("provider_rejected", "", "transport_sent", "verified")
      BY <1>4, <2>2 DEF Answer
    <2>3. CASE answer = Answer("provider_accepted", "", "provider_accepted", "verified")
      BY <1>4, <2>3 DEF Answer
    <2> QED
      BY <1>4, <2>1, <2>2, <2>3 DEF SimulatorAnswers
  <1> QED
    BY <1>1, <1>2, <1>3, <1>4 DEF SentAnswers, ProviderCodes

\* The tables accept every answer of the Command's own Provider.
LEMMA AnswerCompletes ==
    ASSUME NEW p \in ProviderCodes, NEW answer \in {UnsentAnswer} \cup SentAnswers(p)
    PROVE  AttemptCompletionAllowed(p, "dispatching", answer)
  <1>1. ReasonFitsOutcome(answer.outcome, ResultReason(answer))
    BY AnswerCases DEF ReasonFitsOutcome, ResultReason
  <1>2. EvidenceFitsOutcome(p, answer, ResultReason(answer))
    BY AnswerCases DEF EvidenceFitsOutcome, ResultReason
  <1> QED
    BY <1>1, <1>2 DEF AttemptCompletionAllowed

\* The CHECKs accept the row the answer turns a dispatched Command into.
LEMMA AnswerAllowed ==
    ASSUME TypeOK, RowInv, NEW c \in Commands, command[c].status = "sent", attempt[c].phase = "dispatching",
           NEW answer \in {UnsentAnswer} \cup SentAnswers(ProviderOf[c]),
           NEW now \in Nat, command[c].sentAt <= now
    PROVE  \/ RaisesEvidence(c, answer) /\ RowAllowed(RaisedRow(c, answer), now)
           \/ FailsCommand(c, answer) /\ RowAllowed(FailedRow(c, answer), now)
  <1>0. command[c] \in CommandRows /\ RowSound(command[c], "dispatching") /\ ProviderOf[c] \in ProviderCodes
    BY ConstantsAssumption DEF TypeOK, RowInv
  <1>1. /\ command[c].level = "none" /\ command[c].evidence = "none" /\ command[c].reason = ""
        /\ command[c].sentAt # 0 /\ command[c].queuedAt <= command[c].sentAt
    <2>1. RowChecks(command[c]) /\ command[c].level = "none"
      BY <1>0 DEF RowSound
    <2>2. command[c].evidence = "none"
      BY <2>1 DEF RowChecks, StatusConfirmationCheck
    <2>3. command[c].reason = ""
      BY <2>1 DEF RowChecks, ReasonCheck
    <2>4. command[c].sentAt # 0
      BY <2>1 DEF RowChecks, StatusTimingCheck
    <2> QED
      <3>1. command[c].queuedAt <= command[c].sentAt
        BY <1>0, <2>4 DEF RowSound
      <3> QED
        BY <2>1, <2>2, <2>3, <2>4, <3>1
  <1>2. now >= command[c].queuedAt /\ now >= command[c].sentAt
    <2>1. command[c].queuedAt \in Nat /\ command[c].sentAt \in Nat
      BY <1>0 DEF CommandRows
    <2>2. \A q, s, n \in Nat : q <= s /\ s <= n => n >= q /\ n >= s
      OBVIOUS
    <2>3. command[c].queuedAt <= command[c].sentAt
      BY <1>1
    <2> QED
      BY <2>1, <2>2, <2>3
  <1>3. CASE /\ answer.outcome \in {"indeterminate", "provider_accepted"}
             /\ answer.level \in {"transport_sent", "provider_accepted"}
             /\ answer.evidence \in {"verified", "unverified"}
    <2> DEFINE row == RaisedRow(c, answer)
    <2>1. /\ row.status = "sent" /\ row.reason = "" /\ row.level = answer.level /\ row.evidence = answer.evidence
          /\ row.sentAt = command[c].sentAt /\ row.queuedAt = command[c].queuedAt
      BY <1>0, <1>1 DEF RaisedRow, CommandRows
    <2>2. RaisesEvidence(c, answer)
      <3>1. ConfirmationRank("none") = 0 /\ ConfirmationRank(answer.level) >= 0 /\ answer.level # "none"
        BY <1>3 DEF ConfirmationRank
      <3> QED
        BY <1>1, <1>3, <3>1 DEF RaisesEvidence, EvidenceProgresses, CanAdvanceConfirmation
    <2> HIDE DEF row
    <2>3. RowAllowed(row, now)
      BY <1>1, <1>2, <1>3, <2>1
      DEF RowAllowed, ReasonCheck, ReasonEvidenceCheck, StatusConfirmationCheck, StatusTimingCheck
    <2> QED
      BY <2>2, <2>3 DEF row
  <1>4. CASE \/ /\ answer.outcome = "transport_error_before_send"
                /\ answer.level = "none" /\ answer.evidence = "none"
             \/ /\ answer.outcome = "provider_rejected" /\ answer.level = "transport_sent"
                /\ answer.evidence \in {"verified", "unverified"}
    <2> DEFINE row == FailedRow(c, answer)
    <2>0. /\ answer.outcome = "transport_error_before_send" => ResultReason(answer) = "provider_transport_error"
          /\ answer.outcome = "provider_rejected" => ResultReason(answer) = "provider_rejected"
      BY DEF ResultReason
    <2>1. /\ row.status = "failed" /\ row.reason = ResultReason(answer)
          /\ row.level = answer.level /\ row.evidence = answer.evidence
          /\ row.sentAt = command[c].sentAt /\ row.queuedAt = command[c].queuedAt
      BY RowFields DEF FailedRow
    <2>2. FailsCommand(c, answer)
      <3>1. ConfirmationRank("none") = 0 /\ ConfirmationRank(answer.level) >= 0
        BY <1>4 DEF ConfirmationRank
      <3>2. EvidenceDoesNotRegress(command[c].level, command[c].evidence, answer.level, answer.evidence)
        BY <1>1, <3>1 DEF EvidenceDoesNotRegress, CanAdvanceConfirmation
      <3>3. AttemptTransitionMatches(answer.outcome, "sent", "failed", ResultReason(answer))
        BY <1>4, <2>0 DEF AttemptTransitionMatches, CanTransitionCommand
      <3> QED
        BY <3>2, <3>3 DEF FailsCommand
    <2> HIDE DEF row
    <2>3. RowAllowed(row, now)
      BY <1>1, <1>2, <1>4, <2>0, <2>1
      DEF RowAllowed, ReasonCheck, ReasonEvidenceCheck, StatusConfirmationCheck, StatusTimingCheck
    <2> QED
      BY <2>2, <2>3 DEF row
  <1> QED
    BY <1>0, <1>3, <1>4, AnswerCases

LEMMA AnswersStorable == TypeOK /\ RowInv /\ TimeInv => AnswerStorable
  <1> SUFFICES ASSUME TypeOK, RowInv, TimeInv, NEW w \in Workers,
                      worker[w].pc = "persisting", HoldsLease(w),
                      command[worker[w].cmd].status = "sent", attempt[worker[w].cmd].phase = "dispatching"
               PROVE  /\ CanComplete(w)
                      /\ \/ /\ RaisesEvidence(worker[w].cmd, worker[w].answer)
                            /\ RowAllowed(RaisedRow(worker[w].cmd, worker[w].answer), worker[w].now)
                         \/ /\ FailsCommand(worker[w].cmd, worker[w].answer)
                            /\ RowAllowed(FailedRow(worker[w].cmd, worker[w].answer), worker[w].now)
    BY DEF AnswerStorable
  <1>1. worker[w].cmd \in Commands /\ worker[w].now \in Nat /\ ProviderOf[worker[w].cmd] \in ProviderCodes
    BY ConstantsAssumption DEF TypeOK, WorkerStates
  <1>2. /\ worker[w].answer \in {UnsentAnswer} \cup SentAnswers(ProviderOf[worker[w].cmd])
        /\ command[worker[w].cmd].sentAt <= worker[w].now
    BY DEF TimeInv, WorkerSound
  <1>3. CanComplete(w)
    BY <1>1, <1>2, AnswerCompletes DEF CanComplete
  <1> QED
    BY <1>1, <1>2, <1>3, AnswerAllowed

LEMMA ScannerAccepted == TypeOK /\ RowInv => ScannerNotRejected
  <1> SUFFICES ASSUME TypeOK, RowInv, NEW c \in Commands, ObservationOver(c)
               PROVE  RowAllowed(Unobserved(c), clock)
    BY DEF ScannerNotRejected
  <1>0. command[c] \in CommandRows /\ RowSound(command[c], attempt[c].phase) /\ clock \in Nat
    BY DEF TypeOK, RowInv
  <1> DEFINE row == Unobserved(c)
  <1>1. /\ row.status = "timeout" /\ row.reason = "result_observation_timeout"
        /\ row.level = command[c].level /\ row.evidence = command[c].evidence
        /\ row.queuedAt = command[c].queuedAt /\ row.sentAt = command[c].sentAt
    BY <1>0 DEF Unobserved, CommandRows
  <1>2. /\ command[c].status \in {"sent", "acked"} /\ attempt[c].phase # "dispatching"
        /\ command[c].sentAt + ResultTimeout <= clock
    BY DEF ObservationOver, Incomplete
  <1>3. command[c].level \in {"transport_sent", "provider_accepted", "device_acked"}
    BY <1>0, <1>2 DEF RowSound
  <1>4. /\ command[c].sentAt # 0 /\ command[c].queuedAt <= command[c].sentAt
        /\ command[c].level = "none" <=> command[c].evidence = "none"
        /\ command[c].level = "device_acked" => command[c].evidence = "verified"
    BY <1>0, <1>2 DEF RowSound, RowChecks, StatusConfirmationCheck, StatusTimingCheck
  <1>5. clock >= command[c].queuedAt /\ clock >= command[c].sentAt
    BY <1>0, <1>2, <1>4, ConstantsAssumption DEF CommandRows
  <1> HIDE DEF row
  <1>6. RowAllowed(row, clock)
    BY <1>1, <1>3, <1>4, <1>5
    DEF RowAllowed, ReasonCheck, ReasonEvidenceCheck, StatusConfirmationCheck, StatusTimingCheck
  <1> QED
    BY <1>6 DEF row

\* The answer of an adapter that arrives in time is always storable, and the
\* observation scanner is never refused its update: commandworker's answers, the
\* repository's tables and the database's CHECKs agree for every Provider, with
\* and without results of Devices.
THEOREM AnswersFit == Spec => [](AnswerStorable /\ ScannerNotRejected)
  BY AnswersStorable, ScannerAccepted, TimesSound, PTL

LEMMA ClosedStep ==
    ASSUME ResultKeys = {}, TypeOK, ClosedCommandClosesAttempt, [Next]_vars
    PROVE  ClosedCommandClosesAttempt'
  <1> SUFFICES ASSUME NEW c \in Commands, IsTerminal(command'[c].status)
               PROVE  attempt'[c].phase \notin {"claimed", "dispatching"}
    BY DEF ClosedCommandClosesAttempt, Incomplete
  <1>1. CASE Keeps(c)
    BY <1>1 DEF Keeps, ClosedCommandClosesAttempt, Incomplete, IsTerminal
  <1>2. CASE Opens(c)
    BY <1>2 DEF Opens, IsTerminal
  <1>3. ASSUME NEW row, Withdraws(c, row) \/ Sends(c, row) \/ IsAnswered(c, row) \/ Unobserves(c, row)
        PROVE  attempt'[c].phase \notin {"claimed", "dispatching"}
    BY <1>3, BecomesChecked DEF Withdraws, Sends, IsAnswered, Unobserves, Incomplete, IsTerminal
  <1> QED
    BY <1>1, <1>2, <1>3, StepWrites DEF Writes

\* As the server is wired (no route records Device results yet) no row is left
\* where nothing looks at it again: no open Attempt under a closed Command, no
\* answer the tables refuse, no Command its scanner can never update.
THEOREM NothingIsStranded == ResultKeys = {} => (Spec => []NothingStranded)
  <1> SUFFICES ASSUME ResultKeys = {} PROVE Spec => []NothingStranded
    OBVIOUS
  <1>1. Init => ClosedCommandClosesAttempt
    <2> SUFFICES ASSUME Init, NEW c \in Commands PROVE command[c].status = "none"
      BY DEF ClosedCommandClosesAttempt, IsTerminal
    <2> QED
      BY DEF Init, NoCommand
  <1>2. TypeOK /\ ClosedCommandClosesAttempt /\ [Next]_vars => ClosedCommandClosesAttempt'
    BY ClosedStep
  <1> QED
    BY <1>1, <1>2, TypeCorrect, AnswersFit, PTL DEF Spec, NothingStranded

=============================================================================
