--------------------------- MODULE CommandLifecycle ---------------------------
(***************************************************************************)
(* The life of a Command: commandservice accepts and cancels it, the       *)
(* dispatch loops of several commandworker processes claim it, commit the  *)
(* dispatch, call the Provider and store the answer, the recovery loops    *)
(* end what a crashed worker left behind and what ran past a deadline, and *)
(* commandresultservice stores what the Device reports.                    *)
(*                                                                         *)
(* Every action but Dispatch is one database transaction.  PostgreSQL's    *)
(* now() is the time a transaction BEGAN, and a transaction may wait for   *)
(* row locks after that; a worker's transaction is therefore two actions,  *)
(* one that begins it and reads the clock into now, one that applies it.   *)
(* A transaction that only tests "expired by now()" needs no such split:   *)
(* what has expired by an older time has expired.                          *)
(***************************************************************************)
EXTENDS CommandDomain, FiniteSets

CONSTANTS
    Commands,          \* the Commands (one per accepted idempotency key)
    Workers,           \* the dispatch loops, one per server process
    OnlineOnly,        \* the Commands whose delivery_policy is online_only
    ProviderOf,        \* [Commands -> ProviderCodes]
    ResultKeys,        \* deduplication keys of Device results; {}: none arrive
    DispatchDeadline,  \* profile: dispatch_deadline_ms
    ResultTimeout,     \* profile: result_observation_timeout_ms
    LeaseDuration,     \* worker: lease of a claim
    DispatchLease,     \* worker: lease of a committed dispatch
    Skew,              \* how far application clocks are from the database's
    LastCreate,        \* bound: no Command is created after this time
    MaxClock           \* bound: the clock stops here

ASSUME ConstantsAssumption ==
    /\ OnlineOnly \subseteq Commands
    /\ ProviderOf \in [Commands -> ProviderCodes]
    /\ DispatchDeadline \in Nat \ {0} /\ ResultTimeout \in Nat \ {0}
    /\ LeaseDuration \in Nat \ {0} /\ DispatchLease \in Nat \ {0}
    /\ Skew \in Nat /\ LastCreate \in Nat /\ MaxClock \in Nat

VARIABLES
    clock,    \* the database's clock
    online,   \* the Commands whose Device row says connection_status = online
    command,  \* rows of device_commands; status "none": no row yet
    attempt,  \* the latest row of device_command_attempts of each Command
    events,   \* the Events of each Command, each with its Delivery
    results,  \* rows of device_command_results by deduplication key
    worker,   \* what each dispatch loop holds in memory
    wire      \* how often a request for the Command left an adapter

vars == <<clock, online, command, attempt, events, results, worker, wire>>

-----------------------------------------------------------------------------
Phases == {"none", "claimed", "dispatching", "completed"}
ResultOutcomes == {"device_acked", "device_succeeded", "device_failed"}
Steps == {"idle", "claiming", "claimed", "failing", "committing",
          "dispatching", "waiting", "persisting"}

NoCommand == [status |-> "none", reason |-> "", level |-> "none", evidence |-> "none",
              queuedAt |-> 0, dispatchDeadline |-> 0, sentAt |-> 0]

\* token stands for the random lease_token: every claim of a Command takes a
\* value never used for it before.
NoAttempt == [no |-> 0, phase |-> "none", token |-> 0, lease |-> 0, outcome |-> "none",
              level |-> "none", evidence |-> "none"]

NoResult == [cmd |-> "none", outcome |-> "none", late |-> FALSE]

Idle == [pc |-> "idle", cmd |-> "none", no |-> 0, token |-> 0, now |-> 0,
         answer |-> UnsentAnswer]

Init ==
    /\ clock = 1
    /\ online \in SUBSET Commands
    /\ command = [c \in Commands |-> NoCommand]
    /\ attempt = [c \in Commands |-> NoAttempt]
    /\ events = [c \in Commands |-> {}]
    /\ results = [k \in ResultKeys |-> NoResult]
    /\ worker = [w \in Workers |-> Idle]
    /\ wire = [c \in Commands |-> 0]

-----------------------------------------------------------------------------
(* Pieces of transactions.                                                 *)

Earlier(s, t) == IF s <= t THEN s ELSE t

Incomplete(c) == attempt[c].phase \in {"claimed", "dispatching"}

\* Mutant: a live claim protects nothing.
MutantOwned(c, now) == Incomplete(c) /\ attempt[c].phase # "claimed"

\* A claim nobody else may touch yet, or a dispatch that was committed.
Owned(c, now) ==
    /\ Incomplete(c)
    /\ attempt[c].phase # "claimed" \/ attempt[c].lease > now

\* Writes row as the Command and, with it, an Event of the given type and
\* deduplication id, in the transaction of time at.  The row must pass the
\* CHECKs, the Event's deduplication key must be new.
Commit(c, row, at, type, id) ==
    LET event == [type |-> type, status |-> row.status, id |-> id]
    IN  /\ RowAllowed(row, at)
        /\ event \notin events[c]
        /\ command' = [command EXCEPT ![c] = row]
        /\ events' = [events EXCEPT ![c] = @ \cup {event}]

\* Mutant: the row is stored without its Event.
MutantStatusChanged(c, row, at) ==
    /\ RowAllowed(row, at)
    /\ command' = [command EXCEPT ![c] = row]
    /\ UNCHANGED events

StatusChanged(c, row, at) == Commit(c, row, at, "command.status_changed", "")

Finished(c, status, reason, level, evidence) ==
    [command[c] EXCEPT !.status = status, !.reason = reason,
                       !.level = level, !.evidence = evidence]

Completed(c, outcome, level, evidence) ==
    [attempt[c] EXCEPT !.phase = "completed", !.outcome = outcome,
                       !.level = level, !.evidence = evidence]

Release(w) == worker' = [worker EXCEPT ![w] = Idle]

\* lockCommandAttempt and the token and lease checks that follow it, as the
\* worker's current transaction sees them.
HoldsLease(w) ==
    LET a == attempt[worker[w].cmd]
    IN  /\ a.no = worker[w].no
        /\ a.token = worker[w].token
        /\ a.lease > worker[w].now

-----------------------------------------------------------------------------
(* The platform's API.                                                     *)

\* commandservice.Create.  A second request with the same idempotency key is
\* a replay, which writes nothing.  queued_at comes from the server's clock.
Create(c) ==
    /\ command[c].status = "none"
    /\ clock <= LastCreate
    /\ c \in OnlineOnly => c \in online
    /\ \E queuedAt \in {t \in (clock - Skew) .. (clock + Skew) : t > 0} :
          /\ command' = [command EXCEPT ![c] =
                [NoCommand EXCEPT !.status = "queued", !.queuedAt = queuedAt,
                                  !.dispatchDeadline = queuedAt + DispatchDeadline]]
          /\ events' = [events EXCEPT ![c] =
                {[type |-> "command.created", status |-> "queued", id |-> ""]}]
    /\ UNCHANGED <<clock, online, attempt, results, worker, wire>>

\* Mutant: the stale claim is left open.
MutantFinishQueued(c, status, reason) ==
    /\ command[c].status = "queued"
    /\ ~Owned(c, clock)
    /\ StatusChanged(c, Finished(c, status, reason, "none", "none"), clock)
    /\ UNCHANGED <<clock, online, attempt, results, worker, wire>>

\* finishQueued: no live lease, and a stale claim is closed with the Command.
FinishQueued(c, status, reason) ==
    /\ command[c].status = "queued"
    /\ ~Owned(c, clock)
    /\ attempt' = IF Incomplete(c)
                  THEN [attempt EXCEPT ![c] = Completed(c, "not_dispatched", "none", "none")]
                  ELSE attempt
    /\ StatusChanged(c, Finished(c, status, reason, "none", "none"), clock)
    /\ UNCHANGED <<clock, online, results, worker, wire>>

Cancel(c) == FinishQueued(c, "cancelled", "cancelled_by_request")

-----------------------------------------------------------------------------
(* The dispatch loop of a worker.                                          *)

\* The SELECT of ClaimNext: the snapshot it reads may be old by the time the
\* row is locked.
ClaimSelect(w, c) ==
    /\ worker[w].pc = "idle"
    /\ command[c].status = "queued"
    /\ command[c].dispatchDeadline > clock
    /\ ~Owned(c, clock)
    /\ worker' = [worker EXCEPT ![w] = [Idle EXCEPT !.pc = "claiming", !.cmd = c, !.now = clock]]
    /\ UNCHANGED <<clock, online, command, attempt, events, results, wire>>

\* The row is locked; it is still queued, and the Attempt read under the lock
\* is absent, completed, or a claim whose lease is over.
Claimable(w) ==
    /\ command[worker[w].cmd].status = "queued"
    /\ ~Owned(worker[w].cmd, worker[w].now)

\* An expired claim is taken over, otherwise a new Attempt begins.
NextNo(c) == IF Incomplete(c) THEN attempt[c].no ELSE attempt[c].no + 1

FreshToken(c) == attempt[c].token + 1

ClaimNext(w) ==
    LET c == worker[w].cmd
        no == NextNo(c)
        token == FreshToken(c)
    IN  /\ worker[w].pc = "claiming"
        /\ Claimable(w)
        /\ attempt' = [attempt EXCEPT ![c] =
              [NoAttempt EXCEPT !.no = no, !.phase = "claimed", !.token = token,
                                !.lease = Earlier(worker[w].now + LeaseDuration,
                                                  command[c].dispatchDeadline)]]
        /\ worker' = [worker EXCEPT ![w].pc = "claimed", ![w].no = no,
                                    ![w].token = token, ![w].now = 0]
        /\ UNCHANGED <<clock, online, command, events, results, wire>>

\* Configured() is false or Prepare fails: a transaction that fails the
\* Command begins.  The reason travels in the answer.
BeginFail(w, reason) ==
    /\ worker[w].pc = "claimed"
    /\ worker' = [worker EXCEPT ![w].pc = "failing", ![w].now = clock,
                     ![w].answer = Answer("invalid_request", reason, "none", "none")]
    /\ UNCHANGED <<clock, online, command, attempt, events, results, wire>>

\* Mutant: the adapter is called before the dispatch is committed.
MutantBeginCommit(w) ==
    /\ worker[w].pc = "claimed"
    /\ worker' = [worker EXCEPT ![w].pc = "dispatching", ![w].now = clock]
    /\ UNCHANGED <<clock, online, command, attempt, events, results, wire>>

BeginCommit(w) ==
    /\ worker[w].pc = "claimed"
    /\ worker' = [worker EXCEPT ![w].pc = "committing", ![w].now = clock]
    /\ UNCHANGED <<clock, online, command, attempt, events, results, wire>>

\* CompleteAttempt + TransitionFromAttempt of a claim that is not dispatched.
FailQueued(w, outcome, reason) ==
    LET c == worker[w].cmd
    IN  /\ HoldsLease(w)
        /\ command[c].status = "queued"
        /\ PreDispatchCompletionAllowed(attempt[c].phase, outcome, reason)
        /\ AttemptTransitionMatches(outcome, "queued", "failed", reason)
        /\ attempt' = [attempt EXCEPT ![c] = Completed(c, outcome, "none", "none")]
        /\ StatusChanged(c, Finished(c, "failed", reason, "none", "none"), worker[w].now)

FailBeforeDispatch(w) ==
    /\ worker[w].pc = "failing"
    /\ FailQueued(w, "invalid_request", worker[w].answer.reason)
    /\ Release(w)
    /\ UNCHANGED <<clock, online, results, wire>>

NotOnline(w) == worker[w].cmd \in OnlineOnly /\ worker[w].cmd \notin online

FailNotOnline(w) ==
    /\ worker[w].pc = "committing"
    /\ NotOnline(w)
    /\ FailQueued(w, "not_dispatched", "device_not_online")
    /\ Release(w)
    /\ UNCHANGED <<clock, online, results, wire>>

\* MarkDispatching: from here on the platform has promised the dispatch.
MarkDispatching(w) ==
    LET c == worker[w].cmd
        now == worker[w].now
    IN  /\ worker[w].pc = "committing"
        /\ ~NotOnline(w)
        /\ command[c].status = "queued"
        /\ command[c].dispatchDeadline > now
        /\ attempt[c].phase = "claimed"
        /\ HoldsLease(w)
        /\ attempt' = [attempt EXCEPT ![c].phase = "dispatching", ![c].lease = now + DispatchLease]
        /\ StatusChanged(c, [command[c] EXCEPT !.status = "sent", !.sentAt = now], now)
        /\ worker' = [worker EXCEPT ![w].pc = "dispatching", ![w].now = 0]
        /\ UNCHANGED <<clock, online, results, wire>>

\* The adapter writes the request: the one step outside the database.
Dispatch(w) ==
    /\ worker[w].pc = "dispatching"
    /\ wire' = [wire EXCEPT ![worker[w].cmd] = @ + 1]
    /\ worker' = [worker EXCEPT ![w].pc = "waiting"]
    /\ UNCHANGED <<clock, online, command, attempt, events, results>>

\* The adapter returns, with nothing written or with an answer to what it
\* wrote, and the transaction that stores the answer begins.
DispatchReturns(w) ==
    /\ \E answer \in Answers :
          /\ \/ worker[w].pc = "dispatching" /\ answer = UnsentAnswer
             \/ worker[w].pc = "waiting" /\ answer \in SentAnswers(ProviderOf[worker[w].cmd])
          /\ worker' = [worker EXCEPT ![w].pc = "persisting", ![w].now = clock,
                                      ![w].answer = answer]
    /\ UNCHANGED <<clock, online, command, attempt, events, results, wire>>

\* CompleteAttempt as persistResult calls it.
CanComplete(w) ==
    LET c == worker[w].cmd
    IN  /\ HoldsLease(w)
        /\ command[c].status = "sent"
        /\ AttemptCompletionAllowed(ProviderOf[c], attempt[c].phase, worker[w].answer)

\* UpdateEvidenceFromAttempt: the Command stays sent.
RaisesEvidence(c, answer) ==
    /\ answer.outcome \in {"provider_accepted", "indeterminate"}
    /\ EvidenceProgresses(command[c].level, command[c].evidence, answer.level, answer.evidence)

RaisedRow(c, answer) == [command[c] EXCEPT !.level = answer.level, !.evidence = answer.evidence]

\* TransitionFromAttempt: the Command fails.
FailsCommand(c, answer) ==
    /\ AttemptTransitionMatches(answer.outcome, "sent", "failed", ResultReason(answer))
    /\ EvidenceDoesNotRegress(command[c].level, command[c].evidence, answer.level, answer.evidence)

FailedRow(c, answer) ==
    Finished(c, "failed", ResultReason(answer), answer.level, answer.evidence)

\* persistResult: a verdict fails the Command, anything else raises evidence.
PersistResult(w) ==
    LET c == worker[w].cmd
        answer == worker[w].answer
    IN  /\ worker[w].pc = "persisting"
        /\ CanComplete(w)
        /\ attempt' = [attempt EXCEPT ![c] =
              Completed(c, answer.outcome, answer.level, answer.evidence)]
        /\ \/ /\ RaisesEvidence(c, answer)
              /\ Commit(c, RaisedRow(c, answer), worker[w].now,
                        "command.evidence_updated", answer.outcome)
           \/ /\ FailsCommand(c, answer)
              /\ StatusChanged(c, FailedRow(c, answer), worker[w].now)
        /\ Release(w)
        /\ UNCHANGED <<clock, online, results, wire>>

\* A claim another worker won, ErrLeaseLost, a transaction rolled back by a
\* CHECK, a cancelled context, a crash of the process: the worker keeps nothing.
Abandon(w) ==
    /\ worker[w].pc # "idle"
    /\ Release(w)
    /\ UNCHANGED <<clock, online, command, attempt, events, results, wire>>

-----------------------------------------------------------------------------
(* The recovery loop.  It runs in every process; FOR UPDATE SKIP LOCKED    *)
(* hands each due row to one of them.                                      *)

\* Mutant: an expired dispatch is queued again.
MutantRecoveredRow(c) == [command[c] EXCEPT !.status = "queued", !.sentAt = 0]

\* The worker may or may not have sent: transport_sent, unverified.
RecoveredRow(c) == [command[c] EXCEPT !.level = "transport_sent", !.evidence = "unverified"]

\* Mutant: the recovery stores an outcome that is none.
MutantRecoveredAttempt(c) == Completed(c, "timeout", "transport_sent", "unverified")

RecoveredAttempt(c) == Completed(c, "indeterminate", "transport_sent", "unverified")

RecoverNext(c) ==
    /\ command[c].status = "sent"
    /\ attempt[c].phase = "dispatching"
    /\ attempt[c].lease <= clock
    /\ attempt' = [attempt EXCEPT ![c] = RecoveredAttempt(c)]
    /\ Commit(c, RecoveredRow(c), clock, "command.evidence_updated", "recovered")
    /\ UNCHANGED <<clock, online, results, worker, wire>>

ExpireNextQueued(c) ==
    /\ command[c].dispatchDeadline <= clock
    /\ FinishQueued(c, "timeout", "dispatch_deadline_exceeded")

\* Mutant: only acknowledged Commands are observed.
MutantObservationOver(c) ==
    /\ command[c].status = "acked"
    /\ command[c].sentAt + ResultTimeout <= clock
    /\ ~Incomplete(c)

ObservationOver(c) ==
    /\ command[c].status \in {"sent", "acked"}
    /\ command[c].sentAt + ResultTimeout <= clock
    /\ ~Incomplete(c)

\* Mutant: the scanner resets the evidence.
MutantUnobserved(c) ==
    [command[c] EXCEPT !.status = "timeout", !.reason = "result_observation_timeout",
                       !.level = "transport_sent", !.evidence = "unverified"]

Unobserved(c) == [command[c] EXCEPT !.status = "timeout", !.reason = "result_observation_timeout"]

ExpireNextResultObservation(c) ==
    /\ ObservationOver(c)
    /\ StatusChanged(c, Unobserved(c), clock)
    /\ UNCHANGED <<clock, online, attempt, results, worker, wire>>

-----------------------------------------------------------------------------
(* Device results: commandresultservice.Record and ApplyResult.            *)

ResultLevel(outcome) == IF outcome = "device_acked" THEN "device_acked" ELSE "device_final"

\* Mutant: a late result still decides the Command.
MutantLateRow(c, outcome) == Finished(c, "success", "", "device_final", "verified")

\* The row a result turns the Command into; late results only raise evidence.
LateRow(c, outcome) ==
    IF EvidenceProgresses(command[c].level, command[c].evidence, ResultLevel(outcome), "verified")
    THEN [command[c] EXCEPT !.level = ResultLevel(outcome), !.evidence = "verified"]
    ELSE command[c]

ResultRow(c, outcome) ==
    CASE outcome = "device_acked"     -> Finished(c, "acked", "", "device_acked", "verified")
      [] outcome = "device_succeeded" -> Finished(c, "success", "", "device_final", "verified")
      [] OTHER -> Finished(c, "failed", "device_reported_failure", "device_final", "verified")

\* A Device reports only what it received.  A key seen before is a replay or
\* a conflict, and neither writes.  observed_at is the receiver's clock.
Record(c, k, outcome) ==
    LET late == IsTerminal(command[c].status)
        row == IF late THEN LateRow(c, outcome) ELSE ResultRow(c, outcome)
    IN  /\ wire[c] > 0
        /\ results[k] = NoResult
        /\ \/ late
           \/ command[c].status = "sent"
           \/ command[c].status = "acked" /\ outcome # "device_acked"
        /\ \E observedAt \in (clock - Skew) .. (clock + Skew) :
              Commit(c, row, IF IsTerminal(row.status) /\ ~late THEN observedAt ELSE clock,
                     "command.result_recorded", k)
        /\ results' = [results EXCEPT ![k] = [cmd |-> c, outcome |-> outcome, late |-> late]]
        /\ UNCHANGED <<clock, online, attempt, worker, wire>>

-----------------------------------------------------------------------------
\* The Device connects or disconnects.
ConnectionChanges(c) ==
    /\ online' = IF c \in online THEN online \ {c} ELSE online \cup {c}
    /\ UNCHANGED <<clock, command, attempt, events, results, worker, wire>>

Tick ==
    /\ clock < MaxClock
    /\ clock' = clock + 1
    /\ UNCHANGED <<online, command, attempt, events, results, worker, wire>>

WorkerStep(w) ==
    \/ \E c \in Commands : ClaimSelect(w, c)
    \/ ClaimNext(w)
    \/ \E reason \in PrepareFailures : BeginFail(w, reason)
    \/ FailBeforeDispatch(w)
    \/ BeginCommit(w)
    \/ FailNotOnline(w)
    \/ MarkDispatching(w)
    \/ Dispatch(w)
    \/ DispatchReturns(w)
    \/ PersistResult(w)
    \/ Abandon(w)

Next ==
    \/ \E w \in Workers : WorkerStep(w)
    \/ \E c \in Commands :
          \/ Create(c)
          \/ Cancel(c)
          \/ RecoverNext(c)
          \/ ExpireNextQueued(c)
          \/ ExpireNextResultObservation(c)
          \/ \E k \in ResultKeys, outcome \in ResultOutcomes : Record(c, k, outcome)
          \/ ConnectionChanges(c)
    \/ Tick

Spec == Init /\ [][Next]_vars

\* Time passes and the recovery loop polls for ever, so each of its three
\* transactions runs as long as there is a due row (there are finitely many).
\* Nothing is assumed of the workers: each may crash or hang at any step.
FairSpec ==
    /\ Spec
    /\ WF_vars(Tick)
    /\ WF_vars(\E c \in Commands : RecoverNext(c))
    /\ WF_vars(\E c \in Commands : ExpireNextQueued(c))
    /\ WF_vars(\E c \in Commands : ExpireNextResultObservation(c))

-----------------------------------------------------------------------------
(* Properties.                                                             *)

CommandRows ==
    [status : CommandStatuses \cup {"none"}, reason : Reasons, level : ConfirmationLevels,
     evidence : EvidenceStatuses, queuedAt : Nat, dispatchDeadline : Nat, sentAt : Nat]

AttemptRows ==
    [no : Nat, phase : Phases, token : Nat, lease : Nat, outcome : Outcomes \cup {"none"},
     level : ConfirmationLevels, evidence : EvidenceStatuses]

WorkerAnswers ==
    Answers \cup {Answer("invalid_request", r, "none", "none") : r \in PrepareFailures}

WorkerStates ==
    [pc : Steps, cmd : Commands \cup {"none"}, no : Nat, token : Nat, now : Nat,
     answer : WorkerAnswers]

EventRecords ==
    [type : {"command.created", "command.status_changed", "command.evidence_updated",
             "command.result_recorded"},
     status : CommandStatuses, id : Outcomes \cup {"", "recovered"} \cup ResultKeys]

ResultRows ==
    [cmd : Commands, outcome : ResultOutcomes, late : BOOLEAN] \cup {NoResult}

\* The rows, the workers' memory and the clock have their types; a worker
\* that is not idle works on a Command.
TypeOK ==
    /\ clock \in Nat \ {0}
    /\ online \in SUBSET Commands
    /\ command \in [Commands -> CommandRows]
    /\ attempt \in [Commands -> AttemptRows]
    /\ events \in [Commands -> SUBSET EventRecords]
    /\ results \in [ResultKeys -> ResultRows]
    /\ worker \in [Workers -> WorkerStates]
    /\ \A w \in Workers : worker[w].pc # "idle" => worker[w].cmd \in Commands
    /\ wire \in [Commands -> Nat]

\* No Command is put on the wire twice, whatever crashes, expired leases and
\* re-claims happen between claim, commit and send (a lock must not be
\* operated twice for one Command; retry_allowed is always false).
AtMostOneDispatch == \A c \in Commands : wire[c] <= 1

\* Reasons that are only written before the dispatch is committed.  They leave out
\* provider_transport_error, which is written after it on an adapter's word and, as
\* TransportErrorIsUnsent shows, may be wrong.
UnsentReasons == PrepareFailures \cup
    {"device_not_online", "dispatch_deadline_exceeded", "cancelled_by_request"}

\* A Command that is queued, or was closed before its dispatch was committed,
\* has not been on the wire and no worker is about to put it there: cancel,
\* expiry and pre-dispatch failure exclude the send.
UnsentIsUnsent ==
    \A c \in Commands :
        command[c].status \in {"none", "queued"} \/ command[c].reason \in UnsentReasons =>
            /\ wire[c] = 0
            /\ \A w \in Workers : worker[w].cmd = c => worker[w].pc # "dispatching"

\* A Command closed with provider_transport_error was not sent: that is what
\* domain-model-contract.md:135 and wwtiot.md:59,69 promise.  The WWTIOT client's
\* request can leave before the WroteRequest hook has run.
TransportErrorIsUnsent ==
    \A c \in Commands : command[c].reason = "provider_transport_error" => wire[c] = 0

\* Every status a Command reaches is announced by an Event of the same
\* transaction, and no two different terminal statuses are ever announced.
StatusAnnounced ==
    \A c \in Commands :
        LET announced == {e.status : e \in events[c]}
        IN  /\ command[c].status # "none" => command[c].status \in announced
            /\ \A s \in announced : IsTerminal(s) => s = command[c].status

\* A closed Command leaves no Attempt open: the recovery loop would never
\* look at it again.  (Only as long as Device results are not wired up.)
ClosedCommandClosesAttempt ==
    \A c \in Commands : IsTerminal(command[c].status) => ~Incomplete(c)

\* The answer of an adapter that arrives while the lease is valid and the
\* Attempt is open is always stored: the adapters' answers, the tables of the
\* repository and the CHECK constraints agree for every Provider.
AnswerStorable ==
    \A w \in Workers :
        LET c == worker[w].cmd
            answer == worker[w].answer
        IN  /\ worker[w].pc = "persisting" /\ HoldsLease(w)
            /\ command[c].status = "sent" /\ attempt[c].phase = "dispatching"
            =>
              /\ CanComplete(w)
              /\ \/ RaisesEvidence(c, answer) /\ RowAllowed(RaisedRow(c, answer), worker[w].now)
                 \/ FailsCommand(c, answer) /\ RowAllowed(FailedRow(c, answer), worker[w].now)

\* The scanner's update of a Command whose observation window is over passes
\* the CHECK constraints; a row it cannot write would stop the whole loop,
\* which retries its oldest row first.
ScannerNotRejected ==
    \A c \in Commands : ObservationOver(c) => RowAllowed(Unobserved(c), clock)

\* No row is left where nothing looks at it again: not an Attempt of a closed Command,
\* not an answer that the tables of the repository or the CHECKs of the database refuse,
\* not a Command that its scanner picks first and can never update.
NothingStranded == ClosedCommandClosesAttempt /\ AnswerStorable /\ ScannerNotRejected

\* Confirmation never falls and verified evidence of a level is never lost,
\* though the recovery of an expired dispatch overwrites both unread.
EvidenceMonotone ==
    [][\A c \in Commands :
          EvidenceDoesNotRegress(command[c].level, command[c].evidence,
                                 command'[c].level, command'[c].evidence)]_vars

\* While a claim's lease is valid only its holder moves the Command out of
\* queued: neither a cancellation nor the deadline scanner passes it.
ClaimRespected ==
    [][\A c \in Commands :
          /\ command[c].status = "queued" /\ command'[c].status # "queued"
          /\ attempt[c].phase = "claimed" /\ attempt[c].lease > clock
          => \E w \in Workers :
                /\ worker[w].cmd = c /\ worker[w].token = attempt[c].token
                /\ worker'[w] # worker[w]]_vars

\* A completed Attempt only gives way to a new one, also when a worker that lost
\* its lease comes back with the adapter's answer; and while the lease of a
\* dispatch is valid nobody but the worker that dispatches ends it.
AttemptsFinal ==
    [][\A c \in Commands : attempt'[c] # attempt[c] =>
          /\ attempt[c].phase = "completed" => attempt'[c].no > attempt[c].no
          /\ attempt[c].phase = "dispatching" /\ attempt[c].lease > clock =>
                \E w \in Workers :
                   /\ worker[w].pc = "persisting"
                   /\ worker[w].cmd = c /\ worker[w].token = attempt[c].token
                   /\ worker'[w] # worker[w]]_vars

\* Before the dispatch and after it, a lease keeps everybody else out and an
\* ended one lets nobody in.
LeaseRespected == ClaimRespected /\ AttemptsFinal

\* The stage an API caller sees.
StageOf(row) ==
    CASE row.status = "none"              -> "new"
      [] row.status = "queued"            -> "open"
      [] row.status \in {"sent", "acked"} -> "committed"
      [] IsTerminal(row.status) /\ row.reason \in UnsentReasons -> "withdrawn"
      [] OTHER                            -> "closed"

Contract == INSTANCE CommandContract
    WITH stage <- [c \in Commands |-> StageOf(command[c])], sends <- wire

\* The protocol of transactions, leases and scanners implements the contract:
\* one request at most, none for a withdrawn Command, no way back.
RefinesContract == Contract!Spec

\* Every status that only a Device can vouch for is backed by a result that
\* was not late, and at most one final result decided the Command, however
\* many arrive under other keys.
ResultsDecide ==
    LET timely(c, o) == {k \in ResultKeys : results[k] = [cmd |-> c, outcome |-> o, late |-> FALSE]}
    IN  \A c \in Commands :
          /\ command[c].status = "success" <=> timely(c, "device_succeeded") # {}
          /\ command[c].reason = "device_reported_failure" <=> timely(c, "device_failed") # {}
          /\ command[c].status = "acked" => timely(c, "device_acked") # {}
          /\ Cardinality(timely(c, "device_succeeded") \cup timely(c, "device_failed")) <= 1

\* Every accepted Command reaches a terminal status, even if every worker
\* that touches it dies at the worst moment.
EventuallyTerminal ==
    \A c \in Commands : command[c].status = "queued" ~> IsTerminal(command[c].status)

\* docs/domain-model-contract.md: a trusted result that arrives after the
\* terminal status is appended with late=true and may raise the evidence.
LateResultAccepted ==
    \A c \in Commands, outcome \in ResultOutcomes :
        wire[c] > 0 /\ IsTerminal(command[c].status) => RowAllowed(LateRow(c, outcome), clock)
=============================================================================
