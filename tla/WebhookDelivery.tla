---------------------------- MODULE WebhookDelivery ----------------------------
(***************************************************************************)
(* Webhook deliveries of one Project: projectservice versions the target   *)
(* and its secret, an Event creates a Delivery from the configuration it   *)
(* finds, the loops of several webhookworker processes recover, exhaust,   *)
(* claim, POST and complete, and webhookaudit replays dead Deliveries.     *)
(*                                                                         *)
(* now() of a transaction is the time it began: a worker's claim and its   *)
(* completion therefore begin in one action, which reads the clock, and    *)
(* are applied in another.                                                 *)
(***************************************************************************)
EXTENDS Integers, FiniteSets

CONSTANTS
    Deliveries,     \* ids of Deliveries, initial ones and replays
    Events,         \* Events of the Project; each may get one initial Delivery
    Workers,        \* dispatch loops, one per server process
    MaxAttemptsOf,  \* WEBHOOK_MAX_ATTEMPTS of each process
    RetrySchedule,  \* WEBHOOK_RETRY_SCHEDULE: delay after the n-th attempt
    AttemptLimit,   \* webhookAttemptLimit and the CHECKs' bound (5 in the code)
    LeaseDuration,  \* WEBHOOK_LEASE_DURATION
    Urls,           \* targets a Project may configure
    Learned,        \* bound: the answers dispatchClaimed may learn
    MaxConfig,      \* bound: configuration changes
    MaxClock        \* bound: the clock stops here

ASSUME WebhookAssumption ==
    /\ AttemptLimit \in Nat \ {0} /\ LeaseDuration \in Nat \ {0}
    /\ MaxAttemptsOf \in [Workers -> 1 .. AttemptLimit]
    /\ RetrySchedule \in [1 .. AttemptLimit -> Nat \ {0}]
    /\ MaxConfig \in Nat /\ MaxClock \in Nat
    /\ "none" \notin Urls /\ "none" \notin Deliveries

VARIABLES
    clock,
    project,   \* webhook_url, webhook_config_version, current_webhook_secret_version
    secrets,   \* project_webhook_secrets: version -> "active", "retired", or "none"
    emitted,   \* the Events that happened
    delivery,  \* webhook_deliveries; status "none": no row
    attempts,  \* webhook_delivery_attempts by number: "none", "open" or its outcome
    audits,    \* audit rows about Deliveries, with the attempt that wrote them
    worker,    \* what each loop holds in memory
    posts,     \* POSTs that reached the endpoint of each Delivery
    accepted   \* the Deliveries the endpoint has answered with 2xx

vars == <<clock, project, secrets, emitted, delivery, attempts, audits, worker, posts, accepted>>

-----------------------------------------------------------------------------
Statuses == {"pending", "sending", "delivered", "failed", "dead"}

\* What dispatchClaimed may learn.  The first three reach no endpoint; an HTTP
\* status outside 100..599 is refused by webhookCompletion.
SecretFailures == {"secret_unavailable", "secret_decryption_failed"}
UnsentAnswers == SecretFailures \cup {"invalid_target"}
Failures == UnsentAnswers \cup {"transport_error", "http_error"}
Answers == Failures \cup {"success", "status_out_of_range"}

ASSUME LearnedAssumption == Learned \subseteq Answers

NoDelivery == [status |-> "none", event |-> "none", url |-> "none", configVersion |-> 0,
               secretVersion |-> 0, count |-> 0, next |-> 0, lease |-> 0, replayOf |-> "none"]

\* The lease token is random and a claim always opens the next attempt, so
\* the attempt's number stands for the token; lease 0: no token.
Looking == [pc |-> "recovering", id |-> "none", no |-> 0, now |-> 0, answer |-> "none"]

Init ==
    /\ clock = 1
    /\ project = [url |-> "none", configVersion |-> 0, secretVersion |-> 0]
    /\ secrets = [v \in 1 .. MaxConfig |-> "none"]
    /\ emitted = {}
    /\ delivery = [d \in Deliveries |-> NoDelivery]
    /\ attempts = [d \in Deliveries |-> [n \in 1 .. AttemptLimit |-> "none"]]
    /\ audits = {}
    /\ worker = [w \in Workers |-> Looking]
    /\ posts = [d \in Deliveries |-> 0]
    /\ accepted = {}

-----------------------------------------------------------------------------
(* Project configuration.                                                  *)

\* projectservice.Update (and Create) with a webhook_url: the first target
\* creates secret version 1, later ones and removals keep the secret.
SetWebhookURL(url) ==
    /\ project.configVersion < MaxConfig
    /\ url # project.url
    /\ LET fresh == url # "none" /\ project.secretVersion = 0
       IN  /\ fresh => secrets[1] = "none"
           /\ secrets' = IF fresh THEN [secrets EXCEPT ![1] = "active"] ELSE secrets
           /\ project' = [url |-> url, configVersion |-> project.configVersion + 1,
                          secretVersion |-> IF fresh THEN 1 ELSE project.secretVersion]
    /\ UNCHANGED <<clock, emitted, delivery, attempts, audits, worker, posts, accepted>>

\* Mutant: a new secret under the old configuration version.
MutantRotateWebhookSecret ==
    /\ project.secretVersion < MaxConfig
    /\ project.url # "none" /\ project.secretVersion # 0
    /\ secrets' = [secrets EXCEPT ![project.secretVersion + 1] = "active",
                                  ![project.secretVersion] = "retired"]
    /\ project' = [project EXCEPT !.secretVersion = @ + 1]
    /\ UNCHANGED <<clock, emitted, delivery, attempts, audits, worker, posts, accepted>>

RotateWebhookSecret ==
    /\ project.configVersion < MaxConfig
    /\ project.url # "none" /\ project.secretVersion # 0
    /\ LET version == project.secretVersion + 1
       IN  /\ secrets[version] = "none"
           /\ secrets' = [secrets EXCEPT ![version] = "active", ![project.secretVersion] = "retired"]
           /\ project' = [project EXCEPT !.configVersion = @ + 1, !.secretVersion = version]
    /\ UNCHANGED <<clock, emitted, delivery, attempts, audits, worker, posts, accepted>>

-----------------------------------------------------------------------------
(* Deliveries.                                                             *)

\* lockCurrentWebhookConfig
Configured == project.url # "none" /\ project.configVersion > 0 /\ project.secretVersion > 0

\* insertDelivery: a snapshot of the configuration of this moment.
InsertDelivery(d, event, replayOf) ==
    delivery' = [delivery EXCEPT ![d] =
        [NoDelivery EXCEPT !.status = "pending", !.event = event, !.url = project.url,
                           !.configVersion = project.configVersion,
                           !.secretVersion = project.secretVersion,
                           !.next = clock, !.replayOf = replayOf]]

\* A new row's id is random and differs from every other: which one it is
\* makes no difference, so they are taken in a fixed order.
NextId == CHOOSE d \in Deliveries : delivery[d].status = "none"

\* An Event and, if a target is configured, its Delivery: one transaction.
EmitEvent(event, d) ==
    /\ event \notin emitted
    /\ delivery[d].status = "none" /\ d = NextId
    /\ emitted' = emitted \cup {event}
    /\ IF Configured THEN InsertDelivery(d, event, "none") ELSE UNCHANGED delivery
    /\ UNCHANGED <<clock, project, secrets, attempts, audits, worker, posts, accepted>>

\* webhookaudit.ReplayDead and CreateReplay
ReplayDead(original, d) ==
    /\ delivery[d].status = "none" /\ d = NextId
    /\ delivery[original].status = "dead"
    /\ Configured
    /\ InsertDelivery(d, delivery[original].event, original)
    /\ audits' = audits \cup {[action |-> "replayed", id |-> d, no |-> 0]}
    /\ UNCHANGED <<clock, project, secrets, emitted, attempts, worker, posts, accepted>>

-----------------------------------------------------------------------------
(* The loop of a worker: runNext is recover, else exhaust, else claim.     *)

\* chk_webhook_deliveries_state
StateCheck(row) ==
    CASE row.status = "pending"   -> row.count = 0 /\ row.next # 0 /\ row.lease = 0
      [] row.status = "sending"   -> row.count \in 1 .. AttemptLimit /\ row.lease # 0
      [] row.status = "failed"    -> row.count \in 1 .. (AttemptLimit - 1) /\ row.next # 0 /\ row.lease = 0
      [] OTHER                    -> row.status \in {"delivered", "dead"} /\ row.count \in 1 .. AttemptLimit /\ row.next = 0 /\ row.lease = 0

Store(d, row) ==
    /\ StateCheck(row)
    /\ delivery' = [delivery EXCEPT ![d] = row]

\* finishDelivery
Finished(d, status, next) ==
    [delivery[d] EXCEPT !.status = status, !.next = next, !.lease = 0]

\* An attempt that failed at time now, in the eyes of process w.
AfterFailure(w, d, now) ==
    IF delivery[d].count < MaxAttemptsOf[w]
    THEN Finished(d, "failed", now + RetrySchedule[delivery[d].count])
    ELSE Finished(d, "dead", 0)

\* FOR UPDATE SKIP LOCKED passes over a row that a completion holds.  (A row
\* another claim holds is claimed by it, so skipping it is coming after it.)
Completing(w, d) == \E v \in Workers \ {w} : worker[v].pc = "completing" /\ worker[v].id = d

\* Mutant: the last attempt is not recovered.
MutantExpiredLast(d, now) ==
    /\ delivery[d].status = "sending"
    /\ delivery[d].lease <= now
    /\ delivery[d].count < AttemptLimit
    /\ attempts[d][delivery[d].count] = "open"

Expired(d, now) ==
    /\ delivery[d].status = "sending"
    /\ delivery[d].lease <= now
    /\ attempts[d][delivery[d].count] = "open"

\* Mutant: a code the readers of the table do not know.
MutantRecoveryError == "lease_expired"

\* The error_code RecoverNext passes on.
RecoveryError == "worker_lease_expired"

\* Mutant: the Delivery is taken back, its attempt stays open.
MutantRecoverNext(w, d) ==
    /\ worker[w].pc = "recovering"
    /\ \E now \in 1 .. clock : Expired(d, now) /\ Store(d, AfterFailure(w, d, now))
    /\ UNCHANGED <<clock, project, secrets, emitted, attempts, audits, worker, posts, accepted>>

\* RecoverNextExpiredSending; the transaction began after the lease ended.
RecoverNext(w, d) ==
    /\ worker[w].pc = "recovering"
    /\ \E now \in 1 .. clock : Expired(d, now) /\ Store(d, AfterFailure(w, d, now))
    /\ attempts' = [attempts EXCEPT ![d][delivery[d].count] = RecoveryError]
    /\ UNCHANGED <<clock, project, secrets, emitted, audits, worker, posts, accepted>>

NothingToRecover(w) ==
    /\ worker[w].pc = "recovering"
    /\ \A d \in Deliveries : Expired(d, clock) => Completing(w, d)
    /\ worker' = [worker EXCEPT ![w].pc = "exhausting"]
    /\ UNCHANGED <<clock, project, secrets, emitted, delivery, attempts, audits, posts, accepted>>

OverBudget(w, d) ==
    delivery[d].status = "failed" /\ delivery[d].count >= MaxAttemptsOf[w] /\ delivery[d].lease = 0

\* ExhaustRetryBudget: the limit of this process is lower than the one under
\* which the Delivery failed.
ExhaustNext(w, d) ==
    /\ worker[w].pc = "exhausting"
    /\ OverBudget(w, d)
    /\ Store(d, [delivery[d] EXCEPT !.status = "dead", !.next = 0])
    /\ worker' = [worker EXCEPT ![w] = Looking]
    /\ UNCHANGED <<clock, project, secrets, emitted, attempts, audits, posts, accepted>>

NothingToExhaust(w) ==
    /\ worker[w].pc = "exhausting"
    /\ \A d \in Deliveries : ~OverBudget(w, d)
    /\ worker' = [worker EXCEPT ![w].pc = "claiming", ![w].now = clock]
    /\ UNCHANGED <<clock, project, secrets, emitted, delivery, attempts, audits, posts, accepted>>

Due(w, d, now) ==
    /\ delivery[d].status \in {"pending", "failed"}
    /\ delivery[d].next <= now
    /\ delivery[d].count < MaxAttemptsOf[w]
    /\ delivery[d].lease = 0

\* ClaimDue: the next attempt is opened together with the lease.
ClaimDue(w, d) ==
    LET no == delivery[d].count + 1
    IN  /\ worker[w].pc = "claiming"
        /\ Due(w, d, worker[w].now)
        /\ \A n \in 1 .. AttemptLimit : attempts[d][n] # "open"
        /\ attempts[d][no] = "none"
        /\ Store(d, [delivery[d] EXCEPT !.status = "sending", !.count = no, !.next = 0,
                                        !.lease = worker[w].now + LeaseDuration])
        /\ attempts' = [attempts EXCEPT ![d][no] = "open"]
        /\ worker' = [worker EXCEPT ![w].pc = "claimed", ![w].id = d, ![w].no = no]
        /\ UNCHANGED <<clock, project, secrets, emitted, audits, posts, accepted>>

\* Nothing was due when the transaction began.
NothingDue(w) ==
    /\ worker[w].pc = "claiming"
    /\ \A d \in Deliveries : ~Due(w, d, worker[w].now)
    /\ worker' = [worker EXCEPT ![w] = Looking]
    /\ UNCHANGED <<clock, project, secrets, emitted, delivery, attempts, audits, posts, accepted>>

\* dispatchClaimed up to the transaction that stores what it learned.  The
\* POST commutes with every other actor, so it needs no action of its own.
DispatchClaimed(w) ==
    LET d == worker[w].id
    IN  /\ worker[w].pc = "claimed"
        /\ \E answer \in Learned, sent \in BOOLEAN :
              /\ answer \in UnsentAnswers => ~sent
              /\ answer \in {"success", "http_error", "status_out_of_range"} => sent
              /\ posts' = IF sent THEN [posts EXCEPT ![d] = @ + 1] ELSE posts
              /\ accepted' = IF answer = "success" THEN accepted \cup {d} ELSE accepted
              /\ worker' = [worker EXCEPT ![w].pc = "completing", ![w].now = clock, ![w].answer = answer]
        /\ UNCHANGED <<clock, project, secrets, emitted, delivery, attempts, audits>>

\* Mutant: the token alone is enough.
MutantHoldsLease(w) == delivery[worker[w].id].count = worker[w].no

\* lockDeliveryAttempt and the conditions of CompleteAttempt
HoldsLease(w) ==
    LET row == delivery[worker[w].id]
    IN  /\ row.status = "sending"
        /\ row.count = worker[w].no
        /\ row.lease > worker[w].now
        /\ attempts[worker[w].id][worker[w].no] = "open"

\* Mutant: any HTTP response is a success.
MutantCompletion(w) ==
    IF worker[w].answer \in {"success", "http_error"}
    THEN Finished(worker[w].id, "delivered", 0)
    ELSE AfterFailure(w, worker[w].id, worker[w].now)

\* webhookCompletion
Completion(w) ==
    IF worker[w].answer = "success"
    THEN Finished(worker[w].id, "delivered", 0)
    ELSE AfterFailure(w, worker[w].id, worker[w].now)

\* The error_code (or "success") that is stored for an answer.
StoredOutcome(answer) ==
    IF answer \in SecretFailures THEN "secret_resolution_failed" ELSE answer

\* complete; a secret that cannot be decrypted is audited with it.
CompleteAttempt(w) ==
    LET d == worker[w].id
        answer == worker[w].answer
    IN  /\ worker[w].pc = "completing"
        /\ HoldsLease(w)
        /\ answer # "status_out_of_range"
        /\ Store(d, Completion(w))
        /\ attempts' = [attempts EXCEPT ![d][worker[w].no] = StoredOutcome(answer)]
        /\ audits' = IF answer = "secret_decryption_failed"
                     THEN audits \cup {[action |-> answer, id |-> d, no |-> worker[w].no]}
                     ELSE audits
        /\ worker' = [worker EXCEPT ![w] = Looking]
        /\ UNCHANGED <<clock, project, secrets, emitted, posts, accepted>>

\* ErrLeaseLost, a failed transaction, a cancelled context or a crash; Run
\* starts over at the next tick of its timer.
Abandon(w) ==
    /\ worker[w].pc \in {"claimed", "completing"}
    /\ worker' = [worker EXCEPT ![w] = Looking]
    /\ UNCHANGED <<clock, project, secrets, emitted, delivery, attempts, audits, posts, accepted>>

\* Time is only compared with leases and retry times: once all of them have
\* passed, more of it changes nothing.
Tick ==
    /\ clock < MaxClock
    /\ \E d \in Deliveries : delivery[d].lease > clock \/ delivery[d].next > clock
    /\ clock' = clock + 1
    /\ UNCHANGED <<project, secrets, emitted, delivery, attempts, audits, worker, posts, accepted>>

WorkerStep(w) ==
    \/ \E d \in Deliveries : RecoverNext(w, d) \/ ExhaustNext(w, d) \/ ClaimDue(w, d)
    \/ NothingToRecover(w)
    \/ NothingToExhaust(w)
    \/ NothingDue(w)
    \/ DispatchClaimed(w)
    \/ CompleteAttempt(w)
    \/ Abandon(w)

Next ==
    \/ \E w \in Workers : WorkerStep(w)
    \/ \E url \in Urls \cup {"none"} : SetWebhookURL(url)
    \/ RotateWebhookSecret
    \/ \E d \in Deliveries :
          \/ \E event \in Events : EmitEvent(event, d)
          \/ \E original \in Deliveries : ReplayDead(original, d)
    \/ Tick

Spec == Init /\ [][Next]_vars

-----------------------------------------------------------------------------
(* Properties.                                                             *)

Rows ==
    [status : Statuses \cup {"none"}, event : Events \cup {"none"}, url : Urls \cup {"none"},
     configVersion : 0 .. MaxConfig, secretVersion : 0 .. MaxConfig, count : 0 .. AttemptLimit,
     next : Nat, lease : Nat, replayOf : Deliveries \cup {"none"}]

AttemptOutcomes ==
    {StoredOutcome(f) : f \in Failures} \cup {"none", "open", "success", "worker_lease_expired"}

\* The rows, the secrets and the workers' memory have their types.
TypeOK ==
    /\ clock \in Nat \ {0}
    /\ project \in [url : Urls \cup {"none"}, configVersion : 0 .. MaxConfig,
                    secretVersion : 0 .. MaxConfig]
    /\ secrets \in [1 .. MaxConfig -> {"none", "active", "retired"}]
    /\ emitted \subseteq Events
    /\ delivery \in [Deliveries -> Rows]
    /\ attempts \in [Deliveries -> [1 .. AttemptLimit -> AttemptOutcomes]]
    /\ audits \subseteq [action : {"replayed", "secret_decryption_failed"}, id : Deliveries,
                         no : 0 .. AttemptLimit]
    /\ worker \in [Workers ->
          [pc : {"recovering", "exhausting", "claiming", "claimed", "completing"},
           id : Deliveries \cup {"none"}, no : 0 .. AttemptLimit, now : Nat,
           answer : Answers \cup {"none"}]]
    /\ posts \in [Deliveries -> Nat]
    /\ accepted \subseteq Deliveries

\* The attempt history agrees with the Delivery: attempts 1..count exist, only
\* the last may be open, and it is open exactly while the Delivery is sending.
\* An open attempt left behind would make the unique index refuse every later
\* claim; a closed one would hide the Delivery from the recovery.
AttemptsMatchDelivery ==
    \A d \in Deliveries, n \in 1 .. AttemptLimit :
        /\ attempts[d][n] = "none" <=> n > delivery[d].count
        /\ attempts[d][n] = "open" <=> n = delivery[d].count /\ delivery[d].status = "sending"

\* The endpoint sees at most one POST per consumed attempt, even when a worker
\* that lost its lease posts late.
PostsWithinAttempts == \A d \in Deliveries : posts[d] <= delivery[d].count

\* delivered is claimed only if the endpoint answered 2xx and that answer is
\* the last attempt; a dead Delivery stored no success.
OutcomeIsTrue ==
    \A d \in Deliveries :
        /\ delivery[d].status = "delivered" =>
              d \in accepted /\ attempts[d][delivery[d].count] = "success"
        /\ delivery[d].status # "delivered" => \A n \in 1 .. AttemptLimit : attempts[d][n] # "success"

\* The transactions at the head of the loop pass the CHECK constraint for
\* every limit a process may be configured with; if one were refused, runNext
\* would return its error and never dispatch again.
LoopNotRejected ==
    \A w \in Workers, d \in Deliveries :
        /\ Expired(d, clock) => StateCheck(AfterFailure(w, d, clock))
        /\ Due(w, d, clock) => attempts[d][delivery[d].count + 1] = "none"

\* An audit row about a secret that could not be decrypted stands for an
\* attempt that was completed with a secret failure: a worker that lost its
\* lease meanwhile leaves no row behind.
DecryptionAudited ==
    \A a \in audits : a.action = "secret_decryption_failed" =>
        attempts[a.id][a.no] = "secret_resolution_failed"

\* Delivery, attempts, audit rows and the requests the endpoint saw agree after every
\* step, and none of them is in a state that stops the loop for every other Delivery.
RowsConsistent ==
    AttemptsMatchDelivery /\ PostsWithinAttempts /\ LoopNotRejected /\ DecryptionAudited

\* Deliveries with one configuration version carry the same target and
\* secret, and the secret exists: a receiver can verify what it gets.
ConfigurationSnapshot ==
    /\ \A d, e \in Deliveries :
          delivery[d].configVersion = delivery[e].configVersion =>
              /\ delivery[d].url = delivery[e].url
              /\ delivery[d].secretVersion = delivery[e].secretVersion
    /\ \A d \in Deliveries :
          delivery[d].status # "none" => secrets[delivery[d].secretVersion] # "none"

\* Exactly the current secret is active: rotation retires the old one, and a
\* target that is removed and set again finds its secret.
OneActiveSecret ==
    \A v \in 1 .. MaxConfig : secrets[v] = "active" <=> v = project.secretVersion

\* A replay repeats a Delivery that died, for the same Event; an Event has at
\* most one Delivery that is no replay.
ReplaysOfDead ==
    /\ \A d \in Deliveries : delivery[d].replayOf # "none" =>
          /\ delivery[delivery[d].replayOf].status = "dead"
          /\ delivery[delivery[d].replayOf].event = delivery[d].event
    /\ \A d, e \in Deliveries :
          /\ delivery[d].status # "none" /\ delivery[d].replayOf = "none"
          /\ delivery[e].status # "none" /\ delivery[e].replayOf = "none"
          /\ delivery[d].event = delivery[e].event
          => d = e

\* Whatever order targets, rotations, Events and replays come in, a Delivery carries one
\* snapshot of the configuration and repeats nothing that may still arrive.
ConfigurationSound == ConfigurationSnapshot /\ OneActiveSecret /\ ReplaysOfDead

\* delivered and dead are final, attempts are only consumed, never given back,
\* and a finished attempt is never rewritten.
HistoryImmutable ==
    [][\A d \in Deliveries :
          /\ delivery[d].status \in {"delivered", "dead"} => delivery'[d] = delivery[d]
          /\ delivery'[d].count >= delivery[d].count
          /\ \A n \in 1 .. AttemptLimit :
                attempts[d][n] \notin {"none", "open"} => attempts'[d][n] = attempts[d][n]]_vars

\* Nobody but the holder ends a sending Delivery before its lease is over.
LeaseRespected ==
    [][\A d \in Deliveries :
          /\ delivery[d].status = "sending" /\ delivery'[d].status # "sending"
          /\ delivery[d].lease > clock
          => \E w \in Workers :
                /\ worker[w].pc = "completing" /\ worker[w].id = d
                /\ worker[w].no = delivery[d].count /\ worker'[w] # worker[w]]_vars

\* A worker whose lease is over changes nothing, and nobody else does while it runs:
\* what an attempt came to is decided once.
LeasesKeepHistory == HistoryImmutable /\ LeaseRespected

\* Every loop goes on: HTTP calls time out, errors end in the next poll, a
\* crashed process is restarted.  A crash may hit any attempt (Abandon), so
\* only the loop as a whole is fair, not the completion of an attempt.
FairSpec == Spec /\ WF_vars(Tick) /\ \A w \in Workers : WF_vars(WorkerStep(w))

\* Every Delivery is delivered or dies.  Both are final and finitely many ids
\* are used, so again and again no Delivery being open says just that.
EventuallyFinished ==
    []<>(\A d \in Deliveries : delivery[d].status \in {"none", "delivered", "dead"})
=============================================================================
