------------------------ MODULE WebhookDelivery_proofs ------------------------
(***************************************************************************)
(* Proofs about WebhookDelivery for any number of Deliveries, Events and   *)
(* processes, any limits and any retry schedule.                           *)
(***************************************************************************)
EXTENDS WebhookDelivery, FiniteSetTheorems, TLAPS

\* Every row passes the CHECK; an id without a row is blank.
RowInv ==
    \A d \in Deliveries : IF delivery[d].status = "none" THEN delivery[d] = NoDelivery
                                                         ELSE StateCheck(delivery[d])

\* A worker holds a claim on an attempt that exists, and what it learned.
WorkerInv ==
    \A w \in Workers :
        /\ worker[w].pc \in {"claimed", "completing"} =>
              /\ worker[w].id \in Deliveries
              /\ worker[w].no \in 1 .. AttemptLimit
        /\ worker[w].pc \in {"claiming", "completing"} => worker[w].now > 0 /\ worker[w].now <= clock
        /\ worker[w].pc = "completing" => worker[w].answer \in Answers

\* Secrets are created by configuration changes.
VersionInv ==
    /\ project.secretVersion <= project.configVersion
    /\ \A v \in 1 .. MaxConfig : secrets[v] = "active" <=> v = project.secretVersion

BaseInv == TypeOK /\ RowInv /\ WorkerInv /\ VersionInv /\ AttemptsMatchDelivery

WorkerRecords ==
    [pc : {"recovering", "exhausting", "claiming", "claimed", "completing"},
     id : Deliveries \cup {"none"}, no : 0 .. AttemptLimit, now : Nat,
     answer : Answers \cup {"none"}]

LEMMA InitBase == Init => BaseInv
  <1> SUFFICES ASSUME Init PROVE BaseInv
    OBVIOUS
  <1>1. NoDelivery \in Rows
    BY WebhookAssumption DEF NoDelivery, Rows
  <1>2. Looking \in WorkerRecords
    BY WebhookAssumption DEF Looking, WorkerRecords
  <1>3. "none" \in AttemptOutcomes
    BY DEF AttemptOutcomes
  <1>4. TypeOK
    BY <1>1, <1>2, <1>3, WebhookAssumption DEF TypeOK, Init, WorkerRecords
  <1>5. RowInv
    BY DEF Init, RowInv, NoDelivery
  <1>6. WorkerInv
    BY DEF Init, WorkerInv, Looking
  <1>7. VersionInv
    BY DEF Init, VersionInv
  <1>8. AttemptsMatchDelivery
    BY DEF Init, AttemptsMatchDelivery, NoDelivery
  <1> QED
    BY <1>4, <1>5, <1>6, <1>7, <1>8 DEF BaseInv

\* What a row says of its Event and configuration.
SameOrigin(row, old) ==
    /\ row.event = old.event /\ row.url = old.url /\ row.replayOf = old.replayOf
    /\ row.configVersion = old.configVersion /\ row.secretVersion = old.secretVersion

\* The rows an action writes.
LEMMA FinishedRow ==
    ASSUME BaseInv, NEW d \in Deliveries, delivery[d].status = "sending",
           NEW status \in Statuses, NEW next \in Nat
    PROVE  /\ Finished(d, status, next) \in Rows
           /\ Finished(d, status, next).status = status
           /\ Finished(d, status, next).count = delivery[d].count
           /\ Finished(d, status, next).next = next
           /\ Finished(d, status, next).lease = 0
           /\ SameOrigin(Finished(d, status, next), delivery[d])
  <1>1. delivery[d] \in Rows
    BY DEF BaseInv, TypeOK
  <1>2. Finished(d, status, next) \in Rows
    BY <1>1 DEF Rows, Finished
  <1> QED
    BY <1>1, <1>2 DEF Rows, Finished, SameOrigin

\* An attempt that failed leaves a row the CHECK accepts, whatever the process's limit.
LEMMA AfterFailureRow ==
    ASSUME BaseInv, NEW w \in Workers, NEW d \in Deliveries, delivery[d].status = "sending",
           NEW now \in Nat \ {0}
    PROVE  LET row == AfterFailure(w, d, now) IN
           /\ row \in Rows /\ StateCheck(row)
           /\ row.status \in {"failed", "dead"}
           /\ row.count = delivery[d].count
           /\ SameOrigin(row, delivery[d])
  <1>1. delivery[d].count \in 1 .. AttemptLimit
    BY DEF BaseInv, RowInv, StateCheck
  <1>2. RetrySchedule[delivery[d].count] \in Nat \ {0} /\ MaxAttemptsOf[w] \in 1 .. AttemptLimit
    BY <1>1, WebhookAssumption
  <1>3. CASE delivery[d].count < MaxAttemptsOf[w]
    <2> DEFINE next == now + RetrySchedule[delivery[d].count]
               row == Finished(d, "failed", next)
    <2>1. next \in Nat \ {0}
      BY <1>2
    <2>2. AfterFailure(w, d, now) = row
      BY <1>3 DEF AfterFailure
    <2> HIDE DEF next
    <2>3. /\ row \in Rows /\ row.status = "failed" /\ row.count = delivery[d].count
          /\ row.next = next /\ row.lease = 0
          /\ SameOrigin(row, delivery[d])
      BY <2>1, FinishedRow DEF Statuses
    <2> HIDE DEF row
    <2>4. StateCheck(row)
      BY <1>1, <1>2, <1>3, <2>1, <2>3, WebhookAssumption DEF StateCheck
    <2> QED
      BY <2>2, <2>3, <2>4
  <1>4. CASE ~ (delivery[d].count < MaxAttemptsOf[w])
    <2> DEFINE row == Finished(d, "dead", 0)
    <2>1. AfterFailure(w, d, now) = row
      BY <1>4 DEF AfterFailure
    <2>2. /\ row \in Rows /\ row.status = "dead" /\ row.count = delivery[d].count
          /\ row.next = 0 /\ row.lease = 0
          /\ SameOrigin(row, delivery[d])
      BY FinishedRow DEF Statuses
    <2> HIDE DEF row
    <2>3. StateCheck(row)
      BY <1>1, <2>2 DEF StateCheck
    <2> QED
      BY <2>1, <2>2, <2>3
  <1> QED
    BY <1>3, <1>4

\* A row that is written has its type and passes the CHECK.
LEMMA StoredRow ==
    ASSUME BaseInv, NEW d \in Deliveries, NEW row \in Rows, StateCheck(row), row.status # "none",
           delivery' = [delivery EXCEPT ![d] = row]
    PROVE  /\ delivery' \in [Deliveries -> Rows]
           /\ RowInv'
  <1>1. delivery' \in [Deliveries -> Rows]
    BY DEF BaseInv, TypeOK
  <1>2. \A e \in Deliveries : delivery'[e] = IF e = d THEN row ELSE delivery[e]
    BY DEF BaseInv, TypeOK
  <1>3. RowInv'
    <2> SUFFICES ASSUME NEW e \in Deliveries
                 PROVE  IF delivery'[e].status = "none" THEN delivery'[e] = NoDelivery
                                                        ELSE StateCheck(delivery'[e])
      BY DEF RowInv, StateCheck
    <2>1. CASE e = d
      BY <1>2, <2>1
    <2>2. CASE e # d
      BY <1>2, <2>2 DEF BaseInv, RowInv
    <2> QED
      BY <2>1, <2>2
  <1> QED
    BY <1>1, <1>3

\* A worker's record that is written has its type.
LEMMA WorkerRow ==
    ASSUME TypeOK, NEW w \in Workers, NEW r \in WorkerRecords, worker' = [worker EXCEPT ![w] = r]
    PROVE  worker' \in [Workers -> WorkerRecords]
  BY DEF TypeOK, WorkerRecords

LEMMA LookingType == Looking \in WorkerRecords
  BY WebhookAssumption DEF Looking, WorkerRecords

\* A worker that starts over.
LEMMA LookingAgain ==
    ASSUME BaseInv, NEW w \in Workers, worker' = [worker EXCEPT ![w] = Looking], clock' = clock
    PROVE  worker' \in [Workers -> WorkerRecords] /\ WorkerInv'
  <1>1. worker' \in [Workers -> WorkerRecords]
    BY WorkerRow, LookingType DEF BaseInv
  <1>2. \A v \in Workers : worker'[v] = IF v = w THEN Looking ELSE worker[v]
    BY DEF BaseInv, TypeOK
  <1>3. Looking.pc = "recovering"
    BY DEF Looking
  <1> QED
    BY <1>1, <1>2, <1>3 DEF BaseInv, WorkerInv

-----------------------------------------------------------------------------
LEMMA OutcomeTypes ==
    /\ {"none", "open", "success", "worker_lease_expired"} \subseteq AttemptOutcomes
    /\ \A a \in Answers \ {"status_out_of_range"} : StoredOutcome(a) \in AttemptOutcomes
  BY DEF AttemptOutcomes, Answers, StoredOutcome, Failures, UnsentAnswers, SecretFailures

LEMMA ConfigBase ==
    ASSUME BaseInv, (\E url \in Urls \cup {"none"} : SetWebhookURL(url)) \/ RotateWebhookSecret
    PROVE  BaseInv'
  <1>0. /\ project.configVersion \in Nat /\ project.secretVersion \in Nat
        /\ project.secretVersion <= project.configVersion
        /\ project.url \in Urls \cup {"none"}
    BY WebhookAssumption DEF BaseInv, TypeOK, VersionInv
  <1>1. ASSUME NEW url \in Urls \cup {"none"}, SetWebhookURL(url)
        PROVE  BaseInv'
    <2>1. CASE url # "none" /\ project.secretVersion = 0
      <3>1. /\ secrets' = [secrets EXCEPT ![1] = "active"]
            /\ project' = [url |-> url, configVersion |-> project.configVersion + 1, secretVersion |-> 1]
            /\ project.configVersion < MaxConfig
        BY <1>1, <2>1 DEF SetWebhookURL
      <3>2. 1 \in 1 .. MaxConfig /\ project.configVersion + 1 \in 0 .. MaxConfig
        BY <1>0, <3>1, WebhookAssumption
      <3>3. TypeOK'
        BY <1>1, <3>1, <3>2 DEF SetWebhookURL, BaseInv, TypeOK
      <3>4. VersionInv'
        BY <1>0, <2>1, <3>1, <3>2 DEF BaseInv, TypeOK, VersionInv
      <3> QED
        BY <1>1, <3>3, <3>4 DEF SetWebhookURL, BaseInv, RowInv, StateCheck, WorkerInv, AttemptsMatchDelivery
    <2>2. CASE ~ (url # "none" /\ project.secretVersion = 0)
      <3>1. /\ secrets' = secrets
            /\ project' = [url |-> url, configVersion |-> project.configVersion + 1,
                           secretVersion |-> project.secretVersion]
            /\ project.configVersion < MaxConfig
        BY <1>1, <2>2 DEF SetWebhookURL
      <3>2. project.configVersion + 1 \in 0 .. MaxConfig /\ project.secretVersion \in 0 .. MaxConfig
        BY <1>0, <3>1, WebhookAssumption
      <3>3. TypeOK'
        BY <1>1, <3>1, <3>2 DEF SetWebhookURL, BaseInv, TypeOK
      <3>4. VersionInv'
        BY <1>0, <3>1, <3>2 DEF BaseInv, TypeOK, VersionInv
      <3> QED
        BY <1>1, <3>3, <3>4 DEF SetWebhookURL, BaseInv, RowInv, StateCheck, WorkerInv, AttemptsMatchDelivery
    <2> QED
      BY <2>1, <2>2
  <1>2. CASE RotateWebhookSecret
    <2> DEFINE version == project.secretVersion + 1
    <2>1. /\ secrets' = [secrets EXCEPT ![version] = "active", ![project.secretVersion] = "retired"]
          /\ project' = [project EXCEPT !.configVersion = @ + 1, !.secretVersion = version]
          /\ project.configVersion < MaxConfig /\ project.secretVersion # 0
          /\ secrets[version] = "none"
      BY <1>2 DEF RotateWebhookSecret
    <2>2. /\ version \in 1 .. MaxConfig /\ project.configVersion + 1 \in 0 .. MaxConfig
          /\ project.secretVersion \in 1 .. MaxConfig
      BY <1>0, <2>1, WebhookAssumption
    <2>3. /\ project'.url = project.url /\ project'.configVersion = project.configVersion + 1
          /\ project'.secretVersion = version
      BY <2>1 DEF BaseInv, TypeOK
    <2>4. project' \in [url : Urls \cup {"none"}, configVersion : 0 .. MaxConfig, secretVersion : 0 .. MaxConfig]
      <3>1. version \in 0 .. MaxConfig
        BY <2>2
      <3>2. project \in [url : Urls \cup {"none"}, configVersion : 0 .. MaxConfig, secretVersion : 0 .. MaxConfig]
        BY DEF BaseInv, TypeOK
      <3> HIDE DEF version
      <3> QED
        BY <2>1, <2>2, <3>1, <3>2
    <2>5. secrets' \in [1 .. MaxConfig -> {"none", "active", "retired"}]
      BY <2>1, <2>2 DEF BaseInv, TypeOK
    <2>6. TypeOK'
      BY <1>2, <2>4, <2>5 DEF RotateWebhookSecret, BaseInv, TypeOK
    <2>7. VersionInv'
      BY <1>0, <2>1, <2>2, <2>3 DEF BaseInv, TypeOK, VersionInv
    <2> QED
      BY <1>2, <2>6, <2>7 DEF RotateWebhookSecret, BaseInv, RowInv, StateCheck, WorkerInv, AttemptsMatchDelivery
  <1> QED
    BY <1>1, <1>2


\* The row of a new Delivery.
LEMMA InsertedRow ==
    ASSUME BaseInv, NEW d \in Deliveries, NEW event \in Events \cup {"none"},
           NEW replayOf \in Deliveries \cup {"none"}, InsertDelivery(d, event, replayOf)
    PROVE  \E row \in Rows :
              /\ delivery' = [delivery EXCEPT ![d] = row]
              /\ row.status = "pending" /\ row.event = event /\ row.replayOf = replayOf
              /\ row.url = project.url /\ row.configVersion = project.configVersion
              /\ row.secretVersion = project.secretVersion /\ row.count = 0
              /\ StateCheck(row)
  <1> DEFINE row == [NoDelivery EXCEPT !.status = "pending", !.event = event, !.url = project.url,
                           !.configVersion = project.configVersion,
                           !.secretVersion = project.secretVersion,
                           !.next = clock, !.replayOf = replayOf]
  <1>0. NoDelivery \in Rows
    BY WebhookAssumption DEF NoDelivery, Rows
  <1>1. /\ row.status = "pending" /\ row.event = event /\ row.url = project.url
        /\ row.configVersion = project.configVersion /\ row.secretVersion = project.secretVersion
        /\ row.count = 0 /\ row.next = clock /\ row.lease = 0 /\ row.replayOf = replayOf
    BY DEF NoDelivery
  <1>2. delivery' = [delivery EXCEPT ![d] = row]
    BY DEF InsertDelivery
  <1>3. row \in Rows
    <2>1. /\ project.url \in Urls \cup {"none"} /\ project.configVersion \in 0 .. MaxConfig
          /\ project.secretVersion \in 0 .. MaxConfig /\ clock \in Nat /\ "pending" \in Statuses
      BY DEF BaseInv, TypeOK, Statuses
    <2> QED
      BY <1>0, <2>1 DEF Rows
  <1> HIDE DEF row
  <1>4. StateCheck(row)
    BY <1>1 DEF StateCheck, BaseInv, TypeOK
  <1> QED
    BY <1>1, <1>2, <1>3, <1>4

\* The attempts of a Delivery that gets its row are still the ones of a blank one.
LEMMA InsertBase ==
    ASSUME BaseInv, NEW d \in Deliveries, delivery[d].status = "none",
           NEW event \in Events \cup {"none"}, NEW replayOf \in Deliveries \cup {"none"},
           InsertDelivery(d, event, replayOf),
           UNCHANGED <<clock, project, secrets, attempts, worker, posts, accepted>>,
           emitted' \subseteq Events,
           audits' \subseteq [action : {"replayed", "secret_decryption_failed"}, id : Deliveries,
                              no : 0 .. AttemptLimit]
    PROVE  BaseInv'
  <1>1. PICK row \in Rows : /\ delivery' = [delivery EXCEPT ![d] = row]
                            /\ row.status = "pending" /\ row.count = 0 /\ StateCheck(row)
    BY InsertedRow
  <1>2. delivery' \in [Deliveries -> Rows] /\ RowInv'
    BY <1>1, StoredRow
  <1>3. delivery[d].count = 0
    BY DEF BaseInv, RowInv, NoDelivery
  <1>4. \A e \in Deliveries : /\ delivery'[e].count = delivery[e].count
                              /\ delivery'[e].status = "sending" <=> delivery[e].status = "sending"
    BY <1>1, <1>3 DEF BaseInv, TypeOK
  <1>5. AttemptsMatchDelivery'
    BY <1>4 DEF BaseInv, AttemptsMatchDelivery
  <1> QED
    BY <1>2, <1>5 DEF BaseInv, TypeOK, WorkerInv, VersionInv

LEMMA EmitBase ==
    ASSUME BaseInv, NEW event \in Events, NEW d \in Deliveries, EmitEvent(event, d)
    PROVE  BaseInv'
  <1>1. /\ emitted' \subseteq Events /\ delivery[d].status = "none"
        /\ UNCHANGED <<clock, project, secrets, attempts, worker, posts, accepted>>
        /\ audits' \subseteq [action : {"replayed", "secret_decryption_failed"}, id : Deliveries,
                              no : 0 .. AttemptLimit]
    BY DEF EmitEvent, BaseInv, TypeOK
  <1>2. CASE Configured
    BY <1>1, <1>2, InsertBase DEF EmitEvent
  <1>3. CASE ~Configured
    BY <1>1, <1>3 DEF EmitEvent, BaseInv, TypeOK, RowInv, StateCheck, WorkerInv, VersionInv, AttemptsMatchDelivery
  <1> QED
    BY <1>2, <1>3

LEMMA ReplayBase ==
    ASSUME BaseInv, NEW original \in Deliveries, NEW d \in Deliveries, ReplayDead(original, d)
    PROVE  BaseInv'
  <1>1. delivery[original].event \in Events \cup {"none"}
    BY DEF BaseInv, TypeOK, Rows
  <1>2. audits' \subseteq [action : {"replayed", "secret_decryption_failed"}, id : Deliveries,
                            no : 0 .. AttemptLimit]
    BY WebhookAssumption DEF ReplayDead, BaseInv, TypeOK
  <1>3. emitted' \subseteq Events
    BY DEF ReplayDead, BaseInv, TypeOK
  <1> QED
    BY <1>1, <1>2, <1>3, InsertBase DEF ReplayDead

-----------------------------------------------------------------------------
\* A row that ends an attempt, with the attempt's outcome.
LEMMA EndAttempt ==
    ASSUME BaseInv, NEW d \in Deliveries, delivery[d].status = "sending", NEW row \in Rows, StateCheck(row),
           row.status \in {"failed", "dead", "delivered"}, row.count = delivery[d].count,
           delivery' = [delivery EXCEPT ![d] = row],
           NEW outcome \in AttemptOutcomes \ {"none", "open"},
           attempts' = [attempts EXCEPT ![d][delivery[d].count] = outcome]
    PROVE  /\ delivery' \in [Deliveries -> Rows] /\ RowInv'
           /\ attempts' \in [Deliveries -> [1 .. AttemptLimit -> AttemptOutcomes]]
           /\ AttemptsMatchDelivery'
  <1> DEFINE no == delivery[d].count
  <1>1. no \in 1 .. AttemptLimit
    BY DEF BaseInv, RowInv, StateCheck
  <1>2. delivery' \in [Deliveries -> Rows] /\ RowInv'
    BY StoredRow
  <1>3. attempts' \in [Deliveries -> [1 .. AttemptLimit -> AttemptOutcomes]]
    BY <1>1 DEF BaseInv, TypeOK
  <1>4. \A e \in Deliveries, n \in 1 .. AttemptLimit :
           attempts'[e][n] = IF e = d /\ n = no THEN outcome ELSE attempts[e][n]
    BY <1>1 DEF BaseInv, TypeOK
  <1>5. \A e \in Deliveries : delivery'[e] = IF e = d THEN row ELSE delivery[e]
    BY DEF BaseInv, TypeOK
  <1>6. AttemptsMatchDelivery'
    <2> SUFFICES ASSUME NEW e \in Deliveries, NEW n \in 1 .. AttemptLimit
                 PROVE  /\ attempts'[e][n] = "none" <=> n > delivery'[e].count
                        /\ attempts'[e][n] = "open" <=> n = delivery'[e].count /\ delivery'[e].status = "sending"
      BY DEF AttemptsMatchDelivery
    <2>1. /\ attempts[e][n] = "none" <=> n > delivery[e].count
          /\ attempts[e][n] = "open" <=> n = delivery[e].count /\ delivery[e].status = "sending"
      BY DEF BaseInv, AttemptsMatchDelivery
    <2>2. CASE e # d
      BY <1>4, <1>5, <2>1, <2>2
    <2>3. CASE e = d /\ n = no
      BY <1>1, <1>4, <1>5, <2>1, <2>3
    <2>4. CASE e = d /\ n # no
      BY <1>1, <1>4, <1>5, <2>1, <2>4
    <2> QED
      BY <2>2, <2>3, <2>4
  <1> QED
    BY <1>2, <1>3, <1>6

LEMMA RecoverBase ==
    ASSUME BaseInv, NEW w \in Workers, NEW d \in Deliveries, RecoverNext(w, d)
    PROVE  BaseInv'
  <1>1. PICK now \in 1 .. clock : Expired(d, now) /\ Store(d, AfterFailure(w, d, now))
    BY DEF RecoverNext
  <1>2. now \in Nat \ {0} /\ delivery[d].status = "sending"
    BY <1>1 DEF Expired, BaseInv, TypeOK
  <1>3. /\ AfterFailure(w, d, now) \in Rows /\ StateCheck(AfterFailure(w, d, now))
        /\ AfterFailure(w, d, now).status \in {"failed", "dead"}
        /\ AfterFailure(w, d, now).count = delivery[d].count
    BY <1>2, AfterFailureRow
  <1>4. delivery' = [delivery EXCEPT ![d] = AfterFailure(w, d, now)]
    BY <1>1 DEF Store
  <1>5. /\ attempts' = [attempts EXCEPT ![d][delivery[d].count] = RecoveryError]
        /\ RecoveryError \in AttemptOutcomes \ {"none", "open"}
    BY OutcomeTypes DEF RecoverNext, RecoveryError
  <1>6. /\ delivery' \in [Deliveries -> Rows] /\ RowInv'
        /\ attempts' \in [Deliveries -> [1 .. AttemptLimit -> AttemptOutcomes]]
        /\ AttemptsMatchDelivery'
    BY <1>2, <1>3, <1>4, <1>5, EndAttempt
  <1> QED
    BY <1>6 DEF RecoverNext, BaseInv, TypeOK, WorkerInv, VersionInv

LEMMA ExhaustBase ==
    ASSUME BaseInv, NEW w \in Workers, NEW d \in Deliveries, ExhaustNext(w, d)
    PROVE  BaseInv'
  <1> DEFINE row == [delivery[d] EXCEPT !.status = "dead", !.next = 0]
  <1>1. delivery[d] \in Rows /\ delivery[d].status = "failed"
    BY DEF ExhaustNext, OverBudget, BaseInv, TypeOK
  <1>2. row \in Rows /\ row.status = "dead" /\ row.count = delivery[d].count
    BY <1>1 DEF Rows, Statuses
  <1>3. StateCheck(row) /\ delivery' = [delivery EXCEPT ![d] = row]
    BY DEF ExhaustNext, Store
  <1> HIDE DEF row
  <1>4. delivery' \in [Deliveries -> Rows] /\ RowInv'
    BY <1>2, <1>3, StoredRow
  <1>5. \A e \in Deliveries : /\ delivery'[e].count = delivery[e].count
                              /\ delivery'[e].status = "sending" <=> delivery[e].status = "sending"
    BY <1>1, <1>2, <1>3 DEF BaseInv, TypeOK
  <1>6. AttemptsMatchDelivery'
    BY <1>5 DEF ExhaustNext, BaseInv, AttemptsMatchDelivery
  <1>7. worker' \in [Workers -> WorkerRecords] /\ WorkerInv'
    BY LookingAgain DEF ExhaustNext
  <1> QED
    BY <1>4, <1>6, <1>7 DEF ExhaustNext, BaseInv, TypeOK, VersionInv, WorkerRecords

LEMMA ClaimBase ==
    ASSUME BaseInv, NEW w \in Workers, NEW d \in Deliveries, ClaimDue(w, d)
    PROVE  BaseInv'
  <1> DEFINE no == delivery[d].count + 1
             row == [delivery[d] EXCEPT !.status = "sending", !.count = no, !.next = 0,
                                        !.lease = worker[w].now + LeaseDuration]
             me == [worker[w] EXCEPT !.pc = "claimed", !.id = d, !.no = no]
  <1>1. delivery[d] \in Rows /\ worker[w] \in WorkerRecords
    BY DEF BaseInv, TypeOK, WorkerRecords
  <1>2. delivery[d].count < MaxAttemptsOf[w] /\ MaxAttemptsOf[w] \in 1 .. AttemptLimit
    BY WebhookAssumption DEF ClaimDue, Due
  <1>3. no \in 1 .. AttemptLimit /\ no = delivery[d].count + 1
    BY <1>1, <1>2, WebhookAssumption DEF Rows
  <1>4. worker[w].now + LeaseDuration \in Nat
    BY <1>1, WebhookAssumption DEF WorkerRecords
  <1>5. delivery' = [delivery EXCEPT ![d] = row] /\ StateCheck(row)
    BY DEF ClaimDue, Store
  <1>6. attempts' = [attempts EXCEPT ![d][no] = "open"] /\ worker' = [worker EXCEPT ![w] = me]
    BY DEF ClaimDue
  <1>7. \A n \in 1 .. AttemptLimit : attempts[d][n] # "open"
    BY DEF ClaimDue
  <1>n. no \in 0 .. AttemptLimit
    BY <1>3
  <1> HIDE DEF no
  <1>8. row \in Rows /\ row.status = "sending" /\ row.count = no
    <2> DEFINE lease == worker[w].now + LeaseDuration
    <2>1. lease \in Nat
      BY <1>4
    <2> HIDE DEF lease
    <2>2. row = [delivery[d] EXCEPT !.status = "sending", !.count = no, !.next = 0, !.lease = lease]
      BY DEF lease
    <2> HIDE DEF row
    <2>3. row \in Rows
      BY <1>1, <1>n, <2>1, <2>2 DEF Rows, Statuses
    <2> QED
      BY <1>1, <2>2, <2>3 DEF Rows
  <1>9. me \in WorkerRecords /\ me.pc = "claimed" /\ me.id = d /\ me.no = no
    BY <1>1, <1>n DEF WorkerRecords
  <1> HIDE DEF row, me
  <1>10. delivery' \in [Deliveries -> Rows] /\ RowInv'
    BY <1>5, <1>8, StoredRow
  <1>11. worker' \in [Workers -> WorkerRecords]
    BY <1>6, <1>9, WorkerRow DEF BaseInv
  <1>12. attempts' \in [Deliveries -> [1 .. AttemptLimit -> AttemptOutcomes]]
    BY <1>3, <1>6, OutcomeTypes DEF BaseInv, TypeOK
  <1>13. WorkerInv'
    <2>1. \A v \in Workers : worker'[v] = IF v = w THEN me ELSE worker[v]
      BY <1>6 DEF BaseInv, TypeOK
    <2>2. clock' = clock
      BY DEF ClaimDue
    <2> QED
      BY <1>3, <1>9, <2>1, <2>2 DEF BaseInv, WorkerInv
  <1>14. AttemptsMatchDelivery'
    <2> SUFFICES ASSUME NEW e \in Deliveries, NEW n \in 1 .. AttemptLimit
                 PROVE  /\ attempts'[e][n] = "none" <=> n > delivery'[e].count
                        /\ attempts'[e][n] = "open" <=> n = delivery'[e].count /\ delivery'[e].status = "sending"
      BY DEF AttemptsMatchDelivery
    <2>1. /\ attempts[e][n] = "none" <=> n > delivery[e].count
          /\ attempts[e][n] = "open" <=> n = delivery[e].count /\ delivery[e].status = "sending"
      BY DEF BaseInv, AttemptsMatchDelivery
    <2>2. attempts'[e][n] = IF e = d /\ n = no THEN "open" ELSE attempts[e][n]
      BY <1>3, <1>6 DEF BaseInv, TypeOK
    <2>3. delivery'[e] = IF e = d THEN row ELSE delivery[e]
      BY <1>5 DEF BaseInv, TypeOK
    <2>4. delivery[d].count \in Nat
      BY <1>1 DEF Rows
    <2>5. CASE e # d
      BY <2>1, <2>2, <2>3, <2>5
    <2>6. CASE e = d
      BY <1>3, <1>7, <1>8, <2>1, <2>2, <2>3, <2>4, <2>6
    <2> QED
      BY <2>5, <2>6
  <1> QED
    BY <1>10, <1>11, <1>12, <1>13, <1>14 DEF ClaimDue, BaseInv, TypeOK, VersionInv, WorkerRecords


\* A worker that changes only its own record and keeps the rest.
LEMMA WorkerBase ==
    ASSUME BaseInv, NEW w \in Workers, NEW r \in WorkerRecords, worker' = [worker EXCEPT ![w] = r],
           r.pc \in {"claimed", "completing"} => r.id \in Deliveries /\ r.no \in 1 .. AttemptLimit,
           r.pc \in {"claiming", "completing"} => r.now > 0 /\ r.now <= clock,
           r.pc = "completing" => r.answer \in Answers,
           UNCHANGED <<clock, project, secrets, emitted, delivery, attempts, audits>>,
           posts' \in [Deliveries -> Nat], accepted' \subseteq Deliveries
    PROVE  BaseInv'
  <1>1. worker' \in [Workers -> WorkerRecords]
    BY WorkerRow DEF BaseInv
  <1>2. \A v \in Workers : worker'[v] = IF v = w THEN r ELSE worker[v]
    BY DEF BaseInv, TypeOK
  <1>3. WorkerInv'
    <2> SUFFICES ASSUME NEW v \in Workers
                 PROVE  /\ worker'[v].pc \in {"claimed", "completing"} =>
                              worker'[v].id \in Deliveries /\ worker'[v].no \in 1 .. AttemptLimit
                        /\ worker'[v].pc \in {"claiming", "completing"} =>
                              worker'[v].now > 0 /\ worker'[v].now <= clock
                        /\ worker'[v].pc = "completing" => worker'[v].answer \in Answers
      BY DEF WorkerInv
    <2>1. CASE v = w
      BY <1>2, <2>1
    <2>2. CASE v # w
      BY <1>2, <2>2 DEF BaseInv, WorkerInv
    <2> QED
      BY <2>1, <2>2
  <1>4. TypeOK'
    BY <1>1 DEF BaseInv, TypeOK, WorkerRecords
  <1> QED
    BY <1>3, <1>4 DEF BaseInv, RowInv, StateCheck, VersionInv, AttemptsMatchDelivery

LEMMA LookBase ==
    ASSUME BaseInv, NEW w \in Workers,
           \/ NothingToRecover(w) \/ NothingToExhaust(w) \/ NothingDue(w) \/ Abandon(w)
    PROVE  BaseInv'
  <1>1. worker[w] \in WorkerRecords /\ clock \in Nat \ {0} /\ posts \in [Deliveries -> Nat] /\ accepted \subseteq Deliveries
    BY DEF BaseInv, TypeOK, WorkerRecords
  <1>2. CASE NothingToRecover(w)
    <2> DEFINE r == [worker[w] EXCEPT !.pc = "exhausting"]
    <2>1. r \in WorkerRecords /\ r.pc = "exhausting"
      BY <1>1 DEF WorkerRecords
    <2>2. worker' = [worker EXCEPT ![w] = r]
      BY <1>2 DEF NothingToRecover
    <2> HIDE DEF r
    <2> QED
      BY <1>1, <1>2, <2>1, <2>2, WorkerBase DEF NothingToRecover
  <1>3. CASE NothingToExhaust(w)
    <2> DEFINE r == [worker[w] EXCEPT !.pc = "claiming", !.now = clock]
    <2>1. r \in WorkerRecords /\ r.pc = "claiming" /\ r.now = clock
      BY <1>1 DEF WorkerRecords
    <2>2. worker' = [worker EXCEPT ![w] = r]
      BY <1>3 DEF NothingToExhaust
    <2> HIDE DEF r
    <2>3. r.now > 0 /\ r.now <= clock
      BY <1>1, <2>1
    <2>4. UNCHANGED <<clock, project, secrets, emitted, delivery, attempts, audits, posts, accepted>>
      BY <1>3 DEF NothingToExhaust
    <2> QED
      BY <1>1, <2>1, <2>2, <2>3, <2>4, WorkerBase
  <1>4. CASE NothingDue(w) \/ Abandon(w)
    <2>1. Looking \in WorkerRecords /\ Looking.pc = "recovering"
      BY LookingType DEF Looking
    <2> QED
      BY <1>1, <1>4, <2>1, WorkerBase DEF NothingDue, Abandon
  <1> QED
    BY <1>2, <1>3, <1>4

LEMMA DispatchBase ==
    ASSUME BaseInv, NEW w \in Workers, DispatchClaimed(w)
    PROVE  BaseInv'
  <1> DEFINE d == worker[w].id
  <1>1. PICK answer \in Answers, sent \in BOOLEAN :
              /\ posts' = IF sent THEN [posts EXCEPT ![d] = @ + 1] ELSE posts
              /\ accepted' = IF answer = "success" THEN accepted \cup {d} ELSE accepted
              /\ worker' = [worker EXCEPT ![w].pc = "completing", ![w].now = clock, ![w].answer = answer]
    BY LearnedAssumption DEF DispatchClaimed
  <1>2. /\ worker[w] \in WorkerRecords /\ clock \in Nat \ {0}
        /\ d \in Deliveries /\ worker[w].no \in 1 .. AttemptLimit
    BY DEF DispatchClaimed, BaseInv, TypeOK, WorkerInv, WorkerRecords
  <1> DEFINE r == [worker[w] EXCEPT !.pc = "completing", !.now = clock, !.answer = answer]
  <1>3. /\ r \in WorkerRecords /\ r.pc = "completing" /\ r.now = clock /\ r.answer = answer
        /\ r.id = d /\ r.no = worker[w].no
    BY <1>2 DEF WorkerRecords
  <1>4. worker' = [worker EXCEPT ![w] = r]
    BY <1>1
  <1>5. posts' \in [Deliveries -> Nat] /\ accepted' \subseteq Deliveries
    BY <1>1, <1>2 DEF BaseInv, TypeOK
  <1>6. UNCHANGED <<clock, project, secrets, emitted, delivery, attempts, audits>>
    BY DEF DispatchClaimed
  <1> HIDE DEF r, d
  <1>7. r.now > 0 /\ r.now <= clock
    BY <1>2, <1>3
  <1> QED
    BY <1>2, <1>3, <1>4, <1>5, <1>6, <1>7, WorkerBase

\* What a completion writes.
LEMMA CompletionRow ==
    ASSUME BaseInv, NEW w \in Workers, CompleteAttempt(w)
    PROVE  LET d == worker[w].id row == Completion(w) IN
           /\ d \in Deliveries /\ delivery[d].status = "sending"
           /\ worker[w].no = delivery[d].count /\ worker[w].no \in 1 .. AttemptLimit
           /\ worker[w].answer \in Answers \ {"status_out_of_range"}
           /\ delivery[d].lease > worker[w].now
           /\ row \in Rows /\ StateCheck(row) /\ row.count = delivery[d].count
           /\ row.status = "delivered" <=> worker[w].answer = "success"
           /\ row.status \in {"failed", "dead", "delivered"}
           /\ SameOrigin(row, delivery[d])
           /\ delivery' = [delivery EXCEPT ![d] = row]
           /\ attempts[d][delivery[d].count] = "open"
           /\ attempts' = [attempts EXCEPT ![d][delivery[d].count] = StoredOutcome(worker[w].answer)]
  <1> DEFINE d == worker[w].id
  <1>1. /\ d \in Deliveries /\ worker[w].no \in 1 .. AttemptLimit /\ worker[w].now \in Nat \ {0}
        /\ worker[w].answer \in Answers \ {"status_out_of_range"}
    BY DEF CompleteAttempt, BaseInv, TypeOK, WorkerInv
  <1>2. /\ delivery[d].status = "sending" /\ worker[w].no = delivery[d].count
        /\ attempts[d][delivery[d].count] = "open" /\ delivery[d].lease > worker[w].now
    BY DEF CompleteAttempt, HoldsLease
  <1>3. /\ StateCheck(Completion(w)) /\ delivery' = [delivery EXCEPT ![d] = Completion(w)]
        /\ attempts' = [attempts EXCEPT ![d][delivery[d].count] = StoredOutcome(worker[w].answer)]
    BY <1>2 DEF CompleteAttempt, Store
  <1>4. CASE worker[w].answer = "success"
    <2>1. Completion(w) = Finished(d, "delivered", 0)
      BY <1>4 DEF Completion
    <2>2. /\ Completion(w) \in Rows /\ Completion(w).count = delivery[d].count
          /\ Completion(w).status = "delivered" /\ SameOrigin(Completion(w), delivery[d])
      BY <1>1, <1>2, <2>1, FinishedRow DEF Statuses
    <2> QED
      BY <1>1, <1>2, <1>3, <1>4, <2>2
  <1>5. CASE worker[w].answer # "success"
    <2>1. Completion(w) = AfterFailure(w, d, worker[w].now)
      BY <1>5 DEF Completion
    <2>2. /\ Completion(w) \in Rows /\ Completion(w).count = delivery[d].count
          /\ Completion(w).status \in {"failed", "dead"} /\ SameOrigin(Completion(w), delivery[d])
      BY <1>1, <1>2, <2>1, AfterFailureRow
    <2> QED
      BY <1>1, <1>2, <1>3, <1>5, <2>2
  <1> QED
    BY <1>4, <1>5

LEMMA CompleteBase ==
    ASSUME BaseInv, NEW w \in Workers, CompleteAttempt(w)
    PROVE  BaseInv'
  <1> DEFINE d == worker[w].id
             row == Completion(w)
             outcome == StoredOutcome(worker[w].answer)
  <1>1. /\ d \in Deliveries /\ delivery[d].status = "sending" /\ worker[w].no \in 1 .. AttemptLimit
        /\ worker[w].answer \in Answers \ {"status_out_of_range"}
        /\ row \in Rows /\ StateCheck(row) /\ row.count = delivery[d].count
        /\ row.status \in {"failed", "dead", "delivered"}
        /\ delivery' = [delivery EXCEPT ![d] = row]
        /\ attempts' = [attempts EXCEPT ![d][delivery[d].count] = outcome]
    BY CompletionRow
  <1>2. outcome \in AttemptOutcomes \ {"none", "open"}
    BY <1>1, OutcomeTypes DEF StoredOutcome, Answers, Failures, UnsentAnswers, SecretFailures
  <1> HIDE DEF row, outcome
  <1>3. /\ delivery' \in [Deliveries -> Rows] /\ RowInv'
        /\ attempts' \in [Deliveries -> [1 .. AttemptLimit -> AttemptOutcomes]]
        /\ AttemptsMatchDelivery'
    BY <1>1, <1>2, EndAttempt
  <1>4. worker' \in [Workers -> WorkerRecords] /\ WorkerInv'
    BY LookingAgain DEF CompleteAttempt
  <1>5. audits' \subseteq [action : {"replayed", "secret_decryption_failed"}, id : Deliveries,
                            no : 0 .. AttemptLimit]
    BY <1>1 DEF CompleteAttempt, BaseInv, TypeOK
  <1> QED
    BY <1>3, <1>4, <1>5 DEF CompleteAttempt, BaseInv, TypeOK, VersionInv, WorkerRecords

LEMMA BaseStep == BaseInv /\ [Next]_vars => BaseInv'
  <1> SUFFICES ASSUME BaseInv, [Next]_vars PROVE BaseInv'
    OBVIOUS
  <1>1. ASSUME NEW w \in Workers, WorkerStep(w) PROVE BaseInv'
    BY <1>1, RecoverBase, ExhaustBase, ClaimBase, LookBase, DispatchBase, CompleteBase DEF WorkerStep
  <1>2. CASE Tick
    <2>1. clock' = clock + 1 /\ clock \in Nat \ {0}
      BY <1>2 DEF Tick, BaseInv, TypeOK
    <2>2. WorkerInv'
      BY <1>2, <2>1 DEF Tick, BaseInv, TypeOK, WorkerInv
    <2> QED
      BY <1>2, <2>1, <2>2 DEF Tick, BaseInv, TypeOK, RowInv, StateCheck, VersionInv, AttemptsMatchDelivery
  <1>3. CASE UNCHANGED vars
    BY <1>3 DEF vars, BaseInv, TypeOK, RowInv, StateCheck, WorkerInv, VersionInv, AttemptsMatchDelivery
  <1> QED
    BY <1>1, <1>2, <1>3, ConfigBase, EmitBase, ReplayBase DEF Next

\* The rows, the attempts and the workers' memory keep their types (all of webhookworker,
\* projectservice's webhook settings and webhookaudit's replay).
THEOREM WebhookTypeCorrect == Spec => []TypeOK
  <1>1. BaseInv => TypeOK
    BY DEF BaseInv
  <1> QED
    BY <1>1, InitBase, BaseStep, PTL DEF Spec


-----------------------------------------------------------------------------
(* What a step may do to one Delivery.                                     *)

Keeps(d) == delivery'[d] = delivery[d] /\ attempts'[d] = attempts[d]

\* Its row is inserted, for a new Event or as a replay.
IsBorn(d) ==
    /\ delivery[d].status = "none" /\ delivery'[d].status = "pending"
    /\ delivery'[d].count = delivery[d].count /\ attempts'[d] = attempts[d]
    /\ Configured
    /\ delivery'[d].url = project.url /\ delivery'[d].configVersion = project.configVersion
    /\ delivery'[d].secretVersion = project.secretVersion
    /\ \/ /\ delivery'[d].replayOf = "none" /\ delivery'[d].event \notin emitted
          /\ emitted' = emitted \cup {delivery'[d].event}
       \/ \E original \in Deliveries :
             /\ delivery'[d].replayOf = original /\ delivery[original].status = "dead"
             /\ delivery'[d].event = delivery[original].event

\* Its attempt ends; before its lease is over only by the worker that holds it.
EndsAttempt(d) ==
    /\ delivery[d].status = "sending" /\ delivery'[d].status \in {"failed", "dead", "delivered"}
    /\ delivery'[d].count = delivery[d].count /\ SameOrigin(delivery'[d], delivery[d])
    /\ attempts[d][delivery[d].count] = "open"
    /\ \E outcome \in AttemptOutcomes \ {"none", "open"} :
          /\ attempts'[d] = [attempts[d] EXCEPT ![delivery[d].count] = outcome]
          /\ outcome = "success" <=> delivery'[d].status = "delivered"
    /\ \/ delivery[d].lease <= clock /\ delivery'[d].status # "delivered"
       \/ \E w \in Workers :
             /\ worker[w].pc = "completing" /\ worker[w].id = d /\ worker[w].no = delivery[d].count
             /\ worker'[w] # worker[w]
             /\ delivery'[d].status = "delivered" => worker[w].answer = "success"

\* Its retries are over.
IsExhausted(d) ==
    /\ delivery[d].status = "failed" /\ delivery'[d].status = "dead"
    /\ delivery'[d].count = delivery[d].count /\ SameOrigin(delivery'[d], delivery[d])
    /\ attempts'[d] = attempts[d]

IsClaimed(d) ==
    /\ delivery[d].status \in {"pending", "failed"} /\ delivery'[d].status = "sending"
    /\ delivery'[d].count = delivery[d].count + 1 /\ SameOrigin(delivery'[d], delivery[d])
    /\ delivery'[d].count \in 1 .. AttemptLimit
    /\ attempts[d][delivery'[d].count] = "none"
    /\ attempts'[d] = [attempts[d] EXCEPT ![delivery'[d].count] = "open"]

RowChange(d) == Keeps(d) \/ IsBorn(d) \/ EndsAttempt(d) \/ IsExhausted(d) \/ IsClaimed(d)

\* A row is written by one of these changes and no other.
LEMMA RowChanges ==
    ASSUME BaseInv, [Next]_vars, NEW e \in Deliveries
    PROVE  RowChange(e)
  <1>0. /\ delivery \in [Deliveries -> Rows]
        /\ attempts \in [Deliveries -> [1 .. AttemptLimit -> AttemptOutcomes]]
        /\ worker \in [Workers -> WorkerRecords]
    BY DEF BaseInv, TypeOK, WorkerRecords
  <1>1. ASSUME NEW w \in Workers, NEW d \in Deliveries, RecoverNext(w, d)
        PROVE  RowChange(e)
    <2>1. PICK now \in 1 .. clock : Expired(d, now) /\ Store(d, AfterFailure(w, d, now))
      BY <1>1 DEF RecoverNext
    <2>2. now \in Nat \ {0} /\ delivery[d].status = "sending"
      BY <2>1 DEF Expired, BaseInv, TypeOK
    <2> DEFINE row == AfterFailure(w, d, now)
    <2>3. /\ row.status \in {"failed", "dead"} /\ row.count = delivery[d].count
          /\ SameOrigin(row, delivery[d])
      BY <2>2, AfterFailureRow
    <2>4. delivery' = [delivery EXCEPT ![d] = row]
      BY <2>1 DEF Store
    <2>5. /\ attempts' = [attempts EXCEPT ![d] = [@ EXCEPT ![delivery[d].count] = RecoveryError]]
          /\ RecoveryError \in AttemptOutcomes \ {"none", "open", "success"}
      BY <1>1, OutcomeTypes DEF RecoverNext, RecoveryError
    <2>6. delivery[d].lease <= clock /\ attempts[d][delivery[d].count] = "open"
      BY <1>0, <2>1, <2>2 DEF Expired, BaseInv, TypeOK, Rows
    <2> HIDE DEF row
    <2>7. CASE e = d
      <3>1. EndsAttempt(d)
        BY <1>0, <2>2, <2>3, <2>4, <2>5, <2>6 DEF EndsAttempt
      <3> QED
        BY <2>7, <3>1 DEF RowChange
    <2>8. CASE e # d
      BY <1>0, <2>4, <2>5, <2>8 DEF RowChange, Keeps
    <2> QED
      BY <2>7, <2>8
  <1>2. ASSUME NEW w \in Workers, NEW d \in Deliveries, ExhaustNext(w, d)
        PROVE  RowChange(e)
    <2> DEFINE row == [delivery[d] EXCEPT !.status = "dead", !.next = 0]
    <2>1. delivery' = [delivery EXCEPT ![d] = row] /\ attempts' = attempts /\ delivery[d].status = "failed"
      BY <1>2 DEF ExhaustNext, Store, OverBudget
    <2>2. row.status = "dead" /\ row.count = delivery[d].count /\ SameOrigin(row, delivery[d])
      BY <1>0 DEF Rows, SameOrigin
    <2> HIDE DEF row
    <2> QED
      BY <1>0, <2>1, <2>2 DEF RowChange, Keeps, IsExhausted
  <1>3. ASSUME NEW w \in Workers, NEW d \in Deliveries, ClaimDue(w, d)
        PROVE  RowChange(e)
    <2> DEFINE no == delivery[d].count + 1
               row == [delivery[d] EXCEPT !.status = "sending", !.count = no, !.next = 0,
                                          !.lease = worker[w].now + LeaseDuration]
    <2>1. /\ delivery' = [delivery EXCEPT ![d] = row] /\ delivery[d].status \in {"pending", "failed"}
          /\ attempts' = [attempts EXCEPT ![d] = [@ EXCEPT ![no] = "open"]] /\ attempts[d][no] = "none"
          /\ delivery[d].count < MaxAttemptsOf[w]
      BY <1>3 DEF ClaimDue, Due, Store
    <2>2. row.status = "sending" /\ row.count = no /\ SameOrigin(row, delivery[d])
      BY <1>0 DEF Rows, SameOrigin
    <2>3. no \in 1 .. AttemptLimit
      BY <1>0, <2>1, WebhookAssumption DEF Rows
    <2> HIDE DEF row
    <2>4. CASE e = d
      <3>1. IsClaimed(d)
        BY <1>0, <2>1, <2>2, <2>3 DEF IsClaimed
      <3> QED
        BY <2>4, <3>1 DEF RowChange
    <2>5. CASE e # d
      BY <1>0, <2>1, <2>5 DEF RowChange, Keeps
    <2> QED
      BY <2>4, <2>5
  <1>4. ASSUME NEW w \in Workers, CompleteAttempt(w)
        PROVE  RowChange(e)
    <2> DEFINE d == worker[w].id
               row == Completion(w)
               outcome == StoredOutcome(worker[w].answer)
    <2>1. /\ d \in Deliveries /\ delivery[d].status = "sending" /\ worker[w].no = delivery[d].count
          /\ worker[w].answer \in Answers \ {"status_out_of_range"}
          /\ row.count = delivery[d].count
          /\ row.status = "delivered" <=> worker[w].answer = "success"
          /\ row.status \in {"failed", "dead", "delivered"}
          /\ SameOrigin(row, delivery[d])
          /\ delivery' = [delivery EXCEPT ![d] = row]
          /\ attempts[d][delivery[d].count] = "open"
          /\ attempts' = [attempts EXCEPT ![d] = [@ EXCEPT ![delivery[d].count] = outcome]]
      BY <1>4, CompletionRow
    <2>2. /\ outcome \in AttemptOutcomes \ {"none", "open"}
          /\ outcome = "success" <=> worker[w].answer = "success"
      BY <2>1, OutcomeTypes DEF StoredOutcome, Answers, Failures, UnsentAnswers, SecretFailures
    <2>3. worker[w].pc = "completing" /\ worker'[w] # worker[w]
      BY <1>0, <1>4 DEF CompleteAttempt, Looking
    <2> HIDE DEF row, outcome
    <2>4. CASE e = d
      <3>1. EndsAttempt(d)
        BY <1>0, <2>1, <2>2, <2>3 DEF EndsAttempt
      <3> QED
        BY <2>4, <3>1 DEF RowChange
    <2>5. CASE e # d
      BY <1>0, <2>1, <2>5 DEF RowChange, Keeps
    <2> QED
      BY <2>4, <2>5
  <1>5. ASSUME NEW event \in Events, NEW d \in Deliveries, EmitEvent(event, d)
        PROVE  RowChange(e)
    <2>1. CASE Configured
      <3>0. "none" \in Deliveries \cup {"none"} /\ event \in Events \cup {"none"}
        OBVIOUS
      <3>1. PICK row \in Rows :
              /\ delivery' = [delivery EXCEPT ![d] = row]
              /\ row.status = "pending" /\ row.event = event /\ row.replayOf = "none"
              /\ row.url = project.url /\ row.configVersion = project.configVersion
              /\ row.secretVersion = project.secretVersion /\ row.count = 0
        BY <1>5, <2>1, <3>0, InsertedRow DEF EmitEvent
      <3>2. delivery[d].status = "none" /\ delivery[d].count = 0
        BY <1>5 DEF EmitEvent, BaseInv, RowInv, NoDelivery
      <3>3. event \notin emitted /\ emitted' = emitted \cup {event} /\ attempts' = attempts
        BY <1>5 DEF EmitEvent
      <3> QED
        BY <1>0, <2>1, <3>1, <3>2, <3>3 DEF RowChange, Keeps, IsBorn
    <2>2. CASE ~Configured
      BY <1>5, <2>2 DEF EmitEvent, RowChange, Keeps
    <2> QED
      BY <2>1, <2>2
  <1>6. ASSUME NEW original \in Deliveries, NEW d \in Deliveries, ReplayDead(original, d)
        PROVE  RowChange(e)
    <2>1. delivery[original].event \in Events \cup {"none"}
      BY <1>0 DEF Rows
    <2>2. PICK row \in Rows :
            /\ delivery' = [delivery EXCEPT ![d] = row]
            /\ row.status = "pending" /\ row.event = delivery[original].event /\ row.replayOf = original
            /\ row.url = project.url /\ row.configVersion = project.configVersion
            /\ row.secretVersion = project.secretVersion /\ row.count = 0
      BY <1>6, <2>1, InsertedRow DEF ReplayDead
    <2>3. delivery[d].status = "none" /\ delivery[d].count = 0
      BY <1>6 DEF ReplayDead, BaseInv, RowInv, NoDelivery
    <2>4. attempts' = attempts /\ Configured /\ delivery[original].status = "dead"
      BY <1>6 DEF ReplayDead
    <2> QED
      BY <1>0, <2>2, <2>3, <2>4 DEF RowChange, Keeps, IsBorn
  <1>7. ASSUME UNCHANGED <<delivery, attempts>>
        PROVE  RowChange(e)
    BY <1>7 DEF RowChange, Keeps
  <1>8. ASSUME NEW w \in Workers, WorkerStep(w)
        PROVE  RowChange(e)
    BY <1>1, <1>2, <1>3, <1>4, <1>7, <1>8 DEF WorkerStep, NothingToRecover, NothingToExhaust, NothingDue,
       DispatchClaimed, Abandon
  <1>9. CASE UNCHANGED vars
    BY <1>7, <1>9 DEF vars
  <1> QED
    BY <1>5, <1>6, <1>7, <1>8, <1>9 DEF Next, SetWebhookURL, RotateWebhookSecret, Tick


\* A step writes one row at most.
LEMMA OneRow ==
    ASSUME BaseInv, [Next]_vars, NEW d \in Deliveries, NEW e \in Deliveries, d # e
    PROVE  delivery'[d] = delivery[d] \/ delivery'[e] = delivery[e]
  <1>0. delivery \in [Deliveries -> Rows]
    BY DEF BaseInv, TypeOK
  <1>1. ASSUME NEW f, NEW row, delivery' = [delivery EXCEPT ![f] = row]
        PROVE  delivery'[d] = delivery[d] \/ delivery'[e] = delivery[e]
    BY <1>0, <1>1
  <1>2. ASSUME NEW w \in Workers, WorkerStep(w)
        PROVE  delivery' = delivery \/ \E f \in Deliveries \cup {worker[w].id} : \E row : delivery' = [delivery EXCEPT ![f] = row]
    <2>1. ASSUME NEW f \in Deliveries, RecoverNext(w, f) \/ ExhaustNext(w, f) \/ ClaimDue(w, f)
          PROVE  \E row : delivery' = [delivery EXCEPT ![f] = row]
      BY <2>1 DEF RecoverNext, ExhaustNext, ClaimDue, Store
    <2>2. ASSUME CompleteAttempt(w)
          PROVE  \E row : delivery' = [delivery EXCEPT ![worker[w].id] = row]
      BY <2>2 DEF CompleteAttempt, Store
    <2> QED
      BY <1>2, <2>1, <2>2 DEF WorkerStep, NothingToRecover, NothingToExhaust, NothingDue, DispatchClaimed, Abandon
  <1>3. ASSUME NEW f \in Deliveries,
               \/ \E event \in Events : EmitEvent(event, f)
               \/ \E original \in Deliveries : ReplayDead(original, f)
        PROVE  delivery' = delivery \/ \E row : delivery' = [delivery EXCEPT ![f] = row]
    BY <1>3 DEF EmitEvent, ReplayDead, InsertDelivery
  <1> QED
    BY <1>1, <1>2, <1>3 DEF Next, SetWebhookURL, RotateWebhookSecret, Tick, vars

\* What the endpoint accepted and which Events happened is never forgotten.
LEMMA GrowingSets ==
    ASSUME [Next]_vars
    PROVE  accepted \subseteq accepted' /\ emitted \subseteq emitted'
  <1>1. ASSUME NEW w \in Workers, WorkerStep(w)
        PROVE  accepted \subseteq accepted' /\ emitted \subseteq emitted'
    BY <1>1 DEF WorkerStep, RecoverNext, ExhaustNext, ClaimDue, NothingToRecover, NothingToExhaust,
       NothingDue, DispatchClaimed, CompleteAttempt, Abandon
  <1> QED
    BY <1>1 DEF Next, SetWebhookURL, RotateWebhookSecret, EmitEvent, ReplayDead, Tick, vars

\* A configuration change leaves the Deliveries alone and forgets no secret.
LEMMA ConfigChanges ==
    ASSUME BaseInv, [Next]_vars
    PROVE  \/ UNCHANGED <<project, secrets>>
           \/ /\ delivery' = delivery
              /\ project'.configVersion = project.configVersion + 1
              /\ \A v \in 1 .. MaxConfig : secrets[v] # "none" => secrets'[v] # "none"
  <1>1. ASSUME NEW w \in Workers, WorkerStep(w)
        PROVE  UNCHANGED <<project, secrets>>
    BY <1>1 DEF WorkerStep, RecoverNext, ExhaustNext, ClaimDue, NothingToRecover, NothingToExhaust,
       NothingDue, DispatchClaimed, CompleteAttempt, Abandon
  <1>2. ASSUME NEW url \in Urls \cup {"none"}, SetWebhookURL(url)
        PROVE  /\ delivery' = delivery
               /\ project'.configVersion = project.configVersion + 1
               /\ \A v \in 1 .. MaxConfig : secrets[v] # "none" => secrets'[v] # "none"
    BY <1>2 DEF SetWebhookURL, BaseInv, TypeOK
  <1>3. ASSUME RotateWebhookSecret
        PROVE  /\ delivery' = delivery
               /\ project'.configVersion = project.configVersion + 1
               /\ \A v \in 1 .. MaxConfig : secrets[v] # "none" => secrets'[v] # "none"
    <2>1. project' = [project EXCEPT !.configVersion = @ + 1, !.secretVersion = project.secretVersion + 1]
      BY <1>3 DEF RotateWebhookSecret
    <2>2. project'.configVersion = project.configVersion + 1
      BY <2>1 DEF BaseInv, TypeOK
    <2> QED
      BY <1>3, <2>2 DEF RotateWebhookSecret, BaseInv, TypeOK
  <1> QED
    BY <1>1, <1>2, <1>3 DEF Next, EmitEvent, ReplayDead, Tick, vars

-----------------------------------------------------------------------------
\* A worker about to store a success has one.
AcceptInv ==
    \A w \in Workers : worker[w].pc = "completing" /\ worker[w].answer = "success" =>
        worker[w].id \in accepted

LEMMA AcceptStep ==
    ASSUME BaseInv, AcceptInv, [Next]_vars
    PROVE  AcceptInv'
  <1>0. worker \in [Workers -> WorkerRecords] /\ accepted \subseteq accepted'
    BY GrowingSets DEF BaseInv, TypeOK, WorkerRecords
  <1>1. ASSUME NEW w \in Workers, NEW r, worker' = [worker EXCEPT ![w] = r],
               r.pc = "completing" /\ r.answer = "success" => r.id \in accepted'
        PROVE  AcceptInv'
    <2>1. \A v \in Workers : worker'[v] = IF v = w THEN r ELSE worker[v]
      BY <1>0, <1>1
    <2> QED
      BY <1>0, <1>1, <2>1 DEF AcceptInv
  <1>2. ASSUME worker' = worker
        PROVE  AcceptInv'
    BY <1>0, <1>2 DEF AcceptInv
  <1>3. ASSUME NEW w \in Workers, WorkerStep(w)
        PROVE  AcceptInv'
    <2>0. worker[w] \in WorkerRecords
      BY <1>0
    <2>1. CASE worker' = [worker EXCEPT ![w] = Looking]
      BY <1>1, <2>1 DEF Looking
    <2>2. CASE NothingToRecover(w)
      <3> DEFINE r == [worker[w] EXCEPT !.pc = "exhausting"]
      <3>1. worker' = [worker EXCEPT ![w] = r] /\ r.pc = "exhausting"
        BY <2>0, <2>2 DEF NothingToRecover, WorkerRecords
      <3> HIDE DEF r
      <3> QED
        BY <1>1, <3>1
    <2>3. CASE NothingToExhaust(w)
      <3> DEFINE r == [worker[w] EXCEPT !.pc = "claiming", !.now = clock]
      <3>1. worker' = [worker EXCEPT ![w] = r] /\ r.pc = "claiming"
        BY <2>0, <2>3 DEF NothingToExhaust, WorkerRecords
      <3> HIDE DEF r
      <3> QED
        BY <1>1, <3>1
    <2>4. ASSUME NEW d \in Deliveries, ClaimDue(w, d)
          PROVE  AcceptInv'
      <3> DEFINE r == [worker[w] EXCEPT !.pc = "claimed", !.id = d, !.no = delivery[d].count + 1]
      <3>1. worker' = [worker EXCEPT ![w] = r] /\ r.pc = "claimed"
        BY <2>0, <2>4 DEF ClaimDue, WorkerRecords
      <3> HIDE DEF r
      <3> QED
        BY <1>1, <3>1
    <2>5. CASE DispatchClaimed(w)
      <3>1. PICK answer \in Answers :
              /\ answer = "success" => accepted' = accepted \cup {worker[w].id}
              /\ worker' = [worker EXCEPT ![w].pc = "completing", ![w].now = clock, ![w].answer = answer]
        BY <2>5, LearnedAssumption DEF DispatchClaimed
      <3> DEFINE r == [worker[w] EXCEPT !.pc = "completing", !.now = clock, !.answer = answer]
      <3>2. r.answer = answer /\ r.id = worker[w].id
        BY <2>0 DEF WorkerRecords
      <3>3. worker' = [worker EXCEPT ![w] = r]
        BY <3>1
      <3> HIDE DEF r
      <3> QED
        BY <1>1, <3>1, <3>2, <3>3
    <2>6. ASSUME NEW d \in Deliveries, RecoverNext(w, d) \/ ExhaustNext(w, d)
          PROVE  AcceptInv'
      BY <1>2, <2>1, <2>6 DEF RecoverNext, ExhaustNext
    <2> QED
      BY <1>3, <2>1, <2>2, <2>3, <2>4, <2>5, <2>6 DEF WorkerStep, NothingDue, CompleteAttempt, Abandon
  <1> QED
    BY <1>2, <1>3 DEF Next, SetWebhookURL, RotateWebhookSecret, EmitEvent, ReplayDead, Tick, vars

LEMMA OutcomeStep ==
    ASSUME BaseInv, AcceptInv, OutcomeIsTrue, [Next]_vars
    PROVE  OutcomeIsTrue'
  <1> SUFFICES ASSUME NEW d \in Deliveries
               PROVE  /\ delivery'[d].status = "delivered" =>
                            d \in accepted' /\ attempts'[d][delivery'[d].count] = "success"
                      /\ delivery'[d].status # "delivered" =>
                            \A n \in 1 .. AttemptLimit : attempts'[d][n] # "success"
    BY DEF OutcomeIsTrue
  <1>1. RowChange(d) /\ accepted \subseteq accepted'
    BY RowChanges, GrowingSets
  <1>2. /\ delivery[d].status = "delivered" => d \in accepted /\ attempts[d][delivery[d].count] = "success"
        /\ delivery[d].status # "delivered" => \A n \in 1 .. AttemptLimit : attempts[d][n] # "success"
    BY DEF OutcomeIsTrue
  <1>3. attempts[d] \in [1 .. AttemptLimit -> AttemptOutcomes]
    BY DEF BaseInv, TypeOK
  <1>4. CASE Keeps(d) \/ IsBorn(d) \/ IsExhausted(d)
    BY <1>1, <1>2, <1>4 DEF Keeps, IsBorn, IsExhausted
  <1>5. CASE IsClaimed(d)
    BY <1>2, <1>3, <1>5 DEF IsClaimed
  <1>6. CASE EndsAttempt(d)
    <2>1. delivery[d].count \in 1 .. AttemptLimit
      BY <1>6 DEF EndsAttempt, BaseInv, RowInv, StateCheck
    <2>2. PICK outcome \in AttemptOutcomes \ {"none", "open"} :
            /\ attempts'[d] = [attempts[d] EXCEPT ![delivery[d].count] = outcome]
            /\ outcome = "success" <=> delivery'[d].status = "delivered"
      BY <1>6 DEF EndsAttempt
    <2>3. delivery'[d].count = delivery[d].count /\ delivery[d].status = "sending"
      BY <1>6 DEF EndsAttempt
    <2>4. delivery'[d].status = "delivered" => d \in accepted
      BY <1>6 DEF EndsAttempt, AcceptInv
    <2> QED
      BY <1>1, <1>2, <1>3, <2>1, <2>2, <2>3, <2>4
  <1> QED
    BY <1>1, <1>4, <1>5, <1>6 DEF RowChange

\* A Delivery is delivered if and only if an attempt says so, and only if the endpoint
\* accepted it, whichever of two workers stores its answer last (CompleteAttempt,
\* RecoverNextExpiredSending).
THEOREM DeliveredIsTrue == Spec => []OutcomeIsTrue
  <1>1. Init => OutcomeIsTrue /\ AcceptInv
    BY DEF Init, OutcomeIsTrue, AcceptInv, NoDelivery, Looking
  <1>2. BaseInv /\ AcceptInv /\ OutcomeIsTrue /\ [Next]_vars => (AcceptInv /\ OutcomeIsTrue)'
    BY AcceptStep, OutcomeStep
  <1> QED
    BY <1>1, <1>2, InitBase, BaseStep, PTL DEF Spec

-----------------------------------------------------------------------------
(* History and leases.                                                     *)

LEMMA HistoryStep ==
    ASSUME BaseInv, [Next]_vars, NEW d \in Deliveries
    PROVE  /\ delivery[d].status \in {"delivered", "dead"} => delivery'[d] = delivery[d]
           /\ delivery'[d].count >= delivery[d].count
           /\ \A n \in 1 .. AttemptLimit :
                 attempts[d][n] \notin {"none", "open"} => attempts'[d][n] = attempts[d][n]
  <1>0. /\ delivery[d].count \in Nat /\ attempts[d] \in [1 .. AttemptLimit -> AttemptOutcomes]
    BY DEF BaseInv, TypeOK, Rows
  <1>1. RowChange(d)
    BY RowChanges
  <1>2. CASE Keeps(d)
    BY <1>0, <1>2 DEF Keeps
  <1>3. CASE IsBorn(d) \/ IsExhausted(d)
    BY <1>0, <1>3 DEF IsBorn, IsExhausted
  <1>4. CASE EndsAttempt(d)
    <2>1. PICK outcome \in AttemptOutcomes :
            attempts'[d] = [attempts[d] EXCEPT ![delivery[d].count] = outcome]
      BY <1>4 DEF EndsAttempt
    <2> QED
      BY <1>0, <1>4, <2>1 DEF EndsAttempt
  <1>5. CASE IsClaimed(d)
    BY <1>0, <1>5 DEF IsClaimed
  <1> QED
    BY <1>1, <1>2, <1>3, <1>4, <1>5 DEF RowChange

LEMMA LeaseStep ==
    ASSUME BaseInv, [Next]_vars, NEW d \in Deliveries,
           delivery[d].status = "sending", delivery'[d].status # "sending", delivery[d].lease > clock
    PROVE  \E w \in Workers :
              /\ worker[w].pc = "completing" /\ worker[w].id = d
              /\ worker[w].no = delivery[d].count /\ worker'[w] # worker[w]
  <1>0. delivery[d].lease \in Nat /\ clock \in Nat
    BY DEF BaseInv, TypeOK, Rows
  <1>1. EndsAttempt(d)
    BY RowChanges DEF RowChange, Keeps, IsBorn, IsExhausted, IsClaimed
  <1> QED
    BY <1>0, <1>1 DEF EndsAttempt

\* delivered and dead are final, attempts are only consumed and what one came to is never
\* rewritten; until its lease is over a Delivery leaves sending only by the worker that
\* claimed it (ClaimDue, CompleteAttempt and RecoverNextExpiredSending in the repository).
THEOREM HistoryAndLeases == Spec => LeasesKeepHistory
  <1>1. BaseInv /\ [Next]_vars =>
           [\A d \in Deliveries :
              /\ delivery[d].status \in {"delivered", "dead"} => delivery'[d] = delivery[d]
              /\ delivery'[d].count >= delivery[d].count
              /\ \A n \in 1 .. AttemptLimit :
                    attempts[d][n] \notin {"none", "open"} => attempts'[d][n] = attempts[d][n]]_vars
    BY HistoryStep
  <1>2. BaseInv /\ [Next]_vars =>
           [\A d \in Deliveries :
              /\ delivery[d].status = "sending" /\ delivery'[d].status # "sending"
              /\ delivery[d].lease > clock
              => \E w \in Workers :
                    /\ worker[w].pc = "completing" /\ worker[w].id = d
                    /\ worker[w].no = delivery[d].count /\ worker'[w] # worker[w]]_vars
    BY LeaseStep
  <1> QED
    BY <1>1, <1>2, InitBase, BaseStep, PTL DEF Spec, LeasesKeepHistory, HistoryImmutable, LeaseRespected

-----------------------------------------------------------------------------
(* Configuration.                                                          *)

\* A row keeps its origin; a new one is written while the configuration stands still.
LEMMA OriginStep ==
    ASSUME BaseInv, [Next]_vars, NEW d \in Deliveries
    PROVE  \/ delivery'[d].status = "none" /\ delivery[d].status = "none"
           \/ /\ delivery[d].status # "none" /\ delivery'[d].status # "none"
              /\ SameOrigin(delivery'[d], delivery[d])
           \/ IsBorn(d) /\ UNCHANGED <<project, secrets>>
  <1>1. RowChange(d)
    BY RowChanges
  <1>2. CASE IsBorn(d)
    <2>1. delivery' # delivery
      BY <1>2 DEF IsBorn
    <2> QED
      BY <1>2, <2>1, ConfigChanges
  <1>3. CASE Keeps(d)
    BY <1>3 DEF Keeps, SameOrigin
  <1> QED
    BY <1>1, <1>2, <1>3 DEF RowChange, EndsAttempt, IsExhausted, IsClaimed

\* What a row remembers of the configuration and of its Event.  The last conjunct makes
\* ConfigurationSnapshot inductive: a row of the current version agrees with the Project.
SnapInv ==
    \A d \in Deliveries : delivery[d].status # "none" =>
        /\ delivery[d].configVersion > 0 /\ delivery[d].configVersion <= project.configVersion
        /\ delivery[d].secretVersion \in 1 .. MaxConfig
        /\ secrets[delivery[d].secretVersion] # "none"
        /\ delivery[d].event \in emitted
        /\ delivery[d].configVersion = project.configVersion =>
              delivery[d].url = project.url /\ delivery[d].secretVersion = project.secretVersion

LEMMA SnapStep ==
    ASSUME BaseInv, SnapInv, [Next]_vars
    PROVE  SnapInv'
  <1> SUFFICES ASSUME NEW d \in Deliveries, delivery'[d].status # "none"
               PROVE  /\ delivery'[d].configVersion > 0
                      /\ delivery'[d].configVersion <= project'.configVersion
                      /\ delivery'[d].secretVersion \in 1 .. MaxConfig
                      /\ secrets'[delivery'[d].secretVersion] # "none"
                      /\ delivery'[d].event \in emitted'
                      /\ delivery'[d].configVersion = project'.configVersion =>
                            /\ delivery'[d].url = project'.url
                            /\ delivery'[d].secretVersion = project'.secretVersion
    BY DEF SnapInv
  <1>0. project.configVersion \in Nat /\ delivery[d].configVersion \in Nat /\ emitted \subseteq emitted'
    BY GrowingSets DEF BaseInv, TypeOK, Rows
  <1>1. CASE delivery[d].status # "none" /\ SameOrigin(delivery'[d], delivery[d])
    <2>1. /\ delivery[d].configVersion > 0 /\ delivery[d].configVersion <= project.configVersion
          /\ delivery[d].secretVersion \in 1 .. MaxConfig
          /\ secrets[delivery[d].secretVersion] # "none"
          /\ delivery[d].event \in emitted
          /\ delivery[d].configVersion = project.configVersion =>
                delivery[d].url = project.url /\ delivery[d].secretVersion = project.secretVersion
      BY <1>1 DEF SnapInv
    <2>2. CASE UNCHANGED <<project, secrets>>
      BY <1>0, <1>1, <2>1, <2>2 DEF SameOrigin
    <2>3. CASE /\ project'.configVersion = project.configVersion + 1
               /\ \A v \in 1 .. MaxConfig : secrets[v] # "none" => secrets'[v] # "none"
      BY <1>0, <1>1, <2>1, <2>3 DEF SameOrigin
    <2> QED
      BY <2>2, <2>3, ConfigChanges
  <1>2. CASE IsBorn(d) /\ UNCHANGED <<project, secrets>>
    <2>1. project.secretVersion \in 1 .. MaxConfig
      BY <1>2 DEF IsBorn, Configured, BaseInv, TypeOK
    <2>2. secrets[project.secretVersion] = "active"
      BY <2>1 DEF BaseInv, VersionInv
    <2>3. delivery'[d].event \in emitted'
      BY <1>0, <1>2 DEF IsBorn, SnapInv
    <2> QED
      BY <1>0, <1>2, <2>1, <2>2, <2>3 DEF IsBorn, Configured
  <1> QED
    BY <1>1, <1>2, OriginStep

LEMMA SnapshotStep ==
    ASSUME BaseInv, SnapInv, ConfigurationSnapshot, [Next]_vars
    PROVE  ConfigurationSnapshot'
  <1>1. ASSUME NEW d \in Deliveries, NEW e \in Deliveries,
               delivery'[d].configVersion = delivery'[e].configVersion
        PROVE  /\ delivery'[d].url = delivery'[e].url
               /\ delivery'[d].secretVersion = delivery'[e].secretVersion
    <2>0. SnapInv' /\ BaseInv'
      BY SnapStep, BaseStep
    <2>1. \A f \in Deliveries :
             delivery[f].status = "none" =>
                /\ delivery[f].url = "none" /\ delivery[f].configVersion = 0 /\ delivery[f].secretVersion = 0
      BY DEF BaseInv, RowInv, NoDelivery
    <2>2. \A f \in Deliveries :
             delivery'[f].status = "none" =>
                /\ delivery'[f].url = "none" /\ delivery'[f].configVersion = 0 /\ delivery'[f].secretVersion = 0
      BY <2>0 DEF BaseInv, RowInv, NoDelivery
    <2>3. \A f \in Deliveries : delivery'[f].status # "none" => delivery'[f].configVersion # 0
      BY <2>0 DEF SnapInv
    <2>4. CASE delivery'[d].status = "none" \/ delivery'[e].status = "none"
      BY <1>1, <2>2, <2>3, <2>4
    <2>5. CASE /\ delivery'[d].status # "none" /\ delivery'[e].status # "none"
               /\ IsBorn(d) \/ IsBorn(e)
      <3>1. \A f \in Deliveries : delivery'[f].status # "none" /\ delivery'[f].configVersion = project'.configVersion
               => delivery'[f].url = project'.url /\ delivery'[f].secretVersion = project'.secretVersion
        BY <2>0 DEF SnapInv
      <3>2. UNCHANGED <<project, secrets>>
        BY <2>5, OriginStep DEF IsBorn
      <3> QED
        BY <1>1, <2>5, <3>1, <3>2 DEF IsBorn
    <2>6. CASE /\ delivery'[d].status # "none" /\ delivery'[e].status # "none"
               /\ ~IsBorn(d) /\ ~IsBorn(e)
      BY <1>1, <2>6, OriginStep DEF SameOrigin, ConfigurationSnapshot
    <2> QED
      BY <2>4, <2>5, <2>6
  <1>2. \A d \in Deliveries : delivery'[d].status # "none" => secrets'[delivery'[d].secretVersion] # "none"
    BY SnapStep DEF SnapInv
  <1> QED
    BY <1>1, <1>2 DEF ConfigurationSnapshot

LEMMA ReplayStep ==
    ASSUME BaseInv, SnapInv, ReplaysOfDead, [Next]_vars
    PROVE  ReplaysOfDead'
  <1>0. /\ \A d \in Deliveries : delivery[d].replayOf \in Deliveries \cup {"none"}
        /\ \A d \in Deliveries : delivery[d].status = "none" => delivery[d].replayOf = "none"
        /\ "none" \notin Deliveries
    BY WebhookAssumption DEF BaseInv, TypeOK, Rows, RowInv, NoDelivery
  <1>1. \A d \in Deliveries : delivery[d].status = "dead" => delivery'[d] = delivery[d]
    BY HistoryStep
  <1>2. \A d \in Deliveries : delivery'[d].status = "none" => delivery'[d].replayOf = "none"
    BY BaseStep DEF BaseInv, RowInv, NoDelivery
  <1>3. ASSUME NEW d \in Deliveries, delivery'[d].replayOf # "none"
        PROVE  /\ delivery'[delivery'[d].replayOf].status = "dead"
               /\ delivery'[delivery'[d].replayOf].event = delivery'[d].event
    <2>1. CASE delivery[d].status # "none" /\ SameOrigin(delivery'[d], delivery[d])
      BY <1>0, <1>1, <1>3, <2>1 DEF SameOrigin, ReplaysOfDead
    <2>2. CASE IsBorn(d)
      BY <1>1, <1>3, <2>2 DEF IsBorn
    <2> QED
      BY <1>2, <1>3, <2>1, <2>2, OriginStep
  <1>4. ASSUME NEW d \in Deliveries, NEW e \in Deliveries,
               delivery'[d].status # "none", delivery'[d].replayOf = "none",
               delivery'[e].status # "none", delivery'[e].replayOf = "none",
               delivery'[d].event = delivery'[e].event, d # e
        PROVE  FALSE
    <2>1. ASSUME NEW f \in Deliveries, NEW g \in Deliveries, f # g, IsBorn(f),
                 delivery'[f].replayOf = "none", delivery'[g].status # "none",
                 delivery'[f].event = delivery'[g].event
          PROVE  FALSE
      <3>1. delivery'[f].event \notin emitted
        BY <1>0, <2>1 DEF IsBorn
      <3>2. delivery'[f] # delivery[f]
        BY <2>1 DEF IsBorn
      <3>3. delivery'[g] = delivery[g]
        BY <2>1, <3>2, OneRow
      <3> QED
        BY <2>1, <3>1, <3>3 DEF SnapInv
    <2>2. CASE IsBorn(d) \/ IsBorn(e)
      BY <1>4, <2>1, <2>2
    <2>3. CASE ~IsBorn(d) /\ ~IsBorn(e)
      BY <1>4, <2>3, OriginStep DEF SameOrigin, ReplaysOfDead
    <2> QED
      BY <2>2, <2>3
  <1> QED
    BY <1>3, <1>4 DEF ReplaysOfDead

\* Whatever order targets, rotations, Events and replays come in, Deliveries of one
\* configuration version carry one target and one secret that exists, exactly the current
\* secret is active, and a replay repeats a Delivery that died (projectservice.Update and
\* RotateWebhookSecret, insertDelivery, CreateReplay).
THEOREM SnapshotsSound == Spec => []ConfigurationSound
  <1>1. Init => SnapInv /\ ConfigurationSnapshot /\ ReplaysOfDead
    BY DEF Init, SnapInv, ConfigurationSnapshot, ReplaysOfDead, NoDelivery
  <1>2. /\ BaseInv /\ SnapInv /\ ConfigurationSnapshot /\ ReplaysOfDead /\ [Next]_vars
        => (SnapInv /\ ConfigurationSnapshot /\ ReplaysOfDead)'
    BY SnapStep, SnapshotStep, ReplayStep
  <1>3. BaseInv => OneActiveSecret
    BY DEF BaseInv, VersionInv, OneActiveSecret
  <1> QED
    BY <1>1, <1>2, <1>3, InitBase, BaseStep, PTL DEF Spec, ConfigurationSound

-----------------------------------------------------------------------------
(* Attempts, requests and audit rows.                                      *)

\* The loop's first transactions pass the CHECK and the index on open attempts.
LEMMA LoopGoesOn == BaseInv => LoopNotRejected
  <1> SUFFICES ASSUME BaseInv, NEW w \in Workers, NEW d \in Deliveries
               PROVE  /\ Expired(d, clock) => StateCheck(AfterFailure(w, d, clock))
                      /\ Due(w, d, clock) => attempts[d][delivery[d].count + 1] = "none"
    BY DEF LoopNotRejected
  <1>1. Expired(d, clock) => StateCheck(AfterFailure(w, d, clock))
    BY AfterFailureRow DEF Expired, BaseInv, TypeOK
  <1>2. ASSUME Due(w, d, clock)
        PROVE  attempts[d][delivery[d].count + 1] = "none"
    <2>0. /\ delivery[d].count \in Nat /\ delivery[d].count < MaxAttemptsOf[w]
          /\ MaxAttemptsOf[w] \in 1 .. AttemptLimit /\ AttemptLimit \in Nat
      BY <1>2, WebhookAssumption DEF Due, BaseInv, TypeOK, Rows
    <2>1. delivery[d].count \in Nat /\ delivery[d].count + 1 \in 1 .. AttemptLimit
      BY <2>0
    <2> QED
      BY <2>1 DEF BaseInv, AttemptsMatchDelivery
  <1> QED
    BY <1>1, <1>2

\* A decryption failure is audited for an attempt that was stored as one.
AuditInv ==
    \A a \in audits : a.action = "secret_decryption_failed" =>
        a.no \in 1 .. AttemptLimit /\ attempts[a.id][a.no] = "secret_resolution_failed"

LEMMA AuditStep ==
    ASSUME BaseInv, AuditInv, [Next]_vars
    PROVE  AuditInv'
  <1>0. \A a \in audits : a.id \in Deliveries
    BY DEF BaseInv, TypeOK
  <1>1. ASSUME NEW a \in audits, a.action = "secret_decryption_failed"
        PROVE  a.no \in 1 .. AttemptLimit /\ attempts'[a.id][a.no] = "secret_resolution_failed"
    BY <1>0, <1>1, HistoryStep DEF AuditInv
  <1>2. ASSUME NEW w \in Workers, CompleteAttempt(w)
        PROVE  AuditInv'
    <2> DEFINE d == worker[w].id
               outcome == StoredOutcome(worker[w].answer)
    <2>1. /\ d \in Deliveries /\ worker[w].no = delivery[d].count /\ worker[w].no \in 1 .. AttemptLimit
          /\ attempts' = [attempts EXCEPT ![d] = [@ EXCEPT ![delivery[d].count] = outcome]]
      BY <1>2, CompletionRow
    <2>2. worker[w].answer = "secret_decryption_failed" => attempts'[d][worker[w].no] = "secret_resolution_failed"
      BY <2>1 DEF BaseInv, TypeOK, StoredOutcome, SecretFailures
    <2>3. audits' = IF worker[w].answer = "secret_decryption_failed"
                    THEN audits \cup {[action |-> worker[w].answer, id |-> d, no |-> worker[w].no]}
                    ELSE audits
      BY <1>2 DEF CompleteAttempt
    <2> QED
      BY <1>1, <2>1, <2>2, <2>3 DEF AuditInv
  <1>3. ASSUME NEW original \in Deliveries, NEW d \in Deliveries, ReplayDead(original, d)
        PROVE  AuditInv'
    BY <1>1, <1>3 DEF ReplayDead, AuditInv
  <1>4. ASSUME audits' = audits
        PROVE  AuditInv'
    BY <1>1, <1>4 DEF AuditInv
  <1>5. ASSUME NEW w \in Workers, WorkerStep(w)
        PROVE  AuditInv'
    BY <1>2, <1>4, <1>5 DEF WorkerStep, RecoverNext, ExhaustNext, ClaimDue, NothingToRecover, NothingToExhaust,
       NothingDue, DispatchClaimed, Abandon
  <1> QED
    BY <1>3, <1>4, <1>5 DEF Next, SetWebhookURL, RotateWebhookSecret, EmitEvent, Tick, vars

\* The workers that may still POST for d.
Holders(d) == {w \in Workers : worker[w].pc = "claimed" /\ worker[w].id = d}

\* Each attempt pays for one POST, made or still to come.
PostInv ==
    \A d \in Deliveries :
        IsFiniteSet(Holders(d)) /\ posts[d] + Cardinality(Holders(d)) <= delivery[d].count

\* A worker that does not claim only leaves the holders of a Delivery.
LEMMA PostsKept ==
    ASSUME BaseInv, PostInv, [Next]_vars, NEW d \in Deliveries,
           Holders(d)' \subseteq Holders(d), posts'[d] = posts[d]
    PROVE  IsFiniteSet(Holders(d)') /\ posts'[d] + Cardinality(Holders(d)') <= delivery'[d].count
  <1>1. delivery'[d].count >= delivery[d].count
    BY HistoryStep
  <1>2. delivery'[d].count \in Nat /\ delivery[d].count \in Nat /\ posts[d] \in Nat
    <2>1. BaseInv'
      BY BaseStep
    <2>2. delivery'[d] \in Rows /\ delivery[d] \in Rows
      BY <2>1 DEF BaseInv, TypeOK
    <2> QED
      BY <2>2 DEF BaseInv, TypeOK, Rows
  <1>3. IsFiniteSet(Holders(d)) /\ posts[d] + Cardinality(Holders(d)) <= delivery[d].count
    BY DEF PostInv
  <1>4. /\ IsFiniteSet(Holders(d)') /\ Cardinality(Holders(d)') <= Cardinality(Holders(d))
    BY <1>3, FS_Subset
  <1>5. Cardinality(Holders(d)') \in Nat /\ Cardinality(Holders(d)) \in Nat
    BY <1>3, <1>4, FS_CardinalityType
  <1> QED
    BY <1>1, <1>2, <1>3, <1>4, <1>5

\* Only a claim adds a holder, and only a holder that leaves makes a POST.
LEMMA PostStep ==
    ASSUME BaseInv, PostInv, [Next]_vars
    PROVE  PostInv'
  <1> SUFFICES ASSUME NEW e \in Deliveries
               PROVE  IsFiniteSet(Holders(e)') /\ posts'[e] + Cardinality(Holders(e)') <= delivery'[e].count
    BY DEF PostInv
  <1>0. /\ worker \in [Workers -> WorkerRecords] /\ posts \in [Deliveries -> Nat]
        /\ IsFiniteSet(Holders(e)) /\ posts[e] + Cardinality(Holders(e)) <= delivery[e].count
        /\ delivery[e] \in Rows
    BY DEF BaseInv, TypeOK, WorkerRecords, PostInv
  <1>a. Cardinality(Holders(e)) \in Nat /\ posts[e] \in Nat /\ delivery[e].count \in Nat
    BY <1>0, FS_CardinalityType DEF Rows
  <1>1. ASSUME worker' = worker, posts' = posts
        PROVE  IsFiniteSet(Holders(e)') /\ posts'[e] + Cardinality(Holders(e)') <= delivery'[e].count
    <2>1. Holders(e)' \subseteq Holders(e)
      BY <1>1 DEF Holders
    <2> QED
      BY <1>1, <2>1, PostsKept
  <1>2. ASSUME NEW w \in Workers, NEW r, worker' = [worker EXCEPT ![w] = r], r.pc # "claimed", posts' = posts
        PROVE  IsFiniteSet(Holders(e)') /\ posts'[e] + Cardinality(Holders(e)') <= delivery'[e].count
    <2>1. Holders(e)' \subseteq Holders(e)
      BY <1>0, <1>2 DEF Holders
    <2> QED
      BY <1>2, <2>1, PostsKept
  <1>3. ASSUME NEW w \in Workers, NEW d \in Deliveries, ClaimDue(w, d)
        PROVE  IsFiniteSet(Holders(e)') /\ posts'[e] + Cardinality(Holders(e)') <= delivery'[e].count
    <2> DEFINE r == [worker[w] EXCEPT !.pc = "claimed", !.id = d, !.no = delivery[d].count + 1]
    <2>1. worker' = [worker EXCEPT ![w] = r] /\ posts' = posts /\ worker[w].pc = "claiming"
      BY <1>3 DEF ClaimDue
    <2>2. r.pc = "claimed" /\ r.id = d
      BY <1>0 DEF WorkerRecords
    <2> HIDE DEF r
    <2>3. CASE e # d
      <3>1. Holders(e)' \subseteq Holders(e)
        BY <1>0, <2>1, <2>2, <2>3 DEF Holders
      <3> QED
        BY <2>1, <3>1, PostsKept
    <2>4. CASE e = d
      <3>1. Holders(e)' = Holders(e) \cup {w} /\ w \notin Holders(e)
        BY <1>0, <2>1, <2>2, <2>4 DEF Holders
      <3>2. IsFiniteSet(Holders(e)') /\ Cardinality(Holders(e)') = Cardinality(Holders(e)) + 1
        BY <1>0, <3>1, FS_AddElement
      <3>3. delivery'[e].count = delivery[e].count + 1
        <4>1. delivery'[d] = [delivery[d] EXCEPT !.status = "sending", !.count = delivery[d].count + 1,
                                !.next = 0, !.lease = worker[w].now + LeaseDuration]
          BY <1>3 DEF ClaimDue, Store, BaseInv, TypeOK
        <4> QED
          BY <1>0, <2>4, <4>1 DEF Rows
      <3> QED
        BY <1>0, <1>a, <2>1, <3>2, <3>3
    <2> QED
      BY <2>3, <2>4
  <1>4. ASSUME NEW w \in Workers, DispatchClaimed(w)
        PROVE  IsFiniteSet(Holders(e)') /\ posts'[e] + Cardinality(Holders(e)') <= delivery'[e].count
    <2> DEFINE d == worker[w].id
    <2>1. PICK answer \in Answers, sent \in BOOLEAN :
            /\ posts' = IF sent THEN [posts EXCEPT ![d] = @ + 1] ELSE posts
            /\ worker' = [worker EXCEPT ![w].pc = "completing", ![w].now = clock, ![w].answer = answer]
      BY <1>4, LearnedAssumption DEF DispatchClaimed
    <2> DEFINE r == [worker[w] EXCEPT !.pc = "completing", !.now = clock, !.answer = answer]
    <2>2. worker' = [worker EXCEPT ![w] = r] /\ r.pc = "completing" /\ worker[w].pc = "claimed" /\ delivery' = delivery
      BY <1>0, <1>4, <2>1 DEF WorkerRecords, DispatchClaimed
    <2> HIDE DEF r
    <2>3. CASE e = d /\ sent
      <3>1. Holders(e)' = Holders(e) \ {w} /\ w \in Holders(e)
        BY <1>0, <2>2, <2>3 DEF Holders
      <3>2. IsFiniteSet(Holders(e)') /\ Cardinality(Holders(e)') = Cardinality(Holders(e)) - 1
        BY <1>0, <3>1, FS_RemoveElement
      <3>3. posts'[e] = posts[e] + 1
        BY <1>0, <2>1, <2>3
      <3> QED
        BY <1>0, <1>a, <2>2, <3>2, <3>3
    <2>4. CASE ~ (e = d /\ sent)
      <3>1. posts'[e] = posts[e]
        BY <1>0, <2>1, <2>4
      <3>2. Holders(e)' \subseteq Holders(e)
        BY <1>0, <2>2 DEF Holders
      <3> QED
        BY <3>1, <3>2, PostsKept
    <2> QED
      BY <2>3, <2>4
  <1>5. ASSUME NEW w \in Workers, WorkerStep(w)
        PROVE  IsFiniteSet(Holders(e)') /\ posts'[e] + Cardinality(Holders(e)') <= delivery'[e].count
    <2>0. worker[w] \in WorkerRecords
      BY <1>0
    <2>1. CASE worker' = [worker EXCEPT ![w] = Looking] /\ posts' = posts
      <3>1. Looking.pc # "claimed"
        BY DEF Looking
      <3> QED
        BY <1>2, <2>1, <3>1
    <2>2. CASE NothingToRecover(w)
      <3> DEFINE r == [worker[w] EXCEPT !.pc = "exhausting"]
      <3>1. worker' = [worker EXCEPT ![w] = r] /\ r.pc # "claimed" /\ posts' = posts
        BY <2>0, <2>2 DEF NothingToRecover, WorkerRecords
      <3> HIDE DEF r
      <3> QED
        BY <1>2, <3>1
    <2>3. CASE NothingToExhaust(w)
      <3> DEFINE r == [worker[w] EXCEPT !.pc = "claiming", !.now = clock]
      <3>1. worker' = [worker EXCEPT ![w] = r] /\ r.pc # "claimed" /\ posts' = posts
        BY <2>0, <2>3 DEF NothingToExhaust, WorkerRecords
      <3> HIDE DEF r
      <3> QED
        BY <1>2, <3>1
    <2>4. ASSUME NEW d \in Deliveries, RecoverNext(w, d) \/ ExhaustNext(w, d)
          PROVE  \/ worker' = worker /\ posts' = posts
                 \/ worker' = [worker EXCEPT ![w] = Looking] /\ posts' = posts
      BY <2>4 DEF RecoverNext, ExhaustNext
    <2>5. CASE NothingDue(w) \/ CompleteAttempt(w) \/ Abandon(w)
      BY <2>1, <2>5 DEF NothingDue, CompleteAttempt, Abandon
    <2> QED
      BY <1>1, <1>3, <1>4, <1>5, <2>1, <2>2, <2>3, <2>4, <2>5 DEF WorkerStep
  <1> QED
    BY <1>1, <1>5 DEF Next, SetWebhookURL, RotateWebhookSecret, EmitEvent, ReplayDead, Tick, vars

\* A Delivery, its attempts, the requests the endpoint saw and the audit rows agree after
\* every step, for any number of processes and any limits they are configured with, and the
\* head of the loop is never refused by the CHECK (runNext and the repository's transactions).
THEOREM RowsAgree == Spec => []RowsConsistent
  <1>1. Init => AuditInv /\ PostInv
    <2>1. ASSUME Init, NEW d \in Deliveries PROVE Holders(d) = {}
      BY <2>1 DEF Init, Holders, Looking
    <2>2. ASSUME Init, NEW d \in Deliveries
          PROVE  IsFiniteSet(Holders(d)) /\ posts[d] + Cardinality(Holders(d)) <= delivery[d].count
      <3>1. IsFiniteSet(Holders(d)) /\ Cardinality(Holders(d)) = 0
        BY <2>1, <2>2, FS_EmptySet
      <3>2. posts[d] = 0 /\ delivery[d].count = 0
        BY <2>2 DEF Init, NoDelivery
      <3> QED
        BY <3>1, <3>2
    <2> QED
      BY <2>2 DEF Init, AuditInv, PostInv
  <1>2. BaseInv /\ AuditInv /\ PostInv /\ [Next]_vars => (AuditInv /\ PostInv)'
    BY AuditStep, PostStep
  <1>3. BaseInv /\ AuditInv /\ PostInv => RowsConsistent
    <2> SUFFICES ASSUME BaseInv, AuditInv, PostInv PROVE RowsConsistent
      OBVIOUS
    <2>1. ASSUME NEW d \in Deliveries PROVE posts[d] <= delivery[d].count
      <3>1. /\ Cardinality(Holders(d)) \in Nat /\ posts[d] + Cardinality(Holders(d)) <= delivery[d].count
        BY FS_CardinalityType DEF PostInv
      <3>2. delivery[d].count \in Nat /\ posts[d] \in Nat
        BY DEF BaseInv, TypeOK, Rows
      <3> QED
        BY <3>1, <3>2
    <2> QED
      BY <2>1, LoopGoesOn DEF BaseInv, AuditInv, RowsConsistent, PostsWithinAttempts, DecryptionAudited
  <1> QED
    BY <1>1, <1>2, <1>3, InitBase, BaseStep, PTL DEF Spec

=============================================================================
