---------------------------- MODULE CommandDomain ----------------------------
(***************************************************************************)
(* The pure rules of the Command domain: the status machine, the           *)
(* confirmation order, the tables that say which Attempt outcome may be    *)
(* stored for which Provider, what every adapter may answer, and the CHECK *)
(* constraints PostgreSQL puts on a row of device_commands.                *)
(***************************************************************************)
EXTENDS Integers

\* internal/domain/types.go: the wire names of the enumerations.
CommandStatuses == {"queued", "sent", "acked", "success", "failed", "timeout", "cancelled"}

IsTerminal(status) == status \in {"success", "failed", "timeout", "cancelled"}

CanTransitionCommand(from, to) ==
    to \in CASE from = "queued" -> {"sent", "cancelled", "failed", "timeout"}
             [] from = "sent"   -> {"acked", "success", "failed", "timeout"}
             [] from = "acked"  -> {"success", "failed", "timeout"}
             [] OTHER           -> {}

ConfirmationLevels == {"none", "transport_sent", "provider_accepted", "device_acked", "device_final"}
EvidenceStatuses == {"none", "unverified", "verified"}

ConfirmationRank(level) ==
    CASE level = "transport_sent"    -> 1
      [] level = "provider_accepted" -> 2
      [] level = "device_acked"      -> 3
      [] level = "device_final"      -> 4
      [] OTHER                       -> 0

CanAdvanceConfirmation(from, to) == ConfirmationRank(to) >= ConfirmationRank(from)

\* The two guards of the repository on a pair (confirmation, evidence).
EvidenceProgresses(level, evidence, nextLevel, nextEvidence) ==
    /\ CanAdvanceConfirmation(level, nextLevel)
    /\ \/ nextLevel # level
       \/ evidence # "verified" /\ nextEvidence = "verified"

EvidenceDoesNotRegress(level, evidence, nextLevel, nextEvidence) ==
    /\ CanAdvanceConfirmation(level, nextLevel)
    /\ nextLevel # level \/ evidence # "verified" \/ nextEvidence = "verified"

ProviderCodes == {"wwtiot", "omni", "simulator"}

\* Reasons for which the worker gives up before it commits the dispatch.
PrepareFailures == {"provider_not_configured", "provider_action_unsupported",
                    "provider_mapping_unknown", "provider_session_unavailable",
                    "provider_request_invalid"}

Reasons == PrepareFailures \cup
    {"", "device_not_online", "provider_transport_error", "provider_rejected",
     "device_reported_failure", "dispatch_deadline_exceeded", "cancelled_by_request",
     "result_observation_timeout"}

Outcomes == {"not_dispatched", "invalid_request", "provider_accepted",
             "provider_rejected", "transport_error_before_send", "indeterminate"}

Answer(outcome, reason, level, evidence) ==
    [outcome |-> outcome, reason |-> reason, level |-> level, evidence |-> evidence]

\* What an adapter may answer when it wrote nothing to the transport.
UnsentAnswer == Answer("transport_error_before_send", "provider_transport_error", "none", "none")

\* Two ways in which a request that left the process ends without a verdict.
Unknown == Answer("indeterminate", "provider_delivery_unknown", "transport_sent", "verified")
Invalid == Answer("indeterminate", "provider_response_invalid", "transport_sent", "verified")

\* What each adapter's Dispatch may answer once bytes left the process.  The
\* WWTIOT client decides by a WroteRequest hook on another goroutine than the
\* one that returns.  Over HTTP/2, and whenever a part of the request is flushed
\* early, the hook runs after bytes left, and a timeout in between makes the
\* client answer "before send" for a request that is on the wire.
WwtiotAnswers ==
    {UnsentAnswer, Unknown, Invalid,
     Answer("provider_rejected", "", "transport_sent", "unverified"),
     Answer("provider_accepted", "", "provider_accepted", "unverified")}
OmniAnswers == {Unknown}
SimulatorAnswers ==
    {Unknown, Invalid,
     Answer("provider_rejected", "", "transport_sent", "verified"),
     Answer("provider_accepted", "", "provider_accepted", "verified")}

SentAnswers(provider) ==
    CASE provider = "wwtiot" -> WwtiotAnswers
      [] provider = "omni"   -> OmniAnswers
      [] OTHER               -> SimulatorAnswers

Answers == {UnsentAnswer} \cup UNION {SentAnswers(p) : p \in ProviderCodes}

\* resultTransition: the reason the worker stores for an answer.
ResultReason(answer) ==
    CASE answer.outcome = "transport_error_before_send" -> "provider_transport_error"
      [] answer.outcome = "provider_rejected"           -> "provider_rejected"
      [] OTHER                                          -> answer.reason

\* attemptCompletionAllowed, for the outcomes that precede the dispatch ...
PreDispatchCompletionAllowed(phase, outcome, reason) ==
    /\ phase = "claimed"
    /\ \/ outcome = "not_dispatched" /\ reason = "device_not_online"
       \/ outcome = "invalid_request" /\ reason \in PrepareFailures

ReasonFitsOutcome(outcome, reason) ==
    CASE outcome = "provider_accepted"           -> reason = ""
      [] outcome = "transport_error_before_send" -> reason = "provider_transport_error"
      [] outcome = "provider_rejected"           -> reason = "provider_rejected"
      [] outcome = "indeterminate"               ->
             reason \in {"provider_delivery_unknown", "provider_response_invalid"}
      [] OTHER                                   -> FALSE

EvidenceFitsOutcome(provider, a, reason) ==
    CASE a.outcome = "transport_error_before_send" -> a.level = "none" /\ a.evidence = "none"
      [] a.outcome = "indeterminate" ->
             /\ a.level = "transport_sent" /\ a.evidence = "verified"
             /\ provider = "omni" => reason = "provider_delivery_unknown"
      [] a.outcome = "provider_rejected" ->
             /\ provider # "omni" /\ a.level = "transport_sent"
             /\ a.evidence = IF provider = "wwtiot" THEN "unverified" ELSE "verified"
      [] a.outcome = "provider_accepted" ->
             /\ provider # "omni" /\ a.level = "provider_accepted"
             /\ a.evidence = IF provider = "wwtiot" THEN "unverified" ELSE "verified"
      [] OTHER -> FALSE

\* ... and for the ones an adapter's answer gives.
AttemptCompletionAllowed(provider, phase, answer) ==
    /\ phase = "dispatching"
    /\ ReasonFitsOutcome(answer.outcome, ResultReason(answer))
    /\ EvidenceFitsOutcome(provider, answer, ResultReason(answer))

AttemptTransitionMatches(outcome, from, to, reason) ==
    /\ CanTransitionCommand(from, to) /\ to = "failed"
    /\ \/ outcome = "invalid_request" /\ from = "queued" /\ reason \in PrepareFailures
       \/ outcome = "not_dispatched" /\ from = "queued" /\ reason = "device_not_online"
       \/ outcome = "transport_error_before_send" /\ from = "sent" /\ reason = "provider_transport_error"
       \/ outcome = "provider_rejected" /\ from = "sent" /\ reason = "provider_rejected"

-----------------------------------------------------------------------------
(* CHECK constraints of device_commands; a transaction whose row fails one *)
(* of them is rolled back as a whole.  0 stands for a NULL timestamp.      *)

ReasonCheck(row) ==
    \/ row.status \in {"queued", "sent", "acked", "success"} /\ row.reason = ""
    \/ /\ row.status = "failed"
       /\ row.reason \in PrepareFailures \cup {"device_not_online", "provider_transport_error",
                                               "provider_rejected", "device_reported_failure"}
    \/ row.status = "timeout" /\ row.reason \in {"dispatch_deadline_exceeded", "result_observation_timeout"}
    \/ row.status = "cancelled" /\ row.reason = "cancelled_by_request"

ReasonEvidenceCheck(row) ==
    \/ row.reason = ""
    \/ /\ row.reason \in PrepareFailures \cup {"device_not_online", "provider_transport_error",
                                               "dispatch_deadline_exceeded", "cancelled_by_request"}
       /\ row.level = "none" /\ row.evidence = "none"
    \/ row.reason = "provider_rejected" /\ row.level = "transport_sent"
    \/ row.reason = "device_reported_failure" /\ row.level = "device_final" /\ row.evidence = "verified"
    \/ /\ row.reason = "result_observation_timeout"
       /\ row.level \in {"transport_sent", "provider_accepted", "device_acked"}

StatusConfirmationCheck(row) ==
    /\ row.level = "none" <=> row.evidence = "none"
    /\ row.level \in {"device_acked", "device_final"} => row.evidence = "verified"
    /\ row.status = "queued" => row.level = "none"
    /\ row.status = "sent" => row.level \in {"none", "transport_sent", "provider_accepted"}
    /\ row.status = "acked" => row.level \in {"device_acked", "device_final"}
    /\ row.status = "success" => row.level = "device_final"

\* sent_at and result_deadline_at are written together, so sentAt stands for both.
StatusTimingCheck(row) ==
    row.sentAt # 0 <=>
        \/ row.status \in {"sent", "acked", "success"}
        \/ row.reason \in {"provider_transport_error", "provider_rejected",
                           "device_reported_failure", "result_observation_timeout"}

\* A row written with at as its sent_at, or as its finished_at.
RowAllowed(row, at) ==
    /\ ReasonCheck(row)
    /\ ReasonEvidenceCheck(row)
    /\ StatusConfirmationCheck(row)
    /\ StatusTimingCheck(row)
    /\ at >= row.queuedAt /\ at >= row.sentAt
=============================================================================
