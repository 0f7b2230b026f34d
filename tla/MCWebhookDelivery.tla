--------------------------- MODULE MCWebhookDelivery ---------------------------
(* Instances of WebhookDelivery for TLC. *)
EXTENDS WebhookDelivery, TLC

CONSTANTS d1, d2, e1, w1, w2, u1

\* Two processes with the limits of a rolling change.
MixedAttempts == [w \in Workers |-> IF w = w1 THEN 1 ELSE 2]
RetryAfterOne == [n \in 1 .. AttemptLimit |-> 1]
=============================================================================
