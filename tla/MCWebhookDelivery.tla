-------------------------- MODULE MCWebhookDelivery --------------------------
(* Small instances of WebhookDelivery for TLC. *)
EXTENDS WebhookDelivery, TLC

CONSTANTS m1, m2, d1, d2, k1

\* Every callback was asked for with the same key.
OneKey == [m \in Deliveries |-> k1]

Symmetric == Permutations({m1, m2}) \cup Permutations({d1, d2})
=============================================================================
