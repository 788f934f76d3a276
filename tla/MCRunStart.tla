----------------------------- MODULE MCRunStart -----------------------------
(* Small instances of RunStart for TLC. *)
EXTENDS RunStart, TLC

CONSTANTS q1, q2, q3, q4, s0, k1, n1, a1, a2, b1, b2

Ask(k, b, a, n, s) == [key |-> k, body |-> b, agent |-> a, name |-> n, continues |-> s]

(* A request and its retry with one key that create or continue the session
   called n1, a third without a key that does too, and a fourth that reuses the key
   with another body and continues the first one's session by its id. *)
Retries ==
    q1 :> Ask(k1, b1, a1, n1, None) @@ q2 :> Ask(k1, b1, a1, n1, None) @@
    q3 :> Ask(None, b1, a1, n1, None) @@ q4 :> Ask(k1, b2, a1, None, q1)

(* Two requests that use one session_key for two assistants, a third that names no
   session and a fourth that names one that does not exist. *)
Strangers ==
    q1 :> Ask(k1, b1, a1, n1, None) @@ q2 :> Ask(None, b1, a2, n1, None) @@
    q3 :> Ask(k1, b2, a1, None, None) @@ q4 :> Ask(k1, b2, a1, None, q4)

Forms       == {Retries, Strangers}
StoredByOne == s0 :> a1
=============================================================================
