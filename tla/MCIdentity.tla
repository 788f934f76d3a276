------------------------------ MODULE MCIdentity ------------------------------
(* A small instance of Identity for TLC. *)
EXTENDS Identity, TLC

CONSTANTS u1, u2, t1, t2, t3, r1, r2

(* Safety only: no person, token or request is special. *)
AnyOrder == Permutations(Users) \cup Permutations(Tokens) \cup Permutations(Requests)
=============================================================================
