----------------------------- MODULE MCIdentity -----------------------------
(* One account on small instances. *)
EXTENDS IdentitySessions, TLC

\* Requests and sessions are interchangeable.
Symmetry == Permutations(Request) \cup Permutations(Session)
=============================================================================
