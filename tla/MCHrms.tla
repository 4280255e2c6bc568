------------------------------- MODULE MCHrms -------------------------------
(* Lifecycle cases on small instances. *)
EXTENDS HrmsLifecycle, TLC

\* Requests and workers are interchangeable.
Symmetry == Permutations(Request) \cup Permutations(Worker)
=============================================================================
