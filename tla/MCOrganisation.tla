--------------------------- MODULE MCOrganisation ---------------------------
(* The employee master on small instances. *)
EXTENDS Organisation, TLC

\* Employees and requests are interchangeable.
Symmetry == Permutations(Employee) \cup Permutations(Request)
=============================================================================
