-------------------------- MODULE MCPortalServer --------------------------
(* The portal's functions on small instances. *)
EXTENDS PortalServer, TLC

Unchanged == [role |-> None, status |-> None, permissions |-> None]

Created ==
    {[role |-> "Executive Office", status |-> "Active", permissions |-> {"decisions.manage"}]}

Asked == {[Unchanged EXCEPT !.role = "Employee", !.status = "Inactive"]}

\* A code of another form, in which nextCode finds no number.
Unnumbered == [c \in OtherCode |-> None]

Symmetry == Permutations(Request) \cup Permutations(Person) \cup Permutations(Version)
=============================================================================
