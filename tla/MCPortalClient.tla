-------------------------- MODULE MCPortalClient --------------------------
(* The portal's page on small instances. *)
EXTENDS PortalClient, TLC

CONSTANTS c1, c2

Account(role, unit, permissions) ==
    [role |-> role, unit |-> unit, permissions |-> permissions]

\* Opens the People pages, the workspaces of SKL and SVE with their projects, and
\* is denied the executive page that SVE's links to.
Accounts == {Account("SKL User / Legal Reviewer", "SVE", {"hr.access"})}

Opened ==
    [p \in Selectable |->
        CASE p = "hrmsCase" -> {c1, c2} [] OTHER -> {}]

\* No definition tells the two cases apart.
Symmetry == Permutations({c1, c2})
=============================================================================
