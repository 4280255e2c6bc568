---------------------------- MODULE MCDataVault ----------------------------
(* The Data Vault on small instances. *)
EXTENDS DataVault, TLC

CONSTANTS hq, branch

\* The ordinary keys reach CONFIDENTIAL, the others the PRIVILEGED records.
Keys == {"read", "create", "update", "archive"} \X {"ordinary", "privileged"}

Given == [r \in Role |-> Keys]

Limit == [k \in Keys |-> IF k[2] = "privileged" THEN 5 ELSE 3]

Paths == {<<hq>>, <<>>}

Live(e, class, text) == [entity |-> e, class |-> class, text |-> text, status |-> "live"]

NewRecords == {Live(hq, 3, "old")}

Nothing == [f \in {"entity", "class", "text", "status"} |-> None]

\* Move to another entity and say something else; make PRIVILEGED.
Edits ==
    {[Nothing EXCEPT !.entity = branch, !.text = "new"],
     [Nothing EXCEPT !.class = 5]}

Symmetry == Permutations(Request)
=============================================================================
