------------------------------- MODULE Access -------------------------------
(***************************************************************************)
(* Identity's accounts, role assignments and entity grants, and the three  *)
(* reads by which rbacService.authorize decides: the account, the roles    *)
(* with their permissions, the grants.  They are separate statements, so   *)
(* an administrator's change may fall between any two of them.             *)
(*                                                                         *)
(* A target is a classification, 0 if it has none, and a path: <<>>, or a  *)
(* legal entity, then a business unit, then a department.  A grant is the  *)
(* path it covers, <<>> for the group.                                     *)
(***************************************************************************)
EXTENDS Integers, Sequences, SequencesExt

CONSTANTS
    User,
    Role,
    Key,        \* permission keys
    RoleKeys,   \* RoleKeys[r]: the keys role_permissions gives r; no code changes it
    Ceiling,    \* Ceiling[k]: max_classification of the permission
    Scope       \* the paths of entity_access_grants

\* PUBLIC, INTERNAL, CONFIDENTIAL, RESTRICTED, PRIVILEGED.
Classification == 1 .. 5

ASSUME AccessAssumption ==
    /\ RoleKeys \in [Role -> SUBSET Key]
    /\ Ceiling \in [Key -> Classification]

VARIABLES
    account,    \* account[u]: users.status
    assigned,   \* assigned[u]: the roles u holds in an assignment that is not revoked
    grants      \* grants[u]: the paths of u's grants that are not revoked

access == <<account, assigned, grants>>

AccessInit ==
    /\ account = [u \in User |-> "active"]
    /\ assigned \in [User -> SUBSET Role]
    /\ grants \in [User -> SUBSET Scope]

AccessTypes ==
    /\ account \in [User -> {"active", "disabled"}]
    /\ assigned \in [User -> SUBSET Role]
    /\ grants \in [User -> SUBSET Scope]

-----------------------------------------------------------------------------
\* What authorize looks for in what it has read

PermissionCovers(roles, key, target) ==
    \E r \in roles :
        /\ key \in RoleKeys[r]
        /\ target.class <= Ceiling[key]

\* A target without an entity needs no grant.
GrantCovers(paths, target) ==
    target.path = <<>> \/ \E p \in paths : IsPrefix(p, target.path)

\* What the read at this stage must find for the check to go on.
ReadPasses(stage, u, key, target) ==
    /\ stage = "account" => account[u] = "active"
    /\ stage = "roles" => PermissionCovers(assigned[u], key, target)
    /\ stage = "grants" => GrantCovers(grants[u], target)

-----------------------------------------------------------------------------
\* Administration

SetStatus(u) ==
    /\ account' = [account EXCEPT ![u] = IF @ = "active" THEN "disabled" ELSE "active"]
    /\ UNCHANGED <<assigned, grants>>

AssignRole(u, r) ==
    /\ r \notin assigned[u]
    /\ assigned' = [assigned EXCEPT ![u] = @ \cup {r}]
    /\ UNCHANGED <<account, grants>>

RevokeRole(u, r) ==
    /\ r \in assigned[u]
    /\ assigned' = [assigned EXCEPT ![u] = @ \ {r}]
    /\ UNCHANGED <<account, grants>>

GrantAccess(u, p) ==
    /\ p \notin grants[u]
    /\ grants' = [grants EXCEPT ![u] = @ \cup {p}]
    /\ UNCHANGED <<account, assigned>>

RevokeAccess(u, p) ==
    /\ p \in grants[u]
    /\ grants' = [grants EXCEPT ![u] = @ \ {p}]
    /\ UNCHANGED <<account, assigned>>

Administer(u) ==
    \/ SetStatus(u)
    \/ \E r \in Role : AssignRole(u, r) \/ RevokeRole(u, r)
    \/ \E p \in Scope : GrantAccess(u, p) \/ RevokeAccess(u, p)
=============================================================================
