----------------------------- MODULE DataVault -----------------------------
(***************************************************************************)
(* The Data Vault's records and their versions (dataVaultService.ts),      *)
(* under the access Identity decides (Access).                             *)
(*                                                                         *)
(* No write is a transaction.  A request reads its record, has its rights  *)
(* checked one read at a time, saves what it read as a version, and only   *)
(* then changes the record; others run, rights change and the process may  *)
(* stop between any two of these.                                          *)
(*                                                                         *)
(* A definition that no other uses, placed before the one it resembles, is *)
(* a faulty variant of it: README.md says which property rules it out.     *)
(***************************************************************************)
EXTENDS Access

CONSTANTS
    Record,
    Request,      \* HTTP requests under way at one time
    Entity,       \* rows of legal_entities
    Text,         \* what the descriptive fields say
    Updates,      \* the inputs of updateRecord: None where a field is left out
    Inserts,      \* the inputs of createRecord
    MaxVersion,   \* bound: the highest version of a record
    None

Input ==
    [entity : Entity \cup {None}, class : Classification \cup {None},
     text : Text \cup {None}, status : {"live", "Archived", None}]

\* status: any that is not Archived is live.
Content == [entity : Entity, class : Classification, text : Text, status : {"live", "Archived"}]

Row == [version : Nat \ {0}, content : Content]

ASSUME DataVaultAssumption ==
    /\ MaxVersion \in Nat \ {0}
    /\ Updates \subseteq Input
    /\ Inserts \subseteq Content
    /\ \A i \in Inserts : i.status = "live"
    /\ None \notin Row \cup Content
    /\ Key = {"read", "create", "update", "archive"} \X {"ordinary", "privileged"}

VARIABLES
    records,   \* records[d]: the row of data_vault_records, None before it is created
    versions,  \* versions[d][v]: the snapshot in data_vault_record_versions, or None
    calls      \* the call each request is in

vars == <<account, assigned, grants, records, versions, calls>>

Operation == {"get", "create", "update", "archive"}
Stage == {"read", "account", "roles", "grants", "write", "merge"}

\* read: the row the call decides on.  passed: the checks it has passed.  tier:
\* which of the two keys the check under way tries.  merged: the row the UPDATE
\* fills its gaps from.  seen: no state of the code; all that was true of the
\* caller at some moment since the row was read.
Call ==
    [op : Operation, user : User, record : Record, input : Input, stage : Stage,
     read : Row \cup {None}, passed : Nat, tier : {"ordinary", "privileged"},
     merged : Row \cup {None},
     seen : [account : SUBSET {"active", "disabled"}, roles : SUBSET Role,
             grants : SUBSET Scope]]

Init ==
    /\ AccessInit
    /\ records = [d \in Record |-> None]
    /\ versions = [d \in Record |-> [v \in 1 .. MaxVersion |-> None]]
    /\ calls = [r \in Request |-> None]

-----------------------------------------------------------------------------
\* Queries

\* A content with the fields an input gives.
Merge(content, input) ==
    [f \in DOMAIN content |-> IF input[f] # None THEN input[f] ELSE content[f]]

Target(content) == [class |-> content.class, path |-> <<content.entity>>]

Check(action, content) == [action |-> action, target |-> Target(content)]

ChecksOnCurrentOnly(c) ==
    CASE c.op = "get"     -> <<Check("read", c.read.content)>>
      [] c.op = "create"  -> <<Check("create", c.input)>>
      [] c.op = "archive" -> <<Check("read", c.read.content), Check("archive", c.read.content)>>
      [] c.op = "update"  -> <<Check("read", c.read.content), Check("update", c.read.content)>>

\* What a call must be authorised for, in order: to see the record and to act on
\* it as it is, and to update it as it would become if that moves it.
Checks(c) ==
    CASE c.op = "get"     -> <<Check("read", c.read.content)>>
      [] c.op = "create"  -> <<Check("create", c.input)>>
      [] c.op = "archive" -> <<Check("read", c.read.content), Check("archive", c.read.content)>>
      [] c.op = "update"  ->
             LET new == Check("update", Merge(c.read.content, c.input)) IN
             <<Check("read", c.read.content), Check("update", c.read.content)>>
             \o IF new.target = Target(c.read.content) THEN <<>> ELSE <<new>>

Seen(u) == [account |-> {account[u]}, roles |-> assigned[u], grants |-> grants[u]]

At(r, stage) == calls[r] # None /\ calls[r].stage = stage

End(r) == calls' = [calls EXCEPT ![r] = None]

-----------------------------------------------------------------------------
\* The caller is signed in and its account active.
Open(r, u, op, d, input) ==
    /\ calls[r] = None
    /\ account[u] = "active"
    /\ calls' = [calls EXCEPT ![r] =
           [op |-> op, user |-> u, record |-> d, input |-> input,
            stage |-> IF op = "create" THEN "account" ELSE "read",
            read |-> None, passed |-> 0, tier |-> "ordinary", merged |-> None,
            seen |-> Seen(u)]]
    /\ UNCHANGED <<access, records, versions>>

Receive(r) ==
    \E u \in User, d \in Record :
        \/ \E op \in {"get", "archive"} :
               Open(r, u, op, d, [f \in {"entity", "class", "text", "status"} |-> None])
        \/ \E i \in Inserts : records[d] = None /\ Open(r, u, "create", d, i)
        \/ \E i \in Updates : Open(r, u, "update", d, i)

FindRecord(r) ==
    LET c == calls[r] IN
    /\ At(r, "read")
    /\ records[c.record] # None
    /\ calls' = [calls EXCEPT ![r].stage = "account", ![r].read = records[c.record],
                              ![r].seen = Seen(c.user)]
    /\ UNCHANGED <<access, records, versions>>

\* One read of one check; the last read of the last check lets the call act.
CheckPasses(r) ==
    LET c == calls[r]
        check == Checks(c)[c.passed + 1]
    IN
    /\ c # None
    /\ c.stage \in {"account", "roles", "grants"}
    /\ ReadPasses(c.stage, c.user, <<check.action, c.tier>>, check.target)
    /\ calls' = [calls EXCEPT ![r] =
           CASE c.stage = "account" -> [c EXCEPT !.stage = "roles"]
             [] c.stage = "roles"   -> [c EXCEPT !.stage = "grants"]
             [] c.stage = "grants"  ->
                    [c EXCEPT !.stage = IF c.passed + 1 = Len(Checks(c)) THEN "write"
                                        ELSE "account",
                              !.passed = @ + 1, !.tier = "ordinary"]]
    /\ UNCHANGED <<access, records, versions>>

\* checkAccess tries the privileged key for a PRIVILEGED record, from the start.
CheckFails(r) ==
    LET c == calls[r]
        check == Checks(c)[c.passed + 1]
    IN
    /\ c # None
    /\ c.stage \in {"account", "roles", "grants"}
    /\ ~ReadPasses(c.stage, c.user, <<check.action, c.tier>>, check.target)
    /\ calls' = [calls EXCEPT ![r] =
           IF c.tier = "ordinary" /\ check.target.class = 5
           THEN [c EXCEPT !.stage = "account", !.tier = "privileged"]
           ELSE None]
    /\ UNCHANGED <<access, records, versions>>

Answer(r) ==
    /\ At(r, "write")
    /\ calls[r].op = "get"
    /\ End(r)
    /\ UNCHANGED <<access, records, versions>>

Create(r) ==
    LET c == calls[r] IN
    /\ At(r, "write")
    /\ c.op = "create"
    /\ records[c.record] = None
    /\ records' = [records EXCEPT ![c.record] = [version |-> 1, content |-> c.input]]
    /\ End(r)
    /\ UNCHANGED <<access, versions>>

AddVersionTwice(r) ==
    LET c == calls[r] IN
    /\ At(r, "write")
    /\ c.op \in {"update", "archive"}
    /\ c.read.version < MaxVersion
    /\ versions' = [versions EXCEPT ![c.record][c.read.version] = c.read.content]
    /\ calls' = [calls EXCEPT ![r].stage = "merge"]
    /\ UNCHANGED <<access, records>>

AddVersionNext(r) ==
    LET c == calls[r] IN
    /\ At(r, "write")
    /\ c.op \in {"update", "archive"}
    /\ c.read.version < MaxVersion
    /\ versions[c.record][c.read.version + 1] = None
    /\ versions' = [versions EXCEPT ![c.record][c.read.version + 1] = c.read.content]
    /\ calls' = [calls EXCEPT ![r].stage = "merge"]
    /\ UNCHANGED <<access, records>>

\* UNIQUE (record_id, version) refuses the second request that read a version.
AddVersion(r) ==
    LET c == calls[r] IN
    /\ At(r, "write")
    /\ c.op \in {"update", "archive"}
    /\ c.read.version < MaxVersion
    /\ versions[c.record][c.read.version] = None
    /\ versions' = [versions EXCEPT ![c.record][c.read.version] = c.read.content]
    /\ calls' = [calls EXCEPT ![r].stage = "merge"]
    /\ UNCHANGED <<access, records>>

\* update reads the row again, for the fields its input leaves out.
ReadAgain(r) ==
    /\ At(r, "merge")
    /\ calls[r].op = "update"
    /\ calls[r].merged = None
    /\ calls' = [calls EXCEPT ![r].merged = records[calls[r].record]]
    /\ UNCHANGED <<access, records, versions>>

\* The row's version at the time of the statement goes up by one.
Write(r, content) ==
    LET d == calls[r].record IN
    /\ records' = [records EXCEPT ![d] = [version |-> @.version + 1, content |-> content]]
    /\ End(r)
    /\ UNCHANGED <<access, versions>>

Update(r) ==
    /\ At(r, "merge")
    /\ calls[r].merged # None
    /\ Write(r, Merge(calls[r].merged.content, calls[r].input))

Archive(r) ==
    /\ At(r, "merge")
    /\ calls[r].op = "archive"
    /\ Write(r, [records[calls[r].record].content EXCEPT !.status = "Archived"])

\* The request is refused where it stands, fails, or its process stops: what it
\* wrote stays.
Abandon(r) ==
    /\ calls[r] # None
    /\ End(r)
    /\ UNCHANGED <<access, records, versions>>

\* A change of u's access; the calls of u are seen to have it from now on.
Change(u) ==
    /\ Administer(u)
    /\ calls' = [r \in Request |->
           IF calls[r] = None \/ calls[r].user # u THEN calls[r]
           ELSE [calls[r] EXCEPT !.seen = [account |-> @.account \cup {account'[u]},
                                           roles   |-> @.roles \cup assigned'[u],
                                           grants  |-> @.grants \cup grants'[u]]]]
    /\ UNCHANGED <<records, versions>>

-----------------------------------------------------------------------------
Next ==
    \/ \E u \in User : Change(u)
    \/ \E r \in Request :
        \/ Receive(r)
        \/ FindRecord(r)
        \/ CheckPasses(r)
        \/ CheckFails(r)
        \/ Answer(r)
        \/ Create(r)
        \/ AddVersion(r)
        \/ ReadAgain(r)
        \/ Update(r)
        \/ Archive(r)
        \/ Abandon(r)

Spec == Init /\ [][Next]_vars

-----------------------------------------------------------------------------
\* The columns have their shape; a call past the read has a row, and one that
\* is about to change the record has saved the version it read (updateRecord).
TypeOK ==
    /\ AccessTypes
    /\ records \in [Record -> Row \cup {None}]
    /\ versions \in [Record -> [1 .. MaxVersion -> Content \cup {None}]]
    /\ calls \in [Request -> Call \cup {None}]
    /\ \A r \in Request :
           At(r, "merge") => versions[calls[r].record][calls[r].read.version] # None

\* The caller held, for one check, each part of what authorize asks for at some
\* moment since the call read its row, though not all at the same moment.
Entitled(c, check) ==
    /\ "active" \in c.seen.account
    /\ \E tier \in {"ordinary", "privileged"} :
           PermissionCovers(c.seen.roles, <<check.action, tier>>, check.target)
    /\ GrantCovers(c.seen.grants, check.target)

\* If r's call ends in this step, its caller was entitled to what it shows or changes.
EndsEntitled(r) ==
    LET c == calls[r] IN c # None /\ calls'[r] = None =>
       /\ c.op = "get" /\ c.stage = "write" => Entitled(c, Check("read", c.read.content))
       /\ \A d \in Record : records'[d] # records[d] =>
              LET new == Check(c.op, records'[d].content) IN
              IF records[d] = None THEN Entitled(c, new)
              ELSE LET old == Check(c.op, records[d].content) IN
                   /\ Entitled(c, Check("read", records[d].content))
                   /\ Entitled(c, old)
                   /\ new # old => Entitled(c, new)

\* Whatever other requests and administrators do meanwhile: who changes a record
\* was entitled to it as it stands at that moment, not only as it was read, and
\* as it becomes; who is shown a row was entitled to see it (updateRecord and
\* archiveRecord check the row they read, without a lock or a transaction).
CallersEntitled == [][\A r \in Request : EndsEntitled(r)]_vars

\* The versions of a record and its row are one history that only grows, with no
\* version lost, repeated or rewritten (addVersion, then update or archive).
History(d) ==
    IF records[d] = None THEN <<>>
    ELSE [v \in 1 .. records[d].version |->
              IF v = records[d].version THEN records[d].content ELSE versions[d][v]]

Versioned == INSTANCE VersionedRecord WITH history <- [d \in Record |-> History(d)]

HistoryKept == Versioned!HSpec
=============================================================================
