---------------------------- MODULE PortalServer ----------------------------
(***************************************************************************)
(* The functions behind the SVE-GIP portal (apps/svegip/netlify): sign-in  *)
(* and its signed cookie, employee accounts, management decisions,         *)
(* controlled documents, and the proxy through which the cookie reaches    *)
(* the platform services.                                                  *)
(*                                                                         *)
(* A handler is a sequence of statements without a transaction: it finds   *)
(* the caller's account, reads a row, writes a row computed from what it   *)
(* read, and may stop between any two.                                     *)
(*                                                                         *)
(* A definition that no other uses, placed before the one it resembles, is *)
(* a faulty variant of it: README.md says which property rules it out.     *)
(***************************************************************************)
EXTENDS Naturals, Sequences

CONSTANTS
    Person,
    Request,       \* calls of the functions under way at one time
    NewAccounts,   \* the accounts administrators create
    Changes,       \* the inputs of PATCH /api/admin/users: None where left out
    Version,
    Reference,     \* storage references of a controlled document
    OtherCode,     \* codes of decisions that are not written as nextCode writes them
    NumberOf,      \* the number nextCode reads in such a code, or None
    Codes,         \* the codes that callers supply
    MaxRows,       \* bound: rows that are inserted, see Room
    None

Permission == {"accounts.manage", "decisions.manage"}
Role == {"Administrator", "Management", "Executive Office", "Employee"}
Account == [role : Role, status : {"Active", "Inactive"}, permissions : SUBSET Permission]
Change ==
    [role : Role \cup {None}, status : {"Active", "Inactive", None},
     permissions : (SUBSET Permission) \cup {None}]

ASSUME PortalServerAssumption ==
    /\ NewAccounts \subseteq Account
    /\ Changes \subseteq Change
    /\ MaxRows \in Nat
    /\ None \notin Reference \cup Nat
    /\ NumberOf \in [OtherCode -> Nat \cup {None}]
    /\ Codes \subseteq Nat \cup OtherCode

VARIABLES
    accounts,   \* accounts[p]: the row of employee_accounts, or None
    users,      \* users[p]: status of p in Identity
    decisions,  \* management_decisions in the order of their ids
    document,   \* the row of one controlled document, or None
    kept,       \* kept[v]: the reference controlled_document_versions has for v, or None
    calls,      \* the call each request is in
    lost        \* no state of the code: versions whose row a stopped request did not add

tables == <<users, decisions, document, kept, lost>>
vars == <<accounts, tables, calls>>

Idle == [stage |-> "idle"]

\* What administrators, managers and writers of decisions may do.
MayManageAccounts(a) == a.role = "Administrator" \/ "accounts.manage" \in a.permissions

IsManager(a) == a.role \in {"Administrator", "Management"}

MayWriteDecisions(a) ==
    /\ a.role \in {"Administrator", "Management", "Executive Office"}
    /\ IsManager(a) \/ "decisions.manage" \in a.permissions

Route == {"accounts", "decisions", "documents", "platform"}

Entitled(a, route) ==
    CASE route = "accounts"  -> MayManageAccounts(a)
      [] route = "decisions" -> MayWriteDecisions(a)
      [] route = "documents" -> IsManager(a)
      [] OTHER -> TRUE

Opens(a, route) == a # None /\ a.status = "Active" /\ Entitled(a, route)

\* The gates that would let the call through now.
Gates(call, as, us) ==
    {g \in {"portal"} : Opens(as[call.by], call.route)} \cup
    {g \in {"platform"} : call.route = "platform" /\ us[call.by] = "active"}

\* calls after a change of accounts or users: could gathers the gates that were
\* open to the caller at some moment since the call began.  No state of the code.
Witnessed(cs, as, us) ==
    [r \in Request |->
        IF cs[r].stage \in {"idle", "first"} THEN cs[r]
        ELSE [cs[r] EXCEPT !.could = @ \cup Gates(cs[r], as, us)]]

Init ==
    /\ accounts = [p \in Person |-> None]
    /\ users \in [Person -> {"active", "disabled"}]
    /\ decisions = <<>>
    /\ document = None
    /\ kept = [v \in Version |-> None]
    /\ calls = [r \in Request |-> Idle]
    /\ lost = {}

-----------------------------------------------------------------------------
(* Accounts.                                                               *)

\* bootstrap-admin: counts the accounts, then inserts one.
BeginBootstrap(r, p) ==
    /\ calls[r] = Idle
    /\ \A q \in Person : accounts[q] = None
    /\ calls' = [calls EXCEPT ![r] = [stage |-> "first", by |-> p]]
    /\ UNCHANGED <<accounts, tables>>

WriteAccount(r, p, row) ==
    /\ accounts' = [accounts EXCEPT ![p] = row]
    /\ calls' = Witnessed([calls EXCEPT ![r] = Idle], accounts', users)
    /\ UNCHANGED tables

\* The email is unique.
Bootstrap(r) ==
    /\ calls[r].stage = "first"
    /\ accounts[calls[r].by] = None
    /\ WriteAccount(r, calls[r].by,
           [role |-> "Administrator", status |-> "Active",
            permissions |-> {"accounts.manage", "decisions.manage"}])

\* Identity disables or enables the person's user (see Workflow, IdentitySessions).
SetUser(p) ==
    /\ users' = [users EXCEPT ![p] = IF @ = "active" THEN "disabled" ELSE "active"]
    /\ calls' = Witnessed(calls, accounts, users')
    /\ UNCHANGED <<accounts, decisions, document, kept, lost>>

-----------------------------------------------------------------------------
(* Every other call begins with its caller.                                *)

\* A cookie names p: login signed it for eight hours, whatever becomes of p's
\* account meanwhile.
Receive(r, p, route) ==
    /\ calls[r] = Idle
    /\ accounts[p] # None
    /\ calls' = [calls EXCEPT ![r] =
          [stage |-> "received", by |-> p, route |-> route, of |-> None, row |-> None,
           could |-> Gates([by |-> p, route |-> route], accounts, users)]]
    /\ UNCHANGED <<accounts, tables>>

GateByRole(call) == accounts[call.by] # None /\ Entitled(accounts[call.by], call.route)

\* resolveLiveSecurityContext and the handler's check of the role: the account as
\* it is now, never what the cookie claims of it.
Gate(call) == Opens(accounts[call.by], call.route)

Admit(r) ==
    /\ calls[r].stage = "received"
    /\ calls' = [calls EXCEPT ![r] = IF Gate(@) THEN [@ EXCEPT !.stage = "admitted"] ELSE Idle]
    /\ UNCHANGED <<accounts, tables>>

Admitted(r, route) == calls[r].stage = "admitted" /\ calls[r].route = route

\* The handler has read row `of`, and will write what it computed from it.
Reads(r, of, row) ==
    /\ calls' = [calls EXCEPT ![r].stage = "write", ![r].of = of, ![r].row = row]
    /\ UNCHANGED <<accounts, tables>>

\* Fields the input leaves out keep their values.
Merged(old, input) ==
    [f \in DOMAIN old |-> IF input[f] = None THEN old[f] ELSE input[f]]

Writing(r, route) == calls[r].stage = "write" /\ calls[r].route = route

CreateAccount(r, p, row) ==
    /\ Admitted(r, "accounts")
    /\ accounts[p] = None
    /\ WriteAccount(r, p, row)

BeginChange(r, p, change) ==
    /\ Admitted(r, "accounts")
    /\ accounts[p] # None
    /\ Reads(r, p, Merged(accounts[p], change))

\* PATCH sets every column.
CommitChange(r) ==
    /\ Writing(r, "accounts")
    /\ WriteAccount(r, calls[r].of, calls[r].row)

-----------------------------------------------------------------------------
(* Management decisions.                                                   *)

\* A bound, not a guard of the code, on the rows that are inserted: the document
\* counts for two, itself and its first version.
Room(rows) == Len(decisions) + (IF document = None THEN 0 ELSE 2) + rows <= MaxRows

\* The statuses before Closed are handled alike: one stands for them.
DecisionStatus == {"Decision Required", "Closed"}

\* A natural number stands for the code that nextCode formats it to.
Number(code) == IF code \in Nat THEN code ELSE NumberOf[code]

Numbered(i) == i \in DOMAIN decisions /\ Number(decisions[i].code) # None

\* nextCode: one more than the number of the last row that has one.
NextCode ==
    LET last == {i \in DOMAIN decisions :
                    Numbered(i) /\ \A j \in DOMAIN decisions : j > i => ~ Numbered(j)}
    IN IF last = {} THEN 1 ELSE Number(decisions[CHOOSE i \in last : TRUE].code) + 1

\* A new row takes the caller's code and status where they are given, and has no
\* closed_at whatever the status.
BeginRegister(r, code, status) ==
    /\ Admitted(r, "decisions")
    /\ Room(1)
    /\ Reads(r, None,
             [code |-> IF code = None THEN NextCode ELSE code,
              status |-> IF status = None THEN "Decision Required" ELSE status,
              closed |-> FALSE])

UnusedCode(code) == \A i \in DOMAIN decisions : decisions[i].code # code

\* decision_code is unique.
CommitRegister(r) ==
    /\ Writing(r, "decisions")
    /\ calls[r].of = None
    /\ UnusedCode(calls[r].row.code)
    /\ Room(1)
    /\ decisions' = Append(decisions, calls[r].row)
    /\ calls' = [calls EXCEPT ![r] = Idle]
    /\ UNCHANGED <<accounts, users, document, kept, lost>>

UpdatedKeepingDate(old, status) ==
    LET next == IF status = None THEN old.status ELSE status
    IN [old EXCEPT !.status = next, !.closed = @ \/ next = "Closed"]

\* closed_at goes with the status written.
Updated(old, status) ==
    LET next == IF status = None THEN old.status ELSE status
    IN [old EXCEPT !.status = next, !.closed = next = "Closed"]

BeginUpdate(r, i, status) ==
    /\ Admitted(r, "decisions")
    /\ Reads(r, i, Updated(decisions[i], status))

CommitUpdate(r) ==
    /\ Writing(r, "decisions")
    /\ calls[r].of # None
    /\ decisions' = [decisions EXCEPT ![calls[r].of] = calls[r].row]
    /\ calls' = [calls EXCEPT ![r] = Idle]
    /\ UNCHANGED <<accounts, users, document, kept, lost>>

-----------------------------------------------------------------------------
(* Controlled documents.                                                   *)

\* The row is written, its version is to be added if adds.
WriteDocument(r, row, adds) ==
    /\ document' = row
    /\ calls' = [calls EXCEPT ![r] =
                    IF adds THEN [@ EXCEPT !.stage = "version", !.of = None, !.row = row]
                    ELSE Idle]
    /\ UNCHANGED <<accounts, users, decisions, kept, lost>>

RegisterDocument(r, row) ==
    /\ Admitted(r, "documents")
    /\ document = None
    /\ Room(2)
    /\ WriteDocument(r, row, TRUE)

AddsVersionOfNewFile(old, row) == row.reference # old.reference

AddsVersion(old, row) == row.version # old.version \/ row.reference # old.reference

\* Whether there is a version to add is decided on the row that was read.
BeginDocument(r, input) ==
    /\ Admitted(r, "documents")
    /\ document # None
    /\ LET row == Merged(document, input) IN Reads(r, AddsVersion(document, row), row)

CommitDocument(r) ==
    /\ Writing(r, "documents")
    /\ WriteDocument(r, calls[r].row, calls[r].of)

\* ON CONFLICT DO NOTHING.
AddVersion(r) ==
    /\ calls[r].stage = "version"
    /\ LET row == calls[r].row
       IN /\ kept' = [kept EXCEPT ![row.version] = IF @ = None THEN row.reference ELSE @]
          /\ lost' = lost \ {row.version}
    /\ calls' = [calls EXCEPT ![r] = Idle]
    /\ UNCHANGED <<accounts, users, decisions, document>>

-----------------------------------------------------------------------------
(* The platform services.                                                  *)

\* proxyToPlatformService forwards the cookie; requireActor verifies it again and
\* looks its email up among Identity's users.
Forward(r) ==
    /\ Admitted(r, "platform")
    /\ calls' = [calls EXCEPT ![r] =
                    IF users[@.by] = "active" THEN [@ EXCEPT !.stage = "served"] ELSE Idle]
    /\ UNCHANGED <<accounts, tables>>

-----------------------------------------------------------------------------
\* The call ends: it is refused, answered, or its function stops.
End(r) ==
    /\ calls[r] # Idle
    /\ calls' = [calls EXCEPT ![r] = Idle]
    /\ lost' = IF calls[r].stage = "version" /\ kept[calls[r].row.version] = None
               THEN lost \cup {calls[r].row.version} ELSE lost
    /\ UNCHANGED <<accounts, users, decisions, document, kept>>

Next ==
    \/ \E p \in Person : SetUser(p)
    \/ \E r \in Request :
        \/ Bootstrap(r) \/ Admit(r) \/ CommitChange(r) \/ CommitRegister(r) \/ CommitUpdate(r)
        \/ CommitDocument(r) \/ AddVersion(r) \/ Forward(r) \/ End(r)
        \/ \E p \in Person :
            \/ BeginBootstrap(r, p)
            \/ \E route \in Route : Receive(r, p, route)
            \/ \E row \in NewAccounts : CreateAccount(r, p, row)
            \/ \E change \in Changes : BeginChange(r, p, change)
        \/ \E status \in DecisionStatus \cup {None} :
            \/ \E code \in Codes \cup {None} : BeginRegister(r, code, status)
            \/ \E i \in DOMAIN decisions : BeginUpdate(r, i, status)
        \/ \E row \in [version : Version, reference : Reference] : RegisterDocument(r, row)
        \/ \E input \in [version : Version \cup {None}, reference : Reference \cup {None}] :
              BeginDocument(r, input)

Spec == Init /\ [][Next]_vars

-----------------------------------------------------------------------------
(* Properties.                                                             *)

\* A cookie is signed for eight hours and claims the role of sign-in.  However
\* accounts change meanwhile, a call goes on to its reads and writes only if its
\* caller's account was active and entitled to it at some moment since the call
\* began, and reaches a platform service only if the user in Identity was active
\* too: either switch alone stops the person.
CallersLive ==
    \A r \in Request :
        /\ calls[r].stage \in {"admitted", "write", "version", "served"} =>
              "portal" \in calls[r].could
        /\ calls[r].stage = "served" => "platform" \in calls[r].could

\* Two requests that computed the same next code, or one that computed a code
\* another supplied, cannot both register; a code that nextCode computed follows
\* that of an earlier row, however late it is written.  A request that writes what
\* it read before another closed or reopened the decision leaves no date on an
\* open decision (a closed one may have been registered so, without a date).
DecisionsConsistent ==
    \A i \in DOMAIN decisions :
        LET d == decisions[i]
        IN /\ \A j \in DOMAIN decisions : decisions[j].code = d.code => j = i
           /\ \/ d.code \in Codes \cup {1}
              \/ \E j \in 1 .. i - 1 : Number(decisions[j].code) = d.code - 1
           /\ d.closed => d.status = "Closed"

\* The document's current version is in its history, or its request is about to
\* add it or was stopped before it could: no other request that read the row
\* earlier, or writes the same version, puts the row back to one without history.
CurrentVersionKept ==
    document # None =>
        \/ kept[document.version] # None
        \/ document.version \in lost
        \/ \E r \in Request :
              calls[r].stage = "version" /\ calls[r].row.version = document.version
=============================================================================
