---------------------------- MODULE Organisation ----------------------------
(***************************************************************************)
(* The employee master of platform-services/organisation: employees and    *)
(* their effective-dated employment assignments with reporting lines.      *)
(*                                                                         *)
(* createAssignment reads the reporting line and the current primary in a  *)
(* transaction (CheckAssignment), closes and inserts (CommitAssignment)    *)
(* and sets the employee's status after the commit (SetStatus).  Only calls*)
(* that set a reporting line take the advisory lock, so any other write    *)
(* may fall between these steps.  endAssignment has no transaction at all. *)
(* Whether the caller holds the permission is left open: a refused request *)
(* changes nothing.                                                        *)
(*                                                                         *)
(* A definition that no other uses, placed before the one it resembles, is *)
(* a faulty variant of it: README.md says which property rules it out.     *)
(***************************************************************************)
EXTENDS Integers, Sequences, FiniteSets

CONSTANTS
    Employee,    \* ids available to employees rows
    Request,     \* HTTP requests under way at one time
    LiveStatus,  \* statuses a new assignment may carry
    EndStatus,   \* statuses endAssignment may set
    MaxRows,     \* bound: employment assignments ever created
    MaxDate,     \* bound: effective dates are 1 .. MaxDate
    HireDates,   \* bound: the dates at which first assignments start
    MaxHops,     \* MAX_REPORTING_CHAIN_DEPTH, 50 in the code
    None

Status == LiveStatus \cup EndStatus
Date == 1 .. MaxDate
Kind == {"PRIMARY", "SECONDARY"}

ASSUME OrganisationBoundAssumption ==
    /\ MaxRows \in Nat /\ MaxDate \in Nat /\ MaxHops \in Nat \ {0}
    /\ HireDates \subseteq Date
ASSUME OrganisationNoneAssumption ==
    None \notin Employee \cup Status /\ "ABSENT" \notin Status

VARIABLES
    employees,  \* employees.status, "ABSENT" before the row exists
    rows,       \* employment_assignments, in the order of their insertion
    calls       \* what each request has read and not yet written

vars == <<employees, rows, calls>>

\* kind: is_primary; to: effective_to, 0 for NULL; reportsTo:
\* reports_to_assignment_id, 0 for NULL.
\* The row's own status decides nothing and is left out.
AssignmentRow ==
    [employee  : Employee,
     from      : Date,
     to        : 0 .. MaxDate,
     kind      : Kind,
     reportsTo : 0 .. MaxRows]

\* row: the current primary that was read; date: effectiveFrom, or the end date.
Call ==
    [op        : {"idle", "write", "end", "status"},
     employee  : Employee \cup {None},
     date      : 0 .. MaxDate,
     kind      : Kind,
     status    : Status \cup {None},
     reportsTo : 0 .. MaxRows,
     row       : 0 .. MaxRows]

Idle == [op |-> "idle", employee |-> None, date |-> 0,
         kind |-> "SECONDARY", status |-> None, reportsTo |-> 0, row |-> 0]

\* What the routes pass on of a request's body.
NewEmployee == [date : HireDates, status : LiveStatus]
NewAssignment ==
    [date : Date, kind : Kind, status : LiveStatus, reportsTo : 0 .. MaxRows]
End == [date : Date, status : EndStatus]

Init ==
    /\ employees = [e \in Employee |-> "ABSENT"]
    /\ rows = <<>>
    /\ calls = [r \in Request |-> Idle]

-----------------------------------------------------------------------------
\* Queries

OpenPrimary(e) ==
    {i \in DOMAIN rows : rows[i].employee = e /\ rows[i].kind = "PRIMARY" /\ rows[i].to = 0}

\* findCurrentPrimary: 0 when there is none.
CurrentPrimary(e) ==
    IF OpenPrimary(e) = {} THEN 0 ELSE CHOOSE i \in OpenPrimary(e) : TRUE

IsCurrentAt(i, date) == rows[i].from <= date /\ (rows[i].to = 0 \/ date <= rows[i].to)

\* The assignment n edges above i, 0 beyond the end of the line.
Superior(i) ==
    LET up[n \in 0 .. MaxHops] ==
            IF n = 0 THEN i ELSE IF up[n - 1] = 0 THEN 0 ELSE rows[up[n - 1]].reportsTo
    IN  up

ReportsDirectly(i, e) == rows[i].employee = e

ReportingChainReachesEmployee(i, e) ==
    \E n \in 0 .. MaxHops - 1 : Superior(i)[n] # 0 /\ rows[Superior(i)[n]].employee = e

\* The row an INSERT leaves.
Row(e, date, kind, reportsTo) ==
    [employee |-> e, from |-> date, to |-> 0, kind |-> kind, reportsTo |-> reportsTo]

-----------------------------------------------------------------------------
\* employeeService.createEmployee: the employee, its first assignment and its
\* status, in one transaction.  No route passes it a reporting line.

CreateEmployee(e, new) ==
    /\ employees[e] = "ABSENT"
    /\ Len(rows) < MaxRows
    /\ rows' = Append(rows, Row(e, new.date, "PRIMARY", 0))
    /\ employees' = [employees EXCEPT ![e] = new.status]
    /\ UNCHANGED calls

-----------------------------------------------------------------------------
\* employmentAssignmentService.createAssignment

Locked == \E r \in Request : calls[r].op = "write" /\ calls[r].reportsTo # 0

MayReportTo(e, date, i) ==
    /\ IsCurrentAt(i, date)
    /\ rows[i].employee # e
    /\ ~ReportingChainReachesEmployee(i, e)

\* The request, up to its transaction's first write.  What it read before the
\* transaction only serves authorization and the audit trail.
CheckAssignment(r, e, new) ==
    /\ calls[r] = Idle
    /\ employees[e] # "ABSENT"
    /\ Len(rows) < MaxRows
    /\ new.reportsTo \in {0} \cup DOMAIN rows
    /\ new.reportsTo # 0 => ~Locked /\ MayReportTo(e, new.date, new.reportsTo)
    /\ calls' = [calls EXCEPT ![r] =
           [Idle EXCEPT !.op = "write", !.employee = e, !.date = new.date,
                        !.kind = new.kind, !.status = new.status,
                        !.reportsTo = new.reportsTo,
                        !.row = IF new.kind = "PRIMARY" THEN CurrentPrimary(e) ELSE 0]]
    /\ UNCHANGED <<employees, rows>>

CloseRow(i, date) == [rows EXCEPT ![i].to = date]

WithoutPrevious(c) == IF c.row = 0 THEN rows ELSE CloseRow(c.row, c.date - 1)

\* employment_assignments_effective_range.
RangeHolds(c) == c.row # 0 => rows[c.row].from <= c.date - 1

\* employment_assignments_one_open_primary, seen by the INSERT after the UPDATE.
MayInsertAny(c) == RangeHolds(c)

MayInsert(c) ==
    /\ RangeHolds(c)
    /\ c.kind = "PRIMARY" => OpenPrimary(c.employee) \subseteq {c.row}

CommitAssignment(r) ==
    LET c == calls[r] IN
    /\ c.op = "write"
    /\ Len(rows) < MaxRows
    /\ MayInsert(c)
    /\ rows' = Append(WithoutPrevious(c), Row(c.employee, c.date, c.kind, c.reportsTo))
    /\ calls' = [calls EXCEPT ![r] =
           [Idle EXCEPT !.op = "status", !.employee = c.employee, !.status = c.status]]
    /\ UNCHANGED employees

\* employees.setStatus, after and outside what it reports.
SetStatus(r) ==
    /\ calls[r].op = "status"
    /\ employees' = [employees EXCEPT ![calls[r].employee] = calls[r].status]
    /\ calls' = [calls EXCEPT ![r] = Idle]
    /\ UNCHANGED rows

\* A refused check, a violated constraint, or a process that stops: the
\* transaction is undone, what was committed before stays.
GiveUp(r) ==
    /\ calls[r] # Idle
    /\ calls' = [calls EXCEPT ![r] = Idle]
    /\ UNCHANGED <<employees, rows>>

-----------------------------------------------------------------------------
\* employmentAssignmentService.endAssignment

BeginEnd(r, e, end) ==
    /\ calls[r] = Idle
    /\ CurrentPrimary(e) # 0
    /\ calls' = [calls EXCEPT ![r] =
           [Idle EXCEPT !.op = "end", !.employee = e, !.date = end.date, !.status = end.status,
                        !.row = CurrentPrimary(e)]]
    /\ UNCHANGED <<employees, rows>>

CloseAssignmentAnyTime(r) ==
    LET c == calls[r] IN
    /\ c.op = "end"
    /\ rows' = CloseRow(c.row, c.date)
    /\ calls' = [calls EXCEPT ![r] =
           [Idle EXCEPT !.op = "status", !.employee = c.employee, !.status = c.status]]
    /\ UNCHANGED employees

\* closeAssignment updates by id alone, closed meanwhile or not.
CloseAssignment(r) ==
    LET c == calls[r] IN
    /\ c.op = "end"
    /\ rows[c.row].from <= c.date
    /\ rows' = CloseRow(c.row, c.date)
    /\ calls' = [calls EXCEPT ![r] =
           [Idle EXCEPT !.op = "status", !.employee = c.employee, !.status = c.status]]
    /\ UNCHANGED employees

-----------------------------------------------------------------------------
Next ==
    \/ \E e \in Employee, new \in NewEmployee : CreateEmployee(e, new)
    \/ \E r \in Request :
        \/ \E e \in Employee, new \in NewAssignment : CheckAssignment(r, e, new)
        \/ \E e \in Employee, end \in End : BeginEnd(r, e, end)
        \/ CommitAssignment(r)
        \/ SetStatus(r)
        \/ CloseAssignment(r)
        \/ GiveUp(r)

Spec == Init /\ [][Next]_vars

-----------------------------------------------------------------------------
\* Every variable has the shape its table has, references name rows inserted
\* before, and an assignment covers a period that is not empty (migration 003,
\* employment_assignments_effective_range).
TypeOK ==
    /\ employees \in [Employee -> Status \cup {"ABSENT"}]
    /\ rows \in Seq(AssignmentRow)
    /\ \A i \in DOMAIN rows :
           /\ rows[i].reportsTo < i
           /\ rows[i].to # 0 => rows[i].from <= rows[i].to
    /\ calls \in [Request -> Call]

\* Two transitions of one employee that read the same current assignment, an
\* end in between, or a hire that raced another: the employee never has two
\* open primary assignments, and never exists without an assignment
\* (migration 003, employment_assignments_one_open_primary; createEmployee).
OneOpenPrimary ==
    /\ \A i, j \in DOMAIN rows :
           rows[i].employee = rows[j].employee /\ rows[i].kind = "PRIMARY"
             /\ rows[j].kind = "PRIMARY" /\ rows[i].to = 0 /\ rows[j].to = 0 => i = j
    /\ \A e \in Employee :
           employees[e] # "ABSENT" <=> \E i \in DOMAIN rows : rows[i].employee = e

\* Whatever was committed between the check and the insert, no employee is met
\* again on the way up from one of their own assignments, as far up as the code
\* looks (reportingChainReachesEmployee).
LinesPassEachEmployeeOnce ==
    \A i \in DOMAIN rows :
        \A n \in 1 .. MaxHops :
            Superior(i)[n] # 0 => rows[Superior(i)[n]].employee # rows[i].employee

\* The employee whose assignment e's current assignment reports to.
Bosses(e) ==
    {rows[rows[i].reportsTo].employee : i \in {j \in OpenPrimary(e) : rows[j].reportsTo # 0}}

\* "... the employee would end up (directly or transitively) reporting to
\* themselves": no employee is above themselves along current assignments
\* (employmentAssignmentService.ts:54).
NobodyAboveThemselves ==
    \A e \in Employee :
        LET above[n \in 1 .. Cardinality(Employee)] ==
                IF n = 1 THEN Bosses(e)
                ELSE above[n - 1] \cup UNION {Bosses(b) : b \in above[n - 1]}
        IN  e \notin above[Cardinality(Employee)]
=============================================================================
