------------------------- MODULE OrganisationProofs -------------------------
(***************************************************************************)
(* Theorems of Organisation, for any employees, requests and bounds: an    *)
(* employee has at most one open primary assignment and never exists       *)
(* without an assignment, however the unlocked reads of concurrent         *)
(* requests interleave.                                                    *)
(***************************************************************************)
EXTENDS Organisation, SequenceTheorems, WellFoundedInduction, TLAPS

\* What a request carries from its reads to its writes still names an employee
\* and a row that exist, since neither is ever deleted.
CallHolds(c, es, rs) ==
    /\ c.op # "idle" => c.employee \in Employee /\ es[c.employee] # "ABSENT"
    /\ c.op = "write" =>
          /\ c.date \in Date /\ c.reportsTo \in {0} \cup DOMAIN rs
          /\ c.row \in {0} \cup DOMAIN rs
          /\ c.kind # "PRIMARY" => c.row = 0
    /\ c.op = "end" => c.date \in Date /\ c.row \in DOMAIN rs
    /\ c.op \in {"write", "end", "status"} => c.status \in Status

IInv ==
    /\ TypeOK
    /\ Len(rows) <= MaxRows
    /\ \A r \in Request : CallHolds(calls[r], employees, rows)
    /\ OneOpenPrimary

USE OrganisationBoundAssumption, OrganisationNoneAssumption DEF Date, Status, Kind

-----------------------------------------------------------------------------
\* Closing a row changes its end date and nothing else.
LEMMA ClosedRows ==
    ASSUME rows \in Seq(AssignmentRow), NEW i \in DOMAIN rows, NEW date \in 0 .. MaxDate
    PROVE  /\ CloseRow(i, date) \in Seq(AssignmentRow)
           /\ Len(CloseRow(i, date)) = Len(rows)
           /\ DOMAIN CloseRow(i, date) = DOMAIN rows
           /\ \A j \in DOMAIN rows :
                 /\ CloseRow(i, date)[j].employee = rows[j].employee
                 /\ CloseRow(i, date)[j].from = rows[j].from
                 /\ CloseRow(i, date)[j].kind = rows[j].kind
                 /\ CloseRow(i, date)[j].reportsTo = rows[j].reportsTo
                 /\ CloseRow(i, date)[j].to = IF j = i THEN date ELSE rows[j].to
<1> DEFINE row == [rows[i] EXCEPT !.to = date]
<1>1. CloseRow(i, date) = [rows EXCEPT ![i] = row]
  BY Zenon DEF CloseRow
<1>2. rows[i] \in AssignmentRow /\ i \in 1 .. Len(rows) /\ DOMAIN rows = 1 .. Len(rows)
  BY ElementOfSeq, LenProperties
<1>3. row \in AssignmentRow
  BY <1>2 DEF AssignmentRow
<1>4. \A j \in DOMAIN rows : rows[j] \in AssignmentRow
  BY ElementOfSeq, LenProperties
<1>5. /\ [rows EXCEPT ![i] = row] \in Seq(AssignmentRow)
      /\ Len([rows EXCEPT ![i] = row]) = Len(rows)
      /\ \A j \in 1 .. Len(rows) : [rows EXCEPT ![i] = row][j] = IF j = i THEN row ELSE rows[j]
  BY <1>2, <1>3, ExceptSeq
<1> HIDE DEF row
<1>6. /\ row.employee = rows[i].employee /\ row.from = rows[i].from /\ row.to = date
      /\ row.kind = rows[i].kind /\ row.reportsTo = rows[i].reportsTo
  BY <1>2 DEF row, AssignmentRow
<1> QED
  BY <1>1, <1>2, <1>5, <1>6, LenProperties

\* What an INSERT adds, and what it leaves.
LEMMA AppendedRows ==
    ASSUME NEW s \in Seq(AssignmentRow), NEW row \in AssignmentRow
    PROVE  /\ Append(s, row) \in Seq(AssignmentRow)
           /\ Len(Append(s, row)) = Len(s) + 1
           /\ DOMAIN Append(s, row) = DOMAIN s \cup {Len(s) + 1}
           /\ \A j \in DOMAIN s : Append(s, row)[j] = s[j]
           /\ Append(s, row)[Len(s) + 1] = row
<1>1. Len(s) \in Nat /\ DOMAIN s = 1 .. Len(s)
  BY LenProperties
<1>2. DOMAIN Append(s, row) = 1 .. Len(s) + 1
  OBVIOUS
<1> QED
  BY <1>1, <1>2

LEMMA IdleIsCall == Idle \in Call
BY DEF Idle, Call

\* What a request may note, from the idle record.
LEMMA CallFields ==
    ASSUME NEW op \in {"idle", "write", "end", "status"}, NEW e \in Employee
    PROVE  /\ \A s \in Status : [Idle EXCEPT !.op = op, !.employee = e, !.status = s] \in Call
           /\ \A s \in Status, date \in 0 .. MaxDate, row \in 0 .. MaxRows :
                 [Idle EXCEPT !.op = op, !.employee = e, !.date = date, !.status = s,
                              !.row = row] \in Call
           /\ \A s \in Status, date \in 0 .. MaxDate, kind \in Kind, i, row \in 0 .. MaxRows :
                 [Idle EXCEPT !.op = op, !.employee = e, !.date = date, !.kind = kind,
                              !.status = s, !.reportsTo = i, !.row = row] \in Call
<1>1. \A c \in Call : [c EXCEPT !.op = op] \in Call /\ [c EXCEPT !.employee = e] \in Call
  BY DEF Call
<1>2. \A c \in Call, s \in Status : [c EXCEPT !.status = s] \in Call
  BY DEF Call
<1>3. \A c \in Call, date \in 0 .. MaxDate : [c EXCEPT !.date = date] \in Call
  BY DEF Call
<1>4. \A c \in Call, kind \in Kind : [c EXCEPT !.kind = kind] \in Call
  BY DEF Call
<1>5. \A c \in Call, i \in 0 .. MaxRows :
         [c EXCEPT !.reportsTo = i] \in Call /\ [c EXCEPT !.row = i] \in Call
  BY DEF Call
<1> QED
  BY <1>1, <1>2, <1>3, <1>4, <1>5, IdleIsCall

\* A request that finds its calls' entry again finds it unchanged.
LEMMA OtherCalls ==
    ASSUME calls \in [Request -> Call], NEW r \in Request, NEW c \in Call,
           calls' = [calls EXCEPT ![r] = c]
    PROVE  /\ calls' \in [Request -> Call]
           /\ \A q \in Request : calls'[q] = IF q = r THEN c ELSE calls[q]
OBVIOUS

\* A step that moves one request on and writes no table.
LEMMA CallMoves ==
    ASSUME IInv, NEW r \in Request, NEW c \in Call, CallHolds(c, employees, rows),
           calls' = [calls EXCEPT ![r] = c], UNCHANGED <<employees, rows>>
    PROVE  IInv'
<1>1. calls' \in [Request -> Call] /\ \A q \in Request : calls'[q] = IF q = r THEN c ELSE calls[q]
  BY OtherCalls DEF IInv, TypeOK
<1>2. TypeOK'
  BY <1>1 DEF IInv, TypeOK
<1>3. \A q \in Request : CallHolds(calls'[q], employees', rows')
  BY <1>1 DEF IInv, CallHolds
<1> QED
  BY <1>2, <1>3 DEF IInv, OneOpenPrimary

LEMMA PrimaryIsRow ==
    ASSUME TypeOK, NEW e
    PROVE  CurrentPrimary(e) \in {0} \cup DOMAIN rows
BY DEF CurrentPrimary, OpenPrimary

-----------------------------------------------------------------------------
LEMMA InitHolds == Init => IInv
<1> SUFFICES ASSUME Init PROVE IInv
  OBVIOUS
<1>1. rows \in Seq(AssignmentRow) /\ Len(rows) = 0 /\ DOMAIN rows = {}
  BY EmptySeq DEF Init
<1>2. TypeOK
  BY <1>1, IdleIsCall DEF Init, TypeOK
<1>3. \A r \in Request : CallHolds(calls[r], employees, rows)
  BY DEF Init, CallHolds, Idle
<1> QED
  BY <1>1, <1>2, <1>3 DEF Init, IInv, OneOpenPrimary

LEMMA CreateEmployeeKeeps ==
    ASSUME IInv, NEW e \in Employee, NEW new \in NewEmployee, CreateEmployee(e, new)
    PROVE  IInv'
<1> DEFINE row == Row(e, new.date, "PRIMARY", 0)
           k == Len(rows) + 1
<1>1. Len(rows) \in Nat /\ DOMAIN rows = 1 .. Len(rows)
  BY LenProperties DEF IInv, TypeOK
<1>2. row \in AssignmentRow /\ row.employee = e /\ row.reportsTo < k /\ row.to = 0
  <2>1. new.date \in Date
    BY Zenon DEF NewEmployee
  <2> QED
    BY <1>1, <2>1 DEF Row, AssignmentRow
<1> HIDE DEF row
<1>3. /\ rows' \in Seq(AssignmentRow) /\ Len(rows') = k
      /\ DOMAIN rows' = DOMAIN rows \cup {k} /\ k \notin DOMAIN rows
      /\ \A j \in DOMAIN rows : rows'[j] = rows[j]
      /\ rows'[k] = row
  BY <1>1, <1>2, AppendedRows DEF CreateEmployee, IInv, TypeOK, row
<1>4. /\ employees' \in [Employee -> Status \cup {"ABSENT"}]
      /\ employees[e] = "ABSENT" /\ employees'[e] # "ABSENT"
      /\ \A f \in Employee \ {e} : employees'[f] = employees[f]
      /\ UNCHANGED calls
  BY DEF CreateEmployee, NewEmployee, IInv, TypeOK
<1>5. TypeOK'
  <2>1. \A i \in DOMAIN rows' : rows'[i].reportsTo < i /\ (rows'[i].to # 0 => rows'[i].from <= rows'[i].to)
    BY <1>2, <1>3 DEF IInv, TypeOK
  <2> QED
    BY <2>1, <1>3, <1>4 DEF IInv, TypeOK
<1>6. \A r \in Request : CallHolds(calls'[r], employees', rows')
  BY <1>3, <1>4 DEF IInv, CallHolds
<1>7. \A j \in DOMAIN rows : rows[j].employee # e
  BY <1>4 DEF IInv, OneOpenPrimary
<1>8. OneOpenPrimary'
  <2>1. ASSUME NEW i \in DOMAIN rows', NEW j \in DOMAIN rows',
               rows'[i].employee = rows'[j].employee, rows'[i].kind = "PRIMARY", rows'[j].kind = "PRIMARY",
               rows'[i].to = 0, rows'[j].to = 0
        PROVE  i = j
    BY <2>1, <1>2, <1>3, <1>7 DEF IInv, OneOpenPrimary
  <2>2. ASSUME NEW f \in Employee
        PROVE  employees'[f] # "ABSENT" <=> \E i \in DOMAIN rows' : rows'[i].employee = f
    <3>1. CASE f = e
      BY <3>1, <1>2, <1>3, <1>4
    <3>2. CASE f # e
      BY <3>2, <1>2, <1>3, <1>4 DEF IInv, OneOpenPrimary
    <3> QED
      BY <3>1, <3>2
  <2> QED
    BY <2>1, <2>2 DEF OneOpenPrimary
<1> QED
  <2>1. Len(rows') <= MaxRows
    BY <1>1, <1>3 DEF CreateEmployee
  <2> QED
    BY <2>1, <1>5, <1>6, <1>8 DEF IInv

\* Closing a row of an existing assignment, on a date its period reaches.
LEMMA CloseKeeps ==
    ASSUME IInv, NEW i \in DOMAIN rows, NEW date \in Date, rows[i].from <= date,
           rows' = CloseRow(i, date)
    PROVE  /\ rows' \in Seq(AssignmentRow) /\ Len(rows') = Len(rows) /\ DOMAIN rows' = DOMAIN rows
           /\ \A j \in DOMAIN rows :
                 /\ rows'[j].employee = rows[j].employee
                 /\ rows'[j].reportsTo = rows[j].reportsTo
                 /\ rows'[j].reportsTo < j
                 /\ rows'[j].to # 0 => rows'[j].from <= rows'[j].to
                 /\ rows'[j].kind = rows[j].kind
                 /\ rows'[j].to = 0 => rows[j].to = 0
<1>1. date \in 0 .. MaxDate /\ date # 0 /\ rows \in Seq(AssignmentRow)
  BY DEF IInv, TypeOK
<1>2. \A j \in DOMAIN rows : rows[j].reportsTo < j /\ (rows[j].to # 0 => rows[j].from <= rows[j].to)
  BY DEF IInv, TypeOK
<1> QED
  BY <1>1, <1>2, ClosedRows

LEMMA CloseAssignmentKeeps ==
    ASSUME IInv, NEW r \in Request, CloseAssignment(r)
    PROVE  IInv'
<1> DEFINE c == calls[r]
           n == [Idle EXCEPT !.op = "status", !.employee = c.employee, !.status = c.status]
<1>1. /\ c \in Call /\ c.op = "end" /\ c.employee \in Employee /\ employees[c.employee] # "ABSENT"
      /\ c.date \in Date /\ c.row \in DOMAIN rows /\ rows[c.row].from <= c.date
  BY DEF CloseAssignment, IInv, TypeOK, CallHolds
<1>2. /\ rows' \in Seq(AssignmentRow) /\ Len(rows') = Len(rows) /\ DOMAIN rows' = DOMAIN rows
      /\ \A j \in DOMAIN rows :
            /\ rows'[j].employee = rows[j].employee
            /\ rows'[j].reportsTo < j
            /\ rows'[j].to # 0 => rows'[j].from <= rows'[j].to
            /\ rows'[j].kind = rows[j].kind
            /\ rows'[j].to = 0 => rows[j].to = 0
  BY <1>1, CloseKeeps DEF CloseAssignment
<1>3. n \in Call /\ n.op = "status" /\ n.employee = c.employee /\ n.status = c.status
  <2>1. c.status \in Status
    BY <1>1 DEF CloseAssignment, IInv, CallHolds
  <2> QED
    BY <1>1, <2>1, CallFields DEF Idle
<1> HIDE DEF n
<1>4. calls' \in [Request -> Call] /\ \A q \in Request : calls'[q] = IF q = r THEN n ELSE calls[q]
  BY <1>3, OtherCalls DEF CloseAssignment, IInv, TypeOK, n
<1>5. UNCHANGED employees
  BY DEF CloseAssignment
<1>6. \A q \in Request : CallHolds(calls'[q], employees', rows')
  <2>1. CallHolds(n, employees', rows')
    BY <1>1, <1>3, <1>5 DEF CallHolds, IInv, TypeOK
  <2>2. \A q \in Request \ {r} : CallHolds(calls[q], employees', rows')
    BY <1>2, <1>5 DEF IInv, CallHolds
  <2> QED
    BY <1>4, <2>1, <2>2
<1>7. TypeOK'
  BY <1>2, <1>4, <1>5 DEF IInv, TypeOK
<1>8. OneOpenPrimary'
  BY <1>2, <1>5 DEF IInv, OneOpenPrimary
<1> QED
  BY <1>2, <1>5, <1>6, <1>7, <1>8 DEF IInv

\* The rows an assignment is inserted into: the previous primary closed, if
\* there was one, so that no other primary of the employee is open.
LEMMA PreviousClosed ==
    ASSUME IInv, NEW c \in Call, c.op = "write", CallHolds(c, employees, rows), MayInsert(c)
    PROVE  LET s == WithoutPrevious(c) IN
           /\ s \in Seq(AssignmentRow) /\ Len(s) = Len(rows) /\ DOMAIN s = DOMAIN rows
           /\ \A j \in DOMAIN rows :
                 /\ s[j].employee = rows[j].employee
                 /\ s[j].reportsTo = rows[j].reportsTo
                 /\ s[j].reportsTo < j
                 /\ s[j].to # 0 => s[j].from <= s[j].to
                 /\ s[j].kind = rows[j].kind
                 /\ s[j].to = 0 => rows[j].to = 0
                 /\ ~(c.kind = "PRIMARY" /\ s[j].employee = c.employee /\ s[j].kind = "PRIMARY" /\ s[j].to = 0)
<1>1. rows \in Seq(AssignmentRow)
  BY DEF IInv, TypeOK
<1>2. c.date \in Date /\ c.row \in {0} \cup DOMAIN rows
  BY DEF CallHolds
<1>3. c.kind = "PRIMARY" => \A j \in DOMAIN rows :
         rows[j].employee = c.employee /\ rows[j].kind = "PRIMARY" /\ rows[j].to = 0 => j = c.row
  BY DEF MayInsert, OpenPrimary
<1>4. DOMAIN rows = 1 .. Len(rows) /\ \A j \in DOMAIN rows : rows[j] \in AssignmentRow
  BY <1>1, LenProperties, ElementOfSeq
<1>5. CASE c.row = 0
  <2>1. \A j \in DOMAIN rows : j # 0
    BY <1>1, LenProperties
  <2> QED
    BY <1>1, <1>3, <1>5, <2>1 DEF WithoutPrevious, IInv, TypeOK
<1>6. CASE c.row # 0
  <2>1. /\ c.row \in DOMAIN rows /\ rows[c.row].from <= c.date - 1 /\ rows[c.row].from \in Date
        /\ c.date - 1 \in Date
    BY <1>2, <1>4, <1>6 DEF MayInsert, RangeHolds, AssignmentRow
  <2> DEFINE s == CloseRow(c.row, c.date - 1)
  <2>2. s = WithoutPrevious(c)
    BY <1>6 DEF WithoutPrevious
  <2>3. c.date - 1 \in 0 .. MaxDate /\ c.date - 1 # 0
    BY <2>1
  <2>4. /\ s \in Seq(AssignmentRow) /\ Len(s) = Len(rows) /\ DOMAIN s = DOMAIN rows
        /\ \A j \in DOMAIN rows :
              /\ s[j].employee = rows[j].employee
              /\ s[j].from = rows[j].from
              /\ s[j].kind = rows[j].kind
              /\ s[j].reportsTo = rows[j].reportsTo
              /\ s[j].to = IF j = c.row THEN c.date - 1 ELSE rows[j].to
    BY <1>1, <2>1, <2>3, ClosedRows
  <2> HIDE DEF s
  <2>5. \A j \in DOMAIN rows : rows[j].reportsTo < j /\ (rows[j].to # 0 => rows[j].from <= rows[j].to)
    BY DEF IInv, TypeOK
  <2> QED
    BY <1>3, <2>1, <2>2, <2>3, <2>4, <2>5
<1> QED
  BY <1>5, <1>6

LEMMA CommitAssignmentKeeps ==
    ASSUME IInv, NEW r \in Request, CommitAssignment(r)
    PROVE  IInv'
<1> DEFINE c == calls[r]
           n == [Idle EXCEPT !.op = "status", !.employee = c.employee, !.status = c.status]
           s == WithoutPrevious(c)
           row == Row(c.employee, c.date, c.kind, c.reportsTo)
           k == Len(rows) + 1
<1>1. /\ c \in Call /\ c.op = "write" /\ c.employee \in Employee /\ employees[c.employee] # "ABSENT"
      /\ CallHolds(c, employees, rows) /\ MayInsert(c) /\ Len(rows) < MaxRows
      /\ rows' = Append(s, row) /\ calls' = [calls EXCEPT ![r] = n]
      /\ UNCHANGED employees
  BY DEF CommitAssignment, IInv, TypeOK, CallHolds
<1>2. c.status \in Status /\ c.date \in Date /\ c.reportsTo \in {0} \cup DOMAIN rows
  BY <1>1 DEF CallHolds
<1>3. n \in Call /\ n.op = "status" /\ n.employee = c.employee /\ n.status = c.status
  BY <1>1, <1>2, CallFields DEF Idle
<1>4. Len(rows) \in Nat /\ DOMAIN rows = 1 .. Len(rows)
  BY LenProperties DEF IInv, TypeOK
<1>5. /\ row \in AssignmentRow /\ row.employee = c.employee /\ row.reportsTo < k /\ row.to = 0
      /\ row.kind = c.kind
  BY <1>1, <1>2, <1>4 DEF Row, AssignmentRow, Call
<1>6. /\ s \in Seq(AssignmentRow) /\ Len(s) = Len(rows) /\ DOMAIN s = DOMAIN rows
      /\ \A j \in DOMAIN rows :
            /\ s[j].employee = rows[j].employee
            /\ s[j].reportsTo < j
            /\ s[j].to # 0 => s[j].from <= s[j].to
            /\ s[j].kind = rows[j].kind
            /\ s[j].to = 0 => rows[j].to = 0
            /\ ~(c.kind = "PRIMARY" /\ s[j].employee = c.employee /\ s[j].kind = "PRIMARY" /\ s[j].to = 0)
  BY <1>1, PreviousClosed
<1> HIDE DEF n, s, row
<1>7. /\ rows' \in Seq(AssignmentRow) /\ Len(rows') = k
      /\ DOMAIN rows' = DOMAIN rows \cup {k} /\ k \notin DOMAIN rows
      /\ \A j \in DOMAIN rows : rows'[j] = s[j]
      /\ rows'[k] = row
  BY <1>1, <1>4, <1>5, <1>6, AppendedRows
<1>8. calls' \in [Request -> Call] /\ \A q \in Request : calls'[q] = IF q = r THEN n ELSE calls[q]
  BY <1>1, <1>3, OtherCalls DEF IInv, TypeOK
<1>9. TypeOK'
  <2>1. \A i \in DOMAIN rows' : rows'[i].reportsTo < i /\ (rows'[i].to # 0 => rows'[i].from <= rows'[i].to)
    BY <1>5, <1>6, <1>7
  <2> QED
    BY <2>1, <1>1, <1>7, <1>8 DEF IInv, TypeOK
<1>10. \A q \in Request : CallHolds(calls'[q], employees', rows')
  <2>1. CallHolds(n, employees', rows')
    BY <1>1, <1>2, <1>3 DEF CallHolds
  <2>2. \A q \in Request \ {r} : CallHolds(calls[q], employees', rows')
    BY <1>1, <1>7 DEF IInv, CallHolds
  <2> QED
    BY <1>8, <2>1, <2>2
<1>11. OneOpenPrimary'
  <2>1. ASSUME NEW i \in DOMAIN rows', NEW j \in DOMAIN rows',
               rows'[i].employee = rows'[j].employee, rows'[i].kind = "PRIMARY", rows'[j].kind = "PRIMARY",
               rows'[i].to = 0, rows'[j].to = 0
        PROVE  i = j
    BY <2>1, <1>5, <1>6, <1>7 DEF IInv, OneOpenPrimary
  <2>2. ASSUME NEW f \in Employee
        PROVE  employees'[f] # "ABSENT" <=> \E i \in DOMAIN rows' : rows'[i].employee = f
    BY SMTT(30), <1>1, <1>5, <1>6, <1>7 DEF IInv, OneOpenPrimary
  <2> QED
    BY <2>1, <2>2 DEF OneOpenPrimary
<1> QED
  BY <1>1, <1>4, <1>7, <1>9, <1>10, <1>11 DEF IInv

LEMMA SetStatusKeeps ==
    ASSUME IInv, NEW r \in Request, SetStatus(r)
    PROVE  IInv'
<1> DEFINE c == calls[r]
<1>1. c \in Call /\ c.op = "status" /\ c.employee \in Employee /\ employees[c.employee] # "ABSENT" /\ c.status \in Status
  BY DEF SetStatus, IInv, TypeOK, CallHolds
<1>2. /\ employees' \in [Employee -> Status \cup {"ABSENT"}]
      /\ \A f \in Employee : employees'[f] # "ABSENT" <=> employees[f] # "ABSENT"
      /\ UNCHANGED rows
  BY <1>1 DEF SetStatus, IInv, TypeOK
<1>3. calls' \in [Request -> Call] /\ \A q \in Request : calls'[q] = IF q = r THEN Idle ELSE calls[q]
  BY IdleIsCall, OtherCalls DEF SetStatus, IInv, TypeOK
<1>4. TypeOK'
  BY <1>2, <1>3 DEF IInv, TypeOK
<1>5. \A q \in Request : CallHolds(calls'[q], employees', rows')
  <2>1. CallHolds(Idle, employees', rows')
    BY DEF CallHolds, Idle
  <2>2. \A q \in Request : CallHolds(calls[q], employees', rows')
    BY <1>2 DEF IInv, CallHolds
  <2> QED
    BY <1>3, <2>1, <2>2
<1> QED
  BY <1>2, <1>4, <1>5 DEF IInv, OneOpenPrimary

\* Each step of the service keeps the invariant.
LEMMA NextKeeps == IInv /\ [Next]_vars => IInv'
<1> SUFFICES ASSUME IInv, [Next]_vars PROVE IInv'
  OBVIOUS
<1>1. ASSUME NEW e \in Employee, NEW new \in NewEmployee, CreateEmployee(e, new) PROVE IInv'
  BY <1>1, CreateEmployeeKeeps
<1>2. ASSUME NEW r \in Request, NEW e \in Employee, NEW new \in NewAssignment,
             CheckAssignment(r, e, new)
      PROVE  IInv'
  <2> DEFINE p == IF new.kind = "PRIMARY" THEN CurrentPrimary(e) ELSE 0
             n == [Idle EXCEPT !.op = "write", !.employee = e, !.date = new.date,
                               !.kind = new.kind, !.status = new.status,
                               !.reportsTo = new.reportsTo, !.row = p]
  <2>1. p \in {0} \cup DOMAIN rows /\ (new.kind # "PRIMARY" => p = 0)
    BY PrimaryIsRow DEF IInv
  <2>2. DOMAIN rows \subseteq 0 .. MaxRows
    BY LenProperties DEF IInv, TypeOK
  <2>3. /\ calls' = [calls EXCEPT ![r] = n] /\ UNCHANGED <<employees, rows>>
        /\ employees[e] # "ABSENT" /\ new.reportsTo \in {0} \cup DOMAIN rows
    BY <1>2 DEF CheckAssignment
  <2> HIDE DEF p
  <2>4. /\ p \in 0 .. MaxRows /\ new.reportsTo \in 0 .. MaxRows /\ new.date \in Date
        /\ new.date \in 0 .. MaxDate /\ new.kind \in Kind /\ new.status \in Status
    BY <2>1, <2>2, <2>3 DEF NewAssignment
  <2>5. n \in Call
    BY ZenonT(60), <2>4, CallFields
  <2>6. /\ n.op = "write" /\ n.employee = e /\ n.date = new.date /\ n.kind = new.kind
        /\ n.status = new.status /\ n.reportsTo = new.reportsTo /\ n.row = p
    BY DEF Idle
  <2> HIDE DEF n
  <2>7. CallHolds(n, employees, rows)
    BY <2>1, <2>3, <2>4, <2>6 DEF CallHolds
  <2> QED
    BY <2>3, <2>5, <2>7, CallMoves
<1>3. ASSUME NEW r \in Request, NEW e \in Employee, NEW end \in End, BeginEnd(r, e, end)
      PROVE  IInv'
  <2> DEFINE n == [Idle EXCEPT !.op = "end", !.employee = e, !.date = end.date,
                               !.status = end.status, !.row = CurrentPrimary(e)]
  <2>1. CurrentPrimary(e) \in DOMAIN rows
    BY <1>3, PrimaryIsRow DEF IInv, BeginEnd
  <2>2. DOMAIN rows \subseteq 0 .. MaxRows
    BY LenProperties DEF IInv, TypeOK
  <2>3. employees[e] # "ABSENT"
    BY <1>3 DEF BeginEnd, CurrentPrimary, OpenPrimary, IInv, OneOpenPrimary
  <2>4. n \in Call
    <3>1. end.status \in Status /\ end.date \in 0 .. MaxDate /\ CurrentPrimary(e) \in 0 .. MaxRows
      BY <2>1, <2>2 DEF End
    <3> QED
      BY <3>1, CallFields
  <2>5. /\ n.op = "end" /\ n.employee = e /\ n.date = end.date /\ n.status = end.status
        /\ n.row = CurrentPrimary(e)
    BY DEF Idle
  <2>6. calls' = [calls EXCEPT ![r] = n] /\ UNCHANGED <<employees, rows>>
    BY <1>3 DEF BeginEnd
  <2> HIDE DEF n
  <2>7. CallHolds(n, employees, rows)
    BY <2>1, <2>3, <2>5 DEF CallHolds, End
  <2> QED
    BY <2>4, <2>6, <2>7, CallMoves
<1>4. ASSUME NEW r \in Request, GiveUp(r) PROVE IInv'
  <2>1. CallHolds(Idle, employees, rows)
    BY DEF CallHolds, Idle
  <2> QED
    BY <1>4, <2>1, IdleIsCall, CallMoves DEF GiveUp
<1>5. CASE UNCHANGED vars
  <2>1. TypeOK'
    BY <1>5 DEF vars, IInv, TypeOK
  <2>2. \A r \in Request : CallHolds(calls'[r], employees', rows')
    BY <1>5 DEF vars, IInv, CallHolds
  <2> QED
    BY <1>5, <2>1, <2>2 DEF vars, IInv, OneOpenPrimary
<1> QED
  BY <1>1, <1>2, <1>3, <1>4, <1>5, CommitAssignmentKeeps, SetStatusKeeps,
     CloseAssignmentKeeps DEF Next

LEMMA Invariant == Spec => []IInv
BY InitHolds, NextKeeps, PTL DEF Spec

-----------------------------------------------------------------------------
\* Reporting lines.  Superior is a recursive function; that it exists, and
\* that it is what its equation says, is an induction on the hops, which is
\* made with the least element of a set of numbers.

LEMMA LeastNumber ==
    ASSUME NEW S \in SUBSET Nat, S # {}
    PROVE  \E n \in S : \A m \in S : n <= m
<1> DEFINE R == OpToRel(<, Nat)
<1>1. IsWellFoundedOn(R, Nat)
  BY NatLessThanWellFounded
<1>2. \A m, n \in Nat : m < n => <<m, n>> \in R
  BY DEF OpToRel
<1> HIDE DEF R
<1>3. PICK n \in S : \A m \in S : <<m, n>> \notin R
  BY <1>1, WFMin, Zenon
<1>4. ASSUME NEW m \in S PROVE n <= m
  <2>1. m \in Nat /\ n \in Nat
    BY <1>3
  <2>2. ~ (m < n)
    BY <1>2, <1>3, <2>1
  <2> QED
    BY <2>1, <2>2
<1> QED
  BY <1>3, <1>4

\* A set that has 0 and, up to k, the successor of each number it has.
LEMMA UpTo ==
    ASSUME NEW S, NEW k \in Nat, 0 \in S, \A n \in 1 .. k : n - 1 \in S => n \in S
    PROVE  0 .. k \subseteq S
<1> DEFINE T == {n \in 0 .. k : n \notin S}
<1> SUFFICES ASSUME T # {} PROVE FALSE
  OBVIOUS
<1>1. T \in SUBSET Nat
  OBVIOUS
<1>2. PICK n \in T : \A m \in T : n <= m
  <2> HIDE DEF T
  <2> QED
    BY <1>1, LeastNumber
<1>3. n \in 1 .. k /\ n - 1 \in 0 .. k /\ ~ (n <= n - 1)
  BY <1>2
<1>4. n - 1 \in S
  BY <1>2, <1>3
<1> QED
  BY <1>2, <1>3, <1>4

\* Superior's equation, up to a number of hops, for a table rs.
Climbs(g, hops, i, rs) ==
    g = [n \in 0 .. hops |->
            IF n = 0 THEN i ELSE IF g[n - 1] = 0 THEN 0 ELSE rs[g[n - 1]].reportsTo]

Line(i, rs) == CHOOSE g : Climbs(g, MaxHops, i, rs)

LEMMA ClimbExists ==
    ASSUME NEW i, NEW rs, NEW hops \in Nat
    PROVE  \E g : Climbs(g, hops, i, rs)
<1> DEFINE S == {n \in Nat : \E g : Climbs(g, n, i, rs)}
<1>1. 0 \in S
  <2>1. Climbs([m \in 0 .. 0 |-> i], 0, i, rs)
    BY DEF Climbs
  <2> QED
    BY <2>1
<1>2. ASSUME NEW n \in 1 .. hops, n - 1 \in S
      PROVE  n \in S
  <2>1. PICK g : Climbs(g, n - 1, i, rs)
    BY <1>2
  <2> DEFINE next == IF g[n - 1] = 0 THEN 0 ELSE rs[g[n - 1]].reportsTo
             h == [m \in 0 .. n |-> IF m = n THEN next ELSE g[m]]
  <2>2. \A m \in 0 .. n - 1 :
           g[m] = IF m = 0 THEN i ELSE IF g[m - 1] = 0 THEN 0 ELSE rs[g[m - 1]].reportsTo
    BY <2>1, Zenon DEF Climbs
  <2>3. ASSUME NEW m \in 0 .. n
        PROVE  h[m] = IF m = 0 THEN i ELSE IF h[m - 1] = 0 THEN 0 ELSE rs[h[m - 1]].reportsTo
    <3>1. CASE m = n
      BY <1>2, <3>1
    <3>2. CASE m # n
      <4>1. m \in 0 .. n - 1 /\ (m # 0 => m - 1 \in 0 .. n - 1 /\ m - 1 # n)
        BY <1>2, <3>2
      <4> QED
        BY <4>1, <2>2, <3>2
    <3> QED
      BY <3>1, <3>2
  <2>4. Climbs(h, n, i, rs)
    <3> HIDE DEF next
    <3>1. h = [m \in 0 .. n |-> h[m]]
      OBVIOUS
    <3> HIDE DEF h
    <3> QED
      BY <2>3, <3>1 DEF Climbs
  <2> QED
    BY <1>2, <2>4
<1> HIDE DEF S
<1>3. hops \in S
  BY <1>1, <1>2, UpTo
<1> QED
  BY <1>3 DEF S

LEMMA LineSteps ==
    ASSUME NEW i, NEW rs
    PROVE  /\ Line(i, rs)[0] = i
           /\ \A n \in 1 .. MaxHops :
                 Line(i, rs)[n] = IF Line(i, rs)[n - 1] = 0 THEN 0
                                  ELSE rs[Line(i, rs)[n - 1]].reportsTo
<1>1. Climbs(Line(i, rs), MaxHops, i, rs)
  <2>1. \E g : Climbs(g, MaxHops, i, rs)
    BY ClimbExists
  <2> QED
    BY <2>1, Zenon DEF Line
<1> DEFINE g == Line(i, rs)
<1>2. \A n \in 0 .. MaxHops :
         g[n] = IF n = 0 THEN i ELSE IF g[n - 1] = 0 THEN 0 ELSE rs[g[n - 1]].reportsTo
  BY <1>1, Zenon DEF Climbs
<1> HIDE DEF g
<1>3. /\ g[0] = i
      /\ \A n \in 1 .. MaxHops : g[n] = IF g[n - 1] = 0 THEN 0 ELSE rs[g[n - 1]].reportsTo
  BY <1>2
<1> QED
  BY <1>3 DEF g

LEMMA SuperiorIsLine ==
    ASSUME NEW i
    PROVE  Superior(i) = Line(i, rows) /\ Superior(i)' = Line(i, rows')
BY Zenon DEF Superior, Line, Climbs

\* What every write leaves of the rows there are.
Grows(rs, ts) ==
    /\ DOMAIN rs \subseteq DOMAIN ts
    /\ \A j \in DOMAIN rs :
          /\ ts[j].employee = rs[j].employee
          /\ ts[j].reportsTo = rs[j].reportsTo

Rooted(rs) == \A j \in DOMAIN rs : rs[j].reportsTo \in {0} \cup DOMAIN rs

\* So the line above a row is the same for ever.
LEMMA LinesKept ==
    ASSUME NEW rs, NEW ts, Grows(rs, ts), Rooted(rs), NEW i \in {0} \cup DOMAIN rs
    PROVE  \A n \in 0 .. MaxHops :
              /\ Line(i, rs)[n] \in {0} \cup DOMAIN rs
              /\ Line(i, ts)[n] = Line(i, rs)[n]
<1> DEFINE S == {n \in Nat : /\ Line(i, rs)[n] \in {0} \cup DOMAIN rs
                             /\ Line(i, ts)[n] = Line(i, rs)[n]}
<1>1. 0 \in S
  BY LineSteps
<1>2. ASSUME NEW n \in 1 .. MaxHops, n - 1 \in S
      PROVE  n \in S
  <2>1. /\ Line(i, rs)[n - 1] \in {0} \cup DOMAIN rs
        /\ Line(i, ts)[n - 1] = Line(i, rs)[n - 1]
    BY <1>2
  <2>2. /\ Line(i, rs)[n] = IF Line(i, rs)[n - 1] = 0 THEN 0 ELSE rs[Line(i, rs)[n - 1]].reportsTo
        /\ Line(i, ts)[n] = IF Line(i, ts)[n - 1] = 0 THEN 0 ELSE ts[Line(i, ts)[n - 1]].reportsTo
    BY LineSteps
  <2> QED
    BY <2>1, <2>2 DEF Grows, Rooted
<1> HIDE DEF S
<1>3. 0 .. MaxHops \subseteq S
  BY <1>1, <1>2, UpTo
<1> QED
  BY <1>3 DEF S

\* The line above a row is that of the row it reports to, one hop later.
LEMMA LineAbove ==
    ASSUME NEW rs, NEW i, i # 0
    PROVE  \A n \in 1 .. MaxHops : Line(i, rs)[n] = Line(rs[i].reportsTo, rs)[n - 1]
<1> DEFINE S == {n \in Nat : n < MaxHops => Line(i, rs)[n + 1] = Line(rs[i].reportsTo, rs)[n]}
<1>1. 0 \in S
  <2>1. 1 \in 1 .. MaxHops /\ 1 - 1 = 0
    OBVIOUS
  <2>2. Line(i, rs)[1] = IF Line(i, rs)[0] = 0 THEN 0 ELSE rs[Line(i, rs)[0]].reportsTo
    BY <2>1, LineSteps
  <2>3. Line(i, rs)[0] = i /\ Line(rs[i].reportsTo, rs)[0] = rs[i].reportsTo
    BY LineSteps
  <2> QED
    BY <2>2, <2>3
<1>2. ASSUME NEW n \in 1 .. MaxHops, n - 1 \in S
      PROVE  n \in S
  <2> SUFFICES ASSUME n < MaxHops
               PROVE  Line(i, rs)[n + 1] = Line(rs[i].reportsTo, rs)[n]
    OBVIOUS
  <2>1. Line(i, rs)[n] = Line(rs[i].reportsTo, rs)[n - 1]
    BY <1>2
  <2>2. n + 1 \in 1 .. MaxHops /\ (n + 1) - 1 = n
    OBVIOUS
  <2>3. Line(i, rs)[n + 1] = IF Line(i, rs)[n] = 0 THEN 0 ELSE rs[Line(i, rs)[n]].reportsTo
    BY <2>2, LineSteps
  <2>4. Line(rs[i].reportsTo, rs)[n] =
           IF Line(rs[i].reportsTo, rs)[n - 1] = 0 THEN 0
           ELSE rs[Line(rs[i].reportsTo, rs)[n - 1]].reportsTo
    BY LineSteps
  <2> QED
    BY <2>1, <2>3, <2>4
<1> HIDE DEF S
<1>3. 0 .. MaxHops \subseteq S
  BY <1>1, <1>2, UpTo
<1>4. ASSUME NEW n \in 1 .. MaxHops
      PROVE  Line(i, rs)[n] = Line(rs[i].reportsTo, rs)[n - 1]
  <2>1. n - 1 \in S /\ n - 1 < MaxHops /\ (n - 1) + 1 = n
    BY <1>3
  <2> QED
    BY <2>1 DEF S
<1> QED
  BY <1>4

\* No line meets the employee of the row it starts from, nor does the line a
\* request has looked up and is about to insert below.  The lock has no part in
\* it: the rows' superiors never change.
Passes(e, i, hops, rs) ==
    \A n \in hops : Line(i, rs)[n] # 0 => rs[Line(i, rs)[n]].employee # e

PassOnce(rs) == \A i \in DOMAIN rs : Passes(rs[i].employee, i, 1 .. MaxHops, rs)

StillClear(c, rs) ==
    c.op = "write" /\ c.reportsTo # 0 =>
       /\ c.reportsTo \in DOMAIN rs
       /\ Passes(c.employee, c.reportsTo, 0 .. MaxHops - 1, rs)

LInv ==
    /\ IInv
    /\ PassOnce(rows)
    /\ \A r \in Request : StillClear(calls[r], rows)

LEMMA RowsAreRooted ==
    ASSUME IInv
    PROVE  Rooted(rows) /\ 0 \notin DOMAIN rows
<1>1. rows \in Seq(AssignmentRow) /\ \A i \in DOMAIN rows : rows[i].reportsTo < i
  BY DEF IInv, TypeOK
<1>2. Len(rows) \in Nat /\ DOMAIN rows = 1 .. Len(rows) /\ \A i \in DOMAIN rows : rows[i] \in AssignmentRow
  BY <1>1, LenProperties, ElementOfSeq
<1>3. \A i \in DOMAIN rows : rows[i].reportsTo \in 0 .. MaxRows
  BY <1>2 DEF AssignmentRow
<1> QED
  BY <1>1, <1>2, <1>3 DEF Rooted

LEMMA PassesKept ==
    ASSUME NEW rs, NEW ts, Grows(rs, ts), Rooted(rs), NEW i \in {0} \cup DOMAIN rs,
           NEW hops, hops \subseteq 0 .. MaxHops, NEW e, Passes(e, i, hops, rs)
    PROVE  Passes(e, i, hops, ts)
<1> SUFFICES ASSUME NEW n \in hops, Line(i, ts)[n] # 0
             PROVE  ts[Line(i, ts)[n]].employee # e
  BY DEF Passes
<1>1. Line(i, rs)[n] \in {0} \cup DOMAIN rs /\ Line(i, ts)[n] = Line(i, rs)[n]
  BY LinesKept
<1> QED
  BY <1>1 DEF Grows, Passes

\* What is inserted below a row whose line avoids an employee avoids them too.
LEMMA PassesBelow ==
    ASSUME NEW rs, NEW i, i # 0, NEW e,
           rs[i].reportsTo # 0 => Passes(e, rs[i].reportsTo, 0 .. MaxHops - 1, rs)
    PROVE  Passes(e, i, 1 .. MaxHops, rs)
<1> SUFFICES ASSUME NEW n \in 1 .. MaxHops, Line(i, rs)[n] # 0
             PROVE  rs[Line(i, rs)[n]].employee # e
  BY DEF Passes
<1>1. Line(i, rs)[n] = Line(rs[i].reportsTo, rs)[n - 1] /\ n - 1 \in 0 .. MaxHops - 1
  BY LineAbove
<1>2. rs[i].reportsTo # 0
  <2> SUFFICES ASSUME rs[i].reportsTo = 0 PROVE FALSE
    OBVIOUS
  <2> DEFINE S == {m \in Nat : Line(0, rs)[m] = 0}
  <2>1. 0 \in S
    BY LineSteps
  <2>2. \A m \in 1 .. MaxHops : m - 1 \in S => m \in S
    BY LineSteps
  <2> HIDE DEF S
  <2>3. n - 1 \in S
    BY <2>1, <2>2, UpTo
  <2> QED
    BY <1>1, <2>3 DEF S
<1> QED
  BY <1>1, <1>2 DEF Passes

\* A step that keeps the rows there are, and adds only what passes.
LEMMA LinesHoldOn ==
    ASSUME LInv, IInv', Grows(rows, rows'),
           \A r \in Request : StillClear(calls'[r], rows),
           \A i \in DOMAIN rows' \ DOMAIN rows :
              Passes(rows'[i].employee, i, 1 .. MaxHops, rows')
    PROVE  LInv'
<1>1. Rooted(rows) /\ 1 .. MaxHops \subseteq 0 .. MaxHops /\ 0 .. MaxHops - 1 \subseteq 0 .. MaxHops
  BY RowsAreRooted DEF LInv
<1>2. ASSUME NEW i \in DOMAIN rows'
      PROVE  Passes(rows'[i].employee, i, 1 .. MaxHops, rows')
  <2>1. CASE i \in DOMAIN rows
    <3>1. Passes(rows[i].employee, i, 1 .. MaxHops, rows)
      BY <2>1 DEF LInv, PassOnce
    <3>2. Passes(rows[i].employee, i, 1 .. MaxHops, rows')
      <4> DEFINE hops == 1 .. MaxHops
                 e == rows[i].employee
      <4>1. hops \subseteq 0 .. MaxHops /\ Passes(e, i, hops, rows)
        BY <1>1, <3>1
      <4> HIDE DEF hops, e
      <4>2. Passes(e, i, hops, rows')
        BY <1>1, <2>1, <4>1, PassesKept
      <4> QED
        BY <4>2 DEF hops, e
    <3> QED
      BY <2>1, <3>2 DEF Grows
  <2> QED
    BY <2>1
<1>3. ASSUME NEW r \in Request
      PROVE  StillClear(calls'[r], rows')
  <2> SUFFICES ASSUME calls'[r].op = "write", calls'[r].reportsTo # 0
               PROVE  /\ calls'[r].reportsTo \in DOMAIN rows'
                      /\ Passes(calls'[r].employee, calls'[r].reportsTo, 0 .. MaxHops - 1, rows')
    BY DEF StillClear
  <2>1. /\ calls'[r].reportsTo \in DOMAIN rows
        /\ Passes(calls'[r].employee, calls'[r].reportsTo, 0 .. MaxHops - 1, rows)
    BY DEF StillClear
  <2> QED
    BY <1>1, <2>1, PassesKept DEF Grows
<1> QED
  BY <1>2, <1>3 DEF LInv, PassOnce

\* A call that moves on to anything but a write.
LEMMA CallsClear ==
    ASSUME LInv, NEW r \in Request, NEW c, c.op # "write", calls' = [calls EXCEPT ![r] = c]
    PROVE  \A q \in Request : StillClear(calls'[q], rows)
BY DEF LInv, IInv, TypeOK, StillClear

LEMMA CommitLines ==
    ASSUME LInv, IInv', NEW r \in Request, CommitAssignment(r)
    PROVE  LInv'
<1> DEFINE c == calls[r]
           s == WithoutPrevious(c)
           row == Row(c.employee, c.date, c.kind, c.reportsTo)
           n == [Idle EXCEPT !.op = "status", !.employee = c.employee, !.status = c.status]
           k == Len(rows) + 1
<1>1. /\ c \in Call /\ c.op = "write" /\ c.employee \in Employee /\ MayInsert(c)
      /\ CallHolds(c, employees, rows) /\ c.date \in Date /\ c.reportsTo \in {0} \cup DOMAIN rows
      /\ rows' = Append(s, row) /\ calls' = [calls EXCEPT ![r] = n]
  BY DEF CommitAssignment, LInv, IInv, TypeOK, CallHolds
<1>2. /\ s \in Seq(AssignmentRow) /\ Len(s) = Len(rows) /\ DOMAIN s = DOMAIN rows
      /\ \A j \in DOMAIN rows :
            s[j].employee = rows[j].employee /\ s[j].reportsTo = rows[j].reportsTo
  BY <1>1, PreviousClosed DEF LInv
<1>3. row \in AssignmentRow /\ row.employee = c.employee /\ row.reportsTo = c.reportsTo
  BY <1>1 DEF Row, AssignmentRow, Call
<1>4. n.op # "write"
  BY DEF Idle
<1> HIDE DEF s, row, n
<1>5. /\ Len(rows) \in Nat /\ k # 0
      /\ DOMAIN rows' = DOMAIN rows \cup {k}
      /\ \A j \in DOMAIN rows : rows'[j] = s[j]
      /\ rows'[k] = row
  BY <1>1, <1>2, <1>3, AppendedRows, LenProperties DEF LInv, IInv, TypeOK
<1>6. Grows(rows, rows')
  BY <1>2, <1>5 DEF Grows
<1>7. Passes(c.employee, k, 1 .. MaxHops, rows')
  <2>1. c.reportsTo # 0 => Passes(c.employee, c.reportsTo, 0 .. MaxHops - 1, rows)
    BY <1>1 DEF LInv, StillClear
  <2>2. 0 .. MaxHops - 1 \subseteq 0 .. MaxHops /\ Rooted(rows)
    BY RowsAreRooted DEF LInv
  <2>3. ASSUME c.reportsTo # 0
        PROVE  Passes(c.employee, c.reportsTo, 0 .. MaxHops - 1, rows')
    <3> DEFINE hops == 0 .. MaxHops - 1
               e == c.employee
               i == c.reportsTo
    <3>1. hops \subseteq 0 .. MaxHops /\ Passes(e, i, hops, rows) /\ i \in {0} \cup DOMAIN rows
      BY <1>1, <2>1, <2>2, <2>3
    <3> HIDE DEF hops, e, i
    <3>2. Passes(e, i, hops, rows')
      BY <1>6, <2>2, <3>1, PassesKept
    <3> QED
      BY <3>2 DEF hops, e, i
  <2> QED
    BY <1>3, <1>5, <2>3, PassesBelow
<1>8. \A q \in Request : StillClear(calls'[q], rows)
  BY <1>1, <1>4, CallsClear
<1> QED
  BY <1>3, <1>5, <1>6, <1>7, <1>8, LinesHoldOn

LEMMA CreateLines ==
    ASSUME LInv, IInv', NEW e \in Employee, NEW new \in NewEmployee, CreateEmployee(e, new)
    PROVE  LInv'
<1> DEFINE row == Row(e, new.date, "PRIMARY", 0)
           k == Len(rows) + 1
<1>1. row \in AssignmentRow /\ row.employee = e /\ row.reportsTo = 0
  <2>1. new.date \in Date
    BY Zenon DEF NewEmployee
  <2> QED
    BY <2>1 DEF Row, AssignmentRow
<1> HIDE DEF row
<1>2. /\ Len(rows) \in Nat /\ k # 0
      /\ DOMAIN rows' = DOMAIN rows \cup {k}
      /\ \A j \in DOMAIN rows : rows'[j] = rows[j]
      /\ rows'[k] = row
  BY <1>1, AppendedRows, LenProperties DEF CreateEmployee, LInv, IInv, TypeOK, row
<1>3. Grows(rows, rows')
  BY <1>2 DEF Grows
<1>4. Passes(e, k, 1 .. MaxHops, rows')
  BY <1>1, <1>2, PassesBelow
<1>5. \A q \in Request : StillClear(calls'[q], rows)
  BY DEF CreateEmployee, LInv
<1> QED
  BY <1>1, <1>2, <1>3, <1>4, <1>5, LinesHoldOn

LEMMA CheckLines ==
    ASSUME LInv, IInv', NEW r \in Request, NEW e \in Employee, NEW new \in NewAssignment,
           CheckAssignment(r, e, new)
    PROVE  LInv'
<1> DEFINE n == [Idle EXCEPT !.op = "write", !.employee = e, !.date = new.date,
                             !.kind = new.kind, !.status = new.status,
                             !.reportsTo = new.reportsTo,
                             !.row = IF new.kind = "PRIMARY" THEN CurrentPrimary(e) ELSE 0]
<1>1. calls' = [calls EXCEPT ![r] = n] /\ UNCHANGED rows
  BY DEF CheckAssignment
<1>2. n.employee = e /\ n.reportsTo = new.reportsTo
  BY DEF Idle
<1> HIDE DEF n
<1>3. StillClear(n, rows)
  <2> SUFFICES ASSUME new.reportsTo # 0
               PROVE  /\ new.reportsTo \in DOMAIN rows
                      /\ Passes(e, new.reportsTo, 0 .. MaxHops - 1, rows)
    BY <1>2 DEF StillClear
  <2>1. new.reportsTo \in DOMAIN rows /\ ~ReportingChainReachesEmployee(new.reportsTo, e)
    BY DEF CheckAssignment, MayReportTo
  <2>2. Superior(new.reportsTo) = Line(new.reportsTo, rows)
    BY SuperiorIsLine
  <2> QED
    BY <2>1, <2>2 DEF ReportingChainReachesEmployee, Passes
<1>4. \A q \in Request : StillClear(calls'[q], rows)
  BY <1>1, <1>3 DEF LInv, IInv, TypeOK
<1>5. Grows(rows, rows') /\ DOMAIN rows' \ DOMAIN rows = {}
  BY <1>1 DEF Grows
<1> QED
  BY <1>4, <1>5, LinesHoldOn

LEMMA CloseLines ==
    ASSUME LInv, IInv', NEW r \in Request, CloseAssignment(r)
    PROVE  LInv'
<1> DEFINE c == calls[r]
           n == [Idle EXCEPT !.op = "status", !.employee = c.employee, !.status = c.status]
<1>1. /\ c.op = "end" /\ c.date \in Date /\ c.row \in DOMAIN rows /\ rows[c.row].from <= c.date
      /\ rows' = CloseRow(c.row, c.date) /\ calls' = [calls EXCEPT ![r] = n]
  BY DEF CloseAssignment, LInv, IInv, CallHolds
<1>2. Grows(rows, rows') /\ DOMAIN rows' \ DOMAIN rows = {}
  BY <1>1, CloseKeeps DEF LInv, Grows
<1>3. n.op # "write"
  BY DEF Idle
<1> HIDE DEF n
<1> QED
  BY <1>1, <1>2, <1>3, CallsClear, LinesHoldOn

LEMMA NextLines == LInv /\ [Next]_vars => LInv'
<1> SUFFICES ASSUME LInv, [Next]_vars PROVE LInv'
  OBVIOUS
<1>1. IInv'
  BY NextKeeps DEF LInv
<1>2. ASSUME NEW r \in Request, NEW c, c.op # "write",
             calls' = [calls EXCEPT ![r] = c], UNCHANGED rows
      PROVE  LInv'
  <2>1. Grows(rows, rows') /\ DOMAIN rows' \ DOMAIN rows = {}
    BY <1>2 DEF Grows
  <2> QED
    BY <1>1, <1>2, <2>1, CallsClear, LinesHoldOn
<1>3. ASSUME NEW r \in Request, NEW e \in Employee, NEW end \in End, BeginEnd(r, e, end)
      PROVE  LInv'
  <2> DEFINE n == [Idle EXCEPT !.op = "end", !.employee = e, !.date = end.date,
                               !.status = end.status, !.row = CurrentPrimary(e)]
  <2>1. n.op # "write"
    BY DEF Idle
  <2>2. calls' = [calls EXCEPT ![r] = n] /\ UNCHANGED rows
    BY <1>3 DEF BeginEnd
  <2> HIDE DEF n
  <2> QED
    BY <1>2, <2>1, <2>2
<1>4. ASSUME NEW r \in Request, SetStatus(r) \/ GiveUp(r)
      PROVE  LInv'
  <2>1. Idle.op # "write"
    BY DEF Idle
  <2>2. calls' = [calls EXCEPT ![r] = Idle] /\ UNCHANGED rows
    BY <1>4 DEF SetStatus, GiveUp
  <2> QED
    BY <1>2, <2>1, <2>2
<1>5. CASE UNCHANGED vars
  BY <1>1, <1>5 DEF vars, LInv, PassOnce
<1> QED
  BY <1>1, <1>3, <1>4, <1>5, CommitLines, CreateLines, CheckLines, CloseLines DEF Next

-----------------------------------------------------------------------------
\* The tables keep their shape, references go to earlier rows, and no period is
\* empty, for any number of employees, requests and rows.
THEOREM OrganisationTypes == Spec => []TypeOK
<1>1. IInv => TypeOK
  BY DEF IInv
<1> QED
  BY <1>1, Invariant, PTL

\* However transitions, ends and hires of one employee overlap: at most one
\* open primary assignment, and no employee without an assignment.
THEOREM OneOpenPrimaryHolds == Spec => []OneOpenPrimary
<1>1. IInv => OneOpenPrimary
  BY DEF IInv
<1> QED
  BY <1>1, Invariant, PTL

\* reportingChainReachesEmployee looks up a line before the INSERT that relies
\* on it, and only some writers take the lock: still, as far up as the code
\* looks, no employee is met again above one of their own assignments.
THEOREM LinesPassEachEmployeeOnceHolds == Spec => []LinesPassEachEmployeeOnce
<1>1. Init => LInv
  <2> SUFFICES ASSUME Init PROVE LInv
    OBVIOUS
  <2>1. DOMAIN rows = {}
    BY EmptySeq DEF Init
  <2>2. \A r \in Request : StillClear(calls[r], rows)
    BY DEF Init, StillClear, Idle
  <2> QED
    BY <2>1, <2>2, InitHolds DEF LInv, PassOnce
<1>2. LInv => LinesPassEachEmployeeOnce
  <2> SUFFICES ASSUME LInv, NEW i \in DOMAIN rows, NEW n \in 1 .. MaxHops, Superior(i)[n] # 0
               PROVE  rows[Superior(i)[n]].employee # rows[i].employee
    BY DEF LinesPassEachEmployeeOnce
  <2>1. Superior(i) = Line(i, rows)
    BY SuperiorIsLine
  <2> QED
    BY <2>1 DEF LInv, PassOnce, Passes
<1> QED
  BY <1>1, <1>2, NextLines, PTL DEF Spec

=============================================================================
