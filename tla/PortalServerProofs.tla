------------------------- MODULE PortalServerProofs -------------------------
(***************************************************************************)
(* Theorems of PortalServer, for any persons, requests, inputs and         *)
(* versions: no call outlives the account it was admitted by, and the      *)
(* writes that handlers compute from rows they read without a transaction  *)
(* leave decisions consistent and documents with a history.                *)
(***************************************************************************)
EXTENDS PortalServer, SequenceTheorems, TLAPS

DecisionRow == [code : Nat \cup OtherCode, status : DecisionStatus, closed : BOOLEAN]
DocumentRow == [version : Version, reference : Reference]

\* The code of row i of ds was supplied, is the first that nextCode computes, or
\* is the one after an earlier row's.
Follows(code, i, ds) ==
    \/ code \in Codes \cup {1}
    \/ \E j \in 1 .. i - 1 : Number(ds[j].code) = code - 1

Agrees(row) == row.closed => row.status = "Closed"

\* A call is idle, counts accounts for bootstrap-admin, or has its six fields.
CallAt(stage, by, route, of, row, could) ==
    [stage |-> stage, by |-> by, route |-> route, of |-> of, row |-> row, could |-> could]

Full(k) ==
    /\ k.stage \in {"received", "admitted", "write", "version", "served"}
    /\ k = CallAt(k.stage, k.by, k.route, k.of, k.row, k.could)

Shaped(k) == k = Idle \/ k = [stage |-> "first", by |-> k.by] \/ Full(k)

CallsShaped ==
    /\ calls = [r \in Request |-> calls[r]]
    /\ \A r \in Request : Shaped(calls[r])

\* Every gate that is open to the caller now is among those that were.
Seen(k, as, us) ==
    Full(k) =>
       /\ Gates(k, as, us) \subseteq k.could
       /\ k.stage # "received" => "portal" \in k.could
       /\ k.stage = "served" => "platform" \in k.could

CallsSeen == \A r \in Request : Seen(calls[r], accounts, users)

TablesOK ==
    /\ decisions \in Seq(DecisionRow)
    /\ document # None => document \in DocumentRow
    /\ kept \in [Version -> Reference \cup {None}]

\* What a handler computed from the row it read is still a row it may write.
RowHolds(k, ds) ==
    /\ k.stage = "write" /\ k.route = "decisions" =>
          /\ k.row \in DecisionRow /\ Agrees(k.row)
          /\ k.of = None => Follows(k.row.code, Len(ds) + 1, ds)
          /\ k.of # None => k.of \in DOMAIN ds /\ k.row.code = ds[k.of].code
    /\ k.stage = "write" /\ k.route = "documents" =>
          k.row \in DocumentRow /\ k.of \in BOOLEAN
    /\ k.stage = "version" => k.row \in DocumentRow

RowsHold == \A r \in Request : RowHolds(calls[r], decisions)

\* The version is in the history, or on its way there, or was stopped on it.
HasHistory(v, ks, ls, cs) ==
    \/ ks[v] # None
    \/ v \in ls
    \/ \E r \in Request : cs[r].stage = "version" /\ cs[r].row.version = v

\* A request that will put a row back and add no version puts back a version
\* that needs none added.
WritesKeepHistory ==
    \A r \in Request :
       /\ calls[r].stage = "write" /\ calls[r].route = "documents"
       /\ calls[r].of = FALSE
       => HasHistory(calls[r].row.version, kept, lost, calls)

IInv ==
    /\ CallsShaped
    /\ CallsSeen
    /\ TablesOK
    /\ RowsHold
    /\ WritesKeepHistory
    /\ DecisionsConsistent
    /\ CurrentVersionKept

-----------------------------------------------------------------------------
\* Calls and their fields

LEMMA Fields ==
    ASSUME NEW stage, NEW by, NEW route, NEW of, NEW row, NEW could
    PROVE  /\ CallAt(stage, by, route, of, row, could).stage = stage
           /\ CallAt(stage, by, route, of, row, could).by = by
           /\ CallAt(stage, by, route, of, row, could).route = route
           /\ CallAt(stage, by, route, of, row, could).of = of
           /\ CallAt(stage, by, route, of, row, could).row = row
           /\ CallAt(stage, by, route, of, row, could).could = could
BY DEF CallAt

LEMMA FullAt ==
    ASSUME NEW by, NEW route, NEW of, NEW row, NEW could,
           NEW stage \in {"received", "admitted", "write", "version", "served"}
    PROVE  Full(CallAt(stage, by, route, of, row, could))
BY Fields DEF Full

\* A call that moves to another stage keeps its caller, its operation and the
\* gates it has seen.
LEMMA Restaged ==
    ASSUME NEW k, Full(k), NEW stage, NEW of, NEW row
    PROVE  /\ [k EXCEPT !.stage = stage]
                 = CallAt(stage, k.by, k.route, k.of, k.row, k.could)
           /\ [k EXCEPT !.stage = stage, !.of = of, !.row = row]
                 = CallAt(stage, k.by, k.route, of, row, k.could)
<1> DEFINE k1 == [k EXCEPT !.stage = stage]
           k2 == [k1 EXCEPT !.of = of]
<1>1. k1 = CallAt(stage, k.by, k.route, k.of, k.row, k.could)
  BY SMT DEF Full, CallAt
<1>2. [k EXCEPT !.stage = stage, !.of = of, !.row = row] = [k2 EXCEPT !.row = row]
  BY Zenon
<1> HIDE DEF k1
<1>3. k2 = CallAt(stage, k.by, k.route, of, k.row, k.could)
  BY <1>1, SMT DEF CallAt
<1> HIDE DEF k2
<1>4. [k2 EXCEPT !.row = row] = CallAt(stage, k.by, k.route, of, row, k.could)
  BY <1>3, SMT DEF CallAt
<1> QED
  BY <1>1, <1>2, <1>4 DEF k1

LEMMA MoreSeen ==
    ASSUME NEW k, Full(k), NEW could
    PROVE  [k EXCEPT !.could = could] = CallAt(k.stage, k.by, k.route, k.of, k.row, could)
BY SMT DEF Full, CallAt

\* Which gates are open depends on the caller and the operation.
LEMMA SameGates ==
    ASSUME NEW k, NEW k2, k2.by = k.by, k2.route = k.route, NEW as, NEW us
    PROVE  Gates(k2, as, us) = Gates(k, as, us)
BY DEF Gates

LEMMA NotFull ==
    /\ Idle.stage = "idle" /\ ~ Full(Idle)
    /\ \A p : [stage |-> "first", by |-> p].stage = "first"
    /\ \A k : k.stage = "first" => ~ Full(k)
BY DEF Idle, Full

LEMMA IdleHolds ==
    /\ Shaped(Idle)
    /\ \A as, us : Seen(Idle, as, us)
    /\ \A ds : RowHolds(Idle, ds)
BY NotFull DEF Shaped, Seen, RowHolds

LEMMA OtherCalls ==
    ASSUME CallsShaped, NEW r \in Request, NEW k, calls' = [calls EXCEPT ![r] = k]
    PROVE  /\ calls' = [q \in Request |-> calls'[q]]
           /\ \A q \in Request : calls'[q] = IF q = r THEN k ELSE calls[q]
<1>1. calls = [q \in Request |-> calls[q]]
  BY DEF CallsShaped
<1> QED
  BY <1>1

\* A version whose request does not leave the stage that adds it, or leaves a
\* trace, is on record as before.
LEMMA HistoryGrows ==
    ASSUME \A v \in Version : kept[v] # None => kept'[v] # None,
           \A v \in Version : v \in lost => v \in lost' \/ kept'[v] # None,
           \A q \in Request : calls[q].stage = "version" =>
              \/ calls'[q].stage = "version" /\ calls'[q].row = calls[q].row
              \/ kept'[calls[q].row.version] # None
              \/ calls[q].row.version \in lost',
           NEW v \in Version, HasHistory(v, kept, lost, calls)
    PROVE  HasHistory(v, kept', lost', calls')
BY DEF HasHistory

\* Idle, counting, or with rows of their tables: the stage alone tells.
LEMMA Stages ==
    ASSUME NEW k, Shaped(k), k.stage \in {"received", "admitted", "write", "version", "served"}
    PROVE  Full(k)
BY NotFull DEF Shaped

-----------------------------------------------------------------------------
\* Steps of one request that write no table

LEMMA CallMoves ==
    ASSUME IInv, NEW r \in Request, calls[r].stage # "version",
           NEW k, calls' = [calls EXCEPT ![r] = k],
           UNCHANGED <<accounts, tables>>,
           Shaped(k), Seen(k, accounts, users), RowHolds(k, decisions),
           k.stage = "write" /\ k.route = "documents" /\ k.of = FALSE
              => HasHistory(k.row.version, kept, lost, calls)
    PROVE  IInv'
<1>0. UNCHANGED <<accounts, users, decisions, document, kept, lost>>
  BY DEF tables
<1>1. /\ calls' = [q \in Request |-> calls'[q]]
      /\ \A q \in Request : calls'[q] = IF q = r THEN k ELSE calls[q]
  BY OtherCalls DEF IInv
<1>2. CallsShaped'
  BY <1>1 DEF IInv, CallsShaped
<1>3. CallsSeen'
  BY <1>0, <1>1 DEF IInv, CallsSeen
<1>4. TablesOK' /\ DecisionsConsistent'
  BY <1>0 DEF IInv, TablesOK, DecisionsConsistent
<1>5. RowsHold'
  BY <1>0, <1>1 DEF IInv, RowsHold
<1>6. \A v \in Version :
         HasHistory(v, kept, lost, calls) => HasHistory(v, kept', lost', calls')
  BY <1>0, <1>1, HistoryGrows
<1>7. WritesKeepHistory'
  <2> SUFFICES ASSUME NEW q \in Request,
                      calls'[q].stage = "write", calls'[q].route = "documents",
                      calls'[q].of = FALSE
               PROVE  HasHistory(calls'[q].row.version, kept', lost', calls')
    BY DEF WritesKeepHistory
  <2>1. calls'[q].row.version \in Version
    BY <1>0, <1>5 DEF RowsHold, RowHolds, DocumentRow
  <2>2. HasHistory(calls'[q].row.version, kept, lost, calls)
    BY <1>1 DEF IInv, WritesKeepHistory
  <2> QED
    BY <1>6, <2>1, <2>2
<1>8. CurrentVersionKept'
  BY <1>0, <1>6 DEF IInv, CurrentVersionKept, TablesOK, DocumentRow, HasHistory
<1> QED
  BY <1>2, <1>3, <1>4, <1>5, <1>7, <1>8 DEF IInv

\* A request is admitted, has read a row, or is served: what it saw stays.
LEMMA StageMoves ==
    ASSUME IInv, NEW r \in Request, Full(calls[r]), calls[r].stage # "version",
           "portal" \in calls[r].could,
           NEW stage \in {"admitted", "write", "served"}, NEW of, NEW row,
           NEW k, k = CallAt(stage, calls[r].by, calls[r].route, of, row, calls[r].could),
           stage = "served" => "platform" \in calls[r].could,
           calls' = [calls EXCEPT ![r] = k],
           UNCHANGED <<accounts, tables>>,
           stage = "write" => RowHolds(k, decisions),
           stage = "write" /\ calls[r].route = "documents" /\ of = FALSE
              => HasHistory(row.version, kept, lost, calls)
    PROVE  IInv'
<1>1. /\ k.stage = stage /\ k.by = calls[r].by /\ k.route = calls[r].route
      /\ k.of = of /\ k.row = row /\ k.could = calls[r].could
  BY DEF CallAt
<1>2. Full(k)
  BY FullAt
<1>3. Gates(k, accounts, users) \subseteq k.could
  <2>1. Gates(k, accounts, users) = Gates(calls[r], accounts, users)
    BY <1>1 DEF Gates
  <2> QED
    BY <1>1, <2>1 DEF IInv, CallsSeen, Seen
<1>4. Seen(k, accounts, users)
  BY <1>1, <1>3 DEF Seen
<1>5. RowHolds(k, decisions)
  BY <1>1 DEF RowHolds
<1> QED
  BY <1>1, <1>2, <1>4, <1>5, CallMoves DEF Shaped

LEMMA BeginBootstrapKeeps ==
    ASSUME IInv, NEW r \in Request, NEW p \in Person, BeginBootstrap(r, p)
    PROVE  IInv'
<1> DEFINE k == [stage |-> "first", by |-> p]
<1>1. k.stage = "first" /\ k.by = p
  OBVIOUS
<1>2. Shaped(k) /\ Seen(k, accounts, users) /\ RowHolds(k, decisions)
  BY <1>1, NotFull DEF Shaped, Seen, RowHolds
<1>3. calls[r].stage # "version"
  BY NotFull DEF BeginBootstrap
<1>4. calls' = [calls EXCEPT ![r] = k] /\ UNCHANGED <<accounts, tables>>
  BY DEF BeginBootstrap
<1> HIDE DEF k
<1> QED
  BY <1>1, <1>2, <1>3, <1>4, CallMoves

LEMMA ReceiveKeeps ==
    ASSUME IInv, NEW r \in Request, NEW p \in Person, NEW route \in Route, Receive(r, p, route)
    PROVE  IInv'
<1> DEFINE g == Gates([by |-> p, route |-> route], accounts, users)
           k == CallAt("received", p, route, None, None, g)
<1>1. /\ k.stage = "received" /\ k.by = p /\ k.route = route /\ k.could = g
  BY Fields
<1>2. Full(k)
  BY FullAt
<1>3. Gates(k, accounts, users) = g
  BY <1>1, SameGates
<1>4. calls' = [calls EXCEPT ![r] = k] /\ UNCHANGED <<accounts, tables>>
  BY DEF Receive, CallAt
<1>5. calls[r].stage # "version"
  BY NotFull DEF Receive
<1> HIDE DEF k, g
<1>6. Seen(k, accounts, users) /\ RowHolds(k, decisions)
  BY <1>1, <1>3 DEF Seen, RowHolds
<1> QED
  BY <1>1, <1>2, <1>4, <1>5, <1>6, CallMoves DEF Shaped

\* The request's call ends without having written a table.
LEMMA Refused ==
    ASSUME IInv, NEW r \in Request, calls[r].stage # "version",
           calls' = [calls EXCEPT ![r] = Idle], UNCHANGED <<accounts, tables>>
    PROVE  IInv'
BY IdleHolds, NotFull, CallMoves

LEMMA AdmitKeeps ==
    ASSUME IInv, NEW r \in Request, Admit(r)
    PROVE  IInv'
<1>1. Full(calls[r])
  BY Stages DEF Admit, IInv, CallsShaped
<1>2. calls[r].stage = "received" /\ UNCHANGED <<accounts, tables>>
  BY DEF Admit
<1>3. CASE Gate(calls[r])
  <2> DEFINE k == CallAt("admitted", calls[r].by, calls[r].route, calls[r].of, calls[r].row,
                         calls[r].could)
  <2>1. calls' = [calls EXCEPT ![r] = [calls[r] EXCEPT !.stage = "admitted"]]
    BY <1>3 DEF Admit
  <2>2. calls' = [calls EXCEPT ![r] = k]
    BY <1>1, <2>1, Restaged
  <2>3. "portal" \in Gates(calls[r], accounts, users)
    BY <1>3 DEF Gate, Gates
  <2>4. "portal" \in calls[r].could
    BY <1>1, <2>3 DEF IInv, CallsSeen, Seen
  <2> QED
    BY <1>1, <1>2, <2>2, <2>4, StageMoves
<1>4. CASE ~ Gate(calls[r])
  <2>1. calls' = [calls EXCEPT ![r] = Idle]
    BY <1>4 DEF Admit
  <2> QED
    BY <1>2, <2>1, Refused
<1> QED
  BY <1>3, <1>4

\* What holds of a call that has been admitted to an operation.
LEMMA AdmittedCall ==
    ASSUME IInv, NEW r \in Request,
           calls[r].stage \in {"admitted", "write", "version", "served"}
    PROVE  Full(calls[r]) /\ "portal" \in calls[r].could
<1>1. Full(calls[r])
  BY Stages DEF IInv, CallsShaped
<1> QED
  BY <1>1 DEF IInv, CallsSeen, Seen

LEMMA ReadsMove ==
    ASSUME IInv, NEW r \in Request, calls[r].stage = "admitted", NEW of, NEW row,
           Reads(r, of, row),
           RowHolds(CallAt("write", calls[r].by, calls[r].route, of, row, calls[r].could),
                    decisions),
           calls[r].route = "documents" /\ of = FALSE
              => HasHistory(row.version, kept, lost, calls)
    PROVE  IInv'
<1> DEFINE k == CallAt("write", calls[r].by, calls[r].route, of, row, calls[r].could)
<1>1. Full(calls[r]) /\ "portal" \in calls[r].could
  BY AdmittedCall
<1>2. calls' = [calls EXCEPT ![r] = [calls[r] EXCEPT !.stage = "write", !.of = of,
                                                      !.row = row]]
  BY Zenon DEF Reads
<1>3. calls' = [calls EXCEPT ![r] = k] /\ UNCHANGED <<accounts, tables>>
  <2>1. [calls[r] EXCEPT !.stage = "write", !.of = of, !.row = row] = k
    BY <1>1, Restaged
  <2> QED
    BY <1>2, <2>1, Zenon DEF Reads
<1> QED
  BY <1>1, <1>3, StageMoves

LEMMA BeginChangeKeeps ==
    ASSUME IInv, NEW r \in Request, NEW p \in Person, NEW change, BeginChange(r, p, change)
    PROVE  IInv'
<1> DEFINE row == Merged(accounts[p], change)
           k == CallAt("write", calls[r].by, calls[r].route, p, row, calls[r].could)
<1>1. /\ calls[r].stage = "admitted" /\ calls[r].route = "accounts"
      /\ Reads(r, p, row)
  BY DEF BeginChange, Admitted
<1>2. k.stage = "write" /\ k.route = "accounts"
  BY <1>1 DEF CallAt
<1> HIDE DEF k, row
<1>3. RowHolds(k, decisions)
  BY <1>2 DEF RowHolds
<1> QED
  BY <1>1, <1>3, ReadsMove DEF k

LEMMA NumberType ==
    ASSUME NEW code \in Nat \cup OtherCode
    PROVE  Number(code) \in Nat \cup {None}
BY PortalServerAssumption DEF Number

\* nextCode follows the row whose number it read, if any has one.
LEMMA NextCodeFollows ==
    ASSUME decisions \in Seq(DecisionRow)
    PROVE  NextCode \in Nat /\ Follows(NextCode, Len(decisions) + 1, decisions)
<1> DEFINE n == Len(decisions)
           last == {i \in DOMAIN decisions :
                       Numbered(i) /\ \A j \in DOMAIN decisions : j > i => ~ Numbered(j)}
           i0 == CHOOSE i \in last : TRUE
<1>1. n \in Nat /\ DOMAIN decisions = 1 .. n
  BY LenProperties
<1>2. CASE last = {}
  BY <1>2 DEF NextCode, Follows
<1>3. CASE last # {}
  <2>1. i0 \in last
    BY <1>3
  <2>2. i0 \in DOMAIN decisions /\ Number(decisions[i0].code) # None
    BY <2>1 DEF Numbered
  <2>3. decisions[i0].code \in Nat \cup OtherCode
    <3>1. decisions[i0] \in DecisionRow
      BY <2>2, ElementOfSeq, <1>1
    <3> QED
      BY <3>1 DEF DecisionRow
  <2>4. Number(decisions[i0].code) \in Nat
    BY <2>2, <2>3, NumberType
  <2>5. NextCode = Number(decisions[i0].code) + 1
    BY <1>3 DEF NextCode
  <2> HIDE DEF i0, last, n
  <2>6. i0 \in 1 .. (n + 1) - 1
    BY <1>1, <2>2
  <2>7. NextCode \in Nat /\ Number(decisions[i0].code) = NextCode - 1
    BY <2>4, <2>5
  <2> QED
    BY <2>6, <2>7 DEF Follows, n
<1> QED
  BY <1>2, <1>3

LEMMA BeginRegisterKeeps ==
    ASSUME IInv, NEW r \in Request, NEW code0 \in Codes \cup {None},
           NEW status0 \in DecisionStatus \cup {None}, BeginRegister(r, code0, status0)
    PROVE  IInv'
<1> DEFINE code == IF code0 = None THEN NextCode ELSE code0
           status == IF status0 = None THEN "Decision Required" ELSE status0
           row == [code |-> code, status |-> status, closed |-> FALSE]
           k == CallAt("write", calls[r].by, calls[r].route, None, row, calls[r].could)
<1>1. /\ calls[r].stage = "admitted" /\ calls[r].route = "decisions"
      /\ Reads(r, None, row)
  BY DEF BeginRegister, Admitted
<1>2. code \in Nat \cup OtherCode /\ Follows(code, Len(decisions) + 1, decisions)
  <2>1. CASE code0 = None
    BY <2>1, NextCodeFollows DEF IInv, TablesOK
  <2>2. CASE code0 # None
    BY <2>2, PortalServerAssumption DEF Follows
  <2> QED
    BY <2>1, <2>2
<1>3. status \in DecisionStatus
  BY DEF DecisionStatus
<1> HIDE DEF code, status
<1>4. row \in DecisionRow /\ row.code = code /\ Agrees(row)
  BY <1>2, <1>3 DEF DecisionRow, Agrees
<1> HIDE DEF row
<1>5. k.stage = "write" /\ k.route = "decisions" /\ k.row = row /\ k.of = None
  BY <1>1 DEF CallAt
<1> HIDE DEF k
<1>6. RowHolds(k, decisions)
  BY <1>2, <1>4, <1>5 DEF RowHolds
<1> QED
  BY <1>1, <1>6, ReadsMove DEF k

LEMMA BeginUpdateKeeps ==
    ASSUME IInv, NEW r \in Request, NEW i \in DOMAIN decisions,
           NEW s \in DecisionStatus \cup {None}, BeginUpdate(r, i, s)
    PROVE  IInv'
<1> DEFINE old == decisions[i]
           next == IF s = None THEN old.status ELSE s
           row == Updated(old, s)
           k == CallAt("write", calls[r].by, calls[r].route, i, row, calls[r].could)
<1>1. /\ calls[r].stage = "admitted" /\ calls[r].route = "decisions"
      /\ Reads(r, i, row)
  BY DEF BeginUpdate, Admitted
<1>2. old \in DecisionRow /\ i \in Nat
  <2>1. decisions \in Seq(DecisionRow)
    BY DEF IInv, TablesOK
  <2> QED
    BY <2>1, ElementOfSeq, LenProperties
<1>3. i # None
  BY <1>2, PortalServerAssumption
<1>4. next \in DecisionStatus
  BY <1>2 DEF DecisionRow
<1>5. row = [old EXCEPT !.status = next, !.closed = (next = "Closed")]
  BY Zenon DEF Updated
<1>6. row \in DecisionRow /\ row.code = decisions[i].code /\ Agrees(row)
  <2> DEFINE half == [old EXCEPT !.status = next]
  <2> HIDE DEF old, next, row
  <2>1. half \in DecisionRow /\ half.code = old.code /\ half.status = next
    BY <1>2, <1>4 DEF DecisionRow
  <2> DEFINE b == (next = "Closed")
  <2>2. b \in BOOLEAN
    OBVIOUS
  <2>3. row = [half EXCEPT !.closed = b]
    BY <1>5, Zenon
  <2> HIDE DEF half, b
  <2>4. /\ row \in DecisionRow /\ row.code = old.code /\ row.status = next
        /\ row.closed = b
    BY <2>1, <2>2, <2>3 DEF DecisionRow
  <2> QED
    BY <2>4 DEF Agrees, b, old
<1> HIDE DEF row, old
<1>7. k.stage = "write" /\ k.route = "decisions" /\ k.row = row /\ k.of = i
  BY <1>1 DEF CallAt
<1> HIDE DEF k
<1>8. RowHolds(k, decisions)
  BY <1>3, <1>6, <1>7 DEF RowHolds
<1> QED
  BY <1>1, <1>8, ReadsMove DEF k

\* Fields that the input leaves out keep their values.
LEMMA MergedDocument ==
    ASSUME NEW old \in DocumentRow,
           NEW input \in [version : Version \cup {None}, reference : Reference \cup {None}]
    PROVE  Merged(old, input) \in DocumentRow
<1>1. DOMAIN old = {"version", "reference"}
  BY DEF DocumentRow
<1>2. /\ input.version \in Version \cup {None} /\ input.reference \in Reference \cup {None}
      /\ old.version \in Version /\ old.reference \in Reference
  BY DEF DocumentRow
<1> DEFINE v == IF input.version = None THEN old.version ELSE input.version
           f == IF input.reference = None THEN old.reference ELSE input.reference
<1>3. v \in Version /\ f \in Reference
  BY <1>2
<1>4. Merged(old, input) = [version |-> v, reference |-> f]
  BY <1>1 DEF Merged
<1> QED
  BY <1>3, <1>4 DEF DocumentRow

LEMMA BeginDocumentKeeps ==
    ASSUME IInv, NEW r \in Request,
           NEW input \in [version : Version \cup {None}, reference : Reference \cup {None}],
           BeginDocument(r, input)
    PROVE  IInv'
<1> DEFINE row == Merged(document, input)
           adds == AddsVersion(document, row)
           k == CallAt("write", calls[r].by, calls[r].route, adds, row, calls[r].could)
<1>1. /\ calls[r].stage = "admitted" /\ calls[r].route = "documents"
      /\ document # None /\ Reads(r, adds, row)
  BY DEF BeginDocument, Admitted
<1>2. document \in DocumentRow
  BY <1>1 DEF IInv, TablesOK
<1>3. row \in DocumentRow
  BY <1>2, MergedDocument
<1> HIDE DEF row
<1>4. adds \in BOOLEAN
  BY DEF AddsVersion
<1>5. adds = FALSE => HasHistory(row.version, kept, lost, calls)
  <2>1. adds = FALSE => row.version = document.version
    BY DEF AddsVersion
  <2>2. HasHistory(document.version, kept, lost, calls)
    BY <1>1 DEF IInv, CurrentVersionKept, HasHistory
  <2> QED
    BY <2>1, <2>2
<1> HIDE DEF adds
<1>6. k.stage = "write" /\ k.route = "documents" /\ k.row = row /\ k.of = adds
  BY <1>1 DEF CallAt
<1> HIDE DEF k
<1>7. RowHolds(k, decisions)
  BY <1>3, <1>4, <1>6 DEF RowHolds
<1> QED
  BY <1>1, <1>5, <1>7, ReadsMove DEF k

LEMMA ForwardKeeps ==
    ASSUME IInv, NEW r \in Request, Forward(r)
    PROVE  IInv'
<1>1. calls[r].stage = "admitted" /\ calls[r].route = "platform" /\ UNCHANGED <<accounts, tables>>
  BY DEF Forward, Admitted
<1>2. Full(calls[r]) /\ "portal" \in calls[r].could
  BY <1>1, AdmittedCall
<1>3. CASE users[calls[r].by] = "active"
  <2> DEFINE k == CallAt("served", calls[r].by, calls[r].route, calls[r].of, calls[r].row,
                         calls[r].could)
  <2>1. calls' = [calls EXCEPT ![r] = [calls[r] EXCEPT !.stage = "served"]]
    BY <1>3 DEF Forward
  <2>2. calls' = [calls EXCEPT ![r] = k]
    BY <1>2, <2>1, Restaged
  <2>3. "platform" \in Gates(calls[r], accounts, users)
    BY <1>1, <1>3 DEF Gates
  <2>4. "platform" \in calls[r].could
    BY <1>2, <2>3 DEF IInv, CallsSeen, Seen
  <2> QED
    BY <1>1, <1>2, <2>2, <2>4, StageMoves
<1>4. CASE users[calls[r].by] # "active"
  <2>1. calls' = [calls EXCEPT ![r] = Idle]
    BY <1>4 DEF Forward
  <2> QED
    BY <1>1, <2>1, Refused
<1> QED
  BY <1>3, <1>4

-----------------------------------------------------------------------------
\* Accounts and users change

\* A call that is under way while they do sees which gates are open then, and
\* is otherwise left alone.
WitnessedCall(k, as, us) ==
    IF k.stage \in {"idle", "first"} THEN k
    ELSE [k EXCEPT !.could = @ \cup Gates(k, as, us)]

LEMMA WitnessedFields ==
    ASSUME NEW k, Shaped(k), NEW as, NEW us
    PROVE  /\ Shaped(WitnessedCall(k, as, us))
           /\ Full(k) => WitnessedCall(k, as, us)
                            = CallAt(k.stage, k.by, k.route, k.of, k.row,
                                     k.could \cup Gates(k, as, us))
           /\ ~ Full(k) => WitnessedCall(k, as, us) = k
<1>1. CASE Full(k)
  <2> DEFINE could == k.could \cup Gates(k, as, us)
  <2>1. k.stage \in {"received", "admitted", "write", "version", "served"}
    BY <1>1 DEF Full
  <2>2. WitnessedCall(k, as, us) = [k EXCEPT !.could = could]
    BY <2>1 DEF WitnessedCall
  <2> HIDE DEF could
  <2>3. WitnessedCall(k, as, us) = CallAt(k.stage, k.by, k.route, k.of, k.row, could)
    BY <1>1, <2>2, MoreSeen
  <2>4. Full(WitnessedCall(k, as, us))
    BY <2>1, <2>3, FullAt
  <2> QED
    BY <1>1, <2>3, <2>4 DEF Shaped, could
<1>2. CASE ~ Full(k)
  <2>1. k.stage \in {"idle", "first"}
    BY <1>2, NotFull DEF Shaped
  <2> QED
    BY <1>2, <2>1 DEF WitnessedCall
<1> QED
  BY <1>1, <1>2

LEMMA WitnessedMoves ==
    ASSUME IInv, NEW cs,
           \A q \in Request :
              \/ cs[q] = calls[q]
              \/ cs[q] = Idle /\ calls[q].stage # "version",
           calls' = Witnessed(cs, accounts', users'),
           UNCHANGED <<decisions, document, kept, lost>>
    PROVE  IInv'
<1>1. /\ calls' = [q \in Request |-> calls'[q]]
      /\ \A q \in Request : calls'[q] = WitnessedCall(cs[q], accounts', users')
  BY Zenon DEF Witnessed, WitnessedCall
<1>2. \A q \in Request : Shaped(cs[q])
  BY IdleHolds DEF IInv, CallsShaped
<1>3. \A q \in Request :
         /\ Shaped(calls'[q])
         /\ Full(cs[q]) =>
               calls'[q] = CallAt(cs[q].stage, cs[q].by, cs[q].route, cs[q].of, cs[q].row,
                                  cs[q].could \cup Gates(cs[q], accounts', users'))
         /\ ~ Full(cs[q]) => calls'[q] = cs[q]
  BY <1>1, <1>2, WitnessedFields
<1>4. \A q \in Request : Full(calls'[q]) =>
         /\ Full(calls[q])
         /\ calls'[q].stage = calls[q].stage /\ calls'[q].by = calls[q].by
         /\ calls'[q].route = calls[q].route /\ calls'[q].of = calls[q].of
         /\ calls'[q].row = calls[q].row
         /\ calls'[q].could = calls[q].could \cup Gates(calls[q], accounts', users')
  <2> SUFFICES ASSUME NEW q \in Request, Full(calls'[q])
               PROVE  /\ Full(calls[q])
                      /\ calls'[q].stage = calls[q].stage /\ calls'[q].by = calls[q].by
                      /\ calls'[q].route = calls[q].route /\ calls'[q].of = calls[q].of
                      /\ calls'[q].row = calls[q].row
                      /\ calls'[q].could = calls[q].could
                                              \cup Gates(calls[q], accounts', users')
    OBVIOUS
  <2>1. cs[q] = calls[q] /\ Full(calls[q])
    BY <1>3, NotFull
  <2>2. calls'[q] = CallAt(calls[q].stage, calls[q].by, calls[q].route, calls[q].of,
                           calls[q].row,
                           calls[q].could \cup Gates(calls[q], accounts', users'))
    BY <1>3, <2>1
  <2> QED
    BY <2>1, <2>2 DEF CallAt
<1>5. CallsShaped'
  BY <1>1, <1>3 DEF CallsShaped
<1>6. CallsSeen'
  <2> SUFFICES ASSUME NEW q \in Request, Full(calls'[q])
               PROVE  /\ Gates(calls'[q], accounts', users') \subseteq calls'[q].could
                      /\ calls'[q].stage # "received" => "portal" \in calls'[q].could
                      /\ calls'[q].stage = "served" => "platform" \in calls'[q].could
    BY DEF CallsSeen, Seen
  <2>1. Gates(calls'[q], accounts', users') = Gates(calls[q], accounts', users')
    BY <1>4 DEF Gates
  <2>2. /\ calls[q].stage # "received" => "portal" \in calls[q].could
        /\ calls[q].stage = "served" => "platform" \in calls[q].could
    BY <1>4 DEF IInv, CallsSeen, Seen
  <2> QED
    BY <1>4, <2>1, <2>2
<1>7. \A q \in Request : calls'[q].stage \in {"write", "version"} => Full(calls'[q])
  BY <1>3, Stages
<1>8. \A q \in Request : calls[q].stage = "version" =>
         calls'[q].stage = "version" /\ calls'[q].row = calls[q].row
  <2> SUFFICES ASSUME NEW q \in Request, calls[q].stage = "version"
               PROVE  calls'[q].stage = "version" /\ calls'[q].row = calls[q].row
    OBVIOUS
  <2>1. cs[q] = calls[q] /\ Full(calls[q])
    BY Stages DEF IInv, CallsShaped
  <2>3. calls'[q] = CallAt(calls[q].stage, calls[q].by, calls[q].route, calls[q].of,
                           calls[q].row,
                           calls[q].could \cup Gates(calls[q], accounts', users'))
    BY <1>3, <2>1
  <2> QED
    BY <2>3 DEF CallAt
<1>9. TablesOK' /\ DecisionsConsistent'
  BY DEF IInv, TablesOK, DecisionsConsistent
<1>10. RowsHold'
  <2> SUFFICES ASSUME NEW q \in Request PROVE RowHolds(calls'[q], decisions)
    BY DEF RowsHold
  <2>1. RowHolds(calls[q], decisions)
    BY DEF IInv, RowsHold
  <2>2. CASE calls'[q].stage \in {"write", "version"}
    BY <1>4, <1>7, <2>1, <2>2 DEF RowHolds
  <2>3. CASE calls'[q].stage \notin {"write", "version"}
    BY <2>3 DEF RowHolds
  <2> QED
    BY <2>2, <2>3
<1>11. \A v \in Version :
          HasHistory(v, kept, lost, calls) => HasHistory(v, kept', lost', calls')
  BY <1>8, HistoryGrows
<1>12. WritesKeepHistory'
  <2> SUFFICES ASSUME NEW q \in Request,
                      calls'[q].stage = "write", calls'[q].route = "documents",
                      calls'[q].of = FALSE
               PROVE  HasHistory(calls'[q].row.version, kept', lost', calls')
    BY DEF WritesKeepHistory
  <2>1. /\ calls[q].stage = "write" /\ calls[q].route = "documents"
        /\ calls[q].of = FALSE /\ calls'[q].row = calls[q].row
    BY <1>4, <1>7
  <2>2. calls[q].row.version \in Version
    BY <2>1 DEF IInv, RowsHold, RowHolds, DocumentRow
  <2>3. HasHistory(calls[q].row.version, kept, lost, calls)
    BY <2>1 DEF IInv, WritesKeepHistory
  <2> QED
    BY <1>11, <2>1, <2>2, <2>3
<1>13. CurrentVersionKept'
  BY <1>11 DEF IInv, CurrentVersionKept, TablesOK, DocumentRow, HasHistory
<1> QED
  BY <1>5, <1>6, <1>9, <1>10, <1>12, <1>13 DEF IInv

LEMMA WriteAccountKeeps ==
    ASSUME IInv, NEW r \in Request, calls[r].stage # "version", NEW p, NEW row,
           WriteAccount(r, p, row)
    PROVE  IInv'
<1> DEFINE cs == [calls EXCEPT ![r] = Idle]
<1>1. calls' = Witnessed(cs, accounts', users') /\ UNCHANGED <<decisions, document, kept, lost>>
  BY DEF WriteAccount, tables
<1>2. \A q \in Request :
         \/ cs[q] = calls[q]
         \/ cs[q] = Idle /\ calls[q].stage # "version"
  <2>1. calls = [q \in Request |-> calls[q]]
    BY DEF IInv, CallsShaped
  <2>2. \A q \in Request : cs[q] = IF q = r THEN Idle ELSE calls[q]
    BY <2>1
  <2> HIDE DEF cs
  <2> QED
    BY <2>2
<1> HIDE DEF cs
<1> QED
  BY <1>1, <1>2, WitnessedMoves

LEMMA AccountsKeep ==
    ASSUME IInv, NEW r \in Request,
           \/ Bootstrap(r) \/ CommitChange(r)
           \/ \E p \in Person, row \in NewAccounts : CreateAccount(r, p, row)
    PROVE  IInv'
<1>1. calls[r].stage # "version"
  BY DEF Bootstrap, CommitChange, Writing, CreateAccount, Admitted
<1>2. PICK p, row : WriteAccount(r, p, row)
  BY Zenon DEF Bootstrap, CommitChange, CreateAccount
<1> QED
  BY <1>1, <1>2, WriteAccountKeeps

LEMMA SetUserKeeps ==
    ASSUME IInv, NEW p \in Person, SetUser(p)
    PROVE  IInv'
<1>1. calls' = Witnessed(calls, accounts', users') /\ UNCHANGED <<decisions, document, kept, lost>>
  BY DEF SetUser
<1> QED
  BY <1>1, WitnessedMoves

-----------------------------------------------------------------------------
\* Decisions are written

\* Rows are appended and keep their codes.
LEMMA StillFollows ==
    ASSUME NEW n \in Nat, NEW ds, NEW es, \A j \in 1 .. n : es[j].code = ds[j].code,
           NEW i \in 1 .. n + 1, NEW k \in Nat, i <= k
    PROVE  \A code : Follows(code, i, ds) => Follows(code, k, es)
<1> SUFFICES ASSUME NEW code, Follows(code, i, ds) PROVE Follows(code, k, es)
  OBVIOUS
<1>1. CASE code \in Codes \cup {1}
  BY <1>1 DEF Follows
<1>2. ASSUME NEW j \in 1 .. i - 1, Number(ds[j].code) = code - 1
      PROVE  Follows(code, k, es)
  <2>1. j \in 1 .. n /\ j \in 1 .. k - 1
    OBVIOUS
  <2>2. Number(es[j].code) = code - 1
    BY <1>2, <2>1
  <2> QED
    BY <2>1, <2>2 DEF Follows
<1> QED
  BY <1>1, <1>2 DEF Follows

LEMMA DecisionsMove ==
    ASSUME IInv, NEW r \in Request, calls[r].stage = "write",
           calls' = [calls EXCEPT ![r] = Idle],
           UNCHANGED <<accounts, users, document, kept, lost>>,
           decisions' \in Seq(DecisionRow), Len(decisions') >= Len(decisions),
           \A i \in 1 .. Len(decisions) : decisions'[i].code = decisions[i].code,
           DecisionsConsistent'
    PROVE  IInv'
<1> DEFINE n == Len(decisions)
           m == Len(decisions')
<1>1. /\ calls' = [q \in Request |-> calls'[q]]
      /\ \A q \in Request : calls'[q] = IF q = r THEN Idle ELSE calls[q]
  BY OtherCalls DEF IInv
<1>2. CallsShaped'
  BY <1>1, IdleHolds DEF IInv, CallsShaped
<1>3. CallsSeen'
  BY <1>1, IdleHolds DEF IInv, CallsSeen
<1>4. TablesOK'
  BY DEF IInv, TablesOK
<1>5. /\ n \in Nat /\ m \in Nat /\ n <= m
      /\ DOMAIN decisions = 1 .. n /\ DOMAIN decisions' = 1 .. m
  BY LenProperties DEF IInv, TablesOK
<1>7. DOMAIN decisions \subseteq DOMAIN decisions'
  BY <1>5
<1>8. RowsHold'
  <2> SUFFICES ASSUME NEW q \in Request PROVE RowHolds(calls'[q], decisions')
    BY DEF RowsHold
  <2>1. CASE q = r
    BY <1>1, <2>1, IdleHolds
  <2>2. CASE q # r
    <3> DEFINE c == calls[q]
    <3>1. calls'[q] = c /\ RowHolds(c, decisions)
      BY <1>1, <2>2 DEF IInv, RowsHold
    <3> HIDE DEF c, n, m
    <3>2. ASSUME Follows(c.row.code, n + 1, decisions)
          PROVE  Follows(c.row.code, m + 1, decisions')
      <4>1. n \in Nat /\ n + 1 \in 1 .. n + 1 /\ m + 1 \in Nat /\ n + 1 <= m + 1
        BY <1>5
      <4>2. \A j \in 1 .. n : decisions'[j].code = decisions[j].code
        BY DEF n
      <4> QED
        <5>1. \A code : Follows(code, n + 1, decisions) => Follows(code, m + 1, decisions')
          BY <4>1, <4>2, StillFollows, Zenon
        <5> QED
          BY <3>2, <5>1, Zenon
    <3>3. ASSUME c.of \in DOMAIN decisions, c.row.code = decisions[c.of].code
          PROVE  c.of \in DOMAIN decisions' /\ c.row.code = decisions'[c.of].code
      BY <1>5, <1>7, <3>3 DEF n
    <3> QED
      BY <3>1, <3>2, <3>3, Zenon DEF RowHolds, n, m
  <2> QED
    BY <2>1, <2>2
<1>9. \A v \in Version :
         HasHistory(v, kept, lost, calls) => HasHistory(v, kept', lost', calls')
  BY <1>1, HistoryGrows
<1>10. WritesKeepHistory'
  <2> SUFFICES ASSUME NEW q \in Request,
                      calls'[q].stage = "write", calls'[q].route = "documents",
                      calls'[q].of = FALSE
               PROVE  HasHistory(calls'[q].row.version, kept', lost', calls')
    BY DEF WritesKeepHistory
  <2>1. calls'[q] = calls[q]
    BY <1>1, NotFull
  <2>2. calls[q].row.version \in Version
    BY <2>1 DEF IInv, RowsHold, RowHolds, DocumentRow
  <2>3. HasHistory(calls[q].row.version, kept, lost, calls)
    BY <2>1 DEF IInv, WritesKeepHistory
  <2> QED
    BY <1>9, <2>1, <2>2, <2>3
<1>11. CurrentVersionKept'
  BY <1>9 DEF IInv, CurrentVersionKept, TablesOK, DocumentRow, HasHistory
<1> QED
  BY <1>2, <1>3, <1>4, <1>8, <1>10, <1>11 DEF IInv

\* What DecisionsConsistent says of row i of ds.
RowConsistent(ds, i) ==
    /\ \A j \in DOMAIN ds : ds[j].code = ds[i].code => j = i
    /\ Follows(ds[i].code, i, ds)
    /\ Agrees(ds[i])

LEMMA Consistent ==
    /\ DecisionsConsistent <=> \A i \in DOMAIN decisions : RowConsistent(decisions, i)
    /\ DecisionsConsistent' <=> \A i \in DOMAIN decisions' : RowConsistent(decisions', i)
BY DEF DecisionsConsistent, RowConsistent, Follows, Agrees

\* A code no row has is appended after the row it was computed from.
LEMMA CommitRegisterKeeps ==
    ASSUME IInv, NEW r \in Request, CommitRegister(r)
    PROVE  IInv'
<1> DEFINE row == calls[r].row
           n == Len(decisions)
<1>1. /\ calls[r].stage = "write" /\ calls[r].route = "decisions" /\ calls[r].of = None
      /\ UnusedCode(row.code)
      /\ decisions' = Append(decisions, row)
      /\ calls' = [calls EXCEPT ![r] = Idle]
      /\ UNCHANGED <<accounts, users, document, kept, lost>>
  BY DEF CommitRegister, Writing
<1>2. row \in DecisionRow /\ Agrees(row) /\ Follows(row.code, n + 1, decisions)
  BY <1>1 DEF IInv, RowsHold, RowHolds
<1>3. decisions \in Seq(DecisionRow) /\ n \in Nat /\ DOMAIN decisions = 1 .. n
  BY LenProperties DEF IInv, TablesOK
<1> HIDE DEF row
<1>4. \A i \in 1 .. n : decisions[i].code # row.code
  BY <1>1, <1>3 DEF UnusedCode
<1>5. /\ decisions' \in Seq(DecisionRow) /\ Len(decisions') = n + 1
      /\ \A i \in 1 .. n : decisions'[i] = decisions[i]
      /\ decisions'[n + 1] = row
  <2>1. row \in DecisionRow /\ decisions \in Seq(DecisionRow) /\ decisions' = Append(decisions, row)
    BY <1>1, <1>2, <1>3
  <2> QED
    BY <2>1, AppendProperties
<1>6. DOMAIN decisions' = 1 .. n + 1
  BY <1>5, LenProperties
<1>7. \A i \in 1 .. n : RowConsistent(decisions, i)
  BY <1>3, Consistent DEF IInv
<1> HIDE DEF n
<1>8. \A i \in 1 .. n + 1 : i \in 1 .. n \/ i = n + 1
  BY <1>3
<1>9. \A i \in 1 .. n + 1 : RowConsistent(decisions', i)
  <2>1. ASSUME NEW i \in 1 .. n PROVE RowConsistent(decisions', i)
    <3>1. decisions'[i] = decisions[i] /\ RowConsistent(decisions, i)
      BY <1>5, <1>7
    <3>2. Follows(decisions[i].code, i, decisions')
      <4>1. i \in 1 .. n + 1 /\ i \in Nat /\ i <= i
        BY <1>3
      <4>2. Follows(decisions[i].code, i, decisions)
        BY <3>1 DEF RowConsistent
      <4>3. \A j \in 1 .. n : decisions'[j].code = decisions[j].code
        BY <1>5
      <4> QED
        <5>1. \A code : Follows(code, i, decisions) => Follows(code, i, decisions')
          BY <1>3, <4>1, <4>3, StillFollows, Zenon
        <5> QED
          BY <4>2, <5>1, Zenon
    <3>3. \A j \in 1 .. n + 1 : decisions'[j].code = decisions[i].code => j = i
      BY <1>3, <1>4, <1>5, <1>8, <3>1 DEF RowConsistent
    <3>4. Agrees(decisions[i])
      BY <3>1 DEF RowConsistent
    <3> QED
      BY <1>6, <3>1, <3>2, <3>3, <3>4 DEF RowConsistent
  <2>2. RowConsistent(decisions', n + 1)
    <3>1. Follows(row.code, n + 1, decisions')
      <4>1. n + 1 \in 1 .. n + 1 /\ n + 1 \in Nat /\ n + 1 <= n + 1
        BY <1>3
      <4>2. \A j \in 1 .. n : decisions'[j].code = decisions[j].code
        BY <1>5
      <4> QED
        BY <1>2, <1>3, <4>1, <4>2, StillFollows, Zenon
    <3>2. \A j \in 1 .. n + 1 : decisions'[j].code = row.code => j = n + 1
      BY <1>4, <1>5, <1>8
    <3> QED
      BY <1>2, <1>5, <1>6, <3>1, <3>2 DEF RowConsistent
  <2> QED
    BY <1>8, <2>1, <2>2
<1>10. DecisionsConsistent'
  BY <1>6, <1>9, Consistent
<1>11. Len(decisions') >= n /\ \A i \in 1 .. n : decisions'[i].code = decisions[i].code
  BY <1>3, <1>5
<1> QED
  BY <1>1, <1>5, <1>10, <1>11, DecisionsMove DEF n

LEMMA CommitUpdateKeeps ==
    ASSUME IInv, NEW r \in Request, CommitUpdate(r)
    PROVE  IInv'
<1> DEFINE row == calls[r].row
           of == calls[r].of
           n == Len(decisions)
<1>1. /\ calls[r].stage = "write" /\ calls[r].route = "decisions" /\ of # None
      /\ decisions' = [decisions EXCEPT ![of] = row]
      /\ calls' = [calls EXCEPT ![r] = Idle]
      /\ UNCHANGED <<accounts, users, document, kept, lost>>
  BY DEF CommitUpdate, Writing
<1>2. /\ row \in DecisionRow /\ Agrees(row)
      /\ of \in DOMAIN decisions /\ row.code = decisions[of].code
  BY <1>1 DEF IInv, RowsHold, RowHolds
<1>3. decisions \in Seq(DecisionRow) /\ n \in Nat /\ DOMAIN decisions = 1 .. n
  BY LenProperties DEF IInv, TablesOK
<1> HIDE DEF row, of
<1>4. /\ decisions' \in Seq(DecisionRow) /\ Len(decisions') = n
      /\ \A i \in 1 .. n : decisions'[i] = IF i = of THEN row ELSE decisions[i]
  BY <1>1, <1>2, <1>3, ExceptSeq
<1>5. \A i \in 1 .. n : RowConsistent(decisions, i)
  BY <1>3, Consistent DEF IInv
<1>6. DOMAIN decisions' = 1 .. n
  BY <1>4, LenProperties
<1> HIDE DEF n
<1>7. \A i \in 1 .. n : decisions'[i].code = decisions[i].code
  BY <1>2, <1>4
<1>8. ASSUME NEW i \in 1 .. n PROVE RowConsistent(decisions', i)
  <2>1. RowConsistent(decisions, i)
    BY <1>5
  <2>2. Follows(decisions[i].code, i, decisions')
    <3>1. i \in 1 .. n + 1 /\ i \in Nat /\ i <= i
      BY <1>3
    <3>2. Follows(decisions[i].code, i, decisions)
      BY <2>1 DEF RowConsistent
    <3> QED
      <4>1. \A code : Follows(code, i, decisions) => Follows(code, i, decisions')
        BY <1>3, <1>7, <3>1, StillFollows, Zenon
      <4> QED
        BY <3>2, <4>1, Zenon
  <2>3. \A j \in 1 .. n : decisions'[j].code = decisions[i].code => j = i
    BY <1>3, <1>7, <2>1 DEF RowConsistent
  <2>4. Agrees(decisions'[i])
    BY <1>2, <1>4, <2>1 DEF RowConsistent
  <2> QED
    BY <1>6, <1>7, <2>2, <2>3, <2>4 DEF RowConsistent
<1>9. DecisionsConsistent'
  BY <1>6, <1>8, Consistent
<1>10. Len(decisions') >= n
  BY <1>3, <1>4
<1> QED
  BY <1>1, <1>4, <1>7, <1>9, <1>10, DecisionsMove DEF n

-----------------------------------------------------------------------------
\* The document and its history are written

LEMMA DocumentMoves ==
    ASSUME IInv, NEW r \in Request, NEW k, calls' = [calls EXCEPT ![r] = k],
           UNCHANGED <<accounts, users, decisions>>,
           Shaped(k), Seen(k, accounts, users), RowHolds(k, decisions), k.stage # "write",
           document' # None => document' \in DocumentRow,
           kept' \in [Version -> Reference \cup {None}],
           \A v \in Version :
              HasHistory(v, kept, lost, calls) => HasHistory(v, kept', lost', calls'),
           \/ document' = document
           \/ HasHistory(document'.version, kept', lost', calls')
    PROVE  IInv'
<1>1. /\ calls' = [q \in Request |-> calls'[q]]
      /\ \A q \in Request : calls'[q] = IF q = r THEN k ELSE calls[q]
  BY OtherCalls DEF IInv
<1>2. CallsShaped'
  BY <1>1 DEF IInv, CallsShaped
<1>3. CallsSeen'
  BY <1>1 DEF IInv, CallsSeen
<1>4. TablesOK' /\ DecisionsConsistent'
  BY DEF IInv, TablesOK, DecisionsConsistent
<1>5. RowsHold'
  BY <1>1 DEF IInv, RowsHold
<1>6. WritesKeepHistory'
  <2> SUFFICES ASSUME NEW q \in Request,
                      calls'[q].stage = "write", calls'[q].route = "documents",
                      calls'[q].of = FALSE
               PROVE  HasHistory(calls'[q].row.version, kept', lost', calls')
    BY DEF WritesKeepHistory
  <2>1. calls'[q] = calls[q]
    BY <1>1
  <2>2. calls[q].row.version \in Version
    BY <2>1 DEF IInv, RowsHold, RowHolds, DocumentRow
  <2>3. HasHistory(calls[q].row.version, kept, lost, calls)
    BY <2>1 DEF IInv, WritesKeepHistory
  <2> QED
    BY <2>1, <2>2, <2>3
<1>7. CurrentVersionKept'
  <2> SUFFICES ASSUME document' # None
               PROVE  HasHistory(document'.version, kept', lost', calls')
    BY DEF CurrentVersionKept, HasHistory
  <2>1. CASE document' = document
    <3>1. document.version \in Version
      BY <2>1 DEF DocumentRow
    <3>2. HasHistory(document.version, kept, lost, calls)
      BY <2>1 DEF IInv, CurrentVersionKept, HasHistory
    <3> QED
      BY <2>1, <3>1, <3>2
  <2> QED
    BY <2>1
<1> QED
  BY <1>2, <1>3, <1>4, <1>5, <1>6, <1>7 DEF IInv

LEMMA WriteDocumentKeeps ==
    ASSUME IInv, NEW r \in Request, calls[r].stage \in {"admitted", "write"},
           NEW row \in DocumentRow, NEW adds \in BOOLEAN, WriteDocument(r, row, adds),
           adds = FALSE => HasHistory(row.version, kept, lost, calls)
    PROVE  IInv'
<1>1. /\ document' = row
      /\ calls' = [calls EXCEPT ![r] =
                      IF adds THEN [calls[r] EXCEPT !.stage = "version", !.of = None,
                                                    !.row = row]
                      ELSE Idle]
      /\ UNCHANGED <<accounts, users, decisions, kept, lost>>
  BY Zenon DEF WriteDocument
<1>2. Full(calls[r]) /\ "portal" \in calls[r].could
  BY AdmittedCall
<1>3. \A cs : (\A q \in Request : calls[q].stage = "version" => cs[q] = calls[q]) =>
         \A v \in Version : HasHistory(v, kept, lost, calls) => HasHistory(v, kept, lost, cs)
  BY DEF HasHistory
<1>4. CASE adds
  <2> DEFINE k == CallAt("version", calls[r].by, calls[r].route, None, row, calls[r].could)
  <2>1. calls' = [calls EXCEPT ![r] = k]
    <3>1. [calls[r] EXCEPT !.stage = "version", !.of = None, !.row = row] = k
      BY <1>2, Restaged
    <3>2. calls' = [calls EXCEPT ![r] = [calls[r] EXCEPT !.stage = "version", !.of = None,
                                                         !.row = row]]
      BY <1>1, <1>4, Zenon
    <3> QED
      BY <3>1, <3>2, Zenon
  <2>2. /\ k.stage = "version" /\ k.by = calls[r].by /\ k.route = calls[r].route
        /\ k.row = row /\ k.could = calls[r].could
    BY Fields
  <2>3. Full(k)
    BY FullAt
  <2> HIDE DEF k
  <2>4. Gates(k, accounts, users) = Gates(calls[r], accounts, users)
    BY <2>2, SameGates
  <2>5. Seen(k, accounts, users)
    BY <1>2, <2>2, <2>4 DEF IInv, CallsSeen, Seen
  <2>6. RowHolds(k, decisions)
    BY <2>2 DEF RowHolds
  <2>7. \A q \in Request : calls'[q] = IF q = r THEN k ELSE calls[q]
    BY <2>1, OtherCalls DEF IInv
  <2>8. \A v \in Version :
           HasHistory(v, kept, lost, calls) => HasHistory(v, kept', lost', calls')
    BY <1>1, <1>3, <2>7
  <2>9. HasHistory(document'.version, kept', lost', calls')
    BY <1>1, <2>2, <2>7 DEF HasHistory
  <2>10. kept' \in [Version -> Reference \cup {None}]
    BY <1>1 DEF IInv, TablesOK
  <2>11. document' \in DocumentRow /\ UNCHANGED <<accounts, users, decisions>>
    BY <1>1
  <2>12. Shaped(k) /\ k.stage # "write"
    BY <2>2, <2>3 DEF Shaped
  <2> QED
    BY <2>1, <2>5, <2>6, <2>8, <2>9, <2>10, <2>11, <2>12, DocumentMoves
<1>5. CASE ~ adds
  <2>1. calls' = [calls EXCEPT ![r] = Idle]
    BY <1>1, <1>5
  <2>2. \A q \in Request : calls'[q] = IF q = r THEN Idle ELSE calls[q]
    BY <2>1, OtherCalls DEF IInv
  <2>3. \A v \in Version :
           HasHistory(v, kept, lost, calls) => HasHistory(v, kept', lost', calls')
    BY <1>1, <1>3, <2>2
  <2>4. HasHistory(document'.version, kept', lost', calls')
    BY <1>1, <1>5, <2>3 DEF DocumentRow
  <2>5. kept' \in [Version -> Reference \cup {None}]
    BY <1>1 DEF IInv, TablesOK
  <2>6. document' \in DocumentRow /\ UNCHANGED <<accounts, users, decisions>>
    BY <1>1
  <2>7. /\ Shaped(Idle) /\ Seen(Idle, accounts, users) /\ RowHolds(Idle, decisions)
        /\ Idle.stage # "write"
    BY IdleHolds, NotFull
  <2> QED
    BY <2>1, <2>3, <2>4, <2>5, <2>6, <2>7, DocumentMoves
<1> QED
  BY <1>4, <1>5

LEMMA RegisterDocumentKeeps ==
    ASSUME IInv, NEW r \in Request, NEW row \in [version : Version, reference : Reference],
           RegisterDocument(r, row)
    PROVE  IInv'
<1>1. calls[r].stage = "admitted" /\ WriteDocument(r, row, TRUE) /\ row \in DocumentRow
  BY DEF RegisterDocument, Admitted, DocumentRow
<1> QED
  BY <1>1, WriteDocumentKeeps

LEMMA CommitDocumentKeeps ==
    ASSUME IInv, NEW r \in Request, CommitDocument(r)
    PROVE  IInv'
<1>1. /\ calls[r].stage = "write" /\ calls[r].route = "documents"
      /\ WriteDocument(r, calls[r].row, calls[r].of)
  BY DEF CommitDocument, Writing
<1>2. calls[r].row \in DocumentRow /\ calls[r].of \in BOOLEAN
  BY <1>1 DEF IInv, RowsHold, RowHolds
<1>3. calls[r].of = FALSE => HasHistory(calls[r].row.version, kept, lost, calls)
  BY <1>1 DEF IInv, WritesKeepHistory
<1> QED
  BY <1>1, <1>2, <1>3, WriteDocumentKeeps

\* A version is added, or its request is stopped on it: its row is on record.
LEMMA VersionEnds ==
    ASSUME IInv, NEW r \in Request, calls' = [calls EXCEPT ![r] = Idle],
           UNCHANGED <<accounts, users, decisions, document>>,
           kept' \in [Version -> Reference \cup {None}],
           \A v \in Version : kept[v] # None => kept'[v] # None,
           \A v \in Version : v \in lost => v \in lost' \/ kept'[v] # None,
           calls[r].stage = "version" =>
              kept'[calls[r].row.version] # None \/ calls[r].row.version \in lost'
    PROVE  IInv'
<1>1. \A q \in Request : calls'[q] = IF q = r THEN Idle ELSE calls[q]
  BY OtherCalls DEF IInv
<1>2. \A v \in Version :
         HasHistory(v, kept, lost, calls) => HasHistory(v, kept', lost', calls')
  BY <1>1, HistoryGrows
<1>3. document' # None => document' \in DocumentRow
  BY DEF IInv, TablesOK
<1>4. /\ Shaped(Idle) /\ Seen(Idle, accounts, users) /\ RowHolds(Idle, decisions)
      /\ Idle.stage # "write"
  BY IdleHolds, NotFull
<1> QED
  BY <1>2, <1>3, <1>4, DocumentMoves

LEMMA AddVersionKeeps ==
    ASSUME IInv, NEW r \in Request, AddVersion(r)
    PROVE  IInv'
<1> DEFINE v0 == calls[r].row.version
           ref == IF kept[v0] = None THEN calls[r].row.reference ELSE kept[v0]
<1>1. /\ calls[r].stage = "version"
      /\ kept' = [kept EXCEPT ![v0] = ref] /\ lost' = lost \ {v0}
      /\ calls' = [calls EXCEPT ![r] = Idle]
      /\ UNCHANGED <<accounts, users, decisions, document>>
  BY DEF AddVersion
<1>2. v0 \in Version /\ calls[r].row.reference \in Reference
  BY <1>1 DEF IInv, RowsHold, RowHolds, DocumentRow
<1>3. kept \in [Version -> Reference \cup {None}]
  BY DEF IInv, TablesOK
<1>4. ref \in Reference
  BY <1>2, <1>3
<1> HIDE DEF v0, ref
<1>5. /\ kept' \in [Version -> Reference \cup {None}] /\ kept'[v0] = ref
      /\ \A v \in Version : v # v0 => kept'[v] = kept[v]
  BY <1>1, <1>2, <1>3, <1>4
<1>6. kept'[v0] # None
  BY <1>4, <1>5, PortalServerAssumption
<1> QED
  BY <1>1, <1>5, <1>6, VersionEnds DEF v0

LEMMA EndKeeps ==
    ASSUME IInv, NEW r \in Request, End(r)
    PROVE  IInv'
<1>1. /\ calls' = [calls EXCEPT ![r] = Idle]
      /\ UNCHANGED <<accounts, users, decisions, document, kept>>
      /\ lost' = IF calls[r].stage = "version" /\ kept[calls[r].row.version] = None
                 THEN lost \cup {calls[r].row.version} ELSE lost
  BY DEF End
<1>2. kept' \in [Version -> Reference \cup {None}]
  BY <1>1 DEF IInv, TablesOK
<1>3. lost \subseteq lost'
  BY <1>1
<1>4. calls[r].stage = "version" =>
         kept'[calls[r].row.version] # None \/ calls[r].row.version \in lost'
  BY <1>1
<1> QED
  BY <1>1, <1>2, <1>3, <1>4, VersionEnds

-----------------------------------------------------------------------------
\* Theorems

LEMMA InitHolds == Init => IInv
<1> SUFFICES ASSUME Init PROVE IInv
  OBVIOUS
<1>1. /\ calls = [r \in Request |-> Idle] /\ decisions = <<>> /\ document = None
      /\ kept = [v \in Version |-> None]
  BY DEF Init
<1>2. calls = [r \in Request |-> calls[r]] /\ \A r \in Request : calls[r] = Idle
  BY <1>1
<1>3. CallsShaped /\ CallsSeen /\ RowsHold
  BY <1>2, IdleHolds DEF CallsShaped, CallsSeen, RowsHold
<1>4. WritesKeepHistory
  BY <1>2, NotFull DEF WritesKeepHistory
<1>5. decisions \in Seq(DecisionRow) /\ DOMAIN decisions = {}
  BY <1>1
<1>6. TablesOK /\ DecisionsConsistent /\ CurrentVersionKept
  BY <1>1, <1>5 DEF TablesOK, DecisionsConsistent, CurrentVersionKept
<1> QED
  BY <1>3, <1>4, <1>6 DEF IInv

LEMMA NextKeeps == IInv /\ [Next]_vars => IInv'
<1> SUFFICES ASSUME IInv, [Next]_vars PROVE IInv'
  OBVIOUS
<1>1. CASE UNCHANGED vars
  <2>1. UNCHANGED <<accounts, users, decisions, document, kept, calls, lost>>
    BY <1>1 DEF vars, tables
  <2> QED
    BY <2>1 DEF IInv, CallsShaped, CallsSeen, TablesOK, RowsHold, WritesKeepHistory,
                DecisionsConsistent, CurrentVersionKept
<1>2. ASSUME NEW p \in Person, SetUser(p) PROVE IInv'
  BY <1>2, SetUserKeeps
<1>3. ASSUME NEW r \in Request,
             \/ Bootstrap(r) \/ CommitChange(r)
             \/ \E p \in Person, row \in NewAccounts : CreateAccount(r, p, row)
      PROVE  IInv'
  BY <1>3, AccountsKeep
<1>4. ASSUME NEW r \in Request, Admit(r) \/ Forward(r) \/ End(r) PROVE IInv'
  BY <1>4, AdmitKeeps, ForwardKeeps, EndKeeps
<1>5. ASSUME NEW r \in Request, CommitRegister(r) \/ CommitUpdate(r) PROVE IInv'
  BY <1>5, CommitRegisterKeeps, CommitUpdateKeeps
<1>6. ASSUME NEW r \in Request, CommitDocument(r) \/ AddVersion(r) PROVE IInv'
  BY <1>6, CommitDocumentKeeps, AddVersionKeeps
<1>7. ASSUME NEW r \in Request, NEW p \in Person, BeginBootstrap(r, p) PROVE IInv'
  BY <1>7, BeginBootstrapKeeps
<1>8. ASSUME NEW r \in Request, NEW p \in Person, NEW route \in Route, Receive(r, p, route)
      PROVE  IInv'
  BY <1>8, ReceiveKeeps
<1>9. ASSUME NEW r \in Request, NEW p \in Person, NEW change, BeginChange(r, p, change)
      PROVE  IInv'
  BY <1>9, BeginChangeKeeps
<1>10. ASSUME NEW r \in Request, NEW status \in DecisionStatus \cup {None},
              \/ \E code \in Codes \cup {None} : BeginRegister(r, code, status)
              \/ \E i \in DOMAIN decisions : BeginUpdate(r, i, status)
       PROVE  IInv'
  BY <1>10, BeginRegisterKeeps, BeginUpdateKeeps
<1>11. ASSUME NEW r \in Request, NEW row \in [version : Version, reference : Reference],
              RegisterDocument(r, row)
       PROVE  IInv'
  BY <1>11, RegisterDocumentKeeps
<1>12. ASSUME NEW r \in Request,
              NEW input \in [version : Version \cup {None}, reference : Reference \cup {None}],
              BeginDocument(r, input)
       PROVE  IInv'
  BY <1>12, BeginDocumentKeeps
<1> QED
  BY <1>1, <1>2, <1>3, <1>4, <1>5, <1>6, <1>7, <1>8, <1>9, <1>10, <1>11, <1>12, Zenon
     DEF Next

\* Whatever calls interleave, and wherever they stop, the invariant of this module
\* holds: it says of each request what it saw, and what the row it is about to
\* write is worth by the time it writes it.
THEOREM PortalServerInvariant == Spec => []IInv
BY InitHolds, NextKeeps, PTL DEF Spec

\* A call that goes on to its reads and writes was admitted by an account that was
\* active and entitled to it at some moment since the call began, and one that a
\* platform service answers by an active user too: the eight hours of the cookie
\* extend neither.
THEOREM CallersLiveHolds == Spec => []CallersLive
<1>1. IInv => CallersLive
  <2> SUFFICES ASSUME IInv, NEW r \in Request
               PROVE  /\ calls[r].stage \in {"admitted", "write", "version", "served"} =>
                            "portal" \in calls[r].could
                      /\ calls[r].stage = "served" => "platform" \in calls[r].could
    BY DEF CallersLive
  <2>1. calls[r].stage \in {"admitted", "write", "version", "served"} => Full(calls[r])
    BY Stages DEF IInv, CallsShaped
  <2> QED
    BY <2>1 DEF IInv, CallsSeen, Seen
<1> QED
  BY <1>1, PortalServerInvariant, PTL

\* Codes of management decisions are distinct, each one that nextCode computed
\* follows an earlier row's, and no open decision has a closing date, whichever
\* requests read the table before others wrote it and whatever codes and statuses
\* callers supply.
THEOREM DecisionsConsistentHolds == Spec => []DecisionsConsistent
<1>1. IInv => DecisionsConsistent
  BY DEF IInv
<1> QED
  BY <1>1, PortalServerInvariant, PTL

\* No interleaving of updates puts the document at a version that has no history
\* and that no request is adding or was stopped on.
THEOREM CurrentVersionKeptHolds == Spec => []CurrentVersionKept
<1>1. IInv => CurrentVersionKept
  BY DEF IInv
<1> QED
  BY <1>1, PortalServerInvariant, PTL
=============================================================================
