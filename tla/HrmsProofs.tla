----------------------------- MODULE HrmsProofs -----------------------------
(***************************************************************************)
(* Theorems of HrmsLifecycle, for any cases, requests, workers and bounds: *)
(* the change a case makes, its completion and the approval that caused    *)
(* them stand or fall together, although every request validates what it   *)
(* writes against rows it read in an earlier transaction.                  *)
(***************************************************************************)
EXTENDS HrmsLifecycle, SequenceTheorems, TLAPS

\* What a request carries from one transaction to the next still names rows
\* that exist, since no case, review or instance is ever deleted.
CallHolds(k, cs, rv, inst) ==
    /\ k.op # "idle" => k.case \in Case /\ cs[k.case].status # "ABSENT"
    /\ k.op = "transition" => k.to \in Terminal
    /\ k.op = "review" =>
          /\ cs[k.case].type = "probation"
          /\ k.decision \in ReviewDecision
          /\ k.row \in DOMAIN rv[k.case]
    /\ k.op = "start" => cs[k.case].type \in Submittable
    /\ k.op \in {"link", "reconcile"} =>
          k.row \in DOMAIN inst /\ inst[k.row].case = k.case

CallsHold == \A r \in Request : CallHolds(calls[r], cases, reviews, instances)

\* An instance is of a case that can be submitted; a link is to an instance of
\* the case that has it.
InstancesOfCases ==
    /\ \A i \in DOMAIN instances :
          /\ cases[instances[i].case].status # "ABSENT"
          /\ cases[instances[i].case].type \in Submittable
    /\ \A c \in Case : cases[c].link # 0 =>
          /\ cases[c].link \in DOMAIN instances
          /\ instances[cases[c].link].case = c

\* The unique index on the ACTIVE instances of a subject.
OneActive ==
    \A i, j \in DOMAIN instances :
       /\ instances[i].case = instances[j].case
       /\ instances[i].status = "ACTIVE" /\ instances[j].status = "ACTIVE"
       => i = j

\* A probation case is created with its first review.
ReviewsBegun == \A c \in Case : cases[c].type = "probation" => reviews[c] # <<>>

\* What a worker has listed was a request, and still is one.
QueuedAreRequests ==
    \A w \in Worker : \A c \in queues[w] : requests[c].status # "ABSENT"

IInv ==
    /\ TypeOK
    /\ CallsHold
    /\ InstancesOfCases
    /\ OneActive
    /\ ReviewsBegun
    /\ QueuedAreRequests
    /\ AllOrNothing
    /\ ApprovalTakesEffect
    /\ ReviewsInOrder

USE HrmsBoundAssumption, HrmsNoneAssumption

-----------------------------------------------------------------------------
\* Rows and what is written to them

LEMMA IdleIsCall == Idle \in Call
BY DEF Idle, Call

LEMMA IdleHolds ==
    \A cs, rv, inst : CallHolds(Idle, cs, rv, inst)
BY DEF CallHolds, Idle

\* What a request may note, from the idle record.
LEMMA CallFields ==
    ASSUME NEW op \in {"transition", "review", "start", "link", "reconcile"},
           NEW c \in Case
    PROVE  /\ [Idle EXCEPT !.op = op, !.case = c] \in Call
           /\ \A to \in Open \cup Terminal :
                 [Idle EXCEPT !.op = op, !.case = c, !.to = to] \in Call
           /\ \A row \in 0 .. MaxInstances + MaxReviews :
                 /\ [Idle EXCEPT !.op = op, !.case = c, !.row = row] \in Call
                 /\ \A d \in ReviewDecision :
                       [Idle EXCEPT !.op = op, !.case = c, !.decision = d, !.row = row]
                          \in Call
<1>1. \A k \in Call : [k EXCEPT !.op = op] \in Call /\ [k EXCEPT !.case = c] \in Call
  BY DEF Call
<1>2. \A k \in Call, to \in Open \cup Terminal : [k EXCEPT !.to = to] \in Call
  BY DEF Call
<1>3. \A k \in Call, row \in 0 .. MaxInstances + MaxReviews : [k EXCEPT !.row = row] \in Call
  BY DEF Call
<1>4. \A k \in Call, d \in ReviewDecision : [k EXCEPT !.decision = d] \in Call
  BY DEF Call
<1> QED
  BY <1>1, <1>2, <1>3, <1>4, IdleIsCall

\* A status written by id alone changes that one column of that one case.
LEMMA StatusWritten ==
    ASSUME cases \in [Case -> CaseRow], NEW c \in Case, NEW to \in Open \cup Terminal,
           cases' = [cases EXCEPT ![c].status = to]
    PROVE  /\ cases' \in [Case -> CaseRow]
           /\ \A d \in Case :
                 /\ cases'[d].type = cases[d].type
                 /\ cases'[d].link = cases[d].link
                 /\ cases'[d].status = IF d = c THEN to ELSE cases[d].status
<1> DEFINE row == [cases[c] EXCEPT !.status = to]
<1>1. /\ row \in CaseRow
      /\ row.type = cases[c].type /\ row.link = cases[c].link /\ row.status = to
  BY DEF CaseRow
<1>2. cases' = [cases EXCEPT ![c] = row]
  OBVIOUS
<1> HIDE DEF row
<1> QED
  BY <1>1, <1>2

LEMMA InstanceCases ==
    ASSUME TypeOK
    PROVE  \A i \in DOMAIN instances : instances[i] \in InstanceRow /\ instances[i].case \in Case
<1>1. instances \in Seq(InstanceRow)
  BY DEF TypeOK
<1>2. \A i \in DOMAIN instances : instances[i] \in InstanceRow
  BY <1>1, ElementOfSeq, LenProperties
<1> QED
  BY <1>2 DEF InstanceRow

\* A decision changes the status of one instance.
LEMMA InstanceDecided ==
    ASSUME TypeOK, NEW i \in DOMAIN instances,
           NEW s \in {"APPROVED", "REJECTED", "CANCELLED"}, Decided(i, s)
    PROVE  /\ instances[i].status = "ACTIVE"
           /\ instances' \in Seq(InstanceRow) /\ Len(instances') = Len(instances)
           /\ DOMAIN instances' = DOMAIN instances
           /\ \A j \in DOMAIN instances :
                 /\ instances[j] \in InstanceRow
                 /\ instances'[j].case = instances[j].case
                 /\ instances'[j].status = IF j = i THEN s ELSE instances[j].status
<1> DEFINE row == [instances[i] EXCEPT !.status = s]
<1>0. instances \in Seq(InstanceRow)
  BY DEF TypeOK
<1>1. instances' = [instances EXCEPT ![i] = row]
  BY Zenon DEF Decided
<1>2. instances[i] \in InstanceRow /\ i \in 1 .. Len(instances)
      /\ DOMAIN instances = 1 .. Len(instances)
  BY <1>0, ElementOfSeq, LenProperties
<1>3. row \in InstanceRow /\ row.case = instances[i].case /\ row.status = s
  BY <1>2 DEF InstanceRow
<1>4. \A j \in DOMAIN instances : instances[j] \in InstanceRow
  BY <1>0, ElementOfSeq, LenProperties
<1>5. /\ [instances EXCEPT ![i] = row] \in Seq(InstanceRow)
      /\ Len([instances EXCEPT ![i] = row]) = Len(instances)
      /\ \A j \in 1 .. Len(instances) :
            [instances EXCEPT ![i] = row][j] = IF j = i THEN row ELSE instances[j]
  BY <1>0, <1>2, <1>3, ExceptSeq
<1> HIDE DEF row
<1>6. DOMAIN instances' = DOMAIN instances
  BY <1>1
<1>7. instances[i].status = "ACTIVE"
  BY DEF Decided
<1> QED
  BY <1>1, <1>2, <1>3, <1>4, <1>5, <1>6, <1>7

\* Appending to a sequence: its elements, and where the new one is.
LEMMA Appended ==
    ASSUME NEW S, NEW s \in Seq(S), NEW x \in S
    PROVE  /\ Append(s, x) \in Seq(S)
           /\ Len(Append(s, x)) = Len(s) + 1
           /\ DOMAIN s = 1 .. Len(s) /\ Len(s) \in Nat
           /\ DOMAIN Append(s, x) = DOMAIN s \cup {Len(s) + 1}
           /\ \A j \in DOMAIN s : Append(s, x)[j] = s[j] /\ s[j] \in S
           /\ Append(s, x)[Len(s) + 1] = x
<1>1. Len(s) \in Nat /\ DOMAIN s = 1 .. Len(s)
  BY LenProperties
<1>2. DOMAIN Append(s, x) = 1 .. Len(s) + 1
  OBVIOUS
<1>3. \A j \in DOMAIN s : s[j] \in S
  BY <1>1, ElementOfSeq
<1> QED
  BY <1>1, <1>2, <1>3

\* A request whose record another request does not touch.
LEMMA OtherCalls ==
    ASSUME calls \in [Request -> Call], NEW r \in Request, NEW k \in Call,
           calls' = [calls EXCEPT ![r] = k]
    PROVE  /\ calls' \in [Request -> Call]
           /\ \A q \in Request : calls'[q] = IF q = r THEN k ELSE calls[q]
OBVIOUS

\* No case, review or instance disappears or becomes another's.
RowsSurvive ==
    /\ \A c \in Case : cases[c].status # "ABSENT" =>
          /\ cases'[c].status # "ABSENT"
          /\ cases'[c].type = cases[c].type
          /\ DOMAIN reviews[c] \subseteq DOMAIN reviews'[c]
    /\ DOMAIN instances \subseteq DOMAIN instances'
    /\ \A i \in DOMAIN instances : instances'[i].case = instances[i].case

\* So what a request noted still names what it named.
LEMMA CallsSurvive ==
    ASSUME RowsSurvive, NEW k, CallHolds(k, cases, reviews, instances)
    PROVE  CallHolds(k, cases', reviews', instances')
<1>1. k.op # "idle" =>
         /\ k.case \in Case /\ cases'[k.case].status # "ABSENT"
         /\ cases'[k.case].type = cases[k.case].type
         /\ DOMAIN reviews[k.case] \subseteq DOMAIN reviews'[k.case]
  BY DEF RowsSurvive, CallHolds
<1>2. k.op \in {"link", "reconcile"} =>
         k.row \in DOMAIN instances' /\ instances'[k.row].case = k.case
  BY DEF RowsSurvive, CallHolds
<1> QED
  BY <1>1, <1>2 DEF CallHolds

-----------------------------------------------------------------------------
\* Steps that write only to cases, and what the request notes

\* The status of an open case may change, and a case be linked to an instance
\* of its own: nothing that has been decided is disturbed.
LEMMA CaseMoves ==
    ASSUME IInv,
           UNCHANGED <<reviews, writes, instances, requests, active, queues, failing>>,
           rejections' \in [InstanceId -> 0 .. MaxCount],
           cases' \in [Case -> CaseRow],
           \A c \in Case :
              /\ cases'[c].type = cases[c].type
              /\ cases[c].status # "ABSENT" => cases'[c].status # "ABSENT"
              /\ cases[c].status \in Terminal => cases'[c].status = cases[c].status
              /\ \/ cases'[c].link = cases[c].link
                 \/ /\ cases'[c].link \in DOMAIN instances
                    /\ instances[cases'[c].link].case = c,
           calls' \in [Request -> Call],
           \A r \in Request :
              calls'[r] = calls[r] \/ CallHolds(calls'[r], cases', reviews', instances')
    PROVE  IInv'
<1>1. TypeOK'
  BY DEF IInv, TypeOK
<1>2. RowsSurvive
  BY DEF RowsSurvive
<1>3. CallsHold'
  <2> SUFFICES ASSUME NEW r \in Request
               PROVE  CallHolds(calls'[r], cases', reviews', instances')
    BY DEF CallsHold
  <2>1. CallHolds(calls[r], cases, reviews, instances)
    BY DEF IInv, CallsHold
  <2> QED
    BY <2>1, <1>2, CallsSurvive
<1>4. InstancesOfCases'
  <2>1. \A i \in DOMAIN instances : instances[i].case \in Case
    BY InstanceCases DEF IInv
  <2> QED
    BY <2>1 DEF IInv, InstancesOfCases
<1>5. OneActive' /\ ReviewsBegun' /\ QueuedAreRequests'
  BY DEF IInv, OneActive, ReviewsBegun, QueuedAreRequests
<1>6. AllOrNothing'
  BY DEF IInv, AllOrNothing, Terminal
<1>7. ApprovalTakesEffect'
  <2>1. \A i \in DOMAIN instances : instances[i].case \in Case
    BY InstanceCases DEF IInv
  <2> QED
    BY <2>1 DEF IInv, ApprovalTakesEffect, Terminal
<1>8. ReviewsInOrder'
  BY DEF IInv, ReviewsInOrder, Terminal
<1> QED
  BY <1>1, <1>3, <1>4, <1>5, <1>6, <1>7, <1>8 DEF IInv

\* A step that moves one request on and writes no table.
LEMMA CallMoves ==
    ASSUME IInv, NEW r \in Request, NEW k \in Call,
           CallHolds(k, cases, reviews, instances),
           calls' = [calls EXCEPT ![r] = k],
           UNCHANGED <<hrmsRows, instances, rejections, requests, active, queues, failing>>
    PROVE  IInv'
<1>1. /\ calls' \in [Request -> Call]
      /\ \A q \in Request : calls'[q] = IF q = r THEN k ELSE calls[q]
  BY OtherCalls DEF IInv, TypeOK
<1>2. /\ cases \in [Case -> CaseRow] /\ rejections \in [InstanceId -> 0 .. MaxCount]
  BY DEF IInv, TypeOK
<1> QED
  BY <1>1, <1>2, CaseMoves DEF hrmsRows

LEMMA InitHolds == Init => IInv
<1> SUFFICES ASSUME Init PROVE IInv
  OBVIOUS
<1>1. instances \in Seq(InstanceRow) /\ Len(instances) = 0 /\ DOMAIN instances = {}
  BY EmptySeq DEF Init
<1>2. \A c \in Case : reviews[c] \in Seq(ReviewRow) /\ Len(reviews[c]) = 0
  BY EmptySeq DEF Init
<1>3. TypeOK
  <2>1. cases \in [Case -> CaseRow]
    BY DEF Init, CaseRow
  <2>2. reviews \in [Case -> Seq(ReviewRow)] /\ \A c \in Case : Len(reviews[c]) <= MaxReviews
    BY <1>2 DEF Init
  <2>3. requests \in [Case -> RequestRow]
    BY DEF Init, RequestRow
  <2>4. writes \in [Case -> 0 .. MaxCount] /\ rejections \in [InstanceId -> 0 .. MaxCount]
    BY DEF Init
  <2>5. active \in [Case -> BOOLEAN] /\ calls \in [Request -> Call]
    BY IdleIsCall DEF Init
  <2>6. queues \in [Worker -> SUBSET Case] /\ failing \in [Worker -> Case \cup {None}]
    BY DEF Init
  <2> QED
    BY <1>1, <2>1, <2>2, <2>3, <2>4, <2>5, <2>6 DEF TypeOK
<1>4. CallsHold
  BY IdleHolds DEF Init, CallsHold
<1>5. \A c \in Case :
         /\ cases[c].link = 0 /\ cases[c].type = None
         /\ writes[c] = 0 /\ requests[c].status = "ABSENT"
  BY DEF Init
<1>6. \A w \in Worker : queues[w] = {}
  BY DEF Init
<1>7. InstancesOfCases /\ OneActive
  BY <1>1, <1>5 DEF InstancesOfCases, OneActive
<1>8. None # "probation"
  BY DEF Type
<1>9. ReviewsBegun /\ QueuedAreRequests
  BY <1>5, <1>6, <1>8 DEF ReviewsBegun, QueuedAreRequests
<1>10. AllOrNothing /\ ApprovalTakesEffect /\ ReviewsInOrder
  BY <1>1, <1>5, <1>8 DEF AllOrNothing, ApprovalTakesEffect, ReviewsInOrder
<1> QED
  BY <1>3, <1>4, <1>7, <1>9, <1>10 DEF IInv

-----------------------------------------------------------------------------
\* lifecycleCaseService and probationService

LEMMA CreateKeeps ==
    ASSUME IInv, NEW c \in Case, NEW t \in Type, NEW first \in Seq(ReviewRow),
           \/ t # "probation" /\ first = <<>>
           \/ t = "probation" /\ first = <<"PENDING">>,
           Create(c, t, first)
    PROVE  IInv'
<1> DEFINE row == [cases[c] EXCEPT !.status = "IN_PROGRESS", !.type = t]
<1>1. /\ row \in CaseRow /\ row.type = t /\ row.status = "IN_PROGRESS"
      /\ row.link = cases[c].link
  <2>1. cases[c] \in CaseRow
    BY DEF IInv, TypeOK
  <2>2. \A r \in CaseRow : [r EXCEPT !.status = "IN_PROGRESS"] \in CaseRow
    BY DEF CaseRow, Open
  <2>3. \A r \in CaseRow : [r EXCEPT !.type = t] \in CaseRow
    BY DEF CaseRow
  <2>4. row = [[cases[c] EXCEPT !.status = "IN_PROGRESS"] EXCEPT !.type = t]
    BY Zenon
  <2>5. row \in CaseRow
    BY <2>1, <2>2, <2>3, <2>4
  <2> QED
    BY <2>1, <2>5 DEF CaseRow
<1> DEFINE cs == [cases EXCEPT ![c] = row]
<1>2. cases' = cs /\ cases[c].status = "ABSENT"
  BY DEF Create
<1> HIDE DEF row
<1>3. /\ cases' \in [Case -> CaseRow]
      /\ \A d \in Case : cases'[d] = IF d = c THEN row ELSE cases[d]
  BY <1>1, <1>2 DEF IInv, TypeOK
<1>4. /\ reviews' \in [Case -> Seq(ReviewRow)]
      /\ \A d \in Case : reviews'[d] = IF d = c THEN first ELSE reviews[d]
  BY DEF Create, IInv, TypeOK
<1>5. Len(first) = IF t = "probation" THEN 1 ELSE 0
  BY EmptySeq
<1>6. /\ UNCHANGED <<writes, instances, rejections, requests, active, calls, queues, failing>>
  BY DEF Create
<1>7. TypeOK'
  <2>1. SUFFICES \A d \in Case : Len(reviews'[d]) <= MaxReviews
    BY <1>3, <1>4, <1>6 DEF IInv, TypeOK
  <2>2. \A d \in Case : Len(reviews[d]) <= MaxReviews
    BY DEF IInv, TypeOK
  <2>3. Len(first) <= MaxReviews
    BY <1>5
  <2> QED
    BY <1>4, <2>2, <2>3
<1>8. RowsSurvive
  BY <1>2, <1>3, <1>4, <1>6 DEF RowsSurvive
<1>9. CallsHold'
  BY <1>6, <1>8, CallsSurvive DEF IInv, CallsHold
<1>10. InstancesOfCases'
  <2>1. \A i \in DOMAIN instances : instances[i].case \in Case
    BY InstanceCases DEF IInv
  <2> QED
    BY <1>1, <1>2, <1>3, <1>6, <2>1 DEF IInv, InstancesOfCases
<1>11. OneActive' /\ QueuedAreRequests'
  BY <1>6 DEF IInv, OneActive, QueuedAreRequests
<1>12. ReviewsBegun'
  <2>1. <<"PENDING">> # <<>>
    OBVIOUS
  <2> QED
    BY <1>1, <1>3, <1>4, <2>1 DEF IInv, ReviewsBegun
<1>13. AllOrNothing'
  BY <1>2, <1>3, <1>6 DEF IInv, AllOrNothing
<1>14. ApprovalTakesEffect'
  <2>1. \A i \in DOMAIN instances : instances[i].case \in Case
    BY InstanceCases DEF IInv
  <2>2. \A i \in DOMAIN instances : instances[i].case # c
    BY <1>2, <2>1 DEF IInv, InstancesOfCases
  <2> QED
    BY <1>3, <1>6, <2>1, <2>2 DEF IInv, ApprovalTakesEffect
<1>15. ReviewsInOrder'
  <2> SUFFICES ASSUME NEW d \in Case, cases'[d].type = "probation"
               PROVE  /\ \A k \in 1 .. Len(reviews'[d]) - 1 : reviews'[d][k] = "EXTENDED"
                      /\ reviews'[d][Len(reviews'[d])] # "EXTENDED"
                      /\ reviews'[d][Len(reviews'[d])] # "PENDING"
                            => cases'[d].status = "COMPLETED"
    BY DEF ReviewsInOrder
  <2>1. CASE d # c
    BY <2>1, <1>3, <1>4 DEF IInv, ReviewsInOrder
  <2>2. CASE d = c
    <3>1. t = "probation" /\ reviews'[d] = first
      BY <2>2, <1>1, <1>3, <1>4
    <3>2. reviews'[d] = <<"PENDING">>
      BY <3>1
    <3>3. Len(reviews'[d]) = 1 /\ reviews'[d][1] = "PENDING" /\ 1 .. 1 - 1 = {}
      BY <3>2
    <3> QED
      BY <3>3
  <2> QED
    BY <2>1, <2>2
<1> QED
  BY <1>7, <1>9, <1>10, <1>11, <1>12, <1>13, <1>14, <1>15 DEF IInv

LEMMA CreationsKeep ==
    ASSUME IInv, NEW c \in Case,
           \/ CreateOnboardingCase(c) \/ CreateProbationCase(c)
           \/ CreateChangeCase(c) \/ CreateOffboardingCase(c)
    PROVE  IInv'
<1>1. <<>> \in Seq(ReviewRow) /\ <<"PENDING">> \in Seq(ReviewRow)
  BY EmptySeq DEF ReviewRow
<1>2. CASE CreateProbationCase(c)
  BY <1>1, <1>2, CreateKeeps DEF CreateProbationCase, Type
<1>3. CASE CreateOnboardingCase(c)
  BY <1>1, <1>3, CreateKeeps DEF CreateOnboardingCase, Type
<1>4. CASE CreateChangeCase(c)
  BY <1>1, <1>4, CreateKeeps DEF CreateChangeCase, Type
<1>5. CASE CreateOffboardingCase(c)
  BY <1>1, <1>5, CreateKeeps DEF CreateOffboardingCase, Type
<1> QED
  BY <1>2, <1>3, <1>4, <1>5

LEMMA BeginTransitionKeeps ==
    ASSUME IInv, NEW r \in Request, NEW c \in Case, NEW to \in Terminal,
           BeginTransition(r, c, to)
    PROVE  IInv'
<1> DEFINE k == [Idle EXCEPT !.op = "transition", !.case = c, !.to = to]
<1>1. k \in Call
  BY CallFields
<1>2. k.op = "transition" /\ k.case = c /\ k.to = to
  BY DEF Idle
<1> HIDE DEF k
<1>3. cases[c].status # "ABSENT"
  BY DEF BeginTransition, Open
<1>4. CallHolds(k, cases, reviews, instances)
  BY <1>2, <1>3 DEF CallHolds
<1> QED
  BY <1>1, <1>4, CallMoves DEF BeginTransition, k

LEMMA CommitTransitionKeeps ==
    ASSUME IInv, NEW r \in Request, CommitTransition(r)
    PROVE  IInv'
<1> DEFINE c == calls[r].case
           to == calls[r].to
<1>1. c \in Case /\ cases[c].status # "ABSENT" /\ to \in Terminal
  BY DEF IInv, CallsHold, CallHolds, CommitTransition
<1>2. MayBecome(cases[c].status, to) /\ cases' = [cases EXCEPT ![c].status = to]
  BY DEF CommitTransition, UpdateStatus
<1> HIDE DEF c, to
<1>3. /\ cases' \in [Case -> CaseRow]
      /\ \A d \in Case :
            /\ cases'[d].type = cases[d].type
            /\ cases'[d].link = cases[d].link
            /\ cases'[d].status = IF d = c THEN to ELSE cases[d].status
  <2>1. cases \in [Case -> CaseRow] /\ to \in Open \cup Terminal
    BY <1>1 DEF IInv, TypeOK
  <2> QED
    BY <1>1, <1>2, <2>1, StatusWritten, ZenonT(60)
<1>4. /\ calls' \in [Request -> Call]
      /\ \A q \in Request : calls'[q] = IF q = r THEN Idle ELSE calls[q]
  BY OtherCalls, IdleIsCall DEF CommitTransition, IInv, TypeOK
<1>5. UNCHANGED <<reviews, writes, instances, rejections, requests, active, queues, failing>>
  BY DEF CommitTransition
<1>6. rejections' \in [InstanceId -> 0 .. MaxCount]
  BY <1>5 DEF IInv, TypeOK
<1>7. \A d \in Case :
         /\ cases[d].status # "ABSENT" => cases'[d].status # "ABSENT"
         /\ cases[d].status \in Terminal => cases'[d].status = cases[d].status
  BY <1>1, <1>2, <1>3 DEF MayBecome, Terminal
<1>8. \A q \in Request :
         calls'[q] = calls[q] \/ CallHolds(calls'[q], cases', reviews', instances')
  BY <1>4, IdleHolds
<1> QED
  BY <1>3, <1>4, <1>5, <1>6, <1>7, <1>8, CaseMoves

LEMMA BeginReviewKeeps ==
    ASSUME IInv, NEW r \in Request, NEW c \in Case, NEW d \in ReviewDecision,
           BeginReview(r, c, d)
    PROVE  IInv'
<1> DEFINE n == Len(reviews[c])
           k == [Idle EXCEPT !.op = "review", !.case = c, !.decision = d, !.row = n]
<1>1. reviews[c] \in Seq(ReviewRow) /\ n <= MaxReviews
  BY DEF IInv, TypeOK
<1>2. n \in Nat /\ DOMAIN reviews[c] = 1 .. n
  BY <1>1, LenProperties
<1>3. reviews[c] # <<>>
  BY DEF BeginReview, IInv, ReviewsBegun
<1>4. n \in DOMAIN reviews[c]
  BY <1>1, <1>2, <1>3, EmptySeq
<1>5. n \in 0 .. MaxInstances + MaxReviews
  BY <1>1, <1>2
<1>6. k \in Call
  BY <1>5, CallFields
<1>7. k.op = "review" /\ k.case = c /\ k.decision = d /\ k.row = n
  BY DEF Idle
<1>8. cases[c].status # "ABSENT" /\ cases[c].type = "probation"
  BY DEF BeginReview, Open
<1>9. calls' = [calls EXCEPT ![r] = k]
  BY DEF BeginReview
<1> HIDE DEF k, n
<1>10. CallHolds(k, cases, reviews, instances)
  BY <1>4, <1>7, <1>8 DEF CallHolds
<1> QED
  BY <1>6, <1>9, <1>10, CallMoves DEF BeginReview

\* recordDecision decides the last review, and an extension appends the next.
LEMMA ReviewsDecided ==
    ASSUME NEW s \in Seq(ReviewRow), NEW d \in ReviewDecision, NEW s2,
           s # <<>>, Len(s) <= MaxReviews,
           \A k \in 1 .. Len(s) - 1 : s[k] = "EXTENDED",
           \/ /\ d = "EXTENDED" /\ Len(s) < MaxReviews
              /\ s2 = Append([s EXCEPT ![Len(s)] = d], "PENDING")
           \/ /\ d # "EXTENDED"
              /\ s2 = [s EXCEPT ![Len(s)] = d]
    PROVE  /\ s2 \in Seq(ReviewRow) /\ Len(s2) <= MaxReviews /\ s2 # <<>>
           /\ DOMAIN s \subseteq DOMAIN s2
           /\ \A k \in 1 .. Len(s2) - 1 : s2[k] = "EXTENDED"
           /\ s2[Len(s2)] = IF d = "EXTENDED" THEN "PENDING" ELSE d
<1> DEFINE n == Len(s)
           e == [s EXCEPT ![n] = d]
<1>1. n \in Nat /\ DOMAIN s = 1 .. n /\ n \in 1 .. n
  BY LenProperties, EmptySeq
<1>2. d \in ReviewRow /\ "PENDING" \in ReviewRow
  BY DEF ReviewRow
<1>3. /\ e \in Seq(ReviewRow) /\ Len(e) = n
      /\ \A k \in 1 .. n : e[k] = IF k = n THEN d ELSE s[k]
  BY <1>1, <1>2, ExceptSeq
<1>4. DOMAIN e = 1 .. n
  BY <1>3, LenProperties
<1> HIDE DEF e
<1>5. \A k \in 1 .. n - 1 : e[k] = "EXTENDED"
  <2> TAKE k \in 1 .. n - 1
  <2> HIDE DEF n
  <2>1. k \in 1 .. n /\ k # n
    BY <1>1
  <2>2. e[k] = s[k]
    BY <2>1, <1>3
  <2> QED
    BY <2>2 DEF n
<1>6. e[n] = d
  BY <1>1, <1>3
<1>7. CASE d = "EXTENDED" /\ n < MaxReviews /\ s2 = Append(e, "PENDING")
  <2> HIDE DEF n
  <2>1. /\ s2 \in Seq(ReviewRow) /\ Len(s2) = n + 1
        /\ DOMAIN s2 = 1 .. n \cup {n + 1}
        /\ \A j \in 1 .. n : s2[j] = e[j]
        /\ s2[n + 1] = "PENDING"
    BY <1>2, <1>3, <1>4, <1>7, Appended
  <2>2. \A k \in 1 .. n : s2[k] = "EXTENDED"
    BY <1>1, <1>5, <1>6, <1>7, <2>1
  <2>3. n + 1 - 1 = n /\ n + 1 <= MaxReviews
    BY <1>1, <1>7
  <2>4. s2 # <<>>
    BY <2>1, <1>1, EmptySeq
  <2> QED
    BY <1>1, <1>7, <2>1, <2>2, <2>3, <2>4
<1>8. CASE d # "EXTENDED" /\ s2 = e
  <2>1. s2 # <<>>
    BY <1>1, <1>3, <1>8, EmptySeq
  <2> QED
    BY <1>1, <1>3, <1>4, <1>5, <1>6, <1>8, <2>1
<1> QED
  BY <1>7, <1>8 DEF e

LEMMA CommitReviewKeeps ==
    ASSUME IInv, NEW r \in Request, CommitReview(r)
    PROVE  IInv'
<1> DEFINE c == calls[r].case
           d == calls[r].decision
           n == calls[r].row
           to == IF d = "EXTENDED" THEN "IN_PROGRESS" ELSE "COMPLETED"
<1>1. /\ c \in Case /\ cases[c].status # "ABSENT" /\ cases[c].type = "probation"
      /\ d \in ReviewDecision /\ n \in DOMAIN reviews[c]
  BY DEF IInv, CallsHold, CallHolds, CommitReview
<1>2. /\ reviews[c][n] = "PENDING"
      /\ MayBecome(cases[c].status, to) /\ cases' = [cases EXCEPT ![c].status = to]
      /\ \/ /\ d = "EXTENDED" /\ n < MaxReviews
            /\ reviews' = [reviews EXCEPT ![c] =
                              Append([reviews[c] EXCEPT ![n] = d], "PENDING")]
         \/ /\ d # "EXTENDED"
            /\ reviews' = [reviews EXCEPT ![c] = [reviews[c] EXCEPT ![n] = d]]
  BY DEF CommitReview, Undecided, UpdateStatus
<1>3. /\ calls' \in [Request -> Call]
      /\ \A q \in Request : calls'[q] = IF q = r THEN Idle ELSE calls[q]
  BY OtherCalls, IdleIsCall DEF CommitReview, IInv, TypeOK
<1>4. UNCHANGED <<writes, instances, rejections, requests, active, queues, failing>>
  BY DEF CommitReview
<1> HIDE DEF c, d, n
<1>5. /\ reviews \in [Case -> Seq(ReviewRow)]
      /\ \A x \in Case : reviews[x] \in Seq(ReviewRow) /\ Len(reviews[x]) <= MaxReviews
      /\ cases \in [Case -> CaseRow]
  BY DEF IInv, TypeOK
<1>6. /\ reviews[c] # <<>>
      /\ \A k \in 1 .. Len(reviews[c]) - 1 : reviews[c][k] = "EXTENDED"
  BY <1>1 DEF IInv, ReviewsBegun, ReviewsInOrder
<1>7. n = Len(reviews[c])
  <2>1. DOMAIN reviews[c] = 1 .. Len(reviews[c]) /\ Len(reviews[c]) \in Nat
    BY <1>1, <1>5, LenProperties
  <2> QED
    BY <1>1, <1>2, <1>6, <2>1
<1>8. /\ reviews' = [reviews EXCEPT ![c] = reviews'[c]]
      /\ \/ /\ d = "EXTENDED" /\ Len(reviews[c]) < MaxReviews
            /\ reviews'[c] = Append([reviews[c] EXCEPT ![Len(reviews[c])] = d], "PENDING")
         \/ /\ d # "EXTENDED"
            /\ reviews'[c] = [reviews[c] EXCEPT ![Len(reviews[c])] = d]
  <2>1. CASE d = "EXTENDED"
    BY <1>1, <1>2, <1>5, <1>7, <2>1
  <2>2. CASE d # "EXTENDED"
    BY <1>1, <1>2, <1>5, <1>7, <2>2
  <2> QED
    BY <2>1, <2>2
<1> DEFINE s2 == reviews'[c]
<1>9. /\ s2 \in Seq(ReviewRow) /\ Len(s2) <= MaxReviews /\ s2 # <<>>
      /\ DOMAIN reviews[c] \subseteq DOMAIN s2
      /\ \A k \in 1 .. Len(s2) - 1 : s2[k] = "EXTENDED"
      /\ s2[Len(s2)] = IF d = "EXTENDED" THEN "PENDING" ELSE d
  BY <1>1, <1>5, <1>6, <1>8, ReviewsDecided
<1>10. /\ reviews' \in [Case -> Seq(ReviewRow)]
       /\ \A x \in Case : x # c => reviews'[x] = reviews[x]
  <2>1. reviews' = [reviews EXCEPT ![c] = s2]
    BY <1>8
  <2> HIDE DEF s2
  <2> QED
    BY <1>1, <1>5, <1>9, <2>1
<1>11. to \in Open \cup Terminal
  BY DEF Open, Terminal
<1> HIDE DEF to
<1>12. /\ cases' \in [Case -> CaseRow]
       /\ \A x \in Case :
             /\ cases'[x].type = cases[x].type
             /\ cases'[x].link = cases[x].link
             /\ cases'[x].status = IF x = c THEN to ELSE cases[x].status
  <2>1. cases' = [cases EXCEPT ![c].status = to]
    BY <1>2
  <2> QED
    BY <1>1, <1>5, <1>11, <2>1, StatusWritten, ZenonT(60)
<1>13. \A x \in Case :
          /\ cases[x].status # "ABSENT" => cases'[x].status # "ABSENT"
          /\ cases[x].status \in Terminal => cases'[x].status = cases[x].status
  BY <1>1, <1>2, <1>11, <1>12 DEF MayBecome, Terminal, Open
<1>14. TypeOK'
  <2>1. \A x \in Case : Len(reviews'[x]) <= MaxReviews
    BY <1>5, <1>9, <1>10
  <2> QED
    BY <1>3, <1>4, <1>10, <1>12, <2>1 DEF IInv, TypeOK
<1>15. RowsSurvive
  <2>1. \A x \in Case : DOMAIN reviews[x] \subseteq DOMAIN reviews'[x]
    BY <1>9, <1>10
  <2> QED
    BY <1>4, <1>12, <1>13, <2>1 DEF RowsSurvive
<1>16. CallsHold'
  BY <1>3, <1>15, CallsSurvive, IdleHolds DEF IInv, CallsHold
<1>17. InstancesOfCases'
  <2>1. \A i \in DOMAIN instances : instances[i].case \in Case
    BY InstanceCases DEF IInv
  <2> QED
    BY <1>4, <1>12, <1>13, <2>1 DEF IInv, InstancesOfCases
<1>18. OneActive' /\ QueuedAreRequests'
  BY <1>4 DEF IInv, OneActive, QueuedAreRequests
<1>19. ReviewsBegun'
  BY <1>9, <1>10, <1>12 DEF IInv, ReviewsBegun
<1>20. AllOrNothing'
  BY <1>4, <1>13 DEF IInv, AllOrNothing, Terminal
<1>21. ApprovalTakesEffect'
  <2>1. \A i \in DOMAIN instances : instances[i].case \in Case
    BY InstanceCases DEF IInv
  <2> QED
    BY <1>4, <1>13, <2>1 DEF IInv, ApprovalTakesEffect, Terminal
<1>22. ReviewsInOrder'
  <2> SUFFICES ASSUME NEW x \in Case, cases'[x].type = "probation"
               PROVE  /\ \A k \in 1 .. Len(reviews'[x]) - 1 : reviews'[x][k] = "EXTENDED"
                      /\ reviews'[x][Len(reviews'[x])] # "EXTENDED"
                      /\ reviews'[x][Len(reviews'[x])] # "PENDING"
                            => cases'[x].status = "COMPLETED"
    BY DEF ReviewsInOrder
  <2>1. CASE x # c
    <3>1. reviews'[x] = reviews[x] /\ cases[x].type = "probation"
          /\ cases'[x].status = cases[x].status
      BY <2>1, <1>10, <1>12
    <3> QED
      BY <3>1 DEF IInv, ReviewsInOrder
  <2>2. CASE x = c
    <3>1. cases'[x].status = to
      BY <2>2, <1>1, <1>12
    <3> QED
      BY <2>2, <3>1, <1>9 DEF to
  <2> QED
    BY <2>1, <2>2
<1> QED
  BY <1>14, <1>16, <1>17, <1>18, <1>19, <1>20, <1>21, <1>22 DEF IInv

-----------------------------------------------------------------------------
\* The change, the completion and the request to deactivate are one write

\* What completeCaseWithAuthoritativeWrite leaves behind it.
Completed(c) ==
    /\ cases[c].type \in Submittable /\ cases[c].status \in Open
    /\ cases' \in [Case -> CaseRow]
    /\ \A d \in Case :
          /\ cases'[d].type = cases[d].type
          /\ cases'[d].link = cases[d].link
          /\ cases'[d].status = IF d = c THEN "COMPLETED" ELSE cases[d].status
    /\ writes' \in [Case -> 0 .. MaxCount]
    /\ \A d \in Case : writes'[d] = IF d = c THEN 1 ELSE writes[d]
    /\ requests' \in [Case -> RequestRow]
    /\ \A d \in Case :
          \/ requests'[d].status = requests[d].status
          \/ d = c /\ requests[d].status = "ABSENT" /\ requests'[d].status = "REQUESTED"

LEMMA CompletionWrites ==
    ASSUME IInv, NEW c \in Case, CompleteChange(c) \/ CompleteOffboarding(c)
    PROVE  Completed(c)
<1>1. cases[c].type \in Submittable
  BY DEF CompleteChange, CompleteOffboarding, Submittable
<1>2. CompleteWithWrite(c)
  BY DEF CompleteChange, CompleteOffboarding
<1>3. cases[c].status \in Open /\ cases' = [cases EXCEPT ![c].status = "COMPLETED"]
  BY <1>2 DEF CompleteWithWrite, StillOpen, UpdateStatus
<1>4. /\ cases \in [Case -> CaseRow] /\ writes \in [Case -> 0 .. MaxCount]
      /\ requests \in [Case -> RequestRow]
  BY DEF IInv, TypeOK
<1>5. "COMPLETED" \in Open \cup Terminal
  BY DEF Terminal
<1>6. /\ cases' \in [Case -> CaseRow]
      /\ \A d \in Case :
            /\ cases'[d].type = cases[d].type
            /\ cases'[d].link = cases[d].link
            /\ cases'[d].status = IF d = c THEN "COMPLETED" ELSE cases[d].status
  BY <1>3, <1>4, <1>5, StatusWritten, ZenonT(60)
<1>7. writes[c] = 0
  <2>1. writes[c] <= 1 /\ writes[c] # 1 /\ writes[c] \in 0 .. MaxCount
    BY <1>3, <1>4 DEF IInv, AllOrNothing, Open
  <2> QED
    BY <2>1
<1>8. writes' = [writes EXCEPT ![c] = 1]
  <2>1. OneMore(writes[c]) = 1
    BY <1>7 DEF OneMore
  <2> QED
    BY <1>2, <2>1 DEF CompleteWithWrite
<1>9. /\ writes' \in [Case -> 0 .. MaxCount]
      /\ \A d \in Case : writes'[d] = IF d = c THEN 1 ELSE writes[d]
  BY <1>4, <1>8
<1>10. /\ requests' \in [Case -> RequestRow]
       /\ \A d \in Case :
             \/ requests'[d].status = requests[d].status
             \/ d = c /\ requests[d].status = "ABSENT" /\ requests'[d].status = "REQUESTED"
  <2>1. CASE requests' = requests
    BY <1>4, <2>1
  <2>2. CASE /\ requests[c].status = "ABSENT"
             /\ requests' = [requests EXCEPT ![c].status = "REQUESTED"]
    <3> DEFINE row == [requests[c] EXCEPT !.status = "REQUESTED"]
    <3>1. row \in RequestRow /\ row.status = "REQUESTED"
      BY <1>4 DEF RequestRow
    <3>2. requests' = [requests EXCEPT ![c] = row]
      BY <2>2
    <3> HIDE DEF row
    <3> QED
      BY <1>4, <2>2, <3>1, <3>2
  <2> QED
    BY <2>1, <2>2 DEF CompleteChange, CompleteOffboarding
<1> QED
  BY <1>1, <1>3, <1>6, <1>9, <1>10 DEF Completed

\* So completing a case, with or without the approval that is granted in the
\* same transaction, keeps the invariant.
LEMMA CompletionKeeps ==
    ASSUME IInv, NEW c \in Case, Completed(c),
           UNCHANGED <<reviews, rejections, active, calls, queues, failing>>,
           instances' \in Seq(InstanceRow), Len(instances') = Len(instances),
           DOMAIN instances' = DOMAIN instances,
           \A i \in DOMAIN instances :
              /\ instances'[i].case = instances[i].case
              /\ \/ instances'[i].status = instances[i].status
                 \/ /\ instances[i].case = c
                    /\ instances[i].status = "ACTIVE"
                    /\ instances'[i].status = "APPROVED"
    PROVE  IInv'
<1>1. TypeOK'
  BY DEF Completed, IInv, TypeOK
<1>2. RowsSurvive
  BY DEF RowsSurvive, Completed, Open
<1>3. CallsHold'
  BY <1>2, CallsSurvive DEF IInv, CallsHold
<1>4. \A i \in DOMAIN instances : instances[i].case \in Case
  BY InstanceCases DEF IInv
<1>5. InstancesOfCases'
  <2>1. \A d \in Case : cases'[d].link = cases[d].link
    BY DEF Completed
  <2>2. \A d \in Case : cases'[d].type = cases[d].type
                        /\ (cases[d].status # "ABSENT" => cases'[d].status # "ABSENT")
    BY DEF Completed
  <2> QED
    BY <1>4, <2>1, <2>2 DEF IInv, InstancesOfCases
<1>6. OneActive'
  BY DEF IInv, OneActive
<1>7. ReviewsBegun'
  BY DEF IInv, ReviewsBegun, Completed
<1>8. QueuedAreRequests'
  <2>1. queues \in [Worker -> SUBSET Case]
    BY DEF IInv, TypeOK
  <2>2. \A d \in Case : requests[d].status # "ABSENT" => requests'[d].status # "ABSENT"
    BY DEF Completed
  <2> QED
    BY <2>1, <2>2 DEF IInv, QueuedAreRequests
<1>9. AllOrNothing'
  BY DEF IInv, AllOrNothing, Completed
<1>10. ApprovalTakesEffect'
  <2>1. \A i \in DOMAIN instances : instances[i].status = "APPROVED" =>
           instances[i].case # c
    BY DEF IInv, ApprovalTakesEffect, Completed, Open
  <2>2. SUFFICES ASSUME NEW i \in DOMAIN instances, instances'[i].status = "APPROVED"
                 PROVE  /\ cases'[instances[i].case].status = "COMPLETED"
                        /\ writes'[instances[i].case] = 1
                        /\ \A j \in DOMAIN instances :
                              /\ instances[j].case = instances[i].case
                              /\ instances'[j].status = "APPROVED"
                              => j = i
    BY DEF ApprovalTakesEffect
  <2>3. CASE instances[i].status = "APPROVED"
    <3>1. /\ cases[instances[i].case].status = "COMPLETED"
          /\ writes[instances[i].case] = 1
          /\ \A j \in DOMAIN instances :
                /\ instances[j].case = instances[i].case
                /\ instances[j].status = "APPROVED"
                => j = i
      BY <2>3 DEF IInv, ApprovalTakesEffect
    <3>2. instances[i].case \in Case /\ instances[i].case # c
      BY <1>4, <2>1, <2>3
    <3>3. /\ cases'[instances[i].case].status = cases[instances[i].case].status
          /\ writes'[instances[i].case] = writes[instances[i].case]
      BY <3>2 DEF Completed
    <3>4. \A j \in DOMAIN instances :
             /\ instances[j].case = instances[i].case
             /\ instances'[j].status = "APPROVED"
             => instances[j].status = "APPROVED"
      BY <3>2
    <3> QED
      BY <3>1, <3>3, <3>4
  <2>4. CASE /\ instances[i].case = c
             /\ instances[i].status = "ACTIVE"
    <3>1. \A j \in DOMAIN instances :
             /\ instances[j].case = c
             /\ instances'[j].status = "APPROVED"
             => instances[j].status = "ACTIVE"
      BY <2>1
    <3>2. \A j \in DOMAIN instances :
             /\ instances[j].case = c
             /\ instances'[j].status = "APPROVED"
             => j = i
      BY <2>4, <3>1 DEF IInv, OneActive
    <3> QED
      BY <2>4, <3>2 DEF Completed
  <2> QED
    BY <2>2, <2>3, <2>4
<1>11. ReviewsInOrder'
  BY DEF IInv, ReviewsInOrder, Completed
<1> QED
  BY <1>1, <1>3, <1>5, <1>6, <1>7, <1>8, <1>9, <1>10, <1>11 DEF IInv

LEMMA CompleteDirectlyKeeps ==
    ASSUME IInv, NEW c \in Case, CompleteDirectly(c)
    PROVE  IInv'
<1>1. Completed(c)
  BY CompletionWrites DEF CompleteDirectly
<1>2. UNCHANGED <<reviews, instances, rejections, active, calls, queues, failing>>
  BY DEF CompleteDirectly
<1>3. instances' \in Seq(InstanceRow)
  BY <1>2 DEF IInv, TypeOK
<1> QED
  BY <1>1, <1>2, <1>3, CompletionKeeps

LEMMA ApproveKeeps ==
    ASSUME IInv, NEW i \in DOMAIN instances, Approve(i)
    PROVE  IInv'
<1>1. instances[i].case \in Case
  BY InstanceCases DEF IInv
<1>2. Completed(instances[i].case)
  BY <1>1, CompletionWrites DEF Approve
<1>3. UNCHANGED <<reviews, rejections, active, calls, queues, failing>>
  BY DEF Approve
<1>4. Decided(i, "APPROVED")
  BY DEF Approve
<1>5. /\ instances[i].status = "ACTIVE"
      /\ instances' \in Seq(InstanceRow) /\ Len(instances') = Len(instances)
      /\ DOMAIN instances' = DOMAIN instances
      /\ \A j \in DOMAIN instances :
            /\ instances'[j].case = instances[j].case
            /\ instances'[j].status = IF j = i THEN "APPROVED" ELSE instances[j].status
  BY <1>4, InstanceDecided DEF IInv
<1> QED
  BY <1>1, <1>2, <1>3, <1>5, CompletionKeeps

\* REJECTED and CANCELLED: HRMS's tables are left alone.
LEMMA RefusalKeeps ==
    ASSUME IInv, NEW i \in DOMAIN instances, Reject(i) \/ CancelApproval(i)
    PROVE  IInv'
<1>1. UNCHANGED <<hrmsRows, rejections, requests, active, calls, queues, failing>>
  BY DEF Reject, CancelApproval
<1>2. PICK s \in {"REJECTED", "CANCELLED"} : Decided(i, s)
  BY DEF Reject, CancelApproval
<1>3. /\ instances[i].status = "ACTIVE"
      /\ instances' \in Seq(InstanceRow) /\ Len(instances') = Len(instances)
      /\ DOMAIN instances' = DOMAIN instances
      /\ \A j \in DOMAIN instances :
            /\ instances'[j].case = instances[j].case
            /\ instances'[j].status = IF j = i THEN s ELSE instances[j].status
  BY <1>2, InstanceDecided DEF IInv
<1>4. TypeOK'
  BY <1>1, <1>3 DEF IInv, TypeOK, hrmsRows
<1>5. RowsSurvive
  BY <1>1, <1>3 DEF RowsSurvive, hrmsRows
<1>6. CallsHold'
  BY <1>1, <1>5, CallsSurvive DEF IInv, CallsHold
<1>7. InstancesOfCases' /\ OneActive'
  BY <1>1, <1>3 DEF IInv, InstancesOfCases, OneActive, hrmsRows
<1>8. ReviewsBegun' /\ QueuedAreRequests' /\ AllOrNothing' /\ ReviewsInOrder'
  BY <1>1 DEF IInv, ReviewsBegun, QueuedAreRequests, AllOrNothing, ReviewsInOrder, hrmsRows
<1>9. ApprovalTakesEffect'
  BY <1>1, <1>3 DEF IInv, ApprovalTakesEffect, hrmsRows
<1> QED
  BY <1>4, <1>6, <1>7, <1>8, <1>9 DEF IInv

-----------------------------------------------------------------------------
\* approvalService

LEMMA SubmitKeeps ==
    ASSUME IInv, NEW r \in Request, NEW c \in Case, Submit(r, c)
    PROVE  IInv'
<1> DEFINE k == [Idle EXCEPT !.op = "start", !.case = c]
           row == [cases[c] EXCEPT !.status = "PENDING_DECISION", !.terms = TRUE]
<1>1. k \in Call /\ k.op = "start" /\ k.case = c
  BY CallFields DEF Idle
<1>2. cases \in [Case -> CaseRow] /\ calls \in [Request -> Call]
      /\ rejections \in [InstanceId -> 0 .. MaxCount]
  BY DEF IInv, TypeOK
<1>3. /\ row \in CaseRow /\ row.status = "PENDING_DECISION"
      /\ row.type = cases[c].type /\ row.link = cases[c].link
  <2>1. \A x \in CaseRow : [x EXCEPT !.status = "PENDING_DECISION"] \in CaseRow
    BY DEF CaseRow, Open
  <2>2. \A x \in CaseRow : [x EXCEPT !.terms = TRUE] \in CaseRow
    BY DEF CaseRow
  <2>3. row = [[cases[c] EXCEPT !.status = "PENDING_DECISION"] EXCEPT !.terms = TRUE]
    BY Zenon
  <2>4. row \in CaseRow
    BY <1>2, <2>1, <2>2, <2>3
  <2> QED
    BY <1>2, <2>4 DEF CaseRow
<1>4. /\ cases[c].type \in Submittable
      /\ cases[c].status \in Open
      /\ cases' = cases \/ cases' = [cases EXCEPT ![c] = row]
  BY DEF Submit, Open
<1>5. calls' = calls \/ calls' = [calls EXCEPT ![r] = k]
  BY DEF Submit
<1>6. UNCHANGED <<reviews, writes, instances, rejections, requests, active, queues, failing>>
  BY DEF Submit
<1> HIDE DEF k, row
<1>7. /\ cases' \in [Case -> CaseRow]
      /\ \A d \in Case :
            /\ cases'[d].type = cases[d].type
            /\ cases'[d].link = cases[d].link
            /\ cases[d].status # "ABSENT" => cases'[d].status # "ABSENT"
            /\ cases[d].status \in Terminal => cases'[d].status = cases[d].status
  BY <1>2, <1>3, <1>4 DEF Open, Terminal
<1>8. cases'[c].status # "ABSENT" /\ cases'[c].type \in Submittable
  BY <1>4, <1>7 DEF Open
<1>9. CallHolds(k, cases', reviews', instances')
  BY <1>1, <1>8 DEF CallHolds
<1>10. /\ calls' \in [Request -> Call]
       /\ \A q \in Request : calls'[q] = calls[q] \/ calls'[q] = k
  BY <1>1, <1>2, <1>5, OtherCalls
<1> QED
  BY <1>2, <1>6, <1>7, <1>9, <1>10, CaseMoves

LEMMA LinkKeeps ==
    ASSUME IInv, NEW r \in Request, Link(r)
    PROVE  IInv'
<1> DEFINE c == calls[r].case
           i == calls[r].row
           row == [cases[c] EXCEPT !.link = i]
<1>1. /\ c \in Case /\ cases[c].status # "ABSENT"
      /\ i \in DOMAIN instances /\ instances[i].case = c
  BY DEF IInv, CallsHold, CallHolds, Link
<1>2. /\ cases \in [Case -> CaseRow] /\ calls \in [Request -> Call]
      /\ rejections \in [InstanceId -> 0 .. MaxCount]
      /\ instances \in Seq(InstanceRow) /\ Len(instances) <= MaxInstances
  BY DEF IInv, TypeOK
<1>3. cases' = [cases EXCEPT ![c] = row]
  BY DEF Link
<1>4. UNCHANGED <<reviews, writes, instances, rejections, requests, active, queues, failing>>
  BY DEF Link
<1>5. /\ calls' \in [Request -> Call]
      /\ \A q \in Request : calls'[q] = IF q = r THEN Idle ELSE calls[q]
  BY <1>2, OtherCalls, IdleIsCall DEF Link
<1> HIDE DEF c, i
<1>6. i \in 0 .. MaxInstances
  BY <1>1, <1>2, LenProperties
<1>7. /\ row \in CaseRow /\ row.link = i
      /\ row.type = cases[c].type /\ row.status = cases[c].status
  <2>1. cases[c] \in CaseRow
    BY <1>1, <1>2
  <2> QED
    BY <1>6, <2>1 DEF CaseRow
<1> HIDE DEF row
<1>8. /\ cases' \in [Case -> CaseRow]
      /\ \A d \in Case :
            /\ cases'[d].type = cases[d].type
            /\ cases'[d].status = cases[d].status
            /\ cases'[d].link = IF d = c THEN i ELSE cases[d].link
  BY <1>1, <1>2, <1>3, <1>7
<1>9. \A q \in Request :
         calls'[q] = calls[q] \/ CallHolds(calls'[q], cases', reviews', instances')
  BY <1>5, IdleHolds
<1> QED
  BY <1>1, <1>2, <1>4, <1>5, <1>8, <1>9, CaseMoves

LEMMA StartKeeps ==
    ASSUME IInv, NEW r \in Request, Start(r)
    PROVE  IInv'
<1> DEFINE c == calls[r].case
<1>1. c \in Case /\ cases[c].status # "ABSENT" /\ cases[c].type \in Submittable
  BY DEF IInv, CallsHold, CallHolds, Start
<1>2. /\ instances \in Seq(InstanceRow) /\ Len(instances) <= MaxInstances
      /\ calls \in [Request -> Call] /\ calls[r] \in Call
  BY DEF IInv, TypeOK
<1>3. Len(instances) \in Nat /\ DOMAIN instances = 1 .. Len(instances)
  BY <1>2, LenProperties
<1>4. UNCHANGED <<hrmsRows, rejections, requests, active, queues, failing>>
  BY DEF Start
<1>5. \A row \in 1 .. MaxInstances :
         LET k == [calls[r] EXCEPT !.op = "link", !.row = row] IN
         k \in Call /\ k.op = "link" /\ k.case = c /\ k.row = row
  <2> TAKE row \in 1 .. MaxInstances
  <2> DEFINE k == [calls[r] EXCEPT !.op = "link", !.row = row]
  <2>1. \A x \in Call : [x EXCEPT !.op = "link"] \in Call
    BY DEF Call
  <2>2. row \in 0 .. MaxInstances + MaxReviews
    OBVIOUS
  <2>3. \A x \in Call : [x EXCEPT !.row = row] \in Call
    BY <2>2 DEF Call
  <2>4. k = [[calls[r] EXCEPT !.op = "link"] EXCEPT !.row = row]
    BY Zenon
  <2>5. k \in Call
    BY <1>2, <2>1, <2>3, <2>4
  <2> QED
    BY <1>2, <2>5 DEF Call
<1>6. CASE \E i \in WaitingFor(c) :
              /\ calls' = [calls EXCEPT ![r].op = "link", ![r].row = i]
              /\ instances' = instances
  <2>1. PICK i \in WaitingFor(c) :
                 calls' = [calls EXCEPT ![r].op = "link", ![r].row = i]
    BY <1>6
  <2> DEFINE k == [calls[r] EXCEPT !.op = "link", !.row = i]
  <2>2. i \in DOMAIN instances /\ instances[i].case = c /\ i \in 1 .. MaxInstances
    BY <1>2, <1>3 DEF WaitingFor
  <2>3. k \in Call /\ k.op = "link" /\ k.case = c /\ k.row = i
    BY <1>5, <2>2
  <2>4. calls' = [calls EXCEPT ![r] = k]
    BY <2>1, Zenon
  <2> HIDE DEF k, c
  <2>5. CallHolds(k, cases, reviews, instances)
    BY <1>1, <2>2, <2>3 DEF CallHolds
  <2> QED
    BY <1>4, <1>6, <2>3, <2>4, <2>5, CallMoves
<1>7. CASE /\ WaitingFor(c) = {} /\ Len(instances) < MaxInstances
           /\ \E status \in {"ACTIVE", "FAILED"} :
                 instances' = Append(instances, [case |-> c, status |-> status])
           /\ calls' = [calls EXCEPT ![r].op = "link", ![r].row = Len(instances) + 1]
  <2> DEFINE n == Len(instances) + 1
             k == [calls[r] EXCEPT !.op = "link", !.row = n]
  <2>1. PICK status \in {"ACTIVE", "FAILED"} :
                 instances' = Append(instances, [case |-> c, status |-> status])
    BY <1>7
  <2>2. n \in 1 .. MaxInstances
    BY <1>3, <1>7
  <2>3. k \in Call /\ k.op = "link" /\ k.case = c /\ k.row = n
    BY <1>5, <2>2
  <2>4. calls' = [calls EXCEPT ![r] = k]
    BY <1>7, Zenon
  <2> DEFINE row == [case |-> c, status |-> status]
  <2> HIDE DEF k, c
  <2>5. row \in InstanceRow /\ row.case = c /\ row.status = status
    BY <1>1 DEF InstanceRow
  <2>6. instances' = Append(instances, row)
    BY <2>1
  <2> HIDE DEF row
  <2>7. /\ instances' \in Seq(InstanceRow) /\ Len(instances') = n
        /\ DOMAIN instances' = DOMAIN instances \cup {n}
        /\ \A j \in DOMAIN instances : instances'[j] = instances[j]
        /\ instances'[n] = row
    BY <1>2, <2>5, <2>6, Appended
  <2> HIDE DEF n
  <2>8. /\ calls' \in [Request -> Call]
        /\ \A q \in Request : calls'[q] = IF q = r THEN k ELSE calls[q]
    BY <1>2, <2>3, <2>4, OtherCalls
  <2>9. TypeOK'
    BY <1>4, <2>2, <2>7, <2>8 DEF IInv, TypeOK, hrmsRows
  <2>10. RowsSurvive
    BY <1>4, <2>7 DEF RowsSurvive, hrmsRows
  <2>11. CallHolds(k, cases', reviews', instances')
    BY <1>1, <1>4, <2>3, <2>5, <2>7 DEF CallHolds, hrmsRows
  <2>12. CallsHold'
    BY <2>8, <2>10, <2>11, CallsSurvive DEF IInv, CallsHold
  <2>13. InstancesOfCases'
    BY <1>1, <1>4, <2>5, <2>7 DEF IInv, InstancesOfCases, hrmsRows
  <2>14. OneActive'
    <3>1. \A j \in DOMAIN instances : ~ (instances[j].case = c /\ instances[j].status = "ACTIVE")
      BY <1>7 DEF WaitingFor, c
    <3> QED
      BY <2>5, <2>7, <3>1 DEF IInv, OneActive
  <2>15. ReviewsBegun' /\ QueuedAreRequests' /\ AllOrNothing' /\ ReviewsInOrder'
    BY <1>4 DEF IInv, ReviewsBegun, QueuedAreRequests, AllOrNothing, ReviewsInOrder, hrmsRows
  <2>16. ApprovalTakesEffect'
    BY <1>4, <2>1, <2>5, <2>7 DEF IInv, ApprovalTakesEffect, hrmsRows
  <2> QED
    BY <2>9, <2>12, <2>13, <2>14, <2>15, <2>16 DEF IInv
<1> QED
  BY <1>6, <1>7 DEF Start

LEMMA BeginStatusKeeps ==
    ASSUME IInv, NEW r \in Request, NEW c \in Case, BeginStatus(r, c)
    PROVE  IInv'
<1> DEFINE i == cases[c].link
           k == [Idle EXCEPT !.op = "reconcile", !.case = c, !.row = i]
<1>1. cases[c].status # "ABSENT" /\ i # 0 /\ calls' = [calls EXCEPT ![r] = k]
  BY DEF BeginStatus
<1>2. i \in DOMAIN instances /\ instances[i].case = c
  BY <1>1 DEF IInv, InstancesOfCases
<1>3. i \in 0 .. MaxInstances + MaxReviews
  <2>1. cases[c] \in CaseRow
    BY DEF IInv, TypeOK
  <2>2. i \in 0 .. MaxInstances
    BY <2>1 DEF CaseRow
  <2> QED
    BY <2>2
<1>4. k \in Call /\ k.op = "reconcile" /\ k.case = c /\ k.row = i
  BY <1>3, CallFields DEF Idle
<1> HIDE DEF k, i
<1>5. CallHolds(k, cases, reviews, instances)
  BY <1>1, <1>2, <1>4 DEF CallHolds
<1> QED
  BY <1>1, <1>4, <1>5, CallMoves DEF BeginStatus

LEMMA ReconcileKeeps ==
    ASSUME IInv, NEW r \in Request, Reconcile(r)
    PROVE  IInv'
<1> DEFINE c == calls[r].case
           i == calls[r].row
           row == [cases[c] EXCEPT !.status = "IN_PROGRESS", !.terms = FALSE]
<1>1. c \in Case
  BY DEF IInv, CallsHold, CallHolds, Reconcile
<1>2. /\ cases \in [Case -> CaseRow] /\ calls \in [Request -> Call]
      /\ rejections \in [InstanceId -> 0 .. MaxCount]
  BY DEF IInv, TypeOK
<1>3. \/ /\ cases[c].status = "PENDING_DECISION"
         /\ cases' = [cases EXCEPT ![c] = row]
         /\ rejections' = [rejections EXCEPT ![i] = OneMore(@)]
      \/ cases' = cases /\ rejections' = rejections
  BY DEF Reconcile
<1>4. UNCHANGED <<reviews, writes, instances, requests, active, queues, failing>>
  BY DEF Reconcile
<1>5. /\ calls' \in [Request -> Call]
      /\ \A q \in Request : calls'[q] = IF q = r THEN Idle ELSE calls[q]
  BY <1>2, OtherCalls, IdleIsCall DEF Reconcile
<1> HIDE DEF c, i
<1>6. /\ row \in CaseRow /\ row.status = "IN_PROGRESS"
      /\ row.type = cases[c].type /\ row.link = cases[c].link
  <2>1. \A x \in CaseRow : [x EXCEPT !.status = "IN_PROGRESS"] \in CaseRow
    BY DEF CaseRow, Open
  <2>2. \A x \in CaseRow : [x EXCEPT !.terms = FALSE] \in CaseRow
    BY DEF CaseRow
  <2>3. row = [[cases[c] EXCEPT !.status = "IN_PROGRESS"] EXCEPT !.terms = FALSE]
    BY Zenon
  <2>4. row \in CaseRow
    BY <1>1, <1>2, <2>1, <2>2, <2>3
  <2> QED
    BY <1>1, <1>2, <2>4 DEF CaseRow
<1> HIDE DEF row
<1>7. /\ cases' \in [Case -> CaseRow]
      /\ \A d \in Case :
            /\ cases'[d].type = cases[d].type
            /\ cases'[d].link = cases[d].link
            /\ cases[d].status # "ABSENT" => cases'[d].status # "ABSENT"
            /\ cases[d].status \in Terminal => cases'[d].status = cases[d].status
  BY <1>1, <1>2, <1>3, <1>6 DEF Terminal
<1>8. rejections' \in [InstanceId -> 0 .. MaxCount]
  <2>1. \A n \in 0 .. MaxCount : OneMore(n) \in 0 .. MaxCount
    BY DEF OneMore
  <2> QED
    BY <1>2, <1>3, <2>1
<1>9. \A q \in Request :
         calls'[q] = calls[q] \/ CallHolds(calls'[q], cases', reviews', instances')
  BY <1>5, IdleHolds
<1> QED
  BY <1>4, <1>5, <1>7, <1>8, <1>9, CaseMoves

LEMMA AbandonKeeps ==
    ASSUME IInv, NEW r \in Request, Abandon(r)
    PROVE  IInv'
BY IdleIsCall, IdleHolds, CallMoves DEF Abandon

-----------------------------------------------------------------------------
\* identityDeactivationProcessor

\* A worker's step: requests stay requests, and only requests are listed.
LEMMA SweepMoves ==
    ASSUME IInv, UNCHANGED <<hrmsRows, instances, rejections, calls>>,
           requests' \in [Case -> RequestRow],
           \A c \in Case : requests'[c].status = "ABSENT" <=> requests[c].status = "ABSENT",
           active' \in [Case -> BOOLEAN],
           queues' \in [Worker -> SUBSET Case],
           \A w \in Worker : \A c \in queues'[w] : requests[c].status # "ABSENT",
           failing' \in [Worker -> Case \cup {None}]
    PROVE  IInv'
<1>1. TypeOK'
  BY DEF IInv, TypeOK, hrmsRows
<1>2. CallsHold'
  BY DEF IInv, CallsHold, hrmsRows
<1>3. InstancesOfCases' /\ OneActive' /\ ReviewsBegun'
  BY DEF IInv, InstancesOfCases, OneActive, ReviewsBegun, hrmsRows
<1>4. QueuedAreRequests'
  BY DEF QueuedAreRequests
<1>5. AllOrNothing'
  BY DEF IInv, AllOrNothing, hrmsRows
<1>6. ApprovalTakesEffect' /\ ReviewsInOrder'
  BY DEF IInv, ApprovalTakesEffect, ReviewsInOrder, hrmsRows
<1> QED
  BY <1>1, <1>2, <1>3, <1>4, <1>5, <1>6 DEF IInv

LEMMA WorkerTypes ==
    ASSUME IInv
    PROVE  /\ requests \in [Case -> RequestRow] /\ active \in [Case -> BOOLEAN]
           /\ queues \in [Worker -> SUBSET Case]
           /\ failing \in [Worker -> Case \cup {None}]
           /\ \A w \in Worker : \A c \in queues[w] : requests[c].status # "ABSENT"
BY DEF IInv, TypeOK, QueuedAreRequests

LEMMA BeginSweepKeeps ==
    ASSUME IInv, NEW w \in Worker, BeginSweep(w)
    PROVE  IInv'
<1> DEFINE due == {c \in Case : requests[c].status = "REQUESTED"}
<1>1. due \in SUBSET Case /\ \A c \in due : requests[c].status # "ABSENT"
  OBVIOUS
<1>2. /\ queues' = [queues EXCEPT ![w] = due]
      /\ UNCHANGED <<hrmsRows, instances, rejections, requests, active, calls, failing>>
  BY DEF BeginSweep
<1> HIDE DEF due
<1>3. /\ queues' \in [Worker -> SUBSET Case]
      /\ \A v \in Worker : queues'[v] = IF v = w THEN due ELSE queues[v]
  BY <1>1, <1>2, WorkerTypes
<1>4. \A v \in Worker : \A c \in queues'[v] : requests[c].status # "ABSENT"
  BY <1>1, <1>3, WorkerTypes
<1> QED
  BY <1>2, <1>3, <1>4, WorkerTypes, SweepMoves

\* A worker that is done with a request still lists only requests.
LEMMA QueueShrinks ==
    ASSUME IInv, NEW w \in Worker, NEW Q \in SUBSET queues[w],
           queues' = [queues EXCEPT ![w] = Q]
    PROVE  /\ queues' \in [Worker -> SUBSET Case]
           /\ \A v \in Worker : \A c \in queues'[v] : requests[c].status # "ABSENT"
<1>1. Q \in SUBSET Case
  BY WorkerTypes
<1>2. /\ queues' \in [Worker -> SUBSET Case]
      /\ \A v \in Worker : queues'[v] = IF v = w THEN Q ELSE queues[v]
  BY <1>1, WorkerTypes
<1> QED
  BY <1>2, WorkerTypes

LEMMA ProcessKeeps ==
    ASSUME IInv, NEW w \in Worker, NEW c \in Case, Process(w, c)
    PROVE  IInv'
<1>1. /\ c \in queues[w]
      /\ queues' = [queues EXCEPT ![w] = queues[w] \ {c}]
      /\ UNCHANGED <<hrmsRows, instances, rejections, calls, failing>>
  BY DEF Process
<1>2. requests[c].status # "ABSENT"
  BY <1>1, WorkerTypes
<1>3. /\ requests' \in [Case -> RequestRow] /\ active' \in [Case -> BOOLEAN]
      /\ \A d \in Case : requests'[d].status = "ABSENT" <=> requests[d].status = "ABSENT"
  <2>1. CASE UNCHANGED <<requests, active>>
    BY <2>1, WorkerTypes
  <2>2. CASE /\ requests' = [requests EXCEPT ![c].status = "COMPLETED"]
             /\ active' = [active EXCEPT ![c] = FALSE]
    <3> DEFINE row == [requests[c] EXCEPT !.status = "COMPLETED"]
    <3>1. row \in RequestRow /\ row.status = "COMPLETED"
      BY WorkerTypes DEF RequestRow
    <3>2. requests' = [requests EXCEPT ![c] = row]
      BY <2>2
    <3> HIDE DEF row
    <3> QED
      BY <1>2, <2>2, <3>1, <3>2, WorkerTypes
  <2> QED
    BY <2>1, <2>2 DEF Process
<1>4. /\ queues' \in [Worker -> SUBSET Case]
      /\ \A v \in Worker : \A d \in queues'[v] : requests[d].status # "ABSENT"
  BY <1>1, QueueShrinks
<1> QED
  BY <1>1, <1>3, <1>4, WorkerTypes, SweepMoves

LEMMA FailKeeps ==
    ASSUME IInv, NEW w \in Worker, NEW c \in Case, Fail(w, c)
    PROVE  IInv'
<1>1. /\ queues' = [queues EXCEPT ![w] = queues[w] \ {c}]
      /\ UNCHANGED <<hrmsRows, instances, rejections, requests, active, calls>>
      /\ failing' \in [Worker -> Case \cup {None}]
  BY WorkerTypes DEF Fail
<1>2. /\ queues' \in [Worker -> SUBSET Case]
      /\ \A v \in Worker : \A d \in queues'[v] : requests[d].status # "ABSENT"
  BY <1>1, QueueShrinks
<1> QED
  BY <1>1, <1>2, WorkerTypes, SweepMoves

LEMMA RecordFailureKeeps ==
    ASSUME IInv, NEW w \in Worker, RecordFailure(w)
    PROVE  IInv'
<1> DEFINE c == failing[w]
           row == [requests[c] EXCEPT !.failure = TRUE]
<1>1. c \in Case
  BY WorkerTypes DEF RecordFailure
<1>2. /\ requests' = [requests EXCEPT ![c] = row]
      /\ UNCHANGED <<hrmsRows, instances, rejections, active, calls, queues>>
      /\ failing' \in [Worker -> Case \cup {None}]
  BY WorkerTypes DEF RecordFailure
<1> HIDE DEF c
<1>3. row \in RequestRow /\ row.status = requests[c].status
  <2>1. requests[c] \in RequestRow
    BY <1>1, WorkerTypes
  <2> QED
    BY <2>1 DEF RequestRow
<1> HIDE DEF row
<1>4. /\ requests' \in [Case -> RequestRow]
      /\ \A d \in Case : requests'[d].status = requests[d].status
  BY <1>1, <1>2, <1>3, WorkerTypes
<1> QED
  BY <1>2, <1>4, WorkerTypes, SweepMoves

LEMMA StopSweepKeeps ==
    ASSUME IInv, NEW w \in Worker, StopSweep(w)
    PROVE  IInv'
<1>1. /\ queues' = [queues EXCEPT ![w] = {}]
      /\ UNCHANGED <<hrmsRows, instances, rejections, requests, active, calls>>
      /\ failing' \in [Worker -> Case \cup {None}]
  BY WorkerTypes DEF StopSweep
<1>2. /\ queues' \in [Worker -> SUBSET Case]
      /\ \A v \in Worker : \A d \in queues'[v] : requests[d].status # "ABSENT"
  BY <1>1, QueueShrinks
<1> QED
  BY <1>1, <1>2, WorkerTypes, SweepMoves

LEMMA EnableKeeps ==
    ASSUME IInv, NEW c \in Case, Enable(c)
    PROVE  IInv'
<1>1. /\ UNCHANGED <<hrmsRows, instances, rejections, requests, calls, queues, failing>>
      /\ active' \in [Case -> BOOLEAN]
  BY WorkerTypes DEF Enable
<1> QED
  BY <1>1, WorkerTypes, SweepMoves

-----------------------------------------------------------------------------
LEMMA NextKeeps == IInv /\ [Next]_vars => IInv'
<1> SUFFICES ASSUME IInv, [Next]_vars PROVE IInv'
  OBVIOUS
<1>1. ASSUME NEW c \in Case,
             \/ CreateOnboardingCase(c) \/ CreateProbationCase(c)
             \/ CreateChangeCase(c) \/ CreateOffboardingCase(c)
      PROVE  IInv'
  BY <1>1, CreationsKeep
<1>2. ASSUME NEW r \in Request, NEW c \in Case, CompleteCase(r, c) \/ CancelCase(r, c)
      PROVE  IInv'
  <2>1. PICK to \in Terminal : BeginTransition(r, c, to)
    BY <1>2 DEF CompleteCase, CancelCase, Terminal
  <2> QED
    BY <2>1, BeginTransitionKeeps
<1>3. ASSUME NEW r \in Request,
             \/ CommitTransition(r) \/ CommitReview(r) \/ Start(r)
             \/ Link(r) \/ Reconcile(r) \/ Abandon(r)
      PROVE  IInv'
  BY <1>3, CommitTransitionKeeps, CommitReviewKeeps, StartKeeps, LinkKeeps,
     ReconcileKeeps, AbandonKeeps
<1>4. ASSUME NEW r \in Request, NEW c \in Case,
             \/ \E d \in ReviewDecision : BeginReview(r, c, d)
             \/ Submit(r, c) \/ BeginStatus(r, c)
      PROVE  IInv'
  BY <1>4, BeginReviewKeeps, SubmitKeeps, BeginStatusKeeps
<1>5. ASSUME NEW c \in Case, CompleteDirectly(c)
      PROVE  IInv'
  BY <1>5, CompleteDirectlyKeeps
<1>6. ASSUME NEW i \in DOMAIN instances, Approve(i) \/ Reject(i) \/ CancelApproval(i)
      PROVE  IInv'
  BY <1>6, ApproveKeeps, RefusalKeeps
<1>7. ASSUME NEW w \in Worker,
             \/ BeginSweep(w) \/ RecordFailure(w) \/ StopSweep(w)
             \/ \E c \in Case : Process(w, c) \/ Fail(w, c)
      PROVE  IInv'
  BY <1>7, BeginSweepKeeps, RecordFailureKeeps, StopSweepKeeps, ProcessKeeps, FailKeeps
<1>8. CASE UNCHANGED vars
  <2>1. UNCHANGED <<hrmsRows, instances, rejections, requests, active, calls, queues, failing>>
    BY <1>8 DEF vars, hrmsRows
  <2> QED
    BY <2>1, WorkerTypes, SweepMoves
<1>9. ASSUME NEW c \in Case, Enable(c) PROVE IInv'
  BY <1>9, EnableKeeps
<1> QED
  BY <1>1, <1>2, <1>3, <1>4, <1>5, <1>6, <1>7, <1>8, <1>9
  DEF Next, CreateCase, RecordDecision, SubmitForApproval,
      GetApprovalStatus

\* The invariant the theorems rest on.
THEOREM HrmsInvariant == Spec => []IInv
BY InitHolds, NextKeeps, PTL DEF Spec

\* The columns keep to the migrations' CHECKs, and what refers to a row of another
\* table leads to one: an instance to a case that can be submitted, a case's link to
\* an instance of that case, an entry of a worker's list to a request.
THEOREM HrmsTypes == Spec => [](TypeOK /\ InstancesOfCases /\ QueuedAreRequests)
<1>1. IInv => TypeOK /\ InstancesOfCases /\ QueuedAreRequests
  BY DEF IInv
<1> QED
  BY <1>1, HrmsInvariant, PTL

\* completeCaseWithAuthoritativeWrite against transitionCase, the approval
\* handler and itself: no case changes its employee's assignment twice, or
\* without being completed, or asks for a deactivation without either.
THEOREM AllOrNothingHolds == Spec => []AllOrNothing
BY HrmsInvariant, PTL DEF IInv

\* The approval handler runs in the decision's transaction: an approval that
\* is granted has had its effect, and it is the only one of its case, however
\* often the case was sent back and submitted anew.
THEOREM ApprovalTakesEffectHolds == Spec => []ApprovalTakesEffect
BY HrmsInvariant, PTL DEF IInv

\* recordDecision: two decisions validated against the same pending review do
\* not both count, and a final one has completed the case.
THEOREM ReviewsInOrderHolds == Spec => []ReviewsInOrder
BY HrmsInvariant, PTL DEF IInv

-----------------------------------------------------------------------------
\* What a step may do to a case and to a request

\* A status that is final stays, and so does the type of a case.
CasesKept ==
    \A c \in Case :
       /\ cases[c].status \in Terminal => cases'[c].status = cases[c].status
       /\ cases[c].status # "ABSENT" => cases'[c].type = cases[c].type

\* A status written by id alone, as the CHECKs allow.
LEMMA UpdateKeepsCases ==
    ASSUME IInv, NEW c \in Case, NEW to \in Open \cup Terminal, UpdateStatus(c, to)
    PROVE  CasesKept
<1>1. cases \in [Case -> CaseRow]
  BY DEF IInv, TypeOK
<1>2. cases' = [cases EXCEPT ![c].status = to] /\ MayBecome(cases[c].status, to)
  BY DEF UpdateStatus
<1>3. \A d \in Case :
         /\ cases'[d].type = cases[d].type
         /\ cases'[d].status = IF d = c THEN to ELSE cases[d].status
  BY <1>1, <1>2, StatusWritten, ZenonT(60)
<1> QED
  BY <1>2, <1>3 DEF CasesKept, MayBecome

\* Any other write to a case that is open or not there yet.
LEMMA WriteKeepsCases ==
    ASSUME IInv, NEW c \in Case, NEW row, cases' = [cases EXCEPT ![c] = row],
           cases[c].status = "ABSENT" \/ cases[c].status \in Open,
           cases[c].status # "ABSENT" => row.type = cases[c].type
    PROVE  CasesKept
<1>1. cases \in [Case -> CaseRow]
  BY DEF IInv, TypeOK
<1>2. \A d \in Case : cases'[d] = IF d = c THEN row ELSE cases[d]
  BY <1>1
<1> QED
  BY <1>2 DEF CasesKept, Open, Terminal

LEMMA StepKeepsCases == IInv /\ [Next]_vars => CasesKept
<1> SUFFICES ASSUME IInv, [Next]_vars PROVE CasesKept
  OBVIOUS
<1>0. cases \in [Case -> CaseRow]
  BY DEF IInv, TypeOK
<1>1. ASSUME NEW c \in Case,
             \/ CreateOnboardingCase(c) \/ CreateProbationCase(c)
             \/ CreateChangeCase(c) \/ CreateOffboardingCase(c)
      PROVE  CasesKept
  <2>1. PICK t, first : Create(c, t, first)
    BY <1>1 DEF CreateOnboardingCase, CreateProbationCase, CreateChangeCase,
                CreateOffboardingCase
  <2>2. /\ cases[c].status = "ABSENT"
        /\ cases' = [cases EXCEPT ![c] = [cases[c] EXCEPT !.status = "IN_PROGRESS",
                                                         !.type = t]]
    BY <2>1, Zenon DEF Create
  <2> QED
    BY <2>2, WriteKeepsCases
<1>2. ASSUME NEW r \in Request, CommitTransition(r)
      PROVE  CasesKept
  <2>1. calls[r].case \in Case /\ calls[r].to \in Terminal
    BY <1>2 DEF IInv, CallsHold, CallHolds, CommitTransition
  <2>2. UpdateStatus(calls[r].case, calls[r].to)
    BY <1>2 DEF CommitTransition
  <2> QED
    BY <2>1, <2>2, UpdateKeepsCases
<1>3. ASSUME NEW r \in Request, CommitReview(r)
      PROVE  CasesKept
  <2>1. calls[r].case \in Case
    BY <1>3 DEF IInv, CallsHold, CallHolds, CommitReview
  <2>2. PICK to \in {"IN_PROGRESS", "COMPLETED"} : UpdateStatus(calls[r].case, to)
    BY <1>3, Zenon DEF CommitReview
  <2>3. to \in Open \cup Terminal
    BY DEF Open, Terminal
  <2> QED
    BY <2>1, <2>2, <2>3, UpdateKeepsCases
<1>4. ASSUME NEW c \in Case, CompleteChange(c) \/ CompleteOffboarding(c)
      PROVE  CasesKept
  BY <1>4, CompletionWrites DEF Completed, CasesKept, Open, Terminal
<1>5. ASSUME NEW i \in DOMAIN instances, Approve(i)
      PROVE  CasesKept
  BY <1>4, <1>5, InstanceCases DEF Approve, IInv
<1>6. ASSUME NEW r \in Request, NEW c \in Case, Submit(r, c)
      PROVE  CasesKept
  <2> DEFINE row == [cases[c] EXCEPT !.status = "PENDING_DECISION", !.terms = TRUE]
  <2>1. \/ cases' = cases
        \/ cases[c].status = "IN_PROGRESS" /\ cases' = [cases EXCEPT ![c] = row]
    BY <1>6, Zenon DEF Submit
  <2>2. row.type = cases[c].type
    BY <1>0 DEF CaseRow
  <2> HIDE DEF row
  <2>3. CASE cases' = cases
    BY <2>3 DEF CasesKept
  <2> QED
    BY <2>1, <2>2, <2>3, WriteKeepsCases DEF Open
<1>7. ASSUME NEW r \in Request, Link(r)
      PROVE  CasesKept
  <2>1. \A c \in Case :
           /\ cases'[c].status = cases[c].status
           /\ cases'[c].type = cases[c].type
    BY <1>0, <1>7 DEF Link, CaseRow
  <2> QED
    BY <2>1 DEF CasesKept
<1>8. ASSUME NEW r \in Request, Reconcile(r)
      PROVE  CasesKept
  <2> DEFINE c == calls[r].case
             row == [cases[c] EXCEPT !.status = "IN_PROGRESS", !.terms = FALSE]
  <2>1. \/ cases' = cases
        \/ cases[c].status = "PENDING_DECISION" /\ cases' = [cases EXCEPT ![c] = row]
    BY <1>8, Zenon DEF Reconcile
  <2>2. c \in Case
    BY <1>8 DEF IInv, CallsHold, CallHolds, Reconcile
  <2> HIDE DEF c
  <2>3. row.type = cases[c].type
    BY <1>0, <2>2 DEF CaseRow
  <2> HIDE DEF row
  <2>4. CASE cases' = cases
    BY <2>4 DEF CasesKept
  <2> QED
    BY <2>1, <2>2, <2>3, <2>4, WriteKeepsCases DEF Open
<1>9. CASE cases' = cases
  BY <1>9 DEF CasesKept
<1>10. ASSUME NEW r \in Request, NEW c \in Case,
              \/ CompleteCase(r, c) \/ CancelCase(r, c) \/ BeginStatus(r, c)
              \/ \E d \in ReviewDecision : BeginReview(r, c, d)
       PROVE  CasesKept
  BY <1>9, <1>10 DEF CompleteCase, CancelCase, BeginTransition, BeginStatus,
                     BeginReview, hrmsRows
<1>11. ASSUME NEW r \in Request, Start(r) \/ Abandon(r)
       PROVE  CasesKept
  BY <1>9, <1>11 DEF Start, Abandon, hrmsRows
<1>12. ASSUME NEW i \in DOMAIN instances, Reject(i) \/ CancelApproval(i)
       PROVE  CasesKept
  BY <1>9, <1>12 DEF Reject, CancelApproval, hrmsRows
<1>13. ASSUME NEW w \in Worker,
              \/ BeginSweep(w) \/ RecordFailure(w) \/ StopSweep(w)
              \/ \E c \in Case : Process(w, c) \/ Fail(w, c)
       PROVE  CasesKept
  BY <1>9, <1>13 DEF BeginSweep, RecordFailure, StopSweep, Process, Fail, hrmsRows
<1>14. CASE UNCHANGED vars
  BY <1>9, <1>14 DEF vars, hrmsRows
<1>15. ASSUME NEW c \in Case, Enable(c) PROVE CasesKept
  BY <1>9, <1>15 DEF Enable, hrmsRows
<1> QED
  BY <1>1, <1>2, <1>3, <1>4, <1>5, <1>6, <1>7, <1>8, <1>10, <1>11, <1>12, <1>13, <1>14,
     <1>15
  DEF Next, CreateCase, RecordDecision, SubmitForApproval,
      GetApprovalStatus, CompleteDirectly

\* updateStatus is by id alone, after a check on a row read earlier: yet no
\* case that is COMPLETED or CANCELLED ever becomes anything else.
THEOREM TerminalStaysHolds == Spec => TerminalStays
<1>1. IInv /\ [Next]_vars =>
         [\A c \in Case : cases[c].status \in Terminal =>
             cases'[c].status = cases[c].status]_vars
  BY StepKeepsCases DEF CasesKept
<1> QED
  BY <1>1, HrmsInvariant, PTL DEF Spec, TerminalStays

OnceProcessed ==
    \A c \in Case : requests[c].status = "COMPLETED" =>
       /\ requests'[c].status = "COMPLETED"
       /\ active[c] => active'[c]

LEMMA StepKeepsProcessed == IInv /\ [Next]_vars => OnceProcessed
<1> SUFFICES ASSUME IInv, [Next]_vars PROVE OnceProcessed
  OBVIOUS
<1>1. CASE requests' = requests /\ active' = active
  BY <1>1 DEF OnceProcessed
<1>2. ASSUME NEW c \in Case, CompleteChange(c) \/ CompleteOffboarding(c), active' = active
      PROVE  OnceProcessed
  BY <1>2, CompletionWrites DEF Completed, OnceProcessed
<1>3. ASSUME NEW i \in DOMAIN instances, Approve(i)
      PROVE  OnceProcessed
  BY <1>2, <1>3, InstanceCases DEF Approve, IInv
<1>4. ASSUME NEW w \in Worker, NEW c \in Case, Process(w, c)
      PROVE  OnceProcessed
  <2>1. CASE UNCHANGED <<requests, active>>
    BY <1>1, <2>1
  <2>2. CASE /\ requests[c].status # "COMPLETED"
             /\ requests' = [requests EXCEPT ![c].status = "COMPLETED"]
             /\ active' = [active EXCEPT ![c] = FALSE]
    BY <2>2, WorkerTypes DEF OnceProcessed
  <2> QED
    BY <1>4, <2>1, <2>2 DEF Process
<1>5. ASSUME NEW w \in Worker, RecordFailure(w)
      PROVE  OnceProcessed
  <2>1. \A c \in Case : requests'[c].status = requests[c].status
    BY <1>5, WorkerTypes DEF RecordFailure, RequestRow
  <2> QED
    BY <1>5, <2>1 DEF OnceProcessed, RecordFailure
<1>6. ASSUME NEW c \in Case,
             \/ CreateOnboardingCase(c) \/ CreateProbationCase(c)
             \/ CreateChangeCase(c) \/ CreateOffboardingCase(c)
      PROVE  OnceProcessed
  BY <1>1, <1>6 DEF CreateOnboardingCase, CreateProbationCase, CreateChangeCase,
                    CreateOffboardingCase, Create
<1>7. ASSUME NEW r \in Request, NEW c \in Case,
             \/ CompleteCase(r, c) \/ CancelCase(r, c) \/ BeginStatus(r, c)
             \/ Submit(r, c) \/ \E d \in ReviewDecision : BeginReview(r, c, d)
      PROVE  OnceProcessed
  BY <1>1, <1>7 DEF CompleteCase, CancelCase, BeginTransition, BeginStatus, Submit, BeginReview
<1>8. ASSUME NEW r \in Request,
             \/ CommitTransition(r) \/ CommitReview(r) \/ Start(r)
             \/ Link(r) \/ Reconcile(r) \/ Abandon(r)
      PROVE  OnceProcessed
  BY <1>1, <1>8 DEF CommitTransition, CommitReview, Start, Link, Reconcile, Abandon
<1>9. ASSUME NEW i \in DOMAIN instances, Reject(i) \/ CancelApproval(i)
      PROVE  OnceProcessed
  BY <1>1, <1>9 DEF Reject, CancelApproval
<1>10. ASSUME NEW w \in Worker,
              \/ BeginSweep(w) \/ StopSweep(w) \/ \E c \in Case : Fail(w, c)
       PROVE  OnceProcessed
  BY <1>1, <1>10 DEF BeginSweep, StopSweep, Fail
<1>11. CASE UNCHANGED vars
  BY <1>1, <1>11 DEF vars
<1>12. ASSUME NEW c \in Case, Enable(c)
       PROVE  OnceProcessed
  BY <1>12, WorkerTypes DEF Enable, OnceProcessed
<1>13. ASSUME NEW c \in Case, CompleteDirectly(c)
       PROVE  OnceProcessed
  BY <1>2, <1>13 DEF CompleteDirectly
<1> QED
  BY <1>3, <1>4, <1>5, <1>6, <1>7, <1>8, <1>9, <1>10, <1>11, <1>12, <1>13
  DEF Next, CreateCase, RecordDecision, SubmitForApproval,
      GetApprovalStatus

\* processOne looks at the row again under its lock and recordFailedAttempt leaves
\* the status alone: whatever workers list, fail at and record, a request that is
\* COMPLETED stays so and never disables the account again.
THEOREM ProcessedOnceHolds == Spec => ProcessedOnce
<1>1. IInv /\ [Next]_vars =>
         [\A c \in Case : requests[c].status = "COMPLETED" =>
             /\ requests'[c].status = "COMPLETED"
             /\ active[c] => active'[c]]_vars
  BY StepKeepsProcessed DEF OnceProcessed
<1> QED
  BY <1>1, HrmsInvariant, PTL DEF Spec, ProcessedOnce

-----------------------------------------------------------------------------
\* The approvals HRMS starts implement ApprovalChain

Markers == [i \in InstanceId |-> Marker(i)]
Granted == {<<i, 2>> : i \in {j \in DOMAIN instances : instances[j].status = "APPROVED"}}

\* A marker's record, and the same record after a move.
MarkerAt(status, version, subject, step) ==
    [status |-> status, version |-> version, subject |-> subject, step |-> step]
Moved(m, status, step) == [m EXCEPT !.status = status, !.step = step]

LEMMA MarkerMoved ==
    ASSUME NEW status, NEW version, NEW subject, NEW step, NEW status2, NEW step2
    PROVE  Moved(MarkerAt(status, version, subject, step), status2, step2)
              = MarkerAt(status2, version, subject, step2)
<1> DEFINE m == MarkerAt(status, version, subject, step)
           half == [m EXCEPT !.status = status2]
<1>1. half = MarkerAt(status2, version, subject, step)
  BY SMT DEF MarkerAt
<1>2. Moved(m, status2, step2) = [half EXCEPT !.step = step2]
  BY Zenon DEF Moved
<1> HIDE DEF half
<1> QED
  BY <1>1, <1>2, SMT DEF MarkerAt

LEMMA MarkerSetDown ==
    ASSUME NEW version, NEW subject
    PROVE  [Chain!Nowhere EXCEPT !.version = version, !.subject = subject]
              = MarkerAt("ABSENT", version, subject, 0)
<1> DEFINE half == [Chain!Nowhere EXCEPT !.version = version]
<1>1. half = MarkerAt("ABSENT", version, None, 0)
  BY SMT DEF MarkerAt, Chain!Nowhere
<1>2. [Chain!Nowhere EXCEPT !.version = version, !.subject = subject]
         = [half EXCEPT !.subject = subject]
  BY Zenon
<1> HIDE DEF half
<1> QED
  BY <1>1, <1>2, SMT DEF MarkerAt

LEMMA ChainInit == Init => Chain!CInit
<1> SUFFICES ASSUME Init PROVE Chain!CInit
  OBVIOUS
<1>1. DOMAIN instances = {}
  BY EmptySeq DEF Init
<1> QED
  BY <1>1 DEF Chain!CInit, Chain!Nowhere, Marker

\* A step that starts and decides nothing moves no marker.
LEMMA ChainStutter ==
    ASSUME IInv, CasesKept, instances' = instances
    PROVE  UNCHANGED Chain!cvars
<1>1. \A i \in DOMAIN instances :
         cases'[instances[i].case].type = cases[instances[i].case].type
  BY InstanceCases DEF IInv, InstancesOfCases, CasesKept
<1>2. \A i \in InstanceId : Marker(i)' = Marker(i)
  BY <1>1 DEF Marker
<1>3. UNCHANGED Markers
  BY <1>2 DEF Markers
<1>4. UNCHANGED Granted
  BY DEF Granted
<1> QED
  BY <1>3, <1>4 DEF Chain!cvars, Markers, Granted

\* A decision moves one marker on, and off the chain.
LEMMA ChainDecided ==
    ASSUME IInv, CasesKept, NEW i \in DOMAIN instances,
           NEW s \in {"APPROVED", "REJECTED", "CANCELLED"}, Decided(i, s)
    PROVE  Chain!CNext
<1>1. /\ instances[i].status = "ACTIVE"
      /\ DOMAIN instances' = DOMAIN instances
      /\ \A j \in DOMAIN instances :
            /\ instances'[j].case = instances[j].case
            /\ instances'[j].status = IF j = i THEN s ELSE instances[j].status
  BY InstanceDecided DEF IInv
<1>2. \A j \in DOMAIN instances :
         cases'[instances[j].case].type = cases[instances[j].case].type
  BY InstanceCases DEF IInv, InstancesOfCases, CasesKept
<1>3. i \in InstanceId
  BY LenProperties DEF IInv, TypeOK, InstanceId
<1>4. cases[instances[i].case].type \in Submittable
  BY DEF IInv, InstancesOfCases
<1> DEFINE after == IF s = "CANCELLED" THEN "CANCELLED" ELSE "COMPLETED"
<1> DEFINE v == cases[instances[i].case].type
           x == instances[i].case
<1>5. Marker(i) = MarkerAt("ACTIVE", v, x, 1)
  BY <1>1 DEF Marker, MarkerAt
<1>6. Marker(i)' = MarkerAt(after, v, x, 0)
  BY <1>1, <1>2 DEF Marker, MarkerAt
<1>7. \A j \in InstanceId : j # i => Marker(j)' = Marker(j)
  BY <1>1, <1>2 DEF Marker
<1> HIDE DEF after, v, x
<1>8. Markers' = [Markers EXCEPT ![i] = Moved(Markers[i], after, 0)]
  <2>1. Marker(i)' = Moved(Marker(i), after, 0)
    BY <1>5, <1>6, MarkerMoved
  <2> QED
    BY <1>3, <1>7, <2>1 DEF Markers
<1>11. Markers[i].status = "ACTIVE" /\ Markers[i].step = 1
       /\ Markers[i].version \in Submittable
  BY <1>3, <1>4, <1>5 DEF Markers, MarkerAt, v
<1>9. CASE s = "APPROVED"
  <2>1. Granted' = Granted \cup {<<i, 2>>}
    BY <1>1, <1>9 DEF Granted
  <2>2. {i} \X (2 .. 3 - 1) = {<<i, 2>>}
    OBVIOUS
  <2>3. Len(HrmsSteps) = 2 /\ HrmsSteps[2].type = "SYSTEM_ACTION"
    BY DEF HrmsSteps
  <2>4. Markers[i].step + 1 = 2
    BY <1>11
  <2> DEFINE m == Markers[i]
  <2>5. Chain!SetDown(i, m, m.step + 1)
    <3>1. 3 \in 2 .. Len(HrmsSteps) + 1 /\ 3 = Len(HrmsSteps) + 1 /\ 2 .. 3 - 1 = {2}
      BY <2>3
    <3>2. [w \in Submittable |-> HrmsSteps][m.version] = HrmsSteps
      BY <1>11
    <3>3. \A j \in 2 .. 3 - 1 : Chain!IsAction(m.version, j)
      BY <2>3, <3>1, <3>2 DEF Chain!IsAction
    <3>4. Markers' = [Markers EXCEPT ![i] = [m EXCEPT !.status = "COMPLETED", !.step = 0]]
      BY <1>8, <1>9 DEF after, Moved
    <3> HIDE DEF m
    <3> QED
      BY <2>1, <2>2, <2>4, <3>1, <3>2, <3>3, <3>4 DEF Chain!SetDown, Markers, Granted, m
  <2>6. Chain!Advance(i)
    BY <1>11, <2>5 DEF Chain!Advance, Markers
  <2> QED
    BY <1>3, <2>6 DEF Chain!CNext
<1>10. CASE s # "APPROVED"
  <2>1. Granted' = Granted
    BY <1>1, <1>10 DEF Granted
  <2>2. Chain!Stop(i)
    <3>2. Markers' = [Markers EXCEPT ![i].status = after, ![i].step = 0]
      BY <1>8, Zenon DEF Moved
    <3>3. after \in {"COMPLETED", "CANCELLED"}
      BY DEF after
    <3> QED
      BY <1>11, <2>1, <3>2, <3>3 DEF Chain!Stop, Markers, Granted
  <2> QED
    BY <1>3, <2>2 DEF Chain!CNext
<1> QED
  BY <1>9, <1>10

\* A submission sets a marker down at the first step, if its case has none.
LEMMA ChainStarted ==
    ASSUME IInv, NEW r \in Request, Start(r), instances' # instances
    PROVE  Chain!CNext
<1> DEFINE c == calls[r].case
<1>1. c \in Case /\ cases[c].type \in Submittable
  BY DEF IInv, CallsHold, CallHolds, Start
<1>2. instances \in Seq(InstanceRow)
  BY DEF IInv, TypeOK
<1>3. PICK status \in {"ACTIVE", "FAILED"} :
         /\ WaitingFor(c) = {} /\ Len(instances) < MaxInstances
         /\ instances' = Append(instances, [case |-> c, status |-> status])
  BY DEF Start
<1>4. cases' = cases
  BY DEF Start, hrmsRows
<1>0. Len(instances) \in Nat /\ DOMAIN instances = 1 .. Len(instances)
  BY <1>2, LenProperties
<1>5. PICK n \in InstanceId : n = Len(instances) + 1 /\ n \notin DOMAIN instances
  <2> DEFINE k == Len(instances)
  <2>0. k \in Nat /\ k < MaxInstances
    BY <1>0, <1>3, Zenon
  <2> HIDE DEF k
  <2>1. k + 1 \in 1 .. MaxInstances /\ k + 1 \notin 1 .. k
    BY <2>0
  <2> QED
    BY <1>0, <2>1, Zenon DEF InstanceId, k
<1> DEFINE row == [case |-> c, status |-> status]
<1>6. row \in InstanceRow /\ row.case = c /\ row.status = status
  BY <1>1 DEF InstanceRow
<1>7. instances' = Append(instances, row)
  BY <1>3
<1> HIDE DEF row
<1>8. /\ DOMAIN instances' = DOMAIN instances \cup {n}
      /\ \A j \in DOMAIN instances : instances'[j] = instances[j]
      /\ instances'[n] = row
  BY <1>2, <1>5, <1>6, <1>7, Appended
<1>9. \A j \in DOMAIN instances : instances[j].case = c => instances[j].status # "ACTIVE"
  BY <1>3 DEF WaitingFor
<1> HIDE DEF c
<1> DEFINE m == [Chain!Nowhere EXCEPT !.version = cases[c].type, !.subject = c]
<1>10. m = MarkerAt("ABSENT", cases[c].type, c, 0)
  BY MarkerSetDown
<1> HIDE DEF m
<1>11. Marker(n) = MarkerAt("ABSENT", None, None, 0)
  BY <1>5 DEF Marker, MarkerAt
<1>12. Marker(n)' = MarkerAt(status, cases[c].type, c, 1)
  <2>1. n \in DOMAIN instances' /\ instances'[n].case = c /\ instances'[n].status = status
    BY <1>6, <1>8
  <2> QED
    BY <1>4, <2>1 DEF Marker, MarkerAt
<1>13. \A j \in InstanceId : j # n => Marker(j)' = Marker(j)
  BY <1>4, <1>8 DEF Marker
<1>14. Moved(m, status, 1) = MarkerAt(status, cases[c].type, c, 1)
  BY <1>10, MarkerMoved
<1>15. m.version = cases[c].type
  BY <1>10 DEF MarkerAt
<1>16. Markers' = [Markers EXCEPT ![n] = Moved(m, status, 1)]
  BY <1>5, <1>12, <1>13, <1>14 DEF Markers
<1>17. Granted' = Granted
  BY <1>6, <1>8 DEF Granted
<1>18. \A j \in InstanceId : Markers[j].status = "ACTIVE" => Markers[j].subject # c
  BY <1>9 DEF Markers, Marker
<1>19. Chain!SetDown(n, m, 1)
  <2>1. Len(HrmsSteps) = 2 /\ HrmsSteps[1].type = "APPROVAL"
    BY DEF HrmsSteps
  <2>2. 1 \in 1 .. Len(HrmsSteps) + 1 /\ 1 # Len(HrmsSteps) + 1 /\ 1 .. 1 - 1 = {}
    BY <2>1
  <2>3. [v \in Submittable |-> HrmsSteps][m.version] = HrmsSteps
    BY <1>1, <1>15
  <2>4. ~ Chain!IsAction(m.version, 1)
    BY <2>1, <2>3 DEF Chain!IsAction
  <2>5. Granted' = Granted \cup ({n} \X (1 .. 1 - 1))
    BY <1>17, <2>2
  <2> QED
    BY <1>16, <2>2, <2>3, <2>4, <2>5 DEF Chain!SetDown, Markers, Granted, Moved
<1>20. Chain!Enter(n)
  <2>1. Markers[n].status = "ABSENT"
    BY <1>5, <1>11 DEF Markers, MarkerAt
  <2> QED
    BY <1>1, <1>18, <1>19, <2>1 DEF Chain!Enter, Markers, m
<1> QED
  BY <1>5, <1>20 DEF Chain!CNext

LEMMA StepChain == IInv /\ [Next]_vars => [Chain!CNext]_Chain!cvars
<1> SUFFICES ASSUME IInv, [Next]_vars PROVE Chain!CNext \/ UNCHANGED Chain!cvars
  OBVIOUS
<1>1. CasesKept
  BY StepKeepsCases
<1>2. CASE instances' = instances
  BY <1>1, <1>2, ChainStutter
<1>3. ASSUME NEW r \in Request, Start(r)
      PROVE  Chain!CNext \/ UNCHANGED Chain!cvars
  BY <1>2, <1>3, ChainStarted
<1>4. ASSUME NEW i \in DOMAIN instances, Approve(i) \/ Reject(i) \/ CancelApproval(i)
      PROVE  Chain!CNext
  BY <1>1, <1>4, ChainDecided DEF Approve, Reject, CancelApproval
<1>5. ASSUME NEW c \in Case,
             \/ CreateOnboardingCase(c) \/ CreateProbationCase(c)
             \/ CreateChangeCase(c) \/ CreateOffboardingCase(c)
             \/ CompleteDirectly(c)
      PROVE  UNCHANGED Chain!cvars
  BY <1>2, <1>5, <1>1, ChainStutter
  DEF CreateOnboardingCase, CreateProbationCase, CreateChangeCase,
      CreateOffboardingCase, Create, CompleteDirectly
<1>6. ASSUME NEW r \in Request, NEW c \in Case,
             \/ CompleteCase(r, c) \/ CancelCase(r, c) \/ BeginStatus(r, c)
             \/ Submit(r, c) \/ \E d \in ReviewDecision : BeginReview(r, c, d)
      PROVE  UNCHANGED Chain!cvars
  BY <1>6, <1>1, ChainStutter
  DEF CompleteCase, CancelCase, BeginTransition, BeginStatus, Submit, BeginReview
<1>7. ASSUME NEW r \in Request,
             CommitTransition(r) \/ CommitReview(r) \/ Link(r) \/ Reconcile(r) \/ Abandon(r)
      PROVE  UNCHANGED Chain!cvars
  BY <1>7, <1>1, ChainStutter
  DEF CommitTransition, CommitReview, Link, Reconcile, Abandon
<1>8. ASSUME NEW w \in Worker,
             \/ BeginSweep(w) \/ RecordFailure(w) \/ StopSweep(w)
             \/ \E c \in Case : Process(w, c) \/ Fail(w, c)
      PROVE  UNCHANGED Chain!cvars
  BY <1>8, <1>1, ChainStutter DEF BeginSweep, RecordFailure, StopSweep, Process, Fail
<1>9. CASE UNCHANGED vars
  BY <1>9, <1>1, ChainStutter DEF vars
<1>10. ASSUME NEW c \in Case, Enable(c) PROVE UNCHANGED Chain!cvars
  BY <1>10, <1>1, ChainStutter DEF Enable
<1> QED
  BY <1>3, <1>4, <1>5, <1>6, <1>7, <1>8, <1>9, <1>10
  DEF Next, CreateCase, RecordDecision, SubmitForApproval,
      GetApprovalStatus

\* Submitted, sent back and submitted anew by any number of requests that stop
\* anywhere, HRMS's approvals are chains of ApprovalChain: one at a time for a
\* case, and granted only where the handler has run.
THEOREM HrmsImplementsChain == Spec => ImplementsChain
BY ChainInit, StepChain, HrmsInvariant, PTL DEF Spec, ImplementsChain, Chain!CSpec
=============================================================================
