--------------------------- MODULE HrmsLifecycle ---------------------------
(***************************************************************************)
(* Lifecycle cases of platform-services/hrms: creation, closing, probation *)
(* reviews, the approval of employment changes and offboardings through    *)
(* Workflow, and the deactivation of a leaver's account.                   *)
(*                                                                         *)
(* A request whose transaction relies on rows read before it began has a   *)
(* Begin and a Commit action; submitForApproval has one action for each of *)
(* its three writes (the case, the workflow instance, the link), and a     *)
(* process may stop between any two (Abandon).  Requests that re-read what *)
(* they rely on under the case's row lock are one action.                  *)
(*                                                                         *)
(* Workflow is seen through what ApprovalChain promises of HRMS's          *)
(* definitions: one approval by role, then the handler that completes the  *)
(* case in the transaction of the decision.                                *)
(*                                                                         *)
(* A definition that no other uses, placed before the one it resembles, is *)
(* a faulty variant of it: README.md says which property rules it out.     *)
(***************************************************************************)
EXTENDS Integers, Sequences, FiniteSets

CONSTANTS
    Case,           \* ids available to hr_lifecycle_cases rows
    Request,        \* HTTP requests under way at one time
    Worker,         \* concurrent runs of processAllPending
    MaxInstances,   \* bound: workflow instances started in a behaviour
    MaxReviews,     \* bound: probation reviews of a case
    MaxCount,       \* counters of events saturate here
    None

InstanceId == 1 .. MaxInstances
Type == {"onboarding", "probation", "employment_change", "offboarding"}
Submittable == {"employment_change", "offboarding"}
Open == {"IN_PROGRESS", "PENDING_DECISION"}
Terminal == {"COMPLETED", "CANCELLED"}
ReviewDecision == {"CONFIRMED", "EXTENDED", "UNSUCCESSFUL"}

ASSUME HrmsBoundAssumption ==
    MaxInstances \in Nat /\ MaxReviews \in Nat \ {0} /\ MaxCount \in Nat \ {0, 1}
ASSUME HrmsNoneAssumption == None \notin Case \cup Type

VARIABLES
    cases,        \* hr_lifecycle_cases
    reviews,      \* reviews[c]: the decisions of hr_probation_reviews, by sequence_number
    writes,       \* committed changes each case has made to its employee's assignment
    instances,    \* the workflow instances of HRMS's definitions, in start order
    rejections,   \* approval_rejected events that name each instance
    requests,     \* hr_identity_deactivation_requests, by case_id
    active,       \* users.status = 'active', of the account linked to each case's employee
    calls,        \* what each request has read and not yet committed
    queues,       \* the deactivation requests each worker has listed and not processed
    failing       \* the request each worker saw fail and has to record

hrmsRows == <<cases, reviews, writes>>
vars == <<cases, reviews, writes, instances, rejections, requests, active,
          calls, queues, failing>>

\* link: workflow_instance_id, 0 for NULL; terms: pending_completion_input is
\* recorded.  A DRAFT row is never committed: creation moves it on.
CaseRow ==
    [status : {"ABSENT"} \cup Open \cup Terminal,
     type   : Type \cup {None},
     link   : 0 .. MaxInstances,
     terms  : BOOLEAN]

\* APPROVED and REJECTED stand for COMPLETED with either outcome.
InstanceRow ==
    [case   : Case,
     status : {"ACTIVE", "APPROVED", "REJECTED", "CANCELLED", "FAILED"}]

\* A review is PENDING until it is COMPLETED with a decision.
ReviewRow == ReviewDecision \cup {"PENDING"}

RequestRow ==
    [status  : {"ABSENT", "REQUESTED", "COMPLETED"},
     failure : BOOLEAN]

Call ==
    [op       : {"idle", "transition", "review", "start", "link", "reconcile"},
     case     : Case \cup {None},
     to       : Open \cup Terminal \cup {None},
     decision : ReviewDecision \cup {None},
     row      : 0 .. MaxInstances + MaxReviews]

Idle == [op |-> "idle", case |-> None, to |-> None, decision |-> None, row |-> 0]

Init ==
    /\ cases = [c \in Case |-> [status |-> "ABSENT", type |-> None, link |-> 0,
                                terms |-> FALSE]]
    /\ reviews = [c \in Case |-> <<>>]
    /\ writes = [c \in Case |-> 0]
    /\ instances = <<>>
    /\ rejections = [i \in InstanceId |-> 0]
    /\ requests = [c \in Case |-> [status |-> "ABSENT", failure |-> FALSE]]
    /\ active = [c \in Case |-> TRUE]
    /\ calls = [r \in Request |-> Idle]
    /\ queues = [w \in Worker |-> {}]
    /\ failing = [w \in Worker |-> None]

OneMore(n) == IF n < MaxCount THEN n + 1 ELSE n

\* The CHECKs that tie completed_at and cancelled_at to the status, neither
\* of which updateStatus ever clears.
MayBecomeAnything(from, to) == TRUE

MayBecome(from, to) == from \in Terminal => to = from

-----------------------------------------------------------------------------
\* lifecycleCaseService and probationService

\* createCase, with what its callers add to its transaction: the move to
\* IN_PROGRESS and the first reviews.
CreateDraft(c, t, first) ==
    /\ cases[c].status = "ABSENT"
    /\ cases' = [cases EXCEPT ![c].status = "DRAFT", ![c].type = t]
    /\ reviews' = [reviews EXCEPT ![c] = first]
    /\ UNCHANGED <<writes, instances, rejections, requests, active,
                   calls, queues, failing>>

Create(c, t, first) ==
    /\ cases[c].status = "ABSENT"
    /\ cases' = [cases EXCEPT ![c].status = "IN_PROGRESS", ![c].type = t]
    /\ reviews' = [reviews EXCEPT ![c] = first]
    /\ UNCHANGED <<writes, instances, rejections, requests, active,
                   calls, queues, failing>>

CreateOnboardingCase(c) == Create(c, "onboarding", <<>>)
CreateProbationCase(c) == Create(c, "probation", <<"PENDING">>)
CreateChangeCase(c) == Create(c, "employment_change", <<>>)
CreateOffboardingCase(c) == Create(c, "offboarding", <<>>)

\* transitionCase: its checks, on a case of any type.
BeginTransition(r, c, to) ==
    /\ calls[r] = Idle
    /\ cases[c].status \in Open
    /\ calls' = [calls EXCEPT ![r] = [Idle EXCEPT !.op = "transition", !.case = c,
                                                  !.to = to]]
    /\ UNCHANGED <<hrmsRows, instances, rejections, requests, active, queues, failing>>

CompleteCase(r, c) == BeginTransition(r, c, "COMPLETED")
CancelCase(r, c) == BeginTransition(r, c, "CANCELLED")

\* updateStatus is by id alone.
UpdateStatus(c, to) ==
    /\ MayBecome(cases[c].status, to)
    /\ cases' = [cases EXCEPT ![c].status = to]

CommitTransition(r) ==
    /\ calls[r].op = "transition"
    /\ UpdateStatus(calls[r].case, calls[r].to)
    /\ calls' = [calls EXCEPT ![r] = Idle]
    /\ UNCHANGED <<reviews, writes, instances, rejections, requests, active,
                   queues, failing>>

\* recordDecision on the current review of a case.
BeginReview(r, c, d) ==
    /\ calls[r] = Idle
    /\ cases[c].type = "probation"
    /\ cases[c].status \in Open
    /\ reviews[c][Len(reviews[c])] = "PENDING"
    /\ calls' = [calls EXCEPT ![r] = [Idle EXCEPT !.op = "review", !.case = c,
                    !.decision = d, !.row = Len(reviews[c])]]
    /\ UNCHANGED <<hrmsRows, instances, rejections, requests, active, queues, failing>>

\* The UPDATE's WHERE review_status = 'PENDING'.
UndecidedOrDecided(c, n) == n \in DOMAIN reviews[c]

Undecided(c, n) == reviews[c][n] = "PENDING"

\* An extension inserts the next review; its sequence number is UNIQUE.
CommitReview(r) ==
    LET c == calls[r].case
        d == calls[r].decision
        n == calls[r].row
        decided == [reviews[c] EXCEPT ![n] = d]
    IN /\ calls[r].op = "review"
       /\ Undecided(c, n)
       /\ UpdateStatus(c, IF d = "EXTENDED" THEN "IN_PROGRESS" ELSE "COMPLETED")
       /\ \/ /\ d = "EXTENDED"
             /\ n < MaxReviews
             /\ n + 1 \notin DOMAIN reviews[c]
             /\ reviews' = [reviews EXCEPT ![c] = Append(decided, "PENDING")]
          \/ /\ d # "EXTENDED"
             /\ reviews' = [reviews EXCEPT ![c] = decided]
       /\ calls' = [calls EXCEPT ![r] = Idle]
       /\ UNCHANGED <<writes, instances, rejections, requests, active, queues, failing>>

\* completeCaseWithAuthoritativeWrite: under the case's row lock the
\* assignment is changed and the case completed.
StillThere(c) == cases[c].status # "ABSENT"

StillOpen(c) == cases[c].status \in Open

CompleteWithWrite(c) ==
    /\ StillOpen(c)
    /\ UpdateStatus(c, "COMPLETED")
    /\ writes' = [writes EXCEPT ![c] = OneMore(@)]

CompleteChange(c) ==
    /\ cases[c].type = "employment_change"
    /\ CompleteWithWrite(c)
    /\ requests' = requests

\* In the same transaction the leaver's linked account, if there is one, is
\* to be deactivated.
CompleteOffboarding(c) ==
    /\ cases[c].type = "offboarding"
    /\ CompleteWithWrite(c)
    /\ \/ requests' = requests
       \/ /\ requests[c].status = "ABSENT"
          /\ requests' = [requests EXCEPT ![c].status = "REQUESTED"]

CompleteDirectly(c) ==
    /\ CompleteChange(c) \/ CompleteOffboarding(c)
    /\ UNCHANGED <<reviews, instances, rejections, active, calls, queues, failing>>

-----------------------------------------------------------------------------
\* approvalService

\* Phase 1 of submitForApproval.  A case that has a workflow_instance_id is
\* taken to be submitted.
Submit(r, c) ==
    /\ calls[r] = Idle
    /\ cases[c].type \in Submittable
    /\ \/ /\ cases[c].status = "IN_PROGRESS"
          /\ cases' = [cases EXCEPT ![c].status = "PENDING_DECISION", ![c].terms = TRUE]
       \/ /\ cases[c].status = "PENDING_DECISION"
          /\ cases[c].link = 0
          /\ cases' = cases
    /\ calls' = IF cases[c].link = 0
                THEN [calls EXCEPT ![r] = [Idle EXCEPT !.op = "start", !.case = c]]
                ELSE calls
    /\ UNCHANGED <<reviews, writes, instances, rejections, requests,
                   active, queues, failing>>

\* Phase 2: startWorkflow, or the ACTIVE instance the unique index reports.
\* A new instance is FAILED at once when no approver is found.
ApprovedFor(c) ==
    {i \in DOMAIN instances : instances[i].case = c /\ instances[i].status = "APPROVED"}

WaitingFor(c) ==
    {i \in DOMAIN instances : instances[i].case = c /\ instances[i].status = "ACTIVE"}

Start(r) ==
    LET c == calls[r].case IN
    /\ calls[r].op = "start"
    /\ \/ /\ WaitingFor(c) = {}
          /\ Len(instances) < MaxInstances
          /\ \E status \in {"ACTIVE", "FAILED"} :
                instances' = Append(instances, [case |-> c, status |-> status])
          /\ calls' = [calls EXCEPT ![r].op = "link", ![r].row = Len(instances) + 1]
       \/ /\ instances' = instances
          /\ \E i \in WaitingFor(c) :
                calls' = [calls EXCEPT ![r].op = "link", ![r].row = i]
    /\ UNCHANGED <<hrmsRows, rejections, requests, active, queues, failing>>

\* linkWorkflowInstance.
Link(r) ==
    /\ calls[r].op = "link"
    /\ cases' = [cases EXCEPT ![calls[r].case].link = calls[r].row]
    /\ calls' = [calls EXCEPT ![r] = Idle]
    /\ UNCHANGED <<reviews, writes, instances, rejections, requests,
                   active, queues, failing>>

\* getApprovalStatus reads a case that waits for its linked instance ...
BeginStatus(r, c) ==
    /\ calls[r] = Idle
    /\ cases[c].status = "PENDING_DECISION"
    /\ cases[c].link # 0
    /\ calls' = [calls EXCEPT ![r] = [Idle EXCEPT !.op = "reconcile", !.case = c,
                                                  !.row = cases[c].link]]
    /\ UNCHANGED <<hrmsRows, instances, rejections, requests, active, queues, failing>>

\* ... finds that instance REJECTED, and under the case's row lock sends the
\* case back if it still waits.
Reconcile(r) ==
    LET c == calls[r].case IN
    /\ calls[r].op = "reconcile"
    /\ instances[calls[r].row].status = "REJECTED"
    /\ IF cases[c].status = "PENDING_DECISION"
       THEN /\ cases' = [cases EXCEPT ![c].status = "IN_PROGRESS", ![c].terms = FALSE]
            /\ rejections' = [rejections EXCEPT ![calls[r].row] = OneMore(@)]
       ELSE UNCHANGED <<cases, rejections>>
    /\ calls' = [calls EXCEPT ![r] = Idle]
    /\ UNCHANGED <<reviews, writes, instances, requests, active,
                   queues, failing>>

\* The request's process stops, or its next transaction throws.
Abandon(r) ==
    /\ calls[r] # Idle
    /\ calls' = [calls EXCEPT ![r] = Idle]
    /\ UNCHANGED <<hrmsRows, instances, rejections, requests, active, queues, failing>>

-----------------------------------------------------------------------------
\* Workflow, with the handlers HRMS registers (workflowIntegration)

Decided(i, status) ==
    /\ instances[i].status = "ACTIVE"
    /\ instances' = [instances EXCEPT ![i].status = status]

\* The handler needs the terms recorded at submission; if it throws, the
\* approval is rolled back with it.
ApproveRegardless(i) ==
    LET c == instances[i].case IN
    /\ Decided(i, "APPROVED")
    /\ IF cases[c].terms /\ cases[c].status \in Open
       THEN CompleteChange(c) \/ CompleteOffboarding(c)
       ELSE UNCHANGED <<cases, writes, requests>>
    /\ UNCHANGED <<reviews, rejections, active, calls, queues, failing>>

Approve(i) ==
    LET c == instances[i].case IN
    /\ Decided(i, "APPROVED")
    /\ cases[c].terms
    /\ CompleteChange(c) \/ CompleteOffboarding(c)
    /\ UNCHANGED <<reviews, rejections, active, calls, queues, failing>>

\* HRMS is not told: it finds out when it next reads the approval's status.
Reject(i) ==
    /\ Decided(i, "REJECTED")
    /\ UNCHANGED <<hrmsRows, rejections, requests, active, calls, queues, failing>>

CancelApproval(i) ==
    /\ Decided(i, "CANCELLED")
    /\ UNCHANGED <<hrmsRows, rejections, requests, active, calls, queues, failing>>

-----------------------------------------------------------------------------
\* identityDeactivationProcessor

\* processAllPending lists what is REQUESTED.
BeginSweep(w) ==
    LET due == {c \in Case : requests[c].status = "REQUESTED"} IN
    /\ queues[w] = {} /\ failing[w] = None
    /\ due # {}
    /\ queues' = [queues EXCEPT ![w] = due]
    /\ UNCHANGED <<hrmsRows, instances, rejections, requests, active, calls, failing>>

\* processOne commits: the account is disabled and the request COMPLETED, or
\* the request turns out to be COMPLETED already.
ProcessAsListed(w, c) ==
    /\ c \in queues[w] /\ failing[w] = None
    /\ cases[c].status = "COMPLETED"
    /\ requests' = [requests EXCEPT ![c].status = "COMPLETED"]
    /\ active' = [active EXCEPT ![c] = FALSE]
    /\ queues' = [queues EXCEPT ![w] = @ \ {c}]
    /\ UNCHANGED <<hrmsRows, instances, rejections, calls, failing>>

Process(w, c) ==
    /\ c \in queues[w] /\ failing[w] = None
    /\ IF requests[c].status = "COMPLETED"
       THEN UNCHANGED <<requests, active>>
       ELSE /\ cases[c].status = "COMPLETED"
            /\ requests' = [requests EXCEPT ![c].status = "COMPLETED"]
            /\ active' = [active EXCEPT ![c] = FALSE]
    /\ queues' = [queues EXCEPT ![w] = @ \ {c}]
    /\ UNCHANGED <<hrmsRows, instances, rejections, calls, failing>>

\* processOne's transaction rolls back, and a second one finds the request
\* still REQUESTED ...
Fail(w, c) ==
    /\ c \in queues[w] /\ failing[w] = None
    /\ queues' = [queues EXCEPT ![w] = @ \ {c}]
    /\ failing' = [failing EXCEPT ![w] =
                      IF requests[c].status = "REQUESTED" THEN c ELSE None]
    /\ UNCHANGED <<hrmsRows, instances, rejections, requests, active, calls>>

\* ... and records the attempt, by id alone.
RecordFailureForGood(w) ==
    /\ failing[w] # None
    /\ requests' = [requests EXCEPT ![failing[w]].failure = TRUE,
                                    ![failing[w]].status = "FAILED"]
    /\ failing' = [failing EXCEPT ![w] = None]
    /\ UNCHANGED <<hrmsRows, instances, rejections, active, calls, queues>>

RecordFailure(w) ==
    /\ failing[w] # None
    /\ requests' = [requests EXCEPT ![failing[w]].failure = TRUE]
    /\ failing' = [failing EXCEPT ![w] = None]
    /\ UNCHANGED <<hrmsRows, instances, rejections, active, calls, queues>>

\* The worker's process stops.
StopSweep(w) ==
    /\ queues[w] # {} \/ failing[w] # None
    /\ queues' = [queues EXCEPT ![w] = {}]
    /\ failing' = [failing EXCEPT ![w] = None]
    /\ UNCHANGED <<hrmsRows, instances, rejections, requests, active, calls>>

\* Identity's enableAccount: an administrator gives the person the account back.
Enable(c) ==
    /\ ~ active[c]
    /\ active' = [active EXCEPT ![c] = TRUE]
    /\ UNCHANGED <<hrmsRows, instances, rejections, requests, calls, queues, failing>>

\* POST /hr/cases: the body's lifecycleType chooses the service.
CreateCase ==
    \E c \in Case :
       \/ CreateOnboardingCase(c)
       \/ CreateProbationCase(c)
       \/ CreateChangeCase(c)
       \/ CreateOffboardingCase(c)

RecordDecision(r) ==
    \/ \E c \in Case, d \in ReviewDecision : BeginReview(r, c, d)
    \/ CommitReview(r)

SubmitForApproval(r) ==
    \/ \E c \in Case : Submit(r, c)
    \/ Start(r)
    \/ Link(r)

GetApprovalStatus(r) ==
    \/ \E c \in Case : BeginStatus(r, c)
    \/ Reconcile(r)

Next ==
    \/ CreateCase
    \/ \E r \in Request, c \in Case : CompleteCase(r, c)
    \/ \E r \in Request, c \in Case : CancelCase(r, c)
    \/ \E r \in Request : CommitTransition(r)
    \/ \E r \in Request : RecordDecision(r)
    \/ \E c \in Case : CompleteDirectly(c)
    \/ \E r \in Request : SubmitForApproval(r)
    \/ \E r \in Request : GetApprovalStatus(r)
    \/ \E r \in Request : Abandon(r)
    \/ \E i \in DOMAIN instances : Approve(i)
    \/ \E i \in DOMAIN instances : Reject(i)
    \/ \E i \in DOMAIN instances : CancelApproval(i)
    \/ \E w \in Worker : BeginSweep(w)
    \/ \E w \in Worker, c \in Case : Process(w, c)
    \/ \E w \in Worker, c \in Case : Fail(w, c)
    \/ \E w \in Worker : RecordFailure(w)
    \/ \E w \in Worker : StopSweep(w)
    \/ \E c \in Case : Enable(c)

Spec == Init /\ [][Next]_vars

\* Something outside calls processAllPending again and again, and a request
\* that is tried again and again does not fail every time.
SweepsRecur ==
    \A w \in Worker :
       /\ WF_vars(BeginSweep(w))
       /\ WF_vars(RecordFailure(w))
       /\ \A c \in Case : SF_vars(Process(w, c))

FairSpec == Spec /\ SweepsRecur
-----------------------------------------------------------------------------
\* Properties

\* Every table holds rows of its schema.
TypeOK ==
    /\ cases \in [Case -> CaseRow]
    /\ reviews \in [Case -> Seq(ReviewRow)]
    /\ \A c \in Case : Len(reviews[c]) <= MaxReviews
    /\ writes \in [Case -> 0 .. MaxCount]
    /\ instances \in Seq(InstanceRow) /\ Len(instances) <= MaxInstances
    /\ rejections \in [InstanceId -> 0 .. MaxCount]
    /\ requests \in [Case -> RequestRow]
    /\ active \in [Case -> BOOLEAN]
    /\ calls \in [Request -> Call]
    /\ queues \in [Worker -> SUBSET Case]
    /\ failing \in [Worker -> Case \cup {None}]

\* A case that is COMPLETED or CANCELLED stays so, although completeCase,
\* cancelCase and recordDecision write a status they validated against a row
\* read earlier and never look at again.
TerminalStays ==
    [][\A c \in Case : cases[c].status \in Terminal =>
          cases'[c].status = cases[c].status]_vars

\* A case changes its employee's assignment at most once, and the change, the
\* completion and the request to deactivate the leaver's account stand or
\* fall together, whoever completes, closes or cancels the case meanwhile.
AllOrNothing ==
    \A c \in Case :
       /\ writes[c] <= 1
       /\ writes[c] = 1 => cases[c].status = "COMPLETED"
       /\ requests[c].status # "ABSENT" => writes[c] = 1

\* An approval is granted only together with what it approves: the case is
\* completed, its assignment changed, and no second approval of it exists.
ApprovalTakesEffect ==
    \A i \in DOMAIN instances : instances[i].status = "APPROVED" =>
       /\ cases[instances[i].case].status = "COMPLETED"
       /\ writes[instances[i].case] = 1
       /\ \A j \in DOMAIN instances :
             /\ instances[j].case = instances[i].case
             /\ instances[j].status = "APPROVED"
             => j = i

\* The reviews of a probation are a chain of extensions that ends in one
\* review without a decision, or in a final one that completed the case: of
\* two decisions on one review only the first counts.
ReviewsInOrder ==
    \A c \in Case : cases[c].type = "probation" =>
       LET n == Len(reviews[c]) IN
       /\ \A k \in 1 .. n - 1 : reviews[c][k] = "EXTENDED"
       /\ reviews[c][n] # "EXTENDED"
       /\ reviews[c][n] # "PENDING" => cases[c].status = "COMPLETED"

\* A request disables its account once.  Whatever workers had listed it before it
\* was COMPLETED, or saw it fail and record that later by its id alone, it stays
\* COMPLETED, and an account that an administrator has enabled again meanwhile is
\* not disabled a second time.
ProcessedOnce ==
    [][\A c \in Case : requests[c].status = "COMPLETED" =>
          /\ requests'[c].status = "COMPLETED"
          /\ active[c] => active'[c]]_vars

\* A leaver's account is not forgotten: each request is COMPLETED in the end,
\* however often processing it has failed or a worker has stopped.
RequestsProcessed ==
    \A c \in Case :
       requests[c].status = "REQUESTED" ~> requests[c].status = "COMPLETED"

\* Seen from HRMS, too, Workflow is an approval chain: one ACTIVE instance per
\* case, which is over for good once it is decided.
HrmsSteps ==
    <<[type |-> "APPROVAL", permitted |-> {"APPROVE", "REJECT"}],
      [type |-> "SYSTEM_ACTION", permitted |-> {}]>>

Marker(i) ==
    IF i \notin DOMAIN instances
    THEN [status |-> "ABSENT", version |-> None, subject |-> None, step |-> 0]
    ELSE [status  |-> IF instances[i].status \in {"APPROVED", "REJECTED"}
                      THEN "COMPLETED" ELSE instances[i].status,
          version |-> cases[instances[i].case].type,
          subject |-> instances[i].case,
          step    |-> IF instances[i].status \in {"ACTIVE", "FAILED"} THEN 1 ELSE 0]

Chain == INSTANCE ApprovalChain WITH
    Instance <- InstanceId, Subject <- Case, Version <- Submittable,
    Steps <- [v \in Submittable |-> HrmsSteps],
    chain <- [i \in InstanceId |-> Marker(i)],
    done <- {<<i, 2>> : i \in {j \in DOMAIN instances :
                                  instances[j].status = "APPROVED"}}

\* The approvals HRMS starts move as ApprovalChain says: started one at a
\* time for a case, however many requests submit it.
ImplementsChain == Chain!CSpec

-----------------------------------------------------------------------------
\* What the code's comments say, and the code does not keep.

\* Migration 006: workflow_instance_id is "overwritten on a later resubmission
\* after a rejection", so no instance's rejection can send a case back twice.
RejectionCountsOnce == \A i \in InstanceId : rejections[i] <= 1
=============================================================================
