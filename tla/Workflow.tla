------------------------------ MODULE Workflow ------------------------------
(***************************************************************************)
(* The sequential approval engine of platform-services/workflow:           *)
(* instanceEngine, instanceService, taskService and escalationService over *)
(* the tables workflow_instances, workflow_tasks, workflow_task_candidates,*)
(* workflow_decisions and workflow_system_action_executions.               *)
(*                                                                         *)
(* Every mutating call of taskService has two parts: checks made on rows   *)
(* read outside any transaction, and a transaction that commits later.     *)
(* The first part is a Begin action that records the call in `calls`, the  *)
(* second a Commit action; whatever else happens in between is free to     *)
(* happen.  A transaction that throws or is rolled back (a lost race, a    *)
(* failing system action, a deadlock victim) is Abandon.  Calls whose      *)
(* transaction re-reads all it relies on under a lock or behind a unique   *)
(* index (startWorkflow, cancelInstance) are one action.                   *)
(*                                                                         *)
(* Organisation's reporting lines and Identity's role grants are edited by *)
(* others at any time, so what a lookup of them returns is a free choice.  *)
(* All versions belong to one definition.                                  *)
(*                                                                         *)
(* A definition that no other uses, placed before the one it resembles, is *)
(* a faulty variant of it: README.md says which property rules it out.     *)
(***************************************************************************)
EXTENDS Integers, Sequences, FiniteSets

CONSTANTS
    User,        \* Identity accounts
    Instance,    \* ids available to workflow_instances rows
    Subject,     \* the business objects a workflow is started for
    Version,     \* published versions of the definition
    Steps,       \* Steps[v]: the steps of version v, in sequenceNumber order
    Sweeper,     \* concurrent runs of processDueEscalations
    MaxSteps,    \* bound: the longest version
    MaxTasks,    \* bound: task rows created in a behaviour
    None         \* the SQL NULL

StepNo == 1 .. MaxSteps
TaskId == 1 .. MaxTasks
Decision == {"APPROVE", "REJECT", "RETURN"}
UserOrNone == User \cup {None}

\* escalate: "NEVER" when escalateAfterMinutes is null, otherwise the
\* escalationTargetMode of a step that has one.
StepRow ==
    [type      : {"APPROVAL", "TASK", "SYSTEM_ACTION"},
     mode      : {"USER", "ROLE", "MANAGER"},
     permitted : SUBSET Decision,
     allowSelf : BOOLEAN,
     escalate  : {"NEVER", "NONE", "REASSIGN_TO_ASSIGNEE_MANAGER"}]

\* What publish() has validated about every version an instance can run
\* (definitionService.validateStepsForPublish).
ValidVersion(steps) ==
    /\ Len(steps) \in StepNo
    /\ \A s \in 1 .. Len(steps) : steps[s] \in StepRow
    /\ "RETURN" \notin steps[1].permitted

ASSUME NoneAssumption == None \notin User \cup Instance \cup Version \cup Subject
ASSUME BoundAssumption == MaxSteps \in Nat /\ MaxTasks \in Nat
ASSUME StepsAssumption == \A v \in Version : ValidVersion(Steps[v])

VARIABLES
    instances,   \* workflow_instances, with context.stepAssignments as route
    tasks,       \* workflow_tasks with their workflow_task_candidates
    nextTask,    \* the next row of tasks; ids follow created_at
    decisions,   \* workflow_decisions: at most one row per task_id
    executions,  \* <<instance, step>> of each SUCCEEDED system action row
    effects,     \* how many committed handler runs each <<instance, step>> had
    active,      \* users.status = 'active'
    calls,       \* the taskService call each user has under way
    sweeps       \* the due tasks each sweep has listed and not processed

rows == <<instances, tasks, nextTask, decisions, executions, effects>>
vars == <<instances, tasks, nextTask, decisions, executions, effects,
          active, calls, sweeps>>

InstanceRow ==
    [status       : {"ABSENT", "ACTIVE", "COMPLETED", "CANCELLED", "FAILED"},
     version      : Version \cup {None},
     subject      : Subject \cup {None},
     subjectActor : UserOrNone,
     route        : [StepNo -> UserOrNone],
     step         : 0 .. MaxSteps,
     outcome      : {"NONE", "APPROVED", "COMPLETED", "REJECTED"}]

TaskRow ==
    [status      : {"ABSENT", "PENDING", "COMPLETED", "CANCELLED"},
     instance    : Instance \cup {None},
     step        : 0 .. MaxSteps,
     assignee    : UserOrNone,
     candidates  : SUBSET User,
     escalated   : BOOLEAN,
     completedBy : UserOrNone]

DecisionRow == [actor : UserOrNone, decision : Decision \cup {"NONE"}]

Call ==
    [op       : {"idle", "decide", "complete", "reassign"},
     task     : TaskId \cup {0},
     decision : Decision \cup {"NONE"},
     to       : UserOrNone]

DueRow == [task : TaskId, assigned : BOOLEAN]

AbsentInstance ==
    [status |-> "ABSENT", version |-> None, subject |-> None,
     subjectActor |-> None, route |-> [s \in StepNo |-> None],
     step |-> 0, outcome |-> "NONE"]

AbsentTask ==
    [status |-> "ABSENT", instance |-> None, step |-> 0, assignee |-> None,
     candidates |-> {}, escalated |-> FALSE, completedBy |-> None]

NoDecision == [actor |-> None, decision |-> "NONE"]
Idle == [op |-> "idle", task |-> 0, decision |-> "NONE", to |-> None]

Init ==
    /\ instances = [i \in Instance |-> AbsentInstance]
    /\ tasks = [t \in TaskId |-> AbsentTask]
    /\ nextTask = 1
    /\ decisions = [t \in TaskId |-> NoDecision]
    /\ executions = {}
    /\ effects = [x \in Instance \X StepNo |-> 0]
    /\ active = [u \in User |-> TRUE]
    /\ calls = [u \in User |-> Idle]
    /\ sweeps = [w \in Sweeper |-> {}]

-----------------------------------------------------------------------------
\* Routing

StepOf(t) == Steps[instances[tasks[t].instance].version][tasks[t].step]

\* The subject actor, where the step refuses self-approval.
Barred(row, step) == IF step.allowSelf THEN {} ELSE {row.subjectActor}

\* What resolveAssignment may return for step k of an instance: a manager as
\* Organisation reports it now, the user named when the workflow was started,
\* or the eligible actors (active accounts only) as RBAC reports them now.
Assignments(row, k) ==
    LET step == Steps[row.version][k] IN
    CASE step.mode = "MANAGER" ->
           [assignee : User \ Barred(row, step), candidates : {{}}]
      [] step.mode = "USER" ->
           [assignee : {row.route[k]} \cap (User \ Barred(row, step)),
            candidates : {{}}]
      [] step.mode = "ROLE" ->
           [assignee : {None},
            candidates : (SUBSET ({u \in User : active[u]} \ Barred(row, step)))
                             \ {{}}]

\* There may be no manager and no eligible actor; a named user is missing or
\* is the subject actor.
MayFailRouting(row, k) ==
    LET step == Steps[row.version][k] IN
    step.mode = "USER" => row.route[k] \notin User \ Barred(row, step)

-----------------------------------------------------------------------------
\* The engine.  `row` is the instance's row inside the transaction, `table`
\* the task table after the task that triggered the step was closed.

\* findOrCreate finds a SUCCEEDED row and skips the handler, or the handler
\* runs and the row becomes SUCCEEDED.
ExecuteSystemActionsAgain(i, ks) ==
    /\ executions' = executions \cup ({i} \X ks)
    /\ effects' = [x \in Instance \X StepNo |->
                      IF x \in {i} \X ks THEN effects[x] + 1 ELSE effects[x]]

ExecuteSystemActions(i, ks) ==
    LET due == ({i} \X ks) \ executions IN
    /\ executions' = executions \cup due
    /\ effects' = [x \in Instance \X StepNo |->
                      IF x \in due THEN effects[x] + 1 ELSE effects[x]]

CreateTask(i, row, k, table) ==
    /\ nextTask \in TaskId
    /\ \E a \in Assignments(row, k) :
          tasks' = [table EXCEPT ![nextTask] =
                       [status |-> "PENDING", instance |-> i, step |-> k,
                        assignee |-> a.assignee, candidates |-> a.candidates,
                        escalated |-> FALSE, completedBy |-> None]]
    /\ nextTask' = nextTask + 1
    /\ instances' = [instances EXCEPT ![i] =
                       [row EXCEPT !.status = "ACTIVE", !.step = k]]

FailRouting(i, row, k, table) ==
    /\ MayFailRouting(row, k)
    /\ instances' = [instances EXCEPT ![i] =
                       [row EXCEPT !.status = "FAILED", !.step = k]]
    /\ tasks' = table
    /\ UNCHANGED nextTask

CompleteInstancePastTheEnd(i, row, table, outcome) ==
    /\ instances' = [instances EXCEPT ![i] =
                       [row EXCEPT !.status = "COMPLETED", !.step = @ + 1,
                                   !.outcome = outcome]]
    /\ tasks' = table
    /\ UNCHANGED nextTask

CompleteInstance(i, row, table, outcome) ==
    /\ instances' = [instances EXCEPT ![i] =
                       [row EXCEPT !.status = "COMPLETED", !.step = 0,
                                   !.outcome = outcome]]
    /\ tasks' = table
    /\ UNCHANGED nextTask

\* Steps s .. k-1 are system actions, run one after the other; step k is the
\* step with a task the chain comes to rest at, or there is none left.
ReachesAnyLaterStep(v, s, k) ==
    k \in 1 .. Len(Steps[v]) => Steps[v][k].type # "SYSTEM_ACTION"

Reaches(v, s, k) ==
    /\ \A j \in s .. k - 1 : Steps[v][j].type = "SYSTEM_ACTION"
    /\ k \in 1 .. Len(Steps[v]) => Steps[v][k].type # "SYSTEM_ACTION"

\* activateStep, with the executeSystemActionStep and advancePastStep calls
\* it leads to.  An APPROVE of the last step passes the outcome APPROVED.
Activate(i, row, s, table, outcome) ==
    \E k \in s .. Len(Steps[row.version]) + 1 :
       /\ Reaches(row.version, s, k)
       /\ ExecuteSystemActions(i, s .. k - 1)
       /\ \/ /\ k = Len(Steps[row.version]) + 1
             /\ CompleteInstance(i, row, table,
                                 IF k = s THEN outcome ELSE "COMPLETED")
          \/ /\ k <= Len(Steps[row.version])
             /\ \/ CreateTask(i, row, k, table)
                \/ FailRouting(i, row, k, table)

-----------------------------------------------------------------------------
\* instanceService

\* The unique index on the subjects of ACTIVE rows.
OccupiedOnceCompleted(x) ==
    \E j \in Instance : instances[j].status = "COMPLETED" /\ instances[j].subject = x

Occupied(x) ==
    \E j \in Instance : instances[j].status = "ACTIVE" /\ instances[j].subject = x

\* startWorkflow: a second active instance of one subject is refused.
Start(i, v, x, subjectActor, route) ==
    /\ instances[i].status = "ABSENT"
    /\ ~ Occupied(x)
    /\ Activate(i, [status |-> "ACTIVE", version |-> v, subject |-> x,
                    subjectActor |-> subjectActor, route |-> route,
                    step |-> 0, outcome |-> "NONE"],
                1, tasks, "COMPLETED")
    /\ UNCHANGED <<decisions, active, calls, sweeps>>

\* stepAssignments names users for USER steps only.
Routes(v) ==
    {r \in [StepNo -> UserOrNone] :
        \A s \in StepNo : r[s] # None => /\ s <= Len(Steps[v])
                                         /\ Steps[v][s].type # "SYSTEM_ACTION"
                                         /\ Steps[v][s].mode = "USER"}

\* cancelInstance, under FOR UPDATE on the instance row.
CancelInstanceRow(i) ==
    /\ instances[i].status = "ACTIVE"
    /\ instances' = [instances EXCEPT ![i].status = "CANCELLED", ![i].step = 0]
    /\ UNCHANGED <<tasks, nextTask, decisions, executions, effects, active,
                   calls, sweeps>>

Cancel(i) ==
    /\ instances[i].status = "ACTIVE"
    /\ instances' = [instances EXCEPT ![i].status = "CANCELLED", ![i].step = 0]
    /\ tasks' = [t \in TaskId |->
                    IF /\ tasks[t].instance = i
                       /\ tasks[t].step = instances[i].step
                       /\ tasks[t].status = "PENDING"
                    THEN [tasks[t] EXCEPT !.status = "CANCELLED"]
                    ELSE tasks[t]]
    /\ UNCHANGED <<nextTask, decisions, executions, effects, active, calls, sweeps>>

-----------------------------------------------------------------------------
\* taskService

EligibleAsAssignee(u, t) == u \in tasks[t].candidates \cup {tasks[t].assignee}

Eligible(u, t) ==
    IF StepOf(t).mode = "ROLE" THEN u \in tasks[t].candidates
                               ELSE u = tasks[t].assignee

MayAct(u, t) ==
    /\ calls[u] = Idle
    /\ tasks[t].status = "PENDING"
    /\ Eligible(u, t)
    /\ active[u]

BeginAnyDecision(u, t, d) ==
    /\ MayAct(u, t)
    /\ StepOf(t).type = "APPROVAL"
    /\ u \notin Barred(instances[tasks[t].instance], StepOf(t))
    /\ calls' = [calls EXCEPT ![u] =
                    [op |-> "decide", task |-> t, decision |-> d, to |-> None]]
    /\ UNCHANGED <<instances, tasks, nextTask, decisions, executions, effects,
                   active, sweeps>>

BeginDecide(u, t, d) ==
    /\ MayAct(u, t)
    /\ StepOf(t).type = "APPROVAL"
    /\ d \in StepOf(t).permitted
    /\ u \notin Barred(instances[tasks[t].instance], StepOf(t))
    /\ calls' = [calls EXCEPT ![u] =
                    [op |-> "decide", task |-> t, decision |-> d, to |-> None]]
    /\ UNCHANGED <<instances, tasks, nextTask, decisions, executions, effects,
                   active, sweeps>>

\* transitionStatus(taskId, 'PENDING', COMPLETED): the UPDATE and its WHERE.
StillThere(t) == tasks[t].status # "ABSENT"

StillPending(t) == tasks[t].status = "PENDING"

Completed(t, u) ==
    [tasks EXCEPT ![t].status = "COMPLETED", ![t].completedBy = u]

\* applyDecisionTransition, for a decision d on step s of instance i.
ApplyDecision(i, s, d, table) ==
    \/ /\ d = "REJECT"
       /\ CompleteInstance(i, instances[i], table, "REJECTED")
       /\ UNCHANGED <<executions, effects>>
    \/ /\ d = "RETURN"
       /\ s > 1
       /\ Activate(i, instances[i], s - 1, table, "COMPLETED")
    \/ /\ d = "APPROVE"
       /\ Activate(i, instances[i], s + 1, table, "APPROVED")

CommitDecide(u) ==
    LET t == calls[u].task
        d == calls[u].decision
    IN /\ calls[u].op = "decide"
       /\ StillPending(t)
       /\ ApplyDecision(tasks[t].instance, tasks[t].step, d, Completed(t, u))
       /\ decisions' = [decisions EXCEPT ![t] = [actor |-> u, decision |-> d]]
       /\ calls' = [calls EXCEPT ![u] = Idle]
       /\ UNCHANGED <<active, sweeps>>

BeginComplete(u, t) ==
    /\ MayAct(u, t)
    /\ StepOf(t).type = "TASK"
    /\ calls' = [calls EXCEPT ![u] =
                    [op |-> "complete", task |-> t, decision |-> "NONE", to |-> None]]
    /\ UNCHANGED <<instances, tasks, nextTask, decisions, executions, effects,
                   active, sweeps>>

CommitComplete(u) ==
    LET t == calls[u].task
        i == tasks[t].instance
    IN /\ calls[u].op = "complete"
       /\ StillPending(t)
       /\ Activate(i, instances[i], tasks[t].step + 1, Completed(t, u), "COMPLETED")
       /\ calls' = [calls EXCEPT ![u] = Idle]
       /\ UNCHANGED <<decisions, active, sweeps>>

\* Whether u holds the reassign permission is free; a disabled account is
\* refused by authorize().
BeginReassign(u, t, to) ==
    /\ calls[u] = Idle
    /\ active[u]
    /\ tasks[t].status = "PENDING"
    /\ calls' = [calls EXCEPT ![u] =
                    [op |-> "reassign", task |-> t, decision |-> "NONE", to |-> to]]
    /\ UNCHANGED <<instances, tasks, nextTask, decisions, executions, effects,
                   active, sweeps>>

\* The UPDATE is by id alone.
CommitReassign(u) ==
    /\ calls[u].op = "reassign"
    /\ tasks' = [tasks EXCEPT ![calls[u].task].assignee = calls[u].to]
    /\ calls' = [calls EXCEPT ![u] = Idle]
    /\ UNCHANGED <<instances, nextTask, decisions, executions, effects, active,
                   sweeps>>

\* The transaction of u's call throws and rolls back.
Abandon(u) ==
    /\ calls[u] # Idle
    /\ calls' = [calls EXCEPT ![u] = Idle]
    /\ UNCHANGED <<instances, tasks, nextTask, decisions, executions, effects,
                   active, sweeps>>

-----------------------------------------------------------------------------
\* escalationService.processDueEscalations

Escalatable(t) ==
    /\ tasks[t].status = "PENDING"
    /\ ~ tasks[t].escalated
    /\ StepOf(t).escalate # "NEVER"

\* Some of the escalatable tasks are past their escalate_after.
BeginSweep(w) ==
    /\ sweeps[w] = {}
    /\ \E due \in SUBSET {t \in TaskId : Escalatable(t)} :
          /\ due # {}
          /\ sweeps' = [sweeps EXCEPT ![w] =
                {[task |-> t, assigned |-> tasks[t].assignee # None] : t \in due}]
    /\ UNCHANGED <<instances, tasks, nextTask, decisions, executions, effects,
                   active, calls>>

\* markEscalated's WHERE: escalated_at IS NULL and no more.
UnclaimedWhilePending(t) == tasks[t].status = "PENDING"

Unclaimed(t) == ~ tasks[t].escalated

\* The target is the listed assignee's manager, if the step asks for it and
\* there is one.
Escalate(w) ==
    /\ \E row \in sweeps[w], target \in UserOrNone :
          /\ target # None =>
                /\ row.assigned
                /\ StepOf(row.task).escalate = "REASSIGN_TO_ASSIGNEE_MANAGER"
          /\ sweeps' = [sweeps EXCEPT ![w] = @ \ {row}]
          /\ IF Unclaimed(row.task)
             THEN tasks' = [tasks EXCEPT
                    ![row.task].escalated = TRUE,
                    ![row.task].assignee = IF target = None THEN @ ELSE target]
             ELSE tasks' = tasks
    /\ UNCHANGED <<instances, nextTask, decisions, executions, effects, active,
                   calls>>

\* A task's transaction throws: the rest of the list is not processed.
AbandonSweep(w) ==
    /\ sweeps[w] # {}
    /\ sweeps' = [sweeps EXCEPT ![w] = {}]
    /\ UNCHANGED <<instances, tasks, nextTask, decisions, executions, effects,
                   active, calls>>

-----------------------------------------------------------------------------
\* Identity's accountSecurityService, seen from here.
SetAccount(u, on) ==
    /\ active[u] # on
    /\ active' = [active EXCEPT ![u] = on]
    /\ UNCHANGED <<instances, tasks, nextTask, decisions, executions, effects,
                   calls, sweeps>>

Next ==
    \/ \E i \in Instance, v \in Version, x \in Subject, a \in UserOrNone :
          \E route \in Routes(v) : Start(i, v, x, a, route)
    \/ \E i \in Instance : Cancel(i)
    \/ \E u \in User, t \in TaskId, d \in Decision : BeginDecide(u, t, d)
    \/ \E u \in User : CommitDecide(u)
    \/ \E u \in User, t \in TaskId : BeginComplete(u, t)
    \/ \E u \in User : CommitComplete(u)
    \/ \E u, to \in User, t \in TaskId : BeginReassign(u, t, to)
    \/ \E u \in User : CommitReassign(u)
    \/ \E u \in User : Abandon(u)
    \/ \E w \in Sweeper : BeginSweep(w)
    \/ \E w \in Sweeper : Escalate(w)
    \/ \E w \in Sweeper : AbandonSweep(w)
    \/ \E u \in User, on \in BOOLEAN : SetAccount(u, on)

Spec == Init /\ [][Next]_vars
-----------------------------------------------------------------------------
\* Properties

\* Every table holds rows of its schema.
TypeOK ==
    /\ instances \in [Instance -> InstanceRow]
    /\ \A i \in Instance : instances[i].status # "ABSENT" =>
                                 instances[i].version \in Version
    /\ tasks \in [TaskId -> TaskRow]
    /\ \A t \in TaskId : tasks[t].status # "ABSENT" => t < nextTask
    /\ nextTask \in 1 .. MaxTasks + 1
    /\ decisions \in [TaskId -> DecisionRow]
    /\ executions \in SUBSET (Instance \X StepNo)
    /\ effects \in [Instance \X StepNo -> Nat]
    /\ active \in [User -> BOOLEAN]
    /\ calls \in [User -> Call]
    /\ sweeps \in [Sweeper -> SUBSET DueRow]

\* An ACTIVE instance waits for exactly one PENDING task, the one of its
\* current step, and an instance that is over waits for none: no decide,
\* cancel or failed routing, in any order, strands an instance or leaves a
\* task somebody can still act on.
OnePendingTask ==
    /\ \A t \in TaskId : tasks[t].status = "PENDING" =>
          /\ instances[tasks[t].instance].status = "ACTIVE"
          /\ instances[tasks[t].instance].step = tasks[t].step
    /\ \A t, u \in TaskId :
          /\ tasks[t].status = "PENDING"
          /\ tasks[u].status = "PENDING"
          /\ tasks[t].instance = tasks[u].instance
          => t = u
    /\ \A i \in Instance : instances[i].status = "ACTIVE" =>
          \E t \in TaskId : tasks[t].status = "PENDING" /\ tasks[t].instance = i

\* An approval task is COMPLETED exactly when it has its decision, taken by
\* the user recorded as having completed it and permitted by its step; a
\* plain task never has one.
DecisionsMatchTasks ==
    \A t \in TaskId :
       /\ decisions[t].decision # "NONE" <=>
             tasks[t].status = "COMPLETED" /\ StepOf(t).type = "APPROVAL"
       /\ decisions[t].decision # "NONE" =>
             /\ decisions[t].actor = tasks[t].completedBy
             /\ decisions[t].decision \in StepOf(t).permitted

\* Nobody decides about himself where the step forbids it, whoever the task
\* was reassigned or escalated to meanwhile, and a ROLE task is decided only
\* by a candidate fixed when it was created.
DecidersEntitled ==
    \A t \in TaskId : decisions[t].decision # "NONE" =>
       /\ decisions[t].actor \notin Barred(instances[tasks[t].instance], StepOf(t))
       /\ StepOf(t).mode = "ROLE" => decisions[t].actor \in tasks[t].candidates

\* A system action takes effect once per instance and step, however often a
\* RETURN makes the chain pass it again, and is never marked SUCCEEDED
\* without having taken effect.
SystemActionsOnce ==
    \A x \in Instance \X StepNo : effects[x] = IF x \in executions THEN 1 ELSE 0

\* Step s of instance i has been passed: its action took effect, or its last
\* task was completed, with an APPROVE if it is an approval.
Passed(i, s) ==
    LET step == Steps[instances[i].version][s] IN
    IF step.type = "SYSTEM_ACTION"
    THEN <<i, s>> \in executions
    ELSE \E t \in TaskId :
            /\ tasks[t].instance = i /\ tasks[t].step = s
            /\ tasks[t].status = "COMPLETED"
            /\ step.type = "APPROVAL" => decisions[t].decision = "APPROVE"
            /\ \A u \in TaskId :
                  tasks[u].instance = i /\ tasks[u].step = s => u <= t

\* The steps behind an instance: those before the current one, or all of
\* them once it has completed other than by a rejection.
Behind(i) ==
    IF instances[i].status \in {"ACTIVE", "FAILED"}
    THEN 1 .. instances[i].step - 1
    ELSE IF instances[i].status = "COMPLETED" /\ instances[i].outcome # "REJECTED"
         THEN 1 .. Len(Steps[instances[i].version])
         ELSE {}

\* No step is ever skipped: an instance stands at a step, or completes as
\* APPROVED or COMPLETED, only with the last word on every earlier step
\* being an approval, a completed task or an executed action.
CompletionJustified ==
    \A i \in Instance : \A s \in Behind(i) : Passed(i, s)

\* What is over stays as it is: no step changes an instance that has ended,
\* or the status, completer and decision of a task that is not PENDING.
HistoryIsFinal ==
    [][/\ \A i \in Instance :
            instances[i].status \in {"COMPLETED", "CANCELLED", "FAILED"} =>
                instances'[i] = instances[i]
       /\ \A t \in TaskId :
            tasks[t].status \in {"COMPLETED", "CANCELLED"} =>
                /\ tasks'[t].status = tasks[t].status
                /\ tasks'[t].completedBy = tasks[t].completedBy
                /\ decisions'[t] = decisions[t]]_vars

\* A task that was escalated is not moved again by a sweep: of two sweeps
\* that listed it, one escalates it.  Only a reassignment moves it later.
EscalatedOnce ==
    [][\A t \in TaskId :
          tasks[t].escalated /\ calls' = calls =>
              /\ tasks'[t].escalated
              /\ tasks'[t].assignee = tasks[t].assignee]_vars

\* The tables implement the promise of ApprovalChain: the marker of an
\* instance is its row without the columns ApprovalChain does not speak of.
Marker(i) == [status |-> instances[i].status, version |-> instances[i].version,
              subject |-> instances[i].subject, step |-> instances[i].step]

Markers == [i \in Instance |-> Marker(i)]

Chain == INSTANCE ApprovalChain WITH chain <- Markers, done <- executions

\* The engine implements the chain: the marker moves as ApprovalChain says
\* and stays where it is in every other step.
ImplementsChain == Chain!CSpec
=============================================================================
