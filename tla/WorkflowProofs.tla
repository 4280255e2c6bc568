--------------------------- MODULE WorkflowProofs ---------------------------
(***************************************************************************)
(* Theorems about the engine for every set of users, instances, versions   *)
(* and steps, and every bound.                                             *)
(***************************************************************************)
EXTENDS Workflow, TLAPS

\* The instance and task tables, as they are or as they stand inside a
\* transaction: their types, what a task refers to, and the half of
\* OnePendingTask about tasks.
TablesOK(inst, tab, n) ==
    /\ inst \in [Instance -> InstanceRow]
    /\ \A i \in Instance : inst[i].status # "ABSENT" => inst[i].version \in Version
    /\ tab \in [TaskId -> TaskRow]
    /\ n \in 1 .. MaxTasks + 1
    /\ \A t \in TaskId : tab[t].status # "ABSENT" =>
          /\ t < n
          /\ tab[t].instance \in Instance
          /\ inst[tab[t].instance].status # "ABSENT"
          /\ tab[t].step \in 1 .. Len(Steps[inst[tab[t].instance].version])
          /\ Steps[inst[tab[t].instance].version][tab[t].step].type
                \in {"APPROVAL", "TASK"}
    /\ \A t \in TaskId : tab[t].status = "PENDING" =>
          /\ inst[tab[t].instance].status = "ACTIVE"
          /\ inst[tab[t].instance].step = tab[t].step
    /\ \A t, u \in TaskId :
          /\ tab[t].status = "PENDING" /\ tab[u].status = "PENDING"
          /\ tab[t].instance = tab[u].instance
          => t = u

\* The other half: each of the instances ids, if ACTIVE, has a task to wait for.
Waits(inst, tab, ids) ==
    \A i \in ids : inst[i].status = "ACTIVE" =>
        \E t \in TaskId : tab[t].status = "PENDING" /\ tab[t].instance = i

\* Tasks keep what they were created with, instances what they were started
\* with.
Stable(inst, tab, inst2, tab2) ==
    \A t \in TaskId : tab[t].status # "ABSENT" =>
       /\ tab2[t].status # "ABSENT"
       /\ tab2[t].instance = tab[t].instance
       /\ tab2[t].step = tab[t].step
       /\ tab2[t].candidates = tab[t].candidates
       /\ inst2[tab[t].instance].version = inst[tab[t].instance].version
       /\ inst2[tab[t].instance].subjectActor = inst[tab[t].instance].subjectActor

OtherTypes ==
    /\ decisions \in [TaskId -> DecisionRow]
    /\ executions \in SUBSET (Instance \X StepNo)
    /\ effects \in [Instance \X StepNo -> Nat]
    /\ active \in [User -> BOOLEAN]
    /\ calls \in [User -> Call]
    /\ sweeps \in [Sweeper -> SUBSET DueRow]

\* A task that is not there yet has no decision.
NoEarlyDecision ==
    \A t \in TaskId : tasks[t].status = "ABSENT" => decisions[t] = NoDecision

\* What a call under way found when it was made still holds: the task is of
\* the call's kind, the decision one its step permits, and the user one the
\* step lets decide.
Admitted(u, call) ==
    /\ call.op # "idle" =>
          call.task \in TaskId /\ tasks[call.task].status # "ABSENT"
    /\ call.op = "decide" =>
          /\ StepOf(call.task).type = "APPROVAL"
          /\ call.decision \in StepOf(call.task).permitted
          /\ u \notin Barred(instances[tasks[call.task].instance],
                             StepOf(call.task))
          /\ StepOf(call.task).mode = "ROLE" => u \in tasks[call.task].candidates
    /\ call.op = "complete" => StepOf(call.task).type = "TASK"

CallsAdmitted == \A u \in User : Admitted(u, calls[u])

SweepsListed ==
    \A w \in Sweeper : \A row \in sweeps[w] :
       row.task \in TaskId /\ tasks[row.task].status # "ABSENT"

\* The inductive invariant.
IInv ==
    /\ TablesOK(instances, tasks, nextTask)
    /\ Waits(instances, tasks, Instance)
    /\ OtherTypes
    /\ NoEarlyDecision
    /\ CallsAdmitted
    /\ SweepsListed
    /\ DecisionsMatchTasks
    /\ DecidersEntitled
    /\ SystemActionsOnce

\* An activation leaves one of three marks on the tables.
Created(i, row, k, table, r) ==
    /\ nextTask \in TaskId
    /\ r \in TaskRow
    /\ r.status = "PENDING" /\ r.instance = i /\ r.step = k
    /\ tasks' = [table EXCEPT ![nextTask] = r]
    /\ nextTask' = nextTask + 1
    /\ instances' = [instances EXCEPT ![i] =
                        [row EXCEPT !.status = "ACTIVE", !.step = k]]

Failed(i, row, k, table) ==
    /\ tasks' = table
    /\ nextTask' = nextTask
    /\ instances' = [instances EXCEPT ![i] =
                        [row EXCEPT !.status = "FAILED", !.step = k]]

Ended(i, row, table, outcome) ==
    /\ tasks' = table
    /\ nextTask' = nextTask
    /\ instances' = [instances EXCEPT ![i] =
                        [row EXCEPT !.status = "COMPLETED", !.step = 0,
                                    !.outcome = outcome]]

\* A step, status or outcome written to a workflow_instances row leaves it a
\* row of its schema (instanceRepository.update).
LEMMA RowUpdates ==
    ASSUME NEW row \in InstanceRow, NEW k \in 0 .. MaxSteps,
           NEW status \in {"ACTIVE", "COMPLETED", "CANCELLED", "FAILED"},
           NEW outcome \in {"NONE", "APPROVED", "COMPLETED", "REJECTED"}
    PROVE  /\ [row EXCEPT !.status = status, !.step = k] \in InstanceRow
           /\ [row EXCEPT !.status = status, !.step = k, !.outcome = outcome]
                 \in InstanceRow
<1>1. [row EXCEPT !.status = status] \in InstanceRow
  BY DEF InstanceRow
<1>2. \A r \in InstanceRow : [r EXCEPT !.step = k] \in InstanceRow
  BY DEF InstanceRow
<1>3. \A r \in InstanceRow : [r EXCEPT !.outcome = outcome] \in InstanceRow
  BY DEF InstanceRow
<1> QED BY <1>1, <1>2, <1>3

\* What resolveAssignment returns can be stored: an assignee or none, and
\* candidates that are accounts.
LEMMA AssignmentTypes ==
    ASSUME NEW row \in InstanceRow, row.version \in Version,
           NEW k \in 1 .. Len(Steps[row.version]),
           active \in [User -> BOOLEAN],
           NEW a \in Assignments(row, k)
    PROVE  a.assignee \in UserOrNone /\ a.candidates \in SUBSET User
<1> DEFINE step == Steps[row.version][k]
<1>1. step \in StepRow
  BY StepsAssumption DEF ValidVersion
<1>2. step.mode \in {"USER", "ROLE", "MANAGER"}
  BY <1>1 DEF StepRow
<1>3. CASE step.mode = "MANAGER"
  <2>1. a \in [assignee : User \ Barred(row, step), candidates : {{}}]
    BY <1>3 DEF Assignments
  <2> QED BY <2>1 DEF UserOrNone
<1>4. CASE step.mode = "USER"
  <2>1. a \in [assignee : {row.route[k]} \cap (User \ Barred(row, step)),
               candidates : {{}}]
    BY <1>4 DEF Assignments
  <2> QED BY <2>1 DEF UserOrNone
<1>5. CASE step.mode = "ROLE"
  <2>1. a \in [assignee : {None},
               candidates : (SUBSET ({u \in User : active[u]} \ Barred(row, step)))
                                \ {{}}]
    BY <1>5 DEF Assignments
  <2> QED BY <2>1 DEF UserOrNone
<1> QED BY <1>2, <1>3, <1>4, <1>5

\* activateStep ends one of three ways, whatever system actions it passed: a
\* task created, the routing failed, or the instance completed.
LEMMA ActivationMarks ==
    ASSUME NEW i \in Instance, NEW row \in InstanceRow, row.version \in Version,
           NEW s \in Int, s >= 1, NEW table, NEW outcome,
           active \in [User -> BOOLEAN],
           Activate(i, row, s, table, outcome)
    PROVE  \E k \in s .. Len(Steps[row.version]) + 1 :
              /\ ExecuteSystemActions(i, s .. k - 1)
              /\ \A j \in s .. k - 1 : Steps[row.version][j].type = "SYSTEM_ACTION"
              /\ \/ /\ k = Len(Steps[row.version]) + 1
                    /\ Ended(i, row, table, IF k = s THEN outcome ELSE "COMPLETED")
                 \/ /\ k \in 1 .. Len(Steps[row.version])
                    /\ Steps[row.version][k].type # "SYSTEM_ACTION"
                    /\ \/ Failed(i, row, k, table)
                       \/ \E r : Created(i, row, k, table, r)
<1> DEFINE N == Len(Steps[row.version])
<1>0. N \in StepNo /\ N \in Nat
  BY StepsAssumption, BoundAssumption DEF ValidVersion, StepNo
<1>1. PICK k \in s .. N + 1 :
         /\ Reaches(row.version, s, k)
         /\ ExecuteSystemActions(i, s .. k - 1)
         /\ \/ /\ k = N + 1
               /\ CompleteInstance(i, row, table,
                                   IF k = s THEN outcome ELSE "COMPLETED")
            \/ /\ k <= N
               /\ \/ CreateTask(i, row, k, table)
                  \/ FailRouting(i, row, k, table)
  BY DEF Activate
<1>2. CASE k = N + 1 /\ CompleteInstance(i, row, table,
                            IF k = s THEN outcome ELSE "COMPLETED")
  BY <1>1, <1>2 DEF Reaches, CompleteInstance, Ended
<1>3. CASE k <= N /\ FailRouting(i, row, k, table)
  <2>1. k \in 1 .. N
    BY <1>0, <1>3
  <2>2. Steps[row.version][k].type # "SYSTEM_ACTION"
    BY <1>1, <2>1 DEF Reaches
  <2> QED BY <1>1, <1>3, <2>1, <2>2 DEF Reaches, FailRouting, Failed
<1>4. CASE k <= N /\ CreateTask(i, row, k, table)
  <2>1. k \in 1 .. N /\ k \in 0 .. MaxSteps
    BY <1>0, <1>4, BoundAssumption DEF StepNo
  <2>2. Steps[row.version][k].type # "SYSTEM_ACTION"
    BY <1>1, <2>1 DEF Reaches
  <2>3. PICK a \in Assignments(row, k) :
           tasks' = [table EXCEPT ![nextTask] =
                        [status |-> "PENDING", instance |-> i, step |-> k,
                         assignee |-> a.assignee, candidates |-> a.candidates,
                         escalated |-> FALSE, completedBy |-> None]]
    BY <1>4 DEF CreateTask
  <2>4. a.assignee \in UserOrNone /\ a.candidates \in SUBSET User
    BY <2>1, <2>3, AssignmentTypes
  <2>5. [status |-> "PENDING", instance |-> i, step |-> k,
         assignee |-> a.assignee, candidates |-> a.candidates,
         escalated |-> FALSE, completedBy |-> None] \in TaskRow
    BY <2>1, <2>4 DEF TaskRow, UserOrNone
  <2>6. Created(i, row, k, table,
                [status |-> "PENDING", instance |-> i, step |-> k,
                 assignee |-> a.assignee, candidates |-> a.candidates,
                 escalated |-> FALSE, completedBy |-> None])
    BY <1>4, <2>3, <2>5 DEF CreateTask, Created
  <2> QED BY <1>1, <2>1, <2>2, <2>6 DEF Reaches
<1> QED BY <1>1, <1>2, <1>3, <1>4

\* executeSystemActionStep keeps one effect per SUCCEEDED row, because a step
\* findOrCreate already finds SUCCEEDED is skipped.
LEMMA SystemActionsKept ==
    ASSUME NEW i \in Instance, NEW v \in Version,
           NEW s \in 1 .. Len(Steps[v]) + 1, NEW k \in s .. Len(Steps[v]) + 1,
           executions \in SUBSET (Instance \X StepNo),
           effects \in [Instance \X StepNo -> Nat],
           SystemActionsOnce, ExecuteSystemActions(i, s .. k - 1)
    PROVE  /\ executions' \in SUBSET (Instance \X StepNo)
           /\ effects' \in [Instance \X StepNo -> Nat]
           /\ SystemActionsOnce'
<1> DEFINE due == ({i} \X (s .. k - 1)) \ executions
<1>1. Len(Steps[v]) \in 1 .. MaxSteps /\ MaxSteps \in Nat
  BY StepsAssumption, BoundAssumption DEF ValidVersion, StepNo
<1>2. s .. k - 1 \subseteq StepNo
  BY <1>1 DEF StepNo
<1>3. due \subseteq Instance \X StepNo
  BY <1>2
<1>4. due \cap executions = {}
  OBVIOUS
<1> HIDE DEF due
<1>5. executions' = executions \cup due
      /\ effects' = [x \in Instance \X StepNo |->
                        IF x \in due THEN effects[x] + 1 ELSE effects[x]]
  BY DEF ExecuteSystemActions, due
<1>6. effects' \in [Instance \X StepNo -> Nat]
  BY <1>5
<1>7. SystemActionsOnce'
  BY <1>3, <1>4, <1>5 DEF SystemActionsOnce
<1> QED BY <1>3, <1>5, <1>6, <1>7

\* The tables an activation may start from: inst is the instance table with
\* row as i's row, tab the task table, and none of i's tasks is PENDING.
Ready(i, row, s, inst, tab, outcome) ==
    /\ i \in Instance
    /\ row \in InstanceRow
    /\ row.version \in Version
    /\ row.status = "ACTIVE"
    /\ s \in 1 .. Len(Steps[row.version]) + 1
    /\ outcome \in {"NONE", "APPROVED", "COMPLETED", "REJECTED"}
    /\ instances \in [Instance -> InstanceRow]
    /\ inst[i] = row
    /\ \A j \in Instance \ {i} : inst[j] = instances[j]
    /\ TablesOK(inst, tab, nextTask)
    /\ \A t \in TaskId : tab[t].status = "PENDING" => tab[t].instance # i
    /\ Waits(instances, tab, Instance \ {i})
    /\ OtherTypes
    /\ SystemActionsOnce

\* And those it ends in.
InOrder(inst, tab) ==
    /\ TablesOK(instances', tasks', nextTask')
    /\ Waits(instances', tasks', Instance)
    /\ Stable(inst, tab, instances', tasks')
    /\ \A t \in TaskId : tab[t].status # "ABSENT" => tasks'[t] = tab[t]
    /\ \A t \in TaskId : tasks'[t] = tab[t] \/ tasks'[t].status = "PENDING"
    /\ executions' \in SUBSET (Instance \X StepNo)
    /\ effects' \in [Instance \X StepNo -> Nat]
    /\ SystemActionsOnce'

\* Tables stay in order when no task becomes PENDING, tasks keep their instance
\* and step, instances their version, and the instances of the tasks that remain
\* PENDING their status and step.
LEMMA TablesKept ==
    ASSUME NEW inst, NEW tab, NEW inst2, NEW tab2, NEW n, TablesOK(inst, tab, n),
           inst2 \in [Instance -> InstanceRow], tab2 \in [TaskId -> TaskRow],
           \A i \in Instance : /\ inst2[i].version = inst[i].version
                               /\ inst2[i].status = "ABSENT" <=> inst[i].status = "ABSENT",
           \A t \in TaskId : /\ tab2[t].instance = tab[t].instance
                             /\ tab2[t].step = tab[t].step
                             /\ tab2[t].status = "ABSENT" <=> tab[t].status = "ABSENT",
           \A t \in TaskId : tab2[t].status = "PENDING" =>
              /\ tab[t].status = "PENDING"
              /\ inst2[tab[t].instance].status = inst[tab[t].instance].status
              /\ inst2[tab[t].instance].step = inst[tab[t].instance].step
    PROVE  TablesOK(inst2, tab2, n)
<1>1. \A i \in Instance : inst2[i].status # "ABSENT" => inst2[i].version \in Version
  BY DEF TablesOK
<1>2. ASSUME NEW t \in TaskId, tab2[t].status # "ABSENT"
      PROVE  /\ t < n
             /\ tab2[t].instance \in Instance
             /\ inst2[tab2[t].instance].status # "ABSENT"
             /\ tab2[t].step \in 1 .. Len(Steps[inst2[tab2[t].instance].version])
             /\ Steps[inst2[tab2[t].instance].version][tab2[t].step].type
                   \in {"APPROVAL", "TASK"}
  <2>1. /\ tab[t].status # "ABSENT"
        /\ tab2[t].instance = tab[t].instance /\ tab2[t].step = tab[t].step
    BY <1>2
  <2>2. /\ t < n
        /\ tab[t].instance \in Instance
        /\ inst[tab[t].instance].status # "ABSENT"
        /\ tab[t].step \in 1 .. Len(Steps[inst[tab[t].instance].version])
        /\ Steps[inst[tab[t].instance].version][tab[t].step].type \in {"APPROVAL", "TASK"}
    BY <2>1 DEF TablesOK
  <2>3. /\ inst2[tab[t].instance].version = inst[tab[t].instance].version
        /\ inst2[tab[t].instance].status # "ABSENT"
    BY <2>2
  <2> QED BY <2>1, <2>2, <2>3
<1>3. ASSUME NEW t \in TaskId, tab2[t].status = "PENDING"
      PROVE  /\ inst2[tab2[t].instance].status = "ACTIVE"
             /\ inst2[tab2[t].instance].step = tab2[t].step
  <2>1. tab[t].status = "PENDING"
    BY <1>3
  <2>2. inst[tab[t].instance].status = "ACTIVE" /\ inst[tab[t].instance].step = tab[t].step
    BY <2>1 DEF TablesOK
  <2> QED BY <1>3, <2>2
<1>4. ASSUME NEW t \in TaskId, NEW u \in TaskId,
             tab2[t].status = "PENDING", tab2[u].status = "PENDING",
             tab2[t].instance = tab2[u].instance
      PROVE  t = u
  <2>1. /\ tab[t].status = "PENDING" /\ tab[u].status = "PENDING"
        /\ tab[t].instance = tab[u].instance
    BY <1>4
  <2>2. \A x, y \in TaskId :
          /\ tab[x].status = "PENDING" /\ tab[y].status = "PENDING"
          /\ tab[x].instance = tab[y].instance
          => x = y
    BY DEF TablesOK
  <2> QED BY <2>1, <2>2
<1>5. n \in 1 .. MaxTasks + 1
  BY DEF TablesOK
<1>6. \A t \in TaskId : tab2[t].status # "ABSENT" =>
        /\ t < n
        /\ tab2[t].instance \in Instance
        /\ inst2[tab2[t].instance].status # "ABSENT"
        /\ tab2[t].step \in 1 .. Len(Steps[inst2[tab2[t].instance].version])
        /\ Steps[inst2[tab2[t].instance].version][tab2[t].step].type
              \in {"APPROVAL", "TASK"}
  BY <1>2
<1>7. \A t \in TaskId : tab2[t].status = "PENDING" =>
        /\ inst2[tab2[t].instance].status = "ACTIVE"
        /\ inst2[tab2[t].instance].step = tab2[t].step
  BY <1>3
<1>8. \A t, u \in TaskId :
        /\ tab2[t].status = "PENDING" /\ tab2[u].status = "PENDING"
        /\ tab2[t].instance = tab2[u].instance
        => t = u
  BY <1>4
<1> QED BY ZenonT(60), <1>1, <1>5, <1>6, <1>7, <1>8 DEF TablesOK

\* activateStep, entered with no PENDING task left on the instance, leaves every
\* ACTIVE instance waiting for exactly one.
LEMMA ActivationKeepsTables ==
    ASSUME NEW i, NEW row, NEW s, NEW inst, NEW tab, NEW outcome,
           Ready(i, row, s, inst, tab, outcome),
           Activate(i, row, s, tab, outcome)
    PROVE  InOrder(inst, tab)
<1> USE DEF Ready
<1> DEFINE N == Len(Steps[row.version])
<1>0. N \in StepNo /\ N \in Nat /\ MaxSteps \in Nat /\ MaxTasks \in Nat
  BY StepsAssumption, BoundAssumption DEF ValidVersion, StepNo
<1>1. PICK k \in s .. N + 1 :
         /\ ExecuteSystemActions(i, s .. k - 1)
         /\ \/ /\ k = N + 1
               /\ Ended(i, row, tab, IF k = s THEN outcome ELSE "COMPLETED")
            \/ /\ k \in 1 .. N
               /\ Steps[row.version][k].type # "SYSTEM_ACTION"
               /\ \/ Failed(i, row, k, tab)
                  \/ \E r : Created(i, row, k, tab, r)
  <2>1. s \in Int /\ s >= 1
    BY <1>0
  <2>2. active \in [User -> BOOLEAN]
    BY DEF OtherTypes
  <2> QED BY <2>1, <2>2, ActivationMarks
<1>a. /\ executions' \in SUBSET (Instance \X StepNo)
      /\ effects' \in [Instance \X StepNo -> Nat]
      /\ SystemActionsOnce'
  BY <1>1, SystemActionsKept DEF OtherTypes
<1>2. CASE k = N + 1 /\ Ended(i, row, tab, IF k = s THEN outcome ELSE "COMPLETED")
  <2>1. instances' = [instances EXCEPT ![i] =
                         [row EXCEPT !.status = "COMPLETED", !.step = 0,
                            !.outcome = IF k = s THEN outcome ELSE "COMPLETED"]]
        /\ tasks' = tab /\ nextTask' = nextTask
    BY <1>2 DEF Ended
  <2>2. instances' \in [Instance -> InstanceRow]
    <3> DEFINE o == IF k = s THEN outcome ELSE "COMPLETED"
    <3>1. o \in {"NONE", "APPROVED", "COMPLETED", "REJECTED"} /\ 0 \in 0 .. MaxSteps
      BY <1>0
    <3>2. [row EXCEPT !.status = "COMPLETED", !.step = 0, !.outcome = o]
            \in InstanceRow
      BY <3>1, RowUpdates
    <3> HIDE DEF o
    <3>3. instances' = [instances EXCEPT ![i] =
                         [row EXCEPT !.status = "COMPLETED", !.step = 0,
                            !.outcome = o]]
      BY <2>1 DEF o
    <3> QED BY <3>2, <3>3
  <2>3. /\ instances'[i].status = "COMPLETED"
        /\ instances'[i].version = row.version
        /\ instances'[i].subjectActor = row.subjectActor
        /\ \A j \in Instance \ {i} : instances'[j] = instances[j]
    BY <2>1 DEF InstanceRow
  <2>4. TablesOK(instances', tasks', nextTask')
    <3>1. /\ TablesOK(inst, tab, nextTask) /\ tasks' = tab /\ nextTask' = nextTask
          /\ tab \in [TaskId -> TaskRow]
      BY <2>1 DEF TablesOK
    <3>2. \A j \in Instance : /\ instances'[j].version = inst[j].version
                              /\ instances'[j].status = "ABSENT" <=> inst[j].status = "ABSENT"
      BY <2>3
    <3>3. \A t \in TaskId : tab[t].status = "PENDING" =>
             /\ instances'[tab[t].instance].status = inst[tab[t].instance].status
             /\ instances'[tab[t].instance].step = inst[tab[t].instance].step
      <4> TAKE t \in TaskId
      <4> HAVE tab[t].status = "PENDING"
      <4>1. tab[t].instance \in Instance \ {i}
        BY DEF TablesOK
      <4> QED BY <2>3, <4>1
    <3> QED BY <2>2, <3>1, <3>2, <3>3, TablesKept
  <2>5. Waits(instances', tasks', Instance)
    BY <2>1, <2>3 DEF Waits
  <2>6. Stable(inst, tab, instances', tasks')
    BY <2>1, <2>3 DEF Stable, TablesOK
  <2>7. \A t \in TaskId : tasks'[t] = tab[t] \/ tasks'[t].status = "PENDING"
    BY <2>1
  <2> QED BY <1>a, <2>1, <2>4, <2>5, <2>6, <2>7 DEF InOrder
<1>3. CASE k \in 1 .. N /\ Failed(i, row, k, tab)
  <2>1. instances' = [instances EXCEPT ![i] =
                         [row EXCEPT !.status = "FAILED", !.step = k]]
        /\ tasks' = tab /\ nextTask' = nextTask
    BY <1>3 DEF Failed
  <2>2. instances' \in [Instance -> InstanceRow]
    <3>1. k \in 0 .. MaxSteps
      BY <1>0, <1>3 DEF StepNo
    <3>2. [row EXCEPT !.status = "FAILED", !.step = k] \in InstanceRow
      BY <3>1, RowUpdates
    <3> QED BY <2>1, <3>2
  <2>3. /\ instances'[i].status = "FAILED"
        /\ instances'[i].version = row.version
        /\ instances'[i].subjectActor = row.subjectActor
        /\ \A j \in Instance \ {i} : instances'[j] = instances[j]
    BY <2>1 DEF InstanceRow
  <2>4. TablesOK(instances', tasks', nextTask')
    <3>1. /\ TablesOK(inst, tab, nextTask) /\ tasks' = tab /\ nextTask' = nextTask
          /\ tab \in [TaskId -> TaskRow]
      BY <2>1 DEF TablesOK
    <3>2. \A j \in Instance : /\ instances'[j].version = inst[j].version
                              /\ instances'[j].status = "ABSENT" <=> inst[j].status = "ABSENT"
      BY <2>3
    <3>3. \A t \in TaskId : tab[t].status = "PENDING" =>
             /\ instances'[tab[t].instance].status = inst[tab[t].instance].status
             /\ instances'[tab[t].instance].step = inst[tab[t].instance].step
      <4> TAKE t \in TaskId
      <4> HAVE tab[t].status = "PENDING"
      <4>1. tab[t].instance \in Instance \ {i}
        BY DEF TablesOK
      <4> QED BY <2>3, <4>1
    <3> QED BY <2>2, <3>1, <3>2, <3>3, TablesKept
  <2>5. Waits(instances', tasks', Instance)
    BY <2>1, <2>3 DEF Waits
  <2>6. Stable(inst, tab, instances', tasks')
    BY <2>1, <2>3 DEF Stable, TablesOK
  <2>7. \A t \in TaskId : tasks'[t] = tab[t] \/ tasks'[t].status = "PENDING"
    BY <2>1
  <2> QED BY <1>a, <2>1, <2>4, <2>5, <2>6, <2>7 DEF InOrder
<1>4. CASE k \in 1 .. N /\ Steps[row.version][k].type # "SYSTEM_ACTION"
           /\ \E r : Created(i, row, k, tab, r)
  <2>1. PICK r \in TaskRow :
           /\ nextTask \in TaskId
           /\ r.status = "PENDING" /\ r.instance = i /\ r.step = k
           /\ tasks' = [tab EXCEPT ![nextTask] = r]
           /\ nextTask' = nextTask + 1
           /\ instances' = [instances EXCEPT ![i] =
                               [row EXCEPT !.status = "ACTIVE", !.step = k]]
    BY <1>4 DEF Created
  <2>2. instances' \in [Instance -> InstanceRow]
    <3>1. k \in 0 .. MaxSteps
      BY <1>0, <1>4 DEF StepNo
    <3>2. [row EXCEPT !.status = "ACTIVE", !.step = k] \in InstanceRow
      BY <3>1, RowUpdates
    <3> QED BY <2>1, <3>2
  <2>3. /\ instances'[i].status = "ACTIVE" /\ instances'[i].step = k
        /\ instances'[i].version = row.version
        /\ instances'[i].subjectActor = row.subjectActor
        /\ \A j \in Instance \ {i} : instances'[j] = instances[j]
    BY <2>1 DEF InstanceRow
  <2>4. tab \in [TaskId -> TaskRow] /\ tab[nextTask].status = "ABSENT"
    <3>1. tab \in [TaskId -> TaskRow]
      BY DEF TablesOK
    <3>2. tab[nextTask].status # "ABSENT" => nextTask < nextTask
      BY <2>1 DEF TablesOK
    <3>3. nextTask \in Int /\ ~ (nextTask < nextTask)
      BY <1>0, <2>1 DEF TaskId
    <3> QED BY <3>1, <3>2, <3>3
  <2>5. /\ tasks' \in [TaskId -> TaskRow]
        /\ tasks'[nextTask] = r
        /\ \A t \in TaskId \ {nextTask} : tasks'[t] = tab[t]
        /\ nextTask' \in 1 .. MaxTasks + 1
    BY <1>0, <2>1, <2>4 DEF TaskId
  <2>6. Steps[row.version][k].type \in {"APPROVAL", "TASK"}
    BY <1>4, StepsAssumption DEF ValidVersion, StepRow
  <2>7. \A t \in TaskId : tasks'[t].status # "ABSENT" =>
          /\ t < nextTask'
          /\ tasks'[t].instance \in Instance
          /\ instances'[tasks'[t].instance].status # "ABSENT"
          /\ tasks'[t].step \in 1 .. Len(Steps[instances'[tasks'[t].instance].version])
          /\ Steps[instances'[tasks'[t].instance].version][tasks'[t].step].type
                \in {"APPROVAL", "TASK"}
    <3> TAKE t \in TaskId
    <3>1. CASE t = nextTask
      <4>1. t < nextTask'
        BY <1>0, <2>1, <3>1 DEF TaskId
      <4>2. tasks'[t].instance = i /\ tasks'[t].step = k
        BY <2>1, <2>5, <3>1
      <4>3. instances'[i].status # "ABSENT" /\ instances'[i].version = row.version
        BY <2>3
      <4> QED BY <1>4, <2>6, <4>1, <4>2, <4>3
    <3>2. CASE t # nextTask /\ tab[t].status # "ABSENT"
      <4>1. /\ tasks'[t] = tab[t] /\ t < nextTask
            /\ tab[t].instance \in Instance
            /\ inst[tab[t].instance].status # "ABSENT"
            /\ tab[t].step \in 1 .. Len(Steps[inst[tab[t].instance].version])
            /\ Steps[inst[tab[t].instance].version][tab[t].step].type
                \in {"APPROVAL", "TASK"}
        BY <2>5, <3>2 DEF TablesOK
      <4>2. instances'[tab[t].instance].version = inst[tab[t].instance].version
            /\ instances'[tab[t].instance].status # "ABSENT"
        BY <2>3, <4>1
      <4>3. t < nextTask'
        <5>1. TaskId \subseteq Int
          BY <1>0 DEF TaskId
        <5>2. t < nextTask /\ nextTask \in TaskId /\ nextTask' = nextTask + 1
          BY <2>1, <4>1
        <5> HIDE DEF Ready
        <5> QED BY <5>1, <5>2
      <4> QED BY <4>1, <4>2, <4>3
    <3> QED BY <2>5, <3>1, <3>2
  <2>8. /\ \A t \in TaskId : tasks'[t].status = "PENDING" =>
              /\ instances'[tasks'[t].instance].status = "ACTIVE"
              /\ instances'[tasks'[t].instance].step = tasks'[t].step
        /\ \A t, u \in TaskId :
              /\ tasks'[t].status = "PENDING" /\ tasks'[u].status = "PENDING"
              /\ tasks'[t].instance = tasks'[u].instance
              => t = u
    <3>1. ASSUME NEW t \in TaskId, t # nextTask, tasks'[t].status = "PENDING"
          PROVE  /\ tasks'[t] = tab[t] /\ tab[t].status = "PENDING"
                 /\ tab[t].instance \in Instance \ {i}
      <4>1. tasks'[t] = tab[t] /\ tab[t].status = "PENDING"
        BY <2>5, <3>1
      <4> QED BY <4>1 DEF TablesOK
    <3>2. ASSUME NEW t \in TaskId, tasks'[t].status = "PENDING"
          PROVE  /\ instances'[tasks'[t].instance].status = "ACTIVE"
                 /\ instances'[tasks'[t].instance].step = tasks'[t].step
      <4>1. CASE t = nextTask
        BY <2>1, <2>3, <2>5, <4>1
      <4>2. CASE t # nextTask
        <5>1. /\ tasks'[t] = tab[t] /\ tab[t].status = "PENDING"
              /\ tab[t].instance \in Instance \ {i}
          BY <3>1, <3>2, <4>2
        <5>2. /\ inst[tab[t].instance].status = "ACTIVE"
              /\ inst[tab[t].instance].step = tab[t].step
          BY <5>1 DEF TablesOK
        <5>3. inst[tab[t].instance] = instances'[tab[t].instance]
          BY <2>3, <5>1
        <5> QED BY <5>1, <5>2, <5>3
      <4> QED BY <4>1, <4>2
    <3>3. ASSUME NEW t \in TaskId, NEW u \in TaskId,
                 tasks'[t].status = "PENDING", tasks'[u].status = "PENDING",
                 tasks'[t].instance = tasks'[u].instance
          PROVE  t = u
      <4>1. CASE t # nextTask /\ u # nextTask
        <5>1. /\ tab[t].status = "PENDING" /\ tab[u].status = "PENDING"
              /\ tab[t].instance = tab[u].instance
          BY <3>1, <3>3, <4>1
        <5> QED BY <5>1 DEF TablesOK
      <4>2. CASE t = nextTask /\ u # nextTask
        BY <2>1, <2>5, <3>1, <3>3, <4>2
      <4>3. CASE t # nextTask /\ u = nextTask
        BY <2>1, <2>5, <3>1, <3>3, <4>3
      <4> QED BY <4>1, <4>2, <4>3
    <3> QED BY <3>2, <3>3
  <2>9. TablesOK(instances', tasks', nextTask')
    <3>1. \A j \in Instance : instances'[j].status # "ABSENT" => instances'[j].version \in Version
      <4> TAKE j \in Instance
      <4>1. CASE j = i
        BY <2>3, <4>1
      <4>2. CASE j # i
        BY <2>3, <4>2 DEF TablesOK
      <4> QED BY <4>1, <4>2
    <3>2. nextTask' \in 1 .. MaxTasks + 1 /\ tasks' \in [TaskId -> TaskRow]
      BY <2>5
    <3> QED BY ZenonT(60), <2>2, <2>7, <2>8, <3>1, <3>2 DEF TablesOK
  <2>10. Waits(instances', tasks', Instance)
    <3> SUFFICES ASSUME NEW j \in Instance, instances'[j].status = "ACTIVE"
                 PROVE  \E t \in TaskId : tasks'[t].status = "PENDING"
                                          /\ tasks'[t].instance = j
      BY DEF Waits
    <3>1. CASE j = i
      BY <2>1, <2>5, <3>1
    <3>2. CASE j # i
      <4>1. PICK t \in TaskId : tab[t].status = "PENDING" /\ tab[t].instance = j
        BY <2>3, <3>2 DEF Waits
      <4>2. t # nextTask
        BY <2>4, <4>1
      <4> QED BY <2>5, <4>1, <4>2
    <3> QED BY <3>1, <3>2
  <2>11. \A t \in TaskId : tab[t].status # "ABSENT" => tasks'[t] = tab[t]
    BY <2>4, <2>5
  <2>12. Stable(inst, tab, instances', tasks')
    BY <2>3, <2>11 DEF Stable, TablesOK
  <2>13. \A t \in TaskId : tasks'[t] = tab[t] \/ tasks'[t].status = "PENDING"
    BY <2>1, <2>5
  <2> QED BY <1>a, <2>9, <2>10, <2>11, <2>12, <2>13 DEF InOrder
<1> QED BY <1>1, <1>2, <1>3, <1>4

-----------------------------------------------------------------------------
\* What the other parts of the invariant need of a step.

\* The step a task was created for, and the actor it bars, do not change while
\* its row and its instance keep their version, subject actor and step.
LEMMA StableSteps ==
    ASSUME TablesOK(instances, tasks, nextTask),
           Stable(instances, tasks, instances', tasks'),
           NEW t \in TaskId, tasks[t].status # "ABSENT"
    PROVE  /\ StepOf(t)' = StepOf(t)
           /\ Barred(instances[tasks[t].instance], StepOf(t))'
                = Barred(instances[tasks[t].instance], StepOf(t))
<1>1. StepOf(t)' = StepOf(t)
  BY DEF Stable, StepOf
<1> QED BY <1>1 DEF Stable, Barred

\* A call under way stays admitted while tasks keep what they were created
\* with.
LEMMA CallsKept ==
    ASSUME TablesOK(instances, tasks, nextTask), CallsAdmitted,
           Stable(instances, tasks, instances', tasks'),
           \A u \in User : calls'[u] = calls[u] \/ calls'[u] = Idle
    PROVE  CallsAdmitted'
<1> SUFFICES ASSUME NEW u \in User
             PROVE
       /\ calls'[u].op # "idle" =>
             calls'[u].task \in TaskId /\ tasks'[calls'[u].task].status # "ABSENT"
       /\ calls'[u].op = "decide" =>
             /\ (StepOf(calls[u].task).type)' = "APPROVAL"
             /\ calls'[u].decision \in (StepOf(calls[u].task).permitted)'
             /\ u \notin Barred(instances[tasks[calls[u].task].instance],
                                StepOf(calls[u].task))'
             /\ (StepOf(calls[u].task).mode)' = "ROLE" =>
                   u \in tasks'[calls'[u].task].candidates
       /\ calls'[u].op = "complete" => (StepOf(calls[u].task).type)' = "TASK"
  BY DEF CallsAdmitted, Admitted
<1>1. CASE calls'[u] = Idle
  BY <1>1 DEF Idle
<1>2. CASE calls'[u] = calls[u] /\ calls[u].op # "idle"
  <2> DEFINE t == calls[u].task
  <2>1. t \in TaskId /\ tasks[t].status # "ABSENT"
    BY <1>2 DEF CallsAdmitted, Admitted
  <2>2. /\ tasks'[t].status # "ABSENT"
        /\ tasks'[t].candidates = tasks[t].candidates
    BY <2>1 DEF Stable
  <2>3. /\ StepOf(t)' = StepOf(t)
        /\ Barred(instances[tasks[t].instance], StepOf(t))'
             = Barred(instances[tasks[t].instance], StepOf(t))
    BY <1>2, <2>1, StableSteps
  <2> QED BY <1>2, <2>1, <2>2, <2>3 DEF CallsAdmitted, Admitted
<1>3. CASE calls'[u] = calls[u] /\ calls[u].op = "idle"
  BY <1>3
<1> QED BY <1>1, <1>2, <1>3

\* The tasks a sweep has listed (findEscalatable) still exist when it comes to
\* process them.
LEMMA SweepsKept ==
    ASSUME SweepsListed, Stable(instances, tasks, instances', tasks'),
           \A w \in Sweeper : sweeps'[w] \subseteq sweeps[w]
    PROVE  SweepsListed'
BY DEF SweepsListed, Stable

\* What one step may do to task t and its decision.
Untouched(t) ==
    /\ tasks'[t].status = tasks[t].status
    /\ tasks'[t].completedBy = tasks[t].completedBy
    /\ decisions'[t] = decisions[t]

Opened(t) ==
    /\ tasks[t].status = "ABSENT" /\ tasks'[t].status = "PENDING"
    /\ decisions'[t] = decisions[t]

ClosedUndecided(t) ==
    /\ tasks[t].status = "PENDING"
    /\ \/ tasks'[t].status = "CANCELLED"
       \/ tasks'[t].status = "COMPLETED" /\ StepOf(t).type = "TASK"
    /\ decisions'[t] = decisions[t]

ClosedDecided(t) ==
    /\ tasks[t].status = "PENDING" /\ tasks'[t].status = "COMPLETED"
    /\ StepOf(t).type = "APPROVAL"
    /\ \E u \in User, d \in StepOf(t).permitted :
          /\ tasks'[t].completedBy = u
          /\ decisions'[t] = [actor |-> u, decision |-> d]
          /\ u \notin Barred(instances[tasks[t].instance], StepOf(t))
          /\ StepOf(t).mode = "ROLE" => u \in tasks[t].candidates

\* The step of a task that exists is a step of its instance's version.
LEMMA StepTypes ==
    ASSUME TablesOK(instances, tasks, nextTask),
           NEW t \in TaskId, tasks[t].status # "ABSENT"
    PROVE  /\ tasks[t].instance \in Instance
           /\ instances[tasks[t].instance].version \in Version
           /\ tasks[t].step \in 1 .. Len(Steps[instances[tasks[t].instance].version])
           /\ StepOf(t) \in StepRow
           /\ StepOf(t).permitted \subseteq Decision
<1>1. /\ tasks[t].instance \in Instance
      /\ instances[tasks[t].instance].version \in Version
      /\ tasks[t].step \in 1 .. Len(Steps[instances[tasks[t].instance].version])
  BY DEF TablesOK
<1>2. StepOf(t) \in StepRow
  BY <1>1, StepsAssumption DEF ValidVersion, StepOf
<1> QED BY <1>1, <1>2 DEF StepRow

\* decideTask's insert into workflow_decisions keeps decisions and COMPLETED
\* approval tasks in step.
LEMMA DecisionsKept ==
    ASSUME TablesOK(instances, tasks, nextTask),
           Stable(instances, tasks, instances', tasks'),
           decisions \in [TaskId -> DecisionRow],
           NoEarlyDecision, DecisionsMatchTasks, DecidersEntitled,
           \A t \in TaskId : \/ Untouched(t) \/ Opened(t)
                             \/ ClosedUndecided(t) \/ ClosedDecided(t)
    PROVE  NoEarlyDecision' /\ DecisionsMatchTasks' /\ DecidersEntitled'
<1> SUFFICES ASSUME NEW t \in TaskId
             PROVE
       /\ tasks'[t].status = "ABSENT" => decisions'[t] = NoDecision
       /\ decisions'[t].decision # "NONE" <=>
             tasks'[t].status = "COMPLETED" /\ (StepOf(t).type)' = "APPROVAL"
       /\ decisions'[t].decision # "NONE" =>
             /\ decisions'[t].actor = tasks'[t].completedBy
             /\ decisions'[t].decision \in (StepOf(t).permitted)'
             /\ decisions'[t].actor
                  \notin Barred(instances[tasks[t].instance], StepOf(t))'
             /\ (StepOf(t).mode)' = "ROLE" =>
                   decisions'[t].actor \in tasks'[t].candidates
  BY DEF NoEarlyDecision, DecisionsMatchTasks, DecidersEntitled
<1>1. CASE tasks[t].status = "ABSENT"
  <2>1. decisions[t].decision = "NONE" /\ decisions[t] = NoDecision
    BY <1>1 DEF NoEarlyDecision, NoDecision
  <2>2. Untouched(t) \/ Opened(t)
    BY <1>1 DEF ClosedUndecided, ClosedDecided
  <2> QED BY <1>1, <2>1, <2>2 DEF Untouched, Opened
<1>2. CASE tasks[t].status # "ABSENT"
  <2>1. /\ StepOf(t)' = StepOf(t)
        /\ Barred(instances[tasks[t].instance], StepOf(t))'
             = Barred(instances[tasks[t].instance], StepOf(t))
        /\ tasks'[t].candidates = tasks[t].candidates
        /\ tasks'[t].status # "ABSENT"
    BY <1>2, StableSteps DEF Stable
  <2>2. StepOf(t).permitted \subseteq Decision
    BY <1>2, StepTypes
  <2>3. CASE Untouched(t)
    BY <1>2, <2>1, <2>3 DEF Untouched, DecisionsMatchTasks, DecidersEntitled
  <2>4. CASE ClosedUndecided(t)
    BY <1>2, <2>1, <2>4 DEF ClosedUndecided, DecisionsMatchTasks
  <2>5. CASE ClosedDecided(t)
    BY <1>2, <2>1, <2>2, <2>5 DEF ClosedDecided, Decision
  <2> QED BY <1>2, <2>3, <2>4, <2>5 DEF Opened
<1> QED BY <1>1, <1>2


-----------------------------------------------------------------------------
\* The invariant, action by action.

\* The empty tables of migration 005 satisfy the invariant.
LEMMA InitInvariant == Init => IInv
<1> SUFFICES ASSUME Init PROVE IInv
  OBVIOUS
<1> USE DEF Init
<1>1. AbsentInstance \in InstanceRow
  <2>1. [s \in StepNo |-> None] \in [StepNo -> UserOrNone]
    BY DEF UserOrNone
  <2> QED BY <2>1, BoundAssumption DEF AbsentInstance, InstanceRow, UserOrNone
<1>2. AbsentTask \in TaskRow
  BY BoundAssumption DEF AbsentTask, TaskRow, UserOrNone
<1>3. TablesOK(instances, tasks, nextTask)
  <2>1. /\ instances \in [Instance -> InstanceRow]
        /\ \A i \in Instance : instances[i].status = "ABSENT"
        /\ tasks \in [TaskId -> TaskRow]
        /\ \A t \in TaskId : tasks[t].status = "ABSENT"
    BY <1>1, <1>2 DEF AbsentInstance, AbsentTask
  <2>2. nextTask \in 1 .. MaxTasks + 1
    BY BoundAssumption
  <2> QED BY <2>1, <2>2 DEF TablesOK
<1>4. OtherTypes
  BY DEF OtherTypes, NoDecision, DecisionRow, Idle, Call, UserOrNone
<1>5. Waits(instances, tasks, Instance)
  BY DEF Waits, AbsentInstance
<1>6. NoEarlyDecision /\ CallsAdmitted /\ SweepsListed
  BY DEF NoEarlyDecision, CallsAdmitted, Admitted, SweepsListed, Idle
<1>7. DecisionsMatchTasks /\ DecidersEntitled /\ SystemActionsOnce
  BY DEF DecisionsMatchTasks, DecidersEntitled, SystemActionsOnce, NoDecision,
         AbsentTask
<1> QED BY <1>3, <1>4, <1>5, <1>6, <1>7 DEF IInv

\* Steps that leave the tables alone.
LEMMA RowsUnchanged ==
    ASSUME IInv, UNCHANGED rows, OtherTypes', CallsAdmitted', SweepsListed'
    PROVE  IInv'
<1>1. TablesOK(instances', tasks', nextTask')
  BY DEF IInv, rows
<1>2. Waits(instances', tasks', Instance)
  BY DEF IInv, rows, Waits
<1>3. NoEarlyDecision' /\ DecisionsMatchTasks' /\ DecidersEntitled'
        /\ SystemActionsOnce'
  BY DEF IInv, rows, NoEarlyDecision, DecisionsMatchTasks, DecidersEntitled,
         SystemActionsOnce, StepOf
<1> QED BY <1>1, <1>2, <1>3 DEF IInv

\* The table after the conditional UPDATE that completes a PENDING task.
LEMMA CompletedTable ==
    ASSUME IInv, NEW t \in TaskId, tasks[t].status = "PENDING", NEW u \in User
    PROVE  /\ TablesOK(instances, Completed(t, u), nextTask)
           /\ \A x \in TaskId : Completed(t, u)[x].status = "PENDING" =>
                 Completed(t, u)[x].instance # tasks[t].instance
           /\ Waits(instances, Completed(t, u), Instance \ {tasks[t].instance})
           /\ Stable(instances, tasks, instances, Completed(t, u))
           /\ Completed(t, u)[t].status = "COMPLETED"
           /\ Completed(t, u)[t].completedBy = u
           /\ \A x \in TaskId \ {t} : Completed(t, u)[x] = tasks[x]
<1> DEFINE tab == Completed(t, u)
<1>1. tasks \in [TaskId -> TaskRow]
  BY DEF IInv, TablesOK
<1>2. /\ tab \in [TaskId -> TaskRow]
      /\ tab[t].status = "COMPLETED" /\ tab[t].completedBy = u
      /\ tab[t].instance = tasks[t].instance /\ tab[t].step = tasks[t].step
      /\ tab[t].candidates = tasks[t].candidates
      /\ \A x \in TaskId \ {t} : tab[x] = tasks[x]
  BY <1>1 DEF Completed, TaskRow, UserOrNone
<1>3. TablesOK(instances, tab, nextTask)
  <2>1. TablesOK(instances, tasks, nextTask)
    BY DEF IInv
  <2> HIDE DEF tab
  <2>2. \A x \in TaskId : /\ tab[x].instance = tasks[x].instance
                          /\ tab[x].step = tasks[x].step
                          /\ tab[x].status = "PENDING" => tasks[x].status = "PENDING"
                          /\ tab[x].status = "ABSENT" <=> tasks[x].status = "ABSENT"
    BY <1>2
  <2>3. instances \in [Instance -> InstanceRow]
    BY <2>1 DEF TablesOK
  <2> QED BY <1>2, <2>1, <2>2, <2>3, TablesKept
<1>4. \A x \in TaskId : tab[x].status = "PENDING" =>
                 tab[x].instance # tasks[t].instance
  BY <1>2 DEF IInv, TablesOK
<1>5. Waits(instances, tab, Instance \ {tasks[t].instance})
  BY <1>2 DEF IInv, Waits
<1>6. Stable(instances, tasks, instances, tab)
  BY <1>2 DEF Stable
<1> QED BY <1>2, <1>3, <1>4, <1>5, <1>6

\* Closing a task and then activating a step changes no step a task stands for.
LEMMA StableTransitive ==
    ASSUME NEW tab,
           Stable(instances, tasks, instances, tab),
           Stable(instances, tab, instances', tasks')
    PROVE  Stable(instances, tasks, instances', tasks')
BY DEF Stable

\* startWorkflow keeps the invariant.
LEMMA StartInvariant ==
    ASSUME IInv, NEW i \in Instance, NEW v \in Version, NEW x \in Subject,
           NEW a \in UserOrNone, NEW route \in Routes(v),
           Start(i, v, x, a, route)
    PROVE  IInv'
<1> DEFINE row == [status |-> "ACTIVE", version |-> v, subject |-> x,
                   subjectActor |-> a, route |-> route,
                   step |-> 0, outcome |-> "NONE"]
           inst == [instances EXCEPT ![i] = row]
<1>1. /\ row \in InstanceRow /\ row.status = "ACTIVE" /\ row.version = v
  <2>1. route \in [StepNo -> UserOrNone]
    BY DEF Routes
  <2> QED BY <2>1, BoundAssumption DEF InstanceRow
<1>2. instances[i].status = "ABSENT" /\ Activate(i, row, 1, tasks, "COMPLETED")
      /\ UNCHANGED <<decisions, active, calls, sweeps>>
  BY DEF Start, Occupied
<1> HIDE DEF row
<1>3. TablesOK(instances, tasks, nextTask) /\ OtherTypes
  BY DEF IInv
<1>4. \A t \in TaskId : tasks[t].status # "ABSENT" => tasks[t].instance # i
  BY <1>2, <1>3 DEF TablesOK
<1>5. TablesOK(inst, tasks, nextTask)
  <2>1. /\ inst \in [Instance -> InstanceRow] /\ inst[i] = row
        /\ \A j \in Instance \ {i} : inst[j] = instances[j]
    BY <1>1, <1>3 DEF TablesOK
  <2> HIDE DEF inst
  <2>2. \A t \in TaskId : tasks[t].status # "ABSENT" =>
           inst[tasks[t].instance] = instances[tasks[t].instance]
    BY <1>3, <1>4, <2>1 DEF TablesOK
  <2>3. \A j \in Instance : inst[j].status # "ABSENT" => inst[j].version \in Version
    BY <1>1, <1>3, <2>1 DEF TablesOK
  <2>4. \A t \in TaskId : tasks[t].status = "PENDING" => tasks[t].status # "ABSENT"
    OBVIOUS
  <2> QED BY <1>3, <2>1, <2>2, <2>3, <2>4 DEF TablesOK
<1>6. /\ \A t \in TaskId : tasks[t].status = "PENDING" => tasks[t].instance # i
      /\ inst[i] = row /\ \A j \in Instance \ {i} : inst[j] = instances[j]
  BY <1>1, <1>3, <1>4 DEF TablesOK
<1>7. Waits(instances, tasks, Instance \ {i})
  BY DEF IInv, Waits
<1>8. 1 \in 1 .. Len(Steps[row.version]) + 1
  BY <1>1, StepsAssumption, BoundAssumption DEF ValidVersion, StepNo
<1>9. /\ executions \in SUBSET (Instance \X StepNo)
      /\ effects \in [Instance \X StepNo -> Nat]
      /\ SystemActionsOnce
      /\ active \in [User -> BOOLEAN] /\ instances \in [Instance -> InstanceRow]
      /\ row.version \in Version
      /\ "COMPLETED" \in {"NONE", "APPROVED", "COMPLETED", "REJECTED"}
  BY <1>1, <1>3 DEF OtherTypes, TablesOK, IInv
<1>10. InOrder(inst, tasks)
  <2>1. Ready(i, row, 1, inst, tasks, "COMPLETED")
    BY <1>1, <1>3, <1>5, <1>6, <1>7, <1>8, <1>9 DEF Ready
  <2> HIDE DEF inst
  <2> QED BY <1>2, <2>1, ActivationKeepsTables
<1> HIDE DEF inst
<1>11. Stable(instances, tasks, instances', tasks')
  <2>1. \A t \in TaskId : tasks[t].status # "ABSENT" =>
           inst[tasks[t].instance] = instances[tasks[t].instance]
    BY <1>3, <1>4, <1>6 DEF TablesOK
  <2> QED BY <1>10, <2>1 DEF InOrder, Stable
<1>12. \A t \in TaskId : Untouched(t) \/ Opened(t)
  <2> TAKE t \in TaskId
  <2>1. CASE tasks[t].status = "ABSENT" /\ tasks'[t].status = "PENDING"
    BY <1>2, <2>1 DEF Opened
  <2>2. CASE tasks'[t] = tasks[t]
    BY <1>2, <2>2 DEF Untouched
  <2> QED BY <1>10, <2>1, <2>2 DEF InOrder
<1>13. NoEarlyDecision' /\ DecisionsMatchTasks' /\ DecidersEntitled'
  BY <1>3, <1>11, <1>12, DecisionsKept DEF IInv, OtherTypes
<1>14. CallsAdmitted' /\ SweepsListed'
  BY <1>2, <1>3, <1>11, CallsKept, SweepsKept DEF IInv
<1>15. OtherTypes'
  BY <1>2, <1>3, <1>10 DEF InOrder, OtherTypes
<1> QED BY <1>10, <1>13, <1>14, <1>15 DEF InOrder, IInv

\* The activation that follows the completion of task t by u.
LEMMA CompletionActivates ==
    ASSUME IInv, NEW t \in TaskId, tasks[t].status = "PENDING", NEW u \in User,
           NEW s \in {tasks[t].step + 1, tasks[t].step - 1}, s >= 1,
           NEW outcome \in {"APPROVED", "COMPLETED"},
           Activate(tasks[t].instance, instances[tasks[t].instance], s,
                    Completed(t, u), outcome)
    PROVE  InOrder(instances, Completed(t, u))
<1> DEFINE i == tasks[t].instance
           row == instances[i]
           tab == Completed(t, u)
<1>1. /\ TablesOK(instances, tab, nextTask)
      /\ \A x \in TaskId : tab[x].status = "PENDING" => tab[x].instance # i
      /\ Waits(instances, tab, Instance \ {i})
  BY CompletedTable
<1>2. /\ i \in Instance /\ row \in InstanceRow /\ row.status = "ACTIVE"
      /\ row.version \in Version
      /\ tasks[t].step \in 1 .. Len(Steps[row.version])
      /\ instances \in [Instance -> InstanceRow]
  BY DEF IInv, TablesOK
<1>3. s \in 1 .. Len(Steps[row.version]) + 1
  <2> DEFINE N == Len(Steps[row.version])
  <2>1. N \in Nat
    BY <1>2, StepsAssumption, BoundAssumption DEF ValidVersion, StepNo
  <2>2. tasks[t].step \in 1 .. N
    BY <1>2
  <2> HIDE DEF N
  <2>3. s \in 1 .. N + 1
    BY <2>1, <2>2
  <2> QED BY <2>3 DEF N
<1>4. outcome \in {"NONE", "APPROVED", "COMPLETED", "REJECTED"}
  OBVIOUS
<1>5. OtherTypes /\ SystemActionsOnce
  BY DEF IInv
<1>6. Ready(i, row, s, instances, tab, outcome)
  BY <1>1, <1>2, <1>3, <1>4, <1>5 DEF Ready
<1>7. Activate(i, row, s, tab, outcome)
  OBVIOUS
<1> HIDE DEF i, row, tab
<1>8. InOrder(instances, tab)
  BY <1>6, <1>7, ActivationKeepsTables
<1> QED BY <1>8 DEF tab

\* What is left to show when a step has completed task t and left the tables
\* in order.
LEMMA CompletionInvariant ==
    ASSUME IInv, NEW t \in TaskId, tasks[t].status = "PENDING", NEW u \in User,
           InOrder(instances, Completed(t, u)),
           calls' = [calls EXCEPT ![u] = Idle],
           active' = active, sweeps' = sweeps,
           decisions' \in [TaskId -> DecisionRow],
           \A x \in TaskId \ {t} : decisions'[x] = decisions[x],
           tasks'[t].status = "COMPLETED" =>
              \/ StepOf(t).type = "TASK" /\ decisions'[t] = decisions[t]
              \/ ClosedDecided(t)
    PROVE  IInv'
<1> DEFINE tab == Completed(t, u)
<1>1. /\ Stable(instances, tasks, instances, tab)
      /\ tab[t].status = "COMPLETED" /\ tab[t].completedBy = u
      /\ \A x \in TaskId \ {t} : tab[x] = tasks[x]
  BY CompletedTable
<1> HIDE DEF tab
<1>2. /\ TablesOK(instances', tasks', nextTask')
      /\ Waits(instances', tasks', Instance)
      /\ Stable(instances, tab, instances', tasks')
      /\ \A x \in TaskId : tab[x].status # "ABSENT" => tasks'[x] = tab[x]
      /\ \A x \in TaskId : tasks'[x] = tab[x] \/ tasks'[x].status = "PENDING"
      /\ executions' \in SUBSET (Instance \X StepNo)
      /\ effects' \in [Instance \X StepNo -> Nat]
      /\ SystemActionsOnce'
  BY DEF InOrder, tab
<1>3. Stable(instances, tasks, instances', tasks')
  BY <1>1, <1>2, StableTransitive
<1>4. TablesOK(instances, tasks, nextTask) /\ OtherTypes
  BY DEF IInv
<1>5. \A x \in TaskId : \/ Untouched(x) \/ Opened(x)
                        \/ ClosedUndecided(x) \/ ClosedDecided(x)
  <2> TAKE x \in TaskId
  <2>1. CASE x = t
    <3>1. tasks'[t].status = "COMPLETED"
      BY <1>1, <1>2
    <3> QED BY <2>1, <3>1 DEF ClosedUndecided
  <2>2. CASE x # t /\ tasks'[x] = tasks[x]
    BY <2>2 DEF Untouched
  <2>3. CASE x # t /\ tasks'[x].status = "PENDING" /\ tasks[x].status = "ABSENT"
    BY <2>3 DEF Opened
  <2> QED BY <1>1, <1>2, <2>1, <2>2, <2>3
<1>6. NoEarlyDecision' /\ DecisionsMatchTasks' /\ DecidersEntitled'
  BY <1>3, <1>4, <1>5, DecisionsKept DEF IInv, OtherTypes
<1>7. calls \in [User -> Call]
  BY <1>4 DEF OtherTypes
<1>8. \A w \in User : calls'[w] = calls[w] \/ calls'[w] = Idle
  BY <1>7
<1>9. CallsAdmitted' /\ SweepsListed'
  BY <1>3, <1>4, <1>8, CallsKept, SweepsKept DEF IInv
<1>10. OtherTypes'
  <2>1. Idle \in Call
    BY DEF Idle, Call, UserOrNone
  <2> QED BY <1>2, <1>4, <2>1 DEF OtherTypes
<1> QED BY <1>2, <1>6, <1>9, <1>10 DEF IInv

\* The transaction of completeTask keeps the invariant.
LEMMA CommitCompleteInvariant ==
    ASSUME IInv, NEW u \in User, CommitComplete(u)
    PROVE  IInv'
<1> DEFINE t == calls[u].task
<1>1. /\ t \in TaskId /\ tasks[t].status = "PENDING" /\ StepOf(t).type = "TASK"
  BY DEF CommitComplete, IInv, CallsAdmitted, Admitted, StillPending
<1>2. /\ Activate(tasks[t].instance, instances[tasks[t].instance],
                  tasks[t].step + 1, Completed(t, u), "COMPLETED")
      /\ calls' = [calls EXCEPT ![u] = Idle]
      /\ UNCHANGED <<decisions, active, sweeps>>
  BY DEF CommitComplete
<1>3. tasks[t].step + 1 >= 1
  <2>1. tasks[t].step \in Int /\ tasks[t].step >= 1
    BY <1>1, StepTypes DEF IInv
  <2> QED BY <2>1
<1> HIDE DEF t
<1>4. InOrder(instances, Completed(t, u))
  BY <1>1, <1>2, <1>3, CompletionActivates
<1>5. decisions' \in [TaskId -> DecisionRow]
  BY <1>2 DEF IInv, OtherTypes
<1> QED BY <1>1, <1>2, <1>4, <1>5, CompletionInvariant

\* The transaction of decideTask keeps the invariant, whichever decision was
\* taken and whatever happened since its checks.
LEMMA CommitDecideInvariant ==
    ASSUME IInv, NEW u \in User, CommitDecide(u)
    PROVE  IInv'
<1> DEFINE t == calls[u].task
           d == calls[u].decision
           i == tasks[t].instance
           s == tasks[t].step
<1>1. /\ t \in TaskId /\ tasks[t].status = "PENDING" /\ StepOf(t).type = "APPROVAL"
      /\ d \in StepOf(t).permitted
      /\ u \notin Barred(instances[tasks[t].instance], StepOf(t))
      /\ StepOf(t).mode = "ROLE" => u \in tasks[t].candidates
  BY DEF CommitDecide, IInv, CallsAdmitted, Admitted, StillPending
<1>2. /\ \/ /\ d = "REJECT"
            /\ CompleteInstance(i, instances[i], Completed(t, u), "REJECTED")
            /\ UNCHANGED <<executions, effects>>
         \/ /\ d = "RETURN"
            /\ s > 1
            /\ Activate(i, instances[i], s - 1, Completed(t, u), "COMPLETED")
         \/ /\ d = "APPROVE"
            /\ Activate(i, instances[i], s + 1, Completed(t, u), "APPROVED")
      /\ decisions' = [decisions EXCEPT ![t] = [actor |-> u, decision |-> d]]
      /\ calls' = [calls EXCEPT ![u] = Idle]
      /\ UNCHANGED <<active, sweeps>>
  BY DEF CommitDecide, ApplyDecision
<1>3. s \in Int /\ s >= 1 /\ i \in Instance
  BY <1>1, StepTypes DEF IInv
<1>4. d \in Decision
  BY <1>1, StepTypes DEF IInv
<1>5. /\ decisions \in [TaskId -> DecisionRow]
      /\ [actor |-> u, decision |-> d] \in DecisionRow
  BY <1>4 DEF IInv, OtherTypes, DecisionRow, UserOrNone
<1>6. /\ decisions' \in [TaskId -> DecisionRow]
      /\ decisions'[t] = [actor |-> u, decision |-> d]
      /\ \A x \in TaskId \ {t} : decisions'[x] = decisions[x]
  BY <1>1, <1>2, <1>5
<1> HIDE DEF t, d
<1>7. InOrder(instances, Completed(t, u))
  <2>1. CASE d = "REJECT" /\ UNCHANGED <<executions, effects>>
             /\ CompleteInstance(i, instances[i], Completed(t, u), "REJECTED")
    <3> DEFINE tab == Completed(t, u)
    <3>1. /\ TablesOK(instances, tab, nextTask)
          /\ \A x \in TaskId : tab[x].status = "PENDING" => tab[x].instance # i
          /\ Waits(instances, tab, Instance \ {i})
      BY <1>1, CompletedTable
    <3> HIDE DEF tab
    <3>2. /\ instances' = [instances EXCEPT ![i] =
                             [instances[i] EXCEPT !.status = "COMPLETED",
                                 !.step = 0, !.outcome = "REJECTED"]]
          /\ tasks' = tab /\ nextTask' = nextTask
      BY <2>1 DEF CompleteInstance, tab
    <3>3. instances \in [Instance -> InstanceRow]
      BY <3>1 DEF TablesOK
    <3>4. instances' \in [Instance -> InstanceRow]
      <4>1. 0 \in 0 .. MaxSteps
        BY BoundAssumption
      <4>2. [instances[i] EXCEPT !.status = "COMPLETED", !.step = 0,
                                 !.outcome = "REJECTED"] \in InstanceRow
        BY <1>3, <3>3, <4>1, RowUpdates
      <4> QED BY <3>2, <3>3, <4>2
    <3>5. /\ instances'[i].status = "COMPLETED"
          /\ instances'[i].version = instances[i].version
          /\ instances'[i].subjectActor = instances[i].subjectActor
          /\ \A j \in Instance \ {i} : instances'[j] = instances[j]
      BY <1>3, <3>2, <3>3 DEF InstanceRow
    <3>6. instances[i].status = "ACTIVE"
      BY <1>1 DEF IInv, TablesOK
    <3>7. TablesOK(instances', tasks', nextTask')
      BY ZenonT(60), <3>1, <3>2, <3>4, <3>5, <3>6 DEF TablesOK
    <3>8. Waits(instances', tasks', Instance)
      BY <3>1, <3>2, <3>5 DEF Waits
    <3>9. Stable(instances, tab, instances', tasks')
      BY <3>1, <3>2, <3>5 DEF Stable, TablesOK
    <3>10. SystemActionsOnce' /\ OtherTypes
      BY <2>1 DEF IInv, SystemActionsOnce
    <3> QED BY <2>1, <3>2, <3>7, <3>8, <3>9, <3>10 DEF InOrder, OtherTypes, tab
  <2>2. CASE d = "RETURN" /\ s > 1
             /\ Activate(i, instances[i], s - 1, Completed(t, u), "COMPLETED")
    <3>1. s - 1 >= 1 /\ "COMPLETED" \in {"APPROVED", "COMPLETED"}
      BY <1>3, <2>2
    <3> QED BY <1>1, <2>2, <3>1, CompletionActivates
  <2>3. CASE d = "APPROVE"
             /\ Activate(i, instances[i], s + 1, Completed(t, u), "APPROVED")
    <3>1. s + 1 >= 1 /\ "APPROVED" \in {"APPROVED", "COMPLETED"}
      BY <1>3
    <3> QED BY <1>1, <2>3, <3>1, CompletionActivates
  <2> QED BY <1>2, <2>1, <2>2, <2>3
<1>8. tasks'[t].status = "COMPLETED" => ClosedDecided(t)
  <2>1. tasks'[t].completedBy = u
    <3>1. Completed(t, u)[t].status = "COMPLETED" /\ Completed(t, u)[t].completedBy = u
      BY <1>1, CompletedTable
    <3>2. tasks'[t] = Completed(t, u)[t]
      BY <1>1, <1>7, <3>1 DEF InOrder
    <3> QED BY <3>1, <3>2
  <2> QED BY <1>1, <1>6, <2>1 DEF ClosedDecided
<1> HIDE DEF i, s
<1>9. active' = active /\ sweeps' = sweeps /\ calls' = [calls EXCEPT ![u] = Idle]
  BY <1>2
<1> QED BY <1>1, <1>6, <1>7, <1>8, <1>9, CompletionInvariant

\* cancelInstance keeps the invariant: the one PENDING task goes with its
\* instance.
LEMMA CancelInvariant ==
    ASSUME IInv, NEW i \in Instance, Cancel(i)
    PROVE  IInv'
<1>1. TablesOK(instances, tasks, nextTask) /\ OtherTypes
  BY DEF IInv
<1>2. /\ instances[i].status = "ACTIVE"
      /\ instances' = [instances EXCEPT ![i] =
                          [instances[i] EXCEPT !.status = "CANCELLED", !.step = 0]]
      /\ UNCHANGED <<nextTask, decisions, executions, effects, active, calls, sweeps>>
  BY <1>1 DEF Cancel, TablesOK, InstanceRow
<1>3. \A t \in TaskId :
        tasks'[t] = IF tasks[t].status = "PENDING" /\ tasks[t].instance = i
                    THEN [tasks[t] EXCEPT !.status = "CANCELLED"]
                    ELSE tasks[t]
  BY <1>1 DEF Cancel, TablesOK
<1>4. tasks' \in [TaskId -> TaskRow]
  <2>1. \A q \in TaskRow : [q EXCEPT !.status = "CANCELLED"] \in TaskRow
    BY DEF TaskRow
  <2>2. \A t \in TaskId : tasks[t] \in TaskRow
    BY <1>1 DEF TablesOK
  <2> QED BY <1>1, <2>1, <2>2 DEF Cancel, TablesOK
<1>5. /\ instances' \in [Instance -> InstanceRow]
      /\ instances'[i].status = "CANCELLED"
      /\ instances'[i].version = instances[i].version
      /\ instances'[i].subjectActor = instances[i].subjectActor
      /\ \A j \in Instance \ {i} : instances'[j] = instances[j]
  <2>1. instances \in [Instance -> InstanceRow] /\ 0 \in 0 .. MaxSteps
    BY <1>1, BoundAssumption DEF TablesOK
  <2>2. [instances[i] EXCEPT !.status = "CANCELLED", !.step = 0] \in InstanceRow
    BY <2>1, RowUpdates
  <2>3. instances' \in [Instance -> InstanceRow]
    BY <1>2, <2>1, <2>2
  <2> QED BY <1>2, <2>1, <2>3 DEF InstanceRow
<1>6. \A t \in TaskId :
         /\ tasks'[t].instance = tasks[t].instance
         /\ tasks'[t].step = tasks[t].step
         /\ tasks'[t].candidates = tasks[t].candidates
         /\ tasks'[t].status # "ABSENT" <=> tasks[t].status # "ABSENT"
         /\ tasks'[t].status = "PENDING" =>
               tasks[t].status = "PENDING" /\ tasks[t].instance # i
         /\ tasks[t].instance # i => tasks'[t] = tasks[t]
         /\ \/ tasks'[t] = tasks[t]
            \/ tasks[t].status = "PENDING" /\ tasks'[t].status = "CANCELLED"
  <2> TAKE t \in TaskId
  <2>1. tasks[t] \in TaskRow
    BY <1>1 DEF TablesOK
  <2> QED BY <1>3, <2>1 DEF TaskRow
<1>7. TablesOK(instances', tasks', nextTask')
  <2>1. nextTask' = nextTask /\ tasks' \in [TaskId -> TaskRow]
    BY <1>2, <1>4
  <2>2. instances[i].status # "ABSENT"
    BY <1>2
  <2>3. \A j \in Instance : /\ instances'[j].version = instances[j].version
                            /\ instances'[j].status = "ABSENT" <=> instances[j].status = "ABSENT"
    BY <1>5, <2>2
  <2>4. \A t \in TaskId : tasks'[t].status = "PENDING" =>
           /\ tasks[t].status = "PENDING"
           /\ instances'[tasks[t].instance].status = instances[tasks[t].instance].status
           /\ instances'[tasks[t].instance].step = instances[tasks[t].instance].step
    <3> TAKE t \in TaskId
    <3> HAVE tasks'[t].status = "PENDING"
    <3>1. tasks[t].status = "PENDING" /\ tasks[t].instance # i
      BY <1>6
    <3>2. tasks[t].instance \in Instance
      BY <1>1, <3>1 DEF TablesOK
    <3> QED BY <1>5, <3>1, <3>2
  <2> QED BY <1>1, <1>5, <1>6, <2>1, <2>3, <2>4, TablesKept
<1>8. Waits(instances', tasks', Instance)
  BY <1>5, <1>6 DEF IInv, Waits
<1>9. Stable(instances, tasks, instances', tasks')
  BY <1>1, <1>5, <1>6 DEF Stable, TablesOK
<1>10. \A t \in TaskId : Untouched(t) \/ ClosedUndecided(t)
  BY <1>2, <1>6 DEF Untouched, ClosedUndecided
<1>11. NoEarlyDecision' /\ DecisionsMatchTasks' /\ DecidersEntitled'
  BY <1>1, <1>9, <1>10, DecisionsKept DEF IInv, OtherTypes
<1>12. CallsAdmitted' /\ SweepsListed'
  BY <1>1, <1>2, <1>9, CallsKept, SweepsKept DEF IInv
<1>13. OtherTypes' /\ SystemActionsOnce'
  BY <1>2 DEF IInv, OtherTypes, SystemActionsOnce
<1> QED BY <1>7, <1>8, <1>11, <1>12, <1>13 DEF IInv

\* A step that only moves tasks: assignee and escalated_at.
LEMMA MoveInvariant ==
    ASSUME IInv, UNCHANGED <<instances, nextTask, decisions, executions, effects,
                             active>>,
           tasks' \in [TaskId -> TaskRow],
           \A t \in TaskId : /\ tasks'[t].status = tasks[t].status
                             /\ tasks'[t].instance = tasks[t].instance
                             /\ tasks'[t].step = tasks[t].step
                             /\ tasks'[t].candidates = tasks[t].candidates
                             /\ tasks'[t].completedBy = tasks[t].completedBy,
           calls' \in [User -> Call], sweeps' \in [Sweeper -> SUBSET DueRow],
           \A u \in User : calls'[u] = calls[u] \/ calls'[u] = Idle,
           \A w \in Sweeper : sweeps'[w] \subseteq sweeps[w]
    PROVE  IInv'
<1>1. TablesOK(instances, tasks, nextTask)
  BY DEF IInv
<1>2. TablesOK(instances', tasks', nextTask')
  <2>1. instances' = instances /\ nextTask' = nextTask /\ instances \in [Instance -> InstanceRow]
    BY <1>1 DEF TablesOK
  <2> QED BY <1>1, <2>1, TablesKept
<1>3. Waits(instances', tasks', Instance)
  BY DEF IInv, Waits
<1>4. Stable(instances, tasks, instances', tasks')
  BY DEF Stable
<1>5. \A t \in TaskId : Untouched(t)
  BY DEF Untouched
<1>6. NoEarlyDecision' /\ DecisionsMatchTasks' /\ DecidersEntitled'
  BY <1>1, <1>4, <1>5, DecisionsKept DEF IInv, OtherTypes
<1>7. CallsAdmitted' /\ SweepsListed'
  BY <1>1, <1>4, CallsKept, SweepsKept DEF IInv
<1>8. OtherTypes' /\ SystemActionsOnce'
  BY DEF IInv, OtherTypes, SystemActionsOnce
<1> QED BY <1>2, <1>3, <1>6, <1>7, <1>8 DEF IInv

\* The transaction of reassignTask keeps the invariant.
LEMMA CommitReassignInvariant ==
    ASSUME IInv, NEW u \in User, CommitReassign(u)
    PROVE  IInv'
<1> DEFINE t == calls[u].task
<1>1. /\ t \in TaskId /\ calls[u].to \in UserOrNone
      /\ tasks \in [TaskId -> TaskRow]
      /\ calls \in [User -> Call] /\ sweeps \in [Sweeper -> SUBSET DueRow]
  BY DEF CommitReassign, IInv, CallsAdmitted, Admitted, OtherTypes, Call, TablesOK
<1>2. /\ tasks' = [tasks EXCEPT ![t] = [tasks[t] EXCEPT !.assignee = calls[u].to]]
      /\ calls' = [calls EXCEPT ![u] = Idle]
      /\ UNCHANGED <<instances, nextTask, decisions, executions, effects, active,
                     sweeps>>
  BY <1>1 DEF CommitReassign
<1>3. [tasks[t] EXCEPT !.assignee = calls[u].to] \in TaskRow
  BY <1>1 DEF TaskRow
<1> HIDE DEF t
<1>4. \A x \in TaskId : /\ tasks'[x].status = tasks[x].status
                        /\ tasks'[x].instance = tasks[x].instance
                        /\ tasks'[x].step = tasks[x].step
                        /\ tasks'[x].candidates = tasks[x].candidates
                        /\ tasks'[x].completedBy = tasks[x].completedBy
  BY <1>1, <1>2 DEF TaskRow
<1>5. tasks' \in [TaskId -> TaskRow]
  BY <1>1, <1>2, <1>3
<1>6. Idle \in Call
  BY DEF Idle, Call, UserOrNone
<1> QED BY <1>1, <1>2, <1>4, <1>5, <1>6, MoveInvariant

\* The transaction of one escalation keeps the invariant.
LEMMA EscalateInvariant ==
    ASSUME IInv, NEW w \in Sweeper, Escalate(w)
    PROVE  IInv'
<1>1. PICK row \in sweeps[w], target \in UserOrNone :
         /\ sweeps' = [sweeps EXCEPT ![w] = @ \ {row}]
         /\ IF tasks[row.task].escalated
            THEN tasks' = tasks
            ELSE tasks' = [tasks EXCEPT
                    ![row.task].escalated = TRUE,
                    ![row.task].assignee = IF target = None THEN @ ELSE target]
  BY DEF Escalate, Unclaimed
<1>2. UNCHANGED <<instances, nextTask, decisions, executions, effects, active, calls>>
  BY DEF Escalate
<1>3. /\ row.task \in TaskId
      /\ tasks \in [TaskId -> TaskRow] /\ calls \in [User -> Call]
      /\ sweeps \in [Sweeper -> SUBSET DueRow]
  BY DEF IInv, SweepsListed, TablesOK, OtherTypes
<1>4. /\ tasks' \in [TaskId -> TaskRow]
      /\ \A x \in TaskId : /\ tasks'[x].status = tasks[x].status
                            /\ tasks'[x].instance = tasks[x].instance
                            /\ tasks'[x].step = tasks[x].step
                            /\ tasks'[x].candidates = tasks[x].candidates
                            /\ tasks'[x].completedBy = tasks[x].completedBy
  <2>1. CASE tasks[row.task].escalated
    BY <1>1, <1>3, <2>1
  <2>2. CASE ~ tasks[row.task].escalated
    <3> DEFINE to == IF target = None THEN tasks[row.task].assignee ELSE target
               r == [tasks[row.task] EXCEPT !.escalated = TRUE, !.assignee = to]
    <3>1. tasks' = [tasks EXCEPT ![row.task] = r]
      BY <1>1, <1>3, <2>2
    <3>2. /\ r \in TaskRow
          /\ r.status = tasks[row.task].status
          /\ r.instance = tasks[row.task].instance
          /\ r.step = tasks[row.task].step
          /\ r.candidates = tasks[row.task].candidates
          /\ r.completedBy = tasks[row.task].completedBy
      <4>1. to \in UserOrNone /\ tasks[row.task] \in TaskRow
        BY <1>3 DEF TaskRow
      <4> HIDE DEF to
      <4> QED BY <4>1 DEF TaskRow
    <3> HIDE DEF r
    <3>3. tasks' \in [TaskId -> TaskRow]
      BY <1>3, <3>1, <3>2
    <3>4. tasks'[row.task] = r /\ \A x \in TaskId \ {row.task} : tasks'[x] = tasks[x]
      BY <1>3, <3>1
    <3> QED BY <3>2, <3>3, <3>4
  <2> QED BY <2>1, <2>2
<1>5. /\ sweeps' \in [Sweeper -> SUBSET DueRow]
      /\ \A x \in Sweeper : sweeps'[x] \subseteq sweeps[x]
  BY <1>1, <1>3
<1> QED BY <1>2, <1>3, <1>4, <1>5, MoveInvariant

\* Steps that only begin or drop a call.
LEMMA CallInvariant ==
    ASSUME IInv, NEW u \in User, NEW call \in Call, Admitted(u, call),
           calls' = [calls EXCEPT ![u] = call],
           UNCHANGED <<instances, tasks, nextTask, decisions, executions, effects,
                       active, sweeps>>
    PROVE  IInv'
<1>1. OtherTypes /\ CallsAdmitted /\ SweepsListed
  BY DEF IInv
<1>2. UNCHANGED rows
  BY DEF rows
<1>3. /\ calls' \in [User -> Call] /\ calls'[u] = call
      /\ \A x \in User \ {u} : calls'[x] = calls[x]
  BY <1>1 DEF OtherTypes
<1>4. OtherTypes'
  BY <1>1, <1>3 DEF OtherTypes
<1>5. CallsAdmitted'
  <2> SUFFICES ASSUME NEW x \in User PROVE Admitted(x, calls[x])'
    BY DEF CallsAdmitted
  <2>1. Admitted(x, calls'[x])
    BY <1>1, <1>3 DEF CallsAdmitted
  <2> QED BY <2>1 DEF Admitted, StepOf, Barred
<1>6. SweepsListed'
  BY <1>1 DEF SweepsListed
<1> QED BY <1>2, <1>4, <1>5, <1>6, RowsUnchanged

\* The checks of decideTask admit the call they record.
LEMMA BeginDecideInvariant ==
    ASSUME IInv, NEW u \in User, NEW t \in TaskId, NEW d \in Decision,
           BeginDecide(u, t, d)
    PROVE  IInv'
<1> DEFINE call == [op |-> "decide", task |-> t, decision |-> d, to |-> None]
<1>1. call \in Call
  BY DEF Call, UserOrNone
<1>2. Admitted(u, call)
  BY DEF Admitted, BeginDecide, MayAct, Eligible
<1>3. /\ calls' = [calls EXCEPT ![u] = call]
      /\ UNCHANGED <<instances, tasks, nextTask, decisions, executions, effects,
                     active, sweeps>>
  BY DEF BeginDecide
<1> HIDE DEF call
<1> QED BY <1>1, <1>2, <1>3, CallInvariant

\* The checks of completeTask admit the call they record.
LEMMA BeginCompleteInvariant ==
    ASSUME IInv, NEW u \in User, NEW t \in TaskId, BeginComplete(u, t)
    PROVE  IInv'
<1> DEFINE call == [op |-> "complete", task |-> t, decision |-> "NONE", to |-> None]
<1>1. call \in Call
  BY DEF Call, UserOrNone
<1>2. Admitted(u, call)
  BY DEF Admitted, BeginComplete, MayAct
<1>3. /\ calls' = [calls EXCEPT ![u] = call]
      /\ UNCHANGED <<instances, tasks, nextTask, decisions, executions, effects,
                     active, sweeps>>
  BY DEF BeginComplete
<1> HIDE DEF call
<1> QED BY <1>1, <1>2, <1>3, CallInvariant

\* The checks of reassignTask admit the call they record.
LEMMA BeginReassignInvariant ==
    ASSUME IInv, NEW u \in User, NEW t \in TaskId, NEW to \in User,
           BeginReassign(u, t, to)
    PROVE  IInv'
<1> DEFINE call == [op |-> "reassign", task |-> t, decision |-> "NONE", to |-> to]
<1>1. call \in Call
  BY DEF Call, UserOrNone
<1>2. Admitted(u, call)
  BY DEF Admitted, BeginReassign
<1>3. /\ calls' = [calls EXCEPT ![u] = call]
      /\ UNCHANGED <<instances, tasks, nextTask, decisions, executions, effects,
                     active, sweeps>>
  BY DEF BeginReassign
<1> HIDE DEF call
<1> QED BY <1>1, <1>2, <1>3, CallInvariant

\* A transaction that rolls back keeps the invariant.
LEMMA AbandonInvariant ==
    ASSUME IInv, NEW u \in User, Abandon(u)
    PROVE  IInv'
<1>1. Idle \in Call /\ Admitted(u, Idle)
  BY DEF Idle, Call, UserOrNone, Admitted
<1> QED BY <1>1, CallInvariant DEF Abandon

\* Listing due tasks, or giving the list up, keeps the invariant.
LEMMA SweepInvariant ==
    ASSUME IInv, NEW w \in Sweeper, BeginSweep(w) \/ AbandonSweep(w)
    PROVE  IInv'
<1>1. OtherTypes /\ CallsAdmitted /\ SweepsListed
  BY DEF IInv
<1>2. UNCHANGED rows /\ UNCHANGED <<active, calls>>
  BY DEF BeginSweep, AbandonSweep, rows
<1>3. PICK due \in SUBSET {t \in TaskId : Escalatable(t)} :
         sweeps' = [sweeps EXCEPT ![w] =
           {[task |-> t, assigned |-> tasks[t].assignee # None] : t \in due}]
  <2>1. CASE AbandonSweep(w)
    <3>1. {} = {[task |-> t, assigned |-> tasks[t].assignee # None] : t \in {}}
      OBVIOUS
    <3> QED BY <2>1, <3>1 DEF AbandonSweep
  <2>2. CASE BeginSweep(w)
    BY <2>2 DEF BeginSweep
  <2> QED BY <2>1, <2>2
<1> DEFINE listed == {[task |-> t, assigned |-> tasks[t].assignee # None] : t \in due}
<1>4. listed \subseteq DueRow
  <2> SUFFICES ASSUME NEW row \in listed PROVE row \in DueRow
    OBVIOUS
  <2>1. PICK t \in due : row = [task |-> t, assigned |-> tasks[t].assignee # None]
    OBVIOUS
  <2>2. t \in TaskId /\ (tasks[t].assignee # None) \in BOOLEAN
    OBVIOUS
  <2> QED BY <2>1, <2>2, SMT DEF DueRow
<1>5. \A row \in listed : row.task \in TaskId /\ tasks[row.task].status # "ABSENT"
  BY DEF Escalatable
<1> HIDE DEF listed
<1>6. sweeps' = [sweeps EXCEPT ![w] = listed]
  BY <1>3 DEF listed
<1>7. OtherTypes'
  BY <1>1, <1>2, <1>4, <1>6 DEF OtherTypes, rows
<1>8. SweepsListed'
  BY <1>1, <1>2, <1>5, <1>6 DEF SweepsListed, rows, OtherTypes
<1>9. CallsAdmitted'
  BY <1>1, <1>2 DEF CallsAdmitted, Admitted, rows, StepOf, Barred
<1> QED BY <1>2, <1>7, <1>8, <1>9, RowsUnchanged

\* Disabling or enabling an account keeps the invariant: none of its parts
\* depends on who is active.
LEMMA SetAccountInvariant ==
    ASSUME IInv, NEW u \in User, NEW on \in BOOLEAN, SetAccount(u, on)
    PROVE  IInv'
<1>1. OtherTypes /\ CallsAdmitted /\ SweepsListed
  BY DEF IInv
<1>2. UNCHANGED rows /\ UNCHANGED <<calls, sweeps>>
      /\ active' = [active EXCEPT ![u] = on]
  BY DEF SetAccount, rows
<1>3. OtherTypes'
  BY <1>1, <1>2 DEF OtherTypes, rows
<1>4. CallsAdmitted' /\ SweepsListed'
  BY <1>1, <1>2 DEF CallsAdmitted, Admitted, SweepsListed, rows, StepOf, Barred
<1> QED BY <1>2, <1>3, <1>4, RowsUnchanged

\* Every step keeps the invariant.
LEMMA NextInvariant ==
    ASSUME IInv, [Next]_vars
    PROVE  IInv'
<1>1. CASE UNCHANGED vars
  <2>1. UNCHANGED rows /\ UNCHANGED <<active, calls, sweeps>>
    BY <1>1 DEF vars, rows
  <2>2. OtherTypes' /\ CallsAdmitted' /\ SweepsListed'
    BY <2>1 DEF IInv, OtherTypes, CallsAdmitted, Admitted, SweepsListed, rows,
                StepOf, Barred
  <2> QED BY <2>1, <2>2, RowsUnchanged
<1>2. CASE Next
  BY <1>2, StartInvariant, CancelInvariant, BeginDecideInvariant,
     CommitDecideInvariant, BeginCompleteInvariant, CommitCompleteInvariant,
     BeginReassignInvariant, CommitReassignInvariant, AbandonInvariant,
     SweepInvariant, EscalateInvariant, SetAccountInvariant
     DEF Next
<1> QED BY <1>1, <1>2

-----------------------------------------------------------------------------
\* The theorems.

\* The strengthened invariant holds in every reachable state of the engine.
THEOREM InvariantHolds == Spec => []IInv
BY InitInvariant, NextInvariant, PTL DEF Spec

\* The invariant contains the schema of the tables.
LEMMA InvariantTypes == IInv => TypeOK
BY DEF IInv, TablesOK, OtherTypes, TypeOK

\* The invariant contains the correspondence of instances and PENDING tasks.
LEMMA InvariantWaits == IInv => OnePendingTask
BY DEF IInv, TablesOK, Waits, OnePendingTask

\* Every table keeps its schema.
THEOREM TypesHold == Spec => []TypeOK
BY InvariantHolds, InvariantTypes, PTL

\* An ACTIVE instance waits for exactly one PENDING task, that of its current
\* step, and an instance that is over for none.
THEOREM OnePendingTaskHolds == Spec => []OnePendingTask
BY InvariantHolds, InvariantWaits, PTL

\* Approval tasks are COMPLETED exactly when they have their one decision,
\* permitted by the step and taken by somebody entitled to it.
THEOREM DecisionsHold == Spec => [](DecisionsMatchTasks /\ DecidersEntitled)
<1>1. IInv => DecisionsMatchTasks /\ DecidersEntitled
  BY DEF IInv
<1> QED BY <1>1, InvariantHolds, PTL

\* A system action takes effect once per instance and step.
THEOREM SystemActionsOnceHolds == Spec => []SystemActionsOnce
<1>1. IInv => SystemActionsOnce
  BY DEF IInv
<1> QED BY <1>1, InvariantHolds, PTL

-----------------------------------------------------------------------------
\* What one step does to the tables, whichever handler takes it.  All that the
\* history, the order of the steps and the refinement depend on is here.

\* activateStep entered at step s with the table tab came to rest at step k:
\* the actions on the way are in executions, and at most one task was created.
Trace(i, row, s, tab, k) ==
    /\ k \in s .. Len(Steps[row.version]) + 1
    /\ \A j \in s .. k - 1 : Steps[row.version][j].type = "SYSTEM_ACTION"
    /\ executions' = executions \cup ({i} \X (s .. k - 1))
    /\ \A j \in Instance \ {i} : instances'[j] = instances[j]
    /\ instances'[i].version = row.version /\ instances'[i].subject = row.subject
    /\ \/ /\ k = Len(Steps[row.version]) + 1
          /\ instances'[i].status = "COMPLETED" /\ instances'[i].step = 0
       \/ /\ k \in 1 .. Len(Steps[row.version])
          /\ Steps[row.version][k].type # "SYSTEM_ACTION"
          /\ instances'[i].status \in {"ACTIVE", "FAILED"} /\ instances'[i].step = k
    /\ \A t \in TaskId : \/ tasks'[t] = tab[t]
                         \/ /\ t = nextTask /\ tasks'[t].status = "PENDING"
                            /\ tasks'[t].instance = i /\ tasks'[t].step = k

\* Calls, sweeps, reassignments and escalations.
Quiet ==
    /\ UNCHANGED <<instances, decisions, executions>>
    /\ \A t \in TaskId : /\ tasks'[t].status = tasks[t].status
                         /\ tasks'[t].instance = tasks[t].instance
                         /\ tasks'[t].step = tasks[t].step
                         /\ tasks'[t].completedBy = tasks[t].completedBy
                         /\ tasks[t].status = "ABSENT" => tasks'[t] = tasks[t]

\* startWorkflow.
Entered(i) ==
    /\ instances[i].status = "ABSENT"
    /\ decisions' = decisions
    /\ \E row \in InstanceRow, k \in Int :
          /\ row.version \in Version /\ row.subject \in Subject
          /\ ~ Occupied(row.subject)
          /\ Trace(i, row, 1, tasks, k)

\* cancelInstance, or a decision REJECT.
Stopped(i) ==
    /\ instances[i].status = "ACTIVE"
    /\ executions' = executions
    /\ \A j \in Instance \ {i} : instances'[j] = instances[j]
    /\ instances'[i].version = instances[i].version
    /\ instances'[i].subject = instances[i].subject
    /\ instances'[i].step = 0
    /\ \/ instances'[i].status = "CANCELLED"
       \/ instances'[i].status = "COMPLETED" /\ instances'[i].outcome = "REJECTED"
    /\ \A t \in TaskId :
          /\ tasks'[t].instance = tasks[t].instance
          /\ tasks'[t].step = tasks[t].step
          /\ \/ tasks'[t] = tasks[t] /\ decisions'[t] = decisions[t]
             \/ tasks[t].status = "PENDING"
                /\ tasks'[t].status \in {"COMPLETED", "CANCELLED"}

\* completeTask, or a decision APPROVE or RETURN on task t.
Advanced(t) ==
    /\ tasks[t].status = "PENDING"
    /\ \A x \in TaskId \ {t} : decisions'[x] = decisions[x]
    /\ \E u \in User, s \in Int, k \in Int :
          /\ Trace(tasks[t].instance, instances[tasks[t].instance], s,
                   Completed(t, u), k)
          /\ \/ /\ s = tasks[t].step + 1
                /\ StepOf(t).type = "APPROVAL" => decisions'[t].decision = "APPROVE"
             \/ /\ s = tasks[t].step - 1 /\ s >= 1
                /\ "RETURN" \in StepOf(t).permitted

\* The marks of an activation, in terms of the tables alone.
LEMMA ActivationTraced ==
    ASSUME NEW i \in Instance, NEW row \in InstanceRow, row.version \in Version,
           NEW s \in Int, s >= 1, NEW tab, NEW outcome,
           TablesOK(instances, tasks, nextTask), OtherTypes,
           tab \in [TaskId -> TaskRow],
           Activate(i, row, s, tab, outcome)
    PROVE  \E k \in Int : Trace(i, row, s, tab, k)
<1> DEFINE N == Len(Steps[row.version])
<1>0. N \in Nat /\ instances \in [Instance -> InstanceRow]
  BY StepsAssumption, BoundAssumption DEF ValidVersion, StepNo, TablesOK
<1>1. PICK k \in s .. N + 1 :
              /\ ExecuteSystemActions(i, s .. k - 1)
              /\ \A j \in s .. k - 1 : Steps[row.version][j].type = "SYSTEM_ACTION"
              /\ \/ /\ k = N + 1
                    /\ Ended(i, row, tab, IF k = s THEN outcome ELSE "COMPLETED")
                 \/ /\ k \in 1 .. N
                    /\ Steps[row.version][k].type # "SYSTEM_ACTION"
                    /\ \/ Failed(i, row, k, tab)
                       \/ \E r : Created(i, row, k, tab, r)
  BY ActivationMarks DEF OtherTypes
<1>2. executions' = executions \cup ({i} \X (s .. k - 1))
  BY <1>1 DEF ExecuteSystemActions
<1>3. CASE k = N + 1 /\ Ended(i, row, tab, IF k = s THEN outcome ELSE "COMPLETED")
  <2>1. /\ instances'[i].status = "COMPLETED" /\ instances'[i].step = 0
        /\ instances'[i].version = row.version /\ instances'[i].subject = row.subject
        /\ \A j \in Instance \ {i} : instances'[j] = instances[j]
        /\ tasks' = tab
    BY <1>0, <1>3 DEF Ended, InstanceRow
  <2>2. \A t \in TaskId : \/ tasks'[t] = tab[t]
                         \/ /\ t = nextTask /\ tasks'[t].status = "PENDING"
                            /\ tasks'[t].instance = i /\ tasks'[t].step = k
    BY <2>1
  <2>3. /\ k \in s .. N + 1
        /\ \A j \in s .. k - 1 : Steps[row.version][j].type = "SYSTEM_ACTION"
        /\ \/ /\ k = N + 1
              /\ instances'[i].status = "COMPLETED" /\ instances'[i].step = 0
           \/ /\ k \in 1 .. N
              /\ Steps[row.version][k].type # "SYSTEM_ACTION"
              /\ instances'[i].status \in {"ACTIVE", "FAILED"} /\ instances'[i].step = k
    BY <1>1, <1>3, <2>1
  <2> QED BY <1>2, <2>1, <2>2, <2>3 DEF Trace
<1>4. CASE k \in 1 .. N /\ Steps[row.version][k].type # "SYSTEM_ACTION"
           /\ Failed(i, row, k, tab)
  <2>1. /\ instances'[i].status = "FAILED" /\ instances'[i].step = k
        /\ instances'[i].version = row.version /\ instances'[i].subject = row.subject
        /\ \A j \in Instance \ {i} : instances'[j] = instances[j]
        /\ tasks' = tab
    BY <1>0, <1>4 DEF Failed, InstanceRow
  <2> QED BY <1>0, <1>1, <1>2, <1>4, <2>1 DEF Trace
<1>5. CASE k \in 1 .. N /\ Steps[row.version][k].type # "SYSTEM_ACTION"
           /\ \E r : Created(i, row, k, tab, r)
  <2>1. PICK r : Created(i, row, k, tab, r)
    BY <1>5
  <2>2. /\ instances'[i].status = "ACTIVE" /\ instances'[i].step = k
        /\ instances'[i].version = row.version /\ instances'[i].subject = row.subject
        /\ \A j \in Instance \ {i} : instances'[j] = instances[j]
    BY <1>0, <2>1 DEF Created, InstanceRow
  <2>3. \A t \in TaskId : \/ tasks'[t] = tab[t]
                         \/ /\ t = nextTask /\ tasks'[t].status = "PENDING"
                            /\ tasks'[t].instance = i /\ tasks'[t].step = k
    BY <2>1 DEF Created
  <2> QED BY <1>0, <1>1, <1>2, <1>5, <2>2, <2>3 DEF Trace
<1> QED BY <1>1, <1>3, <1>4, <1>5

\* startWorkflow enters an instance.
LEMMA StartEnters ==
    ASSUME IInv, NEW i \in Instance, NEW v \in Version, NEW x \in Subject,
           NEW a \in UserOrNone, NEW route \in Routes(v), Start(i, v, x, a, route)
    PROVE  Entered(i)
<1> DEFINE row == [status |-> "ACTIVE", version |-> v, subject |-> x,
                   subjectActor |-> a, route |-> route,
                   step |-> 0, outcome |-> "NONE"]
<1>1. row \in InstanceRow /\ row.version = v /\ row.subject = x
  <2>1. route \in [StepNo -> UserOrNone]
    BY DEF Routes
  <2> QED BY <2>1, BoundAssumption DEF InstanceRow
<1>2. /\ instances[i].status = "ABSENT" /\ ~ Occupied(x) /\ decisions' = decisions
      /\ Activate(i, row, 1, tasks, "COMPLETED")
  BY DEF Start
<1> HIDE DEF row
<1>3. TablesOK(instances, tasks, nextTask) /\ OtherTypes /\ tasks \in [TaskId -> TaskRow]
  BY DEF IInv, TablesOK
<1>4. \E k \in Int : Trace(i, row, 1, tasks, k)
  BY <1>1, <1>2, <1>3, ActivationTraced
<1> QED BY <1>1, <1>2, <1>4 DEF Entered

\* cancelInstance stops one.
LEMMA CancelStops ==
    ASSUME IInv, NEW i \in Instance, Cancel(i)
    PROVE  Stopped(i)
<1>1. /\ instances \in [Instance -> InstanceRow] /\ tasks \in [TaskId -> TaskRow]
  BY DEF IInv, TablesOK
<1>2. /\ instances[i].status = "ACTIVE"
      /\ instances' = [instances EXCEPT ![i].status = "CANCELLED", ![i].step = 0]
      /\ executions' = executions /\ decisions' = decisions
  BY DEF Cancel
<1>3. /\ instances'[i].version = instances[i].version
      /\ instances'[i].subject = instances[i].subject
      /\ instances'[i].step = 0 /\ instances'[i].status = "CANCELLED"
      /\ \A j \in Instance \ {i} : instances'[j] = instances[j]
  BY <1>1, <1>2 DEF InstanceRow
<1>4. \A t \in TaskId :
          /\ tasks'[t].instance = tasks[t].instance
          /\ tasks'[t].step = tasks[t].step
          /\ \/ tasks'[t] = tasks[t]
             \/ tasks[t].status = "PENDING" /\ tasks'[t].status = "CANCELLED"
  <2> TAKE t \in TaskId
  <2>1. tasks[t] \in TaskRow
    BY <1>1
  <2>2. tasks'[t] = tasks[t] \/ (tasks[t].status = "PENDING"
                               /\ tasks'[t] = [tasks[t] EXCEPT !.status = "CANCELLED"])
    BY DEF Cancel
  <2> QED BY <2>1, <2>2 DEF TaskRow
<1> QED BY <1>2, <1>3, <1>4 DEF Stopped

\* completeTask advances the instance of its task.
LEMMA CompleteAdvances ==
    ASSUME IInv, NEW u \in User, CommitComplete(u)
    PROVE  Advanced(calls[u].task) /\ calls[u].task \in TaskId
<1>1. PICK t : t = calls[u].task
  OBVIOUS
<1>2. /\ t \in TaskId /\ tasks[t].status = "PENDING" /\ StepOf(t).type = "TASK"
  BY <1>1 DEF CommitComplete, IInv, CallsAdmitted, Admitted, StillPending
<1>3. /\ Activate(tasks[t].instance, instances[tasks[t].instance],
                  tasks[t].step + 1, Completed(t, u), "COMPLETED")
      /\ decisions' = decisions
  BY <1>1 DEF CommitComplete
<1>4. /\ tasks[t].instance \in Instance
      /\ instances[tasks[t].instance].version \in Version
      /\ tasks[t].step \in Int /\ tasks[t].step >= 1
  BY <1>2, StepTypes DEF IInv
<1>5. /\ TablesOK(instances, tasks, nextTask) /\ OtherTypes
      /\ instances[tasks[t].instance] \in InstanceRow
  BY <1>4 DEF IInv, TablesOK
<1>6. Completed(t, u) \in [TaskId -> TaskRow]
  BY <1>2, CompletedTable DEF TablesOK
<1>7. tasks[t].step + 1 \in Int /\ tasks[t].step + 1 >= 1
  BY <1>4
<1>8. \E k \in Int : Trace(tasks[t].instance, instances[tasks[t].instance],
                           tasks[t].step + 1, Completed(t, u), k)
  BY <1>3, <1>4, <1>5, <1>6, <1>7, ActivationTraced
<1>9. Advanced(t)
  BY <1>2, <1>3, <1>7, <1>8 DEF Advanced
<1> QED BY <1>1, <1>2, <1>9

\* decideTask advances the instance of its task, sends it back or stops it.
LEMMA DecideMoves ==
    ASSUME IInv, NEW u \in User, CommitDecide(u)
    PROVE  \/ \E i \in Instance : Stopped(i)
           \/ \E t \in TaskId : Advanced(t)
<1>1. PICK t : t = calls[u].task
  OBVIOUS
<1>2. PICK d : d = calls[u].decision
  OBVIOUS
<1>3. PICK i : i = tasks[t].instance
  OBVIOUS
<1>4. PICK tab : tab = Completed(t, u)
  OBVIOUS
<1>5. /\ t \in TaskId /\ tasks[t].status = "PENDING" /\ d \in StepOf(t).permitted
  BY <1>1, <1>2 DEF CommitDecide, IInv, CallsAdmitted, Admitted, StillPending
<1>6. /\ \/ /\ d = "REJECT"
            /\ CompleteInstance(i, instances[i], tab, "REJECTED")
            /\ UNCHANGED <<executions, effects>>
         \/ /\ d = "RETURN"
            /\ tasks[t].step > 1
            /\ Activate(i, instances[i], tasks[t].step - 1, tab, "COMPLETED")
         \/ /\ d = "APPROVE"
            /\ Activate(i, instances[i], tasks[t].step + 1, tab, "APPROVED")
      /\ decisions' = [decisions EXCEPT ![t] = [actor |-> u, decision |-> d]]
  BY <1>1, <1>2, <1>3, <1>4 DEF CommitDecide, ApplyDecision
<1>7. /\ i \in Instance /\ instances[i].version \in Version
      /\ tasks[t].step \in Int /\ tasks[t].step >= 1
  BY <1>3, <1>5, StepTypes DEF IInv
<1>8. /\ TablesOK(instances, tasks, nextTask) /\ OtherTypes
      /\ instances \in [Instance -> InstanceRow] /\ instances[i].status = "ACTIVE"
      /\ decisions \in [TaskId -> DecisionRow]
  BY <1>3, <1>5, <1>7 DEF IInv, TablesOK, OtherTypes
<1>9. /\ tab \in [TaskId -> TaskRow]
      /\ tab[t].instance = tasks[t].instance /\ tab[t].step = tasks[t].step
      /\ tab[t].status = "COMPLETED"
      /\ \A x \in TaskId \ {t} : tab[x] = tasks[x]
  <2>1. /\ TablesOK(instances, Completed(t, u), nextTask)
        /\ Stable(instances, tasks, instances, Completed(t, u))
        /\ Completed(t, u)[t].status = "COMPLETED"
        /\ \A x \in TaskId \ {t} : Completed(t, u)[x] = tasks[x]
    BY <1>5, CompletedTable, ZenonT(60)
  <2>2. /\ TablesOK(instances, tab, nextTask)
        /\ Stable(instances, tasks, instances, tab)
        /\ tab[t].status = "COMPLETED" /\ \A x \in TaskId \ {t} : tab[x] = tasks[x]
    BY <1>4, <2>1
  <2> QED BY <1>5, <2>2 DEF TablesOK, Stable
<1>10. /\ decisions'[t].decision = d
       /\ \A x \in TaskId \ {t} : decisions'[x] = decisions[x]
  BY <1>5, <1>6, <1>8
<1>11. CASE d = "REJECT" /\ CompleteInstance(i, instances[i], tab, "REJECTED")
            /\ UNCHANGED <<executions, effects>>
  <2>1. /\ tasks' = tab
        /\ instances'[i].status = "COMPLETED" /\ instances'[i].outcome = "REJECTED"
        /\ instances'[i].step = 0
        /\ instances'[i].version = instances[i].version
        /\ instances'[i].subject = instances[i].subject
        /\ \A j \in Instance \ {i} : instances'[j] = instances[j]
    BY <1>7, <1>8, <1>11 DEF CompleteInstance, InstanceRow
  <2>2. \A x \in TaskId :
          /\ tasks'[x].instance = tasks[x].instance
          /\ tasks'[x].step = tasks[x].step
          /\ \/ tasks'[x] = tasks[x] /\ decisions'[x] = decisions[x]
             \/ tasks[x].status = "PENDING"
                /\ tasks'[x].status \in {"COMPLETED", "CANCELLED"}
    BY <1>5, <1>9, <1>10, <2>1
  <2>3. Stopped(i)
    BY <1>8, <1>11, <2>1, <2>2 DEF Stopped
  <2> QED BY <1>7, <2>3
<1>12. CASE d = "RETURN" /\ tasks[t].step > 1
            /\ Activate(i, instances[i], tasks[t].step - 1, tab, "COMPLETED")
  <2>1. tasks[t].step - 1 \in Int /\ tasks[t].step - 1 >= 1
    BY <1>7, <1>12
  <2>2. \E k \in Int : Trace(i, instances[i], tasks[t].step - 1, tab, k)
    BY <1>7, <1>8, <1>9, <1>12, <2>1, ActivationTraced
  <2>3. Advanced(t)
    BY <1>3, <1>4, <1>5, <1>10, <1>12, <2>1, <2>2 DEF Advanced
  <2> QED BY <1>5, <2>3
<1>13. CASE d = "APPROVE"
            /\ Activate(i, instances[i], tasks[t].step + 1, tab, "APPROVED")
  <2>1. tasks[t].step + 1 \in Int /\ tasks[t].step + 1 >= 1
    BY <1>7
  <2>2. \E k \in Int : Trace(i, instances[i], tasks[t].step + 1, tab, k)
    BY <1>7, <1>8, <1>9, <1>13, <2>1, ActivationTraced
  <2>3. Advanced(t)
    BY <1>3, <1>4, <1>5, <1>10, <1>13, <2>1, <2>2 DEF Advanced
  <2> QED BY <1>5, <2>3
<1> QED BY <1>6, <1>11, <1>12, <1>13

\* The two steps that move tasks are quiet: they write assignee and
\* escalated_at alone.
LEMMA MovesAreQuiet ==
    ASSUME IInv,
           (\E u \in User : CommitReassign(u)) \/ (\E w \in Sweeper : Escalate(w))
    PROVE  Quiet
<1>1. tasks \in [TaskId -> TaskRow] /\ UNCHANGED <<instances, decisions, executions>>
  BY DEF IInv, TablesOK, CommitReassign, Escalate
<1>2. PICK x, to, mark :
         /\ x \in TaskId
         /\ tasks[x].status # "ABSENT"
         /\ tasks' = [tasks EXCEPT ![x].escalated = mark, ![x].assignee = to]
  <2>1. CASE \E u \in User : CommitReassign(u)
    <3>1. PICK u \in User : /\ calls[u].op = "reassign"
                            /\ tasks' = [tasks EXCEPT ![calls[u].task].assignee = calls[u].to]
      BY <2>1 DEF CommitReassign
    <3>2. calls[u].task \in TaskId /\ tasks[calls[u].task].status # "ABSENT"
      BY <3>1 DEF IInv, CallsAdmitted, Admitted
    <3>3. tasks' = [tasks EXCEPT
                      ![calls[u].task].escalated = tasks[calls[u].task].escalated,
                      ![calls[u].task].assignee = calls[u].to]
      BY <1>1, <3>1, <3>2 DEF TaskRow
    <3> QED BY <3>2, <3>3
  <2>2. CASE \E w \in Sweeper : Escalate(w)
    <3>1. PICK w \in Sweeper : \E row \in sweeps[w], target \in UserOrNone :
             IF Unclaimed(row.task)
             THEN tasks' = [tasks EXCEPT
                    ![row.task].escalated = TRUE,
                    ![row.task].assignee = IF target = None THEN @ ELSE target]
             ELSE tasks' = tasks
      BY <2>2 DEF Escalate
    <3>2. PICK row \in sweeps[w], target \in UserOrNone :
             IF Unclaimed(row.task)
             THEN tasks' = [tasks EXCEPT
                    ![row.task].escalated = TRUE,
                    ![row.task].assignee = IF target = None THEN @ ELSE target]
             ELSE tasks' = tasks
      BY <3>1
    <3>3. row.task \in TaskId /\ tasks[row.task].status # "ABSENT"
      BY DEF IInv, SweepsListed
    <3>4. CASE Unclaimed(row.task)
      <4>1. PICK to : to = IF target = None THEN tasks[row.task].assignee ELSE target
        OBVIOUS
      <4>2. tasks' = [tasks EXCEPT ![row.task].escalated = TRUE,
                                   ![row.task].assignee = to]
        BY <1>1, <3>2, <3>3, <3>4, <4>1 DEF TaskRow
      <4> QED BY <3>3, <4>2
    <3>5. CASE ~ Unclaimed(row.task)
      <4>1. tasks' = [tasks EXCEPT ![row.task].escalated = tasks[row.task].escalated,
                                   ![row.task].assignee = tasks[row.task].assignee]
        BY <1>1, <3>2, <3>3, <3>5 DEF TaskRow
      <4> QED BY <3>3, <4>1
    <3> QED BY <3>4, <3>5
  <2> QED BY <2>1, <2>2
<1>3. \A t \in TaskId : /\ tasks'[t].status = tasks[t].status
                        /\ tasks'[t].instance = tasks[t].instance
                        /\ tasks'[t].step = tasks[t].step
                        /\ tasks'[t].completedBy = tasks[t].completedBy
                        /\ tasks[t].status = "ABSENT" => tasks'[t] = tasks[t]
  BY <1>1, <1>2 DEF TaskRow
<1> QED BY <1>1, <1>3 DEF Quiet

\* Every step of the engine is one of these.
LEMMA StepShapes ==
    ASSUME IInv, [Next]_vars
    PROVE  \/ Quiet
           \/ \E i \in Instance : Entered(i) \/ Stopped(i)
           \/ \E t \in TaskId : Advanced(t)
<1>1. CASE UNCHANGED <<instances, tasks, decisions, executions>>
  BY <1>1 DEF Quiet
<1>2. CASE UNCHANGED vars
  BY <1>1, <1>2 DEF vars
<1>3. CASE \E i \in Instance, v \in Version, x \in Subject, a \in UserOrNone :
               \E route \in Routes(v) : Start(i, v, x, a, route)
  BY <1>3, StartEnters
<1>4. CASE \E i \in Instance : Cancel(i)
  BY <1>4, CancelStops
<1>5. CASE \E u \in User : CommitDecide(u)
  BY <1>5, DecideMoves
<1>6. CASE \E u \in User : CommitComplete(u)
  BY <1>6, CompleteAdvances
<1>7. CASE (\E u \in User : CommitReassign(u)) \/ (\E w \in Sweeper : Escalate(w))
  BY <1>7, MovesAreQuiet
<1>8. CASE \E u \in User, t \in TaskId, d \in Decision : BeginDecide(u, t, d)
  BY <1>1, <1>8 DEF BeginDecide
<1>9. CASE \E u \in User, t \in TaskId : BeginComplete(u, t)
  BY <1>1, <1>9 DEF BeginComplete
<1>10. CASE \E u, to \in User, t \in TaskId : BeginReassign(u, t, to)
  BY <1>1, <1>10 DEF BeginReassign
<1>11. CASE \E u \in User : Abandon(u)
  BY <1>1, <1>11 DEF Abandon
<1>12. CASE \E w \in Sweeper : BeginSweep(w) \/ AbandonSweep(w)
  BY <1>1, <1>12 DEF BeginSweep, AbandonSweep
<1>13. CASE \E u \in User, on \in BOOLEAN : SetAccount(u, on)
  BY <1>1, <1>13 DEF SetAccount
<1> QED BY <1>2, <1>3, <1>4, <1>5, <1>6, <1>7, <1>8, <1>9, <1>10, <1>11, <1>12,
           <1>13 DEF Next

-----------------------------------------------------------------------------
\* The order of the tasks of an instance, and no step skipped.

\* The rows of tasks not yet created are blank, and the PENDING task of an
\* instance is the last it was given.
LatestTask ==
    /\ \A t \in TaskId : tasks[t].status = "ABSENT" => tasks[t] = AbsentTask
    /\ \A t, u \in TaskId :
          tasks[t].status = "PENDING" /\ tasks[u].instance = tasks[t].instance
             => u <= t

\* The inductive invariant behind CompletionJustified.
JInv == IInv /\ LatestTask /\ CompletionJustified

\* Passed, for given tables.
PassedIn(v, i, s, tab, dec, exe) ==
    IF Steps[v][s].type = "SYSTEM_ACTION"
    THEN <<i, s>> \in exe
    ELSE \E t \in TaskId :
            /\ tab[t].instance = i /\ tab[t].step = s
            /\ tab[t].status = "COMPLETED"
            /\ Steps[v][s].type = "APPROVAL" => dec[t].decision = "APPROVE"
            /\ \A u \in TaskId : tab[u].instance = i /\ tab[u].step = s => u <= t

LEMMA PassedInTables ==
    \A i, s : Passed(i, s) <=>
        PassedIn(instances[i].version, i, s, tasks, decisions, executions)
BY DEF Passed, PassedIn

\* A step stays passed while its instance gets no new task for it, what is
\* COMPLETED keeps its decision and no execution is forgotten.
LEMMA PassedStays ==
    ASSUME NEW v, NEW i, NEW s, NEW tab, NEW dec, NEW exe,
           NEW tab2, NEW dec2, NEW exe2,
           PassedIn(v, i, s, tab, dec, exe),
           exe \subseteq exe2,
           \A t \in TaskId : tab[t].status = "COMPLETED" =>
              /\ tab2[t].status = "COMPLETED" /\ tab2[t].instance = tab[t].instance
              /\ tab2[t].step = tab[t].step /\ dec2[t].decision = dec[t].decision,
           \A u \in TaskId : tab2[u].instance = i /\ tab2[u].step = s =>
              tab[u].instance = i /\ tab[u].step = s
    PROVE  PassedIn(v, i, s, tab2, dec2, exe2)
<1>1. CASE Steps[v][s].type = "SYSTEM_ACTION"
  BY <1>1 DEF PassedIn
<1>2. CASE Steps[v][s].type # "SYSTEM_ACTION"
  <2>1. PICK t \in TaskId :
            /\ tab[t].instance = i /\ tab[t].step = s
            /\ tab[t].status = "COMPLETED"
            /\ Steps[v][s].type = "APPROVAL" => dec[t].decision = "APPROVE"
            /\ \A u \in TaskId : tab[u].instance = i /\ tab[u].step = s => u <= t
    BY <1>2 DEF PassedIn
  <2>2. /\ tab2[t].instance = i /\ tab2[t].step = s /\ tab2[t].status = "COMPLETED"
        /\ Steps[v][s].type = "APPROVAL" => dec2[t].decision = "APPROVE"
    BY <2>1
  <2>3. \A u \in TaskId : tab2[u].instance = i /\ tab2[u].step = s => u <= t
    BY <2>1
  <2> QED BY <1>2, <2>2, <2>3 DEF PassedIn
<1> QED BY <1>1, <1>2

\* Where an activation that was entered with every earlier step passed leaves
\* its instance: with every step behind it passed.
LEMMA TracePasses ==
    ASSUME NEW i \in Instance, NEW row, NEW s \in Int, s >= 1, NEW tab, NEW k \in Int,
           row.version \in Version,
           Trace(i, row, s, tab, k),
           nextTask \in TaskId => tab[nextTask].status = "ABSENT",
           \A j \in 1 .. s - 1 :
              PassedIn(row.version, i, j, tab, decisions', executions)
    PROVE  \A j \in Behind(i)' : Passed(i, j)'
<1>1. PICK v : v = row.version
  OBVIOUS
<1>2. PICK N : N = Len(Steps[v])
  OBVIOUS
<1>3. N \in Nat
  BY <1>1, <1>2, StepsAssumption, BoundAssumption DEF ValidVersion, StepNo
<1>4. /\ k \in s .. N + 1
      /\ \A j \in s .. k - 1 : Steps[v][j].type = "SYSTEM_ACTION"
      /\ executions' = executions \cup ({i} \X (s .. k - 1))
      /\ instances'[i].version = v
      /\ \/ /\ k = N + 1
            /\ instances'[i].status = "COMPLETED"
         \/ /\ k \in 1 .. N
            /\ instances'[i].status \in {"ACTIVE", "FAILED"} /\ instances'[i].step = k
      /\ \A t \in TaskId : \/ tasks'[t] = tab[t]
                           \/ /\ t = nextTask /\ tasks'[t].status = "PENDING"
                              /\ tasks'[t].instance = i /\ tasks'[t].step = k
  BY <1>1, <1>2 DEF Trace
<1>5. Behind(i)' \subseteq 1 .. k - 1
  BY <1>2, <1>3, <1>4 DEF Behind
<1>6. ASSUME NEW j \in 1 .. k - 1
      PROVE  PassedIn(v, i, j, tasks', decisions', executions')
  <2>1. CASE j \in s .. k - 1
    <3>1. Steps[v][j].type = "SYSTEM_ACTION" /\ <<i, j>> \in executions'
      BY <1>4, <2>1
    <3> QED BY <3>1 DEF PassedIn
  <2>2. CASE j \in 1 .. s - 1
    <3>1. PassedIn(v, i, j, tab, decisions', executions)
      BY <1>1, <2>2
    <3>2. executions \subseteq executions'
      BY <1>4
    <3>3. \A t \in TaskId : tab[t].status = "COMPLETED" =>
              /\ tasks'[t].status = "COMPLETED" /\ tasks'[t].instance = tab[t].instance
              /\ tasks'[t].step = tab[t].step
              /\ decisions'[t].decision = decisions'[t].decision
      BY <1>4
    <3>4. j # k
      BY <1>4, <2>2
    <3>5. \A u \in TaskId : tasks'[u].instance = i /\ tasks'[u].step = j =>
              tab[u].instance = i /\ tab[u].step = j
      BY <1>4, <3>4
    <3> QED BY <3>1, <3>2, <3>3, <3>5, PassedStays
  <2> QED BY <1>3, <1>4, <2>1, <2>2
<1>7. ASSUME NEW j \in Behind(i)'
      PROVE  Passed(i, j)'
  <2>1. PassedIn(instances'[i].version, i, j, tasks', decisions', executions')
    BY <1>4, <1>5, <1>6
  <2> QED BY <2>1 DEF Passed, PassedIn
<1> QED BY <1>7

\* An instance that a step leaves alone keeps its steps passed.
LEMMA OthersPassed ==
    ASSUME CompletionJustified, NEW j \in Instance, instances'[j] = instances[j],
           executions \subseteq executions',
           \A t \in TaskId : tasks[t].status = "COMPLETED" =>
              /\ tasks'[t].status = "COMPLETED" /\ tasks'[t].instance = tasks[t].instance
              /\ tasks'[t].step = tasks[t].step
              /\ decisions'[t].decision = decisions[t].decision,
           \A u \in TaskId : tasks'[u].instance = j =>
              tasks[u].instance = j /\ tasks'[u].step = tasks[u].step
    PROVE  \A s \in Behind(j)' : Passed(j, s)'
<1> SUFFICES ASSUME NEW s \in Behind(j)' PROVE Passed(j, s)'
  OBVIOUS
<1>1. s \in Behind(j)
  BY DEF Behind
<1>2. PassedIn(instances[j].version, j, s, tasks, decisions, executions)
  BY <1>1, PassedInTables DEF CompletionJustified
<1>3. \A u \in TaskId : tasks'[u].instance = j /\ tasks'[u].step = s =>
              tasks[u].instance = j /\ tasks[u].step = s
  OBVIOUS
<1>4. PassedIn(instances[j].version, j, s, tasks', decisions', executions')
  BY <1>2, <1>3, PassedStays
<1> QED BY <1>4 DEF Passed, PassedIn

\* An activation keeps the order of tasks: the one it creates is the last.
LEMMA TraceKeepsOrder ==
    ASSUME NEW i \in Instance, NEW row, NEW s, NEW tab, NEW k,
           Trace(i, row, s, tab, k), TablesOK(instances, tasks, nextTask), LatestTask,
           \A t \in TaskId : /\ tab[t].instance = tasks[t].instance
                             /\ tab[t].status = "PENDING" => tasks[t].status = "PENDING"
                             /\ tab[t].status = "ABSENT" => tab[t] = tasks[t]
                             /\ tab[t].status = "PENDING" => tab[t].instance # i
    PROVE  LatestTask'
<1>1. \A t \in TaskId : \/ tasks'[t] = tab[t]
                       \/ /\ t = nextTask /\ tasks'[t].status = "PENDING"
                          /\ tasks'[t].instance = i /\ tasks'[t].step = k
  BY DEF Trace
<1>2. AbsentTask.instance = None /\ None \notin Instance /\ TaskId \subseteq Int
  BY NoneAssumption, BoundAssumption DEF AbsentTask, TaskId
<1>3. ASSUME NEW t \in TaskId, tasks'[t].status = "ABSENT"
      PROVE  tasks'[t] = AbsentTask
  BY <1>1, <1>3 DEF LatestTask
<1>4. \A u \in TaskId : tasks[u].status # "ABSENT" => u < nextTask
  BY DEF TablesOK
<1>5. ASSUME NEW t \in TaskId, NEW u \in TaskId, tasks'[t].status = "PENDING",
             tasks'[u].instance = tasks'[t].instance
      PROVE  u <= t
  <2>1. CASE t = nextTask /\ tasks'[t].instance = i
    <3>1. CASE u = t
      BY <1>2, <3>1
    <3>2. CASE u # t
      <4>1. tasks[u].instance = i
        BY <1>1, <1>5, <2>1, <3>2
      <4>2. tasks[u].status # "ABSENT"
        BY <1>2, <4>1 DEF LatestTask
      <4> QED BY <1>2, <1>4, <2>1, <4>2
    <3> QED BY <3>1, <3>2
  <2>2. CASE tasks'[t] = tab[t]
    <3>1. tasks[t].status = "PENDING" /\ tasks'[t].instance = tasks[t].instance
          /\ tasks'[t].instance # i
      BY <1>5, <2>2
    <3>2. tasks[u].instance = tasks[t].instance
      BY <1>1, <1>5, <3>1
    <3> QED BY <3>1, <3>2 DEF LatestTask
  <2> QED BY <1>1, <1>5, <2>1, <2>2
<1> QED BY <1>3, <1>5 DEF LatestTask

\* The row the next task is written to is blank.
LEMMA NextIsAbsent ==
    ASSUME TablesOK(instances, tasks, nextTask), nextTask \in TaskId
    PROVE  tasks[nextTask].status = "ABSENT"
<1>1. tasks[nextTask].status # "ABSENT" => nextTask < nextTask
  BY DEF TablesOK
<1>2. nextTask \in Int
  BY BoundAssumption DEF TaskId
<1> QED BY <1>1, <1>2

\* Quiet steps keep the invariant.
LEMMA QuietJustified ==
    ASSUME JInv, Quiet
    PROVE  LatestTask' /\ CompletionJustified'
<1>1. LatestTask /\ CompletionJustified
  BY DEF JInv
<1>2. LatestTask'
  BY <1>1 DEF LatestTask, Quiet
<1>3. ASSUME NEW j \in Instance
      PROVE  \A s \in Behind(j)' : Passed(j, s)'
  BY <1>1, OthersPassed DEF Quiet
<1> QED BY <1>2, <1>3 DEF CompletionJustified

\* So does stopping an instance: no step is behind it any more.
LEMMA StopJustified ==
    ASSUME JInv, NEW i \in Instance, Stopped(i)
    PROVE  LatestTask' /\ CompletionJustified'
<1>1. LatestTask /\ CompletionJustified
  BY DEF JInv
<1>2. /\ executions' = executions
      /\ \A j \in Instance \ {i} : instances'[j] = instances[j]
      /\ \A t \in TaskId :
          /\ tasks'[t].instance = tasks[t].instance
          /\ tasks'[t].step = tasks[t].step
          /\ \/ tasks'[t] = tasks[t] /\ decisions'[t] = decisions[t]
             \/ tasks[t].status = "PENDING"
                /\ tasks'[t].status \in {"COMPLETED", "CANCELLED"}
  BY DEF Stopped
<1>3. LatestTask'
  <2>1. ASSUME NEW t \in TaskId, tasks'[t].status = "ABSENT"
        PROVE  tasks'[t] = AbsentTask
    BY <1>1, <1>2, <2>1 DEF LatestTask
  <2>2. ASSUME NEW t \in TaskId, NEW u \in TaskId, tasks'[t].status = "PENDING",
               tasks'[u].instance = tasks'[t].instance
        PROVE  u <= t
    BY <1>1, <1>2, <2>2 DEF LatestTask
  <2> QED BY <2>1, <2>2 DEF LatestTask
<1>4. Behind(i)' = {}
  BY DEF Behind, Stopped
<1>5. ASSUME NEW j \in Instance \ {i}
      PROVE  \A s \in Behind(j)' : Passed(j, s)'
  <2>1. \A t \in TaskId : tasks[t].status = "COMPLETED" =>
              /\ tasks'[t].status = "COMPLETED" /\ tasks'[t].instance = tasks[t].instance
              /\ tasks'[t].step = tasks[t].step
              /\ decisions'[t].decision = decisions[t].decision
    BY <1>2
  <2>2. \A u \in TaskId : tasks'[u].instance = j =>
              tasks[u].instance = j /\ tasks'[u].step = tasks[u].step
    BY <1>2
  <2> QED BY <1>1, <1>2, <2>1, <2>2, OthersPassed
<1> QED BY <1>3, <1>4, <1>5 DEF CompletionJustified

\* So does starting one: nothing is behind its first step but actions.
LEMMA EnterJustified ==
    ASSUME JInv, NEW i \in Instance, Entered(i)
    PROVE  LatestTask' /\ CompletionJustified'
<1>1. /\ LatestTask /\ CompletionJustified /\ TablesOK(instances, tasks, nextTask)
      /\ nextTask \in 1 .. MaxTasks + 1
  BY DEF JInv, IInv, TablesOK
<1>2. PICK row \in InstanceRow, k \in Int :
          row.version \in Version /\ Trace(i, row, 1, tasks, k)
  BY DEF Entered
<1>3. instances[i].status = "ABSENT" /\ decisions' = decisions
  BY DEF Entered
<1>4. /\ executions' = executions \cup ({i} \X (1 .. k - 1))
      /\ \A j \in Instance \ {i} : instances'[j] = instances[j]
      /\ \A t \in TaskId : \/ tasks'[t] = tasks[t]
                           \/ /\ t = nextTask /\ tasks'[t].status = "PENDING"
                              /\ tasks'[t].instance = i /\ tasks'[t].step = k
  BY <1>2 DEF Trace
<1>5. \A t \in TaskId : tasks[t].status = "PENDING" => tasks[t].instance # i
  BY <1>1, <1>3 DEF TablesOK
<1>6. LatestTask'
  BY <1>1, <1>2, <1>5, TraceKeepsOrder
<1>7. \A t \in TaskId : tasks[t].status = "COMPLETED" => tasks'[t] = tasks[t]
  <2> TAKE t \in TaskId
  <2>1. CASE t = nextTask
    BY <1>1, <2>1, NextIsAbsent
  <2>2. CASE t # nextTask
    BY <1>4, <2>2
  <2> QED BY <2>1, <2>2
<1>8. ASSUME NEW j \in Instance \ {i}
      PROVE  \A s \in Behind(j)' : Passed(j, s)'
  <2>1. \A t \in TaskId : tasks[t].status = "COMPLETED" =>
              /\ tasks'[t].status = "COMPLETED" /\ tasks'[t].instance = tasks[t].instance
              /\ tasks'[t].step = tasks[t].step
              /\ decisions'[t].decision = decisions[t].decision
    BY <1>3, <1>7
  <2>2. \A u \in TaskId : tasks'[u].instance = j =>
              tasks[u].instance = j /\ tasks'[u].step = tasks[u].step
    BY <1>4
  <2>3. executions \subseteq executions' /\ instances'[j] = instances[j]
    BY <1>4
  <2> QED BY <1>1, <2>1, <2>2, <2>3, OthersPassed
<1>9. \A s \in Behind(i)' : Passed(i, s)'
  <2>1. nextTask \in TaskId => tasks[nextTask].status = "ABSENT"
    BY <1>1, NextIsAbsent
  <2>2. \A j \in 1 .. 1 - 1 :
           PassedIn(row.version, i, j, tasks, decisions', executions)
    OBVIOUS
  <2> QED BY <1>2, <2>1, <2>2, TracePasses
<1> QED BY <1>6, <1>8, <1>9 DEF CompletionJustified

\* The table after the completion of task t, for the order of tasks.
LEMMA CompletedOrder ==
    ASSUME IInv, NEW t \in TaskId, tasks[t].status = "PENDING", NEW u \in User,
           NEW tab, tab = Completed(t, u)
    PROVE  /\ tab[t].instance = tasks[t].instance /\ tab[t].step = tasks[t].step
           /\ tab[t].status = "COMPLETED"
           /\ \A x \in TaskId \ {t} : tab[x] = tasks[x]
           /\ \A x \in TaskId : tab[x].status = "PENDING" =>
                 tab[x].instance # tasks[t].instance
<1>1. tasks \in [TaskId -> TaskRow]
  BY DEF IInv, TablesOK
<1>2. /\ tab[t].instance = tasks[t].instance /\ tab[t].step = tasks[t].step
      /\ tab[t].status = "COMPLETED"
      /\ \A x \in TaskId \ {t} : tab[x] = tasks[x]
  BY <1>1 DEF Completed, TaskRow
<1>3. \A x, y \in TaskId :
          /\ tasks[x].status = "PENDING" /\ tasks[y].status = "PENDING"
          /\ tasks[x].instance = tasks[y].instance
          => x = y
  BY DEF IInv, TablesOK
<1> QED BY <1>2, <1>3

\* And so does completing a task, or deciding an approval: on an advance the
\* step left behind has just been passed with its last task, and sending it
\* back leaves behind only what was behind before.
LEMMA AdvanceJustified ==
    ASSUME JInv, NEW t \in TaskId, Advanced(t)
    PROVE  LatestTask' /\ CompletionJustified'
<1>1. /\ LatestTask /\ CompletionJustified /\ TablesOK(instances, tasks, nextTask)
      /\ IInv
  BY DEF JInv, IInv
<1>2. PICK i : i = tasks[t].instance
  OBVIOUS
<1>3. PICK row : row = instances[i]
  OBVIOUS
<1>4. PICK u \in User, s \in Int, k \in Int :
          /\ Trace(i, row, s, Completed(t, u), k)
          /\ \/ /\ s = tasks[t].step + 1
                /\ StepOf(t).type = "APPROVAL" => decisions'[t].decision = "APPROVE"
             \/ s = tasks[t].step - 1 /\ s >= 1
  BY <1>2, <1>3 DEF Advanced
<1>5. PICK tab : tab = Completed(t, u)
  OBVIOUS
<1>6. Trace(i, row, s, tab, k)
  BY <1>4, <1>5
<1>7. tasks[t].status = "PENDING" /\ \A x \in TaskId \ {t} : decisions'[x] = decisions[x]
  BY DEF Advanced
<1>8. /\ tab[t].instance = tasks[t].instance /\ tab[t].step = tasks[t].step
      /\ tab[t].status = "COMPLETED"
      /\ \A x \in TaskId \ {t} : tab[x] = tasks[x]
      /\ \A x \in TaskId : tab[x].status = "PENDING" => tab[x].instance # i
  BY <1>1, <1>2, <1>5, <1>7, CompletedOrder
<1>9. /\ i \in Instance /\ row.version \in Version
      /\ tasks[t].step \in Int /\ tasks[t].step >= 1
      /\ row.status = "ACTIVE" /\ row.step = tasks[t].step
      /\ Steps[row.version][tasks[t].step].type \in {"APPROVAL", "TASK"}
      /\ StepOf(t) = Steps[row.version][tasks[t].step]
  <2>1. /\ i \in Instance /\ row.version \in Version
        /\ tasks[t].step \in 1 .. Len(Steps[row.version])
    BY <1>1, <1>2, <1>3, <1>7, StepTypes
  <2>2. /\ row.status = "ACTIVE" /\ row.step = tasks[t].step
        /\ Steps[row.version][tasks[t].step].type \in {"APPROVAL", "TASK"}
    BY <1>1, <1>2, <1>3, <1>7 DEF TablesOK
  <2>3. StepOf(t) = Steps[row.version][tasks[t].step]
    BY <1>2, <1>3 DEF StepOf
  <2> QED BY <2>1, <2>2, <2>3
<1>10. LatestTask'
  <2>1. \A x \in TaskId : /\ tab[x].instance = tasks[x].instance
                          /\ tab[x].status = "PENDING" => tasks[x].status = "PENDING"
                          /\ tab[x].status = "ABSENT" => tab[x] = tasks[x]
                          /\ tab[x].status = "PENDING" => tab[x].instance # i
    BY <1>8
  <2>2. TablesOK(instances, tasks, nextTask) /\ LatestTask
    BY <1>1
  <2> QED BY <1>6, <1>9, <2>1, <2>2, TraceKeepsOrder, ZenonT(60)
<1>11. nextTask \in TaskId => tasks[nextTask].status = "ABSENT" /\ tab[nextTask].status = "ABSENT"
  BY <1>1, <1>7, <1>8, NextIsAbsent
<1>12. \A x \in TaskId : tasks[x].status = "COMPLETED" =>
              /\ x # t /\ x # nextTask
              /\ tab[x] = tasks[x] /\ decisions'[x] = decisions[x]
  BY <1>7, <1>8, <1>11
<1>13. ASSUME NEW j \in 1 .. tasks[t].step - 1
       PROVE  PassedIn(row.version, i, j, tab, decisions', executions)
  <2>1. j \in Behind(i)
    BY <1>3, <1>9 DEF Behind
  <2>2. PassedIn(row.version, i, j, tasks, decisions, executions)
    BY <1>1, <1>3, <1>9, <2>1, PassedInTables DEF CompletionJustified
  <2>3. \A x \in TaskId : tasks[x].status = "COMPLETED" =>
              /\ tab[x].status = "COMPLETED" /\ tab[x].instance = tasks[x].instance
              /\ tab[x].step = tasks[x].step
              /\ decisions'[x].decision = decisions[x].decision
    BY <1>12
  <2>4. \A x \in TaskId : tab[x].instance = i /\ tab[x].step = j =>
              tasks[x].instance = i /\ tasks[x].step = j
    BY <1>8
  <2> QED BY <2>2, <2>3, <2>4, PassedStays
<1>14. ASSUME s = tasks[t].step + 1
       PROVE  PassedIn(row.version, i, tasks[t].step, tab, decisions', executions)
  <2>1. \A x \in TaskId : tab[x].instance = i /\ tab[x].step = tasks[t].step => x <= t
    BY <1>1, <1>2, <1>7, <1>8 DEF LatestTask
  <2>2. StepOf(t).type = "APPROVAL" => decisions'[t].decision = "APPROVE"
    BY <1>4, <1>9, <1>14
  <2> QED BY <1>2, <1>8, <1>9, <2>1, <2>2 DEF PassedIn
<1>15. \A j \in 1 .. s - 1 : PassedIn(row.version, i, j, tab, decisions', executions)
  <2> TAKE j \in 1 .. s - 1
  <2>1. CASE j \in 1 .. tasks[t].step - 1
    BY <1>13, <2>1
  <2>2. CASE j = tasks[t].step /\ s = tasks[t].step + 1
    BY <1>14, <2>2
  <2> QED BY <1>4, <1>9, <2>1, <2>2
<1>16. \A j \in Behind(i)' : Passed(i, j)'
  <2>1. s >= 1
    BY <1>4, <1>9
  <2> QED BY <1>6, <1>9, <1>11, <1>15, <2>1, TracePasses
<1>17. ASSUME NEW j \in Instance \ {i}
       PROVE  \A x \in Behind(j)' : Passed(j, x)'
  <2>1. /\ executions' = executions \cup ({i} \X (s .. k - 1))
        /\ instances'[j] = instances[j]
        /\ \A x \in TaskId : \/ tasks'[x] = tab[x]
                             \/ /\ x = nextTask /\ tasks'[x].status = "PENDING"
                                /\ tasks'[x].instance = i /\ tasks'[x].step = k
    BY <1>6 DEF Trace
  <2>2. \A x \in TaskId : tasks[x].status = "COMPLETED" =>
              /\ tasks'[x].status = "COMPLETED" /\ tasks'[x].instance = tasks[x].instance
              /\ tasks'[x].step = tasks[x].step
              /\ decisions'[x].decision = decisions[x].decision
    BY <1>12, <2>1
  <2>3. \A x \in TaskId : tasks'[x].instance = j =>
              tasks[x].instance = j /\ tasks'[x].step = tasks[x].step
    BY <1>8, <2>1
  <2>4. executions \subseteq executions'
    BY <2>1
  <2> QED BY <1>1, <2>1, <2>2, <2>3, <2>4, OthersPassed
<1> QED BY <1>10, <1>16, <1>17 DEF CompletionJustified

\* The stronger invariant is inductive.
LEMMA JInvInductive ==
    /\ Init => JInv
    /\ JInv /\ [Next]_vars => JInv'
<1>1. ASSUME Init PROVE JInv
  <2>1. IInv
    BY <1>1, InitInvariant
  <2>2. LatestTask
    <3>1. \A t \in TaskId : tasks[t] = AbsentTask
      BY <1>1 DEF Init
    <3>2. AbsentTask.status = "ABSENT"
      BY DEF AbsentTask
    <3> QED BY <3>1, <3>2 DEF LatestTask
  <2>3. CompletionJustified
    BY <1>1 DEF Init, AbsentInstance, Behind, CompletionJustified
  <2> QED BY <2>1, <2>2, <2>3 DEF JInv
<1>2. ASSUME JInv, [Next]_vars PROVE JInv'
  <2>1. IInv
    BY <1>2 DEF JInv
  <2>2. IInv'
    BY <1>2, <2>1, NextInvariant
  <2>3. LatestTask' /\ CompletionJustified'
    <3>1. \/ Quiet
          \/ \E i \in Instance : Entered(i) \/ Stopped(i)
          \/ \E t \in TaskId : Advanced(t)
      BY <1>2, <2>1, StepShapes
    <3> QED BY <1>2, <3>1, QuietJustified, EnterJustified, StopJustified, AdvanceJustified
  <2> QED BY <2>2, <2>3 DEF JInv
<1> QED BY <1>1, <1>2

-----------------------------------------------------------------------------
\* Steps and history.

\* The step's own part of HistoryIsFinal.
HistoryKept ==
    /\ \A i \in Instance :
          instances[i].status \in {"COMPLETED", "CANCELLED", "FAILED"} =>
              instances'[i] = instances[i]
    /\ \A t \in TaskId :
          tasks[t].status \in {"COMPLETED", "CANCELLED"} =>
              /\ tasks'[t].status = tasks[t].status
              /\ tasks'[t].completedBy = tasks[t].completedBy
              /\ decisions'[t] = decisions[t]

\* A step changes no instance that has ended and no task that is not PENDING.
LEMMA StepKeepsHistory ==
    ASSUME IInv, [Next]_vars
    PROVE  HistoryKept
<1>1. TablesOK(instances, tasks, nextTask)
  BY DEF IInv
<1>2. CASE Quiet
  BY <1>2 DEF Quiet, HistoryKept
<1>3. ASSUME NEW i \in Instance, Stopped(i) PROVE HistoryKept
  BY <1>3 DEF Stopped, HistoryKept
<1>4. ASSUME NEW i \in Instance, Entered(i) PROVE HistoryKept
  <2>1. PICK row, k : Trace(i, row, 1, tasks, k)
    BY <1>4 DEF Entered
  <2>2. /\ instances[i].status = "ABSENT" /\ decisions' = decisions
        /\ \A j \in Instance \ {i} : instances'[j] = instances[j]
        /\ \A t \in TaskId : tasks'[t] = tasks[t] \/ t = nextTask
    BY <1>4, <2>1 DEF Entered, Trace
  <2>3. \A t \in TaskId : tasks[t].status # "ABSENT" => tasks'[t] = tasks[t]
    BY <1>1, <2>2, NextIsAbsent
  <2> QED BY <2>2, <2>3 DEF HistoryKept
<1>5. ASSUME NEW t \in TaskId, Advanced(t) PROVE HistoryKept
  <2>1. PICK u, s, k :
           /\ u \in User
           /\ Trace(tasks[t].instance, instances[tasks[t].instance], s, Completed(t, u), k)
    BY <1>5 DEF Advanced
  <2>2. PICK tab : tab = Completed(t, u)
    OBVIOUS
  <2>3. PICK i : i = tasks[t].instance
    OBVIOUS
  <2>4. Trace(i, instances[i], s, tab, k)
    BY <2>1, <2>2, <2>3
  <2>5. tasks[t].status = "PENDING" /\ \A x \in TaskId \ {t} : decisions'[x] = decisions[x]
    BY <1>5 DEF Advanced
  <2>6. \A x \in TaskId \ {t} : tab[x] = tasks[x]
    BY <1>5, <2>1, <2>2, <2>5, CompletedOrder
  <2>7. instances[i].status = "ACTIVE" /\ i \in Instance
    BY <1>1, <2>3, <2>5 DEF TablesOK
  <2>8. /\ \A j \in Instance \ {i} : instances'[j] = instances[j]
        /\ \A x \in TaskId : tasks'[x] = tab[x] \/ x = nextTask
    BY <2>4 DEF Trace
  <2>9. \A x \in TaskId \ {t} : tasks[x].status # "ABSENT" => tasks'[x] = tasks[x]
    BY <1>1, <2>6, <2>8, NextIsAbsent
  <2> QED BY <2>5, <2>7, <2>8, <2>9 DEF HistoryKept
<1> QED BY <1>2, <1>3, <1>4, <1>5, StepShapes

\* The step's own part of EscalatedOnce.
EscalatedStay ==
    \A t \in TaskId : tasks[t].escalated /\ calls' = calls =>
        /\ tasks'[t].escalated
        /\ tasks'[t].assignee = tasks[t].assignee

\* A commit ends a call, and a sweep moves no task marked escalated.
LEMMA StepKeepsEscalated ==
    ASSUME JInv, [Next]_vars
    PROVE  EscalatedStay
<1>1. /\ IInv /\ TablesOK(instances, tasks, nextTask)
      /\ tasks \in [TaskId -> TaskRow] /\ calls \in [User -> Call]
  BY DEF JInv, IInv, TablesOK, OtherTypes
<1>2. \A t \in TaskId : tasks[t].status = "ABSENT" => ~ tasks[t].escalated
  BY DEF JInv, LatestTask, AbsentTask
<1>3. CASE tasks' = tasks
  BY <1>3 DEF EscalatedStay
<1>4. ASSUME NEW i \in Instance, Entered(i) PROVE EscalatedStay
  <2>1. PICK row, k : Trace(i, row, 1, tasks, k)
    BY <1>4 DEF Entered
  <2>2. \A t \in TaskId : tasks'[t] = tasks[t] \/ t = nextTask
    BY <2>1 DEF Trace
  <2> QED BY <1>1, <1>2, <2>2, NextIsAbsent DEF EscalatedStay
<1>5. ASSUME NEW i \in Instance, Cancel(i) PROVE EscalatedStay
  <2>1. \A t \in TaskId : /\ tasks'[t].escalated = tasks[t].escalated
                          /\ tasks'[t].assignee = tasks[t].assignee
    BY <1>1, <1>5 DEF Cancel, TaskRow
  <2> QED BY <2>1 DEF EscalatedStay
<1>6. ASSUME NEW u \in User, CommitDecide(u) \/ CommitComplete(u) \/ CommitReassign(u)
      PROVE  EscalatedStay
  <2>1. calls'[u] = Idle /\ calls[u] # Idle
    BY <1>1, <1>6 DEF CommitDecide, CommitComplete, CommitReassign, Idle
  <2> QED BY <2>1 DEF EscalatedStay
<1>7. ASSUME NEW w \in Sweeper, Escalate(w) PROVE EscalatedStay
  <2>1. PICK row \in sweeps[w], target \in UserOrNone :
             IF Unclaimed(row.task)
             THEN tasks' = [tasks EXCEPT
                    ![row.task].escalated = TRUE,
                    ![row.task].assignee = IF target = None THEN @ ELSE target]
             ELSE tasks' = tasks
    BY <1>7 DEF Escalate
  <2>2. CASE Unclaimed(row.task)
    <3>1. PICK to : to = IF target = None THEN tasks[row.task].assignee ELSE target
      OBVIOUS
    <3>2. row.task \in TaskId
      BY <1>1 DEF IInv, SweepsListed
    <3>3. tasks' = [tasks EXCEPT ![row.task].escalated = TRUE, ![row.task].assignee = to]
      BY <1>1, <2>1, <2>2, <3>1, <3>2 DEF TaskRow
    <3>4. \A t \in TaskId \ {row.task} : tasks'[t] = tasks[t]
      BY <1>1, <3>2, <3>3
    <3> QED BY <2>2, <3>4 DEF EscalatedStay, Unclaimed
  <2>3. CASE ~ Unclaimed(row.task)
    BY <1>3, <2>1, <2>3
  <2> QED BY <2>2, <2>3
<1>8. CASE UNCHANGED vars
  BY <1>3, <1>8 DEF vars
<1>9. CASE Next
  <2>1. CASE \E i \in Instance, v \in Version, x \in Subject, a \in UserOrNone :
               \E route \in Routes(v) : Start(i, v, x, a, route)
    BY <1>1, <1>4, <2>1, StartEnters
  <2>2. CASE \E i \in Instance : Cancel(i)
    BY <1>5, <2>2
  <2>3. CASE \E u \in User : CommitDecide(u) \/ CommitComplete(u) \/ CommitReassign(u)
    BY <1>6, <2>3
  <2>4. CASE \E w \in Sweeper : Escalate(w)
    BY <1>7, <2>4
  <2>5. CASE \/ \E u \in User, t \in TaskId, d \in Decision : BeginDecide(u, t, d)
             \/ \E u \in User, t \in TaskId : BeginComplete(u, t)
             \/ \E u, to \in User, t \in TaskId : BeginReassign(u, t, to)
             \/ \E u \in User : Abandon(u)
             \/ \E w \in Sweeper : BeginSweep(w) \/ AbandonSweep(w)
             \/ \E u \in User, on \in BOOLEAN : SetAccount(u, on)
    BY <1>3, <2>5 DEF BeginDecide, BeginComplete, BeginReassign, Abandon, BeginSweep,
                      AbandonSweep, SetAccount
  <2> QED BY <1>9, <2>1, <2>2, <2>3, <2>4, <2>5 DEF Next
<1> QED BY <1>8, <1>9

-----------------------------------------------------------------------------
\* The refinement.

\* A step that leaves every row but that of i alone moves one marker.
LEMMA OneMarkerMoves ==
    ASSUME NEW i \in Instance,
           \A j \in Instance \ {i} : instances'[j] = instances[j]
    PROVE  Markers' = [Markers EXCEPT ![i] = Marker(i)']
<1>1. \A j \in Instance \ {i} : Marker(j)' = Marker(j)
  BY DEF Marker
<1> QED BY <1>1 DEF Markers

\* A marker's record, and the same record after a move.
MarkerAt(status, version, subject, step) ==
    [status |-> status, version |-> version, subject |-> subject, step |-> step]

Moved(m, status, step) == [m EXCEPT !.status = status, !.step = step]

\* A move changes the status and the step and nothing else.
LEMMA MarkerMoved ==
    ASSUME NEW status, NEW version, NEW subject, NEW step, NEW status2, NEW step2
    PROVE  Moved(MarkerAt(status, version, subject, step), status2, step2)
              = MarkerAt(status2, version, subject, step2)
<1> DEFINE m == MarkerAt(status, version, subject, step)
           half == [m EXCEPT !.status = status2]
<1>1. half = MarkerAt(status2, version, subject, step)
  BY SMT DEF MarkerAt
<1>2. Moved(m, status2, step2) = [half EXCEPT !.step = step2]
  BY Zenon DEF Moved
<1> HIDE DEF half
<1> QED BY <1>1, <1>2, SMT DEF MarkerAt

\* The marker startWorkflow sets down.
LEMMA MarkerEntered ==
    ASSUME NEW version, NEW subject
    PROVE  [Chain!Nowhere EXCEPT !.version = version, !.subject = subject]
              = MarkerAt("ABSENT", version, subject, 0)
<1> DEFINE half == [Chain!Nowhere EXCEPT !.version = version]
<1>1. half = MarkerAt("ABSENT", version, None, 0)
  BY SMT DEF MarkerAt, Chain!Nowhere
<1>2. [Chain!Nowhere EXCEPT !.version = version, !.subject = subject]
         = [half EXCEPT !.subject = subject]
  BY Zenon
<1> HIDE DEF half
<1> QED BY <1>1, <1>2, SMT DEF MarkerAt

\* An activation sets the marker of its instance down.
LEMMA TraceSetsDown ==
    ASSUME NEW i \in Instance, NEW row, NEW s \in Int, NEW tab, NEW k \in Int,
           Trace(i, row, s, tab, k),
           NEW status, NEW step,
           NEW m, m = MarkerAt(status, row.version, row.subject, step)
    PROVE  Chain!SetDown(i, m, s)
<1>1. /\ m.version = row.version /\ m.subject = row.subject
  BY DEF MarkerAt
<1>2. PICK N : N = Len(Steps[row.version])
  OBVIOUS
<1>3. /\ k \in s .. N + 1
      /\ \A j \in s .. k - 1 : Chain!IsAction(m.version, j)
      /\ executions' = executions \cup ({i} \X (s .. k - 1))
      /\ \A j \in Instance \ {i} : instances'[j] = instances[j]
      /\ instances'[i].version = row.version /\ instances'[i].subject = row.subject
      /\ \/ /\ k = N + 1
            /\ instances'[i].status = "COMPLETED" /\ instances'[i].step = 0
         \/ /\ k # N + 1 /\ ~ Chain!IsAction(m.version, k)
            /\ instances'[i].status \in {"ACTIVE", "FAILED"} /\ instances'[i].step = k
  <2>1. N \in Int => N + 1 \notin 1 .. N
    OBVIOUS
  <2> QED BY <1>1, <1>2, <2>1 DEF Trace, Chain!IsAction
<1>4. Markers' = [Markers EXCEPT ![i] = Marker(i)']
  BY <1>3, OneMarkerMoves
<1>5. Moved(m, instances'[i].status, instances'[i].step)
        = MarkerAt(instances'[i].status, row.version, row.subject, instances'[i].step)
  BY MarkerMoved
<1>6. Marker(i)' = Moved(m, instances'[i].status, instances'[i].step)
  BY <1>3, <1>5, Zenon DEF Marker, MarkerAt
<1>7. CASE k = N + 1
  <2>1. Markers' = [Markers EXCEPT ![i] = [m EXCEPT !.status = "COMPLETED", !.step = 0]]
    BY <1>3, <1>4, <1>6, <1>7 DEF Moved
  <2> QED BY <1>1, <1>2, <1>3, <1>7, <2>1 DEF Chain!SetDown
<1>8. CASE k # N + 1
  <2>1. /\ ~ Chain!IsAction(m.version, k)
        /\ \E st \in {"ACTIVE", "FAILED"} :
              Markers' = [Markers EXCEPT ![i] = [m EXCEPT !.status = st, !.step = k]]
    BY <1>3, <1>4, <1>6, <1>8 DEF Moved
  <2> QED BY <1>1, <1>2, <1>3, <1>8, <2>1 DEF Chain!SetDown
<1> QED BY <1>7, <1>8

\* Every step of the engine is a step of the chain or leaves it as it is.
LEMMA StepIsChainStep ==
    ASSUME IInv, [Next]_vars
    PROVE  [Chain!CNext]_Chain!cvars
<1>1. TablesOK(instances, tasks, nextTask)
  BY DEF IInv
<1>2. CASE Quiet
  BY <1>2 DEF Quiet, Chain!cvars, Markers, Marker
<1>3. ASSUME NEW i \in Instance, Stopped(i) PROVE Chain!CNext
  <2>1. PICK st \in {"COMPLETED", "CANCELLED"} : instances'[i].status = st
    BY <1>3 DEF Stopped
  <2>2. /\ instances[i].status = "ACTIVE" /\ executions' = executions
        /\ \A j \in Instance \ {i} : instances'[j] = instances[j]
        /\ instances'[i].version = instances[i].version
        /\ instances'[i].subject = instances[i].subject
        /\ instances'[i].step = 0
    BY <1>3 DEF Stopped
  <2>3. Markers' = [Markers EXCEPT ![i] = Marker(i)']
    BY <2>2, OneMarkerMoves
  <2>4. Marker(i)' = Moved(Marker(i), st, 0)
    <3>1. Marker(i) = MarkerAt(instances[i].status, instances[i].version,
                               instances[i].subject, instances[i].step)
      BY Zenon DEF Marker, MarkerAt
    <3>2. Marker(i)' = MarkerAt(st, instances[i].version, instances[i].subject, 0)
      BY <2>1, <2>2, Zenon DEF Marker, MarkerAt
    <3> QED BY <3>1, <3>2, MarkerMoved
  <2>5. Markers' = [Markers EXCEPT ![i].status = st, ![i].step = 0]
    <3>1. Markers[i] = Marker(i)
      BY DEF Markers
    <3>2. Markers' = [Markers EXCEPT ![i] = Moved(Markers[i], st, 0)]
      BY <2>3, <2>4, <3>1, Zenon
    <3> QED BY <3>2, Zenon DEF Moved
  <2>6. Markers[i].status = "ACTIVE"
    BY <2>2 DEF Markers, Marker
  <2>7. Chain!Stop(i)
    BY <2>1, <2>2, <2>5, <2>6 DEF Chain!Stop
  <2> QED BY <2>7 DEF Chain!CNext
<1>4. ASSUME NEW i \in Instance, Entered(i) PROVE Chain!CNext
  <2>1. PICK row \in InstanceRow, k \in Int :
          /\ row.version \in Version /\ row.subject \in Subject
          /\ ~ Occupied(row.subject)
          /\ Trace(i, row, 1, tasks, k)
    BY <1>4 DEF Entered
  <2>2. PICK m : m = [Chain!Nowhere EXCEPT !.version = row.version, !.subject = row.subject]
    OBVIOUS
  <2>3. m = MarkerAt("ABSENT", row.version, row.subject, 0)
    BY <2>2, MarkerEntered, Zenon
  <2>4. Chain!SetDown(i, m, 1)
    BY <2>1, <2>3, TraceSetsDown
  <2>5. Markers[i].status = "ABSENT"
    BY <1>4 DEF Entered, Markers, Marker
  <2>6. \A j \in Instance : Markers[j].status = "ACTIVE" => Markers[j].subject # row.subject
    BY <2>1 DEF Occupied, Markers, Marker
  <2>7. Chain!SetDown(i, [Chain!Nowhere EXCEPT !.version = row.version,
                                              !.subject = row.subject], 1)
    BY <2>2, <2>4
  <2>8. Chain!Enter(i)
    BY <2>1, <2>5, <2>6, <2>7 DEF Chain!Enter
  <2> QED BY <2>8 DEF Chain!CNext
<1>5. ASSUME NEW t \in TaskId, Advanced(t) PROVE Chain!CNext
  <2>1. PICK i : i = tasks[t].instance
    OBVIOUS
  <2>2. PICK u \in User, s \in Int, k \in Int :
          /\ Trace(i, instances[i], s, Completed(t, u), k)
          /\ \/ s = tasks[t].step + 1
             \/ s = tasks[t].step - 1 /\ "RETURN" \in StepOf(t).permitted
    BY <1>5, <2>1 DEF Advanced
  <2>3. /\ i \in Instance /\ instances[i].status = "ACTIVE"
        /\ instances[i].step = tasks[t].step
    BY <1>1, <1>5, <2>1 DEF Advanced, TablesOK
  <2>4. /\ Markers[i] = Marker(i)
        /\ Markers[i].status = "ACTIVE" /\ Markers[i].step = tasks[t].step
        /\ Markers[i].version = instances[i].version
    BY <2>3 DEF Markers, Marker
  <2>5. StepOf(t) = Steps[Markers[i].version][Markers[i].step]
    BY <2>1, <2>4 DEF StepOf
  <2>6. Markers[i] = MarkerAt(instances[i].status, instances[i].version,
                              instances[i].subject, instances[i].step)
    BY <2>4, Zenon DEF Marker, MarkerAt
  <2>7. tasks[t].step \in Int
    BY <1>1, <1>5, StepTypes DEF Advanced
  <2>8. CASE s = tasks[t].step + 1
    <3>1. PICK n \in Int : n = Markers[i].step + 1 /\ n = s
      BY <2>4, <2>7, <2>8
    <3>2. Trace(i, instances[i], n, Completed(t, u), k)
      BY <2>2, <3>1
    <3>3. Chain!SetDown(i, Markers[i], n)
      BY <2>3, <2>6, <3>1, <3>2, TraceSetsDown
    <3>4. Chain!Advance(i)
      BY <2>4, <3>1, <3>3 DEF Chain!Advance, Chain!SetDown
    <3> QED BY <2>3, <3>4 DEF Chain!CNext
  <2>9. CASE s = tasks[t].step - 1 /\ "RETURN" \in StepOf(t).permitted
    <3>1. PICK n \in Int : n = Markers[i].step - 1 /\ n = s
      BY <2>4, <2>7, <2>9
    <3>2. Trace(i, instances[i], n, Completed(t, u), k)
      BY <2>2, <3>1
    <3>3. Chain!SetDown(i, Markers[i], n)
      BY <2>3, <2>6, <3>1, <3>2, TraceSetsDown
    <3>4. "RETURN" \in Steps[Markers[i].version][Markers[i].step].permitted
      BY <2>5, <2>9
    <3>5. Chain!GoBack(i)
      BY <2>4, <3>1, <3>3, <3>4 DEF Chain!GoBack, Chain!SetDown
    <3> QED BY <2>3, <3>5 DEF Chain!CNext
  <2> QED BY <2>2, <2>8, <2>9
<1> QED BY <1>2, <1>3, <1>4, <1>5, StepShapes

-----------------------------------------------------------------------------
\* The theorems about order, history and refinement.

\* The stronger invariant holds in every reachable state.
THEOREM OrderHolds == Spec => []JInv
BY JInvInductive, PTL DEF Spec

\* Nobody decides about himself where the step forbids it, and a ROLE task is decided
\* only by a candidate fixed when it was created, whatever was reassigned or escalated
\* between the checks of the call and its commit.
THEOREM DecidersEntitledHolds == Spec => []DecidersEntitled
<1>1. IInv => DecidersEntitled
  BY DEF IInv
<1> QED BY <1>1, InvariantHolds, PTL

\* No step is ever skipped, through any number of returns.
THEOREM CompletionJustifiedHolds == Spec => []CompletionJustified
<1>1. JInv => CompletionJustified
  BY DEF JInv
<1> QED BY <1>1, OrderHolds, PTL

\* What is over stays as it is.
THEOREM HistoryIsFinalHolds == Spec => HistoryIsFinal
<1>1. IInv /\ [Next]_vars => [HistoryKept]_vars
  BY StepKeepsHistory
<1> QED BY <1>1, InvariantHolds, PTL DEF Spec, HistoryIsFinal, HistoryKept

\* Of two sweeps that listed a task, one escalates it.
THEOREM EscalatedOnceHolds == Spec => EscalatedOnce
<1>1. JInv /\ [Next]_vars => [EscalatedStay]_vars
  BY StepKeepsEscalated
<1> QED BY <1>1, OrderHolds, PTL DEF Spec, EscalatedOnce, EscalatedStay

\* The engine implements ApprovalChain.
THEOREM EngineImplementsChain == Spec => ImplementsChain
<1>1. Init => Chain!CInit
  BY DEF Init, AbsentInstance, Markers, Marker, Chain!CInit, Chain!Nowhere
<1>2. IInv /\ [Next]_vars => [Chain!CNext]_Chain!cvars
  BY StepIsChainStep
<1> QED BY <1>1, <1>2, InvariantHolds, PTL DEF Spec, ImplementsChain, Chain!CSpec
=============================================================================
