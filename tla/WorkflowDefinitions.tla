------------------------ MODULE WorkflowDefinitions ------------------------
(***************************************************************************)
(* Workflow definitions, their versions and steps (services/               *)
(* definitionService.ts), and the instances that run them.                 *)
(*                                                                         *)
(* Every write is a transaction that first reads its version (a new draft: *)
(* its definition) FOR UPDATE, checks it, and then writes: an action Begin *)
(* or Lock, and a Commit.  startWorkflow reads the latest published version*)
(* without a lock, before the transaction that starts an instance on it.   *)
(* Whether the caller holds the permission is left open: a refused request *)
(* changes nothing.                                                        *)
(*                                                                         *)
(* A definition that no other uses, placed before the one it resembles, is *)
(* a faulty variant of it: README.md says which property rules it out.     *)
(***************************************************************************)
EXTENDS Integers, Sequences, FiniteSets

CONSTANTS
    Definition,    \* keys of workflow_definitions
    Request,       \* HTTP requests under way at one time
    Content,       \* what a step may say; see Incomplete and Returning
    Incomplete,    \* contents the table accepts and publish refuses: an APPROVAL
                   \* without decisions, a SYSTEM_ACTION nobody registered
    Returning,     \* contents of APPROVAL steps that permit RETURN
    MaxSteps,      \* bound: the highest sequenceNumber
    MaxVersions,   \* bound: versions of one definition
    MaxInstances,  \* bound: instances ever started
    None

StepNo == 1 .. MaxSteps

ASSUME DefinitionsBoundAssumption ==
    /\ MaxSteps \in Nat /\ MaxVersions \in Nat /\ MaxInstances \in Nat
ASSUME DefinitionsContentAssumption ==
    /\ Incomplete \subseteq Content /\ Returning \subseteq Content
    /\ None \notin Content \cup Definition

VARIABLES
    versions,   \* versions[d]: the versions of d by version_number; <<>> before d exists
    instances,  \* the instances, in the order they were started
    calls       \* the transaction, or the start, each request has under way

vars == <<versions, instances, calls>>

\* steps: the rows of workflow_steps by sequence_number, None where there is none.
VersionRow ==
    [status : {"DRAFT", "PUBLISHED", "RETIRED"}, steps : [StepNo -> Content \cup {None}]]

\* ran: the steps the engine has activated so far, as it read them.
InstanceRow == [definition : Definition, version : Nat, ran : Seq(Content)]

\* version: the row that is locked, 0 for the definition; for a start, the
\* version that was read.  seq, to, content: what the request asks for.
Call ==
    [op         : {"idle", "draft", "add", "update", "delete", "publish", "retire", "start"},
     definition : Definition \cup {None},
     version    : Nat,
     seq        : 0 .. MaxSteps,
     to         : 0 .. MaxSteps,
     content    : Content \cup {None}]

Idle == [op |-> "idle", definition |-> None, version |-> 0, seq |-> 0, to |-> 0,
         content |-> None]

NewVersion == [status |-> "DRAFT", steps |-> [s \in StepNo |-> None]]

Init ==
    /\ versions = [d \in Definition |-> <<>>]
    /\ instances = <<>>
    /\ calls = [r \in Request |-> Idle]

-----------------------------------------------------------------------------
\* Queries

\* validateStepsForPublish: from 1 without a gap, each complete, no way back
\* from the first.
ValidVersion(steps) ==
    /\ \E n \in StepNo : \A s \in StepNo : steps[s] # None <=> s <= n
    /\ \A s \in StepNo : steps[s] \notin Incomplete
    /\ steps[1] \notin Returning

Published(d) == {v \in DOMAIN versions[d] : versions[d][v].status = "PUBLISHED"}

\* The version a start takes, if there is one.
Latest(d) == {v \in Published(d) : \A w \in Published(d) : w <= v}

\* Somebody's transaction has read the row FOR UPDATE and not ended.
Locked(d, v) ==
    \E r \in Request :
        calls[r].op \notin {"idle", "start"} /\ calls[r].definition = d /\ calls[r].version = v

Draft(d, v) == v \in DOMAIN versions[d] /\ versions[d][v].status = "DRAFT"

-----------------------------------------------------------------------------
\* The key's UNIQUE constraint decides between two requests; the definition
\* and its version 1 are one transaction.
CreateDefinition(d) ==
    /\ versions[d] = <<>>
    /\ versions' = [versions EXCEPT ![d] = <<NewVersion>>]
    /\ UNCHANGED <<instances, calls>>

LockRowUnlocked(d, v) == TRUE

\* findByIdForUpdate waits while another transaction has the row.
LockRow(d, v) == ~Locked(d, v)

Open(r, call) ==
    /\ calls[r] = Idle
    /\ calls' = [calls EXCEPT ![r] = call]
    /\ UNCHANGED <<versions, instances>>

\* A refused request, or a process that stops: the transaction is undone.
Abandon(r) ==
    /\ calls[r] # Idle
    /\ calls' = [calls EXCEPT ![r] = Idle]
    /\ UNCHANGED <<versions, instances>>

BeginDraft(r, d) ==
    /\ versions[d] # <<>>
    /\ LockRow(d, 0)
    /\ Open(r, [Idle EXCEPT !.op = "draft", !.definition = d])

\* maxVersionNumber is read under the lock, so it is the one to add 1 to.
CommitDraft(r) ==
    LET d == calls[r].definition IN
    /\ calls[r].op = "draft"
    /\ Len(versions[d]) < MaxVersions
    /\ versions' = [versions EXCEPT ![d] = Append(@, NewVersion)]
    /\ calls' = [calls EXCEPT ![r] = Idle]
    /\ UNCHANGED instances

BeginAddStep(r, d, v, seq, content) ==
    /\ Draft(d, v)
    /\ LockRow(d, v)
    /\ versions[d][v].steps[seq] = None
    /\ Open(r, [Idle EXCEPT !.op = "add", !.definition = d, !.version = v,
                            !.to = seq, !.content = content])

\* The route passes a full step: its place and its content are both replaced.
BeginUpdateStep(r, d, v, seq, to, content) ==
    /\ Draft(d, v)
    /\ LockRow(d, v)
    /\ versions[d][v].steps[seq] # None
    /\ Open(r, [Idle EXCEPT !.op = "update", !.definition = d, !.version = v,
                            !.seq = seq, !.to = to, !.content = content])

BeginDeleteStep(r, d, v, seq) ==
    /\ Draft(d, v)
    /\ LockRow(d, v)
    /\ versions[d][v].steps[seq] # None
    /\ Open(r, [Idle EXCEPT !.op = "delete", !.definition = d, !.version = v, !.seq = seq])

\* The steps once a step has left seq and one with content stands at to.
Placed(steps, seq, to, content) ==
    [s \in StepNo |-> IF s = to THEN content ELSE IF s = seq THEN None ELSE steps[s]]

\* UNIQUE (version_id, sequence_number) refuses a place that is taken.
CommitStep(r) ==
    LET c == calls[r]
        steps == versions[c.definition][c.version].steps
    IN
    /\ c.op \in {"add", "update", "delete"}
    /\ c.to \notin {0, c.seq} => steps[c.to] = None
    /\ versions' = [versions EXCEPT ![c.definition][c.version].steps =
                        Placed(steps, c.seq, c.to, c.content)]
    /\ calls' = [calls EXCEPT ![r] = Idle]
    /\ UNCHANGED instances

BeginPublishUnchecked(r, d, v) ==
    /\ Draft(d, v)
    /\ LockRow(d, v)
    /\ Open(r, [Idle EXCEPT !.op = "publish", !.definition = d, !.version = v])

BeginPublish(r, d, v) ==
    /\ Draft(d, v)
    /\ LockRow(d, v)
    /\ ValidVersion(versions[d][v].steps)
    /\ Open(r, [Idle EXCEPT !.op = "publish", !.definition = d, !.version = v])

BeginRetire(r, d, v) ==
    /\ v \in Published(d)
    /\ LockRow(d, v)
    /\ Open(r, [Idle EXCEPT !.op = "retire", !.definition = d, !.version = v])

CommitStatus(r) ==
    LET c == calls[r] IN
    /\ c.op \in {"publish", "retire"}
    /\ versions' = [versions EXCEPT ![c.definition][c.version].status =
                        IF c.op = "publish" THEN "PUBLISHED" ELSE "RETIRED"]
    /\ calls' = [calls EXCEPT ![r] = Idle]
    /\ UNCHANGED instances

-----------------------------------------------------------------------------
\* instanceService.startWorkflow and the engine, as far as they read versions

BeginStart(r, d) ==
    \E v \in Latest(d) :
        Open(r, [Idle EXCEPT !.op = "start", !.definition = d, !.version = v])

\* The version may have been retired, or superseded, meanwhile.
CommitStart(r) ==
    LET c == calls[r] IN
    /\ c.op = "start"
    /\ Len(instances) < MaxInstances
    /\ instances' = Append(instances,
           [definition |-> c.definition, version |-> c.version,
            ran |-> <<versions[c.definition][c.version].steps[1]>>])
    /\ calls' = [calls EXCEPT ![r] = Idle]
    /\ UNCHANGED versions

AdvancePastLast(i) ==
    LET next == Len(instances[i].ran) + 1
        steps == versions[instances[i].definition][instances[i].version].steps
    IN
    /\ next \in StepNo
    /\ instances' = [instances EXCEPT ![i].ran = Append(@, steps[next])]
    /\ UNCHANGED <<versions, calls>>

\* advancePastStep looks for the row at sequence_number + 1.
Advance(i) ==
    LET next == Len(instances[i].ran) + 1
        steps == versions[instances[i].definition][instances[i].version].steps
    IN
    /\ next \in StepNo
    /\ steps[next] # None
    /\ instances' = [instances EXCEPT ![i].ran = Append(@, steps[next])]
    /\ UNCHANGED <<versions, calls>>

-----------------------------------------------------------------------------
Next ==
    \/ \E d \in Definition : CreateDefinition(d)
    \/ \E i \in DOMAIN instances : Advance(i)
    \/ \E r \in Request :
        \/ Abandon(r)
        \/ CommitDraft(r)
        \/ CommitStep(r)
        \/ CommitStatus(r)
        \/ CommitStart(r)
        \/ \E d \in Definition :
            \/ BeginDraft(r, d)
            \/ BeginStart(r, d)
            \/ \E v \in DOMAIN versions[d] :
                \/ BeginPublish(r, d, v)
                \/ BeginRetire(r, d, v)
                \/ \E seq \in StepNo :
                    \/ BeginDeleteStep(r, d, v, seq)
                    \/ \E content \in Content :
                        \/ BeginAddStep(r, d, v, seq, content)
                        \/ \E to \in StepNo : BeginUpdateStep(r, d, v, seq, to, content)

Spec == Init /\ [][Next]_vars

-----------------------------------------------------------------------------
\* The rows have their columns' shape, an instance's version exists, and what a
\* request has locked exists (workflow_definition_versions, workflow_steps).
TypeOK ==
    /\ versions \in [Definition -> Seq(VersionRow)]
    /\ instances \in Seq(InstanceRow)
    /\ \A i \in DOMAIN instances :
           instances[i].version \in DOMAIN versions[instances[i].definition]
    /\ calls \in [Request -> Call]
    /\ \A r \in Request :
           calls[r].op \notin {"idle", "draft"} =>
               /\ calls[r].definition \in Definition
               /\ calls[r].version \in DOMAIN versions[calls[r].definition]

\* However edits, publishing and retiring overlap: a version that left DRAFT
\* keeps its steps for good, and goes to RETIRED only ("publishing freezes it
\* forever"; addStep, updateStep, deleteStep, publish and retire under one lock).
PublishedFrozen ==
    [][\A d \in Definition : \A v \in DOMAIN versions[d] :
          versions[d][v].status # "DRAFT" =>
              /\ v \in DOMAIN versions'[d]
              /\ versions'[d][v].steps = versions[d][v].steps
              /\ \/ versions'[d][v].status = versions[d][v].status
                 \/ versions[d][v].status = "PUBLISHED" /\ versions'[d][v].status = "RETIRED"]_vars

\* An instance, though it was started on a version read without a lock and
\* reads one step at a time while versions are edited, published and retired,
\* has run the steps, from the first, of one version that publish validated
\* (startWorkflow, advancePastStep).
InstancesRunOneVersion ==
    \A i \in DOMAIN instances :
        LET row == versions[instances[i].definition][instances[i].version] IN
        /\ row.status # "DRAFT"
        /\ ValidVersion(row.steps)
        /\ \A k \in DOMAIN instances[i].ran : k \in StepNo /\ instances[i].ran[k] = row.steps[k]
=============================================================================
