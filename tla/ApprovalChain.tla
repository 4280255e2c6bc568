---------------------------- MODULE ApprovalChain ----------------------------
(***************************************************************************)
(* What the workflow engine promises, with no task, user, call or sweep in *)
(* sight: each instance is a marker on the chain of steps of one version.  *)
(* The marker enters at the first step with a task, moves to the next step *)
(* with a task or back to the previous one, and may stop for good in one of*)
(* four ways.  Every system action it passes has had its effect.  One      *)
(* subject has one moving marker.                                          *)
(***************************************************************************)
EXTENDS Integers, Sequences

CONSTANTS Instance, Subject, Version, Steps, None

VARIABLES
    chain,   \* chain[i]: where the marker of i is, and on which chain
    done     \* <<i, s>>: the system action of step s has run for i

cvars == <<chain, done>>

Nowhere == [status |-> "ABSENT", version |-> None, subject |-> None, step |-> 0]

CInit == chain = [i \in Instance |-> Nowhere] /\ done = {}

IsAction(v, s) == Steps[v][s].type = "SYSTEM_ACTION"

\* The marker of i is set down at step s: it slides over system actions,
\* whose effects happen, and rests on a step with a task, falls off the end,
\* or is stuck at a step nobody can be found for.
SetDown(i, m, s) ==
    \E k \in s .. Len(Steps[m.version]) + 1 :
       /\ \A j \in s .. k - 1 : IsAction(m.version, j)
       /\ done' = done \cup ({i} \X (s .. k - 1))
       /\ IF k = Len(Steps[m.version]) + 1
          THEN chain' = [chain EXCEPT ![i] = [m EXCEPT !.status = "COMPLETED",
                                                       !.step = 0]]
          ELSE /\ ~ IsAction(m.version, k)
               /\ \E status \in {"ACTIVE", "FAILED"} :
                     chain' = [chain EXCEPT ![i] = [m EXCEPT !.status = status,
                                                             !.step = k]]

Enter(i) ==
    /\ chain[i].status = "ABSENT"
    /\ \E v \in Version, x \in Subject :
          /\ \A j \in Instance : chain[j].status = "ACTIVE" => chain[j].subject # x
          /\ SetDown(i, [Nowhere EXCEPT !.version = v, !.subject = x], 1)

Advance(i) ==
    /\ chain[i].status = "ACTIVE"
    /\ SetDown(i, chain[i], chain[i].step + 1)

\* Only where the step's approver may send it back.
GoBack(i) ==
    /\ chain[i].status = "ACTIVE"
    /\ "RETURN" \in Steps[chain[i].version][chain[i].step].permitted
    /\ SetDown(i, chain[i], chain[i].step - 1)

Stop(i) ==
    /\ chain[i].status = "ACTIVE"
    /\ \E status \in {"COMPLETED", "CANCELLED"} :
          chain' = [chain EXCEPT ![i].status = status, ![i].step = 0]
    /\ done' = done

CNext == \E i \in Instance : Enter(i) \/ Advance(i) \/ GoBack(i) \/ Stop(i)

CSpec == CInit /\ [][CNext]_cvars
=============================================================================
