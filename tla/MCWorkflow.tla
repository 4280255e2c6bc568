----------------------------- MODULE MCWorkflow -----------------------------
(* The engine on small instances. *)
EXTENDS Workflow, TLC

Row(type, mode, permitted, allowSelf, escalate) ==
    [type |-> type, mode |-> mode, permitted |-> permitted,
     allowSelf |-> allowSelf, escalate |-> escalate]

Action == Row("SYSTEM_ACTION", "ROLE", {}, FALSE, "NEVER")

\* An action, a task for a named user, and an approval that may send it back.
ReturnSteps ==
    <<Action,
      Row("TASK", "USER", {}, FALSE, "NEVER"),
      Row("APPROVAL", "ROLE", {"APPROVE", "REJECT", "RETURN"}, FALSE, "NEVER")>>

\* An approval that sends back to an action.
SlideSteps ==
    <<Action, Row("APPROVAL", "MANAGER", {"APPROVE", "RETURN"}, FALSE, "NEVER")>>

\* An approval that escalates to the assignee's manager, then an action.
EscalateSteps ==
    <<Row("APPROVAL", "MANAGER", {"APPROVE", "REJECT"}, FALSE,
          "REASSIGN_TO_ASSIGNEE_MANAGER"), Action>>

CONSTANTS returning, sliding, escalating

AllSteps ==
    [v \in Version |->
        CASE v = returning  -> ReturnSteps
          [] v = sliding    -> SlideSteps
          [] v = escalating -> EscalateSteps]

\* Users, instances and sweeps are interchangeable.
Symmetry == Permutations(User) \cup Permutations(Instance) \cup Permutations(Sweeper)
=============================================================================
