--------------------------- MODULE WorkflowExecutor ---------------------------
(***************************************************************************)
(* The execution of a workflow (agent/workflow.py): steps with dependencies, *)
(* executed in order, whose states are appended to a file after every change *)
(* so that a later execution resumes what is missing.                       *)
(*                                                                          *)
(* An executor keeps the states of all steps in memory and appends all of   *)
(* them each time; the last line of the file counts.  There is no lock: an  *)
(* operation that is reconciled while it runs, or a command line beside the *)
(* server, starts a second executor of the same plan.  An executor may die  *)
(* between any two writes.  What a step computes is the number of its       *)
(* execution, and what it computes it from are the numbers it read.         *)
(***************************************************************************)
EXTENDS Naturals

CONSTANTS
  N,          \* the number of steps
  DependsOn,  \* the steps that each step depends on
  Executors,
  MaxResults  \* bound on the executions of steps

WorkflowSteps == 1..N

\* validate_workflow_steps puts every step behind the ones it depends on.
ASSUME OrderAssumption ==
  /\ N \in Nat \ {0}
  /\ DependsOn \in [WorkflowSteps -> SUBSET WorkflowSteps]
  /\ \A s \in WorkflowSteps : \A d \in DependsOn[s] : d < s
ASSUME MaxResultsAssumption == MaxResults \in Nat

VARIABLES
  workflow,   \* the last line of the workflow's file
  executor,   \* the executors
  results,    \* how many results were computed
  disturbed   \* history: executors overlapped, or a success could not be logged

workflowVars == <<workflow, executor, results, disturbed>>

\* inputs: the results of its dependencies that a completed step was computed from.
StepStates ==
  [status : {"pending", "running", "completed", "failed", "blocked"},
   result : Nat, inputs : [WorkflowSteps -> Nat]]

NoInputs == [s \in WorkflowSteps |-> 0]

StepState(status) == [status |-> status, result |-> 0, inputs |-> NoInputs]

AllStates == [WorkflowSteps -> StepStates]

Untouched == [s \in WorkflowSteps |-> StepState("pending")]

WorkflowStates ==
  [status : {"none", "running", "failed", "completed"}, steps : AllStates]

ExecutorSteps == {"idle", "start", "next", "run", "log", "fail", "block"}

ExecutorStates == [pc : ExecutorSteps, at : 0..N, steps : AllStates]

IdleExecutor == [pc |-> "idle", at |-> 0, steps |-> Untouched]

WorkflowInit ==
  /\ workflow = [status |-> "none", steps |-> Untouched]
  /\ executor = [e \in Executors |-> IdleExecutor]
  /\ results = 0
  /\ disturbed = FALSE

Alone(e) == \A x \in Executors \ {e} : executor[x].pc = "idle"

ExecutorIs(e, pc) == executor[e].pc = pc

\* _persist_state: all states are appended in one line.
Stored(e, status, steps) == workflow' = [status |-> status, steps |-> steps]

\* The executor goes on with these states in memory.
Goes(e, pc, at, steps) ==
  executor' = [executor EXCEPT ![e] = [pc |-> pc, at |-> at, steps |-> steps]]

\* The executor changes the states in memory and stores them.
Persists(e, pc, at, status, steps) ==
  /\ Stored(e, status, steps)
  /\ Goes(e, pc, at, steps)
  /\ UNCHANGED <<results, disturbed>>

-----------------------------------------------------------------------------

\* Fault: a step counts as completed when it was running.
Resumed_Running(steps) ==
  [s \in WorkflowSteps |->
     IF steps[s].status \in {"completed", "running"}
     THEN [steps[s] EXCEPT !.status = "completed"] ELSE StepState("pending")]

\* Fault: every step is executed again.
Resumed_Nothing(steps) == Untouched

\* What is completed is kept, everything else is to do again.
Resumed(steps) ==
  [s \in WorkflowSteps |->
     IF steps[s].status = "completed" THEN steps[s] ELSE StepState("pending")]

\* An execution reads the file, and then appends what it resumes from.
StartExecutor(e) ==
  /\ ExecutorIs(e, "idle")
  /\ Goes(e, "start", 0, Resumed(workflow.steps))
  /\ disturbed' = (disturbed \/ ~Alone(e))
  /\ UNCHANGED <<workflow, results>>

StoreStart(e) ==
  /\ ExecutorIs(e, "start")
  /\ Persists(e, "next", 0, "running", executor[e].steps)

\* The first step that is not completed; those it depends on come before it.
BeginStep(e, s) ==
  LET steps == executor[e].steps
  IN  /\ ExecutorIs(e, "next")
      /\ steps[s].status # "completed"
      /\ \A t \in 1..(s - 1) : steps[t].status = "completed"
      /\ Persists(e, "run", s, "running", [steps EXCEPT ![s] = StepState("running")])

\* The step returns its result, which is stored before it is logged.
CompleteStep(e) ==
  LET s     == executor[e].at
      steps == executor[e].steps
      done  == [status |-> "completed", result |-> results + 1,
                inputs |-> [d \in WorkflowSteps |->
                              IF d \in DependsOn[s] THEN steps[d].result ELSE 0]]
  IN  /\ ExecutorIs(e, "run")
      /\ results < MaxResults
      /\ results' = results + 1
      /\ Stored(e, "running", [steps EXCEPT ![s] = done])
      /\ Goes(e, "log", s, [steps EXCEPT ![s] = done])
      /\ UNCHANGED disturbed

Logged(e) ==
  /\ ExecutorIs(e, "log")
  /\ Goes(e, "next", 0, executor[e].steps)
  /\ UNCHANGED <<workflow, results, disturbed>>

\* The step raises, or its success cannot be logged.
RaiseInStep(e) ==
  /\ executor[e].pc \in {"run", "log"}
  /\ Goes(e, "fail", executor[e].at, executor[e].steps)
  /\ disturbed' = (disturbed \/ ExecutorIs(e, "log"))
  /\ UNCHANGED <<workflow, results>>

FailStep(e) ==
  LET s == executor[e].at
  IN  /\ ExecutorIs(e, "fail")
      /\ Persists(e, "block", s, "failed",
                  [executor[e].steps EXCEPT ![s] = StepState("failed")])

\* What depends on a step, directly or not.
Behind(s) ==
  LET behind[t \in WorkflowSteps] ==
        s \in DependsOn[t] \/ \E d \in DependsOn[t] : behind[d]
  IN  {t \in WorkflowSteps : behind[t]}

\* What depends on a step that failed is blocked.
Blocked(steps, s) ==
  [t \in WorkflowSteps |->
     IF t \in Behind(s) /\ steps[t].status = "pending" THEN StepState("blocked") ELSE steps[t]]

\* Fault: the workflow has the status of its last step.
WorkflowEndStatus_LastStep(steps) == steps[N].status

\* Fault: the workflow fails when a step is blocked, and not when one fails.
WorkflowEndStatus_BlockedOnly(steps) ==
  IF \E s \in WorkflowSteps : steps[s].status = "blocked" THEN "failed" ELSE "completed"

WorkflowEndStatus(steps) ==
  IF \E s \in WorkflowSteps : steps[s].status \in {"failed", "blocked"}
  THEN "failed" ELSE "completed"

\* The execution ends: after the first step that failed, or behind the last step.
EndWorkflow(e) ==
  LET steps == executor[e].steps
      final == IF ExecutorIs(e, "block") THEN Blocked(steps, executor[e].at) ELSE steps
  IN  /\ \/ ExecutorIs(e, "block")
         \/ /\ ExecutorIs(e, "next")
            /\ \A s \in WorkflowSteps : steps[s].status = "completed"
      /\ Stored(e, WorkflowEndStatus(final), final)
      /\ executor' = [executor EXCEPT ![e] = IdleExecutor]
      /\ UNCHANGED <<results, disturbed>>

\* The process dies, or the file cannot be written.
Die(e) ==
  /\ ~ExecutorIs(e, "idle")
  /\ executor' = [executor EXCEPT ![e] = IdleExecutor]
  /\ UNCHANGED <<workflow, results, disturbed>>

WorkflowNext ==
  \E e \in Executors :
    \/ StartExecutor(e) \/ StoreStart(e)
    \/ \E s \in WorkflowSteps : BeginStep(e, s)
    \/ CompleteStep(e) \/ Logged(e) \/ RaiseInStep(e) \/ FailStep(e)
    \/ EndWorkflow(e) \/ Die(e)

WorkflowSpec == WorkflowInit /\ [][WorkflowNext]_workflowVars

-----------------------------------------------------------------------------
(* Properties.                                                              *)

\* The file and the executors have their shapes (WorkflowExecutionState).
WorkflowTypeOK ==
  /\ workflow \in WorkflowStates
  /\ executor \in [Executors -> ExecutorStates]
  /\ results \in Nat
  /\ disturbed \in BOOLEAN

\* A completed step was computed from the stored results of what it depends on.
CoherentStates(steps) ==
  \A s \in WorkflowSteps :
    steps[s].status = "completed" =>
      \A d \in DependsOn[s] :
        steps[d].status = "completed" /\ steps[s].inputs[d] = steps[d].result

\* The stored results belong together: whatever executors overlapped, died and
\* resumed, a completed step was computed from the very results that are stored
\* for the steps it depends on (WorkflowExecutor.execute, _persist_state).
Coherent == CoherentStates(workflow.steps)

\* The stored status is what the operation that runs the workflow reports: it
\* is completed only with every step, and failed only with a step that failed
\* and none that still runs (WorkflowExecutor.execute, its last lines).
StatusIsHonest ==
  /\ workflow.status = "completed" =>
       \A s \in WorkflowSteps : workflow.steps[s].status = "completed"
  /\ workflow.status = "failed" =>
       /\ \E s \in WorkflowSteps : workflow.steps[s].status = "failed"
       /\ \A s \in WorkflowSteps : workflow.steps[s].status # "running"

\* A success that was stored stays: no crash and no failure of another step has
\* it computed again, as long as executors did not overlap and every success
\* could be logged (WorkflowStateStore: used for resumable runs).
SuccessIsKept ==
  [][~disturbed' =>
       \A s \in WorkflowSteps :
         workflow.steps[s].status = "completed" => workflow'.steps[s] = workflow.steps[s]
    ]_workflowVars

=============================================================================
