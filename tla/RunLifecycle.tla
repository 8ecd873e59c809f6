----------------------------- MODULE RunLifecycle -----------------------------
(***************************************************************************)
(* The runs of one server: the slot of the EventManager (events.py), the    *)
(* dispatch and the worker of a run (services/run_service.py: _submit_run,  *)
(* _bg_run), the batch that runs inside its request (http/runs_routes.py),  *)
(* and the requests that look at a run, which mark it interrupted when it   *)
(* seems dead (_mark_interrupted_if_dead), or cancel it.                    *)
(*                                                                          *)
(* Whether a run is alive is known in two places: its manifest on disk says *)
(* running, and the EventManager's memory holds it as active.  The routes   *)
(* read one, then the other, from pool threads.                             *)
(***************************************************************************)
EXTENDS Naturals, FiniteSets

CONSTANTS
  Runs,        \* the runs that are ever submitted
  Kind,        \* "background": _submit_run; "lmm": the same with a linear mixed
               \* model; "batch": a run inside its request
  Observers,   \* the requests that can look at runs at the same time
  NoRun,       \* the absent run
  Overdue,     \* the runs that take longer than run_timeout_s
  MaxWorkers,  \* the EventManager's max_workers
  MaxCrashes   \* bound on the crashes of the server

ASSUME RunsAssumption == IsFiniteSet(Runs)
ASSUME RunKindAssumption == Kind \in [Runs -> {"background", "lmm", "batch"}]
ASSUME NoRunAssumption == NoRun \notin Runs
ASSUME OverdueAssumption == Overdue \subseteq Runs
ASSUME MaxWorkersAssumption == MaxWorkers \in Nat \ {0}
ASSUME MaxCrashesAssumption == MaxCrashes \in Nat

VARIABLES
  pc,        \* where each run is on its way
  manifest,  \* the status in run_manifest.json
  active,    \* EventManager._active_runs
  cancel,    \* EventManager._cancel_requested
  slots,     \* EventManager._reserved_slots
  outcome,   \* history: the last status that the run's own worker wrote
  obs,       \* the requests that look at runs
  crashes    \* how often the server died (a bound, not code)

vars == <<pc, manifest, active, cancel, slots, outcome, obs, crashes>>

Results == {"completed", "blocked", "failed", "interrupted"}

Steps == {"idle", "slot", "written", "queued", "running", "failing",
          "stopping", "reported", "closing", "ended", "dead"}

Idle == [pc |-> "idle", r |-> NoRun, cancels |-> FALSE]

\* The runs that hold a slot but have no worker, are never active and cannot be
\* cancelled: the request runs them itself.
Batches == {r \in Runs : Kind[r] = "batch"}

\* The runs whose failures go to a sink of their own.
MixedModels == {r \in Runs : Kind[r] = "lmm"}

Init ==
  /\ pc = [r \in Runs |-> "idle"]
  /\ manifest = [r \in Runs |-> "none"]
  /\ active = {}
  /\ cancel = {}
  /\ slots = 0
  /\ outcome = [r \in Runs |-> "none"]
  /\ obs = [o \in Observers |-> Idle]
  /\ crashes = 0

RunGoto(r, from, to) == pc[r] = from /\ pc' = [pc EXCEPT ![r] = to]

\* Fault: the slots are not counted against the workers.
SlotFree_Always == TRUE

SlotFree == slots < MaxWorkers

\* release_slot never counts below zero.
Released == IF slots > 0 THEN slots - 1 ELSE 0

-----------------------------------------------------------------------------
(* Submission.                                                              *)

\* try_acquire_slot; without a free slot the request answers 429.
AcquireSlot(r) ==
  /\ SlotFree
  /\ RunGoto(r, "idle", "slot")
  /\ slots' = slots + 1
  /\ UNCHANGED <<manifest, active, cancel, outcome, obs, crashes>>

\* The inputs, and then the manifest, are on disk.
WriteRunning(r) ==
  /\ RunGoto(r, "slot", IF r \in Batches THEN "running" ELSE "written")
  /\ manifest' = [manifest EXCEPT ![r] = "running"]
  /\ UNCHANGED <<active, cancel, slots, outcome, obs, crashes>>

\* The form is invalid, or before_dispatch raises: the slot is released without
\* a run to deactivate.
SubmitRaises(r) ==
  /\ pc[r] \in {"slot", "written"}
  /\ pc' = [pc EXCEPT ![r] = "dead"]
  /\ slots' = Released
  /\ UNCHANGED <<manifest, active, cancel, outcome, obs, crashes>>

\* register_run, mark_active, and the worker enters the executor's queue.  A
\* batch never becomes active.
Dispatch(r) ==
  /\ RunGoto(r, "written", "queued")
  /\ active' = active \cup {r}
  /\ UNCHANGED <<manifest, cancel, slots, outcome, obs, crashes>>

-----------------------------------------------------------------------------
(* The worker.                                                              *)

Executing ==
  {r \in Runs \ Batches :
    pc[r] \in {"running", "failing", "stopping", "reported", "closing"}}

Start(r) ==
  /\ Cardinality(Executing) < MaxWorkers
  /\ RunGoto(r, "queued", "running")
  /\ UNCHANGED <<manifest, active, cancel, slots, outcome, obs, crashes>>

Report(r, status) ==
  /\ manifest' = [manifest EXCEPT ![r] = status]
  /\ outcome' = [outcome EXCEPT ![r] = status]
  /\ UNCHANGED <<active, cancel, slots, obs, crashes>>

\* A stage writes the manifest that ends the workflow.
FinishStages(r) ==
  /\ RunGoto(r, "running", "reported")
  /\ \E status \in {"completed", "blocked", "failed"} : Report(r, status)

\* A checkpoint finds a cancellation or the deadline past.
StopAtCheckpoint(r) ==
  /\ r \notin Batches
  /\ r \in cancel \cup Overdue
  /\ RunGoto(r, "running", "stopping")
  /\ UNCHANGED <<manifest, active, cancel, slots, outcome, obs, crashes>>

\* A stage raises, or the bookkeeping after the last stage does.
StageRaises(r) ==
  /\ pc[r] = "running" \/ (pc[r] = "reported" /\ outcome[r] \in {"completed", "blocked"})
  /\ pc' = [pc EXCEPT ![r] = "failing"]
  /\ UNCHANGED <<manifest, active, cancel, slots, outcome, obs, crashes>>

\* An exception path writes the manifest, but not that of a mixed model: what
\* becomes of it is recorded in its own artifact only.
ReportUnlessLmm(r, status) ==
  IF r \in MixedModels
  THEN UNCHANGED <<manifest, outcome, active, cancel, slots, obs, crashes>>
  ELSE Report(r, status)

\* Fault: the exception path of the worker forgets the manifest.
ReportFailure_Forgotten(r) ==
  /\ RunGoto(r, "failing", "closing")
  /\ UNCHANGED <<manifest, outcome, active, cancel, slots, obs, crashes>>

ReportFailure(r) ==
  /\ RunGoto(r, "failing", "closing")
  /\ ReportUnlessLmm(r, "failed")

ReportStop(r) ==
  /\ RunGoto(r, "stopping", "closing")
  /\ ReportUnlessLmm(r, "interrupted")

\* Fault: a cancellation that came too late for its run stays requested.
End_KeepsCancel(r) ==
  /\ pc[r] \in {"reported", "closing"}
  /\ pc' = [pc EXCEPT ![r] = "ended"]
  /\ slots' = Released
  /\ active' = active \ {r}
  /\ UNCHANGED <<manifest, cancel, outcome, obs, crashes>>

\* The finally block: release_slot.
End(r) ==
  /\ pc[r] \in {"reported", "closing"}
  /\ pc' = [pc EXCEPT ![r] = "ended"]
  /\ slots' = Released
  /\ active' = active \ {r}
  /\ cancel' = cancel \ {r}
  /\ UNCHANGED <<manifest, outcome, obs, crashes>>

-----------------------------------------------------------------------------
(* Requests that look at a run.                                             *)

\* The list, detail and events routes read the manifest; so does the cancel
\* route.  Only a running one leads further.
ReadManifest(o, r, cancels) ==
  /\ obs[o] = Idle
  /\ manifest[r] = "running"
  /\ obs' = [obs EXCEPT ![o] = [pc |-> "check", r |-> r, cancels |-> cancels]]
  /\ UNCHANGED <<pc, manifest, active, cancel, slots, outcome, crashes>>

\* _mark_interrupted_if_dead, first half: is the run active?
CheckActive(o) ==
  /\ obs[o].pc = "check"
  /\ obs' = [obs EXCEPT ![o] =
              IF obs[o].r \notin active THEN [@ EXCEPT !.pc = "mark"]
              ELSE IF @.cancels THEN [@ EXCEPT !.pc = "request"] ELSE Idle]
  /\ UNCHANGED <<pc, manifest, active, cancel, slots, outcome, crashes>>

\* Fault: the response says interrupted, the manifest on disk does not.
MarkInterrupted_InMemory(o) ==
  /\ obs[o].pc = "mark"
  /\ obs' = [obs EXCEPT ![o] = Idle]
  /\ UNCHANGED <<pc, manifest, active, cancel, slots, outcome, crashes>>

\* Second half: the manifest that was read is written back as interrupted.
MarkInterrupted(o) ==
  /\ obs[o].pc = "mark"
  /\ manifest' = [manifest EXCEPT ![obs[o].r] = "interrupted"]
  /\ obs' = [obs EXCEPT ![o] = Idle]
  /\ UNCHANGED <<pc, active, cancel, slots, outcome, crashes>>

\* request_cancel; a run that is not active any more is looked at once again,
\* with the manifest that was read before.
RequestCancel(o) ==
  /\ obs[o].pc = "request"
  /\ IF obs[o].r \in active
     THEN cancel' = cancel \cup {obs[o].r} /\ obs' = [obs EXCEPT ![o] = Idle]
     ELSE /\ obs' = [obs EXCEPT ![o].pc = "check", ![o].cancels = FALSE]
          /\ UNCHANGED cancel
  /\ UNCHANGED <<pc, manifest, active, slots, outcome, crashes>>

\* The process ends: the manifests stay, the EventManager starts empty.
Crash ==
  /\ crashes < MaxCrashes
  /\ crashes' = crashes + 1
  /\ pc' = [r \in Runs |-> IF pc[r] \in {"idle", "ended"} THEN pc[r] ELSE "dead"]
  /\ active' = {}
  /\ cancel' = {}
  /\ slots' = 0
  /\ obs' = [o \in Observers |-> Idle]
  /\ UNCHANGED <<manifest, outcome>>

RunStep(r) ==
  \/ WriteRunning(r) \/ SubmitRaises(r) \/ Dispatch(r) \/ Start(r)
  \/ FinishStages(r) \/ StopAtCheckpoint(r) \/ StageRaises(r)
  \/ ReportFailure(r) \/ ReportStop(r) \/ End(r)

ObserverStep(o) == CheckActive(o) \/ MarkInterrupted(o) \/ RequestCancel(o)

Next ==
  \/ \E r \in Runs : AcquireSlot(r) \/ RunStep(r)
  \/ \E o \in Observers, r \in Runs, c \in BOOLEAN : ReadManifest(o, r, c)
  \/ \E o \in Observers : ObserverStep(o)
  \/ Crash

Spec == Init /\ [][Next]_vars

\* A live server carries submissions, workers and requests on; a run's worker
\* does not stop for ever in a stage; the run rail polls the list of runs while
\* it is mounted (a poll may find every pool thread busy, hence the strong
\* fairness).  Nobody has to submit or to cancel a run.
Fairness ==
  /\ \A r \in Runs : WF_vars(RunStep(r))
  /\ \A r \in Runs : SF_vars(\E o \in Observers : ReadManifest(o, r, FALSE))
  /\ \A o \in Observers : WF_vars(ObserverStep(o))

FairSpec == Spec /\ Fairness

-----------------------------------------------------------------------------
TypeOK ==
  /\ pc \in [Runs -> Steps]
  /\ manifest \in [Runs -> {"none", "running"} \cup Results]
  /\ active \subseteq Runs
  /\ cancel \subseteq active
  /\ slots \in 0 .. MaxWorkers
  /\ outcome \in [Runs -> {"none"} \cup Results]
  /\ obs \in [Observers -> [pc : {"idle", "check", "mark", "request"},
                            r : Runs \cup {NoRun}, cancels : BOOLEAN]]
  /\ crashes \in 0 .. MaxCrashes

\* The runs that a slot was reserved for and that have not given it back.
Holding == {r \in Runs : pc[r] \notin {"idle", "ended", "dead"}}

\* The slots count the runs under way exactly, and there are never more of them
\* than workers: no failed submission, crash, cancellation or late exception
\* leaks a slot, and none gives a slot back that another run holds.
OneRunPerSlot == slots = Cardinality(Holding) /\ slots <= MaxWorkers

\* A run that its worker has left is not shown as running: every way out of the
\* worker, and every observer that writes late, leaves a terminal manifest.  A
\* mixed model whose worker raised is the exception; RunsEnd covers it.
EndedIsTerminal ==
  \A r \in Runs \ MixedModels : pc[r] = "ended" => manifest[r] \in Results

\* A submitted run comes to an end that the user can see, over cancellations,
\* exceptions and crashes: its manifest does not say running for ever.
RunsEnd ==
  \A r \in Runs :
    manifest[r] = "running" ~> (pc[r] \in {"ended", "dead"} /\ manifest[r] \in Results)

\* A run is marked interrupted by an observer only if the server stopped: the
\* manifest of a run that its worker has ended says what the worker reported.
ResultStands ==
  \A r \in Runs : pc[r] = "ended" => manifest[r] = outcome[r]

=============================================================================
