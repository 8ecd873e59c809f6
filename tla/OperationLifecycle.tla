-------------------------- MODULE OperationLifecycle --------------------------
(***************************************************************************)
(* The execution of confirmed operations: the operation record             *)
(* (agent/operations.py), the lifecycle that every executor runs through    *)
(* (agent/execution.py), the domain state it commits (agent/chains.py) and  *)
(* the handlers of the orchestrator (agent/orchestrator.py).                *)
(*                                                                          *)
(* A step is one durable write, so that a crash can come between any two.   *)
(* The confirm and reconcile routes are coroutines: a request keeps the     *)
(* event loop from its first read to its last write, except that a          *)
(* multi-step workflow runs in a worker thread and gives the loop up.       *)
(*                                                                          *)
(* The records here all target one chain head, the case their lease is for. *)
(***************************************************************************)
EXTENDS Naturals, Sequences, FiniteSets

CONSTANTS
  Records,         \* the operation records
  Kind,            \* what each of them does: "rerun", "fork" or "workflow"
  Requests,        \* the HTTP requests that can be in flight at the same time
  NoRecord,        \* the absent record
  MayRaise,        \* the points at which a request can meet an exception
  LeaseMayLapse,   \* may an execution take longer than its lease of 300 s?
  MaxCrashes       \* bound on the crashes of the server

Kinds == {"rerun", "fork", "workflow"}

RaisePoints == {"prepare", "effect", "submitted", "terminal"}

ASSUME KindAssumption == Kind \in [Records -> Kinds]
ASSUME NoRecordAssumption == NoRecord \notin Records
ASSUME MayRaiseAssumption == MayRaise \subseteq RaisePoints
ASSUME LeaseAssumption == LeaseMayLapse \in BOOLEAN
ASSUME MaxCrashesAssumption == MaxCrashes \in Nat

VARIABLES
  rec,        \* the latest state of each operation record
  fork,       \* the fork record of each operation (ForkStore)
  chain,      \* the child chain of each operation (ChainStore)
  children,   \* the child runs of each operation, in the order of their creation
  lease,      \* the lease of the chain head
  req,        \* the requests in flight
  published,  \* the records whose terminal result reached session and events
  crashes     \* how often the server died (a bound, not code)

vars == <<rec, fork, chain, children, lease, req, published, crashes>>

Terminal == {"completed", "failed", "stale", "cancelled"}
Statuses == {"pending", "submitted", "running", "recovering"} \cup Terminal

\* The transition table of OperationRecordStore.append_status.
Allowed ==
  [s \in Statuses |->
    CASE s = "pending"    -> Statuses \ {"pending"}
      [] s = "submitted"  -> Terminal \cup {"running", "recovering"}
      [] s = "running"    -> Terminal \cup {"recovering"}
      [] s = "recovering" -> Terminal \cup {"submitted", "running"}
      [] OTHER            -> {}]

\* execution: claimed is the presence of an execution key, ids that of the fork
\* and chain ids, bound the child run (by its place in children) or, for the
\* operations without one, 1.
Executions == [claimed : BOOLEAN, ids : BOOLEAN, bound : Nat]

RecordStates ==
  [status     : Statuses,
   execution  : Executions,
   effect     : {"pending", "committed", "failed"},
   projection : {"pending", "complete", "failed"}]

PendingRecord ==
  [status |-> "pending",
   execution |-> [claimed |-> FALSE, ids |-> FALSE, bound |-> 0],
   effect |-> "pending", projection |-> "pending"]

RunStates == {"inputs", "running", "completed", "failed", "interrupted"}

HasChain(r) == Kind[r] \in {"rerun", "fork"}

\* record: the request's copy of the record; outcome: what its effect came to.
Idle == [pc |-> "idle", r |-> NoRecord, record |-> PendingRecord, outcome |-> "none"]

Steps == {"recover", "claim", "lease", "prepareFork", "prepareChain", "prepared",
          "effect", "submitManifest", "submitDispatch", "thread", "bind",
          "submitted", "commitChain", "commitFork", "effectStatus", "nonterminal",
          "settle", "announce", "failChain", "failFork", "settleFailed",
          "announceFailed", "release"}

-----------------------------------------------------------------------------
At(q, pc) == req[q].pc = pc

Goto(q, pc) == req' = [req EXCEPT ![q].pc = pc]

Finish(q) == req' = [req EXCEPT ![q] = Idle]

LoopFree == \A q \in Requests : req[q].pc \in {"idle", "thread"}

\* Fault: the transition table is not consulted.
CanAppend_Always(r, status) == TRUE

CanAppend(r, status) ==
  status = rec[r].status \/ status \in Allowed[rec[r].status]

\* append_status: the stored record takes the changes, the request's copy
\* becomes the stored record, and a transition that the table refuses raises.
AppendStatus(q, new, pc) ==
  /\ CanAppend(req[q].r, new.status)
  /\ rec' = [rec EXCEPT ![req[q].r] = new]
  /\ req' = [req EXCEPT ![q].record = new, ![q].pc = pc]

Stored(q) == rec[req[q].r]

\* The exception path of lifecycle.execute.
Raise(q, point) ==
  /\ point \in MayRaise
  /\ Goto(q, "failChain")
  /\ UNCHANGED <<rec, fork, chain, children, lease, published, crashes>>

OnlyRecord == UNCHANGED <<fork, chain, children, lease, published, crashes>>
OnlyRequest == UNCHANGED <<rec, fork, chain, children, lease, published, crashes>>

Init ==
  /\ rec = [r \in Records |-> PendingRecord]
  /\ fork = [r \in Records |-> "none"]
  /\ chain = [r \in Records |-> "none"]
  /\ children = [r \in Records |-> <<>>]
  /\ lease = [holder |-> NoRecord, live |-> FALSE]
  /\ req = [q \in Requests |-> Idle]
  /\ published = {}
  /\ crashes = 0

-----------------------------------------------------------------------------
(* Requests.                                                                *)

Enter(q, r, pc) ==
  /\ At(q, "idle")
  /\ LoopFree
  /\ rec[r].status \notin Terminal
  /\ req' = [req EXCEPT ![q] = [Idle EXCEPT !.pc = pc, !.r = r, !.record = rec[r]]]
  /\ OnlyRequest

\* The confirm route executes the record that the confirmation created; a
\* claimed record is returned as it is.
Confirm(q, r) ==
  /\ ~rec[r].execution.claimed
  /\ Enter(q, r, "claim")

\* The reconcile route, which the client polls: every nonterminal record but a
\* fork's goes through the lifecycle again.
Reconcile(q, r) ==
  /\ Kind[r] # "fork"
  /\ Enter(q, r, IF rec[r].status = "recovering" THEN "claim" ELSE "recover")

MarkRecovering(q) ==
  /\ At(q, "recover")
  /\ AppendStatus(q, [req[q].record EXCEPT !.status = "recovering"], "claim")
  /\ OnlyRecord

\* claim_execution.  Every request is an owner of its own; a claimed record is
\* taken over only while it is recovering, which the routes establish first.
Claim(q) ==
  /\ At(q, "claim")
  /\ AppendStatus(q,
       IF Stored(q).execution.claimed THEN Stored(q)
       ELSE [Stored(q) EXCEPT !.status = "submitted", !.execution.claimed = TRUE],
       "lease")
  /\ OnlyRecord

\* ChainExecutionLease.acquire: the key of the same record re-enters its lease.
LeaseFree(r) == ~lease.live \/ lease.holder = r

Acquire(q) ==
  /\ At(q, "lease")
  /\ LeaseFree(req[q].r)
  /\ lease' = [holder |-> req[q].r, live |-> TRUE]
  /\ Goto(q, IF HasChain(req[q].r) THEN "prepareFork" ELSE "prepared")
  /\ UNCHANGED <<rec, fork, chain, children, published, crashes>>

\* OperationClaimConflict leaves the record as it is and releases nothing.
LeaseConflict(q) ==
  /\ At(q, "lease")
  /\ ~LeaseFree(req[q].r)
  /\ Finish(q)
  /\ OnlyRequest

\* _ensure_child_context: the fork record, then the chain record, each unless
\* it exists.
PrepareFork(q) ==
  /\ At(q, "prepareFork")
  /\ fork' = IF fork[req[q].r] = "none"
             THEN [fork EXCEPT ![req[q].r] = "planning"] ELSE fork
  /\ Goto(q, "prepareChain")
  /\ UNCHANGED <<rec, chain, children, lease, published, crashes>>

PrepareChain(q) ==
  /\ At(q, "prepareChain")
  /\ chain' = IF chain[req[q].r] = "none"
              THEN [chain EXCEPT ![req[q].r] = "pending"] ELSE chain
  /\ Goto(q, "prepared")
  /\ UNCHANGED <<rec, fork, children, lease, published, crashes>>

Prepared(q) ==
  /\ At(q, "prepared")
  /\ AppendStatus(q, [req[q].record EXCEPT !.execution.ids = HasChain(req[q].r)],
                  "effect")
  /\ OnlyRecord

PrepareRaises(q) ==
  /\ req[q].pc \in {"prepareFork", "prepareChain", "prepared"}
  /\ Raise(q, "prepare")

-----------------------------------------------------------------------------
(* The effect.                                                              *)

\* Fault: a child run that was found dead counts as one that completed.
ReconciledOutcomes_DeadIsDone(state) ==
  CASE state = "running"   -> {"running"}
    [] state \in {"completed", "interrupted"} -> {"completed", "failed"}
    [] OTHER               -> {"failed"}

\* Fault: "interrupted" is not among the states in which a child run has ended.
ReconciledOutcomes_DeadIsRunning(state) ==
  CASE state \in {"running", "interrupted"} -> {"running"}
    [] state = "completed" -> {"completed", "failed"}
    [] OTHER               -> {"failed"}

\* The outcome that a reconcile finds in the child run's manifest.  One that a
\* crash kept from being written raises, which the handler turns into failed.
ReconciledOutcomes(state) ==
  CASE state = "running"   -> {"running"}
    [] state = "completed" -> {"completed", "failed"}  \* verification may fail
    [] OTHER               -> {"failed"}

Effect(q, outcome, pc) ==
  req' = [req EXCEPT ![q].outcome = outcome, ![q].pc = pc]

ReconcileRun(q) ==
  LET r == req[q].r
      bound == req[q].record.execution.bound IN
  /\ At(q, "effect") /\ Kind[r] = "rerun" /\ bound # 0
  /\ \E o \in ReconciledOutcomes(children[r][bound].state) : Effect(q, o, "bind")
  /\ OnlyRequest

\* Fault: a retry does not look for the child run of the attempt before it.
Witnesses_NotSought(r) == {}

\* The child runs whose inputs carry the record's id.
Witnesses(r) == DOMAIN children[r]

\* A retry finds the child that a crash kept from being bound.
FindRun(q) ==
  LET r == req[q].r IN
  /\ At(q, "effect") /\ Kind[r] = "rerun" /\ req[q].record.execution.bound = 0
  /\ Witnesses(r) # {}
  /\ IF Cardinality(Witnesses(r)) = 1
     THEN Effect(q, "running", "bind") ELSE Goto(q, "failChain")
  /\ OnlyRequest

\* _submit_run: the inputs, which carry the record's id, then the manifest,
\* then the worker.
SubmitInputs(q) ==
  LET r == req[q].r IN
  /\ At(q, "effect") /\ Kind[r] = "rerun" /\ req[q].record.execution.bound = 0
  /\ Witnesses(r) = {}
  /\ children' = [children EXCEPT ![r] = Append(@, [state |-> "inputs", alive |-> FALSE])]
  /\ Goto(q, "submitManifest")
  /\ UNCHANGED <<rec, fork, chain, lease, published, crashes>>

\* No worker slot, or overrides that the rerun refuses.
SubmitRaises(q) ==
  /\ At(q, "effect") /\ Kind[req[q].r] = "rerun"
  /\ req[q].record.execution.bound = 0 /\ Witnesses(req[q].r) = {}
  /\ Raise(q, "effect")

SubmitManifest(q) ==
  LET r == req[q].r IN
  /\ At(q, "submitManifest")
  /\ children' = [children EXCEPT ![r][Len(children[r])].state = "running"]
  /\ Goto(q, "submitDispatch")
  /\ UNCHANGED <<rec, fork, chain, lease, published, crashes>>

SubmitDispatch(q) ==
  LET r == req[q].r IN
  /\ At(q, "submitDispatch")
  /\ children' = [children EXCEPT ![r][Len(children[r])].alive = TRUE]
  /\ Effect(q, "running", "bind")
  /\ UNCHANGED <<rec, fork, chain, lease, published, crashes>>

\* The request gives up the loop for the thread that executes the workflow.
StartWorkflow(q) ==
  /\ At(q, "effect") /\ Kind[req[q].r] = "workflow"
  /\ Goto(q, "thread")
  /\ OnlyRequest

WorkflowReturns(q) == At(q, "thread") /\ LoopFree

\* A fork is its records; they exist by now.
ForkReturns(q) == At(q, "effect") /\ Kind[req[q].r] = "fork"

\* An effect that is complete when it returns.
EffectReturns(q) ==
  /\ WorkflowReturns(q) \/ ForkReturns(q)
  /\ Effect(q, "completed", "bind")
  /\ OnlyRequest

WorkflowFails(q) ==
  /\ At(q, "thread") /\ LoopFree
  /\ Goto(q, "failChain")
  /\ OnlyRequest

\* The effect's execution (the request's copy) is appended, then bind_effect
\* adds the binding.
Bind(q) ==
  LET r == req[q].r
      copy == req[q].record.execution IN
  /\ At(q, "bind")
  /\ AppendStatus(q,
       [Stored(q) EXCEPT
         !.status = req[q].record.status,
         !.execution = IF copy.bound # 0 THEN copy
                       ELSE [copy EXCEPT !.bound = IF Kind[r] = "rerun"
                                                   THEN Len(children[r]) ELSE 1]],
       "submitted")
  /\ OnlyRecord

-----------------------------------------------------------------------------
(* Domain commit and terminal status.                                       *)

PublishSubmitted(q) ==
  /\ At(q, "submitted")
  /\ Goto(q, IF req[q].outcome = "running" THEN "nonterminal" ELSE "commitChain")
  /\ OnlyRequest

SubmittedRaises(q) == At(q, "submitted") /\ Raise(q, "submitted")

Nonterminal(q) ==
  /\ At(q, "nonterminal")
  /\ AppendStatus(q,
       [Stored(q) EXCEPT !.status = "running", !.execution = req[q].record.execution,
                         !.effect = "pending", !.projection = "pending"],
       "release")
  /\ OnlyRecord

\* Fault: the chain becomes active whatever the outcome.
DomainState_AlwaysActive(outcome) == "active"

DomainState(outcome) == IF outcome = "completed" THEN "active" ELSE "failed"

\* _commit_domain_state: chain first, then fork; the operations that derive a
\* data node have neither.
CommitChain(q) ==
  /\ At(q, "commitChain")
  /\ chain' = IF HasChain(req[q].r)
              THEN [chain EXCEPT ![req[q].r] = DomainState(req[q].outcome)] ELSE chain
  /\ Goto(q, "commitFork")
  /\ UNCHANGED <<rec, fork, children, lease, published, crashes>>

CommitFork(q) ==
  /\ At(q, "commitFork")
  /\ fork' = IF HasChain(req[q].r)
             THEN [fork EXCEPT ![req[q].r] = DomainState(req[q].outcome)] ELSE fork
  /\ Goto(q, "effectStatus")
  /\ UNCHANGED <<rec, chain, children, lease, published, crashes>>

\* Fault: the effect status stores the outcome as it is.
EffectOf_Raw(outcome) == outcome

EffectOf(outcome) == IF outcome = "completed" THEN "committed" ELSE "failed"

RecordEffect(q) ==
  /\ At(q, "effectStatus")
  /\ AppendStatus(q,
       [Stored(q) EXCEPT !.status = req[q].record.status,
                         !.execution = req[q].record.execution,
                         !.effect = EffectOf(req[q].outcome), !.projection = "pending"],
       "settle")
  /\ OnlyRecord

Settle(q) ==
  /\ At(q, "settle")
  /\ CanAppend(req[q].r, req[q].outcome)
  /\ rec' = [rec EXCEPT ![req[q].r] =
              [@ EXCEPT !.status = req[q].outcome, !.execution = req[q].record.execution,
                        !.effect = EffectOf(req[q].outcome), !.projection = "complete"]]
  /\ Goto(q, "announce")
  /\ OnlyRecord

\* append_status refuses what a stale copy asks for; the except block catches it.
AppendRefused(q) ==
  /\ At(q, "bind")
  /\ ~CanAppend(req[q].r, req[q].record.status)
  /\ Goto(q, "failChain")
  /\ OnlyRequest

Announce(q) ==
  /\ req[q].pc \in {"announce", "announceFailed"}
  /\ published' = published \cup {req[q].r}
  /\ Goto(q, "release")
  /\ UNCHANGED <<rec, fork, chain, children, lease, crashes>>

\* An exception here, after the terminal status, enters the except block too.
AnnounceRaises(q) == At(q, "announce") /\ Raise(q, "terminal")

-----------------------------------------------------------------------------
(* The except block and the finally block.                                  *)

\* Fault: the exception path leaves the domain state as it found it.
Withdraw_Forgotten(state, q) == state

\* The chain and the fork are failed if the copy knows their ids and they exist.
Withdraw(state, q) ==
  IF req[q].record.execution.ids /\ state[req[q].r] # "none"
  THEN [state EXCEPT ![req[q].r] = "failed"] ELSE state

FailChain(q) ==
  /\ At(q, "failChain")
  /\ chain' = Withdraw(chain, q)
  /\ Goto(q, "failFork")
  /\ UNCHANGED <<rec, fork, children, lease, published, crashes>>

FailFork(q) ==
  /\ At(q, "failFork")
  /\ fork' = Withdraw(fork, q)
  /\ Goto(q, "settleFailed")
  /\ UNCHANGED <<rec, chain, children, lease, published, crashes>>

SettleFailed(q) ==
  /\ At(q, "settleFailed")
  /\ CanAppend(req[q].r, req[q].record.status)
  /\ rec' = [rec EXCEPT ![req[q].r] =
              [@ EXCEPT !.status = "failed", !.execution = req[q].record.execution,
                        !.effect = IF req[q].record.effect = "pending"
                                   THEN "failed" ELSE req[q].record.effect,
                        !.projection = "failed"]]
  /\ Goto(q, "announceFailed")
  /\ OnlyRecord

\* Another executor has settled the record: the exception leaves the handler.
SettleRefused(q) ==
  /\ At(q, "settleFailed")
  /\ ~CanAppend(req[q].r, req[q].record.status)
  /\ Goto(q, "release")
  /\ OnlyRequest

\* release gives up the lease of the request's own key only.
Release(q) ==
  /\ At(q, "release")
  /\ lease' = IF lease.holder = req[q].r THEN [lease EXCEPT !.live = FALSE] ELSE lease
  /\ Finish(q)
  /\ UNCHANGED <<rec, fork, chain, children, published, crashes>>

-----------------------------------------------------------------------------
(* The environment: workers, observers, time and crashes.                   *)

Running(r, i) == i \in DOMAIN children[r] /\ children[r][i].alive

\* The worker's last writes: the terminal manifest, then its end.
FinishRun(r) ==
  /\ \E i \in DOMAIN children[r], s \in {"completed", "failed", "interrupted"} :
       /\ Running(r, i)
       /\ children' = [children EXCEPT ![r][i] = [state |-> s, alive |-> FALSE]]
  /\ UNCHANGED <<rec, fork, chain, lease, req, published, crashes>>

\* _mark_interrupted_if_dead, by any request that looks at the run.
MarkInterrupted(r) ==
  /\ \E i \in DOMAIN children[r] :
       /\ children[r][i].state = "running" /\ ~children[r][i].alive
       /\ children' = [children EXCEPT ![r][i].state = "interrupted"]
  /\ UNCHANGED <<rec, fork, chain, lease, req, published, crashes>>

\* The steps between acquire and release, where an effect may be under way.
Executing(q) ==
  req[q].pc \notin {"idle", "recover", "claim", "lease"}

LeaseExpires ==
  /\ lease.live
  /\ LeaseMayLapse \/ \A q \in Requests : Executing(q) => req[q].r # lease.holder
  /\ lease' = [lease EXCEPT !.live = FALSE]
  /\ UNCHANGED <<rec, fork, chain, children, req, published, crashes>>

\* The files stay; requests, threads and workers end.
Crash ==
  /\ crashes < MaxCrashes
  /\ crashes' = crashes + 1
  /\ req' = [q \in Requests |-> Idle]
  /\ children' = [r \in Records |->
                   [i \in DOMAIN children[r] |-> [children[r][i] EXCEPT !.alive = FALSE]]]
  /\ UNCHANGED <<rec, fork, chain, lease, published>>

RequestStep(q) ==
  \/ MarkRecovering(q) \/ Claim(q) \/ Acquire(q) \/ LeaseConflict(q)
  \/ PrepareFork(q) \/ PrepareChain(q) \/ Prepared(q) \/ PrepareRaises(q)
  \/ ReconcileRun(q) \/ FindRun(q) \/ SubmitInputs(q) \/ SubmitRaises(q)
  \/ SubmitManifest(q) \/ SubmitDispatch(q)
  \/ StartWorkflow(q) \/ EffectReturns(q) \/ WorkflowFails(q)
  \/ Bind(q) \/ AppendRefused(q) \/ PublishSubmitted(q) \/ SubmittedRaises(q)
  \/ Nonterminal(q) \/ CommitChain(q) \/ CommitFork(q) \/ RecordEffect(q)
  \/ Settle(q) \/ Announce(q) \/ AnnounceRaises(q)
  \/ FailChain(q) \/ FailFork(q) \/ SettleFailed(q) \/ SettleRefused(q)
  \/ Release(q)

Next ==
  \/ \E q \in Requests, r \in Records : Confirm(q, r) \/ Reconcile(q, r)
  \/ \E q \in Requests : RequestStep(q)
  \/ \E r \in Records : FinishRun(r) \/ MarkInterrupted(r)
  \/ LeaseExpires
  \/ Crash

Spec == Init /\ [][Next]_vars

\* A live server carries every request on; its thread and its workers end; a
\* client polls reconcile while it waits (a loop queue serves requests in turn,
\* hence the strong fairness); the run list marks dead runs; a lease runs out.
Fairness ==
  /\ \A q \in Requests : WF_vars(RequestStep(q))
  /\ \A r \in Records :
       /\ SF_vars(\E q \in Requests : Confirm(q, r))
       /\ SF_vars(\E q \in Requests : Reconcile(q, r))
       /\ WF_vars(FinishRun(r))
       /\ WF_vars(MarkInterrupted(r))
  /\ WF_vars(LeaseExpires)

FairSpec == Spec /\ Fairness

-----------------------------------------------------------------------------
RequestStates ==
  [pc      : Steps \cup {"idle"},
   r       : Records \cup {NoRecord},
   record  : RecordStates,
   outcome : {"none", "running", "completed", "failed"}]

TypeOK ==
  /\ rec \in [Records -> RecordStates]
  /\ fork \in [Records -> {"none", "planning", "active", "failed"}]
  /\ chain \in [Records -> {"none", "pending", "active", "failed"}]
  /\ children \in [Records -> Seq([state : RunStates, alive : BOOLEAN])]
  /\ lease \in [holder : Records \cup {NoRecord}, live : BOOLEAN]
  /\ req \in [Requests -> RequestStates]
  /\ published \subseteq Records
  /\ crashes \in 0 .. MaxCrashes

\* A confirmed rerun starts one child run, whatever crash comes between the
\* child's inputs, its manifest, its dispatch and its binding, and however often
\* it is retried; and the child that is bound is that one.
OneChildRun ==
  \A r \in Records :
    /\ Len(children[r]) <= 1
    /\ Kind[r] = "rerun" => rec[r].execution.bound <= Len(children[r])

\* The chain that the user is shown as the result of a rerun is active only
\* with a child run that has completed: no crash, retry, failed verification or
\* run that was marked dead leaves an active chain without its result.
ActiveChainHasResult ==
  \A r \in Records :
    (chain[r] = "active" \/ fork[r] = "active") /\ Kind[r] = "rerun" =>
      /\ rec[r].execution.bound # 0
      /\ children[r][rec[r].execution.bound].state = "completed"

\* The record and the domain state agree once the record is terminal: a
\* completed record has an active chain and fork and a committed effect, a
\* failed one has neither active.
TerminalMatchesDomain ==
  \A r \in Records :
    HasChain(r) =>
      /\ rec[r].status = "completed" =>
           chain[r] = "active" /\ fork[r] = "active" /\ rec[r].effect = "committed"
      /\ rec[r].status = "failed" => chain[r] # "active" /\ fork[r] # "active"

\* A terminal record never changes again, although a second executor of the
\* same workflow may return later with an older copy of it.
TerminalIsFinal ==
  [][\A r \in Records : rec[r].status \in Terminal => rec'[r] = rec[r]]_vars

Mutating(q) ==
  req[q].pc \in {"effect", "submitManifest", "submitDispatch", "thread", "bind",
                 "submitted", "commitChain", "commitFork"}

\* Two different proposals never change the same chain head at the same time.
OneProposalPerHead ==
  \A p, q \in Requests : Mutating(p) /\ Mutating(q) => req[p].r = req[q].r

\* A projection that the record calls complete has been published: the session
\* has the result and the event stream has the terminal event.
CompleteIsPublished ==
  \A r \in Records :
    rec[r].projection = "complete" =>
      r \in published \/ \E q \in Requests : req[q].r = r

\* Every confirmed operation comes to an end.
Settles == \A r \in Records : <>(rec[r].status \in Terminal)

\* The lifecycle keeps what the abstract operation promises.
Outcome ==
  INSTANCE OperationOutcome WITH
    phase <- [r \in Records |->
               IF rec[r].status \in Terminal THEN rec[r].status
               ELSE IF rec[r].execution.claimed THEN "claimed" ELSE "pending"],
    run <- [r \in Records |->
             IF children[r] = <<>> THEN "none"
             ELSE IF children[r][1].state = "completed" THEN "completed" ELSE "open"]

KeepsOutcome == Outcome!Spec

=============================================================================
