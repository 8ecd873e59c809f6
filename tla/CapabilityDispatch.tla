-------------------------- MODULE CapabilityDispatch --------------------------
(***************************************************************************)
(* How one confirmed capability is started at most once                     *)
(* (capability_factory/): the journal of its authorization                  *)
(* (execution_authorization.py), the control stream with the reservation    *)
(* (control_store.py, dispatch.py), the supervisor's journal of the attempt *)
(* (supervisor.py), and the coordinator that takes a confirmation through   *)
(* the three (execution_receipt.py), called by confirm_and_execute          *)
(* (agent/notebook/service.py) through the gateway (notebook_bridge.py).    *)
(*                                                                          *)
(* An option revision has one authorization, one reservation and one        *)
(* attempt: their ids are derived from it.  The route is a plain function,  *)
(* so that confirmations run in pool threads and overlap.  Every operation  *)
(* of a journal holds its file lock, reads and appends, and is one step;    *)
(* so are two reads in a row that only check how the journals relate.       *)
(*                                                                          *)
(* The executor's memory (native_containment/executor_darwin.py) is that of *)
(* one server process, and a process it started outlives the server.  The   *)
(* coordinator's lease takeover has no caller in the product and is left    *)
(* out, so that the epoch of both journals stays 1 and their owner the same. *)
(***************************************************************************)
EXTENDS Naturals, Sequences

CONSTANTS
  Confirmations,  \* the confirm requests that can be in flight together
  MaxConfirms,    \* bound on the confirmations that are ever started
  MaxRestarts     \* bound on restarts of the server

ASSUME MaxConfirmsAssumption == MaxConfirms \in Nat
ASSUME MaxRestartsAssumption == MaxRestarts \in Nat

VARIABLES
  receipts,    \* the authorization's journal: its status after every record
  reservation, \* does the control stream hold the dispatch reservation?
  attempt,     \* the status of the supervisor's attempt
  revoked,     \* is a subject the reservation needs revoked or superseded?
  expired,     \* is the authorization past its expires_at?
  lapsed,      \* is the claim past its lease_expires_at?
  executor,    \* the executor's memory of the attempt's request
  processes,   \* the operating system's processes of the attempt, as started
  call,        \* the confirmations in flight
  confirms, restarts \* how many there were (bounds, not code)

journals == <<receipts, reservation, attempt>>
validity == <<revoked, expired, lapsed>>
bounds == <<confirms, restarts>>
dispatchVars == <<journals, validity, executor, processes, call, bounds>>

ReceiptStatuses ==
  {"issued", "rejected", "claimed", "invalidated", "dispatch_reserved", "running",
   "dispatch_unknown", "failed", "consumed"}

\* Fault: an attempt whose fate is unknown may go on.
AttemptMoves_Resumed ==
  [none |-> {},
   reserved |-> {"spawn_requested", "dispatch_unknown", "failed"},
   spawn_requested |-> {"spawn_acknowledged", "dispatch_unknown", "failed"},
   spawn_acknowledged |-> {"running", "dispatch_unknown", "failed"},
   running |-> {"terminated", "dispatch_unknown", "failed"},
   terminated |-> {"consumed", "failed"},
   dispatch_unknown |-> {"spawn_requested"}, failed |-> {}, consumed |-> {}]

\* What may follow what in the supervisor's journal.
AttemptMoves ==
  [none |-> {},
   reserved |-> {"spawn_requested", "dispatch_unknown", "failed"},
   spawn_requested |-> {"spawn_acknowledged", "dispatch_unknown", "failed"},
   spawn_acknowledged |-> {"running", "dispatch_unknown", "failed"},
   running |-> {"terminated", "dispatch_unknown", "failed"},
   terminated |-> {"consumed", "failed"},
   dispatch_unknown |-> {}, failed |-> {}, consumed |-> {}]

AttemptStatuses ==
  {"none", "reserved", "spawn_requested", "spawn_acknowledged", "running",
   "terminated", "dispatch_unknown", "failed", "consumed"}

\* How a process ends: with artifacts that keep or break their contract, or
\* badly (a failure, a kill, an output over its limit).
Reports == {"valid", "invalid", "bad"}

\* After the process was collected or killed its report is remembered.
ExecutorStates == {"none", "spawning", "active", "collecting"} \cup Reports

CallSteps ==
  {"idle", "issue", "reissue", "reserve", "claim", "append", "invalidate", "book",
   "create", "bind", "spawn", "popen", "acknowledge", "request", "acked", "run",
   "read", "promote", "terminate", "mark", "markReceipt", "dispatch", "collect",
   "result", "reconcile", "fail", "end", "consume", "close", "isolate"}

\* prior: the place of the receipt that the call goes on from; seen: the
\* attempt that the result was validated for; verdict: what its artifacts make it.
CallStates ==
  [at : CallSteps, prior : Nat, seen : AttemptStatuses, verdict : {"consumed", "failed"}]

NoCall == [at |-> "idle", prior |-> 0, seen |-> "none", verdict |-> "failed"]

-----------------------------------------------------------------------------
(* The journals.                                                            *)

Status == IF receipts = <<>> THEN "none" ELSE receipts[Len(receipts)]

\* The places of the transitions to a status: each has an id of its own.
Recorded(to) == {i \in DOMAIN receipts : receipts[i] = to}

\* A transition that is on record is returned as it is to who comes from the
\* same receipt, and refused to anyone else.
Replays(prior, to) == \E i \in Recorded(to) : i = prior + 1

Moves(prior, to) ==
  /\ Recorded(to) = {}
  /\ prior = Len(receipts)
  /\ lapsed => to \in {"dispatch_unknown", "failed"}

Accepted(prior, to) == Replays(prior, to) \/ Moves(prior, to)

After(prior, to) == IF Moves(prior, to) THEN Append(receipts, to) ELSE receipts

\* The attempts a receipt can be presented with.
JoinedWith ==
  [dispatch_reserved |-> {"reserved", "spawn_requested", "spawn_acknowledged"},
   running |-> {"spawn_acknowledged", "running", "terminated", "failed",
                "dispatch_unknown", "consumed"}]

Joins(status) == Status = status /\ attempt \in JoinedWith[status]

\* Fault: the reservation is appended without a look at its subjects.
Reservable_Unchecked == TRUE

\* compare_cursors_and_append: a reservation that exists is returned without a
\* look at its subjects.
Reservable == reservation \/ ~revoked

-----------------------------------------------------------------------------
(* The steps of a confirmation.                                             *)

CallAt(c, step) == call[c].at = step

Return(c) == call' = [call EXCEPT ![c] = NoCall]

Proceed(c, step) ==
  IF step = "idle" THEN Return(c) ELSE call' = [call EXCEPT ![c].at = step]

\* The call goes on from the receipt in place n.
ProceedFrom(c, step, n) == call' = [call EXCEPT ![c].at = step, ![c].prior = n]

DispatchInit ==
  /\ receipts = <<>> /\ reservation = FALSE /\ attempt = "none"
  /\ revoked = FALSE /\ expired = FALSE /\ lapsed = FALSE
  /\ executor = "none" /\ processes = <<>>
  /\ call = [c \in Confirmations |-> NoCall]
  /\ confirms = 0 /\ restarts = 0

\* The authorization that exists is reused while it may still be started; in
\* any other status the confirmation is refused at once.
ConfirmOption(c) ==
  /\ CallAt(c, "idle")
  /\ confirms < MaxConfirms
  /\ confirms' = confirms + 1
  /\ \/ Status = "none" /\ Proceed(c, "issue")
     \/ Status = "issued" /\ Proceed(c, "reissue")
     \/ Status \in {"dispatch_reserved", "running"} /\ Proceed(c, "reserve")
  /\ UNCHANGED <<journals, validity, executor, processes, restarts>>

\* A new authorization carries the time it was made at: whoever comes second
\* brings another payload under the same key.
Issue(c) ==
  /\ CallAt(c, "issue")
  /\ IF receipts = <<>>
     THEN receipts' = <<"issued">> /\ Proceed(c, "reserve")
     ELSE UNCHANGED receipts /\ Return(c)
  /\ UNCHANGED <<reservation, attempt, validity, executor, processes, bounds>>

Reissue(c) ==
  /\ CallAt(c, "reissue")
  /\ IF expired THEN Return(c) ELSE Proceed(c, "reserve")
  /\ UNCHANGED <<journals, validity, executor, processes, bounds>>

BeginReserve(c) ==
  /\ CallAt(c, "reserve")
  /\ \/ Status = "dispatch_reserved" /\ Proceed(c, "create")
     \/ Status = "issued" /\ Proceed(c, "claim")
     \/ Status \notin {"dispatch_reserved", "issued"} /\ Return(c)
  /\ UNCHANGED <<journals, validity, executor, processes, bounds>>

\* The statuses whose record can be rewritten as claimed: claim asks only for
\* claimed, rejected and invalidated, and the record refuses a reason.
Claimable == {"issued", "dispatch_reserved", "running", "consumed"}

ClaimReceipt(c) ==
  /\ CallAt(c, "claim")
  /\ \/ /\ Status = "claimed"
        /\ ProceedFrom(c, "append", Len(receipts))
        /\ UNCHANGED <<receipts, lapsed>>
     \/ /\ Status = "issued" /\ expired
        /\ receipts' = Append(receipts, "rejected")
        /\ Return(c)
        /\ UNCHANGED lapsed
     \/ /\ Status \in Claimable /\ ~expired
        /\ receipts' = Append(receipts, "claimed")
        /\ lapsed' = FALSE
        /\ ProceedFrom(c, "append", Len(receipts) + 1)
     \/ /\ Status \notin Claimable \cup {"claimed"} \/ (expired /\ Status \notin {"issued", "claimed"})
        /\ Return(c)
        /\ UNCHANGED <<receipts, lapsed>>
  /\ UNCHANGED <<reservation, attempt, revoked, expired, executor, processes, bounds>>

AppendReservation(c) ==
  /\ CallAt(c, "append")
  /\ IF Reservable
     THEN reservation' = TRUE /\ Proceed(c, "book")
     ELSE UNCHANGED reservation /\ Proceed(c, "invalidate")
  /\ UNCHANGED <<receipts, attempt, validity, executor, processes, bounds>>

Invalidate(c) ==
  /\ CallAt(c, "invalidate")
  /\ receipts' = After(call[c].prior, "invalidated")
  /\ Return(c)
  /\ UNCHANGED <<reservation, attempt, validity, executor, processes, bounds>>

\* A transition of the receipt, and the steps after it and after its refusal.
RecordReceipt(c, step, to, next, refused) ==
  /\ CallAt(c, step)
  /\ receipts' = After(call[c].prior, to)
  /\ IF Accepted(call[c].prior, to) THEN Proceed(c, next) ELSE Proceed(c, refused)
  /\ UNCHANGED <<reservation, attempt, validity, executor, processes, bounds>>

Book(c) == RecordReceipt(c, "book", "dispatch_reserved", "create", "idle")

\* The supervisor returns the attempt that exists.
CreateAttempt(c) ==
  /\ CallAt(c, "create")
  /\ attempt' = IF attempt = "none" THEN "reserved" ELSE attempt
  /\ Proceed(c, "bind")
  /\ UNCHANGED <<receipts, reservation, validity, executor, processes, bounds>>

BindReceipt(c) ==
  /\ CallAt(c, "bind")
  /\ IF Joins("dispatch_reserved")
     THEN ProceedFrom(c, "spawn", Len(receipts))
     ELSE Return(c)
  /\ UNCHANGED <<journals, validity, executor, processes, bounds>>

\* Fault: an executor that does not remember that it is starting a process.
Busy_Forgotten == Reports

\* The memories of the executor in which spawn raises.
Busy == {"spawning"} \cup Reports

\* The process that runs already is returned.
Spawn(c) ==
  /\ CallAt(c, "spawn")
  /\ \/ executor \in Busy /\ Proceed(c, "mark") /\ UNCHANGED executor
     \/ executor \in {"active", "collecting"} /\ Proceed(c, "acknowledge") /\ UNCHANGED executor
     \/ /\ executor \notin Busy \cup {"active", "collecting"}
        /\ executor' = "spawning"
        /\ Proceed(c, "popen")
  /\ UNCHANGED <<journals, validity, processes, bounds>>

StartProcess(c) ==
  /\ CallAt(c, "popen")
  /\ processes' = Append(processes, "alive")
  /\ executor' = "active"
  /\ Proceed(c, "acknowledge")
  /\ UNCHANGED <<journals, validity, bounds>>

\* Its output files are opened before the try that clears the executor's mark.
StartFails(c) ==
  /\ CallAt(c, "popen")
  /\ executor' \in {"none", "spawning"}
  /\ Proceed(c, "mark")
  /\ UNCHANGED <<journals, validity, processes, bounds>>

Acknowledge(c) ==
  /\ CallAt(c, "acknowledge")
  /\ Proceed(c, IF Joins("dispatch_reserved") THEN "request" ELSE "terminate")
  /\ UNCHANGED <<journals, validity, executor, processes, bounds>>

\* A transition of the attempt; the one that was recorded last is replayed.
RecordAttempt(c, step, to, next, refused) ==
  /\ CallAt(c, step)
  /\ IF to \in AttemptMoves[attempt] \cup {attempt}
     THEN attempt' = to /\ Proceed(c, next)
     ELSE UNCHANGED attempt /\ Proceed(c, refused)
  /\ UNCHANGED <<receipts, reservation, validity, executor, processes, bounds>>

RequestSpawn(c) == RecordAttempt(c, "request", "spawn_requested", "acked", "terminate")
AcknowledgeSpawn(c) == RecordAttempt(c, "acked", "spawn_acknowledged", "run", "terminate")
RunAttempt(c) == RecordAttempt(c, "run", "running", "read", "terminate")

\* Only a reserved receipt is taken further; any other is left as it is.
ReadReceipt(c) ==
  /\ CallAt(c, "read")
  /\ Proceed(c, IF Status = "dispatch_reserved" THEN "promote" ELSE "dispatch")
  /\ UNCHANGED <<journals, validity, executor, processes, bounds>>

Promote(c) == RecordReceipt(c, "promote", "running", "dispatch", "terminate")

-----------------------------------------------------------------------------
(* What is done when the outcome is not known.                              *)

Killed == [i \in DOMAIN processes |->
             IF i = Len(processes) /\ processes[i] = "alive" THEN "bad" ELSE processes[i]]

Terminate(c) ==
  /\ CallAt(c, "terminate")
  /\ IF executor \in {"active", "collecting"}
     THEN executor' = "bad" /\ processes' = Killed
     ELSE UNCHANGED <<executor, processes>>
  /\ Proceed(c, "mark")
  /\ UNCHANGED <<journals, validity, bounds>>

\* The attempt first, the receipt after it.  The mark of an attempt that is
\* marked is replayed when it gives the same reason, and refused otherwise.
MarkAttempt(c) ==
  /\ CallAt(c, "mark")
  /\ \/ /\ "dispatch_unknown" \in AttemptMoves[attempt] \cup {attempt}
        /\ attempt' = "dispatch_unknown"
        /\ Proceed(c, "markReceipt")
     \/ /\ "dispatch_unknown" \notin AttemptMoves[attempt]
        /\ Return(c)
        /\ UNCHANGED attempt
  /\ UNCHANGED <<receipts, reservation, validity, executor, processes, bounds>>

MarkReceipt(c) ==
  /\ CallAt(c, "markReceipt")
  /\ receipts' = After(call[c].prior, "dispatch_unknown")
  /\ Return(c)
  /\ UNCHANGED <<reservation, attempt, validity, executor, processes, bounds>>

Isolate(c) ==
  /\ CallAt(c, "isolate")
  /\ IF Joins("running") /\ attempt \in {"spawn_acknowledged", "running"}
     THEN ProceedFrom(c, "mark", Len(receipts))
     ELSE Return(c)
  /\ UNCHANGED <<journals, validity, executor, processes, bounds>>

-----------------------------------------------------------------------------
(* A process that was acknowledged: its result, and the end of the attempt. *)

\* Fault: the report's word is taken for the attempt's status.
Verdict_Raw(report) == report

\* Fault: the artifacts are not asked whether they keep their contract.
Verdict_Unvalidated(report) == "consumed"

\* What the artifacts of a completed process make of the attempt.
Verdict(report) == IF report = "valid" THEN "consumed" ELSE "failed"

\* Anything but a completed report is given up.
Deliver(c, report) ==
  IF report = "bad"
  THEN Proceed(c, "isolate")
  ELSE call' = [call EXCEPT ![c].at = "result", ![c].verdict = Verdict(report)]

\* The host can have become unfit, and another call may be collecting.
Dispatch(c) ==
  /\ CallAt(c, "dispatch")
  /\ \/ executor = "active" /\ executor' = "collecting" /\ Proceed(c, "collect")
     \/ executor \in Reports /\ Deliver(c, executor) /\ UNCHANGED executor
     \/ Proceed(c, "isolate") /\ UNCHANGED executor
  /\ UNCHANGED <<journals, validity, processes, bounds>>

Collect(c) ==
  /\ CallAt(c, "collect")
  /\ LET report == processes[Len(processes)] IN
     /\ report # "alive"
     /\ executor' = report
     /\ Deliver(c, report)
  /\ UNCHANGED <<journals, validity, processes, bounds>>

\* The result is taken over and its artifacts are validated for the attempt
\* as it is now; either may raise.
Complete(c) ==
  /\ CallAt(c, "result")
  /\ call' = [call EXCEPT ![c].at = "reconcile", ![c].seen = attempt]
  /\ UNCHANGED <<journals, validity, executor, processes, bounds>>

CompleteRaises(c) ==
  /\ CallAt(c, "result")
  /\ Proceed(c, "isolate")
  /\ UNCHANGED <<journals, validity, executor, processes, bounds>>

\* How far the attempt still has to go for the verdict.
NextClosing(verdict) ==
  IF attempt \in {"spawn_acknowledged", "running"}
  THEN IF verdict = "failed" THEN "fail" ELSE "end"
  ELSE IF verdict = "consumed" /\ attempt = "terminated" THEN "consume"
  ELSE "close"

Reconcile(c) ==
  /\ CallAt(c, "reconcile")
  /\ IF Joins("running") /\ attempt = call[c].seen
     THEN ProceedFrom(c, NextClosing(call[c].verdict), Len(receipts))
     ELSE Proceed(c, "isolate")
  /\ UNCHANGED <<journals, validity, executor, processes, bounds>>

FailAttempt(c) == RecordAttempt(c, "fail", "failed", "close", "isolate")
EndAttempt(c) == RecordAttempt(c, "end", "terminated", "consume", "isolate")
ConsumeAttempt(c) == RecordAttempt(c, "consume", "consumed", "close", "isolate")

CloseReceipt(c) == RecordReceipt(c, "close", call[c].verdict, "idle", "isolate")

-----------------------------------------------------------------------------
(* The surroundings.                                                        *)

ProcessEnds(report) ==
  /\ \E i \in DOMAIN processes :
       /\ processes[i] = "alive"
       /\ processes' = [processes EXCEPT ![i] = report]
  /\ UNCHANGED <<journals, validity, executor, call, bounds>>

Revoke ==
  /\ ~revoked /\ revoked' = TRUE
  /\ UNCHANGED <<journals, expired, lapsed, executor, processes, call, bounds>>

AuthorizationExpires ==
  /\ receipts # <<>> /\ ~expired /\ expired' = TRUE
  /\ UNCHANGED <<journals, revoked, lapsed, executor, processes, call, bounds>>

LeaseExpires ==
  /\ "claimed" \in {receipts[i] : i \in DOMAIN receipts}
  /\ ~lapsed /\ lapsed' = TRUE
  /\ UNCHANGED <<journals, revoked, expired, executor, processes, call, bounds>>

\* The server dies and starts again: its calls and the executor's memory are
\* lost, the journals and the processes stay.
Restart ==
  /\ restarts < MaxRestarts
  /\ restarts' = restarts + 1
  /\ call' = [c \in Confirmations |-> NoCall]
  /\ executor' = "none"
  /\ UNCHANGED <<journals, validity, processes, confirms>>

CallStep(c) ==
  \/ Issue(c) \/ Reissue(c) \/ BeginReserve(c) \/ ClaimReceipt(c)
  \/ AppendReservation(c) \/ Invalidate(c) \/ Book(c) \/ CreateAttempt(c)
  \/ BindReceipt(c) \/ Spawn(c) \/ StartProcess(c) \/ StartFails(c)
  \/ Acknowledge(c) \/ RequestSpawn(c) \/ AcknowledgeSpawn(c) \/ RunAttempt(c)
  \/ ReadReceipt(c) \/ Promote(c) \/ Terminate(c) \/ MarkAttempt(c) \/ MarkReceipt(c)
  \/ Isolate(c) \/ Dispatch(c) \/ Collect(c) \/ Complete(c) \/ CompleteRaises(c)
  \/ Reconcile(c) \/ FailAttempt(c) \/ EndAttempt(c) \/ ConsumeAttempt(c) \/ CloseReceipt(c)

DispatchNext ==
  \/ \E c \in Confirmations : ConfirmOption(c) \/ CallStep(c)
  \/ \E report \in Reports : ProcessEnds(report)
  \/ Revoke \/ AuthorizationExpires \/ LeaseExpires \/ Restart

DispatchSpec == DispatchInit /\ [][DispatchNext]_dispatchVars

-----------------------------------------------------------------------------
DispatchTypeOK ==
  /\ receipts \in Seq(ReceiptStatuses)
  /\ reservation \in BOOLEAN
  /\ attempt \in AttemptStatuses
  /\ revoked \in BOOLEAN /\ expired \in BOOLEAN /\ lapsed \in BOOLEAN
  /\ executor \in ExecutorStates
  /\ processes \in Seq({"alive"} \cup Reports)
  /\ call \in [Confirmations -> CallStates]
  /\ confirms \in Nat /\ restarts \in Nat

\* The executor starts at most one process for an attempt as long as the server
\* lives, whatever confirmations overlap: each restart can add one more, since
\* the start is recorded only after the process exists.
OneStartPerLife == Len(processes) <= 1 + restarts

\* Revocation and dispatch are ordered by the control stream: once a subject is
\* revoked and no reservation was made, none is ever made and nothing starts.
RevocationWins ==
  [][(revoked /\ ~reservation) => (~reservation' /\ processes' = processes)]_dispatchVars

\* An authorization is consumed only by a process of the attempt whose artifacts
\* keep their contract, and failed only by one whose artifacts break it.
ClosedByResult ==
  /\ Recorded("consumed") # {} => "valid" \in {processes[i] : i \in DOMAIN processes}
  /\ Recorded("failed") # {} => "invalid" \in {processes[i] : i \in DOMAIN processes}

\* The two journals cannot be written together; the order of the writes keeps
\* them in step after a crash at any point and under overlapping confirmations.
JournalsAgree ==
  /\ Status \in {"none", "issued", "rejected", "invalidated"} => attempt = "none" /\ ~reservation
  /\ Status = "dispatch_reserved" =>
       reservation /\ attempt \notin {"terminated", "failed", "consumed"}
  /\ Status = "running" => attempt \in {"running", "terminated", "failed", "consumed", "dispatch_unknown"}
  /\ Status = "dispatch_unknown" => attempt = "dispatch_unknown"
  /\ Status = "failed" => attempt \in {"failed", "dispatch_unknown"}
  /\ Status = "consumed" => attempt \in {"consumed", "dispatch_unknown"}

Closed == {"rejected", "invalidated", "dispatch_unknown", "failed", "consumed"}

\* The authorization's closed statuses are final: consumed has no way out in
\* the table of transitions, and a closed authorization is not executed again.
ClosedStaysClosed == [][(Status \in Closed) => (receipts' = receipts)]_dispatchVars

=============================================================================
