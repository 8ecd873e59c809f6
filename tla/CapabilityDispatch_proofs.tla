----------------------- MODULE CapabilityDispatch_proofs -----------------------
(***************************************************************************)
(* Proofs about CapabilityDispatch, for any number of overlapping           *)
(* confirmations, any number of restarts, and whatever is revoked or        *)
(* expires when.  DispatchInv is the inductive invariant; its parts:        *)
(*                                                                          *)
(*   Started    one call at a time starts the process, and one collects it; *)
(*   Reserved   nothing is dispatched without a reservation;                *)
(*   Origins    which record each step of a call goes on from;              *)
(*   Receipts   what a record of the authorization can follow;              *)
(*   Attempted  how far the attempt is, by the records and by the calls;    *)
(*   Judged     the calls of one life of the server have one verdict, that  *)
(*              of its process.                                             *)
(***************************************************************************)
EXTENDS CapabilityDispatch, TLAPS

Started ==
  /\ \A c \in Confirmations : call[c].at = "popen" => executor = "spawning"
  /\ \A c, d \in Confirmations : call[c].at = "popen" /\ call[d].at = "popen" => c = d
  /\ \A c \in Confirmations : call[c].at = "collect" => executor \in {"collecting", "bad"}
  /\ \A c, d \in Confirmations : call[c].at = "collect" /\ call[d].at = "collect" => c = d
  /\ executor \in {"none", "spawning"} => Len(processes) <= restarts
  /\ executor \notin {"none", "spawning"} => Len(processes) > 0
  /\ Len(processes) <= 1 + restarts

Has(status) == \E i \in DOMAIN receipts : receipts[i] = status

\* The steps after the reservation was appended.
Reserving == {"idle", "issue", "reissue", "reserve", "claim", "append", "invalidate"}

Dispatched == {"dispatch_reserved", "running", "dispatch_unknown", "failed", "consumed"}

Reserved ==
  /\ \A c \in Confirmations : call[c].at \notin Reserving => reservation
  /\ \A c \in Confirmations : call[c].at = "invalidate" => revoked /\ ~reservation
  /\ \A i \in DOMAIN receipts : receipts[i] \in Dispatched => reservation
  /\ processes # <<>> \/ attempt # "none" => reservation
  /\ reservation => Has("claimed")

Starting == {"spawn", "popen", "acknowledge", "request", "acked", "run", "read", "promote", "terminate"}
Closing == {"fail", "end", "consume", "close"}

\* The record that a call goes on from, at its steps that need one.
GoesOnFrom(c, steps, statuses) ==
  call[c].at \in steps => call[c].prior \in DOMAIN receipts /\ receipts[call[c].prior] \in statuses

Origin(c) ==
  /\ GoesOnFrom(c, {"append", "invalidate", "book"}, {"claimed"})
  /\ GoesOnFrom(c, Starting, {"dispatch_reserved"})
  /\ GoesOnFrom(c, {"mark", "markReceipt"}, {"dispatch_reserved", "running"})
  /\ GoesOnFrom(c, Closing, {"running"})

Origins == \A c \in Confirmations : Origin(c)

Receipts ==
  /\ \A i, j \in DOMAIN receipts :
       receipts[i] = "dispatch_reserved" /\ receipts[j] = "dispatch_reserved" => i = j
  /\ \A i \in DOMAIN receipts :
       receipts[i] = "running" => i > 1 /\ receipts[i - 1] = "dispatch_reserved"
  /\ \A i \in DOMAIN receipts : receipts[i] = "issued" => i = 1
  /\ \A i \in DOMAIN receipts : receipts[i] \in {"rejected", "invalidated"} => i = Len(receipts)
  /\ Has("rejected") => ~Has("claimed")
  /\ Has("invalidated") => revoked /\ ~reservation

\* The attempt once its process was acknowledged as running.
Ran == {"running", "terminated", "failed", "dispatch_unknown", "consumed"}

Attempted ==
  /\ \A c \in Confirmations :
       /\ call[c].at \in {"read", "promote"} => attempt \in Ran
       /\ call[c].at = "markReceipt" => attempt = "dispatch_unknown"
       /\ call[c].at = "close" => attempt \in {call[c].verdict, "dispatch_unknown"}
  /\ Has("running") => attempt \in Ran
  /\ attempt \in {"terminated", "failed", "consumed"} => Has("running")
  /\ Has("dispatch_unknown") => attempt = "dispatch_unknown"
  /\ Has("failed") => attempt \in {"failed", "dispatch_unknown"}
  /\ Has("consumed") => attempt \in {"consumed", "dispatch_unknown"}

Judging == {"result", "reconcile"} \cup Closing

\* The steps of a call that saw the attempt running in this life of the server.
Following == {"read", "promote", "dispatch", "collect"} \cup Judging

Ended(report) == \E i \in DOMAIN processes : processes[i] = report

Judged ==
  /\ \A c \in Confirmations :
       /\ call[c].at \in Judging =>
            \/ call[c].verdict = "consumed" /\ executor = "valid"
            \/ call[c].verdict = "failed" /\ executor = "invalid"
       /\ call[c].at \in {"end", "consume"} => call[c].verdict = "consumed"
       /\ call[c].at = "fail" => call[c].verdict = "failed"
       /\ call[c].at \in Following /\ attempt \in {"terminated", "consumed"} => executor = "valid"
       /\ call[c].at \in Following /\ attempt = "failed" => executor = "invalid"
  /\ executor = "valid" \/ Has("consumed") => Ended("valid")
  /\ executor = "invalid" \/ Has("failed") => Ended("invalid")

DispatchInv ==
  /\ DispatchTypeOK /\ Started /\ Reserved /\ Origins /\ Receipts /\ Attempted /\ Judged

-----------------------------------------------------------------------------
(* What the steps of a call do to it, and that they leave the others alone.  *)

Others(c) == \A d \in Confirmations \ {c} : call'[d] = call[d]

\* A verdict is one of two.
LEMMA Verdicts ==
  ASSUME DispatchTypeOK
  PROVE  \A c \in Confirmations : call[c].verdict \in {"consumed", "failed"}
BY DEF DispatchTypeOK, CallStates

\* A call that returned is idle.
LEMMA Returning ==
  ASSUME DispatchTypeOK, NEW c \in Confirmations, Return(c)
  PROVE  call'[c].at = "idle" /\ Others(c)
BY DEF DispatchTypeOK, Return, Others, NoCall

\* A call that proceeds keeps all but its step.
LEMMA Proceeding ==
  ASSUME DispatchTypeOK, NEW c \in Confirmations, NEW step, Proceed(c, step)
  PROVE  /\ call'[c].at = step /\ Others(c)
         /\ step # "idle" =>
              call'[c].prior = call[c].prior /\ call'[c].verdict = call[c].verdict
<1>1. CASE step = "idle"
  BY <1>1, Returning DEF Proceed
<1>2. CASE step # "idle"
  <2>1. call[c] \in CallStates
    BY DEF DispatchTypeOK
  <2>2. call' = [call EXCEPT ![c] = [call[c] EXCEPT !.at = step]]
    BY <1>2 DEF Proceed, DispatchTypeOK
  <2>3. call'[c] = [call[c] EXCEPT !.at = step] /\ Others(c)
    BY <2>2 DEF DispatchTypeOK, Others
  <2> QED
    BY <2>1, <2>3 DEF CallStates
<1> QED
  BY <1>1, <1>2

\* A call that goes on from a receipt keeps its verdict.
LEMMA ProceedingFrom ==
  ASSUME DispatchTypeOK, NEW c \in Confirmations, NEW step, NEW n, ProceedFrom(c, step, n)
  PROVE  /\ call'[c].at = step /\ Others(c)
         /\ call'[c].prior = n /\ call'[c].verdict = call[c].verdict
<1>1. call[c] \in CallStates
  BY DEF DispatchTypeOK
<1>2. call' = [call EXCEPT ![c] = [call[c] EXCEPT !.at = step, !.prior = n]]
  BY DEF ProceedFrom, DispatchTypeOK
<1>3. call'[c] = [call[c] EXCEPT !.at = step, !.prior = n] /\ Others(c)
  BY <1>2 DEF DispatchTypeOK, Others
<1> QED
  BY <1>1, <1>3 DEF CallStates

\* A call whose result was taken over is to be reconciled with the same verdict.
LEMMA Completing ==
  ASSUME DispatchTypeOK, NEW c \in Confirmations, Complete(c)
  PROVE  call'[c].at = "reconcile" /\ Others(c) /\ call'[c].verdict = call[c].verdict
<1>1. call[c] \in CallStates
  BY DEF DispatchTypeOK
<1>2. call' = [call EXCEPT ![c] = [call[c] EXCEPT !.at = "reconcile", !.seen = attempt]]
  BY DEF Complete, DispatchTypeOK
<1>3. call'[c] = [call[c] EXCEPT !.at = "reconcile", !.seen = attempt] /\ Others(c)
  BY <1>2 DEF DispatchTypeOK, Others
<1> QED
  BY <1>1, <1>3 DEF CallStates

\* A report is given up, or judged by its artifacts.
LEMMA Delivering ==
  ASSUME DispatchTypeOK, NEW c \in Confirmations, NEW report \in Reports, Deliver(c, report)
  PROVE  /\ Others(c)
         /\ \/ report = "bad" /\ call'[c].at = "isolate"
            \/ report = "valid" /\ call'[c].at = "result" /\ call'[c].verdict = "consumed"
            \/ report = "invalid" /\ call'[c].at = "result" /\ call'[c].verdict = "failed"
<1>1. CASE report = "bad"
  BY <1>1, Proceeding DEF Deliver
<1>2. CASE report # "bad"
  <2>1. call[c] \in CallStates
    BY DEF DispatchTypeOK
  <2>2. call' = [call EXCEPT ![c] = [call[c] EXCEPT !.at = "result", !.verdict = Verdict(report)]]
    BY <1>2 DEF Deliver, DispatchTypeOK
  <2>3. call'[c] = [call[c] EXCEPT !.at = "result", !.verdict = Verdict(report)] /\ Others(c)
    BY <2>2 DEF DispatchTypeOK, Others
  <2> QED
    BY <1>2, <2>1, <2>3 DEF CallStates, Verdict, Reports
<1> QED
  BY <1>1, <1>2

-----------------------------------------------------------------------------
(* What a record does to the authorization's journal.                       *)

\* The journal is longer by one record.
Extended(to) ==
  /\ DOMAIN receipts = 1 .. Len(receipts) /\ Len(receipts) \in Nat
  /\ Len(receipts') = Len(receipts) + 1 /\ DOMAIN receipts' = 1 .. Len(receipts')
  /\ \A i \in 1 .. Len(receipts) : receipts'[i] = receipts[i]
  /\ receipts'[Len(receipts')] = to

\* An appended record is the last one, and the others are where they were.
LEMMA Extending ==
  ASSUME DispatchTypeOK, NEW to, receipts' = Append(receipts, to)
  PROVE  Extended(to)
BY DEF DispatchTypeOK, Extended

\* The journal has a status more, and those that it had.
LEMMA Having ==
  ASSUME NEW to, NEW status, receipts' = receipts \/ Extended(to), status # to
  PROVE  Has(status)' <=> Has(status)
BY DEF Extended, Has

\* A transition is refused, replayed or recorded.
LEMMA Recording ==
  ASSUME DispatchTypeOK, NEW c \in Confirmations, NEW step, NEW to, NEW next, NEW refused,
         RecordReceipt(c, step, to, next, refused)
  PROVE  /\ \/ receipts' = receipts /\ call'[c].at = refused
            \/ /\ receipts' = receipts /\ call'[c].at = next
               /\ call[c].prior + 1 \in DOMAIN receipts /\ receipts[call[c].prior + 1] = to
            \/ /\ Extended(to) /\ ~Has(to) /\ call[c].prior = Len(receipts)
               /\ call'[c].at = next
         /\ call'[c].at # "idle" =>
              call'[c].prior = call[c].prior /\ call'[c].verdict = call[c].verdict
         /\ call[c].at = step /\ Others(c)
         /\ UNCHANGED <<reservation, attempt, validity, executor, processes, bounds>>
<1>1. CASE Replays(call[c].prior, to)
  <2>1. ~Moves(call[c].prior, to)
    BY <1>1 DEF Replays, Moves
  <2>2. Proceed(c, next) /\ receipts' = receipts
    BY <1>1, <2>1 DEF RecordReceipt, Accepted, After
  <2> QED
    BY <1>1, <2>2, Proceeding DEF RecordReceipt, CallAt, Replays, Recorded
<1>2. CASE Moves(call[c].prior, to)
  <2>1. Proceed(c, next) /\ receipts' = Append(receipts, to)
    BY <1>2 DEF RecordReceipt, Accepted, After
  <2>2. ~Has(to) /\ call[c].prior = Len(receipts)
    BY <1>2 DEF Moves, Recorded, Has
  <2> QED
    BY <2>1, <2>2, Proceeding, Extending DEF RecordReceipt, CallAt
<1>3. CASE ~Replays(call[c].prior, to) /\ ~Moves(call[c].prior, to)
  <2>1. Proceed(c, refused) /\ receipts' = receipts
    BY <1>3 DEF RecordReceipt, Accepted, After
  <2> QED
    BY <2>1, Proceeding DEF RecordReceipt, CallAt
<1> QED
  BY <1>1, <1>2, <1>3

\* The last record of a call, whether it is recorded or not.
LEMMA LastRecord ==
  ASSUME DispatchTypeOK, NEW prior, NEW to, receipts' = After(prior, to)
  PROVE  receipts' = receipts \/ (Extended(to) /\ ~Has(to) /\ prior = Len(receipts))
<1>1. CASE Moves(prior, to)
  BY <1>1, Extending DEF After, Moves, Recorded, Has
<1>2. CASE ~Moves(prior, to)
  BY <1>2 DEF After
<1> QED
  BY <1>1, <1>2

\* A claim that holds is found, or made; one that cannot be is refused.
LEMMA Claiming ==
  ASSUME DispatchTypeOK, NEW c \in Confirmations, ClaimReceipt(c)
  PROVE  /\ \/ /\ receipts' = receipts /\ call'[c].at = "append"
               /\ call'[c].prior \in DOMAIN receipts /\ receipts[call'[c].prior] = "claimed"
            \/ /\ Extended("claimed") /\ Len(receipts) > 0 /\ receipts[Len(receipts)] \in Claimable
               /\ call'[c].at = "append" /\ call'[c].prior = Len(receipts')
            \/ /\ Extended("rejected") /\ receipts[Len(receipts)] = "issued"
               /\ Len(receipts) > 0 /\ call'[c].at = "idle"
            \/ receipts' = receipts /\ call'[c].at = "idle"
         /\ call[c].at = "claim" /\ Others(c)
         /\ UNCHANGED <<reservation, attempt, revoked, expired, executor, processes, bounds>>
<1>0. receipts \in Seq(ReceiptStatuses)
  BY DEF DispatchTypeOK
<1>a. Status # "none" => Len(receipts) > 0 /\ Status = receipts[Len(receipts)] /\ Has(Status)
  BY <1>0 DEF Status, Has
<1>1. CASE Status = "claimed" /\ ProceedFrom(c, "append", Len(receipts)) /\ receipts' = receipts
  BY <1>0, <1>1, <1>a, ProceedingFrom DEF ClaimReceipt, CallAt
<1>2. CASE Status = "issued" /\ receipts' = Append(receipts, "rejected") /\ Return(c)
  BY <1>2, <1>a, Returning, Extending DEF ClaimReceipt, CallAt
<1>3. CASE /\ Status \in Claimable /\ receipts' = Append(receipts, "claimed")
           /\ ProceedFrom(c, "append", Len(receipts) + 1)
  BY <1>3, <1>a, ProceedingFrom, Extending DEF ClaimReceipt, CallAt, Claimable, Extended
<1>4. CASE receipts' = receipts /\ Return(c)
  BY <1>4, Returning DEF ClaimReceipt, CallAt
<1> QED
  BY <1>1, <1>2, <1>3, <1>4 DEF ClaimReceipt

\* A process whose end is awaited has ended when it is collected.
LEMMA Collecting ==
  ASSUME DispatchTypeOK, Started, NEW c \in Confirmations, Collect(c)
  PROVE  /\ executor' \in Reports /\ Ended(executor')
         /\ \/ executor' = "bad" /\ call'[c].at = "isolate"
            \/ executor' = "valid" /\ call'[c].at = "result" /\ call'[c].verdict = "consumed"
            \/ executor' = "invalid" /\ call'[c].at = "result" /\ call'[c].verdict = "failed"
         /\ call[c].at = "collect" /\ Others(c)
         /\ UNCHANGED <<journals, validity, processes, bounds>>
<1> DEFINE report == processes[Len(processes)]
<1>1. Len(processes) \in DOMAIN processes /\ report \in {"alive"} \cup Reports
  <2>1. Len(processes) > 0 /\ processes \in Seq({"alive"} \cup Reports)
    BY DEF Collect, CallAt, Started, DispatchTypeOK
  <2> QED
    BY <2>1
<1>2. report \in Reports /\ executor' = report /\ Deliver(c, report)
  BY <1>1 DEF Collect
<1> HIDE DEF report
<1>3. Ended(report)
  BY <1>1 DEF Ended, report
<1> QED
  BY <1>2, <1>3, Delivering DEF Collect, CallAt

\* Where the moves of the attempt come from.
LEMMA MovesFrom ==
  ASSUME NEW status \in AttemptStatuses
  PROVE  /\ "spawn_requested" \in AttemptMoves[status] => status = "reserved"
         /\ "spawn_acknowledged" \in AttemptMoves[status] => status = "spawn_requested"
         /\ "running" \in AttemptMoves[status] => status = "spawn_acknowledged"
         /\ "terminated" \in AttemptMoves[status] => status = "running"
         /\ "consumed" \in AttemptMoves[status] => status = "terminated"
         /\ "dispatch_unknown" \in AttemptMoves[status] =>
              status \in {"reserved", "spawn_requested", "spawn_acknowledged", "running"}
         /\ "failed" \in AttemptMoves[status] =>
              status \in {"reserved", "spawn_requested", "spawn_acknowledged", "running", "terminated"}
BY DEF AttemptStatuses, AttemptMoves

\* A transition of the attempt is refused, replayed or recorded.
LEMMA Moving ==
  ASSUME DispatchTypeOK, NEW c \in Confirmations, NEW step, NEW to, NEW next, NEW refused,
         RecordAttempt(c, step, to, next, refused)
  PROVE  /\ \/ attempt' = to /\ to \in AttemptMoves[attempt] \cup {attempt} /\ call'[c].at = next
            \/ attempt' = attempt /\ call'[c].at = refused
         /\ call'[c].at # "idle" =>
              call'[c].prior = call[c].prior /\ call'[c].verdict = call[c].verdict
         /\ call[c].at = step /\ Others(c)
         /\ UNCHANGED <<receipts, reservation, validity, executor, processes, bounds>>
BY Proceeding DEF RecordAttempt, CallAt


\* What the records that are appended keep of the order of the journal.
LEMMA ReceiptsExtended ==
  ASSUME Receipts, NEW to, Extended(to), UNCHANGED <<reservation, revoked>>,
         Len(receipts) > 0, receipts[Len(receipts)] \notin {"rejected", "invalidated"},
         to # "issued",
         to = "dispatch_reserved" => ~Has("dispatch_reserved"),
         to = "running" => receipts[Len(receipts)] = "dispatch_reserved",
         to = "rejected" => ~Has("claimed"),
         to = "claimed" => ~Has("rejected"),
         to = "invalidated" => revoked /\ ~reservation
  PROVE  Receipts'
<1> USE DEF Has
<1>1. /\ \A i \in DOMAIN receipts' :
           \/ i \in DOMAIN receipts /\ receipts'[i] = receipts[i]
           \/ i = Len(receipts) + 1 /\ receipts'[i] = to
      /\ \A i \in DOMAIN receipts : i \in DOMAIN receipts' /\ receipts'[i] = receipts[i]
      /\ DOMAIN receipts = 1 .. Len(receipts) /\ Len(receipts) \in Nat
      /\ Len(receipts') = Len(receipts) + 1
  BY DEF Extended
<1>2. \A i, j \in DOMAIN receipts' :
        receipts'[i] = "dispatch_reserved" /\ receipts'[j] = "dispatch_reserved" => i = j
  BY <1>1 DEF Receipts
<1>3. \A i \in DOMAIN receipts' :
        receipts'[i] = "running" => i > 1 /\ receipts'[i - 1] = "dispatch_reserved"
  BY <1>1 DEF Receipts
<1>4. \A i \in DOMAIN receipts' : receipts'[i] = "issued" => i = 1
  BY <1>1 DEF Receipts
<1>5. \A i \in DOMAIN receipts' : receipts'[i] \in {"rejected", "invalidated"} => i = Len(receipts')
  BY <1>1 DEF Receipts
<1>6. (Has("rejected") => ~Has("claimed"))'
  BY <1>1 DEF Receipts
<1>7. (Has("invalidated") => revoked /\ ~reservation)'
  BY <1>1 DEF Receipts
<1> QED
  BY <1>2, <1>3, <1>4, <1>5, <1>6, <1>7 DEF Receipts

\* A record takes nothing from the calls that go on from an earlier one.
LEMMA OriginsExtended ==
  ASSUME Origins, NEW c \in Confirmations, Others(c), Origin(c)',
         NEW to, receipts' = receipts \/ Extended(to)
  PROVE  Origins'
<1>1. \A i \in DOMAIN receipts : i \in DOMAIN receipts' /\ receipts'[i] = receipts[i]
  BY DEF Extended
<1>2. ASSUME NEW d \in Confirmations, d # c PROVE Origin(d)'
  <2>1. call'[d] = call[d] /\ Origin(d)
    BY <1>2 DEF Others, Origins
  <2> QED
    BY <1>1, <2>1 DEF Origin, GoesOnFrom
<1> QED
  BY <1>2 DEF Origins

-----------------------------------------------------------------------------
(* Types.                                                                   *)

Calls == [Confirmations -> CallStates]

\* A call that returns, or proceeds to a step there is, stays a call.
LEMMA ReturnTyped ==
  ASSUME DispatchTypeOK, NEW c \in Confirmations, Return(c)
  PROVE  call' \in Calls
<1>1. NoCall \in CallStates
  BY DEF NoCall, CallStates, CallSteps, AttemptStatuses
<1> QED
  BY <1>1 DEF DispatchTypeOK, Return, Calls

\* A call that proceeds has the types of a call.
LEMMA ProceedTyped ==
  ASSUME DispatchTypeOK, NEW c \in Confirmations, NEW step \in CallSteps, Proceed(c, step)
  PROVE  call' \in Calls
<1>1. CASE step = "idle"
  BY <1>1, ReturnTyped DEF Proceed
<1>2. CASE step # "idle"
  <2>1. call' = [call EXCEPT ![c] = [call[c] EXCEPT !.at = step]]
    BY <1>2 DEF Proceed, DispatchTypeOK
  <2>2. [call[c] EXCEPT !.at = step] \in CallStates
    BY DEF DispatchTypeOK, CallStates
  <2> QED
    BY <2>1, <2>2 DEF DispatchTypeOK, Calls
<1> QED
  BY <1>1, <1>2

\* So has one that goes on from a receipt.
LEMMA ProceedFromTyped ==
  ASSUME DispatchTypeOK, NEW c \in Confirmations, NEW step \in CallSteps, NEW n \in Nat,
         ProceedFrom(c, step, n)
  PROVE  call' \in Calls
<1>1. call' = [call EXCEPT ![c] = [call[c] EXCEPT !.at = step, !.prior = n]]
  BY DEF ProceedFrom, DispatchTypeOK
<1>2. [call[c] EXCEPT !.at = step, !.prior = n] \in CallStates
  BY DEF DispatchTypeOK, CallStates
<1> QED
  BY <1>1, <1>2 DEF DispatchTypeOK, Calls

\* So has one whose result was taken over.
LEMMA CompleteTyped ==
  ASSUME DispatchTypeOK, NEW c \in Confirmations, Complete(c)
  PROVE  call' \in Calls
<1>1. call' = [call EXCEPT ![c] = [call[c] EXCEPT !.at = "reconcile", !.seen = attempt]]
  BY DEF Complete, DispatchTypeOK
<1>2. [call[c] EXCEPT !.at = "reconcile", !.seen = attempt] \in CallStates
  BY DEF DispatchTypeOK, CallStates, CallSteps
<1> QED
  BY <1>1, <1>2 DEF DispatchTypeOK, Calls

\* So has one whose report was delivered.
LEMMA DeliverTyped ==
  ASSUME DispatchTypeOK, NEW c \in Confirmations, NEW report, Deliver(c, report)
  PROVE  call' \in Calls
<1>1. CASE report = "bad"
  BY <1>1, ProceedTyped DEF Deliver, CallSteps
<1>2. CASE report # "bad"
  <2>1. call' = [call EXCEPT ![c] = [call[c] EXCEPT !.at = "result", !.verdict = Verdict(report)]]
    BY <1>2 DEF Deliver, DispatchTypeOK
  <2>2. [call[c] EXCEPT !.at = "result", !.verdict = Verdict(report)] \in CallStates
    BY DEF DispatchTypeOK, CallStates, CallSteps, Verdict
  <2> QED
    BY <2>1, <2>2 DEF DispatchTypeOK, Calls
<1> QED
  BY <1>1, <1>2

\* A transition to a status there is keeps the journals' types.
LEMMA RecordTyped ==
  ASSUME DispatchTypeOK, NEW c \in Confirmations, NEW step,
         NEW to, NEW next \in CallSteps, NEW refused \in CallSteps,
         \/ to \in ReceiptStatuses /\ RecordReceipt(c, step, to, next, refused)
         \/ to \in AttemptStatuses /\ RecordAttempt(c, step, to, next, refused)
  PROVE  DispatchTypeOK'
<1>1. CASE to \in ReceiptStatuses /\ RecordReceipt(c, step, to, next, refused)
  <2>1. call' \in Calls
    BY <1>1, ProceedTyped DEF RecordReceipt
  <2>2. receipts' \in Seq(ReceiptStatuses)
    BY <1>1 DEF RecordReceipt, After, DispatchTypeOK
  <2> QED
    BY <1>1, <2>1, <2>2 DEF RecordReceipt, DispatchTypeOK, Calls, validity, bounds
<1>2. CASE to \in AttemptStatuses /\ RecordAttempt(c, step, to, next, refused)
  <2>1. call' \in Calls
    BY <1>2, ProceedTyped DEF RecordAttempt
  <2> QED
    BY <1>2, <2>1 DEF RecordAttempt, DispatchTypeOK, Calls, validity, bounds
<1> QED
  BY <1>1, <1>2

\* Every step keeps the types.
LEMMA TypesKept ==
  ASSUME DispatchTypeOK, Started, [DispatchNext]_dispatchVars
  PROVE  DispatchTypeOK'
<1>1. ASSUME NEW c \in Confirmations, ConfirmOption(c) PROVE DispatchTypeOK'
  <2>1. call' \in Calls
    BY <1>1, ProceedTyped DEF ConfirmOption, CallSteps
  <2> QED
    BY <1>1, <2>1 DEF ConfirmOption, DispatchTypeOK, Calls, journals, validity, bounds
<1>2. ASSUME NEW c \in Confirmations, Issue(c) PROVE DispatchTypeOK'
  <2>1. call' \in Calls
    BY <1>2, ProceedTyped, ReturnTyped DEF Issue, CallSteps
  <2>2. <<"issued">> \in Seq(ReceiptStatuses)
    BY DEF ReceiptStatuses
  <2>3. receipts' \in {receipts, <<"issued">>}
    BY <1>2 DEF Issue
  <2> QED
    BY <1>2, <2>1, <2>2, <2>3 DEF Issue, DispatchTypeOK, Calls, validity, bounds
<1>3. ASSUME NEW c \in Confirmations, Reissue(c) PROVE DispatchTypeOK'
  <2>1. call' \in Calls
    BY <1>3, ProceedTyped, ReturnTyped DEF Reissue, CallSteps
  <2> QED
    BY <1>3, <2>1 DEF Reissue, DispatchTypeOK, Calls, journals, validity, bounds
<1>4. ASSUME NEW c \in Confirmations, BeginReserve(c) PROVE DispatchTypeOK'
  <2>1. call' \in Calls
    BY <1>4, ProceedTyped, ReturnTyped DEF BeginReserve, CallSteps
  <2> QED
    BY <1>4, <2>1 DEF BeginReserve, DispatchTypeOK, Calls, journals, validity, bounds
<1>5. ASSUME NEW c \in Confirmations, ClaimReceipt(c) PROVE DispatchTypeOK'
  <2>1. call' \in Calls
    BY <1>5, ProceedFromTyped, ReturnTyped DEF ClaimReceipt, CallSteps, DispatchTypeOK
  <2>2. receipts' = receipts \/ \E to \in ReceiptStatuses : receipts' = Append(receipts, to)
    BY <1>5 DEF ClaimReceipt, ReceiptStatuses
  <2>3. receipts' \in Seq(ReceiptStatuses)
    BY <2>2 DEF DispatchTypeOK
  <2>4. lapsed' \in BOOLEAN
    BY <1>5 DEF ClaimReceipt, DispatchTypeOK
  <2> QED
    BY <1>5, <2>1, <2>3, <2>4 DEF ClaimReceipt, DispatchTypeOK, Calls, bounds
<1>6. ASSUME NEW c \in Confirmations, AppendReservation(c) PROVE DispatchTypeOK'
  <2>1. call' \in Calls
    BY <1>6, ProceedTyped DEF AppendReservation, CallSteps
  <2> QED
    BY <1>6, <2>1 DEF AppendReservation, DispatchTypeOK, Calls, journals, validity, bounds
<1>7. ASSUME NEW c \in Confirmations, Invalidate(c) PROVE DispatchTypeOK'
  <2>1. call' \in Calls
    BY <1>7, ReturnTyped DEF Invalidate, CallSteps
  <2> QED
    BY <1>7, <2>1 DEF Invalidate, After, ReceiptStatuses, DispatchTypeOK, Calls, journals,
                      validity, bounds
<1>8. ASSUME NEW c \in Confirmations, Book(c) PROVE DispatchTypeOK'
  BY <1>8, RecordTyped DEF Book, CallSteps, ReceiptStatuses
<1>9. ASSUME NEW c \in Confirmations, CreateAttempt(c) PROVE DispatchTypeOK'
  <2>1. call' \in Calls
    BY <1>9, ProceedTyped DEF CreateAttempt, CallSteps
  <2> QED
    BY <1>9, <2>1 DEF CreateAttempt, AttemptStatuses, DispatchTypeOK, Calls, journals,
                      validity, bounds
<1>10. ASSUME NEW c \in Confirmations, BindReceipt(c) PROVE DispatchTypeOK'
  <2>1. call' \in Calls
    BY <1>10, ProceedFromTyped, ReturnTyped DEF BindReceipt, CallSteps
  <2> QED
    BY <1>10, <2>1 DEF BindReceipt, DispatchTypeOK, Calls, journals, validity, bounds
<1>11. ASSUME NEW c \in Confirmations, Spawn(c) PROVE DispatchTypeOK'
  <2>1. call' \in Calls
    BY <1>11, ProceedTyped DEF Spawn, CallSteps
  <2> QED
    BY <1>11, <2>1 DEF Spawn, ExecutorStates, DispatchTypeOK, Calls, journals, validity, bounds
<1>12. ASSUME NEW c \in Confirmations, StartProcess(c) PROVE DispatchTypeOK'
  <2>1. call' \in Calls
    BY <1>12, ProceedTyped DEF StartProcess, CallSteps
  <2> QED
    BY <1>12, <2>1 DEF StartProcess, ExecutorStates, DispatchTypeOK, Calls, journals, validity,
                       bounds
<1>13. ASSUME NEW c \in Confirmations, StartFails(c) PROVE DispatchTypeOK'
  <2>1. call' \in Calls
    BY <1>13, ProceedTyped DEF StartFails, CallSteps
  <2> QED
    BY <1>13, <2>1 DEF StartFails, ExecutorStates, DispatchTypeOK, Calls, journals, validity,
                       bounds
<1>14. ASSUME NEW c \in Confirmations, Acknowledge(c) PROVE DispatchTypeOK'
  <2>1. call' \in Calls
    BY <1>14, ProceedTyped DEF Acknowledge, CallSteps
  <2> QED
    BY <1>14, <2>1 DEF Acknowledge, DispatchTypeOK, Calls, journals, validity, bounds
<1>15. ASSUME NEW c \in Confirmations, RequestSpawn(c) PROVE DispatchTypeOK'
  BY <1>15, RecordTyped DEF RequestSpawn, CallSteps, AttemptStatuses
<1>16. ASSUME NEW c \in Confirmations, AcknowledgeSpawn(c) PROVE DispatchTypeOK'
  BY <1>16, RecordTyped DEF AcknowledgeSpawn, CallSteps, AttemptStatuses
<1>17. ASSUME NEW c \in Confirmations, RunAttempt(c) PROVE DispatchTypeOK'
  BY <1>17, RecordTyped DEF RunAttempt, CallSteps, AttemptStatuses
<1>18. ASSUME NEW c \in Confirmations, ReadReceipt(c) PROVE DispatchTypeOK'
  <2>1. call' \in Calls
    BY <1>18, ProceedTyped DEF ReadReceipt, CallSteps
  <2> QED
    BY <1>18, <2>1 DEF ReadReceipt, DispatchTypeOK, Calls, journals, validity, bounds
<1>19. ASSUME NEW c \in Confirmations, Promote(c) PROVE DispatchTypeOK'
  BY <1>19, RecordTyped DEF Promote, CallSteps, ReceiptStatuses
<1>20. ASSUME NEW c \in Confirmations, Terminate(c) PROVE DispatchTypeOK'
  <2>1. call' \in Calls
    BY <1>20, ProceedTyped DEF Terminate, CallSteps
  <2> QED
    BY <1>20, <2>1 DEF Terminate, ExecutorStates, Killed, Reports, DispatchTypeOK, Calls,
                       journals, validity, bounds
<1>21. ASSUME NEW c \in Confirmations, MarkAttempt(c) PROVE DispatchTypeOK'
  <2>1. call' \in Calls
    BY <1>21, ProceedTyped, ReturnTyped DEF MarkAttempt, CallSteps
  <2> QED
    BY <1>21, <2>1 DEF MarkAttempt, AttemptStatuses, DispatchTypeOK, Calls, journals, validity,
                       bounds
<1>22. ASSUME NEW c \in Confirmations, MarkReceipt(c) PROVE DispatchTypeOK'
  <2>1. call' \in Calls
    BY <1>22, ReturnTyped DEF MarkReceipt, CallSteps
  <2> QED
    BY <1>22, <2>1 DEF MarkReceipt, After, ReceiptStatuses, DispatchTypeOK, Calls, journals,
                       validity, bounds
<1>23. ASSUME NEW c \in Confirmations, Isolate(c) PROVE DispatchTypeOK'
  <2>1. call' \in Calls
    BY <1>23, ProceedFromTyped, ReturnTyped DEF Isolate, CallSteps
  <2> QED
    BY <1>23, <2>1 DEF Isolate, DispatchTypeOK, Calls, journals, validity, bounds
<1>24. ASSUME NEW c \in Confirmations, Dispatch(c) PROVE DispatchTypeOK'
  <2>1. call' \in Calls
    BY <1>24, ProceedTyped, DeliverTyped DEF Dispatch, CallSteps
  <2> QED
    BY <1>24, <2>1 DEF Dispatch, ExecutorStates, DispatchTypeOK, Calls, journals, validity,
                       bounds
<1>25. ASSUME NEW c \in Confirmations, Collect(c) PROVE DispatchTypeOK'
  <2>1. call' \in Calls
    BY <1>25, DeliverTyped, Collecting DEF Collect
  <2> QED
    BY <1>25, <2>1, Collecting DEF Collect, ExecutorStates, DispatchTypeOK, Calls, journals,
                                   validity, bounds
<1>26. ASSUME NEW c \in Confirmations, Complete(c) PROVE DispatchTypeOK'
  <2>1. call' \in Calls
    BY <1>26, CompleteTyped DEF Complete, CallSteps
  <2> QED
    BY <1>26, <2>1 DEF Complete, DispatchTypeOK, Calls, journals, validity, bounds
<1>27. ASSUME NEW c \in Confirmations, CompleteRaises(c) PROVE DispatchTypeOK'
  <2>1. call' \in Calls
    BY <1>27, ProceedTyped DEF CompleteRaises, CallSteps
  <2> QED
    BY <1>27, <2>1 DEF CompleteRaises, DispatchTypeOK, Calls, journals, validity, bounds
<1>28. ASSUME NEW c \in Confirmations, Reconcile(c) PROVE DispatchTypeOK'
  <2>1. call' \in Calls
    BY <1>28, ProceedTyped, ProceedFromTyped DEF Reconcile, CallSteps, NextClosing
  <2> QED
    BY <1>28, <2>1 DEF Reconcile, DispatchTypeOK, Calls, journals, validity, bounds
<1>29. ASSUME NEW c \in Confirmations, FailAttempt(c) PROVE DispatchTypeOK'
  BY <1>29, RecordTyped DEF FailAttempt, CallSteps, AttemptStatuses
<1>30. ASSUME NEW c \in Confirmations, EndAttempt(c) PROVE DispatchTypeOK'
  BY <1>30, RecordTyped DEF EndAttempt, CallSteps, AttemptStatuses
<1>31. ASSUME NEW c \in Confirmations, ConsumeAttempt(c) PROVE DispatchTypeOK'
  BY <1>31, RecordTyped DEF ConsumeAttempt, CallSteps, AttemptStatuses
<1>32. ASSUME NEW c \in Confirmations, CloseReceipt(c) PROVE DispatchTypeOK'
  BY <1>32, RecordTyped, Verdicts DEF CloseReceipt, CallSteps, ReceiptStatuses
<1>33. ASSUME NEW report \in Reports, ProcessEnds(report) PROVE DispatchTypeOK'
  BY <1>33 DEF ProcessEnds, DispatchTypeOK, journals, validity, bounds
<1>34. ASSUME Revoke PROVE DispatchTypeOK'
  BY <1>34 DEF Revoke, DispatchTypeOK, journals, validity, bounds
<1>35. ASSUME AuthorizationExpires PROVE DispatchTypeOK'
  BY <1>35 DEF AuthorizationExpires, DispatchTypeOK, journals, validity, bounds
<1>36. ASSUME LeaseExpires PROVE DispatchTypeOK'
  BY <1>36 DEF LeaseExpires, DispatchTypeOK, journals, validity, bounds
<1>37. ASSUME Restart PROVE DispatchTypeOK'
  <2>1. NoCall \in CallStates
    BY DEF NoCall, CallStates, CallSteps, AttemptStatuses
  <2> QED
    BY <1>37, <2>1 DEF Restart, ExecutorStates, DispatchTypeOK, journals, validity, bounds
<1>38. CASE UNCHANGED dispatchVars
  BY <1>38 DEF dispatchVars, DispatchTypeOK, journals, validity, bounds
<1> QED
  BY <1>1, <1>2, <1>3, <1>4, <1>5, <1>6, <1>7, <1>8, <1>9, <1>10, <1>11, <1>12, <1>13, <1>14,
     <1>15, <1>16, <1>17, <1>18, <1>19, <1>20, <1>21, <1>22, <1>23, <1>24, <1>25, <1>26, <1>27,
     <1>28, <1>29, <1>30, <1>31, <1>32, <1>33, <1>34, <1>35, <1>36, <1>37,
     <1>38 DEF DispatchNext, CallStep

-----------------------------------------------------------------------------
(* The parts of the invariant, one step at a time.                          *)

\* No two calls start or collect the process: the executor's memory excludes the second.
LEMMA StartedKept ==
  ASSUME DispatchInv, [DispatchNext]_dispatchVars
  PROVE  Started'
<1> USE DEF DispatchInv, DispatchTypeOK, Started, Others, CallAt, journals, validity, bounds
<1>1. ASSUME NEW c \in Confirmations, ConfirmOption(c) PROVE Started'
  BY <1>1, Proceeding DEF ConfirmOption, Status
<1>2. ASSUME NEW c \in Confirmations, Issue(c) PROVE Started'
  BY <1>2, Proceeding, Returning DEF Issue
<1>3. ASSUME NEW c \in Confirmations, Reissue(c) PROVE Started'
  BY <1>3, Proceeding, Returning DEF Reissue
<1>4. ASSUME NEW c \in Confirmations, BeginReserve(c) PROVE Started'
  BY <1>4, Proceeding, Returning DEF BeginReserve, Status
<1>5. ASSUME NEW c \in Confirmations, ClaimReceipt(c) PROVE Started'
  BY <1>5, Claiming DEF ClaimReceipt, Extended
<1>6. ASSUME NEW c \in Confirmations, AppendReservation(c) PROVE Started'
  BY <1>6, Proceeding DEF AppendReservation, Reservable
<1>7. ASSUME NEW c \in Confirmations, Invalidate(c) PROVE Started'
  BY <1>7, Returning, LastRecord DEF Invalidate, Extended
<1>8. ASSUME NEW c \in Confirmations, Book(c) PROVE Started'
  BY <1>8, Recording DEF Book, Extended
<1>9. ASSUME NEW c \in Confirmations, CreateAttempt(c) PROVE Started'
  BY <1>9, Proceeding DEF CreateAttempt
<1>10. ASSUME NEW c \in Confirmations, BindReceipt(c) PROVE Started'
  BY <1>10, ProceedingFrom, Returning DEF BindReceipt, Joins, JoinedWith, Status
<1>11. ASSUME NEW c \in Confirmations, Spawn(c) PROVE Started'
  <2>1. /\ Others(c) /\ processes' = processes /\ restarts' = restarts
        /\ \/ call'[c].at \in {"mark", "acknowledge"} /\ executor' = executor
           \/ call'[c].at = "popen" /\ executor = "none" /\ executor' = "spawning"
    BY <1>11, Proceeding DEF Spawn, Busy, Reports, ExecutorStates
  <2> QED
    BY <2>1
<1>12. ASSUME NEW c \in Confirmations, StartProcess(c) PROVE Started'
  <2>1. /\ call[c].at = "popen" /\ call'[c].at = "acknowledge" /\ Others(c)
        /\ executor' = "active" /\ restarts' = restarts
        /\ Len(processes') = Len(processes) + 1
    BY <1>12, Proceeding DEF StartProcess
  <2> QED
    BY <2>1
<1>13. ASSUME NEW c \in Confirmations, StartFails(c) PROVE Started'
  BY <1>13, Proceeding DEF StartFails
<1>14. ASSUME NEW c \in Confirmations, Acknowledge(c) PROVE Started'
  BY <1>14, Proceeding DEF Acknowledge, Joins, JoinedWith, Status
<1>15. ASSUME NEW c \in Confirmations, RequestSpawn(c) PROVE Started'
  BY <1>15, Moving, MovesFrom DEF RequestSpawn
<1>16. ASSUME NEW c \in Confirmations, AcknowledgeSpawn(c) PROVE Started'
  BY <1>16, Moving, MovesFrom DEF AcknowledgeSpawn
<1>17. ASSUME NEW c \in Confirmations, RunAttempt(c) PROVE Started'
  BY <1>17, Moving, MovesFrom DEF RunAttempt
<1>18. ASSUME NEW c \in Confirmations, ReadReceipt(c) PROVE Started'
  BY <1>18, Proceeding DEF ReadReceipt, Status
<1>19. ASSUME NEW c \in Confirmations, Promote(c) PROVE Started'
  BY <1>19, Recording DEF Promote, Extended
<1>20. ASSUME NEW c \in Confirmations, Terminate(c) PROVE Started'
  BY <1>20, Proceeding DEF Terminate, Killed
<1>21. ASSUME NEW c \in Confirmations, MarkAttempt(c) PROVE Started'
  BY <1>21, Proceeding, Returning, MovesFrom DEF MarkAttempt
<1>22. ASSUME NEW c \in Confirmations, MarkReceipt(c) PROVE Started'
  BY <1>22, Returning, LastRecord DEF MarkReceipt, Extended
<1>23. ASSUME NEW c \in Confirmations, Isolate(c) PROVE Started'
  BY <1>23, ProceedingFrom, Returning DEF Isolate, Joins, JoinedWith, Status
<1>24. ASSUME NEW c \in Confirmations, Dispatch(c) PROVE Started'
  BY <1>24, Proceeding, Delivering DEF Dispatch, Reports
<1>25. ASSUME NEW c \in Confirmations, Collect(c) PROVE Started'
  BY <1>25, Collecting DEF Collect, Reports
<1>26. ASSUME NEW c \in Confirmations, Complete(c) PROVE Started'
  BY <1>26, Completing DEF Complete
<1>27. ASSUME NEW c \in Confirmations, CompleteRaises(c) PROVE Started'
  BY <1>27, Proceeding DEF CompleteRaises
<1>28. ASSUME NEW c \in Confirmations, Reconcile(c) PROVE Started'
  BY <1>28, Proceeding, ProceedingFrom DEF Reconcile, Joins, JoinedWith, Status, NextClosing
<1>29. ASSUME NEW c \in Confirmations, FailAttempt(c) PROVE Started'
  BY <1>29, Moving, MovesFrom DEF FailAttempt
<1>30. ASSUME NEW c \in Confirmations, EndAttempt(c) PROVE Started'
  BY <1>30, Moving, MovesFrom DEF EndAttempt
<1>31. ASSUME NEW c \in Confirmations, ConsumeAttempt(c) PROVE Started'
  BY <1>31, Moving, MovesFrom DEF ConsumeAttempt
<1>32. ASSUME NEW c \in Confirmations, CloseReceipt(c) PROVE Started'
  <2>1. /\ call'[c].at \in {"idle", "isolate"} /\ Others(c)
        /\ UNCHANGED <<executor, processes, bounds>>
    BY <1>32, Recording DEF CloseReceipt
  <2> QED
    BY <2>1
<1>33. ASSUME NEW report \in Reports, ProcessEnds(report) PROVE Started'
  BY <1>33 DEF ProcessEnds, Reports
<1>34. ASSUME Revoke PROVE Started'
  BY <1>34 DEF Revoke
<1>35. ASSUME AuthorizationExpires PROVE Started'
  BY <1>35 DEF AuthorizationExpires
<1>36. ASSUME LeaseExpires PROVE Started'
  BY <1>36 DEF LeaseExpires
<1>37. ASSUME Restart PROVE Started'
  BY <1>37 DEF Restart, NoCall
<1>38. CASE UNCHANGED dispatchVars
  BY <1>38 DEF dispatchVars
<1> HIDE DEF DispatchInv, DispatchTypeOK, Started, Others, CallAt, journals, validity, bounds
<1> QED
  BY <1>1, <1>2, <1>3, <1>4, <1>5, <1>6, <1>7, <1>8, <1>9, <1>10, <1>11, <1>12, <1>13, <1>14,
     <1>15, <1>16, <1>17, <1>18, <1>19, <1>20, <1>21, <1>22, <1>23, <1>24, <1>25, <1>26, <1>27,
     <1>28, <1>29, <1>30, <1>31, <1>32, <1>33, <1>34, <1>35, <1>36, <1>37,
     <1>38 DEF DispatchNext, CallStep

\* No call gets past the control stream without a reservation.
LEMMA ReservedKept ==
  ASSUME DispatchInv, [DispatchNext]_dispatchVars
  PROVE  Reserved'
<1> USE DEF DispatchInv, DispatchTypeOK, Reserved, Reserving, Dispatched, Has, Others, CallAt,
            journals, validity, bounds
<1>1. ASSUME NEW c \in Confirmations, ConfirmOption(c) PROVE Reserved'
  BY <1>1, Proceeding DEF ConfirmOption, Status
<1>2. ASSUME NEW c \in Confirmations, Issue(c) PROVE Reserved'
  BY <1>2, Proceeding, Returning DEF Issue
<1>3. ASSUME NEW c \in Confirmations, Reissue(c) PROVE Reserved'
  BY <1>3, Proceeding, Returning DEF Reissue
<1>4. ASSUME NEW c \in Confirmations, BeginReserve(c) PROVE Reserved'
  BY <1>4, Proceeding, Returning DEF BeginReserve, Status
<1>5. ASSUME NEW c \in Confirmations, ClaimReceipt(c) PROVE Reserved'
  <2>1. /\ UNCHANGED <<reservation, attempt, processes, revoked>> /\ Others(c)
        /\ call'[c].at \in {"append", "idle"}
        /\ receipts' = receipts \/ Extended("claimed") \/ Extended("rejected")
    BY <1>5, Claiming
  <2>2. Has("claimed") => Has("claimed")'
    BY <2>1 DEF Extended
  <2>3. \A i \in DOMAIN receipts' : receipts'[i] \in Dispatched =>
          i \in DOMAIN receipts /\ receipts[i] \in Dispatched
    BY <2>1 DEF Extended
  <2> QED
    BY <2>1, <2>2, <2>3
<1>6. ASSUME NEW c \in Confirmations, AppendReservation(c) PROVE Reserved'
  <2>1. /\ receipts' = receipts /\ attempt' = attempt /\ processes' = processes /\ Others(c)
        /\ revoked' = revoked /\ call[c].at = "append" /\ (reservation => reservation')
        /\ \/ reservation' = TRUE /\ call'[c].at = "book" /\ (reservation \/ ~revoked)
           \/ ~reservation' /\ revoked /\ call'[c].at = "invalidate"
    BY <1>6, Proceeding DEF AppendReservation, Reservable
  <2>2. Has("claimed")
    BY <2>1 DEF Origins, Origin, GoesOnFrom, Has
  <2> QED
    BY <2>1, <2>2
<1>7. ASSUME NEW c \in Confirmations, Invalidate(c) PROVE Reserved'
  <2>1. /\ UNCHANGED <<reservation, attempt, processes, revoked>> /\ Others(c)
        /\ call'[c].at = "idle" /\ (receipts' = receipts \/ Extended("invalidated"))
    BY <1>7, Returning, LastRecord DEF Invalidate
  <2>2. Has("claimed")' <=> Has("claimed")
    BY <2>1, Having
  <2>3. \A i \in DOMAIN receipts' : receipts'[i] \in Dispatched =>
          i \in DOMAIN receipts /\ receipts[i] \in Dispatched
    BY <2>1 DEF Extended
  <2> QED
    BY <2>1, <2>2, <2>3
<1>8. ASSUME NEW c \in Confirmations, Book(c) PROVE Reserved'
  <2>1. /\ UNCHANGED <<reservation, attempt, processes, revoked>> /\ Others(c)
        /\ reservation /\ call'[c].at \in {"idle", "create"}
        /\ receipts' = receipts \/ Extended("dispatch_reserved")
    BY <1>8, Recording DEF Book
  <2>2. Has("claimed")' <=> Has("claimed")
    BY <2>1, Having
  <2> QED
    BY <2>1, <2>2 DEF Extended
<1>9. ASSUME NEW c \in Confirmations, CreateAttempt(c) PROVE Reserved'
  BY <1>9, Proceeding DEF CreateAttempt
<1>10. ASSUME NEW c \in Confirmations, BindReceipt(c) PROVE Reserved'
  BY <1>10, ProceedingFrom, Returning DEF BindReceipt, Joins, JoinedWith, Status
<1>11. ASSUME NEW c \in Confirmations, Spawn(c) PROVE Reserved'
  BY <1>11, Proceeding DEF Spawn, Busy, Reports
<1>12. ASSUME NEW c \in Confirmations, StartProcess(c) PROVE Reserved'
  BY <1>12, Proceeding DEF StartProcess
<1>13. ASSUME NEW c \in Confirmations, StartFails(c) PROVE Reserved'
  BY <1>13, Proceeding DEF StartFails
<1>14. ASSUME NEW c \in Confirmations, Acknowledge(c) PROVE Reserved'
  BY <1>14, Proceeding DEF Acknowledge, Joins, JoinedWith, Status
<1>15. ASSUME NEW c \in Confirmations, RequestSpawn(c) PROVE Reserved'
  BY <1>15, Moving, MovesFrom DEF RequestSpawn
<1>16. ASSUME NEW c \in Confirmations, AcknowledgeSpawn(c) PROVE Reserved'
  BY <1>16, Moving, MovesFrom DEF AcknowledgeSpawn
<1>17. ASSUME NEW c \in Confirmations, RunAttempt(c) PROVE Reserved'
  BY <1>17, Moving, MovesFrom DEF RunAttempt
<1>18. ASSUME NEW c \in Confirmations, ReadReceipt(c) PROVE Reserved'
  BY <1>18, Proceeding DEF ReadReceipt, Status
<1>19. ASSUME NEW c \in Confirmations, Promote(c) PROVE Reserved'
  <2>1. /\ UNCHANGED <<reservation, attempt, processes, revoked>> /\ Others(c)
        /\ reservation /\ call'[c].at \in {"dispatch", "terminate"}
        /\ receipts' = receipts \/ Extended("running")
    BY <1>19, Recording DEF Promote
  <2> QED
    BY <2>1 DEF Extended
<1>20. ASSUME NEW c \in Confirmations, Terminate(c) PROVE Reserved'
  BY <1>20, Proceeding DEF Terminate, Killed
<1>21. ASSUME NEW c \in Confirmations, MarkAttempt(c) PROVE Reserved'
  BY <1>21, Proceeding, Returning, MovesFrom DEF MarkAttempt
<1>22. ASSUME NEW c \in Confirmations, MarkReceipt(c) PROVE Reserved'
  BY <1>22, Returning, LastRecord DEF MarkReceipt, Extended
<1>23. ASSUME NEW c \in Confirmations, Isolate(c) PROVE Reserved'
  BY <1>23, ProceedingFrom, Returning DEF Isolate, Joins, JoinedWith, Status
<1>24. ASSUME NEW c \in Confirmations, Dispatch(c) PROVE Reserved'
  BY <1>24, Proceeding, Delivering DEF Dispatch, Reports
<1>25. ASSUME NEW c \in Confirmations, Collect(c) PROVE Reserved'
  BY <1>25, Collecting DEF Collect, Reports
<1>26. ASSUME NEW c \in Confirmations, Complete(c) PROVE Reserved'
  BY <1>26, Completing DEF Complete
<1>27. ASSUME NEW c \in Confirmations, CompleteRaises(c) PROVE Reserved'
  BY <1>27, Proceeding DEF CompleteRaises
<1>28. ASSUME NEW c \in Confirmations, Reconcile(c) PROVE Reserved'
  BY <1>28, Proceeding, ProceedingFrom DEF Reconcile, Joins, JoinedWith, Status, NextClosing
<1>29. ASSUME NEW c \in Confirmations, FailAttempt(c) PROVE Reserved'
  BY <1>29, Moving, MovesFrom DEF FailAttempt
<1>30. ASSUME NEW c \in Confirmations, EndAttempt(c) PROVE Reserved'
  BY <1>30, Moving, MovesFrom DEF EndAttempt
<1>31. ASSUME NEW c \in Confirmations, ConsumeAttempt(c) PROVE Reserved'
  BY <1>31, Moving, MovesFrom DEF ConsumeAttempt
<1>32. ASSUME NEW c \in Confirmations, CloseReceipt(c) PROVE Reserved'
  BY <1>32, Recording DEF CloseReceipt, Extended
<1>33. ASSUME NEW report \in Reports, ProcessEnds(report) PROVE Reserved'
  BY <1>33 DEF ProcessEnds, Reports
<1>34. ASSUME Revoke PROVE Reserved'
  BY <1>34 DEF Revoke
<1>35. ASSUME AuthorizationExpires PROVE Reserved'
  BY <1>35 DEF AuthorizationExpires
<1>36. ASSUME LeaseExpires PROVE Reserved'
  BY <1>36 DEF LeaseExpires
<1>37. ASSUME Restart PROVE Reserved'
  BY <1>37 DEF Restart, NoCall
<1>38. CASE UNCHANGED dispatchVars
  BY <1>38 DEF dispatchVars
<1> HIDE DEF DispatchInv, DispatchTypeOK, Reserved, Reserving, Dispatched, Has, Others, CallAt,
            journals, validity, bounds
<1> QED
  BY <1>1, <1>2, <1>3, <1>4, <1>5, <1>6, <1>7, <1>8, <1>9, <1>10, <1>11, <1>12, <1>13, <1>14,
     <1>15, <1>16, <1>17, <1>18, <1>19, <1>20, <1>21, <1>22, <1>23, <1>24, <1>25, <1>26, <1>27,
     <1>28, <1>29, <1>30, <1>31, <1>32, <1>33, <1>34, <1>35, <1>36, <1>37,
     <1>38 DEF DispatchNext, CallStep

\* Every call that needs a record goes on from one there is.
LEMMA OriginsKept ==
  ASSUME DispatchInv, [DispatchNext]_dispatchVars
  PROVE  Origins'
<1> USE DEF DispatchInv, DispatchTypeOK, Origins, Origin, GoesOnFrom, Starting, Closing,
            Others, CallAt, journals, validity, bounds
<1>1. ASSUME NEW c \in Confirmations, ConfirmOption(c) PROVE Origins'
  BY <1>1, Proceeding DEF ConfirmOption, Status
<1>2. ASSUME NEW c \in Confirmations, Issue(c) PROVE Origins'
  BY <1>2, Proceeding, Returning DEF Issue
<1>3. ASSUME NEW c \in Confirmations, Reissue(c) PROVE Origins'
  BY <1>3, Proceeding, Returning DEF Reissue
<1>4. ASSUME NEW c \in Confirmations, BeginReserve(c) PROVE Origins'
  BY <1>4, Proceeding, Returning DEF BeginReserve, Status
<1>5. ASSUME NEW c \in Confirmations, ClaimReceipt(c) PROVE Origins'
  <2>1. Others(c) /\ (receipts' = receipts \/ Extended("claimed") \/ Extended("rejected"))
    BY <1>5, Claiming
  <2>2. Origin(c)'
    BY <1>5, Claiming DEF Extended
  <2>3. CASE receipts' = receipts \/ Extended("claimed")
    BY <2>2, <2>3, <2>1, OriginsExtended
  <2>4. CASE Extended("rejected")
    BY <2>2, <2>4, <2>1, OriginsExtended
  <2> QED
    BY <2>1, <2>3, <2>4
<1>6. ASSUME NEW c \in Confirmations, AppendReservation(c) PROVE Origins'
  BY <1>6, Proceeding DEF AppendReservation, Reservable
<1>7. ASSUME NEW c \in Confirmations, Invalidate(c) PROVE Origins'
  <2>1. Others(c) /\ (receipts' = receipts \/ Extended("invalidated"))
    BY <1>7, Returning, LastRecord DEF Invalidate
  <2>2. Origin(c)'
    BY <1>7, Returning, LastRecord DEF Invalidate
  <2> QED
    BY <2>1, <2>2, OriginsExtended
<1>8. ASSUME NEW c \in Confirmations, Book(c) PROVE Origins'
  <2>1. Others(c) /\ (receipts' = receipts \/ Extended("dispatch_reserved"))
    BY <1>8, Recording DEF Book
  <2>2. Origin(c)'
    BY <1>8, Recording DEF Book
  <2> QED
    BY <2>1, <2>2, OriginsExtended
<1>9. ASSUME NEW c \in Confirmations, CreateAttempt(c) PROVE Origins'
  BY <1>9, Proceeding DEF CreateAttempt
<1>10. ASSUME NEW c \in Confirmations, BindReceipt(c) PROVE Origins'
  BY <1>10, ProceedingFrom, Returning DEF BindReceipt, Joins, JoinedWith, Status
<1>11. ASSUME NEW c \in Confirmations, Spawn(c) PROVE Origins'
  BY <1>11, Proceeding DEF Spawn, Busy, Reports
<1>12. ASSUME NEW c \in Confirmations, StartProcess(c) PROVE Origins'
  BY <1>12, Proceeding DEF StartProcess
<1>13. ASSUME NEW c \in Confirmations, StartFails(c) PROVE Origins'
  BY <1>13, Proceeding DEF StartFails
<1>14. ASSUME NEW c \in Confirmations, Acknowledge(c) PROVE Origins'
  BY <1>14, Proceeding DEF Acknowledge, Joins, JoinedWith, Status
<1>15. ASSUME NEW c \in Confirmations, RequestSpawn(c) PROVE Origins'
  BY <1>15, Moving, MovesFrom DEF RequestSpawn
<1>16. ASSUME NEW c \in Confirmations, AcknowledgeSpawn(c) PROVE Origins'
  BY <1>16, Moving, MovesFrom DEF AcknowledgeSpawn
<1>17. ASSUME NEW c \in Confirmations, RunAttempt(c) PROVE Origins'
  BY <1>17, Moving, MovesFrom DEF RunAttempt
<1>18. ASSUME NEW c \in Confirmations, ReadReceipt(c) PROVE Origins'
  BY <1>18, Proceeding DEF ReadReceipt, Status
<1>19. ASSUME NEW c \in Confirmations, Promote(c) PROVE Origins'
  <2>1. Others(c) /\ (receipts' = receipts \/ Extended("running"))
    BY <1>19, Recording DEF Promote
  <2>2. Origin(c)'
    BY <1>19, Recording DEF Promote
  <2> QED
    BY <2>1, <2>2, OriginsExtended
<1>20. ASSUME NEW c \in Confirmations, Terminate(c) PROVE Origins'
  BY <1>20, Proceeding DEF Terminate, Killed
<1>21. ASSUME NEW c \in Confirmations, MarkAttempt(c) PROVE Origins'
  BY <1>21, Proceeding, Returning, MovesFrom DEF MarkAttempt
<1>22. ASSUME NEW c \in Confirmations, MarkReceipt(c) PROVE Origins'
  <2>1. Others(c) /\ (receipts' = receipts \/ Extended("dispatch_unknown"))
    BY <1>22, Returning, LastRecord DEF MarkReceipt
  <2>2. Origin(c)'
    BY <1>22, Returning, LastRecord DEF MarkReceipt
  <2> QED
    BY <2>1, <2>2, OriginsExtended
<1>23. ASSUME NEW c \in Confirmations, Isolate(c) PROVE Origins'
  BY <1>23, ProceedingFrom, Returning DEF Isolate, Joins, JoinedWith, Status
<1>24. ASSUME NEW c \in Confirmations, Dispatch(c) PROVE Origins'
  BY <1>24, Proceeding, Delivering DEF Dispatch, Reports
<1>25. ASSUME NEW c \in Confirmations, Collect(c) PROVE Origins'
  BY <1>25, Collecting DEF Collect, Reports
<1>26. ASSUME NEW c \in Confirmations, Complete(c) PROVE Origins'
  BY <1>26, Completing DEF Complete
<1>27. ASSUME NEW c \in Confirmations, CompleteRaises(c) PROVE Origins'
  BY <1>27, Proceeding DEF CompleteRaises
<1>28. ASSUME NEW c \in Confirmations, Reconcile(c) PROVE Origins'
  BY <1>28, Proceeding, ProceedingFrom DEF Reconcile, Joins, JoinedWith, Status, NextClosing
<1>29. ASSUME NEW c \in Confirmations, FailAttempt(c) PROVE Origins'
  BY <1>29, Moving, MovesFrom DEF FailAttempt
<1>30. ASSUME NEW c \in Confirmations, EndAttempt(c) PROVE Origins'
  BY <1>30, Moving, MovesFrom DEF EndAttempt
<1>31. ASSUME NEW c \in Confirmations, ConsumeAttempt(c) PROVE Origins'
  BY <1>31, Moving, MovesFrom DEF ConsumeAttempt
<1>32. ASSUME NEW c \in Confirmations, CloseReceipt(c) PROVE Origins'
  <2>1. Others(c) /\ (receipts' = receipts \/ Extended(call[c].verdict))
    BY <1>32, Recording DEF CloseReceipt
  <2>2. Origin(c)'
    BY <1>32, Recording DEF CloseReceipt
  <2> QED
    BY <2>1, <2>2, OriginsExtended
<1>33. ASSUME NEW report \in Reports, ProcessEnds(report) PROVE Origins'
  BY <1>33 DEF ProcessEnds, Reports
<1>34. ASSUME Revoke PROVE Origins'
  BY <1>34 DEF Revoke
<1>35. ASSUME AuthorizationExpires PROVE Origins'
  BY <1>35 DEF AuthorizationExpires
<1>36. ASSUME LeaseExpires PROVE Origins'
  BY <1>36 DEF LeaseExpires
<1>37. ASSUME Restart PROVE Origins'
  BY <1>37 DEF Restart, NoCall
<1>38. CASE UNCHANGED dispatchVars
  BY <1>38 DEF dispatchVars
<1> HIDE DEF DispatchInv, DispatchTypeOK, Origins, Origin, GoesOnFrom, Starting, Closing,
            Others, CallAt, journals, validity, bounds
<1> QED
  BY <1>1, <1>2, <1>3, <1>4, <1>5, <1>6, <1>7, <1>8, <1>9, <1>10, <1>11, <1>12, <1>13, <1>14,
     <1>15, <1>16, <1>17, <1>18, <1>19, <1>20, <1>21, <1>22, <1>23, <1>24, <1>25, <1>26, <1>27,
     <1>28, <1>29, <1>30, <1>31, <1>32, <1>33, <1>34, <1>35, <1>36, <1>37,
     <1>38 DEF DispatchNext, CallStep

\* The authorization's records keep their order.
LEMMA ReceiptsKept ==
  ASSUME DispatchInv, [DispatchNext]_dispatchVars
  PROVE  Receipts'
<1> USE DEF DispatchInv, DispatchTypeOK, Receipts, Has, Others, CallAt, journals, validity,
            bounds
<1>1. ASSUME NEW c \in Confirmations, ConfirmOption(c) PROVE Receipts'
  BY <1>1, Proceeding DEF ConfirmOption, Status
<1>2. ASSUME NEW c \in Confirmations, Issue(c) PROVE Receipts'
  BY <1>2, Proceeding, Returning DEF Issue
<1>3. ASSUME NEW c \in Confirmations, Reissue(c) PROVE Receipts'
  BY <1>3, Proceeding, Returning DEF Reissue
<1>4. ASSUME NEW c \in Confirmations, BeginReserve(c) PROVE Receipts'
  BY <1>4, Proceeding, Returning DEF BeginReserve, Status
<1>5. ASSUME NEW c \in Confirmations, ClaimReceipt(c) PROVE Receipts'
  <2>1. /\ \/ receipts' = receipts
           \/ Extended("claimed") /\ Len(receipts) > 0 /\ receipts[Len(receipts)] \in Claimable
           \/ Extended("rejected") /\ Len(receipts) > 0 /\ receipts[Len(receipts)] = "issued"
        /\ UNCHANGED <<reservation, revoked>>
    BY <1>5, Claiming
  <2>2. CASE Extended("claimed") /\ Len(receipts) > 0 /\ receipts[Len(receipts)] \in Claimable
    <3>1. ~Has("rejected")
      BY <2>2 DEF Claimable, Extended
    <3> QED
      BY <2>1, <2>2, <3>1, ReceiptsExtended DEF Claimable
  <2>3. CASE Extended("rejected") /\ Len(receipts) > 0 /\ receipts[Len(receipts)] = "issued"
    <3>1. ~Has("claimed")
      BY <2>3 DEF Extended
    <3> QED
      BY <2>1, <2>3, <3>1, ReceiptsExtended
  <2> QED
    BY <2>1, <2>2, <2>3
<1>6. ASSUME NEW c \in Confirmations, AppendReservation(c) PROVE Receipts'
  BY <1>6, Proceeding DEF AppendReservation, Reservable
<1>7. ASSUME NEW c \in Confirmations, Invalidate(c) PROVE Receipts'
  <2>1. /\ \/ receipts' = receipts
           \/ Extended("invalidated") /\ ~Has("invalidated") /\ call[c].prior = Len(receipts)
        /\ UNCHANGED <<reservation, revoked>> /\ call[c].at = "invalidate"
    BY <1>7, LastRecord DEF Invalidate
  <2>2. call[c].prior \in DOMAIN receipts /\ receipts[call[c].prior] \in {"claimed"}
    BY <1>7, <2>1 DEF Origins, Origin, GoesOnFrom, Starting, Closing
  <2>3. CASE Extended("invalidated") /\ ~Has("invalidated") /\ call[c].prior = Len(receipts)
    BY <2>1, <2>2, <2>3, ReceiptsExtended DEF Reserved
  <2> QED
    BY <2>1, <2>3
<1>8. ASSUME NEW c \in Confirmations, Book(c) PROVE Receipts'
  <2>1. /\ \/ receipts' = receipts
           \/ Extended("dispatch_reserved") /\ ~Has("dispatch_reserved") /\ call[c].prior = Len(receipts)
        /\ UNCHANGED <<reservation, revoked>> /\ call[c].at = "book"
    BY <1>8, Recording DEF Book
  <2>2. call[c].prior \in DOMAIN receipts /\ receipts[call[c].prior] \in {"claimed"}
    BY <1>8, <2>1 DEF Origins, Origin, GoesOnFrom, Starting, Closing
  <2>3. CASE Extended("dispatch_reserved") /\ ~Has("dispatch_reserved") /\ call[c].prior = Len(receipts)
    BY <2>1, <2>2, <2>3, ReceiptsExtended
  <2> QED
    BY <2>1, <2>3
<1>9. ASSUME NEW c \in Confirmations, CreateAttempt(c) PROVE Receipts'
  BY <1>9, Proceeding DEF CreateAttempt
<1>10. ASSUME NEW c \in Confirmations, BindReceipt(c) PROVE Receipts'
  BY <1>10, ProceedingFrom, Returning DEF BindReceipt, Joins, JoinedWith, Status
<1>11. ASSUME NEW c \in Confirmations, Spawn(c) PROVE Receipts'
  BY <1>11, Proceeding DEF Spawn, Busy, Reports
<1>12. ASSUME NEW c \in Confirmations, StartProcess(c) PROVE Receipts'
  BY <1>12, Proceeding DEF StartProcess
<1>13. ASSUME NEW c \in Confirmations, StartFails(c) PROVE Receipts'
  BY <1>13, Proceeding DEF StartFails
<1>14. ASSUME NEW c \in Confirmations, Acknowledge(c) PROVE Receipts'
  BY <1>14, Proceeding DEF Acknowledge, Joins, JoinedWith, Status
<1>15. ASSUME NEW c \in Confirmations, RequestSpawn(c) PROVE Receipts'
  BY <1>15, Moving, MovesFrom DEF RequestSpawn
<1>16. ASSUME NEW c \in Confirmations, AcknowledgeSpawn(c) PROVE Receipts'
  BY <1>16, Moving, MovesFrom DEF AcknowledgeSpawn
<1>17. ASSUME NEW c \in Confirmations, RunAttempt(c) PROVE Receipts'
  BY <1>17, Moving, MovesFrom DEF RunAttempt
<1>18. ASSUME NEW c \in Confirmations, ReadReceipt(c) PROVE Receipts'
  BY <1>18, Proceeding DEF ReadReceipt, Status
<1>19. ASSUME NEW c \in Confirmations, Promote(c) PROVE Receipts'
  <2>1. /\ \/ receipts' = receipts
           \/ Extended("running") /\ ~Has("running") /\ call[c].prior = Len(receipts)
        /\ UNCHANGED <<reservation, revoked>> /\ call[c].at = "promote"
    BY <1>19, Recording DEF Promote
  <2>2. call[c].prior \in DOMAIN receipts /\ receipts[call[c].prior] \in {"dispatch_reserved"}
    BY <1>19, <2>1 DEF Origins, Origin, GoesOnFrom, Starting, Closing
  <2>3. CASE Extended("running") /\ ~Has("running") /\ call[c].prior = Len(receipts)
    BY <2>1, <2>2, <2>3, ReceiptsExtended
  <2> QED
    BY <2>1, <2>3
<1>20. ASSUME NEW c \in Confirmations, Terminate(c) PROVE Receipts'
  BY <1>20, Proceeding DEF Terminate, Killed
<1>21. ASSUME NEW c \in Confirmations, MarkAttempt(c) PROVE Receipts'
  BY <1>21, Proceeding, Returning, MovesFrom DEF MarkAttempt
<1>22. ASSUME NEW c \in Confirmations, MarkReceipt(c) PROVE Receipts'
  <2>1. /\ \/ receipts' = receipts
           \/ Extended("dispatch_unknown") /\ ~Has("dispatch_unknown") /\ call[c].prior = Len(receipts)
        /\ UNCHANGED <<reservation, revoked>> /\ call[c].at = "markReceipt"
    BY <1>22, LastRecord DEF MarkReceipt
  <2>2. call[c].prior \in DOMAIN receipts /\ receipts[call[c].prior] \in {"dispatch_reserved", "running"}
    BY <1>22, <2>1 DEF Origins, Origin, GoesOnFrom, Starting, Closing
  <2>3. CASE Extended("dispatch_unknown") /\ ~Has("dispatch_unknown") /\ call[c].prior = Len(receipts)
    BY <2>1, <2>2, <2>3, ReceiptsExtended
  <2> QED
    BY <2>1, <2>3
<1>23. ASSUME NEW c \in Confirmations, Isolate(c) PROVE Receipts'
  BY <1>23, ProceedingFrom, Returning DEF Isolate, Joins, JoinedWith, Status
<1>24. ASSUME NEW c \in Confirmations, Dispatch(c) PROVE Receipts'
  BY <1>24, Proceeding, Delivering DEF Dispatch, Reports
<1>25. ASSUME NEW c \in Confirmations, Collect(c) PROVE Receipts'
  BY <1>25, Collecting DEF Collect, Reports
<1>26. ASSUME NEW c \in Confirmations, Complete(c) PROVE Receipts'
  BY <1>26, Completing DEF Complete
<1>27. ASSUME NEW c \in Confirmations, CompleteRaises(c) PROVE Receipts'
  BY <1>27, Proceeding DEF CompleteRaises
<1>28. ASSUME NEW c \in Confirmations, Reconcile(c) PROVE Receipts'
  BY <1>28, Proceeding, ProceedingFrom DEF Reconcile, Joins, JoinedWith, Status, NextClosing
<1>29. ASSUME NEW c \in Confirmations, FailAttempt(c) PROVE Receipts'
  BY <1>29, Moving, MovesFrom DEF FailAttempt
<1>30. ASSUME NEW c \in Confirmations, EndAttempt(c) PROVE Receipts'
  BY <1>30, Moving, MovesFrom DEF EndAttempt
<1>31. ASSUME NEW c \in Confirmations, ConsumeAttempt(c) PROVE Receipts'
  BY <1>31, Moving, MovesFrom DEF ConsumeAttempt
<1>32. ASSUME NEW c \in Confirmations, CloseReceipt(c) PROVE Receipts'
  <2>1. /\ \/ receipts' = receipts
           \/ Extended(call[c].verdict) /\ call[c].prior = Len(receipts)
        /\ UNCHANGED <<reservation, revoked>> /\ call[c].at = "close"
    BY <1>32, Recording DEF CloseReceipt
  <2>2. /\ call[c].prior \in DOMAIN receipts /\ receipts[call[c].prior] = "running"
        /\ call[c].verdict \in {"failed", "consumed"}
    BY <1>32, <2>1, Verdicts DEF Origins, Origin, GoesOnFrom, Closing
  <2>3. CASE Extended(call[c].verdict) /\ call[c].prior = Len(receipts)
    BY <2>1, <2>2, <2>3, ReceiptsExtended
  <2> QED
    BY <2>1, <2>3
<1>33. ASSUME NEW report \in Reports, ProcessEnds(report) PROVE Receipts'
  BY <1>33 DEF ProcessEnds, Reports
<1>34. ASSUME Revoke PROVE Receipts'
  BY <1>34 DEF Revoke
<1>35. ASSUME AuthorizationExpires PROVE Receipts'
  BY <1>35 DEF AuthorizationExpires
<1>36. ASSUME LeaseExpires PROVE Receipts'
  BY <1>36 DEF LeaseExpires
<1>37. ASSUME Restart PROVE Receipts'
  BY <1>37 DEF Restart, NoCall
<1>38. CASE UNCHANGED dispatchVars
  BY <1>38 DEF dispatchVars
<1> HIDE DEF DispatchInv, DispatchTypeOK, Receipts, Has, Others, CallAt, journals, validity,
            bounds
<1> QED
  BY <1>1, <1>2, <1>3, <1>4, <1>5, <1>6, <1>7, <1>8, <1>9, <1>10, <1>11, <1>12, <1>13, <1>14,
     <1>15, <1>16, <1>17, <1>18, <1>19, <1>20, <1>21, <1>22, <1>23, <1>24, <1>25, <1>26, <1>27,
     <1>28, <1>29, <1>30, <1>31, <1>32, <1>33, <1>34, <1>35, <1>36, <1>37,
     <1>38 DEF DispatchNext, CallStep

\* The attempt is where the records and the calls take it to be.
LEMMA AttemptedKept ==
  ASSUME DispatchInv, [DispatchNext]_dispatchVars
  PROVE  Attempted'
<1> USE DEF DispatchInv, DispatchTypeOK, Attempted, Ran, Has, Others, CallAt, journals,
            validity, bounds
<1>1. ASSUME NEW c \in Confirmations, ConfirmOption(c) PROVE Attempted'
  BY <1>1, Proceeding DEF ConfirmOption, Status
<1>2. ASSUME NEW c \in Confirmations, Issue(c) PROVE Attempted'
  BY <1>2, Proceeding, Returning DEF Issue
<1>3. ASSUME NEW c \in Confirmations, Reissue(c) PROVE Attempted'
  BY <1>3, Proceeding, Returning DEF Reissue
<1>4. ASSUME NEW c \in Confirmations, BeginReserve(c) PROVE Attempted'
  BY <1>4, Proceeding, Returning DEF BeginReserve, Status
<1>5. ASSUME NEW c \in Confirmations, ClaimReceipt(c) PROVE Attempted'
  <2>1. /\ UNCHANGED attempt /\ call'[c].at \in {"append", "idle"} /\ Others(c)
        /\ receipts' = receipts \/ Extended("claimed") \/ Extended("rejected")
    BY <1>5, Claiming DEF ClaimReceipt
  <2>2. /\ Has("running")' <=> Has("running")
        /\ Has("dispatch_unknown")' <=> Has("dispatch_unknown")
        /\ Has("failed")' <=> Has("failed")
        /\ Has("consumed")' <=> Has("consumed")
    <3>1. CASE receipts' = receipts
      BY <3>1
    <3>2. CASE Extended("claimed")
      BY <3>2, Having
    <3>3. CASE Extended("rejected")
      BY <3>3, Having
    <3> QED
      BY <2>1, <3>1, <3>2, <3>3
  <2> QED
    BY <2>1, <2>2
<1>6. ASSUME NEW c \in Confirmations, AppendReservation(c) PROVE Attempted'
  BY <1>6, Proceeding DEF AppendReservation, Reservable
<1>7. ASSUME NEW c \in Confirmations, Invalidate(c) PROVE Attempted'
  <2>1. /\ UNCHANGED attempt /\ call'[c].at = "idle" /\ Others(c)
        /\ receipts' = receipts \/ Extended("invalidated")
    BY <1>7, Returning, LastRecord DEF Invalidate
  <2>2. /\ Has("running")' <=> Has("running")
        /\ Has("dispatch_unknown")' <=> Has("dispatch_unknown")
        /\ Has("failed")' <=> Has("failed")
        /\ Has("consumed")' <=> Has("consumed")
    BY <2>1, Having
  <2> QED
    BY <2>1, <2>2
<1>8. ASSUME NEW c \in Confirmations, Book(c) PROVE Attempted'
  <2>1. /\ UNCHANGED attempt /\ call'[c].at \in {"idle", "create"} /\ Others(c)
        /\ receipts' = receipts \/ Extended("dispatch_reserved")
    BY <1>8, Recording DEF Book
  <2>2. /\ Has("running")' <=> Has("running")
        /\ Has("dispatch_unknown")' <=> Has("dispatch_unknown")
        /\ Has("failed")' <=> Has("failed")
        /\ Has("consumed")' <=> Has("consumed")
    BY <2>1, Having
  <2> QED
    BY <2>1, <2>2
<1>9. ASSUME NEW c \in Confirmations, CreateAttempt(c) PROVE Attempted'
  <2>1. /\ receipts' = receipts /\ call'[c].at = "bind" /\ Others(c)
        /\ attempt' = attempt \/ (attempt = "none" /\ attempt' = "reserved")
    BY <1>9, Proceeding DEF CreateAttempt
  <2> QED
    BY <2>1, Verdicts
<1>10. ASSUME NEW c \in Confirmations, BindReceipt(c) PROVE Attempted'
  BY <1>10, ProceedingFrom, Returning DEF BindReceipt, Joins, JoinedWith, Status
<1>11. ASSUME NEW c \in Confirmations, Spawn(c) PROVE Attempted'
  BY <1>11, Proceeding DEF Spawn, Busy, Reports
<1>12. ASSUME NEW c \in Confirmations, StartProcess(c) PROVE Attempted'
  BY <1>12, Proceeding DEF StartProcess
<1>13. ASSUME NEW c \in Confirmations, StartFails(c) PROVE Attempted'
  BY <1>13, Proceeding DEF StartFails
<1>14. ASSUME NEW c \in Confirmations, Acknowledge(c) PROVE Attempted'
  BY <1>14, Proceeding DEF Acknowledge, Joins, JoinedWith, Status
<1>15. ASSUME NEW c \in Confirmations, RequestSpawn(c) PROVE Attempted'
  <2>1. /\ receipts' = receipts /\ call'[c].at \in {"acked", "terminate"} /\ Others(c)
        /\ attempt' = attempt \/ (attempt = "reserved" /\ attempt' = "spawn_requested")
    BY <1>15, Moving, MovesFrom DEF RequestSpawn
  <2> QED
    BY <2>1, Verdicts
<1>16. ASSUME NEW c \in Confirmations, AcknowledgeSpawn(c) PROVE Attempted'
  <2>1. /\ receipts' = receipts /\ call'[c].at \in {"run", "terminate"} /\ Others(c)
        /\ attempt' = attempt \/ (attempt = "spawn_requested" /\ attempt' = "spawn_acknowledged")
    BY <1>16, Moving, MovesFrom DEF AcknowledgeSpawn
  <2> QED
    BY <2>1, Verdicts
<1>17. ASSUME NEW c \in Confirmations, RunAttempt(c) PROVE Attempted'
  <2>1. /\ receipts' = receipts /\ call'[c].at \in {"read", "terminate"} /\ Others(c)
        /\ attempt' = attempt \/ (attempt = "spawn_acknowledged" /\ attempt' = "running")
        /\ call'[c].at = "read" => attempt' = "running"
    BY <1>17, Moving, MovesFrom DEF RunAttempt
  <2> QED
    BY <2>1, Verdicts
<1>18. ASSUME NEW c \in Confirmations, ReadReceipt(c) PROVE Attempted'
  BY <1>18, Proceeding DEF ReadReceipt, Status
<1>19. ASSUME NEW c \in Confirmations, Promote(c) PROVE Attempted'
  <2>1. /\ UNCHANGED attempt /\ call'[c].at \in {"dispatch", "terminate"} /\ Others(c)
        /\ attempt \in Ran
        /\ receipts' = receipts \/ Extended("running")
    BY <1>19, Recording DEF Promote
  <2>2. /\ Has("dispatch_unknown")' <=> Has("dispatch_unknown")
        /\ Has("failed")' <=> Has("failed")
        /\ Has("consumed")' <=> Has("consumed")
    BY <2>1, Having
  <2>3. Has("running") => Has("running")'
    BY <2>1 DEF Extended
  <2> QED
    BY <2>1, <2>2, <2>3, Verdicts
<1>20. ASSUME NEW c \in Confirmations, Terminate(c) PROVE Attempted'
  BY <1>20, Proceeding DEF Terminate, Killed
<1>21. ASSUME NEW c \in Confirmations, MarkAttempt(c) PROVE Attempted'
  BY <1>21, Proceeding, Returning, MovesFrom DEF MarkAttempt
<1>22. ASSUME NEW c \in Confirmations, MarkReceipt(c) PROVE Attempted'
  BY <1>22, Returning, LastRecord DEF MarkReceipt, Extended
<1>23. ASSUME NEW c \in Confirmations, Isolate(c) PROVE Attempted'
  BY <1>23, ProceedingFrom, Returning DEF Isolate, Joins, JoinedWith, Status
<1>24. ASSUME NEW c \in Confirmations, Dispatch(c) PROVE Attempted'
  BY <1>24, Proceeding, Delivering DEF Dispatch, Reports
<1>25. ASSUME NEW c \in Confirmations, Collect(c) PROVE Attempted'
  BY <1>25, Collecting DEF Collect, Reports
<1>26. ASSUME NEW c \in Confirmations, Complete(c) PROVE Attempted'
  BY <1>26, Completing DEF Complete
<1>27. ASSUME NEW c \in Confirmations, CompleteRaises(c) PROVE Attempted'
  BY <1>27, Proceeding DEF CompleteRaises
<1>28. ASSUME NEW c \in Confirmations, Reconcile(c) PROVE Attempted'
  <2>0. call[c].at = "reconcile"
    BY <1>28 DEF Reconcile
  <2>1. /\ UNCHANGED <<receipts, attempt>> /\ Others(c)
        /\ call'[c].at = "isolate" \/ call'[c].at = NextClosing(call[c].verdict)
        /\ call'[c].at # "isolate" => Joins("running") /\ call'[c].verdict = call[c].verdict
    BY <1>28, Proceeding, ProceedingFrom DEF Reconcile
  <2>2. Joins("running") => attempt \in Ran \cup {"spawn_acknowledged"}
    BY DEF Joins, JoinedWith
  <2>3. /\ \/ call[c].verdict = "consumed" /\ executor = "valid"
           \/ call[c].verdict = "failed" /\ executor = "invalid"
        /\ attempt \in {"terminated", "consumed"} => executor = "valid"
        /\ attempt = "failed" => executor = "invalid"
    BY <1>28, <2>0 DEF Judged, Judging, Following, Closing
  <2>4. call'[c].at = "close" => attempt \in {call'[c].verdict, "dispatch_unknown"}
    BY <2>1, <2>2, <2>3 DEF NextClosing
  <2>5. call'[c].at \in {"isolate", "fail", "end", "consume", "close"}
    BY <2>1 DEF NextClosing
  <2> QED
    BY <2>1, <2>4, <2>5
<1>29. ASSUME NEW c \in Confirmations, FailAttempt(c) PROVE Attempted'
  <2>1. /\ receipts' = receipts /\ call'[c].at \in {"close", "isolate"} /\ Others(c)
        /\ \/ attempt' = attempt
           \/ attempt \in {"reserved", "spawn_requested", "spawn_acknowledged", "running", "terminated"}
        /\ attempt' = attempt \/ attempt' = "failed"
        /\ call'[c].at = "close" => attempt' = "failed" /\ call'[c].verdict = "failed"
    BY <1>29, Moving, MovesFrom DEF FailAttempt, Judged, Closing
  <2>2. Has("running")
    BY <1>29, Moving DEF FailAttempt, Origins, Origin, GoesOnFrom, Closing
  <2> QED
    BY <2>1, <2>2, Verdicts
<1>30. ASSUME NEW c \in Confirmations, EndAttempt(c) PROVE Attempted'
  <2>1. /\ receipts' = receipts /\ call'[c].at \in {"consume", "isolate"} /\ Others(c)
        /\ attempt' = attempt \/ (attempt = "running" /\ attempt' = "terminated")
    BY <1>30, Moving, MovesFrom DEF EndAttempt
  <2>2. Has("running")
    BY <1>30, Moving DEF EndAttempt, Origins, Origin, GoesOnFrom, Closing
  <2> QED
    BY <2>1, <2>2, Verdicts
<1>31. ASSUME NEW c \in Confirmations, ConsumeAttempt(c) PROVE Attempted'
  <2>1. /\ receipts' = receipts /\ call'[c].at \in {"close", "isolate"} /\ Others(c)
        /\ attempt' = attempt \/ (attempt = "terminated" /\ attempt' = "consumed")
        /\ call'[c].at = "close" => attempt' = "consumed" /\ call'[c].verdict = "consumed"
    BY <1>31, Moving, MovesFrom DEF ConsumeAttempt, Judged
  <2> QED
    BY <2>1, Verdicts
<1>32. ASSUME NEW c \in Confirmations, CloseReceipt(c) PROVE Attempted'
  <2>1. /\ UNCHANGED attempt /\ call'[c].at \in {"idle", "isolate"} /\ Others(c)
        /\ attempt \in {call[c].verdict, "dispatch_unknown"} /\ call[c].verdict \in {"failed", "consumed"}
        /\ receipts' = receipts \/ Extended(call[c].verdict)
    BY <1>32, Recording, Verdicts DEF CloseReceipt
  <2>2. /\ Has("running")' <=> Has("running")
        /\ Has("dispatch_unknown")' <=> Has("dispatch_unknown")
        /\ Has("consumed")' => Has("consumed") \/ call[c].verdict = "consumed"
        /\ Has("failed")' => Has("failed") \/ call[c].verdict = "failed"
    BY <2>1, Having
  <2> QED
    BY <2>1, <2>2, Verdicts
<1>33. ASSUME NEW report \in Reports, ProcessEnds(report) PROVE Attempted'
  BY <1>33 DEF ProcessEnds, Reports
<1>34. ASSUME Revoke PROVE Attempted'
  BY <1>34 DEF Revoke
<1>35. ASSUME AuthorizationExpires PROVE Attempted'
  BY <1>35 DEF AuthorizationExpires
<1>36. ASSUME LeaseExpires PROVE Attempted'
  BY <1>36 DEF LeaseExpires
<1>37. ASSUME Restart PROVE Attempted'
  BY <1>37 DEF Restart, NoCall
<1>38. CASE UNCHANGED dispatchVars
  BY <1>38 DEF dispatchVars
<1> HIDE DEF DispatchInv, DispatchTypeOK, Attempted, Ran, Has, Others, CallAt, journals,
            validity, bounds
<1> QED
  BY <1>1, <1>2, <1>3, <1>4, <1>5, <1>6, <1>7, <1>8, <1>9, <1>10, <1>11, <1>12, <1>13, <1>14,
     <1>15, <1>16, <1>17, <1>18, <1>19, <1>20, <1>21, <1>22, <1>23, <1>24, <1>25, <1>26, <1>27,
     <1>28, <1>29, <1>30, <1>31, <1>32, <1>33, <1>34, <1>35, <1>36, <1>37,
     <1>38 DEF DispatchNext, CallStep

\* The verdicts of the calls are that of the one process of this life of the server.
LEMMA JudgedKept ==
  ASSUME DispatchInv, [DispatchNext]_dispatchVars
  PROVE  Judged'
<1> USE DEF DispatchInv, DispatchTypeOK, Judged, Judging, Following, Closing, Ended, Has,
            Others, CallAt, journals, validity, bounds
<1>1. ASSUME NEW c \in Confirmations, ConfirmOption(c) PROVE Judged'
  BY <1>1, Proceeding DEF ConfirmOption, Status
<1>2. ASSUME NEW c \in Confirmations, Issue(c) PROVE Judged'
  BY <1>2, Proceeding, Returning DEF Issue
<1>3. ASSUME NEW c \in Confirmations, Reissue(c) PROVE Judged'
  BY <1>3, Proceeding, Returning DEF Reissue
<1>4. ASSUME NEW c \in Confirmations, BeginReserve(c) PROVE Judged'
  BY <1>4, Proceeding, Returning DEF BeginReserve, Status
<1>5. ASSUME NEW c \in Confirmations, ClaimReceipt(c) PROVE Judged'
  <2>1. /\ UNCHANGED <<attempt, executor, processes>> /\ Others(c)
        /\ call'[c].at \in {"append", "idle"}
        /\ receipts' = receipts \/ Extended("claimed") \/ Extended("rejected")
    BY <1>5, Claiming DEF ClaimReceipt
  <2>2. /\ Has("consumed")' <=> Has("consumed")
        /\ Has("failed")' <=> Has("failed")
    <3>1. CASE receipts' = receipts
      BY <3>1
    <3>2. CASE Extended("claimed")
      BY <3>2, Having
    <3>3. CASE Extended("rejected")
      BY <3>3, Having
    <3> QED
      BY <2>1, <3>1, <3>2, <3>3
  <2> QED
    BY <2>1, <2>2
<1>6. ASSUME NEW c \in Confirmations, AppendReservation(c) PROVE Judged'
  BY <1>6, Proceeding DEF AppendReservation, Reservable
<1>7. ASSUME NEW c \in Confirmations, Invalidate(c) PROVE Judged'
  <2>1. /\ UNCHANGED <<attempt, executor, processes>> /\ Others(c)
        /\ call'[c].at = "idle" /\ (receipts' = receipts \/ Extended("invalidated"))
    BY <1>7, Returning, LastRecord DEF Invalidate
  <2>2. /\ Has("consumed")' <=> Has("consumed")
        /\ Has("failed")' <=> Has("failed")
    BY <2>1, Having
  <2> QED
    BY <2>1, <2>2
<1>8. ASSUME NEW c \in Confirmations, Book(c) PROVE Judged'
  <2>1. /\ UNCHANGED <<attempt, executor, processes>> /\ Others(c)
        /\ call'[c].at \in {"idle", "create"}
        /\ receipts' = receipts \/ Extended("dispatch_reserved")
    BY <1>8, Recording DEF Book
  <2>2. /\ Has("consumed")' <=> Has("consumed")
        /\ Has("failed")' <=> Has("failed")
    BY <2>1, Having
  <2> QED
    BY <2>1, <2>2
<1>9. ASSUME NEW c \in Confirmations, CreateAttempt(c) PROVE Judged'
  BY <1>9, Proceeding DEF CreateAttempt
<1>10. ASSUME NEW c \in Confirmations, BindReceipt(c) PROVE Judged'
  BY <1>10, ProceedingFrom, Returning DEF BindReceipt, Joins, JoinedWith, Status
<1>11. ASSUME NEW c \in Confirmations, Spawn(c) PROVE Judged'
  BY <1>11, Proceeding DEF Spawn, Busy, Reports
<1>12. ASSUME NEW c \in Confirmations, StartProcess(c) PROVE Judged'
  <2>1. /\ UNCHANGED <<receipts, attempt>> /\ call[c].at = "popen" /\ call'[c].at = "acknowledge"
        /\ Others(c) /\ executor' = "active" /\ executor = "spawning"
        /\ \A i \in DOMAIN processes : i \in DOMAIN processes' /\ processes'[i] = processes[i]
    BY <1>12, Proceeding DEF StartProcess, Started
  <2> QED
    BY <2>1
<1>13. ASSUME NEW c \in Confirmations, StartFails(c) PROVE Judged'
  <2>1. /\ UNCHANGED <<receipts, attempt, processes>> /\ call[c].at = "popen" /\ call'[c].at = "mark"
        /\ Others(c) /\ executor' \in {"none", "spawning"} /\ executor = "spawning"
    BY <1>13, Proceeding DEF StartFails, Started
  <2> QED
    BY <2>1
<1>14. ASSUME NEW c \in Confirmations, Acknowledge(c) PROVE Judged'
  BY <1>14, Proceeding DEF Acknowledge, Joins, JoinedWith, Status
<1>15. ASSUME NEW c \in Confirmations, RequestSpawn(c) PROVE Judged'
  BY <1>15, Moving, MovesFrom DEF RequestSpawn
<1>16. ASSUME NEW c \in Confirmations, AcknowledgeSpawn(c) PROVE Judged'
  BY <1>16, Moving, MovesFrom DEF AcknowledgeSpawn
<1>17. ASSUME NEW c \in Confirmations, RunAttempt(c) PROVE Judged'
  BY <1>17, Moving, MovesFrom DEF RunAttempt
<1>18. ASSUME NEW c \in Confirmations, ReadReceipt(c) PROVE Judged'
  BY <1>18, Proceeding DEF ReadReceipt, Status
<1>19. ASSUME NEW c \in Confirmations, Promote(c) PROVE Judged'
  <2>1. /\ UNCHANGED <<attempt, executor, processes>> /\ Others(c)
        /\ call[c].at = "promote" /\ call'[c].at \in {"dispatch", "terminate"}
        /\ receipts' = receipts \/ Extended("running")
    BY <1>19, Recording DEF Promote
  <2>2. /\ Has("consumed")' <=> Has("consumed")
        /\ Has("failed")' <=> Has("failed")
    BY <2>1, Having
  <2> QED
    BY <2>1, <2>2
<1>20. ASSUME NEW c \in Confirmations, Terminate(c) PROVE Judged'
  BY <1>20, Proceeding DEF Terminate, Killed
<1>21. ASSUME NEW c \in Confirmations, MarkAttempt(c) PROVE Judged'
  BY <1>21, Proceeding, Returning, MovesFrom DEF MarkAttempt
<1>22. ASSUME NEW c \in Confirmations, MarkReceipt(c) PROVE Judged'
  BY <1>22, Returning, LastRecord DEF MarkReceipt, Extended
<1>23. ASSUME NEW c \in Confirmations, Isolate(c) PROVE Judged'
  BY <1>23, ProceedingFrom, Returning DEF Isolate, Joins, JoinedWith, Status
<1>24. ASSUME NEW c \in Confirmations, Dispatch(c) PROVE Judged'
  BY <1>24, Proceeding, Delivering DEF Dispatch, Reports
<1>25. ASSUME NEW c \in Confirmations, Collect(c) PROVE Judged'
  <2>1. /\ executor \in {"collecting", "bad"}
        /\ \A d \in Confirmations : call[d].at = "collect" => d = c
    BY <1>25, Collecting DEF Started
  <2>2. /\ UNCHANGED <<receipts, attempt, processes>> /\ Others(c) /\ call[c].at = "collect"
        /\ Ended(executor')
        /\ \/ executor' = "bad" /\ call'[c].at = "isolate"
           \/ executor' = "valid" /\ call'[c].at = "result" /\ call'[c].verdict = "consumed"
           \/ executor' = "invalid" /\ call'[c].at = "result" /\ call'[c].verdict = "failed"
    BY <1>25, Collecting
  <2> QED
    BY <2>1, <2>2
<1>26. ASSUME NEW c \in Confirmations, Complete(c) PROVE Judged'
  <2>1. /\ UNCHANGED <<receipts, attempt, executor, processes>> /\ Others(c)
        /\ call[c].at = "result" /\ call'[c].at = "reconcile" /\ call'[c].verdict = call[c].verdict
    BY <1>26, Completing DEF Complete
  <2> QED
    BY <2>1
<1>27. ASSUME NEW c \in Confirmations, CompleteRaises(c) PROVE Judged'
  BY <1>27, Proceeding DEF CompleteRaises
<1>28. ASSUME NEW c \in Confirmations, Reconcile(c) PROVE Judged'
  BY <1>28, Proceeding, ProceedingFrom DEF Reconcile, Joins, JoinedWith, Status, NextClosing
<1>29. ASSUME NEW c \in Confirmations, FailAttempt(c) PROVE Judged'
  BY <1>29, Moving, MovesFrom DEF FailAttempt
<1>30. ASSUME NEW c \in Confirmations, EndAttempt(c) PROVE Judged'
  BY <1>30, Moving, MovesFrom DEF EndAttempt
<1>31. ASSUME NEW c \in Confirmations, ConsumeAttempt(c) PROVE Judged'
  BY <1>31, Moving, MovesFrom DEF ConsumeAttempt
<1>32. ASSUME NEW c \in Confirmations, CloseReceipt(c) PROVE Judged'
  <2>1. /\ UNCHANGED <<attempt, executor, processes>> /\ Others(c)
        /\ call[c].at = "close" /\ call'[c].at \in {"idle", "isolate"}
        /\ receipts' = receipts \/ Extended(call[c].verdict)
    BY <1>32, Recording DEF CloseReceipt
  <2>2. /\ Has("consumed")' => Has("consumed") \/ call[c].verdict = "consumed"
        /\ Has("failed")' => Has("failed") \/ call[c].verdict = "failed"
    BY <2>1, Having
  <2>3. /\ call[c].verdict = "consumed" => Ended("valid")
        /\ call[c].verdict = "failed" => Ended("invalid")
    BY <2>1
  <2> QED
    BY <2>1, <2>2, <2>3
<1>33. ASSUME NEW report \in Reports, ProcessEnds(report) PROVE Judged'
  BY <1>33 DEF ProcessEnds, Reports
<1>34. ASSUME Revoke PROVE Judged'
  BY <1>34 DEF Revoke
<1>35. ASSUME AuthorizationExpires PROVE Judged'
  BY <1>35 DEF AuthorizationExpires
<1>36. ASSUME LeaseExpires PROVE Judged'
  BY <1>36 DEF LeaseExpires
<1>37. ASSUME Restart PROVE Judged'
  BY <1>37 DEF Restart, NoCall
<1>38. CASE UNCHANGED dispatchVars
  BY <1>38 DEF dispatchVars
<1> HIDE DEF DispatchInv, DispatchTypeOK, Judged, Judging, Following, Closing, Ended, Has,
            Others, CallAt, journals, validity, bounds
<1> QED
  BY <1>1, <1>2, <1>3, <1>4, <1>5, <1>6, <1>7, <1>8, <1>9, <1>10, <1>11, <1>12, <1>13, <1>14,
     <1>15, <1>16, <1>17, <1>18, <1>19, <1>20, <1>21, <1>22, <1>23, <1>24, <1>25, <1>26, <1>27,
     <1>28, <1>29, <1>30, <1>31, <1>32, <1>33, <1>34, <1>35, <1>36, <1>37,
     <1>38 DEF DispatchNext, CallStep

-----------------------------------------------------------------------------
(* The inductive invariant.                                                 *)

\* It holds before the first confirmation.
LEMMA DispatchInvInit == DispatchInit => DispatchInv
<1> SUFFICES ASSUME DispatchInit PROVE DispatchInv
  OBVIOUS
<1>1. NoCall \in CallStates
  BY DEF NoCall, CallStates, CallSteps, AttemptStatuses
<1>2. DispatchTypeOK
  <2>1. receipts \in Seq(ReceiptStatuses) /\ processes \in Seq({"alive"} \cup Reports)
    BY DEF DispatchInit
  <2>2. call \in [Confirmations -> CallStates]
    BY <1>1 DEF DispatchInit
  <2> QED
    BY <2>1, <2>2 DEF DispatchInit, DispatchTypeOK, AttemptStatuses, ExecutorStates
<1>3. receipts = <<>> /\ DOMAIN receipts = {} /\ processes = <<>> /\ Len(processes) = 0
  BY DEF DispatchInit
<1>4. \A c \in Confirmations : call[c].at = "idle"
  BY DEF DispatchInit, NoCall
<1>5. Started
  BY <1>2, <1>3, <1>4 DEF DispatchInit, Started, DispatchTypeOK
<1>6. Reserved
  BY <1>3, <1>4 DEF DispatchInit, Reserved, Reserving
<1>7. Origins /\ Receipts
  BY <1>3, <1>4 DEF Origins, Origin, GoesOnFrom, Starting, Closing, Receipts, Has
<1>8. Attempted
  BY <1>3, <1>4 DEF DispatchInit, Attempted, Has
<1>9. Judged
  BY <1>3, <1>4 DEF DispatchInit, Judged, Judging, Following, Closing, Has
<1> QED
  BY <1>2, <1>5, <1>6, <1>7, <1>8, <1>9 DEF DispatchInv

\* Every step keeps it.
LEMMA DispatchStep == DispatchInv /\ [DispatchNext]_dispatchVars => DispatchInv'
BY TypesKept, StartedKept, ReservedKept, OriginsKept, ReceiptsKept, AttemptedKept, JudgedKept
   DEF DispatchInv

THEOREM DispatchInvariant == DispatchSpec => []DispatchInv
BY DispatchInvInit, DispatchStep, PTL DEF DispatchSpec

-----------------------------------------------------------------------------
(* What follows from it.                                                    *)

\* The journals, the executor and the calls have their types.
THEOREM DispatchTypeCorrect == DispatchSpec => []DispatchTypeOK
<1>1. DispatchInv => DispatchTypeOK
  BY DEF DispatchInv
<1> QED
  BY <1>1, DispatchInvariant, PTL

\* However many confirmations overlap, the executor starts no more than one
\* process in one life of the server.
THEOREM AtMostOneStart == DispatchSpec => []OneStartPerLife
<1>1. DispatchInv => OneStartPerLife
  BY DEF DispatchInv, Started, OneStartPerLife
<1> QED
  BY <1>1, DispatchInvariant, PTL

\* The last record of the authorization is one of its records.
LEMMA LastStatus ==
  ASSUME DispatchTypeOK, Status # "none"
  PROVE  Len(receipts) \in DOMAIN receipts /\ receipts[Len(receipts)] = Status /\ Has(Status)
BY DEF DispatchTypeOK, Status, Has

\* Where the claim is missing there is no reservation, and so no attempt.
LEMMA NotReserved ==
  ASSUME DispatchInv, Status \in {"none", "issued", "rejected", "invalidated"}
  PROVE  attempt = "none" /\ ~reservation
<1>1. CASE Status = "none"
  <2>1. ~Has("claimed")
    BY <1>1 DEF DispatchInv, DispatchTypeOK, Status, Has, ReceiptStatuses
  <2> QED
    BY <2>1 DEF DispatchInv, Reserved
<1>2. CASE Status = "issued"
  <2>1. Len(receipts) = 1 /\ receipts[1] = "issued"
    BY <1>2, LastStatus DEF DispatchInv, Receipts
  <2>2. ~Has("claimed")
    BY <2>1 DEF DispatchInv, DispatchTypeOK, Has
  <2> QED
    BY <2>2 DEF DispatchInv, Reserved
<1>3. CASE Status = "rejected"
  BY <1>3, LastStatus DEF DispatchInv, Reserved, Receipts
<1>4. CASE Status = "invalidated"
  BY <1>4, LastStatus DEF DispatchInv, Reserved, Receipts
<1> QED
  BY <1>1, <1>2, <1>3, <1>4

\* A receipt that is reserved was never running: the running record follows
\* the only reserved one.
LEMMA NeverRan ==
  ASSUME DispatchInv, Status = "dispatch_reserved"
  PROVE  reservation /\ ~Has("running")
<1>1. Len(receipts) \in DOMAIN receipts /\ receipts[Len(receipts)] = "dispatch_reserved"
  BY LastStatus DEF DispatchInv
<1>2. reservation
  BY <1>1 DEF DispatchInv, Reserved, Dispatched
<1>3. ASSUME NEW i \in DOMAIN receipts, receipts[i] = "running" PROVE FALSE
  <2>1. DOMAIN receipts = 1 .. Len(receipts) /\ Len(receipts) \in Nat
    BY DEF DispatchInv, DispatchTypeOK
  <2>2. i - 1 \in DOMAIN receipts /\ receipts[i - 1] = "dispatch_reserved"
    BY <1>3, <2>1 DEF DispatchInv, Receipts
  <2>3. i - 1 = Len(receipts)
    BY <1>1, <2>2 DEF DispatchInv, Receipts
  <2> QED
    BY <1>3, <2>1, <2>3
<1> QED
  BY <1>2, <1>3 DEF Has

\* Whatever crashes and whatever overlaps, the two journals stay in step.
THEOREM JournalsInStep == DispatchSpec => []JournalsAgree
<1>1. ASSUME DispatchInv PROVE JournalsAgree
  <2>1. Status = "dispatch_reserved" => attempt \notin {"terminated", "failed", "consumed"}
    BY <1>1, NeverRan DEF DispatchInv, Attempted
  <2>2. Status \in {"running", "dispatch_unknown", "failed", "consumed"} => Has(Status)
    BY <1>1, LastStatus DEF DispatchInv
  <2>3. Attempted
    BY <1>1 DEF DispatchInv
  <2>4. Status = "running" => attempt \in Ran
    BY <2>2, <2>3 DEF Attempted
  <2>5. /\ Status = "dispatch_unknown" => attempt = "dispatch_unknown"
        /\ Status = "failed" => attempt \in {"failed", "dispatch_unknown"}
        /\ Status = "consumed" => attempt \in {"consumed", "dispatch_unknown"}
    BY <2>2, <2>3 DEF Attempted
  <2> QED
    BY <1>1, <2>1, <2>4, <2>5, NeverRan, NotReserved DEF JournalsAgree, Ran
<1> QED
  BY <1>1, DispatchInvariant, PTL

\* An authorization is closed by what a process of its attempt came to.
THEOREM ClosedByItsResult == DispatchSpec => []ClosedByResult
<1>1. ASSUME DispatchInv PROVE ClosedByResult
  <2>1. Recorded("consumed") # {} => Has("consumed")
    BY DEF Recorded, Has
  <2>2. Recorded("failed") # {} => Has("failed")
    BY DEF Recorded, Has
  <2>3. (Has("consumed") => Ended("valid")) /\ (Has("failed") => Ended("invalid"))
    BY <1>1 DEF DispatchInv, Judged
  <2> QED
    BY <2>1, <2>2, <2>3 DEF ClosedByResult, Ended
<1> QED
  BY <1>1, DispatchInvariant, PTL

\* Only the control stream's append makes a reservation.
LEMMA OnlyAppended ==
  ASSUME [DispatchNext]_dispatchVars,
         \A c \in Confirmations : ~AppendReservation(c)
  PROVE  reservation' = reservation
<1> USE DEF journals
<1>1. ASSUME NEW c \in Confirmations,
             \/ ConfirmOption(c) \/ Issue(c) \/ Reissue(c) \/ BeginReserve(c) \/ ClaimReceipt(c)
             \/ Invalidate(c) \/ CreateAttempt(c) \/ BindReceipt(c) \/ Spawn(c)
             \/ StartProcess(c) \/ StartFails(c) \/ Acknowledge(c)
      PROVE  reservation' = reservation
  BY <1>1 DEF ConfirmOption, Issue, Reissue, BeginReserve, ClaimReceipt, Invalidate, CreateAttempt,
              BindReceipt, Spawn, StartProcess, StartFails, Acknowledge
<1>2. ASSUME NEW c \in Confirmations,
             \/ ReadReceipt(c) \/ Terminate(c) \/ MarkAttempt(c) \/ MarkReceipt(c) \/ Isolate(c)
             \/ Dispatch(c) \/ Collect(c) \/ Complete(c) \/ CompleteRaises(c) \/ Reconcile(c)
      PROVE  reservation' = reservation
  BY <1>2 DEF ReadReceipt, Terminate, MarkAttempt, MarkReceipt, Isolate, Dispatch, Collect,
              Complete, CompleteRaises, Reconcile
<1>3. ASSUME NEW c \in Confirmations,
             \/ Book(c) \/ Promote(c) \/ CloseReceipt(c)
             \/ RequestSpawn(c) \/ AcknowledgeSpawn(c) \/ RunAttempt(c)
             \/ FailAttempt(c) \/ EndAttempt(c) \/ ConsumeAttempt(c)
      PROVE  reservation' = reservation
  BY <1>3 DEF Book, Promote, CloseReceipt, RequestSpawn, AcknowledgeSpawn, RunAttempt,
              FailAttempt, EndAttempt, ConsumeAttempt, RecordReceipt, RecordAttempt
<1>4. CASE \/ \E report \in Reports : ProcessEnds(report)
           \/ Revoke \/ AuthorizationExpires \/ LeaseExpires \/ Restart
           \/ UNCHANGED dispatchVars
  BY <1>4 DEF ProcessEnds, Revoke, AuthorizationExpires, LeaseExpires, Restart, dispatchVars
<1> QED
  BY <1>1, <1>2, <1>3, <1>4 DEF DispatchNext, CallStep

\* A revocation that comes before the reservation is final: nothing is reserved
\* after it, and since a process needs a reservation nothing starts.
THEOREM RevocationOrdered == DispatchSpec => RevocationWins
<1>1. ASSUME DispatchInv, [DispatchNext]_dispatchVars, revoked, ~reservation
      PROVE  ~reservation' /\ processes' = processes
  <2>1. ~reservation'
    <3>1. CASE \A c \in Confirmations : ~AppendReservation(c)
      BY <1>1, <3>1, OnlyAppended
    <3>2. CASE \E c \in Confirmations : AppendReservation(c)
      BY <1>1, <3>2 DEF AppendReservation, Reservable
    <3> QED
      BY <3>1, <3>2
  <2>2. processes = <<>>
    BY <1>1 DEF DispatchInv, Reserved
  <2>3. processes' = <<>>
    BY <1>1, <2>1, ReservedKept DEF Reserved
  <2> QED
    BY <2>1, <2>2, <2>3
<1>2. DispatchInv /\ [DispatchNext]_dispatchVars
        => [(revoked /\ ~reservation) => (~reservation' /\ processes' = processes)]_dispatchVars
  BY <1>1
<1> QED
  BY <1>2, DispatchInvariant, PTL DEF DispatchSpec, RevocationWins

=============================================================================
