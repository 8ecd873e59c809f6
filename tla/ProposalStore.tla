---------------------------- MODULE ProposalStore ----------------------------
(***************************************************************************)
(* One proposal of the Agent: its append-only log under                     *)
(* workbench/proposals/ (agent/proposals.py, ProposalStore), the HTTP       *)
(* requests that revise, decline and confirm it (http/agent_routes.py), and *)
(* what a confirmation leads to: an operation record and one execution of   *)
(* the operation (agent/orchestrator.py).                                   *)
(*                                                                          *)
(* Every request builds its own ProposalStore, so the store's RLock orders  *)
(* nothing between requests, and the file lock of append_jsonl_atomic       *)
(* covers only the append.  A method therefore is three steps: read the     *)
(* latest revision, read the latest status, then check and append.  Revise  *)
(* and decline are plain functions that run in pool threads; confirm is a   *)
(* coroutine without a suspension point up to the start of the effect, so   *)
(* two confirms never overlap, but a confirm overlaps with the threads.     *)
(*                                                                          *)
(* A fingerprint is the hash of a revision's content, modelled by the       *)
(* content itself: the pair of revision number and changes.                 *)
(***************************************************************************)
EXTENDS Naturals, Sequences

CONSTANTS
  Requests,     \* the requests that can be in flight at the same time
  Changes,      \* the payloads a proposal can carry
  MaxRequests,  \* bound on the requests that are ever started
  EffectSource  \* where the operation's handler reads the changes it executes

ASSUME ChangesAssumption == Changes # {}
ASSUME MaxRequestsAssumption == MaxRequests \in Nat
ASSUME EffectSourceAssumption == EffectSource \in {"record", "latestRevision"}

VARIABLES
  log,      \* the proposal's JSONL file
  fresh,    \* does the live context match the proposal's preconditions?
  req,      \* the requests in flight
  started,  \* how many requests were started (a bound, not code)
  asked,    \* history: the contents users asked to confirm
  records,  \* the operation records, by the content that identifies them
  effects   \* the executions of the operation, in order

vars == <<log, fresh, req, started, asked, records, effects>>

Contents == [revision : Nat, changes : Changes]

Dispositions == {"confirmed", "stale", "declined"}

Entries == [type : {"revision"}, content : Contents, status : {"pending"}]
             \cup [type : {"confirmation"}, content : Contents,
                   status : {"confirmed", "stale"}]
             \cup [type : {"decision"}, content : Contents, status : {"declined"}]

RevisionEntry(n, c) ==
  [type |-> "revision", content |-> [revision |-> n, changes |-> c],
   status |-> "pending"]

ConfirmationEntry(content, status) ==
  [type |-> "confirmation", content |-> content, status |-> status]

\* Fault: a decline that is stored with the status of a confirmation.
DecisionEntry_WrongStatus(content) ==
  [type |-> "decision", content |-> content, status |-> "confirmed"]

DecisionEntry(content) ==
  [type |-> "decision", content |-> content, status |-> "declined"]

-----------------------------------------------------------------------------
(* Reading the log.                                                         *)

Revision == {"revision"}
Confirmation == {"confirmation"}
Disposition == {"confirmation", "decision"}

Contains(l, types) == \E i \in DOMAIN l : l[i].type \in types

\* i is the place of the last entry of l with one of these types.
IsLast(l, types, i) ==
  /\ i \in DOMAIN l
  /\ l[i].type \in types
  /\ \A j \in DOMAIN l : l[j].type \in types => j <= i

LastOf(l, types) == l[CHOOSE i \in DOMAIN l : IsLast(l, types, i)]

LatestRevision(l) == LastOf(l, Revision).content

LatestConfirmation(l) == LastOf(l, Confirmation).content

\* The last confirmation or decision settles the status; a revision is pending.
LatestStatus(l) ==
  IF Contains(l, Disposition) THEN LastOf(l, Disposition).status ELSE "pending"

\* The contents that a client can have on its screen.
Shown == {log[i].content : i \in {j \in DOMAIN log : log[j].type = "revision"}}

-----------------------------------------------------------------------------
NoContent == [revision |-> 0, changes |-> CHOOSE c \in Changes : TRUE]

\* seen: the revision and fingerprint the client sent; changes: the edit of a
\* revise; latest, status: what the request read; fresh: the context that the
\* confirm route computed before it opened the log.
Idle ==
  [op |-> "none", pc |-> "idle", seen |-> NoContent, changes |-> NoContent.changes,
   latest |-> NoContent, status |-> "pending", fresh |-> TRUE]

Steps == {"idle", "readLatest", "readStatus", "settle", "record", "execute"}

RequestStates ==
  [op      : {"none", "revise", "decline", "confirm"},
   pc      : Steps,
   seen    : Contents,
   changes : Changes,
   latest  : Contents,
   status  : Dispositions \cup {"pending"},
   fresh   : BOOLEAN]

At(q, op, pc) == req[q].op = op /\ req[q].pc = pc

Become(q, r) == req' = [req EXCEPT ![q] = r]

Goto(q, pc) == Become(q, [req[q] EXCEPT !.pc = pc])

Finish(q) == Become(q, Idle)

LoopFree == \A q \in Requests : req[q].op # "confirm"

Init ==
  /\ log = <<>>
  /\ fresh = TRUE
  /\ req = [q \in Requests |-> Idle]
  /\ started = 0
  /\ asked = {}
  /\ records = {}
  /\ effects = <<>>

\* The Agent proposes an operation: revision 1 of a new log.
Create(c) ==
  /\ log = <<>>
  /\ log' = <<RevisionEntry(1, c)>>
  /\ UNCHANGED <<fresh, req, started, asked, records, effects>>

\* The dataset, the node or the chain head changes under the proposal, or
\* changes back.
ContextMoves ==
  /\ fresh' = ~fresh
  /\ UNCHANGED <<log, req, started, asked, records, effects>>

Begin(q, request) ==
  /\ req[q] = Idle
  /\ started < MaxRequests
  /\ started' = started + 1
  /\ Become(q, request)
  /\ UNCHANGED <<log, fresh, records, effects>>

BeginRevise(q, seen, c) ==
  /\ Begin(q, [Idle EXCEPT !.op = "revise", !.pc = "readLatest",
                           !.seen = seen, !.changes = c])
  /\ UNCHANGED asked

BeginDecline(q) ==
  /\ log # <<>>
  /\ Begin(q, [Idle EXCEPT !.op = "decline", !.pc = "readLatest"])
  /\ UNCHANGED asked

BeginConfirm(q, seen) ==
  /\ LoopFree
  /\ Begin(q, [Idle EXCEPT !.op = "confirm", !.pc = "readLatest",
                           !.seen = seen, !.fresh = fresh])
  /\ asked' = asked \cup {seen}

ReadLatest(q) ==
  /\ req[q].pc = "readLatest"
  /\ Become(q, [req[q] EXCEPT !.latest = LatestRevision(log), !.pc = "readStatus"])
  /\ UNCHANGED <<log, fresh, started, asked, records, effects>>

ReadStatus(q) ==
  /\ req[q].pc = "readStatus"
  /\ Become(q, [req[q] EXCEPT !.status = LatestStatus(log), !.pc = "settle"])
  /\ UNCHANGED <<log, fresh, started, asked, records, effects>>

\* The base revision is compared with the revision that was read, and the
\* proposal is editable only while it is pending.
MayRevise(r) == r.latest.revision = r.seen.revision /\ r.status = "pending"

SettleRevise(q) ==
  /\ At(q, "revise", "settle")
  /\ IF MayRevise(req[q])
     THEN log' = Append(log, RevisionEntry(req[q].latest.revision + 1, req[q].changes))
     ELSE UNCHANGED log
  /\ Finish(q)
  /\ UNCHANGED <<fresh, started, asked, records, effects>>

SettleDecline(q) ==
  /\ At(q, "decline", "settle")
  /\ IF req[q].status = "pending"
     THEN log' = Append(log, DecisionEntry(req[q].latest))
     ELSE UNCHANGED log
  /\ Finish(q)
  /\ UNCHANGED <<fresh, started, asked, records, effects>>

\* Fault: a confirm that does not ask whether the proposal is pending.
ConfirmOutcome_AnyStatus(r) ==
  IF r.seen.revision # r.latest.revision \/ r.seen # r.latest THEN "refused"
  ELSE IF ~r.fresh THEN "stale"
  ELSE "confirmed"

\* Fault: a confirm that compares the revision's number, not its fingerprint.
ConfirmOutcome_NumberOnly(r) ==
  IF r.seen.revision # r.latest.revision THEN "refused"
  ELSE IF r.status = "confirmed" THEN "existing"
  ELSE IF r.status # "pending" THEN "refused"
  ELSE IF ~r.fresh THEN "stale"
  ELSE "confirmed"

\* What ProposalStore.confirm decides from what it read: the checks in order.
ConfirmOutcome(r) ==
  IF r.seen.revision # r.latest.revision \/ r.seen # r.latest THEN "refused"
  ELSE IF r.status = "confirmed" THEN "existing"
  ELSE IF r.status # "pending" THEN "refused"
  ELSE IF ~r.fresh THEN "stale"
  ELSE "confirmed"

ConfirmRefused(q) ==
  /\ At(q, "confirm", "settle")
  /\ ConfirmOutcome(req[q]) = "refused"
  /\ Finish(q)
  /\ UNCHANGED <<log, fresh, started, asked, records, effects>>

\* A repeated confirm returns the confirmation that stands.
ConfirmAgain(q) ==
  /\ At(q, "confirm", "settle")
  /\ ConfirmOutcome(req[q]) = "existing"
  /\ Become(q, [req[q] EXCEPT !.latest = LatestConfirmation(log), !.pc = "record"])
  /\ UNCHANGED <<log, fresh, started, asked, records, effects>>

ConfirmStale(q) ==
  /\ At(q, "confirm", "settle")
  /\ ConfirmOutcome(req[q]) = "stale"
  /\ log' = Append(log, ConfirmationEntry(req[q].latest, "stale"))
  /\ Finish(q)
  /\ UNCHANGED <<fresh, started, asked, records, effects>>

Confirm(q) ==
  /\ At(q, "confirm", "settle")
  /\ ConfirmOutcome(req[q]) = "confirmed"
  /\ log' = Append(log, ConfirmationEntry(req[q].latest, "confirmed"))
  /\ Goto(q, "record")
  /\ UNCHANGED <<fresh, started, asked, records, effects>>

\* OperationRecordStore.create_pending: the record's id is a hash of the
\* confirmed content, so a repeated call finds the record that exists.
CreateRecord(q) ==
  /\ At(q, "confirm", "record")
  /\ records' = records \cup {req[q].latest}
  /\ Goto(q, "execute")
  /\ UNCHANGED <<log, fresh, started, asked, effects>>

\* The changes an execution of record r carries out.  The workflow and data
\* operations take them from the record; the rerun operations take them from
\* the log's latest revision.
ExecutedChanges(r) ==
  IF EffectSource = "record" THEN r.changes ELSE LatestRevision(log).changes

\* Fault: the claim of a record is not looked at.
Executed_Forgotten(r) == FALSE

Executed(r) == \E i \in DOMAIN effects : effects[i].record = r

\* The effect starts here; OperationLifecycle models what it goes through.  A
\* record that has been claimed is returned as it is.
Execute(q) ==
  /\ At(q, "confirm", "execute")
  /\ LET r == req[q].latest IN
     IF Executed(r)
     THEN UNCHANGED effects
     ELSE effects' = Append(effects, [record |-> r, changes |-> ExecutedChanges(r)])
  /\ Finish(q)
  /\ UNCHANGED <<log, fresh, started, asked, records>>

\* The server process dies; the files stay.
Crash ==
  /\ \E q \in Requests : req[q] # Idle
  /\ req' = [q \in Requests |-> Idle]
  /\ UNCHANGED <<log, fresh, started, asked, records, effects>>

RequestStep(q) ==
  \/ ReadLatest(q)
  \/ ReadStatus(q)
  \/ SettleRevise(q)
  \/ SettleDecline(q)
  \/ ConfirmRefused(q)
  \/ ConfirmAgain(q)
  \/ ConfirmStale(q)
  \/ Confirm(q)
  \/ CreateRecord(q)
  \/ Execute(q)

Next ==
  \/ \E c \in Changes : Create(c)
  \/ ContextMoves
  \/ \E q \in Requests, seen \in Shown, c \in Changes : BeginRevise(q, seen, c)
  \/ \E q \in Requests : BeginDecline(q)
  \/ \E q \in Requests, seen \in Shown : BeginConfirm(q, seen)
  \/ \E q \in Requests : RequestStep(q)
  \/ Crash

Spec == Init /\ [][Next]_vars

-----------------------------------------------------------------------------
Effects == [record : Contents, changes : Changes]

TypeOK ==
  /\ log \in Seq(Entries)
  /\ fresh \in BOOLEAN
  /\ req \in [Requests -> RequestStates]
  /\ started \in 0 .. MaxRequests
  /\ asked \subseteq Contents
  /\ records \subseteq Contents
  /\ effects \in Seq(Effects)

\* A proposal is decided by confirmation at most once: whatever order racing
\* requests read and append in, its log never holds two confirmation entries,
\* so neither a second revision nor a stale one can be confirmed as well.
OneConfirmation ==
  \A i, j \in DOMAIN log :
    log[i].type = "confirmation" /\ log[j].type = "confirmation" => i = j

\* The content that an execution carries out.
Done(effect) == [effect.record EXCEPT !.changes = effect.changes]

\* What is executed is what a user looked at and asked to confirm, and that
\* confirmation is on record: the changes an effect carries out are those of a
\* confirmed entry whose revision number and content some user submitted.  Two
\* racing revisions can carry the same number, so the number alone is no proof.
EffectIsReviewed ==
  \A k \in DOMAIN effects :
    /\ Done(effects[k]) \in asked
    /\ \E i \in DOMAIN log : log[i] = ConfirmationEntry(Done(effects[k]), "confirmed")

\* A proposal is executed at most once, over repeated confirms, racing
\* revisions and crashes between the confirmation, the record and the effect.
OneEffect == Len(effects) <= 1

\* The decisions that the log holds.
Decisions ==
  {[content |-> log[i].content, status |-> log[i].status] :
     i \in {j \in DOMAIN log : log[j].type = "confirmation"}}

\* The store keeps the promise of a proposal, whatever requests race and
\* wherever the server dies: nothing is executed but the one content that was
\* asked for, decided on and recorded, in this order, and that once.
Promise ==
  INSTANCE ReviewedExecution WITH
    decisions <- Decisions,
    recorded <- records,
    executed <- [k \in DOMAIN effects |-> Done(effects[k])]

KeepsPromise == Promise!Spec

=============================================================================
