-------------------------- MODULE AgentConversation --------------------------
(***************************************************************************)
(* The conversations of a project with its Agent: the session store         *)
(* (agent/session.py), the turns that extend a conversation (agent/core.py, *)
(* http/agent_routes.py), its compaction (agent/compaction.py), and the     *)
(* requests that rewind, fork and delete it.                                *)
(*                                                                          *)
(* A session is two files: a log of entries, each of which names its        *)
(* parent, and metadata with a leaf pointer.  An append writes the log,     *)
(* then the metadata, under a lock file; readers and the creation of a      *)
(* session take no lock.  The entries of all sessions form a tree, since a  *)
(* fork starts at an entry of another session: a branch is the path from a  *)
(* leaf to the root.  Entries are numbered in the order they are written, so *)
(* a parent has a smaller number than its children.                         *)
(*                                                                          *)
(* A turn is a coroutine that waits for the provider and for tools; the     *)
(* other requests run in pool threads.  An abort, a timeout and a provider  *)
(* error all end a wait with a reply that says so, and are the answer       *)
(* "reply" here.                                                            *)
(***************************************************************************)
EXTENDS Naturals, Sequences, FiniteSets

CONSTANTS
  Sessions,    \* the ids a project can use, in the order of no one's choice
  First,       \* the conversation that exists at the start
  NoSession,
  Requests,    \* the requests that can be in flight at the same time
  MaxEntries,  \* bound on the entries that are written
  MaxRounds,   \* the tool rounds that a turn's step budget allows
  MaxRequests, \* bound on the requests that are ever sent
  MaxCrashes   \* bound on the crashes of the server

ASSUME FirstAssumption == First \in Sessions /\ NoSession \notin Sessions
ASSUME BoundsAssumption == {MaxEntries, MaxRounds, MaxRequests, MaxCrashes} \subseteq Nat

VARIABLES
  entries,     \* every entry that was ever written
  log,         \* the entries that each session's log file holds
  meta,        \* each session's metadata file
  reserved,    \* memory: the sessions with a turn or a compaction under way
  req,         \* the requests in flight
  sent,        \* how many requests were sent (a bound, not code)
  crashes,
  acked,       \* history: the entries that each conversation was told it has
  interrupted  \* history: the sessions whose turn died with the server

vars == <<entries, log, meta, reserved, req, sent, crashes, acked, interrupted>>

EntryRefs == [session : Sessions \cup {NoSession}, entry : Nat]

NoRef == [session |-> NoSession, entry |-> 0]

Ref(s, e) == [session |-> s, entry |-> e]

\* "standing" tells the Agent its situation; a "call" is an assistant message
\* that asks for tools, or a withdrawn draft, and a "result" what comes back, or
\* the correction; a "notice" is the outcome of a confirmed operation.
Messages == {"user", "call", "result", "reply"}
Kinds == Messages \cup {"standing", "notice", "compaction"}

\* turn: the user message that the entry belongs to.  A compaction keeps the
\* branch from the entry `kept` on and replaces `covers` by its summary.
Entries ==
  [session : Sessions, kind : Kinds, parent : EntryRefs, turn : Nat,
   trigger : {"none", "auto", "manual"}, kept : Nat, covers : SUBSET Nat]

Draft(kind, turn) ==
  [kind |-> kind, turn |-> turn, trigger |-> "none", kept |-> 0, covers |-> {}]

Drafts ==
  [kind : Kinds, turn : Nat, trigger : {"none", "auto", "manual"}, kept : Nat,
   covers : SUBSET Nat]

NewEntry(s, parent, d) ==
  [session |-> s, kind |-> d.kind, parent |-> parent, turn |-> d.turn,
   trigger |-> d.trigger, kept |-> d.kept, covers |-> d.covers]

\* "idle" stands for every status a session has between turns.
MetaStates ==
  [status : {"none", "idle", "running", "deleted"}, leaf : Nat, inherited : EntryRefs]

NoMeta == [status |-> "none", leaf |-> 0, inherited |-> NoRef]

Exists(s) == meta[s].status \in {"idle", "running"}

-----------------------------------------------------------------------------
(* Branches.                                                                *)

Kind(e) == entries[e].kind

\* The entry e and what it continues from.
Path(e) ==
  LET path[i \in 0..Len(entries)] ==
        IF i = 0 THEN {} ELSE {i} \cup path[entries[i].parent.entry]
  IN  path[e]

LeafRef(s) == IF meta[s].leaf # 0 THEN Ref(s, meta[s].leaf) ELSE meta[s].inherited

Branch(s) == Path(LeafRef(s).entry)

\* Every reference on the way is found in the log of the session it names.
Resolves(s) ==
  \A r \in ({LeafRef(s)} \cup {entries[e].parent : e \in Branch(s)}) \ {NoRef} :
    r.entry \in log[r.session]

Compactions(b) == {e \in b : Kind(e) = "compaction"}

\* The first entry that the latest compaction of a branch kept.
LiveStart(b) ==
  LET cs == Compactions(b)
      c  == CHOOSE x \in cs : \A y \in cs : y <= x
  IN  IF cs = {} THEN 1
      ELSE IF entries[c].kept \in b THEN entries[c].kept ELSE c + 1

Live(b) == {e \in b : e >= LiveStart(b) /\ Kind(e) \notin {"standing", "compaction"}}

\* Fault: a cut at any message, which parts a tool call from its result.
CutPoints_AnyMessage(b) ==
  {u \in Live(b) : Kind(u) \in Messages /\ \E e \in Live(b) : e < u}

\* Where a compaction may cut: at a message of the user that is not the first.
CutPoints(b) ==
  LET users == {e \in Live(b) : Kind(e) = "user"}
  IN  IF Cardinality(users) < 2 THEN {}
      ELSE {u \in users : \E e \in Live(b) : e < u}

Summary(b, cut, trigger) ==
  [kind |-> "compaction", turn |-> 0, trigger |-> trigger, kept |-> cut,
   covers |-> {e \in Live(b) : e < cut}]

-----------------------------------------------------------------------------
(* Requests.                                                                *)

\* at: the entry a rewind or a fork aims at; entry: what the request is about
\* to append; then: where it goes on after that.
Idle ==
  [op |-> "none", pc |-> "idle", s |-> NoSession, at |-> NoRef, turn |-> 0,
   rounds |-> 0, entry |-> Draft("notice", 0), then |-> "idle"]

Steps ==
  {"idle", "reserve", "setup", "begin", "append", "advance", "context", "ask",
   "summarize", "tool", "end", "release", "plan", "rewind", "fork", "delete", "unlink"}

RequestStates ==
  [op : {"none", "turn", "compact", "notice", "rewind", "fork", "delete"},
   pc : Steps, s : Sessions \cup {NoSession}, at : EntryRefs, turn : Nat,
   rounds : Nat, entry : Drafts, then : Steps]

Become(q, r) == req' = [req EXCEPT ![q] = r]

Goto(q, pc) == Become(q, [req[q] EXCEPT !.pc = pc])

Finish(q) == Become(q, Idle)

ToAppend(q, draft, then) ==
  /\ Len(entries) < MaxEntries
  /\ Become(q, [req[q] EXCEPT !.pc = "append", !.entry = draft, !.then = then])

\* The lock file of a session is held over the two writes of an append and the
\* two removals of a deletion.
LockHolders(s) == {q \in Requests : req[q].s = s /\ req[q].pc \in {"advance", "unlink"}}

\* Fault: only the lock of the store object, which no other request shares.
LockFree_OwnStore(s) == TRUE

LockFree(s) == LockHolders(s) = {}

\* A deletion holds the lock of the reservations while it removes the files.
ReservationsLocked == \E q \in Requests : req[q].pc = "unlink"

\* Fault: a turn does not ask whether the session has one.
TurnFree_NotAsked(s) == TRUE

TurnFree(s) == s \notin reserved

\* What create_agent_session and a first turn leave behind.
Init ==
  /\ entries = <<NewEntry(First, NoRef, Draft("standing", 0)),
                 NewEntry(First, Ref(First, 1), Draft("user", 2)),
                 NewEntry(First, Ref(First, 2), Draft("reply", 2))>>
  /\ log = [s \in Sessions |-> IF s = First THEN 1..3 ELSE {}]
  /\ meta = [s \in Sessions |->
               IF s = First THEN [status |-> "idle", leaf |-> 3, inherited |-> NoRef]
               ELSE NoMeta]
  /\ reserved = {}
  /\ req = [q \in Requests |-> Idle]
  /\ sent = 0
  /\ crashes = 0
  /\ acked = [s \in Sessions |-> IF s = First THEN 1..3 ELSE {}]
  /\ interrupted = {}

\* A request arrives and finds its session.
MayArrive(q, s) == req[q].pc = "idle" /\ sent < MaxRequests /\ Exists(s)

Arrive(q, op, s, pc, at) ==
  /\ sent' = sent + 1
  /\ Become(q, [Idle EXCEPT !.op = op, !.s = s, !.pc = pc, !.at = at])
  /\ UNCHANGED <<entries, log, meta, reserved, crashes, acked, interrupted>>

StartTurn(q, s) == Arrive(q, "turn", s, "reserve", NoRef)

StartDelete(q, s) == Arrive(q, "delete", s, "delete", NoRef)

StartCompact(q, s) ==
  /\ meta[s].status # "running"
  /\ Arrive(q, "compact", s, "reserve", NoRef)

\* A confirmed operation ended: its outcome is added to the conversation.
StartNotice(q, s) ==
  /\ Len(entries) < MaxEntries
  /\ Arrive(q, "notice", s, "append", NoRef)

\* Back to just before the user's message u of the branch.
StartRewind(q, s, u) ==
  /\ meta[s].status = "idle"
  /\ Resolves(s)
  /\ Kind(u) = "user"
  /\ entries[u].parent # NoRef
  /\ Arrive(q, "rewind", s, "rewind", entries[u].parent)

\* From a reply of the branch the fork includes it, from a message of the user
\* it stops before it.
ForkPoint(s, e) == IF Kind(e) = "user" THEN entries[e].parent ELSE Ref(s, e)

StartFork(q, s, e) ==
  /\ meta[s].status = "idle"
  /\ Resolves(s)
  /\ Kind(e) \in Messages
  /\ ForkPoint(s, e) # NoRef
  /\ Arrive(q, "fork", s, "fork", ForkPoint(s, e))

-----------------------------------------------------------------------------
(* Appending an entry.                                                      *)

\* The lock is taken, the metadata read, and the log written.
AppendLog(q) ==
  LET s  == req[q].s
      id == Len(entries) + 1
      d  == IF req[q].entry.kind = "user" THEN Draft("user", id) ELSE req[q].entry
  IN  /\ req[q].pc = "append"
      /\ LockFree(s)
      /\ Exists(s)
      /\ id <= MaxEntries
      /\ entries' = Append(entries, NewEntry(s, LeafRef(s), d))
      /\ log' = [log EXCEPT ![s] = @ \cup {id}]
      /\ Become(q, [req[q] EXCEPT !.pc = "advance", !.at = Ref(s, id),
                                  !.turn = IF d.kind = "user" THEN id ELSE @])
      /\ UNCHANGED <<meta, reserved, sent, crashes, acked, interrupted>>

\* The metadata is written, and the caller has its entry.
AppendMeta(q) ==
  LET s  == req[q].s
      id == req[q].at.entry
  IN  /\ req[q].pc = "advance"
      /\ meta' = [meta EXCEPT ![s].leaf = id]
      /\ acked' = [acked EXCEPT ![s] = @ \cup {id}]
      /\ IF req[q].then = "idle" THEN Finish(q)
         ELSE Become(q, [req[q] EXCEPT !.pc = req[q].then, !.at = NoRef,
                                       !.entry = Draft("notice", 0), !.then = "idle"])
      /\ UNCHANGED <<entries, log, reserved, sent, crashes, interrupted>>

\* The session is gone: a notice is given up.
AppendRefused(q) ==
  /\ req[q].pc = "append"
  /\ LockFree(req[q].s)
  /\ ~Exists(req[q].s)
  /\ Finish(q)
  /\ UNCHANGED <<entries, log, meta, reserved, sent, crashes, acked, interrupted>>

-----------------------------------------------------------------------------
(* Turns and compactions.                                                   *)

Reserve(q) ==
  /\ req[q].pc = "reserve"
  /\ ~ReservationsLocked
  /\ IF TurnFree(req[q].s)
     THEN /\ reserved' = reserved \cup {req[q].s}
          /\ Goto(q, IF req[q].op = "turn" THEN "setup" ELSE "plan")
     ELSE /\ Finish(q)
          /\ UNCHANGED reserved
  /\ UNCHANGED <<entries, log, meta, sent, crashes, acked, interrupted>>

Release(q) ==
  /\ req[q].pc = "release"
  /\ ~ReservationsLocked
  /\ reserved' = reserved \ {req[q].s}
  /\ Finish(q)
  /\ UNCHANGED <<entries, log, meta, sent, crashes, acked, interrupted>>

\* Before a turn the Agent is told what finished since, and a newer context.
TellBefore(q) ==
  /\ req[q].pc = "setup"
  /\ Exists(req[q].s)
  /\ ToAppend(q, Draft("notice", 0), "setup")
  /\ UNCHANGED <<entries, log, meta, reserved, sent, crashes, acked, interrupted>>

\* The turn's tools and provider are set up, or there is no provider.
SetUp(q) ==
  /\ req[q].pc = "setup"
  /\ \E pc \in {"begin", "release"} : Goto(q, pc)
  /\ UNCHANGED <<entries, log, meta, reserved, sent, crashes, acked, interrupted>>

\* The session shows running, and the user's message is appended.
BeginTurn(q) ==
  LET s == req[q].s
  IN  /\ req[q].pc = "begin"
      /\ LockFree(s)
      /\ IF Exists(s)
         THEN /\ meta' = [meta EXCEPT ![s].status = "running"]
              /\ interrupted' = interrupted \ {s}
              /\ ToAppend(q, Draft("user", 0), "context")
         ELSE /\ Goto(q, "release")
              /\ UNCHANGED <<meta, interrupted>>
      /\ UNCHANGED <<entries, log, reserved, sent, crashes, acked>>

\* The messages for the provider are built from the branch.
BuildContext(q) ==
  /\ req[q].pc = "context"
  /\ Goto(q, IF Resolves(req[q].s) THEN "ask" ELSE "end")
  /\ UNCHANGED <<entries, log, meta, reserved, sent, crashes, acked, interrupted>>

\* A compaction reads the branch and plans; writing the summary is a wait.  In a
\* turn it comes before a request, or after one that was refused as too long.
PlanSummary(q) ==
  LET b == Branch(req[q].s)
      trigger == IF req[q].op = "turn" THEN "auto" ELSE "manual"
  IN  /\ req[q].pc \in {"plan", "ask"}
      /\ Resolves(req[q].s)
      /\ \E cut \in CutPoints(b) :
           Become(q, [req[q] EXCEPT !.pc = "summarize",
                                    !.entry = Summary(b, cut, trigger)])
      /\ UNCHANGED <<entries, log, meta, reserved, sent, crashes, acked, interrupted>>

\* There is nothing to summarize, or no branch.
PlanNothing(q) ==
  /\ req[q].pc = "plan"
  /\ ~Resolves(req[q].s) \/ CutPoints(Branch(req[q].s)) = {}
  /\ Goto(q, "release")
  /\ UNCHANGED <<entries, log, meta, reserved, sent, crashes, acked, interrupted>>

AfterSummary(q) == IF req[q].op = "turn" THEN "context" ELSE "release"

\* The summary is written, or the provider failed.
Summarized(q) ==
  /\ req[q].pc = "summarize"
  /\ \/ ToAppend(q, req[q].entry, AfterSummary(q))
     \/ Become(q, [req[q] EXCEPT !.pc = AfterSummary(q), !.entry = Draft("notice", 0)])
  /\ UNCHANGED <<entries, log, meta, reserved, sent, crashes, acked, interrupted>>

\* The answer; the note that the turn was stopped, failed or ran out of budget;
\* or the summary of the proposal that a tool made ready.
Reply(q) ==
  /\ req[q].pc = "ask"
  /\ ToAppend(q, Draft("reply", req[q].turn), "end")
  /\ UNCHANGED <<entries, log, meta, reserved, sent, crashes, acked, interrupted>>

\* The provider asks for tools, or its draft is withdrawn: another round.
Round(q) ==
  /\ req[q].pc = "ask"
  /\ req[q].rounds < MaxRounds
  /\ Len(entries) < MaxEntries
  /\ Become(q, [req[q] EXCEPT !.pc = "append", !.rounds = @ + 1, !.then = "tool",
                              !.entry = Draft("call", req[q].turn)])
  /\ UNCHANGED <<entries, log, meta, reserved, sent, crashes, acked, interrupted>>

ToolReturns(q) ==
  /\ req[q].pc = "tool"
  /\ ToAppend(q, Draft("result", req[q].turn), "context")
  /\ UNCHANGED <<entries, log, meta, reserved, sent, crashes, acked, interrupted>>

\* Fault: the status is set back only after an answer, not when a turn raises.
EndStatus_AfterReply(q) ==
  LET b == Branch(req[q].s)
  IN  IF \E e \in b : Kind(e) = "reply" /\ entries[e].turn = req[q].turn
      THEN "idle" ELSE meta[req[q].s].status

\* Fault: a turn that ends without a status of its own stores none.
EndStatus_NoDefault(q) == "null"

EndStatus(q) == "idle"

\* The finally block of a turn.
EndTurn(q) ==
  LET s == req[q].s
  IN  /\ req[q].pc = "end"
      /\ LockFree(s)
      /\ meta' = IF Exists(s) THEN [meta EXCEPT ![s].status = EndStatus(q)] ELSE meta
      /\ Goto(q, "release")
      /\ UNCHANGED <<entries, log, reserved, sent, crashes, acked, interrupted>>

-----------------------------------------------------------------------------
(* Rewinding, forking and deleting.                                         *)

\* Fault: the status is checked when the request arrives and not again.
MayRewind_AsRead(s) == Exists(s)

MayRewind(s) == meta[s].status = "idle"

\* Fault: the target is not looked for, as it was on the branch when it was chosen.
OnBranch_NotAsked(s, to) == TRUE

OnBranch(s, to) == to.entry \in Branch(s) /\ entries[to.entry].session = to.session

\* Fault: the leaf moves to the target, whichever session's log it is in.
Rewound_OwnLeaf(m, s, to) == [m EXCEPT !.leaf = to.entry]

\* The leaf moves to the target, or the session starts from it if it belongs to
\* a session before the fork.
Rewound(m, s, to) ==
  IF to.session = s THEN [m EXCEPT !.leaf = to.entry]
  ELSE [m EXCEPT !.leaf = 0, !.inherited = to]

\* The target must be an entry of the branch as it is now.
Rewind(q) ==
  LET s == req[q].s
      to == req[q].at
  IN  /\ req[q].pc = "rewind"
      /\ LockFree(s)
      /\ IF MayRewind(s) /\ Resolves(s) /\ OnBranch(s, to)
         THEN /\ meta' = [meta EXCEPT ![s] = Rewound(@, s, to)]
              /\ acked' = [acked EXCEPT ![s] = @ \cap Path(to.entry)]
         ELSE UNCHANGED <<meta, acked>>
      /\ Finish(q)
      /\ UNCHANGED <<entries, log, reserved, sent, crashes, interrupted>>

\* The new session; its id was never used.
Fork(q, f) ==
  /\ req[q].pc = "fork"
  /\ meta[f].status = "none"
  /\ meta' = [meta EXCEPT ![f] = [status |-> "idle", leaf |-> 0, inherited |-> req[q].at]]
  /\ acked' = [acked EXCEPT ![f] = Path(req[q].at.entry)]
  /\ Finish(q)
  /\ UNCHANGED <<entries, log, reserved, sent, crashes, interrupted>>

BranchesOf(s) == {f \in Sessions \ {s} : Exists(f) /\ meta[f].inherited.session = s}

MayDelete(s) ==
  /\ s \notin reserved
  /\ meta[s].status = "idle"
  /\ BranchesOf(s) = {}

DeleteRefused(q) ==
  /\ req[q].pc = "delete"
  /\ LockFree(req[q].s)
  /\ ~ReservationsLocked
  /\ ~MayDelete(req[q].s)
  /\ Finish(q)
  /\ UNCHANGED <<entries, log, meta, reserved, sent, crashes, acked, interrupted>>

DeleteLog(q) ==
  /\ req[q].pc = "delete"
  /\ LockFree(req[q].s)
  /\ ~ReservationsLocked
  /\ MayDelete(req[q].s)
  /\ log' = [log EXCEPT ![req[q].s] = {}]
  /\ Goto(q, "unlink")
  /\ UNCHANGED <<entries, meta, reserved, sent, crashes, acked, interrupted>>

DeleteMeta(q) ==
  /\ req[q].pc = "unlink"
  /\ meta' = [meta EXCEPT ![req[q].s] = [NoMeta EXCEPT !.status = "deleted"]]
  /\ acked' = [acked EXCEPT ![req[q].s] = {}]
  /\ Finish(q)
  /\ UNCHANGED <<entries, log, reserved, sent, crashes, interrupted>>

\* The server dies: what is in memory is gone, the files stay as they are.
Crash ==
  /\ crashes < MaxCrashes
  /\ crashes' = crashes + 1
  /\ req' = [q \in Requests |-> Idle]
  /\ reserved' = {}
  /\ interrupted' = {s \in Sessions : meta[s].status = "running"}
  /\ UNCHANGED <<entries, log, meta, sent, acked>>

-----------------------------------------------------------------------------
TurnStep(q) ==
  \/ Reserve(q) \/ Release(q) \/ TellBefore(q) \/ SetUp(q) \/ BeginTurn(q)
  \/ BuildContext(q) \/ PlanSummary(q) \/ PlanNothing(q) \/ Summarized(q)
  \/ Reply(q) \/ Round(q) \/ ToolReturns(q) \/ EndTurn(q)

StoreStep(q) ==
  \/ AppendLog(q) \/ AppendMeta(q) \/ AppendRefused(q)
  \/ Rewind(q) \/ (\E f \in Sessions : Fork(q, f))
  \/ DeleteRefused(q) \/ DeleteLog(q) \/ DeleteMeta(q)

RequestArrives(q) ==
  \E s \in Sessions :
    /\ MayArrive(q, s)
    /\ \/ StartTurn(q, s) \/ StartDelete(q, s) \/ StartCompact(q, s) \/ StartNotice(q, s)
       \/ \E e \in Branch(s) : StartRewind(q, s, e) \/ StartFork(q, s, e)

Next ==
  \/ \E q \in Requests : RequestArrives(q) \/ TurnStep(q) \/ StoreStep(q)
  \/ Crash

Spec == Init /\ [][Next]_vars

-----------------------------------------------------------------------------
(* Properties.                                                              *)

\* Every file and every request has its shape (session.py).
TypeOK ==
  /\ entries \in Seq(Entries)
  /\ log \in [Sessions -> SUBSET (1..Len(entries))]
  /\ meta \in [Sessions -> MetaStates]
  /\ reserved \subseteq Sessions
  /\ req \in [Requests -> RequestStates]
  /\ sent \in 0..MaxRequests
  /\ crashes \in 0..MaxCrashes
  /\ acked \in [Sessions -> SUBSET (1..Len(entries))]
  /\ interrupted \subseteq Sessions

\* An entry whose append returned stays on its conversation's branch until it is
\* rewound or deleted: through concurrent appends of turns, notices and
\* compactions, through forks, and over a crash between the two files; and
\* nothing is written to a conversation that is gone
\* (JsonlSessionRepository.append, delete_session).
NothingLost ==
  \A s \in Sessions :
    IF Exists(s) THEN Resolves(s) => acked[s] \subseteq Branch(s) ELSE log[s] = {}

\* On every branch the messages of a turn are together: no other turn's message
\* comes between them, whatever is sent, rewound or restarted meanwhile
\* (_TURN_RESERVATION_LOCK and the refusal to rewind while a turn runs).
TurnsAreContiguous ==
  \A s \in Sessions :
    LET b == {e \in Branch(s) : entries[e].turn # 0}
    IN  \A e, g \in b :
          e < g /\ entries[e].turn = entries[g].turn
            => \A f \in b \cap (e..g) : entries[f].turn = entries[e].turn

\* A turn that is about to end leaves its question and an answer to it on the branch of
\* its conversation, unless the branch itself cannot be read (AgentCore.prompt:
\* errors, aborts and timeouts become replies).
Answered ==
  \A q \in Requests :
    LET s == req[q].s
        t == req[q].turn
    IN  /\ req[q].op = "turn"
        /\ req[q].pc = "end"
        => Exists(s) /\ (Resolves(s) =>
             \E e \in Branch(s) : Kind(e) = "reply" /\ entries[e].turn = t /\ t \in Branch(s))

\* A session that shows running has a turn under way or lost it in a crash: no
\* other way out of a turn leaves it running, and so closed to rewinding,
\* forking and deletion (AgentCore._begin, _end).
RunningIsTrue ==
  \A s \in Sessions : meta[s].status = "running" =>
    \/ s \in interrupted
    \/ \E q \in Requests : req[q].op = "turn" /\ req[q].s = s
                           /\ req[q].pc \notin {"reserve", "release"}

\* What the provider is not sent of a branch is in a summary: everything before
\* the entry that the latest compaction kept is covered, no summary covers what
\* is not on the branch, and no turn is cut in two.  This is so when the
\* summaries were written by turns, under their running status
\* (compaction.py, plan_cut and live_start; context.py, _project).
SummaryFits(b) ==
  LET cs == Compactions(b)
      covered == UNION {entries[c].covers : c \in cs}
      hidden == {e \in b : e < LiveStart(b) /\ Kind(e) \notin {"standing", "compaction"}}
  IN  /\ covered \subseteq b
      /\ hidden \subseteq covered
      /\ \A c \in cs : entries[c].kept \in b
      /\ \A e \in hidden, f \in b \ hidden :
           entries[e].turn # 0 => entries[e].turn # entries[f].turn

ContextIsWhole ==
  \A s \in Sessions :
    LET b == Branch(s)
    IN  /\ Exists(s)
        /\ \A c \in Compactions(b) : entries[c].trigger = "auto"
        => SummaryFits(b)

\* A conversation changes only by what is asked of it: its branch grows by one
\* entry, after all it had, or is cut back to one of its entries.  Forks of it,
\* deletions, and appends to other conversations do not reach it, and a rewind
\* that was overtaken by another does not put a branch back
\* (JsonlSessionRepository.append, rewind, fork).
BranchesAreTheirOwn ==
  [][\A s \in Sessions :
       Exists(s) /\ Exists(s)' /\ Branch(s)' # Branch(s) =>
         \E q \in Requests :
           /\ req[q].s = s
           /\ \/ /\ req[q].pc = "advance"
                 /\ Branch(s)' = Branch(s) \cup {req[q].at.entry}
                 /\ \A e \in Branch(s) : e < req[q].at.entry
              \/ /\ req[q].pc = "rewind"
                 /\ \E e \in Branch(s) : Branch(s)' = {f \in Branch(s) : f <= e}]_vars

\* What a user can read of a conversation stays readable: no append that a crash
\* cuts in two, no rewind into the part before a fork, no late request and no
\* fork makes a branch lead to an entry that is not in the log where it is
\* looked for.  Only the removal of a log can (JsonlSessionRepository.rewind,
\* append, get_branch).
ReadableUntilDeleted ==
  [][\A s \in Sessions :
       Exists(s) /\ Resolves(s) /\ Exists(s)' /\ ~Resolves(s)' =>
         \E q \in Requests : req[q].pc = "delete" /\ req'[q].pc = "unlink"]_vars

\* A fork keeps its start: the entry it continues from is in the log of the
\* session that it names (fork_agent_session, delete_session).
ForksKeepTheirStart ==
  \A s \in Sessions :
    Exists(s) /\ meta[s].inherited # NoRef
      => meta[s].inherited.entry \in log[meta[s].inherited.session]

=============================================================================
