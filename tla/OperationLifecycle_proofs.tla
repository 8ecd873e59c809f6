---------------------- MODULE OperationLifecycle_proofs ----------------------
(***************************************************************************)
(* Proofs about OperationLifecycle, for any records, requests, exceptions   *)
(* and crashes: its types, one child run per rerun, no active chain without  *)
(* its result, final terminal records, the agreement of records and domain   *)
(* state, and that the lifecycle implements OperationOutcome.                *)
(*                                                                          *)
(* The argument rests on the event loop.  One request at most holds it       *)
(* (OneHolder), so what that request has read is still so at its next write  *)
(* (Holder); a request whose workflow is in a thread knows only that its     *)
(* record was open when it was read (Copy), and the transition table refuses *)
(* what it asks of a record that has ended since.                            *)
(***************************************************************************)
EXTENDS OperationLifecycle, SequenceTheorems, TLAPS

\* A request holds the event loop, except while its workflow is in a thread.
HoldsLoop(q) == req[q].pc \notin {"idle", "thread"}

OneHolder == \A p, q \in Requests : HoldsLoop(p) /\ HoldsLoop(q) => p = q

Bound(q) == req[q].record.execution.bound

\* A request works on a record; its copy is of a time when that had not ended,
\* and past the claim both know of the claim.
Copy(q) ==
  req[q].pc # "idle" =>
    /\ req[q].r \in Records
    /\ req[q].record.status \notin Terminal
    /\ Kind[req[q].r] = "rerun" => Bound(q) <= Len(children[req[q].r])
    /\ req[q].pc = "thread" => Kind[req[q].r] = "workflow"
    /\ req[q].pc \notin {"recover", "claim"} =>
         req[q].record.execution.claimed /\ rec[req[q].r].execution.claimed

Copies == \A q \in Requests : Copy(q)

\* The steps at which the stored record has not ended either.
OpenSteps ==
  {"recover", "claim", "lease", "prepareFork", "prepareChain", "prepared", "effect",
   "submitManifest", "submitDispatch", "submitted", "nonterminal", "commitChain",
   "commitFork", "effectStatus", "settle"}

Submitting == {"submitManifest", "submitDispatch"}
Committing == {"commitChain", "commitFork", "effectStatus", "settle"}

\* What the request that holds the loop knows at each of its steps.
Holder(q) ==
  HoldsLoop(q) =>
    /\ req[q].pc \in OpenSteps => Stored(q).status \notin Terminal
    /\ req[q].pc \in {"recover", "claim"} => Stored(q) = req[q].record
    /\ HasChain(req[q].r) => Stored(q).execution = req[q].record.execution
    /\ req[q].pc \in {"prepareFork", "prepareChain"} => HasChain(req[q].r)
    /\ req[q].pc \in Submitting =>
         /\ Kind[req[q].r] = "rerun"
         /\ Len(children[req[q].r]) = 1
         /\ children[req[q].r][1].state # "completed"
         /\ ~children[req[q].r][1].alive
    /\ req[q].pc \in {"bind", "submitted"} => req[q].outcome # "none"
    /\ req[q].pc \in {"bind", "submitted"} /\ Kind[req[q].r] = "rerun" =>
         children[req[q].r] # <<>>
    /\ req[q].pc \in {"submitted"} \cup Committing /\ Kind[req[q].r] = "rerun" => Bound(q) # 0
    /\ req[q].pc \in Committing => req[q].outcome \in {"completed", "failed"}
    /\ req[q].pc \in {"bind", "submitted"} \cup Committing
       /\ Kind[req[q].r] = "rerun" /\ req[q].outcome = "completed" =>
         /\ Bound(q) # 0
         /\ children[req[q].r][Bound(q)].state = "completed"

Holders == \A q \in Requests : Holder(q)

Children ==
  \A r \in Records :
    \A i \in DOMAIN children[r] : children[r][i].state = "completed" => ~children[r][i].alive

LifecycleInv ==
  /\ TypeOK /\ OneHolder /\ Copies /\ Holders /\ Children
  /\ OneChildRun /\ ActiveChainHasResult

\* What holds while no exception comes after the terminal status: the steps at
\* which the request knows the ids of its fork and chain, and those after the end.
WithIds ==
  {"effect", "submitManifest", "submitDispatch", "bind", "submitted", "nonterminal"}
    \cup Committing

Ended == {"announce", "announceFailed", "release"}

DomainHolder(q) ==
  HoldsLoop(q) /\ HasChain(req[q].r) =>
    /\ req[q].pc \notin Ended => rec[req[q].r].status \notin Terminal
    /\ req[q].pc \in WithIds => req[q].record.execution.ids
    /\ req[q].pc \in Committing \ {"commitChain"} =>
         chain[req[q].r] = DomainState(req[q].outcome)
    /\ req[q].pc \in {"effectStatus", "settle"} => fork[req[q].r] = DomainState(req[q].outcome)
    /\ req[q].pc \in {"failFork", "settleFailed"} => chain[req[q].r] # "active"
    /\ req[q].pc = "settleFailed" => fork[req[q].r] # "active"

DomainFits(r) ==
  HasChain(r) =>
    /\ chain[r] = "active" \/ fork[r] = "active" => rec[r].execution.ids
    /\ rec[r].status = "completed" =>
         chain[r] = "active" /\ fork[r] = "active" /\ rec[r].effect = "committed"
    /\ rec[r].status = "failed" => chain[r] # "active" /\ fork[r] # "active"

DomainInv ==
  /\ \A q \in Requests : DomainHolder(q)
  /\ \A r \in Records : DomainFits(r)

-----------------------------------------------------------------------------
(* Sequences and the transition table.                                      *)

LEMMA ReplaceInSeq ==
  ASSUME NEW S, NEW s \in Seq(S), NEW i \in DOMAIN s, NEW e \in S
  PROVE  /\ [s EXCEPT ![i] = e] \in Seq(S)
         /\ Len([s EXCEPT ![i] = e]) = Len(s)
         /\ \A j \in DOMAIN s : [s EXCEPT ![i] = e][j] = IF j = i THEN e ELSE s[j]
BY ExceptSeq, LenProperties

LEMMA NothingFollowsTerminal ==
  ASSUME NEW s \in Terminal
  PROVE  Allowed[s] = {}
BY DEF Allowed, Statuses, Terminal

LEMMA TerminalIsClosed ==
  ASSUME TypeOK, NEW r \in Records, NEW s, rec[r].status \in Terminal, CanAppend(r, s)
  PROVE  s = rec[r].status
BY NothingFollowsTerminal DEF CanAppend


-----------------------------------------------------------------------------
(* What the ways to change a request do.                                    *)

OthersSame(q) == \A p \in Requests : p # q => req'[p] = req[p]

LEMMA GotoMeans ==
  ASSUME TypeOK, NEW q \in Requests, NEW pc \in Steps, Goto(q, pc)
  PROVE  /\ req' \in [Requests -> RequestStates]
         /\ OthersSame(q)
         /\ req'[q].pc = pc
         /\ req'[q].r = req[q].r
         /\ req'[q].record = req[q].record
         /\ req'[q].outcome = req[q].outcome
BY DEF TypeOK, Goto, RequestStates, OthersSame

LEMMA EffectMeans ==
  ASSUME TypeOK, NEW q \in Requests, NEW o \in {"running", "completed", "failed"},
         NEW pc \in Steps, Effect(q, o, pc)
  PROVE  /\ req' \in [Requests -> RequestStates]
         /\ OthersSame(q)
         /\ req'[q].pc = pc
         /\ req'[q].r = req[q].r
         /\ req'[q].record = req[q].record
         /\ req'[q].outcome = o
<1> DEFINE new == [req[q] EXCEPT !.outcome = o, !.pc = pc]
<1>0. req[q] \in RequestStates /\ o \in {"none", "running", "completed", "failed"}
  BY DEF TypeOK
<1>1. new \in RequestStates
  BY <1>0 DEF RequestStates
<1>2. req' = [req EXCEPT ![q] = new]
  BY DEF TypeOK, Effect
<1>3. new.pc = pc /\ new.r = req[q].r /\ new.record = req[q].record /\ new.outcome = o
  BY DEF TypeOK, RequestStates
<1> QED
  BY <1>1, <1>2, <1>3 DEF TypeOK, OthersSame

LEMMA FinishMeans ==
  ASSUME TypeOK, NEW q \in Requests, Finish(q)
  PROVE  /\ req' \in [Requests -> RequestStates]
         /\ OthersSame(q)
         /\ req'[q].pc = "idle"
BY DEF TypeOK, Finish, Idle, PendingRecord, RequestStates, RecordStates, Executions, Statuses,
       OthersSame

LEMMA AppendMeans ==
  ASSUME TypeOK, NEW q \in Requests, NEW new \in RecordStates, NEW pc \in Steps,
         req[q].r \in Records, AppendStatus(q, new, pc)
  PROVE  /\ rec' \in [Records -> RecordStates]
         /\ rec'[req[q].r] = new
         /\ \A r \in Records : r # req[q].r => rec'[r] = rec[r]
         /\ req' \in [Requests -> RequestStates]
         /\ OthersSame(q)
         /\ req'[q].pc = pc
         /\ req'[q].r = req[q].r
         /\ req'[q].record = new
         /\ req'[q].outcome = req[q].outcome
<1> DEFINE state == [req[q] EXCEPT !.record = new, !.pc = pc]
<1>1. state \in RequestStates
  BY DEF TypeOK, RequestStates
<1>2. req' = [req EXCEPT ![q] = state]
  BY DEF TypeOK, AppendStatus
<1>3. state.pc = pc /\ state.r = req[q].r /\ state.record = new /\ state.outcome = req[q].outcome
  BY DEF TypeOK, RequestStates
<1>4. rec' = [rec EXCEPT ![req[q].r] = new]
  BY DEF AppendStatus
<1> QED
  BY <1>1, <1>2, <1>3, <1>4 DEF TypeOK, OthersSame

LEMMA EnterMeans ==
  ASSUME TypeOK, NEW q \in Requests, NEW r \in Records, NEW pc \in Steps, Enter(q, r, pc)
  PROVE  /\ req' \in [Requests -> RequestStates]
         /\ OthersSame(q)
         /\ req'[q].pc = pc
         /\ req'[q].r = r
         /\ req'[q].record = rec[r]
<1> DEFINE state == [Idle EXCEPT !.pc = pc, !.r = r, !.record = rec[r]]
<1>1. Idle \in RequestStates
  BY DEF Idle, PendingRecord, RequestStates, RecordStates, Executions, Statuses
<1>2. rec[r] \in RecordStates
  BY DEF TypeOK
<1>3. state \in RequestStates
  BY <1>1, <1>2 DEF RequestStates
<1>4. state.pc = pc /\ state.r = r /\ state.record = rec[r]
  BY <1>1 DEF RequestStates
<1>5. req' = [req EXCEPT ![q] = state]
  BY DEF Enter
<1> HIDE DEF state
<1> QED
  BY <1>3, <1>4, <1>5 DEF TypeOK, OthersSame

ChildStates == [state : RunStates, alive : BOOLEAN]

LEMMA ReplaceChild ==
  ASSUME TypeOK, NEW r \in Records, NEW i \in DOMAIN children[r], NEW e \in ChildStates,
         children' = [children EXCEPT ![r] = [children[r] EXCEPT ![i] = e]]
  PROVE  /\ children' \in [Records -> Seq(ChildStates)]
         /\ \A s \in Records : s # r => children'[s] = children[s]
         /\ Len(children'[r]) = Len(children[r])
         /\ DOMAIN children'[r] = DOMAIN children[r]
         /\ children'[r][i] = e
         /\ \A j \in DOMAIN children[r] : j # i => children'[r][j] = children[r][j]
<1>1. children[r] \in Seq(ChildStates)
  BY DEF TypeOK, ChildStates
<1> DEFINE s == [children[r] EXCEPT ![i] = e]
<1>2. /\ s \in Seq(ChildStates)
      /\ Len(s) = Len(children[r])
      /\ \A j \in DOMAIN children[r] : s[j] = IF j = i THEN e ELSE children[r][j]
  BY <1>1, ReplaceInSeq
<1>3. children' = [children EXCEPT ![r] = s]
  OBVIOUS
<1>4. DOMAIN s = DOMAIN children[r]
  OBVIOUS
<1> HIDE DEF s
<1>5. children \in [Records -> Seq(ChildStates)]
  BY DEF TypeOK, ChildStates
<1>6. children' \in [Records -> Seq(ChildStates)]
  BY <1>2, <1>3, <1>5
<1>7. children'[r] = s /\ \A p \in Records : p # r => children'[p] = children[p]
  BY <1>3, <1>5
<1> QED
  BY <1>2, <1>4, <1>6, <1>7

-----------------------------------------------------------------------------
(* What a step of a request leaves to the others.                           *)

StateInv == Children /\ OneChildRun /\ ActiveChainHasResult

Kept(q) ==
  /\ OthersSame(q)
  /\ \A r \in Records : rec[r].execution.claimed => rec'[r].execution.claimed
  /\ \A r \in Records : Len(children[r]) <= Len(children'[r])

LEMMA OthersFit ==
  ASSUME LifecycleInv, NEW q \in Requests, HoldsLoop(q) \/ LoopFree,
         TypeOK', Kept(q), Copy(q)', Holder(q)', StateInv'
  PROVE  LifecycleInv'
<1>1. \A p \in Requests : p # q => ~HoldsLoop(p) /\ ~HoldsLoop(p)' /\ req'[p] = req[p]
  BY DEF LifecycleInv, OneHolder, HoldsLoop, LoopFree, Kept, OthersSame
<1>2. OneHolder'
  BY <1>1 DEF OneHolder
<1>3. Holders'
  BY <1>1 DEF Holders, Holder
<1>4. ASSUME NEW p \in Requests, p # q
      PROVE  Copy(p)'
  <2>1. Copy(p) /\ req'[p] = req[p]
    BY <1>1, <1>4 DEF LifecycleInv, Copies
  <2>2. CASE req[p].pc = "idle"
    BY <2>1, <2>2 DEF Copy
  <2>3. CASE req[p].pc # "idle"
    <3> DEFINE r == req[p].r
    <3>1. r \in Records
      BY <2>1, <2>3 DEF Copy
    <3>2. Bound(p) \in Nat /\ Len(children[r]) \in Nat /\ Len(children'[r]) \in Nat
      <4>1. children[r] \in Seq(ChildStates) /\ children'[r] \in Seq(ChildStates)
        BY <3>1 DEF LifecycleInv, TypeOK, ChildStates
      <4>2. req[p] \in RequestStates
        BY DEF LifecycleInv, TypeOK
      <4> HIDE DEF r
      <4> QED
        BY <4>1, <4>2, LenProperties DEF RequestStates, RecordStates, Executions, Bound
    <3>3. Len(children[r]) <= Len(children'[r])
      BY <3>1 DEF Kept
    <3>4. rec[r].execution.claimed => rec'[r].execution.claimed
      BY <3>1 DEF Kept
    <3>5. Kind[r] = "rerun" => Bound(p) <= Len(children'[r])
      BY <2>1, <2>3, <3>2, <3>3 DEF Copy
    <3>6. Bound(p)' = Bound(p) /\ req'[p].r = r
      BY <2>1 DEF Bound
    <3> QED
      BY <2>1, <2>3, <3>1, <3>4, <3>5, <3>6 DEF Copy
  <2> QED
    BY <2>2, <2>3
<1>5. Copies'
  BY <1>4 DEF Copies
<1> QED
  BY <1>2, <1>3, <1>5 DEF LifecycleInv, StateInv

LEMMA StateKept ==
  ASSUME LifecycleInv, UNCHANGED <<rec, fork, chain, children>>
  PROVE  StateInv'
BY DEF LifecycleInv, StateInv, Children, OneChildRun, ActiveChainHasResult

\* A step of a request that changes nothing but itself (and lease or published).
LEMMA RequestOnly ==
  ASSUME LifecycleInv, NEW q \in Requests, HoldsLoop(q) \/ LoopFree,
         UNCHANGED <<rec, fork, chain, children, crashes>>,
         lease' \in [holder : Records \cup {NoRecord}, live : BOOLEAN],
         published' \subseteq Records,
         req' \in [Requests -> RequestStates], OthersSame(q), Copy(q)', Holder(q)'
  PROVE  LifecycleInv'
<1>1. TypeOK'
  BY DEF LifecycleInv, TypeOK
<1>2. \A r \in Records : Len(children[r]) <= Len(children'[r])
  BY DEF LifecycleInv, TypeOK
<1>3. Kept(q)
  BY <1>2 DEF Kept
<1> QED
  BY <1>1, <1>3, StateKept, OthersFit

\* A step of the request that holds the loop which replaces its record.
LEMMA RecordStep ==
  ASSUME LifecycleInv, NEW q \in Requests, HoldsLoop(q), NEW new \in RecordStates,
         UNCHANGED <<fork, chain, children, lease, published, crashes>>,
         rec' = [rec EXCEPT ![req[q].r] = new],
         Stored(q).execution.claimed => new.execution.claimed,
         Kind[req[q].r] = "rerun" =>
           \/ new.execution.bound = Stored(q).execution.bound
           \/ /\ Stored(q).execution.bound = 0
              /\ new.execution.bound <= Len(children[req[q].r]),
         req' \in [Requests -> RequestStates], OthersSame(q), Copy(q)', Holder(q)'
  PROVE  LifecycleInv'
<1> DEFINE r == req[q].r
<1>1. r \in Records
  BY DEF LifecycleInv, Copies, Copy, HoldsLoop
<1>2. /\ rec' \in [Records -> RecordStates]
      /\ rec'[r] = new
      /\ \A s \in Records : s # r => rec'[s] = rec[s]
  BY <1>1 DEF LifecycleInv, TypeOK
<1>3. TypeOK'
  BY <1>2 DEF LifecycleInv, TypeOK
<1>4. Kept(q)
  <2>1. \A s \in Records : Len(children[s]) <= Len(children'[s])
    BY DEF LifecycleInv, TypeOK
  <2>2. \A s \in Records : rec[s].execution.claimed => rec'[s].execution.claimed
    BY <1>2 DEF Stored
  <2> QED
    BY <2>1, <2>2 DEF Kept
<1>5. OneChildRun'
  BY <1>2 DEF LifecycleInv, OneChildRun, Stored
<1>6. ActiveChainHasResult'
  BY <1>2 DEF LifecycleInv, ActiveChainHasResult, Stored
<1>7. Children'
  BY DEF LifecycleInv, Children
<1> QED
  BY <1>3, <1>4, <1>5, <1>6, <1>7, OthersFit DEF StateInv

\* A step of the request that holds the loop which changes the chain or the fork
\* of its record.
LEMMA DomainStep ==
  ASSUME LifecycleInv, NEW q \in Requests, HoldsLoop(q),
         UNCHANGED <<rec, children, lease, published, crashes>>,
         fork' \in [Records -> {"none", "planning", "active", "failed"}],
         chain' \in [Records -> {"none", "pending", "active", "failed"}],
         \A r \in Records :
           (chain'[r] = "active" \/ fork'[r] = "active") /\ Kind[r] = "rerun" =>
             \/ chain[r] = "active" \/ fork[r] = "active"
             \/ /\ rec[r].execution.bound # 0
                /\ children[r][rec[r].execution.bound].state = "completed",
         req' \in [Requests -> RequestStates], OthersSame(q), Copy(q)', Holder(q)'
  PROVE  LifecycleInv'
<1>1. TypeOK'
  BY DEF LifecycleInv, TypeOK
<1>2. Kept(q)
  <2>1. \A s \in Records : Len(children[s]) <= Len(children'[s])
    BY DEF LifecycleInv, TypeOK
  <2> QED
    BY <2>1 DEF Kept
<1>3. ActiveChainHasResult'
  BY DEF LifecycleInv, ActiveChainHasResult
<1>4. Children' /\ OneChildRun'
  BY DEF LifecycleInv, Children, OneChildRun
<1> QED
  BY <1>1, <1>2, <1>3, <1>4, OthersFit DEF StateInv

-----------------------------------------------------------------------------
(* The requests.                                                            *)

LEMMA EnterKeeps ==
  ASSUME LifecycleInv, NEW q \in Requests, NEW r \in Records,
         NEW pc \in {"recover", "claim"}, Enter(q, r, pc)
  PROVE  LifecycleInv'
<1>1. /\ req' \in [Requests -> RequestStates] /\ OthersSame(q)
      /\ req'[q].pc = pc /\ req'[q].r = r /\ req'[q].record = rec[r]
  BY EnterMeans DEF LifecycleInv, Steps
<1>2. UNCHANGED <<rec, fork, chain, children, lease, published, crashes>>
      /\ rec[r].status \notin Terminal /\ LoopFree
  BY DEF Enter, OnlyRequest
<1>3. Copy(q)'
  BY <1>1, <1>2 DEF Copy, Bound, LifecycleInv, OneChildRun
<1>4. Holder(q)'
  BY <1>1, <1>2 DEF Holder, Stored, Submitting, Committing
<1>5. lease' \in [holder : Records \cup {NoRecord}, live : BOOLEAN] /\ published' \subseteq Records
  BY <1>2 DEF LifecycleInv, TypeOK
<1> QED
  BY <1>1, <1>2, <1>3, <1>4, <1>5, RequestOnly

\* What holds of the request that takes a step of its own.
LEMMA AtWork ==
  ASSUME LifecycleInv, NEW q \in Requests, req[q].pc # "idle"
  PROVE  /\ TypeOK /\ Copy(q) /\ Holder(q)
         /\ req[q].r \in Records
         /\ req[q] \in RequestStates /\ req[q].record \in RecordStates
         /\ Stored(q) \in RecordStates
         /\ children[req[q].r] \in Seq(ChildStates)
         /\ lease \in [holder : Records \cup {NoRecord}, live : BOOLEAN]
         /\ published \subseteq Records
<1>1. TypeOK /\ Copy(q) /\ Holder(q)
  BY DEF LifecycleInv, Copies, Holders
<1>2. req[q].r \in Records
  BY <1>1 DEF Copy
<1> QED
  BY <1>1, <1>2 DEF TypeOK, RequestStates, Stored, ChildStates

LEMMA RecoverKeeps ==
  ASSUME LifecycleInv, NEW q \in Requests, MarkRecovering(q)
  PROVE  LifecycleInv'
<1> DEFINE new == [req[q].record EXCEPT !.status = "recovering"]
<1>1. At(q, "recover") /\ AppendStatus(q, new, "claim") /\ OnlyRecord
  BY DEF MarkRecovering
<1>2. req[q].pc = "recover" /\ HoldsLoop(q)
  BY <1>1 DEF At, HoldsLoop
<1>3. TypeOK /\ Copy(q) /\ Holder(q) /\ req[q].r \in Records /\ req[q].record \in RecordStates
  BY <1>2, AtWork
<1>4. /\ new \in RecordStates /\ new.status = "recovering"
      /\ new.execution = req[q].record.execution
  BY <1>3 DEF RecordStates, Statuses
<1>5. Stored(q) = req[q].record
  BY <1>2, <1>3 DEF Holder
<1> HIDE DEF new
<1>6. /\ rec'[req[q].r] = new /\ req' \in [Requests -> RequestStates] /\ OthersSame(q)
      /\ req'[q].pc = "claim" /\ req'[q].r = req[q].r /\ req'[q].record = new
      /\ rec' = [rec EXCEPT ![req[q].r] = new]
  BY <1>1, <1>3, <1>4, AppendMeans DEF Steps, AppendStatus
<1>7. UNCHANGED <<fork, chain, children, lease, published, crashes>>
  BY <1>1 DEF OnlyRecord
<1>8. Copy(q)'
  BY <1>2, <1>3, <1>4, <1>6, <1>7 DEF Copy, Bound, Terminal
<1>9. Holder(q)'
  BY <1>2, <1>3, <1>4, <1>6, <1>7 DEF Holder, Stored, Submitting, Committing, Terminal
<1> QED
  BY <1>2, <1>4, <1>5, <1>6, <1>7, <1>8, <1>9, RecordStep

\* The steps past the claim that change nothing but where the request stands.
PastClaim(q) == req[q].pc \notin {"idle", "recover", "claim"}

LEMMA GotoKeeps ==
  ASSUME LifecycleInv, NEW q \in Requests, PastClaim(q), HoldsLoop(q) \/ LoopFree,
         NEW pc \in Steps \ {"recover", "claim"}, Goto(q, pc),
         UNCHANGED <<rec, fork, chain, children, crashes>>,
         lease' \in [holder : Records \cup {NoRecord}, live : BOOLEAN],
         published' \subseteq Records,
         pc = "thread" => Kind[req[q].r] = "workflow",
         Holder(q)'
  PROVE  LifecycleInv'
<1>1. TypeOK /\ Copy(q)
  BY AtWork DEF PastClaim
<1>2. /\ req' \in [Requests -> RequestStates] /\ OthersSame(q)
      /\ req'[q].pc = pc /\ req'[q].r = req[q].r /\ req'[q].record = req[q].record
  BY <1>1, GotoMeans
<1>3. Copy(q)'
  BY <1>1, <1>2 DEF PastClaim, Copy, Bound
<1> QED
  BY <1>2, <1>3, RequestOnly

LEMMA FailKeeps ==
  ASSUME LifecycleInv, NEW q \in Requests, PastClaim(q), HoldsLoop(q) \/ LoopFree,
         Goto(q, "failChain"), OnlyRequest
  PROVE  LifecycleInv'
<1>1. TypeOK /\ Copy(q) /\ Holder(q)
      /\ lease \in [holder : Records \cup {NoRecord}, live : BOOLEAN] /\ published \subseteq Records
  BY AtWork DEF PastClaim
<1>2. UNCHANGED <<rec, fork, chain, children, lease, published, crashes>>
  BY DEF OnlyRequest
<1>3. /\ req'[q].pc = "failChain" /\ req'[q].r = req[q].r /\ req'[q].record = req[q].record
  BY <1>1, GotoMeans DEF Steps
<1>4. HasChain(req[q].r) => Stored(q).execution = req[q].record.execution
  BY <1>1 DEF PastClaim, Holder, HoldsLoop, Copy, HasChain
<1>5. Holder(q)'
  BY <1>2, <1>3, <1>4 DEF Holder, Stored, OpenSteps, Submitting, Committing
<1>6. "failChain" \in Steps \ {"recover", "claim"}
  BY DEF Steps
<1> QED
  BY <1>1, <1>2, <1>5, <1>6, GotoKeeps

\* Every way into the except block.
LEMMA RaisesKeep ==
  ASSUME LifecycleInv, NEW q \in Requests,
         \/ PrepareRaises(q) \/ SubmitRaises(q) \/ SubmittedRaises(q) \/ AnnounceRaises(q)
         \/ WorkflowFails(q) \/ AppendRefused(q)
  PROVE  LifecycleInv'
<1>1. Goto(q, "failChain") /\ OnlyRequest
  BY DEF PrepareRaises, SubmitRaises, SubmittedRaises, AnnounceRaises, WorkflowFails,
         AppendRefused, Raise, OnlyRequest
<1>2. PastClaim(q) /\ (HoldsLoop(q) \/ LoopFree)
  BY DEF PrepareRaises, SubmitRaises, SubmittedRaises, AnnounceRaises, WorkflowFails,
         AppendRefused, At, PastClaim, HoldsLoop
<1> QED
  BY <1>1, <1>2, FailKeeps

LEMMA ClaimKeeps ==
  ASSUME LifecycleInv, NEW q \in Requests, Claim(q)
  PROVE  LifecycleInv'
<1> DEFINE new == IF Stored(q).execution.claimed THEN Stored(q)
                  ELSE [Stored(q) EXCEPT !.status = "submitted", !.execution.claimed = TRUE]
<1>1. At(q, "claim") /\ AppendStatus(q, new, "lease") /\ OnlyRecord
  BY DEF Claim
<1>2. req[q].pc = "claim" /\ HoldsLoop(q)
  BY <1>1 DEF At, HoldsLoop
<1>3. TypeOK /\ Copy(q) /\ Holder(q) /\ req[q].r \in Records /\ Stored(q) \in RecordStates
  BY <1>2, AtWork
<1>4. Stored(q) = req[q].record /\ Stored(q).status \notin Terminal
  BY <1>2, <1>3 DEF Holder, OpenSteps
<1>5. /\ new \in RecordStates /\ new.status \notin Terminal
      /\ new.execution.claimed /\ new.execution.bound = Stored(q).execution.bound
  <2>1. CASE Stored(q).execution.claimed
    BY <1>3, <1>4, <2>1
  <2>2. CASE ~Stored(q).execution.claimed
    <3>1. new = [Stored(q) EXCEPT !.status = "submitted", !.execution.claimed = TRUE]
      BY <2>2
    <3>2. "submitted" \in Statuses \ Terminal
      BY DEF Statuses, Terminal
    <3> HIDE DEF new
    <3> QED
      BY <1>3, <3>1, <3>2 DEF RecordStates, Executions
  <2> QED
    BY <2>1, <2>2
<1> HIDE DEF new
<1>6. /\ rec'[req[q].r] = new /\ req' \in [Requests -> RequestStates] /\ OthersSame(q)
      /\ req'[q].pc = "lease" /\ req'[q].r = req[q].r /\ req'[q].record = new
      /\ rec' = [rec EXCEPT ![req[q].r] = new]
  BY <1>1, <1>3, <1>5, AppendMeans DEF Steps, AppendStatus
<1>7. UNCHANGED <<fork, chain, children, lease, published, crashes>>
  BY <1>1 DEF OnlyRecord
<1>8. Copy(q)'
  BY <1>2, <1>3, <1>4, <1>5, <1>6, <1>7 DEF Copy, Bound
<1>9. Holder(q)'
  BY <1>2, <1>3, <1>5, <1>6, <1>7 DEF Holder, Stored, Submitting, Committing
<1> QED
  BY <1>2, <1>5, <1>6, <1>7, <1>8, <1>9, RecordStep

LEMMA AcquireKeeps ==
  ASSUME LifecycleInv, NEW q \in Requests, Acquire(q)
  PROVE  LifecycleInv'
<1> DEFINE pc == IF HasChain(req[q].r) THEN "prepareFork" ELSE "prepared"
<1>1. req[q].pc = "lease" /\ Goto(q, pc) /\ PastClaim(q) /\ HoldsLoop(q)
      /\ UNCHANGED <<rec, fork, chain, children, published, crashes>>
      /\ lease' = [holder |-> req[q].r, live |-> TRUE]
  BY DEF Acquire, At, PastClaim, HoldsLoop
<1>2. TypeOK /\ Holder(q) /\ req[q].r \in Records /\ published \subseteq Records
  BY <1>1, AtWork
<1>3. pc \in Steps \ {"recover", "claim"} /\ pc # "thread"
  BY DEF Steps
<1>4. req'[q].pc = pc /\ req'[q].r = req[q].r /\ req'[q].record = req[q].record
  BY <1>1, <1>2, <1>3, GotoMeans
<1>5. Holder(q)'
  BY <1>1, <1>2, <1>4 DEF Holder, HoldsLoop, Stored, OpenSteps, Submitting, Committing, HasChain
<1>6. lease' \in [holder : Records \cup {NoRecord}, live : BOOLEAN] /\ published' \subseteq Records
  BY <1>1, <1>2
<1> QED
  BY <1>1, <1>3, <1>5, <1>6, GotoKeeps

\* A request that ends, with or without giving up the lease.
LEMMA FinishKeeps ==
  ASSUME LifecycleInv, NEW q \in Requests, HoldsLoop(q), Finish(q),
         UNCHANGED <<rec, fork, chain, children, published, crashes>>,
         lease' \in [holder : Records \cup {NoRecord}, live : BOOLEAN]
  PROVE  LifecycleInv'
<1>1. req' \in [Requests -> RequestStates] /\ OthersSame(q) /\ req'[q].pc = "idle"
  BY FinishMeans DEF LifecycleInv
<1>2. Copy(q)' /\ Holder(q)'
  BY <1>1 DEF Copy, Holder, HoldsLoop
<1>3. published' \subseteq Records
  BY DEF LifecycleInv, TypeOK
<1> QED
  BY <1>1, <1>2, <1>3, RequestOnly

LEMMA LeaseStepsKeep ==
  ASSUME LifecycleInv, NEW q \in Requests, LeaseConflict(q) \/ Release(q)
  PROVE  LifecycleInv'
<1>1. HoldsLoop(q) /\ Finish(q) /\ UNCHANGED <<rec, fork, chain, children, published, crashes>>
  BY DEF LeaseConflict, Release, At, HoldsLoop, OnlyRequest
<1>2. lease' \in [holder : Records \cup {NoRecord}, live : BOOLEAN]
  BY DEF LifecycleInv, TypeOK, LeaseConflict, Release, OnlyRequest
<1> QED
  BY <1>1, <1>2, FinishKeeps

LEMMA PrepareForkKeeps ==
  ASSUME LifecycleInv, NEW q \in Requests, PrepareFork(q)
  PROVE  LifecycleInv'
<1>1. req[q].pc = "prepareFork" /\ Goto(q, "prepareChain") /\ PastClaim(q) /\ HoldsLoop(q)
      /\ UNCHANGED <<rec, chain, children, lease, published, crashes>>
  BY DEF PrepareFork, At, PastClaim, HoldsLoop
<1>2. TypeOK /\ Copy(q) /\ Holder(q) /\ req[q].r \in Records
  BY <1>1, AtWork
<1>3. /\ req' \in [Requests -> RequestStates] /\ OthersSame(q) /\ req'[q].pc = "prepareChain"
      /\ req'[q].r = req[q].r /\ req'[q].record = req[q].record
  BY <1>1, <1>2, GotoMeans DEF Steps
<1>4. Copy(q)'
  BY <1>1, <1>2, <1>3 DEF Copy, Bound
<1>5. Holder(q)'
  BY <1>1, <1>2, <1>3 DEF Holder, HoldsLoop, Stored, OpenSteps, Submitting, Committing
<1>6. fork' \in [Records -> {"none", "planning", "active", "failed"}]
      /\ \A r \in Records : fork'[r] = "active" => fork[r] = "active"
  BY <1>2 DEF PrepareFork, TypeOK
<1>7. chain' \in [Records -> {"none", "pending", "active", "failed"}]
  BY <1>1, <1>2 DEF TypeOK
<1> QED
  BY <1>1, <1>3, <1>4, <1>5, <1>6, <1>7, DomainStep

LEMMA PrepareChainKeeps ==
  ASSUME LifecycleInv, NEW q \in Requests, PrepareChain(q)
  PROVE  LifecycleInv'
<1>1. req[q].pc = "prepareChain" /\ Goto(q, "prepared") /\ PastClaim(q) /\ HoldsLoop(q)
      /\ UNCHANGED <<rec, fork, children, lease, published, crashes>>
  BY DEF PrepareChain, At, PastClaim, HoldsLoop
<1>2. TypeOK /\ Copy(q) /\ Holder(q) /\ req[q].r \in Records
  BY <1>1, AtWork
<1>3. /\ req' \in [Requests -> RequestStates] /\ OthersSame(q) /\ req'[q].pc = "prepared"
      /\ req'[q].r = req[q].r /\ req'[q].record = req[q].record
  BY <1>1, <1>2, GotoMeans DEF Steps
<1>4. Copy(q)'
  BY <1>1, <1>2, <1>3 DEF Copy, Bound
<1>5. Holder(q)'
  BY <1>1, <1>2, <1>3 DEF Holder, HoldsLoop, Stored, OpenSteps, Submitting, Committing
<1>6. chain' \in [Records -> {"none", "pending", "active", "failed"}]
      /\ \A r \in Records : chain'[r] = "active" => chain[r] = "active"
  BY <1>2 DEF PrepareChain, TypeOK
<1>7. fork' \in [Records -> {"none", "planning", "active", "failed"}]
  BY <1>1, <1>2 DEF TypeOK
<1> QED
  BY <1>1, <1>3, <1>4, <1>5, <1>6, <1>7, DomainStep

LEMMA PreparedKeeps ==
  ASSUME LifecycleInv, NEW q \in Requests, Prepared(q)
  PROVE  LifecycleInv'
<1> DEFINE new == [req[q].record EXCEPT !.execution.ids = HasChain(req[q].r)]
<1>1. req[q].pc = "prepared" /\ HoldsLoop(q) /\ AppendStatus(q, new, "effect") /\ OnlyRecord
  BY DEF Prepared, At, HoldsLoop
<1>2. TypeOK /\ Copy(q) /\ Holder(q) /\ req[q].r \in Records /\ req[q].record \in RecordStates
  BY <1>1, AtWork
<1>3. HasChain(req[q].r) \in BOOLEAN
  BY DEF HasChain
<1>4. /\ new \in RecordStates /\ new.status = req[q].record.status
      /\ new.execution.claimed = req[q].record.execution.claimed
      /\ new.execution.bound = req[q].record.execution.bound
  BY <1>2, <1>3 DEF RecordStates, Executions
<1> HIDE DEF new
<1>5. /\ rec'[req[q].r] = new /\ req' \in [Requests -> RequestStates] /\ OthersSame(q)
      /\ req'[q].pc = "effect" /\ req'[q].r = req[q].r /\ req'[q].record = new
      /\ rec' = [rec EXCEPT ![req[q].r] = new]
  BY <1>1, <1>2, <1>4, AppendMeans DEF Steps, AppendStatus
<1>6. UNCHANGED <<fork, chain, children, lease, published, crashes>>
  BY <1>1 DEF OnlyRecord
<1>7. Copy(q)'
  BY <1>1, <1>2, <1>4, <1>5, <1>6 DEF Copy, Bound
<1>8. Holder(q)'
  BY <1>1, <1>2, <1>4, <1>5, <1>6 DEF Holder, Stored, OpenSteps, Submitting, Committing, Copy
<1>9. new.execution.claimed
  BY <1>1, <1>2, <1>4 DEF Copy
<1>10. Kind[req[q].r] = "rerun" => new.execution.bound = Stored(q).execution.bound
  BY <1>1, <1>2, <1>4 DEF Holder, HasChain
<1> QED
  BY <1>1, <1>4, <1>5, <1>6, <1>7, <1>8, <1>9, <1>10, RecordStep

-----------------------------------------------------------------------------
(* The effect.                                                              *)

\* The request has its effect's outcome and goes on to bind it.
LEMMA OutcomeKeeps ==
  ASSUME LifecycleInv, NEW q \in Requests, PastClaim(q), HoldsLoop(q) \/ LoopFree,
         NEW o \in {"running", "completed", "failed"}, Effect(q, o, "bind"), OnlyRequest,
         HasChain(req[q].r) => Stored(q).execution = req[q].record.execution,
         Kind[req[q].r] = "rerun" => children[req[q].r] # <<>>,
         Kind[req[q].r] = "rerun" /\ o = "completed" =>
           Bound(q) # 0 /\ children[req[q].r][Bound(q)].state = "completed"
  PROVE  LifecycleInv'
<1>1. TypeOK /\ Copy(q) /\ lease \in [holder : Records \cup {NoRecord}, live : BOOLEAN]
      /\ published \subseteq Records
  BY AtWork DEF PastClaim
<1>2. UNCHANGED <<rec, fork, chain, children, lease, published, crashes>>
  BY DEF OnlyRequest
<1>3. /\ req' \in [Requests -> RequestStates] /\ OthersSame(q) /\ req'[q].pc = "bind"
      /\ req'[q].r = req[q].r /\ req'[q].record = req[q].record /\ req'[q].outcome = o
  BY <1>1, EffectMeans DEF Steps
<1>4. Copy(q)'
  BY <1>1, <1>2, <1>3 DEF PastClaim, Copy, Bound
<1>5. Holder(q)'
  BY <1>2, <1>3 DEF Holder, Stored, OpenSteps, Submitting, Committing, Bound
<1> QED
  BY <1>1, <1>2, <1>3, <1>4, <1>5, RequestOnly

LEMMA ReconcileRunKeeps ==
  ASSUME LifecycleInv, NEW q \in Requests, ReconcileRun(q)
  PROVE  LifecycleInv'
<1> DEFINE r == req[q].r
<1>1. req[q].pc = "effect" /\ Kind[r] = "rerun" /\ Bound(q) # 0 /\ OnlyRequest
      /\ PastClaim(q) /\ HoldsLoop(q)
  BY DEF ReconcileRun, At, Bound, PastClaim, HoldsLoop
<1>2. PICK o \in ReconciledOutcomes(children[r][Bound(q)].state) : Effect(q, o, "bind")
  BY DEF ReconcileRun, Bound
<1>3. Copy(q) /\ Holder(q) /\ children[r] \in Seq(ChildStates) /\ req[q].record \in RecordStates
  BY <1>1, AtWork
<1>4. o \in {"running", "completed", "failed"}
      /\ (o = "completed" => children[r][Bound(q)].state = "completed")
  BY <1>2 DEF ReconciledOutcomes
<1>5. Bound(q) \in Nat /\ Bound(q) <= Len(children[r])
  BY <1>1, <1>3 DEF Copy, RecordStates, Executions, Bound
<1>6. children[r] # <<>>
  BY <1>1, <1>3, <1>5, LenProperties
<1>7. Stored(q).execution = req[q].record.execution
  BY <1>1, <1>3 DEF Holder, HasChain
<1> QED
  BY <1>1, <1>2, <1>4, <1>6, <1>7, OutcomeKeeps

LEMMA FindRunKeeps ==
  ASSUME LifecycleInv, NEW q \in Requests, FindRun(q)
  PROVE  LifecycleInv'
<1> DEFINE r == req[q].r
<1>1. req[q].pc = "effect" /\ Kind[r] = "rerun" /\ Witnesses(r) # {} /\ OnlyRequest
      /\ PastClaim(q) /\ HoldsLoop(q) /\ (Effect(q, "running", "bind") \/ Goto(q, "failChain"))
  BY DEF FindRun, At, PastClaim, HoldsLoop
<1>2. CASE Goto(q, "failChain")
  BY <1>1, <1>2, FailKeeps
<1>3. CASE Effect(q, "running", "bind")
  <2>1. children[r] # <<>>
    BY <1>1 DEF Witnesses
  <2>2. Stored(q).execution = req[q].record.execution
    BY <1>1, AtWork DEF Holder, HasChain
  <2> QED
    BY <1>1, <1>3, <2>1, <2>2, OutcomeKeeps
<1> QED
  BY <1>1, <1>2, <1>3

LEMMA StartWorkflowKeeps ==
  ASSUME LifecycleInv, NEW q \in Requests, StartWorkflow(q)
  PROVE  LifecycleInv'
<1>1. req[q].pc = "effect" /\ Goto(q, "thread") /\ Kind[req[q].r] = "workflow" /\ PastClaim(q)
      /\ HoldsLoop(q) /\ UNCHANGED <<rec, fork, chain, children, lease, published, crashes>>
  BY DEF StartWorkflow, At, PastClaim, HoldsLoop, OnlyRequest
<1>2. TypeOK /\ lease \in [holder : Records \cup {NoRecord}, live : BOOLEAN]
      /\ published \subseteq Records
  BY <1>1, AtWork
<1>3. req'[q].pc = "thread"
  BY <1>1, <1>2, GotoMeans DEF Steps
<1>4. Holder(q)'
  BY <1>3 DEF Holder, HoldsLoop
<1>5. "thread" \in Steps \ {"recover", "claim"}
  BY DEF Steps
<1> QED
  BY <1>1, <1>2, <1>4, <1>5, GotoKeeps

LEMMA EffectReturnsKeeps ==
  ASSUME LifecycleInv, NEW q \in Requests, EffectReturns(q)
  PROVE  LifecycleInv'
<1>1. /\ Effect(q, "completed", "bind") /\ OnlyRequest /\ PastClaim(q)
      /\ HoldsLoop(q) \/ LoopFree
      /\ (req[q].pc = "thread" \/ (req[q].pc = "effect" /\ Kind[req[q].r] = "fork"))
  BY DEF EffectReturns, WorkflowReturns, ForkReturns, At, PastClaim, HoldsLoop
<1>2. Copy(q) /\ Holder(q)
  BY <1>1, AtWork DEF PastClaim
<1>3. Kind[req[q].r] # "rerun"
  BY <1>1, <1>2 DEF Copy
<1>4. HasChain(req[q].r) => Stored(q).execution = req[q].record.execution
  BY <1>1, <1>2 DEF Copy, Holder, HoldsLoop, HasChain
<1> QED
  BY <1>1, <1>3, <1>4, OutcomeKeeps

LEMMA BindKeeps ==
  ASSUME LifecycleInv, NEW q \in Requests, Bind(q)
  PROVE  LifecycleInv'
<1> DEFINE r == req[q].r
           copy == req[q].record.execution
           execution == IF copy.bound # 0 THEN copy
                        ELSE [copy EXCEPT !.bound = IF Kind[r] = "rerun"
                                                    THEN Len(children[r]) ELSE 1]
           new == [Stored(q) EXCEPT !.status = req[q].record.status, !.execution = execution]
<1>1. req[q].pc = "bind" /\ HoldsLoop(q) /\ AppendStatus(q, new, "submitted") /\ OnlyRecord
  BY DEF Bind, At, HoldsLoop
<1>2. /\ TypeOK /\ Copy(q) /\ Holder(q) /\ r \in Records
      /\ req[q].record \in RecordStates /\ Stored(q) \in RecordStates
      /\ children[r] \in Seq(ChildStates)
  BY <1>1, AtWork
<1>3. Len(children[r]) \in Nat
  BY <1>2, LenProperties
<1>4. copy \in Executions
  BY <1>2 DEF RecordStates
<1>5. Kind[r] = "rerun" => Len(children[r]) # 0
  BY <1>1, <1>2, EmptySeq, LenProperties DEF Holder
<1>6. /\ execution \in Executions
      /\ execution.claimed = copy.claimed
      /\ execution.bound = IF copy.bound # 0 THEN copy.bound
                           ELSE IF Kind[r] = "rerun" THEN Len(children[r]) ELSE 1
  BY <1>3, <1>4 DEF Executions
<1> HIDE DEF execution
<1>7. new \in RecordStates /\ new.status = req[q].record.status /\ new.execution = execution
  BY <1>2, <1>6 DEF RecordStates
<1> HIDE DEF new
<1>8. /\ rec'[r] = new /\ req' \in [Requests -> RequestStates] /\ OthersSame(q)
      /\ req'[q].pc = "submitted" /\ req'[q].r = r /\ req'[q].record = new
      /\ req'[q].outcome = req[q].outcome /\ rec' = [rec EXCEPT ![r] = new]
  BY <1>1, <1>2, <1>7, AppendMeans DEF Steps, AppendStatus
<1>9. UNCHANGED <<fork, chain, children, lease, published, crashes>>
  BY <1>1 DEF OnlyRecord
<1>10. copy.bound \in Nat /\ (Kind[r] = "rerun" => execution.bound <= Len(children[r]))
  <2>1. copy.bound \in Nat
    BY <1>4 DEF Executions
  <2>2. Kind[r] = "rerun" => copy.bound <= Len(children[r])
    BY <1>1, <1>2 DEF Copy, Bound
  <2> HIDE DEF copy, r
  <2> QED
    BY <1>3, <1>6, <2>1, <2>2
<1>11. Copy(q)'
  BY <1>1, <1>2, <1>6, <1>7, <1>8, <1>9, <1>10 DEF Copy, Bound
<1>12. Kind[r] = "rerun" /\ req[q].outcome = "completed" =>
         copy.bound # 0 /\ children[r][copy.bound].state = "completed"
  BY <1>1, <1>2 DEF Holder, Bound
<1>13. Kind[r] = "rerun" => execution.bound # 0 /\ children[r] # <<>>
  BY <1>1, <1>2, <1>5, <1>6 DEF Holder
<1>14. req[q].outcome # "none" /\ new.status \notin Terminal
  BY <1>1, <1>2, <1>7 DEF Holder, Copy
<1>15. Holder(q)'
  BY <1>6, <1>7, <1>8, <1>9, <1>12, <1>13, <1>14
  DEF Holder, Stored, OpenSteps, Submitting, Committing, Bound
<1>16. new.execution.claimed
  BY <1>1, <1>2, <1>6, <1>7 DEF Copy
<1>17. Kind[r] = "rerun" => copy = Stored(q).execution
  BY <1>1, <1>2 DEF Holder, HasChain
<1>18. Kind[r] = "rerun" => \/ new.execution.bound = Stored(q).execution.bound
                            \/ /\ Stored(q).execution.bound = 0
                               /\ new.execution.bound <= Len(children[r])
  BY <1>6, <1>7, <1>10, <1>17
<1> QED
  BY <1>1, <1>7, <1>8, <1>9, <1>11, <1>15, <1>16, <1>18, RecordStep

-----------------------------------------------------------------------------
(* The child run.                                                           *)

\* A step of the request that holds the loop which changes the child run that it
\* is submitting, and which has not completed.
LEMMA ChildStep ==
  ASSUME LifecycleInv, NEW q \in Requests, HoldsLoop(q),
         UNCHANGED <<rec, fork, chain, lease, published, crashes>>,
         children' \in [Records -> Seq(ChildStates)],
         \A r \in Records : r # req[q].r => children'[r] = children[r],
         Len(children[req[q].r]) <= 1, Len(children'[req[q].r]) = 1,
         children'[req[q].r][1].state # "completed",
         Len(children[req[q].r]) = 1 => children[req[q].r][1].state # "completed",
         req' \in [Requests -> RequestStates], OthersSame(q), Copy(q)', Holder(q)'
  PROVE  LifecycleInv'
<1> DEFINE r == req[q].r
<1>1. r \in Records /\ TypeOK
  BY DEF LifecycleInv, Copies, Copy, HoldsLoop
<1>2. TypeOK'
  BY <1>1 DEF TypeOK, ChildStates
<1>3. children[r] \in Seq(ChildStates) /\ children'[r] \in Seq(ChildStates)
      /\ rec[r].execution.bound \in Nat
  BY <1>1 DEF TypeOK, ChildStates, RecordStates, Executions
<1>4. \A s \in Records : Len(children[s]) <= Len(children'[s])
  <2>1. ASSUME NEW s \in Records  PROVE Len(children[s]) <= Len(children'[s])
    <3>1. children[s] \in Seq(ChildStates)
      BY <1>1 DEF TypeOK, ChildStates
    <3>2. Len(children[s]) \in Nat
      BY <3>1, LenProperties
    <3> QED
      BY <3>2
  <2> QED
    BY <2>1
<1>5. Kept(q)
  BY <1>4 DEF Kept
<1>6. Len(children[r]) \in Nat /\ DOMAIN children'[r] = {1}
  BY <1>3, LenProperties
<1>7. Children'
  BY <1>1, <1>6 DEF LifecycleInv, Children
<1>8. OneChildRun'
  <2>1. ASSUME NEW s \in Records  PROVE Len(children'[s]) <= 1
    <3>1. CASE s = r
      <4>1. Len(children'[r]) = 1
        OBVIOUS
      <4> HIDE DEF r
      <4> QED
        BY <3>1, <4>1
    <3>2. CASE s # r
      BY <3>2 DEF LifecycleInv, OneChildRun
    <3> QED
      BY <3>1, <3>2
  <2>2. ASSUME NEW s \in Records, Kind[s] = "rerun"
        PROVE  rec'[s].execution.bound <= Len(children'[s])
    <3>1. rec[s].execution.bound <= Len(children[s]) /\ Len(children[s]) <= Len(children'[s])
      BY <1>4, <2>2 DEF LifecycleInv, OneChildRun
    <3>2. rec[s].execution.bound \in Nat /\ children[s] \in Seq(ChildStates)
          /\ children'[s] \in Seq(ChildStates)
      BY <1>1 DEF TypeOK, ChildStates, RecordStates, Executions
    <3>3. Len(children[s]) \in Nat /\ Len(children'[s]) \in Nat
      BY <3>2, LenProperties
    <3> QED
      BY <3>1, <3>2, <3>3
  <2> QED
    BY <2>1, <2>2 DEF OneChildRun
<1>9. ActiveChainHasResult'
  <2>1. ASSUME NEW s \in Records, chain[s] = "active" \/ fork[s] = "active", Kind[s] = "rerun"
        PROVE  s # r /\ rec[s].execution.bound # 0
               /\ children[s][rec[s].execution.bound].state = "completed"
    <3>1. rec[s].execution.bound # 0
          /\ children[s][rec[s].execution.bound].state = "completed"
          /\ rec[s].execution.bound <= Len(children[s])
      BY <2>1 DEF LifecycleInv, ActiveChainHasResult, OneChildRun
    <3>2. ASSUME s = r  PROVE FALSE
      <4>1. Len(children[r]) = 1 /\ rec[r].execution.bound = 1
        BY <1>3, <1>6, <3>1, <3>2
      <4> QED
        BY <3>1, <3>2, <4>1
    <3> QED
      BY <3>1, <3>2
  <2> QED
    BY <2>1 DEF ActiveChainHasResult
<1> QED
  BY <1>2, <1>5, <1>7, <1>8, <1>9, OthersFit DEF StateInv

LEMMA SubmitInputsKeeps ==
  ASSUME LifecycleInv, NEW q \in Requests, SubmitInputs(q)
  PROVE  LifecycleInv'
<1> DEFINE r == req[q].r
           e == [state |-> "inputs", alive |-> FALSE]
<1>1. /\ req[q].pc = "effect" /\ Goto(q, "submitManifest") /\ Kind[r] = "rerun"
      /\ Witnesses(r) = {} /\ HoldsLoop(q) /\ Bound(q) = 0
      /\ children' = [children EXCEPT ![r] = Append(children[r], e)]
      /\ UNCHANGED <<rec, fork, chain, lease, published, crashes>>
  BY DEF SubmitInputs, At, HoldsLoop, Bound
<1>2. /\ TypeOK /\ Copy(q) /\ Holder(q) /\ r \in Records
      /\ children[r] \in Seq(ChildStates)
  BY <1>1, AtWork
<1>3. children[r] = <<>>
  <2>1. DOMAIN children[r] = {} /\ DOMAIN children[r] = 1 .. Len(children[r])
        /\ Len(children[r]) \in Nat
    BY <1>1, <1>2, LenProperties DEF Witnesses
  <2>2. ASSUME Len(children[r]) # 0  PROVE FALSE
    <3>1. 1 \in 1 .. Len(children[r])
      BY <2>1, <2>2
    <3> QED
      BY <2>1, <3>1
  <2> QED
    BY <1>2, <2>2, EmptySeq
<1>4. e \in ChildStates
  BY DEF ChildStates, RunStates
<1>5. Append(children[r], e) = <<e>> /\ <<e>> \in Seq(ChildStates)
  BY <1>3, <1>4
<1>6. /\ children' \in [Records -> Seq(ChildStates)] /\ children'[r] = <<e>>
      /\ \A s \in Records : s # r => children'[s] = children[s]
  BY <1>1, <1>2, <1>5 DEF TypeOK, ChildStates
<1>7. /\ Len(children[r]) = 0 /\ Len(children'[r]) = 1
      /\ children'[r][1].state # "completed" /\ ~children'[r][1].alive
  BY <1>3, <1>6
<1>8. /\ req' \in [Requests -> RequestStates] /\ OthersSame(q) /\ req'[q].pc = "submitManifest"
      /\ req'[q].r = r /\ req'[q].record = req[q].record
  BY <1>1, <1>2, GotoMeans DEF Steps
<1>9. Copy(q)'
  BY <1>1, <1>2, <1>7, <1>8 DEF Copy, Bound
<1>10. Holder(q)'
  BY <1>1, <1>2, <1>7, <1>8 DEF Holder, Stored, OpenSteps, Committing
<1> HIDE DEF r, e
<1> QED
  BY <1>1, <1>6, <1>7, <1>8, <1>9, <1>10, ChildStep DEF r

\* What a request that is submitting a child run knows of it.
LEMMA SubmittingMeans ==
  ASSUME LifecycleInv, NEW q \in Requests, req[q].pc \in Submitting
  PROVE  /\ HoldsLoop(q) /\ Kind[req[q].r] = "rerun" /\ Len(children[req[q].r]) = 1
         /\ 1 \in DOMAIN children[req[q].r] /\ children[req[q].r][1] \in ChildStates
         /\ children[req[q].r][1].state # "completed" /\ ~children[req[q].r][1].alive
<1>1. HoldsLoop(q) /\ req[q].pc # "idle"
  BY DEF HoldsLoop, Submitting
<1>2. Holder(q) /\ children[req[q].r] \in Seq(ChildStates)
  BY <1>1, AtWork
<1>3. Len(children[req[q].r]) = 1
  BY <1>1, <1>2 DEF Holder
<1>4. 1 \in DOMAIN children[req[q].r] /\ children[req[q].r][1] \in ChildStates
  BY <1>2, <1>3, LenProperties, ElementOfSeq
<1> QED
  BY <1>1, <1>2, <1>3, <1>4 DEF Holder

LEMMA SubmitManifestKeeps ==
  ASSUME LifecycleInv, NEW q \in Requests, SubmitManifest(q)
  PROVE  LifecycleInv'
<1> DEFINE r == req[q].r
           e == [children[r][1] EXCEPT !.state = "running"]
<1>1. /\ req[q].pc = "submitManifest" /\ Goto(q, "submitDispatch")
      /\ children' = [children EXCEPT ![r][Len(children[r])].state = "running"]
      /\ UNCHANGED <<rec, fork, chain, lease, published, crashes>>
  BY DEF SubmitManifest, At
<1>2. /\ HoldsLoop(q) /\ Kind[r] = "rerun" /\ Len(children[r]) = 1 /\ 1 \in DOMAIN children[r]
      /\ children[r][1] \in ChildStates
      /\ children[r][1].state # "completed" /\ ~children[r][1].alive
  BY <1>1, SubmittingMeans DEF Submitting
<1>3. TypeOK /\ Copy(q) /\ Holder(q) /\ r \in Records /\ children[r] \in Seq(ChildStates)
  BY <1>1, AtWork
<1>4. e \in ChildStates /\ e.state = "running" /\ ~e.alive
  BY <1>2 DEF ChildStates, RunStates
<1>5. children' = [children EXCEPT ![r] = [children[r] EXCEPT ![1] = e]]
  BY <1>1, <1>2
<1> HIDE DEF e
<1>6. /\ children' \in [Records -> Seq(ChildStates)] /\ children'[r][1] = e
      /\ Len(children'[r]) = 1
      /\ \A s \in Records : s # r => children'[s] = children[s]
  BY <1>2, <1>3, <1>4, <1>5, ReplaceChild
<1>7. /\ req' \in [Requests -> RequestStates] /\ OthersSame(q) /\ req'[q].pc = "submitDispatch"
      /\ req'[q].r = r /\ req'[q].record = req[q].record
  BY <1>1, <1>3, GotoMeans DEF Steps
<1>8. Copy(q)'
  BY <1>1, <1>2, <1>3, <1>6, <1>7 DEF Copy, Bound
<1>9. Holder(q)'
  BY <1>1, <1>2, <1>3, <1>4, <1>6, <1>7 DEF Holder, Stored, OpenSteps, Committing
<1>10. e.state # "completed" /\ Len(children[r]) <= 1
  BY <1>2, <1>4
<1> HIDE DEF r
<1> QED
  BY <1>1, <1>2, <1>6, <1>7, <1>8, <1>9, <1>10, ChildStep DEF r

LEMMA SubmitDispatchKeeps ==
  ASSUME LifecycleInv, NEW q \in Requests, SubmitDispatch(q)
  PROVE  LifecycleInv'
<1> DEFINE r == req[q].r
           e == [children[r][1] EXCEPT !.alive = TRUE]
<1>1. /\ req[q].pc = "submitDispatch" /\ Effect(q, "running", "bind")
      /\ children' = [children EXCEPT ![r][Len(children[r])].alive = TRUE]
      /\ UNCHANGED <<rec, fork, chain, lease, published, crashes>>
  BY DEF SubmitDispatch, At
<1>2. /\ HoldsLoop(q) /\ Kind[r] = "rerun" /\ Len(children[r]) = 1 /\ 1 \in DOMAIN children[r]
      /\ children[r][1] \in ChildStates /\ children[r][1].state # "completed"
  BY <1>1, SubmittingMeans DEF Submitting
<1>3. TypeOK /\ Copy(q) /\ Holder(q) /\ r \in Records /\ children[r] \in Seq(ChildStates)
  BY <1>1, AtWork
<1>4. e \in ChildStates /\ e.state # "completed"
  BY <1>2 DEF ChildStates
<1>5. children' = [children EXCEPT ![r] = [children[r] EXCEPT ![1] = e]]
  BY <1>1, <1>2
<1> HIDE DEF e
<1>6. /\ children' \in [Records -> Seq(ChildStates)] /\ children'[r][1] = e
      /\ Len(children'[r]) = 1
      /\ \A s \in Records : s # r => children'[s] = children[s]
  BY <1>2, <1>3, <1>4, <1>5, ReplaceChild
<1>7. /\ req' \in [Requests -> RequestStates] /\ OthersSame(q) /\ req'[q].pc = "bind"
      /\ req'[q].r = r /\ req'[q].record = req[q].record /\ req'[q].outcome = "running"
  BY <1>1, <1>3, EffectMeans DEF Steps
<1>8. Copy(q)'
  BY <1>1, <1>2, <1>3, <1>6, <1>7 DEF Copy, Bound
<1>9. children'[r] # <<>>
  BY <1>6, EmptySeq
<1>10. Holder(q)'
  BY <1>1, <1>2, <1>3, <1>4, <1>6, <1>7, <1>9
  DEF Holder, Stored, OpenSteps, Submitting, Committing
<1>11. Len(children[r]) <= 1
  BY <1>2
<1> HIDE DEF r
<1> QED
  BY <1>1, <1>2, <1>4, <1>6, <1>7, <1>8, <1>10, <1>11, ChildStep DEF r

-----------------------------------------------------------------------------
(* Domain commit and terminal status.                                       *)

LEMMA PublishSubmittedKeeps ==
  ASSUME LifecycleInv, NEW q \in Requests, PublishSubmitted(q)
  PROVE  LifecycleInv'
<1> DEFINE pc == IF req[q].outcome = "running" THEN "nonterminal" ELSE "commitChain"
<1>1. req[q].pc = "submitted" /\ Goto(q, pc) /\ PastClaim(q) /\ HoldsLoop(q)
      /\ UNCHANGED <<rec, fork, chain, children, lease, published, crashes>>
  BY DEF PublishSubmitted, At, PastClaim, HoldsLoop, OnlyRequest
<1>2. /\ TypeOK /\ Holder(q) /\ req[q] \in RequestStates
      /\ lease \in [holder : Records \cup {NoRecord}, live : BOOLEAN] /\ published \subseteq Records
  BY <1>1, AtWork
<1>3. pc \in Steps \ {"recover", "claim", "thread"}
  BY DEF Steps
<1>4. /\ req'[q].pc = pc /\ req'[q].r = req[q].r /\ req'[q].record = req[q].record
      /\ req'[q].outcome = req[q].outcome
  BY <1>1, <1>2, <1>3, GotoMeans
<1>5. pc = "commitChain" => req[q].outcome \in {"completed", "failed"}
  BY <1>1, <1>2 DEF Holder, RequestStates
<1>6. Holder(q)'
  BY <1>1, <1>2, <1>4, <1>5
  DEF Holder, HoldsLoop, Stored, OpenSteps, Submitting, Committing, Bound
<1> HIDE DEF pc
<1> QED
  BY <1>1, <1>2, <1>3, <1>6, GotoKeeps

LEMMA NonterminalKeeps ==
  ASSUME LifecycleInv, NEW q \in Requests, Nonterminal(q)
  PROVE  LifecycleInv'
<1> DEFINE new == [Stored(q) EXCEPT !.status = "running", !.execution = req[q].record.execution,
                                    !.effect = "pending", !.projection = "pending"]
<1>1. req[q].pc = "nonterminal" /\ HoldsLoop(q) /\ AppendStatus(q, new, "release") /\ OnlyRecord
  BY DEF Nonterminal, At, HoldsLoop
<1>2. /\ TypeOK /\ Copy(q) /\ Holder(q) /\ req[q].r \in Records
      /\ req[q].record \in RecordStates /\ Stored(q) \in RecordStates
  BY <1>1, AtWork
<1>3. /\ new \in RecordStates /\ new.status = "running"
      /\ new.execution = req[q].record.execution
  BY <1>2 DEF RecordStates, Statuses
<1> HIDE DEF new
<1>4. /\ rec'[req[q].r] = new /\ req' \in [Requests -> RequestStates] /\ OthersSame(q)
      /\ req'[q].pc = "release" /\ req'[q].r = req[q].r /\ req'[q].record = new
      /\ rec' = [rec EXCEPT ![req[q].r] = new]
  BY <1>1, <1>2, <1>3, AppendMeans DEF Steps, AppendStatus
<1>5. UNCHANGED <<fork, chain, children, lease, published, crashes>>
  BY <1>1 DEF OnlyRecord
<1>6. Copy(q)'
  BY <1>1, <1>2, <1>3, <1>4, <1>5 DEF Copy, Bound, Terminal
<1>7. Holder(q)'
  BY <1>3, <1>4, <1>5 DEF Holder, Stored, OpenSteps, Submitting, Committing
<1>8. new.execution.claimed
      /\ (Kind[req[q].r] = "rerun" => new.execution.bound = Stored(q).execution.bound)
  BY <1>1, <1>2, <1>3 DEF Copy, Holder, HasChain
<1> QED
  BY <1>1, <1>3, <1>4, <1>5, <1>6, <1>7, <1>8, RecordStep

\* A rerun that is committed as active has a bound child run that has completed.
LEMMA CommittingMeans ==
  ASSUME LifecycleInv, NEW q \in Requests, req[q].pc \in Committing
  PROVE  /\ HoldsLoop(q) /\ req[q].outcome \in {"completed", "failed"}
         /\ Stored(q).status \notin Terminal
         /\ Kind[req[q].r] = "rerun" => Stored(q).execution = req[q].record.execution
         /\ Kind[req[q].r] = "rerun" /\ req[q].outcome = "completed" =>
              /\ rec[req[q].r].execution.bound # 0
              /\ children[req[q].r][rec[req[q].r].execution.bound].state = "completed"
<1>1. HoldsLoop(q) /\ req[q].pc # "idle" /\ req[q].pc \in OpenSteps
  BY DEF HoldsLoop, Committing, OpenSteps
<1>2. Holder(q)
  BY <1>1, AtWork
<1> QED
  BY <1>1, <1>2 DEF Holder, HasChain, Stored, Bound

LEMMA CommitChainKeeps ==
  ASSUME LifecycleInv, NEW q \in Requests, CommitChain(q)
  PROVE  LifecycleInv'
<1>1. req[q].pc = "commitChain" /\ Goto(q, "commitFork")
      /\ UNCHANGED <<rec, fork, children, lease, published, crashes>>
  BY DEF CommitChain, At
<1>2. TypeOK /\ Copy(q) /\ Holder(q) /\ req[q].r \in Records
  BY <1>1, AtWork
<1>3. /\ HoldsLoop(q)
      /\ Kind[req[q].r] = "rerun" /\ req[q].outcome = "completed" =>
              /\ rec[req[q].r].execution.bound # 0
              /\ children[req[q].r][rec[req[q].r].execution.bound].state = "completed"
  BY <1>1, CommittingMeans DEF Committing
<1>4. /\ req' \in [Requests -> RequestStates] /\ OthersSame(q) /\ req'[q].pc = "commitFork"
      /\ req'[q].r = req[q].r /\ req'[q].record = req[q].record
      /\ req'[q].outcome = req[q].outcome
  BY <1>1, <1>2, GotoMeans DEF Steps
<1>5. Copy(q)'
  BY <1>1, <1>2, <1>4 DEF Copy, Bound
<1>6. Holder(q)'
  BY <1>1, <1>2, <1>4
  DEF Holder, HoldsLoop, Stored, OpenSteps, Submitting, Committing, Bound
<1>7. chain' \in [Records -> {"none", "pending", "active", "failed"}]
      /\ \A r \in Records : chain'[r] = "active" =>
           chain[r] = "active" \/ (r = req[q].r /\ req[q].outcome = "completed")
  BY <1>2 DEF CommitChain, DomainState, TypeOK
<1>8. fork' \in [Records -> {"none", "planning", "active", "failed"}]
  BY <1>1, <1>2 DEF TypeOK
<1> QED
  BY <1>1, <1>3, <1>4, <1>5, <1>6, <1>7, <1>8, DomainStep

LEMMA CommitForkKeeps ==
  ASSUME LifecycleInv, NEW q \in Requests, CommitFork(q)
  PROVE  LifecycleInv'
<1>1. req[q].pc = "commitFork" /\ Goto(q, "effectStatus")
      /\ UNCHANGED <<rec, chain, children, lease, published, crashes>>
  BY DEF CommitFork, At
<1>2. TypeOK /\ Copy(q) /\ Holder(q) /\ req[q].r \in Records
  BY <1>1, AtWork
<1>3. /\ HoldsLoop(q)
      /\ Kind[req[q].r] = "rerun" /\ req[q].outcome = "completed" =>
              /\ rec[req[q].r].execution.bound # 0
              /\ children[req[q].r][rec[req[q].r].execution.bound].state = "completed"
  BY <1>1, CommittingMeans DEF Committing
<1>4. /\ req' \in [Requests -> RequestStates] /\ OthersSame(q) /\ req'[q].pc = "effectStatus"
      /\ req'[q].r = req[q].r /\ req'[q].record = req[q].record
      /\ req'[q].outcome = req[q].outcome
  BY <1>1, <1>2, GotoMeans DEF Steps
<1>5. Copy(q)'
  BY <1>1, <1>2, <1>4 DEF Copy, Bound
<1>6. Holder(q)'
  BY <1>1, <1>2, <1>4
  DEF Holder, HoldsLoop, Stored, OpenSteps, Submitting, Committing, Bound
<1>7. fork' \in [Records -> {"none", "planning", "active", "failed"}]
      /\ \A r \in Records : fork'[r] = "active" =>
           fork[r] = "active" \/ (r = req[q].r /\ req[q].outcome = "completed")
  BY <1>2 DEF CommitFork, DomainState, TypeOK
<1>8. chain' \in [Records -> {"none", "pending", "active", "failed"}]
  BY <1>1, <1>2 DEF TypeOK
<1> QED
  BY <1>1, <1>3, <1>4, <1>5, <1>6, <1>7, <1>8, DomainStep

LEMMA RecordEffectKeeps ==
  ASSUME LifecycleInv, NEW q \in Requests, RecordEffect(q)
  PROVE  LifecycleInv'
<1> DEFINE new == [Stored(q) EXCEPT !.status = req[q].record.status,
                                    !.execution = req[q].record.execution,
                                    !.effect = EffectOf(req[q].outcome),
                                    !.projection = "pending"]
<1>1. req[q].pc = "effectStatus" /\ HoldsLoop(q) /\ AppendStatus(q, new, "settle") /\ OnlyRecord
  BY DEF RecordEffect, At, HoldsLoop
<1>2. /\ TypeOK /\ Copy(q) /\ Holder(q) /\ req[q].r \in Records
      /\ req[q].record \in RecordStates /\ Stored(q) \in RecordStates
  BY <1>1, AtWork
<1>3. EffectOf(req[q].outcome) \in {"pending", "committed", "failed"}
  BY DEF EffectOf
<1>4. /\ new \in RecordStates /\ new.status = req[q].record.status
      /\ new.execution = req[q].record.execution
  BY <1>2, <1>3 DEF RecordStates
<1> HIDE DEF new
<1>5. /\ rec'[req[q].r] = new /\ req' \in [Requests -> RequestStates] /\ OthersSame(q)
      /\ req'[q].pc = "settle" /\ req'[q].r = req[q].r /\ req'[q].record = new
      /\ req'[q].outcome = req[q].outcome /\ rec' = [rec EXCEPT ![req[q].r] = new]
  BY <1>1, <1>2, <1>4, AppendMeans DEF Steps, AppendStatus
<1>6. UNCHANGED <<fork, chain, children, lease, published, crashes>>
  BY <1>1 DEF OnlyRecord
<1>7. Copy(q)'
  BY <1>1, <1>2, <1>4, <1>5, <1>6 DEF Copy, Bound
<1>8. Holder(q)'
  BY <1>1, <1>2, <1>4, <1>5, <1>6
  DEF Holder, Stored, OpenSteps, Submitting, Committing, Bound, Copy
<1>9. new.execution.claimed
      /\ (Kind[req[q].r] = "rerun" => new.execution.bound = Stored(q).execution.bound)
  BY <1>1, <1>2, <1>4 DEF Copy, Holder, HasChain
<1> QED
  BY <1>1, <1>4, <1>5, <1>6, <1>7, <1>8, <1>9, RecordStep

LEMMA SettleKeeps ==
  ASSUME LifecycleInv, NEW q \in Requests, Settle(q)
  PROVE  LifecycleInv'
<1> DEFINE new == [Stored(q) EXCEPT !.status = req[q].outcome,
                                    !.execution = req[q].record.execution,
                                    !.effect = EffectOf(req[q].outcome),
                                    !.projection = "complete"]
<1>1. req[q].pc = "settle" /\ HoldsLoop(q) /\ Goto(q, "announce") /\ OnlyRecord
      /\ rec' = [rec EXCEPT ![req[q].r] = new]
  BY DEF Settle, At, HoldsLoop, Stored
<1>2. /\ TypeOK /\ Copy(q) /\ Holder(q) /\ req[q].r \in Records
      /\ req[q].record \in RecordStates /\ Stored(q) \in RecordStates
  BY <1>1, AtWork
<1>3. /\ EffectOf(req[q].outcome) \in {"pending", "committed", "failed"}
      /\ req[q].outcome \in Statuses
  BY <1>1, CommittingMeans DEF EffectOf, Committing, Statuses, Terminal
<1>4. /\ new \in RecordStates /\ new.execution = req[q].record.execution
  BY <1>2, <1>3 DEF RecordStates
<1> HIDE DEF new
<1>5. rec'[req[q].r] = new
  BY <1>1, <1>2 DEF TypeOK
<1>6. /\ req' \in [Requests -> RequestStates] /\ OthersSame(q)
      /\ req'[q].pc = "announce" /\ req'[q].r = req[q].r /\ req'[q].record = req[q].record
  BY <1>1, <1>2, GotoMeans DEF Steps
<1>7. UNCHANGED <<fork, chain, children, lease, published, crashes>>
  BY <1>1 DEF OnlyRecord
<1>8. Copy(q)'
  BY <1>1, <1>2, <1>4, <1>5, <1>6, <1>7 DEF Copy, Bound
<1>9. Holder(q)'
  BY <1>4, <1>5, <1>6, <1>7 DEF Holder, Stored, OpenSteps, Submitting, Committing
<1>10. new.execution.claimed
      /\ (Kind[req[q].r] = "rerun" => new.execution.bound = Stored(q).execution.bound)
  BY <1>1, <1>2, <1>4 DEF Copy, Holder, HasChain
<1> QED
  BY <1>1, <1>4, <1>6, <1>7, <1>8, <1>9, <1>10, RecordStep

LEMMA AnnounceKeeps ==
  ASSUME LifecycleInv, NEW q \in Requests, Announce(q)
  PROVE  LifecycleInv'
<1>1. req[q].pc \in {"announce", "announceFailed"} /\ Goto(q, "release")
      /\ PastClaim(q) /\ HoldsLoop(q) /\ published' = published \cup {req[q].r}
      /\ UNCHANGED <<rec, fork, chain, children, lease, crashes>>
  BY DEF Announce, PastClaim, HoldsLoop
<1>2. /\ TypeOK /\ Holder(q) /\ req[q].r \in Records /\ published \subseteq Records
      /\ lease \in [holder : Records \cup {NoRecord}, live : BOOLEAN]
  BY <1>1, AtWork
<1>3. req'[q].pc = "release" /\ req'[q].r = req[q].r /\ req'[q].record = req[q].record
  BY <1>1, <1>2, GotoMeans DEF Steps
<1>4. Holder(q)'
  BY <1>1, <1>2, <1>3 DEF Holder, Stored, OpenSteps, Submitting, Committing
<1>5. "release" \in Steps \ {"recover", "claim"}
  BY DEF Steps
<1> QED
  BY <1>1, <1>2, <1>4, <1>5, GotoKeeps

-----------------------------------------------------------------------------
(* The except block.                                                        *)

\* Withdrawing the domain state makes nothing active.
LEMMA WithdrawMeans ==
  ASSUME NEW S, "failed" \in S, NEW state \in [Records -> S], NEW q, req[q].r \in Records
  PROVE  /\ Withdraw(state, q) \in [Records -> S]
         /\ \A r \in Records : Withdraw(state, q)[r] = "active" => state[r] = "active"
BY DEF Withdraw

LEMMA FailChainKeeps ==
  ASSUME LifecycleInv, NEW q \in Requests, FailChain(q)
  PROVE  LifecycleInv'
<1>1. req[q].pc = "failChain" /\ HoldsLoop(q) /\ Goto(q, "failFork")
      /\ chain' = Withdraw(chain, q)
      /\ UNCHANGED <<rec, fork, children, lease, published, crashes>>
  BY DEF FailChain, At, HoldsLoop
<1>2. TypeOK /\ Copy(q) /\ Holder(q) /\ req[q].r \in Records
  BY <1>1, AtWork
<1>3. /\ req' \in [Requests -> RequestStates] /\ OthersSame(q) /\ req'[q].pc = "failFork"
      /\ req'[q].r = req[q].r /\ req'[q].record = req[q].record
  BY <1>1, <1>2, GotoMeans DEF Steps
<1>4. Copy(q)'
  BY <1>1, <1>2, <1>3 DEF Copy, Bound
<1>5. Holder(q)'
  BY <1>1, <1>2, <1>3 DEF Holder, Stored, OpenSteps, Submitting, Committing
<1>6. chain' \in [Records -> {"none", "pending", "active", "failed"}]
      /\ \A r \in Records : chain'[r] = "active" => chain[r] = "active"
  <2> DEFINE S == {"none", "pending", "active", "failed"}
  <2>1. chain \in [Records -> S] /\ "failed" \in S
    BY <1>2 DEF TypeOK
  <2> HIDE DEF S
  <2>2. /\ Withdraw(chain, q) \in [Records -> S]
        /\ \A r \in Records : Withdraw(chain, q)[r] = "active" => chain[r] = "active"
    BY <1>2, <2>1, WithdrawMeans
  <2> QED
    BY <1>1, <2>2 DEF S
<1>7. fork' \in [Records -> {"none", "planning", "active", "failed"}]
  BY <1>1, <1>2 DEF TypeOK
<1> QED
  BY <1>1, <1>3, <1>4, <1>5, <1>6, <1>7, DomainStep

LEMMA FailForkKeeps ==
  ASSUME LifecycleInv, NEW q \in Requests, FailFork(q)
  PROVE  LifecycleInv'
<1>1. req[q].pc = "failFork" /\ HoldsLoop(q) /\ Goto(q, "settleFailed")
      /\ fork' = Withdraw(fork, q)
      /\ UNCHANGED <<rec, chain, children, lease, published, crashes>>
  BY DEF FailFork, At, HoldsLoop
<1>2. TypeOK /\ Copy(q) /\ Holder(q) /\ req[q].r \in Records
  BY <1>1, AtWork
<1>3. /\ req' \in [Requests -> RequestStates] /\ OthersSame(q) /\ req'[q].pc = "settleFailed"
      /\ req'[q].r = req[q].r /\ req'[q].record = req[q].record
  BY <1>1, <1>2, GotoMeans DEF Steps
<1>4. Copy(q)'
  BY <1>1, <1>2, <1>3 DEF Copy, Bound
<1>5. Holder(q)'
  BY <1>1, <1>2, <1>3 DEF Holder, Stored, OpenSteps, Submitting, Committing
<1>6. fork' \in [Records -> {"none", "planning", "active", "failed"}]
      /\ \A r \in Records : fork'[r] = "active" => fork[r] = "active"
  <2> DEFINE S == {"none", "planning", "active", "failed"}
  <2>1. fork \in [Records -> S] /\ "failed" \in S
    BY <1>2 DEF TypeOK
  <2> HIDE DEF S
  <2>2. /\ Withdraw(fork, q) \in [Records -> S]
        /\ \A r \in Records : Withdraw(fork, q)[r] = "active" => fork[r] = "active"
    BY <1>2, <2>1, WithdrawMeans
  <2> QED
    BY <1>1, <2>2 DEF S
<1>7. chain' \in [Records -> {"none", "pending", "active", "failed"}]
  BY <1>1, <1>2 DEF TypeOK
<1> QED
  BY <1>1, <1>3, <1>4, <1>5, <1>6, <1>7, DomainStep

LEMMA SettleFailedKeeps ==
  ASSUME LifecycleInv, NEW q \in Requests, SettleFailed(q)
  PROVE  LifecycleInv'
<1> DEFINE new == [Stored(q) EXCEPT !.status = "failed",
                                    !.execution = req[q].record.execution,
                                    !.effect = IF req[q].record.effect = "pending"
                                               THEN "failed" ELSE req[q].record.effect,
                                    !.projection = "failed"]
<1>1. req[q].pc = "settleFailed" /\ HoldsLoop(q) /\ Goto(q, "announceFailed") /\ OnlyRecord
      /\ rec' = [rec EXCEPT ![req[q].r] = new]
  BY DEF SettleFailed, At, HoldsLoop, Stored
<1>2. /\ TypeOK /\ Copy(q) /\ Holder(q) /\ req[q].r \in Records
      /\ req[q].record \in RecordStates /\ Stored(q) \in RecordStates
  BY <1>1, AtWork
<1>3. /\ new \in RecordStates /\ new.execution = req[q].record.execution
  BY <1>2 DEF RecordStates, Statuses, Terminal
<1> HIDE DEF new
<1>4. rec'[req[q].r] = new
  BY <1>1, <1>2 DEF TypeOK
<1>5. /\ req' \in [Requests -> RequestStates] /\ OthersSame(q)
      /\ req'[q].pc = "announceFailed" /\ req'[q].r = req[q].r /\ req'[q].record = req[q].record
  BY <1>1, <1>2, GotoMeans DEF Steps
<1>6. UNCHANGED <<fork, chain, children, lease, published, crashes>>
  BY <1>1 DEF OnlyRecord
<1>7. Copy(q)'
  BY <1>1, <1>2, <1>3, <1>4, <1>5, <1>6 DEF Copy, Bound
<1>8. Holder(q)'
  BY <1>3, <1>4, <1>5, <1>6 DEF Holder, Stored, OpenSteps, Submitting, Committing
<1>9. new.execution.claimed
      /\ (Kind[req[q].r] = "rerun" => new.execution.bound = Stored(q).execution.bound)
  BY <1>1, <1>2, <1>3 DEF Copy, Holder, HasChain
<1> QED
  BY <1>1, <1>3, <1>5, <1>6, <1>7, <1>8, <1>9, RecordStep

LEMMA SettleRefusedKeeps ==
  ASSUME LifecycleInv, NEW q \in Requests, SettleRefused(q)
  PROVE  LifecycleInv'
<1>1. req[q].pc = "settleFailed" /\ Goto(q, "release") /\ PastClaim(q) /\ HoldsLoop(q)
      /\ UNCHANGED <<rec, fork, chain, children, lease, published, crashes>>
  BY DEF SettleRefused, At, PastClaim, HoldsLoop, OnlyRequest
<1>2. /\ TypeOK /\ Holder(q) /\ published \subseteq Records
      /\ lease \in [holder : Records \cup {NoRecord}, live : BOOLEAN]
  BY <1>1, AtWork
<1>3. req'[q].pc = "release" /\ req'[q].r = req[q].r /\ req'[q].record = req[q].record
  BY <1>1, <1>2, GotoMeans DEF Steps
<1>4. Holder(q)'
  BY <1>1, <1>2, <1>3 DEF Holder, Stored, OpenSteps, Submitting, Committing
<1>5. "release" \in Steps \ {"recover", "claim"}
  BY DEF Steps
<1> QED
  BY <1>1, <1>2, <1>4, <1>5, GotoKeeps

LEMMA RequestStepKeeps ==
  ASSUME LifecycleInv, NEW q \in Requests, RequestStep(q)
  PROVE  LifecycleInv'
BY RecoverKeeps, ClaimKeeps, AcquireKeeps, LeaseStepsKeep, PrepareForkKeeps,
   PrepareChainKeeps, PreparedKeeps, RaisesKeep, ReconcileRunKeeps, FindRunKeeps,
   SubmitInputsKeeps, SubmitManifestKeeps, SubmitDispatchKeeps, StartWorkflowKeeps,
   EffectReturnsKeeps, BindKeeps, PublishSubmittedKeeps, NonterminalKeeps, CommitChainKeeps,
   CommitForkKeeps, RecordEffectKeeps, SettleKeeps, AnnounceKeeps, FailChainKeeps,
   FailForkKeeps, SettleFailedKeeps, SettleRefusedKeeps
DEF RequestStep

-----------------------------------------------------------------------------
(* The environment.                                                         *)

\* A child run that has not completed changes, and nothing else does.
LEMMA WorkerStep ==
  ASSUME LifecycleInv, NEW r \in Records, NEW i \in DOMAIN children[r],
         children[r][i].state # "completed", NEW e \in ChildStates, ~e.alive,
         children[r][i].alive \/ e.state # "completed",
         children' = [children EXCEPT ![r] = [children[r] EXCEPT ![i] = e]],
         UNCHANGED <<rec, fork, chain, lease, req, published, crashes>>
  PROVE  LifecycleInv'
<1>1. TypeOK
  BY DEF LifecycleInv
<1>2. /\ children' \in [Records -> Seq(ChildStates)]
      /\ \A s \in Records : s # r => children'[s] = children[s]
      /\ Len(children'[r]) = Len(children[r])
      /\ DOMAIN children'[r] = DOMAIN children[r]
      /\ children'[r][i] = e
      /\ \A j \in DOMAIN children[r] : j # i => children'[r][j] = children[r][j]
  BY <1>1, ReplaceChild
<1>3. \A s \in Records : Len(children'[s]) = Len(children[s])
  BY <1>2
<1>4. \A s \in Records : DOMAIN children'[s] = DOMAIN children[s]
  BY <1>2
<1>5. \A s \in Records, j \in Nat :
        children[s][j].state = "completed" /\ j \in DOMAIN children[s] =>
          children'[s][j] = children[s][j]
  BY <1>2
<1>6. TypeOK'
  BY <1>1, <1>2 DEF TypeOK, ChildStates
<1>7. OneHolder'
  BY DEF LifecycleInv, OneHolder, HoldsLoop
<1>8. Copies'
  BY <1>3 DEF LifecycleInv, Copies, Copy, Bound
<1>9. Children'
  BY <1>2 DEF LifecycleInv, Children
<1>10. OneChildRun'
  BY <1>3 DEF LifecycleInv, OneChildRun
<1>11. ActiveChainHasResult'
  <2>1. ASSUME NEW s \in Records, chain[s] = "active" \/ fork[s] = "active", Kind[s] = "rerun"
        PROVE  rec[s].execution.bound # 0
               /\ children'[s][rec[s].execution.bound].state = "completed"
    <3> DEFINE b == rec[s].execution.bound
    <3>1. b # 0 /\ children[s][b].state = "completed" /\ b <= Len(children[s])
      BY <2>1 DEF LifecycleInv, ActiveChainHasResult, OneChildRun
    <3>2. b \in Nat /\ children[s] \in Seq(ChildStates)
      BY <1>1 DEF TypeOK, RecordStates, Executions, ChildStates
    <3> HIDE DEF b
    <3>3. b \in DOMAIN children[s]
      BY <3>1, <3>2, LenProperties
    <3> QED
      BY <1>5, <3>1, <3>2, <3>3 DEF b
  <2> QED
    BY <2>1 DEF ActiveChainHasResult
<1>12. Holders'
  <2>1. ASSUME NEW q \in Requests, HoldsLoop(q)
        PROVE  Holder(q)'
    <3> DEFINE s == req[q].r
    <3>1. /\ Copy(q) /\ Holder(q) /\ s \in Records /\ children[s] \in Seq(ChildStates)
          /\ req[q].record \in RecordStates
      BY <2>1, AtWork DEF HoldsLoop
    <3>2. req[q].pc \in Submitting =>
            /\ Len(children'[s]) = 1
            /\ children'[s][1].state # "completed" /\ ~children'[s][1].alive
      <4>1. CASE req[q].pc \in Submitting
        <5>1. /\ Len(children[s]) = 1 /\ 1 \in DOMAIN children[s]
              /\ children[s][1].state # "completed" /\ ~children[s][1].alive
          BY <4>1, SubmittingMeans
        <5>2. CASE s = r /\ i = 1
          BY <1>2, <1>3, <3>1, <5>1, <5>2
        <5>3. CASE ~(s = r /\ i = 1)
          BY <1>2, <1>3, <3>1, <5>1, <5>3
        <5> QED
          BY <5>2, <5>3
      <4> QED
        BY <4>1
    <3>3. children[s] # <<>> => children'[s] # <<>>
      <4>1. children'[s] \in Seq(ChildStates) /\ Len(children'[s]) = Len(children[s])
        BY <1>2, <1>3, <3>1
      <4> HIDE DEF s
      <4> QED
        BY <3>1, <4>1, EmptySeq
    <3>4. ASSUME Bound(q) # 0, children[s][Bound(q)].state = "completed", Kind[s] = "rerun"
          PROVE  children'[s][Bound(q)].state = "completed"
      <4>1. Bound(q) \in Nat /\ Bound(q) <= Len(children[s])
        BY <2>1, <3>1, <3>4 DEF Copy, HoldsLoop, RecordStates, Executions, Bound
      <4> HIDE DEF s
      <4>2. Bound(q) \in DOMAIN children[s]
        BY <3>1, <3>4, <4>1, LenProperties
      <4> QED
        BY <1>5, <3>1, <3>4, <4>1, <4>2
    <3> QED
      BY <3>1, <3>2, <3>3, <3>4 DEF Holder, HoldsLoop, Stored, Bound
  <2>2. ASSUME NEW q \in Requests, ~HoldsLoop(q)
        PROVE  Holder(q)'
    BY <2>2 DEF Holder, HoldsLoop
  <2> QED
    BY <2>1, <2>2 DEF Holders
<1> QED
  BY <1>6, <1>7, <1>8, <1>9, <1>10, <1>11, <1>12 DEF LifecycleInv

LEMMA FinishRunKeeps ==
  ASSUME LifecycleInv, NEW r \in Records, FinishRun(r)
  PROVE  LifecycleInv'
<1>1. PICK i \in DOMAIN children[r], s \in {"completed", "failed", "interrupted"} :
        /\ Running(r, i)
        /\ children' = [children EXCEPT ![r][i] = [state |-> s, alive |-> FALSE]]
  BY DEF FinishRun
<1> DEFINE e == [state |-> s, alive |-> FALSE]
<1>2. e \in ChildStates /\ ~e.alive
  BY DEF ChildStates, RunStates
<1>3. children' = [children EXCEPT ![r] = [children[r] EXCEPT ![i] = e]]
  BY <1>1
<1>4. children[r][i].alive
  BY <1>1 DEF Running
<1>5. children[r][i].state # "completed"
  BY <1>4 DEF LifecycleInv, Children
<1>6. UNCHANGED <<rec, fork, chain, lease, req, published, crashes>>
  BY DEF FinishRun
<1> HIDE DEF e
<1> QED
  BY <1>2, <1>3, <1>4, <1>5, <1>6, WorkerStep

LEMMA MarkInterruptedKeeps ==
  ASSUME LifecycleInv, NEW r \in Records, MarkInterrupted(r)
  PROVE  LifecycleInv'
<1>1. PICK i \in DOMAIN children[r] :
        /\ children[r][i].state = "running" /\ ~children[r][i].alive
        /\ children' = [children EXCEPT ![r][i].state = "interrupted"]
  BY DEF MarkInterrupted
<1> DEFINE e == [children[r][i] EXCEPT !.state = "interrupted"]
<1>2. children[r] \in Seq(ChildStates)
  BY DEF LifecycleInv, TypeOK, ChildStates
<1>3. children[r][i] \in ChildStates
  BY <1>2, ElementOfSeq, LenProperties
<1>4. e \in ChildStates /\ ~e.alive /\ e.state # "completed"
  BY <1>1, <1>3 DEF ChildStates, RunStates
<1>5. children' = [children EXCEPT ![r] = [children[r] EXCEPT ![i] = e]]
  BY <1>1
<1>6. UNCHANGED <<rec, fork, chain, lease, req, published, crashes>>
  BY DEF MarkInterrupted
<1> HIDE DEF e
<1> QED
  BY <1>1, <1>4, <1>5, <1>6, WorkerStep

LEMMA LeaseExpiresKeeps ==
  ASSUME LifecycleInv, LeaseExpires
  PROVE  LifecycleInv'
<1>1. UNCHANGED <<rec, fork, chain, children, req, published, crashes>>
      /\ lease' = [lease EXCEPT !.live = FALSE]
  BY DEF LeaseExpires
<1>2. TypeOK'
  BY <1>1 DEF LifecycleInv, TypeOK
<1>3. OneHolder' /\ Copies' /\ Holders'
  BY <1>1 DEF LifecycleInv, OneHolder, HoldsLoop, Copies, Copy, Bound, Holders, Holder, Stored
<1>4. Children' /\ OneChildRun' /\ ActiveChainHasResult'
  BY <1>1 DEF LifecycleInv, Children, OneChildRun, ActiveChainHasResult
<1> QED
  BY <1>2, <1>3, <1>4 DEF LifecycleInv

LEMMA IdleTyped == Idle \in RequestStates
BY DEF Idle, PendingRecord, RequestStates, RecordStates, Executions, Statuses

\* A dead worker is no more than not alive: it is the same sequence of child runs.
Dead(s) == [i \in DOMAIN s |-> [s[i] EXCEPT !.alive = FALSE]]

LEMMA DeadChildren ==
  ASSUME NEW s \in Seq(ChildStates)
  PROVE  /\ Dead(s) \in Seq(ChildStates)
         /\ Len(Dead(s)) = Len(s) /\ DOMAIN Dead(s) = DOMAIN s
         /\ \A i \in DOMAIN s : Dead(s)[i].state = s[i].state /\ ~Dead(s)[i].alive
<1> DEFINE dead == Dead(s)
<1>1. Len(s) \in Nat /\ DOMAIN s = 1 .. Len(s) /\ \A i \in DOMAIN s : s[i] \in ChildStates
  BY LenProperties, ElementOfSeq
<1>2. \A i \in DOMAIN s :
        /\ [s[i] EXCEPT !.alive = FALSE] \in ChildStates
        /\ [s[i] EXCEPT !.alive = FALSE].state = s[i].state
        /\ ~[s[i] EXCEPT !.alive = FALSE].alive
  BY <1>1 DEF ChildStates
<1>3. dead \in [1 .. Len(s) -> ChildStates]
  BY <1>1, <1>2 DEF Dead
<1>4. dead \in Seq(ChildStates)
  BY <1>1, <1>3, IsASeq
<1>5. DOMAIN dead = DOMAIN s
  BY DEF Dead
<1>6. \A i \in DOMAIN s : dead[i] = [s[i] EXCEPT !.alive = FALSE]
  BY DEF Dead
<1> HIDE DEF dead
<1>7. Len(dead) = Len(s)
  BY <1>1, <1>4, <1>5, LenProperties
<1> QED
  BY <1>2, <1>4, <1>5, <1>6, <1>7 DEF dead

LEMMA CrashKeeps ==
  ASSUME LifecycleInv, Crash
  PROVE  LifecycleInv'
<1>1. /\ UNCHANGED <<rec, fork, chain, lease, published>>
      /\ req' = [q \in Requests |-> Idle]
      /\ crashes < MaxCrashes /\ crashes' = crashes + 1
  BY DEF Crash
<1>2. TypeOK
  BY DEF LifecycleInv
<1>3. \A r \in Records :
        /\ children'[r] \in Seq(ChildStates)
        /\ Len(children'[r]) = Len(children[r]) /\ DOMAIN children'[r] = DOMAIN children[r]
        /\ \A i \in DOMAIN children[r] :
             children'[r][i].state = children[r][i].state /\ ~children'[r][i].alive
  <2>1. ASSUME NEW r \in Records
        PROVE  /\ children[r] \in Seq(ChildStates)
               /\ children'[r] = Dead(children[r])
    BY <1>2 DEF Crash, TypeOK, ChildStates, Dead
  <2> QED
    BY <2>1, DeadChildren
<1>4. children' \in [Records -> Seq(ChildStates)]
  BY <1>3 DEF Crash
<1>5. TypeOK'
  <2>1. crashes' \in 0 .. MaxCrashes
    BY <1>1, <1>2, MaxCrashesAssumption DEF TypeOK
  <2>2. req' \in [Requests -> RequestStates]
    BY <1>1, IdleTyped
  <2> QED
    BY <1>1, <1>2, <1>4, <2>1, <2>2 DEF TypeOK, ChildStates
<1>6. OneHolder' /\ Copies' /\ Holders'
  <2>1. \A q \in Requests : req'[q].pc = "idle"
    BY <1>1 DEF Idle
  <2> QED
    BY <2>1 DEF OneHolder, HoldsLoop, Copies, Copy, Holders, Holder
<1>7. Children'
  BY <1>3 DEF Children
<1>8. OneChildRun'
  BY <1>1, <1>3 DEF LifecycleInv, OneChildRun
<1>9. ActiveChainHasResult'
  <2>1. ASSUME NEW r \in Records, chain[r] = "active" \/ fork[r] = "active", Kind[r] = "rerun"
        PROVE  rec[r].execution.bound # 0
               /\ children'[r][rec[r].execution.bound].state = "completed"
    <3> DEFINE b == rec[r].execution.bound
    <3>1. b # 0 /\ children[r][b].state = "completed" /\ b <= Len(children[r])
      BY <2>1 DEF LifecycleInv, ActiveChainHasResult, OneChildRun
    <3>2. b \in Nat /\ children[r] \in Seq(ChildStates)
      BY <1>2 DEF TypeOK, RecordStates, Executions, ChildStates
    <3> HIDE DEF b
    <3>3. b \in DOMAIN children[r]
      BY <3>1, <3>2, LenProperties
    <3> QED
      BY <1>3, <3>1, <3>3 DEF b
  <2> QED
    BY <1>1, <2>1 DEF ActiveChainHasResult
<1> QED
  BY <1>5, <1>6, <1>7, <1>8, <1>9 DEF LifecycleInv

LEMMA InitLifecycle ==
  ASSUME Init
  PROVE  LifecycleInv
<1>1. PendingRecord \in RecordStates
  BY DEF PendingRecord, RecordStates, Executions, Statuses
<1>2. TypeOK
  BY <1>1, IdleTyped, MaxCrashesAssumption DEF Init, TypeOK
<1>3. OneHolder /\ Copies /\ Holders
  BY DEF Init, Idle, OneHolder, HoldsLoop, Copies, Copy, Holders, Holder
<1>4. Children /\ OneChildRun /\ ActiveChainHasResult
  BY DEF Init, PendingRecord, Children, OneChildRun, ActiveChainHasResult
<1> QED
  BY <1>2, <1>3, <1>4 DEF LifecycleInv

LEMMA NextKeepsLifecycle ==
  ASSUME LifecycleInv, [Next]_vars
  PROVE  LifecycleInv'
<1>1. CASE UNCHANGED vars
  <2>1. TypeOK' /\ OneHolder' /\ Copies' /\ Holders'
    BY <1>1 DEF vars, LifecycleInv, TypeOK, OneHolder, HoldsLoop, Copies, Copy, Bound,
                Holders, Holder, Stored
  <2>2. Children' /\ OneChildRun' /\ ActiveChainHasResult'
    BY <1>1 DEF vars, LifecycleInv, Children, OneChildRun, ActiveChainHasResult
  <2> QED
    BY <2>1, <2>2 DEF LifecycleInv
<1>2. ASSUME NEW q \in Requests, NEW r \in Records, Confirm(q, r) \/ Reconcile(q, r)
      PROVE  LifecycleInv'
  <2>1. \E pc \in {"recover", "claim"} : Enter(q, r, pc)
    BY <1>2 DEF Confirm, Reconcile
  <2> QED
    BY <2>1, EnterKeeps
<1>3. ASSUME NEW q \in Requests, RequestStep(q)
      PROVE  LifecycleInv'
  BY <1>3, RequestStepKeeps
<1>4. ASSUME NEW r \in Records, FinishRun(r) \/ MarkInterrupted(r)
      PROVE  LifecycleInv'
  BY <1>4, FinishRunKeeps, MarkInterruptedKeeps
<1> QED
  BY <1>1, <1>2, <1>3, <1>4, LeaseExpiresKeeps, CrashKeeps DEF Next

-----------------------------------------------------------------------------
(* What a step makes of a record and of its child run.                      *)

PhaseOf(record) ==
  IF record.status \in Terminal THEN record.status
  ELSE IF record.execution.claimed THEN "claimed" ELSE "pending"

RunOf(runs) ==
  IF runs = <<>> THEN "none"
  ELSE IF runs[1].state = "completed" THEN "completed" ELSE "open"

\* One record that has not ended changes, and its phase by a step of the
\* abstract operation at most.
RecordAdvances(r) ==
  /\ UNCHANGED children
  /\ \A s \in Records : s # r => rec'[s] = rec[s]
  /\ rec[r].status \notin Terminal
  /\ \/ PhaseOf(rec'[r]) = PhaseOf(rec[r])
     \/ PhaseOf(rec[r]) = "pending" /\ PhaseOf(rec'[r]) = "claimed"
     \/ PhaseOf(rec[r]) = "claimed" /\ PhaseOf(rec'[r]) = "failed"
     \/ /\ PhaseOf(rec[r]) = "claimed" /\ PhaseOf(rec'[r]) = "completed"
        /\ Kind[r] = "rerun" => RunOf(children[r]) = "completed"

LEMMA Appended ==
  ASSUME LifecycleInv, LifecycleInv', NEW q \in Requests, req[q].pc # "idle",
         NEW new, NEW pc \in Steps, AppendStatus(q, new, pc)
  PROVE  /\ req[q].r \in Records /\ rec'[req[q].r] = new
         /\ \A s \in Records : s # req[q].r => rec'[s] = rec[s]
         /\ rec[req[q].r].status \notin Terminal /\ new.status \notin Terminal
         /\ pc \notin {"recover", "claim"} => new.execution.claimed
<1>1. TypeOK /\ req[q].r \in Records /\ req[q] \in RequestStates
  BY AtWork
<1>2. rec' = [rec EXCEPT ![req[q].r] = new] /\ CanAppend(req[q].r, new.status)
      /\ req' = [req EXCEPT ![q].record = new, ![q].pc = pc]
  BY DEF AppendStatus
<1>3. rec'[req[q].r] = new /\ \A s \in Records : s # req[q].r => rec'[s] = rec[s]
  BY <1>1, <1>2 DEF TypeOK
<1>4. req'[q].record = new /\ req'[q].pc = pc /\ req'[q].r = req[q].r
  <2> DEFINE state == [req[q] EXCEPT !.record = new, !.pc = pc]
  <2>1. state.record = new /\ state.pc = pc /\ state.r = req[q].r
    BY <1>1 DEF RequestStates
  <2>2. req' = [req EXCEPT ![q] = state]
    BY <1>2
  <2> HIDE DEF state
  <2> QED
    BY <1>1, <2>1, <2>2 DEF TypeOK
<1>5. Copy(q)'
  BY DEF LifecycleInv, Copies
<1>6. pc # "idle"
  BY DEF Steps
<1>7. new.status \notin Terminal /\ (pc \notin {"recover", "claim"} => new.execution.claimed)
  BY <1>4, <1>5, <1>6 DEF Copy
<1>8. rec[req[q].r].status \notin Terminal
  BY <1>1, <1>2, <1>7, TerminalIsClosed
<1> QED
  BY <1>1, <1>3, <1>7, <1>8

\* The steps between the claim and the settling keep the record claimed and open.
LEMMA AppendAdvances ==
  ASSUME LifecycleInv, LifecycleInv', NEW q \in Requests,
         Prepared(q) \/ Bind(q) \/ Nonterminal(q) \/ RecordEffect(q)
  PROVE  req[q].r \in Records /\ RecordAdvances(req[q].r)
<1>1. PastClaim(q) /\ UNCHANGED children
  BY DEF Prepared, Bind, Nonterminal, RecordEffect, At, PastClaim, OnlyRecord
<1>2. PICK new : \E pc \in Steps \ {"recover", "claim"} : AppendStatus(q, new, pc)
  <2>1. {"effect", "submitted", "release", "settle"} \subseteq Steps \ {"recover", "claim"}
    BY DEF Steps
  <2>2. CASE Prepared(q)
    <3>1. \E new : AppendStatus(q, new, "effect")
      BY <2>2 DEF Prepared
    <3> QED
      BY <2>1, <3>1
  <2>3. CASE Bind(q)
    <3>1. \E new : AppendStatus(q, new, "submitted")
      BY <2>3 DEF Bind
    <3> QED
      BY <2>1, <3>1
  <2>4. CASE Nonterminal(q)
    <3>1. \E new : AppendStatus(q, new, "release")
      BY <2>4 DEF Nonterminal
    <3> QED
      BY <2>1, <3>1
  <2>5. CASE RecordEffect(q)
    <3>1. \E new : AppendStatus(q, new, "settle")
      BY <2>5 DEF RecordEffect
    <3> QED
      BY <2>1, <3>1
  <2> QED
    BY <2>2, <2>3, <2>4, <2>5
<1>3. rec[req[q].r].execution.claimed
  BY <1>1, AtWork DEF PastClaim, Copy
<1>4. /\ req[q].r \in Records /\ rec'[req[q].r] = new
      /\ \A s \in Records : s # req[q].r => rec'[s] = rec[s]
      /\ rec[req[q].r].status \notin Terminal /\ new.status \notin Terminal
      /\ new.execution.claimed
  BY <1>1, <1>2, Appended DEF PastClaim
<1> QED
  BY <1>1, <1>3, <1>4 DEF RecordAdvances, PhaseOf

LEMMA RecoverAdvances ==
  ASSUME LifecycleInv, LifecycleInv', NEW q \in Requests, MarkRecovering(q)
  PROVE  req[q].r \in Records /\ RecordAdvances(req[q].r)
<1> DEFINE new == [req[q].record EXCEPT !.status = "recovering"]
<1>1. req[q].pc = "recover" /\ HoldsLoop(q) /\ AppendStatus(q, new, "claim")
      /\ UNCHANGED children
  BY DEF MarkRecovering, At, HoldsLoop, OnlyRecord
<1>2. Stored(q) = req[q].record /\ req[q].record \in RecordStates
  BY <1>1, AtWork DEF Holder
<1>3. new.execution = rec[req[q].r].execution
  BY <1>2 DEF Stored, RecordStates
<1> HIDE DEF new
<1>4. /\ req[q].r \in Records /\ rec'[req[q].r] = new
      /\ \A s \in Records : s # req[q].r => rec'[s] = rec[s]
      /\ rec[req[q].r].status \notin Terminal /\ new.status \notin Terminal
  BY <1>1, Appended DEF Steps
<1> QED
  BY <1>1, <1>3, <1>4 DEF RecordAdvances, PhaseOf

LEMMA ClaimAdvances ==
  ASSUME LifecycleInv, LifecycleInv', NEW q \in Requests, Claim(q)
  PROVE  req[q].r \in Records /\ RecordAdvances(req[q].r)
<1>1. PICK new : AppendStatus(q, new, "lease")
  BY DEF Claim
<1>2. req[q].pc = "claim" /\ UNCHANGED children
  BY DEF Claim, At, OnlyRecord
<1>3. /\ req[q].r \in Records /\ rec'[req[q].r] = new
      /\ \A s \in Records : s # req[q].r => rec'[s] = rec[s]
      /\ rec[req[q].r].status \notin Terminal /\ new.status \notin Terminal
      /\ new.execution.claimed
  BY <1>1, <1>2, Appended DEF Steps
<1> QED
  BY <1>2, <1>3 DEF RecordAdvances, PhaseOf

LEMMA SettleAdvances ==
  ASSUME LifecycleInv, NEW q \in Requests, Settle(q)
  PROVE  req[q].r \in Records /\ RecordAdvances(req[q].r)
<1> DEFINE r == req[q].r
<1>1. /\ req[q].pc = "settle" /\ UNCHANGED children
      /\ rec' = [rec EXCEPT ![r] =
                  [@ EXCEPT !.status = req[q].outcome, !.execution = req[q].record.execution,
                            !.effect = EffectOf(req[q].outcome), !.projection = "complete"]]
  BY DEF Settle, At, OnlyRecord
<1>2. /\ req[q].outcome \in {"completed", "failed"}
      /\ rec[r].status \notin Terminal
      /\ Kind[r] = "rerun" /\ req[q].outcome = "completed" =>
           /\ rec[r].execution.bound # 0
           /\ children[r][rec[r].execution.bound].state = "completed"
  BY <1>1, CommittingMeans DEF Committing, Stored
<1>3. TypeOK /\ Copy(q) /\ r \in Records /\ rec[r] \in RecordStates
      /\ children[r] \in Seq(ChildStates)
  BY <1>1, AtWork DEF Stored
<1>4. rec[r].execution.claimed
  BY <1>1, <1>3 DEF Copy
<1>5. rec'[r].status = req[q].outcome /\ \A s \in Records : s # r => rec'[s] = rec[s]
  <2> DEFINE new == [rec[r] EXCEPT !.status = req[q].outcome,
                                   !.execution = req[q].record.execution,
                                   !.effect = EffectOf(req[q].outcome),
                                   !.projection = "complete"]
  <2>1. new.status = req[q].outcome
    BY <1>3 DEF RecordStates
  <2>2. rec' = [rec EXCEPT ![r] = new]
    BY <1>1
  <2> HIDE DEF new
  <2> QED
    BY <1>3, <2>1, <2>2 DEF TypeOK
<1>6. ASSUME Kind[r] = "rerun", req[q].outcome = "completed"
      PROVE  RunOf(children[r]) = "completed"
  <2>1. rec[r].execution.bound \in Nat /\ Len(children[r]) \in Nat
    BY <1>3, LenProperties DEF RecordStates, Executions
  <2>2. rec[r].execution.bound <= Len(children[r]) /\ Len(children[r]) <= 1
    BY <1>3, <1>6 DEF LifecycleInv, OneChildRun
  <2>3. rec[r].execution.bound = 1 /\ Len(children[r]) = 1
    <3>1. rec[r].execution.bound # 0
      BY <1>2, <1>6
    <3>2. \A b, n \in Nat : b <= n /\ n <= 1 /\ b # 0 => b = 1 /\ n = 1
      OBVIOUS
    <3> HIDE DEF r
    <3> QED
      BY <2>1, <2>2, <3>1, <3>2
  <2>4. children[r] # <<>>
    BY <2>3, EmptySeq
  <2> QED
    BY <1>2, <1>6, <2>3, <2>4 DEF RunOf
<1>7. PhaseOf(rec[r]) = "claimed" /\ PhaseOf(rec'[r]) = req[q].outcome
  BY <1>2, <1>4, <1>5 DEF PhaseOf, Terminal
<1> HIDE DEF r
<1> QED
  BY <1>1, <1>2, <1>3, <1>5, <1>6, <1>7 DEF RecordAdvances, r

LEMMA SettleFailedAdvances ==
  ASSUME LifecycleInv, NEW q \in Requests, SettleFailed(q)
  PROVE  req[q].r \in Records /\ RecordAdvances(req[q].r)
<1> DEFINE r == req[q].r
           new == [rec[r] EXCEPT !.status = "failed", !.execution = req[q].record.execution,
                                 !.effect = IF req[q].record.effect = "pending"
                                            THEN "failed" ELSE req[q].record.effect,
                                 !.projection = "failed"]
<1>1. /\ req[q].pc = "settleFailed" /\ UNCHANGED children
      /\ CanAppend(r, req[q].record.status)
      /\ rec' = [rec EXCEPT ![r] = new]
  BY DEF SettleFailed, At, OnlyRecord
<1>2. TypeOK /\ Copy(q) /\ r \in Records /\ rec[r] \in RecordStates
  BY <1>1, AtWork DEF Stored
<1>3. rec[r].execution.claimed /\ req[q].record.status \notin Terminal
  BY <1>1, <1>2 DEF Copy
<1>4. rec[r].status \notin Terminal
  BY <1>1, <1>2, <1>3, TerminalIsClosed
<1>5. new.status = "failed"
  BY <1>2 DEF RecordStates
<1> HIDE DEF new
<1>6. rec'[r] = new /\ \A s \in Records : s # r => rec'[s] = rec[s]
  BY <1>1, <1>2 DEF TypeOK
<1>7. PhaseOf(rec[r]) = "claimed" /\ PhaseOf(rec'[r]) = "failed"
  BY <1>3, <1>4, <1>5, <1>6 DEF PhaseOf, Terminal
<1> QED
  BY <1>1, <1>2, <1>4, <1>6, <1>7 DEF RecordAdvances

LEMMA RequestStepAdvances ==
  ASSUME LifecycleInv, LifecycleInv', NEW q \in Requests, RequestStep(q)
  PROVE  UNCHANGED rec \/ \E r \in Records : RecordAdvances(r)
<1>1. CASE \/ Prepared(q) \/ Bind(q) \/ Nonterminal(q) \/ RecordEffect(q)
           \/ MarkRecovering(q) \/ Claim(q) \/ Settle(q) \/ SettleFailed(q)
  BY <1>1, AppendAdvances, RecoverAdvances, ClaimAdvances, SettleAdvances, SettleFailedAdvances
<1>2. CASE ~(\/ Prepared(q) \/ Bind(q) \/ Nonterminal(q) \/ RecordEffect(q)
             \/ MarkRecovering(q) \/ Claim(q) \/ Settle(q) \/ SettleFailed(q))
  BY <1>2
  DEF RequestStep, Acquire, LeaseConflict, PrepareFork, PrepareChain, PrepareRaises,
      ReconcileRun, FindRun, SubmitInputs, SubmitRaises, SubmitManifest, SubmitDispatch,
      StartWorkflow, EffectReturns, WorkflowFails, AppendRefused, PublishSubmitted,
      SubmittedRaises, CommitChain, CommitFork, Announce, AnnounceRaises, FailChain, FailFork,
      SettleRefused, Release, Raise, OnlyRequest
<1> QED
  BY <1>1, <1>2

\* One child run starts or completes, as the abstract operation allows.
RunAdvances(r) ==
  /\ UNCHANGED rec
  /\ \A s \in Records : s # r => children'[s] = children[s]
  /\ \/ RunOf(children'[r]) = RunOf(children[r])
     \/ /\ PhaseOf(rec[r]) = "claimed" /\ Kind[r] = "rerun"
        /\ RunOf(children[r]) = "none" /\ RunOf(children'[r]) = "open"
     \/ RunOf(children[r]) = "open" /\ RunOf(children'[r]) = "completed"

LEMMA SubmitInputsAdvances ==
  ASSUME LifecycleInv, NEW q \in Requests, SubmitInputs(q)
  PROVE  req[q].r \in Records /\ RunAdvances(req[q].r)
<1> DEFINE r == req[q].r
           e == [state |-> "inputs", alive |-> FALSE]
<1>1. /\ req[q].pc = "effect" /\ Kind[r] = "rerun" /\ HoldsLoop(q) /\ Witnesses(r) = {}
      /\ children' = [children EXCEPT ![r] = Append(children[r], e)] /\ UNCHANGED rec
  BY DEF SubmitInputs, At, HoldsLoop
<1>2. /\ TypeOK /\ Copy(q) /\ Holder(q) /\ r \in Records
      /\ children[r] \in Seq(ChildStates)
  BY <1>1, AtWork
<1>3. children[r] = <<>>
  <2>1. DOMAIN children[r] = {} /\ DOMAIN children[r] = 1 .. Len(children[r])
        /\ Len(children[r]) \in Nat
    BY <1>1, <1>2, LenProperties DEF Witnesses
  <2>2. ASSUME Len(children[r]) # 0  PROVE FALSE
    <3>1. 1 \in 1 .. Len(children[r])
      BY <2>1, <2>2
    <3> QED
      BY <2>1, <3>1
  <2> QED
    BY <1>2, <2>2, EmptySeq
<1>4. children'[r] = <<e>> /\ \A s \in Records : s # r => children'[s] = children[s]
  <2>1. Append(children[r], e) = <<e>>
    BY <1>3
  <2> HIDE DEF e, r
  <2> QED
    BY <1>1, <1>2, <2>1 DEF TypeOK
<1>5. RunOf(children'[r]) = "open" /\ RunOf(children[r]) = "none"
  BY <1>3, <1>4 DEF RunOf
<1>6. rec[r].execution.claimed /\ rec[r].status \notin Terminal
  BY <1>1, <1>2 DEF Copy, Holder, OpenSteps, Stored
<1>7. PhaseOf(rec[r]) = "claimed"
  BY <1>6 DEF PhaseOf
<1> QED
  BY <1>1, <1>2, <1>4, <1>5, <1>7 DEF RunAdvances

\* A change of the first child run that does not complete it.
LEMMA StillOpen ==
  ASSUME NEW r \in Records, LifecycleInv, NEW i \in DOMAIN children[r], NEW e \in ChildStates,
         children[r][i].state # "completed",
         children' = [children EXCEPT ![r] = [children[r] EXCEPT ![i] = e]]
  PROVE  /\ \A s \in Records : s # r => children'[s] = children[s]
         /\ RunOf(children[r]) = "open"
         /\ RunOf(children'[r]) = IF e.state = "completed" THEN "completed" ELSE "open"
<1>1. TypeOK /\ children[r] \in Seq(ChildStates) /\ Len(children[r]) <= 1
  BY DEF LifecycleInv, TypeOK, OneChildRun, ChildStates
<1>2. i = 1
  <2>1. Len(children[r]) \in Nat /\ i \in 1 .. Len(children[r])
    BY <1>1, LenProperties
  <2>2. \A n \in Nat : n <= 1 => \A j \in 1 .. n : j = 1
    OBVIOUS
  <2> QED
    BY <1>1, <2>1, <2>2
<1>3. /\ \A s \in Records : s # r => children'[s] = children[s]
      /\ children'[r] \in Seq(ChildStates) /\ DOMAIN children'[r] = DOMAIN children[r]
      /\ children'[r][1] = e
  BY <1>1, <1>2, ReplaceChild
<1>4. children[r] # <<>> /\ children'[r] # <<>>
  BY <1>3
<1> QED
  BY <1>2, <1>3, <1>4 DEF RunOf

LEMMA SubmitAdvances ==
  ASSUME LifecycleInv, NEW q \in Requests, SubmitManifest(q) \/ SubmitDispatch(q)
  PROVE  req[q].r \in Records /\ RunAdvances(req[q].r)
<1> DEFINE r == req[q].r
<1>1. req[q].pc \in Submitting /\ req[q].pc # "idle" /\ UNCHANGED rec
  BY DEF SubmitManifest, SubmitDispatch, At, Submitting
<1>2. /\ Len(children[r]) = 1 /\ 1 \in DOMAIN children[r]
      /\ children[r][1] \in ChildStates /\ children[r][1].state # "completed"
  BY <1>1, SubmittingMeans
<1>3. r \in Records
  BY <1>1, AtWork
<1>4. PICK e \in ChildStates :
        /\ e.state # "completed"
        /\ children' = [children EXCEPT ![r] = [children[r] EXCEPT ![1] = e]]
  <2>1. CASE SubmitManifest(q)
    <3> DEFINE e == [children[r][1] EXCEPT !.state = "running"]
    <3>1. e \in ChildStates /\ e.state # "completed"
      BY <1>2 DEF ChildStates, RunStates
    <3>2. children' = [children EXCEPT ![r] = [children[r] EXCEPT ![1] = e]]
      BY <1>2, <2>1 DEF SubmitManifest
    <3> QED
      BY <3>1, <3>2
  <2>2. CASE SubmitDispatch(q)
    <3> DEFINE e == [children[r][1] EXCEPT !.alive = TRUE]
    <3>1. e \in ChildStates /\ e.state # "completed"
      BY <1>2 DEF ChildStates
    <3>2. children' = [children EXCEPT ![r] = [children[r] EXCEPT ![1] = e]]
      BY <1>2, <2>2 DEF SubmitDispatch
    <3> QED
      BY <3>1, <3>2
  <2> QED
    BY <2>1, <2>2
<1>5. /\ \A s \in Records : s # r => children'[s] = children[s]
      /\ RunOf(children'[r]) = RunOf(children[r])
  <2> HIDE DEF r
  <2>1. /\ \A s \in Records : s # r => children'[s] = children[s]
        /\ RunOf(children[r]) = "open"
        /\ RunOf(children'[r]) = IF e.state = "completed" THEN "completed" ELSE "open"
    BY <1>2, <1>3, <1>4, StillOpen
  <2> QED
    BY <1>4, <2>1
<1> QED
  BY <1>1, <1>3, <1>5 DEF RunAdvances

LEMMA WorkerAdvances ==
  ASSUME LifecycleInv, NEW r \in Records, FinishRun(r) \/ MarkInterrupted(r)
  PROVE  RunAdvances(r)
<1>1. PICK i \in DOMAIN children[r], e \in ChildStates :
        /\ children[r][i].state # "completed"
        /\ children' = [children EXCEPT ![r] = [children[r] EXCEPT ![i] = e]]
  <2>1. CASE FinishRun(r)
    <3>1. PICK i \in DOMAIN children[r], s \in {"completed", "failed", "interrupted"} :
            /\ Running(r, i)
            /\ children' = [children EXCEPT ![r][i] = [state |-> s, alive |-> FALSE]]
      BY <2>1 DEF FinishRun
    <3> DEFINE e == [state |-> s, alive |-> FALSE]
    <3>2. e \in ChildStates
      BY DEF ChildStates, RunStates
    <3>3. children[r][i].state # "completed"
      BY <3>1 DEF Running, LifecycleInv, Children
    <3>4. children' = [children EXCEPT ![r] = [children[r] EXCEPT ![i] = e]]
      BY <3>1
    <3> HIDE DEF e
    <3> QED
      BY <3>2, <3>3, <3>4
  <2>2. CASE MarkInterrupted(r)
    <3>1. PICK i \in DOMAIN children[r] :
            /\ children[r][i].state = "running"
            /\ children' = [children EXCEPT ![r][i].state = "interrupted"]
      BY <2>2 DEF MarkInterrupted
    <3> DEFINE e == [children[r][i] EXCEPT !.state = "interrupted"]
    <3>2. children[r] \in Seq(ChildStates)
      BY DEF LifecycleInv, TypeOK, ChildStates
    <3>3. children[r][i] \in ChildStates
      BY <3>2, ElementOfSeq, LenProperties
    <3>4. e \in ChildStates
      BY <3>3 DEF ChildStates, RunStates
    <3>5. children' = [children EXCEPT ![r] = [children[r] EXCEPT ![i] = e]]
      BY <3>1
    <3> HIDE DEF e
    <3> QED
      BY <3>1, <3>4, <3>5
  <2> QED
    BY <2>1, <2>2
<1>2. /\ \A s \in Records : s # r => children'[s] = children[s]
      /\ RunOf(children[r]) = "open"
      /\ RunOf(children'[r]) \in {"open", "completed"}
  BY <1>1, StillOpen
<1>3. UNCHANGED rec
  BY DEF FinishRun, MarkInterrupted
<1> QED
  BY <1>2, <1>3 DEF RunAdvances

LEMMA CrashAdvances ==
  ASSUME LifecycleInv, Crash
  PROVE  UNCHANGED rec /\ \A r \in Records : RunOf(children'[r]) = RunOf(children[r])
<1>1. ASSUME NEW r \in Records
      PROVE  RunOf(children'[r]) = RunOf(children[r])
  <2>1. /\ children[r] \in Seq(ChildStates) /\ children'[r] = Dead(children[r])
        /\ Len(children[r]) <= 1
    BY DEF Crash, LifecycleInv, TypeOK, ChildStates, Dead, OneChildRun
  <2>2. /\ children'[r] \in Seq(ChildStates)
        /\ Len(children'[r]) = Len(children[r]) /\ DOMAIN children'[r] = DOMAIN children[r]
        /\ \A i \in DOMAIN children[r] : children'[r][i].state = children[r][i].state
    BY <2>1, DeadChildren
  <2>3. CASE children[r] = <<>>
    BY <2>1, <2>2, <2>3, EmptySeq DEF RunOf
  <2>4. CASE children[r] # <<>>
    <3>1. Len(children[r]) \in Nat /\ Len(children[r]) # 0
          /\ DOMAIN children[r] = 1 .. Len(children[r])
      BY <2>1, <2>4, EmptySeq, LenProperties
    <3>2. 1 \in DOMAIN children[r] /\ children'[r] # <<>>
      BY <2>2, <3>1
    <3> QED
      BY <2>2, <2>4, <3>2 DEF RunOf
  <2> QED
    BY <2>3, <2>4
<1> QED
  BY <1>1 DEF Crash

LEMMA StepsAdvance ==
  ASSUME LifecycleInv, [Next]_vars
  PROVE  \/ /\ UNCHANGED rec
            /\ \A r \in Records : RunOf(children'[r]) = RunOf(children[r])
         \/ \E r \in Records : RecordAdvances(r) \/ RunAdvances(r)
<1>1. LifecycleInv'
  BY NextKeepsLifecycle
<1>2. ASSUME NEW q \in Requests, RequestStep(q)
      PROVE  \/ UNCHANGED <<rec, children>>
             \/ \E r \in Records : RecordAdvances(r) \/ RunAdvances(r)
  <2>1. CASE SubmitInputs(q) \/ SubmitManifest(q) \/ SubmitDispatch(q)
    BY <2>1, SubmitInputsAdvances, SubmitAdvances
  <2>2. CASE ~(SubmitInputs(q) \/ SubmitManifest(q) \/ SubmitDispatch(q))
    <3>1. UNCHANGED children
      BY <1>2, <2>2
      DEF RequestStep, MarkRecovering, Claim, Acquire, LeaseConflict, PrepareFork,
          PrepareChain, Prepared, PrepareRaises, ReconcileRun, FindRun, SubmitRaises,
          StartWorkflow, EffectReturns, WorkflowFails, Bind, AppendRefused, PublishSubmitted,
          SubmittedRaises, Nonterminal, CommitChain, CommitFork, RecordEffect, Settle,
          Announce, AnnounceRaises, FailChain, FailFork, SettleFailed, SettleRefused,
          Release, Raise, OnlyRequest, OnlyRecord
    <3> QED
      BY <1>1, <1>2, <3>1, RequestStepAdvances
  <2> QED
    BY <2>1, <2>2
<1>3. ASSUME NEW q \in Requests, NEW r \in Records, Confirm(q, r) \/ Reconcile(q, r)
      PROVE  UNCHANGED <<rec, children>>
  BY <1>3 DEF Confirm, Reconcile, Enter, OnlyRequest
<1>4. CASE LeaseExpires \/ UNCHANGED vars
  BY <1>4 DEF LeaseExpires, vars
<1> QED
  BY <1>2, <1>3, <1>4, WorkerAdvances, CrashAdvances DEF Next

\* The state that the refinement mapping gives to the abstract operation.
Phases == [r \in Records |-> PhaseOf(rec[r])]
Runs == [r \in Records |-> RunOf(children[r])]

LEMMA OutcomeStarts ==
  ASSUME Init
  PROVE  Outcome!Init
BY DEF Init, PendingRecord, Terminal, Outcome!Init

LEMMA OutcomeSteps ==
  ASSUME LifecycleInv, [Next]_vars
  PROVE  [Outcome!Next]_(Outcome!vars)
<1>1. CASE UNCHANGED <<Phases, Runs>>
  BY <1>1 DEF Phases, Runs, PhaseOf, RunOf, Outcome!vars
<1>2. ASSUME NEW r \in Records, RecordAdvances(r)
      PROVE  [Outcome!Next]_(Outcome!vars)
  <2>1. Phases' = [Phases EXCEPT ![r] = PhaseOf(rec'[r])] /\ UNCHANGED Runs
    BY <1>2 DEF RecordAdvances, Phases, Runs
  <2>2. CASE PhaseOf(rec'[r]) = PhaseOf(rec[r])
    BY <1>1, <2>1, <2>2 DEF Phases
  <2>3. CASE PhaseOf(rec[r]) = "pending" /\ PhaseOf(rec'[r]) = "claimed"
    <3>1. Outcome!Claim(r)
      BY <2>1, <2>3 DEF Phases, Runs, PhaseOf, RunOf, Outcome!Claim
    <3> QED
      BY <3>1 DEF Outcome!Next
  <2>4. CASE PhaseOf(rec[r]) = "claimed" /\ PhaseOf(rec'[r]) = "failed"
    <3>1. Outcome!Fail(r)
      BY <2>1, <2>4 DEF Phases, Runs, PhaseOf, RunOf, Outcome!Fail
    <3> QED
      BY <3>1 DEF Outcome!Next
  <2>5. CASE /\ PhaseOf(rec[r]) = "claimed" /\ PhaseOf(rec'[r]) = "completed"
             /\ Kind[r] = "rerun" => RunOf(children[r]) = "completed"
    <3>1. Outcome!Complete(r)
      BY <2>1, <2>5 DEF Phases, Runs, PhaseOf, RunOf, Outcome!Complete
    <3> QED
      BY <3>1 DEF Outcome!Next
  <2> QED
    BY <1>2, <2>2, <2>3, <2>4, <2>5 DEF RecordAdvances
<1>3. ASSUME NEW r \in Records, RunAdvances(r)
      PROVE  [Outcome!Next]_(Outcome!vars)
  <2>1. Runs' = [Runs EXCEPT ![r] = RunOf(children'[r])] /\ UNCHANGED Phases
    BY <1>3 DEF RunAdvances, Phases, Runs
  <2>2. CASE RunOf(children'[r]) = RunOf(children[r])
    BY <1>1, <2>1, <2>2 DEF Runs
  <2>3. CASE /\ PhaseOf(rec[r]) = "claimed" /\ Kind[r] = "rerun"
             /\ RunOf(children[r]) = "none" /\ RunOf(children'[r]) = "open"
    <3>1. Outcome!StartRun(r)
      BY <2>1, <2>3 DEF Phases, Runs, PhaseOf, RunOf, Outcome!StartRun
    <3> QED
      BY <3>1 DEF Outcome!Next
  <2>4. CASE RunOf(children[r]) = "open" /\ RunOf(children'[r]) = "completed"
    <3>1. Outcome!CompleteRun(r)
      BY <2>1, <2>4 DEF Phases, Runs, PhaseOf, RunOf, Outcome!CompleteRun
    <3> QED
      BY <3>1 DEF Outcome!Next
  <2> QED
    BY <1>3, <2>2, <2>3, <2>4 DEF RunAdvances
<1>4. CASE UNCHANGED rec /\ \A r \in Records : RunOf(children'[r]) = RunOf(children[r])
  BY <1>1, <1>4 DEF Phases, Runs
<1> QED
  BY <1>2, <1>3, <1>4, StepsAdvance

-----------------------------------------------------------------------------
(* The record and the domain state, if no exception follows the terminal      *)
(* status.                                                                    *)

\* A step of a request touches the domain state and the record of its own
\* operation only, and the others that hold a chain are not at work.
LEMMA DomainFrame ==
  ASSUME LifecycleInv, DomainInv, NEW q \in Requests, HoldsLoop(q) \/ LoopFree, OthersSame(q),
         NEW r \in Records,
         \A s \in Records : s # r => /\ rec'[s] = rec[s]
                                     /\ chain'[s] = chain[s] /\ fork'[s] = fork[s],
         DomainHolder(q)', DomainFits(r)'
  PROVE  DomainInv'
<1>1. \A p \in Requests : p # q => ~HoldsLoop(p)'
  BY DEF LifecycleInv, OneHolder, HoldsLoop, LoopFree, OthersSame
<1>2. \A p \in Requests : DomainHolder(p)'
  BY <1>1 DEF DomainHolder
<1>3. \A s \in Records : DomainFits(s)'
  BY DEF DomainInv, DomainFits
<1> QED
  BY <1>2, <1>3 DEF DomainInv

\* Steps that change nothing of the record and of the domain state.
LEMMA DomainStays ==
  ASSUME LifecycleInv, DomainInv, NEW q \in Requests, HoldsLoop(q) \/ LoopFree, OthersSame(q),
         UNCHANGED <<rec, chain, fork>>, DomainHolder(q)'
  PROVE  DomainInv'
<1>1. \A p \in Requests : p # q => ~HoldsLoop(p)'
  BY DEF LifecycleInv, OneHolder, HoldsLoop, LoopFree, OthersSame
<1>2. \A p \in Requests : DomainHolder(p)'
  BY <1>1 DEF DomainHolder
<1>3. \A s \in Records : DomainFits(s)'
  BY DEF DomainInv, DomainFits
<1> QED
  BY <1>2, <1>3 DEF DomainInv

LEMMA EnterFits ==
  ASSUME LifecycleInv, DomainInv, NEW q \in Requests, NEW r \in Records,
         NEW pc \in {"recover", "claim"}, Enter(q, r, pc)
  PROVE  DomainInv'
<1>1. /\ OthersSame(q) /\ req'[q].pc = pc /\ req'[q].r = r
  BY EnterMeans DEF LifecycleInv, Steps
<1>2. UNCHANGED <<rec, chain, fork>> /\ rec[r].status \notin Terminal /\ LoopFree
  BY DEF Enter, OnlyRequest
<1>3. DomainHolder(q)'
  BY <1>1, <1>2 DEF DomainHolder, WithIds, Committing
<1> QED
  BY <1>1, <1>2, <1>3, DomainStays

\* What the request that takes a step knows of its chain.
LEMMA DomainAtWork ==
  ASSUME LifecycleInv, DomainInv, NEW q \in Requests, req[q].pc # "idle", HasChain(req[q].r)
  PROVE  /\ HoldsLoop(q) /\ DomainHolder(q) /\ DomainFits(req[q].r)
         /\ Stored(q).execution = req[q].record.execution
<1>1. Copy(q) /\ Holder(q) /\ req[q].r \in Records
  BY AtWork
<1>2. HoldsLoop(q)
  BY <1>1 DEF Copy, HoldsLoop, HasChain
<1> QED
  BY <1>1, <1>2 DEF DomainInv, Holder

\* The steps that only move the request on.
GoesOn(q) ==
  \/ Acquire(q) \/ PrepareRaises(q) \/ ReconcileRun(q) \/ FindRun(q) \/ SubmitInputs(q)
  \/ SubmitRaises(q) \/ SubmitManifest(q) \/ SubmitDispatch(q) \/ StartWorkflow(q)
  \/ EffectReturns(q) \/ WorkflowFails(q) \/ AppendRefused(q) \/ PublishSubmitted(q)
  \/ SubmittedRaises(q) \/ Announce(q) \/ SettleRefused(q)

LEMMA GoesOnMeans ==
  ASSUME LifecycleInv, NEW q \in Requests, GoesOn(q)
  PROVE  /\ UNCHANGED <<rec, chain, fork>> /\ PastClaim(q) /\ (HoldsLoop(q) \/ LoopFree)
         /\ OthersSame(q) /\ req'[q].r = req[q].r /\ req'[q].record = req[q].record
         /\ req'[q].pc \in WithIds => req[q].pc \in WithIds \/ ~HasChain(req[q].r)
         /\ req'[q].pc \notin Ended => req[q].pc \notin Ended
         /\ req'[q].pc \notin (Committing \ {"commitChain"}) \cup {"failFork", "settleFailed"}
<1>1. TypeOK
  BY DEF LifecycleInv
<1>2. ASSUME NEW pc \in Steps,
             Goto(q, pc) \/ \E o \in {"running", "completed", "failed"} : Effect(q, o, pc)
      PROVE  /\ OthersSame(q) /\ req'[q].r = req[q].r /\ req'[q].record = req[q].record
             /\ req'[q].pc = pc
  BY <1>1, <1>2, GotoMeans, EffectMeans
<1>3. CASE Acquire(q)
  <2>1. PICK pc \in {"prepareFork", "prepared"} : Goto(q, pc)
    BY <1>3 DEF Acquire
  <2> QED
    BY <1>2, <1>3, <2>1 DEF Acquire, At, PastClaim, HoldsLoop, Steps, WithIds, Committing, Ended
<1>4. CASE PrepareRaises(q) \/ SubmitRaises(q) \/ SubmittedRaises(q) \/ WorkflowFails(q)
           \/ AppendRefused(q)
  <2>1. Goto(q, "failChain")
    BY <1>4 DEF PrepareRaises, SubmitRaises, SubmittedRaises, WorkflowFails, AppendRefused, Raise
  <2>2. /\ UNCHANGED <<rec, chain, fork>> /\ PastClaim(q) /\ (HoldsLoop(q) \/ LoopFree)
        /\ req[q].pc \notin Ended
    BY <1>4 DEF PrepareRaises, SubmitRaises, SubmittedRaises, WorkflowFails, AppendRefused,
                Raise, OnlyRequest, At, PastClaim, HoldsLoop, Ended
  <2> QED
    BY <1>2, <2>1, <2>2 DEF Steps, WithIds, Committing, Ended
<1>5. CASE ReconcileRun(q) \/ SubmitDispatch(q)
  <2>1. PICK o \in {"running", "completed", "failed"} : Effect(q, o, "bind")
    BY <1>5 DEF ReconcileRun, SubmitDispatch, ReconciledOutcomes
  <2>2. /\ UNCHANGED <<rec, chain, fork>> /\ PastClaim(q) /\ HoldsLoop(q)
        /\ req[q].pc \in WithIds \ Ended
    BY <1>5 DEF ReconcileRun, SubmitDispatch, OnlyRequest, At, PastClaim, HoldsLoop, Ended, WithIds
  <2> QED
    BY <1>2, <2>1, <2>2 DEF Steps, WithIds, Committing, Ended
<1>6. CASE FindRun(q)
  <2>1. Effect(q, "running", "bind") \/ Goto(q, "failChain")
    BY <1>6 DEF FindRun
  <2>2. /\ UNCHANGED <<rec, chain, fork>> /\ PastClaim(q) /\ HoldsLoop(q)
        /\ req[q].pc \in WithIds \ Ended
    BY <1>6 DEF FindRun, OnlyRequest, At, PastClaim, HoldsLoop, Ended, WithIds
  <2> QED
    BY <1>2, <2>1, <2>2 DEF Steps, WithIds, Committing, Ended
<1>7. CASE SubmitInputs(q) \/ SubmitManifest(q)
  <2>1. PICK pc \in {"submitManifest", "submitDispatch"} : Goto(q, pc)
    BY <1>7 DEF SubmitInputs, SubmitManifest
  <2>2. /\ UNCHANGED <<rec, chain, fork>> /\ PastClaim(q) /\ HoldsLoop(q)
        /\ req[q].pc \in WithIds \ Ended
    BY <1>7 DEF SubmitInputs, SubmitManifest, At, PastClaim, HoldsLoop, Ended, WithIds
  <2> QED
    BY <1>2, <2>1, <2>2 DEF Steps, WithIds, Committing, Ended
<1>8. CASE StartWorkflow(q) \/ EffectReturns(q)
  <2>1. Goto(q, "thread") \/ Effect(q, "completed", "bind")
    BY <1>8 DEF StartWorkflow, EffectReturns
  <2>2. /\ UNCHANGED <<rec, chain, fork>> /\ PastClaim(q) /\ (HoldsLoop(q) \/ LoopFree)
        /\ req[q].pc \notin Ended
        /\ req[q].pc = "effect" \/ req[q].pc = "thread"
    BY <1>8 DEF StartWorkflow, EffectReturns, WorkflowReturns, ForkReturns, OnlyRequest, At,
                PastClaim, HoldsLoop, Ended
  <2>3. req[q].pc = "thread" => ~HasChain(req[q].r)
    BY <2>2, AtWork DEF Copy, HasChain, PastClaim
  <2> QED
    BY <1>2, <2>1, <2>2, <2>3 DEF Steps, WithIds, Committing, Ended
<1>9. CASE PublishSubmitted(q)
  <2>1. PICK pc \in {"nonterminal", "commitChain"} : Goto(q, pc)
    BY <1>9 DEF PublishSubmitted
  <2>2. /\ UNCHANGED <<rec, chain, fork>> /\ PastClaim(q) /\ HoldsLoop(q)
        /\ req[q].pc \in WithIds \ Ended
    BY <1>9 DEF PublishSubmitted, OnlyRequest, At, PastClaim, HoldsLoop, Ended, WithIds
  <2> QED
    BY <1>2, <2>1, <2>2 DEF Steps, WithIds, Committing, Ended
<1>10. CASE Announce(q) \/ SettleRefused(q)
  <2>1. Goto(q, "release")
    BY <1>10 DEF Announce, SettleRefused
  <2>2. UNCHANGED <<rec, chain, fork>> /\ PastClaim(q) /\ HoldsLoop(q)
    BY <1>10 DEF Announce, SettleRefused, OnlyRequest, At, PastClaim, HoldsLoop
  <2> QED
    BY <1>2, <2>1, <2>2 DEF Steps, WithIds, Committing, Ended
<1> QED
  BY <1>3, <1>4, <1>5, <1>6, <1>7, <1>8, <1>9, <1>10 DEF GoesOn

LEMMA GoesOnFits ==
  ASSUME LifecycleInv, DomainInv, NEW q \in Requests, GoesOn(q)
  PROVE  DomainInv'
<1>1. /\ UNCHANGED <<rec, chain, fork>> /\ PastClaim(q) /\ (HoldsLoop(q) \/ LoopFree)
      /\ OthersSame(q) /\ req'[q].r = req[q].r /\ req'[q].record = req[q].record
      /\ req'[q].pc \in WithIds => req[q].pc \in WithIds \/ ~HasChain(req[q].r)
      /\ req'[q].pc \notin Ended => req[q].pc \notin Ended
      /\ req'[q].pc \notin (Committing \ {"commitChain"}) \cup {"failFork", "settleFailed"}
  BY GoesOnMeans
<1>2. HasChain(req[q].r) => HoldsLoop(q) /\ DomainHolder(q)
  BY <1>1, DomainAtWork DEF PastClaim
<1>3. DomainHolder(q)'
  BY <1>1, <1>2 DEF DomainHolder, Committing, HasChain
<1> QED
  BY <1>1, <1>3, DomainStays

LEMMA FinishFits ==
  ASSUME LifecycleInv, DomainInv, NEW q \in Requests, LeaseConflict(q) \/ Release(q)
  PROVE  DomainInv'
<1>1. HoldsLoop(q) /\ Finish(q) /\ UNCHANGED <<rec, chain, fork>>
  BY DEF LeaseConflict, Release, At, HoldsLoop, OnlyRequest
<1>2. OthersSame(q) /\ req'[q].pc = "idle"
  BY <1>1, FinishMeans DEF LifecycleInv
<1>3. DomainHolder(q)'
  BY <1>2 DEF DomainHolder, HoldsLoop
<1> QED
  BY <1>1, <1>2, <1>3, DomainStays

\* A step that replaces the record by one that has not ended.
LEMMA AppendFits ==
  ASSUME LifecycleInv, LifecycleInv', DomainInv, NEW q \in Requests, HoldsLoop(q),
         NEW new, NEW pc \in {"claim", "lease", "effect", "submitted", "release", "settle"},
         AppendStatus(q, new, pc), new \in RecordStates, UNCHANGED <<chain, fork>>,
         HasChain(req[q].r) =>
           \/ new.execution.ids
           \/ new.execution.ids = Stored(q).execution.ids /\ pc \in {"claim", "lease"},
         pc = "settle" => req[q].pc = "effectStatus"
  PROVE  DomainInv'
<1> DEFINE r == req[q].r
<1>1. pc \in Steps /\ req[q].pc # "idle" /\ TypeOK
  BY DEF Steps, HoldsLoop, LifecycleInv
<1>2. /\ r \in Records /\ rec'[r] = new /\ \A s \in Records : s # r => rec'[s] = rec[s]
      /\ new.status \notin Terminal
  BY <1>1, Appended
<1>3. /\ OthersSame(q) /\ req'[q].pc = pc /\ req'[q].r = r /\ req'[q].record = new
      /\ req'[q].outcome = req[q].outcome
  BY <1>1, <1>2, AppendMeans
<1>4. HasChain(r) => DomainHolder(q) /\ DomainFits(r)
  BY <1>1, DomainAtWork
<1>5. DomainHolder(q)'
  BY <1>2, <1>3, <1>4 DEF DomainHolder, WithIds, Committing, HasChain
<1>6. ASSUME NEW s \in Records, s = r
      PROVE  DomainFits(s)'
  BY <1>2, <1>4, <1>6 DEF DomainFits, Stored, HasChain, Terminal
<1> QED
  BY <1>2, <1>3, <1>5, <1>6, DomainFrame

LEMMA RecordsFit ==
  ASSUME LifecycleInv, LifecycleInv', DomainInv, NEW q \in Requests,
         \/ MarkRecovering(q) \/ Claim(q) \/ Prepared(q) \/ Bind(q) \/ Nonterminal(q)
         \/ RecordEffect(q)
  PROVE  DomainInv'
<1>1. /\ HoldsLoop(q) /\ req[q].pc # "idle" /\ UNCHANGED <<chain, fork>>
  BY DEF MarkRecovering, Claim, Prepared, Bind, Nonterminal, RecordEffect, At, HoldsLoop,
         OnlyRecord
<1>2. /\ TypeOK /\ Holder(q) /\ req[q].record \in RecordStates /\ Stored(q) \in RecordStates
      /\ req[q].r \in Records /\ children[req[q].r] \in Seq(ChildStates)
  BY <1>1, AtWork
<1>3. HasChain(req[q].r) => DomainHolder(q)
  BY <1>1, DomainAtWork
<1>4. CASE MarkRecovering(q)
  <2> DEFINE new == [req[q].record EXCEPT !.status = "recovering"]
  <2>1. req[q].pc = "recover" /\ AppendStatus(q, new, "claim")
    BY <1>4 DEF MarkRecovering, At
  <2>2. new \in RecordStates /\ new.execution = req[q].record.execution
    BY <1>2 DEF RecordStates, Statuses
  <2>3. Stored(q) = req[q].record
    BY <1>2, <2>1, <1>1 DEF Holder
  <2> HIDE DEF new
  <2> QED
    BY <1>1, <2>1, <2>2, <2>3, AppendFits
<1>5. CASE Claim(q)
  <2> DEFINE new == IF Stored(q).execution.claimed THEN Stored(q)
                    ELSE [Stored(q) EXCEPT !.status = "submitted", !.execution.claimed = TRUE]
  <2>1. AppendStatus(q, new, "lease")
    BY <1>5 DEF Claim
  <2>2. new \in RecordStates /\ new.execution.ids = Stored(q).execution.ids
    BY <1>2 DEF RecordStates, Executions, Statuses
  <2> HIDE DEF new
  <2> QED
    BY <1>1, <2>1, <2>2, AppendFits
<1>6. CASE Prepared(q)
  <2> DEFINE new == [req[q].record EXCEPT !.execution.ids = HasChain(req[q].r)]
  <2>1. AppendStatus(q, new, "effect")
    BY <1>6 DEF Prepared
  <2>2. HasChain(req[q].r) \in BOOLEAN
    BY DEF HasChain
  <2>3. new \in RecordStates /\ new.execution.ids = HasChain(req[q].r)
    BY <1>2, <2>2 DEF RecordStates, Executions
  <2> HIDE DEF new
  <2> QED
    BY <1>1, <2>1, <2>3, AppendFits
<1>7. CASE Bind(q)
  <2> DEFINE r == req[q].r
             copy == req[q].record.execution
             execution == IF copy.bound # 0 THEN copy
                          ELSE [copy EXCEPT !.bound = IF Kind[r] = "rerun"
                                                      THEN Len(children[r]) ELSE 1]
             new == [Stored(q) EXCEPT !.status = req[q].record.status, !.execution = execution]
  <2>1. AppendStatus(q, new, "submitted") /\ req[q].pc = "bind"
    BY <1>7 DEF Bind, At
  <2>2. Len(children[r]) \in Nat /\ copy \in Executions
    BY <1>2, LenProperties DEF RecordStates
  <2>3. execution \in Executions /\ execution.ids = copy.ids
    BY <2>2 DEF Executions
  <2> HIDE DEF execution
  <2>4. new \in RecordStates /\ new.execution = execution
    BY <1>2, <2>3 DEF RecordStates
  <2>5. HasChain(r) => copy.ids
    BY <1>1, <1>3, <2>1 DEF DomainHolder, WithIds
  <2> HIDE DEF new
  <2> QED
    BY <1>1, <2>1, <2>3, <2>4, <2>5, AppendFits
<1>8. CASE Nonterminal(q)
  <2> DEFINE new == [Stored(q) EXCEPT !.status = "running",
                                      !.execution = req[q].record.execution,
                                      !.effect = "pending", !.projection = "pending"]
  <2>1. AppendStatus(q, new, "release") /\ req[q].pc = "nonterminal"
    BY <1>8 DEF Nonterminal, At
  <2>2. new \in RecordStates /\ new.execution = req[q].record.execution
    BY <1>2 DEF RecordStates, Statuses
  <2>3. HasChain(req[q].r) => req[q].record.execution.ids
    BY <1>1, <1>3, <2>1 DEF DomainHolder, WithIds
  <2> HIDE DEF new
  <2> QED
    BY <1>1, <2>1, <2>2, <2>3, AppendFits
<1>9. CASE RecordEffect(q)
  <2> DEFINE new == [Stored(q) EXCEPT !.status = req[q].record.status,
                                      !.execution = req[q].record.execution,
                                      !.effect = EffectOf(req[q].outcome),
                                      !.projection = "pending"]
  <2>1. AppendStatus(q, new, "settle") /\ req[q].pc = "effectStatus"
    BY <1>9 DEF RecordEffect, At
  <2>2. EffectOf(req[q].outcome) \in {"pending", "committed", "failed"}
    BY DEF EffectOf
  <2>3. new \in RecordStates /\ new.execution = req[q].record.execution
    BY <1>2, <2>2 DEF RecordStates
  <2>4. HasChain(req[q].r) => req[q].record.execution.ids
    BY <1>1, <1>3, <2>1 DEF DomainHolder, WithIds, Committing
  <2> HIDE DEF new
  <2> QED
    BY <1>1, <2>1, <2>3, <2>4, AppendFits
<1> QED
  BY <1>4, <1>5, <1>6, <1>7, <1>8, <1>9

\* The steps that change the chain or the fork.
LEMMA StoresFit ==
  ASSUME LifecycleInv, DomainInv, NEW q \in Requests,
         \/ PrepareFork(q) \/ PrepareChain(q) \/ CommitChain(q) \/ CommitFork(q)
         \/ FailChain(q) \/ FailFork(q)
  PROVE  DomainInv'
<1> DEFINE r == req[q].r
<1>1. HoldsLoop(q) /\ req[q].pc # "idle" /\ UNCHANGED rec
  BY DEF PrepareFork, PrepareChain, CommitChain, CommitFork, FailChain, FailFork, At, HoldsLoop
<1>2. TypeOK /\ Copy(q) /\ Holder(q) /\ r \in Records
  BY <1>1, AtWork
<1>3. HasChain(r) => /\ DomainHolder(q) /\ DomainFits(r)
                     /\ rec[r].execution = req[q].record.execution
  BY <1>1, DomainAtWork DEF Stored
<1>4. \A s \in Records : s # r => chain'[s] = chain[s] /\ fork'[s] = fork[s]
  BY <1>2 DEF PrepareFork, PrepareChain, CommitChain, CommitFork, FailChain, FailFork, Withdraw,
              TypeOK
<1>5. ASSUME NEW pc \in Steps, Goto(q, pc)
      PROVE  /\ OthersSame(q) /\ req'[q].pc = pc /\ req'[q].r = r
             /\ req'[q].record = req[q].record /\ req'[q].outcome = req[q].outcome
  BY <1>2, <1>5, GotoMeans
<1>6. HasChain(r) /\ req[q].pc \notin Ended => rec[r].status \notin Terminal
  BY <1>1, <1>3 DEF DomainHolder
<1>7. req[q].pc \notin Ended
  BY DEF PrepareFork, PrepareChain, CommitChain, CommitFork, FailChain, FailFork, At, Ended
\* An open record fits whatever the domain state is, if it knows its ids.
<1>8. ASSUME OthersSame(q), DomainHolder(q)',
             HasChain(r) /\ (chain'[r] = "active" \/ fork'[r] = "active") =>
               rec[r].execution.ids
      PROVE  DomainInv'
  <2>1. ASSUME NEW s \in Records, s = r
        PROVE  DomainFits(s)'
    BY <1>1, <1>6, <1>7, <1>8, <2>1 DEF DomainFits, HasChain, Terminal
  <2> QED
    BY <1>1, <1>2, <1>4, <1>8, <2>1, DomainFrame
<1>9. CASE PrepareFork(q) \/ PrepareChain(q)
  <2>1. PICK pc \in {"prepareChain", "prepared"} : Goto(q, pc)
    BY <1>9 DEF PrepareFork, PrepareChain
  <2>2. chain'[r] = "active" => chain[r] = "active"
    BY <1>2, <1>9 DEF PrepareFork, PrepareChain, TypeOK
  <2>3. fork'[r] = "active" => fork[r] = "active"
    BY <1>2, <1>9 DEF PrepareFork, PrepareChain, TypeOK
  <2>4. /\ OthersSame(q) /\ req'[q].pc = pc /\ req'[q].r = r
        /\ req'[q].record = req[q].record /\ req'[q].outcome = req[q].outcome
    BY <1>5, <2>1 DEF Steps
  <2>5. DomainHolder(q)'
    BY <1>1, <1>6, <1>7, <2>4 DEF DomainHolder, WithIds, Committing, HasChain
  <2> QED
    BY <1>3, <1>8, <2>2, <2>3, <2>4, <2>5 DEF DomainFits
<1>10. CASE CommitChain(q)
  <2>1. Goto(q, "commitFork") /\ req[q].pc = "commitChain"
    BY <1>10 DEF CommitChain, At
  <2>2. HasChain(r) => chain'[r] = DomainState(req[q].outcome)
    BY <1>2, <1>10 DEF CommitChain, TypeOK
  <2>3. /\ OthersSame(q) /\ req'[q].pc = "commitFork" /\ req'[q].r = r
        /\ req'[q].record = req[q].record /\ req'[q].outcome = req[q].outcome
    BY <1>5, <2>1 DEF Steps
  <2>4. HasChain(r) => req[q].record.execution.ids
    BY <1>1, <1>3, <2>1 DEF DomainHolder, WithIds, Committing
  <2>5. DomainHolder(q)'
    BY <1>1, <1>6, <1>7, <2>2, <2>3, <2>4 DEF DomainHolder, WithIds, Committing, HasChain
  <2> QED
    BY <1>3, <1>8, <2>3, <2>4, <2>5
<1>11. CASE CommitFork(q)
  <2>1. Goto(q, "effectStatus") /\ req[q].pc = "commitFork" /\ UNCHANGED chain
    BY <1>11 DEF CommitFork, At
  <2>2. HasChain(r) => fork'[r] = DomainState(req[q].outcome)
    BY <1>2, <1>11 DEF CommitFork, TypeOK
  <2>3. /\ OthersSame(q) /\ req'[q].pc = "effectStatus" /\ req'[q].r = r
        /\ req'[q].record = req[q].record /\ req'[q].outcome = req[q].outcome
    BY <1>5, <2>1 DEF Steps
  <2>4. HasChain(r) => /\ req[q].record.execution.ids
                       /\ chain[r] = DomainState(req[q].outcome)
    BY <1>1, <1>3, <2>1 DEF DomainHolder, WithIds, Committing
  <2>5. DomainHolder(q)'
    BY <1>1, <1>6, <1>7, <2>1, <2>2, <2>3, <2>4
    DEF DomainHolder, WithIds, Committing, HasChain
  <2> QED
    BY <1>3, <1>8, <2>3, <2>4, <2>5
<1>12. CASE FailChain(q)
  <2>1. Goto(q, "failFork") /\ req[q].pc = "failChain" /\ UNCHANGED fork
        /\ chain' = Withdraw(chain, q)
    BY <1>12 DEF FailChain, At
  <2>2. HasChain(r) => chain'[r] # "active"
    BY <1>2, <1>3, <2>1 DEF Withdraw, DomainFits, TypeOK
  <2>3. /\ OthersSame(q) /\ req'[q].pc = "failFork" /\ req'[q].r = r
        /\ req'[q].record = req[q].record /\ req'[q].outcome = req[q].outcome
    BY <1>5, <2>1 DEF Steps
  <2>4. DomainHolder(q)'
    BY <1>1, <1>6, <1>7, <2>2, <2>3 DEF DomainHolder, WithIds, Committing, HasChain
  <2> QED
    BY <1>3, <1>8, <2>1, <2>2, <2>3, <2>4 DEF DomainFits
<1>13. CASE FailFork(q)
  <2>1. Goto(q, "settleFailed") /\ req[q].pc = "failFork" /\ UNCHANGED chain
        /\ fork' = Withdraw(fork, q)
    BY <1>13 DEF FailFork, At
  <2>2. HasChain(r) => fork'[r] # "active"
    BY <1>2, <1>3, <2>1 DEF Withdraw, DomainFits, TypeOK
  <2>3. /\ OthersSame(q) /\ req'[q].pc = "settleFailed" /\ req'[q].r = r
        /\ req'[q].record = req[q].record /\ req'[q].outcome = req[q].outcome
    BY <1>5, <2>1 DEF Steps
  <2>4. HasChain(r) => chain[r] # "active"
    BY <1>1, <1>3, <2>1 DEF DomainHolder
  <2>5. DomainHolder(q)'
    BY <1>1, <1>6, <1>7, <2>1, <2>2, <2>3, <2>4
    DEF DomainHolder, WithIds, Committing, HasChain
  <2> QED
    BY <1>3, <1>8, <2>1, <2>2, <2>3, <2>4, <2>5 DEF DomainFits
<1> QED
  BY <1>9, <1>10, <1>11, <1>12, <1>13

\* The steps that give the record its terminal status.
LEMMA SettlesFit ==
  ASSUME LifecycleInv, DomainInv, NEW q \in Requests, Settle(q) \/ SettleFailed(q)
  PROVE  DomainInv'
<1> DEFINE r == req[q].r
<1>1. HoldsLoop(q) /\ req[q].pc # "idle" /\ UNCHANGED <<chain, fork>>
  BY DEF Settle, SettleFailed, At, HoldsLoop, OnlyRecord
<1>2. TypeOK /\ r \in Records /\ rec[r] \in RecordStates /\ req[q].record \in RecordStates
  BY <1>1, AtWork DEF Stored
<1>3. HasChain(r) => /\ DomainHolder(q) /\ DomainFits(r)
                     /\ rec[r].execution = req[q].record.execution
  BY <1>1, DomainAtWork DEF Stored
<1>4. CASE Settle(q)
  <2> DEFINE settled == [rec[r] EXCEPT !.status = req[q].outcome,
                                       !.execution = req[q].record.execution,
                                       !.effect = EffectOf(req[q].outcome),
                                       !.projection = "complete"]
  <2>1. req[q].pc = "settle" /\ Goto(q, "announce") /\ rec' = [rec EXCEPT ![r] = settled]
    BY <1>4 DEF Settle, At
  <2>2. /\ settled.status = req[q].outcome /\ settled.execution = req[q].record.execution
        /\ settled.effect = EffectOf(req[q].outcome)
    BY <1>2 DEF RecordStates
  <2> HIDE DEF settled
  <2>3. rec'[r] = settled /\ \A s \in Records : s # r => rec'[s] = rec[s]
    BY <1>2, <2>1 DEF TypeOK
  <2>4. OthersSame(q) /\ req'[q].pc = "announce" /\ req'[q].r = r
    BY <1>2, <2>1, GotoMeans DEF Steps
  <2>5. HasChain(r) => /\ req[q].record.execution.ids
                       /\ chain[r] = DomainState(req[q].outcome)
                       /\ fork[r] = DomainState(req[q].outcome)
    BY <1>1, <1>3, <2>1 DEF DomainHolder, WithIds, Committing
  <2>6. ASSUME NEW s \in Records, s = r
        PROVE  DomainFits(s)'
    BY <1>1, <2>2, <2>3, <2>5, <2>6 DEF DomainFits, DomainState, EffectOf, HasChain
  <2>7. DomainHolder(q)'
    BY <2>4 DEF DomainHolder, Ended, WithIds, Committing
  <2> QED
    BY <1>1, <1>2, <2>3, <2>4, <2>6, <2>7, DomainFrame
<1>5. CASE SettleFailed(q)
  <2> DEFINE settled == [rec[r] EXCEPT !.status = "failed",
                                       !.execution = req[q].record.execution,
                                       !.effect = IF req[q].record.effect = "pending"
                                                  THEN "failed" ELSE req[q].record.effect,
                                       !.projection = "failed"]
  <2>1. /\ req[q].pc = "settleFailed" /\ Goto(q, "announceFailed")
        /\ rec' = [rec EXCEPT ![r] = settled]
    BY <1>5 DEF SettleFailed, At
  <2>2. settled.status = "failed"
    BY <1>2 DEF RecordStates
  <2> HIDE DEF settled
  <2>3. rec'[r] = settled /\ \A s \in Records : s # r => rec'[s] = rec[s]
    BY <1>2, <2>1 DEF TypeOK
  <2>4. OthersSame(q) /\ req'[q].pc = "announceFailed" /\ req'[q].r = r
    BY <1>2, <2>1, GotoMeans DEF Steps
  <2>5. HasChain(r) => chain[r] # "active" /\ fork[r] # "active"
    BY <1>1, <1>3, <2>1 DEF DomainHolder
  <2>6. ASSUME NEW s \in Records, s = r
        PROVE  DomainFits(s)'
    BY <1>1, <2>2, <2>3, <2>5, <2>6 DEF DomainFits, HasChain
  <2>7. DomainHolder(q)'
    BY <2>4 DEF DomainHolder, Ended, WithIds, Committing
  <2> QED
    BY <1>1, <1>2, <2>3, <2>4, <2>6, <2>7, DomainFrame
<1> QED
  BY <1>4, <1>5

LEMMA NextKeepsDomain ==
  ASSUME "terminal" \notin MayRaise, LifecycleInv, DomainInv, [Next]_vars
  PROVE  DomainInv'
<1>1. LifecycleInv'
  BY NextKeepsLifecycle
<1>2. ASSUME NEW q \in Requests, RequestStep(q)
      PROVE  DomainInv'
  <2>1. ~AnnounceRaises(q)
    BY DEF AnnounceRaises, Raise
  <2> QED
    BY <1>1, <1>2, <2>1, GoesOnFits, FinishFits, RecordsFit, StoresFit, SettlesFit
    DEF RequestStep, GoesOn
<1>3. ASSUME NEW q \in Requests, NEW r \in Records, Confirm(q, r) \/ Reconcile(q, r)
      PROVE  DomainInv'
  <2>1. \E pc \in {"recover", "claim"} : Enter(q, r, pc)
    BY <1>3 DEF Confirm, Reconcile
  <2> QED
    BY <2>1, EnterFits
<1>4. ASSUME UNCHANGED <<rec, fork, chain, req>>
      PROVE  DomainInv'
  BY <1>4 DEF DomainInv, DomainHolder, DomainFits, HoldsLoop
<1>5. CASE LeaseExpires \/ UNCHANGED vars
  BY <1>4, <1>5 DEF LeaseExpires, vars
<1>6. ASSUME NEW r \in Records, FinishRun(r) \/ MarkInterrupted(r)
      PROVE  DomainInv'
  BY <1>4, <1>6 DEF FinishRun, MarkInterrupted
<1>7. CASE Crash
  <2>1. UNCHANGED <<rec, fork, chain>> /\ \A q \in Requests : req'[q].pc = "idle"
    BY <1>7 DEF Crash, Idle
  <2> QED
    BY <2>1 DEF DomainInv, DomainHolder, DomainFits, HoldsLoop
<1> QED
  BY <1>2, <1>3, <1>5, <1>6, <1>7 DEF Next

LEMMA InitDomain ==
  ASSUME Init
  PROVE  DomainInv
BY DEF Init, Idle, PendingRecord, DomainInv, DomainHolder, DomainFits, HoldsLoop

-----------------------------------------------------------------------------
(* The theorems.                                                            *)

\* The inductive invariant.
THEOREM LifecycleInvariant == Spec => []LifecycleInv
<1>1. Init => LifecycleInv
  BY InitLifecycle
<1>2. LifecycleInv /\ [Next]_vars => LifecycleInv'
  BY NextKeepsLifecycle
<1> QED
  BY <1>1, <1>2, PTL DEF Spec

\* The records, forks, chains, child runs, requests and the lease keep to the
\* states that operations.py, chains.py and execution.py give them.
THEOREM LifecycleTypeCorrect == Spec => []TypeOK
<1>1. LifecycleInv => TypeOK
  BY DEF LifecycleInv
<1> QED
  BY <1>1, LifecycleInvariant, PTL

\* However often a rerun is retried, and wherever the server died, it has one
\* child run, and the run that the record binds is that one.
THEOREM StartsOneChildRun == Spec => []OneChildRun
<1>1. LifecycleInv => OneChildRun
  BY DEF LifecycleInv
<1> QED
  BY <1>1, LifecycleInvariant, PTL

\* An active chain or fork of a rerun has a bound child run that has completed.
THEOREM ActiveChainsHaveResults == Spec => []ActiveChainHasResult
<1>1. LifecycleInv => ActiveChainHasResult
  BY DEF LifecycleInv
<1> QED
  BY <1>1, LifecycleInvariant, PTL

\* No executor, however late it returns, changes a record that has ended.
THEOREM TerminalStaysFinal == Spec => TerminalIsFinal
<1>1. ASSUME LifecycleInv, [Next]_vars
      PROVE  \A r \in Records : rec[r].status \in Terminal => rec'[r] = rec[r]
  BY <1>1, StepsAdvance DEF RecordAdvances, RunAdvances
<1>2. LifecycleInv /\ [Next]_vars =>
        [\A r \in Records : rec[r].status \in Terminal => rec'[r] = rec[r]]_vars
  BY <1>1
<1> QED
  BY <1>2, LifecycleInvariant, PTL DEF Spec, TerminalIsFinal

\* The lifecycle implements the abstract operation: for all its processes,
\* retries and crashes an operation is claimed once, starts one child run at most
\* and ends once.
THEOREM LifecycleKeepsOutcome == Spec => KeepsOutcome
<1>1. Init => Outcome!Init
  BY OutcomeStarts
<1>2. LifecycleInv /\ [Next]_vars => [Outcome!Next]_(Outcome!vars)
  BY OutcomeSteps
<1> QED
  BY <1>1, <1>2, LifecycleInvariant, PTL DEF Spec, KeepsOutcome, Outcome!Spec

\* As long as no exception comes after the terminal status (session, event log
\* and projection accept the result), a record that has ended agrees with the
\* state of its chain and fork.
THEOREM TerminalRecordsMatch ==
  ASSUME "terminal" \notin MayRaise
  PROVE  Spec => []TerminalMatchesDomain
<1>1. Init => DomainInv
  BY InitDomain
<1>2. LifecycleInv /\ DomainInv /\ [Next]_vars => DomainInv'
  BY NextKeepsDomain
<1>3. DomainInv => TerminalMatchesDomain
  BY DEF DomainInv, DomainFits, TerminalMatchesDomain
<1> QED
  BY <1>1, <1>2, <1>3, LifecycleInvariant, PTL DEF Spec

===============================================================================
