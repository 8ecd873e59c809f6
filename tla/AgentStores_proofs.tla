-------------------------- MODULE AgentStores_proofs --------------------------
(***************************************************************************)
(* The smaller stores of the Agent: its grants (RiskAuthorization) and its  *)
(* plans (WorkflowExecutor), and the composition of all four of its parts,  *)
(* which is what the run of TLC checks.                                     *)
(*                                                                          *)
(* For any number of proposals, grants, retries and crashes: what is        *)
(* registered was authorized, one grant is used up for it, and a grant that *)
(* was used up counts to the end.  The invariants say nothing of the        *)
(* request under way, and are not inductive.  RiskInv adds that a record    *)
(* stays bound to the grant it consumed, and what the request knows at each *)
(* of its steps.                                                            *)
(*                                                                          *)
(* For any steps and dependencies, any number of overlapping executors and  *)
(* any deaths of them: the stored results belong together, the stored       *)
(* status is honest, and undisturbed successes are kept.  What is stored    *)
(* was in the memory of some executor before.  So the invariant is about    *)
(* memories: each is coherent, and what an executor is about to change is   *)
(* nothing that a completed step was computed from.                         *)
(***************************************************************************)
EXTENDS MCAgent, TLAPS

-----------------------------------------------------------------------------
(* Risk authorization.                                                      *)

\* A consumed grant was consumed by the record it was issued for, which is still
\* bound to it.
BoundToConsumed ==
  \A g \in Grants :
    grants[g].status = "consumed" =>
      /\ grants[g].by \in Proposals
      /\ grants[g].for = grants[g].by
      /\ records[grants[g].by].bound = g

\* A request works on a record that has not ended.
RequestIsOpen ==
  handler.pc # "idle" =>
    /\ handler.p \in Proposals
    /\ records[handler.p].status \notin {"none", "completed", "failed"}
    /\ handler.pc \in {"bind", "consume"} => handler.g \in Grants
    /\ handler.pc = "consume" => records[handler.p].bound = handler.g
    /\ handler.pc \in {"execute", "settle"} => Consumed(handler.p)

\* A record that does not exist yet is bound to nothing.
FreshRecords == \A p \in Proposals : records[p].status = "none" => records[p] = NoRecordYet

DeniedHasFailed == \A p \in denied : records[p].status = "failed"

RiskInv ==
  /\ RiskTypeOK
  /\ BoundToConsumed
  /\ RequestIsOpen
  /\ FreshRecords
  /\ \A p \in registered : Consumed(p)
  /\ DeniedHasFailed
  /\ ConsumedIsHonoured

\* RiskInv holds of no grants, no records and no request.
LEMMA RiskInvInit == RiskInit => RiskInv
BY GrantsAssumption
   DEF RiskInit, RiskInv, RiskTypeOK, BoundToConsumed, RequestIsOpen, FreshRecords, DeniedHasFailed,
       ConsumedIsHonoured, NotIssued, NoRecordYet, IdleHandler, GrantStates, RecordStates,
       HandlerStates, HandlerSteps

\* The file of a grant changes before it is consumed, or only its time passes.
LEMMA GrantSteps ==
  ASSUME RiskInv,
         (\E p \in Proposals, g \in Grants : Authorize(p, g)) \/ (\E g \in Grants : Expire(g))
  PROVE  RiskInv'
<1>1. CASE \E p \in Proposals, g \in Grants : Authorize(p, g)
  <2>1. PICK p \in Proposals, g \in Grants : Authorize(p, g)
    BY <1>1
  <2>2. RiskTypeOK'
    BY <2>1 DEF RiskInv, RiskTypeOK, Authorize, NotIssued, GrantStates
  <2>3. \A h \in Grants :
          /\ grants'[h].status = "consumed" <=> grants[h].status = "consumed"
          /\ grants[h].status = "consumed" => grants'[h] = grants[h]
    BY <2>1 DEF RiskInv, RiskTypeOK, Authorize, NotIssued, GrantStates
  <2>4. UNCHANGED <<records, handler, registered, denied>>
    BY <2>1 DEF Authorize
  <2>5. \A x \in Proposals : Consumed(x) => Consumed(x)'
    BY <2>3, <2>4 DEF Consumed, RiskInv, RiskTypeOK, RecordStates
  <2> QED
    BY <2>2, <2>3, <2>4, <2>5
       DEF RiskInv, RiskTypeOK, BoundToConsumed, RequestIsOpen, FreshRecords, DeniedHasFailed,
           ConsumedIsHonoured
<1>2. CASE \E g \in Grants : Expire(g)
  <2>1. PICK g \in Grants : Expire(g)
    BY <1>2
  <2>2. RiskTypeOK'
    BY <2>1 DEF RiskInv, RiskTypeOK, Expire, GrantStates
  <2>3. \A h \in Grants :
          /\ grants'[h].status = grants[h].status
          /\ grants'[h].for = grants[h].for
          /\ grants'[h].by = grants[h].by
    BY <2>1 DEF RiskInv, RiskTypeOK, Expire, GrantStates
  <2>4. UNCHANGED <<records, handler, registered, denied>>
    BY <2>1 DEF Expire
  <2>5. \A x \in Proposals : Consumed(x) => Consumed(x)'
    BY <2>3, <2>4 DEF Consumed, RiskInv, RiskTypeOK, RecordStates
  <2> QED
    BY <2>2, <2>3, <2>4, <2>5
       DEF RiskInv, RiskTypeOK, BoundToConsumed, RequestIsOpen, FreshRecords, DeniedHasFailed,
           ConsumedIsHonoured
<1> QED
  BY <1>1, <1>2

\* Binding does not take a record from the grant it consumed.
LEMMA BindStep ==
  ASSUME RiskInv, Bind
  PROVE  RiskInv'
<1> DEFINE p == handler.p
           g == handler.g
<1>1. /\ p \in Proposals
      /\ g \in Grants
      /\ records[p].status \notin {"none", "completed", "failed"}
      /\ handler.pc = "bind"
  BY DEF RiskInv, RequestIsOpen, Bind, HandlerAt
<1>2. RiskTypeOK'
  BY <1>1 DEF RiskInv, RiskTypeOK, Bind, MayBind, WriteRecord, HandlerGoes, HandlerEnds,
              HandlerAt, IdleHandler, RecordStates, HandlerStates, HandlerSteps
<1>3. UNCHANGED <<grants, registered, denied>>
  BY DEF Bind
<1>4. CASE ~MayBind(p, g)
  <2>1. records' = records /\ handler' = IdleHandler
    BY <1>4 DEF Bind, HandlerEnds
  <2> QED
    BY <1>2, <1>3, <2>1
       DEF RiskInv, BoundToConsumed, RequestIsOpen, FreshRecords, DeniedHasFailed, ConsumedIsHonoured,
           Consumed, IdleHandler
<1>5. CASE MayBind(p, g)
  <2>1. records' = [records EXCEPT ![p] = [records[p] EXCEPT !.bound = g]]
    BY <1>5 DEF Bind, WriteRecord
  <2>2. handler' = [handler EXCEPT !.pc = "consume"]
    BY <1>5 DEF Bind, HandlerGoes
  <2>3. \A x \in Proposals :
          /\ records'[x].status = records[x].status
          /\ x # p => records'[x] = records[x]
          /\ records'[p].bound = g
          /\ records[p].status # "none"
    BY <1>1, <2>1 DEF RiskInv, RiskTypeOK, RecordStates
  <2>4. \A h \in Grants : h = records[p].bound /\ grants[h].status = "consumed" => h = g
    BY <1>5, GrantsAssumption DEF MayBind
  <2>5. BoundToConsumed'
    BY <1>1, <1>3, <2>3, <2>4 DEF RiskInv, BoundToConsumed
  <2>6. \A x \in Proposals : Consumed(x) => Consumed(x)'
    BY <1>1, <1>3, <2>3, <2>4 DEF RiskInv, RiskTypeOK, RecordStates, Consumed
  <2>7. handler'.pc = "consume" /\ handler'.p = p /\ handler'.g = g
    BY <2>2 DEF RiskInv, RiskTypeOK, HandlerStates
  <2>8. RequestIsOpen'
    BY <1>1, <2>3, <2>7 DEF RequestIsOpen
  <2> QED
    BY <1>2, <1>3, <2>3, <2>5, <2>6, <2>8
       DEF RiskInv, RiskTypeOK, FreshRecords, DeniedHasFailed, ConsumedIsHonoured
<1> QED
  BY <1>4, <1>5

\* A grant is consumed by the record that is bound to it.
LEMMA ConsumeStep ==
  ASSUME RiskInv, Consume
  PROVE  RiskInv'
<1> DEFINE p == handler.p
           g == handler.g
<1>1. /\ p \in Proposals
      /\ g \in Grants
      /\ records[p].status \notin {"none", "completed", "failed"}
      /\ records[p].bound = g
  BY DEF RiskInv, RequestIsOpen, Consume, HandlerAt
<1>2. UNCHANGED <<records, registered, denied>>
  BY DEF Consume
<1>3. CASE ~MayConsume(p, g)
  <2>1. grants' = grants /\ handler' = IdleHandler
    BY <1>3 DEF Consume, HandlerEnds
  <2> QED
    BY <1>2, <2>1
       DEF RiskInv, RiskTypeOK, BoundToConsumed, RequestIsOpen, FreshRecords, DeniedHasFailed,
           ConsumedIsHonoured, Consumed, IdleHandler, HandlerStates, HandlerSteps
<1>4. CASE MayConsume(p, g)
  <2>1. grants' = [grants EXCEPT ![g].status = "consumed", ![g].by = p]
    BY <1>4 DEF Consume
  <2>2. handler' = [handler EXCEPT !.pc = "claim"]
    BY <1>4 DEF Consume, HandlerGoes
  <2>3. RiskTypeOK'
    BY <1>1, <1>2, <2>1, <2>2
       DEF RiskInv, RiskTypeOK, GrantStates, HandlerStates, HandlerSteps
  <2>4. /\ grants'[g].status = "consumed"
        /\ grants'[g].by = p
        /\ grants'[g].for = p
        /\ \A h \in Grants \ {g} : grants'[h] = grants[h]
    BY <1>1, <1>4, <2>1 DEF MayConsume, RiskInv, RiskTypeOK, GrantStates
  <2>5. BoundToConsumed'
    BY <1>1, <1>2, <2>4 DEF RiskInv, BoundToConsumed
  <2>6. \A x \in Proposals : Consumed(x) => Consumed(x)'
    <3> SUFFICES ASSUME NEW x \in Proposals, Consumed(x)
                 PROVE  Consumed(x)'
      OBVIOUS
    <3>1. records[x].bound \in Grants
      BY DEF Consumed, RiskInv, RiskTypeOK, RecordStates
    <3>2. CASE records[x].bound = g
      <4>1. grants[g].by = x /\ grants[g].status = "consumed"
        BY <3>2 DEF Consumed
      <4>2. x = p
        BY <1>4, <4>1 DEF MayConsume
      <4> QED
        BY <1>2, <2>4, <3>1, <3>2, <4>2, GrantsAssumption DEF Consumed
    <3>3. CASE records[x].bound # g
      BY <1>2, <2>4, <3>1, <3>3 DEF Consumed
    <3> QED
      BY <3>2, <3>3
  <2>7. RequestIsOpen'
    BY <1>1, <1>2, <2>2 DEF RiskInv, RiskTypeOK, HandlerStates, RequestIsOpen
  <2>8. p \notin denied
    BY <1>1 DEF RiskInv, DeniedHasFailed
  <2>9. ConsumedIsHonoured'
    BY <1>2, <2>4, <2>8 DEF RiskInv, ConsumedIsHonoured
  <2> QED
    BY <1>2, <2>3, <2>5, <2>6, <2>7, <2>9
       DEF RiskInv, RiskTypeOK, FreshRecords, DeniedHasFailed
<1> QED
  BY <1>3, <1>4

\* Every other step leaves the grants and what records are bound to, and a record
\* that ended stays as it is.
LEMMA RecordSteps ==
  ASSUME RiskInv,
         \/ \E p \in Proposals, g \in Grants \cup {NoGrant} : Confirm(p, g)
         \/ \E p \in Proposals : Reconcile(p)
         \/ Recover \/ Claim \/ GiveUp \/ Require \/ Execute \/ Settle \/ Restart
  PROVE  RiskInv'
<1>1. RiskTypeOK'
  <2> USE DEF RiskInv, RiskTypeOK, RequestIsOpen, RecordStates, HandlerStates, HandlerSteps,
              WriteRecord, HandlerGoes, HandlerEnds, HandlerAt, IdleHandler
  <2>1. ASSUME NEW p \in Proposals, NEW g \in Grants \cup {NoGrant}, Confirm(p, g)
        PROVE  RiskTypeOK'
    <3>1. [NoRecordYet EXCEPT !.status = "pending"] \in RecordStates
      BY DEF NoRecordYet
    <3>2. records' \in [Proposals -> RecordStates]
      BY <2>1, <3>1 DEF Confirm
    <3>3. handler' \in HandlerStates
      BY <2>1 DEF Confirm
    <3> QED
      BY <2>1, <3>2, <3>3 DEF Confirm
  <2>2. CASE \E p \in Proposals : Reconcile(p)
    BY <2>2 DEF Reconcile
  <2>3. CASE Recover
    BY <2>3 DEF Recover
  <2>4. CASE Claim
    <3>1. handler.p \in Proposals /\ AfterClaim(handler.p) \in {records[handler.p].status, "submitted"}
      BY <2>4 DEF Claim, AfterClaim
    <3> QED
      BY <2>4, <3>1 DEF Claim
  <2>5. CASE GiveUp \/ Settle \/ Restart
    BY <2>5 DEF GiveUp, Settle, Restart
  <2>6. CASE Require
    BY <2>6 DEF Require
  <2>7. CASE Execute
    BY <2>7 DEF Execute
  <2> QED
    BY <2>1, <2>2, <2>3, <2>4, <2>5, <2>6, <2>7
<1>2. grants' = grants
  BY DEF Confirm, Reconcile, Recover, Claim, GiveUp, Require, Execute, Settle, Restart
<1> DEFINE Kept == /\ \A x \in Proposals : records'[x].bound = records[x].bound
                   /\ \A x \in Proposals : Terminal(x) => records'[x] = records[x]
                   /\ FreshRecords'
<1>3. Kept
  <2>1. ASSUME NEW p \in Proposals, NEW g \in Grants \cup {NoGrant}, Confirm(p, g)
        PROVE  \/ records' = records
               \/ /\ records[p] = NoRecordYet
                  /\ records' = [records EXCEPT ![p] = [NoRecordYet EXCEPT !.status = "pending"]]
    BY <2>1 DEF Confirm, WriteRecord, RiskInv, FreshRecords
  <2>2. ASSUME NEW p \in Proposals,
               records[p] = NoRecordYet,
               records' = [records EXCEPT ![p] = [NoRecordYet EXCEPT !.status = "pending"]]
        PROVE  Kept
    <3>1. /\ \A x \in Proposals \ {p} : records'[x] = records[x]
          /\ records'[p] = [status |-> "pending", bound |-> NoGrant, claimed |-> FALSE]
          /\ records[p] = [status |-> "none", bound |-> NoGrant, claimed |-> FALSE]
      BY <2>2 DEF RiskInv, RiskTypeOK, NoRecordYet
    <3> QED
      BY <3>1 DEF RiskInv, FreshRecords, Terminal
  <2>3. ASSUME records' = records
        PROVE  Kept
    BY <2>3 DEF RiskInv, FreshRecords
  <2>4. CASE (\E p \in Proposals : Reconcile(p)) \/ GiveUp \/ Restart
    BY <2>3, <2>4 DEF Reconcile, GiveUp, Restart
  <2>5. CASE Recover \/ Claim \/ Require \/ Execute \/ Settle
    <3>1. /\ handler.p \in Proposals
          /\ records[handler.p].status \notin {"none", "completed", "failed"}
      BY <2>5 DEF Recover, Claim, Require, Execute, Settle, HandlerAt, RiskInv, RequestIsOpen
    <3>2. AfterClaim(handler.p) # "none"
      BY <3>1 DEF AfterClaim
    <3>3. \/ records' = records
          \/ /\ records' = [records EXCEPT ![handler.p] = records'[handler.p]]
             /\ records'[handler.p].bound = records[handler.p].bound
             /\ records'[handler.p].status # "none"
      <4> USE DEF WriteRecord, RiskInv, RiskTypeOK, RecordStates
      <4>1. CASE Recover
        BY <4>1, <3>1 DEF Recover
      <4>2. CASE Claim
        BY <4>2, <3>1, <3>2 DEF Claim
      <4>3. CASE Require \/ Execute
        BY <4>3, <3>1 DEF Require, Execute
      <4>4. CASE Settle
        BY <4>4, <3>1 DEF Settle
      <4> QED
        BY <2>5, <4>1, <4>2, <4>3, <4>4
    <3> QED
      BY <2>3, <3>1, <3>3 DEF RiskInv, RiskTypeOK, FreshRecords, Terminal
  <2> QED
    BY <2>1, <2>2, <2>3, <2>4, <2>5
<1>4. \A x \in Proposals : Consumed(x) <=> Consumed(x)'
  BY <1>2, <1>3 DEF Consumed
<1>5. BoundToConsumed'
  BY <1>2, <1>3 DEF RiskInv, BoundToConsumed
<1>6. RequestIsOpen'
  <2> USE DEF RiskInv, RiskTypeOK, RequestIsOpen, RecordStates, HandlerStates, Terminal,
              WriteRecord, HandlerAt, HandlerGoes, HandlerEnds, IdleHandler, NoRecordYet
  <2>1. ASSUME NEW p \in Proposals, NEW g \in Grants \cup {NoGrant}, Confirm(p, g)
        PROVE  RequestIsOpen'
    BY <2>1 DEF Confirm
  <2>2. CASE (\E p \in Proposals : Reconcile(p)) \/ GiveUp \/ Restart \/ Settle
    BY <2>2 DEF Reconcile, GiveUp, Restart, Settle
  <2>3. CASE Recover
    BY <2>3 DEF Recover
  <2>4. CASE Claim
    BY <2>4 DEF Claim, AfterClaim
  <2>5. CASE Require
    BY <2>5, <1>4 DEF Require
  <2>6. CASE Execute
    BY <2>6, <1>4 DEF Execute
  <2> QED
    BY <2>1, <2>2, <2>3, <2>4, <2>5, <2>6
<1>7. \A x \in registered' : Consumed(x)'
  <2>1. CASE Execute
    BY <2>1, <1>4 DEF Execute, HandlerAt, RiskInv, RiskTypeOK, RequestIsOpen
  <2>2. CASE ~Execute
    BY <2>2, <1>4 DEF RiskInv, RiskTypeOK, Confirm, Reconcile, Recover, Claim, GiveUp, Require,
                      Settle, Restart
  <2> QED
    BY <2>1, <2>2
<1>8. DeniedHasFailed' /\ ConsumedIsHonoured'
  <2>1. CASE Require /\ ~Consumed(handler.p)
    <3>1. /\ handler.p \in Proposals
          /\ denied' = denied \cup {handler.p}
          /\ records' = [records EXCEPT ![handler.p] =
                            [records[handler.p] EXCEPT !.status = "failed"]]
      BY <2>1 DEF Require, HandlerAt, WriteRecord, RiskInv, RequestIsOpen
    <3>2. DeniedHasFailed'
      BY <3>1, <1>3 DEF RiskInv, RiskTypeOK, DeniedHasFailed, RecordStates, Terminal
    <3>3. \A g \in Grants : grants[g].status = "consumed" => grants[g].by # handler.p
      BY <2>1, <3>1, GrantsAssumption DEF RiskInv, BoundToConsumed, Consumed
    <3> QED
      BY <3>1, <3>2, <3>3, <1>2 DEF RiskInv, ConsumedIsHonoured
  <2>2. CASE ~(Require /\ ~Consumed(handler.p))
    <3>1. denied' = denied
      BY <2>2 DEF Confirm, Reconcile, Recover, Claim, GiveUp, Require, Execute, Settle, Restart
    <3> QED
      BY <3>1, <1>2, <1>3
         DEF RiskInv, RiskTypeOK, DeniedHasFailed, ConsumedIsHonoured, Terminal
  <2> QED
    BY <2>1, <2>2
<1> QED
  BY <1>1, <1>3, <1>5, <1>6, <1>7, <1>8 DEF RiskInv

\* RiskInv holds in every reachable state.
LEMMA RiskInvariant == RiskSpec => []RiskInv
<1>1. RiskInv /\ [RiskNext]_riskVars => RiskInv'
  <2> SUFFICES ASSUME RiskInv, [RiskNext]_riskVars
               PROVE  RiskInv'
    OBVIOUS
  <2>1. CASE UNCHANGED riskVars
    BY <2>1 DEF riskVars, RiskInv, RiskTypeOK, BoundToConsumed, RequestIsOpen, FreshRecords,
                DeniedHasFailed, ConsumedIsHonoured, Consumed
  <2>2. CASE RiskNext
    BY <2>2, GrantSteps, BindStep, ConsumeStep, RecordSteps DEF RiskNext
  <2> QED
    BY <2>1, <2>2
<1> QED
  BY <1>1, RiskInvInit, PTL DEF RiskSpec

\* The grants, the records and the request have their types.
THEOREM RiskTypeCorrect == RiskSpec => []RiskTypeOK
<1>1. RiskInv => RiskTypeOK
  BY DEF RiskInv
<1> QED
  BY <1>1, RiskInvariant, PTL

\* What is registered was authorized by a grant for this very proposal.
THEOREM EffectsAreAuthorized == RiskSpec => []EffectIsAuthorized
<1>1. RiskInv => EffectIsAuthorized
  BY DEF RiskInv, EffectIsAuthorized, Consumed
<1> QED
  BY <1>1, RiskInvariant, PTL

\* One execution uses up one grant.
THEOREM AtMostOneGrant == RiskSpec => []OneGrantPerRecord
<1>1. RiskInv => OneGrantPerRecord
  BY DEF RiskInv, BoundToConsumed, OneGrantPerRecord
<1> QED
  BY <1>1, RiskInvariant, PTL

\* A grant that was consumed is never found missing.
THEOREM GrantsAreHonoured == RiskSpec => []ConsumedIsHonoured
<1>1. RiskInv => ConsumedIsHonoured
  BY DEF RiskInv
<1> QED
  BY <1>1, RiskInvariant, PTL

-----------------------------------------------------------------------------
(* The workflow executor.                                                   *)

\* No completed step depends on s.
NotUsed(steps, s) == \A t \in WorkflowSteps : s \in DependsOn[t] => steps[t].status # "completed"

OthersRest(steps, s) ==
  \A t \in WorkflowSteps \ {s} : steps[t].status \in {"pending", "completed"}

\* What an executor has in memory at each of its steps.
MemoryFits(x) ==
  /\ CoherentStates(x.steps)
  /\ x.pc \in {"start", "next", "log"} =>
       \A t \in WorkflowSteps : x.steps[t].status \in {"pending", "completed"}
  /\ x.pc \in {"run", "log", "fail", "block"} =>
       /\ x.at \in WorkflowSteps
       /\ NotUsed(x.steps, x.at)
       /\ OthersRest(x.steps, x.at)
  /\ x.pc = "run" =>
       /\ x.steps[x.at].status = "running"
       /\ \A d \in DependsOn[x.at] : x.steps[d].status = "completed"
  /\ x.pc = "block" => x.steps[x.at].status = "failed"

\* Without a disturbance the one executor knows every success that is stored, and
\* the step that it works on is none of them.
KnowsSuccesses ==
  ~disturbed =>
    \A e \in Executors : executor[e].pc # "idle" =>
      /\ Alone(e)
      /\ \A s \in WorkflowSteps :
           workflow.steps[s].status = "completed" => executor[e].steps[s] = workflow.steps[s]
      /\ executor[e].pc = "fail" => executor[e].steps[executor[e].at].status = "running"

WorkflowInv ==
  /\ WorkflowTypeOK
  /\ Coherent
  /\ StatusIsHonest
  /\ \A e \in Executors : MemoryFits(executor[e])
  /\ KnowsSuccesses

-----------------------------------------------------------------------------
(* Step states.                                                             *)

LEMMA StepStateType ==
  ASSUME NEW status \in {"pending", "running", "failed", "blocked"}
  PROVE  StepState(status) \in StepStates
BY DEF StepState, StepStates, NoInputs, WorkflowSteps

LEMMA UntouchedFits == Untouched \in AllStates /\ CoherentStates(Untouched)
<1>1. Untouched \in AllStates
  BY StepStateType DEF Untouched, AllStates
<1>2. \A s \in WorkflowSteps : Untouched[s].status # "completed"
  BY DEF Untouched, StepState
<1> QED
  BY <1>1, <1>2 DEF CoherentStates

\* Resuming keeps what is completed, and so what it was computed from.
LEMMA ResumedFits ==
  ASSUME NEW steps \in AllStates, CoherentStates(steps)
  PROVE  /\ Resumed(steps) \in AllStates
         /\ CoherentStates(Resumed(steps))
         /\ \A t \in WorkflowSteps : Resumed(steps)[t].status \in {"pending", "completed"}
         /\ \A t \in WorkflowSteps : steps[t].status = "completed" => Resumed(steps)[t] = steps[t]
<1>1. Resumed(steps) \in AllStates
  BY StepStateType DEF Resumed, AllStates
<1>2. \A t \in WorkflowSteps :
        /\ steps[t].status = "completed" => Resumed(steps)[t] = steps[t]
        /\ steps[t].status # "completed" => Resumed(steps)[t].status = "pending"
  BY DEF Resumed, StepState
<1>3. CoherentStates(Resumed(steps))
  BY <1>2, OrderAssumption DEF CoherentStates
<1> QED
  BY <1>1, <1>2, <1>3

\* The state of a step that no completed step depends on may change to one that
\* is not completed.
LEMMA ChangeFits ==
  ASSUME NEW steps \in AllStates, CoherentStates(steps),
         NEW s \in WorkflowSteps, NotUsed(steps, s),
         NEW new \in StepStates, new.status # "completed"
  PROVE  /\ [steps EXCEPT ![s] = new] \in AllStates
         /\ CoherentStates([steps EXCEPT ![s] = new])
         /\ NotUsed([steps EXCEPT ![s] = new], s)
<1>1. [steps EXCEPT ![s] = new] \in AllStates
  BY DEF AllStates
<1>2. \A t \in WorkflowSteps :
        [steps EXCEPT ![s] = new][t] = IF t = s THEN new ELSE steps[t]
  BY DEF AllStates
<1> QED
  BY <1>1, <1>2, OrderAssumption DEF CoherentStates, NotUsed

\* It may be completed from the results of what it depends on.
LEMMA CompletionFits ==
  ASSUME NEW steps \in AllStates, CoherentStates(steps),
         NEW s \in WorkflowSteps, NotUsed(steps, s),
         \A d \in DependsOn[s] : steps[d].status = "completed",
         NEW r \in Nat,
         NEW done,
         done = [status |-> "completed", result |-> r,
                 inputs |-> [d \in WorkflowSteps |->
                               IF d \in DependsOn[s] THEN steps[d].result ELSE 0]]
  PROVE  /\ [steps EXCEPT ![s] = done] \in AllStates
         /\ CoherentStates([steps EXCEPT ![s] = done])
         /\ NotUsed([steps EXCEPT ![s] = done], s)
<1>1. done \in StepStates
  BY DEF AllStates, StepStates
<1>2. [steps EXCEPT ![s] = done] \in AllStates
  BY <1>1 DEF AllStates
<1>3. \A t \in WorkflowSteps :
        [steps EXCEPT ![s] = done][t] = IF t = s THEN done ELSE steps[t]
  BY DEF AllStates
<1>4. s \notin DependsOn[s]
  BY OrderAssumption DEF WorkflowSteps
<1>5. \A d \in DependsOn[s] : done.inputs[d] = steps[d].result
  BY OrderAssumption
<1>6. DependsOn[s] \subseteq WorkflowSteps
  BY OrderAssumption
<1> QED
  BY <1>2, <1>3, <1>4, <1>5, <1>6, OrderAssumption DEF CoherentStates, NotUsed

-----------------------------------------------------------------------------
(* Steps.                                                                   *)

KeepsSuccesses ==
  ~disturbed' =>
    \A s \in WorkflowSteps :
      workflow.steps[s].status = "completed" => workflow'.steps[s] = workflow.steps[s]

\* What is to be shown of a step of the executor e that ends in the state x.
LEMMA StepFits ==
  ASSUME WorkflowInv,
         NEW e \in Executors,
         NEW x \in ExecutorStates, MemoryFits(x),
         executor' = [executor EXCEPT ![e] = x],
         workflow' \in WorkflowStates,
         Coherent', StatusIsHonest',
         results' \in Nat,
         disturbed' \in BOOLEAN,
         ~disturbed' => ~disturbed /\ Alone(e),
         ~disturbed' /\ x.pc # "idle" =>
           \A s \in WorkflowSteps :
             workflow'.steps[s].status = "completed" => x.steps[s] = workflow'.steps[s],
         ~disturbed' /\ x.pc = "fail" => x.steps[x.at].status = "running"
  PROVE  WorkflowInv'
<1>1. executor'[e] = x /\ \A f \in Executors \ {e} : executor'[f] = executor[f]
  BY DEF WorkflowInv, WorkflowTypeOK
<1>2. WorkflowTypeOK'
  BY DEF WorkflowInv, WorkflowTypeOK
<1>3. \A f \in Executors : MemoryFits(executor'[f])
  BY <1>1 DEF WorkflowInv
<1>4. KnowsSuccesses'
  <2> SUFFICES ASSUME ~disturbed', NEW f \in Executors, executor'[f].pc # "idle"
               PROVE  /\ Alone(f)'
                      /\ \A s \in WorkflowSteps :
                           workflow'.steps[s].status = "completed"
                             => executor'[f].steps[s] = workflow'.steps[s]
                      /\ executor'[f].pc = "fail"
                           => executor'[f].steps[executor'[f].at].status = "running"
    BY DEF KnowsSuccesses
  <2>1. f = e
    BY <1>1 DEF Alone
  <2> QED
    BY <1>1, <2>1 DEF Alone
<1> QED
  BY <1>2, <1>3, <1>4 DEF WorkflowInv, MemoryFits

LEMMA IdleFits == IdleExecutor \in ExecutorStates /\ MemoryFits(IdleExecutor)
BY UntouchedFits, OrderAssumption
   DEF IdleExecutor, ExecutorStates, ExecutorSteps, MemoryFits

\* WorkflowInv holds without a file and without executors.
LEMMA WorkflowInvInit == WorkflowInit => WorkflowInv
<1> SUFFICES ASSUME WorkflowInit
             PROVE  WorkflowInv
  OBVIOUS
<1>1. WorkflowTypeOK /\ \A e \in Executors : MemoryFits(executor[e])
  BY UntouchedFits, IdleFits DEF WorkflowInit, WorkflowTypeOK, WorkflowStates
<1>2. Coherent /\ StatusIsHonest
  BY UntouchedFits DEF WorkflowInit, Coherent, StatusIsHonest
<1>3. KnowsSuccesses
  BY DEF WorkflowInit, KnowsSuccesses, IdleExecutor
<1> QED
  BY <1>1, <1>2, <1>3 DEF WorkflowInv

\* What holds of an executor that is under way.
LEMMA UnderWay ==
  ASSUME WorkflowInv, NEW e \in Executors, executor[e].pc # "idle"
  PROVE  /\ executor[e] \in ExecutorStates
         /\ executor[e].steps \in AllStates
         /\ MemoryFits(executor[e])
         /\ ~disturbed => Alone(e)
         /\ ~disturbed =>
              \A s \in WorkflowSteps :
                workflow.steps[s].status = "completed" => executor[e].steps[s] = workflow.steps[s]
         /\ ~disturbed /\ executor[e].pc = "fail"
              => executor[e].steps[executor[e].at].status = "running"
BY DEF WorkflowInv, WorkflowTypeOK, ExecutorStates, KnowsSuccesses

\* Starting and dying change no file.
LEMMA MemorySteps ==
  ASSUME WorkflowInv, NEW e \in Executors,
         StartExecutor(e) \/ Logged(e) \/ RaiseInStep(e) \/ Die(e)
  PROVE  WorkflowInv' /\ KeepsSuccesses
<1>1. workflow' = workflow /\ results' = results
  BY DEF StartExecutor, Logged, RaiseInStep, Die
<1>2. KeepsSuccesses
  BY <1>1 DEF KeepsSuccesses
<1>3. workflow' \in WorkflowStates /\ Coherent' /\ StatusIsHonest' /\ results' \in Nat
  BY <1>1 DEF WorkflowInv, WorkflowTypeOK, Coherent, StatusIsHonest
<1>4. CASE StartExecutor(e)
  <2> DEFINE x == [pc |-> "start", at |-> 0, steps |-> Resumed(workflow.steps)]
  <2>1. workflow.steps \in AllStates /\ CoherentStates(workflow.steps)
    BY DEF WorkflowInv, WorkflowTypeOK, WorkflowStates, Coherent
  <2>2. x \in ExecutorStates /\ MemoryFits(x)
    BY <2>1, ResumedFits, OrderAssumption DEF ExecutorStates, ExecutorSteps, MemoryFits
  <2>3. executor' = [executor EXCEPT ![e] = x]
    BY <1>4 DEF StartExecutor, Goes
  <2>4. disturbed' \in BOOLEAN /\ (~disturbed' => ~disturbed /\ Alone(e))
    BY <1>4 DEF StartExecutor, WorkflowInv, WorkflowTypeOK
  <2>5. \A s \in WorkflowSteps :
          workflow'.steps[s].status = "completed" => x.steps[s] = workflow'.steps[s]
    BY <1>1, <2>1, ResumedFits
  <2>6. x.pc # "fail"
    OBVIOUS
  <2> HIDE DEF x
  <2> QED
    BY <1>2, <1>3, <2>2, <2>3, <2>4, <2>5, <2>6, StepFits
<1>5. CASE Logged(e)
  <2> DEFINE x == [pc |-> "next", at |-> 0, steps |-> executor[e].steps]
  <2>1. executor[e].pc = "log" /\ executor' = [executor EXCEPT ![e] = x] /\ disturbed' = disturbed
    BY <1>5 DEF Logged, Goes, ExecutorIs
  <2>2. x \in ExecutorStates /\ MemoryFits(x)
    BY <2>1, UnderWay, OrderAssumption DEF ExecutorStates, ExecutorSteps, MemoryFits
  <2>3. x.pc # "fail"
    OBVIOUS
  <2>4. disturbed' \in BOOLEAN /\ (~disturbed' => ~disturbed /\ Alone(e))
    BY <2>1, UnderWay DEF WorkflowInv, WorkflowTypeOK
  <2>5. ~disturbed' =>
          \A s \in WorkflowSteps :
            workflow'.steps[s].status = "completed" => x.steps[s] = workflow'.steps[s]
    BY <1>1, <2>1, UnderWay
  <2> HIDE DEF x
  <2> QED
    BY <1>2, <1>3, <2>1, <2>2, <2>3, <2>4, <2>5, StepFits
<1>6. CASE RaiseInStep(e)
  <2> DEFINE x == [pc |-> "fail", at |-> executor[e].at, steps |-> executor[e].steps]
  <2>1. /\ executor[e].pc \in {"run", "log"}
        /\ executor' = [executor EXCEPT ![e] = x]
        /\ disturbed' \in BOOLEAN
        /\ ~disturbed' => ~disturbed /\ executor[e].pc = "run"
    BY <1>6 DEF RaiseInStep, Goes, ExecutorIs, WorkflowInv, WorkflowTypeOK
  <2>2. x \in ExecutorStates /\ MemoryFits(x)
    BY <2>1, UnderWay DEF ExecutorStates, ExecutorSteps, MemoryFits
  <2>3. ~disturbed' => x.steps[x.at].status = "running"
    BY <2>1, UnderWay DEF MemoryFits
  <2>4. ~disturbed' => ~disturbed /\ Alone(e)
    BY <2>1, UnderWay
  <2>5. ~disturbed' =>
          \A s \in WorkflowSteps :
            workflow'.steps[s].status = "completed" => x.steps[s] = workflow'.steps[s]
    BY <1>1, <2>1, UnderWay
  <2> HIDE DEF x
  <2> QED
    BY <1>2, <1>3, <2>1, <2>2, <2>3, <2>4, <2>5, StepFits
<1>7. CASE Die(e)
  <2>1. executor[e].pc # "idle" /\ executor' = [executor EXCEPT ![e] = IdleExecutor]
        /\ disturbed' = disturbed
    BY <1>7 DEF Die, ExecutorIs
  <2>2. IdleExecutor.pc = "idle"
    BY DEF IdleExecutor
  <2> QED
    BY <1>2, <1>3, <2>1, <2>2, IdleFits, UnderWay, StepFits DEF WorkflowInv, WorkflowTypeOK
<1> QED
  BY <1>4, <1>5, <1>6, <1>7

\* A step that an executor stores: the file says what its memory x says, and what
\* is completed in its old memory is so in x.
LEMMA StoreFits ==
  ASSUME WorkflowInv,
         NEW e \in Executors, executor[e].pc # "idle",
         NEW x \in ExecutorStates, MemoryFits(x),
         executor' = [executor EXCEPT ![e] = x],
         NEW status \in {"running", "failed", "completed"},
         NEW steps \in AllStates, CoherentStates(steps),
         workflow' = [status |-> status, steps |-> steps],
         StatusIsHonest',
         results' \in Nat,
         disturbed' = disturbed,
         x.pc \notin {"idle", "fail"} => x.steps = steps,
         x.pc # "fail",
         \A s \in WorkflowSteps :
           ~disturbed /\ executor[e].steps[s].status = "completed"
             => steps[s] = executor[e].steps[s]
  PROVE  WorkflowInv' /\ KeepsSuccesses
<1>1. workflow' \in WorkflowStates
  BY DEF WorkflowStates
<1>2. workflow'.steps = steps
  OBVIOUS
<1>3. Coherent'
  BY <1>2 DEF Coherent, CoherentStates
<1>4. disturbed' \in BOOLEAN /\ (~disturbed' => ~disturbed /\ Alone(e))
  BY UnderWay DEF WorkflowInv, WorkflowTypeOK
<1>5. x.pc # "idle" =>
        \A s \in WorkflowSteps :
          workflow'.steps[s].status = "completed" => x.steps[s] = workflow'.steps[s]
  BY <1>2
<1>6. WorkflowInv'
  BY <1>1, <1>3, <1>4, <1>5, StepFits
<1>7. KeepsSuccesses
  BY <1>2, UnderWay DEF KeepsSuccesses
<1> QED
  BY <1>6, <1>7

LEMMA StoringSteps ==
  ASSUME WorkflowInv, NEW e \in Executors,
         \/ StoreStart(e) \/ (\E s \in WorkflowSteps : BeginStep(e, s))
         \/ CompleteStep(e) \/ FailStep(e) \/ EndWorkflow(e)
  PROVE  WorkflowInv' /\ KeepsSuccesses
<1> DEFINE old == executor[e].steps
           at  == executor[e].at
<1>1. results' \in Nat /\ disturbed' = disturbed /\ executor[e].pc # "idle"
  <2>1. results \in Nat
    BY DEF WorkflowInv, WorkflowTypeOK
  <2>2. CASE StoreStart(e) \/ FailStep(e) \/ EndWorkflow(e)
    BY <2>1, <2>2 DEF StoreStart, FailStep, EndWorkflow, Persists, ExecutorIs
  <2>3. CASE \E s \in WorkflowSteps : BeginStep(e, s)
    BY <2>1, <2>3 DEF BeginStep, Persists, ExecutorIs
  <2>4. CASE CompleteStep(e)
    BY <2>1, <2>4 DEF CompleteStep, ExecutorIs
  <2> QED
    BY <2>2, <2>3, <2>4
<1>2. old \in AllStates /\ CoherentStates(old) /\ MemoryFits(executor[e])
  BY <1>1, UnderWay DEF MemoryFits
<1>3. CASE StoreStart(e)
  <2> DEFINE x == [pc |-> "next", at |-> 0, steps |-> old]
  <2>1. /\ executor[e].pc = "start"
        /\ executor' = [executor EXCEPT ![e] = x]
        /\ workflow' = [status |-> "running", steps |-> old]
    BY <1>3 DEF StoreStart, Persists, Stored, Goes, ExecutorIs
  <2>2. x \in ExecutorStates /\ MemoryFits(x)
    BY <1>2, <2>1, OrderAssumption DEF ExecutorStates, ExecutorSteps, MemoryFits
  <2>3. StatusIsHonest'
    BY <2>1 DEF StatusIsHonest
  <2>4. x.pc # "fail" /\ x.steps = old
    OBVIOUS
  <2> HIDE DEF x
  <2> QED
    BY <1>1, <1>2, <2>1, <2>2, <2>3, <2>4, StoreFits
<1>4. ASSUME NEW s \in WorkflowSteps, BeginStep(e, s)
      PROVE  WorkflowInv' /\ KeepsSuccesses
  <2> DEFINE new == [old EXCEPT ![s] = StepState("running")]
             x   == [pc |-> "run", at |-> s, steps |-> new]
  <2>1. /\ executor[e].pc = "next"
        /\ old[s].status # "completed"
        /\ \A t \in 1..(s - 1) : old[t].status = "completed"
        /\ executor' = [executor EXCEPT ![e] = x]
        /\ workflow' = [status |-> "running", steps |-> new]
    BY <1>4 DEF BeginStep, Persists, Stored, Goes, ExecutorIs
  <2>2. NotUsed(old, s)
    BY <1>2, <2>1 DEF NotUsed, CoherentStates
  <2>3. StepState("running") \in StepStates /\ StepState("running").status = "running"
    BY StepStateType DEF StepState
  <2>4. new \in AllStates /\ CoherentStates(new) /\ NotUsed(new, s)
    BY <1>2, <2>2, <2>3, ChangeFits
  <2>5. /\ new[s].status = "running"
        /\ \A t \in WorkflowSteps \ {s} : new[t] = old[t]
    BY <1>2, <2>3 DEF AllStates
  <2>6. \A d \in DependsOn[s] : d \in WorkflowSteps /\ d # s /\ old[d].status = "completed"
    BY <2>1, OrderAssumption DEF WorkflowSteps
  <2>7. OthersRest(new, s)
    BY <1>2, <2>1, <2>5 DEF OthersRest, MemoryFits
  <2>8. x \in ExecutorStates
    BY <2>4 DEF ExecutorStates, ExecutorSteps, WorkflowSteps
  <2>9. MemoryFits(x)
    BY <2>4, <2>5, <2>6, <2>7 DEF MemoryFits
  <2>10. StatusIsHonest'
    BY <2>1 DEF StatusIsHonest
  <2>11. x.pc # "fail" /\ x.steps = new
    OBVIOUS
  <2>12. \A t \in WorkflowSteps : old[t].status = "completed" => new[t] = old[t]
    BY <2>1, <2>5
  <2> HIDE DEF x, new
  <2> QED
    BY <1>1, <2>1, <2>4, <2>8, <2>9, <2>10, <2>11, <2>12, StoreFits
<1>5. CASE CompleteStep(e)
  <2> DEFINE done == [status |-> "completed", result |-> results + 1,
                      inputs |-> [d \in WorkflowSteps |->
                                    IF d \in DependsOn[at] THEN old[d].result ELSE 0]]
             new  == [old EXCEPT ![at] = done]
             x    == [pc |-> "log", at |-> at, steps |-> new]
  <2>1. /\ executor[e].pc = "run"
        /\ executor' = [executor EXCEPT ![e] = x]
        /\ workflow' = [status |-> "running", steps |-> new]
    BY <1>5 DEF CompleteStep, Stored, Goes, ExecutorIs
  <2>2. /\ at \in WorkflowSteps
        /\ NotUsed(old, at)
        /\ OthersRest(old, at)
        /\ old[at].status = "running"
        /\ \A d \in DependsOn[at] : old[d].status = "completed"
    BY <1>2, <2>1 DEF MemoryFits
  <2>3. results + 1 \in Nat
    BY DEF WorkflowInv, WorkflowTypeOK
  <2>4. new \in AllStates /\ CoherentStates(new) /\ NotUsed(new, at)
    BY <1>2, <2>2, <2>3, CompletionFits
  <2>5. /\ new[at].status = "completed"
        /\ \A t \in WorkflowSteps \ {at} : new[t] = old[t]
    BY <1>2, <2>2 DEF AllStates
  <2>6. OthersRest(new, at)
    BY <2>2, <2>5 DEF OthersRest
  <2>7. x \in ExecutorStates
    BY <2>2, <2>4 DEF ExecutorStates, ExecutorSteps, WorkflowSteps
  <2>8. MemoryFits(x)
    BY <2>2, <2>4, <2>5, <2>6 DEF MemoryFits, OthersRest
  <2>9. StatusIsHonest'
    BY <2>1 DEF StatusIsHonest
  <2>10. x.pc # "fail" /\ x.steps = new
    OBVIOUS
  <2>11. \A t \in WorkflowSteps : old[t].status = "completed" => new[t] = old[t]
    BY <2>2, <2>5
  <2> HIDE DEF x, new
  <2> QED
    BY <1>1, <2>1, <2>4, <2>7, <2>8, <2>9, <2>10, <2>11, StoreFits
<1>6. CASE FailStep(e)
  <2> DEFINE new == [old EXCEPT ![at] = StepState("failed")]
             x   == [pc |-> "block", at |-> at, steps |-> new]
  <2>1. /\ executor[e].pc = "fail"
        /\ executor' = [executor EXCEPT ![e] = x]
        /\ workflow' = [status |-> "failed", steps |-> new]
    BY <1>6 DEF FailStep, Persists, Stored, Goes, ExecutorIs
  <2>2. /\ at \in WorkflowSteps
        /\ NotUsed(old, at)
        /\ OthersRest(old, at)
        /\ ~disturbed => old[at].status = "running"
    BY <1>1, <1>2, <2>1, UnderWay DEF MemoryFits
  <2>3. StepState("failed") \in StepStates /\ StepState("failed").status = "failed"
    BY StepStateType DEF StepState
  <2>4. new \in AllStates /\ CoherentStates(new) /\ NotUsed(new, at)
    BY <1>2, <2>2, <2>3, ChangeFits
  <2>5. /\ new[at].status = "failed"
        /\ \A t \in WorkflowSteps \ {at} : new[t] = old[t]
    BY <1>2, <2>2, <2>3 DEF AllStates
  <2>6. OthersRest(new, at)
    BY <2>2, <2>5 DEF OthersRest
  <2>7. x \in ExecutorStates
    BY <2>2, <2>4 DEF ExecutorStates, ExecutorSteps, WorkflowSteps
  <2>8. MemoryFits(x)
    BY <2>2, <2>4, <2>5, <2>6 DEF MemoryFits
  <2>9. StatusIsHonest'
    BY <2>1, <2>2, <2>5, <2>6 DEF StatusIsHonest, OthersRest
  <2>10. x.pc # "fail" /\ x.steps = new
    OBVIOUS
  <2>11. \A t \in WorkflowSteps :
           ~disturbed /\ old[t].status = "completed" => new[t] = old[t]
    BY <2>2, <2>5
  <2> HIDE DEF x, new
  <2> QED
    BY <1>1, <2>1, <2>4, <2>7, <2>8, <2>9, <2>10, <2>11, StoreFits
<1>7. CASE EndWorkflow(e)
  <2> DEFINE new == IF ExecutorIs(e, "block") THEN Blocked(old, at) ELSE old
  <2>1. /\ executor' = [executor EXCEPT ![e] = IdleExecutor]
        /\ workflow' = [status |-> WorkflowEndStatus(new), steps |-> new]
        /\ \/ executor[e].pc = "block"
           \/ /\ executor[e].pc = "next"
              /\ \A s \in WorkflowSteps : old[s].status = "completed"
    BY <1>7 DEF EndWorkflow, Stored, ExecutorIs
  <2>2. \A t \in WorkflowSteps :
          \/ new[t] = old[t]
          \/ executor[e].pc = "block" /\ old[t].status = "pending" /\ new[t] = StepState("blocked")
    BY DEF Blocked, ExecutorIs
  <2>3. new \in AllStates
    BY <1>2, StepStateType DEF Blocked, AllStates
  <2>4. \A t \in WorkflowSteps :
          /\ old[t].status = "completed" => new[t] = old[t]
          /\ new[t].status = "completed" => new[t] = old[t]
    BY <2>2 DEF StepState
  <2>5. CoherentStates(new)
    BY <1>2, <2>4, OrderAssumption DEF CoherentStates
  <2>6. StatusIsHonest'
    <3>1. CASE executor[e].pc = "block"
      <4>1. at \in WorkflowSteps /\ old[at].status = "failed" /\ OthersRest(old, at)
        BY <1>2, <3>1 DEF MemoryFits
      <4>2. new[at].status = "failed"
        BY <2>2, <4>1
      <4>3. \A t \in WorkflowSteps : new[t].status # "running"
        BY <2>2, <4>1 DEF OthersRest, StepState
      <4>4. WorkflowEndStatus(new) = "failed"
        BY <4>1, <4>2 DEF WorkflowEndStatus
      <4> HIDE DEF new
      <4> QED
        BY <2>1, <4>1, <4>2, <4>3, <4>4 DEF StatusIsHonest
    <3>2. CASE executor[e].pc # "block"
      <4>1. \A t \in WorkflowSteps : new[t].status = "completed"
        BY <2>1, <2>4, <3>2
      <4>2. WorkflowEndStatus(new) = "completed"
        BY <4>1 DEF WorkflowEndStatus
      <4> HIDE DEF new
      <4> QED
        BY <2>1, <4>1, <4>2 DEF StatusIsHonest
    <3> QED
      BY <3>1, <3>2
  <2>7. WorkflowEndStatus(new) \in {"running", "failed", "completed"}
    BY DEF WorkflowEndStatus
  <2>8. IdleExecutor.pc = "idle"
    BY DEF IdleExecutor
  <2> HIDE DEF new
  <2> QED
    BY <1>1, <2>1, <2>3, <2>4, <2>5, <2>6, <2>7, <2>8, IdleFits, StoreFits
<1> QED
  BY <1>3, <1>4, <1>5, <1>6, <1>7

\* One step of the system.
LEMMA WorkflowStep ==
  ASSUME WorkflowInv, [WorkflowNext]_workflowVars
  PROVE  WorkflowInv' /\ KeepsSuccesses
<1>1. CASE UNCHANGED workflowVars
  BY <1>1 DEF workflowVars, WorkflowInv, WorkflowTypeOK, Coherent, StatusIsHonest, MemoryFits,
              KnowsSuccesses, Alone, KeepsSuccesses
<1>2. CASE WorkflowNext
  BY <1>2, MemorySteps, StoringSteps DEF WorkflowNext
<1> QED
  BY <1>1, <1>2

LEMMA WorkflowInvariant == WorkflowSpec => []WorkflowInv
<1>1. WorkflowInv /\ [WorkflowNext]_workflowVars => WorkflowInv'
  BY WorkflowStep
<1> QED
  BY <1>1, WorkflowInvInit, PTL DEF WorkflowSpec

-----------------------------------------------------------------------------

\* The file and the executors have their types.
THEOREM WorkflowTypeCorrect == WorkflowSpec => []WorkflowTypeOK
<1>1. WorkflowInv => WorkflowTypeOK
  BY DEF WorkflowInv
<1> QED
  BY <1>1, WorkflowInvariant, PTL

\* The stored results belong together.
THEOREM ResultsBelongTogether == WorkflowSpec => []Coherent
<1>1. WorkflowInv => Coherent
  BY DEF WorkflowInv
<1> QED
  BY <1>1, WorkflowInvariant, PTL

\* The stored status says what became of the steps.
THEOREM StatusHonest == WorkflowSpec => []StatusIsHonest
<1>1. WorkflowInv => StatusIsHonest
  BY DEF WorkflowInv
<1> QED
  BY <1>1, WorkflowInvariant, PTL

\* Undisturbed, a stored success is never computed again.
THEOREM SuccessKept == WorkflowSpec => SuccessIsKept
<1>1. WorkflowInv /\ [WorkflowNext]_workflowVars
        => [~disturbed' =>
              \A s \in WorkflowSteps :
                workflow.steps[s].status = "completed" => workflow'.steps[s] = workflow.steps[s]
           ]_workflowVars
  BY WorkflowStep DEF KeepsSuccesses
<1> QED
  BY <1>1, WorkflowInvariant, PTL DEF WorkflowSpec, SuccessIsKept

-----------------------------------------------------------------------------
(* The composition.                                                         *)

\* Conversations, event stream, grants and plans share no state: a behaviour of
\* the composition that TLC checks is one of each of the four specifications, of
\* which the theorems here and in the other modules speak.
THEOREM AgentPartsAreThemselves ==
  AgentSpec => Spec /\ StreamSpec /\ RiskSpec /\ WorkflowSpec
<1>1. AgentInit => Init /\ StreamInit /\ RiskInit /\ WorkflowInit
  BY DEF AgentInit
<1>2. [AgentNext]_agentVars =>
        /\ [Next]_vars
        /\ [StreamNext]_streamVars
        /\ [RiskNext]_riskVars
        /\ [WorkflowNext]_workflowVars
  BY DEF AgentNext, agentVars
<1> QED
  BY <1>1, <1>2, PTL DEF AgentSpec, Spec, StreamSpec, RiskSpec, WorkflowSpec

===============================================================================
