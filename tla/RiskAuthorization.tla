-------------------------- MODULE RiskAuthorization --------------------------
(***************************************************************************)
(* The extra authorization of a high-risk operation (agent/risk.py), which  *)
(* only code.execute asks for: the user authorizes a confirmed proposal and *)
(* gets a grant, whose token exists in the client only; the confirm request *)
(* brings the grant, which is bound to the operation record, consumed under *)
(* the record's execution key, and asked for again when the record is       *)
(* claimed.  Grants and records are append-only files.                      *)
(*                                                                          *)
(* The authorize route runs in a pool thread.  The confirm and reconcile    *)
(* routes run on the event loop and nothing of what they do for code.execute *)
(* awaits anything, so one of them runs at a time; the server may die        *)
(* between any two of their writes.  The code is executed, and its result   *)
(* registered under the execution key, in one step here.                    *)
(***************************************************************************)
EXTENDS Naturals

CONSTANTS
  Proposals,  \* proposals to execute code, each with one record at most
  Grants,     \* the ids that grants are issued under
  NoGrant

ASSUME GrantsAssumption == NoGrant \notin Grants

VARIABLES
  grants,    \* the last line of each grant's file
  records,   \* the last line of each operation record's file
  handler,   \* the request on the event loop
  registered, \* the proposals whose result is registered
  denied     \* history: the records that failed for want of an authorization

riskVars == <<grants, records, handler, registered, denied>>

\* for: the proposal it was issued for; by: the proposal whose record consumed it.
GrantStates ==
  [status : {"none", "issued", "consumed"}, for : Proposals \cup {NoGrant},
   by : Proposals \cup {NoGrant}, expired : BOOLEAN]

NotIssued == [status |-> "none", for |-> NoGrant, by |-> NoGrant, expired |-> FALSE]

\* A record is submitted and running while it has its execution key and no result.
RecordStates ==
  [status : {"none", "pending", "submitted", "recovering", "completed", "failed"},
   bound : Grants \cup {NoGrant}, claimed : BOOLEAN]

NoRecordYet == [status |-> "none", bound |-> NoGrant, claimed |-> FALSE]

HandlerSteps == {"idle", "bind", "consume", "recover", "claim", "require", "execute", "settle"}

HandlerStates ==
  [pc : HandlerSteps, p : Proposals \cup {NoGrant}, g : Grants \cup {NoGrant}]

IdleHandler == [pc |-> "idle", p |-> NoGrant, g |-> NoGrant]

Terminal(p) == records[p].status \in {"completed", "failed"}

RiskInit ==
  /\ grants = [g \in Grants |-> NotIssued]
  /\ records = [p \in Proposals |-> NoRecordYet]
  /\ handler = IdleHandler
  /\ registered = {}
  /\ denied = {}

-----------------------------------------------------------------------------
(* Grants.                                                                  *)

\* The user authorizes a proposal, before or after it is first confirmed; the
\* grant has a new id, which no request brought before.
Authorize(p, g) ==
  /\ grants[g].status = "none"
  /\ handler.g # g /\ \A x \in Proposals : records[x].bound # g
  /\ grants' = [grants EXCEPT ![g] = [NotIssued EXCEPT !.status = "issued", !.for = p]]
  /\ UNCHANGED <<records, handler, registered, denied>>

\* The time to live of a grant passes.
Expire(g) ==
  /\ grants[g].status # "none"
  /\ ~grants[g].expired
  /\ grants' = [grants EXCEPT ![g].expired = TRUE]
  /\ UNCHANGED <<records, handler, registered, denied>>

\* RiskAuthorizationStore.consume: again under the same key it changes nothing.
MayConsume(p, g) ==
  /\ grants[g].for = p
  /\ \/ grants[g].status = "consumed" /\ grants[g].by = p
     \/ grants[g].status = "issued" /\ ~grants[g].expired

\* Fault: a grant whose time is over is refused although it was consumed in time.
Consumed_Expires(p) ==
  LET g == records[p].bound
  IN  g # NoGrant /\ grants[g].status = "consumed" /\ grants[g].for = p /\ grants[g].by = p
      /\ ~grants[g].expired

\* Fault: that a grant is bound is taken for enough.
Consumed_Bound(p) == records[p].bound # NoGrant

\* RiskAuthorizationStore.require_consumed, of the grant that the record is bound to.
Consumed(p) ==
  LET g == records[p].bound
  IN  g # NoGrant /\ grants[g].status = "consumed" /\ grants[g].for = p /\ grants[g].by = p

-----------------------------------------------------------------------------
(* The requests on the event loop.                                          *)

HandlerAt(pc) == handler.pc = pc

HandlerGoes(pc) == handler' = [handler EXCEPT !.pc = pc]

HandlerEnds == handler' = IdleHandler

WriteRecord(p, r) == records' = [records EXCEPT ![p] = r]

\* The confirm route: the proposal is confirmed and has its record.  Without a
\* grant, or with a record that ended or is claimed, that is all.
Confirm(p, g) ==
  /\ HandlerAt("idle")
  /\ IF records[p].status = "none"
     THEN WriteRecord(p, [NoRecordYet EXCEPT !.status = "pending"])
     ELSE UNCHANGED records
  /\ handler' = IF g = NoGrant \/ Terminal(p) \/ records[p].claimed
                THEN IdleHandler
                ELSE [pc |-> "bind", p |-> p, g |-> g]
  /\ UNCHANGED <<grants, registered, denied>>

\* Fault: another grant is bound without a look at the one that is.
MayBind_Always(p, g) == TRUE

\* A consumed grant is not replaced, nor is one after the claim.
MayBind(p, g) ==
  LET old == records[p].bound
  IN  old \in {NoGrant, g} \/ (grants[old].status = "issued" /\ ~records[p].claimed)

Bind ==
  LET p == handler.p
      g == handler.g
  IN  /\ HandlerAt("bind")
      /\ IF MayBind(p, g)
         THEN WriteRecord(p, [records[p] EXCEPT !.bound = g]) /\ HandlerGoes("consume")
         ELSE UNCHANGED records /\ HandlerEnds
      /\ UNCHANGED <<grants, registered, denied>>

Consume ==
  LET p == handler.p
      g == handler.g
  IN  /\ HandlerAt("consume")
      /\ IF MayConsume(p, g)
         THEN /\ grants' = [grants EXCEPT ![g].status = "consumed", ![g].by = p]
              /\ HandlerGoes("claim")
         ELSE UNCHANGED grants /\ HandlerEnds
      /\ UNCHANGED <<records, registered, denied>>

\* The reconcile route goes on with a record that has not ended.
Reconcile(p) ==
  /\ HandlerAt("idle")
  /\ records[p].status \in {"pending", "submitted", "recovering"}
  /\ handler' = [pc |-> IF records[p].status = "recovering" THEN "claim" ELSE "recover",
                 p |-> p, g |-> NoGrant]
  /\ UNCHANGED <<grants, records, registered, denied>>

Recover ==
  /\ HandlerAt("recover")
  /\ WriteRecord(handler.p, [records[handler.p] EXCEPT !.status = "recovering"])
  /\ HandlerGoes("claim")
  /\ UNCHANGED <<grants, registered, denied>>

\* Fault: the claim has a status of its own.
AfterClaim_OwnStatus(p) == "claimed"

\* A claim of a claimed record, which is recovering then, changes its owner only.
AfterClaim(p) == IF records[p].claimed THEN records[p].status ELSE "submitted"

Claim ==
  LET p == handler.p
  IN  /\ HandlerAt("claim")
      /\ WriteRecord(p, [records[p] EXCEPT !.claimed = TRUE, !.status = AfterClaim(p)])
      /\ HandlerGoes("require")
      /\ UNCHANGED <<grants, registered, denied>>

\* The proposal became stale before the record was changed or claimed, or the
\* chain head is leased to another operation.
GiveUp ==
  /\ handler.pc \in {"recover", "claim", "execute"}
  /\ HandlerEnds
  /\ UNCHANGED <<grants, records, registered, denied>>

\* A record without its authorization fails.
Require ==
  LET p == handler.p
  IN  /\ HandlerAt("require")
      /\ IF Consumed(p)
         THEN HandlerGoes("execute") /\ UNCHANGED <<records, denied>>
         ELSE /\ WriteRecord(p, [records[p] EXCEPT !.status = "failed"])
              /\ denied' = denied \cup {p}
              /\ HandlerEnds
      /\ UNCHANGED <<grants, registered>>

\* The code is run and its result is registered, or it fails.
Execute ==
  LET p == handler.p
  IN  /\ HandlerAt("execute")
      /\ \/ registered' = registered \cup {p} /\ HandlerGoes("settle") /\ UNCHANGED records
         \/ /\ WriteRecord(p, [records[p] EXCEPT !.status = "failed"])
            /\ HandlerEnds
            /\ UNCHANGED registered
      /\ UNCHANGED <<grants, denied>>

Settle ==
  /\ HandlerAt("settle")
  /\ WriteRecord(handler.p, [records[handler.p] EXCEPT !.status = "completed"])
  /\ HandlerEnds
  /\ UNCHANGED <<grants, registered, denied>>

\* The server dies and starts again.
Restart ==
  /\ ~HandlerAt("idle")
  /\ HandlerEnds
  /\ UNCHANGED <<grants, records, registered, denied>>

RiskNext ==
  \/ \E p \in Proposals :
       \/ \E g \in Grants : Authorize(p, g)
       \/ \E g \in Grants \cup {NoGrant} : Confirm(p, g)
       \/ Reconcile(p)
  \/ \E g \in Grants : Expire(g)
  \/ Bind \/ Consume \/ Recover \/ Claim \/ GiveUp \/ Require \/ Execute \/ Settle
  \/ Restart

RiskSpec == RiskInit /\ [][RiskNext]_riskVars

-----------------------------------------------------------------------------
(* Properties.                                                              *)

\* Grants, records and the request have their shapes (agent/risk.py).
RiskTypeOK ==
  /\ grants \in [Grants -> GrantStates]
  /\ records \in [Proposals -> RecordStates]
  /\ handler \in HandlerStates
  /\ registered \subseteq Proposals
  /\ denied \subseteq Proposals

\* What is registered was authorized: the record is bound to a grant that the
\* user gave for this very proposal and that this record consumed; so through
\* crashes, retries with other grants, and reconciliation, which brings none
\* (WorkbenchOperationLifecycle.execute, require_consumed).
EffectIsAuthorized ==
  \A p \in registered :
    LET g == records[p].bound
    IN  g # NoGrant /\ grants[g].status = "consumed" /\ grants[g].for = p /\ grants[g].by = p

\* A record consumes one grant at most, whatever grants the client brings before
\* and after a crash: no second authorization is used up for one execution
\* (execute_confirmed_operation, bind_risk_authorization).
OneGrantPerRecord ==
  \A g, h \in Grants :
    grants[g].status = "consumed" /\ grants[h].status = "consumed" /\ grants[g].by = grants[h].by
      => g = h

\* A grant that was consumed counts until the record has ended: neither a crash
\* nor the passing of its time makes a later attempt fail for want of it
\* (require_consumed asks no time).
ConsumedIsHonoured ==
  \A p \in denied : ~\E g \in Grants : grants[g].status = "consumed" /\ grants[g].by = p

=============================================================================
