------------------------ MODULE ProposalStore_proofs ------------------------
(***************************************************************************)
(* Theorems about ProposalStore: that a proposal is confirmed at most once  *)
(* and executed at most once, for any number of requests; that what is      *)
(* executed was reviewed when the executor reads the confirmed content; and *)
(* that the store then implements ReviewedExecution.                        *)
(***************************************************************************)
EXTENDS ProposalStore, SequenceTheorems, TLAPS

Types == {"revision", "confirmation", "decision"}

\* The inductive invariant, part by part.

\* Whatever the log contains, it has a last entry of that kind, so that every
\* CHOOSE of the reading operators has something to choose.
HasLasts(l) ==
  \A types \in SUBSET Types : Contains(l, types) => \E i \in DOMAIN l : IsLast(l, types, i)

LogOK ==
  /\ HasLasts(log)
  /\ log # <<>> => Contains(log, Revision)
  /\ \A q \in Requests : req[q].pc # "idle" => log # <<>>

\* content has a confirmation entry of status confirmed in l.
Confirmed(l, content) ==
  \E i \in DOMAIN l : l[i] = ConfirmationEntry(content, "confirmed")

\* What a confirm request read stays true until it appends: nobody else confirms.
StatusHolds(q) ==
  At(q, "confirm", "settle") =>
    /\ req[q].status = "pending" => ~Contains(log, Confirmation)
    /\ req[q].status = "confirmed" => \E c \in Contents : Confirmed(log, c)

ConfirmOK ==
  /\ OneConfirmation
  /\ \A p, q \in Requests : req[p].op = "confirm" /\ req[q].op = "confirm" => p = q
  /\ \A i \in DOMAIN log : log[i].type = "confirmation" => log[i].content \in asked
  /\ \A q \in Requests : req[q].op = "confirm" => req[q].seen \in asked
  /\ \A q \in Requests : StatusHolds(q)
  /\ \A q \in Requests : req[q].pc \in {"record", "execute"} => Confirmed(log, req[q].latest)

EffectOK ==
  /\ \A k \in DOMAIN effects : Confirmed(log, effects[k].record)
  /\ OneEffect

IInv == TypeOK /\ LogOK /\ ConfirmOK /\ EffectOK

-----------------------------------------------------------------------------
(* Lemmas about logs.                                                       *)

\* An entry is a revision, a confirmation or a decision, with the status and
\* the content that its kind allows.
LEMMA EntryShapes ==
  /\ \A e \in Entries : e.type \in Types /\ e.content \in Contents
  /\ \A e \in Entries : e.type \in Disposition => e.status \in Dispositions
  /\ \A e \in Entries : e.type \in Disposition /\ e.status = "confirmed" =>
        e = ConfirmationEntry(e.content, "confirmed")
  /\ \A n \in Nat, c \in Changes : RevisionEntry(n, c) \in Entries
  /\ \A c \in Contents, s \in {"confirmed", "stale"} : ConfirmationEntry(c, s) \in Entries
  /\ \A c \in Contents : DecisionEntry(c) \in Entries
  BY DEF Entries, Types, Disposition, Dispositions, RevisionEntry, ConfirmationEntry,
         DecisionEntry, Contents

\* Appending keeps the entries where they are.
LEMMA Appended ==
  ASSUME NEW l \in Seq(Entries), NEW e \in Entries
  PROVE  /\ Append(l, e) \in Seq(Entries)
         /\ DOMAIN l = 1 .. Len(l) /\ Len(l) \in Nat
         /\ DOMAIN Append(l, e) = 1 .. (Len(l) + 1)
         /\ \A i \in DOMAIN l : i \in DOMAIN Append(l, e) /\ Append(l, e)[i] = l[i]
         /\ Append(l, e)[Len(l) + 1] = e
  BY AppendProperties

\* A log that has last entries still has them after an append.
LEMMA AppendKeepsLasts ==
  ASSUME NEW l \in Seq(Entries), NEW e \in Entries, HasLasts(l)
  PROVE  HasLasts(Append(l, e))
<1> DEFINE m == Append(l, e)
<1> SUFFICES ASSUME NEW types \in SUBSET Types, Contains(m, types)
             PROVE  \E i \in DOMAIN m : IsLast(m, types, i)
  BY DEF HasLasts
<1>1. CASE e.type \in types
  <2>1. IsLast(m, types, Len(l) + 1)
    BY <1>1, Appended DEF IsLast
  <2> QED
    BY <2>1 DEF IsLast
<1>2. CASE e.type \notin types
  <2>1. Contains(l, types)
    BY <1>2, Appended DEF Contains
  <2>2. PICK i \in DOMAIN l : IsLast(l, types, i)
    BY <2>1 DEF HasLasts
  <2>3. IsLast(m, types, i)
    BY <1>2, <2>2, Appended DEF IsLast
  <2> QED
    BY <2>3 DEF IsLast
<1> QED
  BY <1>1, <1>2

\* The reading operators return an entry of the log.
LEMMA LastOfReturns ==
  ASSUME NEW l \in Seq(Entries), HasLasts(l),
         NEW types \in SUBSET Types, Contains(l, types)
  PROVE  \E i \in DOMAIN l : IsLast(l, types, i) /\ LastOf(l, types) = l[i]
  BY DEF HasLasts, LastOf, IsLast

\* The latest revision has a content.
LEMMA LatestRevisionType ==
  ASSUME NEW l \in Seq(Entries), HasLasts(l), Contains(l, Revision)
  PROVE  LatestRevision(l) \in Contents
  BY LastOfReturns, EntryShapes DEF LatestRevision, Revision, Types

\* What the status says about the confirmations in the log.
LEMMA LatestStatusMeans ==
  ASSUME NEW l \in Seq(Entries), HasLasts(l)
  PROVE  /\ LatestStatus(l) \in Dispositions \cup {"pending"}
         /\ LatestStatus(l) = "pending" => ~Contains(l, Confirmation)
         /\ LatestStatus(l) = "confirmed" =>
              \E c \in Contents, i \in DOMAIN l : l[i] = ConfirmationEntry(c, "confirmed")
<1>1. CASE ~Contains(l, Disposition)
  BY <1>1 DEF LatestStatus, Contains, Disposition, Confirmation
<1>2. CASE Contains(l, Disposition)
  <2>1. PICK i \in DOMAIN l : IsLast(l, Disposition, i) /\ LastOf(l, Disposition) = l[i]
    BY <1>2, LastOfReturns DEF Disposition, Types
  <2>2. LatestStatus(l) = l[i].status /\ l[i] \in Entries /\ l[i].type \in Disposition
    BY <1>2, <2>1 DEF LatestStatus, IsLast
  <2>3. l[i].status \in Dispositions
    BY <2>2, EntryShapes
  <2>4. l[i].status = "confirmed" =>
          l[i] = ConfirmationEntry(l[i].content, "confirmed") /\ l[i].content \in Contents
    BY <2>2, EntryShapes
  <2> QED
    BY <2>2, <2>3, <2>4 DEF Dispositions
<1> QED
  BY <1>1, <1>2

-----------------------------------------------------------------------------
(* The invariant holds initially and every step keeps it.                   *)

\* The state that a request returns to is a request state.
LEMMA IdleType == Idle \in RequestStates
<1>1. (CHOOSE c \in Changes : TRUE) \in Changes
  BY ChangesAssumption
<1>2. NoContent \in Contents /\ NoContent.changes \in Changes
  BY <1>1 DEF NoContent, Contents
<1> QED
  BY <1>2 DEF Idle, RequestStates, Steps

\* The changes that the actions make to a request's state keep its type.
LEMMA RequestUpdates ==
  ASSUME NEW r \in RequestStates
  PROVE  /\ r.seen \in Contents /\ r.latest \in Contents /\ r.changes \in Changes
         /\ r.latest.revision \in Nat /\ r.latest.changes \in Changes
         /\ \A pc \in Steps : [r EXCEPT !.pc = pc] \in RequestStates
         /\ \A pc \in Steps, c \in Contents :
              [r EXCEPT !.latest = c, !.pc = pc] \in RequestStates
         /\ \A pc \in Steps, s \in Dispositions \cup {"pending"} :
              [r EXCEPT !.status = s, !.pc = pc] \in RequestStates
  BY DEF RequestStates, Contents

\* The states in which requests begin.
LEMMA BeginTypes ==
  /\ \A seen \in Contents, c \in Changes :
       [Idle EXCEPT !.op = "revise", !.pc = "readLatest", !.seen = seen, !.changes = c]
         \in RequestStates
  /\ [Idle EXCEPT !.op = "decline", !.pc = "readLatest"] \in RequestStates
  /\ \A seen \in Contents, f \in BOOLEAN :
       [Idle EXCEPT !.op = "confirm", !.pc = "readLatest", !.seen = seen, !.fresh = f]
         \in RequestStates
  BY IdleType DEF RequestStates, Steps

\* What a client can have on its screen are contents.
LEMMA ShownType == log \in Seq(Entries) => Shown \subseteq Contents
  BY EntryShapes DEF Shown

\* A request in flight finds a revision in the log.
LEMMA ActiveReads ==
  ASSUME IInv, NEW q \in Requests, req[q].pc # "idle"
  PROVE  log \in Seq(Entries) /\ HasLasts(log) /\ Contains(log, Revision)
  BY DEF IInv, TypeOK, LogOK

\* A confirm that answers with the existing confirmation finds one: the last
\* confirmation entry, which has the status confirmed.
LEMMA ExistingIsThere ==
  ASSUME IInv, NEW q \in Requests, ConfirmAgain(q)
  PROVE  /\ Contains(log, Confirmation)
         /\ Confirmed(log, LatestConfirmation(log))
<1>1. req[q].status = "confirmed" /\ At(q, "confirm", "settle")
  BY DEF ConfirmAgain, ConfirmOutcome
<1>2. PICK c \in Contents : Confirmed(log, c)
  BY <1>1 DEF IInv, ConfirmOK, StatusHolds
<1>3. PICK i \in DOMAIN log : log[i] = ConfirmationEntry(c, "confirmed")
  BY <1>2 DEF Confirmed
<1>4. Contains(log, Confirmation)
  BY <1>3 DEF Contains, ConfirmationEntry, Confirmation
<1>5. PICK k \in DOMAIN log :
        IsLast(log, Confirmation, k) /\ LastOf(log, Confirmation) = log[k]
  BY <1>4, LastOfReturns DEF Confirmation, Types, IInv, TypeOK, LogOK
<1>6. k = i
  BY <1>3, <1>5 DEF IsLast, Confirmation, IInv, ConfirmOK, OneConfirmation, ConfirmationEntry
<1>7. LatestConfirmation(log) = c
  BY <1>3, <1>5, <1>6 DEF LatestConfirmation, ConfirmationEntry
<1> QED
  BY <1>2, <1>4, <1>7

\* The invariant holds initially.
LEMMA InitInv == Init => IInv
<1> SUFFICES ASSUME Init PROVE IInv
  OBVIOUS
<1>1. TypeOK
  BY IdleType, MaxRequestsAssumption DEF Init, TypeOK, Effects
<1>2. LogOK
  BY DEF Init, LogOK, HasLasts, Contains, Idle
<1>3. ConfirmOK
  BY DEF Init, ConfirmOK, OneConfirmation, StatusHolds, At, Idle
<1>4. EffectOK
  BY DEF Init, EffectOK, OneEffect
<1> QED
  BY <1>1, <1>2, <1>3, <1>4 DEF IInv

\* A request that begins, and an append to the log, keep the types.
LEMMA TypeAfterBegin ==
  ASSUME TypeOK, NEW q \in Requests, NEW r \in RequestStates, Begin(q, r),
         asked' \subseteq Contents
  PROVE  TypeOK'
<1>1. started' \in 0 .. MaxRequests
  BY MaxRequestsAssumption DEF TypeOK, Begin
<1> QED
  BY <1>1 DEF TypeOK, Begin, Become

LEMMA TypeAfterAppend ==
  ASSUME TypeOK, NEW q \in Requests, NEW r \in RequestStates, Become(q, r),
         NEW e \in Entries, log' = Append(log, e) \/ log' = log,
         UNCHANGED <<fresh, started, asked, records, effects>>
  PROVE  TypeOK'
<1>1. log' \in Seq(Entries)
  BY Appended DEF TypeOK
<1> QED
  BY <1>1 DEF TypeOK, Become

\* Every step keeps the types.
LEMMA TypeStep == IInv /\ [Next]_vars => TypeOK'
<1> SUFFICES ASSUME IInv, [Next]_vars PROVE TypeOK'
  OBVIOUS
<1> USE DEF IInv, TypeOK, Become
<1>0. \A q \in Requests : req[q] \in RequestStates
  OBVIOUS
<1>1. CASE \E c \in Changes : Create(c)
  BY <1>1, EntryShapes DEF Create
<1>2. CASE ContextMoves
  BY <1>2 DEF ContextMoves
<1>3. ASSUME NEW q \in Requests, NEW seen \in Shown, NEW c \in Changes,
             BeginRevise(q, seen, c)
      PROVE  TypeOK'
  BY <1>3, BeginTypes, ShownType, TypeAfterBegin DEF BeginRevise
<1>4. ASSUME NEW q \in Requests, BeginDecline(q) PROVE TypeOK'
  BY <1>4, BeginTypes, TypeAfterBegin DEF BeginDecline
<1>5. ASSUME NEW q \in Requests, NEW seen \in Shown, BeginConfirm(q, seen)
      PROVE  TypeOK'
  BY <1>5, BeginTypes, ShownType, TypeAfterBegin DEF BeginConfirm
<1>6. ASSUME NEW q \in Requests, RequestStep(q) PROVE TypeOK'
  <2>0. req[q].pc # "idle" => LatestRevision(log) \in Contents
    BY ActiveReads, LatestRevisionType
  <2>1. CASE ReadLatest(q)
    BY <1>0, <2>0, <2>1, RequestUpdates DEF ReadLatest, Steps
  <2>2. CASE ReadStatus(q)
    <3>1. LatestStatus(log) \in Dispositions \cup {"pending"}
      BY LatestStatusMeans DEF LogOK
    <3> QED
      BY <1>0, <2>2, <3>1, RequestUpdates DEF ReadStatus, Steps
  <2>3. CASE SettleRevise(q)
    <3>1. RevisionEntry(req[q].latest.revision + 1, req[q].changes) \in Entries
      <4>1. req[q].latest.revision \in Nat /\ req[q].changes \in Changes
        BY <1>0, RequestUpdates
      <4>2. req[q].latest.revision + 1 \in Nat
        BY <4>1
      <4> QED
        BY <4>1, <4>2, EntryShapes
    <3>2. log' = Append(log, RevisionEntry(req[q].latest.revision + 1, req[q].changes))
            \/ log' = log
      BY <2>3 DEF SettleRevise
    <3> QED
      BY <2>3, <3>1, <3>2, IdleType, TypeAfterAppend DEF SettleRevise, Finish
  <2>4. CASE SettleDecline(q)
    <3>1. DecisionEntry(req[q].latest) \in Entries
      BY <1>0, RequestUpdates, EntryShapes
    <3> QED
      BY <2>4, <3>1, IdleType, TypeAfterAppend DEF SettleDecline, Finish
  <2>5. CASE ConfirmRefused(q)
    BY <2>5, IdleType DEF ConfirmRefused, Finish
  <2>6. CASE ConfirmAgain(q)
    <3>1. Contains(log, Confirmation)
      BY <2>6, ExistingIsThere
    <3>2. LatestConfirmation(log) \in Contents
      BY <3>1, LastOfReturns, EntryShapes DEF LatestConfirmation, Confirmation, Types, LogOK
    <3> QED
      BY <1>0, <2>6, <3>2, RequestUpdates DEF ConfirmAgain, Steps
  <2>7. CASE ConfirmStale(q)
    <3>1. ConfirmationEntry(req[q].latest, "stale") \in Entries
      BY <1>0, RequestUpdates, EntryShapes
    <3> QED
      BY <2>7, <3>1, IdleType, TypeAfterAppend DEF ConfirmStale, Finish
  <2>8. CASE Confirm(q)
    <3>1. ConfirmationEntry(req[q].latest, "confirmed") \in Entries
      BY <1>0, RequestUpdates, EntryShapes
    <3> QED
      BY <1>0, <2>8, <3>1, RequestUpdates, TypeAfterAppend DEF Confirm, Goto, Steps
  <2>9. CASE CreateRecord(q)
    BY <1>0, <2>9, RequestUpdates DEF CreateRecord, Goto, Steps
  <2>10. CASE Execute(q)
    <3>1. ExecutedChanges(req[q].latest) \in Changes
      BY <1>0, <2>0, <2>10, RequestUpdates DEF Execute, At, ExecutedChanges, Contents
    <3>2. [record |-> req[q].latest, changes |-> ExecutedChanges(req[q].latest)] \in Effects
      BY <1>0, <3>1, RequestUpdates DEF Effects
    <3>3. \/ effects' = effects
          \/ effects' = Append(effects, [record |-> req[q].latest,
                                        changes |-> ExecutedChanges(req[q].latest)])
      BY <2>10 DEF Execute
    <3>4. effects' \in Seq(Effects)
      BY <3>2, <3>3, AppendProperties
    <3> QED
      BY <2>10, <3>4, IdleType DEF Execute, Finish
  <2> QED
    BY <1>6, <2>1, <2>2, <2>3, <2>4, <2>5, <2>6, <2>7, <2>8, <2>9, <2>10 DEF RequestStep
<1>7. CASE Crash
  BY <1>7, IdleType DEF Crash
<1>8. CASE UNCHANGED vars
  BY <1>8 DEF vars
<1> QED
  BY <1>1, <1>2, <1>3, <1>4, <1>5, <1>6, <1>7, <1>8 DEF Next

-----------------------------------------------------------------------------
(* The log and the confirmations.                                           *)

\* An append of another kind of entry, or none, changes nothing about the
\* confirmations of a log; no append takes a confirmation away.
LEMMA GrowthKeeps ==
  ASSUME log \in Seq(Entries), NEW e \in Entries, log' = log \/ log' = Append(log, e)
  PROVE  /\ \A i \in DOMAIN log : i \in DOMAIN log' /\ log'[i] = log[i]
         /\ \A c : Confirmed(log, c) => Confirmed(log', c)
         /\ e.type # "confirmation" =>
              \A i \in DOMAIN log' :
                log'[i].type = "confirmation" => i \in DOMAIN log /\ log'[i] = log[i]
<1>1. \A i \in DOMAIN log : i \in DOMAIN log' /\ log'[i] = log[i]
  BY Appended
<1>2. \A c : Confirmed(log, c) => Confirmed(log', c)
  BY <1>1 DEF Confirmed
<1>3. ASSUME e.type # "confirmation", NEW i \in DOMAIN log', log'[i].type = "confirmation"
      PROVE  i \in DOMAIN log /\ log'[i] = log[i]
  BY <1>3, Appended
<1> QED
  BY <1>1, <1>2, <1>3

\* A step of a request, or a context move, keeps LogOK: the log is not empty
\* while a request is in flight, and it only grows.
LEMMA LogAfterAppend ==
  ASSUME TypeOK, LogOK, log # <<>>,
         NEW e \in Entries, log' = log \/ log' = Append(log, e)
  PROVE  LogOK'
<1>1. HasLasts(log')
  BY AppendKeepsLasts DEF TypeOK, LogOK
<1>2. Contains(log', Revision)
  BY GrowthKeeps DEF TypeOK, LogOK, Contains
<1>3. log' # <<>>
  BY Appended DEF TypeOK
<1> QED
  BY <1>1, <1>2, <1>3 DEF LogOK

\* What ConfirmOK asks of the state r of one request.
RequestOK(r) ==
  /\ r.op = "confirm" => r.seen \in asked
  /\ r.op = "confirm" /\ r.pc = "settle" =>
       /\ r.status = "pending" => ~Contains(log, Confirmation)
       /\ r.status = "confirmed" => \E c \in Contents : Confirmed(log, c)
  /\ r.pc \in {"record", "execute"} => Confirmed(log, r.latest)

\* A step that appends no confirmation keeps ConfirmOK, if the request that
\* takes it confirms only when it did before and its new state is as it should.
LEMMA ConfirmAfterOther ==
  ASSUME TypeOK, ConfirmOK, NEW q \in Requests, NEW r \in RequestStates, Become(q, r),
         NEW e \in Entries, e.type # "confirmation", log' = log \/ log' = Append(log, e),
         r.op = "confirm" => req[q].op = "confirm",
         RequestOK(r), asked' = asked
  PROVE  ConfirmOK'
<1> USE DEF TypeOK
<1>1. \A p \in Requests : req'[p] = IF p = q THEN r ELSE req[p]
  BY DEF Become
<1>2. /\ \A c : Confirmed(log, c) => Confirmed(log', c)
      /\ \A i \in DOMAIN log' :
           log'[i].type = "confirmation" => i \in DOMAIN log /\ log'[i] = log[i]
  BY GrowthKeeps
<1>3. OneConfirmation'
  BY <1>2 DEF ConfirmOK, OneConfirmation
<1>4. \A p1, p2 \in Requests : req'[p1].op = "confirm" /\ req'[p2].op = "confirm" => p1 = p2
  BY <1>1 DEF ConfirmOK
<1>5. \A i \in DOMAIN log' : log'[i].type = "confirmation" => log'[i].content \in asked'
  BY <1>2 DEF ConfirmOK
<1>6. \A p \in Requests : req'[p].op = "confirm" => req'[p].seen \in asked'
  BY <1>1 DEF ConfirmOK, RequestOK
<1>7. ~Contains(log, Confirmation) => ~Contains(log', Confirmation)
  BY <1>2 DEF Contains, Confirmation
<1>8. \A p \in Requests : StatusHolds(p)'
  BY <1>1, <1>2, <1>7 DEF ConfirmOK, RequestOK, StatusHolds, At
<1>9. \A p \in Requests : req'[p].pc \in {"record", "execute"} => Confirmed(log', req'[p].latest)
  BY <1>1, <1>2 DEF ConfirmOK, RequestOK
<1> QED
  BY <1>3, <1>4, <1>5, <1>6, <1>8, <1>9 DEF ConfirmOK

\* Recording a decision of the confirm request keeps ConfirmOK: it found no
\* confirmation, and no other confirm request is in flight.
LEMMA ConfirmAfterDecision ==
  ASSUME TypeOK, ConfirmOK, NEW q \in Requests, NEW r \in RequestStates, Become(q, r),
         NEW status \in {"confirmed", "stale"},
         log' = Append(log, ConfirmationEntry(req[q].latest, status)),
         At(q, "confirm", "settle"), req[q].status = "pending",
         req[q].seen = req[q].latest, asked' = asked,
         \/ r = Idle
         \/ status = "confirmed" /\ r = [req[q] EXCEPT !.pc = "record"]
  PROVE  ConfirmOK'
<1> USE DEF TypeOK
<1> DEFINE e == ConfirmationEntry(req[q].latest, status)
<1>0. e \in Entries /\ e.type = "confirmation" /\ e.content = req[q].latest
  BY RequestUpdates, EntryShapes DEF ConfirmationEntry
<1>1. \A p \in Requests : req'[p] = IF p = q THEN r ELSE req[p]
  BY DEF Become
<1>2. /\ DOMAIN log' = 1 .. (Len(log) + 1) /\ DOMAIN log = 1 .. Len(log) /\ Len(log) \in Nat
      /\ \A i \in DOMAIN log : log'[i] = log[i]
      /\ log'[Len(log) + 1] = e
  BY <1>0, Appended
<1>3. ~Contains(log, Confirmation)
  BY DEF ConfirmOK, StatusHolds
<1>4. \A i \in DOMAIN log' : log'[i].type = "confirmation" => i = Len(log) + 1
  BY <1>2, <1>3 DEF Contains, Confirmation
<1>5. OneConfirmation'
  BY <1>4 DEF OneConfirmation
<1>6. /\ r.op = "confirm" => r.seen = req[q].seen
      /\ r.pc # "settle"
      /\ r.pc \in {"record", "execute"} => status = "confirmed" /\ r.latest = req[q].latest
  BY DEF Idle, RequestStates
<1>7. \A p1, p2 \in Requests : req'[p1].op = "confirm" /\ req'[p2].op = "confirm" => p1 = p2
  BY <1>1 DEF ConfirmOK, At
<1>8. \A i \in DOMAIN log' : log'[i].type = "confirmation" => log'[i].content \in asked'
  BY <1>0, <1>2, <1>4 DEF ConfirmOK, At
<1>9. \A p \in Requests : req'[p].op = "confirm" => req'[p].seen \in asked'
  BY <1>1, <1>6 DEF ConfirmOK, At
<1>10. \A p \in Requests : StatusHolds(p)'
  BY <1>1, <1>6 DEF ConfirmOK, StatusHolds, At
<1>11. \A p \in Requests : req'[p].pc \in {"record", "execute"} => Confirmed(log', req'[p].latest)
  <2>1. \A c : Confirmed(log, c) => Confirmed(log', c)
    BY <1>0, GrowthKeeps
  <2>2. status = "confirmed" => Confirmed(log', req[q].latest)
    <3>1. Len(log) + 1 \in DOMAIN log'
      BY <1>2
    <3>2. status = "confirmed" => log'[Len(log) + 1] = ConfirmationEntry(req[q].latest, "confirmed")
      BY <1>2
    <3> QED
      BY <3>1, <3>2, <1>0 DEF Confirmed
  <2> QED
    BY <1>1, <1>6, <2>1, <2>2 DEF ConfirmOK
<1> QED
  BY <1>5, <1>7, <1>8, <1>9, <1>10, <1>11 DEF ConfirmOK


\* What the steps of a request append to the log: nothing, or one entry.
LEMMA RequestAppends ==
  ASSUME IInv, NEW q \in Requests, RequestStep(q)
  PROVE  /\ log # <<>>
         /\ \E e \in Entries : log' = log \/ log' = Append(log, e)
<1>1. req[q].pc # "idle"
  BY DEF RequestStep, ReadLatest, ReadStatus, SettleRevise, SettleDecline, ConfirmRefused,
         ConfirmAgain, ConfirmStale, Confirm, CreateRecord, Execute, At
<1>2. log # <<>>
  BY <1>1 DEF IInv, LogOK
<1>3. req[q] \in RequestStates
  BY DEF IInv, TypeOK
<1>4. DecisionEntry(req[q].latest) \in Entries
  BY <1>3, RequestUpdates, EntryShapes
<1>5. CASE SettleRevise(q)
  <2>1. req[q].latest.revision \in Nat /\ req[q].changes \in Changes
    BY <1>3, RequestUpdates
  <2>2. req[q].latest.revision + 1 \in Nat
    BY <2>1
  <2>3. RevisionEntry(req[q].latest.revision + 1, req[q].changes) \in Entries
    BY <2>1, <2>2, EntryShapes
  <2> QED
    BY <1>2, <1>5, <2>3 DEF SettleRevise
<1>6. CASE SettleDecline(q)
  BY <1>2, <1>4, <1>6 DEF SettleDecline
<1>7. CASE ConfirmStale(q) \/ Confirm(q)
  <2>1. \A s \in {"confirmed", "stale"} : ConfirmationEntry(req[q].latest, s) \in Entries
    BY <1>3, RequestUpdates, EntryShapes
  <2> QED
    BY <1>2, <1>7, <2>1 DEF ConfirmStale, Confirm
<1>8. CASE \/ ReadLatest(q) \/ ReadStatus(q) \/ ConfirmRefused(q)
           \/ ConfirmAgain(q) \/ CreateRecord(q) \/ Execute(q)
  BY <1>2, <1>4, <1>8 DEF ReadLatest, ReadStatus, ConfirmRefused, ConfirmAgain,
                         CreateRecord, Execute
<1> QED
  BY <1>5, <1>6, <1>7, <1>8 DEF RequestStep

\* Every step keeps LogOK.
LEMMA LogStep == IInv /\ [Next]_vars => LogOK'
<1> SUFFICES ASSUME IInv, [Next]_vars PROVE LogOK'
  OBVIOUS
<1>1. ASSUME NEW c \in Changes, Create(c) PROVE LogOK'
  <2> DEFINE e == RevisionEntry(1, c)
  <2>1. log' = <<e>> /\ log' # <<>> /\ DOMAIN log' = {1} /\ log'[1] = e
    BY <1>1 DEF Create
  <2>2. HasLasts(log')
    BY <2>1 DEF HasLasts, Contains, IsLast
  <2>3. Contains(log', Revision)
    BY <2>1 DEF Contains, Revision, RevisionEntry
  <2> QED
    BY <2>1, <2>2, <2>3 DEF LogOK
<1>2. CASE ContextMoves
  BY <1>2 DEF ContextMoves, LogOK, IInv
<1>3. ASSUME NEW q \in Requests, NEW r, Begin(q, r), log # <<>> PROVE LogOK'
  BY <1>3 DEF Begin, LogOK, IInv
<1>4. (\E seen \in Shown : TRUE) => log # <<>>
  BY DEF Shown
<1>5. CASE \E q \in Requests, seen \in Shown, c \in Changes : BeginRevise(q, seen, c)
  BY <1>3, <1>4, <1>5 DEF BeginRevise
<1>6. CASE \E q \in Requests : BeginDecline(q)
  BY <1>3, <1>6 DEF BeginDecline
<1>7. CASE \E q \in Requests, seen \in Shown : BeginConfirm(q, seen)
  BY <1>3, <1>4, <1>7 DEF BeginConfirm
<1>8. CASE \E q \in Requests : RequestStep(q)
  BY <1>8, RequestAppends, LogAfterAppend DEF IInv
<1>9. CASE Crash
  BY <1>9 DEF Crash, Idle, LogOK, IInv
<1>10. CASE UNCHANGED vars
  BY <1>10 DEF vars, LogOK, IInv
<1> QED
  BY <1>1, <1>2, <1>5, <1>6, <1>7, <1>8, <1>9, <1>10 DEF Next

\* A request that begins keeps ConfirmOK if no other confirm is in flight when
\* it is one, and if the content it submits joins those asked for.
LEMMA ConfirmAfterBegin ==
  ASSUME TypeOK, ConfirmOK, NEW q \in Requests, NEW r \in RequestStates, Begin(q, r),
         r.pc = "readLatest", asked \subseteq asked',
         r.op = "confirm" => LoopFree /\ r.seen \in asked'
  PROVE  ConfirmOK'
<1>1. \A p \in Requests : req'[p] = IF p = q THEN r ELSE req[p]
  BY DEF Begin, Become, TypeOK
<1>2. log' = log
  BY DEF Begin
<1>3. OneConfirmation'
  BY <1>2 DEF ConfirmOK, OneConfirmation
<1>4. \A p1, p2 \in Requests : req'[p1].op = "confirm" /\ req'[p2].op = "confirm" => p1 = p2
  BY <1>1 DEF ConfirmOK, LoopFree
<1>5. \A i \in DOMAIN log' : log'[i].type = "confirmation" => log'[i].content \in asked'
  BY <1>2 DEF ConfirmOK
<1>6. \A p \in Requests : req'[p].op = "confirm" => req'[p].seen \in asked'
  BY <1>1 DEF ConfirmOK
<1>7. \A p \in Requests : StatusHolds(p)'
  BY <1>1, <1>2 DEF ConfirmOK, StatusHolds, At
<1>8. \A p \in Requests : req'[p].pc \in {"record", "execute"} => Confirmed(log', req'[p].latest)
  BY <1>1, <1>2 DEF ConfirmOK
<1> QED
  BY <1>3, <1>4, <1>5, <1>6, <1>7, <1>8 DEF ConfirmOK

\* ConfirmOK depends on the log, the requests and the contents asked for alone.
LEMMA ConfirmUnchanged == ConfirmOK /\ UNCHANGED <<log, req, asked>> => ConfirmOK'
<1> SUFFICES ASSUME ConfirmOK, UNCHANGED <<log, req, asked>> PROVE ConfirmOK'
  OBVIOUS
<1>1. OneConfirmation'
  BY DEF ConfirmOK, OneConfirmation
<1>2. \A p \in Requests : StatusHolds(p)'
  BY DEF ConfirmOK, StatusHolds, At
<1> QED
  BY <1>1, <1>2 DEF ConfirmOK

\* Every step of a request keeps ConfirmOK.
LEMMA ConfirmRequestStep ==
  ASSUME IInv, NEW q \in Requests, RequestStep(q)
  PROVE  ConfirmOK'
<1> USE DEF IInv
<1>1. req[q] \in RequestStates
  BY DEF TypeOK
<1>2. \A c \in Contents : DecisionEntry(c) \in Entries
  BY EntryShapes
<1>3. \E e \in Entries : e.type # "confirmation"
  BY <1>1, <1>2, RequestUpdates DEF DecisionEntry
<1>4. RequestOK(req[q]) /\ RequestOK(Idle) /\ Idle \in RequestStates /\ Idle.op # "confirm"
  BY IdleType DEF ConfirmOK, StatusHolds, RequestOK, At, Idle
<1>5. CASE ReadLatest(q)
  <2> DEFINE r == [req[q] EXCEPT !.latest = LatestRevision(log), !.pc = "readStatus"]
  <2>1. LatestRevision(log) \in Contents
    BY <1>5, ActiveReads, LatestRevisionType DEF ReadLatest
  <2>2. r \in RequestStates /\ r.op = req[q].op /\ r.seen = req[q].seen /\ r.pc = "readStatus"
    BY <1>1, <2>1 DEF RequestStates, Steps
  <2>3. RequestOK(r)
    BY <1>4, <2>2 DEF RequestOK
  <2> QED
    BY <1>3, <1>5, <2>2, <2>3, ConfirmAfterOther DEF ReadLatest
<1>6. CASE ReadStatus(q)
  <2> DEFINE r == [req[q] EXCEPT !.status = LatestStatus(log), !.pc = "settle"]
  <2>1. /\ LatestStatus(log) \in Dispositions \cup {"pending"}
        /\ LatestStatus(log) = "pending" => ~Contains(log, Confirmation)
        /\ LatestStatus(log) = "confirmed" => \E c \in Contents : Confirmed(log, c)
    BY LatestStatusMeans DEF TypeOK, LogOK, Confirmed
  <2>2. /\ r \in RequestStates /\ r.op = req[q].op /\ r.seen = req[q].seen
        /\ r.pc = "settle" /\ r.status = LatestStatus(log)
    BY <1>1, <2>1 DEF RequestStates, Steps
  <2>3. RequestOK(r)
    BY <1>4, <2>1, <2>2 DEF RequestOK
  <2> QED
    BY <1>3, <1>6, <2>2, <2>3, ConfirmAfterOther DEF ReadStatus
<1>7. CASE SettleRevise(q)
  <2> DEFINE e == RevisionEntry(req[q].latest.revision + 1, req[q].changes)
  <2>1. req[q].latest.revision \in Nat /\ req[q].changes \in Changes
    BY <1>1, RequestUpdates
  <2>2. req[q].latest.revision + 1 \in Nat
    BY <2>1
  <2>3. e \in Entries /\ e.type # "confirmation"
    BY <2>1, <2>2, EntryShapes DEF RevisionEntry
  <2>4. log' = log \/ log' = Append(log, e)
    BY <1>7 DEF SettleRevise
  <2> QED
    BY <1>4, <1>7, <2>3, <2>4, ConfirmAfterOther DEF SettleRevise, Finish
<1>8. CASE SettleDecline(q)
  <2> DEFINE e == DecisionEntry(req[q].latest)
  <2>1. e \in Entries /\ e.type # "confirmation"
    BY <1>1, RequestUpdates, EntryShapes DEF DecisionEntry
  <2>2. log' = log \/ log' = Append(log, e)
    BY <1>8 DEF SettleDecline
  <2> QED
    BY <1>4, <1>8, <2>1, <2>2, ConfirmAfterOther DEF SettleDecline, Finish
<1>9. CASE ConfirmRefused(q) \/ Execute(q)
  BY <1>3, <1>4, <1>9, ConfirmAfterOther DEF ConfirmRefused, Execute, Finish
<1>10. CASE ConfirmAgain(q)
  <2> DEFINE r == [req[q] EXCEPT !.latest = LatestConfirmation(log), !.pc = "record"]
  <2>1. Contains(log, Confirmation) /\ Confirmed(log, LatestConfirmation(log))
    BY <1>10, ExistingIsThere
  <2>2. LatestConfirmation(log) \in Contents
    BY <2>1, LastOfReturns, EntryShapes
       DEF LatestConfirmation, Confirmation, Types, LogOK, TypeOK
  <2>3. /\ r \in RequestStates /\ r.op = req[q].op /\ r.seen = req[q].seen
        /\ r.pc = "record" /\ r.latest = LatestConfirmation(log)
    BY <1>1, <2>2 DEF RequestStates, Steps
  <2>4. RequestOK(r)
    BY <1>4, <2>1, <2>3 DEF RequestOK
  <2> QED
    BY <1>3, <1>10, <2>3, <2>4, ConfirmAfterOther DEF ConfirmAgain, At
<1>11. CASE ConfirmStale(q) \/ Confirm(q)
  <2>1. req[q].status = "pending" /\ req[q].seen = req[q].latest
    <3>1. ConfirmOutcome(req[q]) \in {"stale", "confirmed"}
      BY <1>11 DEF ConfirmStale, Confirm
    <3> QED
      BY <3>1 DEF ConfirmOutcome
  <2>2. [req[q] EXCEPT !.pc = "record"] \in RequestStates
    BY <1>1, RequestUpdates DEF Steps
  <2> QED
    BY <1>4, <1>11, <2>1, <2>2, ConfirmAfterDecision DEF ConfirmStale, Confirm, Finish, Goto
<1>12. CASE CreateRecord(q)
  <2> DEFINE r == [req[q] EXCEPT !.pc = "execute"]
  <2>1. /\ r \in RequestStates /\ r.op = req[q].op /\ r.seen = req[q].seen
        /\ r.pc = "execute" /\ r.latest = req[q].latest
    BY <1>1 DEF RequestStates, Steps
  <2>2. RequestOK(r)
    BY <1>4, <1>12, <2>1 DEF RequestOK, CreateRecord, At
  <2> QED
    BY <1>3, <1>12, <2>1, <2>2, ConfirmAfterOther DEF CreateRecord, Goto, At
<1> QED
  BY <1>5, <1>6, <1>7, <1>8, <1>9, <1>10, <1>11, <1>12 DEF RequestStep

\* Every step keeps ConfirmOK.
LEMMA ConfirmStep == IInv /\ [Next]_vars => ConfirmOK'
<1> SUFFICES ASSUME IInv, [Next]_vars PROVE ConfirmOK'
  OBVIOUS
<1> USE DEF IInv
<1>1. ASSUME NEW c \in Changes, Create(c) PROVE ConfirmOK'
  <2>1. /\ \A i \in DOMAIN log' : log'[i].type # "confirmation"
        /\ req' = req /\ asked' = asked /\ log = <<>>
    BY <1>1 DEF Create, RevisionEntry
  <2>2. OneConfirmation'
    BY <2>1 DEF OneConfirmation
  <2>3. \A q \in Requests : req[q].pc = "idle"
    BY <2>1 DEF LogOK
  <2>4. \A p \in Requests : StatusHolds(p)'
    BY <2>1, <2>3 DEF StatusHolds, At
  <2> QED
    BY <2>1, <2>2, <2>3, <2>4 DEF ConfirmOK
<1>2. CASE ContextMoves \/ UNCHANGED vars
  BY <1>2, ConfirmUnchanged DEF ContextMoves, vars
<1>3. ASSUME NEW q \in Requests, NEW seen \in Shown, NEW c \in Changes,
             BeginRevise(q, seen, c)
      PROVE  ConfirmOK'
  <2> DEFINE r == [Idle EXCEPT !.op = "revise", !.pc = "readLatest",
                               !.seen = seen, !.changes = c]
  <2>1. r \in RequestStates
    BY BeginTypes, ShownType DEF TypeOK
  <2>2. r.op = "revise" /\ r.pc = "readLatest"
    BY DEF Idle
  <2> QED
    BY <1>3, <2>1, <2>2, ConfirmAfterBegin DEF BeginRevise
<1>4. ASSUME NEW q \in Requests, BeginDecline(q) PROVE ConfirmOK'
  <2> DEFINE r == [Idle EXCEPT !.op = "decline", !.pc = "readLatest"]
  <2>1. r \in RequestStates
    BY BeginTypes
  <2>2. r.op = "decline" /\ r.pc = "readLatest"
    BY DEF Idle
  <2> QED
    BY <1>4, <2>1, <2>2, ConfirmAfterBegin DEF BeginDecline
<1>5. ASSUME NEW q \in Requests, NEW seen \in Shown, BeginConfirm(q, seen)
      PROVE  ConfirmOK'
  <2> DEFINE r == [Idle EXCEPT !.op = "confirm", !.pc = "readLatest",
                               !.seen = seen, !.fresh = fresh]
  <2>1. r \in RequestStates
    BY BeginTypes, ShownType DEF TypeOK
  <2>2. r.op = "confirm" /\ r.pc = "readLatest" /\ r.seen = seen
    BY DEF Idle
  <2>3. Begin(q, r) /\ LoopFree /\ asked \subseteq asked' /\ r.seen \in asked'
    BY <1>5, <2>2 DEF BeginConfirm
  <2> HIDE DEF r
  <2> QED
    BY <2>1, <2>2, <2>3, ConfirmAfterBegin
<1>6. CASE \E q \in Requests : RequestStep(q)
  BY <1>6, ConfirmRequestStep
<1>7. CASE Crash
  <2>1. /\ log' = log /\ asked' = asked
        /\ \A p \in Requests : req'[p].op = "none" /\ req'[p].pc = "idle"
    BY <1>7 DEF Crash, Idle
  <2>2. OneConfirmation'
    BY <2>1 DEF ConfirmOK, OneConfirmation
  <2>3. \A p \in Requests : StatusHolds(p)'
    BY <2>1 DEF StatusHolds, At
  <2> QED
    BY <2>1, <2>2, <2>3 DEF ConfirmOK
<1> QED
  BY <1>1, <1>2, <1>3, <1>4, <1>5, <1>6, <1>7 DEF Next

-----------------------------------------------------------------------------
(* The executions.                                                          *)

\* A confirmation stays in the log.
LEMMA ConfirmationStays ==
  ASSUME IInv, [Next]_vars, NEW c, Confirmed(log, c)
  PROVE  Confirmed(log', c)
<1> USE DEF IInv
<1>1. CASE \E d \in Changes : Create(d)
  BY <1>1 DEF Create, Confirmed
<1>2. CASE \E q \in Requests : RequestStep(q)
  BY <1>2, RequestAppends, GrowthKeeps DEF TypeOK
<1>3. CASE log' = log
  BY <1>3
<1> QED
  BY <1>1, <1>2, <1>3
     DEF Next, ContextMoves, BeginRevise, BeginDecline, BeginConfirm, Begin, Crash, vars

\* Two confirmed contents of a log with one confirmation are the same content.
LEMMA ConfirmedIsUnique ==
  ASSUME OneConfirmation, NEW c, NEW d, Confirmed(log, c), Confirmed(log, d)
  PROVE  c = d
  BY DEF OneConfirmation, Confirmed, ConfirmationEntry

\* Only Execute adds an effect, and only if there is none of its record yet.
LEMMA EffectGrows ==
  ASSUME [Next]_vars
  PROVE  \/ effects' = effects
         \/ \E q \in Requests :
              /\ req[q].pc = "execute"
              /\ ~Executed(req[q].latest)
              /\ log' = log /\ asked' = asked
              /\ effects' = Append(effects, [record  |-> req[q].latest,
                                             changes |-> ExecutedChanges(req[q].latest)])
  BY DEF Next, Create, ContextMoves, BeginRevise, BeginDecline, BeginConfirm, Begin, Crash,
         vars, RequestStep, ReadLatest, ReadStatus, SettleRevise, SettleDecline,
         ConfirmRefused, ConfirmAgain, ConfirmStale, Confirm, CreateRecord, Execute, At

\* Every step keeps EffectOK: a second effect would be of a second confirmed
\* content, and there is only one confirmation.
LEMMA EffectStep == IInv /\ [Next]_vars => EffectOK'
<1> SUFFICES ASSUME IInv, [Next]_vars PROVE EffectOK'
  OBVIOUS
<1>1. CASE effects' = effects
  BY <1>1, ConfirmationStays DEF IInv, EffectOK, OneEffect
<1>2. ASSUME NEW q \in Requests, req[q].pc = "execute", ~Executed(req[q].latest), log' = log,
             effects' = Append(effects, [record  |-> req[q].latest,
                                         changes |-> ExecutedChanges(req[q].latest)])
      PROVE  EffectOK'
  <2> DEFINE e == [record |-> req[q].latest, changes |-> ExecutedChanges(req[q].latest)]
  <2>1. Confirmed(log, req[q].latest)
    BY <1>2 DEF IInv, ConfirmOK
  <2>2. \A k \in DOMAIN effects : effects[k].record = req[q].latest
    BY <2>1, ConfirmedIsUnique DEF IInv, EffectOK, ConfirmOK
  <2>3. DOMAIN effects = {}
    BY <1>2, <2>2 DEF Executed
  <2>4. effects = <<>>
    BY <2>3, EmptySeq DEF IInv, TypeOK
  <2>5. Len(effects') = 1 /\ DOMAIN effects' = {1} /\ effects'[1] = e
    BY <1>2, <2>4
  <2> QED
    BY <1>2, <2>1, <2>5 DEF EffectOK, OneEffect
<1> QED
  BY <1>1, <1>2, EffectGrows

-----------------------------------------------------------------------------
(* The promise of a proposal, for a handler that executes the record.       *)

\* An effect carries out the changes of its record.
RecordedChanges == \A k \in DOMAIN effects : effects[k].changes = effects[k].record.changes

\* An execution is of an operation that was recorded.
RecordedFirst == \A q \in Requests : req[q].pc = "execute" => req[q].latest \in records

\* Records are only added, by the request that goes on to execute.
LEMMA RecordedFirstStep ==
  ASSUME IInv, RecordedFirst, [Next]_vars
  PROVE  RecordedFirst'
<1>1. CASE UNCHANGED <<req, records>>
  BY <1>1 DEF RecordedFirst
<1>2. ASSUME NEW q \in Requests, NEW r \in RequestStates, Become(q, r),
             records \subseteq records', r.pc = "execute" => r.latest \in records'
      PROVE  RecordedFirst'
  <2>1. \A p \in Requests : req'[p] = IF p = q THEN r ELSE req[p]
    BY <1>2 DEF Become, IInv, TypeOK
  <2> QED
    BY <1>2, <2>1 DEF RecordedFirst
<1>3. ASSUME NEW q \in Requests, NEW r \in RequestStates, Begin(q, r), r.pc = "readLatest"
      PROVE  RecordedFirst'
  BY <1>2, <1>3 DEF Begin
<1>4. ASSUME NEW q \in Requests, RequestStep(q)
      PROVE  RecordedFirst'
  <2>1. req[q] \in RequestStates
    BY DEF IInv, TypeOK
  <2>2. CASE SettleRevise(q) \/ SettleDecline(q) \/ ConfirmRefused(q) \/ ConfirmStale(q) \/ Execute(q)
    BY <1>2, <2>2, IdleType
       DEF SettleRevise, SettleDecline, ConfirmRefused, ConfirmStale, Execute, Finish, Idle
  <2>3. CASE ReadLatest(q)
    <3>1. [req[q] EXCEPT !.latest = LatestRevision(log), !.pc = "readStatus"] \in RequestStates
      BY <2>1, <2>3, ActiveReads, LatestRevisionType, RequestUpdates DEF ReadLatest, Steps
    <3> QED
      BY <1>2, <2>1, <2>3, <3>1 DEF ReadLatest, RequestStates
  <2>4. CASE ReadStatus(q)
    <3>1. [req[q] EXCEPT !.status = LatestStatus(log), !.pc = "settle"] \in RequestStates
      BY <2>1, <2>4, ActiveReads, LatestStatusMeans, RequestUpdates DEF ReadStatus, Steps
    <3> QED
      BY <1>2, <2>1, <2>4, <3>1 DEF ReadStatus, RequestStates
  <2>5. CASE ConfirmAgain(q)
    <3>1. LatestConfirmation(log) \in Contents
      BY <2>5, ExistingIsThere, LastOfReturns, EntryShapes
         DEF LatestConfirmation, Confirmation, Types, IInv, TypeOK, LogOK
    <3>2. [req[q] EXCEPT !.latest = LatestConfirmation(log), !.pc = "record"] \in RequestStates
      BY <2>1, <3>1, RequestUpdates DEF Steps
    <3> QED
      BY <1>2, <2>1, <2>5, <3>2 DEF ConfirmAgain, RequestStates
  <2>6. CASE Confirm(q)
    <3>1. [req[q] EXCEPT !.pc = "record"] \in RequestStates
      BY <2>1, RequestUpdates DEF Steps
    <3> QED
      BY <1>2, <2>1, <2>6, <3>1 DEF Confirm, Goto, RequestStates
  <2>7. CASE CreateRecord(q)
    <3>1. [req[q] EXCEPT !.pc = "execute"] \in RequestStates
      BY <2>1, RequestUpdates DEF Steps
    <3>2. [req[q] EXCEPT !.pc = "execute"].latest = req[q].latest
      BY <2>1 DEF RequestStates
    <3>3. /\ Become(q, [req[q] EXCEPT !.pc = "execute"])
          /\ records \subseteq records' /\ req[q].latest \in records'
      BY <2>7 DEF CreateRecord, Goto
    <3> QED
      BY <1>2, <3>1, <3>2, <3>3
  <2> QED
    BY <1>4, <2>2, <2>3, <2>4, <2>5, <2>6, <2>7 DEF RequestStep
<1>5. Shown \subseteq Contents /\ fresh \in BOOLEAN
  BY ShownType DEF IInv, TypeOK
<1>6. CASE \E q \in Requests, seen \in Shown, c \in Changes : BeginRevise(q, seen, c)
  <2>1. PICK q \in Requests, seen \in Shown, c \in Changes : BeginRevise(q, seen, c)
    BY <1>6
  <2> DEFINE r == [Idle EXCEPT !.op = "revise", !.pc = "readLatest",
                              !.seen = seen, !.changes = c]
  <2>2. r \in RequestStates /\ r.pc = "readLatest"
    BY <1>5, BeginTypes DEF Idle
  <2>3. Begin(q, r)
    BY <2>1 DEF BeginRevise
  <2> QED
    BY <1>3, <2>2, <2>3
<1>7. CASE \E q \in Requests : BeginDecline(q)
  <2> DEFINE r == [Idle EXCEPT !.op = "decline", !.pc = "readLatest"]
  <2>1. r \in RequestStates /\ r.pc = "readLatest"
    BY BeginTypes DEF Idle
  <2> QED
    BY <1>3, <1>7, <2>1 DEF BeginDecline
<1>8. CASE \E q \in Requests, seen \in Shown : BeginConfirm(q, seen)
  <2>1. PICK q \in Requests, seen \in Shown : BeginConfirm(q, seen)
    BY <1>8
  <2> DEFINE r == [Idle EXCEPT !.op = "confirm", !.pc = "readLatest",
                              !.seen = seen, !.fresh = fresh]
  <2>2. r \in RequestStates /\ r.pc = "readLatest"
    BY <1>5, BeginTypes DEF Idle
  <2>3. Begin(q, r)
    BY <2>1 DEF BeginConfirm
  <2> QED
    BY <1>3, <2>2, <2>3
<1>9. CASE Crash
  BY <1>9 DEF Crash, Idle, RecordedFirst
<1> QED
  BY <1>1, <1>4, <1>6, <1>7, <1>8, <1>9 DEF Next, Create, ContextMoves, vars

\* A record that is executed carries its own changes.
LEMMA RecordedChangesStep ==
  ASSUME EffectSource = "record", IInv, RecordedChanges, [Next]_vars
  PROVE  RecordedChanges'
<1>1. CASE effects' = effects
  BY <1>1 DEF RecordedChanges
<1>2. ASSUME NEW q \in Requests,
             effects' = Append(effects, [record  |-> req[q].latest,
                                         changes |-> ExecutedChanges(req[q].latest)])
      PROVE  RecordedChanges'
  <2>1. ExecutedChanges(req[q].latest) = req[q].latest.changes
    BY DEF ExecutedChanges
  <2>2. effects \in Seq(Effects)
    BY DEF IInv, TypeOK
  <2> QED
    BY <1>2, <2>1, <2>2 DEF RecordedChanges
<1> QED
  BY <1>1, <1>2, EffectGrows

\* The content that the abstract specification sees as executed.
Executions == [k \in DOMAIN effects |-> Done(effects[k])]

\* An entry that is no confirmation decides nothing.
LEMMA DecisionsStay ==
  ASSUME log \in Seq(Entries), NEW e \in Entries, e.type # "confirmation",
         log' = log \/ log' = Append(log, e)
  PROVE  Decisions' = Decisions
<1>1. \A i \in DOMAIN log : i \in DOMAIN log' /\ log'[i] = log[i]
  BY GrowthKeeps
<1>2. \A i \in DOMAIN log' : log'[i].type = "confirmation" => i \in DOMAIN log /\ log'[i] = log[i]
  BY GrowthKeeps
<1> QED
  BY <1>1, <1>2 DEF Decisions

\* The first confirmation entry is the decision.
LEMMA DecisionIsMade ==
  ASSUME log \in Seq(Entries), ~Contains(log, Confirmation), NEW c \in Contents,
         NEW status \in {"confirmed", "stale"}, log' = Append(log, ConfirmationEntry(c, status))
  PROVE  /\ Decisions = {}
         /\ Decisions' = {[content |-> c, status |-> status]}
<1> DEFINE e == ConfirmationEntry(c, status)
<1>1. e \in Entries /\ e.type = "confirmation" /\ e.content = c /\ e.status = status
  BY EntryShapes DEF ConfirmationEntry
<1> HIDE DEF e
<1>2. /\ DOMAIN log' = 1 .. (Len(log) + 1) /\ DOMAIN log = 1 .. Len(log) /\ Len(log) \in Nat
      /\ \A i \in DOMAIN log : log'[i] = log[i]
      /\ log'[Len(log) + 1] = e
  BY <1>1, Appended DEF e
<1>3. \A i \in DOMAIN log : log[i].type # "confirmation"
  BY DEF Contains, Confirmation
<1>4. {j \in DOMAIN log' : log'[j].type = "confirmation"} = {Len(log) + 1}
  BY <1>1, <1>2, <1>3
<1> QED
  BY <1>1, <1>2, <1>3, <1>4 DEF Decisions

\* What a request does to the log, the records and the effects is a step of the
\* abstract specification, or none.
LEMMA PromiseRequestStep ==
  ASSUME EffectSource = "record", IInv, RecordedFirst, NEW q \in Requests, RequestStep(q)
  PROVE  [Promise!Next]_(Promise!vars)
<1> DEFINE c == req[q].latest
<1>1. /\ req[q] \in RequestStates /\ c \in Contents /\ log \in Seq(Entries)
      /\ req[q].changes \in Changes /\ c.revision \in Nat /\ c.changes \in Changes
  BY RequestUpdates DEF IInv, TypeOK
<1>2. ASSUME UNCHANGED <<asked, records, effects>>, Decisions' = Decisions
      PROVE  [Promise!Next]_(Promise!vars)
  BY <1>2 DEF Promise!vars
<1>3. CASE SettleRevise(q)
  <2>1. /\ RevisionEntry(c.revision + 1, req[q].changes) \in Entries
        /\ RevisionEntry(c.revision + 1, req[q].changes).type # "confirmation"
    BY <1>1, EntryShapes DEF RevisionEntry
  <2> QED
    BY <1>1, <1>2, <1>3, <2>1, DecisionsStay DEF SettleRevise
<1>4. CASE SettleDecline(q)
  <2>1. DecisionEntry(c) \in Entries /\ DecisionEntry(c).type # "confirmation"
    BY <1>1, EntryShapes DEF DecisionEntry
  <2> QED
    BY <1>1, <1>2, <1>4, <2>1, DecisionsStay DEF SettleDecline
<1>5. CASE ReadLatest(q) \/ ReadStatus(q) \/ ConfirmRefused(q) \/ ConfirmAgain(q)
  BY <1>2, <1>5 DEF ReadLatest, ReadStatus, ConfirmRefused, ConfirmAgain, Decisions
<1>6. ASSUME NEW status \in {"confirmed", "stale"}, At(q, "confirm", "settle"),
             req[q].status = "pending", req[q].seen = c,
             log' = Append(log, ConfirmationEntry(c, status)),
             UNCHANGED <<asked, records, effects>>
      PROVE  [Promise!Next]_(Promise!vars)
  <2>1. c \in asked /\ ~Contains(log, Confirmation)
    BY <1>6 DEF IInv, ConfirmOK, StatusHolds, At
  <2>2. Decisions = {} /\ Decisions' = {[content |-> c, status |-> status]}
    BY <1>1, <1>6, <2>1, DecisionIsMade
  <2>3. Promise!Decide(c, status)
    BY <1>6, <2>1, <2>2 DEF Promise!Decide
  <2> QED
    BY <2>1, <2>3 DEF Promise!Next
<1>7. CASE ConfirmStale(q)
  BY <1>1, <1>6, <1>7 DEF ConfirmStale, ConfirmOutcome
<1>8. CASE Confirm(q)
  BY <1>1, <1>6, <1>8 DEF Confirm, ConfirmOutcome
<1>9. CASE CreateRecord(q)
  <2>1. Confirmed(log, c)
    BY <1>9 DEF CreateRecord, At, IInv, ConfirmOK
  <2>2. c \in asked /\ [content |-> c, status |-> "confirmed"] \in Decisions
    BY <2>1 DEF Confirmed, ConfirmationEntry, Decisions, IInv, ConfirmOK
  <2>3. Promise!Record(c)
    BY <1>9, <2>2 DEF CreateRecord, Promise!Record, Promise!Confirmed, Decisions
  <2> QED
    BY <2>2, <2>3 DEF Promise!Next
<1>10. CASE Execute(q)
  <2>1. c \in records
    BY <1>10 DEF Execute, At, RecordedFirst
  <2>2. CASE Executed(c)
    BY <1>2, <1>10, <2>2 DEF Execute, Decisions
  <2>3. CASE ~Executed(c)
    <3> DEFINE e == [record |-> c, changes |-> ExecutedChanges(c)]
    <3>1. UNCHANGED <<log, asked, records>> /\ effects' = Append(effects, e)
      BY <1>10, <2>3 DEF Execute
    <3>2. Confirmed(log, c)
      BY <1>10 DEF Execute, At, IInv, ConfirmOK
    <3>3. \A k \in DOMAIN effects : effects[k].record = c
      BY <3>2, ConfirmedIsUnique DEF IInv, EffectOK, ConfirmOK
    <3>4. effects = <<>>
      BY <2>3, <3>3, EmptySeq DEF Executed, IInv, TypeOK
    <3>5. Done(e) = c
      BY <1>1 DEF Done, ExecutedChanges, Contents
    <3>6. Executions = <<>> /\ Executions' = <<c>>
      BY <3>1, <3>4, <3>5 DEF Executions
    <3>7. Promise!Execute(c)
      BY <2>1, <3>1, <3>6 DEF Promise!Execute, Executions, Decisions
    <3> QED
      BY <2>1, <3>7 DEF Promise!Next
  <2> QED
    BY <2>2, <2>3
<1> QED
  BY <1>3, <1>4, <1>5, <1>7, <1>8, <1>9, <1>10 DEF RequestStep

LEMMA PromiseSteps ==
  ASSUME EffectSource = "record", IInv, RecordedFirst, [Next]_vars
  PROVE  [Promise!Next]_(Promise!vars)
<1>1. ASSUME UNCHANGED <<log, asked, records, effects>>
      PROVE  [Promise!Next]_(Promise!vars)
  BY <1>1 DEF Promise!vars, Decisions
<1>2. ASSUME NEW d \in Changes, Create(d)
      PROVE  [Promise!Next]_(Promise!vars)
  <2>1. Decisions = {} /\ Decisions' = {}
    BY <1>2 DEF Create, Decisions, RevisionEntry
  <2> QED
    BY <1>2, <2>1 DEF Create, Promise!vars
<1>3. ASSUME NEW q \in Requests, NEW seen \in Shown, BeginConfirm(q, seen)
      PROVE  [Promise!Next]_(Promise!vars)
  <2>1. asked' = asked \cup {seen} /\ UNCHANGED <<log, records, effects>>
    BY <1>3 DEF BeginConfirm, Begin
  <2>2. Promise!Ask
    BY <2>1 DEF Promise!Ask, Decisions
  <2> QED
    BY <2>2 DEF Promise!Next
<1> QED
  BY <1>1, <1>2, <1>3, PromiseRequestStep
     DEF Next, ContextMoves, BeginRevise, BeginDecline, Begin, Crash, vars

-----------------------------------------------------------------------------
(* The theorems.                                                            *)

\* The invariant is inductive.
THEOREM Invariance == Spec => []IInv
<1>1. IInv /\ [Next]_vars => IInv'
  BY TypeStep, LogStep, ConfirmStep, EffectStep DEF IInv
<1> QED
  BY InitInv, <1>1, PTL DEF Spec

\* The state of the store, the requests and the records has its type.
THEOREM TypeCorrect == Spec => []TypeOK
  BY Invariance, PTL DEF IInv

\* Whatever order requests read and append in (agent/proposals.py, confirm), a
\* proposal has at most one confirmation entry.
THEOREM AtMostOneConfirmation == Spec => []OneConfirmation
<1>1. IInv => OneConfirmation
  BY DEF IInv, ConfirmOK
<1> QED
  BY Invariance, <1>1, PTL

\* Whatever is repeated, races or crashes, a proposal is executed at most once
\* (agent/orchestrator.py, confirm_proposal and execute_confirmed_operation).
THEOREM AtMostOneEffect == Spec => []OneEffect
<1>1. IInv => OneEffect
  BY DEF IInv, EffectOK
<1> QED
  BY Invariance, <1>1, PTL

\* A handler that executes the confirmed content, as the workflow and data
\* operations do, only ever executes changes that a user asked to confirm and
\* whose confirmation is in the log.
THEOREM Reviewed ==
  ASSUME EffectSource = "record"
  PROVE  Spec => []EffectIsReviewed
<1>1. Init => RecordedChanges
  BY DEF Init, RecordedChanges
<1>2. IInv /\ RecordedChanges /\ [Next]_vars => RecordedChanges'
  BY RecordedChangesStep
<1>3. IInv /\ RecordedChanges => EffectIsReviewed
  <2> SUFFICES ASSUME IInv, RecordedChanges, NEW k \in DOMAIN effects
               PROVE  /\ Done(effects[k]) \in asked
                      /\ \E i \in DOMAIN log :
                           log[i] = ConfirmationEntry(Done(effects[k]), "confirmed")
    BY DEF EffectIsReviewed
  <2> DEFINE r == effects[k].record
  <2>1. r \in Contents
    <3>1. effects \in Seq(Effects)
      BY DEF IInv, TypeOK
    <3>2. effects[k] \in Effects
      BY <3>1
    <3> QED
      BY <3>2 DEF Effects
  <2>2. [r EXCEPT !.changes = r.changes] = r
    BY <2>1 DEF Contents
  <2>3. PICK i \in DOMAIN log : log[i] = ConfirmationEntry(r, "confirmed")
    BY DEF IInv, EffectOK, Confirmed
  <2>4. r \in asked
    BY <2>3 DEF IInv, ConfirmOK, ConfirmationEntry
  <2> QED
    BY <2>2, <2>3, <2>4 DEF RecordedChanges, Done
<1> QED
  BY InitInv, Invariance, <1>1, <1>2, <1>3, PTL DEF Spec

\* A proposal whose handler executes the record keeps what it promises: the log,
\* the requests that race on it, the records and the effects implement
\* ReviewedExecution, through crashes and repeated confirms.
THEOREM StoreKeepsPromise ==
  ASSUME EffectSource = "record"
  PROVE  Spec => KeepsPromise
<1>1. Init => RecordedFirst /\ Promise!Init
  BY DEF Init, Idle, RecordedFirst, Decisions, Promise!Init
<1>2. IInv /\ RecordedFirst /\ [Next]_vars => RecordedFirst' /\ [Promise!Next]_(Promise!vars)
  BY RecordedFirstStep, PromiseSteps
<1> QED
  BY <1>1, <1>2, Invariance, PTL DEF Spec, KeepsPromise, Promise!Spec

=============================================================================
