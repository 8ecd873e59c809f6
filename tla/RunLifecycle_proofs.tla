------------------------- MODULE RunLifecycle_proofs -------------------------
(***************************************************************************)
(* Theorems about RunLifecycle: the slots of the EventManager are neither   *)
(* leaked nor given out twice, and an ended run that is no mixed model is   *)
(* never shown as running, for any number of runs, observers, workers and   *)
(* crashes.                                                                 *)
(***************************************************************************)
EXTENDS RunLifecycle, FiniteSetTheorems, TLAPS

\* A run has a terminal manifest as soon as its worker has reported, by a stage
\* or on an exception path, unless it is a mixed model.
ReportedIsTerminal ==
  \A r \in Runs \ MixedModels :
    pc[r] \in {"reported", "closing", "ended"} => manifest[r] \in Results

IInv == TypeOK /\ OneRunPerSlot /\ ReportedIsTerminal

-----------------------------------------------------------------------------
(* Counting the runs that hold a slot.                                      *)

\* There are finitely many of them.
LEMMA HoldingFinite == IsFiniteSet(Holding) /\ Cardinality(Holding) \in Nat
<1>1. Holding \subseteq Runs
  BY DEF Holding
<1> QED
  BY <1>1, RunsAssumption, FS_Subset, FS_CardinalityType

\* A run that takes or keeps a slot, and one that gives it back.
LEMMA HoldingSame ==
  ASSUME pc \in [Runs -> Steps], NEW r \in Holding, NEW s \in Steps \ {"idle", "ended", "dead"},
         pc' = [pc EXCEPT ![r] = s]
  PROVE  Holding' = Holding
  BY DEF Holding

LEMMA HoldingTakes ==
  ASSUME pc \in [Runs -> Steps], NEW r \in Runs, pc[r] = "idle",
         pc' = [pc EXCEPT ![r] = "slot"]
  PROVE  Cardinality(Holding') = Cardinality(Holding) + 1
<1>1. Holding' = Holding \cup {r} /\ r \notin Holding
  BY DEF Holding
<1> QED
  BY <1>1, HoldingFinite, FS_AddElement

LEMMA HoldingGives ==
  ASSUME pc \in [Runs -> Steps], NEW r \in Holding, NEW s \in {"ended", "dead"},
         pc' = [pc EXCEPT ![r] = s]
  PROVE  /\ Cardinality(Holding') = Cardinality(Holding) - 1
         /\ Cardinality(Holding) > 0
<1>1. Holding' = Holding \ {r}
  BY DEF Holding
<1>2. Cardinality(Holding') = Cardinality(Holding) - 1
  BY <1>1, HoldingFinite, FS_RemoveElement
<1>3. Cardinality(Holding) # 0
  BY HoldingFinite, FS_EmptySet
<1> QED
  BY <1>2, <1>3, HoldingFinite

\* Giving a slot back keeps the count exact.
LEMMA SlotReturned ==
  ASSUME TypeOK, OneRunPerSlot, NEW r \in Holding, NEW s \in {"ended", "dead"},
         pc' = [pc EXCEPT ![r] = s], slots' = Released
  PROVE  slots' \in 0 .. MaxWorkers /\ OneRunPerSlot'
<1>0. /\ Cardinality(Holding') = Cardinality(Holding) - 1
      /\ Cardinality(Holding) > 0
  BY HoldingGives DEF TypeOK
<1>1. slots \in Nat /\ slots > 0 /\ slots <= MaxWorkers /\ MaxWorkers \in Nat
  BY <1>0, MaxWorkersAssumption DEF TypeOK, OneRunPerSlot
<1>2. slots' = slots - 1
  BY <1>1 DEF Released
<1>3. Cardinality(Holding') = slots'
  BY <1>0, <1>2 DEF OneRunPerSlot
<1> QED
  BY <1>1, <1>2, <1>3 DEF OneRunPerSlot

-----------------------------------------------------------------------------
(* The invariant.                                                           *)

\* The invariant holds initially: no run holds a slot.
LEMMA InitInv == Init => IInv
<1> SUFFICES ASSUME Init PROVE IInv
  OBVIOUS
<1>1. TypeOK
  BY MaxWorkersAssumption, MaxCrashesAssumption DEF Init, TypeOK, Steps, Idle
<1>2. Holding = {}
  BY DEF Init, Holding
<1>3. OneRunPerSlot
  BY <1>2, FS_EmptySet, MaxWorkersAssumption DEF Init, OneRunPerSlot
<1> QED
  BY <1>1, <1>3 DEF Init, IInv, ReportedIsTerminal

\* A step of a run that keeps its slot.
LEMMA KeepsSlot ==
  ASSUME IInv, NEW r \in Runs,
         \/ WriteRunning(r) \/ Dispatch(r) \/ Start(r) \/ FinishStages(r)
         \/ StopAtCheckpoint(r) \/ StageRaises(r) \/ ReportFailure(r) \/ ReportStop(r)
  PROVE  IInv'
<1> USE DEF IInv
<1> DEFINE statuses == {"none", "running"} \cup Results
<1>1. PICK s \in Steps \ {"idle", "ended", "dead"} :
        r \in Holding /\ pc' = [pc EXCEPT ![r] = s]
  BY DEF WriteRunning, Dispatch, Start, FinishStages, StopAtCheckpoint, StageRaises,
         ReportFailure, ReportStop, RunGoto, Holding, Steps, TypeOK
<1>2. OneRunPerSlot'
  <2>1. Holding' = Holding
    BY <1>1, HoldingSame DEF TypeOK
  <2>2. slots' = slots
    BY DEF WriteRunning, Dispatch, Start, FinishStages, StopAtCheckpoint, StageRaises,
           ReportFailure, ReportStop, ReportUnlessLmm, Report
  <2> QED
    BY <2>1, <2>2 DEF OneRunPerSlot
<1>3. /\ manifest' = manifest \/ \E m \in statuses : manifest' = [manifest EXCEPT ![r] = m]
      /\ outcome' = outcome \/ \E m \in Results : outcome' = [outcome EXCEPT ![r] = m]
      /\ active' \in {active, active \cup {r}}
      /\ UNCHANGED <<cancel, slots, obs, crashes>>
  BY DEF WriteRunning, Dispatch, Start, FinishStages, StopAtCheckpoint, StageRaises,
         ReportFailure, ReportStop, ReportUnlessLmm, Report, Results
<1>4. TypeOK'
  <2>1. pc' \in [Runs -> Steps]
    BY <1>1 DEF TypeOK
  <2>2. manifest' \in [Runs -> statuses] /\ outcome' \in [Runs -> {"none"} \cup Results]
    BY <1>3 DEF TypeOK
  <2>3. active' \subseteq Runs /\ cancel' \subseteq active'
    BY <1>3 DEF TypeOK
  <2> QED
    BY <1>3, <2>1, <2>2, <2>3 DEF TypeOK
<1>5. ReportedIsTerminal'
  BY DEF ReportedIsTerminal, TypeOK, WriteRunning, Dispatch, Start, FinishStages,
         StopAtCheckpoint, StageRaises, ReportFailure, ReportStop, ReportUnlessLmm,
         Report, RunGoto, Results
<1> QED
  BY <1>2, <1>4, <1>5

\* A step of an observer holds no slot and writes nothing but interrupted.
LEMMA ObserverKeeps ==
  ASSUME IInv, NEW o \in Observers,
         ObserverStep(o) \/ \E r \in Runs, c \in BOOLEAN : ReadManifest(o, r, c)
  PROVE  IInv'
<1> USE DEF IInv
<1>1. /\ UNCHANGED <<pc, active, slots, outcome, crashes>>
      /\ cancel' \in {cancel, cancel \cup {obs[o].r}} /\ cancel' \subseteq active
      /\ manifest' = manifest \/ manifest' = [manifest EXCEPT ![obs[o].r] = "interrupted"]
  BY DEF ObserverStep, CheckActive, MarkInterrupted, RequestCancel, ReadManifest, TypeOK
<1>2. OneRunPerSlot'
  BY <1>1 DEF OneRunPerSlot, Holding
<1>3. ReportedIsTerminal'
  BY <1>1 DEF ReportedIsTerminal, TypeOK, Results
<1>4. obs' \in [Observers -> [pc : {"idle", "check", "mark", "request"},
                              r : Runs \cup {NoRun}, cancels : BOOLEAN]]
  <2> DEFINE states == [pc : {"idle", "check", "mark", "request"},
                        r : Runs \cup {NoRun}, cancels : BOOLEAN]
  <2>1. Idle \in states
    BY DEF Idle
  <2>2. /\ [obs[o] EXCEPT !.pc = "mark"] \in states
        /\ [obs[o] EXCEPT !.pc = "request"] \in states
        /\ [obs[o] EXCEPT !.pc = "check", !.cancels = FALSE] \in states
    BY DEF TypeOK
  <2>3. \A r \in Runs, c \in BOOLEAN : [pc |-> "check", r |-> r, cancels |-> c] \in states
    OBVIOUS
  <2>4. \E new \in states : obs' = [obs EXCEPT ![o] = new]
    <3>1. CASE CheckActive(o)
      BY <2>1, <2>2, <3>1 DEF CheckActive
    <3>2. CASE MarkInterrupted(o)
      BY <2>1, <3>2 DEF MarkInterrupted
    <3>3. CASE RequestCancel(o)
      BY <2>1, <2>2, <3>3 DEF RequestCancel, TypeOK
    <3>4. CASE \E r \in Runs, c \in BOOLEAN : ReadManifest(o, r, c)
      BY <2>3, <3>4 DEF ReadManifest
    <3> QED
      BY <3>1, <3>2, <3>3, <3>4 DEF ObserverStep
  <2> QED
    BY <2>4 DEF TypeOK
<1>5. TypeOK'
  BY <1>1, <1>4 DEF TypeOK, Results
<1> QED
  BY <1>2, <1>3, <1>5

\* The invariant is inductive.
THEOREM Invariance == Spec => []IInv
<1>1. IInv /\ [Next]_vars => IInv'
  <2> SUFFICES ASSUME IInv, [Next]_vars PROVE IInv'
    OBVIOUS
  <2> USE DEF IInv
  <2>1. ASSUME NEW r \in Runs, AcquireSlot(r) PROVE IInv'
    <3>1. slots' = slots + 1 /\ slots < MaxWorkers
      BY <2>1 DEF AcquireSlot, SlotFree
    <3>2. Cardinality(Holding') = Cardinality(Holding) + 1
      BY <2>1, HoldingTakes DEF AcquireSlot, RunGoto, TypeOK
    <3>3. OneRunPerSlot' /\ slots' \in 0 .. MaxWorkers
      BY <3>1, <3>2, MaxWorkersAssumption DEF OneRunPerSlot, TypeOK
    <3>4. TypeOK'
      BY <2>1, <3>3 DEF AcquireSlot, RunGoto, TypeOK, Steps
    <3>5. ReportedIsTerminal'
      BY <2>1 DEF AcquireSlot, RunGoto, ReportedIsTerminal, TypeOK
    <3> QED
      BY <3>3, <3>4, <3>5
  <2>2. ASSUME NEW r \in Runs, SubmitRaises(r) \/ End(r) PROVE IInv'
    <3>1. PICK s \in {"ended", "dead"} : r \in Holding /\ pc' = [pc EXCEPT ![r] = s]
      BY <2>2 DEF SubmitRaises, End, RunGoto, Holding
    <3>2. slots' = Released
      BY <2>2 DEF SubmitRaises, End
    <3>3. OneRunPerSlot' /\ slots' \in 0 .. MaxWorkers
      BY <3>1, <3>2, SlotReturned
    <3>4. TypeOK'
      BY <2>2, <3>1, <3>3 DEF SubmitRaises, End, TypeOK, Steps
    <3>5. ReportedIsTerminal'
      BY <2>2 DEF SubmitRaises, End, RunGoto, ReportedIsTerminal, TypeOK
    <3> QED
      BY <3>3, <3>4, <3>5
  <2>3. CASE \E r \in Runs : RunStep(r)
    BY <2>2, <2>3, KeepsSlot DEF RunStep
  <2>4. CASE \/ \E o \in Observers, r \in Runs, c \in BOOLEAN : ReadManifest(o, r, c)
             \/ \E o \in Observers : ObserverStep(o)
    BY <2>4, ObserverKeeps
  <2>5. CASE Crash
    <3>1. Holding' = {} /\ slots' = 0
      BY <2>5 DEF Crash, Holding
    <3>2. OneRunPerSlot'
      BY <3>1, FS_EmptySet, MaxWorkersAssumption DEF OneRunPerSlot
    <3>3. TypeOK'
      BY <2>5, MaxWorkersAssumption, MaxCrashesAssumption DEF Crash, TypeOK, Steps, Idle
    <3>4. ReportedIsTerminal'
      BY <2>5 DEF Crash, ReportedIsTerminal
    <3> QED
      BY <3>2, <3>3, <3>4
  <2>6. CASE UNCHANGED vars
    BY <2>6 DEF vars, TypeOK, OneRunPerSlot, Holding, ReportedIsTerminal
  <2> QED
    BY <2>1, <2>3, <2>4, <2>5, <2>6 DEF Next
<1> QED
  BY InitInv, <1>1, PTL DEF Spec

\* The state of the runs, the slots and the observers has its type.
THEOREM TypeCorrect == Spec => []TypeOK
  BY Invariance, PTL DEF IInv

\* The slots count the runs under way exactly (events.py, try_acquire_slot and
\* release_slot, over every path of _submit_run and _bg_run).
THEOREM SlotsAreExact == Spec => []OneRunPerSlot
  BY Invariance, PTL DEF IInv

\* No path out of the worker, and no late observer, leaves an ended run with a
\* running manifest; mixed models are the exception, by design of their sink.
THEOREM EndedRunsAreTerminal == Spec => []EndedIsTerminal
<1>1. IInv => EndedIsTerminal
  BY DEF IInv, ReportedIsTerminal, EndedIsTerminal
<1> QED
  BY Invariance, <1>1, PTL

=============================================================================
