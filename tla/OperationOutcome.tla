--------------------------- MODULE OperationOutcome ---------------------------
(***************************************************************************)
(* What a confirmed operation promises to the user, without processes,      *)
(* crashes, leases or retries: it is claimed, it starts at most one child   *)
(* run, and it ends once, either failed or completed.  A rerun completes    *)
(* only with a child run that has completed.                                *)
(***************************************************************************)
CONSTANTS Records, Kind

VARIABLES
  phase,  \* "pending", "claimed", or how the operation ended
  run     \* its child run: "none", "open" (started, not completed), "completed"

vars == <<phase, run>>

Init ==
  /\ phase = [r \in Records |-> "pending"]
  /\ run = [r \in Records |-> "none"]

Claim(r) ==
  /\ phase[r] = "pending"
  /\ phase' = [phase EXCEPT ![r] = "claimed"]
  /\ UNCHANGED run

StartRun(r) ==
  /\ phase[r] = "claimed" /\ Kind[r] = "rerun" /\ run[r] = "none"
  /\ run' = [run EXCEPT ![r] = "open"]
  /\ UNCHANGED phase

\* The child run is a process of its own: it may complete after its operation
\* was given up.
CompleteRun(r) ==
  /\ run[r] = "open"
  /\ run' = [run EXCEPT ![r] = "completed"]
  /\ UNCHANGED phase

Complete(r) ==
  /\ phase[r] = "claimed"
  /\ Kind[r] = "rerun" => run[r] = "completed"
  /\ phase' = [phase EXCEPT ![r] = "completed"]
  /\ UNCHANGED run

Fail(r) ==
  /\ phase[r] = "claimed"
  /\ phase' = [phase EXCEPT ![r] = "failed"]
  /\ UNCHANGED run

Next ==
  \E r \in Records :
    Claim(r) \/ StartRun(r) \/ CompleteRun(r) \/ Complete(r) \/ Fail(r)

Spec == Init /\ [][Next]_vars

=============================================================================
