---------------------------- MODULE MCConfirmation ----------------------------
(* Small instances for TLC of what a user's confirmation sets off: the log of   *)
(* a proposal (ProposalStore), the dispatch of a capability                     *)
(* (CapabilityDispatch), and the execution of operations of which the server    *)
(* dies several times (OperationLifecycle, with one request at a time).  They   *)
(* share no state here, so that a behaviour is one of one of them: `part` says  *)
(* of which, and the others stay as they were at the start.                     *)
EXTENDS ProposalStore, CapabilityDispatch, TLC

CONSTANTS
  rerun, fork1, NoRecord, \* the operations that are recovered, and none
  recoverer,              \* the request that confirms and reconciles them
  MaxCrashes              \* how often the server dies

ASSUME RecoveryAssumption ==
  /\ NoRecord \notin {rerun, fork1}
  /\ MaxCrashes \in Nat

VARIABLES
  part,
  rec, fork, chain, children, lease, recovery, published, crashes

\* The module with the proofs, so that its theorems speak of this instance.
Recovery ==
  INSTANCE OperationLifecycle_proofs
  WITH Records <- {rerun, fork1},
       Kind <- [r \in {rerun, fork1} |-> IF r = rerun THEN "rerun" ELSE "fork"],
       Requests <- {recoverer},
       MayRaise <- {"prepare", "effect", "submitted"},
       LeaseMayLapse <- TRUE,
       req <- recovery

recoveryVars == <<rec, fork, chain, children, lease, recovery, published, crashes>>
confirmationVars == <<part, vars, dispatchVars, recoveryVars>>

MCSymmetry == Permutations(Requests) \cup Permutations(Confirmations)

ConfirmationInit ==
  /\ part \in {"proposal", "dispatch", "recovery"}
  /\ Init /\ DispatchInit /\ Recovery!Init

ConfirmationNext ==
  /\ UNCHANGED part
  /\ \/ part = "proposal" /\ Next /\ UNCHANGED <<dispatchVars, recoveryVars>>
     \/ part = "dispatch" /\ DispatchNext /\ UNCHANGED <<vars, recoveryVars>>
     \/ part = "recovery" /\ Recovery!Next /\ UNCHANGED <<vars, dispatchVars>>

ConfirmationSpec == ConfirmationInit /\ [][ConfirmationNext]_confirmationVars

\* A terminal record agrees with its fork, chain and runs (TerminalMatchesDomain).
TerminalMatchesDomain == Recovery!TerminalMatchesDomain

=============================================================================
