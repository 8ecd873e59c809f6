------------------------- MODULE MCOperationLifecycle -------------------------
(* Small instances of OperationLifecycle for TLC.                           *)
EXTENDS OperationLifecycle, TLC

CONSTANTS rerun, fork1, workflow, workflow2

\* One record of each kind; Records picks those a run follows.
MCKind ==
  [r \in Records |-> IF r = rerun THEN "rerun" ELSE IF r = fork1 THEN "fork" ELSE "workflow"]

Symmetry == Permutations(Requests)

=============================================================================
