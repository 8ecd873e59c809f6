---------------------------- MODULE MCRunLifecycle ----------------------------
(* Small instances of RunLifecycle for TLC.                                  *)
EXTENDS RunLifecycle

CONSTANTS run1, mixed, batch

MCKind ==
  [r \in Runs |-> IF r = batch THEN "batch" ELSE IF r = mixed THEN "lmm" ELSE "background"]

=============================================================================
