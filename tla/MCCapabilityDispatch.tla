------------------------ MODULE MCCapabilityDispatch ------------------------
(* A small instance of CapabilityDispatch for TLC: two confirmations overlap.  *)
EXTENDS CapabilityDispatch, TLC

Symmetry == Permutations(Confirmations)

=============================================================================
