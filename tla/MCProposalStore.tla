--------------------------- MODULE MCProposalStore ---------------------------
(* Small instances of ProposalStore for TLC.                                *)
EXTENDS ProposalStore, TLC

\* Requests differ only in name.  The payloads do too, but Idle names one of
\* them, so they are not permuted.
Symmetry == Permutations(Requests)

=============================================================================
