------------------------ MODULE MCConfirmation_proofs ------------------------
(***************************************************************************)
(* The three parts of a confirmation are composed without one disturbing    *)
(* another: a behaviour of the composition is a behaviour of each of the    *)
(* three specifications.  So whatever is proved of one of them holds of the *)
(* composition, which is what the run of TLC checks.                        *)
(***************************************************************************)
EXTENDS MCConfirmation, TLAPS

\* The instance of the recovered rerun and fork meets the assumptions that the
\* theorems about OperationLifecycle make.
LEMMA RecoveryIsAnInstance ==
  /\ [r \in {rerun, fork1} |-> IF r = rerun THEN "rerun" ELSE "fork"]
       \in [{rerun, fork1} -> Recovery!Kinds]
  /\ NoRecord \notin {rerun, fork1}
  /\ {"prepare", "effect", "submitted"} \subseteq Recovery!RaisePoints
  /\ TRUE \in BOOLEAN
  /\ MaxCrashes \in Nat
  /\ "terminal" \notin {"prepare", "effect", "submitted"}
BY RecoveryAssumption DEF Recovery!Kinds, Recovery!RaisePoints

\* A proposal's log, a capability's dispatch and the recovery of operations keep
\* to their own specifications in the composition.
THEOREM PartsAreThemselves ==
  ConfirmationSpec => Spec /\ DispatchSpec /\ Recovery!Spec
<1>1. ConfirmationInit => Init /\ DispatchInit /\ Recovery!Init
  BY DEF ConfirmationInit
<1>2. [ConfirmationNext]_confirmationVars => [Next]_vars
  BY DEF ConfirmationNext, confirmationVars
<1>3. [ConfirmationNext]_confirmationVars => [DispatchNext]_dispatchVars
  BY DEF ConfirmationNext, confirmationVars
<1>4. [ConfirmationNext]_confirmationVars => [Recovery!Next]_(Recovery!vars)
  BY DEF ConfirmationNext, confirmationVars, recoveryVars, Recovery!vars
<1> QED
  BY <1>1, <1>2, <1>3, <1>4, PTL DEF ConfirmationSpec, Spec, DispatchSpec, Recovery!Spec

\* However often the server dies while a rerun and a fork are executed and
\* reconciled, the record of one that has ended agrees with its chain and fork.
THEOREM RecoveredRecordsMatch == ConfirmationSpec => []TerminalMatchesDomain
<1>1. Recovery!Spec => []Recovery!TerminalMatchesDomain
  BY RecoveryIsAnInstance, Recovery!TerminalRecordsMatch, PTL
<1> QED
  BY <1>1, PartsAreThemselves, PTL DEF TerminalMatchesDomain

===============================================================================
