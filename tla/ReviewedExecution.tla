-------------------------- MODULE ReviewedExecution --------------------------
(***************************************************************************)
(* What a proposal promises to the user, without requests, logs or crashes: *)
(* nothing of it happens before a user asked to confirm a content of it;    *)
(* one such content is decided on, once; if the decision is to confirm,     *)
(* that content is recorded as an operation, and what is executed, once, is *)
(* what was recorded.                                                       *)
(***************************************************************************)
EXTENDS Sequences

VARIABLES
  asked,      \* the contents that users asked to confirm
  decisions,  \* the decisions on them, each confirmed or stale
  recorded,   \* the contents of which there is an operation
  executed    \* the contents that were executed, in order

vars == <<asked, decisions, recorded, executed>>

Init ==
  /\ asked = {}
  /\ decisions = {}
  /\ recorded = {}
  /\ executed = <<>>

Ask ==
  /\ \E c \in asked' : asked' = asked \cup {c}
  /\ UNCHANGED <<decisions, recorded, executed>>

Decide(c, status) ==
  /\ c \in asked
  /\ decisions = {}
  /\ decisions' = {[content |-> c, status |-> status]}
  /\ UNCHANGED <<asked, recorded, executed>>

Confirmed(c) == [content |-> c, status |-> "confirmed"] \in decisions

Record(c) ==
  /\ Confirmed(c)
  /\ recorded' = recorded \cup {c}
  /\ UNCHANGED <<asked, decisions, executed>>

Execute(c) ==
  /\ c \in recorded
  /\ executed = <<>>
  /\ executed' = <<c>>
  /\ UNCHANGED <<asked, decisions, recorded>>

Next ==
  \/ Ask
  \/ \E c \in asked, status \in {"confirmed", "stale"} : Decide(c, status)
  \/ \E c \in asked : Record(c)
  \/ \E c \in recorded : Execute(c)

Spec == Init /\ [][Next]_vars

=============================================================================
