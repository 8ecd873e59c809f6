------------------------------- MODULE EventLog -------------------------------
(***************************************************************************)
(* What the event stream of a conversation promises to those who emit and   *)
(* to those who read, without files, caches, locks or writes cut short.     *)
(* An event is published once, under the next number, and stays.  A client  *)
(* always has exactly the events up to some number.                         *)
(***************************************************************************)
EXTENDS Naturals

CONSTANTS EventIds, Readers

VARIABLES
  published,  \* the events, each with its number and its id
  closed,     \* whether the conversation was deleted
  cursor,     \* the number up to which each client has the events
  seen        \* the ids of the events that each client has

logVars == <<published, closed, cursor, seen>>

Numbers == {e.seq : e \in published}

IdsUpTo(n) == {e.id : e \in {f \in published : f.seq <= n}}

LogInit ==
  /\ published = {}
  /\ closed = FALSE
  /\ cursor = [r \in Readers |-> 0]
  /\ seen = [r \in Readers |-> {}]

Publish(id) ==
  /\ ~closed
  /\ id \notin {e.id : e \in published}
  /\ \E n \in Numbers \cup {0} :
       /\ \A k \in Numbers : k <= n
       /\ published' = published \cup {[seq |-> n + 1, id |-> id]}
  /\ UNCHANGED <<closed, cursor, seen>>

Deliver(r) ==
  /\ ~closed
  /\ \E n \in Numbers :
       /\ n > cursor[r]
       /\ cursor' = [cursor EXCEPT ![r] = n]
       /\ seen' = [seen EXCEPT ![r] = IdsUpTo(n)]
  /\ UNCHANGED <<published, closed>>

\* Clients keep what they have.
Close ==
  /\ ~closed
  /\ closed' = TRUE
  /\ published' = {}
  /\ UNCHANGED <<cursor, seen>>

LogNext ==
  \/ \E id \in EventIds : Publish(id)
  \/ \E r \in Readers : Deliver(r)
  \/ Close

LogSpec == LogInit /\ [][LogNext]_logVars

=============================================================================
