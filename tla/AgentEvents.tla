----------------------------- MODULE AgentEvents -----------------------------
(***************************************************************************)
(* The event stream of a conversation (agent/events.py): a JSONL file to    *)
(* which requests append numbered events and which clients read by number.  *)
(*                                                                          *)
(* Each request has an AgentEventStream of its own, with a cache of how far *)
(* it has read the file.  Emitters hold the file's lock, readers do not.  A *)
(* write may be cut short: the disk is full, or the server dies.  Then the  *)
(* last line is not ended, and the next emitter ends it.                    *)
(*                                                                          *)
(* Sizes are counted in lines: all lines are taken to be equally long.      *)
(***************************************************************************)
EXTENDS Naturals, Sequences

CONSTANTS
  Emitters,    \* the streams of requests that write
  Readers,     \* clients that poll for events
  EventIds,    \* the ids under which events are emitted
  TearPoints,  \* where a line that is cut short ends
  MaxLines     \* bound on the lines of the file

\* "newline": only the line's end is missing, what it says is complete.
ASSUME TearAssumption == TearPoints \subseteq {"body", "newline"}
ASSUME MaxLinesAssumption == MaxLines \in Nat

VARIABLES
  stream,   \* the lines of the file
  removed,  \* whether the conversation, and the file with it, was deleted
  tail,     \* each emitter's cache
  pending,  \* the event that an emitter that holds the lock is about to write
  cursor,   \* the number of the last event that each reader has
  seen      \* the ids of the events that each reader has received

streamVars == <<stream, removed, tail, pending, cursor, seen>>

NoEvent == "none"

ASSUME EventIdsAssumption == NoEvent \notin EventIds

\* whole: the line can be parsed; ended: it has its newline.
Lines == [seq : Nat \ {0}, id : EventIds, whole : BOOLEAN, ended : BOOLEAN]

Tails == [lines : Nat, last : Nat, ids : SUBSET EventIds]

NewTail == [lines |-> 0, last |-> 0, ids |-> {}]

\* The lines of the file that can be parsed: its events.
Events == {i \in DOMAIN stream : stream[i].whole}

Torn == stream # <<>> /\ ~stream[Len(stream)].ended

EndedLines == IF Torn THEN Len(stream) - 1 ELSE Len(stream)

StreamInit ==
  /\ stream = <<>>
  /\ removed = FALSE
  /\ tail = [w \in Emitters |-> NewTail]
  /\ pending = [w \in Emitters |-> NoEvent]
  /\ cursor = [r \in Readers |-> 0]
  /\ seen = [r \in Readers |-> {}]

StreamLocked == \E w \in Emitters : pending[w] # NoEvent

-----------------------------------------------------------------------------
(* Emitting.                                                                *)

\* What an emitter knows of the lines it has read before, unless the file is
\* shorter now.
CachedTail(w) == IF tail[w].lines > EndedLines THEN NewTail ELSE tail[w]

\* Fault: what others wrote since is not read.
NewEvents_OnlyAtFirst(w) ==
  {i \in Events : CachedTail(w) = NewTail /\ i <= EndedLines}

\* The events on complete lines that it has not read yet.
NewEvents(w) == {i \in Events : CachedTail(w).lines < i /\ i <= EndedLines}

\* Fault: the ids of the new lines are forgotten.
ReadTail_NoIds(w) ==
  LET numbers == {CachedTail(w).last} \cup {stream[i].seq : i \in NewEvents(w)}
  IN  [lines |-> Len(stream), last |-> CHOOSE n \in numbers : \A k \in numbers : k <= n,
       ids |-> CachedTail(w).ids]

\* A line that was not ended is ended, and counts as read without being parsed.
ReadTail(w) ==
  LET numbers == {CachedTail(w).last} \cup {stream[i].seq : i \in NewEvents(w)}
  IN  [lines |-> Len(stream),
       last |-> CHOOSE n \in numbers : \A k \in numbers : k <= n,
       ids |-> CachedTail(w).ids \cup {stream[i].id : i \in NewEvents(w)}]

\* Fault: the file is cut back, and the event before the torn line goes with it.
Repaired_CutBack == IF Torn THEN SubSeq(stream, 1, Len(stream) - 2) ELSE stream

Repaired == IF Torn THEN [stream EXCEPT ![Len(stream)].ended = TRUE] ELSE stream

\* The lock is taken and the tail read; an id that is in the file is not
\* emitted again.
Emit(w, id) ==
  /\ ~StreamLocked
  /\ Len(stream) < MaxLines
  /\ stream' = Repaired
  /\ tail' = [tail EXCEPT ![w] = ReadTail(w)]
  /\ pending' = IF id \in tail'[w].ids THEN pending ELSE [pending EXCEPT ![w] = id]
  /\ UNCHANGED <<removed, cursor, seen>>

\* Fault: the numbers start at 0, which no client asks for.
EventLine_FromZero(w, whole, ended) ==
  [seq |-> tail[w].last, id |-> pending[w], whole |-> whole, ended |-> ended]

EventLine(w, whole, ended) ==
  [seq |-> tail[w].last + 1, id |-> pending[w], whole |-> whole, ended |-> ended]

\* The line is written, and the cache follows.
WriteEvent(w) ==
  /\ pending[w] # NoEvent
  /\ stream' = Append(stream, EventLine(w, TRUE, TRUE))
  /\ tail' = [tail EXCEPT ![w] = [lines |-> @.lines + 1, last |-> @.last + 1,
                                  ids |-> @.ids \cup {pending[w]}]]
  /\ pending' = [pending EXCEPT ![w] = NoEvent]
  /\ UNCHANGED <<removed, cursor, seen>>

\* The write is cut short; the emitter gets an error.
TearEvent(w) ==
  /\ pending[w] # NoEvent
  /\ \E p \in TearPoints : stream' = Append(stream, EventLine(w, p = "newline", FALSE))
  /\ pending' = [pending EXCEPT ![w] = NoEvent]
  /\ UNCHANGED <<removed, tail, cursor, seen>>

\* A request ends, or dies with the server; another one has an empty cache.
ReplaceEmitter(w) ==
  /\ tail[w] # NewTail
  /\ tail' = [tail EXCEPT ![w] = NewTail]
  /\ pending' = [pending EXCEPT ![w] = NoEvent]
  /\ UNCHANGED <<stream, removed, cursor, seen>>

\* The conversation is deleted, by a request with a stream of its own.
RemoveStream(w) ==
  /\ ~StreamLocked
  /\ ~removed
  /\ stream' = <<>>
  /\ removed' = TRUE
  /\ tail' = [tail EXCEPT ![w] = NewTail]
  /\ UNCHANGED <<pending, cursor, seen>>

-----------------------------------------------------------------------------
(* Reading.                                                                 *)

\* Fault: the number of the last event is taken from the length of the file.
LastNumber_Lines(found) == Len(stream)

LastNumber(found) == stream[CHOOSE i \in found : \A j \in found : j <= i].seq

\* A client asks for the events after the last one it has.  It is told of a
\* deleted conversation.
Replay(r) ==
  LET found == {i \in Events : stream[i].seq > cursor[r]}
  IN  /\ ~removed
      /\ found # {}
      /\ seen' = [seen EXCEPT ![r] = @ \cup {stream[i].id : i \in found}]
      /\ cursor' = [cursor EXCEPT ![r] = LastNumber(found)]
      /\ UNCHANGED <<stream, removed, tail, pending>>

StreamNext ==
  \/ \E w \in Emitters :
       \/ \E id \in EventIds : Emit(w, id)
       \/ WriteEvent(w) \/ TearEvent(w) \/ ReplaceEmitter(w) \/ RemoveStream(w)
  \/ \E r \in Readers : Replay(r)

StreamSpec == StreamInit /\ [][StreamNext]_streamVars

-----------------------------------------------------------------------------
(* Properties.                                                              *)

\* The file, the caches and the clients have their shapes (agent/events.py).
StreamTypeOK ==
  /\ stream \in Seq(Lines)
  /\ removed \in BOOLEAN
  /\ tail \in [Emitters -> Tails]
  /\ pending \in [Emitters -> EventIds \cup {NoEvent}]
  /\ cursor \in [Readers -> Nat]
  /\ seen \in [Readers -> SUBSET EventIds]

\* The numbers of the events follow one another from 1 on in the order of the
\* file, whatever caches the emitters have and wherever a write was cut short
\* (AgentEventStream.emit: two emitters do not take the same seq).
NumbersFollow ==
  ~removed =>
    \A i \in Events :
      /\ \A j \in Events : j < i => stream[j].seq < stream[i].seq
      /\ stream[i].seq = 1 \/ \E j \in Events : stream[j].seq = stream[i].seq - 1

\* An event is in the file once, however often it is emitted
\* (AgentEventStream: idempotent event emission).
EmittedOnce ==
  ~removed => \A i, j \in Events : stream[i].id = stream[j].id => i = j

\* A client that asks for what comes after its last event misses nothing
\* (get_agent_events with after_seq).
NothingSkipped ==
  ~removed =>
    \A r \in Readers, i \in Events : stream[i].seq <= cursor[r] => stream[i].id \in seen[r]

\* The events of a conversation, however they came into the file.
PublishedEvents ==
  IF removed THEN {} ELSE {[seq |-> stream[i].seq, id |-> stream[i].id] : i \in Events}

EventStream == INSTANCE EventLog WITH published <- PublishedEvents, closed <- removed

\* The stream implements the abstract log: no repair of a line and no late emitter takes
\* an event back, renumbers it or makes one of a line that was cut short, and a
\* client has exactly the events up to its last number (AgentEventStream.emit,
\* _tail, replay, delete).
KeepsEventLog == EventStream!LogSpec

=============================================================================
