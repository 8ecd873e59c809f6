-------------------------- MODULE AgentEvents_proofs --------------------------
(***************************************************************************)
(* For any number of emitters, clients and events, and wherever writes of    *)
(* them are cut short within a line's text: until the conversation is       *)
(* deleted its events are numbered one after the other, are in the file     *)
(* once, and no client misses one; and the file implements the abstract     *)
(* log.  The shapes hold wherever writes are cut short, and after deletion.  *)
(*                                                                          *)
(* The invariant says what an emitter's cache is worth (CacheIsTrue), that   *)
(* a line that was not ended is no event (TornIsLast), and what an emitter   *)
(* that is about to write knows (WriterIsCurrent).                          *)
(***************************************************************************)
EXTENDS AgentEvents, SequenceTheorems, WellFoundedInduction, TLAPS

\* Only the last line may be without its end, and then it cannot be parsed.
TornIsLast ==
  \A i \in DOMAIN stream : ~stream[i].ended => i = Len(stream) /\ ~stream[i].whole

\* If there are events there is a last one.
HasLast == Events # {} => \E t \in Events : \A i \in Events : i <= t

\* A cache knows all events on the lines that it has read.
CacheIsTrue ==
  \A w \in Emitters :
    /\ tail[w].lines <= EndedLines
    /\ \A i \in Events : i <= tail[w].lines =>
         stream[i].seq <= tail[w].last /\ stream[i].id \in tail[w].ids
    /\ \/ tail[w].last = 0
       \/ \E i \in Events : i <= tail[w].lines /\ stream[i].seq = tail[w].last

\* The one emitter that is about to write has read the whole file.
WriterIsCurrent ==
  \A w \in Emitters : pending[w] # NoEvent =>
    /\ ~Torn
    /\ tail[w].lines = Len(stream)
    /\ pending[w] \notin tail[w].ids
    /\ \A v \in Emitters : pending[v] # NoEvent => v = w

\* No client is ahead of the events.
NobodyIsAhead ==
  \A r \in Readers : cursor[r] = 0 \/ \E i \in Events : stream[i].seq = cursor[r]

Numbered ==
  \A i \in Events :
    /\ \A j \in Events : j < i => stream[j].seq < stream[i].seq
    /\ stream[i].seq = 1 \/ \E j \in Events : stream[j].seq = stream[i].seq - 1

Once == \A i, j \in Events : stream[i].id = stream[j].id => i = j

Complete ==
  \A r \in Readers, i \in Events : stream[i].seq <= cursor[r] => stream[i].id \in seen[r]

StreamCore ==
  /\ StreamTypeOK
  /\ TornIsLast
  /\ HasLast
  /\ CacheIsTrue
  /\ WriterIsCurrent
  /\ NobodyIsAhead
  /\ Numbered
  /\ Once
  /\ Complete

StreamInv == removed = TRUE \/ StreamCore

LEMMA StreamInvInit == StreamInit => StreamInv
<1> SUFFICES ASSUME StreamInit
             PROVE  StreamCore
  BY DEF StreamInv
<1>1. stream = <<>> /\ Events = {} /\ EndedLines = 0 /\ ~Torn
  BY DEF StreamInit, Events, EndedLines, Torn
<1>2. StreamTypeOK
  <2>1. NewTail \in Tails
    BY DEF NewTail, Tails
  <2>2. stream \in Seq(Lines)
    BY <1>1, EmptySeq
  <2> QED
    BY <2>1, <2>2 DEF StreamInit, StreamTypeOK
<1>3. TornIsLast /\ HasLast /\ Numbered /\ Once /\ Complete
  <2>1. DOMAIN stream = {}
    BY <1>1
  <2> QED
    BY <1>1, <2>1 DEF TornIsLast, HasLast, Numbered, Once, Complete
<1>4. CacheIsTrue
  <2>1. \A w \in Emitters : tail[w].lines = 0 /\ tail[w].last = 0
    BY DEF StreamInit, NewTail
  <2> SUFFICES ASSUME NEW w \in Emitters
               PROVE  tail[w].lines <= EndedLines /\ tail[w].last = 0
    BY <1>1 DEF CacheIsTrue
  <2> QED
    BY <1>1, <2>1
<1>5. WriterIsCurrent /\ NobodyIsAhead
  BY DEF StreamInit, WriterIsCurrent, NobodyIsAhead
<1> QED
  BY <1>2, <1>3, <1>4, <1>5 DEF StreamCore

-----------------------------------------------------------------------------
(* What an emitter finds when it reads the file.                            *)

LEMMA EventFacts ==
  ASSUME StreamCore
  PROVE  /\ Len(stream) \in Nat
         /\ Events \subseteq 1..Len(stream)
         /\ \A i \in Events : i <= EndedLines
         /\ \A i \in Events : stream[i] \in Lines /\ stream[i].seq \in Nat \ {0}
         /\ EndedLines \in Nat
<1>1. Len(stream) \in Nat /\ DOMAIN stream = 1..Len(stream)
      /\ \A i \in 1..Len(stream) : stream[i] \in Lines
  BY LenProperties, ElementOfSeq DEF StreamCore, StreamTypeOK
<1>2. Torn => Len(stream) # 0
  BY <1>1, EmptySeq DEF Torn, StreamCore, StreamTypeOK
<1>3. \A i \in Events : i \in 1..Len(stream) /\ stream[i].whole
  BY <1>1 DEF Events
<1>4. \A i \in Events : i <= EndedLines
  BY <1>1, <1>2, <1>3 DEF StreamCore, TornIsLast, EndedLines, Torn
<1>5. EndedLines \in Nat
  BY <1>1, <1>2 DEF EndedLines
<1> QED
  BY <1>1, <1>3, <1>4, <1>5 DEF Lines

\* The cache after reading: it knows every event, and its last number is that of
\* the last event.
LEMMA ReadTailFacts ==
  ASSUME StreamCore, NEW w \in Emitters
  PROVE  /\ ReadTail(w) \in Tails
         /\ ReadTail(w).lines = Len(stream)
         /\ \A i \in Events : stream[i].seq <= ReadTail(w).last /\ stream[i].id \in ReadTail(w).ids
         /\ \/ ReadTail(w).last = 0
            \/ \E i \in Events : stream[i].seq = ReadTail(w).last
<1> DEFINE numbers == {tail[w].last} \cup {stream[i].seq : i \in NewEvents(w)}
           m == CHOOSE n \in numbers : \A k \in numbers : k <= n
<1>1. tail[w] \in Tails
  BY DEF StreamCore, StreamTypeOK
<1>2. CachedTail(w) = tail[w]
  BY <1>1, EventFacts DEF StreamCore, CacheIsTrue, CachedTail, Tails
<1>3. \A i \in Events : i \in NewEvents(w) <=> tail[w].lines < i
  BY <1>2, EventFacts DEF NewEvents
<1>4. NewEvents(w) \subseteq Events
  BY DEF NewEvents
<1>5. \E n \in numbers : \A k \in numbers : k <= n
  <2>1. CASE NewEvents(w) = {}
    BY <1>1, <2>1 DEF Tails
  <2>2. CASE NewEvents(w) # {}
    <3>1. PICK t \in Events : \A i \in Events : i <= t
      BY <1>4, <2>2 DEF StreamCore, HasLast
    <3>2. t \in NewEvents(w)
      BY <1>1, <1>3, <1>4, <2>2, <3>1, EventFacts DEF Tails
    <3>3. \A i \in Events : stream[i].seq <= stream[t].seq
      BY <3>1, EventFacts DEF StreamCore, Numbered
    <3>4. tail[w].last <= stream[t].seq
      BY <3>3, EventFacts DEF StreamCore, CacheIsTrue
    <3> QED
      BY <1>4, <3>2, <3>3, <3>4
  <2> QED
    BY <2>1, <2>2
<1>6. m \in numbers /\ \A k \in numbers : k <= m
  BY <1>5
<1>7. numbers \subseteq Nat
  BY <1>1, <1>4, EventFacts DEF Tails
<1>8. ReadTail(w) = [lines |-> Len(stream), last |-> m,
                     ids |-> tail[w].ids \cup {stream[i].id : i \in NewEvents(w)}]
  BY <1>2 DEF ReadTail
<1> HIDE DEF m
<1>9. ReadTail(w) \in Tails
  <2>1. {stream[i].id : i \in NewEvents(w)} \subseteq EventIds
    BY <1>4, EventFacts DEF Lines
  <2> QED
    BY <1>1, <1>6, <1>7, <1>8, <2>1, EventFacts DEF Tails
<1>10. \A i \in Events : stream[i].seq <= m /\ stream[i].id \in ReadTail(w).ids
  <2> SUFFICES ASSUME NEW i \in Events
               PROVE  stream[i].seq <= m /\ stream[i].id \in ReadTail(w).ids
    OBVIOUS
  <2>1. CASE i \in NewEvents(w)
    <3>1. stream[i].seq \in numbers
      BY <2>1
    <3>2. stream[i].seq <= m
      BY <1>6, <3>1
    <3>3. stream[i].id \in {stream[j].id : j \in NewEvents(w)}
      BY <2>1
    <3>4. stream[i].id \in ReadTail(w).ids
      BY <1>8, <3>3
    <3> QED
      BY <3>2, <3>4
  <2>2. CASE i \notin NewEvents(w)
    <3>1. i <= tail[w].lines
      BY <1>1, <1>3, <2>2, EventFacts DEF Tails
    <3>2. stream[i].seq <= tail[w].last /\ stream[i].id \in tail[w].ids
      BY <3>1 DEF StreamCore, CacheIsTrue
    <3>3. tail[w].last <= m
      BY <1>6
    <3>4. stream[i].seq \in Nat /\ tail[w].last \in Nat /\ m \in Nat
      BY <1>1, <1>6, <1>7, EventFacts DEF Tails
    <3>5. stream[i].seq <= m
      BY <3>2, <3>3, <3>4
    <3>6. stream[i].id \in ReadTail(w).ids
      BY <1>8, <3>2
    <3> QED
      BY <3>5, <3>6
  <2> QED
    BY <2>1, <2>2
<1>11. m = 0 \/ \E i \in Events : stream[i].seq = m
  <2>1. CASE m = tail[w].last
    BY <2>1 DEF StreamCore, CacheIsTrue
  <2>2. CASE \E i \in NewEvents(w) : stream[i].seq = m
    BY <1>4, <2>2
  <2> QED
    BY <1>6, <2>1, <2>2
<1> QED
  BY <1>8, <1>9, <1>10, <1>11

-----------------------------------------------------------------------------
(* Every step keeps the invariant.                                          *)

\* The emitter ends a line that was not ended: no event changes.
LEMMA EmitFacts ==
  ASSUME StreamCore, NEW w \in Emitters, NEW id \in EventIds, Emit(w, id)
  PROVE  /\ stream' \in Seq(Lines)
         /\ Len(stream') = Len(stream)
         /\ DOMAIN stream' = DOMAIN stream
         /\ \A i \in DOMAIN stream : /\ stream'[i].seq = stream[i].seq
                                     /\ stream'[i].id = stream[i].id
                                     /\ stream'[i].whole = stream[i].whole
                                     /\ stream'[i].ended
         /\ Events' = Events
         /\ ~Torn'
         /\ EndedLines' = Len(stream)
<1>1. /\ stream \in Seq(Lines) /\ Len(stream) \in Nat /\ DOMAIN stream = 1..Len(stream)
      /\ \A i \in DOMAIN stream : stream[i] \in Lines
  BY LenProperties, ElementOfSeq DEF StreamCore, StreamTypeOK
<1>2. stream' = Repaired
  BY DEF Emit
<1>3. CASE Torn
  <2> DEFINE n == Len(stream)
             line == [stream[n] EXCEPT !.ended = TRUE]
  <2>1. n \in 1..Len(stream)
    BY <1>1, <1>3, EmptySeq DEF Torn
  <2>2. stream' = [stream EXCEPT ![n] = line]
    BY <1>2, <1>3 DEF Repaired
  <2>3. line \in Lines /\ line.seq = stream[n].seq /\ line.id = stream[n].id
        /\ line.whole = stream[n].whole /\ line.ended
    BY <1>1, <2>1 DEF Lines
  <2> HIDE DEF line
  <2>4. stream' \in Seq(Lines) /\ Len(stream') = Len(stream)
    BY <1>1, <2>1, <2>2, <2>3, ExceptSeq
  <2>5. DOMAIN stream' = DOMAIN stream
    BY <2>2
  <2>6. \A i \in DOMAIN stream : i # n => stream'[i] = stream[i] /\ stream[i].ended
    BY <1>1, <2>2 DEF StreamCore, TornIsLast
  <2>7. stream'[n] = line
    BY <1>1, <2>1, <2>2
  <2>8. \A i \in DOMAIN stream : /\ stream'[i].seq = stream[i].seq
                                 /\ stream'[i].id = stream[i].id
                                 /\ stream'[i].whole = stream[i].whole
                                 /\ stream'[i].ended
    BY <2>3, <2>6, <2>7
  <2>9. Events' = Events
    BY <2>5, <2>8 DEF Events
  <2>10. ~Torn'
    BY <1>1, <2>1, <2>4, <2>8 DEF Torn
  <2> QED
    BY <2>4, <2>5, <2>8, <2>9, <2>10 DEF EndedLines
<1>4. CASE ~Torn
  <2>1. stream' = stream
    BY <1>2, <1>4 DEF Repaired
  <2>2. \A i \in DOMAIN stream : stream[i].ended
    BY <1>1, <1>4, EmptySeq DEF Torn, StreamCore, TornIsLast
  <2> QED
    BY <1>1, <1>4, <2>1, <2>2 DEF Events, Torn, EndedLines
<1> QED
  BY <1>3, <1>4

LEMMA EmitKeeps ==
  ASSUME StreamCore, NEW w \in Emitters, NEW id \in EventIds, Emit(w, id)
  PROVE  StreamCore'
<1>1. Events \subseteq DOMAIN stream
  BY DEF Events
<1>2. \A i \in Events : stream'[i].seq = stream[i].seq /\ stream'[i].id = stream[i].id
  BY <1>1, EmitFacts
<1>3. Events' = Events /\ ~Torn' /\ EndedLines' = Len(stream) /\ Len(stream') = Len(stream)
  BY EmitFacts
<1>4. tail \in [Emitters -> Tails] /\ tail' = [tail EXCEPT ![w] = ReadTail(w)]
  BY DEF StreamCore, StreamTypeOK, Emit
<1>5. tail'[w] = ReadTail(w) /\ \A v \in Emitters : v # w => tail'[v] = tail[v]
  BY <1>4
<1>6. StreamTypeOK'
  <2>1. tail' \in [Emitters -> Tails]
    BY <1>4, ReadTailFacts
  <2>2. pending' \in [Emitters -> EventIds \cup {NoEvent}]
    BY DEF StreamCore, StreamTypeOK, Emit
  <2> QED
    BY <2>1, <2>2, EmitFacts DEF StreamCore, StreamTypeOK, Emit
<1>7. TornIsLast'
  BY EmitFacts DEF TornIsLast
<1>8. HasLast'
  BY <1>3 DEF StreamCore, HasLast
<1>9. CacheIsTrue'
  <2> SUFFICES ASSUME NEW v \in Emitters
               PROVE  /\ tail'[v].lines <= Len(stream)
                      /\ \A i \in Events : i <= tail'[v].lines =>
                           stream[i].seq <= tail'[v].last /\ stream[i].id \in tail'[v].ids
                      /\ \/ tail'[v].last = 0
                         \/ \E i \in Events : i <= tail'[v].lines /\ stream[i].seq = tail'[v].last
    BY <1>2, <1>3 DEF CacheIsTrue
  <2>1. CASE v = w
    BY <1>5, <2>1, ReadTailFacts, EventFacts
  <2>2. CASE v # w
    <3>1. EndedLines <= Len(stream) /\ tail[v] \in Tails
      BY <1>4, EventFacts DEF EndedLines
    <3> QED
      BY <1>5, <2>2, <3>1, EventFacts DEF StreamCore, CacheIsTrue, Tails
  <2> QED
    BY <2>1, <2>2
<1>10. WriterIsCurrent'
  <2> SUFFICES ASSUME NEW v \in Emitters, pending'[v] # NoEvent
               PROVE  /\ tail'[v].lines = Len(stream)
                      /\ pending'[v] \notin tail'[v].ids
                      /\ \A u \in Emitters : pending'[u] # NoEvent => u = v
    BY <1>3 DEF WriterIsCurrent
  <2>1. \A u \in Emitters : pending[u] = NoEvent
    BY DEF Emit, StreamLocked
  <2>2. id \notin tail'[w].ids /\ pending' = [pending EXCEPT ![w] = id]
    BY <2>1 DEF Emit
  <2>3. v = w /\ pending'[w] = id /\ \A u \in Emitters : pending'[u] # NoEvent => u = w
    BY <2>1, <2>2 DEF StreamCore, StreamTypeOK
  <2> QED
    BY <1>5, <2>2, <2>3, ReadTailFacts
<1>11. NobodyIsAhead'
  BY <1>2, <1>3 DEF StreamCore, NobodyIsAhead, Emit
<1>12. Numbered'
  BY <1>2, <1>3 DEF StreamCore, Numbered
<1>13. Once'
  BY <1>2, <1>3 DEF StreamCore, Once
<1>14. Complete'
  BY <1>2, <1>3 DEF StreamCore, Complete, Emit
<1> QED
  BY <1>6, <1>7, <1>8, <1>9, <1>10, <1>11, <1>12, <1>13, <1>14 DEF StreamCore

LEMMA AppendFacts ==
  ASSUME StreamCore, NEW e \in Lines, stream' = Append(stream, e)
  PROVE  /\ stream' \in Seq(Lines)
         /\ Len(stream') = Len(stream) + 1
         /\ DOMAIN stream' = 1..(Len(stream) + 1)
         /\ \A i \in 1..Len(stream) : stream'[i] = stream[i]
         /\ stream'[Len(stream) + 1] = e
         /\ Events' = Events \cup (IF e.whole THEN {Len(stream) + 1} ELSE {})
         /\ Torn' = ~e.ended
         /\ EndedLines' = IF e.ended THEN Len(stream) + 1 ELSE Len(stream)
<1>1. stream \in Seq(Lines) /\ Len(stream) \in Nat /\ DOMAIN stream = 1..Len(stream)
  BY LenProperties DEF StreamCore, StreamTypeOK
<1>2. /\ stream' \in Seq(Lines)
      /\ Len(stream') = Len(stream) + 1
      /\ \A i \in 1..Len(stream) : stream'[i] = stream[i]
      /\ stream'[Len(stream) + 1] = e
  BY <1>1, AppendProperties
<1>3. DOMAIN stream' = 1..(Len(stream) + 1)
  BY <1>2, LenProperties
<1>4. \A i : i \in 1..(Len(stream) + 1) <=> i \in 1..Len(stream) \/ i = Len(stream) + 1
  BY <1>1
<1>5. ASSUME NEW i PROVE i \in Events' <=> i \in Events \cup (IF e.whole THEN {Len(stream) + 1} ELSE {})
  <2>1. i \in Events' <=> i \in 1..(Len(stream) + 1) /\ stream'[i].whole
    BY <1>3 DEF Events
  <2>2. i \in Events <=> i \in 1..Len(stream) /\ stream[i].whole
    BY <1>1 DEF Events
  <2>3. Len(stream) + 1 \notin 1..Len(stream)
    BY <1>1
  <2> QED
    BY <1>2, <1>4, <2>1, <2>2, <2>3
<1>6. stream' # <<>>
  BY <1>2, <1>1
<1>7. Torn' = ~e.ended
  BY <1>2, <1>6 DEF Torn, Lines
<1>8. EndedLines' = IF e.ended THEN Len(stream) + 1 ELSE Len(stream)
  <2>1. CASE e.ended
    BY <1>2, <1>7, <2>1 DEF EndedLines
  <2>2. CASE ~e.ended
    <3>1. EndedLines' = Len(stream') - 1
      BY <1>7, <2>2 DEF EndedLines
    <3>2. Len(stream) + 1 - 1 = Len(stream)
      BY <1>1
    <3> QED
      BY <1>2, <2>2, <3>1, <3>2
  <2> QED
    BY <2>1, <2>2
<1> QED
  BY <1>2, <1>3, <1>5, <1>7, <1>8

\* The writer has read the whole file, so its number and its id are new.
LEMMA WriteKeeps ==
  ASSUME StreamCore, NEW w \in Emitters, WriteEvent(w)
  PROVE  StreamCore'
<1> DEFINE n == Len(stream) + 1
           e == EventLine(w, TRUE, TRUE)
<1>1. tail[w] \in Tails /\ pending[w] \in EventIds
  BY DEF StreamCore, StreamTypeOK, WriteEvent
<1>2. e \in Lines /\ e.seq = tail[w].last + 1 /\ e.id = pending[w] /\ e.whole /\ e.ended
  BY <1>1 DEF EventLine, Lines, Tails
<1>3. stream' = Append(stream, e)
  BY DEF WriteEvent
<1> HIDE DEF e
<1>4. /\ stream' \in Seq(Lines)
      /\ Len(stream') = n
      /\ DOMAIN stream' = 1..n
      /\ \A i \in 1..Len(stream) : stream'[i] = stream[i]
      /\ stream'[n] = e
      /\ Events' = Events \cup {n}
      /\ ~Torn'
      /\ EndedLines' = n
  BY <1>2, <1>3, AppendFacts
<1>5. \A i \in Events : i < n /\ stream'[i] = stream[i]
  BY <1>4, EventFacts
<1>6. tail[w].lines = Len(stream) /\ pending[w] \notin tail[w].ids /\ ~Torn
      /\ \A v \in Emitters : pending[v] # NoEvent => v = w
  BY DEF StreamCore, WriterIsCurrent, WriteEvent
<1>7. EndedLines = Len(stream)
  BY <1>6 DEF EndedLines
<1>8. \A i \in Events : stream[i].seq <= tail[w].last /\ stream[i].id \in tail[w].ids
  BY <1>6, EventFacts DEF StreamCore, CacheIsTrue
<1>9. \A i \in Events : stream[i].seq < e.seq /\ stream[i].id # e.id
  BY <1>1, <1>2, <1>6, <1>8, EventFacts DEF Tails
<1>10. e.seq = 1 \/ \E j \in Events : stream[j].seq = e.seq - 1
  BY <1>1, <1>2 DEF StreamCore, CacheIsTrue, Tails
<1>11. /\ tail'[w] = [lines |-> n, last |-> e.seq, ids |-> tail[w].ids \cup {e.id}]
       /\ \A v \in Emitters : v # w => tail'[v] = tail[v]
       /\ tail' \in [Emitters -> Tails]
  <2>1. tail' = [tail EXCEPT ![w] = [lines |-> tail[w].lines + 1, last |-> tail[w].last + 1,
                                     ids |-> tail[w].ids \cup {pending[w]}]]
    BY DEF WriteEvent
  <2>2. [lines |-> tail[w].lines + 1, last |-> tail[w].last + 1,
         ids |-> tail[w].ids \cup {pending[w]}] \in Tails
    BY <1>1 DEF Tails
  <2> QED
    BY <1>2, <1>6, <2>1, <2>2 DEF StreamCore, StreamTypeOK
<1>12. StreamTypeOK'
  BY <1>4, <1>11 DEF StreamCore, StreamTypeOK, WriteEvent
<1>13. TornIsLast'
  <2>1. \A i \in 1..n : i # n => stream'[i] = stream[i] /\ i \in 1..Len(stream)
    BY <1>4, EventFacts
  <2>2. \A i \in 1..Len(stream) : stream[i].ended
    <3>1. stream \in Seq(Lines) /\ DOMAIN stream = 1..Len(stream)
      BY LenProperties DEF StreamCore, StreamTypeOK
    <3>2. stream = <<>> => Len(stream) = 0
      BY <3>1, EmptySeq
    <3> QED
      BY <1>6, <3>1, <3>2 DEF Torn, StreamCore, TornIsLast
  <2> QED
    BY <1>2, <1>4, <2>1, <2>2 DEF TornIsLast
<1>14. HasLast'
  <2>1. \A i \in Events \cup {n} : i <= n
    BY <1>5, EventFacts
  <2> QED
    BY <1>4, <2>1 DEF HasLast
<1>15. CacheIsTrue'
  <2> SUFFICES ASSUME NEW v \in Emitters
               PROVE  /\ tail'[v].lines <= n
                      /\ \A i \in Events \cup {n} : i <= tail'[v].lines =>
                           stream'[i].seq <= tail'[v].last /\ stream'[i].id \in tail'[v].ids
                      /\ \/ tail'[v].last = 0
                         \/ \E i \in Events \cup {n} :
                              i <= tail'[v].lines /\ stream'[i].seq = tail'[v].last
    BY <1>4 DEF CacheIsTrue
  <2>1. CASE v = w
    <3>1. n <= n /\ e.seq <= e.seq /\ e.seq \in Nat
      BY <1>1, <1>2, EventFacts DEF Tails
    <3>2. \A i \in Events : stream'[i].seq <= e.seq /\ stream'[i].id \in tail[w].ids
      BY <1>5, <1>8, <1>9, <3>1, EventFacts
    <3> QED
      BY <1>4, <1>11, <2>1, <3>1, <3>2
  <2>2. CASE v # w
    <3>1. tail'[v] = tail[v] /\ tail[v] \in Tails
      BY <1>11, <2>2 DEF StreamCore, StreamTypeOK
    <3>2. tail[v].lines <= Len(stream)
      BY <1>7 DEF StreamCore, CacheIsTrue
    <3>3. tail[v].lines < n
      BY <3>1, <3>2, EventFacts DEF Tails
    <3>4. tail[v].lines <= n /\ ~(n <= tail[v].lines)
      BY <3>1, <3>3, EventFacts DEF Tails
    <3> QED
      BY <1>5, <3>1, <3>4 DEF StreamCore, CacheIsTrue
  <2> QED
    BY <2>1, <2>2
<1>16. WriterIsCurrent'
  <2>1. \A v \in Emitters : pending'[v] = NoEvent
    BY <1>6 DEF StreamCore, StreamTypeOK, WriteEvent
  <2> QED
    BY <2>1 DEF WriterIsCurrent
<1>17. NobodyIsAhead'
  BY <1>4, <1>5 DEF StreamCore, NobodyIsAhead, WriteEvent
<1>18. Numbered'
  <2> SUFFICES ASSUME NEW i \in Events \cup {n}
               PROVE  /\ \A j \in Events \cup {n} : j < i => stream'[j].seq < stream'[i].seq
                      /\ \/ stream'[i].seq = 1
                         \/ \E j \in Events \cup {n} : stream'[j].seq = stream'[i].seq - 1
    BY <1>4 DEF Numbered
  <2>1. CASE i = n
    <3>1. ~(n < n)
      BY EventFacts
    <3> QED
      BY <1>4, <1>5, <1>9, <1>10, <2>1, <3>1
  <2>2. CASE i \in Events
    <3>1. ~(n < i)
      BY <1>5, <2>2, EventFacts
    <3> QED
      BY <1>5, <2>2, <3>1 DEF StreamCore, Numbered
  <2> QED
    BY <2>1, <2>2
<1>19. Once'
  BY <1>4, <1>5, <1>9 DEF StreamCore, Once
<1>20. Complete'
  <2> SUFFICES ASSUME NEW r \in Readers, NEW i \in Events \cup {n}, stream'[i].seq <= cursor[r]
               PROVE  stream'[i].id \in seen[r]
    BY <1>4 DEF Complete, WriteEvent
  <2>1. CASE i \in Events
    BY <1>5, <2>1 DEF StreamCore, Complete
  <2>2. CASE i = n
    <3>1. e.seq <= cursor[r] /\ e.seq \in Nat \ {0}
      BY <1>1, <1>2, <1>4, <2>2 DEF Tails
    <3>2. cursor[r] = 0 \/ \E k \in Events : stream[k].seq = cursor[r]
      BY DEF StreamCore, NobodyIsAhead
    <3>3. cursor[r] = 0 \/ cursor[r] < e.seq
      BY <1>9, <3>2
    <3>4. cursor[r] \in Nat
      BY DEF StreamCore, StreamTypeOK
    <3> QED
      BY <3>1, <3>3, <3>4
  <2> QED
    BY <2>1, <2>2
<1> QED
  BY <1>12, <1>13, <1>14, <1>15, <1>16, <1>17, <1>18, <1>19, <1>20 DEF StreamCore

\* A line that is cut short in its text is no event.
LEMMA TearKeeps ==
  ASSUME TearPoints \subseteq {"body"},
         StreamCore, NEW w \in Emitters, TearEvent(w)
  PROVE  StreamCore'
<1> DEFINE n == Len(stream) + 1
           e == EventLine(w, FALSE, FALSE)
<1>1. tail[w] \in Tails /\ pending[w] \in EventIds
  BY DEF StreamCore, StreamTypeOK, TearEvent
<1>2. e \in Lines /\ ~e.whole /\ ~e.ended
  BY <1>1 DEF EventLine, Lines, Tails
<1>3. stream' = Append(stream, e)
  BY DEF TearEvent
<1> HIDE DEF e
<1>4. /\ stream' \in Seq(Lines)
      /\ Len(stream') = n
      /\ DOMAIN stream' = 1..n
      /\ \A i \in 1..Len(stream) : stream'[i] = stream[i]
      /\ stream'[n] = e
      /\ Events' = Events
      /\ Torn'
      /\ EndedLines' = Len(stream)
  BY <1>2, <1>3, AppendFacts
<1>5. \A i \in Events : stream'[i] = stream[i]
  BY <1>4, EventFacts
<1>6. ~Torn /\ \A v \in Emitters : pending[v] # NoEvent => v = w
  BY DEF StreamCore, WriterIsCurrent, TearEvent
<1>7. EndedLines' = EndedLines
  BY <1>4, <1>6 DEF EndedLines
<1>8. StreamTypeOK'
  BY <1>4 DEF StreamCore, StreamTypeOK, TearEvent
<1>9. TornIsLast'
  <2>1. \A i \in 1..n : i # n => stream'[i] = stream[i] /\ i \in 1..Len(stream)
    BY <1>4, EventFacts
  <2>2. \A i \in 1..Len(stream) : stream[i].ended
    <3>1. stream \in Seq(Lines) /\ DOMAIN stream = 1..Len(stream)
      BY LenProperties DEF StreamCore, StreamTypeOK
    <3>2. stream = <<>> => Len(stream) = 0
      BY <3>1, EmptySeq
    <3> QED
      BY <1>6, <3>1, <3>2 DEF Torn, StreamCore, TornIsLast
  <2> QED
    BY <1>2, <1>4, <2>1, <2>2 DEF TornIsLast
<1>10. HasLast'
  BY <1>4 DEF StreamCore, HasLast
<1>11. CacheIsTrue'
  BY <1>4, <1>5, <1>7 DEF StreamCore, CacheIsTrue, TearEvent
<1>12. WriterIsCurrent'
  <2>1. \A v \in Emitters : pending'[v] = NoEvent
    BY <1>6 DEF StreamCore, StreamTypeOK, TearEvent
  <2> QED
    BY <2>1 DEF WriterIsCurrent
<1>13. NobodyIsAhead' /\ Complete'
  BY <1>4, <1>5 DEF StreamCore, NobodyIsAhead, Complete, TearEvent
<1>14. Numbered' /\ Once'
  BY <1>4, <1>5 DEF StreamCore, Numbered, Once
<1> QED
  BY <1>8, <1>9, <1>10, <1>11, <1>12, <1>13, <1>14 DEF StreamCore

LEMMA ReplaceKeeps ==
  ASSUME StreamCore, NEW w \in Emitters, ReplaceEmitter(w)
  PROVE  StreamCore'
<1>1. NewTail \in Tails /\ NewTail.lines = 0 /\ NewTail.last = 0
  BY DEF NewTail, Tails
<1>2. stream' = stream /\ Events' = Events /\ EndedLines' = EndedLines /\ Torn' = Torn
  BY DEF ReplaceEmitter, Events, EndedLines, Torn
<1>3. /\ tail'[w] = NewTail /\ pending'[w] = NoEvent
      /\ \A v \in Emitters : v # w => tail'[v] = tail[v] /\ pending'[v] = pending[v]
  BY DEF StreamCore, StreamTypeOK, ReplaceEmitter
<1>4. StreamTypeOK'
  BY <1>1 DEF StreamCore, StreamTypeOK, ReplaceEmitter
<1>5. CacheIsTrue'
  <2> SUFFICES ASSUME NEW v \in Emitters
               PROVE  /\ tail'[v].lines <= EndedLines
                      /\ \A i \in Events : i <= tail'[v].lines =>
                           stream[i].seq <= tail'[v].last /\ stream[i].id \in tail'[v].ids
                      /\ \/ tail'[v].last = 0
                         \/ \E i \in Events : i <= tail'[v].lines /\ stream[i].seq = tail'[v].last
    BY <1>2 DEF CacheIsTrue
  <2>1. CASE v = w
    <3>1. \A i \in Events : ~(i <= 0)
      BY EventFacts
    <3>2. 0 <= EndedLines
      BY EventFacts
    <3> QED
      BY <1>1, <1>3, <2>1, <3>1, <3>2
  <2>2. CASE v # w
    BY <1>3, <2>2 DEF StreamCore, CacheIsTrue
  <2> QED
    BY <2>1, <2>2
<1>6. WriterIsCurrent'
  BY <1>2, <1>3 DEF StreamCore, WriterIsCurrent
<1>7. TornIsLast' /\ HasLast' /\ Numbered' /\ Once'
  BY <1>2 DEF StreamCore, TornIsLast, HasLast, Numbered, Once
<1>8. NobodyIsAhead' /\ Complete'
  BY <1>2 DEF StreamCore, NobodyIsAhead, Complete, ReplaceEmitter
<1> QED
  BY <1>4, <1>5, <1>6, <1>7, <1>8 DEF StreamCore

\* A client that reads gets every event, up to the last one.
LEMMA ReplayKeeps ==
  ASSUME StreamCore, NEW r \in Readers, Replay(r)
  PROVE  StreamCore'
<1> DEFINE found == {i \in Events : stream[i].seq > cursor[r]}
           last == CHOOSE i \in found : \A j \in found : j <= i
<1>1. PICK t \in Events : \A i \in Events : i <= t
  BY DEF Replay, StreamCore, HasLast
<1>2. cursor[r] \in Nat
  BY DEF StreamCore, StreamTypeOK
<1>3. \A i \in Events : stream[i].seq <= stream[t].seq
  BY <1>1, EventFacts DEF StreamCore, Numbered
<1>4. t \in found
  BY <1>2, <1>3, EventFacts DEF Replay
<1>5. last \in found /\ \A j \in found : j <= last
  BY <1>1, <1>4
<1>6. last = t
  BY <1>1, <1>4, <1>5, EventFacts
<1>7. /\ cursor' = [cursor EXCEPT ![r] = stream[t].seq]
      /\ seen' = [seen EXCEPT ![r] = @ \cup {stream[i].id : i \in found}]
  BY <1>6 DEF Replay, LastNumber
<1>8. stream' = stream /\ removed' = removed /\ tail' = tail /\ pending' = pending
  BY DEF Replay
<1>9. StreamTypeOK'
  <2>1. {stream[i].id : i \in found} \subseteq EventIds
    BY EventFacts DEF Lines
  <2>2. stream[t].seq \in Nat
    BY <1>1, EventFacts
  <2> QED
    BY <1>7, <1>8, <2>1, <2>2 DEF StreamCore, StreamTypeOK
<1>10. TornIsLast' /\ HasLast' /\ CacheIsTrue' /\ WriterIsCurrent' /\ Numbered' /\ Once'
  BY <1>8 DEF StreamCore, TornIsLast, HasLast, CacheIsTrue, WriterIsCurrent, Numbered, Once,
              Events, EndedLines, Torn
<1>11. NobodyIsAhead'
  BY <1>1, <1>7, <1>8 DEF StreamCore, StreamTypeOK, NobodyIsAhead, Events
<1>12. Complete'
  <2> SUFFICES ASSUME NEW q \in Readers, NEW i \in Events, stream[i].seq <= cursor'[q]
               PROVE  stream[i].id \in seen'[q]
    BY <1>8 DEF Complete, Events
  <2>1. CASE q = r
    <3>1. CASE i \in found
      BY <1>7, <2>1, <3>1 DEF StreamCore, StreamTypeOK
    <3>2. CASE i \notin found
      <4>1. stream[i].seq <= cursor[r]
        BY <1>2, <3>2, EventFacts
      <4>2. stream[i].id \in seen[r]
        BY <4>1 DEF StreamCore, Complete
      <4> QED
        BY <1>7, <2>1, <4>2 DEF StreamCore, StreamTypeOK
    <3> QED
      BY <3>1, <3>2
  <2>2. CASE q # r
    BY <1>7, <2>2 DEF StreamCore, StreamTypeOK, Complete
  <2> QED
    BY <2>1, <2>2
<1> QED
  BY <1>9, <1>10, <1>11, <1>12 DEF StreamCore

LEMMA StreamInvNext ==
  ASSUME TearPoints \subseteq {"body"}
  PROVE  StreamInv /\ [StreamNext]_streamVars => StreamInv'
<1> SUFFICES ASSUME StreamInv, [StreamNext]_streamVars
             PROVE  StreamInv'
  OBVIOUS
<1>1. CASE removed = TRUE
  BY <1>1 DEF StreamInv, StreamNext, streamVars, Emit, WriteEvent, TearEvent, ReplaceEmitter,
              RemoveStream, Replay
<1>2. CASE removed # TRUE
  <2> USE <1>2 DEF StreamInv
  <2>1. ASSUME NEW w \in Emitters, NEW id \in EventIds, Emit(w, id) PROVE StreamInv'
    BY <2>1, EmitKeeps
  <2>2. ASSUME NEW w \in Emitters, WriteEvent(w) PROVE StreamInv'
    BY <2>2, WriteKeeps
  <2>3. ASSUME NEW w \in Emitters, TearEvent(w) PROVE StreamInv'
    BY <2>3, TearKeeps
  <2>4. ASSUME NEW w \in Emitters, ReplaceEmitter(w) PROVE StreamInv'
    BY <2>4, ReplaceKeeps
  <2>5. ASSUME NEW w \in Emitters, RemoveStream(w) PROVE StreamInv'
    BY <2>5 DEF RemoveStream
  <2>6. ASSUME NEW r \in Readers, Replay(r) PROVE StreamInv'
    BY <2>6, ReplayKeeps
  <2>7. CASE UNCHANGED streamVars
    BY <2>7 DEF streamVars, StreamCore, StreamTypeOK, TornIsLast, HasLast, CacheIsTrue,
                WriterIsCurrent, NobodyIsAhead, Numbered, Once, Complete, Events, EndedLines, Torn
  <2> QED
    BY <2>1, <2>2, <2>3, <2>4, <2>5, <2>6, <2>7 DEF StreamNext
<1> QED
  BY <1>1, <1>2

-----------------------------------------------------------------------------
(* Shapes.  They do not depend on what the invariant says of the events, nor *)
(* on where writes are cut short, and are kept after the conversation too.   *)

\* The numbers in the file have a bound, so an emitter finds a last one.
SeqBounded == \E n \in Nat : \A i \in DOMAIN stream : stream[i].seq <= n

StreamShape == StreamTypeOK /\ SeqBounded

\* A set of numbers that has a bound has a largest one.
LEMMA Greatest ==
  ASSUME NEW T, T \subseteq Nat, T # {}, NEW n \in Nat, \A y \in T : y <= n
  PROVE  \E x \in T : \A y \in T : y <= x
<1> DEFINE less == OpToRel(<, Nat)
           below == {k \in Nat : \E y \in T : k + y = n}
<1>1. below # {} /\ below \subseteq Nat
  <2>1. PICK y \in T : TRUE
    OBVIOUS
  <2>2. y \in Nat /\ y <= n
    BY <2>1
  <2>3. n - y \in Nat /\ (n - y) + y = n
    BY <2>2
  <2> QED
    BY <2>1, <2>3
<1>2. PICK k \in below : \A j \in below : <<j, k>> \notin less
  <2>1. IsWellFoundedOn(less, Nat)
    BY NatLessThanWellFounded
  <2> HIDE DEF less, below
  <2> QED
    BY <1>1, <2>1, WFMin
<1>3. PICK x \in T : k + x = n
  BY <1>2
<1>4. ASSUME NEW y \in T, ~(y <= x)
      PROVE  FALSE
  <2>1. x \in Nat /\ y \in Nat /\ k \in Nat /\ y <= n
    BY <1>2
  <2>2. n - y \in Nat /\ n - y < k /\ (n - y) + y = n
    BY <1>3, <1>4, <2>1
  <2>3. <<n - y, k>> \in less
    BY <2>1, <2>2 DEF OpToRel
  <2>4. n - y \in below
    BY <2>2
  <2> HIDE DEF less, below
  <2> QED
    BY <1>2, <2>3, <2>4
<1> QED
  BY <1>3, <1>4

LEMMA LineTypes ==
  ASSUME StreamTypeOK
  PROVE  /\ Len(stream) \in Nat
         /\ DOMAIN stream = 1..Len(stream)
         /\ \A i \in DOMAIN stream :
              stream[i] \in Lines /\ stream[i].seq \in Nat \ {0} /\ stream[i].id \in EventIds
         /\ Torn => Len(stream) \in DOMAIN stream
<1>1. Len(stream) \in Nat /\ DOMAIN stream = 1..Len(stream)
      /\ \A i \in 1..Len(stream) : stream[i] \in Lines
  BY LenProperties, ElementOfSeq DEF StreamTypeOK
<1>2. Torn => Len(stream) # 0
  BY EmptySeq DEF Torn, StreamTypeOK
<1> QED
  BY <1>1, <1>2 DEF Lines

\* Whatever an emitter had read, and of whatever file, its cache has its shape.
LEMMA ReadTailType ==
  ASSUME StreamShape, NEW w \in Emitters
  PROVE  ReadTail(w) \in Tails
<1> DEFINE numbers == {CachedTail(w).last} \cup {stream[i].seq : i \in NewEvents(w)}
           m == CHOOSE n \in numbers : \A k \in numbers : k <= n
<1>1. CachedTail(w) \in Tails
  BY DEF StreamShape, StreamTypeOK, CachedTail, NewTail, Tails
<1>2. CachedTail(w).last \in Nat /\ CachedTail(w).ids \subseteq EventIds
  BY <1>1 DEF Tails
<1>3. NewEvents(w) \subseteq DOMAIN stream
  BY DEF NewEvents, Events
<1>4. \A i \in NewEvents(w) : stream[i].seq \in Nat /\ stream[i].id \in EventIds
  BY <1>3, LineTypes DEF StreamShape
<1>5. numbers \subseteq Nat /\ numbers # {}
  BY <1>2, <1>4
<1>6. \E x \in numbers : \A y \in numbers : y <= x
  <2>1. PICK n \in Nat : \A i \in DOMAIN stream : stream[i].seq <= n
    BY DEF StreamShape, SeqBounded
  <2>2. \A a, b, c \in Nat : a <= b => a <= b + c /\ c <= b + c /\ b + c \in Nat
    OBVIOUS
  <2>3. n <= n
    OBVIOUS
  <2>4. \A y \in numbers : y <= n + CachedTail(w).last
    BY <1>2, <1>3, <1>4, <2>1, <2>2, <2>3
  <2>5. n + CachedTail(w).last \in Nat
    BY <1>2
  <2> HIDE DEF numbers
  <2> QED
    BY <1>5, <2>4, <2>5, Greatest
<1>7. m \in Nat
  BY <1>5, <1>6
<1>8. ReadTail(w) = [lines |-> Len(stream), last |-> m,
                     ids |-> CachedTail(w).ids \cup {stream[i].id : i \in NewEvents(w)}]
  BY DEF ReadTail
<1>9. Len(stream) \in Nat
  BY LineTypes DEF StreamShape
<1> HIDE DEF m
<1> QED
  BY <1>2, <1>4, <1>7, <1>8, <1>9 DEF Tails

LEMMA RepairedShape ==
  ASSUME StreamShape, stream' = Repaired
  PROVE  stream' \in Seq(Lines) /\ SeqBounded'
<1>1. CASE Torn
  <2> DEFINE n == Len(stream)
             line == [stream[n] EXCEPT !.ended = TRUE]
  <2>1. n \in 1..Len(stream) /\ stream \in Seq(Lines) /\ stream[n] \in Lines
    BY <1>1, LineTypes DEF StreamShape, StreamTypeOK
  <2>2. stream' = [stream EXCEPT ![n] = line]
    BY <1>1 DEF Repaired
  <2>3. line \in Lines /\ line.seq = stream[n].seq
    BY <2>1 DEF Lines
  <2> HIDE DEF line
  <2>4. stream' \in Seq(Lines)
    BY <2>1, <2>2, <2>3, ExceptSeq
  <2>5. DOMAIN stream' = DOMAIN stream /\ \A i \in DOMAIN stream : stream'[i].seq = stream[i].seq
    BY <2>2, <2>3
  <2> QED
    BY <2>4, <2>5 DEF StreamShape, SeqBounded
<1>2. CASE ~Torn
  BY <1>2 DEF Repaired, StreamShape, StreamTypeOK, SeqBounded
<1> QED
  BY <1>1, <1>2

LEMMA AppendedShape ==
  ASSUME StreamShape, NEW e \in Lines, stream' = Append(stream, e)
  PROVE  stream' \in Seq(Lines) /\ SeqBounded'
<1>1. stream \in Seq(Lines) /\ Len(stream) \in Nat /\ DOMAIN stream = 1..Len(stream)
  BY LineTypes DEF StreamShape, StreamTypeOK
<1>2. /\ stream' \in Seq(Lines)
      /\ Len(stream') = Len(stream) + 1
      /\ \A i \in 1..Len(stream) : stream'[i] = stream[i]
      /\ stream'[Len(stream) + 1] = e
  BY <1>1, AppendProperties
<1>3. DOMAIN stream' = 1..(Len(stream) + 1)
  BY <1>2, LenProperties
<1>4. PICK n \in Nat : \A i \in DOMAIN stream : stream[i].seq <= n
  BY DEF StreamShape, SeqBounded
<1>5. e.seq \in Nat /\ \A i \in DOMAIN stream : stream[i].seq \in Nat
  BY LineTypes DEF StreamShape, Lines
<1>6. \A a \in Nat : (a <= n => a <= n + e.seq) /\ (a = e.seq => a <= n + e.seq)
  BY <1>5
<1>7. \A i \in 1..(Len(stream) + 1) : i \in 1..Len(stream) \/ i = Len(stream) + 1
  BY <1>1
<1>8. \A i \in DOMAIN stream' : stream'[i].seq <= n + e.seq
  BY <1>1, <1>2, <1>3, <1>4, <1>5, <1>6, <1>7
<1>9. n + e.seq \in Nat
  BY <1>5
<1> QED
  BY <1>2, <1>8, <1>9 DEF SeqBounded

LEMMA ShapeNext ==
  ASSUME StreamShape, [StreamNext]_streamVars
  PROVE  StreamShape'
<1>1. /\ stream \in Seq(Lines) /\ removed \in BOOLEAN
      /\ tail \in [Emitters -> Tails]
      /\ pending \in [Emitters -> EventIds \cup {NoEvent}]
      /\ cursor \in [Readers -> Nat]
      /\ seen \in [Readers -> SUBSET EventIds]
      /\ SeqBounded
  BY DEF StreamShape, StreamTypeOK
<1>2. NewTail \in Tails
  BY DEF NewTail, Tails
<1>3. ASSUME NEW w \in Emitters, NEW id \in EventIds, Emit(w, id)
      PROVE  StreamShape'
  <2>1. stream' \in Seq(Lines) /\ SeqBounded'
    BY <1>3, RepairedShape DEF Emit
  <2>2. tail' \in [Emitters -> Tails]
    BY <1>1, <1>3, ReadTailType DEF Emit
  <2>3. pending' \in [Emitters -> EventIds \cup {NoEvent}]
    BY <1>1, <1>3 DEF Emit
  <2> QED
    BY <1>1, <1>3, <2>1, <2>2, <2>3 DEF StreamShape, StreamTypeOK, Emit
<1>4. ASSUME NEW w \in Emitters, pending[w] # NoEvent
      PROVE  /\ \A whole, ended \in BOOLEAN : EventLine(w, whole, ended) \in Lines
             /\ [pending EXCEPT ![w] = NoEvent] \in [Emitters -> EventIds \cup {NoEvent}]
  <2>1. tail[w].last + 1 \in Nat \ {0} /\ pending[w] \in EventIds
    BY <1>1, <1>4 DEF Tails
  <2> QED
    BY <1>1, <2>1 DEF EventLine, Lines
<1>5. ASSUME NEW w \in Emitters, WriteEvent(w)
      PROVE  StreamShape'
  <2>1. stream' \in Seq(Lines) /\ SeqBounded'
    BY <1>4, <1>5, AppendedShape DEF WriteEvent
  <2>2. tail' \in [Emitters -> Tails]
    <3>1. [lines |-> tail[w].lines + 1, last |-> tail[w].last + 1,
           ids |-> tail[w].ids \cup {pending[w]}] \in Tails
      BY <1>1, <1>5 DEF Tails, WriteEvent
    <3> QED
      BY <1>1, <1>5, <3>1 DEF WriteEvent
  <2> QED
    BY <1>1, <1>4, <1>5, <2>1, <2>2 DEF StreamShape, StreamTypeOK, WriteEvent
<1>6. ASSUME NEW w \in Emitters, TearEvent(w)
      PROVE  StreamShape'
  <2>1. PICK p \in TearPoints : stream' = Append(stream, EventLine(w, p = "newline", FALSE))
    BY <1>6 DEF TearEvent
  <2>2. EventLine(w, p = "newline", FALSE) \in Lines
    BY <1>4, <1>6 DEF TearEvent
  <2>3. stream' \in Seq(Lines) /\ SeqBounded'
    BY <2>1, <2>2, AppendedShape
  <2> QED
    BY <1>1, <1>4, <1>6, <2>3 DEF StreamShape, StreamTypeOK, TearEvent
<1>7. ASSUME NEW w \in Emitters, ReplaceEmitter(w)
      PROVE  StreamShape'
  BY <1>1, <1>2, <1>7 DEF StreamShape, StreamTypeOK, SeqBounded, ReplaceEmitter
<1>8. ASSUME NEW w \in Emitters, RemoveStream(w)
      PROVE  StreamShape'
  <2>1. stream' = <<>> /\ DOMAIN stream' = {} /\ stream' \in Seq(Lines) /\ SeqBounded'
    BY <1>8, EmptySeq DEF RemoveStream, SeqBounded
  <2> QED
    BY <1>1, <1>2, <1>8, <2>1 DEF StreamShape, StreamTypeOK, RemoveStream
<1>9. ASSUME NEW r \in Readers, Replay(r)
      PROVE  StreamShape'
  <2> DEFINE found == {i \in Events : stream[i].seq > cursor[r]}
             last == CHOOSE i \in found : \A j \in found : j <= i
  <2>1. found \subseteq DOMAIN stream /\ found # {}
    BY <1>9 DEF Replay, Events
  <2>2. \A i \in found : stream[i].seq \in Nat /\ stream[i].id \in EventIds
    BY <2>1, LineTypes DEF StreamShape
  <2>3. \E x \in found : \A y \in found : y <= x
    <3>1. found \subseteq Nat /\ Len(stream) \in Nat /\ \A y \in found : y <= Len(stream)
      BY <2>1, LineTypes DEF StreamShape
    <3> HIDE DEF found
    <3> QED
      BY <2>1, <3>1, Greatest
  <2>4. last \in found
    BY <2>3
  <2>5. /\ cursor' = [cursor EXCEPT ![r] = stream[last].seq]
        /\ seen' = [seen EXCEPT ![r] = @ \cup {stream[i].id : i \in found}]
        /\ UNCHANGED <<stream, removed, tail, pending>>
    BY <1>9 DEF Replay, LastNumber
  <2> HIDE DEF found, last
  <2>6. cursor' \in [Readers -> Nat] /\ seen' \in [Readers -> SUBSET EventIds]
    BY <1>1, <2>2, <2>4, <2>5
  <2> QED
    BY <1>1, <2>5, <2>6 DEF StreamShape, StreamTypeOK, SeqBounded
<1>10. CASE UNCHANGED streamVars
  BY <1>1, <1>10 DEF StreamShape, StreamTypeOK, SeqBounded, streamVars
<1> QED
  BY <1>3, <1>5, <1>6, <1>7, <1>8, <1>9, <1>10 DEF StreamNext

-----------------------------------------------------------------------------
(* The abstract log.                                                        *)

\* A client has nothing but events up to its last number.
OnlyEvents ==
  \A r \in Readers : \A x \in seen[r] :
    \E i \in Events : stream[i].id = x /\ stream[i].seq <= cursor[r]

LogInv == removed = TRUE \/ (StreamCore /\ OnlyEvents)

\* What the log shows of a line.
Shown(line) == [seq |-> line.seq, id |-> line.id]

LEMMA ShownFields ==
  \A line : Shown(line).seq = line.seq /\ Shown(line).id = line.id
BY DEF Shown

\* A step that changes no event and no client leaves the abstract log alone.
LEMMA EventsStay ==
  ASSUME StreamCore, removed = FALSE,
         Events' = Events,
         \A i \in Events : stream'[i].seq = stream[i].seq /\ stream'[i].id = stream[i].id,
         UNCHANGED <<removed, cursor, seen>>
  PROVE  UNCHANGED EventStream!logVars /\ (OnlyEvents => OnlyEvents')
<1>1. PublishedEvents' = PublishedEvents
  BY DEF PublishedEvents
<1>2. OnlyEvents => OnlyEvents'
  BY DEF OnlyEvents
<1> QED
  BY <1>1, <1>2 DEF EventStream!logVars

\* A written line is the next event of the log.
LEMMA WritePublishes ==
  ASSUME StreamCore, removed = FALSE, NEW w \in Emitters, WriteEvent(w)
  PROVE  EventStream!LogNext /\ (OnlyEvents => OnlyEvents')
<1> DEFINE n == Len(stream) + 1
           e == EventLine(w, TRUE, TRUE)
<1>1. tail[w] \in Tails /\ pending[w] \in EventIds
  BY DEF StreamCore, StreamTypeOK, WriteEvent
<1>2. e \in Lines /\ e.seq = tail[w].last + 1 /\ e.id = pending[w] /\ e.whole
  BY <1>1 DEF EventLine, Lines, Tails
<1>3. stream' = Append(stream, e)
  BY DEF WriteEvent
<1> HIDE DEF e
<1>4. /\ \A i \in 1..Len(stream) : stream'[i] = stream[i]
      /\ stream'[n] = e
      /\ Events' = Events \cup {n}
  BY <1>2, <1>3, AppendFacts
<1>5. \A i \in Events : stream'[i] = stream[i]
  BY <1>4, EventFacts
<1>6. \A i \in Events : stream[i].seq <= tail[w].last /\ stream[i].id # pending[w]
  <2>1. \A i \in Events : i <= tail[w].lines
    BY EventFacts DEF StreamCore, WriterIsCurrent, WriteEvent
  <2>2. pending[w] \notin tail[w].ids
    BY DEF StreamCore, WriterIsCurrent, WriteEvent
  <2> QED
    BY <2>1, <2>2 DEF StreamCore, CacheIsTrue
<1>7. PublishedEvents = {Shown(stream[i]) : i \in Events}
  BY DEF PublishedEvents, Shown
<1>8. PublishedEvents' = PublishedEvents \cup {[seq |-> tail[w].last + 1, id |-> pending[w]]}
  <2>1. PublishedEvents' = {Shown(stream'[i]) : i \in Events'}
    BY DEF PublishedEvents, Shown, WriteEvent
  <2>2. \A i \in Events : Shown(stream'[i]) = Shown(stream[i])
    BY <1>5
  <2>3. Shown(stream'[n]) = [seq |-> tail[w].last + 1, id |-> pending[w]]
    BY <1>2, <1>4 DEF Shown
  <2> QED
    BY <1>4, <1>7, <2>1, <2>2, <2>3
<1>9. EventStream!Numbers = {stream[i].seq : i \in Events}
  BY <1>7, ShownFields DEF EventStream!Numbers
<1>10. tail[w].last \in EventStream!Numbers \cup {0}
  BY <1>9 DEF StreamCore, CacheIsTrue
<1>11. \A k \in EventStream!Numbers : k <= tail[w].last
  BY <1>6, <1>9
<1>12. pending[w] \notin {x.id : x \in PublishedEvents}
  BY <1>6, <1>7, ShownFields
<1>13. EventStream!Publish(pending[w])
  BY <1>8, <1>10, <1>11, <1>12 DEF EventStream!Publish, WriteEvent
<1>14. ASSUME OnlyEvents PROVE OnlyEvents'
  <2>1. cursor' = cursor /\ seen' = seen
    BY DEF WriteEvent
  <2>2. ASSUME NEW r \in Readers, NEW x \in seen[r]
        PROVE  \E i \in Events' : stream'[i].id = x /\ stream'[i].seq <= cursor[r]
    <3>1. PICK i \in Events : stream[i].id = x /\ stream[i].seq <= cursor[r]
      BY <1>14 DEF OnlyEvents
    <3> QED
      BY <1>4, <1>5, <3>1
  <2> QED
    BY <2>1, <2>2 DEF OnlyEvents
<1> QED
  BY <1>1, <1>13, <1>14 DEF EventStream!LogNext

\* What a client reads, with what it had, is every event up to the last one.
LEMMA ReplayDelivers ==
  ASSUME StreamCore, OnlyEvents, removed = FALSE, NEW r \in Readers, Replay(r)
  PROVE  EventStream!LogNext /\ OnlyEvents'
<1> DEFINE found == {i \in Events : stream[i].seq > cursor[r]}
           last == CHOOSE i \in found : \A j \in found : j <= i
<1>1. PICK t \in Events : \A i \in Events : i <= t
  BY DEF Replay, StreamCore, HasLast
<1>2. cursor \in [Readers -> Nat] /\ seen \in [Readers -> SUBSET EventIds]
  BY DEF StreamCore, StreamTypeOK
<1>3. \A i \in Events : stream[i].seq <= stream[t].seq
  BY <1>1, EventFacts DEF StreamCore, Numbered
<1>4. t \in found
  BY <1>2, <1>3, EventFacts DEF Replay
<1>5. last = t
  BY <1>1, <1>4, EventFacts
<1>6. /\ cursor' = [cursor EXCEPT ![r] = stream[t].seq]
      /\ seen' = [seen EXCEPT ![r] = @ \cup {stream[i].id : i \in found}]
  BY <1>5 DEF Replay, LastNumber
<1>7. stream' = stream /\ removed' = removed /\ Events' = Events
  BY DEF Replay, Events
<1>8. seen[r] \cup {stream[i].id : i \in found} = {stream[i].id : i \in Events}
  <2>1. \A x \in seen[r] : \E i \in Events : stream[i].id = x
    BY DEF OnlyEvents
  <2>2. ASSUME NEW i \in Events, i \notin found PROVE stream[i].id \in seen[r]
    <3>1. stream[i].seq <= cursor[r]
      BY <1>2, <2>2, EventFacts
    <3> QED
      BY <3>1 DEF StreamCore, Complete
  <2> QED
    BY <2>1, <2>2
<1>9. PublishedEvents = {Shown(stream[i]) : i \in Events}
  BY DEF PublishedEvents, Shown
<1>10. EventStream!IdsUpTo(stream[t].seq) = {stream[i].id : i \in Events}
  BY <1>3, <1>9, ShownFields DEF EventStream!IdsUpTo
<1>11. stream[t].seq \in EventStream!Numbers /\ stream[t].seq > cursor[r]
  BY <1>4, <1>9, ShownFields DEF EventStream!Numbers
<1>12. EventStream!Deliver(r)
  <2>1. seen' = [seen EXCEPT ![r] = EventStream!IdsUpTo(stream[t].seq)]
    BY <1>6, <1>8, <1>10
  <2>2. PublishedEvents' = PublishedEvents
    BY <1>7 DEF PublishedEvents
  <2> QED
    BY <1>6, <1>7, <1>11, <2>1, <2>2 DEF EventStream!Deliver
<1>13. OnlyEvents'
  <2> SUFFICES ASSUME NEW q \in Readers, NEW x \in seen'[q]
               PROVE  \E i \in Events : stream[i].id = x /\ stream[i].seq <= cursor'[q]
    BY <1>7 DEF OnlyEvents
  <2>1. CASE q = r
    <3>1. x \in {stream[i].id : i \in Events} /\ cursor'[q] = stream[t].seq
      BY <1>2, <1>6, <1>8, <2>1
    <3> QED
      BY <1>3, <3>1
  <2>2. CASE q # r
    BY <1>2, <1>6, <2>2 DEF OnlyEvents
  <2> QED
    BY <2>1, <2>2
<1> QED
  BY <1>12, <1>13 DEF EventStream!LogNext

\* Each step of the stream is one of the log, or leaves it alone; after the deletion
\* all do, whatever late emitters write.
LEMMA StepsOfLog ==
  ASSUME TearPoints \subseteq {"body"}, LogInv, [StreamNext]_streamVars
  PROVE  [EventStream!LogNext]_(EventStream!logVars) /\ LogInv'
<1>1. CASE removed = TRUE
  <2>1. removed' = TRUE /\ cursor' = cursor /\ seen' = seen
    BY <1>1 DEF StreamNext, streamVars, Emit, WriteEvent, TearEvent, ReplaceEmitter,
                RemoveStream, Replay
  <2>2. PublishedEvents = {} /\ PublishedEvents' = {}
    BY <1>1, <2>1 DEF PublishedEvents
  <2> QED
    BY <1>1, <2>1, <2>2 DEF LogInv, EventStream!logVars
<1>2. CASE removed # TRUE
  <2>1. StreamCore /\ OnlyEvents /\ removed = FALSE
    BY <1>2 DEF LogInv, StreamCore, StreamTypeOK
  <2>2. StreamInv'
    BY <2>1, StreamInvNext DEF StreamInv
  <2>3. OnlyEvents' => LogInv'
    BY <2>2 DEF LogInv, StreamInv
  <2>4. ASSUME NEW w \in Emitters, NEW id \in EventIds, Emit(w, id)
        PROVE  UNCHANGED EventStream!logVars /\ OnlyEvents'
    <3>1. \A i \in Events : stream'[i].seq = stream[i].seq /\ stream'[i].id = stream[i].id
      BY <2>1, <2>4, EmitFacts DEF Events
    <3>2. Events' = Events
      BY <2>1, <2>4, EmitFacts
    <3> QED
      BY <2>1, <2>4, <3>1, <3>2, EventsStay DEF Emit
  <2>5. ASSUME NEW w \in Emitters, WriteEvent(w)
        PROVE  EventStream!LogNext /\ OnlyEvents'
    BY <2>1, <2>5, WritePublishes
  <2>6. ASSUME NEW w \in Emitters, TearEvent(w)
        PROVE  UNCHANGED EventStream!logVars /\ OnlyEvents'
    <3> DEFINE e == EventLine(w, FALSE, FALSE)
    <3>1. tail[w] \in Tails /\ pending[w] \in EventIds
      BY <2>1, <2>6 DEF StreamCore, StreamTypeOK, TearEvent
    <3>2. e \in Lines /\ ~e.whole
      BY <3>1 DEF EventLine, Lines, Tails
    <3>3. stream' = Append(stream, e)
      BY <2>6 DEF TearEvent
    <3> HIDE DEF e
    <3>4. Events' = Events /\ \A i \in 1..Len(stream) : stream'[i] = stream[i]
      BY <2>1, <3>2, <3>3, AppendFacts
    <3>5. \A i \in Events : stream'[i].seq = stream[i].seq /\ stream'[i].id = stream[i].id
      BY <2>1, <3>4, EventFacts
    <3> QED
      BY <2>1, <2>6, <3>4, <3>5, EventsStay DEF TearEvent
  <2>7. ASSUME NEW w \in Emitters, ReplaceEmitter(w)
        PROVE  UNCHANGED EventStream!logVars /\ OnlyEvents'
    BY <2>1, <2>7, EventsStay DEF ReplaceEmitter, Events
  <2>8. ASSUME NEW w \in Emitters, RemoveStream(w)
        PROVE  EventStream!LogNext /\ LogInv'
    <3>1. EventStream!Close
      BY <2>1, <2>8 DEF RemoveStream, EventStream!Close, PublishedEvents
    <3> QED
      BY <2>8, <3>1 DEF EventStream!LogNext, LogInv, RemoveStream
  <2>9. ASSUME NEW r \in Readers, Replay(r)
        PROVE  EventStream!LogNext /\ OnlyEvents'
    BY <2>1, <2>9, ReplayDelivers
  <2>10. ASSUME UNCHANGED streamVars
         PROVE  UNCHANGED EventStream!logVars /\ OnlyEvents'
    BY <2>1, <2>10, EventsStay DEF streamVars, Events
  <2>11. CASE StreamNext
    BY <2>3, <2>4, <2>5, <2>6, <2>7, <2>8, <2>9, <2>11 DEF StreamNext
  <2>12. CASE UNCHANGED streamVars
    BY <2>3, <2>10, <2>12
  <2> QED
    BY <2>11, <2>12
<1> QED
  BY <1>1, <1>2

-----------------------------------------------------------------------------
(* The theorems.                                                            *)

LEMMA StreamInvariant ==
  ASSUME TearPoints \subseteq {"body"}
  PROVE  StreamSpec => []StreamInv
<1>1. StreamInv /\ [StreamNext]_streamVars => StreamInv'
  BY StreamInvNext
<1> QED
  BY <1>1, StreamInvInit, PTL DEF StreamSpec

\* The file, the caches and the clients keep their shapes, wherever writes are cut
\* short and after the conversation is deleted (agent/events.py).
THEOREM StreamTypes == StreamSpec => []StreamTypeOK
<1>1. StreamInit => StreamShape
  <2> SUFFICES ASSUME StreamInit
               PROVE  StreamShape
    OBVIOUS
  <2>1. stream = <<>> /\ DOMAIN stream = {} /\ stream \in Seq(Lines) /\ SeqBounded
    BY EmptySeq DEF StreamInit, SeqBounded
  <2>2. NewTail \in Tails
    BY DEF NewTail, Tails
  <2> QED
    BY <2>1, <2>2 DEF StreamInit, StreamShape, StreamTypeOK
<1>2. StreamShape /\ [StreamNext]_streamVars => StreamShape'
  BY ShapeNext
<1>3. StreamShape => StreamTypeOK
  BY DEF StreamShape
<1> QED
  BY <1>1, <1>2, <1>3, PTL DEF StreamSpec

\* The events of a conversation are numbered one after the other, by however
\* many requests they are emitted (AgentEventStream.emit).
THEOREM NumbersFollowOn ==
  ASSUME TearPoints \subseteq {"body"}
  PROVE  StreamSpec => []NumbersFollow
<1>1. StreamInv => NumbersFollow
  BY DEF StreamInv, StreamCore, Numbered, NumbersFollow
<1> QED
  BY <1>1, StreamInvariant, PTL

\* However many requests emit an event, it is in the file once.
THEOREM EmissionIsIdempotent ==
  ASSUME TearPoints \subseteq {"body"}
  PROVE  StreamSpec => []EmittedOnce
<1>1. StreamInv => EmittedOnce
  BY DEF StreamInv, StreamCore, Once, EmittedOnce
<1> QED
  BY <1>1, StreamInvariant, PTL

\* A client that asks for what comes after its last event misses none.
THEOREM ClientsMissNothing ==
  ASSUME TearPoints \subseteq {"body"}
  PROVE  StreamSpec => []NothingSkipped
<1>1. StreamInv => NothingSkipped
  BY DEF StreamInv, StreamCore, Complete, NothingSkipped
<1> QED
  BY <1>1, StreamInvariant, PTL

\* However many requests emit, wherever their writes are cut short and whenever the
\* conversation is deleted, the file is a log to which each event is added once, under the next
\* number, and of which each client has a beginning (AgentEventStream).
THEOREM StreamKeepsEventLog ==
  ASSUME TearPoints \subseteq {"body"}
  PROVE  StreamSpec => KeepsEventLog
<1>1. StreamInit => LogInv /\ EventStream!LogInit
  <2> SUFFICES ASSUME StreamInit
               PROVE  LogInv /\ EventStream!LogInit
    OBVIOUS
  <2>1. Events = {} /\ removed = FALSE
    BY DEF StreamInit, Events
  <2>2. StreamCore
    BY <2>1, StreamInvInit DEF StreamInv
  <2>3. OnlyEvents
    BY DEF StreamInit, OnlyEvents
  <2>4. PublishedEvents = {}
    BY <2>1 DEF PublishedEvents
  <2>5. EventStream!LogInit
    BY <2>4 DEF StreamInit, EventStream!LogInit
  <2> QED
    BY <2>2, <2>3, <2>5 DEF LogInv
<1>2. LogInv /\ [StreamNext]_streamVars => [EventStream!LogNext]_(EventStream!logVars) /\ LogInv'
  BY StepsOfLog
<1> QED
  BY <1>1, <1>2, PTL DEF StreamSpec, KeepsEventLog, EventStream!LogSpec

=============================================================================
