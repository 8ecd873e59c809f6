----------------------- MODULE AgentConversation_proofs -----------------------
(***************************************************************************)
(* For any sessions, any number of requests and entries, and wherever the    *)
(* server crashes: what a conversation was told it has stays on its branch,  *)
(* the messages of a turn stay together, a turn that ends was answered, a    *)
(* session that shows running has its turn or lost it in a crash, what the   *)
(* provider is not sent is in a summary, a branch changes only by what is    *)
(* asked of its conversation, and it can be read until a log is removed.     *)
(*                                                                          *)
(* The invariant says of the tree of entries that every path in it is in     *)
(* order (TreeOK), of the files that a leaf is in the tree and that nothing  *)
(* is left of a session that is gone (StoreOK), of a request what it may     *)
(* rely on in its session between its steps (RequestOK), and that no two     *)
(* requests have the turn, or the lock, of one session (Exclusive): this is  *)
(* why the branch that a turn or its compaction has read only grows by       *)
(* entries of its own, and by notices, until it writes.                      *)
(*                                                                          *)
(* A branch is defined by recursion from an entry to its parent.  Parents    *)
(* have smaller numbers, so what is wrong with some path is wrong with a     *)
(* path of a smallest entry (Least).                                         *)
(***************************************************************************)
EXTENDS AgentConversation, SequenceTheorems, WellFoundedInduction, TLAPS

-----------------------------------------------------------------------------
(* The invariant.                                                           *)

\* A reference to nothing, or to an entry of a session that was written before.
IsRef(r, n) == r = NoRef \/ (r.session \in Sessions /\ r.entry \in 1..n)

\* What an entry is besides its type: its parent was written before it, a turn
\* begins with its message of the user, and only messages belong to a turn.
EntryOK(es, i) ==
  /\ IsRef(es[i].parent, i - 1)
  /\ es[i].turn <= i
  /\ es[i].turn # 0 <=> es[i].kind \in Messages
  /\ es[i].kind = "user" => es[i].turn = i

Together(es, b) ==
  \A e, g \in b : e < g /\ es[e].turn # 0 /\ es[e].turn = es[g].turn
    => \A f \in b : e < f /\ f < g /\ es[f].turn # 0 => es[f].turn = es[e].turn

IsAuto(es, c) == es[c].kind = "compaction" /\ es[c].trigger = "auto"

AllAuto(es, b) == \A c \in b : es[c].kind = "compaction" => es[c].trigger = "auto"

\* What the provider may be sent of a branch.
Content(es, b) == {e \in b : es[e].kind \notin {"standing", "compaction"}}

Covered(es, b) == {e \in Nat : \E c \in b : es[c].kind = "compaction" /\ e \in es[c].covers}

\* A compaction keeps from a message of the user on, and covers parts of the branch.
CutOK(es, b, kept, covers) ==
  /\ kept \in b
  /\ es[kept].kind = "user"
  /\ covers \subseteq b

SummariesOK(es, b) ==
  /\ \A c \in b : IsAuto(es, c) => es[c].kept < c /\ CutOK(es, b, es[c].kept, es[c].covers)
  /\ AllAuto(es, b) =>
       \A c \in b, e \in Content(es, b) :
         es[c].kind = "compaction" /\ e < es[c].kept => e \in Covered(es, b)

TreeOK ==
  /\ \A i \in 1..Len(entries) : EntryOK(entries, i)
  /\ \A x \in 0..Len(entries) :
       Together(entries, Path(x)) /\ SummariesOK(entries, Path(x))

StoreOK ==
  \A s \in Sessions :
    /\ meta[s].leaf \in 0..Len(entries)
    /\ IsRef(meta[s].inherited, Len(entries))
    /\ ~Exists(s) => LeafRef(s) = NoRef /\ meta[s].leaf = 0 /\ log[s] = {}
    /\ acked[s] \subseteq Branch(s)

HoldsTurn(r) == r.op \in {"turn", "compact"} /\ r.pc # "reserve"

HoldsLock(r) == r.pc \in {"advance", "unlink"}

\* A turn between the two updates of its session's status.
Runs(r) ==
  /\ r.op = "turn"
  /\ r.pc \in {"append", "advance", "context", "ask", "summarize", "tool", "end"}
  /\ r.then # "setup"

Appends(r) == r.pc \in {"append", "advance"}

\* Its question is in the conversation.
Asked(r) == Runs(r) /\ ~(Appends(r) /\ r.entry.kind = "user")

\* It is about to append the summary of a turn's own compaction.
Pending(r) == r.pc \in {"append", "summarize"} /\ r.entry.trigger = "auto"

ShapeOK(r) ==
  /\ r.op = "none" => r.pc = "idle"
  /\ r.op = "turn" =>
       r.pc \in {"reserve", "setup", "begin", "append", "advance", "context", "ask",
                 "summarize", "tool", "end", "release"}
  /\ r.op = "compact" =>
       r.pc \in {"reserve", "plan", "summarize", "append", "advance", "release"}
  /\ r.op = "notice" => r.pc \in {"append", "advance"}
  /\ r.op \in {"rewind", "fork"} => r.pc = r.op
  /\ r.op = "delete" => r.pc \in {"delete", "unlink"}
  /\ r.pc = "idle" => r.op = "none"
  /\ r.pc # "idle" => r.s \in Sessions
  /\ Appends(r) =>
       /\ r.op = "turn" => r.then \in {"setup", "context", "tool", "end"}
       /\ r.op = "compact" => r.then = "release"
       /\ r.op = "notice" => r.then = "idle"
       /\ r.then = "end" => r.entry.kind = "reply"
       /\ r.entry.kind = "user" => r.op = "turn" /\ r.then = "context"
  /\ ~Appends(r) => r.then = "idle"
  /\ r.pc = "append" /\ r.entry.kind # "user" =>
       /\ r.entry.turn # 0 <=> r.entry.kind \in Messages
       /\ r.entry.turn # 0 => Runs(r) /\ r.entry.turn = r.turn
  /\ Pending(r) => Asked(r) /\ r.entry.kind = "compaction"
  /\ r.pc = "summarize" => r.entry.kind = "compaction" /\ r.entry.turn = 0
  /\ r.op = "turn" /\ r.pc = "summarize" => r.entry.trigger = "auto"

\* The entry in the log that the leaf of s is about to move to.
AdvanceOK(q, s) ==
  LET id == req[q].at.entry
  IN  /\ req[q].at = Ref(s, id)
      /\ id \in 1..Len(entries)
      /\ entries[id].parent = LeafRef(s)
      /\ Exists(s)
      /\ entries[id].turn # 0 => Runs(req[q]) /\ entries[id].turn = req[q].turn
      /\ req[q].entry.kind = "user" => req[q].turn = id
      /\ req[q].entry.kind # "user" => entries[id].kind = req[q].entry.kind

\* Only this turn has added messages since its question.
QuestionOK(q, s) ==
  /\ req[q].turn # 0
  /\ req[q].turn \in Branch(s)
  /\ \A f \in Branch(s) : req[q].turn < f => entries[f].turn \in {0, req[q].turn}

\* A compaction that is about to be written fits the branch as it is now.
PendingOK(q, s) ==
  /\ CutOK(entries, Branch(s), req[q].entry.kept, req[q].entry.covers)
  /\ AllAuto(entries, Branch(s)) =>
       \A e \in Content(entries, Branch(s)) :
         e < req[q].entry.kept => e \in req[q].entry.covers \cup Covered(entries, Branch(s))

HasReply(q, s) ==
  \E e \in Branch(s) : entries[e].kind = "reply" /\ entries[e].turn = req[q].turn

\* What a request may rely on in its session.
InSession(q, s) ==
  /\ HoldsTurn(req[q]) => s \in reserved
  /\ req[q].pc = "unlink" => s \notin reserved /\ log[s] = {}
  /\ req[q].pc = "advance" => AdvanceOK(q, s)
  /\ Runs(req[q]) => meta[s].status = "running"
  /\ Asked(req[q]) => QuestionOK(q, s)
  /\ Pending(req[q]) => PendingOK(q, s)
  /\ req[q].pc = "end" /\ Resolves(s) => HasReply(q, s)

RequestOK(q) ==
  /\ ShapeOK(req[q])
  /\ IsRef(req[q].at, Len(entries))
  /\ \A s \in Sessions : req[q].s = s => InSession(q, s)

Exclusive ==
  \A q, p \in Requests : req[q].s = req[p].s =>
    \/ q = p
    \/ /\ ~(HoldsTurn(req[q]) /\ HoldsTurn(req[p]))
       /\ ~(HoldsLock(req[q]) /\ HoldsLock(req[p]))

RunningOK ==
  \A s \in Sessions : meta[s].status = "running" =>
    s \in interrupted \/ \E q \in Requests : Runs(req[q]) /\ req[q].s = s

AgentInv ==
  /\ TypeOK
  /\ TreeOK
  /\ StoreOK
  /\ \A q \in Requests : RequestOK(q)
  /\ Exclusive
  /\ RunningOK

-----------------------------------------------------------------------------
(* Numbers.                                                                 *)

\* A set of numbers that is not empty has a smallest one.
LEMMA Least ==
  ASSUME NEW T, T \subseteq Nat, T # {}
  PROVE  \E x \in T : \A y \in T : x <= y
<1> DEFINE less == OpToRel(<, Nat)
<1>1. IsWellFoundedOn(less, Nat)
  BY NatLessThanWellFounded
<1> HIDE DEF less
<1>2. PICK x \in T : \A y \in T : <<y, x>> \notin less
  BY <1>1, WFMin
<1>3. \A y \in Nat : y < x => <<y, x>> \in less
  BY DEF less, OpToRel
<1>4. \A y \in T : ~(y < x) /\ y \in Nat
  BY <1>2, <1>3
<1>5. \A a, b \in Nat : ~(b < a) => a <= b
  OBVIOUS
<1> QED
  BY <1>2, <1>4, <1>5

\* One with a bound has a largest one.
LEMMA Greatest ==
  ASSUME NEW T, T \subseteq Nat, T # {}, NEW n \in Nat, \A y \in T : y <= n
  PROVE  \E x \in T : \A y \in T : y <= x
<1> DEFINE bounds == {m \in Nat : \A y \in T : y <= m}
<1>1. PICK m \in bounds : \A k \in bounds : m <= k
  <2>1. n \in bounds /\ bounds \subseteq Nat
    OBVIOUS
  <2> HIDE DEF bounds
  <2> QED
    BY <2>1, Least
<1>2. CASE m \in T
  BY <1>2
<1>3. CASE m \notin T
  <2>1. \A y \in T : y < m /\ y \in Nat
    BY <1>3
  <2>2. \A a, b \in Nat : a < b => b - 1 \in Nat /\ a <= b - 1 /\ ~(b <= b - 1)
    OBVIOUS
  <2>3. PICK t \in T : TRUE
    OBVIOUS
  <2>4. m - 1 \in Nat /\ ~(m <= m - 1) /\ \A y \in T : y <= m - 1
    BY <2>1, <2>2, <2>3
  <2>5. m - 1 \in bounds
    BY <2>4
  <2> QED
    BY <1>1, <2>4, <2>5
<1> QED
  BY <1>2, <1>3

-----------------------------------------------------------------------------
(* Branches.                                                                *)

\* The path to the entry e of es.
Ancestors(es, e) ==
  LET path[i \in 0..Len(es)] ==
        IF i = 0 THEN {} ELSE {i} \cup path[es[i].parent.entry]
  IN  path[e]

Rooted(es) ==
  /\ Len(es) \in Nat
  /\ \A i \in 1..Len(es) : es[i].parent.entry \in 0..(i - 1)

\* g is the path function of es, up to the entry m.
PathsTo(es, g, m) ==
  g = [i \in 0..m |-> IF i = 0 THEN {} ELSE {i} \cup g[es[i].parent.entry]]

\* The recursion of a path has a solution.
LEMMA PathsExist ==
  ASSUME NEW es, Rooted(es)
  PROVE  \A m \in 0..Len(es) : \E g : PathsTo(es, g, m)
<1> DEFINE bad == {m \in 0..Len(es) : ~ \E g : PathsTo(es, g, m)}
<1> SUFFICES ASSUME bad # {}
             PROVE  FALSE
  OBVIOUS
<1>1. Len(es) \in Nat /\ bad \subseteq Nat
  BY DEF Rooted
<1>2. PICK m \in bad : \A k \in bad : m <= k
  <2> HIDE DEF bad
  <2> QED
    BY <1>1, Least
<1>3. m # 0
  <2> SUFFICES \E g : PathsTo(es, g, 0)
    OBVIOUS
  <2> DEFINE g == [i \in 0..0 |-> {}]
  <2>1. g = [i \in 0..0 |-> IF i = 0 THEN {} ELSE {i} \cup g[es[i].parent.entry]]
    OBVIOUS
  <2> QED
    BY <2>1 DEF PathsTo
<1>4. m \in 1..Len(es) /\ m - 1 \in 0..Len(es) /\ m - 1 \notin bad
  <2>1. m \in 1..Len(es) /\ m - 1 \in 0..Len(es) /\ ~(m <= m - 1)
    BY <1>1, <1>3
  <2> HIDE DEF bad
  <2> QED
    BY <1>2, <2>1
<1>5. PICK g : PathsTo(es, g, m - 1)
  BY <1>4
<1> DEFINE P(i) == es[i].parent.entry
           h == [i \in 0..m |-> IF i = m THEN {m} \cup g[P(m)] ELSE g[i]]
<1>6. \A i \in 1..m : P(i) \in 0..m /\ P(i) # m /\ P(i) < i
  BY <1>1, <1>4 DEF Rooted
<1>7. \A i \in 0..(m - 1) : g[i] = IF i = 0 THEN {} ELSE {i} \cup g[P(i)]
  BY <1>5 DEF PathsTo
<1>8. \A i \in 0..m : i # m => i \in 0..(m - 1)
  BY <1>1, <1>4
<1>9. \A i \in 0..m : h[i] = IF i = 0 THEN {} ELSE {i} \cup h[P(i)]
  <2> SUFFICES ASSUME NEW i \in 0..m
               PROVE  h[i] = IF i = 0 THEN {} ELSE {i} \cup h[P(i)]
    OBVIOUS
  <2>1. CASE i = 0
    BY <1>3, <1>7, <1>8, <2>1
  <2>2. CASE i # 0
    <3>1. h[P(i)] = g[P(i)]
      BY <1>6, <2>2
    <3>2. i # m => h[i] = {i} \cup g[P(i)]
      BY <1>7, <1>8, <2>2
    <3> QED
      BY <2>2, <3>1, <3>2
  <2> QED
    BY <2>1, <2>2
<1>10. h = [i \in 0..m |-> IF i = 0 THEN {} ELSE {i} \cup h[P(i)]]
  <2>1. \A f : (f = [i \in 0..m |-> f[i]]
                /\ \A i \in 0..m : f[i] = IF i = 0 THEN {} ELSE {i} \cup f[P(i)])
                  => f = [i \in 0..m |-> IF i = 0 THEN {} ELSE {i} \cup f[P(i)]]
    OBVIOUS
  <2>2. h = [i \in 0..m |-> h[i]]
    OBVIOUS
  <2> HIDE DEF h, P
  <2> QED
    BY <1>9, <2>1, <2>2
<1>11. PathsTo(es, h, m)
  BY <1>10 DEF PathsTo
<1> HIDE DEF h
<1> QED
  BY <1>11

\* A path is an entry and the path to its parent.
LEMMA AncestorsDef ==
  ASSUME NEW es, Rooted(es), NEW e \in 0..Len(es)
  PROVE  Ancestors(es, e) =
           IF e = 0 THEN {} ELSE {e} \cup Ancestors(es, es[e].parent.entry)
<1> DEFINE path == CHOOSE path : path =
                     [i \in 0..Len(es) |-> IF i = 0 THEN {} ELSE {i} \cup path[es[i].parent.entry]]
<1>1. Len(es) \in 0..Len(es)
  BY DEF Rooted
<1>2. PICK g : PathsTo(es, g, Len(es))
  BY <1>1, PathsExist
<1>3. path = [i \in 0..Len(es) |-> IF i = 0 THEN {} ELSE {i} \cup path[es[i].parent.entry]]
  BY <1>2 DEF PathsTo
<1>4. \A i : Ancestors(es, i) = path[i]
  BY DEF Ancestors
<1> HIDE DEF path
<1> QED
  BY <1>3, <1>4

\* An entry comes after all those that it continues from.
LEMMA AncestorsRange ==
  ASSUME NEW es, Rooted(es), NEW e \in 0..Len(es)
  PROVE  Ancestors(es, e) \subseteq 1..e
<1> DEFINE bad == {i \in 0..Len(es) : ~(Ancestors(es, i) \subseteq 1..i)}
<1> SUFFICES ASSUME bad # {}
             PROVE  FALSE
  OBVIOUS
<1>1. Len(es) \in Nat /\ bad \subseteq Nat
  BY DEF Rooted
<1>2. PICK i \in bad : \A k \in bad : i <= k
  <2> HIDE DEF bad
  <2> QED
    BY <1>1, Least
<1>3. i # 0
  BY AncestorsDef
<1> DEFINE p == es[i].parent.entry
<1>4. p \in 0..Len(es) /\ p < i
  BY <1>1, <1>3 DEF Rooted
<1>5. p \notin bad
  <2> HIDE DEF bad, p
  <2> QED
    BY <1>1, <1>2, <1>4
<1>6. Ancestors(es, p) \subseteq 1..p
  BY <1>4, <1>5
<1>7. Ancestors(es, i) = {i} \cup Ancestors(es, p)
  BY <1>3, AncestorsDef
<1> HIDE DEF p
<1>8. Ancestors(es, i) \subseteq 1..i
  BY <1>1, <1>3, <1>4, <1>6, <1>7
<1> QED
  BY <1>8

\* Entries that are added later do not change a path.
LEMMA AncestorsStay ==
  ASSUME NEW es, NEW fs, Rooted(es), Rooted(fs), Len(es) <= Len(fs),
         \A i \in 1..Len(es) : fs[i] = es[i],
         NEW e \in 0..Len(es)
  PROVE  Ancestors(fs, e) = Ancestors(es, e)
<1> DEFINE bad == {i \in 0..Len(es) : Ancestors(fs, i) # Ancestors(es, i)}
<1> SUFFICES ASSUME bad # {}
             PROVE  FALSE
  OBVIOUS
<1>1. Len(es) \in Nat /\ Len(fs) \in Nat /\ bad \subseteq Nat
  BY DEF Rooted
<1>2. PICK i \in bad : \A k \in bad : i <= k
  <2> HIDE DEF bad
  <2> QED
    BY <1>1, Least
<1>3. i \in 0..Len(es) /\ i \in 0..Len(fs)
  BY <1>1
<1>4. i # 0
  BY <1>3, AncestorsDef
<1> DEFINE p == es[i].parent.entry
<1>5. p \in 0..Len(es) /\ p < i /\ fs[i].parent.entry = p
  BY <1>1, <1>3, <1>4 DEF Rooted
<1>6. p \notin bad
  <2> HIDE DEF bad, p
  <2> QED
    BY <1>1, <1>2, <1>5
<1>7. Ancestors(fs, p) = Ancestors(es, p)
  BY <1>5, <1>6
<1>8. Ancestors(es, i) = {i} \cup Ancestors(es, p) /\ Ancestors(fs, i) = {i} \cup Ancestors(fs, p)
  BY <1>3, <1>4, <1>5, AncestorsDef
<1> QED
  BY <1>7, <1>8

\* What an entry of a path continues from is the part of the path up to it.
LEMMA AncestorsPrefix ==
  ASSUME NEW es, Rooted(es), NEW e \in 0..Len(es), NEW x \in Ancestors(es, e)
  PROVE  Ancestors(es, x) = {f \in Ancestors(es, e) : f <= x}
<1> DEFINE cut(i, k) == {f \in Ancestors(es, i) : f <= k}
           bad == {i \in 0..Len(es) : \E k \in Ancestors(es, i) : Ancestors(es, k) # cut(i, k)}
<1> SUFFICES ASSUME bad # {}
             PROVE  FALSE
  OBVIOUS
<1>1. Len(es) \in Nat /\ bad \subseteq Nat
  BY DEF Rooted
<1>2. PICK i \in bad : \A k \in bad : i <= k
  <2> HIDE DEF bad
  <2> QED
    BY <1>1, Least
<1>3. i \in 0..Len(es)
  OBVIOUS
<1>4. PICK k \in Ancestors(es, i) : Ancestors(es, k) # cut(i, k)
  OBVIOUS
<1>5. i # 0
  BY <1>3, <1>4, AncestorsDef
<1> DEFINE p == es[i].parent.entry
<1>6. p \in 0..Len(es) /\ p < i
  BY <1>1, <1>3, <1>5 DEF Rooted
<1>7. p \notin bad
  <2> HIDE DEF bad, p
  <2> QED
    BY <1>1, <1>2, <1>6
<1>8. Ancestors(es, i) = {i} \cup Ancestors(es, p)
  BY <1>3, <1>5, AncestorsDef
<1>9. Ancestors(es, i) \subseteq 1..i /\ Ancestors(es, p) \subseteq 1..p
  BY <1>3, <1>6, AncestorsRange
<1>10. CASE k = i
  <2>1. cut(i, i) = Ancestors(es, i)
    BY <1>3, <1>9
  <2> QED
    BY <1>4, <1>10, <2>1
<1>11. CASE k # i
  <2>1. k \in Ancestors(es, p)
    BY <1>4, <1>8, <1>11
  <2>2. Ancestors(es, k) = cut(p, k)
    BY <1>6, <1>7, <2>1
  <2> HIDE DEF p
  <2>3. cut(i, k) = cut(p, k)
    BY <1>1, <1>3, <1>6, <1>8, <1>9, <2>1
  <2> QED
    BY <1>4, <2>2, <2>3
<1> QED
  BY <1>10, <1>11

-----------------------------------------------------------------------------
(* What the invariant says of entries, sessions and branches.               *)

LEMMA EntryTypes ==
  ASSUME TypeOK
  PROVE  /\ Len(entries) \in Nat
         /\ DOMAIN entries = 1..Len(entries)
         /\ \A i \in 1..Len(entries) :
              /\ entries[i] \in Entries
              /\ entries[i].kind \in Kinds
              /\ entries[i].parent \in EntryRefs
              /\ entries[i].turn \in Nat
              /\ entries[i].kept \in Nat
              /\ entries[i].covers \subseteq Nat
<1>1. Len(entries) \in Nat /\ DOMAIN entries = 1..Len(entries)
      /\ \A i \in 1..Len(entries) : entries[i] \in Entries
  BY LenProperties, ElementOfSeq DEF TypeOK
<1> QED
  BY <1>1 DEF Entries

LEMMA RefEntry ==
  ASSUME NEW n \in Nat, NEW r, IsRef(r, n)
  PROVE  r.entry \in 0..n /\ (r # NoRef => r.entry \in 1..n /\ r.session \in Sessions)
BY DEF IsRef, NoRef

LEMMA EntriesRooted ==
  ASSUME TypeOK, \A i \in 1..Len(entries) : EntryOK(entries, i)
  PROVE  Rooted(entries)
<1>1. Len(entries) \in Nat
  BY EntryTypes
<1>2. ASSUME NEW i \in 1..Len(entries)
      PROVE  entries[i].parent.entry \in 0..(i - 1)
  <2>1. IsRef(entries[i].parent, i - 1) /\ i - 1 \in Nat
    BY <1>1 DEF EntryOK
  <2> QED
    BY <2>1, RefEntry
<1> QED
  BY <1>1, <1>2 DEF Rooted

LEMMA PathDef ==
  ASSUME TypeOK, TreeOK, NEW e \in 0..Len(entries)
  PROVE  /\ Path(e) = IF e = 0 THEN {} ELSE {e} \cup Path(entries[e].parent.entry)
         /\ Path(e) \subseteq 1..e
         /\ Path(e) \subseteq 1..Len(entries)
<1>1. Rooted(entries)
  BY EntriesRooted DEF TreeOK
<1>2. Path(e) = Ancestors(entries, e)
      /\ Path(entries[e].parent.entry) = Ancestors(entries, entries[e].parent.entry)
  BY DEF Path, Ancestors
<1>3. Path(e) \subseteq 1..e
  BY <1>1, <1>2, AncestorsRange
<1> QED
  BY <1>1, <1>2, <1>3, AncestorsDef, EntryTypes

LEMMA PathPrefix ==
  ASSUME TypeOK, TreeOK, NEW e \in 0..Len(entries), NEW x \in Path(e)
  PROVE  Path(x) = {f \in Path(e) : f <= x}
<1>1. Rooted(entries)
  BY EntriesRooted DEF TreeOK
<1>2. Path(x) = Ancestors(entries, x) /\ Path(e) = Ancestors(entries, e)
  BY DEF Path, Ancestors
<1> QED
  BY <1>1, <1>2, AncestorsPrefix

\* The leaf of a session is nothing or an entry; its branch is the path to it.
LEMMA BranchFacts ==
  ASSUME TypeOK, TreeOK, StoreOK, NEW s \in Sessions
  PROVE  /\ IsRef(LeafRef(s), Len(entries))
         /\ LeafRef(s).entry \in 0..Len(entries)
         /\ Branch(s) = Path(LeafRef(s).entry)
         /\ Branch(s) \subseteq 1..Len(entries)
         /\ Together(entries, Branch(s))
         /\ SummariesOK(entries, Branch(s))
<1>1. Len(entries) \in Nat
  BY EntryTypes
<1>2. IsRef(LeafRef(s), Len(entries))
  <2>1. meta[s].leaf # 0 => IsRef(Ref(s, meta[s].leaf), Len(entries))
    BY <1>1 DEF StoreOK, IsRef, Ref
  <2> QED
    BY <2>1 DEF StoreOK, LeafRef
<1>3. LeafRef(s).entry \in 0..Len(entries)
  BY <1>1, <1>2, RefEntry
<1>4. Branch(s) = Path(LeafRef(s).entry)
  BY DEF Branch
<1>5. \A e \in 0..Len(entries) :
        /\ Path(e) \subseteq 1..Len(entries)
        /\ Together(entries, Path(e))
        /\ SummariesOK(entries, Path(e))
  BY PathDef DEF TreeOK
<1> QED
  BY <1>2, <1>3, <1>4, <1>5

\* The compactions of a branch, if there are any, have a last one.
LEMMA LiveStartFacts ==
  ASSUME TypeOK, NEW b, b \subseteq 1..Len(entries)
  PROVE  \/ Compactions(b) = {} /\ LiveStart(b) = 1
         \/ \E c \in Compactions(b) :
              LiveStart(b) = IF entries[c].kept \in b THEN entries[c].kept ELSE c + 1
<1> DEFINE cs == Compactions(b)
           c == CHOOSE x \in cs : \A y \in cs : y <= x
<1>1. LiveStart(b) = IF cs = {} THEN 1
                     ELSE IF entries[c].kept \in b THEN entries[c].kept ELSE c + 1
  BY DEF LiveStart
<1>2. cs # {} => c \in cs
  <2> SUFFICES ASSUME cs # {}
               PROVE  \E x \in cs : \A y \in cs : y <= x
    OBVIOUS
  <2>1. cs \subseteq 1..Len(entries)
    BY DEF Compactions
  <2>2. Len(entries) \in Nat
    BY EntryTypes
  <2> HIDE DEF cs
  <2>3. cs \subseteq Nat /\ \A y \in cs : y <= Len(entries)
    BY <2>1, <2>2
  <2> QED
    BY <2>2, <2>3, Greatest
<1> HIDE DEF c
<1> QED
  BY <1>1, <1>2

\* Where the summaries of a branch were written by turns, what is left out of the
\* context is in them.
LEMMA SummariesFit ==
  ASSUME TypeOK, TreeOK, StoreOK, NEW s \in Sessions, AllAuto(entries, Branch(s))
  PROVE  SummaryFits(Branch(s))
<1> DEFINE b == Branch(s)
           cs == Compactions(b)
           covered == UNION {entries[c].covers : c \in cs}
           hidden == {e \in b : e < LiveStart(b) /\ Kind(e) \notin {"standing", "compaction"}}
<1>1. b \subseteq 1..Len(entries) /\ Together(entries, b) /\ SummariesOK(entries, b)
  BY BranchFacts
<1>2. Len(entries) \in Nat
  BY EntryTypes
<1>3. ASSUME NEW i \in b
      PROVE  /\ entries[i].turn \in Nat /\ i \in Nat \ {0} /\ entries[i].turn <= i
             /\ entries[i].turn # 0 <=> entries[i].kind \in Messages
             /\ entries[i].kind = "user" => entries[i].turn = i
  <2>1. i \in 1..Len(entries)
    BY <1>1
  <2> QED
    BY <1>2, <2>1, EntryTypes DEF TreeOK, EntryOK
<1>4. \A c : c \in cs <=> c \in b /\ entries[c].kind = "compaction"
  BY DEF Compactions, Kind
<1>5. ASSUME NEW c \in cs
      PROVE  entries[c].kept \in b /\ entries[entries[c].kept].kind = "user"
             /\ entries[c].covers \subseteq b
  <2>1. c \in b /\ IsAuto(entries, c)
    BY <1>4 DEF AllAuto, IsAuto
  <2> QED
    BY <1>1, <2>1 DEF SummariesOK, CutOK
<1>6. covered \subseteq b
  BY <1>5
<1>7. \A c \in cs, e \in Content(entries, b) : e < entries[c].kept => e \in covered
  <2> SUFFICES ASSUME NEW c \in cs, NEW e \in Content(entries, b), e < entries[c].kept
               PROVE  e \in covered
    OBVIOUS
  <2>1. e \in Covered(entries, b)
    BY <1>1, <1>4 DEF SummariesOK
  <2> QED
    BY <1>4, <2>1 DEF Covered
<1>8. CASE cs = {} /\ LiveStart(b) = 1
  <2>1. \A e \in b : ~(e < 1)
    BY <1>3
  <2>2. hidden = {}
    BY <1>8, <2>1
  <2> HIDE DEF b, cs, hidden
  <2>3. cs = Compactions(b)
    BY DEF cs
  <2>4. hidden = {e \in b : e < LiveStart(b) /\ Kind(e) \notin {"standing", "compaction"}}
    BY DEF hidden
  <2>5. covered \subseteq b /\ hidden \subseteq covered /\ \A c \in cs : entries[c].kept \in b
    BY <1>5, <1>6, <2>2
  <2>6. SummaryFits(b)
    BY <2>2, <2>3, <2>4, <2>5 DEF SummaryFits
  <2> QED
    BY <2>6 DEF b
<1>9. CASE \E c \in cs : LiveStart(b) = IF entries[c].kept \in b THEN entries[c].kept ELSE c + 1
  <2>1. PICK c \in cs : LiveStart(b) = entries[c].kept
    BY <1>5, <1>9
  <2> DEFINE k == entries[c].kept
  <2>2. k \in b /\ entries[k].kind = "user" /\ entries[k].turn = k /\ LiveStart(b) = k
    BY <1>3, <1>5, <2>1
  <2> HIDE DEF k
  <2>3. \A e \in hidden : e \in b /\ e < k /\ e \in Content(entries, b)
    BY <2>2 DEF Content, Kind
  <2>4. hidden \subseteq covered
    BY <1>7, <2>3 DEF k
  <2>5. ASSUME NEW e \in hidden, NEW f \in b \ hidden, entries[e].turn # 0,
               entries[e].turn = entries[f].turn
        PROVE  FALSE
    <3>1. e \in b /\ e \in Nat /\ e < k /\ entries[e].turn <= e /\ entries[e].turn \in Nat
      BY <1>3, <2>3
    <3>2. f \in Nat /\ k \in Nat \ {0} /\ entries[f].turn \in Nat
      BY <1>3, <2>2
    <3>3. entries[f].kind \in Messages
      BY <1>3, <2>5
    <3>4. ~(f < k)
      BY <2>2, <2>5, <3>3 DEF Kind, Messages
    <3>5. entries[e].turn # k
      BY <3>1, <3>2
    <3>6. f # k
      BY <2>2, <2>5, <3>5
    <3>7. k < f /\ e < f
      BY <3>1, <3>2, <3>4, <3>6
    <3>8. entries[k].turn = entries[e].turn
      BY <1>1, <2>2, <2>5, <3>1, <3>2, <3>7 DEF Together
    <3> QED
      BY <2>2, <3>5, <3>8
  <2> HIDE DEF b, cs, hidden
  <2>6. cs = Compactions(b)
    BY DEF cs
  <2>7. hidden = {e \in b : e < LiveStart(b) /\ Kind(e) \notin {"standing", "compaction"}}
    BY DEF hidden
  <2>8. covered \subseteq b /\ \A i \in cs : entries[i].kept \in b
    BY <1>5, <1>6
  <2>9. SummaryFits(b)
    BY <2>4, <2>5, <2>6, <2>7, <2>8 DEF SummaryFits
  <2> QED
    BY <2>9 DEF b
<1> QED
  BY <1>1, <1>8, <1>9, LiveStartFacts

\* What a turn plans to summarize is what its conversation has before the cut.
LEMMA PlanFits ==
  ASSUME TypeOK, TreeOK, StoreOK, NEW s \in Sessions, NEW cut \in CutPoints(Branch(s)),
         NEW covers, covers = {e \in Live(Branch(s)) : e < cut}
  PROVE  /\ cut \in Nat
         /\ CutOK(entries, Branch(s), cut, covers)
         /\ AllAuto(entries, Branch(s)) =>
              \A e \in Content(entries, Branch(s)) :
                e < cut => e \in covers \cup Covered(entries, Branch(s))
<1> DEFINE b == Branch(s)
<1>1. b \subseteq 1..Len(entries) /\ SummariesOK(entries, b)
  BY BranchFacts
<1>2. \A e \in Live(b) : e \in b
  BY DEF Live
<1>3. cut \in Live(b) /\ Kind(cut) = "user"
  BY DEF CutPoints
<1>4. CutOK(entries, b, cut, covers)
  BY <1>2, <1>3 DEF CutOK, Kind
<1>5. ASSUME AllAuto(entries, b), NEW e \in Content(entries, b), e < cut
      PROVE  e \in covers \cup Covered(entries, b)
  <2>1. e \in b /\ Kind(e) \notin {"standing", "compaction"} /\ e \in Nat \ {0}
    BY <1>1, EntryTypes DEF Content, Kind
  <2>2. CASE e >= LiveStart(b)
    BY <1>5, <2>1, <2>2 DEF Live
  <2>3. CASE ~(e >= LiveStart(b))
    <3>1. LiveStart(b) # 1
      BY <2>1, <2>3
    <3>2. PICK c \in Compactions(b) :
            LiveStart(b) = IF entries[c].kept \in b THEN entries[c].kept ELSE c + 1
      BY <1>1, <3>1, LiveStartFacts
    <3>3. c \in b /\ entries[c].kind = "compaction" /\ IsAuto(entries, c)
      BY <1>5, <3>2 DEF Compactions, Kind, AllAuto, IsAuto
    <3>4. LiveStart(b) = entries[c].kept /\ entries[c].kept \in Nat
      BY <1>1, <3>2, <3>3, EntryTypes DEF SummariesOK, CutOK
    <3>5. e < entries[c].kept
      BY <2>1, <2>3, <3>4
    <3> QED
      BY <1>1, <1>5, <3>3, <3>5 DEF SummariesOK
  <2> QED
    BY <2>2, <2>3
<1>6. cut \in Nat
  BY <1>1, <1>2, <1>3, EntryTypes
<1> QED
  BY <1>4, <1>5, <1>6

-----------------------------------------------------------------------------
(* The properties follow from the invariant.                                *)

LEMMA InvNothingLost ==
  ASSUME AgentInv
  PROVE  NothingLost
BY DEF AgentInv, StoreOK, NothingLost

LEMMA InvContiguous ==
  ASSUME AgentInv
  PROVE  TurnsAreContiguous
<1> SUFFICES ASSUME NEW s \in Sessions,
                    NEW e \in Branch(s), NEW g \in Branch(s), NEW f \in Branch(s),
                    entries[e].turn # 0, entries[f].turn # 0, e < g, f \in e..g,
                    entries[e].turn = entries[g].turn
             PROVE  entries[f].turn = entries[e].turn
  BY DEF TurnsAreContiguous
<1>1. Branch(s) \subseteq 1..Len(entries) /\ Together(entries, Branch(s))
  BY BranchFacts DEF AgentInv
<1>2. e \in Nat /\ f \in Nat /\ g \in Nat
  BY <1>1, EntryTypes DEF AgentInv
<1>3. f = e \/ f = g \/ (e < f /\ f < g)
  BY <1>2
<1> QED
  BY <1>1, <1>3 DEF Together

LEMMA InvAnswered ==
  ASSUME AgentInv
  PROVE  Answered
<1> SUFFICES ASSUME NEW q \in Requests, req[q].op = "turn", req[q].pc = "end",
                    NEW s \in Sessions, req[q].s = s
             PROVE  /\ Exists(s)
                    /\ Resolves(s) => \E e \in Branch(s) :
                         Kind(e) = "reply" /\ entries[e].turn = req[q].turn
                         /\ req[q].turn \in Branch(s)
  <2>1. \A q \in Requests : req[q].pc = "end" => req[q].s \in Sessions
    BY DEF AgentInv, RequestOK, ShapeOK
  <2> QED
    BY <2>1 DEF Answered
<1>1. ShapeOK(req[q]) /\ InSession(q, s)
  BY DEF AgentInv, RequestOK
<1>2. Runs(req[q]) /\ Asked(req[q])
  BY <1>1 DEF ShapeOK, Appends, Runs, Asked
<1> QED
  BY <1>1, <1>2 DEF InSession, Exists, QuestionOK, HasReply, Kind

LEMMA InvRunning ==
  ASSUME AgentInv
  PROVE  RunningIsTrue
BY DEF AgentInv, RunningOK, RunningIsTrue, Runs

LEMMA InvContext ==
  ASSUME AgentInv
  PROVE  ContextIsWhole
<1> SUFFICES ASSUME NEW s \in Sessions,
                    \A c \in Compactions(Branch(s)) : entries[c].trigger = "auto"
             PROVE  SummaryFits(Branch(s))
  BY DEF ContextIsWhole
<1>1. AllAuto(entries, Branch(s))
  BY DEF AllAuto, Compactions, Kind
<1> QED
  BY <1>1, SummariesFit DEF AgentInv

-----------------------------------------------------------------------------
(* The start.                                                               *)

LEMMA DraftTypes ==
  /\ NoRef \in EntryRefs
  /\ Idle \in RequestStates
  /\ NoMeta \in MetaStates
  /\ \A k \in Kinds, t \in Nat : Draft(k, t) \in Drafts
<1>1. NoRef \in EntryRefs
  BY DEF NoRef, EntryRefs
<1>2. ASSUME NEW k \in Kinds, NEW t \in Nat
      PROVE  Draft(k, t) \in Drafts
  BY DEF Draft, Drafts
<1>3. Draft("notice", 0) \in Drafts
  BY <1>2 DEF Kinds
<1>4. Idle \in RequestStates
  <2> HIDE DEF Draft
  <2> QED
    BY <1>1, <1>3 DEF Idle, RequestStates, Steps
<1>5. NoMeta \in MetaStates
  BY <1>1 DEF NoMeta, MetaStates
<1> QED
  BY <1>1, <1>2, <1>4, <1>5

LEMMA InitInv == Init => AgentInv
<1> SUFFICES ASSUME Init
             PROVE  AgentInv
  OBVIOUS
<1> DEFINE e1 == NewEntry(First, NoRef, Draft("standing", 0))
           e2 == NewEntry(First, Ref(First, 1), Draft("user", 2))
           e3 == NewEntry(First, Ref(First, 2), Draft("reply", 2))
<1>1. entries = <<e1, e2, e3>>
  BY DEF Init
<1>2. /\ Len(entries) = 3
      /\ entries[1] = e1 /\ entries[2] = e2 /\ entries[3] = e3
  BY <1>1
<1>3. First \in Sessions /\ NoSession \notin Sessions
  BY FirstAssumption
<1>4. e1 \in Entries /\ e2 \in Entries /\ e3 \in Entries
  BY <1>3 DEF Entries, NewEntry, Draft, NoRef, Ref, EntryRefs, Kinds, Messages
<1>5. /\ e1.parent = NoRef /\ e1.turn = 0 /\ e1.kind = "standing"
      /\ e2.parent = Ref(First, 1) /\ e2.turn = 2 /\ e2.kind = "user"
      /\ e3.parent = Ref(First, 2) /\ e3.turn = 2 /\ e3.kind = "reply"
  BY DEF NewEntry, Draft
<1> HIDE DEF e1, e2, e3
<1>6. entries \in Seq(Entries)
  BY <1>1, <1>4
<1>7. \A x \in 1..Len(entries) : x = 1 \/ x = 2 \/ x = 3
  BY <1>2
<1>8. Ref(First, 1).entry = 1 /\ Ref(First, 1).session = First
      /\ Ref(First, 2).entry = 2 /\ Ref(First, 2).session = First
      /\ Ref(First, 3).entry = 3 /\ NoRef.entry = 0
  BY DEF Ref, NoRef
<1>9. \A i \in 1..Len(entries) : EntryOK(entries, i)
  BY <1>2, <1>3, <1>5, <1>7, <1>8 DEF EntryOK, IsRef, Messages
<1>10. Rooted(entries)
  BY <1>2, <1>5, <1>7, <1>8 DEF Rooted
<1>11. Path(0) = {} /\ Path(1) = {1} /\ Path(2) = {1, 2} /\ Path(3) = {1, 2, 3}
  <2>1. \A e \in 0..3 : Path(e) = Ancestors(entries, e)
    BY DEF Path, Ancestors
  <2>2. \A e \in 0..3 : Ancestors(entries, e) =
          IF e = 0 THEN {} ELSE {e} \cup Ancestors(entries, entries[e].parent.entry)
    BY <1>2, <1>10, AncestorsDef
  <2>3. Ancestors(entries, 0) = {}
    BY <2>2
  <2>4. Ancestors(entries, 1) = {1}
    BY <1>2, <1>5, <1>8, <2>2, <2>3
  <2>5. Ancestors(entries, 2) = {1, 2}
    BY <1>2, <1>5, <1>8, <2>2, <2>4
  <2>6. Ancestors(entries, 3) = {1, 2, 3}
    BY <1>2, <1>5, <1>8, <2>2, <2>5
  <2> QED
    BY <2>1, <2>3, <2>4, <2>5, <2>6
<1>12. ASSUME NEW x \in 0..Len(entries)
       PROVE  Together(entries, Path(x)) /\ SummariesOK(entries, Path(x))
  <2>1. Path(x) \subseteq {1, 2, 3}
    BY <1>2, <1>11
  <2>2. \A c \in Path(x) : entries[c].kind # "compaction"
    BY <1>2, <1>5, <2>1
  <2>3. Together(entries, Path(x))
    <3>1. \A e, g \in {1, 2, 3} : e < g /\ entries[e].turn # 0 => e = 2 /\ g = 3
      BY <1>2, <1>5
    <3>2. \A f \in {1, 2, 3} : ~(2 < f /\ f < 3)
      OBVIOUS
    <3> QED
      BY <2>1, <3>1, <3>2 DEF Together
  <2>4. SummariesOK(entries, Path(x))
    BY <2>2 DEF SummariesOK, IsAuto
  <2> QED
    BY <2>3, <2>4
<1>13. TreeOK
  BY <1>9, <1>12 DEF TreeOK
<1>14. \A q \in Requests : req[q] = Idle
  BY DEF Init
<1>15. TypeOK
  <2>1. log \in [Sessions -> SUBSET (1..Len(entries))]
        /\ acked \in [Sessions -> SUBSET (1..Len(entries))]
    BY <1>2 DEF Init
  <2>2. [status |-> "idle", leaf |-> 3, inherited |-> NoRef] \in MetaStates
    BY DraftTypes DEF MetaStates
  <2>3. meta \in [Sessions -> MetaStates]
    BY <2>2, DraftTypes DEF Init
  <2>4. req \in [Requests -> RequestStates]
    BY DraftTypes DEF Init
  <2>5. sent \in 0..MaxRequests /\ crashes \in 0..MaxCrashes
    BY BoundsAssumption DEF Init
  <2>6. reserved \subseteq Sessions /\ interrupted \subseteq Sessions
    BY DEF Init
  <2> QED
    BY <1>6, <2>1, <2>3, <2>4, <2>5, <2>6 DEF TypeOK
<1>16. StoreOK
  <2> SUFFICES ASSUME NEW s \in Sessions
               PROVE  /\ meta[s].leaf \in 0..Len(entries)
                      /\ IsRef(meta[s].inherited, Len(entries))
                      /\ ~Exists(s) => LeafRef(s) = NoRef /\ meta[s].leaf = 0 /\ log[s] = {}
                      /\ acked[s] \subseteq Branch(s)
    BY DEF StoreOK
  <2>1. CASE s = First
    <3>1. meta[s].leaf = 3 /\ meta[s].inherited = NoRef /\ Exists(s) /\ acked[s] = 1..3
      BY <2>1 DEF Init, Exists
    <3>2. LeafRef(s) = Ref(s, 3)
      BY <3>1 DEF LeafRef
    <3>3. Branch(s) = Path(3)
      BY <1>8, <2>1, <3>2 DEF Branch
    <3>4. 1..3 = {1, 2, 3}
      OBVIOUS
    <3> QED
      BY <1>2, <1>11, <3>1, <3>3, <3>4 DEF IsRef
  <2>2. CASE s # First
    <3>1. meta[s] = NoMeta /\ acked[s] = {} /\ log[s] = {}
      BY <2>2 DEF Init
    <3>2. meta[s].leaf = 0 /\ meta[s].inherited = NoRef /\ LeafRef(s) = NoRef
      BY <3>1 DEF NoMeta, LeafRef
    <3> QED
      BY <1>2, <3>1, <3>2 DEF IsRef
  <2> QED
    BY <2>1, <2>2
<1>17. ASSUME NEW q \in Requests
       PROVE  RequestOK(q)
  <2>1. req[q].op = "none" /\ req[q].pc = "idle" /\ req[q].then = "idle" /\ req[q].at = NoRef
    BY <1>14 DEF Idle
  <2> QED
    BY <2>1 DEF RequestOK, InSession, ShapeOK, IsRef, HoldsTurn, Runs, Asked, Appends, Pending
<1>18. Exclusive
  BY <1>14 DEF Exclusive, HoldsTurn, HoldsLock, Idle
<1>19. RunningOK
  <2>1. \A s \in Sessions : meta[s].status # "running"
    BY DEF Init, NoMeta
  <2> QED
    BY <2>1 DEF RunningOK
<1> QED
  BY <1>13, <1>15, <1>16, <1>17, <1>18, <1>19 DEF AgentInv

-----------------------------------------------------------------------------
(* Requests that a step is not about.                                       *)

LEMMA RequestTypes ==
  ASSUME TypeOK, NEW q \in Requests
  PROVE  /\ req[q] \in RequestStates
         /\ req[q].op \in {"none", "turn", "compact", "notice", "rewind", "fork", "delete"}
         /\ req[q].pc \in Steps
         /\ req[q].s \in Sessions \cup {NoSession}
         /\ req[q].at \in EntryRefs
         /\ req[q].turn \in Nat
         /\ req[q].rounds \in Nat
         /\ req[q].entry \in Drafts
         /\ req[q].then \in Steps
<1>1. req[q] \in RequestStates
  BY DEF TypeOK
<1> QED
  BY <1>1 DEF RequestStates

\* The log of entries has grown at most.
Grows(es, fs) ==
  /\ Len(fs) \in Nat
  /\ Len(es) <= Len(fs)
  /\ \A i \in 1..Len(es) : fs[i] = es[i]

\* What is said of a set of entries is not about later ones.
LEMMA BranchGrows ==
  ASSUME NEW es, NEW fs, Grows(es, fs), NEW b, b \subseteq 1..Len(es)
  PROVE  /\ AllAuto(fs, b) <=> AllAuto(es, b)
         /\ Content(fs, b) = Content(es, b)
         /\ Covered(fs, b) = Covered(es, b)
         /\ \A kept, covers : CutOK(fs, b, kept, covers) <=> CutOK(es, b, kept, covers)
<1>1. \A i \in b : fs[i] = es[i]
  BY DEF Grows
<1> QED
  BY <1>1 DEF AllAuto, Content, Covered, CutOK

\* A request keeps what it relies on over a step of another one that leaves its
\* turn's branch, the leaf that it moves and the files that it removes alone.
LEMMA OtherRequest ==
  ASSUME TypeOK, TreeOK, StoreOK, NEW p \in Requests, RequestOK(p),
         req'[p] = req[p], Grows(entries, entries'),
         \A s \in Sessions : req[p].s = s =>
           /\ HoldsTurn(req[p]) => s \in reserved'
           /\ req[p].pc = "unlink" => s \notin reserved' /\ log'[s] = {}
           /\ req[p].pc = "advance" => LeafRef(s)' = LeafRef(s) /\ Exists(s)'
           /\ Runs(req[p]) =>
                /\ meta'[s].status = "running"
                /\ Branch(s)' = Branch(s)
                /\ Resolves(s)' => Resolves(s)
  PROVE  RequestOK(p)'
<1>1. ShapeOK(req[p]) /\ IsRef(req[p].at, Len(entries))
  BY DEF RequestOK
<1>2. Len(entries) \in Nat /\ Len(entries') \in Nat /\ Len(entries) <= Len(entries')
  BY EntryTypes DEF Grows
<1>3. IsRef(req[p].at, Len(entries'))
  BY <1>1, <1>2 DEF IsRef
<1>4. ASSUME NEW s \in Sessions, req[p].s = s
      PROVE  InSession(p, s)'
  <2>1. InSession(p, s)
    BY <1>4 DEF RequestOK
  <2>2. Branch(s) \subseteq 1..Len(entries)
    BY BranchFacts
  <2>3. Asked(req[p]) => Runs(req[p])
    BY DEF Asked
  <2>4. Pending(req[p]) => Runs(req[p])
    BY <1>1, <2>3 DEF ShapeOK
  <2>5. req[p].pc = "end" => Runs(req[p])
    BY <1>1, RequestTypes DEF ShapeOK, Runs, Appends
  <2>6. req[p].pc = "advance" => AdvanceOK(p, s)'
    BY <1>2, <1>4, <2>1 DEF InSession, AdvanceOK, Grows
  <2>7. Asked(req[p]) => QuestionOK(p, s)'
    BY <1>4, <2>1, <2>2, <2>3 DEF InSession, QuestionOK, Grows
  <2>8. Pending(req[p]) => PendingOK(p, s)'
    <3> SUFFICES ASSUME Pending(req[p])
                 PROVE  PendingOK(p, s)'
      OBVIOUS
    <3>1. PendingOK(p, s) /\ Branch(s)' = Branch(s)
      BY <1>4, <2>1, <2>4 DEF InSession
    <3> QED
      BY <2>2, <3>1, BranchGrows DEF PendingOK
  <2>9. req[p].pc = "end" /\ Resolves(s)' => HasReply(p, s)'
    BY <1>4, <2>1, <2>2, <2>5 DEF InSession, HasReply, Grows
  <2> QED
    BY <1>4, <2>1, <2>6, <2>7, <2>8, <2>9 DEF InSession
<1> QED
  BY <1>1, <1>3, <1>4 DEF RequestOK

\* The files of the sessions, and what they were told, are as before.
SameStore == UNCHANGED <<entries, log, meta, acked, interrupted>>

LEMMA SameBranches ==
  ASSUME UNCHANGED <<entries, log, meta>>, NEW s
  PROVE  /\ LeafRef(s)' = LeafRef(s)
         /\ Branch(s)' = Branch(s)
         /\ Resolves(s)' <=> Resolves(s)
         /\ Exists(s)' <=> Exists(s)
<1>1. LeafRef(s)' = LeafRef(s) /\ Branch(s)' = Branch(s) /\ (Exists(s)' <=> Exists(s))
  BY DEF LeafRef, Branch, Path, Exists
<1> QED
  BY <1>1 DEF Resolves

LEMMA SameTree ==
  ASSUME TreeOK, entries' = entries
  PROVE  TreeOK'
BY DEF TreeOK, Path

\* No two requests have a turn, or the lock, of the same session.
LEMMA ExclusiveKept ==
  ASSUME Exclusive, NEW q \in Requests,
         \A p \in Requests \ {q} : req'[p] = req[p],
         \A p \in Requests \ {q} : req[p].s = req'[q].s =>
           /\ ~(HoldsTurn(req'[q]) /\ HoldsTurn(req[p]))
           /\ ~(HoldsLock(req'[q]) /\ HoldsLock(req[p]))
  PROVE  Exclusive'
<1> SUFFICES ASSUME NEW p1 \in Requests, NEW p2 \in Requests, p1 # p2, req'[p1].s = req'[p2].s
             PROVE  /\ ~(HoldsTurn(req'[p1]) /\ HoldsTurn(req'[p2]))
                    /\ ~(HoldsLock(req'[p1]) /\ HoldsLock(req'[p2]))
  BY DEF Exclusive
<1>1. CASE p1 # q /\ p2 # q
  BY <1>1 DEF Exclusive
<1>2. CASE p1 = q \/ p2 = q
  BY <1>2
<1> QED
  BY <1>1, <1>2

\* A step of the request q that leaves the files as they are.
LEMMA RequestOnly ==
  ASSUME AgentInv, NEW q \in Requests, SameStore, crashes' = crashes,
         sent' \in 0..MaxRequests,
         reserved' \subseteq Sessions,
         req' \in [Requests -> RequestStates],
         \A p \in Requests \ {q} : req'[p] = req[p],
         RequestOK(q)',
         \A p \in Requests \ {q} :
           /\ HoldsTurn(req[p]) => req[p].s \in reserved'
           /\ req[p].pc = "unlink" => req[p].s \notin reserved',
         \A p \in Requests \ {q} : req[p].s = req'[q].s =>
           /\ ~(HoldsTurn(req'[q]) /\ HoldsTurn(req[p]))
           /\ ~(HoldsLock(req'[q]) /\ HoldsLock(req[p])),
         Runs(req[q]) => Runs(req'[q]) /\ req'[q].s = req[q].s
  PROVE  AgentInv'
<1>1. TypeOK /\ TreeOK /\ StoreOK /\ Exclusive /\ RunningOK
  BY DEF AgentInv
<1>2. UNCHANGED <<entries, log, meta>> /\ acked' = acked /\ interrupted' = interrupted
  BY DEF SameStore
<1>3. TypeOK'
  BY <1>1, <1>2 DEF TypeOK
<1>4. TreeOK'
  BY <1>1, <1>2, SameTree
<1>5. StoreOK'
  BY <1>1, <1>2, SameBranches DEF StoreOK
<1>6. ASSUME NEW p \in Requests
      PROVE  RequestOK(p)'
  <2>1. CASE p = q
    BY <2>1
  <2>2. CASE p # q
    <3>1. RequestOK(p) /\ req'[p] = req[p]
      BY <2>2 DEF AgentInv
    <3>2. Grows(entries, entries')
      BY <1>1, <1>2, EntryTypes DEF Grows
    <3>3. ASSUME NEW s \in Sessions, req[p].s = s
          PROVE  /\ HoldsTurn(req[p]) => s \in reserved'
                 /\ req[p].pc = "unlink" => s \notin reserved' /\ log'[s] = {}
                 /\ req[p].pc = "advance" => LeafRef(s)' = LeafRef(s) /\ Exists(s)'
                 /\ Runs(req[p]) =>
                      /\ meta'[s].status = "running"
                      /\ Branch(s)' = Branch(s)
                      /\ Resolves(s)' => Resolves(s)
      <4>1. InSession(p, s)
        BY <3>1, <3>3 DEF RequestOK
      <4>2. req[p].pc = "advance" => Exists(s)
        BY <4>1 DEF InSession, AdvanceOK
      <4> QED
        BY <1>2, <2>2, <3>3, <4>1, <4>2, SameBranches DEF InSession
    <3> QED
      BY <1>1, <3>1, <3>2, <3>3, OtherRequest
  <2> QED
    BY <2>1, <2>2
<1>7. Exclusive'
  BY <1>1, ExclusiveKept
<1>8. RunningOK'
  BY <1>1, <1>2 DEF RunningOK
<1> QED
  BY <1>3, <1>4, <1>5, <1>6, <1>7, <1>8 DEF AgentInv

\* A turn or a compaction goes on without touching the files.
LEMMA GoesOn ==
  ASSUME AgentInv, NEW q \in Requests, SameStore, UNCHANGED <<reserved, sent, crashes>>,
         req' \in [Requests -> RequestStates],
         \A p \in Requests \ {q} : req'[p] = req[p],
         req'[q].s = req[q].s, req'[q].turn = req[q].turn, req'[q].at = req[q].at,
         ShapeOK(req'[q]),
         HoldsTurn(req[q]),
         req'[q].pc \notin {"advance", "unlink"},
         Runs(req'[q]) <=> Runs(req[q]),
         Asked(req'[q]) => Asked(req[q]),
         \A s \in Sessions : req[q].s = s =>
           /\ Pending(req'[q]) => PendingOK(q, s)'
           /\ req'[q].pc = "end" => ~Resolves(s)
  PROVE  AgentInv'
<1>1. TypeOK /\ Exclusive /\ RequestOK(q) /\ \A p \in Requests : RequestOK(p)
  BY DEF AgentInv
<1>2. UNCHANGED <<entries, log, meta>>
  BY DEF SameStore
<1>3. ASSUME NEW s \in Sessions, req'[q].s = s
      PROVE  InSession(q, s)'
  <2>1. InSession(q, s)
    BY <1>1, <1>3 DEF RequestOK
  <2>2. Asked(req'[q]) => QuestionOK(q, s)'
    BY <1>2, <2>1, SameBranches DEF InSession, QuestionOK
  <2>3. ~(req'[q].pc = "end" /\ Resolves(s)')
    BY <1>2, <1>3, SameBranches
  <2> QED
    BY <1>2, <1>3, <2>1, <2>2, <2>3 DEF InSession
<1>4. RequestOK(q)'
  BY <1>1, <1>2, <1>3 DEF RequestOK
<1>5. ASSUME NEW p \in Requests \ {q}
      PROVE  /\ HoldsTurn(req[p]) => req[p].s \in reserved'
             /\ req[p].pc = "unlink" => req[p].s \notin reserved'
             /\ req[p].s = req'[q].s =>
                  /\ ~(HoldsTurn(req'[q]) /\ HoldsTurn(req[p]))
                  /\ ~(HoldsLock(req'[q]) /\ HoldsLock(req[p]))
  <2>1. HoldsTurn(req[p]) => req[p].s \in reserved
    BY <1>1 DEF RequestOK, InSession, ShapeOK, HoldsTurn
  <2>2. req[p].pc = "unlink" => req[p].s \notin reserved
    BY <1>1 DEF RequestOK, InSession, ShapeOK
  <2>3. req[p].s = req[q].s => ~HoldsTurn(req[p])
    BY <1>1 DEF Exclusive
  <2> QED
    BY <2>1, <2>2, <2>3 DEF HoldsLock
<1>6. reserved' \subseteq Sessions /\ sent' \in 0..MaxRequests
  BY <1>1 DEF TypeOK
<1> QED
  BY <1>4, <1>5, <1>6, RequestOnly

\* A request ends, or its reservation does.
LEMMA Finishes ==
  ASSUME AgentInv, NEW q \in Requests, SameStore, UNCHANGED <<sent, crashes>>,
         req' = [req EXCEPT ![q] = Idle],
         ~Runs(req[q]),
         reserved' = reserved \/ (HoldsTurn(req[q]) /\ reserved' = reserved \ {req[q].s})
  PROVE  AgentInv'
<1>1. TypeOK /\ Exclusive /\ \A p \in Requests : RequestOK(p)
  BY DEF AgentInv
<1>2. req' \in [Requests -> RequestStates] /\ req'[q] = Idle
      /\ \A p \in Requests \ {q} : req'[p] = req[p]
  BY <1>1, DraftTypes DEF TypeOK
<1>3. /\ req'[q].op = "none" /\ req'[q].pc = "idle" /\ req'[q].then = "idle"
      /\ req'[q].at = NoRef
  BY <1>2 DEF Idle
<1>4. ~HoldsTurn(req'[q]) /\ ~HoldsLock(req'[q]) /\ ~Runs(req'[q]) /\ ~Asked(req'[q])
      /\ ~Pending(req'[q]) /\ ShapeOK(req'[q])
  BY <1>3 DEF HoldsTurn, HoldsLock, Runs, Asked, Pending, ShapeOK, Appends
<1>5. RequestOK(q)'
  BY <1>3, <1>4 DEF RequestOK, InSession, IsRef
<1>6. ASSUME NEW p \in Requests \ {q}
      PROVE  /\ HoldsTurn(req[p]) => req[p].s \in reserved'
             /\ req[p].pc = "unlink" => req[p].s \notin reserved'
  <2>1. HoldsTurn(req[p]) => req[p].s \in reserved
    BY <1>1 DEF RequestOK, InSession, ShapeOK, HoldsTurn
  <2>2. req[p].pc = "unlink" => req[p].s \notin reserved
    BY <1>1 DEF RequestOK, InSession, ShapeOK
  <2>3. HoldsTurn(req[q]) /\ HoldsTurn(req[p]) => req[p].s # req[q].s
    BY <1>1 DEF Exclusive
  <2> QED
    BY <2>1, <2>2, <2>3
<1>7. reserved' \subseteq Sessions /\ sent' \in 0..MaxRequests
  BY <1>1 DEF TypeOK
<1> QED
  BY <1>2, <1>4, <1>5, <1>6, <1>7, RequestOnly

LEMMA ArriveKeeps ==
  ASSUME AgentInv, NEW q \in Requests, NEW s \in Sessions, NEW op, NEW pc, NEW at \in EntryRefs,
         MayArrive(q, s), Arrive(q, op, s, pc, at), IsRef(at, Len(entries)),
         \/ op \in {"turn", "compact"} /\ pc = "reserve"
         \/ op = "notice" /\ pc = "append"
         \/ op \in {"rewind", "fork", "delete"} /\ pc = op
  PROVE  AgentInv'
<1>1. TypeOK /\ \A p \in Requests : RequestOK(p)
  BY DEF AgentInv
<1> DEFINE r == [Idle EXCEPT !.op = op, !.s = s, !.pc = pc, !.at = at]
<1>2. /\ r \in RequestStates
      /\ r.op = op /\ r.s = s /\ r.pc = pc /\ r.at = at /\ r.then = "idle"
      /\ r.entry.kind = "notice" /\ r.entry.turn = 0 /\ r.entry.trigger = "none"
  <2>1. /\ r.op = op /\ r.s = s /\ r.pc = pc /\ r.at = at /\ r.then = "idle"
        /\ r.entry = Draft("notice", 0)
    BY DEF Idle
  <2>2. r \in RequestStates
    <3>1. op \in {"none", "turn", "compact", "notice", "rewind", "fork", "delete"} /\ pc \in Steps
      BY DEF Steps
    <3> QED
      BY <3>1, DraftTypes DEF RequestStates
  <2> HIDE DEF r
  <2> QED
    BY <2>1, <2>2 DEF Draft
<1>3. req' = [req EXCEPT ![q] = r]
  BY DEF Arrive, Become
<1> HIDE DEF r
<1>4. req' \in [Requests -> RequestStates] /\ req'[q] = r
      /\ \A p \in Requests \ {q} : req'[p] = req[p]
  BY <1>1, <1>2, <1>3 DEF TypeOK
<1>5. ~HoldsTurn(r) /\ ~HoldsLock(r) /\ ~Runs(r) /\ ~Asked(r) /\ ~Pending(r)
  BY <1>2 DEF HoldsTurn, HoldsLock, Runs, Asked, Pending
<1>6. ShapeOK(r)
  BY <1>2, <1>5 DEF ShapeOK, Appends, Messages
<1>7. SameStore /\ UNCHANGED <<reserved, crashes>> /\ sent' = sent + 1
  BY DEF Arrive, SameStore
<1>8. RequestOK(q)'
  <2>1. r.pc \notin {"unlink", "advance", "end"}
    BY <1>2
  <2>2. IsRef(r.at, Len(entries'))
    BY <1>2, <1>7 DEF SameStore
  <2> QED
    BY <1>4, <1>5, <1>6, <2>1, <2>2 DEF RequestOK, InSession
<1>9. ASSUME NEW p \in Requests \ {q}
      PROVE  /\ HoldsTurn(req[p]) => req[p].s \in reserved'
             /\ req[p].pc = "unlink" => req[p].s \notin reserved'
  <2>1. HoldsTurn(req[p]) => req[p].s \in reserved
    BY <1>1 DEF RequestOK, InSession, ShapeOK, HoldsTurn
  <2>2. req[p].pc = "unlink" => req[p].s \notin reserved
    BY <1>1 DEF RequestOK, InSession, ShapeOK
  <2> QED
    BY <1>7, <2>1, <2>2
<1>10. ~Runs(req[q])
  BY DEF MayArrive, Runs
<1>11. reserved' \subseteq Sessions /\ sent' \in 0..MaxRequests
  <2>1. MaxRequests \in Nat
    BY BoundsAssumption
  <2> QED
    BY <1>1, <1>7, <2>1 DEF TypeOK, MayArrive
<1> QED
  BY <1>4, <1>5, <1>7, <1>8, <1>9, <1>10, <1>11, RequestOnly

LEMMA RequestArrivesKeeps ==
  ASSUME AgentInv, NEW q \in Requests, RequestArrives(q)
  PROVE  AgentInv'
<1>1. TypeOK /\ TreeOK /\ StoreOK
  BY DEF AgentInv
<1>2. PICK s \in Sessions :
        /\ MayArrive(q, s)
        /\ \/ StartTurn(q, s) \/ StartDelete(q, s) \/ StartCompact(q, s) \/ StartNotice(q, s)
           \/ \E e \in Branch(s) : StartRewind(q, s, e) \/ StartFork(q, s, e)
  BY DEF RequestArrives
<1>3. NoRef \in EntryRefs /\ IsRef(NoRef, Len(entries))
  BY DraftTypes DEF IsRef
<1>4. CASE StartTurn(q, s)
  BY <1>2, <1>3, <1>4, ArriveKeeps DEF StartTurn
<1>5. CASE StartDelete(q, s)
  BY <1>2, <1>3, <1>5, ArriveKeeps DEF StartDelete
<1>6. CASE StartCompact(q, s)
  BY <1>2, <1>3, <1>6, ArriveKeeps DEF StartCompact
<1>7. CASE StartNotice(q, s)
  BY <1>2, <1>3, <1>7, ArriveKeeps DEF StartNotice
<1>8. ASSUME NEW e \in Branch(s), StartRewind(q, s, e) \/ StartFork(q, s, e)
      PROVE  AgentInv'
  <2>1. e \in 1..Len(entries) /\ Len(entries) \in Nat
    BY <1>1, <1>8, BranchFacts, EntryTypes
  <2>2. entries[e].parent \in EntryRefs /\ IsRef(entries[e].parent, e - 1)
    BY <1>1, <2>1, EntryTypes DEF TreeOK, EntryOK
  <2>3. IsRef(entries[e].parent, Len(entries))
    BY <2>1, <2>2 DEF IsRef
  <2>4. Ref(s, e) \in EntryRefs /\ IsRef(Ref(s, e), Len(entries))
    BY <2>1 DEF Ref, EntryRefs, IsRef
  <2>5. ForkPoint(s, e) \in EntryRefs /\ IsRef(ForkPoint(s, e), Len(entries))
    BY <2>2, <2>3, <2>4 DEF ForkPoint
  <2>6. CASE StartRewind(q, s, e)
    BY <1>2, <2>2, <2>3, <2>6, ArriveKeeps DEF StartRewind
  <2>7. CASE StartFork(q, s, e)
    <3>1. Arrive(q, "fork", s, "fork", ForkPoint(s, e))
      BY <2>7 DEF StartFork
    <3> QED
      BY <1>2, <2>5, <3>1, ArriveKeeps
  <2> QED
    BY <1>8, <2>6, <2>7
<1> QED
  BY <1>2, <1>4, <1>5, <1>6, <1>7, <1>8

-----------------------------------------------------------------------------
(* Steps of a turn or a compaction that leave the files alone.              *)

LEMMA GotoFields ==
  ASSUME TypeOK, NEW q \in Requests, NEW pc \in Steps, Goto(q, pc)
  PROVE  /\ req' \in [Requests -> RequestStates]
         /\ \A p \in Requests \ {q} : req'[p] = req[p]
         /\ req'[q].op = req[q].op /\ req'[q].pc = pc /\ req'[q].s = req[q].s
         /\ req'[q].at = req[q].at /\ req'[q].turn = req[q].turn
         /\ req'[q].entry = req[q].entry /\ req'[q].then = req[q].then
<1> DEFINE r == [req[q] EXCEPT !.pc = pc]
<1>1. req' = [req EXCEPT ![q] = r]
  BY DEF Goto, Become
<1>2. req[q] \in RequestStates
  BY RequestTypes
<1>3. r \in RequestStates
  BY <1>2 DEF RequestStates
<1>4. /\ r.op = req[q].op /\ r.pc = pc /\ r.s = req[q].s
      /\ r.at = req[q].at /\ r.turn = req[q].turn
      /\ r.entry = req[q].entry /\ r.then = req[q].then
  BY <1>2 DEF RequestStates
<1> HIDE DEF r
<1> QED
  BY <1>1, <1>3, <1>4 DEF TypeOK

LEMMA ToAppendFields ==
  ASSUME TypeOK, NEW q \in Requests, NEW d \in Drafts, NEW then \in Steps,
         ToAppend(q, d, then)
  PROVE  /\ req' \in [Requests -> RequestStates]
         /\ \A p \in Requests \ {q} : req'[p] = req[p]
         /\ req'[q].op = req[q].op /\ req'[q].pc = "append" /\ req'[q].s = req[q].s
         /\ req'[q].at = req[q].at /\ req'[q].turn = req[q].turn
         /\ req'[q].entry = d /\ req'[q].then = then
<1> DEFINE r == [req[q] EXCEPT !.pc = "append", !.entry = d, !.then = then]
<1>1. req' = [req EXCEPT ![q] = r]
  BY DEF ToAppend, Become
<1>2. req[q] \in RequestStates
  BY RequestTypes
<1>3. r \in RequestStates
  BY <1>2 DEF RequestStates, Steps
<1>4. /\ r.op = req[q].op /\ r.pc = "append" /\ r.s = req[q].s
      /\ r.at = req[q].at /\ r.turn = req[q].turn
      /\ r.entry = d /\ r.then = then
  BY <1>2 DEF RequestStates
<1> HIDE DEF r
<1> QED
  BY <1>1, <1>3, <1>4 DEF TypeOK

LEMMA GotoKeeps ==
  ASSUME AgentInv, NEW q \in Requests, NEW pc \in Steps, Goto(q, pc),
         SameStore, UNCHANGED <<reserved, sent, crashes>>,
         \/ req[q].pc = "setup" /\ pc \in {"begin", "release"}
         \/ req[q].pc = "begin" /\ pc = "release"
         \/ req[q].pc = "context" /\ pc = "ask"
         \/ req[q].pc = "context" /\ pc = "end" /\ ~Resolves(req[q].s)
         \/ req[q].pc = "plan" /\ pc = "release"
  PROVE  AgentInv'
<1>1. TypeOK /\ ShapeOK(req[q])
  BY DEF AgentInv, RequestOK
<1> DEFINE fields ==
      /\ req'[q].op = req[q].op /\ req'[q].pc = pc /\ req'[q].s = req[q].s
      /\ req'[q].at = req[q].at /\ req'[q].turn = req[q].turn
      /\ req'[q].entry = req[q].entry /\ req'[q].then = req[q].then
<1>2. fields
  BY <1>1, GotoFields
<1>3. req[q].op \in {"turn", "compact"} /\ req[q].then = "idle" /\ ~Appends(req[q])
  BY <1>1, RequestTypes DEF ShapeOK, Appends
<1>4. HoldsTurn(req[q])
  BY <1>3 DEF HoldsTurn
<1>5. Runs(req'[q]) <=> Runs(req[q])
  BY <1>1, <1>2, <1>3 DEF Runs, ShapeOK
<1>6. Asked(req'[q]) => Asked(req[q])
  BY <1>3, <1>5 DEF Asked
<1>7. ~Pending(req'[q])
  BY <1>2 DEF Pending
<1>8. ShapeOK(req'[q])
  BY <1>1, <1>2, <1>3, <1>7 DEF ShapeOK, Appends
<1>9. req'[q].pc \notin {"advance", "unlink"}
      /\ \A s \in Sessions : req[q].s = s => (req'[q].pc = "end" => ~Resolves(s))
  BY <1>2
<1> HIDE DEF fields
<1>10. /\ req' \in [Requests -> RequestStates]
       /\ \A p \in Requests \ {q} : req'[p] = req[p]
  BY <1>1, GotoFields
<1> QED
  BY <1>2, <1>4, <1>5, <1>6, <1>7, <1>8, <1>9, <1>10, GoesOn DEF fields

LEMMA SetUpKeeps ==
  ASSUME AgentInv, NEW q \in Requests, SetUp(q)
  PROVE  AgentInv'
<1>1. PICK pc \in {"begin", "release"} : Goto(q, pc)
  BY DEF SetUp
<1>2. pc \in Steps /\ req[q].pc = "setup" /\ SameStore /\ UNCHANGED <<reserved, sent, crashes>>
  BY DEF SetUp, SameStore, Steps
<1> QED
  BY <1>1, <1>2, GotoKeeps

LEMMA BuildContextKeeps ==
  ASSUME AgentInv, NEW q \in Requests, BuildContext(q)
  PROVE  AgentInv'
<1>1. PICK pc : pc = IF Resolves(req[q].s) THEN "ask" ELSE "end"
  OBVIOUS
<1>2. Goto(q, pc)
  BY <1>1 DEF BuildContext
<1>3. /\ pc \in Steps /\ req[q].pc = "context"
      /\ SameStore /\ UNCHANGED <<reserved, sent, crashes>>
  BY <1>1 DEF BuildContext, SameStore, Steps
<1>4. pc = "ask" \/ (pc = "end" /\ ~Resolves(req[q].s))
  BY <1>1
<1> QED
  BY <1>2, <1>3, <1>4, GotoKeeps

LEMMA PlanNothingKeeps ==
  ASSUME AgentInv, NEW q \in Requests, PlanNothing(q)
  PROVE  AgentInv'
<1>1. /\ "release" \in Steps /\ req[q].pc = "plan" /\ Goto(q, "release")
      /\ SameStore /\ UNCHANGED <<reserved, sent, crashes>>
  BY DEF PlanNothing, SameStore, Steps
<1> QED
  BY <1>1, GotoKeeps

\* What a turn that runs appends: messages of its own, or the summary it planned.
LEMMA AppendsNext ==
  ASSUME AgentInv, NEW q \in Requests, NEW d \in Drafts, NEW then \in Steps,
         SameStore, UNCHANGED <<reserved, sent, crashes>>,
         req' \in [Requests -> RequestStates],
         \A p \in Requests \ {q} : req'[p] = req[p],
         req'[q].op = req[q].op, req'[q].pc = "append", req'[q].s = req[q].s,
         req'[q].at = req[q].at, req'[q].turn = req[q].turn,
         req'[q].entry = d, req'[q].then = then,
         \/ req[q].pc = "setup" /\ d = Draft("notice", 0) /\ then = "setup"
         \/ req[q].pc = "summarize" /\ d = req[q].entry /\ then = AfterSummary(q)
         \/ req[q].pc = "ask" /\ d = Draft("reply", req[q].turn) /\ then = "end"
         \/ req[q].pc = "ask" /\ d = Draft("call", req[q].turn) /\ then = "tool"
         \/ req[q].pc = "tool" /\ d = Draft("result", req[q].turn) /\ then = "context"
  PROVE  AgentInv'
<1>1. TypeOK /\ RequestOK(q) /\ ShapeOK(req[q])
  BY DEF AgentInv, RequestOK
<1>2. req[q].op \in {"turn", "compact"} /\ req[q].then = "idle" /\ ~Appends(req[q])
      /\ req[q].s \in Sessions
  BY <1>1, RequestTypes DEF ShapeOK, Appends
<1>3. HoldsTurn(req[q])
  BY <1>2 DEF HoldsTurn
<1>4. /\ req[q].pc \in {"setup", "ask", "tool"} => req[q].op = "turn"
      /\ req[q].pc = "summarize" => req[q].entry.kind = "compaction" /\ req[q].entry.turn = 0
      /\ req[q].pc = "summarize" /\ req[q].op = "turn" => req[q].entry.trigger = "auto"
      /\ Pending(req[q]) => Asked(req[q])
  BY <1>1, <1>2 DEF ShapeOK
<1>5. /\ req[q].op = "turn" /\ req[q].pc \in {"summarize", "ask", "tool"} =>
           Runs(req[q]) /\ Asked(req[q])
      /\ req[q].pc = "setup" => ~Runs(req[q])
  BY <1>2 DEF Runs, Asked
<1>6. Runs(req'[q]) <=> Runs(req[q])
  BY <1>2, <1>4, <1>5 DEF Runs, AfterSummary
<1>7. d.kind \notin {"user"}
  BY <1>4 DEF Draft
<1>8. Asked(req'[q]) => Asked(req[q])
  BY <1>2, <1>6, <1>7 DEF Asked
<1>9. Pending(req'[q]) => req[q].pc = "summarize" /\ d = req[q].entry /\ Pending(req[q])
  BY DEF Pending, Draft
<1>10. ASSUME Asked(req[q])
       PROVE  req[q].turn # 0
  BY <1>1, <1>2, <1>10 DEF RequestOK, InSession, QuestionOK
<1>11. ShapeOK(req'[q])
  <2>1. Pending(req'[q]) => Asked(req'[q]) /\ req'[q].entry.kind = "compaction"
    <3> SUFFICES ASSUME Pending(req'[q])
                 PROVE  Asked(req'[q]) /\ req'[q].entry.kind = "compaction"
      OBVIOUS
    <3>1. Asked(req[q]) /\ d.kind = "compaction"
      BY <1>4, <1>9
    <3> QED
      BY <1>6, <1>7, <3>1 DEF Asked
  <2>2. d.kind # "user" =>
          /\ d.turn # 0 <=> d.kind \in Messages
          /\ d.turn # 0 => Runs(req'[q]) /\ d.turn = req[q].turn
    BY <1>4, <1>5, <1>6, <1>10 DEF Draft, Messages
  <2>3. /\ req[q].op = "turn" => then \in {"setup", "context", "tool", "end"}
        /\ req[q].op = "compact" => then = "release"
        /\ then = "end" => d.kind = "reply"
    BY <1>2, <1>4 DEF AfterSummary, Draft
  <2> QED
    BY <1>2, <1>7, <2>1, <2>2, <2>3 DEF ShapeOK, Appends
<1>12. ASSUME NEW s \in Sessions, req[q].s = s, Pending(req'[q])
       PROVE  PendingOK(q, s)'
  <2>1. PendingOK(q, s) /\ req'[q].entry = req[q].entry
    BY <1>1, <1>9, <1>12 DEF RequestOK, InSession
  <2>2. UNCHANGED <<entries, log, meta>>
    BY DEF SameStore
  <2> QED
    BY <2>1, <2>2, SameBranches DEF PendingOK
<1> QED
  BY <1>3, <1>6, <1>8, <1>11, <1>12, GoesOn

LEMMA TurnDrafts ==
  ASSUME TypeOK, NEW q \in Requests
  PROVE  /\ \A kind \in Kinds : Draft(kind, req[q].turn) \in Drafts
         /\ Draft("notice", 0) \in Drafts
         /\ req[q].entry \in Drafts
         /\ {"reply", "call", "result", "notice", "user"} \subseteq Kinds
BY RequestTypes, DraftTypes DEF Kinds, Messages

LEMMA TellBeforeKeeps ==
  ASSUME AgentInv, NEW q \in Requests, TellBefore(q)
  PROVE  AgentInv'
<1>1. TypeOK
  BY DEF AgentInv
<1>2. /\ req[q].pc = "setup" /\ ToAppend(q, Draft("notice", 0), "setup")
      /\ SameStore /\ UNCHANGED <<reserved, sent, crashes>> /\ "setup" \in Steps
  BY DEF TellBefore, SameStore, Steps
<1> QED
  BY <1>1, <1>2, TurnDrafts, ToAppendFields, AppendsNext

LEMMA ReplyKeeps ==
  ASSUME AgentInv, NEW q \in Requests, Reply(q)
  PROVE  AgentInv'
<1>1. TypeOK
  BY DEF AgentInv
<1>2. /\ req[q].pc = "ask" /\ ToAppend(q, Draft("reply", req[q].turn), "end")
      /\ SameStore /\ UNCHANGED <<reserved, sent, crashes>> /\ "end" \in Steps
  BY DEF Reply, SameStore, Steps
<1> QED
  BY <1>1, <1>2, TurnDrafts, ToAppendFields, AppendsNext

LEMMA ToolReturnsKeeps ==
  ASSUME AgentInv, NEW q \in Requests, ToolReturns(q)
  PROVE  AgentInv'
<1>1. TypeOK
  BY DEF AgentInv
<1>2. /\ req[q].pc = "tool" /\ ToAppend(q, Draft("result", req[q].turn), "context")
      /\ SameStore /\ UNCHANGED <<reserved, sent, crashes>> /\ "context" \in Steps
  BY DEF ToolReturns, SameStore, Steps
<1> QED
  BY <1>1, <1>2, TurnDrafts, ToAppendFields, AppendsNext

LEMMA RoundKeeps ==
  ASSUME AgentInv, NEW q \in Requests, Round(q)
  PROVE  AgentInv'
<1>1. TypeOK /\ req[q] \in RequestStates
  BY RequestTypes DEF AgentInv
<1> DEFINE d == Draft("call", req[q].turn)
           r == [req[q] EXCEPT !.pc = "append", !.rounds = @ + 1, !.then = "tool", !.entry = d]
<1>2. d \in Drafts
  BY <1>1, TurnDrafts
<1>3. req' = [req EXCEPT ![q] = r]
  BY DEF Round, Become
<1>4. d = Draft("call", req[q].turn)
  OBVIOUS
<1> HIDE DEF d
<1>5. r \in RequestStates
  <2>1. req[q].rounds + 1 \in Nat
    BY <1>1, RequestTypes
  <2> QED
    BY <1>1, <1>2, <2>1 DEF RequestStates, Steps
<1>6. /\ r.op = req[q].op /\ r.pc = "append" /\ r.s = req[q].s
      /\ r.at = req[q].at /\ r.turn = req[q].turn
      /\ r.entry = d /\ r.then = "tool"
  BY <1>1 DEF RequestStates
<1> HIDE DEF r
<1>7. req' \in [Requests -> RequestStates] /\ req'[q] = r
      /\ \A p \in Requests \ {q} : req'[p] = req[p]
  BY <1>1, <1>3, <1>5 DEF TypeOK
<1>8. /\ req[q].pc = "ask" /\ SameStore /\ UNCHANGED <<reserved, sent, crashes>>
      /\ "tool" \in Steps
  BY DEF Round, SameStore, Steps
<1> QED
  BY <1>2, <1>4, <1>6, <1>7, <1>8, AppendsNext

\* A compaction is planned, and its summary asked for.
LEMMA PlanSummaryKeeps ==
  ASSUME AgentInv, NEW q \in Requests, PlanSummary(q)
  PROVE  AgentInv'
<1>1. TypeOK /\ TreeOK /\ StoreOK /\ ShapeOK(req[q]) /\ req[q] \in RequestStates
  BY RequestTypes DEF AgentInv, RequestOK
<1>2. /\ req[q].pc \in {"plan", "ask"} /\ req[q].then = "idle" /\ ~Appends(req[q])
      /\ req[q].op = IF req[q].pc = "ask" THEN "turn" ELSE "compact"
      /\ req[q].s \in Sessions
  BY <1>1, RequestTypes DEF PlanSummary, ShapeOK, Appends
<1>3. PICK s \in Sessions : req[q].s = s
  BY <1>2
<1> DEFINE b == Branch(s)
<1>4. PICK trigger \in {"auto", "manual"} :
        trigger = IF req[q].op = "turn" THEN "auto" ELSE "manual"
  OBVIOUS
<1>5. PICK cut \in CutPoints(b) :
        req' = [req EXCEPT ![q] = [req[q] EXCEPT !.pc = "summarize",
                                                 !.entry = Summary(b, cut, trigger)]]
  BY <1>3, <1>4 DEF PlanSummary, Become
<1>6. PICK covers : covers = {e \in Live(b) : e < cut}
  OBVIOUS
<1>7. /\ cut \in Nat
      /\ CutOK(entries, b, cut, covers)
      /\ AllAuto(entries, b) =>
           \A e \in Content(entries, b) : e < cut => e \in covers \cup Covered(entries, b)
  BY <1>1, <1>5, <1>6, PlanFits
<1>8. PICK d : d = Summary(b, cut, trigger)
  OBVIOUS
<1>9. /\ d.kind = "compaction" /\ d.turn = 0 /\ d.trigger = trigger
      /\ d.kept = cut /\ d.covers = covers
  BY <1>6, <1>8 DEF Summary
<1>10. d \in Drafts
  <2>1. covers \subseteq Nat
    BY <1>1, <1>7, BranchFacts, EntryTypes DEF CutOK
  <2>2. d = [kind |-> "compaction", turn |-> 0, trigger |-> trigger, kept |-> cut,
             covers |-> covers]
    BY <1>6, <1>8 DEF Summary
  <2> QED
    BY <1>7, <2>1, <2>2 DEF Drafts, Kinds
<1> DEFINE r == [req[q] EXCEPT !.pc = "summarize", !.entry = d]
<1>11. req' = [req EXCEPT ![q] = r]
  BY <1>5, <1>8
<1>12. r \in RequestStates
  BY <1>1, <1>10 DEF RequestStates, Steps
<1>13. /\ r.op = req[q].op /\ r.pc = "summarize" /\ r.s = req[q].s
       /\ r.at = req[q].at /\ r.turn = req[q].turn
       /\ r.entry = d /\ r.then = req[q].then
  BY <1>1 DEF RequestStates
<1> HIDE DEF r, b
<1>14. /\ req' \in [Requests -> RequestStates] /\ req'[q] = r
       /\ \A p \in Requests \ {q} : req'[p] = req[p]
  BY <1>1, <1>11, <1>12 DEF TypeOK
<1>15. HoldsTurn(req[q])
  BY <1>2 DEF HoldsTurn
<1>16. Runs(r) <=> Runs(req[q])
  BY <1>2, <1>13 DEF Runs
<1>17. Asked(r) <=> Asked(req[q])
  BY <1>2, <1>13, <1>16 DEF Asked, Appends
<1>18. Pending(r) => req[q].op = "turn" /\ Asked(r)
  BY <1>2, <1>4, <1>9, <1>13, <1>17 DEF Pending, Runs, Asked
<1>19. ShapeOK(r)
  BY <1>1, <1>2, <1>4, <1>9, <1>13, <1>18 DEF ShapeOK, Appends
<1>20. SameStore /\ UNCHANGED <<reserved, sent, crashes>>
  BY DEF PlanSummary, SameStore
<1>21. PendingOK(q, s)'
  <2>1. UNCHANGED <<entries, log, meta>>
    BY <1>20 DEF SameStore
  <2> QED
    BY <1>7, <1>9, <1>13, <1>14, <2>1, SameBranches DEF PendingOK, b
<1>22. \A t \in Sessions : req[q].s = t => (Pending(req'[q]) => PendingOK(q, t)')
  BY <1>3, <1>21
<1> QED
  BY <1>13, <1>14, <1>15, <1>16, <1>17, <1>19, <1>20, <1>22, GoesOn

LEMMA SummarizedKeeps ==
  ASSUME AgentInv, NEW q \in Requests, Summarized(q)
  PROVE  AgentInv'
<1>1. TypeOK /\ ShapeOK(req[q]) /\ req[q] \in RequestStates
  BY RequestTypes DEF AgentInv, RequestOK
<1>2. /\ req[q].pc = "summarize" /\ SameStore /\ UNCHANGED <<reserved, sent, crashes>>
      /\ AfterSummary(q) \in Steps
  BY DEF Summarized, SameStore, AfterSummary, Steps
<1>3. CASE ToAppend(q, req[q].entry, AfterSummary(q))
  BY <1>1, <1>2, <1>3, TurnDrafts, ToAppendFields, AppendsNext
<1>4. CASE Become(q, [req[q] EXCEPT !.pc = AfterSummary(q), !.entry = Draft("notice", 0)])
  <2> DEFINE r == [req[q] EXCEPT !.pc = AfterSummary(q), !.entry = Draft("notice", 0)]
  <2>1. req' = [req EXCEPT ![q] = r]
    BY <1>4 DEF Become
  <2>2. Draft("notice", 0) \in Drafts
    BY <1>1, TurnDrafts
  <2>3. r \in RequestStates
    <3> HIDE DEF Draft
    <3> QED
      BY <1>1, <1>2, <2>2 DEF RequestStates
  <2>4. /\ r.op = req[q].op /\ r.pc = AfterSummary(q) /\ r.s = req[q].s
        /\ r.at = req[q].at /\ r.turn = req[q].turn /\ r.then = req[q].then
    BY <1>1 DEF RequestStates
  <2> HIDE DEF r
  <2>5. /\ req' \in [Requests -> RequestStates] /\ req'[q] = r
        /\ \A p \in Requests \ {q} : req'[p] = req[p]
    BY <1>1, <2>1, <2>3 DEF TypeOK
  <2>6. req[q].op \in {"turn", "compact"} /\ req[q].then = "idle" /\ ~Appends(req[q])
        /\ req[q].s \in Sessions
    BY <1>1, <1>2, RequestTypes DEF ShapeOK, Appends
  <2>7. r.pc = IF req[q].op = "turn" THEN "context" ELSE "release"
    BY <2>4 DEF AfterSummary
  <2>8. HoldsTurn(req[q]) /\ ~Pending(r)
    BY <1>2, <2>6, <2>7 DEF HoldsTurn, Pending
  <2>9. (Runs(r) <=> Runs(req[q])) /\ (Asked(r) <=> Asked(req[q]))
    BY <1>2, <2>4, <2>6, <2>7 DEF Runs, Asked, Appends
  <2>10. ShapeOK(r)
    BY <1>1, <2>4, <2>6, <2>7, <2>8 DEF ShapeOK, Appends
  <2>11. r.pc \notin {"advance", "unlink", "end"}
    BY <2>7
  <2> QED
    BY <1>2, <2>4, <2>5, <2>8, <2>9, <2>10, <2>11, GoesOn
<1> QED
  BY <1>3, <1>4 DEF Summarized

-----------------------------------------------------------------------------
(* Reservations, and requests that end.                                     *)

LEMMA ReserveKeeps ==
  ASSUME AgentInv, NEW q \in Requests, Reserve(q)
  PROVE  AgentInv'
<1>1. TypeOK /\ ShapeOK(req[q]) /\ req[q].pc = "reserve" /\ \A p \in Requests : RequestOK(p)
  BY DEF AgentInv, RequestOK, Reserve
<1>2. req[q].op \in {"turn", "compact"} /\ req[q].then = "idle" /\ req[q].s \in Sessions
  BY <1>1, RequestTypes DEF ShapeOK, Appends
<1>3. ~Runs(req[q])
  BY <1>1 DEF Runs
<1>4. SameStore /\ UNCHANGED <<sent, crashes>>
  BY DEF Reserve, SameStore
<1>5. CASE ~TurnFree(req[q].s)
  <2>1. req' = [req EXCEPT ![q] = Idle] /\ reserved' = reserved
    BY <1>5 DEF Reserve, Finish, Become
  <2> QED
    BY <1>3, <1>4, <2>1, Finishes
<1>6. CASE TurnFree(req[q].s)
  <2>1. PICK pc : pc = IF req[q].op = "turn" THEN "setup" ELSE "plan"
    OBVIOUS
  <2>2. Goto(q, pc) /\ pc \in Steps /\ pc \notin {"advance", "unlink", "append", "summarize", "end"}
        /\ reserved' = reserved \cup {req[q].s}
    BY <1>6, <2>1 DEF Reserve, Steps
  <2>3. /\ req' \in [Requests -> RequestStates]
        /\ \A p \in Requests \ {q} : req'[p] = req[p]
        /\ req'[q].op = req[q].op /\ req'[q].pc = pc /\ req'[q].s = req[q].s
        /\ req'[q].at = req[q].at /\ req'[q].turn = req[q].turn
        /\ req'[q].entry = req[q].entry /\ req'[q].then = req[q].then
    BY <1>1, <2>2, GotoFields
  <2>4. ~Runs(req'[q]) /\ ~Asked(req'[q]) /\ ~Pending(req'[q]) /\ ~HoldsLock(req'[q])
    BY <1>2, <2>1, <2>2, <2>3 DEF Runs, Asked, Pending, HoldsLock
  <2>5. ShapeOK(req'[q])
    BY <1>1, <1>2, <2>1, <2>2, <2>3, <2>4 DEF ShapeOK, Appends
  <2>6. RequestOK(q)'
    <3>1. IsRef(req'[q].at, Len(entries'))
      BY <1>1, <1>4, <2>3 DEF RequestOK, SameStore
    <3>2. ASSUME NEW s \in Sessions, req'[q].s = s
          PROVE  InSession(q, s)'
      BY <2>2, <2>3, <2>4, <3>2 DEF InSession
    <3> QED
      BY <2>5, <3>1, <3>2 DEF RequestOK
  <2>7. ASSUME NEW p \in Requests \ {q}
        PROVE  /\ HoldsTurn(req[p]) => req[p].s \in reserved' /\ req[p].s # req'[q].s
               /\ req[p].pc = "unlink" => req[p].s \notin reserved'
    <3>1. HoldsTurn(req[p]) => req[p].s \in reserved
      BY <1>1 DEF RequestOK, InSession, ShapeOK, HoldsTurn
    <3>2. req[p].pc # "unlink"
      BY DEF Reserve, ReservationsLocked
    <3>3. req[q].s \notin reserved
      BY <1>6 DEF TurnFree
    <3> QED
      BY <2>2, <2>3, <3>1, <3>2, <3>3
  <2>8. reserved' \subseteq Sessions /\ sent' \in 0..MaxRequests
    BY <1>1, <1>2, <1>4, <2>2 DEF TypeOK
  <2> QED
    BY <1>3, <1>4, <2>3, <2>4, <2>6, <2>7, <2>8, RequestOnly
<1> QED
  BY <1>5, <1>6

LEMMA ReleaseKeeps ==
  ASSUME AgentInv, NEW q \in Requests, Release(q)
  PROVE  AgentInv'
<1>1. TypeOK /\ ShapeOK(req[q]) /\ req[q].pc = "release"
  BY DEF AgentInv, RequestOK, Release
<1>2. HoldsTurn(req[q]) /\ ~Runs(req[q])
  BY <1>1, RequestTypes DEF ShapeOK, HoldsTurn, Runs
<1>3. /\ SameStore /\ UNCHANGED <<sent, crashes>> /\ req' = [req EXCEPT ![q] = Idle]
      /\ reserved' = reserved \ {req[q].s}
  BY DEF Release, SameStore, Finish, Become
<1> QED
  BY <1>2, <1>3, Finishes

LEMMA AppendRefusedKeeps ==
  ASSUME AgentInv, NEW q \in Requests, AppendRefused(q)
  PROVE  AgentInv'
<1>1. PICK s : req[q].s = s
  OBVIOUS
<1>2. /\ SameStore /\ UNCHANGED <<reserved, sent, crashes>> /\ req' = [req EXCEPT ![q] = Idle]
      /\ req[q].pc = "append" /\ ~Exists(s)
  BY <1>1 DEF AppendRefused, SameStore, Finish, Become
<1>3. ~Runs(req[q])
  BY <1>1, <1>2 DEF AgentInv, RequestOK, InSession, ShapeOK, Exists
<1> QED
  BY <1>2, <1>3, Finishes

LEMMA DeleteRefusedKeeps ==
  ASSUME AgentInv, NEW q \in Requests, DeleteRefused(q)
  PROVE  AgentInv'
<1>1. /\ SameStore /\ UNCHANGED <<reserved, sent, crashes>> /\ req' = [req EXCEPT ![q] = Idle]
      /\ req[q].pc = "delete"
  BY DEF DeleteRefused, SameStore, Finish, Become
<1> QED
  BY <1>1, Finishes DEF Runs

-----------------------------------------------------------------------------
(* Steps that change a session's status.                                    *)

LEMMA SessionTypes ==
  ASSUME TypeOK, NEW s \in Sessions
  PROVE  /\ meta[s] \in MetaStates
         /\ meta[s].status \in {"none", "idle", "running", "deleted"}
         /\ meta[s].leaf \in Nat
         /\ meta[s].inherited \in EntryRefs
         /\ log[s] \subseteq 1..Len(entries)
         /\ acked[s] \subseteq 1..Len(entries)
BY DEF TypeOK, MetaStates

\* What holds of a request besides its shape, of a session that it names.
LEMMA LocalFacts ==
  ASSUME AgentInv, NEW p \in Requests
  PROVE  /\ ShapeOK(req[p])
         /\ IsRef(req[p].at, Len(entries))
         /\ req[p].pc # "idle" => req[p].s \in Sessions
         /\ \A s \in Sessions : req[p].s = s => InSession(p, s)
         /\ HoldsTurn(req[p]) => req[p].s \in Sessions /\ req[p].s \in reserved
         /\ Runs(req[p]) => HoldsTurn(req[p]) /\ meta[req[p].s].status = "running"
<1>1. RequestOK(p) /\ ShapeOK(req[p]) /\ IsRef(req[p].at, Len(entries))
  BY DEF AgentInv, RequestOK
<1>2. req[p].pc # "idle" => req[p].s \in Sessions
  BY <1>1 DEF ShapeOK
<1>3. HoldsTurn(req[p]) => req[p].pc # "idle"
  BY <1>1 DEF HoldsTurn, ShapeOK
<1>4. Runs(req[p]) => HoldsTurn(req[p])
  BY DEF Runs, HoldsTurn
<1> QED
  BY <1>1, <1>2, <1>3, <1>4 DEF RequestOK, InSession

LEMMA StatusFields ==
  ASSUME TypeOK, NEW s \in Sessions, Exists(s), NEW st \in {"idle", "running"},
         meta' = [meta EXCEPT ![s].status = st], UNCHANGED <<entries, log>>,
         NEW t \in Sessions
  PROVE  /\ meta' \in [Sessions -> MetaStates]
         /\ meta'[t].leaf = meta[t].leaf
         /\ meta'[t].inherited = meta[t].inherited
         /\ meta'[t].status = IF t = s THEN st ELSE meta[t].status
         /\ LeafRef(t)' = LeafRef(t)
         /\ Branch(t)' = Branch(t)
         /\ Resolves(t)' <=> Resolves(t)
         /\ Exists(t)' <=> Exists(t)
<1> DEFINE m == [meta[s] EXCEPT !.status = st]
<1>1. meta' = [meta EXCEPT ![s] = m]
  OBVIOUS
<1>2. m \in MetaStates /\ m.leaf = meta[s].leaf /\ m.inherited = meta[s].inherited /\ m.status = st
  BY SessionTypes DEF MetaStates
<1> HIDE DEF m
<1>3. /\ meta' \in [Sessions -> MetaStates]
      /\ meta'[t].leaf = meta[t].leaf
      /\ meta'[t].inherited = meta[t].inherited
      /\ meta'[t].status = IF t = s THEN st ELSE meta[t].status
  BY <1>1, <1>2 DEF TypeOK
<1>4. LeafRef(t)' = LeafRef(t)
  BY <1>3 DEF LeafRef
<1>5. Branch(t)' = Branch(t)
  BY <1>4 DEF Branch, Path
<1>6. Resolves(t)' <=> Resolves(t)
  BY <1>4, <1>5 DEF Resolves
<1>7. Exists(t)' <=> Exists(t)
  BY <1>3 DEF Exists
<1> QED
  BY <1>3, <1>4, <1>5, <1>6, <1>7

\* The request that has the turn of s sets its status.
LEMMA StatusStep ==
  ASSUME AgentInv, NEW q \in Requests, NEW s \in Sessions, req[q].s = s, HoldsTurn(req[q]),
         Exists(s), NEW st \in {"idle", "running"},
         meta' = [meta EXCEPT ![s].status = st],
         UNCHANGED <<entries, log, reserved, sent, crashes, acked>>,
         interrupted' = interrupted \/ interrupted' = interrupted \ {s},
         req' \in [Requests -> RequestStates],
         \A p \in Requests \ {q} : req'[p] = req[p],
         req'[q].s = s, ~HoldsLock(req'[q]),
         RequestOK(q)',
         st = "running" => Runs(req'[q])
  PROVE  AgentInv'
<1>1. TypeOK /\ TreeOK /\ StoreOK /\ Exclusive /\ RunningOK
  BY DEF AgentInv
<1>2. TypeOK'
  BY <1>1, StatusFields DEF TypeOK
<1>3. TreeOK'
  BY <1>1, SameTree
<1>4. StoreOK'
  <2> SUFFICES ASSUME NEW t \in Sessions
               PROVE  /\ meta'[t].leaf \in 0..Len(entries')
                      /\ IsRef(meta'[t].inherited, Len(entries'))
                      /\ ~Exists(t)' => LeafRef(t)' = NoRef /\ meta'[t].leaf = 0 /\ log'[t] = {}
                      /\ acked'[t] \subseteq Branch(t)'
    BY DEF StoreOK
  <2>1. /\ meta'[t].leaf = meta[t].leaf
        /\ meta'[t].inherited = meta[t].inherited
        /\ LeafRef(t)' = LeafRef(t)
        /\ Branch(t)' = Branch(t)
        /\ Exists(t)' <=> Exists(t)
    BY <1>1, StatusFields
  <2> QED
    BY <1>1, <2>1 DEF StoreOK
<1>5. \A p \in Requests \ {q} : req[p].s = s => ~HoldsTurn(req[p])
  BY <1>1 DEF Exclusive
<1>6. ASSUME NEW p \in Requests \ {q}
      PROVE  RequestOK(p)'
  <2>1. RequestOK(p) /\ req'[p] = req[p] /\ Grows(entries, entries')
    BY <1>1, EntryTypes DEF AgentInv, Grows
  <2>2. ASSUME NEW t \in Sessions, req[p].s = t
        PROVE  /\ HoldsTurn(req[p]) => t \in reserved'
               /\ req[p].pc = "unlink" => t \notin reserved' /\ log'[t] = {}
               /\ req[p].pc = "advance" => LeafRef(t)' = LeafRef(t) /\ Exists(t)'
               /\ Runs(req[p]) =>
                    /\ meta'[t].status = "running"
                    /\ Branch(t)' = Branch(t)
                    /\ Resolves(t)' => Resolves(t)
    <3>1. InSession(p, t)
      BY <2>1, <2>2 DEF RequestOK
    <3>2. req[p].pc = "advance" => Exists(t)
      BY <3>1 DEF InSession, AdvanceOK
    <3>3. Runs(req[p]) => t # s
      BY <1>5, <2>2 DEF Runs, HoldsTurn
    <3> QED
      BY <1>1, <3>1, <3>2, <3>3, StatusFields DEF InSession
  <2> QED
    BY <1>1, <2>1, <2>2, OtherRequest
<1>7. Exclusive'
  BY <1>1, <1>5, ExclusiveKept
<1>8. RunningOK'
  <2> SUFFICES ASSUME NEW t \in Sessions, meta'[t].status = "running"
               PROVE  t \in interrupted' \/ \E p \in Requests : Runs(req'[p]) /\ req'[p].s = t
    BY DEF RunningOK
  <2>1. CASE t = s
    BY <1>1, <2>1, StatusFields
  <2>2. CASE t # s
    <3>1. meta[t].status = "running"
      BY <1>1, <2>2, StatusFields
    <3>2. CASE t \in interrupted
      BY <2>2, <3>2
    <3>3. ASSUME NEW p \in Requests, Runs(req[p]), req[p].s = t
          PROVE  Runs(req'[p]) /\ req'[p].s = t
      BY <2>2, <3>3
    <3> QED
      BY <1>1, <3>1, <3>2, <3>3 DEF RunningOK
  <2> QED
    BY <2>1, <2>2
<1> QED
  BY <1>2, <1>3, <1>4, <1>6, <1>7, <1>8 DEF AgentInv

LEMMA BeginTurnKeeps ==
  ASSUME AgentInv, NEW q \in Requests, BeginTurn(q)
  PROVE  AgentInv'
<1>1. TypeOK /\ ShapeOK(req[q]) /\ req[q].pc = "begin"
  BY LocalFacts DEF AgentInv, BeginTurn
<1>2. req[q].op = "turn" /\ req[q].then = "idle" /\ req[q].s \in Sessions
  BY <1>1, RequestTypes DEF ShapeOK, Appends
<1>3. PICK s \in Sessions : req[q].s = s
  BY <1>2
<1>4. HoldsTurn(req[q]) /\ s \in reserved /\ IsRef(req[q].at, Len(entries))
  BY <1>1, <1>2, <1>3, LocalFacts DEF HoldsTurn
<1>5. UNCHANGED <<entries, log, reserved, sent, crashes, acked>>
  BY DEF BeginTurn
<1>6. CASE Exists(s)
  <2>1. /\ meta' = [meta EXCEPT ![s].status = "running"]
        /\ interrupted' = interrupted \ {s}
        /\ ToAppend(q, Draft("user", 0), "context")
    BY <1>3, <1>6 DEF BeginTurn
  <2>2. Draft("user", 0) \in Drafts /\ "context" \in Steps
    BY <1>1, TurnDrafts, DraftTypes DEF Steps
  <2>3. /\ req' \in [Requests -> RequestStates]
        /\ \A p \in Requests \ {q} : req'[p] = req[p]
        /\ req'[q].op = "turn" /\ req'[q].pc = "append" /\ req'[q].s = s
        /\ req'[q].at = req[q].at
        /\ req'[q].entry = Draft("user", 0) /\ req'[q].then = "context"
    BY <1>1, <1>2, <1>3, <2>1, <2>2, ToAppendFields
  <2>4. req'[q].entry.kind = "user" /\ req'[q].entry.trigger = "none"
    BY <2>3 DEF Draft
  <2>5. Runs(req'[q]) /\ ~Asked(req'[q]) /\ ~Pending(req'[q]) /\ ~HoldsLock(req'[q])
    BY <2>3, <2>4 DEF Runs, Asked, Appends, Pending, HoldsLock
  <2>6. ShapeOK(req'[q])
    BY <2>3, <2>4, <2>5 DEF ShapeOK, Appends
  <2>7. meta'[s].status = "running"
    BY <1>1, <1>6, <2>1, StatusFields DEF BeginTurn
  <2>8. ASSUME NEW t \in Sessions, req'[q].s = t
        PROVE  InSession(q, t)'
    BY <1>4, <1>5, <2>3, <2>5, <2>7, <2>8 DEF InSession
  <2>9. RequestOK(q)'
    BY <1>4, <1>5, <2>3, <2>6, <2>8 DEF RequestOK
  <2> QED
    BY <1>3, <1>4, <1>5, <1>6, <2>1, <2>3, <2>5, <2>9, StatusStep
<1>7. CASE ~Exists(s)
  <2>1. Goto(q, "release") /\ SameStore /\ UNCHANGED <<reserved, sent, crashes>>
    BY <1>3, <1>5, <1>7 DEF BeginTurn, SameStore
  <2>2. "release" \in Steps
    BY DEF Steps
  <2> QED
    BY <1>1, <2>1, <2>2, GotoKeeps
<1> QED
  BY <1>6, <1>7

LEMMA EndTurnKeeps ==
  ASSUME AgentInv, NEW q \in Requests, EndTurn(q)
  PROVE  AgentInv'
<1>1. TypeOK /\ ShapeOK(req[q]) /\ req[q].pc = "end"
  BY LocalFacts DEF AgentInv, EndTurn
<1>2. req[q].op = "turn" /\ req[q].then = "idle" /\ req[q].s \in Sessions
  BY <1>1, RequestTypes DEF ShapeOK, Appends
<1>3. PICK s \in Sessions : req[q].s = s
  BY <1>2
<1>4. /\ HoldsTurn(req[q]) /\ Runs(req[q]) /\ s \in reserved /\ meta[s].status = "running"
      /\ IsRef(req[q].at, Len(entries))
  BY <1>1, <1>2, <1>3, LocalFacts DEF HoldsTurn, Runs
<1>5. Exists(s)
  BY <1>4 DEF Exists
<1>6. /\ meta' = [meta EXCEPT ![s].status = "idle"] /\ Goto(q, "release")
      /\ UNCHANGED <<entries, log, reserved, sent, crashes, acked, interrupted>>
      /\ "release" \in Steps
  BY <1>3, <1>5 DEF EndTurn, EndStatus, Steps
<1>7. /\ req' \in [Requests -> RequestStates]
      /\ \A p \in Requests \ {q} : req'[p] = req[p]
      /\ req'[q].op = "turn" /\ req'[q].pc = "release" /\ req'[q].s = s
      /\ req'[q].at = req[q].at /\ req'[q].then = "idle"
  BY <1>1, <1>2, <1>3, <1>6, GotoFields
<1>8. ~Runs(req'[q]) /\ ~Asked(req'[q]) /\ ~Pending(req'[q]) /\ ~HoldsLock(req'[q])
  BY <1>7 DEF Runs, Asked, Pending, HoldsLock
<1>9. ShapeOK(req'[q])
  BY <1>7, <1>8 DEF ShapeOK, Appends
<1>10. ASSUME NEW t \in Sessions, req'[q].s = t
       PROVE  InSession(q, t)'
  BY <1>4, <1>6, <1>7, <1>8, <1>10 DEF InSession
<1>11. RequestOK(q)'
  BY <1>4, <1>6, <1>7, <1>9, <1>10 DEF RequestOK
<1> QED
  BY <1>3, <1>4, <1>5, <1>6, <1>7, <1>8, <1>11, StatusStep

-----------------------------------------------------------------------------
(* An append writes the log.                                                *)

\* A message keeps turns together if its turn began with it, or was the last one.
LEMMA TogetherGrows ==
  ASSUME NEW n \in Nat, NEW es, NEW fs, NEW b, b \subseteq 1..n,
         \A i \in 1..n : fs[i] = es[i],
         Together(es, b),
         \A i \in b : es[i].turn \in Nat /\ es[i].turn <= i,
         NEW u \in Nat, fs[n + 1].turn = u,
         u # 0 => \/ \A i \in b : es[i].turn # u
                  \/ \A i \in b : u < i => es[i].turn \in {0, u}
  PROVE  Together(fs, b \cup {n + 1})
<1>1. \A i \in b : i \in Nat /\ i < n + 1 /\ fs[i] = es[i]
  <2>1. \A i \in 1..n : i \in Nat /\ i < n + 1
    OBVIOUS
  <2> QED
    BY <2>1
<1>2. \A i, k \in Nat : i < k => ~(k < i) /\ k # i
  OBVIOUS
<1> SUFFICES ASSUME NEW e \in b \cup {n + 1}, NEW g \in b \cup {n + 1}, NEW f \in b \cup {n + 1},
                    e < g, fs[e].turn # 0, fs[e].turn = fs[g].turn,
                    e < f, f < g, fs[f].turn # 0
             PROVE  fs[f].turn = fs[e].turn
  BY DEF Together
<1>3. e \in b /\ f \in b
  BY <1>1, <1>2
<1>4. CASE g \in b
  BY <1>1, <1>3, <1>4 DEF Together
<1>5. CASE g = n + 1
  <2>1. es[e].turn = u /\ u # 0 /\ u <= e
    BY <1>1, <1>3, <1>5
  <2>2. \A i \in b : u < i => es[i].turn \in {0, u}
    BY <1>3, <2>1
  <2>3. u < f
    BY <1>1, <1>3, <2>1
  <2> QED
    BY <1>1, <1>3, <2>1, <2>2, <2>3
<1> QED
  BY <1>4, <1>5

\* A summary that fits its branch fits it with itself added.
LEMMA SummariesGrow ==
  ASSUME NEW n \in Nat, NEW es, NEW fs, NEW b, b \subseteq 1..n,
         \A i \in 1..n : fs[i] = es[i],
         SummariesOK(es, b),
         \A i \in b : es[i].kept \in Nat,
         NEW kept \in Nat, NEW covers, fs[n + 1].kept = kept, fs[n + 1].covers = covers,
         IsAuto(fs, n + 1) =>
           /\ CutOK(es, b, kept, covers)
           /\ AllAuto(es, b) =>
                \A e \in Content(es, b) : e < kept => e \in covers \cup Covered(es, b)
  PROVE  SummariesOK(fs, b \cup {n + 1})
<1> DEFINE b1 == b \cup {n + 1}
<1>1. \A i \in b : i \in Nat /\ i < n + 1 /\ fs[i] = es[i]
  <2>1. \A i \in 1..n : i \in Nat /\ i < n + 1
    OBVIOUS
  <2> QED
    BY <2>1
<1>2. ASSUME NEW c \in b1, IsAuto(fs, c)
      PROVE  fs[c].kept < c /\ CutOK(fs, b1, fs[c].kept, fs[c].covers)
  <2>1. CASE c \in b
    <3>1. es[c].kept < c /\ CutOK(es, b, es[c].kept, es[c].covers)
      BY <1>1, <1>2, <2>1 DEF SummariesOK, IsAuto
    <3> QED
      BY <1>1, <2>1, <3>1 DEF CutOK
  <2>2. CASE c = n + 1
    <3>1. CutOK(es, b, kept, covers)
      BY <1>2, <2>2
    <3>2. kept \in b /\ kept < n + 1
      BY <1>1, <3>1 DEF CutOK
    <3> QED
      BY <1>1, <2>2, <3>1, <3>2 DEF CutOK
  <2> QED
    BY <2>1, <2>2
<1>3. ASSUME AllAuto(fs, b1), NEW c \in b1, NEW e \in Content(fs, b1),
             fs[c].kind = "compaction", e < fs[c].kept
      PROVE  e \in Covered(fs, b1)
  <2>1. fs[c].kept < c /\ CutOK(fs, b1, fs[c].kept, fs[c].covers)
    BY <1>2, <1>3 DEF AllAuto, IsAuto
  <2>2. AllAuto(es, b)
    BY <1>1, <1>3 DEF AllAuto
  <2>3. Covered(es, b) \subseteq Covered(fs, b1)
    BY <1>1 DEF Covered
  <2>4. c \in Nat /\ c <= n + 1 /\ fs[c].kept \in Nat
    BY <1>1
  <2>5. e \in b /\ e \in Nat
    <3>1. \A k, x, y \in Nat : k < x /\ x <= y => ~(y < k)
      OBVIOUS
    <3>2. e # n + 1
      BY <1>3, <2>1, <2>4, <3>1
    <3> QED
      BY <1>1, <3>2 DEF Content
  <2>6. e \in Content(es, b)
    BY <1>1, <2>5 DEF Content
  <2>7. CASE c \in b
    BY <1>1, <1>3, <2>2, <2>3, <2>6, <2>7 DEF SummariesOK
  <2>8. CASE c = n + 1
    <3>1. e \in covers \cup Covered(es, b)
      BY <1>3, <2>2, <2>6, <2>8 DEF AllAuto, IsAuto
    <3>2. covers \subseteq Covered(fs, b1)
      <4>1. CutOK(es, b, kept, covers) /\ n + 1 \in b1
        BY <1>3, <2>8 DEF AllAuto, IsAuto
      <4>2. covers \subseteq Nat
        BY <4>1, <1>1 DEF CutOK
      <4> QED
        BY <1>3, <2>8, <4>1, <4>2 DEF Covered
    <3> QED
      BY <2>3, <3>1, <3>2
  <2> QED
    BY <2>7, <2>8
<1> QED
  BY <1>2, <1>3 DEF SummariesOK

\* What is written leaves the paths as they are, and adds one.
LEMMA Appended ==
  ASSUME TypeOK, TreeOK, NEW e \in Entries, entries' = Append(entries, e),
         NEW n, n = Len(entries), IsRef(e.parent, n)
  PROVE  /\ Len(entries') = n + 1
         /\ entries' \in Seq(Entries)
         /\ Grows(entries, entries')
         /\ entries'[n + 1] = e
         /\ \A x \in 0..n : Path(x)' = Path(x)
         /\ Path(n + 1)' = {n + 1} \cup Path(e.parent.entry)
<1>1. entries \in Seq(Entries) /\ n \in Nat /\ Rooted(entries)
  BY EntryTypes, EntriesRooted DEF TypeOK, TreeOK
<1>2. /\ entries' \in Seq(Entries)
      /\ Len(entries') = n + 1
      /\ \A i \in 1..n : entries'[i] = entries[i]
      /\ entries'[n + 1] = e
  BY <1>1, AppendProperties
<1>3. e.parent.entry \in 0..n
  BY <1>1, RefEntry
<1>4. Rooted(entries')
  <2>1. Len(entries') \in Nat
    BY <1>1, <1>2
  <2>2. ASSUME NEW i \in 1..Len(entries')
        PROVE  entries'[i].parent.entry \in 0..(i - 1)
    <3>1. CASE i \in 1..n
      BY <1>1, <1>2, <3>1 DEF Rooted
    <3>2. CASE i = n + 1
      BY <1>1, <1>2, <1>3, <3>2
    <3> QED
      BY <1>1, <1>2, <3>1, <3>2
  <2> QED
    BY <2>1, <2>2 DEF Rooted
<1>5. ASSUME NEW x
      PROVE  Path(x) = Ancestors(entries, x) /\ Path(x)' = Ancestors(entries', x)
  BY DEF Path, Ancestors
<1>6. n <= Len(entries') /\ n + 1 \in 0..Len(entries') /\ n + 1 # 0
  BY <1>1, <1>2
<1>7. \A x \in 0..n : Ancestors(entries', x) = Ancestors(entries, x)
  BY <1>1, <1>2, <1>4, <1>6, AncestorsStay
<1>8. Ancestors(entries', n + 1) = {n + 1} \cup Ancestors(entries', e.parent.entry)
  <2>1. \A x \in 0..Len(entries') :
          x # 0 => Ancestors(entries', x) = {x} \cup Ancestors(entries', entries'[x].parent.entry)
    BY <1>4, AncestorsDef
  <2> QED
    BY <1>2, <1>6, <2>1
<1>9. Grows(entries, entries')
  BY <1>1, <1>2, <1>6 DEF Grows
<1>10. \A x \in 0..n : Path(x)' = Path(x)
  BY <1>5, <1>7
<1>11. Path(n + 1)' = {n + 1} \cup Path(e.parent.entry)
  <2>1. Path(n + 1)' = Ancestors(entries', n + 1)
    BY <1>5
  <2>2. Path(e.parent.entry) = Ancestors(entries', e.parent.entry)
    BY <1>3, <1>5, <1>7
  <2> QED
    BY <1>8, <2>1, <2>2
<1> QED
  BY <1>2, <1>9, <1>10, <1>11

\* The draft d, which q is about to write to s, fits the branch that it continues.
DraftFits(q, s, d) ==
  /\ d \in Drafts
  /\ d.turn <= Len(entries) + 1
  /\ d.turn # 0 <=> d.kind \in Messages
  /\ d.kind = "user" => d.turn = Len(entries) + 1
  /\ d.kind = req[q].entry.kind
  /\ d.turn # 0 /\ d.kind # "user" =>
       /\ Runs(req[q]) /\ d.turn = req[q].turn
       /\ \A i \in Branch(s) : d.turn < i => entries[i].turn \in {0, d.turn}
  /\ d.kind = "compaction" /\ d.trigger = "auto" =>
       /\ CutOK(entries, Branch(s), d.kept, d.covers)
       /\ AllAuto(entries, Branch(s)) =>
            \A e \in Content(entries, Branch(s)) :
              e < d.kept => e \in d.covers \cup Covered(entries, Branch(s))

LEMMA WrittenFits ==
  ASSUME AgentInv, NEW q \in Requests, AppendLog(q),
         NEW s \in Sessions, req[q].s = s,
         NEW d, d = IF req[q].entry.kind = "user" THEN Draft("user", Len(entries) + 1)
                    ELSE req[q].entry
  PROVE  DraftFits(q, s, d)
<1>1. /\ TypeOK /\ TreeOK /\ StoreOK /\ ShapeOK(req[q]) /\ InSession(q, s)
      /\ req[q].pc = "append" /\ req[q].entry \in Drafts
  BY LocalFacts, RequestTypes DEF AgentInv, AppendLog
<1> DEFINE n == Len(entries)
<1>2. n \in Nat /\ Branch(s) \subseteq 1..n
  BY <1>1, EntryTypes, BranchFacts
<1>3. CASE req[q].entry.kind = "user"
  <2>1. n + 1 \in Nat /\ n + 1 # 0 /\ n + 1 <= n + 1 /\ "user" \in Kinds
    BY <1>2 DEF Kinds, Messages
  <2>2. d = Draft("user", n + 1) /\ d.kind = "user" /\ d.turn = n + 1
    BY <1>3 DEF Draft
  <2>3. d \in Drafts
    BY <2>1, <2>2, DraftTypes
  <2> QED
    BY <1>3, <2>1, <2>2, <2>3 DEF DraftFits, Messages
<1>4. CASE req[q].entry.kind # "user"
  <2>1. d = req[q].entry
    BY <1>4
  <2>2. /\ d.turn # 0 <=> d.kind \in Messages
        /\ d.turn # 0 => Runs(req[q]) /\ d.turn = req[q].turn
    BY <1>1, <1>4, <2>1 DEF ShapeOK
  <2>3. d.turn # 0 =>
          /\ d.turn \in Branch(s)
          /\ \A i \in Branch(s) : d.turn < i => entries[i].turn \in {0, d.turn}
    BY <1>1, <1>4, <2>2 DEF InSession, QuestionOK, Asked
  <2>4. d.turn \in Nat /\ d.turn <= n + 1
    <3>1. d.turn \in Nat
      BY <1>1, <2>1 DEF Drafts
    <3> QED
      BY <1>2, <2>3, <3>1
  <2>5. d.trigger = "auto" => PendingOK(q, s)
    BY <1>1, <2>1 DEF InSession, Pending
  <2> QED
    BY <1>1, <1>4, <2>1, <2>2, <2>3, <2>4, <2>5 DEF PendingOK, DraftFits
<1> QED
  BY <1>3, <1>4

LEMMA AppendLogTree ==
  ASSUME AgentInv, NEW q \in Requests, AppendLog(q),
         NEW s \in Sessions, req[q].s = s, NEW n, n = Len(entries)
  PROVE  /\ TreeOK'
         /\ Len(entries') = n + 1
         /\ entries' \in Seq(Entries)
         /\ Grows(entries, entries')
         /\ entries'[n + 1].parent = LeafRef(s)
         /\ entries'[n + 1].kind = req[q].entry.kind
         /\ entries'[n + 1].kind = "user" => entries'[n + 1].turn = n + 1
         /\ entries'[n + 1].kind # "user" /\ entries'[n + 1].turn # 0 =>
              Runs(req[q]) /\ entries'[n + 1].turn = req[q].turn
         /\ \A x \in 0..n : Path(x)' = Path(x)
<1>1. TypeOK /\ TreeOK /\ StoreOK
  BY DEF AgentInv
<1>2. n \in Nat /\ Branch(s) \subseteq 1..n
  BY <1>1, EntryTypes, BranchFacts
<1>3. PICK d : d = IF req[q].entry.kind = "user" THEN Draft("user", n + 1) ELSE req[q].entry
  OBVIOUS
<1>4. PICK e : e = NewEntry(s, LeafRef(s), d)
  OBVIOUS
<1>5. entries' = Append(entries, e)
  BY <1>3, <1>4 DEF AppendLog
<1>6. DraftFits(q, s, d)
  BY <1>3, WrittenFits
<1>7. IsRef(LeafRef(s), n) /\ LeafRef(s) \in EntryRefs /\ Branch(s) = Path(LeafRef(s).entry)
  <2>1. IsRef(LeafRef(s), n) /\ Branch(s) = Path(LeafRef(s).entry)
    BY <1>1, BranchFacts
  <2>2. LeafRef(s) \in EntryRefs
    BY <1>1, SessionTypes DEF LeafRef, Ref, EntryRefs
  <2> QED
    BY <2>1, <2>2
<1>8. /\ e \in Entries /\ e.parent = LeafRef(s) /\ e.kind = d.kind /\ e.turn = d.turn
      /\ e.trigger = d.trigger /\ e.kept = d.kept /\ e.covers = d.covers
      /\ e.turn \in Nat /\ e.kept \in Nat
  BY <1>4, <1>6, <1>7 DEF NewEntry, Entries, Drafts, DraftFits
<1>9. /\ Len(entries') = n + 1
      /\ entries' \in Seq(Entries)
      /\ Grows(entries, entries')
      /\ entries'[n + 1] = e
      /\ \A x \in 0..n : Path(x)' = Path(x)
      /\ Path(n + 1)' = {n + 1} \cup Branch(s)
  BY <1>1, <1>5, <1>7, <1>8, Appended
<1>10. \A i \in 1..n : entries'[i] = entries[i]
  BY <1>9 DEF Grows
<1>11. \A i \in 1..Len(entries') : EntryOK(entries', i)
  <2>1. ASSUME NEW i \in 1..n
        PROVE  EntryOK(entries', i)
    BY <1>1, <1>10, <2>1 DEF TreeOK, EntryOK
  <2>2. EntryOK(entries', n + 1)
    BY <1>2, <1>6, <1>7, <1>8, <1>9 DEF EntryOK, DraftFits
  <2> QED
    BY <1>2, <1>9, <2>1, <2>2
<1>12. \A i \in 1..n : entries[i].turn \in Nat /\ entries[i].turn <= i /\ entries[i].kept \in Nat
  BY <1>1, EntryTypes DEF TreeOK, EntryOK
<1>13. Together(entries', Branch(s) \cup {n + 1})
  <2>1. Together(entries, Branch(s))
    BY <1>1, BranchFacts
  <2>2. d.kind = "user" => \A i \in Branch(s) : entries[i].turn # d.turn
    <3>1. \A a, b, c \in Nat : a <= b /\ b <= c => a # c + 1
      OBVIOUS
    <3>2. \A i \in Branch(s) : i \in Nat /\ i <= n
      BY <1>2
    <3> QED
      BY <1>2, <1>6, <1>12, <3>1, <3>2 DEF DraftFits
  <2>3. d.turn # 0 => \/ \A i \in Branch(s) : entries[i].turn # d.turn
                      \/ \A i \in Branch(s) : d.turn < i => entries[i].turn \in {0, d.turn}
    BY <1>6, <2>2 DEF DraftFits
  <2>4. entries'[n + 1].turn = d.turn /\ d.turn \in Nat
    BY <1>8, <1>9
  <2>5. \A i \in Branch(s) : entries[i].turn \in Nat /\ entries[i].turn <= i
    BY <1>2, <1>12
  <2> QED
    BY <1>2, <1>10, <2>1, <2>3, <2>4, <2>5, TogetherGrows
<1>14. SummariesOK(entries', Branch(s) \cup {n + 1})
  <2>1. SummariesOK(entries, Branch(s)) /\ \A i \in Branch(s) : entries[i].kept \in Nat
    BY <1>1, <1>2, <1>12, BranchFacts
  <2>2. /\ entries'[n + 1].kept = d.kept /\ entries'[n + 1].covers = d.covers /\ d.kept \in Nat
        /\ IsAuto(entries', n + 1) => d.kind = "compaction" /\ d.trigger = "auto"
    BY <1>8, <1>9 DEF IsAuto
  <2>3. IsAuto(entries', n + 1) =>
           /\ CutOK(entries, Branch(s), d.kept, d.covers)
           /\ AllAuto(entries, Branch(s)) =>
                \A i \in Content(entries, Branch(s)) :
                  i < d.kept => i \in d.covers \cup Covered(entries, Branch(s))
    BY <1>6, <2>2 DEF DraftFits
  <2> QED
    BY <1>2, <1>10, <2>1, <2>2, <2>3, SummariesGrow
<1>15. ASSUME NEW x \in 0..n
       PROVE  Together(entries', Path(x)) /\ SummariesOK(entries', Path(x))
  <2>1. Path(x) \subseteq 1..n /\ Together(entries, Path(x)) /\ SummariesOK(entries, Path(x))
    BY <1>1, PathDef DEF TreeOK
  <2>2. \A i \in Path(x) : entries'[i] = entries[i]
    BY <1>10, <2>1
  <2>3. Together(entries', Path(x))
    BY <2>1, <2>2 DEF Together
  <2>4. SummariesOK(entries', Path(x))
    <3>1. /\ AllAuto(entries', Path(x)) <=> AllAuto(entries, Path(x))
          /\ Content(entries', Path(x)) = Content(entries, Path(x))
          /\ Covered(entries', Path(x)) = Covered(entries, Path(x))
          /\ \A kept, covers :
               CutOK(entries', Path(x), kept, covers) <=> CutOK(entries, Path(x), kept, covers)
      BY <1>9, <2>1, BranchGrows
    <3> QED
      BY <2>1, <2>2, <3>1 DEF SummariesOK, IsAuto
  <2> QED
    BY <2>3, <2>4
<1>16. \A x \in 0..(n + 1) : Together(entries', Path(x)') /\ SummariesOK(entries', Path(x)')
  <2> SUFFICES ASSUME NEW x \in 0..(n + 1)
               PROVE  Together(entries', Path(x)') /\ SummariesOK(entries', Path(x)')
    OBVIOUS
  <2>1. CASE x \in 0..n
    BY <1>9, <1>15, <2>1
  <2>2. CASE x = n + 1
    <3>1. Path(x)' = Branch(s) \cup {n + 1}
      BY <1>9, <2>2
    <3> QED
      BY <1>13, <1>14, <3>1
  <2> QED
    BY <1>2, <2>1, <2>2
<1>17. TreeOK'
  BY <1>9, <1>11, <1>16 DEF TreeOK
<1> QED
  BY <1>6, <1>8, <1>9, <1>17 DEF DraftFits

LEMMA BranchNext ==
  ASSUME NEW t, NEW x, LeafRef(t)'.entry = x
  PROVE  Branch(t)' = Path(x)'
BY DEF Branch, Path

\* No reference on a branch is to the entry that is written.
LEMMA StillUnresolved ==
  ASSUME TypeOK, TreeOK, StoreOK, NEW t \in Sessions, NEW n, n = Len(entries),
         Grows(entries, entries'), LeafRef(t)' = LeafRef(t), Branch(t)' = Branch(t),
         \A u \in Sessions : log'[u] \subseteq log[u] \cup {n + 1}
  PROVE  Resolves(t)' => Resolves(t)
<1>1. n \in Nat /\ Branch(t) \subseteq 1..n /\ IsRef(LeafRef(t), n)
  BY EntryTypes, BranchFacts
<1>2. \A e \in Branch(t) : entries'[e] = entries[e]
  BY <1>1 DEF Grows
<1> DEFINE refs == ({LeafRef(t)} \cup {entries[e].parent : e \in Branch(t)}) \ {NoRef}
<1>3. ({LeafRef(t)'} \cup {entries'[e].parent : e \in Branch(t)'}) \ {NoRef} = refs
  BY <1>2
<1>4. ASSUME NEW r \in refs
      PROVE  r.session \in Sessions /\ r.entry \in 1..n
  <2>1. ASSUME NEW e \in Branch(t)
        PROVE  IsRef(entries[e].parent, n)
    <3>1. IsRef(entries[e].parent, e - 1) /\ e \in 1..n
      BY <1>1 DEF TreeOK, EntryOK
    <3> QED
      BY <1>1, <3>1 DEF IsRef
  <2>2. IsRef(r, n)
    BY <1>1, <2>1
  <2> QED
    BY <2>2 DEF IsRef
<1> SUFFICES ASSUME Resolves(t)', NEW r \in refs
             PROVE  r.entry \in log[r.session]
  BY DEF Resolves
<1>5. r.entry \in log'[r.session]
  <2>1. \A v \in ({LeafRef(t)'} \cup {entries'[e].parent : e \in Branch(t)'}) \ {NoRef} :
          v.entry \in log'[v.session]
    BY DEF Resolves
  <2> HIDE DEF refs
  <2> QED
    BY <1>3, <2>1
<1> HIDE DEF refs
<1>6. r.entry # n + 1
  BY <1>1, <1>4
<1> QED
  BY <1>4, <1>5, <1>6

LEMMA AppendLogKeeps ==
  ASSUME AgentInv, NEW q \in Requests, AppendLog(q)
  PROVE  AgentInv'
<1>1. /\ TypeOK /\ TreeOK /\ StoreOK /\ Exclusive /\ RunningOK
      /\ ShapeOK(req[q]) /\ req[q].pc = "append"
  BY LocalFacts DEF AgentInv, AppendLog
<1>2. PICK s \in Sessions : req[q].s = s
  BY <1>1, LocalFacts
<1>3. PICK n : n = Len(entries)
  OBVIOUS
<1>4. n \in Nat
  BY <1>1, <1>3, EntryTypes
<1>5. /\ LockFree(s) /\ Exists(s)
      /\ log' = [log EXCEPT ![s] = @ \cup {n + 1}]
      /\ UNCHANGED <<meta, reserved, sent, crashes, acked, interrupted>>
  BY <1>2, <1>3 DEF AppendLog
<1>6. /\ TreeOK'
      /\ Len(entries') = n + 1
      /\ entries' \in Seq(Entries)
      /\ Grows(entries, entries')
      /\ entries'[n + 1].parent = LeafRef(s)
      /\ entries'[n + 1].kind = req[q].entry.kind
      /\ entries'[n + 1].kind = "user" => entries'[n + 1].turn = n + 1
      /\ entries'[n + 1].kind # "user" /\ entries'[n + 1].turn # 0 =>
           Runs(req[q]) /\ entries'[n + 1].turn = req[q].turn
      /\ \A x \in 0..n : Path(x)' = Path(x)
  BY <1>2, <1>3, AppendLogTree
<1>7. PICK u : u = IF req[q].entry.kind = "user" THEN n + 1 ELSE req[q].turn
  OBVIOUS
<1> DEFINE r == [req[q] EXCEPT !.pc = "advance", !.at = Ref(s, n + 1), !.turn = u]
<1>8. req' = [req EXCEPT ![q] = r]
  BY <1>2, <1>3, <1>7 DEF AppendLog, Become, Draft
<1>9. /\ r \in RequestStates
      /\ r.op = req[q].op /\ r.s = s /\ r.pc = "advance" /\ r.at = Ref(s, n + 1)
      /\ r.turn = u /\ r.entry = req[q].entry /\ r.then = req[q].then
  <2>1. Ref(s, n + 1) \in EntryRefs /\ u \in Nat /\ "advance" \in Steps
    BY <1>1, <1>4, <1>7, RequestTypes DEF Ref, EntryRefs, Steps
  <2> QED
    BY <1>1, <1>2, <2>1, RequestTypes DEF RequestStates
<1> HIDE DEF r
<1>10. /\ req' \in [Requests -> RequestStates]
       /\ req'[q] = r
       /\ \A p \in Requests \ {q} : req'[p] = req[p]
  BY <1>1, <1>8, <1>9 DEF TypeOK
<1>11. log' \in [Sessions -> SUBSET (1..(n + 1))]
       /\ \A t \in Sessions : log'[t] = IF t = s THEN log[t] \cup {n + 1} ELSE log[t]
  <2>1. log \in [Sessions -> SUBSET (1..n)]
    BY <1>1, <1>3 DEF TypeOK
  <2>2. /\ DOMAIN log' = Sessions
        /\ log' = [t \in Sessions |-> log'[t]]
        /\ \A t \in Sessions : log'[t] = IF t = s THEN log[t] \cup {n + 1} ELSE log[t]
    BY <1>5, <2>1
  <2>3. \A t \in Sessions : log'[t] \subseteq 1..(n + 1)
    BY <1>4, <2>1, <2>2
  <2> QED
    BY <2>2, <2>3
<1>12. TypeOK'
  <2>1. acked' \in [Sessions -> SUBSET (1..(n + 1))]
    BY <1>1, <1>3, <1>4, <1>5 DEF TypeOK
  <2> QED
    BY <1>1, <1>5, <1>6, <1>10, <1>11, <2>1 DEF TypeOK
<1>13. ASSUME NEW t \in Sessions
       PROVE  /\ LeafRef(t)' = LeafRef(t)
              /\ Branch(t)' = Branch(t)
              /\ Exists(t)' <=> Exists(t)
              /\ Resolves(t)' => Resolves(t)
  <2>1. LeafRef(t)' = LeafRef(t) /\ (Exists(t)' <=> Exists(t))
    BY <1>5 DEF LeafRef, Exists
  <2>2. PICK x \in 0..n : LeafRef(t).entry = x
    BY <1>1, <1>3, BranchFacts
  <2>3. Branch(t)' = Path(x)' /\ Branch(t) = Path(x)
    BY <2>1, <2>2, BranchNext DEF Branch
  <2>4. Branch(t)' = Branch(t)
    BY <1>6, <2>3
  <2>5. Resolves(t)' => Resolves(t)
    BY <1>1, <1>3, <1>6, <1>11, <2>1, <2>4, StillUnresolved
  <2> QED
    BY <2>1, <2>4, <2>5
<1>14. StoreOK'
  <2> SUFFICES ASSUME NEW t \in Sessions
               PROVE  /\ meta'[t].leaf \in 0..Len(entries')
                      /\ IsRef(meta'[t].inherited, Len(entries'))
                      /\ ~Exists(t)' => LeafRef(t)' = NoRef /\ meta'[t].leaf = 0 /\ log'[t] = {}
                      /\ acked'[t] \subseteq Branch(t)'
    BY DEF StoreOK
  <2>1. /\ meta[t].leaf \in 0..n
        /\ IsRef(meta[t].inherited, n)
        /\ ~Exists(t) => LeafRef(t) = NoRef /\ meta[t].leaf = 0 /\ log[t] = {}
        /\ acked[t] \subseteq Branch(t)
    BY <1>1, <1>3 DEF StoreOK
  <2>2. IsRef(meta[t].inherited, n + 1) /\ meta[t].leaf \in 0..(n + 1)
    BY <1>4, <2>1 DEF IsRef
  <2> QED
    BY <1>5, <1>6, <1>11, <1>13, <2>1, <2>2
<1>15. ASSUME NEW p \in Requests \ {q}
       PROVE  RequestOK(p)'
  <2>1. RequestOK(p) /\ req'[p] = req[p]
    BY <1>10 DEF AgentInv
  <2>2. ASSUME NEW t \in Sessions, req[p].s = t
        PROVE  /\ HoldsTurn(req[p]) => t \in reserved'
               /\ req[p].pc = "unlink" => t \notin reserved' /\ log'[t] = {}
               /\ req[p].pc = "advance" => LeafRef(t)' = LeafRef(t) /\ Exists(t)'
               /\ Runs(req[p]) =>
                    /\ meta'[t].status = "running"
                    /\ Branch(t)' = Branch(t)
                    /\ Resolves(t)' => Resolves(t)
    <3>1. InSession(p, t)
      BY <2>1, <2>2 DEF RequestOK
    <3>2. req[p].pc = "advance" => Exists(t)
      BY <3>1 DEF InSession, AdvanceOK
    <3>3. req[p].pc = "unlink" => t # s
      BY <1>5, <2>2 DEF LockFree, LockHolders
    <3> QED
      BY <1>5, <1>11, <1>13, <3>1, <3>2, <3>3 DEF InSession
  <2> QED
    BY <1>1, <1>6, <2>1, <2>2, OtherRequest
<1>16. (Runs(r) <=> Runs(req[q])) /\ (HoldsTurn(r) <=> HoldsTurn(req[q]))
       /\ Appends(r) /\ ~Pending(r) /\ (Asked(r) => Asked(req[q]))
  BY <1>1, <1>9 DEF Runs, HoldsTurn, Appends, Asked, Pending
<1>17. RequestOK(q)'
  <2>1. InSession(q, s)
    BY <1>2, LocalFacts
  <2>2. ShapeOK(r)
    BY <1>1, <1>2, <1>9, <1>16 DEF ShapeOK, Appends
  <2>3. IsRef(r.at, n + 1)
    BY <1>4, <1>9 DEF IsRef, Ref
  <2>4. AdvanceOK(q, s)'
    <3>1. r.at.entry = n + 1 /\ r.at = Ref(s, n + 1)
      BY <1>9 DEF Ref
    <3>2. LeafRef(s)' = LeafRef(s) /\ Exists(s)'
      BY <1>5, <1>13
    <3>3. req[q].entry.kind = "user" => Runs(r)
      BY <1>1, <1>9 DEF ShapeOK, Appends, Runs
    <3>4. entries'[n + 1].turn # 0 => Runs(r) /\ entries'[n + 1].turn = r.turn
      BY <1>6, <1>7, <1>9, <1>16, <3>3
    <3> QED
      BY <1>4, <1>6, <1>7, <1>9, <1>10, <3>1, <3>2, <3>4 DEF AdvanceOK
  <2>5. Asked(r) => QuestionOK(q, s)'
    <3> SUFFICES ASSUME Asked(r)
                 PROVE  QuestionOK(q, s)'
      OBVIOUS
    <3>1. QuestionOK(q, s)
      BY <1>16, <2>1 DEF InSession
    <3>2. r.turn = req[q].turn
      BY <1>7, <1>9, <1>16 DEF Asked
    <3>3. \A f \in Branch(s) : entries'[f] = entries[f]
      BY <1>1, <1>3, <1>6, BranchFacts DEF Grows
    <3> QED
      BY <1>10, <1>13, <3>1, <3>2, <3>3 DEF QuestionOK
  <2>6. InSession(q, s)'
    BY <1>5, <1>9, <1>10, <1>16, <2>1, <2>4, <2>5 DEF InSession
  <2> QED
    BY <1>6, <1>9, <1>10, <2>2, <2>3, <2>6 DEF RequestOK
<1>18. Exclusive'
  <2>1. ASSUME NEW p \in Requests \ {q}, req[p].s = req'[q].s
        PROVE  /\ ~(HoldsTurn(req'[q]) /\ HoldsTurn(req[p]))
               /\ ~(HoldsLock(req'[q]) /\ HoldsLock(req[p]))
    <3>1. req[p].s = s /\ req[p].s = req[q].s
      BY <1>2, <1>9, <1>10, <2>1
    <3>2. ~(HoldsTurn(req[q]) /\ HoldsTurn(req[p]))
      BY <1>1, <3>1 DEF Exclusive
    <3>3. ~HoldsLock(req[p])
      BY <1>5, <3>1 DEF LockFree, LockHolders, HoldsLock
    <3> QED
      BY <1>10, <1>16, <3>2, <3>3
  <2> QED
    BY <1>1, <1>10, <2>1, ExclusiveKept
<1>19. RunningOK'
  <2>1. \A p \in Requests : Runs(req[p]) => Runs(req'[p]) /\ req'[p].s = req[p].s
    BY <1>2, <1>9, <1>10, <1>16
  <2> QED
    BY <1>1, <1>5, <2>1 DEF RunningOK
<1>20. \A p \in Requests : RequestOK(p)'
  BY <1>15, <1>17
<1> QED
  BY <1>6, <1>12, <1>14, <1>18, <1>19, <1>20 DEF AgentInv

-----------------------------------------------------------------------------
(* An append moves the leaf.                                                *)

\* The branch of s has grown by the entry id, and no other has changed.
LeafMoved(s, id) ==
  /\ id \in Branch(s)' /\ Branch(s)' = Branch(s) \cup {id}
  /\ id \in Nat /\ \A f \in Branch(s) : f \in Nat /\ f < id
  /\ LeafRef(s)' = Ref(s, id)
  /\ Resolves(s)' => Resolves(s)
  /\ meta'[s].leaf = id
  /\ \A t \in Sessions \ {s} :
       /\ LeafRef(t)' = LeafRef(t)
       /\ Branch(t)' = Branch(t)
       /\ Resolves(t)' => Resolves(t)
       /\ meta'[t] = meta[t]
  /\ \A t \in Sessions :
       /\ meta'[t].inherited = meta[t].inherited
       /\ meta'[t].status = meta[t].status
       /\ Exists(t)' <=> Exists(t)

\* The leaf moves to an entry that continues from it.
LEMMA LeafMoves ==
  ASSUME TypeOK, TreeOK, StoreOK, NEW s \in Sessions, NEW id \in 1..Len(entries),
         entries[id].parent = LeafRef(s),
         meta' = [meta EXCEPT ![s].leaf = id], UNCHANGED <<entries, log>>
  PROVE  LeafMoved(s, id) /\ meta' \in [Sessions -> MetaStates]
<1> DEFINE m == [meta[s] EXCEPT !.leaf = id]
<1>1. meta' = [meta EXCEPT ![s] = m]
  OBVIOUS
<1>2. Len(entries) \in Nat /\ id \in Nat /\ id # 0 /\ id \in 0..Len(entries)
  BY EntryTypes
<1>3. m \in MetaStates /\ m.leaf = id /\ m.inherited = meta[s].inherited
      /\ m.status = meta[s].status
  BY <1>2, SessionTypes DEF MetaStates
<1> HIDE DEF m
<1>4. /\ meta' \in [Sessions -> MetaStates]
      /\ meta'[s] = m
      /\ \A t \in Sessions \ {s} : meta'[t] = meta[t]
  BY <1>1, <1>3 DEF TypeOK
<1>5. ASSUME NEW t \in Sessions \ {s}
      PROVE  LeafRef(t)' = LeafRef(t) /\ Branch(t)' = Branch(t) /\ (Resolves(t)' => Resolves(t))
  <2>1. LeafRef(t)' = LeafRef(t)
    BY <1>4 DEF LeafRef
  <2>2. Branch(t)' = Branch(t)
    BY <2>1 DEF Branch, Path
  <2> QED
    BY <2>1, <2>2 DEF Resolves
<1>6. ASSUME NEW t \in Sessions
      PROVE  /\ meta'[t].inherited = meta[t].inherited
             /\ meta'[t].status = meta[t].status
             /\ Exists(t)' <=> Exists(t)
  <2>1. meta'[t].inherited = meta[t].inherited /\ meta'[t].status = meta[t].status
    BY <1>3, <1>4
  <2> QED
    BY <2>1 DEF Exists
<1>7. LeafRef(s)' = Ref(s, id)
  BY <1>2, <1>3, <1>4 DEF LeafRef
<1>8. Branch(s)' = Branch(s) \cup {id}
  <2>1. LeafRef(s)'.entry = id
    BY <1>7 DEF Ref
  <2>2. Branch(s)' = Path(id)' /\ Path(id)' = Path(id)
    BY <2>1, BranchNext DEF Path
  <2>3. Path(id) = {id} \cup Path(LeafRef(s).entry)
    BY <1>2, PathDef
  <2> QED
    BY <2>2, <2>3 DEF Branch
<1>9. \A f \in Branch(s) : f \in Nat /\ f < id
  <2>1. IsRef(LeafRef(s), id - 1) /\ id - 1 \in Nat
    BY <1>2 DEF TreeOK, EntryOK
  <2>2. LeafRef(s).entry \in 0..(id - 1) /\ LeafRef(s).entry \in 0..Len(entries)
    BY <1>2, <2>1, RefEntry
  <2>3. Branch(s) \subseteq 1..LeafRef(s).entry
    BY <2>2, PathDef DEF Branch
  <2> QED
    BY <1>2, <2>2, <2>3
<1>10. Resolves(s)' => Resolves(s)
  <2>1. ({LeafRef(s)} \cup {entries[e].parent : e \in Branch(s)}) \ {NoRef}
          \subseteq ({LeafRef(s)'} \cup {entries'[e].parent : e \in Branch(s)'}) \ {NoRef}
    BY <1>8
  <2>2. log' = log
    OBVIOUS
  <2> QED
    BY <2>1, <2>2 DEF Resolves
<1> QED
  BY <1>2, <1>3, <1>4, <1>5, <1>6, <1>7, <1>8, <1>9, <1>10 DEF LeafMoved

\* Another request in the session finds the new entry on its branch.
LEMMA BesideAppend ==
  ASSUME AgentInv, NEW p \in Requests, NEW s \in Sessions, NEW id, req[p].s = s,
         req'[p] = req[p], UNCHANGED <<entries, log, reserved>>, LeafMoved(s, id),
         ~HoldsLock(req[p]),
         HoldsTurn(req[p]) => entries[id].turn = 0
  PROVE  RequestOK(p)'
<1>1. ShapeOK(req[p]) /\ IsRef(req[p].at, Len(entries)) /\ InSession(p, s)
  BY LocalFacts
<1>2. req[p].pc \notin {"advance", "unlink"}
  BY DEF HoldsLock
<1>3. Asked(req[p]) => HoldsTurn(req[p])
  BY LocalFacts DEF Asked
<1>4. Asked(req[p]) => QuestionOK(p, s)'
  BY <1>1, <1>3 DEF InSession, QuestionOK, LeafMoved
<1>5. ASSUME Pending(req[p])
      PROVE  PendingOK(p, s)'
  <2> DEFINE b == Branch(s)
             b1 == Branch(s) \cup {id}
             kept == req[p].entry.kept
             covers == req[p].entry.covers
  <2>1. Branch(s)' = b1 /\ id \in Nat /\ \A f \in b : f \in Nat /\ f < id
    BY DEF LeafMoved
  <2>2. CutOK(entries, b, kept, covers)
        /\ (AllAuto(entries, b) =>
              \A e \in Content(entries, b) :
                e < kept => e \in covers \cup Covered(entries, b))
    BY <1>1, <1>5 DEF InSession, PendingOK
  <2>3. CutOK(entries, b1, kept, covers)
    BY <2>2 DEF CutOK
  <2>4. kept \in b /\ ~(id < kept)
    <3>1. \A i, k \in Nat : k < i => ~(i < k)
      OBVIOUS
    <3>2. kept \in b
      BY <2>2 DEF CutOK
    <3> QED
      BY <2>1, <3>1, <3>2
  <2>5. ASSUME AllAuto(entries, b1), NEW e \in Content(entries, b1), e < kept
        PROVE  e \in covers \cup Covered(entries, b1)
    <3>1. AllAuto(entries, b) /\ Covered(entries, b) \subseteq Covered(entries, b1)
      BY <2>5 DEF AllAuto, Covered
    <3>2. e \in Content(entries, b)
      BY <2>4, <2>5 DEF Content
    <3> QED
      BY <2>2, <2>5, <3>1, <3>2
  <2> HIDE DEF b1
  <2> QED
    BY <2>1, <2>3, <2>5 DEF PendingOK
<1>6. req[p].pc = "end" /\ Resolves(s)' => HasReply(p, s)'
  BY <1>1 DEF InSession, HasReply, LeafMoved
<1>7. Runs(req[p]) => meta'[s].status = "running"
  BY <1>1 DEF InSession, LeafMoved
<1>8. InSession(p, s)'
  BY <1>1, <1>2, <1>4, <1>5, <1>6, <1>7 DEF InSession
<1> QED
  BY <1>1, <1>8 DEF RequestOK

\* The request goes on after its append.
LEMMA AfterAppend ==
  ASSUME AgentInv, NEW q \in Requests, NEW s \in Sessions, NEW id, req[q].s = s,
         req[q].pc = "advance", id = req[q].at.entry,
         UNCHANGED <<entries, log, reserved>>, LeafMoved(s, id),
         IF req[q].then = "idle" THEN Finish(q)
         ELSE Become(q, [req[q] EXCEPT !.pc = req[q].then, !.at = NoRef,
                                       !.entry = Draft("notice", 0), !.then = "idle"])
  PROVE  /\ req' \in [Requests -> RequestStates]
         /\ \A p \in Requests \ {q} : req'[p] = req[p]
         /\ RequestOK(q)'
         /\ HoldsTurn(req'[q]) => HoldsTurn(req[q]) /\ req'[q].s = s
         /\ ~HoldsLock(req'[q])
         /\ Runs(req[q]) => Runs(req'[q]) /\ req'[q].s = s
<1>1. /\ TypeOK /\ TreeOK /\ StoreOK /\ ShapeOK(req[q]) /\ InSession(q, s)
      /\ AdvanceOK(q, s)
  BY LocalFacts DEF AgentInv, InSession
<1>2. req[q].op \in {"turn", "compact", "notice"} /\ Appends(req[q])
  BY <1>1, RequestTypes DEF ShapeOK, Appends
<1>3. CASE req[q].then = "idle"
  <2>1. req[q].op = "notice" /\ req' = [req EXCEPT ![q] = Idle]
    BY <1>1, <1>2, <1>3 DEF ShapeOK, Finish, Become
  <2>2. req' \in [Requests -> RequestStates] /\ req'[q] = Idle
        /\ \A p \in Requests \ {q} : req'[p] = req[p]
    BY <1>1, <2>1, DraftTypes DEF TypeOK
  <2>3. /\ req'[q].op = "none" /\ req'[q].pc = "idle" /\ req'[q].then = "idle"
        /\ req'[q].at = NoRef /\ req'[q].s = NoSession
    BY <2>2 DEF Idle
  <2>4. ~Runs(req'[q]) /\ ~HoldsTurn(req'[q]) /\ ~HoldsLock(req'[q]) /\ ~Pending(req'[q])
    BY <2>3 DEF Runs, HoldsTurn, HoldsLock, Pending
  <2>5. ShapeOK(req'[q]) /\ IsRef(req'[q].at, Len(entries'))
    BY <2>3, <2>4 DEF ShapeOK, Appends, IsRef
  <2>6. RequestOK(q)'
    BY <2>3, <2>5, FirstAssumption DEF RequestOK
  <2>7. ~Runs(req[q])
    BY <2>1 DEF Runs
  <2> QED
    BY <2>2, <2>4, <2>6, <2>7
<1>4. CASE req[q].then # "idle"
  <2> DEFINE r == [req[q] EXCEPT !.pc = req[q].then, !.at = NoRef,
                                 !.entry = Draft("notice", 0), !.then = "idle"]
  <2>1. /\ r \in RequestStates
        /\ r.op = req[q].op /\ r.s = s /\ r.pc = req[q].then /\ r.at = NoRef
        /\ r.turn = req[q].turn /\ r.entry = Draft("notice", 0) /\ r.then = "idle"
    <3>1. Draft("notice", 0) \in Drafts /\ "idle" \in Steps
      BY DraftTypes DEF Kinds, Steps
    <3> QED
      BY <1>1, <3>1, RequestTypes, DraftTypes DEF RequestStates
  <2>2. req' = [req EXCEPT ![q] = r]
    BY <1>4 DEF Become
  <2> HIDE DEF r
  <2>3. /\ req' \in [Requests -> RequestStates]
        /\ req'[q] = r
        /\ \A p \in Requests \ {q} : req'[p] = req[p]
    BY <1>1, <2>1, <2>2 DEF TypeOK
  <2>4. r.entry.kind = "notice" /\ r.entry.trigger = "none"
    BY <2>1 DEF Draft
  <2>5. /\ r.op = "turn" => r.pc \in {"setup", "context", "tool", "end"}
        /\ r.op = "compact" => r.pc = "release"
        /\ r.op \in {"turn", "compact"}
        /\ r.pc = "end" => req[q].entry.kind = "reply"
    BY <1>1, <1>2, <1>4, <2>1 DEF ShapeOK
  <2>6. (Runs(r) <=> Runs(req[q])) /\ HoldsTurn(r) /\ HoldsTurn(req[q]) /\ ~HoldsLock(r)
        /\ ~Appends(r) /\ ~Pending(r)
    BY <2>1, <2>4, <2>5 DEF Runs, HoldsTurn, HoldsLock, Appends, Pending
  <2>7. ShapeOK(r)
    BY <1>4, <2>1, <2>5, <2>6 DEF ShapeOK, Appends
  <2>8. id \in 1..Len(entries) /\ EntryOK(entries, id)
    BY <1>1 DEF AdvanceOK, TreeOK
  <2>9. ASSUME Asked(r)
        PROVE  QuestionOK(q, s)'
    <3>1. Runs(req[q])
      BY <2>6, <2>9 DEF Asked
    <3>2. CASE req[q].entry.kind = "user"
      <4>1. r.turn = id /\ id # 0
        BY <1>1, <2>1, <2>8, <3>2, EntryTypes DEF AdvanceOK
      <4>2. \A i, k \in Nat : k < i => ~(i < k)
        OBVIOUS
      <4>3. \A i \in Nat : ~(i < i)
        OBVIOUS
      <4> QED
        BY <2>3, <4>1, <4>2, <4>3 DEF QuestionOK, LeafMoved
    <3>3. CASE req[q].entry.kind # "user"
      <4>1. QuestionOK(q, s) /\ entries[id].turn \in {0, r.turn}
        BY <1>1, <2>1, <3>1, <3>3 DEF InSession, Asked, AdvanceOK
      <4> QED
        BY <2>1, <2>3, <4>1 DEF QuestionOK, LeafMoved
    <3> QED
      BY <3>2, <3>3
  <2>10. ASSUME r.pc = "end"
         PROVE  HasReply(q, s)'
    <3>1. entries[id].kind = "reply"
      BY <1>1, <2>5, <2>10 DEF AdvanceOK
    <3>2. entries[id].turn # 0
      BY <2>8, <3>1 DEF EntryOK, Messages
    <3>3. entries[id].turn = r.turn
      BY <1>1, <2>1, <3>2 DEF AdvanceOK
    <3> QED
      BY <2>3, <3>1, <3>3 DEF HasReply, LeafMoved
  <2>11. InSession(q, s)'
    BY <1>1, <2>3, <2>5, <2>6, <2>9, <2>10 DEF InSession, LeafMoved
  <2>12. RequestOK(q)'
    BY <2>1, <2>3, <2>7, <2>11 DEF RequestOK, IsRef
  <2> QED
    BY <2>1, <2>3, <2>6, <2>12
<1> QED
  BY <1>3, <1>4

LEMMA AppendMetaKeeps ==
  ASSUME AgentInv, NEW q \in Requests, AppendMeta(q)
  PROVE  AgentInv'
<1>1. /\ TypeOK /\ TreeOK /\ StoreOK /\ Exclusive /\ RunningOK
      /\ ShapeOK(req[q]) /\ req[q].pc = "advance"
  BY LocalFacts DEF AgentInv, AppendMeta
<1>2. PICK s \in Sessions : req[q].s = s
  BY <1>1, LocalFacts
<1>3. PICK id : id = req[q].at.entry
  OBVIOUS
<1>4. /\ meta' = [meta EXCEPT ![s].leaf = id]
      /\ acked' = [acked EXCEPT ![s] = @ \cup {id}]
      /\ IF req[q].then = "idle" THEN Finish(q)
         ELSE Become(q, [req[q] EXCEPT !.pc = req[q].then, !.at = NoRef,
                                       !.entry = Draft("notice", 0), !.then = "idle"])
      /\ UNCHANGED <<entries, log, reserved, sent, crashes, interrupted>>
  BY <1>2, <1>3 DEF AppendMeta
<1>5. AdvanceOK(q, s)
  BY <1>1, <1>2, LocalFacts DEF InSession
<1>6. id \in 1..Len(entries) /\ entries[id].parent = LeafRef(s) /\ Exists(s)
      /\ (entries[id].turn # 0 => Runs(req[q]))
  BY <1>3, <1>5 DEF AdvanceOK
<1>7. LeafMoved(s, id) /\ meta' \in [Sessions -> MetaStates]
  BY <1>1, <1>4, <1>6, LeafMoves
<1>8. /\ req' \in [Requests -> RequestStates]
      /\ \A p \in Requests \ {q} : req'[p] = req[p]
      /\ RequestOK(q)'
      /\ HoldsTurn(req'[q]) => HoldsTurn(req[q]) /\ req'[q].s = s
      /\ ~HoldsLock(req'[q])
      /\ Runs(req[q]) => Runs(req'[q]) /\ req'[q].s = s
  BY <1>1, <1>2, <1>3, <1>4, <1>7, AfterAppend
<1>9. /\ acked' \in [Sessions -> SUBSET (1..Len(entries))]
      /\ \A t \in Sessions : acked'[t] = IF t = s THEN acked[t] \cup {id} ELSE acked[t]
  BY <1>1, <1>4, <1>6 DEF TypeOK
<1>10. TypeOK'
  BY <1>1, <1>4, <1>7, <1>8, <1>9 DEF TypeOK
<1>11. TreeOK'
  BY <1>1, <1>4, SameTree
<1>12. StoreOK'
  <2> SUFFICES ASSUME NEW t \in Sessions
               PROVE  /\ meta'[t].leaf \in 0..Len(entries')
                      /\ IsRef(meta'[t].inherited, Len(entries'))
                      /\ ~Exists(t)' => LeafRef(t)' = NoRef /\ meta'[t].leaf = 0 /\ log'[t] = {}
                      /\ acked'[t] \subseteq Branch(t)'
    BY DEF StoreOK
  <2>1. CASE t = s
    BY <1>1, <1>4, <1>6, <1>7, <1>9, <2>1 DEF StoreOK, LeafMoved
  <2>2. CASE t # s
    BY <1>1, <1>4, <1>7, <1>9, <2>2 DEF StoreOK, LeafMoved
  <2> QED
    BY <2>1, <2>2
<1>13. ASSUME NEW p \in Requests \ {q}
       PROVE  RequestOK(p)'
  <2>1. RequestOK(p) /\ req'[p] = req[p] /\ Grows(entries, entries')
    BY <1>1, <1>4, <1>8, EntryTypes DEF AgentInv, Grows
  <2>2. CASE req[p].s = s
    <3>1. ~HoldsLock(req[p]) /\ ~(HoldsTurn(req[q]) /\ HoldsTurn(req[p]))
      BY <1>1, <1>2, <2>2 DEF Exclusive, HoldsLock
    <3>2. HoldsTurn(req[p]) => entries[id].turn = 0
      BY <1>6, <3>1, LocalFacts
    <3> QED
      BY <1>4, <1>7, <2>1, <2>2, <3>1, <3>2, BesideAppend
  <2>3. CASE req[p].s # s
    <3>1. ASSUME NEW t \in Sessions, req[p].s = t
          PROVE  /\ HoldsTurn(req[p]) => t \in reserved'
                 /\ req[p].pc = "unlink" => t \notin reserved' /\ log'[t] = {}
                 /\ req[p].pc = "advance" => LeafRef(t)' = LeafRef(t) /\ Exists(t)'
                 /\ Runs(req[p]) =>
                      /\ meta'[t].status = "running"
                      /\ Branch(t)' = Branch(t)
                      /\ Resolves(t)' => Resolves(t)
      <4>1. InSession(p, t) /\ t # s
        BY <2>1, <2>3, <3>1 DEF RequestOK
      <4>2. req[p].pc = "advance" => Exists(t)
        BY <4>1 DEF InSession, AdvanceOK
      <4> QED
        BY <1>4, <1>7, <4>1, <4>2 DEF InSession, LeafMoved
    <3> QED
      BY <1>1, <2>1, <3>1, OtherRequest
  <2> QED
    BY <2>2, <2>3
<1>14. Exclusive'
  <2>1. ASSUME NEW p \in Requests \ {q}, req[p].s = req'[q].s
        PROVE  ~(HoldsTurn(req'[q]) /\ HoldsTurn(req[p]))
    <3>1. SUFFICES ASSUME HoldsTurn(req'[q])
                   PROVE  req[p].s = req[q].s
      BY <1>1, <1>8 DEF Exclusive
    <3>2. req'[q].s = req[q].s
      BY <1>2, <1>8, <3>1
    <3> QED
      BY <2>1, <3>2
  <2> QED
    BY <1>1, <1>8, <2>1, ExclusiveKept
<1>15. RunningOK'
  <2>1. \A p \in Requests : Runs(req[p]) => Runs(req'[p]) /\ req'[p].s = req[p].s
    BY <1>2, <1>8
  <2> QED
    BY <1>1, <1>4, <1>7, <2>1 DEF RunningOK, LeafMoved
<1>16. \A p \in Requests : RequestOK(p)'
  BY <1>8, <1>13
<1> QED
  BY <1>10, <1>11, <1>12, <1>14, <1>15, <1>16 DEF AgentInv

-----------------------------------------------------------------------------
(* Rewinding, forking and deleting.                                         *)

\* q ends with the metadata m in the session x, where no turn runs and whose leaf
\* nobody else is about to move: the leaf is e, and a is what x was told it has.
Moves(q, x, m, a, e) ==
  /\ UNCHANGED <<entries, log, reserved, sent, crashes, interrupted>>
  /\ req' = [req EXCEPT ![q] = Idle]
  /\ ~Runs(req[q])
  /\ m \in MetaStates
  /\ meta' = [meta EXCEPT ![x] = m]
  /\ acked' = [acked EXCEPT ![x] = a]
  /\ e \in 0..Len(entries)
  /\ e = IF m.leaf # 0 THEN m.leaf ELSE m.inherited.entry
  /\ a \subseteq Path(e)
  /\ m.leaf \in 0..Len(entries)
  /\ IsRef(m.inherited, Len(entries))
  /\ \/ m.status = "idle"
     \/ m.status = "deleted" /\ m.leaf = 0 /\ m.inherited = NoRef /\ log[x] = {}
  /\ \A p \in Requests \ {q} : req[p].s = x => ~Runs(req[p]) /\ req[p].pc # "advance"

LEMMA SessionStep ==
  ASSUME AgentInv, NEW q \in Requests, NEW x \in Sessions, NEW m, NEW a, NEW e,
         Moves(q, x, m, a, e)
  PROVE  AgentInv'
<1> USE DEF Moves
<1>1. TypeOK /\ TreeOK /\ StoreOK /\ Exclusive /\ RunningOK /\ \A p \in Requests : RequestOK(p)
  BY DEF AgentInv
<1>2. /\ meta' \in [Sessions -> MetaStates]
      /\ meta'[x] = m
      /\ \A t \in Sessions \ {x} : meta'[t] = meta[t]
  BY <1>1 DEF TypeOK
<1>3. /\ req' \in [Requests -> RequestStates] /\ req'[q] = Idle
      /\ \A p \in Requests \ {q} : req'[p] = req[p]
  BY <1>1, DraftTypes DEF TypeOK
<1>4. /\ acked' \in [Sessions -> SUBSET (1..Len(entries))]
      /\ acked'[x] = a
      /\ \A t \in Sessions \ {x} : acked'[t] = acked[t]
  <2>1. a \subseteq 1..Len(entries)
    BY <1>1, PathDef
  <2> QED
    BY <1>1, <2>1 DEF TypeOK
<1>5. TypeOK'
  BY <1>1, <1>2, <1>3, <1>4 DEF TypeOK
<1>6. TreeOK'
  BY <1>1, SameTree
<1>7. ASSUME NEW t \in Sessions \ {x}
      PROVE  /\ LeafRef(t)' = LeafRef(t)
             /\ Branch(t)' = Branch(t)
             /\ Exists(t)' <=> Exists(t)
             /\ Resolves(t)' => Resolves(t)
  <2>1. LeafRef(t)' = LeafRef(t) /\ (Exists(t)' <=> Exists(t))
    BY <1>2 DEF LeafRef, Exists
  <2>2. Branch(t)' = Branch(t)
    BY <2>1 DEF Branch, Path
  <2> QED
    BY <2>1, <2>2 DEF Resolves
<1>8. Branch(x)' = Path(e)
  <2>1. LeafRef(x)'.entry = e
    BY <1>2 DEF LeafRef, Ref
  <2>2. Branch(x)' = Path(e)'
    BY <2>1, BranchNext
  <2> QED
    BY <2>2 DEF Path
<1>9. StoreOK'
  <2> SUFFICES ASSUME NEW t \in Sessions
               PROVE  /\ meta'[t].leaf \in 0..Len(entries')
                      /\ IsRef(meta'[t].inherited, Len(entries'))
                      /\ ~Exists(t)' => LeafRef(t)' = NoRef /\ meta'[t].leaf = 0 /\ log'[t] = {}
                      /\ acked'[t] \subseteq Branch(t)'
    BY DEF StoreOK
  <2>1. CASE t = x
    <3>1. m.status = "idle" => Exists(x)'
      BY <1>2 DEF Exists
    <3>2. m.status = "deleted" => LeafRef(x)' = NoRef /\ meta'[x].leaf = 0 /\ log'[x] = {}
      BY <1>2 DEF LeafRef
    <3> QED
      BY <1>2, <1>4, <1>8, <2>1, <3>1, <3>2
  <2>2. CASE t # x
    BY <1>1, <1>2, <1>4, <1>7, <2>2 DEF StoreOK
  <2> QED
    BY <2>1, <2>2
<1>10. /\ req'[q].op = "none" /\ req'[q].pc = "idle" /\ req'[q].then = "idle"
       /\ req'[q].at = NoRef /\ req'[q].s = NoSession
  BY <1>3 DEF Idle
<1>11. ~Runs(req'[q]) /\ ~HoldsTurn(req'[q]) /\ ~HoldsLock(req'[q]) /\ ~Pending(req'[q])
  BY <1>10 DEF Runs, HoldsTurn, HoldsLock, Pending
<1>12. RequestOK(q)'
  <2>1. ShapeOK(req'[q]) /\ IsRef(req'[q].at, Len(entries'))
    BY <1>10, <1>11 DEF ShapeOK, Appends, IsRef
  <2> QED
    BY <1>10, <2>1, FirstAssumption DEF RequestOK
<1>13. ASSUME NEW p \in Requests \ {q}
       PROVE  RequestOK(p)'
  <2>1. RequestOK(p) /\ req'[p] = req[p] /\ Grows(entries, entries')
    BY <1>1, <1>3, EntryTypes DEF Grows
  <2>2. ASSUME NEW t \in Sessions, req[p].s = t
        PROVE  /\ HoldsTurn(req[p]) => t \in reserved'
               /\ req[p].pc = "unlink" => t \notin reserved' /\ log'[t] = {}
               /\ req[p].pc = "advance" => LeafRef(t)' = LeafRef(t) /\ Exists(t)'
               /\ Runs(req[p]) =>
                    /\ meta'[t].status = "running"
                    /\ Branch(t)' = Branch(t)
                    /\ Resolves(t)' => Resolves(t)
    <3>1. InSession(p, t)
      BY <2>1, <2>2 DEF RequestOK
    <3>2. req[p].pc = "advance" => Exists(t) /\ t # x
      BY <2>2, <3>1 DEF InSession, AdvanceOK
    <3>3. Runs(req[p]) => t # x
      BY <2>2
    <3> QED
      BY <1>2, <1>7, <3>1, <3>2, <3>3 DEF InSession
  <2> QED
    BY <1>1, <2>1, <2>2, OtherRequest
<1>14. Exclusive'
  BY <1>1, <1>3, <1>11, ExclusiveKept
<1>15. RunningOK'
  <2> SUFFICES ASSUME NEW t \in Sessions, meta'[t].status = "running"
               PROVE  t \in interrupted' \/ \E p \in Requests : Runs(req'[p]) /\ req'[p].s = t
    BY DEF RunningOK
  <2>1. t # x /\ meta[t].status = "running"
    BY <1>2
  <2>2. \A p \in Requests : Runs(req[p]) => req'[p] = req[p]
    BY <1>3
  <2> QED
    BY <1>1, <2>1, <2>2 DEF RunningOK
<1>16. \A p \in Requests : RequestOK(p)'
  BY <1>12, <1>13
<1> QED
  BY <1>5, <1>6, <1>9, <1>14, <1>15, <1>16 DEF AgentInv

LEMMA RewindKeeps ==
  ASSUME AgentInv, NEW q \in Requests, Rewind(q)
  PROVE  AgentInv'
<1>1. /\ TypeOK /\ TreeOK /\ StoreOK /\ ShapeOK(req[q]) /\ req[q].pc = "rewind"
      /\ IsRef(req[q].at, Len(entries)) /\ req[q].at \in EntryRefs /\ Len(entries) \in Nat
  BY LocalFacts, RequestTypes, EntryTypes DEF AgentInv, Rewind
<1>2. PICK s \in Sessions : req[q].s = s
  BY <1>1, LocalFacts
<1>3. PICK to : to = req[q].at
  OBVIOUS
<1>4. /\ LockFree(s)
      /\ IF MayRewind(s) /\ Resolves(s) /\ OnBranch(s, to)
         THEN /\ meta' = [meta EXCEPT ![s] =
                            IF to.session = s THEN [@ EXCEPT !.leaf = to.entry]
                            ELSE [@ EXCEPT !.leaf = 0, !.inherited = to]]
              /\ acked' = [acked EXCEPT ![s] = @ \cap Path(to.entry)]
         ELSE UNCHANGED <<meta, acked>>
      /\ req' = [req EXCEPT ![q] = Idle]
      /\ UNCHANGED <<entries, log, reserved, sent, crashes, interrupted>>
  BY <1>2, <1>3 DEF Rewind, Finish, Become, Rewound
<1>5. ~Runs(req[q])
  BY <1>1 DEF Runs
<1>6. CASE MayRewind(s) /\ Resolves(s) /\ OnBranch(s, to)
  <2> DEFINE m == IF to.session = s THEN [meta[s] EXCEPT !.leaf = to.entry]
                  ELSE [meta[s] EXCEPT !.leaf = 0, !.inherited = to]
             a == acked[s] \cap Path(to.entry)
  <2>1. meta' = [meta EXCEPT ![s] = m] /\ acked' = [acked EXCEPT ![s] = a]
    BY <1>1, <1>4, <1>6 DEF TypeOK
  <2>2. to.entry \in 1..Len(entries) /\ to.entry \in 0..Len(entries) /\ to.entry # 0
    BY <1>1, <1>6, BranchFacts DEF OnBranch
  <2>3. IsRef(meta[s].inherited, Len(entries)) /\ meta[s].status = "idle"
    BY <1>1, <1>6 DEF StoreOK, MayRewind
  <2>4. /\ m \in MetaStates
        /\ m.leaf = IF to.session = s THEN to.entry ELSE 0
        /\ m.inherited = IF to.session = s THEN meta[s].inherited ELSE to
        /\ m.status = "idle"
    <3>1. CASE to.session = s
      BY <1>1, <2>2, <2>3, <3>1, SessionTypes DEF MetaStates
    <3>2. CASE to.session # s
      BY <1>1, <1>3, <2>3, <3>2, SessionTypes DEF MetaStates
    <3> QED
      BY <3>1, <3>2
  <2>5. a \subseteq Path(to.entry)
    OBVIOUS
  <2> HIDE DEF m, a
  <2>6. to.entry = IF m.leaf # 0 THEN m.leaf ELSE m.inherited.entry
    BY <2>2, <2>4
  <2>7. m.leaf \in 0..Len(entries) /\ IsRef(m.inherited, Len(entries))
    BY <1>1, <1>3, <2>2, <2>3, <2>4
  <2>8. \A p \in Requests \ {q} : req[p].s = s => ~Runs(req[p]) /\ req[p].pc # "advance"
    <3>1. \A p \in Requests : req[p].s = s => req[p].pc # "advance"
      BY <1>4 DEF LockFree, LockHolders
    <3>2. \A p \in Requests : req[p].s = s => ~Runs(req[p])
      BY <2>3, LocalFacts
    <3> QED
      BY <3>1, <3>2
  <2>9. Moves(q, s, m, a, to.entry)
    BY <1>4, <1>5, <2>1, <2>2, <2>4, <2>5, <2>6, <2>7, <2>8 DEF Moves
  <2> QED
    BY <2>9, SessionStep
<1>7. CASE ~(MayRewind(s) /\ Resolves(s) /\ OnBranch(s, to))
  <2>1. SameStore /\ UNCHANGED <<sent, crashes, reserved>>
    BY <1>4, <1>7 DEF SameStore
  <2> QED
    BY <1>4, <1>5, <2>1, Finishes
<1> QED
  BY <1>6, <1>7

LEMMA ForkKeeps ==
  ASSUME AgentInv, NEW q \in Requests, NEW f \in Sessions, Fork(q, f)
  PROVE  AgentInv'
<1>1. /\ TypeOK /\ TreeOK /\ StoreOK /\ ShapeOK(req[q]) /\ req[q].pc = "fork"
      /\ IsRef(req[q].at, Len(entries)) /\ req[q].at \in EntryRefs /\ Len(entries) \in Nat
  BY LocalFacts, RequestTypes, EntryTypes DEF AgentInv, Fork
<1>2. PICK at \in EntryRefs : at = req[q].at
  BY <1>1
<1>3. PICK m : m = [status |-> "idle", leaf |-> 0, inherited |-> at]
  OBVIOUS
<1>4. PICK e : e = at.entry
  OBVIOUS
<1>5. /\ meta' = [meta EXCEPT ![f] = m]
      /\ acked' = [acked EXCEPT ![f] = Path(e)]
      /\ req' = [req EXCEPT ![q] = Idle]
      /\ UNCHANGED <<entries, log, reserved, sent, crashes, interrupted>>
      /\ meta[f].status = "none"
  BY <1>2, <1>3, <1>4 DEF Fork, Finish, Become
<1>6. m \in MetaStates /\ m.leaf = 0 /\ m.inherited = at /\ m.status = "idle"
  BY <1>3 DEF MetaStates
<1>7. e \in 0..Len(entries) /\ 0 \in 0..Len(entries)
  BY <1>1, <1>2, <1>4, RefEntry
<1>8. \A p \in Requests : req[p].s = f => ~Runs(req[p]) /\ req[p].pc # "advance"
  BY <1>5, LocalFacts DEF InSession, AdvanceOK, Exists
<1>9. ~Runs(req[q])
  BY <1>1 DEF Runs
<1>10. e = IF m.leaf # 0 THEN m.leaf ELSE m.inherited.entry
  BY <1>4, <1>6
<1>11. Moves(q, f, m, Path(e), e)
  BY <1>1, <1>2, <1>5, <1>6, <1>7, <1>8, <1>9, <1>10 DEF Moves
<1> QED
  BY <1>11, SessionStep

LEMMA DeleteMetaKeeps ==
  ASSUME AgentInv, NEW q \in Requests, DeleteMeta(q)
  PROVE  AgentInv'
<1>1. /\ TypeOK /\ TreeOK /\ StoreOK /\ Exclusive /\ ShapeOK(req[q]) /\ req[q].pc = "unlink"
      /\ Len(entries) \in Nat
  BY LocalFacts, EntryTypes DEF AgentInv, DeleteMeta
<1>2. PICK s \in Sessions : req[q].s = s
  BY <1>1, LocalFacts
<1>3. s \notin reserved /\ log[s] = {}
  BY <1>1, <1>2, LocalFacts DEF InSession
<1>4. PICK m : m = [NoMeta EXCEPT !.status = "deleted"]
  OBVIOUS
<1>5. /\ meta' = [meta EXCEPT ![s] = m]
      /\ acked' = [acked EXCEPT ![s] = {}]
      /\ req' = [req EXCEPT ![q] = Idle]
      /\ UNCHANGED <<entries, log, reserved, sent, crashes, interrupted>>
  BY <1>2, <1>4 DEF DeleteMeta, Finish, Become
<1>6. m \in MetaStates /\ m.leaf = 0 /\ m.inherited = NoRef /\ m.status = "deleted"
  BY <1>4, DraftTypes DEF MetaStates, NoMeta
<1>7. 0 \in 0..Len(entries) /\ NoRef.entry = 0 /\ IsRef(NoRef, Len(entries))
  BY <1>1 DEF NoRef, IsRef
<1>8. ASSUME NEW p \in Requests \ {q}, req[p].s = s
      PROVE  ~Runs(req[p]) /\ req[p].pc # "advance"
  <2>1. ~HoldsTurn(req[p])
    BY <1>3, <1>8, LocalFacts
  <2>2. ~HoldsLock(req[p])
    BY <1>1, <1>2, <1>8 DEF Exclusive, HoldsLock
  <2> QED
    BY <2>1, <2>2, LocalFacts DEF HoldsLock
<1>9. ~Runs(req[q])
  BY <1>1 DEF Runs
<1>10. 0 = IF m.leaf # 0 THEN m.leaf ELSE m.inherited.entry
  BY <1>6, <1>7
<1>11. {} \subseteq Path(0)
  OBVIOUS
<1>12. Moves(q, s, m, {}, 0)
  BY <1>3, <1>5, <1>6, <1>7, <1>8, <1>9, <1>10, <1>11 DEF Moves
<1> QED
  BY <1>12, SessionStep

LEMMA DeleteLogKeeps ==
  ASSUME AgentInv, NEW q \in Requests, DeleteLog(q)
  PROVE  AgentInv'
<1>1. /\ TypeOK /\ TreeOK /\ StoreOK /\ Exclusive /\ RunningOK
      /\ ShapeOK(req[q]) /\ req[q].pc = "delete" /\ IsRef(req[q].at, Len(entries))
  BY LocalFacts DEF AgentInv, DeleteLog
<1>2. PICK s \in Sessions : req[q].s = s
  BY <1>1, LocalFacts
<1>3. PICK n : n = Len(entries)
  OBVIOUS
<1>4. /\ LockFree(s) /\ s \notin reserved
      /\ log' = [log EXCEPT ![s] = {}]
      /\ Goto(q, "unlink")
      /\ UNCHANGED <<entries, meta, reserved, sent, crashes, acked, interrupted>>
  BY <1>2 DEF DeleteLog, MayDelete
<1>5. req[q].op = "delete" /\ req[q].then = "idle"
  BY <1>1, RequestTypes DEF ShapeOK, Appends
<1>6. /\ req' \in [Requests -> RequestStates]
      /\ \A p \in Requests \ {q} : req'[p] = req[p]
      /\ req'[q].op = "delete" /\ req'[q].pc = "unlink" /\ req'[q].s = s
      /\ req'[q].at = req[q].at /\ req'[q].then = "idle"
  <2>1. "unlink" \in Steps
    BY DEF Steps
  <2> QED
    BY <1>1, <1>2, <1>4, <1>5, <2>1, GotoFields
<1>7. /\ log' \in [Sessions -> SUBSET (1..Len(entries))]
      /\ \A t \in Sessions : log'[t] = IF t = s THEN {} ELSE log[t]
  BY <1>1, <1>4 DEF TypeOK
<1>8. TypeOK'
  BY <1>1, <1>4, <1>6, <1>7 DEF TypeOK
<1>9. TreeOK'
  BY <1>1, <1>4, SameTree
<1>10. Grows(entries, entries')
  BY <1>1, <1>4, EntryTypes DEF Grows
<1>11. ASSUME NEW t \in Sessions
       PROVE  /\ LeafRef(t)' = LeafRef(t)
              /\ Branch(t)' = Branch(t)
              /\ Exists(t)' <=> Exists(t)
              /\ Resolves(t)' => Resolves(t)
  <2>1. LeafRef(t)' = LeafRef(t) /\ (Exists(t)' <=> Exists(t))
    BY <1>4 DEF LeafRef, Exists
  <2>2. Branch(t)' = Branch(t)
    BY <1>4, <2>1 DEF Branch, Path
  <2>3. \A u \in Sessions : log'[u] \subseteq log[u] \cup {n + 1}
    BY <1>7
  <2> QED
    BY <1>1, <1>3, <1>10, <2>1, <2>2, <2>3, StillUnresolved
<1>12. StoreOK'
  <2> SUFFICES ASSUME NEW t \in Sessions
               PROVE  /\ meta'[t].leaf \in 0..Len(entries')
                      /\ IsRef(meta'[t].inherited, Len(entries'))
                      /\ ~Exists(t)' => LeafRef(t)' = NoRef /\ meta'[t].leaf = 0 /\ log'[t] = {}
                      /\ acked'[t] \subseteq Branch(t)'
    BY DEF StoreOK
  <2> QED
    BY <1>1, <1>4, <1>7, <1>11 DEF StoreOK
<1>13. ~Runs(req'[q]) /\ ~HoldsTurn(req'[q]) /\ ~Asked(req'[q]) /\ ~Pending(req'[q])
       /\ ~Runs(req[q])
  BY <1>5, <1>6 DEF Runs, HoldsTurn, Asked, Pending
<1>14. RequestOK(q)'
  <2>1. ShapeOK(req'[q])
    BY <1>2, <1>6, <1>13 DEF ShapeOK, Appends
  <2>2. InSession(q, s)'
    BY <1>4, <1>6, <1>7, <1>13 DEF InSession
  <2> QED
    BY <1>1, <1>4, <1>6, <2>1, <2>2 DEF RequestOK
<1>15. ASSUME NEW p \in Requests \ {q}
       PROVE  RequestOK(p)'
  <2>1. RequestOK(p) /\ req'[p] = req[p]
    BY <1>6 DEF AgentInv
  <2>2. ASSUME NEW t \in Sessions, req[p].s = t
        PROVE  /\ HoldsTurn(req[p]) => t \in reserved'
               /\ req[p].pc = "unlink" => t \notin reserved' /\ log'[t] = {}
               /\ req[p].pc = "advance" => LeafRef(t)' = LeafRef(t) /\ Exists(t)'
               /\ Runs(req[p]) =>
                    /\ meta'[t].status = "running"
                    /\ Branch(t)' = Branch(t)
                    /\ Resolves(t)' => Resolves(t)
    <3>1. InSession(p, t)
      BY <2>1, <2>2 DEF RequestOK
    <3>2. req[p].pc = "advance" => Exists(t)
      BY <3>1 DEF InSession, AdvanceOK
    <3> QED
      BY <1>4, <1>7, <1>11, <3>1, <3>2 DEF InSession
  <2> QED
    BY <1>1, <1>10, <2>1, <2>2, OtherRequest
<1>16. Exclusive'
  <2>1. ASSUME NEW p \in Requests \ {q}, req[p].s = req'[q].s
        PROVE  ~HoldsLock(req[p])
    BY <1>4, <1>6, <2>1 DEF LockFree, LockHolders, HoldsLock
  <2> QED
    BY <1>1, <1>6, <1>13, <2>1, ExclusiveKept
<1>17. RunningOK'
  <2>1. \A p \in Requests : Runs(req[p]) => req'[p] = req[p]
    BY <1>6, <1>13
  <2> QED
    BY <1>1, <1>4, <2>1 DEF RunningOK
<1>18. \A p \in Requests : RequestOK(p)'
  BY <1>14, <1>15
<1> QED
  BY <1>8, <1>9, <1>12, <1>16, <1>17, <1>18 DEF AgentInv

LEMMA CrashKeeps ==
  ASSUME AgentInv, Crash
  PROVE  AgentInv'
<1>1. TypeOK /\ TreeOK /\ StoreOK
  BY DEF AgentInv
<1>2. /\ crashes < MaxCrashes /\ crashes' = crashes + 1
      /\ req' = [q \in Requests |-> Idle]
      /\ reserved' = {}
      /\ interrupted' = {s \in Sessions : meta[s].status = "running"}
      /\ UNCHANGED <<entries, log, meta, sent, acked>>
  BY DEF Crash
<1>3. crashes' \in 0..MaxCrashes
  <2>1. \A c, k \in Nat : c < k => c + 1 \in 0..k
    OBVIOUS
  <2> QED
    BY <1>1, <1>2, <2>1, BoundsAssumption DEF TypeOK
<1>4. TypeOK'
  BY <1>1, <1>2, <1>3, DraftTypes DEF TypeOK
<1>5. TreeOK'
  BY <1>1, <1>2, SameTree
<1>6. StoreOK'
  BY <1>1, <1>2, SameBranches DEF StoreOK
<1>7. ASSUME NEW q \in Requests
      PROVE  RequestOK(q)' /\ ~HoldsTurn(req'[q]) /\ ~HoldsLock(req'[q])
  <2>1. /\ req'[q].op = "none" /\ req'[q].pc = "idle" /\ req'[q].then = "idle"
        /\ req'[q].at = NoRef /\ req'[q].s = NoSession
    BY <1>2 DEF Idle
  <2>2. ~HoldsTurn(req'[q]) /\ ~HoldsLock(req'[q]) /\ ~Pending(req'[q])
    BY <2>1 DEF HoldsTurn, HoldsLock, Pending
  <2>3. ShapeOK(req'[q]) /\ IsRef(req'[q].at, Len(entries'))
    BY <2>1, <2>2 DEF ShapeOK, Appends, IsRef
  <2> QED
    BY <2>1, <2>2, <2>3, FirstAssumption DEF RequestOK
<1>8. Exclusive'
  BY <1>7 DEF Exclusive
<1>9. RunningOK'
  BY <1>2 DEF RunningOK
<1> QED
  BY <1>4, <1>5, <1>6, <1>7, <1>8, <1>9 DEF AgentInv

-----------------------------------------------------------------------------
(* How a conversation's branch changes.                                     *)

\* The request q adds an entry to the branch of its session, or cuts it back.
OwnChange(q, s) ==
  /\ req[q].s = s
  /\ \/ /\ req[q].pc = "advance"
        /\ Branch(s)' = Branch(s) \cup {req[q].at.entry}
        /\ \A e \in Branch(s) : e < req[q].at.entry
     \/ /\ req[q].pc = "rewind"
        /\ \E e \in Branch(s) : Branch(s)' = {f \in Branch(s) : f <= e}

LEMMA SameLeaf ==
  ASSUME NEW t, LeafRef(t)' = LeafRef(t), entries' = entries
  PROVE  Branch(t)' = Branch(t)
BY DEF Branch, Path

\* A write of the log does not move a leaf.
LEMMA AppendLogBranches ==
  ASSUME AgentInv, NEW q \in Requests, AppendLog(q), NEW t \in Sessions
  PROVE  Branch(t)' = Branch(t)
<1>1. TypeOK /\ TreeOK /\ StoreOK /\ req[q].pc = "append" /\ meta' = meta
  BY DEF AgentInv, AppendLog
<1>2. PICK s \in Sessions : req[q].s = s
  BY <1>1, LocalFacts
<1>3. PICK n : n = Len(entries)
  OBVIOUS
<1>4. \A x \in 0..n : Path(x)' = Path(x)
  BY <1>2, <1>3, AppendLogTree
<1>5. LeafRef(t)' = LeafRef(t)
  BY <1>1 DEF LeafRef
<1>6. PICK x : x = LeafRef(t).entry
  OBVIOUS
<1>7. x \in 0..n /\ Branch(t) = Path(x)
  BY <1>1, <1>3, <1>6, BranchFacts
<1>8. Branch(t)' = Path(x)'
  BY <1>5, <1>6, BranchNext
<1> QED
  BY <1>4, <1>7, <1>8

\* The write of the metadata adds the entry to the branch of its session.
LEMMA AppendMetaBranches ==
  ASSUME AgentInv, NEW q \in Requests, AppendMeta(q), NEW t \in Sessions
  PROVE  Branch(t)' = Branch(t) \/ OwnChange(q, t)
<1>1. TypeOK /\ TreeOK /\ StoreOK /\ req[q].pc = "advance"
  BY DEF AgentInv, AppendMeta
<1>2. PICK s \in Sessions : req[q].s = s
  BY <1>1, LocalFacts
<1>3. PICK id : id = req[q].at.entry
  OBVIOUS
<1>4. meta' = [meta EXCEPT ![s].leaf = id] /\ UNCHANGED <<entries, log>>
  BY <1>2, <1>3 DEF AppendMeta
<1>5. id \in 1..Len(entries) /\ entries[id].parent = LeafRef(s)
  BY <1>1, <1>2, <1>3, LocalFacts DEF InSession, AdvanceOK
<1>6. LeafMoved(s, id)
  BY <1>1, <1>4, <1>5, LeafMoves
<1>7. CASE t = s
  BY <1>1, <1>2, <1>3, <1>6, <1>7 DEF LeafMoved, OwnChange
<1>8. CASE t # s
  BY <1>6, <1>8 DEF LeafMoved
<1> QED
  BY <1>7, <1>8

\* A rewind cuts the branch back to one of its entries.
LEMMA RewindBranches ==
  ASSUME AgentInv, NEW q \in Requests, Rewind(q), NEW t \in Sessions
  PROVE  Branch(t)' = Branch(t) \/ OwnChange(q, t)
<1>1. TypeOK /\ TreeOK /\ StoreOK /\ req[q].pc = "rewind" /\ entries' = entries
  BY DEF AgentInv, Rewind
<1>2. PICK s \in Sessions : req[q].s = s
  BY <1>1, LocalFacts
<1>3. PICK to : to = req[q].at
  OBVIOUS
<1>4. \/ meta' = meta
      \/ /\ OnBranch(s, to)
         /\ meta' = [meta EXCEPT ![s] =
                       IF to.session = s THEN [@ EXCEPT !.leaf = to.entry]
                       ELSE [@ EXCEPT !.leaf = 0, !.inherited = to]]
  BY <1>2, <1>3 DEF Rewind, Rewound
<1>5. CASE meta' = meta
  <2>1. LeafRef(t)' = LeafRef(t)
    BY <1>5 DEF LeafRef
  <2> QED
    BY <1>1, <2>1, SameLeaf
<1>6. CASE /\ OnBranch(s, to)
           /\ meta' = [meta EXCEPT ![s] =
                         IF to.session = s THEN [@ EXCEPT !.leaf = to.entry]
                         ELSE [@ EXCEPT !.leaf = 0, !.inherited = to]]
  <2>1. to.entry \in Branch(s) /\ to.entry \in 1..Len(entries) /\ to.entry # 0
    BY <1>1, <1>6, BranchFacts DEF OnBranch
  <2>2. CASE t # s
    <3>1. LeafRef(t)' = LeafRef(t)
      BY <1>1, <1>6, <2>2 DEF LeafRef, TypeOK
    <3> QED
      BY <1>1, <3>1, SameLeaf
  <2>3. CASE t = s
    <3>1. LeafRef(s)'.entry = to.entry
      <4>1. meta'[s] = IF to.session = s THEN [meta[s] EXCEPT !.leaf = to.entry]
                       ELSE [meta[s] EXCEPT !.leaf = 0, !.inherited = to]
        BY <1>1, <1>6 DEF TypeOK
      <4>2. meta[s] \in MetaStates
        BY <1>1, SessionTypes
      <4>3. CASE to.session = s
        <5>1. meta'[s].leaf = to.entry
          BY <4>1, <4>2, <4>3 DEF MetaStates
        <5> QED
          BY <2>1, <5>1 DEF LeafRef, Ref
      <4>4. CASE to.session # s
        <5>1. meta'[s].leaf = 0 /\ meta'[s].inherited = to
          BY <4>1, <4>2, <4>4 DEF MetaStates
        <5> QED
          BY <5>1 DEF LeafRef
      <4> QED
        BY <4>3, <4>4
    <3>2. PICK x : x = to.entry
      OBVIOUS
    <3>3. Branch(s)' = Path(x)
      <4>1. Branch(s)' = Path(x)'
        BY <3>1, <3>2, BranchNext
      <4> QED
        BY <1>1, <4>1 DEF Path
    <3>4. Path(x) = {f \in Branch(s) : f <= x}
      <4>1. LeafRef(s).entry \in 0..Len(entries) /\ Branch(s) = Path(LeafRef(s).entry)
        BY <1>1, BranchFacts
      <4> QED
        BY <1>1, <2>1, <3>2, <4>1, PathPrefix
    <3> QED
      BY <1>1, <1>2, <2>1, <2>3, <3>2, <3>3, <3>4 DEF OwnChange
  <2> QED
    BY <2>2, <2>3
<1> QED
  BY <1>4, <1>5, <1>6

\* A fork is a conversation that was not there, and a deletion leaves none.
LEMMA ForkBranches ==
  ASSUME AgentInv, NEW q \in Requests, NEW f \in Sessions, Fork(q, f),
         NEW t \in Sessions, Exists(t)
  PROVE  Branch(t)' = Branch(t)
<1>1. t # f
  BY DEF Fork, Exists
<1>2. LeafRef(t)' = LeafRef(t) /\ entries' = entries
  BY <1>1 DEF Fork, LeafRef, AgentInv, TypeOK
<1> QED
  BY <1>2, SameLeaf

LEMMA DeleteMetaBranches ==
  ASSUME AgentInv, NEW q \in Requests, DeleteMeta(q), NEW t \in Sessions, Exists(t)'
  PROVE  Branch(t)' = Branch(t)
<1>1. t # req[q].s
  BY DEF DeleteMeta, AgentInv, TypeOK, Exists, NoMeta
<1>2. LeafRef(t)' = LeafRef(t) /\ entries' = entries
  BY <1>1 DEF DeleteMeta, LeafRef, AgentInv, TypeOK
<1> QED
  BY <1>2, SameLeaf

\* The status of a session is no part of its branch.
LEMMA StatusBranches ==
  ASSUME AgentInv, NEW q \in Requests, BeginTurn(q) \/ EndTurn(q), NEW t \in Sessions
  PROVE  Branch(t)' = Branch(t)
<1>1. TypeOK /\ req[q].pc # "idle" /\ UNCHANGED <<entries, log>>
  BY DEF AgentInv, BeginTurn, EndTurn
<1>2. PICK s \in Sessions : req[q].s = s
  BY <1>1, LocalFacts
<1>3. \/ meta' = meta
      \/ /\ Exists(s)
         /\ \E st \in {"idle", "running"} : meta' = [meta EXCEPT ![s].status = st]
  BY <1>2 DEF BeginTurn, EndTurn, EndStatus
<1>4. CASE meta' = meta
  BY <1>1, <1>4, SameBranches
<1>5. ASSUME NEW st \in {"idle", "running"}, Exists(s), meta' = [meta EXCEPT ![s].status = st]
      PROVE  Branch(t)' = Branch(t)
  BY <1>1, <1>5, StatusFields
<1> QED
  BY <1>3, <1>4, <1>5

\* The other steps leave the files of the store as they are, or only cut a log.
LEMMA QuietSteps ==
  ASSUME NEW q \in Requests,
         \/ RequestArrives(q) \/ Reserve(q) \/ Release(q) \/ TellBefore(q) \/ SetUp(q)
         \/ BuildContext(q) \/ PlanSummary(q) \/ PlanNothing(q) \/ Summarized(q)
         \/ Reply(q) \/ Round(q) \/ ToolReturns(q) \/ AppendRefused(q)
         \/ DeleteRefused(q) \/ DeleteLog(q),
         NEW t
  PROVE  Branch(t)' = Branch(t)
<1>1. UNCHANGED <<entries, meta>>
  <2>1. CASE RequestArrives(q)
    BY <2>1 DEF RequestArrives, StartTurn, StartDelete, StartCompact, StartNotice,
                StartRewind, StartFork, Arrive
  <2>2. CASE \/ Reserve(q) \/ Release(q) \/ TellBefore(q) \/ SetUp(q) \/ BuildContext(q)
             \/ PlanSummary(q) \/ PlanNothing(q)
    BY <2>2 DEF Reserve, Release, TellBefore, SetUp, BuildContext, PlanSummary, PlanNothing
  <2>3. CASE \/ Summarized(q) \/ Reply(q) \/ Round(q) \/ ToolReturns(q)
             \/ AppendRefused(q) \/ DeleteRefused(q) \/ DeleteLog(q)
    BY <2>3 DEF Summarized, Reply, Round, ToolReturns, AppendRefused, DeleteRefused, DeleteLog
  <2> QED
    BY <2>1, <2>2, <2>3
<1>2. LeafRef(t)' = LeafRef(t)
  BY <1>1 DEF LeafRef
<1> QED
  BY <1>1, <1>2, SameLeaf

LEMMA BranchesChange ==
  ASSUME AgentInv, [Next]_vars, NEW s \in Sessions, Exists(s), Exists(s)',
         Branch(s)' # Branch(s)
  PROVE  \E q \in Requests : OwnChange(q, s)
<1>1. CASE UNCHANGED vars \/ Crash
  <2>1. UNCHANGED <<entries, log, meta>>
    BY <1>1 DEF vars, Crash
  <2> QED
    BY <2>1, SameBranches
<1>2. ASSUME NEW q \in Requests, RequestArrives(q) \/ TurnStep(q)
      PROVE  FALSE
  BY <1>2, QuietSteps, StatusBranches DEF TurnStep
<1>3. ASSUME NEW q \in Requests, StoreStep(q)
      PROVE  OwnChange(q, s)
  BY <1>3, QuietSteps, AppendLogBranches, AppendMetaBranches, RewindBranches, ForkBranches,
     DeleteMetaBranches DEF StoreStep
<1> QED
  BY <1>1, <1>2, <1>3 DEF Next

-----------------------------------------------------------------------------
(* What can be read.                                                        *)

\* A log holds its own session's entries, and the entry that the leaf is about
\* to move to.
LogsOK ==
  /\ \A s \in Sessions : \A e \in log[s] : entries[e].session = s
  /\ \A q \in Requests : req[q].pc = "advance" => req[q].at.entry \in log[req[q].s]

\* The references on the way along the branch of s.
Refs(s) == ({LeafRef(s)} \cup {entries[e].parent : e \in Branch(s)}) \ {NoRef}

\* A request is as it was, or has no entry to move a leaf to.
NoNewAdvance == \A p \in Requests : req'[p].pc = "advance" => req'[p] = req[p]

LEMMA Becomes ==
  ASSUME TypeOK, NEW q \in Requests, NEW r, Become(q, r), r.pc # "advance"
  PROVE  NoNewAdvance
BY DEF TypeOK, Become, NoNewAdvance

LEMMA Finishing ==
  ASSUME TypeOK, NEW q \in Requests, Finish(q)
  PROVE  NoNewAdvance
<1>1. Idle.pc # "advance"
  BY DEF Idle
<1> QED
  BY <1>1, Becomes DEF Finish

LEMMA Going ==
  ASSUME TypeOK, NEW q \in Requests, NEW pc \in Steps, Goto(q, pc), pc # "advance"
  PROVE  NoNewAdvance
BY GotoFields DEF NoNewAdvance

\* The steps of requests that leave the files alone, or change a status.
LEMMA ArrivalFiles ==
  ASSUME TypeOK, NEW q \in Requests, RequestArrives(q)
  PROVE  NoNewAdvance /\ UNCHANGED <<entries, log, meta>>
<1>1. \E op, s, pc, at : Arrive(q, op, s, pc, at) /\ pc # "advance"
  BY DEF RequestArrives, StartTurn, StartDelete, StartCompact, StartNotice, StartRewind, StartFork
<1>2. PICK op, s, pc, at : Arrive(q, op, s, pc, at) /\ pc # "advance"
  BY <1>1
<1>3. [Idle EXCEPT !.op = op, !.s = s, !.pc = pc, !.at = at].pc = pc
  BY DEF Idle
<1> QED
  BY <1>2, <1>3, Becomes DEF Arrive

LEMMA TurnFiles ==
  ASSUME AgentInv, NEW q \in Requests, TurnStep(q)
  PROVE  /\ NoNewAdvance
         /\ UNCHANGED <<entries, log>>
         /\ meta' = meta \/ BeginTurn(q) \/ EndTurn(q)
<1>1. TypeOK /\ req[q] \in RequestStates
  BY RequestTypes DEF AgentInv
<1>2. \A pc \in Steps : Goto(q, pc) /\ pc # "advance" => NoNewAdvance
  BY <1>1, Going
<1>3. Finish(q) => NoNewAdvance
  BY <1>1, Finishing
<1>4. \A d, then : ToAppend(q, d, then) => NoNewAdvance
  <2> SUFFICES ASSUME NEW d, NEW then, ToAppend(q, d, then)
               PROVE  NoNewAdvance
    OBVIOUS
  <2>1. [req[q] EXCEPT !.pc = "append", !.entry = d, !.then = then].pc = "append"
    BY <1>1 DEF RequestStates
  <2> QED
    BY <1>1, <2>1, Becomes DEF ToAppend
<1>5. CASE Reserve(q) \/ Release(q) \/ SetUp(q) \/ BuildContext(q) \/ PlanNothing(q) \/ EndTurn(q)
  BY <1>2, <1>3, <1>5 DEF Reserve, Release, SetUp, BuildContext, PlanNothing, EndTurn, Steps
<1>6. CASE TellBefore(q) \/ Reply(q) \/ ToolReturns(q)
  BY <1>4, <1>6 DEF TellBefore, Reply, ToolReturns
<1>7. CASE BeginTurn(q)
  BY <1>2, <1>4, <1>7 DEF BeginTurn, Steps
<1>8. CASE PlanSummary(q)
  <2>1. PICK d : Become(q, [req[q] EXCEPT !.pc = "summarize", !.entry = d])
    BY <1>8 DEF PlanSummary
  <2>2. [req[q] EXCEPT !.pc = "summarize", !.entry = d].pc = "summarize"
    BY <1>1 DEF RequestStates
  <2> QED
    BY <1>1, <1>8, <2>1, <2>2, Becomes DEF PlanSummary
<1>9. CASE Summarized(q)
  <2>1. PICK pc : pc = AfterSummary(q)
    OBVIOUS
  <2>2. pc # "advance"
    BY <2>1 DEF AfterSummary
  <2>3. [req[q] EXCEPT !.pc = pc, !.entry = Draft("notice", 0)].pc = pc
    BY <1>1 DEF RequestStates
  <2> QED
    BY <1>1, <1>4, <1>9, <2>1, <2>2, <2>3, Becomes DEF Summarized
<1>10. CASE Round(q)
  <2>1. PICK d, n :
          Become(q, [req[q] EXCEPT !.pc = "append", !.rounds = n, !.then = "tool", !.entry = d])
    BY <1>10 DEF Round
  <2>2. [req[q] EXCEPT !.pc = "append", !.rounds = n, !.then = "tool", !.entry = d].pc = "append"
    BY <1>1 DEF RequestStates
  <2> QED
    BY <1>1, <1>10, <2>1, <2>2, Becomes DEF Round
<1> QED
  BY <1>5, <1>6, <1>7, <1>8, <1>9, <1>10 DEF TurnStep

LEMMA StoreFiles ==
  ASSUME AgentInv, NEW q \in Requests, StoreStep(q), ~AppendLog(q), ~DeleteLog(q)
  PROVE  NoNewAdvance /\ UNCHANGED <<entries, log>>
<1>1. TypeOK /\ req[q] \in RequestStates /\ ShapeOK(req[q])
  BY RequestTypes, LocalFacts DEF AgentInv
<1>2. Finish(q) => NoNewAdvance
  BY <1>1, Finishing
<1>3. CASE AppendMeta(q)
  <2>1. req[q].then # "advance"
    BY <1>1, <1>3, RequestTypes DEF AppendMeta, ShapeOK, Appends
  <2>2. PICK then : then = req[q].then
    OBVIOUS
  <2>3. [req[q] EXCEPT !.pc = then, !.at = NoRef, !.entry = Draft("notice", 0),
                       !.then = "idle"].pc = then
    BY <1>1 DEF RequestStates
  <2> QED
    BY <1>1, <1>2, <1>3, <2>1, <2>2, <2>3, Becomes DEF AppendMeta
<1>4. CASE ~AppendMeta(q)
  BY <1>2, <1>4 DEF StoreStep, AppendRefused, Rewind, Fork, DeleteRefused, DeleteMeta
<1> QED
  BY <1>3, <1>4

LEMMA AppendLogFiles ==
  ASSUME AgentInv, LogsOK, NEW q \in Requests, AppendLog(q)
  PROVE  LogsOK' /\ \A u \in Sessions : log[u] \subseteq log'[u]
<1>1. TypeOK /\ req[q].pc = "append" /\ Len(entries) \in Nat /\ req[q] \in RequestStates
  BY EntryTypes, RequestTypes DEF AgentInv, AppendLog
<1>2. PICK s \in Sessions : req[q].s = s
  BY <1>1, LocalFacts
<1>3. PICK n : n = Len(entries)
  OBVIOUS
<1>4. PICK d, turn :
        /\ entries' = Append(entries, NewEntry(s, LeafRef(s), d))
        /\ Become(q, [req[q] EXCEPT !.pc = "advance", !.at = Ref(s, n + 1), !.turn = turn])
  BY <1>2, <1>3 DEF AppendLog
<1>5. log' = [log EXCEPT ![s] = log[s] \cup {n + 1}]
  BY <1>1, <1>2, <1>3 DEF AppendLog, TypeOK
<1>6. Grows(entries, entries')
  BY <1>2, <1>3, AppendLogTree
<1>7. entries'[n + 1].session = s
  <2>1. entries'[n + 1] = NewEntry(s, LeafRef(s), d)
    BY <1>1, <1>3, <1>4, AppendProperties DEF TypeOK
  <2> QED
    BY <2>1 DEF NewEntry
<1>8. ASSUME NEW t \in Sessions
      PROVE  log[t] \subseteq 1..n /\ log[t] \subseteq log'[t]
             /\ log'[t] = IF t = s THEN log[t] \cup {n + 1} ELSE log[t]
  BY <1>1, <1>3, <1>5 DEF TypeOK
<1>9. ASSUME NEW t \in Sessions, NEW e \in log'[t]
      PROVE  entries'[e].session = t
  <2>1. CASE e \in log[t]
    <3>1. entries[e].session = t
      BY <2>1 DEF LogsOK
    <3>2. e \in 1..Len(entries)
      BY <1>3, <1>8, <2>1
    <3> QED
      BY <1>6, <3>1, <3>2 DEF Grows
  <2>2. CASE e \notin log[t]
    <3>1. t = s
      BY <1>8, <2>2
    <3>2. log'[s] = log[s] \cup {n + 1}
      BY <1>8
    <3>3. e = n + 1
      BY <2>2, <3>1, <3>2
    <3> QED
      BY <1>7, <3>1, <3>3
  <2> QED
    BY <2>1, <2>2
<1>10. ASSUME NEW p \in Requests, req'[p].pc = "advance"
       PROVE  req'[p].at.entry \in log'[req'[p].s]
  <2> DEFINE r == [req[q] EXCEPT !.pc = "advance", !.at = Ref(s, n + 1), !.turn = turn]
  <2>1. r.at.entry = n + 1 /\ r.s = s
    BY <1>1, <1>2 DEF RequestStates, Ref
  <2> HIDE DEF r
  <2>2. req' = [req EXCEPT ![q] = r]
    BY <1>4 DEF r, Become
  <2>3. CASE p = q
    <3>1. req'[p] = r
      BY <1>1, <2>2, <2>3 DEF TypeOK
    <3> QED
      BY <1>8, <2>1, <3>1
  <2>4. CASE p # q
    <3>1. req'[p] = req[p]
      BY <1>1, <2>2, <2>4 DEF TypeOK
    <3>2. req[p].s \in Sessions /\ req[p].at.entry \in log[req[p].s]
      BY <1>10, <3>1, LocalFacts DEF LogsOK
    <3> QED
      BY <1>8, <3>1, <3>2
  <2> QED
    BY <2>3, <2>4
<1> QED
  BY <1>8, <1>9, <1>10 DEF LogsOK

LEMMA DeleteLogFiles ==
  ASSUME AgentInv, LogsOK, NEW q \in Requests, DeleteLog(q)
  PROVE  LogsOK' /\ req[q].pc = "delete" /\ req'[q].pc = "unlink"
<1>1. TypeOK /\ req[q].pc = "delete" /\ entries' = entries
  BY DEF AgentInv, DeleteLog
<1>2. PICK s \in Sessions : req[q].s = s
  BY <1>1, LocalFacts
<1>3. /\ LockFree(s)
      /\ log' = [log EXCEPT ![s] = {}]
      /\ Goto(q, "unlink") /\ "unlink" \in Steps
  BY <1>2 DEF DeleteLog, Steps
<1>4. NoNewAdvance /\ req'[q].pc = "unlink"
  BY <1>1, <1>3, Going, GotoFields
<1>5. \A t \in Sessions : log'[t] = IF t = s THEN {} ELSE log[t]
  BY <1>1, <1>3 DEF TypeOK
<1>6. ASSUME NEW p \in Requests, req'[p].pc = "advance"
      PROVE  req'[p].at.entry \in log'[req'[p].s]
  <2>1. req'[p] = req[p]
    BY <1>4, <1>6 DEF NoNewAdvance
  <2>2. req[p].s \in Sessions /\ req[p].at.entry \in log[req[p].s]
    BY <1>6, <2>1, LocalFacts DEF LogsOK
  <2>3. req[p].s # s
    BY <1>3, <1>6, <2>1 DEF LockFree, LockHolders
  <2> QED
    BY <1>5, <2>1, <2>2, <2>3
<1> QED
  BY <1>1, <1>4, <1>5, <1>6 DEF LogsOK

LEMMA LogsKept ==
  ASSUME LogsOK, NoNewAdvance, UNCHANGED <<entries, log>>
  PROVE  LogsOK'
BY DEF LogsOK, NoNewAdvance

LEMMA LogsNext ==
  ASSUME AgentInv, LogsOK, [Next]_vars
  PROVE  LogsOK'
<1>1. TypeOK
  BY DEF AgentInv
<1>2. CASE UNCHANGED vars
  BY <1>2 DEF vars, LogsOK
<1>3. CASE Crash
  <2>1. NoNewAdvance /\ UNCHANGED <<entries, log>>
    BY <1>3 DEF Crash, NoNewAdvance, Idle
  <2> QED
    BY <2>1, LogsKept
<1>4. ASSUME NEW q \in Requests, RequestArrives(q) \/ TurnStep(q)
      PROVE  LogsOK'
  BY <1>1, <1>4, ArrivalFiles, TurnFiles, LogsKept
<1>5. ASSUME NEW q \in Requests, StoreStep(q)
      PROVE  LogsOK'
  BY <1>5, AppendLogFiles, DeleteLogFiles, StoreFiles, LogsKept
<1> QED
  BY <1>2, <1>3, <1>4, <1>5 DEF Next

LEMMA LogsInit == Init => LogsOK
<1> SUFFICES ASSUME Init
             PROVE  LogsOK
  OBVIOUS
<1>1. \A i \in 1..3 : entries[i].session = First
  BY DEF Init, NewEntry
<1>2. \A s \in Sessions : log[s] = IF s = First THEN 1..3 ELSE {}
  BY DEF Init
<1>3. \A q \in Requests : req[q].pc = "idle"
  BY DEF Init, Idle
<1> QED
  BY <1>1, <1>2, <1>3 DEF LogsOK

\* An entry of a branch is where some reference on the way leads.
LEMMA RefTo ==
  ASSUME TypeOK, TreeOK, StoreOK, NEW s \in Sessions, NEW x \in Branch(s)
  PROVE  \E r \in Refs(s) : r.entry = x
<1>1. PICK l : l = LeafRef(s).entry
  OBVIOUS
<1>2. l \in 0..Len(entries) /\ Branch(s) = Path(l) /\ Branch(s) \subseteq 1..Len(entries)
      /\ Len(entries) \in Nat
  BY <1>1, BranchFacts, EntryTypes
<1>3. x \in 1..Len(entries) /\ x # NoRef.entry
  BY <1>2 DEF NoRef
<1>4. CASE l = x
  BY <1>1, <1>3, <1>4 DEF Refs
<1>5. CASE l # x
  <2> DEFINE later == {f \in Branch(s) : x < f}
  <2>1. Path(l) = {l} \cup Path(entries[l].parent.entry) /\ Path(l) \subseteq 1..l
    BY <1>2, PathDef
  <2>2. l \in later
    BY <1>2, <1>5, <2>1
  <2>3. later \subseteq Nat /\ later # {}
    BY <1>2, <2>2
  <2>4. PICK g \in later : \A f \in later : g <= f
    <3> HIDE DEF later
    <3> QED
      BY <2>3, Least
  <2>5. g \in Branch(s) /\ x < g /\ g \in 1..Len(entries) /\ g \in 0..Len(entries) /\ g # 0
    BY <1>2
  <2>6. PICK p : p = entries[g].parent.entry
    OBVIOUS
  <2>7. Path(g) = {f \in Branch(s) : f <= g} /\ Path(g) = {g} \cup Path(p)
    BY <1>2, <2>5, <2>6, PathPrefix, PathDef
  <2>8. p \in 0..Len(entries) /\ p < g
    <3>1. Rooted(entries)
      BY EntriesRooted DEF TreeOK
    <3> QED
      BY <1>2, <2>5, <2>6, <3>1 DEF Rooted
  <2>9. Path(p) \subseteq 1..p /\ (p # 0 => p \in Path(p))
    BY <2>8, PathDef
  <2>10. x \in Path(p)
    BY <1>3, <2>5, <2>7
  <2>11. x <= p /\ p # 0
    BY <1>2, <2>8, <2>9, <2>10
  <2>12. p \in Branch(s)
    BY <2>7, <2>9, <2>11
  <2>13. p \notin later
    <3>1. ~(g <= p)
      BY <2>5, <2>8
    <3> HIDE DEF later
    <3> QED
      BY <2>4, <3>1
  <2>14. p = x
    BY <1>3, <2>8, <2>11, <2>12, <2>13
  <2>15. entries[g].parent # NoRef
    BY <1>3, <2>6, <2>14
  <2> QED
    BY <2>5, <2>6, <2>14, <2>15 DEF Refs
<1> QED
  BY <1>4, <1>5

LEMMA RefTypes ==
  ASSUME TypeOK, TreeOK, StoreOK, NEW s \in Sessions, NEW r \in Refs(s)
  PROVE  r.session \in Sessions /\ r.entry \in 1..Len(entries)
<1>1. Len(entries) \in Nat /\ Branch(s) \subseteq 1..Len(entries) /\ IsRef(LeafRef(s), Len(entries))
  BY EntryTypes, BranchFacts
<1>2. ASSUME NEW e \in Branch(s)
      PROVE  IsRef(entries[e].parent, Len(entries))
  <2>1. IsRef(entries[e].parent, e - 1) /\ e \in 1..Len(entries)
    BY <1>1 DEF TreeOK, EntryOK
  <2> QED
    BY <1>1, <2>1 DEF IsRef
<1>3. r # NoRef /\ IsRef(r, Len(entries))
  BY <1>1, <1>2 DEF Refs
<1> QED
  BY <1>3 DEF IsRef

\* Logs that only grow keep what resolves.
LEMMA StillResolves ==
  ASSUME TypeOK, TreeOK, StoreOK, NEW t \in Sessions, Grows(entries, entries'),
         LeafRef(t)' = LeafRef(t), Branch(t)' = Branch(t),
         \A u \in Sessions : log[u] \subseteq log'[u], Resolves(t)
  PROVE  Resolves(t)'
<1>1. \A e \in Branch(t) : entries'[e] = entries[e]
  BY BranchFacts DEF Grows
<1>2. ({LeafRef(t)'} \cup {entries'[e].parent : e \in Branch(t)'}) \ {NoRef} = Refs(t)
  BY <1>1 DEF Refs
<1>3. \A r \in Refs(t) : r.entry \in log[r.session]
  BY DEF Refs, Resolves
<1>4. \A r \in Refs(t) : r.entry \in log'[r.session]
  BY <1>3, RefTypes
<1>5. \A r \in ({LeafRef(t)'} \cup {entries'[e].parent : e \in Branch(t)'}) \ {NoRef} :
        r.entry \in log'[r.session]
  BY <1>2, <1>4
<1> QED
  BY <1>5 DEF Resolves

LEMMA AppendMetaResolves ==
  ASSUME AgentInv, LogsOK, NEW q \in Requests, AppendMeta(q), NEW t \in Sessions, Resolves(t)
  PROVE  Resolves(t)'
<1>1. TypeOK /\ TreeOK /\ StoreOK /\ req[q].pc = "advance"
  BY DEF AgentInv, AppendMeta
<1>2. PICK s \in Sessions : req[q].s = s
  BY <1>1, LocalFacts
<1>3. PICK id : id = req[q].at.entry
  OBVIOUS
<1>4. meta' = [meta EXCEPT ![s].leaf = id] /\ UNCHANGED <<entries, log>>
  BY <1>2, <1>3 DEF AppendMeta
<1>5. id \in 1..Len(entries) /\ entries[id].parent = LeafRef(s) /\ id \in log[s]
  BY <1>1, <1>2, <1>3, LocalFacts DEF InSession, AdvanceOK, LogsOK
<1>6. LeafMoved(s, id)
  BY <1>1, <1>4, <1>5, LeafMoves
<1>7. CASE t = s
  <2>1. LeafRef(s)' = Ref(s, id) /\ Branch(s)' = Branch(s) \cup {id}
    BY <1>6 DEF LeafMoved
  <2>2. ({LeafRef(s)'} \cup {entries'[e].parent : e \in Branch(s)'}) \ {NoRef}
          \subseteq {Ref(s, id)} \cup Refs(s)
    BY <1>4, <1>5, <2>1 DEF Refs
  <2>3. Ref(s, id).entry = id /\ Ref(s, id).session = s
    BY DEF Ref
  <2>4. \A r \in {Ref(s, id)} \cup Refs(s) : r.entry \in log'[r.session]
    BY <1>4, <1>5, <1>7, <2>3 DEF Resolves, Refs
  <2>5. Resolves(s)'
    BY <2>2, <2>4 DEF Resolves
  <2> QED
    BY <1>7, <2>5
<1>8. CASE t # s
  <2>1. LeafRef(t)' = LeafRef(t) /\ Branch(t)' = Branch(t)
    BY <1>6, <1>8 DEF LeafMoved
  <2> QED
    BY <1>4, <2>1 DEF Resolves
<1> QED
  BY <1>7, <1>8

\* A session whose leaf and branch stay, in files that stay.
LEMMA LeftAlone ==
  ASSUME NEW t, LeafRef(t)' = LeafRef(t), UNCHANGED <<entries, log>>, Resolves(t)
  PROVE  Resolves(t)'
<1>1. Branch(t)' = Branch(t)
  BY SameLeaf
<1> QED
  BY <1>1 DEF Resolves

\* A rewind aims at an entry of the branch in the log of its session.
LEMMA RewindResolves ==
  ASSUME AgentInv, LogsOK, NEW q \in Requests, Rewind(q), NEW t \in Sessions, Resolves(t)
  PROVE  Resolves(t)'
<1>1. /\ TypeOK /\ TreeOK /\ StoreOK /\ req[q].pc = "rewind"
      /\ UNCHANGED <<entries, log>> /\ req[q].at \in EntryRefs
  BY RequestTypes DEF AgentInv, Rewind
<1>2. PICK s \in Sessions : req[q].s = s
  BY <1>1, LocalFacts
<1>3. PICK to : to = req[q].at
  OBVIOUS
<1>4. \/ meta' = meta
      \/ /\ OnBranch(s, to)
         /\ meta' = [meta EXCEPT ![s] =
                       IF to.session = s THEN [@ EXCEPT !.leaf = to.entry]
                       ELSE [@ EXCEPT !.leaf = 0, !.inherited = to]]
  BY <1>2, <1>3 DEF Rewind, Rewound
<1>5. CASE LeafRef(t)' = LeafRef(t)
  BY <1>1, <1>5, LeftAlone
<1>6. CASE LeafRef(t)' # LeafRef(t)
  <2>1. meta'[t] # meta[t]
    BY <1>6 DEF LeafRef
  <2>2. t = s /\ OnBranch(s, to)
    BY <1>1, <1>4, <2>1 DEF TypeOK
  <2>3. to.entry \in Branch(s) /\ entries[to.entry].session = to.session
        /\ to.entry \in 1..Len(entries)
    BY <1>1, <2>2, BranchFacts DEF OnBranch
  <2>4. LeafRef(s)' = to
    <3>1. meta'[s] = IF to.session = s THEN [meta[s] EXCEPT !.leaf = to.entry]
                     ELSE [meta[s] EXCEPT !.leaf = 0, !.inherited = to]
      BY <1>1, <1>4, <2>1, <2>2 DEF TypeOK
    <3>2. meta[s] \in MetaStates
      BY <1>1, SessionTypes
    <3>3. CASE to.session = s
      <4>1. meta'[s].leaf = to.entry /\ to.entry # 0
        BY <2>3, <3>1, <3>2, <3>3 DEF MetaStates
      <4>2. to = Ref(s, to.entry)
        BY <1>1, <1>3, <3>3 DEF EntryRefs, Ref
      <4> QED
        BY <4>1, <4>2 DEF LeafRef
    <3>4. CASE to.session # s
      <4>1. meta'[s].leaf = 0 /\ meta'[s].inherited = to
        BY <3>1, <3>2, <3>4 DEF MetaStates
      <4> QED
        BY <4>1 DEF LeafRef
    <3> QED
      BY <3>3, <3>4
  <2>5. Branch(s)' \subseteq Branch(s)
    <3>1. PICK x : x = to.entry
      OBVIOUS
    <3>2. Branch(s)' = Path(x)
      <4>1. Branch(s)' = Path(x)'
        BY <2>4, <3>1, BranchNext
      <4> QED
        BY <1>1, <4>1 DEF Path
    <3>3. LeafRef(s).entry \in 0..Len(entries) /\ Branch(s) = Path(LeafRef(s).entry)
      BY <1>1, BranchFacts
    <3>4. Path(x) = {f \in Branch(s) : f <= x}
      BY <1>1, <2>3, <3>1, <3>3, PathPrefix
    <3> QED
      BY <3>2, <3>4
  <2>6. \A r \in Refs(s) : r.entry \in log[r.session] /\ r.session \in Sessions
    BY <1>1, <2>2, RefTypes DEF Resolves, Refs
  <2>7. to.entry \in log[to.session]
    <3>1. PICK r \in Refs(s) : r.entry = to.entry
      BY <1>1, <2>3, RefTo
    <3>2. entries[to.entry].session = r.session
      BY <2>6, <3>1 DEF LogsOK
    <3> QED
      BY <2>3, <2>6, <3>1, <3>2
  <2>8. ({LeafRef(s)'} \cup {entries'[e].parent : e \in Branch(s)'}) \ {NoRef}
          \subseteq {to} \cup Refs(s)
    BY <1>1, <2>4, <2>5 DEF Refs
  <2>9. \A r \in {to} \cup Refs(s) : r.entry \in log'[r.session]
    BY <1>1, <2>6, <2>7
  <2>10. Resolves(s)'
    BY <2>8, <2>9 DEF Resolves
  <2> QED
    BY <2>2, <2>10
<1> QED
  BY <1>5, <1>6

LEMMA StatusResolves ==
  ASSUME AgentInv, NEW q \in Requests, BeginTurn(q) \/ EndTurn(q), NEW t \in Sessions, Resolves(t)
  PROVE  Resolves(t)'
<1>1. TypeOK /\ req[q].pc # "idle" /\ UNCHANGED <<entries, log>>
  BY DEF AgentInv, BeginTurn, EndTurn
<1>2. PICK s \in Sessions : req[q].s = s
  BY <1>1, LocalFacts
<1>3. \/ meta' = meta
      \/ /\ Exists(s)
         /\ \E st \in {"idle", "running"} : meta' = [meta EXCEPT ![s].status = st]
  BY <1>2 DEF BeginTurn, EndTurn, EndStatus
<1>4. CASE meta' = meta
  BY <1>1, <1>4, SameBranches
<1>5. ASSUME NEW st \in {"idle", "running"}, Exists(s), meta' = [meta EXCEPT ![s].status = st]
      PROVE  Resolves(t)'
  BY <1>1, <1>5, StatusFields
<1> QED
  BY <1>3, <1>4, <1>5

\* A branch that can be read can be read after any step but the removal of a log.
LEMMA ResolvesNext ==
  ASSUME AgentInv, LogsOK, [Next]_vars, NEW s \in Sessions,
         Exists(s), Resolves(s), Exists(s)', ~Resolves(s)'
  PROVE  \E q \in Requests : req[q].pc = "delete" /\ req'[q].pc = "unlink"
<1>1. TypeOK /\ TreeOK /\ StoreOK
  BY DEF AgentInv
<1>2. CASE UNCHANGED vars \/ Crash
  <2>1. UNCHANGED <<entries, log, meta>>
    BY <1>2 DEF vars, Crash
  <2> QED
    BY <2>1, SameBranches
<1>3. ASSUME NEW q \in Requests, RequestArrives(q) \/ TurnStep(q)
      PROVE  FALSE
  <2>1. UNCHANGED <<entries, log>> /\ (meta' = meta \/ BeginTurn(q) \/ EndTurn(q))
    BY <1>1, <1>3, ArrivalFiles, TurnFiles
  <2>2. CASE meta' = meta
    BY <2>1, <2>2, SameBranches
  <2>3. CASE BeginTurn(q) \/ EndTurn(q)
    BY <1>1, <2>1, <2>3, StatusResolves
  <2> QED
    BY <2>1, <2>2, <2>3
<1>4. ASSUME NEW q \in Requests, AppendLog(q)
      PROVE  FALSE
  <2>1. PICK u \in Sessions : req[q].s = u
    BY <1>4, LocalFacts DEF AppendLog
  <2>2. Grows(entries, entries') /\ LeafRef(s)' = LeafRef(s)
    BY <1>4, <2>1, AppendLogTree DEF AppendLog, LeafRef
  <2> QED
    BY <1>1, <1>4, <2>2, AppendLogBranches, AppendLogFiles, StillResolves
<1>5. ASSUME NEW q \in Requests, NEW f \in Sessions, Fork(q, f)
      PROVE  FALSE
  <2>1. s # f
    BY <1>5 DEF Fork, Exists
  <2>2. LeafRef(s)' = LeafRef(s) /\ UNCHANGED <<entries, log>>
    BY <1>1, <1>5, <2>1 DEF Fork, LeafRef, TypeOK
  <2> QED
    BY <2>2, LeftAlone
<1>6. ASSUME NEW q \in Requests, DeleteMeta(q)
      PROVE  FALSE
  <2>1. s # req[q].s
    BY <1>1, <1>6 DEF DeleteMeta, TypeOK, Exists, NoMeta
  <2>2. LeafRef(s)' = LeafRef(s) /\ UNCHANGED <<entries, log>>
    BY <1>1, <1>6, <2>1 DEF DeleteMeta, LeafRef, TypeOK
  <2> QED
    BY <2>2, LeftAlone
<1>7. ASSUME NEW q \in Requests, AppendRefused(q) \/ DeleteRefused(q)
      PROVE  FALSE
  <2>1. UNCHANGED <<entries, log, meta>>
    BY <1>7 DEF AppendRefused, DeleteRefused
  <2> QED
    BY <2>1, SameBranches
<1>8. ASSUME NEW q \in Requests, StoreStep(q)
      PROVE  req[q].pc = "delete" /\ req'[q].pc = "unlink"
  BY <1>4, <1>5, <1>6, <1>7, <1>8, AppendMetaResolves, RewindResolves, DeleteLogFiles
     DEF StoreStep
<1> QED
  BY <1>2, <1>3, <1>8 DEF Next

-----------------------------------------------------------------------------
(* Theorems.                                                                *)

\* Every step keeps the invariant.
LEMMA NextInv ==
  ASSUME AgentInv, [Next]_vars
  PROVE  AgentInv'
<1>1. CASE UNCHANGED vars
  <2>1. /\ UNCHANGED <<entries, log, meta, reserved, req, sent, crashes, acked, interrupted>>
        /\ TypeOK /\ TreeOK /\ StoreOK /\ Exclusive /\ RunningOK /\ \A q \in Requests : RequestOK(q)
    BY <1>1 DEF vars, AgentInv
  <2>2. TypeOK' /\ Exclusive' /\ RunningOK'
    BY <2>1 DEF TypeOK, Exclusive, RunningOK
  <2>3. TreeOK' /\ StoreOK'
    BY <2>1, SameTree, SameBranches DEF StoreOK
  <2>4. ASSUME NEW q \in Requests
        PROVE  RequestOK(q)'
    <3>1. Grows(entries, entries')
      BY <2>1, EntryTypes DEF Grows
    <3>2. ASSUME NEW s \in Sessions, req[q].s = s
          PROVE  /\ HoldsTurn(req[q]) => s \in reserved'
                 /\ req[q].pc = "unlink" => s \notin reserved' /\ log'[s] = {}
                 /\ req[q].pc = "advance" => LeafRef(s)' = LeafRef(s) /\ Exists(s)'
                 /\ Runs(req[q]) =>
                      /\ meta'[s].status = "running"
                      /\ Branch(s)' = Branch(s)
                      /\ Resolves(s)' => Resolves(s)
      <4>1. InSession(q, s)
        BY <2>1, <3>2 DEF RequestOK
      <4> QED
        BY <2>1, <4>1, SameBranches DEF InSession, AdvanceOK
    <3> QED
      BY <2>1, <3>1, <3>2, OtherRequest
  <2> QED
    BY <2>2, <2>3, <2>4 DEF AgentInv
<1>2. CASE Crash
  BY <1>2, CrashKeeps
<1>3. ASSUME NEW q \in Requests, RequestArrives(q)
      PROVE  AgentInv'
  BY <1>3, RequestArrivesKeeps
<1>4. ASSUME NEW q \in Requests, TurnStep(q)
      PROVE  AgentInv'
  BY <1>4, ReserveKeeps, ReleaseKeeps, TellBeforeKeeps, SetUpKeeps, BeginTurnKeeps,
     BuildContextKeeps, PlanSummaryKeeps, PlanNothingKeeps, SummarizedKeeps, ReplyKeeps,
     RoundKeeps, ToolReturnsKeeps, EndTurnKeeps DEF TurnStep
<1>5. ASSUME NEW q \in Requests, StoreStep(q)
      PROVE  AgentInv'
  BY <1>5, AppendLogKeeps, AppendMetaKeeps, AppendRefusedKeeps, RewindKeeps, ForkKeeps,
     DeleteRefusedKeeps, DeleteLogKeeps, DeleteMetaKeeps DEF StoreStep
<1> QED
  BY <1>1, <1>2, <1>3, <1>4, <1>5 DEF Next

LEMMA AgentInvariant == Spec => []AgentInv
BY InitInv, NextInv, PTL DEF Spec

\* Every file and every request keeps its shape (session.py).
THEOREM ConversationTypes == Spec => []TypeOK
<1>1. AgentInv => TypeOK
  BY DEF AgentInv
<1> QED
  BY <1>1, AgentInvariant, PTL

\* An entry whose append returned stays on its conversation's branch until it is
\* rewound or deleted, and nothing is written to a conversation that is gone
\* (JsonlSessionRepository.append, delete_session).
THEOREM AppendedStays == Spec => []NothingLost
<1>1. AgentInv => NothingLost
  BY InvNothingLost
<1> QED
  BY <1>1, AgentInvariant, PTL

\* On every branch the messages of a turn are together (the reservation of a
\* session and the refusal to rewind it while a turn runs).
THEOREM TurnsStayTogether == Spec => []TurnsAreContiguous
<1>1. AgentInv => TurnsAreContiguous
  BY InvContiguous
<1> QED
  BY <1>1, AgentInvariant, PTL

\* A turn that is about to end leaves its question and an answer to it on a branch
\* that can be read (AgentCore.prompt).
THEOREM TurnsAreAnswered == Spec => []Answered
<1>1. AgentInv => Answered
  BY InvAnswered
<1> QED
  BY <1>1, AgentInvariant, PTL

\* A session shows running only while a turn runs in it, or after a crash took the
\* turn (AgentCore._begin, _end).
THEOREM RunningIsHonest == Spec => []RunningIsTrue
<1>1. AgentInv => RunningIsTrue
  BY InvRunning
<1> QED
  BY <1>1, AgentInvariant, PTL

\* What the provider is not sent of a branch is in a summary, as long as turns wrote
\* the summaries (compaction.py, plan_cut and live_start; context.py, _project).
THEOREM ContextHasEverything == Spec => []ContextIsWhole
<1>1. AgentInv => ContextIsWhole
  BY InvContext
<1> QED
  BY <1>1, AgentInvariant, PTL

\* A conversation changes only by what is asked of it: its branch grows by one
\* entry at its end, or is cut back to one of its entries; forks, deletions and
\* appends elsewhere do not reach it (JsonlSessionRepository.append, rewind, fork).
THEOREM ConversationsAreTheirOwn == Spec => BranchesAreTheirOwn
<1>1. ASSUME AgentInv, [Next]_vars
      PROVE  [\A s \in Sessions :
                Exists(s) /\ Exists(s)' /\ Branch(s)' # Branch(s) =>
                  \E q \in Requests :
                    /\ req[q].s = s
                    /\ \/ /\ req[q].pc = "advance"
                          /\ Branch(s)' = Branch(s) \cup {req[q].at.entry}
                          /\ \A e \in Branch(s) : e < req[q].at.entry
                       \/ /\ req[q].pc = "rewind"
                          /\ \E e \in Branch(s) : Branch(s)' = {f \in Branch(s) : f <= e}]_vars
  BY <1>1, BranchesChange DEF OwnChange
<1> QED
  BY <1>1, AgentInvariant, PTL DEF Spec, BranchesAreTheirOwn

\* What a user can read of a conversation stays readable until a log is removed:
\* an append cut in two by a crash, a rewind to before a fork, a late request and a
\* fork leave every reference on the way in the log of the session that it names
\* (JsonlSessionRepository.rewind, append, get_branch).
THEOREM ReadableStays == Spec => ReadableUntilDeleted
<1>1. Spec => []LogsOK
  <2>1. AgentInv /\ LogsOK /\ [Next]_vars => LogsOK'
    BY LogsNext
  <2> QED
    BY <2>1, LogsInit, AgentInvariant, PTL DEF Spec
<1>2. ASSUME AgentInv, LogsOK, [Next]_vars
      PROVE  [\A s \in Sessions :
                Exists(s) /\ Resolves(s) /\ Exists(s)' /\ ~Resolves(s)' =>
                  \E q \in Requests : req[q].pc = "delete" /\ req'[q].pc = "unlink"]_vars
  BY <1>2, ResolvesNext
<1> QED
  BY <1>1, <1>2, AgentInvariant, PTL DEF Spec, ReadableUntilDeleted

=============================================================================
