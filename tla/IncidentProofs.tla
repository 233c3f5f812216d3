--------------------------- MODULE IncidentProofs ---------------------------
(***************************************************************************)
(* Proofs about IncidentStore, for any sources, texts, releases, scores    *)
(* and bounds.  The argument is about the tables as a value: Sound says    *)
(* what a transaction may rely on, and each of the operations that change  *)
(* them, a deletion, a cleanup, the recording of an event, the merging at  *)
(* start, takes a sound value to a sound value.  A batch is a fold, so     *)
(* its result is sound by induction on its events.                         *)
(***************************************************************************)
EXTENDS IncidentStore, InductionFacts

Event == [src : Sources, text : Texts, seq : Nat, time : Nat]
Fingerprint == [src : Sources, time : Nat, seq : Nat, text : Texts]
Occurrence == [key : Fingerprint, incident : Nat, time : Nat]
Table == [inc : SUBSET Incident, occ : SUBSET Occurrence, made : Nat]

In(t, i) == {o \in t.occ : o.incident = i.id}

\* The parts of Sound.  An id is used once, even after a deletion.
Finite(t) == IsFiniteSet(t.inc) /\ IsFiniteSet(t.occ)
Identified(t) ==
    /\ \A i, j \in t.inc : i.id = j.id => i = j
    /\ \A i \in t.inc : i.id <= t.made
Distinct(t) == \A o, p \in t.occ : o.key = p.key => o = p
Owned(t) == \A o \in t.occ : \E i \in t.inc : o.incident = i.id /\ o.key.src = i.src
Stamped(t) == \A o \in t.occ : o.time = o.key.time
Counting(t) == \A i \in t.inc : i.count = Cardinality(In(t, i))
Normalised(t, v) == \A i \in t.inc : i.norm = Normal[v][i.text]
Grouping(t) == \A i, j \in t.inc : i.src = j.src /\ i.norm = j.norm => i = j
Spanning(t) ==
    \A i \in t.inc :
        /\ \E o \in In(t, i) : o.time = i.first
        /\ \E o \in In(t, i) : o.time = i.last
        /\ \A o \in In(t, i) : i.first <= o.time /\ o.time <= i.last
Near(t, v) ==
    \A i \in t.inc : \A o \in In(t, i) :
        Normal[v][o.key.text] # i.norm =>
            \E p \in In(t, i) \ {o} : Distance(p.time, o.time) <= Window

Sound(t, v) ==
    /\ Finite(t) /\ Identified(t) /\ Distinct(t) /\ Owned(t) /\ Stamped(t)
    /\ Counting(t) /\ Normalised(t, v) /\ Grouping(t) /\ Spanning(t) /\ Near(t, v)

-----------------------------------------------------------------------------
(* Deletions.                                                              *)

(* Deleting rows with the cascade to their occurrences keeps the tables    *)
(* sound: what remains of a group is all of it.                            *)
LEMMA WithoutSound ==
  ASSUME NEW t \in Table, NEW v, Sound(t, v), NEW gone \in SUBSET t.inc
  PROVE  /\ Without(t, gone) \in Table
         /\ Sound(Without(t, gone), v)
         /\ Without(t, gone).occ \subseteq t.occ
  <1> DEFINE u == Without(t, gone)
  <1>1. /\ u.inc = t.inc \ gone
        /\ u.occ = {o \in t.occ : \A i \in gone : o.incident # i.id}
        /\ u.made = t.made
        /\ u \in Table
    BY DEF Without, Table
  <1> HIDE DEF u
  <1>2. ASSUME NEW i \in u.inc PROVE In(u, i) = In(t, i)
    <2>1. \A j \in gone : j.id # i.id
      BY <1>1 DEF Sound, Identified
    <2>2. QED
      BY <1>1, <2>1 DEF In
  <1>3. Finite(u)
    BY <1>1, FS_Subset DEF Sound, Finite
  <1>4. Identified(u) /\ Distinct(u) /\ Stamped(u) /\ Normalised(u, v) /\ Grouping(u)
    BY <1>1 DEF Sound, Identified, Distinct, Stamped, Normalised, Grouping
  <1>5. Owned(u)
    BY <1>1 DEF Sound, Owned
  <1>6. Counting(u) /\ Spanning(u)
    BY <1>1, <1>2 DEF Sound, Counting, Spanning
  <1>7. Near(u, v)
    BY <1>1, <1>2 DEF Sound, Near
  <1>8. Sound(u, v)
    BY <1>3, <1>4, <1>5, <1>6, <1>7 DEF Sound
  <1>9. QED
    BY <1>1, <1>8 DEF u

-----------------------------------------------------------------------------
(* One event.                                                              *)

(* The best candidate is one at most: a better one is not as good.         *)
LEMMA OneBest ==
  ASSUME NEW t \in Table, NEW e \in Event, release \in Releases,
         NEW b \in Best(t, e)
  PROVE  /\ Best(t, e) = {b}
         /\ b \in t.inc
         /\ b.src = e.src
         /\ b.norm # Norm(e.text) =>
                Exact(t, e) = {} /\ Distance(b.last, e.time) <= Window
  <1>1. Norm(e.text) \in Texts
    BY NormalAssumption DEF Norm, Event
  <1>2. \A i \in t.inc : i \in Incident
    BY DEF Table
  <1>3. ASSUME NEW i \in t.inc, NEW j \in t.inc, Better(i, j, e), Better(j, i, e) PROVE FALSE
    <2>1. /\ i.last \in Nat /\ j.last \in Nat /\ i.id \in Nat /\ j.id \in Nat
          /\ i.norm \in Texts /\ j.norm \in Texts
      BY <1>2 DEF Incident
    <2>2. Score[Norm(e.text)][i.norm] \in Nat /\ Score[Norm(e.text)][j.norm] \in Nat
      <3>1. 0..100 \subseteq Nat
        OBVIOUS
      <3> HIDE DEF Better
      <3>2. QED
        BY <1>1, <2>1, <3>1, ScoreAssumption
    <2>3. QED
      BY <1>3, <2>1, <2>2 DEF Better
  <1>4. Best(t, e) \subseteq t.inc
    BY DEF Best, Exact, Similar
  <1>5. ASSUME NEW i \in Best(t, e), i # b PROVE FALSE
    <2>1. Better(i, b, e) /\ Better(b, i, e)
      BY <1>5 DEF Best
    <2>2. QED
      BY <1>3, <1>4, <2>1
  <1>6. Best(t, e) = {b}
    BY <1>5
  <1>7. QED
    BY <1>4, <1>6 DEF Best, Exact, Similar

(* Without a candidate there is no group of the same message.              *)
LEMMA NoBest ==
  ASSUME NEW t \in Table, NEW e, Sound(t, release), Best(t, e) = {}
  PROVE  Exact(t, e) = {}
  <1> SUFFICES ASSUME NEW x \in Exact(t, e) PROVE FALSE
    OBVIOUS
  <1>1. Exact(t, e) = {x}
    BY DEF Sound, Grouping, Exact
  <1>2. x \in Best(t, e)
    BY <1>1 DEF Best
  <1>3. QED
    BY <1>2

(* A group that is new: nothing refers to its id yet.                      *)
LEMMA NewSound ==
  ASSUME NEW t \in Table, Sound(t, release), release \in Releases, NEW e \in Event,
         NEW kind \in {"error", "keyword"}, Exact(t, e) = {},
         \A o \in t.occ : o.key # Key(e),
         NEW i, i = New(t, e, kind),
         NEW o, o = [key |-> Key(e), incident |-> i.id, time |-> e.time],
         NEW u, u = [inc |-> t.inc \cup {i}, occ |-> t.occ \cup {o}, made |-> i.id]
  PROVE  u \in Table /\ Sound(u, release)
  <1>1. /\ Norm(e.text) \in Texts
        /\ e.src \in Sources /\ e.text \in Texts /\ e.seq \in Nat /\ e.time \in Nat
    BY NormalAssumption DEF Norm, Event
  <1>2. t.inc \subseteq Incident /\ t.occ \subseteq Occurrence /\ t.made \in Nat
    BY DEF Table
  <1>3. /\ i.id = t.made + 1 /\ i.src = e.src /\ i.text = e.text /\ i.norm = Norm(e.text)
        /\ i.first = e.time /\ i.last = e.time /\ i.count = 1 /\ i \in Incident
    BY <1>1, <1>2 DEF New, Incident
  <1>4. /\ o.key = Key(e) /\ o.incident = i.id /\ o.time = e.time
        /\ o.key.src = e.src /\ o.key.time = e.time /\ o.key.text = e.text
        /\ o \in Occurrence
    BY <1>1, <1>3, <1>2 DEF Key, Occurrence, Fingerprint, Incident
  <1>5. u.inc = t.inc \cup {i} /\ u.occ = t.occ \cup {o} /\ u.made = t.made + 1 /\ u \in Table
    BY <1>2, <1>3, <1>4 DEF Table
  <1>6. \A j \in t.inc : j.id \in Nat /\ j.id <= t.made
    BY <1>2 DEF Sound, Identified, Incident
  <1>7. In(u, i) = {o}
    BY <1>2, <1>3, <1>4, <1>5, <1>6 DEF In, Sound, Owned
  <1>8. \A j \in t.inc : In(u, j) = In(t, j)
    BY <1>2, <1>3, <1>4, <1>5, <1>6 DEF In
  <1>9. Finite(u)
    BY <1>5, FS_AddElement DEF Finite, Sound
  <1>10. Identified(u)
    BY <1>2, <1>3, <1>5, <1>6 DEF Identified, Sound
  <1>11. Distinct(u) /\ Owned(u) /\ Stamped(u)
    BY <1>3, <1>4, <1>5 DEF Distinct, Owned, Stamped, Sound
  <1>12. Counting(u)
    <2>1. Cardinality({o}) = 1
      BY FS_Singleton
    <2>2. QED
      BY <1>3, <1>5, <1>7, <1>8, <2>1, ZenonT(30) DEF Counting, Sound
  <1>13. Normalised(u, release) /\ Grouping(u)
    BY <1>3, <1>5 DEF Normalised, Grouping, Sound, Exact, Norm
  <1>14. Spanning(u)
    <2>1. /\ \E p \in In(u, i) : p.time = i.first
          /\ \E p \in In(u, i) : p.time = i.last
          /\ \A p \in In(u, i) : i.first <= p.time /\ p.time <= i.last
      <3>1. o \in In(u, i) /\ o.time = i.first /\ o.time = i.last /\ i.first \in Nat
        BY <1>1, <1>3, <1>4, <1>7
      <3>2. \A p \in In(u, i) : p = o
        BY <1>7
      <3>3. o.time <= o.time
        BY <3>1
      <3>4. \A p \in In(u, i) : i.first <= p.time /\ p.time <= i.last
        BY <3>1, <3>2, <3>3
      <3>5. QED
        BY <3>1, <3>4
    <2>2. \A j \in t.inc :
             /\ \E p \in In(u, j) : p.time = j.first
             /\ \E p \in In(u, j) : p.time = j.last
             /\ \A p \in In(u, j) : j.first <= p.time /\ p.time <= j.last
      BY <1>8 DEF Spanning, Sound
    <2>3. \A j \in u.inc : j \in t.inc \/ j = i
      BY <1>5
    <2>4. QED
      BY <2>1, <2>2, <2>3, ZenonT(30) DEF Spanning
  <1>15. Near(u, release)
    <2> SUFFICES ASSUME NEW k \in u.inc, NEW x \in In(u, k), Normal[release][x.key.text] # k.norm
                 PROVE  \E q \in In(u, k) \ {x} : Distance(q.time, x.time) <= Window
      BY DEF Near
    <2>1. \A p \in In(u, i) : Normal[release][p.key.text] = i.norm
      BY <1>3, <1>4, <1>7 DEF Norm
    <2>2. \A j \in t.inc : \A p \in In(u, j) :
             Normal[release][p.key.text] # j.norm =>
                 \E q \in In(u, j) \ {p} : Distance(q.time, p.time) <= Window
      BY <1>8 DEF Near, Sound
    <2>3. \A j \in u.inc : j \in t.inc \/ j = i
      BY <1>5
    <2>4. QED
      BY <2>1, <2>2, <2>3, ZenonT(30)
  <1>16. QED
    BY <1>5, <1>9, <1>10, <1>11, <1>12, <1>13, <1>14, <1>15 DEF Sound

(* An event that joins a group: its span grows to hold it, and if the      *)
(* message differs its last occurrence is close.                           *)
LEMMA GroupedSound ==
  ASSUME NEW t \in Table, Sound(t, release), release \in Releases, NEW e \in Event,
         NEW kind \in {"error", "keyword"}, NEW b \in Best(t, e),
         \A o \in t.occ : o.key # Key(e),
         NEW i, i = Grouped(b, e, kind),
         NEW o, o = [key |-> Key(e), incident |-> i.id, time |-> e.time],
         NEW u, u = [inc |-> (t.inc \ {b}) \cup {i}, occ |-> t.occ \cup {o}, made |-> t.made]
  PROVE  u \in Table /\ Sound(u, release)
  <1>1. /\ Norm(e.text) \in Texts
        /\ e.src \in Sources /\ e.text \in Texts /\ e.seq \in Nat /\ e.time \in Nat
    BY NormalAssumption DEF Norm, Event
  <1>2. t.inc \subseteq Incident /\ t.occ \subseteq Occurrence /\ t.made \in Nat
    BY DEF Table
  <1>3. /\ b \in t.inc /\ b \in Incident /\ b.src = e.src
        /\ b.norm # Norm(e.text) => Distance(b.last, e.time) <= Window
    BY <1>2, OneBest
  <1>4. /\ b.first \in Nat /\ b.last \in Nat /\ b.count \in Nat /\ b.id \in Nat
        /\ b = [id |-> b.id, src |-> b.src, text |-> b.text, norm |-> b.norm,
                first |-> b.first, last |-> b.last, count |-> b.count, kind |-> b.kind]
        /\ b.kind \in {"error", "keyword"}
    BY <1>3 DEF Incident
  <1>5. /\ Min({b.first, e.time}) \in {b.first, e.time}
        /\ Min({b.first, e.time}) <= b.first
        /\ Min({b.first, e.time}) <= e.time
    <2>1. {b.first, e.time} \in SUBSET Nat /\ {b.first, e.time} # {}
      BY <1>1, <1>4
    <2>2. QED
      BY <2>1, MinIsLeast
  <1>6. /\ Max({b.last, e.time}) \in {b.last, e.time}
        /\ Max({b.last, e.time}) >= b.last
        /\ Max({b.last, e.time}) >= e.time
    <2>1. {b.last, e.time} \in SUBSET Nat /\ {b.last, e.time} # {}
      BY <1>1, <1>4
    <2>2. IsFiniteSet({b.last, e.time})
      <3>1. {b.last, e.time} = {b.last} \cup {e.time}
        OBVIOUS
      <3>2. QED
        <4>1. IsFiniteSet({b.last})
          BY FS_Singleton
        <4>2. IsFiniteSet({b.last} \cup {e.time})
          BY <4>1, FS_AddElement
        <4>3. QED
          BY <3>1, <4>2
    <2>3. QED
      BY <2>1, <2>2, MaxIsGreatest
  <1> DEFINE first == Min({b.first, e.time})
             last == Max({b.last, e.time})
  <1>7. /\ i.id = b.id /\ i.src = b.src /\ i.text = b.text /\ i.norm = b.norm
        /\ i.first = first /\ i.last = last /\ i.count = b.count + 1 /\ i \in Incident
    <2>1. i = [id |-> b.id, src |-> b.src, text |-> b.text, norm |-> b.norm,
               first |-> first, last |-> last, count |-> b.count + 1,
               kind |-> IF kind = "error" THEN "error" ELSE b.kind]
      BY <1>4 DEF Grouped
    <2>2. first \in Nat /\ last \in Nat
      BY <1>1, <1>4, <1>5, <1>6
    <2> HIDE DEF first, last
    <2>3. QED
      BY <1>3, <1>4, <2>1, <2>2 DEF Incident
  <1>8. /\ first <= b.first /\ first <= e.time /\ b.last <= last /\ e.time <= last
        /\ first \in {b.first, e.time} /\ last \in {b.last, e.time}
        /\ first \in Nat /\ last \in Nat
    BY <1>1, <1>4, <1>5, <1>6
  <1> HIDE DEF first, last
  <1>9. /\ o.key = Key(e) /\ o.incident = i.id /\ o.time = e.time
        /\ o.key.src = e.src /\ o.key.time = e.time /\ o.key.text = e.text
        /\ o \in Occurrence
    BY <1>1, <1>4, <1>7 DEF Key, Occurrence, Fingerprint
  <1>10. /\ u.inc = (t.inc \ {b}) \cup {i} /\ u.occ = t.occ \cup {o} /\ u.made = t.made
         /\ u \in Table
    BY <1>2, <1>7, <1>9 DEF Table
  <1>11. In(u, i) = In(t, b) \cup {o} /\ o \notin t.occ
    BY <1>7, <1>9, <1>10 DEF In
  <1>12. \A j \in t.inc \ {b} : In(u, j) = In(t, j)
    BY <1>3, <1>7, <1>9, <1>10 DEF In, Sound, Identified
  <1>13. \A p \in t.occ : p.time \in Nat
    BY <1>2 DEF Occurrence
  <1>14. Finite(u)
    <2>1. IsFiniteSet(t.inc \ {b}) /\ IsFiniteSet(t.occ)
      BY FS_RemoveElement DEF Finite, Sound
    <2>2. IsFiniteSet((t.inc \ {b}) \cup {i}) /\ IsFiniteSet(t.occ \cup {o})
      BY <2>1, FS_AddElement
    <2>3. QED
      BY <1>10, <2>2 DEF Finite
  <1>15. Identified(u)
    BY <1>3, <1>7, <1>10 DEF Identified, Sound
  <1>16. Distinct(u) /\ Owned(u) /\ Stamped(u)
    BY <1>3, <1>7, <1>9, <1>10 DEF Distinct, Owned, Stamped, Sound
  <1>17. Counting(u)
    <2>1. IsFiniteSet(In(t, b))
      BY FS_Subset DEF In, Finite, Sound
    <2>2. o \notin In(t, b)
      BY <1>11 DEF In
    <2>3. Cardinality(In(u, i)) = Cardinality(In(t, b)) + 1
      <3>1. Cardinality(In(t, b) \cup {o}) = Cardinality(In(t, b)) + 1
        BY <2>1, <2>2, FS_AddElement
      <3>2. QED
        BY <1>11, <3>1
    <2>4. QED
      BY <1>3, <1>7, <1>10, <1>12, <2>3 DEF Counting, Sound
  <1>18. Normalised(u, release) /\ Grouping(u)
    BY <1>3, <1>7, <1>10 DEF Normalised, Grouping, Sound
  <1>19. Spanning(u)
    <2>1. /\ \E p \in In(t, b) : p.time = b.first
          /\ \E p \in In(t, b) : p.time = b.last
          /\ \A p \in In(t, b) : b.first <= p.time /\ p.time <= b.last /\ p.time \in Nat
      BY <1>3, <1>13 DEF Spanning, Sound, In
    <2>2. /\ \E p \in In(u, i) : p.time = i.first
          /\ \E p \in In(u, i) : p.time = i.last
      BY <1>7, <1>8, <1>9, <1>11, <2>1
    <2>3. \A p \in In(u, i) : i.first <= p.time /\ p.time <= i.last
      BY <1>1, <1>4, <1>7, <1>8, <1>9, <1>11, <2>1
    <2>4. \A j \in t.inc \ {b} :
             /\ \E p \in In(u, j) : p.time = j.first
             /\ \E p \in In(u, j) : p.time = j.last
             /\ \A p \in In(u, j) : j.first <= p.time /\ p.time <= j.last
      BY <1>12 DEF Spanning, Sound
    <2>5. QED
      BY <1>10, <2>2, <2>3, <2>4, ZenonT(30) DEF Spanning
  <1>20. Near(u, release)
    <2> SUFFICES ASSUME NEW k \in u.inc, NEW x \in In(u, k), Normal[release][x.key.text] # k.norm
                 PROVE  \E q \in In(u, k) \ {x} : Distance(q.time, x.time) <= Window
      BY DEF Near
    <2>1. ASSUME Normal[release][o.key.text] # i.norm
          PROVE  \E p \in In(u, i) \ {o} : Distance(p.time, o.time) <= Window
      <3>1. Distance(b.last, e.time) <= Window
        BY <1>3, <1>7, <1>9, <2>1 DEF Norm
      <3>2. PICK p \in In(t, b) : p.time = b.last
        BY <1>3 DEF Spanning, Sound
      <3>3. p \in t.occ
        BY DEF In
      <3>4. QED
        BY <1>9, <1>11, <3>1, <3>2, <3>3
    <2>2. ASSUME NEW p \in In(t, b), Normal[release][p.key.text] # i.norm
          PROVE  \E q \in In(u, i) \ {p} : Distance(q.time, p.time) <= Window
      BY <1>3, <1>7, <1>11, <2>2 DEF Near, Sound
    <2>3. \A p \in In(u, i) : Normal[release][p.key.text] # i.norm =>
              \E q \in In(u, i) \ {p} : Distance(q.time, p.time) <= Window
      BY <1>11, <2>1, <2>2
    <2>4. \A j \in t.inc \ {b} : \A p \in In(u, j) :
             Normal[release][p.key.text] # j.norm =>
                 \E q \in In(u, j) \ {p} : Distance(q.time, p.time) <= Window
      BY <1>12 DEF Near, Sound
    <2>5. \A j \in u.inc : j \in t.inc \ {b} \/ j = i
      BY <1>10
    <2>6. QED
      BY <2>3, <2>4, <2>5, ZenonT(30)
  <1>21. QED
    BY <1>10, <1>14, <1>15, <1>16, <1>17, <1>18, <1>19, <1>20 DEF Sound

(* An event that is recorded keeps the tables sound, and adds at most its  *)
(* own fingerprint.                                                        *)
LEMMA RecordSound ==
  ASSUME NEW t \in Table, Sound(t, release), release \in Releases, NEW e \in Event, NEW batch
  PROVE  /\ RecordOne(t, e, batch) \in Table
         /\ Sound(RecordOne(t, e, batch), release)
         /\ \A o \in RecordOne(t, e, batch).occ : o \in t.occ \/ o.key = Key(e)
  <1> DEFINE kind == Classify(e.text, batch.keyed)
             best == Best(t, e)
             i == IF best = {} THEN New(t, e, kind) ELSE Grouped(CHOOSE b \in best : TRUE, e, kind)
             o == [key |-> Key(e), incident |-> i.id, time |-> e.time]
             next == [inc |-> (t.inc \ best) \cup {i}, occ |-> t.occ \cup {o},
                      made |-> IF best = {} THEN i.id ELSE t.made]
             skips == \/ kind = "none"
                      \/ e.time + batch.hours < now
                      \/ \E p \in t.occ : p.key = Key(e)
  <1>1. RecordOne(t, e, batch) = IF skips THEN t ELSE next
    BY DEF RecordOne
  <1>2. CASE skips
    BY <1>1, <1>2
  <1>3. CASE ~ skips
    <2>1. kind \in {"error", "keyword"} /\ \A p \in t.occ : p.key # Key(e)
      BY <1>3 DEF Classify
    <2>2. next \in Table /\ Sound(next, release)
      <3>1. CASE best = {}
        <4>1. Exact(t, e) = {}
          BY <3>1, NoBest
        <4>2. next = [inc |-> t.inc \cup {i}, occ |-> t.occ \cup {o}, made |-> i.id]
          BY <3>1
        <4>3. i = New(t, e, kind)
          BY <3>1
        <4> HIDE DEF next, i, kind
        <4>4. QED
          BY <2>1, <4>1, <4>2, <4>3, NewSound
      <3>2. CASE best # {}
        <4>1. PICK b \in best : b = CHOOSE x \in best : TRUE
          BY <3>2
        <4>2. best = {b}
          BY <4>1, OneBest
        <4>3. i = Grouped(b, e, kind)
          BY <3>2, <4>1
        <4>4. next = [inc |-> (t.inc \ {b}) \cup {i}, occ |-> t.occ \cup {o}, made |-> t.made]
          BY <4>2
        <4> HIDE DEF next, i, kind
        <4>5. QED
          BY <2>1, <4>1, <4>3, <4>4, GroupedSound
      <3>3. QED
        BY <3>1, <3>2
    <2>3. \A p \in next.occ : p \in t.occ \/ p.key = Key(e)
      OBVIOUS
    <2> HIDE DEF next, skips
    <2>4. QED
      BY <1>1, <1>3, <2>2, <2>3
  <1>4. QED
    BY <1>2, <1>3

-----------------------------------------------------------------------------
(* The merging at start.                                                   *)

\* Sound, but for the groups that the new release makes alike.
Kept(t, v) ==
    /\ Finite(t) /\ Identified(t) /\ Distinct(t) /\ Owned(t) /\ Stamped(t)
    /\ Counting(t) /\ Normalised(t, v) /\ Spanning(t) /\ Near(t, v)

\* The two passes of the migration, the second with its parts named.
Rename(t, v) == [t EXCEPT !.inc = Renamed(t, v)]
Row(t, o) == CHOOSE i \in t.inc : i.id = o.incident
Chief(t, i) == Keeper(Alike(t.inc, i))
Moved(t, o) == [o EXCEPT !.incident = Chief(t, Row(t, o)).id]
Unite(t) == [t EXCEPT !.inc = {United(Alike(t.inc, i)) : i \in t.inc},
                      !.occ = {Moved(t, o) : o \in t.occ}]

(* What a later release normalises alike it keeps alike: an occurrence     *)
(* that differs from its group already did.                                *)
LEMMA RenamedKept ==
  ASSUME NEW t \in Table, NEW v \in Releases, NEW w \in Releases, v <= w, Sound(t, v)
  PROVE  Rename(t, w) \in Table /\ Kept(Rename(t, w), w)
  <1> DEFINE u == Rename(t, w)
             new(i) == [i EXCEPT !.norm = Normal[w][i.text]]
  <1>1. u.inc = {new(i) : i \in t.inc} /\ u.occ = t.occ /\ u.made = t.made
    BY DEF Rename, Renamed, Table
  <1>2. u = [inc |-> u.inc, occ |-> u.occ, made |-> u.made]
    BY DEF Rename, Table
  <1>3. t.inc \subseteq Incident /\ t.occ \subseteq Occurrence /\ t.made \in Nat
    BY DEF Table
  <1>4. \A i \in t.inc :
          /\ new(i) \in Incident
          /\ new(i).id = i.id /\ new(i).src = i.src /\ new(i).text = i.text
          /\ new(i).first = i.first /\ new(i).last = i.last /\ new(i).count = i.count
          /\ new(i).norm = Normal[w][i.text]
    <2> SUFFICES ASSUME NEW i \in t.inc
                 PROVE  /\ new(i) \in Incident
                        /\ new(i).id = i.id /\ new(i).src = i.src /\ new(i).text = i.text
                        /\ new(i).first = i.first /\ new(i).last = i.last
                        /\ new(i).count = i.count /\ new(i).norm = Normal[w][i.text]
      OBVIOUS
    <2>1. i \in Incident
      BY <1>3
    <2>2. Normal[w][i.text] \in Texts
      BY <2>1, NormalAssumption DEF Incident
    <2>3. QED
      BY <2>1, <2>2 DEF Incident
  <1> HIDE DEF u, new
  <1>5. u \in Table
    BY <1>1, <1>2, <1>3, <1>4 DEF Table
  <1>6. \A i \in t.inc : In(u, new(i)) = In(t, i)
    BY <1>1, <1>4 DEF In
  <1>7. Finite(u)
    <2> DEFINE f == [i \in t.inc |-> new(i)]
    <2>1. f = [i \in t.inc |-> f[i]] /\ DOMAIN f = t.inc
      OBVIOUS
    <2>2. \A i, j \in t.inc : f[i] = f[j] => i = j
      BY <1>4 DEF Sound, Identified
    <2>3. {f[i] : i \in t.inc} = u.inc
      BY <1>1
    <2> HIDE DEF f
    <2>4. /\ IsFiniteSet({f[i] : i \in t.inc})
          /\ Cardinality({f[i] : i \in t.inc}) = Cardinality(t.inc)
      <3>1. IsFiniteSet(t.inc)
        BY DEF Sound, Finite
      <3>2. QED
        BY <2>1, <2>2, <3>1, ImageCounts, SMTT(30)
    <2>5. QED
      BY <1>1, <2>3, <2>4 DEF Finite, Sound
  <1>8. Identified(u)
    BY <1>1, <1>4 DEF Sound, Identified
  <1>9. Distinct(u) /\ Stamped(u)
    BY <1>1 DEF Sound, Distinct, Stamped
  <1>10. Owned(u)
    BY <1>1, <1>4 DEF Sound, Owned
  <1>11. Counting(u) /\ Spanning(u)
    BY <1>1, <1>4, <1>6 DEF Sound, Counting, Spanning
  <1>12. Normalised(u, w)
    BY <1>1, <1>4 DEF Sound, Normalised
  <1>13. Near(u, w)
    <2> SUFFICES ASSUME NEW i \in t.inc, NEW o \in In(t, i),
                        Normal[w][o.key.text] # new(i).norm
                 PROVE  \E p \in In(t, i) \ {o} : Distance(p.time, o.time) <= Window
      BY <1>1, <1>6 DEF Near
    <2>1. Normal[w][o.key.text] # Normal[w][i.text]
      BY <1>4
    <2>2. i.text \in Texts /\ o.key.text \in Texts
      BY <1>3 DEF Incident, In, Occurrence, Fingerprint
    <2>3. Normal[v][o.key.text] # Normal[v][i.text]
      BY <2>1, <2>2, MergingAssumption
    <2>4. QED
      BY <2>3 DEF Sound, Near, Normalised
  <1>14. QED
    BY <1>5, <1>7, <1>8, <1>9, <1>10, <1>11, <1>12, <1>13 DEF Kept, u

(* A group has a latest row, and of those the one with the least id.       *)
LEMMA KeeperInGroup ==
  ASSUME NEW G \in SUBSET Incident, IsFiniteSet(G), G # {}
  PROVE  Keeper(G) \in G
  <1>1. \A i \in G : i.last \in Nat /\ i.id \in Nat
    BY DEF Incident
  <1>2. PICK m \in G : \A j \in G : j.last <= m.last
    <2> DEFINE Q == {T \in SUBSET G : T # {} => \E n \in T : \A j \in T : j.last <= n.last}
    <2>1. {} \in Q
      OBVIOUS
    <2>2. ASSUME NEW T \in SUBSET G, NEW x \in G, T \in Q, x \notin T PROVE T \cup {x} \in Q
      <3>1. CASE T = {}
        <4>1. T \cup {x} = {x} /\ x.last <= x.last
          BY <1>1, <3>1
        <4>2. QED
          BY <4>1
      <3>2. CASE T # {}
        <4>1. PICK n \in T : \A j \in T : j.last <= n.last
          BY <2>2, <3>2
        <4>2. CASE x.last <= n.last
          BY <4>1, <4>2
        <4>3. CASE ~ (x.last <= n.last)
          <5>1. \A j \in T \cup {x} : j.last <= x.last
            BY <1>1, <4>1, <4>3
          <5>2. QED
            BY <5>1
        <4>4. QED
          BY <4>2, <4>3
      <3>3. QED
        BY <3>1, <3>2
    <2> HIDE DEF Q
    <2>3. SUBSET G \subseteq Q
      BY <2>1, <2>2, SubsetInduction
    <2>4. G \in Q
      BY <2>3
    <2>5. QED
      BY <2>4 DEF Q
  <1> DEFINE ids == {i.id : i \in {j \in G : j.last = m.last}}
  <1>3. ids \in SUBSET Nat /\ ids # {}
    BY <1>1
  <1>4. PICK n \in ids : \A k \in ids : n <= k
    BY <1>3, LeastNumber
  <1>5. PICK k \in G : k.last = m.last /\ k.id = n
    BY <1>4
  <1>6. \A j \in G : k.last > j.last \/ (k.last = j.last /\ k.id <= j.id)
    BY <1>1, <1>2, <1>4, <1>5
  <1>7. QED
    BY <1>6 DEF Keeper

(* The groups become one each.  Its occurrences are those of the rows it   *)
(* is made of, which have none in common, so the counts add up.            *)
LEMMA UniteSound ==
  ASSUME NEW t \in Table, NEW v, Kept(t, v)
  PROVE  Unite(t) \in Table /\ Sound(Unite(t), v)
  <1> DEFINE u == Unite(t)
             G(i) == Alike(t.inc, i)
             U(i) == United(G(i))
             M(j) == {Moved(t, o) : o \in In(t, j)}
  <1>1. /\ u.inc = {U(i) : i \in t.inc}
        /\ u.occ = {Moved(t, o) : o \in t.occ}
        /\ u.made = t.made
        /\ u = [inc |-> u.inc, occ |-> u.occ, made |-> u.made]
    <2>1. t = [inc |-> t.inc, occ |-> t.occ, made |-> t.made]
      BY DEF Table
    <2> DEFINE incs == {U(i) : i \in t.inc}
               occs == {Moved(t, o) : o \in t.occ}
    <2>2. u = [t EXCEPT !.inc = incs, !.occ = occs]
      BY DEF Unite
    <2>3. /\ u.inc = incs /\ u.occ = occs /\ u.made = t.made
          /\ u = [inc |-> u.inc, occ |-> u.occ, made |-> u.made]
      <3> HIDE DEF incs, occs, u
      <3>1. u = [inc |-> incs, occ |-> occs, made |-> t.made]
        BY <2>1, <2>2
      <3>2. QED
        BY <3>1
    <2> HIDE DEF u
    <2>4. QED
      BY <2>3
  <1>2. t.inc \subseteq Incident /\ t.occ \subseteq Occurrence /\ t.made \in Nat
    BY DEF Table
  <1>3. IsFiniteSet(t.inc) /\ IsFiniteSet(t.occ)
    BY DEF Kept, Finite
  <1> HIDE DEF u
  <1>4. ASSUME NEW i \in t.inc
        PROVE  /\ i \in G(i) /\ G(i) \subseteq t.inc /\ IsFiniteSet(G(i))
               /\ Chief(t, i) \in G(i)
               /\ \A j \in G(i) : j.src = i.src /\ j.norm = i.norm /\ G(j) = G(i)
    <2>1. i \in G(i) /\ G(i) \subseteq t.inc
      BY DEF Alike
    <2>2. IsFiniteSet(G(i))
      BY <1>3, <2>1, FS_Subset
    <2>3. Chief(t, i) \in G(i)
      <3>1. G(i) \in SUBSET Incident /\ G(i) # {}
        BY <1>2, <2>1
      <3> HIDE DEF G
      <3>2. Keeper(G(i)) \in G(i)
        BY <2>2, <3>1, KeeperInGroup
      <3>3. QED
        BY <3>2 DEF Chief, G
    <2>4. \A j \in G(i) : j.src = i.src /\ j.norm = i.norm /\ G(j) = G(i)
      BY DEF Alike
    <2>5. QED
      BY <2>1, <2>2, <2>3, <2>4
  <1>5. ASSUME NEW o \in t.occ
        PROVE  /\ Row(t, o) \in t.inc /\ Row(t, o).id = o.incident
               /\ o.key.src = Row(t, o).src
               /\ o \in In(t, Row(t, o))
               /\ \A i \in t.inc : o \in In(t, i) => i = Row(t, o)
    <2>1. PICK i \in t.inc : o.incident = i.id /\ o.key.src = i.src
      BY DEF Kept, Owned
    <2>2. \A j \in t.inc : j.id = o.incident => j = i
      BY <2>1 DEF Kept, Identified
    <2>3. Row(t, o) = i
      BY <2>1, <2>2 DEF Row
    <2>4. QED
      BY <2>1, <2>2, <2>3 DEF In
  <1>6. ASSUME NEW o \in t.occ
        PROVE  /\ Moved(t, o).key = o.key /\ Moved(t, o).time = o.time
               /\ Moved(t, o).incident = Chief(t, Row(t, o)).id
               /\ Moved(t, o) \in Occurrence
    <2>1. o \in Occurrence /\ Chief(t, Row(t, o)) \in Incident
      BY <1>2, <1>4, <1>5
    <2>2. QED
      BY <2>1 DEF Moved, Occurrence, Incident
  <1>7. \A o, p \in t.occ : Moved(t, o) = Moved(t, p) => o = p
    BY <1>6 DEF Kept, Distinct
  <1>8. ASSUME NEW j \in t.inc
        PROVE  /\ M(j) \subseteq u.occ
               /\ IsFiniteSet(M(j)) /\ Cardinality(M(j)) = j.count
    <2>1. In(t, j) \subseteq t.occ
      BY DEF In
    <2>2. IsFiniteSet(In(t, j)) /\ Cardinality(In(t, j)) = j.count
      <3>1. IsFiniteSet(In(t, j))
        BY <1>3, <2>1, FS_Subset
      <3>2. QED
        BY <3>1 DEF Kept, Counting
    <2> DEFINE f == [o \in In(t, j) |-> Moved(t, o)]
    <2>3. DOMAIN f = In(t, j) /\ f = [o \in In(t, j) |-> f[o]]
      OBVIOUS
    <2>4. \A o, p \in In(t, j) : f[o] = f[p] => o = p
      BY <1>7, <2>1
    <2>5. {f[o] : o \in In(t, j)} = M(j)
      OBVIOUS
    <2> HIDE DEF f
    <2>6. /\ IsFiniteSet({f[o] : o \in In(t, j)})
          /\ Cardinality({f[o] : o \in In(t, j)}) = Cardinality(In(t, j))
      BY <2>2, <2>3, <2>4, ImageCounts
    <2>7. QED
      BY <1>1, <2>1, <2>2, <2>5, <2>6
  <1>9. ASSUME NEW j \in t.inc, NEW k \in t.inc, j # k PROVE M(j) \cap M(k) = {}
    <2>1. In(t, j) \cap In(t, k) = {}
      BY <1>5, <1>9 DEF In
    <2>2. In(t, j) \subseteq t.occ /\ In(t, k) \subseteq t.occ
      BY DEF In
    <2>3. QED
      BY <1>7, <2>1, <2>2
  <1>10. ASSUME NEW i \in t.inc
         PROVE  /\ U(i).count \in Nat
                /\ U(i).count = Cardinality(UNION {M(j) : j \in G(i)})
    <2> DEFINE S == G(i)
               f == [j \in S |-> j.count]
               m == [j \in S |-> M(j)]
    <2>1. S \subseteq t.inc /\ IsFiniteSet(S)
      BY <1>4
    <2>2. f \in [S -> Nat]
      BY <1>2, <2>1 DEF Incident
    <2>3. m = [j \in S |-> m[j]]
      OBVIOUS
    <2>4. \A j \in S : IsFiniteSet(m[j]) /\ f[j] = Cardinality(m[j])
      BY <1>8, <2>1
    <2>5. \A j, k \in S : j # k => m[j] \cap m[k] = {}
      BY <1>9, <2>1
    <2>6. {m[j] : j \in S} = {M(j) : j \in G(i)}
      OBVIOUS
    <2>7. U(i).count = SumFunction(f)
      <3>1. Chief(t, i) \in Incident
        BY <1>2, <1>4
      <3>2. Keeper(G(i)) \in Incident
        BY <3>1 DEF Chief
      <3>3. QED
        BY <3>2 DEF United, Incident
    <2> HIDE DEF S, f, m, M, U, G
    <2>8. /\ IsFiniteSet(UNION {m[j] : j \in S})
          /\ SumFunction(f) = Cardinality(UNION {m[j] : j \in S})
      BY <2>1, <2>2, <2>3, <2>4, <2>5, SumCounts, SMTT(30)
    <2>9. QED
      BY <2>6, <2>7, <2>8, FS_CardinalityType
  <1>11. ASSUME NEW i \in t.inc
         PROVE  /\ U(i) \in Incident
                /\ U(i).id = Chief(t, i).id /\ U(i).src = i.src /\ U(i).norm = i.norm
                /\ U(i).text = Chief(t, i).text
                /\ \E j \in G(i) : U(i).first = j.first
                /\ \E j \in G(i) : U(i).last = j.last
                /\ \A j \in G(i) : U(i).first <= j.first /\ j.last <= U(i).last
    <2> DEFINE k == Chief(t, i)
               firsts == {j.first : j \in G(i)}
               lasts == {j.last : j \in G(i)}
    <2>1. k \in Incident /\ k.src = i.src /\ k.norm = i.norm /\ k = Keeper(G(i))
      <3>1. k \in G(i) /\ k \in t.inc
        BY <1>4
      <3>2. k.src = i.src /\ k.norm = i.norm
        BY <1>4, <3>1
      <3>3. QED
        BY <1>2, <3>1, <3>2 DEF Chief
    <2>2. U(i) = [id |-> k.id, src |-> k.src, text |-> k.text, norm |-> k.norm,
                  first |-> Min(firsts), last |-> Max(lasts), count |-> U(i).count,
                  kind |-> IF \E j \in G(i) : j.kind = "error" THEN "error" ELSE "keyword"]
      <3>1. k = [id |-> k.id, src |-> k.src, text |-> k.text, norm |-> k.norm,
                 first |-> k.first, last |-> k.last, count |-> k.count, kind |-> k.kind]
        BY <2>1 DEF Incident
      <3>2. U(i) = [k EXCEPT
                !.first = Min(firsts), !.last = Max(lasts),
                !.count = SumFunction([j \in G(i) |-> j.count]),
                !.kind = IF \E j \in G(i) : j.kind = "error" THEN "error" ELSE "keyword"]
        BY <2>1 DEF United
      <3> HIDE DEF k, firsts, lasts, U, G
      <3>3. QED
        BY <3>1, <3>2
    <2>3. firsts \in SUBSET Nat /\ firsts # {} /\ lasts \in SUBSET Nat /\ lasts # {}
      BY <1>2, <1>4 DEF Incident
    <2>4. IsFiniteSet(lasts)
      <3> DEFINE g == [j \in G(i) |-> j.last]
      <3>1. g \in Surjection(G(i), lasts)
        BY DEF Surjection
      <3> HIDE DEF g
      <3>2. QED
        BY <1>4, <3>1, FS_Surjection
    <2>5. Min(firsts) \in firsts /\ \A n \in firsts : Min(firsts) <= n
      BY <2>3, MinIsLeast
    <2>6. Max(lasts) \in lasts /\ \A n \in lasts : n <= Max(lasts)
      BY <2>3, <2>4, MaxIsGreatest
    <2>7. /\ \E j \in G(i) : Min(firsts) = j.first
          /\ \E j \in G(i) : Max(lasts) = j.last
          /\ \A j \in G(i) : Min(firsts) <= j.first /\ j.last <= Max(lasts)
      BY <2>5, <2>6
    <2>8. Min(firsts) \in Nat /\ Max(lasts) \in Nat
      BY <2>3, <2>5, <2>6
    <2>9. U(i).count \in Nat
      BY <1>10
    <2> HIDE DEF firsts, lasts, U, k
    <2>10. U(i) \in Incident
      BY <2>1, <2>2, <2>8, <2>9 DEF Incident
    <2>11. /\ U(i).id = k.id /\ U(i).src = k.src /\ U(i).norm = k.norm /\ U(i).text = k.text
           /\ U(i).first = Min(firsts) /\ U(i).last = Max(lasts)
      BY <2>2
    <2>12. QED
      BY <2>1, <2>7, <2>10, <2>11 DEF k
  <1>12. ASSUME NEW i \in t.inc, NEW k \in t.inc, Chief(t, i).id = Chief(t, k).id
         PROVE  G(i) = G(k)
    <2>1. Chief(t, i) \in t.inc /\ Chief(t, k) \in t.inc
      BY <1>4
    <2>2. Chief(t, i) = Chief(t, k)
      BY <1>12, <2>1 DEF Kept, Identified
    <2>3. G(Chief(t, i)) = G(i) /\ G(Chief(t, k)) = G(k)
      BY <1>4
    <2>4. QED
      BY <2>2, <2>3
  <1>13. ASSUME NEW i \in t.inc PROVE In(u, U(i)) = UNION {M(j) : j \in G(i)}
    <2>1. ASSUME NEW p \in In(u, U(i)) PROVE p \in UNION {M(j) : j \in G(i)}
      <3>1. p \in u.occ /\ p.incident = Chief(t, i).id
        BY <1>11 DEF In
      <3>2. PICK o \in t.occ : p = Moved(t, o)
        BY <1>1, <3>1
      <3>3. Row(t, o) \in t.inc /\ o \in In(t, Row(t, o)) /\ p.incident = Chief(t, Row(t, o)).id
        BY <1>5, <1>6, <3>2
      <3>4. G(Row(t, o)) = G(i)
        BY <1>12, <3>1, <3>3
      <3>5. Row(t, o) \in G(i)
        BY <1>4, <3>3, <3>4
      <3> HIDE DEF G
      <3>6. QED
        BY <3>2, <3>3, <3>5
    <2>2. ASSUME NEW j \in G(i), NEW o \in In(t, j) PROVE Moved(t, o) \in In(u, U(i))
      <3>1. j \in t.inc /\ G(j) = G(i) /\ o \in t.occ
        BY <1>4 DEF In
      <3>2. Row(t, o) = j
        BY <1>5, <3>1
      <3>3. Moved(t, o).incident = Chief(t, i).id
        BY <1>6, <3>1, <3>2 DEF Chief
      <3>4. U(i).id = Chief(t, i).id /\ Moved(t, o) \in u.occ
        BY <1>1, <1>11, <3>1
      <3> HIDE DEF U
      <3>5. QED
        BY <3>3, <3>4 DEF In
    <2> HIDE DEF G, U
    <2>3. QED
      BY <2>1, <2>2
  <1>14. ASSUME NEW p \in u.occ
         PROVE  \E o \in t.occ : /\ p = Moved(t, o) /\ p.key = o.key /\ p.time = o.time
                                 /\ p.incident = Chief(t, Row(t, o)).id
    BY <1>1, <1>6
  <1> HIDE DEF U, M
  <1>15. u \in Table
    <2>1. u.inc \subseteq Incident
      BY <1>1, <1>11
    <2>2. u.occ \subseteq Occurrence
      BY <1>1, <1>6
    <2>3. QED
      BY <1>1, <1>2, <2>1, <2>2 DEF Table
  <1>16. Finite(u)
    <2> DEFINE f == [i \in t.inc |-> U(i)]
               g == [o \in t.occ |-> Moved(t, o)]
    <2>1. f \in Surjection(t.inc, u.inc)
      BY <1>1 DEF Surjection
    <2>2. g \in Surjection(t.occ, u.occ)
      BY <1>1 DEF Surjection
    <2> HIDE DEF f, g
    <2>3. IsFiniteSet(u.inc)
      BY <1>3, <2>1, FS_Surjection
    <2>4. IsFiniteSet(u.occ)
      BY <1>3, <2>2, FS_Surjection
    <2>5. QED
      BY <2>3, <2>4 DEF Finite
  <1>17. Identified(u)
    <2>1. ASSUME NEW i \in t.inc, NEW k \in t.inc, U(i).id = U(k).id PROVE U(i) = U(k)
      <3>1. G(i) = G(k)
        BY <1>11, <1>12, <2>1
      <3>2. QED
        BY <3>1 DEF U
    <2>2. ASSUME NEW i \in t.inc PROVE U(i).id <= t.made
      <3>1. Chief(t, i) \in t.inc
        BY <1>4
      <3>2. QED
        BY <1>11, <3>1 DEF Kept, Identified
    <2>3. QED
      BY <1>1, <2>1, <2>2 DEF Identified
  <1>18. Distinct(u) /\ Stamped(u)
    <2>1. \A p, q \in u.occ : p.key = q.key => p = q
      BY <1>14 DEF Kept, Distinct
    <2>2. \A p \in u.occ : p.time = p.key.time
      BY <1>14 DEF Kept, Stamped
    <2>3. QED
      BY <2>1, <2>2 DEF Distinct, Stamped
  <1>19. Owned(u)
    <2> SUFFICES ASSUME NEW p \in u.occ
                 PROVE  \E i \in u.inc : p.incident = i.id /\ p.key.src = i.src
      BY DEF Owned
    <2>1. PICK o \in t.occ : p.key = o.key /\ p.incident = Chief(t, Row(t, o)).id
      BY <1>14
    <2>2. Row(t, o) \in t.inc /\ o.key.src = Row(t, o).src
      BY <1>5
    <2>3. U(Row(t, o)) \in u.inc
      BY <1>1, <2>2
    <2>4. QED
      BY <1>11, <2>1, <2>2, <2>3
  <1>20. Counting(u)
    <2>1. \A i \in t.inc : U(i).count = Cardinality(In(u, U(i)))
      BY <1>10, <1>13
    <2>2. QED
      BY <1>1, <2>1 DEF Counting
  <1>21. Normalised(u, v)
    <2>1. ASSUME NEW i \in t.inc PROVE U(i).norm = Normal[v][U(i).text]
      <3>1. Chief(t, i) \in t.inc /\ Chief(t, i).norm = i.norm
        BY <1>4
      <3>2. QED
        BY <1>11, <3>1 DEF Kept, Normalised
    <2>2. QED
      BY <1>1, <2>1 DEF Normalised
  <1>22. Grouping(u)
    <2>1. ASSUME NEW i \in t.inc, NEW k \in t.inc, U(i).src = U(k).src, U(i).norm = U(k).norm
          PROVE  U(i) = U(k)
      <3>1. G(i) = G(k)
        BY <1>11, <2>1 DEF Alike
      <3>2. QED
        BY <3>1 DEF U
    <2>2. QED
      BY <1>1, <2>1 DEF Grouping
  <1> HIDE DEF G
  <1>23. ASSUME NEW i \in t.inc, NEW p \in In(u, U(i))
         PROVE  \E j \in G(i) : j \in t.inc /\ \E o \in In(t, j) : o \in t.occ /\ p = Moved(t, o)
                                                     /\ p.key = o.key /\ p.time = o.time
    <2>1. PICK j \in G(i) : p \in M(j)
      BY <1>13
    <2>2. PICK o \in In(t, j) : p = Moved(t, o)
      BY <2>1 DEF M
    <2>3. j \in t.inc /\ o \in t.occ
      BY <1>4 DEF In
    <2>4. QED
      BY <1>6, <2>2, <2>3
  <1>24. ASSUME NEW i \in t.inc, NEW j \in G(i), NEW o \in In(t, j)
         PROVE  /\ Moved(t, o) \in In(u, U(i)) /\ Moved(t, o).time = o.time
                /\ o \in t.occ /\ j \in t.inc
    <2>1. Moved(t, o) \in M(j) /\ o \in t.occ /\ j \in t.inc
      BY <1>4 DEF M, In
    <2>2. QED
      BY <1>6, <1>13, <2>1
  <1>25. Spanning(u)
    <2> SUFFICES ASSUME NEW i \in t.inc
                 PROVE  /\ \E p \in In(u, U(i)) : p.time = U(i).first
                        /\ \E p \in In(u, U(i)) : p.time = U(i).last
                        /\ \A p \in In(u, U(i)) : U(i).first <= p.time /\ p.time <= U(i).last
      BY <1>1 DEF Spanning
    <2>1. \E p \in In(u, U(i)) : p.time = U(i).first
      <3>1. PICK j \in G(i) : U(i).first = j.first
        BY <1>11
      <3>2. j \in t.inc
        BY <1>4
      <3>3. PICK o \in In(t, j) : o.time = j.first
        BY <3>2 DEF Kept, Spanning
      <3>4. QED
        BY <1>24, <3>1, <3>3
    <2>2. \E p \in In(u, U(i)) : p.time = U(i).last
      <3>1. PICK j \in G(i) : U(i).last = j.last
        BY <1>11
      <3>2. j \in t.inc
        BY <1>4
      <3>3. PICK o \in In(t, j) : o.time = j.last
        BY <3>2 DEF Kept, Spanning
      <3>4. QED
        BY <1>24, <3>1, <3>3
    <2>3. ASSUME NEW p \in In(u, U(i)) PROVE U(i).first <= p.time /\ p.time <= U(i).last
      <3>1. PICK j \in G(i) : j \in t.inc /\ \E o \in In(t, j) : o \in t.occ /\ p.time = o.time
        BY <1>23
      <3>2. PICK o \in In(t, j) : o \in t.occ /\ p.time = o.time
        BY <3>1
      <3>3. j.first <= o.time /\ o.time <= j.last
        BY <3>1 DEF Kept, Spanning
      <3>4. U(i).first <= j.first /\ j.last <= U(i).last
        BY <1>11
      <3>5. /\ U(i).first \in Nat /\ U(i).last \in Nat
            /\ j.first \in Nat /\ j.last \in Nat /\ o.time \in Nat
        BY <1>2, <1>11, <3>1, <3>2 DEF Incident, Occurrence
      <3>6. QED
        BY <3>2, <3>3, <3>4, <3>5
    <2>4. QED
      BY <2>1, <2>2, <2>3
  <1>26. Near(u, v)
    <2> SUFFICES ASSUME NEW i \in t.inc, NEW p \in In(u, U(i)),
                        Normal[v][p.key.text] # U(i).norm
                 PROVE  \E q \in In(u, U(i)) \ {p} : Distance(q.time, p.time) <= Window
      BY <1>1 DEF Near
    <2>1. PICK j \in G(i) : j \in t.inc /\ \E o \in In(t, j) : o \in t.occ /\ p = Moved(t, o)
                                                     /\ p.key = o.key /\ p.time = o.time
      BY <1>23
    <2>2. PICK o \in In(t, j) : o \in t.occ /\ p = Moved(t, o) /\ p.key = o.key /\ p.time = o.time
      BY <2>1
    <2>3. j.norm = U(i).norm
      BY <1>4, <1>11
    <2>4. PICK q \in In(t, j) \ {o} : Distance(q.time, o.time) <= Window
      BY <2>1, <2>2, <2>3 DEF Kept, Near
    <2>5. Moved(t, q) \in In(u, U(i)) /\ Moved(t, q).time = q.time /\ q \in t.occ
      BY <1>24
    <2>6. Moved(t, q) # p
      BY <1>7, <2>2, <2>4, <2>5
    <2>7. QED
      BY <2>2, <2>4, <2>5, <2>6
  <1>27. Sound(u, v)
    BY <1>16, <1>17, <1>18, <1>19, <1>20, <1>21, <1>22, <1>25, <1>26 DEF Sound
  <1>28. QED
    BY <1>15, <1>27 DEF u

(* A start of the program takes sound tables of the former release to      *)
(* sound tables of the one that starts, with no new fingerprint.           *)
LEMMA MergedSound ==
  ASSUME NEW t \in Table, NEW v \in Releases, NEW w \in Releases, v <= w, Sound(t, v)
  PROVE  /\ Merged(t, w) \in Table
         /\ Sound(Merged(t, w), w)
         /\ \A p \in Merged(t, w).occ : \E o \in t.occ : p.key = o.key
  <1> DEFINE r == Rename(t, w)
  <1>1. r \in Table /\ Kept(r, w) /\ r.inc = Renamed(t, w) /\ r.occ = t.occ
    BY RenamedKept DEF Rename, Table
  <1>2. Merged(t, w) = Unite(r)
    <2> DEFINE rows == Renamed(t, w)
               row(o) == CHOOSE i \in rows : i.id = o.incident
    <2>1. \A o : Moved(r, o) = [o EXCEPT !.incident = Keeper(Alike(rows, row(o))).id]
      BY <1>1 DEF Moved, Chief, Row
    <2>2. t = [inc |-> t.inc, occ |-> t.occ, made |-> t.made]
      BY DEF Table
    <2> DEFINE incs == {United(Alike(rows, i)) : i \in rows}
               occs == {[o EXCEPT !.incident = Keeper(Alike(rows, row(o))).id] : o \in t.occ}
    <2>3. Merged(t, w) = [t EXCEPT !.inc = incs, !.occ = occs]
      BY DEF Merged
    <2>4. Unite(r) = [r EXCEPT !.inc = incs, !.occ = occs]
      <3>1. incs = {United(Alike(r.inc, i)) : i \in r.inc}
        BY <1>1
      <3>2. occs = {Moved(r, o) : o \in r.occ}
        <4> DEFINE mv(o) == [o EXCEPT !.incident = Keeper(Alike(rows, row(o))).id]
        <4>1. occs = {mv(o) : o \in t.occ} /\ \A o : Moved(r, o) = mv(o)
          BY <2>1
        <4> HIDE DEF mv, r, occs
        <4>2. QED
          BY <1>1, <4>1
      <3> HIDE DEF incs, occs, r
      <3>3. QED
        BY <3>1, <3>2 DEF Unite
    <2>5. r = [t EXCEPT !.inc = rows]
      BY DEF Rename
    <2> HIDE DEF incs, occs, rows, r
    <2>6. QED
      BY <2>2, <2>3, <2>4, <2>5
  <1> HIDE DEF r
  <1>3. Unite(r) \in Table /\ Sound(Unite(r), w)
    BY <1>1, UniteSound
  <1>4. \A p \in Unite(r).occ : \E o \in t.occ : p.key = o.key
    <2>1. Unite(r).occ = {Moved(r, o) : o \in t.occ}
      BY <1>1 DEF Unite, Table
    <2>2. \A o \in t.occ : Moved(r, o).key = o.key
      BY DEF Moved, Table, Occurrence
    <2>3. QED
      BY <2>1, <2>2
  <1>5. QED
    BY <1>2, <1>3, <1>4
-----------------------------------------------------------------------------
(* The inductive invariant.                                                *)

Batch == [events : Seq(Event), hours : Nat, keyed : BOOLEAN]

\* A file whose lines are all reread, and all have a timestamp.
Whole(s) == Len(log[s]) <= History /\ \A k \in DOMAIN log[s] : log[s][k].time # 0

\* What is known of an event or a fingerprint is that of its line, under the
\* shift h, and under one the file was read with.
Shifted(s, x, h) ==
    /\ x.seq \in DOMAIN log[s]
    /\ x.text = log[s][x.seq].text
    /\ x.time = log[s][x.seq].time + h
OfLine(s, x) == \E h \in shifts[s] : Shifted(s, x, h)

AllOfLines(t) ==
    \A s \in Sources : Whole(s) => \A o \in t.occ : o.key.src = s => OfLine(s, o.key)

Good == {t \in Table : Sound(t, release) /\ AllOfLines(t)}

VarTypes ==
    /\ log \in [Sources -> Seq(Line)]
    /\ now \in 1..MaxNow
    /\ release \in Releases
    /\ retention \in Retentions
    /\ keywords \in BOOLEAN
    /\ running \in [Sources -> BOOLEAN]
    /\ shift \in [Sources -> Shifts]
    /\ shifts \in [Sources -> SUBSET Shifts]
    /\ read \in [Sources -> Nat]
    /\ sequence \in [Sources -> Nat]
    /\ pending \in [Sources -> Batch]
    /\ \A s \in Sources : /\ read[s] <= Len(log[s])
                          /\ IsFiniteSet(shifts[s])
                          /\ running[s] => shift[s] \in shifts[s]

\* The batch of a reader holds its own events; those of a whole file are
\* numbered as its lines.
Reading ==
    \A s \in Sources :
        /\ \A k \in DOMAIN pending[s].events : pending[s].events[k].src = s
        /\ Whole(s) => sequence[s] = read[s]
        /\ Whole(s) => \A k \in DOMAIN pending[s].events : OfLine(s, pending[s].events[k])

IInv == VarTypes /\ Reading /\ Tables \in Good

(* Deleting rows leaves good tables.                                       *)
LEMMA WithoutGood ==
  ASSUME NEW t \in Good, NEW gone \in SUBSET t.inc
  PROVE  Without(t, gone) \in Good
  <1>1. t \in Table /\ Sound(t, release) /\ AllOfLines(t)
    BY DEF Good
  <1>2. /\ Without(t, gone) \in Table
        /\ Sound(Without(t, gone), release)
        /\ Without(t, gone).occ \subseteq t.occ
    BY <1>1, WithoutSound
  <1>3. QED
    BY <1>1, <1>2 DEF Good, AllOfLines

(* Expiry is such a deletion.                                              *)
LEMMA CleanupGood ==
  ASSUME NEW t \in Good, NEW hours
  PROVE  Cleanup(t, hours) \in Good
  <1>1. Expired(t, hours) \in SUBSET t.inc
    BY DEF Expired
  <1>2. QED
    BY <1>1, WithoutGood DEF Cleanup

(* An event of a batch leaves good tables.                                 *)
LEMMA RecordGood ==
  ASSUME release \in Releases, NEW s \in Sources, NEW t \in Good, NEW e \in Event, NEW batch,
         e.src = s, Whole(s) => OfLine(s, e)
  PROVE  RecordOne(t, e, batch) \in Good
  <1>1. t \in Table /\ Sound(t, release) /\ AllOfLines(t)
    BY DEF Good
  <1> DEFINE u == RecordOne(t, e, batch)
  <1>2. /\ u \in Table /\ Sound(u, release)
        /\ \A o \in u.occ : o \in t.occ \/ o.key = Key(e)
    BY <1>1, RecordSound
  <1>3. /\ Key(e).src = s /\ Key(e).seq = e.seq /\ Key(e).text = e.text /\ Key(e).time = e.time
    BY DEF Key
  <1> HIDE DEF u
  <1>4. AllOfLines(u)
    <2> SUFFICES ASSUME NEW r \in Sources, Whole(r), NEW o \in u.occ, o.key.src = r
                 PROVE  OfLine(r, o.key)
      BY DEF AllOfLines
    <2>1. CASE o \in t.occ
      BY <1>1, <2>1 DEF AllOfLines
    <2>2. CASE o.key = Key(e)
      <3>1. r = s
        BY <1>3, <2>2
      <3>2. QED
        BY <1>3, <2>2, <3>1 DEF OfLine, Shifted
    <2>3. QED
      BY <1>2, <2>1, <2>2
  <1>5. u \in Good
    BY <1>2, <1>4 DEF Good
  <1>6. QED
    BY <1>5 DEF u

(* So does the whole batch, by induction on its events.                    *)
LEMMA BatchGood ==
  ASSUME release \in Releases, NEW s \in Sources, NEW base \in Good, NEW batch \in Batch,
         \A k \in DOMAIN batch.events : batch.events[k].src = s,
         Whole(s) => \A k \in DOMAIN batch.events : OfLine(s, batch.events[k])
  PROVE  Recorded(base, batch) \in Good
  <1> DEFINE seq == batch.events
             I == DOMAIN seq
             One(t, e) == RecordOne(t, e, batch)
             F == [x \in I \X Good |-> One(x[2], seq[x[1]])]
             Eq(it) == it = [S \in SUBSET I |->
                 IF S = {} THEN base ELSE One(it[S \ {Max(S)}], seq[Max(S)])]
             iter == CHOOSE it : Eq(it)
  <1>1. Indices(I)
    <2>1. seq \in Seq(Event)
      BY DEF Batch
    <2>2. QED
      BY <2>1 DEF Indices
  <1>2. ASSUME NEW k \in I, NEW t \in Good PROVE One(t, seq[k]) \in Good
    <2> DEFINE e == seq[k]
    <2>1. e \in Event
      <3>1. seq \in Seq(Event)
        BY DEF Batch
      <3>2. QED
        BY <3>1
    <2>2. e.src = s /\ (Whole(s) => OfLine(s, e))
      OBVIOUS
    <2> HIDE DEF e
    <2>3. RecordOne(t, e, batch) \in Good
      BY <2>1, <2>2, RecordGood
    <2>4. QED
      BY <2>3 DEF e
  <1>3. FoldLeft(One, base, seq) = iter[I]
    BY DEF FoldLeft, MapThenFoldSet
  <1> HIDE DEF seq, One, I
  <1>4. F \in [I \X Good -> Good]
    <2>1. ASSUME NEW x \in I \X Good PROVE One(x[2], seq[x[1]]) \in Good
      <3>1. x[1] \in I /\ x[2] \in Good
        OBVIOUS
      <3>2. QED
        BY <1>2, <3>1
    <2>2. QED
      BY <2>1
  <1>5. PICK it \in [SUBSET I -> Good] : LeftFolds(it, I, base, F)
    <2> HIDE DEF F
    <2>1. QED
      BY <1>1, <1>4, LeftFoldExists
  <1>6. ASSUME NEW S \in SUBSET I, S # {} PROVE Max(S) \in I /\ S \ {Max(S)} \in SUBSET I
    BY <1>1, <1>6, IntervalMax DEF Indices
  <1>7. Eq(it)
    <2>1. ASSUME NEW S \in SUBSET I
          PROVE  it[S] = IF S = {} THEN base ELSE One(it[S \ {Max(S)}], seq[Max(S)])
      <3>1. CASE S = {}
        BY <1>5, <3>1 DEF LeftFolds
      <3>2. CASE S # {}
        <4>1. <<Max(S), it[S \ {Max(S)}]>> \in I \X Good
          BY <1>6, <3>2
        <4>2. it[S] = F[<<Max(S), it[S \ {Max(S)}]>>]
          BY <1>5, <3>2 DEF LeftFolds
        <4>3. QED
          BY <3>2, <4>1, <4>2
      <3>3. QED
        BY <3>1, <3>2
    <2>2. QED
      BY <2>1
  <1>8. Eq(iter)
    <2> HIDE DEF Eq
    <2>1. QED
      BY <1>7
  <1> HIDE DEF F
  <1>9. iter[I] \in Good
    <2>1. ASSUME NEW S \in SUBSET I
          PROVE  iter[S] = IF S = {} THEN base ELSE One(iter[S \ {Max(S)}], seq[Max(S)])
      <3> HIDE DEF iter
      <3>1. QED
        BY <1>8
    <2> HIDE DEF iter
    <2>2. iter[{}] \in Good
      BY <2>1
    <2>3. \A S \in SUBSET I : S # {} /\ iter[S \ {Max(S)}] \in Good => iter[S] \in Good
      BY <1>2, <1>6, <2>1
    <2>4. QED
      BY <1>1, <2>2, <2>3, LeftFoldStays
  <1>10. FoldLeft(One, base, seq) \in Good
    <2> HIDE DEF iter
    <2>1. QED
      BY <1>3, <1>9
  <1>11. QED
    BY <1>10 DEF Recorded, seq, One
-----------------------------------------------------------------------------
(* The steps.                                                              *)

(* A step that leaves the files, the release and the tables alone leaves   *)
(* good tables.                                                            *)
LEMMA SameTables ==
  ASSUME Tables \in Good, UNCHANGED <<log, release, tableVars>>,
         \A s \in Sources : shifts[s] \subseteq shifts'[s]
  PROVE  (Tables \in Good)'
  <1>1. Tables' = Tables
    BY DEF Tables, tableVars
  <1>2. Tables \in Table /\ Sound(Tables, release) /\ AllOfLines(Tables)
    BY DEF Good
  <1>3. AllOfLines(Tables)'
    BY <1>1, <1>2 DEF AllOfLines, Whole, OfLine, Shifted
  <1>4. QED
    BY <1>1, <1>2, <1>3 DEF Good, Sound, Table

(* Good tables that are put in their place.                                *)
LEMMA NewTables ==
  ASSUME NEW t \in Good, Becomes(t), UNCHANGED <<log, release, shifts>>
  PROVE  (Tables \in Good)'
  <1>1. t = [inc |-> t.inc, occ |-> t.occ, made |-> t.made]
    BY DEF Good, Table
  <1>2. Tables' = t
    BY <1>1 DEF Tables, Becomes
  <1>3. Good' = Good
    BY DEF Good, AllOfLines, Whole, OfLine, Shifted
  <1>4. QED
    BY <1>2, <1>3

(* What the readers have is the same, or a batch less.                     *)
LEMMA SameReading ==
  ASSUME Reading, UNCHANGED <<log, read, sequence, shifts>>,
         \A s \in Sources : pending'[s] = pending[s] \/ pending'[s] = NoBatch
  PROVE  Reading'
  <1>1. \A s \in Sources : Whole(s)' = Whole(s)
    BY DEF Whole
  <1>2. \A s \in Sources : \A e : OfLine(s, e)' = OfLine(s, e)
    BY DEF OfLine, Shifted
  <1>3. sequence' = sequence /\ read' = read
    OBVIOUS
  <1> SUFFICES ASSUME NEW s \in Sources
               PROVE  /\ \A k \in DOMAIN pending'[s].events : pending'[s].events[k].src = s
                      /\ Whole(s) => sequence[s] = read[s]
                      /\ Whole(s) => \A k \in DOMAIN pending'[s].events :
                                         OfLine(s, pending'[s].events[k])
    BY <1>1, <1>2, <1>3, ZenonT(30) DEF Reading
  <1>4. CASE pending'[s] = pending[s]
    BY <1>4 DEF Reading
  <1>5. CASE pending'[s] = NoBatch
    <2>1. DOMAIN NoBatch.events = {}
      BY DEF NoBatch
    <2>2. QED
      BY <1>5, <2>1 DEF Reading
  <1>6. QED
    BY <1>4, <1>5

(* No batch is a batch without events.                                     *)
LEMMA NoBatchType == NoBatch \in Batch
  BY DEF NoBatch, Batch

(* The events of the lines i..j under the shift h.                         *)
LEMMA EventsOfType ==
  ASSUME VarTypes, NEW s \in Sources, NEW i \in Nat \ {0}, i <= Len(log[s]), NEW seq \in Nat,
         NEW h \in Shifts
  PROVE  LET events == EventsOf(s, i, Len(log[s]), seq, h)
         IN  /\ events \in Seq(Event)
             /\ \A k \in DOMAIN events : events[k].src = s
             /\ Whole(s) /\ seq = i - 1 => \A k \in DOMAIN events : Shifted(s, events[k], h)
  <1> DEFINE n == Len(log[s])
             events == EventsOf(s, i, n, seq, h)
             len == n + 1 - i
  <1>1. log[s] \in Seq(Line) /\ n \in Nat /\ now \in Nat /\ MaxNow \in Nat
    BY ClockAssumption DEF VarTypes
  <1>2. len \in Nat /\ DOMAIN log[s] = 1..n
    BY <1>1
  <1>3. \A k \in 1..len : i + k - 1 \in 1..n /\ seq + k \in Nat
    BY <1>1
  <1>4. DOMAIN events = 1..len
    BY DEF EventsOf
  <1>5. ASSUME NEW k \in 1..len
        PROVE  /\ events[k] \in Event
               /\ events[k].src = s /\ events[k].seq = seq + k
               /\ events[k].text = log[s][i + k - 1].text
               /\ log[s][i + k - 1].time # 0 => events[k].time = log[s][i + k - 1].time + h
    <2> DEFINE line == log[s][i + k - 1]
    <2>1. line \in Line
      BY <1>1, <1>3
    <2>2. line.text \in Texts /\ (line.time # 0 => line.time + h \in Nat)
      <3>1. line.text \in Texts /\ (line.time # 0 => line.time \in Earliest..MaxNow)
        BY <2>1 DEF Line
      <3>2. h \in Int /\ Earliest \in Nat /\ Earliest + h \in Nat
        BY ShiftAssumption
      <3> HIDE DEF line
      <3>3. QED
        BY <1>1, <3>1, <3>2
    <2>3. events[k] = [src |-> s, text |-> line.text, seq |-> seq + k,
                       time |-> IF line.time = 0 THEN now ELSE line.time + h]
      BY DEF EventsOf
    <2> HIDE DEF line, events
    <2>4. events[k] \in Event
      BY <1>1, <1>3, <2>2, <2>3 DEF Event
    <2>5. /\ events[k].src = s /\ events[k].seq = seq + k
          /\ events[k].text = line.text
          /\ line.time # 0 => events[k].time = line.time + h
      BY <2>3
    <2>6. QED
      BY <2>4, <2>5 DEF line
  <1>6. events \in Seq(Event)
    <2>1. events = [k \in 1..len |-> events[k]]
      BY DEF EventsOf
    <2>2. \A k \in 1..len : events[k] \in Event
      BY <1>5
    <2> HIDE DEF events, len
    <2>3. events \in [1..len -> Event]
      BY <2>1, <2>2
    <2>4. QED
      BY <1>2, <2>3
  <1> HIDE DEF events
  <1>7. ASSUME Whole(s), seq = i - 1, NEW k \in DOMAIN events PROVE Shifted(s, events[k], h)
    <2>1. k \in 1..len /\ events[k].seq = i + k - 1 /\ i + k - 1 \in DOMAIN log[s]
      BY <1>1, <1>2, <1>3, <1>4, <1>5, <1>7
    <2>2. log[s][i + k - 1].time # 0
      BY <1>7, <2>1 DEF Whole
    <2>3. QED
      BY <1>5, <2>1, <2>2 DEF Shifted
  <1>8. QED
    BY <1>4, <1>5, <1>6, <1>7 DEF events

(* Reading on from line i, where the number of the last event is that of   *)
(* the last line if the file is whole.                                     *)
LEMMA ReadFromInv ==
  ASSUME IInv, NEW s \in Sources, NEW i \in Nat \ {0}, i <= Len(log[s]) + 1, NEW seq \in Nat,
         NEW h \in Shifts, Whole(s) => seq = i - 1, ReadFrom(s, i, seq, h), log' = log,
         h \in shifts'[s], \A r \in Sources : shifts[r] \subseteq shifts'[r]
  PROVE  /\ read' \in [Sources -> Nat]
         /\ sequence' \in [Sources -> Nat]
         /\ pending' \in [Sources -> Batch]
         /\ \A r \in Sources : read'[r] <= Len(log[r])
         /\ Reading'
  <1> DEFINE n == Len(log[s])
             batch == IF i > n THEN NoBatch
                      ELSE [events |-> EventsOf(s, i, n, seq, h), hours |-> retention,
                            keyed |-> keywords]
  <1>1. VarTypes /\ Reading /\ n \in Nat
    BY DEF IInv, VarTypes
  <1>2. /\ pending' = [pending EXCEPT ![s] = batch]
        /\ sequence' = [sequence EXCEPT ![s] = seq + n + 1 - i]
        /\ read' = [read EXCEPT ![s] = n]
    BY DEF ReadFrom
  <1>3. /\ batch \in Batch
        /\ \A k \in DOMAIN batch.events : batch.events[k].src = s
        /\ Whole(s) => \A k \in DOMAIN batch.events : Shifted(s, batch.events[k], h)
    <2>1. CASE i > n
      <3>1. batch = NoBatch /\ DOMAIN NoBatch.events = {}
        BY <2>1 DEF NoBatch
      <3> HIDE DEF batch
      <3>2. QED
        BY <3>1, NoBatchType
    <2>2. CASE ~ (i > n)
      <3> DEFINE events == EventsOf(s, i, n, seq, h)
      <3>1. i <= n
        BY <1>1, <2>2
      <3>2. /\ events \in Seq(Event)
            /\ \A k \in DOMAIN events : events[k].src = s
            /\ Whole(s) => \A k \in DOMAIN events : Shifted(s, events[k], h)
        <4>1. /\ events \in Seq(Event)
              /\ \A k \in DOMAIN events : events[k].src = s
              /\ Whole(s) /\ seq = i - 1 =>
                     \A k \in DOMAIN events : Shifted(s, events[k], h)
          BY <1>1, <3>1, EventsOfType
        <4> HIDE DEF events
        <4>2. QED
          BY <4>1
      <3>3. retention \in Nat /\ keywords \in BOOLEAN
        BY <1>1, WindowAssumption DEF VarTypes
      <3>4. batch = [events |-> events, hours |-> retention, keyed |-> keywords]
        BY <2>2
      <3> HIDE DEF events, batch
      <3>5. batch \in Batch /\ batch.events = events
        BY <3>2, <3>3, <3>4 DEF Batch
      <3>6. QED
        BY <3>2, <3>5
    <2>3. QED
      BY <2>1, <2>2
  <1> HIDE DEF batch
  <1>4. pending \in [Sources -> Batch] /\ sequence \in [Sources -> Nat] /\ read \in [Sources -> Nat]
    BY <1>1 DEF VarTypes
  <1>5. seq + n + 1 - i \in Nat
    BY <1>1
  <1>6. /\ read' \in [Sources -> Nat] /\ sequence' \in [Sources -> Nat]
        /\ pending' \in [Sources -> Batch]
    BY <1>1, <1>2, <1>3, <1>4, <1>5
  <1>7. \A r \in Sources : read'[r] <= Len(log[r])
    BY <1>1, <1>2, <1>4 DEF VarTypes
  <1>8. Reading'
    <2> SUFFICES ASSUME NEW r \in Sources
                 PROVE  /\ \A k \in DOMAIN pending'[r].events : pending'[r].events[k].src = r
                        /\ Whole(r) => sequence'[r] = read'[r]
                        /\ Whole(r) => \A k \in DOMAIN pending'[r].events :
                               \E g \in shifts'[r] : Shifted(r, pending'[r].events[k], g)
      BY SMTT(30) DEF Reading, Whole, OfLine, Shifted
    <2>1. CASE r = s
      <3>1. pending'[s] = batch /\ sequence'[s] = seq + n + 1 - i /\ read'[s] = n
        BY <1>2, <1>4
      <3>2. Whole(s) => sequence'[s] = read'[s]
        BY <1>1, <3>1
      <3>3. QED
        BY <1>3, <2>1, <3>1, <3>2
    <2>2. CASE r # s
      <3>1. pending'[r] = pending[r] /\ sequence'[r] = sequence[r] /\ read'[r] = read[r]
        BY <1>2, <1>4, <2>2
      <3>2. QED
        BY <1>1, <3>1 DEF Reading, OfLine
    <2>3. QED
      BY <2>1, <2>2
  <1>9. QED
    BY <1>6, <1>7, <1>8
(* At the start there is nothing.                                          *)
LEMMA InitInv == Init => IInv
  <1> SUFFICES ASSUME Init PROVE IInv
    OBVIOUS
  <1>1. VarTypes
    <2>1. 1 \in 1..MaxNow
      BY ClockAssumption
    <2>2. << >> \in Seq(Line) /\ Len(<< >>) = 0 /\ 0 \in Nat /\ 0 <= 0
      OBVIOUS
    <2>3. QED
      BY <2>1, <2>2, ReleaseAssumption, ShiftAssumption, NoBatchType, FS_EmptySet
         DEF Init, VarTypes
  <1>2. Reading
    <2>1. DOMAIN NoBatch.events = {}
      BY DEF NoBatch
    <2>2. QED
      BY <2>1 DEF Init, Reading
  <1>3. Tables \in Good
    <2>1. Tables.inc = {} /\ Tables.occ = {} /\ Tables.made = 0 /\ Tables \in Table
      BY DEF Init, Tables, Table
    <2>2. Finite(Tables)
      BY <2>1, FS_EmptySet DEF Finite
    <2>3. Sound(Tables, release)
      BY <2>1, <2>2 DEF Sound, Identified, Distinct, Owned, Stamped, Counting, Normalised,
                        Grouping, Spanning, Near
    <2>4. QED
      BY <2>1, <2>3 DEF Good, AllOfLines
  <1>4. QED
    BY <1>1, <1>2, <1>3 DEF IInv

(* A line that is added leaves the others as they are: a file that is      *)
(* whole after was whole before.                                           *)
LEMMA AppendInv ==
  ASSUME IInv, NEW s \in Sources, NEW line \in Line, AppendLine(s, line)
  PROVE  IInv'
  <1>1. VarTypes /\ Reading /\ Tables \in Good
    BY DEF IInv
  <1>2. /\ log' = [log EXCEPT ![s] = Append(@, line)]
        /\ UNCHANGED <<now, settingVars, tableVars, readerVars>>
    BY DEF AppendLine
  <1>3. log \in [Sources -> Seq(Line)]
    BY <1>1 DEF VarTypes
  <1>4. /\ log' \in [Sources -> Seq(Line)]
        /\ \A r \in Sources : /\ Len(log[r]) <= Len(log'[r])
                              /\ DOMAIN log[r] \subseteq DOMAIN log'[r]
                              /\ \A k \in DOMAIN log[r] : log'[r][k] = log[r][k]
                              /\ Len(log[r]) \in Nat /\ Len(log'[r]) \in Nat
    <2>1. Append(log[s], line) \in Seq(Line)
      BY <1>3
    <2>2. log' \in [Sources -> Seq(Line)]
      BY <1>2, <1>3, <2>1
    <2>3. ASSUME NEW r \in Sources
          PROVE  /\ Len(log[r]) <= Len(log'[r])
                 /\ DOMAIN log[r] \subseteq DOMAIN log'[r]
                 /\ \A k \in DOMAIN log[r] : log'[r][k] = log[r][k]
                 /\ Len(log[r]) \in Nat /\ Len(log'[r]) \in Nat
      <3>1. CASE r = s
        <4>1. log'[r] = Append(log[r], line) /\ log[r] \in Seq(Line)
          BY <1>2, <1>3, <3>1
        <4>2. QED
          BY <4>1
      <3>2. CASE r # s
        <4>1. log'[r] = log[r] /\ log[r] \in Seq(Line)
          BY <1>2, <1>3, <3>2
        <4>2. QED
          BY <4>1
      <3>3. QED
        BY <3>1, <3>2
    <2>4. QED
      BY <2>2, <2>3
  <1>5. VarTypes'
    <2>1. \A r \in Sources : read[r] \in Nat /\ read[r] <= Len(log'[r])
      BY <1>1, <1>4 DEF VarTypes
    <2>2. QED
      BY <1>1, <1>2, <1>4, <2>1 DEF VarTypes, settingVars, readerVars, startVars
  <1>6. ASSUME NEW r \in Sources, Whole(r)' PROVE Whole(r)
    <2>1. Len(log'[r]) <= History /\ \A k \in DOMAIN log'[r] : log'[r][k].time # 0
      BY <1>6 DEF Whole
    <2>2. Len(log[r]) <= History
      BY <1>4, <2>1, WindowAssumption
    <2>3. QED
      BY <1>4, <2>1, <2>2 DEF Whole
  <1>7. ASSUME NEW r \in Sources, NEW x, OfLine(r, x)
        PROVE  \E h \in shifts'[r] : /\ x.seq \in DOMAIN log'[r]
                                     /\ x.text = log'[r][x.seq].text
                                     /\ x.time = log'[r][x.seq].time + h
    <2>1. shifts' = shifts
      BY <1>2 DEF readerVars, startVars
    <2>2. QED
      BY <1>4, <1>7, <2>1 DEF OfLine, Shifted
  <1>8. Reading'
    <2> SUFFICES ASSUME NEW r \in Sources
                 PROVE  /\ \A k \in DOMAIN pending[r].events : pending[r].events[k].src = r
                        /\ Whole(r)' => sequence[r] = read[r]
                        /\ Whole(r)' => \A k \in DOMAIN pending[r].events :
                                           OfLine(r, pending[r].events[k])'
      BY <1>2 DEF Reading, readerVars
    <2>1. Whole(r)' => \A k \in DOMAIN pending[r].events : OfLine(r, pending[r].events[k])'
      <3> SUFFICES ASSUME Whole(r)', NEW k \in DOMAIN pending[r].events
                   PROVE  OfLine(r, pending[r].events[k])'
        OBVIOUS
      <3>1. OfLine(r, pending[r].events[k])
        BY <1>1, <1>6 DEF Reading
      <3>2. pending' = pending
        BY <1>2 DEF readerVars
      <3>3. QED
        BY <1>7, <3>1, <3>2 DEF OfLine, Shifted
    <2>2. QED
      BY <1>1, <1>6, <2>1 DEF Reading
  <1>9. (Tables \in Good)'
    <2>1. Tables' = Tables /\ release' = release
      BY <1>2 DEF Tables, tableVars, settingVars
    <2>2. Tables \in Table /\ Sound(Tables, release) /\ AllOfLines(Tables)
      BY <1>1 DEF Good
    <2>3. AllOfLines(Tables)'
      <3> SUFFICES ASSUME NEW r \in Sources, Whole(r)', NEW o \in Tables.occ, o.key.src = r
                   PROVE  \E h \in shifts'[r] : /\ o.key.seq \in DOMAIN log'[r]
                                                /\ o.key.text = log'[r][o.key.seq].text
                                                /\ o.key.time = log'[r][o.key.seq].time + h
        BY <2>1 DEF AllOfLines, OfLine, Shifted
      <3>1. OfLine(r, o.key)
        BY <1>6, <2>2 DEF AllOfLines
      <3>2. QED
        BY <1>7, <3>1
    <2>4. QED
      BY <2>1, <2>2, <2>3 DEF Good, Sound, Table
  <1>10. QED
    BY <1>5, <1>8, <1>9 DEF IInv

(* A reader that starts or polls.                                          *)
LEMMA ReaderInv ==
  ASSUME IInv, NEW s \in Sources, (\E h \in Shifts : StartReader(s, h)) \/ Poll(s)
  PROVE  IInv'
  <1>1. VarTypes /\ Reading /\ Tables \in Good
    BY DEF IInv
  <1>2. log[s] \in Seq(Line) /\ Len(log[s]) \in Nat /\ read[s] \in Nat /\ sequence[s] \in Nat
    BY <1>1 DEF VarTypes
  <1>9. /\ running' \in [Sources -> BOOLEAN] /\ shift' \in [Sources -> Shifts]
        /\ shifts' \in [Sources -> SUBSET Shifts]
        /\ \A r \in Sources : /\ shifts[r] \subseteq shifts'[r]
                              /\ IsFiniteSet(shifts'[r])
                              /\ running'[r] => shift'[r] \in shifts'[r]
    <2>1. ASSUME NEW h \in Shifts, StartReader(s, h)
          PROVE  /\ running' \in [Sources -> BOOLEAN] /\ shift' \in [Sources -> Shifts]
                 /\ shifts' \in [Sources -> SUBSET Shifts]
                 /\ \A r \in Sources : /\ shifts[r] \subseteq shifts'[r]
                                       /\ IsFiniteSet(shifts'[r])
                                       /\ running'[r] => shift'[r] \in shifts'[r]
      <3>1. /\ running' = [running EXCEPT ![s] = TRUE] /\ shift' = [shift EXCEPT ![s] = h]
            /\ shifts' = [shifts EXCEPT ![s] = shifts[s] \cup {h}]
        BY <2>1 DEF StartReader
      <3>2. IsFiniteSet(shifts[s] \cup {h})
        BY <1>1, FS_AddElement DEF VarTypes
      <3>3. QED
        BY <1>1, <3>1, <3>2 DEF VarTypes
    <2>2. CASE Poll(s)
      BY <1>1, <2>2 DEF Poll, startVars, VarTypes
    <2>3. QED
      BY <2>1, <2>2
  <1>3. PICK i \in Nat \ {0}, seq \in Nat, h \in Shifts :
            /\ i <= Len(log[s]) + 1 /\ (Whole(s) => seq = i - 1)
            /\ ReadFrom(s, i, seq, h) /\ h \in shifts'[s]
    <2>1. ASSUME NEW h \in Shifts, StartReader(s, h)
          PROVE  \E i \in Nat \ {0}, seq \in Nat :
                     /\ i <= Len(log[s]) + 1 /\ (Whole(s) => seq = i - 1)
                     /\ ReadFrom(s, i, seq, h) /\ h \in shifts'[s]
      <3> DEFINE i == IF Len(log[s]) > History THEN Len(log[s]) - History + 1 ELSE 1
      <3>1. i \in Nat \ {0} /\ i <= Len(log[s]) + 1
        BY <1>2, WindowAssumption
      <3>2. Whole(s) => 0 = i - 1
        BY <1>2, WindowAssumption DEF Whole
      <3>3. ReadFrom(s, i, 0, h)
        BY <2>1 DEF StartReader
      <3>5. h \in shifts'[s]
        BY <1>1, <2>1 DEF StartReader, VarTypes
      <3> HIDE DEF i
      <3>4. QED
        BY <3>1, <3>2, <3>3, <3>5
    <2>2. CASE Poll(s)
      <3>1. read[s] < Len(log[s]) /\ ReadFrom(s, read[s] + 1, sequence[s], shift[s])
        BY <2>2 DEF Poll
      <3>7. shift[s] \in Shifts /\ shift[s] \in shifts'[s]
        BY <1>1, <2>2 DEF Poll, startVars, VarTypes
      <3>2. Whole(s) => sequence[s] = read[s]
        BY <1>1 DEF Reading
      <3> DEFINE i == read[s] + 1
      <3>3. i \in Nat \ {0} /\ i <= Len(log[s]) + 1 /\ sequence[s] \in Nat
        BY <1>2, <3>1
      <3> HIDE DEF i
      <3>4. Whole(s) => sequence[s] = i - 1
        <4>1. read[s] = i - 1
          BY <1>2 DEF i
        <4>2. QED
          BY <3>2, <4>1
      <3>5. ReadFrom(s, i, sequence[s], shift[s])
        BY <3>1, Zenon DEF i
      <3>6. QED
        BY <3>3, <3>4, <3>5, <3>7
    <2>3. QED
      BY <2>1, <2>2
  <1>4. UNCHANGED <<log, now, settingVars, tableVars>>
    BY DEF StartReader, Poll
  <1>5. /\ read' \in [Sources -> Nat]
        /\ sequence' \in [Sources -> Nat]
        /\ pending' \in [Sources -> Batch]
        /\ \A r \in Sources : read'[r] <= Len(log[r])
        /\ Reading'
    BY <1>3, <1>4, <1>9, ReadFromInv
  <1>6. VarTypes'
    BY <1>1, <1>4, <1>5, <1>9 DEF VarTypes, settingVars
  <1>7. (Tables \in Good)'
    BY <1>1, <1>4, <1>9, SameTables DEF settingVars
  <1>8. QED
    BY <1>5, <1>6, <1>7 DEF IInv

(* A batch that is recorded.                                               *)
LEMMA RecordInv ==
  ASSUME IInv, NEW s \in Sources, Record(s)
  PROVE  IInv'
  <1> DEFINE batch == pending[s]
             base == Cleanup(Tables, batch.hours)
             result == Recorded(base, batch)
  <1>1. VarTypes /\ Reading /\ Tables \in Good
    BY DEF IInv
  <1>2. /\ Becomes(result)
        /\ pending' = [pending EXCEPT ![s] = NoBatch]
        /\ UNCHANGED <<log, now, settingVars, running, shift, shifts, read, sequence>>
    BY DEF Record, startVars
  <1>3. base \in Good
    BY <1>1, CleanupGood
  <1>4. result \in Good
    <2>1. release \in Releases /\ batch \in Batch
      BY <1>1 DEF VarTypes
    <2>2. /\ \A k \in DOMAIN batch.events : batch.events[k].src = s
          /\ Whole(s) => \A k \in DOMAIN batch.events : OfLine(s, batch.events[k])
      BY <1>1 DEF Reading
    <2> HIDE DEF base, batch
    <2>3. QED
      BY <1>3, <2>1, <2>2, BatchGood
  <1> HIDE DEF result
  <1>5. (Tables \in Good)'
    BY <1>2, <1>4, NewTables DEF settingVars
  <1>6. pending' \in [Sources -> Batch]
    BY <1>1, <1>2, NoBatchType DEF VarTypes
  <1>7. VarTypes'
    BY <1>1, <1>2, <1>6 DEF VarTypes, settingVars
  <1>8. Reading'
    <2>1. \A r \in Sources : pending'[r] = pending[r] \/ pending'[r] = NoBatch
      BY <1>1, <1>2 DEF VarTypes
    <2>2. QED
      BY <1>1, <1>2, <2>1, SameReading
  <1>9. QED
    BY <1>5, <1>7, <1>8 DEF IInv

(* The API: what it deletes it deletes whole.                              *)
LEMMA DeletionInv ==
  ASSUME IInv, NEW gone \in SUBSET incidents, Becomes(Without(Tables, gone)),
         UNCHANGED <<log, now, settingVars, readerVars>>
  PROVE  IInv'
  <1>1. VarTypes /\ Reading /\ Tables \in Good
    BY DEF IInv
  <1>2. Tables.inc = incidents
    BY DEF Tables
  <1>3. Without(Tables, gone) \in Good
    BY <1>1, <1>2, WithoutGood
  <1>4. (Tables \in Good)'
    BY <1>3, NewTables DEF settingVars, readerVars, startVars
  <1>5. VarTypes'
    BY <1>1 DEF VarTypes, settingVars, readerVars, startVars
  <1>6. Reading'
    BY <1>1, SameReading DEF readerVars, startVars
  <1>7. QED
    BY <1>4, <1>5, <1>6 DEF IInv

(* A restart, into the same release or a later one.                        *)
LEMMA RestartInv ==
  ASSUME IInv, NEW v \in Releases, Restart(v)
  PROVE  IInv'
  <1>1. VarTypes /\ Reading /\ Tables \in Good
    BY DEF IInv
  <1>2. /\ v >= release /\ release' = v
        /\ Becomes(Cleanup(Merged(Tables, v), retention))
        /\ running' = [s \in Sources |-> FALSE]
        /\ pending' = [s \in Sources |-> NoBatch]
        /\ UNCHANGED <<log, now, retention, keywords, shift, shifts, read, sequence>>
    BY DEF Restart
  <1> DEFINE t == Merged(Tables, v)
             gone == Expired(t, retention)
             u == Without(t, gone)
  <1>3. Tables \in Table /\ Sound(Tables, release) /\ AllOfLines(Tables)
    BY <1>1 DEF Good
  <1>4. /\ t \in Table /\ Sound(t, v)
        /\ \A p \in t.occ : \E o \in Tables.occ : p.key = o.key
    <2>1. release \in Releases /\ release <= v
      BY <1>1, <1>2, ReleaseAssumption DEF VarTypes
    <2>2. QED
      BY <1>3, <2>1, MergedSound
  <1>5. gone \in SUBSET t.inc
    BY DEF Expired
  <1> HIDE DEF t, gone
  <1>6. u \in Table /\ Sound(u, v) /\ u.occ \subseteq t.occ
    BY <1>4, <1>5, WithoutSound
  <1>7. Tables' = u
    <2>1. Becomes(u)
      BY <1>2 DEF Cleanup, t, gone
    <2>2. u = [inc |-> u.inc, occ |-> u.occ, made |-> u.made]
      BY <1>6 DEF Table
    <2> HIDE DEF u
    <2>3. QED
      BY <2>1, <2>2 DEF Becomes, Tables
  <1> HIDE DEF u
  <1>8. AllOfLines(u)
    BY <1>3, <1>4, <1>6 DEF AllOfLines, OfLine, Shifted
  <1>9. (Tables \in Good)'
    <2>1. AllOfLines(Tables)'
      BY <1>2, <1>7, <1>8 DEF AllOfLines, Whole, OfLine, Shifted
    <2>2. Tables' \in Table /\ Sound(Tables', release')
      BY <1>2, <1>6, <1>7
    <2>3. (Tables \in Table)' /\ Sound(Tables, release)'
      BY <2>2 DEF Table, Sound, Finite, Identified, Distinct, Owned, Stamped, Counting,
                  Normalised, Grouping, Spanning, Near, In
    <2>4. QED
      BY <2>1, <2>3 DEF Good
  <1>10. VarTypes'
    BY <1>1, <1>2, NoBatchType DEF VarTypes
  <1>11. Reading'
    BY <1>1, <1>2, SameReading
  <1>12. QED
    BY <1>9, <1>10, <1>11 DEF IInv
(* Every step keeps the invariant.                                         *)
LEMMA StepInv == IInv /\ [Next]_vars => IInv'
  <1> SUFFICES ASSUME IInv, [Next]_vars PROVE IInv'
    OBVIOUS
  <1>1. VarTypes /\ Reading /\ Tables \in Good
    BY DEF IInv
  <1>2. ASSUME NEW s \in Sources, NEW line \in Line, AppendLine(s, line) PROVE IInv'
    BY <1>2, AppendInv
  <1>3. ASSUME NEW s \in Sources, (\E h \in Shifts : StartReader(s, h)) \/ Poll(s) PROVE IInv'
    BY <1>3, ReaderInv
  <1>4. ASSUME NEW s \in Sources, Record(s) PROVE IInv'
    BY <1>4, RecordInv
  <1>5. ASSUME NEW s \in Sources, StopReader(s) PROVE IInv'
    <2>1. /\ UNCHANGED <<log, now, settingVars, tableVars, shift, shifts, read, sequence, pending>>
          /\ running' = [running EXCEPT ![s] = FALSE]
      BY <1>5 DEF StopReader
    <2>2. VarTypes'
      BY <1>1, <2>1 DEF VarTypes, settingVars
    <2>3. Reading'
      BY <1>1, <2>1, SameReading
    <2>4. (Tables \in Good)'
      BY <1>1, <2>1, SameTables DEF settingVars
    <2>5. QED
      BY <2>2, <2>3, <2>4 DEF IInv
  <1>6. CASE Tick
    <2>1. /\ UNCHANGED <<log, settingVars, tableVars, readerVars>>
          /\ now < MaxNow /\ now' = now + 1
      BY <1>6 DEF Tick
    <2>2. VarTypes'
      <3>1. now' \in 1..MaxNow
        BY <1>1, <2>1, ClockAssumption DEF VarTypes
      <3>2. QED
        BY <1>1, <2>1, <3>1 DEF VarTypes, settingVars, readerVars, startVars
    <2>3. Reading'
      BY <1>1, <2>1, SameReading DEF readerVars, startVars
    <2>4. (Tables \in Good)'
      BY <1>1, <2>1, SameTables DEF settingVars, readerVars, startVars
    <2>5. QED
      BY <2>2, <2>3, <2>4 DEF IInv
  <1>7. CASE List \/ UNCHANGED vars \/ \E hours \in Retentions, keyed \in BOOLEAN : UpdateSettings(hours, keyed)
    <2>1. /\ UNCHANGED <<log, now, release, tableVars, readerVars>>
          /\ retention' \in Retentions /\ keywords' \in BOOLEAN
      BY <1>1, <1>7 DEF List, UpdateSettings, vars, settingVars, tableVars, readerVars,
                       startVars, VarTypes
    <2>2. VarTypes'
      BY <1>1, <2>1 DEF VarTypes, readerVars, startVars
    <2>3. Reading'
      BY <1>1, <2>1, SameReading DEF readerVars, startVars
    <2>4. (Tables \in Good)'
      BY <1>1, <2>1, SameTables DEF readerVars, startVars
    <2>5. QED
      BY <2>2, <2>3, <2>4 DEF IInv
  <1>8. ASSUME NEW hours \in Retentions, CleanUp(hours) PROVE IInv'
    <2>1. Expired(Tables, hours) \in SUBSET incidents
      BY DEF Expired, Tables
    <2>2. Becomes(Without(Tables, Expired(Tables, hours)))
      BY <1>8 DEF CleanUp, Cleanup
    <2>3. UNCHANGED <<log, now, settingVars, readerVars>>
      BY <1>8 DEF CleanUp
    <2>4. QED
      BY <2>1, <2>2, <2>3, DeletionInv
  <1>9. ASSUME NEW i \in incidents, Delete(i) PROVE IInv'
    BY <1>9, DeletionInv DEF Delete
  <1>10. ASSUME NEW srcs \in SUBSET Sources, DeleteForSources(srcs) PROVE IInv'
    <2> DEFINE gone == {i \in incidents : i.src \in srcs}
    <2>1. gone \in SUBSET incidents
      OBVIOUS
    <2>2. Becomes(Without(Tables, gone)) /\ UNCHANGED <<log, now, settingVars, readerVars>>
      BY <1>10 DEF DeleteForSources
    <2> HIDE DEF gone
    <2>3. QED
      BY <2>1, <2>2, DeletionInv
  <1>11. ASSUME NEW v \in Releases, Restart(v) PROVE IInv'
    BY <1>11, RestartInv
  <1>12. QED
    BY <1>2, <1>3, <1>4, <1>5, <1>6, <1>7, <1>8, <1>9, <1>10, <1>11 DEF Next

(* The tables are sound, and the readers in step with their files, in      *)
(* every reachable state.                                                  *)
THEOREM Inductive == Spec => []IInv
  BY InitInv, StepInv, PTL DEF Spec

-----------------------------------------------------------------------------
(* What it gives.                                                          *)

(* Every variable keeps its type; ids and fingerprints are unique.         *)
THEOREM TypeCorrect == Spec => []TypeOK
  <1>1. IInv => TypeOK
    <2> SUFFICES ASSUME IInv PROVE TypeOK
      OBVIOUS
    <2>1. VarTypes /\ Tables \in Table /\ Sound(Tables, release)
      BY DEF IInv, Good
    <2>2. incidents \subseteq Incident
      BY <2>1 DEF Tables, Table
    <2>3. /\ \A i, j \in incidents : i.id = j.id => i = j
          /\ \A o, p \in occurrences : o.key = p.key => o = p
      BY <2>1 DEF Tables, Sound, Identified, Distinct
    <2>4. QED
      BY <2>1, <2>2, <2>3 DEF VarTypes, TypeOK
  <1>2. QED
    BY <1>1, Inductive, PTL

(* A count is the number of stored fingerprints, and none outlives its     *)
(* group: through recordings, expiry, deletions and migrations.            *)
THEOREM CountsCorrect == Spec => []CountsAreOccurrences
  <1>1. IInv => CountsAreOccurrences
    <2> SUFFICES ASSUME IInv PROVE CountsAreOccurrences
      OBVIOUS
    <2>1. Sound(Tables, release)
      BY DEF IInv, Good
    <2>2. \A i : In(Tables, i) = Of(i)
      BY DEF In, Of, Tables
    <2>3. QED
      BY <2>1, <2>2 DEF CountsAreOccurrences, Sound, Counting, Owned, Tables
  <1>2. QED
    BY <1>1, Inductive, PTL

(* One group per message and source, also after a release that normalises  *)
(* more.                                                                   *)
THEOREM GroupsUnique == Spec => []OneGroupPerMessage
  <1>1. IInv => OneGroupPerMessage
    BY DEF IInv, Good, Sound, Grouping, OneGroupPerMessage, Tables
  <1>2. QED
    BY <1>1, Inductive, PTL

(* first_seen and last_seen are the extremes of the occurrences.           *)
THEOREM SpanCorrect == Spec => []SpanIsExact
  <1>1. IInv => SpanIsExact
    <2> SUFFICES ASSUME IInv, NEW i \in incidents
                 PROVE  /\ i.first = Min({o.time : o \in Of(i)})
                        /\ i.last = Max({o.time : o \in Of(i)})
      BY DEF SpanIsExact
    <2> DEFINE times == {o.time : o \in Of(i)}
    <2>1. Sound(Tables, release) /\ Tables \in Table
      BY DEF IInv, Good
    <2>2. In(Tables, i) = Of(i) /\ i \in Tables.inc
      BY DEF In, Of, Tables
    <2>3. /\ \E o \in Of(i) : o.time = i.first
          /\ \E o \in Of(i) : o.time = i.last
          /\ \A o \in Of(i) : i.first <= o.time /\ o.time <= i.last
      BY <2>1, <2>2 DEF Sound, Spanning
    <2>4. i.first \in times /\ i.last \in times /\ \A n \in times : i.first <= n /\ n <= i.last
      BY <2>3
    <2>5. times \subseteq Nat
      BY <2>1 DEF Of, Tables, Table, Occurrence
    <2> HIDE DEF times
    <2>6. Min(times) = i.first
      BY <2>4, <2>5, MinIs
    <2>7. Max(times) = i.last
      BY <2>4, <2>5, MaxIs
    <2>8. QED
      BY <2>6, <2>7 DEF times
  <1>2. QED
    BY <1>1, Inductive, PTL

(* What is in a group for being similar is close to another occurrence.    *)
THEOREM SimilarCorrect == Spec => []SimilarIsClose
  <1>1. IInv => SimilarIsClose
    <2> SUFFICES ASSUME IInv PROVE SimilarIsClose
      OBVIOUS
    <2>1. Sound(Tables, release)
      BY DEF IInv, Good
    <2>2. \A i : In(Tables, i) = Of(i)
      BY DEF In, Of, Tables
    <2>3. \A i \in incidents : \A o \in Of(i) :
              Normal[release][o.key.text] # i.norm =>
                  \E p \in Of(i) \ {o} : Distance(p.time, o.time) <= Window
      BY <2>1, <2>2 DEF Sound, Near, Tables
    <2>4. QED
      BY <2>3 DEF SimilarIsClose, Norm, Of
  <1>2. QED
    BY <1>1, Inductive, PTL

(* A file that fits in the tail is counted once under each shift it was    *)
(* read with: a fingerprint tells its line and the shift, and two          *)
(* fingerprints differ in one of them.                                     *)
THEOREM WholeFileCorrect == Spec => []WholeFileIsCountedOnce
  <1>1. IInv => WholeFileIsCountedOnce
    <2> SUFFICES ASSUME IInv, NEW s \in Sources, Whole(s)
                 PROVE  Counted(s) <= Len(log[s]) * Cardinality(shifts[s])
      BY DEF WholeFileIsCountedOnce, Whole
    <2>1. Tables \in Table /\ Sound(Tables, release) /\ AllOfLines(Tables)
      BY DEF IInv, Good
    <2>2. /\ Tables.inc = incidents /\ Tables.occ = occurrences
          /\ \A i : In(Tables, i) = Of(i)
      BY DEF In, Of, Tables
    <2> DEFINE S == {j \in incidents : j.src = s}
               f == [i \in S |-> i.count]
               M == [i \in S |-> Of(i)]
               A == UNION {M[i] : i \in S}
    <2>3. IsFiniteSet(S) /\ S \subseteq incidents
      <3>1. IsFiniteSet(incidents)
        BY <2>1, <2>2 DEF Sound, Finite
      <3>2. QED
        BY <3>1, FS_Subset
    <2>4. f \in [S -> Nat]
      BY <2>1, <2>2 DEF Table, Incident
    <2>5. \A i \in S : IsFiniteSet(M[i]) /\ f[i] = Cardinality(M[i])
      <3> SUFFICES ASSUME NEW i \in S PROVE IsFiniteSet(Of(i)) /\ i.count = Cardinality(Of(i))
        OBVIOUS
      <3>1. IsFiniteSet(occurrences) /\ Of(i) \subseteq occurrences
        BY <2>1, <2>2 DEF Sound, Finite, Of
      <3>2. IsFiniteSet(Of(i))
        BY <3>1, FS_Subset
      <3>3. i.count = Cardinality(Of(i))
        BY <2>1, <2>2 DEF Sound, Counting
      <3>4. QED
        BY <3>2, <3>3
    <2>6. \A i, j \in S : i # j => M[i] \cap M[j] = {}
      BY <2>1, <2>2 DEF Sound, Identified, Of
    <2>7. M = [i \in S |-> M[i]]
      OBVIOUS
    <2>8. Counted(s) = SumFunction(f)
      BY DEF Counted
    <2>9. Counted(s) = Cardinality(A)
      <3> HIDE DEF S, f, M
      <3>1. /\ IsFiniteSet(UNION {M[i] : i \in S})
            /\ SumFunction(f) = Cardinality(UNION {M[i] : i \in S})
        BY <2>3, <2>4, <2>5, <2>6, <2>7, SumCounts, SMTT(30)
      <3>2. QED
        BY <2>8, <3>1
    <2>10. \A o \in A : o \in occurrences /\ o.key.src = s
      <3> SUFFICES ASSUME NEW i \in S, NEW o \in Of(i) PROVE o \in occurrences /\ o.key.src = s
        OBVIOUS
      <3>1. o \in occurrences /\ o.incident = i.id /\ i \in incidents /\ i.src = s
        BY DEF Of
      <3>2. PICK j \in incidents : o.incident = j.id /\ o.key.src = j.src
        BY <2>1, <2>2, <3>1 DEF Sound, Owned
      <3>3. i = j
        BY <2>1, <2>2, <3>1, <3>2 DEF Sound, Identified
      <3>4. QED
        BY <3>1, <3>2, <3>3
    <2> HIDE DEF A
    <2> DEFINE T == (1..Len(log[s])) \X shifts[s]
               g == [o \in A |-> <<o.key.seq, CHOOSE h \in shifts[s] : Shifted(s, o.key, h)>>]
    <2>11. log[s] \in Seq(Line) /\ IsFiniteSet(shifts[s])
      BY DEF IInv, VarTypes
    <2>12. \A o \in A : OfLine(s, o.key)
      BY <2>1, <2>2, <2>10 DEF AllOfLines
    <2>13. \A o \in A : g[o] \in T /\ g[o][1] = o.key.seq /\ Shifted(s, o.key, g[o][2])
      <3> SUFFICES ASSUME NEW o \in A
                   PROVE  g[o] \in T /\ g[o][1] = o.key.seq /\ Shifted(s, o.key, g[o][2])
        OBVIOUS
      <3> DEFINE h == CHOOSE h \in shifts[s] : Shifted(s, o.key, h)
      <3>1. h \in shifts[s] /\ Shifted(s, o.key, h)
        BY <2>12 DEF OfLine
      <3>2. g[o] = <<o.key.seq, h>>
        OBVIOUS
      <3> HIDE DEF h, g
      <3>3. o.key.seq \in 1..Len(log[s])
        BY <2>11, <3>1 DEF Shifted
      <3>4. QED
        BY <3>1, <3>2, <3>3
    <2>14. \A o, p \in A : g[o] = g[p] => o = p
      <3> SUFFICES ASSUME NEW o \in A, NEW p \in A, g[o] = g[p] PROVE o = p
        OBVIOUS
      <3> HIDE DEF g
      <3>1. /\ o.key.seq = p.key.seq
            /\ o.key.text = p.key.text /\ o.key.time = p.key.time /\ o.key.src = p.key.src
        BY <2>10, <2>13 DEF Shifted
      <3>2. o.key \in Fingerprint /\ p.key \in Fingerprint
        BY <2>1, <2>2, <2>10 DEF Table, Occurrence
      <3>3. o.key = p.key
        BY <3>1, <3>2 DEF Fingerprint
      <3>4. QED
        BY <2>1, <2>2, <2>10, <3>3 DEF Sound, Distinct
    <2>15. IsFiniteSet(1..Len(log[s])) /\ Cardinality(1..Len(log[s])) = Len(log[s])
      <3> DEFINE n == Len(log[s])
      <3>1. n \in Nat
        BY <2>11
      <3> HIDE DEF n
      <3>2. IsFiniteSet(1..n) /\ Cardinality(1..n) = IF 1 > n THEN 0 ELSE n - 1 + 1
        BY <3>1, FS_Interval
      <3>3. Cardinality(1..n) = n
        BY <3>1, <3>2
      <3>4. QED
        BY <3>2, <3>3 DEF n
    <2>18. /\ IsFiniteSet(T)
           /\ Cardinality(T) = Len(log[s]) * Cardinality(shifts[s])
      <3> DEFINE R == 1..Len(log[s])
      <3>1. IsFiniteSet(R) /\ Cardinality(R) = Len(log[s])
        BY <2>15
      <3> HIDE DEF R
      <3>2. /\ IsFiniteSet(R \X shifts[s])
            /\ Cardinality(R \X shifts[s]) = Cardinality(R) * Cardinality(shifts[s])
        BY <2>11, <3>1, FS_Product
      <3>3. QED
        BY <3>1, <3>2 DEF R
    <2>16. Cardinality(A) <= Cardinality(T)
      <3>1. g \in [A -> T]
        <4>1. g = [o \in A |-> g[o]]
          OBVIOUS
        <4> HIDE DEF g, T
        <4>2. QED
          BY <2>13, <4>1
      <3> HIDE DEF g, T
      <3>2. QED
        BY <2>14, <2>18, <3>1, InjectionBound
    <2>17. QED
      BY <2>9, <2>16, <2>18
  <1>2. QED
    BY <1>1, Inductive, PTL
=============================================================================
