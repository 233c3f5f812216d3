----------------------------- MODULE StoreProofs -----------------------------
(***************************************************************************)
(* Proofs about EventStore, for any sources, contents, shifts, limits,     *)
(* page and batch sizes.                                                   *)
(*                                                                         *)
(* ShownInv: every event is displayed with the present shift of its        *)
(* source.  The rows alone do not say it: an insertion brings in a batch   *)
(* that was created before, under the shift of that time.  The invariant   *)
(* therefore speaks of the batches as well, and is kept because a source's *)
(* shift changes only while its reader is stopped and has no batch.        *)
(*                                                                         *)
(* StoreInv adds the numbers, of rows and batches together, and the        *)
(* counter.  From the numbers follows that the victims of every operation  *)
(* are an end of their source, the step of the refinement; from the order  *)
(* of the rows, what a query that reads page after page returns.           *)
(***************************************************************************)
EXTENDS EventStore, InductionFacts, SequenceTheorems, TLAPS

\* An event of source s, displayed as its shift says now.
Shown(s) ==
    {[n |-> i, src |-> s, content |-> c, hour |-> Displayed(c, s)] :
        i \in Nat, c \in Contents}

Hours == {IF c.hour = 0 THEN 0 ELSE c.hour + k : c \in Contents, k \in Shifts}
Entry == [n : Nat, src : Sources, content : Contents, hour : Hours]

BatchesShown ==
    /\ read \in Nat
    /\ shift \in [Sources -> Shifts]
    /\ pending \in [Sources -> Seq(Entry)]
    /\ \A s \in Sources : \A k \in DOMAIN pending[s] : pending[s][k] \in Shown(s)

RowsShown == \A r \in rows : r.src \in Sources /\ r \in Shown(r.src)

ShownInv == BatchesShown /\ RowsShown

-----------------------------------------------------------------------------
LEMMA ShownInit == Init => ShownInv
  BY DEF Init, ShownInv, BatchesShown, RowsShown

\* What a batch holds is shown.
LEMMA BatchShown ==
    ASSUME BatchesShown, NEW s \in Sources, NEW r \in ToSet(pending[s])
    PROVE  r.src = s /\ r \in Shown(s)
  BY DEF BatchesShown, ToSet, Shown

\* A step that only removes rows.
LEMMA Removal ==
    ASSUME ShownInv, rows' \subseteq rows, UNCHANGED <<shift, pending, read>>
    PROVE  ShownInv'
  BY DEF ShownInv, BatchesShown, RowsShown, Shown, Displayed

LEMMA ReadShown ==
    ASSUME ShownInv, NEW s \in Sources, NEW content \in Contents, Read(s, content)
    PROVE  ShownInv'
  <1> DEFINE e == [n |-> Number, src |-> s, content |-> content,
                   hour |-> Displayed(content, s)]
  <1>1. e \in Shown(s)
    BY DEF ShownInv, BatchesShown, Shown, Number
  <1>2. e \in Entry
    <2>1. Number \in Nat /\ shift[s] \in Shifts
      BY DEF ShownInv, BatchesShown, Number
    <2>2. Displayed(content, s) \in Hours
      BY <2>1 DEF Displayed, Hours
    <2> QED  BY <2>1, <2>2 DEF Entry
  <1>3. pending' = [pending EXCEPT ![s] = Append(@, e)] /\ read' = read + 1
        /\ UNCHANGED <<rows, shift>>
    BY DEF Read
  <1>4. \A t \in Sources : Shown(t)' = Shown(t)
    BY <1>3 DEF Shown, Displayed
  <1> HIDE DEF e
  <1>5. RowsShown'
    BY <1>3, <1>4 DEF ShownInv, RowsShown
  <1>6. pending' \in [Sources -> Seq(Entry)]
    BY <1>3, <1>2 DEF ShownInv, BatchesShown
  <1>7. ASSUME NEW t \in Sources, NEW k \in DOMAIN pending'[t]
        PROVE  pending'[t][k] \in Shown(t)
    BY <1>1, <1>3, <1>7 DEF ShownInv, BatchesShown
  <1>8. BatchesShown'
    BY <1>3, <1>4, <1>6, <1>7 DEF ShownInv, BatchesShown
  <1> QED  BY <1>5, <1>8 DEF ShownInv

LEMMA InsertShown ==
    ASSUME ShownInv, NEW s \in Sources, NEW limit, Insert(s, limit)
    PROVE  ShownInv'
  <1>1. rows' \subseteq rows \cup ToSet(pending[s])
    BY DEF Insert
  <1>2. pending' = [pending EXCEPT ![s] = <<>>] /\ UNCHANGED <<shift, read>>
    BY DEF Insert
  <1>3. \A t \in Sources : Shown(t)' = Shown(t)
    BY <1>2 DEF Shown, Displayed
  <1>4. RowsShown'
    BY <1>1, <1>3, BatchShown DEF ShownInv, RowsShown
  <1>5. BatchesShown'
    BY <1>2, <1>3 DEF ShownInv, BatchesShown
  <1> QED  BY <1>4, <1>5 DEF ShownInv

LEMMA ShiftShown ==
    ASSUME ShownInv, NEW s \in Sources, NEW hours \in Shifts, ShiftSource(s, hours)
    PROVE  ShownInv'
  <1>1. /\ pending[s] = <<>> /\ UNCHANGED <<pending, read>>
        /\ shift' = [shift EXCEPT ![s] = hours]
        /\ rows' = {IF r.src = s THEN Shifted(r, hours) ELSE r : r \in rows}
    BY DEF ShiftSource
  <1>2. \A t \in Sources \ {s} : Shown(t)' = Shown(t)
    BY <1>1 DEF ShownInv, BatchesShown, Shown, Displayed
  <1>3. ASSUME NEW r \in rows, r.src = s
        PROVE  Shifted(r, hours).src = s /\ Shifted(r, hours) \in Shown(s)'
    <2>1. PICK i \in Nat, c \in Contents :
              r = [n |-> i, src |-> s, content |-> c, hour |-> Displayed(c, s)]
      BY <1>3 DEF ShownInv, RowsShown, Shown
    <2>2. shift'[s] = hours
      BY <1>1 DEF ShownInv, BatchesShown
    <2>3. Shifted(r, hours) =
              [n |-> i, src |-> s, content |-> c,
               hour |-> IF c.hour = 0 THEN 0 ELSE c.hour + shift'[s]]
      BY <2>1, <2>2 DEF Shifted
    <2>4. [n |-> i, src |-> s, content |-> c, hour |-> Displayed(c, s)'] \in Shown(s)'
      BY DEF Shown
    <2>5. Displayed(c, s)' = IF c.hour = 0 THEN 0 ELSE c.hour + shift'[s]
      BY DEF Displayed
    <2>6. Shifted(r, hours) \in Shown(s)'
      BY <2>3, <2>4, <2>5
    <2>7. Shifted(r, hours).src = s
      BY <2>3
    <2> QED  BY <2>6, <2>7
  <1>4. RowsShown'
    <2> SUFFICES ASSUME NEW x \in rows' PROVE x.src \in Sources /\ x \in Shown(x.src)'
      BY DEF RowsShown
    <2>1. PICK r \in rows : x = IF r.src = s THEN Shifted(r, hours) ELSE r
      BY <1>1
    <2>2. CASE r.src = s
      <3>1. x = Shifted(r, hours)
        BY <2>1, <2>2
      <3>2. x.src = s /\ x \in Shown(s)'
        BY <1>3, <2>2, <3>1
      <3> QED  BY <3>2
    <2>3. CASE r.src # s
      BY <1>2, <2>1, <2>3 DEF ShownInv, RowsShown
    <2> QED  BY <2>2, <2>3
  <1>5. BatchesShown'
    <2>1. \A t \in Sources : \A k \in DOMAIN pending[t] : pending[t][k] \in Shown(t)'
      BY <1>1, <1>2, SMTT(30) DEF ShownInv, BatchesShown
    <2>2. shift' \in [Sources -> Shifts]
      BY <1>1 DEF ShownInv, BatchesShown
    <2> QED  BY <1>1, <2>1, <2>2 DEF ShownInv, BatchesShown
  <1> QED  BY <1>4, <1>5 DEF ShownInv

LEMMA ShownNext == ShownInv /\ [Next]_vars => ShownInv'
  <1> SUFFICES ASSUME ShownInv, [Next]_vars PROVE ShownInv'
    OBVIOUS
  <1>1. ASSUME NEW s \in Sources, NEW content \in Contents, Read(s, content)
        PROVE  ShownInv'
    BY <1>1, ReadShown
  <1>2. ASSUME NEW s \in Sources, NEW limit \in Limits \cup {0}, Insert(s, limit)
        PROVE  ShownInv'
    BY <1>2, InsertShown
  <1>3. ASSUME NEW s \in Sources, NEW limit \in Limits,
               TrimSource(s, limit) \/ DeleteLatest(s, limit)
        PROVE  ShownInv'
    BY <1>3, Removal DEF TrimSource, DeleteLatest, Delete
  <1>4. ASSUME NEW s \in Sources, DeleteSource(s)
        PROVE  ShownInv'
    BY <1>4, Removal DEF DeleteSource, Delete
  <1>5. ASSUME NEW s \in Sources, NEW hours \in Shifts, ShiftSource(s, hours)
        PROVE  ShownInv'
    BY <1>5, ShiftShown
  <1>6. ASSUME NEW bytes \in ByteLimits, UpdateSettings(bytes)
        PROVE  ShownInv'
    BY <1>6, Removal DEF UpdateSettings
  <1>7. CASE UNCHANGED vars
    BY <1>7, Removal DEF vars
  <1> QED  BY <1>1, <1>2, <1>3, <1>4, <1>5, <1>6, <1>7 DEF Next

(* Every buffered event is displayed with the shift its source has now,    *)
(* for any number of sources and whatever was shifted, trimmed, evicted    *)
(* and inserted before.                                                    *)
THEOREM DisplayIsCurrent == Spec => []DisplayFollowsShift
  <1>1. ShownInv => DisplayFollowsShift
    BY DEF ShownInv, RowsShown, Shown, DisplayFollowsShift
  <1>2. Spec => []ShownInv
    BY ShownInit, ShownNext, PTL DEF Spec
  <1> QED  BY <1>1, <1>2, PTL

-----------------------------------------------------------------------------
(* Bytes: the size of a set of rows is the number of their bytes, so that  *)
(* sums of rows are sizes of sets.                                         *)

Sized(R) == IsFiniteSet(R) /\ \A r \in R : r.content.size \in Nat
Units(R) == {p \in R \X Nat : p[2] \in 1..p[1].content.size}

LEMMA BytesCount ==
    ASSUME NEW R, Sized(R)
    PROVE  IsFiniteSet(Units(R)) /\ Bytes(R) = Cardinality(Units(R))
  <1> DEFINE f == [r \in R |-> r.content.size]
             Pairs(r) == {r} \X (1..r.content.size)
             M == [r \in R |-> Pairs(r)]
  <1>1. f \in [R -> Nat] /\ IsFiniteSet(R)
    BY DEF Sized
  <1>2. ASSUME NEW r \in R
        PROVE  M[r] = {r} \X (1..r.content.size) /\ f[r] = r.content.size
    <2> HIDE DEF Pairs
    <2>1. M[r] = Pairs(r)
      OBVIOUS
    <2>2. f[r] = r.content.size
      OBVIOUS
    <2> QED  BY <2>1, <2>2 DEF Pairs
  <1>3. ASSUME NEW r \in R PROVE IsFiniteSet(M[r]) /\ f[r] = Cardinality(M[r])
    <2>1. PICK n \in Nat : n = r.content.size
      BY DEF Sized
    <2>2. IsFiniteSet({r}) /\ Cardinality({r}) = 1
      BY FS_Singleton
    <2>3. IsFiniteSet(1..n) /\ Cardinality(1..n) = n
      BY FS_Interval
    <2> DEFINE I == 1..n
    <2> HIDE DEF I
    <2>4. IsFiniteSet({r} \X I) /\ Cardinality({r} \X I) = Cardinality({r}) * Cardinality(I)
      BY <2>2, <2>3, FS_Product DEF I
    <2>5. M[r] = {r} \X I /\ f[r] = n
      BY <1>2, <2>1 DEF I
    <2>6. Cardinality({r}) * Cardinality(I) = n
      BY <2>2, <2>3 DEF I
    <2> HIDE DEF M, f
    <2> QED  BY <2>4, <2>5, <2>6
  <1>4. ASSUME NEW x \in R, NEW y \in R, x # y PROVE M[x] \cap M[y] = {}
    <2>1. /\ M[x] = {x} \X (1..x.content.size)
          /\ M[y] = {y} \X (1..y.content.size)
      BY <1>2
    <2> HIDE DEF M
    <2> QED  BY <1>4, <2>1
  <1>5. UNION {M[r] : r \in R} = Units(R)
    <2> HIDE DEF M
    <2>1. ASSUME NEW r \in R, NEW p \in M[r] PROVE p \in Units(R)
      <3>1. p \in {r} \X (1..r.content.size)
        BY <1>2
      <3>2. p \in R \X Nat /\ p[1] = r /\ p[2] \in 1..r.content.size
        BY <3>1 DEF Sized
      <3> QED  BY <3>2 DEF Units
    <2>2. ASSUME NEW p \in Units(R) PROVE p[1] \in R /\ p \in M[p[1]]
      <3>1. p \in R \X Nat /\ p[2] \in 1..p[1].content.size
        BY DEF Units
      <3>2. p \in {p[1]} \X (1..p[1].content.size)
        BY <3>1
      <3> QED  BY <1>2, <3>1, <3>2
    <2> QED  BY <2>1, <2>2
  <1>6. M = [r \in R |-> M[r]]
    OBVIOUS
  <1>7. Bytes(R) = SumFunction(f)
    BY DEF Bytes
  <1>8. /\ IsFiniteSet(UNION {M[r] : r \in R})
        /\ SumFunction(f) = Cardinality(UNION {M[r] : r \in R})
    <2> HIDE DEF M, f
    <2> QED  BY <1>1, <1>3, <1>4, <1>6, SumCounts
  <1> QED  BY <1>5, <1>7, <1>8

LEMMA BytesType == ASSUME NEW R, Sized(R) PROVE Bytes(R) \in Nat
  BY BytesCount, FS_CardinalityType

LEMMA BytesEmpty == Sized({}) /\ Bytes({}) = 0
  <1>1. Sized({}) /\ Units({}) = {}
    BY FS_EmptySet DEF Sized, Units
  <1> QED  BY <1>1, BytesCount, FS_EmptySet

\* The bytes of rows apart add up.
LEMMA BytesUnion ==
    ASSUME NEW A, Sized(A), NEW B, Sized(B), A \cap B = {}
    PROVE  Sized(A \cup B) /\ Bytes(A \cup B) = Bytes(A) + Bytes(B)
  <1>1. Sized(A \cup B)
    BY FS_Union DEF Sized
  <1>2. Units(A \cup B) = Units(A) \cup Units(B) /\ Units(A) \cap Units(B) = {}
    BY DEF Units
  <1>3. IsFiniteSet(Units(A)) /\ IsFiniteSet(Units(B))
    BY BytesCount
  <1>4. Cardinality(Units(A) \cup Units(B)) =
            Cardinality(Units(A)) + Cardinality(Units(B))
                - Cardinality(Units(A) \cap Units(B))
    BY <1>3, FS_Union
  <1>5. Cardinality(Units(A) \cap Units(B)) = 0
    BY <1>2, FS_EmptySet
  <1>6. Cardinality(Units(A)) \in Nat /\ Cardinality(Units(B)) \in Nat
    BY <1>3, FS_CardinalityType
  <1>7. /\ Bytes(A) = Cardinality(Units(A)) /\ Bytes(B) = Cardinality(Units(B))
        /\ Bytes(A \cup B) = Cardinality(Units(A \cup B))
    BY <1>1, BytesCount
  <1>8. Cardinality(Units(A \cup B)) = Cardinality(Units(A)) + Cardinality(Units(B))
    <2> HIDE DEF Units
    <2>1. Cardinality(Units(A \cup B)) = Cardinality(Units(A) \cup Units(B))
      BY <1>2
    <2> QED  BY <1>4, <1>5, <1>6, <2>1
  <1> QED  BY <1>1, <1>7, <1>8

LEMMA SizedSubset == ASSUME NEW R, Sized(R), NEW X \in SUBSET R PROVE Sized(X)
  BY FS_Subset DEF Sized

\* A counter that is exact stays so when the deleted rows are subtracted.
LEMMA DropExact ==
    ASSUME NEW R, Sized(R), NEW X \in SUBSET R
    PROVE  Drop(Bytes(R), X) = Bytes(R \ X)
  <1>1. Sized(X) /\ Sized(R \ X)
    BY SizedSubset
  <1>2. (R \ X) \cup X = R /\ (R \ X) \cap X = {}
    OBVIOUS
  <1>3. Bytes(R) = Bytes(R \ X) + Bytes(X)
    BY <1>1, <1>2, BytesUnion
  <1>4. Bytes(X) \in Nat /\ Bytes(R \ X) \in Nat
    BY <1>1, BytesType
  <1> QED  BY <1>3, <1>4 DEF Drop

-----------------------------------------------------------------------------
(* The numbers.  A row's number is its own; the rows of a source come      *)
(* before its batch, and the batch is in order.                            *)

RowsNumbered ==
    /\ IsFiniteSet(rows)
    /\ \A r \in rows : r.n \in 1..read
    /\ \A a, b \in rows : a.n = b.n => a = b

BatchesNumbered ==
    \A s \in Sources :
        /\ \A i \in DOMAIN pending[s] : pending[s][i].n \in 1..read
        /\ \A i, j \in DOMAIN pending[s] : i < j => pending[s][i].n < pending[s][j].n
        /\ \A t \in Sources : s # t =>
               \A i \in DOMAIN pending[s], j \in DOMAIN pending[t] :
                   pending[s][i].n # pending[t][j].n

RowsBefore ==
    \A r \in rows : \A s \in Sources : \A i \in DOMAIN pending[s] :
        r.n # pending[s][i].n /\ (r.src = s => r.n < pending[s][i].n)

Numbered == RowsNumbered /\ BatchesNumbered /\ RowsBefore

StoreInv ==
    /\ ShownInv
    /\ Numbered
    /\ read \in 0..MaxEvents
    /\ maxBytes \in ByteLimits
    /\ logical = Bytes(rows)

\* What a row is made of.
LEMMA RowShape ==
    ASSUME ShownInv, NEW r \in rows
    PROVE  /\ r.n \in Nat /\ r.src \in Sources /\ r.content \in Contents
           /\ r.hour = Displayed(r.content, r.src)
           /\ r = [n |-> r.n, src |-> r.src, content |-> r.content, hour |-> r.hour]
  BY DEF ShownInv, RowsShown, Shown

LEMMA RowsSized == ASSUME ShownInv, Numbered PROVE Sized(rows)
  BY RowShape, ContentAssumption DEF Numbered, RowsNumbered, Sized

LEMMA BatchSized ==
    ASSUME ShownInv, NEW s \in Sources
    PROVE  Sized(ToSet(pending[s]))
  <1>1. pending[s] \in Seq(Entry)
    BY DEF ShownInv, BatchesShown
  <1>2. Len(pending[s]) \in Nat /\ DOMAIN pending[s] = 1..Len(pending[s])
    BY <1>1
  <1>3. IsFiniteSet(DOMAIN pending[s])
    <2> DEFINE n == Len(pending[s])
    <2>1. n \in Nat /\ DOMAIN pending[s] = 1..n
      BY <1>2
    <2> HIDE DEF n
    <2> QED  BY <2>1, FS_Interval
  <1>4. IsFiniteSet(ToSet(pending[s]))
    <2> DEFINE D == DOMAIN pending[s]
               T == ToSet(pending[s])
               f == [x \in T |-> CHOOSE i \in D : pending[s][i] = x]
    <2>1. \A x \in T : f[x] \in D /\ pending[s][f[x]] = x
      BY DEF ToSet
    <2>2. f \in [T -> D]
      BY <2>1
    <2>3. \A x, y \in T : f[x] = f[y] => x = y
      BY <2>1
    <2> HIDE DEF f, T, D
    <2>4. IsFiniteSet(D)
      BY <1>3 DEF D
    <2>5. IsFiniteSet(T)
      BY <2>2, <2>3, <2>4, InjectionBound
    <2> QED  BY <2>5 DEF T
  <1>5. \A r \in ToSet(pending[s]) : r.content \in Contents
    BY BatchShown DEF ShownInv, Shown
  <1> QED  BY <1>4, <1>5, ContentAssumption DEF Sized

-----------------------------------------------------------------------------
(* The steps.                                                              *)

LEMMA StoreInit == Init => StoreInv
  BY ShownInit, BytesEmpty, FS_EmptySet, BoundAssumption
  DEF Init, StoreInv, Numbered, RowsNumbered, BatchesNumbered, RowsBefore

\* A step that deletes rows and subtracts their bytes.
LEMMA DeletionKeeps ==
    ASSUME StoreInv, NEW R \in SUBSET rows, Delete(R),
           UNCHANGED <<maxBytes, shift, pending, read>>
    PROVE  StoreInv'
  <1>1. rows' = rows \ R /\ logical' = Drop(logical, R)
    BY DEF Delete
  <1>2. ShownInv'
    BY <1>1, Removal DEF StoreInv
  <1>3. logical' = Bytes(rows')
    BY <1>1, RowsSized, DropExact DEF StoreInv
  <1>4. Numbered'
    <2>1. IsFiniteSet(rows')
      BY <1>1, FS_Subset DEF StoreInv, Numbered, RowsNumbered
    <2> QED
      BY <1>1, <2>1 DEF StoreInv, Numbered, RowsNumbered, BatchesNumbered, RowsBefore
  <1> QED  BY <1>2, <1>3, <1>4 DEF StoreInv

LEMMA ReadKeeps ==
    ASSUME StoreInv, NEW s \in Sources, NEW content \in Contents, Read(s, content)
    PROVE  StoreInv'
  <1> DEFINE e == [n |-> Number, src |-> s, content |-> content,
                   hour |-> Displayed(content, s)]
  <1>1. /\ read < MaxEvents /\ read' = read + 1
        /\ pending' = [pending EXCEPT ![s] = Append(@, e)]
        /\ UNCHANGED <<rows, logical, maxBytes, shift>>
    BY DEF Read
  <1>2. e.n = read + 1
    BY DEF Number
  <1> HIDE DEF e
  <1>3. read \in Nat /\ read' \in 0..MaxEvents
    BY <1>1, BoundAssumption DEF StoreInv
  <1>4. pending[s] \in Seq(Entry) /\ pending \in [Sources -> Seq(Entry)]
    BY DEF StoreInv, ShownInv, BatchesShown
  <1>5. PICK m \in Nat : Len(pending[s]) = m
    BY <1>4
  <1>6. /\ pending'[s] = Append(pending[s], e)
        /\ \A t \in Sources \ {s} : pending'[t] = pending[t]
    BY <1>1, <1>4
  <1>7. /\ DOMAIN pending[s] = 1..m /\ DOMAIN pending'[s] = 1..(m + 1)
        /\ \A i \in 1..m : pending'[s][i] = pending[s][i]
        /\ pending'[s][m + 1] = e
    BY <1>4, <1>5, <1>6
  <1>8. \A i \in 1..(m + 1) : i \in 1..m \/ i = m + 1
    OBVIOUS
  <1>9. BatchesNumbered /\ RowsNumbered /\ RowsBefore
    BY DEF StoreInv, Numbered
  <1>10. RowsNumbered'
    BY <1>1, <1>3, <1>9 DEF RowsNumbered
  <1>11. ASSUME NEW i \in DOMAIN pending'[s]
         PROVE  \/ i \in DOMAIN pending[s] /\ pending'[s][i] = pending[s][i]
                \/ pending'[s][i].n = read + 1 /\ i = m + 1
    BY <1>2, <1>7, <1>8
  <1>12. ASSUME NEW t \in Sources
         PROVE  \A i \in DOMAIN pending'[t] : pending'[t][i].n \in 1..read'
    BY <1>1, <1>3, <1>6, <1>9, <1>11 DEF BatchesNumbered
  <1>13. ASSUME NEW t \in Sources, NEW i \in DOMAIN pending'[t],
                NEW j \in DOMAIN pending'[t], i < j
         PROVE  pending'[t][i].n < pending'[t][j].n
    <2>1. CASE t # s
      BY <1>6, <1>9, <1>13, <2>1 DEF BatchesNumbered
    <2>2. CASE t = s
      <3>1. i \in 1..(m + 1) /\ j \in 1..(m + 1)
        BY <1>7, <1>13, <2>2
      <3>2. i \in 1..m
        BY <1>13, <3>1
      <3>3. pending[s][i].n \in 1..read /\ pending'[s][i] = pending[s][i]
        BY <1>7, <1>9, <3>2 DEF BatchesNumbered
      <3>4. CASE j = m + 1
        BY <1>2, <1>3, <1>7, <2>2, <3>3, <3>4
      <3>5. CASE j \in 1..m
        BY <1>7, <1>9, <1>13, <2>2, <3>2, <3>5 DEF BatchesNumbered
      <3> QED  BY <1>8, <3>1, <3>4, <3>5
    <2> QED  BY <2>1, <2>2
  <1>14. ASSUME NEW t \in Sources, NEW u \in Sources, t # u,
                NEW i \in DOMAIN pending'[t], NEW j \in DOMAIN pending'[u]
         PROVE  pending'[t][i].n # pending'[u][j].n
    <2>1. ASSUME NEW v \in Sources, v # s, NEW k \in DOMAIN pending'[v]
          PROVE  /\ k \in DOMAIN pending[v] /\ pending'[v][k] = pending[v][k]
                 /\ pending[v][k].n \in 1..read
      BY <1>6, <1>9, <2>1 DEF BatchesNumbered
    <2>2. CASE t # s /\ u # s
      BY <1>9, <1>14, <2>1, <2>2 DEF BatchesNumbered
    <2>3. CASE t = s
      <3>1. /\ j \in DOMAIN pending[u] /\ pending'[u][j] = pending[u][j]
            /\ pending[u][j].n \in 1..read
        BY <1>14, <2>1, <2>3
      <3>2. CASE i \in DOMAIN pending[s] /\ pending'[s][i] = pending[s][i]
        BY <1>9, <1>14, <2>3, <3>1, <3>2 DEF BatchesNumbered
      <3>3. CASE pending'[s][i].n = read + 1
        BY <1>3, <2>3, <3>1, <3>3
      <3> QED  BY <1>11, <2>3, <3>2, <3>3
    <2>4. CASE u = s
      <3>1. /\ i \in DOMAIN pending[t] /\ pending'[t][i] = pending[t][i]
            /\ pending[t][i].n \in 1..read
        BY <1>14, <2>1, <2>4
      <3>2. CASE j \in DOMAIN pending[s] /\ pending'[s][j] = pending[s][j]
        BY <1>9, <1>14, <2>4, <3>1, <3>2 DEF BatchesNumbered
      <3>3. CASE pending'[s][j].n = read + 1
        BY <1>3, <2>4, <3>1, <3>3
      <3> QED  BY <1>11, <2>4, <3>2, <3>3
    <2> QED  BY <2>2, <2>3, <2>4
  <1>15. BatchesNumbered'
    BY <1>12, <1>13, <1>14 DEF BatchesNumbered
  <1>16. RowsBefore'
    <2> SUFFICES ASSUME NEW r \in rows, NEW t \in Sources, NEW i \in DOMAIN pending'[t]
                 PROVE  /\ r.n # pending'[t][i].n
                        /\ r.src = t => r.n < pending'[t][i].n
      BY <1>1 DEF RowsBefore
    <2>1. r.n \in 1..read
      BY <1>9 DEF RowsNumbered
    <2>2. CASE i \in DOMAIN pending[t] /\ pending'[t][i] = pending[t][i]
      BY <1>9, <2>2 DEF RowsBefore
    <2>3. CASE pending'[t][i].n = read + 1
      BY <1>3, <2>1, <2>3
    <2> QED  BY <1>6, <1>11, <2>2, <2>3
  <1>17. ShownInv'
    BY ReadShown DEF StoreInv
  <1> QED  BY <1>1, <1>3, <1>10, <1>15, <1>16, <1>17 DEF StoreInv, Numbered

\* The victims of the limits are rows.
LEMMA ExcessRows ==
    ASSUME NEW R, NEW limit
    PROVE  Excess(R, limit) \subseteq R
  BY DEF Excess, Oldest

LEMMA PrunedRows ==
    ASSUME NEW R, NEW counter
    PROVE  Pruned(R, counter) \subseteq R
  BY DEF Pruned, Oldest

\* The rows of an insertion: the batch joins, the victims leave.
LEMMA InsertedRows ==
    ASSUME NEW s \in Sources, NEW limit, Insert(s, limit)
    PROVE  LET added == rows \cup ToSet(pending[s])
               excess == IF limit = 0 THEN {}
                         ELSE Excess({r \in added : r.src = s}, limit)
               pruned == Pruned(added \ excess,
                                Drop(logical + Bytes(ToSet(pending[s])), excess))
           IN  /\ excess \subseteq added
               /\ pruned \subseteq added \ excess
               /\ rows' = (added \ excess) \ pruned
               /\ logical' = Drop(Drop(logical + Bytes(ToSet(pending[s])), excess), pruned)
  BY ExcessRows, PrunedRows DEF Insert

\* Rows of different numbers.
Ranked(R) ==
    /\ IsFiniteSet(R)
    /\ \A r \in R : r.n \in Nat
    /\ \A a, b \in R : a.n = b.n => a = b

\* The batch brings in numbers of its own.
LEMMA AddedRanked ==
    ASSUME StoreInv, NEW s \in Sources
    PROVE  /\ Ranked(rows \cup ToSet(pending[s]))
           /\ \A r \in rows \cup ToSet(pending[s]) : r.n \in 1..read
  <1> DEFINE batch == ToSet(pending[s])
  <1>1. RowsNumbered /\ BatchesNumbered /\ RowsBefore /\ read \in Nat
    BY DEF StoreInv, Numbered, ShownInv, BatchesShown
  <1>2. \A r \in batch : \E i \in DOMAIN pending[s] : r = pending[s][i]
    BY DEF ToSet
  <1> HIDE DEF batch
  <1>3. ASSUME NEW r \in rows \cup batch PROVE r.n \in 1..read
    BY <1>1, <1>2 DEF RowsNumbered, BatchesNumbered
  <1>4. IsFiniteSet(rows \cup batch)
    BY RowsSized, BatchSized, FS_Union DEF StoreInv, Sized, batch
  <1>5. ASSUME NEW a \in rows \cup batch, NEW b \in rows \cup batch, a.n = b.n PROVE a = b
    <2>1. CASE a \in rows /\ b \in rows
      BY <1>1, <1>5, <2>1 DEF RowsNumbered
    <2>2. CASE a \in batch /\ b \in rows
      BY <1>1, <1>2, <1>5, <2>2 DEF RowsBefore
    <2>3. CASE a \in rows /\ b \in batch
      BY <1>1, <1>2, <1>5, <2>3 DEF RowsBefore
    <2>4. CASE a \in batch /\ b \in batch
      <3>1. PICK i \in DOMAIN pending[s] : a = pending[s][i]
        BY <1>2, <2>4
      <3>2. PICK j \in DOMAIN pending[s] : b = pending[s][j]
        BY <1>2, <2>4
      <3>3. pending[s] \in Seq(Entry)
        BY DEF StoreInv, ShownInv, BatchesShown
      <3>4. i \in Nat /\ j \in Nat
        BY <3>3
      <3>5. a.n \in Nat /\ b.n \in Nat
        BY <1>1, <1>3
      <3>6. ~ (i < j) /\ ~ (j < i)
        BY <1>1, <1>5, <3>1, <3>2, <3>5 DEF BatchesNumbered
      <3> QED  BY <3>1, <3>2, <3>4, <3>6
    <2> QED  BY <2>1, <2>2, <2>3, <2>4
  <1>6. \A r \in rows \cup batch : r.n \in Nat
    BY <1>1, <1>3
  <1>7. Ranked(rows \cup batch)
    BY <1>4, <1>5, <1>6 DEF Ranked
  <1> QED  BY <1>3, <1>7 DEF batch

LEMMA InsertKeeps ==
    ASSUME StoreInv, NEW s \in Sources, NEW limit, Insert(s, limit)
    PROVE  StoreInv'
  <1> DEFINE batch == ToSet(pending[s])
             added == rows \cup batch
  <1>1. /\ pending' = [pending EXCEPT ![s] = <<>>]
        /\ UNCHANGED <<maxBytes, shift, read>>
    BY DEF Insert
  <1>2. PICK excess \in SUBSET added : \E pruned \in SUBSET (added \ excess) :
            /\ rows' = (added \ excess) \ pruned
            /\ logical' = Drop(Drop(logical + Bytes(batch), excess), pruned)
    BY InsertedRows
  <1>3. PICK pruned \in SUBSET (added \ excess) :
            /\ rows' = (added \ excess) \ pruned
            /\ logical' = Drop(Drop(logical + Bytes(batch), excess), pruned)
    BY <1>2
  <1>4. RowsNumbered /\ BatchesNumbered /\ RowsBefore
    BY DEF StoreInv, Numbered
  <1>5. ASSUME NEW r \in batch
        PROVE  \E i \in DOMAIN pending[s] : r = pending[s][i]
    BY DEF ToSet
  <1>6. rows \cap batch = {}
    BY <1>4, <1>5 DEF RowsBefore
  <1> HIDE DEF batch
  <1>7. Sized(rows) /\ Sized(batch)
    BY RowsSized, BatchSized DEF StoreInv, batch
  <1>8. Sized(added) /\ Bytes(added) = logical + Bytes(batch)
    BY <1>6, <1>7, BytesUnion DEF StoreInv
  <1> HIDE DEF added
  <1>9. Drop(Bytes(added), excess) = Bytes(added \ excess) /\ Sized(added \ excess)
    BY <1>8, DropExact, SizedSubset
  <1>10. Drop(Bytes(added \ excess), pruned) = Bytes((added \ excess) \ pruned)
    BY <1>3, <1>9, DropExact
  <1>11. logical' = Bytes(rows')
    BY <1>3, <1>8, <1>9, <1>10
  <1>12. ASSUME NEW r \in rows' PROVE r \in rows \/ r \in batch
    BY <1>3 DEF added
  <1>13. RowsNumbered'
    <2>1. IsFiniteSet(rows')
      BY <1>3, <1>8, FS_Subset DEF Sized
    <2>2. rows' \subseteq rows \cup ToSet(pending[s])
      BY <1>12 DEF batch
    <2> QED  BY <1>1, <2>1, <2>2, AddedRanked DEF RowsNumbered, Ranked
  <1>14. /\ pending'[s] = <<>> /\ DOMAIN pending'[s] = {}
         /\ \A t \in Sources \ {s} : pending'[t] = pending[t]
    BY <1>1 DEF StoreInv, ShownInv, BatchesShown
  <1>15. BatchesNumbered'
    BY <1>1, <1>4, <1>14 DEF BatchesNumbered
  <1>16. RowsBefore'
    <2> SUFFICES ASSUME NEW r \in rows', NEW t \in Sources, NEW i \in DOMAIN pending'[t]
                 PROVE  /\ r.n # pending'[t][i].n
                        /\ r.src = t => r.n < pending'[t][i].n
      BY DEF RowsBefore
    <2>1. t # s /\ i \in DOMAIN pending[t] /\ pending'[t][i] = pending[t][i]
      BY <1>14
    <2>2. CASE r \in rows
      BY <1>4, <2>1, <2>2 DEF RowsBefore
    <2>3. CASE r \in batch
      <3>1. r.src = s
        BY <2>3, BatchShown DEF StoreInv, ShownInv, batch
      <3> QED  BY <1>4, <1>5, <2>1, <2>3, <3>1 DEF BatchesNumbered
    <2> QED  BY <1>12, <2>2, <2>3
  <1>17. ShownInv'
    BY InsertShown DEF StoreInv
  <1> QED  BY <1>1, <1>11, <1>13, <1>15, <1>16, <1>17 DEF StoreInv, Numbered

\* A shift keeps what a row is but for the hour.
LEMMA ShiftedRow ==
    ASSUME ShownInv, NEW r \in rows, NEW hours
    PROVE  /\ Shifted(r, hours).n = r.n /\ Shifted(r, hours).src = r.src
           /\ Shifted(r, hours).content = r.content
  <1>1. r = [n |-> r.n, src |-> r.src, content |-> r.content, hour |-> r.hour]
    BY RowShape
  <1> QED  BY <1>1 DEF Shifted

\* Rows that map to rows of the same size, one to one, have as many bytes.
LEMMA BytesImage ==
    ASSUME NEW R, Sized(R), NEW g, DOMAIN g = R, g = [r \in R |-> g[r]],
           \A x, y \in R : g[x] = g[y] => x = y,
           \A r \in R : g[r].content = r.content
    PROVE  /\ Sized({g[r] : r \in R})
           /\ Bytes({g[r] : r \in R}) = Bytes(R)
  <1> DEFINE T == {g[r] : r \in R}
             f == [p \in Units(R) |-> <<g[p[1]], p[2]>>]
  <1>1. IsFiniteSet(T)
    <2>1. IsFiniteSet(R)
      BY DEF Sized
    <2>2. /\ IsFiniteSet({g[x] : x \in R})
          /\ Cardinality({g[x] : x \in R}) = Cardinality(R)
      BY <2>1, ImageCounts
    <2> QED  BY <2>2
  <1>2. Sized(T)
    BY <1>1 DEF Sized
  <1>3. \A p \in Units(R) : p = <<p[1], p[2]>> /\ p[1] \in R
    BY DEF Units
  <1>4. ASSUME NEW p \in Units(R), NEW q \in Units(R), f[p] = f[q] PROVE p = q
    <2>1. g[p[1]] = g[q[1]] /\ p[2] = q[2]
      BY <1>4
    <2> QED  BY <1>3, <2>1
  <1>5. {f[p] : p \in Units(R)} = Units(T)
    <2>1. ASSUME NEW p \in Units(R) PROVE f[p] \in Units(T)
      <3>1. p[1] \in R /\ p[2] \in Nat /\ p[2] \in 1..p[1].content.size
        BY DEF Units
      <3>2. g[p[1]] \in T /\ g[p[1]].content = p[1].content
        BY <3>1
      <3>3. f[p] = <<g[p[1]], p[2]>>
        OBVIOUS
      <3> HIDE DEF T, f
      <3>4. <<g[p[1]], p[2]>> \in Units(T)
        BY <3>1, <3>2 DEF Units
      <3> QED  BY <3>3, <3>4
    <2>2. ASSUME NEW u \in Units(T) PROVE \E p \in Units(R) : f[p] = u
      <3>1. u \in T \X Nat /\ u[2] \in 1..u[1].content.size
        BY DEF Units
      <3>2. PICK r \in R : u[1] = g[r]
        BY <3>1
      <3>3. u = <<g[r], u[2]>> /\ u[2] \in 1..r.content.size /\ u[2] \in Nat
        BY <3>1, <3>2
      <3>4. <<r, u[2]>> \in Units(R)
        BY <3>3 DEF Units
      <3>5. f[<<r, u[2]>>] = <<g[r], u[2]>>
        BY <3>4
      <3> QED  BY <3>3, <3>4, <3>5
    <2> HIDE DEF f, T
    <2> QED  BY <2>1, <2>2
  <1>6. IsFiniteSet(Units(R)) /\ Bytes(R) = Cardinality(Units(R))
    BY BytesCount
  <1>7. Bytes(T) = Cardinality(Units(T))
    BY <1>2, BytesCount
  <1> DEFINE U == Units(R)
  <1>8. IsFiniteSet(U) /\ DOMAIN f = U /\ f = [p \in U |-> f[p]]
    BY <1>6
  <1>9. \A p, q \in U : f[p] = f[q] => p = q
    BY <1>4
  <1>10. Cardinality({f[p] : p \in U}) = Cardinality(U)
    <2> HIDE DEF f, U
    <2>1. /\ IsFiniteSet({f[x] : x \in U})
          /\ Cardinality({f[x] : x \in U}) = Cardinality(U)
      BY <1>8, <1>9, ImageCounts
    <2> QED  BY <2>1
  <1> QED  BY <1>2, <1>5, <1>6, <1>7, <1>10

LEMMA ShiftKeeps ==
    ASSUME StoreInv, NEW s \in Sources, NEW hours \in Shifts, ShiftSource(s, hours)
    PROVE  StoreInv'
  <1> DEFINE g == [r \in rows |-> IF r.src = s THEN Shifted(r, hours) ELSE r]
  <1>1. /\ rows' = {g[r] : r \in rows}
        /\ UNCHANGED <<logical, maxBytes, pending, read>>
    BY DEF ShiftSource
  <1>2. ASSUME NEW r \in rows
        PROVE  g[r].n = r.n /\ g[r].src = r.src /\ g[r].content = r.content
    BY ShiftedRow DEF StoreInv
  <1>3. g = [r \in rows |-> g[r]] /\ DOMAIN g = rows
    OBVIOUS
  <1> HIDE DEF g
  <1>4. RowsNumbered /\ BatchesNumbered /\ RowsBefore
    BY DEF StoreInv, Numbered
  <1>5. \A x, y \in rows : g[x] = g[y] => x = y
    BY <1>2, <1>4 DEF RowsNumbered
  <1>6. Sized(rows)
    BY RowsSized DEF StoreInv
  <1>7. /\ Sized({g[r] : r \in rows})
        /\ Bytes({g[r] : r \in rows}) = Bytes(rows)
    BY <1>2, <1>3, <1>5, <1>6, BytesImage
  <1>8. logical' = Bytes(rows') /\ IsFiniteSet(rows')
    BY <1>1, <1>7 DEF StoreInv, Sized
  <1>9. RowsNumbered'
    BY <1>1, <1>2, <1>4, <1>8 DEF RowsNumbered
  <1>10. BatchesNumbered' /\ RowsBefore'
    BY <1>1, <1>2, <1>4 DEF BatchesNumbered, RowsBefore
  <1>11. ShownInv'
    BY ShiftShown DEF StoreInv
  <1> QED  BY <1>1, <1>8, <1>9, <1>10, <1>11 DEF StoreInv, Numbered

\* The rows that each deletion takes are rows.
LEMMA StoreNext == StoreInv /\ [Next]_vars => StoreInv'
  <1> SUFFICES ASSUME StoreInv, [Next]_vars PROVE StoreInv'
    OBVIOUS
  <1>1. ASSUME NEW s \in Sources, NEW content \in Contents, Read(s, content)
        PROVE  StoreInv'
    BY <1>1, ReadKeeps
  <1>2. ASSUME NEW s \in Sources, NEW limit \in Limits \cup {0}, Insert(s, limit)
        PROVE  StoreInv'
    BY <1>2, InsertKeeps
  <1>3. ASSUME NEW s \in Sources, NEW limit \in Limits,
               TrimSource(s, limit) \/ DeleteLatest(s, limit)
        PROVE  StoreInv'
    <2>1. Excess(Of(s), limit) \in SUBSET rows /\ Newest(Of(s), limit) \in SUBSET rows
      BY ExcessRows DEF Of, Newest
    <2> QED  BY <1>3, <2>1, DeletionKeeps DEF TrimSource, DeleteLatest
  <1>4. ASSUME NEW s \in Sources, DeleteSource(s)
        PROVE  StoreInv'
    <2>1. Of(s) \in SUBSET rows
      BY DEF Of
    <2> QED  BY <1>4, <2>1, DeletionKeeps DEF DeleteSource
  <1>5. ASSUME NEW s \in Sources, NEW hours \in Shifts, ShiftSource(s, hours)
        PROVE  StoreInv'
    BY <1>5, ShiftKeeps
  <1>6. ASSUME NEW bytes \in ByteLimits, UpdateSettings(bytes)
        PROVE  StoreInv'
    <2>1. UNCHANGED <<rows, logical, shift, pending, read>> /\ maxBytes' \in ByteLimits
      BY <1>6 DEF UpdateSettings
    <2>2. ShownInv'
      BY <2>1, Removal DEF StoreInv
    <2> QED
      BY <2>1, <2>2
      DEF StoreInv, Numbered, RowsNumbered, BatchesNumbered, RowsBefore
  <1>7. CASE UNCHANGED vars
    <2>1. ShownInv'
      BY <1>7, Removal DEF StoreInv, vars
    <2> QED
      BY <1>7, <2>1
      DEF StoreInv, Numbered, RowsNumbered, BatchesNumbered, RowsBefore, vars
  <1> QED  BY <1>1, <1>2, <1>3, <1>4, <1>5, <1>6, <1>7 DEF Next

LEMMA StoreAlways == Spec => []StoreInv
  BY StoreInit, StoreNext, PTL DEF Spec

(* Every variable stays in its range, and an event's number is its own,    *)
(* among the rows and the batches of all sources: it is given when the     *)
(* event is read, and the row is inserted once.                            *)
THEOREM StoreTypeCorrect == Spec => []TypeOK
  <1>1. StoreInv => TypeOK
    <2> SUFFICES ASSUME StoreInv PROVE TypeOK
      OBVIOUS
    <2>1. ASSUME NEW c \in Contents, NEW s \in Sources PROVE Displayed(c, s) \in Nat
      <3>1. shift[s] \in Shifts
        BY DEF StoreInv, ShownInv, BatchesShown
      <3> QED  BY <3>1, ContentAssumption DEF Displayed
    <2>2. read \in Nat /\ read <= MaxEvents /\ MaxEvents \in Nat
      BY BoundAssumption DEF StoreInv
    <2>3. ASSUME NEW r \in rows PROVE r \in Row
      <3>1. r.n \in 1..MaxEvents
        BY <2>2 DEF StoreInv, Numbered, RowsNumbered
      <3>2. r.src \in Sources /\ r.content \in Contents /\ r.hour \in Nat
        BY <2>1, RowShape DEF StoreInv
      <3>3. r = [n |-> r.n, src |-> r.src, content |-> r.content, hour |-> r.hour]
        BY RowShape DEF StoreInv
      <3> QED  BY <3>1, <3>2, <3>3 DEF Row
    <2>4. ASSUME NEW s \in Sources, NEW r \in ToSet(pending[s]) PROVE r \in Row
      <3>1. PICK i \in DOMAIN pending[s] : r = pending[s][i]
        BY DEF ToSet
      <3>2. r.n \in 1..MaxEvents
        BY <2>2, <3>1 DEF StoreInv, Numbered, BatchesNumbered
      <3>3. PICK m \in Nat, c \in Contents :
                r = [n |-> m, src |-> s, content |-> c, hour |-> Displayed(c, s)]
        BY BatchShown DEF StoreInv, ShownInv, Shown
      <3> QED  BY <2>1, <3>2, <3>3 DEF Row
    <2>5. logical \in Nat
      BY RowsSized, BytesType DEF StoreInv
    <2> QED
      BY <2>3, <2>4, <2>5
      DEF TypeOK, StoreInv, Numbered, RowsNumbered, ShownInv, BatchesShown
  <1> QED  BY <1>1, StoreAlways, PTL

(* The counter that the eviction trusts is what the table holds, for any   *)
(* sizes of events and any mix of insertions, evictions, trims, deletions  *)
(* and shifts.                                                             *)
THEOREM BytesAreCounted == Spec => []LogicalBytesAreExact
  <1>1. StoreInv => LogicalBytesAreExact
    BY DEF StoreInv, LogicalBytesAreExact
  <1> QED  BY <1>1, StoreAlways, PTL

-----------------------------------------------------------------------------
(* The order of each source.  Numbers are arranged in one way, so that a   *)
(* set of them that precedes another is the front of the two together.     *)

Numerals(N) == IsFiniteSet(N) /\ N \subseteq Nat
Below(N) == {p \in N \X N : p[1] < p[2]}
Ascending(N) == Sorted(N, <)

LEMMA BelowStrict ==
    ASSUME NEW N, Numerals(N)
    PROVE  StrictOrder(Below(N), N) /\ \A x, y \in N : <<x, y>> \in Below(N) <=> x < y
  <1>1. \A x, y \in N : <<x, y>> \in Below(N) <=> x < y
    BY DEF Below
  <1>2. \A x \in N : x \in Nat
    BY DEF Numerals
  <1>3. \A x, y, z \in Nat : ~ (x < x) /\ (x < y /\ y < z => x < z) /\ (x = y \/ x < y \/ y < x)
    OBVIOUS
  <1> QED  BY <1>1, <1>2, <1>3 DEF StrictOrder

LEMMA AscendingArranges ==
    ASSUME NEW N, Numerals(N)
    PROVE  Arranges(Ascending(N), N, Below(N))
  <1>1. IsFiniteSet(N) /\ StrictOrder(Below(N), N)
    BY BelowStrict DEF Numerals
  <1>2. PICK q : Arranges(q, N, Below(N))
    BY <1>1, ArrangementExists
  <1>3. ASSUME NEW p \in SetToSeqs(N), NEW i \in DOMAIN p, NEW j \in DOMAIN p
        PROVE  <<p[i], p[j]>> \in Below(N) <=> p[i] < p[j]
    <2>1. p[i] \in N /\ p[j] \in N
      BY DEF SetToSeqs
    <2> QED  BY <2>1, BelowStrict
  <1>4. q \in SetToSeqs(N) /\ \A i, j \in DOMAIN q : i < j => q[i] < q[j]
    BY <1>1, <1>2, <1>3, ArrangementLists
  <1>5. /\ Ascending(N) \in SetToSeqs(N)
        /\ \A i, j \in DOMAIN Ascending(N) : i < j => Ascending(N)[i] < Ascending(N)[j]
    BY <1>4 DEF Ascending, Sorted
  <1> QED  BY <1>1, <1>3, <1>5, ArrangementLists

LEMMA AscendingSeq ==
    ASSUME NEW N, Numerals(N)
    PROVE  /\ Ascending(N) \in Seq(Nat)
           /\ Len(Ascending(N)) = Cardinality(N) /\ Cardinality(N) \in Nat
           /\ \A i, j \in 1..Cardinality(N) : i < j => Ascending(N)[i] < Ascending(N)[j]
           /\ {Ascending(N)[i] : i \in 1..Cardinality(N)} = N
  <1> DEFINE q == Ascending(N)
  <1>1. PICK m \in Nat : m = Cardinality(N)
    BY FS_CardinalityType DEF Numerals
  <1>2. Arranges(q, N, Below(N))
    BY AscendingArranges
  <1>3. /\ q \in [1..m -> N] /\ {q[i] : i \in 1..m} = N
        /\ \A i, j \in 1..m : i < j => <<q[i], q[j]>> \in Below(N)
    BY <1>1, <1>2 DEF Arranges
  <1> HIDE DEF q
  <1>4. q \in [1..m -> Nat]
    BY <1>3 DEF Numerals
  <1>5. q \in Seq(Nat) /\ Len(q) = m
    BY <1>4
  <1>6. \A i, j \in 1..m : i < j => q[i] < q[j]
    BY <1>3, BelowStrict
  <1> QED  BY <1>1, <1>3, <1>5, <1>6 DEF q

\* An increasing sequence of the numbers is their arrangement.
LEMMA AscendingIs ==
    ASSUME NEW N, Numerals(N), NEW q \in Seq(Nat),
           \A i, j \in 1..Len(q) : i < j => q[i] < q[j],
           {q[i] : i \in 1..Len(q)} = N
    PROVE  q = Ascending(N)
  <1>1. PICK m \in Nat : Len(q) = m /\ DOMAIN q = 1..m
    BY LenProperties
  <1> DEFINE I == 1..m
  <1>2. IsFiniteSet(I) /\ Cardinality(I) = m
    BY FS_Interval
  <1>3. \A x, y \in I : q[x] = q[y] => x = y
    <2> SUFFICES ASSUME NEW x \in I, NEW y \in I, x # y PROVE q[x] # q[y]
      OBVIOUS
    <2>1. x < y \/ y < x
      OBVIOUS
    <2>2. q[x] \in Nat /\ q[y] \in Nat
      BY <1>1
    <2> QED  BY <1>1, <2>1, <2>2
  <1>4. DOMAIN q = I /\ q = [x \in I |-> q[x]]
    BY <1>1
  <1> HIDE DEF I
  <1>5. /\ IsFiniteSet({q[x] : x \in I})
        /\ Cardinality({q[x] : x \in I}) = Cardinality(I)
    BY <1>2, <1>3, <1>4, ImageCounts
  <1>6. {q[x] : x \in I} = N
    BY <1>1 DEF I
  <1>7. Cardinality(N) = m
    BY <1>2, <1>5, <1>6
  <1>8. \A i \in 1..m : q[i] \in N
    BY <1>1
  <1>9. q \in [1..m -> N]
    BY <1>1, <1>8
  <1>10. \A i, j \in 1..m : i < j => <<q[i], q[j]>> \in Below(N)
    BY <1>1, <1>8, BelowStrict
  <1>11. Arranges(q, N, Below(N))
    BY <1>1, <1>7, <1>9, <1>10 DEF Arranges
  <1> QED
    BY <1>11, AscendingArranges, ArrangementUnique, BelowStrict DEF Numerals

LEMMA Concatenated ==
    ASSUME NEW p \in Seq(Nat), NEW q \in Seq(Nat), NEW a, a = Len(p), NEW b, b = Len(q)
    PROVE  /\ a \in Nat /\ b \in Nat
           /\ p \o q \in Seq(Nat) /\ Len(p \o q) = a + b
           /\ \A i \in 1..a : (p \o q)[i] = p[i]
           /\ \A i \in 1..b : (p \o q)[a + i] = q[i]
  <1>1. /\ p \o q \in Seq(Nat) /\ Len(p \o q) = a + b
        /\ \A i \in 1..(a + b) : (p \o q)[i] = IF i <= a THEN p[i] ELSE q[i - a]
    BY ConcatProperties
  <1>2. a \in Nat /\ b \in Nat
    BY LenProperties
  <1>3. ASSUME NEW i \in 1..a PROVE (p \o q)[i] = p[i]
    <2>1. i \in 1..(a + b) /\ i <= a
      BY <1>2
    <2> QED  BY <1>1, <2>1
  <1>4. ASSUME NEW i \in 1..b PROVE (p \o q)[a + i] = q[i]
    <2>1. a + i \in 1..(a + b) /\ ~ (a + i <= a) /\ (a + i) - a = i
      BY <1>2
    <2> QED  BY <1>1, <2>1
  <1> QED  BY <1>1, <1>2, <1>3, <1>4

LEMMA AscendingJoins ==
    ASSUME NEW L, Numerals(L), NEW H, Numerals(H), \A x \in L, y \in H : x < y
    PROVE  Numerals(L \cup H) /\ Ascending(L \cup H) = Ascending(L) \o Ascending(H)
  <1>1. Numerals(L \cup H)
    BY FS_Union DEF Numerals
  <1>2. PICK p \in Seq(Nat), a \in Nat :
            /\ p = Ascending(L) /\ Len(p) = a
            /\ \A i, j \in 1..a : i < j => p[i] < p[j]
            /\ {p[i] : i \in 1..a} = L
    BY AscendingSeq
  <1>3. PICK q \in Seq(Nat), b \in Nat :
            /\ q = Ascending(H) /\ Len(q) = b
            /\ \A i, j \in 1..b : i < j => q[i] < q[j]
            /\ {q[i] : i \in 1..b} = H
    BY AscendingSeq
  <1> DEFINE r == p \o q
  <1>4. /\ r \in Seq(Nat) /\ Len(r) = a + b
        /\ \A i \in 1..a : r[i] = p[i]
        /\ \A i \in 1..b : r[a + i] = q[i]
    <2>1. a = Len(p) /\ b = Len(q)
      BY <1>2, <1>3
    <2>2. /\ a \in Nat /\ b \in Nat
          /\ p \o q \in Seq(Nat) /\ Len(p \o q) = a + b
          /\ \A i \in 1..a : (p \o q)[i] = p[i]
          /\ \A i \in 1..b : (p \o q)[a + i] = q[i]
      BY <2>1, Concatenated
    <2> QED  BY <2>2
  <1>5. \A i \in 1..(a + b) : i \in 1..a \/ (i - a \in 1..b /\ i = a + (i - a))
    OBVIOUS
  <1>6. \A i \in 1..a : i \in 1..(a + b)
    OBVIOUS
  <1>7. \A i \in 1..b : a + i \in 1..(a + b)
    OBVIOUS
  <1> HIDE DEF r
  <1>8. ASSUME NEW i \in 1..(a + b)
        PROVE  \/ i \in 1..a /\ r[i] = p[i] /\ r[i] \in L
               \/ i - a \in 1..b /\ r[i] = q[i - a] /\ r[i] \in H
    <2>1. CASE i \in 1..a
      BY <1>2, <1>4, <2>1
    <2>2. CASE i - a \in 1..b /\ i = a + (i - a)
      <3>1. r[a + (i - a)] = q[i - a]
        BY <1>4, <2>2
      <3>2. q[i - a] \in H
        BY <1>3, <2>2
      <3> QED  BY <2>2, <3>1, <3>2
    <2> QED  BY <1>5, <2>1, <2>2
  <1>9. ASSUME NEW i \in 1..(a + b), NEW j \in 1..(a + b), i < j PROVE r[i] < r[j]
    <2>1. CASE i \in 1..a /\ r[i] = p[i] /\ j \in 1..a /\ r[j] = p[j]
      BY <1>2, <1>9, <2>1
    <2>2. CASE r[i] \in L /\ r[j] \in H
      BY <2>2
    <2>3. CASE i - a \in 1..b /\ r[i] = q[i - a] /\ j - a \in 1..b /\ r[j] = q[j - a]
      <3>1. i - a < j - a
        BY <1>9
      <3> QED  BY <1>3, <2>3, <3>1
    <2>4. ~ (i - a \in 1..b /\ j \in 1..a)
      BY <1>9
    <2> QED  BY <1>8, <2>1, <2>2, <2>3, <2>4
  <1>10. {r[i] : i \in 1..(a + b)} = L \cup H
    <2>1. ASSUME NEW x \in L PROVE \E i \in 1..(a + b) : r[i] = x
      <3>1. PICK i \in 1..a : p[i] = x
        BY <1>2
      <3> QED  BY <1>4, <1>6, <3>1
    <2>2. ASSUME NEW x \in H PROVE \E i \in 1..(a + b) : r[i] = x
      <3>1. PICK i \in 1..b : q[i] = x
        BY <1>3
      <3> QED  BY <1>4, <1>7, <3>1
    <2> QED  BY <1>8, <2>1, <2>2
  <1>11. \A i, j \in 1..Len(r) : i < j => r[i] < r[j]
    BY <1>4, <1>9
  <1>12. {r[i] : i \in 1..Len(r)} = L \cup H
    BY <1>4, <1>10
  <1>13. r = Ascending(L \cup H)
    BY <1>1, <1>4, <1>11, <1>12, AscendingIs
  <1> QED  BY <1>1, <1>2, <1>3, <1>13 DEF r

\* The end of a sequence is a suffix, and both ends are cuts.
LEMMA EndsOfJoin ==
    ASSUME NEW p \in Seq(Nat), NEW q \in Seq(Nat)
    PROVE  /\ IsSuffix(q, p \o q)
           /\ Len(p) \in 0..Len(p \o q)
           /\ SubSeq(p \o q, Len(p) + 1, Len(p \o q)) = q
           /\ SubSeq(p \o q, 1, Len(p)) = p
  <1> DEFINE r == p \o q
  <1>1. PICK a \in Nat, b \in Nat : Len(p) = a /\ Len(q) = b
    BY LenProperties
  <1>2. /\ r \in Seq(Nat) /\ Len(r) = a + b
        /\ \A i \in 1..a : r[i] = p[i]
        /\ \A i \in 1..b : r[a + i] = q[i]
    <2>1. a = Len(p) /\ b = Len(q)
      BY <1>1
    <2>2. /\ a \in Nat /\ b \in Nat
          /\ p \o q \in Seq(Nat) /\ Len(p \o q) = a + b
          /\ \A i \in 1..a : (p \o q)[i] = p[i]
          /\ \A i \in 1..b : (p \o q)[a + i] = q[i]
      BY <2>1, Concatenated
    <2> QED  BY <2>2
  <1>3. a \in 0..(a + b)
    OBVIOUS
  <1>4. SubSeq(r, a + 1, a + b) = q
    BY <1>1, <1>2
  <1>5. SubSeq(r, 1, a) = p
    BY <1>1, <1>2
  <1>6. IsSuffix(q, r)
    <2> DEFINE x == Reverse(q)
               y == Reverse(r)
    <2>1. x = [i \in 1..b |-> q[(b - i) + 1]]
      BY <1>1 DEF Reverse
    <2>2. y = [i \in 1..(a + b) |-> r[((a + b) - i) + 1]]
      BY <1>2 DEF Reverse
    <2> HIDE DEF x, y
    <2>3. Len(x) = b /\ Len(y) = a + b
      BY <2>1, <2>2
    <2>4. ASSUME NEW i \in 1..b PROVE x[i] = y[i]
      <3>1. (b - i) + 1 \in 1..b /\ ((a + b) - i) + 1 = a + ((b - i) + 1) /\ i \in 1..(a + b)
        OBVIOUS
      <3>2. r[a + ((b - i) + 1)] = q[(b - i) + 1]
        BY <1>2, <3>1
      <3> QED  BY <2>1, <2>2, <3>1, <3>2
    <2>5. SubSeq(x, 1, b) = SubSeq(y, 1, b)
      <3>1. SubSeq(x, 1, b) = [i \in 1..((1 + b) - 1) |-> x[(i + 1) - 1]]
        OBVIOUS
      <3>2. SubSeq(y, 1, b) = [i \in 1..((1 + b) - 1) |-> y[(i + 1) - 1]]
        OBVIOUS
      <3> QED  BY <2>4, <3>1, <3>2
    <2>6. IsPrefix(x, y)
      BY <2>3, <2>5 DEF IsPrefix
    <2> QED  BY <2>6 DEF IsSuffix, x, y
  <1>7. Len(p) + 1 = a + 1 /\ Len(p \o q) = a + b
    BY <1>1, <1>2
  <1> HIDE DEF r
  <1>8. /\ IsSuffix(q, r) /\ Len(p) \in 0..Len(r)
        /\ SubSeq(r, Len(p) + 1, Len(r)) = q
        /\ SubSeq(r, 1, Len(p)) = p
    BY <1>1, <1>2, <1>3, <1>4, <1>5, <1>6
  <1> QED  BY <1>8 DEF r

-----------------------------------------------------------------------------
(* The ends of a set of rows.                                              *)

LEMMA RankedSubset == ASSUME NEW R, Ranked(R), NEW X \in SUBSET R PROVE Ranked(X)
  BY FS_Subset DEF Ranked

LEMMA OldestDown ==
    ASSUME NEW R, Ranked(R), NEW m \in Nat, NEW a \in Oldest(R, m), NEW b \in R \ Oldest(R, m)
    PROVE  a.n < b.n
  <1> DEFINE A == {x \in R : x.n < a.n}
             B == {x \in R : x.n < b.n}
  <1>1. a \in R /\ b \in R /\ a # b /\ a.n \in Nat /\ b.n \in Nat /\ a.n # b.n
    BY DEF Oldest, Ranked
  <1>2. Cardinality(A) < m /\ ~ (Cardinality(B) < m)
    BY DEF Oldest
  <1>3. ASSUME b.n < a.n PROVE FALSE
    <2>1. B \subseteq A
      BY <1>1, <1>3 DEF Ranked
    <2>2. IsFiniteSet(A)
      BY FS_Subset DEF Ranked
    <2> HIDE DEF A, B
    <2>3. /\ IsFiniteSet(B) /\ Cardinality(B) <= Cardinality(A)
          /\ Cardinality(A) \in Nat /\ Cardinality(B) \in Nat
      BY <2>1, <2>2, FS_Subset, FS_CardinalityType
    <2> QED  BY <1>2, <2>3
  <1> QED  BY <1>1, <1>3

LEMMA NewestUp ==
    ASSUME NEW R, Ranked(R), NEW m \in Nat, NEW a \in Newest(R, m), NEW b \in R \ Newest(R, m)
    PROVE  b.n < a.n
  <1> DEFINE A == {x \in R : x.n > a.n}
             B == {x \in R : x.n > b.n}
  <1>1. a \in R /\ b \in R /\ a # b /\ a.n \in Nat /\ b.n \in Nat /\ a.n # b.n
    BY DEF Newest, Ranked
  <1>2. Cardinality(A) < m /\ ~ (Cardinality(B) < m)
    BY DEF Newest
  <1>3. ASSUME a.n < b.n PROVE FALSE
    <2>1. B \subseteq A
      BY <1>1, <1>3 DEF Ranked
    <2>2. IsFiniteSet(A)
      BY FS_Subset DEF Ranked
    <2> HIDE DEF A, B
    <2>3. /\ IsFiniteSet(B) /\ Cardinality(B) <= Cardinality(A)
          /\ Cardinality(A) \in Nat /\ Cardinality(B) \in Nat
      BY <2>1, <2>2, FS_Subset, FS_CardinalityType
    <2> QED  BY <1>2, <2>3
  <1> QED  BY <1>1, <1>3

LEMMA ExcessDown ==
    ASSUME NEW R, Ranked(R), NEW limit \in Nat,
           NEW a \in Excess(R, limit), NEW b \in R \ Excess(R, limit)
    PROVE  a.n < b.n
  <1>1. Cardinality(R) \in Nat
    BY FS_CardinalityType DEF Ranked
  <1>2. PICK m \in Nat : Excess(R, limit) = Oldest(R, m)
    <2>1. Cardinality(R) > limit
      BY DEF Excess
    <2>2. Cardinality(R) - limit \in Nat
      BY <1>1, <2>1
    <2> QED  BY <2>1, <2>2 DEF Excess
  <1> QED  BY <1>2, OldestDown

\* The eviction loop ends.
LEMMA PrunedIsOldest ==
    ASSUME NEW R, Ranked(R), NEW counter
    PROVE  \E m \in Nat : Pruned(R, counter) = Oldest(R, m)
  <1> DEFINE Batches(k) == Oldest(R, k * PruneBatch)
             enough == {k \in 0..Cardinality(R) :
                           Batches(k) = R \/ Drop(counter, Batches(k)) <= maxBytes}
  <1>1. PICK c \in Nat : c = Cardinality(R)
    BY FS_CardinalityType DEF Ranked
  <1>2. Batches(c) = R
    <2> SUFFICES ASSUME NEW r \in R PROVE Cardinality({x \in R : x.n < r.n}) < c * PruneBatch
      BY DEF Oldest
    <2> DEFINE X == {x \in R : x.n < r.n}
    <2>1. X \subseteq R /\ r \notin X /\ r \in R
      BY DEF Ranked
    <2> HIDE DEF X
    <2>2. Cardinality(X) < c /\ Cardinality(X) \in Nat
      <3>1. IsFiniteSet(R) /\ X \in SUBSET R
        BY <2>1 DEF Ranked
      <3>2. /\ IsFiniteSet(X) /\ Cardinality(X) <= Cardinality(R)
            /\ (Cardinality(X) = Cardinality(R) => X = R)
        BY <3>1, FS_Subset
      <3>3. Cardinality(X) \in Nat /\ Cardinality(X) # c
        BY <1>1, <2>1, <3>2, FS_CardinalityType
      <3> QED  BY <1>1, <3>2, <3>3
    <2>3. \A p \in Nat \ {0} : c <= c * p
      OBVIOUS
    <2>4. c <= c * PruneBatch /\ c * PruneBatch \in Nat
      BY <2>3, BatchAssumption
    <2>5. Cardinality(X) < c * PruneBatch
      BY <2>2, <2>4
    <2> QED  BY <2>5 DEF X
  <1>3. enough \in SUBSET Nat /\ c \in enough
    BY <1>1, <1>2
  <1>4. Pruned(R, counter) = Batches(Min(enough))
    BY DEF Pruned
  <1> HIDE DEF enough
  <1>5. Min(enough) \in Nat
    BY <1>3, MinIsLeast
  <1>6. Min(enough) * PruneBatch \in Nat
    BY <1>5, BatchAssumption
  <1> QED  BY <1>4, <1>6

-----------------------------------------------------------------------------
(* The refinement.  An operation takes from the rows of a source those     *)
(* that are before, or after, all it leaves.                               *)

NumbersOf(R) == {r.n : r \in R}
RowsOf(R, s) == {r \in R : r.src = s}

LEMMA NumbersAre ==
    ASSUME NEW R, Ranked(R)
    PROVE  Numerals(NumbersOf(R))
  <1> DEFINE N == NumbersOf(R)
             f == [i \in N |-> CHOOSE r \in R : r.n = i]
  <1>1. \A i \in N : f[i] \in R /\ f[i].n = i
    BY DEF NumbersOf
  <1>2. f \in [N -> R] /\ \A x, y \in N : f[x] = f[y] => x = y
    BY <1>1
  <1>3. N \subseteq Nat /\ IsFiniteSet(R)
    BY DEF NumbersOf, Ranked
  <1> HIDE DEF f, N
  <1>4. IsFiniteSet(N)
    BY <1>2, <1>3, InjectionBound
  <1> QED  BY <1>3, <1>4 DEF Numerals, N

\* Rows that precede the others are the front.
LEMMA FrontOf ==
    ASSUME NEW R, Ranked(R), NEW X \in SUBSET R,
           \A a \in X, b \in R \ X : a.n < b.n
    PROVE  /\ Ascending(NumbersOf(R)) =
                  Ascending(NumbersOf(X)) \o Ascending(NumbersOf(R \ X))
           /\ Ascending(NumbersOf(X)) \in Seq(Nat)
           /\ Ascending(NumbersOf(R \ X)) \in Seq(Nat)
  <1>1. Ranked(X) /\ Ranked(R \ X)
    BY RankedSubset
  <1>2. Numerals(NumbersOf(X)) /\ Numerals(NumbersOf(R \ X))
    BY <1>1, NumbersAre
  <1>3. NumbersOf(R) = NumbersOf(X) \cup NumbersOf(R \ X)
    BY DEF NumbersOf
  <1>4. \A x \in NumbersOf(X), y \in NumbersOf(R \ X) : x < y
    BY DEF NumbersOf
  <1>5. Ascending(NumbersOf(X) \cup NumbersOf(R \ X)) =
            Ascending(NumbersOf(X)) \o Ascending(NumbersOf(R \ X))
    BY <1>2, <1>4, AscendingJoins
  <1>6. Ascending(NumbersOf(X)) \in Seq(Nat) /\ Ascending(NumbersOf(R \ X)) \in Seq(Nat)
    BY <1>2, AscendingSeq
  <1> QED  BY <1>3, <1>5, <1>6

LEMMA BufferIs ==
    /\ Buffer = [s \in Sources |-> Ascending(NumbersOf(RowsOf(rows, s)))]
    /\ Buffer' = [s \in Sources |-> Ascending(NumbersOf(RowsOf(rows', s)))]
  <1>1. Buffer = [s \in Sources |-> Ascending(NumbersOf(RowsOf(rows, s)))]
    BY DEF Buffer, Ascending, NumbersOf, RowsOf, Of
  <1>2. Buffer' = [s \in Sources |-> Ascending(NumbersOf(RowsOf(rows', s)))]
    BY DEF Buffer, Ascending, NumbersOf, RowsOf, Of, Sorted
  <1> QED  BY <1>1, <1>2

LEMMA SourceRanked ==
    ASSUME StoreInv, NEW s \in Sources
    PROVE  Ranked(rows) /\ Ranked(RowsOf(rows, s))
  <1>1. Ranked(rows)
    BY AddedRanked, RankedSubset
  <1> QED  BY <1>1, RankedSubset DEF RowsOf

LEMMA CutOldestStep ==
    ASSUME StoreInv, NEW s \in Sources, NEW X \in SUBSET RowsOf(rows, s),
           \A a \in X, b \in RowsOf(rows, s) \ X : a.n < b.n,
           rows' = rows \ X, UNCHANGED pending
    PROVE  Buffers!CutOldest(s)
  <1> DEFINE p == Ascending(NumbersOf(X))
             q == Ascending(NumbersOf(RowsOf(rows, s) \ X))
  <1>1. /\ Ascending(NumbersOf(RowsOf(rows, s))) = p \o q
        /\ p \in Seq(Nat) /\ q \in Seq(Nat)
    BY SourceRanked, FrontOf
  <1>2. RowsOf(rows', s) = RowsOf(rows, s) \ X
    BY DEF RowsOf
  <1>3. \A t \in Sources \ {s} : RowsOf(rows', t) = RowsOf(rows, t)
    BY DEF RowsOf
  <1> HIDE DEF p, q
  <1>4. /\ Len(p) \in 0..Len(p \o q)
        /\ SubSeq(p \o q, Len(p) + 1, Len(p \o q)) = q
    BY <1>1, EndsOfJoin
  <1>5. Buffer[s] = p \o q
    BY <1>1, BufferIs
  <1>6. Buffer'[s] = q
    BY <1>2, BufferIs DEF q
  <1>7. \A t \in Sources \ {s} : Buffer'[t] = Buffer[t]
    BY <1>3, BufferIs
  <1>8. DOMAIN Buffer = Sources /\ DOMAIN Buffer' = Sources
        /\ Buffer' = [t \in Sources |-> Buffer'[t]]
    BY BufferIs
  <1>9. Buffer' = [Buffer EXCEPT ![s] = q]
    BY <1>6, <1>7, <1>8
  <1>10. Buffer' = [Buffer EXCEPT ![s] = SubSeq(@, Len(p) + 1, Len(@))]
    BY <1>4, <1>5, <1>9
  <1>11. Pending' = Pending
    BY DEF Pending
  <1> QED  BY <1>4, <1>5, <1>10, <1>11 DEF Buffers!CutOldest

LEMMA CutNewestStep ==
    ASSUME StoreInv, NEW s \in Sources, NEW X \in SUBSET RowsOf(rows, s),
           \A a \in X, b \in RowsOf(rows, s) \ X : b.n < a.n,
           rows' = rows \ X, UNCHANGED pending
    PROVE  Buffers!CutNewest(s)
  <1> DEFINE Y == RowsOf(rows, s) \ X
             p == Ascending(NumbersOf(Y))
             q == Ascending(NumbersOf(X))
  <1>1. /\ Ascending(NumbersOf(RowsOf(rows, s))) = p \o q
        /\ p \in Seq(Nat) /\ q \in Seq(Nat)
    <2>1. Y \in SUBSET RowsOf(rows, s) /\ RowsOf(rows, s) \ Y = X
      OBVIOUS
    <2>2. \A a \in Y, b \in RowsOf(rows, s) \ Y : a.n < b.n
      OBVIOUS
    <2> HIDE DEF Y
    <2> QED  BY <2>1, <2>2, SourceRanked, FrontOf
  <1>2. RowsOf(rows', s) = Y
    BY DEF RowsOf
  <1>3. \A t \in Sources \ {s} : RowsOf(rows', t) = RowsOf(rows, t)
    BY DEF RowsOf
  <1> HIDE DEF p, q
  <1>4. Len(p) \in 0..Len(p \o q) /\ SubSeq(p \o q, 1, Len(p)) = p
    BY <1>1, EndsOfJoin
  <1>5. Buffer[s] = p \o q
    BY <1>1, BufferIs
  <1>6. Buffer'[s] = p
    BY <1>2, BufferIs DEF p
  <1>7. \A t \in Sources \ {s} : Buffer'[t] = Buffer[t]
    BY <1>3, BufferIs
  <1>8. DOMAIN Buffer = Sources /\ DOMAIN Buffer' = Sources
        /\ Buffer' = [t \in Sources |-> Buffer'[t]]
    BY BufferIs
  <1>9. Buffer' = [Buffer EXCEPT ![s] = p]
    BY <1>6, <1>7, <1>8
  <1>10. Buffer' = [Buffer EXCEPT ![s] = SubSeq(@, 1, Len(p))]
    BY <1>4, <1>5, <1>9
  <1>11. Pending' = Pending
    BY DEF Pending
  <1> QED  BY <1>4, <1>5, <1>10, <1>11 DEF Buffers!CutNewest

LEMMA ReadStep ==
    ASSUME StoreInv, NEW s \in Sources, NEW content \in Contents, Read(s, content)
    PROVE  Buffers!Read(s)
  <1> DEFINE e == [n |-> Number, src |-> s, content |-> content,
                   hour |-> Displayed(content, s)]
  <1>1. /\ read < MaxEvents /\ pending' = [pending EXCEPT ![s] = Append(@, e)]
        /\ rows' = rows
    BY DEF Read
  <1>2. e.n = read + 1
    BY DEF Number
  <1> HIDE DEF e
  <1>3. read + 1 \in 1..MaxEvents
    BY <1>1, BoundAssumption DEF StoreInv
  <1>4. pending[s] \in Seq(Entry) /\ pending \in [Sources -> Seq(Entry)]
    BY DEF StoreInv, ShownInv, BatchesShown
  <1>5. /\ pending'[s] = Append(pending[s], e)
        /\ \A t \in Sources \ {s} : pending'[t] = pending[t]
    BY <1>1, <1>4
  <1>6. PICK m \in Nat : Len(pending[s]) = m
    BY <1>4
  <1>7. /\ DOMAIN pending[s] = 1..m /\ DOMAIN pending'[s] = 1..(m + 1)
        /\ \A i \in 1..m : pending'[s][i] = pending[s][i]
        /\ pending'[s][m + 1] = e
    BY <1>4, <1>5, <1>6
  <1>8. /\ Pending[s] = [k \in 1..m |-> pending[s][k].n]
        /\ Pending'[s] = [k \in 1..(m + 1) |-> pending'[s][k].n]
    BY <1>7 DEF Pending
  <1>9. \A k \in 1..m : pending[s][k].n \in Nat
    <2>1. read \in Nat /\ \A k \in 1..m : pending[s][k].n \in 1..read
      BY <1>7 DEF StoreInv, Numbered, BatchesNumbered, ShownInv, BatchesShown
    <2> QED  BY <2>1
  <1> DEFINE u == Pending[s]
             v == Pending'[s]
  <1>10. u \in Seq(Nat) /\ Len(u) = m
    <2> HIDE DEF v
    <2> QED  BY <1>8, <1>9
  <1>11. v = Append(u, read + 1)
    <2>1. /\ u = [k \in 1..m |-> pending[s][k].n]
          /\ v = [k \in 1..(m + 1) |-> pending'[s][k].n]
      BY <1>8
    <2> HIDE DEF u, v
    <2>2. \A k \in 1..(m + 1) : k \in 1..m \/ k = m + 1
      OBVIOUS
    <2>3. \A k \in 1..(m + 1) : k = m + 1 => v[k] = read + 1
      BY <1>2, <1>7, <2>1
    <2>4. \A k \in 1..m : k \in 1..(m + 1) /\ k # m + 1 /\ v[k] = u[k]
      BY <1>7, <2>1
    <2>5. Append(u, read + 1) = [k \in 1..(m + 1) |-> IF k = m + 1 THEN read + 1 ELSE u[k]]
      BY <1>10
    <2>6. \A k \in 1..(m + 1) : v[k] = IF k = m + 1 THEN read + 1 ELSE u[k]
      BY <2>2, <2>3, <2>4
    <2> QED  BY <2>1, <2>5, <2>6
  <1>12. \A t \in Sources \ {s} : Pending'[t] = Pending[t]
    BY <1>5 DEF Pending
  <1>13. DOMAIN Pending = Sources /\ Pending' = [t \in Sources |-> Pending'[t]]
    BY DEF Pending
  <1>14. Pending' = [Pending EXCEPT ![s] = Append(@, read + 1)]
    BY <1>11, <1>12, <1>13
  <1>15. Buffer' = Buffer
    BY <1>1, BufferIs
  <1> QED  BY <1>3, <1>14, <1>15 DEF Buffers!Read

\* A batch is in the order of its numbers.
LEMMA PendingIs ==
    ASSUME StoreInv, NEW s \in Sources
    PROVE  Pending[s] = Ascending(NumbersOf(ToSet(pending[s])))
  <1>1. pending[s] \in Seq(Entry)
    BY DEF StoreInv, ShownInv, BatchesShown
  <1>2. PICK m \in Nat : Len(pending[s]) = m /\ DOMAIN pending[s] = 1..m
    BY <1>1
  <1>3. /\ read \in Nat
        /\ \A k \in 1..m : pending[s][k].n \in 1..read
        /\ \A i, j \in 1..m : i < j => pending[s][i].n < pending[s][j].n
    BY <1>2 DEF StoreInv, Numbered, BatchesNumbered, ShownInv, BatchesShown
  <1> DEFINE u == Pending[s]
             N == NumbersOf(ToSet(pending[s]))
  <1>4. u = [k \in 1..m |-> pending[s][k].n]
    BY <1>2 DEF Pending
  <1>5. N = {pending[s][k].n : k \in 1..m}
    BY <1>2 DEF NumbersOf, ToSet
  <1>6. Numerals(N)
    <2>1. Ranked(ToSet(pending[s]))
      BY AddedRanked, RankedSubset
    <2> QED  BY <2>1, NumbersAre
  <1> HIDE DEF u, N
  <1>7. u \in Seq(Nat) /\ Len(u) = m
    BY <1>3, <1>4
  <1>8. \A i, j \in 1..Len(u) : i < j => u[i] < u[j]
    BY <1>3, <1>4, <1>7
  <1>9. {u[k] : k \in 1..Len(u)} = N
    BY <1>4, <1>5, <1>7
  <1>10. u = Ascending(N)
    BY <1>6, <1>7, <1>8, <1>9, AscendingIs
  <1> QED  BY <1>10 DEF u, N

LEMMA InsertStep ==
    ASSUME StoreInv, NEW s \in Sources, NEW limit \in Limits \cup {0}, Insert(s, limit)
    PROVE  Buffers!Insert(s)
  <1> DEFINE batch == ToSet(pending[s])
             added == rows \cup batch
             excess == IF limit = 0 THEN {} ELSE Excess(RowsOf(added, s), limit)
  <1>1. pending' = [pending EXCEPT ![s] = <<>>]
    BY DEF Insert
  <1>2. PICK pruned :
            /\ pruned = Pruned(added \ excess, Drop(logical + Bytes(batch), excess))
            /\ pruned \subseteq added \ excess
            /\ rows' = (added \ excess) \ pruned
            /\ excess \subseteq added
    <2>1. RowsOf(added, s) = {r \in added : r.src = s}
      BY DEF RowsOf
    <2> QED  BY <2>1, InsertedRows
  <1>3. Ranked(added)
    BY AddedRanked
  <1>4. \A r \in batch : r.src = s
    BY BatchShown DEF StoreInv, ShownInv
  <1>5. ASSUME NEW a \in excess, NEW b \in RowsOf(added, s) \ excess PROVE a.n < b.n
    <2>1. limit # 0 /\ limit \in Nat /\ excess = Excess(RowsOf(added, s), limit)
      BY <1>5, LimitAssumption
    <2>2. Ranked(RowsOf(added, s))
      BY <1>3, RankedSubset DEF RowsOf
    <2> HIDE DEF excess, added
    <2> QED  BY <1>5, <2>1, <2>2, ExcessDown
  <1>6. \A r \in excess : r.src = s
    <2>1. excess \subseteq RowsOf(added, s)
      BY ExcessRows
    <2> QED  BY <2>1 DEF RowsOf
  <1> HIDE DEF excess, added
  <1>7. ASSUME NEW a \in pruned, NEW b \in (added \ excess) \ pruned PROVE a.n < b.n
    <2>1. Ranked(added \ excess)
      BY <1>3, RankedSubset
    <2>2. PICK m \in Nat : pruned = Oldest(added \ excess, m)
      BY <1>2, <2>1, PrunedIsOldest
    <2> QED  BY <1>7, <2>1, <2>2, OldestDown
  <1>8. ASSUME NEW t \in Sources
        PROVE  /\ Ascending(NumbersOf(RowsOf(added, t))) \in Seq(Nat)
               /\ IsSuffix(Ascending(NumbersOf(RowsOf(rows', t))),
                           Ascending(NumbersOf(RowsOf(added, t))))
    <2> DEFINE R == RowsOf(added, t)
               H == RowsOf(rows', t)
               X == R \ H
    <2>1. H \subseteq R /\ R \ X = H /\ X \in SUBSET R
      BY <1>2 DEF RowsOf
    <2>2. Ranked(R)
      BY <1>3, RankedSubset DEF RowsOf
    <2>3. ASSUME NEW a \in X, NEW b \in H PROVE a.n < b.n
      <3>1. /\ a \in added /\ a.src = t /\ (a \in excess \/ a \in pruned)
            /\ b \in (added \ excess) \ pruned /\ b.src = t
        BY <1>2 DEF RowsOf
      <3>2. CASE a \in excess
        <4>1. t = s /\ b \in RowsOf(added, s) \ excess
          BY <1>6, <3>1, <3>2 DEF RowsOf
        <4> QED  BY <1>5, <3>2, <4>1
      <3>3. CASE a \in pruned
        BY <1>7, <3>1, <3>3
      <3> QED  BY <3>1, <3>2, <3>3
    <2> HIDE DEF R, H, X
    <2>4. \A a \in X, b \in R \ X : a.n < b.n
      BY <2>1, <2>3
    <2>5. /\ Ascending(NumbersOf(R)) =
                 Ascending(NumbersOf(X)) \o Ascending(NumbersOf(R \ X))
          /\ Ascending(NumbersOf(X)) \in Seq(Nat)
          /\ Ascending(NumbersOf(R \ X)) \in Seq(Nat)
      BY <2>1, <2>2, <2>4, FrontOf
    <2>6. IsSuffix(Ascending(NumbersOf(R \ X)),
                   Ascending(NumbersOf(X)) \o Ascending(NumbersOf(R \ X)))
      BY <2>5, EndsOfJoin
    <2>7. Ascending(NumbersOf(R)) \in Seq(Nat)
      <3>1. Numerals(NumbersOf(R))
        BY <2>2, NumbersAre
      <3> QED  BY <3>1, AscendingSeq
    <2>8. /\ Ascending(NumbersOf(R)) \in Seq(Nat)
          /\ IsSuffix(Ascending(NumbersOf(H)), Ascending(NumbersOf(R)))
      BY <2>1, <2>5, <2>6, <2>7
    <2> QED  BY <2>8 DEF R, H
  <1>9. ASSUME NEW t \in Sources \ {s} PROVE IsSuffix(Buffer'[t], Buffer[t])
    <2>1. RowsOf(added, t) = RowsOf(rows, t)
      BY <1>4 DEF RowsOf, added
    <2> QED  BY <1>8, <2>1, BufferIs
  <1>10. Buffer[s] \o Pending[s] = Ascending(NumbersOf(RowsOf(added, s)))
    <2> DEFINE R == RowsOf(added, s)
               X == RowsOf(rows, s)
    <2>1. R = X \cup batch /\ X \cap batch = {}
      <3>1. R = X \cup batch
        BY <1>4 DEF RowsOf, added
      <3>2. X \cap batch = {}
        BY DEF StoreInv, Numbered, RowsBefore, RowsOf, ToSet
      <3> QED  BY <3>1, <3>2
    <2>2. \A a \in X, b \in batch : a.n < b.n
      BY DEF StoreInv, Numbered, RowsBefore, RowsOf, ToSet
    <2>3. Ranked(R)
      BY <1>3, RankedSubset DEF RowsOf
    <2>4. Buffer[s] = Ascending(NumbersOf(X))
      BY BufferIs
    <2>5. Pending[s] = Ascending(NumbersOf(batch))
      BY PendingIs
    <2> HIDE DEF R, X, batch
    <2>6. X \in SUBSET R /\ R \ X = batch
      BY <2>1
    <2>7. \A a \in X, b \in R \ X : a.n < b.n
      BY <2>2, <2>6
    <2>8. Ascending(NumbersOf(R)) =
              Ascending(NumbersOf(X)) \o Ascending(NumbersOf(R \ X))
      BY <2>3, <2>6, <2>7, FrontOf
    <2>9. Ascending(NumbersOf(R)) = Buffer[s] \o Pending[s]
      BY <2>4, <2>5, <2>6, <2>8
    <2> QED  BY <2>9 DEF R
  <1>11. IsSuffix(Buffer'[s], Buffer[s] \o Pending[s])
    <2>1. Buffer'[s] = Ascending(NumbersOf(RowsOf(rows', s)))
      BY BufferIs
    <2> QED  BY <1>8, <1>10, <2>1
  <1>12. Pending' = [Pending EXCEPT ![s] = <<>>]
    <2>1. /\ pending'[s] = <<>>
          /\ \A t \in Sources \ {s} : pending'[t] = pending[t]
      BY <1>1 DEF StoreInv, ShownInv, BatchesShown
    <2>2. Pending'[s] = <<>>
      BY <2>1 DEF Pending
    <2>3. \A t \in Sources \ {s} : Pending'[t] = Pending[t]
      BY <2>1 DEF Pending
    <2>4. DOMAIN Pending = Sources /\ Pending' = [t \in Sources |-> Pending'[t]]
      BY DEF Pending
    <2> QED  BY <2>2, <2>3, <2>4
  <1>13. \A x, y : IsSuffix(x, y) => Buffers!IsSuffix(x, y)
    BY DEF IsSuffix, IsPrefix, Reverse,
           Buffers!IsSuffix, Buffers!IsPrefix, Buffers!Reverse
  <1> QED  BY <1>9, <1>11, <1>12, <1>13 DEF Buffers!Insert

LEMMA ShiftStutters ==
    ASSUME StoreInv, NEW s \in Sources, NEW hours, ShiftSource(s, hours)
    PROVE  Buffer' = Buffer /\ Pending' = Pending
  <1> DEFINE g == [r \in rows |-> IF r.src = s THEN Shifted(r, hours) ELSE r]
  <1>1. rows' = {g[r] : r \in rows} /\ pending' = pending
    BY DEF ShiftSource
  <1>2. \A r \in rows : g[r].n = r.n /\ g[r].src = r.src
    BY ShiftedRow DEF StoreInv
  <1> HIDE DEF g
  <1>3. ASSUME NEW t \in Sources
        PROVE  NumbersOf(RowsOf(rows', t)) = NumbersOf(RowsOf(rows, t))
    BY <1>1, <1>2 DEF NumbersOf, RowsOf
  <1>4. Buffer' = Buffer
    BY <1>3, BufferIs
  <1> QED  BY <1>1, <1>4 DEF Pending

LEMMA BuffersInit == Init => Buffers!Init
  <1> SUFFICES ASSUME Init PROVE Buffers!Init
    OBVIOUS
  <1>1. rows = {} /\ pending = [s \in Sources |-> <<>>]
    BY DEF Init
  <1>2. Ascending({}) = <<>>
    <2>1. Numerals({}) /\ Cardinality({}) = 0
      BY FS_EmptySet DEF Numerals
    <2>2. Ascending({}) \in Seq(Nat) /\ Len(Ascending({})) = 0
      BY <2>1, AscendingSeq
    <2> QED  BY <2>2
  <1>3. \A s \in Sources : NumbersOf(RowsOf(rows, s)) = {}
    BY <1>1 DEF NumbersOf, RowsOf
  <1>4. Buffer = [s \in Sources |-> <<>>]
    BY <1>2, <1>3, BufferIs
  <1>5. Pending = [s \in Sources |-> <<>>]
    BY <1>1 DEF Pending
  <1> QED  BY <1>4, <1>5 DEF Buffers!Init

LEMMA BuffersNext == StoreInv /\ [Next]_vars => [Buffers!Next]_(Buffers!vars)
  <1> SUFFICES ASSUME StoreInv, [Next]_vars
               PROVE  Buffers!Next \/ (Buffer' = Buffer /\ Pending' = Pending)
    BY DEF Buffers!vars
  <1>1. ASSUME NEW s \in Sources, NEW content \in Contents, Read(s, content)
        PROVE  Buffers!Next
    BY <1>1, ReadStep DEF Buffers!Next
  <1>2. ASSUME NEW s \in Sources, NEW limit \in Limits \cup {0}, Insert(s, limit)
        PROVE  Buffers!Next
    BY <1>2, InsertStep DEF Buffers!Next
  <1>3. ASSUME NEW s \in Sources, NEW limit \in Limits, TrimSource(s, limit)
        PROVE  Buffers!Next
    <2> DEFINE R == RowsOf(rows, s)
               X == Excess(R, limit)
    <2>1. Of(s) = R
      BY DEF Of, RowsOf
    <2>2. rows' = rows \ X /\ UNCHANGED pending
      BY <1>3, <2>1 DEF TrimSource, Delete
    <2>3. X \in SUBSET R
      BY ExcessRows
    <2>4. limit \in Nat
      BY LimitAssumption
    <2>5. \A a \in X, b \in R \ X : a.n < b.n
      <3>1. Ranked(R)
        BY SourceRanked
      <3> HIDE DEF R
      <3> QED  BY <2>4, <3>1, ExcessDown
    <2> HIDE DEF X
    <2>6. Buffers!CutOldest(s)
      BY <2>2, <2>3, <2>5, CutOldestStep
    <2> QED  BY <2>6 DEF Buffers!Next
  <1>4. ASSUME NEW s \in Sources, NEW limit \in Limits, DeleteLatest(s, limit)
        PROVE  Buffers!Next
    <2> DEFINE R == RowsOf(rows, s)
               X == Newest(R, limit)
    <2>1. Of(s) = R
      BY DEF Of, RowsOf
    <2>2. rows' = rows \ X /\ UNCHANGED pending
      BY <1>4, <2>1 DEF DeleteLatest, Delete
    <2>3. X \in SUBSET R
      BY DEF Newest
    <2>4. limit \in Nat
      BY LimitAssumption
    <2>5. \A a \in X, b \in R \ X : b.n < a.n
      <3>1. Ranked(R)
        BY SourceRanked
      <3> HIDE DEF R
      <3> QED  BY <2>4, <3>1, NewestUp
    <2> HIDE DEF X
    <2>6. Buffers!CutNewest(s)
      BY <2>2, <2>3, <2>5, CutNewestStep
    <2> QED  BY <2>6 DEF Buffers!Next
  <1>5. ASSUME NEW s \in Sources, DeleteSource(s) PROVE Buffers!Next
    <2> DEFINE X == RowsOf(rows, s)
    <2>1. Of(s) = X
      BY DEF Of, RowsOf
    <2>2. rows' = rows \ X /\ UNCHANGED pending
      BY <1>5, <2>1 DEF DeleteSource, Delete
    <2>3. X \in SUBSET X /\ \A a \in X, b \in X \ X : a.n < b.n
      OBVIOUS
    <2>4. Buffers!CutOldest(s)
      BY <2>2, <2>3, CutOldestStep
    <2> QED  BY <2>4 DEF Buffers!Next
  <1>6. ASSUME NEW s \in Sources, NEW hours \in Shifts, ShiftSource(s, hours)
        PROVE  Buffer' = Buffer /\ Pending' = Pending
    BY <1>6, ShiftStutters
  <1>7. ASSUME rows' = rows, pending' = pending
        PROVE  Buffer' = Buffer /\ Pending' = Pending
    BY <1>7, BufferIs DEF Pending
  <1>8. ASSUME NEW bytes \in ByteLimits, UpdateSettings(bytes)
        PROVE  Buffer' = Buffer /\ Pending' = Pending
    BY <1>7, <1>8 DEF UpdateSettings
  <1>9. CASE UNCHANGED vars
    BY <1>7, <1>9 DEF vars
  <1> QED  BY <1>1, <1>2, <1>3, <1>4, <1>5, <1>6, <1>8, <1>9 DEF Next

(* The table is, for each source, a sequence in reading order: whatever    *)
(* the limits evict and the operations delete is an end of it, and an      *)
(* insertion never keeps an event older than one it evicts.  Every step of *)
(* the store is a step of that buffer or none.                             *)
THEOREM StoreIsABuffer == Spec => ImplementsBuffers
  BY StoreAlways, BuffersInit, BuffersNext, PTL
  DEF Spec, ImplementsBuffers, Buffers!Spec

-----------------------------------------------------------------------------
(* The two evaluations of a filter.                                        *)

Typed(e) ==
    /\ e.message.kind = "string" /\ e.level.kind = "string" /\ e.source.kind = "string"
    /\ \A p \in DOMAIN e.fields :
           /\ e.fields[p].kind \in JsonKinds
           /\ e.fields[p].kind = "boolean" => e.fields[p].is \in BOOLEAN
    /\ \/ e.timestamp.kind = "null"
       \/ /\ e.timestamp.kind = "moment"
          /\ e.timestamp.is \in Int /\ e.timestamp.zone \in Int

\* What a condition looks at.
TypedFor(c, v) ==
    /\ v.kind \in JsonKinds \cup {"missing", "moment"}
    /\ v.kind = "boolean" => v.is \in BOOLEAN
    /\ v.kind = "moment" => v.is \in Int /\ v.zone \in Int
    /\ c.field = "timestamp" => v.kind \in {"null", "moment"}
    /\ v.kind = "moment" => c.field = "timestamp"

LEMMA ActualTyped ==
    ASSUME NEW e, Typed(e), NEW c, c.field \in Fields
    PROVE  TypedFor(c, Actual(e, c))
  <1>1. PICK v : v = Actual(e, c)
    OBVIOUS
  <1> SUFFICES TypedFor(c, v)
    BY <1>1
  <1>2. CASE c.field \in {"message", "level", "source"}
    <2>1. v = e.message \/ v = e.level \/ v = e.source
      BY <1>1, <1>2 DEF Actual
    <2>2. v.kind = "string"
      BY <2>1 DEF Typed
    <2> QED  BY <1>2, <2>2 DEF JsonKinds, TypedFor
  <1>3. CASE c.field = "json"
    <2>1. v = JsonValue(e.fields, c.path)
      BY <1>1, <1>3 DEF Actual
    <2>2. v = Missing \/ (c.path \in DOMAIN e.fields /\ v = e.fields[c.path])
      BY <2>1 DEF JsonValue
    <2>3. CASE v = Missing
      BY <1>3, <2>3 DEF Missing, TypedFor
    <2>4. CASE c.path \in DOMAIN e.fields /\ v = e.fields[c.path]
      <3>1. v.kind \in JsonKinds /\ (v.kind = "boolean" => v.is \in BOOLEAN)
        BY <2>4 DEF Typed
      <3> QED  BY <1>3, <3>1 DEF JsonKinds, TypedFor
    <2> QED  BY <2>2, <2>3, <2>4
  <1>4. CASE c.field = "timestamp"
    <2>1. v = e.timestamp
      BY <1>1, <1>4 DEF Actual
    <2>2. v.kind = "null" \/ (v.kind = "moment" /\ v.is \in Int /\ v.zone \in Int)
      BY <2>1 DEF Typed
    <2> QED  BY <1>4, <2>2 DEF JsonKinds, TypedFor
  <1> QED  BY <1>2, <1>3, <1>4 DEF Fields

\* The words of a condition fold alike, unless it is ambiguous.
LEMMA FoldsAgree ==
    ASSUME NEW e, NEW c, NEW zone, ~Ambiguous(e, c, zone), c.operator \notin Orders,
           NEW words, words \subseteq ServerText(Actual(e, c)) \cup c.value.words
    PROVE  Folded(words, ServerFold(c)) = Folded(words, ClientFold(c))
  <1>1. CASE ServerFold(c) = ClientFold(c)
    BY <1>1
  <1>2. CASE ServerFold(c) # ClientFold(c)
    <2>1. ServerFold(c) = CaseFold /\ ClientFold(c) = ToLowerCase
      BY <1>2 DEF ServerFold, ClientFold
    <2>2. \A w \in ServerText(Actual(e, c)) \cup c.value.words :
              Reading(w, CaseFold) = Reading(w, ToLowerCase)
      BY <1>2 DEF Ambiguous
    <2>3. \A w \in words : Reading(w, CaseFold) = Reading(w, ToLowerCase)
      BY <2>2
    <2> QED  BY <2>1, <2>3 DEF Folded
  <1> QED  BY <1>1, <1>2

LEMMA TextsAgree ==
    ASSUME NEW e, Typed(e), NEW c, c.field \in Fields, NEW zone,
           ~Ambiguous(e, c, zone), c.operator \notin Orders
    PROVE  Folded(ServerText(Actual(e, c)), ClientFold(c)) =
               Folded(ClientText(Actual(e, c)), ClientFold(c))
  <1> DEFINE v == Actual(e, c)
  <1>1. v.kind \in JsonKinds \cup {"missing", "moment"} /\ (v.kind = "boolean" => v.is \in BOOLEAN)
    BY ActualTyped DEF TypedFor
  <1>2. /\ v.kind # "object" /\ ~ (v.kind = "boolean" /\ ~v.is)
        /\ ~ (v.kind = "number" /\ v.is = 0) /\ ~ (v.kind = "boolean" /\ c.caseSensitive)
        /\ v.kind # "moment"
    BY DEF Ambiguous
  <1> HIDE DEF v
  <1>3. CASE v.kind \in {"missing", "null"}
    BY <1>3 DEF ServerText, ClientText, v
  <1>4. CASE v.kind = "boolean"
    <2>1. ServerText(v) = {"True"} /\ ClientText(v) = {"true"}
      BY <1>1, <1>2, <1>4 DEF ServerText, ClientText
    <2>2. ClientFold(c) = ToLowerCase
      BY <1>2, <1>4 DEF ClientFold
    <2> QED  BY <2>1, <2>2, TrueAssumption DEF Folded, v
  <1>5. CASE v.kind = "number"
    BY <1>2, <1>5 DEF ServerText, ClientText, v
  <1>6. CASE v.kind = "string"
    BY <1>6 DEF ServerText, ClientText, v
  <1> QED  BY <1>1, <1>2, <1>3, <1>4, <1>5, <1>6 DEF JsonKinds, v

LEMMA OrdersAgree ==
    ASSUME NEW e, Typed(e), NEW c, c.field \in Fields, NEW zone,
           ~Ambiguous(e, c, zone), c.operator \in Orders
    PROVE  ServerOrder(c, Actual(e, c)) = ClientOrder(c, Actual(e, c), zone)
  <1> DEFINE v == Actual(e, c)
  <1>1. /\ v.kind \in JsonKinds \cup {"missing", "moment"}
        /\ v.kind = "moment" => v.is \in Int /\ v.zone \in Int
        /\ c.field = "timestamp" => v.kind \in {"null", "moment"}
        /\ v.kind = "moment" => c.field = "timestamp"
    BY ActualTyped DEF TypedFor
  <1>2. CASE c.field = "timestamp"
    <2>1. v.kind # "null" /\ ~ (c.value.naive /\ v.zone # zone)
      BY <1>2 DEF Ambiguous
    <2>2. v.kind = "moment" /\ v.is \in Int /\ v.zone \in Int
      BY <1>1, <1>2, <2>1
    <2> DEFINE local == IF c.value.naive THEN zone ELSE 0
               theirs == v.is + local
               ours == IF c.value.naive THEN v.is + v.zone ELSE v.is
    <2>3. ours = theirs
      BY <2>1, <2>2
    <2>4. ServerOrder(c, v) = \E h \in c.value.hour : Compared(c.operator, ours, h)
      BY <2>2 DEF ServerOrder
    <2>5. ClientOrder(c, v, zone) = \E h \in c.value.hour : Compared(c.operator, theirs, h)
      BY <1>2, <2>2 DEF ClientOrder
    <2> HIDE DEF ours, theirs, v
    <2>6. ServerOrder(c, v) = ClientOrder(c, v, zone)
      BY <2>3, <2>4, <2>5
    <2> QED  BY <2>6 DEF v
  <1>3. CASE c.field # "timestamp"
    <2>1. v.kind # "null" /\ ~Empty(v) /\ c.value.words # {}
      BY <1>3 DEF Ambiguous
    <2>2. v.kind # "moment"
      BY <1>1, <1>3
    <2>3. ServerNumber(v) = ClientNumber(v)
      <3> HIDE DEF v
      <3>1. v.kind = "string" => v.words # {}
        BY <2>1 DEF Empty
      <3> QED  BY <1>1, <2>1, <2>2, <3>1 DEF ServerNumber, ClientNumber, JsonKinds
    <2> HIDE DEF v
    <2>4. ServerOrder(c, v) =
              \E x \in ServerNumber(v), y \in c.value.number : Compared(c.operator, x, y)
      BY <2>2 DEF ServerOrder
    <2>5. ClientOrder(c, v, zone) =
              \E x \in ClientNumber(v), y \in c.value.number : Compared(c.operator, x, y)
      BY <1>3, <2>1 DEF ClientOrder
    <2>6. ServerOrder(c, v) = ClientOrder(c, v, zone)
      BY <2>3, <2>4, <2>5
    <2> QED  BY <2>6 DEF v
  <1> QED  BY <1>2, <1>3

LEMMA ConditionsAgree ==
    ASSUME NEW e, Typed(e), NEW c, c.field \in Fields, NEW zone, ~Ambiguous(e, c, zone)
    PROVE  ServerHolds(e, c) = ClientHolds(e, c, zone)
  <1> DEFINE v == Actual(e, c)
             S(t, f) == Found(c.operator, Folded(t, f), Folded(c.value.words, f))
  <1>1. CASE c.operator \in Orders
    BY <1>1, OrdersAgree DEF ServerHolds, ClientHolds
  <1>2. CASE c.operator \notin Orders
    <2>1. c.operator \in Patterns => "browser" \in c.value.dialects
      BY <1>2 DEF Ambiguous
    <2>2. S(ServerText(v), ServerFold(c)) = S(ClientText(v), ClientFold(c))
      <3>1. Folded(ServerText(v), ServerFold(c)) = Folded(ServerText(v), ClientFold(c))
        BY <1>2, FoldsAgree
      <3>2. Folded(c.value.words, ServerFold(c)) = Folded(c.value.words, ClientFold(c))
        BY <1>2, FoldsAgree
      <3>3. Folded(ServerText(v), ClientFold(c)) = Folded(ClientText(v), ClientFold(c))
        BY <1>2, TextsAgree
      <3> QED  BY <3>1, <3>2, <3>3
    <2>3. ServerHolds(e, c) = (S(ServerText(v), ServerFold(c)) = (c.operator \notin Negative))
      BY <1>2 DEF ServerHolds
    <2>4. ClientHolds(e, c, zone) = (S(ClientText(v), ClientFold(c)) = (c.operator \notin Negative))
      BY <1>2, <2>1 DEF ClientHolds
    <2> HIDE DEF S, v
    <2> QED  BY <2>2, <2>3, <2>4
  <1> QED  BY <1>1, <1>2

LEMMA CombinationsAgree ==
    ASSUME NEW h, h.logic \in {"AND", "OR"}, NEW values
    PROVE  ServerCombined(h, values) = ClientCombined(h, values)
  <1> DEFINE ours == IF h.logic = "AND" \/ values = {} THEN FALSE \notin values
                     ELSE TRUE \in values
             theirs == IF values = {} THEN TRUE
                       ELSE IF h.logic = "OR" THEN TRUE \in values ELSE FALSE \notin values
  <1>1. CASE values = {}
    <2>1. ours = TRUE /\ theirs = TRUE
      BY <1>1
    <2> QED  BY <2>1 DEF ServerCombined, ClientCombined
  <1>2. CASE values # {} /\ h.logic = "OR"
    <2>1. ours = (TRUE \in values) /\ theirs = (TRUE \in values)
      BY <1>2
    <2> QED  BY <2>1 DEF ServerCombined, ClientCombined
  <1>3. CASE values # {} /\ h.logic = "AND"
    <2>1. ours = (FALSE \notin values) /\ theirs = (FALSE \notin values)
      BY <1>3
    <2> QED  BY <2>1 DEF ServerCombined, ClientCombined
  <1> QED  BY <1>1, <1>2, <1>3

LEMMA EvaluationsAgree ==
    ASSUME NEW e, Typed(e), NEW g \in Filters, NEW zone
    PROVE  Alike(e, g, zone)
  <1> SUFFICES ASSUME Clear(e, g, zone)
               PROVE  ServerMatches(e, g) = ClientMatches(e, g, zone)
    BY DEF Alike
  <1> DEFINE Ours(h, f) == ServerCombined(h, {ServerHolds(e, c) : c \in h.conditions}
                                                \cup {f[k] : k \in h.groups})
             Theirs(h, f) == ClientCombined(h, {ClientHolds(e, c, zone) : c \in h.conditions}
                                                  \cup {f[k] : k \in h.groups})
             T == Tree(g)
  <1>1. ASSUME NEW h \in T, NEW f PROVE Ours(h, f) = Theirs(h, f)
    <2>1. h.logic \in {"AND", "OR"} /\ \A c \in h.conditions : c.field \in Fields
      BY FilterAssumption
    <2>2. \A c \in h.conditions : ServerHolds(e, c) = ClientHolds(e, c, zone)
      BY <2>1, ConditionsAgree DEF Clear
    <2>3. {ServerHolds(e, c) : c \in h.conditions} = {ClientHolds(e, c, zone) : c \in h.conditions}
      BY <2>2
    <2> DEFINE values == {ServerHolds(e, c) : c \in h.conditions} \cup {f[k] : k \in h.groups}
    <2>4. Ours(h, f) = ServerCombined(h, values)
      OBVIOUS
    <2>5. Theirs(h, f) = ClientCombined(h, values)
      BY <2>3
    <2> HIDE DEF Ours, Theirs, values
    <2> QED  BY <2>1, <2>4, <2>5, CombinationsAgree
  <1>2. /\ ServerMatches(e, g) = (CHOOSE f : f = [h \in T |-> Ours(h, f)])[g]
        /\ ClientMatches(e, g, zone) = (CHOOSE f : f = [h \in T |-> Theirs(h, f)])[g]
    BY DEF ServerMatches, ClientMatches
  <1> HIDE DEF Ours, Theirs, T
  <1>3. \A f : [h \in T |-> Ours(h, f)] = [h \in T |-> Theirs(h, f)]
    BY <1>1
  <1>4. (CHOOSE f : f = [h \in T |-> Ours(h, f)]) = (CHOOSE f : f = [h \in T |-> Theirs(h, f)])
    BY <1>3
  <1> QED  BY <1>2, <1>4

LEMMA EventTyped ==
    ASSUME StoreInv, NEW r \in rows
    PROVE  EventOf(r) \in Events /\ Typed(EventOf(r))
  <1>1. PICK s \in Sources, c \in Contents :
            r.src = s /\ r.content = c /\ r.hour = Displayed(c, s)
    BY RowShape DEF StoreInv
  <1>2. PICK k \in Shifts : shift[s] = k
    BY DEF StoreInv, ShownInv, BatchesShown
  <1>3. r.hour = IF c.hour = 0 THEN 0 ELSE c.hour + k
    BY <1>1, <1>2 DEF Displayed
  <1> DEFINE x == [src |-> s, content |-> c, hour |-> IF c.hour = 0 THEN 0 ELSE c.hour + k]
  <1>4. EventOf(r) = EventOf(x)
    BY <1>1, <1>3 DEF EventOf, Timeless
  <1>5. EventOf(x) \in Events
    BY DEF Events
  <1>6. r.hour \in Nat /\ c.zone \in Int
    BY <1>3, ContentAssumption
  <1>7. Typed(EventOf(r))
    <2> DEFINE e == EventOf(r)
    <2>1. e.message.kind = "string" /\ e.level.kind = "string" /\ e.source.kind = "string"
      BY DEF EventOf, String
    <2>2. e.fields = c.fields
      BY <1>1 DEF EventOf
    <2>3. \/ e.timestamp.kind = "null"
          \/ /\ e.timestamp.kind = "moment"
             /\ e.timestamp.is \in Int /\ e.timestamp.zone \in Int
      BY <1>1, <1>6 DEF EventOf, Null
    <2> HIDE DEF e
    <2>4. \A p \in DOMAIN e.fields :
              /\ e.fields[p].kind \in JsonKinds
              /\ e.fields[p].kind = "boolean" => e.fields[p].is \in BOOLEAN
      BY <2>2, ContentAssumption
    <2> QED  BY <2>1, <2>3, <2>4 DEF Typed, e
  <1> QED  BY <1>4, <1>5, <1>7

(* The server and the page select the same events, for every filter there  *)
(* can be and every browser zone: whatever a panel is loaded with and      *)
(* whatever is added to it later are chosen alike, unless a condition is   *)
(* one of those that Ambiguous lists.                                      *)
THEOREM EvaluationsSelectAlike == Spec => []FiltersAgree
  <1>1. StoreInv => FiltersAgree
    BY EventTyped, EvaluationsAgree DEF FiltersAgree, Agreed
  <1> QED  BY <1>1, StoreAlways, PTL

-----------------------------------------------------------------------------
(* Queries, when every timestamp is written in UTC: the order of the       *)
(* statement is then that of the moments (event_zones.cfg shows that it is *)
(* not otherwise).                                                         *)

Utc == \A c \in Contents : c.zone = 0

LEMMA RowInUtc ==
    ASSUME StoreInv, Utc, NEW r \in rows
    PROVE  r.n \in Nat /\ r.hour \in Nat /\ r.content.zone = 0 /\ Local(r) = r.hour
  <1>1. /\ r.n \in Nat /\ r.src \in Sources /\ r.content \in Contents
        /\ r.hour = Displayed(r.content, r.src)
    BY RowShape DEF StoreInv
  <1>2. shift[r.src] \in Shifts
    BY <1>1 DEF StoreInv, ShownInv, BatchesShown
  <1>3. r.hour \in Nat
    BY <1>1, <1>2, ContentAssumption DEF Displayed
  <1>4. r.content.zone = 0
    BY <1>1 DEF Utc
  <1> QED  BY <1>1, <1>3, <1>4 DEF Local

LEMMA SqlOrder ==
    ASSUME StoreInv, Utc
    PROVE  /\ \A x \in rows : ~SqlBefore(x, x)
           /\ \A x, y, z \in rows : SqlBefore(x, y) /\ SqlBefore(y, z) => SqlBefore(x, z)
           /\ \A x, y \in rows : x = y \/ SqlBefore(x, y) \/ SqlBefore(y, x)
           /\ \A x, y \in rows : SqlBefore(x, y) <=> Newer(x, y)
  <1>1. \A x \in rows : x.n \in Nat /\ x.hour \in Nat
    BY RowInUtc
  <1>2. ASSUME NEW x \in rows, NEW y \in rows
        PROVE  SqlBefore(x, y) <=> \/ x.hour # 0 /\ y.hour = 0
                                   \/ x.hour = 0 /\ y.hour = 0 /\ x.n > y.n
                                   \/ /\ x.hour # 0 /\ y.hour # 0
                                      /\ x.hour > y.hour \/ (x.hour = y.hour /\ x.n > y.n)
    <2>1. x.content.zone = 0 /\ y.content.zone = 0 /\ Local(x) = x.hour /\ Local(y) = y.hour
      BY RowInUtc
    <2> QED  BY <2>1 DEF SqlBefore, Timeless
  <1>3. \A x, y \in rows : x.n = y.n => x = y
    BY DEF StoreInv, Numbered, RowsNumbered
  <1>4. \A x \in rows : ~SqlBefore(x, x)
    BY <1>1, <1>2
  <1>5. ASSUME NEW x \in rows, NEW y \in rows, NEW z \in rows,
               SqlBefore(x, y), SqlBefore(y, z)
        PROVE  SqlBefore(x, z)
    <2>1. /\ x.n \in Nat /\ y.n \in Nat /\ z.n \in Nat
          /\ x.hour \in Nat /\ y.hour \in Nat /\ z.hour \in Nat
      BY <1>1
    <2> QED  BY <1>2, <1>5, <2>1
  <1>6. ASSUME NEW x \in rows, NEW y \in rows
        PROVE  x = y \/ SqlBefore(x, y) \/ SqlBefore(y, x)
    <2>1. x.n \in Nat /\ y.n \in Nat /\ x.hour \in Nat /\ y.hour \in Nat
      BY <1>1
    <2> QED  BY <1>2, <1>3, <2>1
  <1>7. ASSUME NEW x \in rows, NEW y \in rows
        PROVE  SqlBefore(x, y) <=> Newer(x, y)
    <2>1. x.n \in Nat /\ y.n \in Nat /\ x.hour \in Nat /\ y.hour \in Nat
      BY <1>1
    <2>2. CASE x.hour = 0 /\ y.hour = 0
      BY <1>2, <2>1, <2>2 DEF Newer, Chronological, Timeless
    <2>3. CASE x.hour # 0 /\ y.hour # 0
      BY <1>2, <2>1, <2>3 DEF Newer, Chronological, Timeless
    <2>4. CASE x.hour = 0 /\ y.hour # 0
      BY <1>2, <2>1, <2>4 DEF Newer, Chronological, Timeless
    <2>5. CASE x.hour # 0 /\ y.hour = 0
      BY <1>2, <2>1, <2>5 DEF Newer, Chronological, Timeless
    <2> QED  BY <2>2, <2>3, <2>4, <2>5
  <1> QED  BY <1>4, <1>5, <1>6, <1>7

LEMMA ChronologicalOrder ==
    ASSUME StoreInv, Utc, NEW S \in SUBSET rows
    PROVE  LET B == {p \in S \X S : Chronological(p[1], p[2])} IN
           /\ StrictOrder(B, S)
           /\ \A x, y \in S : <<x, y>> \in B <=> Chronological(x, y)
  <1> DEFINE B == {p \in S \X S : Chronological(p[1], p[2])}
  <1>1. \A x, y \in S : <<x, y>> \in B <=> Chronological(x, y)
    OBVIOUS
  <1> HIDE DEF B
  <1>2. \A x \in S : x.n \in Nat /\ x.hour \in Nat
    BY RowInUtc
  <1>3. \A x, y \in S : x.n = y.n => x = y
    BY DEF StoreInv, Numbered, RowsNumbered
  <1>4. \A x \in S : ~Chronological(x, x)
    BY <1>2 DEF Chronological, Timeless
  <1>5. ASSUME NEW x \in S, NEW y \in S, NEW z \in S,
               Chronological(x, y), Chronological(y, z)
        PROVE  Chronological(x, z)
    <2>1. /\ x.n \in Nat /\ y.n \in Nat /\ z.n \in Nat
          /\ x.hour \in Nat /\ y.hour \in Nat /\ z.hour \in Nat
      BY <1>2
    <2> QED  BY <1>5, <2>1 DEF Chronological, Timeless
  <1>6. ASSUME NEW x \in S, NEW y \in S
        PROVE  x = y \/ Chronological(x, y) \/ Chronological(y, x)
    <2>1. x.n \in Nat /\ y.n \in Nat /\ x.hour \in Nat /\ y.hour \in Nat
      BY <1>2
    <2> QED  BY <1>3, <2>1 DEF Chronological, Timeless
  <1>7. StrictOrder(B, S)
    BY <1>1, <1>4, <1>5, <1>6 DEF StrictOrder
  <1> QED  BY <1>1, <1>7 DEF B

\* The final sort keeps the events.
LEMMA AnswerSorted ==
    ASSUME StoreInv, Utc, NEW S \in SUBSET rows
    PROVE  LET q == Sorted(S, Chronological) IN
           /\ ToSet(q) = S
           /\ \A i, j \in DOMAIN q : i < j => Chronological(q[i], q[j])
  <1> DEFINE B == {p \in S \X S : Chronological(p[1], p[2])}
             q == Sorted(S, Chronological)
  <1>1. StrictOrder(B, S) /\ \A x, y \in S : <<x, y>> \in B <=> Chronological(x, y)
    BY ChronologicalOrder
  <1>2. IsFiniteSet(S)
    BY FS_Subset DEF StoreInv, Numbered, RowsNumbered
  <1> HIDE DEF B
  <1>3. PICK p : Arranges(p, S, B)
    BY <1>1, <1>2, ArrangementExists
  <1>4. ASSUME NEW u \in SetToSeqs(S), NEW i \in DOMAIN u, NEW j \in DOMAIN u
        PROVE  <<u[i], u[j]>> \in B <=> Chronological(u[i], u[j])
    <2>1. u[i] \in S /\ u[j] \in S
      BY DEF SetToSeqs
    <2> QED  BY <1>1, <2>1
  <1>5. p \in SetToSeqs(S) /\ \A i, j \in DOMAIN p : i < j => Chronological(p[i], p[j])
    BY <1>1, <1>2, <1>3, <1>4, ArrangementLists
  <1>6. q \in SetToSeqs(S) /\ \A i, j \in DOMAIN q : i < j => Chronological(q[i], q[j])
    BY <1>5 DEF Sorted
  <1> HIDE DEF q
  <1>7. Arranges(q, S, B)
    BY <1>1, <1>2, <1>4, <1>6, ArrangementLists
  <1>8. ToSet(q) = S
    BY <1>7 DEF Arranges, ToSet
  <1> QED  BY <1>6, <1>8 DEF q

\* A row's place says what is before it.
LEMMA PlaceOrders ==
    ASSUME StoreInv, Utc, NEW R \in SUBSET rows, NEW x \in R, NEW y \in R
    PROVE  /\ Place(R, x) \in Nat
           /\ Place(R, x) < Cardinality(R)
           /\ SqlBefore(x, y) <=> Place(R, x) < Place(R, y)
  <1> DEFINE P(r) == {z \in R : SqlBefore(z, r)}
  <1>1. IsFiniteSet(R)
    BY FS_Subset DEF StoreInv, Numbered, RowsNumbered
  <1>2. ASSUME NEW r \in R
        PROVE  /\ P(r) \in SUBSET R /\ r \notin P(r) /\ IsFiniteSet(P(r))
               /\ Place(R, r) = Cardinality(P(r)) /\ Place(R, r) \in Nat
    <2>1. P(r) \in SUBSET R /\ r \notin P(r)
      BY SqlOrder
    <2>2. IsFiniteSet(P(r))
      BY <1>1, <2>1, FS_Subset
    <2>3. Place(R, r) = Cardinality(P(r))
      BY DEF Place
    <2> HIDE DEF P
    <2> QED  BY <2>1, <2>2, <2>3, FS_CardinalityType
  <1>3. ASSUME NEW S, IsFiniteSet(S), NEW T \in SUBSET S, NEW r \in S, r \notin T
        PROVE  Cardinality(T) < Cardinality(S)
    <2>1. /\ IsFiniteSet(T) /\ Cardinality(T) <= Cardinality(S)
          /\ (Cardinality(T) = Cardinality(S) => T = S)
      BY <1>3, FS_Subset
    <2>2. Cardinality(T) \in Nat /\ Cardinality(S) \in Nat
      BY <1>3, <2>1, FS_CardinalityType
    <2> QED  BY <1>3, <2>1, <2>2
  <1>4. Place(R, x) < Cardinality(R)
    <2> HIDE DEF P
    <2> QED  BY <1>1, <1>2, <1>3
  <1>5. ASSUME NEW a \in R, NEW b \in R, SqlBefore(a, b) PROVE Place(R, a) < Place(R, b)
    <2>1. P(a) \subseteq P(b) /\ a \in P(b) /\ a \notin P(a)
      BY <1>5, SqlOrder
    <2> HIDE DEF P
    <2> QED  BY <1>2, <1>3, <2>1
  <1>6. ASSUME ~SqlBefore(x, y) PROVE ~ (Place(R, x) < Place(R, y))
    <2>1. x = y \/ SqlBefore(y, x)
      BY <1>6, SqlOrder
    <2>2. Place(R, x) \in Nat /\ Place(R, y) \in Nat
      BY <1>2
    <2>3. CASE SqlBefore(y, x)
      BY <1>5, <2>2, <2>3
    <2> QED  BY <2>1, <2>2, <2>3
  <1> QED  BY <1>2, <1>4, <1>5, <1>6

\* Reading page after page stops late enough.
LEMMA ScanIsFirst ==
    ASSUME StoreInv, Utc, NEW R \in SUBSET rows, NEW filter, NEW limit \in Nat
    PROVE  Scan(R, filter, limit) = First(Matching(R, filter), limit)
  <1> DEFINE M == Matching(R, filter)
             Matched(k) == Matching(Paged(R, k), filter)
             done == {k \in 1..Cardinality(R) + 1 :
                         \/ Cardinality(Matched(k)) >= limit
                         \/ k * PageSize > Cardinality(R)}
  <1>1. IsFiniteSet(R) /\ Cardinality(R) \in Nat
    BY FS_Subset, FS_CardinalityType DEF StoreInv, Numbered, RowsNumbered
  <1>2. PICK n \in Nat : n = Cardinality(R)
    BY <1>1
  <1>3. done \in SUBSET Nat /\ n + 1 \in done
    <2>1. \A p \in Nat \ {0} : (n + 1) * p > n
      OBVIOUS
    <2>2. n + 1 \in 1..n + 1 /\ (n + 1) * PageSize > n
      BY <2>1, BatchAssumption
    <2> QED  BY <1>2, <2>2
  <1>4. Scan(R, filter, limit) = First(Matched(Min(done)), limit)
    BY DEF Scan
  <1>5. Min(done) \in done
    <2> HIDE DEF done
    <2> QED  BY <1>3, MinIsLeast
  <1>6. PICK k \in Nat : k = Min(done) /\ k * PageSize \in Nat
    <2> DEFINE j == Min(done)
    <2>1. j \in Nat
      BY <1>3, <1>5
    <2> HIDE DEF j
    <2>2. j * PageSize \in Nat
      BY <2>1, BatchAssumption
    <2> QED  BY <2>1, <2>2 DEF j
  <1> DEFINE W == Matched(k)
             edge == k * PageSize
  <1>7. Cardinality(W) >= limit \/ edge > n
    BY <1>2, <1>5, <1>6
  <1>8. /\ M \in SUBSET R /\ IsFiniteSet(M)
        /\ W = {r \in M : Place(R, r) < edge} /\ IsFiniteSet(W)
    <2>1. M \in SUBSET R
      BY DEF Matching
    <2>2. W = {r \in M : Place(R, r) < edge}
      BY DEF Matching, Paged
    <2>3. W \in SUBSET M
      BY <2>2
    <2> HIDE DEF M, W
    <2> QED  BY <1>1, <2>1, <2>2, <2>3, FS_Subset
  <1>9. edge \in Nat
    BY <1>6
  <1>10. \A x, y \in R : /\ Place(R, x) \in Nat /\ Place(R, x) < n
                         /\ SqlBefore(x, y) <=> Place(R, x) < Place(R, y)
    BY <1>2, PlaceOrders
  <1> HIDE DEF M, W, edge
  <1>11. ASSUME NEW r \in W PROVE Place(W, r) = Place(M, r)
    <2>1. r \in M /\ r \in R /\ Place(R, r) < edge
      BY <1>8
    <2>2. ASSUME NEW x \in M, SqlBefore(x, r) PROVE x \in W
      <3>1. x \in R /\ Place(R, x) < Place(R, r) /\ Place(R, x) \in Nat /\ Place(R, r) \in Nat
        BY <1>8, <1>10, <2>1, <2>2
      <3>2. Place(R, x) < edge
        BY <1>9, <2>1, <3>1
      <3> QED  BY <1>8, <3>2
    <2>3. {x \in W : SqlBefore(x, r)} = {x \in M : SqlBefore(x, r)}
      BY <1>8, <2>2
    <2> QED  BY <2>3 DEF Place
  <1>12. ASSUME NEW r \in M, r \notin W PROVE ~ (Place(M, r) < limit)
    <2>1. r \in R /\ ~ (Place(R, r) < edge) /\ Place(R, r) < n /\ Place(R, r) \in Nat
      BY <1>8, <1>10, <1>12
    <2>2. Cardinality(W) >= limit
      BY <1>7, <1>9, <2>1
    <2> DEFINE P == {x \in M : SqlBefore(x, r)}
    <2>3. W \in SUBSET P
      <3> SUFFICES ASSUME NEW x \in W PROVE x \in M /\ SqlBefore(x, r)
        OBVIOUS
      <3>1. x \in M /\ x \in R /\ Place(R, x) < edge /\ Place(R, x) \in Nat
        BY <1>8, <1>10
      <3>2. Place(R, x) < Place(R, r)
        BY <1>9, <2>1, <3>1
      <3> QED  BY <1>10, <2>1, <3>1, <3>2
    <2>4. P \in SUBSET M
      OBVIOUS
    <2>5. Place(M, r) = Cardinality(P)
      BY DEF Place
    <2> HIDE DEF P
    <2>6. IsFiniteSet(P) /\ Cardinality(W) <= Cardinality(P)
      BY <1>8, <2>3, <2>4, FS_Subset
    <2>7. Cardinality(W) \in Nat /\ Cardinality(P) \in Nat
      BY <1>8, <2>6, FS_CardinalityType
    <2> QED  BY <2>2, <2>5, <2>6, <2>7
  <1>13. First(W, limit) = First(M, limit)
    <2>1. W \subseteq M
      BY <1>8
    <2> QED  BY <1>11, <1>12, <2>1 DEF First
  <1> QED  BY <1>4, <1>6, <1>13 DEF W, M

(* A query returns the newest matching events, oldest first, for any size  *)
(* of page, limit and filter: no match on a later page is missed, nor one  *)
(* in the middle of the page that fills the answer.                        *)
THEOREM UtcQueriesAreExact == ASSUME Utc PROVE Spec => []QueryReturnsNewest
  <1>1. ASSUME StoreInv PROVE QueryReturnsNewest
    <2> SUFFICES ASSUME NEW srcs \in {{}} \cup {{s} : s \in Sources}, NEW filter \in Asked,
                        NEW limit \in Limits, NEW before \in Befores, NEW timeless \in BOOLEAN
                 PROVE  LET wanted == {r \in rows :
                                /\ ServerMatches(EventOf(r), filter)
                                /\ srcs = {} \/ r.src \in srcs
                                /\ before = 0 \/ (~Timeless(r) /\ r.hour < before)
                                /\ timeless \/ ~Timeless(r)}
                            answer == Query(srcs, filter, limit, before, timeless)
                        IN
                        /\ ToSet(answer) =
                               {r \in wanted :
                                   Cardinality({x \in wanted : Newer(x, r)}) < limit}
                        /\ \A i, j \in DOMAIN answer :
                               i < j => Chronological(answer[i], answer[j])
      BY DEF QueryReturnsNewest
    <2> DEFINE wanted == {r \in rows :
                             /\ ServerMatches(EventOf(r), filter)
                             /\ srcs = {} \/ r.src \in srcs
                             /\ before = 0 \/ (~Timeless(r) /\ r.hour < before)
                             /\ timeless \/ ~Timeless(r)}
               answer == Query(srcs, filter, limit, before, timeless)
               R == Selected(srcs, before, timeless)
               S == Scan(R, filter, limit)
    <2>1. R \in SUBSET rows
      BY DEF Selected
    <2>2. Matching(R, filter) = wanted
      <3>1. \A r \in rows : Local(r) = r.hour
        BY <1>1, RowInUtc
      <3> QED  BY <3>1 DEF Matching, Selected
    <2>3. S = First(wanted, limit)
      <3>1. limit \in Nat
        BY LimitAssumption
      <3> HIDE DEF R, wanted
      <3> QED  BY <1>1, <2>1, <2>2, <3>1, ScanIsFirst
    <2>4. wanted \in SUBSET rows
      OBVIOUS
    <2>5. S = {r \in wanted : Cardinality({x \in wanted : Newer(x, r)}) < limit}
      <3>1. ASSUME NEW r \in wanted
            PROVE  {x \in wanted : SqlBefore(x, r)} = {x \in wanted : Newer(x, r)}
        <4> HIDE DEF wanted
        <4> QED  BY <1>1, <2>4, SqlOrder
      <3> HIDE DEF wanted, S
      <3> QED  BY <2>3, <3>1 DEF First, Place
    <2>6. S \in SUBSET rows
      <3> HIDE DEF wanted, S
      <3> QED  BY <2>4, <2>5
    <2>7. answer = Sorted(S, Chronological)
      BY DEF Query
    <2> HIDE DEF S, wanted
    <2>8. /\ ToSet(Sorted(S, Chronological)) = S
          /\ \A i, j \in DOMAIN Sorted(S, Chronological) :
                 i < j => Chronological(Sorted(S, Chronological)[i], Sorted(S, Chronological)[j])
      BY <1>1, <2>6, AnswerSorted
    <2> HIDE DEF answer
    <2>9. /\ ToSet(answer) =
                 {r \in wanted : Cardinality({x \in wanted : Newer(x, r)}) < limit}
          /\ \A i, j \in DOMAIN answer : i < j => Chronological(answer[i], answer[j])
      BY <2>5, <2>7, <2>8
    <2> QED  BY <2>9 DEF wanted, answer
  <1>2. StoreInv => QueryReturnsNewest
    BY <1>1
  <1> QED  BY <1>2, StoreAlways, PTL
=============================================================================
