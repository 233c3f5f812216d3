--------------------------- MODULE FollowersProofs ---------------------------
(***************************************************************************)
(* Proofs about Followers, for any sources, sizes and bounds.              *)
(***************************************************************************)
EXTENDS Followers, InductionFacts

-----------------------------------------------------------------------------
(* Lines and events.                                                       *)

\* Lines and events of cells of P, and those whose last line is ended.
Lines(P) == {q \in Seq(P) : q # <<>>}
Ended(P) == {q \in Lines(P) : Last(q).end}

\* An assembler with cells of P, in its partial line of Q, which has given
\* out events of G.
Assembler(P, Q, G) ==
    [partial : Seq({c \in Q : ~c.end}),
     current : {q \in Seq(P) : q # <<>> => Head(q).stamp /\ Last(q).end},
     out : Seq(G)]

(* The last and the first cell of a sequence that gets one more.           *)
LEMMA LastAppended ==
  ASSUME NEW P, NEW q \in Seq(P), NEW c \in P
  PROVE  /\ Append(q, c) \in Lines(P)
         /\ Last(Append(q, c)) = c
  <1>1. /\ Append(q, c) \in Seq(P) /\ Append(q, c) # <<>>
        /\ Len(Append(q, c)) = Len(q) + 1 /\ Append(q, c)[Len(q) + 1] = c
    BY AppendProperties
  <1> QED  BY <1>1 DEF Lines, Last

(* A line that is joined to another keeps its beginning and gets its end.  *)
LEMMA LinesJoined ==
  ASSUME NEW P, NEW q \in Seq(P), NEW r \in Lines(P)
  PROVE  /\ q \o r \in Lines(P)
         /\ Last(q \o r) = Last(r)
         /\ q # <<>> => Head(q \o r) = Head(q)
  <1>1. /\ q \o r \in Seq(P) /\ Len(q \o r) = Len(q) + Len(r)
        /\ \A i \in 1..Len(q) + Len(r) :
               (q \o r)[i] = IF i <= Len(q) THEN q[i] ELSE r[i - Len(q)]
    BY ConcatProperties DEF Lines
  <1>2. Len(q) \in Nat /\ Len(r) \in Nat /\ Len(r) # 0 /\ (q # <<>> => Len(q) # 0)
    BY EmptySeq DEF Lines
  <1>3. q \o r # <<>>
    BY <1>1, <1>2
  <1>4. (q \o r)[Len(q) + Len(r)] = r[Len(r)]
    <2>1. /\ Len(q) + Len(r) \in 1..Len(q) + Len(r)
          /\ ~(Len(q) + Len(r) <= Len(q)) /\ (Len(q) + Len(r)) - Len(q) = Len(r)
      BY <1>2
    <2> QED  BY <1>1, <2>1
  <1>5. q # <<>> => (q \o r)[1] = q[1]
    BY <1>1, <1>2
  <1> QED  BY <1>1, <1>3, <1>4, <1>5 DEF Lines, Last

(* What an assembler holds back, if anything, is given out as one event.   *)
LEMMA HeldOut ==
  ASSUME NEW G, NEW out \in Seq(G), NEW e, e # <<>> => e \in G
  PROVE  /\ out \o Held(e) \in Seq(G)
         /\ e = <<>> => out \o Held(e) = out
         /\ e # <<>> => out \o Held(e) = Append(out, e)
  <1>1. CASE e = <<>>
    BY <1>1, ConcatEmptySeq DEF Held
  <1>2. CASE e # <<>>
    BY <1>2, AppendIsConcat, AppendProperties DEF Held
  <1> QED  BY <1>1, <1>2

(* A line that is ended.                                                   *)
LEMMA FeedKeeps ==
  ASSUME NEW P, NEW Q, NEW G, Ended(P) \subseteq G,
         NEW a \in Assembler(P, Q, G), NEW line \in Ended(P)
  PROVE  Feed(a, line) \in Assembler(P, Q, G)
  <1>1. /\ a.partial \in Seq({c \in Q : ~c.end}) /\ a.current \in Seq(P) /\ a.out \in Seq(G)
        /\ a.current # <<>> => a.current \in Ended(P) /\ Head(a.current).stamp
        /\ a = [partial |-> a.partial, current |-> a.current, out |-> a.out]
    BY DEF Assembler, Ended, Lines
  <1>2. line \in Lines(P) /\ line \in Seq(P) /\ Last(line).end /\ line # <<>>
    BY DEF Ended, Lines
  <1>3. CASE Head(line).stamp
    <2>1. a.out \o Held(a.current) \in Seq(G)
      BY <1>1, HeldOut
    <2>2. Feed(a, line) = [partial |-> a.partial, current |-> line,
                           out |-> a.out \o Held(a.current)]
      BY <1>1, <1>3 DEF Feed
    <2> QED  BY <1>1, <1>2, <1>3, <2>1, <2>2 DEF Assembler
  <1>4. CASE ~Head(line).stamp /\ a.current # <<>>
    <2> DEFINE q == a.current \o line
    <2>1. q \in Lines(P) /\ Last(q).end /\ Head(q).stamp
      BY <1>1, <1>2, <1>4, LinesJoined
    <2>2. Feed(a, line) = [partial |-> a.partial, current |-> q, out |-> a.out]
      BY <1>1, <1>4 DEF Feed
    <2> HIDE DEF q
    <2> QED  BY <1>1, <2>1, <2>2 DEF Assembler, Lines
  <1>5. CASE ~Head(line).stamp /\ a.current = <<>>
    <2>1. Append(a.out, line) \in Seq(G)
      BY <1>1, AppendProperties
    <2>2. Feed(a, line) = [partial |-> a.partial, current |-> a.current,
                           out |-> Append(a.out, line)]
      BY <1>1, <1>5 DEF Feed
    <2> QED  BY <1>1, <2>1, <2>2 DEF Assembler
  <1> QED  BY <1>3, <1>4, <1>5

(* A cell.                                                                 *)
LEMMA TakeKeeps ==
  ASSUME NEW P, NEW Q \in SUBSET P, NEW G, Ended(P) \subseteq G,
         NEW a \in Assembler(P, Q, G), NEW c \in Q
  PROVE  Take(a, c) \in Assembler(P, Q, G)
  <1>1. /\ a.partial \in Seq({d \in Q : ~d.end}) /\ a.current \in Seq(P) /\ a.out \in Seq(G)
        /\ a.current # <<>> => Head(a.current).stamp /\ Last(a.current).end
        /\ a = [partial |-> a.partial, current |-> a.current, out |-> a.out]
    BY DEF Assembler
  <1>2. CASE c.end
    <2> DEFINE b == [a EXCEPT !.partial = <<>>]
    <2>1. b \in Assembler(P, Q, G)
      <3>1. b = [partial |-> <<>>, current |-> a.current, out |-> a.out]
        BY <1>1
      <3>2. <<>> \in Seq({d \in Q : ~d.end})
        BY EmptySeq
      <3> QED  BY <1>1, <3>1, <3>2 DEF Assembler
    <2>2. Append(a.partial, c) \in Ended(P)
      <3>1. a.partial \in Seq(P) /\ c \in P
        BY <1>1, SeqMonotonic
      <3> QED  BY <1>2, <3>1, LastAppended DEF Ended
    <2>3. Feed(b, Append(a.partial, c)) \in Assembler(P, Q, G)
      <3> HIDE DEF b
      <3> QED  BY <2>1, <2>2, FeedKeeps
    <2> QED  BY <1>2, <2>3 DEF Take
  <1>3. CASE ~c.end
    <2>1. Append(a.partial, c) \in Seq({d \in Q : ~d.end})
      BY <1>1, <1>3, AppendProperties
    <2>2. Take(a, c) = [partial |-> Append(a.partial, c), current |-> a.current, out |-> a.out]
      BY <1>1, <1>3 DEF Take
    <2> QED  BY <1>1, <2>1, <2>2 DEF Assembler
  <1> QED  BY <1>2, <1>3

\* The states of an assembler that takes the cells of a payload.
Taking(g, a, payload) ==
    /\ g[0] = a
    /\ \A k \in 1..Len(payload) : g[k] = Take(g[k-1], payload[k])

TakenWithin(D, a, payload) ==
    \E g \in [0..Len(payload) -> D] :
        Taking(g, a, payload) /\ FoldLeft(Take, a, payload) = g[Len(payload)]

(* A payload is taken cell by cell.                                        *)
LEMMA TakenOneByOne ==
  ASSUME NEW P, NEW Q \in SUBSET P, NEW G, Ended(P) \subseteq G,
         NEW a \in Assembler(P, Q, G), NEW payload \in Seq(Q)
  PROVE  TakenWithin(Assembler(P, Q, G), a, payload)
  <1> DEFINE D == Assembler(P, Q, G)
             n == Len(payload)
             I == DOMAIN payload
             F == [x \in I \X D |-> Take(x[2], payload[x[1]])]
             Eq(it) == it = [S \in SUBSET I |->
                 IF S = {} THEN a ELSE Take(it[S \ {Max(S)}], payload[Max(S)])]
             iter == CHOOSE it : Eq(it)
  <1>1. n \in Nat /\ I = 1..n /\ Indices(I)
    BY LenProperties DEF Indices
  <1>2. ASSUME NEW k \in I, NEW b \in D PROVE Take(b, payload[k]) \in D
    <2>1. payload[k] \in Q
      BY <1>1, ElementOfSeq
    <2> QED  BY <2>1, TakeKeeps
  <1>3. FoldLeft(Take, a, payload) = iter[I]
    BY DEF FoldLeft, MapThenFoldSet
  <1> HIDE DEF I, D
  <1>4. F \in [I \X D -> D]
    <2>1. ASSUME NEW x \in I \X D PROVE Take(x[2], payload[x[1]]) \in D
      <3>1. x[1] \in I /\ x[2] \in D
        OBVIOUS
      <3> QED  BY <1>2, <3>1
    <2> QED  BY <2>1
  <1>5. PICK it \in [SUBSET I -> D] : LeftFolds(it, I, a, F)
    <2>1. a \in D
      BY DEF D
    <2> HIDE DEF F
    <2> QED  BY <1>1, <1>4, <2>1, LeftFoldExists
  <1>6. ASSUME NEW S \in SUBSET I, S # {} PROVE Max(S) \in I /\ S \ {Max(S)} \in SUBSET I
    BY <1>1, <1>6, IntervalMax DEF Indices
  <1>7. Eq(it)
    <2>1. ASSUME NEW S \in SUBSET I
          PROVE  it[S] = IF S = {} THEN a ELSE Take(it[S \ {Max(S)}], payload[Max(S)])
      <3>1. CASE S = {}
        BY <1>5, <3>1 DEF LeftFolds
      <3>2. CASE S # {}
        <4>1. <<Max(S), it[S \ {Max(S)}]>> \in I \X D
          BY <1>6, <3>2
        <4>2. it[S] = F[<<Max(S), it[S \ {Max(S)}]>>]
          BY <1>5, <3>2 DEF LeftFolds
        <4> QED  BY <3>2, <4>1, <4>2
      <3> QED  BY <3>1, <3>2
    <2> QED  BY <2>1
  <1>8. Eq(iter)
    <2> HIDE DEF Eq
    <2> QED  BY <1>7
  <1> HIDE DEF F
  <1>9. \A S \in SUBSET I : iter[S] = IF S = {} THEN a ELSE Take(iter[S \ {Max(S)}], payload[Max(S)])
    <2> HIDE DEF iter
    <2> QED  BY <1>8
  <1> HIDE DEF iter, Eq
  <1>10. \A k \in 0..n : 1..k \in SUBSET I
    BY <1>1
  <1>11. iter[1..0] = a
    <2>1. 1..0 = {} /\ {} \in SUBSET I
      OBVIOUS
    <2> QED  BY <1>9, <2>1
  <1>12. ASSUME NEW k \in 1..n PROVE iter[1..k] = Take(iter[1..(k - 1)], payload[k])
    <2>1. k \in Nat /\ k # 0 /\ k \in 0..n
      BY <1>1
    <2>2. Max(1..k) = k /\ (1..k) \ {k} = 1..(k - 1) /\ 1..k # {}
      BY <2>1, PrefixFacts
    <2>3. 1..k \in SUBSET I
      BY <1>10, <2>1
    <2> QED  BY <1>9, <2>2, <2>3
  <1>13. \A k \in 0..n : iter[1..k] \in D
    <2> DEFINE N == {k \in Nat : k <= n => iter[1..k] \in D}
    <2>1. 0 \in N
      BY <1>11 DEF D
    <2>2. ASSUME NEW k \in Nat, k \in N PROVE k + 1 \in N
      <3> SUFFICES ASSUME k + 1 <= n PROVE iter[1..(k + 1)] \in D
        OBVIOUS
      <3>1. k + 1 \in 1..n /\ (k + 1) - 1 = k /\ k <= n
        BY <1>1
      <3>2. iter[1..(k + 1)] = Take(iter[1..k], payload[k + 1])
        BY <1>12, <3>1
      <3>3. iter[1..k] \in D /\ k + 1 \in I
        BY <1>1, <2>2, <3>1
      <3> QED  BY <1>2, <3>2, <3>3
    <2>3. Nat \subseteq N
      <3> HIDE DEF N
      <3> QED  BY <2>1, <2>2, NumberInduction
    <2> QED  BY <1>1, <2>3
  <1> DEFINE g == [k \in 0..n |-> iter[1..k]]
  <1>14. g \in [0..n -> D]
    BY <1>13
  <1>15. Taking(g, a, payload)
    <2>1. g[0] = a
      BY <1>1, <1>11
    <2>2. ASSUME NEW k \in 1..n PROVE g[k] = Take(g[k - 1], payload[k])
      <3>1. k \in 0..n /\ k - 1 \in 0..n
        BY <1>1
      <3> QED  BY <1>12, <3>1
    <2> QED  BY <2>1, <2>2 DEF Taking
  <1>16. FoldLeft(Take, a, payload) = g[n]
    BY <1>1, <1>3
  <1> HIDE DEF g
  <1> QED  BY <1>14, <1>15, <1>16 DEF D, TakenWithin

(* Feeding and flushing, field by field.                                   *)
LEMMA TwoFields ==
  ASSUME NEW x, NEW y, NEW o, NEW z, NEW w, NEW a, a = [partial |-> x, current |-> y, out |-> o]
  PROVE  [a EXCEPT !.out = z, !.current = w] = [partial |-> x, current |-> w, out |-> z]
  <1>1. [a EXCEPT !.out = z, !.current = w] = [[a EXCEPT !.out = z] EXCEPT !.current = w]
    OBVIOUS
  <1>2. PICK b : b = [a EXCEPT !.out = z]
    OBVIOUS
  <1>3. b = [partial |-> x, current |-> y, out |-> z]
    BY <1>2
  <1>4. [b EXCEPT !.current = w] = [partial |-> x, current |-> w, out |-> z]
    BY <1>3
  <1> QED  BY <1>1, <1>2, <1>4

(* One field of an assembler is replaced.                                  *)
LEMMA OneField ==
  ASSUME NEW x, NEW y, NEW o, NEW w, NEW a, a = [partial |-> x, current |-> y, out |-> o]
  PROVE  [a EXCEPT !.current = w] = [partial |-> x, current |-> w, out |-> o]
  OBVIOUS

\* a holds x, y and o; longer and more are what feeding line makes of y and o.
Fed(x, y, o, line, a, longer, more) ==
    /\ a = [partial |-> x, current |-> y, out |-> o]
    /\ longer = y \o line
    /\ more = o \o Held(y)

(* What an assembler holds after a line was fed to it.                     *)
LEMMA FeedIs ==
  ASSUME NEW x, NEW y, NEW o, NEW line, NEW a, NEW longer, NEW more,
         Fed(x, y, o, line, a, longer, more)
  PROVE  Feed(a, line) =
             IF Head(line).stamp
             THEN [partial |-> x, current |-> line, out |-> more]
             ELSE IF y # <<>>
                  THEN [partial |-> x, current |-> longer, out |-> o]
                  ELSE [partial |-> x, current |-> y, out |-> Append(o, line)]
  <1>0. a = [partial |-> x, current |-> y, out |-> o] /\ longer = y \o line /\ more = o \o Held(y)
    BY DEF Fed
  <1>1. CASE Head(line).stamp
    <2>1. Feed(a, line) = [a EXCEPT !.out = more, !.current = line]
      BY <1>0, <1>1 DEF Feed
    <2> QED  BY <1>0, <1>1, <2>1, TwoFields
  <1>2. CASE ~Head(line).stamp /\ y # <<>>
    <2>1. Feed(a, line) = [a EXCEPT !.current = longer]
      BY <1>0, <1>2 DEF Feed
    <2> QED  BY <1>0, <1>2, <2>1, OneField
  <1>3. CASE ~Head(line).stamp /\ y = <<>>
    <2>1. a = [partial |-> x, current |-> y, out |-> o]
      BY DEF Fed
    <2> QED  BY <1>3, <2>1, SMTT(30) DEF Feed
  <1> QED  BY <1>1, <1>2, <1>3

(* A flush gives out the pending event.                                    *)
LEMMA FlushIs ==
  ASSUME NEW x, NEW y, NEW o, NEW a, a = [partial |-> x, current |-> y, out |-> o],
         NEW more, more = o \o Held(y)
  PROVE  Flush(a) = [partial |-> x, current |-> <<>>, out |-> more]
  <1>1. Flush(a) = [a EXCEPT !.out = more, !.current = <<>>]
    BY DEF Flush
  <1> QED  BY <1>1, TwoFields

\* What FlushAll gives out, after a line x, an event y and the events o.
AllOf(x, y, o) ==
    IF x = <<>> THEN o \o Held(y)
    ELSE IF Head(x).stamp THEN (o \o Held(y)) \o Held(x)
    ELSE IF y # <<>> THEN o \o Held(y \o x)
    ELSE Append(o, x) \o Held(<<>>)

(* FlushAll feeds the partial line and gives out the pending event.        *)
LEMMA FlushAllIs ==
  ASSUME NEW x, NEW y, NEW o, NEW a, a = [partial |-> x, current |-> y, out |-> o]
  PROVE  FlushAll(a) = [partial |-> <<>>, current |-> <<>>, out |-> AllOf(x, y, o)]
  <1> DEFINE b == IF x = <<>> THEN a ELSE Feed(a, x)
  <1>1. FlushAll(a) = Flush([b EXCEPT !.partial = <<>>])
    BY DEF FlushAll
  <1>2. ASSUME NEW u, NEW v, NEW w, b = [partial |-> u, current |-> v, out |-> w],
               NEW more, more = w \o Held(v), more = AllOf(x, y, o)
        PROVE  FlushAll(a) = [partial |-> <<>>, current |-> <<>>, out |-> AllOf(x, y, o)]
    <2> HIDE DEF b
    <2>1. PICK c : c = [b EXCEPT !.partial = <<>>]
      OBVIOUS
    <2>2. c = [partial |-> <<>>, current |-> v, out |-> w]
      BY <1>2, <2>1
    <2>3. Flush(c) = [partial |-> <<>>, current |-> <<>>, out |-> more]
      BY <1>2, <2>2, FlushIs
    <2> QED  BY <1>1, <1>2, <2>1, <2>3
  <1>3. PICK longer, more : longer = y \o x /\ more = o \o Held(y)
    OBVIOUS
  <1>4. CASE x = <<>>
    <2>1. more = AllOf(x, y, o)
      BY <1>3, <1>4 DEF AllOf
    <2> QED  BY <1>2, <1>3, <1>4, <2>1
  <1>5. x # <<>> => b = IF Head(x).stamp
                        THEN [partial |-> x, current |-> x, out |-> more]
                        ELSE IF y # <<>>
                             THEN [partial |-> x, current |-> longer, out |-> o]
                             ELSE [partial |-> x, current |-> y, out |-> Append(o, x)]
    <2>1. Feed(a, x) = IF Head(x).stamp
                       THEN [partial |-> x, current |-> x, out |-> more]
                       ELSE IF y # <<>>
                            THEN [partial |-> x, current |-> longer, out |-> o]
                            ELSE [partial |-> x, current |-> y, out |-> Append(o, x)]
      <3>1. Fed(x, y, o, x, a, longer, more)
        BY <1>3 DEF Fed
      <3> QED  BY <3>1, FeedIs
    <2> QED  BY <2>1
  <1> HIDE DEF b
  <1>6. CASE x # <<>> /\ Head(x).stamp
    <2>1. PICK z : z = more \o Held(x)
      OBVIOUS
    <2>2. z = AllOf(x, y, o)
      BY <1>3, <1>6, <2>1 DEF AllOf
    <2> QED  BY <1>2, <1>5, <1>6, <2>1, <2>2
  <1>7. CASE x # <<>> /\ ~Head(x).stamp /\ y # <<>>
    <2>1. PICK z : z = o \o Held(longer)
      OBVIOUS
    <2>2. z = AllOf(x, y, o)
      BY <1>3, <1>7, <2>1 DEF AllOf
    <2> QED  BY <1>2, <1>5, <1>7, <2>1, <2>2
  <1>8. CASE x # <<>> /\ ~Head(x).stamp /\ y = <<>>
    <2>1. PICK z : z = Append(o, x) \o Held(<<>>)
      OBVIOUS
    <2>2. z = AllOf(x, y, o)
      BY <1>8, <2>1 DEF AllOf
    <2> QED  BY <1>2, <1>5, <1>8, <2>1, <2>2
  <1> QED  BY <1>4, <1>6, <1>7, <1>8

(* What a payload does to an assembler.                                    *)
LEMMA ConsumeKeeps ==
  ASSUME NEW P, NEW Q \in SUBSET P, NEW G, Ended(P) \subseteq G,
         NEW a \in Assembler(P, Q, G), NEW payload \in Seq(Q)
  PROVE  Consume(a, payload) \in Assembler(P, Q, G)
  <1>1. CASE payload # <<>>
    <2>1. PICK g \in [0..Len(payload) -> Assembler(P, Q, G)] :
              Taking(g, a, payload) /\ FoldLeft(Take, a, payload) = g[Len(payload)]
      BY TakenOneByOne DEF TakenWithin
    <2>2. Len(payload) \in 0..Len(payload)
      BY LenProperties
    <2> QED  BY <1>1, <2>1, <2>2 DEF Consume
  <1>2. CASE payload = <<>> /\ a.partial # <<>>
    BY <1>2 DEF Consume
  <1>3. CASE payload = <<>> /\ a.partial = <<>>
    <2>1. /\ a.partial \in Seq({d \in Q : ~d.end}) /\ a.current \in Seq(P) /\ a.out \in Seq(G)
          /\ a.current # <<>> => a.current \in Ended(P)
          /\ a = [partial |-> a.partial, current |-> a.current, out |-> a.out]
      BY DEF Assembler, Ended, Lines
    <2>2. a.out \o Held(a.current) \in Seq(G)
      BY <2>1, HeldOut
    <2>3. Consume(a, payload) = [partial |-> a.partial, current |-> <<>>,
                                 out |-> a.out \o Held(a.current)]
      BY <1>3, <2>1 DEF Consume, Flush
    <2>4. <<>> \in Seq(P)
      BY EmptySeq
    <2> QED  BY <2>1, <2>2, <2>3, <2>4 DEF Assembler
  <1> QED  BY <1>1, <1>2, <1>3

\* The events that FlushAll adds: at most one ends within a line, of Q.
Cut(P, Q) == {q \in Lines(P) : Last(q) \in Q}

(* Flushing everything leaves nothing pending.                             *)
LEMMA FlushAllKeeps ==
  ASSUME NEW P, NEW Q \in SUBSET P, NEW G, Ended(P) \subseteq G, Cut(P, Q) \subseteq G,
         NEW a \in Assembler(P, Q, G)
  PROVE  /\ FlushAll(a) \in Assembler(P, Q, G)
         /\ FlushAll(a).partial = <<>> /\ FlushAll(a).current = <<>>
  <1>1. /\ a.partial \in Seq({d \in Q : ~d.end}) /\ a.current \in Seq(P) /\ a.out \in Seq(G)
        /\ a.current # <<>> => a.current \in Ended(P)
        /\ a = [partial |-> a.partial, current |-> a.current, out |-> a.out]
    BY DEF Assembler, Ended, Lines
  <1>2. a.partial # <<>> => a.partial \in Cut(P, Q)
    <2>1. a.partial \in Seq(P) /\ a.partial \in Seq(Q)
      BY <1>1, SeqMonotonic
    <2>2. a.partial # <<>> => Last(a.partial) \in Q
      BY <2>1, LenProperties, EmptySeq, ElementOfSeq DEF Last
    <2> QED  BY <2>1, <2>2 DEF Cut, Lines
  <1>3. a.out \o Held(a.current) \in Seq(G)
    BY <1>1, HeldOut
  <1>4. FlushAll(a) = [partial |-> <<>>, current |-> <<>>,
                       out |-> AllOf(a.partial, a.current, a.out)]
    BY <1>1, FlushAllIs
  <1>7. PICK x, y, o : x = a.partial /\ y = a.current /\ o = a.out
    OBVIOUS
  <1>8. /\ y \in Seq(P) /\ o \in Seq(G) /\ (y # <<>> => y \in Ended(P))
        /\ x # <<>> => x \in Cut(P, Q)
        /\ o \o Held(y) \in Seq(G)
    BY <1>1, <1>2, <1>3, <1>7
  <1>6. AllOf(x, y, o) \in Seq(G)
    <2>1. CASE x = <<>>
      BY <1>8, <2>1 DEF AllOf
    <2>2. CASE x # <<>> /\ Head(x).stamp
      <3>1. (o \o Held(y)) \o Held(x) \in Seq(G)
        BY <1>8, <2>2, HeldOut
      <3> QED  BY <2>2, <3>1 DEF AllOf
    <2>3. CASE x # <<>> /\ ~Head(x).stamp /\ y # <<>>
      <3>1. y \o x \in Cut(P, Q)
        BY <1>8, <2>3, LinesJoined DEF Cut
      <3>2. o \o Held(y \o x) \in Seq(G)
        BY <1>8, <3>1, HeldOut
      <3> QED  BY <2>3, <3>2 DEF AllOf
    <2>4. CASE x # <<>> /\ ~Head(x).stamp /\ y = <<>>
      <3>1. x \in G
        BY <1>8, <2>4
      <3>2. Append(o, x) \in Seq(G)
        BY <1>8, <3>1, AppendProperties
      <3>3. Append(o, x) \o Held(<<>>) = Append(o, x)
        BY <3>2, HeldOut
      <3> QED  BY <2>4, <3>2, <3>3 DEF AllOf
    <2> QED  BY <2>1, <2>2, <2>3, <2>4
  <1>5. <<>> \in Seq({d \in Q : ~d.end}) /\ <<>> \in Seq(P)
    BY EmptySeq
  <1> QED  BY <1>4, <1>5, <1>6, <1>7 DEF Assembler

-----------------------------------------------------------------------------
(* The cells of an assembler, in the order it took them.                   *)

\* An assembler of cells of P, and its cells in their order.
Plain(P) == Assembler(P, P, Lines(P))
Flat(a) == FlattenSeq(a.out) \o a.current \o a.partial

\* x, y and o may be the fields of an assembler.
Fields(x, y, o, P) == x \in Seq(P) /\ y \in Seq(P) /\ o \in Seq(Seq(P))

(* The fields of an assembler.                                             *)
LEMMA FieldsOf ==
  ASSUME NEW P, NEW a \in Plain(P)
  PROVE  /\ Fields(a.partial, a.current, a.out, P)
         /\ a = [partial |-> a.partial, current |-> a.current, out |-> a.out]
  <1>1. /\ a.partial \in Seq({d \in P : ~d.end}) /\ a.current \in Seq(P) /\ a.out \in Seq(Lines(P))
        /\ a = [partial |-> a.partial, current |-> a.current, out |-> a.out]
    BY DEF Assembler, Plain
  <1>2. {d \in P : ~d.end} \subseteq P /\ Lines(P) \subseteq Seq(P)
    BY DEF Lines
  <1>3. a.partial \in Seq(P) /\ a.out \in Seq(Seq(P))
    BY <1>1, <1>2, SeqMonotonic
  <1> QED  BY <1>1, <1>3 DEF Fields

(* A sequence and one more element.                                        *)
LEMMA AppendJoined ==
  ASSUME NEW P, NEW s, NEW q, s \in Seq(P), q \in Seq(P), NEW c \in P
  PROVE  s \o Append(q, c) = Append(s \o q, c)
  <1>1. Append(q, c) = q \o <<c>> /\ <<c>> \in Seq(P) /\ s \o q \in Seq(P)
    BY AppendIsConcat, ConcatProperties
  <1>2. Append(s \o q, c) = (s \o q) \o <<c>>
    BY <1>1, AppendIsConcat
  <1>3. (s \o q) \o <<c>> = s \o (q \o <<c>>)
    BY <1>1, ConcatAssociative
  <1> QED  BY <1>1, <1>2, <1>3

(* An event that is given out is the last one.                             *)
LEMMA HeldFlat ==
  ASSUME NEW P, NEW x, NEW y, NEW o, Fields(x, y, o, P)
  PROVE  /\ o \o Held(y) \in Seq(Seq(P))
         /\ FlattenSeq(o \o Held(y)) = FlattenSeq(o) \o y
         /\ FlattenSeq(o) \in Seq(P)
  <1>1. y \in Seq(P) /\ o \in Seq(Seq(P))
    BY DEF Fields
  <1>2. FlattenSeq(o) \in Seq(P)
    BY <1>1, FlattenType
  <1>3. CASE y = <<>>
    <2>1. o \o Held(y) = o
      BY <1>1, <1>3, ConcatEmptySeq DEF Held
    <2>2. FlattenSeq(o) \o <<>> = FlattenSeq(o)
      BY <1>2, ConcatEmptySeq
    <2> QED  BY <1>1, <1>2, <1>3, <2>1, <2>2
  <1>4. CASE y # <<>>
    <2>1. o \o <<y>> = Append(o, y) /\ Append(o, y) \in Seq(Seq(P))
      BY <1>1, AppendIsConcat, AppendProperties
    <2>2. o \o Held(y) = Append(o, y)
      BY <1>4, <2>1 DEF Held
    <2>3. FlattenSeq(Append(o, y)) = FlattenSeq(o) \o y
      BY <1>1, FlattenAppend
    <2> QED  BY <1>2, <2>1, <2>2, <2>3
  <1> QED  BY <1>3, <1>4

(* What FlushAll gives out are the cells that were held, in their order.   *)
LEMMA AllOfFlat ==
  ASSUME NEW P, NEW x, NEW y, NEW o, Fields(x, y, o, P)
  PROVE  FlattenSeq(AllOf(x, y, o)) = (FlattenSeq(o) \o y) \o x
  <1>1. PICK f : f = FlattenSeq(o)
    OBVIOUS
  <1>2. /\ x \in Seq(P) /\ y \in Seq(P) /\ o \in Seq(Seq(P)) /\ f \in Seq(P)
        /\ f \o y \in Seq(P)
    <2>1. x \in Seq(P) /\ y \in Seq(P) /\ o \in Seq(Seq(P))
      BY DEF Fields
    <2>2. f \in Seq(P)
      BY <1>1, HeldFlat
    <2> QED  BY <2>1, <2>2, ConcatProperties
  <1>3. PICK g : g = o \o Held(y)
    OBVIOUS
  <1>4. g \in Seq(Seq(P)) /\ FlattenSeq(g) = f \o y
    BY <1>1, <1>3, HeldFlat
  <1>5. CASE x = <<>>
    <2>1. AllOf(x, y, o) = g
      BY <1>3, <1>5 DEF AllOf
    <2>2. (f \o y) \o <<>> = f \o y
      BY <1>2, ConcatEmptySeq
    <2> QED  BY <1>1, <1>4, <1>5, <2>1, <2>2
  <1>6. CASE x # <<>> /\ Head(x).stamp
    <2>1. AllOf(x, y, o) = g \o Held(x)
      BY <1>3, <1>6 DEF AllOf
    <2>2. Fields(x, x, g, P)
      BY <1>2, <1>4 DEF Fields
    <2>3. FlattenSeq(g \o Held(x)) = FlattenSeq(g) \o x
      BY <2>2, HeldFlat
    <2> QED  BY <1>1, <1>4, <2>1, <2>3
  <1>7. CASE x # <<>> /\ ~Head(x).stamp /\ y # <<>>
    <2>1. AllOf(x, y, o) = o \o Held(y \o x)
      BY <1>7 DEF AllOf
    <2>2. Fields(x, y \o x, o, P)
      BY <1>2, ConcatProperties DEF Fields
    <2>3. FlattenSeq(o \o Held(y \o x)) = FlattenSeq(o) \o (y \o x)
      BY <2>2, HeldFlat
    <2>4. f \o (y \o x) = (f \o y) \o x
      BY <1>2, ConcatAssociative, SMTT(30)
    <2> QED  BY <1>1, <2>1, <2>3, <2>4
  <1>8. CASE x # <<>> /\ ~Head(x).stamp /\ y = <<>>
    <2>1. Append(o, x) \in Seq(Seq(P)) /\ FlattenSeq(Append(o, x)) = f \o x
      BY <1>1, <1>2, AppendProperties, FlattenAppend
    <2>2. Append(o, x) \o Held(<<>>) = Append(o, x)
      BY <2>1, ConcatEmptySeq DEF Held
    <2>3. AllOf(x, y, o) = Append(o, x)
      BY <1>8, <2>2 DEF AllOf
    <2>4. f \o <<>> = f
      BY <1>2, ConcatEmptySeq
    <2> QED  BY <1>1, <1>8, <2>1, <2>3, <2>4
  <1> QED  BY <1>5, <1>6, <1>7, <1>8

(* Flushing everything moves the cells into events, and no cell is lost.   *)
LEMMA FlushAllFlat ==
  ASSUME NEW P, NEW a \in Plain(P)
  PROVE  Flat(FlushAll(a)) = Flat(a) /\ Flat(a) \in Seq(P)
  <1>1. PICK x, y, o : x = a.partial /\ y = a.current /\ o = a.out
    OBVIOUS
  <1>2. Fields(x, y, o, P) /\ a = [partial |-> x, current |-> y, out |-> o]
    BY <1>1, FieldsOf
  <1>3. FlushAll(a) = [partial |-> <<>>, current |-> <<>>, out |-> AllOf(x, y, o)]
    BY <1>2, FlushAllIs
  <1>4. PICK f, g : f = FlattenSeq(o) /\ g = FlattenSeq(AllOf(x, y, o))
    OBVIOUS
  <1>5. x \in Seq(P) /\ y \in Seq(P) /\ f \in Seq(P)
    BY <1>2, <1>4, HeldFlat DEF Fields
  <1>6. f \o y \in Seq(P) /\ (f \o y) \o x \in Seq(P)
    BY <1>5, ConcatProperties
  <1>7. g = (f \o y) \o x
    BY <1>2, <1>4, AllOfFlat
  <1>8. (g \o <<>>) \o <<>> = g
    BY <1>6, <1>7, ConcatEmptySeq
  <1>9. Flat(a) = (f \o y) \o x
    BY <1>1, <1>4 DEF Flat
  <1>10. Flat(FlushAll(a)) = (g \o <<>>) \o <<>>
    BY <1>3, <1>4 DEF Flat
  <1> QED  BY <1>6, <1>7, <1>8, <1>9, <1>10

(* The cells of an assembler, in their order.                              *)
LEMMA FlatIs ==
  ASSUME NEW x, NEW y, NEW o, NEW a, a = [partial |-> x, current |-> y, out |-> o]
  PROVE  Flat(a) = (FlattenSeq(o) \o y) \o x
  BY DEF Flat

(* A fed line comes last.                                                  *)
LEMMA FeedFlat ==
  ASSUME NEW P, NEW y, NEW o, NEW line, Fields(line, y, o, P), NEW a,
         a = [partial |-> <<>>, current |-> y, out |-> o]
  PROVE  Flat(Feed(a, line)) = (FlattenSeq(o) \o y) \o line
  <1>1. PICK f, longer, more : f = FlattenSeq(o) /\ longer = y \o line /\ more = o \o Held(y)
    OBVIOUS
  <1>2. line \in Seq(P) /\ y \in Seq(P) /\ f \in Seq(P) /\ o \in Seq(Seq(P))
    BY <1>1, HeldFlat DEF Fields
  <1>3. FlattenSeq(more) = f \o y
    BY <1>1, HeldFlat
  <1>4. f \o y \in Seq(P) /\ (f \o y) \o line \in Seq(P) /\ longer \in Seq(P)
    BY <1>1, <1>2, ConcatProperties
  <1>5. f \o longer = (f \o y) \o line
    <2>1. (f \o y) \o line = f \o (y \o line)
      <3>1. Three(f, y, line, P)
        BY <1>2 DEF Three
      <3> QED  BY <3>1, Regroup
    <2> QED  BY <1>1, <2>1
  <1>6. ((f \o y) \o line) \o <<>> = (f \o y) \o line
    BY <1>4, ConcatEmptySeq
  <1>7. Fed(<<>>, y, o, line, a, longer, more)
    BY <1>1 DEF Fed
  <1>8. Feed(a, line) =
            IF Head(line).stamp
            THEN [partial |-> <<>>, current |-> line, out |-> more]
            ELSE IF y # <<>>
                 THEN [partial |-> <<>>, current |-> longer, out |-> o]
                 ELSE [partial |-> <<>>, current |-> y, out |-> Append(o, line)]
    BY <1>7, FeedIs
  <1>9. CASE Head(line).stamp
    <2>1. Flat(Feed(a, line)) = (FlattenSeq(more) \o line) \o <<>>
      BY <1>8, <1>9, FlatIs
    <2> QED  BY <1>1, <1>3, <1>6, <2>1
  <1>10. CASE ~Head(line).stamp /\ y # <<>>
    <2>1. Flat(Feed(a, line)) = (FlattenSeq(o) \o longer) \o <<>>
      BY <1>8, <1>10, FlatIs
    <2> QED  BY <1>1, <1>5, <1>6, <2>1
  <1>11. CASE ~Head(line).stamp /\ y = <<>>
    <2>1. Flat(Feed(a, line)) = (FlattenSeq(Append(o, line)) \o <<>>) \o <<>>
      BY <1>8, <1>11, FlatIs
    <2>2. FlattenSeq(Append(o, line)) = f \o line
      BY <1>1, <1>2, FlattenAppend
    <2>3. f \o <<>> = f /\ f \o line \in Seq(P)
      BY <1>2, ConcatEmptySeq, ConcatProperties
    <2>4. (f \o line) \o <<>> = f \o line
      BY <2>3, ConcatEmptySeq
    <2> QED  BY <1>1, <1>11, <2>1, <2>2, <2>3, <2>4
  <1> QED  BY <1>9, <1>10, <1>11

(* A cell that is taken comes last.                                        *)
LEMMA TakeFlat ==
  ASSUME NEW P, NEW a \in Plain(P), NEW c \in P
  PROVE  Flat(Take(a, c)) = Append(Flat(a), c)
  <1>1. PICK x, y, o, f : x = a.partial /\ y = a.current /\ o = a.out /\ f = FlattenSeq(o)
    OBVIOUS
  <1>2. Fields(x, y, o, P) /\ a = [partial |-> x, current |-> y, out |-> o]
    BY <1>1, FieldsOf
  <1>3. x \in Seq(P) /\ y \in Seq(P) /\ f \in Seq(P)
    BY <1>1, <1>2, HeldFlat DEF Fields
  <1>4. PICK p, q : p = f \o y /\ q = Append(x, c)
    OBVIOUS
  <1>5. p \in Seq(P) /\ q \in Seq(P)
    BY <1>3, <1>4, ConcatProperties, AppendProperties
  <1>6. p \o q = Append(p \o x, c)
    BY <1>3, <1>4, <1>5, AppendJoined
  <1>7. Flat(a) = p \o x
    BY <1>1, <1>4 DEF Flat
  <1>8. CASE c.end
    <2>1. PICK b : b = [a EXCEPT !.partial = <<>>]
      OBVIOUS
    <2>2. b = [partial |-> <<>>, current |-> y, out |-> o]
      BY <1>2, <2>1
    <2>3. Fields(q, y, o, P)
      BY <1>2, <1>5 DEF Fields
    <2>4. Flat(Feed(b, q)) = (FlattenSeq(o) \o y) \o q
      BY <2>2, <2>3, FeedFlat
    <2>5. Take(a, c) = Feed(b, q)
      BY <1>1, <1>4, <1>8, <2>1 DEF Take
    <2> QED  BY <1>1, <1>4, <1>6, <1>7, <2>4, <2>5
  <1>9. CASE ~c.end
    <2>1. Take(a, c) = [a EXCEPT !.partial = q]
      BY <1>1, <1>4, <1>9 DEF Take
    <2>2. Take(a, c) = [partial |-> q, current |-> y, out |-> o]
      BY <1>2, <2>1
    <2>3. Flat(Take(a, c)) = (FlattenSeq(o) \o y) \o q
      BY <2>2, FlatIs
    <2> QED  BY <1>1, <1>4, <1>6, <1>7, <2>3
  <1> QED  BY <1>8, <1>9

\* s is the first k cells of p after r.
Grown(s, r, p, k) == s = r \o SubSeq(p, 1, k)

(* One more cell of a payload.                                             *)
LEMMA GrownByOne ==
  ASSUME NEW P, NEW p, NEW r, p \in Seq(P), r \in Seq(P), NEW k \in 0..(Len(p) - 1), NEW s,
         Grown(s, r, p, k)
  PROVE  Grown(Append(s, p[k + 1]), r, p, k + 1)
  <1>1. /\ Len(p) \in Nat /\ k + 1 \in 1..Len(p) /\ (k + 1) - 1 = k /\ 1 \in 1..Len(p)
        /\ k + 1 \in 1..(k + 1)
    BY LenProperties
  <1>2. p[k + 1] \in P /\ \A i \in 1..k : p[i] \in P
    BY <1>1, ElementOfSeq
  <1>3. PICK q, c : q = SubSeq(p, 1, k) /\ c = p[k + 1]
    OBVIOUS
  <1>4. q \in Seq(P) /\ c \in P
    BY <1>2, <1>3, SubSeqProperties
  <1>5. SubSeq(p, 1, k + 1) = SubSeq(p, 1, k) \o <<p[k + 1]>>
    BY <1>1, SubSeqRecursiveSecond
  <1>6. SubSeq(p, 1, k + 1) = Append(q, c)
    BY <1>3, <1>4, <1>5, AppendIsConcat
  <1>7. r \o Append(q, c) = Append(r \o q, c)
    BY <1>4, AppendJoined
  <1> QED  BY <1>3, <1>6, <1>7 DEF Grown

(* Taking a payload adds its cells at the end.                             *)
LEMMA ConsumeFlat ==
  ASSUME NEW P, NEW a \in Plain(P), NEW payload \in Seq(P)
  PROVE  /\ Flat(Consume(a, payload)) = Flat(a) \o payload
         /\ payload # <<>> => Consume(a, payload) = FoldLeft(Take, a, payload)
         /\ Flat(FoldLeft(Take, a, payload)) = Flat(a) \o payload
         /\ FoldLeft(Take, a, payload) \in Plain(P)
  <1>1. Ended(P) \subseteq Lines(P) /\ P \in SUBSET P
    BY DEF Ended
  <1>2. PICK g \in [0..Len(payload) -> Plain(P)] :
            Taking(g, a, payload) /\ FoldLeft(Take, a, payload) = g[Len(payload)]
    <2>4. PICK Q \in SUBSET P : Q = P
      OBVIOUS
    <2>1. PICK G : G = Lines(P) /\ Ended(P) \subseteq G
      BY <1>1
    <2>2. a \in Assembler(P, Q, G) /\ Plain(P) = Assembler(P, Q, G) /\ payload \in Seq(Q)
      BY <2>1, <2>4 DEF Plain
    <2>3. TakenWithin(Assembler(P, Q, G), a, payload)
      BY <2>1, <2>2, TakenOneByOne
    <2> QED  BY <2>2, <2>3 DEF TakenWithin
  <1>3. Len(payload) \in Nat /\ Flat(a) \in Seq(P)
    BY LenProperties, FlushAllFlat
  <1>4. g[Len(payload)] \in Plain(P)
    BY <1>2, <1>3
  <1> DEFINE N == {n \in Nat : n <= Len(payload) => Grown(Flat(g[n]), Flat(a), payload, n)}
  <1>5. 0 \in N
    <2>1. SubSeq(payload, 1, 0) = <<>> /\ Flat(a) \o <<>> = Flat(a)
      BY <1>3, SubSeqEmpty, ConcatEmptySeq
    <2> QED  BY <1>2, <2>1 DEF Grown, Taking
  <1>6. ASSUME NEW n \in Nat, n \in N PROVE n + 1 \in N
    <2> SUFFICES ASSUME n + 1 <= Len(payload)
                 PROVE  Grown(Flat(g[n + 1]), Flat(a), payload, n + 1)
      OBVIOUS
    <2>1. /\ n + 1 \in 1..Len(payload) /\ (n + 1) - 1 = n /\ n \in 0..Len(payload)
          /\ n \in 0..(Len(payload) - 1)
      BY <1>3
    <2>2. g[n + 1] = Take(g[n], payload[n + 1]) /\ g[n] \in Plain(P) /\ payload[n + 1] \in P
      BY <1>2, <2>1, ElementOfSeq DEF Taking
    <2>3. Flat(g[n + 1]) = Append(Flat(g[n]), payload[n + 1])
      BY <2>2, TakeFlat
    <2>4. Grown(Flat(g[n]), Flat(a), payload, n)
      BY <1>6, <2>1
    <2>5. Grown(Append(Flat(g[n]), payload[n + 1]), Flat(a), payload, n + 1)
      BY <1>3, <2>1, <2>4, GrownByOne
    <2> QED  BY <2>3, <2>5
  <1>7. Len(payload) \in N
    <2> HIDE DEF N
    <2> QED  BY <1>3, <1>5, <1>6, NumberInduction
  <1>8. Flat(g[Len(payload)]) = Flat(a) \o payload
    <2>1. SubSeq(payload, 1, Len(payload)) = payload
      BY SubSeqFull
    <2> QED  BY <1>3, <1>7, <2>1 DEF Grown
  <1>9. CASE payload # <<>>
    BY <1>2, <1>4, <1>8, <1>9 DEF Consume
  <1>10. CASE payload = <<>>
    <2>1. Flat(a) \o <<>> = Flat(a)
      BY <1>3, ConcatEmptySeq
    <2>2. Flat(Consume(a, payload)) = Flat(a)
      <3>1. CASE a.partial # <<>>
        BY <1>10, <3>1 DEF Consume
      <3>2. CASE a.partial = <<>>
        <4>1. Consume(a, payload) = Flush(a) /\ FlushAll(a) = Flush([a EXCEPT !.partial = <<>>])
          BY <1>10, <3>2 DEF Consume, FlushAll
        <4>2. [a EXCEPT !.partial = <<>>] = a
          BY <3>2, FieldsOf
        <4> QED  BY <4>1, <4>2, FlushAllFlat
      <3> QED  BY <3>1, <3>2
    <2> QED  BY <1>2, <1>4, <1>8, <1>10, <2>1, <2>2
  <1> QED  BY <1>9, <1>10

-----------------------------------------------------------------------------
(* Events given out stay given out.                                        *)

\* r is q with more elements.
Longer(q, r, S) == \E x \in Seq(S) : r = q \o x

(* What grew twice has grown.                                              *)
LEMMA LongerStill ==
  ASSUME NEW S, NEW p, NEW q, NEW r, p \in Seq(S), Longer(p, q, S), Longer(q, r, S)
  PROVE  Longer(p, r, S)
  <1>1. PICK x \in Seq(S) : q = p \o x
    BY DEF Longer
  <1>2. PICK y \in Seq(S) : r = q \o y
    BY DEF Longer
  <1>3. Three(p, x, y, S)
    BY <1>1, <1>2 DEF Three
  <1>4. r = p \o (x \o y)
    BY <1>1, <1>2, <1>3, Regroup, SMTT(30)
  <1>5. x \o y \in Seq(S)
    BY <1>1, <1>2, ConcatProperties
  <1> QED  BY <1>4, <1>5 DEF Longer

(* A sequence that gets no event, one, or what was held, has grown.        *)
LEMMA LongerByFew ==
  ASSUME NEW S, NEW q, q \in Seq(S)
  PROVE  /\ Longer(q, q, S)
         /\ \A e \in S : Longer(q, Append(q, e), S)
         /\ \A e : (e # <<>> => e \in S) => Longer(q, q \o Held(e), S)
  <1>1. Longer(q, q, S)
    <2>1. <<>> \in Seq(S) /\ q = q \o <<>>
      BY EmptySeq, ConcatEmptySeq
    <2> QED  BY <2>1 DEF Longer
  <1>2. ASSUME NEW e \in S PROVE Longer(q, Append(q, e), S)
    <2>1. <<e>> \in Seq(S) /\ Append(q, e) = q \o <<e>>
      BY AppendIsConcat
    <2> QED  BY <2>1 DEF Longer
  <1>3. ASSUME NEW e, e # <<>> => e \in S PROVE Longer(q, q \o Held(e), S)
    <2>1. e = <<>> => q \o Held(e) = q
      BY ConcatEmptySeq DEF Held
    <2>2. e # <<>> => q \o Held(e) = Append(q, e)
      BY <1>3, AppendIsConcat DEF Held
    <2> QED  BY <1>1, <1>2, <1>3, <2>1, <2>2
  <1> QED  BY <1>1, <1>2, <1>3

(* A cell that is taken takes no event back; an end leaves no partial      *)
(* line.                                                                   *)
LEMMA TakeGrows ==
  ASSUME NEW P, NEW a \in Plain(P), NEW c \in P
  PROVE  Longer(a.out, Take(a, c).out, Seq(P)) /\ (c.end => Take(a, c).partial = <<>>)
  <1>1. PICK x, y, o : x = a.partial /\ y = a.current /\ o = a.out
    OBVIOUS
  <1>2. Fields(x, y, o, P) /\ a = [partial |-> x, current |-> y, out |-> o]
    BY <1>1, FieldsOf
  <1>3. x \in Seq(P) /\ y \in Seq(P) /\ o \in Seq(Seq(P))
    BY <1>2 DEF Fields
  <1>4. PICK S : S = Seq(P)
    OBVIOUS
  <1>5. /\ Longer(o, o, S) /\ Longer(o, o \o Held(y), S)
        /\ \A e \in S : Longer(o, Append(o, e), S)
    BY <1>3, <1>4, LongerByFew
  <1>6. CASE c.end
    <2>1. PICK b, line : b = [a EXCEPT !.partial = <<>>] /\ line = Append(x, c)
      OBVIOUS
    <2>2. b = [partial |-> <<>>, current |-> y, out |-> o]
      BY <1>2, <2>1
    <2>3. line \in S
      BY <1>3, <1>4, <2>1, AppendProperties
    <2>4. PICK longer, more : longer = y \o line /\ more = o \o Held(y)
      OBVIOUS
    <2>5. Fed(<<>>, y, o, line, b, longer, more)
      BY <2>2, <2>4 DEF Fed
    <2>6. Feed(b, line) =
              IF Head(line).stamp
              THEN [partial |-> <<>>, current |-> line, out |-> more]
              ELSE IF y # <<>>
                   THEN [partial |-> <<>>, current |-> longer, out |-> o]
                   ELSE [partial |-> <<>>, current |-> y, out |-> Append(o, line)]
      BY <2>5, FeedIs
    <2>7. Longer(o, more, S) /\ Longer(o, o, S) /\ Longer(o, Append(o, line), S)
      BY <1>5, <2>3, <2>4
    <2>8. Longer(o, Feed(b, line).out, S) /\ Feed(b, line).partial = <<>>
      BY <2>6, <2>7
    <2>9. Take(a, c) = Feed(b, line)
      BY <1>1, <1>6, <2>1 DEF Take
    <2> QED  BY <1>1, <1>4, <2>8, <2>9
  <1>7. CASE ~c.end
    <2>1. Take(a, c).out = o
      BY <1>1, <1>2, <1>7 DEF Take
    <2> QED  BY <1>1, <1>4, <1>5, <1>7, <2>1
  <1> QED  BY <1>6, <1>7

(* A payload that ends with a line leaves no partial line.                 *)
LEMMA FoldGrows ==
  ASSUME NEW P, NEW a \in Plain(P), NEW payload \in Seq(P)
  PROVE  /\ Longer(a.out, FoldLeft(Take, a, payload).out, Seq(P))
         /\ payload # <<>> /\ Last(payload).end => FoldLeft(Take, a, payload).partial = <<>>
  <1>1. Ended(P) \subseteq Lines(P) /\ P \in SUBSET P
    BY DEF Ended
  <1>2. PICK g \in [0..Len(payload) -> Plain(P)] :
            Taking(g, a, payload) /\ FoldLeft(Take, a, payload) = g[Len(payload)]
    <2>1. PICK Q \in SUBSET P : Q = P
      OBVIOUS
    <2>2. PICK G : G = Lines(P) /\ Ended(P) \subseteq G
      BY <1>1
    <2>3. a \in Assembler(P, Q, G) /\ Plain(P) = Assembler(P, Q, G) /\ payload \in Seq(Q)
      BY <2>1, <2>2 DEF Plain
    <2>4. TakenWithin(Assembler(P, Q, G), a, payload)
      BY <2>2, <2>3, TakenOneByOne
    <2> QED  BY <2>3, <2>4 DEF TakenWithin
  <1>3. Len(payload) \in Nat /\ Len(payload) \in 0..Len(payload)
    BY LenProperties
  <1>4. PICK S : S = Seq(P)
    OBVIOUS
  <1>5. a.out \in Seq(S)
    BY <1>4, FieldsOf DEF Fields
  <1>6. ASSUME NEW n \in 1..Len(payload)
        PROVE  /\ Longer(g[n-1].out, g[n].out, S)
               /\ payload[n].end => g[n].partial = <<>>
    <2>1. g[n] = Take(g[n-1], payload[n]) /\ g[n-1] \in Plain(P) /\ payload[n] \in P
      BY <1>2, <1>3, ElementOfSeq DEF Taking
    <2> QED  BY <1>4, <2>1, TakeGrows
  <1> DEFINE N == {n \in Nat : n <= Len(payload) => Longer(a.out, g[n].out, S)}
  <1>7. 0 \in N
    <2>1. Longer(a.out, a.out, S) /\ g[0] = a
      BY <1>2, <1>5, LongerByFew DEF Taking
    <2> QED  BY <2>1
  <1>8. ASSUME NEW n \in Nat, n \in N PROVE n + 1 \in N
    <2> SUFFICES ASSUME n + 1 <= Len(payload) PROVE Longer(a.out, g[n + 1].out, S)
      OBVIOUS
    <2>1. n + 1 \in 1..Len(payload) /\ (n + 1) - 1 = n
      BY <1>3
    <2>2. Longer(a.out, g[n].out, S) /\ Longer(g[n].out, g[n + 1].out, S)
      BY <1>6, <1>8, <2>1
    <2> QED  BY <1>5, <2>2, LongerStill
  <1>9. Len(payload) \in N
    <2> HIDE DEF N
    <2> QED  BY <1>3, <1>7, <1>8, NumberInduction
  <1>10. Longer(a.out, g[Len(payload)].out, S)
    BY <1>3, <1>9
  <1>11. ASSUME payload # <<>>, Last(payload).end PROVE g[Len(payload)].partial = <<>>
    <2>1. Len(payload) \in 1..Len(payload)
      BY <1>3, <1>11, EmptySeq
    <2> QED  BY <1>6, <1>11, <2>1 DEF Last
  <1> QED  BY <1>2, <1>4, <1>10, <1>11

(* A payload takes no event back.                                          *)
LEMMA ConsumeGrows ==
  ASSUME NEW P, NEW a \in Plain(P), NEW payload \in Seq(P)
  PROVE  Longer(a.out, Consume(a, payload).out, Seq(P))
  <1>1. PICK x, y, o, S : x = a.partial /\ y = a.current /\ o = a.out /\ S = Seq(P)
    OBVIOUS
  <1>2. Fields(x, y, o, P) /\ a = [partial |-> x, current |-> y, out |-> o]
    BY <1>1, FieldsOf
  <1>3. y \in S /\ o \in Seq(S)
    BY <1>1, <1>2 DEF Fields
  <1>4. CASE payload # <<>>
    BY <1>4, ConsumeFlat, FoldGrows
  <1>5. CASE payload = <<>> /\ x # <<>>
    <2>1. Consume(a, payload) = a
      BY <1>1, <1>5 DEF Consume
    <2>2. Longer(o, o, S)
      BY <1>3, LongerByFew
    <2> QED  BY <1>1, <2>1, <2>2
  <1>6. CASE payload = <<>> /\ x = <<>>
    <2>1. Consume(a, payload) = Flush(a)
      BY <1>1, <1>6 DEF Consume
    <2>2. PICK more : more = o \o Held(y)
      OBVIOUS
    <2>3. Flush(a) = [partial |-> x, current |-> <<>>, out |-> more]
      BY <1>2, <2>2, FlushIs
    <2>4. Longer(o, more, S)
      BY <1>3, <2>2, LongerByFew
    <2> QED  BY <1>1, <2>1, <2>3, <2>4
  <1> QED  BY <1>4, <1>5, <1>6

-----------------------------------------------------------------------------
(* The events of a tail.                                                   *)

(* A new assembler holds nothing.                                          *)
LEMMA NewAssemblerKeeps ==
  ASSUME NEW P, NEW Q, NEW G
  PROVE  NewAssembler \in Assembler(P, Q, G)
  <1>1. <<>> \in Seq({d \in Q : ~d.end}) /\ <<>> \in Seq(P) /\ <<>> \in Seq(G)
    BY EmptySeq
  <1> QED  BY <1>1 DEF NewAssembler, Assembler

(* The last elements of a sequence.                                        *)
LEMMA LastOfIs ==
  ASSUME NEW S, NEW q \in Seq(S), NEW n \in Nat
  PROVE  LastOf(q, n) \in Seq(S) /\ \E z \in Seq(S) : q = z \o LastOf(q, n)
  <1>1. Len(q) \in Nat
    BY LenProperties
  <1>2. CASE Len(q) <= n
    <2>1. LastOf(q, n) = q /\ <<>> \in Seq(S) /\ q = <<>> \o q
      BY <1>2, EmptySeq, ConcatEmptySeq DEF LastOf
    <2> QED  BY <2>1
  <1>3. CASE ~(Len(q) <= n)
    <2>1. PICK k \in Nat : k = Len(q) - n
      BY <1>1, <1>3
    <2>2. /\ LastOf(q, n) = SubSeq(q, k + 1, Len(q))
          /\ 1 \in 1..(Len(q) + 1) /\ k \in (1 - 1)..Len(q) /\ Len(q) \in k..Len(q)
      BY <1>1, <1>3, <2>1 DEF LastOf
    <2>3. (\A i \in 1..k : q[i] \in S) /\ (\A i \in (k + 1)..Len(q) : q[i] \in S)
      <3>1. (\A i \in 1..k : i \in 1..Len(q)) /\ (\A i \in (k + 1)..Len(q) : i \in 1..Len(q))
        BY <1>1, <2>1
      <3> QED  BY <3>1, ElementOfSeq
    <2>4. SubSeq(q, 1, k) \in Seq(S) /\ SubSeq(q, k + 1, Len(q)) \in Seq(S)
      <3>1. 1 \in Int /\ k \in Int /\ k + 1 \in Int /\ Len(q) \in Int
        BY <1>1, <2>1
      <3> QED  BY <2>3, <3>1, SubSeqProperties
    <2>5. SubSeq(q, 1, k) \o SubSeq(q, k + 1, Len(q)) = SubSeq(q, 1, Len(q))
      BY <2>2, ConcatAdjacentSubSeq
    <2>6. SubSeq(q, 1, Len(q)) = q
      BY SubSeqFull
    <2> QED  BY <2>2, <2>4, <2>5, <2>6
  <1> QED  BY <1>2, <1>3

(* The events of a tail are ended lines, or the one that was cut.          *)
LEMMA TailKeeps ==
  ASSUME NEW P, NEW Q \in SUBSET P, NEW G, Ended(P) \subseteq G, Cut(P, Q) \subseteq G,
         NEW cells \in Seq(Q)
  PROVE  TailEvents(cells) \in Seq(G)
  <1>1. NewAssembler \in Assembler(P, Q, G)
    BY NewAssemblerKeeps
  <1>2. PICK a \in Assembler(P, Q, G) : a = NewAssembler
    BY <1>1
  <1>3. TakenWithin(Assembler(P, Q, G), a, cells)
    BY TakenOneByOne
  <1>4. Len(cells) \in 0..Len(cells)
    BY LenProperties
  <1>5. PICK b \in Assembler(P, Q, G) : b = FoldLeft(Take, a, cells)
    BY <1>3, <1>4 DEF TakenWithin
  <1>6. FlushAll(b) \in Assembler(P, Q, G)
    BY FlushAllKeeps
  <1>7. FlushAll(b).out \in Seq(G)
    BY <1>6 DEF Assembler
  <1>8. TailEvents(cells) = LastOf(FlushAll(b).out, History)
    BY <1>2, <1>5 DEF TailEvents
  <1> QED  BY <1>7, <1>8, LastOfIs, HistoryAssumption

(* They are the last cells, in their order.                                *)
LEMMA TailFlat ==
  ASSUME NEW P, NEW cells \in Seq(P)
  PROVE  \E z \in Seq(P) : cells = z \o FlattenSeq(TailEvents(cells))
  <1>1. PICK a \in Plain(P) : a = NewAssembler
    BY NewAssemblerKeeps DEF Plain
  <1>2. PICK b \in Plain(P) : b = FoldLeft(Take, a, cells) /\ Flat(b) = Flat(a) \o cells
    BY ConsumeFlat
  <1>3. Flat(a) = <<>>
    <2>1. Flat(a) = FlattenSeq(<<>>) \o <<>> \o <<>>
      BY <1>1 DEF Flat, NewAssembler
    <2>2. <<>> \in Seq(P) /\ <<>> \o <<>> = <<>> /\ FlattenSeq(<<>>) = <<>>
      BY EmptySeq, ConcatEmptySeq, FlattenEmpty
    <2> QED  BY <2>1, <2>2
  <1>4. Flat(b) = cells
    BY <1>2, <1>3, ConcatEmptySeq
  <1>5. PICK x, y, o, q : x = b.partial /\ y = b.current /\ o = b.out /\ q = AllOf(x, y, o)
    OBVIOUS
  <1>6. Fields(x, y, o, P) /\ b = [partial |-> x, current |-> y, out |-> o]
    BY <1>5, FieldsOf
  <1>7. FlushAll(b).out = q /\ FlattenSeq(q) = Flat(b)
    <2>1. FlushAll(b) = [partial |-> <<>>, current |-> <<>>, out |-> AllOf(x, y, o)]
      BY <1>6, FlushAllIs
    <2>2. FlattenSeq(AllOf(x, y, o)) = (FlattenSeq(o) \o y) \o x
      BY <1>6, AllOfFlat
    <2>3. Flat(b) = (FlattenSeq(o) \o y) \o x
      BY <1>6, FlatIs
    <2> QED  BY <1>5, <2>1, <2>2, <2>3
  <1>8. q \in Seq(Seq(P))
    <2>1. Lines(P) \subseteq Seq(P)
      BY DEF Lines
    <2>2. FlushAll(b).out \in Seq(Lines(P))
      <3>1. Ended(P) \subseteq Lines(P) /\ Cut(P, P) \subseteq Lines(P)
        BY DEF Ended, Cut
      <3>2. PICK Q \in SUBSET P : Q = P
        OBVIOUS
      <3>3. PICK G : G = Lines(P)
        OBVIOUS
      <3>4. Ended(P) \subseteq G /\ Cut(P, Q) \subseteq G /\ b \in Assembler(P, Q, G)
        BY <3>1, <3>2, <3>3 DEF Plain
      <3>5. FlushAll(b) \in Assembler(P, Q, G)
        BY <3>4, FlushAllKeeps
      <3> QED  BY <3>3, <3>5 DEF Assembler
    <2> QED  BY <1>7, <2>1, <2>2, SeqMonotonic
  <1>9. TailEvents(cells) = LastOf(q, History)
    BY <1>1, <1>2, <1>7 DEF TailEvents
  <1>10. PICK z, r : z \in Seq(Seq(P)) /\ r \in Seq(Seq(P)) /\ q = z \o r /\ r = LastOf(q, History)
    BY <1>8, LastOfIs, HistoryAssumption
  <1>11. FlattenSeq(q) = FlattenSeq(z) \o FlattenSeq(r)
    BY <1>10, FlattenConcat
  <1>12. FlattenSeq(z) \in Seq(P)
    BY <1>10, FlattenType
  <1> QED  BY <1>4, <1>7, <1>9, <1>10, <1>11, <1>12

(* No event of a tail that ends with a line is cut.                        *)
LEMMA TailEnded ==
  ASSUME NEW P, NEW cells \in Seq(P), cells # <<>> => Last(cells).end
  PROVE  TailEvents(cells) \in Seq(Ended(P))
  <1>1. PICK G, Q : G = Ended(P) /\ Q = P
    OBVIOUS
  <1>2. Q \in SUBSET P /\ Ended(P) \subseteq G /\ cells \in Seq(Q)
    BY <1>1
  <1>3. PICK a \in Assembler(P, Q, G) : a = NewAssembler
    BY NewAssemblerKeeps
  <1>4. PICK b \in Assembler(P, Q, G) : b = FoldLeft(Take, a, cells)
    <2>1. TakenWithin(Assembler(P, Q, G), a, cells)
      BY <1>2, TakenOneByOne
    <2>2. Len(cells) \in 0..Len(cells)
      BY LenProperties
    <2> QED  BY <2>1, <2>2 DEF TakenWithin
  <1>5. b.partial = <<>>
    <2>1. CASE cells # <<>>
      <3>1. PICK e \in Plain(P) : e = a
        BY <1>3, NewAssemblerKeeps DEF Plain
      <3>2. FoldLeft(Take, e, cells).partial = <<>>
        BY <2>1, FoldGrows
      <3> QED  BY <1>4, <3>1, <3>2
    <2>2. CASE cells = <<>>
      <3>1. PICK g \in [0..Len(cells) -> Assembler(P, Q, G)] :
                Taking(g, a, cells) /\ FoldLeft(Take, a, cells) = g[Len(cells)]
        <4>1. TakenWithin(Assembler(P, Q, G), a, cells)
          BY <1>2, TakenOneByOne
        <4> QED  BY <4>1 DEF TakenWithin
      <3>2. Len(cells) = 0
        BY <2>2, EmptySeq
      <3> QED  BY <1>3, <1>4, <3>1, <3>2 DEF Taking, NewAssembler
    <2> QED  BY <2>1, <2>2
  <1>6. PICK x, y, o : x = b.partial /\ y = b.current /\ o = b.out
    OBVIOUS
  <1>7. /\ b = [partial |-> x, current |-> y, out |-> o] /\ x = <<>>
        /\ o \in Seq(G) /\ (y # <<>> => y \in G)
    BY <1>1, <1>5, <1>6 DEF Assembler, Ended, Lines
  <1>8. FlushAll(b) = [partial |-> <<>>, current |-> <<>>, out |-> AllOf(x, y, o)]
    BY <1>7, FlushAllIs
  <1>9. o \o Held(y) \in Seq(G)
    BY <1>7, HeldOut
  <1>10. FlushAll(b).out \in Seq(G)
    <2>1. AllOf(x, y, o) = o \o Held(y)
      BY <1>7 DEF AllOf
    <2> QED  BY <1>8, <1>9, <2>1
  <1>11. TailEvents(cells) = LastOf(FlushAll(b).out, History)
    BY <1>3, <1>4 DEF TailEvents
  <1> QED  BY <1>1, <1>10, <1>11, LastOfIs, HistoryAssumption

-----------------------------------------------------------------------------
(* Cells in order.                                                         *)

Earlier(c, d) == c.gen < d.gen \/ (c.gen = d.gen /\ c.id < d.id)
Increasing(q) == \A j, k \in 1..Len(q) : j < k => Earlier(q[j], q[k])
AllEarlier(q, r) == \A c \in ToSet(q), d \in ToSet(r) : Earlier(c, d)

(* The elements of two sequences joined are those of both.                 *)
LEMMA ElementsJoined ==
  ASSUME NEW S, NEW q, NEW r, q \in Seq(S), r \in Seq(S)
  PROVE  /\ ToSet(q \o r) = ToSet(q) \cup ToSet(r)
         /\ \A c \in ToSet(q) : \E j \in 1..Len(q) : q[j] = c
         /\ \A j \in 1..Len(q) : q[j] \in ToSet(q)
         /\ ToSet(q) \subseteq S
  <1>1. /\ Len(q) \in Nat /\ Len(r) \in Nat /\ DOMAIN q = 1..Len(q) /\ DOMAIN r = 1..Len(r)
        /\ Len(q \o r) = Len(q) + Len(r) /\ DOMAIN (q \o r) = 1..Len(q) + Len(r)
        /\ \A i \in 1..Len(q) + Len(r) : (q \o r)[i] = IF i <= Len(q) THEN q[i] ELSE r[i - Len(q)]
    BY ConcatProperties, LenProperties
  <1>2. PICK m, n \in Nat : m = Len(q) /\ n = Len(r)
    BY <1>1
  <1>3. PICK s : s = q \o r
    OBVIOUS
  <1>4. /\ ToSet(s) = {s[i] : i \in 1..m + n} /\ ToSet(q) = {q[i] : i \in 1..m}
        /\ ToSet(r) = {r[i] : i \in 1..n}
    BY <1>1, <1>2, <1>3 DEF ToSet
  <1>5. /\ \A i \in 1..m : i \in 1..m + n /\ s[i] = q[i]
        /\ \A i \in 1..n : m + i \in 1..m + n /\ s[m + i] = r[i]
        /\ \A i \in 1..m + n : IF i <= m THEN i \in 1..m /\ s[i] = q[i]
                               ELSE i - m \in 1..n /\ s[i] = r[i - m]
    BY <1>1, <1>2, <1>3
  <1>6. ToSet(s) = ToSet(q) \cup ToSet(r)
    <2>1. ToSet(s) \subseteq ToSet(q) \cup ToSet(r)
      BY <1>4, <1>5
    <2>2. ToSet(q) \subseteq ToSet(s)
      BY <1>4, <1>5
    <2>3. ToSet(r) \subseteq ToSet(s)
      BY <1>4, <1>5
    <2> QED  BY <2>1, <2>2, <2>3
  <1>7. \A j \in 1..m : q[j] \in S
    BY <1>2, ElementOfSeq
  <1> QED  BY <1>2, <1>3, <1>4, <1>6, <1>7

(* Two sequences joined are in order when each is, and one precedes the    *)
(* other.                                                                  *)
LEMMA IncreasingJoined ==
  ASSUME NEW S, NEW q, NEW r, q \in Seq(S), r \in Seq(S)
  PROVE  Increasing(q \o r) <=> Increasing(q) /\ Increasing(r) /\ AllEarlier(q, r)
  <1>1. /\ Len(q) \in Nat /\ Len(r) \in Nat /\ Len(q \o r) = Len(q) + Len(r)
        /\ \A i \in 1..Len(q) + Len(r) : (q \o r)[i] = IF i <= Len(q) THEN q[i] ELSE r[i - Len(q)]
    BY ConcatProperties, LenProperties
  <1>2. PICK m, n \in Nat : m = Len(q) /\ n = Len(r)
    BY <1>1
  <1>3. PICK s : s = q \o r
    OBVIOUS
  <1>4. /\ \A i \in 1..m : i \in 1..m + n /\ s[i] = q[i]
        /\ \A i \in 1..n : m + i \in 1..m + n /\ s[m + i] = r[i]
        /\ \A i \in 1..m + n : IF i <= m THEN i \in 1..m /\ s[i] = q[i]
                               ELSE i - m \in 1..n /\ s[i] = r[i - m]
        /\ Len(s) = m + n
    BY <1>1, <1>2, <1>3
  <1>5. /\ \A c \in ToSet(q) : \E j \in 1..m : q[j] = c
        /\ \A j \in 1..m : q[j] \in ToSet(q)
        /\ \A c \in ToSet(r) : \E j \in 1..n : r[j] = c
        /\ \A j \in 1..n : r[j] \in ToSet(r)
    BY <1>2, ElementsJoined
  <1>6. ASSUME Increasing(s) PROVE Increasing(q) /\ Increasing(r) /\ AllEarlier(q, r)
    <2>1. Increasing(q)
      BY <1>2, <1>4, <1>6 DEF Increasing
    <2>2. Increasing(r)
      <3>1. ASSUME NEW j \in 1..n, NEW k \in 1..n, j < k PROVE Earlier(r[j], r[k])
        <4>1. m + j \in 1..m + n /\ m + k \in 1..m + n /\ m + j < m + k
          BY <3>1
        <4>2. s[m + j] = r[j] /\ s[m + k] = r[k]
          BY <1>4
        <4> QED  BY <1>4, <1>6, <4>1, <4>2 DEF Increasing
      <3> QED  BY <1>2, <3>1 DEF Increasing
    <2>3. AllEarlier(q, r)
      <3>1. ASSUME NEW j \in 1..m, NEW k \in 1..n PROVE Earlier(q[j], r[k])
        <4>1. j \in 1..m + n /\ m + k \in 1..m + n /\ j < m + k
          BY <3>1
        <4>2. s[j] = q[j] /\ s[m + k] = r[k]
          BY <1>4
        <4> QED  BY <1>4, <1>6, <4>1, <4>2 DEF Increasing
      <3> QED  BY <1>5, <3>1 DEF AllEarlier
    <2> QED  BY <2>1, <2>2, <2>3
  <1>7. ASSUME Increasing(q), Increasing(r), AllEarlier(q, r) PROVE Increasing(s)
    <2>1. ASSUME NEW j \in 1..m + n, NEW k \in 1..m + n, j < k PROVE Earlier(s[j], s[k])
      <3>1. CASE k <= m
        <4>1. j \in 1..m /\ k \in 1..m
          BY <2>1, <3>1
        <4> QED  BY <1>2, <1>4, <1>7, <2>1, <4>1 DEF Increasing
      <3>2. CASE j <= m /\ ~(k <= m)
        <4>1. j \in 1..m /\ k - m \in 1..n /\ s[j] = q[j] /\ s[k] = r[k - m]
          BY <1>4, <2>1, <3>2
        <4> QED  BY <1>5, <1>7, <4>1 DEF AllEarlier
      <3>3. CASE ~(j <= m)
        <4>1. /\ j - m \in 1..n /\ k - m \in 1..n /\ j - m < k - m
              /\ s[j] = r[j - m] /\ s[k] = r[k - m]
          BY <1>4, <2>1, <3>3
        <4> QED  BY <1>2, <1>7, <4>1 DEF Increasing
      <3> QED  BY <3>1, <3>2, <3>3, <2>1
    <2> QED  BY <1>4, <2>1 DEF Increasing
  <1> QED  BY <1>3, <1>6, <1>7

-----------------------------------------------------------------------------
(* The files.                                                              *)

File == [gen : 1..MaxGenerations, cells : Seq(Cell)]

\* A file has the cells written in its generation, in the order written.
Content(f) ==
    /\ Len(f.cells) <= Len(written)
    /\ \A k \in 1..Len(f.cells) :
           /\ f.cells[k].gen = f.gen
           /\ f.cells[k].id \in 1..Len(written)
           /\ written[f.cells[k].id] = f.cells[k]
    /\ \A j, k \in 1..Len(f.cells) : j < k => f.cells[j].id < f.cells[k].id
    /\ \A m \in 1..Len(written) :
           written[m].gen = f.gen => \E k \in 1..Len(f.cells) : f.cells[k] = written[m]

FileInv ==
    /\ source \in Sources
    /\ files \in Seq(File)
    /\ path \in {0, Len(files)}
    /\ generation \in 0..MaxGenerations
    /\ written \in Seq(Cell)
    /\ failures \in 0..MaxFailures
    /\ Len(written) + failures <= MaxCells
    /\ \A k \in 1..Len(written) : written[k].id = k /\ written[k].gen <= generation
    /\ path # 0 => files[path].gen = generation
    /\ \A i \in 1..Len(files) : files[i].gen <= generation /\ Content(files[i])
    /\ \A i, j \in 1..Len(files) : i < j => files[i].gen < files[j].gen

-----------------------------------------------------------------------------
(* The follower.                                                           *)

\* When it has no file, and when it must have one.
NoFile == Local /\ pc \in {"new", "start", "tail"}
HasFile == (Local /\ pc \in {"poll", "checked", "switch"}) \/ (~Local /\ pc \in {"first", "read"})

BuffersInv ==
    /\ buffers \in [partial : Seq(Cell), current : Seq(Cell)]
    /\ Now \in Plain(Cell)
    /\ tail \in Seq(Lines(Cell))

ControlInv ==
    /\ pc \in (IF Local THEN LocalStates ELSE SSHStates) \cup {"done"}
    /\ handle \in 0..Len(files)
    /\ offset \in 0..Len(written)
    /\ reading \in 0..generation
    /\ since \in 0..Len(written)
    /\ decoder \in 0..Len(written)
    /\ surprises \subseteq Surprise
    /\ pc # "tail" => tail = <<>>
    /\ NoFile => handle = 0
    /\ HasFile => handle # 0
    /\ handle # 0 => reading <= files[handle].gen

TypeInv == FileInv /\ BuffersInv /\ ControlInv

-----------------------------------------------------------------------------
(* Unended lines.                                                          *)

\* An event that was cut is of a generation that is over or has no path.
Over(e) ==
    \/ Last(e).end
    \/ Last(e).gen < generation
    \/ Last(e).gen <= generation /\ path = 0

\* The cells of q are of the file that is open, or of an earlier one; of the
\* open one, they lie before the offset.
Behind(q) ==
    \A c \in ToSet(q) :
        /\ c.gen <= files[handle].gen
        /\ c.gen = files[handle].gen => offset <= Size(handle)

WaitInv ==
    /\ \A c \in ToSet(buffers.partial) : c.gen <= generation
    /\ Local /\ handle # 0 => Behind(buffers.partial)
    /\ "cut" \notin surprises => tail \in Seq(Ended(Cell))
    /\ "cut" \in surprises \/ pc = "done" \/ \A e \in ToSet(emitted) : Over(e)

-----------------------------------------------------------------------------
(* One file per event.                                                     *)

Of(g) == {c \in Cell : c.gen = g}
OneFile == {e \in Lines(Cell) : \A j, k \in 1..Len(e) : e[j].gen = e[k].gen}

\* What is pending is of the generation that is read.
One ==
    /\ buffers.partial \in Seq(Of(reading)) /\ buffers.current \in Seq(Of(reading))
    /\ emitted \in Seq(OneFile)
    /\ tail \in Seq(OneFile)
    /\ handle = 0 \/ pc \in {"switch", "first"} \/ (Local /\ offset = 0) => buffers = Empty
    /\ pc \in {"first", "read"} => path = handle /\ files[handle].gen = reading

OneInv == surprises \cap {"vanished", "unseen", "swapped", "mixed"} = {} => One

-----------------------------------------------------------------------------
(* Once, in order.                                                         *)

\* c is among the first k cells of file i, or of an earlier generation.
ReadAt(c, i, k) ==
    /\ c.gen <= files[i].gen
    /\ c.gen = files[i].gen =>
           /\ k <= Size(i)
           /\ \E m \in 1..k : files[i].cells[m] = c

\* c was written.
Known(c) == c.id \in 1..Len(written) /\ written[c.id] = c

\* The tail that is being opened is in order, of cells that were written.
TailOrder == Increasing(FlattenSeq(tail)) /\ \A c \in ToSet(FlattenSeq(tail)) : Known(c)

\* What was taken is in order, and lies before the place that was reached.
Order ==
    /\ Increasing(Taken)
    /\ handle = 0 \/ pc = "first" => Taken = <<>>
    /\ handle # 0 => \A c \in ToSet(Taken) : ReadAt(c, handle, offset)
    /\ pc = "switch" => handle < Len(files)
    /\ TailOrder
    /\ pc \in {"first", "read"} => path = handle

OrderInv == surprises \cap {"vanished", "swapped"} = {} => Order

-----------------------------------------------------------------------------
(* The files are as they should.                                           *)

(* The files, and the bounds of what was written.                          *)
LEMMA FileFacts ==
  ASSUME FileInv
  PROVE  /\ Len(files) \in Nat /\ Len(written) \in Nat /\ generation \in Nat
         /\ Len(written) <= MaxCells /\ failures \in Nat
         /\ path \in 0..Len(files) /\ MaxCells \in Nat /\ MaxGenerations \in Nat
         /\ \A i \in 1..Len(files) :
                /\ files[i] \in File /\ files[i].cells \in Seq(Cell)
                /\ files[i].gen \in 1..MaxGenerations /\ files[i].gen \in Nat
                /\ Size(i) \in Nat /\ Size(i) <= Len(written)
  <1>1. /\ Len(files) \in Nat /\ Len(written) \in Nat /\ generation \in Nat
        /\ Len(written) <= MaxCells /\ failures \in Nat
        /\ path \in 0..Len(files) /\ MaxCells \in Nat /\ MaxGenerations \in Nat
    BY LenProperties, BoundAssumption, WindowAssumption DEF FileInv
  <1>2. ASSUME NEW i \in 1..Len(files)
        PROVE  /\ files[i] \in File /\ files[i].cells \in Seq(Cell)
               /\ files[i].gen \in 1..MaxGenerations /\ files[i].gen \in Nat
               /\ Size(i) \in Nat /\ Size(i) <= Len(written)
    <2>1. files[i] \in File /\ Content(files[i])
      BY <1>2, ElementOfSeq DEF FileInv
    <2>2. files[i].cells \in Seq(Cell) /\ files[i].gen \in 1..MaxGenerations
      BY <2>1 DEF File
    <2>3. Len(files[i].cells) \in Nat /\ Len(files[i].cells) <= Len(written)
      BY <2>1, <2>2, LenProperties DEF Content
    <2> QED  BY <1>1, <2>1, <2>2, <2>3 DEF Size
  <1> QED  BY <1>1, <1>2

(* What was written are cells.                                             *)
LEMMA WrittenCells ==
  ASSUME FileInv
  PROVE  \A k \in 1..Len(written) : written[k] \in Cell
  BY ElementOfSeq DEF FileInv

(* What lies beyond a place in a file.                                     *)
LEMMA FromFacts ==
  ASSUME FileInv, NEW i, i \in 1..Len(files), NEW k \in Nat
  PROVE  /\ From(i, k) \in Seq(Cell) /\ From(i, k) \in Seq(Of(files[i].gen))
         /\ Len(From(i, k)) = IF k <= Size(i) THEN Size(i) - k ELSE 0
         /\ \A c \in ToSet(From(i, k)) : \E j \in (k + 1)..Size(i) : files[i].cells[j] = c
         /\ \A j \in (k + 1)..Size(i) : files[i].cells[j] \in ToSet(From(i, k))
         /\ Increasing(From(i, k))
  <1>1. PICK q : q = files[i].cells
    OBVIOUS
  <1>2. PICK n : n = Size(i)
    OBVIOUS
  <1>3. n \in Nat /\ n = Len(q) /\ q \in Seq(Cell) /\ Content(files[i])
    BY <1>1, <1>2, FileFacts DEF Size, FileInv
  <1>4. \A j \in 1..n : q[j] \in Cell /\ q[j].gen = files[i].gen
    BY <1>1, <1>3, ElementOfSeq DEF Content
  <1>5. PICK S : S = Of(files[i].gen)
    OBVIOUS
  <1>6. \A j \in (k + 1)..n : q[j] \in S /\ q[j] \in Cell
    BY <1>3, <1>4, <1>5 DEF Of
  <1>7. PICK r : r = SubSeq(q, k + 1, n)
    OBVIOUS
  <1>8. /\ r \in Seq(S) /\ r \in Seq(Cell)
        /\ Len(r) = IF k + 1 <= n THEN n - (k + 1) + 1 ELSE 0
        /\ \A j \in 1..n - (k + 1) + 1 : r[j] = q[(k + 1) + j - 1]
    <2>1. k + 1 \in Int /\ n \in Int
      BY <1>3
    <2> QED  BY <1>6, <1>7, <2>1, SubSeqProperties, SMTT(30)
  <1>9. From(i, k) = r
    BY <1>1, <1>2, <1>7 DEF From
  <1>10. Len(r) = IF k <= n THEN n - k ELSE 0
    BY <1>3, <1>8
  <1>11. ASSUME NEW j \in 1..Len(r) PROVE k + j \in (k + 1)..n /\ r[j] = q[k + j]
    <2>1. k <= n /\ j \in 1..n - (k + 1) + 1 /\ (k + 1) + j - 1 = k + j /\ k + j \in (k + 1)..n
      BY <1>3, <1>10, <1>11
    <2> QED  BY <1>8, <2>1
  <1>12. DOMAIN r = 1..Len(r)
    BY <1>8, LenProperties
  <1>13. \A c \in ToSet(r) : \E j \in (k + 1)..n : q[j] = c
    BY <1>11, <1>12 DEF ToSet
  <1>14. ASSUME NEW j \in (k + 1)..n PROVE q[j] \in ToSet(r)
    <2>1. j - k \in 1..Len(r) /\ k + (j - k) = j
      BY <1>3, <1>10, <1>14
    <2> QED  BY <1>11, <1>12, <2>1 DEF ToSet
  <1>15. Increasing(r)
    <2>1. ASSUME NEW j \in 1..Len(r), NEW m \in 1..Len(r), j < m PROVE Earlier(r[j], r[m])
      <3>1. k + j \in 1..n /\ k + m \in 1..n /\ k + j < k + m
        BY <1>3, <1>10, <2>1
      <3>2. q[k + j].id < q[k + m].id /\ q[k + j].gen = q[k + m].gen
        BY <1>1, <1>3, <1>4, <3>1 DEF Content
      <3> QED  BY <1>11, <3>2 DEF Earlier
    <2> QED  BY <2>1 DEF Increasing
  <1> QED  BY <1>1, <1>2, <1>5, <1>8, <1>9, <1>10, <1>13, <1>14, <1>15

\* A file with one more cell, and all the files that follow from it.
WithCell(f, c) == [gen |-> f.gen, cells |-> Append(f.cells, c)]
NewCell(i, c) ==
    /\ c \in Cell /\ c.id = Len(written) + 1 /\ c.gen = files[i].gen
    /\ Len(written) < MaxCells
    /\ written' = Append(written, c)
    /\ path' = path /\ generation' = generation
    /\ files' \in Seq(File) /\ Len(files') = Len(files)
    /\ \A j \in 1..Len(files) : files'[j] = IF j = i THEN WithCell(files[i], c) ELSE files[j]

(* A program that writes adds a cell to a file.                            *)
LEMMA WriteIs ==
  ASSUME FileInv, NEW i, i \in DOMAIN files, NEW stamp \in BOOLEAN, NEW end \in BOOLEAN,
         Write(i, stamp, end)
  PROVE  i \in 1..Len(files) /\ \E c : NewCell(i, c)
  <1>1. i \in 1..Len(files)
    BY LenProperties DEF FileInv
  <1>2. /\ files[i] \in File /\ files[i].cells \in Seq(Cell) /\ files[i].gen \in 1..MaxGenerations
        /\ Len(written) \in Nat /\ MaxCells \in Nat
    BY <1>1, FileFacts
  <1>3. PICK c : c = [id |-> Len(written) + 1, gen |-> files[i].gen, stamp |-> stamp, end |-> end]
    OBVIOUS
  <1>4. /\ Len(written) < MaxCells /\ path' = path /\ generation' = generation
        /\ written' = Append(written, c)
        /\ files' = [files EXCEPT ![i].cells = Append(@, c)]
    BY <1>3 DEF Write
  <1>5. c \in Cell /\ c.id = Len(written) + 1 /\ c.gen = files[i].gen
    <2>1. Len(written) + 1 \in 1..MaxCells
      BY <1>2, <1>4
    <2> QED  BY <1>2, <1>3, <2>1 DEF Cell
  <1>6. PICK f : f = WithCell(files[i], c)
    OBVIOUS
  <1>7. f \in File
    <2>1. Append(files[i].cells, c) \in Seq(Cell)
      BY <1>2, <1>5, AppendProperties
    <2> QED  BY <1>2, <1>6, <2>1 DEF WithCell, File
  <1>8. files' = [files EXCEPT ![i] = f]
    <2>1. [files[i] EXCEPT !.cells = Append(@, c)] = f
      <3>1. PICK g, q, z : g = files[i].gen /\ q = files[i].cells /\ z = Append(q, c)
        OBVIOUS
      <3>2. files[i] = [gen |-> g, cells |-> q]
        BY <1>2, <3>1 DEF File
      <3>3. [files[i] EXCEPT !.cells = z] = [gen |-> g, cells |-> z]
        BY <3>2
      <3>4. f = [gen |-> g, cells |-> z]
        BY <1>6, <3>1 DEF WithCell
      <3>5. [files[i] EXCEPT !.cells = Append(@, c)] = [files[i] EXCEPT !.cells = z]
        BY <3>1
      <3> QED  BY <3>3, <3>4, <3>5
    <2>2. files' = [files EXCEPT ![i] = [files[i] EXCEPT !.cells = Append(@, c)]]
      BY <1>4
    <2> QED  BY <2>1, <2>2
  <1>9. /\ files' \in Seq(File) /\ Len(files') = Len(files)
        /\ \A j \in 1..Len(files) : files'[j] = IF j = i THEN f ELSE files[j]
    <2>1. files \in Seq(File)
      BY DEF FileInv
    <2>2. /\ [files EXCEPT ![i] = f] \in Seq(File) /\ Len([files EXCEPT ![i] = f]) = Len(files)
          /\ \A j \in 1..Len(files) : [files EXCEPT ![i] = f][j] = IF j = i THEN f ELSE files[j]
      BY <1>1, <1>7, <2>1, ExceptSeq
    <2> QED  BY <1>8, <2>2
  <1>10. NewCell(i, c)
    BY <1>4, <1>5, <1>6, <1>9 DEF NewCell
  <1> QED  BY <1>1, <1>10

\* What a new or truncated file is.
Blank == [gen |-> generation + 1, cells |-> <<>>]

(* A file that is created is the last one, and empty.                      *)
LEMMA ReplaceIs ==
  ASSUME FileInv, Replace
  PROVE  /\ generation < MaxGenerations /\ generation' = generation + 1 /\ written' = written
         /\ files' \in Seq(File) /\ Len(files') = Len(files) + 1 /\ path' = Len(files) + 1
         /\ \A j \in 1..Len(files) : files'[j] = files[j]
         /\ files'[Len(files) + 1] = Blank
  <1>1. /\ generation < MaxGenerations /\ generation' = generation + 1 /\ written' = written
        /\ path' = Len(files) + 1 /\ files' = Append(files, Blank)
    BY DEF Replace, Begin, Blank
  <1>2. Blank \in File
    <2>1. generation + 1 \in 1..MaxGenerations /\ <<>> \in Seq(Cell)
      BY <1>1, FileFacts, EmptySeq
    <2> QED  BY <2>1 DEF Blank, File
  <1>3. files \in Seq(File)
    BY DEF FileInv
  <1>4. /\ Append(files, Blank) \in Seq(File) /\ Len(Append(files, Blank)) = Len(files) + 1
        /\ \A j \in 1..Len(files) : Append(files, Blank)[j] = files[j]
        /\ Append(files, Blank)[Len(files) + 1] = Blank
    BY <1>2, <1>3, AppendProperties
  <1> QED  BY <1>1, <1>4

(* A truncation empties the file of the path.                              *)
LEMMA TruncateIs ==
  ASSUME FileInv, Truncate
  PROVE  /\ path # 0 /\ path = Len(files) /\ path \in 1..Len(files)
         /\ generation < MaxGenerations /\ generation' = generation + 1 /\ written' = written
         /\ files' \in Seq(File) /\ Len(files') = Len(files) /\ path' = path
         /\ \A j \in 1..Len(files) : files'[j] = IF j = path THEN Blank ELSE files[j]
  <1>1. /\ generation < MaxGenerations /\ generation' = generation + 1 /\ written' = written
        /\ path # 0 /\ path' = path /\ files' = [files EXCEPT ![path] = Blank]
    BY DEF Truncate, Begin, Blank
  <1>2. Blank \in File
    <2>1. generation + 1 \in 1..MaxGenerations /\ <<>> \in Seq(Cell)
      BY <1>1, FileFacts, EmptySeq
    <2> QED  BY <2>1 DEF Blank, File
  <1>3. files \in Seq(File) /\ path = Len(files) /\ path \in 1..Len(files)
    BY <1>1, FileFacts DEF FileInv
  <1>4. /\ [files EXCEPT ![path] = Blank] \in Seq(File)
        /\ Len([files EXCEPT ![path] = Blank]) = Len(files)
        /\ \A j \in 1..Len(files) :
               [files EXCEPT ![path] = Blank][j] = IF j = path THEN Blank ELSE files[j]
    BY <1>2, <1>3, ExceptSeq
  <1> QED  BY <1>1, <1>3, <1>4

(* A removal leaves the files as they are.                                 *)
LEMMA UnlinkIs ==
  ASSUME Unlink
  PROVE  path # 0 /\ path' = 0 /\ UNCHANGED <<files, written, generation>>
  BY DEF Unlink

-----------------------------------------------------------------------------
(* Every step keeps the files as they should be.                           *)

(* The writer adds a cell.                                                 *)
LEMMA WriteKeepsFiles ==
  ASSUME FileInv, NEW i \in 1..Len(files), NEW c, NewCell(i, c),
         source' = source, failures' = failures, Len(written) + failures < MaxCells
  PROVE  FileInv'
  <1>1. /\ Len(files) \in Nat /\ Len(written) \in Nat /\ generation \in Nat
        /\ failures \in Nat /\ MaxCells \in Nat
        /\ \A j \in 1..Len(files) :
               /\ files[j].cells \in Seq(Cell) /\ files[j].gen \in Nat
               /\ Len(files[j].cells) \in Nat /\ Len(files[j].cells) <= Len(written)
    BY FileFacts DEF Size
  <1>2. PICK n \in Nat : n = Len(written)
    BY <1>1
  <1>3. /\ c \in Cell /\ c.id = n + 1 /\ c.gen = files[i].gen
        /\ path' = path /\ generation' = generation
        /\ files' \in Seq(File) /\ Len(files') = Len(files)
        /\ \A j \in 1..Len(files) : files'[j] = IF j = i THEN WithCell(files[i], c) ELSE files[j]
    BY <1>2 DEF NewCell
  <1>4. /\ written' \in Seq(Cell) /\ Len(written') = n + 1 /\ written'[n + 1] = c
        /\ \A k \in 1..n : written'[k] = written[k]
    BY <1>2, <1>3, AppendProperties DEF NewCell, FileInv
  <1>5. /\ \A k \in 1..n : written[k].id = k /\ written[k].gen <= generation
        /\ \A j \in 1..Len(files) : files[j].gen <= generation /\ Content(files[j])
        /\ \A j, k \in 1..Len(files) : j < k => files[j].gen < files[k].gen
    BY <1>2 DEF FileInv
  <1>6. \A j \in 1..Len(files) : files'[j].gen = files[j].gen
    BY <1>3 DEF WithCell
  <1>7. ASSUME NEW j \in 1..Len(files), j # i PROVE Content(files[j])'
    <2>1. files'[j] = files[j] /\ Content(files[j])
      BY <1>3, <1>5, <1>7
    <2>2. files[j].gen # files[i].gen
      BY <1>1, <1>5, <1>7, SMTT(30)
    <2>3. PICK f : f = files[j]
      OBVIOUS
    <2>4. /\ Len(f.cells) \in Nat /\ Len(f.cells) <= n /\ f.gen # c.gen
          /\ \A k \in 1..Len(f.cells) :
                 f.cells[k].gen = f.gen /\ f.cells[k].id \in 1..n /\ written[f.cells[k].id] = f.cells[k]
          /\ \A k, m \in 1..Len(f.cells) : k < m => f.cells[k].id < f.cells[m].id
          /\ \A m \in 1..n : written[m].gen = f.gen => \E k \in 1..Len(f.cells) : f.cells[k] = written[m]
      BY <1>1, <1>2, <1>3, <2>1, <2>2, <2>3 DEF Content
    <2>5. \A m \in 1..n + 1 : written'[m].gen = f.gen => m \in 1..n
      BY <1>4, <2>4
    <2>6. \A k \in 1..Len(f.cells) :
              /\ f.cells[k].gen = f.gen /\ f.cells[k].id \in 1..n + 1
              /\ written'[f.cells[k].id] = f.cells[k]
      BY <1>4, <2>4, SMTT(30)
    <2>7. ASSUME NEW m \in 1..n + 1, written'[m].gen = f.gen
          PROVE  \E k \in 1..Len(f.cells) : f.cells[k] = written'[m]
      BY <1>4, <2>4, <2>5, <2>7, SMTT(30)
    <2>8. Len(f.cells) <= n + 1
      BY <2>4
    <2> QED  BY <1>4, <2>1, <2>3, <2>4, <2>6, <2>7, <2>8, SMTT(30) DEF Content
  <1>8. Content(files[i])'
    <2>1. PICK q, m : q = files[i].cells /\ m = Len(q)
      OBVIOUS
    <2>2. PICK r : r = Append(q, c)
      OBVIOUS
    <2>3. q \in Seq(Cell) /\ m \in Nat /\ m <= n
      BY <1>1, <1>2, <2>1
    <2>4. Len(r) = m + 1 /\ r[m + 1] = c /\ \A k \in 1..m : r[k] = q[k]
      BY <1>3, <2>1, <2>2, <2>3, AppendProperties
    <2>5. files'[i].cells = r /\ files'[i].gen = c.gen
      BY <1>3, <2>1, <2>2 DEF WithCell
    <2>6. /\ \A k \in 1..m : q[k].gen = c.gen /\ q[k].id \in 1..n /\ written[q[k].id] = q[k]
          /\ \A k, l \in 1..m : k < l => q[k].id < q[l].id
          /\ \A l \in 1..n : written[l].gen = c.gen => \E k \in 1..m : q[k] = written[l]
      <3>1. Content(files[i]) /\ files[i].gen = c.gen
        BY <1>3, <1>5
      <3> QED  BY <1>2, <2>1, <3>1 DEF Content
    <2>7. \A k \in 1..m + 1 :
              r[k].gen = c.gen /\ r[k].id \in 1..n + 1 /\ written'[r[k].id] = r[k]
      <3>1. ASSUME NEW k \in 1..m
            PROVE  r[k].gen = c.gen /\ r[k].id \in 1..n + 1 /\ written'[r[k].id] = r[k]
        BY <1>4, <2>4, <2>6
      <3>2. r[m + 1].gen = c.gen /\ r[m + 1].id \in 1..n + 1 /\ written'[r[m + 1].id] = r[m + 1]
        BY <1>3, <1>4, <2>4
      <3>3. \A k \in 1..m + 1 : k \in 1..m \/ k = m + 1
        BY <2>3
      <3> QED  BY <3>1, <3>2, <3>3
    <2>8. ASSUME NEW k \in 1..m + 1, NEW l \in 1..m + 1, k < l PROVE r[k].id < r[l].id
      <3>1. k \in 1..m /\ (l \in 1..m \/ l = m + 1)
        BY <2>3, <2>8
      <3>2. CASE l \in 1..m
        BY <2>4, <2>6, <2>8, <3>1, <3>2
      <3>3. CASE l = m + 1
        <4>1. r[k].id \in 1..n /\ r[l].id = n + 1
          BY <1>3, <2>4, <2>6, <3>1, <3>3
        <4> QED  BY <4>1
      <3> QED  BY <3>1, <3>2, <3>3
    <2>9. ASSUME NEW l \in 1..n + 1, written'[l].gen = c.gen
          PROVE  \E k \in 1..m + 1 : r[k] = written'[l]
      <3>1. CASE l = n + 1
        <4>1. m + 1 \in 1..m + 1
          BY <2>3
        <4> QED  BY <1>4, <2>4, <3>1, <4>1
      <3>2. CASE l # n + 1
        <4>1. l \in 1..n /\ written'[l] = written[l]
          BY <1>4, <3>2
        <4>2. PICK k \in 1..m : q[k] = written[l]
          BY <2>6, <2>9, <4>1
        <4>3. k \in 1..m + 1 /\ r[k] = q[k]
          BY <2>3, <2>4
        <4> QED  BY <4>1, <4>2, <4>3
      <3> QED  BY <3>1, <3>2
    <2>10. m + 1 <= n + 1
      BY <2>3
    <2> QED  BY <1>4, <2>4, <2>5, <2>7, <2>8, <2>9, <2>10 DEF Content
  <1>9. \A k \in 1..n + 1 : written'[k].id = k /\ written'[k].gen <= generation
    <2>1. \A k \in 1..n + 1 : k \in 1..n \/ k = n + 1
      BY <1>2
    <2> QED  BY <1>3, <1>4, <1>5, <2>1
  <1>10. Len(written') + failures <= MaxCells
    BY <1>1, <1>2, <1>4
  <1>11. path # 0 => path \in 1..Len(files)
    BY FileFacts
  <1> QED
    BY <1>3, <1>4, <1>5, <1>6, <1>7, <1>8, <1>9, <1>10, <1>11 DEF FileInv

(* Somebody creates, removes or truncates the file.                        *)
LEMMA ReplaceKeepsFiles ==
  ASSUME FileInv, Replace, source' = source, failures' = failures
  PROVE  FileInv'
  <1>1. /\ Len(files) \in Nat /\ Len(written) \in Nat /\ generation \in Nat
        /\ MaxGenerations \in Nat /\ \A i \in 1..Len(files) : files[i].gen \in Nat
    BY FileFacts
  <1>2. PICK n \in Nat : n = Len(files)
    BY <1>1
  <1>3. /\ generation < MaxGenerations /\ generation' = generation + 1 /\ written' = written
        /\ files' \in Seq(File) /\ Len(files') = n + 1 /\ path' = n + 1
        /\ \A j \in 1..n : files'[j] = files[j]
        /\ files'[n + 1] = Blank
    BY <1>2, ReplaceIs
  <1>4. /\ \A k \in 1..Len(written) : written[k].id = k /\ written[k].gen <= generation
        /\ \A j \in 1..n : files[j].gen <= generation /\ Content(files[j])
        /\ \A j, k \in 1..n : j < k => files[j].gen < files[k].gen
    BY <1>2 DEF FileInv
  <1>5. Blank.gen = generation + 1 /\ Blank.cells = <<>> /\ Len(Blank.cells) = 0
    BY EmptySeq DEF Blank
  <1>6. \A j \in 1..n + 1 : j \in 1..n \/ j = n + 1
    BY <1>2
  <1>7. \A k \in 1..Len(written) : written[k].gen <= generation + 1 /\ written[k].gen # generation + 1
    <2>1. \A k \in 1..Len(written) : written[k].gen \in Nat
      BY WrittenCells DEF Cell
    <2> QED  BY <1>1, <1>4, <2>1
  <1>8. \A j \in 1..n : files'[j].gen <= generation + 1 /\ files'[j].gen < generation + 1
    BY <1>1, <1>2, <1>3, <1>4
  <1>9. ASSUME NEW j \in 1..n PROVE Content(files[j])'
    <2>1. Content(files[j]) /\ files'[j] = files[j] /\ written' = written
      BY <1>3, <1>4
    <2> QED  BY <2>1 DEF Content
  <1>10. Content(files[n + 1])'
    BY <1>1, <1>3, <1>5, <1>7 DEF Content
  <1>11. \A j, k \in 1..n + 1 : j < k => files'[j].gen < files'[k].gen
    BY <1>2, <1>3, <1>4, <1>5, <1>6, <1>8
  <1>12. generation + 1 \in 0..MaxGenerations
    BY <1>1, <1>3
  <1>13. \A j \in 1..n + 1 : files'[j].gen <= generation + 1 /\ Content(files[j])'
    BY <1>1, <1>3, <1>5, <1>6, <1>8, <1>9, <1>10
  <1> QED
    BY <1>3, <1>4, <1>5, <1>7, <1>11, <1>12, <1>13 DEF FileInv

(* Somebody truncates the file.                                            *)
LEMMA TruncateKeepsFiles ==
  ASSUME FileInv, Truncate, source' = source, failures' = failures
  PROVE  FileInv'
  <1>1. /\ Len(files) \in Nat /\ Len(written) \in Nat /\ generation \in Nat
        /\ MaxGenerations \in Nat /\ \A i \in 1..Len(files) : files[i].gen \in Nat
    BY FileFacts
  <1>2. PICK n \in Nat : n = Len(files)
    BY <1>1
  <1>3. /\ path = n /\ n \in 1..n /\ path' = n
        /\ generation < MaxGenerations /\ generation' = generation + 1 /\ written' = written
        /\ files' \in Seq(File) /\ Len(files') = n
        /\ \A j \in 1..n : files'[j] = IF j = n THEN Blank ELSE files[j]
    BY <1>2, TruncateIs
  <1>4. /\ \A k \in 1..Len(written) : written[k].id = k /\ written[k].gen <= generation
        /\ \A j \in 1..n : files[j].gen <= generation /\ Content(files[j])
        /\ \A j, k \in 1..n : j < k => files[j].gen < files[k].gen
    BY <1>2 DEF FileInv
  <1>5. Blank.gen = generation + 1 /\ Blank.cells = <<>> /\ Len(Blank.cells) = 0
    BY EmptySeq DEF Blank
  <1>7. \A k \in 1..Len(written) : written[k].gen <= generation + 1 /\ written[k].gen # generation + 1
    <2>1. \A k \in 1..Len(written) : written[k].gen \in Nat
      BY WrittenCells DEF Cell
    <2> QED  BY <1>1, <1>4, <2>1
  <1>8. \A j \in 1..n : files[j].gen <= generation + 1 /\ files[j].gen < generation + 1
    BY <1>1, <1>2, <1>4
  <1>9. ASSUME NEW j \in 1..n, j # n PROVE Content(files[j])'
    <2>1. Content(files[j]) /\ files'[j] = files[j] /\ written' = written
      BY <1>3, <1>4, <1>9
    <2> QED  BY <2>1 DEF Content
  <1>10. Content(files[n])'
    BY <1>1, <1>3, <1>5, <1>7 DEF Content
  <1>11. \A j, k \in 1..n : j < k => files'[j].gen < files'[k].gen
    BY <1>2, <1>3, <1>4, <1>5, <1>8
  <1>12. generation + 1 \in 0..MaxGenerations
    BY <1>1, <1>3
  <1>13. \A j \in 1..n : files'[j].gen <= generation + 1 /\ Content(files[j])'
    BY <1>1, <1>3, <1>5, <1>8, <1>9, <1>10
  <1> QED
    BY <1>3, <1>4, <1>5, <1>7, <1>11, <1>12, <1>13 DEF FileInv

(* Somebody removes the file.                                              *)
LEMMA UnlinkKeepsFiles ==
  ASSUME FileInv, Unlink, source' = source, failures' = failures
  PROVE  FileInv'
  BY UnlinkIs DEF FileInv, Content

(* The follower changes no file.                                           *)
LEMMA FilesStay ==
  ASSUME FileInv, UNCHANGED <<source, fileVars>>, failures' = failures \/ Fails
  PROVE  FileInv'
  <1>1. /\ failures \in Nat /\ MaxFailures \in Nat /\ Len(written) \in Nat /\ MaxCells \in Nat
        /\ failures <= MaxFailures
    BY FileFacts, WindowAssumption DEF FileInv
  <1>2. failures' \in 0..MaxFailures /\ Len(written) + failures' <= MaxCells
    BY <1>1 DEF Fails, Room, FileInv
  <1> QED  BY <1>2 DEF FileInv, Content, fileVars

(* Every step keeps the files as they should be.                           *)
LEMMA FileSafe ==
  ASSUME FileInv, [Next]_vars
  PROVE  FileInv'
  <1>1. CASE Follow \/ Finish
    <2>1. UNCHANGED <<source, fileVars>> /\ (failures' = failures \/ Fails)
      BY <1>1 DEF Follow, Finish, LocalStep, SSHStep, FinishLocal, FinishSSH, Connect,
         RemoteMissing, ConnectionFails, StatIdle, FlushLost, StatNew, ReadFirst, ReadNew,
         ReadLost, Read
    <2> QED  BY <2>1, FilesStay
  <1>2. CASE LogWrite /\ UNCHANGED <<source, readerVars, failures>>
    <2>1. PICK i \in DOMAIN files, stamp \in BOOLEAN, end \in BOOLEAN : Write(i, stamp, end)
      BY <1>2 DEF LogWrite
    <2>2. i \in 1..Len(files) /\ \E c : NewCell(i, c)
      BY <2>1, WriteIs
    <2>3. Len(written) + failures < MaxCells
      BY <1>2 DEF LogWrite, Room
    <2> QED  BY <1>2, <2>2, <2>3, WriteKeepsFiles
  <1>3. CASE LogMoved /\ UNCHANGED <<source, readerVars, failures>>
    BY <1>3, ReplaceKeepsFiles, UnlinkKeepsFiles DEF LogMoved
  <1>4. CASE LogTruncated /\ UNCHANGED <<source, readerVars, failures>>
    BY <1>4, TruncateKeepsFiles DEF LogTruncated
  <1>5. CASE UNCHANGED vars
    BY <1>5, FilesStay DEF vars
  <1> QED  BY <1>1, <1>2, <1>3, <1>4, <1>5 DEF Next

-----------------------------------------------------------------------------
(* What the follower does with its assembler.                              *)

(* An assembler that takes a payload or is flushed remains one.            *)
LEMMA PlainKept ==
  ASSUME NEW P, NEW a \in Plain(P), NEW payload \in Seq(P)
  PROVE  /\ Consume(a, payload) \in Plain(P)
         /\ FlushAll(a) \in Plain(P)
         /\ FlushAll(a).partial = <<>> /\ FlushAll(a).current = <<>>
  <1>1. PICK Q \in SUBSET P : Q = P
    OBVIOUS
  <1>2. PICK G : G = Lines(P)
    OBVIOUS
  <1>3. Ended(P) \subseteq G /\ Cut(P, Q) \subseteq G
    BY <1>2 DEF Ended, Cut
  <1>4. a \in Assembler(P, Q, G) /\ payload \in Seq(Q)
    BY <1>1, <1>2 DEF Plain
  <1>5. Consume(a, payload) \in Assembler(P, Q, G)
    BY <1>3, <1>4, ConsumeKeeps
  <1>6. /\ FlushAll(a) \in Assembler(P, Q, G)
        /\ FlushAll(a).partial = <<>> /\ FlushAll(a).current = <<>>
    BY <1>3, <1>4, FlushAllKeeps
  <1> QED  BY <1>1, <1>2, <1>5, <1>6 DEF Plain

(* What it keeps is what it has then.                                      *)
LEMMA KeepIs ==
  ASSUME NEW r \in Plain(Cell), Keep(r)
  PROVE  /\ Now' = r
         /\ emitted' = r.out
         /\ buffers' = [partial |-> r.partial, current |-> r.current]
         /\ buffers' \in [partial : Seq(Cell), current : Seq(Cell)]
  <1>1. emitted' = r.out /\ buffers' = [partial |-> r.partial, current |-> r.current]
    BY DEF Keep
  <1>2. Fields(r.partial, r.current, r.out, Cell)
    BY FieldsOf
  <1>3. r = [partial |-> r.partial, current |-> r.current, out |-> r.out]
    BY FieldsOf
  <1>4. r.partial \in Seq(Cell) /\ r.current \in Seq(Cell)
    BY <1>2 DEF Fields
  <1> QED  BY <1>1, <1>3, <1>4 DEF Now

(* Events are added.                                                       *)
LEMMA EventsAdded ==
  ASSUME BuffersInv, NEW more \in Seq(Lines(Cell)), buffers' = buffers, emitted' = emitted \o more
  PROVE  Now' \in Plain(Cell)
  <1>1. PICK P, Q, G : P = Cell /\ Q = Cell /\ G = Lines(Cell)
    OBVIOUS
  <1>2. Now \in Assembler(P, Q, G) /\ more \in Seq(G)
    BY <1>1 DEF BuffersInv, Plain
  <1>3. emitted \in Seq(G)
    BY <1>2 DEF Assembler, Now
  <1>4. emitted' \in Seq(G)
    BY <1>2, <1>3, ConcatProperties
  <1>5. Now' = [partial |-> Now.partial, current |-> Now.current, out |-> emitted']
    BY DEF Now
  <1>6. Now' \in Assembler(P, Q, G)
    BY <1>2, <1>4, <1>5 DEF Assembler
  <1> QED  BY <1>1, <1>6 DEF Plain

(* Nothing pending is left.                                                *)
LEMMA EmptyPlain ==
  ASSUME BuffersInv, buffers' = Empty, NEW q \in Seq(Lines(Cell)), emitted' = q
  PROVE  /\ buffers' \in [partial : Seq(Cell), current : Seq(Cell)]
         /\ Now' \in Plain(Cell)
  <1>1. Now' = [partial |-> <<>>, current |-> <<>>, out |-> q]
    BY DEF Now, Empty
  <1>2. <<>> \in Seq({c \in Cell : ~c.end}) /\ <<>> \in Seq(Cell)
    BY EmptySeq
  <1> QED  BY <1>1, <1>2 DEF Empty, Plain, Assembler

(* What was emitted are lines.                                             *)
LEMMA EmittedType ==
  ASSUME Now \in Plain(Cell)
  PROVE  emitted \in Seq(Lines(Cell))
  BY DEF Now, Plain, Assembler

(* The payload of the first read, without its first line.                  *)
LEMMA KeptIs ==
  ASSUME NEW P, Payload \in Seq(P)
  PROVE  Kept \in Seq(P) /\ \E z \in Seq(P) : Payload = z \o Kept
  <1>1. PICK p : p = Payload
    OBVIOUS
  <1>2. p \in Seq(P) /\ Len(p) \in Nat /\ DOMAIN p = 1..Len(p)
    BY <1>1, LenProperties
  <1>3. <<>> \in Seq(P) /\ p = <<>> \o p /\ p = p \o <<>>
    BY <1>2, EmptySeq, ConcatEmptySeq
  <1>4. PICK ends : ends = {k \in 1..Len(p) : p[k].end}
    OBVIOUS
  <1>5. CASE offset = 0 \/ ends = {}
    <2>1. Kept = p \/ Kept = <<>>
      BY <1>1, <1>2, <1>4, <1>5 DEF Kept
    <2> QED  BY <1>1, <1>2, <1>3, <2>1
  <1>6. CASE offset # 0 /\ ends # {}
    <2>1. PICK m : m = Min(ends)
      OBVIOUS
    <2>2. m \in 1..Len(p)
      <3>1. ends \in SUBSET Nat /\ ends # {}
        BY <1>2, <1>4, <1>6
      <3>2. m \in ends
        BY <2>1, <3>1, MinIsLeast
      <3> QED  BY <1>4, <3>2
    <2>3. Kept = SubSeq(p, m + 1, Len(p))
      BY <1>1, <1>2, <1>4, <1>6, <2>1 DEF Kept
    <2>4. (\A i \in 1..m : p[i] \in P) /\ (\A i \in (m + 1)..Len(p) : p[i] \in P)
      <3>1. (\A i \in 1..m : i \in 1..Len(p)) /\ (\A i \in (m + 1)..Len(p) : i \in 1..Len(p))
        BY <1>2, <2>2
      <3> QED  BY <1>2, <3>1, ElementOfSeq
    <2>5. SubSeq(p, 1, m) \in Seq(P) /\ SubSeq(p, m + 1, Len(p)) \in Seq(P)
      <3>1. 1 \in Int /\ m \in Int /\ m + 1 \in Int /\ Len(p) \in Int
        BY <1>2, <2>2
      <3> QED  BY <2>4, <3>1, SubSeqProperties
    <2>6. SubSeq(p, 1, m) \o SubSeq(p, m + 1, Len(p)) = SubSeq(p, 1, Len(p))
      <3>1. 1 \in 1..(Len(p) + 1) /\ m \in (1 - 1)..Len(p) /\ Len(p) \in m..Len(p)
        BY <1>2, <2>2
      <3> QED  BY <1>2, <3>1, ConcatAdjacentSubSeq
    <2>7. SubSeq(p, 1, Len(p)) = p
      BY <1>2, SubSeqFull
    <2> QED  BY <1>1, <2>3, <2>5, <2>6, <2>7
  <1> QED  BY <1>5, <1>6

-----------------------------------------------------------------------------
(* The buffers hold lines and events after every step.                     *)

(* The events of a tail are lines.                                         *)
LEMMA TailIsLines ==
  ASSUME NEW cells \in Seq(Cell)
  PROVE  TailEvents(cells) \in Seq(Lines(Cell))
  <1>1. PICK Q \in SUBSET Cell : Q = Cell
    OBVIOUS
  <1>2. PICK G : G = Lines(Cell)
    OBVIOUS
  <1>3. Ended(Cell) \subseteq G /\ Cut(Cell, Q) \subseteq G /\ cells \in Seq(Q)
    BY <1>1, <1>2 DEF Ended, Cut
  <1> QED  BY <1>2, <1>3, TailKeeps

(* An assembler that takes a payload, with a flush before, after or not at *)
(* all, is kept.                                                           *)
LEMMA KeepsPlain ==
  ASSUME BuffersInv, NEW payload \in Seq(Cell),
         \/ Keep(Consume(Now, payload))
         \/ Keep(FlushAll(Consume(Now, payload)))
         \/ Keep(Consume(FlushAll(Now), payload))
         \/ Keep(FlushAll(Now))
         \/ Keep(Now)
  PROVE  /\ buffers' \in [partial : Seq(Cell), current : Seq(Cell)]
         /\ Now' \in Plain(Cell)
  <1>1. PICK a \in Plain(Cell) : a = Now
    BY DEF BuffersInv
  <1>2. PICK b \in Plain(Cell) : b = Consume(a, payload)
    BY PlainKept
  <1>3. PICK c \in Plain(Cell) : c = FlushAll(a)
    BY PlainKept
  <1>4. PICK d \in Plain(Cell) : d = FlushAll(b)
    BY PlainKept
  <1>5. PICK e \in Plain(Cell) : e = Consume(c, payload)
    BY PlainKept
  <1>6. PICK r \in Plain(Cell) : Keep(r)
    BY <1>1, <1>2, <1>3, <1>4, <1>5
  <1> QED  BY <1>6, KeepIs

(* Where the follower is tells its kind.                                   *)
LEMMA LocalHere ==
  ASSUME ControlInv
  PROVE  /\ pc \in LocalStates => Local
         /\ pc \in SSHStates => ~Local
         /\ pc \in {"poll", "checked", "switch"} => Local /\ handle # 0
         /\ pc \in {"first", "read"} => ~Local /\ handle # 0
         /\ pc \in {"new", "start", "tail"} => Local /\ handle = 0
         /\ pc \in {"off", "on", "stat"} => ~Local
  BY DEF ControlInv, LocalStates, SSHStates, NoFile, HasFile

(* What is left of a drained file is nothing.                              *)
LEMMA DrainedKept ==
  ASSUME BuffersInv, From(handle, offset) \in Seq(Cell), buffers' = Empty, emitted' = Drained.out
  PROVE  Keep(Drained) /\ Drained \in Plain(Cell)
  <1>1. PICK a \in Plain(Cell) : a = Consume(Now, From(handle, offset))
    BY PlainKept DEF BuffersInv
  <1>2. PICK b \in Plain(Cell) : b = FlushAll(a) /\ b.partial = <<>> /\ b.current = <<>>
    BY PlainKept, EmptySeq
  <1>3. b = Drained
    BY <1>1, <1>2 DEF Drained
  <1> QED  BY <1>2, <1>3 DEF Keep, Empty

(* Every step leaves lines and events in the buffers.                      *)
LEMMA BuffersSafe ==
  ASSUME TypeInv, [Next]_vars
  PROVE  BuffersInv'
  <1> USE DEF TypeInv
  <1>1. BuffersInv /\ FileInv /\ Len(files) \in Nat /\ path \in 0..Len(files)
    BY FileFacts
  <1>2. ASSUME NEW i \in 1..Len(files)
        PROVE  files[i].cells \in Seq(Cell) /\ \A k \in Nat : From(i, k) \in Seq(Cell)
    BY <1>1, <1>2, FileFacts, FromFacts
  <1>3. handle \in 0..Len(files) /\ offset \in Nat /\ (HasFile => handle \in 1..Len(files))
    BY <1>1, FileFacts DEF ControlInv
  <1>4. CASE UNCHANGED <<buffers, emitted, tail>>
    BY <1>1, <1>4 DEF BuffersInv, Now
  <1>5. CASE LocalStep
    <2>1. CASE InitializeMissing
      BY <1>4, <2>1 DEF InitializeMissing
    <2>2. CASE TailUndecodable
      BY <1>4, <2>2 DEF TailUndecodable
    <2>3. CASE ReadTail
      <3>1. TailEvents(files[path].cells) \in Seq(Lines(Cell))
        <4>1. path \in 1..Len(files)
          BY <1>1, <2>3 DEF ReadTail
        <4> QED  BY <1>2, <4>1, TailIsLines
      <3> QED  BY <1>1, <2>3, <3>1 DEF ReadTail, BuffersInv, Now
    <2>4. CASE OpenAfterTail
      <3>1. tail \in Seq(Lines(Cell)) /\ <<>> \in Seq(Lines(Cell))
        BY <1>1, EmptySeq DEF BuffersInv
      <3>2. Now' \in Plain(Cell)
        BY <1>1, <2>4, <3>1, EventsAdded DEF OpenAfterTail
      <3> QED  BY <1>1, <2>4, <3>1, <3>2 DEF OpenAfterTail, BuffersInv
    <2>5. CASE OpenFails
      <3>1. <<>> \in Seq(Lines(Cell))
        BY EmptySeq
      <3> QED  BY <1>1, <2>5, <3>1 DEF OpenFails, BuffersInv, Now
    <2>6. CASE PollMissing
      <3>1. From(handle, offset) \in Seq(Cell)
        <4>1. handle \in 1..Len(files)
          BY <1>1, <1>3, <2>6, LocalHere DEF PollMissing
        <4> QED  BY <1>2, <1>3, <4>1
      <3> QED  BY <1>1, <2>6, <3>1, KeepsPlain DEF PollMissing, BuffersInv
    <2>7. CASE PollExists
      BY <1>4, <2>7 DEF PollExists
    <2>8. CASE PathVanished
      BY <1>4, <2>8 DEF PathVanished
    <2>9. CASE PollRotated
      <3>1. From(handle, offset) \in Seq(Cell)
        <4>1. handle \in 1..Len(files)
          BY <1>1, <1>3, <2>9, LocalHere DEF PollRotated
        <4> QED  BY <1>2, <1>3, <4>1
      <3>2. Keep(Drained)
        BY <1>1, <2>9, <3>1, DrainedKept DEF PollRotated
      <3> QED  BY <1>1, <2>9, <3>1, <3>2, KeepsPlain DEF PollRotated, BuffersInv, Drained
    <2>10. CASE SwitchFile
      <3>1. files[path].cells \in Seq(Cell)
        BY <1>1, <1>2, <2>10 DEF SwitchFile
      <3> QED  BY <1>1, <2>10, <3>1, KeepsPlain DEF SwitchFile, BuffersInv
    <2>11. CASE PollTruncated
      <3>1. files[handle].cells \in Seq(Cell)
        BY <1>1, <1>2, <2>11 DEF PollTruncated
      <3> QED  BY <1>1, <2>11, <3>1, KeepsPlain DEF PollTruncated, BuffersInv
    <2>12. CASE PollFile
      <3>1. From(handle, offset) \in Seq(Cell)
        BY <1>1, <1>2, <1>3, <2>12 DEF PollFile
      <3> QED  BY <1>1, <2>12, <3>1, KeepsPlain DEF PollFile, BuffersInv
    <2>13. CASE PollUndecodable
      BY <1>4, <2>13 DEF PollUndecodable
    <2> QED
      BY <1>5, <2>1, <2>2, <2>3, <2>4, <2>5, <2>6, <2>7, <2>8, <2>9, <2>10, <2>11, <2>12,
         <2>13 DEF LocalStep
  <1>6. <<>> \in Seq(Cell)
    BY EmptySeq
  <1>7. CASE SSHStep
    <2>1. CASE Connect
      BY <1>4, <2>1 DEF Connect
    <2>2. CASE RemoteMissing
      BY <1>4, <2>2 DEF RemoteMissing
    <2>3. CASE ConnectionFails
      BY <1>4, <2>3 DEF ConnectionFails
    <2>4. CASE StatIdle
      <3>1. Keep(Now) \/ Keep(Consume(Now, <<>>))
        BY <2>4 DEF StatIdle, Flushed
      <3> QED  BY <1>1, <1>6, <2>4, <3>1, KeepsPlain DEF StatIdle, Stat, BuffersInv
    <2>5. CASE FlushLost
      <3>1. emitted \in Seq(Lines(Cell))
        BY <1>1, EmittedType DEF BuffersInv
      <3> QED  BY <1>1, <2>5, <3>1, EmptyPlain DEF FlushLost, Stat, BuffersInv
    <2>6. CASE StatNew
      BY <1>4, <2>6 DEF StatNew, Stat
    <2>7. CASE ReadFirst
      <3>1. Payload \in Seq(Cell)
        BY <1>1, <1>2, <1>3, <2>7 DEF ReadFirst, Read, Payload
      <3>2. Kept \in Seq(Cell)
        BY <3>1, KeptIs
      <3>3. FirstEvents \in Seq(Lines(Cell))
        BY <3>2, TailIsLines DEF FirstEvents
      <3>4. Now' \in Plain(Cell)
        BY <1>1, <2>7, <3>3, EventsAdded DEF ReadFirst, Read
      <3> QED  BY <1>1, <2>7, <3>4 DEF ReadFirst, Read, BuffersInv
    <2>8. CASE ReadNew
      <3>1. Payload \in Seq(Cell)
        BY <1>1, <1>2, <1>3, <2>8 DEF ReadNew, Read, Payload
      <3> QED  BY <1>1, <2>8, <3>1, KeepsPlain DEF ReadNew, Read, BuffersInv
    <2>9. CASE ReadLost
      <3>1. Payload \in Seq(Cell)
        BY <1>1, <1>2, <1>3, <2>9 DEF ReadLost, Payload
      <3>2. CASE buffers' = buffers
        BY <1>4, <2>9, <3>2 DEF ReadLost
      <3>3. CASE /\ buffers' = [partial |-> Consume(Now, Payload).partial,
                                current |-> Consume(Now, Payload).current]
                 /\ emitted' = emitted
        <4>1. PICK a \in Plain(Cell) : a = Consume(Now, Payload)
          BY <1>1, <3>1, PlainKept DEF BuffersInv
        <4>2. /\ buffers' = [partial |-> a.partial, current |-> a.current]
              /\ Fields(a.partial, a.current, a.out, Cell)
          BY <3>3, <4>1, FieldsOf
        <4>3. buffers' \in [partial : Seq(Cell), current : Seq(Cell)]
          BY <4>2 DEF Fields
        <4>4. Now' = [partial |-> a.partial, current |-> a.current, out |-> emitted]
          BY <3>3, <4>2 DEF Now
        <4>5. emitted \in Seq(Lines(Cell))
          BY <1>1, EmittedType DEF BuffersInv
        <4>6. Now' \in Plain(Cell)
          BY <4>1, <4>4, <4>5 DEF Plain, Assembler
        <4> QED  BY <1>1, <2>9, <4>3, <4>6 DEF ReadLost, BuffersInv
      <3> QED  BY <2>9, <3>2, <3>3 DEF ReadLost
    <2> QED  BY <1>7, <2>1, <2>2, <2>3, <2>4, <2>5, <2>6, <2>7, <2>8, <2>9 DEF SSHStep
  <1>8. CASE FinishLocal \/ FinishSSH
    BY <1>1, <1>6, <1>8, KeepsPlain DEF FinishLocal, FinishSSH, BuffersInv
  <1>9. CASE UNCHANGED readerVars
    BY <1>4, <1>9 DEF readerVars
  <1>10. CASE UNCHANGED vars
    BY <1>9, <1>10 DEF vars
  <1> QED  BY <1>5, <1>7, <1>8, <1>9, <1>10 DEF Next, Follow, Finish

-----------------------------------------------------------------------------
(* The variables that control the follower keep their ranges.              *)

(* A read ends at the end of the file, or where it began.                  *)
LEMMA PlaceFacts ==
  ASSUME FileInv, NEW i, i \in 1..Len(files), NEW k, k \in 0..Len(written)
  PROVE  /\ ReadTo(i, k) = IF k <= Size(i) THEN Size(i) ELSE k
         /\ ReadTo(i, k) \in 0..Len(written)
         /\ Unfinished(i, k) \in 0..Len(written)
         /\ \A held \in 0..Len(written) : DecoderAfter(held, i, k) \in 0..Len(written)
         /\ k \in Nat /\ Size(i) \in 0..Len(written)
  <1>1. k \in Nat /\ Len(written) \in Nat /\ Size(i) \in Nat /\ Size(i) <= Len(written)
    BY FileFacts
  <1>2. Len(From(i, k)) = IF k <= Size(i) THEN Size(i) - k ELSE 0
    BY <1>1, FromFacts
  <1>3. ReadTo(i, k) = IF k <= Size(i) THEN Size(i) ELSE k
    BY <1>1, <1>2 DEF ReadTo
  <1>4. ASSUME NEW m \in Nat PROVE Unfinished(i, m) \in 0..Len(written)
    <2>1. m \in 1..Size(i) => files[i].cells[m].id \in 1..Len(written)
      BY <1>1 DEF FileInv, Content, Size
    <2>2. UnendedAt(i, m) => m \in 1..Size(i)
      BY <1>1 DEF UnendedAt
    <2> QED  BY <1>1, <2>1, <2>2 DEF Unfinished
  <1> QED  BY <1>1, <1>3, <1>4 DEF DecoderAfter

\* What a step of the follower does not touch, and what it may count on.
Still ==
    /\ source' = source /\ files' = files /\ path' = path /\ written' = written
    /\ generation' = generation

(* A step of the follower leaves the files alone.                          *)
LEMMA StillIs ==
  ASSUME UNCHANGED <<source, fileVars>>
  PROVE  /\ Still
         /\ \A i : Size(i)' = Size(i)
         /\ Local' = Local
  BY DEF fileVars, Still, Size, Local

(* The steps of LocalFileFollower.                                         *)
LEMMA ControlSafeLocal ==
  ASSUME TypeInv, LocalStep
  PROVE  ControlInv'
  <1>1. FileInv /\ ControlInv
    BY DEF TypeInv
  <1>2. Still /\ Local' = Local
    BY StillIs DEF LocalStep
  <1>3. /\ Len(files) \in Nat /\ Len(written) \in Nat /\ generation \in Nat
        /\ path \in 0..Len(files) /\ offset \in 0..Len(written)
        /\ decoder \in 0..Len(written) /\ handle \in 0..Len(files)
        /\ reading \in 0..generation /\ since \in 0..Len(written)
    BY <1>1, FileFacts DEF ControlInv
  <1>4. \A i \in 1..Len(files) :
            /\ files[i].gen \in 0..generation
            /\ Size(i) \in 0..Len(written)
            /\ ReadTo(i, offset) \in 0..Len(written)
            /\ Unfinished(i, Size(i)) \in 0..Len(written)
            /\ DecoderAfter(decoder, i, offset) \in 0..Len(written)
            /\ DecoderAfter(0, i, 0) \in 0..Len(written)
    <2>1. ASSUME NEW i \in 1..Len(files)
          PROVE  /\ files[i].gen \in 0..generation
                 /\ Size(i) \in 0..Len(written)
      BY <1>1, <1>3, FileFacts, SMTT(30) DEF FileInv
    <2>2. ASSUME NEW i \in 1..Len(files)
          PROVE  /\ ReadTo(i, offset) \in 0..Len(written)
                 /\ DecoderAfter(decoder, i, offset) \in 0..Len(written)
      BY <1>1, <1>3, <2>2, PlaceFacts
    <2>3. ASSUME NEW i \in 1..Len(files)
          PROVE  /\ Unfinished(i, Size(i)) \in 0..Len(written)
                 /\ DecoderAfter(0, i, 0) \in 0..Len(written)
      <3>1. 0 \in 0..Len(written)
        BY <1>3
      <3> QED  BY <1>1, <2>1, <2>3, <3>1, PlaceFacts
    <2> QED  BY <2>1, <2>2, <2>3
  <1>5. path # 0 => path \in 1..Len(files)
    BY <1>3
  <1>6. /\ pc \in {"poll", "checked", "switch"} => Local /\ handle # 0 /\ handle \in 1..Len(files)
        /\ pc \in {"new", "start", "tail"} => Local /\ handle = 0
    BY <1>1, <1>3, LocalHere
  <1>7. /\ pc # "tail" => tail = <<>>
        /\ surprises \subseteq Surprise
        /\ handle # 0 => reading <= files[handle].gen
    BY <1>1 DEF ControlInv
  <1> USE DEF Still, LocalStates, NoFile, HasFile
  <1>8. CASE InitializeMissing
    BY <1>2, <1>3, <1>6, <1>7, <1>8 DEF InitializeMissing, Uninitialized, ControlInv
  <1>9. CASE TailUndecodable
    BY <1>2, <1>3, <1>6, <1>7, <1>9 DEF TailUndecodable, Uninitialized, ControlInv
  <1>10. CASE ReadTail
    <2>1. surprises' \subseteq Surprise
      BY <1>7, <1>10 DEF ReadTail, Surprised, Surprise
    <2> QED  BY <1>2, <1>3, <1>6, <1>7, <1>10, <2>1 DEF ReadTail, Uninitialized, ControlInv
  <1>11. CASE OpenAfterTail
    <2>1. /\ handle' \in 1..Len(files) /\ offset' \in 0..Len(written)
          /\ reading' \in 0..generation /\ reading' <= files[handle'].gen
      BY <1>3, <1>4, <1>5, <1>11 DEF OpenAfterTail, OpenAt
    <2> QED  BY <1>2, <1>3, <1>6, <1>7, <1>11, <2>1 DEF OpenAfterTail, ControlInv
  <1>12. CASE OpenFails
    BY <1>2, <1>3, <1>6, <1>7, <1>12 DEF OpenFails, ControlInv
  <1>13. CASE PollMissing
    <2>1. surprises' \subseteq Surprise
      BY <1>7, <1>13 DEF PollMissing, Surprised, Surprise, Unseen
    <2>2. offset' \in 0..Len(written) /\ decoder' \in 0..Len(written)
      BY <1>4, <1>6, <1>13 DEF PollMissing
    <2> QED  BY <1>2, <1>3, <1>6, <1>7, <1>13, <2>1, <2>2 DEF PollMissing, ControlInv
  <1>14. CASE PollExists
    BY <1>2, <1>3, <1>6, <1>7, <1>14 DEF PollExists, ControlInv
  <1>15. CASE PathVanished
    <2>1. surprises' \subseteq Surprise
      BY <1>7, <1>15 DEF PathVanished, Surprised, Surprise
    <2> QED  BY <1>2, <1>3, <1>6, <1>7, <1>15, <2>1 DEF PathVanished, ControlInv
  <1>16. CASE PollRotated
    <2>1. surprises' \subseteq Surprise
      BY <1>7, <1>16 DEF PollRotated, Surprised, Surprise, Unseen
    <2>2. offset' \in 0..Len(written) /\ decoder' \in 0..Len(written)
      BY <1>3, <1>4, <1>6, <1>16, SMTT(30) DEF PollRotated
    <2> QED  BY <1>2, <1>3, <1>6, <1>7, <1>16, <2>1, <2>2 DEF PollRotated, ControlInv
  <1>17. CASE SwitchFile
    <2>1. /\ handle' \in 1..Len(files) /\ offset' \in 0..Len(written)
          /\ decoder' \in 0..Len(written)
          /\ reading' \in 0..generation /\ reading' <= files[handle'].gen
      BY <1>3, <1>4, <1>5, <1>17 DEF SwitchFile
    <2> QED  BY <1>2, <1>3, <1>6, <1>7, <1>17, <2>1 DEF SwitchFile, ControlInv
  <1>18. CASE PollTruncated
    <2>1. /\ offset' \in 0..Len(written) /\ decoder' \in 0..Len(written)
          /\ reading' \in 0..generation /\ reading' <= files[handle].gen
      BY <1>3, <1>4, <1>6, <1>18 DEF PollTruncated
    <2> QED  BY <1>2, <1>3, <1>6, <1>7, <1>18, <2>1 DEF PollTruncated, ControlInv
  <1>19. CASE PollFile
    <2>1. surprises' \subseteq Surprise
      BY <1>7, <1>19 DEF PollFile, Surprised, Surprise, Unseen
    <2>2. /\ offset' \in 0..Len(written) /\ decoder' \in 0..Len(written)
          /\ reading' \in 0..generation /\ reading' <= files[handle].gen
      BY <1>3, <1>4, <1>6, <1>19 DEF PollFile
    <2> QED  BY <1>2, <1>3, <1>6, <1>7, <1>19, <2>1, <2>2 DEF PollFile, ControlInv
  <1>20. CASE PollUndecodable
    <2>1. surprises' \subseteq Surprise
      BY <1>7, <1>20 DEF PollUndecodable, Surprised, Surprise
    <2>2. pc \in {"poll", "checked"} /\ offset' \in 0..Len(written)
      BY <1>3, <1>4, <1>6, <1>20 DEF PollUndecodable
    <2> QED  BY <1>2, <1>3, <1>6, <1>7, <1>20, <2>1, <2>2 DEF PollUndecodable, ControlInv
  <1> QED
    BY <1>8, <1>9, <1>10, <1>11, <1>12, <1>13, <1>14, <1>15, <1>16, <1>17, <1>18, <1>19,
       <1>20 DEF LocalStep

(* Where a stat puts the offset.                                           *)
LEMMA StatFacts ==
  ASSUME TypeInv, path # 0
  PROVE  /\ StatOffset \in 0..Len(written)
         /\ handle = 0 \/ StatOffset \in {0, offset}
         /\ path \in 1..Len(files) /\ path = Len(files)
  <1>1. FileInv /\ ControlInv
    BY DEF TypeInv
  <1>2. path \in 1..Len(files) /\ path = Len(files) /\ Len(written) \in Nat
    BY <1>1, FileFacts DEF FileInv
  <1>3. Size(path) \in Nat /\ Size(path) <= Len(written) /\ offset \in 0..Len(written)
    BY <1>1, <1>2, FileFacts DEF ControlInv
  <1>4. Window \in Nat
    BY WindowAssumption
  <1> QED  BY <1>2, <1>3, <1>4 DEF StatOffset

(* The steps of SSHFileFollower.                                           *)
LEMMA ControlSafeSSH ==
  ASSUME TypeInv, SSHStep
  PROVE  ControlInv'
  <1>1. FileInv /\ ControlInv
    BY DEF TypeInv
  <1>2. Still /\ Local' = Local
    BY StillIs DEF SSHStep
  <1>3. /\ Len(files) \in Nat /\ Len(written) \in Nat /\ generation \in Nat
        /\ path \in 0..Len(files) /\ offset \in 0..Len(written)
        /\ decoder \in 0..Len(written) /\ handle \in 0..Len(files)
        /\ reading \in 0..generation /\ since \in 0..Len(written)
    BY <1>1, FileFacts DEF ControlInv
  <1>4. path # 0 =>
            /\ path \in 1..Len(files) /\ files[path].gen \in 0..generation
            /\ offset + Len(Payload) \in 0..Len(written)
            /\ StatOffset \in 0..Len(written)
    <2>1. path # 0 => path \in 1..Len(files)
      BY <1>3
    <2>2. path # 0 => files[path].gen \in 0..generation
      BY <1>1, <1>3, <2>1, FileFacts, SMTT(30) DEF FileInv
    <2>3. path # 0 => offset + Len(From(path, offset)) \in 0..Len(written)
      <3>1. path # 0 => Len(From(path, offset)) = IF offset <= Size(path) THEN Size(path) - offset ELSE 0
        <4>1. offset \in Nat
          BY <1>3
        <4> QED  BY <1>1, <2>1, <4>1, FromFacts
      <3>2. path # 0 => Size(path) \in 0..Len(written)
        BY <1>1, <1>3, <2>1, PlaceFacts
      <3> QED  BY <1>3, <3>1, <3>2
    <2> QED  BY <2>1, <2>2, <2>3, StatFacts DEF Payload
  <1>5. /\ pc \in {"first", "read"} => ~Local /\ handle # 0
        /\ pc \in {"off", "on", "stat"} => ~Local
    BY <1>1, LocalHere
  <1>6. /\ pc # "tail" => tail = <<>>
        /\ surprises \subseteq Surprise
        /\ handle # 0 => reading <= files[handle].gen
    BY <1>1 DEF ControlInv
  <1>7. Stat => /\ handle' = path /\ handle' \in 1..Len(files) /\ offset' \in 0..Len(written)
                /\ reading' \in 0..generation /\ reading' = files[handle'].gen
                /\ since' \in 0..Len(written) /\ decoder' = decoder /\ tail' = tail
                /\ ~Local /\ pc # "tail" /\ pc \in {"stat", "on"}
    BY <1>2, <1>3, <1>4, <1>5 DEF Stat, AtStat, Still
  <1>8. Entered \subseteq Surprise
    BY DEF Entered, Surprise
  <1> USE DEF Still, SSHStates, NoFile, HasFile
  <1>9. CASE Connect
    BY <1>2, <1>3, <1>5, <1>6, <1>9 DEF Connect, ControlInv
  <1>10. CASE RemoteMissing
    BY <1>2, <1>3, <1>5, <1>6, <1>10 DEF RemoteMissing, AtStat, ControlInv
  <1>11. CASE ConnectionFails
    BY <1>2, <1>3, <1>5, <1>6, <1>11 DEF ConnectionFails, AtStat, ControlInv
  <1>12. CASE StatIdle
    <2>1. Stat /\ pc' = "on" /\ surprises' \subseteq Surprise
      BY <1>6, <1>8, <1>12 DEF StatIdle, Surprised
    <2> QED  BY <1>2, <1>3, <1>6, <1>7, <2>1 DEF ControlInv
  <1>13. CASE FlushLost
    <2>1. Stat /\ pc' = "off" /\ surprises' \subseteq Surprise
      BY <1>6, <1>8, <1>13 DEF FlushLost, Surprised, Surprise
    <2> QED  BY <1>2, <1>3, <1>6, <1>7, <2>1 DEF ControlInv
  <1>14. CASE StatNew
    <2>1. Stat /\ pc' \in {"first", "read"} /\ surprises' \subseteq Surprise
      BY <1>6, <1>8, <1>14 DEF StatNew, Surprised
    <2> QED  BY <1>2, <1>3, <1>6, <1>7, <2>1 DEF ControlInv
  <1>15. CASE ReadFirst
    <2>1. /\ pc' = "on" /\ surprises' \subseteq Surprise /\ offset' \in 0..Len(written)
          /\ UNCHANGED <<handle, reading, decoder, tail>> /\ since' \in 0..Len(written)
      BY <1>3, <1>4, <1>6, <1>15 DEF ReadFirst, Read, Surprised, Surprise
    <2> QED  BY <1>2, <1>3, <1>5, <1>6, <1>15, <2>1 DEF ReadFirst, ControlInv
  <1>16. CASE ReadNew
    <2>1. /\ pc' = "on" /\ offset' \in 0..Len(written)
          /\ UNCHANGED <<handle, reading, decoder, tail, since, surprises>>
      BY <1>3, <1>4, <1>16 DEF ReadNew, Read
    <2> QED  BY <1>2, <1>3, <1>5, <1>6, <1>16, <2>1 DEF ReadNew, ControlInv
  <1>17. CASE ReadLost
    <2>1. /\ pc' = "off" /\ surprises' \subseteq Surprise /\ offset' \in 0..Len(written)
          /\ UNCHANGED <<handle, reading, decoder, tail, since>>
      BY <1>3, <1>4, <1>6, <1>17 DEF ReadLost, Surprised, Surprise
    <2> QED  BY <1>2, <1>3, <1>5, <1>6, <1>17, <2>1 DEF ReadLost, ControlInv
  <1> QED
    BY <1>9, <1>10, <1>11, <1>12, <1>13, <1>14, <1>15, <1>16, <1>17 DEF SSHStep

(* Every step keeps the control variables in their ranges.                 *)
LEMMA ControlSafe ==
  ASSUME TypeInv, [Next]_vars
  PROVE  ControlInv'
  <1>1. FileInv /\ ControlInv
    BY DEF TypeInv
  <1>2. /\ Len(files) \in Nat /\ Len(written) \in Nat /\ generation \in Nat
        /\ offset \in 0..Len(written) /\ decoder \in 0..Len(written)
        /\ handle \in 0..Len(files) /\ reading \in 0..generation /\ since \in 0..Len(written)
        /\ \A i \in 1..Len(files) : files[i].gen \in Nat /\ files[i].gen <= generation
    BY <1>1, FileFacts DEF ControlInv, FileInv
  <1>3. CASE LocalStep
    BY <1>3, ControlSafeLocal
  <1>4. CASE SSHStep
    BY <1>4, ControlSafeSSH
  <1>5. CASE FinishLocal \/ FinishSSH
    <2>1. Still /\ Local' = Local
      BY <1>5, StillIs DEF FinishLocal, FinishSSH
    <2>2. /\ UNCHANGED <<handle, offset, reading, since, decoder, tail, surprises>>
          /\ pc' = "done" /\ pc \in {"start", "poll", "off", "on"}
      BY <1>5 DEF FinishLocal, FinishSSH
    <2> QED  BY <1>1, <2>1, <2>2 DEF ControlInv, Still, NoFile, HasFile
  <1>6. ASSUME UNCHANGED <<source, readerVars>>, surprises' \subseteq Surprise,
               Len(files') \in Nat, Len(files') >= Len(files),
               Len(written') \in Nat, Len(written') >= Len(written),
               generation' \in Nat, generation' >= generation,
               \A i \in 1..Len(files) : files'[i].gen \in Nat /\ files'[i].gen >= files[i].gen
        PROVE  ControlInv'
    <2>1. /\ handle' \in 0..Len(files') /\ offset' \in 0..Len(written')
          /\ reading' \in 0..generation' /\ since' \in 0..Len(written')
          /\ decoder' \in 0..Len(written')
      BY <1>2, <1>6 DEF readerVars
    <2>2. handle' # 0 => reading' <= files'[handle'].gen
      <3>1. handle # 0 => handle \in 1..Len(files) /\ reading <= files[handle].gen
        BY <1>1, <1>2 DEF ControlInv
      <3> QED  BY <1>2, <1>6, <3>1, SMTT(30) DEF readerVars
    <2> QED  BY <1>1, <1>6, <2>1, <2>2 DEF ControlInv, readerVars, Local, NoFile, HasFile
  <1>7. /\ surprises \subseteq Surprise
        /\ \A m : Misses(m) \subseteq Surprise
    BY <1>1 DEF ControlInv, Misses, LocalMisses, SSHMisses, Surprise
  <1>8. CASE LogWrite /\ UNCHANGED <<source, readerVars, failures>>
    <2>1. PICK i \in DOMAIN files, stamp \in BOOLEAN, end \in BOOLEAN : Write(i, stamp, end)
      BY <1>8 DEF LogWrite
    <2>2. i \in 1..Len(files) /\ \E c : NewCell(i, c)
      BY <1>1, <2>1, WriteIs
    <2>3. PICK c : NewCell(i, c)
      BY <2>2
    <2>4. surprises' \subseteq Surprise
      BY <1>7, <1>8 DEF LogWrite, Surprised, Surprise
    <2>5. Len(written') = Len(written) + 1
      BY <1>1, <2>3, AppendProperties DEF NewCell, FileInv
    <2>6. /\ Len(files') = Len(files) /\ generation' = generation
          /\ \A j \in 1..Len(files) : files'[j].gen = files[j].gen
      BY <2>3 DEF NewCell, WithCell
    <2> QED  BY <1>2, <1>6, <1>8, <2>4, <2>5, <2>6
  <1>9. CASE LogMoved /\ UNCHANGED <<source, readerVars, failures>>
    <2>1. surprises' \subseteq Surprise
      BY <1>7, <1>9 DEF LogMoved, Surprised
    <2>2. CASE Replace
      <3>1. /\ generation' = generation + 1 /\ written' = written
            /\ Len(files') = Len(files) + 1
            /\ \A j \in 1..Len(files) : files'[j] = files[j]
        BY <1>1, <2>2, ReplaceIs
      <3> QED  BY <1>2, <1>6, <1>9, <2>1, <3>1
    <2>3. CASE Unlink
      <3>1. UNCHANGED <<files, written, generation>>
        BY <2>3, UnlinkIs
      <3> QED  BY <1>2, <1>6, <1>9, <2>1, <3>1
    <2> QED  BY <1>9, <2>2, <2>3 DEF LogMoved
  <1>10. CASE LogTruncated /\ UNCHANGED <<source, readerVars, failures>>
    <2>1. surprises' \subseteq Surprise
      BY <1>7, <1>10 DEF LogTruncated, Surprised, Surprise
    <2>2. /\ generation' = generation + 1 /\ written' = written
          /\ Len(files') = Len(files)
          /\ \A j \in 1..Len(files) : files'[j] = IF j = path THEN Blank ELSE files[j]
      BY <1>1, <1>10, TruncateIs DEF LogTruncated
    <2>3. \A j \in 1..Len(files) : files'[j].gen \in Nat /\ files'[j].gen >= files[j].gen
      BY <1>2, <2>2, SMTT(30) DEF Blank
    <2> QED  BY <1>2, <1>6, <1>10, <2>1, <2>2, <2>3
  <1>11. CASE UNCHANGED vars
    BY <1>1, <1>11 DEF vars, ControlInv, fileVars, readerVars, Local, NoFile, HasFile
  <1> QED
    BY <1>3, <1>4, <1>5, <1>8, <1>9, <1>10, <1>11 DEF Next, Follow, Finish

(* It holds at first.                                                      *)
LEMMA TypeInit == Init => TypeInv
  <1> SUFFICES ASSUME Init PROVE TypeInv
    OBVIOUS
  <1>1. <<>> \in Seq(File) /\ <<>> \in Seq(Cell) /\ <<>> \in Seq(Lines(Cell)) /\ Len(<<>>) = 0
    BY EmptySeq
  <1>2. MaxCells \in Nat /\ MaxGenerations \in Nat /\ MaxFailures \in Nat
    BY BoundAssumption, WindowAssumption
  <1>3. FileInv
    BY <1>1, <1>2 DEF Init, FileInv
  <1>4. BuffersInv
    <2>1. Now = NewAssembler
      BY DEF Init, Now, Empty, NewAssembler
    <2> QED  BY <1>1, <2>1, NewAssemblerKeeps DEF Init, BuffersInv, Plain, Empty
  <1>5. ControlInv
    BY <1>1 DEF Init, ControlInv, Local, LocalStates, SSHStates, NoFile, HasFile
  <1> QED  BY <1>3, <1>4, <1>5 DEF TypeInv

(* It holds after every step.                                              *)
LEMMA TypeSafe == TypeInv /\ [Next]_vars => TypeInv'
  BY FileSafe, BuffersSafe, ControlSafe DEF TypeInv

(* Every variable stays in its range, for any sources and bounds.          *)
LEMMA TypeImplied == TypeInv => TypeOK
  <1> SUFFICES ASSUME TypeInv PROVE TypeOK
    OBVIOUS
  <1>1. FileInv /\ BuffersInv /\ ControlInv
    BY DEF TypeInv
  <1>2. source \in Sources /\ written \in Seq(Cell) /\ failures \in 0..MaxFailures
    BY <1>1 DEF FileInv
  <1>3. path \in 0..Len(files) /\ Len(written) <= MaxCells /\ Len(written) \in Nat /\ MaxCells \in Nat
    BY <1>1, FileFacts
  <1>4. offset \in 0..MaxCells
    BY <1>1, <1>3 DEF ControlInv
  <1>5. buffers.partial # <<>> => ~Last(buffers.partial).end
    <2>1. PICK Q : Q = {c \in Cell : ~c.end}
      OBVIOUS
    <2>2. buffers.partial \in Seq(Q)
      BY <1>1, <2>1 DEF BuffersInv, Now, Plain, Assembler
    <2>3. buffers.partial # <<>> => Last(buffers.partial) \in Q
      BY <2>2, EmptySeq, ElementOfSeq DEF Last
    <2> QED  BY <2>1, <2>3
  <1>6. buffers.current # <<>> => Head(buffers.current).stamp
    BY <1>1 DEF BuffersInv, Now, Plain, Assembler
  <1> QED  BY <1>1, <1>2, <1>3, <1>4, <1>5, <1>6 DEF TypeOK, ControlInv

(* Every variable stays in its range, a partial line has no end and a      *)
(* pending event begins with a timestamp, for any sources and bounds.      *)
THEOREM TypeCorrect == Spec => []TypeOK
  <1>1. Spec => []TypeInv
    BY TypeInit, TypeSafe, PTL DEF Spec
  <1> QED  BY <1>1, TypeImplied, PTL

-----------------------------------------------------------------------------
(* The partial line, and the events that are given out.                    *)

(* A sequence is one over any set that has its elements.                   *)
LEMMA SeqOver ==
  ASSUME NEW S, NEW T, NEW q \in Seq(S), ToSet(q) \subseteq T
  PROVE  q \in Seq(T)
  <1>1. Len(q) \in Nat /\ q \in [1..Len(q) -> S] /\ DOMAIN q = 1..Len(q)
    BY LenProperties
  <1>2. \A i \in 1..Len(q) : q[i] \in T
    BY <1>1 DEF ToSet
  <1>3. q \in [1..Len(q) -> T]
    BY <1>1, <1>2
  <1> QED  BY <1>1, <1>3, SeqDef

(* The elements of a sequence over S are in S.                             *)
LEMMA ElementsOf ==
  ASSUME NEW S, NEW q \in Seq(S)
  PROVE  ToSet(q) \subseteq S /\ q \in Seq(ToSet(q))
  <1>1. ToSet(q) \subseteq S
    <2>1. DOMAIN q = 1..Len(q)
      BY LenProperties
    <2> QED  BY <2>1, ElementOfSeq DEF ToSet
  <1> QED  BY <1>1, SeqOver

(* An assembler is one of the cells and events that it holds.              *)
LEMMA AssemblerOf ==
  ASSUME NEW P, NEW Q, NEW G, NEW a \in Plain(Cell),
         ToSet(a.partial) \subseteq Q, ToSet(a.current) \subseteq P, ToSet(a.out) \subseteq G
  PROVE  a \in Assembler(P, Q, G)
  <1>1. PICK R : R = {c \in Cell : ~c.end}
    OBVIOUS
  <1>2. /\ a.partial \in Seq(R) /\ a.current \in Seq(Cell) /\ a.out \in Seq(Lines(Cell))
        /\ a.current # <<>> => Head(a.current).stamp /\ Last(a.current).end
        /\ a = [partial |-> a.partial, current |-> a.current, out |-> a.out]
    BY <1>1 DEF Plain, Assembler
  <1>3. ToSet(a.partial) \subseteq {c \in Q : ~c.end}
    BY <1>1, <1>2, ElementsOf
  <1>4. a.partial \in Seq({c \in Q : ~c.end}) /\ a.current \in Seq(P) /\ a.out \in Seq(G)
    BY <1>2, <1>3, SeqOver
  <1> QED  BY <1>2, <1>4 DEF Assembler

\* Events of E, or that end with a line.
OrEnded(E) == {e \in Lines(Cell) : e \in E \/ Last(e).end}

(* The partial line has cells it had, or of the payload; what is given out *)
(* ends with a line.                                                       *)
LEMMA ConsumeAdds ==
  ASSUME NEW a \in Plain(Cell), NEW payload \in Seq(Cell)
  PROVE  /\ ToSet(Consume(a, payload).partial) \subseteq ToSet(a.partial) \cup ToSet(payload)
         /\ \A e \in ToSet(Consume(a, payload).out) : e \in ToSet(a.out) \/ Last(e).end
  <1>1. PICK Q, G : Q = ToSet(a.partial) \cup ToSet(payload) /\ G = OrEnded(ToSet(a.out))
    OBVIOUS
  <1>2. /\ a.partial \in Seq(Cell) /\ a.current \in Seq(Cell) /\ a.out \in Seq(Lines(Cell))
    BY FieldsOf DEF Fields, Plain, Assembler
  <1>3. /\ ToSet(a.partial) \subseteq Cell /\ ToSet(payload) \subseteq Cell
        /\ ToSet(a.current) \subseteq Cell /\ ToSet(a.out) \subseteq Lines(Cell)
    BY <1>2, ElementsOf
  <1>4. Q \in SUBSET Cell /\ ToSet(a.partial) \subseteq Q /\ ToSet(payload) \subseteq Q
    BY <1>1, <1>3
  <1>5. Ended(Cell) \subseteq G /\ ToSet(a.out) \subseteq G
    BY <1>1, <1>3 DEF OrEnded, Ended
  <1>6. a \in Assembler(Cell, Q, G)
    BY <1>3, <1>4, <1>5, AssemblerOf
  <1>7. payload \in Seq(Q)
    BY <1>4, SeqOver
  <1>8. PICK b \in Assembler(Cell, Q, G) : b = Consume(a, payload)
    BY <1>4, <1>5, <1>6, <1>7, ConsumeKeeps
  <1>9. PICK R : R = {c \in Q : ~c.end}
    OBVIOUS
  <1>10. b.partial \in Seq(R) /\ b.out \in Seq(G)
    BY <1>9 DEF Assembler
  <1>11. ToSet(b.partial) \subseteq R /\ ToSet(b.out) \subseteq G
    BY <1>10, ElementsOf
  <1> QED  BY <1>1, <1>8, <1>9, <1>11 DEF OrEnded

(* Flushing everything may cut the partial line.                           *)
LEMMA FlushAllAdds ==
  ASSUME NEW a \in Plain(Cell)
  PROVE  /\ ToSet(FlushAll(a).partial) = {}
         /\ \A e \in ToSet(FlushAll(a).out) :
                e \in ToSet(a.out) \/ Last(e).end \/ Last(e) \in ToSet(a.partial)
  <1>1. PICK Q, G : Q = ToSet(a.partial) /\ G = OrEnded(ToSet(a.out) \cup Cut(Cell, Q))
    OBVIOUS
  <1>2. /\ a.partial \in Seq(Cell) /\ a.current \in Seq(Cell) /\ a.out \in Seq(Lines(Cell))
    BY FieldsOf DEF Fields, Plain, Assembler
  <1>3. /\ ToSet(a.partial) \subseteq Cell
        /\ ToSet(a.current) \subseteq Cell /\ ToSet(a.out) \subseteq Lines(Cell)
    BY <1>2, ElementsOf
  <1>4. Q \in SUBSET Cell /\ ToSet(a.partial) \subseteq Q
    BY <1>1, <1>3
  <1>5. Ended(Cell) \subseteq G /\ ToSet(a.out) \subseteq G /\ Cut(Cell, Q) \subseteq G
    BY <1>1, <1>3 DEF OrEnded, Ended, Cut
  <1>6. a \in Assembler(Cell, Q, G)
    BY <1>3, <1>4, <1>5, AssemblerOf
  <1>7. PICK b \in Assembler(Cell, Q, G) : b = FlushAll(a) /\ b.partial = <<>>
    BY <1>4, <1>5, <1>6, FlushAllKeeps
  <1>8. ToSet(b.out) \subseteq G
    BY ElementsOf DEF Assembler
  <1>9. ToSet(<<>>) = {}
    BY DEF ToSet
  <1> QED  BY <1>1, <1>7, <1>8, <1>9 DEF OrEnded, Cut

-----------------------------------------------------------------------------
(* An unended line waits for its end.                                     *)

(* What a payload adds to the buffers and to what is emitted.              *)
LEMMA ConsumeKept ==
  ASSUME BuffersInv, NEW payload \in Seq(Cell), Keep(Consume(Now, payload))
  PROVE  /\ ToSet(buffers.partial)' \subseteq ToSet(buffers.partial) \cup ToSet(payload)
         /\ \A e \in ToSet(emitted)' : e \in ToSet(emitted) \/ Last(e).end
  <1>1. PICK a \in Plain(Cell) : a = Now
    BY DEF BuffersInv
  <1>2. PICK b \in Plain(Cell) : b = Consume(a, payload)
    BY PlainKept
  <1>3. Keep(b)
    BY <1>1, <1>2
  <1>4. buffers' = [partial |-> b.partial, current |-> b.current] /\ emitted' = b.out
    BY <1>3 DEF Keep
  <1>5. a.partial = buffers.partial /\ a.out = emitted
    BY <1>1 DEF Now
  <1>6. /\ ToSet(b.partial) \subseteq ToSet(a.partial) \cup ToSet(payload)
        /\ \A e \in ToSet(b.out) : e \in ToSet(a.out) \/ Last(e).end
    BY <1>2, ConsumeAdds
  <1>7. ToSet(buffers.partial)' = ToSet(b.partial) /\ ToSet(emitted)' = ToSet(b.out)
    <2>1. buffers'.partial = b.partial
      BY <1>4
    <2> QED  BY <1>4, <2>1
  <1> QED  BY <1>5, <1>6, <1>7

(* A flush, after a payload or without one, may cut the partial line.      *)
LEMMA FlushKept ==
  ASSUME BuffersInv, NEW payload \in Seq(Cell),
         Keep(FlushAll(Consume(Now, payload))) \/ Keep(FlushAll(Now))
  PROVE  /\ ToSet(buffers.partial)' = {}
         /\ \A e \in ToSet(emitted)' :
                \/ e \in ToSet(emitted)
                \/ Last(e).end
                \/ Last(e) \in ToSet(buffers.partial) \cup ToSet(payload)
  <1>1. PICK a \in Plain(Cell) : a = Now
    BY DEF BuffersInv
  <1>2. PICK b \in Plain(Cell) : b = Consume(a, payload)
    BY PlainKept
  <1>3. /\ ToSet(b.partial) \subseteq ToSet(a.partial) \cup ToSet(payload)
        /\ \A e \in ToSet(b.out) : e \in ToSet(a.out) \/ Last(e).end
    BY <1>2, ConsumeAdds
  <1>4. PICK d \in Plain(Cell) : Keep(FlushAll(d)) /\ (d = a \/ d = b)
    BY <1>1, <1>2
  <1>5. PICK f \in Plain(Cell) : f = FlushAll(d)
    BY PlainKept
  <1>6. /\ ToSet(f.partial) = {}
        /\ \A e \in ToSet(f.out) : e \in ToSet(d.out) \/ Last(e).end \/ Last(e) \in ToSet(d.partial)
    BY <1>5, FlushAllAdds
  <1>7. Keep(f)
    BY <1>4, <1>5
  <1>8. buffers' = [partial |-> f.partial, current |-> f.current] /\ emitted' = f.out
    BY <1>7 DEF Keep
  <1>9. a.partial = buffers.partial /\ a.out = emitted
    BY <1>1 DEF Now
  <1>10. ToSet(buffers.partial)' = ToSet(f.partial) /\ ToSet(emitted)' = ToSet(f.out)
    <2>1. buffers'.partial = f.partial
      BY <1>8
    <2> QED  BY <1>8, <2>1
  <1> QED  BY <1>3, <1>4, <1>6, <1>9, <1>10

(* A payload after a flush.                                                *)
LEMMA FlushedThenKept ==
  ASSUME BuffersInv, NEW payload \in Seq(Cell), Keep(Consume(FlushAll(Now), payload))
  PROVE  /\ ToSet(buffers.partial)' \subseteq ToSet(payload)
         /\ \A e \in ToSet(emitted)' :
                e \in ToSet(emitted) \/ Last(e).end \/ Last(e) \in ToSet(buffers.partial)
  <1>1. PICK a \in Plain(Cell) : a = Now
    BY DEF BuffersInv
  <1>2. PICK b \in Plain(Cell) : b = FlushAll(a)
    BY PlainKept
  <1>3. /\ ToSet(b.partial) = {}
        /\ \A e \in ToSet(b.out) : e \in ToSet(a.out) \/ Last(e).end \/ Last(e) \in ToSet(a.partial)
    BY <1>2, FlushAllAdds
  <1>4. PICK f \in Plain(Cell) : f = Consume(b, payload)
    BY PlainKept
  <1>5. /\ ToSet(f.partial) \subseteq ToSet(b.partial) \cup ToSet(payload)
        /\ \A e \in ToSet(f.out) : e \in ToSet(b.out) \/ Last(e).end
    BY <1>4, ConsumeAdds
  <1>6. Keep(f)
    BY <1>1, <1>2, <1>4
  <1>7. buffers' = [partial |-> f.partial, current |-> f.current] /\ emitted' = f.out
    BY <1>6 DEF Keep
  <1>8. a.partial = buffers.partial /\ a.out = emitted
    BY <1>1 DEF Now
  <1>9. ToSet(buffers.partial)' = ToSet(f.partial) /\ ToSet(emitted)' = ToSet(f.out)
    <2>1. buffers'.partial = f.partial
      BY <1>7
    <2> QED  BY <1>7, <2>1
  <1> QED  BY <1>3, <1>5, <1>8, <1>9

(* The cells beyond a place in a file are of its generation.               *)
LEMMA PayloadOf ==
  ASSUME FileInv, NEW i, i \in 1..Len(files), NEW k, k \in 0..Len(written)
  PROVE  /\ From(i, k) \in Seq(Cell)
         /\ \A c \in ToSet(From(i, k)) : c.gen = files[i].gen /\ k < Size(i)
  <1>1. k \in Nat /\ Size(i) \in Nat
    BY FileFacts
  <1>2. PICK S : S = Of(files[i].gen)
    OBVIOUS
  <1>3. From(i, k) \in Seq(S) /\ From(i, k) \in Seq(Cell)
    BY <1>1, <1>2, FromFacts
  <1>4. ToSet(From(i, k)) \subseteq S
    BY <1>3, ElementsOf
  <1>5. \A c \in ToSet(From(i, k)) : k < Size(i)
    <2>1. \A c \in ToSet(From(i, k)) : \E j \in (k + 1)..Size(i) : files[i].cells[j] = c
      BY <1>1, FromFacts
    <2>2. \A j \in (k + 1)..Size(i) : k < Size(i)
      BY <1>1
    <2> QED  BY <2>1, <2>2
  <1> QED  BY <1>2, <1>3, <1>4, <1>5 DEF Of

(* So are all the cells of a file.                                         *)
LEMMA CellsOf ==
  ASSUME FileInv, NEW i, i \in 1..Len(files)
  PROVE  /\ files[i].cells \in Seq(Cell)
         /\ \A c \in ToSet(files[i].cells) : c.gen = files[i].gen
  <1>1. files[i].cells \in Seq(Cell) /\ Content(files[i])
    BY FileFacts DEF FileInv
  <1>2. DOMAIN files[i].cells = 1..Len(files[i].cells)
    BY <1>1, LenProperties
  <1> QED  BY <1>1, <1>2 DEF Content, ToSet

(* Unless the file ends within a line, no event of its tail is cut.        *)
LEMMA TailWaits ==
  ASSUME FileInv, NEW i, i \in 1..Len(files), ~Unended(i)
  PROVE  TailEvents(files[i].cells) \in Seq(Ended(Cell))
  <1>1. PICK q : q = files[i].cells
    OBVIOUS
  <1>2. q \in Seq(Cell) /\ Size(i) = Len(q) /\ Len(q) \in Nat
    BY <1>1, CellsOf, LenProperties DEF Size
  <1>3. q # <<>> => Last(q).end
    <2>1. q # <<>> => Len(q) > 0
      BY <1>2, EmptySeq
    <2> QED  BY <1>1, <1>2, <2>1 DEF Unended, UnendedAt, Last
  <1>4. PICK P : P = Cell
    OBVIOUS
  <1>5. TailEvents(q) \in Seq(Ended(P))
    BY <1>2, <1>3, <1>4, TailEnded
  <1> QED  BY <1>1, <1>4, <1>5

(* Nor is one of the events of the first remote read.                      *)
LEMMA FirstWaits ==
  ASSUME FileInv, path \in 1..Len(files), offset \in 0..Len(written), ~Unended(path)
  PROVE  FirstEvents \in Seq(Ended(Cell))
  <1>1. PICK P : P = Cell
    OBVIOUS
  <1>2. PICK p, k : p = Payload /\ k = Kept
    OBVIOUS
  <1>3. Payload \in Seq(P)
    BY <1>1, PayloadOf DEF Payload
  <1>4. PICK z \in Seq(P) : p = z \o k /\ k \in Seq(P)
    BY <1>2, <1>3, KeptIs
  <1>5. p # <<>> => Last(p).end
    <2>1. PICK n, m, q : n = Size(path) /\ m = offset /\ q = files[path].cells
      OBVIOUS
    <2>2. m \in Nat /\ n \in Nat /\ Len(p) = (IF m <= n THEN n - m ELSE 0) /\ n = Len(q)
      <3>1. offset \in Nat
        BY FileFacts
      <3> QED  BY <1>2, <2>1, <3>1, FromFacts, FileFacts DEF Payload, Size
    <2>3. p = SubSeq(q, m + 1, n)
      BY <1>2, <2>1 DEF Payload, From
    <2>4. q \in Seq(Cell)
      BY <2>1, FileFacts
    <2>5. p # <<>> => Len(p) > 0
      BY <1>2, <1>3, EmptySeq, LenProperties
    <2>6. Len(p) > 0 => p[Len(p)] = q[n]
      <3>1. (m + 1) \in Int /\ n \in Int /\ \A j \in (m + 1)..n : q[j] \in Cell
        <4>1. \A j \in (m + 1)..n : j \in 1..Len(q)
          BY <2>2
        <4> QED  BY <2>2, <2>4, <4>1, ElementOfSeq
      <3>2. \A j \in 1..n - (m + 1) + 1 : p[j] = q[(m + 1) + j - 1]
        BY <2>3, <3>1, SubSeqProperties
      <3>3. Len(p) > 0 => Len(p) \in 1..n - (m + 1) + 1 /\ (m + 1) + Len(p) - 1 = n
        <4>1. PICK l \in Nat : l = Len(p)
          BY <1>2, <1>3, LenProperties
        <4>2. l > 0 => l = n - m /\ m <= n
          BY <2>2, <4>1
        <4>3. l > 0 => l \in 1..n - (m + 1) + 1 /\ (m + 1) + l - 1 = n
          <5>1. n \in Nat /\ m \in Nat
            BY <2>2
          <5> QED  BY <4>1, <4>2, <5>1
        <4> QED  BY <4>1, <4>3
      <3> QED  BY <3>2, <3>3
    <2>7. Len(p) > 0 => q[n].end
      BY <2>1, <2>2 DEF Unended, UnendedAt
    <2> QED  BY <2>5, <2>6, <2>7 DEF Last
  <1>6. k # <<>> => Last(k).end
    <2>1. Len(z) \in Nat /\ Len(k) \in Nat
      BY <1>4, LenProperties
    <2>2. k # <<>> => Len(k) > 0
      BY <1>4, <2>1, EmptySeq
    <2>3. Len(p) = Len(z) + Len(k) /\ \A j \in 1..Len(z) + Len(k) :
              p[j] = IF j <= Len(z) THEN z[j] ELSE k[j - Len(z)]
      BY <1>4, ConcatProperties
    <2>4. Len(k) > 0 => p[Len(p)] = k[Len(k)] /\ Len(p) > 0
      BY <2>1, <2>3
    <2>5. Len(p) > 0 => p # <<>>
      BY EmptySeq
    <2> QED  BY <1>5, <2>2, <2>4, <2>5 DEF Last
  <1>7. TailEvents(k) \in Seq(Ended(P))
    BY <1>4, <1>6, TailEnded
  <1> QED  BY <1>1, <1>2, <1>7 DEF FirstEvents

(* A step of the follower keeps what it owes the unended lines when its    *)
(* partial line is behind what it read, and what it gives out is ended or  *)
(* of a file that is over.                                                 *)
LEMMA WaitByFollower ==
  ASSUME WaitInv, Still, Local' = Local,
         \A c \in ToSet(buffers.partial)' : c.gen <= generation,
         Local /\ handle' # 0 => Behind(buffers.partial)',
         pc # "done",
         "cut" \in surprises => "cut" \in surprises',
         "cut" \notin surprises' => tail' \in Seq(Ended(Cell)),
         "cut" \notin surprises' /\ pc' # "done" =>
             \A e \in ToSet(emitted)' : e \in ToSet(emitted) \/ Over(e)
  PROVE  WaitInv'
  <1>1. \A e : Over(e)' = Over(e)
    BY DEF Over, Still
  <1>2. "cut" \in surprises \/ \A e \in ToSet(emitted) : Over(e)
    BY DEF WaitInv
  <1>3. "cut" \in surprises' \/ pc' = "done" \/ \A e \in ToSet(emitted)' : Over(e)'
    BY <1>1, <1>2
  <1> QED  BY <1>3 DEF WaitInv, Still

(* A step that leaves the buffers, the events, the file and the offset.    *)
LEMMA WaitByNothing ==
  ASSUME WaitInv, Still, Local' = Local, UNCHANGED <<buffers, emitted, offset>>,
         handle' = handle \/ handle' = 0, pc # "done",
         "cut" \in surprises => "cut" \in surprises',
         "cut" \notin surprises' => tail' \in Seq(Ended(Cell))
  PROVE  WaitInv'
  <1>1. Local /\ handle' # 0 => Behind(buffers.partial)'
    BY DEF WaitInv, Behind, Still, Size
  <1>2. \A c \in ToSet(buffers.partial)' : c.gen <= generation
    BY DEF WaitInv
  <1>3. \A e \in ToSet(emitted)' : e \in ToSet(emitted)
    OBVIOUS
  <1> QED  BY <1>1, <1>2, <1>3, WaitByFollower

(* The steps of LocalFileFollower cut no line of the current file.         *)
LEMMA WaitLocal ==
  ASSUME TypeInv, WaitInv, LocalStep
  PROVE  WaitInv'
  <1>1. FileInv /\ BuffersInv /\ ControlInv
    BY DEF TypeInv
  <1>2. Still /\ Local' = Local /\ \A i : Size(i)' = Size(i)
    BY StillIs DEF LocalStep
  <1>3. /\ Len(files) \in Nat /\ Len(written) \in Nat /\ generation \in Nat
        /\ path \in 0..Len(files) /\ path \in {0, Len(files)} /\ handle \in 0..Len(files)
        /\ offset \in 0..Len(written) /\ offset \in Nat
        /\ path # 0 => files[path].gen = generation
    BY <1>1, FileFacts DEF ControlInv, FileInv
  <1>4. \A i \in 1..Len(files) :
            files[i].gen \in Nat /\ files[i].gen <= generation /\ Size(i) \in Nat
    BY <1>1, FileFacts DEF FileInv
  <1>5. \A i, j \in 1..Len(files) : i < j => files[i].gen < files[j].gen
    BY <1>1 DEF FileInv
  <1>6. <<>> \in Seq(Ended(Cell))
    BY EmptySeq
  <1>7. /\ pc \in {"poll", "checked", "switch"} => handle # 0
        /\ pc \in {"new", "start", "tail"} => handle = 0
        /\ pc # "tail" => tail = <<>>
    BY <1>1, LocalHere DEF ControlInv
  <1>8. path # 0 => path \in 1..Len(files)
    BY <1>3
  <1>9. handle # 0 => handle \in 1..Len(files)
    BY <1>3
  <1>10. \A c \in ToSet(buffers.partial) : c \in Cell /\ c.gen \in Nat /\ c.gen <= generation
    <2>1. buffers.partial \in Seq(Cell)
      BY <1>1 DEF BuffersInv
    <2>2. ToSet(buffers.partial) \subseteq Cell
      BY <2>1, ElementsOf
    <2> QED  BY <2>2 DEF WaitInv, Cell
  <1>11. handle # 0 => /\ From(handle, offset) \in Seq(Cell)
                       /\ \A c \in ToSet(From(handle, offset)) :
                              c.gen = files[handle].gen /\ offset < Size(handle)
    BY <1>1, <1>3, <1>9, PayloadOf
  <1>12. handle # 0 => ReadTo(handle, offset) = IF offset <= Size(handle) THEN Size(handle) ELSE offset
    BY <1>1, <1>3, <1>9, PlaceFacts
  <1>13. /\ "cut" \notin surprises => tail \in Seq(Ended(Cell))
         /\ Local /\ handle # 0 => Behind(buffers.partial)
    BY DEF WaitInv
  <1>14. "cut" \notin Unseen
    BY DEF Unseen
  <1>15. CASE InitializeMissing
    BY <1>2, <1>13, <1>15, WaitByNothing DEF InitializeMissing, Uninitialized
  <1>16. CASE TailUndecodable
    BY <1>2, <1>13, <1>16, WaitByNothing DEF TailUndecodable, Uninitialized
  <1>17. CASE ReadTail
    <2>1. ~Unended(path) => tail' \in Seq(Ended(Cell))
      BY <1>1, <1>8, <1>17, TailWaits DEF ReadTail
    <2>2. "cut" \notin surprises' => tail' \in Seq(Ended(Cell))
      BY <1>17, <2>1 DEF ReadTail, Surprised
    <2> QED  BY <1>2, <1>17, <2>2, WaitByNothing DEF ReadTail, Uninitialized, Surprised
  <1>18. CASE OpenAfterTail
    <2>1. "cut" \notin surprises' => \A e \in ToSet(emitted)' : e \in ToSet(emitted) \/ Over(e)
      <3>1. emitted \in Seq(Lines(Cell)) /\ tail \in Seq(Lines(Cell))
        BY <1>1, EmittedType DEF BuffersInv
      <3>2. ToSet(emitted \o tail) = ToSet(emitted) \cup ToSet(tail)
        BY <3>1, ElementsJoined
      <3>3. "cut" \notin surprises => \A e \in ToSet(tail) : Last(e).end
        <4>1. "cut" \notin surprises => ToSet(tail) \subseteq Ended(Cell)
          BY <1>13, ElementsOf
        <4> QED  BY <4>1 DEF Ended
      <3> QED  BY <1>18, <3>2, <3>3 DEF OpenAfterTail, Over
    <2>2. Behind(buffers.partial)'
      BY <1>2, <1>3, <1>4, <1>8, <1>10, <1>18 DEF OpenAfterTail, OpenAt, Behind, Still
    <2>3. /\ \A c \in ToSet(buffers.partial)' : c.gen <= generation
          /\ tail' \in Seq(Ended(Cell)) /\ pc # "done" /\ surprises' = surprises
      BY <1>6, <1>10, <1>18 DEF OpenAfterTail
    <2> QED  BY <1>2, <2>1, <2>2, <2>3, WaitByFollower
  <1>19. CASE OpenFails
    BY <1>2, <1>6, <1>19, WaitByNothing DEF OpenFails
  <1>20. CASE PollMissing
    <2>1. /\ handle \in 1..Len(files) /\ From(handle, offset) \in Seq(Cell)
          /\ Keep(FlushAll(Consume(Now, From(handle, offset)))) /\ path = 0 /\ pc # "done"
          /\ surprises' = surprises \cup Unseen /\ tail' = tail
      BY <1>7, <1>9, <1>11, <1>20 DEF PollMissing, Surprised
    <2>2. /\ ToSet(buffers.partial)' = {}
          /\ \A e \in ToSet(emitted)' :
                 \/ e \in ToSet(emitted)
                 \/ Last(e).end
                 \/ Last(e) \in ToSet(buffers.partial) \cup ToSet(From(handle, offset))
      BY <1>1, <2>1, FlushKept
    <2>3. \A e \in ToSet(emitted)' : e \in ToSet(emitted) \/ Over(e)
      BY <1>4, <1>10, <1>11, <2>1, <2>2 DEF Over
    <2>4. Behind(buffers.partial)'
      BY <2>2 DEF Behind
    <2> QED  BY <1>2, <1>13, <1>14, <2>1, <2>2, <2>3, <2>4, WaitByFollower
  <1>21. CASE PollExists
    BY <1>2, <1>13, <1>21, WaitByNothing DEF PollExists
  <1>22. CASE PathVanished
    BY <1>2, <1>13, <1>22, WaitByNothing DEF PathVanished, Surprised
  <1>23. CASE PollRotated
    <2>1. /\ handle \in 1..Len(files) /\ From(handle, offset) \in Seq(Cell)
          /\ path \in 1..Len(files) /\ handle < path /\ pc # "done"
          /\ surprises' = surprises \cup Unseen /\ tail' = tail
      BY <1>3, <1>7, <1>9, <1>11, <1>23 DEF PollRotated, Surprised
    <2>2. Keep(FlushAll(Consume(Now, From(handle, offset))))
      BY <1>1, <1>23, <2>1, DrainedKept DEF PollRotated, Drained
    <2>3. /\ ToSet(buffers.partial)' = {}
          /\ \A e \in ToSet(emitted)' :
                 \/ e \in ToSet(emitted)
                 \/ Last(e).end
                 \/ Last(e) \in ToSet(buffers.partial) \cup ToSet(From(handle, offset))
      BY <1>1, <2>1, <2>2, FlushKept
    <2>4. files[handle].gen < generation
      BY <1>3, <1>5, <2>1
    <2>5. \A c \in ToSet(buffers.partial) : c.gen <= files[handle].gen
      BY <1>7, <1>13, <1>23, LocalHere, <1>1 DEF Behind, PollRotated
    <2>6. \A e \in ToSet(emitted)' : e \in ToSet(emitted) \/ Over(e)
      BY <1>3, <1>4, <1>10, <1>11, <2>1, <2>3, <2>4, <2>5 DEF Over
    <2>7. Behind(buffers.partial)'
      BY <2>3 DEF Behind
    <2> QED  BY <1>2, <1>13, <1>14, <2>1, <2>3, <2>6, <2>7, WaitByFollower
  <1>24. CASE SwitchFile
    <2>1. /\ path \in 1..Len(files) /\ Keep(Consume(Now, files[path].cells)) /\ pc # "done"
          /\ surprises' = surprises /\ tail' = tail /\ handle' = path /\ offset' = Size(path)
      BY <1>8, <1>24 DEF SwitchFile
    <2>2. /\ files[path].cells \in Seq(Cell)
          /\ \A c \in ToSet(files[path].cells) : c.gen = files[path].gen
      BY <1>1, <2>1, CellsOf
    <2>3. /\ ToSet(buffers.partial)' \subseteq ToSet(buffers.partial) \cup ToSet(files[path].cells)
          /\ \A e \in ToSet(emitted)' : e \in ToSet(emitted) \/ Last(e).end
      BY <1>1, <2>1, <2>2, ConsumeKept
    <2>4. \A c \in ToSet(buffers.partial)' : c.gen <= generation
      BY <1>4, <1>10, <2>1, <2>2, <2>3
    <2>5. Behind(buffers.partial)'
      BY <1>2, <1>3, <1>4, <2>1, <2>4 DEF Behind, Still
    <2> QED  BY <1>2, <1>13, <2>1, <2>3, <2>4, <2>5, WaitByFollower DEF Over
  <1>25. CASE PollTruncated
    <2>1. /\ handle \in 1..Len(files) /\ Keep(Consume(FlushAll(Now), files[handle].cells))
          /\ pc # "done" /\ path = handle /\ Size(handle) < offset
          /\ surprises' = surprises /\ tail' = tail /\ handle' = handle /\ offset' = Size(handle)
      BY <1>7, <1>9, <1>25 DEF PollTruncated, Truncated
    <2>2. /\ files[handle].cells \in Seq(Cell)
          /\ \A c \in ToSet(files[handle].cells) : c.gen = files[handle].gen
      BY <1>1, <2>1, CellsOf
    <2>3. /\ ToSet(buffers.partial)' \subseteq ToSet(files[handle].cells)
          /\ \A e \in ToSet(emitted)' :
                 e \in ToSet(emitted) \/ Last(e).end \/ Last(e) \in ToSet(buffers.partial)
      BY <1>1, <2>1, <2>2, FlushedThenKept
    <2>4. \A c \in ToSet(buffers.partial) : c.gen < generation
      <3>1. Behind(buffers.partial) /\ handle # 0
        BY <1>1, <1>13, <1>25, <2>1, LocalHere DEF PollTruncated
      <3>2. files[handle].gen = generation /\ ~(offset <= Size(handle))
        BY <1>3, <1>4, <2>1
      <3> QED  BY <1>3, <1>10, <3>1, <3>2 DEF Behind
    <2>5. \A e \in ToSet(emitted)' : e \in ToSet(emitted) \/ Over(e)
      BY <2>3, <2>4 DEF Over
    <2>6. \A c \in ToSet(buffers.partial)' : c.gen <= generation
      BY <1>4, <2>1, <2>2, <2>3
    <2>7. Behind(buffers.partial)'
      BY <1>2, <1>4, <2>1, <2>2, <2>3 DEF Behind, Still
    <2> QED  BY <1>2, <1>13, <2>1, <2>5, <2>6, <2>7, WaitByFollower
  <1>26. CASE PollFile
    <2>1. /\ handle \in 1..Len(files) /\ From(handle, offset) \in Seq(Cell)
          /\ Keep(Consume(Now, From(handle, offset))) /\ pc # "done"
          /\ surprises' = surprises \cup Unseen /\ tail' = tail /\ handle' = handle
          /\ offset' = ReadTo(handle, offset)
      BY <1>7, <1>9, <1>11, <1>26 DEF PollFile, Surprised
    <2>2. /\ ToSet(buffers.partial)' \subseteq ToSet(buffers.partial) \cup ToSet(From(handle, offset))
          /\ \A e \in ToSet(emitted)' : e \in ToSet(emitted) \/ Last(e).end
      BY <1>1, <2>1, ConsumeKept
    <2>3. \A c \in ToSet(buffers.partial)' : c.gen <= generation
      BY <1>4, <1>10, <1>11, <2>1, <2>2
    <2>4. Local => Behind(buffers.partial)'
      <3>1. Local => Behind(buffers.partial)
        BY <1>3, <1>13, <2>1
      <3>2. \A c \in ToSet(From(handle, offset)) : c.gen = files[handle].gen /\ offset < Size(handle)
        BY <1>3, <1>11, <2>1
      <3>3. files'[handle'].gen = files[handle].gen /\ Size(handle)' = Size(handle)
        BY <1>2, <2>1 DEF Still, Size
      <3>4. /\ Size(handle) \in Nat /\ offset' = IF offset <= Size(handle) THEN Size(handle) ELSE offset
        BY <1>3, <1>4, <1>12, <2>1
      <3>5. offset <= Size(handle) => offset' <= Size(handle)
        BY <1>3, <3>4
      <3>6. offset < Size(handle) => offset <= Size(handle)
        BY <1>3, <3>4
      <3>7. Local => \A c \in ToSet(buffers.partial)' :
                /\ c.gen <= files[handle].gen
                /\ c.gen = files[handle].gen => offset <= Size(handle)
        BY <1>4, <2>1, <2>2, <3>1, <3>2, <3>6 DEF Behind
      <3> QED  BY <3>3, <3>5, <3>7 DEF Behind
    <2> QED  BY <1>2, <1>13, <1>14, <2>1, <2>2, <2>3, <2>4, WaitByFollower DEF Over
  <1>27. CASE PollUndecodable
    <2>1. /\ handle \in 1..Len(files) /\ pc # "done" /\ UNCHANGED <<buffers, emitted, tail>>
          /\ surprises' = surprises \cup {"missed"} /\ handle' = handle
          /\ offset' = ReadTo(handle, offset)
      BY <1>7, <1>9, <1>27 DEF PollUndecodable, Surprised
    <2>2. Local => Behind(buffers.partial)'
      <3>1. Local => Behind(buffers.partial)
        BY <1>3, <1>13, <2>1
      <3>2. files'[handle'].gen = files[handle].gen /\ Size(handle)' = Size(handle)
        BY <1>2, <2>1 DEF Still, Size
      <3>3. /\ Size(handle) \in Nat /\ offset' = IF offset <= Size(handle) THEN Size(handle) ELSE offset
        BY <1>3, <1>4, <1>12, <2>1
      <3>4. offset <= Size(handle) => offset' <= Size(handle)
        BY <1>3, <3>3
      <3> QED  BY <2>1, <3>1, <3>2, <3>4 DEF Behind
    <2>3. \A c \in ToSet(buffers.partial)' : c.gen <= generation
      BY <1>10, <2>1
    <2>4. \A e \in ToSet(emitted)' : e \in ToSet(emitted)
      BY <2>1
    <2> QED  BY <1>2, <1>13, <2>1, <2>2, <2>3, <2>4, WaitByFollower
  <1> QED
    BY <1>15, <1>16, <1>17, <1>18, <1>19, <1>20, <1>21, <1>22, <1>23, <1>24, <1>25, <1>26,
       <1>27 DEF LocalStep

(* Nor do those of SSHFileFollower.                                        *)
LEMMA WaitSSH ==
  ASSUME TypeInv, WaitInv, SSHStep
  PROVE  WaitInv'
  <1>1. FileInv /\ BuffersInv /\ ControlInv
    BY DEF TypeInv
  <1>2. Still /\ Local' = Local
    BY StillIs DEF SSHStep
  <1>3. /\ path # 0 => path \in 1..Len(files) /\ files[path].gen <= generation
        /\ offset \in 0..Len(written)
        /\ \A i \in 1..Len(files) : files[i].gen \in Nat
    BY <1>1, FileFacts DEF ControlInv, FileInv
  <1>4. \A c \in ToSet(buffers.partial) : c.gen <= generation
    BY DEF WaitInv
  <1>5. /\ pc \in {"first", "read", "off", "on", "stat"} => ~Local /\ pc # "done" /\ tail = <<>>
        /\ <<>> \in Seq(Ended(Cell))
    BY <1>1, LocalHere, EmptySeq DEF ControlInv
  <1>6. path # 0 => /\ Payload \in Seq(Cell)
                    /\ \A c \in ToSet(Payload) : c.gen <= generation
    <2>1. path # 0 => /\ From(path, offset) \in Seq(Cell)
                      /\ \A c \in ToSet(From(path, offset)) : c.gen = files[path].gen
      BY <1>1, <1>3, PayloadOf
    <2> QED  BY <1>3, <2>1 DEF Payload
  <1>7. ASSUME NEW payload, payload \in Seq(Cell), \A c \in ToSet(payload) : c.gen <= generation,
               Keep(Consume(Now, payload))
        PROVE  /\ \A c \in ToSet(buffers.partial)' : c.gen <= generation
               /\ \A e \in ToSet(emitted)' : e \in ToSet(emitted) \/ Over(e)
    <2>1. /\ ToSet(buffers.partial)' \subseteq ToSet(buffers.partial) \cup ToSet(payload)
          /\ \A e \in ToSet(emitted)' : e \in ToSet(emitted) \/ Last(e).end
      BY <1>1, <1>7, ConsumeKept
    <2> QED  BY <1>4, <1>7, <2>1 DEF Over
  <1>8. "cut" \notin Entered
    BY DEF Entered
  <1>9. Stat => pc \in {"on", "stat"} /\ tail' = tail
    BY DEF Stat, AtStat
  <1>10. CASE Connect \/ RemoteMissing \/ ConnectionFails
    <2>1. /\ UNCHANGED <<buffers, emitted, offset, handle, surprises, tail>>
          /\ pc \in {"first", "read", "off", "on", "stat"}
      BY <1>10 DEF Connect, RemoteMissing, ConnectionFails, AtStat
    <2> QED  BY <1>2, <1>5, <2>1, WaitByNothing
  <1>11. CASE StatIdle
    <2>1. Stat /\ surprises' = surprises \cup Entered /\ (Keep(Now) \/ Keep(Consume(Now, <<>>)))
      BY <1>11 DEF StatIdle, Surprised, Flushed
    <2>2. /\ \A c \in ToSet(buffers.partial)' : c.gen <= generation
          /\ \A e \in ToSet(emitted)' : e \in ToSet(emitted) \/ Over(e)
      <3>1. CASE Keep(Now)
        <4>1. buffers'.partial = buffers.partial /\ emitted' = emitted
          BY <3>1 DEF Keep, Now
        <4> QED  BY <1>4, <4>1
      <3>2. CASE Keep(Consume(Now, <<>>))
        <4>1. <<>> \in Seq(Cell) /\ ToSet(<<>>) = {}
          BY EmptySeq DEF ToSet
        <4> QED  BY <1>7, <3>2, <4>1
      <3> QED  BY <2>1, <3>1, <3>2
    <2> QED  BY <1>2, <1>5, <1>8, <1>9, <2>1, <2>2, WaitByFollower
  <1>12. CASE FlushLost
    <2>1. /\ Stat /\ surprises' = surprises \cup (Entered \cup {"missed"}) /\ emitted' = emitted
          /\ buffers' = Empty
      BY <1>12 DEF FlushLost, Surprised
    <2>2. ToSet(buffers.partial)' = {}
      BY <2>1 DEF Empty, ToSet
    <2> QED  BY <1>2, <1>5, <1>8, <1>9, <2>1, <2>2, WaitByFollower
  <1>13. CASE StatNew
    <2>1. Stat /\ surprises' = surprises \cup Entered /\ UNCHANGED <<buffers, emitted>>
      BY <1>13 DEF StatNew, Surprised
    <2>2. \A c \in ToSet(buffers.partial)' : c.gen <= generation
      BY <1>4, <2>1
    <2> QED  BY <1>2, <1>5, <1>8, <1>9, <2>1, <2>2, WaitByFollower
  <1>14. CASE ReadFirst
    <2>1. /\ pc = "first" /\ path # 0 /\ tail' = tail /\ buffers' = buffers
          /\ emitted' = emitted \o FirstEvents
          /\ surprises' = surprises \cup IF Unended(path) THEN {"cut"} ELSE {}
      BY <1>14 DEF ReadFirst, Read, Surprised
    <2>2. FirstEvents \in Seq(Lines(Cell))
      <3>1. Kept \in Seq(Cell)
        BY <1>6, <2>1, KeptIs
      <3> QED  BY <3>1, TailIsLines DEF FirstEvents
    <2>3. emitted \in Seq(Lines(Cell))
      BY <1>1, EmittedType DEF BuffersInv
    <2>4. ToSet(emitted \o FirstEvents) = ToSet(emitted) \cup ToSet(FirstEvents)
      BY <2>2, <2>3, ElementsJoined
    <2>5. "cut" \notin surprises' => \A e \in ToSet(FirstEvents) : Last(e).end
      <3>1. "cut" \notin surprises' => FirstEvents \in Seq(Ended(Cell))
        BY <1>1, <1>3, <2>1, FirstWaits
      <3>2. "cut" \notin surprises' => ToSet(FirstEvents) \subseteq Ended(Cell)
        BY <3>1, ElementsOf
      <3> QED  BY <3>2 DEF Ended
    <2>6. "cut" \notin surprises' => \A e \in ToSet(emitted)' : e \in ToSet(emitted) \/ Over(e)
      BY <2>1, <2>4, <2>5 DEF Over
    <2>7. \A c \in ToSet(buffers.partial)' : c.gen <= generation
      BY <1>4, <2>1
    <2> QED  BY <1>2, <1>5, <2>1, <2>6, <2>7, WaitByFollower
  <1>15. CASE ReadNew
    <2>1. /\ pc = "read" /\ path # 0 /\ tail' = tail /\ surprises' = surprises
          /\ Keep(Consume(Now, Payload))
      BY <1>15 DEF ReadNew, Read
    <2>2. /\ \A c \in ToSet(buffers.partial)' : c.gen <= generation
          /\ \A e \in ToSet(emitted)' : e \in ToSet(emitted) \/ Over(e)
      BY <1>6, <1>7, <2>1
    <2> QED  BY <1>2, <1>5, <2>1, <2>2, WaitByFollower
  <1>16. CASE ReadLost
    <2>1. /\ pc \in {"first", "read"} /\ path # 0 /\ tail' = tail /\ emitted' = emitted
          /\ surprises' = surprises \cup {"missed"}
      BY <1>16 DEF ReadLost, Surprised
    <2>2. \A c \in ToSet(buffers.partial)' : c.gen <= generation
      <3>1. CASE buffers' = buffers
        BY <1>4, <3>1
      <3>2. CASE buffers' = [partial |-> Consume(Now, Payload).partial,
                             current |-> Consume(Now, Payload).current]
        <4>1. PICK a \in Plain(Cell) : a = Now
          BY <1>1 DEF BuffersInv
        <4>2. PICK b \in Plain(Cell) : b = Consume(a, Payload)
          BY <1>6, <2>1, PlainKept
        <4>3. ToSet(b.partial) \subseteq ToSet(a.partial) \cup ToSet(Payload)
          BY <1>6, <2>1, <4>2, ConsumeAdds
        <4>4. buffers'.partial = b.partial /\ a.partial = buffers.partial
          BY <3>2, <4>1, <4>2 DEF Now
        <4> QED  BY <1>4, <1>6, <2>1, <4>3, <4>4
      <3> QED  BY <1>16, <3>1, <3>2 DEF ReadLost
    <2>3. \A e \in ToSet(emitted)' : e \in ToSet(emitted)
      BY <2>1
    <2> QED  BY <1>2, <1>5, <2>1, <2>2, <2>3, WaitByFollower
  <1> QED
    BY <1>10, <1>11, <1>12, <1>13, <1>14, <1>15, <1>16 DEF SSHStep

(* Once it has stopped, what it cut does not matter.                       *)
LEMMA WaitFinish ==
  ASSUME TypeInv, WaitInv, FinishLocal \/ FinishSSH
  PROVE  WaitInv'
  <1>1. FileInv /\ BuffersInv /\ ControlInv
    BY DEF TypeInv
  <1>2. Still /\ Local' = Local
    BY StillIs DEF FinishLocal, FinishSSH
  <1>3. /\ Keep(FlushAll(Now)) /\ pc' = "done" /\ pc # "done" /\ pc # "tail"
        /\ UNCHANGED <<tail, surprises>>
    BY DEF FinishLocal, FinishSSH
  <1>4. <<>> \in Seq(Cell) /\ <<>> \in Seq(Ended(Cell))
    BY EmptySeq
  <1>5. ToSet(buffers.partial)' = {}
    BY <1>1, <1>3, <1>4, FlushKept
  <1>6. tail' = <<>>
    BY <1>1, <1>3 DEF ControlInv
  <1> QED  BY <1>2, <1>3, <1>4, <1>5, <1>6, WaitByFollower DEF Behind

(* The writer only begins generations and adds cells.                      *)
LEMMA WaitByWriter ==
  ASSUME TypeInv, WaitInv, UNCHANGED <<source, readerVars>>, surprises \subseteq surprises',
         LogWrite \/ LogMoved \/ LogTruncated
  PROVE  WaitInv'
  <1>1. FileInv /\ BuffersInv /\ ControlInv
    BY DEF TypeInv
  <1>2. /\ generation \in Nat /\ handle \in 0..Len(files) /\ Len(files) \in Nat /\ offset \in Nat
        /\ path \in 0..Len(files) /\ path # 0 => files[path].gen = generation
        /\ \A i \in 1..Len(files) :
               files[i].gen \in Nat /\ files[i].gen <= generation /\ Size(i) \in Nat
    <2>1. offset \in Nat
      BY <1>1, FileFacts DEF ControlInv
    <2> QED  BY <1>1, <2>1, FileFacts DEF ControlInv, FileInv
  <1>3. \A c \in ToSet(buffers.partial) : c \in Cell /\ c.gen \in Nat /\ c.gen <= generation
    <2>1. buffers.partial \in Seq(Cell)
      BY <1>1 DEF BuffersInv
    <2>2. ToSet(buffers.partial) \subseteq Cell
      BY <2>1, ElementsOf
    <2> QED  BY <2>2 DEF WaitInv, Cell
  <1>4. \A e \in ToSet(emitted) : Last(e).gen \in Nat
    <2>1. emitted \in Seq(Lines(Cell))
      BY <1>1, EmittedType DEF BuffersInv
    <2>2. ToSet(emitted) \subseteq Lines(Cell)
      BY <2>1, ElementsOf
    <2>3. ASSUME NEW e \in Lines(Cell) PROVE Last(e).gen \in Nat
      <3>1. e \in Seq(Cell) /\ e # <<>>
        BY DEF Lines
      <3>2. Last(e) \in Cell
        BY <3>1, EmptySeq, LenProperties, ElementOfSeq DEF Last
      <3> QED  BY <3>2 DEF Cell
    <2> QED  BY <2>2, <2>3
  \* What a step of the writer may do.
  <1>5. /\ generation' \in {generation, generation + 1}
        /\ path' = 0 \/ path' = path \/ generation' = generation + 1
        /\ handle # 0 => \/ /\ files'[handle].gen = files[handle].gen
                            /\ Size(handle)' \in Nat /\ Size(handle)' >= Size(handle)
                         \/ /\ files'[handle].gen = generation + 1
                            /\ files[handle].gen = generation
    <2>1. handle # 0 => handle \in 1..Len(files)
      BY <1>2
    <2>2. CASE LogWrite
      <3>1. PICK i \in DOMAIN files, stamp \in BOOLEAN, end \in BOOLEAN : Write(i, stamp, end)
        BY <2>2 DEF LogWrite
      <3>2. PICK c : NewCell(i, c)
        BY <1>1, <3>1, WriteIs
      <3>3. \A j \in 1..Len(files) : files[j].cells \in Seq(Cell)
        BY <1>1, FileFacts
      <3>4. \A j \in 1..Len(files) : /\ files'[j].gen = files[j].gen
                                     /\ \/ files'[j].cells = files[j].cells
                                        \/ files'[j].cells = Append(files[j].cells, c)
        BY <3>2 DEF NewCell, WithCell
      <3>5. \A j \in 1..Len(files) : /\ Len(files[j].cells) \in Nat
                                     /\ Len(Append(files[j].cells, c)) = Len(files[j].cells) + 1
        BY <3>2, <3>3, LenProperties, AppendProperties DEF NewCell
      <3>6. handle' = handle
        BY DEF readerVars
      <3> QED  BY <2>1, <3>2, <3>4, <3>5, <3>6 DEF NewCell, Size
    <2>3. CASE Replace
      <3>1. generation' = generation + 1 /\ \A j \in 1..Len(files) : files'[j] = files[j]
        BY <1>1, <2>3, ReplaceIs
      <3> QED  BY <1>2, <2>1, <3>1 DEF Size, readerVars
    <2>4. CASE Unlink
      <3>1. path' = 0 /\ UNCHANGED <<files, generation>>
        BY <2>4, UnlinkIs
      <3> QED  BY <1>2, <2>1, <3>1 DEF Size, readerVars
    <2>5. CASE LogTruncated
      <3>1. /\ generation' = generation + 1 /\ path' = path /\ path # 0
            /\ \A j \in 1..Len(files) : files'[j] = IF j = path THEN Blank ELSE files[j]
        BY <1>1, <2>5, TruncateIs DEF LogTruncated
      <3> QED  BY <1>2, <2>1, <3>1 DEF Size, Blank, readerVars
    <2> QED  BY <2>2, <2>3, <2>4, <2>5 DEF LogMoved
  <1>6. \A e \in ToSet(emitted) : Over(e) => Over(e)'
    BY <1>2, <1>4, <1>5 DEF Over
  <1>7. Local /\ handle # 0 => Behind(buffers.partial)'
    <2>1. SUFFICES ASSUME Local, handle # 0, NEW c \in ToSet(buffers.partial)
                   PROVE  /\ c.gen <= files'[handle].gen
                          /\ c.gen = files'[handle].gen => offset <= Size(handle)'
      BY DEF Behind, readerVars
    <2>2. /\ c.gen \in Nat /\ c.gen <= generation /\ c.gen <= files[handle].gen
          /\ c.gen = files[handle].gen => offset <= Size(handle)
      BY <1>3, <2>1 DEF WaitInv, Behind
    <2>3. handle \in 1..Len(files)
      BY <1>2, <2>1
    <2> QED  BY <1>2, <1>5, <2>1, <2>2, <2>3
  <1>8. \A c \in ToSet(buffers.partial) : c.gen <= generation'
    BY <1>2, <1>3, <1>5
  <1>9. buffers' = buffers /\ emitted' = emitted /\ tail' = tail /\ pc' = pc /\ handle' = handle
    BY DEF readerVars
  <1>10. Local' = Local
    BY DEF Local
  <1>11. /\ "cut" \notin surprises' => tail \in Seq(Ended(Cell))
         /\ "cut" \in surprises' \/ pc = "done" \/ \A e \in ToSet(emitted) : Over(e)
    BY DEF WaitInv
  <1> QED  BY <1>6, <1>7, <1>8, <1>9, <1>10, <1>11 DEF WaitInv

(* It holds at first.                                                      *)
LEMMA WaitInit == Init => WaitInv
  <1>1. ToSet(<<>>) = {} /\ <<>> \in Seq(Ended(Cell))
    BY EmptySeq DEF ToSet
  <1> QED  BY <1>1 DEF Init, WaitInv, Empty

(* It holds after every step.                                              *)
LEMMA WaitSafe == TypeInv /\ WaitInv /\ [Next]_vars => WaitInv'
  <1> SUFFICES ASSUME TypeInv, WaitInv, [Next]_vars PROVE WaitInv'
    OBVIOUS
  <1>1. CASE Follow \/ Finish
    BY <1>1, WaitLocal, WaitSSH, WaitFinish DEF Follow, Finish
  <1>2. CASE (LogWrite \/ LogMoved \/ LogTruncated) /\ UNCHANGED <<source, readerVars, failures>>
    <2>1. surprises \subseteq surprises'
      BY <1>2 DEF LogWrite, LogMoved, LogTruncated, Surprised
    <2> QED  BY <1>2, <2>1, WaitByWriter
  <1>3. CASE UNCHANGED vars
    BY <1>3 DEF vars, fileVars, readerVars, WaitInv, Over, Behind, Local, Size
  <1> QED  BY <1>1, <1>2, <1>3 DEF Next

(* An event that is cut is of a generation that is over.                   *)
LEMMA WaitImplied == TypeInv /\ WaitInv => UnendedLineWaits
  <1> SUFFICES ASSUME TypeInv, WaitInv, NEW e \in ToSet(emitted), NEW i \in DOMAIN files,
                      ~Last(e).end, "cut" \notin surprises, pc # "done", i = path
               PROVE  files[i].gen # Last(e).gen
    BY DEF UnendedLineWaits
  <1>1. FileInv /\ BuffersInv
    BY DEF TypeInv
  <1>2. Over(e)
    BY DEF WaitInv
  <1>3. DOMAIN files = 1..Len(files) /\ Len(files) \in Nat
    BY <1>1, LenProperties DEF FileInv
  <1>4. path # 0 /\ files[path].gen = generation /\ generation \in Nat
    BY <1>1, <1>3, FileFacts DEF FileInv
  <1> QED  BY <1>2, <1>4 DEF Over

(* A line that is still being written waits for its end while its file is  *)
(* the current one, unless the first read has cut it, for any sources.     *)
THEOREM LinesWait == Spec => []UnendedLineWaits
  <1>1. Init => TypeInv /\ WaitInv
    BY TypeInit, WaitInit
  <1>2. TypeInv /\ WaitInv /\ [Next]_vars => TypeInv' /\ WaitInv'
    BY TypeSafe, WaitSafe
  <1>3. Spec => [](TypeInv /\ WaitInv)
    BY <1>1, <1>2, PTL DEF Spec
  <1> QED  BY <1>3, WaitImplied, PTL

-----------------------------------------------------------------------------
(* One file per event.                                                     *)

(* Events of one generation are events of one file.                        *)
LEMMA OneFileOf ==
  ASSUME NEW g
  PROVE  /\ Of(g) \subseteq Cell
         /\ Lines(Of(g)) \subseteq OneFile
         /\ Ended(Of(g)) \subseteq OneFile
         /\ Cut(Of(g), Of(g)) \subseteq OneFile
  <1>1. Of(g) \subseteq Cell
    BY DEF Of
  <1>2. ASSUME NEW e \in Lines(Of(g)) PROVE e \in OneFile
    <2>1. PICK S : S = Of(g)
      OBVIOUS
    <2>2. e \in Seq(S) /\ e # <<>>
      BY <2>1 DEF Lines
    <2>3. e \in Lines(Cell)
      BY <1>1, <2>1, <2>2, SeqMonotonic DEF Lines
    <2>4. \A j \in 1..Len(e) : e[j] \in S
      BY <2>2, ElementOfSeq
    <2> QED  BY <2>1, <2>3, <2>4 DEF Of, OneFile
  <1> QED  BY <1>1, <1>2 DEF Ended, Cut

\* What is pending is of one generation, what was given out of one file each.
OneOf(a, g) ==
    a.partial \in Seq(Of(g)) /\ a.current \in Seq(Of(g)) /\ a.out \in Seq(OneFile)

(* It is an assembler of the cells of that generation.                     *)
LEMMA OneOfAssembler ==
  ASSUME NEW g, NEW a \in Plain(Cell)
  PROVE  OneOf(a, g) <=> a \in Assembler(Of(g), Of(g), OneFile)
  <1>1. PICK P, G : P = Of(g) /\ G = OneFile
    OBVIOUS
  <1>2. ASSUME OneOf(a, g) PROVE a \in Assembler(P, P, G)
    <2>1. a.partial \in Seq(P) /\ a.current \in Seq(P) /\ a.out \in Seq(G)
      BY <1>1, <1>2 DEF OneOf
    <2>2. ToSet(a.partial) \subseteq P /\ ToSet(a.current) \subseteq P /\ ToSet(a.out) \subseteq G
      BY <2>1, ElementsOf
    <2> QED  BY <2>2, AssemblerOf
  <1>3. ASSUME a \in Assembler(P, P, G) PROVE OneOf(a, g)
    <2>1. PICK Q : Q = {c \in P : ~c.end}
      OBVIOUS
    <2>2. a.partial \in Seq(Q) /\ a.current \in Seq(P) /\ a.out \in Seq(G)
      BY <1>3, <2>1 DEF Assembler
    <2>3. Q \subseteq P
      BY <2>1
    <2>4. a.partial \in Seq(P)
      BY <2>2, <2>3, SeqMonotonic
    <2> QED  BY <1>1, <2>2, <2>4 DEF OneOf
  <1> QED  BY <1>1, <1>2, <1>3

(* A payload of the generation that is pending.                            *)
LEMMA OneConsumed ==
  ASSUME NEW g, NEW a \in Plain(Cell), OneOf(a, g), NEW payload \in Seq(Of(g))
  PROVE  /\ OneOf(Consume(a, payload), g) /\ Consume(a, payload) \in Plain(Cell)
         /\ payload = <<>> /\ a.partial = <<>> =>
                Consume(a, payload).partial = <<>> /\ Consume(a, payload).current = <<>>
  <1>1. PICK P, G : P = Of(g) /\ G = OneFile
    OBVIOUS
  <1>2. PICK Q \in SUBSET P : Q = P
    OBVIOUS
  <1>3. Ended(P) \subseteq G /\ a \in Assembler(P, Q, G) /\ payload \in Seq(Q)
    BY <1>1, <1>2, OneFileOf, OneOfAssembler
  <1>4. Consume(a, payload) \in Assembler(P, Q, G)
    BY <1>3, ConsumeKeeps
  <1>5. payload \in Seq(Cell)
    <2>1. P \subseteq Cell
      BY <1>1, OneFileOf
    <2> QED  BY <1>1, <2>1, SeqMonotonic
  <1>6. PICK b \in Plain(Cell) : b = Consume(a, payload)
    BY <1>5, PlainKept
  <1>7. OneOf(b, g)
    BY <1>1, <1>2, <1>4, <1>6, OneOfAssembler
  <1>8. payload = <<>> /\ a.partial = <<>> => b.partial = <<>> /\ b.current = <<>>
    <2>1. PICK x, y, o : x = a.partial /\ y = a.current /\ o = a.out
      OBVIOUS
    <2>2. a = [partial |-> x, current |-> y, out |-> o]
      BY <2>1, FieldsOf
    <2>4. PICK more : more = o \o Held(y)
      OBVIOUS
    <2>3. payload = <<>> /\ x = <<>> => b = [partial |-> x, current |-> <<>>, out |-> more]
      <3>1. payload = <<>> /\ x = <<>> => b = Flush(a)
        BY <1>6, <2>1 DEF Consume
      <3>2. Flush(a) = [partial |-> x, current |-> <<>>, out |-> more]
        BY <2>2, <2>4, FlushIs
      <3> QED  BY <3>1, <3>2
    <2> QED  BY <2>1, <2>3
  <1> QED  BY <1>6, <1>7, <1>8

(* A flush leaves nothing pending, of any generation.                      *)
LEMMA OneFlushed ==
  ASSUME NEW g, NEW a \in Plain(Cell), OneOf(a, g), NEW h
  PROVE  /\ OneOf(FlushAll(a), h) /\ FlushAll(a) \in Plain(Cell)
         /\ FlushAll(a).partial = <<>> /\ FlushAll(a).current = <<>>
  <1>1. PICK P, G : P = Of(g) /\ G = OneFile
    OBVIOUS
  <1>2. PICK Q \in SUBSET P : Q = P
    OBVIOUS
  <1>3. Ended(P) \subseteq G /\ Cut(P, Q) \subseteq G /\ a \in Assembler(P, Q, G)
    BY <1>1, <1>2, OneFileOf, OneOfAssembler
  <1>4. PICK b \in Assembler(P, Q, G) :
            b = FlushAll(a) /\ b.partial = <<>> /\ b.current = <<>>
    BY <1>3, FlushAllKeeps
  <1>5. b \in Plain(Cell)
    BY <1>4, PlainKept, EmptySeq
  <1>6. b.out \in Seq(G) /\ <<>> \in Seq(Of(h))
    BY EmptySeq DEF Assembler
  <1>7. OneOf(b, h)
    BY <1>1, <1>4, <1>6 DEF OneOf
  <1> QED  BY <1>4, <1>5, <1>7

\* The same of the buffers and the events of the follower.
Pending(g) ==
    buffers.partial \in Seq(Of(g)) /\ buffers.current \in Seq(Of(g)) /\ emitted \in Seq(OneFile)

(* What is kept of such an assembler.                                      *)
LEMMA PendingKept ==
  ASSUME NEW g, NEW r \in Plain(Cell), OneOf(r, g), Keep(r)
  PROVE  /\ Pending(g)'
         /\ r.partial = <<>> /\ r.current = <<>> => buffers' = Empty
  <1>1. buffers' = [partial |-> r.partial, current |-> r.current] /\ emitted' = r.out
    BY DEF Keep
  <1> QED  BY <1>1 DEF OneOf, Pending, Empty

(* What is kept of a payload of the generation that is pending.            *)
LEMMA PendingRead ==
  ASSUME BuffersInv, NEW g, Pending(g), NEW payload \in Seq(Of(g)), NEW h,
         \/ Keep(Consume(Now, payload))
         \/ Keep(FlushAll(Consume(Now, payload)))
         \/ Keep(FlushAll(Now))
  PROVE  /\ Keep(Consume(Now, payload)) =>
                /\ Pending(g)'
                /\ payload = <<>> /\ buffers.partial = <<>> => buffers' = Empty
         /\ Keep(FlushAll(Consume(Now, payload))) \/ Keep(FlushAll(Now)) =>
                Pending(h)' /\ buffers' = Empty
  <1>1. PICK a \in Plain(Cell) : a = Now /\ OneOf(a, g)
    BY DEF BuffersInv, Now, Pending, OneOf
  <1>2. PICK b \in Plain(Cell) :
            /\ b = Consume(a, payload) /\ OneOf(b, g)
            /\ payload = <<>> /\ a.partial = <<>> => b.partial = <<>> /\ b.current = <<>>
    BY <1>1, OneConsumed
  <1>3. PICK d \in Plain(Cell) :
            d = FlushAll(a) /\ OneOf(d, h) /\ d.partial = <<>> /\ d.current = <<>>
    BY <1>1, OneFlushed
  <1>4. PICK e \in Plain(Cell) :
            e = FlushAll(b) /\ OneOf(e, h) /\ e.partial = <<>> /\ e.current = <<>>
    BY <1>2, OneFlushed
  <1>5. Keep(b) => Pending(g)' /\ (b.partial = <<>> /\ b.current = <<>> => buffers' = Empty)
    BY <1>2, PendingKept
  <1>6. Keep(d) => Pending(h)' /\ buffers' = Empty
    BY <1>3, PendingKept
  <1>7. Keep(e) => Pending(h)' /\ buffers' = Empty
    BY <1>4, PendingKept
  <1>8. a.partial = buffers.partial
    BY <1>1 DEF Now
  <1> QED  BY <1>1, <1>2, <1>3, <1>4, <1>5, <1>6, <1>7, <1>8

(* After a flush, a payload of any generation.                             *)
LEMMA PendingFlushed ==
  ASSUME BuffersInv, NEW g, Pending(g), NEW h, NEW payload \in Seq(Of(h)),
         Keep(Consume(FlushAll(Now), payload))
  PROVE  Pending(h)' /\ (payload = <<>> => buffers' = Empty)
  <1>1. PICK a \in Plain(Cell) : a = Now /\ OneOf(a, g)
    BY DEF BuffersInv, Now, Pending, OneOf
  <1>2. PICK b \in Plain(Cell) : b = FlushAll(a) /\ OneOf(b, h) /\ b.partial = <<>>
    BY <1>1, OneFlushed
  <1>3. PICK d \in Plain(Cell) :
            /\ d = Consume(b, payload) /\ OneOf(d, h)
            /\ payload = <<>> /\ b.partial = <<>> => d.partial = <<>> /\ d.current = <<>>
    BY <1>2, OneConsumed
  <1>4. Keep(d)
    BY <1>1, <1>2, <1>3
  <1>5. Pending(h)' /\ (d.partial = <<>> /\ d.current = <<>> => buffers' = Empty)
    BY <1>3, <1>4, PendingKept
  <1> QED  BY <1>2, <1>3, <1>5

(* The events of the tail of a file are of this file.                      *)
LEMMA OneTail ==
  ASSUME NEW g, NEW cells \in Seq(Of(g))
  PROVE  TailEvents(cells) \in Seq(OneFile)
  <1>1. PICK P, G : P = Of(g) /\ G = OneFile
    OBVIOUS
  <1>2. PICK Q \in SUBSET P : Q = P
    OBVIOUS
  <1>3. Ended(P) \subseteq G /\ Cut(P, Q) \subseteq G /\ cells \in Seq(Q)
    BY <1>1, <1>2, OneFileOf
  <1> QED  BY <1>1, <1>3, TailKeeps

(* A file has cells of one generation.                                     *)
LEMMA CellsOfOne ==
  ASSUME FileInv, NEW i, i \in 1..Len(files)
  PROVE  files[i].cells \in Seq(Of(files[i].gen))
  <1>1. PICK q, S : q = files[i].cells /\ S = Of(files[i].gen)
    OBVIOUS
  <1>2. q \in Seq(Cell) /\ \A c \in ToSet(q) : c.gen = files[i].gen
    BY <1>1, CellsOf
  <1>3. ToSet(q) \subseteq Cell
    BY <1>2, ElementsOf
  <1>4. ToSet(q) \subseteq S
    BY <1>1, <1>2, <1>3 DEF Of
  <1> QED  BY <1>1, <1>2, <1>4, SeqOver

\* No moment at which events of two files could be mixed.
Unmixed(S) == S \cap {"vanished", "unseen", "swapped", "mixed"} = {}

(* The steps of LocalFileFollower flush before another generation is read. *)
LEMMA OneLocal ==
  ASSUME TypeInv, OneInv, LocalStep
  PROVE  OneInv'
  <1> SUFFICES ASSUME Unmixed(surprises') PROVE One'
    BY DEF OneInv, Unmixed
  <1>1. FileInv /\ BuffersInv /\ ControlInv
    BY DEF TypeInv
  <1>2. Still /\ Local' = Local
    BY StillIs DEF LocalStep
  <1>3. /\ Len(files) \in Nat /\ path \in 0..Len(files) /\ handle \in 0..Len(files)
        /\ offset \in 0..Len(written) /\ offset \in Nat
        /\ \A i \in 1..Len(files) : Size(i) \in Nat /\ Size(i) = Len(files[i].cells)
    <2>1. offset \in Nat
      BY <1>1, FileFacts DEF ControlInv
    <2> QED  BY <1>1, <2>1, FileFacts DEF ControlInv, Size
  <1>4. /\ pc \in {"poll", "checked", "switch"} => Local /\ handle \in 1..Len(files)
        /\ pc \in {"new", "start", "tail"} => Local /\ handle = 0
        /\ pc # "tail" => tail = <<>>
        /\ path # 0 => path \in 1..Len(files)
    BY <1>1, <1>3, LocalHere DEF ControlInv
  <1>5. Unmixed(surprises) => One
    BY DEF OneInv, Unmixed
  <1>6. <<>> \in Seq(OneFile) /\ \A g : <<>> \in Seq(Of(g))
    BY EmptySeq
  <1>7. \A i \in 1..Len(files) :
            /\ files[i].cells \in Seq(Of(files[i].gen))
            /\ Size(i) = 0 => files[i].cells = <<>>
    <2>1. ASSUME NEW i \in 1..Len(files)
          PROVE  /\ files[i].cells \in Seq(Of(files[i].gen))
                 /\ Size(i) = 0 => files[i].cells = <<>>
      <3>1. files[i].cells \in Seq(Of(files[i].gen)) /\ files[i].cells \in Seq(Cell)
        BY <1>1, <2>1, CellsOfOne, CellsOf
      <3> QED  BY <1>3, <2>1, <3>1, EmptySeq
    <2> QED  BY <2>1
  <1>8. \A i \in 1..Len(files) : From(i, offset) \in Seq(Of(files[i].gen))
    BY <1>1, <1>3, FromFacts
  <1>9. buffers = Empty => buffers.partial = <<>> /\ buffers.current = <<>>
    BY DEF Empty
  <1>10. \A g : One /\ buffers = Empty => Pending(g)
    BY <1>6, <1>9 DEF One, Pending
  <1>11. One => Pending(reading)
    BY DEF One, Pending
  \* What a payload of the open file is read into.
  <1>12. ASSUME pc \in {"poll", "checked"}, Unseen \subseteq surprises', Unmixed(surprises)
         PROVE  Pending(files[handle].gen)
    <2>1. One /\ (offset = 0 => buffers = Empty)
      BY <1>4, <1>5, <1>12 DEF One
    <2>2. files[handle].gen = reading \/ offset = 0
      <3>1. "unseen" \notin surprises'
        BY DEF Unmixed
      <3> QED  BY <1>3, <1>12, <3>1 DEF Unseen
    <2> QED  BY <1>10, <1>11, <2>1, <2>2
  <1> USE DEF Still
  <1>13. CASE InitializeMissing \/ TailUndecodable \/ OpenFails
    <2>1. /\ UNCHANGED <<buffers, emitted, reading, surprises, handle>> /\ pc' = "start"
          /\ handle = 0
          /\ tail' = tail \/ tail' = <<>>
      BY <1>4, <1>13 DEF InitializeMissing, TailUndecodable, OpenFails, Uninitialized
    <2>2. One /\ buffers = Empty
      BY <1>5, <2>1 DEF One
    <2> QED  BY <1>6, <2>1, <2>2 DEF One
  <1>14. CASE ReadTail
    <2>1. /\ UNCHANGED <<buffers, emitted, reading, handle>> /\ pc' = "tail" /\ handle = 0
          /\ surprises \subseteq surprises' /\ path \in 1..Len(files)
          /\ tail' = TailEvents(files[path].cells)
      BY <1>4, <1>14 DEF ReadTail, Uninitialized, Surprised
    <2>2. One /\ buffers = Empty
      BY <1>5, <2>1 DEF One, Unmixed
    <2>3. tail' \in Seq(OneFile)
      BY <1>7, <2>1, OneTail
    <2> QED  BY <2>1, <2>2, <2>3 DEF One
  <1>15. CASE OpenAfterTail
    <2>1. /\ handle = 0 /\ buffers' = buffers /\ surprises' = surprises
          /\ emitted' = emitted \o tail /\ tail' = <<>> /\ pc' = "poll"
      BY <1>4, <1>15 DEF OpenAfterTail
    <2>2. One /\ buffers = Empty
      BY <1>5, <2>1 DEF One
    <2>3. emitted' \in Seq(OneFile)
      BY <2>1, <2>2, ConcatProperties DEF One
    <2>4. buffers'.partial \in Seq(Of(reading')) /\ buffers'.current \in Seq(Of(reading'))
      BY <1>6, <1>9, <2>1, <2>2
    <2> QED  BY <1>6, <2>1, <2>2, <2>3, <2>4 DEF One
  <1>16. CASE PollMissing
    <2>1. /\ Keep(FlushAll(Consume(Now, From(handle, offset)))) /\ pc = "poll"
          /\ UNCHANGED <<pc, handle, reading, tail>> /\ surprises' = surprises \cup Unseen
      BY <1>16 DEF PollMissing, Surprised
    <2>2. One /\ Pending(files[handle].gen)
      BY <1>5, <1>12, <2>1 DEF Unmixed
    <2>3. PICK g : g = files[handle].gen
      OBVIOUS
    <2>4. From(handle, offset) \in Seq(Of(g)) /\ Pending(g)
      BY <1>4, <1>8, <2>1, <2>2, <2>3
    <2>5. Pending(reading)' /\ buffers' = Empty
      <3>1. PICK h : h = reading
        OBVIOUS
      <3>2. Pending(h)' /\ buffers' = Empty
        BY <1>1, <2>1, <2>4, PendingRead
      <3> QED  BY <2>1, <3>1, <3>2 DEF Pending
    <2> QED  BY <2>1, <2>2, <2>5 DEF One, Pending
  <1>17. CASE PollExists
    <2>1. /\ UNCHANGED <<buffers, emitted, reading, handle, offset, tail, surprises>>
          /\ pc = "poll" /\ pc' = "checked"
      BY <1>17 DEF PollExists
    <2> QED  BY <1>2, <1>5, <2>1 DEF One
  <1>18. CASE PathVanished
    BY <1>18 DEF PathVanished, Surprised, Unmixed
  <1>19. CASE PollRotated
    <2>1. /\ pc = "checked" /\ pc' = "switch" /\ UNCHANGED <<handle, reading, tail>>
          /\ surprises' = surprises \cup Unseen
      BY <1>19 DEF PollRotated, Surprised
    <2>2. One /\ Pending(files[handle].gen)
      BY <1>5, <1>12, <2>1 DEF Unmixed
    <2>3. PICK g : g = files[handle].gen
      OBVIOUS
    <2>4. From(handle, offset) \in Seq(Of(g)) /\ From(handle, offset) \in Seq(Cell) /\ Pending(g)
      BY <1>1, <1>3, <1>4, <1>8, <2>1, <2>2, <2>3, FromFacts
    <2>5. Keep(FlushAll(Consume(Now, From(handle, offset))))
      BY <1>1, <1>19, <2>4, DrainedKept DEF PollRotated, Drained
    <2>6. Pending(reading)' /\ buffers' = Empty
      <3>1. PICK h : h = reading
        OBVIOUS
      <3>2. Pending(h)' /\ buffers' = Empty
        BY <1>1, <2>4, <2>5, PendingRead
      <3> QED  BY <2>1, <3>1, <3>2 DEF Pending
    <2> QED  BY <2>1, <2>2, <2>6 DEF One, Pending
  <1>20. CASE SwitchFile
    <2>1. /\ pc = "switch" /\ pc' = "poll" /\ path \in 1..Len(files) /\ handle' = path
          /\ reading' = files[path].gen /\ offset' = Size(path)
          /\ Keep(Consume(Now, files[path].cells)) /\ UNCHANGED <<tail, surprises>>
      BY <1>4, <1>20 DEF SwitchFile
    <2>2. PICK g, q : g = files[path].gen /\ q = files[path].cells
      OBVIOUS
    <2>3. One /\ buffers = Empty /\ Pending(g)
      BY <1>5, <1>10, <2>1 DEF One
    <2>4. q \in Seq(Of(g)) /\ Keep(Consume(Now, q)) /\ (Size(path) = 0 => q = <<>>)
      BY <1>7, <2>1, <2>2
    <2>5. Pending(g)' /\ (q = <<>> => buffers' = Empty)
      BY <1>1, <1>9, <2>3, <2>4, PendingRead
    <2>6. buffers'.partial \in Seq(Of(reading')) /\ buffers'.current \in Seq(Of(reading'))
      BY <2>1, <2>2, <2>5 DEF Pending
    <2>7. emitted' \in Seq(OneFile) /\ handle' # 0 /\ (offset' = 0 => buffers' = Empty)
      BY <1>3, <2>1, <2>4, <2>5 DEF Pending
    <2> QED  BY <2>1, <2>3, <2>6, <2>7 DEF One
  <1>21. CASE PollTruncated
    <2>1. /\ pc = "checked" /\ pc' = "poll" /\ handle \in 1..Len(files) /\ handle' = handle
          /\ reading' = files[handle].gen /\ offset' = Size(handle)
          /\ Keep(Consume(FlushAll(Now), files[handle].cells)) /\ UNCHANGED <<tail, surprises>>
      BY <1>4, <1>21 DEF PollTruncated
    <2>2. PICK g, q, h : g = files[handle].gen /\ q = files[handle].cells /\ h = reading
      OBVIOUS
    <2>3. One /\ Pending(h)
      BY <1>5, <1>11, <2>1, <2>2
    <2>4. q \in Seq(Of(g)) /\ Keep(Consume(FlushAll(Now), q)) /\ (Size(handle) = 0 => q = <<>>)
      BY <1>7, <2>1, <2>2
    <2>5. Pending(g)' /\ (q = <<>> => buffers' = Empty)
      BY <1>1, <2>3, <2>4, PendingFlushed
    <2>6. buffers'.partial \in Seq(Of(reading')) /\ buffers'.current \in Seq(Of(reading'))
      BY <2>1, <2>2, <2>5 DEF Pending
    <2>7. emitted' \in Seq(OneFile) /\ handle' # 0 /\ (offset' = 0 => buffers' = Empty)
      BY <1>3, <2>1, <2>4, <2>5 DEF Pending
    <2> QED  BY <2>1, <2>3, <2>6, <2>7 DEF One
  <1>22. CASE PollFile
    <2>1. /\ pc = "checked" /\ pc' = "poll" /\ handle \in 1..Len(files) /\ handle' = handle
          /\ reading' = files[handle].gen /\ offset' = ReadTo(handle, offset)
          /\ Keep(Consume(Now, From(handle, offset))) /\ tail' = tail
          /\ surprises' = surprises \cup Unseen
      BY <1>4, <1>22 DEF PollFile, Surprised
    <2>2. PICK g, q : g = files[handle].gen /\ q = From(handle, offset)
      OBVIOUS
    <2>3. One /\ Pending(g)
      BY <1>5, <1>12, <2>1, <2>2 DEF Unmixed
    <2>4. q \in Seq(Of(g)) /\ Keep(Consume(Now, q))
      BY <1>8, <2>1, <2>2
    <2>5. Pending(g)' /\ (q = <<>> /\ buffers.partial = <<>> => buffers' = Empty)
      BY <1>1, <2>3, <2>4, PendingRead
    <2>6. offset' = 0 => q = <<>> /\ buffers.partial = <<>>
      <3>1. offset' = 0 => offset = 0 /\ Len(q) = 0
        <4>1. Len(q) \in Nat
          BY <2>4, LenProperties
        <4> QED  BY <1>3, <2>1, <2>2, <4>1 DEF ReadTo
      <3>2. offset = 0 => buffers.partial = <<>>
        BY <1>4, <1>9, <2>1, <2>3 DEF One
      <3> QED  BY <2>4, <3>1, <3>2, EmptySeq
    <2>7. buffers'.partial \in Seq(Of(reading')) /\ buffers'.current \in Seq(Of(reading'))
      BY <2>1, <2>2, <2>5 DEF Pending
    <2>8. emitted' \in Seq(OneFile) /\ handle' # 0 /\ (offset' = 0 => buffers' = Empty)
      BY <1>3, <2>1, <2>5, <2>6 DEF Pending
    <2> QED  BY <2>1, <2>3, <2>7, <2>8 DEF One
  <1>23. CASE PollUndecodable
    <2>1. /\ UNCHANGED <<buffers, emitted, reading, handle, tail>> /\ surprises \subseteq surprises'
          /\ pc \in {"poll", "checked"} /\ pc' = "poll" /\ offset' = ReadTo(handle, offset)
      BY <1>23 DEF PollUndecodable, Surprised
    <2>2. One
      BY <1>5, <2>1 DEF Unmixed
    <2>3. offset' = 0 => offset = 0
      <3>1. Len(From(handle, offset)) \in Nat
        BY <1>4, <1>8, <2>1, LenProperties
      <3> QED  BY <1>3, <2>1, <3>1 DEF ReadTo
    <2> QED  BY <1>2, <2>1, <2>2, <2>3 DEF One
  <1> QED
    BY <1>13, <1>14, <1>15, <1>16, <1>17, <1>18, <1>19, <1>20, <1>21, <1>22, <1>23 DEF LocalStep

(* Those of SSHFileFollower do, unless it counts as mixed.                 *)
LEMMA OneSSH ==
  ASSUME TypeInv, OneInv, SSHStep
  PROVE  OneInv'
  <1> SUFFICES ASSUME Unmixed(surprises') PROVE One'
    BY DEF OneInv, Unmixed
  <1>1. FileInv /\ BuffersInv /\ ControlInv
    BY DEF TypeInv
  <1>2. Still /\ Local' = Local
    BY StillIs DEF SSHStep
  <1>3. /\ path # 0 => path \in 1..Len(files)
        /\ offset \in 0..Len(written) /\ offset \in Nat
    <2>1. offset \in Nat
      BY <1>1, FileFacts DEF ControlInv
    <2> QED  BY <1>1, <2>1, FileFacts DEF ControlInv
  <1>4. pc \in {"first", "read", "off", "on", "stat"} => ~Local
    BY <1>1, LocalHere
  <1>5. Unmixed(surprises) => One /\ Pending(reading)
    BY DEF OneInv, Unmixed, One, Pending
  <1>6. \A g : <<>> \in Seq(Of(g))
    BY EmptySeq
  <1>7. buffers = Empty => buffers.partial = <<>> /\ buffers.current = <<>>
    BY DEF Empty
  <1>8. \A g : One /\ buffers = Empty => Pending(g)
    BY <1>6, <1>7 DEF One, Pending
  <1>9. path # 0 => Payload \in Seq(Of(files[path].gen))
    BY <1>1, <1>3, FromFacts DEF Payload
  <1>10. ASSUME Stat, Entered \subseteq surprises', surprises \subseteq surprises'
         PROVE  /\ One /\ Pending(files[path].gen) /\ (handle = 0 => buffers = Empty)
                /\ handle' = path /\ handle' # 0 /\ reading' = files[path].gen
                /\ tail' = tail /\ Local' = FALSE
    <2>1. One /\ Pending(reading) /\ (handle = 0 => buffers = Empty)
      BY <1>5, <1>10 DEF Unmixed, One
    <2>2. "mixed" \notin Entered
      BY <1>10 DEF Unmixed
    <2>3. handle = 0 \/ files[path].gen = reading \/ buffers = Empty
      BY <2>2 DEF Entered
    <2>4. /\ handle' = path /\ handle' # 0 /\ reading' = files[path].gen
          /\ tail' = tail /\ pc \in {"stat", "on"}
      BY <1>10 DEF Stat, AtStat
    <2> QED  BY <1>2, <1>4, <1>8, <2>1, <2>3, <2>4
  <1> USE DEF Still
  <1>11. CASE Connect \/ RemoteMissing \/ ConnectionFails
    <2>1. /\ UNCHANGED <<buffers, emitted, offset, handle, reading, surprises, tail>>
          /\ pc \in {"first", "read", "off", "on", "stat"} /\ pc' \in {"stat", "on", "off"}
      BY <1>11 DEF Connect, RemoteMissing, ConnectionFails, AtStat
    <2> QED  BY <1>2, <1>4, <1>5, <2>1 DEF One
  <1>12. CASE StatIdle
    <2>1. /\ Stat /\ Entered \subseteq surprises' /\ surprises \subseteq surprises' /\ pc' = "on"
          /\ Keep(Now) \/ Keep(Consume(Now, <<>>))
      BY <1>12 DEF StatIdle, Surprised, Flushed
    <2>2. PICK g : g = files[path].gen
      OBVIOUS
    <2>3. One /\ Pending(g) /\ reading' = g /\ handle' # 0 /\ tail' = tail /\ Local' = FALSE
      BY <1>10, <2>1, <2>2
    <2>4. Pending(g)'
      <3>1. CASE Keep(Now)
        <4>1. buffers' = [partial |-> buffers.partial, current |-> buffers.current]
          BY <3>1 DEF Keep, Now
        <4>2. emitted' = emitted
          BY <3>1 DEF Keep, Now
        <4> QED  BY <2>3, <4>1, <4>2 DEF Pending
      <3>2. CASE Keep(Consume(Now, <<>>))
        <4>1. <<>> \in Seq(Of(g))
          BY <1>6
        <4> QED  BY <1>1, <2>3, <3>2, <4>1, PendingRead
      <3> QED  BY <2>1, <3>1, <3>2
    <2> QED  BY <2>1, <2>3, <2>4 DEF One, Pending
  <1>13. CASE FlushLost
    <2>1. /\ Stat /\ Entered \subseteq surprises' /\ surprises \subseteq surprises' /\ pc' = "off"
          /\ buffers' = Empty /\ emitted' = emitted
      BY <1>13 DEF FlushLost, Surprised
    <2>2. One /\ handle' # 0 /\ tail' = tail /\ Local' = FALSE
      BY <1>10, <2>1
    <2>3. buffers'.partial \in Seq(Of(reading')) /\ buffers'.current \in Seq(Of(reading'))
      BY <1>6, <2>1 DEF Empty
    <2> QED  BY <2>1, <2>2, <2>3 DEF One
  <1>14. CASE StatNew
    <2>1. /\ Stat /\ Entered \subseteq surprises' /\ surprises \subseteq surprises'
          /\ pc' = IF handle = 0 THEN "first" ELSE "read"
          /\ UNCHANGED <<buffers, emitted>>
      BY <1>14 DEF StatNew, Surprised
    <2>2. /\ One /\ Pending(files[path].gen) /\ (handle = 0 => buffers = Empty)
          /\ handle' = path /\ handle' # 0 /\ reading' = files[path].gen
          /\ tail' = tail /\ Local' = FALSE
      BY <1>10, <2>1
    <2> QED  BY <1>2, <2>1, <2>2 DEF One, Pending
  <1>15. CASE ReadFirst
    <2>1. /\ pc = "first" /\ pc' = "on" /\ path # 0 /\ UNCHANGED <<buffers, handle, reading, tail>>
          /\ emitted' = emitted \o FirstEvents /\ surprises \subseteq surprises'
      BY <1>15 DEF ReadFirst, Read, Surprised
    <2>2. One /\ ~Local'
      BY <1>2, <1>4, <1>5, <2>1 DEF Unmixed
    <2>3. PICK P, g : P = Of(g) /\ g = files[path].gen
      OBVIOUS
    <2>4. Kept \in Seq(P)
      <3>1. Payload \in Seq(P)
        BY <1>9, <2>1, <2>3
      <3> QED  BY <3>1, KeptIs
    <2>5. FirstEvents \in Seq(OneFile)
      BY <2>3, <2>4, OneTail DEF FirstEvents
    <2>6. emitted' \in Seq(OneFile)
      BY <2>1, <2>2, <2>5, ConcatProperties DEF One
    <2>7. handle # 0
      BY <1>1, <2>1, LocalHere
    <2> QED  BY <2>1, <2>2, <2>6, <2>7 DEF One
  <1>16. CASE ReadNew
    <2>1. /\ pc = "read" /\ pc' = "on" /\ path # 0 /\ UNCHANGED <<handle, reading, tail, surprises>>
          /\ Keep(Consume(Now, Payload))
      BY <1>16 DEF ReadNew, Read
    <2>2. One /\ ~Local' /\ path = handle /\ files[handle].gen = reading /\ handle # 0
      BY <1>1, <1>2, <1>4, <1>5, <2>1, LocalHere DEF One
    <2>3. PICK g : g = reading
      OBVIOUS
    <2>4. Payload \in Seq(Of(g)) /\ Pending(g)
      BY <1>5, <1>9, <2>1, <2>2, <2>3
    <2>5. Pending(g)'
      BY <1>1, <2>1, <2>4, PendingRead
    <2>6. buffers'.partial \in Seq(Of(reading')) /\ buffers'.current \in Seq(Of(reading'))
      BY <2>1, <2>3, <2>5 DEF Pending
    <2>7. emitted' \in Seq(OneFile)
      BY <2>5 DEF Pending
    <2> QED  BY <2>1, <2>2, <2>6, <2>7 DEF One
  <1>17. CASE ReadLost
    <2>1. /\ pc \in {"first", "read"} /\ pc' = "off" /\ path # 0
          /\ UNCHANGED <<handle, reading, tail, emitted>> /\ surprises \subseteq surprises'
      BY <1>17 DEF ReadLost, Surprised
    <2>2. One /\ ~Local' /\ path = handle /\ files[handle].gen = reading /\ handle # 0
      BY <1>1, <1>2, <1>4, <1>5, <2>1, LocalHere DEF One, Unmixed
    <2>3. CASE buffers' = buffers
      BY <2>1, <2>2, <2>3 DEF One
    <2>4. CASE buffers' = [partial |-> Consume(Now, Payload).partial,
                           current |-> Consume(Now, Payload).current]
      <3>1. PICK g : g = reading
        OBVIOUS
      <3>2. PICK a \in Plain(Cell) : a = Now /\ OneOf(a, g)
        <4>1. One
          BY <2>2
        <4> QED  BY <1>1, <3>1, <4>1 DEF BuffersInv, Now, OneOf, One
      <3>3. Payload \in Seq(Of(g))
        BY <1>9, <2>1, <2>2, <3>1
      <3>4. PICK b \in Plain(Cell) : b = Consume(a, Payload) /\ OneOf(b, g)
        BY <3>2, <3>3, OneConsumed
      <3>5. buffers' = [partial |-> b.partial, current |-> b.current]
        BY <2>4, <3>2, <3>4
      <3>6. buffers'.partial \in Seq(Of(reading')) /\ buffers'.current \in Seq(Of(reading'))
        BY <2>1, <3>1, <3>4, <3>5 DEF OneOf
      <3> QED  BY <2>1, <2>2, <3>6 DEF One
    <2> QED  BY <1>17, <2>3, <2>4 DEF ReadLost
  <1> QED
    BY <1>11, <1>12, <1>13, <1>14, <1>15, <1>16, <1>17 DEF SSHStep

(* The end of the loop flushes everything.                                 *)
LEMMA OneFinish ==
  ASSUME TypeInv, OneInv, FinishLocal \/ FinishSSH
  PROVE  OneInv'
  <1> SUFFICES ASSUME Unmixed(surprises') PROVE One'
    BY DEF OneInv, Unmixed
  <1>1. BuffersInv
    BY DEF TypeInv
  <1>2. /\ Keep(FlushAll(Now)) /\ pc' = "done" /\ UNCHANGED <<handle, reading, tail, surprises>>
    BY DEF FinishLocal, FinishSSH
  <1>3. One
    BY <1>2 DEF OneInv, Unmixed
  <1>4. PICK g : g = reading
    OBVIOUS
  <1>5. Pending(g) /\ <<>> \in Seq(Of(g))
    BY <1>3, <1>4, EmptySeq DEF One, Pending
  <1>6. Pending(g)' /\ buffers' = Empty
    BY <1>1, <1>2, <1>5, PendingRead
  <1> QED  BY <1>2, <1>3, <1>4, <1>6 DEF One, Pending

(* Nobody replaces or truncates the file between a stat and its read,      *)
(* unless it counts as swapped.                                            *)
LEMMA OneByWriter ==
  ASSUME TypeInv, OneInv, UNCHANGED <<source, readerVars>>, LogWrite \/ LogMoved \/ LogTruncated
  PROVE  OneInv'
  <1> SUFFICES ASSUME Unmixed(surprises') PROVE One'
    BY DEF OneInv, Unmixed
  <1>1. FileInv /\ ControlInv
    BY DEF TypeInv
  <1>2. One
    <2>1. surprises \subseteq surprises'
      BY DEF LogWrite, LogMoved, LogTruncated, Surprised
    <2> QED  BY <2>1 DEF OneInv, Unmixed
  <1>3. pc \in {"first", "read"} => path' = handle /\ files'[handle].gen = reading
    <2>1. SUFFICES ASSUME pc \in {"first", "read"}
                   PROVE  path' = handle /\ files'[handle].gen = reading
      OBVIOUS
    <2>2. ~Local /\ handle \in 1..Len(files)
      <3>1. ~Local /\ handle # 0 /\ handle \in 0..Len(files) /\ Len(files) \in Nat
        BY <1>1, <2>1, LocalHere, FileFacts DEF ControlInv
      <3> QED  BY <3>1
    <2>3. ~LogMoved /\ ~LogTruncated
      <3>1. "swapped" \in Misses(TRUE)
        BY <2>1, <2>2 DEF Misses, SSHMisses
      <3> QED  BY <3>1 DEF LogMoved, LogTruncated, Surprised, Unmixed
    <2>4. PICK i \in DOMAIN files, stamp \in BOOLEAN, end \in BOOLEAN : Write(i, stamp, end)
      BY <2>3 DEF LogWrite
    <2>5. PICK c : NewCell(i, c)
      BY <1>1, <2>4, WriteIs
    <2> QED  BY <1>2, <2>1, <2>2, <2>5 DEF NewCell, WithCell, One
  <1> QED  BY <1>2, <1>3 DEF One, readerVars, Local

(* It holds at first.                                                      *)
LEMMA OneInit == Init => OneInv
  <1>1. <<>> \in Seq(OneFile) /\ \A g : <<>> \in Seq(Of(g))
    BY EmptySeq
  <1> QED  BY <1>1 DEF Init, OneInv, One, Empty

(* It holds after every step.                                              *)
LEMMA OneSafe == TypeInv /\ OneInv /\ [Next]_vars => OneInv'
  <1> SUFFICES ASSUME TypeInv, OneInv, [Next]_vars PROVE OneInv'
    OBVIOUS
  <1>1. CASE Follow \/ Finish
    BY <1>1, OneLocal, OneSSH, OneFinish DEF Follow, Finish
  <1>2. CASE (LogWrite \/ LogMoved \/ LogTruncated) /\ UNCHANGED <<source, readerVars, failures>>
    BY <1>2, OneByWriter
  <1>3. CASE UNCHANGED vars
    BY <1>3 DEF vars, fileVars, readerVars, OneInv, One, Local
  <1> QED  BY <1>1, <1>2, <1>3 DEF Next

(* Then every event is of one file.                                        *)
LEMMA OneImplied == OneInv => OneFilePerEvent
  <1> SUFFICES ASSUME One, NEW e \in ToSet(emitted), NEW j \in DOMAIN e, NEW k \in DOMAIN e
               PROVE  e[j].gen = e[k].gen
    BY DEF OneInv, OneFilePerEvent
  <1>1. emitted \in Seq(OneFile)
    BY DEF One
  <1>2. e \in OneFile
    BY <1>1, ElementsOf
  <1>3. e \in Seq(Cell) /\ \A m, n \in 1..Len(e) : e[m].gen = e[n].gen
    BY <1>2 DEF OneFile, Lines
  <1>4. DOMAIN e = 1..Len(e)
    BY <1>3, LenProperties
  <1> QED  BY <1>3, <1>4

(* No event holds lines of two files, or of a file before and after its    *)
(* truncation, unless the follower could not see the change: for any       *)
(* sources, sizes and number of files.                                     *)
THEOREM EventsAreOfOneFile == Spec => []OneFilePerEvent
  <1>1. Init => TypeInv /\ OneInv
    BY TypeInit, OneInit
  <1>2. TypeInv /\ OneInv /\ [Next]_vars => TypeInv' /\ OneInv'
    BY TypeSafe, OneSafe
  <1>3. Spec => [](TypeInv /\ OneInv)
    BY <1>1, <1>2, PTL DEF Spec
  <1> QED  BY <1>3, OneImplied, PTL

-----------------------------------------------------------------------------
(* Once, in order.                                                         *)

(* What was taken is what the buffers and the events hold.                 *)
LEMMA TakenIs ==
  ASSUME BuffersInv
  PROVE  /\ Taken = Flat(Now) /\ Taken \in Seq(Cell)
         /\ ToSet(Taken) \subseteq Cell
  <1>1. Taken = Flat(Now)
    BY DEF Taken, Flat, Now
  <1>2. PICK P : P = Cell
    OBVIOUS
  <1>3. PICK a \in Plain(P) : a = Now
    BY <1>2 DEF BuffersInv
  <1>4. Flat(a) \in Seq(P)
    BY <1>3, FlushAllFlat
  <1>5. Taken \in Seq(Cell)
    BY <1>1, <1>2, <1>3, <1>4
  <1> QED  BY <1>1, <1>5, ElementsOf

(* What was taken is what is kept.                                         *)
LEMMA KeepTaken ==
  ASSUME NEW r \in Plain(Cell), Keep(r)
  PROVE  Taken' = Flat(r)
  <1>1. /\ emitted' = r.out
        /\ buffers' = [partial |-> r.partial, current |-> r.current]
    BY KeepIs
  <1> QED  BY <1>1 DEF Taken, Flat

(* A payload is taken after what was taken before, a flush takes nothing.  *)
LEMMA TakenReads ==
  ASSUME BuffersInv, NEW payload \in Seq(Cell),
         \/ Keep(Consume(Now, payload))
         \/ Keep(FlushAll(Consume(Now, payload)))
         \/ Keep(Consume(FlushAll(Now), payload))
  PROVE  Taken' = Taken \o payload
  <1>1. PICK P : P = Cell
    OBVIOUS
  <1>2. PICK a \in Plain(P) : a = Now /\ Flat(a) = Taken
    BY <1>1, TakenIs DEF BuffersInv
  <1>3. PICK q \in Seq(P) : q = payload
    BY <1>1
  <1>4. PICK b \in Plain(P) : b = Consume(a, q) /\ Flat(b) = Flat(a) \o q
    BY PlainKept, ConsumeFlat
  <1>5. PICK d \in Plain(P) : d = FlushAll(b) /\ Flat(d) = Flat(b)
    BY PlainKept, FlushAllFlat
  <1>6. PICK e \in Plain(P) : e = FlushAll(a) /\ Flat(e) = Flat(a)
    BY PlainKept, FlushAllFlat
  <1>7. PICK f \in Plain(P) : f = Consume(e, q) /\ Flat(f) = Flat(e) \o q
    BY PlainKept, ConsumeFlat
  <1>8. Keep(b) \/ Keep(d) \/ Keep(f)
    BY <1>2, <1>3, <1>4, <1>5, <1>6, <1>7
  <1>9. Taken' = Flat(b) \/ Taken' = Flat(d) \/ Taken' = Flat(f)
    BY <1>1, <1>4, <1>5, <1>7, <1>8, KeepTaken
  <1> QED  BY <1>2, <1>3, <1>4, <1>5, <1>6, <1>7, <1>9

(* A flush takes nothing, and loses nothing.                               *)
LEMMA TakenStays ==
  ASSUME BuffersInv, Keep(Now) \/ Keep(FlushAll(Now)) \/ UNCHANGED <<buffers, emitted>>
  PROVE  Taken' = Taken
  <1>1. PICK a \in Plain(Cell) : a = Now /\ Flat(a) = Taken
    BY TakenIs DEF BuffersInv
  <1>2. PICK e \in Plain(Cell) : e = FlushAll(a) /\ Flat(e) = Flat(a)
    BY <1>1, PlainKept, FlushAllFlat
  <1>3. Keep(a) \/ Keep(e) \/ UNCHANGED <<buffers, emitted>>
    BY <1>1, <1>2
  <1>4. UNCHANGED <<buffers, emitted>> => Taken' = Taken
    BY DEF Taken
  <1> QED  BY <1>1, <1>2, <1>3, <1>4, KeepTaken

(* A payload that was read from where the follower was is in order.        *)
LEMMA OrderPayload ==
  ASSUME FileInv, NEW i, i \in 1..Len(files), NEW k \in Nat, NEW t \in Seq(Cell), Increasing(t),
         \A c \in ToSet(t) : ReadAt(c, i, k)
  PROVE  /\ Increasing(t \o From(i, k))
         /\ \A c \in ToSet(t \o From(i, k)) : ReadAt(c, i, ReadTo(i, k))
         /\ \A c \in ToSet(t) : ReadAt(c, i, ReadTo(i, k))
  <1>1. PICK q, n, g : q = files[i].cells /\ n = Size(i) /\ g = files[i].gen
    OBVIOUS
  <1>2. n \in Nat /\ n = Len(q) /\ g \in Nat /\ Content(files[i])
    BY <1>1, FileFacts DEF Size, FileInv
  <1>3. PICK p : p = From(i, k)
    OBVIOUS
  <1>4. /\ p \in Seq(Cell) /\ Increasing(p)
        /\ Len(p) = IF k <= n THEN n - k ELSE 0
        /\ \A c \in ToSet(p) : \E j \in (k + 1)..n : q[j] = c
    BY <1>1, <1>3, FromFacts
  <1>5. \A j \in 1..n : q[j].gen = g
    BY <1>1, <1>2 DEF Content
  <1>6. \A j, m \in 1..n : j < m => q[j].id < q[m].id
    BY <1>1, <1>2 DEF Content
  <1>7. PICK r : r = ReadTo(i, k)
    OBVIOUS
  <1>8. r = (IF k <= n THEN n ELSE k) /\ r \in Nat
    <2>1. k <= n => Len(p) = n - k
      BY <1>4
    <2>2. ~(k <= n) => Len(p) = 0
      BY <1>4
    <2>3. r = k + Len(p)
      BY <1>3, <1>7 DEF ReadTo
    <2> QED  BY <1>2, <2>1, <2>2, <2>3
  <1>9. \A c \in ToSet(t) : /\ c.gen <= g
                            /\ c.gen = g => k <= n /\ \E m \in 1..k : q[m] = c
    BY <1>1 DEF ReadAt
  <1>10. ToSet(t) \subseteq Cell /\ \A c \in Cell : c.gen \in Nat
    <2>1. \A c \in Cell : c.gen \in Nat
      BY DEF Cell
    <2> QED  BY <2>1, ElementsOf
  <1>11. AllEarlier(t, p)
    <2>1. SUFFICES ASSUME NEW c \in ToSet(t), NEW d \in ToSet(p) PROVE Earlier(c, d)
      BY DEF AllEarlier
    <2>2. PICK j \in (k + 1)..n : q[j] = d
      BY <1>4, <2>1
    <2>3. j \in 1..n /\ d.gen = g
      BY <1>2, <1>5, <2>2
    <2>4. CASE c.gen = g
      <3>1. PICK m \in 1..k : q[m] = c
        BY <1>9, <2>1, <2>4
      <3>2. m \in 1..n /\ m < j
        BY <1>2, <2>2, <2>3, <3>1
      <3>3. q[m].id < q[j].id
        BY <1>6, <2>3, <3>2
      <3> QED  BY <2>2, <2>3, <2>4, <3>1, <3>3 DEF Earlier
    <2>5. CASE c.gen # g
      <3>1. c.gen \in Nat /\ c.gen <= g
        BY <1>9, <1>10, <2>1
      <3>2. c.gen < g
        BY <1>2, <2>5, <3>1
      <3> QED  BY <2>3, <3>2 DEF Earlier
    <2> QED  BY <2>4, <2>5
  <1>12. Increasing(t \o p)
    BY <1>4, <1>11, IncreasingJoined
  <1>13. ASSUME NEW c \in ToSet(t)
         PROVE  c.gen <= g /\ (c.gen = g => r <= n /\ \E m \in 1..r : q[m] = c)
    <2>1. c.gen = g => k <= n /\ \E m \in 1..k : q[m] = c
      BY <1>9, <1>13
    <2>2. k <= n => r = n /\ r <= n /\ \A m \in 1..k : m \in 1..r
      BY <1>2, <1>8
    <2> QED  BY <1>9, <1>13, <2>1, <2>2
  <1>14. ASSUME NEW c \in ToSet(p)
         PROVE  c.gen <= g /\ (c.gen = g => r <= n /\ \E m \in 1..r : q[m] = c)
    <2>1. PICK j \in (k + 1)..n : q[j] = c
      BY <1>4, <1>14
    <2>2. k <= n /\ j \in 1..n /\ r = n
      BY <1>2, <1>8, <2>1
    <2> QED  BY <1>2, <1>5, <2>1, <2>2
  <1>15. ToSet(t \o p) = ToSet(t) \cup ToSet(p)
    BY <1>4, ElementsJoined
  <1>16. \A c \in ToSet(t) \cup ToSet(p) : ReadAt(c, i, r)
    BY <1>1, <1>13, <1>14 DEF ReadAt
  <1> QED  BY <1>3, <1>7, <1>12, <1>15, <1>16

(* An end of a sequence in order is in order, and so is what remains when  *)
(* its middle is lost.                                                     *)
LEMMA OrderOfEnd ==
  ASSUME NEW S, NEW z \in Seq(S), NEW r \in Seq(S), Increasing(z \o r)
  PROVE  Increasing(r) /\ ToSet(r) \subseteq ToSet(z \o r)
  <1>1. Increasing(r)
    BY IncreasingJoined
  <1>2. ToSet(z \o r) = ToSet(z) \cup ToSet(r)
    BY ElementsJoined
  <1> QED  BY <1>1, <1>2

(* What remains when the middle is lost is in order.                       *)
LEMMA OrderWithoutMiddle ==
  ASSUME NEW S, NEW x \in Seq(S), NEW y \in Seq(S), NEW z \in Seq(S), Increasing((x \o y) \o z)
  PROVE  Increasing(x \o z) /\ ToSet(x \o z) \subseteq ToSet((x \o y) \o z)
  <1>1. x \o y \in Seq(S)
    BY ConcatProperties
  <1>2. PICK w \in Seq(S) : w = x \o y
    BY <1>1
  <1>3. Increasing(w) /\ Increasing(z) /\ AllEarlier(w, z)
    BY <1>2, IncreasingJoined
  <1>4. Increasing(x) /\ ToSet(w) = ToSet(x) \cup ToSet(y)
    <2>1. Increasing(x)
      BY <1>2, <1>3, IncreasingJoined
    <2> QED  BY <1>2, <2>1, ElementsJoined
  <1>5. AllEarlier(x, z)
    BY <1>3, <1>4 DEF AllEarlier
  <1>6. Increasing(x \o z)
    BY <1>3, <1>4, <1>5, IncreasingJoined
  <1>7. ToSet(x \o z) = ToSet(x) \cup ToSet(z) /\ ToSet(w \o z) = ToSet(w) \cup ToSet(z)
    BY ElementsJoined
  <1> QED  BY <1>2, <1>4, <1>6, <1>7

(* A whole file is read from its beginning.                                *)
LEMMA FromStart ==
  ASSUME FileInv, NEW i, i \in 1..Len(files)
  PROVE  From(i, 0) = files[i].cells /\ ReadTo(i, 0) = Size(i)
  <1>1. files[i].cells \in Seq(Cell) /\ Size(i) = Len(files[i].cells) /\ Size(i) \in Nat
    BY FileFacts DEF Size
  <1>2. From(i, 0) = files[i].cells
    BY <1>1, SubSeqFull DEF From
  <1> QED  BY <1>1, <1>2 DEF ReadTo

\* No moment at which a file could be read out of its turn, or twice.
Orderly(S) == S \cap {"vanished", "swapped"} = {}

(* No tail is in order.                                                    *)
LEMMA NoTail ==
  ASSUME tail' = <<>>
  PROVE  TailOrder'
  <1>1. FlattenSeq(tail)' = <<>> /\ Len(<<>>) = 0 /\ ToSet(<<>>) = {}
    BY FlattenEmpty, EmptySeq DEF ToSet
  <1>2. 1..0 = {}
    OBVIOUS
  <1> QED  BY <1>1, <1>2 DEF TailOrder, Increasing

(* What was taken, or what is taken of a payload, lies before the place    *)
(* that is reached then.                                                   *)
LEMMA OrderReads ==
  ASSUME FileInv, BuffersInv, Still, Increasing(Taken), TailOrder,
         NEW i, i \in 1..Len(files), NEW k \in Nat, \A c \in ToSet(Taken) : ReadAt(c, i, k),
         Taken' = Taken \/ Taken' = Taken \o From(i, k),
         handle' = i, offset' = ReadTo(i, k),
         pc' \notin {"first", "read"}, pc' = "switch" => i < Len(files),
         tail' = tail \/ tail' = <<>>
  PROVE  Order'
  <1>1. PICK t \in Seq(Cell) : t = Taken
    BY TakenIs
  <1>2. /\ Increasing(t \o From(i, k))
        /\ \A c \in ToSet(t \o From(i, k)) : ReadAt(c, i, ReadTo(i, k))
        /\ \A c \in ToSet(t) : ReadAt(c, i, ReadTo(i, k))
    BY <1>1, OrderPayload
  <1>3. Increasing(Taken)' /\ \A c \in ToSet(Taken)' : ReadAt(c, i, ReadTo(i, k))
    <2>1. CASE Taken' = t
      <3>1. Increasing(t)
        BY <1>1
      <3>2. Increasing(Taken)' /\ ToSet(Taken)' = ToSet(t)
        BY <2>1, <3>1 DEF Increasing
      <3> QED  BY <1>2, <3>2
    <2>2. CASE Taken' = t \o From(i, k)
      <3>1. PICK u : u = t \o From(i, k)
        OBVIOUS
      <3>2. Increasing(u) /\ Taken' = u /\ \A c \in ToSet(u) : ReadAt(c, i, ReadTo(i, k))
        BY <1>2, <2>2, <3>1
      <3>3. Increasing(Taken)' /\ ToSet(Taken)' = ToSet(u)
        BY <3>2 DEF Increasing
      <3> QED  BY <3>2, <3>3
    <2> QED  BY <1>1, <2>1, <2>2
  <1>4. \A c \in ToSet(Taken)' : ReadAt(c, handle, offset)'
    BY <1>3 DEF ReadAt, Still, Size
  <1>5. TailOrder'
    <2>1. tail' = tail => TailOrder'
      BY DEF TailOrder, Known, Still
    <2> QED  BY <2>1, NoTail
  <1>6. handle' # 0
    <2>1. Len(files) \in Nat
      BY FileFacts
    <2> QED  BY <2>1
  <1> QED  BY <1>3, <1>4, <1>5, <1>6 DEF Order, Still

(* A step that takes nothing and leaves the place.                         *)
LEMMA OrderStays ==
  ASSUME BuffersInv, Still, Order, Taken' = Taken, handle' = handle, offset' = offset \/ handle = 0,
         pc' \notin {"first", "read", "switch"}, TailOrder'
  PROVE  Order'
  <1>1. Increasing(Taken)' /\ ToSet(Taken)' = ToSet(Taken)
    BY DEF Order, Increasing
  <1>2. handle' # 0 => \A c \in ToSet(Taken)' : ReadAt(c, handle, offset)'
    BY <1>1 DEF Order, ReadAt, Still, Size
  <1>3. handle' = 0 \/ pc' = "first" => Taken' = <<>>
    BY DEF Order
  <1> QED  BY <1>1, <1>2, <1>3 DEF Order

(* The tail of a file is in order, of cells that were written.             *)
LEMMA TailInOrder ==
  ASSUME FileInv, NEW i, i \in 1..Len(files), Still, written' = written,
         tail' = TailEvents(files[i].cells)
  PROVE  TailOrder'
  <1>1. PICK P, q, t : P = Cell /\ q = files[i].cells /\ t = FlattenSeq(TailEvents(q))
    OBVIOUS
  <1>2. q \in Seq(P) /\ Content(files[i])
    BY <1>1, FileFacts DEF FileInv
  <1>3. PICK z \in Seq(P) : q = z \o t
    BY <1>1, <1>2, TailFlat
  <1>4. t \in Seq(P)
    <2>1. TailEvents(q) \in Seq(Lines(Cell))
      BY <1>1, <1>2, TailIsLines
    <2>2. Lines(Cell) \subseteq Seq(Cell)
      BY DEF Lines
    <2>3. TailEvents(q) \in Seq(Seq(Cell))
      BY <2>1, <2>2, SeqMonotonic
    <2> QED  BY <1>1, <2>3, FlattenType
  <1>5. Increasing(q)
    <2>1. Increasing(From(i, 0)) /\ From(i, 0) = q
      <3>1. 0 \in Nat
        OBVIOUS
      <3> QED  BY <1>1, <3>1, FromFacts, FromStart
    <2> QED  BY <2>1
  <1>6. Increasing(t) /\ ToSet(t) \subseteq ToSet(q)
    BY <1>3, <1>4, <1>5, OrderOfEnd
  <1>7. \A c \in ToSet(q) : Known(c)
    <2>1. DOMAIN q = 1..Len(q)
      BY <1>2, LenProperties
    <2> QED  BY <1>1, <1>2, <2>1 DEF Content, Known, ToSet
  <1>8. FlattenSeq(tail)' = t
    BY <1>1
  <1>9. Increasing(FlattenSeq(tail))' /\ ToSet(FlattenSeq(tail))' = ToSet(t)
    BY <1>6, <1>8 DEF Increasing
  <1> QED  BY <1>6, <1>7, <1>9 DEF TailOrder, Known, Still

(* Events that are added when nothing was taken are all that is taken.     *)
LEMMA EventsTaken ==
  ASSUME BuffersInv, Taken = <<>>, NEW more \in Seq(Seq(Cell)), buffers' = buffers,
         emitted' = emitted \o more
  PROVE  Taken' = Taken \o FlattenSeq(more)
  <1>1. PICK x, y, o, t :
            x = buffers.partial /\ y = buffers.current /\ o = emitted /\ t = FlattenSeq(more)
    OBVIOUS
  <1>2. Fields(x, y, o, Cell)
    <2>1. PICK a \in Plain(Cell) : a = Now
      BY DEF BuffersInv
    <2>2. Fields(a.partial, a.current, a.out, Cell)
      BY FieldsOf
    <2> QED  BY <1>1, <2>1, <2>2 DEF Now
  <1>3. /\ x \in Seq(Cell) /\ y \in Seq(Cell) /\ o \in Seq(Seq(Cell))
        /\ FlattenSeq(o) \in Seq(Cell) /\ t \in Seq(Cell)
    BY <1>1, <1>2, FlattenType DEF Fields
  <1>4. (FlattenSeq(o) \o y) \o x = <<>>
    BY <1>1 DEF Taken
  <1>5. FlattenSeq(o) = <<>> /\ y = <<>> /\ x = <<>>
    <2>1. PICK f \in Seq(Cell) : f = FlattenSeq(o)
      BY <1>3
    <2>2. /\ f \o y \in Seq(Cell) /\ Len(f \o y) = Len(f) + Len(y)
          /\ Len((f \o y) \o x) = Len(f \o y) + Len(x)
          /\ Len(f) \in Nat /\ Len(y) \in Nat /\ Len(x) \in Nat
      BY <1>3, ConcatProperties, LenProperties
    <2>3. Len((f \o y) \o x) = 0
      BY <1>4, <2>1, EmptySeq
    <2>4. Len(f) = 0 /\ Len(y) = 0 /\ Len(x) = 0
      BY <2>2, <2>3
    <2> QED  BY <1>3, <2>1, <2>4, EmptySeq
  <1>6. FlattenSeq(o \o more) = FlattenSeq(o) \o t
    BY <1>1, <1>3, FlattenConcat
  <1>7. Taken' = (FlattenSeq(o \o more) \o y) \o x
    BY <1>1 DEF Taken
  <1>8. <<>> \o t = t /\ t \o <<>> = t
    BY <1>3, ConcatEmptySeq
  <1> QED  BY <1>1, <1>5, <1>6, <1>7, <1>8

(* The steps of LocalFileFollower take what comes next.                    *)
LEMMA OrderLocal ==
  ASSUME TypeInv, OrderInv, LocalStep
  PROVE  OrderInv'
  <1> SUFFICES ASSUME Orderly(surprises') PROVE Order'
    BY DEF OrderInv, Orderly
  <1>1. FileInv /\ BuffersInv /\ ControlInv
    BY DEF TypeInv
  <1>2. Still
    BY StillIs DEF LocalStep
  <1>3. surprises \subseteq surprises' \/ PathVanished
    BY DEF LocalStep, InitializeMissing, TailUndecodable, ReadTail, OpenAfterTail, OpenFails,
           PollMissing, PollExists, PollRotated, SwitchFile, PollTruncated, PollFile,
           PollUndecodable, Surprised
  <1>4. ~PathVanished
    BY DEF PathVanished, Surprised, Orderly
  <1>5. Order
    BY <1>3, <1>4 DEF OrderInv, Orderly
  <1>6. /\ Len(files) \in Nat /\ path \in 0..Len(files) /\ handle \in 0..Len(files)
        /\ offset \in Nat /\ (path # 0 => path = Len(files))
        /\ \A i \in 1..Len(files) : Size(i) \in Nat /\ files[i].gen \in Nat
        /\ \A i, j \in 1..Len(files) : i < j => files[i].gen < files[j].gen
        /\ path # 0 => files[path].gen = generation
        /\ generation \in Nat /\ Len(written) \in Nat
    <2>1. offset \in Nat /\ handle \in 0..Len(files)
      BY <1>1, FileFacts DEF ControlInv
    <2> QED  BY <1>1, <2>1, FileFacts DEF FileInv
  <1>7. /\ pc \in {"poll", "checked", "switch"} => handle \in 1..Len(files)
        /\ pc \in {"new", "start", "tail"} => handle = 0 /\ Taken = <<>>
        /\ pc # "tail" => tail = <<>>
        /\ path # 0 => path \in 1..Len(files)
    BY <1>1, <1>5, <1>6, LocalHere DEF ControlInv, Order
  <1>8. /\ handle # 0 => From(handle, offset) \in Seq(Cell)
        /\ \A c \in ToSet(Taken) : c.gen \in Nat
    <2>1. \A c \in Cell : c.gen \in Nat
      BY DEF Cell
    <2>2. handle # 0 => handle \in 1..Len(files)
      BY <1>6
    <2> QED  BY <1>1, <1>6, <2>1, <2>2, FromFacts, TakenIs
  <1>9. /\ Increasing(Taken) /\ TailOrder
        /\ handle # 0 => \A c \in ToSet(Taken) : ReadAt(c, handle, offset)
    BY <1>5 DEF Order
  <1>10. tail' = <<>> => TailOrder'
    BY NoTail
  <1>11. CASE InitializeMissing \/ TailUndecodable \/ OpenFails \/ PollExists
    <2>1. /\ UNCHANGED <<buffers, emitted, handle, offset>> /\ tail' = <<>>
          /\ pc' \notin {"first", "read", "switch"}
      BY <1>7, <1>11 DEF InitializeMissing, TailUndecodable, OpenFails, PollExists, Uninitialized
    <2>2. Taken' = Taken
      BY <1>1, <2>1, TakenStays
    <2> QED  BY <1>1, <1>2, <1>5, <1>10, <2>1, <2>2, OrderStays
  <1>12. CASE ReadTail
    <2>1. /\ UNCHANGED <<buffers, emitted, handle, offset>> /\ path \in 1..Len(files)
          /\ tail' = TailEvents(files[path].cells) /\ pc' \notin {"first", "read", "switch"}
      BY <1>7, <1>12 DEF ReadTail, Uninitialized
    <2>2. Taken' = Taken
      BY <1>1, <2>1, TakenStays
    <2>3. TailOrder'
      BY <1>1, <1>2, <2>1, TailInOrder DEF Still
    <2> QED  BY <1>1, <1>2, <1>5, <2>1, <2>2, <2>3, OrderStays
  <1>13. CASE OpenAfterTail
    <2>1. /\ pc = "tail" /\ path \in 1..Len(files) /\ handle' = path /\ offset' = Size(path)
          /\ emitted' = emitted \o tail /\ buffers' = buffers /\ tail' = <<>> /\ pc' = "poll"
      BY <1>7, <1>13 DEF OpenAfterTail, OpenAt
    <2>2. PICK t : t = FlattenSeq(tail)
      OBVIOUS
    <2>3. Taken' = t
      <3>1. tail \in Seq(Seq(Cell)) /\ t \in Seq(Cell)
        <4>1. Lines(Cell) \subseteq Seq(Cell)
          BY DEF Lines
        <4>2. tail \in Seq(Seq(Cell))
          BY <1>1, <4>1, SeqMonotonic DEF BuffersInv
        <4> QED  BY <2>2, <4>2, FlattenType
      <3>2. Taken = <<>>
        BY <1>7, <2>1
      <3>3. Taken' = Taken \o t
        BY <1>1, <2>1, <2>2, <3>1, <3>2, EventsTaken
      <3> QED  BY <3>1, <3>2, <3>3, ConcatEmptySeq
    <2>4. Increasing(t) /\ \A c \in ToSet(t) : Known(c)
      BY <1>9, <2>2 DEF TailOrder
    <2>5. \A c \in ToSet(t) : ReadAt(c, path, Size(path))
      <3>1. SUFFICES ASSUME NEW c \in ToSet(t) PROVE ReadAt(c, path, Size(path))
        OBVIOUS
      <3>2. c.id \in 1..Len(written) /\ written[c.id] = c
        BY <2>4, <3>1 DEF Known
      <3>3. c.gen <= generation
        BY <1>1, <3>2 DEF FileInv
      <3>4. c.gen = files[path].gen => \E k \in 1..Size(path) : files[path].cells[k] = c
        <4>1. PICK f : f = files[path]
          OBVIOUS
        <4>2. Content(f)
          BY <1>1, <2>1, <4>1 DEF FileInv
        <4>3. c.gen = f.gen => \E k \in 1..Len(f.cells) : f.cells[k] = c
          BY <3>2, <4>2 DEF Content
        <4> QED  BY <4>1, <4>3 DEF Size
      <3>5. Size(path) <= Size(path) /\ files[path].gen = generation
        BY <1>6, <2>1
      <3> QED  BY <3>3, <3>4, <3>5 DEF ReadAt
    <2>6. Increasing(Taken)' /\ ToSet(Taken)' = ToSet(t)
      BY <2>3, <2>4 DEF Increasing
    <2>7. \A c \in ToSet(Taken)' : ReadAt(c, handle, offset)'
      BY <1>2, <2>1, <2>5, <2>6 DEF ReadAt, Still, Size
    <2>8. TailOrder' /\ handle' # 0
      BY <1>6, <1>10, <2>1
    <2> QED  BY <2>1, <2>6, <2>7, <2>8 DEF Order
  <1>14. CASE PollMissing
    <2>1. /\ handle \in 1..Len(files) /\ handle' = handle /\ offset' = ReadTo(handle, offset)
          /\ Keep(FlushAll(Consume(Now, From(handle, offset)))) /\ tail' = tail /\ pc' = "poll"
      BY <1>7, <1>14 DEF PollMissing
    <2>2. Taken' = Taken \o From(handle, offset)
      BY <1>1, <1>6, <1>8, <2>1, TakenReads
    <2>3. \A c \in ToSet(Taken) : ReadAt(c, handle, offset)
      BY <1>6, <1>9, <2>1
    <2> QED  BY <1>1, <1>2, <1>6, <1>9, <2>1, <2>2, <2>3, OrderReads
  <1>15. CASE PollRotated
    <2>1. /\ handle \in 1..Len(files) /\ handle' = handle /\ offset' = ReadTo(handle, offset)
          /\ tail' = tail /\ pc' = "switch" /\ handle < Len(files)
      BY <1>6, <1>7, <1>15 DEF PollRotated
    <2>2. From(handle, offset) \in Seq(Cell) /\ handle # 0
      BY <1>6, <1>8, <2>1
    <2>3. Keep(FlushAll(Consume(Now, From(handle, offset))))
      BY <1>1, <1>15, <2>2, DrainedKept DEF PollRotated, Drained
    <2>4. Taken' = Taken \o From(handle, offset)
      BY <1>1, <2>2, <2>3, TakenReads
    <2>5. \A c \in ToSet(Taken) : ReadAt(c, handle, offset)
      BY <1>9, <2>2
    <2> QED  BY <1>1, <1>2, <1>6, <1>9, <2>1, <2>4, <2>5, OrderReads
  <1>16. CASE SwitchFile
    <2>1. /\ pc = "switch" /\ path \in 1..Len(files) /\ handle' = path /\ offset' = Size(path)
          /\ Keep(Consume(Now, files[path].cells)) /\ tail' = tail /\ pc' = "poll"
      BY <1>7, <1>16 DEF SwitchFile
    <2>2. files[path].cells \in Seq(Cell) /\ From(path, 0) = files[path].cells
          /\ ReadTo(path, 0) = Size(path)
      BY <1>1, <2>1, CellsOf, FromStart
    <2>3. Taken' = Taken \o From(path, 0)
      BY <1>1, <2>1, <2>2, TakenReads
    <2>4. \A c \in ToSet(Taken) : ReadAt(c, path, 0)
      <3>1. handle \in 1..Len(files) /\ handle < path /\ handle # 0
        BY <1>5, <1>6, <1>7, <2>1 DEF Order
      <3>2. files[handle].gen < files[path].gen
        BY <1>6, <2>1, <3>1
      <3>3. \A c \in ToSet(Taken) : c.gen <= files[handle].gen
        BY <1>9, <3>1 DEF ReadAt
      <3>4. files[handle].gen \in Nat /\ files[path].gen \in Nat
        BY <1>6, <2>1, <3>1
      <3>5. \A c \in ToSet(Taken) : c.gen < files[path].gen
        BY <1>8, <3>2, <3>3, <3>4
      <3> QED  BY <1>8, <3>4, <3>5 DEF ReadAt
    <2>5. 0 \in Nat
      OBVIOUS
    <2> QED  BY <1>1, <1>2, <1>9, <2>1, <2>2, <2>3, <2>4, <2>5, OrderReads
  <1>17. CASE PollTruncated
    <2>1. /\ handle \in 1..Len(files) /\ handle' = handle /\ offset' = Size(handle)
          /\ Size(handle) < offset /\ tail' = tail /\ pc' = "poll"
          /\ Keep(Consume(FlushAll(Now), files[handle].cells))
      BY <1>7, <1>17 DEF PollTruncated, Truncated
    <2>2. files[handle].cells \in Seq(Cell) /\ From(handle, 0) = files[handle].cells
          /\ ReadTo(handle, 0) = Size(handle)
      BY <1>1, <2>1, CellsOf, FromStart
    <2>3. Taken' = Taken \o From(handle, 0)
      BY <1>1, <2>1, <2>2, TakenReads
    <2>4. \A c \in ToSet(Taken) : ReadAt(c, handle, 0)
      <3>1. ~(offset <= Size(handle)) /\ handle # 0
        BY <1>6, <2>1
      <3> QED  BY <1>9, <3>1 DEF ReadAt
    <2>5. 0 \in Nat
      OBVIOUS
    <2> QED  BY <1>1, <1>2, <1>9, <2>1, <2>2, <2>3, <2>4, <2>5, OrderReads
  <1>18. CASE PollFile
    <2>1. /\ handle \in 1..Len(files) /\ handle' = handle /\ offset' = ReadTo(handle, offset)
          /\ Keep(Consume(Now, From(handle, offset))) /\ tail' = tail /\ pc' = "poll"
      BY <1>7, <1>18 DEF PollFile
    <2>2. Taken' = Taken \o From(handle, offset)
      BY <1>1, <1>6, <1>8, <2>1, TakenReads
    <2>3. \A c \in ToSet(Taken) : ReadAt(c, handle, offset)
      BY <1>6, <1>9, <2>1
    <2> QED  BY <1>1, <1>2, <1>6, <1>9, <2>1, <2>2, <2>3, OrderReads
  <1>19. CASE PollUndecodable
    <2>1. /\ handle \in 1..Len(files) /\ handle' = handle /\ offset' = ReadTo(handle, offset)
          /\ UNCHANGED <<buffers, emitted>> /\ tail' = tail /\ pc' = "poll"
      BY <1>7, <1>19 DEF PollUndecodable
    <2>2. Taken' = Taken
      BY <1>1, <2>1, TakenStays
    <2>3. \A c \in ToSet(Taken) : ReadAt(c, handle, offset)
      BY <1>6, <1>9, <2>1
    <2> QED  BY <1>1, <1>2, <1>6, <1>9, <2>1, <2>2, <2>3, OrderReads
  <1> QED
    BY <1>4, <1>11, <1>12, <1>13, <1>14, <1>15, <1>16, <1>17, <1>18, <1>19 DEF LocalStep

(* Sequences one after the other.                                          *)
Four(f, m, y, x, P) == f \in Seq(P) /\ m \in Seq(P) /\ y \in Seq(P) /\ x \in Seq(P)

\* How they are joined does not matter.
Thrice(f, m, y, x, P) ==
    /\ y \o x \in Seq(P)
    /\ ((f \o m) \o y) \o x = (f \o m) \o (y \o x)
    /\ (f \o y) \o x = f \o (y \o x)

(* Joining is associative, three times and four.                           *)
LEMMA JoinedThrice ==
  ASSUME NEW P, NEW f, NEW m, NEW y, NEW x, Four(f, m, y, x, P)
  PROVE  Thrice(f, m, y, x, P)
  <1>1. f \o m \in Seq(P) /\ y \o x \in Seq(P)
    BY ConcatProperties DEF Four
  <1>2. PICK v \in Seq(P) : v = f \o m
    BY <1>1
  <1>3. (v \o y) \o x = v \o (y \o x)
    <2>1. Three(v, y, x, P)
      BY <1>2 DEF Three, Four
    <2> QED  BY <2>1, Regroup
  <1>4. (f \o y) \o x = f \o (y \o x)
    <2>1. Three(f, y, x, P)
      BY DEF Three, Four
    <2> QED  BY <2>1, Regroup
  <1> QED  BY <1>1, <1>2, <1>3, <1>4 DEF Thrice

(* Events, with more of them and what is pending after them.               *)
Regrouped(x, y, o, w, P) ==
    \E f \in Seq(P), m \in Seq(P), e \in Seq(P) :
        /\ (FlattenSeq(w) \o y) \o x = (f \o m) \o e
        /\ (FlattenSeq(o) \o y) \o x = f \o e

(* The events, with and without those that were added, before what is      *)
(* pending.                                                                *)
LEMMA EventsRegrouped ==
  ASSUME NEW P, NEW x, NEW y, NEW o, NEW z, NEW w, Fields(x, y, o, P), z \in Seq(Seq(P)), w = o \o z
  PROVE  Regrouped(x, y, o, w, P)
  <1>1. PICK f, m : f = FlattenSeq(o) /\ m = FlattenSeq(z)
    OBVIOUS
  <1>2. FlattenSeq(w) = f \o m /\ f \in Seq(P) /\ m \in Seq(P)
    BY <1>1, FlattenType, FlattenConcat DEF Fields
  <1>3. Thrice(f, m, y, x, P)
    <2>1. Four(f, m, y, x, P)
      BY <1>2 DEF Four, Fields
    <2> QED  BY <2>1, JoinedThrice
  <1>4. PICK e \in Seq(P) : e = y \o x
    BY <1>3 DEF Thrice
  <1> QED  BY <1>1, <1>2, <1>3, <1>4 DEF Thrice, Regrouped

(* What is lost of a payload that was decoded leaves the rest in order.    *)
LEMMA LostMiddle ==
  ASSUME BuffersInv, NEW payload \in Seq(Cell), Increasing(Taken \o payload), emitted' = emitted,
         NEW b \in Plain(Cell), b = Consume(Now, payload),
         buffers' = [partial |-> b.partial, current |-> b.current]
  PROVE  Increasing(Taken)' /\ ToSet(Taken)' \subseteq ToSet(Taken \o payload)
  <1>1. PICK P : P = Cell
    OBVIOUS
  <1>2. PICK a \in Plain(P) : a = Now /\ Flat(a) = Taken
    BY <1>1, TakenIs DEF BuffersInv
  <1>3. /\ b \in Plain(P) /\ b = Consume(a, payload)
        /\ Flat(b) = Flat(a) \o payload /\ Longer(a.out, b.out, Seq(P))
    <2>1. PICK q \in Seq(P) : q = payload
      BY <1>1
    <2>2. PICK c \in Plain(P) : c = Consume(a, q)
      BY PlainKept
    <2>3. Flat(c) = Flat(a) \o q
      BY <2>2, ConsumeFlat
    <2>4. Longer(a.out, c.out, Seq(P))
      BY <2>2, ConsumeGrows
    <2> QED  BY <1>1, <1>2, <2>1, <2>2, <2>3, <2>4
  <1>4. PICK x, y, o : x = b.partial /\ y = b.current /\ o = a.out
    OBVIOUS
  <1>5. PICK z \in Seq(Seq(P)) : b.out = o \o z
    BY <1>3, <1>4 DEF Longer
  <1>6. Fields(x, y, o, P)
    <2>1. Fields(b.partial, b.current, b.out, P) /\ Fields(a.partial, a.current, a.out, P)
      BY <1>3, FieldsOf
    <2> QED  BY <1>4, <2>1 DEF Fields
  <1>7. PICK w : w = o \o z
    OBVIOUS
  <1>8. Regrouped(x, y, o, w, P)
    BY <1>5, <1>6, <1>7, EventsRegrouped
  <1>9. PICK f \in Seq(P), m \in Seq(P), e \in Seq(P) :
            /\ (FlattenSeq(w) \o y) \o x = (f \o m) \o e
            /\ (FlattenSeq(o) \o y) \o x = f \o e
    BY <1>8 DEF Regrouped
  <1>10. Flat(b) = (f \o m) \o e
    <2>1. b = [partial |-> x, current |-> y, out |-> w]
      BY <1>4, <1>5, <1>7, FieldsOf
    <2>2. Flat(b) = (FlattenSeq(w) \o y) \o x
      BY <2>1, FlatIs
    <2> QED  BY <1>9, <2>2
  <1>11. Taken' = f \o e
    <2>1. buffers'.partial = x /\ buffers'.current = y /\ emitted' = o
      BY <1>2, <1>4 DEF Now
    <2>2. Taken' = (FlattenSeq(o) \o y) \o x
      BY <2>1 DEF Taken
    <2> QED  BY <1>9, <2>2
  <1>12. Increasing((f \o m) \o e)
    <2>1. PICK u : u = (f \o m) \o e
      OBVIOUS
    <2>2. u = Taken \o payload
      BY <1>2, <1>3, <1>10, <2>1
    <2> QED  BY <2>1, <2>2
  <1>13. Increasing(f \o e) /\ ToSet(f \o e) \subseteq ToSet((f \o m) \o e)
    BY <1>12, OrderWithoutMiddle
  <1>14. ToSet((f \o m) \o e) = ToSet(Taken \o payload)
    <2>1. PICK u : u = (f \o m) \o e
      OBVIOUS
    <2>2. u = Taken \o payload
      BY <1>2, <1>3, <1>10, <2>1
    <2> QED  BY <2>1, <2>2
  <1>15. PICK t : t = f \o e
    OBVIOUS
  <1>16. Taken' = t /\ Increasing(t) /\ ToSet(t) \subseteq ToSet(Taken \o payload)
    BY <1>11, <1>13, <1>14, <1>15
  <1> QED  BY <1>16 DEF Increasing

(* So does what is lost of the pending event.                              *)
LEMMA LostEnd ==
  ASSUME BuffersInv, Increasing(Taken), emitted' = emitted, buffers' = Empty
  PROVE  Increasing(Taken)' /\ ToSet(Taken)' \subseteq ToSet(Taken)
  <1>1. PICK x, y, o : x = buffers.partial /\ y = buffers.current /\ o = emitted
    OBVIOUS
  <1>2. x \in Seq(Cell) /\ y \in Seq(Cell) /\ o \in Seq(Seq(Cell))
    <2>1. PICK a \in Plain(Cell) : a = Now
      BY DEF BuffersInv
    <2>2. Fields(a.partial, a.current, a.out, Cell)
      BY FieldsOf
    <2> QED  BY <1>1, <2>1, <2>2 DEF Now, Fields
  <1>3. PICK f \in Seq(Cell) : f = FlattenSeq(o)
    BY <1>2, FlattenType
  <1>4. PICK e \in Seq(Cell) : e = y \o x
    BY <1>2, ConcatProperties
  <1>5. Taken = f \o e
    <2>1. Taken = (f \o y) \o x
      BY <1>1, <1>3 DEF Taken
    <2>2. (f \o y) \o x = f \o (y \o x)
      BY <1>2, ConcatAssociative, SMTT(30)
    <2> QED  BY <1>4, <2>1, <2>2
  <1>6. Taken' = f
    <2>1. Taken' = (f \o <<>>) \o <<>>
      BY <1>1, <1>3 DEF Taken, Empty
    <2> QED  BY <2>1, ConcatEmptySeq
  <1>7. Increasing(f) /\ ToSet(f) \subseteq ToSet(f \o e)
    <2>1. PICK u : u = f \o e
      OBVIOUS
    <2>2. Increasing(f \o e)
      BY <1>5, <2>1
    <2>3. Increasing(f)
      BY <2>2, IncreasingJoined
    <2>4. ToSet(f \o e) = ToSet(f) \cup ToSet(e)
      BY ElementsJoined
    <2> QED  BY <2>3, <2>4
  <1>8. ToSet(Taken) = ToSet(f \o e)
    <2>1. PICK u : u = f \o e
      OBVIOUS
    <2> QED  BY <1>5, <2>1
  <1> QED  BY <1>6, <1>7, <1>8 DEF Increasing

(* The place that a stat finds lies behind what was taken.                 *)
LEMMA OrderAtStat ==
  ASSUME TypeInv, Order, path # 0
  PROVE  /\ \A c \in ToSet(Taken) : ReadAt(c, path, StatOffset)
         /\ path \in 1..Len(files)
  <1>1. FileInv /\ BuffersInv /\ ControlInv
    BY DEF TypeInv
  <1>2. /\ path \in 1..Len(files) /\ path = Len(files)
        /\ handle = 0 \/ StatOffset \in {0, offset}
        /\ handle \in 0..Len(files) /\ Len(files) \in Nat /\ offset \in Nat
        /\ \A i \in 1..Len(files) : Size(i) \in Nat /\ files[i].gen \in Nat
        /\ \A i, j \in 1..Len(files) : i < j => files[i].gen < files[j].gen
    <2>1. offset \in Nat /\ handle \in 0..Len(files)
      BY <1>1, FileFacts DEF ControlInv
    <2> QED  BY <1>1, <2>1, FileFacts, StatFacts DEF FileInv
  <1>3. \A c \in ToSet(Taken) : c.gen \in Nat
    <2>1. \A c \in Cell : c.gen \in Nat
      BY DEF Cell
    <2> QED  BY <1>1, <2>1, TakenIs
  <1>4. CASE handle = 0
    <2>1. ToSet(<<>>) = {}
      BY EmptySeq DEF ToSet
    <2> QED  BY <1>2, <1>4, <2>1 DEF Order
  <1>5. CASE handle # 0 /\ handle = path
    <2>1. \A c \in ToSet(Taken) : ReadAt(c, path, offset)
      BY <1>5 DEF Order
    <2>2. StatOffset = offset \/ (StatOffset = 0 /\ ~(offset <= Size(path)))
      BY <1>2, <1>5 DEF StatOffset
    <2> QED  BY <1>2, <2>1, <2>2 DEF ReadAt
  <1>6. CASE handle # 0 /\ handle # path
    <2>1. handle \in 1..Len(files) /\ handle < path
      BY <1>2, <1>6
    <2>2. files[handle].gen < files[path].gen
      BY <1>2, <2>1
    <2>3. \A c \in ToSet(Taken) : c.gen <= files[handle].gen
      BY <1>6 DEF Order, ReadAt
    <2>4. files[handle].gen \in Nat /\ files[path].gen \in Nat
      BY <1>2, <2>1
    <2>5. \A c \in ToSet(Taken) : c.gen < files[path].gen
      BY <1>3, <2>2, <2>3, <2>4
    <2> QED  BY <1>2, <1>3, <2>4, <2>5 DEF ReadAt
  <1> QED  BY <1>4, <1>5, <1>6

(* The steps of SSHFileFollower take what comes next, or lose it.          *)
LEMMA OrderSSH ==
  ASSUME TypeInv, OrderInv, SSHStep
  PROVE  OrderInv'
  <1> SUFFICES ASSUME Orderly(surprises') PROVE Order'
    BY DEF OrderInv, Orderly
  <1>1. FileInv /\ BuffersInv /\ ControlInv
    BY DEF TypeInv
  <1>2. Still
    BY StillIs DEF SSHStep
  <1>3. surprises \subseteq surprises'
    BY DEF SSHStep, Connect, RemoteMissing, ConnectionFails, StatIdle, FlushLost, StatNew,
           ReadFirst, ReadNew, ReadLost, Surprised
  <1>4. Order
    BY <1>3 DEF OrderInv, Orderly
  <1>5. /\ path # 0 => path \in 1..Len(files) /\ Payload \in Seq(Cell)
        /\ offset \in Nat /\ Payload = From(path, offset)
    <2>1. offset \in Nat
      BY <1>1, FileFacts DEF ControlInv
    <2>2. path # 0 => path \in 1..Len(files)
      BY <1>1, FileFacts
    <2> QED  BY <1>1, <2>1, <2>2, FromFacts DEF Payload
  <1>6. /\ pc \in {"first", "read"} => handle # 0 /\ tail = <<>> /\ path = handle
        /\ pc \in {"off", "on", "stat"} => tail = <<>>
    BY <1>1, <1>4, LocalHere DEF ControlInv, Order
  <1>7. Increasing(Taken) /\ TailOrder
    BY <1>4 DEF Order
  <1>8. ASSUME Stat
        PROVE  /\ path # 0 /\ \A c \in ToSet(Taken) : ReadAt(c, path, StatOffset)
               /\ handle' = path /\ offset' = StatOffset /\ tail' = <<>>
    BY <1>4, <1>6, <1>8, OrderAtStat DEF Stat, AtStat
  <1>9. tail' = <<>> => TailOrder'
    BY NoTail
  <1>10. CASE Connect \/ RemoteMissing \/ ConnectionFails
    <2>1. /\ UNCHANGED <<buffers, emitted, offset, handle>> /\ tail' = <<>>
          /\ pc' \in {"stat", "on", "off"}
      BY <1>6, <1>10 DEF Connect, RemoteMissing, ConnectionFails, AtStat
    <2>2. Taken' = Taken
      BY <1>1, <2>1, TakenStays
    <2> QED  BY <1>1, <1>2, <1>4, <1>9, <2>1, <2>2, OrderStays
  \* A stat that loses nothing or the end of what was taken.
  <1>11. ASSUME Stat, Increasing(Taken)', ToSet(Taken)' \subseteq ToSet(Taken),
                pc' = "first" => Taken' = <<>>, pc' # "switch"
         PROVE  Order'
    <2>1. \A c \in ToSet(Taken)' : ReadAt(c, handle, offset)'
      BY <1>2, <1>8, <1>11 DEF ReadAt, Still, Size
    <2> QED  BY <1>2, <1>8, <1>9, <1>11, <2>1 DEF Order, Still
  <1>12. CASE StatIdle
    <2>1. Stat /\ pc' = "on" /\ (Keep(Now) \/ Keep(Consume(Now, <<>>)))
      BY <1>12 DEF StatIdle, Flushed
    <2>2. Taken' = Taken
      <3>1. CASE Keep(Now)
        BY <1>1, <3>1, TakenStays
      <3>2. CASE Keep(Consume(Now, <<>>))
        <4>1. Taken' = Taken \o <<>>
          BY <1>1, <3>2, EmptySeq, TakenReads
        <4> QED  BY <1>1, <4>1, TakenIs, ConcatEmptySeq
      <3> QED  BY <2>1, <3>1, <3>2
    <2>3. Increasing(Taken)' /\ ToSet(Taken)' = ToSet(Taken)
      BY <1>7, <2>2 DEF Increasing
    <2> QED  BY <1>11, <2>1, <2>3
  <1>13. CASE FlushLost
    <2>1. Stat /\ pc' = "off" /\ buffers' = Empty /\ emitted' = emitted
      BY <1>13 DEF FlushLost
    <2>2. Increasing(Taken)' /\ ToSet(Taken)' \subseteq ToSet(Taken)
      BY <1>1, <1>7, <2>1, LostEnd
    <2> QED  BY <1>11, <2>1, <2>2
  <1>14. CASE StatNew
    <2>1. /\ Stat /\ UNCHANGED <<buffers, emitted>>
          /\ pc' = IF handle = 0 THEN "first" ELSE "read"
      BY <1>14 DEF StatNew
    <2>2. Taken' = Taken
      BY <1>1, <2>1, TakenStays
    <2>3. Increasing(Taken)' /\ ToSet(Taken)' = ToSet(Taken)
      BY <1>7, <2>2 DEF Increasing
    <2>4. pc' = "first" => Taken' = <<>>
      BY <1>4, <2>1, <2>2 DEF Order
    <2> QED  BY <1>11, <2>1, <2>3, <2>4
  <1>15. CASE ReadFirst
    <2>1. /\ pc = "first" /\ pc' = "on" /\ path # 0 /\ tail' = tail /\ buffers' = buffers
          /\ handle' = handle /\ offset' = offset + Len(Payload)
          /\ emitted' = emitted \o FirstEvents
      BY <1>15 DEF ReadFirst, Read
    <2>2. PICK P, t : P = Cell /\ t = FlattenSeq(FirstEvents)
      OBVIOUS
    <2>3. PICK p, k : p = Payload /\ k = Kept
      OBVIOUS
    <2>4. PICK z \in Seq(P) : p = z \o k /\ k \in Seq(P)
      <3>1. Payload \in Seq(P)
        BY <1>5, <2>1, <2>2
      <3> QED  BY <2>3, <3>1, KeptIs
    <2>5. PICK y \in Seq(P) : k = y \o t
      <3>1. t = FlattenSeq(TailEvents(k))
        BY <2>2, <2>3 DEF FirstEvents
      <3> QED  BY <2>4, <3>1, TailFlat
    <2>6. FirstEvents \in Seq(Seq(Cell)) /\ t \in Seq(P)
      <3>1. TailEvents(k) \in Seq(Lines(Cell))
        BY <2>2, <2>4, TailIsLines
      <3>2. Lines(Cell) \subseteq Seq(Cell)
        BY DEF Lines
      <3>3. FirstEvents \in Seq(Seq(Cell))
        BY <2>3, <3>1, <3>2, SeqMonotonic DEF FirstEvents
      <3> QED  BY <2>2, <3>3, FlattenType
    <2>7. Increasing(t) /\ ToSet(t) \subseteq ToSet(p)
      <3>1. Increasing(p)
        BY <1>1, <1>5, <2>1, <2>3, FromFacts
      <3>2. Increasing(k) /\ ToSet(k) \subseteq ToSet(p)
        BY <2>4, <3>1, OrderOfEnd
      <3>3. Increasing(t) /\ ToSet(t) \subseteq ToSet(k)
        BY <2>5, <2>6, <3>2, OrderOfEnd
      <3> QED  BY <3>2, <3>3
    <2>8. Taken' = t
      <3>1. Taken = <<>>
        BY <1>4, <2>1 DEF Order
      <3>2. Taken' = Taken \o t
        BY <1>1, <2>1, <2>2, <2>6, <3>1, EventsTaken
      <3> QED  BY <2>2, <2>6, <3>1, <3>2, ConcatEmptySeq
    <2>9. \A c \in ToSet(p) : ReadAt(c, path, ReadTo(path, offset))
      <3>1. /\ <<>> \in Seq(Cell) /\ ToSet(<<>>) = {} /\ Increasing(<<>>)
        <4>1. Len(<<>>) = 0 /\ <<>> \in Seq(Cell) /\ 1..0 = {}
          BY EmptySeq
        <4> QED  BY <4>1, EmptySeq DEF Increasing, ToSet
      <3>2. \A c \in ToSet(<<>> \o From(path, offset)) : ReadAt(c, path, ReadTo(path, offset))
        <4>1. PICK e \in Seq(Cell) : e = <<>> /\ ToSet(e) = {} /\ Increasing(e)
          BY <3>1
        <4>2. \A c \in ToSet(e \o From(path, offset)) : ReadAt(c, path, ReadTo(path, offset))
          BY <1>1, <1>5, <2>1, <4>1, OrderPayload
        <4> QED  BY <4>1, <4>2
      <3>3. <<>> \o From(path, offset) = p /\ p \in Seq(Cell)
        BY <1>5, <2>1, <2>3, ConcatEmptySeq
      <3> QED  BY <3>2, <3>3
    <2>10. Increasing(Taken)' /\ ToSet(Taken)' \subseteq ToSet(p)
      BY <2>7, <2>8 DEF Increasing
    <2>11. offset' = ReadTo(path, offset) /\ handle' = path /\ handle' # 0 /\ tail' = <<>>
      BY <1>5, <1>6, <2>1 DEF ReadTo
    <2>12. \A c \in ToSet(Taken)' : ReadAt(c, handle, offset)'
      BY <1>2, <2>9, <2>10, <2>11 DEF ReadAt, Still, Size
    <2> QED  BY <1>9, <2>1, <2>10, <2>11, <2>12 DEF Order
  <1>16. CASE ReadNew
    <2>1. /\ pc = "read" /\ pc' = "on" /\ path # 0 /\ tail' = tail /\ handle' = handle
          /\ offset' = offset + Len(Payload) /\ Keep(Consume(Now, Payload))
      BY <1>16 DEF ReadNew, Read
    <2>2. Taken' = Taken \o From(path, offset)
      BY <1>1, <1>5, <2>1, TakenReads
    <2>3. \A c \in ToSet(Taken) : ReadAt(c, path, offset)
      BY <1>4, <1>6, <2>1 DEF Order
    <2>4. offset' = ReadTo(path, offset) /\ handle' = path
      BY <1>5, <1>6, <2>1 DEF ReadTo
    <2> QED  BY <1>1, <1>2, <1>5, <1>7, <2>1, <2>2, <2>3, <2>4, OrderReads
  <1>17. CASE ReadLost
    <2>1. /\ pc \in {"first", "read"} /\ pc' = "off" /\ path # 0 /\ tail' = tail /\ handle' = handle
          /\ offset' = offset + Len(Payload) /\ emitted' = emitted
      BY <1>17 DEF ReadLost
    <2>2. \A c \in ToSet(Taken) : ReadAt(c, path, offset)
      BY <1>4, <1>6, <2>1 DEF Order
    <2>3. offset' = ReadTo(path, offset) /\ handle' = path /\ handle' # 0 /\ tail' = <<>>
      BY <1>5, <1>6, <2>1 DEF ReadTo
    <2>4. PICK t \in Seq(Cell) : t = Taken
      BY <1>1, TakenIs
    <2>5. /\ Increasing(t \o From(path, offset))
          /\ \A c \in ToSet(t \o From(path, offset)) : ReadAt(c, path, ReadTo(path, offset))
      BY <1>1, <1>5, <1>7, <2>1, <2>2, <2>4, OrderPayload
    <2>6. CASE buffers' = buffers
      <3>1. Taken' = Taken
        BY <1>1, <2>1, <2>6, TakenStays
      <3> QED  BY <1>1, <1>2, <1>5, <1>7, <2>1, <2>2, <2>3, <3>1, OrderReads
    <2>7. CASE buffers' = [partial |-> Consume(Now, Payload).partial,
                           current |-> Consume(Now, Payload).current]
      <3>1. PICK u : u = t \o From(path, offset)
        OBVIOUS
      <3>2. Increasing(u) /\ u = Taken \o Payload
        BY <1>5, <2>4, <2>5, <3>1
      <3>3. Increasing(Taken \o Payload)
        BY <3>2
      <3>4. Increasing(Taken)' /\ ToSet(Taken)' \subseteq ToSet(Taken \o Payload)
        <4>1. PICK b \in Plain(Cell) : b = Consume(Now, Payload)
          BY <1>1, <1>5, <2>1, PlainKept DEF BuffersInv
        <4>2. buffers' = [partial |-> b.partial, current |-> b.current]
          BY <2>7, <4>1
        <4> QED  BY <1>1, <1>5, <2>1, <3>3, <4>1, <4>2, LostMiddle
      <3>5. ToSet(Taken)' \subseteq ToSet(u)
        BY <3>2, <3>4
      <3>6. \A c \in ToSet(Taken)' : ReadAt(c, handle, offset)'
        BY <1>2, <2>3, <2>5, <3>1, <3>5 DEF ReadAt, Still, Size
      <3> QED  BY <1>9, <2>1, <2>3, <3>4, <3>6 DEF Order
    <2> QED  BY <1>17, <2>6, <2>7 DEF ReadLost
  <1> QED
    BY <1>10, <1>12, <1>13, <1>14, <1>15, <1>16, <1>17 DEF SSHStep

(* The writer leaves what is in a file, or begins another generation of    *)
(* it, and what was written remains known.                                 *)
Extended(i) ==
    /\ files'[i].gen = files[i].gen
    /\ Size(i)' \in Nat /\ Size(i) <= Size(i)'
    /\ \A m \in 1..Size(i) : files'[i].cells[m] = files[i].cells[m]
Renewed(i) == files[i].gen = generation /\ files'[i].gen = generation + 1
WriterLeaves ==
    /\ Len(files') \in Nat /\ Len(files) <= Len(files')
    /\ \A i \in 1..Len(files) : Extended(i) \/ Renewed(i)
    /\ Len(written') \in Nat /\ Len(written) <= Len(written')
    /\ \A k \in 1..Len(written) : written'[k] = written[k]

(* So does every step of the writer.                                       *)
LEMMA WriterIs ==
  ASSUME FileInv, LogWrite \/ LogMoved \/ LogTruncated
  PROVE  WriterLeaves
  <1>1. /\ Len(files) \in Nat /\ Len(written) \in Nat /\ written \in Seq(Cell)
        /\ \A i \in 1..Len(files) : files[i].cells \in Seq(Cell) /\ Size(i) \in Nat
        /\ path # 0 => files[path].gen = generation
    BY FileFacts DEF FileInv
  <1>2. CASE LogWrite
    <2>1. PICK i \in DOMAIN files, stamp \in BOOLEAN, end \in BOOLEAN : Write(i, stamp, end)
      BY <1>2 DEF LogWrite
    <2>2. PICK c : NewCell(i, c)
      BY <2>1, WriteIs
    <2>3. /\ c \in Cell /\ written' = Append(written, c) /\ Len(files') = Len(files)
          /\ \A j \in 1..Len(files) : files'[j] = IF j = i THEN WithCell(files[i], c) ELSE files[j]
      BY <2>2 DEF NewCell
    <2>4. ASSUME NEW j \in 1..Len(files) PROVE Extended(j)
      <3>1. PICK q : q = files[j].cells
        OBVIOUS
      <3>2. /\ Len(Append(q, c)) = Len(q) + 1 /\ \A m \in 1..Len(q) : Append(q, c)[m] = q[m]
            /\ q \in Seq(Cell) /\ Len(q) \in Nat
        BY <1>1, <2>3, <3>1, AppendProperties DEF Size
      <3>3. files'[j].gen = files[j].gen /\ files'[j].cells \in {q, Append(q, c)}
        BY <2>3, <3>1 DEF WithCell
      <3>4. Len(files'[j].cells) \in Nat /\ Len(q) <= Len(files'[j].cells)
        BY <3>2, <3>3
      <3>5. \A m \in 1..Len(q) : files'[j].cells[m] = q[m]
        BY <3>2, <3>3
      <3> QED  BY <3>1, <3>3, <3>4, <3>5 DEF Extended, Size
    <2>5. /\ Len(written') = Len(written) + 1
          /\ \A k \in 1..Len(written) : written'[k] = written[k]
      BY <1>1, <2>3, AppendProperties
    <2> QED  BY <1>1, <2>3, <2>4, <2>5 DEF WriterLeaves
  <1>3. CASE Replace
    <2>1. /\ Len(files') = Len(files) + 1 /\ written' = written
          /\ \A j \in 1..Len(files) : files'[j] = files[j]
      BY <1>3, ReplaceIs
    <2> QED  BY <1>1, <2>1 DEF WriterLeaves, Extended, Size
  <1>4. CASE Unlink
    <2>1. UNCHANGED <<files, written>>
      BY <1>4, UnlinkIs
    <2> QED  BY <1>1, <2>1 DEF WriterLeaves, Extended, Size
  <1>5. CASE LogTruncated
    <2>1. /\ Len(files') = Len(files) /\ written' = written /\ path # 0
          /\ \A j \in 1..Len(files) : files'[j] = IF j = path THEN Blank ELSE files[j]
      BY <1>5, TruncateIs DEF LogTruncated
    <2> QED  BY <1>1, <2>1 DEF WriterLeaves, Extended, Renewed, Size, Blank
  <1> QED  BY <1>2, <1>3, <1>4, <1>5 DEF LogMoved

(* Whatever the writer does, what was read of a file was read of it.       *)
LEMMA ReadStays ==
  ASSUME FileInv, WriterLeaves, NEW i \in 1..Len(files), NEW k \in Nat, NEW c \in Cell,
         ReadAt(c, i, k)
  PROVE  ReadAt(c, i, k)'
  <1>1. /\ c.gen \in Nat /\ files[i].gen \in Nat /\ files[i].gen <= generation /\ generation \in Nat
        /\ Size(i) \in Nat
    BY FileFacts, SMTT(30) DEF Cell, FileInv
  <1>2. CASE Renewed(i)
    BY <1>1, <1>2 DEF ReadAt, Renewed
  <1>3. CASE Extended(i)
    <2>1. PICK n, l : n = Size(i) /\ l = Size(i)'
      OBVIOUS
    <2>2. n \in Nat /\ l \in Nat /\ n <= l
      BY <1>1, <1>3, <2>1 DEF Extended
    <2>3. ASSUME c.gen = files[i].gen PROVE k <= l /\ \E m \in 1..k : files'[i].cells[m] = c
      <3>1. k <= n
        BY <2>1, <2>3 DEF ReadAt
      <3>2. PICK m \in 1..k : files[i].cells[m] = c
        BY <2>3 DEF ReadAt
      <3>3. m \in 1..n
        BY <2>2, <3>1
      <3>4. files'[i].cells[m] = c
        BY <1>3, <2>1, <3>2, <3>3 DEF Extended
      <3> QED  BY <2>2, <3>1, <3>4
    <2> QED  BY <1>3, <2>1, <2>3 DEF ReadAt, Extended
  <1> QED  BY <1>2, <1>3 DEF WriterLeaves

(* The writer does not disturb the order.                                  *)
LEMMA OrderByWriter ==
  ASSUME TypeInv, OrderInv, UNCHANGED <<source, readerVars>>, LogWrite \/ LogMoved \/ LogTruncated
  PROVE  OrderInv'
  <1> SUFFICES ASSUME Orderly(surprises') PROVE Order'
    BY DEF OrderInv, Orderly
  <1>1. FileInv /\ BuffersInv /\ ControlInv
    BY DEF TypeInv
  <1>2. Order
    <2>1. surprises \subseteq surprises'
      BY DEF LogWrite, LogMoved, LogTruncated, Surprised
    <2> QED  BY <2>1 DEF OrderInv, Orderly
  <1>3. WriterLeaves
    BY <1>1, WriterIs
  <1>4. Len(files) \in Nat /\ Len(written) \in Nat /\ handle \in 0..Len(files) /\ offset \in Nat
    BY <1>1, FileFacts DEF ControlInv
  <1>5. pc' = pc /\ handle' = handle /\ offset' = offset /\ tail' = tail /\ Taken' = Taken
    BY DEF readerVars, Taken
  <1>6. pc \in {"first", "read"} => path' = handle
    <2>1. SUFFICES ASSUME pc \in {"first", "read"} PROVE path' = handle
      OBVIOUS
    <2>2. ~Local
      BY <1>1, <2>1, LocalHere DEF ControlInv
    <2>3. ~LogMoved /\ ~LogTruncated
      <3>1. "swapped" \in Misses(TRUE)
        BY <2>1, <2>2 DEF Misses, SSHMisses
      <3> QED  BY <3>1 DEF LogMoved, LogTruncated, Surprised, Orderly
    <2>4. PICK i \in DOMAIN files, stamp \in BOOLEAN, end \in BOOLEAN : Write(i, stamp, end)
      BY <2>3 DEF LogWrite
    <2> QED  BY <1>2, <2>1, <2>4 DEF Order, Write
  <1>7. handle # 0 => \A c \in ToSet(Taken) : ReadAt(c, handle, offset)'
    <2>1. SUFFICES ASSUME handle # 0, NEW c \in ToSet(Taken) PROVE ReadAt(c, handle, offset)'
      OBVIOUS
    <2>2. handle \in 1..Len(files) /\ c \in Cell /\ ReadAt(c, handle, offset)
      BY <1>1, <1>2, <1>4, <2>1, TakenIs DEF Order
    <2>3. PICK h, k : h = handle /\ k = offset
      OBVIOUS
    <2>4. ReadAt(c, h, k)'
      BY <1>1, <1>3, <1>4, <2>2, <2>3, ReadStays
    <2> QED  BY <1>5, <2>3, <2>4 DEF ReadAt, Size
  <1>8. TailOrder'
    <2>1. \A c : Known(c) => Known(c)'
      BY <1>3, <1>4 DEF Known, WriterLeaves
    <2> QED  BY <1>2, <1>5, <2>1 DEF Order, TailOrder, Increasing
  <1>9. pc = "switch" => handle < Len(files')
    BY <1>2, <1>3, <1>4 DEF Order, WriterLeaves
  <1>10. Increasing(Taken)'
    BY <1>2, <1>5 DEF Order, Increasing
  <1>11. handle' # 0 => \A c \in ToSet(Taken)' : ReadAt(c, handle, offset)'
    BY <1>5, <1>7
  <1> QED  BY <1>2, <1>5, <1>6, <1>8, <1>9, <1>10, <1>11 DEF Order

(* The end of the loop takes nothing.                                      *)
LEMMA OrderFinish ==
  ASSUME TypeInv, OrderInv, FinishLocal \/ FinishSSH
  PROVE  OrderInv'
  <1> SUFFICES ASSUME Orderly(surprises') PROVE Order'
    BY DEF OrderInv, Orderly
  <1>1. BuffersInv
    BY DEF TypeInv
  <1>2. /\ Keep(FlushAll(Now)) /\ pc' = "done"
        /\ UNCHANGED <<source, fileVars, handle, offset, tail, surprises>>
    BY DEF FinishLocal, FinishSSH
  <1>3. Order /\ Still
    BY <1>2, StillIs DEF OrderInv, Orderly
  <1>4. Taken' = Taken
    BY <1>1, <1>2, TakenStays
  <1>5. TailOrder'
    BY <1>2, <1>3 DEF Order, TailOrder, Increasing, Known, Still
  <1> QED  BY <1>1, <1>2, <1>3, <1>4, <1>5, OrderStays

(* It holds at first.                                                      *)
LEMMA OrderInit == Init => OrderInv
  <1>1. <<>> \in Seq(Cell) /\ Len(<<>>) = 0 /\ ToSet(<<>>) = {} /\ 1..0 = {}
    <2>1. Len(<<>>) = 0 /\ <<>> \in Seq(Cell) /\ 1..0 = {} /\ DOMAIN <<>> = {}
      BY EmptySeq
    <2> QED  BY <2>1 DEF ToSet
  <1>2. Increasing(<<>>)
    BY <1>1 DEF Increasing
  <1>3. FlattenSeq(<<>>) = <<>> /\ (<<>> \o <<>>) \o <<>> = <<>>
    BY <1>1, FlattenEmpty, ConcatEmptySeq
  <1>4. Init => Taken = <<>>
    BY <1>3 DEF Init, Taken, Empty
  <1>5. Init => handle = 0 /\ tail = <<>> /\ pc \in {"new", "off"}
    BY DEF Init
  <1>6. tail = <<>> => TailOrder
    BY <1>1, <1>2, <1>3 DEF TailOrder
  <1> QED  BY <1>1, <1>2, <1>4, <1>5, <1>6 DEF OrderInv, Order

(* It holds after every step.                                              *)
LEMMA OrderSafe == TypeInv /\ OrderInv /\ [Next]_vars => OrderInv'
  <1> SUFFICES ASSUME TypeInv, OrderInv, [Next]_vars PROVE OrderInv'
    OBVIOUS
  <1>1. CASE Follow \/ Finish
    BY <1>1, OrderLocal, OrderSSH, OrderFinish DEF Follow, Finish
  <1>2. CASE (LogWrite \/ LogMoved \/ LogTruncated) /\ UNCHANGED <<source, readerVars, failures>>
    BY <1>2, OrderByWriter
  <1>3. CASE UNCHANGED vars
    <2>1. UNCHANGED <<files, path, written, pc, handle, offset, tail, surprises>> /\ Taken' = Taken
      BY <1>3 DEF vars, fileVars, readerVars, Taken
    <2>2. TailOrder => TailOrder'
      BY <2>1 DEF TailOrder, Known, Increasing
    <2>3. Order => Order'
      BY <2>1, <2>2 DEF Order, ReadAt, Size, Increasing
    <2> QED  BY <2>1, <2>3 DEF OrderInv
  <1> QED  BY <1>1, <1>2, <1>3 DEF Next

(* What is in order is taken once.                                         *)
LEMMA OrderImplied == TypeInv /\ OrderInv => OnceInOrder
  <1> SUFFICES ASSUME TypeInv, Order, NEW k \in 2..Len(Taken)
               PROVE  \/ Taken[k-1].gen < Taken[k].gen
                      \/ Taken[k-1].gen = Taken[k].gen /\ Taken[k-1].id < Taken[k].id
    BY DEF OrderInv, OnceInOrder
  <1>1. Taken \in Seq(Cell) /\ Len(Taken) \in Nat
    BY TakenIs, LenProperties DEF TypeInv
  <1>2. k - 1 \in 1..Len(Taken) /\ k \in 1..Len(Taken) /\ k - 1 < k
    BY <1>1
  <1>3. Earlier(Taken[k-1], Taken[k])
    BY <1>2 DEF Order, Increasing
  <1> QED  BY <1>3 DEF Earlier

(* No cell is taken twice or out of order, unless the path vanished        *)
(* between exists and stat, or a remote file was replaced between stat and *)
(* open: for any sources, sizes, number of files and of failures.          *)
THEOREM CellsAreTakenOnceInOrder == Spec => []OnceInOrder
  <1>1. Init => TypeInv /\ OrderInv
    BY TypeInit, OrderInit
  <1>2. TypeInv /\ OrderInv /\ [Next]_vars => TypeInv' /\ OrderInv'
    BY TypeSafe, OrderSafe
  <1>3. Spec => [](TypeInv /\ OrderInv)
    BY <1>1, <1>2, PTL DEF Spec
  <1> QED  BY <1>3, OrderImplied, PTL

-----------------------------------------------------------------------------
(* Nothing is skipped.                                                     *)

\* What the follower could not be expected to read has not happened.
Calm(S) == S \subseteq {"cut", "mixed"}

\* The cells written since the first read of the log.
Since == {written[m] : m \in (since + 1)..Len(written)}

\* c lies beyond the place in file i that was reached.
Beyond(c, i) == \E k \in (offset + 1)..Size(i) : files[i].cells[k] = c

\* A cell was taken, lies ahead in the file that is read, or is of a
\* generation that is still to be entered.
Accounted(c) ==
    /\ c.gen <= reading => \/ c \in ToSet(Taken)
                           \/ files[handle].gen = reading /\ Beyond(c, handle)
    /\ c.gen > reading => \/ Local /\ c.gen = files[handle].gen
                          \/ path # 0 /\ c.gen = files[path].gen
    /\ pc = "switch" => \/ c \in ToSet(Taken)
                        \/ path # 0 /\ path # handle /\ c.gen = files[path].gen

\* While the generation it reads is that of the file, the follower is within
\* the file; a remote file that has left the path was read to its end.
Place ==
    /\ handle # 0 /\ files[handle].gen = reading =>
           /\ offset <= Size(handle)
           /\ Local \/ path = handle \/ Size(handle) <= offset
    /\ NoFile => reading = 0
    /\ pc = "tail" => since = Len(written)
    /\ pc = "switch" => handle < Len(files)
    /\ pc \in {"first", "read"} => path = handle /\ files[handle].gen = reading

Skip == Place /\ (handle # 0 => \A c \in Since : Accounted(c))
SkipInv == Calm(surprises) => Skip

(* What was written is in the file of its generation.                      *)
LEMMA SinceFacts ==
  ASSUME TypeInv
  PROVE  /\ \A c \in Since : c \in Cell /\ c.gen \in Nat /\ c.gen <= generation
         /\ \A i \in 1..Len(files) : \A c \in Since :
                c.gen = files[i].gen => \E k \in 1..Size(i) : files[i].cells[k] = c
  <1>1. FileInv /\ ControlInv
    BY DEF TypeInv
  <1>2. \A c \in Since : \E m \in 1..Len(written) : written[m] = c
    <2>1. since \in Nat /\ Len(written) \in Nat
      BY <1>1, FileFacts DEF ControlInv
    <2> QED  BY <2>1 DEF Since
  <1>3. \A c \in Since : c \in Cell /\ c.gen <= generation
    BY <1>1, <1>2, WrittenCells DEF FileInv
  <1>4. \A c \in Cell : c.gen \in Nat
    BY DEF Cell
  <1>5. ASSUME NEW i \in 1..Len(files), NEW c \in Since, c.gen = files[i].gen
        PROVE  \E k \in 1..Size(i) : files[i].cells[k] = c
    <2>1. PICK f : f = files[i]
      OBVIOUS
    <2>2. Content(f)
      BY <1>1, <2>1 DEF FileInv
    <2>3. \E k \in 1..Len(f.cells) : f.cells[k] = c
      BY <1>2, <1>5, <2>1, <2>2 DEF Content
    <2> QED  BY <2>1, <2>3 DEF Size
  <1> QED  BY <1>3, <1>4, <1>5

(* A payload adds its cells to those that were taken.                     *)
LEMMA TakenGrows ==
  ASSUME BuffersInv, NEW q \in Seq(Cell), Taken' = Taken \o q
  PROVE  ToSet(Taken)' = ToSet(Taken) \cup ToSet(q)
  <1>1. PICK t \in Seq(Cell) : t = Taken
    BY TakenIs
  <1>2. PICK u : u = t \o q
    OBVIOUS
  <1>3. ToSet(u) = ToSet(t) \cup ToSet(q)
    BY <1>2, ElementsJoined
  <1> QED  BY <1>1, <1>2, <1>3

(* A file that is read to its end, from the offset or from the beginning.  *)
LEMMA SkipReads ==
  ASSUME TypeInv, Skip, handle # 0, NEW k \in Nat, k \in {0, offset},
         files[handle].gen = reading \/ k = 0, Taken' = Taken \o From(handle, k)
  PROVE  \A c \in Since : c.gen <= reading \/ c.gen = files[handle].gen => c \in ToSet(Taken)'
  <1>1. FileInv /\ BuffersInv /\ ControlInv
    BY DEF TypeInv
  <1>2. handle \in 1..Len(files) /\ offset \in Nat /\ Size(handle) \in Nat
    <2>1. handle \in 1..Len(files)
      BY <1>1, FileFacts DEF ControlInv
    <2> QED  BY <1>1, <2>1, FileFacts DEF ControlInv
  <1>3. PICK q : q = From(handle, k)
    OBVIOUS
  <1>4. q \in Seq(Cell) /\ \A j \in (k + 1)..Size(handle) : files[handle].cells[j] \in ToSet(q)
    BY <1>1, <1>2, <1>3, FromFacts
  <1>5. ToSet(Taken)' = ToSet(Taken) \cup ToSet(q)
    BY <1>1, <1>3, <1>4, TakenGrows
  <1>6. SUFFICES ASSUME NEW c \in Since, c.gen <= reading \/ c.gen = files[handle].gen
                 PROVE  c \in ToSet(Taken)'
    OBVIOUS
  <1>7. Accounted(c)
    BY DEF Skip
  <1>8. Beyond(c, handle) => c \in ToSet(q)
    <2>1. \A j \in (offset + 1)..Size(handle) : j \in (k + 1)..Size(handle)
      BY <1>2
    <2> QED  BY <1>4, <2>1 DEF Beyond
  <1>9. CASE c.gen <= reading
    BY <1>5, <1>7, <1>8, <1>9 DEF Accounted
  <1>10. CASE c.gen = files[handle].gen /\ ~(c.gen <= reading)
    <2>1. k = 0
      <3>1. files[handle].gen # reading
        <4>1. reading \in Nat
          BY <1>1, FileFacts DEF ControlInv
        <4> QED  BY <1>10, <4>1
      <3> QED  BY <3>1
    <2>2. PICK j \in 1..Size(handle) : files[handle].cells[j] = c
      BY <1>2, <1>10, SinceFacts
    <2> QED  BY <1>4, <1>5, <2>1, <2>2
  <1> QED  BY <1>6, <1>9, <1>10

(* The cells written since the first read are the same.                   *)
LEMMA SinceStays ==
  ASSUME written' = written, since' = since
  PROVE  Since' = Since
  BY DEF Since

(* The steps of LocalFileFollower read a file to its end before they leave *)
(* it.                                                                     *)
LEMMA SkipLocal ==
  ASSUME TypeInv, SkipInv, LocalStep
  PROVE  SkipInv'
  <1> SUFFICES ASSUME Calm(surprises') PROVE Skip'
    BY DEF SkipInv
  <1>1. FileInv /\ BuffersInv /\ ControlInv
    BY DEF TypeInv
  <1>2. Still /\ Local' = Local
    BY StillIs DEF LocalStep
  <1>3. Skip
    <2>1. surprises \subseteq surprises'
      BY DEF LocalStep, InitializeMissing, TailUndecodable, ReadTail, OpenAfterTail, OpenFails,
             PollMissing, PollExists, PathVanished, PollRotated, SwitchFile, PollTruncated,
             PollFile, PollUndecodable, Surprised
    <2> QED  BY <2>1 DEF SkipInv, Calm
  <1>4. /\ Len(files) \in Nat /\ path \in 0..Len(files) /\ handle \in 0..Len(files)
        /\ offset \in Nat /\ reading \in Nat /\ generation \in Nat
        /\ \A i \in 1..Len(files) :
               Size(i) \in Nat /\ files[i].gen \in Nat /\ files[i].gen <= generation
        /\ path # 0 => path \in 1..Len(files) /\ files[path].gen = generation
        /\ since \in 0..Len(written) /\ Len(written) \in Nat
    <2>1. /\ offset \in Nat /\ reading \in Nat /\ handle \in 0..Len(files)
          /\ since \in 0..Len(written)
      BY <1>1, FileFacts DEF ControlInv
    <2>2. /\ Len(files) \in Nat /\ path \in 0..Len(files) /\ generation \in Nat
          /\ \A i \in 1..Len(files) : Size(i) \in Nat /\ files[i].gen \in Nat
          /\ Len(written) \in Nat
      BY <1>1, FileFacts
    <2>3. /\ \A i \in 1..Len(files) : files[i].gen <= generation
          /\ path # 0 => files[path].gen = generation
      BY <1>1 DEF FileInv
    <2>4. path # 0 => path \in 1..Len(files)
      BY <2>2
    <2> QED  BY <2>1, <2>2, <2>3, <2>4
  <1>5. /\ pc \in {"poll", "checked", "switch"} => handle \in 1..Len(files) /\ handle # 0
        /\ pc \in {"new", "start", "tail"} => handle = 0
        /\ pc \in LocalStates => Local
        /\ pc \in {"new", "start", "tail", "poll", "checked", "switch"} => Local
    BY <1>1, <1>4, LocalHere DEF ControlInv, LocalStates
  <1>6. \A c \in Since : c.gen \in Nat /\ c.gen <= generation
    BY SinceFacts
  <1>7. handle # 0 => \A c \in Since : Accounted(c)
    BY <1>3 DEF Skip
  <1>8. ASSUME handle' = 0, pc' \in {"new", "start", "tail"}, reading' = 0,
               pc' = "tail" => since' = Len(written)'
        PROVE  Skip'
    BY <1>8 DEF Skip, Place, NoFile
  <1>26. NoFile => reading = 0
    BY <1>3 DEF Skip, Place
  <1>9. CASE InitializeMissing \/ TailUndecodable \/ OpenFails
    BY <1>5, <1>8, <1>9, <1>26 DEF InitializeMissing, TailUndecodable, OpenFails,
                                  Uninitialized, NoFile
  <1>10. CASE PathVanished
    BY <1>10 DEF PathVanished, Surprised, Calm
  <1>11. CASE ReadTail
    BY <1>2, <1>5, <1>8, <1>11, <1>26 DEF ReadTail, Uninitialized, Still, NoFile
  <1>12. CASE OpenAfterTail
    <2>1. /\ pc = "tail" /\ path # 0 /\ handle' = path /\ offset' = Size(path)
          /\ reading' = files[path].gen /\ pc' = "poll" /\ since' = since
      BY <1>12 DEF OpenAfterTail, OpenAt
    <2>2. Since' = {}
      <3>1. since = Len(written) /\ (since + 1)..Len(written) = {}
        BY <1>3, <1>4, <2>1 DEF Skip, Place
      <3>2. Since = {}
        BY <3>1 DEF Since
      <3> QED  BY <1>2, <2>1, <3>2, SinceStays DEF Still
    <2>3. Place'
      BY <1>2, <1>4, <1>5, <2>1 DEF Place, Still, Size, NoFile
    <2> QED  BY <2>2, <2>3 DEF Skip
  \* The open file is read to its end.
  <1>13. ASSUME pc \in {"poll", "checked"}, pc' \in {"poll", "switch"}, handle' = handle, since' = since,
                NEW k \in Nat, k \in {0, offset}, files[handle].gen = reading \/ k = 0,
                Taken' = Taken \o From(handle, k), offset' = ReadTo(handle, k),
                \/ reading' = reading
                \/ reading' = files[handle].gen /\ path = handle,
                pc' = "switch" => path # 0 /\ path # handle
         PROVE  Skip'
    <2>1. \A c \in Since : c.gen <= reading \/ c.gen = files[handle].gen => c \in ToSet(Taken)'
      BY <1>3, <1>5, <1>13, SkipReads
    <2>2. Since' = Since
      BY <1>2, <1>13, SinceStays DEF Still
    <2>3. (files[handle].gen = reading => offset <= Size(handle))'
      <3>1. handle \in 1..Len(files) /\ reading <= files[handle].gen
        BY <1>1, <1>5, <1>13 DEF ControlInv
      <3>2. k <= Size(handle) => ReadTo(handle, k) = Size(handle)
        <4>1. Size(handle) \in Nat
          BY <1>4, <3>1
        <4>2. Len(From(handle, k)) = IF k <= Size(handle) THEN Size(handle) - k ELSE 0
          BY <1>1, <3>1, FromFacts
        <4> QED  BY <4>1, <4>2 DEF ReadTo
      <3>3. k <= Size(handle)
        <4>1. files[handle].gen = reading => offset <= Size(handle)
          BY <1>3, <1>5, <1>13 DEF Skip, Place
        <4>2. Size(handle) \in Nat
          BY <1>4, <3>1
        <4> QED  BY <1>4, <1>13, <4>1, <4>2
      <3>4. Size(handle) \in Nat
        BY <1>4, <3>1
      <3> QED  BY <1>2, <1>13, <3>2, <3>3, <3>4 DEF Size, Still
    <2>4. pc' = "switch" => handle' < Len(files)'
      <3>1. path # 0 => path = Len(files)
        BY <1>1 DEF FileInv
      <3> QED  BY <1>2, <1>4, <1>5, <1>13, <3>1 DEF Still
    <2>5. Place'
      <3>1. Local'
        BY <1>2, <1>5, <1>13
      <3> QED  BY <1>13, <2>3, <2>4, <3>1 DEF Place, NoFile
    <2>6. ASSUME NEW c \in Since PROVE Accounted(c)'
      <3>1. c.gen \in Nat /\ Accounted(c) /\ Local'
        BY <1>2, <1>5, <1>6, <1>7, <1>13
      <3>2. c.gen > reading => c.gen = files[handle].gen \/ (path # 0 /\ c.gen = files[path].gen)
        BY <3>1 DEF Accounted
      <3>3. c.gen <= reading' => c \in ToSet(Taken)'
        <4>1. CASE reading' = reading
          BY <2>1, <4>1
        <4>2. CASE reading' = files[handle].gen /\ path = handle
          BY <1>4, <2>1, <3>1, <3>2, <4>2
        <4> QED  BY <1>13, <4>1, <4>2
      <3>4. c.gen > reading' => c.gen = files[handle].gen \/ (path # 0 /\ c.gen = files[path].gen)
        <4>1. reading' = reading \/ reading' = generation
          BY <1>4, <1>13, <1>5
        <4>2. ~(c.gen > generation)
          BY <1>4, <1>6
        <4> QED  BY <3>2, <4>1, <4>2
      <3>5. pc' = "switch" => c \in ToSet(Taken)' \/ (path # 0 /\ path # handle /\ c.gen = files[path].gen)
        BY <1>4, <1>13, <2>1, <3>1, <3>2
      <3> QED  BY <1>2, <1>13, <3>1, <3>3, <3>4, <3>5 DEF Accounted, Still
    <2> QED  BY <2>2, <2>5, <2>6 DEF Skip
  <1>14. /\ "unseen" \notin surprises' /\ "missed" \notin surprises'
    BY DEF Calm
  <1>15. Unseen \subseteq surprises' => files[handle].gen = reading \/ offset = 0
    BY <1>4, <1>14 DEF Unseen
  <1>16. CASE PollMissing
    <2>1. /\ pc = "poll" /\ pc' = pc /\ handle' = handle /\ offset' = ReadTo(handle, offset)
          /\ since' = since /\ reading' = reading /\ Unseen \subseteq surprises'
          /\ Keep(FlushAll(Consume(Now, From(handle, offset))))
      BY <1>16 DEF PollMissing, Surprised
    <2>2. Taken' = Taken \o From(handle, offset)
      BY <1>1, <1>4, <1>5, <2>1, FromFacts, TakenReads
    <2> QED  BY <1>4, <1>13, <1>15, <2>1, <2>2
  <1>17. CASE PollExists
    <2>1. /\ pc = "poll" /\ pc' = "checked" /\ UNCHANGED <<handle, offset, reading, since>>
          /\ UNCHANGED <<buffers, emitted>>
      BY <1>17 DEF PollExists
    <2>2. Taken' = Taken /\ Since' = Since
      BY <1>1, <1>2, <2>1, TakenStays, SinceStays DEF Still
    <2>3. Place'
      BY <1>2, <1>3, <2>1 DEF Place, Skip, Still, Size, NoFile
    <2>4. \A c \in Since : Accounted(c) => Accounted(c)'
      BY <1>2, <2>1, <2>2 DEF Accounted, Beyond, Still, Size
    <2> QED  BY <1>5, <1>7, <2>1, <2>2, <2>3, <2>4 DEF Skip
  <1>18. CASE PollRotated
    <2>1. /\ pc = "checked" /\ pc' = "switch" /\ handle' = handle /\ offset' = ReadTo(handle, offset)
          /\ since' = since /\ reading' = reading /\ Unseen \subseteq surprises'
          /\ path # 0 /\ path # handle
      BY <1>18 DEF PollRotated, Surprised
    <2>2. From(handle, offset) \in Seq(Cell)
      BY <1>1, <1>4, <1>5, <2>1, FromFacts
    <2>3. Keep(FlushAll(Consume(Now, From(handle, offset))))
      BY <1>1, <1>18, <2>2, DrainedKept DEF PollRotated, Drained
    <2>4. Taken' = Taken \o From(handle, offset)
      BY <1>1, <2>2, <2>3, TakenReads
    <2> QED  BY <1>4, <1>13, <1>15, <2>1, <2>4
  <1>19. CASE SwitchFile
    <2>1. /\ pc = "switch" /\ path \in 1..Len(files) /\ path # 0 /\ handle' = path
          /\ offset' = Size(path) /\ reading' = files[path].gen /\ since' = since
          /\ Keep(Consume(Now, files[path].cells)) /\ pc' = "poll"
      BY <1>4, <1>19 DEF SwitchFile
    <2>2. PICK q : q = files[path].cells
      OBVIOUS
    <2>3. q \in Seq(Cell) /\ Taken' = Taken \o q
      <3>1. files[path].cells \in Seq(Cell)
        BY <1>1, <2>1, CellsOf
      <3>2. Taken' = Taken \o files[path].cells
        BY <1>1, <2>1, <3>1, TakenReads
      <3> QED  BY <2>2, <3>1, <3>2
    <2>4. ToSet(Taken)' = ToSet(Taken) \cup ToSet(q)
      BY <1>1, <2>3, TakenGrows
    <2>5. \A k \in 1..Size(path) : q[k] \in ToSet(q)
      <3>1. DOMAIN q = 1..Size(path)
        BY <2>2, <2>3, LenProperties DEF Size
      <3> QED  BY <3>1 DEF ToSet
    <2>6. Since' = Since
      BY <1>2, <2>1, SinceStays DEF Still
    <2>7. ASSUME NEW c \in Since PROVE c \in ToSet(Taken)'
      <3>1. c \in ToSet(Taken) \/ c.gen = files[path].gen
        BY <1>5, <1>7, <2>1 DEF Accounted
      <3>2. c.gen = files[path].gen => \E k \in 1..Size(path) : q[k] = c
        BY <2>1, <2>2, SinceFacts
      <3> QED  BY <2>4, <2>5, <3>1, <3>2
    <2>8. \A c \in Since : ~(c.gen > reading')
      BY <1>4, <1>6, <2>1
    <2>9. \A c \in Since : Accounted(c)'
      BY <2>1, <2>7, <2>8 DEF Accounted
    <2>10. Place'
      BY <1>2, <1>4, <1>5, <2>1 DEF Place, Still, Size, NoFile
    <2> QED  BY <2>6, <2>9, <2>10 DEF Skip
  <1>20. CASE PollTruncated
    <2>1. /\ pc = "checked" /\ pc' = "poll" /\ handle' = handle /\ offset' = Size(handle)
          /\ since' = since /\ reading' = files[handle].gen /\ path = handle
          /\ Size(handle) < offset
          /\ Keep(Consume(FlushAll(Now), files[handle].cells))
      BY <1>20 DEF PollTruncated, Truncated
    <2>2. /\ handle \in 1..Len(files) /\ files[handle].cells \in Seq(Cell)
          /\ From(handle, 0) = files[handle].cells /\ ReadTo(handle, 0) = Size(handle)
      BY <1>1, <1>5, <2>1, CellsOf, FromStart
    <2>3. Taken' = Taken \o From(handle, 0)
      BY <1>1, <2>1, <2>2, TakenReads
    <2>4. 0 \in Nat /\ 0 \in {0, offset}
      OBVIOUS
    <2> QED  BY <1>13, <2>1, <2>2, <2>3, <2>4
  <1>21. CASE PollFile
    <2>1. /\ pc = "checked" /\ pc' = "poll" /\ handle' = handle /\ offset' = ReadTo(handle, offset)
          /\ since' = since /\ reading' = files[handle].gen /\ path = handle
          /\ Unseen \subseteq surprises' /\ Keep(Consume(Now, From(handle, offset)))
      BY <1>21 DEF PollFile, Surprised
    <2>2. Taken' = Taken \o From(handle, offset)
      BY <1>1, <1>4, <1>5, <2>1, FromFacts, TakenReads
    <2> QED  BY <1>4, <1>13, <1>15, <2>1, <2>2
  <1>22. ~PollUndecodable
    BY <1>14 DEF PollUndecodable, Surprised
  <1> QED
    BY <1>9, <1>10, <1>11, <1>12, <1>16, <1>17, <1>18, <1>19, <1>20, <1>21, <1>22 DEF LocalStep

(* Those of SSHFileFollower skip nothing that does not count as missed.    *)
LEMMA SkipSSH ==
  ASSUME TypeInv, SkipInv, SSHStep
  PROVE  SkipInv'
  <1> SUFFICES ASSUME Calm(surprises') PROVE Skip'
    BY DEF SkipInv
  <1>1. FileInv /\ BuffersInv /\ ControlInv
    BY DEF TypeInv
  <1>2. Still /\ Local' = Local
    BY StillIs DEF SSHStep
  <1>3. Skip
    <2>1. surprises \subseteq surprises'
      BY DEF SSHStep, Connect, RemoteMissing, ConnectionFails, StatIdle, FlushLost, StatNew,
             ReadFirst, ReadNew, ReadLost, Surprised
    <2> QED  BY <2>1 DEF SkipInv, Calm
  <1>4. /\ Len(files) \in Nat /\ handle \in 0..Len(files)
        /\ offset \in Nat /\ reading \in Nat /\ generation \in Nat
        /\ \A i \in 1..Len(files) :
               Size(i) \in Nat /\ files[i].gen \in Nat /\ files[i].gen <= generation
        /\ \A i, j \in 1..Len(files) : i < j => files[i].gen < files[j].gen
        /\ path # 0 => path \in 1..Len(files) /\ path = Len(files) /\ files[path].gen = generation
        /\ handle # 0 => reading <= files[handle].gen
        /\ Len(written) \in Nat
    <2>1. /\ offset \in Nat /\ reading \in Nat /\ handle \in 0..Len(files)
          /\ handle # 0 => reading <= files[handle].gen
      BY <1>1, FileFacts DEF ControlInv
    <2>2. /\ Len(files) \in Nat /\ path \in 0..Len(files) /\ generation \in Nat
          /\ \A i \in 1..Len(files) : Size(i) \in Nat /\ files[i].gen \in Nat
          /\ Len(written) \in Nat
      BY <1>1, FileFacts
    <2>3. /\ \A i \in 1..Len(files) : files[i].gen <= generation
          /\ path # 0 => files[path].gen = generation
          /\ path # 0 => path = Len(files)
          /\ \A i, j \in 1..Len(files) : i < j => files[i].gen < files[j].gen
      BY <1>1 DEF FileInv
    <2>4. path # 0 => path \in 1..Len(files)
      BY <2>2
    <2> QED  BY <2>1, <2>2, <2>3, <2>4
  <1>5. pc \in SSHStates => ~Local
    BY <1>1, LocalHere
  <1>6. \A c \in Since : c.gen \in Nat /\ c.gen <= generation
    BY SinceFacts
  <1>7. handle # 0 => \A c \in Since : Accounted(c)
    BY <1>3 DEF Skip
  <1>8. "missed" \notin surprises' /\ "unseen" \notin surprises'
    BY DEF Calm
  <1>9. CASE Connect \/ RemoteMissing \/ ConnectionFails
    <2>1. /\ UNCHANGED <<handle, offset, reading, since, buffers, emitted>>
          /\ pc \in SSHStates /\ pc' \in {"stat", "on", "off"}
      BY <1>9 DEF Connect, RemoteMissing, ConnectionFails, AtStat, SSHStates
    <2>2. Taken' = Taken /\ Since' = Since
      BY <1>1, <1>2, <2>1, TakenStays, SinceStays DEF Still
    <2>3. Place'
      BY <1>2, <1>3, <2>1 DEF Place, Skip, Still, Size, NoFile
    <2>4. \A c \in Since : Accounted(c) => Accounted(c)'
      BY <1>2, <2>1, <2>2 DEF Accounted, Beyond, Still, Size
    <2> QED  BY <1>7, <2>1, <2>2, <2>3, <2>4 DEF Skip
  \* After a stat the file of the path is read on, or from its beginning.
  <1>10. ASSUME Stat, Entered \subseteq surprises', Taken' = Taken, pc' \in {"on", "first", "read"}
         PROVE  Skip'
    <2>1. /\ path # 0 /\ path \in 1..Len(files) /\ path = Len(files) /\ handle' = path
          /\ offset' = StatOffset /\ reading' = files[path].gen /\ reading' = generation
          /\ since' = IF handle = 0 THEN Len(written) ELSE since
          /\ ~Local
      BY <1>4, <1>5, <1>10 DEF Stat, AtStat, SSHStates
    <2>2. StatOffset \in Nat /\ StatOffset <= Size(path)
      <3>1. Size(path) \in Nat /\ Window \in Nat
        BY <1>4, <2>1, WindowAssumption
      <3> QED  BY <1>4, <2>1, <3>1 DEF StatOffset
    <2>3. Place'
      BY <1>2, <1>4, <1>10, <2>1, <2>2 DEF Place, Still, Size, NoFile, Local
    <2>4. CASE handle = 0
      <3>1. Since' = {}
        <4>1. (Len(written) + 1)..Len(written) = {}
          BY <1>4
        <4> QED  BY <1>2, <2>1, <2>4, <4>1 DEF Since, Still
      <3> QED  BY <2>3, <3>1 DEF Skip
    <2>5. CASE handle # 0 /\ files[path].gen = reading
      <3>1. handle \in 1..Len(files)
        BY <1>4, <2>5
      <3>2. handle = path
        <4>1. ~(handle < path)
          BY <1>4, <2>1, <2>5, <3>1
        <4> QED  BY <1>4, <2>1, <3>1, <4>1
      <3>3. StatOffset = offset
        <4>1. offset <= Size(path)
          BY <1>3, <2>5, <3>2 DEF Skip, Place
        <4>2. Size(path) \in Nat
          BY <1>4, <2>1
        <4> QED  BY <1>4, <2>5, <3>2, <4>1, <4>2 DEF StatOffset
      <3>4. Since' = Since
        BY <1>2, <2>1, <2>5, SinceStays DEF Still
      <3>5. \A c \in Since : Accounted(c) => Accounted(c)'
        BY <1>2, <1>10, <2>1, <2>5, <3>2, <3>3 DEF Accounted, Beyond, Still, Size
      <3> QED  BY <1>7, <2>3, <2>5, <3>4, <3>5 DEF Skip
    <2>6. CASE handle # 0 /\ files[path].gen # reading
      <3>1. handle \in 1..Len(files)
        BY <1>4, <2>6
      <3>2. StatOffset = 0
        <4>1. ~(StatOffset > 0)
          BY <1>8, <1>10, <2>6 DEF Entered
        <4> QED  BY <2>2, <4>1
      <3>3. Since' = Since
        BY <1>2, <2>1, <2>6, SinceStays DEF Still
      <3>4. ASSUME NEW c \in Since PROVE Accounted(c)'
        <4>1. Accounted(c) /\ c.gen \in Nat /\ c.gen <= generation
          BY <1>6, <1>7, <2>6
        <4>2. CASE c.gen = generation
          <5>1. PICK k \in 1..Size(path) : files[path].cells[k] = c
            BY <1>4, <2>1, <4>2, SinceFacts
          <5>2. Beyond(c, path)'
            BY <1>2, <2>1, <3>2, <5>1 DEF Beyond, Still, Size
          <5>3. ~(c.gen > generation)
            BY <1>4, <4>2
          <5> QED  BY <1>2, <1>10, <2>1, <4>2, <5>2, <5>3 DEF Accounted, Still, Beyond, Size
        <4>3. CASE c.gen # generation
          <5>1. c.gen <= reading
            BY <1>4, <2>1, <4>1, <4>3 DEF Accounted
          <5>2. ~(files[handle].gen = reading /\ Beyond(c, handle))
            <6>1. SUFFICES ASSUME files[handle].gen = reading PROVE ~Beyond(c, handle)
              OBVIOUS
            <6>2. path # handle
              BY <2>6, <6>1
            <6>3. Size(handle) <= offset /\ Size(handle) \in Nat
              BY <1>3, <1>4, <2>1, <2>6, <3>1, <6>1, <6>2 DEF Skip, Place
            <6>4. (offset + 1)..Size(handle) = {}
              BY <1>4, <6>3
            <6> QED  BY <6>4 DEF Beyond
          <5>3. c \in ToSet(Taken)
            BY <4>1, <5>1, <5>2 DEF Accounted
          <5>4. ~(c.gen > generation)
            BY <1>4, <4>1
          <5> QED  BY <1>10, <2>1, <5>3, <5>4 DEF Accounted
        <4> QED  BY <4>2, <4>3
      <3> QED  BY <2>3, <3>3, <3>4 DEF Skip
    <2> QED  BY <2>4, <2>5, <2>6
  <1>11. CASE StatIdle
    <2>1. /\ Stat /\ pc' = "on" /\ (Keep(Now) \/ Keep(Consume(Now, <<>>)))
          /\ Entered \subseteq surprises'
      BY <1>11 DEF StatIdle, Flushed, Surprised
    <2>2. Taken' = Taken
      <3>1. CASE Keep(Now)
        BY <1>1, <3>1, TakenStays
      <3>2. CASE Keep(Consume(Now, <<>>))
        <4>1. Taken' = Taken \o <<>>
          BY <1>1, <3>2, EmptySeq, TakenReads
        <4> QED  BY <1>1, <4>1, TakenIs, ConcatEmptySeq
      <3> QED  BY <2>1, <3>1, <3>2
    <2> QED  BY <1>10, <2>1, <2>2
  <1>12. ~FlushLost /\ ~ReadLost
    BY <1>8 DEF FlushLost, ReadLost, Surprised
  <1>13. CASE StatNew
    <2>1. /\ Stat /\ UNCHANGED <<buffers, emitted>> /\ pc' \in {"first", "read"}
          /\ Entered \subseteq surprises'
      BY <1>13 DEF StatNew, Surprised
    <2>2. Taken' = Taken
      BY <1>1, <2>1, TakenStays
    <2> QED  BY <1>10, <2>1, <2>2
  \* A read from the place of the stat.
  <1>14. ASSUME pc \in {"first", "read"}, Read
         PROVE  /\ handle' = handle /\ handle # 0 /\ path = handle /\ reading' = reading
                /\ files[handle].gen = reading /\ reading = generation
                /\ offset' = Size(handle) /\ offset' = ReadTo(handle, offset)
                /\ Payload = From(handle, offset) /\ Place' /\ ~Local /\ pc' = "on"
                /\ handle \in 1..Len(files)
    <2>1. /\ path # 0 /\ handle' = handle /\ reading' = reading /\ pc' = "on"
          /\ path = handle /\ files[handle].gen = reading /\ offset' = offset + Len(Payload)
      BY <1>3, <1>14 DEF Read, Skip, Place
    <2>2. handle \in 1..Len(files) /\ handle # 0 /\ Size(handle) \in Nat
      BY <1>4, <2>1
    <2>3. offset <= Size(handle)
      BY <1>3, <2>1, <2>2 DEF Skip, Place
    <2>4. Len(From(handle, offset)) = Size(handle) - offset
      BY <1>1, <1>4, <2>2, <2>3, FromFacts
    <2>5. Payload = From(handle, offset)
      BY <2>1 DEF Payload
    <2>6. offset' = Size(handle) /\ offset' = ReadTo(handle, offset)
      <3>1. offset + (Size(handle) - offset) = Size(handle)
        BY <1>4, <2>2
      <3> QED  BY <2>1, <2>4, <2>5, <3>1 DEF ReadTo
    <2>7. Place'
      BY <1>2, <2>1, <2>2, <2>6 DEF Place, Still, Size, NoFile, Local
    <2> QED  BY <1>4, <1>5, <1>14, <2>1, <2>2, <2>5, <2>6, <2>7 DEF SSHStates
  <1>15. CASE ReadFirst
    <2>1. pc = "first" /\ Read /\ since' = Len(written)
      BY <1>15 DEF ReadFirst
    <2>2. Since' = {}
      <3>1. (Len(written) + 1)..Len(written) = {}
        BY <1>4
      <3> QED  BY <1>2, <2>1, <3>1 DEF Since, Still
    <2> QED  BY <1>14, <2>1, <2>2 DEF Skip
  <1>16. CASE ReadNew
    <2>1. pc = "read" /\ Read /\ since' = since /\ Keep(Consume(Now, Payload))
      BY <1>16 DEF ReadNew
    <2>2. Taken' = Taken \o From(handle, offset)
      <3>1. From(handle, offset) \in Seq(Cell) /\ Payload = From(handle, offset)
        BY <1>1, <1>4, <1>14, <2>1, FromFacts
      <3> QED  BY <1>1, <2>1, <3>1, TakenReads
    <2>3. \A c \in Since : c.gen <= reading \/ c.gen = files[handle].gen => c \in ToSet(Taken)'
      BY <1>3, <1>4, <1>14, <2>1, <2>2, SkipReads
    <2>4. \A c \in Since : c.gen <= reading /\ ~(c.gen > reading)
      BY <1>4, <1>6, <1>14, <2>1
    <2>5. Since' = Since
      BY <1>2, <2>1, SinceStays DEF Still
    <2>6. \A c \in Since : Accounted(c)'
      BY <1>14, <2>1, <2>3, <2>4 DEF Accounted
    <2> QED  BY <1>14, <2>1, <2>5, <2>6 DEF Skip
  <1> QED
    BY <1>9, <1>11, <1>12, <1>13, <1>15, <1>16 DEF SSHStep

(* Nor does the end of the loop.                                          *)
LEMMA SkipFinish ==
  ASSUME TypeInv, SkipInv, FinishLocal \/ FinishSSH
  PROVE  SkipInv'
  <1> SUFFICES ASSUME Calm(surprises') PROVE Skip'
    BY DEF SkipInv
  <1>1. BuffersInv
    BY DEF TypeInv
  <1>2. /\ Keep(FlushAll(Now)) /\ pc' = "done"
        /\ UNCHANGED <<source, fileVars, handle, offset, reading, since, surprises>>
    BY DEF FinishLocal, FinishSSH
  <1>3. Skip /\ Still /\ Local' = Local
    BY <1>2, StillIs DEF SkipInv
  <1>4. Taken' = Taken /\ Since' = Since
    BY <1>1, <1>2, <1>3, TakenStays, SinceStays DEF Still
  <1>5. Place'
    BY <1>2, <1>3 DEF Skip, Place, Still, Size, NoFile, Local
  <1>6. \A c \in Since : Accounted(c) => Accounted(c)'
    BY <1>2, <1>3, <1>4 DEF Accounted, Beyond, Still, Size
  <1> QED  BY <1>2, <1>3, <1>4, <1>5, <1>6 DEF Skip

(* What every step of the writer leaves as it was.                         *)
Untouched ==
    /\ pc' = pc /\ handle' = handle /\ offset' = offset /\ reading' = reading /\ since' = since
    /\ Taken' = Taken /\ Local' = Local

(* The follower does nothing.                                             *)
LEMMA UntouchedIs ==
  ASSUME UNCHANGED <<source, readerVars>>
  PROVE  Untouched
  BY DEF readerVars, Untouched, Taken, Local

(* The numbers that the steps of the writer compare.                       *)
LEMMA SkipFacts ==
  ASSUME TypeInv
  PROVE  /\ Len(files) \in Nat /\ handle \in 0..Len(files) /\ Len(written) \in Nat
         /\ offset \in Nat /\ reading \in Nat /\ generation \in Nat /\ since \in Nat
         /\ \A i \in 1..Len(files) :
                /\ Size(i) \in Nat /\ files[i].gen \in Nat /\ files[i].gen <= generation
                /\ files[i].cells \in Seq(Cell)
         /\ \A i, j \in 1..Len(files) : i < j => files[i].gen < files[j].gen
         /\ path # 0 => path \in 1..Len(files) /\ path = Len(files) /\ files[path].gen = generation
         /\ handle # 0 => reading <= files[handle].gen /\ handle \in 1..Len(files)
         /\ reading <= generation /\ since <= Len(written) /\ written \in Seq(Cell)
  <1>1. FileInv /\ ControlInv
    BY DEF TypeInv
  <1>2. /\ Len(files) \in Nat /\ path \in 0..Len(files) /\ generation \in Nat
        /\ \A i \in 1..Len(files) :
               Size(i) \in Nat /\ files[i].gen \in Nat /\ files[i].cells \in Seq(Cell)
        /\ Len(written) \in Nat
    BY <1>1, FileFacts
  <1>3. /\ offset \in Nat /\ reading \in Nat /\ handle \in 0..Len(files)
        /\ handle # 0 => reading <= files[handle].gen
        /\ reading <= generation /\ since \in Nat /\ since <= Len(written)
    BY <1>1, <1>2 DEF ControlInv
  <1>4. /\ \A i \in 1..Len(files) : files[i].gen <= generation
        /\ path # 0 => files[path].gen = generation
        /\ path # 0 => path = Len(files)
        /\ \A i, j \in 1..Len(files) : i < j => files[i].gen < files[j].gen
        /\ written \in Seq(Cell)
    BY <1>1 DEF FileInv
  <1>5. (path # 0 => path \in 1..Len(files)) /\ (handle # 0 => handle \in 1..Len(files))
    BY <1>2, <1>3
  <1> QED  BY <1>2, <1>3, <1>4, <1>5

(* A cell is added to the file of the path, or to the open one.            *)
LEMMA SkipByWrite ==
  ASSUME TypeInv, Skip, Untouched, LogWrite, Calm(surprises')
  PROVE  Skip'
  <1>1. FileInv /\ ControlInv
    BY DEF TypeInv
  <1>2. PICK i \in DOMAIN files, stamp \in BOOLEAN, end \in BOOLEAN :
            Write(i, stamp, end) /\ Surprised(Misses(FALSE) \cup IF Left(i) THEN {"missed"} ELSE {})
    BY DEF LogWrite
  <1>3. PICK c : NewCell(i, c) /\ i \in 1..Len(files)
    BY <1>1, <1>2, WriteIs
  <1>4. "missed" \notin surprises'
    BY DEF Calm
  <1>5. i = path \/ (Local /\ i = handle /\ pc # "switch")
    BY <1>2, <1>4 DEF Surprised, Left
  <1>6. pc # "tail"
    <2>1. pc = "tail" => Local
      BY <1>1, LocalHere
    <2> QED  BY <1>2, <1>4, <2>1 DEF Surprised, Misses, LocalMisses
  <1>7. /\ c \in Cell /\ c.gen = files[i].gen /\ path' = path
        /\ written' = Append(written, c) /\ Len(files') = Len(files)
        /\ \A j \in 1..Len(files) : files'[j] = IF j = i THEN WithCell(files[i], c) ELSE files[j]
    BY <1>3 DEF NewCell
  <1>8. ASSUME NEW j \in 1..Len(files)
        PROVE  /\ files'[j].gen = files[j].gen
               /\ \A k \in 1..Size(j) : files'[j].cells[k] = files[j].cells[k]
               /\ j # i => Size(j)' = Size(j)
               /\ j = i => Size(j)' = Size(j) + 1 /\ files'[j].cells[Size(j) + 1] = c
               /\ Size(j)' \in Nat /\ Size(j) <= Size(j)' /\ Size(j) \in Nat
    <2>1. PICK q : q = files[j].cells
      OBVIOUS
    <2>2. /\ Len(Append(q, c)) = Len(q) + 1 /\ Append(q, c)[Len(q) + 1] = c
          /\ \A m \in 1..Len(q) : Append(q, c)[m] = q[m]
          /\ Len(q) \in Nat
      <3>1. q \in Seq(Cell) /\ Len(q) \in Nat
        BY <2>1, SkipFacts DEF Size
      <3> QED  BY <1>7, <3>1, AppendProperties
    <2>3. files'[j].gen = files[j].gen
      BY <1>7 DEF WithCell
    <2>4. CASE j = i
      <3>1. files'[j].cells = Append(q, c)
        BY <1>7, <2>1, <2>4 DEF WithCell
      <3> QED  BY <2>1, <2>2, <2>3, <2>4, <3>1 DEF Size
    <2>5. CASE j # i
      <3>1. files'[j] = files[j]
        BY <1>7, <2>5
      <3> QED  BY <2>1, <2>2, <2>5, <3>1 DEF Size
    <2> QED  BY <2>4, <2>5
  <1>9. Since' \subseteq Since \cup {c}
    <2>1. /\ Len(written') = Len(written) + 1 /\ written'[Len(written) + 1] = c
          /\ \A k \in 1..Len(written) : written'[k] = written[k]
      BY <1>7, SkipFacts, AppendProperties
    <2>2. \A m \in (since + 1)..(Len(written) + 1) :
              m = Len(written) + 1 \/ (m \in 1..Len(written) /\ m \in (since + 1)..Len(written))
      BY SkipFacts, SMTT(30)
    <2>3. since' = since
      BY DEF Untouched
    <2> QED  BY <2>1, <2>2, <2>3 DEF Since
  <1>10. PICK h : h = handle
    OBVIOUS
  <1>11. handle # 0 =>
             /\ h \in 1..Len(files) /\ files'[h].gen = files[h].gen
             /\ Size(h)' \in Nat /\ Size(h) <= Size(h)' /\ Size(h) \in Nat
             /\ h # i => Size(h)' = Size(h)
    BY <1>8, <1>10, SkipFacts
  <1>12. Place'
    <2>1. handle # 0 /\ files'[h].gen = reading => offset <= Size(h)'
      BY <1>10, <1>11, SkipFacts DEF Skip, Place
    <2>2. handle # 0 /\ files'[h].gen = reading =>
              Local \/ path = handle \/ Size(h)' <= offset
      <3>1. handle # 0 /\ ~Local /\ path # handle => Size(h)' = Size(handle)
        BY <1>5, <1>10, <1>11
      <3> QED  BY <1>10, <1>11, <3>1 DEF Skip, Place
    <2>3. pc \in {"first", "read"} => path = handle /\ files'[h].gen = reading
      <3>1. pc \in {"first", "read"} => handle # 0
        BY <1>1, LocalHere
      <3> QED  BY <1>10, <1>11, <3>1 DEF Skip, Place
    <2>4. handle # 0 /\ files'[h].gen = reading =>
              offset <= Size(h)' /\ (Local \/ path = handle \/ Size(h)' <= offset)
      BY <2>1, <2>2
    <2> QED  BY <1>6, <1>7, <1>10, <2>3, <2>4 DEF Skip, Place, Untouched, Size, NoFile
  <1>13. ASSUME handle # 0, NEW d \in Since PROVE Accounted(d)'
    <2>1. Accounted(d)
      BY <1>13 DEF Skip
    <2>2. handle \in 1..Len(files) /\ files'[h].gen = files[handle].gen
      BY <1>13, <1>10, <1>11
    <2>3. path # 0 => files'[path].gen = files[path].gen
      BY <1>8, SkipFacts
    <2>4. Beyond(d, handle) => \E k \in (offset + 1)..Size(h)' : files'[h].cells[k] = d
      <3>1. SUFFICES ASSUME Beyond(d, handle)
                     PROVE  \E k \in (offset + 1)..Size(h)' : files'[h].cells[k] = d
        OBVIOUS
      <3>2. PICK k \in (offset + 1)..Size(handle) : files[handle].cells[k] = d
        BY <3>1 DEF Beyond
      <3>3. k \in 1..Size(handle) /\ k \in (offset + 1)..Size(h)'
        BY <1>13, <1>10, <1>11, SkipFacts
      <3>4. files'[h].cells[k] = files[h].cells[k]
        BY <1>8, <1>13, <1>10, <1>11, <3>3
      <3> QED  BY <1>10, <3>2, <3>3, <3>4
    <2>5. Beyond(d, handle) => Beyond(d, handle)'
      BY <1>10, <2>4 DEF Beyond, Untouched, Size
    <2> QED  BY <1>7, <1>10, <2>1, <2>2, <2>3, <2>5 DEF Accounted, Untouched
  <1>14. ASSUME handle # 0 PROVE Accounted(c)'
    <2>1. handle \in 1..Len(files) /\ c.gen = files[i].gen /\ c.gen \in Nat
      BY <1>3, <1>7, <1>14, SkipFacts
    <2>2. c.gen <= reading => i = handle /\ files[handle].gen = reading
      <3>1. SUFFICES ASSUME c.gen <= reading PROVE i = handle /\ files[handle].gen = reading
        OBVIOUS
      <3>2. CASE i = handle
        BY <1>14, <2>1, <3>1, <3>2, SkipFacts
      <3>3. CASE i = path /\ i # handle
        <4>1. handle < path /\ files[handle].gen < files[path].gen /\ reading <= files[handle].gen
          BY <1>3, <1>14, <2>1, <3>3, SkipFacts
        <4>2. files[handle].gen \in Nat /\ files[path].gen \in Nat /\ reading \in Nat
          BY <1>3, <2>1, <3>3, SkipFacts
        <4> QED  BY <2>1, <3>1, <3>3, <4>1, <4>2
      <3> QED  BY <1>5, <3>2, <3>3
    <2>3. c.gen <= reading => \E k \in (offset + 1)..Size(h)' : files'[h].cells[k] = c
      <3>1. SUFFICES ASSUME c.gen <= reading
                     PROVE  \E k \in (offset + 1)..Size(h)' : files'[h].cells[k] = c
        OBVIOUS
      <3>2. offset <= Size(handle) /\ offset \in Nat
        BY <1>14, <2>2, <3>1, SkipFacts DEF Skip, Place
      <3>3. /\ Size(h)' = Size(handle) + 1 /\ files'[h].cells[Size(handle) + 1] = c
            /\ Size(handle) \in Nat
        BY <1>8, <1>10, <2>1, <2>2, <3>1
      <3>4. Size(handle) + 1 \in (offset + 1)..Size(h)'
        BY <3>2, <3>3
      <3> QED  BY <3>3, <3>4
    <2>4. files'[h].gen = files[handle].gen /\ (path # 0 => files'[path].gen = files[path].gen)
      BY <1>8, <1>10, <2>1, SkipFacts
    <2>5. c.gen > reading => (Local /\ c.gen = files[handle].gen) \/ (path # 0 /\ c.gen = files[path].gen)
      <3>1. i = path => path # 0
        BY <1>3
      <3> QED  BY <1>5, <2>1, <3>1
    <2>6. pc = "switch" => path # 0 /\ path # handle /\ c.gen = files[path].gen
      <3>1. SUFFICES ASSUME pc = "switch" PROVE path # 0 /\ path # handle /\ c.gen = files[path].gen
        OBVIOUS
      <3>2. i = path /\ path # 0
        BY <1>3, <1>5, <3>1
      <3>3. handle < Len(files)
        BY <3>1 DEF Skip, Place
      <3>4. path = Len(files)
        BY <3>2, SkipFacts
      <3> QED  BY <2>1, <3>2, <3>3, <3>4
    <2>7. c.gen <= reading => Beyond(c, handle)'
      BY <1>10, <2>3 DEF Beyond, Untouched, Size
    <2> QED  BY <1>7, <1>10, <2>2, <2>4, <2>5, <2>6, <2>7 DEF Accounted, Untouched
  <1> QED  BY <1>9, <1>12, <1>13, <1>14 DEF Skip, Untouched

(* The path comes to name another file, or none.                           *)
LEMMA SkipByMove ==
  ASSUME TypeInv, Skip, Untouched, LogMoved, Calm(surprises')
  PROVE  Skip'
  <1>1. FileInv /\ ControlInv
    BY DEF TypeInv
  <1>2. /\ Len(files) <= Len(files') /\ Len(files) \in Nat /\ Len(files') \in Nat
        /\ \A j \in 1..Len(files) : files'[j] = files[j]
        /\ written' = written /\ path' \notin 1..Len(files)
    <2>1. CASE Replace
      BY <1>1, <2>1, ReplaceIs, SkipFacts
    <2>2. CASE Unlink
      BY <2>2, UnlinkIs, SkipFacts
    <2> QED  BY <2>1, <2>2 DEF LogMoved
  <1>3. Misses(TRUE) \subseteq surprises' /\ {"missed", "swapped"} \cap surprises' = {}
    BY DEF LogMoved, Surprised, Calm
  <1>4. /\ Local => pc # "tail" /\ (path = 0 \/ path = handle)
        /\ ~Local => pc \notin {"first", "read"}
        /\ ~Local /\ path # 0 /\ handle # 0 => ~Unread
    BY <1>3 DEF Misses, LocalMisses, SSHMisses
  <1>5. pc # "tail" /\ pc \notin {"first", "read"}
    BY <1>1, <1>4, LocalHere
  <1>6. ~Unread => path = handle /\ files[path].gen = reading /\ ~(offset < Size(path))
    BY DEF Unread
  <1>7. handle # 0 => handle \in 1..Len(files) /\ files'[handle] = files[handle]
    BY <1>2, SkipFacts
  <1>8. Since' = Since
    BY <1>2, SinceStays DEF Untouched
  <1>9. Place'
    <2>1. handle # 0 /\ files[handle].gen = reading =>
              offset <= Size(handle) /\ (Local \/ Size(handle) <= offset)
      <3>1. SUFFICES ASSUME handle # 0, files[handle].gen = reading, ~Local
                     PROVE  Size(handle) <= offset
        BY DEF Skip, Place
      <3>2. CASE path = handle
        <4>1. ~(offset < Size(handle))
          BY <1>4, <1>6, <3>1, <3>2
        <4> QED  BY <3>1, <4>1, SkipFacts
      <3> QED  BY <3>1, <3>2 DEF Skip, Place
    <2>2. Size(handle)' = Size(handle) \/ handle = 0
      BY <1>7 DEF Size, Untouched
    <2>3. pc = "switch" => handle < Len(files')
      BY <1>2, SkipFacts DEF Skip, Place
    <2>4. NoFile' => reading' = 0
      BY DEF Skip, Place, Untouched, NoFile
    <2> QED  BY <1>5, <1>7, <2>1, <2>2, <2>3, <2>4 DEF Place, Untouched, Size
  <1>10. ASSUME handle # 0, NEW c \in Since PROVE Accounted(c)'
    <2>1. Accounted(c) /\ c.gen \in Nat
      BY <1>10, SinceFacts DEF Skip
    <2>2. Local \/ path = 0 \/ (path = handle /\ files[path].gen = reading)
      BY <1>4, <1>6, <1>10
    <2>3. c.gen > reading => Local /\ c.gen = files[handle].gen
      <3>1. ~(c.gen > c.gen)
        BY <2>1
      <3> QED  BY <1>4, <2>1, <2>2, <3>1 DEF Accounted
    <2>4. pc = "switch" => c \in ToSet(Taken)
      <3>1. pc = "switch" => Local
        BY <1>1, LocalHere
      <3> QED  BY <1>4, <2>1, <3>1 DEF Accounted
    <2>5. Beyond(c, handle) => Beyond(c, handle)'
      BY <1>7, <1>10 DEF Beyond, Size, Untouched
    <2> QED  BY <1>7, <1>10, <2>1, <2>3, <2>4, <2>5 DEF Accounted, Untouched
  <1> QED  BY <1>8, <1>9, <1>10 DEF Skip, Untouched

(* The file is truncated after it was read.                                *)
LEMMA SkipByTruncation ==
  ASSUME TypeInv, Skip, Untouched, LogTruncated, Calm(surprises')
  PROVE  Skip'
  <1>1. FileInv /\ ControlInv
    BY DEF TypeInv
  <1>2. /\ path # 0 /\ path \in 1..Len(files) /\ path = Len(files) /\ path' = path
        /\ generation' = generation + 1 /\ written' = written /\ Len(files') = Len(files)
        /\ \A j \in 1..Len(files) : files'[j] = IF j = path THEN Blank ELSE files[j]
    BY <1>1, TruncateIs DEF LogTruncated
  <1>3. Misses(TRUE) \subseteq surprises' /\ {"missed", "swapped"} \cap surprises' = {} /\ ~Unread
    BY DEF LogTruncated, Surprised, Calm
  <1>4. path = handle /\ files[handle].gen = reading /\ ~(offset < Size(handle))
    BY <1>3 DEF Unread
  <1>5. pc # "tail" /\ pc \notin {"first", "read"}
    BY <1>1, <1>3, LocalHere DEF Misses, LocalMisses, SSHMisses
  <1>6. pc # "switch"
    BY <1>2, <1>4, SkipFacts DEF Skip, Place
  <1>7. files'[handle].gen # reading
    BY <1>2, <1>4, SkipFacts DEF Blank
  <1>8. Since' = Since
    BY <1>2, SinceStays DEF Untouched
  <1>9. Place'
    <2>1. NoFile' => reading' = 0
      BY DEF Skip, Place, Untouched, NoFile
    <2> QED  BY <1>5, <1>6, <1>7, <2>1 DEF Place, Untouched
  <1>10. ASSUME NEW c \in Since PROVE Accounted(c)'
    <2>1. Accounted(c) /\ c.gen \in Nat
      BY <1>2, <1>4, SinceFacts DEF Skip
    <2>2. ~(c.gen > reading)
      <3>1. ~(c.gen > c.gen)
        BY <2>1
      <3> QED  BY <1>4, <2>1, <3>1 DEF Accounted
    <2>3. ~Beyond(c, handle)
      <3>1. (offset + 1)..Size(handle) = {}
        BY <1>2, <1>4, SkipFacts
      <3> QED  BY <3>1 DEF Beyond
    <2> QED  BY <1>6, <2>1, <2>2, <2>3 DEF Accounted, Untouched
  <1> QED  BY <1>8, <1>9, <1>10 DEF Skip

(* It holds at first.                                                     *)
LEMMA SkipInit == Init => SkipInv
  BY DEF Init, SkipInv, Skip, Place, NoFile

(* It holds after every step.                                             *)
LEMMA SkipSafe == TypeInv /\ SkipInv /\ [Next]_vars => SkipInv'
  <1> SUFFICES ASSUME TypeInv, SkipInv, [Next]_vars PROVE SkipInv'
    OBVIOUS
  <1>1. CASE Follow \/ Finish
    BY <1>1, SkipLocal, SkipSSH, SkipFinish DEF Follow, Finish
  <1>2. CASE (LogWrite \/ LogMoved \/ LogTruncated) /\ UNCHANGED <<source, readerVars, failures>>
    <2>1. Untouched
      BY <1>2, UntouchedIs
    <2>2. surprises \subseteq surprises'
      BY <1>2 DEF LogWrite, LogMoved, LogTruncated, Surprised
    <2>3. SUFFICES ASSUME Calm(surprises') PROVE Skip'
      BY DEF SkipInv
    <2>4. Skip
      BY <2>2, <2>3 DEF SkipInv, Calm
    <2> QED  BY <1>2, <2>1, <2>3, <2>4, SkipByWrite, SkipByMove, SkipByTruncation
  <1>3. CASE UNCHANGED vars
    <2>1. /\ UNCHANGED <<source, files, path, written, surprises>>
          /\ UNCHANGED <<pc, handle, offset, reading, since>> /\ Taken' = Taken
      BY <1>3 DEF vars, fileVars, readerVars, Taken
    <2>2. Since' = Since
      BY <2>1, SinceStays
    <2>3. Place => Place'
      BY <2>1 DEF Place, Size, Local, NoFile
    <2>4. \A c \in Since : Accounted(c) => Accounted(c)'
      BY <2>1 DEF Accounted, Beyond, Size, Local
    <2> QED  BY <2>1, <2>2, <2>3, <2>4 DEF SkipInv, Skip
  <1> QED  BY <1>1, <1>2, <1>3 DEF Next

(* A cell that the follower has passed does not lie ahead.                 *)
LEMMA SkipImplied == TypeInv /\ SkipInv => NothingElseIsSkipped
  <1> SUFFICES ASSUME TypeInv, Skip, handle # 0, NEW k \in (since + 1)..Len(written),
                      Passed(written[k])
               PROVE  \E j \in DOMAIN Taken : Taken[j] = written[k]
    BY DEF SkipInv, Calm, NothingElseIsSkipped
  <1>1. PICK c : c = written[k]
    OBVIOUS
  <1>2. c \in Since
    BY <1>1 DEF Since
  <1>3. Accounted(c) /\ c.gen \in Nat
    BY <1>2, SinceFacts DEF Skip
  <1>4. handle \in 1..Len(files) /\ reading \in Nat /\ offset \in Nat /\ Size(handle) \in Nat
    BY SkipFacts
  <1>5. PICK f, n : f = files[handle] /\ n = Len(f.cells)
    OBVIOUS
  <1>6. Content(f) /\ n \in Nat /\ f.cells \in Seq(Cell) /\ n = Size(handle)
    BY <1>4, <1>5, SkipFacts DEF TypeInv, FileInv, Size
  <1>7. \A m \in 1..n : f.cells[m].gen = f.gen
    BY <1>5, <1>6 DEF Content
  <1>8. c.gen <= reading
    <2>1. CASE c.gen < reading
      BY <1>3, <1>4, <2>1
    <2>2. CASE ~(c.gen < reading)
      <3>1. /\ f.gen = reading
            /\ \E m \in 1..offset : m \in DOMAIN f.cells /\ f.cells[m] = c
        BY <1>1, <1>5, <2>2 DEF Passed
      <3>2. DOMAIN f.cells = 1..n
        BY <1>5, <1>6, LenProperties
      <3> QED  BY <1>3, <1>4, <1>7, <3>1, <3>2
    <2> QED  BY <2>1, <2>2
  <1>9. ~(f.gen = reading /\ Beyond(c, handle))
    <2>1. SUFFICES ASSUME f.gen = reading, Beyond(c, handle) PROVE FALSE
      OBVIOUS
    <2>2. PICK m \in (offset + 1)..n : f.cells[m] = c
      BY <1>5, <1>6, <2>1 DEF Beyond
    <2>3. m \in 1..n /\ c.gen = reading
      BY <1>4, <1>7, <2>1, <2>2
    <2>4. \E l \in 1..offset : l \in DOMAIN f.cells /\ f.cells[l] = c
      BY <1>1, <1>4, <1>5, <2>3 DEF Passed
    <2>5. DOMAIN f.cells = 1..n
      BY <1>5, <1>6, LenProperties
    <2>6. PICK l \in 1..n : l \in 1..offset /\ f.cells[l] = c
      BY <2>4, <2>5
    <2>7. l < m
      BY <1>4, <2>2, <2>6
    <2>8. f.cells[l].id < f.cells[m].id
      BY <1>5, <1>6, <2>3, <2>6, <2>7 DEF Content
    <2>9. c.id \in Nat
      BY <1>2, SinceFacts DEF Cell
    <2> QED  BY <2>2, <2>6, <2>8, <2>9
  <1>10. c \in ToSet(Taken)
    BY <1>3, <1>5, <1>8, <1>9 DEF Accounted
  <1> QED  BY <1>1, <1>10 DEF ToSet

(* No cell written since the first read is skipped but at the moments      *)
(* that are listed: for any sources, window, history and bounds.           *)
THEOREM NothingIsSkipped == Spec => []NothingElseIsSkipped
  <1>1. Init => TypeInv /\ SkipInv
    BY TypeInit, SkipInit
  <1>2. TypeInv /\ SkipInv /\ [Next]_vars => TypeInv' /\ SkipInv'
    BY TypeSafe, SkipSafe
  <1>3. Spec => [](TypeInv /\ SkipInv)
    BY <1>1, <1>2, PTL DEF Spec
  <1> QED  BY <1>3, SkipImplied, PTL
=============================================================================
