---------------------------- MODULE StreamProofs ----------------------------
(***************************************************************************)
(* Theorems of WebSocketStream and PanelView, for every number of          *)
(* connections and events, every queue size and every order of timestamps. *)
(***************************************************************************)
EXTENDS PanelView, InductionFacts, FiniteSetTheorems, SequenceTheorems, TLAPS

Distinct(q) == \A i, j \in DOMAIN q : i # j => q[i] # q[j]

TypeInv ==
    /\ published \in 0..MaxEvents
    /\ setting \in Delays
    /\ pc \in [Slots -> States]
    /\ queue \in [Slots -> Seq(Events)]
    /\ subscribed \in [Slots -> BOOLEAN]
    /\ delay \in [Slots -> Delays \cup {0}]
    /\ buffer \in [Slots -> Seq(Events)]
    /\ out \in [Slots -> Seq(Events)]
    /\ since \in [Slots -> 0..MaxEvents]
    /\ lost \in [Slots -> SUBSET Events]
    /\ socket \in Slots \cup {0}
    /\ open \subseteq Slots
    /\ timer \in BOOLEAN
    /\ wanted \in BOOLEAN
    /\ delivered \in Seq(Events)
    /\ replaced \in 0..MaxReplaced

(* The browser has no open socket but the current one.                     *)
OneSocket == open = IF socket = 0 THEN {} ELSE {socket}

(* Where an endpoint may hold events, on their way to the browser.         *)
Shape(c) ==
    /\ ~subscribed[c] => queue[c] = <<>>
    /\ pc[c] \in {"free", "accept", "ended"} => ~subscribed[c]
    /\ pc[c] # "timed" => buffer[c] = <<>>
    /\ pc[c] # "send" => out[c] = <<>>
    /\ Len(queue[c]) <= QueueSize
    /\ since[c] <= published

Line(c) == ToSet(queue[c]) \cup ToSet(buffer[c]) \cup ToSet(out[c])

(* They have been published, and each is there once.                       *)
Past(c) == \A e \in Line(c) : e <= published
Single(c) ==
    /\ Distinct(queue[c]) /\ Distinct(buffer[c]) /\ Distinct(out[c])
    /\ ToSet(queue[c]) \cap ToSet(buffer[c]) = {}
    /\ ToSet(queue[c]) \cap ToSet(out[c]) = {}

SlotInv(c) == Shape(c) /\ Past(c) /\ Single(c)

DeliveredPast == \A e \in ToSet(delivered) : e <= published

(* What may still come over an open socket has not been delivered.         *)
Ahead == \A c \in open : ToSet(delivered) \cap Line(c) = {}

Inv ==
    /\ TypeInv
    /\ \A c \in Slots : SlotInv(c)
    /\ OneSocket
    /\ DeliveredPast
    /\ DeliveredOnce
    /\ Ahead
    /\ NothingMissedWhileSubscribed

-----------------------------------------------------------------------------
(* Sequences without repetition.                                           *)

LEMMA EmptyQueue ==
    ASSUME NEW q, q = <<>>
    PROVE  Distinct(q) /\ ToSet(q) = {}
  BY DEF Distinct, ToSet

LEMMA OneSeq ==
    ASSUME NEW S, NEW e \in S
    PROVE  <<e>> \in Seq(S) /\ Distinct(<<e>>) /\ ToSet(<<e>>) = {e}
  BY DEF Distinct, ToSet

LEMMA TailSeq ==
    ASSUME NEW S, NEW q \in Seq(S), q # <<>>
    PROVE  /\ Tail(q) \in Seq(S) /\ Head(q) \in S /\ Len(Tail(q)) = Len(q) - 1
           /\ Len(q) # 0
           /\ ToSet(q) = ToSet(Tail(q)) \cup {Head(q)}
           /\ Distinct(q) => Distinct(Tail(q)) /\ Head(q) \notin ToSet(Tail(q))
  <1>1. /\ Tail(q) \in Seq(S) /\ Head(q) \in S /\ Len(Tail(q)) = Len(q) - 1 /\ Len(q) # 0
        /\ Head(q) = q[1] /\ \A i \in 1..Len(q) - 1 : Tail(q)[i] = q[i + 1]
    OBVIOUS
  <1>2. DOMAIN q = 1..Len(q) /\ DOMAIN Tail(q) = 1..Len(q) - 1 /\ Len(q) \in Nat
    BY <1>1
  <1>3. ToSet(q) \subseteq ToSet(Tail(q)) \cup {Head(q)}
    <2> SUFFICES ASSUME NEW i \in 1..Len(q), i # 1
                 PROVE  q[i] \in ToSet(Tail(q))
      BY <1>1, <1>2 DEF ToSet
    <2>1. i - 1 \in 1..Len(q) - 1 /\ q[i] = Tail(q)[i - 1]
      BY <1>1, <1>2
    <2> QED  BY <2>1, <1>2 DEF ToSet
  <1>4. ToSet(Tail(q)) \cup {Head(q)} \subseteq ToSet(q)
    BY <1>1, <1>2 DEF ToSet
  <1>5. Distinct(q) => Distinct(Tail(q)) /\ Head(q) \notin ToSet(Tail(q))
    BY <1>1, <1>2 DEF Distinct, ToSet
  <1> QED  BY <1>1, <1>3, <1>4, <1>5

LEMMA AppendSeq ==
    ASSUME NEW S, NEW q \in Seq(S), NEW e \in S
    PROVE  /\ Append(q, e) \in Seq(S) /\ Len(Append(q, e)) = Len(q) + 1
           /\ ToSet(Append(q, e)) = ToSet(q) \cup {e}
           /\ Distinct(q) /\ e \notin ToSet(q) => Distinct(Append(q, e))
  <1>1. /\ Append(q, e) \in Seq(S) /\ Len(Append(q, e)) = Len(q) + 1
        /\ \A i \in 1..Len(q) : Append(q, e)[i] = q[i]
        /\ Append(q, e)[Len(q) + 1] = e
    OBVIOUS
  <1>2. DOMAIN q = 1..Len(q) /\ DOMAIN Append(q, e) = 1..Len(q) + 1 /\ Len(q) \in Nat
    BY <1>1
  <1>3. ToSet(Append(q, e)) = ToSet(q) \cup {e}
    BY <1>1, <1>2 DEF ToSet
  <1>4. Distinct(q) /\ e \notin ToSet(q) => Distinct(Append(q, e))
    BY <1>1, <1>2 DEF Distinct, ToSet
  <1> QED  BY <1>1, <1>3, <1>4

(* A new event in a queue, in the place of the oldest one when it is full. *)
LEMMA OfferSeq ==
    ASSUME NEW S, NEW q \in Seq(S), NEW e \in S, Len(q) <= QueueSize
    PROVE  /\ Offer(q, e) \in Seq(S) /\ Len(Offer(q, e)) <= QueueSize
           /\ ToSet(Offer(q, e)) \subseteq ToSet(q) \cup {e}
           /\ e \in ToSet(Offer(q, e))
           /\ Len(q) # QueueSize => ToSet(Offer(q, e)) = ToSet(q) \cup {e}
           /\ Len(q) = QueueSize =>
                  Head(q) \in S /\ ToSet(q) \subseteq ToSet(Offer(q, e)) \cup {Head(q)}
           /\ Distinct(q) /\ e \notin ToSet(q) => Distinct(Offer(q, e))
  <1> QueueSize \in Nat \ {0} /\ Len(q) \in Nat
    BY QueueAssumption
  <1>1. CASE Len(q) < QueueSize
    <2>1. Offer(q, e) = Append(q, e)
      BY <1>1 DEF Offer
    <2> QED  BY <1>1, <2>1, AppendSeq
  <1>2. CASE Len(q) = QueueSize
    <2>1. q # <<>>
      BY <1>2
    <2>2. Offer(q, e) = Append(Tail(q), e)
      BY <1>2 DEF Offer
    <2>3. Tail(q) \in Seq(S) /\ Len(Tail(q)) = Len(q) - 1
      BY <2>1, TailSeq
    <2>4. /\ Append(Tail(q), e) \in Seq(S)
          /\ Len(Append(Tail(q), e)) = Len(Tail(q)) + 1
          /\ ToSet(Append(Tail(q), e)) = ToSet(Tail(q)) \cup {e}
          /\ Distinct(Tail(q)) /\ e \notin ToSet(Tail(q)) => Distinct(Append(Tail(q), e))
      BY <2>3, AppendSeq, ZenonT(30)
    <2>5. /\ Head(q) \in S /\ ToSet(q) = ToSet(Tail(q)) \cup {Head(q)}
          /\ Distinct(q) => Distinct(Tail(q))
      BY <2>1, TailSeq
    <2>6. Len(Offer(q, e)) = Len(q)
      BY <2>2, <2>3, <2>4
    <2> QED  BY <1>2, <2>2, <2>4, <2>5, <2>6
  <1> QED  BY <1>1, <1>2

(* A flush sends what was buffered, each event once.                       *)
LEMMA FlushSeq ==
    ASSUME NEW q \in Seq(Events), NEW s \in Flushed(q)
    PROVE  s \in Seq(Events) /\ Distinct(s) /\ ToSet(s) = ToSet(q)
  <1>1. s \in SetToSeqs(ToSet(q))
    BY DEF Flushed, Ordered
  <1> DEFINE D == 1..Cardinality(ToSet(q))
  <1>2. s \in [D -> ToSet(q)] /\ \A i, j \in D : i # j => s[i] # s[j]
    BY <1>1 DEF SetToSeqs
  <1>3. ToSet(q) \subseteq Events
    BY DEF ToSet
  <1>4. IsFiniteSet(ToSet(q))
    BY <1>3, FS_Interval, FS_Subset, BoundAssumption DEF Events
  <1>5. Cardinality(ToSet(q)) \in Nat
    BY <1>4, FS_CardinalityType
  <1>6. s \in Seq(Events) /\ DOMAIN s = D
    BY <1>2, <1>3, <1>5
  <1>7. s \in Surjection(D, ToSet(q))
    <2>1. IsFiniteSet(D) /\ Cardinality(D) = Cardinality(ToSet(q))
      BY <1>5, FS_Interval
    <2>2. s \in Injection(D, ToSet(q))
      BY <1>2 DEF Injection, IsInjective
    <2> HIDE DEF D
    <2> QED  BY <1>4, <2>1, <2>2, FS_Injection
  <1>8. ToSet(s) = ToSet(q)
    BY <1>2, <1>6, <1>7 DEF ToSet, Surjection
  <1> QED  BY <1>2, <1>6, <1>8 DEF Distinct
-----------------------------------------------------------------------------
(* Every step preserves the invariant.                                     *)

LEMMA InvInit == Init => Inv
  <1> SUFFICES ASSUME Init PROVE Inv
    OBVIOUS
  <1> USE SlotAssumption, BoundAssumption, QueueAssumption
  <1>1. TypeInv
    BY DEF Init, TypeInv, States
  <1>2. \A c \in Slots : Shape(c)
    BY DEF Init, Shape
  <1>3. \A c \in Slots : Line(c) = {} /\ Single(c)
    BY EmptyQueue DEF Init, Line, Single
  <1>4. ToSet(delivered) = {} /\ DOMAIN delivered = {}
    BY EmptyQueue DEF Init
  <1>5. DeliveredPast /\ Ahead /\ OneSocket /\ \A c \in Slots : Past(c)
    BY <1>3, <1>4 DEF Init, Past, DeliveredPast, Ahead, OneSocket
  <1>6. DeliveredOnce
    BY <1>4 DEF DeliveredOnce
  <1>7. NothingMissedWhileSubscribed
    BY DEF Init, NothingMissedWhileSubscribed
  <1> QED  BY <1>1, <1>2, <1>3, <1>5, <1>6, <1>7 DEF Inv, SlotInv

(* A slot that a step leaves alone, while more may be published.           *)
LEMMA OtherSlot ==
    ASSUME Inv, NEW d \in Slots, published' = published,
           pc'[d] = pc[d], queue'[d] = queue[d], subscribed'[d] = subscribed[d],
           buffer'[d] = buffer[d], out'[d] = out[d], since'[d] = since[d]
    PROVE  SlotInv(d)' /\ Line(d)' = Line(d)
  BY DEF Inv, SlotInv, Shape, Past, Single, Line

LEMMA PublishInv == Inv /\ Publish => Inv'
  <1> SUFFICES ASSUME Inv, Publish PROVE Inv'
    OBVIOUS
  <1> USE SlotAssumption, BoundAssumption, QueueAssumption
  <1> DEFINE e == published + 1
  <1>1. /\ TypeInv /\ OneSocket /\ DeliveredPast /\ DeliveredOnce /\ Ahead
        /\ NothingMissedWhileSubscribed
    BY DEF Inv
  <1>2. e \in Events /\ e \in Nat /\ published \in Nat /\ published' = e
    BY <1>1 DEF Publish, TypeInv, Events
  <1>3. UNCHANGED <<setting, pc, subscribed, delay, buffer, out, since, socket, open,
                    timer, wanted, delivered, replaced>>
    BY DEF Publish, browser
  <1>4. ASSUME NEW c \in Slots
        PROVE  /\ queue'[c] \in Seq(Events) /\ lost'[c] \subseteq Events
               /\ SlotInv(c)' /\ Line(c)' \subseteq Line(c) \cup {e}
               /\ lost[c] \subseteq lost'[c]
               /\ subscribed[c] => e \in ToSet(queue'[c])
               /\ ToSet(queue[c]) \subseteq ToSet(queue'[c]) \cup lost'[c]
    <2>1. /\ queue[c] \in Seq(Events) /\ lost[c] \subseteq Events /\ since[c] \in Nat
          /\ SlotInv(c)
      BY <1>1 DEF TypeInv, Inv
    <2>2. e \notin Line(c) /\ Len(queue[c]) <= QueueSize /\ Distinct(queue[c])
      BY <2>1, <1>2 DEF SlotInv, Shape, Past, Single
    <2>3. /\ queue'[c] = IF subscribed[c] THEN Offer(queue[c], e) ELSE queue[c]
          /\ lost'[c] = IF subscribed[c] /\ Len(queue[c]) = QueueSize
                        THEN lost[c] \cup {Head(queue[c])} ELSE lost[c]
      BY <1>2 DEF Publish
    <2>4. e \notin ToSet(queue[c])
      BY <2>2 DEF Line
    <2> DEFINE q == queue[c]
    <2>5. /\ Offer(q, e) \in Seq(Events) /\ Len(Offer(q, e)) <= QueueSize
          /\ ToSet(Offer(q, e)) \subseteq ToSet(q) \cup {e}
          /\ e \in ToSet(Offer(q, e))
          /\ Len(q) # QueueSize => ToSet(Offer(q, e)) = ToSet(q) \cup {e}
          /\ Len(q) = QueueSize =>
                 Head(q) \in Events /\ ToSet(q) \subseteq ToSet(Offer(q, e)) \cup {Head(q)}
          /\ Distinct(Offer(q, e))
      <3> HIDE DEF q, e
      <3> q \in Seq(Events) /\ e \in Events /\ Len(q) <= QueueSize
        BY <2>1, <2>2, <1>2 DEF q
      <3> QED  BY <2>2, <2>4, OfferSeq, ZenonT(30) DEF q
    <2>6. /\ queue'[c] \in Seq(Events) /\ lost'[c] \subseteq Events
          /\ lost[c] \subseteq lost'[c]
          /\ subscribed[c] => e \in ToSet(queue'[c])
          /\ ToSet(queue[c]) \subseteq ToSet(queue'[c]) \cup lost'[c]
          /\ ToSet(queue'[c]) \subseteq ToSet(queue[c]) \cup {e}
          /\ Distinct(queue'[c]) /\ Len(queue'[c]) <= QueueSize
      BY <2>1, <2>2, <2>3, <2>5
    <2>7. Line(c)' \subseteq Line(c) \cup {e}
      BY <2>6, <1>3 DEF Line
    <2>8. Past(c)'
      <3>1. \A x \in Line(c) : x \in Events
        BY <1>1 DEF Line, TypeInv, ToSet
      <3> QED  BY <2>1, <2>7, <3>1, <1>2 DEF SlotInv, Past, Events
    <2>9. Shape(c)'
      BY <2>1, <2>3, <2>6, <1>2, <1>3 DEF SlotInv, Shape
    <2>10. Single(c)'
      BY <2>1, <2>2, <2>6, <1>3 DEF SlotInv, Single, Line
    <2> QED  BY <2>6, <2>7, <2>8, <2>9, <2>10 DEF SlotInv
  <1>5. TypeInv'
    <2>1. /\ queue' = [c \in Slots |-> queue'[c]]
          /\ lost' = [c \in Slots |-> lost'[c]]
      BY DEF Publish
    <2>2. queue' \in [Slots -> Seq(Events)] /\ lost' \in [Slots -> SUBSET Events]
      BY <2>1, <1>4
    <2>3. published' \in 0..MaxEvents
      BY <1>2 DEF Events
    <2> QED  BY <1>1, <1>3, <2>2, <2>3 DEF TypeInv
  <1>6. OneSocket' /\ DeliveredOnce'
    BY <1>1, <1>3 DEF OneSocket, DeliveredOnce
  <1>7. \A x \in ToSet(delivered) : x \in Events
    BY <1>1 DEF TypeInv, ToSet
  <1>8. DeliveredPast'
    BY <1>1, <1>2, <1>3, <1>7 DEF DeliveredPast, Events
  <1>9. Ahead'
    <2>1. e \notin ToSet(delivered)
      BY <1>1, <1>2 DEF DeliveredPast
    <2>2. open \subseteq Slots
      BY <1>1 DEF TypeInv
    <2> QED  BY <1>1, <1>3, <1>4, <2>1, <2>2 DEF Ahead
  <1>10. NothingMissedWhileSubscribed'
    <2> SUFFICES ASSUME socket # 0, subscribed[socket],
                        NEW x \in Events, x > since[socket], x <= e
                 PROVE  x \in Kept(socket)'
      BY <1>2, <1>3 DEF NothingMissedWhileSubscribed, Missed
    <2>1. socket \in Slots
      BY <1>1 DEF TypeInv
    <2>2. CASE x = e
      BY <1>3, <1>4, <2>1, <2>2 DEF Kept
    <2>3. CASE x # e
      <3>1. x <= published
        BY <1>2, <2>3 DEF Events
      <3>2. x \in Kept(socket)
        BY <1>1, <3>1 DEF NothingMissedWhileSubscribed, Missed
      <3> QED  BY <3>2, <1>3, <1>4, <2>1 DEF Kept
    <2> QED  BY <2>2, <2>3
  <1> QED  BY <1>4, <1>5, <1>6, <1>8, <1>9, <1>10 DEF Inv

(* A step of endpoint c: it changes only its own slot and adds nothing to  *)
(* what is on its way; while it stays subscribed, it removes nothing.      *)
OthersKept(c) ==
    \A d \in Slots \ {c} :
        /\ pc'[d] = pc[d] /\ queue'[d] = queue[d] /\ subscribed'[d] = subscribed[d]
        /\ buffer'[d] = buffer[d] /\ out'[d] = out[d] /\ since'[d] = since[d]
        /\ lost'[d] = lost[d]

LEMMA EndpointInv ==
    ASSUME Inv, NEW c \in Slots, TypeInv', UNCHANGED <<published, browser>>,
           OthersKept(c),
           SlotInv(c)', Line(c)' \subseteq Line(c),
           subscribed'[c] =>
               \/ since'[c] = published
               \/ /\ subscribed[c] /\ since'[c] = since[c] /\ lost'[c] = lost[c]
                  /\ Line(c) \subseteq Line(c)'
    PROVE  Inv'
  <1>1. /\ TypeInv /\ OneSocket /\ DeliveredPast /\ DeliveredOnce /\ Ahead
        /\ NothingMissedWhileSubscribed
    BY DEF Inv
  <1>2. socket' = socket /\ open' = open /\ delivered' = delivered
    BY DEF browser
  <1>3. \A d \in Slots \ {c} : SlotInv(d)' /\ Line(d)' = Line(d)
    BY OtherSlot DEF OthersKept
  <1>4. OneSocket' /\ DeliveredPast' /\ DeliveredOnce'
    BY <1>1, <1>2 DEF OneSocket, DeliveredPast, DeliveredOnce
  <1>5. Ahead'
    <2>1. open \subseteq Slots
      BY <1>1 DEF TypeInv
    <2> QED  BY <1>1, <1>2, <1>3, <2>1 DEF Ahead
  <1>6. NothingMissedWhileSubscribed'
    <2> SUFFICES ASSUME socket # 0, subscribed'[socket],
                        NEW x \in Events, x > since'[socket], x <= published
                 PROVE  x \in Kept(socket)'
      BY <1>2 DEF NothingMissedWhileSubscribed, Missed
    <2>1. socket \in Slots /\ published \in Nat
      BY <1>1 DEF TypeInv
    <2>2. CASE socket # c
      <3>1. x \in Kept(socket)
        BY <1>1, <2>1, <2>2 DEF NothingMissedWhileSubscribed, Missed, OthersKept
      <3> QED  BY <3>1, <1>2, <2>1, <2>2 DEF Kept, OthersKept
    <2>3. CASE socket = c
      <3>1. x \in Nat
        BY DEF Events
      <3>2. /\ subscribed[c] /\ since'[c] = since[c] /\ lost'[c] = lost[c]
            /\ Line(c) \subseteq Line(c)'
        BY <2>1, <2>3, <3>1
      <3>3. x \in Kept(c)
        BY <1>1, <2>3, <3>2 DEF NothingMissedWhileSubscribed, Missed
      <3> QED  BY <3>2, <3>3, <1>2, <2>3 DEF Kept, Line
    <2> QED  BY <2>2, <2>3
  <1> QED  BY <1>3, <1>4, <1>5, <1>6 DEF Inv

LEMMA SubscribeInv == ASSUME Inv, NEW c \in Slots, Subscribe(c) PROVE Inv'
  <1> USE SlotAssumption, BoundAssumption, QueueAssumption
  <1>1. TypeInv /\ SlotInv(c) /\ published \in 0..MaxEvents
    BY DEF Inv, TypeInv
  <1>2. TypeInv'
    BY <1>1 DEF Subscribe, TypeInv, States, browser
  <1>3. queue[c] = <<>> /\ Len(queue[c]) = 0
    BY <1>1 DEF Subscribe, SlotInv, Shape
  <1>4. SlotInv(c)' /\ Line(c)' = Line(c)
    BY <1>1, <1>3 DEF Subscribe, SlotInv, Shape, Past, Single, Line, TypeInv
  <1>5. since'[c] = published
    BY <1>1 DEF Subscribe, TypeInv
  <1>6. OthersKept(c) /\ UNCHANGED <<published, browser>>
    BY <1>1 DEF Subscribe, TypeInv, OthersKept
  <1> QED  BY <1>2, <1>4, <1>5, <1>6, EndpointInv

LEMMA GetInv == ASSUME Inv, NEW c \in Slots, Get(c) PROVE Inv'
  <1> USE SlotAssumption, BoundAssumption, QueueAssumption
  <1> DEFINE e == Head(queue[c])
  <1>1. TypeInv /\ SlotInv(c)
    BY DEF Inv
  <1>2. queue[c] \in Seq(Events) /\ queue[c] # <<>> /\ subscribed[c]
    BY <1>1 DEF Get, TypeInv, SlotInv, Shape
  <1>3. /\ Tail(queue[c]) \in Seq(Events) /\ e \in Events
        /\ Len(Tail(queue[c])) = Len(queue[c]) - 1 /\ Len(queue[c]) \in Nat
        /\ ToSet(queue[c]) = ToSet(Tail(queue[c])) \cup {e}
        /\ Distinct(Tail(queue[c])) /\ e \notin ToSet(Tail(queue[c]))
    BY <1>1, <1>2, TailSeq DEF SlotInv, Single
  <1>4. <<e>> \in Seq(Events) /\ Distinct(<<e>>) /\ ToSet(<<e>>) = {e}
    BY <1>3, OneSeq
  <1>5. TypeInv'
    <2>1. /\ queue' \in [Slots -> Seq(Events)] /\ pc' \in [Slots -> States]
          /\ buffer' \in [Slots -> Seq(Events)] /\ out' \in [Slots -> Seq(Events)]
          /\ delay' \in [Slots -> Delays \cup {0}]
      <3>1. queue' = [queue EXCEPT ![c] = Tail(@)]
        BY DEF Get
      <3>2. queue' \in [Slots -> Seq(Events)]
        BY <1>1, <1>3, <3>1 DEF TypeInv
      <3>3. \/ /\ pc' = [pc EXCEPT ![c] = "send"] /\ out' = [out EXCEPT ![c] = <<e>>]
               /\ buffer' = buffer /\ delay' = delay
            \/ /\ pc' = [pc EXCEPT ![c] = "timed"] /\ buffer' = [buffer EXCEPT ![c] = <<e>>]
               /\ delay' = [delay EXCEPT ![c] = setting] /\ out' = out
        BY DEF Get
      <3> DEFINE one == <<e>>
      <3>4. one \in Seq(Events)
        BY <1>4
      <3> HIDE DEF one
      <3>5. /\ buffer' = buffer \/ buffer' = [buffer EXCEPT ![c] = one]
            /\ out' = out \/ out' = [out EXCEPT ![c] = one]
        BY <3>3 DEF one
      <3>6. /\ buffer \in [Slots -> Seq(Events)] /\ out \in [Slots -> Seq(Events)]
            /\ delay \in [Slots -> Delays \cup {0}] /\ setting \in Delays
        BY <1>1 DEF TypeInv
      <3>7. delay' = delay \/ delay' = [delay EXCEPT ![c] = setting]
        BY <3>3
      <3>8. buffer' \in [Slots -> Seq(Events)]
        BY <3>4, <3>5, <3>6
      <3>9. out' \in [Slots -> Seq(Events)]
        BY <3>4, <3>5, <3>6
      <3>10. pc' \in [Slots -> States]
        BY <1>1, <3>3 DEF TypeInv, States
      <3>11. delay' \in [Slots -> Delays \cup {0}]
        BY <3>6, <3>7
      <3> QED  BY <3>2, <3>8, <3>9, <3>10, <3>11
    <2>2. UNCHANGED <<published, setting, subscribed, since, lost, socket, open, timer,
                      wanted, delivered, replaced>>
      BY DEF Get, browser
    <2> QED  BY <1>1, <2>1, <2>2 DEF TypeInv
  <1>6. /\ queue'[c] = Tail(queue[c]) /\ subscribed' = subscribed /\ since' = since
        /\ lost' = lost /\ published' = published
        /\ \/ pc'[c] = "send" /\ out'[c] = <<e>> /\ buffer'[c] = buffer[c]
           \/ pc'[c] = "timed" /\ buffer'[c] = <<e>> /\ out'[c] = out[c]
    BY <1>1 DEF Get, TypeInv
  <1>7. buffer[c] = <<>> /\ out[c] = <<>> /\ pc[c] = "get"
    BY <1>1 DEF Get, SlotInv, Shape
  <1>8. Distinct(<<>>) /\ ToSet(<<>>) = {}
    BY EmptyQueue
  <1>9. Line(c)' = Line(c)
    BY <1>3, <1>4, <1>6, <1>7, <1>8 DEF Line
  <1>10. Shape(c)'
    BY <1>1, <1>2, <1>3, <1>6, <1>7 DEF SlotInv, Shape
  <1>11. Past(c)' /\ Single(c)'
    BY <1>1, <1>3, <1>4, <1>6, <1>7, <1>8, <1>9 DEF SlotInv, Past, Single
  <1>12. OthersKept(c) /\ UNCHANGED <<published, browser>>
    BY <1>1 DEF Get, TypeInv, OthersKept
  <1> QED  BY <1>2, <1>5, <1>6, <1>9, <1>10, <1>11, <1>12, EndpointInv DEF SlotInv

LEMMA CollectInv == ASSUME Inv, NEW c \in Slots, Collect(c) PROVE Inv'
  <1> USE SlotAssumption, BoundAssumption, QueueAssumption
  <1> DEFINE e == Head(queue[c])
  <1>1. TypeInv /\ SlotInv(c)
    BY DEF Inv
  <1>2. queue[c] \in Seq(Events) /\ queue[c] # <<>> /\ subscribed[c] /\ buffer[c] \in Seq(Events)
    BY <1>1 DEF Collect, TypeInv, SlotInv, Shape
  <1>3. /\ Tail(queue[c]) \in Seq(Events) /\ e \in Events
        /\ Len(Tail(queue[c])) = Len(queue[c]) - 1 /\ Len(queue[c]) \in Nat
        /\ ToSet(queue[c]) = ToSet(Tail(queue[c])) \cup {e}
        /\ Distinct(Tail(queue[c])) /\ e \notin ToSet(Tail(queue[c]))
    BY <1>1, <1>2, TailSeq DEF SlotInv, Single
  <1>4. e \notin ToSet(buffer[c]) /\ Distinct(buffer[c])
    BY <1>1, <1>3 DEF SlotInv, Single
  <1>5. /\ Append(buffer[c], e) \in Seq(Events)
        /\ ToSet(Append(buffer[c], e)) = ToSet(buffer[c]) \cup {e}
        /\ Distinct(Append(buffer[c], e))
    BY <1>2, <1>3, <1>4, AppendSeq
  <1> DEFINE kept == Append(buffer[c], e)
  <1>6. /\ queue' = [queue EXCEPT ![c] = Tail(queue[c])]
        /\ delay' = [delay EXCEPT ![c] = setting]
        /\ pc[c] = "timed" /\ out[c] = <<>>
        /\ UNCHANGED <<published, setting, subscribed, since, lost, browser, replaced>>
    BY <1>1 DEF Collect, SlotInv, Shape
  <1>7. PICK b, s :
            /\ buffer' = [buffer EXCEPT ![c] = b] /\ out' = [out EXCEPT ![c] = s]
            /\ \/ pc' = pc /\ b = kept /\ s = <<>>
               \/ pc' = [pc EXCEPT ![c] = "send"] /\ b = <<>> /\ s \in Flushed(kept)
    <2>1. CASE buffer' = [buffer EXCEPT ![c] = kept] /\ pc' = pc /\ out' = out
      <3>1. out' = [out EXCEPT ![c] = <<>>]
        BY <1>1, <1>6, <2>1 DEF TypeInv
      <3> QED  BY <2>1, <3>1
    <2>2. CASE Flush(c, kept)
      BY <2>2 DEF Flush
    <2> QED  BY <2>1, <2>2 DEF Collect, Collected
  <1>8. /\ b \in Seq(Events) /\ s \in Seq(Events) /\ Distinct(b) /\ Distinct(s)
        /\ ToSet(b) \cup ToSet(s) = ToSet(buffer[c]) \cup {e}
    <2> HIDE DEF kept, e
    <2>1. kept \in Seq(Events) /\ Distinct(kept) /\ ToSet(kept) = ToSet(buffer[c]) \cup {e}
      BY <1>5 DEF kept
    <2>2. <<>> \in Seq(Events) /\ Distinct(<<>>) /\ ToSet(<<>>) = {}
      BY EmptyQueue
    <2>3. s \in Flushed(kept) => s \in Seq(Events) /\ Distinct(s) /\ ToSet(s) = ToSet(kept)
      BY <2>1, FlushSeq
    <2> QED  BY <1>7, <2>1, <2>2, <2>3
  <1>9. TypeInv'
    <2>1. queue' \in [Slots -> Seq(Events)] /\ buffer' \in [Slots -> Seq(Events)]
          /\ out' \in [Slots -> Seq(Events)]
      BY <1>1, <1>3, <1>6, <1>7, <1>8 DEF TypeInv
    <2>2. pc' \in [Slots -> States]
      BY <1>1, <1>7 DEF TypeInv, States
    <2>3. delay' \in [Slots -> Delays \cup {0}]
      BY <1>1, <1>6 DEF TypeInv
    <2> QED  BY <1>1, <1>6, <2>1, <2>2, <2>3 DEF TypeInv, browser
  <1>10. /\ queue'[c] = Tail(queue[c]) /\ buffer'[c] = b /\ out'[c] = s
         /\ subscribed'[c] /\ since'[c] = since[c] /\ lost'[c] = lost[c]
         /\ published' = published
         /\ (pc'[c] = "timed" /\ s = <<>>) \/ (pc'[c] = "send" /\ b = <<>>)
    <2>1. (pc'[c] = "timed" /\ s = <<>>) \/ (pc'[c] = "send" /\ b = <<>>)
      <3>1. pc \in [Slots -> States] /\ pc[c] = "timed"
        BY <1>1, <1>6 DEF TypeInv
      <3>2. \/ pc' = pc /\ s = <<>>
            \/ pc' = [pc EXCEPT ![c] = "send"] /\ b = <<>>
        BY <1>7
      <3> QED  BY <3>1, <3>2
    <2>2. buffer'[c] = b /\ out'[c] = s
      <3> HIDE DEF kept, e
      <3> QED  BY <1>1, <1>7 DEF TypeInv
    <2> QED  BY <1>1, <1>2, <1>6, <2>1, <2>2 DEF TypeInv
  <1>11. Line(c)' = Line(c)
    <2>1. ToSet(out[c]) = {}
      BY <1>6, EmptyQueue
    <2> QED  BY <1>3, <1>8, <1>10, <2>1 DEF Line
  <1>12. Shape(c)'
    BY <1>1, <1>2, <1>3, <1>10 DEF SlotInv, Shape
  <1>13. Past(c)' /\ Single(c)'
    <2> HIDE DEF e
    <2>1. (ToSet(b) \cup ToSet(s)) \cap ToSet(Tail(queue[c])) = {}
      BY <1>1, <1>3, <1>8 DEF SlotInv, Single
    <2> QED  BY <1>1, <1>3, <1>8, <1>10, <1>11, <2>1 DEF SlotInv, Past, Single
  <1>14. OthersKept(c) /\ UNCHANGED <<published, browser>>
    BY <1>1, <1>6, <1>7 DEF TypeInv, OthersKept
  <1> QED  BY <1>2, <1>9, <1>10, <1>11, <1>12, <1>13, <1>14, EndpointInv DEF SlotInv

LEMMA DeadlineInv == ASSUME Inv, NEW c \in Slots, Deadline(c) PROVE Inv'
  <1> USE SlotAssumption, BoundAssumption, QueueAssumption
  <1>1. TypeInv /\ SlotInv(c)
    BY DEF Inv
  <1>2. buffer[c] \in Seq(Events)
    BY <1>1 DEF TypeInv
  <1>3. PICK s \in Flushed(buffer[c]) : out' = [out EXCEPT ![c] = s]
    BY DEF Deadline, Flush
  <1>4. s \in Seq(Events) /\ Distinct(s) /\ ToSet(s) \subseteq ToSet(buffer[c])
    BY <1>2, FlushSeq
  <1>5. <<>> \in Seq(Events) /\ Distinct(<<>>) /\ ToSet(<<>>) = {} /\ Len(<<>>) = 0
    BY EmptyQueue
  <1>6. TypeInv'
    BY <1>1, <1>3, <1>4, SMTT(30) DEF Deadline, Flush, Unsubscribe, TypeInv, States, browser
  <1>7. /\ out'[c] = s /\ queue'[c] = <<>> /\ buffer'[c] = <<>> /\ ~subscribed'[c]
        /\ pc'[c] = "send" /\ UNCHANGED <<published, since, lost>>
    BY <1>1, <1>3 DEF Deadline, Flush, Unsubscribe, TypeInv
  <1>8. Line(c)' \subseteq Line(c)
    BY <1>4, <1>5, <1>7 DEF Line
  <1>9. SlotInv(c)'
    BY <1>1, <1>4, <1>5, <1>7, <1>8 DEF SlotInv, Shape, Past, Single
  <1>10. OthersKept(c) /\ UNCHANGED <<published, browser>>
    BY <1>1, <1>3 DEF Deadline, Flush, Unsubscribe, TypeInv, OthersKept
  <1> QED  BY <1>6, <1>7, <1>8, <1>9, <1>10, EndpointInv DEF SlotInv

LEMMA SentInv == ASSUME Inv, NEW c \in Slots, Sent(c) PROVE Inv'
  <1> USE SlotAssumption, BoundAssumption, QueueAssumption
  <1>1. TypeInv /\ SlotInv(c)
    BY DEF Inv
  <1>2. TypeInv'
    BY <1>1 DEF Sent, TypeInv, States, browser
  <1>3. /\ pc[c] = "send" /\ pc'[c] = "get" /\ out[c] = <<>>
        /\ UNCHANGED <<published, queue, subscribed, buffer, out, since, lost>>
    BY <1>1 DEF Sent, TypeInv
  <1>4. SlotInv(c)' /\ Line(c)' = Line(c)
    BY <1>1, <1>3 DEF SlotInv, Shape, Past, Single, Line
  <1>5. OthersKept(c) /\ UNCHANGED <<published, browser>>
    BY <1>1 DEF Sent, TypeInv, OthersKept
  <1> QED  BY <1>2, <1>3, <1>4, <1>5, EndpointInv DEF SlotInv

LEMMA EndInv ==
    ASSUME Inv, NEW c \in Slots, End(c)
    PROVE  Inv'
  <1> USE SlotAssumption, BoundAssumption, QueueAssumption
  <1>1. TypeInv
    BY DEF Inv
  <1>2. TypeInv'
    BY <1>1, SMTT(30) DEF End, Unsubscribe, TypeInv, States, browser
  <1>3. Distinct(<<>>) /\ ToSet(<<>>) = {} /\ Len(<<>>) = 0
    BY EmptyQueue
  <1>4. /\ queue'[c] = <<>> /\ buffer'[c] = <<>> /\ out'[c] = <<>> /\ ~subscribed'[c]
        /\ since'[c] = 0 /\ pc'[c] \in {"ended", "free"} /\ published' = published
    BY <1>1 DEF End, Unsubscribe, TypeInv
  <1>5. Line(c)' = {} /\ Single(c)'
    BY <1>3, <1>4 DEF Line, Single
  <1>6. Shape(c)' /\ Past(c)'
    BY <1>1, <1>3, <1>4, <1>5 DEF Shape, Past, TypeInv
  <1>7. OthersKept(c) /\ UNCHANGED <<published, browser>>
    BY <1>1 DEF End, Unsubscribe, TypeInv, OthersKept
  <1> QED  BY <1>2, <1>4, <1>5, <1>6, <1>7, EndpointInv DEF SlotInv

LEMMA SendInv == ASSUME Inv, NEW c \in Slots, Send(c) PROVE Inv'
  <1> USE SlotAssumption, BoundAssumption, QueueAssumption
  <1> DEFINE e == Head(out[c])
  <1>1. /\ TypeInv /\ OneSocket /\ DeliveredPast /\ DeliveredOnce /\ Ahead
        /\ NothingMissedWhileSubscribed /\ SlotInv(c)
    BY DEF Inv
  <1>2. out[c] \in Seq(Events) /\ out[c] # <<>> /\ delivered \in Seq(Events)
    BY <1>1 DEF Send, TypeInv
  <1>3. open = {c} /\ socket = c
    BY <1>1 DEF Send, OneSocket
  <1>4. /\ Tail(out[c]) \in Seq(Events) /\ e \in Events
        /\ ToSet(out[c]) = ToSet(Tail(out[c])) \cup {e}
        /\ Distinct(Tail(out[c])) /\ e \notin ToSet(Tail(out[c]))
    BY <1>1, <1>2, TailSeq DEF SlotInv, Single
  <1>5. e \notin ToSet(delivered)
    BY <1>1, <1>3, <1>4 DEF Ahead, Line
  <1>6. /\ Append(delivered, e) \in Seq(Events)
        /\ ToSet(Append(delivered, e)) = ToSet(delivered) \cup {e}
        /\ Distinct(Append(delivered, e))
    <2>1. Distinct(delivered)
      BY <1>1 DEF DeliveredOnce, Distinct
    <2> QED  BY <2>1, <1>2, <1>4, <1>5, AppendSeq
  <1>7. /\ delivered' = Append(delivered, e) /\ out'[c] = Tail(out[c])
        /\ UNCHANGED <<published, setting, pc, queue, subscribed, delay, buffer, since,
                       lost, socket, open, timer, wanted, replaced>>
        /\ \A d \in Slots \ {c} : out'[d] = out[d]
    BY <1>1 DEF Send, TypeInv
  <1>8. TypeInv'
    <2>1. out' \in [Slots -> Seq(Events)]
      BY <1>1, <1>4 DEF Send, TypeInv
    <2> QED  BY <1>1, <1>6, <1>7, <2>1 DEF TypeInv
  <1>9. Line(c)' \cup {e} = Line(c) /\ e \notin Line(c)'
    <2>1. pc[c] = "send" /\ buffer[c] = <<>>
      BY <1>1 DEF Send, SlotInv, Shape
    <2>2. ToSet(buffer[c]) = {}
      BY <2>1, EmptyQueue
    <2>3. e \notin ToSet(queue[c])
      BY <1>1, <1>4 DEF SlotInv, Single
    <2> QED  BY <1>4, <1>7, <2>2, <2>3 DEF Line
  <1>10. SlotInv(c)'
    BY <1>1, <1>4, <1>7, <1>9 DEF SlotInv, Shape, Past, Single, Send
  <1>11. \A d \in Slots \ {c} : SlotInv(d)'
    BY <1>7, OtherSlot
  <1>12. OneSocket' /\ DeliveredOnce'
    BY <1>1, <1>6, <1>7 DEF OneSocket, DeliveredOnce, Distinct
  <1>13. DeliveredPast'
    BY <1>1, <1>6, <1>7, <1>9 DEF DeliveredPast, SlotInv, Past
  <1>14. Ahead'
    BY <1>1, <1>3, <1>6, <1>7, <1>9 DEF Ahead
  <1>15. NothingMissedWhileSubscribed'
    BY <1>1, <1>3, <1>6, <1>7, <1>9 DEF NothingMissedWhileSubscribed, Missed, Kept, Line
  <1> QED  BY <1>8, <1>10, <1>11, <1>12, <1>13, <1>14, <1>15 DEF Inv

LEMMA ConnectInv ==
    ASSUME Inv, NEW c \in Slots, Connect(c), wanted' \in BOOLEAN,
           replaced' \in 0..MaxReplaced
    PROVE  Inv'
  <1> USE SlotAssumption, BoundAssumption, QueueAssumption
  <1>1. /\ TypeInv /\ OneSocket /\ DeliveredPast /\ DeliveredOnce /\ SlotInv(c)
    BY DEF Inv
  <1>2. socket' = c /\ open' = {c}
    BY <1>1 DEF Connect, Opened, OneSocket
  <1>3. /\ UNCHANGED <<published, setting, queue, subscribed, delay, buffer, out, since,
                       lost, delivered>>
        /\ timer' \in BOOLEAN
    BY DEF Connect
  <1>4. pc' \in [Slots -> States]
    BY <1>1 DEF Connect, TypeInv, States
  <1>5. TypeInv'
    BY <1>1, <1>2, <1>3, <1>4 DEF TypeInv
  <1>6. ASSUME NEW d \in Slots
        PROVE  SlotInv(d)'
    <2>1. SlotInv(d)
      BY DEF Inv
    <2>2. \/ pc'[d] = pc[d]
          \/ pc[d] \in {"free", "ended"} /\ pc'[d] \in {"free", "accept"}
      BY DEF Connect
    <2> QED  BY <1>3, <2>1, <2>2 DEF SlotInv, Shape, Past, Single, Line
  <1>7. ~subscribed[c] /\ Line(c)' = {}
    <2>1. ~subscribed[c] /\ queue[c] = <<>> /\ buffer[c] = <<>> /\ out[c] = <<>>
      BY <1>1 DEF SlotInv, Shape, Connect
    <2>2. ToSet(queue[c]) = {} /\ ToSet(buffer[c]) = {} /\ ToSet(out[c]) = {}
      BY <2>1, EmptyQueue
    <2> QED  BY <1>3, <2>1, <2>2 DEF Line
  <1>8. OneSocket' /\ DeliveredPast' /\ DeliveredOnce' /\ Ahead'
    BY <1>1, <1>2, <1>3, <1>7 DEF OneSocket, DeliveredPast, DeliveredOnce, Ahead
  <1>9. NothingMissedWhileSubscribed'
    BY <1>2, <1>3, <1>7 DEF NothingMissedWhileSubscribed
  <1> QED  BY <1>5, <1>6, <1>8, <1>9 DEF Inv

(* What is given up is counted up to the bound.                            *)
LEMMA GiveUpType == ASSUME Inv, GiveUp PROVE replaced' \in 0..MaxReplaced
  <1>1. replaced \in 0..MaxReplaced
    BY DEF Inv, TypeInv
  <1> QED  BY <1>1, BoundAssumption DEF GiveUp

LEMMA ReplaceInv == ASSUME Inv, NEW c \in Slots, Replace(c) \/ Reconnect(c) PROVE Inv'
  <1>1. wanted' \in BOOLEAN /\ replaced' \in 0..MaxReplaced
    BY GiveUpType DEF Replace, Reconnect, Inv, TypeInv
  <1> QED  BY <1>1, ConnectInv DEF Replace, Reconnect

LEMMA CloseInv == ASSUME Inv, Disable \/ NoReconnect PROVE Inv'
  <1> USE SlotAssumption, BoundAssumption, QueueAssumption
  <1>1. /\ TypeInv /\ OneSocket /\ DeliveredPast /\ DeliveredOnce
        /\ Close /\ wanted' \in BOOLEAN /\ replaced' \in 0..MaxReplaced
    BY GiveUpType DEF Inv, TypeInv, Disable, NoReconnect
  <1>2. socket' = 0 /\ open' = {} /\ timer' = FALSE
    BY <1>1 DEF Close, OneSocket
  <1>3. UNCHANGED <<published, setting, queue, subscribed, delay, buffer, out, since,
                    lost, delivered>>
    BY <1>1 DEF Close
  <1>4. pc' \in [Slots -> States]
    BY <1>1 DEF Close, TypeInv, States
  <1>5. TypeInv'
    BY <1>1, <1>2, <1>3, <1>4 DEF TypeInv
  <1>6. ASSUME NEW d \in Slots
        PROVE  SlotInv(d)'
    <2>1. SlotInv(d)
      BY DEF Inv
    <2>2. pc'[d] = pc[d] \/ (pc[d] = "ended" /\ pc'[d] = "free")
      BY <1>1 DEF Close
    <2> QED  BY <1>3, <2>1, <2>2 DEF SlotInv, Shape, Past, Single, Line
  <1>7. OneSocket' /\ DeliveredPast' /\ DeliveredOnce' /\ Ahead'
    BY <1>1, <1>2, <1>3 DEF OneSocket, DeliveredPast, DeliveredOnce, Ahead
  <1>8. NothingMissedWhileSubscribed'
    BY <1>2 DEF NothingMissedWhileSubscribed
  <1> QED  BY <1>5, <1>6, <1>7, <1>8 DEF Inv

LEMMA OnCloseInv == ASSUME Inv, NEW c \in Slots, OnClose(c) PROVE Inv'
  <1> USE SlotAssumption, BoundAssumption, QueueAssumption
  <1>1. /\ TypeInv /\ OneSocket /\ DeliveredPast /\ DeliveredOnce /\ SlotInv(c)
    BY DEF Inv
  <1>2. open = {c} /\ socket = c
    BY <1>1 DEF OnClose, OneSocket
  <1>3. socket' = 0 /\ open' = {} /\ timer' = TRUE
    BY <1>2 DEF OnClose, Scheduled
  <1>4. UNCHANGED <<published, setting, queue, subscribed, delay, buffer, out, since,
                    lost, wanted, delivered>>
    BY DEF OnClose
  <1>5. pc' \in [Slots -> States] /\ replaced' \in 0..MaxReplaced
    <2>1. /\ pc' = pc \/ pc' = [pc EXCEPT ![c] = "free"]
          /\ replaced' = replaced \/ (replaced < MaxReplaced /\ replaced' = replaced + 1)
      BY DEF OnClose
    <2>2. pc \in [Slots -> States] /\ replaced \in 0..MaxReplaced
      BY <1>1 DEF TypeInv
    <2>3. pc' \in [Slots -> States]
      BY <2>1, <2>2 DEF States
    <2> QED  BY <2>1, <2>2, <2>3
  <1>6. TypeInv'
    BY <1>1, <1>3, <1>4, <1>5 DEF TypeInv
  <1>7. ASSUME NEW d \in Slots
        PROVE  SlotInv(d)'
    <2>1. SlotInv(d)
      BY DEF Inv
    <2>2. pc'[d] = pc[d] \/ (pc[d] = "ended" /\ pc'[d] = "free")
      BY <1>1 DEF OnClose, TypeInv
    <2> QED  BY <1>4, <2>1, <2>2 DEF SlotInv, Shape, Past, Single, Line
  <1>8. OneSocket' /\ DeliveredPast' /\ DeliveredOnce' /\ Ahead'
    BY <1>1, <1>3, <1>4 DEF OneSocket, DeliveredPast, DeliveredOnce, Ahead
  <1>9. NothingMissedWhileSubscribed'
    BY <1>3 DEF NothingMissedWhileSubscribed
  <1> QED  BY <1>6, <1>7, <1>8, <1>9 DEF Inv

(* A step that changes none of the variables of the invariant but setting. *)
LEMMA IdleInv ==
    ASSUME Inv, setting' \in Delays, UNCHANGED <<published, server, browser, replaced>>
    PROVE  Inv'
  <1>1. UNCHANGED <<published, pc, queue, subscribed, delay, buffer, out, since, lost,
                    socket, open, timer, wanted, delivered, replaced>>
    BY DEF server, browser
  <1>2. TypeInv'
    BY <1>1 DEF Inv, TypeInv
  <1>3. \A c \in Slots : SlotInv(c)' /\ Line(c)' = Line(c)
    BY <1>1, OtherSlot
  <1>4. open \subseteq Slots
    BY DEF Inv, TypeInv
  <1>5. OneSocket' /\ DeliveredPast' /\ DeliveredOnce' /\ Ahead'
    BY <1>1, <1>3, <1>4 DEF Inv, OneSocket, DeliveredPast, DeliveredOnce, Ahead
  <1>6. NothingMissedWhileSubscribed'
    BY <1>1 DEF Inv, NothingMissedWhileSubscribed, Missed, Kept
  <1> QED  BY <1>2, <1>3, <1>5, <1>6 DEF Inv

LEMMA NextInv == Inv /\ [Next]_vars => Inv'
  <1> SUFFICES ASSUME Inv, [Next]_vars PROVE Inv'
    OBVIOUS
  <1>1. CASE Publish
    BY <1>1, PublishInv
  <1>2. ASSUME NEW c \in Slots, EndpointStep(c) PROVE Inv'
    <2>1. CASE Subscribe(c)  BY <2>1, SubscribeInv
    <2>2. CASE Get(c)  BY <2>2, GetInv
    <2>3. CASE Collect(c)  BY <2>3, CollectInv
    <2>4. CASE Deadline(c)  BY <2>4, DeadlineInv
    <2>5. CASE Send(c)  BY <2>5, SendInv
    <2>6. CASE Sent(c)  BY <2>6, SentInv
    <2>7. CASE Exhausted(c) \/ Disconnected(c)
      BY <2>7, EndInv DEF Exhausted, Disconnected
    <2> QED  BY <1>2, <2>1, <2>2, <2>3, <2>4, <2>5, <2>6, <2>7 DEF EndpointStep
  <1>3. ASSUME NEW c \in Slots, Replace(c) \/ Reconnect(c) \/ OnClose(c) PROVE Inv'
    BY <1>3, ReplaceInv, OnCloseInv
  <1>4. ASSUME NEW d \in Delays, UpdateSettings(d) PROVE Inv'
    BY <1>4, IdleInv DEF UpdateSettings
  <1>5. CASE UNCHANGED vars
    BY <1>5, IdleInv DEF vars, Inv, TypeInv
  <1>6. CASE Disable \/ NoReconnect
    BY <1>6, CloseInv
  <1> QED  BY <1>1, <1>2, <1>3, <1>4, <1>5, <1>6 DEF Next

LEMMA StreamInv == Spec => []Inv
  <1>1. Init => Inv
    BY InvInit
  <1>2. Inv /\ [Next]_vars => Inv'
    BY NextInv
  <1> QED  BY <1>1, <1>2, PTL DEF Spec

-----------------------------------------------------------------------------
LEMMA InvTypes == Inv => TypeOK
  <1> SUFFICES ASSUME Inv PROVE TypeOK
    OBVIOUS
  <1>1. TypeInv /\ \A c \in Slots : Shape(c)
    BY DEF Inv, SlotInv
  <1>2. \A c \in Slots :
            ToSet(queue[c]) \cup ToSet(buffer[c]) \cup ToSet(out[c]) \cup lost[c] \subseteq Events
    BY <1>1 DEF TypeInv, ToSet
  <1>3. ToSet(delivered) \subseteq Events
    BY <1>1 DEF TypeInv, ToSet
  <1>4. \A c \in Slots : since[c] \in 0..published /\ delay[c] \in Delays \cup {0}
    BY <1>1 DEF TypeInv, Shape
  <1> QED  BY <1>1, <1>2, <1>3, <1>4 DEF TypeOK, TypeInv, Shape

(* Every variable stays in its range, for all values of the constants.     *)
THEOREM TypeCorrect == Spec => []TypeOK
  BY InvTypes, StreamInv, PTL

(* The browser never receives an event twice, with any number of sockets   *)
(* that the server still serves.                                           *)
THEOREM NeverTwice == Spec => []DeliveredOnce
  <1>1. Inv => DeliveredOnce
    BY DEF Inv
  <1> QED  BY <1>1, StreamInv, PTL

(* A subscribed connection loses events only to the limit of its queue.    *)
THEOREM SubscribedMissesNothing == Spec => []NothingMissedWhileSubscribed
  <1>1. Inv => NothingMissedWhileSubscribed
    BY DEF Inv
  <1> QED  BY <1>1, StreamInv, PTL

(* A panel does not change the stream: with it, the stream still behaves   *)
(* as WebSocketStream says, and the browser receives no event twice.       *)
THEOREM ViewImplementsStream == ViewSpec => Spec /\ []DeliveredOnce
  <1>1. ViewInit => Init
    BY DEF ViewInit
  <1>2. [ViewNext]_viewVars => [Next]_vars
    <2> SUFFICES ASSUME [ViewNext]_viewVars PROVE [Next]_vars
      OBVIOUS
    <2>1. CASE Store \/ Pause \/ \E l \in Loads : Load(l) \/ Answer(l) \/ Replaced(l) \/ Failed(l)
      BY <2>1 DEF Store, Load, Answer, Replaced, Failed, Pause
    <2>2. CASE PublishStored
      BY <2>2 DEF PublishStored, Next
    <2>3. CASE StreamStep
      BY <2>3 DEF StreamStep, Next, EndpointStep
    <2>4. CASE \E c \in Slots : Receive(c)
      BY <2>4 DEF Receive, Next, EndpointStep
    <2>5. CASE UNCHANGED viewVars
      BY <2>5 DEF viewVars
    <2> QED  BY <2>1, <2>2, <2>3, <2>4, <2>5 DEF ViewNext
  <1>3. ViewSpec => Spec
    BY <1>1, <1>2, PTL DEF ViewSpec, Spec
  <1> QED  BY <1>3, NeverTwice, PTL

-----------------------------------------------------------------------------
(* Sequences in display order.                                             *)

Increasing(q) == \A i, j \in DOMAIN q : i < j => Earlier(q[i], q[j])

\* q lists the events in S.
Lists(q, S) == q \in Seq(Events) /\ Increasing(q) /\ ToSet(q) = S

\* Earlier is a total order.
LEMMA EarlierOrder ==
    /\ \A a, b \in Events : Earlier(a, b) => ~Earlier(b, a)
    /\ \A a, b, c \in Events : Earlier(a, b) /\ Earlier(b, c) => Earlier(a, c)
    /\ \A a, b \in Events : a = b \/ Earlier(a, b) \/ Earlier(b, a)
    /\ \A a \in Events : ~Earlier(a, a)
  <1>1. \A a \in Events : Time[a] \in Nat /\ a \in Nat
    BY TimeAssumption, BoundAssumption DEF Events
  <1>2. \A a, b \in Events : Earlier(a, b) => ~Earlier(b, a)
    BY <1>1 DEF Earlier
  <1>3. \A a, b, c \in Events : Earlier(a, b) /\ Earlier(b, c) => Earlier(a, c)
    BY <1>1 DEF Earlier
  <1>4. \A a, b \in Events : a = b \/ Earlier(a, b) \/ Earlier(b, a)
    BY <1>1 DEF Earlier
  <1>5. \A a \in Events : ~Earlier(a, a)
    BY <1>1 DEF Earlier
  <1> QED  BY <1>2, <1>3, <1>4, <1>5

\* A set of events, and how many there are.
LEMMA EventsCount ==
    ASSUME NEW S \in SUBSET Events
    PROVE  IsFiniteSet(S) /\ Cardinality(S) \in Nat /\ S \subseteq Nat
  <1>1. IsFiniteSet(Events) /\ Events \subseteq Nat
    BY FS_Interval, BoundAssumption DEF Events
  <1> QED  BY <1>1, FS_Subset, FS_CardinalityType

\* What lists a set is one of its orderings, with one place for each event.
LEMMA ListsOrdered ==
    ASSUME NEW S \in SUBSET Events, NEW q, Lists(q, S)
    PROVE  q \in Ordered(S) /\ Len(q) = Cardinality(S) /\ Distinct(q)
  <1>1. q \in Seq(Events) /\ DOMAIN q = 1..Len(q) /\ Len(q) \in Nat
    BY DEF Lists
  <1>2. Distinct(q)
    <2> SUFFICES ASSUME NEW i \in 1..Len(q), NEW j \in 1..Len(q), i < j PROVE q[i] # q[j]
      BY <1>1 DEF Distinct
    <2>1. Earlier(q[i], q[j]) /\ q[i] \in Events /\ q[j] \in Events
      BY <1>1 DEF Lists, Increasing
    <2> QED  BY <2>1, EarlierOrder
  <1> DEFINE D == 1..Len(q)
  <1>3. {q[i] : i \in D} = S
    BY <1>1 DEF Lists, ToSet
  <1>4. Cardinality(S) = Len(q)
    <2>1. IsFiniteSet(D) /\ Cardinality(D) = Len(q)
      BY <1>1, FS_Interval, SMTT(30)
    <2>2. DOMAIN q = D /\ q = [i \in D |-> q[i]] /\ \A i, j \in D : q[i] = q[j] => i = j
      BY <1>1, <1>2 DEF Distinct
    <2> HIDE DEF D
    <2>3. Cardinality({q[i] : i \in D}) = Cardinality(D)
      BY <2>1, <2>2, ImageCounts
    <2> QED  BY <1>3, <2>1, <2>3
  <1>5. q \in [1..Cardinality(S) -> S]
    BY <1>1, <1>3, <1>4
  <1>6. q \in SetToSeqs(S)
    BY <1>1, <1>2, <1>4, <1>5 DEF SetToSeqs, Distinct
  <1> QED  BY <1>2, <1>4, <1>6 DEF Ordered, Lists, Increasing

\* The converse.
LEMMA OrderedLists ==
    ASSUME NEW S \in SUBSET Events, NEW q \in Ordered(S)
    PROVE  Lists(q, S) /\ Len(q) = Cardinality(S)
  <1> DEFINE n == Cardinality(S)
             D == 1..n
  <1>1. n \in Nat /\ IsFiniteSet(S)
    BY EventsCount
  <1>2. q \in [D -> S] /\ \A i, j \in D : i # j => q[i] # q[j]
    BY DEF Ordered, SetToSeqs
  <1>3. q \in Seq(Events) /\ Len(q) = n /\ DOMAIN q = D
    BY <1>1, <1>2
  <1>4. Increasing(q)
    BY DEF Ordered, Increasing
  <1>5. q \in Surjection(D, S)
    <2>1. IsFiniteSet(D) /\ Cardinality(D) = n
      BY <1>1, FS_Interval
    <2>2. q \in Injection(D, S)
      BY <1>2 DEF Injection, IsInjective
    <2> HIDE DEF D
    <2>3. Cardinality(D) = Cardinality(S) <=> q \in Surjection(D, S)
      BY <1>1, <2>2, FS_Injection
    <2> QED  BY <2>1, <2>3
  <1>6. ToSet(q) = S
    BY <1>2, <1>3, <1>5 DEF ToSet, Surjection
  <1> QED  BY <1>3, <1>4, <1>6 DEF Lists

\* The sequence with an element more, at place k.
LEMMA InsertSeq ==
    ASSUME NEW S, NEW q \in Seq(S), NEW e \in S, NEW k \in 1..Len(q) + 1
    PROVE  LET r == InsertAt(q, k, e)
           IN  /\ r \in Seq(S) /\ Len(r) = Len(q) + 1
               /\ \A i \in 1..Len(q) + 1 :
                      r[i] = IF i < k THEN q[i] ELSE IF i = k THEN e ELSE q[i - 1]
  <1> DEFINE a == SubSeq(q, 1, k - 1)
             b == SubSeq(q, k, Len(q))
             c == a \o <<e>>
             r == InsertAt(q, k, e)
  <1>1. Len(q) \in Nat /\ k \in Nat /\ 1 <= k /\ k <= Len(q) + 1
    OBVIOUS
  <1>2. /\ a \in Seq(S) /\ Len(a) = k - 1 /\ \A i \in 1..k - 1 : a[i] = q[i]
    <2>1. \A i \in 1..k - 1 : q[i] \in S
      BY <1>1
    <2>2. /\ a \in Seq(S) /\ Len(a) = IF 1 <= k - 1 THEN k - 1 - 1 + 1 ELSE 0
          /\ \A i \in 1..k - 1 - 1 + 1 : a[i] = q[1 + i - 1]
      BY <1>1, <2>1, SubSeqProperties
    <2> HIDE DEF a
    <2> QED  BY <1>1, <2>2
  <1>3. /\ b \in Seq(S) /\ Len(b) = Len(q) + 1 - k
        /\ \A i \in 1..Len(q) + 1 - k : b[i] = q[k + i - 1]
    <2>1. \A i \in k..Len(q) : q[i] \in S
      BY <1>1
    <2>2. /\ b \in Seq(S) /\ Len(b) = IF k <= Len(q) THEN Len(q) - k + 1 ELSE 0
          /\ \A i \in 1..Len(q) - k + 1 : b[i] = q[k + i - 1]
      BY <1>1, <2>1, SubSeqProperties
    <2> HIDE DEF b
    <2> QED  BY <1>1, <2>2
  <1>4. r = c \o b
    BY DEF InsertAt
  <1>5. c \in Seq(S) /\ Len(c) = k /\ c[k] = e /\ \A i \in 1..k - 1 : c[i] = q[i]
    <2> HIDE DEF a
    <2> QED  BY <1>1, <1>2
  <1> HIDE DEF a, b, c, r
  <1>6. /\ r \in Seq(S) /\ Len(r) = k + (Len(q) + 1 - k)
        /\ \A i \in 1..k + (Len(q) + 1 - k) : r[i] = IF i <= k THEN c[i] ELSE b[i - k]
    <2>1. /\ r \in Seq(S) /\ Len(r) = Len(c) + Len(b)
          /\ \A i \in 1..Len(c) + Len(b) :
                 r[i] = IF i <= Len(c) THEN c[i] ELSE b[i - Len(c)]
      BY <1>3, <1>4, <1>5, ConcatProperties, Zenon
    <2> QED  BY <1>3, <1>5, <2>1
  <1>7. ASSUME NEW i \in 1..Len(q) + 1
        PROVE  r[i] = IF i < k THEN q[i] ELSE IF i = k THEN e ELSE q[i - 1]
    <2>1. i \in 1..k + (Len(q) + 1 - k) /\ i \in Nat
      BY <1>1
    <2>2. CASE i <= k
      <3>1. r[i] = c[i] /\ (i # k => i \in 1..k - 1 /\ i < k) /\ ~(k < k)
        BY <1>1, <1>6, <2>1, <2>2
      <3> QED  BY <1>5, <3>1
    <2>3. CASE ~(i <= k)
      <3>1. ~(i < k) /\ i # k /\ i - k \in 1..Len(q) + 1 - k /\ k + (i - k) - 1 = i - 1
        BY <1>1, <2>1, <2>3
      <3>2. r[i] = b[i - k]
        BY <1>6, <2>1, <2>3
      <3> QED  BY <1>3, <3>1, <3>2
    <2> QED  BY <2>2, <2>3
  <1>8. Len(r) = Len(q) + 1
    BY <1>1, <1>6
  <1> QED  BY <1>6, <1>7, <1>8 DEF r

\* The sequence without place k.
LEMMA RemoveSeq ==
    ASSUME NEW S, NEW q \in Seq(S), NEW k \in 1..Len(q)
    PROVE  LET r == RemoveAt(q, k)
           IN  /\ r \in Seq(S) /\ Len(r) = Len(q) - 1
               /\ \A i \in 1..Len(q) - 1 : r[i] = IF i < k THEN q[i] ELSE q[i + 1]
  <1> DEFINE a == SubSeq(q, 1, k - 1)
             b == SubSeq(q, k + 1, Len(q))
             r == RemoveAt(q, k)
  <1>1. Len(q) \in Nat /\ k \in Nat /\ 1 <= k /\ k <= Len(q)
    OBVIOUS
  <1>2. /\ a \in Seq(S) /\ Len(a) = k - 1 /\ \A i \in 1..k - 1 : a[i] = q[i]
    <2>1. \A i \in 1..k - 1 : q[i] \in S
      BY <1>1
    <2>2. /\ a \in Seq(S) /\ Len(a) = IF 1 <= k - 1 THEN k - 1 - 1 + 1 ELSE 0
          /\ \A i \in 1..k - 1 - 1 + 1 : a[i] = q[1 + i - 1]
      BY <1>1, <2>1, SubSeqProperties
    <2> HIDE DEF a
    <2> QED  BY <1>1, <2>2
  <1>3. /\ b \in Seq(S) /\ Len(b) = Len(q) - k
        /\ \A i \in 1..Len(q) - k : b[i] = q[k + i]
    <2>1. \A i \in k + 1..Len(q) : q[i] \in S
      BY <1>1
    <2>2. /\ b \in Seq(S) /\ Len(b) = IF k + 1 <= Len(q) THEN Len(q) - (k + 1) + 1 ELSE 0
          /\ \A i \in 1..Len(q) - (k + 1) + 1 : b[i] = q[k + 1 + i - 1]
      BY <1>1, <2>1, SubSeqProperties
    <2> HIDE DEF b
    <2> QED  BY <1>1, <2>2
  <1>4. r = a \o b
    BY DEF RemoveAt
  <1> HIDE DEF a, b, r
  <1>5. /\ r \in Seq(S) /\ Len(r) = k - 1 + (Len(q) - k)
        /\ \A i \in 1..k - 1 + (Len(q) - k) :
               r[i] = IF i <= k - 1 THEN a[i] ELSE b[i - (k - 1)]
    <2>1. /\ r \in Seq(S) /\ Len(r) = Len(a) + Len(b)
          /\ \A i \in 1..Len(a) + Len(b) :
                 r[i] = IF i <= Len(a) THEN a[i] ELSE b[i - Len(a)]
      BY <1>2, <1>3, <1>4, ConcatProperties, Zenon
    <2> QED  BY <1>2, <1>3, <2>1
  <1>6. ASSUME NEW i \in 1..Len(q) - 1 PROVE r[i] = IF i < k THEN q[i] ELSE q[i + 1]
    <2>1. i \in 1..k - 1 + (Len(q) - k) /\ i \in Nat
      BY <1>1
    <2>2. CASE i < k
      <3>1. i <= k - 1 /\ i \in 1..k - 1
        BY <1>1, <2>2
      <3> QED  BY <1>2, <1>5, <2>1, <2>2, <3>1
    <2>3. CASE ~(i < k)
      <3>1. ~(i <= k - 1) /\ i - (k - 1) \in 1..Len(q) - k /\ k + (i - (k - 1)) = i + 1
        BY <1>1, <2>3
      <3> QED  BY <1>3, <1>5, <2>1, <2>3, <3>1
    <2> QED  BY <2>2, <2>3
  <1>7. Len(r) = Len(q) - 1
    BY <1>1, <1>5
  <1> QED  BY <1>5, <1>6, <1>7 DEF r

-----------------------------------------------------------------------------
(* The window of the newest events.                                        *)

\* It holds at most History events, all of them if there are no more, and
\* of one more all but the oldest.
LEMMA NewestSet ==
    ASSUME NEW S \in SUBSET Nat, IsFiniteSet(S)
    PROVE  /\ Newest(S) \subseteq S
           /\ Cardinality(Newest(S)) <= History
           /\ Cardinality(S) <= History => Newest(S) = S
           /\ \A m \in S : (\A x \in S : m <= x) /\ Cardinality(S) = History + 1
                  => Newest(S) = S \ {m}
  <1> DEFINE After(e) == {x \in S : x > e}
  <1>1. History \in Nat \ {0} /\ Cardinality(S) \in Nat
    BY HistoryAssumption, FS_CardinalityType
  <1>2. ASSUME NEW e \in S
        PROVE  /\ IsFiniteSet(After(e)) /\ Cardinality(After(e)) \in Nat
               /\ Cardinality(After(e)) <= Cardinality(S) - 1
    <2>1. IsFiniteSet(S \ {e}) /\ Cardinality(S \ {e}) = Cardinality(S) - 1
      BY FS_RemoveElement
    <2>2. After(e) \in SUBSET (S \ {e})
      OBVIOUS
    <2> HIDE DEF After
    <2>3. IsFiniteSet(After(e)) /\ Cardinality(After(e)) <= Cardinality(S \ {e})
      BY <2>1, <2>2, FS_Subset
    <2>4. Cardinality(After(e)) \in Nat
      BY <2>3, FS_CardinalityType
    <2> QED  BY <2>1, <2>3, <2>4
  <1>3. Newest(S) = {e \in S : Cardinality(After(e)) < History}
    BY DEF Newest
  <1>4. Newest(S) \subseteq S
    BY <1>3
  <1>5. Cardinality(S) <= History => Newest(S) = S
    <2> SUFFICES ASSUME Cardinality(S) <= History, NEW e \in S
                 PROVE  Cardinality(After(e)) < History
      BY <1>3
    <2> HIDE DEF After
    <2>1. Cardinality(After(e)) \in Nat /\ Cardinality(After(e)) <= Cardinality(S) - 1
      BY <1>2
    <2> QED  BY <1>1, <2>1
  <1>6. Cardinality(Newest(S)) <= History
    <2> DEFINE N == Newest(S)
    <2>1. IsFiniteSet(N) /\ Cardinality(N) \in Nat
      BY <1>4, FS_Subset, FS_CardinalityType
    <2>2. CASE N = {}
      BY <1>1, <2>2, FS_EmptySet
    <2>3. CASE N # {}
      <3>1. PICK m \in N : \A x \in N : m <= x
        <4>1. N \in SUBSET Nat
          BY <1>4
        <4> HIDE DEF N
        <4> QED  BY <2>3, <4>1, LeastNumber
      <3>2. m \in S /\ Cardinality(After(m)) < History
        BY <1>3, <3>1
      <3>3. N \ {m} \in SUBSET After(m)
        <4> SUFFICES ASSUME NEW x \in N, x # m PROVE x \in S /\ x > m
          OBVIOUS
        <4>1. x \in S /\ m <= x /\ x \in Nat /\ m \in Nat
          BY <1>4, <3>1, <3>2
        <4> QED  BY <4>1
      <3>4. Cardinality(N \ {m}) <= Cardinality(After(m))
        <4> HIDE DEF N, After
        <4> QED  BY <1>2, <3>2, <3>3, FS_Subset
      <3>5. Cardinality(N \ {m}) = Cardinality(N) - 1
        <4> HIDE DEF N
        <4> QED  BY <2>1, <3>1, FS_RemoveElement
      <3>6. Cardinality(After(m)) \in Nat
        BY <1>2, <3>2
      <3> HIDE DEF N, After
      <3>7. Cardinality(N) <= History
        BY <1>1, <2>1, <3>2, <3>4, <3>5, <3>6
      <3> QED  BY <3>7 DEF N
    <2> QED  BY <2>2, <2>3
  <1>7. ASSUME NEW m \in S, \A x \in S : m <= x, Cardinality(S) = History + 1
        PROVE  Newest(S) = S \ {m}
    <2>1. Cardinality(After(m)) = History
      <3>1. After(m) = S \ {m}
        <4>1. \A x \in S : x > m <=> x # m
          <5> TAKE x \in S
          <5>1. m <= x /\ m \in Nat /\ x \in Nat
            BY <1>7
          <5> QED  BY <5>1
        <4> QED  BY <4>1
      <3>2. Cardinality(S \ {m}) = Cardinality(S) - 1
        BY FS_RemoveElement
      <3> QED  BY <1>1, <1>7, <3>1, <3>2
    <2>2. ASSUME NEW e \in S, e # m PROVE Cardinality(After(e)) < History
      <3>1. IsFiniteSet(S \ {m}) /\ Cardinality(S \ {m}) = History
        <4>1. IsFiniteSet(S \ {m}) /\ Cardinality(S \ {m}) = Cardinality(S) - 1
          BY FS_RemoveElement
        <4> QED  BY <1>1, <1>7, <4>1
      <3> DEFINE T == S \ {m}
      <3>2. /\ IsFiniteSet(T \ {e}) /\ Cardinality(T \ {e}) = Cardinality(T) - 1
        <4>1. e \in T
          BY <2>2
        <4> HIDE DEF T
        <4>2. IsFiniteSet(T)
          BY <3>1 DEF T
        <4> QED  BY <4>1, <4>2, FS_RemoveElement
      <3>3. After(e) \in SUBSET (T \ {e})
        <4> SUFFICES ASSUME NEW x \in S, x > e PROVE x # m /\ x # e
          OBVIOUS
        <4>1. m <= e /\ m \in Nat /\ e \in Nat /\ x \in Nat
          BY <1>7
        <4> QED  BY <4>1
      <3>4. Cardinality(After(e)) <= Cardinality(T \ {e})
        <4> HIDE DEF T, After
        <4> QED  BY <3>2, <3>3, FS_Subset
      <3>5. Cardinality(After(e)) \in Nat
        BY <1>2
      <3>6. Cardinality(T \ {e}) = History - 1
        BY <3>1, <3>2
      <3> HIDE DEF T, After
      <3> QED  BY <1>1, <3>4, <3>5, <3>6
    <2> HIDE DEF After
    <2>3. ~(Cardinality(After(m)) < History)
      BY <1>1, <2>1
    <2> QED  BY <1>3, <2>2, <2>3
  <1> QED  BY <1>4, <1>5, <1>6, <1>7

\* The oldest event of a sequence that is too long is somewhere in it.
LEMMA OldestPlace ==
    ASSUME NEW S \in SUBSET Nat, NEW q \in Seq(S), q # <<>>
    PROVE  \E k \in DOMAIN q : \A j \in DOMAIN q : q[k] <= q[j]
  <1>1. DOMAIN q = 1..Len(q) /\ Len(q) \in Nat /\ Len(q) # 0 /\ \A i \in DOMAIN q : q[i] \in S
    OBVIOUS
  <1>2. ToSet(q) \in SUBSET Nat /\ ToSet(q) # {}
    <2>1. 1 \in DOMAIN q
      BY <1>1
    <2> QED  BY <1>1, <2>1 DEF ToSet
  <1>3. PICK n \in ToSet(q) : \A m \in ToSet(q) : n <= m
    BY <1>2, LeastNumber
  <1> QED  BY <1>3 DEF ToSet

\* Whatever the order of what is shown, the window is kept.
LEMMA TrimmedFits ==
    ASSUME NEW S \in SUBSET Nat, NEW q \in Seq(S), Len(q) <= History + 1
    PROVE  Trimmed(q) \in Seq(S) /\ Len(Trimmed(q)) <= History
  <1>1. History \in Nat \ {0} /\ Len(q) \in Nat
    BY HistoryAssumption
  <1>2. CASE Len(q) <= History
    BY <1>2 DEF Trimmed
  <1>3. CASE ~(Len(q) <= History)
    <2> DEFINE k == CHOOSE i \in DOMAIN q : \A j \in DOMAIN q : q[i] <= q[j]
    <2>1. q # <<>>
      BY <1>1, <1>3
    <2>2. k \in DOMAIN q
      BY <2>1, OldestPlace
    <2>3. Trimmed(q) = RemoveAt(q, k)
      BY <1>3 DEF Trimmed
    <2> HIDE DEF k
    <2>4. k \in 1..Len(q)
      BY <2>2
    <2>5. RemoveAt(q, k) \in Seq(S) /\ Len(RemoveAt(q, k)) = Len(q) - 1
      BY <2>4, RemoveSeq
    <2> QED  BY <1>1, <2>3, <2>5
  <1> QED  BY <1>2, <1>3

\* Where a new event goes.
LEMMA InsertionType ==
    ASSUME NEW q \in Seq(Events), NEW e
    PROVE  InsertionPoint(q, e) \in 0..Len(q)
  <1> DEFINE P == {i \in DOMAIN q : ~Earlier(e, q[i])}
             D == 1..Len(q)
  <1>1. IsFiniteSet(D) /\ Cardinality(D) = Len(q) /\ P \in SUBSET D /\ Len(q) \in Nat
    BY FS_Interval
  <1> HIDE DEF P, D
  <1>2. IsFiniteSet(P) /\ Cardinality(P) <= Cardinality(D)
    BY <1>1, FS_Subset
  <1>3. Cardinality(P) \in Nat
    BY <1>2, FS_CardinalityType
  <1>4. Cardinality(P) \in 0..Len(q)
    BY <1>1, <1>2, <1>3
  <1> QED  BY <1>4 DEF InsertionPoint, P

\* A panel stays within its window and its events.
LEMMA InsertedFits ==
    ASSUME NEW S \in SUBSET Events, NEW q \in Seq(S), Len(q) <= History, NEW e \in S
    PROVE  InsertSorted(q, e) \in Seq(S) /\ Len(InsertSorted(q, e)) <= History
  <1> DEFINE k == InsertionPoint(q, e)
             r == InsertAt(q, k + 1, e)
  <1>1. S \in SUBSET Nat /\ History \in Nat /\ Len(q) \in Nat
    <2>1. S \subseteq Nat
      BY EventsCount
    <2> QED  BY <2>1, HistoryAssumption
  <1>2. k \in 0..Len(q)
    <2>1. q \in Seq(Events)
      OBVIOUS
    <2> QED  BY <2>1, InsertionType
  <1> HIDE DEF k
  <1>3. r \in Seq(S) /\ Len(r) = Len(q) + 1
    <2>1. k + 1 \in 1..Len(q) + 1
      BY <1>1, <1>2
    <2> QED  BY <2>1, InsertSeq
  <1>4. InsertSorted(q, e) = Trimmed(r)
    BY DEF InsertSorted, k
  <1> HIDE DEF r
  <1>5. Len(r) <= History + 1
    BY <1>1, <1>3
  <1> QED  BY <1>1, <1>3, <1>4, <1>5, TrimmedFits

\* The binary search: the events before the place are not later, the ones
\* after it are.
LEMMA InsertionPlace ==
    ASSUME NEW q \in Seq(Events), Increasing(q), NEW e \in Events
    PROVE  \A i \in DOMAIN q : i <= InsertionPoint(q, e) <=> ~Earlier(e, q[i])
  <1> DEFINE P == {i \in DOMAIN q : ~Earlier(e, q[i])}
             D == 1..Len(q)
  <1>1. DOMAIN q = D /\ Len(q) \in Nat /\ InsertionPoint(q, e) = Cardinality(P)
    BY DEF InsertionPoint
  <1>2. ASSUME NEW i \in D, NEW j \in P, i < j PROVE i \in P
    <2>1. q[i] \in Events /\ q[j] \in Events /\ Earlier(q[i], q[j]) /\ ~Earlier(e, q[j])
      BY <1>1, <1>2 DEF Increasing
    <2>2. ~Earlier(e, q[i])
      BY <2>1, EarlierOrder
    <2> QED  BY <1>1, <2>2
  <1>3. IsFiniteSet(P) /\ P \in SUBSET Nat /\ P \in SUBSET D
    <2>1. IsFiniteSet(D) /\ P \in SUBSET D /\ D \in SUBSET Nat
      BY <1>1, FS_Interval
    <2> HIDE DEF P, D
    <2> QED  BY <2>1, FS_Subset
  <1>4. P = 1..Cardinality(P)
    <2>1. CASE P = {}
      <3>1. Cardinality(P) = 0
        BY <2>1, FS_EmptySet
      <3> QED  BY <2>1, <3>1, SMTT(30)
    <2>2. CASE P # {}
      <3>1. PICK m \in P : \A x \in P : x <= m
        <4> HIDE DEF P
        <4> QED  BY <1>3, <2>2, GreatestNumber
      <3>2. m \in 1..Len(q)
        BY <1>3, <3>1
      <3>3. P \subseteq 1..m
        <4> SUFFICES ASSUME NEW x \in P PROVE x \in 1..m
          OBVIOUS
        <4>1. x \in 1..Len(q) /\ x <= m
          BY <1>3, <3>1
        <4> QED  BY <3>2, <4>1
      <3>4. 1..m \subseteq P
        <4> SUFFICES ASSUME NEW x \in 1..m PROVE x \in P
          OBVIOUS
        <4>1. x \in D /\ (x = m \/ x < m)
          BY <1>1, <3>2
        <4> HIDE DEF P, D
        <4> QED  BY <1>2, <3>1, <4>1
      <3>5. Cardinality(1..m) = m
        BY <3>2, FS_Interval
      <3> HIDE DEF P
      <3> QED  BY <3>3, <3>4, <3>5
    <2> QED  BY <2>1, <2>2
  <1>5. Cardinality(P) \in Nat
    BY <1>3, FS_CardinalityType
  <1>6. ASSUME NEW i \in D PROVE i <= Cardinality(P) <=> i \in P
    <2>1. i \in Nat /\ 1 <= i
      BY <1>1
    <2> HIDE DEF P, D
    <2>2. i <= Cardinality(P) <=> i \in 1..Cardinality(P)
      BY <1>5, <2>1
    <2> QED  BY <1>4, <2>2
  <1> QED  BY <1>1, <1>6

\* A new event in its place.
LEMMA InsertedLists ==
    ASSUME NEW S \in SUBSET Events, NEW q, Lists(q, S), NEW e \in Events \ S
    PROVE  Lists(InsertAt(q, InsertionPoint(q, e) + 1, e), S \cup {e})
  <1> DEFINE k == InsertionPoint(q, e) + 1
             r == InsertAt(q, k, e)
  <1>1. /\ q \in Seq(Events) /\ Len(q) \in Nat /\ DOMAIN q = 1..Len(q) /\ Increasing(q)
        /\ S = {q[i] : i \in 1..Len(q)}
    BY DEF Lists, ToSet
  <1>2. k \in 1..Len(q) + 1
    <2>1. InsertionPoint(q, e) \in 0..Len(q)
      BY <1>1, InsertionType
    <2> QED  BY <1>1, <2>1
  <1>3. \A i \in 1..Len(q) : i < k <=> ~Earlier(e, q[i])
    <2>1. \A i \in DOMAIN q : i <= InsertionPoint(q, e) <=> ~Earlier(e, q[i])
      BY <1>1, InsertionPlace
    <2>2. InsertionPoint(q, e) \in Int
      BY <1>1, InsertionType
    <2> QED  BY <1>1, <2>1, <2>2
  <1> HIDE DEF k
  <1>4. /\ r \in Seq(Events) /\ Len(r) = Len(q) + 1
        /\ \A i \in 1..Len(q) + 1 :
               r[i] = IF i < k THEN q[i] ELSE IF i = k THEN e ELSE q[i - 1]
    <2>1. q \in Seq(Events) /\ e \in Events /\ k \in 1..Len(q) + 1
      BY <1>1, <1>2
    <2> QED  BY <2>1, InsertSeq
  <1> HIDE DEF r
  <1>5. DOMAIN r = 1..Len(q) + 1
    BY <1>4
  <1>6. \A i \in 1..Len(q) : q[i] \in Events /\ q[i] # e
    BY <1>1
  <1>7. ToSet(r) = S \cup {e}
    <2>1. ASSUME NEW i \in 1..Len(q) + 1 PROVE r[i] \in S \cup {e}
      <3>1. \/ i < k /\ i \in 1..Len(q)
            \/ i = k
            \/ ~(i < k) /\ i # k /\ i - 1 \in 1..Len(q)
        BY <1>1, <1>2
      <3> QED  BY <1>1, <1>4, <3>1
    <2>2. ASSUME NEW i \in 1..Len(q) PROVE q[i] \in ToSet(r)
      <3>1. CASE i < k
        <4>1. i \in 1..Len(q) + 1 /\ r[i] = q[i]
          BY <1>1, <1>4, <3>1
        <4> QED  BY <1>5, <4>1 DEF ToSet
      <3>2. CASE ~(i < k)
        <4>1. i + 1 \in 1..Len(q) + 1 /\ ~(i + 1 < k) /\ i + 1 # k /\ i + 1 - 1 = i
          BY <1>1, <1>2, <3>2
        <4>2. r[i + 1] = q[i]
          BY <1>4, <4>1
        <4> QED  BY <1>5, <4>1, <4>2 DEF ToSet
      <3> QED  BY <3>1, <3>2
    <2>3. e \in ToSet(r)
      <3>1. r[k] = e /\ k \in DOMAIN r
        BY <1>2, <1>4, <1>5
      <3> QED  BY <3>1 DEF ToSet
    <2>4. ToSet(r) \subseteq S \cup {e}
      BY <1>5, <2>1 DEF ToSet
    <2> QED  BY <1>1, <2>2, <2>3, <2>4
  <1>8. Increasing(r)
    <2> SUFFICES ASSUME NEW i \in 1..Len(q) + 1, NEW j \in 1..Len(q) + 1, i < j
                 PROVE  Earlier(r[i], r[j])
      BY <1>5 DEF Increasing
    <2>1. CASE j < k
      <3>1. i < k /\ i \in 1..Len(q) /\ j \in 1..Len(q)
        BY <1>1, <1>2, <2>1
      <3> QED  BY <1>1, <1>4, <2>1, <3>1 DEF Increasing
    <2>2. CASE j = k
      <3>1. i < k /\ i \in 1..Len(q) /\ ~(j < k)
        BY <1>1, <1>2, <2>2
      <3>2. r[i] = q[i] /\ r[j] = e
        BY <1>4, <2>2, <3>1
      <3>3. ~Earlier(e, q[i]) /\ q[i] \in Events /\ q[i] # e
        BY <1>3, <1>6, <3>1
      <3> QED  BY <3>2, <3>3, EarlierOrder
    <2>3. CASE j > k
      <3>1. ~(j < k) /\ j # k /\ j - 1 \in 1..Len(q)
        BY <1>1, <1>2, <2>3
      <3>2. r[j] = q[j - 1]
        BY <1>4, <3>1
      <3>3. CASE i < k
        <4>1. i \in 1..Len(q) /\ i < j - 1
          BY <1>1, <1>2, <2>3, <3>3
        <4>2. r[i] = q[i]
          BY <1>4, <3>3
        <4> QED  BY <1>1, <3>1, <3>2, <4>1, <4>2 DEF Increasing
      <3>4. CASE i = k
        <4>1. r[i] = e
          BY <1>2, <1>4, <3>4
        <4>2. ~(j - 1 < k)
          BY <1>1, <1>2, <2>3
        <4>3. Earlier(e, q[j - 1])
          BY <1>3, <3>1, <4>2
        <4> QED  BY <3>2, <4>1, <4>3
      <3>5. CASE i > k
        <4>1. ~(i < k) /\ i # k /\ i - 1 \in 1..Len(q) /\ i - 1 < j - 1
          BY <1>1, <1>2, <2>3, <3>5
        <4>2. r[i] = q[i - 1]
          BY <1>4, <4>1
        <4> QED  BY <1>1, <3>1, <3>2, <4>1, <4>2 DEF Increasing
      <3> QED  BY <1>1, <1>2, <3>3, <3>4, <3>5
    <2> QED  BY <1>1, <1>2, <2>1, <2>2, <2>3
  <1> QED  BY <1>4, <1>7, <1>8 DEF Lists, k, r

(* A set of events has one display order, so that what a flush sends and   *)
(* what a panel that is loaded shows are determined by their events.       *)
THEOREM OneOrdering ==
    ASSUME NEW S \in SUBSET Events
    PROVE  \E q : Ordered(S) = {q}
  <1>1. \E q : Lists(q, S)
    <2> DEFINE Q == {T \in SUBSET S : \E q : Lists(q, T)}
    <2>1. {} \in Q
      <3>1. <<>> \in Seq(Events) /\ Increasing(<<>>) /\ ToSet(<<>>) = {}
        BY EmptyQueue DEF Increasing
      <3>2. Lists(<<>>, {})
        BY <3>1 DEF Lists
      <3> QED  BY <3>2
    <2>2. ASSUME NEW T \in SUBSET S, NEW e \in S, T \in Q, e \notin T PROVE T \cup {e} \in Q
      <3>1. PICK q : Lists(q, T)
        BY <2>2
      <3>2. Lists(InsertAt(q, InsertionPoint(q, e) + 1, e), T \cup {e})
        <4>1. T \in SUBSET Events /\ e \in Events \ T
          BY <2>2
        <4> QED  BY <3>1, <4>1, InsertedLists
      <3> DEFINE r == InsertAt(q, InsertionPoint(q, e) + 1, e)
      <3>3. Lists(r, T \cup {e})
        BY <3>2
      <3> HIDE DEF r
      <3> QED  BY <3>3
    <2> HIDE DEF Q
    <2>3. SUBSET S \subseteq Q
      BY <2>1, <2>2, EventsCount, SubsetInduction
    <2> QED  BY <2>3 DEF Q
  <1>2. ASSUME NEW p, NEW q, Lists(p, S), Lists(q, S) PROVE p = q
    <2> DEFINE n == Cardinality(S)
               D == {i \in 1..n : p[i] # q[i]}
    <2>1. n \in Nat /\ Len(p) = n /\ Len(q) = n /\ Distinct(p) /\ Distinct(q)
      BY <1>2, EventsCount, ListsOrdered
    <2>2. /\ p \in Seq(Events) /\ q \in Seq(Events) /\ DOMAIN p = 1..n /\ DOMAIN q = 1..n
          /\ Increasing(p) /\ Increasing(q)
      BY <1>2, <2>1 DEF Lists
    <2>3. ASSUME D # {} PROVE FALSE
      <3>1. PICK i \in D : \A j \in D : i <= j
        <4>1. D \in SUBSET Nat
          BY <2>1
        <4> HIDE DEF D
        <4> QED  BY <2>3, <4>1, LeastNumber
      <3>2. i \in 1..n /\ p[i] # q[i] /\ \A j \in 1..n : j < i => p[j] = q[j]
        BY <2>1, <3>1
      <3>3. ASSUME NEW a \in Seq(Events), NEW b \in Seq(Events), DOMAIN a = 1..n,
                   DOMAIN b = 1..n, Distinct(a), Increasing(b), ToSet(a) = ToSet(b),
                   a[i] # b[i], \A j \in 1..n : j < i => a[j] = b[j]
            PROVE  Earlier(b[i], a[i])
        <4>1. PICK j \in 1..n : b[j] = a[i]
          BY <3>2, <3>3 DEF ToSet
        <4>2. ~(j < i) /\ j # i
          BY <3>2, <3>3, <4>1 DEF Distinct
        <4>3. i < j
          BY <2>1, <3>2, <4>2
        <4> QED  BY <3>2, <3>3, <4>1, <4>3 DEF Increasing
      <3>4. ToSet(p) = ToSet(q)
        BY <1>2 DEF Lists
      <3>5. Earlier(q[i], p[i]) /\ Earlier(p[i], q[i])
        BY <2>1, <2>2, <3>2, <3>3, <3>4
      <3>6. p[i] \in Events /\ q[i] \in Events
        BY <2>1, <2>2, <3>2
      <3> QED  BY <3>5, <3>6, EarlierOrder
    <2> QED  BY <2>1, <2>2, <2>3
  <1>3. PICK q : Lists(q, S)
    BY <1>1
  <1>4. q \in Ordered(S)
    BY <1>3, ListsOrdered
  <1>5. \A p \in Ordered(S) : p = q
    BY <1>2, <1>3, OrderedLists
  <1> QED  BY <1>4, <1>5

\* Trimming a list leaves the list of the newest.
LEMMA TrimmedLists ==
    ASSUME NEW S \in SUBSET Events, NEW q, Lists(q, S), Len(q) <= History + 1
    PROVE  Lists(Trimmed(q), Newest(S))
  <1>1. /\ q \in Seq(Events) /\ Len(q) \in Nat /\ DOMAIN q = 1..Len(q) /\ Increasing(q)
        /\ S = {q[i] : i \in 1..Len(q)} /\ History \in Nat \ {0}
    BY HistoryAssumption DEF Lists, ToSet
  <1>2. IsFiniteSet(S) /\ S \in SUBSET Nat
    <2>1. IsFiniteSet(S) /\ S \subseteq Nat
      BY EventsCount
    <2> QED  BY <2>1
  <1>3. Cardinality(S) = Len(q) /\ Distinct(q)
    BY ListsOrdered
  <1>4. CASE Len(q) <= History
    <2>1. Newest(S) = S
      BY <1>2, <1>3, <1>4, NewestSet
    <2> QED  BY <1>4, <2>1 DEF Trimmed
  <1>5. CASE ~(Len(q) <= History)
    <2> DEFINE k == CHOOSE i \in DOMAIN q : \A j \in DOMAIN q : q[i] <= q[j]
               r == RemoveAt(q, k)
    <2>1. Len(q) = History + 1 /\ q # <<>>
      <3>1. Len(q) = History + 1
        BY <1>1, <1>5
      <3>2. Len(q) # 0
        BY <1>1, <3>1
      <3> QED  BY <3>1, <3>2
    <2>2. k \in DOMAIN q /\ \A j \in DOMAIN q : q[k] <= q[j]
      <3>1. q \in Seq(S)
        BY <1>1
      <3>2. \E i \in DOMAIN q : \A j \in DOMAIN q : q[i] <= q[j]
        BY <1>2, <2>1, <3>1, OldestPlace
      <3> QED  BY <3>2
    <2>3. Trimmed(q) = r
      BY <1>5 DEF Trimmed
    <2> HIDE DEF k
    <2>4. k \in 1..Len(q) /\ q[k] \in S /\ \A x \in S : q[k] <= x
      BY <1>1, <2>2
    <2>5. Newest(S) = S \ {q[k]}
      BY <1>2, <1>3, <2>1, <2>4, NewestSet
    <2>6. /\ r \in Seq(Events) /\ Len(r) = Len(q) - 1
          /\ \A i \in 1..Len(q) - 1 : r[i] = IF i < k THEN q[i] ELSE q[i + 1]
      BY <1>1, <2>4, RemoveSeq
    <2> HIDE DEF r
    <2>7. DOMAIN r = 1..Len(q) - 1
      BY <1>1, <2>6
    <2>8. Increasing(r)
      <3> SUFFICES ASSUME NEW i \in 1..Len(q) - 1, NEW j \in 1..Len(q) - 1, i < j
                   PROVE  Earlier(r[i], r[j])
        BY <2>7 DEF Increasing
      <3>1. PICK a \in 1..Len(q) : r[i] = q[a] /\ a = IF i < k THEN i ELSE i + 1
        BY <1>1, <2>6
      <3>2. PICK b \in 1..Len(q) : r[j] = q[b] /\ b = IF j < k THEN j ELSE j + 1
        BY <1>1, <2>6
      <3>3. a < b
        BY <1>1, <2>4, <3>1, <3>2
      <3> QED  BY <1>1, <3>1, <3>2, <3>3 DEF Increasing
    <2>9. ToSet(r) = S \ {q[k]}
      <3>1. ASSUME NEW i \in 1..Len(q) - 1 PROVE r[i] \in S \ {q[k]}
        <4>1. PICK a \in 1..Len(q) : r[i] = q[a] /\ a = IF i < k THEN i ELSE i + 1
          BY <1>1, <2>6
        <4>2. a # k
          BY <2>4, <4>1
        <4> QED  BY <1>1, <1>3, <2>4, <4>1, <4>2 DEF Distinct
      <3>2. ASSUME NEW i \in 1..Len(q), i # k PROVE q[i] \in ToSet(r)
        <4>1. CASE i < k
          <5>1. i \in 1..Len(q) - 1 /\ r[i] = q[i]
            BY <2>4, <2>6, <4>1
          <5> QED  BY <2>7, <5>1 DEF ToSet
        <4>2. CASE i > k
          <5>1. i - 1 \in 1..Len(q) - 1 /\ ~(i - 1 < k) /\ i - 1 + 1 = i
            BY <2>4, <4>2
          <5>2. r[i - 1] = q[i]
            BY <2>6, <5>1
          <5> QED  BY <2>7, <5>1, <5>2 DEF ToSet
        <4> QED  BY <2>4, <3>2, <4>1, <4>2
      <3>3. S \ {q[k]} \subseteq ToSet(r)
        BY <1>1, <3>2
      <3>4. ToSet(r) \subseteq S \ {q[k]}
        BY <2>7, <3>1 DEF ToSet
      <3> QED  BY <3>3, <3>4
    <2> QED  BY <2>3, <2>5, <2>6, <2>8, <2>9 DEF Lists
  <1> QED  BY <1>4, <1>5

\* What a panel does with an event it has not got.
LEMMA PanelLists ==
    ASSUME NEW S \in SUBSET Events, Cardinality(S) <= History,
           NEW q, Lists(q, S), NEW e \in Events \ S
    PROVE  Lists(InsertSorted(q, e), Newest(S \cup {e}))
  <1> DEFINE k == InsertionPoint(q, e) + 1
             r == InsertAt(q, k, e)
  <1>1. Lists(r, S \cup {e})
    BY InsertedLists
  <1>2. Len(r) <= History + 1
    <2> HIDE DEF r
    <2>1. Len(r) = Cardinality(S \cup {e})
      BY <1>1, ListsOrdered
    <2>2. IsFiniteSet(S) /\ Cardinality(S) \in Nat
      BY EventsCount
    <2>3. Cardinality(S \cup {e}) = Cardinality(S) + 1
      BY <2>2, FS_AddElement
    <2> QED  BY <2>1, <2>2, <2>3, HistoryAssumption
  <1>3. InsertSorted(q, e) = Trimmed(r)
    BY DEF InsertSorted
  <1> HIDE DEF r
  <1> QED  BY <1>1, <1>2, <1>3, TrimmedLists

-----------------------------------------------------------------------------
(* The panel.                                                              *)

\* What was inserted is published in its turn.
StoreInv ==
    /\ hasPanel \in BOOLEAN /\ paused \in BOOLEAN /\ exact \in BOOLEAN
    /\ stored \in 0..MaxEvents /\ published <= stored
    /\ load \in [Loads -> [pc: {"idle", "asked", "answered"}, upto: 0..stored]]
    /\ fresh \subseteq Loads
    /\ list \in Seq(1..stored) /\ Len(list) <= History

\* What the panel should show is past: no socket will deliver it again.
ExpectedInv ==
    /\ expected \subseteq 1..published
    /\ Cardinality(expected) <= History
    /\ \A c \in open : Line(c) \cap expected = {}

\* It is what the panel shows.
ExactInv == exact => Lists(list, expected)

\* All that an answer shows which is as good as the buffer is past, too.
FreshInv ==
    \A l \in fresh :
        /\ load[l].pc = "answered" /\ load[l].upto <= published
        /\ \A c \in open : Line(c) \cap 1..load[l].upto = {}

ViewInv == Inv /\ StoreInv /\ ExpectedInv /\ ExactInv /\ FreshInv

(* A step of the stream puts only the event it publishes on the line of an *)
(* open socket.                                                            *)
LineKept ==
    /\ published' \in {published, published + 1}
    /\ \A c \in open' : \A e \in Line(c)' : e = published + 1 \/ (c \in open /\ e \in Line(c))

LEMMA TakenKept ==
    ASSUME Inv, NEW c \in Slots, Get(c) \/ Collect(c)
    PROVE  Line(c)' \subseteq Line(c)
  <1> DEFINE e == Head(queue[c])
  <1>1. TypeInv
    BY DEF Inv
  <1>2. queue[c] \in Seq(Events) /\ queue[c] # <<>> /\ buffer[c] \in Seq(Events)
    BY <1>1 DEF Get, Collect, TypeInv
  <1>3. e \in Events /\ ToSet(queue[c]) = ToSet(Tail(queue[c])) \cup {e}
    BY <1>2, TailSeq
  <1>4. /\ ToSet(<<e>>) = {e}
        /\ ToSet(Append(buffer[c], e)) = ToSet(buffer[c]) \cup {e}
    BY <1>2, <1>3, OneSeq, AppendSeq
  <1>5. /\ queue'[c] = Tail(queue[c])
        /\ \/ out'[c] = <<e>> /\ buffer'[c] = buffer[c]
           \/ out'[c] = out[c] /\ buffer'[c] = <<e>>
           \/ out'[c] = out[c] /\ buffer'[c] = Append(buffer[c], e)
           \/ out'[c] \in Flushed(Append(buffer[c], e)) /\ buffer'[c] = <<>>
    BY <1>1 DEF Get, Collect, Collected, Flush, TypeInv
  <1>6. out'[c] \in Flushed(Append(buffer[c], e)) =>
            ToSet(out'[c]) = ToSet(Append(buffer[c], e))
    <2>1. Append(buffer[c], e) \in Seq(Events)
      BY <1>2, <1>3, AppendSeq
    <2> QED  BY <2>1, FlushSeq
  <1>7. ToSet(<<>>) = {}
    BY EmptyQueue
  <1> HIDE DEF e
  <1> QED  BY <1>3, <1>4, <1>5, <1>6, <1>7 DEF Line

LEMMA DroppedKept ==
    ASSUME Inv, NEW c \in Slots, Deadline(c) \/ End(c) \/ Send(c)
    PROVE  Line(c)' \subseteq Line(c)
  <1>1. /\ TypeInv /\ ToSet(<<>>) = {}
        /\ queue[c] \in Seq(Events) /\ buffer[c] \in Seq(Events) /\ out[c] \in Seq(Events)
    BY EmptyQueue DEF Inv, TypeInv
  <1>2. CASE Deadline(c)
    <2>1. PICK s \in Flushed(buffer[c]) : out' = [out EXCEPT ![c] = s]
      BY <1>2 DEF Deadline, Flush
    <2>2. ToSet(s) \subseteq ToSet(buffer[c])
      BY <1>1, FlushSeq
    <2>3. queue'[c] = <<>> /\ buffer'[c] = <<>> /\ out'[c] = s
      BY <1>1, <1>2, <2>1 DEF Deadline, Flush, Unsubscribe, TypeInv
    <2> QED  BY <1>1, <2>2, <2>3 DEF Line
  <1>3. CASE End(c)
    <2>1. queue'[c] = <<>> /\ buffer'[c] = <<>> /\ out'[c] = <<>>
      BY <1>1, <1>3 DEF End, Unsubscribe, TypeInv
    <2> QED  BY <1>1, <2>1 DEF Line
  <1>4. CASE Send(c)
    <2>1. queue' = queue /\ buffer' = buffer /\ out'[c] = Tail(out[c]) /\ out[c] # <<>>
      BY <1>1, <1>4 DEF Send, TypeInv
    <2>2. ToSet(Tail(out[c])) \subseteq ToSet(out[c])
      BY <1>1, <2>1, TailSeq
    <2> QED  BY <2>1, <2>2 DEF Line
  <1> QED  BY <1>2, <1>3, <1>4

LEMMA EndpointKept ==
    ASSUME Inv, NEW c \in Slots, EndpointStep(c)
    PROVE  /\ published' = published /\ open' = open
           /\ \A d \in Slots : Line(d)' \subseteq Line(d)
  <1>1. TypeInv
    BY DEF Inv
  <1>2. \/ Subscribe(c) \/ Sent(c) \/ Get(c) \/ Collect(c)
        \/ Deadline(c) \/ End(c) \/ Send(c)
    BY DEF EndpointStep, Exhausted, Disconnected
  <1>3. published' = published /\ open' = open
    BY <1>2 DEF Subscribe, Sent, Get, Collect, Deadline, End, Send, browser
  <1>4. Line(c)' \subseteq Line(c)
    <2>1. CASE Subscribe(c) \/ Sent(c)
      BY <2>1 DEF Subscribe, Sent, Line
    <2> QED  BY <1>2, <2>1, TakenKept, DroppedKept
  <1>5. ASSUME NEW d \in Slots \ {c}
        PROVE  queue'[d] = queue[d] /\ buffer'[d] = buffer[d] /\ out'[d] = out[d]
    <2>1. CASE Subscribe(c) \/ Sent(c)
      BY <2>1 DEF Subscribe, Sent
    <2>2. CASE Get(c) \/ Collect(c)
      BY <1>1, <2>2 DEF Get, Collect, Flush, TypeInv
    <2>3. CASE Deadline(c)
      BY <1>1, <2>3 DEF Deadline, Flush, Unsubscribe, TypeInv
    <2>4. CASE End(c) \/ Send(c)
      BY <1>1, <2>4 DEF End, Send, Unsubscribe, TypeInv
    <2> QED  BY <1>2, <2>1, <2>2, <2>3, <2>4
  <1>6. \A d \in Slots \ {c} : Line(d)' = Line(d)
    BY <1>5 DEF Line
  <1> QED  BY <1>3, <1>4, <1>6

LEMMA NextKept == Inv /\ [Next]_vars => LineKept
  <1> SUFFICES ASSUME Inv, [Next]_vars PROVE LineKept
    OBVIOUS
  <1>1. TypeInv /\ open \subseteq Slots /\ OneSocket
    BY DEF Inv, TypeInv
  <1>2. CASE Publish
    <2>1. published + 1 \in Events
      BY <1>1, <1>2, BoundAssumption DEF Publish, TypeInv, Events
    <2>2. published' = published + 1 /\ open' = open /\ buffer' = buffer /\ out' = out
      BY <1>2 DEF Publish, browser
    <2>3. ASSUME NEW c \in open PROVE Line(c)' \subseteq Line(c) \cup {published + 1}
      <3>1. /\ queue[c] \in Seq(Events) /\ Len(queue[c]) <= QueueSize
            /\ queue'[c] = IF subscribed[c] THEN Offer(queue[c], published + 1) ELSE queue[c]
        BY <1>1, <1>2, <2>2 DEF Publish, TypeInv, Inv, SlotInv, Shape
      <3>2. ToSet(Offer(queue[c], published + 1)) \subseteq ToSet(queue[c]) \cup {published + 1}
        BY <2>1, <3>1, OfferSeq
      <3>3. ToSet(queue'[c]) \subseteq ToSet(queue[c]) \cup {published + 1}
        BY <3>1, <3>2
      <3> QED  BY <2>2, <3>3 DEF Line
    <2> QED  BY <2>2, <2>3 DEF LineKept
  <1>3. ASSUME NEW c \in Slots, EndpointStep(c) PROVE LineKept
    <2>1. /\ published' = published /\ open' = open
          /\ \A d \in Slots : Line(d)' \subseteq Line(d)
      BY <1>3, EndpointKept
    <2> QED  BY <1>1, <2>1 DEF LineKept
  <1>4. ASSUME NEW c \in Slots, Replace(c) \/ Reconnect(c) PROVE LineKept
    <2>1. /\ open' = {c} /\ UNCHANGED <<published, queue, buffer, out>> /\ pc[c] = "free"
      BY <1>1, <1>4 DEF Replace, Reconnect, Connect, Opened, OneSocket
    <2>2. queue[c] = <<>> /\ buffer[c] = <<>> /\ out[c] = <<>>
      BY <2>1 DEF Inv, SlotInv, Shape
    <2>3. Line(c)' = {}
      <3>1. ToSet(queue[c]) = {} /\ ToSet(buffer[c]) = {} /\ ToSet(out[c]) = {}
        BY <2>2, EmptyQueue
      <3> QED  BY <2>1, <3>1 DEF Line
    <2> QED  BY <2>1, <2>3 DEF LineKept
  <1>5. ASSUME NEW c \in Slots, OnClose(c) PROVE LineKept
    <2>1. open' \subseteq open /\ UNCHANGED <<published, queue, buffer, out>>
      BY <1>5 DEF OnClose
    <2> QED  BY <2>1 DEF LineKept, Line
  <1>6. CASE (\E d \in Delays : UpdateSettings(d)) \/ UNCHANGED vars
    <2>1. UNCHANGED <<published, queue, buffer, out, open>>
      BY <1>6 DEF UpdateSettings, vars, server, browser
    <2> QED  BY <2>1 DEF LineKept, Line
  <1>7. CASE Disable \/ NoReconnect
    <2>1. open' \subseteq open /\ UNCHANGED <<published, queue, buffer, out>>
      BY <1>7 DEF Disable, NoReconnect, Close
    <2> QED  BY <2>1 DEF LineKept, Line
  <1> QED  BY <1>2, <1>3, <1>4, <1>5, <1>6, <1>7 DEF Next

\* A step of the stream alone, without an event for the panel.
LEMMA StreamKeeps ==
    ASSUME ViewInv, Inv', LineKept, published' <= stored', stored' \in {stored, stored + 1},
           stored' \in 0..MaxEvents, UNCHANGED panel
    PROVE  ViewInv'
  <1>1. /\ StoreInv /\ ExpectedInv /\ ExactInv /\ FreshInv
        /\ UNCHANGED <<hasPanel, list, load, fresh, paused, expected, exact>>
    BY DEF ViewInv, panel
  <1>2. published \in Nat /\ stored \in Nat /\ published' \in Nat
    BY DEF ViewInv, Inv, TypeInv, StoreInv
  <1>3. StoreInv'
    <2>1. 1..stored \subseteq 1..stored' /\ 0..stored \subseteq 0..stored'
      BY <1>2
    <2>2. list \in Seq(1..stored')
      BY <1>1, <2>1 DEF StoreInv
    <2> QED  BY <1>1, <2>1, <2>2 DEF StoreInv
  <1>4. ExpectedInv'
    <2>1. 1..published \subseteq 1..published' /\ published + 1 \notin 1..published
      BY <1>2 DEF LineKept
    <2>2. \A c \in open' : Line(c)' \cap expected = {}
      BY <1>1, <2>1 DEF LineKept, ExpectedInv
    <2> QED  BY <1>1, <2>1, <2>2 DEF ExpectedInv
  <1>5. ExactInv'
    BY <1>1 DEF ExactInv, Lists, Increasing, Earlier
  <1>6. FreshInv'
    <2> SUFFICES ASSUME NEW l \in fresh
                 PROVE  /\ load[l].pc = "answered" /\ load[l].upto <= published'
                        /\ \A c \in open' : Line(c)' \cap 1..load[l].upto = {}
      BY <1>1 DEF FreshInv
    <2>1. /\ load[l].pc = "answered" /\ load[l].upto <= published /\ load[l].upto \in Nat
          /\ \A c \in open : Line(c) \cap 1..load[l].upto = {}
      BY <1>1, <1>2 DEF FreshInv, StoreInv
    <2>2. published + 1 \notin 1..load[l].upto /\ load[l].upto <= published'
      BY <1>2, <2>1 DEF LineKept
    <2> QED  BY <2>1, <2>2 DEF LineKept
  <1> QED  BY <1>3, <1>4, <1>5, <1>6 DEF ViewInv

\* A step of the panel alone.
LEMMA StreamStays ==
    ASSUME Inv, UNCHANGED vars
    PROVE  Inv' /\ published' = published /\ open' = open /\ \A c \in Slots : Line(c)' = Line(c)
  <1>1. Inv'
    BY NextInv
  <1>2. UNCHANGED <<published, queue, buffer, out, open>>
    BY DEF vars, server, browser
  <1> QED  BY <1>1, <1>2 DEF Line

LEMMA AnswerInv == ASSUME ViewInv, NEW l \in Loads, Answer(l) PROVE ViewInv'
  <1>1. Inv /\ StoreInv /\ ExpectedInv /\ ExactInv /\ FreshInv
    BY DEF ViewInv
  <1>2. /\ Inv' /\ published' = published /\ open' = open
        /\ \A c \in Slots : Line(c)' = Line(c)
    BY <1>1, StreamStays DEF Answer
  <1>3. /\ open \subseteq Slots /\ published \in Nat /\ stored \in 0..MaxEvents
        /\ published <= stored
    BY <1>1 DEF Inv, TypeInv, StoreInv
  <1>4. /\ load' = [load EXCEPT ![l] = [pc |-> "answered", upto |-> stored]]
        /\ fresh' = IF Coming = {} THEN fresh \cup {l} ELSE fresh
        /\ load[l].pc = "asked"
        /\ UNCHANGED <<stored, hasPanel, list, paused, expected, exact>>
    BY DEF Answer
  <1>5. StoreInv'
    <2>1. load' \in [Loads -> [pc: {"idle", "asked", "answered"}, upto: 0..stored]]
      BY <1>1, <1>3, <1>4 DEF StoreInv
    <2> QED  BY <1>1, <1>2, <1>4, <2>1 DEF StoreInv
  <1>6. ExactInv'
    BY <1>1, <1>4 DEF ExactInv, Lists, Increasing, Earlier
  <1>7. ExpectedInv'
    BY <1>1, <1>2, <1>3, <1>4 DEF ExpectedInv
  <1>8. FreshInv'
    <2> SUFFICES ASSUME NEW k \in fresh'
                 PROVE  /\ load'[k].pc = "answered" /\ load'[k].upto <= published
                        /\ \A c \in open : Line(c) \cap 1..load'[k].upto = {}
      BY <1>2, <1>3 DEF FreshInv
    <2>1. CASE k \in fresh
      <3>1. load'[k] = load[k]
        BY <1>1, <1>4, <2>1 DEF FreshInv, StoreInv
      <3> QED  BY <1>1, <2>1, <3>1 DEF FreshInv
    <2>2. CASE k \notin fresh
      <3>1. k = l /\ Coming = {}
        BY <1>4, <2>2
      <3>2. load'[k] = [pc |-> "answered", upto |-> stored]
        BY <1>1, <1>4, <3>1 DEF StoreInv
      <3>3. published = stored
        <4> SUFFICES ASSUME published < stored PROVE FALSE
          BY <1>3
        <4>1. stored \in 1..stored /\ stored > published
          BY <1>3
        <4> QED  BY <3>1, <4>1 DEF Coming
      <3>4. ASSUME NEW c \in open, NEW e \in Line(c) PROVE e \notin 1..stored
        <4> SUFFICES ASSUME e \in 1..stored PROVE FALSE
          OBVIOUS
        <4>1. e \in Coming
          BY <3>4 DEF Coming, Line
        <4> QED  BY <3>1, <4>1
      <3> QED  BY <1>3, <3>2, <3>3, <3>4
    <2> QED  BY <2>1, <2>2
  <1> QED  BY <1>2, <1>5, <1>6, <1>7, <1>8 DEF ViewInv

LEMMA ReplacedInv == ASSUME ViewInv, NEW l \in Loads, Replaced(l) PROVE ViewInv'
  <1> DEFINE n == load[l].upto
             S == Newest(1..n)
  <1>1. Inv /\ StoreInv /\ ExpectedInv /\ ExactInv /\ FreshInv
    BY DEF ViewInv
  <1>2. /\ Inv' /\ published' = published /\ open' = open
        /\ \A c \in Slots : Line(c)' = Line(c)
    BY <1>1, StreamStays DEF Replaced
  <1>3. /\ list' \in Ordered(S)
        /\ load' = [load EXCEPT ![l] = [pc |-> "idle", upto |-> 0]]
        /\ fresh' \subseteq fresh \ {l}
        /\ exact' = (l \in fresh)
        /\ expected' = IF exact' THEN S ELSE {}
        /\ UNCHANGED <<stored, hasPanel, paused>>
    BY DEF Replaced, Shown, NoLoad
  <1>4. n \in 0..stored /\ stored \in 0..MaxEvents
    BY <1>1 DEF StoreInv
  <1>5. S \subseteq 1..n /\ Cardinality(S) <= History
    <2>1. ASSUME NEW m \in Nat
          PROVE  Newest(1..m) \subseteq 1..m /\ Cardinality(Newest(1..m)) <= History
      <3>1. IsFiniteSet(1..m) /\ 1..m \in SUBSET Nat
        BY FS_Interval
      <3> QED  BY <3>1, NewestSet
    <2>2. n \in Nat
      BY <1>4
    <2> QED  BY <2>1, <2>2
  <1>6. S \in SUBSET Events
    BY <1>4, <1>5, BoundAssumption DEF Events
  <1> HIDE DEF S
  <1>7. Lists(list', S) /\ Len(list') = Cardinality(S)
    BY <1>3, <1>6, OrderedLists
  <1>8. StoreInv'
    <2>1. list' \in Seq(1..stored)
      <3>1. list' \in Seq(Events) /\ ToSet(list') \subseteq 1..stored
        BY <1>4, <1>5, <1>7 DEF Lists
      <3>2. ASSUME NEW q \in Seq(Events), NEW T, ToSet(q) \subseteq T PROVE q \in Seq(T)
        <4>1. \A i \in 1..Len(q) : q[i] \in T
          BY <3>2 DEF ToSet
        <4> QED  BY <4>1
      <3> QED  BY <3>1, <3>2
    <2>2. load' \in [Loads -> [pc: {"idle", "asked", "answered"}, upto: 0..stored]]
      BY <1>1, <1>3, <1>4 DEF StoreInv
    <2>3. Len(list') <= History
      BY <1>5, <1>7
    <2>4. fresh' \subseteq Loads /\ exact' \in BOOLEAN
      BY <1>1, <1>3 DEF StoreInv
    <2> QED  BY <1>1, <1>2, <1>3, <2>1, <2>2, <2>3, <2>4 DEF StoreInv
  <1>9. ExpectedInv'
    <2>1. open \subseteq Slots /\ published \in Nat
      BY <1>1 DEF Inv, TypeInv
    <2>2. CASE l \in fresh
      <3>1. expected' = S
        BY <1>3, <2>2
      <3>2. n <= published /\ \A c \in open : Line(c) \cap 1..n = {}
        BY <1>1, <2>2 DEF FreshInv
      <3>3. S \subseteq 1..published /\ \A c \in open : Line(c) \cap S = {}
        <4>1. n \in Nat /\ 1..n \subseteq 1..published
          BY <1>4, <2>1, <3>2
        <4> HIDE DEF n
        <4> QED  BY <1>5, <3>2, <4>1
      <3> QED  BY <1>2, <1>5, <2>1, <3>1, <3>3 DEF ExpectedInv
    <2>3. CASE l \notin fresh
      <3>1. expected' = {} /\ Cardinality({}) = 0
        BY <1>3, <2>3, FS_EmptySet
      <3> QED  BY <3>1, HistoryAssumption DEF ExpectedInv
    <2> QED  BY <2>2, <2>3
  <1>10. ExactInv'
    <2> SUFFICES ASSUME exact' PROVE Lists(list', expected')
      BY DEF ExactInv, Lists, Increasing, Earlier
    <2> QED  BY <1>3, <1>7
  <1>11. FreshInv'
    <2> SUFFICES ASSUME NEW k \in fresh'
                 PROVE  /\ load'[k].pc = "answered" /\ load'[k].upto <= published
                        /\ \A c \in open : Line(c) \cap 1..load'[k].upto = {}
      <3>1. open \subseteq Slots
        BY <1>1 DEF Inv, TypeInv
      <3> QED  BY <1>2, <3>1 DEF FreshInv
    <2>1. k \in fresh /\ load'[k] = load[k]
      BY <1>1, <1>3 DEF StoreInv
    <2> QED  BY <1>1, <2>1 DEF FreshInv
  <1> QED  BY <1>2, <1>8, <1>9, <1>10, <1>11 DEF ViewInv

LEMMA ReceiveInv == ASSUME ViewInv, NEW c \in Slots, Receive(c) PROVE ViewInv'
  <1> DEFINE e == Head(out[c])
  <1>1. Inv /\ StoreInv /\ ExpectedInv /\ ExactInv /\ TypeInv /\ SlotInv(c)
    BY DEF ViewInv, Inv
  <1>2. Inv' /\ published' = published /\ open' = {c} /\ c \in open
    <2>1. Send(c)
      BY DEF Receive
    <2>2. Inv' /\ published' = published /\ open' = open /\ c \in open
      BY <1>1, <2>1, SendInv DEF Send
    <2> QED  BY <1>1, <2>2 DEF Inv, OneSocket
  <1>3. e \in Events /\ Line(c)' \cup {e} = Line(c) /\ e \notin Line(c)'
    <2>1. out[c] \in Seq(Events) /\ out[c] # <<>>
      BY <1>1 DEF Receive, Send, TypeInv
    <2>2. /\ e \in Events /\ ToSet(out[c]) = ToSet(Tail(out[c])) \cup {e}
          /\ Distinct(out[c]) => e \notin ToSet(Tail(out[c]))
      BY <2>1, TailSeq
    <2>3. e \notin ToSet(Tail(out[c])) /\ e \notin ToSet(queue[c])
      BY <1>1, <2>2 DEF SlotInv, Single
    <2>4. queue' = queue /\ buffer' = buffer /\ out'[c] = Tail(out[c])
      BY <1>1 DEF Receive, Send, TypeInv
    <2>5. ToSet(buffer[c]) = {}
      <3>1. buffer[c] = <<>>
        BY <1>1 DEF Receive, Send, SlotInv, Shape
      <3> QED  BY <3>1, EmptyQueue
    <2> HIDE DEF e
    <2> QED  BY <2>2, <2>3, <2>4, <2>5 DEF Line
  <1>4. e \in 1..published /\ published \in Nat /\ stored \in 0..MaxEvents
        /\ published <= stored
    <2>1. e <= published
      BY <1>1, <1>3 DEF SlotInv, Past
    <2> QED  BY <1>1, <1>3, <2>1 DEF Events, TypeInv, StoreInv
  <1>5. /\ list' = IF paused THEN list ELSE InsertSorted(list, e)
        /\ exact' = (exact /\ ~paused) /\ fresh' = {}
        /\ expected' = IF exact' THEN Newest(expected \cup {e}) ELSE {}
        /\ UNCHANGED <<stored, hasPanel, load, paused>>
    BY DEF Receive
  <1> HIDE DEF e
  <1>6. e \notin expected /\ expected \subseteq 1..published /\ Cardinality(expected) <= History
    BY <1>1, <1>2, <1>3 DEF ExpectedInv
  <1>7. expected \in SUBSET Events /\ e \in Events \ expected
    BY <1>3, <1>4, <1>6, BoundAssumption DEF Events
  <1>8. StoreInv'
    <2>1. 1..stored \in SUBSET Events /\ e \in 1..stored
      BY <1>4, BoundAssumption DEF Events
    <2>2. list \in Seq(1..stored) /\ Len(list) <= History
      BY <1>1 DEF StoreInv
    <2>3. InsertSorted(list, e) \in Seq(1..stored) /\ Len(InsertSorted(list, e)) <= History
      BY <2>1, <2>2, InsertedFits
    <2>4. list' \in Seq(1..stored) /\ Len(list') <= History
      BY <1>5, <2>2, <2>3
    <2>5. exact' \in BOOLEAN
      BY <1>5
    <2> QED  BY <1>1, <1>2, <1>5, <2>4, <2>5 DEF StoreInv
  <1>9. expected' \subseteq expected \cup {e} /\ Cardinality(expected') <= History
    <2>1. CASE exact'
      <3> DEFINE T == expected \cup {e}
      <3>1. T \in SUBSET Events
        BY <1>7
      <3>2. IsFiniteSet(T) /\ T \in SUBSET Nat
        <4> HIDE DEF T
        <4>1. IsFiniteSet(T) /\ T \subseteq Nat
          BY <3>1, EventsCount
        <4> QED  BY <4>1
      <3>3. expected' = Newest(T)
        BY <1>5, <2>1
      <3> HIDE DEF T
      <3>4. Newest(T) \subseteq T /\ Cardinality(Newest(T)) <= History
        BY <3>2, NewestSet
      <3> QED  BY <3>3, <3>4 DEF T
    <2>2. CASE ~exact'
      <3>1. expected' = {} /\ Cardinality({}) = 0
        BY <1>5, <2>2, FS_EmptySet
      <3> QED  BY <3>1, HistoryAssumption
    <2> QED  BY <2>1, <2>2
  <1>10. ExpectedInv'
    <2>1. Line(c)' \cap expected' = {}
      BY <1>1, <1>2, <1>3, <1>9 DEF ExpectedInv
    <2>2. expected' \subseteq 1..published'
      BY <1>2, <1>4, <1>6, <1>9
    <2> QED  BY <1>2, <1>9, <2>1, <2>2 DEF ExpectedInv
  <1>11. ExactInv'
    <2> SUFFICES ASSUME exact' PROVE Lists(list', expected')
      BY DEF ExactInv, Lists, Increasing, Earlier
    <2>1. exact /\ ~paused
      BY <1>5
    <2>2. Lists(list, expected)
      BY <1>1, <2>1 DEF ExactInv
    <2>3. Lists(InsertSorted(list, e), Newest(expected \cup {e}))
      BY <1>6, <1>7, <2>2, PanelLists
    <2> QED  BY <1>5, <2>1, <2>3
  <1>12. FreshInv'
    BY <1>5 DEF FreshInv
  <1> QED  BY <1>2, <1>8, <1>10, <1>11, <1>12 DEF ViewInv

LEMMA ViewNextInv == ViewInv /\ [ViewNext]_viewVars => ViewInv'
  <1> SUFFICES ASSUME ViewInv, [ViewNext]_viewVars PROVE ViewInv'
    OBVIOUS
  <1>1. /\ Inv /\ StoreInv /\ ExpectedInv /\ ExactInv /\ FreshInv /\ TypeInv
        /\ published \in Nat /\ stored \in 0..MaxEvents /\ published <= stored
    BY DEF ViewInv, Inv, TypeInv, StoreInv
  <1>2. CASE Store
    <2>1. UNCHANGED <<vars, panel>> /\ stored' = stored + 1 /\ stored' \in 0..MaxEvents
      BY <1>1, <1>2, BoundAssumption DEF Store
    <2>2. Inv' /\ LineKept /\ published' = published
      BY <1>1, <2>1, NextInv, NextKept, StreamStays
    <2>3. published' <= stored'
      BY <1>1, <2>1, <2>2
    <2> QED  BY <2>1, <2>2, <2>3, StreamKeeps
  <1>3. CASE PublishStored
    <2>1. Publish /\ UNCHANGED <<stored, panel>> /\ published < stored
      BY <1>3 DEF PublishStored
    <2>2. Inv' /\ LineKept
      BY <1>1, <2>1, NextInv, NextKept DEF Next
    <2>3. published' <= stored'
      BY <1>1, <2>1 DEF Publish
    <2> QED  BY <1>1, <2>1, <2>2, <2>3, StreamKeeps
  <1>4. CASE StreamStep /\ UNCHANGED <<stored, panel>>
    <2>1. [Next]_vars
      BY <1>4 DEF StreamStep, Next, EndpointStep
    <2>2. Inv' /\ LineKept
      BY <1>1, <2>1, NextInv, NextKept
    <2>3. published' = published
      BY <1>4 DEF StreamStep, Subscribe, Get, Collect, Deadline, Sent, Exhausted,
                  Disconnected, End, Send, Replace, Reconnect, Connect, OnClose, UpdateSettings,
                  Disable, NoReconnect, Close
    <2>4. published' <= stored'
      BY <1>1, <1>4, <2>3
    <2> QED  BY <1>1, <1>4, <2>2, <2>4, StreamKeeps
  <1>5. ASSUME NEW c \in Slots, Receive(c) PROVE ViewInv'
    BY <1>5, ReceiveInv
  <1>6. ASSUME (\E l \in Loads : Load(l) \/ Failed(l)) \/ Pause PROVE ViewInv'
    <2>1. UNCHANGED <<vars, stored, hasPanel, list, fresh, expected, exact>>
      BY <1>6 DEF Load, Failed, Pause
    <2>2. /\ Inv' /\ published' = published /\ open' = open
          /\ \A c \in Slots : Line(c)' = Line(c)
      BY <1>1, <2>1, StreamStays
    <2>3. /\ \/ load' = load
             \/ \E l \in Loads :
                    /\ load[l].pc # "answered"
                    /\ \/ load' = [load EXCEPT ![l].pc = "asked"]
                       \/ load' = [load EXCEPT ![l] = [pc |-> "idle", upto |-> 0]]
          /\ paused' \in BOOLEAN
      BY <1>1, <1>6 DEF Load, Failed, NoLoad, Pause, StoreInv
    <2>4. /\ load' \in [Loads -> [pc: {"idle", "asked", "answered"}, upto: 0..stored]]
          /\ \A k \in Loads : load[k].pc = "answered" => load'[k] = load[k]
      <3>1. 0 \in 0..stored
        BY <1>1
      <3> QED  BY <1>1, <2>3, <3>1 DEF StoreInv
    <2>5. StoreInv'
      BY <1>1, <2>1, <2>2, <2>3, <2>4 DEF StoreInv
    <2>6. open \subseteq Slots
      BY <1>1 DEF TypeInv
    <2>7. ExpectedInv'
      BY <1>1, <2>1, <2>2, <2>6 DEF ExpectedInv
    <2>8. ExactInv'
      BY <1>1, <2>1 DEF ExactInv, Lists, Increasing, Earlier
    <2>9. FreshInv'
      <3>1. ASSUME NEW k \in fresh PROVE load'[k] = load[k]
        BY <1>1, <2>4 DEF FreshInv, StoreInv
      <3> QED  BY <1>1, <2>1, <2>2, <2>6, <3>1 DEF FreshInv
    <2> QED  BY <2>2, <2>5, <2>7, <2>8, <2>9 DEF ViewInv
  <1>7. ASSUME NEW l \in Loads, Answer(l) PROVE ViewInv'
    BY <1>7, AnswerInv
  <1>8. ASSUME NEW l \in Loads, Replaced(l) PROVE ViewInv'
    BY <1>8, ReplacedInv
  <1>9. CASE UNCHANGED viewVars
    <2>1. UNCHANGED <<vars, stored, panel>>
      BY <1>9 DEF viewVars
    <2>2. Inv' /\ LineKept /\ published' = published
      BY <1>1, <2>1, NextInv, NextKept, StreamStays
    <2> QED  BY <1>1, <2>1, <2>2, StreamKeeps
  <1> QED  BY <1>2, <1>3, <1>4, <1>5, <1>6, <1>7, <1>8, <1>9 DEF ViewNext

LEMMA ViewInvInit == ViewInit => ViewInv
  <1> SUFFICES ASSUME ViewInit PROVE ViewInv
    OBVIOUS
  <1>1. Inv
    BY InvInit DEF ViewInit
  <1>2. /\ stored = 0 /\ published = 0 /\ list = <<>> /\ fresh = {}
        /\ load = [l \in Loads |-> [pc |-> "idle", upto |-> 0]]
        /\ expected = {} /\ hasPanel \in BOOLEAN /\ paused = FALSE /\ exact = TRUE
    BY DEF ViewInit, Init, NoLoad
  <1>3. StoreInv
    <2>1. load \in [Loads -> [pc: {"idle", "asked", "answered"}, upto: 0..stored]]
          /\ fresh \subseteq Loads
      BY <1>2
    <2>2. list \in Seq(1..stored) /\ Len(list) <= History
      BY <1>2, HistoryAssumption
    <2>3. hasPanel \in BOOLEAN /\ paused \in BOOLEAN /\ exact \in BOOLEAN
      BY <1>2
    <2>4. stored \in 0..MaxEvents /\ published <= stored
      BY <1>2, BoundAssumption
    <2> QED  BY <2>1, <2>2, <2>3, <2>4 DEF StoreInv
  <1>4. ExpectedInv
    BY <1>2, FS_EmptySet, HistoryAssumption DEF ExpectedInv
  <1>5. ExactInv
    <2>1. ToSet(list) = {} /\ list \in Seq(Events) /\ Increasing(list)
      BY <1>2, EmptyQueue DEF Increasing
    <2> QED  BY <1>2, <2>1 DEF ExactInv, Lists
  <1>6. FreshInv
    BY <1>2 DEF FreshInv
  <1> QED  BY <1>1, <1>3, <1>4, <1>5, <1>6 DEF ViewInv

LEMMA ViewAlways == ViewSpec => []ViewInv
  BY ViewInvInit, ViewNextInv, PTL DEF ViewSpec

(* All variables of a panel keep their types: it shows at most as many     *)
(* events as its window holds, all of them stored, in whatever order they  *)
(* arrive and however often it is loaded, paused and resumed.              *)
THEOREM ViewTypeCorrect == ViewSpec => []ViewTypeOK
  <1>1. ViewInv => ViewTypeOK
    <2> SUFFICES ASSUME ViewInv PROVE ViewTypeOK
      OBVIOUS
    <2>1. TypeOK
      BY InvTypes DEF ViewInv
    <2>2. StoreInv /\ ExpectedInv /\ FreshInv /\ published \in Nat
      BY DEF ViewInv, Inv, TypeInv
    <2>3. stored \in published..MaxEvents /\ expected \subseteq 1..stored
      BY <2>2 DEF StoreInv, ExpectedInv
    <2>4. ToSet(list) \subseteq 1..stored
      BY <2>2 DEF StoreInv, ToSet
    <2>5. fresh \subseteq {l \in Loads : load[l].pc = "answered"}
      BY <2>2 DEF StoreInv, FreshInv
    <2> QED  BY <2>1, <2>2, <2>3, <2>4, <2>5 DEF ViewTypeOK, StoreInv
  <1> QED  BY <1>1, ViewAlways, PTL

(* A panel shows exactly the newest of the events it was loaded with or    *)
(* received, each once and in display order, but for the listed moments.   *)
THEOREM PanelShowsNewest == ViewSpec => []PanelIsExact
  <1>1. ViewInv => PanelIsExact
    <2> SUFFICES ASSUME ViewInv, exact
                 PROVE  list \in Ordered(expected)
      BY DEF PanelIsExact
    <2>1. Lists(list, expected)
      BY DEF ViewInv, ExactInv
    <2>2. expected \in SUBSET Events
      BY BoundAssumption DEF ViewInv, ExpectedInv, Inv, TypeInv, Events
    <2> QED  BY <2>1, <2>2, ListsOrdered
  <1> QED  BY <1>1, ViewAlways, PTL
=============================================================================
