-------------------------- MODULE PacketQueueProofs --------------------------
(***************************************************************************)
(* For any number of senders, any sizes and any room: the write buffer is  *)
(* never overfilled, every packet of a connected socket is in exactly one  *)
(* place, and each of the two ways out keeps the order of a sender.        *)
(*                                                                         *)
(* The invariant is about one sequence, what has been sent, then the write *)
(* buffer, then the queue: a packet enters it at the end of the buffer or  *)
(* of the queue, and moves in it without changing places.                  *)
(***************************************************************************)
EXTENDS PacketQueue, FiniteSetTheorems, SequenceTheorems, TLAPS

Out == wire \o buffer
All == Out \o queue

-----------------------------------------------------------------------------
(* Sequences. *)

\* Appending to the second of two sequences appends to both together.
LEMMA ConcatAppend ==
  ASSUME NEW S, NEW a \in Seq(S), NEW b \in Seq(S), NEW x \in S
  PROVE  a \o Append(b, x) = Append(a \o b, x)
<1>1. <<x>> \in Seq(S) /\ a \o b \in Seq(S)
  BY ConcatProperties
<1>2. Append(b, x) = b \o <<x>> /\ Append(a \o b, x) = (a \o b) \o <<x>>
  BY <1>1, AppendIsConcat
<1> QED BY <1>1, <1>2, ConcatAssociative

\* The first of the second sequence becomes the last of the first.
LEMMA MoveHead ==
  ASSUME NEW S, NEW a \in Seq(S), NEW b \in Seq(S), b # <<>>
  PROVE  Append(a, Head(b)) \o Tail(b) = a \o b
<1> DEFINE u == Append(a, Head(b)) \o Tail(b)
           v == a \o b
<1>1. /\ Head(b) \in S /\ Tail(b) \in Seq(S) /\ Len(Tail(b)) = Len(b) - 1
      /\ Len(b) \in Nat \ {0} /\ Head(b) = b[1]
      /\ \A i \in 1 .. Len(b) - 1 : Tail(b)[i] = b[i + 1]
  BY HeadTailProperties, EmptySeq
<1>2. /\ Append(a, Head(b)) \in Seq(S) /\ Len(Append(a, Head(b))) = Len(a) + 1
      /\ \A i \in 1 .. Len(a) : Append(a, Head(b))[i] = a[i]
      /\ Append(a, Head(b))[Len(a) + 1] = b[1]
  BY <1>1, AppendProperties
<1>3. /\ u \in Seq(S) /\ Len(u) = Len(a) + Len(b)
      /\ \A i \in 1 .. Len(a) + Len(b) :
           u[i] = IF i <= Len(a) + 1 THEN Append(a, Head(b))[i] ELSE Tail(b)[i - (Len(a) + 1)]
  BY <1>1, <1>2, ConcatProperties
<1>4. /\ v \in Seq(S) /\ Len(v) = Len(a) + Len(b)
      /\ \A i \in 1 .. Len(a) + Len(b) : v[i] = IF i <= Len(a) THEN a[i] ELSE b[i - Len(a)]
  BY ConcatProperties
<1> HIDE DEF u, v
<1>5. ASSUME NEW i \in 1 .. Len(u)
      PROVE  u[i] = v[i]
  <2>0. Len(a) \in Nat /\ i \in 1 .. Len(a) + Len(b)
    BY <1>3, LenProperties
  <2>1. CASE i <= Len(a)
    <3>1. u[i] = Append(a, Head(b))[i]
      BY <2>0, <2>1, <1>3
    <3> QED BY <2>0, <2>1, <1>2, <1>4, <3>1
  <2>2. CASE i = Len(a) + 1
    <3>1. u[i] = Append(a, Head(b))[Len(a) + 1]
      BY <2>0, <2>2, <1>3
    <3>2. i - Len(a) = 1
      BY <2>0, <2>2
    <3>3. v[i] = b[1]
      BY <2>0, <2>2, <1>4, <3>2
    <3> QED BY <1>2, <3>1, <3>3
  <2>3. CASE i > Len(a) + 1
    <3>1. /\ i - (Len(a) + 1) \in 1 .. Len(b) - 1
          /\ (i - (Len(a) + 1)) + 1 = i - Len(a)
      BY <2>0, <2>3, <1>1
    <3>2. u[i] = Tail(b)[i - (Len(a) + 1)]
      BY <2>0, <2>3, <1>3
    <3>3. v[i] = b[i - Len(a)]
      BY <2>0, <2>3, <1>4
    <3> QED BY <1>1, <3>1, <3>2, <3>3
  <2> QED BY <2>0, <2>1, <2>2, <2>3
<1>6. u = v
  BY <1>3, <1>4, <1>5, SeqEqual
<1> QED BY <1>6 DEF u, v

\* One more in the middle: what is where.
LEMMA Inserted ==
  ASSUME NEW S, NEW a \in Seq(S), NEW b \in Seq(S), NEW x \in S
  PROVE  LET u == Append(a, x) \o b
             v == a \o b
         IN  /\ u \in Seq(S) /\ v \in Seq(S)
             /\ DOMAIN u = 1 .. Len(a) + 1 + Len(b) /\ DOMAIN v = 1 .. Len(a) + Len(b)
             /\ \A i \in 1 .. Len(a) : u[i] = v[i]
             /\ u[Len(a) + 1] = x
             /\ \A i \in 1 .. Len(b) :
                  u[Len(a) + 1 + i] = v[Len(a) + i] /\ v[Len(a) + i] = b[i]
<1> DEFINE u == Append(a, x) \o b
           v == a \o b
<1>1. /\ Append(a, x) \in Seq(S) /\ Len(Append(a, x)) = Len(a) + 1
      /\ \A i \in 1 .. Len(a) : Append(a, x)[i] = a[i]
      /\ Append(a, x)[Len(a) + 1] = x
  BY AppendProperties
<1>2. /\ u \in Seq(S) /\ Len(u) = Len(a) + 1 + Len(b)
      /\ \A i \in 1 .. Len(a) + 1 + Len(b) :
           u[i] = IF i <= Len(a) + 1 THEN Append(a, x)[i] ELSE b[i - (Len(a) + 1)]
  BY <1>1, ConcatProperties
<1>3. /\ v \in Seq(S) /\ Len(v) = Len(a) + Len(b)
      /\ \A i \in 1 .. Len(a) + Len(b) : v[i] = IF i <= Len(a) THEN a[i] ELSE b[i - Len(a)]
  BY ConcatProperties
<1>4. Len(a) \in Nat /\ Len(b) \in Nat
  BY LenProperties
<1>5. DOMAIN u = 1 .. Len(a) + 1 + Len(b) /\ DOMAIN v = 1 .. Len(a) + Len(b)
  BY <1>2, <1>3, LenProperties
<1> HIDE DEF u, v
<1>6. ASSUME NEW i \in 1 .. Len(a)
      PROVE  u[i] = v[i]
  <2>1. i \in 1 .. Len(a) + 1 + Len(b) /\ i \in 1 .. Len(a) + Len(b) /\ i <= Len(a) /\ i <= Len(a) + 1
    BY <1>4
  <2> QED BY <2>1, <1>1, <1>2, <1>3
<1>7. u[Len(a) + 1] = x
  <2>1. Len(a) + 1 \in 1 .. Len(a) + 1 + Len(b) /\ Len(a) + 1 <= Len(a) + 1
    BY <1>4
  <2> QED BY <2>1, <1>1, <1>2
<1>8. ASSUME NEW i \in 1 .. Len(b)
      PROVE  u[Len(a) + 1 + i] = v[Len(a) + i] /\ v[Len(a) + i] = b[i]
  <2>1. /\ Len(a) + 1 + i \in 1 .. Len(a) + 1 + Len(b) /\ ~ (Len(a) + 1 + i <= Len(a) + 1)
        /\ (Len(a) + 1 + i) - (Len(a) + 1) = i
    BY <1>4
  <2>2. /\ Len(a) + i \in 1 .. Len(a) + Len(b) /\ ~ (Len(a) + i <= Len(a))
        /\ (Len(a) + i) - Len(a) = i
    BY <1>4
  <2>3. u[Len(a) + 1 + i] = b[i]
    BY <2>1, <1>2
  <2>4. v[Len(a) + i] = b[i]
    BY <2>2, <1>3
  <2> QED BY <2>3, <2>4
<1> QED BY <1>2, <1>3, <1>5, <1>6, <1>7, <1>8 DEF u, v

\* The parts of two sequences in their concatenation.
LEMMA Parts ==
  ASSUME NEW S, NEW a \in Seq(S), NEW b \in Seq(S)
  PROVE  /\ a \o b \in Seq(S) /\ DOMAIN (a \o b) = 1 .. Len(a) + Len(b)
         /\ Len(a) \in Nat /\ Len(b) \in Nat /\ DOMAIN a = 1 .. Len(a) /\ DOMAIN b = 1 .. Len(b)
         /\ \A i \in 1 .. Len(a) : (a \o b)[i] = a[i]
         /\ \A i \in 1 .. Len(b) : (a \o b)[Len(a) + i] = b[i]
<1>1. /\ a \o b \in Seq(S) /\ Len(a \o b) = Len(a) + Len(b)
      /\ \A i \in 1 .. Len(a) + Len(b) : (a \o b)[i] = IF i <= Len(a) THEN a[i] ELSE b[i - Len(a)]
  BY ConcatProperties
<1>2. Len(a) \in Nat /\ Len(b) \in Nat
  BY LenProperties
<1>3. ASSUME NEW i \in 1 .. Len(b)
      PROVE  (a \o b)[Len(a) + i] = b[i]
  <2>1. Len(a) + i \in 1 .. Len(a) + Len(b) /\ ~ (Len(a) + i <= Len(a)) /\ (Len(a) + i) - Len(a) = i
    BY <1>2
  <2> QED BY <2>1, <1>1
<1>4. \A i \in 1 .. Len(a) : (a \o b)[i] = a[i]
  BY <1>1, <1>2
<1> QED BY <1>1, <1>2, <1>3, <1>4, LenProperties

-----------------------------------------------------------------------------
(* The room that packets take. *)

LEMMA PacketType ==
  ASSUME NEW p \in Packet
  PROVE  /\ p.from \in Sender /\ p.n \in 1 .. MaxSent /\ p.waited \in BOOLEAN
         /\ p.size \in 1 .. Room
BY SizeAssumption DEF Packet

LEMMA UnitsFinite ==
  ASSUME NEW q \in Seq(Packet)
  PROVE  IsFiniteSet(UnitsOf(q)) /\ Units(q) \in Nat
<1>1. DOMAIN q = 1 .. Len(q) /\ Len(q) \in Int /\ 1 \in Int /\ Room \in Int
  BY LenProperties, SizeAssumption
<1>2. IsFiniteSet(DOMAIN q) /\ IsFiniteSet(1 .. Room)
  BY <1>1, FS_Interval
<1>3. IsFiniteSet((DOMAIN q) \X (1 .. Room))
  BY <1>2, FS_Product
<1>4. UnitsOf(q) \in SUBSET ((DOMAIN q) \X (1 .. Room))
  BY DEF UnitsOf
<1>5. IsFiniteSet(UnitsOf(q))
  BY <1>3, <1>4, FS_Subset
<1> QED BY <1>5, FS_CardinalityType DEF Units

LEMMA UnitsEmpty == Units(<<>>) = 0
<1>1. UnitsOf(<<>>) = {}
  BY DEF UnitsOf
<1> QED BY <1>1, FS_EmptySet DEF Units

\* Counting from the end of the first part.
LEMMA Shift ==
  ASSUME NEW a \in Nat, NEW b \in Nat, NEW i \in a + 2 .. a + 1 + b
  PROVE  /\ i - (a + 1) \in 1 .. b /\ a + 1 + (i - (a + 1)) = i
         /\ a + (i - (a + 1)) = i - 1
OBVIOUS

\* A packet takes its size.
LEMMA UnitsAppend ==
  ASSUME NEW q \in Seq(Packet), NEW p \in Packet
  PROVE  Units(Append(q, p)) = Units(q) + p.size
<1> DEFINE r == Append(q, p)
           l == Len(q) + 1
           more == {l} \X (1 .. p.size)
<1>1. /\ r \in Seq(Packet) /\ Len(r) = l /\ r[l] = p
      /\ \A i \in 1 .. Len(q) : r[i] = q[i]
      /\ DOMAIN q = 1 .. Len(q) /\ DOMAIN r = 1 .. l /\ Len(q) \in Nat
  BY AppendProperties, LenProperties
<1>2. p.size \in 1 .. Room /\ Room \in Nat
  BY PacketType, SizeAssumption
<1>3. UnitsOf(r) = UnitsOf(q) \cup more
  <2>1. ASSUME NEW u \in UnitsOf(r)
        PROVE  u \in UnitsOf(q) \cup more
    <3>1. u \in (1 .. l) \X (1 .. Room) /\ u[2] <= r[u[1]].size
      BY <1>1 DEF UnitsOf
    <3>2. CASE u[1] = l
      BY <1>1, <1>2, <3>1, <3>2
    <3>3. CASE u[1] # l
      <4>1. u[1] \in 1 .. Len(q)
        BY <1>1, <3>1, <3>3
      <4>2. u \in (DOMAIN q) \X (1 .. Room) /\ u[2] <= q[u[1]].size
        BY <1>1, <3>1, <4>1
      <4> QED BY <4>2 DEF UnitsOf
    <3> QED BY <3>2, <3>3
  <2>2. ASSUME NEW u \in UnitsOf(q)
        PROVE  u \in UnitsOf(r)
    <3>1. u \in (1 .. Len(q)) \X (1 .. Room) /\ u[2] <= q[u[1]].size
      BY <1>1 DEF UnitsOf
    <3>2. u \in (1 .. l) \X (1 .. Room) /\ r[u[1]] = q[u[1]]
      BY <1>1, <3>1
    <3> QED BY <1>1, <3>1, <3>2 DEF UnitsOf
  <2>3. ASSUME NEW u \in more
        PROVE  u \in UnitsOf(r)
    <3>1. u[1] = l /\ u[2] \in 1 .. p.size /\ u \in (1 .. l) \X (1 .. Room)
      BY <1>1, <1>2
    <3> QED BY <1>1, <3>1 DEF UnitsOf
  <2> QED BY <2>1, <2>2, <2>3
<1>4. UnitsOf(q) \cap more = {}
  BY <1>1 DEF UnitsOf
<1>5. IsFiniteSet(more) /\ Cardinality(more) = p.size
  <2>1. IsFiniteSet({l}) /\ Cardinality({l}) = 1
    BY FS_Singleton
  <2>2. IsFiniteSet(1 .. p.size) /\ Cardinality(1 .. p.size) = p.size
    BY <1>2, FS_Interval
  <2>3. IsFiniteSet(more) /\ Cardinality(more) = 1 * p.size
    BY <2>1, <2>2, FS_Product
  <2> QED BY <1>2, <2>3
<1> HIDE DEF r, l, more
<1>6. Cardinality(UnitsOf(r)) =
        Cardinality(UnitsOf(q)) + Cardinality(more) - Cardinality(UnitsOf(q) \cap more)
  BY <1>3, <1>5, UnitsFinite, FS_Union
<1>7. Cardinality(UnitsOf(q) \cap more) = 0
  BY <1>4, FS_EmptySet
<1>8. /\ Units(r) = Cardinality(UnitsOf(r)) /\ Units(q) = Cardinality(UnitsOf(q))
      /\ Units(q) \in Nat
  BY UnitsFinite DEF Units
<1>9. Units(r) = Units(q) + p.size
  BY <1>2, <1>5, <1>6, <1>7, <1>8
<1> QED BY <1>9 DEF r

\* Without its first packet a sequence takes no more.
LEMMA UnitsTail ==
  ASSUME NEW q \in Seq(Packet), q # <<>>
  PROVE  Units(Tail(q)) <= Units(q)
<1> DEFINE r == Tail(q)
           f == [u \in UnitsOf(r) |-> <<u[1] + 1, u[2]>>]
<1>1. /\ r \in Seq(Packet) /\ Len(r) = Len(q) - 1 /\ Len(q) \in Nat \ {0}
      /\ \A i \in 1 .. Len(r) : r[i] = q[i + 1]
      /\ DOMAIN q = 1 .. Len(q) /\ DOMAIN r = 1 .. Len(r)
  BY HeadTailProperties, EmptySeq, LenProperties
<1>2. ASSUME NEW u \in UnitsOf(r)
      PROVE  /\ u = <<u[1], u[2]>> /\ u[1] \in 1 .. Len(r) /\ u[1] \in Int
             /\ <<u[1] + 1, u[2]>> \in UnitsOf(q)
  <2>1. u \in (1 .. Len(r)) \X (1 .. Room) /\ u[2] <= r[u[1]].size
    BY <1>1 DEF UnitsOf
  <2>2. u = <<u[1], u[2]>> /\ u[1] \in 1 .. Len(r) /\ u[2] \in 1 .. Room
    BY <2>1
  <2>3. u[1] + 1 \in 1 .. Len(q) /\ r[u[1]] = q[u[1] + 1]
    BY <1>1, <2>2
  <2> DEFINE w == <<u[1] + 1, u[2]>>
  <2>4. w \in (DOMAIN q) \X (1 .. Room) /\ w[2] <= q[w[1]].size
    BY <1>1, <2>1, <2>2, <2>3
  <2>5. w \in UnitsOf(q)
    BY <2>4 DEF UnitsOf
  <2> QED BY <1>1, <2>2, <2>5
<1>3. f \in Injection(UnitsOf(r), UnitsOf(q))
  <2>1. f \in [UnitsOf(r) -> UnitsOf(q)]
    BY <1>2
  <2>2. ASSUME NEW u \in UnitsOf(r), NEW w \in UnitsOf(r), f[u] = f[w]
        PROVE  u = w
    <3>1. f[u] = <<u[1] + 1, u[2]>> /\ f[w] = <<w[1] + 1, w[2]>>
      OBVIOUS
    <3>2. u[1] + 1 = w[1] + 1 /\ u[2] = w[2]
      BY <2>2, <3>1, Zenon
    <3>3. u[1] \in Int /\ w[1] \in Int
      BY <1>2
    <3>4. u[1] = w[1]
      BY <3>2, <3>3
    <3> QED BY <1>2, <3>2, <3>4
  <2> QED BY <2>1, <2>2 DEF Injection, IsInjective
<1> HIDE DEF f, r
<1>4. Cardinality(UnitsOf(r)) <= Cardinality(UnitsOf(q))
  BY <1>3, UnitsFinite, FS_Injection
<1> QED BY <1>4 DEF Units, r

-----------------------------------------------------------------------------
(* The invariant. *)

\* Of two packets of a thread that go the same way, the earlier is in front.
InOrder(q) ==
  \A i, j \in DOMAIN q :
    i < j /\ q[i].from = q[j].from /\ q[i].waited = q[j].waited => q[i].n < q[j].n

NoCopies(q) ==
  \A i, j \in DOMAIN q : q[i].from = q[j].from /\ q[i].n = q[j].n => i = j

\* No packet that was not sent yet.
Known(q) == \A i \in DOMAIN q : q[i].n <= sent[q[i].from]

Waited == \A i \in DOMAIN queue : queue[i].waited

\* A packet in the hands of its sender is its last, and nowhere else.
InHand(s) ==
  hand[s] # <<>> =>
    /\ hand[s] = <<hand[s][1]>>
    /\ hand[s][1] \in Packet
    /\ hand[s][1].from = s /\ hand[s][1].n = sent[s] /\ ~hand[s][1].waited
    /\ \A i \in DOMAIN All : All[i].from = s => All[i].n < sent[s]

Found(s, n) ==
  \/ hand[s] # <<>> /\ n = sent[s]
  \/ \E i \in DOMAIN All : All[i].from = s /\ All[i].n = n

Kept == connected => \A s \in Sender : \A n \in 1 .. sent[s] : Found(s, n)

Hands == \A s \in Sender : (pc[s] = "queue" <=> hand[s] # <<>>) /\ InHand(s)

Inv == TypeOK /\ InOrder(All) /\ NoCopies(All) /\ Known(All) /\ Waited /\ Hands /\ Kept

-----------------------------------------------------------------------------
LEMMA Lines ==
  ASSUME TypeOK
  PROVE  /\ Out \in Seq(Packet) /\ All \in Seq(Packet)
         /\ wire \in Seq(Packet) /\ buffer \in Seq(Packet) /\ queue \in Seq(Packet)
BY Parts DEF TypeOK, Out, All

LEMMA InitInv == Init => Inv
<1> SUFFICES ASSUME Init PROVE Inv
  OBVIOUS
<1>1. <<>> \in Seq(Packet) /\ Len(<<>>) = 0
  BY EmptySeq
<1>2. Out = <<>> /\ All = <<>>
  BY <1>1, ConcatEmptySeq DEF Init, Out, All
<1>3. TypeOK
  <2>1. 0 <= Room /\ 0 \in 0 .. MaxSent
    BY SizeAssumption
  <2>2. {buffer, wire, queue} \subseteq Seq(Packet) /\ Units(buffer) <= Room
    BY <1>1, <2>1, UnitsEmpty DEF Init
  <2>3. lock \in {Updater, Free} /\ connected \in BOOLEAN /\ stalled \in BOOLEAN
    BY DEF Init
  <2>4. /\ pc \in [Sender \cup {Updater} -> {"idle", "queue", "flush"}]
        /\ hand \in [Sender -> Seq(Packet)] /\ \A s \in Sender : Len(hand[s]) <= 1
        /\ sent \in [Sender -> 0 .. MaxSent]
    BY <1>1, <2>1 DEF Init
  <2> QED BY <2>2, <2>3, <2>4 DEF TypeOK
<1>4. DOMAIN All = {} /\ DOMAIN queue = {}
  BY <1>1, <1>2 DEF Init
<1>5. Hands
  BY SenderAssumption DEF Init, Hands, InHand
<1> QED BY <1>2, <1>3, <1>4, <1>5 DEF Init, Inv, InOrder, NoCopies, Known, Waited, Kept, Found

\* A step that leaves all packets where they are in the sequence.
LEMMA Still ==
  ASSUME Inv, TypeOK', Waited', All' = All, UNCHANGED <<hand, sent>>,
         \A s \in Sender : pc'[s] = pc[s],
         connected' => connected
  PROVE  Inv'
<1>1. InOrder(All)' /\ NoCopies(All)' /\ Known(All)'
  BY DEF Inv, InOrder, NoCopies, Known
<1>2. Hands'
  BY DEF Inv, Hands, InHand
<1>3. Kept'
  BY DEF Inv, Kept, Found
<1> QED BY <1>1, <1>2, <1>3 DEF Inv

\* The packet is written at once: it comes last but for what waits in the queue.
LEMMA WrittenInv ==
  ASSUME Inv, NEW s \in Sender, NEW p \in Packet,
         pc[s] = "idle", sent[s] < MaxSent, p.from = s, p.n = sent[s] + 1, ~p.waited,
         sent' = [sent EXCEPT ![s] = @ + 1],
         connected, Fits(p), buffer' = Append(buffer, p),
         UNCHANGED <<wire, queue, lock, connected, stalled, pc, hand>>
  PROVE  Inv'
<1>0. TypeOK
  BY DEF Inv
<1>1. /\ sent \in [Sender -> 0 .. MaxSent] /\ sent' \in [Sender -> 0 .. MaxSent]
      /\ sent'[s] = sent[s] + 1 /\ \A r \in Sender \ {s} : sent'[r] = sent[r]
      /\ MaxSent \in Nat
  BY <1>0, SizeAssumption DEF TypeOK
<1>2. TypeOK'
  <2>1. buffer' \in Seq(Packet) /\ Units(buffer') = Units(buffer) + p.size
    BY <1>0, Lines, AppendProperties, UnitsAppend
  <2> QED BY <1>0, <1>1, <2>1 DEF TypeOK, Fits
<1>3. Waited'
  BY DEF Inv, Waited
<1>4. All' = Append(Out, p) \o queue
  <2>1. wire \o Append(buffer, p) = Append(wire \o buffer, p)
    BY <1>0, Lines, ConcatAppend
  <2> QED BY <2>1 DEF Out, All
<1> DEFINE a == Len(Out)
           b == Len(queue)
<1>5. /\ DOMAIN All' = 1 .. a + 1 + b /\ DOMAIN All = 1 .. a + b
      /\ DOMAIN queue = 1 .. b /\ a \in Nat /\ b \in Nat
      /\ \A i \in 1 .. a : All'[i] = All[i]
      /\ All'[a + 1] = p
      /\ \A i \in 1 .. b : All'[a + 1 + i] = All[a + i] /\ All[a + i] = queue[i]
      /\ All' \in Seq(Packet)
  BY <1>0, <1>4, Lines, Inserted, LenProperties DEF All
<1> HIDE DEF a, b
<1>n. a \in Nat /\ b \in Nat
  BY <1>5
<1>6. ASSUME NEW i \in DOMAIN All'
      PROVE  \/ i \in 1 .. a /\ i \in DOMAIN All /\ All'[i] = All[i]
             \/ i = a + 1 /\ All'[i] = p
             \/ i \in a + 2 .. a + 1 + b /\ i - 1 \in DOMAIN All /\ All'[i] = All[i - 1] /\ All'[i].waited
  <2>1. i \in 1 .. a + 1 + b
    BY <1>5
  <2>2. CASE i <= a
    BY <1>5, <2>1, <2>2
  <2>3. CASE i = a + 1
    BY <1>5, <2>3
  <2>4. CASE i > a + 1
    <3>1. i - (a + 1) \in 1 .. b /\ a + 1 + (i - (a + 1)) = i /\ a + (i - (a + 1)) = i - 1
      <4>1. i \in a + 2 .. a + 1 + b
        BY <1>n, <2>1, <2>4
      <4> QED BY <1>n, <4>1, Shift
    <3>2. All'[i] = All[i - 1] /\ All[i - 1] = queue[i - (a + 1)]
      BY <1>5, <3>1
    <3>3. queue[i - (a + 1)].waited
      BY <1>5, <3>1 DEF Inv, Waited
    <3> QED BY <1>5, <2>1, <2>4, <3>2, <3>3
  <2> QED BY <1>5, <2>1, <2>2, <2>3, <2>4
<1>7. ASSUME NEW i \in DOMAIN All
      PROVE  /\ All[i] \in Packet /\ All[i].n <= sent[All[i].from]
             /\ \E j \in DOMAIN All' : All'[j] = All[i]
  <2>1. All[i] \in Packet /\ All[i].n <= sent[All[i].from]
    BY <1>0, Lines, LenProperties DEF Inv, Known
  <2>2. CASE i <= a
    BY <1>5, <2>1, <2>2
  <2>3. CASE i > a
    <3>1. i - a \in 1 .. b /\ a + (i - a) = i /\ a + 1 + (i - a) \in 1 .. a + 1 + b
      BY <1>5, <2>3
    <3>2. All'[a + 1 + (i - a)] = All[i]
      BY <1>5, <3>1
    <3> QED BY <1>5, <2>1, <3>1, <3>2
  <2> QED BY <1>5, <2>2, <2>3
<1>8. InOrder(All)'
  <2> SUFFICES ASSUME NEW i \in DOMAIN All', NEW j \in DOMAIN All',
                      i < j, All'[i].from = All'[j].from, All'[i].waited = All'[j].waited
               PROVE  All'[i].n < All'[j].n
    BY DEF InOrder
  <2>1. i # a + 1
    <3> SUFFICES ASSUME i = a + 1 PROVE FALSE
      OBVIOUS
    <3>1. i \in 1 .. a + 1 + b /\ j \in 1 .. a + 1 + b /\ ~ (j <= a + 1)
      BY <1>5
    <3>2. All'[i] = p
      BY <1>5
    <3>3. j \notin 1 .. a /\ j # a + 1
      BY <1>n, <3>1
    <3>4. All'[j].waited
      BY <1>6, <3>3
    <3> QED BY <3>2, <3>4
  <2>2. CASE j = a + 1
    <3>1. i \in DOMAIN All /\ All'[i] = All[i] /\ All'[j] = p
      BY <1>5, <1>6, <2>2
    <3> QED BY <1>1, <1>7, <3>1, PacketType
  <2>3. CASE i # a + 1 /\ j # a + 1
    <3> DEFINE Old(x) == IF x <= a THEN x ELSE x - 1
    <3>1. /\ Old(i) \in DOMAIN All /\ All'[i] = All[Old(i)]
          /\ Old(j) \in DOMAIN All /\ All'[j] = All[Old(j)]
      BY <1>n, <1>6, <2>3
    <3>2. i \in Int /\ j \in Int
      BY <1>5
    <3>3. Old(i) < Old(j)
      BY <1>n, <2>3, <3>2
    <3> HIDE DEF Old
    <3> QED BY <3>3, <3>1 DEF Inv, InOrder
  <2> QED BY <1>5, <2>1, <2>2, <2>3
<1>9. NoCopies(All)'
  <2> SUFFICES ASSUME NEW i \in DOMAIN All', NEW j \in DOMAIN All',
                      All'[i].from = All'[j].from, All'[i].n = All'[j].n
               PROVE  i = j
    BY DEF NoCopies
  <2>1. ASSUME NEW k \in DOMAIN All', All'[k].from = s, k # a + 1
        PROVE  All'[k].n # sent[s] + 1
    <3>1. PICK l \in DOMAIN All : All'[k] = All[l]
      BY <1>5, <1>6, <2>1
    <3> QED BY <1>1, <1>7, <2>1, <3>1, PacketType
  <2>2. CASE i = a + 1 \/ j = a + 1
    BY <1>5, <2>1, <2>2
  <2>3. CASE i # a + 1 /\ j # a + 1
    <3> DEFINE Old(x) == IF x <= a THEN x ELSE x - 1
    <3>1. /\ Old(i) \in DOMAIN All /\ All'[i] = All[Old(i)]
          /\ Old(j) \in DOMAIN All /\ All'[j] = All[Old(j)]
      BY <1>n, <1>6, <2>3
    <3>2. i \in Int /\ j \in Int
      BY <1>5
    <3>3. Old(i) = Old(j) => i = j
      BY <1>n, <2>3, <3>2
    <3> HIDE DEF Old
    <3> QED BY <3>1, <3>3 DEF Inv, NoCopies
  <2> QED BY <2>2, <2>3
<1>10. Known(All)'
  <2> SUFFICES ASSUME NEW i \in DOMAIN All' PROVE All'[i].n <= sent'[All'[i].from]
    BY DEF Known
  <2>1. CASE i = a + 1
    BY <1>1, <1>5, <2>1
  <2>2. CASE i # a + 1
    <3>1. PICK l \in DOMAIN All : All'[i] = All[l]
      BY <1>5, <1>6, <2>2
    <3> QED BY <1>1, <1>7, <3>1, PacketType
  <2> QED BY <2>1, <2>2
<1>11. Hands'
  <2> SUFFICES ASSUME NEW r \in Sender
               PROVE  (pc[r] = "queue" <=> hand[r] # <<>>) /\ InHand(r)'
    BY DEF Hands
  <2>1. (pc[r] = "queue" <=> hand[r] # <<>>) /\ InHand(r)
    BY DEF Inv, Hands
  <2>2. CASE r = s
    BY <2>1, <2>2 DEF InHand
  <2>3. CASE r # s
    <3>1. ASSUME NEW i \in DOMAIN All', All'[i].from = r
          PROVE  \E l \in DOMAIN All : All'[i] = All[l]
      BY <1>5, <1>6, <2>3, <3>1
    <3> QED BY <1>1, <2>1, <2>3, <3>1 DEF InHand
  <2> QED BY <2>2, <2>3
<1>12. Kept'
  <2> SUFFICES ASSUME NEW r \in Sender, NEW n \in 1 .. sent'[r]
               PROVE  Found(r, n)'
    BY DEF Kept
  <2>1. CASE r = s /\ n = sent[s] + 1
    <3>1. a + 1 \in DOMAIN All' /\ All'[a + 1].from = r /\ All'[a + 1].n = n
      BY <1>n, <1>5, <2>1
    <3> QED BY <3>1 DEF Found
  <2>2. CASE ~ (r = s /\ n = sent[s] + 1)
    <3>1. n \in 1 .. sent[r]
      BY <1>1, <2>2
    <3>2. Found(r, n)
      BY <3>1 DEF Inv, Kept
    <3>3. CASE \E i \in DOMAIN All : All[i].from = r /\ All[i].n = n
      BY <1>7, <3>3 DEF Found
    <3>4. CASE hand[r] # <<>> /\ n = sent[r]
      <4>1. r # s
        BY <3>4 DEF Inv, Hands
      <4> QED BY <1>1, <3>4, <4>1 DEF Found
    <3> QED BY <3>2, <3>3, <3>4 DEF Found
  <2> QED BY <2>1, <2>2
<1> QED BY <1>2, <1>3, <1>8, <1>9, <1>10, <1>11, <1>12 DEF Inv

\* The packet is dropped, as the socket is not connected.
LEMMA DroppedInv ==
  ASSUME Inv, NEW s \in Sender, pc[s] = "idle", sent[s] < MaxSent, ~connected,
         sent' = [sent EXCEPT ![s] = @ + 1],
         UNCHANGED <<buffer, wire, queue, lock, connected, stalled, pc, hand>>
  PROVE  Inv'
<1>0. TypeOK
  BY DEF Inv
<1>1. /\ sent \in [Sender -> 0 .. MaxSent] /\ sent' \in [Sender -> 0 .. MaxSent]
      /\ sent'[s] = sent[s] + 1 /\ \A r \in Sender \ {s} : sent'[r] = sent[r]
      /\ MaxSent \in Nat
  BY <1>0, SizeAssumption DEF TypeOK
<1>2. TypeOK'
  BY <1>0, <1>1 DEF TypeOK
<1>3. All' = All
  BY DEF All, Out
<1>4. InOrder(All)' /\ NoCopies(All)' /\ Waited' /\ Kept'
  BY <1>3 DEF Inv, InOrder, NoCopies, Waited, Kept
<1>5. Known(All)'
  <2> SUFFICES ASSUME NEW i \in DOMAIN All PROVE All[i].n <= sent'[All[i].from]
    BY <1>3 DEF Known
  <2>1. All[i] \in Packet /\ All[i].n <= sent[All[i].from]
    BY <1>0, Lines, LenProperties DEF Inv, Known
  <2>2. All[i].from \in Sender /\ All[i].n \in Int
    BY <2>1, PacketType
  <2>3. sent[All[i].from] \in Int /\ sent[All[i].from] <= sent'[All[i].from]
    BY <1>1, <2>2
  <2> QED BY <1>1, <2>1, <2>2, <2>3
<1>6. Hands'
  BY <1>1, <1>3 DEF Inv, Hands, InHand
<1> QED BY <1>2, <1>4, <1>5, <1>6 DEF Inv

\* The packet finds no room: its sender has it.
LEMMA RefusedInv ==
  ASSUME Inv, NEW s \in Sender, NEW p \in Packet,
         pc[s] = "idle", sent[s] < MaxSent, p.from = s, p.n = sent[s] + 1, ~p.waited,
         sent' = [sent EXCEPT ![s] = @ + 1],
         hand' = [hand EXCEPT ![s] = <<p>>], pc' = [pc EXCEPT ![s] = "queue"],
         UNCHANGED <<buffer, wire, queue, lock, connected, stalled>>
  PROVE  Inv'
<1>0. TypeOK
  BY DEF Inv
<1>1. /\ sent \in [Sender -> 0 .. MaxSent] /\ sent' \in [Sender -> 0 .. MaxSent]
      /\ sent'[s] = sent[s] + 1 /\ \A r \in Sender \ {s} : sent'[r] = sent[r]
      /\ MaxSent \in Nat
  BY <1>0, SizeAssumption DEF TypeOK
<1>2. /\ hand'[s] = <<p>> /\ hand'[s] # <<>> /\ \A r \in Sender \ {s} : hand'[r] = hand[r]
      /\ pc'[s] = "queue" /\ \A r \in Sender \ {s} : pc'[r] = pc[r]
  BY <1>0 DEF TypeOK
<1>3. TypeOK'
  <2>1. <<p>> \in Seq(Packet) /\ Len(<<p>>) = 1
    OBVIOUS
  <2>2. hand' \in [Sender -> Seq(Packet)] /\ \A r \in Sender : Len(hand'[r]) <= 1
    BY <1>0, <1>2, <2>1 DEF TypeOK
  <2>3. pc' \in [Sender \cup {Updater} -> {"idle", "queue", "flush"}]
    BY <1>0 DEF TypeOK
  <2> QED BY <1>0, <1>1, <2>2, <2>3 DEF TypeOK
<1>4. All' = All
  BY DEF All, Out
<1>5. InOrder(All)' /\ NoCopies(All)' /\ Waited'
  BY <1>4 DEF Inv, InOrder, NoCopies, Waited
<1>6. ASSUME NEW i \in DOMAIN All
      PROVE  /\ All[i].from \in Sender /\ All[i].n \in Int
             /\ All[i].n <= sent[All[i].from]
  <2>1. All[i] \in Packet /\ All[i].n <= sent[All[i].from]
    BY <1>0, Lines, LenProperties DEF Inv, Known
  <2> QED BY <2>1, PacketType
<1>7. Known(All)'
  <2> SUFFICES ASSUME NEW i \in DOMAIN All PROVE All[i].n <= sent'[All[i].from]
    BY <1>4 DEF Known
  <2>1. sent[All[i].from] \in Int /\ sent[All[i].from] <= sent'[All[i].from]
    BY <1>1, <1>6
  <2> QED BY <1>1, <1>6, <2>1
<1>8. Hands'
  <2> SUFFICES ASSUME NEW r \in Sender
               PROVE  (pc'[r] = "queue" <=> hand'[r] # <<>>) /\ InHand(r)'
    BY DEF Hands
  <2>1. CASE r = s
    <3>1. hand'[r] = <<p>> /\ hand'[r] # <<>> /\ hand'[r][1] = p
      BY <1>2, <2>1
    <3>2. \A i \in DOMAIN All' : All'[i].from = s => All'[i].n < sent'[s]
      BY <1>1, <1>4, <1>6
    <3> QED BY <1>1, <1>2, <2>1, <3>1, <3>2 DEF InHand
  <2>2. CASE r # s
    BY <1>1, <1>2, <1>4, <2>2 DEF Inv, Hands, InHand
  <2> QED BY <2>1, <2>2
<1>9. Kept'
  <2> SUFFICES ASSUME connected, NEW r \in Sender, NEW n \in 1 .. sent'[r]
               PROVE  Found(r, n)'
    BY DEF Kept
  <2>1. CASE r = s /\ n = sent[s] + 1
    <3> QED BY <1>1, <1>2, <2>1 DEF Found
  <2>2. CASE ~ (r = s /\ n = sent[s] + 1)
    <3>1. n \in 1 .. sent[r]
      BY <1>1, <2>2
    <3>2. Found(r, n)
      BY <3>1 DEF Inv, Kept
    <3>3. hand[r] # <<>> => r # s
      BY DEF Inv, Hands
    <3> QED BY <1>1, <1>2, <1>4, <3>2, <3>3 DEF Found
  <2> QED BY <2>1, <2>2
<1> QED BY <1>3, <1>5, <1>7, <1>8, <1>9 DEF Inv

\* It goes to the end of the queue.
LEMMA QueuedInv ==
  ASSUME Inv, NEW s \in Sender, QueuePacket(s)
  PROVE  Inv'
<1> DEFINE p == [hand[s][1] EXCEPT !.waited = TRUE]
           l == Len(All)
<1>0. TypeOK
  BY DEF Inv
<1>1. /\ hand[s] # <<>> /\ hand[s][1] \in Packet
      /\ hand[s][1].from = s /\ hand[s][1].n = sent[s]
      /\ \A i \in DOMAIN All : All[i].from = s => All[i].n < sent[s]
  BY DEF QueuePacket, Inv, Hands, InHand
<1>2. p \in Packet /\ p.from = s /\ p.n = sent[s] /\ p.waited = TRUE
  BY <1>1 DEF Packet
<1> HIDE DEF p
<1>3. /\ queue' = Append(queue, p) /\ UNCHANGED <<buffer, wire, lock, connected, stalled, sent>>
      /\ hand'[s] = <<>> /\ \A r \in Sender \ {s} : hand'[r] = hand[r]
      /\ pc'[s] = "idle" /\ \A r \in Sender \ {s} : pc'[r] = pc[r]
  BY <1>0 DEF QueuePacket, p, TypeOK
<1>4. queue' \in Seq(Packet) /\ Waited'
  <2>1. /\ queue' \in Seq(Packet) /\ Len(queue') = Len(queue) + 1
        /\ \A i \in 1 .. Len(queue) : queue'[i] = queue[i]
        /\ queue'[Len(queue) + 1] = p
        /\ DOMAIN queue = 1 .. Len(queue) /\ DOMAIN queue' = 1 .. Len(queue) + 1
        /\ Len(queue) \in Nat
    BY <1>0, <1>2, <1>3, Lines, AppendProperties, LenProperties
  <2>2. ASSUME NEW i \in DOMAIN queue' PROVE queue'[i].waited
    BY <1>2, <2>1 DEF Inv, Waited
  <2> QED BY <2>1, <2>2 DEF Waited
<1>5. TypeOK'
  <2>1. <<>> \in Seq(Packet) /\ Len(<<>>) = 0
    OBVIOUS
  <2>2. hand' \in [Sender -> Seq(Packet)] /\ \A r \in Sender : Len(hand'[r]) <= 1
    BY <1>0, <2>1 DEF TypeOK, QueuePacket
  <2>3. pc' \in [Sender \cup {Updater} -> {"idle", "queue", "flush"}]
    BY <1>0 DEF TypeOK, QueuePacket
  <2> QED BY <1>0, <1>3, <1>4, <2>2, <2>3 DEF TypeOK
<1>6. All' = Append(All, p)
  BY <1>0, <1>2, <1>3, Lines, ConcatAppend DEF All, Out
<1>7. /\ DOMAIN All = 1 .. l /\ DOMAIN All' = 1 .. l + 1 /\ l \in Nat
      /\ \A i \in 1 .. l : All'[i] = All[i]
      /\ All'[l + 1] = p
  BY <1>0, <1>2, <1>6, Lines, AppendProperties, LenProperties
<1> HIDE DEF l
<1>8. ASSUME NEW i \in DOMAIN All
      PROVE  /\ All[i].from \in Sender /\ All[i].n \in Int /\ i \in 1 .. l
             /\ All[i].n <= sent[All[i].from]
  <2>1. All[i] \in Packet /\ All[i].n <= sent[All[i].from]
    BY <1>0, Lines, LenProperties DEF Inv, Known
  <2> QED BY <1>7, <2>1, PacketType
<1>9. ASSUME NEW i \in DOMAIN All'
      PROVE  i = l + 1 \/ (i \in DOMAIN All /\ i <= l /\ All'[i] = All[i])
  BY <1>7
<1>10. \A r \in Sender : sent[r] \in Int
  BY <1>0 DEF TypeOK
<1>11. InOrder(All)'
  <2> SUFFICES ASSUME NEW i \in DOMAIN All', NEW j \in DOMAIN All',
                      i < j, All'[i].from = All'[j].from, All'[i].waited = All'[j].waited
               PROVE  All'[i].n < All'[j].n
    BY DEF InOrder
  <2>1. i # l + 1
    BY <1>7
  <2>2. CASE j = l + 1
    BY <1>1, <1>2, <1>7, <1>9, <2>1, <2>2
  <2>3. CASE j # l + 1
    BY <1>9, <2>1, <2>3 DEF Inv, InOrder
  <2> QED BY <2>2, <2>3
<1>12. NoCopies(All)'
  <2> SUFFICES ASSUME NEW i \in DOMAIN All', NEW j \in DOMAIN All',
                      All'[i].from = All'[j].from, All'[i].n = All'[j].n
               PROVE  i = j
    BY DEF NoCopies
  <2>1. ASSUME NEW k \in DOMAIN All', k # l + 1, All'[k].from = s
        PROVE  All'[k].n # sent[s]
    BY <1>1, <1>8, <1>9, <1>10, <2>1
  <2>2. CASE i = l + 1 \/ j = l + 1
    BY <1>2, <1>7, <2>1, <2>2
  <2>3. CASE i # l + 1 /\ j # l + 1
    BY <1>9, <2>3 DEF Inv, NoCopies
  <2> QED BY <2>2, <2>3
<1>13. Known(All)'
  <2> SUFFICES ASSUME NEW i \in DOMAIN All' PROVE All'[i].n <= sent[All'[i].from]
    BY <1>3 DEF Known
  <2>1. CASE i = l + 1
    BY <1>2, <1>7, <1>10, <2>1
  <2>2. CASE i # l + 1
    BY <1>8, <1>9, <2>2
  <2> QED BY <2>1, <2>2
<1>14. Hands'
  <2> SUFFICES ASSUME NEW r \in Sender
               PROVE  (pc'[r] = "queue" <=> hand'[r] # <<>>) /\ InHand(r)'
    BY DEF Hands
  <2>1. CASE r = s
    BY <1>3, <2>1 DEF InHand
  <2>2. CASE r # s
    <3>1. hand'[r] = hand[r] /\ pc'[r] = pc[r] /\ sent'[r] = sent[r]
      BY <1>3, <2>2
    <3>2. ASSUME NEW i \in DOMAIN All', All'[i].from = r
          PROVE  i \in DOMAIN All /\ All'[i] = All[i]
      BY <1>2, <1>7, <1>9, <2>2, <3>2
    <3>3. (pc[r] = "queue" <=> hand[r] # <<>>) /\ InHand(r)
      BY DEF Inv, Hands
    <3> QED BY <3>1, <3>2, <3>3 DEF InHand
  <2> QED BY <2>1, <2>2
<1>15. Kept'
  <2> SUFFICES ASSUME connected, NEW r \in Sender, NEW n \in 1 .. sent[r]
               PROVE  Found(r, n)'
    BY <1>3 DEF Kept
  <2>1. Found(r, n)
    BY DEF Inv, Kept
  <2>2. CASE \E i \in DOMAIN All : All[i].from = r /\ All[i].n = n
    <3>1. PICK i \in DOMAIN All : All[i].from = r /\ All[i].n = n
      BY <2>2
    <3>2. i \in DOMAIN All' /\ All'[i] = All[i]
      BY <1>7
    <3> QED BY <3>1, <3>2 DEF Found
  <2>3. CASE hand[r] # <<>> /\ n = sent[r] /\ r # s
    BY <1>3, <2>3 DEF Found
  <2>4. CASE n = sent[r] /\ r = s
    <3>1. l + 1 \in DOMAIN All' /\ All'[l + 1].from = r /\ All'[l + 1].n = n
      BY <1>2, <1>7, <2>4
    <3> QED BY <3>1 DEF Found
  <2> QED BY <2>1, <2>2, <2>3, <2>4 DEF Found
<1> QED BY <1>4, <1>5, <1>11, <1>12, <1>13, <1>14, <1>15 DEF Inv

\* Packets at the front of the queue are thrown away.
LEMMA KilledInv ==
  ASSUME Inv, ~connected', NEW k \in Nat, queue' \in Seq(Packet),
         Len(queue) = Len(queue') + k,
         \A i \in 1 .. Len(queue') : queue'[i] = queue[i + k],
         UNCHANGED <<buffer, wire, hand, sent>>, TypeOK',
         \A s \in Sender : pc'[s] = pc[s]
  PROVE  Inv'
<1> DEFINE a == Len(Out)
           b == Len(queue')
           Old(i) == IF i <= a THEN i ELSE i + k
<1>0. TypeOK
  BY DEF Inv
<1>1. /\ a \in Nat /\ b \in Nat
      /\ DOMAIN queue' = 1 .. b /\ DOMAIN queue = 1 .. b + k
      /\ DOMAIN All = 1 .. a + (b + k) /\ DOMAIN All' = 1 .. a + b
      /\ \A i \in 1 .. a : All'[i] = All[i]
      /\ \A i \in 1 .. b : All'[a + i] = queue'[i]
      /\ \A i \in 1 .. b + k : All[a + i] = queue[i]
  <2>1. Out' = Out
    BY DEF Out
  <2>2. Out \in Seq(Packet) /\ queue \in Seq(Packet) /\ queue' \in Seq(Packet)
    BY <1>0, Lines
  <2>3. All = Out \o queue /\ All' = Out \o queue'
    BY <2>1 DEF All
  <2>4. /\ Len(Out) \in Nat /\ DOMAIN All = 1 .. Len(Out) + Len(queue)
        /\ DOMAIN queue = 1 .. Len(queue)
        /\ \A i \in 1 .. Len(Out) : All[i] = Out[i]
        /\ \A i \in 1 .. Len(queue) : All[Len(Out) + i] = queue[i]
    BY ONLY <2>2, <2>3, Parts
  <2>5. /\ Len(queue') \in Nat /\ DOMAIN All' = 1 .. Len(Out) + Len(queue')
        /\ DOMAIN queue' = 1 .. Len(queue')
        /\ \A i \in 1 .. Len(Out) : All'[i] = Out[i]
        /\ \A i \in 1 .. Len(queue') : All'[Len(Out) + i] = queue'[i]
    BY ONLY <2>2, <2>3, Parts
  <2>6. Len(queue) = b + k
    OBVIOUS
  <2> QED BY ONLY <2>4, <2>5, <2>6
<1>. HIDE DEF a, b
<1>2. \A i \in 1 .. b : queue'[i] = queue[i + k]
  BY DEF b
<1>3. ASSUME NEW i \in DOMAIN All'
      PROVE  Old(i) \in DOMAIN All /\ All'[i] = All[Old(i)] /\ i \in Int
  <2>1. i \in 1 .. a + b /\ a \in Nat /\ b \in Nat
    BY <1>1
  <2>2. CASE i <= a
    <3>1. i \in 1 .. a /\ i \in 1 .. a + (b + k) /\ Old(i) = i
      BY <2>1, <2>2
    <3> QED BY <1>1, <3>1
  <2>3. CASE i > a
    <3>0. Old(i) = i + k
      BY <2>1, <2>3
    <3>1. /\ i - a \in 1 .. b /\ a + (i - a) = i
          /\ (i - a) + k \in 1 .. b + k /\ a + ((i - a) + k) = i + k /\ i + k \in 1 .. a + (b + k)
      BY <1>1, <2>1, <2>3
    <3>2. All'[i] = queue'[i - a] /\ All[i + k] = queue[(i - a) + k]
      BY <1>1, <3>1
    <3>3. queue'[i - a] = queue[(i - a) + k]
      BY <1>2, <3>1
    <3> QED BY <1>1, <2>1, <3>0, <3>1, <3>2, <3>3
  <2> QED BY <2>1, <2>2, <2>3
<1>4. ASSUME NEW i \in DOMAIN All', NEW j \in DOMAIN All'
      PROVE  (i < j => Old(i) < Old(j)) /\ (Old(i) = Old(j) => i = j)
  BY <1>1, <1>3
<1> HIDE DEF Old
<1>5. InOrder(All)' /\ NoCopies(All)'
  <2>1. InOrder(All)'
    BY <1>3, <1>4 DEF Inv, InOrder
  <2>2. NoCopies(All)'
    BY <1>3, <1>4 DEF Inv, NoCopies
  <2> QED BY <2>1, <2>2
<1>6. Known(All)'
  BY <1>3 DEF Inv, Known
<1>7. Waited'
  <2> SUFFICES ASSUME NEW i \in DOMAIN queue' PROVE queue'[i].waited
    BY DEF Waited
  <2>1. i \in 1 .. b /\ i + k \in DOMAIN queue
    BY <1>1
  <2> QED BY <1>2, <2>1 DEF Inv, Waited
<1>8. Hands'
  BY <1>3 DEF Inv, Hands, InHand
<1> QED BY <1>5, <1>6, <1>7, <1>8 DEF Inv, Kept

\* The flush and the worker.
LEMMA FlushInv ==
  ASSUME Inv, UpdaterStep \/ WriteCallback \/ Disconnect
  PROVE  Inv'
<1>0. TypeOK /\ Waited
  BY DEF Inv
<1>1. \A s \in Sender : s # Updater
  BY SenderAssumption
<1>2. /\ UNCHANGED <<hand, sent>>
      /\ pc' \in [Sender \cup {Updater} -> {"idle", "queue", "flush"}]
      /\ \A s \in Sender : pc'[s] = pc[s]
      /\ connected' \in BOOLEAN /\ (connected' => connected) /\ stalled' \in BOOLEAN
      /\ lock' \in {Updater, Free}
  <2>0. /\ pc \in [Sender \cup {Updater} -> {"idle", "queue", "flush"}]
        /\ connected \in BOOLEAN /\ stalled \in BOOLEAN /\ lock \in {Updater, Free}
    BY <1>0 DEF TypeOK
  <2>1. CASE UpdaterStep
    <3>1. /\ UNCHANGED <<hand, sent, connected, stalled>>
          /\ \/ UNCHANGED <<pc, lock>>
             \/ \E x \in {"idle", "flush"} : pc' = [pc EXCEPT ![Updater] = x]
          /\ lock' \in {lock, Updater, Free}
      BY <2>1 DEF UpdaterStep, StartFlush, Flush, FlushFull, FlushKill, FlushDone, EndFlush
    <3> QED BY <1>1, <2>0, <3>1
  <2>2. CASE WriteCallback \/ Disconnect
    BY <2>0, <2>2 DEF WriteCallback, Disconnect
  <2> QED BY <2>1, <2>2
<1>3. CASE UNCHANGED <<buffer, wire, queue>>
  <2>1. TypeOK'
    BY <1>0, <1>2, <1>3 DEF TypeOK
  <2>2. All' = All /\ Waited'
    BY <1>0, <1>3 DEF All, Out, Waited
  <2> QED BY <1>2, <2>1, <2>2, Still
<1>4. CASE Flush
  <2>1. /\ queue # <<>> /\ Fits(Head(queue)) /\ wire' = wire
        /\ buffer' = Append(buffer, Head(queue)) /\ queue' = Tail(queue)
    BY <1>4 DEF Flush
  <2>2. /\ Head(queue) \in Packet /\ queue' \in Seq(Packet) /\ Len(queue) \in Nat \ {0}
        /\ Len(queue') = Len(queue) - 1 /\ \A i \in 1 .. Len(queue') : queue'[i] = queue[i + 1]
        /\ DOMAIN queue = 1 .. Len(queue) /\ DOMAIN queue' = 1 .. Len(queue')
    BY <1>0, <2>1, Lines, HeadTailProperties, EmptySeq, LenProperties
  <2>3. TypeOK'
    <3>1. buffer' \in Seq(Packet) /\ Units(buffer') = Units(buffer) + Head(queue).size
      BY <1>0, <2>1, <2>2, Lines, AppendProperties, UnitsAppend
    <3> QED BY <1>0, <1>2, <2>1, <2>2, <3>1 DEF TypeOK, Fits
  <2>4. Waited'
    BY <1>0, <2>2 DEF Waited
  <2>5. All' = All
    <3>1. Out' = Append(Out, Head(queue))
      BY <1>0, <2>1, <2>2, Lines, ConcatAppend DEF Out
    <3> QED BY <1>0, <2>1, <3>1, Lines, MoveHead DEF All
  <2> QED BY <1>2, <2>3, <2>4, <2>5, Still
<1>5. CASE WriteCallback
  <2>1. /\ buffer # <<>> /\ wire' = Append(wire, Head(buffer)) /\ buffer' = Tail(buffer)
        /\ queue' = queue
    BY <1>5 DEF WriteCallback
  <2>2. Head(buffer) \in Packet /\ buffer' \in Seq(Packet)
    BY <1>0, <2>1, Lines, HeadTailProperties
  <2>3. TypeOK'
    <3>1. wire' \in Seq(Packet) /\ Units(buffer') <= Units(buffer)
      BY <1>0, <2>1, <2>2, Lines, AppendProperties, UnitsTail
    <3>2. Units(buffer) \in Nat /\ Units(buffer') \in Nat /\ Room \in Nat
      BY <1>0, <2>2, Lines, UnitsFinite, SizeAssumption
    <3> QED BY <1>0, <1>2, <2>1, <2>2, <3>1, <3>2 DEF TypeOK
  <2>4. Waited'
    BY <1>0, <2>1 DEF Waited
  <2>5. All' = All
    <3>1. Out' = Out
      BY <1>0, <2>1, Lines, MoveHead DEF Out
    <3> QED BY <2>1, <3>1 DEF All
  <2> QED BY <1>2, <2>3, <2>4, <2>5, Still
<1>6. CASE FlushKill
  <2>1. /\ queue # <<>> /\ ~connected' /\ UNCHANGED <<buffer, wire>>
        /\ queue' = IF Len(queue) = 1 THEN <<>> ELSE Tail(Tail(queue))
    BY <1>6 DEF FlushKill
  <2>2. /\ Len(queue) \in Nat \ {0} /\ Tail(queue) \in Seq(Packet)
        /\ Len(Tail(queue)) = Len(queue) - 1
        /\ \A i \in 1 .. Len(Tail(queue)) : Tail(queue)[i] = queue[i + 1]
    BY <1>0, <2>1, Lines, HeadTailProperties, EmptySeq
  <2>3. \E k \in Nat :
          /\ queue' \in Seq(Packet) /\ Len(queue) = Len(queue') + k
          /\ \A i \in 1 .. Len(queue') : queue'[i] = queue[i + k]
    <3>1. CASE Len(queue) = 1
      <4>1. queue' = <<>> /\ <<>> \in Seq(Packet) /\ Len(<<>>) = 0
        BY <2>1, <3>1, EmptySeq
      <4>2. Len(queue) = Len(queue') + 1 /\ 1 .. Len(queue') = {}
        BY <3>1, <4>1
      <4> QED BY <4>1, <4>2
    <3>2. CASE Len(queue) # 1
      <4> DEFINE t == Tail(queue)
      <4>1. t \in Seq(Packet) /\ t # <<>> /\ queue' = Tail(t) /\ Len(t) = Len(queue) - 1
        <5>1. Len(t) \in Nat \ {0}
          BY <2>2, <3>2
        <5>2. t # <<>>
          BY <5>1, EmptySeq
        <5> QED BY <2>1, <2>2, <3>2, <5>2
      <4> HIDE DEF t
      <4>2. /\ queue' \in Seq(Packet) /\ Len(queue') = Len(t) - 1
            /\ \A i \in 1 .. Len(queue') : queue'[i] = t[i + 1]
        BY <4>1, HeadTailProperties
      <4>3. ASSUME NEW i \in 1 .. Len(queue')
            PROVE  queue'[i] = queue[i + 2]
        <5>1. i + 1 \in 1 .. Len(t) /\ (i + 1) + 1 = i + 2
          BY <2>2, <4>1, <4>2
        <5>2. t[i + 1] = queue[(i + 1) + 1]
          BY <2>2, <5>1 DEF t
        <5> QED BY <4>2, <5>1, <5>2
      <4>4. Len(queue) = Len(queue') + 2
        <5>1. /\ Len(queue) \in Nat /\ Len(t) = Len(queue) - 1
              /\ Len(queue') = Len(t) - 1
          BY <2>2, <4>1, <4>2
        <5> QED BY ONLY <5>1
      <4> QED BY <4>2, <4>3, <4>4
    <3> QED BY <3>1, <3>2
  <2>4. TypeOK'
    BY <1>0, <1>2, <2>1, <2>3 DEF TypeOK
  <2> QED BY <1>2, <2>1, <2>3, <2>4, KilledInv
<1> QED BY <1>3, <1>4, <1>5, <1>6
        DEF UpdaterStep, StartFlush, FlushFull, FlushDone, Disconnect

LEMMA NextInv == Inv /\ [Next]_vars => Inv'
<1> SUFFICES ASSUME Inv, [Next]_vars PROVE Inv'
  OBVIOUS
<1>1. ASSUME NEW s \in Sender, NEW p \in Packet, OutPacket(s, p)
      PROVE  Inv'
  <2>1. CASE ~connected
    BY <1>1, <2>1, DroppedInv DEF OutPacket
  <2>2. CASE connected /\ Fits(p)
    BY <1>1, <2>2, WrittenInv DEF OutPacket
  <2>3. CASE connected /\ ~Fits(p)
    BY <1>1, <2>3, RefusedInv DEF OutPacket
  <2> QED BY <2>1, <2>2, <2>3
<1>2. ASSUME NEW s \in Sender, QueuePacket(s)
      PROVE  Inv'
  BY <1>2, QueuedInv
<1>3. CASE UpdaterStep \/ WriteCallback \/ Disconnect
  BY <1>3, FlushInv
<1>4. CASE UNCHANGED vars
  <2>1. TypeOK' /\ Waited' /\ All' = All
    BY <1>4 DEF vars, Inv, TypeOK, Waited, All, Out
  <2> QED BY <1>4, <2>1, Still DEF vars
<1> QED BY <1>1, <1>2, <1>3, <1>4 DEF Next

\* WorldSocket's packets and the write buffer keep this invariant.
THEOREM QueueInvariance == Spec => []Inv
<1> QED BY InitInv, NextInv, PTL DEF Spec

-----------------------------------------------------------------------------
\* A packet of a connected socket is in one place.
LEMMA OnePlace == Inv => NothingLost
<1> SUFFICES ASSUME Inv, connected, NEW s \in Sender, NEW n \in 1 .. MaxSent, n <= sent[s]
             PROVE  \E i \in DOMAIN (All \o hand[s]) : Copies(s, n, All \o hand[s]) = {i}
  BY DEF NothingLost, All, Out
<1>0. TypeOK /\ NoCopies(All) /\ InHand(s)
  BY DEF Inv, Hands
<1>1. n \in 1 .. sent[s] /\ sent[s] \in Int
  BY <1>0, SizeAssumption DEF TypeOK
<1>2. Found(s, n)
  BY <1>1 DEF Inv, Kept
<1> DEFINE q == All \o hand[s]
<1>3. ASSUME NEW i \in DOMAIN q, q[i].from = s, q[i].n = n,
             \A j \in DOMAIN q : q[j].from = s /\ q[j].n = n => j = i
      PROVE  Copies(s, n, q) = {i}
  BY <1>3 DEF Copies
<1>4. CASE hand[s] = <<>>
  <2>1. q = All
    BY <1>0, <1>4, Lines, ConcatEmptySeq
  <2>2. PICK i \in DOMAIN All : All[i].from = s /\ All[i].n = n
    BY <1>2, <1>4 DEF Found
  <2>3. \A j \in DOMAIN All : All[j].from = s /\ All[j].n = n => j = i
    BY <1>0, <2>2 DEF NoCopies
  <2>4. Copies(s, n, q) = {i}
    <3>1. /\ i \in DOMAIN q /\ q[i].from = s /\ q[i].n = n
          /\ \A j \in DOMAIN q : q[j].from = s /\ q[j].n = n => j = i
      BY <2>1, <2>2, <2>3
    <3> HIDE DEF q
    <3> QED BY <1>3, <3>1
  <2> QED BY <2>1, <2>2, <2>4
<1>5. CASE hand[s] # <<>>
  <2> DEFINE p == hand[s][1]
             l == Len(All)
  <2>1. /\ hand[s] = <<p>> /\ p \in Packet /\ p.from = s /\ p.n = sent[s]
        /\ \A i \in DOMAIN All : All[i].from = s => All[i].n < sent[s]
    BY <1>0, <1>5 DEF InHand
  <2> HIDE DEF p
  <2>2. q = Append(All, p)
    BY <1>0, <2>1, Lines, AppendIsConcat
  <2> HIDE DEF q
  <2>3. /\ DOMAIN All = 1 .. l /\ DOMAIN q = 1 .. l + 1 /\ l \in Nat
        /\ \A i \in 1 .. l : q[i] = All[i]
        /\ q[l + 1] = p
    BY <1>0, <2>1, <2>2, Lines, AppendProperties, LenProperties
  <2> HIDE DEF l
  <2>4. \A i \in DOMAIN All : All[i].n \in Int
    BY <1>0, Lines, LenProperties, PacketType
  <2>5. CASE n = sent[s]
    <3>1. \A j \in DOMAIN q : q[j].from = s /\ q[j].n = n => j = l + 1
      BY <1>1, <2>1, <2>3, <2>4, <2>5
    <3>2. l + 1 \in DOMAIN q /\ q[l + 1].from = s /\ q[l + 1].n = n
      BY <2>1, <2>3, <2>5
    <3> QED BY <1>3, <3>1, <3>2 DEF q
  <2>6. CASE n # sent[s]
    <3>1. PICK i \in DOMAIN All : All[i].from = s /\ All[i].n = n
      BY <1>2, <2>6 DEF Found
    <3>2. i \in DOMAIN q /\ q[i].from = s /\ q[i].n = n
      BY <2>3, <3>1
    <3>3. \A j \in DOMAIN q : q[j].from = s /\ q[j].n = n => j = i
      BY <1>0, <2>1, <2>3, <2>6, <3>1 DEF NoCopies
    <3> QED BY <1>3, <3>2, <3>3 DEF q
  <2> QED BY <2>5, <2>6
<1> QED BY <1>4, <1>5

\* The write buffer is never overfilled, and while the socket is connected every packet
\* handed to OutPacket is in exactly one place: sent, in the buffer, in the queue, or on
\* its way into it (WorldSocket::OutPacket, SendQueuedPackets).
THEOREM PacketsConsistent == Spec => []Consistent
<1>1. Inv => Consistent
  BY OnePlace DEF Inv, Consistent
<1> QED BY <1>1, QueueInvariance, PTL

\* Two packets of a thread that were both written at once, or both queued, leave in the
\* order they were sent, whatever the other threads and SendQueuedPackets do.
THEOREM WaysInOrder == Spec => []OrderWithinWay
<1>1. Inv => OrderWithinWay
  <2> SUFFICES ASSUME Inv PROVE OrderWithinWay
    OBVIOUS
  <2>1. TypeOK /\ InOrder(All)
    BY DEF Inv
  <2>2. /\ DOMAIN wire = 1 .. Len(wire) /\ Len(wire) \in Nat
        /\ \A i \in 1 .. Len(wire) : Out[i] = wire[i]
        /\ Len(Out) \in Nat /\ DOMAIN Out = 1 .. Len(Out)
        /\ DOMAIN Out = 1 .. Len(wire) + Len(buffer) /\ Len(buffer) \in Nat
    BY <2>1, Lines, Parts, LenProperties DEF Out
  <2>3. /\ \A i \in 1 .. Len(Out) : All[i] = Out[i]
        /\ DOMAIN All = 1 .. Len(Out) + Len(queue) /\ Len(queue) \in Nat
    BY <2>1, Lines, Parts DEF All
  <2>4. \A i \in DOMAIN wire : i \in DOMAIN All /\ All[i] = wire[i]
    BY <2>2, <2>3
  <2> QED BY <2>1, <2>4 DEF InOrder, OrderWithinWay
<1> QED BY <1>1, QueueInvariance, PTL

=============================================================================
