----------------------- MODULE SocketBufferProofs -----------------------
(***************************************************************************)
(* Proofs about CircularBuffer, and about EpollSocket, which sends from    *)
(* one.  For every block size, set of chunks and set of counts the regions *)
(* stay apart, the free space is never reported as none before the block   *)
(* is half full, a frame is written whole, a send in flight is not         *)
(* disturbed, and the buffer implements ByteFifo.  And when every sender   *)
(* looks for room before it writes (as WorldSocket does), the send lock    *)
(* and the epoll mask always agree with what is queued, for any number of  *)
(* senders and any sizes of buffer, kernel queue and frames.               *)
(*                                                                         *)
(* First the lemmas for both: the layout that the operations of BipBuffer  *)
(* keep, the room they leave and what the buffer holds after each.         *)
(***************************************************************************)
EXTENDS CircularBuffer, EpollSocket, TLAPS

-----------------------------------------------------------------------------
\* Helpers

\* Copying bytes leaves the block a block.
LEMMA CopyType ==
  ASSUME NEW mem \in [Offset -> Byte], NEW p \in Nat, NEW data \in Seq(Byte)
  PROVE  Copy(mem, p, data) \in [Offset -> Byte]
BY SizeAssumption DEF Copy, Offset

\* The bytes of a stretch of the block are a string of bytes.
LEMMA BytesType ==
  ASSUME NEW mem \in [Offset -> Byte], NEW p \in Nat, NEW n \in Nat, p + n <= Size
  PROVE  /\ Bytes(mem, p, n) \in Seq(Byte)
         /\ Len(Bytes(mem, p, n)) = n
<1>1. \A i \in 1 .. n : mem[p + i - 1] \in Byte
  BY SizeAssumption DEF Offset
<1>2. Bytes(mem, p, n) \in [1 .. n -> Byte]
  BY <1>1 DEF Bytes
<1> QED BY <1>2

\* The choice of a region keeps the layout, up to B being there.
LEMMA SettleOK ==
  ASSUME NEW b, BufferOK(b)
  PROVE  /\ BufferOK(Settle(b))
         /\ Settle(b).aPtr = b.aPtr /\ Settle(b).aSize = b.aSize
         /\ Settle(b).bSize = b.bSize /\ Settle(b).mem = b.mem
         /\ GetSpace(b) \in Nat
         /\ Settle(Settle(b)) = Settle(b)
         /\ GetSpace(Settle(b)) = GetSpace(b)
         /\ GetBuffer(Settle(b)) \in Nat
         /\ GetBuffer(Settle(b)) + GetSpace(b) <= Size
<1> USE SizeAssumption, NullAssumption
<1>1. b.bPtr # NULL \/ b.bPtr = NULL
  OBVIOUS
<1>2. CASE b.bPtr = NULL /\ GetAFreeSpace(b) < GetSpaceBeforeA(b)
  BY <1>2 DEF BufferOK, Buffer, RegionsOK, Settle, AllocateB, GetAFreeSpace,
              GetSpaceBeforeA, GetBFreeSpace, GetSpace, GetBuffer
<1>3. CASE ~ (b.bPtr = NULL /\ GetAFreeSpace(b) < GetSpaceBeforeA(b))
  BY <1>3 DEF BufferOK, Buffer, RegionsOK, Settle, GetAFreeSpace,
              GetSpaceBeforeA, GetBFreeSpace, GetSpace, GetBuffer
<1> QED BY <1>2, <1>3

\* Data put behind the settled region.
Appended(b, data) ==
    IncrementWritten([Settle(b) EXCEPT !.mem = Copy(@, GetBuffer(Settle(b)), data)],
                     Len(data))

\* Putting data that fits behind the settled region keeps the layout, takes
\* its length off the free space at most (less when the next write will open
\* the larger region B) and adds it to the size.
LEMMA AppendOK ==
  ASSUME NEW b, BufferOK(b), NEW data \in Seq(Byte), Len(data) <= GetSpace(b)
  PROVE  /\ BufferOK(Appended(b, data))
         /\ GetSpace(Appended(b, data)) >= GetSpace(b) - Len(data)
         /\ GetSize(Appended(b, data)) = GetSize(b) + Len(data)
<1> DEFINE s == Settle(b)
           m == Copy(s.mem, GetBuffer(s), data)
           t == [s EXCEPT !.mem = m]
<1> USE SizeAssumption, NullAssumption
<1>1. BufferOK(s) /\ GetBuffer(s) \in Nat /\ GetSpace(s) = GetSpace(b) /\ Settle(s) = s
      /\ s.aSize = b.aSize /\ s.bSize = b.bSize
  BY SettleOK
<1>2. m \in [Offset -> Byte]
  BY <1>1, CopyType DEF BufferOK, Buffer
<1>3. Len(data) \in Nat
  OBVIOUS
<1> HIDE DEF s, m
<1>4. t \in Buffer /\ t.aPtr = s.aPtr /\ t.aSize = s.aSize /\ t.bPtr = s.bPtr
      /\ t.bSize = s.bSize
  BY <1>1, <1>2 DEF BufferOK, Buffer
<1>5. Appended(b, data) = IncrementWritten(t, Len(data))
  BY DEF Appended, s, m
<1> HIDE DEF t
<1>6. CASE s.bPtr = NULL
  <2> DEFINE u == [t EXCEPT !.aSize = @ + Len(data)]
  <2>1. Appended(b, data) = u
    BY <1>4, <1>5, <1>6 DEF IncrementWritten
  <2>2. Len(data) <= Size - s.aPtr - s.aSize /\ ~ (Size - s.aPtr - s.aSize < s.aPtr)
    BY <1>1, <1>6 DEF BufferOK, Buffer, RegionsOK, GetSpace, Settle, AllocateB, GetBFreeSpace,
                      GetAFreeSpace, GetSpaceBeforeA
  <2>3. BufferOK(u)
    <3>1. t.aSize + Len(data) \in 0 .. Size
      BY <1>1, <1>3, <1>4, <2>2 DEF BufferOK, Buffer
    <3>2. /\ u \in Buffer /\ u.aPtr = t.aPtr /\ u.aSize = t.aSize + Len(data)
          /\ u.bPtr = t.bPtr /\ u.bSize = t.bSize
      BY <1>4, <3>1 DEF Buffer
    <3> HIDE DEF u
    <3> QED
      BY <1>1, <1>3, <1>4, <1>6, <2>2, <3>2 DEF BufferOK, Buffer, RegionsOK
  <2>4. /\ u.aPtr = s.aPtr /\ u.aSize = s.aSize + Len(data)
        /\ u.bPtr = NULL /\ u.bSize = 0 /\ s.bSize = 0
        /\ u.aPtr \in Nat /\ u.aSize \in Nat /\ s.aSize \in Nat
        /\ GetSpace(b) = Size - s.aPtr - s.aSize
    BY <1>1, <1>3, <1>4, <1>6
       DEF BufferOK, Buffer, RegionsOK, GetSpace, GetAFreeSpace
  <2> HIDE DEF u
  <2>5. GetSpace(u) >= GetSpace(b) - Len(data)
    <3>1. CASE Size - u.aPtr - u.aSize < u.aPtr
      <4>1. Settle(u).bPtr = 0 /\ Settle(u).aPtr = u.aPtr /\ Settle(u).bSize = 0
        BY <2>3, <2>4, <3>1
           DEF BufferOK, Buffer, Settle, AllocateB, GetAFreeSpace, GetSpaceBeforeA
      <4> QED BY <1>3, <2>4, <3>1, <4>1 DEF GetSpace, GetBFreeSpace
    <3>2. CASE ~ (Size - u.aPtr - u.aSize < u.aPtr)
      BY <1>3, <2>4, <3>2 DEF GetSpace, Settle, GetAFreeSpace, GetSpaceBeforeA
    <3> QED BY <3>1, <3>2
  <2> QED
    BY <1>1, <1>3, <2>1, <2>3, <2>4, <2>5 DEF GetSize
<1>7. CASE s.bPtr # NULL
  <2> DEFINE u == [t EXCEPT !.bSize = @ + Len(data)]
  <2>1. Appended(b, data) = u
    BY <1>4, <1>5, <1>7 DEF IncrementWritten
  <2>2. Len(data) <= s.aPtr - s.bSize
    BY <1>1, <1>7 DEF BufferOK, Buffer, RegionsOK, GetSpace, Settle, GetBFreeSpace
  <2>3. t.bSize + Len(data) \in 0 .. Size
    BY <1>1, <1>3, <1>4, <1>7, <2>2 DEF BufferOK, Buffer, RegionsOK
  <2>4. /\ u \in Buffer /\ u.aPtr = t.aPtr /\ u.aSize = t.aSize
        /\ u.bPtr = t.bPtr /\ u.bSize = t.bSize + Len(data)
    BY <1>4, <2>3 DEF Buffer
  <2> HIDE DEF u
  <2>5. BufferOK(u)
    BY <1>1, <1>3, <1>4, <1>7, <2>2, <2>4 DEF BufferOK, Buffer, RegionsOK, GetAFreeSpace
  <2>6. GetSpace(u) = u.aPtr - 0 - u.bSize /\ GetSpace(b) = s.aPtr - 0 - s.bSize
    <3>1. s.bPtr = 0 /\ u.bPtr = 0
      BY <1>1, <1>4, <1>7, <2>4 DEF BufferOK, RegionsOK
    <3>2. Settle(u) = u
      BY <1>7, <1>4, <2>4 DEF Settle
    <3> QED BY <1>1, <1>7, <3>1, <3>2 DEF GetSpace, GetBFreeSpace
  <2>7. u.aSize + u.bSize = b.aSize + b.bSize + Len(data)
    BY <1>1, <1>3, <1>4, <2>4 DEF BufferOK, Buffer
  <2> QED
    BY <1>1, <1>3, <1>4, <2>1, <2>4, <2>5, <2>6, <2>7 DEF BufferOK, Buffer, GetSize
<1> QED BY <1>6, <1>7

\* Write keeps the layout.
LEMMA WriteOK ==
  ASSUME NEW b, BufferOK(b), NEW data \in Seq(Byte)
  PROVE  BufferOK(Write(b, data))
BY SettleOK, AppendOK DEF Write, CanWrite, Appended

\* Remove keeps the layout: A is never left empty in front of B.
LEMMA RemoveOK ==
  ASSUME NEW b, BufferOK(b), NEW n \in Nat
  PROVE  BufferOK(Remove(b, n))
<1> USE SizeAssumption, NullAssumption
<1> DEFINE a == FromA(b, n)
           k == FromB(b, n)
           t == [b EXCEPT !.aPtr  = @ + a, !.aSize = @ - a,
                          !.bPtr  = IF k > 0 THEN @ + k ELSE @, !.bSize = @ - k]
<1>1. b \in Buffer /\ RegionsOK(b)
  BY DEF BufferOK
<1>2. a \in 0 .. b.aSize /\ k \in 0 .. b.bSize /\ (b.aSize - a > 0 => k = 0)
  BY <1>1 DEF FromA, FromB, Lesser, Buffer
<1>3. Remove(b, n) = Compact(t)
  BY DEF Remove
<1> HIDE DEF a, k
<1>4. k > 0 => b.bPtr = 0
  BY <1>1, <1>2 DEF RegionsOK, Buffer
<1>5. /\ t.aPtr = b.aPtr + a /\ t.aSize = b.aSize - a /\ t.bSize = b.bSize - k
      /\ t.bPtr = (IF k > 0 THEN b.bPtr + k ELSE b.bPtr)
      /\ t.mem = b.mem
      /\ t \in Buffer
  <2>1. b.aPtr + a \in 0 .. Size /\ b.aSize - a \in 0 .. Size /\ b.bSize - k \in 0 .. Size
    BY <1>1, <1>2 DEF Buffer, RegionsOK
  <2>2. (IF k > 0 THEN b.bPtr + k ELSE b.bPtr) \in (0 .. Size) \cup {NULL}
    BY <1>1, <1>2, <1>4 DEF Buffer, RegionsOK
  <2> DEFINE p == IF k > 0 THEN b.bPtr + k ELSE b.bPtr
  <2>3. t = [b EXCEPT !.aPtr = b.aPtr + a, !.aSize = b.aSize - a,
                      !.bPtr = p, !.bSize = b.bSize - k]
    OBVIOUS
  <2> HIDE DEF p, t
  <2> QED BY <1>1, <2>1, <2>2, <2>3 DEF Buffer, p
<1> HIDE DEF t
<1>6. CASE t.aSize > 0
  <2>1. Compact(t) = t
    BY <1>6 DEF Compact
  <2> QED BY <1>1, <1>2, <1>3, <1>5, <1>6, <2>1 DEF BufferOK, RegionsOK, Buffer, GetAFreeSpace
<1>7. CASE ~ (t.aSize > 0)
  <2> DEFINE m == IF t.bSize > 0 THEN Copy(t.mem, 0, Bytes(t.mem, t.bPtr, t.bSize)) ELSE t.mem
  <2>1. m \in [Offset -> Byte]
    <3>1. CASE t.bSize > 0
      <4>1. t.bPtr \in Nat /\ t.bSize \in Nat /\ t.bPtr + t.bSize <= Size
        BY <1>1, <1>2, <1>4, <1>5, <3>1 DEF RegionsOK, Buffer
      <4>2. Bytes(t.mem, t.bPtr, t.bSize) \in Seq(Byte)
        BY <1>5, <4>1, BytesType DEF Buffer
      <4> QED BY <1>5, <3>1, <4>2, CopyType DEF Buffer
    <3>2. CASE ~ (t.bSize > 0)
      BY <1>5, <3>2 DEF Buffer
    <3> QED BY <3>1, <3>2
  <2> DEFINE r == [mem |-> m, aPtr |-> 0, aSize |-> t.bSize, bPtr |-> NULL, bSize |-> 0]
  <2>2. Compact(t) = r
    BY <1>7, <1>5 DEF Compact, Buffer
  <2> HIDE DEF m
  <2>3. /\ r \in Buffer /\ r.aPtr = 0 /\ r.aSize = t.bSize /\ r.bPtr = NULL
        /\ r.bSize = 0
    <3>1. 0 \in 0 .. Size /\ t.bSize \in 0 .. Size
      BY <1>5 DEF Buffer
    <3> QED BY <2>1, <3>1 DEF Buffer
  <2> HIDE DEF r
  <2>4. t.bSize \in 0 .. Size
    BY <1>5 DEF Buffer
  <2>5. BufferOK(r)
    BY <2>3, <2>4 DEF BufferOK, RegionsOK
  <2> QED BY <1>3, <2>2, <2>5 DEF r
<1> QED BY <1>6, <1>7, <1>5 DEF Buffer

\* Data put behind the regions leaves the bytes of region A, and those of
\* region B, where they are.
LEMMA AppendMem ==
  ASSUME NEW b, BufferOK(b), NEW data \in Seq(Byte), Len(data) <= GetSpace(b)
  PROVE  LET u == Appended(b, data) IN
         /\ u.aPtr = b.aPtr
         /\ u.aSize >= b.aSize
         /\ \A i \in b.aPtr .. b.aPtr + b.aSize - 1 : u.mem[i] = b.mem[i]
         /\ \A i \in 0 .. b.bSize - 1 : b.bPtr # NULL => u.mem[i] = b.mem[i]
         /\ \A i \in 1 .. Len(data) : u.mem[GetBuffer(Settle(b)) + i - 1] = data[i]
         /\ IF Settle(b).bPtr = NULL
            THEN u.aSize = b.aSize + Len(data) /\ u.bSize = b.bSize /\ u.bPtr = NULL
            ELSE u.aSize = b.aSize /\ u.bSize = b.bSize + Len(data) /\ u.bPtr = 0
<1> DEFINE s == Settle(b)
           p == GetBuffer(s)
           m == Copy(s.mem, p, data)
           t == [s EXCEPT !.mem = m]
           u == Appended(b, data)
<1> USE SizeAssumption, NullAssumption
<1>1. /\ BufferOK(s) /\ p \in Nat /\ p + Len(data) <= Size
      /\ s.aPtr = b.aPtr /\ s.aSize = b.aSize /\ s.bSize = b.bSize /\ s.mem = b.mem
      /\ GetSpace(s) = GetSpace(b) /\ Settle(s) = s
  <2>1. GetBuffer(s) + GetSpace(b) <= Size /\ GetBuffer(s) \in Nat /\ GetSpace(b) \in Nat
    BY SettleOK
  <2> QED BY SettleOK, <2>1
<1>2. Len(data) \in Nat
  OBVIOUS
<1>3. /\ \A i \in Offset : i < p \/ i >= p + Len(data) => m[i] = b.mem[i]
      /\ \A i \in 1 .. Len(data) : m[p + i - 1] = data[i]
  <2> HIDE DEF p, s
  <2>1. m = [i \in Offset |-> IF i >= p /\ i < p + Len(data) THEN data[i - p + 1] ELSE b.mem[i]]
    BY <1>1 DEF Copy
  <2> HIDE DEF m
  <2>2. \A i \in Offset : i < p \/ i >= p + Len(data) => m[i] = b.mem[i]
    BY <1>1, <1>2, <2>1 DEF Offset
  <2>3. ASSUME NEW i \in 1 .. Len(data) PROVE m[p + i - 1] = data[i]
    <3>1. p + i - 1 \in Offset /\ p + i - 1 >= p /\ p + i - 1 < p + Len(data)
          /\ (p + i - 1) - p + 1 = i
      BY <1>1, <1>2 DEF Offset
    <3> QED BY <2>1, <3>1
  <2> QED BY <2>2, <2>3
<1>4. m \in [Offset -> Byte]
  BY <1>1, CopyType DEF BufferOK, Buffer
<1>5. p = IF s.bPtr = NULL THEN b.aPtr + b.aSize ELSE b.bSize
  BY <1>1 DEF GetBuffer, BufferOK, Buffer, RegionsOK
<1>6. s.bPtr # NULL => s.bPtr = 0 /\ b.bSize + Len(data) <= b.aPtr
  BY <1>1, <1>2 DEF BufferOK, Buffer, RegionsOK, GetSpace, GetBFreeSpace
<1>7. b.bPtr # NULL => s.bPtr # NULL
  BY DEF Settle
<1> HIDE DEF s, p, m
<1>8. t \in Buffer /\ t.aPtr = s.aPtr /\ t.aSize = s.aSize /\ t.bPtr = s.bPtr
      /\ t.bSize = s.bSize /\ t.mem = m
  BY <1>1, <1>4 DEF BufferOK, Buffer
<1> HIDE DEF t
<1>9. u = IncrementWritten(t, Len(data))
  BY DEF Appended, s, m, t, p
<1>10. /\ u.mem = m /\ u.aPtr = b.aPtr
       /\ IF s.bPtr = NULL
            THEN u.aSize = b.aSize + Len(data) /\ u.bSize = b.bSize /\ u.bPtr = NULL
            ELSE u.aSize = b.aSize /\ u.bSize = b.bSize + Len(data) /\ u.bPtr = 0
  <2>1. CASE s.bPtr = NULL
    BY <1>1, <1>8, <1>9, <2>1 DEF IncrementWritten, Buffer
  <2>2. CASE s.bPtr # NULL
    BY <1>1, <1>6, <1>8, <1>9, <2>2 DEF IncrementWritten, Buffer
  <2> QED BY <2>1, <2>2
<1> HIDE DEF u
<1>11. b.aPtr \in Nat /\ b.aSize \in Nat /\ b.bSize \in Nat /\ b.aPtr + b.aSize <= Size
       /\ b.bSize <= Size /\ (b.bPtr # NULL => b.bSize <= b.aPtr)
  BY DEF BufferOK, Buffer, RegionsOK
<1>12. ASSUME NEW i \in b.aPtr .. b.aPtr + b.aSize - 1 PROVE u.mem[i] = b.mem[i]
  <2>1. i \in Offset
    BY <1>11 DEF Offset
  <2>2. i < p \/ i >= p + Len(data)
    BY <1>2, <1>5, <1>6, <1>11
  <2> QED BY <1>3, <1>10, <2>1, <2>2
<1>13. ASSUME NEW i \in 0 .. b.bSize - 1, b.bPtr # NULL PROVE u.mem[i] = b.mem[i]
  <2>1. i \in Offset
    BY <1>11 DEF Offset
  <2>2. p = b.bSize
    BY <1>5, <1>7, <1>13
  <2>3. i < p
    BY <1>11, <2>2
  <2> QED BY <1>3, <1>10, <2>1, <2>3
<1>14. u.aSize >= b.aSize
  BY <1>2, <1>10, <1>11
<1> QED BY <1>3, <1>10, <1>12, <1>13, <1>14 DEF u, s, p

\* What Read gives is a string of n bytes.
LEMMA ReadBytesType ==
  ASSUME NEW b, BufferOK(b), NEW n \in Nat, CanRead(b, n)
  PROVE  ReadBytes(b, n) \in Seq(Byte)
<1> USE SizeAssumption, NullAssumption
<1>1. /\ b.mem \in [Offset -> Byte] /\ b.aPtr \in Nat /\ b.aSize \in Nat /\ b.bSize \in Nat
      /\ b.aPtr + b.aSize <= Size
      /\ b.bSize > 0 => b.bPtr = 0 /\ b.bSize <= Size
  BY DEF BufferOK, Buffer, RegionsOK
<1>2. FromA(b, n) \in 0 .. b.aSize /\ FromB(b, n) \in 0 .. b.bSize
  BY <1>1 DEF FromA, FromB, Lesser
<1>3. Bytes(b.mem, b.aPtr, FromA(b, n)) \in Seq(Byte)
  <2>1. FromA(b, n) \in Nat /\ b.aPtr + FromA(b, n) <= Size
    BY <1>1, <1>2
  <2> QED BY <1>1, <2>1, BytesType
<1>4. ASSUME FromB(b, n) > 0 PROVE Bytes(b.mem, b.bPtr, FromB(b, n)) \in Seq(Byte)
  <2>1. b.bPtr = 0 /\ FromB(b, n) \in Nat /\ 0 + FromB(b, n) <= Size
    BY <1>1, <1>2, <1>4
  <2> QED BY <1>1, <2>1, BytesType
<1> QED BY <1>3, <1>4 DEF ReadBytes

-----------------------------------------------------------------------------
\* What the buffer holds

\* The i-th queued byte.
ByteAt(b, i) ==
    IF i <= b.aSize THEN b.mem[b.aPtr + i - 1] ELSE b.mem[i - b.aSize - 1]

LEMMA ContentAt ==
  ASSUME NEW b, BufferOK(b)
  PROVE  /\ Content(b) \in Seq(Byte)
         /\ Len(Content(b)) = GetSize(b)
         /\ GetSize(b) \in Nat
         /\ \A i \in 1 .. GetSize(b) : Content(b)[i] = ByteAt(b, i)
<1> USE SizeAssumption, NullAssumption
<1>1. /\ b.mem \in [Offset -> Byte] /\ b.aPtr \in Nat /\ b.aSize \in Nat /\ b.bSize \in Nat
      /\ b.aPtr + b.aSize <= Size
      /\ b.bSize > 0 => b.bPtr = 0 /\ b.bSize <= Size
  BY DEF BufferOK, Buffer, RegionsOK
<1> DEFINE sa == Bytes(b.mem, b.aPtr, b.aSize)
           sb == IF b.bSize > 0 THEN Bytes(b.mem, b.bPtr, b.bSize) ELSE <<>>
<1>2. sa \in Seq(Byte) /\ Len(sa) = b.aSize
  BY <1>1, BytesType
<1>3. sb \in Seq(Byte) /\ Len(sb) = b.bSize
  <2>1. CASE b.bSize > 0
    <3>1. b.bPtr \in Nat /\ b.bSize \in Nat /\ b.bPtr + b.bSize <= Size
      BY <1>1, <2>1
    <3>2. sb = Bytes(b.mem, b.bPtr, b.bSize)
      BY <2>1
    <3> HIDE DEF sb
    <3> QED BY <1>1, <3>1, <3>2, BytesType
  <2>2. CASE b.bSize = 0
    BY <2>2
  <2> QED BY <1>1, <2>1, <2>2
<1>4. \A i \in 1 .. b.aSize : sa[i] = b.mem[b.aPtr + i - 1]
  BY DEF Bytes
<1>5. \A i \in 1 .. b.bSize : sb[i] = b.mem[i - 1]
  BY <1>1 DEF Bytes
<1>6. Content(b) = sa \o sb
  BY DEF Content
<1> HIDE DEF sa, sb
<1>7. /\ Content(b) \in Seq(Byte) /\ Len(Content(b)) = b.aSize + b.bSize
      /\ \A i \in 1 .. b.aSize + b.bSize :
            Content(b)[i] = IF i <= b.aSize THEN sa[i] ELSE sb[i - b.aSize]
  <2>1. sa \o sb \in Seq(Byte) /\ Len(sa \o sb) = Len(sa) + Len(sb)
    BY <1>2, <1>3
  <2>2. \A i \in 1 .. Len(sa) + Len(sb) :
           (sa \o sb)[i] = IF i <= Len(sa) THEN sa[i] ELSE sb[i - Len(sa)]
    BY <1>2, <1>3
  <2> QED BY <1>2, <1>3, <1>6, <2>1, <2>2
<1>8. ASSUME NEW i \in 1 .. b.aSize + b.bSize PROVE Content(b)[i] = ByteAt(b, i)
  <2>1. CASE i <= b.aSize
    BY <1>1, <1>4, <1>7, <2>1 DEF ByteAt
  <2>2. CASE ~ (i <= b.aSize)
    <3>1. i - b.aSize \in 1 .. b.bSize
      BY <1>1, <2>2
    <3> QED BY <1>5, <1>7, <2>2, <3>1 DEF ByteAt
  <2> QED BY <2>1, <2>2
<1> QED BY <1>1, <1>7, <1>8 DEF GetSize

\* Two strings of the same length and bytes are the same.
LEMMA SameBytes ==
  ASSUME NEW s \in Seq(Byte), NEW t \in Seq(Byte), Len(s) = Len(t),
         \A i \in 1 .. Len(s) : s[i] = t[i]
  PROVE  s = t
OBVIOUS

\* Appending puts the data behind what was there.
LEMMA AppendContent ==
  ASSUME NEW b, BufferOK(b), NEW data \in Seq(Byte), Len(data) <= GetSpace(b)
  PROVE  Content(Appended(b, data)) = Content(b) \o data
<1> USE SizeAssumption, NullAssumption
<1> DEFINE u == Appended(b, data)
           p == GetBuffer(Settle(b))
<1>1. BufferOK(u) /\ GetSize(u) = GetSize(b) + Len(data)
  BY AppendOK
<1>2. /\ Content(u) \in Seq(Byte) /\ Len(Content(u)) = GetSize(u)
      /\ \A i \in 1 .. GetSize(u) : Content(u)[i] = ByteAt(u, i)
  BY <1>1, ContentAt
<1>3. /\ Content(b) \in Seq(Byte) /\ Len(Content(b)) = GetSize(b) /\ GetSize(b) \in Nat
      /\ \A i \in 1 .. GetSize(b) : Content(b)[i] = ByteAt(b, i)
  BY ContentAt
<1>4. /\ u.aPtr = b.aPtr
      /\ \A i \in b.aPtr .. b.aPtr + b.aSize - 1 : u.mem[i] = b.mem[i]
      /\ \A i \in 0 .. b.bSize - 1 : b.bPtr # NULL => u.mem[i] = b.mem[i]
      /\ \A i \in 1 .. Len(data) : u.mem[p + i - 1] = data[i]
      /\ IF Settle(b).bPtr = NULL
         THEN u.aSize = b.aSize + Len(data) /\ u.bSize = b.bSize /\ u.bPtr = NULL
         ELSE u.aSize = b.aSize /\ u.bSize = b.bSize + Len(data) /\ u.bPtr = 0
  BY AppendMem
<1>5. /\ b.aPtr \in Nat /\ b.aSize \in Nat /\ b.bSize \in Nat
      /\ b.bPtr = NULL => b.bSize = 0
      /\ Settle(b).bPtr = NULL => b.bPtr = NULL
      /\ p = IF Settle(b).bPtr = NULL THEN b.aPtr + b.aSize ELSE b.bSize
  <2>1. BufferOK(Settle(b)) /\ Settle(b).aPtr = b.aPtr /\ Settle(b).aSize = b.aSize
        /\ Settle(b).bSize = b.bSize
    BY SettleOK
  <2>2. Settle(b).bPtr = NULL => b.bPtr = NULL
    BY DEF Settle
  <2> QED BY <2>1, <2>2 DEF GetBuffer, BufferOK, Buffer, RegionsOK
<1> HIDE DEF u, p
<1>6. Len(data) \in Nat /\ GetSize(b) = b.aSize + b.bSize
  BY DEF GetSize
<1>7. ASSUME NEW i \in 1 .. GetSize(u) PROVE Content(u)[i] = (Content(b) \o data)[i]
  <2>1. CASE i <= GetSize(b)
    <3>1. (Content(b) \o data)[i] = ByteAt(b, i)
      BY <1>3, <2>1, <1>6
    <3>2. ByteAt(u, i) = ByteAt(b, i)
      <4>1. CASE i <= b.aSize
        <5>1. b.aPtr + i - 1 \in b.aPtr .. b.aPtr + b.aSize - 1 /\ i <= u.aSize
          BY <1>4, <1>5, <1>6, <4>1
        <5> QED BY <1>4, <4>1, <5>1 DEF ByteAt
      <4>2. CASE ~ (i <= b.aSize)
        <5>1. i - b.aSize - 1 \in 0 .. b.bSize - 1 /\ b.bSize > 0
          BY <1>5, <1>6, <2>1, <4>2
        <5>2. b.bPtr # NULL /\ Settle(b).bPtr # NULL /\ u.aSize = b.aSize
          BY <1>4, <1>5, <5>1
        <5> QED BY <1>4, <4>2, <5>1, <5>2 DEF ByteAt
      <4> QED BY <4>1, <4>2
    <3> QED BY <1>2, <3>1, <3>2
  <2>2. CASE ~ (i <= GetSize(b))
    <3> DEFINE j == i - GetSize(b)
    <3>1. j \in 1 .. Len(data) /\ (Content(b) \o data)[i] = data[j]
      BY <1>1, <1>3, <1>6, <2>2
    <3>2. ByteAt(u, i) = u.mem[p + j - 1]
      <4>1. CASE Settle(b).bPtr = NULL
        <5>1. i <= u.aSize /\ b.bSize = 0
          BY <1>1, <1>4, <1>5, <1>6, <4>1
        <5>2. u.aPtr + i - 1 = p + j - 1
          BY <1>4, <1>5, <1>6, <4>1, <5>1
        <5> QED BY <5>1, <5>2 DEF ByteAt
      <4>2. CASE Settle(b).bPtr # NULL
        <5>1. ~ (i <= u.aSize) /\ i - u.aSize - 1 = p + j - 1
          BY <1>4, <1>5, <1>6, <2>2, <4>2
        <5> QED BY <5>1 DEF ByteAt
      <4> QED BY <4>1, <4>2
    <3> QED BY <1>2, <1>4, <3>1, <3>2
  <2> QED BY <2>1, <2>2
<1>8. Content(b) \o data \in Seq(Byte) /\ Len(Content(b) \o data) = GetSize(u)
  BY <1>1, <1>3, <1>6
<1>9. Content(u) = Content(b) \o data
  BY <1>2, <1>7, <1>8, SameBytes
<1> QED BY <1>9 DEF u

\* Where Remove leaves the bytes that stay.
LEMMA RemoveFields ==
  ASSUME NEW b, BufferOK(b), NEW n \in Nat
  PROVE  LET r == Remove(b, n)
             a == FromA(b, n)
             k == FromB(b, n)
         IN  IF a < b.aSize
             THEN /\ r.mem = b.mem /\ r.aPtr = b.aPtr + a /\ r.aSize = b.aSize - a
                  /\ r.bSize = b.bSize
             ELSE /\ r.aPtr = 0 /\ r.aSize = b.bSize - k /\ r.bSize = 0
                  /\ \A i \in 1 .. b.bSize - k : r.mem[i - 1] = b.mem[k + i - 1]
<1> USE SizeAssumption, NullAssumption
<1> DEFINE a == FromA(b, n)
           k == FromB(b, n)
           t == [b EXCEPT !.aPtr  = @ + a, !.aSize = @ - a,
                          !.bPtr  = IF k > 0 THEN @ + k ELSE @, !.bSize = @ - k]
           r == Remove(b, n)
<1>1. b \in Buffer /\ RegionsOK(b)
  BY DEF BufferOK
<1>2. a \in 0 .. b.aSize /\ k \in 0 .. b.bSize /\ (a < b.aSize => k = 0)
  BY <1>1 DEF FromA, FromB, Lesser, Buffer
<1>3. r = Compact(t)
  BY DEF Remove
<1> HIDE DEF a, k
<1>4. b.bSize > 0 => b.bPtr = 0
  BY <1>1 DEF RegionsOK, Buffer
<1>5. /\ t.aPtr = b.aPtr + a /\ t.aSize = b.aSize - a /\ t.bSize = b.bSize - k
      /\ t.bPtr = (IF k > 0 THEN b.bPtr + k ELSE b.bPtr)
      /\ t.mem = b.mem
  BY <1>1 DEF Buffer
<1> HIDE DEF t, r
<1>6. b.aSize \in Nat /\ b.bSize \in Nat /\ b.bSize <= Size /\ b.mem \in [Offset -> Byte]
  BY <1>1 DEF Buffer
<1>7. CASE a < b.aSize
  <2>1. r = t /\ k = 0
    BY <1>2, <1>3, <1>5, <1>6, <1>7 DEF Compact
  <2> QED BY <1>5, <1>6, <1>7, <2>1 DEF r, a, k
<1>8. CASE ~ (a < b.aSize)
  <2>1. r = [mem   |-> IF t.bSize > 0 THEN Copy(t.mem, 0, Bytes(t.mem, t.bPtr, t.bSize))
                                      ELSE t.mem,
             aPtr  |-> 0,    aSize |-> t.bSize,
             bPtr  |-> NULL, bSize |-> 0]
    BY <1>2, <1>3, <1>5, <1>6, <1>8 DEF Compact
  <2>2. ASSUME NEW i \in 1 .. b.bSize - k PROVE r.mem[i - 1] = b.mem[k + i - 1]
    <3>1. t.bSize > 0 /\ t.bPtr = k /\ t.bSize \in Nat
      BY <1>2, <1>4, <1>5, <1>6
    <3> DEFINE d == Bytes(b.mem, k, b.bSize - k)
    <3>2. k \in Nat /\ b.bSize - k \in Nat /\ k + (b.bSize - k) <= Size
      BY <1>2, <1>6
    <3>3. d \in Seq(Byte) /\ Len(d) = b.bSize - k
      BY <1>6, <3>2, BytesType
    <3>4. d[i] = b.mem[k + i - 1]
      BY DEF Bytes
    <3> HIDE DEF d
    <3>5. r.mem = Copy(b.mem, 0, d)
      BY <1>5, <2>1, <3>1 DEF d
    <3>6. i - 1 \in Offset /\ i - 1 >= 0 /\ i - 1 < 0 + Len(d) /\ i - 1 - 0 + 1 = i
      BY <1>2, <1>6, <3>3 DEF Offset
    <3> QED BY <3>4, <3>5, <3>6 DEF Copy
  <2>3. r.aPtr = 0 /\ r.aSize = b.bSize - k /\ r.bSize = 0
    BY <1>5, <2>1
  <2> QED BY <1>8, <2>2, <2>3 DEF r, a, k
<1> QED BY <1>7, <1>8

\* Removing n bytes forgets the n oldest ones, and all when there are fewer.
LEMMA RemoveContent ==
  ASSUME NEW b, BufferOK(b), NEW n \in Nat
  PROVE  Content(Remove(b, n)) =
            IF n <= Len(Content(b)) THEN SubSeq(Content(b), n + 1, Len(Content(b)))
                                    ELSE <<>>
<1> USE SizeAssumption, NullAssumption
<1> DEFINE r == Remove(b, n)
           a == FromA(b, n)
           k == FromB(b, n)
           c == Content(b)
<1>1. BufferOK(r)
  BY RemoveOK
<1>2. /\ Content(r) \in Seq(Byte) /\ Len(Content(r)) = GetSize(r) /\ GetSize(r) \in Nat
      /\ \A i \in 1 .. GetSize(r) : Content(r)[i] = ByteAt(r, i)
  BY <1>1, ContentAt
<1>3. /\ c \in Seq(Byte) /\ Len(c) = GetSize(b) /\ GetSize(b) \in Nat
      /\ \A i \in 1 .. GetSize(b) : c[i] = ByteAt(b, i)
  BY ContentAt
<1>4. IF a < b.aSize
      THEN /\ r.mem = b.mem /\ r.aPtr = b.aPtr + a /\ r.aSize = b.aSize - a
           /\ r.bSize = b.bSize
      ELSE /\ r.aPtr = 0 /\ r.aSize = b.bSize - k /\ r.bSize = 0
           /\ \A i \in 1 .. b.bSize - k : r.mem[i - 1] = b.mem[k + i - 1]
  BY RemoveFields
<1>5. /\ b.aPtr \in Nat /\ b.aSize \in Nat /\ b.bSize \in Nat
      /\ GetSize(b) = b.aSize + b.bSize /\ GetSize(r) = r.aSize + r.bSize
      /\ a = (IF n < b.aSize THEN n ELSE b.aSize)
      /\ k = (IF n - a < b.bSize THEN n - a ELSE b.bSize)
  BY DEF GetSize, BufferOK, Buffer, FromA, FromB, Lesser
<1> HIDE DEF r, a, k, c
<1>6. CASE n <= Len(c)
  <2>1. GetSize(r) = GetSize(b) - n
    BY <1>3, <1>4, <1>5, <1>6
  <2> DEFINE rest == SubSeq(c, n + 1, Len(c))
  <2>2. /\ rest \in Seq(Byte) /\ Len(rest) = GetSize(b) - n
        /\ \A i \in 1 .. GetSize(b) - n : rest[i] = c[i + n]
    BY <1>3, <1>6
  <2> HIDE DEF rest
  <2>3. ASSUME NEW i \in 1 .. GetSize(r) PROVE Content(r)[i] = rest[i]
    <3>1. i + n \in 1 .. GetSize(b) /\ rest[i] = ByteAt(b, i + n)
      BY <1>3, <2>1, <2>2
    <3>2. ByteAt(r, i) = ByteAt(b, i + n)
      <4>1. CASE a < b.aSize
        <5>1. a = n
          BY <1>5, <4>1
        <5>2. CASE i + n <= b.aSize
          <6>1. i <= r.aSize /\ r.aPtr + i - 1 = b.aPtr + (i + n) - 1
            BY <1>4, <1>5, <4>1, <5>1, <5>2
          <6> QED BY <1>4, <4>1, <5>2, <6>1 DEF ByteAt
        <5>3. CASE ~ (i + n <= b.aSize)
          <6>1. ~ (i <= r.aSize) /\ i - r.aSize - 1 = (i + n) - b.aSize - 1
            BY <1>4, <1>5, <4>1, <5>1, <5>3
          <6> QED BY <1>4, <4>1, <5>3, <6>1 DEF ByteAt
        <5> QED BY <5>2, <5>3
      <4>2. CASE ~ (a < b.aSize)
        <5>1. a = b.aSize /\ k = n - b.aSize /\ n >= b.aSize
          BY <1>3, <1>5, <1>6, <4>2
        <5>2. r.aPtr = 0 /\ i <= r.aSize /\ i \in 1 .. b.bSize - k /\ 0 + i - 1 = i - 1
          BY <1>3, <1>4, <1>5, <2>1, <4>2, <5>1
        <5>3. ~ (i + n <= b.aSize) /\ (i + n) - b.aSize - 1 = k + i - 1
          BY <1>5, <5>1
        <5>4. r.mem[i - 1] = b.mem[k + i - 1]
          BY <1>4, <4>2, <5>2
        <5> QED BY <5>2, <5>3, <5>4 DEF ByteAt
      <4> QED BY <4>1, <4>2
    <3> QED BY <1>2, <3>1, <3>2
  <2>4. Content(r) = rest
    BY <1>2, <2>1, <2>2, <2>3, SameBytes
  <2> QED BY <1>6, <2>4 DEF rest, r, c
<1>7. CASE ~ (n <= Len(c))
  <2>1. GetSize(r) = 0
    BY <1>3, <1>4, <1>5, <1>7
  <2>2. Content(r) = <<>>
    BY <1>2, <2>1
  <2> QED BY <1>7, <2>2 DEF r, c
<1> QED BY <1>6, <1>7

\* Read gives the n oldest bytes.
LEMMA ReadContent ==
  ASSUME NEW b, BufferOK(b), NEW n \in Nat, n <= Len(Content(b))
  PROVE  ReadBytes(b, n) = SubSeq(Content(b), 1, n)
<1> USE SizeAssumption, NullAssumption
<1> DEFINE a == FromA(b, n)
           k == FromB(b, n)
           sa == Bytes(b.mem, b.aPtr, a)
           sb == IF k > 0 THEN Bytes(b.mem, b.bPtr, k) ELSE <<>>
           c == Content(b)
           d == SubSeq(c, 1, n)
<1>1. /\ c \in Seq(Byte) /\ Len(c) = GetSize(b) /\ GetSize(b) \in Nat
      /\ \A i \in 1 .. GetSize(b) : c[i] = ByteAt(b, i)
  BY ContentAt
<1>2. /\ b.mem \in [Offset -> Byte] /\ b.aPtr \in Nat /\ b.aSize \in Nat /\ b.bSize \in Nat
      /\ b.aPtr + b.aSize <= Size
      /\ b.bSize > 0 => b.bPtr = 0 /\ b.bSize <= Size
      /\ GetSize(b) = b.aSize + b.bSize
      /\ a = (IF n < b.aSize THEN n ELSE b.aSize)
      /\ k = (IF n - a < b.bSize THEN n - a ELSE b.bSize)
  BY DEF BufferOK, Buffer, RegionsOK, GetSize, FromA, FromB, Lesser
<1> HIDE DEF a, k, c
<1>3. a \in Nat /\ k \in Nat /\ a + k = n /\ a <= b.aSize /\ k <= b.bSize
      /\ (k > 0 => a = b.aSize)
  BY <1>1, <1>2 DEF c
<1>4. sa \in Seq(Byte) /\ Len(sa) = a
  <2>1. b.aPtr + a <= Size
    BY <1>2, <1>3
  <2> QED BY <1>2, <1>3, <2>1, BytesType
<1>5. \A i \in 1 .. a : sa[i] = b.mem[b.aPtr + i - 1]
  BY DEF Bytes
<1>6. sb \in Seq(Byte) /\ Len(sb) = k
  <2>1. CASE k > 0
    <3>1. b.bPtr \in Nat /\ b.bPtr + k <= Size
      BY <1>2, <1>3, <2>1
    <3>2. sb = Bytes(b.mem, b.bPtr, k)
      BY <2>1
    <3> HIDE DEF sb
    <3> QED BY <1>2, <1>3, <3>1, <3>2, BytesType
  <2>2. CASE k = 0
    BY <2>2
  <2> QED BY <1>3, <2>1, <2>2
<1>7. \A i \in 1 .. k : sb[i] = b.mem[i - 1]
  <2> SUFFICES ASSUME NEW i \in Int, 1 <= i, i <= k PROVE sb[i] = b.mem[i - 1]
    BY <1>3
  <2> HIDE DEF sb, sa, d
  <2>1. k > 0 /\ b.bSize > 0
    <3>1. k \in Nat /\ k <= b.bSize /\ b.bSize \in Nat
      BY <1>2, <1>3
    <3>2. k > 0
      BY <3>1
    <3> QED BY <3>1, <3>2
  <2>2. b.bPtr + i - 1 = i - 1
    BY <1>2, <2>1
  <2> USE DEF sb
  <2>3. sb = Bytes(b.mem, b.bPtr, k)
    BY <2>1
  <2>4. i \in 1 .. k
    BY <1>3
  <2> QED BY <2>2, <2>3, <2>4 DEF Bytes
<1>8. ReadBytes(b, n) = sa \o sb
  BY DEF ReadBytes, a, k
<1> HIDE DEF sa, sb
<1>9. /\ d \in Seq(Byte) /\ Len(d) = n
      /\ \A i \in 1 .. n : d[i] = c[i]
  BY <1>1 DEF c
<1> HIDE DEF d
<1>10. /\ sa \o sb \in Seq(Byte) /\ Len(sa \o sb) = n
       /\ \A i \in 1 .. n : (sa \o sb)[i] = IF i <= a THEN sa[i] ELSE sb[i - a]
  BY <1>3, <1>4, <1>6
<1>11. ASSUME NEW i \in 1 .. n PROVE (sa \o sb)[i] = d[i]
  <2>1. d[i] = ByteAt(b, i)
    BY <1>1, <1>9 DEF c
  <2>2. CASE i <= a
    BY <1>2, <1>3, <1>5, <1>10, <2>1, <2>2 DEF ByteAt
  <2>3. CASE ~ (i <= a)
    <3>1. i - a \in 1 .. k /\ a = b.aSize
      BY <1>3, <2>3
    <3> QED BY <1>7, <1>10, <2>1, <2>3, <3>1 DEF ByteAt
  <2> QED BY <2>2, <2>3
<1>12. sa \o sb = d
  BY <1>9, <1>10, <1>11, SameBytes
<1> QED BY <1>8, <1>12 DEF d, c

\* Settling moves nothing.
LEMMA SettleContent ==
  ASSUME NEW b, BufferOK(b)
  PROVE  Content(Settle(b)) = Content(b)
<1>1. /\ Settle(b).aPtr = b.aPtr /\ Settle(b).aSize = b.aSize
      /\ Settle(b).bSize = b.bSize /\ Settle(b).mem = b.mem
      /\ b.bSize \in Nat
  BY SettleOK DEF BufferOK, Buffer
<1>2. b.bSize > 0 => Settle(b) = b
  BY <1>1 DEF BufferOK, RegionsOK, Settle
<1> QED BY <1>1, <1>2 DEF Content

\* The regions hold at most a block, and what does not fit behind the settled
\* region would fill more than half of it.
LEMMA SpaceBounds ==
  ASSUME NEW b, BufferOK(b)
  PROVE  /\ GetSize(b) \in 0 .. Size
         /\ \A n \in Nat : n > GetSpace(b) => 2 * (GetSize(b) + n) > Size
BY SizeAssumption, NullAssumption
   DEF BufferOK, Buffer, RegionsOK, GetSpace, Settle, AllocateB, GetBFreeSpace,
       GetAFreeSpace, GetSpaceBeforeA, GetSize

-----------------------------------------------------------------------------
\* The state invariant

\* What the next states need of the layout to be kept and of a send in flight
\* to stay intact: it lies at the front of region A.
SendInFront ==
    send # NoSend =>
        /\ Len(send.data) \in 1 .. buf.aSize
        /\ send.at = buf.aPtr
        /\ \A i \in 1 .. Len(send.data) : buf.mem[buf.aPtr + i - 1] = send.data[i]

BufferInv == BufferTypeOK /\ Regions /\ SendInFront

LEMMA BufferInitInv == BufferInit => BufferInv
<1> SUFFICES ASSUME BufferInit PROVE BufferInv
  OBVIOUS
<1>1. PICK junk \in [Offset -> Byte] : buf = Allocated(junk)
  BY DEF BufferInit
<1>2. buf \in Buffer /\ Regions
  BY <1>1, SizeAssumption DEF Allocated, Buffer, Regions, RegionsOK
<1>3. reply \in [ok : BOOLEAN, data : Seq(Byte)]
  BY DEF BufferInit, Answer
<1> QED BY <1>2, <1>3 DEF BufferInit, BufferInv, BufferTypeOK, SendInFront

\* A write or a receive appends a string of bytes that fits, or only settles.
LEMMA GrowInv ==
  ASSUME BufferInv, NEW data \in Seq(Byte), UNCHANGED send,
         reply' \in [ok : BOOLEAN, data : Seq(Byte)],
         \/ buf' = Settle(buf)
         \/ Len(data) <= GetSpace(buf) /\ buf' = Appended(buf, data)
  PROVE  BufferInv'
<1>1. BufferOK(buf)
  BY DEF BufferInv, BufferTypeOK, Regions, BufferOK
<1>2. BufferOK(buf')
  BY <1>1, SettleOK, AppendOK
<1>3. SendInFront'
  <2>1. CASE buf' = Settle(buf)
    BY <1>1, <2>1, SettleOK DEF BufferInv, SendInFront
  <2>2. CASE Len(data) <= GetSpace(buf) /\ buf' = Appended(buf, data)
    <3>1. /\ buf'.aPtr = buf.aPtr /\ buf'.aSize >= buf.aSize
          /\ \A i \in buf.aPtr .. buf.aPtr + buf.aSize - 1 : buf'.mem[i] = buf.mem[i]
      BY <1>1, <2>2, AppendMem
    <3>2. buf.aPtr \in Nat /\ buf.aSize \in Nat /\ buf'.aSize \in Nat
      BY <1>1, <1>2 DEF BufferOK, Buffer
    <3>3. SUFFICES ASSUME send' # NoSend
                   PROVE  /\ Len(send'.data) \in 1 .. buf'.aSize
                          /\ send'.at = buf'.aPtr
                          /\ \A i \in 1 .. Len(send'.data) :
                                buf'.mem[buf'.aPtr + i - 1] = send'.data[i]
      BY DEF SendInFront
    <3>4. Len(send.data) \in 1 .. buf.aSize /\ send.at = buf.aPtr
          /\ \A i \in 1 .. Len(send.data) : buf.mem[buf.aPtr + i - 1] = send.data[i]
      BY <3>3 DEF BufferInv, SendInFront
    <3>5. ASSUME NEW i \in 1 .. Len(send.data)
          PROVE  buf'.mem[buf'.aPtr + i - 1] = send.data[i]
      <4>1. buf.aPtr + i - 1 \in buf.aPtr .. buf.aPtr + buf.aSize - 1
        BY <3>2, <3>4
      <4> QED BY <3>1, <3>4, <4>1
    <3> QED BY <3>1, <3>2, <3>4, <3>5
  <2> QED BY <2>1, <2>2
<1> QED BY <1>2, <1>3 DEF BufferInv, BufferTypeOK, Regions, BufferOK

\* A step without a send in flight, after it, keeps the invariant when it
\* keeps the layout.
LEMMA IdleInv ==
  ASSUME BufferInv, BufferOK(buf'), send' = NoSend,
         reply' \in [ok : BOOLEAN, data : Seq(Byte)]
  PROVE  BufferInv'
BY DEF BufferInv, BufferTypeOK, Regions, BufferOK, SendInFront

LEMMA BufferNextInv == BufferInv /\ [BufferNext]_bufferVars => BufferInv'
<1> SUFFICES ASSUME BufferInv, [BufferNext]_bufferVars PROVE BufferInv'
  OBVIOUS
<1> USE SizeAssumption, NullAssumption
<1>0. BufferOK(buf)
  BY DEF BufferInv, BufferTypeOK, Regions, BufferOK
<1>1. ASSUME NEW data \in Chunk, CallWrite(data) PROVE BufferInv'
  <2>1. data \in Seq(Byte)
    BY ChunkAssumption
  <2>2. reply' \in [ok : BOOLEAN, data : Seq(Byte)]
    BY <1>1 DEF CallWrite, Answer, CanWrite
  <2>3. \/ buf' = Settle(buf)
        \/ Len(data) <= GetSpace(buf) /\ buf' = Appended(buf, data)
    BY <1>1 DEF CallWrite, Write, CanWrite, Appended
  <2> QED BY <1>1, <2>1, <2>2, <2>3, GrowInv DEF CallWrite
<1>2. ASSUME NEW data \in Chunk, CallReceive(data) PROVE BufferInv'
  <2> DEFINE n == IF Len(data) <= GetSpace(buf) THEN Len(data) ELSE GetSpace(buf)
             d == SubSeq(data, 1, n)
  <2>1. data \in Seq(Byte)
    BY ChunkAssumption
  <2>2. n \in Nat /\ n <= Len(data) /\ n <= GetSpace(buf)
    BY <1>0, <2>1, SettleOK
  <2>3. reply' \in [ok : BOOLEAN, data : Seq(Byte)]
    BY <1>2, <2>2 DEF CallReceive, Answer
  <2>4. buf' = IF n = 0 THEN Settle(buf)
               ELSE IncrementWritten([Settle(buf) EXCEPT
                                        !.mem = Copy(@, GetBuffer(Settle(buf)), d)], n)
    BY <1>2 DEF CallReceive
  <2> HIDE DEF n
  <2>5. d \in Seq(Byte) /\ Len(d) = n
    BY <2>1, <2>2
  <2> HIDE DEF d
  <2>6. \/ buf' = Settle(buf)
        \/ Len(d) <= GetSpace(buf) /\ buf' = Appended(buf, d)
    BY <2>2, <2>4, <2>5 DEF Appended
  <2> QED BY <1>2, <2>3, <2>5, <2>6, GrowInv DEF CallReceive
<1>3. ASSUME NEW n \in Count, CallRead(n) PROVE BufferInv'
  <2>1. n \in Nat
    BY CountAssumption
  <2>2. reply' \in [ok : BOOLEAN, data : Seq(Byte)]
    BY <1>0, <1>3, <2>1, ReadBytesType DEF CallRead, Answer
  <2> QED BY <1>0, <1>3, <2>1, <2>2, RemoveOK, IdleInv DEF CallRead, Read
<1>4. ASSUME NEW n \in Count, CallRemove(n) PROVE BufferInv'
  <2>1. n \in Nat
    BY CountAssumption
  <2> QED BY <1>0, <1>4, <2>1, RemoveOK, IdleInv DEF CallRemove, Answer
<1>5. ASSUME NEW n \in Count, FinishSend(n) PROVE BufferInv'
  <2>1. n \in Nat
    BY CountAssumption
  <2> QED BY <1>0, <1>5, <2>1, RemoveOK, IdleInv DEF FinishSend, Answer
<1>6. CASE StartSend
  <2>1. buf.aSize > 0 /\ GetContiguousBytes(buf) = buf.aSize /\ GetBufferStart(buf) = buf.aPtr
    BY <1>0, <1>6 DEF StartSend, GetContiguousBytes, GetBufferStart, BufferOK, Buffer, RegionsOK
  <2>2. /\ buf.mem \in [Offset -> Byte] /\ buf.aPtr \in Nat /\ buf.aSize \in Nat
        /\ buf.aPtr + buf.aSize <= Size /\ buf.aPtr \in 0 .. Size
    BY <1>0 DEF BufferOK, Buffer, RegionsOK
  <2> DEFINE d == Bytes(buf.mem, buf.aPtr, buf.aSize)
  <2>3. send' = [at |-> buf.aPtr, data |-> d] /\ UNCHANGED <<buf, reply>>
    BY <1>6, <2>1 DEF StartSend
  <2>4. d \in Seq(Byte) /\ Len(d) = buf.aSize
    BY <2>2, BytesType
  <2>5. \A i \in 1 .. buf.aSize : d[i] = buf.mem[buf.aPtr + i - 1]
    BY DEF Bytes
  <2> HIDE DEF d
  <2>6. send' \in Send
    BY <2>2, <2>3, <2>4 DEF Send
  <2>7. SendInFront'
    BY <2>1, <2>2, <2>3, <2>4, <2>5 DEF SendInFront
  <2> QED BY <2>3, <2>6, <2>7 DEF BufferInv, BufferTypeOK, Regions
<1>7. CASE UNCHANGED bufferVars
  BY <1>7 DEF bufferVars, BufferInv, BufferTypeOK, Regions, SendInFront
<1> QED BY <1>1, <1>2, <1>3, <1>4, <1>5, <1>6, <1>7 DEF BufferNext

THEOREM Invariance == BufferSpec => []BufferInv
BY BufferInitInv, BufferNextInv, PTL DEF BufferSpec

\* The values of the buffer, of the send in flight and of the reply stay in
\* their types.
THEOREM TypeCorrect == BufferSpec => []BufferTypeOK
BY Invariance, PTL DEF BufferInv

\* For every size of the block the two regions never overlap or leave it.
THEOREM RegionsApart == BufferSpec => []Regions
BY Invariance, PTL DEF BufferInv

\* recv is asked for no bytes only when more than half of the block is in use.
THEOREM HalfFull == BufferSpec => []FullOnlyPastHalf
<1>1. BufferInv => FullOnlyPastHalf
  <2> SUFFICES ASSUME BufferInv, GetSpace(buf) = 0 PROVE 2 * GetSize(buf) > Size
    BY DEF FullOnlyPastHalf
  <2> USE SizeAssumption, NullAssumption
  <2>1. BufferOK(buf)
    BY DEF BufferInv, BufferTypeOK, Regions, BufferOK
  <2> QED
    BY <2>1 DEF BufferOK, Buffer, RegionsOK, GetSpace, Settle, AllocateB, GetBFreeSpace,
                GetAFreeSpace, GetSpaceBeforeA, GetSize
<1> QED BY <1>1, Invariance, PTL

\* The three together: the buffer stays in order.
THEOREM BufferConsistent == BufferSpec => []BufferSound
BY TypeCorrect, RegionsApart, HalfFull, PTL DEF BufferSound

\* A header and a body that passed the one check of GetSpace are both written.
THEOREM FrameAtomic == BufferSpec => []FrameWhole
<1>1. BufferInv => FrameWhole
  <2> SUFFICES ASSUME BufferInv, NEW h \in Chunk, NEW d \in Chunk,
                      Len(h) + Len(d) <= GetSpace(buf)
               PROVE  /\ CanWrite(Settle(buf), Len(h))
                      /\ CanWrite(Write(Settle(buf), h), Len(d))
    BY DEF FrameWhole
  <2>1. BufferOK(buf)
    BY DEF BufferInv, BufferTypeOK, Regions, BufferOK
  <2>2. h \in Seq(Byte) /\ Len(h) \in Nat /\ Len(d) \in Nat
    BY ChunkAssumption
  <2> DEFINE s == Settle(buf)
  <2>3. BufferOK(s) /\ GetSpace(s) = GetSpace(buf) /\ GetSpace(buf) \in Nat
    BY <2>1, SettleOK
  <2>4. Len(h) <= GetSpace(s)
    BY <2>2, <2>3
  <2>5. Write(s, h) = Appended(s, h)
    BY <2>4 DEF Write, CanWrite, Appended
  <2>6. BufferOK(Appended(s, h)) /\ GetSpace(Appended(s, h)) >= GetSpace(s) - Len(h)
    BY <2>2, <2>3, <2>4, AppendOK
  <2>7. GetSpace(Appended(s, h)) \in Nat
    BY <2>6, SettleOK
  <2> HIDE DEF s
  <2>8. Len(d) <= GetSpace(Appended(s, h))
    BY <2>2, <2>3, <2>6, <2>7
  <2> QED BY <2>4, <2>5, <2>8 DEF CanWrite, s
<1> QED BY <1>1, Invariance, PTL

-----------------------------------------------------------------------------
\* The send in flight and the abstract queue

\* For every size of the block, whatever is written while a send is in flight,
\* the bytes handed to the kernel stay in place at the front of the queue.
THEOREM SendStable == BufferSpec => []SendIntact
<1>1. BufferInv => SendIntact
  <2> SUFFICES ASSUME BufferInv, send # NoSend
               PROVE  /\ Bytes(buf.mem, send.at, Len(send.data)) = send.data
                      /\ SubSeq(Content(buf), 1, Len(send.data)) = send.data
    BY DEF SendIntact
  <2> DEFINE n == Len(send.data)
             c == Content(buf)
  <2>1. BufferOK(buf) /\ send.data \in Seq(Byte)
    BY DEF BufferInv, BufferTypeOK, Regions, BufferOK, Send
  <2>2. /\ n \in 1 .. buf.aSize /\ send.at = buf.aPtr
        /\ \A i \in 1 .. n : buf.mem[buf.aPtr + i - 1] = send.data[i]
    BY DEF BufferInv, SendInFront
  <2>3. /\ buf.mem \in [Offset -> Byte] /\ buf.aPtr \in Nat /\ buf.aSize \in Nat
        /\ buf.bSize \in Nat /\ buf.aPtr + buf.aSize <= Size
    BY <2>1 DEF BufferOK, Buffer, RegionsOK
  <2>4. /\ c \in Seq(Byte) /\ Len(c) = GetSize(buf)
        /\ \A i \in 1 .. GetSize(buf) : c[i] = ByteAt(buf, i)
        /\ GetSize(buf) = buf.aSize + buf.bSize
    BY <2>1, ContentAt DEF GetSize
  <2>5. n \in Nat /\ n <= buf.aSize /\ buf.aPtr + n <= Size /\ n <= GetSize(buf)
    <3> HIDE DEF n, c
    <3>1. n \in Nat /\ n <= buf.aSize
      BY <2>2, <2>3
    <3>2. buf.aPtr + n <= Size
      BY SizeAssumption, <2>3, <3>1
    <3>3. GetSize(buf) = buf.aSize + buf.bSize
      BY <2>4
    <3>4. n <= GetSize(buf)
      BY <2>3, <3>1, <3>3
    <3> QED BY <3>1, <3>2, <3>4
  <2> DEFINE d == Bytes(buf.mem, buf.aPtr, n)
             e == SubSeq(c, 1, n)
  <2>6. d \in Seq(Byte) /\ Len(d) = n
    BY <2>3, <2>5, BytesType
  <2>7. \A i \in 1 .. n : d[i] = buf.mem[buf.aPtr + i - 1]
    BY DEF Bytes
  <2>8. d = send.data
    <3> HIDE DEF d
    <3> QED BY <2>1, <2>2, <2>6, <2>7, SameBytes
  <2> HIDE DEF c
  <2>9. e \in Seq(Byte) /\ Len(e) = n /\ \A i \in 1 .. n : e[i] = c[i]
    BY <2>3, <2>4, <2>5
  <2> HIDE DEF e, n
  <2>10. ASSUME NEW i \in 1 .. n PROVE c[i] = send.data[i]
    <3>1. i \in 1 .. GetSize(buf) /\ i <= buf.aSize
      BY <2>3, <2>4, <2>5
    <3> QED BY <2>2, <2>4, <3>1 DEF ByteAt
  <2>11. e = send.data
    BY <2>1, <2>9, <2>10, SameBytes DEF n
  <2> QED BY <2>2, <2>8, <2>11 DEF c, e, n
<1> QED BY <1>1, Invariance, PTL

LEMMA InitFifo == BufferInit => Fifo!Init
<1> SUFFICES ASSUME BufferInit PROVE Fifo!Init
  OBVIOUS
<1>1. BufferOK(buf)
  BY BufferInitInv DEF BufferInv, BufferTypeOK, Regions, BufferOK
<1>2. GetSize(buf) = 0
  BY DEF BufferInit, Allocated, GetSize
<1>3. Content(buf) = <<>>
  BY <1>1, <1>2, ContentAt
<1> QED BY <1>3 DEF BufferInit, Fifo!Init, Fifo!Answer, Answer

LEMMA StepFifo == BufferInv /\ [BufferNext]_bufferVars => [Fifo!Next]_(Fifo!vars)
<1> SUFFICES ASSUME BufferInv, [BufferNext]_bufferVars PROVE [Fifo!Next]_(Fifo!vars)
  OBVIOUS
<1>0. BufferOK(buf) /\ BufferInv'
  BY BufferNextInv DEF BufferInv, BufferTypeOK, Regions, BufferOK
<1>a. BufferOK(buf')
  BY <1>0 DEF BufferInv, BufferTypeOK, Regions, BufferOK
<1>b. /\ Content(buf) \in Seq(Byte) /\ Len(Content(buf)) = GetSize(buf)
      /\ Len(Content(buf')) = GetSize(buf')
      /\ GetSize(buf) \in 0 .. Size /\ GetSize(buf') \in 0 .. Size
  BY <1>0, <1>a, ContentAt, SpaceBounds
<1>1. ASSUME NEW data \in Chunk, CallWrite(data) PROVE Fifo!Put(data) \/ Fifo!Refuse(data)
  <2>1. data \in Seq(Byte) /\ Len(data) \in Nat
    BY ChunkAssumption
  <2>2. CASE CanWrite(buf, Len(data))
    <3>1. buf' = Appended(buf, data) /\ Len(data) <= GetSpace(buf)
      BY <1>1, <2>2 DEF CallWrite, Write, CanWrite, Appended
    <3>2. Content(buf') = Content(buf) \o data /\ GetSize(buf') = GetSize(buf) + Len(data)
      BY <1>0, <2>1, <3>1, AppendContent, AppendOK
    <3> QED
      BY <1>1, <1>b, <2>1, <2>2, <3>2 DEF CallWrite, Fifo!Put, Fifo!Answer, Answer
  <2>3. CASE ~ CanWrite(buf, Len(data))
    <3>1. buf' = Settle(buf) /\ Len(data) > GetSpace(buf)
      BY <1>0, <1>1, <2>1, <2>3, SettleOK DEF CallWrite, Write, CanWrite
    <3>2. Content(buf') = Content(buf) /\ 2 * (GetSize(buf) + Len(data)) > Size
      BY <1>0, <2>1, <3>1, SettleContent, SpaceBounds
    <3>3. reply' = Answer(FALSE, <<>>)
      <4>1. CanWrite(buf, Len(data)) = FALSE
        BY <2>3 DEF CanWrite
      <4> QED BY <1>1, <4>1 DEF CallWrite
    <3> QED
      BY <1>b, <3>2, <3>3 DEF Fifo!Refuse, Fifo!Answer, Answer
  <2> QED BY <2>2, <2>3
<1>2. ASSUME NEW data \in Chunk, CallReceive(data)
      PROVE  \/ Fifo!Refuse(data)
             \/ \E d \in Chunk : Fifo!Put(d)
  <2> DEFINE n == IF Len(data) <= GetSpace(buf) THEN Len(data) ELSE GetSpace(buf)
             d == SubSeq(data, 1, n)
  <2>1. data \in Seq(Byte) /\ Len(data) \in Nat
    BY ChunkAssumption
  <2>2. n \in Nat /\ n <= Len(data) /\ n <= GetSpace(buf)
    BY <1>0, <2>1, SettleOK
  <2>3. /\ reply' = Answer(n > 0, <<>>)
        /\ data # <<>>
        /\ buf' = IF n = 0 THEN Settle(buf)
               ELSE IncrementWritten([Settle(buf) EXCEPT
                                        !.mem = Copy(@, GetBuffer(Settle(buf)), d)], n)
    BY <1>2 DEF CallReceive
  <2>4. n = 0 => Len(data) > GetSpace(buf) \/ Len(data) = 0
    BY <1>0, <2>1, SettleOK
  <2> HIDE DEF n
  <2>5. d \in Seq(Byte) /\ Len(d) = n /\ d \in Chunk
    BY <2>1, <2>2, ChunkAssumption
  <2> HIDE DEF d
  <2>6. CASE n = 0
    <3>1. Len(data) > GetSpace(buf)
      BY <2>1, <2>3, <2>4, <2>6
    <3>2. Content(buf') = Content(buf) /\ 2 * (GetSize(buf) + Len(data)) > Size
      BY <1>0, <2>1, <2>3, <2>6, <3>1, SettleContent, SpaceBounds
    <3>3. reply' = Answer(FALSE, <<>>)
      <4>1. (n > 0) = FALSE
        BY <2>6
      <4> QED BY <2>3, <4>1
    <3> QED
      BY <1>b, <3>2, <3>3 DEF Fifo!Refuse, Fifo!Answer, Answer
  <2>7. CASE n > 0
    <3>1. buf' = Appended(buf, d) /\ Len(d) <= GetSpace(buf)
      BY <2>2, <2>3, <2>5, <2>7 DEF Appended
    <3>2. Content(buf') = Content(buf) \o d /\ GetSize(buf') = GetSize(buf) + Len(d)
      BY <1>0, <2>5, <3>1, AppendContent, AppendOK
    <3>3. reply' = Answer(TRUE, <<>>)
      <4>1. (n > 0) = TRUE
        BY <2>7
      <4> QED BY <2>3, <4>1
    <3>4. Fifo!Put(d)
      BY <1>b, <2>2, <2>5, <3>2, <3>3 DEF Fifo!Put, Fifo!Answer, Answer
    <3> QED BY <2>5, <3>4
  <2> QED BY <2>2, <2>6, <2>7
<1>3. ASSUME NEW n \in Count, CallRead(n) PROVE Fifo!Take(n)
  <2>1. n \in Nat
    BY CountAssumption
  <2>2. CASE CanRead(buf, n)
    <3>1. n <= Len(Content(buf))
      BY <1>b, <2>2 DEF CanRead
    <3>2. buf' = Remove(buf, n) /\ reply' = Answer(TRUE, ReadBytes(buf, n))
      BY <1>3, <2>2 DEF CallRead, Read
    <3> QED
      BY <1>0, <2>1, <3>1, <3>2, RemoveContent, ReadContent
         DEF Fifo!Take, Fifo!Rest, Fifo!Prefix, Fifo!Answer, Answer
  <2>3. CASE ~ CanRead(buf, n)
    BY <1>3, <1>b, <2>1, <2>3 DEF CallRead, Read, CanRead, Fifo!Take, Fifo!Answer, Answer
  <2> QED BY <2>2, <2>3
<1>4. ASSUME NEW n \in Count, CallRemove(n) \/ FinishSend(n) PROVE Fifo!Drop(n)
  <2>1. n \in Nat
    BY CountAssumption
  <2>2. buf' = Remove(buf, n) /\ reply' = Answer(TRUE, <<>>)
    BY <1>4 DEF CallRemove, FinishSend
  <2> QED BY <1>0, <2>1, <2>2, RemoveContent DEF Fifo!Drop, Fifo!Rest, Fifo!Answer, Answer
<1>5. CASE StartSend
  BY <1>5 DEF StartSend, Fifo!vars
<1>6. CASE UNCHANGED bufferVars
  BY <1>6 DEF bufferVars, Fifo!vars
<1>7. CASE BufferNext
  <2>1. (\E data \in Chunk : CallWrite(data) \/ CallReceive(data)) => Fifo!Next
    BY <1>1, <1>2 DEF Fifo!Next
  <2>2. (\E n \in Count : CallRead(n) \/ CallRemove(n) \/ FinishSend(n)) => Fifo!Next
    BY <1>3, <1>4 DEF Fifo!Next
  <2> QED BY <1>5, <1>7, <2>1, <2>2 DEF BufferNext
<1> QED BY <1>6, <1>7

\* The bip buffer implements the byte FIFO: for every size of the block, every
\* call answers as the FIFO would, and a write is turned away only past half.
THEOREM Refinement == BufferSpec => ImplementsFifo
BY InitFifo, StepFifo, Invariance, PTL DEF BufferSpec, ImplementsFifo, Fifo!Spec

-----------------------------------------------------------------------------
(* EpollSocket: the send lock. *)

\* Between bursts, and inside one before it has written.
Exact == /\ lock = IF Pending THEN 1 ELSE 0
         /\ mask = IF Pending THEN "OUT" ELSE "IN"

\* What a sender inside its burst may rely on.
SenderInv(s) ==
    /\ spc[s] \in {"room", "end"} => Exact
    /\ spc[s] = "header" => Exact /\ GetSpace(wbuf) >= frame[s].head + frame[s].body
    /\ spc[s] = "body" => Pending /\ GetSpace(wbuf) >= frame[s].body
    /\ spc[s] = "acquire" => Pending
    /\ spc[s] = "post" => Pending /\ lock = 1
    /\ spc[s] \in {"body", "acquire"} /\ lock = 1 => mask = "OUT"

LockInv ==
    /\ TypeOK
    /\ RegionsOK(wbuf)
    /\ \A s \in Sender : spc[s] # "idle" <=> mutex = s
    /\ wpc = "sent" <=> mutex = Worker
    /\ wpc = "sent" => lock = 1 /\ mask = "OUT"
    /\ wpc \in {"lock", "switch", "out"} => Pending
    /\ wpc # "sent" /\ mask = "OUT" => Pending
    /\ mutex = Free => Exact
    /\ \A s \in Sender : SenderInv(s)

LEMMA ChunkType ==
  ASSUME NEW n \in Nat
  PROVE  AnyBytes(n) \in Seq(Byte) /\ Len(AnyBytes(n)) = n
<1>1. PICK x \in Byte : TRUE
  BY ByteAssumption
<1>2. [i \in 1 .. n |-> x] \in [1 .. n -> Byte]
  OBVIOUS
<1>3. AnyBytes(n) \in [1 .. n -> Byte]
  BY <1>2 DEF AnyBytes
<1> QED BY <1>3

\* Appending a chunk that fits makes bytes pending and leaves the rest of the
\* room; removing does what it says to the size.
LEMMA AppendChunk ==
  ASSUME BufferOK(wbuf), NEW n \in Nat, n <= GetSpace(wbuf)
  PROVE  /\ CanWrite(wbuf, n)
         /\ BufferOK(Write(wbuf, AnyBytes(n)))
         /\ GetSpace(Write(wbuf, AnyBytes(n))) >= GetSpace(wbuf) - n
         /\ GetSize(Write(wbuf, AnyBytes(n))) = GetSize(wbuf) + n
<1>1. AnyBytes(n) \in Seq(Byte) /\ Len(AnyBytes(n)) = n
  BY ChunkType
<1>2. Write(wbuf, AnyBytes(n)) = Appended(wbuf, AnyBytes(n))
  BY <1>1 DEF Write, CanWrite, Appended
<1> QED BY <1>1, <1>2, AppendOK DEF CanWrite

LEMMA LockInit == Init => LockInv
<1> SUFFICES ASSUME Init PROVE LockInv
  OBVIOUS
<1>1. PICK junk \in [Offset -> Byte] : wbuf = Allocated(junk)
  BY DEF Init
<1>2. wbuf \in Buffer /\ RegionsOK(wbuf) /\ GetSize(wbuf) = 0
  BY <1>1, SizeAssumption DEF Allocated, Buffer, RegionsOK, GetSize
<1>3. ~ Pending
  BY <1>2 DEF Pending
<1>4. TypeOK
  <2>1. spc \in [Sender -> SenderPC]
    BY DEF Init, SenderPC
  <2>2. kqueue \in 0 .. KernelSize /\ input \in 0 .. InputMax
    BY KernelAssumption DEF Init
  <2> QED BY <1>2, <2>1, <2>2 DEF Init, TypeOK, WorkerPC
<1>5. \A s \in Sender : spc[s] = "idle" /\ mutex # s
  BY SenderAssumption DEF Init
<1>6. mutex # Worker /\ wpc = "wait" /\ mask = "IN" /\ lock = 0
  BY SenderAssumption DEF Init
<1> QED BY <1>2, <1>3, <1>4, <1>5, <1>6 DEF LockInv, Exact, SenderInv

-----------------------------------------------------------------------------
\* While one sender is inside its burst the others are outside theirs.
LEMMA Alone ==
  ASSUME LockInv, NEW s \in Sender, mutex = s, NEW r \in Sender, r # s
  PROVE  spc[r] = "idle"
BY DEF LockInv

\* A step of the sender that holds the mutex: only its own state counts.
LEMMA SenderMoves ==
  ASSUME LockInv, TypeOK', RegionsOK(wbuf'),
         NEW s \in Sender, mutex = s, spc[s] # "idle",
         \A r \in Sender \ {s} : spc'[r] = spc[r],
         UNCHANGED wpc,
         IF spc'[s] = "idle" THEN mutex' = Free /\ Exact' ELSE mutex' = s /\ SenderInv(s)',
         Pending => Pending',
         mask' = mask \/ Pending'
  PROVE  LockInv'
<1>1. wpc # "sent"
  BY SenderAssumption DEF LockInv
<1>2. ASSUME NEW r \in Sender, r # s PROVE spc'[r] = "idle"
  BY <1>2, Alone
<1>3. \A r \in Sender : spc'[r] # "idle" <=> mutex' = r
  BY <1>2, SenderAssumption
<1>4. mutex' # Worker
  BY SenderAssumption
<1>5. \A r \in Sender : SenderInv(r)'
  BY <1>2 DEF SenderInv, Exact
<1>6. mask' = "OUT" => Pending'
  BY <1>1 DEF LockInv
<1>7. mutex' = Free => Exact'
  BY SenderAssumption
<1> QED BY <1>1, <1>3, <1>4, <1>5, <1>6, <1>7 DEF LockInv

LEMMA StepBegin ==
  ASSUME Checked = Sender, LockInv, NEW s \in Sender, Begin(s) PROVE LockInv'
<1> USE DEF Begin, Goto, kernel
<1>1. mutex = Free /\ mutex' = s /\ spc[s] = "idle" /\ UNCHANGED <<wbuf, lock, mask>>
  OBVIOUS
<1>2. spc' = [spc EXCEPT ![s] = IF s \in Checked THEN "room" ELSE "header"]
  OBVIOUS
<1>3. PICK f \in Frame : frame' = [frame EXCEPT ![s] = f]
  OBVIOUS
<1>4. wpc' \in WorkerPC /\ (wpc' = wpc \/ wpc' = "reply") /\ wpc # "sent" /\ wpc' # "sent"
  <2>1. wpc # "sent"
    BY <1>1, SenderAssumption DEF LockInv
  <2> QED BY <2>1 DEF LockInv, TypeOK, WorkerPC
<1>5. TypeOK'
  <2>1. spc' \in [Sender -> SenderPC]
    BY <1>2 DEF LockInv, TypeOK, SenderPC
  <2>2. frame' \in [Sender -> Frame]
    BY <1>3 DEF LockInv, TypeOK
  <2> QED BY <1>1, <1>4, <2>1, <2>2 DEF LockInv, TypeOK
<1>6. LockInv'
  <2>1. Exact /\ Exact'
    BY <1>1, SenderAssumption DEF LockInv, Exact, Pending
  <2>2. spc'[s] = "room" /\ \A r \in Sender \ {s} : spc'[r] = spc[r] /\ spc[r] = "idle"
    BY <1>1, <1>2, SenderAssumption DEF LockInv, TypeOK
  <2>3. \A r \in Sender : SenderInv(r)'
    BY <2>1, <2>2 DEF SenderInv, Exact
  <2>4. \A r \in Sender : spc'[r] # "idle" <=> mutex' = r
    BY <1>1, <2>2, SenderAssumption
  <2>5. mutex' # Worker /\ mutex' # Free
    BY <1>1, SenderAssumption
  <2>6. Pending' = Pending
    BY <1>1 DEF Pending
  <2> QED BY <1>1, <1>4, <1>5, <2>3, <2>4, <2>5, <2>6 DEF LockInv
<1> QED BY <1>6

\* A sender's step inside its burst: what it does to its own state.
LEMMA StepSender ==
  ASSUME LockInv, NEW s \in Sender, SenderStep(s) PROVE LockInv'
<1>0. /\ mutex = s /\ SenderInv(s) /\ BufferOK(wbuf) /\ mutex # Free
      /\ frame[s].head \in Nat /\ frame[s].head > 0 /\ frame[s].body \in Nat
      /\ GetSize(wbuf) \in Nat /\ spc[s] # "idle"
      /\ GetSpace(wbuf) \in Nat
  <2>1. spc[s] # "idle"
    BY DEF SenderStep, Room, Header, Body, Acquire, Post, End
  <2>2. BufferOK(wbuf) /\ mutex = s /\ SenderInv(s)
    BY <2>1 DEF LockInv, TypeOK, BufferOK
  <2>3. frame[s] \in [head : Nat \ {0}, body : Nat]
    BY FrameAssumption DEF LockInv, TypeOK
  <2>4. GetSize(wbuf) \in Nat
    BY <2>2 DEF BufferOK, Buffer, GetSize
  <2> QED BY <2>1, <2>2, <2>3, <2>4, SettleOK, SenderAssumption
<1>a. ASSUME NEW label \in SenderPC, Goto(s, label)
      PROVE  /\ spc' \in [Sender -> SenderPC] /\ spc'[s] = label
             /\ \A r \in Sender \ {s} : spc'[r] = spc[r]
  BY <1>a DEF Goto, LockInv, TypeOK
<1>1. CASE Room(s)
  <2> DEFINE label == IF GetSpace(wbuf) < frame[s].head + frame[s].body THEN "end" ELSE "header"
  <2>1. Goto(s, label) /\ wbuf' = Settle(wbuf) /\ spc[s] = "room" /\ label \in SenderPC
        /\ UNCHANGED <<mutex, lock, frame, wpc, mask, ready, kqueue, nospace, input>>
    BY <1>1 DEF Room, kernel, SenderPC
  <2>2. BufferOK(wbuf') /\ GetSpace(wbuf') = GetSpace(wbuf) /\ (Pending' <=> Pending)
    BY <1>0, <2>1, SettleOK DEF Pending, GetSize
  <2>3. Exact /\ Exact'
    BY <1>0, <2>1, <2>2 DEF SenderInv, Exact
  <2>4. TypeOK'
    BY <1>a, <2>1, <2>2 DEF LockInv, TypeOK, BufferOK
  <2>5. SenderInv(s)'
    BY <1>0, <1>a, <2>1, <2>2, <2>3 DEF SenderInv
  <2> QED BY <1>0, <1>a, <2>1, <2>2, <2>4, <2>5, SenderMoves DEF BufferOK, SenderPC
<1>2. CASE Header(s)
  <2> DEFINE n == frame[s].head
             label == IF ~CanWrite(wbuf, n) THEN "end"
                      ELSE IF frame[s].body > 0 THEN "body" ELSE "acquire"
  <2>1. Goto(s, label) /\ wbuf' = Write(wbuf, AnyBytes(n)) /\ spc[s] = "header" /\ label \in SenderPC
        /\ UNCHANGED <<mutex, lock, frame, wpc, mask, ready, kqueue, nospace, input>>
    BY <1>2 DEF Header, kernel, SenderPC
  <2>2. Exact /\ GetSpace(wbuf) >= n + frame[s].body
    BY <1>0, <2>1 DEF SenderInv
  <2>3. /\ CanWrite(wbuf, n) /\ BufferOK(wbuf') /\ GetSpace(wbuf') >= frame[s].body
        /\ GetSize(wbuf') = GetSize(wbuf) + n
    <3>1. n <= GetSpace(wbuf)
      BY <1>0, <2>2
    <3>2. GetSpace(wbuf') \in Nat
      BY <1>0, <2>1, <3>1, AppendChunk, SettleOK
    <3> QED BY <1>0, <2>1, <2>2, <3>1, <3>2, AppendChunk
  <2>4. Pending'
    BY <1>0, <2>3 DEF Pending
  <2>5. label \in {"body", "acquire"} /\ (lock = 1 => mask = "OUT")
    BY <2>2, <2>3 DEF Exact
  <2>6. TypeOK'
    BY <1>a, <2>1, <2>3 DEF LockInv, TypeOK, BufferOK
  <2> HIDE DEF label
  <2>7. SenderInv(s)'
    BY <1>0, <1>a, <2>1, <2>3, <2>4, <2>5 DEF SenderInv
  <2> QED BY <1>0, <1>a, <2>1, <2>3, <2>4, <2>5, <2>6, <2>7, SenderMoves DEF BufferOK
<1>3. CASE Body(s)
  <2> DEFINE n == frame[s].body
  <2>1. /\ Goto(s, IF CanWrite(wbuf, n) THEN "acquire" ELSE "end")
        /\ wbuf' = Write(wbuf, AnyBytes(n)) /\ spc[s] = "body"
        /\ UNCHANGED <<mutex, lock, frame, wpc, mask, ready, kqueue, nospace, input>>
    BY <1>3 DEF Body, kernel
  <2>2. Pending /\ n <= GetSpace(wbuf) /\ (lock = 1 => mask = "OUT")
    BY <1>0, <2>1 DEF SenderInv
  <2>3. /\ CanWrite(wbuf, n) /\ BufferOK(wbuf')
        /\ GetSize(wbuf') = GetSize(wbuf) + n
    BY <1>0, <2>1, <2>2, AppendChunk
  <2>4. Pending' /\ Goto(s, "acquire") /\ "acquire" \in SenderPC
    BY <1>0, <2>1, <2>2, <2>3 DEF Pending, SenderPC
  <2>5. TypeOK'
    BY <1>a, <2>1, <2>3, <2>4 DEF LockInv, TypeOK, BufferOK
  <2>6. SenderInv(s)'
    BY <1>a, <2>1, <2>2, <2>4 DEF SenderInv
  <2> QED BY <1>0, <1>a, <2>1, <2>3, <2>4, <2>5, <2>6, SenderMoves DEF BufferOK
<1>4. CASE Acquire(s)
  <2> DEFINE label == IF lock = 0 THEN "post" ELSE "end"
  <2>1. /\ Goto(s, label) /\ label \in SenderPC /\ lock' = 1 /\ spc[s] = "acquire"
        /\ UNCHANGED <<wbuf, mutex, frame, wpc, mask, ready, kqueue, nospace, input>>
    BY <1>4 DEF Acquire, kernel, SenderPC
  <2>2. Pending /\ Pending' /\ (lock = 1 => mask = "OUT")
    BY <1>0, <2>1 DEF SenderInv, Pending
  <2>3. TypeOK' /\ RegionsOK(wbuf')
    BY <1>a, <2>1 DEF LockInv, TypeOK
  <2>4. lock \in {0, 1}
    BY DEF LockInv, TypeOK
  <2>5. label = "post" \/ (label = "end" /\ mask = "OUT")
    BY <2>2, <2>4
  <2> HIDE DEF label
  <2>6. SenderInv(s)'
    BY <1>a, <2>1, <2>2, <2>5 DEF SenderInv, Exact
  <2> QED BY <1>0, <1>a, <2>1, <2>2, <2>3, <2>5, <2>6, SenderMoves
<1>5. CASE Post(s)
  <2>1. /\ Goto(s, "end") /\ "end" \in SenderPC /\ spc[s] = "post" /\ mask' = "OUT"
        /\ ready' \in BOOLEAN /\ nospace' \in BOOLEAN
        /\ UNCHANGED <<wbuf, mutex, lock, frame, wpc, kqueue, input>>
    BY <1>5 DEF Post, PostEvent, Polled, Owes, Readable, Writable, SenderPC, LockInv, TypeOK
  <2>2. Pending /\ Pending' /\ lock' = 1
    BY <1>0, <2>1 DEF SenderInv, Pending
  <2>3. TypeOK' /\ RegionsOK(wbuf')
    BY <1>a, <2>1 DEF LockInv, TypeOK
  <2>4. SenderInv(s)'
    BY <1>a, <2>1, <2>2 DEF SenderInv, Exact
  <2> QED BY <1>0, <1>a, <2>1, <2>2, <2>3, <2>4, SenderMoves
<1>6. CASE End(s)
  <2>1. /\ Goto(s, "idle") /\ "idle" \in SenderPC /\ spc[s] = "end" /\ mutex' = Free
        /\ UNCHANGED <<wbuf, lock, frame, wpc, mask, ready, kqueue, nospace, input>>
    BY <1>6 DEF End, kernel, SenderPC
  <2>2. Exact' /\ (Pending' <=> Pending)
    BY <1>0, <2>1 DEF SenderInv, Exact, Pending
  <2>3. TypeOK' /\ RegionsOK(wbuf')
    BY <1>a, <2>1 DEF LockInv, TypeOK
  <2> QED BY <1>0, <1>a, <2>1, <2>2, <2>3, SenderMoves
<1> QED BY <1>1, <1>2, <1>3, <1>4, <1>5, <1>6 DEF SenderStep

\* A step of the kernel or of the worker outside m_writeMutex: the mask is
\* kept, or goes to EPOLLOUT while bytes are queued.
LEMMA QuietMoves ==
  ASSUME LockInv, TypeOK', UNCHANGED <<wbuf, mutex, lock, spc, frame>>,
         wpc' = "sent" <=> wpc = "sent",
         wpc' \in {"lock", "switch", "out"} => Pending,
         mask' = mask \/ (mask' = "OUT" /\ Pending /\ wpc # "sent")
  PROVE  LockInv'
<1>1. Pending' <=> Pending
  BY DEF Pending
<1>2. Exact => Exact'
  BY <1>1 DEF Exact
<1>3. ASSUME NEW s \in Sender PROVE SenderInv(s)'
  BY <1>1, <1>2 DEF LockInv, SenderInv
<1>4. RegionsOK(wbuf')
  BY DEF LockInv
<1> QED BY <1>1, <1>2, <1>3, <1>4 DEF LockInv

LEMMA StepKernel ==
  ASSUME LockInv, PeerTakes \/ \E n \in 1 .. InputMax : PeerSends(n) PROVE LockInv'
<1>1. /\ UNCHANGED <<wbuf, mutex, lock, spc, frame, wpc, mask>>
      /\ ready' \in BOOLEAN /\ nospace' \in BOOLEAN
  BY DEF PeerTakes, PeerSends, LockInv, TypeOK
<1>2. kqueue' \in 0 .. KernelSize /\ input' \in 0 .. InputMax
  BY KernelAssumption DEF PeerTakes, PeerSends, LockInv, TypeOK
<1>3. TypeOK'
  BY <1>1, <1>2 DEF LockInv, TypeOK
<1>4. wpc \in {"lock", "switch", "out"} => Pending
  BY DEF LockInv
<1> QED BY <1>1, <1>3, <1>4, QuietMoves

LEMMA StepWorker ==
  ASSUME LockInv, WorkerStep PROVE LockInv'
<1>0. BufferOK(wbuf) /\ GetSize(wbuf) \in Nat
  BY DEF LockInv, TypeOK, BufferOK, Buffer, GetSize
<1>1. CASE Wait
  <2>1. /\ UNCHANGED <<wbuf, mutex, lock, spc, frame, mask, kqueue, input>>
        /\ wpc = "wait" /\ ready' \in BOOLEAN /\ nospace' \in BOOLEAN
        /\ wpc' \in {"wait", "read", "out"} /\ (wpc' = "out" => mask = "OUT")
    BY <1>1 DEF Wait, Owes, Writable, LockInv, TypeOK
  <2>2. wpc' = "out" => Pending
    BY <2>1 DEF LockInv
  <2>3. TypeOK'
    BY <2>1 DEF LockInv, TypeOK, WorkerPC
  <2> QED BY <2>1, <2>2, <2>3, QuietMoves
<1>2. CASE ReadCallback
  <2>1. /\ UNCHANGED <<wbuf, mutex, lock, spc, frame, mask, ready, kqueue, nospace>>
        /\ wpc = "read" /\ wpc' = "onread"
    BY <1>2 DEF ReadCallback
  <2>2. input' \in 0 .. InputMax
    BY <1>2, KernelAssumption DEF ReadCallback, LockInv, TypeOK
  <2>3. TypeOK'
    BY <2>1, <2>2 DEF LockInv, TypeOK, WorkerPC
  <2> QED BY <2>1, <2>3, QuietMoves
<1>3. CASE SizeTest
  <2>1. /\ UNCHANGED <<wbuf, mutex, lock, spc, frame, mask, ready, kqueue, nospace, input>>
        /\ wpc # "sent" /\ wpc' \in {"lock", "wait"} /\ (wpc' = "lock" => Pending)
    BY <1>3 DEF SizeTest, kernel, Pending
  <2>2. TypeOK'
    BY <2>1 DEF LockInv, TypeOK, WorkerPC
  <2> QED BY <2>1, <2>2, QuietMoves
<1>4. CASE LockTest
  <2>1. /\ UNCHANGED <<wbuf, mutex, lock, spc, frame, mask, ready, kqueue, nospace, input>>
        /\ wpc = "lock" /\ wpc' \in {"switch", "wait"}
    BY <1>4 DEF LockTest, kernel
  <2>2. TypeOK' /\ Pending
    BY <2>1 DEF LockInv, TypeOK, WorkerPC
  <2> QED BY <2>1, <2>2, QuietMoves
<1>5. CASE Switch
  <2>1. /\ UNCHANGED <<wbuf, mutex, lock, spc, frame, kqueue, input>>
        /\ wpc = "switch" /\ wpc' = "wait" /\ mask' = "OUT"
        /\ ready' \in BOOLEAN /\ nospace' \in BOOLEAN
    BY <1>5 DEF Switch, PostEvent, Polled, Owes, Readable, Writable, LockInv, TypeOK
  <2>2. TypeOK' /\ Pending
    BY <2>1 DEF LockInv, TypeOK, WorkerPC
  <2> QED BY <2>1, <2>2, QuietMoves
<1>6. CASE WriteCallback
  <2> DEFINE offered == GetContiguousBytes(wbuf)
             n == Lesser(offered, KernelSize - kqueue)
  <2>1. /\ wpc = "out" /\ mutex = Free /\ mutex' = Worker /\ wbuf' = Remove(wbuf, n)
        /\ kqueue' = kqueue + n /\ wpc' = "sent"
        /\ UNCHANGED <<lock, spc, frame, mask, ready, input>>
    BY <1>6 DEF WriteCallback
  <2>2. nospace' \in BOOLEAN
    BY <1>6 DEF WriteCallback, LockInv, TypeOK
  <2>3. n \in Nat /\ kqueue + n \in 0 .. KernelSize
    BY <1>0, KernelAssumption DEF Lesser, GetContiguousBytes, LockInv, TypeOK, BufferOK, Buffer
  <2> HIDE DEF n
  <2>4. BufferOK(wbuf')
    BY <1>0, <2>1, <2>3, RemoveOK
  <2>5. TypeOK'
    BY <2>1, <2>2, <2>3, <2>4 DEF LockInv, TypeOK, WorkerPC, BufferOK
  <2>6. lock' = 1 /\ mask' = "OUT"
    BY <2>1 DEF LockInv, Exact
  <2>7. \A s \in Sender : spc[s] = "idle" /\ mutex' # s
    BY <2>1, SenderAssumption DEF LockInv
  <2>8. \A s \in Sender : SenderInv(s)'
    BY <2>1, <2>7 DEF SenderInv
  <2>9. mutex' # Free
    BY <2>1, SenderAssumption
  <2> QED BY <2>1, <2>4, <2>5, <2>6, <2>7, <2>8, <2>9 DEF LockInv, BufferOK
<1>7. CASE KeepWriting
  <2>1. /\ UNCHANGED <<wbuf, lock, spc, frame, mask, ready, kqueue, nospace, input>>
        /\ wpc = "sent" /\ wpc' = "wait" /\ mutex' = Free /\ Pending
    BY <1>7 DEF KeepWriting, kernel, Pending
  <2>2. TypeOK' /\ RegionsOK(wbuf')
    BY <2>1 DEF LockInv, TypeOK, WorkerPC
  <2>3. mutex = Worker /\ lock = 1 /\ mask = "OUT"
    BY <2>1 DEF LockInv
  <2>4. Exact' /\ Pending'
    BY <2>1, <2>3 DEF Exact, Pending
  <2>5. \A s \in Sender : spc'[s] = "idle" /\ mutex' # s
    BY <2>1, <2>3, SenderAssumption DEF LockInv
  <2>6. mutex' # Worker
    BY <2>1, SenderAssumption
  <2>7. \A s \in Sender : SenderInv(s)'
    BY <2>5 DEF SenderInv
  <2> QED BY <2>1, <2>2, <2>4, <2>5, <2>6, <2>7 DEF LockInv
<1>8. CASE BackToReading
  <2>1. /\ UNCHANGED <<wbuf, spc, frame, kqueue, input>> /\ lock' = lock - 1
        /\ wpc = "sent" /\ wpc' = "wait" /\ mutex' = Free /\ mask' = "IN" /\ ~ Pending
        /\ ready' \in BOOLEAN /\ nospace' \in BOOLEAN
    BY <1>0, <1>8
       DEF BackToReading, PostEvent, Polled, Owes, Readable, Writable, Pending, LockInv, TypeOK
  <2>2. mutex = Worker /\ lock' = 0
    BY <2>1 DEF LockInv
  <2>3. TypeOK' /\ RegionsOK(wbuf')
    BY <2>1, <2>2 DEF LockInv, TypeOK, WorkerPC
  <2>4. Exact' /\ ~ Pending'
    BY <2>1, <2>2 DEF Exact, Pending
  <2>5. \A s \in Sender : spc'[s] = "idle" /\ mutex' # s
    BY <2>1, <2>2, SenderAssumption DEF LockInv
  <2>6. mutex' # Worker
    BY <2>1, SenderAssumption
  <2>7. \A s \in Sender : SenderInv(s)'
    BY <2>5 DEF SenderInv
  <2> QED BY <2>1, <2>3, <2>4, <2>5, <2>6, <2>7 DEF LockInv
<1> QED BY <1>1, <1>2, <1>3, <1>4, <1>5, <1>6, <1>7, <1>8 DEF WorkerStep

LEMMA LockStep == Checked = Sender /\ LockInv /\ [Next]_vars => LockInv'
<1> SUFFICES ASSUME Checked = Sender, LockInv, [Next]_vars PROVE LockInv'
  OBVIOUS
<1>1. CASE UNCHANGED vars
  BY <1>1 DEF vars, kernel, LockInv, TypeOK, SenderInv, Exact, Pending
<1>2. CASE Next
  BY <1>2, StepBegin, StepSender, StepWorker, StepKernel DEF Next
<1> QED BY <1>1, <1>2

\* The send lock is 0 or 1, and every other variable keeps its type.
THEOREM SocketTypeCorrect == Checked = Sender => (Spec => []TypeOK)
<1> SUFFICES ASSUME Checked = Sender PROVE Spec => []TypeOK
  OBVIOUS
<1>0. LockInv /\ [Next]_vars => LockInv'
  BY LockStep
<1>1. LockInv => TypeOK
  BY DEF LockInv
<1> QED BY <1>0, <1>1, LockInit, PTL DEF Spec

\* Whenever nobody is inside a burst, the send lock is held and a write event
\* asked for exactly when bytes are queued.
THEOREM SendLockExact == Checked = Sender => (Spec => []LockExact)
<1> SUFFICES ASSUME Checked = Sender PROVE Spec => []LockExact
  OBVIOUS
<1>0. LockInv /\ [Next]_vars => LockInv'
  BY LockStep
<1>1. LockInv => LockExact
  BY DEF LockInv, LockExact, Exact
<1> QED BY <1>0, <1>1, LockInit, PTL DEF Spec

\* Both: the sending side stays in order.
THEOREM SocketConsistent == Checked = Sender => (Spec => []Consistent)
<1> SUFFICES ASSUME Checked = Sender PROVE Spec => []Consistent
  OBVIOUS
<1>1. Spec => []TypeOK
  BY SocketTypeCorrect
<1>2. Spec => []LockExact
  BY SendLockExact
<1> QED BY <1>1, <1>2, PTL DEF Consistent

=============================================================================
