----------------------------- MODULE BipBuffer ------------------------------
(***************************************************************************)
(* The operations of CircularBuffer (src/shared/Container), a bip buffer:  *)
(* one malloc'ed block with a region A that holds the oldest bytes and a   *)
(* region B, in front of A, that takes over when A has reached the end of  *)
(* the block.  A buffer is a record; a pointer is an offset into the block *)
(* or NULL.  Nothing here is a state machine: CircularBuffer.tla and       *)
(* EpollSocket.tla are built from these operators.                         *)
(***************************************************************************)
EXTENDS Integers, Sequences

CONSTANTS Size,      \* the bytes Allocate was asked for
          Byte,      \* the values a byte can take
          NULL       \* the null pointer

ASSUME SizeAssumption == Size \in Nat \ {0}
ASSUME NullAssumption == NULL \notin Int

Offset == 0 .. Size - 1

Buffer == [mem   : [Offset -> Byte],     \* the block
           aPtr  : 0 .. Size, aSize : 0 .. Size,
           bPtr  : (0 .. Size) \cup {NULL}, bSize : 0 .. Size]

\* Constructor and Allocate; malloc leaves the block's content arbitrary.
Allocated(junk) ==
    [mem |-> junk, aPtr |-> 0, aSize |-> 0, bPtr |-> NULL, bSize |-> 0]

GetAFreeSpace(b) == Size - b.aPtr - b.aSize

GetSpaceBeforeA(b) == b.aPtr

\* Plausible mistakes in it: B's own bytes forgotten; B taken to end with the
\* block instead of in front of A.
GetBFreeSpaceWithoutSize(b) == IF b.bPtr = NULL THEN 0 ELSE b.aPtr - b.bPtr

GetBFreeSpaceToEnd(b) == IF b.bPtr = NULL THEN 0 ELSE Size - b.bPtr - b.bSize

GetBFreeSpace(b) == IF b.bPtr = NULL THEN 0 ELSE b.aPtr - b.bPtr - b.bSize

AllocateB(b) == [b EXCEPT !.bPtr = 0]

\* A plausible mistake: the space in front of A is never used.
SettleNever(b) == b

\* The choice of region that Write and GetSpace both begin with: B is
\* allocated for good, even when the call then finds no room in it.
Settle(b) ==
    IF b.bPtr = NULL /\ GetAFreeSpace(b) < GetSpaceBeforeA(b)
    THEN AllocateB(b)
    ELSE b

\* GetSpace: the value returned (its effect on the buffer is Settle).
GetSpace(b) ==
    IF Settle(b).bPtr # NULL THEN GetBFreeSpace(Settle(b)) ELSE GetAFreeSpace(b)

GetSize(b) == b.aSize + b.bSize

GetContiguousBytes(b) == IF b.aSize > 0 THEN b.aSize ELSE b.bSize

GetBufferStart(b) == IF b.aSize > 0 THEN b.aPtr ELSE b.bPtr

GetBuffer(b) == IF b.bPtr # NULL THEN b.bPtr + b.bSize ELSE b.aPtr + b.aSize

\* A plausible mistake: region B is forgotten.
IncrementWrittenA(b, n) == [b EXCEPT !.aSize = @ + n]

IncrementWritten(b, n) ==
    IF b.bPtr # NULL THEN [b EXCEPT !.bSize = @ + n]
                     ELSE [b EXCEPT !.aSize = @ + n]

\* memcpy of data to offset p of the block.
Copy(mem, p, data) ==
    [i \in Offset |-> IF i >= p /\ i < p + Len(data) THEN data[i - p + 1] ELSE mem[i]]

\* The bytes at offsets p .. p + n - 1.
Bytes(mem, p, n) == [i \in 1 .. n |-> mem[p + i - 1]]

\* A plausible mistake: a write may not fill the region.
CanWriteStrict(b, n) == n < GetSpace(b)

\* Write: TRUE exactly when the settled region has room.
CanWrite(b, n) == n <= GetSpace(b)

Write(b, data) ==
    LET s == Settle(b)
    IN  IF CanWrite(b, Len(data))
        THEN IncrementWritten([s EXCEPT !.mem = Copy(@, GetBuffer(s), data)], Len(data))
        ELSE s

\* How many of n bytes come out of region A, and out of region B after it.
Lesser(x, y) == IF x < y THEN x ELSE y
FromA(b, n) == Lesser(n, b.aSize)
FromB(b, n) == Lesser(n - FromA(b, n), b.bSize)

\* A plausible mistake: B becomes A without its bytes being moved.
CompactInPlace(b) ==
    IF b.aSize > 0 THEN b
    ELSE [b EXCEPT !.aPtr = 0, !.aSize = b.bSize, !.bPtr = NULL, !.bSize = 0]

\* The end of Read and of Remove: when A has run empty what is left of B is
\* moved to the start of the block and becomes A.
Compact(b) ==
    IF b.aSize > 0 THEN b
    ELSE [mem   |-> IF b.bSize > 0 THEN Copy(b.mem, 0, Bytes(b.mem, b.bPtr, b.bSize))
                                   ELSE b.mem,
          aPtr  |-> 0,    aSize |-> b.bSize,
          bPtr  |-> NULL, bSize |-> 0]

\* Remove.
Remove(b, n) ==
    LET a == FromA(b, n)
        k == FromB(b, n)
    IN  Compact([b EXCEPT !.aPtr  = @ + a, !.aSize = @ - a,
                          !.bPtr  = IF k > 0 THEN @ + k ELSE @, !.bSize = @ - k])

\* Read: all of n bytes or nothing.  The destination gets ReadBytes.
CanRead(b, n) == n <= GetSize(b)

ReadBytes(b, n) ==
    Bytes(b.mem, b.aPtr, FromA(b, n)) \o
        (IF FromB(b, n) > 0 THEN Bytes(b.mem, b.bPtr, FromB(b, n)) ELSE <<>>)

Read(b, n) == IF CanRead(b, n) THEN Remove(b, n) ELSE b

\* What the buffer holds, oldest byte first.
Content(b) ==
    Bytes(b.mem, b.aPtr, b.aSize) \o
        (IF b.bSize > 0 THEN Bytes(b.mem, b.bPtr, b.bSize) ELSE <<>>)

\* Between calls the two regions lie in the block without overlapping, B
\* starts at the block's first byte, exists only while A has bytes, and was
\* opened because it was larger than what A had left.
RegionsOK(b) ==
    /\ b.aPtr + b.aSize <= Size
    /\ b.aSize = 0 => b.aPtr = 0 /\ b.bPtr = NULL
    /\ b.bPtr = NULL => b.bSize = 0
    /\ b.bPtr # NULL => /\ b.bPtr = 0
                        /\ b.bSize <= b.aPtr
                        /\ GetAFreeSpace(b) < b.aPtr

BufferOK(b) == b \in Buffer /\ RegionsOK(b)

=============================================================================
