--------------------------- MODULE CircularBuffer ---------------------------
(***************************************************************************)
(* One CircularBuffer under the calls the network layer makes on it: the   *)
(* read buffer of a socket is filled by recv and emptied by Read and       *)
(* Remove; the write buffer is filled by BurstSend and emptied by send.    *)
(* On Windows a send is asynchronous: the kernel reads the front of the    *)
(* buffer between WSASend and its completion, while other threads go on    *)
(* writing.  Every call is made under the socket's read or write mutex, so *)
(* it is one step here.                                                    *)
(***************************************************************************)
EXTENDS BipBuffer

CONSTANTS Chunk,     \* the byte strings a caller may write or the peer may send
          Count,     \* the numbers of bytes a caller may read or remove
          NoSend     \* no asynchronous send in flight

ASSUME ChunkAssumption ==
    /\ Chunk \subseteq Seq(Byte)
    /\ \A c \in Chunk : \A n \in 0 .. Len(c) : SubSeq(c, 1, n) \in Chunk
ASSUME CountAssumption == Count \subseteq Nat
ASSUME NoSendAssumption == NoSend \notin [at : 0 .. Size, data : Seq(Byte)]

VARIABLES buf,       \* the CircularBuffer
          send,      \* the asynchronous send in flight, or NoSend
          reply      \* what the last call returned: [ok, data]

bufferVars == <<buf, send, reply>>

Answer(ok, data) == [ok |-> ok, data |-> data]

\* A send in flight: where the kernel reads, and what was there when it was
\* handed over.
Send == [at : 0 .. Size, data : Seq(Byte)]

BufferInit ==
    /\ \E junk \in [Offset -> Byte] : buf = Allocated(junk)
    /\ send = NoSend
    /\ reply = Answer(TRUE, <<>>)

\* BurstSend: Write of the write buffer.
CallWrite(data) ==
    /\ buf' = Write(buf, data)
    /\ reply' = Answer(CanWrite(buf, Len(data)), <<>>)
    /\ UNCHANGED send

\* Read, by the OnRead handlers.
CallRead(n) ==
    /\ send = NoSend
    /\ buf' = Read(buf, n)
    /\ reply' = IF CanRead(buf, n) THEN Answer(TRUE, ReadBytes(buf, n))
                                   ELSE Answer(FALSE, <<>>)
    /\ UNCHANGED send

\* Remove, by the OnRead handlers and after a synchronous send.
CallRemove(n) ==
    /\ send = NoSend
    /\ buf' = Remove(buf, n)
    /\ reply' = Answer(TRUE, <<>>)
    /\ UNCHANGED send

\* ReadCallback: GetSpace, recv into GetBuffer, IncrementWritten.  A recv of
\* no bytes, for want of space, ends the connection: the reply is FALSE.
CallReceive(data) ==
    LET s == Settle(buf)
        n == IF Len(data) <= GetSpace(buf) THEN Len(data) ELSE GetSpace(buf)
    IN  /\ data # <<>>
        /\ buf' = IF n = 0 THEN s
                  ELSE IncrementWritten(
                          [s EXCEPT !.mem = Copy(@, GetBuffer(s), SubSeq(data, 1, n))], n)
        /\ reply' = Answer(n > 0, <<>>)
        /\ UNCHANGED send

\* WriteCallback of SocketWin32: WSASend of the contiguous bytes at the front.
StartSend ==
    /\ send = NoSend
    /\ GetContiguousBytes(buf) > 0
    /\ send' = [at   |-> GetBufferStart(buf),
                data |-> Bytes(buf.mem, GetBufferStart(buf), GetContiguousBytes(buf))]
    /\ UNCHANGED <<buf, reply>>

\* HandleWriteComplete: the kernel took n of the bytes it was given.
FinishSend(n) ==
    /\ send # NoSend
    /\ n \in 1 .. Len(send.data)
    /\ buf' = Remove(buf, n)
    /\ send' = NoSend
    /\ reply' = Answer(TRUE, <<>>)

BufferNext ==
    \/ \E data \in Chunk : CallWrite(data) \/ CallReceive(data)
    \/ \E n \in Count : CallRead(n) \/ CallRemove(n) \/ FinishSend(n)
    \/ StartSend

BufferSpec == BufferInit /\ [][BufferNext]_bufferVars

-----------------------------------------------------------------------------
BufferTypeOK ==
    /\ buf \in Buffer
    /\ send \in Send \cup {NoSend}
    /\ reply \in [ok : BOOLEAN, data : Seq(Byte)]

\* The regions of the buffer never overlap or leave the block, whatever the
\* order in which Write, Read, Remove and recv are called.
Regions == RegionsOK(buf)

\* While an asynchronous send is in flight the bytes the kernel was given stay
\* where they are, unchanged, at the front of the buffer: a concurrent Write
\* neither moves nor overwrites them, so removing what was sent removes them.
SendIntact ==
    send # NoSend =>
        /\ Bytes(buf.mem, send.at, Len(send.data)) = send.data
        /\ SubSeq(Content(buf), 1, Len(send.data)) = send.data

\* GetSpace is 0 only when more than half of the block is in use: recv is
\* called with length 0, which ReadCallback takes for a closed connection,
\* only then.
FullOnlyPastHalf == GetSpace(buf) = 0 => 2 * GetSize(buf) > Size

\* WorldSocket::_OutPacket checks GetSpace once for header and body and then
\* writes them with two BurstSends: when the check passes both fit, even when
\* the second one opens the other region, so a header never goes without its
\* body.
FrameWhole ==
    \A h, d \in Chunk :
        Len(h) + Len(d) <= GetSpace(buf) =>
            /\ CanWrite(Settle(buf), Len(h))
            /\ CanWrite(Write(Settle(buf), h), Len(d))

\* The buffer implements a FIFO that turns a write away only past half full.
Fifo == INSTANCE ByteFifo WITH q <- Content(buf), Capacity <- Size
ImplementsFifo == Fifo!Spec

\* The buffer is in order: its fields have their types, its regions are apart
\* and inside the block, and it never reports no room while half of it is free.
BufferSound == BufferTypeOK /\ Regions /\ FullOnlyPastHalf
=============================================================================
