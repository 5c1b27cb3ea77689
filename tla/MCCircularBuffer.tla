-------------------------- MODULE MCCircularBuffer --------------------------
(***************************************************************************)
(* CircularBuffer on a block of Size bytes with chunks of at most MaxChunk.*)
(***************************************************************************)
EXTENDS CircularBuffer

CONSTANT MaxChunk    \* bound: the longest byte string of one call

MCChunk == UNION {[1 .. k -> Byte] : k \in 0 .. MaxChunk}

MCCount == 0 .. Size

=============================================================================
