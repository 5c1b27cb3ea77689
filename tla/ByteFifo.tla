------------------------------ MODULE ByteFifo ------------------------------
(***************************************************************************)
(* What a byte buffer of the network layer promises to its callers: a      *)
(* bounded first-in first-out queue of bytes that may turn a write away    *)
(* only when the queued and the offered bytes together exceed half of the  *)
(* allocated capacity.  CircularBuffer implements it.                      *)
(***************************************************************************)
EXTENDS Naturals, Sequences

CONSTANTS Chunk,     \* the byte strings a caller may offer
          Count,     \* the numbers of bytes a caller may ask for
          Capacity   \* the number of bytes allocated

VARIABLES q,         \* the queued bytes, oldest first
          reply      \* what the last call returned: [ok, data]

vars == <<q, reply>>

Answer(ok, data) == [ok |-> ok, data |-> data]

Prefix(n) == SubSeq(q, 1, n)

Rest(n) == SubSeq(q, n + 1, Len(q))

Init == q = <<>> /\ reply = Answer(TRUE, <<>>)

\* A write is taken whole.
Put(data) ==
    /\ Len(q) + Len(data) <= Capacity
    /\ q' = q \o data
    /\ reply' = Answer(TRUE, <<>>)

\* A write is turned away whole, and only when the buffer is half full with it.
Refuse(data) ==
    /\ 2 * (Len(q) + Len(data)) > Capacity
    /\ UNCHANGED q
    /\ reply' = Answer(FALSE, <<>>)

\* A read of n bytes gives the n oldest ones and forgets them, or nothing.
Take(n) ==
    \/ /\ n <= Len(q)
       /\ q' = Rest(n)
       /\ reply' = Answer(TRUE, Prefix(n))
    \/ /\ n > Len(q)
       /\ UNCHANGED q
       /\ reply' = Answer(FALSE, <<>>)

\* The n oldest bytes are forgotten (all of them when there are fewer).
Drop(n) ==
    /\ q' = IF n <= Len(q) THEN Rest(n) ELSE <<>>
    /\ reply' = Answer(TRUE, <<>>)

Next ==
    \/ \E data \in Chunk : Put(data) \/ Refuse(data)
    \/ \E n \in Count : Take(n) \/ Drop(n)

Spec == Init /\ [][Next]_vars

=============================================================================
