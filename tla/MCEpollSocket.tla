--------------------------- MODULE MCEpollSocket ---------------------------
(***************************************************************************)
(* EpollSocket with a header of one byte and bodies of up to MaxBody.      *)
(***************************************************************************)
EXTENDS EpollSocket

CONSTANT MaxBody     \* bound: the longest body

MCFrame == [head : {1}, body : 0 .. MaxBody]

=============================================================================
