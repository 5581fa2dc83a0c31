--------------------------- MODULE MCClientBuffer ---------------------------
(* A buffer of four bytes drained in blocks of two through a pipe of four:  *)
(* ten bytes wrap both positions more than once, and the buffer gets full,  *)
(* stalls, empties and is closed at every offset.                           *)
EXTENDS ClientBuffer
=============================================================================
