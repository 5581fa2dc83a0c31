----------------------------- MODULE ByteStream -----------------------------
(***************************************************************************)
(* What the circular buffer of a client thread promises its BMP reader: a  *)
(* bounded byte stream.  Bytes go in at one end in the order the socket    *)
(* produced them, come out at the other end in that order, none lost, none *)
(* repeated, and at most Capacity of them are held at any moment.  Either  *)
(* side may end the stream, after which nothing moves.                     *)
(***************************************************************************)
EXTENDS Naturals, Sequences

CONSTANTS Byte,      \* the values a byte of the stream may have
          Capacity   \* how many bytes may be in the buffer

VARIABLES in,        \* every byte that entered the stream, in order
          out,       \* every byte that left it, in order
          open       \* the stream has not been ended

streamVars == <<in, out, open>>

Init == in = <<>> /\ out = <<>> /\ open = TRUE

(* Some bytes enter, as many as there is room for, behind all the others. *)
Enter == /\ open
         /\ in' \in Seq(Byte)
         /\ Len(in) < Len(in')
         /\ Len(in') <= Len(out) + Capacity
         /\ \A i \in 1..Len(in) : in'[i] = in[i]
         /\ UNCHANGED <<out, open>>

(* Some of the bytes that are held leave, oldest first. *)
Leave == /\ open
         /\ \E n \in 1..(Len(in) - Len(out)) :
               out' = out \o SubSeq(in, Len(out) + 1, Len(out) + n)
         /\ UNCHANGED <<in, open>>

End == open /\ open' = FALSE /\ UNCHANGED <<in, out>>

Next == Enter \/ Leave \/ End

Spec == Init /\ [][Next]_streamVars
=============================================================================
