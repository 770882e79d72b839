------------------------------ MODULE Stretch ------------------------------
(***************************************************************************)
(* A byte stream cut into pieces.  A piece is a record with the position   *)
(* pos of its first byte and its length size; the bytes themselves are     *)
(* named by their positions.  A queue of pieces that covers the positions  *)
(* lo .. hi - 1 in order, without a gap and without an overlap, is what a  *)
(* FIFO of buffered or transmitted data has to be.                         *)
(***************************************************************************)
EXTENDS Naturals, Sequences

(* A piece may carry a tag that says which message it travels in.          *)
Piece(Tags) == [kind : Tags, pos : Nat, size : Nat]

(* The position after the last byte of a piece.                            *)
End(p) == p.pos + p.size

(* Only the pieces of kind k are bytes; the others have no length.         *)
OnlyKind(q, k) == \A i \in 1 .. Len(q) : q[i].kind # k => q[i].size = 0

(* The queue q covers exactly lo .. hi - 1, piece after piece.             *)
Covers(q, lo, hi) ==
    /\ lo <= hi
    /\ q = << >> => lo = hi
    /\ q # << >> => q[1].pos = lo /\ End(q[Len(q)]) = hi
    /\ \A i \in 1 .. Len(q) : lo <= q[i].pos /\ End(q[i]) <= hi
    /\ \A i, j \in 1 .. Len(q) : i < j => End(q[i]) <= q[j].pos
    /\ \A i \in 1 .. Len(q) - 1 : End(q[i]) = q[i + 1].pos
=============================================================================
