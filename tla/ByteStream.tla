----------------------------- MODULE ByteStream -----------------------------
(***************************************************************************)
(* What a buffer between a producer and a slower consumer promises: bytes  *)
(* come out in the order in which they went in, none lost, none doubled.   *)
(* A step may take bytes in, put bytes out, or both.                       *)
(***************************************************************************)
EXTENDS Naturals

VARIABLES
    taken,      \* bytes that went in, in all
    given,      \* bytes that came out, in all
    intact      \* those that came out are the first ones that went in

stream == << taken, given, intact >>

Init == taken = 0 /\ given = 0 /\ intact = TRUE

Move ==
    /\ taken' >= taken /\ given' >= given
    /\ given' <= taken'
    /\ intact' = intact

Spec == Init /\ [][Move]_stream
=============================================================================
