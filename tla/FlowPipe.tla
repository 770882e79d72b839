------------------------------ MODULE FlowPipe ------------------------------
(***************************************************************************)
(* What the data path of a forwarded connection promises to its two ends:  *)
(* a FIFO pipe with credit.  Bytes are accepted from the writer, granted   *)
(* credit by the reader, and delivered in order, none lost, none doubled,  *)
(* never more than the credit.                                             *)
(***************************************************************************)
EXTENDS Naturals

VARIABLES
    accepted,   \* bytes taken from the writer
    delivered,  \* bytes handed to the reader
    credit,     \* bytes the reader is ready to take in all
    intact      \* the reader has seen the bytes in their order

pipe == << accepted, delivered, credit, intact >>

Init ==
    /\ accepted = 0 /\ delivered = 0 /\ credit \in Nat /\ intact = TRUE

Accept ==
    /\ accepted' > accepted
    /\ UNCHANGED << delivered, credit, intact >>

Deliver ==
    /\ delivered' > delivered /\ delivered' <= accepted
    /\ delivered' <= credit
    /\ UNCHANGED << accepted, credit, intact >>

Grant ==
    /\ credit' > credit
    /\ UNCHANGED << accepted, delivered, intact >>

Next == Accept \/ Deliver \/ Grant

Spec == Init /\ [][Next]_pipe
=============================================================================
