---------------------------- MODULE MCXmodem ----------------------------
(* Files for the model checker: short ones, without control bytes. *)
EXTENDS Xmodem

ThreeBlocks == <<"data", "data", "data">>
FourBlocks == ThreeBlocks \o <<"data">>
=============================================================================
