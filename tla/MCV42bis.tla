------------------------------ MODULE MCV42bis ------------------------------
(* A small instance of V42bis for TLC.                                     *)
EXTENDS V42bis

(* The encoder reads nothing of the decoder, so its steps commute with     *)
(* those of the decoder: each frame is decoded before the next is begun.   *)
InTurns == line # <<>> \/ rest # <<>> => UNCHANGED encVars

=============================================================================
