------------------------------ MODULE MCLapm ------------------------------
(* Small instances of Lapm for TLC.                                        *)
EXTENDS Lapm

CallerData == [p \in Station |-> IF p = "caller" THEN 2 ELSE 1]

=============================================================================
