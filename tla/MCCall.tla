------------------------------- MODULE MCCall -------------------------------
(* Small instances of Call for TLC.                                        *)
EXTENDS Call

(* update_delay is never used, or shortens and lengthens the line.         *)
NoDelay == {}
SomeDelays == {-3, 1}

=============================================================================
