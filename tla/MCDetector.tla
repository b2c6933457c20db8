----------------------------- MODULE MCDetector -----------------------------
(* A small instance of Detector for TLC.                                   *)
EXTENDS Detector

=============================================================================
