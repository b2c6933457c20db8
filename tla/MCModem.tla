------------------------------ MODULE MCModem ------------------------------
(* A small instance of Modem for TLC.                                      *)
EXTENDS Modem

=============================================================================
