----------------------------- MODULE MCTerminal -----------------------------
(* A small instance of Terminal for TLC.                                   *)
EXTENDS Terminal

(* What a terminal writes in one go.                                       *)
MCWrites == {<<"A", "T", "D", "cr">>, <<"A", "T", "O", "cr", "x">>, <<"A", "/">>,
             <<"+", "+", "+">>, <<"+">>, <<"A", "T", "x">>, <<"bs">>,
             <<"bs", "bs", "bs", "cr">>}

=============================================================================
