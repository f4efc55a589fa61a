----------------------------- MODULE MCSession -----------------------------
(* An instance of Session for TLC: bursts and counters around the borders   *)
(* of a word and of the window.                                             *)
EXTENDS Session

MCBursts == {544}
MCProbes == {0, 1, 63, 64, 127, 200, 1023, 1024, 1087}
=============================================================================
