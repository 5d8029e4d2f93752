----------------------------- MODULE MCDwmblocks -----------------------------
(* An instance of Dwmblocks for TLC: one block has an interval, the other one *)
(* a signal.                                                                  *)
EXTENDS Dwmblocks

CONSTANTS none, hot

MCIntervals == <<1, 0>>
MCSignals == <<0, 1>>
Texts == {none, hot}
SomeSignals == {SIGTERM, REFRESH_SIGNAL, SIGRTMIN + 1}
=============================================================================
