-------------------------- MODULE MCDwmblocksClock --------------------------
(* Every choice of small intervals. *)
EXTENDS DwmblocksClock

Blocks == 1 .. 3
=============================================================================
