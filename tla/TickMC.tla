-------------------------------- MODULE TickMC --------------------------------
(* Instances of TickClock for TLC: a clock of 12 ticks. *)
EXTENDS TickClock, TLC

CONSTANTS m1, m3

(* M3 runs longest, and has its own commands. *)
Travels == (m1 :> 2) @@ (m3 :> 3)
===============================================================================
