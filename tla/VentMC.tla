-------------------------------- MODULE VentMC --------------------------------
(* Instances of VentControl for TLC. *)
EXTENDS VentControl

CONSTANT m3

Do(act, dir, val, src) == [act |-> act, ch |-> m3, dir |-> dir, val |-> val, src |-> src]

(* T3's two commands, and of T6 the aperture between the ends.  T2 drives    *)
(* for it either way, and on to an end if the sensor is lost on the way.     *)
LoopCommands ==
    {Do("CLOSE_ALL", "close", 0, "T3"), Do("RESUME", "open", 0, "T3"),
     Do("TARGET", "open", 1, "T6")}

(* T6's two ends as well. *)
AllCommands == LoopCommands \cup {Do("MOVE", dir, 0, "T6") : dir \in Directions}
===============================================================================
