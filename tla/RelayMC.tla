------------------------------- MODULE RelayMC -------------------------------
(* Instances of RelayController for TLC. *)
EXTENDS RelayController

CONSTANTS m1, m3

Do(act, c, dir, val, src) == [act |-> act, ch |-> c, dir |-> dir, val |-> val, src |-> src]

(* What the producers of Q1 post: T3, T6, and the operator's LCD, web page, *)
(* commissioning and characterisation runs.                                 *)
SafetyCommands  == {Do("CLOSE_ALL", M3, "close", 0, "T3"), Do("RESUME", M3, "open", 0, "T3")}
ClimateCommands ==
    {Do("MOVE", c, dir, 0, "T6") : c \in Channel, dir \in Directions}
        \cup {Do("TARGET", M3, "open", v, "T6") : v \in 0..Stroke}
OperatorCommands ==
    {Do("MOVE", c, dir, 0, "operator") : c \in Channel, dir \in Directions}
        \cup {Do("TARGET", M3, "open", v, "operator") : v \in 0..Stroke}
        \cup {Do("PULSE", M3, dir, 0, "operator") : dir \in Directions}
        \cup {Do("STOP", M3, "open", 0, "operator")}
StandbyCommands == {Do("RECALIBRATE", M3, "close", 0, "operator")}

AllCommands == SafetyCommands \cup ClimateCommands \cup OperatorCommands \cup StandbyCommands

(* One full stroke open, the closes, and a recalibration; and with a second *)
(* window, for the sweeps and a close of all that find the two in different *)
(* states.                                                                  *)
StrokeCommands == SafetyCommands \cup StandbyCommands
    \cup {Do("MOVE", m3, "open", 0, "operator")}
PairCommands == StrokeCommands \cup {Do("MOVE", m1, "open", 0, "T6")}
==============================================================================
