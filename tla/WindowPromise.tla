---------------------------- MODULE WindowPromise ----------------------------
(***************************************************************************)
(* What the relay controller promises of its windows, without saying how.  *)
(* T2 has no end switch and nobody else sees the leaves, yet the climate   *)
(* law, the safety monitor, the display and the next boot all act on what  *)
(* it says.  The promise: it says OPEN or CLOSED only of a window whose    *)
(* motor it has just let go at that end, or, at a boot, of windows that    *)
(* are all closed; it takes the word back before it moves the window; and  *)
(* but for a sweep it lets go of a motor before it drives it the other way.*)
(***************************************************************************)
EXTENDS Integers

CONSTANTS
    Window,     \* the windows
    Top         \* where an open leaf is, in Nat \ {0}; a closed one is at 0

VARIABLES
    at,         \* where each leaf is
    drive,      \* which way each motor is driven
    says        \* what the controller says of each window

vars == <<at, drive, says>>

Ways  == {"open", "close", "off"}
Words == {"OPEN", "CLOSED", "unsure"}

True(w, word) == /\ word = "CLOSED" => at[w] = 0
                 /\ word = "OPEN"   => at[w] = Top

Init == /\ at \in [Window -> 0..Top]
        /\ drive = [w \in Window |-> "off"]
        /\ says  = [w \in Window |-> "unsure"]

Stay(w)  == drive'[w] = drive[w] /\ says'[w] = says[w]
Start(w) == drive[w] = "off" /\ drive'[w] # "off" /\ says'[w] = "unsure"
Stop(w)  == drive[w] # "off" /\ drive'[w] = "off" /\ True(w, says'[w])

(* Commands and timers: motors start and stop, each window for itself.      *)
Work == /\ drive' \in [Window -> Ways] /\ says' \in [Window -> Words]
        /\ \A w \in Window : Stay(w) \/ Start(w) \/ Stop(w)
        /\ UNCHANGED at

(* An alarm or a loss of power: every motor is let go, every word taken     *)
(* back.                                                                    *)
Suspend == /\ drive' = [w \in Window |-> "off"]
           /\ says'  = [w \in Window |-> "unsure"]
           /\ UNCHANGED at

(* A sweep drives every window closed, whatever it was doing. *)
Sweep == /\ drive' = [w \in Window |-> "close"]
         /\ says'  = [w \in Window |-> "unsure"]
         /\ UNCHANGED at

(* A boot that finds every window closed says so. *)
Recover == /\ \A w \in Window : at[w] = 0 /\ drive[w] = "off"
           /\ says' = [w \in Window |-> "CLOSED"]
           /\ UNCHANGED <<at, drive>>

Travelled(p, way) ==
    CASE way = "open"  /\ p < Top -> p + 1
      [] way = "close" /\ p > 0   -> p - 1
      [] OTHER                    -> p

Travel == /\ at' = [w \in Window |-> Travelled(at[w], drive[w])]
          /\ UNCHANGED <<drive, says>>

Next == Work \/ Suspend \/ Sweep \/ Recover \/ Travel

Spec == Init /\ [][Next]_vars
=============================================================================
