------------------------------- MODULE KeyHold -------------------------------
(***************************************************************************)
(* One key of M3 from the finger to the command: T7, which scans it and    *)
(* posts to Q2, and T8's timing of the press:                              *)
(*   src/firmware/src/keypad_scan/keypad_scan.cpp                          *)
(*   src/drivers/m3Hold/src/m3_hold.cpp                                    *)
(*   src/firmware/src/ui_display/ui_display.cpp (the loop, the routing)    *)
(* Time goes in repeats of a held key, 100 ms.                             *)
(***************************************************************************)
EXTENDS Naturals, Sequences

CONSTANTS
    TapMax, HoldFor,    \* M3H_TAP_MAX_MS, M3H_HOLD_MS
    FirstRepeat, LostAfter, \* M3H_FIRST_REPEAT_MS, M3H_LOST_MS
    Stall,              \* how far T8's loop may fall behind
    Q2Depth,
    MaxHeld             \* the bound on the length of a press

(* The times of m3_hold.h in their order; T8 is behind for less than it takes *)
(* to miss a key, and Q2 holds more than comes meanwhile.                     *)
KeyAssumption ==
    /\ TapMax \in Nat /\ HoldFor \in Nat /\ FirstRepeat \in Nat /\ LostAfter \in Nat
    /\ Stall \in Nat /\ Q2Depth \in Nat \ {0} /\ MaxHeld \in Nat
    /\ LostAfter < FirstRepeat /\ FirstRepeat <= TapMax /\ TapMax <= HoldFor
    /\ FirstRepeat + LostAfter < HoldFor /\ HoldFor + Stall <= MaxHeld
    /\ 1 + Stall <= LostAfter /\ Stall < Q2Depth

VARIABLES
    down,       \* the key; for how long it has been
    heldFor,
    upFor,      \* or since when it is up
    q2,         \* Q2
    active, moving, repeated,   \* m3_hold_t
    age, quiet, \* since its press, since its last sign of life
    truth,      \* for how long the press that T8 times, or ended last, was held
    same,       \* and it is the one the key is down for
    lag,        \* since T8 had nothing left to take from Q2
    done        \* what T8's last pass did: m3h_action_t

keyVars == <<down, heldFor, upFor>>
hold    == <<active, moving, repeated, age, quiet, truth, same>>
tapVars == <<keyVars, q2, hold, lag, done>>

TapInit ==
    /\ down = FALSE /\ heldFor = 0 /\ upFor = 0 /\ q2 = <<>>
    /\ active = FALSE /\ moving = FALSE /\ repeated = FALSE
    /\ age = 0 /\ quiet = 0 /\ truth = 0 /\ same = FALSE /\ lag = 0 /\ done = "nothing"

-----------------------------------------------------------------------------
(* T7.  What finds Q2 full is dropped. *)
Post(e) == q2' = IF Len(q2) < Q2Depth THEN Append(q2, e) ELSE q2

Up(n) == IF n < MaxHeld THEN n + 1 ELSE n

(* No hand is so quick that two of its presses are in Q2. *)
Press ==
    /\ ~down /\ \A i \in DOMAIN q2 : q2[i] # "press"
    /\ down' = TRUE /\ heldFor' = 0 /\ upFor' = 0 /\ same' = FALSE
    /\ Post("press")
    /\ UNCHANGED <<active, moving, repeated, age, quiet, truth, lag, done>>

Release ==
    /\ down /\ down' = FALSE /\ upFor' = 0
    /\ Post("release") /\ UNCHANGED <<heldFor, hold, lag, done>>

(* A scan's worth of time: a key that is held repeats. *)
TapElapse ==
    /\ lag <= Stall /\ heldFor < MaxHeld
    /\ lag' = lag + 1
    /\ age' = IF active THEN Up(age) ELSE 0
    /\ quiet' = IF active THEN Up(quiet) ELSE 0
    /\ IF down
       THEN /\ heldFor' = heldFor + 1 /\ UNCHANGED upFor
            /\ IF heldFor + 1 >= FirstRepeat THEN Post("repeat") ELSE UNCHANGED q2
       ELSE upFor' = Up(upFor) /\ UNCHANGED <<heldFor, q2>>
    /\ truth' = IF down /\ same THEN heldFor' ELSE truth
    /\ UNCHANGED <<down, active, moving, repeated, same, done>>

-----------------------------------------------------------------------------
(* m3_hold.cpp *)

Forget ==
    active' = FALSE /\ moving' = FALSE /\ repeated' = FALSE /\ age' = 0 /\ quiet' = 0

(* end_press(): what a press of this length amounted to. *)
Amounts(held) ==
    IF moving THEN "stop" ELSE IF held < TapMax THEN "full" ELSE "mid"

IsLost == IF repeated THEN quiet > LostAfter ELSE age > FirstRepeat + LostAfter

(* m3h_tick(): at the end of a pass. *)
Tick ==
    IF active /\ IsLost
    THEN Forget /\ done' = Amounts(age - quiet) /\ UNCHANGED <<truth, same>>
    ELSE IF active /\ ~moving /\ age >= HoldFor
         THEN /\ moving' = TRUE /\ done' = "start"
              /\ UNCHANGED <<active, repeated, age, quiet, truth, same>>
         ELSE done' = "nothing" /\ UNCHANGED hold

(* A pass of T8 with nothing in Q2, or with the first of it. *)
PassTick == q2 = <<>> /\ lag' = 0 /\ Tick /\ UNCHANGED <<keyVars, q2>>

(* m3h_press(): a press still timed has lost its release, and ends at its   *)
(* last sign of life.                                                       *)
PassPress ==
    /\ q2 # <<>> /\ Head(q2) = "press" /\ q2' = Tail(q2)
    /\ done' = IF active THEN Amounts(age - quiet) ELSE "nothing"
    /\ active' = TRUE /\ moving' = FALSE /\ repeated' = FALSE /\ age' = 0 /\ quiet' = 0
    /\ truth' = heldFor /\ same' = TRUE
    /\ UNCHANGED <<keyVars, lag>>

(* m3h_repeat() *)
PassRepeat ==
    /\ q2 # <<>> /\ Head(q2) = "repeat" /\ q2' = Tail(q2)
    /\ IF active
       THEN /\ repeated' = TRUE /\ quiet' = 0
            /\ IF ~moving /\ age >= HoldFor
               THEN moving' = TRUE /\ done' = "start"
               ELSE done' = "nothing" /\ UNCHANGED moving
            /\ UNCHANGED <<active, age, truth, same>>
       ELSE done' = "nothing" /\ UNCHANGED hold
    /\ UNCHANGED <<keyVars, lag>>

(* m3h_release() *)
PassRelease ==
    /\ q2 # <<>> /\ Head(q2) = "release" /\ q2' = Tail(q2)
    /\ IF active
       THEN Forget /\ done' = Amounts(age) /\ UNCHANGED <<truth, same>>
       ELSE done' = "nothing" /\ UNCHANGED hold
    /\ UNCHANGED <<keyVars, lag>>

TapNext ==
    \/ Press \/ Release \/ TapElapse
    \/ PassTick \/ PassPress \/ PassRepeat \/ PassRelease

TapSpec == TapInit /\ [][TapNext]_tapVars

-----------------------------------------------------------------------------
TapTypeOK ==
    /\ q2 \in Seq({"press", "repeat", "release"}) /\ Len(q2) <= Q2Depth
    /\ quiet <= age /\ (moving => active)
    /\ done \in {"nothing", "full", "mid", "start", "stop"}

(* M3 follows the hand, whatever Q2 loses and however T8 lags behind: a full *)
(* stroke comes of a tap alone, a move starts on a key that is held or was   *)
(* until just now, and goes on no longer than a lost release takes to miss.  *)
HandIsFollowed ==
    /\ done = "full" /\ ~active => truth <= TapMax + Stall
    /\ moving => down \/ upFor <= LostAfter + Stall + 1
===============================================================================
