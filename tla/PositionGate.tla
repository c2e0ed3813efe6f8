----------------------------- MODULE PositionGate -----------------------------
(***************************************************************************)
(* T17's gate on M3's position sensor, the control mode it publishes and   *)
(* its verdict on every drive:                                             *)
(*   src/firmware/src/window_pos/window_pos_task.cpp                       *)
(* A pass of the task's loop is cut where it has read T2's state, where it *)
(* has read T2's drive, and at its transaction on the bus: T2 and the      *)
(* sensor go on in between.                                                *)
(*                                                                         *)
(* A position is an end or neither.  The pacing of the reads, the reasons  *)
(* given, the log rows, the rate limit and the rules on stalls and early   *)
(* stops are left out, and so are the teach and the run that ride on the   *)
(* readings (Teach, Characterise).                                         *)
(***************************************************************************)
EXTENDS Naturals

CONSTANT FailLimit      \* PROBE_FAIL_LIMIT

GateAssumption == FailLimit \in Nat \ {0}

VARIABLES
    fitted,     \* s_fitted, as T17 last saw it
    gate, latched,  \* s_gate_open, s_bench_latched
    mode,       \* s_ctrl_mode
    fails,      \* s_probe_fail
    pc,         \* where the pass is
    was, rest,  \* was_travelling, rest_seen
    seg,        \* s_drv: active, closing, what its readings said; seg_active (judged)
    notConfirmed,   \* s_confirm: the last verdict is NOT_REACHED
    device,     \* what a transaction with the sensor gives
    t2,         \* T2: the drive M3 is on, its state, whether T17 has looked at it
                \* since it began (new), and has read the leaf at its end (seen)
    at,         \* where the leaf is
    rested      \* M3 has been at rest at some time since the gate opened

gateVars  == <<fitted, gate, latched, mode, fails>>
driveVars == <<was, rest, seg, notConfirmed>>
plantVars == <<device, t2, at>>
posVars   == <<gateVars, pc, driveVars, plantVars, rested>>

Answers == {"ok", "fault", "comm", "busy", "bench"}    \* a fault: or both end sensors
Travelling == t2.drive # "none"
Target == IF seg.closing THEN "closed" ELSE "open"

NoDrive == [active |-> FALSE, closing |-> FALSE, judged |-> FALSE, obs |-> "unread"]

PosInit ==
    /\ fitted \in BOOLEAN
    /\ gate = FALSE /\ mode = "TIMED" /\ fails = 0
    /\ latched = FALSE
    /\ pc = "top" /\ was = FALSE /\ rest = FALSE
    /\ seg = NoDrive /\ notConfirmed = FALSE
    /\ device \in Answers
    /\ t2 = [drive |-> "none", state |-> "closed", new |-> FALSE,
             seen |-> FALSE]
    /\ at \in {"closed", "mid"} /\ rested = FALSE

-----------------------------------------------------------------------------
(* Verdicts. *)

(* All its readings were at the target's end, or one was after the start was *)
(* left behind.                                                              *)
Confirmed == seg.obs \in {"all", "seen"}

(* drive_finish(); `how' is how the drive ended.  What is not judged leaves  *)
(* the last verdict in force; what the ended drive held is dropped here.     *)
Finish(how) ==
    IF seg.active /\ how = "TIMER" /\ (Confirmed \/ seg.obs # "unread")
    THEN notConfirmed' = ~Confirmed ELSE UNCHANGED notConfirmed
Finished == [NoDrive EXCEPT !.judged = seg.judged]

-----------------------------------------------------------------------------
(* The gate. *)

GateClose ==
    /\ gate' = FALSE /\ mode' = "TIMED" /\ UNCHANGED latched
    /\ Finish("SENSOR")

Strike ==
    /\ fails' = IF fails < FailLimit THEN fails + 1 ELSE fails
    /\ IF fails' = FailLimit
       THEN GateClose /\ seg' = Finished
       ELSE UNCHANGED <<gate, mode, latched, notConfirmed, seg>>

(* A transaction while the gate is open. *)
Judge(answer) ==
    \/ answer = "ok" /\ fails' = 0 /\ UNCHANGED <<gate, mode, latched>>
    \/ answer = "fault" /\ GateClose /\ seg' = Finished /\ UNCHANGED fails
    \/ answer = "comm" /\ Strike
    \/ answer \in {"busy", "bench"} /\ UNCHANGED <<gate, mode, latched, fails>>

(* follow_fitted(), when the setting has been changed: everything is         *)
(* forgotten, the drive without a verdict.                                   *)
FollowFitted ==
    /\ pc = "top"
    /\ fitted' = ~fitted /\ gate' = FALSE /\ fails' = 0 /\ mode' = "TIMED"
    /\ latched' = FALSE
    /\ seg' = Finished /\ notConfirmed' = FALSE
    /\ UNCHANGED <<pc, was, rest, plantVars, rested>>

(* A pass with none fitted. *)
NotFitted ==
    /\ pc = "top" /\ ~fitted
    /\ was' = FALSE /\ rest' = FALSE
    /\ UNCHANGED <<gateVars, pc, seg, notConfirmed, plantVars, rested>>

(* A pass with the gate closed: probe_sensor(), which opens it but leaves    *)
(* the mode to the next rest; a bench build is not asked again.              *)
Probe ==
    /\ pc = "top" /\ fitted /\ ~gate
    /\ was' = FALSE /\ rest' = FALSE
    /\ \/ /\ ~latched /\ device \in {"ok", "fault", "bench"}
          /\ gate' = (device = "ok") /\ fails' = IF device = "bench" THEN fails ELSE 0
          /\ latched' = (device = "bench")
          /\ rested' = (device = "ok" /\ ~Travelling)
       \/ /\ ~latched /\ device = "comm"
          /\ fails' = IF fails < FailLimit THEN fails + 1 ELSE fails
          /\ UNCHANGED <<gate, latched, rested>>
       \/ (latched \/ device = "busy") /\ UNCHANGED <<gate, latched, fails, rested>>
    /\ UNCHANGED <<fitted, mode, pc, seg, notConfirmed, plantVars>>

-----------------------------------------------------------------------------
(* A pass with the gate open and M3 at rest. *)

(* The drive that has ended is judged, by T2's state; the mode is promoted. *)
PassRest ==
    /\ pc = "top" /\ fitted /\ gate /\ ~Travelling
    /\ IF was
       THEN /\ Finish(IF t2.state = Target THEN "TIMER" ELSE "NOT_TARGET")
            /\ seg' = Finished
       ELSE UNCHANGED <<notConfirmed, seg>>
    /\ was' = FALSE /\ rest' = TRUE /\ mode' = "POSITION"
    /\ pc' \in {"top", "sample"}
    /\ UNCHANGED <<fitted, gate, latched, fails, plantVars, rested>>

(* The reading of a window at rest. *)
SampleRest ==
    /\ pc = "sample" /\ pc' = "top"
    /\ Judge(device)
    /\ device \notin {"fault", "comm"} => UNCHANGED <<seg, notConfirmed>>
    /\ UNCHANGED <<fitted, was, rest, plantVars, rested>>

-----------------------------------------------------------------------------
(* A pass with the gate open and M3 travelling. *)

(* The first one of a stroke. *)
PassStroke ==
    /\ pc = "top" /\ fitted /\ gate /\ Travelling
    /\ pc' = "drive" /\ was' = TRUE
    /\ IF was THEN UNCHANGED <<seg, notConfirmed, mode>>
       ELSE /\ Finish("INTERRUPTED") /\ seg' = [Finished EXCEPT !.judged = FALSE]
            /\ mode' = IF rest THEN "POSITION" ELSE mode
    /\ UNCHANGED <<fitted, gate, latched, fails, rest, plantVars, rested>>

(* Wrong: only the direction is looked at, which outlives a reversal. *)
WrongNewDrive == t2.drive \in {"open", "close"} /\ ~seg.judged

(* The direction has been energised since T17 last looked. *)
NewDrive == t2.drive \in {"open", "close"} /\ (~seg.judged \/ t2.new)

(* T2's drive and its epoch are read: a gap, or a new drive, ends the one    *)
(* before; drive_begin().                                                    *)
ReadDrive ==
    /\ pc = "drive" /\ pc' = "read"
    /\ t2' = [t2 EXCEPT !.new = FALSE]
    /\ IF NewDrive
       THEN /\ Finish("INTERRUPTED")
            /\ seg' = [NoDrive EXCEPT !.active = TRUE, !.judged = TRUE,
                                      !.closing = (t2.drive = "close")]
       ELSE IF t2.drive = "gap" THEN Finish("INTERRUPTED") /\ seg' = Finished
       ELSE UNCHANGED <<seg, notConfirmed>>
    /\ UNCHANGED <<gateVars, was, rest, device, at, rested>>

(* drive_observe(): two readings off its end, taken as one here, and the     *)
(* drive has left its start; then the end it makes is the target's, if the   *)
(* position says so.                                                         *)
Observed ==
    IF ~(seg.judged /\ seg.active) THEN seg
    ELSE [seg EXCEPT !.obs =
            CASE at = "mid"                               -> IF @ = "seen" THEN @ ELSE "left"
              [] at = Target /\ @ \in {"unread", "all"}   -> "all"
              [] at = Target /\ @ \in {"left", "seen"}    -> "seen"
              [] at # Target /\ @ \in {"unread", "all"}   -> "off"
              [] OTHER                                    -> @]

(* The reading. *)
ReadStroke ==
    /\ pc = "read" /\ pc' = "top"
    /\ \/ device = "ok" /\ seg' = Observed /\ UNCHANGED notConfirmed
       \/ device \in {"busy", "bench"} /\ UNCHANGED <<seg, notConfirmed>>
       \/ device \in {"fault", "comm"}
    /\ Judge(device)
    /\ t2' = [t2 EXCEPT !.seen = @ \/ (device = "ok" /\ at = Target)]
    /\ UNCHANGED <<fitted, was, rest, device, at, rested>>

-----------------------------------------------------------------------------
(* T2, the sensor and the settings. *)

StartDrive ==
    /\ t2.drive \in {"none", "gap"}
    /\ \E d \in {"open", "close"} : 
          t2' = [drive |-> d, state |-> "moving", new |-> TRUE, seen |-> FALSE]
    /\ UNCHANGED <<gateVars, pc, driveVars, device, at, rested>>

(* Ended by its timer, with the leaf where that brought it; by a stop or an  *)
(* alarm; or reversed, over a gap.  A drive that its timer ends has lasted   *)
(* longer than a pass of T17.                                                *)
EndDrive ==
    /\ Travelling
    /\ \/ /\ t2.drive # "gap" /\ ~(t2.new /\ seg.active)
          /\ t2' = [t2 EXCEPT !.drive = "none",
                              !.state = IF t2.drive = "open" THEN "open" ELSE "closed"]
          /\ rested' = (rested \/ gate)
       \/ t2' = [t2 EXCEPT !.drive = "none", !.state = "part"] /\ rested' = (rested \/ gate)
       \/ /\ t2.drive # "gap" /\ t2' = [t2 EXCEPT !.drive = "gap"]
          /\ UNCHANGED rested
    /\ UNCHANGED <<gateVars, pc, driveVars, device, at>>

LeafMoves ==
    /\ \/ t2.drive = "open" /\ at' \in {"mid", "open"}
       \/ t2.drive = "close" /\ at' \in {"mid", "closed"}
    /\ UNCHANGED <<gateVars, pc, driveVars, device, t2, rested>>

(* No bench build is put in while one is fitted. *)
SensorChanges ==
    /\ device' \in Answers \ {device}
    /\ fitted => "bench" \notin {device, device'}
    /\ UNCHANGED <<gateVars, pc, driveVars, t2, at, rested>>

Pass == PassRest \/ SampleRest \/ PassStroke \/ ReadDrive \/ ReadStroke
           \/ NotFitted \/ Probe

PosNext == Pass \/ FollowFitted \/ StartDrive \/ EndDrive \/ LeafMoves \/ SensorChanges

(* T17's loop runs on, and it reads a window at rest now and then.           *)
PosFairness ==
    /\ WF_posVars(Pass)
    /\ SF_posVars(PassRest /\ pc' = "sample")

PosSpec == PosInit /\ [][PosNext]_posVars /\ PosFairness

-----------------------------------------------------------------------------
PosTypeOK ==
    /\ mode \in {"TIMED", "POSITION"} /\ fails \in 0..FailLimit
    /\ pc \in {"top", "sample", "drive", "read"}
    /\ notConfirmed \in BOOLEAN

(* T2 steers by the position only while the gate is open, and that only of a *)
(* sensor that is fitted and has not failed FailLimit times running.         *)
GivenUpIsNotUsed == [](mode = "POSITION" => fitted /\ gate /\ fails < FailLimit)

(* Position control takes over no movement that began before the gate opened *)
(* (gh#72): M3 has been at rest since.  It asks for no verdict on a drive:   *)
(* verdicts report only.                                                     *)
PromotedAfterRest ==
    [][mode = "TIMED" /\ mode' = "POSITION" => gate /\ rested]_posVars

(* A drive is confirmed on a reading of its own that had the leaf at its     *)
(* end, never on one of the drive before it, nor on none.                    *)
ConfirmedWasSeen ==
    [][notConfirmed /\ ~notConfirmed' /\ fitted' = fitted => t2.seen]_posVars

(* A sensor that does not come back, away or faulted, is not trusted for     *)
(* ever, and one that stays well is steered by once M3 rests.                *)
GateFollowsSensor ==
    /\ <>[](device \in {"comm", "fault"}) => <>[](mode = "TIMED")
    /\ <>[](device = "ok" /\ fitted /\ ~Travelling)
          => <>[](mode = "POSITION" \/ latched)
===============================================================================
