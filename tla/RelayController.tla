--------------------------- MODULE RelayController ---------------------------
(***************************************************************************)
(* T2, the relay controller: the only task that switches the motor relays. *)
(* src/firmware/src/relay_controller/relay_controller.cpp.                 *)
(*                                                                         *)
(* Each channel is one window motor with an OPEN and a CLOSE relay.  T2's  *)
(* endless loop is cut into its blocking points, one value of pc each, and *)
(* the alarm ISR, the passing of time, the RRK-3 contact and a loss of     *)
(* power interleave between them.                                          *)
(*                                                                         *)
(* Left out: log rows, and the bench build's injected alarm.               *)
(***************************************************************************)
EXTENDS WindowChannel

CONSTANTS
    Channel,        \* the window motors
    M3,             \* the one with a position sensor: targets, pulses, stops
    GuardChunks,    \* ALARM_GUARD_MS / ALARM_GUARD_CHUNK_MS
    Commands,       \* the window_cmd_t the producers of Q1 post
    PowerMayFail,   \* whether the controller may lose power
    ContactBounce   \* whether the contact may move again within 5 ms of an edge

(* A command is OPEN or CLOSE one channel, CLOSE every channel, TARGET and  *)
(* PULSE for M3 (val: the aperture, and the width; dir: the pulse's way),   *)
(* STOP, RECALIBRATE and RESUME.                                            *)
Command == [act : {"MOVE", "CLOSE_ALL", "TARGET", "PULSE", "STOP",
                   "RECALIBRATE", "RESUME"},
            ch : Channel, dir : Directions, val : Nat, src : Sources]

ASSUME ChannelAssumption == M3 \in Channel
ASSUME GuardAssumption   == GuardChunks \in Nat \ {0}
ASSUME CommandAssumption == Commands \subseteq Command
ASSUME FaultAssumption   == PowerMayFail \in BOOLEAN /\ ContactBounce \in BOOLEAN

VARIABLES
    ch,      \* s_ch, s_taken, the relay outputs and the NVS key of each channel
    leaf,    \* where each leaf really is: 0 closed .. Stroke open
    eg,      \* the EG1 bits T2 owns
    pin,     \* the RRK-3 contact is closed (GPIO42 low)
    edge,    \* s_alarm_edge
    quiet,   \* within 5 ms of the last accepted edge: the ISR drops the next
    late,    \* that edge came after T2 sampled now_ms and before it looked
    debt,    \* T2_NOTIFY_CLEAR_DWELL is pending
    pc,      \* where T2 is
    ret,     \* where a sweep or an alarm returns to
    guard    \* 5 s chunks left of the guard after an alarm

vars == <<ch, leaf, eg, pin, edge, quiet, late, debt, pc, ret, guard>>
alarmVars == <<pin, edge, quiet, late>>

-----------------------------------------------------------------------------
(* A unit as commissioned: nothing stored, the leaves anywhere. *)
Init ==
    /\ ch = [c \in Channel |-> PoweredOn("UNKNOWN", 0)]
    /\ leaf \in [Channel -> 0..Stroke]
    /\ pin \in BOOLEAN
    /\ eg = {} /\ edge = FALSE /\ quiet = FALSE /\ late = FALSE /\ debt = FALSE
    /\ pc = "boot" /\ ret = "top" /\ guard = 0

(* handle_alarm_onset(). *)
Onset ==
    /\ \E ok \in [Channel -> NvsWrites] : ch' = [c \in Channel |-> Suspend(ch[c], ok[c])]
    /\ eg' = {"MOTOR_ALARM"}

(* Step 3 of the task: an alarm already latched, a calibration skipped on   *)
(* the stored states, or a calibration.                                     *)
BootAlarmed ==
    /\ pc = "boot" /\ pin
    /\ Onset
    /\ pc' = "top"
    /\ UNCHANGED <<leaf, pin, edge, quiet, late, debt, ret, guard>>

BootRecovered ==
    /\ pc = "boot" /\ ~pin
    /\ \A c \in Channel : ch[c].nvs = "CLOSED"
    /\ ch' = [c \in Channel |-> [ch[c] EXCEPT !.st = "CLOSED"]]
    /\ pc' = "top"
    /\ UNCHANGED <<leaf, eg, alarmVars, debt, ret, guard>>

BootCalibrate ==
    /\ pc = "boot" /\ ~pin
    /\ \E c \in Channel : ch[c].nvs # "CLOSED"
    /\ pc' = "sweep" /\ ret' = "top"
    /\ UNCHANGED <<ch, leaf, eg, alarmVars, debt, guard>>

(* calib_close_all(): the entry, one chunk of its loop, and the trip both   *)
(* take when they read the contact closed.  The trip is a step of its own:  *)
(* s_alarm_edge is cleared only after the contact was read.                 *)
SweepStart ==
    /\ pc = "sweep" /\ ~pin
    /\ \E t \in [Channel -> Travels], ok \in [Channel -> NvsWrites] :
          ch' = [c \in Channel |-> Sweep(ch[c], t[c], ok[c])]
    /\ eg' = eg \cup {"CALIBRATING"}
    /\ pc' = "sweeping"
    /\ UNCHANGED <<leaf, alarmVars, debt, ret, guard>>

(* Wrong: the sweep is over when the first window is closed. *)
WrongSweepPoll ==
    /\ pc = "sweeping" /\ ~pin
    /\ \E d \in [Channel -> Dwells], ok \in [Channel -> NvsWrites] :
          ch' = [c \in Channel |-> Swept(ch[c], d[c], ok[c])]
    /\ IF \E c \in Channel : ch'[c].st = "CLOSED"
       THEN pc' = ret /\ ret' = "top" /\ eg' = eg \ {"CALIBRATING"}
       ELSE UNCHANGED <<pc, ret, eg>>
    /\ UNCHANGED <<leaf, alarmVars, debt, guard>>

SweepPoll ==
    /\ pc = "sweeping" /\ ~pin
    /\ \E d \in [Channel -> Dwells], ok \in [Channel -> NvsWrites] :
          ch' = [c \in Channel |-> Swept(ch[c], d[c], ok[c])]
    /\ IF \A c \in Channel : ch'[c].st = "CLOSED"
       THEN pc' = ret /\ ret' = "top" /\ eg' = eg \ {"CALIBRATING"}
       ELSE UNCHANGED <<pc, ret, eg>>
    /\ UNCHANGED <<leaf, alarmVars, debt, guard>>

AlarmSeen ==
    /\ pc \in {"sweep", "sweeping", "guard"} /\ pin
    /\ pc' = "trip"
    /\ UNCHANGED <<ch, leaf, eg, alarmVars, debt, ret, guard>>

Trip ==
    /\ pc = "trip"
    /\ edge' = FALSE
    /\ Onset
    /\ pc' = ret /\ ret' = "top" /\ guard' = 0
    /\ UNCHANGED <<leaf, pin, quiet, late, debt>>

(* Wrong: an edge taken during a sweep is thrown away with the notifications. *)
WrongTop ==
    /\ pc = "top" /\ pc' = "alarm"
    /\ debt' = FALSE /\ late' = FALSE /\ edge' = FALSE
    /\ UNCHANGED <<ch, leaf, eg, pin, quiet, ret, guard>>

(* The top of the loop: notifications, then now_ms is sampled. *)
Top ==
    /\ pc = "top"
    /\ ch' = IF debt THEN [c \in Channel |-> [ch[c] EXCEPT !.dwell = 0]] ELSE ch
    /\ debt' = FALSE
    /\ late' = FALSE
    /\ pc' = "alarm"
    /\ UNCHANGED <<leaf, eg, pin, edge, quiet, ret, guard>>

(* 4a: an edge of 75 ms is consumed and the contact read; a younger one is  *)
(* left for a later pass.  Past the 5 ms an edge may be of either age.  One  *)
(* that came after now_ms was sampled is always taken: now_ms - edge_ms      *)
(* wraps.                                                                    *)
MayBeOld  == edge /\ (~quiet \/ late)
IsOld     == edge /\ late

AlarmQuiet ==
    /\ pc = "alarm" /\ ~IsOld
    /\ pc' = "update"
    /\ UNCHANGED <<ch, leaf, eg, alarmVars, debt, ret, guard>>

AlarmCheck ==
    /\ pc = "alarm" /\ MayBeOld
    /\ edge' = FALSE
    /\ CASE pin /\ "MOTOR_ALARM" \notin eg ->
              Onset /\ pc' = "update" /\ UNCHANGED <<ret, guard>>
         [] ~pin /\ "MOTOR_ALARM" \in eg ->
              /\ eg' = eg \ {"MOTOR_ALARM"}
              /\ pc' = "guard" /\ guard' = GuardChunks /\ ret' = "update"
              /\ UNCHANGED ch
         [] OTHER -> pc' = "update" /\ UNCHANGED <<ch, eg, ret, guard>>
    /\ UNCHANGED <<leaf, pin, quiet, late, debt>>

(* Wrong: the loop resumes after the guard without a sweep. *)
WrongGuardPoll ==
    /\ pc = "guard" /\ ~pin
    /\ guard' = guard - 1
    /\ pc' = IF guard = 1 THEN ret ELSE "guard"
    /\ UNCHANGED <<ch, leaf, eg, alarmVars, debt, ret>>

(* handle_alarm_clearance(): one chunk of the guard, then the sweep. *)
GuardPoll ==
    /\ pc = "guard" /\ ~pin
    /\ guard' = guard - 1
    /\ pc' = IF guard = 1 THEN "sweep" ELSE "guard"
    /\ UNCHANGED <<ch, leaf, eg, alarmVars, debt, ret>>

(* 4b: ch_update() on every channel, pulse_reap(). *)
UpdateAll ==
    /\ pc = "update"
    /\ \E t \in [Channel -> Travels], d \in [Channel -> Dwells],
          reading \in {"fresh", "waiting", "lost"}, ok \in [Channel -> NvsWrites] :
          ch' = [c \in Channel |-> Update(ch[c], leaf[c], reading, t[c], d[c], ok[c])]
    /\ pc' = "drain"
    /\ UNCHANGED <<leaf, eg, alarmVars, debt, ret, guard>>

-----------------------------------------------------------------------------
(* 4c: process_command(), one action for each CMD_. *)

(* Wrong: commands are worked through an alarm. *)
WrongDrains == pc = "drain"

Drains == pc = "drain" /\ "MOTOR_ALARM" \notin eg
Rest   == <<leaf, eg, alarmVars, debt, pc, ret, guard>>

Discard(cmd) ==
    /\ pc = "drain" /\ "MOTOR_ALARM" \in eg
    /\ UNCHANGED vars

CloseAll(cmd) ==
    /\ cmd.act = "CLOSE_ALL" /\ Drains
    /\ \E t \in [Channel -> Travels], ok \in [Channel -> NvsWrites] :
          ch' = [c \in Channel |-> Start(ch[c], "close", cmd.src, t[c], ok[c])]
    /\ UNCHANGED Rest

Move(cmd) ==
    /\ cmd.act = "MOVE" /\ Drains
    /\ \E t \in Travels, ok \in NvsWrites :
          ch' = [ch EXCEPT ![cmd.ch] = Start(@, cmd.dir, cmd.src, t, ok)]
    /\ UNCHANGED Rest

Target(cmd) ==
    /\ cmd.act = "TARGET" /\ cmd.ch = M3 /\ Drains
    /\ \E reading \in {"untaught", "untrusted", "trusted"}, lead \in Leads,
          t \in Travels, ok \in NvsWrites :
          ch' = [ch EXCEPT ![M3] =
                    StartTarget(@, leaf[M3], cmd.val, cmd.src, reading, lead, t, ok)]
    /\ UNCHANGED Rest

PulseM3(cmd) ==
    /\ cmd.act = "PULSE" /\ cmd.ch = M3 /\ Drains
    /\ \E w \in PulseTimes, t \in Travels, ok \in NvsWrites :
          ch' = [ch EXCEPT ![M3] = Pulse(@, cmd.dir, w, t, ok)]
    /\ UNCHANGED Rest

StopM3(cmd) ==
    /\ cmd.act = "STOP" /\ cmd.ch = M3 /\ Drains
    /\ \E d \in Dwells, ok \in NvsWrites :
          ch' = [ch EXCEPT ![M3] = Stop(@, cmd.src, d, ok)]
    /\ UNCHANGED Rest

Recalibrate(cmd) ==
    /\ cmd.act = "RECALIBRATE" /\ Drains
    /\ pc' = "sweep" /\ ret' = "drain"
    /\ UNCHANGED <<ch, leaf, eg, alarmVars, debt, guard>>

Resume(cmd) ==
    /\ cmd.act = "RESUME" /\ Drains
    /\ UNCHANGED vars

Process(cmd) ==
    \/ Discard(cmd) \/ CloseAll(cmd) \/ Move(cmd) \/ Target(cmd)
    \/ PulseM3(cmd) \/ StopM3(cmd) \/ Recalibrate(cmd) \/ Resume(cmd)

(* Q1 is empty: the loop's delay, and the next pass. *)
DrainDone ==
    /\ pc = "drain"
    /\ pc' = "top"
    /\ UNCHANGED <<ch, leaf, eg, alarmVars, debt, ret, guard>>

-----------------------------------------------------------------------------
(* What goes on around T2. *)

Tick ==
    /\ ~quiet
    /\ ch' = [c \in Channel |-> Elapse(ch[c])]
    /\ leaf' = [c \in Channel |-> MoveLeaf(leaf[c], ch[c].relay)]
    /\ UNCHANGED <<eg, alarmVars, debt, pc, ret, guard>>

(* The contact moves; isr_motor_alarm() takes the edge, or drops it within  *)
(* 5 ms of the last.  Before the handler is attached nothing is seen.       *)
ContactMoves ==
    /\ ContactBounce \/ ~quiet
    /\ pin' = ~pin
    /\ \/ (quiet \/ pc = "boot") /\ UNCHANGED <<edge, quiet, late>>
       \/ /\ ~quiet
          /\ edge' = TRUE /\ quiet' = TRUE
          /\ IF pc = "alarm" THEN late' \in BOOLEAN ELSE UNCHANGED late
    /\ UNCHANGED <<ch, leaf, eg, debt, pc, ret, guard>>

IsrOpens ==
    /\ quiet
    /\ quiet' = FALSE
    /\ UNCHANGED <<ch, leaf, eg, pin, edge, late, debt, pc, ret, guard>>

(* T4 ends an admin's manual session: dm_standby_release(). *)
ClearDwell ==
    /\ ~debt /\ pc # "boot"
    /\ debt' = TRUE
    /\ UNCHANGED <<ch, leaf, eg, alarmVars, pc, ret, guard>>

(* Power goes and comes back: the relays drop, RAM is lost, the NVS and the *)
(* leaves stay as they are.                                                 *)
PowerLoss ==
    /\ PowerMayFail
    /\ ch' = [c \in Channel |-> PoweredOn(ch[c].nvs, 0)]
    /\ eg' = {} /\ edge' = FALSE /\ quiet' = FALSE /\ late' = FALSE /\ debt' = FALSE
    /\ pc' = "boot" /\ ret' = "top" /\ guard' = 0
    /\ UNCHANGED <<leaf, pin>>

T2Step ==
    \/ BootAlarmed \/ BootRecovered \/ BootCalibrate
    \/ SweepStart \/ SweepPoll \/ AlarmSeen \/ Trip
    \/ Top \/ AlarmQuiet \/ AlarmCheck \/ GuardPoll \/ UpdateAll

Environment == Tick \/ ContactMoves \/ IsrOpens \/ ClearDwell \/ PowerLoss

Next == T2Step \/ DrainDone \/ Environment \/ \E cmd \in Commands : Process(cmd)

Spec == Init /\ [][Next]_vars

(* T2 is a FreeRTOS task that is always runnable between its delays, time   *)
(* passes, and the ISR's 5 ms end.  Q1 holds eight commands and is emptied  *)
(* faster than anyone fills it, so the drain ends even though a command may *)
(* interrupt it with a sweep: strong fairness.  An edge left for later has  *)
(* grown old at some later pass.                                            *)
Fairness == /\ WF_vars(T2Step) /\ SF_vars(DrainDone) /\ SF_vars(AlarmCheck)
            /\ SF_vars(Tick) /\ WF_vars(IsrOpens)

FairSpec == Spec /\ Fairness

-----------------------------------------------------------------------------
(* The flags, and T2's place in its loop with the guard's chunks. *)
FlagsOK == /\ pin \in BOOLEAN /\ edge \in BOOLEAN /\ quiet \in BOOLEAN
           /\ late \in BOOLEAN /\ debt \in BOOLEAN

ControlOK == /\ eg \subseteq {"MOTOR_ALARM", "CALIBRATING"}
             /\ pc \in {"boot", "sweep", "sweeping", "trip", "guard",
                        "top", "alarm", "update", "drain"}
             /\ ret \in {"top", "update", "drain"}
             /\ guard \in 0..GuardChunks

(* Every record is a ch_t, every leaf between its ends, and no countdown    *)
(* runs below 0.                                                            *)
TypeOK == /\ ch \in [Channel -> ChannelRecord]
          /\ leaf \in [Channel -> 0..Stroke]
          /\ FlagsOK /\ ControlOK

(* There is no end switch T2 can see: it reports an end because a relay was *)
(* on long enough.  Through reversals, pivots, cut pulses, dropped targets, *)
(* sweeps and power losses, a window reported OPEN or CLOSED is there.      *)
EndsAreReal ==
    \A c \in Channel : /\ ch[c].st = "CLOSED" => leaf[c] = 0
                       /\ ch[c].st = "OPEN"   => leaf[c] = Stroke

(* The boot skips the calibration on the stored states alone, so whenever   *)
(* power may go, a stored CLOSED must describe a closed and resting window. *)
StoredClosedIsClosed ==
    \A c \in Channel : ch[c].nvs = "CLOSED" => leaf[c] = 0 /\ ch[c].relay = "off"

(* A relay is on exactly while its channel is in the moving state of that   *)
(* direction: no path out of a drive forgets to let go of the motor.        *)
RelayFollowsState ==
    \A c \in Channel : ch[c].relay = IF Moving(ch[c]) THEN Heading(ch[c]) ELSE "off"

(* While MOTOR_ALARM is set, and through the guard after it, no motor runs  *)
(* and no window claims a position.                                         *)
AlarmSuspends ==
    "MOTOR_ALARM" \in eg \/ pc = "guard" =>
        \A c \in Channel : ch[c].relay = "off" /\ ch[c].st = "UNKNOWN"

(* T2 works commands only on windows whose position it has established.     *)
KnownWhenWorking ==
    pc \in {"top", "alarm", "update", "drain"} /\ "MOTOR_ALARM" \notin eg =>
        \A c \in Channel : ch[c].st # "UNKNOWN"

(* An armed target belongs to the stroke under way and never outlives it:   *)
(* left armed, it would cut whatever stroke ran next.                       *)
TargetsDieWithTheirStroke ==
    \A c \in Channel : ch[c].aim # NoTarget => Moving(ch[c]) \/ InGap(ch[c])

FromClimate == \E cmd \in Commands : cmd.src = "T6" /\ Process(cmd)

(* T2 keeps the promise of WindowPromise: what it says of a window is a      *)
(* stored or reported end, and only that.                                   *)
Said(c) == IF c.st \in EndStates THEN c.st ELSE "unsure"

Promise == INSTANCE WindowPromise
           WITH Window <- Channel, Top <- Stroke, at <- leaf,
                drive <- [c \in Channel |-> ch[c].relay],
                says  <- [c \in Channel |-> Said(ch[c])]

(* However commands, alarms, sweeps, power losses and the contact interleave, *)
(* an end is claimed only where a drive has carried the leaf to it, the claim *)
(* is withdrawn before the window moves, and no running motor is turned round *)
(* in one step but by the start of a sweep (calib_close_all()).               *)
PromiseKept == Promise!Spec

(* gh#48: a climate command switches no relay of a window that moves, and   *)
(* starts none that rests within its dwell; sent against a stroke under way *)
(* it leaves the stroke's target alone.                                     *)
ClimateYields ==
    [][\A c \in Channel :
          /\ (/\ ch'[c].relay # ch[c].relay
              /\ Moving(ch[c]) \/ (ch[c].dwell > 0 /\ ~InGap(ch[c])))
             => ~FromClimate
          /\ (ch[c].aim # NoTarget /\ ch'[c].aim = NoTarget /\ Moving(ch[c]))
             => ~\E cmd \in Commands :
                    /\ cmd.src = "T6" /\ cmd.act = "MOVE" /\ cmd.ch = c
                    /\ cmd.dir # Heading(ch[c]) /\ Process(cmd)]_vars

(* When anyone but the climate law ends or replaces an armed target, the    *)
(* count of takings moves, so that T6 reports ABORTED and does not guess.   *)
TakingsAreTold ==
    [][\A c \in Channel :
          (/\ ch[c].aim # NoTarget /\ ch'[c].aim # ch[c].aim
           /\ ch'[c].taken = ch[c].taken)
          => UpdateAll \/ PowerLoss \/ FromClimate]_vars

(* CALIBRATING falls without an alarm only when every window is closed.     *)
SweepsAreWhole ==
    [][\/ PowerLoss
       \/ "CALIBRATING" \in eg /\ eg' = {} =>
             \A c \in Channel : leaf'[c] = 0 /\ ch'[c].relay = "off"]_vars

(* A contact that closes and stays closed suspends the windows for good     *)
(* (FR-MA02), wherever T2 is when it happens.                               *)
AlarmRaised ==
    <>[]pin => <>[]("MOTOR_ALARM" \in eg /\ \A c \in Channel : ch[c].relay = "off")

(* Whatever commands come, every motor that is started is let go again.     *)
DrivesEnd == \A c \in Channel : ch[c].relay # "off" ~> ch[c].relay = "off"

(* FR-MA06: the alarm "shall clear automatically when the RRK-3 alarm       *)
(* signal is released".                                                     *)
AlarmClears == <>[](~pin) => <>[]("MOTOR_ALARM" \notin eg)

(* "2 s inter-relay gap enforcement between complementary relay pairs"      *)
(* (relay_controller.h): no relay goes on as its complement goes off.       *)
GapBetweenRelays ==
    [][\A c \in Channel :
          ch[c].relay # "off" => ch'[c].relay \in {"off", ch[c].relay}]_vars
=============================================================================
