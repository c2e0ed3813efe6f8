-------------------------------- MODULE Teach --------------------------------
(***************************************************************************)
(* The teach of M3's position sensor:                                      *)
(*   src/firmware/src/window_pos/commission.cpp    the run                 *)
(*   src/firmware/src/window_pos/window_pos_task.cpp   the orphan check    *)
(* T11 (web) starts and abandons it; T17 reads the sensor, drives M3 leg   *)
(* by leg and disarms a sensor left armed.  T17 is cut between its reading,*)
(* its copy of the teach's state and what it does with them, and between   *)
(* its last look at the state and the leg's command, which may wait for    *)
(* room in Q1; T11 where it has changed the state or the device and not    *)
(* yet the other.                                                          *)
(*                                                                         *)
(* Time is left out: `late' says that the deadline of the moment has       *)
(* passed.  So are the hold (Commission) and the verdict on the            *)
(* calibration.                                                            *)
(***************************************************************************)
EXTENDS Naturals, FiniteSets

CONSTANTS
    MaxFaults,  \* failed transactions, interventions, reboots, ...
    MaxStarts   \* teaches started

TeachAssumption == MaxFaults \in Nat /\ MaxStarts \in Nat

VARIABLES
    st, starting,   \* s_st.state, s_starting
    leg,            \* s_phase, s_legs, s_noop_legs, s_ends, ...
    late,           \* the deadline, or the grace after the teach, has passed
    pcT11, pcT17, read, saw,  \* T11; T17: its reading, and the state it copied
    dev,            \* the sensor: armed, and the ends it has captured
    m3,             \* what T2 believes of M3, and where its leaf is
    cmd,            \* the leg's command in Q1
    stray,          \* a leg has been sent since the last teach was over
    faults, starts

tasks     == <<pcT11, pcT17, read, saw>>
plant     == <<m3, cmd>>
run       == <<st, starting, leg, late>>
teachVars == <<run, tasks, dev, plant, stray, faults, starts>>

LeafEnds == {"closed", "open"}
Active(state) == state \in {"ARMING", "TRAVERSING", "COMMITTING"}
MaxLegs == 3    \* COMMISSION_TEACH_MAX_LEGS
Ways == {"MOVING_OPEN", "MOVING_CLOSE"}

Moving == m3.belief \in Ways
AtEnd == m3.leaf \in LeafEnds
FreshLeg == [phase |-> "none", legs |-> 0, noop |-> 0, ends |-> 0,
             seen |-> FALSE, prev |-> FALSE, left |-> FALSE, made |-> FALSE]
NoReading == [ok |-> FALSE, armed |-> FALSE, atEnd |-> FALSE]
Disarmed == [armed |-> FALSE, caps |-> {}]    \* arming drops the captures
Reading == [ok |-> TRUE, armed |-> dev.armed, atEnd |-> AtEnd]

(* What can go wrong does so at most MaxFaults times. *)
Works == UNCHANGED faults
Fault == faults < MaxFaults /\ faults' = faults + 1

TeachInit ==
    /\ st = "IDLE" /\ leg = FreshLeg /\ starting = FALSE /\ late = TRUE
    /\ pcT11 = "idle" /\ pcT17 = "idle" /\ read = NoReading /\ saw = "IDLE"
    /\ dev = Disarmed
    /\ m3 \in [belief : {"CLOSED"}, leaf : LeafEnds]
    /\ cmd = "none" /\ stray = FALSE /\ faults = 0 /\ starts = 0

(* commission_owns_teach() *)
Owns == starting \/ Active(st) \/ ~late

(* windowpos_teach(FALSE), whose answer nobody looks at. *)
Disarm ==
    \/ dev' = Disarmed /\ Works
    \/ UNCHANGED dev /\ Fault

(* teach_fail() sends no CMD_STOP: a leg under way goes on.  What the run    *)
(* counted is reset here already; the code does so at the next start.        *)
TeachFail ==
    /\ st' = "FAILED" /\ late' = FALSE /\ leg' = FreshLeg
    /\ Disarm
    /\ UNCHANGED <<starting, cmd>>

-----------------------------------------------------------------------------
(* T11 *)

(* commission_teach_start(): refused, or its counters reset; then the hold.  *)
TeachStart ==
    /\ pcT11 = "idle" /\ ~Active(st) /\ starts < MaxStarts
    /\ starts' = starts + 1
    /\ \/ TeachFail /\ Moving /\ UNCHANGED pcT11
       \/ /\ ~Moving
          /\ leg' = [FreshLeg EXCEPT !.prev = AtEnd]
          /\ pcT11' = "arm" /\ Works
          /\ UNCHANGED <<dev, st, late, starting, cmd>>
    /\ UNCHANGED <<pcT17, read, saw, m3, stray>>

(* The measurement window is written; s_starting. *)
TeachWindow ==
    /\ pcT11 = "arm" /\ pcT11' = "go" /\ starting' = TRUE
    /\ UNCHANGED <<st, leg, late, pcT17, read, saw, dev, plant, stray, faults, starts>>

(* The device is armed, which drops its captures, and the run published.     *)
TeachArm ==
    /\ pcT11 = "go" /\ pcT11' = "idle" /\ starting' = FALSE /\ late' = FALSE
    /\ \/ /\ dev' = [armed |-> TRUE, caps |-> {}] /\ Works
          /\ st' = "ARMING" /\ stray' = FALSE /\ UNCHANGED leg
       \/ /\ Fault /\ st' = "FAILED" /\ leg' = FreshLeg /\ UNCHANGED stray
          /\ dev' \in {dev, [armed |-> TRUE, caps |-> {}]}
    /\ UNCHANGED <<pcT17, read, saw, plant, starts>>

(* commission_teach_abort(): the state first, the device after it. *)
TeachAbort ==
    /\ pcT11 = "idle" /\ Active(st) /\ Fault
    /\ st' = "IDLE" /\ late' = FALSE /\ pcT11' = "disarm"
    /\ UNCHANGED <<starting, leg, pcT17, read, saw, dev, plant, stray, starts>>

AbortDisarm ==
    /\ pcT11 = "disarm" /\ pcT11' = "idle" /\ Disarm
    /\ UNCHANGED <<run, pcT17, read, saw, plant, stray, starts>>

T11Goes == TeachWindow \/ TeachArm \/ AbortDisarm
T11Step == TeachStart \/ TeachAbort \/ T11Goes

-----------------------------------------------------------------------------
(* T17 *)

TickOver == pcT17' = "idle" /\ saw' = "IDLE" /\ read' = NoReading
TickFail == TeachFail /\ TickOver

(* t17_read(); one that shows no armed sensor has no orphan to check.        *)
TickRead ==
    /\ pcT17 = "idle"
    /\ \/ read' = Reading /\ Works
       \/ read' = NoReading /\ Fault
    /\ pcT17' = IF read'.armed THEN "read" ELSE "orphan"
    /\ UNCHANGED <<run, pcT11, saw, dev, plant, stray, starts>>

(* check_orphan_teach(), on the reading; then its write, which a start of    *)
(* T11 may overtake.                                                         *)
CheckOrphan ==
    /\ pcT17 = "read"
    /\ pcT17' = IF Owns THEN "orphan" ELSE "disarm"
    /\ UNCHANGED <<run, pcT11, read, saw, dev, plant, stray, faults, starts>>

DisarmOrphan ==
    /\ pcT17 = "disarm" /\ pcT17' = "orphan"
    /\ Disarm
    /\ UNCHANGED <<run, pcT11, read, saw, plant, stray, starts>>

(* commission_tick() copies the state; the wait for the hold's lock sits     *)
(* between the copy and its use.                                             *)
TickCopy ==
    /\ pcT17 = "orphan"
    /\ IF Active(st) THEN pcT17' = "act" /\ saw' = st /\ UNCHANGED read ELSE TickOver
    /\ UNCHANGED <<run, pcT11, dev, plant, stray, faults, starts>>

(* The edge of the end sensor. *)
Made == leg.phase # "none" /\ read.atEnd /\ ~leg.prev /\ ~leg.made
Seen ==
    [leg EXCEPT !.left = @ \/ (leg.phase # "none" /\ ~read.atEnd),
                !.made = @ \/ Made,
                !.ends = IF Made /\ @ < 2 THEN @ + 1 ELSE @,
                !.prev = read.atEnd,
                !.seen = @ \/ read.armed]
Now == IF saw = "TRAVERSING" /\ Seen.ends = 2 THEN "COMMITTING" ELSE saw
Publish == IF Now # saw THEN Now ELSE st
Dropped == ~read.armed /\ leg.seen

(* The way that makes T2 drive. *)
Away == IF m3.belief = "CLOSED" THEN "MOVING_OPEN" ELSE "MOVING_CLOSE"

(* Wrong: the state it copied is all a tick looks at. *)
WrongStartLeg(l) ==
    \/ Moving /\ TickFail
    \/ /\ ~Moving
       /\ leg' = l /\ pcT17' = Away /\ Works
       /\ UNCHANGED <<starting, st, late, dev, cmd, saw, read>>

(* start_leg(), up to its send: away from where T2 believes M3 is, if the    *)
(* teach still runs.                                                         *)
StartLeg(l) ==
    \/ Moving /\ TickFail
    \/ /\ ~Moving /\ Works
       /\ IF Active(st) THEN leg' = l /\ pcT17' = Away /\ UNCHANGED <<saw, read>>
          ELSE leg' = [l EXCEPT !.phase = "none"] /\ TickOver
       /\ UNCHANGED <<starting, st, late, dev, cmd>>

(* The leg as it was judged; wrong: nobody counts the legs. *)
Noop == IF Seen.made THEN 0 ELSE Seen.noop + 1
Judged == [Seen EXCEPT !.phase = "none", !.noop = Noop]
WrongSpoilt == ~Seen.made /\ (Seen.left \/ Noop >= 3)
Spoilt ==
    \/ ~Seen.made /\ (Seen.left \/ Noop >= 2)
    \/ Seen.ends < 2 /\ Seen.legs >= MaxLegs

(* finish_leg() *)
FinishLeg ==
    \/ Spoilt /\ TickFail
    \/ ~Spoilt /\ Seen.ends < 2 /\ StartLeg(Judged)
    \/ /\ ~Spoilt /\ Seen.ends = 2
       /\ leg' = Judged /\ st' = Publish /\ late' = FALSE /\ Works /\ TickOver
       /\ UNCHANGED <<starting, dev, cmd>>

Go(phase, isLate) ==
    /\ leg' = [Seen EXCEPT !.phase = phase]
    /\ st' = Publish /\ late' = isLate /\ Works /\ TickOver
    /\ UNCHANGED <<starting, dev, cmd>>

(* The sensor no longer says armed: it committed, or, short of two ends, it  *)
(* dropped the teach.                                                        *)
TickDropped ==
    /\ Dropped
    /\ \/ Seen.ends < 2 /\ TickFail
       \/ /\ Seen.ends = 2
          /\ st' = "DONE" /\ leg' = FreshLeg /\ late' = TRUE /\ Works /\ TickOver
          /\ UNCHANGED <<starting, dev, cmd>>

TickArming ==
    /\ ~Dropped /\ Now = "ARMING"
    /\ \/ Seen.seen /\ StartLeg(Seen)
       \/ ~Seen.seen /\ late /\ TickFail
       \/ ~Seen.seen /\ ~late /\ Go(leg.phase, late)

TickLeg ==
    /\ ~Dropped /\ Now # "ARMING"
    /\ \/ leg.phase = "starting" /\ Moving /\ Go("running", FALSE)
       \/ leg.phase = "starting" /\ ~Moving /\ ~late /\ Go("starting", late)
       \/ leg.phase = "running" /\ Moving /\ ~late /\ Go("running", late)
       \/ leg.phase = "running" /\ ~Moving /\ ~late /\ Go("stopping", FALSE)
       \/ leg.phase = "stopping" /\ ~Moving /\ ~late /\ Go("stopping", late)
       \/ leg.phase = "stopping" /\ ~Moving /\ late /\ FinishLeg
       \/ leg.phase = "none" /\ ~Moving /\ ~late /\ Go("none", late)
       \/ /\ \/ leg.phase = "starting" /\ ~Moving /\ late
             \/ leg.phase = "running" /\ late
             \/ leg.phase \in {"stopping", "none"} /\ Moving
             \/ leg.phase = "none" /\ late
          /\ TickFail

(* commission_tick() on the state it saw; a reading that is bad, the wind or *)
(* the motor alarm ends the teach.                                           *)
TickAct ==
    /\ pcT17 = "act"
    /\ \/ ~read.ok /\ TickFail
       \/ read.ok /\ (TickDropped \/ TickArming \/ TickLeg)
    /\ UNCHANGED <<pcT11, m3, stray, starts>>

(* The send, on the teach as it is by now.  Q1 holds one command of this     *)
(* teach here: that of an abandoned leg fills it.                            *)
SendLeg ==
    /\ pcT17 \in Ways
    /\ \/ cmd # "none" /\ TeachFail /\ UNCHANGED stray
       \/ /\ cmd = "none" /\ cmd' = pcT17 /\ late' = FALSE /\ Works
          /\ leg' = [leg EXCEPT !.phase = "starting", !.legs = @ + 1,
                                !.made = FALSE, !.left = ~leg.prev]
          /\ st' = IF saw = "ARMING" /\ st = "ARMING" THEN "TRAVERSING" ELSE st
          /\ stray' = ~Active(st)
          /\ UNCHANGED <<starting, dev>>
    /\ TickOver /\ UNCHANGED <<pcT11, m3, starts>>

T17Step == TickRead \/ CheckOrphan \/ DisarmOrphan \/ TickCopy \/ TickAct \/ SendLeg

-----------------------------------------------------------------------------
(* T2 and the greenhouse. *)

(* T2 takes the command of a leg, which reverses a drive the other way and   *)
(* is nothing to a window that is there or on its way.                       *)
TakeLeg ==
    /\ cmd # "none" /\ cmd' = "none"
    /\ m3' = [m3 EXCEPT !.belief =
                 IF <<cmd, @>> \in {<<"MOVING_OPEN", "OPEN">>, <<"MOVING_CLOSE", "CLOSED">>}
                 THEN @ ELSE cmd]
    /\ UNCHANGED <<run, tasks, dev, stray, faults, starts>>

(* Somebody else drives M3. *)
Drive ==
    /\ ~Moving /\ Fault
    /\ \E b \in Ways : m3' = [m3 EXCEPT !.belief = b]
    /\ UNCHANGED <<run, tasks, dev, cmd, stray, starts>>

(* The leaf moves: an armed sensor captures the ends it comes to ...         *)
Goal == IF m3.belief = "MOVING_OPEN" THEN "open" ELSE "closed"
Travel ==
    /\ Moving /\ m3.leaf # Goal
    /\ \E leaf \in {"mid", Goal} \ {m3.leaf} :
          /\ m3' = [m3 EXCEPT !.leaf = leaf]
          /\ IF dev.armed /\ leaf = Goal
             THEN dev' = [dev EXCEPT !.caps = @ \cup {leaf}]
             ELSE UNCHANGED dev
    /\ UNCHANGED <<run, tasks, cmd, stray, faults, starts>>

(* ... and commits the teach, some time after it has both.                   *)
SensorCommits ==
    /\ dev.armed /\ dev.caps = LeafEnds /\ dev' = Disarmed
    /\ UNCHANGED <<run, tasks, plant, stray, faults, starts>>

(* T2's timer ends the drive, at its end or short of it. *)
DriveEnds ==
    /\ Moving
    /\ m3' = [m3 EXCEPT !.belief = IF @ = "MOVING_OPEN" THEN "OPEN" ELSE "CLOSED"]
    /\ UNCHANGED <<run, tasks, dev, cmd, stray, faults, starts>>

Elapse ==
    /\ ~late /\ late' = TRUE
    /\ UNCHANGED <<st, starting, leg, tasks, dev, plant, stray, faults, starts>>

(* The sensor loses its supply for a moment. *)
SensorRestart ==
    /\ Fault /\ dev.armed /\ dev' = Disarmed
    /\ UNCHANGED <<run, tasks, plant, stray, starts>>

(* The sensor keeps an armed teach across a reboot of the controller. *)
TeachReboot ==
    /\ Fault
    /\ st' = "IDLE" /\ leg' = FreshLeg /\ starting' = FALSE /\ late' = TRUE
    /\ pcT11' = "idle" /\ pcT17' = "idle" /\ saw' = "IDLE" /\ read' = NoReading
    /\ cmd' = "none" /\ m3' = [m3 EXCEPT !.belief = "UNKNOWN"]
    /\ UNCHANGED <<dev, stray, starts>>

TeachNext ==
    \/ T11Step \/ T17Step
    \/ TakeLeg \/ Drive \/ Travel \/ DriveEnds \/ Elapse
    \/ SensorCommits \/ SensorRestart \/ TeachReboot

(* T17 and T11 run on, T2 drains Q1 and its timer ends every drive, time     *)
(* passes.                                                                   *)
TeachFairness ==
    /\ WF_teachVars(T17Step)
    /\ WF_teachVars(T11Goes)
    /\ WF_teachVars(Elapse) /\ WF_teachVars(DriveEnds)
    /\ WF_teachVars(TakeLeg)

TeachSpec == TeachInit /\ [][TeachNext]_teachVars /\ TeachFairness

-----------------------------------------------------------------------------
TeachTypeOK ==
    /\ st \in {"IDLE", "ARMING", "TRAVERSING", "COMMITTING", "DONE", "FAILED"}
    /\ saw \in {"IDLE", "ARMING", "TRAVERSING", "COMMITTING"}
    /\ starting \in BOOLEAN /\ late \in BOOLEAN
    /\ leg.phase \in {"none", "starting", "running", "stopping"}
    /\ leg.legs \in 0..MaxLegs /\ leg.noop \in 0..1 /\ leg.ends \in 0..2
    /\ pcT11 \in {"idle", "arm", "go", "disarm"}
    /\ pcT17 \in {"idle", "read", "disarm", "orphan", "act"} \cup Ways
    /\ dev.caps \subseteq LeafEnds

(* No teach is left on the sensor for ever: one that a reboot, a failed      *)
(* write or a lost answer left armed is disarmed (check_orphan_teach()).     *)
OrphanIsDisarmed ==
    []<>(~dev.armed \/ starting \/ Active(st))

(* Every teach comes to an end. *)
TeachEndsSomehow == []<>~Active(st)

(* A teach that was abandoned drives M3 at most once more, and only if T17   *)
(* had already found it running when it was abandoned: whatever tick was     *)
(* under way, and whatever has been started anew meanwhile (start_leg()).    *)
NoLegAfterTheEnd ==
    [][/\ pcT17 \notin Ways /\ pcT17' \in Ways => Active(st)
       /\ cmd = "none" /\ cmd' # cmd => pcT17 \in Ways /\ ~stray]_teachVars
===============================================================================
