------------------------------- MODULE VentLaw -------------------------------
(***************************************************************************)
(* What the ventilation laws want, and what becomes of it for M3: T6 asks  *)
(* the law in force once per reading, posts the drive, and judges where M3 *)
(* came to rest.                                                           *)
(*   src/drivers/ventModel/src/vent_model_stepped.cpp   mode 1             *)
(*   src/drivers/ventModel/src/vent_model_graded.cpp    mode 2             *)
(*   src/firmware/src/climate_control/climate_control.cpp                  *)
(*                                                                         *)
(* Readings of the temperature are in half degrees, apertures in parts of  *)
(* Full.  T2 takes a command as it comes (the queue is VentControl's       *)
(* matter).  M1 and M2 follow the step and keep nothing, so M3 alone has a *)
(* state.                                                                  *)
(***************************************************************************)
EXTENDS Integers

CONSTANTS
    Temps, Humids,       \* the readings that may come
    TMin, TMax, RhMin, RhMax, \* the crop's, in degrees and per cent
    HystT, HystRh,       \* in degrees, per cent
    Priority,            \* cr_priority
    Full, MoveMin, StepMax, \* the open end, M3_MOVE_MIN_X10, M3_STEP_MAX_X10
    Band,                \* the deadzone
    MaxTroubles

LawAssumption ==
    /\ Temps \subseteq Int /\ Humids \subseteq Int
    /\ {TMin, TMax, RhMin, RhMax} \subseteq Int
    /\ HystT \in Nat \ {0} /\ HystRh \in Nat \ {0} /\ Priority \in 0..2
    /\ Full \in Nat \ {0} /\ MoveMin \in 1..Full /\ StepMax \in 1..Full
    /\ Band \in 1..(Full \div 2) /\ MaxTroubles \in Nat

VARIABLES
    temp, humid,     \* T4's snapshot
    mem,             \* vent_state_t: the steps last decided, M3's target
    read,            \* what the law read last, <<>> after a reset
    linear, available, heldDown, \* mode 2 in force; M3's position is to be had; since
    m3At, pos,         \* T2's state of M3, and where the leaf is
    goal,            \* where T2 drives it, None at rest
    since,           \* the last drive ended 0 now, 1 min_intv_m3, 2 M3_HOLD_MS ago
    lastAsked, result, taken, \* T6's record of M3's last target
    held,            \* an inhibit bit of EG1: others have M3
    pc6,             \* T6: "wait" for a reading, or about to "ask" the law
    troubles         \* what has changed or gone wrong so far

weather == <<temp, humid>>
modeVars == <<linear, available, heldDown>>
leaf == <<m3At, pos, goal, since>>
record == <<lastAsked, result, taken>>
lawVars == <<weather, mem, read, modeVars, leaf, record, held, pc6, troubles>>

Steps == 0..3               \* VENT_STEPS_MAX
None == -1                  \* VENT_STEP_NONE, and no target
Moving == m3At \in {"opening", "closing"}

Fresh == [t |-> 0, rh |-> 0, step |-> 0, tgt |-> None]

(* After T2's boot calibration, the coldest reading and the driest.          *)
LawInit ==
    /\ temp \in Temps /\ \A other \in Temps : temp <= other
    /\ humid \in Humids /\ \A other \in Humids : humid <= other
    /\ mem = Fresh /\ read = <<>>
    /\ linear = TRUE /\ available = TRUE /\ heldDown = FALSE
    /\ m3At = "closed" /\ pos = 0 /\ goal = None /\ since = 2
    /\ lastAsked = None /\ result = "none" /\ taken = FALSE
    /\ held = FALSE /\ pc6 = "wait" /\ troubles = 0

-----------------------------------------------------------------------------
(* Mode 1.                                                                   *)
AtLeast(a, b) == IF a > b THEN a ELSE b
AtMost(a, b) == IF a < b THEN a ELSE b
Within(v, lo, hi) == AtLeast(lo, AtMost(v, hi))
Width(hyst) == AtLeast(hyst \div 3, 1)

(* A step once taken is not given up until the value is hyst under its limit. *)
FromDeviation(dev, hyst, current) ==
    IF dev <= 0
    THEN IF current > 0 /\ dev > -hyst THEN 1 ELSE 0
    ELSE AtMost((dev + Width(hyst) - 1) \div Width(hyst), 3)

Degrees == (temp + 1) \div 2     \* t_avg_c, rounded by the sensor layer

RequiredT == FromDeviation(Degrees - TMax, HystT, mem.t)

RequiredRh ==
    IF humid > RhMax THEN FromDeviation(humid - RhMax, HystRh, mem.rh)
    ELSE IF mem.rh > 0 /\ humid > RhMax - Width(HystRh) THEN 1
    ELSE IF humid < RhMin THEN 0
    ELSE None

(* Humidity alone opens from two degrees above t_min, and what it has opened *)
(* it holds for one degree less.                                             *)
FloorOk ==
    LET floor == TMin + 2
        aloneLive == mem.step > 0 /\ mem.t = 0
    IN  Degrees >= floor \/ (aloneLive /\ Degrees >= floor - 1)

Resolve(stT, stRh) ==
    IF stT > 0 /\ stRh > 0 THEN AtLeast(stT, stRh)
    ELSE IF stT = 0 /\ stRh > 0 /\ Priority # 0 /\ FloorOk THEN 1
    ELSE stT

Decided ==
    LET stT == RequiredT
        stRh == RequiredRh
    IN  [mem EXCEPT !.t = stT, !.rh = stRh, !.step = Resolve(stT, stRh)]

(* The end mode 1 wants M3 at, None when M3 is there or on its way.          *)
SteppedM3(d) ==
    IF d.step = 3
    THEN IF m3At \in {"closed", "closing", "part"} THEN Full ELSE None
    ELSE IF m3At \in {"open", "opening", "part"} THEN 0 ELSE None

-----------------------------------------------------------------------------
(* Mode 2: the aperture for the excess over t_max, from +1.5 to +3.5 degrees. *)
Aperture == Within(((temp - 2 * TMax - 3) * Full) \div 4, 0, Full)

Wanted(d) ==
    IF d.step < 2 THEN 0
    ELSE IF d.rh = 3 THEN Full ELSE Aperture

Near(a, b) == Within(a - b, -Band, Band) = a - b

(* Wrong: an end is reached when the reading is near it (gh#83). *)
WrongArrived(tgt) == Near(pos, tgt)

(* An end is reached by its switch, any other target by the reading.         *)
Arrived(tgt) ==
    CASE tgt = 0    -> m3At = "closed"
      [] tgt = Full -> m3At = "open"
      [] OTHER      -> Near(pos, tgt)

(* A target in the deadzone of an end is that end. *)
Snapped(want) ==
    IF want <= Band THEN 0 ELSE IF want >= Full - Band THEN Full ELSE want

(* How the last target ended, judged once M3 rests.                          *)
Judged ==
    IF lastAsked = None \/ result # "none" \/ Moving THEN result
    ELSE IF taken THEN "aborted"
    ELSE IF ~available THEN "fault"
    ELSE IF Arrived(Snapped(lastAsked)) THEN "done" ELSE "timeout"

(* The target in force once M3 rests: where it is, if there is none or the   *)
(* last drive did not arrive; corrected if that is worth a drive.            *)
NewTarget(d) ==
    LET base == IF mem.tgt = None \/ Judged \in {"timeout", "aborted"} THEN pos ELSE mem.tgt
        want == Wanted(d)
        gap == want - base
        worth == \/ gap >= MoveMin \/ -gap >= MoveMin
                 \/ gap # 0 /\ want \in {0, Full}
    IN  IF worth /\ since = 2 THEN base + Within(gap, -StepMax, StepMax) ELSE base

(* What m3_linear() leaves in its memory, and what it asks for.              *)
GradedTarget(d) == IF m3At = "unknown" \/ Moving THEN mem.tgt ELSE NewTarget(d)

GradedM3(target) ==
    IF m3At = "unknown" \/ (~Moving /\ Arrived(target)) THEN None ELSE target

-----------------------------------------------------------------------------
(* T6 does not post a target that is reached, or that comes too soon after   *)
(* the last drive.                                                           *)
Posts(want) ==
    /\ want # None
    /\ CASE Snapped(want) = 0    -> m3At # "closed"
         [] Snapped(want) = Full -> m3At # "open"
         [] OTHER                -> Moving \/ ~Near(pos, want)
    /\ since > 0

-----------------------------------------------------------------------------
(* The mode in force: down at once, up again after a time.  The memory of a  *)
(* law that is replaced, or that an inhibit interrupts, is thrown away.      *)
Wake ==
    /\ pc6 = "wait"
    /\ linear' = (available /\ (linear \/ ~heldDown))
    /\ heldDown' = (~linear' /\ (heldDown \/ linear))
    /\ IF held \/ linear' # linear
       THEN mem' = Fresh /\ read' = <<>>
       ELSE UNCHANGED <<mem, read>>
    /\ pc6' = IF held THEN "wait" ELSE "ask"
    /\ UNCHANGED <<weather, available, leaf, record, held, troubles>>

(* T2 runs into an end, or drives to a target by the position.               *)
DriveTo(want) ==
    /\ goal' = want
    /\ m3At' = IF want = 0 \/ (want < pos /\ want # Full) THEN "closing" ELSE "opening"
    /\ UNCHANGED <<pos, since>>

Rest == UNCHANGED leaf

(* The law is asked, and M3 is driven as it wants: mode 1's ends ...         *)
AskStepped ==
    /\ pc6 = "ask" /\ ~(linear /\ available)
    /\ mem' = Decided
    /\ result' = Judged
    /\ LET want == SteppedM3(Decided)
       IN  IF want = None THEN Rest ELSE DriveTo(want)
    /\ read' = weather /\ pc6' = "wait"
    /\ UNCHANGED <<weather, modeVars, lastAsked, taken, held, troubles>>

(* ... or mode 2's target.  One that is posted again is the same command.    *)
AskGraded ==
    /\ pc6 = "ask" /\ linear /\ available
    /\ \E d \in {Decided} : \E target \in {GradedTarget(d)} :
       \E want \in {GradedM3(target)} :
          LET again == Judged = "none" /\ lastAsked = Snapped(want)
          IN  /\ mem' = [d EXCEPT !.tgt = target]
              /\ IF Posts(want)
                 THEN /\ DriveTo(Snapped(want))
                      /\ lastAsked' = Snapped(want) /\ result' = "none"
                      /\ taken' = (again /\ taken)
                 ELSE Rest /\ result' = Judged /\ UNCHANGED <<lastAsked, taken>>
    /\ read' = weather /\ pc6' = "wait"
    /\ UNCHANGED <<weather, modeVars, held, troubles>>

-----------------------------------------------------------------------------
Trouble == troubles < MaxTroubles /\ troubles' = troubles + 1

(* A drive ends where it was to end, an end by its switch ...                *)
Arrive ==
    /\ goal # None
    /\ \/ goal = 0 /\ m3At' = "closed" /\ pos' = 0
       \/ goal = Full /\ m3At' = "open" /\ pos' = Full
       \/ /\ goal \in 1..(Full - 1) /\ m3At' = "part"
          /\ pos' \in Within(goal - Band, 0, Full)..Within(goal + Band, 0, Full)
    /\ goal' = None /\ since' = 0
    /\ UNCHANGED <<weather, mem, read, modeVars, record, held, pc6, troubles>>

(* ... or it fails, and stops on its way, its switch not made.               *)
StopShort ==
    /\ Trouble /\ goal # None
    /\ m3At' = "part"
    /\ pos' \in AtMost(pos, goal)..AtLeast(pos, goal)
    /\ goal' = None /\ since' = 0
    /\ UNCHANGED <<weather, mem, read, modeVars, record, held, pc6>>

(* The wind override, the operator or a recalibration takes M3, behind an    *)
(* inhibit bit; a motor alarm stops it where it is.                          *)
Take ==
    /\ Trouble /\ pc6 = "wait"
    /\ held' = TRUE /\ taken' = TRUE
    /\ \/ \E want \in {0, Full} : DriveTo(want)
       \/ m3At' = "unknown" /\ goal' = None /\ since' = 0 /\ UNCHANGED pos
    /\ UNCHANGED <<weather, mem, read, modeVars, lastAsked, result, pc6>>

(* What took M3 lets it go; from an unknown place it is driven shut first.   *)
Release ==
    /\ held /\ goal = None
    /\ IF m3At = "unknown" THEN DriveTo(0) /\ UNCHANGED held ELSE held' = FALSE /\ Rest
    /\ UNCHANGED <<weather, mem, read, modeVars, record, pc6, troubles>>

Elapse ==
    /\ since < 2 /\ since' = since + 1
    /\ UNCHANGED <<weather, mem, read, modeVars, m3At, pos, goal, record, held, pc6, troubles>>

HolddownOver ==     \* M3_MODE_HOLDDOWN_MS
    /\ heldDown /\ heldDown' = FALSE
    /\ UNCHANGED <<weather, mem, read, linear, available, leaf, record, held, pc6, troubles>>

Weather ==
    /\ Trouble
    /\ temp' \in Temps /\ humid' \in Humids
    /\ UNCHANGED <<mem, read, modeVars, leaf, record, held, pc6>>

PositionComesAndGoes ==
    /\ Trouble
    /\ available' = ~available
    /\ UNCHANGED <<weather, mem, read, linear, heldDown, leaf, record, held, pc6>>

LawNext ==
    \/ Wake \/ AskStepped \/ AskGraded
    \/ Arrive \/ StopShort \/ Take \/ Release
    \/ Elapse \/ HolddownOver \/ Weather \/ PositionComesAndGoes

LawSpec ==
    /\ LawInit /\ [][LawNext]_lawVars
    /\ WF_lawVars(Wake) /\ WF_lawVars(AskStepped \/ AskGraded)
    /\ WF_lawVars(Arrive) /\ WF_lawVars(Release)
    /\ WF_lawVars(Elapse) /\ WF_lawVars(HolddownOver)

-----------------------------------------------------------------------------
LawTypeOK ==
    /\ temp \in Temps /\ humid \in Humids
    /\ mem \in [t : Steps, rh : Steps \union {None}, step : Steps, tgt : {None} \union 0..Full]
    /\ read \in {<<>>, weather} \union (Temps \X Humids)
    /\ {linear, available, heldDown, held, taken} \subseteq BOOLEAN
    /\ m3At \in {"closed", "open", "part", "opening", "closing", "unknown"}
    /\ pos \in 0..Full /\ goal \in {None} \union 0..Full /\ since \in 0..2
    /\ lastAsked \in {None} \union 0..Full
    /\ result \in {"none", "done", "timeout", "aborted", "fault"}
    /\ pc6 \in {"wait", "ask"} /\ troubles \in 0..MaxTroubles
    /\ Moving <=> goal # None

(* The same readings, asked about twice on one memory, get the same answer:  *)
(* the hysteresis of three branches, and the floor that only an opening for  *)
(* humidity reads, agree on what they leave behind.                          *)
SteadyLaw == [][read' = weather /\ read = weather => mem'.step = mem.step]_<<read, mem>>

(* Once nothing changes any more, M3 comes to rest for good, and where the   *)
(* law wants it: shut and fully open by the end switch (gh#83: a reading     *)
(* near the end kept it ajar a whole night), elsewhere within a correction   *)
(* not worth a drive: <>[]RestsWhereWanted.                                  *)
RestsWhereWanted ==
    LET want == IF linear THEN Wanted(Decided) ELSE IF mem.step = 3 THEN Full ELSE 0
    IN  /\ goal = None
        /\ want = 0 => m3At = "closed"
        /\ want = Full => m3At = "open"
        /\ Within(pos - want, 1 - MoveMin - Band, MoveMin + Band - 1) = pos - want
=============================================================================
