------------------------------ MODULE ServicesMC ------------------------------
(* The services around the windows, for TLC.  They share no variable, so a   *)
(* behaviour is of one of them: services.cfg takes all fifteen.             *)
EXTENDS Integers, Sequences, FiniteSets

CONSTANTS
    Services,       \* those of the run
    MaxFile, MaxFiles, MinFiles, LatchMayFail,          \* LogShip
    Posters, Q3Depth, MaxRows,                          \* LogRows
    TapMax, HoldFor, FirstRepeat, LostAfter, Stall, Q2Depth, MaxHeld, \* KeyHold
    MaxValue, Q4Depth,                                      \* Config
    kMaxRetries, FailA, FailB,                          \* Station
    ApQ4Depth,                                          \* SoftAp
    Windows, Grace, Speeds, VMax, Hyst,                 \* Sensing
    BadBank, MaxCuts,                                   \* Boot
    LateBeyondGap,                                      \* Bus
    Temps, Humids, TMin, TMax, RhMin, RhMax, HystT, HystRh,
    Priority, Full, MoveMin, StepMax, Band, MaxTroubles, \* VentLaw
    Slots, Tokens, Timeouts, MaxNow,                    \* Sessions
    MaxManual                                           \* WallClock

VARIABLES
    here,       \* the service this behaviour is of
    ost, handle, part, zip, timer, bit, clear, pcO, retry, inactive, boot,
    card, mounted, cur, full, sdOk, released, opening, notified, latch, snap, after, pcU, pcF,
    hand, shipped, early, torn, jumped,
    q3, dropped, pcRow, pc9, count9, posts, vanished, refused, said, unsaid,
    screen, session, role, pending, back, asked, menuHold, m3, press, posted, windy,
    down, heldFor, upFor, q2, active, moving, repeated, age, quiet, truth, same, lag, done,
    stored, shadow, used2, flag2, q4, pcC, val4, astray,
    salt, ramSalt, hash, known, pcInit, inited, pcSet, mixed,
    router, link, lease, lostEvent, retries, timer10, fails, firedA, firedB, asked10,
    ntp, prevNtp, told4, geo,
    flagAp, seenAp, active10, dueAp, failedAp, q4Ap,
    window, protect, samples, winLast, faultW, busyAge, failedPolls, readOnce, silent,
    q6, meas, pcS, alarmW, prot3,
    stage, begun, dead, bank, valid, failCnt, soft, plan, marked, short, cuts,
    busOf, asking, onBus, rx, owed, got,
    temp, humid, mem, read, linear, available, heldDown, m3At, pos, goal, since,
    lastAsked, result, taken, held, pc6, troubles,
    sessions, now, setBack,
    sys, chip, unixTs, synced, told, pcClock, val, pcSntp, pcMan, valMan, manuals

otaVars == <<ost, handle, part, zip, timer, bit, clear, pcO, retry, inactive, boot>>
logVars ==
    <<card, mounted, cur, full, sdOk, released, opening, notified, latch, snap, after, pcU, pcF,
      hand, shipped, early, torn, jumped>>
rowVars == <<q3, dropped, pcRow, pc9, count9, posts, vanished, refused, said, unsaid>>
panelVars ==
    <<screen, session, role, pending, back, asked, menuHold, m3, press, posted, windy>>
tapVars ==
    <<down, heldFor, upFor, q2, active, moving, repeated, age, quiet, truth, same, lag, done>>
cfgVars == <<stored, shadow, used2, flag2, q4, pcC, val4, astray>>
pinVars == <<salt, ramSalt, hash, known, pcInit, inited, pcSet, mixed>>
staVars ==
    <<router, link, lease, lostEvent, retries, timer10, fails, firedA, firedB, asked10,
      ntp, prevNtp, told4, geo>>
apVars == <<flagAp, seenAp, active10, dueAp, failedAp, q4Ap>>
senseVars ==
    <<window, protect, samples, winLast, faultW, busyAge, failedPolls, readOnce, silent,
      q6, meas, pcS, alarmW, prot3>>
bootVars == <<stage, begun, dead, bank, valid, failCnt, soft, plan, marked, short, cuts>>
busVars == <<busOf, asking, onBus, rx, owed, got>>
lawVars ==
    <<temp, humid, mem, read, linear, available, heldDown, m3At, pos, goal, since,
      lastAsked, result, taken, held, pc6, troubles>>
sessionVars == <<sessions, now, setBack>>
clockVars ==
    <<sys, chip, unixTs, synced, told, pcClock, val, pcSntp, pcMan, valMan, manuals>>

Ot == INSTANCE Ota
Lo == INSTANCE LogShip
Lr == INSTANCE LogRows
Pa == INSTANCE Panel
Ke == INSTANCE KeyHold
Co == INSTANCE Config
Pi == INSTANCE Pins
St == INSTANCE Station
Ap == INSTANCE SoftAp
Se == INSTANCE Sensing
Bo == INSTANCE Boot
Bu == INSTANCE Bus
La == INSTANCE VentLaw
Ws == INSTANCE Sessions
Cl == INSTANCE WallClock

(* What the modules ask of their constants, evaluated on every run.          *)
ASSUME ServicesAssumption ==
    /\ Services \subseteq {"ota", "log", "rows", "panel", "key", "settings", "pin", "boot",
                          "station", "softap", "sensing", "bus", "law", "web", "clock"}
    /\ Lo!LogAssumption /\ Lr!RowsAssumption /\ Ke!KeyAssumption /\ Co!ConfigAssumption
    /\ St!StationAssumption
    /\ Ap!SoftApAssumption /\ Se!SensingAssumption /\ Bo!BootAssumption
    /\ Bu!BusAssumption /\ La!LawAssumption /\ Ws!SessionAssumption
    /\ Cl!ManualAssumption

(* Two halves, for UNCHANGED. *)
unitVars == <<otaVars, logVars, rowVars, panelVars, tapVars, cfgVars, pinVars, bootVars>>
worldVars == <<staVars, apVars, senseVars, busVars, lawVars, sessionVars, clockVars>>
vars == <<here, unitVars, worldVars>>

Init ==
    /\ here \in Services
    /\ Ot!OtaInit /\ Lo!LogInit /\ Lr!RowsInit /\ Pa!PanelInit /\ Ke!TapInit
    /\ Co!CfgInit /\ Pi!PinInit
    /\ Bo!BootInit /\ St!StaInit /\ Ap!ApInit /\ Se!SenseInit /\ Bu!BusInit
    /\ La!LawInit /\ Ws!SessionInit /\ Cl!ClockInit
    (* those that are not here start in one state *)
    /\ here # "boot" => bank = "A" /\ valid = {"A"} /\ plan
    /\ here # "softap" => flagAp = 0
    /\ here # "sensing" => protect /\ \A w \in Windows : window <= w
    /\ here # "clock" => chip = "right"

UnitNext ==
    /\ \/ /\ here = "ota" /\ Ot!OtaNext
          /\ UNCHANGED <<logVars, rowVars, panelVars, tapVars, cfgVars, pinVars, bootVars>>
       \/ /\ here = "log" /\ Lo!LogNext
          /\ UNCHANGED <<otaVars, rowVars, panelVars, tapVars, cfgVars, pinVars, bootVars>>
       \/ /\ here = "rows" /\ Lr!RowsNext
          /\ UNCHANGED <<otaVars, logVars, panelVars, tapVars, cfgVars, pinVars, bootVars>>
       \/ /\ here = "panel" /\ Pa!PanelNext
          /\ UNCHANGED <<otaVars, logVars, rowVars, tapVars, cfgVars, pinVars, bootVars>>
       \/ /\ here = "key" /\ Ke!TapNext
          /\ UNCHANGED <<otaVars, logVars, rowVars, panelVars, cfgVars, pinVars, bootVars>>
       \/ /\ here = "settings" /\ Co!CfgNext
          /\ UNCHANGED <<otaVars, logVars, rowVars, panelVars, tapVars, pinVars, bootVars>>
       \/ /\ here = "pin" /\ Pi!PinNext
          /\ UNCHANGED <<otaVars, logVars, rowVars, panelVars, tapVars, cfgVars, bootVars>>
       \/ /\ here = "boot" /\ Bo!BootNext
          /\ UNCHANGED <<otaVars, logVars, rowVars, panelVars, tapVars, cfgVars, pinVars>>
    /\ UNCHANGED <<here, worldVars>>

WorldNext ==
    /\ \/ /\ here = "station" /\ St!StaNext
          /\ UNCHANGED <<apVars, senseVars, busVars, lawVars, sessionVars, clockVars>>
       \/ /\ here = "softap" /\ Ap!ApNext
          /\ UNCHANGED <<staVars, senseVars, busVars, lawVars, sessionVars, clockVars>>
       \/ /\ here = "sensing" /\ Se!SenseNext
          /\ UNCHANGED <<staVars, apVars, busVars, lawVars, sessionVars, clockVars>>
       \/ /\ here = "bus" /\ Bu!BusNext
          /\ UNCHANGED <<staVars, apVars, senseVars, lawVars, sessionVars, clockVars>>
       \/ /\ here = "law" /\ La!LawNext
          /\ UNCHANGED <<staVars, apVars, senseVars, busVars, sessionVars, clockVars>>
       \/ /\ here = "web" /\ Ws!SessionNext
          /\ UNCHANGED <<staVars, apVars, senseVars, busVars, lawVars, clockVars>>
       \/ /\ here = "clock" /\ Cl!ClockNext
          /\ UNCHANGED <<staVars, apVars, senseVars, busVars, lawVars, sessionVars>>
    /\ UNCHANGED <<here, unitVars>>

Next == UnitNext \/ WorldNext

(* The fairness of the modules, of the one that is here. *)
OtaFair ==
    /\ WF_otaVars(here = "ota" /\ (Ot!FirmwarePost \/ Ot!AssetsPost \/ Ot!ClearBit("T11")))
    /\ WF_otaVars(here = "ota" /\ (Ot!Apply \/ Ot!ClearBit("T16")))
    /\ WF_otaVars(here = "ota" /\ (Ot!AssetsTask \/ Ot!ClearBit("T13")))
    /\ WF_otaVars(here = "ota" /\ (Ot!Fallback \/ Ot!ClearBit("fallback")))
    /\ WF_otaVars(here = "ota" /\ Ot!TimerFires) /\ WF_otaVars(here = "ota" /\ Ot!Reboots)

LogFair ==
    /\ WF_logVars(here = "log" /\ (Lo!Snapshot \/ Lo!Scan \/ Lo!StopUpload \/ Lo!WaitRotation))
    /\ SF_logVars(here = "log" /\ Lo!Look)
    /\ SF_logVars(here = "log" /\ Lo!Deliver /\ latch' = after')

BootFair ==
    WF_bootVars(here = "boot" /\ Bo!AppMain) /\ WF_bootVars(here = "boot" /\ Bo!Crash)

NetFair ==
    /\ WF_staVars(here = "station" /\ St!Joined) /\ WF_staVars(here = "station" /\ St!Lost)
    /\ WF_staVars(here = "station" /\ St!Reconnect)
    /\ WF_staVars(here = "station" /\ St!PostStatus)
    /\ WF_staVars(here = "station" /\ St!Recover)
    /\ WF_apVars(here = "softap" /\ Ap!PollAp)

LawFair ==
    /\ WF_lawVars(here = "law" /\ La!Wake)
    /\ WF_lawVars(here = "law" /\ (La!AskStepped \/ La!AskGraded))
    /\ WF_lawVars(here = "law" /\ La!Arrive) /\ WF_lawVars(here = "law" /\ La!Release)
    /\ WF_lawVars(here = "law" /\ La!Elapse) /\ WF_lawVars(here = "law" /\ La!HolddownOver)

ClockFair ==
    /\ WF_clockVars(here = "clock" /\ Cl!SntpSets)
    /\ WF_clockVars(here = "clock" /\ Cl!SntpLatch)
    /\ WF_clockVars(here = "clock" /\ Cl!PollCheck)
    /\ WF_clockVars(here = "clock" /\ Cl!PollSeed)
    /\ WF_clockVars(here = "clock" /\ Cl!PollStore)
    /\ SF_clockVars(here = "clock" /\ Cl!NtpTake)
    /\ SF_clockVars(here = "clock" /\ Cl!NtpChip)
    /\ SF_clockVars(here = "clock" /\ Cl!NtpStore)
    /\ WF_clockVars(here = "clock" /\ Cl!ManualChip)
    /\ WF_clockVars(here = "clock" /\ Cl!ManualShadow)

Spec ==
    /\ Init /\ [][Next]_vars
    /\ OtaFair /\ LogFair /\ BootFair /\ NetFair /\ LawFair /\ ClockFair

-----------------------------------------------------------------------------
(* The types of the fifteen modules: those that are not here stand still.    *)
TypeOK ==
    CASE here = "ota"      -> Ot!OtaTypeOK
      [] here = "log"      -> Lo!LogTypeOK
      [] here = "rows"     -> Lr!RowsTypeOK
      [] here = "panel"    -> Pa!PanelTypeOK
      [] here = "key"      -> Ke!TapTypeOK
      [] here = "settings" -> Co!CfgTypeOK
      [] here = "pin"      -> Pi!PinTypeOK
      [] here = "boot"     -> Bo!BootTypeOK
      [] here = "station"  -> St!StaTypeOK
      [] here = "softap"   -> Ap!ApTypeOK
      [] here = "sensing"  -> Se!SenseTypeOK
      [] here = "bus"      -> Bu!BusTypeOK
      [] here = "law"      -> La!LawTypeOK
      [] here = "web"      -> Ws!SessionTypeOK
      [] here = "clock"    -> Cl!ClockTypeOK

(* The unit runs on whole images: whatever the three routes of an upload, a  *)
(* lost client, a full worker or a cut of the power do to each other, none   *)
(* but a verified image is ever set to boot (Ota).                           *)
ImagesAreSound == Ot!ImagesAreSound

(* An update session ends whatever befalls it, with the unit restarted or    *)
(* free for the next (Ota).  An image that crashes is left for the one that  *)
(* ran before, and one that runs is given up only after three boots in a row *)
(* that were cut short (Boot).                                               *)
UpdatesEnd ==
    /\ here \in {"ota", "boot"} =>
           (IF here = "ota" THEN ~Ot!SessionOver ELSE Bo!BadImageRuns) ~>
               (IF here = "ota" THEN Ot!SessionOver ELSE Bo!BadImageIsLeft)
    /\ Bo!GoodImageStays

(* The upload's latch never passes a log file that has not reached the       *)
(* server whole, but for the two that T14 takes for what they are not        *)
(* (LogShip), and no row gives way to another untold (LogRows).              *)
NoneLeftBehind == Lo!NoneLeftBehind /\ Lr!RowsAreTold

(* Once the router stays well the unit is online again, the access point     *)
(* follows its flag, and the logs that piled up go out (Station, SoftAp,     *)
(* LogShip).                                                                 *)
NetworkHeals ==
    /\ here \in {"station", "softap"} =>
           (<>[](here = "station" => St!RouterWell) =>
                []<>(IF here = "station" THEN St!Online ELSE Ap!ApAsFlagged))
    /\ here = "log" => \A f \in 1 .. MaxFile - 1 : []<>Lo!Drained(f)

(* A press at the panel that ends, by the finger, the session, the screen or *)
(* the wind, takes its move of M3 with it (Panel), and T8's clock of a key   *)
(* tells a tap from a hold as the finger made it (KeyHold).                  *)
PanelMovesByHand == Pa!MoveIsStopped /\ []Ke!HandIsFollowed

(* With every writer at rest the settings in use are those the next boot     *)
(* will load, but for those a known gap has set apart (Config).              *)
StoreIsUsed == Co!StoreIsUsed

(* Nobody is let in by mistake or kept out for good: the hold of the menu is *)
(* an admin's (Panel), the farmer's PIN opens (Pins), and a session lapses   *)
(* in its time (Sessions).                                                   *)
AccessIsRight == Pa!MenuHoldIsAnAdmins /\ Pi!FarmerGetsIn /\ Ws!LapsesInTime

(* A reading is of what was asked for (Bus), those who are to hear of it are *)
(* there when T5 starts (Boot), and a sensor that gives none closes the      *)
(* greenhouse (Sensing).                                                     *)
SensorsAreHeard == Bu!NobodysLeftovers /\ Bo!StartsInOrder /\ Se!DeadSensorCloses

(* The same readings get the same answer, and once nothing changes any more  *)
(* M3 comes to rest where the law wants it (VentLaw).                        *)
LawComesToRest == La!SteadyLaw /\ (here = "law" => <>[]La!RestsWhereWanted)

(* A login takes a free slot of the session table, or the one that would     *)
(* lapse first: no live session is thrown out while another has lapsed       *)
(* (Sessions).                                                               *)
SessionsLast == Ws!SessionsLast

(* Where there is a network the system's clock comes right for good, and the *)
(* day that T6 and the panel read never stands still (WallClock).            *)
TimeIsKept ==
    here = "clock" => <>[]Cl!TimeIsRight /\ []<>Cl!DayIsRight
===============================================================================
