------------------------------ MODULE WallClock ------------------------------
(***************************************************************************)
(* Three clocks that tell the time of day: the system's, the DS1307 chip's *)
(* and the one in T4's shadow, which day and night are taken from.         *)
(*   src/firmware/src/data_manager/data_manager.cpp      T4, the operator  *)
(*   src/firmware/src/network_manager/network_manager.cpp  SNTP, its latch *)
(*                                                                         *)
(* A clock is right, wrong, dead (the chip), unset (the system's at boot)  *)
(* or stale (the shadow, once day has turned and nobody wrote it).  The    *)
(* chip may fail, stop and come back wrong at any time (gh#37).            *)
(***************************************************************************)
EXTENDS Naturals

CONSTANT MaxManual          \* how often the operator sets the time

ManualAssumption == MaxManual \in Nat

VARIABLES
    sys, chip, unixTs,      \* time(NULL), the DS1307, s_cfg.current_unix_ts
    synced, told,           \* s_sntp_synced, DM_NOTIFY_NTP_SYNCED
    pcClock, val,           \* T4: where it is, the time it carries
    pcSntp,                 \* SNTP has set the system's clock, T10 has yet to say so
    pcMan, valMan, manuals  \* dm_set_manual_time()

t4Clock == <<pcClock, val>>
manual == <<pcMan, valMan, manuals>>
clockVars == <<sys, chip, unixTs, synced, told, t4Clock, pcSntp, manual>>

Times == {"right", "wrong"}

ClockInit ==
    /\ sys = "unset" /\ chip \in Times /\ unixTs = "stale"
    /\ synced = FALSE /\ told = FALSE
    /\ pcClock = "idle" /\ val = "wrong" /\ pcSntp = "idle"
    /\ pcMan = "idle" /\ valMan = "wrong" /\ manuals = 0

-----------------------------------------------------------------------------
(* read_rtc_and_seed_clock(), each minute: nothing at all happens if MX1 is  *)
(* not to be had or the chip does not answer.                                *)
PollRead ==
    /\ pcClock = "idle" /\ chip # "dead"
    /\ val' = chip /\ pcClock' = "check"
    /\ UNCHANGED <<sys, chip, unixTs, synced, told, pcSntp, manual>>

(* Wrong: the chip outranks SNTP (before gh#37). *)
WrongPollCheck ==
    /\ pcClock = "check"
    /\ pcClock' = "seed"
    /\ UNCHANGED <<sys, chip, unixTs, synced, told, val, pcSntp, manual>>

(* Once SNTP has ever succeeded the chip is only compared, and the finding   *)
(* logged.                                                                   *)
PollCheck ==
    /\ pcClock = "check"
    /\ pcClock' = IF synced THEN "store" ELSE "seed"
    /\ UNCHANGED <<sys, chip, unixTs, synced, told, val, pcSntp, manual>>

PollSeed ==
    /\ pcClock = "seed"
    /\ sys' = val /\ pcClock' = "store"
    /\ UNCHANGED <<chip, unixTs, synced, told, val, pcSntp, manual>>

(* The shadow, with sunrise, sunset and is_daytime, if MX4 can be had.       *)
PollStore ==
    /\ pcClock = "store" /\ pcClock' = "idle"
    /\ unixTs' \in {unixTs, sys}
    /\ UNCHANGED <<sys, chip, synced, told, val, pcSntp, manual>>

(* handle_ntp_sync(): the system's clock goes to the chip ...                *)
NtpTake ==
    /\ pcClock = "idle" /\ told
    /\ told' = FALSE
    /\ val' = sys /\ pcClock' = "chip"
    /\ UNCHANGED <<sys, chip, unixTs, synced, pcSntp, manual>>

NtpChip ==
    /\ pcClock = "chip"
    /\ pcClock' = "shadow"
    /\ chip' \in IF chip = "dead" THEN {chip} ELSE {chip, val}
    /\ UNCHANGED <<sys, unixTs, synced, told, val, pcSntp, manual>>

(* ... and whether or not it took it, to the shadow.                         *)
NtpStore ==
    /\ pcClock = "shadow" /\ pcClock' = "idle"
    /\ unixTs' = val
    /\ UNCHANGED <<sys, chip, synced, told, val, pcSntp, manual>>

(* MX1 or MX4 is not to be had in time: the rest is skipped.                 *)
MutexTimesOut ==
    /\ pcClock \in {"chip", "shadow"} /\ pcClock' = "idle"
    /\ UNCHANGED <<sys, chip, unixTs, synced, told, val, pcSntp, manual>>

-----------------------------------------------------------------------------
(* SNTP sets the system's clock in a task of its own; T10, which waits for   *)
(* it, then latches it and tells T4.  So at boot, and every hour.            *)
SntpSets ==
    /\ pcSntp = "idle" /\ pcSntp' = "set"
    /\ sys' = "right"
    /\ UNCHANGED <<chip, unixTs, synced, told, t4Clock, manual>>

SntpLatch ==
    /\ pcSntp = "set" /\ pcSntp' = "idle"
    /\ synced' = TRUE /\ told' = TRUE
    /\ UNCHANGED <<sys, chip, unixTs, t4Clock, manual>>

(* The operator at the panel sets all three, each if it can be had.          *)
ManualSys ==
    /\ pcMan = "idle" /\ manuals < MaxManual
    /\ manuals' = manuals + 1
    /\ valMan' \in Times /\ sys' = valMan' /\ pcMan' = "chip"
    /\ UNCHANGED <<chip, unixTs, synced, told, t4Clock, pcSntp>>

ManualChip ==
    /\ pcMan = "chip" /\ pcMan' = "shadow"
    /\ chip' \in IF chip = "dead" THEN {chip} ELSE {chip, valMan}
    /\ UNCHANGED <<sys, unixTs, synced, told, t4Clock, pcSntp, valMan, manuals>>

ManualShadow ==
    /\ pcMan = "shadow" /\ pcMan' = "idle"
    /\ unixTs' \in {unixTs, valMan}
    /\ UNCHANGED <<sys, chip, synced, told, t4Clock, pcSntp, valMan, manuals>>

ChipFails ==
    /\ chip' \in {"wrong", "dead"}
    /\ UNCHANGED <<sys, unixTs, synced, told, t4Clock, pcSntp, manual>>

DayTurns ==
    /\ unixTs = "right" /\ unixTs' = "stale"
    /\ UNCHANGED <<sys, chip, synced, told, t4Clock, pcSntp, manual>>

ClockNext ==
    \/ PollRead \/ PollCheck \/ PollSeed \/ PollStore
    \/ NtpTake \/ NtpChip \/ NtpStore \/ MutexTimesOut
    \/ SntpSets \/ SntpLatch
    \/ ManualSys \/ ManualChip \/ ManualShadow
    \/ ChipFails \/ DayTurns

(* The network is there, the tasks run, and a mutex is not refused for ever. *)
ClockSpec ==
    /\ ClockInit /\ [][ClockNext]_clockVars
    /\ WF_clockVars(SntpSets) /\ WF_clockVars(SntpLatch)
    /\ WF_clockVars(PollCheck) /\ WF_clockVars(PollSeed) /\ WF_clockVars(PollStore)
    /\ SF_clockVars(NtpTake) /\ SF_clockVars(NtpChip) /\ SF_clockVars(NtpStore)
    /\ WF_clockVars(ManualChip) /\ WF_clockVars(ManualShadow)

-----------------------------------------------------------------------------
ClockTypeOK ==
    /\ sys \in Times \union {"unset"} /\ chip \in Times \union {"dead"}
    /\ unixTs \in Times \union {"stale", "unset"}
    /\ {synced, told} \subseteq BOOLEAN
    /\ pcClock \in {"idle", "check", "seed", "store", "chip", "shadow"}
    /\ val \in Times \union {"unset"}
    /\ pcSntp \in {"idle", "set"} /\ pcMan \in {"idle", "chip", "shadow"}
    /\ valMan \in Times /\ manuals \in 0..MaxManual

(* A failing chip and an operator's mistake are outlived: where there is a   *)
(* network the system's clock comes right for good, though the minute's poll *)
(* may still undo the first sync between its look at the latch and its       *)
(* settimeofday() (gh#37: the chip dragged the clock back every minute):     *)
(* <>[]TimeIsRight.                                                          *)
TimeIsRight == sys = "right"

(* With the chip dead day still turns, the shadow is brought up by SNTP:     *)
(* []<>DayIsRight.                                                           *)
DayIsRight == unixTs = "right"
=============================================================================
