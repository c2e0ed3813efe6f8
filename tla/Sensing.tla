------------------------------ MODULE Sensing -------------------------------
(***************************************************************************)
(* The wind, from the anemometer to the verdict: T5 reads and averages it  *)
(* and judges the sensor, T4 stores it, T3 judges the wind:                *)
(*   src/firmware/src/sensor_poll/sensor_poll.cpp                          *)
(*   src/firmware/src/data_manager/data_manager.cpp                        *)
(*   src/firmware/src/safety_monitor/safety_monitor.cpp                    *)
(*                                                                         *)
(* An average is its samples, time goes in polls.  The direction, T and RH *)
(* and the logging are left out; what T3's verdict brings is VentControl's. *)
(***************************************************************************)
EXTENDS Naturals, Sequences, SequencesExt, FiniteSetsExt

CONSTANTS
    Windows,        \* the averaging windows, in polls, that settings may give
    Grace,          \* SP_BUSY_TOLERANCE_MS
    Speeds, VMax, Hyst

SensingAssumption ==
    /\ Windows \subseteq Nat \ {0} /\ (\E w \in Windows : \A v \in Windows : v <= w)
    /\ Grace \in Nat
    /\ Speeds \subseteq Nat /\ VMax \in Nat \ {0} /\ Hyst \in Nat

VARIABLES
    window, protect,    \* avg_win_wind over the poll interval; wind_prot_en
    samples,            \* s_avg_ws: the samples it holds
    winLast,            \* s_win_w_last
    faultW,             \* w_fault_active, EG1_BIT_SENSOR_FAULT_W
    busyAge,            \* polls since w_busy_since, 0 for none
    failedPolls,        \* w_failed_polls
    readOnce,           \* w_read_once
    q6, meas,           \* the averages in Q6 and in T4, as T3 tells them apart
    pcS,                \* what has yet to be done about a reading: T4's, T3's
    alarmW, prot3,      \* T3: alarm_active, and the setting it last saw
    silent              \* polls since the last good read

sensorVars == <<samples, winLast, faultW, busyAge, failedPolls, readOnce, silent>>
senseVars  == <<window, protect, sensorVars, q6, meas, pcS, alarmW, prot3>>

None == "none"

(* Where the average of s stands: at the limit, between it and where the     *)
(* alarm clears, or below.  calc_win_ws(), and T3's two comparisons.         *)
Clears == VMax - IF Hyst >= VMax THEN VMax - 1 ELSE Hyst
LevelOf(s) ==
    LET sum == FoldSeq(+, 0, s) IN
    CASE s # <<>> /\ sum >= VMax * Len(s)   -> "limit"
      [] s # <<>> /\ sum < Clears * Len(s)  -> "below"
      [] s # <<>>                           -> "between"
      [] OTHER                              -> "empty"
TwoOr(w) == IF w > 2 THEN w ELSE 2

(* The polls that may go by before a silent sensor is a fault. *)
Longest == TwoOr(Max(Windows))
Patience == Grace + IF readOnce THEN Longest ELSE 1

SenseInit ==
    /\ window \in Windows /\ protect \in BOOLEAN
    /\ samples = <<>> /\ winLast = 0 /\ faultW = FALSE /\ busyAge = 0
    /\ failedPolls = 0 /\ readOnce = FALSE /\ silent = 0
    /\ q6 = None /\ meas = None /\ pcS = {}
    /\ alarmW = FALSE /\ prot3 = protect

(* T4 applies a setting: one update is of one key. *)
SetSensing ==
    /\ \/ window' \in Windows /\ UNCHANGED protect
       \/ protect' = ~protect /\ UNCHANGED window
    /\ UNCHANGED <<sensorVars, q6, meas, pcS, alarmW, prot3>>

-----------------------------------------------------------------------------
(* T5 *)

(* A window that changed starts empty. *)
Kept == IF window = winLast THEN samples ELSE <<>>

(* avg_push() *)
Pushed(v) == IF Len(Kept) >= window THEN Append(Tail(Kept), v) ELSE Append(Kept, v)

ReadOk ==
    /\ \E v \in Speeds : samples' = Pushed(v)
    /\ faultW' = FALSE /\ busyAge' = 0 /\ failedPolls' = 0
    /\ readOnce' = TRUE /\ silent' = 0

(* busy_deadline_passed(): in grace, the sensor is not judged. *)
ReadBusy ==
    /\ busyAge < Grace /\ busyAge' = busyAge + 1
    /\ samples' = Kept /\ UNCHANGED <<faultW, failedPolls, readOnce>>

(* The need follows the window; it counts up to 0xFFFF. *)
ReadFails ==
    /\ samples' = Kept
    /\ failedPolls' = IF failedPolls < Longest THEN failedPolls + 1
                      ELSE failedPolls
    /\ faultW' = (faultW \/ failedPolls' >= IF readOnce THEN TwoOr(window) ELSE 1)
    /\ UNCHANGED readOnce

(* task_sensor_poll(): one pass.  Q6 is overwritten. *)
Poll ==
    /\ \/ ReadOk
       \/ /\ \/ ReadBusy
             \/ ReadFails /\ busyAge' = IF busyAge \in {0, Grace} THEN busyAge ELSE busyAge + 1
          /\ silent' = IF silent < Grace + Longest THEN silent + 1 ELSE silent
    /\ winLast' = window /\ q6' = LevelOf(samples')
    /\ UNCHANGED <<window, protect, meas, pcS, alarmW, prot3>>

-----------------------------------------------------------------------------
(* T4: handle_sensor_reading(); MX2 may not be had in time. *)
StoreReading ==
    /\ q6 # None /\ q6' = None
    /\ meas' \in {meas, q6} /\ pcS' = {"T3"}
    /\ UNCHANGED <<window, protect, sensorVars, alarmW, prot3>>

(* T3's view of the speed. *)
Unsafe == faultW \/ meas = "limit" \/ (alarmW /\ meas = "between")

(* task_safety_monitor() on a notification *)
JudgeWind ==
    /\ "T3" \in pcS /\ pcS' = {}
    /\ alarmW' = (protect /\ Unsafe) /\ prot3' = protect
    /\ UNCHANGED <<window, protect, sensorVars, q6, meas>>

SenseNext == SetSensing \/ Poll \/ StoreReading \/ JudgeWind

SenseSpec == SenseInit /\ [][SenseNext]_senseVars

-----------------------------------------------------------------------------
SenseTypeOK ==
    /\ window \in Windows /\ winLast \in {0} \cup Windows
    /\ samples \in Seq(Speeds) /\ Len(samples) <= winLast
    /\ busyAge \in 0 .. Grace /\ silent <= Grace + Longest
    /\ (faultW => failedPolls > 0) /\ (readOnce \/ samples = <<>>)
    /\ pcS \subseteq {"T3"}

(* A sensor that has been silent for as long as a bus may be busy and for    *)
(* the longest window more has closed the greenhouse, once its last reading  *)
(* has gone through, whatever became of the settings meanwhile.              *)
DeadSensorCloses ==
    silent >= Patience =>
        faultW /\ (q6 = None /\ pcS = {} => alarmW \/ ~prot3)
===============================================================================
