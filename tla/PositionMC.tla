------------------------------ MODULE PositionMC ------------------------------
(* The position of M3: who holds the greenhouse still to measure, the teach, *)
(* the characterisation and the gate on the sensor, for TLC.  They share no  *)
(* variable, so a behaviour is one of any of the four.                       *)
EXTENDS Naturals, Sequences

CONSTANTS
    Holder, NvsMayFail, Session, NoSession,     \* Commission
    MaxFaults, MaxStarts,                       \* Teach
    Plan, Raises, Depth, Intrusions,            \* Characterise
    FailLimit                                   \* PositionGate

VARIABLES
    here,       \* which of the four this behaviour is of
    on, holders, nvs, badNvs, teach, char, owner, ended, lock, pc11, who11, live,
    st, starting, leg, late, pcT11, pcT17, read, saw, dev, m3, cmd, stray, faults,
    starts,
    job, step, kind, phase, left, raised, band, abortReq, news, elapsed,
    out, q1, drive, closed, foiled, due, raced, wind, trouble, others,
    fitted, gate, latched, mode, fails, pc, was, rest, seg, notConfirmed,
    device, t2, at, rested

holdVars == <<on, holders, nvs, badNvs, teach, char, owner, ended, lock, pc11, who11, live>>
teachVars ==
    <<st, starting, leg, late, pcT11, pcT17, read, saw, dev, m3, cmd, stray, faults, starts>>
charVars ==
    <<job, step, kind, phase, left, raised, band, abortReq, news, elapsed,
      out, q1, drive, closed, foiled, due, raced, wind, trouble, others>>
gateVars ==
    <<fitted, gate, latched, mode, fails, pc, was, rest, seg, notConfirmed,
      device, t2, at, rested>>

Co == INSTANCE Commission
Te == INSTANCE Teach
Ch == INSTANCE Characterise
Po == INSTANCE PositionGate

(* What the modules ask of their constants, evaluated on every run.          *)
ASSUME PositionAssumption ==
    /\ Co!StandbyAssumption /\ Co!CommissionAssumption /\ Te!TeachAssumption
    /\ Ch!CharAssumption /\ Po!GateAssumption

vars == <<here, holdVars, teachVars, charVars, gateVars>>

Init ==
    /\ here \in {"hold", "teach", "run", "gate"}
    /\ Co!CommInit /\ Te!TeachInit /\ Ch!CharInit /\ Po!PosInit
    (* the three that are not here start in one state *)
    /\ here # "hold" => ~on
    /\ here # "teach" => m3.leaf = "closed"
    /\ here # "run" => closed
    /\ here # "gate" => ~fitted /\ device = "ok" /\ at = "closed"

Next ==
    /\ UNCHANGED here
    /\ \/ /\ here = "hold" /\ Co!CommNext
          /\ UNCHANGED <<teachVars, charVars, gateVars>>
       \/ /\ here = "teach" /\ Te!TeachNext
          /\ UNCHANGED <<holdVars, charVars, gateVars>>
       \/ /\ here = "run" /\ Ch!CharNext
          /\ UNCHANGED <<holdVars, teachVars, gateVars>>
       \/ /\ here = "gate" /\ Po!PosNext
          /\ UNCHANGED <<holdVars, teachVars, charVars>>

(* The fairness of the four, of the one that is here. *)
Spec ==
    /\ Init /\ [][Next]_vars
    /\ SF_holdVars(here = "hold" /\ lock = "free" /\ Co!TickHold /\ holders' # holders)
    /\ WF_holdVars(here = "hold" /\ Co!TeachEnds) /\ WF_holdVars(here = "hold" /\ Co!CharEnds)
    /\ WF_holdVars(here = "hold" /\ Co!T11Goes)
    /\ WF_teachVars(here = "teach" /\ Te!T17Step)
    /\ WF_teachVars(here = "teach" /\ Te!T11Goes)
    /\ WF_teachVars(here = "teach" /\ Te!Elapse)
    /\ WF_teachVars(here = "teach" /\ Te!DriveEnds)
    /\ WF_teachVars(here = "teach" /\ Te!TakeLeg)
    /\ WF_charVars(here = "run" /\ Ch!Tick) /\ WF_charVars(here = "run" /\ Ch!T17Sends)
    /\ WF_charVars(here = "run" /\ Ch!PostClose)
    /\ WF_charVars(here = "run" /\ Ch!RunStarts)
    /\ WF_charVars(here = "run" /\ Ch!TakeCommand) /\ WF_charVars(here = "run" /\ Ch!DriveEnds)
    /\ WF_charVars(here = "run" /\ Ch!RunElapse)
    /\ WF_gateVars(here = "gate" /\ Po!Pass)
    /\ SF_gateVars(here = "gate" /\ Po!PassRest /\ pc' = "sample")

(* The types of the four modules. *)
TypeOK == Co!CommTypeOK /\ Te!TeachTypeOK /\ Ch!CharTypeOK /\ Po!PosTypeOK

(* The pause in force is the pause in the store, but after a write that      *)
(* failed: a restart neither frees nor pauses the greenhouse (Standby).      *)
PauseAndStoreAgree == Co!PauseAndStoreAgree

(* An operator's own pause ends by the operator alone, whatever runs come    *)
(* and go meanwhile (Standby), and a run that needs the greenhouse still is  *)
(* never without its hold while it goes on (Commission).                     *)
HoldsKeepTheirPlace == Co!OperatorsPauseIsTheirs /\ Co!HoldOutlivesTheRun

(* A hold whose owner left is let go (Commission), a teach comes to an end,  *)
(* with a result or without, and one that a restart or a lost answer left in *)
(* the sensor is disarmed (Teach), and a characterisation run ends           *)
(* (Characterise).                                                           *)
RunsComeToTheirEnd ==
    Co!HoldEnds /\ Te!TeachEndsSomehow /\ Te!OrphanIsDisarmed /\ Ch!RunComesToItsEnd

(* A teach that was abandoned drives M3 at most once more, by the leg that   *)
(* T17 had already decided on (Teach).                                       *)
TeachDrivesNoMore == Te!NoLegAfterTheEnd

(* The raised dwell of a characterisation run dies with it (Characterise).   *)
BandDiesWithTheRun == Ch!BandDiesWithTheRun

(* What lasts is followed in the end: the wind takes M3 from a run, whatever *)
(* the run had asked for meanwhile, but for a closing pulse under way and a  *)
(* command that was about to be sent (Characterise); and a sensor that stays *)
(* bad is given up, one that stays well is steered by (PositionGate).        *)
WhatLastsIsFollowed == Ch!WindBeatsTheRun /\ Po!GateFollowsSensor

(* T2 is not told to steer by a sensor that was given up, nor in the middle  *)
(* of a movement that began before the gate opened; and a drive is confirmed *)
(* only by what the readings of that very drive showed (PositionGate).       *)
SensorIsNotOverrated ==
    Po!GivenUpIsNotUsed /\ Po!PromotedAfterRest /\ Po!ConfirmedWasSeen
===============================================================================
