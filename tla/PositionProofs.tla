----------------------------- MODULE PositionProofs -----------------------------
(* What TLAPS proves of M3's position and of the pause it is measured in, for *)
(* every set of holders and sessions, any number of faults, starts and        *)
(* intrusions, any plan and any depth of Q1.                                  *)
EXTENDS PositionMC, TLAPS

(* A behaviour of the four is one of each: what is not here stands still.     *)
LEMMA StepOfEach ==
    ASSUME [Next]_vars
    PROVE  /\ [Co!CommNext]_(Co!commVars) /\ [Te!TeachNext]_(Te!teachVars)
           /\ [Ch!CharNext]_(Ch!charVars) /\ [Po!PosNext]_(Po!posVars)
  <1> USE DEF holdVars, teachVars, charVars, gateVars,
          Co!commVars, Co!standbyVars, Co!holdVars, Co!t11,
          Te!teachVars, Te!run, Te!tasks, Te!plant,
          Ch!charVars, Ch!runVars, Ch!closeVars, Ch!worldVars,
          Po!posVars, Po!gateVars, Po!driveVars, Po!plantVars
  <1>1. CASE UNCHANGED vars
    BY <1>1 DEF vars
  <1>2. CASE Next
    BY <1>2 DEF Next
  <1> QED  BY <1>1, <1>2

-----------------------------------------------------------------------------
(* The pause and who holds it (Standby, Commission).                          *)

(* T11 has the hold lock while a start is between its hold and its run, and   *)
(* a held pause and the store agree.                                          *)
HoldInv ==
    /\ Co!PauseAndStoreAgree
    /\ pc11 = "arm" => lock # "free"

(* The five entries of T4, each under its mutex.                             *)
LEMMA SetKeepsAgreement ==
    ASSUME Co!PauseAndStoreAgree, NEW want \in BOOLEAN, Co!SetStandby(want)
    PROVE  Co!PauseAndStoreAgree'
  <1>1. on' = want /\ holders' = {}
    BY DEF Co!SetStandby
  <1>2. (nvs' = want /\ badNvs' = FALSE) \/ badNvs' = TRUE
    BY DEF Co!SetStandby, Co!Store
  <1> QED  BY <1>1, <1>2 DEF Co!PauseAndStoreAgree, Co!OperatorsOwn, Co!Held

LEMMA HoldKeepsAgreement ==
    ASSUME Co!PauseAndStoreAgree, NEW who, Co!Hold(who)
    PROVE  Co!PauseAndStoreAgree'
  <1>1. CASE ~on
    <2>1. on' = TRUE /\ holders' = {who}
      BY <1>1 DEF Co!Hold
    <2>2. CASE nvs
      <3>1. (nvs' = FALSE /\ badNvs' = FALSE) \/ badNvs' = TRUE
        BY <1>1, <2>2 DEF Co!Hold, Co!Store
      <3> QED  BY <2>1, <3>1 DEF Co!PauseAndStoreAgree, Co!OperatorsOwn, Co!Held
    <2>3. CASE ~nvs
      <3>1. nvs' = nvs /\ badNvs' = badNvs
        BY <1>1, <2>3 DEF Co!Hold
      <3> QED  BY <2>1, <2>3, <3>1 DEF Co!PauseAndStoreAgree, Co!OperatorsOwn, Co!Held
    <2> QED  BY <2>2, <2>3
  <1>2. CASE on
    <2>1. /\ on' = on /\ nvs' = nvs /\ badNvs' = badNvs
          /\ holders' = IF Co!Held THEN holders \cup {who} ELSE {}
      BY <1>2 DEF Co!Hold
    <2>2. Co!Held' <=> Co!Held
      BY <2>1 DEF Co!Held
    <2> QED  BY <1>2, <2>1, <2>2 DEF Co!PauseAndStoreAgree, Co!OperatorsOwn
  <1> QED  BY <1>1, <1>2

LEMMA ReleaseKeepsAgreement ==
    ASSUME Co!PauseAndStoreAgree, NEW who, Co!Release(who)
    PROVE  Co!PauseAndStoreAgree'
  <1>1. CASE who \notin holders
    BY <1>1 DEF Co!Release, Co!standbyVars, Co!PauseAndStoreAgree, Co!OperatorsOwn, Co!Held
  <1>2. CASE who \in holders
    <2>1. on /\ Co!Held
      BY <1>2 DEF Co!PauseAndStoreAgree, Co!Held
    <2>2. on' = (holders' # {}) /\ nvs' = nvs /\ badNvs' = badNvs
      BY <1>2 DEF Co!Release
    <2> QED  BY <2>1, <2>2 DEF Co!PauseAndStoreAgree, Co!OperatorsOwn, Co!Held
  <1> QED  BY <1>1, <1>2

LEMMA RestKeepsAgreement ==
    ASSUME Co!PauseAndStoreAgree,
           Co!ReloadAfterReset \/ Co!Reboot \/ UNCHANGED Co!standbyVars
    PROVE  Co!PauseAndStoreAgree'
  <1>1. CASE Co!ReloadAfterReset
    BY <1>1 DEF Co!ReloadAfterReset, Co!PauseAndStoreAgree, Co!OperatorsOwn, Co!Held
  <1>2. CASE Co!Reboot
    <2>1. on' = nvs /\ holders' = {} /\ nvs' = nvs /\ badNvs' = badNvs
      BY <1>2 DEF Co!Reboot
    <2> QED  BY <2>1 DEF Co!PauseAndStoreAgree, Co!OperatorsOwn, Co!Held
  <1>3. CASE UNCHANGED Co!standbyVars
    BY <1>3 DEF Co!standbyVars, Co!PauseAndStoreAgree, Co!OperatorsOwn, Co!Held
  <1> QED  BY <1>1, <1>2, <1>3

-----------------------------------------------------------------------------
(* Commissioning's own use of them.                                          *)
LEMMA CheckKeepsAgreement ==
    ASSUME Co!PauseAndStoreAgree, Co!HoldCheck
    PROVE  Co!PauseAndStoreAgree'
  <1>1. UNCHANGED Co!standbyVars \/ Co!Release("TEACH")
    BY DEF Co!HoldCheck
  <1> QED  BY <1>1, ReleaseKeepsAgreement, RestKeepsAgreement

LEMMA StepKeepsAgreement ==
    ASSUME Co!PauseAndStoreAgree, [Co!CommNext]_(Co!commVars)
    PROVE  Co!PauseAndStoreAgree'
  <1>1. CASE Co!T11Step
    <2>1. \/ UNCHANGED Co!standbyVars
          \/ Co!HoldCheck
          \/ Co!Hold("TEACH")
      BY <1>1 DEF Co!T11Step, Co!Login, Co!Logout, Co!TeachStart, Co!CharStart,
                  Co!TeachAbort, Co!T11Goes, Co!LogoutCheck, Co!TeachHold, Co!TeachGo, Co!CharHold,
                  Co!CharRun, Co!HoldTake
    <2> QED  BY <2>1, CheckKeepsAgreement, HoldKeepsAgreement, RestKeepsAgreement
  <1>2. CASE Co!T17Step
    <2>1. UNCHANGED Co!standbyVars \/ Co!HoldCheck
      BY <1>2 DEF Co!T17Step, Co!TickHold, Co!TeachEnds, Co!CharEnds
    <2> QED  BY <2>1, CheckKeepsAgreement, RestKeepsAgreement
  <1>3. CASE Co!Others
    BY <1>3, SetKeepsAgreement, HoldKeepsAgreement, ReleaseKeepsAgreement,
       RestKeepsAgreement DEF Co!Others
  <1>4. CASE (\E s \in Session : Co!Expire(s)) \/ Co!CommReboot \/ UNCHANGED Co!commVars
    <2>1. UNCHANGED Co!standbyVars \/ Co!Reboot
      BY <1>4 DEF Co!Expire, Co!CommReboot, Co!commVars
    <2> QED  BY <2>1, RestKeepsAgreement
  <1> QED  BY <1>1, <1>2, <1>3, <1>4 DEF Co!CommNext

LEMMA StepKeepsLock ==
    ASSUME pc11 = "arm" => lock # "free", [Co!CommNext]_(Co!commVars)
    PROVE  (pc11 = "arm" => lock # "free")'
  <1>1. CASE Co!T11Step
    BY <1>1 DEF Co!T11Step, Co!Login, Co!Logout, Co!TeachStart, Co!CharStart,
                  Co!TeachAbort, Co!T11Goes,
                Co!LogoutCheck, Co!TeachHold, Co!TeachGo, Co!CharHold, Co!CharRun, Co!holdVars, Co!t11
  <1>2. CASE Co!T17Step
    BY <1>2 DEF Co!T17Step, Co!TickHold, Co!TeachEnds, Co!CharEnds, Co!holdVars, Co!t11
  <1>3. CASE Co!Others \/ Co!CommReboot \/ (\E s \in Session : Co!Expire(s)) \/ UNCHANGED Co!commVars
    BY <1>3 DEF Co!Others, Co!CommReboot, Co!Expire, Co!commVars, Co!holdVars, Co!t11
  <1> QED  BY <1>1, <1>2, <1>3 DEF Co!CommNext

(* A pause and the store agree, and the lock is T11's while it arms: the      *)
(* inductive invariant.                                                       *)
THEOREM HoldInductive == Spec => []HoldInv
  <1>1. Init => HoldInv
    BY DEF Init, Co!CommInit, Co!StandbyInit, HoldInv, Co!PauseAndStoreAgree,
           Co!OperatorsOwn, Co!Held
  <1>2. HoldInv /\ [Next]_vars => HoldInv'
    BY StepOfEach, StepKeepsAgreement, StepKeepsLock DEF HoldInv
  <1> QED  BY <1>1, <1>2, PTL DEF Spec

(* Unless the write that says so failed, NVS says there is a pause exactly    *)
(* when it is the operator's own: a restart neither keeps a session's pause   *)
(* nor loses the operator's (data_manager.cpp, dm_set_standby_ex(),           *)
(* dm_standby_hold(), dm_standby_release()).                                  *)
THEOREM PauseIsStored == Spec => []PauseAndStoreAgree
  <1>1. HoldInv => PauseAndStoreAgree
    BY DEF HoldInv, PauseAndStoreAgree
  <1> QED  BY <1>1, HoldInductive, PTL

(* No start, no end and no look at a session ends a pause the operator asked *)
(* for (commission.cpp, hold_take(), hold_check()).                          *)
LEMMA OperatorsPauseKept == Spec => Co!OperatorsPauseIsTheirs
  <1>1. ASSUME Co!T11Step \/ Co!T17Step, Co!OperatorsOwn
        PROVE  Co!OperatorsOwn'
    <2>1. on /\ holders = {}
      BY <1>1 DEF Co!OperatorsOwn, Co!Held
    <2>2. UNCHANGED Co!standbyVars \/ Co!Release("TEACH") \/ Co!Hold("TEACH")
      BY <1>1 DEF Co!T11Step, Co!Login, Co!Logout, Co!TeachStart, Co!CharStart,
                  Co!TeachAbort, Co!T11Goes, Co!LogoutCheck, Co!TeachHold, Co!TeachGo,
                  Co!CharHold, Co!CharRun, Co!HoldTake,
                  Co!T17Step, Co!TickHold, Co!TeachEnds, Co!CharEnds, Co!HoldCheck
    <2> QED  BY <2>1, <2>2 DEF Co!OperatorsOwn, Co!Held, Co!standbyVars, Co!Release, Co!Hold
  <1> QED  BY <1>1, PTL DEF Co!OperatorsPauseIsTheirs

(* Commissioning's hold stays while a teach or a run is starting or going    *)
(* on: neither T11's check at a logout nor T17's tick lets it go             *)
(* (commission.cpp, s_hold_mtx).                                             *)
LEMMA HoldKept == Spec => Co!HoldOutlivesTheRun
  <1> DEFINE Outlives ==
        Co!T11Step \/ Co!T17Step =>
            ("TEACH" \in holders /\ (Co!Running \/ (pc11 = "arm" /\ lock' # "late"))
                => "TEACH" \in holders')
  <1>1. ASSUME HoldInv, Co!T11Step \/ Co!T17Step, "TEACH" \in holders,
               Co!Running \/ (pc11 = "arm" /\ lock' # "late")
        PROVE  "TEACH" \in holders'
    <2>1. on
      BY <1>1 DEF HoldInv, Co!PauseAndStoreAgree, Co!Held
    <2>2. ASSUME Co!Hold("TEACH")
          PROVE  "TEACH" \in holders'
      BY <1>1, <2>1, <2>2 DEF Co!Hold, Co!Held
    <2>3. ASSUME Co!HoldCheck, Co!Running
          PROVE  "TEACH" \in holders'
      BY <1>1, <2>3 DEF Co!HoldCheck, Co!standbyVars
    <2>4. \/ UNCHANGED Co!standbyVars
          \/ Co!HoldCheck /\ (pc11 # "arm" \/ lock' = "late")
          \/ Co!Hold("TEACH")
      BY <1>1 DEF Co!T11Step, Co!Login, Co!Logout, Co!TeachStart, Co!CharStart,
                  Co!TeachAbort, Co!T11Goes, Co!LogoutCheck, Co!TeachHold, Co!TeachGo,
                  Co!CharHold, Co!CharRun, Co!HoldTake,
                  Co!T17Step, Co!TickHold, Co!TeachEnds, Co!CharEnds, HoldInv
    <2> QED  BY <1>1, <2>2, <2>3, <2>4 DEF Co!standbyVars
  <1>2. HoldInv => [Outlives]_(Co!commVars)
    BY <1>1
  <1>3. Spec => [][Outlives]_(Co!commVars)
    BY <1>2, HoldInductive, PTL
  <1> QED  BY <1>3 DEF Co!HoldOutlivesTheRun

(* No start, end or look at a session ends the pause the operator asked for,  *)
(* and commissioning never lets go of its hold under a teach or a run         *)
(* (commission.cpp, s_hold_mtx).                                              *)
THEOREM HoldsAreKept == Spec => HoldsKeepTheirPlace
  BY OperatorsPauseKept, HoldKept DEF HoldsKeepTheirPlace

-----------------------------------------------------------------------------
(* The types of the pause (Commission).                                       *)

LEMMA HoldTypes ==
    ASSUME Co!CommTypeOK, [Co!CommNext]_(Co!commVars)
    PROVE  Co!CommTypeOK'
  <1> USE DEF Co!CommTypeOK, Co!StandbyTypeOK
  <1>1. NoSession \notin Session /\ "TEACH" \in Holder
    BY PositionAssumption DEF Co!CommissionAssumption
  <1>2. ASSUME NEW who \in Holder, Co!Hold(who)
        PROVE  Co!StandbyTypeOK'
    BY <1>2 DEF Co!Hold, Co!Store
  <1>3. ASSUME NEW who \in Holder, Co!Release(who)
        PROVE  Co!StandbyTypeOK'
    BY <1>3 DEF Co!Release, Co!standbyVars
  <1>4. ASSUME Co!HoldCheck
        PROVE  Co!StandbyTypeOK' /\ owner' \in Session \cup {NoSession} /\ ended' \in BOOLEAN
    <2>1. CASE UNCHANGED <<Co!standbyVars, owner, ended>>
      BY <2>1 DEF Co!standbyVars
    <2>2. CASE Co!HoldForget /\ Co!Release("TEACH")
      BY <1>1, <1>3, <2>2 DEF Co!HoldForget
    <2> QED  BY <1>4, <2>1, <2>2 DEF Co!HoldCheck
  <1>5. ASSUME NEW s \in Session \cup {NoSession}, Co!HoldTake(s)
        PROVE  Co!StandbyTypeOK' /\ owner' \in Session \cup {NoSession} /\ ended' \in BOOLEAN
    BY <1>1, <1>2, <1>5 DEF Co!HoldTake
  <1>6. CASE Co!T11Step
    <2>1. ASSUME NEW s \in Session, Co!Login(s) \/ Co!TeachStart(s) \/ Co!CharStart(s)
          PROVE  Co!CommTypeOK'
      BY <2>1 DEF Co!Login, Co!TeachStart, Co!CharStart, Co!standbyVars, Co!holdVars, Co!t11
    <2>5. ASSUME NEW s \in Session, Co!Logout(s)
          PROVE  Co!CommTypeOK'
      <3>1. ended' \in BOOLEAN /\ live' \subseteq Session
        BY <2>5 DEF Co!Logout
      <3> QED  BY <2>5, <3>1 DEF Co!Logout, Co!standbyVars
    <2>6. CASE Co!TeachAbort
      BY <2>6 DEF Co!TeachAbort, Co!standbyVars, Co!holdVars, Co!t11
    <2>2. CASE Co!LogoutCheck
      BY <1>4, <2>2 DEF Co!LogoutCheck
    <2>3. CASE Co!TeachHold \/ Co!CharHold
      <3>1. Co!StandbyTypeOK' /\ owner' \in Session \cup {NoSession} /\ ended' \in BOOLEAN
        BY <1>5, <2>3 DEF Co!TeachHold, Co!CharHold
      <3> QED  BY <2>3, <3>1 DEF Co!TeachHold, Co!CharHold
    <2>4. CASE Co!TeachGo \/ Co!CharRun
      BY <2>4 DEF Co!TeachGo, Co!CharRun, Co!standbyVars, Co!holdVars
    <2> QED  BY <1>6, <2>1, <2>2, <2>3, <2>4, <2>5, <2>6 DEF Co!T11Step, Co!T11Goes
  <1>7. CASE Co!T17Step
    <2>1. CASE Co!TickHold
      BY <1>4, <2>1 DEF Co!TickHold, Co!t11
    <2>2. CASE Co!TeachEnds \/ Co!CharEnds
      BY <2>2 DEF Co!TeachEnds, Co!CharEnds, Co!standbyVars, Co!holdVars, Co!t11
    <2> QED  BY <1>7, <2>1, <2>2 DEF Co!T17Step
  <1>8. CASE Co!Others
    <2>1. Co!StandbyTypeOK'
      <3>1. ASSUME NEW want \in BOOLEAN, Co!SetStandby(want)
            PROVE  Co!StandbyTypeOK'
        BY <3>1 DEF Co!SetStandby, Co!Store
      <3>2. ASSUME Co!ReloadAfterReset
            PROVE  Co!StandbyTypeOK'
        BY <3>2 DEF Co!ReloadAfterReset
      <3> QED  BY <1>2, <1>3, <1>8, <3>1, <3>2 DEF Co!Others
    <2> QED  BY <1>8, <2>1 DEF Co!Others, Co!holdVars, Co!t11
  <1>9. CASE (\E s \in Session : Co!Expire(s)) \/ UNCHANGED Co!commVars
    BY <1>9 DEF Co!Expire, Co!commVars, Co!standbyVars, Co!holdVars, Co!t11
  <1>10. CASE Co!CommReboot
    BY <1>10 DEF Co!CommReboot, Co!Reboot
  <1> QED  BY <1>6, <1>7, <1>8, <1>9, <1>10 DEF Co!CommNext

-----------------------------------------------------------------------------
(* The gate on the sensor (PositionGate).                                     *)

(* What the gate's properties rest on: it is open only to a sensor that is    *)
(* fitted and has not failed too often, and T2 steers by the position only    *)
(* while it is; with the gate open a rest counts only from after it opened;   *)
(* and a drive confirmed by readings of the drive before has been overtaken   *)
(* by one that T17 has not looked at, which no timer may have ended.          *)
Drives == [drive : {"none", "open", "close", "gap"}, new : BOOLEAN, seen : BOOLEAN,
           state : {"open", "closed", "moving", "part"}]
Segments == [active : BOOLEAN, closing : BOOLEAN, judged : BOOLEAN,
             obs : {"unread", "all", "left", "seen", "off"}]

GateInv ==
    /\ Po!PosTypeOK
    /\ fitted \in BOOLEAN /\ gate \in BOOLEAN /\ rest \in BOOLEAN /\ rested \in BOOLEAN
    /\ t2 \in Drives /\ seg \in Segments
    /\ gate => fitted /\ fails < FailLimit
    /\ mode = "POSITION" => gate
    /\ gate /\ (rest \/ ~Po!Travelling) => rested
    /\ seg.active /\ Po!Confirmed /\ ~t2.seen =>
          t2.state \in {"moving", "part"} /\ (t2.new \/ t2.drive = "none")

(* What a verdict and a transaction may change.                               *)
LEMMA FinishSays ==
    ASSUME GateInv, NEW how, Po!Finish(how)
    PROVE  /\ notConfirmed' \in BOOLEAN /\ (how # "TIMER" => notConfirmed' = notConfirmed)
           /\ notConfirmed /\ ~notConfirmed' => seg.active /\ Po!Confirmed
  <1> QED  BY DEF Po!Finish, GateInv, Po!PosTypeOK

LEMMA FinishedDrive == ASSUME GateInv PROVE Po!Finished \in Segments /\ ~Po!Finished.active
  BY DEF Po!Finished, Po!NoDrive, GateInv, Segments

LEMMA JudgeDoes ==
    ASSUME GateInv, NEW answer, Po!Judge(answer)
    PROVE  /\ (gate' = gate /\ mode' = mode) \/ (gate' = FALSE /\ mode' = "TIMED")
           /\ fails' \in 0..FailLimit /\ (gate' => fails' < FailLimit)
           /\ answer \in {"fault", "comm"} =>
                 notConfirmed' = notConfirmed /\ (seg' = seg \/ seg' = Po!Finished)
  <1>1. FailLimit \in Nat \ {0} /\ fails \in 0..FailLimit /\ (gate => fails < FailLimit)
    BY PositionAssumption DEF Po!GateAssumption, GateInv, Po!PosTypeOK
  <1>2. ASSUME Po!GateClose
        PROVE  gate' = FALSE /\ mode' = "TIMED" /\ notConfirmed' = notConfirmed
    BY <1>2, FinishSays DEF Po!GateClose
  <1>3. CASE answer = "ok" /\ fails' = 0 /\ UNCHANGED <<gate, mode, latched>>
    BY <1>1, <1>3
  <1>4. CASE answer = "fault" /\ Po!GateClose /\ seg' = Po!Finished /\ UNCHANGED fails
    BY <1>1, <1>2, <1>4
  <1>5. CASE answer = "comm" /\ Po!Strike
    <2>1. fails' \in 0..FailLimit
      BY <1>1, <1>5 DEF Po!Strike
    <2>2. CASE fails' = FailLimit
      BY <1>2, <1>5, <2>1, <2>2 DEF Po!Strike
    <2>3. CASE fails' # FailLimit
      BY <1>1, <1>5, <2>1, <2>3 DEF Po!Strike
    <2> QED  BY <2>2, <2>3
  <1>6. CASE answer \in {"busy", "bench"} /\ UNCHANGED <<gate, mode, latched, fails>>
    BY <1>1, <1>6
  <1> QED  BY <1>3, <1>4, <1>5, <1>6 DEF Po!Judge

(* The mode is promoted only after a rest, and a drive found wanting is       *)
(* cleared only by a reading at its own end.                                  *)
Promoted == mode = "TIMED" /\ mode' = "POSITION" => gate /\ rested
Cleared  == notConfirmed /\ ~notConfirmed' /\ fitted' = fitted => t2.seen

LEMMA GateStep ==
    ASSUME GateInv, [Po!PosNext]_(Po!posVars)
    PROVE  GateInv' /\ Promoted /\ Cleared
  <1> USE DEF Promoted, Cleared
  <1>1. /\ FailLimit \in Nat \ {0} /\ Po!PosTypeOK
        /\ fitted \in BOOLEAN /\ gate \in BOOLEAN /\ rest \in BOOLEAN /\ rested \in BOOLEAN
        /\ t2 \in Drives /\ seg \in Segments
    BY PositionAssumption DEF Po!GateAssumption, GateInv
  <1>2. Po!Finished \in Segments /\ ~Po!Finished.active
    BY FinishedDrive
  <1>3. CASE Po!FollowFitted
    <2>1. /\ fitted' \in BOOLEAN /\ fitted' # fitted /\ gate' = FALSE /\ mode' = "TIMED"
          /\ seg' = Po!Finished /\ notConfirmed' = FALSE /\ fails' = 0
          /\ UNCHANGED <<pc, rest, rested, t2>>
      BY <1>1, <1>3 DEF Po!FollowFitted, Po!plantVars
    <2>2. Promoted /\ Cleared
      BY <2>1
    <2>3. ~gate' /\ ~seg'.active /\ notConfirmed' \in BOOLEAN /\ gate' \in BOOLEAN
      BY <1>2, <2>1
    <2>4. Po!PosTypeOK'
      BY <1>1, <2>1, <2>3 DEF Po!PosTypeOK
    <2> QED  BY <1>1, <1>2, <2>1, <2>2, <2>3, <2>4 DEF GateInv
  <1>4. CASE Po!NotFitted \/ Po!LeafMoves \/ Po!SensorChanges \/ UNCHANGED Po!posVars
    <2>1. /\ UNCHANGED <<fitted, gate, mode, fails, pc, seg, notConfirmed, t2, rested>>
          /\ rest' = rest \/ rest' = FALSE
      BY <1>4 DEF Po!NotFitted, Po!LeafMoves, Po!SensorChanges, Po!posVars, Po!gateVars,
                  Po!driveVars, Po!plantVars
    <2>2. rest' \in BOOLEAN /\ (rest' => rest)
      <3>1. CASE rest' = rest
        BY <1>1, <3>1
      <3>2. CASE rest' = FALSE
        BY <3>2
      <3> QED  BY <2>1, <3>1, <3>2
    <2>3. /\ (Po!Confirmed' <=> Po!Confirmed) /\ (Po!Travelling' <=> Po!Travelling)
          /\ Po!PosTypeOK'
      BY <1>1, <2>1 DEF Po!Confirmed, Po!Travelling, Po!PosTypeOK
    <2>4. Promoted /\ Cleared
      BY <2>1
    <2> QED  BY <1>1, <2>1, <2>2, <2>3, <2>4 DEF GateInv
  <1>5. CASE Po!Probe
    <2>1. /\ UNCHANGED <<fitted, mode, pc, seg, notConfirmed, t2>> /\ ~gate /\ rest' = FALSE
      BY <1>5 DEF Po!Probe, Po!plantVars
    <2>2. /\ fails' \in 0..FailLimit /\ (gate' => fails' < FailLimit)
          /\ \/ gate' = (device = "ok") /\ rested' = (device = "ok" /\ ~Po!Travelling)
             \/ gate' = gate /\ rested' = rested
      <3>1. CASE ~latched /\ device \in {"ok", "fault", "bench"}
        BY <1>1, <1>5, <3>1 DEF Po!Probe, Po!PosTypeOK
      <3>2. CASE ~latched /\ device = "comm"
        BY <1>1, <1>5, <3>2 DEF Po!Probe, Po!PosTypeOK
      <3>3. CASE latched \/ device \notin {"ok", "fault", "bench", "comm"}
        BY <1>1, <1>5, <3>3 DEF Po!Probe, Po!PosTypeOK
      <3> QED  BY <3>1, <3>2, <3>3
    <2>3. gate' \in BOOLEAN /\ rested' \in BOOLEAN
      BY <1>1, <2>2
    <2>4. Po!Travelling' <=> Po!Travelling
      BY <2>1 DEF Po!Travelling
    <2>5. gate' /\ ~Po!Travelling' => rested'
      BY <2>1, <2>2, <2>4
    <2>6. fitted /\ mode # "POSITION"
      BY <1>5, <2>1 DEF Po!Probe, GateInv
    <2> QED  BY <1>1, <2>1, <2>2, <2>3, <2>5, <2>6 DEF GateInv, Po!PosTypeOK, Po!Confirmed
  <1>6. CASE Po!PassRest
    <2>1. /\ rested /\ gate /\ fitted' = fitted /\ t2' = t2
          /\ rested' = rested /\ gate' = gate /\ rest' = TRUE
          /\ mode' = "POSITION" /\ fails' = fails /\ pc' \in {"top", "sample"}
      BY <1>6 DEF Po!PassRest, Po!plantVars, GateInv
    <2>2. CASE ~was
      BY <1>1, <1>6, <2>1, <2>2
         DEF Po!PassRest, GateInv, Po!PosTypeOK, Po!Confirmed
    <2>3. CASE was
      <3> DEFINE how == IF t2.state = Po!Target THEN "TIMER" ELSE "NOT_TARGET"
      <3>1. Po!Finish(how) /\ seg' = Po!Finished
        BY <1>6, <2>3 DEF Po!PassRest
      <3>2. notConfirmed /\ ~notConfirmed' => t2.seen
        <4>1. SUFFICES ASSUME notConfirmed, ~notConfirmed'
                       PROVE  t2.seen
          OBVIOUS
        <4>2. how = "TIMER" /\ seg.active /\ Po!Confirmed
          BY <3>1, <4>1, FinishSays
        <4>3. t2.state \in {"open", "closed"}
          BY <4>2 DEF Po!Target
        <4> QED  BY <4>2, <4>3 DEF GateInv
      <3>3. notConfirmed' \in BOOLEAN
        BY <3>1, FinishSays
      <3> QED  BY <1>1, <1>2, <2>1, <3>1, <3>2, <3>3 DEF GateInv, Po!PosTypeOK
    <2> QED  BY <2>2, <2>3
  <1>7. CASE Po!SampleRest
    <2>1. /\ (gate' = gate /\ mode' = mode) \/ (gate' = FALSE /\ mode' = "TIMED")
          /\ fails' \in 0..FailLimit /\ (gate' => fails' < FailLimit)
          /\ notConfirmed' = notConfirmed
          /\ seg' = seg \/ seg' = Po!Finished
          /\ UNCHANGED <<fitted, t2, rest, rested>> /\ pc' = "top"
      BY <1>7, JudgeDoes DEF Po!SampleRest, Po!plantVars
    <2>2. seg' \in Segments /\ (seg'.active => seg' = seg)
      BY <1>1, <1>2, <2>1
    <2>3. (gate' => gate) /\ (gate' => fitted') /\ (mode' = "POSITION" => gate')
      BY <1>1, <2>1 DEF GateInv, Po!PosTypeOK
    <2>4. gate' /\ (rest' \/ ~Po!Travelling') => rested'
      BY <2>1, <2>3 DEF GateInv, Po!Travelling
    <2>5. (gate' => fitted' /\ fails' < FailLimit) /\ (mode' = "POSITION" => gate')
      BY <1>1, <2>1 DEF GateInv
    <2> QED  BY <1>1, <2>1, <2>2, <2>4, <2>5 DEF GateInv, Po!PosTypeOK, Po!Confirmed
  <1>8. CASE Po!PassStroke
    <2>1. /\ gate /\ gate' = gate /\ fitted' = fitted /\ rest' = rest /\ rested' = rested /\ t2' = t2
          /\ fails' = fails /\ pc' = "drive" /\ Po!Travelling
      BY <1>8 DEF Po!PassStroke, Po!plantVars
    <2>2. CASE was
      BY <1>1, <1>8, <2>1, <2>2
         DEF Po!PassStroke, GateInv, Po!PosTypeOK, Po!Confirmed, Po!Travelling
    <2>3. CASE ~was
      <3>1. /\ Po!Finish("INTERRUPTED") /\ seg' = [Po!Finished EXCEPT !.judged = FALSE]
            /\ mode' = IF rest THEN "POSITION" ELSE mode
        BY <1>8, <2>3 DEF Po!PassStroke
      <3>2. notConfirmed' = notConfirmed
        BY <3>1, FinishSays
      <3>3. seg' \in Segments /\ ~seg'.active
        BY <1>2, <3>1 DEF Segments
      <3>4. rest => rested
        BY <2>1 DEF GateInv
      <3> QED  BY <1>1, <2>1, <3>1, <3>2, <3>3, <3>4
               DEF GateInv, Po!PosTypeOK, Po!Travelling
    <2> QED  BY <2>2, <2>3
  <1>9. CASE Po!ReadDrive
    <2>1. /\ UNCHANGED <<fitted, gate, mode, fails>> /\ pc' = "read"
          /\ rest' = rest /\ rested' = rested /\ t2' = [t2 EXCEPT !.new = FALSE]
      BY <1>9 DEF Po!ReadDrive, Po!gateVars
    <2>2. /\ t2' \in Drives /\ t2'.drive = t2.drive /\ t2'.state = t2.state
          /\ t2'.seen = t2.seen
      BY <1>1, <2>1 DEF Drives
    <2>3. CASE Po!NewDrive
      <3>1. /\ notConfirmed' = notConfirmed
            /\ seg' = [Po!NoDrive EXCEPT !.active = TRUE, !.judged = TRUE,
                                         !.closing = (t2.drive = "close")]
        BY <1>9, <2>3, FinishSays DEF Po!ReadDrive
      <3>2. seg' \in Segments /\ seg'.obs = "unread"
        BY <3>1 DEF Po!NoDrive, Segments
      <3> QED  BY <1>1, <2>1, <2>2, <3>1, <3>2
               DEF GateInv, Po!PosTypeOK, Po!Confirmed, Po!Travelling
    <2>4. CASE ~Po!NewDrive /\ t2.drive = "gap"
      <3>1. notConfirmed' = notConfirmed /\ seg' = Po!Finished
        BY <1>9, <2>4, FinishSays DEF Po!ReadDrive
      <3> QED  BY <1>1, <1>2, <2>1, <2>2, <3>1 DEF GateInv, Po!PosTypeOK, Po!Travelling
    <2>5. CASE ~Po!NewDrive /\ t2.drive # "gap"
      <3>1. notConfirmed' = notConfirmed /\ seg' = seg
        BY <1>9, <2>5 DEF Po!ReadDrive
      <3>2. t2.drive = "none" \/ ~t2.new
        BY <1>1, <2>5 DEF Po!NewDrive, Drives
      <3> QED  BY <1>1, <2>1, <2>2, <3>1, <3>2
               DEF GateInv, Po!PosTypeOK, Po!Confirmed, Po!Travelling
    <2> QED  BY <2>3, <2>4, <2>5
  <1>10. CASE Po!ReadStroke
    <2> DEFINE made == device = "ok" /\ at = Po!Target
    <2>1. /\ (gate' = gate /\ mode' = mode) \/ (gate' = FALSE /\ mode' = "TIMED")
          /\ fails' \in 0..FailLimit /\ (gate' => fails' < FailLimit)
          /\ notConfirmed' = notConfirmed /\ pc' = "top"
          /\ UNCHANGED <<fitted, rest, rested>>
          /\ seg' = seg \/ seg' = Po!Finished \/ (device = "ok" /\ seg' = Po!Observed)
      BY <1>10, JudgeDoes DEF Po!ReadStroke
    <2>2. t2' = [t2 EXCEPT !.seen = t2.seen \/ made]
      BY <1>10 DEF Po!ReadStroke
    <2>3. /\ t2' \in Drives /\ t2'.drive = t2.drive /\ t2'.state = t2.state
          /\ t2'.new = t2.new /\ (t2'.seen <=> t2.seen \/ made)
      BY <1>1, <2>2 DEF Drives
    <2>4. ASSUME device = "ok", seg' = Po!Observed
          PROVE  /\ seg' \in Segments /\ seg'.active = seg.active
                 /\ Po!Confirmed' => Po!Confirmed \/ made
      <3>1. CASE ~(seg.judged /\ seg.active)
        BY <1>1, <2>4, <3>1 DEF Po!Observed, Po!Confirmed
      <3>2. CASE seg.judged /\ seg.active
        <4>1. PICK o : /\ seg' = [seg EXCEPT !.obs = o]
                       /\ o \in {"unread", "all", "left", "seen", "off"}
                       /\ o \in {"all", "seen"} => seg.obs \in {"all", "seen"} \/ at = Po!Target
          BY <1>1, <2>4, <3>2 DEF Po!Observed, Segments
        <4> QED  BY <1>1, <2>4, <4>1 DEF Segments, Po!Confirmed
      <3> QED  BY <3>1, <3>2
    <2>5. /\ seg' \in Segments
          /\ seg'.active /\ Po!Confirmed' => (seg.active /\ Po!Confirmed) \/ made
      <3>1. CASE seg' = seg
        BY <1>1, <3>1 DEF Po!Confirmed
      <3>2. CASE seg' = Po!Finished
        BY <1>2, <3>2
      <3>3. CASE device = "ok" /\ seg' = Po!Observed
        BY <2>4, <3>3
      <3> QED  BY <2>1, <3>1, <3>2, <3>3
    <2>6. gate' \in BOOLEAN /\ (gate' => gate)
      <3>1. CASE gate' = gate
        BY <1>1, <3>1
      <3>2. CASE gate' = FALSE
        BY <3>2
      <3> QED  BY <2>1, <3>1, <3>2
    <2>7. /\ gate' /\ (rest' \/ ~Po!Travelling') => rested'
          /\ (gate' => fitted') /\ (mode' = "POSITION" => gate')
      BY <2>1, <2>3, <2>6 DEF GateInv, Po!Travelling
    <2>8. ASSUME seg'.active, Po!Confirmed', ~t2'.seen
          PROVE  t2'.state \in {"moving", "part"} /\ (t2'.new \/ t2'.drive = "none")
      BY <2>3, <2>5, <2>8 DEF GateInv
    <2> QED  BY <1>1, <2>1, <2>3, <2>5, <2>6, <2>7, <2>8 DEF GateInv, Po!PosTypeOK
  <1>11. CASE Po!StartDrive
    <2>1. /\ t2' \in Drives /\ t2'.state = "moving" /\ t2'.new /\ t2'.drive # "none"
      BY <1>11 DEF Po!StartDrive, Drives
    <2>2. UNCHANGED <<fitted, gate, mode, fails, pc, rest, seg, notConfirmed, rested>>
      BY <1>11 DEF Po!StartDrive, Po!gateVars, Po!driveVars
    <2> QED  BY <1>1, <2>1, <2>2 DEF GateInv, Po!PosTypeOK, Po!Travelling
  <1>12. CASE Po!EndDrive
    <2>1. UNCHANGED <<fitted, gate, mode, fails, pc, rest, seg, notConfirmed>>
      BY <1>12 DEF Po!EndDrive, Po!gateVars, Po!driveVars
    <2>2. /\ t2' \in Drives /\ t2'.seen = t2.seen
      BY <1>1, <1>12 DEF Po!EndDrive, Drives
    <2>4. \/ rested' = (rested \/ gate)
          \/ t2' = [t2 EXCEPT !.drive = "gap"] /\ rested' = rested
      BY <1>12 DEF Po!EndDrive
    <2>5. /\ rested' \in BOOLEAN /\ (rested => rested')
          /\ (gate /\ ~Po!Travelling') => rested'
      BY <1>1, <2>4 DEF Drives, Po!Travelling
    <2>3. ASSUME seg.active, Po!Confirmed, ~t2.seen
          PROVE  t2'.state \in {"moving", "part"} /\ (t2'.new \/ t2'.drive = "none")
      <3>1. t2.state \in {"moving", "part"} /\ t2.new
        BY <1>12, <2>3 DEF GateInv, Po!EndDrive, Po!Travelling
      <3> QED  BY <1>1, <1>12, <2>3, <3>1 DEF Po!EndDrive, Drives
    <2> QED  BY <1>1, <2>1, <2>2, <2>3, <2>5 DEF GateInv, Po!PosTypeOK, Po!Confirmed
  <1> QED  BY <1>3, <1>4, <1>5, <1>6, <1>7, <1>8, <1>9, <1>10, <1>11, <1>12
           DEF Po!PosNext, Po!Pass

-----------------------------------------------------------------------------
(* The teach (Teach).                                                         *)

Legs == [phase : {"none", "starting", "running", "stopping"},
         legs : 0..3, noop : 0..1, ends : 0..2,
         seen : BOOLEAN, prev : BOOLEAN, left : BOOLEAN, made : BOOLEAN]
Sensors == [armed : BOOLEAN, caps : SUBSET {"closed", "open"}]
Readings == [ok : BOOLEAN, armed : BOOLEAN, atEnd : BOOLEAN]
States == {"IDLE", "ARMING", "TRAVERSING", "COMMITTING", "DONE", "FAILED"}
Untouched(l) == l.phase = "none" /\ l.legs = 0 /\ l.ends = 0
Starts == pcT11 \in {"arm", "go"}
Older == saw \in {"TRAVERSING", "COMMITTING"}

(* T17 has copied a state exactly while it acts on it or is about to send a   *)
(* leg.  No tick of a teach that is over has that, once a leg of it has been  *)
(* sent.  A teach that starts has had no leg, but for the one that a tick of  *)
(* the teach before it still sends: no tick of its own then drives a fourth.  *)
TeachInv ==
    /\ Te!TeachTypeOK
    /\ leg \in Legs /\ read \in Readings /\ dev \in Sensors /\ stray \in BOOLEAN
    /\ saw # "IDLE" <=> pcT17 \in {"act", "MOVING_OPEN", "MOVING_CLOSE"}
    /\ stray => ~Te!Active(st) /\ saw = "IDLE"
    /\ pcT17 \in Te!Ways => leg.legs < 3
    /\ saw = "ARMING" \/ st = "ARMING" \/ Starts => leg.legs <= 1
    /\ st = "ARMING" /\ Older => Untouched(leg)
    /\ Starts => ~Te!Active(st) /\ (saw # "IDLE" => Untouched(leg))

LEMMA TeachTypes ==
    ASSUME TeachInv
    PROVE  /\ st \in States /\ starting \in BOOLEAN /\ late \in BOOLEAN
           /\ saw \in {"IDLE", "ARMING", "TRAVERSING", "COMMITTING"}
           /\ pcT11 \in {"idle", "arm", "go", "disarm"}
           /\ pcT17 \in {"idle", "read", "disarm", "orphan", "act"} \cup Te!Ways
           /\ leg.legs \in 0..3 /\ leg.noop \in 0..1 /\ leg.ends \in 0..2
  BY DEF TeachInv, Te!TeachTypeOK, Te!MaxLegs, States

(* The type invariant, from what an action leaves of its parts.               *)
LEMMA TypesMake ==
    ASSUME leg' \in Legs, dev' \in Sensors, st' \in States,
           starting' \in BOOLEAN, late' \in BOOLEAN,
           saw' \in {"IDLE", "ARMING", "TRAVERSING", "COMMITTING"},
           pcT11' \in {"idle", "arm", "go", "disarm"},
           pcT17' \in {"idle", "read", "disarm", "orphan", "act"} \cup Te!Ways
    PROVE  Te!TeachTypeOK'
  <1>1. /\ leg'.phase \in {"none", "starting", "running", "stopping"}
        /\ leg'.legs \in 0..3 /\ leg'.noop \in 0..1 /\ leg'.ends \in 0..2
    BY DEF Legs
  <1>2. dev'.caps \subseteq {"closed", "open"}
    BY DEF Sensors
  <1> QED  BY <1>1, <1>2 DEF Te!TeachTypeOK, Te!MaxLegs, Te!LeafEnds, States, Te!Ways

LEMMA FreshLegs == Te!FreshLeg \in Legs /\ Untouched(Te!FreshLeg)
  BY DEF Te!FreshLeg, Legs, Untouched

LEMMA DisarmTypes == ASSUME TeachInv, Te!Disarm PROVE dev' \in Sensors
  <1>1. Te!Disarmed \in Sensors
    BY DEF Te!Disarmed, Sensors
  <1> QED  BY <1>1 DEF Te!Disarm, TeachInv

(* What a tick that is over may have disturbed: it leaves no copied state.    *)
OverKeeps ==
    /\ Te!TickOver
    /\ leg' \in Legs /\ dev' \in Sensors /\ st' \in States
    /\ starting' \in BOOLEAN /\ late' \in BOOLEAN /\ stray' \in BOOLEAN
    /\ st' = "ARMING" \/ Starts => leg'.legs <= 1
    /\ Starts => ~Te!Active(st')
    /\ stray' => ~Te!Active(st')

LEMMA TickIsOver ==
    ASSUME TeachInv, UNCHANGED pcT11, OverKeeps
    PROVE  TeachInv'
  <1>1. pcT17' = "idle" /\ saw' = "IDLE" /\ read' = Te!NoReading
    BY DEF OverKeeps, Te!TickOver
  <1>2. Te!TeachTypeOK'
    BY <1>1, TeachTypes, TypesMake DEF OverKeeps
  <1>3. read' \in Readings
    BY <1>1 DEF Te!NoReading, Readings
  <1> QED  BY <1>1, <1>2, <1>3
           DEF OverKeeps, TeachInv, Starts, Older, Te!Ways, Te!Active

LEMMA FailKeeps ==
    ASSUME TeachInv, Te!TeachFail, Te!TickOver, UNCHANGED stray
    PROVE  OverKeeps
  <1>1. /\ st' = "FAILED" /\ late' = FALSE /\ leg' = Te!FreshLeg /\ dev' \in Sensors
        /\ UNCHANGED starting
    BY DisarmTypes DEF Te!TeachFail
  <1>2. leg' \in Legs /\ leg'.legs = 0
    BY <1>1, FreshLegs DEF Untouched
  <1>3. ~Te!Active(st') /\ st' \in States /\ st' # "ARMING"
    BY <1>1 DEF Te!Active, States
  <1>4. starting' \in BOOLEAN /\ late' \in BOOLEAN /\ stray' \in BOOLEAN
    BY <1>1, TeachTypes DEF TeachInv
  <1> QED  BY <1>1, <1>2, <1>3, <1>4 DEF OverKeeps

(* The leg as the reading leaves it.                                          *)
LEMMA SeenTypes ==
    ASSUME TeachInv
    PROVE  /\ Te!Seen \in Legs /\ Te!Seen.phase = leg.phase /\ Te!Seen.legs = leg.legs
           /\ Te!Seen.noop = leg.noop /\ (leg.phase = "none" => Te!Seen.ends = leg.ends)
  <1>1. leg \in Legs /\ read \in [ok : BOOLEAN, armed : BOOLEAN, atEnd : BOOLEAN]
    BY DEF TeachInv, Readings
  <1>2. Te!Made \in BOOLEAN /\ (leg.phase = "none" => ~Te!Made)
    BY <1>1 DEF Te!Made, Legs
  <1> DEFINE e == IF Te!Made /\ leg.ends < 2 THEN leg.ends + 1 ELSE leg.ends
             f == leg.left \/ (leg.phase # "none" /\ ~read.atEnd)
             m == leg.made \/ Te!Made
             n == leg.seen \/ read.armed
  <1>3. e \in 0..2 /\ (leg.phase = "none" => e = leg.ends)
    BY <1>1, <1>2 DEF Legs
  <1>4. f \in BOOLEAN /\ m \in BOOLEAN /\ n \in BOOLEAN /\ read.atEnd \in BOOLEAN
    BY <1>1, <1>2 DEF Legs
  <1>5. Te!Seen = [leg EXCEPT !.left = f, !.made = m, !.ends = e, !.prev = read.atEnd,
                              !.seen = n]
    BY DEF Te!Seen
  <1> HIDE DEF e, f, m, n
  <1> QED  BY <1>1, <1>3, <1>4, <1>5 DEF Legs

(* A leg that was not spoilt, as it was judged.                               *)
LEMMA JudgedTypes ==
    ASSUME TeachInv, ~Te!Spoilt
    PROVE  /\ Te!Judged \in Legs /\ Te!Judged.legs = leg.legs
           /\ (Te!Seen.ends < 2 => leg.legs < 3)
  <1>1. Te!Seen \in Legs /\ Te!Seen.legs = leg.legs
    BY SeenTypes
  <1>2. Te!Noop \in 0..1
    BY <1>1 DEF Te!Noop, Te!Spoilt, Legs
  <1>3. Te!Judged = [Te!Seen EXCEPT !.phase = "none", !.noop = Te!Noop]
    BY DEF Te!Judged
  <1>4. Te!Judged \in Legs /\ Te!Judged.legs = leg.legs
    BY <1>1, <1>2, <1>3 DEF Legs
  <1>5. Te!Seen.ends < 2 => leg.legs < 3
    BY <1>1, TeachTypes DEF Te!Spoilt, Te!MaxLegs
  <1> QED  BY <1>4, <1>5

(* What a tick publishes is the state as it is, or a teach that commits, and  *)
(* that only of a leg under way.                                              *)
LEMMA PublishIs ==
    ASSUME TeachInv
    PROVE  /\ Te!Publish = st \/ (Te!Publish = "COMMITTING" /\ Te!Seen.ends = 2)
           /\ Te!Now = "ARMING" <=> saw = "ARMING"
           /\ Te!Publish \in States
  BY TeachTypes DEF Te!Publish, Te!Now, States

(* It publishes none to a start under way.                                    *)
LEMMA PublishKeeps ==
    ASSUME TeachInv, pcT17 = "act", UNCHANGED stray, Te!TickOver, st' = Te!Publish,
           leg' \in Legs, leg'.legs = leg.legs, late' \in BOOLEAN,
           UNCHANGED <<starting, dev>>
    PROVE  OverKeeps
  <1>1. saw # "IDLE" /\ ~stray
    BY DEF TeachInv
  <1>2. Starts => st' = st
    <2>1. SUFFICES ASSUME Starts
                   PROVE  Te!Publish = st
      OBVIOUS
    <2>2. leg.phase = "none" /\ leg.ends = 0
      BY <1>1, <2>1 DEF TeachInv, Untouched
    <2>3. Te!Seen.ends = 0
      BY <2>2, SeenTypes
    <2> QED  BY <2>3, PublishIs
  <1>3. st' = "ARMING" => st = "ARMING"
    BY PublishIs
  <1> QED  BY <1>1, <1>2, <1>3, PublishIs, TeachTypes DEF OverKeeps, TeachInv, Starts

LEMMA GoKeeps ==
    ASSUME TeachInv, pcT17 = "act", UNCHANGED stray,
           NEW ph \in {"none", "starting", "running", "stopping"},
           NEW isLate \in BOOLEAN, Te!Go(ph, isLate)
    PROVE  OverKeeps
  <1> DEFINE l == Te!Seen
  <1>1. l \in Legs /\ l.legs = leg.legs
    BY SeenTypes
  <1>2. /\ leg' = [l EXCEPT !.phase = ph] /\ st' = Te!Publish /\ late' = isLate
        /\ UNCHANGED <<starting, dev, cmd>> /\ Te!TickOver
    BY DEF Te!Go
  <1> HIDE DEF l
  <1>3. leg' \in Legs /\ leg'.legs = leg.legs
    BY <1>1, <1>2 DEF Legs
  <1> QED  BY <1>2, <1>3, PublishKeeps

(* A leg is decided on while the teach runs, or the tick is over.             *)
LEMMA StartLegKeeps ==
    ASSUME TeachInv, pcT17 = "act", UNCHANGED <<pcT11, stray>>,
           NEW l \in Legs, l.legs < 3, l.legs = leg.legs, Te!StartLeg(l),
           st = "ARMING" => saw = "ARMING"
    PROVE  TeachInv'
  <1>1. saw # "IDLE" /\ ~stray
    BY DEF TeachInv
  <1>2. CASE Te!TickFail
    BY <1>2, FailKeeps, TickIsOver DEF Te!TickFail
  <1>3. CASE /\ ~Te!Active(st) /\ leg' = [l EXCEPT !.phase = "none"] /\ Te!TickOver
             /\ UNCHANGED <<starting, st, late, dev, cmd>>
    <2>1. leg' \in Legs /\ leg'.legs = leg.legs
      BY <1>3 DEF Legs
    <2>2. OverKeeps
      BY <1>1, <1>3, <2>1, TeachTypes DEF OverKeeps, TeachInv, Te!Active
    <2> QED  BY <2>2, TickIsOver
  <1>4. CASE /\ Te!Active(st) /\ leg' = l /\ pcT17' = Te!Away
             /\ UNCHANGED <<saw, read, starting, st, late, dev, cmd>>
    <2>1. pcT17' \in Te!Ways
      BY <1>4 DEF Te!Away, Te!Ways
    <2>2. ~Starts
      BY <1>4 DEF TeachInv
    <2>3. Te!TeachTypeOK'
      <3>1. /\ leg' \in Legs /\ dev' \in Sensors /\ st' \in States
            /\ starting' \in BOOLEAN /\ late' \in BOOLEAN
            /\ saw' \in {"IDLE", "ARMING", "TRAVERSING", "COMMITTING"}
            /\ pcT11' \in {"idle", "arm", "go", "disarm"}
        BY <1>4, TeachTypes DEF TeachInv
      <3> QED  BY <2>1, <3>1, TypesMake
    <2>4. ~(st = "ARMING" /\ Older)
      BY DEF Older
    <2> QED  BY <1>1, <1>4, <2>1, <2>2, <2>3, <2>4
             DEF TeachInv, Starts, Older, Te!Ways
  <1> QED  BY <1>2, <1>3, <1>4 DEF Te!StartLeg

LEMMA FinishLegKeeps ==
    ASSUME TeachInv, pcT17 = "act", UNCHANGED <<pcT11, stray>>, leg.phase = "stopping",
           saw # "ARMING", Te!FinishLeg
    PROVE  TeachInv'
  <1>1. st # "ARMING"
    BY TeachTypes DEF TeachInv, Older, Untouched
  <1>2. CASE Te!TickFail
    BY <1>2, FailKeeps, TickIsOver DEF Te!TickFail
  <1>3. CASE ~Te!Spoilt /\ Te!Seen.ends < 2 /\ Te!StartLeg(Te!Judged)
    BY <1>1, <1>3, JudgedTypes, StartLegKeeps
  <1>4. CASE /\ ~Te!Spoilt /\ leg' = Te!Judged /\ st' = Te!Publish /\ late' = FALSE
             /\ Te!TickOver /\ UNCHANGED <<starting, dev, cmd>>
    <2>1. leg' \in Legs /\ leg'.legs = leg.legs
      BY <1>4, JudgedTypes
    <2> QED  BY <1>4, <2>1, PublishKeeps, TickIsOver
  <1> QED  BY <1>2, <1>3, <1>4 DEF Te!FinishLeg

(* A tick on the state it copied, whatever T11 has done since.                *)
LEMMA ActKeeps ==
    ASSUME TeachInv, Te!TickAct
    PROVE  TeachInv'
  <1>1. /\ pcT17 = "act" /\ UNCHANGED <<pcT11, stray>> /\ late \in BOOLEAN
        /\ saw # "IDLE" /\ ~stray
    BY TeachTypes DEF Te!TickAct, TeachInv
  <1>2. ASSUME Te!TickFail
        PROVE  TeachInv'
    BY <1>1, <1>2, FailKeeps, TickIsOver DEF Te!TickFail
  <1>3. ASSUME NEW ph \in {"none", "starting", "running", "stopping"},
               NEW isLate \in BOOLEAN, Te!Go(ph, isLate)
        PROVE  TeachInv'
    BY <1>1, <1>3, GoKeeps, TickIsOver
  <1>4. ASSUME Te!TickDropped
        PROVE  TeachInv'
    <2>1. CASE /\ st' = "DONE" /\ leg' = Te!FreshLeg /\ late' = TRUE /\ Te!TickOver
               /\ UNCHANGED <<starting, dev, cmd>>
      <3>1. OverKeeps
        BY <1>1, <2>1, FreshLegs, TeachTypes
           DEF OverKeeps, TeachInv, Te!Active, States, Untouched
      <3> QED  BY <1>1, <3>1, TickIsOver
    <2> QED  BY <1>2, <1>4, <2>1 DEF Te!TickDropped
  <1>5. ASSUME Te!TickArming
        PROVE  TeachInv'
    <2>1. saw = "ARMING"
      BY <1>5, PublishIs DEF Te!TickArming
    <2>2. ASSUME Te!StartLeg(Te!Seen)
          PROVE  TeachInv'
      <3>1. /\ Te!Seen \in Legs /\ Te!Seen.legs = leg.legs
        BY SeenTypes
      <3>2. leg.legs < 3
        BY <2>1, TeachTypes DEF TeachInv
      <3> QED  BY <1>1, <2>1, <2>2, <3>1, <3>2, StartLegKeeps
    <2>3. ASSUME Te!Go(leg.phase, late)
          PROVE  TeachInv'
      <3>1. leg.phase \in {"none", "starting", "running", "stopping"}
        BY DEF TeachInv, Legs
      <3> QED  BY <1>1, <1>3, <2>3, <3>1
    <2> QED  BY <1>2, <1>5, <2>2, <2>3 DEF Te!TickArming
  <1>6. ASSUME Te!TickLeg
        PROVE  TeachInv'
    <2>1. saw # "ARMING"
      BY <1>6, PublishIs DEF Te!TickLeg
    <2>2. \/ \E ph \in {"none", "starting", "running", "stopping"},
                isLate \in {FALSE, late} : Te!Go(ph, isLate)
          \/ leg.phase = "stopping" /\ Te!FinishLeg
          \/ Te!TickFail
      BY <1>6 DEF Te!TickLeg
    <2> QED  BY <1>1, <1>2, <1>3, <2>1, <2>2, FinishLegKeeps
  <1> QED  BY <1>2, <1>4, <1>5, <1>6 DEF Te!TickAct

(* The send: of a teach that is over it is the last, and to one that starts   *)
(* meanwhile the first.                                                       *)
LEMMA SendKeeps ==
    ASSUME TeachInv, Te!SendLeg
    PROVE  TeachInv' /\ ~stray
  <1>1. /\ pcT17 \in Te!Ways /\ UNCHANGED pcT11 /\ Te!TickOver
        /\ saw # "IDLE" /\ ~stray /\ leg.legs < 3
    BY DEF Te!SendLeg, TeachInv, Te!Ways
  <1>2. CASE Te!TeachFail /\ UNCHANGED stray
    BY <1>1, <1>2, FailKeeps, TickIsOver
  <1>3. CASE /\ late' = FALSE
             /\ leg' = [leg EXCEPT !.phase = "starting", !.legs = @ + 1,
                                   !.made = FALSE, !.left = ~leg.prev]
             /\ st' = IF saw = "ARMING" /\ st = "ARMING" THEN "TRAVERSING" ELSE st
             /\ stray' = ~Te!Active(st)
             /\ UNCHANGED <<starting, dev>>
    <2>1. leg' \in Legs /\ leg'.legs = leg.legs + 1
      <3> DEFINE b == ~leg.prev
                 n == leg.legs + 1
      <3>1. b \in BOOLEAN /\ n \in 0..3 /\ leg \in Legs
        BY <1>1, TeachTypes DEF TeachInv
      <3>2. leg' = [leg EXCEPT !.phase = "starting", !.legs = n, !.made = FALSE, !.left = b]
        BY <1>3
      <3> HIDE DEF b, n
      <3>3. leg' \in Legs /\ leg'.legs = n
        BY <3>1, <3>2 DEF Legs
      <3> QED  BY <3>3 DEF n
    <2>2. st' = "ARMING" => leg.legs = 0
      BY <1>1, <1>3, TeachTypes DEF TeachInv, Older, Untouched
    <2>3. Starts => ~Te!Active(st) /\ leg.legs = 0
      BY <1>1 DEF TeachInv, Untouched
    <2>4. (Te!Active(st') => Te!Active(st)) /\ st' \in States
      BY <1>3, TeachTypes DEF Te!Active, States
    <2>5. stray' \in BOOLEAN /\ (stray' => ~Te!Active(st'))
      BY <1>3, <2>4 DEF Te!Active
    <2>6. OverKeeps
      <3>1. dev' \in Sensors /\ starting' \in BOOLEAN /\ late' \in BOOLEAN
        BY <1>3, TeachTypes DEF TeachInv
      <3>2. leg.legs = 0 => leg'.legs <= 1
        BY <2>1
      <3> QED  BY <1>1, <2>1, <2>2, <2>3, <2>4, <2>5, <3>1, <3>2 DEF OverKeeps
    <2> QED  BY <1>1, <2>6, TickIsOver
  <1> QED  BY <1>1, <1>2, <1>3 DEF Te!SendLeg

(* What moves no leg and leaves the teach as it is.                           *)
LEMMA RunStands ==
    ASSUME TeachInv, UNCHANGED <<st, starting, leg, stray>>, late' \in BOOLEAN,
           dev' \in Sensors, read' \in Readings,
           saw' = saw \/ saw' = "IDLE" \/ (saw' = st /\ Te!Active(st)),
           saw' # "IDLE" <=> pcT17' \in {"act", "MOVING_OPEN", "MOVING_CLOSE"},
           pcT17' \in {"idle", "read", "disarm", "orphan", "act"} \cup Te!Ways,
           pcT17' \in Te!Ways => pcT17 \in Te!Ways,
           pcT11' \in {"idle", "arm", "go", "disarm"}, Starts' => Starts
    PROVE  TeachInv'
  <1>1. saw' \in {"IDLE", "ARMING", "TRAVERSING", "COMMITTING"}
    BY TeachTypes DEF Te!Active
  <1>2. Te!TeachTypeOK'
    <2>1. leg' \in Legs /\ st' \in States /\ starting' \in BOOLEAN
      BY TeachTypes DEF TeachInv
    <2> QED  BY <1>1, <2>1, TypesMake
  <1>3. stray' => ~Te!Active(st') /\ saw' = "IDLE"
    BY DEF TeachInv
  <1>4. pcT17' \in Te!Ways => leg'.legs < 3
    BY DEF TeachInv
  <1>5. saw' = "ARMING" \/ st' = "ARMING" \/ Starts' => leg'.legs <= 1
    BY DEF TeachInv
  <1>6. st' = "ARMING" /\ Older' => Untouched(leg')
    BY DEF TeachInv, Older
  <1>7. Starts' => ~Te!Active(st') /\ (saw' # "IDLE" => Untouched(leg'))
    BY DEF TeachInv
  <1> QED  BY <1>2, <1>3, <1>4, <1>5, <1>6, <1>7 DEF TeachInv, Te!Active, Untouched

(* What leaves T17 where it is.                                               *)
LEMMA PlantStands ==
    ASSUME TeachInv, UNCHANGED <<st, starting, leg, stray, pcT17, read, saw>>,
           late' \in BOOLEAN, dev' \in Sensors,
           pcT11' \in {"idle", "arm", "go", "disarm"}, Starts' => Starts
    PROVE  TeachInv'
  <1>1. /\ read' \in Readings /\ pcT17' \in {"idle", "read", "disarm", "orphan", "act"} \cup Te!Ways
        /\ saw' # "IDLE" <=> pcT17' \in {"act", "MOVING_OPEN", "MOVING_CLOSE"}
    BY TeachTypes DEF TeachInv
  <1> QED  BY <1>1, RunStands

(* A start or the end of a teach, which leaves nothing of its legs, or only   *)
(* what the one before sends.                                                 *)
LEMMA TeachFits ==
    ASSUME TeachInv, UNCHANGED <<pcT17, read, saw>>,
           leg' \in Legs, dev' \in Sensors, late' \in BOOLEAN, starting' \in BOOLEAN,
           stray' \in BOOLEAN, st' \in States,
           pcT11' \in {"idle", "arm", "go", "disarm"},
           stray' => ~Te!Active(st') /\ saw = "IDLE",
           leg'.legs <= 1, saw # "IDLE" => Untouched(leg'),
           Starts' => ~Te!Active(st')
    PROVE  TeachInv'
  <1>1. Te!TeachTypeOK'
    BY TeachTypes, TypesMake
  <1>2. leg'.legs < 3
    BY DEF Legs
  <1>3. read' \in Readings
    BY DEF TeachInv
  <1>4. saw' # "IDLE" <=> pcT17' \in {"act", "MOVING_OPEN", "MOVING_CLOSE"}
    BY DEF TeachInv
  <1>5. Older' => saw # "IDLE"
    BY DEF Older
  <1> QED  BY <1>1, <1>2, <1>3, <1>4, <1>5 DEF TeachInv, Te!Active, Untouched

(* Only T17 sends a leg, of a teach whose last leg was not sent after its     *)
(* end, and it decides on one only while the teach runs.                      *)
Told ==
    /\ pcT17 \notin Te!Ways /\ pcT17' \in Te!Ways => Te!Active(st)
    /\ cmd = "none" /\ cmd' # cmd => pcT17 \in Te!Ways /\ ~stray

LEMMA StartLegTells ==
    ASSUME NEW l, Te!StartLeg(l)
    PROVE  UNCHANGED cmd /\ (pcT17' \in Te!Ways => Te!Active(st))
  BY DEF Te!StartLeg, Te!TickFail, Te!TeachFail, Te!TickOver, Te!Ways

LEMMA ActTells ==
    ASSUME Te!TickAct
    PROVE  UNCHANGED cmd /\ (pcT17' \in Te!Ways => Te!Active(st))
  <1>1. ASSUME Te!TickFail
        PROVE  UNCHANGED cmd /\ pcT17' \notin Te!Ways
    BY <1>1 DEF Te!TickFail, Te!TeachFail, Te!TickOver, Te!Ways
  <1>2. ASSUME NEW ph, NEW isLate, Te!Go(ph, isLate)
        PROVE  UNCHANGED cmd /\ pcT17' \notin Te!Ways
    BY <1>2 DEF Te!Go, Te!TickOver, Te!Ways
  <1>3. ASSUME Te!TickDropped
        PROVE  UNCHANGED cmd /\ pcT17' \notin Te!Ways
    BY <1>1, <1>3 DEF Te!TickDropped, Te!TickOver, Te!Ways
  <1>4. ASSUME Te!TickArming
        PROVE  UNCHANGED cmd /\ (pcT17' \in Te!Ways => Te!Active(st))
    BY <1>1, <1>2, <1>4, StartLegTells DEF Te!TickArming
  <1>5. ASSUME Te!FinishLeg
        PROVE  UNCHANGED cmd /\ (pcT17' \in Te!Ways => Te!Active(st))
    BY <1>1, <1>5, StartLegTells DEF Te!FinishLeg, Te!TickOver, Te!Ways
  <1>6. ASSUME Te!TickLeg
        PROVE  UNCHANGED cmd /\ (pcT17' \in Te!Ways => Te!Active(st))
    BY <1>1, <1>2, <1>5, <1>6 DEF Te!TickLeg
  <1> QED  BY <1>1, <1>3, <1>4, <1>6 DEF Te!TickAct

LEMMA TeachTells ==
    ASSUME TeachInv, [Te!TeachNext]_(Te!teachVars)
    PROVE  Told
  <1>1. ASSUME UNCHANGED cmd, pcT17' \notin Te!Ways
        PROVE  Told
    BY <1>1 DEF Told
  <1>2. ASSUME UNCHANGED <<cmd, pcT17>>
        PROVE  Told
    BY <1>2 DEF Told
  <1>3. ASSUME Te!TickAct PROVE Told
    BY <1>3, ActTells DEF Told
  <1>4. ASSUME Te!SendLeg PROVE Told
    <2>1. pcT17 \in Te!Ways
      BY <1>4 DEF Te!SendLeg
    <2> QED  BY <1>4, <2>1, SendKeeps DEF Told
  <1>5. ASSUME Te!TickRead \/ Te!CheckOrphan \/ Te!DisarmOrphan \/ Te!TickCopy
        PROVE  Told
    BY <1>1, <1>5 DEF Te!TickRead, Te!CheckOrphan, Te!DisarmOrphan, Te!TickCopy, Te!TickOver,
                      Te!plant, Te!Ways
  <1>6. ASSUME Te!TeachStart \/ Te!TeachWindow \/ Te!TeachArm \/ Te!TeachAbort \/ Te!AbortDisarm
        PROVE  Told
    BY <1>2, <1>6 DEF Te!TeachStart, Te!TeachFail, Te!TeachWindow, Te!TeachArm, Te!TeachAbort,
                      Te!AbortDisarm, Te!plant
  <1>7. ASSUME \/ Te!Drive \/ Te!DriveEnds \/ Te!Travel \/ Te!Elapse \/ Te!SensorCommits
               \/ Te!SensorRestart \/ UNCHANGED Te!teachVars
        PROVE  Told
    BY <1>2, <1>7 DEF Te!Drive, Te!DriveEnds, Te!Travel, Te!Elapse, Te!SensorCommits,
                      Te!SensorRestart, Te!teachVars, Te!tasks, Te!plant
  <1>8. ASSUME Te!TakeLeg PROVE Told
    BY <1>8 DEF Te!TakeLeg, Te!tasks, Told
  <1>9. ASSUME Te!TeachReboot PROVE Told
    BY <1>9 DEF Te!TeachReboot, Te!Ways, Told
  <1> QED  BY <1>3, <1>4, <1>5, <1>6, <1>7, <1>8, <1>9
           DEF Te!TeachNext, Te!T11Step, Te!T11Goes, Te!T17Step

LEMMA TeachStep ==
    ASSUME TeachInv, [Te!TeachNext]_(Te!teachVars)
    PROVE  TeachInv'
  <1>1. /\ dev \in Sensors /\ leg \in Legs /\ late \in BOOLEAN /\ starting \in BOOLEAN
        /\ stray \in BOOLEAN /\ read \in Readings /\ st \in States
        /\ pcT11 \in {"idle", "arm", "go", "disarm"}
    BY TeachTypes DEF TeachInv
  <1>2. Te!NoReading \in Readings /\ Te!Reading \in Readings
    BY <1>1 DEF Te!NoReading, Te!Reading, Readings, Te!AtEnd, Sensors
  <1>3. ASSUME UNCHANGED <<st, starting, leg, late, stray, pcT11>>, dev' \in Sensors,
               read' \in Readings, saw = "IDLE", saw' = "IDLE",
               pcT17' \in {"idle", "read", "disarm", "orphan"}
        PROVE  TeachInv'
    BY <1>1, <1>3, RunStands DEF Te!Ways, Starts
  <1>4. ASSUME Te!TickRead \/ Te!CheckOrphan \/ Te!DisarmOrphan
        PROVE  TeachInv'
    <2>1. /\ pcT17 \in {"idle", "read", "disarm"}
          /\ pcT17' \in {"read", "disarm", "orphan"} /\ UNCHANGED saw
          /\ UNCHANGED <<st, starting, leg, late, stray, pcT11>>
          /\ UNCHANGED dev \/ Te!Disarm
          /\ read' \in {read, Te!Reading, Te!NoReading}
      BY <1>4 DEF Te!TickRead, Te!CheckOrphan, Te!DisarmOrphan, Te!run
    <2>2. dev' \in Sensors /\ read' \in Readings /\ saw = "IDLE"
      BY <1>1, <1>2, <2>1, DisarmTypes DEF TeachInv
    <2> QED  BY <1>3, <2>1, <2>2
  <1>5. ASSUME Te!TickCopy PROVE TeachInv'
    <2>1. /\ UNCHANGED <<st, starting, leg, late, dev, pcT11, stray>> /\ pcT17 = "orphan"
          /\ \/ Te!Active(st) /\ pcT17' = "act" /\ saw' = st /\ UNCHANGED read
             \/ pcT17' = "idle" /\ saw' = "IDLE" /\ read' = Te!NoReading
      BY <1>5 DEF Te!TickCopy, Te!TickOver, Te!run
    <2>2. CASE Te!Active(st) /\ pcT17' = "act" /\ saw' = st /\ UNCHANGED read
      BY <1>1, <2>1, <2>2, RunStands DEF Te!Ways, Te!Active, Starts
    <2>3. CASE pcT17' = "idle" /\ saw' = "IDLE" /\ read' = Te!NoReading
      BY <1>1, <1>2, <2>1, <2>3, RunStands DEF Te!Ways, Starts
    <2> QED  BY <2>1, <2>2, <2>3
  <1>6. ASSUME Te!TeachStart PROVE TeachInv'
    <2>1. UNCHANGED <<pcT17, read, saw, stray>> /\ pcT11 = "idle" /\ ~Te!Active(st)
      BY <1>6 DEF Te!TeachStart
    <2>2. ASSUME Te!TeachFail, UNCHANGED pcT11
          PROVE  TeachInv'
      <3>1. /\ st' = "FAILED" /\ late' = FALSE /\ leg' = Te!FreshLeg /\ dev' \in Sensors
            /\ UNCHANGED starting
        BY <2>2, DisarmTypes DEF Te!TeachFail
      <3>2. leg' \in Legs /\ leg'.legs <= 1 /\ Untouched(leg')
        BY <3>1, FreshLegs DEF Untouched
      <3>3. ~Te!Active(st') /\ st' \in States
        BY <3>1 DEF Te!Active, States
      <3>4. stray => saw = "IDLE"
        BY DEF TeachInv
      <3> QED  BY <1>1, <2>1, <2>2, <3>1, <3>2, <3>3, <3>4, TeachFits
    <2>3. ASSUME leg' = [Te!FreshLeg EXCEPT !.prev = Te!AtEnd],
                 pcT11' = "arm", UNCHANGED <<dev, st, late, starting, cmd>>
          PROVE  TeachInv'
      <3> DEFINE b == Te!AtEnd
      <3>1. b \in BOOLEAN /\ leg' = [Te!FreshLeg EXCEPT !.prev = b]
        BY <2>3 DEF Te!AtEnd
      <3> HIDE DEF b
      <3>2. leg' \in Legs /\ leg'.legs <= 1 /\ Untouched(leg')
        BY <3>1, FreshLegs DEF Legs, Untouched
      <3>3. ~Te!Active(st')
        BY <2>1, <2>3 DEF Te!Active
      <3>4. stray => saw = "IDLE"
        BY DEF TeachInv
      <3> QED  BY <1>1, <2>1, <2>3, <3>2, <3>3, <3>4, TeachFits
    <2> QED  BY <1>6, <2>2, <2>3 DEF Te!TeachStart
  <1>7. ASSUME Te!TeachWindow PROVE TeachInv'
    <2>1. /\ UNCHANGED <<st, leg, late, dev, pcT17, read, saw, stray>> /\ pcT11 = "arm"
          /\ pcT11' = "go" /\ starting' \in BOOLEAN
      BY <1>7 DEF Te!TeachWindow
    <2>2. /\ leg.legs <= 1 /\ ~Te!Active(st) /\ (saw # "IDLE" => Untouched(leg))
          /\ (stray => saw = "IDLE")
      BY <2>1 DEF TeachInv, Starts
    <2>3. leg'.legs <= 1 /\ ~Te!Active(st') /\ (saw # "IDLE" => Untouched(leg'))
      BY <2>1, <2>2 DEF Te!Active
    <2> QED  BY <1>1, <2>1, <2>2, <2>3, TeachFits
  <1>8. ASSUME Te!TeachAbort PROVE TeachInv'
    <2>1. /\ UNCHANGED <<leg, dev, starting, pcT17, read, saw, stray>> /\ pcT11' = "disarm"
          /\ st' = "IDLE" /\ late' = FALSE
      BY <1>8 DEF Te!TeachAbort
    <2>2. Te!TeachTypeOK'
      <3>1. /\ leg' \in Legs /\ dev' \in Sensors /\ st' \in States
            /\ starting' \in BOOLEAN /\ late' \in BOOLEAN
            /\ saw' \in {"IDLE", "ARMING", "TRAVERSING", "COMMITTING"}
            /\ pcT17' \in {"idle", "read", "disarm", "orphan", "act"} \cup Te!Ways
        BY <1>1, <2>1, TeachTypes DEF States
      <3> QED  BY <2>1, <3>1, TypesMake
    <2>3. ~Starts' /\ ~Te!Active(st') /\ st' # "ARMING"
      BY <2>1 DEF Starts, Te!Active
    <2> QED  BY <2>1, <2>2, <2>3 DEF TeachInv, Te!Ways
  <1>9. ASSUME Te!TeachArm PROVE TeachInv'
    <2>1. /\ pcT11 = "go" /\ pcT11' = "idle" /\ starting' = FALSE /\ late' = FALSE
          /\ UNCHANGED <<pcT17, read, saw>>
      BY <1>9 DEF Te!TeachArm
    <2>2. /\ leg.legs <= 1 /\ (saw # "IDLE" => Untouched(leg)) /\ (stray => saw = "IDLE")
      BY <2>1 DEF TeachInv, Starts
    <2>3. [armed |-> TRUE, caps |-> {}] \in Sensors
      BY DEF Sensors
    <2>4. /\ dev' \in {dev, [armed |-> TRUE, caps |-> {}]} /\ leg' \in {leg, Te!FreshLeg}
          /\ \/ st' = "ARMING" /\ stray' = FALSE
             \/ st' = "FAILED" /\ stray' = stray
      BY <1>9 DEF Te!TeachArm
    <2>5. dev' \in Sensors /\ leg' \in Legs
      BY <1>1, <2>3, <2>4, FreshLegs
    <2>6. leg'.legs <= 1 /\ (saw # "IDLE" => Untouched(leg'))
      BY <2>2, <2>4, FreshLegs DEF Untouched
    <2>7. st' \in States /\ stray' \in BOOLEAN /\ (stray' => ~Te!Active(st') /\ saw = "IDLE")
      <3>1. CASE st' = "ARMING" /\ stray' = FALSE
        BY <3>1 DEF States
      <3>2. CASE st' = "FAILED" /\ stray' = stray
        BY <1>1, <2>2, <3>2 DEF States, Te!Active
      <3> QED  BY <2>4, <3>1, <3>2
    <2>8. ~Starts'
      BY <2>1 DEF Starts
    <2> QED  BY <2>1, <2>5, <2>6, <2>7, <2>8, TeachFits
  <1>10. ASSUME Te!AbortDisarm PROVE TeachInv'
    <2>1. /\ UNCHANGED <<st, starting, leg, late, pcT17, read, saw, stray>> /\ pcT11' = "idle"
          /\ Te!Disarm
      BY <1>10 DEF Te!AbortDisarm, Te!run
    <2> QED  BY <1>1, <2>1, DisarmTypes, PlantStands DEF Starts
  <1>11. ASSUME UNCHANGED <<st, starting, leg, stray, Te!tasks>>, late' \in BOOLEAN,
                dev' \in Sensors
         PROVE  TeachInv'
    BY <1>1, <1>11, PlantStands DEF Te!tasks, Starts
  <1>12. ASSUME \/ Te!TakeLeg \/ Te!Drive \/ Te!DriveEnds \/ Te!Elapse
                \/ UNCHANGED Te!teachVars
         PROVE TeachInv'
    <2>1. UNCHANGED <<st, starting, leg, stray, dev, Te!tasks>> /\ late' \in BOOLEAN
      BY <1>1, <1>12 DEF Te!TakeLeg, Te!Drive, Te!DriveEnds, Te!Elapse, Te!run, Te!teachVars
    <2> QED  BY <1>1, <1>11, <2>1
  <1>13. ASSUME Te!Travel PROVE TeachInv'
    <2>1. UNCHANGED <<Te!run, Te!tasks, stray>>
      BY <1>13 DEF Te!Travel
    <2>2. PICK leaf \in {"mid", "open", "closed"} :
             (dev' = [dev EXCEPT !.caps = @ \cup {leaf}] /\ leaf # "mid") \/ dev' = dev
      BY <1>13 DEF Te!Travel, Te!Goal
    <2>3. dev' \in Sensors
      BY <1>1, <2>2 DEF Sensors
    <2> QED  BY <1>1, <1>11, <2>1, <2>3 DEF Te!run
  <1>14. ASSUME Te!SensorCommits \/ Te!SensorRestart PROVE TeachInv'
    <2>1. UNCHANGED <<Te!run, Te!tasks, stray>> /\ dev' = Te!Disarmed
      BY <1>14 DEF Te!SensorCommits, Te!SensorRestart
    <2>2. Te!Disarmed \in Sensors
      BY DEF Te!Disarmed, Sensors
    <2> QED  BY <1>1, <1>11, <2>1, <2>2 DEF Te!run
  <1>15. ASSUME Te!TeachReboot PROVE TeachInv'
    <2>1. /\ st' = "IDLE" /\ leg' = Te!FreshLeg /\ starting' = FALSE /\ late' = TRUE
          /\ pcT11' = "idle" /\ pcT17' = "idle" /\ saw' = "IDLE" /\ read' = Te!NoReading
          /\ dev' = dev /\ stray' = stray
      BY <1>15 DEF Te!TeachReboot
    <2>2. leg' \in Legs /\ Untouched(leg')
      BY <2>1, FreshLegs DEF Untouched
    <2>3. /\ st' \in States /\ starting' \in BOOLEAN /\ late' \in BOOLEAN /\ dev' \in Sensors
      BY <1>1, <2>1 DEF States
    <2>4. Te!TeachTypeOK'
      BY <2>1, <2>2, <2>3, TypesMake
    <2>5. read' \in Readings /\ ~Te!Active(st') /\ ~Starts' /\ pcT17' \notin Te!Ways
      BY <1>2, <2>1 DEF Te!Active, Starts, Te!Ways
    <2> QED  BY <1>1, <2>1, <2>2, <2>3, <2>4, <2>5 DEF TeachInv
  <1> QED  BY <1>4, <1>5, <1>6, <1>7, <1>8, <1>9, <1>10, <1>12, <1>13, <1>14, <1>15,
              ActKeeps, SendKeeps
           DEF Te!TeachNext, Te!T11Step, Te!T11Goes, Te!T17Step

-----------------------------------------------------------------------------
(* The characterisation run: what its steps leave of the types, and of the    *)
(* band.                                                                      *)

(* A run that is about to send its last CMD_STOP has dropped its band.        *)
CharInv ==
    /\ Ch!CharTypeOK /\ Ch!BandDiesWithTheRun
    /\ band \in BOOLEAN
    /\ out = "STOP" => ~band

Words == {"RUN", "PULSE", "STOP", "CLOSE", "OTHER"}

LEMMA CharConstants == Plan \in Nat \ {0} /\ Raises \in Nat /\ Depth \in Nat \ {0}
  BY PositionAssumption DEF Ch!CharAssumption

(* What T17 may disturb, but for Q1.                                          *)
RunKept ==
    /\ job' \in {"no", "starting", "running"}
    /\ step' \in {"rest", "start", "drive", "settle", "read"}
    /\ phase' \in 1..5 /\ left' \in 0..Plan /\ raised' \in 0..Raises
    /\ out' \in {"none", "RUN", "PULSE", "STOP"}
    /\ band' \in BOOLEAN /\ (band' => job' = "running") /\ (out' = "STOP" => ~band')

LEMMA QueueTakes ==
    ASSUME CharInv, NEW c \in Words, Len(q1) < Depth, q1' = Append(q1, c)
    PROVE  q1' \in Seq(Words) /\ Len(q1') <= Depth
  <1>1. q1 \in Seq(Words)
    BY DEF CharInv, Ch!CharTypeOK, Words
  <1> QED  BY <1>1, CharConstants

(* Whatever ends a run drops its band, and frees it or leaves it a CMD_STOP   *)
(* to send.                                                                   *)
LEMMA RunEnds ==
    ASSUME CharInv, NEW why, Ch!RunEnd(why)
    PROVE  RunKept
  <1>1. band' = FALSE /\ Ch!EndsRun(why)
    BY DEF Ch!RunEnd
  <1>2. CASE out' = "STOP" /\ UNCHANGED <<job, step, kind, phase, left, raised, elapsed>>
    BY <1>1, <1>2 DEF CharInv, Ch!CharTypeOK, RunKept
  <1>3. CASE Ch!Freed
    <2>1. /\ job' = "no" /\ out' = "none" /\ step' = "rest" /\ phase' = 1 /\ left' = Plan
          /\ raised' = 0
      BY <1>3 DEF Ch!Freed
    <2>2. phase' \in 1..5 /\ left' \in 0..Plan /\ raised' \in 0..Raises
      BY <2>1, CharConstants
    <2> QED  BY <1>1, <2>1, <2>2 DEF RunKept
  <1> QED  BY <1>1, <1>2, <1>3 DEF Ch!EndsRun

LEMMA StepGoes ==
    ASSUME CharInv, NEW s \in {"rest", "start", "drive", "settle", "read"},
           NEW isElapsed, Ch!GoStep(s, isElapsed)
    PROVE  RunKept
  BY DEF CharInv, Ch!CharTypeOK, Ch!BandDiesWithTheRun, Ch!Running, Ch!GoStep, RunKept

LEMMA StepStays ==
    ASSUME CharInv, UNCHANGED <<Ch!runVars, out>>
    PROVE  RunKept
  BY DEF CharInv, Ch!CharTypeOK, Ch!BandDiesWithTheRun, Ch!Running, Ch!runVars, RunKept

(* One more step of the plan: its command is about to go to Q1.               *)
LEMMA PlanSteps ==
    ASSUME CharInv, out = "none", Ch!PlanStep
    PROVE  /\ step' \in {"rest", "start", "drive", "settle", "read"}
           /\ out' \in {"none", "RUN", "PULSE"}
  <1>1. CASE Ch!Reads
    BY <1>1 DEF Ch!Reads
  <1>2. CASE \E k \in {"target", "pulse"} : Ch!Issue(k)
    BY <1>2 DEF Ch!Issue, CharInv, Ch!CharTypeOK
  <1> QED  BY <1>1, <1>2 DEF Ch!PlanStep

LEMMA PlanGoesOn ==
    ASSUME CharInv, Ch!Running, out = "none", Ch!PlanNext
    PROVE  RunKept
  <1>1. ASSUME NEW why, Ch!RunEnd(why)
        PROVE  RunKept
    BY <1>1, RunEnds
  <1>2. CASE /\ left > 0 /\ Ch!PlanStep /\ left' = left - 1 /\ band' = (phase = 5)
             /\ UNCHANGED <<job, phase, raised>>
    <2>1. left' \in 0..Plan
      BY <1>2, CharConstants DEF CharInv, Ch!CharTypeOK
    <2>2. band' \in BOOLEAN
      BY <1>2
    <2>3. /\ job' = "running" /\ phase' \in 1..5 /\ raised' \in 0..Raises
      BY <1>2 DEF Ch!Running, CharInv, Ch!CharTypeOK
    <2>4. /\ step' \in {"rest", "start", "drive", "settle", "read"}
          /\ out' \in {"none", "RUN", "PULSE"}
      BY <1>2, PlanSteps
    <2> QED  BY <2>1, <2>2, <2>3, <2>4 DEF RunKept
  <1>3. CASE /\ left = 0 /\ phase < 5 /\ phase' = phase + 1 /\ left' = Plan
             /\ UNCHANGED <<job, step, kind, raised, band, elapsed, out>>
    <2>1. phase' \in 1..5 /\ left' \in 0..Plan
      BY <1>3, CharConstants DEF CharInv, Ch!CharTypeOK
    <2> QED  BY <1>3, <2>1
             DEF RunKept, CharInv, Ch!CharTypeOK, Ch!BandDiesWithTheRun, Ch!Running
  <1>4. CASE /\ left = 0 /\ phase = 5 /\ raised < Raises /\ raised' = raised + 1
             /\ left' = Plan /\ band' = TRUE
             /\ UNCHANGED <<job, step, kind, phase, elapsed, out>>
    <2>1. raised' \in 0..Raises /\ left' \in 0..Plan
      BY <1>4, CharConstants DEF CharInv, Ch!CharTypeOK
    <2> QED  BY <1>4, <2>1
             DEF RunKept, CharInv, Ch!CharTypeOK, Ch!Running
  <1> QED  BY <1>1, <1>2, <1>3, <1>4 DEF Ch!PlanNext

(* No tick leaves a band without a run, at whatever step it ends one.         *)
LEMMA TickLeaves ==
    ASSUME CharInv, Ch!Tick
    PROVE  RunKept
  <1>1. ASSUME NEW why, Ch!RunEnd(why)
        PROVE  RunKept
    BY <1>1, RunEnds
  <1>2. Ch!Running /\ out = "none"
    BY DEF Ch!Tick
  <1>3. ASSUME Ch!Guard PROVE RunKept
    BY <1>1, <1>3 DEF Ch!Guard
  <1>4. ASSUME Ch!TickRest PROVE RunKept
    BY <1>1, <1>2, <1>4, PlanGoesOn, StepStays DEF Ch!TickRest
  <1>5. ASSUME Ch!TickStart PROVE RunKept
    BY <1>1, <1>5, StepGoes, StepStays DEF Ch!TickStart
  <1>6. ASSUME Ch!TickDrive PROVE RunKept
    BY <1>1, <1>6, StepGoes, StepStays DEF Ch!TickDrive
  <1>7. ASSUME Ch!TickSettle PROVE RunKept
    BY <1>1, <1>7, StepGoes, StepStays DEF Ch!TickSettle
  <1> QED  BY <1>3, <1>4, <1>5, <1>6, <1>7 DEF Ch!Tick

Strokes == {"none", "run", "pulse", "claimed", "other", "safety"}
Foils == {"no", "pulse", "late"}

LEMMA CharStep ==
    ASSUME CharInv, [Ch!CharNext]_(Ch!charVars)
    PROVE  CharInv'
  <1>1. /\ q1 \in Seq(Words) /\ Len(q1) <= Depth /\ drive \in Strokes /\ foiled \in Foils
        /\ job \in {"no", "starting", "running"}
    BY DEF CharInv, Ch!CharTypeOK, Words, Strokes, Foils
  <1>2. ASSUME RunKept, drive' \in Strokes, foiled' \in Foils, q1' \in Seq(Words),
               Len(q1') <= Depth
        PROVE  CharInv'
    BY <1>2 DEF RunKept, CharInv, Ch!CharTypeOK, Ch!BandDiesWithTheRun, Ch!Running, Words,
                Strokes, Foils
  <1>3. ASSUME UNCHANGED <<Ch!runVars, out>>, drive' \in Strokes, foiled' \in Foils,
               q1' \in Seq(Words), Len(q1') <= Depth
        PROVE  CharInv'
    BY <1>2, <1>3, StepStays
  <1>4. ASSUME UNCHANGED <<Ch!runVars, out, q1, drive, foiled>>
        PROVE  CharInv'
    BY <1>1, <1>3, <1>4
  <1>5. ASSUME Ch!StartRun \/ Ch!RunStarts
        PROVE  CharInv'
    <2>1. /\ UNCHANGED <<step, phase, left, raised, band, out, q1, drive, foiled>>
          /\ job' \in {"no", "starting", "running"} /\ job # "running"
      BY <1>5 DEF Ch!StartRun, Ch!RunStarts, Ch!worldVars
    <2> QED  BY <2>1 DEF CharInv, Ch!CharTypeOK, Ch!BandDiesWithTheRun, Ch!Running
  <1>6. ASSUME Ch!Tick
        PROVE  CharInv'
    <2>1. UNCHANGED <<q1, drive, foiled>>
      BY <1>6 DEF Ch!Tick, Ch!worldVars
    <2> QED  BY <1>1, <1>2, <1>6, <2>1, TickLeaves
  <1>7. ASSUME Ch!RunReading
        PROVE  CharInv'
    <2>1. ASSUME step' = "rest", UNCHANGED <<job, phase, left, raised, band, out>>
          PROVE  RunKept
      BY <2>1 DEF RunKept, CharInv, Ch!CharTypeOK, Ch!BandDiesWithTheRun, Ch!Running
    <2>2. RunKept
      BY <1>7, <2>1, RunEnds DEF Ch!RunReading
    <2>3. UNCHANGED <<q1, drive, foiled>>
      BY <1>7 DEF Ch!RunReading, Ch!worldVars
    <2> QED  BY <1>1, <1>2, <2>2, <2>3
  <1>8. ASSUME Ch!TakeCommand
        PROVE  CharInv'
    <2>1. UNCHANGED <<Ch!runVars, out>> /\ q1 # <<>> /\ q1' = Tail(q1)
      BY <1>8 DEF Ch!TakeCommand
    <2>2. q1' \in Seq(Words) /\ Len(q1') <= Depth
      BY <1>1, <2>1, CharConstants
    <2>3. Head(q1) \in Words
      BY <1>1, <2>1
    <2>4. drive' \in Strokes /\ foiled' \in Foils
      <3> USE DEF Strokes, Foils
      <3>1. CASE Head(q1) = "RUN"
        BY <1>1, <1>8, <3>1 DEF Ch!TakeCommand, Ch!RunDrives, Ch!Stays
      <3>2. CASE Head(q1) = "PULSE"
        BY <1>1, <1>8, <3>2 DEF Ch!TakeCommand, Ch!RunDrives, Ch!Stays
      <3>3. CASE Head(q1) = "OTHER"
        BY <1>8, <3>3 DEF Ch!TakeCommand, Ch!Drives
      <3>4. CASE Head(q1) = "STOP"
        BY <1>1, <1>8, <3>4 DEF Ch!TakeCommand, Ch!Stop
      <3>5. CASE Head(q1) = "CLOSE"
        BY <1>1, <1>8, <3>5 DEF Ch!TakeCommand, Ch!Close, Ch!Drives, Ch!Stays
      <3> QED  BY <2>3, <3>1, <3>2, <3>3, <3>4, <3>5 DEF Words
    <2> QED  BY <1>3, <2>1, <2>2, <2>4
  <1>9. ASSUME Ch!DriveEnds
        PROVE  CharInv'
    BY <1>1, <1>3, <1>9 DEF Ch!DriveEnds, Strokes, Foils
  <1>10. ASSUME Ch!PostClose \/ Ch!Intrude
         PROVE  CharInv'
    <2>1. /\ UNCHANGED <<Ch!runVars, out, drive, foiled>>
          /\ \/ UNCHANGED q1
             \/ Len(q1) < Depth /\ \E c \in {"CLOSE", "OTHER"} : q1' = Append(q1, c)
      BY <1>10 DEF Ch!PostClose, Ch!Intrude, Ch!Room
    <2>2. q1' \in Seq(Words) /\ Len(q1') <= Depth
      <3>1. CASE UNCHANGED q1
        BY <1>1, <3>1
      <3>2. ASSUME NEW c \in {"CLOSE", "OTHER"}, Len(q1) < Depth, q1' = Append(q1, c)
            PROVE  q1' \in Seq(Words) /\ Len(q1') <= Depth
        BY <3>2, QueueTakes DEF Words
      <3> QED  BY <2>1, <3>1, <3>2
    <2> QED  BY <1>1, <1>3, <2>1, <2>2
  <1>11. ASSUME \/ Ch!AbortRun \/ Ch!TickNoRun \/ Ch!WindRises \/ Ch!WindFalls
                \/ Ch!RunElapse \/ UNCHANGED Ch!charVars
         PROVE  CharInv'
    <2>1. UNCHANGED <<Ch!runVars, out, q1, drive, foiled>>
      BY <1>11 DEF Ch!AbortRun, Ch!TickNoRun, Ch!WindRises, Ch!WindFalls, Ch!RunElapse,
                   Ch!charVars, Ch!worldVars
    <2> QED  BY <1>4, <2>1
  <1>12. ASSUME Ch!SendRun
         PROVE  CharInv'
    <2>1. UNCHANGED <<drive, foiled>> /\ out \in {"RUN", "PULSE"}
      BY <1>12 DEF Ch!SendRun, Ch!worldVars
    <2>2. CASE /\ Ch!Room /\ q1' = Append(q1, out) /\ out' = "none" /\ step' = "start"
               /\ UNCHANGED <<job, kind, phase, left, raised, band>>
      <3>1. q1' \in Seq(Words) /\ Len(q1') <= Depth
        BY <2>1, <2>2, QueueTakes DEF Words, Ch!Room
      <3>2. RunKept
        BY <2>2 DEF RunKept, CharInv, Ch!CharTypeOK, Ch!BandDiesWithTheRun, Ch!Running
      <3> QED  BY <1>1, <1>2, <2>1, <3>1, <3>2
    <2>3. CASE Ch!RunEnd("NO_START") /\ UNCHANGED q1
      BY <1>1, <1>2, <2>1, <2>3, RunEnds
    <2> QED  BY <1>12, <2>2, <2>3 DEF Ch!SendRun
  <1>13. ASSUME Ch!SendStop
         PROVE  CharInv'
    <2>1. UNCHANGED <<drive, foiled, band>> /\ out = "STOP" /\ Ch!Freed
      BY <1>13 DEF Ch!SendStop, Ch!worldVars
    <2>2. band' = FALSE
      BY <2>1 DEF CharInv
    <2>3. /\ job' = "no" /\ out' = "none" /\ step' = "rest" /\ phase' = 1 /\ left' = Plan
          /\ raised' = 0
      BY <2>1 DEF Ch!Freed
    <2>4. RunKept
      <3>1. phase' \in 1..5 /\ left' \in 0..Plan /\ raised' \in 0..Raises
        BY <2>3, CharConstants
      <3> QED  BY <2>2, <2>3, <3>1 DEF RunKept
    <2>5. CASE Ch!Room /\ q1' = Append(q1, "STOP")
      <3>1. q1' \in Seq(Words) /\ Len(q1') <= Depth
        BY <2>5, QueueTakes DEF Words, Ch!Room
      <3> QED  BY <1>1, <1>2, <2>1, <2>4, <3>1
    <2>6. CASE UNCHANGED q1
      BY <1>1, <1>2, <2>1, <2>4, <2>6
    <2> QED  BY <1>13, <2>1, <2>5, <2>6 DEF Ch!SendStop
  <1> QED  BY <1>5, <1>6, <1>7, <1>8, <1>9, <1>10, <1>11, <1>12, <1>13
           DEF Ch!CharNext, Ch!T17Runs, Ch!T17Sends

-----------------------------------------------------------------------------
(* The four together.                                                         *)

PositionInv == HoldInv /\ Co!CommTypeOK /\ TeachInv /\ CharInv /\ GateInv

LEMMA PositionStarts == Init => PositionInv
  <1> SUFFICES ASSUME Init
               PROVE  PositionInv
    OBVIOUS
  <1>1. HoldInv
    BY DEF Init, Co!CommInit, Co!StandbyInit, HoldInv, Co!PauseAndStoreAgree,
           Co!OperatorsOwn, Co!Held
  <1>2. Co!CommTypeOK
    BY DEF Init, Co!CommInit, Co!StandbyInit, Co!CommTypeOK, Co!StandbyTypeOK
  <1>3. TeachInv
    <2>1. /\ st = "IDLE" /\ leg = Te!FreshLeg /\ starting = FALSE /\ late = TRUE
          /\ pcT11 = "idle" /\ pcT17 = "idle" /\ read = Te!NoReading /\ saw = "IDLE"
          /\ dev = Te!Disarmed /\ stray = FALSE
      BY DEF Init, Te!TeachInit
    <2>2. dev \in Sensors /\ dev.caps \subseteq {"closed", "open"}
      BY <2>1 DEF Sensors, Te!Disarmed
    <2>3. leg \in Legs /\ leg.legs = 0
      BY <2>1, FreshLegs DEF Untouched
    <2>4. read \in Readings
      BY <2>1 DEF Te!NoReading, Readings
    <2>5. /\ leg.phase \in {"none", "starting", "running", "stopping"}
          /\ leg.noop \in 0..1 /\ leg.ends \in 0..2
      BY <2>3 DEF Legs
    <2>6. Te!TeachTypeOK
      <3>1. leg.legs \in 0..3
        BY <2>3
      <3>2. starting \in BOOLEAN /\ late \in BOOLEAN
        BY <2>1
      <3> QED  BY <2>1, <2>2, <2>5, <3>1, <3>2
               DEF Te!TeachTypeOK, Te!MaxLegs, Te!LeafEnds, Te!Ways
    <2> QED  BY <2>1, <2>2, <2>3, <2>4, <2>6 DEF TeachInv, Starts, Te!Active, Te!Ways
  <1>4. CharInv
    <2>1. /\ job = "no" /\ step = "rest" /\ phase = 1 /\ left = Plan /\ raised = 0
          /\ band = FALSE /\ q1 = <<>> /\ drive = "none" /\ out = "none" /\ foiled = "no"
      BY DEF Init, Ch!CharInit
    <2>2. phase \in 1..5 /\ left \in 0..Plan /\ raised \in 0..Raises
      BY <2>1, CharConstants
    <2>3. q1 \in Seq(Words) /\ Len(q1) <= Depth
      BY <2>1, CharConstants
    <2> QED  BY <2>1, <2>2, <2>3
             DEF CharInv, Ch!CharTypeOK, Ch!BandDiesWithTheRun, Words
  <1>5. GateInv
    <2>1. /\ fitted \in BOOLEAN /\ gate = FALSE /\ mode = "TIMED" /\ fails = 0
          /\ pc = "top" /\ rest = FALSE /\ seg = Po!NoDrive /\ notConfirmed = FALSE
          /\ t2 = [drive |-> "none", state |-> "closed", new |-> FALSE, seen |-> FALSE]
          /\ rested = FALSE
      BY DEF Init, Po!PosInit
    <2>2. fails \in 0..FailLimit
      BY <2>1, PositionAssumption DEF Po!GateAssumption
    <2>3. t2 \in Drives
      BY <2>1 DEF Drives
    <2>4. seg \in Segments /\ ~seg.active
      BY <2>1 DEF Segments, Po!NoDrive
    <2> QED  BY <2>1, <2>2, <2>3, <2>4 DEF GateInv, Po!PosTypeOK
  <1> QED  BY <1>1, <1>2, <1>3, <1>4, <1>5 DEF PositionInv

(* What holds of the four at every moment, whichever of them is under way.    *)
THEOREM PositionInductive == Spec => []PositionInv
  <1>1. PositionInv /\ [Next]_vars => PositionInv'
    BY StepOfEach, StepKeepsAgreement, StepKeepsLock, HoldTypes, TeachStep, CharStep,
       GateStep DEF PositionInv, HoldInv
  <1> QED  BY PositionStarts, <1>1, PTL DEF Spec

(* The types of the pause, the teach, the run and the gate.                   *)
THEOREM TypesCorrect == Spec => []TypeOK
  <1>1. PositionInv => TypeOK
    BY DEF PositionInv, TypeOK, TeachInv, CharInv, GateInv
  <1> QED  BY <1>1, PositionInductive, PTL

(* The dwell a run tries is gone when the run is: at its last step, at an     *)
(* abort, at a guard, and when Q1 is full (characterise.cpp, run_end()).      *)
THEOREM BandDies == Spec => []BandDiesWithTheRun
  <1>1. PositionInv => BandDiesWithTheRun
    BY DEF PositionInv, CharInv, BandDiesWithTheRun
  <1> QED  BY <1>1, PositionInductive, PTL

(* A teach that was abandoned, at whatever moment, drives M3 at most once     *)
(* more, and only by a leg that T17 decided on while it ran: the tick that    *)
(* was past its look at the state, waiting for room in Q1 (commission.cpp,    *)
(* start_leg()).                                                              *)
THEOREM NoLegIsLeft == Spec => TeachDrivesNoMore
  <1>1. PositionInv /\ [Next]_vars => [Told]_(Te!teachVars)
    BY StepOfEach, TeachTells DEF PositionInv
  <1>2. Spec => [][Next]_vars
    BY PTL DEF Spec
  <1>3. Spec => [][Told]_(Te!teachVars)
    BY <1>1, <1>2, PositionInductive, PTL
  <1> QED  BY <1>3 DEF TeachDrivesNoMore, Te!NoLegAfterTheEnd, Told

(* T2 is told to steer by the position only of a sensor that is fitted, whose *)
(* gate is open and that has not failed FailLimit times running; from a rest  *)
(* since the gate opened; and a drive found wanting is cleared only by one    *)
(* whose own readings had the leaf at its end (window_pos_task.cpp,           *)
(* gate_close(), publish_mode(), drive_finish()).                            *)
THEOREM NoOverratedSensor == Spec => SensorIsNotOverrated
  <1>1. PositionInv /\ [Next]_vars => [Promoted]_(Po!posVars) /\ [Cleared]_(Po!posVars)
    BY StepOfEach, GateStep DEF PositionInv
  <1>2. Spec => [][Next]_vars
    BY PTL DEF Spec
  <1>3. Spec => [][Promoted]_(Po!posVars) /\ [][Cleared]_(Po!posVars)
    BY <1>1, <1>2, PositionInductive, PTL
  <1>4. PositionInv => (mode = "POSITION" => fitted /\ gate /\ fails < FailLimit)
    BY DEF PositionInv, GateInv
  <1>5. Spec => Po!GivenUpIsNotUsed
    BY <1>4, PositionInductive, PTL DEF Po!GivenUpIsNotUsed
  <1> QED  BY <1>3, <1>5
           DEF SensorIsNotOverrated, Po!PromotedAfterRest, Po!ConfirmedWasSeen, Promoted, Cleared
=============================================================================
