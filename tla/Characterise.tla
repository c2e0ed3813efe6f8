----------------------------- MODULE Characterise -----------------------------
(***************************************************************************)
(* A characterisation run of M3:                                           *)
(*   src/firmware/src/window_pos/characterise.cpp                          *)
(* T17 plans it, one command at a time through Q1, and looks at its guards *)
(* on every tick; T11 starts and aborts it; T3 closes the window in a wind;*)
(* others drive M3.  A command of T17 may wait for room in Q1, and is a    *)
(* step of its own behind the tick that decided on it; so is T3's close    *)
(* behind its bit of EG1.  T2 is what the run sees of it: a drive, and an  *)
(* epoch that grows with each.  A closing pulse is a drive of its own      *)
(* kind: a close finds M3 on its way already and leaves the pulse its      *)
(* deadline.                                                               *)
(*                                                                         *)
(* A step of the plan is a target, a pulse or a row of readings, and a     *)
(* phase is Plan of them; what is measured is left out, but for the band   *)
(* the last phase tries.  `elapsed' says that the rest, the settling or    *)
(* the limit of the step has passed.  The hold is in Commission.           *)
(***************************************************************************)
EXTENDS Naturals, Sequences

CONSTANTS
    Plan,           \* steps of a phase
    Raises,         \* times the band may be raised (m3c_band_check)
    Depth,          \* places in Q1
    Intrusions      \* drives of others, and clearings of a condition

CharAssumption == Plan \in Nat \ {0} /\ Raises \in Nat /\ Depth \in Nat \ {0}
                            /\ Intrusions \in Nat

VARIABLES
    job,        \* s_st.state, s_run
    step, kind,             \* the step under way
    phase, left, raised,    \* where the plan is
    band,       \* dm_m3_band_override()
    abortReq,   \* s_abort_req
    news,       \* T2's epoch is ahead of the run's
    elapsed,
    out,        \* what T17 is about to send
    q1,         \* Q1
    drive,      \* whose drive M3 is on; a closing "pulse", or one T3 has "claimed"
    closed,     \* M3 is at its closed end
    foiled,     \* what stopped M3 short of a close: a "pulse" that the close found
                \* under way, or a command of the run that came "late", behind it
    due, raced, \* T3's close is due; T17 was about to send when the wind rose
    wind, trouble,  \* EG1: the wind; STANDBY lost, an alarm or a calibration
    others      \* intrusions so far

runVars   == <<job, step, kind, phase, left, raised, band>>
closeVars == <<due, raced>>
worldVars == <<drive, closed, foiled, closeVars, wind, trouble, others>>
charVars  == <<runVars, abortReq, news, elapsed, out, q1, worldVars>>

Moving == drive # "none"
Running == job = "running"

CharInit ==
    /\ job = "no" /\ step = "rest" /\ kind = "read"
    /\ phase = 1 /\ left = Plan /\ raised = 0 /\ band = FALSE
    /\ abortReq = FALSE /\ news = FALSE /\ elapsed = TRUE
    /\ q1 = <<>> /\ drive = "none" /\ closed \in BOOLEAN /\ foiled = "no"
    /\ out = "none" /\ due = FALSE /\ raced = FALSE /\ wind = FALSE /\ trouble = FALSE /\ others = 0

Room == Len(q1) < Depth

(* The run is freed; what it held is reset here. *)
Freed ==
    /\ job' = "no" /\ out' = "none"
    /\ step' = "rest" /\ kind' = "read"
    /\ phase' = 1 /\ left' = Plan /\ raised' = 0 /\ elapsed' = TRUE

(* run_end(), up to the CMD_STOP it sends for a drive of its own. *)
StopIsOurs(why) == step \in {"start", "drive"} /\ why # "M3_BUSY"
EndsRun(why) ==
    IF StopIsOurs(why)
    THEN out' = "STOP" /\ UNCHANGED <<job, step, kind, phase, left, raised, elapsed>>
    ELSE Freed
WrongRunEnd(why) == EndsRun(why) /\ UNCHANGED band     \* wrong: the band stays in force
RunEnd(why) == EndsRun(why) /\ band' = FALSE

-----------------------------------------------------------------------------
(* T11 *)

(* characterise_start(), up to its hold: every refusal is a "no". *)
StartRun ==
    /\ job = "no" /\ ~wind /\ ~trouble /\ ~Moving
    /\ job' = "starting"
    /\ news' = FALSE        \* the epoch is read
    /\ UNCHANGED <<step, kind, phase, left, raised, band, abortReq, elapsed, out, q1,
                   worldVars>>

(* The hold is taken; with no STANDBY it refuses after all. *)
RunStarts ==
    /\ job = "starting"
    /\ job' \in {"no", "running"}
    /\ abortReq' = FALSE
    /\ UNCHANGED <<step, kind, phase, left, raised, band, elapsed, news, out, q1, worldVars>>

(* characterise_abort() *)
AbortRun ==
    /\ job # "no" /\ ~abortReq /\ abortReq' = TRUE
    /\ UNCHANGED <<runVars, news, elapsed, out, q1, worldVars>>

-----------------------------------------------------------------------------
(* T17 *)

(* issue_target(), issue_pulse(), up to the send. *)
Issue(k) ==
    /\ out' \in (IF k = "pulse" THEN {"RUN", "PULSE"} ELSE {"RUN"})
    /\ kind' = k /\ UNCHANGED <<step, elapsed>>

(* issue_reads() *)
Reads ==
    /\ step' = "read" /\ kind' = "read" /\ elapsed' = FALSE
    /\ UNCHANGED out

(* One more step of the phase, as plan_speed(), plan_reversal(),             *)
(* plan_minmove(), plan_wp02() and plan_band() order them.                   *)
PlanStep ==
    \/ phase \in {1, 4, 5} /\ Issue("target")
    \/ phase \in {2, 3} /\ \E k \in {"target", "pulse"} : Issue(k)
    \/ phase = 3 /\ Reads

(* plan_next(): another step of the phase, the next phase, or the end. *)
PlanNext ==
    \/ /\ left > 0 /\ PlanStep
       /\ left' = left - 1 /\ band' = (phase = 5) /\ UNCHANGED <<job, phase, raised>>
    \/ /\ left = 0 /\ phase < 5         \* a result, and phase_begin()
       /\ \/ /\ phase' = phase + 1 /\ left' = Plan
             /\ UNCHANGED <<job, step, kind, raised, band, elapsed, out>>
          \/ RunEnd("SENSOR")
    \/ /\ left = 0 /\ phase = 5         \* m3c_band_check(): pass, raise, give up
       /\ \/ RunEnd("NONE")
          \/ /\ raised < Raises /\ raised' = raised + 1
             /\ left' = Plan /\ band' = TRUE
             /\ UNCHANGED <<job, step, kind, phase, elapsed, out>>

GoStep(s, isElapsed) ==
    /\ step' = s /\ elapsed' = isElapsed
    /\ UNCHANGED <<job, kind, phase, left, raised, band, out>>

(* What ends a run whatever its step, in the code's order. *)
Guarded == abortReq \/ wind \/ trouble
Guard ==
    \/ abortReq /\ abortReq' = FALSE /\ RunEnd("OPERATOR")
    \/ ~abortReq /\ (wind \/ trouble) /\ RunEnd("GUARD") /\ UNCHANGED abortReq

(* The limit of the step. *)
Limit == elapsed

(* characterise_tick() *)
TickRest ==
    /\ step = "rest"
    /\ IF Moving \/ news THEN RunEnd("M3_BUSY")
       ELSE IF elapsed THEN PlanNext
       ELSE UNCHANGED <<runVars, elapsed, out>>
    /\ UNCHANGED news

(* Whatever drive has begun counts for its own.  A target within the band    *)
(* starts none, which a step of the last phase, a check of the band, is not  *)
(* to do.                                                                    *)
TickStart ==
    /\ step = "start"
    /\ IF news THEN GoStep("drive", FALSE) /\ news' = FALSE
       ELSE /\ UNCHANGED news
            /\ IF Limit
               THEN \/ kind = "target" /\ phase # 5 /\ GoStep("read", FALSE)
                    \/ RunEnd("NO_START")
               ELSE UNCHANGED <<runVars, elapsed, out>>

TickDrive ==
    /\ step = "drive" /\ UNCHANGED news
    /\ IF news THEN RunEnd("M3_BUSY")
       ELSE IF ~Moving THEN GoStep("settle", FALSE)
       ELSE IF Limit THEN RunEnd("TIMEOUT")
       ELSE UNCHANGED <<runVars, elapsed, out>>

TickSettle ==
    /\ step \in {"settle", "read"} /\ UNCHANGED news
    /\ IF Moving \/ news THEN RunEnd("M3_BUSY")
       ELSE IF step = "settle" /\ elapsed THEN GoStep("read", FALSE)
       ELSE IF step = "read" /\ Limit THEN RunEnd("SENSOR")
       ELSE UNCHANGED <<runVars, elapsed, out>>

Tick ==
    /\ Running /\ out = "none"
    /\ \/ Guarded /\ Guard /\ UNCHANGED news
       \/ /\ ~Guarded /\ UNCHANGED abortReq
          /\ TickRest \/ TickStart \/ TickDrive \/ TickSettle
    /\ UNCHANGED <<q1, worldVars>>

(* With no run a tick does nothing. *)
TickNoRun == ~Running /\ UNCHANGED charVars

(* characterise_reading(): the last one a step needs, a bad one, or an end   *)
(* sensor made where no pulse should reach one.                              *)
RunReading ==
    /\ Running /\ out = "none"
    /\ \/ /\ step = "read" /\ step' = "rest" /\ kind' = "read" /\ elapsed' = FALSE
          /\ UNCHANGED <<job, phase, left, raised, band, out>>
       \/ RunEnd("SENSOR")
    /\ UNCHANGED <<abortReq, news, q1, worldVars>>

(* The command of a step: when Q1 stays full the run ends. *)
SendRun ==
    /\ out \in {"RUN", "PULSE"}
    /\ \/ /\ Room /\ q1' = Append(q1, out) /\ out' = "none"
          /\ step' = "start" /\ elapsed' = FALSE
          /\ UNCHANGED <<job, kind, phase, left, raised, band>>
       \/ ~Room /\ RunEnd("NO_START") /\ UNCHANGED q1
    /\ UNCHANGED <<abortReq, news, worldVars>>

(* The stop of a run that ends: dropped when Q1 stays full. *)
SendStop ==
    /\ out = "STOP" /\ Freed /\ UNCHANGED band
    /\ q1' = IF Room THEN Append(q1, out) ELSE q1
    /\ UNCHANGED <<abortReq, news, worldVars>>

-----------------------------------------------------------------------------
(* T2, and those who command it. *)

Drives(who) == drive' = who /\ news' = TRUE /\ closed' = FALSE /\ foiled' = "no"
Stays == UNCHANGED <<drive, news, closed, foiled>>

(* A drive of the run; late when T3's close went before it. *)
Late == wind /\ raced /\ ~due /\ \A i \in DOMAIN q1 : q1[i] # "CLOSE"
RunDrives(who) ==
    /\ drive' = who /\ news' = TRUE /\ closed' = FALSE
    /\ foiled' = IF Late THEN "late" ELSE "no"

(* Wrong: CMD_STOP does not look whose drive it ends. *)
WrongStop ==
    /\ drive' = "none" /\ UNCHANGED <<news, closed, foiled>>

(* ch_stop(): an operator's drive only. *)
Stop ==
    /\ drive' = IF drive \in {"run", "pulse", "other"} THEN "none" ELSE drive
    /\ UNCHANGED <<news, closed, foiled>>

(* T3's CLOSE_ALL: it has nothing to do on a window that is closed, and      *)
(* takes over a pulse that closes without its deadline.                      *)
Close ==
    CASE closed /\ ~Moving               -> Stays
      [] drive \in {"pulse", "claimed"} -> drive' = "claimed" /\ UNCHANGED <<news, closed, foiled>>
      [] OTHER                           -> Drives("safety")

(* T2 takes a command.  A target within the band starts no drive, nor does a *)
(* pulse of a window that moves or is at its end.                            *)
TakeCommand ==
    /\ q1 # <<>> /\ q1' = Tail(q1)
    /\ CASE Head(q1) = "RUN"   -> RunDrives("run") \/ Stays
         [] Head(q1) = "PULSE" -> (~Moving /\ ~closed /\ RunDrives("pulse")) \/ Stays
         [] Head(q1) = "OTHER" -> Drives("other")
         [] Head(q1) = "STOP"  -> Stop
         [] Head(q1) = "CLOSE" -> Close
    /\ UNCHANGED <<runVars, abortReq, elapsed, out, closeVars, wind, trouble, others>>

(* A drive comes to its end; a safety drive's is the closed one. *)
DriveEnds ==
    /\ Moving /\ drive' = "none"
    /\ closed' = (drive = "safety")
    /\ foiled' = IF drive = "claimed" THEN "pulse" ELSE foiled
    /\ UNCHANGED <<runVars, abortReq, news, elapsed, out, q1, closeVars, wind, trouble, others>>

(* T3: the bit, and the close behind it, offered until Q1 takes it. *)
WindRises ==
    /\ ~wind /\ wind' = TRUE /\ due' = TRUE
    /\ raced' = (out \in {"RUN", "PULSE"})
    /\ UNCHANGED <<runVars, abortReq, news, elapsed, out, q1, drive, closed, foiled,
                   trouble, others>>

PostClose ==
    /\ due /\ Room /\ q1' = Append(q1, "CLOSE") /\ due' = FALSE
    /\ UNCHANGED <<runVars, abortReq, news, elapsed, out, drive, closed, foiled, raced,
                   wind, trouble, others>>

WindFalls ==
    /\ wind /\ wind' = FALSE /\ due' = FALSE /\ raced' = FALSE
    /\ others < Intrusions /\ others' = others + 1
    /\ UNCHANGED <<runVars, abortReq, news, elapsed, out, q1, drive, closed, foiled, trouble>>

(* Somebody else drives M3, though not once the wind is up (what such a      *)
(* drive does is VentControl's subject); STANDBY is lost or back, an alarm,  *)
(* a sweep.                                                                  *)
Intrude ==
    /\ others < Intrusions /\ others' = others + 1
    /\ \/ ~wind /\ Room /\ q1' = Append(q1, "OTHER") /\ UNCHANGED trouble
       \/ trouble' = ~trouble /\ UNCHANGED q1
    /\ UNCHANGED <<runVars, abortReq, news, elapsed, out, drive, closed, foiled, closeVars, wind>>

RunElapse ==
    /\ Running /\ ~elapsed /\ elapsed' = TRUE
    /\ UNCHANGED <<runVars, abortReq, news, out, q1, worldVars>>

T17Sends == SendRun \/ SendStop
T17Runs == Tick \/ TickNoRun \/ RunReading \/ T17Sends

CharNext ==
    \/ StartRun \/ RunStarts \/ AbortRun
    \/ T17Runs
    \/ TakeCommand \/ DriveEnds
    \/ WindRises \/ PostClose \/ WindFalls \/ Intrude \/ RunElapse

(* T17 ticks and sends, T3 offers its close again, T2 drains Q1, its timers  *)
(* end every drive, time passes.                                             *)
CharFairness ==
    /\ WF_charVars(Tick) /\ WF_charVars(T17Sends) /\ WF_charVars(RunStarts)
    /\ WF_charVars(PostClose)
    /\ WF_charVars(TakeCommand) /\ WF_charVars(DriveEnds)
    /\ WF_charVars(RunElapse)

CharSpec == CharInit /\ [][CharNext]_charVars /\ CharFairness

-----------------------------------------------------------------------------
CharTypeOK ==
    /\ job \in {"no", "starting", "running"}
    /\ step \in {"rest", "start", "drive", "settle", "read"}
    /\ phase \in 1..5 /\ left \in 0..Plan /\ raised \in 0..Raises
    /\ out \in {"none", "RUN", "PULSE", "STOP"} /\ foiled \in {"no", "pulse", "late"}
    /\ drive \in {"none", "run", "pulse", "claimed", "other", "safety"}
    /\ q1 \in Seq({"RUN", "PULSE", "STOP", "CLOSE", "OTHER"}) /\ Len(q1) <= Depth

(* The band a run tries never outlives it: T6 would steer by it ever after.  *)
BandDiesWithTheRun == band => Running

(* Every run comes to its end, answered or not. *)
RunComesToItsEnd == []<>~Running

(* In a wind that stays M3 ends closed, and stays so: neither what the run   *)
(* still drives nor the CMD_STOP it ends with undoes the close.  Only a      *)
(* closing pulse that the close found under way may stop M3 short, and the   *)
(* one command that T17 was about to send when the wind rose, if T3's close  *)
(* went before it.                                                           *)
WindBeatsTheRun == <>[]wind => <>[](~Moving /\ (closed \/ foiled # "no"))

(* pulse_reap()'s comment counts a close-all among what ends a pulse: in a   *)
(* wind that stays M3 would end closed, but for a command behind the close.  *)
CloseEndsThePulse == <>[]wind => <>[](~Moving /\ (closed \/ foiled = "late"))
===============================================================================
