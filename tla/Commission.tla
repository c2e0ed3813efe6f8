------------------------------ MODULE Commission ------------------------------
(***************************************************************************)
(* The STANDBY that commissioning holds:                                   *)
(*   src/firmware/src/window_pos/commission.cpp    hold_*(), T11's entries *)
(*   src/firmware/src/window_pos/characterise.cpp  the start of a run      *)
(* T11 (web) starts and abandons a teach or a characterisation and hears   *)
(* that a session ended; T17 looks after the hold on every tick; T8 (LCD)  *)
(* holds STANDBY too, and anybody may set or end it.  teach_start is cut   *)
(* where it lets T17 in between.                                           *)
(*                                                                         *)
(* How a teach goes is in Teach, how a characterisation goes in            *)
(* Characterise: here each starts and ends.                                *)
(***************************************************************************)
EXTENDS Standby

CONSTANTS Session, NoSession

CommissionAssumption == NoSession \notin Session /\ "TEACH" \in Holder

VARIABLES
    teach,          \* a teach is starting ("armed": its hold taken), going, or not
    char,           \* the same of a characterisation
    owner, ended,   \* s_hold_token, s_hold_ended
    lock,           \* s_hold_mtx: "free", "held" by T11, or held too long for T17,
                    \* which goes on without it: "late"
    pc11, who11,    \* T11: where a start is, and for whose session
    live            \* the web sessions that are live

t11       == <<pc11, who11>>
holdVars  == <<owner, ended, lock>>
commVars  == <<standbyVars, teach, char, holdVars, t11, live>>

CommInit ==
    /\ StandbyInit
    /\ teach = "no" /\ char = "no"
    /\ owner = NoSession /\ ended = FALSE /\ lock = "free"
    /\ pc11 = "idle" /\ who11 = NoSession
    /\ live = {}

Running == teach = "going" \/ char # "no"

(* Wrong: only a session that says so is known to have ended. *)
WrongOwnerIsLive == ~ended

OwnerIsLive == ~ended /\ owner \in live

HoldForget == owner' = NoSession /\ ended' = FALSE

(* Wrong: the hold of a session that ended is dropped under its run. *)
WrongHoldCheck ==
    IF "TEACH" \in holders /\ OwnerIsLive THEN UNCHANGED <<standbyVars, owner, ended>>
    ELSE HoldForget /\ Release("TEACH")

(* Released once nothing runs and the session it was for has ended. *)
HoldCheck ==
    IF "TEACH" \in holders /\ (Running \/ OwnerIsLive)
    THEN UNCHANGED <<standbyVars, owner, ended>>
    ELSE HoldForget /\ Release("TEACH")

HoldTake(s) ==
    /\ Hold("TEACH")
    /\ IF "TEACH" \in holders' THEN owner' = s /\ ended' = FALSE
       ELSE UNCHANGED <<owner, ended>>

-----------------------------------------------------------------------------
(* T11.  The httpd runs one handler at a time. *)

Login(s) ==
    /\ pc11 = "idle" /\ s \notin live
    /\ live' = live \cup {s}
    /\ UNCHANGED <<standbyVars, teach, char, holdVars, t11>>

(* Logout; commission_session_ended() marks the hold of its owner. *)
Logout(s) ==
    /\ pc11 = "idle" /\ s \in live
    /\ live' = live \ {s}
    /\ ended' = (ended \/ owner = s)
    /\ pc11' = IF owner = s THEN "check" ELSE "idle"
    /\ UNCHANGED <<standbyVars, teach, char, owner, lock, who11>>

LogoutCheck ==
    /\ pc11 = "check" /\ pc11' = "idle"
    /\ HoldCheck
    /\ UNCHANGED <<teach, char, lock, who11, live>>

(* commission_teach_start() past its refusals. *)
TeachStart(s) ==
    /\ pc11 = "idle" /\ s \in live /\ teach = "no" /\ char = "no"
    /\ pc11' = "hold" /\ who11' = s
    /\ UNCHANGED <<standbyVars, teach, char, holdVars, live>>

(* The hold, and the lock until the run is published or refused. *)
TeachHold ==
    /\ pc11 = "hold" /\ lock' = "held" /\ pc11' = "arm"
    /\ HoldTake(who11)
    /\ UNCHANGED <<teach, char, who11, live>>

(* The device is written and armed: the teach goes, or has failed. *)
TeachGo ==
    /\ pc11 = "arm" /\ pc11' = "idle" /\ who11' = NoSession /\ lock' = "free"
    /\ teach' \in {"no", "going"}
    /\ UNCHANGED <<standbyVars, char, owner, ended, live>>

TeachAbort ==
    /\ pc11 = "idle" /\ live # {} /\ char = "no" /\ teach = "going"
    /\ teach' = "no"
    /\ UNCHANGED <<standbyVars, char, holdVars, t11, live>>

(* characterise_start() past its refusals, s_starting set; then the hold.    *)
(* With no STANDBY it refuses after all.                                     *)
CharStart(s) ==
    /\ pc11 = "idle" /\ s \in live /\ char = "no" /\ teach = "no"
    /\ char' = "starting" /\ pc11' = "charhold" /\ who11' = s
    /\ UNCHANGED <<standbyVars, teach, holdVars, live>>

CharHold ==
    /\ pc11 = "charhold" /\ pc11' = "charrun"
    /\ HoldTake(who11)
    /\ UNCHANGED <<teach, char, lock, who11, live>>

CharRun ==
    /\ pc11 = "charrun" /\ pc11' = "idle" /\ who11' = NoSession
    /\ char' = IF on THEN "running" ELSE "no"
    /\ UNCHANGED <<standbyVars, teach, holdVars, live>>

(* What T11 has begun it goes on with. *)
T11Goes == LogoutCheck \/ TeachHold \/ TeachGo \/ CharHold \/ CharRun

T11Step ==
    \/ \E s \in Session : Login(s) \/ Logout(s) \/ TeachStart(s) \/ CharStart(s)
    \/ TeachAbort
    \/ T11Goes

-----------------------------------------------------------------------------
(* T17 *)

(* commission_tick(), on every reading and while there is none.  It waits    *)
(* two seconds for the lock, and goes on without it when they are over.      *)
TickHold ==
    /\ lock' = IF lock = "free" THEN "free" ELSE "late"
    /\ HoldCheck
    /\ UNCHANGED <<teach, char, t11, live>>

TeachEnds ==
    /\ teach = "going" /\ teach' = "no"
    /\ UNCHANGED <<standbyVars, char, holdVars, t11, live>>

(* It comes to its end, or is ended: by its own guards, and when STANDBY has *)
(* ended.                                                                    *)
CharEnds ==
    /\ char = "running" /\ char' = "no"
    /\ UNCHANGED <<standbyVars, teach, holdVars, t11, live>>

T17Step == TickHold \/ TeachEnds \/ CharEnds

-----------------------------------------------------------------------------
(* A session expires, or is evicted: nobody tells commissioning. *)
Expire(s) ==
    /\ s \in live /\ live' = live \ {s}
    /\ UNCHANGED <<standbyVars, teach, char, holdVars, t11>>

(* The LCD's hold, and the requests of T8, T11 and a reset of the settings. *)
Others ==
    /\ \/ \E want \in BOOLEAN : SetStandby(want)
       \/ \E who \in Holder \ {"TEACH"} : Hold(who) \/ Release(who)
       \/ ReloadAfterReset
    /\ UNCHANGED <<teach, char, holdVars, t11, live>>

CommReboot ==
    /\ Reboot
    /\ teach' = "no" /\ char' = "no"
    /\ owner' = NoSession /\ ended' = FALSE /\ lock' = "free"
    /\ pc11' = "idle" /\ who11' = NoSession /\ live' = {}

CommNext ==
    \/ T11Step \/ T17Step \/ Others
    \/ \E s \in Session : Expire(s)
    \/ CommReboot

(* T17 ticks every 500 ms, or 30 s, and teaches are started minutes apart,   *)
(* so that it finds the lock free time and again; a teach and a run come to  *)
(* an end; T11 finishes what it began.                                       *)
CommFairness ==
    /\ SF_commVars(lock = "free" /\ TickHold /\ holders' # holders)
    /\ WF_commVars(TeachEnds) /\ WF_commVars(CharEnds)
    /\ WF_commVars(T11Goes)

CommSpec == CommInit /\ [][CommNext]_commVars /\ CommFairness

-----------------------------------------------------------------------------
CommTypeOK ==
    /\ StandbyTypeOK
    /\ teach \in {"no", "going"} /\ char \in {"no", "starting", "running"}
    /\ owner \in Session \cup {NoSession} /\ who11 \in Session \cup {NoSession}
    /\ ended \in BOOLEAN /\ lock \in {"free", "held", "late"}
    /\ pc11 \in {"idle", "check", "hold", "arm", "charhold", "charrun"}
    /\ live \subseteq Session

(* A pause the operator asked for is never ended by a teach, a run, or the   *)
(* end of a session, whatever their order (commission.h: the teach does not  *)
(* hold it and never releases it).                                           *)
OperatorsPauseIsTheirs ==
    [][T11Step \/ T17Step => (OperatorsOwn => OperatorsOwn')]_commVars

(* Commissioning never lets go of its hold while a teach or a run is on its  *)
(* way or going on: not when its session expires or logs out, and not        *)
(* between the taking of the hold and the start it is for (s_hold_mtx), but  *)
(* by a tick that could not wait for the lock any longer.                    *)
HoldOutlivesTheRun ==
    [][T11Step \/ T17Step =>
        ("TEACH" \in holders /\ (Running \/ (pc11 = "arm" /\ lock' # "late"))
            => "TEACH" \in holders')]_commVars

(* Nor is the pause left behind: time and again it is let go, or its owner's *)
(* session is live: with the session gone, logged out or not, and the run    *)
(* over, the hold is let go.  Nobody else would.                             *)
HoldEnds ==
    []<>("TEACH" \notin holders \/ owner \in live)
===============================================================================
