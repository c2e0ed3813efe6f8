----------------------------- MODULE VentControl -----------------------------
(***************************************************************************)
(* The ventilation loop: T3 (wind safety) and T6 (climate control) post    *)
(* commands to T2 (RelayController) through the bounded queue Q1, and see  *)
(* each other only in the bits of EG1.                                     *)
(*   T3  src/firmware/src/safety_monitor/safety_monitor.cpp                *)
(*   T6  src/firmware/src/climate_control/climate_control.cpp              *)
(*                                                                         *)
(* All tasks run on either of two cores, so each is cut where it reads or  *)
(* writes what another can change.  One window stands for three.           *)
(*                                                                         *)
(* Left out: how T3 judges a reading (any verdict may come), the law T6    *)
(* asks (it may want anything), T6's record of how its last target ended   *)
(* (only the law reads it), commands of the operator, losses of power.     *)
(***************************************************************************)
EXTENDS RelayController, Sequences

CONSTANTS
    Q1Depth,        \* 8
    T6Undisturbed,  \* T3 never runs between T6's look at EG1 and its post
    NoCommand

ASSUME QueueAssumption == Q1Depth \in Nat \ {0} /\ T6Undisturbed \in BOOLEAN

VARIABLES
    q1,
    wind,     \* EG1_BIT_WIND_OVERRIDE
    gale,     \* the reading in T4's snapshot is unsafe, or its sensor is at fault
    pc3, pending,   \* T3: where it is, close_pending; alarm_active is wind's mirror
    alarm3,
    pc6, cmd6       \* T6: where it is, the command it is about to post

relay == vars
t3 == <<wind, pc3, pending, alarm3>>
t6 == <<pc6, cmd6>>
ventVars == <<relay, q1, gale, t3, t6>>

The(act, dir, src) == [act |-> act, ch |-> M3, dir |-> dir, val |-> 0, src |-> src]
CloseAllCmd == The("CLOSE_ALL", "close", "T3")
ResumeCmd   == The("RESUME", "open", "T3")
ClimateCmds == {cmd \in Commands : cmd.src = "T6"}

(* What T3 and T6 post is among the commands; T6 asks for ends and apertures *)
(* (post_q1() and post_q1_target()).                                         *)
ASSUME PostedAssumption ==
    /\ {CloseAllCmd, ResumeCmd} \subseteq Commands
    /\ \A cmd \in ClimateCmds : cmd.act \in {"MOVE", "TARGET"}

Full == Len(q1) = Q1Depth

(* Wrong: off by one. *)
WrongSend(cmd) == q1' = IF Len(q1) > Q1Depth THEN q1 ELSE Append(q1, cmd)

(* xQueueSend() with no wait. *)
Send(cmd) == q1' = IF Full THEN q1 ELSE Append(q1, cmd)

VentInit ==
    /\ Init
    /\ q1 = <<>> /\ gale = FALSE
    /\ wind = FALSE /\ pc3 = "wait" /\ pending = FALSE /\ alarm3 = FALSE
    /\ pc6 = "wait" /\ cmd6 = NoCommand

-----------------------------------------------------------------------------
(* T4 stores a reading and notifies T3 and T6.  A reading like the last may   *)
(* come at any time, so a task may find itself notified at any time; the     *)
(* first comes seconds after T2 has begun its boot.                          *)
Reading ==
    /\ pc # "boot"
    /\ gale' = ~gale
    /\ UNCHANGED <<relay, q1, t3, t6>>

T3MayRun == T6Undisturbed => pc6 = "wait"

(* A wake, after 2 s or for a reading, which is then judged: a CLOSE_ALL     *)
(* that found Q1 full is offered again first.                                *)
Wake3 ==
    /\ pc3 = "wait" /\ pc # "boot" /\ T3MayRun
    /\ pc3' \in {"wait", "judge"}
    /\ IF pending /\ alarm3
       THEN Send(CloseAllCmd) /\ pending' = Full
       ELSE pending' = FALSE /\ UNCHANGED q1
    /\ UNCHANGED <<relay, gale, wind, alarm3, t6>>

Steady3 ==
    /\ pc3 = "judge" /\ gale = alarm3
    /\ pc3' = "wait"
    /\ UNCHANGED <<relay, q1, gale, wind, pending, alarm3, t6>>

(* Unsafe: WIND_OVERRIDE first, then the close. *)
Onset3 ==
    /\ pc3 = "judge" /\ T3MayRun /\ gale /\ ~alarm3
    /\ alarm3' = TRUE /\ wind' = TRUE
    /\ pc3' = "close"
    /\ UNCHANGED <<relay, q1, gale, pending, t6>>

(* Wrong: the send's result is not looked at (before gh#79). *)
WrongClose3 ==
    /\ pc3 = "close"
    /\ Send(CloseAllCmd) /\ pending' = FALSE
    /\ pc3' = "wait"
    /\ UNCHANGED <<relay, gale, wind, alarm3, t6>>

(* Wrong: the close goes to the head of Q1, and what T6 had posted behind it. *)
WrongUrgentClose3 ==
    /\ pc3 = "close"
    /\ q1' = IF Full THEN q1 ELSE <<CloseAllCmd>> \o q1
    /\ pending' = Full
    /\ pc3' = "wait"
    /\ UNCHANGED <<relay, gale, wind, alarm3, t6>>

Close3 ==
    /\ pc3 = "close"
    /\ Send(CloseAllCmd) /\ pending' = Full
    /\ pc3' = "wait"
    /\ UNCHANGED <<relay, gale, wind, alarm3, t6>>

(* Safe again, or wind protection switched off: the bit falls and a RESUME,  *)
(* which T2 only logs, is offered once.                                      *)
Clear3 ==
    /\ pc3 = "judge" /\ T3MayRun /\ ~gale /\ alarm3
    /\ alarm3' = FALSE /\ pending' = FALSE /\ wind' = FALSE
    /\ pc3' = "resume"
    /\ UNCHANGED <<relay, q1, gale, t6>>

Resume3 ==
    /\ pc3 = "resume"
    /\ Send(ResumeCmd)
    /\ pc3' = "wait"
    /\ UNCHANGED <<relay, gale, wind, pending, alarm3, t6>>

T3 == Wake3 \/ Steady3 \/ Onset3 \/ Close3 \/ Clear3 \/ Resume3

-----------------------------------------------------------------------------
Inhibited == wind \/ eg # {}

Wake6 ==
    /\ pc6 = "wait" /\ pc # "boot"
    /\ T6Undisturbed => pc3 = "wait"
    /\ pc6' = IF Inhibited THEN "wait" ELSE "plan"
    /\ UNCHANGED <<relay, q1, gale, t3, cmd6>>

(* What plan_target() and the two passes of apply_model_output() let go out: *)
(* no end the window rests at, and nothing at all but what the law wants.    *)
Plans(cmd) == cmd.act = "MOVE" => ch[cmd.ch].st # End[cmd.dir]

Plan6 ==
    /\ pc6 = "plan"
    /\ \/ pc6' = "wait" /\ UNCHANGED cmd6
       \/ \E cmd \in ClimateCmds :
             Plans(cmd) /\ cmd6' = cmd /\ pc6' = "post"
    /\ UNCHANGED <<relay, q1, gale, t3>>

(* A command refused by a full Q1 is dropped: the next wake asks again. *)
Post6 ==
    /\ pc6 = "post"
    /\ Send(cmd6)
    /\ pc6' = "wait" /\ cmd6' = NoCommand
    /\ UNCHANGED <<relay, gale, t3>>

T6 == Wake6 \/ Plan6 \/ Post6

-----------------------------------------------------------------------------
(* T2: the drain takes from Q1 until it is empty; otherwise as it is. *)
Receive ==
    /\ q1 # <<>>
    /\ Process(Head(q1))
    /\ q1' = Tail(q1)
    /\ UNCHANGED <<gale, t3, t6>>

Work ==
    /\ T2Step \/ (q1 = <<>> /\ DrainDone)
    /\ UNCHANGED <<q1, gale, t3, t6>>

Around ==
    /\ Tick \/ ContactMoves \/ IsrOpens
    /\ UNCHANGED <<q1, gale, t3, t6>>

VentNext == Reading \/ T3 \/ T6 \/ Receive \/ Work \/ Around

VentSpec == VentInit /\ [][VentNext]_ventVars

(* Every task is runnable between its waits, T2 also in its drain; T3 wakes  *)
(* every 2 s whether or not a reading came; Q1 is emptied faster than it     *)
(* fills.                                                                    *)
VentFairness ==
    /\ WF_ventVars(T3) /\ WF_ventVars(T6)
    /\ WF_ventVars(Receive \/ (T2Step /\ UNCHANGED <<q1, gale, t3, t6>>))
    /\ SF_ventVars(q1 = <<>> /\ DrainDone /\ UNCHANGED <<q1, gale, t3, t6>>)
    /\ SF_ventVars(Tick /\ UNCHANGED <<q1, gale, t3, t6>>)
    /\ WF_ventVars(IsrOpens /\ UNCHANGED <<q1, gale, t3, t6>>)

VentFairSpec == VentSpec /\ VentFairness

-----------------------------------------------------------------------------
(* The queue keeps its depth, and each task is at one of its steps. *)
VentTypeOK ==
    /\ Len(q1) <= Q1Depth /\ \A i \in DOMAIN q1 : q1[i] \in Command
    /\ pc3 \in {"wait", "judge", "close", "resume"} /\ pc6 \in {"wait", "plan", "post"}
    /\ wind \in BOOLEAN /\ gale \in BOOLEAN /\ pending \in BOOLEAN /\ alarm3 \in BOOLEAN
    /\ cmd6 \in Command \cup {NoCommand}

Closing(c) ==
    \/ ch[c].st = "CLOSED"
    \/ ch[c].st \in {"MOVING_CLOSE", "GAP_TO_CLOSE"} /\ ch[c].aim = NoTarget

CloseIsQueued ==
    \E i \in DOMAIN q1 :
        /\ q1[i] = CloseAllCmd
        /\ \A j \in (i + 1)..Len(q1) : q1[j].src = "T3"

Suspended == "MOTOR_ALARM" \in eg \/ pc \in {"boot", "guard", "sweep", "sweeping", "trip"}

(* FR-WS05: wind closures "take priority over all other window commands".    *)
(* Once the override has posted, every window is on its way to CLOSED with   *)
(* no target to stop it short, or a close comes behind whatever else is in   *)
(* Q1, or T3 has it to post again, or a motor alarm or a sweep rules.        *)
OverrideRules ==
    wind /\ pc3 # "close" =>
        \/ pending \/ CloseIsQueued \/ Suspended
        \/ \A c \in Channel : Closing(c)

(* An override that stays ends with every window closed: a full Q1, a sweep  *)
(* or an alarm in between does not lose the close.                           *)
WindCloses ==
    <>[](wind /\ "MOTOR_ALARM" \notin eg) =>
        <>[](\A c \in Channel : ch[c].st = "CLOSED" /\ leaf[c] = 0)
=============================================================================
