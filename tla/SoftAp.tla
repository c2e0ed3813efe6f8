------------------------------- MODULE SoftAp -------------------------------
(***************************************************************************)
(* The access point: its flag in NVS, which the LCD menu and T10 itself    *)
(* write through Q4 and T4, and T10, which polls it:                       *)
(*   src/firmware/src/network_manager/network_manager.cpp                  *)
(*   src/firmware/src/ui_display/ui_display.cpp (the System menu)          *)
(***************************************************************************)
EXTENDS Integers, Sequences

CONSTANTS ApQ4Depth
SoftApAssumption == ApQ4Depth \in Nat \ {0}

VARIABLES
    flagAp,     \* "ap_enable" in NVS
    seenAp,     \* s_ap_enable_nvs; -1 at boot
    active10,   \* s_ap_active
    dueAp,      \* it has been up for ap_timeout_min
    failedAp,   \* the last start failed
    q4Ap        \* what Q4 holds for the flag

apVars == <<flagAp, seenAp, active10, dueAp, failedAp, q4Ap>>

ApInit ==
    /\ flagAp \in {0, 1} /\ seenAp = -1 /\ active10 = FALSE
    /\ dueAp = FALSE /\ failedAp = FALSE /\ q4Ap = <<>>

(* A full Q4 drops it. *)
PostAp(v) == q4Ap' = IF Len(q4Ap) < ApQ4Depth THEN Append(q4Ap, v) ELSE q4Ap

(* handle_menu_system(): the opposite of what NVS says. *)
ToggleAp ==
    PostAp(1 - flagAp) /\ UNCHANGED <<flagAp, seenAp, active10, dueAp, failedAp>>

(* T4: apply_config_update() of a key without a shadow. *)
ApplyAp ==
    /\ q4Ap # <<>> /\ q4Ap' = Tail(q4Ap) /\ flagAp' = Head(q4Ap)
    /\ UNCHANGED <<seenAp, active10, dueAp, failedAp>>

TimePasses ==
    active10 /\ dueAp' = TRUE /\ UNCHANGED <<flagAp, seenAp, active10, failedAp, q4Ap>>

(* start_ap() *)
StartAp ==
    /\ dueAp' = FALSE
    /\ \/ active10' = TRUE /\ failedAp' = FALSE
       \/ ~active10 /\ active10' = FALSE /\ failedAp' = TRUE

(* Wrong: what ended by its time is not forgotten. *)
WrongPollAp ==
    IF flagAp # seenAp
    THEN /\ seenAp' = flagAp /\ UNCHANGED <<flagAp, q4Ap>>
         /\ IF flagAp = 1 THEN StartAp
            ELSE active10' = FALSE /\ dueAp' = FALSE /\ failedAp' = FALSE
    ELSE /\ active10 /\ dueAp /\ active10' = FALSE /\ dueAp' = FALSE
         /\ PostAp(0) /\ UNCHANGED <<flagAp, seenAp, failedAp>>

(* poll_ap(): a change of the flag, and the time limit. *)
PollAp ==
    \/ /\ flagAp # seenAp /\ seenAp' = flagAp
       /\ IF flagAp = 1 THEN StartAp
          ELSE active10' = FALSE /\ dueAp' = FALSE /\ failedAp' = FALSE
       /\ UNCHANGED <<flagAp, q4Ap>>
    \/ /\ flagAp = seenAp /\ active10 /\ dueAp
       /\ active10' = FALSE /\ dueAp' = FALSE
       /\ PostAp(0) /\ seenAp' = 0 /\ UNCHANGED <<flagAp, failedAp>>

ApNext == ToggleAp \/ ApplyAp \/ TimePasses \/ PollAp

(* T10 polls every 5 s. *)
ApSpec == ApInit /\ [][ApNext]_apVars /\ WF_apVars(PollAp)

-----------------------------------------------------------------------------
ApTypeOK ==
    /\ flagAp \in {0, 1} /\ seenAp \in {-1, 0, 1}
    /\ (dueAp => active10) /\ (failedAp => ~active10)
    /\ q4Ap \in Seq({0, 1}) /\ Len(q4Ap) <= ApQ4Depth

(* The access point comes to be what its flag says, whatever of the flag's   *)
(* writes Q4 has dropped, unless the radio refused: []<>ApAsFlagged.         *)
ApAsFlagged == failedAp \/ active10 = (flagAp = 1)
===============================================================================
