------------------------------- MODULE Standby -------------------------------
(***************************************************************************)
(* STANDBY: the bit that pauses automatic control, who holds it, and what  *)
(* NVS says of it.  dm_set_standby_ex(), dm_standby_hold() and             *)
(* dm_standby_release() of                                                 *)
(*   src/firmware/src/data_manager/data_manager.cpp                        *)
(* run under one mutex, so each is one action here.  A pause is either the *)
(* operator's own (no holder, stored in NVS) or held by sessions (never    *)
(* stored).                                                                *)
(*                                                                         *)
(* Left out: the audit rows; the CMD_RECALIBRATE that leaving posts; the   *)
(* 2 s timeout of the mutex, after which a transition would go on without. *)
(***************************************************************************)
EXTENDS Naturals, FiniteSets, TLC

CONSTANTS Holder, NvsMayFail

StandbyAssumption == NvsMayFail \in BOOLEAN

VARIABLES
    on,         \* EG1_BIT_STANDBY
    holders,    \* s_standby_holders
    nvs,        \* NVS system/mode_standby
    badNvs      \* the last write of nvs failed

standbyVars == <<on, holders, nvs, badNvs>>

Held == holders # {}
OperatorsOwn == on /\ ~Held

StandbyInit ==
    /\ on \in BOOLEAN /\ nvs = on
    /\ holders = {} /\ badNvs = FALSE

(* nvs_cfg_set_i32(): its result is not looked at. *)
Store(value) ==
    \/ nvs' = value /\ badNvs' = FALSE
    \/ NvsMayFail /\ UNCHANGED nvs /\ badNvs' = TRUE

(* An explicit request: it ends every hold, and what it asks for is stored. *)
SetStandby(want) ==
    /\ on # want \/ (want /\ Held)
    /\ on' = want /\ holders' = {}
    /\ Store(want)

(* Wrong: the hold is written to NVS (gh#65). *)
WrongHold(who) ==
    \/ /\ ~on
       /\ on' = TRUE /\ holders' = {who}
       /\ nvs' = TRUE /\ badNvs' = FALSE
    \/ /\ on
       /\ holders' = IF Held THEN holders \cup {who} ELSE {}
       /\ UNCHANGED <<on, nvs, badNvs>>

(* A session takes a hold; on an operator's own pause it gets none. *)
Hold(who) ==
    \/ /\ ~on
       /\ on' = TRUE /\ holders' = {who}
       /\ IF nvs THEN Store(FALSE) ELSE UNCHANGED <<nvs, badNvs>>
    \/ /\ on
       /\ holders' = IF Held THEN holders \cup {who} ELSE {}
       /\ UNCHANGED <<on, nvs, badNvs>>

(* A session lets go; the last one ends the pause. *)
Release(who) ==
    IF who \notin holders THEN UNCHANGED standbyVars
    ELSE /\ holders' = holders \ {who}
         /\ on' = (holders' # {})
         /\ UNCHANGED <<nvs, badNvs>>

(* dm_reload_all_cfg() after a factory reset: NVS reads 0, the mode follows. *)
ReloadAfterReset ==
    /\ on
    /\ on' = FALSE /\ holders' = {} /\ nvs' = FALSE /\ badNvs' = FALSE

(* The power fails, or a task resets the board; nvs_restore_standby_at_boot(). *)
Reboot ==
    /\ on' = nvs /\ holders' = {}
    /\ UNCHANGED <<nvs, badNvs>>

StandbyNext ==
    \/ \E want \in BOOLEAN : SetStandby(want)
    \/ \E who \in Holder : Hold(who) \/ Release(who)
    \/ ReloadAfterReset
    \/ Reboot

StandbySpec == StandbyInit /\ [][StandbyNext]_standbyVars

-----------------------------------------------------------------------------
StandbyTypeOK ==
    /\ on \in BOOLEAN /\ nvs \in BOOLEAN /\ badNvs \in BOOLEAN
    /\ holders \subseteq Holder

(* A held pause is on and, unless the write that says so failed, NVS says    *)
(* there is none: a reboot ends it with the session that held it.  An        *)
(* operator's own pause is stored, so that it outlives a reboot              *)
(* (data_manager.cpp, dm_standby_hold() and dm_set_standby_ex()).            *)
PauseAndStoreAgree ==
    /\ Held => on
    /\ ~badNvs => (nvs <=> OperatorsOwn)
===============================================================================
