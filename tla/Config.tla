------------------------------- MODULE Config -------------------------------
(***************************************************************************)
(* The settings: three copies of them - in NVS, in the shadow of T4 under  *)
(* MX4, and T2's own times - and the routes that write them: Q4 from T8,   *)
(* T10 and T11, the forms of T11, and the reset button's stage 2 on T8:    *)
(*   src/firmware/src/data_manager/data_manager.cpp                        *)
(*   src/firmware/src/web_server/web_server.cpp                            *)
(*   src/firmware/src/ui_display/ui_display.cpp                            *)
(*                                                                         *)
(* A key stands for its kind, a value above MaxValue for what is out of    *)
(* range.  Strings, the sun times and the texts are left out.              *)
(***************************************************************************)
EXTENDS Naturals, Sequences

CONSTANTS
    MaxValue,       \* the greatest legal value; 0 is the factory's
    Q4Depth

ConfigAssumption == MaxValue \in Nat \ {0} /\ Q4Depth \in Nat \ {0}

VARIABLES
    stored,     \* NVS; an erased key reads as the factory's value
    shadow,     \* s_cfg
    used2,      \* what T2 works on, of "motor"
    flag2,      \* T2_NOTIFY_CFG_CHANGED
    q4,
    pcC,        \* T4's, T8's and T11's place
    val4,       \* T4: the update, clamped
    astray      \* the keys whose copies a known gap has set apart

cfgVars == <<stored, shadow, used2, flag2, q4, pcC, val4, astray>>

(* Two keys with a shadow, of which a form may also write one.  An update of *)
(* an unknown key ends as a failed write does; one of a key without a shadow *)
(* ends with its write.                                                      *)
Keys     == {"motor", "form"}
Values   == 0 .. MaxValue
NoUpdate == [key |-> "motor", value |-> 0]

CfgInit ==
    /\ stored = [k \in Keys |-> 0] /\ shadow = [k \in Keys |-> 0]
    /\ used2 = 0 /\ flag2 = FALSE /\ q4 = <<>>
    /\ pcC = [t \in {"T4", "T8", "T11"} |-> "idle"]
    /\ val4 = NoUpdate /\ astray = {}

MovesC(t, from, to) == pcC[t] = from /\ pcC' = [pcC EXCEPT ![t] = to]

-----------------------------------------------------------------------------
(* Q4: a full queue is told to the web (503) and dropped for the others.     *)

(* config_post_handler(), which refuses an unknown key; T8's menus; T10.     *)
PostQ4 ==
    \E k \in Keys, v \in 0 .. MaxValue + 1 :
        /\ Len(q4) < Q4Depth
        /\ q4' = Append(q4, [key |-> k, value |-> v])
        /\ UNCHANGED <<stored, shadow, used2, flag2, pcC, val4, astray>>

(* cfg_clamp() *)
Clamped(v) == IF v > MaxValue THEN MaxValue ELSE v

(* apply_config_update(), up to the write; the write may fail. *)
Apply ==
    /\ q4 # <<>> /\ q4' = Tail(q4)
    /\ LET u == Head(q4) IN
       \/ /\ MovesC("T4", "idle", "store")
          /\ stored' = [stored EXCEPT ![u.key] = Clamped(u.value)]
          /\ val4' = [u EXCEPT !.value = Clamped(u.value)]
       \/ MovesC("T4", "idle", "idle") /\ UNCHANGED <<stored, val4>>
    /\ UNCHANGED <<shadow, used2, flag2, astray>>

(* ... and into the shadow under MX4: what is overtaken since the write is   *)
(* now put back in the shadow alone.                                         *)
StoreShadow ==
    /\ MovesC("T4", "store", "tell")
    /\ shadow' = [shadow EXCEPT ![val4.key] = val4.value]
    /\ astray' = IF stored[val4.key] = val4.value THEN astray \ {val4.key}
                 ELSE astray \cup {val4.key}
    /\ UNCHANGED <<stored, used2, flag2, q4, val4>>

(* ... or MX4 cannot be had: NVS is written, and nobody is told. *)
StoreTimesOut ==
    /\ MovesC("T4", "store", "idle")
    /\ astray' = astray \cup {val4.key} /\ val4' = NoUpdate
    /\ UNCHANGED <<stored, shadow, used2, flag2, q4>>

(* ... and T2 is told. *)
Tell ==
    /\ MovesC("T4", "tell", "idle")
    /\ flag2' = (flag2 \/ val4.key = "motor")
    /\ val4' = NoUpdate
    /\ UNCHANGED <<stored, shadow, used2, q4, astray>>

-----------------------------------------------------------------------------
(* web_post_handler(), ota_config_post_handler(): refused when out of range; *)
(* else written, each write at its own risk ...                              *)
FormPost ==
    /\ MovesC("T11", "idle", "reload")
    /\ \E v \in Values : stored' = [stored EXCEPT !["form"] = v] \/ UNCHANGED stored
    /\ UNCHANGED <<shadow, used2, flag2, q4, val4, astray>>

(* ... and dm_reload_web_cfg(). *)
FormReload ==
    /\ MovesC("T11", "reload", "idle")
    /\ \/ /\ shadow' = [shadow EXCEPT !["form"] = stored["form"]]
          /\ astray' = astray \ {"form"}
       \/ UNCHANGED shadow /\ astray' = astray \cup {"form"}
    /\ UNCHANGED <<stored, used2, flag2, q4, val4>>

(* execute_reset_action(): the namespaces are erased, one by one ...         *)
ResetErase ==
    /\ \/ MovesC("T8", "idle", "erased") /\ stored' = [stored EXCEPT !["motor"] = 0]
       \/ MovesC("T8", "erased", "reload")
          /\ stored' = [stored EXCEPT !["form"] = 0]
    /\ UNCHANGED <<shadow, used2, flag2, q4, val4, astray>>

(* Wrong: the reset ends with the erasing (gh#51). *)
WrongResetReload ==
    /\ MovesC("T8", "reload", "idle")
    /\ UNCHANGED <<stored, shadow, used2, flag2, q4, val4, astray>>

(* ... and dm_reload_all_cfg() loads what is there and tells T2, or finds    *)
(* MX4 taken and does neither.  Its mode is Standby's.                       *)
ResetReload ==
    /\ MovesC("T8", "reload", "idle")
    /\ \/ /\ shadow' = [k \in Keys |-> stored[k]]
          /\ flag2' = TRUE /\ astray' = {}
       \/ UNCHANGED <<shadow, flag2>> /\ astray' = Keys
    /\ UNCHANGED <<stored, used2, q4, val4>>

-----------------------------------------------------------------------------
(* T2: load_motor_timings() on the notification. *)
T2Reloads ==
    /\ flag2 /\ flag2' = FALSE /\ used2' = stored["motor"]
    /\ UNCHANGED <<stored, shadow, q4, pcC, val4, astray>>

(* A restart, by the web's Wi-Fi form, the reset's stage 3 or a power cut:   *)
(* all copies come from NVS.                                                 *)
CfgRestart ==
    /\ UNCHANGED stored
    /\ shadow' = [k \in Keys |-> stored[k]] /\ used2' = stored["motor"]
    /\ flag2' = FALSE /\ q4' = <<>>
    /\ pcC' = [t \in DOMAIN pcC |-> "idle"]
    /\ val4' = NoUpdate /\ astray' = {}

CfgNext ==
    \/ PostQ4 \/ Apply \/ StoreShadow \/ StoreTimesOut \/ Tell
    \/ FormPost \/ FormReload \/ ResetErase \/ ResetReload \/ T2Reloads \/ CfgRestart

CfgSpec == CfgInit /\ [][CfgNext]_cfgVars

-----------------------------------------------------------------------------
CfgTypeOK ==
    /\ stored \in [Keys -> Values] /\ shadow \in [Keys -> Values]
    /\ used2 \in Values /\ flag2 \in BOOLEAN
    /\ val4 \in [key : Keys, value : Values]
    /\ q4 \in Seq([key : Keys, value : 0 .. MaxValue + 1]) /\ Len(q4) <= Q4Depth
    /\ astray \subseteq Keys

(* When every writer is at rest the program works on what the next boot will *)
(* load, but for a key set apart by one of two gaps: MX4 not had in time, or *)
(* a write overtaken between NVS and the shadow.                             *)
StoreIsUsed ==
    (\A t \in DOMAIN pcC : pcC[t] = "idle") =>
        /\ \A k \in Keys \ astray : shadow[k] = stored[k]
        /\ ~flag2 /\ "motor" \notin astray => used2 = stored["motor"]
===============================================================================
