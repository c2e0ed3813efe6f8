--------------------------------- MODULE Ota ---------------------------------
(***************************************************************************)
(* Over-the-air updates: the manager with its session, its firmware-only   *)
(* fallback and T13, the uploads of T11 and the pulled updates of T16:     *)
(*   src/firmware/src/ota_manager/ota_manager.cpp                          *)
(*   src/firmware/src/ota_client/ota_client.cpp                            *)
(*   src/firmware/src/web_server/web_server.cpp                            *)
(* A begin claims its state under the mutex and sets the flag after it; a  *)
(* release tears down under the mutex and clears the flag after it.        *)
(*                                                                         *)
(* Progress, texts, log rows, the ZIP format, the manifest's fields and    *)
(* sequence number are left out; the timer and its worker can be had.      *)
(***************************************************************************)
EXTENDS Naturals

VARIABLES
    ost,        \* s_state
    handle, part, zip,  \* s_ota_handle open, s_ota_part set, s_zip_buf
    timer,      \* s_fw_done_timer
    bit,        \* EG1_BIT_OTA_IN_PROGRESS
    clear,      \* the tasks that have released and have the flag to clear
    pcO,        \* where each task is
    retry,      \* T16: when it looks again
    inactive,       \* the inactive bank
    boot        \* the boot partition

sessionVars == <<handle, part, zip, timer>>
flashVars   == <<inactive, boot>>
otaVars     == <<ost, sessionVars, bit, clear, pcO, retry, flashVars>>

Senders == {"T11", "T16"}
Tasks   == Senders \cup {"T13", "fallback"}
Free    == {"IDLE", "ERROR"}

OtaInit ==
    /\ ost = "IDLE" /\ handle = FALSE /\ part = FALSE /\ zip = "none"
    /\ timer = "off" /\ bit = FALSE /\ clear = {}
    /\ pcO = [t \in Tasks |-> "idle"]
    /\ retry = "regular"
    /\ inactive = "release" /\ boot = "running"

Goes(t, from, to) == pcO[t] = from /\ t \notin clear /\ pcO' = [pcO EXCEPT ![t] = to]

-----------------------------------------------------------------------------
(* session_release(), up to the mutex. *)
Release(t, end) ==
    /\ ost' = end /\ timer' = "off"
    /\ handle' = FALSE /\ part' = FALSE /\ zip' = "none"
    /\ clear' = clear \cup {t}

(* The flag; from here on the task is done with the session.                 *)
ClearBit(t) ==
    /\ t \in clear /\ clear' = clear \ {t} /\ bit' = FALSE
    /\ UNCHANGED <<ost, sessionVars, pcO, retry, flashVars>>

(* What a call of the manager does when the state is not the caller's. *)
Refused == UNCHANGED <<ost, sessionVars, clear>>

-----------------------------------------------------------------------------
(* The firmware, from T11 or T16. *)

FirmwareBegin(t) ==
    /\ Goes(t, IF t = "T11" THEN "idle" ELSE "apply", "fwsetup")
    /\ ost \in Free /\ ost' = "FW_WRITING"
    /\ UNCHANGED <<sessionVars, bit, clear, retry, flashVars>>

(* The bank is erased. *)
FirmwareSetup(t) ==
    /\ bit' = TRUE /\ UNCHANGED <<retry, boot>>
    /\ \/ /\ Goes(t, "fwsetup", "fw")
          /\ handle' = TRUE /\ part' = TRUE /\ inactive' = "half"
          /\ UNCHANGED <<ost, zip, timer, clear>>
       \/ /\ Goes(t, "fwsetup", "idle")
          /\ inactive' \in {inactive, "half"} /\ Release(t, "ERROR")

(* All of it is written, or a write fails. *)
FirmwareWrite(t) ==
    /\ \/ Goes(t, "fw", "fwend") /\ Refused
       \/ Goes(t, "fw", "idle") /\ Release(t, "ERROR")
    /\ UNCHANGED <<bit, retry, flashVars>>

(* Wrong: an upload that breaks off leaves its session behind. *)
WrongFirmwareLost ==
    /\ Goes("T11", "fw", "idle") /\ Refused
    /\ UNCHANGED <<bit, retry, flashVars>>

(* T11: the sender is gone, or silent for 30 s. *)
FirmwareLost ==
    /\ Goes("T11", "fw", "idle") /\ Release("T11", "ERROR")
    /\ UNCHANGED <<bit, retry, flashVars>>

(* T16: the house is no longer quiet; the update waits. *)
BackOut ==
    /\ Goes("T16", "fwend", "idle") /\ Release("T16", "IDLE")
    /\ retry' = "soon"
    /\ UNCHANGED <<bit, flashVars>>

FirmwareEnd(t) ==
    /\ Goes(t, "fwend", "fwverify")
    /\ ost' = "FW_VERIFYING" /\ handle' = FALSE
    /\ UNCHANGED <<part, zip, timer, bit, clear, retry, flashVars>>

FirmwareVerified(t) ==
    /\ \/ /\ Goes(t, "fwverify", "fwtimer")
          /\ ost' = "FW_DONE" /\ inactive' = "whole" /\ UNCHANGED <<sessionVars, clear>>
       \/ Goes(t, "fwverify", "idle") /\ Release(t, "ERROR") /\ UNCHANGED inactive
    /\ UNCHANGED <<bit, retry, boot>>

(* The fallback is armed; T16 has the assets at hand, T11's are another      *)
(* request.                                                                  *)
FirmwareTimer(t) ==
    /\ Goes(t, "fwtimer", IF t = "T16" THEN "assets" ELSE "idle")
    /\ timer' = "armed"
    /\ UNCHANGED <<ost, handle, part, zip, bit, clear, retry, flashVars>>

-----------------------------------------------------------------------------
(* The assets, paired with a verified firmware or alone. *)

AssetsBegin(t) ==
    /\ Goes(t, IF t = "T11" THEN "idle" ELSE "assets", "zipsetup")
    /\ ost \in Free \cup {"FW_DONE"} /\ ost' = "BUFFERING"
    /\ part' = (part /\ ost = "FW_DONE")
    /\ UNCHANGED <<handle, zip, timer, bit, clear, retry, flashVars>>

AssetsSetup(t) ==
    /\ bit' = TRUE /\ UNCHANGED <<retry, flashVars>>
    /\ \/ /\ Goes(t, "zipsetup", "zip")
          /\ timer' = "off" /\ zip' = "part" /\ UNCHANGED <<ost, handle, part, clear>>
       \/ Goes(t, "zipsetup", "idle") /\ Release(t, "ERROR")

(* All of it is there, or too much, or T11's sender is gone. *)
AssetsFed(t) ==
    /\ \/ /\ Goes(t, "zip", "zipend")
          /\ zip' = "full" /\ UNCHANGED <<ost, handle, part, timer, clear>>
       \/ Goes(t, "zip", "idle") /\ Release(t, "ERROR")
    /\ UNCHANGED <<bit, retry, flashVars>>

(* T13 is spawned, or cannot be; T16's part ends. *)
AssetsEnd(t) ==
    /\ t \notin clear /\ pcO[t] = "zipend"
    /\ \/ /\ ost' = "ASSETS_WRITING"
          /\ pcO' = [pcO EXCEPT ![t] = "idle", !["T13"] = "extract"]
          /\ UNCHANGED <<handle, part, zip, timer, clear>>
       \/ /\ pcO' = [pcO EXCEPT ![t] = "idle"] /\ Release(t, "ERROR")
    /\ UNCHANGED <<bit, retry, flashVars>>

(* T16 finds its begin refused, or its session gone to another. *)
GivesUp ==
    /\ \/ Goes("T16", "apply", "idle") /\ ost \notin Free
       \/ Goes("T16", "assets", "idle") /\ ost \notin Free \cup {"FW_DONE"}
    /\ UNCHANGED <<ost, sessionVars, bit, clear, retry, flashVars>>

(* T13 writes the inactive file system, which it may have to format first.   *)
Extract ==
    /\ \/ Goes("T13", "extract", "install") /\ Refused
       \/ Goes("T13", "extract", "idle") /\ Release("T13", "ERROR")
    /\ UNCHANGED <<retry, bit, flashVars>>

(* With a firmware in the session the boot partition is switched; without,   *)
(* the assets are copied to the file system in use.                          *)
Install ==
    /\ UNCHANGED <<retry, bit, inactive>>
    /\ \/ /\ Goes("T13", "install", "reboot")
          /\ zip' = "none" /\ boot' = IF part THEN "other" ELSE boot
          /\ UNCHANGED <<ost, handle, part, timer, clear>>
       \/ Goes("T13", "install", "idle") /\ part /\ Release("T13", "ERROR") /\ UNCHANGED boot

-----------------------------------------------------------------------------
(* The fallback: nobody brought assets for 120 s. *)

TimerFires ==
    /\ timer = "armed" /\ timer' = "off"
    /\ Goes("fallback", "idle", "spawned")
    /\ UNCHANGED <<ost, handle, part, zip, bit, clear, retry, flashVars>>

(* Wrong: what the timer found is not looked at again. *)
WrongFallbackClaim ==
    /\ Goes("fallback", "spawned", "commit") /\ ost' = "REBOOTING"
    /\ UNCHANGED <<sessionVars, bit, clear, retry, flashVars>>

FallbackClaim ==
    /\ IF ost = "FW_DONE"
       THEN Goes("fallback", "spawned", "commit") /\ ost' = "REBOOTING"
       ELSE Goes("fallback", "spawned", "idle") /\ UNCHANGED ost
    /\ UNCHANGED <<sessionVars, bit, clear, retry, flashVars>>

FallbackCommit ==
    /\ UNCHANGED <<retry, bit, inactive>>
    /\ \/ /\ part /\ Goes("fallback", "commit", "reboot") /\ boot' = "other"
          /\ UNCHANGED <<ost, sessionVars, clear>>
       \/ Goes("fallback", "commit", "idle") /\ Release("fallback", "ERROR") /\ UNCHANGED boot

(* schedule_reboot() *)
Schedule(t) ==
    /\ Goes(t, "reboot", "idle") /\ ost' = "REBOOTING"
    /\ UNCHANGED <<sessionVars, bit, clear, retry, flashVars>>

(* The board comes up with what the boot partition says. *)
Restart ==
    /\ ost' = "IDLE" /\ handle' = FALSE /\ part' = FALSE /\ zip' = "none"
    /\ timer' = "off" /\ bit' = FALSE /\ clear' = {}
    /\ pcO' = [t \in Tasks |-> "idle"] /\ retry' = "regular"
    /\ boot' = "running" /\ inactive' = IF boot = "other" THEN "release" ELSE inactive

Reboots == ost = "REBOOTING" /\ pcO["fallback"] # "commit" /\ Restart
PowerFails == ost # "REBOOTING" /\ Restart

-----------------------------------------------------------------------------
(* T16 asks for an update: it is off, the clock is not set, another is being *)
(* installed, the server is not reached, or offers none that it may take.    *)
Answers == {"off", "early", "busy", "unreachable", "none"}

Check ==
    /\ Goes("T16", "idle", "idle")
    /\ \E a \in Answers :
          /\ a = "busy" => bit
          /\ retry' = IF a \in {"early", "unreachable"} THEN "backoff" ELSE "regular"
    /\ UNCHANGED <<ost, sessionVars, bit, clear, flashVars>>

(* One is offered, downloaded and verified. *)
Found ==
    /\ ~bit /\ retry' = "regular" /\ UNCHANGED <<ost, sessionVars, bit, clear, flashVars>>
    /\ Goes("T16", "idle", "gate")

(* It is not night, or the house is not quiet. *)
Defer ==
    /\ Goes("T16", "gate", "idle") /\ retry' = "soon"
    /\ UNCHANGED <<ost, sessionVars, bit, clear, flashVars>>

Quiet ==
    /\ Goes("T16", "gate", "apply")
    /\ UNCHANGED <<ost, sessionVars, bit, clear, retry, flashVars>>

-----------------------------------------------------------------------------
(* What T11 does with an upload; with a request for the assets. *)
FirmwarePost ==
    FirmwareSetup("T11") \/ FirmwareWrite("T11") \/ FirmwareLost \/ FirmwareEnd("T11")
        \/ FirmwareVerified("T11") \/ FirmwareTimer("T11")
AssetsPost == AssetsSetup("T11") \/ AssetsFed("T11") \/ AssetsEnd("T11")

(* T16, with the update in its hands. *)
Apply ==
    \/ FirmwareBegin("T16") \/ FirmwareSetup("T16") \/ FirmwareWrite("T16") \/ BackOut
    \/ FirmwareEnd("T16") \/ FirmwareVerified("T16") \/ FirmwareTimer("T16")
    \/ AssetsBegin("T16") \/ AssetsSetup("T16") \/ AssetsFed("T16") \/ AssetsEnd("T16")
    \/ GivesUp

AssetsTask == Extract \/ Install \/ Schedule("T13")
Fallback == FallbackClaim \/ FallbackCommit \/ Schedule("fallback")

OtaNext ==
    \/ FirmwareBegin("T11") \/ AssetsBegin("T11") \/ FirmwarePost \/ AssetsPost
    \/ Apply \/ AssetsTask \/ Fallback \/ \E t \in Tasks : ClearBit(t)
    \/ TimerFires \/ Reboots \/ PowerFails
    \/ Check \/ Found \/ Defer \/ Quiet

(* What a task has begun with the manager it goes on with. *)
OtaFairness ==
    /\ WF_otaVars(FirmwarePost \/ AssetsPost \/ ClearBit("T11"))
    /\ WF_otaVars(Apply \/ ClearBit("T16"))
    /\ WF_otaVars(AssetsTask \/ ClearBit("T13"))
    /\ WF_otaVars(Fallback \/ ClearBit("fallback"))
    /\ WF_otaVars(TimerFires) /\ WF_otaVars(Reboots)

OtaSpec == OtaInit /\ [][OtaNext]_otaVars /\ OtaFairness

-----------------------------------------------------------------------------
OtaTypeOK ==
    /\ ost \in Free \cup {"FW_WRITING", "FW_VERIFYING", "FW_DONE", "BUFFERING",
                          "ASSETS_WRITING", "REBOOTING"}
    /\ zip \in {"none", "part", "full"} /\ timer \in {"off", "armed"}
    /\ clear \subseteq Tasks /\ inactive \in {"release", "half", "whole"}
    /\ retry \in {"regular", "soon", "backoff"}

(* The boot partition is switched only to an image that was written whole    *)
(* and verified, whoever else begins, backs out or comes late; and a begin   *)
(* never finds a free state with the handle, the image or the buffer of the  *)
(* session before it still there (ota_manager.cpp, session_release()).       *)
ImagesAreSound ==
    /\ boot = "other" => inactive = "whole"
    /\ ost \in Free => ~handle /\ ~part /\ zip = "none"

(* No session holds the unit for ever, []<>SessionOver: it                   *)
(* installs or is released, and the next upload is accepted (ota_manager.h:  *)
(* only a reboot cleared it).                                                *)
SessionOver == ost \in Free
===============================================================================
