-------------------------------- MODULE Pins --------------------------------
(***************************************************************************)
(* The two PINs: their salt and hashes in the "access" namespace of NVS,   *)
(* made at boot, remade by the reset button on T8, changed by T11:         *)
(*   src/firmware/src/auth/pin_auth.cpp                                    *)
(*   src/firmware/src/ui_display/ui_display.cpp (the reset button)         *)
(*   src/firmware/src/web_server/web_server.cpp (/api/pin)                 *)
(*                                                                         *)
(* A hash is the salt it was made with and the PIN it is of.  The counters *)
(* of wrong PINs and the lockouts are left out.                            *)
(***************************************************************************)
EXTENDS Naturals

VARIABLES
    salt, ramSalt,  \* the stored one, s_salt; 0 for none
    hash,           \* the stored hashes
    known,          \* the PIN that each role was last told to use
    pcInit,         \* where pin_auth_init() is; "up" and "failed" are its results
    inited,         \* s_initialized
    pcSet,          \* T11: the hash it computed and has yet to store
    mixed           \* T11 computed one before or in a reset

pinVars == <<salt, ramSalt, hash, known, pcInit, inited, pcSet, mixed>>

Roles    == {"farmer", "admin"}
Salts    == 1 .. 4
NoHash   == [salt |-> 0, pin |-> "default"]
Hashes   == [salt : {0} \cup Salts, pin : {"default", "chosen"}]
NotSetting == [role |-> "farmer", hash |-> NoHash]

(* esp_fill_random(): none of those in use. *)
FreshSalt == CHOOSE s \in Salts :
    s \notin {salt, ramSalt, hash["farmer"].salt, hash["admin"].salt} \ {0} /\ s # pcSet.hash.salt

PinInit ==
    /\ salt = 0 /\ ramSalt = 0 /\ hash = [r \in Roles |-> NoHash]
    /\ known = [r \in Roles |-> "default"]
    /\ pcInit = "begin" /\ inited = FALSE
    /\ pcSet = NotSetting /\ mixed = FALSE

(* pin_auth_init(), at boot and at the end of a reset: the salt ...          *)
InitSalt ==
    /\ pcInit = "begin"
    /\ \/ /\ salt = 0 /\ ramSalt' = FreshSalt
          /\ \/ salt' = ramSalt' /\ pcInit' = "farmer"
             \/ salt' = salt /\ pcInit' = "failed"
       \/ /\ salt # 0 /\ ramSalt' = salt /\ UNCHANGED salt
          /\ pcInit' = IF hash["farmer"] = NoHash THEN "farmer" ELSE "up"
    /\ inited' = (inited \/ pcInit' = "up")
    /\ UNCHANGED <<hash, known, pcSet, mixed>>

(* ... and write_default_hashes(), one and then the other. *)
InitHash(r, next) ==
    /\ pcInit = r
    /\ \/ /\ hash' = [hash EXCEPT ![r] = [salt |-> ramSalt, pin |-> "default"]]
          /\ known' = [known EXCEPT ![r] = "default"]
          /\ pcInit' = next
       \/ pcInit' = "failed" /\ UNCHANGED <<hash, known>>
    /\ inited' = (inited \/ pcInit' = "up")
    /\ UNCHANGED <<salt, ramSalt, pcSet, mixed>>

(* The reset button: the namespace goes first; T8 runs pin_auth_init() while *)
(* T11 serves on.                                                            *)
ResetPins ==
    /\ pcInit \in {"up", "failed"}
    /\ salt' = 0 /\ hash' = [r \in Roles |-> NoHash]
    /\ known' = [r \in Roles |-> "default"]
    /\ pcInit' = "begin" /\ mixed' = (pcSet # NotSetting)
    /\ UNCHANGED <<ramSalt, inited, pcSet>>

(* pin_auth_set(): the hash is made with the salt in RAM ...                 *)
SetCompute ==
    /\ inited /\ pcSet = NotSetting
    /\ \E r \in Roles :
        pcSet' = [role |-> r, hash |-> [salt |-> ramSalt, pin |-> "chosen"]]
    /\ mixed' = (mixed \/ pcInit # "up")
    /\ UNCHANGED <<salt, ramSalt, hash, known, pcInit, inited>>

(* ... and stored, or not, which the web page is told. *)
SetStore ==
    /\ pcSet # NotSetting /\ pcSet' = NotSetting
    /\ \/ /\ hash' = [hash EXCEPT ![pcSet.role] = pcSet.hash]
          /\ known' = [known EXCEPT ![pcSet.role] = "chosen"]
       \/ UNCHANGED <<hash, known>>
    /\ UNCHANGED <<salt, ramSalt, pcInit, inited, mixed>>

(* The power fails; NVS and what was told stay. *)
PinsPowerFail ==
    /\ pcInit' = "begin" /\ pcSet' = NotSetting /\ ramSalt' = 0 /\ inited' = FALSE
    /\ UNCHANGED <<salt, hash, known, mixed>>

PinNext ==
    \/ InitSalt \/ InitHash("farmer", "admin") \/ InitHash("admin", "up")
    \/ ResetPins \/ SetCompute \/ SetStore \/ PinsPowerFail

PinSpec == PinInit /\ [][PinNext]_pinVars

-----------------------------------------------------------------------------
PinTypeOK ==
    /\ salt \in {0} \cup Salts /\ ramSalt \in {0} \cup Salts
    /\ hash \in [Roles -> Hashes] /\ known \in [Roles -> {"default", "chosen"}]
    /\ pcInit \in Roles \cup {"begin", "up", "failed"}
    /\ pcSet \in [role : Roles, hash : Hashes] /\ inited \in BOOLEAN /\ mixed \in BOOLEAN

(* Once pin_auth_init() has said that all is well the farmer gets in with    *)
(* the PIN they were told last, wherever the power failed before, but for a  *)
(* PIN that was on its way when the store was reset.                         *)
FarmerGetsIn ==
    pcInit = "up" /\ pcSet = NotSetting /\ ~mixed =>
        hash["farmer"] = [salt |-> ramSalt, pin |-> known["farmer"]]
===============================================================================
