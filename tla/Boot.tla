-------------------------------- MODULE Boot ---------------------------------
(***************************************************************************)
(* Start-up: app_main() brings up what the tasks stand on and starts them, *)
(* the boot is counted, and an image that never lives long enough to be    *)
(* called healthy is given up for the other bank:                          *)
(*   src/firmware/src/main.cpp                                             *)
(*   src/firmware/src/ota_manager/ota_manager.cpp  (rollback)              *)
(*   src/firmware/src/watchdog/watchdog.cpp        (T1)                    *)
(*                                                                         *)
(* A driver or a task that does not come up is logged and done without:    *)
(* what depends on that is T1, which marks the boot healthy, and Wi-Fi,    *)
(* so only their failures are told apart.  A bad image is one that crashes *)
(* between being counted and its 30th second: a crash before is not        *)
(* counted at all, one after is forgiven.  An NVS that will not open even  *)
(* when erased, and the LED's and rows of T1, are left out.                *)
(***************************************************************************)
EXTENDS Naturals

CONSTANTS
    BadBank,    \* the bank with the bad image
    MaxCuts     \* losses of power, of the NVS, and restarts asked for

BootAssumption == BadBank \in {"A", "B"} /\ MaxCuts \in Nat

VARIABLES
    stage,      \* what app_main() will do next
    begun,      \* what it has brought up, or tried to
    dead,       \* which of T1 and Wi-Fi did not come up
    bank, valid,        \* the running image; those the bootloader would take
    failCnt,    \* NVS system/ota_fail_cnt
    soft,       \* until it is asked: esp_reset_reason() is ESP_RST_SW
    plan,       \* NVS t15_planreboot, as an older firmware may have left it
    marked,     \* ota_healthy_marked
    short, cuts \* boots in a row that were cut short, up to 3; cuts so far

thisBoot == <<stage, begun, dead, soft, marked>>
bootVars == <<thisBoot, bank, valid, failCnt, plan, short, cuts>>

Units ==
    {"globals", "pins", "T1", "T7", "nvs", "check", "pinauth", "i2c", "lcd", "modbus", "rtc",
     "files", "card", "T4", "T9", "T5", "relays", "T2", "T6", "T3", "T8", "wifi", "T10",
     "T14", "T16", "T17", "T11", "beat"}

BootInit ==
    /\ stage = "globals" /\ begun = {} /\ dead = {} /\ soft = FALSE /\ marked = FALSE
    /\ bank \in {"A", "B"} /\ valid \in {{"A", "B"}, {bank}}
    /\ failCnt = 0 /\ plan \in BOOLEAN /\ short = 0 /\ cuts = 0

(* One step of app_main(); its failure is only logged. *)
Step(now, next) ==
    /\ stage = now /\ stage' = next /\ begun' = begun \cup {now}
    /\ UNCHANGED <<soft, marked, bank, valid, failCnt, plan, short>>

Begins(now, next) == Step(now, next) /\ UNCHANGED <<dead, cuts>>

MayFail(now, next) == Step(now, next) /\ dead' \in {dead, dead \cup {now}} /\ UNCHANGED cuts

-----------------------------------------------------------------------------
(* app_main(), in its order. *)

(* Without its queues and mutexes the board halts, and nothing restarts it.  *)
GlobalsUp == Begins("globals", "pins") \/ Begins("globals", "halt")

PinsUp == Begins("pins", "T1")

(* T1 is started before the settings are there; T7 too. *)
StartT1 == MayFail("T1", "T7")
StartT7 == Begins("T7", "nvs")

(* A store that is full, or that a newer firmware wrote, is erased, the      *)
(* count of boots and all.                                                   *)
NvsUp ==
    \/ Begins("nvs", "check")
    \/ /\ stage = "nvs" /\ stage' = "check" /\ begun' = begun \cup {"nvs"}
       /\ cuts < MaxCuts /\ cuts' = cuts + 1 /\ failCnt' = 0 /\ plan' = FALSE
       /\ UNCHANGED <<dead, soft, marked, bank, valid, short>>

PinAuthUp == Begins("pinauth", "i2c")

I2cUp    == Begins("i2c", "lcd")
LcdUp    == Begins("lcd", "modbus")
ModbusUp == Begins("modbus", "rtc")
RtcUp    == Begins("rtc", "files")

(* A file system that can be cured by formatting is.  The card is tried and  *)
(* let go again.                                                             *)
FilesUp == Begins("files", "card")
CardUp  == Begins("card", "T4")

StartT4 == Begins("T4", "T9")
StartT9 == Begins("T9", "T5")
StartT5 == Begins("T5", "relays")

(* The relays are driven low. *)
RelaysUp == Begins("relays", "T2")
StartT2  == Begins("T2", "T6")

StartT6 == Begins("T6", "T3")
StartT3 == Begins("T3", "T8")
StartT8 == Begins("T8", "wifi")

(* The stack, not the network. *)
WifiUp == MayFail("wifi", "T10")

StartT10 == Begins("T10", "T14")
StartT14 == Begins("T14", "T16")
StartT16 == Begins("T16", "T17")
StartT17 == Begins("T17", "T11")

(* T11 only where there is a Wi-Fi to be had. *)
StartWeb ==
    \/ "wifi" \notin dead /\ Begins("T11", "beat")
    \/ /\ "wifi" \in dead /\ stage = "T11" /\ stage' = "beat"
       /\ UNCHANGED <<begun, dead, soft, marked, bank, valid, failCnt, plan, short, cuts>>

StartHeartbeat == Begins("beat", "done")

-----------------------------------------------------------------------------
FromTheTop == stage' = "globals" /\ begun' = {} /\ dead' = {} /\ marked' = FALSE

(* ota_check_rollback(): counted, exempt, or given up for the other bank if  *)
(* there is one.                                                             *)
CheckRollback ==
    LET exempt == soft /\ plan
        spent  == failCnt >= 3 /\ ~exempt
    IN  /\ stage = "check" /\ UNCHANGED <<plan, cuts>>
        /\ failCnt' = IF exempt THEN failCnt ELSE IF spent THEN 0 ELSE failCnt + 1
        /\ \/ /\ spent /\ valid # {bank}
              /\ bank' \in valid \ {bank} /\ valid' = {bank'}
              /\ FromTheTop /\ soft' = TRUE /\ short' = 0
           \/ /\ ~(spent /\ valid # {bank})
              /\ stage' = "pinauth" /\ begun' = begun \cup {"check"} /\ soft' = FALSE
              /\ UNCHANGED <<dead, marked, bank, valid, short>>

Counted == "check" \in begun

(* T1's 30 s are over, ota_mark_healthy().  The count comes well before.     *)
MarkHealthy ==
    /\ Counted /\ ~marked /\ "T1" \notin dead /\ bank # BadBank
    /\ marked' = TRUE /\ failCnt' = 0
    /\ UNCHANGED <<stage, begun, dead, bank, valid, plan, soft, short, cuts>>

CutShort ==
    /\ FromTheTop /\ short' = IF marked THEN 0 ELSE IF short < 3 THEN short + 1 ELSE short
    /\ UNCHANGED <<bank, valid, failCnt, plan>>

(* The bad image crashes. *)
Crash == Counted /\ bank = BadBank /\ CutShort /\ soft' = FALSE /\ UNCHANGED cuts

(* The power fails, or somebody restarts the board. *)
Cut == cuts < MaxCuts /\ cuts' = cuts + 1 /\ CutShort /\ soft' \in BOOLEAN

AppMain ==
    \/ GlobalsUp \/ PinsUp \/ StartT1 \/ StartT7 \/ NvsUp \/ CheckRollback \/ PinAuthUp
    \/ I2cUp \/ LcdUp \/ ModbusUp \/ RtcUp \/ FilesUp \/ CardUp
    \/ StartT4 \/ StartT9 \/ StartT5 \/ RelaysUp \/ StartT2 \/ StartT6 \/ StartT3 \/ StartT8
    \/ WifiUp \/ StartT10 \/ StartT14 \/ StartT16 \/ StartT17 \/ StartWeb \/ StartHeartbeat

BootNext == AppMain \/ MarkHealthy \/ Crash \/ Cut

(* app_main() goes on; what is bad crashes sooner or later. *)
BootSpec == BootInit /\ [][BootNext]_bootVars /\ WF_bootVars(AppMain) /\ WF_bootVars(Crash)

-----------------------------------------------------------------------------
(* The type, and how the count and the boots cut short go together.          *)
BootTypeOK ==
    /\ stage \in Units \cup {"halt", "done"} /\ begun \subseteq Units
    /\ dead \subseteq begun \cap {"T1", "wifi"}
    /\ bank \in valid /\ failCnt \in 0..3 /\ failCnt <= short + 1

(* What a unit reads, drives or posts to from its first step on, and what    *)
(* may only be touched before it.                                            *)
Needs(u) ==
    CASE u = "T7"              -> {"pins"}
      [] u \in {"check", "pinauth"} -> {"nvs"}
      [] u \in {"lcd", "rtc"}  -> {"i2c"}
      [] u = "files"           -> {"check"}         \* the bank that stays
      [] u = "T4"              -> {"nvs", "rtc"}
      [] u = "T9"              -> {"card"}          \* whose try unmounts the card
      [] u = "T5"              -> {"modbus", "T4"}
      [] u = "T2"              -> {"nvs", "relays"}
      [] u \in {"T3", "T6"}    -> {"T2", "T4"}
      [] u = "T8"              -> {"lcd", "pinauth", "T4"}
      [] u \in {"T10", "T14", "T16"} -> {"wifi", "T4"}
      [] u = "T17"             -> {"T2", "T4", "T5"}
      [] u = "T11"             -> {"wifi", "files", "pinauth", "T4"}
      [] OTHER                 -> {}

(* No task is let loose before what it stands on, all have their queues, and *)
(* the web server never meets a Wi-Fi that is not there.                     *)
StartsInOrder ==
    /\ \A u \in begun : Needs(u) \subseteq begun
    /\ begun # {} => "globals" \in begun
    /\ "T11" \in begun => "wifi" \notin dead

(* An image that always crashes early is left for the other one, whatever    *)
(* flag an older firmware left behind, unless the board halts for want of    *)
(* memory: BadImageRuns ~> BadImageIsLeft.                                   *)
BadImageRuns   == bank = BadBank /\ valid # {bank}
BadImageIsLeft == bank # BadBank \/ stage = "halt"

(* No image is given up but after three boots in a row that were cut short.  *)
GoodImageStays == [][bank' # bank => short >= 3]_bank
===============================================================================
