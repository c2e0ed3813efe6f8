---------------------------- MODULE UpdateProofs -----------------------------
(* What TLAPS proves of the updates, the settings and the start of the       *)
(* program, of every behaviour of the services.                              *)
EXTENDS ServicesMC, SequenceTheorems, TLAPS

(* Where the behaviour steps, each service takes a step of its own or stands *)
(* still.                                                                    *)
LEMMA UnitSteps ==
    ASSUME [Next]_vars
    PROVE  /\ [Ot!OtaNext]_otaVars /\ [Lo!LogNext]_logVars /\ [Lr!RowsNext]_rowVars
           /\ [Pa!PanelNext]_panelVars /\ [Ke!TapNext]_tapVars /\ [Co!CfgNext]_cfgVars
           /\ [Pi!PinNext]_pinVars /\ [Bo!BootNext]_bootVars
  BY DEF Next, UnitNext, WorldNext, vars, unitVars, worldVars

LEMMA WorldSteps ==
    ASSUME [Next]_vars
    PROVE  /\ [St!StaNext]_staVars /\ [Ap!ApNext]_apVars /\ [Se!SenseNext]_senseVars
           /\ [Bu!BusNext]_busVars /\ [La!LawNext]_lawVars /\ [Ws!SessionNext]_sessionVars
           /\ [Cl!ClockNext]_clockVars
  BY DEF Next, UnitNext, WorldNext, vars, unitVars, worldVars

-----------------------------------------------------------------------------
(* The updates (Ota). *)

FwPcs     == {"fwsetup", "fw", "fwend"}
ZipPcs    == {"zipsetup", "zip", "zipend"}
HolderPcs == FwPcs \cup {"fwverify"} \cup ZipPcs

Places == DOMAIN pcO = Ot!Tasks

(* Where a task is says which state the session is in, and one sender at     *)
(* most is at a place that holds the session.                                *)
Follows(place) ==
    /\ place \in FwPcs => ost = "FW_WRITING"
    /\ place = "fwverify" => ost = "FW_VERIFYING"
    /\ place \in ZipPcs => ost = "BUFFERING"

StateFollows ==
    /\ Follows(pcO["T11"]) /\ Follows(pcO["T16"])
    /\ pcO["T13"] # "idle" => ost = "ASSETS_WRITING"
    /\ pcO["fallback"] \in {"commit", "reboot"} => ost = "REBOOTING"

OneHolder == pcO["T11"] \notin HolderPcs \/ pcO["T16"] \notin HolderPcs

(* What is open, set and buffered in which state. *)
SessionSound ==
    /\ handle = TRUE => ost = "FW_WRITING"
    /\ part = TRUE => ost \notin Ot!Free
    /\ zip # "none" => ost \in {"BUFFERING", "ASSETS_WRITING", "REBOOTING"}
    /\ part = TRUE /\ ost \notin {"FW_WRITING", "FW_VERIFYING"} => inactive = "whole"

(* A switched boot partition is on its way to the restart, with none to undo *)
(* what it points at.                                                        *)
BootSound ==
    boot = "other" =>
        /\ inactive = "whole"
        /\ \/ ost = "REBOOTING" /\ pcO["fallback"] # "commit"
           \/ ost = "ASSETS_WRITING" /\ pcO["T13"] = "reboot"

OtaInv ==
    /\ Places /\ StateFollows /\ OneHolder /\ SessionSound /\ BootSound
    /\ handle \in BOOLEAN /\ part \in BOOLEAN

-----------------------------------------------------------------------------
(* A task that goes from one place to another leaves the others where they   *)
(* are.                                                                      *)
LEMMA Going ==
    ASSUME Places, NEW t \in Ot!Tasks, NEW from, NEW to, Ot!Goes(t, from, to)
    PROVE  /\ pcO[t] = from /\ DOMAIN pcO' = Ot!Tasks
           /\ pcO'["T11"] = IF t = "T11" THEN to ELSE pcO["T11"]
           /\ pcO'["T16"] = IF t = "T16" THEN to ELSE pcO["T16"]
           /\ pcO'["T13"] = IF t = "T13" THEN to ELSE pcO["T13"]
           /\ pcO'["fallback"] = IF t = "fallback" THEN to ELSE pcO["fallback"]
  BY DEF Places, Ot!Goes, Ot!Tasks, Ot!Senders

(* t is at a place that holds the session. *)
Holding(t) ==
    \/ t \in Ot!Senders /\ pcO[t] \in HolderPcs
    \/ t = "T13" /\ pcO[t] # "idle"
    \/ t = "fallback" /\ pcO[t] \in {"commit", "reboot"}

(* The state is one for t to be at that place. *)
Fits(t, place) ==
    /\ t \in Ot!Senders => Follows(place)
    /\ t = "T13" /\ place # "idle" => ost = "ASSETS_WRITING"
    /\ t = "fallback" /\ place \in {"commit", "reboot"} => ost = "REBOOTING"

(* With nobody else at such a place it may change the state with its own.    *)
LEMMA AloneMoves ==
    ASSUME OtaInv, NEW t \in Ot!Tasks, NEW from, NEW to, Ot!Goes(t, from, to),
           \A u \in Ot!Tasks : u # t => ~Holding(u), Fits(t, to)'
    PROVE  Places' /\ StateFollows' /\ OneHolder'
  <1>1. /\ DOMAIN pcO' = Ot!Tasks
        /\ pcO'["T11"] = IF t = "T11" THEN to ELSE pcO["T11"]
        /\ pcO'["T16"] = IF t = "T16" THEN to ELSE pcO["T16"]
        /\ pcO'["T13"] = IF t = "T13" THEN to ELSE pcO["T13"]
        /\ pcO'["fallback"] = IF t = "fallback" THEN to ELSE pcO["fallback"]
    BY Going DEF OtaInv
  <1>2. /\ t # "T11" => pcO["T11"] \notin HolderPcs
        /\ t # "T16" => pcO["T16"] \notin HolderPcs
        /\ t # "T13" => pcO["T13"] = "idle"
        /\ t # "fallback" => pcO["fallback"] \notin {"commit", "reboot"}
    BY DEF Holding, Ot!Tasks, Ot!Senders
  <1>3. StateFollows'
    BY <1>1, <1>2 DEF Fits, StateFollows, Follows, HolderPcs, FwPcs, ZipPcs, Ot!Senders
  <1>4. OneHolder'
    BY <1>1, <1>2 DEF OneHolder
  <1> QED  BY <1>1, <1>3, <1>4 DEF Places

LEMMA Alone ==
    ASSUME OtaInv, NEW t \in Ot!Tasks, Holding(t), NEW u \in Ot!Tasks, u # t
    PROVE  ~Holding(u)
  BY DEF OtaInv, Holding, StateFollows, Follows, OneHolder, HolderPcs, FwPcs, ZipPcs,
         Ot!Senders, Ot!Tasks

LEMMA HolderMoves ==
    ASSUME OtaInv, NEW t \in Ot!Tasks, NEW from, NEW to, Ot!Goes(t, from, to),
           Holding(t), Fits(t, to)'
    PROVE  Places' /\ StateFollows' /\ OneHolder'
  BY Alone, AloneMoves

(* In a state that is free for the next, nobody is at such a place.          *)
LEMMA NobodyHolds ==
    ASSUME OtaInv, ost \in Ot!Free \cup {"FW_DONE"}
    PROVE  boot # "other" /\ \A u \in Ot!Tasks : ~Holding(u)
  BY DEF OtaInv, BootSound, Holding, StateFollows, Follows, HolderPcs, FwPcs, ZipPcs,
         Ot!Senders, Ot!Tasks, Ot!Free

(* One that does not hold the session goes its way. *)
LEMMA Wanders ==
    ASSUME OtaInv, NEW t \in Ot!Tasks, NEW from, NEW to, Ot!Goes(t, from, to), t # "T13",
           to \notin HolderPcs \cup {"commit", "reboot"},
           UNCHANGED <<ost, handle, part, zip, inactive, boot>>
    PROVE  OtaInv'
  <1>1. /\ DOMAIN pcO' = Ot!Tasks
        /\ pcO'["T11"] \in {pcO["T11"], to} /\ pcO'["T16"] \in {pcO["T16"], to}
        /\ pcO'["T13"] = pcO["T13"] /\ pcO'["fallback"] \in {pcO["fallback"], to}
    BY Going DEF OtaInv
  <1>2. StateFollows'
    BY <1>1 DEF OtaInv, StateFollows, Follows, HolderPcs, FwPcs, ZipPcs
  <1>3. OneHolder'
    BY <1>1 DEF OtaInv, OneHolder
  <1>4. SessionSound'
    BY DEF OtaInv, SessionSound, Ot!Free
  <1>5. BootSound'
    BY <1>1 DEF OtaInv, BootSound
  <1> QED  BY <1>1, <1>2, <1>3, <1>4, <1>5 DEF OtaInv, Places

(* It may let it go: what is open is closed, and nothing was switched yet.   *)
LEMMA HolderReleases ==
    ASSUME OtaInv, NEW t \in Ot!Tasks, NEW from, NEW end \in Ot!Free, Ot!Goes(t, from, "idle"),
           Ot!Release(t, end), Holding(t), boot' = boot, boot # "other"
    PROVE  OtaInv'
  <1>1. ost' = end /\ handle' = FALSE /\ part' = FALSE /\ zip' = "none"
    BY DEF Ot!Release
  <1>2. Fits(t, "idle")'
    BY DEF Fits, Follows, FwPcs, ZipPcs
  <1>3. Places' /\ StateFollows' /\ OneHolder'
    BY <1>2, HolderMoves
  <1>4. SessionSound' /\ BootSound'
    BY <1>1 DEF SessionSound, BootSound
  <1> QED  BY <1>1, <1>3, <1>4 DEF OtaInv

(* An image on its way to the boot partition is not touched by a sender.     *)
LEMMA SenderBeforeSwitch ==
    ASSUME OtaInv, NEW t \in Ot!Senders, pcO[t] \in HolderPcs
    PROVE  boot # "other" /\ Holding(t) /\ t \in Ot!Tasks /\ Follows(pcO[t])
  BY DEF OtaInv, BootSound, StateFollows, Follows, Holding, FwPcs, ZipPcs, HolderPcs,
         Ot!Senders, Ot!Tasks

LEMMA FirmwareBeginStep ==
    ASSUME OtaInv, NEW t \in Ot!Senders, Ot!FirmwareBegin(t)
    PROVE  OtaInv'
  <1>1. /\ ost \in Ot!Free \cup {"FW_DONE"} /\ ost' = "FW_WRITING" /\ t \in Ot!Tasks
        /\ Ot!Goes(t, IF t = "T11" THEN "idle" ELSE "apply", "fwsetup")
        /\ handle' = handle /\ zip' = zip /\ inactive' = inactive /\ boot' = boot
    BY DEF Ot!FirmwareBegin, Ot!sessionVars, Ot!flashVars, Ot!Tasks
  <1>2. boot # "other" /\ \A u \in Ot!Tasks : ~Holding(u)
    BY <1>1, NobodyHolds
  <1>3. Fits(t, "fwsetup")'
    BY <1>1 DEF Fits, Follows, FwPcs, ZipPcs, Ot!Senders
  <1>4. Places' /\ StateFollows' /\ OneHolder'
    BY <1>1, <1>2, <1>3, AloneMoves
  <1>5. part' = part
    BY DEF Ot!FirmwareBegin, OtaInv, SessionSound, Ot!sessionVars
  <1>6. handle' \in BOOLEAN /\ part' \in BOOLEAN
    BY <1>1, <1>5 DEF OtaInv
  <1>7. SessionSound' /\ BootSound'
    BY <1>1, <1>2, <1>5 DEF OtaInv, SessionSound, BootSound, Ot!Free
  <1> QED  BY <1>4, <1>6, <1>7 DEF OtaInv

LEMMA FirmwareSetupStep ==
    ASSUME OtaInv, NEW t \in Ot!Senders, Ot!FirmwareSetup(t)
    PROVE  OtaInv'
  <1>1. pcO[t] = "fwsetup"
    BY DEF Ot!FirmwareSetup, Ot!Goes
  <1>2. boot # "other" /\ Holding(t) /\ t \in Ot!Tasks /\ ost = "FW_WRITING" /\ boot' = boot
    BY <1>1, SenderBeforeSwitch
       DEF Follows, FwPcs, ZipPcs, HolderPcs, Ot!FirmwareSetup, Ot!flashVars
  <1>3. CASE Ot!Goes(t, "fwsetup", "fw") /\ handle' = TRUE /\ part' = TRUE /\ ost' = ost
             /\ zip' = zip
    <2>1. handle' = TRUE /\ part' = TRUE /\ ost' = "FW_WRITING" /\ zip' = zip
      BY <1>2, <1>3 DEF Ot!FirmwareSetup, Ot!Refused, Ot!sessionVars, Ot!flashVars
    <2>2. Fits(t, "fw")'
      BY <2>1 DEF Fits, Follows, FwPcs, ZipPcs, Ot!Senders
    <2>3. Places' /\ StateFollows' /\ OneHolder'
      BY <1>2, <1>3, <2>2, HolderMoves
    <2>4. SessionSound' /\ BootSound'
      BY <1>2, <2>1 DEF OtaInv, SessionSound, BootSound, Ot!Free
    <2> QED  BY <2>1, <2>3, <2>4 DEF OtaInv
  <1>4. CASE Ot!Goes(t, "fwsetup", "idle") /\ Ot!Release(t, "ERROR")
    BY <1>2, <1>4, HolderReleases DEF Ot!Free
  <1> QED  BY <1>3, <1>4 DEF Ot!FirmwareSetup

LEMMA FirmwareWriteStep ==
    ASSUME OtaInv, NEW t \in Ot!Senders, Ot!FirmwareWrite(t)
    PROVE  OtaInv'
  <1>1. pcO[t] = "fw"
    BY DEF Ot!FirmwareWrite, Ot!Goes
  <1>2. boot # "other" /\ Holding(t) /\ t \in Ot!Tasks /\ ost = "FW_WRITING" /\ boot' = boot
    BY <1>1, SenderBeforeSwitch
       DEF Follows, FwPcs, ZipPcs, HolderPcs, Ot!FirmwareWrite, Ot!flashVars
  <1>3. CASE Ot!Goes(t, "fw", "fwend") /\ Ot!Refused
    <2>1. ost' = "FW_WRITING" /\ handle' = handle /\ part' = part /\ zip' = zip
          /\ inactive' = inactive
      BY <1>2, <1>3 DEF Ot!FirmwareWrite, Ot!Refused, Ot!sessionVars, Ot!flashVars
    <2>2. Fits(t, "fwend")'
      BY <2>1 DEF Fits, Follows, FwPcs, ZipPcs, Ot!Senders
    <2>3. Places' /\ StateFollows' /\ OneHolder'
      BY <1>2, <1>3, <2>2, HolderMoves
    <2>4. SessionSound' /\ BootSound'
      BY <1>2, <2>1 DEF OtaInv, SessionSound, BootSound, Ot!Free
    <2> QED  BY <2>1, <2>3, <2>4 DEF OtaInv
  <1>4. CASE Ot!Goes(t, "fw", "idle") /\ Ot!Release(t, "ERROR")
    BY <1>2, <1>4, HolderReleases DEF Ot!Free
  <1> QED  BY <1>3, <1>4 DEF Ot!FirmwareWrite

LEMMA FirmwareLostStep ==
    ASSUME OtaInv, Ot!FirmwareLost
    PROVE  OtaInv'
  <1>1. pcO["T11"] = "fw" /\ boot' = boot
    BY DEF Ot!FirmwareLost, Ot!Goes, Ot!flashVars
  <1>2. boot # "other" /\ Holding("T11") /\ "T11" \in Ot!Tasks
    BY <1>1, SenderBeforeSwitch DEF HolderPcs, FwPcs, Ot!Senders
  <1> QED  BY <1>1, <1>2, HolderReleases DEF Ot!FirmwareLost, Ot!Free

LEMMA BackOutStep ==
    ASSUME OtaInv, Ot!BackOut
    PROVE  OtaInv'
  <1>1. pcO["T16"] = "fwend" /\ boot' = boot
    BY DEF Ot!BackOut, Ot!Goes, Ot!flashVars
  <1>2. boot # "other" /\ Holding("T16") /\ "T16" \in Ot!Tasks
    BY <1>1, SenderBeforeSwitch DEF HolderPcs, FwPcs, Ot!Senders
  <1> QED  BY <1>1, <1>2, HolderReleases DEF Ot!BackOut, Ot!Free

LEMMA FirmwareEndStep ==
    ASSUME OtaInv, NEW t \in Ot!Senders, Ot!FirmwareEnd(t)
    PROVE  OtaInv'
  <1>1. pcO[t] = "fwend"
    BY DEF Ot!FirmwareEnd, Ot!Goes
  <1>2. boot # "other" /\ Holding(t) /\ t \in Ot!Tasks /\ ost = "FW_WRITING" /\ boot' = boot
    BY <1>1, SenderBeforeSwitch
       DEF Follows, FwPcs, ZipPcs, HolderPcs, Ot!FirmwareEnd, Ot!flashVars
  <1>3. CASE Ot!Goes(t, "fwend", "fwverify") /\ ost' = "FW_VERIFYING"
    <2>1. /\ ost' = "FW_VERIFYING" /\ handle' = FALSE /\ part' = part /\ zip' = zip
          /\ inactive' = inactive
      BY <1>2, <1>3 DEF Ot!FirmwareEnd, Ot!Refused, Ot!sessionVars, Ot!flashVars
    <2>2. Fits(t, "fwverify")'
      BY <2>1 DEF Fits, Follows, FwPcs, ZipPcs, Ot!Senders
    <2>3. Places' /\ StateFollows' /\ OneHolder'
      BY <1>2, <1>3, <2>2, HolderMoves
    <2>4. SessionSound' /\ BootSound'
      BY <1>2, <2>1 DEF OtaInv, SessionSound, BootSound, Ot!Free
    <2> QED  BY <2>1, <2>3, <2>4 DEF OtaInv
  <1> QED  BY <1>3 DEF Ot!FirmwareEnd

LEMMA FirmwareVerifiedStep ==
    ASSUME OtaInv, NEW t \in Ot!Senders, Ot!FirmwareVerified(t)
    PROVE  OtaInv'
  <1>1. pcO[t] = "fwverify"
    BY DEF Ot!FirmwareVerified, Ot!Goes
  <1>2. boot # "other" /\ Holding(t) /\ t \in Ot!Tasks /\ ost = "FW_VERIFYING" /\ boot' = boot
    BY <1>1, SenderBeforeSwitch
       DEF Follows, FwPcs, ZipPcs, HolderPcs, Ot!FirmwareVerified, Ot!flashVars
  <1>3. CASE /\ Ot!Goes(t, "fwverify", "fwtimer") /\ ost' = "FW_DONE"
             /\ inactive' = "whole" /\ UNCHANGED Ot!sessionVars
    <2>1. /\ ost' = "FW_DONE" /\ handle' = handle /\ part' = part /\ zip' = zip
          /\ inactive' = "whole"
      BY <1>2, <1>3 DEF Ot!FirmwareVerified, Ot!Refused, Ot!sessionVars, Ot!flashVars
    <2>2. Fits(t, "fwtimer")'
      BY <2>1 DEF Fits, Follows, FwPcs, ZipPcs, Ot!Senders
    <2>3. Places' /\ StateFollows' /\ OneHolder'
      BY <1>2, <1>3, <2>2, HolderMoves
    <2>4. SessionSound' /\ BootSound'
      BY <1>2, <2>1 DEF OtaInv, SessionSound, BootSound, Ot!Free
    <2> QED  BY <2>1, <2>3, <2>4 DEF OtaInv
  <1>4. CASE Ot!Goes(t, "fwverify", "idle") /\ Ot!Release(t, "ERROR")
    BY <1>2, <1>4, HolderReleases DEF Ot!Free
  <1> QED  BY <1>3, <1>4 DEF Ot!FirmwareVerified

LEMMA FirmwareTimerStep ==
    ASSUME OtaInv, NEW t \in Ot!Senders, Ot!FirmwareTimer(t)
    PROVE  OtaInv'
  BY Wanders
     DEF Ot!FirmwareTimer, Ot!sessionVars, Ot!flashVars, Ot!Tasks, Ot!Senders, HolderPcs,
         FwPcs, ZipPcs

LEMMA AssetsBeginStep ==
    ASSUME OtaInv, NEW t \in Ot!Senders, Ot!AssetsBegin(t)
    PROVE  OtaInv'
  <1>1. /\ ost \in Ot!Free \cup {"FW_DONE"} /\ ost' = "BUFFERING" /\ t \in Ot!Tasks
        /\ Ot!Goes(t, IF t = "T11" THEN "idle" ELSE "assets", "zipsetup")
        /\ handle' = handle /\ zip' = zip /\ inactive' = inactive /\ boot' = boot
    BY DEF Ot!AssetsBegin, Ot!sessionVars, Ot!flashVars, Ot!Tasks
  <1>2. boot # "other" /\ \A u \in Ot!Tasks : ~Holding(u)
    BY <1>1, NobodyHolds
  <1>3. Fits(t, "zipsetup")'
    BY <1>1 DEF Fits, Follows, FwPcs, ZipPcs, Ot!Senders
  <1>4. Places' /\ StateFollows' /\ OneHolder'
    BY <1>1, <1>2, <1>3, AloneMoves
  <1>5. part' \in BOOLEAN /\ (part' = TRUE => part = TRUE /\ ost = "FW_DONE")
    BY DEF Ot!AssetsBegin, OtaInv, SessionSound, Ot!sessionVars
  <1>6. handle' \in BOOLEAN /\ part' \in BOOLEAN
    BY <1>1, <1>5 DEF OtaInv
  <1>7. SessionSound' /\ BootSound'
    BY <1>1, <1>2, <1>5 DEF OtaInv, SessionSound, BootSound, Ot!Free
  <1> QED  BY <1>4, <1>6, <1>7 DEF OtaInv

LEMMA AssetsSetupStep ==
    ASSUME OtaInv, NEW t \in Ot!Senders, Ot!AssetsSetup(t)
    PROVE  OtaInv'
  <1>1. pcO[t] = "zipsetup"
    BY DEF Ot!AssetsSetup, Ot!Goes
  <1>2. boot # "other" /\ Holding(t) /\ t \in Ot!Tasks /\ ost = "BUFFERING" /\ boot' = boot
    BY <1>1, SenderBeforeSwitch
       DEF Follows, FwPcs, ZipPcs, HolderPcs, Ot!AssetsSetup, Ot!flashVars
  <1>3. CASE Ot!Goes(t, "zipsetup", "zip") /\ zip' = "part" /\ UNCHANGED <<ost, handle, part>>
    <2>1. /\ ost' = "BUFFERING" /\ handle' = handle /\ part' = part /\ zip' = "part"
          /\ inactive' = inactive
      BY <1>2, <1>3 DEF Ot!AssetsSetup, Ot!Refused, Ot!sessionVars, Ot!flashVars
    <2>2. Fits(t, "zip")'
      BY <2>1 DEF Fits, Follows, FwPcs, ZipPcs, Ot!Senders
    <2>3. Places' /\ StateFollows' /\ OneHolder'
      BY <1>2, <1>3, <2>2, HolderMoves
    <2>4. SessionSound' /\ BootSound'
      BY <1>2, <2>1 DEF OtaInv, SessionSound, BootSound, Ot!Free
    <2> QED  BY <2>1, <2>3, <2>4 DEF OtaInv
  <1>4. CASE Ot!Goes(t, "zipsetup", "idle") /\ Ot!Release(t, "ERROR")
    BY <1>2, <1>4, HolderReleases DEF Ot!Free
  <1> QED  BY <1>3, <1>4 DEF Ot!AssetsSetup

LEMMA AssetsFedStep ==
    ASSUME OtaInv, NEW t \in Ot!Senders, Ot!AssetsFed(t)
    PROVE  OtaInv'
  <1>1. pcO[t] = "zip"
    BY DEF Ot!AssetsFed, Ot!Goes
  <1>2. boot # "other" /\ Holding(t) /\ t \in Ot!Tasks /\ ost = "BUFFERING" /\ boot' = boot
    BY <1>1, SenderBeforeSwitch
       DEF Follows, FwPcs, ZipPcs, HolderPcs, Ot!AssetsFed, Ot!flashVars
  <1>3. CASE Ot!Goes(t, "zip", "zipend") /\ zip' = "full" /\ UNCHANGED <<ost, handle, part>>
    <2>1. /\ ost' = "BUFFERING" /\ handle' = handle /\ part' = part /\ zip' = "full"
          /\ inactive' = inactive
      BY <1>2, <1>3 DEF Ot!AssetsFed, Ot!Refused, Ot!sessionVars, Ot!flashVars
    <2>2. Fits(t, "zipend")'
      BY <2>1 DEF Fits, Follows, FwPcs, ZipPcs, Ot!Senders
    <2>3. Places' /\ StateFollows' /\ OneHolder'
      BY <1>2, <1>3, <2>2, HolderMoves
    <2>4. SessionSound' /\ BootSound'
      BY <1>2, <2>1 DEF OtaInv, SessionSound, BootSound, Ot!Free
    <2> QED  BY <2>1, <2>3, <2>4 DEF OtaInv
  <1>4. CASE Ot!Goes(t, "zip", "idle") /\ Ot!Release(t, "ERROR")
    BY <1>2, <1>4, HolderReleases DEF Ot!Free
  <1> QED  BY <1>3, <1>4 DEF Ot!AssetsFed

LEMMA AssetsEndStep ==
    ASSUME OtaInv, NEW t \in Ot!Senders, Ot!AssetsEnd(t)
    PROVE  OtaInv'
  <1>1. pcO[t] = "zipend" /\ t \notin clear
    BY DEF Ot!AssetsEnd
  <1>2. boot # "other" /\ Holding(t) /\ t \in Ot!Tasks /\ ost = "BUFFERING"
        /\ boot' = boot /\ inactive' = inactive
    BY <1>1, SenderBeforeSwitch
       DEF Follows, FwPcs, ZipPcs, HolderPcs, Ot!AssetsEnd, Ot!flashVars
  <1>3. CASE /\ ost' = "ASSETS_WRITING" /\ UNCHANGED <<handle, part, zip>>
             /\ pcO' = [pcO EXCEPT ![t] = "idle", !["T13"] = "extract"]
    <2>1. Places' /\ StateFollows' /\ OneHolder'
      BY <1>1, <1>2, <1>3 DEF OtaInv, Places, StateFollows, Follows, OneHolder,
                              FwPcs, ZipPcs, HolderPcs, Ot!Senders, Ot!Tasks
    <2>2. SessionSound' /\ BootSound'
      BY <1>2, <1>3 DEF OtaInv, SessionSound, BootSound, Ot!Free
    <2> QED  BY <1>3, <2>1, <2>2 DEF OtaInv
  <1>4. CASE pcO' = [pcO EXCEPT ![t] = "idle"] /\ Ot!Release(t, "ERROR")
    <2>1. Ot!Goes(t, "zipend", "idle")
      BY <1>1, <1>4 DEF Ot!Goes
    <2> QED  BY <1>2, <1>4, <2>1, HolderReleases DEF Ot!Free
  <1> QED  BY <1>3, <1>4 DEF Ot!AssetsEnd

LEMMA GivesUpStep ==
    ASSUME OtaInv, Ot!GivesUp
    PROVE  OtaInv'
  BY Wanders
     DEF Ot!GivesUp, Ot!sessionVars, Ot!flashVars, Ot!Tasks, Ot!Senders, HolderPcs, FwPcs,
         ZipPcs

(* T13 and the fallback, up to the switch, which needs an image in the        *)
(* session.                                                                  *)
LEMMA ExtractStep ==
    ASSUME OtaInv, Ot!Extract
    PROVE  OtaInv'
  <1>1. pcO["T13"] = "extract"
    BY DEF Ot!Extract, Ot!Goes
  <1>2. boot # "other" /\ Holding("T13") /\ "T13" \in Ot!Tasks /\ ost = "ASSETS_WRITING"
        /\ inactive' = inactive
    BY <1>1 DEF OtaInv, StateFollows, BootSound, Holding, Ot!Tasks, Ot!Extract, Ot!flashVars
  <1>3. CASE Ot!Goes("T13", "extract", "install") /\ Ot!Refused /\ boot' = boot
    <2>1. /\ ost' = "ASSETS_WRITING" /\ handle' = handle /\ part' = part /\ zip' = zip
          /\ inactive' = inactive /\ boot' = boot
      BY <1>2, <1>3 DEF Ot!Extract, Ot!Refused, Ot!sessionVars, Ot!flashVars
    <2>2. Fits("T13", "install")'
      BY <2>1 DEF Fits, Follows, FwPcs, ZipPcs, Ot!Senders
    <2>3. Places' /\ StateFollows' /\ OneHolder'
      BY <1>2, <1>3, <2>2, HolderMoves
    <2>4. SessionSound' /\ BootSound'
      BY <1>2, <2>1 DEF OtaInv, SessionSound, BootSound, Ot!Free
    <2> QED  BY <2>1, <2>3, <2>4 DEF OtaInv
  <1>4. CASE Ot!Goes("T13", "extract", "idle") /\ Ot!Release("T13", "ERROR") /\ boot' = boot
    BY <1>2, <1>4, HolderReleases DEF Ot!Free
  <1> QED  BY <1>3, <1>4 DEF Ot!Extract, Ot!flashVars

LEMMA InstallStep ==
    ASSUME OtaInv, Ot!Install
    PROVE  OtaInv'
  <1>1. pcO["T13"] = "install"
    BY DEF Ot!Install, Ot!Goes
  <1>2. /\ boot # "other" /\ Holding("T13") /\ "T13" \in Ot!Tasks /\ ost = "ASSETS_WRITING"
        /\ inactive' = inactive /\ part \in BOOLEAN /\ (part = TRUE => inactive = "whole")
    BY <1>1 DEF OtaInv, StateFollows, BootSound, SessionSound, Holding, Ot!Tasks, Ot!Install
  <1>3. CASE /\ Ot!Goes("T13", "install", "reboot")
             /\ zip' = "none" /\ boot' = IF part THEN "other" ELSE boot
             /\ UNCHANGED <<ost, handle, part>>
    <2>1. ost' = "ASSETS_WRITING" /\ handle' = handle /\ part' = part /\ zip' = "none"
      BY <1>2, <1>3
    <2>2. Fits("T13", "reboot")'
      BY <2>1 DEF Fits, Ot!Senders
    <2>3. Places' /\ StateFollows' /\ OneHolder'
      BY <1>2, <1>3, <2>2, HolderMoves
    <2>4. pcO'["T13"] = "reboot"
      BY <1>2, <1>3, Going DEF OtaInv
    <2>5. boot' = "other" => inactive' = "whole"
      <3>1. CASE part = TRUE
        BY <1>2, <3>1
      <3>2. CASE part = FALSE
        BY <1>2, <1>3, <3>2
      <3> QED  BY <1>2, <3>1, <3>2
    <2>6. SessionSound'
      BY <1>2, <2>1 DEF OtaInv, SessionSound, Ot!Free
    <2>7. BootSound'
      BY <2>1, <2>4, <2>5 DEF BootSound
    <2> QED  BY <2>1, <2>3, <2>6, <2>7 DEF OtaInv
  <1>4. CASE Ot!Goes("T13", "install", "idle") /\ Ot!Release("T13", "ERROR") /\ boot' = boot
    BY <1>2, <1>4, HolderReleases DEF Ot!Free
  <1> QED  BY <1>3, <1>4 DEF Ot!Install

LEMMA TimerFiresStep ==
    ASSUME OtaInv, Ot!TimerFires
    PROVE  OtaInv'
  BY Wanders
     DEF Ot!TimerFires, Ot!sessionVars, Ot!flashVars, Ot!Tasks, Ot!Senders, HolderPcs, FwPcs,
         ZipPcs

LEMMA FallbackClaimStep ==
    ASSUME OtaInv, Ot!FallbackClaim
    PROVE  OtaInv'
  <1>1. /\ handle' = handle /\ part' = part /\ zip' = zip
        /\ inactive' = inactive /\ boot' = boot /\ "fallback" \in Ot!Tasks
    BY DEF Ot!FallbackClaim, Ot!sessionVars, Ot!flashVars, Ot!Tasks
  <1>2. CASE ost = "FW_DONE"
    <2>1. Ot!Goes("fallback", "spawned", "commit") /\ ost' = "REBOOTING"
      BY <1>2 DEF Ot!FallbackClaim
    <2>2. boot # "other" /\ \A u \in Ot!Tasks : ~Holding(u)
      BY <1>2, NobodyHolds
    <2>3. Fits("fallback", "commit")'
      BY <2>1 DEF Fits, Ot!Senders
    <2>4. Places' /\ StateFollows' /\ OneHolder'
      BY <1>1, <2>1, <2>2, <2>3, AloneMoves
    <2>5. SessionSound' /\ BootSound'
      BY <1>1, <1>2, <2>1, <2>2 DEF OtaInv, SessionSound, BootSound, Ot!Free
    <2> QED  BY <1>1, <2>4, <2>5 DEF OtaInv
  <1>3. CASE ost # "FW_DONE"
    BY <1>1, <1>3, Wanders DEF Ot!FallbackClaim, HolderPcs, FwPcs, ZipPcs
  <1> QED  BY <1>2, <1>3

LEMMA FallbackCommitStep ==
    ASSUME OtaInv, Ot!FallbackCommit
    PROVE  OtaInv'
  <1>1. pcO["fallback"] = "commit"
    BY DEF Ot!FallbackCommit, Ot!Goes
  <1>2. /\ boot # "other" /\ Holding("fallback") /\ "fallback" \in Ot!Tasks
        /\ ost = "REBOOTING" /\ inactive' = inactive /\ part \in BOOLEAN
        /\ (part = TRUE => inactive = "whole")
    BY <1>1
       DEF OtaInv, StateFollows, BootSound, SessionSound, Holding, Ot!Tasks, Ot!FallbackCommit
  <1>3. CASE /\ part = TRUE /\ Ot!Goes("fallback", "commit", "reboot") /\ boot' = "other"
             /\ UNCHANGED <<ost, handle, part, zip>>
    <2>1. ost' = "REBOOTING" /\ handle' = handle /\ part' = part /\ zip' = zip
      BY <1>2, <1>3
    <2>2. Fits("fallback", "reboot")'
      BY <2>1 DEF Fits, Ot!Senders
    <2>3. Places' /\ StateFollows' /\ OneHolder'
      BY <1>2, <1>3, <2>2, HolderMoves
    <2>4. pcO'["fallback"] = "reboot"
      BY <1>2, <1>3, Going DEF OtaInv
    <2>5. SessionSound'
      BY <1>2, <2>1 DEF OtaInv, SessionSound, Ot!Free
    <2>6. BootSound'
      BY <1>2, <1>3, <2>1, <2>4 DEF BootSound
    <2> QED  BY <2>1, <2>3, <2>5, <2>6 DEF OtaInv
  <1>4. CASE Ot!Goes("fallback", "commit", "idle") /\ Ot!Release("fallback", "ERROR")
             /\ boot' = boot
    BY <1>2, <1>4, HolderReleases DEF Ot!Free
  <1> QED  BY <1>2, <1>3, <1>4 DEF Ot!FallbackCommit, Ot!sessionVars

LEMMA ScheduleStep ==
    ASSUME OtaInv, NEW t \in {"T13", "fallback"}, Ot!Schedule(t)
    PROVE  OtaInv'
  <1>1. /\ pcO[t] = "reboot" /\ t \in Ot!Tasks /\ Ot!Goes(t, "reboot", "idle")
        /\ ost' = "REBOOTING" /\ boot' = boot /\ inactive' = inactive
        /\ handle' = handle /\ part' = part /\ zip' = zip
    BY DEF Ot!Schedule, Ot!Goes, Ot!sessionVars, Ot!flashVars, Ot!Tasks
  <1>2. Holding(t) /\ Fits(t, "idle")'
    BY <1>1 DEF Holding, Fits, Ot!Senders
  <1>3. Places' /\ StateFollows' /\ OneHolder'
    BY <1>1, <1>2, HolderMoves
  <1>4. ost \in {"ASSETS_WRITING", "REBOOTING"} /\ pcO["fallback"] # "commit"
    BY <1>1 DEF OtaInv, StateFollows
  <1>5. pcO'["fallback"] # "commit"
    BY <1>1, <1>4, Going DEF OtaInv
  <1>6. SessionSound'
    BY <1>1, <1>4 DEF OtaInv, SessionSound, Ot!Free
  <1>7. BootSound'
    BY <1>1, <1>5 DEF OtaInv, BootSound
  <1> QED  BY <1>1, <1>3, <1>6, <1>7 DEF OtaInv

LEMMA RestartStep ==
    ASSUME OtaInv, Ot!Restart
    PROVE  OtaInv'
  <1>1. /\ ost' = "IDLE" /\ handle' = FALSE /\ part' = FALSE /\ zip' = "none"
        /\ boot' = "running" /\ pcO' = [t \in Ot!Tasks |-> "idle"]
    BY DEF Ot!Restart
  <1>2. Places' /\ StateFollows' /\ OneHolder'
    BY <1>1 DEF Places, StateFollows, Follows, OneHolder, FwPcs, ZipPcs, HolderPcs,
                Ot!Tasks, Ot!Senders
  <1>3. SessionSound' /\ BootSound'
    BY <1>1 DEF SessionSound, BootSound
  <1> QED  BY <1>1, <1>2, <1>3 DEF OtaInv

LEMMA CheckStep ==
    ASSUME OtaInv, Ot!Check
    PROVE  OtaInv'
  BY Wanders
     DEF Ot!Check, Ot!sessionVars, Ot!flashVars, Ot!Tasks, Ot!Senders, HolderPcs, FwPcs, ZipPcs

LEMMA FoundStep ==
    ASSUME OtaInv, Ot!Found
    PROVE  OtaInv'
  BY Wanders
     DEF Ot!Found, Ot!sessionVars, Ot!flashVars, Ot!Tasks, Ot!Senders, HolderPcs, FwPcs, ZipPcs

LEMMA DeferStep ==
    ASSUME OtaInv, Ot!Defer
    PROVE  OtaInv'
  BY Wanders
     DEF Ot!Defer, Ot!sessionVars, Ot!flashVars, Ot!Tasks, Ot!Senders, HolderPcs, FwPcs, ZipPcs

LEMMA QuietStep ==
    ASSUME OtaInv, Ot!Quiet
    PROVE  OtaInv'
  BY Wanders
     DEF Ot!Quiet, Ot!sessionVars, Ot!flashVars, Ot!Tasks, Ot!Senders, HolderPcs, FwPcs, ZipPcs

LEMMA ClearBitStep ==
    ASSUME OtaInv, UNCHANGED <<ost, handle, part, zip, pcO, inactive, boot>>
    PROVE  OtaInv'
  <1>1. Places' /\ StateFollows' /\ OneHolder'
    BY DEF OtaInv, Places, StateFollows, Follows, OneHolder
  <1>2. SessionSound' /\ BootSound'
    BY DEF OtaInv, SessionSound, BootSound
  <1> QED  BY <1>1, <1>2 DEF OtaInv

LEMMA OtaStarts == ASSUME Ot!OtaInit  PROVE OtaInv
  <1>1. Places /\ StateFollows /\ OneHolder
    BY DEF Ot!OtaInit, Places, StateFollows, Follows, OneHolder, FwPcs, ZipPcs, HolderPcs,
           Ot!Tasks, Ot!Senders
  <1>2. SessionSound /\ BootSound /\ handle \in BOOLEAN /\ part \in BOOLEAN
    BY DEF Ot!OtaInit, SessionSound, BootSound
  <1> QED  BY <1>1, <1>2 DEF OtaInv

(* No task leaves its place against the state, two hold no session, and what *)
(* is open or set is what the state says.                                    *)
LEMMA OtaStep ==
    ASSUME OtaInv, [Ot!OtaNext]_otaVars
    PROVE  OtaInv'
  <1>0. "T11" \in Ot!Senders /\ "T16" \in Ot!Senders
    BY DEF Ot!Senders
  <1>1. CASE Ot!FirmwareBegin("T11") \/ Ot!AssetsBegin("T11") \/ Ot!FirmwarePost
             \/ Ot!AssetsPost
    BY <1>0, <1>1, FirmwareBeginStep, AssetsBeginStep, FirmwareSetupStep, FirmwareWriteStep,
       FirmwareLostStep, FirmwareEndStep, FirmwareVerifiedStep, FirmwareTimerStep,
       AssetsSetupStep, AssetsFedStep, AssetsEndStep DEF Ot!FirmwarePost, Ot!AssetsPost
  <1>2. CASE Ot!Apply
    BY <1>0, <1>2, FirmwareBeginStep, AssetsBeginStep, FirmwareSetupStep, FirmwareWriteStep,
       BackOutStep, FirmwareEndStep, FirmwareVerifiedStep, FirmwareTimerStep,
       AssetsSetupStep, AssetsFedStep, AssetsEndStep, GivesUpStep DEF Ot!Apply
  <1>3. CASE Ot!AssetsTask \/ Ot!Fallback
    BY <1>3, ExtractStep, InstallStep, ScheduleStep, FallbackClaimStep, FallbackCommitStep
       DEF Ot!AssetsTask, Ot!Fallback
  <1>4. CASE (\E t \in Ot!Tasks : Ot!ClearBit(t)) \/ UNCHANGED otaVars
    <2>1. UNCHANGED <<ost, handle, part, zip, pcO, inactive, boot>>
      BY <1>4 DEF Ot!ClearBit, otaVars, Ot!sessionVars, Ot!flashVars
    <2> QED  BY <2>1, ClearBitStep
  <1>5. CASE Ot!TimerFires \/ Ot!Reboots \/ Ot!PowerFails \/ Ot!Check \/ Ot!Found
             \/ Ot!Defer \/ Ot!Quiet
    BY <1>5, TimerFiresStep, RestartStep, CheckStep, FoundStep, DeferStep, QuietStep
       DEF Ot!Reboots, Ot!PowerFails
  <1> QED  BY <1>1, <1>2, <1>3, <1>4, <1>5 DEF Ot!OtaNext

LEMMA SoundImages == ASSUME OtaInv  PROVE Ot!ImagesAreSound
  <1>1. boot = "other" => inactive = "whole"
    BY DEF OtaInv, BootSound
  <1>2. ASSUME ost \in Ot!Free
        PROVE  handle # TRUE /\ part # TRUE /\ zip = "none"
    BY <1>2 DEF OtaInv, SessionSound, Ot!Free
  <1>3. ost \in Ot!Free => ~handle /\ ~part /\ zip = "none"
    BY <1>2 DEF OtaInv
  <1> QED  BY <1>1, <1>3 DEF Ot!ImagesAreSound

LEMMA OtaTypesStart == ASSUME Ot!OtaInit  PROVE Ot!OtaTypeOK
  BY DEF Ot!OtaInit, Ot!OtaTypeOK, Ot!Free, Ot!Tasks, Ot!Senders

(* The sender's steps, those of T13 and of the fallback, and the others.     *)
LEMMA SenderTypes ==
    ASSUME Ot!OtaTypeOK, NEW t \in Ot!Senders,
           \/ Ot!FirmwareBegin(t) \/ Ot!FirmwareSetup(t) \/ Ot!FirmwareWrite(t)
              \/ Ot!FirmwareEnd(t)
           \/ Ot!FirmwareVerified(t) \/ Ot!FirmwareTimer(t)
           \/ Ot!AssetsBegin(t) \/ Ot!AssetsSetup(t) \/ Ot!AssetsFed(t) \/ Ot!AssetsEnd(t)
    PROVE  Ot!OtaTypeOK'
  <1> USE DEF Ot!OtaTypeOK, Ot!Free, Ot!Tasks, Ot!sessionVars, Ot!flashVars
  <1>1. CASE Ot!FirmwareBegin(t)
    BY <1>1 DEF Ot!FirmwareBegin
  <1>2. CASE Ot!FirmwareSetup(t)
    BY <1>2 DEF Ot!FirmwareSetup, Ot!Release
  <1>3. CASE Ot!FirmwareWrite(t)
    BY <1>3 DEF Ot!FirmwareWrite, Ot!Refused, Ot!Release
  <1>4. CASE Ot!FirmwareEnd(t)
    BY <1>4 DEF Ot!FirmwareEnd
  <1>5. CASE Ot!FirmwareVerified(t)
    BY <1>5 DEF Ot!FirmwareVerified, Ot!Release
  <1>6. CASE Ot!FirmwareTimer(t)
    BY <1>6 DEF Ot!FirmwareTimer
  <1>7. CASE Ot!AssetsBegin(t)
    BY <1>7 DEF Ot!AssetsBegin
  <1>8. CASE Ot!AssetsSetup(t)
    BY <1>8 DEF Ot!AssetsSetup, Ot!Release
  <1>9. CASE Ot!AssetsFed(t)
    BY <1>9 DEF Ot!AssetsFed, Ot!Release
  <1>10. CASE Ot!AssetsEnd(t)
    BY <1>10 DEF Ot!AssetsEnd, Ot!Release
  <1> QED  BY <1>1, <1>2, <1>3, <1>4, <1>5, <1>6, <1>7, <1>8, <1>9, <1>10

LEMMA OtaTypesStep ==
    ASSUME Ot!OtaTypeOK, [Ot!OtaNext]_otaVars
    PROVE  Ot!OtaTypeOK'
  <1> USE DEF Ot!OtaTypeOK, Ot!Free, Ot!Tasks, Ot!sessionVars, Ot!flashVars
  <1>s. "T11" \in Ot!Senders /\ "T16" \in Ot!Senders
    BY DEF Ot!Senders
  <1>1. CASE Ot!FirmwareBegin("T11") \/ Ot!AssetsBegin("T11")
    BY <1>s, <1>1, SenderTypes
  <1>2. CASE Ot!FirmwarePost
    <2>1. CASE Ot!FirmwareLost  BY <1>s, <2>1 DEF Ot!FirmwareLost, Ot!Release
    <2> QED  BY <1>s, <1>2, <2>1, SenderTypes DEF Ot!FirmwarePost
  <1>3. CASE Ot!AssetsPost
    BY <1>s, <1>3, SenderTypes DEF Ot!AssetsPost
  <1>4. CASE Ot!Apply
    <2>1. CASE Ot!BackOut  BY <1>s, <2>1 DEF Ot!BackOut, Ot!Release
    <2>2. CASE Ot!GivesUp  BY <2>2 DEF Ot!GivesUp
    <2> QED  BY <1>s, <1>4, <2>1, <2>2, SenderTypes DEF Ot!Apply
  <1>5. CASE Ot!AssetsTask
    <2>1. CASE Ot!Extract  BY <2>1 DEF Ot!Extract, Ot!Refused, Ot!Release
    <2>2. CASE Ot!Install  BY <2>2 DEF Ot!Install, Ot!Release
    <2>3. CASE Ot!Schedule("T13")  BY <2>3 DEF Ot!Schedule
    <2> QED  BY <1>5, <2>1, <2>2, <2>3 DEF Ot!AssetsTask
  <1>6. CASE Ot!Fallback
    <2>1. CASE Ot!FallbackClaim  BY <2>1 DEF Ot!FallbackClaim
    <2>2. CASE Ot!FallbackCommit  BY <2>2 DEF Ot!FallbackCommit, Ot!Release
    <2>3. CASE Ot!Schedule("fallback")  BY <2>3 DEF Ot!Schedule
    <2> QED  BY <1>6, <2>1, <2>2, <2>3 DEF Ot!Fallback
  <1>7. CASE \E t \in Ot!Tasks : Ot!ClearBit(t)
    BY <1>7 DEF Ot!ClearBit
  <1>8. CASE Ot!TimerFires
    BY <1>8 DEF Ot!TimerFires
  <1>9. CASE Ot!Reboots \/ Ot!PowerFails
    BY <1>9 DEF Ot!Reboots, Ot!PowerFails, Ot!Restart
  <1>10. CASE Ot!Check
    BY <1>10 DEF Ot!Check
  <1>11. CASE Ot!Found \/ Ot!Defer \/ Ot!Quiet
    BY <1>11 DEF Ot!Found, Ot!Defer, Ot!Quiet
  <1>12. CASE UNCHANGED otaVars
    BY <1>12 DEF otaVars
  <1> QED
    BY <1>1, <1>2, <1>3, <1>4, <1>5, <1>6, <1>7, <1>8, <1>9, <1>10, <1>11, <1>12 DEF Ot!OtaNext

LEMMA OtaHolds == Spec => [](OtaInv /\ Ot!OtaTypeOK)
  <1>1. Init => OtaInv /\ Ot!OtaTypeOK
    BY OtaStarts, OtaTypesStart DEF Init
  <1>2. (OtaInv /\ Ot!OtaTypeOK) /\ [Next]_vars => (OtaInv /\ Ot!OtaTypeOK)'
    BY UnitSteps, OtaStep, OtaTypesStep
  <1> QED  BY <1>1, <1>2, PTL DEF Spec

(* None but an image that was written whole and verified is ever set to      *)
(* boot, by T11, by T16 or by the timer, and none begins on the leftovers of *)
(* another (ota_manager.cpp, session_release(), claim_state()).              *)
THEOREM OnlySoundImages == Spec => []ImagesAreSound
  <1>1. OtaInv => ImagesAreSound
    BY SoundImages DEF ImagesAreSound
  <1> QED  BY <1>1, OtaHolds, PTL

-----------------------------------------------------------------------------
(* The settings and their copies (Config). *)

Updates == [key : Co!Keys, value : 0 .. MaxValue + 1]

CfgTypes ==
    /\ stored \in [Co!Keys -> Co!Values] /\ shadow \in [Co!Keys -> Co!Values]
    /\ used2 \in Co!Values /\ flag2 \in BOOLEAN
    /\ val4 \in [key : Co!Keys, value : Co!Values]
    /\ q4 \in Seq(Updates)
    /\ pcC \in [{"T4", "T8", "T11"} -> {"idle", "store", "tell", "erased", "reload"}]
    /\ astray \subseteq Co!Keys

(* Who has still to bring a key's shadow in line with NVS.                   *)
InHand(k) ==
    \/ pcC["T4"] = "store" /\ val4.key = k
    \/ pcC["T11"] = "reload" /\ k = "form"
    \/ pcC["T8"] # "idle"

(* ... and who has still to tell T2 of its own.                              *)
TwoInHand ==
    \/ pcC["T4"] \in {"store", "tell"} /\ val4.key = "motor"
    \/ pcC["T8"] # "idle"

CfgInv ==
    /\ CfgTypes /\ Len(q4) <= Q4Depth
    /\ \A k \in Co!Keys \ astray : shadow[k] = stored[k] \/ InHand(k)
    /\ flag2 \/ "motor" \in astray \/ used2 = stored["motor"] \/ TwoInHand

-----------------------------------------------------------------------------
(* The type of each variable, action by action.                              *)
LEMMA TypesStep ==
    ASSUME Co!ConfigAssumption, CfgTypes, [Co!CfgNext]_cfgVars
    PROVE  CfgTypes'
  <1> USE DEF CfgTypes, Co!Keys, Co!Values, Co!MovesC
  <1>0. /\ MaxValue \in Nat \ {0} /\ 0 \in Co!Values
    BY DEF Co!ConfigAssumption
  <1>1. CASE Co!PostQ4
    <2>1. PICK k \in Co!Keys, v \in 0 .. MaxValue + 1 :
            /\ q4' = Append(q4, [key |-> k, value |-> v])
            /\ UNCHANGED <<stored, shadow, used2, flag2, pcC, val4, astray>>
      BY <1>1 DEF Co!PostQ4
    <2>2. [key |-> k, value |-> v] \in Updates
      BY DEF Updates
    <2>3. q4' \in Seq(Updates)
      BY <2>1, <2>2
    <2> QED  BY <2>1, <2>3
  <1>2. CASE Co!Apply
    <2>1. q4 # <<>> /\ q4' = Tail(q4) /\ UNCHANGED <<shadow, used2, flag2, astray>>
      BY <1>2 DEF Co!Apply
    <2>2. q4' \in Seq(Updates) /\ Head(q4) \in Updates
      BY <2>1
    <2>3. Head(q4).key \in Co!Keys /\ Co!Clamped(Head(q4).value) \in Co!Values
      BY <1>0, <2>2 DEF Updates, Co!Clamped
    <2>4. \/ /\ Co!MovesC("T4", "idle", "store")
             /\ stored' = [stored EXCEPT ![Head(q4).key] = Co!Clamped(Head(q4).value)]
             /\ val4' = [Head(q4) EXCEPT !.value = Co!Clamped(Head(q4).value)]
          \/ Co!MovesC("T4", "idle", "idle") /\ UNCHANGED <<stored, val4>>
      BY <1>2 DEF Co!Apply
    <2>5. stored' \in [Co!Keys -> Co!Values]
      BY <2>3, <2>4
    <2>6. val4' \in [key : Co!Keys, value : Co!Values]
      BY <2>2, <2>3, <2>4 DEF Updates
    <2>7. pcC' \in [{"T4", "T8", "T11"} -> {"idle", "store", "tell", "erased", "reload"}]
      BY <2>4
    <2> QED  BY <2>1, <2>2, <2>5, <2>6, <2>7
  <1>3. CASE Co!StoreShadow
    BY <1>3 DEF Co!StoreShadow
  <1>4. CASE Co!StoreTimesOut
    BY <1>0, <1>4 DEF Co!StoreTimesOut, Co!NoUpdate
  <1>5. CASE Co!Tell
    BY <1>0, <1>5 DEF Co!Tell, Co!NoUpdate
  <1>6. CASE Co!FormPost
    BY <1>6 DEF Co!FormPost
  <1>7. CASE Co!FormReload
    BY <1>7 DEF Co!FormReload
  <1>8. CASE Co!ResetErase
    BY <1>0, <1>8 DEF Co!ResetErase
  <1>9. CASE Co!ResetReload
    BY <1>9 DEF Co!ResetReload
  <1>10. CASE Co!T2Reloads
    BY <1>10 DEF Co!T2Reloads
  <1>11. CASE Co!CfgRestart
    <2>1. /\ stored' = stored /\ shadow' \in [Co!Keys -> Co!Values] /\ used2' \in Co!Values
          /\ flag2' = FALSE /\ astray' = {} /\ q4' \in Seq(Updates)
      BY <1>11 DEF Co!CfgRestart
    <2>2. pcC' \in [{"T4", "T8", "T11"} -> {"idle", "store", "tell", "erased", "reload"}]
      BY <1>11 DEF Co!CfgRestart
    <2>3. val4' \in [key : Co!Keys, value : Co!Values]
      BY <1>0, <1>11 DEF Co!CfgRestart, Co!NoUpdate
    <2> QED  BY <2>1, <2>2, <2>3
  <1>12. CASE UNCHANGED cfgVars
    BY <1>12 DEF cfgVars
  <1> QED  BY <1>1, <1>2, <1>3, <1>4, <1>5, <1>6, <1>7, <1>8, <1>9, <1>10, <1>11, <1>12
           DEF Co!CfgNext

(* Q4 keeps to its length. *)
LEMMA Q4Step ==
    ASSUME Co!ConfigAssumption, CfgTypes, Len(q4) <= Q4Depth, [Co!CfgNext]_cfgVars
    PROVE  Len(q4') <= Q4Depth
  <1>0. q4 \in Seq(Updates) /\ Len(q4) \in Nat /\ Q4Depth \in Nat
    BY DEF CfgTypes, Co!ConfigAssumption
  <1>1. CASE Co!PostQ4
    <2>1. PICK u \in Updates : q4' = Append(q4, u)
      BY <1>1 DEF Co!PostQ4, Updates
    <2>2. Len(q4') = Len(q4) + 1
      BY <1>0, <2>1
    <2> QED  BY <1>0, <1>1, <2>2 DEF Co!PostQ4
  <1>2. CASE Co!Apply
    <2>1. q4 # <<>> /\ q4' = Tail(q4)
      BY <1>2 DEF Co!Apply
    <2>2. Len(q4') = Len(q4) - 1
      BY <1>0, <2>1
    <2> QED  BY <1>0, <2>2
  <1>3. CASE Co!CfgRestart
    BY <1>0, <1>3 DEF Co!CfgRestart
  <1>4. CASE UNCHANGED q4
    BY <1>4
  <1> QED
    BY <1>1, <1>2, <1>3, <1>4
       DEF Co!CfgNext, Co!StoreShadow, Co!StoreTimesOut, Co!Tell, Co!FormPost, Co!FormReload,
           Co!ResetErase,
           Co!ResetReload, Co!T2Reloads, cfgVars

(* A shadow that differs from NVS is in somebody's hands, or astray.         *)
LEMMA ShadowStep ==
    ASSUME CfgInv, CfgTypes', [Co!CfgNext]_cfgVars, NEW k \in Co!Keys \ astray'
    PROVE  shadow'[k] = stored'[k] \/ InHand(k)'
  <1> USE DEF InHand, CfgTypes, Co!MovesC
  <1>0. k \in Co!Keys /\ (k \notin astray => shadow[k] = stored[k] \/ InHand(k))
    BY DEF CfgInv
  <1>1. CASE Co!PostQ4 \/ Co!T2Reloads \/ UNCHANGED cfgVars
    BY <1>0, <1>1 DEF Co!PostQ4, Co!T2Reloads, cfgVars, CfgInv
  <1>2. CASE Co!Apply
    <2>1. /\ q4 # <<>> /\ Head(q4) \in Updates /\ astray' = astray /\ shadow' = shadow
      BY <1>2 DEF Co!Apply, CfgInv
    <2>2. CASE pcC["T4"] = "idle" /\ pcC'["T4"] = "store"
      <3>1. /\ stored' = [stored EXCEPT ![Head(q4).key] = Co!Clamped(Head(q4).value)]
            /\ val4' = [Head(q4) EXCEPT !.value = Co!Clamped(Head(q4).value)]
            /\ pcC' = [pcC EXCEPT !["T4"] = "store"]
        BY <1>2, <2>2 DEF Co!Apply, CfgInv
      <3>2. val4'.key = Head(q4).key
        BY <2>1, <3>1 DEF Updates
      <3> QED  BY <1>0, <2>1, <2>2, <3>1, <3>2 DEF CfgInv
    <2>3. CASE pcC'["T4"] # "store"
      <3>1. pcC["T4"] = "idle" /\ pcC' = [pcC EXCEPT !["T4"] = "idle"] /\ stored' = stored
        BY <1>2, <2>3 DEF Co!Apply, CfgInv
      <3> QED  BY <1>0, <2>1, <3>1 DEF CfgInv
    <2>4. pcC["T4"] = "idle"
      BY <1>2 DEF Co!Apply
    <2> QED  BY <2>2, <2>3, <2>4
  <1>3. CASE Co!StoreShadow
    BY <1>0, <1>3 DEF Co!StoreShadow, CfgInv
  <1>4. CASE Co!StoreTimesOut
    BY <1>0, <1>4 DEF Co!StoreTimesOut, CfgInv
  <1>5. CASE Co!Tell
    BY <1>0, <1>5 DEF Co!Tell, CfgInv
  <1>6. CASE Co!FormPost
    BY <1>0, <1>6 DEF Co!FormPost, CfgInv
  <1>7. CASE Co!FormReload
    BY <1>0, <1>7 DEF Co!FormReload, CfgInv
  <1>8. CASE Co!ResetErase
    BY <1>0, <1>8 DEF Co!ResetErase, CfgInv
  <1>9. CASE Co!ResetReload
    BY <1>0, <1>9 DEF Co!ResetReload, CfgInv
  <1>10. CASE Co!CfgRestart
    BY <1>0, <1>10 DEF Co!CfgRestart
  <1> QED  BY <1>1, <1>2, <1>3, <1>4, <1>5, <1>6, <1>7, <1>8, <1>9, <1>10 DEF Co!CfgNext

(* T2 works on what NVS has, or is told, or will be.                         *)
LEMMA TwoStep ==
    ASSUME CfgInv, CfgTypes', [Co!CfgNext]_cfgVars
    PROVE  flag2' \/ "motor" \in astray' \/ used2' = stored'["motor"] \/ TwoInHand'
  <1> USE DEF TwoInHand, CfgTypes, Co!MovesC
  <1>1. CASE Co!PostQ4 \/ Co!T2Reloads \/ UNCHANGED cfgVars
    BY <1>1 DEF Co!PostQ4, Co!T2Reloads, cfgVars, CfgInv
  <1>2. CASE Co!Apply
    <2>1. /\ q4 # <<>> /\ Head(q4) \in Updates
          /\ astray' = astray /\ used2' = used2 /\ flag2' = flag2 /\ pcC["T4"] = "idle"
      BY <1>2 DEF Co!Apply, CfgInv
    <2>2. CASE pcC'["T4"] = "store"
      <3>1. /\ stored' = [stored EXCEPT ![Head(q4).key] = Co!Clamped(Head(q4).value)]
            /\ val4' = [Head(q4) EXCEPT !.value = Co!Clamped(Head(q4).value)]
            /\ pcC' = [pcC EXCEPT !["T4"] = "store"]
        BY <1>2, <2>2 DEF Co!Apply, CfgInv
      <3>2. val4'.key = Head(q4).key
        BY <2>1, <3>1 DEF Updates
      <3>3. Head(q4).key # "motor" => stored'["motor"] = stored["motor"]
        BY <3>1 DEF Co!Keys, CfgInv
      <3> QED  BY <2>1, <2>2, <3>1, <3>2, <3>3 DEF CfgInv
    <2>3. CASE pcC'["T4"] # "store"
      <3>1. pcC' = [pcC EXCEPT !["T4"] = "idle"] /\ stored' = stored
        BY <1>2, <2>3 DEF Co!Apply, CfgInv
      <3> QED  BY <2>1, <3>1 DEF CfgInv
    <2> QED  BY <2>2, <2>3
  <1>3. CASE Co!StoreShadow
    BY <1>3 DEF Co!StoreShadow, CfgInv
  <1>4. CASE Co!StoreTimesOut
    BY <1>4 DEF Co!StoreTimesOut, CfgInv
  <1>5. CASE Co!Tell
    BY <1>5 DEF Co!Tell, CfgInv
  <1>6. CASE Co!FormPost
    <2>1. stored'["motor"] = stored["motor"]
      BY <1>6 DEF Co!FormPost, CfgInv, Co!Keys
    <2> QED  BY <1>6, <2>1 DEF Co!FormPost, CfgInv
  <1>7. CASE Co!FormReload
    BY <1>7 DEF Co!FormReload, CfgInv
  <1>8. CASE Co!ResetErase
    BY <1>8 DEF Co!ResetErase, CfgInv
  <1>9. CASE Co!ResetReload
    BY <1>9 DEF Co!ResetReload, CfgInv, Co!Keys
  <1>10. CASE Co!CfgRestart
    BY <1>10 DEF Co!CfgRestart
  <1> QED  BY <1>1, <1>2, <1>3, <1>4, <1>5, <1>6, <1>7, <1>8, <1>9, <1>10 DEF Co!CfgNext

LEMMA CfgStarts == ASSUME Co!ConfigAssumption, Co!CfgInit  PROVE CfgInv
  <1>1. CfgTypes
    <2>1. 0 \in Co!Values /\ 0 \in 0 .. MaxValue /\ "motor" \in Co!Keys
      BY DEF Co!Values, Co!ConfigAssumption, Co!Keys
    <2>2. stored \in [Co!Keys -> Co!Values] /\ shadow \in [Co!Keys -> Co!Values]
          /\ used2 \in Co!Values
      BY <2>1 DEF Co!CfgInit
    <2>3. val4 \in [key : Co!Keys, value : Co!Values]
      BY <2>1 DEF Co!CfgInit, Co!NoUpdate
    <2>4. q4 \in Seq(Updates)
      BY DEF Co!CfgInit
    <2>5. pcC \in [{"T4", "T8", "T11"} -> {"idle", "store", "tell", "erased", "reload"}]
      BY DEF Co!CfgInit
    <2> QED  BY <2>2, <2>3, <2>4, <2>5 DEF Co!CfgInit, CfgTypes
  <1> QED  BY <1>1 DEF Co!CfgInit, CfgInv, Co!Keys, Co!ConfigAssumption

LEMMA CfgStep == ASSUME Co!ConfigAssumption, CfgInv, [Co!CfgNext]_cfgVars  PROVE CfgInv'
  <1>1. CfgTypes'
    BY TypesStep DEF CfgInv
  <1> QED  BY <1>1, ShadowStep, TwoStep, Q4Step DEF CfgInv

LEMMA CfgTyped == ASSUME CfgInv  PROVE Co!CfgTypeOK
  BY DEF CfgInv, CfgTypes, Co!CfgTypeOK, Updates

LEMMA InUse == ASSUME CfgInv  PROVE Co!StoreIsUsed
  <1> SUFFICES ASSUME \A t \in DOMAIN pcC : pcC[t] = "idle"
               PROVE  /\ \A k \in Co!Keys \ astray : shadow[k] = stored[k]
                      /\ ~flag2 /\ "motor" \notin astray => used2 = stored["motor"]
    BY DEF Co!StoreIsUsed
  <1>1. pcC["T4"] = "idle" /\ pcC["T8"] = "idle" /\ pcC["T11"] = "idle"
    BY DEF CfgInv, CfgTypes
  <1> QED  BY <1>1 DEF CfgInv, InHand, TwoInHand

LEMMA CfgHolds == Spec => []CfgInv
  <1>1. Init => CfgInv
    BY ServicesAssumption, CfgStarts DEF Init
  <1>2. CfgInv /\ [Next]_vars => CfgInv'
    BY ServicesAssumption, UnitSteps, CfgStep
  <1> QED  BY <1>1, <1>2, PTL DEF Spec

(* With every writer at rest the program works on what the next boot will    *)
(* load, but for a key set apart by a lock not had in time or an overtaken   *)
(* write (data_manager.cpp, apply_config_update(), dm_reload_all_cfg();      *)
(* relay_controller.cpp, load_motor_timings()).                              *)
THEOREM SettingsInUse == Spec => []StoreIsUsed
  <1>1. CfgInv => StoreIsUsed
    BY InUse DEF StoreIsUsed
  <1> QED  BY <1>1, CfgHolds, PTL

-----------------------------------------------------------------------------
(* The start of the program, and the bank it starts from (Boot). *)

(* app_main()'s order: the place of each unit in it. *)
Place(u) ==
    CASE u = "globals" -> 1  [] u = "pins"    -> 2  [] u = "T1"     -> 3
      [] u = "T7"      -> 4  [] u = "nvs"     -> 5  [] u = "check"  -> 6
      [] u = "pinauth" -> 7  [] u = "i2c"     -> 8  [] u = "lcd"    -> 9
      [] u = "modbus"  -> 10 [] u = "rtc"     -> 11 [] u = "files"  -> 12
      [] u = "card"    -> 13 [] u = "T4"      -> 14 [] u = "T9"     -> 15
      [] u = "T5"      -> 16 [] u = "relays"  -> 17 [] u = "T2"     -> 18
      [] u = "T6"      -> 19 [] u = "T3"      -> 20 [] u = "T8"     -> 21
      [] u = "wifi"    -> 22 [] u = "T10"     -> 23 [] u = "T14"    -> 24
      [] u = "T16"     -> 25 [] u = "T17"     -> 26 [] u = "T11"    -> 27
      [] u = "beat"    -> 28 [] u = "done"    -> 29 [] u = "halt"   -> 2

(* What has begun is what comes before the stage, but perhaps for T11.       *)
BootInv ==
    /\ stage \in Bo!Units \cup {"halt", "done"} /\ begun \subseteq Bo!Units
    /\ dead \subseteq begun \cap {"T1", "wifi"}
    /\ \A u \in Bo!Units \ {"T11"} : u \in begun <=> Place(u) < Place(stage)
    /\ "T11" \in begun => Place("T11") < Place(stage) /\ "wifi" \notin dead
    /\ bank \in valid /\ valid \subseteq {"A", "B"} /\ short \in 0..3
    /\ failCnt \in 0..3 /\ failCnt <= short + 1
    /\ "check" \notin begun => failCnt <= short
    /\ marked \in BOOLEAN /\ (marked => failCnt = 0 /\ "check" \in begun)

LEMMA PlaceRange ==
    ASSUME NEW u \in Bo!Units \cup {"halt", "done"}
    PROVE  Place(u) \in 1..29
  BY DEF Place, Bo!Units

LEMMA PlaceIsOwn ==
    ASSUME NEW u \in Bo!Units, NEW v \in Bo!Units, Place(u) = Place(v)
    PROVE  u = v
  BY DEF Place, Bo!Units

(* One step of app_main(), to the next place; the count may be erased.       *)
GoesOn(unit, next) ==
    /\ unit \in Bo!Units \ {"check"} /\ next \in Bo!Units \cup {"halt", "done"}
    /\ Place(next) = Place(unit) + 1
    /\ stage = unit /\ stage' = next /\ begun' = begun \cup {unit}
    /\ UNCHANGED <<marked, bank, valid, short>> /\ failCnt' \in {0, failCnt}
    /\ dead' = dead \/ (unit \in {"T1", "wifi"} /\ dead' = dead \cup {unit})
    /\ unit = "T11" => "wifi" \notin dead

LEMMA StepBegins ==
    ASSUME BootInv, NEW unit, NEW next, GoesOn(unit, next)
    PROVE  BootInv'
  <1>1. /\ stage = unit /\ stage' = next /\ begun' = begun \cup {unit}
        /\ UNCHANGED <<marked, bank, valid, short>> /\ failCnt' \in {0, failCnt}
        /\ unit \in Bo!Units /\ unit # "check"
    BY DEF GoesOn
  <1>2. /\ stage' \in Bo!Units \cup {"halt", "done"} /\ begun' \subseteq Bo!Units
        /\ dead' \subseteq begun' \cap {"T1", "wifi"}
    BY DEF BootInv, GoesOn
  <1>3. ASSUME NEW u \in Bo!Units
        PROVE  Place(u) < Place(stage') <=> Place(u) < Place(stage) \/ u = unit
    BY PlaceRange, PlaceIsOwn DEF GoesOn
  <1>4. "T11" \in Bo!Units /\ Place("T11") = 27 /\ Place("T1") = 3 /\ Place("wifi") = 22
    BY DEF Bo!Units, Place
  <1>5. "T11" \in begun' => Place("T11") < Place(stage') /\ "wifi" \notin dead'
    BY <1>3, <1>4 DEF BootInv, GoesOn
  <1>6. /\ failCnt' \in 0..3 /\ failCnt' <= short' + 1
        /\ ("check" \notin begun' => failCnt' <= short')
        /\ (marked' => failCnt' = 0 /\ "check" \in begun')
    BY <1>1 DEF BootInv
  <1> QED  BY <1>1, <1>2, <1>3, <1>5, <1>6 DEF BootInv

LEMMA FromTheTopStep ==
    ASSUME BootInv, Bo!FromTheTop, bank' \in valid', valid' \subseteq {"A", "B"},
           NEW n \in 0..3, NEW m \in 0..n, short' = n, failCnt' = m
    PROVE  BootInv'
  <1>1. stage' = "globals" /\ begun' = {} /\ dead' = {}
    BY DEF Bo!FromTheTop
  <1>2. Place("globals") = 1 /\ "globals" \in Bo!Units
    BY DEF Place, Bo!Units
  <1>3. ASSUME NEW u \in Bo!Units  PROVE ~(Place(u) < Place(stage'))
    BY <1>1, <1>2, PlaceRange
  <1>4. marked' \in BOOLEAN /\ ~marked'
    BY DEF Bo!FromTheTop
  <1>5. /\ stage' \in Bo!Units \cup {"halt", "done"} /\ begun' \subseteq Bo!Units
        /\ dead' \subseteq begun' \cap {"T1", "wifi"} /\ "T11" \notin begun'
        /\ \A u \in Bo!Units \ {"T11"} : u \in begun' <=> Place(u) < Place(stage')
    BY <1>1, <1>2, <1>3
  <1> QED  BY <1>4, <1>5 DEF BootInv

LEMMA BootStarts ==
    ASSUME Bo!BootInit
    PROVE  BootInv
  <1>1. /\ stage = "globals" /\ begun = {} /\ dead = {} /\ bank \in valid
        /\ valid \subseteq {"A", "B"} /\ failCnt = 0 /\ short = 0
    BY DEF Bo!BootInit
  <1>2. Place("globals") = 1 /\ "globals" \in Bo!Units
    BY DEF Place, Bo!Units
  <1>3. ASSUME NEW u \in Bo!Units  PROVE ~(Place(u) < Place(stage))
    BY <1>1, <1>2, PlaceRange
  <1>4. marked \in BOOLEAN /\ ~marked
    BY DEF Bo!BootInit
  <1> QED  BY <1>1, <1>2, <1>3, <1>4 DEF BootInv

LEMMA AppMainStep ==
    ASSUME BootInv, Bo!AppMain
    PROVE  BootInv'
  <1> USE StepBegins
  <1>1. CASE Bo!GlobalsUp \/ Bo!PinsUp \/ Bo!StartT1 \/ Bo!StartT7 \/ Bo!PinAuthUp
    <2>1. \/ GoesOn("globals", "pins") \/ GoesOn("globals", "halt") \/ GoesOn("pins", "T1")
          \/ GoesOn("T1", "T7") \/ GoesOn("T7", "nvs") \/ GoesOn("pinauth", "i2c")
      BY <1>1
         DEF Bo!GlobalsUp, Bo!PinsUp, Bo!StartT1, Bo!StartT7, Bo!PinAuthUp, Bo!Step,
             Bo!Begins, Bo!MayFail, Place,
                  GoesOn, Bo!Units
    <2> QED  BY <2>1
  <1>2. CASE Bo!NvsUp
    <2>1. GoesOn("nvs", "check")
      BY <1>2 DEF Bo!NvsUp, Bo!Step, Bo!Begins, Place, GoesOn, Bo!Units
    <2> QED  BY <2>1
  <1>3. CASE Bo!I2cUp \/ Bo!LcdUp \/ Bo!ModbusUp \/ Bo!RtcUp \/ Bo!FilesUp \/ Bo!CardUp
    <2>1. \/ GoesOn("i2c", "lcd") \/ GoesOn("lcd", "modbus") \/ GoesOn("modbus", "rtc")
          \/ GoesOn("rtc", "files") \/ GoesOn("files", "card") \/ GoesOn("card", "T4")
      BY <1>3
         DEF Bo!I2cUp, Bo!LcdUp, Bo!ModbusUp, Bo!RtcUp, Bo!FilesUp, Bo!CardUp, Bo!Step,
             Bo!Begins, Place, GoesOn,
                  Bo!Units
    <2> QED  BY <2>1
  <1>4. CASE \/ Bo!StartT4 \/ Bo!StartT9 \/ Bo!StartT5 \/ Bo!RelaysUp \/ Bo!StartT2
                \/ Bo!StartT6 \/ Bo!StartT3
             \/ Bo!StartT8
    <2>1. \/ GoesOn("T4", "T9") \/ GoesOn("T9", "T5") \/ GoesOn("T5", "relays")
          \/ GoesOn("relays", "T2") \/ GoesOn("T2", "T6") \/ GoesOn("T6", "T3")
          \/ GoesOn("T3", "T8") \/ GoesOn("T8", "wifi")
      BY <1>4
         DEF Bo!StartT4, Bo!StartT9, Bo!StartT5, Bo!RelaysUp, Bo!StartT2, Bo!StartT6,
             Bo!StartT3, Bo!StartT8,
                  Bo!Step, Bo!Begins, Place, GoesOn, Bo!Units
    <2> QED  BY <2>1
  <1>5. CASE Bo!WifiUp \/ Bo!StartT10 \/ Bo!StartT14 \/ Bo!StartT16 \/ Bo!StartT17
             \/ Bo!StartHeartbeat
    <2>1. \/ GoesOn("wifi", "T10") \/ GoesOn("T10", "T14") \/ GoesOn("T14", "T16")
          \/ GoesOn("T16", "T17") \/ GoesOn("T17", "T11") \/ GoesOn("beat", "done")
      BY <1>5
         DEF Bo!WifiUp, Bo!StartT10, Bo!StartT14, Bo!StartT16, Bo!StartT17, Bo!StartHeartbeat,
             Bo!Step, Bo!Begins,
                  Bo!MayFail, Place, GoesOn, Bo!Units
    <2> QED  BY <2>1
  <1>6. CASE Bo!StartWeb
    <2>1. CASE "wifi" \notin dead
      <3>1. GoesOn("T11", "beat")
        BY <1>6, <2>1 DEF Bo!StartWeb, Bo!Step, Bo!Begins, Place, GoesOn, Bo!Units
      <3> QED  BY <3>1
    <2>2. CASE "wifi" \in dead
      <3>1. /\ stage = "T11" /\ stage' = "beat"
            /\ UNCHANGED <<begun, dead, marked, bank, valid, failCnt, short>>
        BY <1>6, <2>2 DEF Bo!StartWeb
      <3>2. Place("T11") = 27 /\ Place("beat") = 28 /\ "T11" \in Bo!Units
            /\ "beat" \in Bo!Units
        BY DEF Place, Bo!Units
      <3>3. ASSUME NEW u \in Bo!Units \ {"T11"}
            PROVE  Place(u) < Place("beat") <=> Place(u) < Place("T11")
        BY <3>2, PlaceRange, PlaceIsOwn
      <3> QED  BY <3>1, <3>2, <3>3 DEF BootInv
    <2> QED  BY <2>1, <2>2
  <1>7. CASE Bo!CheckRollback
    <2> DEFINE exempt == soft /\ plan
               spent  == failCnt >= 3 /\ ~exempt
    <2>1. /\ stage = "check" /\ UNCHANGED <<plan, cuts>>
          /\ failCnt' = IF exempt THEN failCnt ELSE IF spent THEN 0 ELSE failCnt + 1
          /\ \/ /\ spent /\ bank' \in valid \ {bank} /\ valid' = {bank'}
                /\ Bo!FromTheTop /\ short' = 0
             \/ /\ stage' = "pinauth" /\ begun' = begun \cup {"check"}
                /\ UNCHANGED <<dead, marked, bank, valid, short>>
      BY <1>7 DEF Bo!CheckRollback
    <2>2. Place("check") = 6 /\ Place("pinauth") = 7 /\ "check" \in Bo!Units
          /\ "pinauth" \in Bo!Units /\ Place("T11") = 27 /\ "T11" \in Bo!Units
      BY DEF Place, Bo!Units
    <2>3. "check" \notin begun /\ failCnt \in 0..3 /\ failCnt <= short /\ short \in 0..3
          /\ ~marked
      BY <2>1, <2>2 DEF BootInv
    <2>4. CASE /\ spent /\ bank' \in valid \ {bank} /\ valid' = {bank'}
               /\ Bo!FromTheTop /\ short' = 0
      <3>1. failCnt' = 0
        BY <2>1, <2>4
      <3>2. bank' \in valid' /\ valid' \subseteq {"A", "B"} /\ 0 \in 0..3 /\ 0 \in 0..0
        BY <2>4 DEF BootInv
      <3> QED  BY <2>4, <3>1, <3>2, FromTheTopStep
    <2>5. CASE /\ stage' = "pinauth" /\ begun' = begun \cup {"check"}
               /\ UNCHANGED <<dead, marked, bank, valid, short>>
      <3>1. failCnt' \in 0..3 /\ failCnt' <= short' + 1
        BY <2>1, <2>3, <2>5
      <3>2. ASSUME NEW u \in Bo!Units
            PROVE  Place(u) < Place(stage') <=> Place(u) < Place(stage) \/ u = "check"
        BY <2>1, <2>2, <2>5, PlaceRange, PlaceIsOwn
      <3> QED  BY <2>1, <2>2, <2>3, <2>5, <3>1, <3>2 DEF BootInv
    <2> QED  BY <2>1, <2>4, <2>5
  <1> QED  BY <1>1, <1>2, <1>3, <1>4, <1>5, <1>6, <1>7 DEF Bo!AppMain

LEMMA BootStep ==
    ASSUME BootInv, [Bo!BootNext]_bootVars
    PROVE  BootInv'
  <1>1. CASE Bo!AppMain
    BY <1>1, AppMainStep
  <1>2. CASE Bo!MarkHealthy
    <2>1. /\ "check" \in begun /\ failCnt' = 0
          /\ UNCHANGED <<stage, begun, dead, bank, valid, short>>
      BY <1>2 DEF Bo!MarkHealthy, Bo!Counted
    <2>2. marked' \in BOOLEAN
      BY <1>2 DEF Bo!MarkHealthy
    <2> QED  BY <2>1, <2>2 DEF BootInv
  <1>3. CASE Bo!Crash \/ Bo!Cut
    <2>1. /\ Bo!FromTheTop /\ UNCHANGED <<bank, valid, failCnt>>
          /\ short' = IF marked THEN 0 ELSE IF short < 3 THEN short + 1 ELSE short
      BY <1>3 DEF Bo!Crash, Bo!Cut, Bo!CutShort
    <2>2. short' \in 0..3 /\ failCnt' \in 0 .. short'
      BY <2>1 DEF BootInv
    <2> QED  BY <2>1, <2>2, FromTheTopStep DEF BootInv
  <1>4. CASE UNCHANGED bootVars
    BY <1>4 DEF bootVars, Bo!thisBoot, BootInv
  <1> QED  BY <1>1, <1>2, <1>3, <1>4 DEF Bo!BootNext

LEMMA NeedsComeFirst ==
    ASSUME NEW u \in Bo!Units, NEW n \in Bo!Needs(u)
    PROVE  n \in Bo!Units \ {"T11"} /\ Place(n) < Place(u)
  BY DEF Bo!Needs, Bo!Units, Place

LEMMA OrderHolds ==
    ASSUME BootInv
    PROVE  Bo!BootTypeOK /\ Bo!StartsInOrder
  <1>1. Bo!BootTypeOK
    BY DEF BootInv, Bo!BootTypeOK
  <1>2. ASSUME NEW u \in begun, NEW n \in Bo!Needs(u)
        PROVE  n \in begun
    <2>1. u \in Bo!Units /\ Place(u) < Place(stage)
      BY DEF BootInv
    <2>2. n \in Bo!Units \ {"T11"} /\ Place(n) < Place(u)
      BY <2>1, NeedsComeFirst
    <2> QED  BY <2>1, <2>2, PlaceRange DEF BootInv
  <1>3. ASSUME begun # {}  PROVE "globals" \in begun
    <2>1. PICK u \in begun : u \in Bo!Units /\ Place(u) < Place(stage)
      BY <1>3 DEF BootInv
    <2>2. Place("globals") = 1 /\ "globals" \in Bo!Units \ {"T11"}
      BY DEF Place, Bo!Units
    <2> QED  BY <2>1, <2>2, PlaceRange DEF BootInv
  <1> QED  BY <1>1, <1>2, <1>3 DEF Bo!StartsInOrder, BootInv

LEMMA ImageStays ==
    ASSUME BootInv, [Bo!BootNext]_bootVars, bank' # bank
    PROVE  short >= 3
  <1>1. Bo!CheckRollback
    BY DEF Bo!BootNext, Bo!AppMain, Bo!GlobalsUp, Bo!PinsUp, Bo!StartT1, Bo!StartT7, Bo!NvsUp,
       Bo!PinAuthUp, Bo!I2cUp,
           Bo!LcdUp, Bo!ModbusUp, Bo!RtcUp, Bo!FilesUp, Bo!CardUp, Bo!StartT4, Bo!StartT9,
           Bo!StartT5, Bo!RelaysUp, Bo!StartT2,
           Bo!StartT6, Bo!StartT3, Bo!StartT8, Bo!WifiUp, Bo!StartT10, Bo!StartT14,
           Bo!StartT16, Bo!StartT17, Bo!StartWeb,
           Bo!StartHeartbeat, Bo!Step, Bo!Begins, Bo!MayFail, Bo!MarkHealthy, Bo!Crash,
           Bo!Cut, Bo!CutShort, bootVars,
           Bo!thisBoot
  <1>2. failCnt >= 3 /\ stage = "check"
    BY <1>1 DEF Bo!CheckRollback
  <1>3. "check" \in Bo!Units \ {"T11"}
    BY DEF Bo!Units
  <1> QED  BY <1>2, <1>3, PlaceRange DEF BootInv

LEMMA BootHolds == Spec => []BootInv
  <1>1. Init => BootInv
    BY BootStarts DEF Init
  <1>2. BootInv /\ [Next]_vars => BootInv'
    BY UnitSteps, BootStep
  <1> QED  BY <1>1, <1>2, PTL DEF Spec

(* No image is given up but after three boots in a row that were cut short:  *)
(* one mark of a healthy start-up forgets those before (main.cpp,            *)
(* ota_check_rollback()).                                                    *)
THEOREM GoodImagesStay == Spec => Bo!GoodImageStays
  <1> DEFINE Stays == bank' # bank => short >= 3
  <1>1. BootInv /\ [Next]_vars => [Stays]_bank
    BY UnitSteps, ImageStays
  <1>2. Spec => [][Next]_vars
    BY PTL DEF Spec
  <1>3. Spec => [][Stays]_bank
    BY <1>1, <1>2, BootHolds, PTL
  <1> QED  BY <1>3 DEF Bo!GoodImageStays
==============================================================================
