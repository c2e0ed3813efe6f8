---------------------------- MODULE ServiceProofs ----------------------------
(* What TLAPS proves of the panel, of who is let in, of the sensors, the     *)
(* network, the ventilation laws and the clock; and of the types of all.     *)
EXTENDS LogProofs, SequenceTheorems

-----------------------------------------------------------------------------
(* The panel (Panel). *)

Flags == {"ap", "settime", "mode", "motor", "param"}

(* Who is asked for a PIN is no admin yet, and where it is asked for the     *)
(* manual menu it is the admin's.                                            *)
PanelInv ==
    /\ Pa!PanelTypeOK /\ Pa!MenuHoldIsAnAdmins
    /\ back # "PIN"
    /\ screen = "PIN" => session # Pa!Admin
    /\ screen # "PIN" => pending \cap {"mode", "motor"} = {}
    /\ "mode" \in pending => pending = {"mode"}
    /\ "motor" \in pending => role = Pa!Admin /\ pending = {"motor"}

LEMMA PanelStarts ==
    ASSUME Pa!PanelInit
    PROVE  PanelInv
  <1>1. menuHold \in BOOLEAN /\ m3 \in BOOLEAN /\ ~menuHold
    BY DEF Pa!PanelInit
  <1>2. /\ screen \in Pa!Screens /\ back \in Pa!Screens /\ asked \in Pa!Screens
        /\ session \in Pa!None..Pa!Admin /\ role \in {Pa!Farmer, Pa!Admin} /\ pending = {}
        /\ press = "none" /\ back # "PIN" /\ session # Pa!Admin
    BY DEF Pa!PanelInit, Pa!Screens, Pa!None, Pa!Farmer, Pa!Admin
  <1> QED  BY <1>1, <1>2 DEF PanelInv, Pa!PanelTypeOK, Pa!MenuHoldIsAnAdmins

(* What the press is, where the screen does what it does. *)
LEMMA LeavesType ==
    ASSUME PanelInv, Pa!Leaves
    PROVE  press' \in {"none", "timing", "moving"}
  BY DEF PanelInv, Pa!PanelTypeOK, Pa!Leaves

LEMMA PressStep ==
    ASSUME PanelInv, UNCHANGED <<Pa!menuVars, m3>>, press' \in {"none", "timing", "moving"}
    PROVE  PanelInv'
  BY DEF PanelInv, Pa!PanelTypeOK, Pa!MenuHoldIsAnAdmins, Pa!menuVars

LEMMA GoesStep ==
    ASSUME PanelInv, Pa!Leaves, NEW s \in Pa!Screens \ {"PIN"}, Pa!Goes(s), screen # "PIN"
    PROVE  PanelInv'
  BY LeavesType DEF PanelInv, Pa!PanelTypeOK, Pa!MenuHoldIsAnAdmins, Pa!Goes

LEMMA AskPinStep ==
    ASSUME PanelInv, Pa!Leaves, screen # "PIN", NEW r \in {Pa!Farmer, Pa!Admin}, session < r,
           NEW flags \in SUBSET Flags, "mode" \in flags => flags = {"mode"},
           "motor" \in flags => r = Pa!Admin /\ flags = {"motor"},
           NEW ret \in Pa!Screens \ {"PIN"}, NEW for \in Pa!Screens,
           Pa!AskPin(r, flags, ret, for)
    PROVE  PanelInv'
  <1>1. /\ screen' = "PIN" /\ role' = r /\ pending' = flags /\ back' = ret /\ asked' = for
        /\ session' = session /\ menuHold' = menuHold /\ m3' = m3
    BY DEF Pa!AskPin
  <1>2. session' \in Pa!None..Pa!Admin /\ session # Pa!Admin
    BY <1>1 DEF PanelInv, Pa!PanelTypeOK, Pa!None, Pa!Farmer, Pa!Admin
  <1> QED
    BY <1>1, <1>2, LeavesType
       DEF PanelInv, Pa!PanelTypeOK, Pa!MenuHoldIsAnAdmins, Flags, Pa!Screens

LEMMA GoStatusStep ==
    ASSUME PanelInv, Pa!GoStatus, Pa!Leaves
    PROVE  PanelInv'
  BY LeavesType DEF PanelInv, Pa!PanelTypeOK, Pa!MenuHoldIsAnAdmins, Pa!GoStatus, Pa!Screens

LEMMA SessionCloseStep ==
    ASSUME PanelInv, Pa!SessionClose, Pa!Leaves, UNCHANGED <<role, back, asked, m3>>,
           \/ UNCHANGED <<screen, pending>>
           \/ screen' = "STATUS" /\ pending' = pending \ {"mode", "motor"}
    PROVE  PanelInv'
  <1>1. menuHold' \in BOOLEAN /\ ~menuHold' /\ session' = Pa!None
    BY DEF Pa!SessionClose
  <1>2. session' \in Pa!None..Pa!Admin /\ session' # Pa!Admin /\ "STATUS" \in Pa!Screens
    BY <1>1 DEF Pa!None, Pa!Admin, Pa!Screens
  <1> QED  BY <1>1, <1>2, LeavesType DEF PanelInv, Pa!PanelTypeOK, Pa!MenuHoldIsAnAdmins

LEMMA StatusKeyStep ==
    ASSUME PanelInv, Pa!StatusKey
    PROVE  PanelInv'
  <1>0. /\ screen = "STATUS" /\ session \in 0..2 /\ pending \in SUBSET Flags
        /\ pending \cap {"mode", "motor"} = {} /\ Pa!Leaves
        /\ {"STATUS", "ROOT", "CLIMATE", "WIND", "SYSTEM", "MODE", "DATE", "PICK"}
               \subseteq Pa!Screens \ {"PIN"}
    BY DEF Pa!StatusKey, PanelInv, Pa!PanelTypeOK, Pa!None, Pa!Admin, Flags, Pa!Screens
  <1>1. ASSUME NEW s \in {"CLIMATE", "WIND"},
               IF session >= Pa!Farmer THEN Pa!Goes(s) ELSE Pa!AskPin(Pa!Farmer, {}, s, s)
        PROVE  PanelInv'
    <2>1. CASE session >= Pa!Farmer
      BY <1>0, <1>1, <2>1, GoesStep
    <2>2. CASE ~(session >= Pa!Farmer)
      <3>1. /\ s \in Pa!Screens \ {"PIN"} /\ {} \in SUBSET Flags /\ session < Pa!Farmer
            /\ Pa!AskPin(Pa!Farmer, {}, s, s)
        BY <1>0, <1>1, <2>2 DEF Pa!Farmer
      <3> QED  BY <1>0, <3>1, AskPinStep
    <2> QED  BY <2>1, <2>2
  <1>2. ASSUME IF session >= Pa!Farmer THEN Pa!Goes("MODE")
               ELSE Pa!AskPin(Pa!Farmer, {"mode"}, "STATUS", "MODE")
        PROVE  PanelInv'
    <2>1. CASE session >= Pa!Farmer
      BY <1>0, <1>2, <2>1, GoesStep
    <2>2. CASE ~(session >= Pa!Farmer)
      BY <1>0, <1>2, <2>2, AskPinStep DEF Pa!Farmer, Flags
    <2> QED  BY <2>1, <2>2
  <1>3. ASSUME NEW s \in {"SYSTEM", "DATE"}, NEW flags \in SUBSET {"ap", "settime"},
               IF session >= Pa!Admin THEN Pa!Goes(s) ELSE Pa!AskPin(Pa!Admin, flags,
               "STATUS", s)
        PROVE  PanelInv'
    <2>1. CASE session >= Pa!Admin
      BY <1>0, <1>3, <2>1, GoesStep
    <2>2. CASE ~(session >= Pa!Admin)
      <3>1. flags \in SUBSET Flags /\ "motor" \notin flags /\ "mode" \notin flags
        BY DEF Flags
      <3> QED  BY <1>0, <1>3, <2>2, <3>1, AskPinStep DEF Pa!Admin
    <2> QED  BY <2>1, <2>2
  <1>4. ASSUME IF session >= Pa!Admin
               THEN Pa!EnterPick /\ UNCHANGED <<session, role, pending, back, asked>>
               ELSE Pa!AskPin(Pa!Admin, {"motor"}, "STATUS", "PICK")
        PROVE  PanelInv'
    <2>1. CASE session >= Pa!Admin
      <3>1. session = Pa!Admin
        BY <1>0, <2>1 DEF Pa!Admin
      <3> QED
        BY <1>0, <1>4, <2>1, <3>1, LeavesType
           DEF Pa!EnterPick, PanelInv, Pa!PanelTypeOK, Pa!MenuHoldIsAnAdmins
    <2>2. CASE ~(session >= Pa!Admin)
      BY <1>0, <1>4, <2>2, AskPinStep DEF Pa!Admin, Flags
    <2> QED  BY <2>1, <2>2
  <1>5. ASSUME Pa!Goes("ROOT")
        PROVE  PanelInv'
    BY <1>0, <1>5, GoesStep
  <1>6. (pending \cap {"settime"}) \cup {"ap"} \in SUBSET {"ap", "settime"}
        /\ (pending \cap {"ap"}) \cup {"settime"} \in SUBSET {"ap", "settime"}
    OBVIOUS
  <1> QED  BY <1>1, <1>2, <1>3, <1>4, <1>5, <1>6 DEF Pa!StatusKey

LEMMA MenuKeyStep ==
    ASSUME PanelInv, Pa!MenuKey
    PROVE  PanelInv'
  <1>0. /\ session \in 0..2 /\ pending \in SUBSET Flags /\ Pa!Leaves
        /\ back \in Pa!Screens \ {"PIN"}
    BY DEF Pa!MenuKey, PanelInv, Pa!PanelTypeOK, Pa!None, Pa!Admin, Flags
  <1>1. CASE screen \in DOMAIN Pa!Moves /\ \E s \in Pa!Moves[screen] : Pa!Goes(s)
    <2>1. PICK s \in Pa!Moves[screen] : Pa!Goes(s)
      BY <1>1
    <2>2. screen # "PIN" /\ s \in Pa!Screens \ {"PIN"}
      BY <1>1, <2>1 DEF Pa!Moves, Pa!Screens
    <2> QED  BY <1>0, <2>1, <2>2, GoesStep
  <1>2. ASSUME NEW ret \in {"BROWSE", "CLIMATE", "WIND"}, screen \in {"BROWSE", "CR", "WIND"},
               Pa!BeginEdit(ret)
        PROVE  PanelInv'
    <2>1. ret \in Pa!Screens \ {"PIN"} /\ "EDIT" \in Pa!Screens
      BY DEF Pa!Screens
    <2>2. CASE session < Pa!Farmer
      <3>1. pending \cap {"mode", "motor"} = {} /\ pending \cup {"param"} \in SUBSET Flags
            /\ Pa!AskPin(Pa!Farmer, pending \cup {"param"}, ret, "EDIT")
        BY <1>0, <1>2, <2>2 DEF Pa!BeginEdit, PanelInv, Flags
      <3>2. "motor" \notin pending \cup {"param"} /\ "mode" \notin pending \cup {"param"}
        BY <3>1
      <3> QED  BY <1>0, <1>2, <2>1, <2>2, <3>1, <3>2, AskPinStep
    <2>3. CASE ~(session < Pa!Farmer)
      BY <1>0, <1>2, <2>1, <2>3, LeavesType
         DEF Pa!BeginEdit, PanelInv, Pa!PanelTypeOK, Pa!MenuHoldIsAnAdmins
    <2> QED  BY <2>2, <2>3
  <1>3. CASE screen = "EDIT" /\ Pa!Goes(back)
    BY <1>0, <1>3, GoesStep
  <1>4. CASE screen \notin {"STATUS"} /\ Pa!GoStatus
    BY <1>0, <1>4, GoStatusStep
  <1> QED  BY <1>1, <1>2, <1>3, <1>4 DEF Pa!MenuKey

LEMMA AccessKeyStep ==
    ASSUME PanelInv, Pa!AccessKey
    PROVE  PanelInv'
  <1>0. /\ screen = "ACCESS" /\ session \in 0..2 /\ Pa!Leaves
        /\ "motor" \notin pending \ {"param"} /\ "mode" \notin pending
        /\ pending \ {"param"} \in SUBSET Flags
        /\ {"ROOT", "ACCESS"} \subseteq Pa!Screens \ {"PIN"}
    BY DEF Pa!AccessKey, PanelInv, Pa!PanelTypeOK, Pa!None, Pa!Admin, Flags, Pa!Screens
  <1>1. ASSUME NEW r \in {Pa!Farmer, Pa!Admin}, session < r,
               Pa!AskPin(r, pending \ {"param"}, "ACCESS", "ACCESS")
        PROVE  PanelInv'
    BY <1>0, <1>1, AskPinStep
  <1>2. CASE Pa!Goes("ROOT")
    BY <1>0, <1>2, GoesStep
  <1>3. CASE /\ Pa!SessionClose /\ screen' = "STATUS" /\ pending' = pending \ {"mode", "motor"}
             /\ UNCHANGED <<role, back, asked, m3>>
    BY <1>0, <1>3, SessionCloseStep
  <1> QED  BY <1>1, <1>2, <1>3 DEF Pa!AccessKey

(* A right PIN opens the manual menu only for the admin, whose it was.       *)
LEMMA PinRightStep ==
    ASSUME PanelInv, Pa!PinRight
    PROVE  PanelInv'
  <1>0. /\ screen = "PIN" /\ session' = role' /\ role' \in {Pa!Farmer, Pa!Admin}
        /\ pending \subseteq Flags /\ back' = back /\ asked' = asked
        /\ ("mode" \in pending => pending = {"mode"})
        /\ ("motor" \in pending => role' = Pa!Admin /\ pending = {"motor"})
        /\ back \in Pa!Screens \ {"PIN"} /\ asked \in Pa!Screens /\ m3 \in BOOLEAN
    BY DEF Pa!PinRight, PanelInv, Pa!PanelTypeOK, Flags
  <1>1. menuHold = FALSE
    BY <1>0 DEF PanelInv, Pa!PanelTypeOK, Pa!MenuHoldIsAnAdmins
  <1> DEFINE Leads ==
        /\ screen' \in Pa!Screens \ {"PIN"} /\ m3' \in BOOLEAN
        /\ pending' \subseteq Flags /\ "mode" \notin pending' /\ "motor" \notin pending'
        /\ (menuHold' = FALSE) \/ (menuHold' = TRUE /\ "motor" \in pending)
  <1>2. Leads
    <2>0. {"SYSTEM", "DATE", "MODE", "EDIT", "PICK"} \subseteq Pa!Screens \ {"PIN"}
      BY DEF Pa!Screens
    <2>1. CASE "ap" \in pending
      <3>1. /\ pending \cap {"ap", "settime"} # {} /\ pending \cap {"ap", "settime",
                "mode"} # {}
            /\ pending # {} /\ pending # {"param"}
        BY <2>1
      <3>2. screen' = "SYSTEM" /\ pending' = pending \ {"ap"} /\ UNCHANGED <<menuHold, m3>>
        BY <2>1, <3>1 DEF Pa!PinRight
      <3> QED  BY <1>0, <1>1, <2>0, <2>1, <3>2
    <2>2. CASE "ap" \notin pending /\ "settime" \in pending
      <3>1. /\ pending \cap {"ap", "settime"} # {} /\ pending \cap {"ap", "settime",
                "mode"} # {}
            /\ pending # {} /\ pending # {"param"}
        BY <2>2
      <3>2. screen' = "DATE" /\ pending' = pending \ {"settime"} /\ UNCHANGED <<menuHold, m3>>
        BY <2>2, <3>1 DEF Pa!PinRight
      <3> QED  BY <1>0, <1>1, <2>0, <2>2, <3>2
    <2>3. CASE "mode" \in pending
      <3>1. /\ pending \cap {"ap", "settime"} = {} /\ pending \cap {"ap", "settime",
                "mode"} # {}
            /\ pending # {} /\ pending # {"param"} /\ "ap" \notin pending
            /\ "settime" \notin pending
        BY <1>0, <2>3
      <3>2. screen' = "MODE" /\ pending' = pending \ {"mode"} /\ UNCHANGED <<menuHold, m3>>
        BY <2>3, <3>1 DEF Pa!PinRight
      <3> QED  BY <1>0, <1>1, <2>0, <2>3, <3>2
    <2>4. CASE "motor" \in pending
      <3>1. /\ pending \cap {"ap", "settime"} = {} /\ pending \cap {"ap", "settime",
                "mode"} = {}
            /\ pending # {} /\ pending # {"param"} /\ "ap" \notin pending
            /\ "settime" \notin pending /\ "mode" \notin pending
        BY <1>0, <2>4
      <3>2. Pa!EnterPick /\ pending' = pending \ {"motor"}
        BY <2>4, <3>1 DEF Pa!PinRight
      <3>3. screen' = "PICK" /\ m3' = FALSE /\ (menuHold' = FALSE \/ menuHold' = TRUE)
        BY <1>1, <3>2 DEF Pa!EnterPick
      <3> QED  BY <1>0, <2>0, <2>4, <3>2, <3>3
    <2>5. CASE pending = {"param"}
      <3>1. /\ pending \cap {"ap", "settime"} = {} /\ pending \cap {"ap", "settime",
                "mode"} = {}
            /\ pending # {} /\ "ap" \notin pending
            /\ "settime" \notin pending /\ "mode" \notin pending /\ "motor" \notin pending
        BY <2>5
      <3>2. screen' = "EDIT" /\ UNCHANGED <<pending, menuHold, m3>>
        BY <2>5, <3>1 DEF Pa!PinRight
      <3> QED  BY <1>0, <1>1, <2>0, <2>5, <3>2
    <2>6. CASE pending = {}
      <3>1. /\ pending \cap {"ap", "settime"} = {} /\ pending \cap {"ap", "settime",
                "mode"} = {}
            /\ pending # {"param"} /\ "ap" \notin pending
            /\ "settime" \notin pending /\ "mode" \notin pending /\ "motor" \notin pending
        BY <2>6
      <3>2. screen' = back /\ UNCHANGED <<pending, menuHold, m3>>
        BY <2>6, <3>1 DEF Pa!PinRight
      <3> QED  BY <1>0, <1>1, <2>0, <2>6, <3>2
    <2>7. pending = {} \/ pending = {"param"} \/ \E f \in pending : f # "param"
      OBVIOUS
    <2> QED  BY <1>0, <2>1, <2>2, <2>3, <2>4, <2>5, <2>6, <2>7 DEF Flags
  <1>3. session' \in Pa!None..Pa!Admin /\ press' \in {"none", "timing", "moving"}
    BY <1>0, LeavesType DEF Pa!PinRight, Pa!None, Pa!Farmer, Pa!Admin
  <1>4. menuHold' \in BOOLEAN /\ Pa!MenuHoldIsAnAdmins'
    BY <1>0, <1>2 DEF Pa!MenuHoldIsAnAdmins
  <1> HIDE DEF Leads
  <1>5. /\ screen' \in Pa!Screens \ {"PIN"} /\ m3' \in BOOLEAN
        /\ pending' \subseteq Flags /\ "mode" \notin pending' /\ "motor" \notin pending'
    BY <1>2 DEF Leads
  <1> QED
    BY <1>0, <1>3, <1>4, <1>5 DEF PanelInv, Pa!PanelTypeOK, Flags

LEMMA PanelStep ==
    ASSUME PanelInv, [Pa!PanelNext]_panelVars
    PROVE  PanelInv'
  <1>1. CASE Pa!StatusKey \/ Pa!MenuKey \/ Pa!AccessKey \/ Pa!PinRight
    BY <1>1, StatusKeyStep, MenuKeyStep, AccessKeyStep, PinRightStep
  <1>2. CASE Pa!PinCancelled
    <2>1. /\ screen' = back /\ pending' = {} /\ Pa!Leaves
          /\ UNCHANGED <<session, role, back, asked, menuHold, m3>>
      BY <1>2 DEF Pa!PinCancelled
    <2> QED  BY <2>1, LeavesType DEF PanelInv, Pa!PanelTypeOK, Pa!MenuHoldIsAnAdmins
  <1>3. CASE Pa!PinLockedOut \/ Pa!MenuIdle
    BY <1>3, GoStatusStep DEF Pa!PinLockedOut, Pa!MenuIdle
  <1>4. CASE Pa!PickKey
    <2>1. /\ screen = "PICK" /\ screen' = "ACTION" /\ m3' \in BOOLEAN /\ Pa!Leaves
          /\ UNCHANGED <<session, role, pending, back, asked, menuHold>>
      BY <1>4 DEF Pa!PickKey
    <2>2. "ACTION" \in Pa!Screens
      BY DEF Pa!Screens
    <2> QED  BY <2>1, <2>2, LeavesType DEF PanelInv, Pa!PanelTypeOK, Pa!MenuHoldIsAnAdmins
  <1>5. CASE Pa!ActionKey
    <2>1. CASE screen = "ACTION" /\ Pa!Goes("PICK") /\ Pa!Leaves
      BY <2>1, GoesStep DEF Pa!Screens
    <2>2. CASE UNCHANGED <<Pa!menuVars, m3, press>>
      BY <2>2, PressStep DEF PanelInv, Pa!PanelTypeOK
    <2> QED  BY <1>5, <2>1, <2>2 DEF Pa!ActionKey
  <1>6. CASE Pa!PressM3 \/ Pa!ReleaseM3 \/ Pa!MoveM3
    <2>1. UNCHANGED <<Pa!menuVars, m3>> /\ press' \in {"none", "timing", "moving"}
      BY <1>6 DEF Pa!PressM3, Pa!ReleaseM3, Pa!MoveM3
    <2> QED  BY <2>1, PressStep
  <1>7. CASE Pa!SessionTimeout \/ Pa!ResetButton
    BY <1>7, SessionCloseStep DEF Pa!SessionTimeout, Pa!ResetButton
  <1>8. CASE Pa!Restarted
    <2>1. menuHold' \in BOOLEAN /\ m3' \in BOOLEAN /\ ~menuHold'
      BY <1>8 DEF Pa!Restarted
    <2>2. /\ screen' \in Pa!Screens /\ back' \in Pa!Screens /\ asked' \in Pa!Screens
          /\ session' \in Pa!None..Pa!Admin /\ role' \in {Pa!Farmer, Pa!Admin} /\ pending' = {}
          /\ press' = "none" /\ back' # "PIN" /\ session' # Pa!Admin
      BY <1>8 DEF Pa!Restarted, Pa!Screens, Pa!None, Pa!Farmer, Pa!Admin
    <2> QED  BY <2>1, <2>2 DEF PanelInv, Pa!PanelTypeOK, Pa!MenuHoldIsAnAdmins
  <1>9. CASE Pa!WindChanges \/ UNCHANGED panelVars
    <2>1. UNCHANGED <<Pa!menuVars, m3, press>>
      BY <1>9 DEF Pa!WindChanges, panelVars, Pa!menuVars
    <2> QED  BY <2>1, PressStep DEF PanelInv, Pa!PanelTypeOK
  <1> QED
    BY <1>1, <1>2, <1>3, <1>4, <1>5, <1>6, <1>7, <1>8, <1>9 DEF Pa!PanelNext

(* The press: what ends a move asks for a stop, but for the wind, a full Q1  *)
(* or a restart.                                                             *)
LEMMA MoveStops ==
    ASSUME PanelInv, [Pa!PanelNext]_panelVars, press = "moving", press' # "moving"
    PROVE  posted' \in {"stop", "full", "restart"} \/ windy
  <1>1. ASSUME Pa!Leaves  PROVE posted' \in {"stop", "full"}
    BY <1>1 DEF Pa!Leaves
  <1>2. ASSUME Pa!PanelNext  PROVE posted' \in {"stop", "full", "restart"} \/ windy
    BY <1>1, <1>2
       DEF Pa!PanelNext, Pa!StatusKey, Pa!MenuKey, Pa!AccessKey, Pa!PinCancelled,
           Pa!PinLockedOut, Pa!PinRight,
           Pa!PickKey, Pa!ActionKey, Pa!PressM3, Pa!ReleaseM3, Pa!MoveM3, Pa!SessionTimeout,
           Pa!MenuIdle,
           Pa!ResetButton, Pa!Restarted, Pa!WindChanges, Pa!Ended
  <1> QED  BY <1>2 DEF panelVars

LEMMA PanelHolds == Spec => []PanelInv
  <1>1. Init => PanelInv
    BY PanelStarts DEF Init
  <1>2. PanelInv /\ [Next]_vars => PanelInv'
    BY UnitSteps, PanelStep
  <1> QED  BY <1>1, <1>2, PTL DEF Spec

LEMMA MovesAreStopped == Spec => Pa!MoveIsStopped
  <1> DEFINE Stopped ==
        press = "moving" /\ press' # "moving" =>
            posted' \in {"stop", "full", "restart"} \/ windy
  <1>1. PanelInv /\ [Next]_vars => [Stopped]_(Pa!panelVars)
    BY UnitSteps, MoveStops DEF panelVars, Pa!panelVars, Pa!menuVars
  <1>2. Spec => [][Next]_vars
    BY PTL DEF Spec
  <1>3. Spec => [][Stopped]_(Pa!panelVars)
    BY <1>1, <1>2, PanelHolds, PTL
  <1> QED  BY <1>3 DEF Pa!MoveIsStopped

-----------------------------------------------------------------------------
(* The PINs (Pins). *)

SaltsInUse == {ramSalt, hash["farmer"].salt, hash["admin"].salt, pcSet.hash.salt}

(* Whenever a salt is to be made two are in use at the most. *)
SaltToSpare ==
    pcInit = "begin" => \E x, y \in {0} \cup Pi!Salts : SaltsInUse \subseteq {0, x, y}

(* The farmer's stored hash is of the stored salt and the PIN they were told.*)
Sound == hash["farmer"] = [salt |-> salt, pin |-> known["farmer"]]

(* But for a PIN that was on its way in a reset: what is stored is nothing   *)
(* or sound, and where pin_auth_init() has come to says how much there is.   *)
StoreSound ==
    /\ salt = 0 => hash["farmer"] = Pi!NoHash
    /\ hash["farmer"] = Pi!NoHash \/ Sound
    /\ pcInit \in {"farmer", "admin", "up"} => ramSalt = salt /\ salt # 0
    /\ pcInit \in {"admin", "up"} => Sound
    /\ pcSet # Pi!NotSetting =>
          pcInit = "up" /\ pcSet.hash = [salt |-> ramSalt, pin |-> "chosen"]

PinInv == Pi!PinTypeOK /\ SaltToSpare /\ (mixed \/ StoreSound)

LEMMA FreshIsNew ==
    ASSUME PinInv, pcInit = "begin", salt = 0
    PROVE  Pi!FreshSalt \in Pi!Salts
  <1>1. PICK x \in {0} \cup Pi!Salts, y \in {0} \cup Pi!Salts : SaltsInUse \subseteq {0, x, y}
    BY DEF PinInv, SaltToSpare
  <1>2. \E s \in Pi!Salts : s # x /\ s # y /\ s # 0
    <2>1. 1 \in Pi!Salts /\ 2 \in Pi!Salts /\ 3 \in Pi!Salts
      BY DEF Pi!Salts
    <2> QED  BY <2>1
  <1>3. \E s \in Pi!Salts :
            /\ s \notin {salt, ramSalt, hash["farmer"].salt, hash["admin"].salt} \ {0}
            /\ s # pcSet.hash.salt
    BY <1>1, <1>2 DEF SaltsInUse
  <1> QED  BY <1>3 DEF Pi!FreshSalt

LEMMA PinStarts ==
    ASSUME Pi!PinInit
    PROVE  PinInv
  <1>1. Pi!NoHash \in Pi!Hashes /\ Pi!NotSetting \in [role : Pi!Roles, hash : Pi!Hashes]
    BY DEF Pi!NoHash, Pi!NotSetting, Pi!Hashes, Pi!Roles
  <1>2. Pi!PinTypeOK
    BY <1>1 DEF Pi!PinInit, Pi!PinTypeOK, Pi!Roles
  <1>3. SaltsInUse \subseteq {0}
    BY DEF Pi!PinInit, SaltsInUse, Pi!Roles, Pi!NoHash, Pi!NotSetting
  <1>4. StoreSound
    BY DEF Pi!PinInit, StoreSound, Pi!Roles
  <1> QED  BY <1>2, <1>3, <1>4 DEF PinInv, SaltToSpare

LEMMA PinStep ==
    ASSUME PinInv, [Pi!PinNext]_pinVars
    PROVE  PinInv'
  <1>0. /\ "farmer" \in Pi!Roles /\ "admin" \in Pi!Roles /\ Pi!NoHash \in Pi!Hashes
        /\ Pi!NotSetting \in [role : Pi!Roles, hash : Pi!Hashes] /\ 0 \notin Pi!Salts
    BY DEF Pi!Roles, Pi!NoHash, Pi!Hashes, Pi!NotSetting, Pi!Salts
  <1>1. CASE Pi!InitSalt
    <2>0. UNCHANGED <<hash, known, pcSet, mixed>> /\ pcInit = "begin"
      BY <1>1 DEF Pi!InitSalt
    <2>1. inited' \in BOOLEAN
      BY <1>1 DEF Pi!InitSalt
    <2>2. CASE salt = 0
      <3>1. Pi!FreshSalt \in Pi!Salts /\ ramSalt' = Pi!FreshSalt
        BY <1>1, <2>0, <2>2, FreshIsNew DEF Pi!InitSalt
      <3>2. \/ salt' = ramSalt' /\ pcInit' = "farmer"
            \/ salt' = salt /\ pcInit' = "failed"
        BY <1>1, <2>2 DEF Pi!InitSalt
      <3>3. Pi!PinTypeOK' /\ SaltToSpare'
        BY <1>0, <2>0, <2>1, <2>2, <3>1, <3>2 DEF PinInv, Pi!PinTypeOK, SaltToSpare
      <3>4. StoreSound => StoreSound'
        BY <1>0, <2>0, <2>2, <3>1, <3>2 DEF StoreSound, Sound
      <3> QED  BY <2>0, <3>3, <3>4 DEF PinInv
    <2>3. CASE salt # 0
      <3>1. /\ ramSalt' = salt /\ salt' = salt
            /\ pcInit' = IF hash["farmer"] = Pi!NoHash THEN "farmer" ELSE "up"
        BY <1>1, <2>3 DEF Pi!InitSalt
      <3>2. Pi!PinTypeOK' /\ SaltToSpare'
        BY <1>0, <2>0, <2>1, <2>3, <3>1 DEF PinInv, Pi!PinTypeOK, SaltToSpare
      <3>3. StoreSound => StoreSound'
        BY <1>0, <2>0, <2>3, <3>1 DEF StoreSound, Sound
      <3> QED  BY <2>0, <3>2, <3>3 DEF PinInv
    <2> QED  BY <2>2, <2>3
  <1>2. ASSUME NEW r \in Pi!Roles, NEW next \in {"admin", "up"}, Pi!InitHash(r, next),
               (r = "farmer" /\ next = "admin") \/ (r = "admin" /\ next = "up")
        PROVE  PinInv'
    <2>0. UNCHANGED <<salt, ramSalt, pcSet, mixed>> /\ pcInit = r
      BY <1>2 DEF Pi!InitHash
    <2>1. inited' \in BOOLEAN
      BY <1>2 DEF Pi!InitHash
    <2>2. \/ /\ hash' = [hash EXCEPT ![r] = [salt |-> ramSalt, pin |-> "default"]]
             /\ known' = [known EXCEPT ![r] = "default"] /\ pcInit' = next
          \/ pcInit' = "failed" /\ UNCHANGED <<hash, known>>
      BY <1>2 DEF Pi!InitHash
    <2>3. [salt |-> ramSalt, pin |-> "default"] \in Pi!Hashes
      BY DEF PinInv, Pi!PinTypeOK, Pi!Hashes
    <2>4. Pi!PinTypeOK' /\ SaltToSpare'
      BY <1>0, <1>2, <2>0, <2>1, <2>2, <2>3 DEF PinInv, Pi!PinTypeOK, SaltToSpare
    <2>5. StoreSound => StoreSound'
      BY <1>0, <1>2, <2>0, <2>2 DEF StoreSound, Sound, PinInv, Pi!PinTypeOK
    <2> QED  BY <2>0, <2>4, <2>5 DEF PinInv
  <1>3. CASE Pi!ResetPins
    <2>1. /\ salt' = 0 /\ hash' = [r \in Pi!Roles |-> Pi!NoHash]
          /\ known' = [r \in Pi!Roles |-> "default"] /\ pcInit' = "begin"
          /\ UNCHANGED <<ramSalt, inited, pcSet>> /\ mixed' = (pcSet # Pi!NotSetting)
      BY <1>3 DEF Pi!ResetPins
    <2>2. Pi!PinTypeOK'
      BY <1>0, <2>1 DEF PinInv, Pi!PinTypeOK
    <2>3. pcSet.hash.salt \in {0} \cup Pi!Salts /\ ramSalt \in {0} \cup Pi!Salts
      BY DEF PinInv, Pi!PinTypeOK, Pi!Hashes
    <2>4. SaltsInUse' \subseteq {0, ramSalt, pcSet.hash.salt}
      BY <1>0, <2>1 DEF SaltsInUse, Pi!NoHash
    <2>5. SaltToSpare'
      BY <2>3, <2>4 DEF SaltToSpare
    <2>6. pcSet = Pi!NotSetting => StoreSound'
      BY <1>0, <2>1 DEF StoreSound
    <2> QED  BY <2>1, <2>2, <2>5, <2>6 DEF PinInv
  <1>4. CASE Pi!SetCompute
    <2>1. PICK r \in Pi!Roles :
            /\ inited /\ pcSet = Pi!NotSetting
            /\ pcSet' = [role |-> r, hash |-> [salt |-> ramSalt, pin |-> "chosen"]]
            /\ UNCHANGED <<salt, ramSalt, hash, known, pcInit, inited>>
            /\ mixed' = (mixed \/ pcInit # "up")
      BY <1>4 DEF Pi!SetCompute
    <2>2. pcSet' \in [role : Pi!Roles, hash : Pi!Hashes] /\ mixed' \in BOOLEAN
      BY <2>1 DEF PinInv, Pi!PinTypeOK, Pi!Hashes
    <2>3. Pi!PinTypeOK'
      BY <2>1, <2>2 DEF PinInv, Pi!PinTypeOK
    <2>4. SaltsInUse' \subseteq SaltsInUse
      BY <2>1 DEF SaltsInUse
    <2>5. SaltToSpare'
      BY <2>1, <2>4 DEF PinInv, SaltToSpare
    <2>6. StoreSound /\ pcInit = "up" => StoreSound'
      BY <2>1 DEF StoreSound, Sound
    <2> QED  BY <2>1, <2>3, <2>5, <2>6 DEF PinInv
  <1>5. CASE Pi!SetStore
    <2>0. /\ pcSet # Pi!NotSetting /\ pcSet' = Pi!NotSetting
          /\ UNCHANGED <<salt, ramSalt, pcInit, inited, mixed>>
      BY <1>5 DEF Pi!SetStore
    <2>1. \/ /\ hash' = [hash EXCEPT ![pcSet.role] = pcSet.hash]
             /\ known' = [known EXCEPT ![pcSet.role] = "chosen"]
          \/ UNCHANGED <<hash, known>>
      BY <1>5 DEF Pi!SetStore
    <2>2. pcSet.role \in Pi!Roles /\ pcSet.hash \in Pi!Hashes
      BY DEF PinInv, Pi!PinTypeOK
    <2>3. Pi!PinTypeOK'
      BY <1>0, <2>0, <2>1, <2>2 DEF PinInv, Pi!PinTypeOK
    <2>4. SaltsInUse' \subseteq SaltsInUse \cup {0}
      BY <1>0, <2>0, <2>1, <2>2 DEF SaltsInUse, PinInv, Pi!PinTypeOK, Pi!NotSetting, Pi!NoHash
    <2>5. SaltToSpare'
      BY <2>0, <2>4 DEF PinInv, SaltToSpare
    <2>6. StoreSound => StoreSound'
      BY <1>0, <2>0, <2>1, <2>2 DEF StoreSound, Sound, PinInv, Pi!PinTypeOK
    <2> QED  BY <2>0, <2>3, <2>5, <2>6 DEF PinInv
  <1>6. CASE Pi!PinsPowerFail
    <2>1. /\ pcInit' = "begin" /\ pcSet' = Pi!NotSetting /\ ramSalt' = 0 /\ inited' = FALSE
          /\ UNCHANGED <<salt, hash, known, mixed>>
      BY <1>6 DEF Pi!PinsPowerFail
    <2>2. Pi!PinTypeOK'
      BY <1>0, <2>1 DEF PinInv, Pi!PinTypeOK
    <2>3. /\ hash["farmer"].salt \in {0} \cup Pi!Salts
             /\ hash["admin"].salt \in {0} \cup Pi!Salts
      BY <1>0 DEF PinInv, Pi!PinTypeOK, Pi!Hashes
    <2>4. SaltsInUse' \subseteq {0, hash["farmer"].salt, hash["admin"].salt}
      <3>1. Pi!NotSetting.hash.salt = 0
        BY DEF Pi!NotSetting, Pi!NoHash
      <3> QED  BY <2>1, <3>1 DEF SaltsInUse
    <2>5. SaltToSpare'
      BY <2>3, <2>4 DEF SaltToSpare
    <2>6. StoreSound => StoreSound'
      BY <2>1 DEF StoreSound, Sound
    <2> QED  BY <2>1, <2>2, <2>5, <2>6 DEF PinInv
  <1>7. CASE UNCHANGED pinVars
    BY <1>7 DEF pinVars, PinInv, Pi!PinTypeOK, SaltToSpare, SaltsInUse, StoreSound, Sound
  <1>8. CASE Pi!InitHash("farmer", "admin") \/ Pi!InitHash("admin", "up")
    BY <1>0, <1>2, <1>8
  <1> QED
    BY <1>1, <1>3, <1>4, <1>5, <1>6, <1>7, <1>8 DEF Pi!PinNext

LEMMA FarmerIsLetIn ==
    ASSUME PinInv
    PROVE  Pi!FarmerGetsIn
  BY DEF PinInv, StoreSound, Sound, Pi!FarmerGetsIn

LEMMA PinsHold == Spec => []PinInv
  <1>1. Init => PinInv
    BY PinStarts DEF Init
  <1>2. PinInv /\ [Next]_vars => PinInv'
    BY UnitSteps, PinStep
  <1> QED  BY <1>1, <1>2, PTL DEF Spec

-----------------------------------------------------------------------------
(* The sessions of the web server (Sessions). *)

SlotRecord ==
    [token : Tokens \union {Ws!Nobody}, expiry : Nat, len : Timeouts \union {0}, age : Nat]

(* An expiry and the age of its session grow together: their sum passes the  *)
(* clock by the timeout, and by what the clock was set back.                 *)
SessionInv ==
    /\ sessions \in [Slots -> SlotRecord]
    /\ now \in 1..MaxNow /\ setBack \in 0..MaxNow
    /\ \A s \in Slots :
        sessions[s].expiry + sessions[s].age <= now + sessions[s].len + setBack

-----------------------------------------------------------------------------
LEMMA RecordFields ==
    ASSUME Ws!SessionAssumption, NEW r \in SlotRecord
    PROVE  /\ r.expiry \in Nat /\ r.age \in Nat /\ r.len \in Nat
           /\ r.token \in Tokens \union {Ws!Nobody} /\ r.len \in Timeouts \union {0}
  <1>1. /\ r.expiry \in Nat /\ r.age \in Nat /\ r.len \in Timeouts \union {0}
        /\ r.token \in Tokens \union {Ws!Nobody}
    BY DEF SlotRecord
  <1>2. Timeouts \union {0} \subseteq Nat
    BY DEF Ws!SessionAssumption
  <1> QED  BY <1>1, <1>2

LEMMA SessionInitInv ==
    ASSUME Ws!SessionAssumption, Ws!SessionInit
    PROVE  SessionInv
  BY DEF Ws!SessionAssumption, Ws!SessionInit, SessionInv, SlotRecord, Ws!FreeSlot, Ws!Nobody

(* What puts a session in a slot, or wipes it, leaves the others alone.      *)
LEMMA SlotWritten ==
    ASSUME Ws!SessionAssumption, SessionInv, NEW s \in Slots, NEW r \in SlotRecord,
           sessions' = [sessions EXCEPT ![s] = r],
           r.expiry + r.age <= now + r.len + setBack,
           UNCHANGED <<now, setBack>>
    PROVE  SessionInv'
  <1>1. sessions' \in [Slots -> SlotRecord]
    BY DEF SessionInv
  <1>2. now' \in 1..MaxNow /\ setBack' \in 0..MaxNow
    BY DEF SessionInv
  <1>3. ASSUME NEW o \in Slots
        PROVE  sessions'[o].expiry + sessions'[o].age <= now' + sessions'[o].len + setBack'
    <2>1. CASE o = s
      BY <2>1 DEF SessionInv
    <2>2. CASE o # s
      BY <2>2 DEF SessionInv
    <2> QED  BY <2>1, <2>2
  <1> QED  BY <1>1, <1>2, <1>3 DEF SessionInv

LEMMA SessionStepInv ==
    ASSUME Ws!SessionAssumption, SessionInv, [Ws!SessionNext]_sessionVars
    PROVE  SessionInv'
  <1>1. ASSUME NEW token \in Tokens, Ws!FindAndRenew(token)
        PROVE  SessionInv'
    <2>1. PICK s \in Slots :
            /\ sessions' = [sessions EXCEPT ![s].expiry = now + sessions[s].len, ![s].age = 0]
            /\ UNCHANGED <<now, setBack>>
      BY <1>1 DEF Ws!FindAndRenew
    <2> DEFINE r == [sessions[s] EXCEPT !.expiry = now + sessions[s].len, !.age = 0]
    <2>2. sessions[s] \in SlotRecord /\ now \in Nat /\ setBack \in Nat
      BY DEF SessionInv
    <2>6. /\ sessions[s].len \in Nat /\ sessions[s].len \in Timeouts \union {0}
          /\ sessions[s].token \in Tokens \union {Ws!Nobody}
      BY <2>2, RecordFields
    <2>7. now + sessions[s].len \in Nat
      BY <2>2, <2>6
    <2>3. /\ r \in SlotRecord
          /\ r.expiry = now + sessions[s].len /\ r.age = 0 /\ r.len = sessions[s].len
      BY <2>2, <2>6, <2>7 DEF SlotRecord
    <2>4. sessions' = [sessions EXCEPT ![s] = r]
      BY <2>1, <2>2 DEF SlotRecord, SessionInv
    <2>5. r.expiry + r.age <= now + r.len + setBack
      BY <2>2, <2>3, <2>6
    <2> HIDE DEF r
    <2> QED  BY <2>1, <2>3, <2>4, <2>5, SlotWritten
  <1>2. ASSUME NEW token \in Tokens, Ws!Logout(token)
        PROVE  SessionInv'
    <2>1. PICK s \in Slots :
            sessions' = [sessions EXCEPT ![s] = Ws!FreeSlot] /\ UNCHANGED <<now, setBack>>
      BY <1>2 DEF Ws!Logout
    <2>2. /\ Ws!FreeSlot \in SlotRecord
          /\ Ws!FreeSlot.expiry + Ws!FreeSlot.age <= now + Ws!FreeSlot.len + setBack
      BY DEF Ws!FreeSlot, SlotRecord, Ws!Nobody, SessionInv
    <2> QED  BY <2>1, <2>2, SlotWritten
  <1>3. ASSUME NEW token \in Tokens, NEW len \in Timeouts, Ws!Login(token, len)
        PROVE  SessionInv'
    <2> DEFINE r == [token |-> token, expiry |-> now + len, len |-> len, age |-> 0]
    <2>1. Ws!Chosen \subseteq Slots
      BY DEF Ws!Chosen, Ws!Free, Ws!First, Ws!Soonest
    <2>2. PICK s \in Slots : sessions' = [sessions EXCEPT ![s] = r] /\ UNCHANGED <<now,
           setBack>>
      BY <1>3, <2>1 DEF Ws!Login
    <2>3. r \in SlotRecord /\ r.expiry + r.age <= now + r.len + setBack
      BY DEF SlotRecord, Ws!SessionAssumption, SessionInv
    <2> HIDE DEF r
    <2> QED  BY <2>2, <2>3, SlotWritten
  <1>4. CASE Ws!TimePasses
    <2>1. now' \in 1..MaxNow /\ setBack' \in 0..MaxNow /\ now' = now + 1 /\ setBack' = setBack
      BY <1>4 DEF Ws!TimePasses, SessionInv, Ws!SessionAssumption
    <2>2. ASSUME NEW s \in Slots
          PROVE  /\ Ws!Older(s) \in SlotRecord
                 /\ Ws!Older(s).expiry + Ws!Older(s).age <= now' + Ws!Older(s).len + setBack'
      <3>1. sessions[s] \in SlotRecord /\ now \in Nat /\ setBack \in Nat
        BY DEF SessionInv
      <3>2. sessions[s].expiry + sessions[s].age <= now + sessions[s].len + setBack
        BY DEF SessionInv
      <3>3. /\ sessions[s].expiry \in Nat /\ sessions[s].age \in Nat /\ sessions[s].len \in Nat
            /\ sessions[s].len \in Timeouts \union {0}
            /\ sessions[s].token \in Tokens \union {Ws!Nobody}
        BY <3>1, RecordFields
      <3>4. CASE sessions[s].token = Ws!Nobody
        BY <2>1, <3>1, <3>2, <3>3, <3>4 DEF Ws!Older
      <3>5. CASE sessions[s].token # Ws!Nobody
        <4> DEFINE r == [sessions[s] EXCEPT !.age = sessions[s].age + 1]
        <4>1. sessions[s].age + 1 \in Nat
          BY <3>3
        <4>2. /\ r \in SlotRecord /\ r.age = sessions[s].age + 1
              /\ r.expiry = sessions[s].expiry /\ r.len = sessions[s].len
          BY <3>1, <3>3, <4>1 DEF SlotRecord
        <4>3. Ws!Older(s) = r
          BY <3>5 DEF Ws!Older
        <4> HIDE DEF r
        <4> QED  BY <2>1, <3>1, <3>2, <3>3, <4>2, <4>3
      <3> QED  BY <3>4, <3>5
    <2>3. sessions' = [s \in Slots |-> Ws!Older(s)]
      BY <1>4 DEF Ws!TimePasses
    <2> QED  BY <2>1, <2>2, <2>3 DEF SessionInv
  <1>5. CASE Ws!ClockIsSet
    <2>1. PICK t \in 1..MaxNow :
            /\ now' = t /\ UNCHANGED sessions /\ setBack' <= MaxNow
            /\ setBack' = IF t < now THEN setBack + now - t ELSE setBack
      BY <1>5 DEF Ws!ClockIsSet
    <2>2. now' \in 1..MaxNow /\ setBack' \in 0..MaxNow /\ now + setBack <= now' + setBack'
      BY <2>1 DEF SessionInv, Ws!SessionAssumption
    <2>3. ASSUME NEW s \in Slots
          PROVE  sessions[s].expiry + sessions[s].age <= now' + sessions[s].len + setBack'
      <3>1. sessions[s] \in SlotRecord /\ now \in Nat /\ setBack \in Nat
        BY DEF SessionInv
      <3>2. sessions[s].expiry + sessions[s].age <= now + sessions[s].len + setBack
        BY DEF SessionInv
      <3>3. sessions[s].expiry \in Nat /\ sessions[s].age \in Nat /\ sessions[s].len \in Nat
        BY <3>1, RecordFields
      <3> QED  BY <2>1, <2>2, <3>1, <3>2, <3>3
    <2> QED  BY <2>1, <2>2, <2>3 DEF SessionInv
  <1>6. CASE UNCHANGED sessionVars
    BY <1>6 DEF SessionInv, sessionVars
  <1> QED  BY <1>1, <1>2, <1>3, <1>4, <1>5, <1>6 DEF Ws!SessionNext

LEMMA Lapses ==
    ASSUME Ws!SessionAssumption, SessionInv
    PROVE  Ws!LapsesInTime
  <1> SUFFICES ASSUME NEW s \in Slots, Ws!Live(s)
               PROVE  sessions[s].age < sessions[s].len + setBack
    BY DEF Ws!LapsesInTime
  <1>1. sessions[s] \in SlotRecord /\ now \in Nat /\ setBack \in Nat
    BY DEF SessionInv
  <1>2. sessions[s].expiry + sessions[s].age <= now + sessions[s].len + setBack
    BY DEF SessionInv
  <1>3. sessions[s].expiry \in Nat /\ sessions[s].age \in Nat /\ sessions[s].len \in Nat
    BY <1>1, RecordFields
  <1> QED  BY <1>1, <1>2, <1>3 DEF Ws!Live

LEMMA SessionTyped == ASSUME Ws!SessionAssumption, SessionInv  PROVE Ws!SessionTypeOK
  BY DEF Ws!SessionAssumption, SessionInv, SlotRecord, Ws!SessionTypeOK

(* What a step does to who is logged in. *)
Spared ==
    \A s \in Slots :
        (Ws!Live(s) /\ sessions'[s].token \notin {sessions[s].token, Ws!Nobody}) =>
            \A other \in Slots :
                Ws!Live(other) /\ sessions[s].expiry <= sessions[other].expiry

LEMMA LoginSpares ==
    ASSUME Ws!SessionAssumption, SessionInv, [Ws!SessionNext]_sessionVars
    PROVE  Spared
  <1> SUFFICES ASSUME NEW s \in Slots, Ws!Live(s),
                      sessions'[s].token \notin {sessions[s].token, Ws!Nobody},
                      NEW other \in Slots
               PROVE  Ws!Live(other) /\ sessions[s].expiry <= sessions[other].expiry
    BY DEF Spared
  <1>0. /\ sessions \in [Slots -> SlotRecord] /\ sessions[s] \in SlotRecord
        /\ sessions[other] \in SlotRecord /\ now \in 1..MaxNow
    BY DEF SessionInv
  <1>1. ASSUME NEW token \in Tokens, Ws!FindAndRenew(token)
        PROVE  FALSE
    BY <1>0, <1>1 DEF Ws!FindAndRenew, SlotRecord
  <1>2. ASSUME NEW token \in Tokens, Ws!Logout(token)
        PROVE  FALSE
    BY <1>0, <1>2 DEF Ws!Logout, Ws!FreeSlot
  <1>3. CASE Ws!TimePasses
    BY <1>0, <1>3 DEF Ws!TimePasses, Ws!Older, SlotRecord
  <1>4. CASE Ws!ClockIsSet \/ UNCHANGED sessionVars
    BY <1>4 DEF Ws!ClockIsSet, sessionVars
  <1>5. ASSUME NEW token \in Tokens, NEW len \in Timeouts, Ws!Login(token, len)
        PROVE  Ws!Live(other) /\ sessions[s].expiry <= sessions[other].expiry
    <2>1. s \in Ws!Chosen
      BY <1>0, <1>5 DEF Ws!Login
    <2>2. sessions[s].expiry # 0
      BY <1>0 DEF Ws!Live
    <2>3. s \in Ws!Soonest
      BY <2>1, <2>2 DEF Ws!Chosen, Ws!Free, Ws!First
    <2> QED  BY <1>0, <2>3 DEF Ws!Soonest, Ws!Live, SlotRecord
  <1> QED  BY <1>1, <1>2, <1>3, <1>4, <1>5 DEF Ws!SessionNext

LEMMA SessionsHold == Spec => []SessionInv
  <1>1. Init => SessionInv
    BY ServicesAssumption, SessionInitInv DEF Init
  <1>2. SessionInv /\ [Next]_vars => SessionInv'
    BY ServicesAssumption, WorldSteps, SessionStepInv
  <1> QED  BY <1>1, <1>2, PTL DEF Spec

(* Nobody holds the menu but an admin who is logged in (ui_display.cpp), the *)
(* PIN that the farmer knows opens whatever cut a change of it short         *)
(* (pin_auth.cpp), and a session left alone outlives its timeout by what the *)
(* clock was set back and no more (web_server.cpp).                          *)
THEOREM NobodyComesInWrongly == Spec => []AccessIsRight
  <1>1. PanelInv /\ PinInv /\ SessionInv => AccessIsRight
    BY ServicesAssumption, FarmerIsLetIn, Lapses DEF PanelInv, AccessIsRight
  <1> QED  BY <1>1, PanelHolds, PinsHold, SessionsHold, PTL

(* No live session is thrown out by another's login while there is a slot    *)
(* that is free or has lapsed, and then it is the one that would have run    *)
(* out first (web_server.cpp, login_handler()).                              *)
THEOREM LoginSparesTheLive == Spec => SessionsLast
  <1>1. SessionInv /\ [Next]_vars => [Spared]_(Ws!sessionVars)
    BY ServicesAssumption, WorldSteps, LoginSpares DEF sessionVars, Ws!sessionVars
  <1>2. Spec => [][Next]_vars
    BY PTL DEF Spec
  <1>3. Spec => [][Spared]_(Ws!sessionVars)
    BY <1>1, <1>2, SessionsHold, PTL
  <1> QED  BY <1>3 DEF Spared, Ws!SessionsLast, SessionsLast

-----------------------------------------------------------------------------
(* The bus of the sensors (Bus). *)

(* What is on the bus is a question of some task's, or garbled.  The types   *)
(* do not ask that the slaves answer in time.                                *)
BusTypes ==
    /\ Bu!BusTypeOK /\ onBus \in {"idle", "send", "await", "gap"}
    /\ asking \in Bu!Questions \cup {Bu!Junk} /\ (onBus # "idle" => asking \in Bu!Questions)

LEMMA BusTypesStart == ASSUME Bu!BusInit  PROVE BusTypes
  BY DEF Bu!BusInit, BusTypes, Bu!BusTypeOK, Bu!Nothing

LEMMA BusTypesStep == ASSUME BusTypes, [Bu!BusNext]_busVars  PROVE BusTypes'
  <1> USE DEF BusTypes, Bu!BusTypeOK
  <1>1. ASSUME NEW t \in Bu!BusTasks, Bu!Lock(t)
        PROVE  BusTypes'
    <2>1. CASE /\ busOf = "none" /\ busOf' = t
               /\ asking' \in Bu!QuestionsOf[t] /\ onBus' = "send"
               /\ UNCHANGED <<rx, owed, got>>
      <3>1. asking' \in Bu!Questions /\ t # "none"
        BY <2>1 DEF Bu!Questions, Bu!BusTasks, Bu!QuestionsOf
      <3> QED  BY <2>1, <3>1
    <2>2. CASE UNCHANGED <<busOf, asking, onBus, rx, owed>>
      BY <2>2
    <2> QED  BY <1>1, <2>1, <2>2 DEF Bu!Lock
  <1>2. CASE Bu!Reinit
    BY <1>2 DEF Bu!Reinit
  <1>3. CASE Bu!Send
    <2>1. /\ onBus = "send" /\ onBus' = "await" /\ rx' = <<>>
          /\ UNCHANGED <<busOf, asking, got>> /\ owed' \in {owed, owed \cup {asking}}
      BY <1>3 DEF Bu!Send
    <2>2. owed' \subseteq Bu!Questions
      BY <2>1
    <2> QED  BY <2>1, <2>2
  <1>4. CASE Bu!Answer
    <2>1. PICK q \in owed : owed' = owed \ {q} /\ \E f \in {q, Bu!Junk} : rx' = Append(rx, f)
      BY <1>4 DEF Bu!Answer
    <2>2. PICK f \in {q, Bu!Junk} : rx' = Append(rx, f)
      BY <2>1
    <2>3. UNCHANGED <<busOf, asking, onBus, got>> /\ f \in Bu!Questions \cup {Bu!Junk}
      BY <1>4, <2>1, <2>2 DEF Bu!Answer
    <2> QED  BY <2>1, <2>2, <2>3
  <1>5. CASE Bu!Receive \/ Bu!TimesOut \/ Bu!Unlock
    <2>1. CASE Bu!Receive
      BY <2>1 DEF Bu!Receive
    <2>2. CASE Bu!TimesOut
      BY <2>2 DEF Bu!TimesOut
    <2>3. CASE Bu!Unlock
      BY <2>3 DEF Bu!Unlock
    <2> QED  BY <1>5, <2>1, <2>2, <2>3
  <1>6. CASE UNCHANGED busVars
    BY <1>6 DEF busVars
  <1> QED  BY <1>1, <1>2, <1>3, <1>4, <1>5, <1>6 DEF Bu!BusNext

(* Slaves that answer in time leave nothing behind: before a question goes   *)
(* out none is owed, and on its way only it can be answered.                 *)
BusInv ==
    /\ BusTypes /\ Bu!NobodysLeftovers
    /\ onBus \in {"idle", "send"} => owed = {}
    /\ onBus \in {"await", "gap"} => owed \subseteq {asking}
    /\ onBus = "await" => rx \in Seq({asking, Bu!Junk})

LEMMA BusStarts ==
    ASSUME Bu!BusInit
    PROVE  BusInv
  BY BusTypesStart DEF Bu!BusInit, BusInv, Bu!NobodysLeftovers, Bu!Nothing

LEMMA BusStep ==
    ASSUME ~LateBeyondGap, BusInv, [Bu!BusNext]_busVars
    PROVE  BusInv'
  <1>0. BusTypes' /\ BusTypes
    BY BusTypesStep DEF BusInv
  <1>1. ASSUME NEW t \in Bu!BusTasks, Bu!Lock(t)
        PROVE  BusInv'
    <2>1. CASE /\ busOf = "none" /\ busOf' = t
               /\ asking' \in Bu!QuestionsOf[t] /\ onBus' = "send"
               /\ UNCHANGED <<rx, owed, got>>
      <3>1. asking' \in Bu!Questions /\ t # "none"
        BY <2>1 DEF Bu!Questions, Bu!BusTasks, Bu!QuestionsOf
      <3> QED  BY <1>0, <2>1, <3>1 DEF BusInv, BusTypes, Bu!BusTypeOK, Bu!NobodysLeftovers
    <2>2. CASE /\ busOf \notin {"none", t}
               /\ got' = [Bu!Nothing EXCEPT !.status = "BUSY"]
               /\ UNCHANGED <<busOf, asking, onBus, rx, owed>>
      <3>1. got'.status = "BUSY"
        BY <2>2 DEF Bu!Nothing
      <3> QED  BY <1>0, <2>2, <3>1 DEF BusInv, Bu!NobodysLeftovers
    <2> QED  BY <1>1, <2>1, <2>2 DEF Bu!Lock
  <1>2. CASE Bu!Reinit
    BY <1>0, <1>2 DEF Bu!Reinit, BusInv, Bu!NobodysLeftovers
  <1>3. CASE Bu!Send
    <2>1. /\ onBus = "send" /\ onBus' = "await" /\ rx' = <<>>
          /\ UNCHANGED <<busOf, asking, got>> /\ owed' \in {owed, owed \cup {asking}}
      BY <1>3 DEF Bu!Send
    <2>2. owed' \subseteq {asking}
      BY <2>1 DEF BusInv
    <2> QED  BY <1>0, <2>1, <2>2 DEF BusInv, Bu!NobodysLeftovers
  <1>4. CASE Bu!Answer
    <2>0. PICK q \in owed : owed' = owed \ {q} /\ \E f \in {q, Bu!Junk} : rx' = Append(rx, f)
      BY <1>4 DEF Bu!Answer
    <2>1. PICK f \in {q, Bu!Junk} : rx' = Append(rx, f)
      BY <2>0
    <2>2. UNCHANGED <<busOf, asking, onBus, got>>
      BY <1>4 DEF Bu!Answer
    <2>3. q = asking /\ onBus \in {"await", "gap"} /\ f \in {asking, Bu!Junk}
      BY <2>0, <2>1 DEF BusInv, BusTypes, Bu!BusTypeOK
    <2> QED  BY <1>0, <2>0, <2>1, <2>2, <2>3 DEF BusInv, Bu!NobodysLeftovers
  <1>5. CASE Bu!Receive
    <2>1. Head(rx) \in {asking, Bu!Junk}
      BY <1>5 DEF Bu!Receive, BusInv
    <2>2. Bu!Verdict(Bu!Junk) = "CRC"
      BY DEF Bu!Verdict
    <2> QED  BY <1>0, <1>5, <2>1, <2>2 DEF Bu!Receive, BusInv, Bu!NobodysLeftovers
  <1>6. CASE Bu!TimesOut
    BY <1>0, <1>6 DEF Bu!TimesOut, BusInv, Bu!NobodysLeftovers
  <1>7. CASE Bu!Unlock
    BY <1>0, <1>7 DEF Bu!Unlock, BusInv, Bu!NobodysLeftovers
  <1>8. CASE UNCHANGED busVars
    BY <1>0, <1>8 DEF busVars, BusInv, Bu!NobodysLeftovers
  <1> QED  BY <1>1, <1>2, <1>3, <1>4, <1>5, <1>6, <1>7, <1>8 DEF Bu!BusNext

LEMMA BusIsTyped == Spec => []BusTypes
  <1>1. Init => BusTypes
    BY BusTypesStart DEF Init
  <1>2. BusTypes /\ [Next]_vars => BusTypes'
    BY WorldSteps, BusTypesStep
  <1> QED  BY <1>1, <1>2, PTL DEF Spec

LEMMA BusHolds ==
    ASSUME ~LateBeyondGap
    PROVE  Spec => []BusInv
  <1>1. Init => BusInv
    BY BusStarts DEF Init
  <1>2. BusInv /\ [Next]_vars => BusInv'
    BY WorldSteps, BusStep
  <1> QED  BY <1>1, <1>2, PTL DEF Spec

-----------------------------------------------------------------------------
(* The polls, and what a silent sensor comes to (Sensing). *)

(* Every poll of a silent sensor is of its grace or of its failures, until   *)
(* these are as many as any window asks for; and a fault has T3 look.        *)
SenseInv ==
    /\ Se!SenseTypeOK
    /\ protect \in BOOLEAN /\ faultW \in BOOLEAN /\ readOnce \in BOOLEAN
    /\ alarmW \in BOOLEAN /\ prot3 \in BOOLEAN
    /\ failedPolls \in 0 .. Se!Longest /\ silent \in Nat
    /\ failedPolls < Se!Longest => silent <= busyAge + failedPolls
    /\ failedPolls >= (IF readOnce THEN Se!Longest ELSE 1) => faultW
    /\ faultW /\ q6 = Se!None /\ pcS = {} => alarmW \/ ~prot3

LEMMA TheLongest ==
    ASSUME Se!SensingAssumption
    PROVE  /\ Se!Longest \in Nat /\ Se!Longest >= 2 /\ \A w \in Windows : w \in Nat
              /\ Se!TwoOr(w) <= Se!Longest
  <1>1. Se!Max(Windows) \in Windows /\ \A w \in Windows : Se!Max(Windows) >= w
    <2>1. \E x \in Windows : \A y \in Windows : x >= y
      BY DEF Se!SensingAssumption
    <2> QED  BY <2>1 DEF Se!Max
  <1>2. Windows \subseteq Nat
    BY DEF Se!SensingAssumption
  <1> DEFINE m == Se!Max(Windows)
  <1>3. m \in Nat /\ \A w \in Windows : w \in Nat /\ w <= m
    BY <1>1, <1>2
  <1> HIDE DEF m
  <1>4. Se!TwoOr(m) \in Nat /\ Se!TwoOr(m) >= 2 /\ \A w \in Windows : w \in Nat
        /\ Se!TwoOr(w) <= Se!TwoOr(m)
    BY <1>3 DEF Se!TwoOr
  <1> QED  BY <1>4 DEF Se!Longest, m

LEMMA LevelIsSome ==
    ASSUME NEW s
    PROVE  Se!LevelOf(s) # Se!None
  BY DEF Se!LevelOf, Se!None

LEMMA SenseStarts ==
    ASSUME Se!SensingAssumption, Se!SenseInit
    PROVE  SenseInv
  <1>1. 0 \in 0 .. Grace /\ 0 \in 0 .. Se!Longest /\ Se!Longest >= 2 /\ Se!Longest \in Nat
        /\ 0 <= Grace + Se!Longest
    BY TheLongest DEF Se!SensingAssumption
  <1>2. /\ window \in Windows /\ protect \in BOOLEAN /\ samples = <<>> /\ winLast = 0
        /\ faultW = FALSE /\ busyAge = 0 /\ failedPolls = 0 /\ readOnce = FALSE /\ silent = 0
        /\ pcS = {} /\ alarmW = FALSE /\ prot3 = protect
    BY DEF Se!SenseInit
  <1>3. samples \in Seq(Speeds) /\ Len(samples) = 0
    BY <1>2
  <1>4. Se!SenseTypeOK
    BY <1>1, <1>2, <1>3 DEF Se!SenseTypeOK
  <1>5. /\ protect \in BOOLEAN /\ faultW \in BOOLEAN /\ readOnce \in BOOLEAN
        /\ alarmW \in BOOLEAN /\ prot3 \in BOOLEAN
    BY <1>2
  <1>6. ~faultW /\ ~readOnce /\ failedPolls = 0 /\ silent = 0 /\ busyAge = 0
    BY <1>2
  <1> QED  BY <1>1, <1>4, <1>5, <1>6 DEF SenseInv

(* avg_push() *)
LEMMA PushedType ==
    ASSUME Se!SensingAssumption, SenseInv, NEW v \in Speeds
    PROVE  /\ Se!Kept \in Seq(Speeds) /\ Len(Se!Kept) <= window
           /\ Se!Pushed(v) \in Seq(Speeds) /\ Len(Se!Pushed(v)) <= window
  <1>1. /\ samples \in Seq(Speeds) /\ Len(samples) <= winLast /\ window \in Nat \ {0}
    BY DEF SenseInv, Se!SenseTypeOK, Se!SensingAssumption
  <1>2. Se!Kept \in Seq(Speeds) /\ Len(Se!Kept) <= window /\ Len(Se!Kept) \in Nat
    BY <1>1 DEF Se!Kept
  <1>3. CASE Len(Se!Kept) >= window
    <2>1. /\ Tail(Se!Kept) \in Seq(Speeds) /\ Len(Tail(Se!Kept)) = Len(Se!Kept) - 1
      BY <1>1, <1>2, <1>3
    <2>2. Len(Append(Tail(Se!Kept), v)) = Len(Se!Kept) /\ Append(Tail(Se!Kept),
          v) \in Seq(Speeds)
      BY <1>2, <2>1
    <2> QED  BY <1>2, <1>3, <2>2 DEF Se!Pushed
  <1>4. CASE ~(Len(Se!Kept) >= window)
    <2>1. Append(Se!Kept, v) \in Seq(Speeds) /\ Len(Append(Se!Kept, v)) = Len(Se!Kept) + 1
      BY <1>2
    <2> QED  BY <1>1, <1>2, <1>4, <2>1 DEF Se!Pushed
  <1> QED  BY <1>3, <1>4

LEMMA PollStep ==
    ASSUME Se!SensingAssumption, SenseInv, Se!Poll
    PROVE  SenseInv'
  <1>0. /\ Se!Longest \in Nat /\ Se!Longest >= 2 /\ Grace \in Nat
        /\ window \in Windows /\ window \in Nat /\ Se!TwoOr(window) <= Se!Longest
        /\ Se!TwoOr(window) \in Nat /\ Se!TwoOr(window) >= 2
        /\ busyAge \in 0 .. Grace /\ failedPolls \in 0 .. Se!Longest /\ silent \in Nat
        /\ silent <= Grace + Se!Longest /\ faultW \in BOOLEAN /\ readOnce \in BOOLEAN
        /\ (failedPolls < Se!Longest => silent <= busyAge + failedPolls)
    BY TheLongest DEF SenseInv, Se!SenseTypeOK, Se!SensingAssumption, Se!TwoOr
  <1>1. /\ winLast' = window /\ q6' # Se!None
        /\ UNCHANGED <<window, protect, meas, pcS, alarmW, prot3>>
    BY LevelIsSome DEF Se!Poll
  <1>2. /\ failedPolls' \in 0 .. Se!Longest /\ busyAge' \in 0 .. Grace
        /\ silent' \in Nat /\ silent' <= Grace + Se!Longest
        /\ (failedPolls' < Se!Longest => silent' <= busyAge' + failedPolls')
    <2>1. CASE Se!ReadOk
      BY <1>0, <2>1 DEF Se!ReadOk
    <2>2. CASE ~Se!ReadOk
      <3>0. silent' = IF silent < Grace + Se!Longest THEN silent + 1 ELSE silent
        BY <2>2 DEF Se!Poll
      <3>1. CASE Se!ReadBusy
        BY <1>0, <3>0, <3>1 DEF Se!ReadBusy
      <3>2. CASE /\ Se!ReadFails
                 /\ busyAge' = IF busyAge \in {0, Grace} THEN busyAge ELSE busyAge + 1
        BY <1>0, <3>0, <3>2 DEF Se!ReadFails
      <3> QED  BY <2>2, <3>1, <3>2 DEF Se!Poll
    <2> QED  BY <2>1, <2>2
  <1>3. /\ faultW' \in BOOLEAN /\ readOnce' \in BOOLEAN
        /\ (failedPolls' >= (IF readOnce' THEN Se!Longest ELSE 1) => faultW')
        /\ (faultW' => failedPolls' > 0)
    <2>1. CASE Se!ReadOk
      <3>1. faultW' \in BOOLEAN /\ readOnce' \in BOOLEAN
        BY <2>1 DEF Se!ReadOk
      <3>2. ~faultW' /\ readOnce' /\ failedPolls' = 0
        BY <2>1 DEF Se!ReadOk
      <3> QED  BY <1>0, <3>1, <3>2
    <2>2. CASE Se!ReadBusy
      BY <1>0, <2>2 DEF Se!ReadBusy, SenseInv, Se!SenseTypeOK
    <2>3. CASE Se!ReadFails
      <3>1. faultW' \in BOOLEAN /\ readOnce' \in BOOLEAN
        BY <1>0, <2>3 DEF Se!ReadFails
      <3>2. /\ readOnce' = readOnce
            /\ faultW' <=> (faultW \/ failedPolls' >= IF readOnce THEN Se!TwoOr(window) ELSE 1)
        BY <1>0, <2>3 DEF Se!ReadFails
      <3>3. failedPolls' = IF failedPolls < Se!Longest THEN failedPolls + 1 ELSE failedPolls
        BY <2>3 DEF Se!ReadFails
      <3>4. (faultW => failedPolls > 0) /\ failedPolls' \in Nat
        BY <1>0, <3>3 DEF SenseInv, Se!SenseTypeOK
      <3> QED  BY <1>0, <3>1, <3>2, <3>3, <3>4
    <2> QED  BY <2>1, <2>2, <2>3 DEF Se!Poll
  <1>4. samples' \in Seq(Speeds) /\ Len(samples') <= window /\ (readOnce' \/ samples' = <<>>)
    <2>1. CASE Se!ReadOk
      BY <2>1, PushedType DEF Se!ReadOk
    <2>2. CASE Se!ReadBusy \/ Se!ReadFails
      <3>1. samples' = Se!Kept /\ readOnce' = readOnce
        BY <2>2 DEF Se!ReadBusy, Se!ReadFails
      <3>2. Se!Kept \in Seq(Speeds) /\ Len(Se!Kept) <= window
        BY <1>0 DEF Se!Kept, SenseInv, Se!SenseTypeOK
      <3> QED  BY <3>1, <3>2 DEF Se!Kept, SenseInv, Se!SenseTypeOK
    <2> QED  BY <2>1, <2>2 DEF Se!Poll
  <1>5. Se!SenseTypeOK'
    BY <1>0, <1>1, <1>2, <1>3, <1>4 DEF SenseInv, Se!SenseTypeOK
  <1> QED  BY <1>0, <1>1, <1>2, <1>3, <1>5 DEF SenseInv

LEMMA SenseStep ==
    ASSUME Se!SensingAssumption, SenseInv, [Se!SenseNext]_senseVars
    PROVE  SenseInv'
  <1>1. CASE Se!SetSensing \/ UNCHANGED senseVars
    <2>1. /\ window' \in Windows /\ protect' \in BOOLEAN
          /\ UNCHANGED <<Se!sensorVars, q6, meas, pcS, alarmW, prot3>>
      BY <1>1 DEF Se!SetSensing, senseVars, Se!sensorVars, SenseInv, Se!SenseTypeOK
    <2> QED  BY <2>1 DEF SenseInv, Se!SenseTypeOK, Se!sensorVars
  <1>2. CASE Se!Poll
    BY <1>2, PollStep
  <1>3. CASE Se!StoreReading
    <2>1. pcS' = {"T3"} /\ UNCHANGED <<window, protect, Se!sensorVars, alarmW, prot3>>
      BY <1>3 DEF Se!StoreReading
    <2>2. pcS' # {}
      BY <2>1
    <2> QED  BY <2>1, <2>2 DEF SenseInv, Se!SenseTypeOK, Se!sensorVars
  <1>4. CASE Se!JudgeWind
    <2>1. /\ pcS' = {} /\ alarmW' = (protect /\ Se!Unsafe) /\ prot3' = protect
          /\ UNCHANGED <<window, protect, Se!sensorVars, q6, meas>>
      BY <1>4 DEF Se!JudgeWind
    <2>2. alarmW' \in BOOLEAN /\ prot3' \in BOOLEAN /\ (faultW => alarmW' \/ ~prot3')
      BY <2>1 DEF Se!Unsafe, SenseInv
    <2> QED  BY <2>1, <2>2 DEF SenseInv, Se!SenseTypeOK, Se!sensorVars
  <1> QED  BY <1>1, <1>2, <1>3, <1>4 DEF Se!SenseNext

LEMMA SilenceCloses ==
    ASSUME Se!SensingAssumption, SenseInv
    PROVE  Se!DeadSensorCloses
  <1> SUFFICES ASSUME silent >= Se!Patience
               PROVE  faultW /\ (q6 = Se!None /\ pcS = {} => alarmW \/ ~prot3)
    BY DEF Se!DeadSensorCloses
  <1>1. /\ Se!Longest \in Nat /\ Se!Longest >= 2 /\ Grace \in Nat /\ readOnce \in BOOLEAN
        /\ busyAge \in 0 .. Grace /\ failedPolls \in 0 .. Se!Longest /\ silent \in Nat
        /\ (failedPolls < Se!Longest => silent <= busyAge + failedPolls)
    BY TheLongest DEF SenseInv, Se!SenseTypeOK, Se!SensingAssumption
  <1>2. failedPolls >= IF readOnce THEN Se!Longest ELSE 1
    BY <1>1 DEF Se!Patience
  <1> QED  BY <1>2 DEF SenseInv

LEMMA SenseHolds == Spec => []SenseInv
  <1>1. Init => SenseInv
    BY ServicesAssumption, SenseStarts DEF Init
  <1>2. SenseInv /\ [Next]_vars => SenseInv'
    BY ServicesAssumption, WorldSteps, SenseStep
  <1> QED  BY <1>1, <1>2, PTL DEF Spec

(* Where the slaves answer within the gap, a reading is of what was asked    *)
(* for (modbus_bus.cpp); whoever needs another task or driver finds it begun *)
(* (main.cpp); and the polls of a silent sensor come to a fault, and the     *)
(* fault to an alarm (sensor_poll.cpp, safety_monitor.cpp).                  *)
THEOREM SensorsCount ==
    ASSUME ~LateBeyondGap
    PROVE  Spec => []SensorsAreHeard
  <1>1. BusInv /\ BootInv /\ SenseInv => SensorsAreHeard
    BY ServicesAssumption, OrderHolds, SilenceCloses DEF BusInv, SensorsAreHeard
  <1> QED  BY <1>1, BusHolds, BootHolds, SenseHolds, PTL

-----------------------------------------------------------------------------
(* The ventilation laws (VentLaw). *)

LEMMA Quotients ==
    ASSUME NEW n \in Int, NEW w \in Nat \ {0}
    PROVE  n \div w \in Int /\ (n >= 0 => n \div w >= 0)
  OBVIOUS

LEMMA WidthIs == ASSUME NEW hyst \in Nat \ {0}  PROVE La!Width(hyst) \in Nat \ {0}
  BY DEF La!Width, La!AtLeast

LEMMA DeviationIs ==
    ASSUME NEW dev \in Int, NEW hyst \in Nat \ {0}, NEW current \in Int
    PROVE  La!FromDeviation(dev, hyst, current) \in La!Steps
  <1>1. CASE dev <= 0
    BY <1>1 DEF La!FromDeviation, La!Steps
  <1>2. CASE dev > 0
    <2>1. La!Width(hyst) \in Nat \ {0}
      BY WidthIs
    <2> DEFINE n == dev + La!Width(hyst) - 1
    <2>2. n \in Int /\ n >= 0
      BY <1>2, <2>1
    <2>3. n \div La!Width(hyst) \in Int /\ n \div La!Width(hyst) >= 0
      <3> HIDE DEF n
      <3> QED  BY <2>1, <2>2, Quotients
    <2>4. La!AtMost(n \div La!Width(hyst), 3) \in 0..3
      BY <2>3 DEF La!AtMost
    <2> QED  BY <1>2, <2>4 DEF La!FromDeviation, La!Steps
  <1> QED  BY <1>1, <1>2

LawFacts ==
    /\ temp \in Int /\ humid \in Int
    /\ mem \in [t : La!Steps, rh : La!Steps \union {La!None}, step : La!Steps,
        tgt : {La!None} \union 0..Full]

LEMMA LawFactsHold == ASSUME La!LawAssumption, La!LawTypeOK PROVE LawFacts
  BY DEF La!LawAssumption, La!LawTypeOK, LawFacts

LEMMA Limits ==
    ASSUME La!LawAssumption
    PROVE  /\ TMin \in Int /\ TMax \in Int /\ RhMin \in Int /\ RhMax \in Int
           /\ HystT \in Nat \ {0} /\ HystRh \in Nat \ {0}
           /\ Full \in Nat \ {0} /\ StepMax \in 1..Full /\ Band \in 1..Full
              /\ Band + Band <= Full
           /\ MaxTroubles \in Nat
  BY DEF La!LawAssumption

LEMMA DecidedIs ==
    ASSUME La!LawAssumption, LawFacts
    PROVE  /\ La!Decided \in [t : La!Steps, rh : La!Steps \union {La!None}, step : La!Steps,
                           tgt : {La!None} \union 0..Full]
  <1>1. mem.t \in La!Steps /\ mem.rh \in La!Steps \union {La!None} /\ mem.t \in Int
        /\ mem.rh \in Int
    BY DEF LawFacts, La!Steps, La!None
  <1>2. La!RequiredT \in La!Steps
    <2>1. La!Degrees - TMax \in Int
      BY Limits DEF LawFacts, La!Degrees
    <2> QED  BY <1>1, <2>1, Limits, DeviationIs DEF La!RequiredT
  <1>3. La!RequiredRh \in La!Steps \union {La!None}
    <2>1. La!FromDeviation(humid - RhMax, HystRh, mem.rh) \in La!Steps
      <3>1. humid - RhMax \in Int
        BY Limits DEF LawFacts
      <3> QED  BY <1>1, <3>1, Limits, DeviationIs
    <2> QED  BY <2>1 DEF La!RequiredRh, La!Steps
  <1>4. ASSUME NEW a \in La!Steps, NEW b \in La!Steps \union {La!None}
        PROVE  La!Resolve(a, b) \in La!Steps
    BY DEF La!Resolve, La!AtLeast, La!Steps, La!None
  <1>5. La!Resolve(La!RequiredT, La!RequiredRh) \in La!Steps
    BY <1>2, <1>3, <1>4
  <1> QED  BY <1>2, <1>3, <1>5 DEF La!Decided, LawFacts

LEMMA SnappedIs ==
    ASSUME La!LawAssumption, NEW want \in 0..Full
    PROVE  La!Snapped(want) \in 0..Full
  BY Limits DEF La!Snapped

LEMMA ApertureIs == ASSUME La!LawAssumption, LawFacts  PROVE La!Aperture \in 0..Full
  <1>1. (temp - 2 * TMax - 3) \in Int /\ Full \in Int /\ 0 <= Full
    BY Limits DEF LawFacts
  <1> DEFINE n == (temp - 2 * TMax - 3) * Full
  <1>2. n \in Int
    BY <1>1
  <1>3. n \div 4 \in Int
    <2> HIDE DEF n
    <2> QED  BY <1>2
  <1>4. ASSUME NEW v \in Int  PROVE La!Within(v, 0, Full) \in 0..Full
    BY <1>1 DEF La!Within, La!AtLeast, La!AtMost
  <1>5. La!Aperture = La!Within(n \div 4, 0, Full)
    BY Zenon DEF La!Aperture
  <1> QED
    <2> HIDE DEF n
    <2> QED  BY <1>3, <1>4, <1>5

LEMMA TargetIs ==
    ASSUME La!LawAssumption, La!LawTypeOK, NEW d
    PROVE  La!NewTarget(d) \in 0..Full
  <1>1. La!Wanted(d) \in 0..Full
    BY LawFactsHold, ApertureIs, Limits DEF La!Wanted
  <1> DEFINE base == IF mem.tgt = La!None \/ La!Judged \in {"timeout",
       "aborted"} THEN pos ELSE mem.tgt
             gap == La!Wanted(d) - base
  <1>2. base \in 0..Full
    BY LawFactsHold DEF LawFacts, La!LawTypeOK
  <1>3. gap \in Int /\ -StepMax <= StepMax /\ -StepMax \in Int /\ StepMax \in Int
        /\ Full \in Nat
    BY <1>1, <1>2, Limits
  <1>4. base + La!Within(gap, -StepMax, StepMax) \in 0..Full
    <2>1. CASE gap >= 0
      <3>1. La!Within(gap, -StepMax, StepMax) \in 0..gap
        BY <1>3, <2>1, Limits DEF La!Within, La!AtLeast, La!AtMost
      <3> QED  BY <1>1, <1>2, <1>3, <3>1
    <2>2. CASE gap < 0
      <3>1. La!Within(gap, -StepMax, StepMax) \in gap..0
        BY <1>3, <2>2, Limits DEF La!Within, La!AtLeast, La!AtMost
      <3> QED  BY <1>1, <1>2, <1>3, <3>1
    <2> QED  BY <1>3, <2>1, <2>2
  <1> QED  BY <1>2, <1>4 DEF La!NewTarget
LEMMA LawTypesStart == ASSUME La!LawAssumption, La!LawInit  PROVE La!LawTypeOK
  <1>1. /\ temp \in Temps /\ humid \in Humids /\ troubles \in 0..MaxTroubles
        /\ pos \in 0..Full /\ goal = La!None /\ since \in 0..2 /\ lastAsked = La!None
    BY Limits DEF La!LawInit
  <1>2. mem \in [t : La!Steps, rh : La!Steps \union {La!None}, step : La!Steps,
         tgt : {La!None} \union 0..Full]
    BY DEF La!LawInit, La!Fresh, La!Steps
  <1>3. ~La!Moving /\ {linear, available, heldDown, held, taken} \subseteq BOOLEAN
    BY DEF La!LawInit, La!Moving
  <1> QED  BY <1>1, <1>2, <1>3 DEF La!LawInit, La!LawTypeOK

(* The parts of the type that an action leaves to others. *)
MemIs == mem \in [t : La!Steps, rh : La!Steps \union {La!None}, step : La!Steps,
          tgt : {La!None} \union 0..Full]
ReadIs == read = <<>> \/ read \in Temps \X Humids
FlagsAre == linear \in BOOLEAN /\ available \in BOOLEAN /\ heldDown \in BOOLEAN
            /\ held \in BOOLEAN /\ taken \in BOOLEAN
LeafIs ==
    /\ m3At \in {"closed", "open", "part", "opening", "closing", "unknown"}
    /\ pos \in 0..Full /\ goal \in {La!None} \union 0..Full /\ since \in 0..2
    /\ m3At \in {"opening", "closing"} <=> goal # La!None
RecordIs ==
    /\ lastAsked \in {La!None} \union 0..Full
    /\ result \in {"none", "done", "timeout", "aborted", "fault"}
RestIs ==
    /\ temp \in Temps /\ humid \in Humids
    /\ pc6 \in {"wait", "ask"} /\ troubles \in 0..MaxTroubles

LEMMA LawParts ==
    La!LawTypeOK <=> MemIs /\ ReadIs /\ FlagsAre /\ LeafIs /\ RecordIs /\ RestIs
  BY DEF La!LawTypeOK, MemIs, ReadIs, FlagsAre, LeafIs, RecordIs, RestIs, La!Moving, La!weather

LEMMA Drives ==
    ASSUME La!LawAssumption, LeafIs, NEW want \in 0..Full, La!DriveTo(want)
    PROVE  LeafIs'
  BY Limits DEF LeafIs, La!DriveTo, La!None

LEMMA LawTypesStep ==
    ASSUME La!LawAssumption, La!LawTypeOK, [La!LawNext]_lawVars
    PROVE  La!LawTypeOK'
  <1>0. MemIs /\ ReadIs /\ FlagsAre /\ LeafIs /\ RecordIs /\ RestIs /\ LawFacts
    BY LawParts, LawFactsHold
  <1>1. SUFFICES MemIs' /\ ReadIs' /\ FlagsAre' /\ LeafIs' /\ RecordIs' /\ RestIs'
    BY DEF La!LawTypeOK, MemIs, ReadIs, FlagsAre, LeafIs, RecordIs, RestIs, La!Moving,
       La!weather
  <1> USE DEF La!weather, La!modeVars, La!leaf, La!record
  <1>j. La!Judged \in {"none", "done", "timeout", "aborted", "fault"}
    BY <1>0 DEF La!Judged, RecordIs
  <1>2. CASE La!Wake
    <2>1. UNCHANGED <<temp, humid, available, La!leaf, La!record, held, troubles>>
      BY <1>2 DEF La!Wake
    <2>2. MemIs' /\ ReadIs'
      BY <1>0, <1>2 DEF La!Wake, MemIs, ReadIs, La!Fresh, La!Steps, La!None
    <2>3. linear' \in BOOLEAN /\ heldDown' \in BOOLEAN /\ pc6' \in {"wait", "ask"}
      BY <1>2 DEF La!Wake
    <2> QED  BY <1>0, <2>1, <2>2, <2>3 DEF FlagsAre, LeafIs, RecordIs, RestIs
  <1>3. CASE La!AskStepped
    <2>1. /\ UNCHANGED <<temp, humid, linear, available, heldDown, lastAsked, taken, held,
                         troubles>>
          /\ pc6' = "wait" /\ read' = <<temp, humid>> /\ mem' = La!Decided
          /\ result' = La!Judged
      BY <1>3 DEF La!AskStepped
    <2>2. LeafIs'
      <3>1. CASE La!Rest  BY <1>0, <3>1 DEF La!Rest, LeafIs
      <3>2. CASE \E want \in {0, Full} : La!DriveTo(want)
        <4>1. PICK want \in {0, Full} : La!DriveTo(want)
          BY <3>2
        <4>2. want \in 0..Full
          BY Limits
        <4> QED  BY <1>0, <4>1, <4>2, Drives
      <3>3. La!SteppedM3(La!Decided) = La!None \/ La!SteppedM3(La!Decided) \in {0, Full}
        BY DEF La!SteppedM3
      <3> QED  BY <1>3, <3>1, <3>2, <3>3 DEF La!AskStepped
    <2>3. MemIs'
      BY <1>0, <2>1, DecidedIs DEF MemIs
    <2> QED  BY <1>0, <1>j, <2>1, <2>2, <2>3 DEF ReadIs, FlagsAre, RecordIs, RestIs
  <1>4. CASE La!AskGraded
    <2> DEFINE target == La!GradedTarget(La!Decided)
               want == La!GradedM3(target)
    <2>1. UNCHANGED <<temp, humid, linear, available, heldDown, held, troubles>>
          /\ pc6' = "wait" /\ read' = <<temp, humid>>
          /\ mem' = [La!Decided EXCEPT !.tgt = target]
      BY <1>4 DEF La!AskGraded
    <2>2. target \in {La!None} \union 0..Full
      BY <1>0, TargetIs DEF La!GradedTarget, MemIs
    <2>3. want = La!None \/ want \in 0..Full
      <3> HIDE DEF target
      <3> QED  BY <2>2 DEF La!GradedM3
    <2>4. MemIs'
      <3> HIDE DEF target
      <3> QED  BY <1>0, <2>1, <2>2, DecidedIs DEF MemIs
    <2>5. \/ /\ La!Posts(want) /\ La!DriveTo(La!Snapped(want)) /\ lastAsked' = La!Snapped(want)
             /\ result' = "none" /\ taken' \in BOOLEAN
          \/ La!Rest /\ result' = La!Judged /\ UNCHANGED <<lastAsked, taken>>
      BY <1>4, Zenon DEF La!AskGraded
    <2>6. LeafIs' /\ RecordIs' /\ taken' \in BOOLEAN
      <3> HIDE DEF target, want
      <3>1. CASE /\ La!Posts(want) /\ La!DriveTo(La!Snapped(want))
                    /\ lastAsked' = La!Snapped(want)
                 /\ result' = "none" /\ taken' \in BOOLEAN
        <4>1. want \in 0..Full
          BY <2>3, <3>1 DEF La!Posts
        <4>2. La!Snapped(want) \in 0..Full
          BY <4>1, SnappedIs
        <4> QED  BY <1>0, <3>1, <4>2, Drives DEF RecordIs
      <3>2. CASE La!Rest /\ result' = La!Judged /\ UNCHANGED <<lastAsked, taken>>
        BY <1>0, <1>j, <3>2 DEF La!Rest, LeafIs, RecordIs, FlagsAre
      <3> QED  BY <2>5, <3>1, <3>2
    <2> QED  BY <1>0, <2>1, <2>4, <2>6 DEF ReadIs, FlagsAre, RestIs
  <1>5. CASE La!Arrive
    <2>1. UNCHANGED <<temp, humid, mem, read, linear, available, heldDown, lastAsked, result,
                      taken, held, pc6, troubles>>
      BY <1>5 DEF La!Arrive
    <2>2. pos' \in 0..Full
      <3>1. CASE goal \in 1..(Full - 1)
                 /\ pos' \in La!Within(goal - Band, 0, Full)..La!Within(goal + Band, 0, Full)
        <4>1. La!Within(goal - Band, 0, Full) \in 0..Full /\ La!Within(goal + Band, 0,
              Full) \in 0..Full
          <5>1. goal - Band \in Int /\ goal + Band \in Int /\ Full \in Int /\ 0 <= Full
            BY <3>1, Limits
          <5> QED  BY <5>1 DEF La!Within, La!AtLeast, La!AtMost
        <4>2. ASSUME NEW lo \in 0..Full, NEW hi \in 0..Full, pos' \in lo..hi
              PROVE  pos' \in 0..Full
          BY <4>2, Limits
        <4> QED  BY <3>1, <4>1, <4>2
      <3>2. CASE pos' = 0 \/ pos' = Full
        BY <3>2, Limits
      <3> QED  BY <1>5, <3>1, <3>2 DEF La!Arrive
    <2>3. goal' = La!None /\ since' = 0 /\ m3At' \in {"closed", "open", "part"}
      BY <1>5 DEF La!Arrive
    <2>4. LeafIs'
      BY <2>2, <2>3 DEF LeafIs, La!None
    <2> QED  BY <1>0, <2>1, <2>4 DEF MemIs, ReadIs, FlagsAre, RecordIs, RestIs
  <1>6. CASE La!StopShort
    <2>1. UNCHANGED <<temp, humid, mem, read, linear, available, heldDown, lastAsked, result,
                      taken, held, pc6>> /\ La!Trouble
      BY <1>6 DEF La!StopShort
    <2>2. pos' \in 0..Full
      <3>1. goal \in 0..Full /\ pos \in 0..Full /\ Full \in Nat
        BY <1>0, <1>6, Limits DEF La!StopShort, LeafIs
      <3>2. La!AtMost(pos, goal) \in 0..Full /\ La!AtLeast(pos, goal) \in 0..Full
        BY <3>1 DEF La!AtMost, La!AtLeast
      <3>3. ASSUME NEW lo \in 0..Full, NEW hi \in 0..Full, pos' \in lo..hi
            PROVE  pos' \in 0..Full
        BY <3>1, <3>3
      <3> QED  BY <1>6, <3>2, <3>3 DEF La!StopShort
    <2>3. goal' = La!None /\ since' = 0 /\ m3At' = "part"
      BY <1>6 DEF La!StopShort
    <2>4. LeafIs'
      BY <2>2, <2>3 DEF LeafIs, La!None
    <2>5. troubles' \in 0..MaxTroubles
      BY <1>0, <2>1, Limits DEF La!Trouble, RestIs
    <2> QED  BY <1>0, <2>1, <2>4, <2>5 DEF MemIs, ReadIs, FlagsAre, RecordIs, RestIs
  <1>7. CASE La!Take
    <2>1. UNCHANGED <<temp, humid, mem, read, linear, available, heldDown, lastAsked, result,
                      pc6>> /\ La!Trouble /\ held' = TRUE /\ taken' = TRUE
      BY <1>7 DEF La!Take
    <2>2. LeafIs'
      <3>1. CASE \E want \in {0, Full} : La!DriveTo(want)
        <4>1. PICK want \in {0, Full} : La!DriveTo(want)
          BY <3>1
        <4>2. want \in 0..Full
          BY Limits
        <4> QED  BY <1>0, <4>1, <4>2, Drives
      <3>2. CASE m3At' = "unknown" /\ goal' = La!None /\ since' = 0 /\ UNCHANGED pos
        BY <1>0, <3>2 DEF LeafIs, La!None
      <3> QED  BY <1>7, <3>1, <3>2 DEF La!Take
    <2>3. troubles' \in 0..MaxTroubles
      BY <1>0, <2>1, Limits DEF La!Trouble, RestIs
    <2> QED  BY <1>0, <2>1, <2>2, <2>3 DEF MemIs, ReadIs, FlagsAre, RecordIs, RestIs
  <1>8. CASE La!Release
    <2>1. UNCHANGED <<temp, humid, mem, read, linear, available, heldDown, lastAsked, result,
                      taken, pc6, troubles>> /\ held' \in BOOLEAN
      BY <1>0, <1>8 DEF La!Release, FlagsAre
    <2>2. LeafIs'
      <3>1. CASE La!DriveTo(0)
        <4>1. 0 \in 0..Full
          BY Limits
        <4> QED  BY <1>0, <3>1, <4>1, Drives
      <3>2. CASE La!Rest
        BY <1>0, <3>2 DEF La!Rest, LeafIs
      <3> QED  BY <1>8, <3>1, <3>2 DEF La!Release
    <2> QED  BY <1>0, <2>1, <2>2 DEF MemIs, ReadIs, FlagsAre, RecordIs, RestIs
  <1>9. CASE La!Elapse
    <2>1. since' \in 0..2
      BY <1>0, <1>9 DEF La!Elapse, LeafIs
    <2> QED
      BY <1>0, <1>9, <2>1 DEF La!Elapse, MemIs, ReadIs, FlagsAre, LeafIs, RecordIs, RestIs
  <1>10. CASE La!HolddownOver
    <2>1. heldDown' \in BOOLEAN
      BY <1>10 DEF La!HolddownOver
    <2> QED
      BY <1>0, <1>10, <2>1
         DEF La!HolddownOver, MemIs, ReadIs, FlagsAre, LeafIs, RecordIs, RestIs
  <1>11. CASE La!Weather
    <2>1. troubles' \in 0..MaxTroubles
      BY <1>0, <1>11, Limits DEF La!Weather, La!Trouble, RestIs
    <2> QED
      BY <1>0, <1>11, <2>1 DEF La!Weather, MemIs, ReadIs, FlagsAre, LeafIs, RecordIs, RestIs
  <1>12. CASE La!PositionComesAndGoes
    <2>1. troubles' \in 0..MaxTroubles /\ available' \in BOOLEAN
      BY <1>0, <1>12, Limits DEF La!PositionComesAndGoes, La!Trouble, RestIs, FlagsAre
    <2> QED
      BY <1>0, <1>12, <2>1
         DEF La!PositionComesAndGoes, MemIs, ReadIs, FlagsAre, LeafIs, RecordIs, RestIs
  <1>13. CASE UNCHANGED lawVars
    BY <1>0, <1>13 DEF lawVars, MemIs, ReadIs, FlagsAre, LeafIs, RecordIs, RestIs
  <1> QED
    BY <1>2, <1>3, <1>4, <1>5, <1>6, <1>7, <1>8, <1>9, <1>10, <1>11, <1>12, <1>13
       DEF La!LawNext

(* The law's answer to a temperature t and a humidity h, in memory m. *)
StepT(t, m) == La!FromDeviation((t + 1) \div 2 - TMax, HystT, m.t)

StepRh(h, m) ==
    IF h > RhMax THEN La!FromDeviation(h - RhMax, HystRh, m.rh)
    ELSE IF m.rh > 0 /\ h > RhMax - La!Width(HystRh) THEN 1
    ELSE IF h < RhMin THEN 0
    ELSE La!None

MayOpen(t, m) ==
    \/ (t + 1) \div 2 >= TMin + 2
    \/ (m.step > 0 /\ m.t = 0) /\ (t + 1) \div 2 >= TMin + 1

Both(t, h, m) ==
    IF StepT(t, m) > 0 /\ StepRh(h, m) > 0 THEN La!AtLeast(StepT(t, m), StepRh(h, m))
    ELSE IF StepT(t, m) = 0 /\ StepRh(h, m) > 0 /\ Priority # 0 /\ MayOpen(t, m) THEN 1
    ELSE StepT(t, m)

(* Memory m is what the law leaves of such a reading. *)
Steady(t, h, m) == m.t = StepT(t, m) /\ m.rh = StepRh(h, m) /\ m.step = Both(t, h, m)

Memories == [t : La!Steps, rh : La!Steps \union {La!None}, step : La!Steps,
              tgt : {La!None} \union 0..Full]

LEMMA DecidedFields ==
    ASSUME La!LawAssumption, LawFacts
    PROVE  /\ La!Decided.t = StepT(temp, mem) /\ La!Decided.rh = StepRh(humid, mem)
           /\ La!Decided.step = Both(temp, humid, mem)
  <1>1. La!RequiredT = StepT(temp, mem)
    BY Zenon DEF La!RequiredT, La!Degrees, StepT
  <1>2. La!RequiredRh = StepRh(humid, mem)
    BY Zenon DEF La!RequiredRh, StepRh
  <1>3. La!FloorOk <=> MayOpen(temp, mem)
    <2>1. La!Degrees \in Int /\ TMin \in Int /\ La!Degrees = (temp + 1) \div 2
      BY Limits DEF LawFacts, La!Degrees
    <2> QED  BY <2>1 DEF La!FloorOk, MayOpen
  <1>4. La!Resolve(La!RequiredT, La!RequiredRh) = Both(temp, humid, mem)
    BY <1>1, <1>2, <1>3, Zenon DEF La!Resolve, Both
  <1> QED  BY <1>1, <1>2, <1>4 DEF La!Decided, LawFacts

(* A deviation that gave a step gives it again. *)
LEMMA DeviationStays ==
    ASSUME NEW dev \in Int, NEW hyst \in Nat \ {0}, NEW current \in Int,
           NEW again, again = La!FromDeviation(dev, hyst, current)
    PROVE  La!FromDeviation(dev, hyst, again) = again
  BY DEF La!FromDeviation

(* An answer repeats itself: the hysteresis of each branch keeps the step it *)
(* gave, and the floor lets humidity hold what it has opened.                *)
LEMMA AnswersRepeat ==
    ASSUME La!LawAssumption, NEW t \in Int, NEW h \in Int, NEW m \in Memories,
           NEW n \in Memories,
           n.t = StepT(t, m), n.rh = StepRh(h, m), n.step = Both(t, h, m)
    PROVE  Steady(t, h, n)
  <1>1. /\ m.t \in La!Steps /\ m.rh \in La!Steps \union {La!None} /\ m.step \in La!Steps
        /\ n.t \in La!Steps /\ n.rh \in La!Steps \union {La!None} /\ n.step \in La!Steps
    BY DEF Memories
  <1>2. StepT(t, n) = n.t
    <2>1. (t + 1) \div 2 - TMax \in Int /\ m.t \in Int /\ HystT \in Nat \ {0}
      BY <1>1, Limits DEF La!Steps
    <2> QED  BY <2>1, DeviationStays DEF StepT
  <1>3. StepRh(h, n) = n.rh
    <2>0. /\ h - RhMax \in Int /\ m.rh \in Int /\ HystRh \in Nat \ {0} /\ RhMax \in Int
          /\ RhMin \in Int
      BY <1>1, Limits DEF La!Steps, La!None
    <2>1. CASE h > RhMax
      BY <2>0, <2>1, DeviationStays DEF StepRh
    <2>2. CASE ~(h > RhMax)
      BY <2>0, <2>2 DEF StepRh, La!None
    <2> QED  BY <2>1, <2>2
  <1>4. CASE MayOpen(t, m)
    <2>1. CASE n.t = 0 /\ n.rh > 0 /\ Priority # 0
      <3>1. n.step = 1
        BY <1>1, <1>4, <2>1 DEF Both
      <3>2. (t + 1) \div 2 \in Int /\ TMin \in Int
        BY Limits
      <3>3. MayOpen(t, n)
        BY <1>4, <2>1, <3>1, <3>2 DEF MayOpen
      <3>4. Both(t, h, n) = 1
        BY <1>2, <1>3, <2>1, <3>3 DEF Both
      <3> QED  BY <1>2, <1>3, <3>1, <3>4 DEF Steady
    <2>2. CASE ~(n.t = 0 /\ n.rh > 0 /\ Priority # 0)
      BY <1>1, <1>2, <1>3, <2>2 DEF Both, Steady
    <2> QED  BY <2>1, <2>2
  <1>5. CASE ~MayOpen(t, m)
    <2>1. CASE n.t = 0 /\ n.rh > 0 /\ Priority # 0
      <3>1. n.step = 0
        BY <1>1, <1>5, <2>1 DEF Both
      <3>2. ~MayOpen(t, n)
        BY <1>5, <3>1 DEF MayOpen
      <3>3. Both(t, h, n) = 0
        BY <1>2, <1>3, <2>1, <3>2 DEF Both
      <3> QED  BY <1>2, <1>3, <3>1, <3>3 DEF Steady
    <2>2. CASE ~(n.t = 0 /\ n.rh > 0 /\ Priority # 0)
      BY <1>1, <1>2, <1>3, <2>2 DEF Both, Steady
    <2> QED  BY <2>1, <2>2
  <1> QED  BY <1>4, <1>5

(* The memory, unless it was thrown away, is steady under the last reading.  *)
LawInv == La!LawTypeOK /\ (read # <<>> => Steady(read[1], read[2], mem))

LEMMA LawStarts == ASSUME La!LawAssumption, La!LawInit  PROVE LawInv
  BY LawTypesStart DEF LawInv, La!LawInit

(* Target and all else aside, an asked law leaves what it decided.           *)
LEMMA AskedIs ==
    ASSUME La!LawAssumption, La!LawTypeOK, La!LawTypeOK', La!AskStepped \/ La!AskGraded
    PROVE  /\ mem'.t = La!Decided.t /\ mem'.rh = La!Decided.rh /\ mem'.step = La!Decided.step
           /\ read' = <<temp, humid>>
  <1>1. La!Decided \in Memories
    BY LawFactsHold, DecidedIs DEF Memories
  <1>2. mem' = La!Decided \/ \E target : mem' = [La!Decided EXCEPT !.tgt = target]
    BY DEF La!AskStepped, La!AskGraded
  <1> QED  BY <1>1, <1>2 DEF La!AskStepped, La!AskGraded, Memories, La!weather

LEMMA LawStep == ASSUME La!LawAssumption, LawInv, [La!LawNext]_lawVars  PROVE LawInv'
  <1>0. La!LawTypeOK /\ La!LawTypeOK' /\ LawFacts
    BY LawTypesStep, LawFactsHold DEF LawInv
  <1>1. CASE La!AskStepped \/ La!AskGraded
    <2>1. /\ mem'.t = StepT(temp, mem) /\ mem'.rh = StepRh(humid, mem)
          /\ mem'.step = Both(temp, humid, mem) /\ read' = <<temp, humid>>
      BY <1>0, <1>1, AskedIs, DecidedFields
    <2>2. temp \in Int /\ humid \in Int /\ mem \in Memories /\ mem' \in Memories
      BY <1>0 DEF LawFacts, La!LawTypeOK, Memories
    <2>3. Steady(temp, humid, mem')
      BY <2>1, <2>2, AnswersRepeat
    <2>4. Steady(read'[1], read'[2], mem')
      BY <2>1, <2>3
    <2> QED  BY <1>0, <2>4 DEF LawInv, Steady, StepT, StepRh, Both, MayOpen
  <1>2. CASE UNCHANGED <<read, mem>>
    BY <1>0, <1>2 DEF LawInv, Steady, StepT, StepRh, Both, MayOpen
  <1>3. CASE read' = <<>>
    BY <1>0, <1>3 DEF LawInv
  <1> QED
    BY <1>1, <1>2, <1>3
       DEF La!LawNext, La!Wake, La!Arrive, La!StopShort, La!Take, La!Release, La!Elapse,
           La!HolddownOver, La!Weather,
           La!PositionComesAndGoes, lawVars

LEMMA SameAnswer ==
    ASSUME La!LawAssumption, LawInv, [La!LawNext]_lawVars, read' = La!weather,
           read = La!weather
    PROVE  mem'.step = mem.step
  <1>0. La!LawTypeOK /\ La!LawTypeOK' /\ LawFacts /\ La!weather = <<temp, humid>>
    BY LawTypesStep, LawFactsHold DEF LawInv, La!weather
  <1>1. CASE La!AskStepped \/ La!AskGraded
    <2>1. mem'.step = Both(temp, humid, mem)
      BY <1>0, <1>1, AskedIs, DecidedFields
    <2>2. Steady(temp, humid, mem)
      BY <1>0 DEF LawInv
    <2> QED  BY <2>1, <2>2 DEF Steady
  <1>2. CASE UNCHANGED mem
    BY <1>2
  <1>3. CASE read' = <<>>
    BY <1>0, <1>3
  <1> QED
    BY <1>1, <1>2, <1>3
       DEF La!LawNext, La!Wake, La!Arrive, La!StopShort, La!Take, La!Release, La!Elapse,
           La!HolddownOver, La!Weather,
           La!PositionComesAndGoes, lawVars

LEMMA LawHolds == Spec => []LawInv
  <1>1. Init => LawInv
    BY ServicesAssumption, LawStarts DEF Init
  <1>2. LawInv /\ [Next]_vars => LawInv'
    BY ServicesAssumption, WorldSteps, LawStep
  <1> QED  BY <1>1, <1>2, PTL DEF Spec

(* The same readings, asked about twice on one memory, get the same answer,  *)
(* whatever the crop's limits, the hysteresis and the priority               *)
(* (vent_model_stepped.cpp).                                                 *)
THEOREM AnswersAreSteady == Spec => La!SteadyLaw
  <1> DEFINE Same == read' = La!weather /\ read = La!weather => mem'.step = mem.step
  <1>1. LawInv /\ [Next]_vars => [Same]_<<read, mem>>
    BY ServicesAssumption, WorldSteps, SameAnswer
  <1>2. Spec => [][Next]_vars
    BY PTL DEF Spec
  <1>3. Spec => [][Same]_<<read, mem>>
    BY <1>1, <1>2, LawHolds, PTL
  <1> QED  BY <1>3 DEF La!SteadyLaw

-----------------------------------------------------------------------------
(* The access point, the station and the clock. *)

LEMMA ApTypesStart == ASSUME Ap!SoftApAssumption, Ap!ApInit  PROVE Ap!ApTypeOK
  BY DEF Ap!SoftApAssumption, Ap!ApInit, Ap!ApTypeOK

LEMMA PostApTypes ==
    ASSUME Ap!SoftApAssumption, Ap!ApTypeOK, NEW v \in {0, 1}, Ap!PostAp(v)
    PROVE  q4Ap' \in Seq({0, 1}) /\ Len(q4Ap') <= ApQ4Depth
  <1>1. q4Ap \in Seq({0,
         1}) /\ Len(q4Ap) <= ApQ4Depth /\ Len(q4Ap) \in Nat /\ ApQ4Depth \in Nat
    BY DEF Ap!ApTypeOK, Ap!SoftApAssumption
  <1>2. CASE Len(q4Ap) < ApQ4Depth
    <2>1. q4Ap' = Append(q4Ap, v) /\ Len(q4Ap') = Len(q4Ap) + 1
      BY <1>1, <1>2 DEF Ap!PostAp
    <2> QED  BY <1>1, <1>2, <2>1
  <1> QED  BY <1>1, <1>2 DEF Ap!PostAp

LEMMA ApTypesStep ==
    ASSUME Ap!SoftApAssumption, Ap!ApTypeOK, [Ap!ApNext]_apVars
    PROVE  Ap!ApTypeOK'
  <1>1. CASE Ap!ToggleAp
    <2>1. 1 - flagAp \in {0, 1}
      BY DEF Ap!ApTypeOK
    <2> QED  BY <1>1, <2>1, PostApTypes DEF Ap!ToggleAp, Ap!ApTypeOK
  <1>2. CASE Ap!ApplyAp
    <2>1. /\ q4Ap \in Seq({0, 1}) /\ q4Ap # <<>> /\ q4Ap' = Tail(q4Ap) /\ Len(q4Ap) \in Nat
          /\ Len(q4Ap) <= ApQ4Depth /\ ApQ4Depth \in Nat
      BY <1>2 DEF Ap!ApplyAp, Ap!ApTypeOK, Ap!SoftApAssumption
    <2>2. q4Ap' \in Seq({0, 1}) /\ Len(q4Ap') = Len(q4Ap) - 1 /\ Head(q4Ap) \in {0, 1}
      BY <2>1
    <2>3. Len(q4Ap') <= ApQ4Depth
      BY <2>1, <2>2
    <2> QED  BY <1>2, <2>2, <2>3 DEF Ap!ApplyAp, Ap!ApTypeOK
  <1>3. CASE Ap!TimePasses \/ UNCHANGED apVars
    BY <1>3 DEF Ap!TimePasses, Ap!ApTypeOK, apVars
  <1>4. CASE Ap!PollAp
    <2>1. CASE flagAp # seenAp /\ seenAp' = flagAp /\ UNCHANGED <<flagAp, q4Ap>>
      BY <1>4, <2>1 DEF Ap!PollAp, Ap!StartAp, Ap!ApTypeOK
    <2>2. CASE /\ active10' = FALSE /\ dueAp' = FALSE /\ Ap!PostAp(0) /\ seenAp' = 0
               /\ UNCHANGED <<flagAp, failedAp>>
      BY <2>2, PostApTypes DEF Ap!ApTypeOK
    <2> QED  BY <1>4, <2>1, <2>2 DEF Ap!PollAp
  <1> QED  BY <1>1, <1>2, <1>3, <1>4 DEF Ap!ApNext

LEMMA ApHolds == Spec => []Ap!ApTypeOK
  <1>1. Init => Ap!ApTypeOK
    BY ServicesAssumption, ApTypesStart DEF Init
  <1>2. Ap!ApTypeOK /\ [Next]_vars => Ap!ApTypeOK'
    BY ServicesAssumption, WorldSteps, ApTypesStep
  <1> QED  BY <1>1, <1>2, PTL DEF Spec

LEMMA StaTypesStart == ASSUME St!StationAssumption, St!StaInit  PROVE St!StaTypeOK
  <1>1. firedA \in BOOLEAN /\ ~firedA /\ ~firedB
    BY DEF St!StaInit
  <1>2. ~(fails >= FailA)
    BY DEF St!StationAssumption, St!StaInit
  <1> QED  BY <1>1, <1>2 DEF St!StationAssumption, St!StaInit, St!StaTypeOK

(* How many posts failed, and which steps of the escalation that fired.      *)
LEMMA Escalation ==
    ASSUME St!StationAssumption, St!StaTypeOK, St!PostStatus
    PROVE  /\ fails' \in 0 .. FailB - 1 /\ firedA' \in BOOLEAN
           /\ (firedA' <=> fails' >= FailA) /\ ~firedB'
  <1>0. /\ fails \in 0 .. FailB - 1 /\ FailA \in Nat \ {0} /\ FailB \in Nat /\ FailA < FailB
        /\ (firedA <=> fails >= FailA) /\ ~firedB
    BY DEF St!StaTypeOK, St!StationAssumption
  <1>1. CASE fails' = 0 /\ firedA' = FALSE /\ firedB' = FALSE
    <2>1. fails' = 0 /\ firedA' = FALSE /\ firedB' = FALSE
      BY <1>1
    <2>2. ~(fails' >= FailA) /\ fails' \in 0 .. FailB - 1
      BY <1>0, <2>1
    <2>3. firedA' \in BOOLEAN /\ ~firedA' /\ ~firedB'
      BY <2>1
    <2> QED  BY <2>2, <2>3
  <1> DEFINE failed ==
        /\ fails' = IF fails + 1 >= FailB /\ ~firedB THEN 0 ELSE fails + 1
        /\ firedA' = (~(fails + 1 >= FailB /\ ~firedB)
                        /\ (firedA \/ (fails + 1 >= FailA /\ ~firedA)))
        /\ firedB' = FALSE
  <1>2. (fails' = 0 /\ firedA' = FALSE /\ firedB' = FALSE) \/ failed
    BY DEF St!PostStatus
  <1>3. CASE failed
    <2>1. /\ fails' = IF fails + 1 >= FailB /\ ~firedB THEN 0 ELSE fails + 1
          /\ firedA' = (~(fails + 1 >= FailB /\ ~firedB)
                          /\ (firedA \/ (fails + 1 >= FailA /\ ~firedA)))
          /\ firedB' = FALSE
      BY <1>3
    <2>2. /\ firedA' \in BOOLEAN /\ ~firedB'
          /\ firedA' <=> /\ ~(fails + 1 >= FailB)
                         /\ firedA \/ fails + 1 >= FailA
      BY <1>0, <2>1, Zenon
    <2>3. CASE fails + 1 >= FailB
      <3>1. fails' = 0
        BY <1>0, <2>1, <2>3
      <3>2. ~(fails' >= FailA) /\ fails' \in 0 .. FailB - 1
        BY <1>0, <3>1
      <3> QED  BY <2>2, <2>3, <3>2
    <2>4. CASE ~(fails + 1 >= FailB)
      <3>1. fails' = fails + 1 /\ fails' \in 0 .. FailB - 1
        BY <1>0, <2>1, <2>4
      <3>2. (fails >= FailA) => (fails + 1 >= FailA)
        BY <1>0
      <3>3. firedA' <=> fails + 1 >= FailA
        BY <1>0, <2>2, <2>4, <3>2, Zenon
      <3> QED  BY <2>2, <3>1, <3>3
    <2> QED  BY <2>3, <2>4
  <1> QED  BY <1>1, <1>2, <1>3

LEMMA StaTypesStep ==
    ASSUME St!StationAssumption, St!StaTypeOK, [St!StaNext]_staVars
    PROVE  St!StaTypeOK'
  <1> USE DEF St!StationAssumption, St!StaTypeOK, St!linkVars, St!postVars, St!timeVars
  <1>1. CASE St!Router
    BY <1>1 DEF St!Router
  <1>2. CASE St!Joined
    <2>1. CASE router = "off"
      BY <1>2, <2>1 DEF St!Joined
    <2>2. CASE router # "off"
      BY <1>2, <2>2 DEF St!Joined
    <2> QED  BY <2>1, <2>2
  <1>3. CASE St!Lost
    BY <1>3 DEF St!Lost, St!Connect
  <1>4. CASE St!Reconnect
    BY <1>4 DEF St!Reconnect, St!Connect
  <1>5. CASE St!PostStatus
    <2>1. UNCHANGED <<router, St!linkVars, St!timeVars>> /\ asked10' \subseteq {"renew",
           "reassociate"}
      BY <1>5 DEF St!PostStatus
    <2> HIDE DEF St!StationAssumption
    <2> QED  BY <1>5, <2>1, Escalation
  <1>6. CASE St!Recover
    <2>1. /\ link' \in {"joining", link} /\ asked10' = {}
          /\ UNCHANGED <<router, retries, timer10, St!postVars, St!timeVars>>
          /\ lease' => link' = "up"
      BY <1>6 DEF St!Recover
    <2> QED  BY <2>1
  <1>7. CASE St!Resync \/ St!Compare \/ St!T4Takes
    <2>1. CASE St!Resync
      BY <2>1 DEF St!Resync
    <2>2. CASE St!Compare
      BY <2>2 DEF St!Compare
    <2>3. CASE St!T4Takes
      BY <2>3 DEF St!T4Takes
    <2> QED  BY <1>7, <2>1, <2>2, <2>3
  <1>8. CASE UNCHANGED staVars
    BY <1>8 DEF staVars
  <1> QED  BY <1>1, <1>2, <1>3, <1>4, <1>5, <1>6, <1>7, <1>8 DEF St!StaNext

LEMMA StaHolds == Spec => []St!StaTypeOK
  <1>1. Init => St!StaTypeOK
    BY ServicesAssumption, StaTypesStart DEF Init
  <1>2. St!StaTypeOK /\ [Next]_vars => St!StaTypeOK'
    BY ServicesAssumption, WorldSteps, StaTypesStep
  <1> QED  BY <1>1, <1>2, PTL DEF Spec

(* T4 is told only of a clock that is set, and carries only such a time.     *)
ClockInv ==
    /\ Cl!ClockTypeOK
    /\ told \/ pcSntp = "set" => sys \in Cl!Times
    /\ pcClock # "idle" => val \in Cl!Times

LEMMA ClockStarts == ASSUME Cl!ManualAssumption, Cl!ClockInit  PROVE ClockInv
  <1>1. {synced, told} \subseteq BOOLEAN /\ ~told
    BY DEF Cl!ClockInit
  <1> QED  BY <1>1 DEF Cl!ManualAssumption, Cl!ClockInit, ClockInv, Cl!ClockTypeOK, Cl!Times

LEMMA ClockStep ==
    ASSUME Cl!ManualAssumption, ClockInv, [Cl!ClockNext]_clockVars
    PROVE  ClockInv'
  <1> USE DEF Cl!ManualAssumption, ClockInv, Cl!ClockTypeOK, Cl!Times, Cl!t4Clock, Cl!manual
  <1>1. CASE Cl!PollRead
    BY <1>1 DEF Cl!PollRead
  <1>2. CASE Cl!PollCheck
    <2>1. pcClock' \in {"store", "seed"} /\ pcClock = "check"
      BY <1>2 DEF Cl!PollCheck
    <2> QED  BY <1>2, <2>1 DEF Cl!PollCheck
  <1>3. CASE Cl!PollSeed
    BY <1>3 DEF Cl!PollSeed
  <1>4. CASE Cl!PollStore
    BY <1>4 DEF Cl!PollStore
  <1>5. CASE Cl!NtpTake
    <2>1. {synced', told'} \subseteq BOOLEAN /\ ~told'
      BY <1>5 DEF Cl!NtpTake
    <2>2. val' \in Cl!Times /\ pcClock' = "chip"
      BY <1>5 DEF Cl!NtpTake
    <2>3. UNCHANGED <<sys, chip, unixTs, pcSntp, pcMan, valMan, manuals>>
      BY <1>5 DEF Cl!NtpTake
    <2> QED  BY <2>1, <2>2, <2>3
  <1>6. CASE Cl!NtpChip
    <2>1. chip' \in {chip, val} /\ val \in Cl!Times /\ pcClock' = "shadow"
      BY <1>6 DEF Cl!NtpChip
    <2> QED  BY <1>6, <2>1 DEF Cl!NtpChip
  <1>7. CASE Cl!NtpStore \/ Cl!MutexTimesOut
    BY <1>7 DEF Cl!NtpStore, Cl!MutexTimesOut
  <1>8. CASE Cl!SntpSets
    BY <1>8 DEF Cl!SntpSets
  <1>9. CASE Cl!SntpLatch
    <2>1. {synced', told'} \subseteq BOOLEAN
      BY <1>9 DEF Cl!SntpLatch
    <2> QED  BY <1>9, <2>1 DEF Cl!SntpLatch
  <1>10. CASE Cl!ManualSys
    BY <1>10 DEF Cl!ManualSys
  <1>11. CASE Cl!ManualChip
    <2>1. chip' \in {chip, valMan} /\ pcMan' = "shadow"
      BY <1>11 DEF Cl!ManualChip
    <2> QED  BY <1>11, <2>1 DEF Cl!ManualChip
  <1>12. CASE Cl!ManualShadow
    BY <1>12 DEF Cl!ManualShadow
  <1>13. CASE Cl!ChipFails \/ Cl!DayTurns \/ UNCHANGED clockVars
    BY <1>13 DEF Cl!ChipFails, Cl!DayTurns, clockVars
  <1> QED  BY <1>1, <1>2, <1>3, <1>4, <1>5, <1>6, <1>7, <1>8, <1>9, <1>10, <1>11, <1>12,
              <1>13 DEF Cl!ClockNext

LEMMA ClockHolds == Spec => []ClockInv
  <1>1. Init => ClockInv
    BY ServicesAssumption, ClockStarts DEF Init
  <1>2. ClockInv /\ [Next]_vars => ClockInv'
    BY ServicesAssumption, WorldSteps, ClockStep
  <1> QED  BY <1>1, <1>2, PTL DEF Spec

-----------------------------------------------------------------------------
(* The finger and T8's clock of it (KeyHold).                                *)

Scans == {"press", "repeat", "release"}

KeyTypes ==
    /\ Ke!TapTypeOK
    /\ age \in Nat /\ quiet \in Nat /\ heldFor \in Nat /\ upFor \in Nat /\ truth \in Nat
    /\ lag \in 0..Stall + 1

OnlyRepeats(q) == \A i \in 1..Len(q) : q[i] = "repeat"

(* Q2 since T8 found it empty last: repeats of the press before, then its    *)
(* release and the next press; with Q2 longer than T8 is ever behind, a      *)
(* release gives way to repeats only at the end of that time.                *)
KeyOrder ==
    /\ \A i, j \in 1..Len(q2) : i < j /\ q2[i] # "repeat" => q2[j] # "repeat"
    /\ \A i \in 1..Len(q2) : q2[i] = "press" => heldFor <= lag /\ (down => i = Len(q2))
    /\ \A i \in 1..Len(q2) : q2[i] # "repeat" /\ down => heldFor <= lag
    /\ q2 # <<>> => upFor <= lag
    /\ OnlyRepeats(q2) => Len(q2) <= lag
    /\ ~down /\ OnlyRepeats(q2) /\ q2 # <<>> => upFor = 0 /\ lag = Stall + 1
    /\ down => upFor = 0

(* A press that T8 times is no older than the hand's by more than T8 is      *)
(* behind, and the same of its last sign of life; while the key is down      *)
(* there is always such a sign.                                              *)
KeyPress ==
    /\ active /\ ~moving => age <= HoldFor - 1 + lag /\ truth <= age + Stall + 1
    /\ active /\ ~moving /\ q2 = <<>> =>
          truth + quiet <= age + Stall + 1 \/ truth < FirstRepeat
    /\ down /\ same =>
          /\ active /\ truth = heldFor /\ OnlyRepeats(q2)
          /\ heldFor < FirstRepeat => q2 = <<>> /\ ~repeated /\ age <= heldFor
          /\ heldFor >= FirstRepeat /\ q2 = <<>> => repeated /\ quiet = 0
    /\ done = "full" /\ ~active => truth <= TapMax + Stall
    /\ moving => active /\ repeated /\ quiet <= LostAfter + lag
    /\ active /\ repeated /\ ~down /\ q2 = <<>> => upFor <= quiet

KeyInv == KeyTypes /\ KeyOrder /\ KeyPress

KeyNumbers ==
    /\ TapMax \in Nat /\ HoldFor \in Nat /\ FirstRepeat \in Nat /\ LostAfter \in Nat
    /\ Stall \in Nat /\ Q2Depth \in Nat \ {0} /\ MaxHeld \in Nat
    /\ HoldFor + Stall <= MaxHeld
    /\ LostAfter < FirstRepeat /\ FirstRepeat <= TapMax
    /\ FirstRepeat + LostAfter < HoldFor
    /\ 1 + Stall <= LostAfter /\ Stall < Q2Depth
    /\ age \in Nat /\ quiet \in Nat /\ heldFor \in Nat /\ upFor \in Nat /\ truth \in Nat
    /\ lag \in 0..Stall + 1 /\ quiet <= age /\ (moving => active)

LEMMA KeyFacts == ASSUME Ke!KeyAssumption, KeyTypes  PROVE KeyNumbers
  BY DEF Ke!KeyAssumption, KeyTypes, Ke!TapTypeOK, KeyNumbers

LEMMA QueueIs ==
    ASSUME Ke!KeyAssumption, KeyTypes
    PROVE  q2 \in Seq(Scans) /\ Len(q2) \in 0..Q2Depth
  BY DEF Ke!KeyAssumption, KeyTypes, Ke!TapTypeOK, Scans

(* What a post leaves in Q2.                                                 *)
LEMMA PostIs ==
    ASSUME Ke!KeyAssumption, KeyTypes, NEW e \in Scans, Ke!Post(e)
    PROVE  /\ q2' \in Seq(Scans) /\ Len(q2') \in 1..Q2Depth /\ q2' # <<>>
           /\ \/ q2' = q2 /\ Len(q2) = Q2Depth
              \/ /\ Len(q2') = Len(q2) + 1 /\ q2'[Len(q2) + 1] = e
                 /\ \A i \in 1..Len(q2) : q2'[i] = q2[i]
  <1>0. q2 \in Seq(Scans) /\ Len(q2) \in 0..Q2Depth /\ Q2Depth \in Nat \ {0}
    BY KeyFacts, QueueIs DEF KeyNumbers
  <1>1. CASE Len(q2) < Q2Depth
    <2>1. q2' = Append(q2, e)
      BY <1>1 DEF Ke!Post
    <2>2. q2' \in Seq(Scans) /\ Len(q2') = Len(q2) + 1 /\ q2'[Len(q2) + 1] = e
      BY <1>0, <2>1
    <2>3. \A i \in 1..Len(q2) : q2'[i] = q2[i]
      BY <1>0, <2>1
    <2>4. q2' # <<>>
      BY <1>0, <2>2
    <2> QED  BY <1>0, <1>1, <2>2, <2>3, <2>4
  <1>2. CASE ~(Len(q2) < Q2Depth)
    <2>1. q2' = q2
      BY <1>2 DEF Ke!Post
    <2> QED  BY <1>0, <1>2, <2>1
  <1> QED  BY <1>1, <1>2

(* What T8's taking of the first leaves in Q2.                               *)
LEMMA TakeIs ==
    ASSUME Ke!KeyAssumption, KeyTypes, q2 # <<>>, q2' = Tail(q2)
    PROVE  /\ q2' \in Seq(Scans) /\ Len(q2') \in 0..Q2Depth
           /\ Len(q2) = Len(q2') + 1 /\ Head(q2) = q2[1] /\ 1 \in 1..Len(q2)
           /\ \A i \in 1..Len(q2') : q2'[i] = q2[i + 1] /\ i + 1 \in 1..Len(q2)
           /\ (q2' = <<>>) <=> (Len(q2') = 0)
  <1>0. q2 \in Seq(Scans) /\ Len(q2) \in 0..Q2Depth /\ Q2Depth \in Nat \ {0}
    BY KeyFacts, QueueIs DEF KeyNumbers
  <1>1. q2' \in Seq(Scans) /\ Len(q2) = Len(q2') + 1 /\ Len(q2') \in Nat
    BY <1>0
  <1>2. Head(q2) = q2[1] /\ 1 \in 1..Len(q2)
    BY <1>0, <1>1
  <1>3. ASSUME NEW i \in 1..Len(q2')
        PROVE  q2'[i] = q2[i + 1] /\ i + 1 \in 1..Len(q2)
    BY <1>0, <1>1
  <1>4. (q2' = <<>>) <=> (Len(q2') = 0)
    <2>1. \A q \in Seq(Scans) : (q = <<>>) <=> (Len(q) = 0)
      OBVIOUS
    <2> QED  BY <1>1, <2>1
  <1> QED  BY <1>0, <1>1, <1>2, <1>3, <1>4

LEMMA PressOrder ==
    ASSUME Ke!KeyAssumption, KeyTypes, KeyOrder, Ke!Press
    PROVE  KeyOrder'
  <1>1. /\ ~down /\ \A i \in 1..Len(q2) : q2[i] # "press"
        /\ down' /\ heldFor' = 0 /\ upFor' = 0 /\ lag' = lag /\ Ke!Post("press")
    BY KeyFacts DEF Ke!Press, KeyNumbers
  <1> DEFINE n == Len(q2)
             m == Len(q2')
  <1>2. /\ n \in Nat /\ m \in Nat /\ lag \in Nat
        /\ \/ q2' = q2 /\ n = Q2Depth
           \/ /\ m = n + 1 /\ q2'[n + 1] = "press" /\ \A i \in 1..n : q2'[i] = q2[i]
    BY <1>1, PostIs, QueueIs, KeyFacts DEF Scans, KeyNumbers
  <1>3. CASE q2' = q2
    BY <1>1, <1>2, <1>3 DEF KeyOrder, OnlyRepeats
  <1>4. CASE m = n + 1 /\ q2'[n + 1] = "press" /\ \A i \in 1..n : q2'[i] = q2[i]
    <2>1. ~OnlyRepeats(q2')
      BY <1>2, <1>4 DEF OnlyRepeats
    <2>2. \A i \in 1..m : i = n + 1 \/ (i \in 1..n /\ q2'[i] = q2[i])
      BY <1>2, <1>4
    <2>3. \A i, j \in 1..m : i < j /\ q2'[i] # "repeat" => q2'[j] # "repeat"
      BY <1>2, <1>4, <2>2 DEF KeyOrder
    <2>4. \A i \in 1..m : q2'[i] = "press" => i = m
      BY <1>1, <1>2, <1>4, <2>2
    <2> QED  BY <1>1, <1>2, <2>1, <2>3, <2>4 DEF KeyOrder
  <1> QED  BY <1>2, <1>3, <1>4

LEMMA ReleaseOrder ==
    ASSUME Ke!KeyAssumption, KeyTypes, KeyOrder, Ke!Release
    PROVE  KeyOrder'
  <1>1. /\ down /\ ~down' /\ upFor' = 0 /\ lag' = lag /\ heldFor' = heldFor
           /\ Ke!Post("release")
    BY DEF Ke!Release, Ke!hold
  <1> DEFINE n == Len(q2)
             m == Len(q2')
  <1>2. /\ n \in Nat /\ m \in Nat /\ lag \in 0..Stall + 1 /\ Stall < Q2Depth /\ Stall \in Nat
        /\ \/ q2' = q2 /\ n = Q2Depth
           \/ /\ m = n + 1 /\ q2'[n + 1] = "release" /\ \A i \in 1..n : q2'[i] = q2[i]
    BY <1>1, PostIs, QueueIs, KeyFacts DEF Scans, KeyNumbers
  <1>3. CASE q2' = q2 /\ n = Q2Depth
    <2>1. OnlyRepeats(q2) => lag = Stall + 1
      BY <1>2, <1>3 DEF KeyOrder
    <2> QED  BY <1>1, <1>2, <1>3, <2>1 DEF KeyOrder, OnlyRepeats
  <1>4. CASE m = n + 1 /\ q2'[n + 1] = "release" /\ \A i \in 1..n : q2'[i] = q2[i]
    <2>1. ~OnlyRepeats(q2')
      BY <1>2, <1>4 DEF OnlyRepeats
    <2>2. \A i \in 1..m : i = n + 1 \/ (i \in 1..n /\ q2'[i] = q2[i])
      BY <1>2, <1>4
    <2>3. \A i, j \in 1..m : i < j /\ q2'[i] # "repeat" => q2'[j] # "repeat"
      BY <1>2, <1>4, <2>2 DEF KeyOrder
    <2>4. \A i \in 1..m : q2'[i] = "press" => heldFor <= lag
      BY <1>2, <1>4, <2>2 DEF KeyOrder
    <2> QED  BY <1>1, <1>2, <2>1, <2>3, <2>4 DEF KeyOrder
  <1> QED  BY <1>2, <1>3, <1>4

LEMMA ElapseOrder ==
    ASSUME Ke!KeyAssumption, KeyTypes, KeyOrder, Ke!TapElapse
    PROVE  KeyOrder'
  <1>1. lag <= Stall /\ lag' = lag + 1 /\ down' = down
    BY DEF Ke!TapElapse
  <1> DEFINE n == Len(q2)
             m == Len(q2')
  <1>0. n \in Nat /\ lag \in Nat /\ heldFor \in Nat /\ upFor \in Nat /\ Stall \in Nat
    BY KeyFacts DEF KeyNumbers
  <1>2. CASE ~down
    <2>1. q2' = q2 /\ heldFor' = heldFor /\ (upFor' = upFor + 1 \/ upFor' = upFor)
      BY <1>2 DEF Ke!TapElapse, Ke!Up
    <2> QED  BY <1>0, <1>1, <1>2, <2>1 DEF KeyOrder, OnlyRepeats
  <1>3. CASE down
    <2>1. heldFor' = heldFor + 1 /\ upFor' = upFor /\ upFor = 0
      BY <1>3 DEF Ke!TapElapse, KeyOrder
    <2>2. CASE q2' = q2
      BY <1>0, <1>1, <1>3, <2>1, <2>2 DEF KeyOrder, OnlyRepeats
    <2>3. CASE heldFor + 1 >= FirstRepeat /\ Ke!Post("repeat") /\ q2' # q2
      <3>1. /\ m = n + 1 /\ q2'[n + 1] = "repeat" /\ \A i \in 1..n : q2'[i] = q2[i]
        BY <2>3, PostIs DEF Scans
      <3>2. \A i \in 1..n : q2[i] = "repeat"
        <4>1. ~(heldFor <= lag)
          BY <1>0, <1>1, <2>3, KeyFacts DEF KeyNumbers
        <4> QED  BY <1>3, <4>1 DEF KeyOrder
      <3>3. \A i \in 1..m : q2'[i] = "repeat"
        BY <1>0, <3>1, <3>2
      <3>4. n <= lag
        BY <3>2 DEF KeyOrder, OnlyRepeats
      <3> QED  BY <1>0, <1>1, <1>3, <2>1, <3>1, <3>3, <3>4 DEF KeyOrder, KeyNumbers
    <2> QED  BY <1>3, <2>2, <2>3 DEF Ke!TapElapse
  <1> QED  BY <1>2, <1>3

LEMMA TakeOrder ==
    ASSUME Ke!KeyAssumption, KeyTypes, KeyOrder, q2 # <<>>, q2' = Tail(q2),
            UNCHANGED <<Ke!keyVars, lag>>
    PROVE  KeyOrder'
  <1> DEFINE n == Len(q2)
             m == Len(q2')
  <1>1. /\ m \in Nat /\ n = m + 1 /\ lag \in Nat /\ upFor \in Nat
        /\ \A i \in 1..m : q2'[i] = q2[i + 1] /\ i + 1 \in 1..n
        /\ (q2' = <<>>) <=> (m = 0)
    <2>1. lag \in Nat /\ upFor \in Nat
      BY KeyFacts DEF KeyNumbers
    <2> QED  BY <2>1, TakeIs
  <1>2. down' = down /\ heldFor' = heldFor /\ upFor' = upFor /\ lag' = lag
    BY DEF Ke!keyVars
  <1>3. \A i, j \in 1..m : i < j /\ q2'[i] # "repeat" => q2'[j] # "repeat"
    <2> SUFFICES ASSUME NEW i \in 1..m, NEW j \in 1..m, i < j, q2'[i] # "repeat"
                 PROVE  q2'[j] # "repeat"
      OBVIOUS
    <2>1. i + 1 \in 1..n /\ j + 1 \in 1..n /\ i + 1 < j + 1 /\ q2[i + 1] # "repeat"
      BY <1>1
    <2>2. q2[j + 1] # "repeat"
      BY <2>1 DEF KeyOrder
    <2> QED  BY <1>1, <2>2
  <1>4. ASSUME NEW i \in 1..m, q2'[i] = "press"
        PROVE  heldFor <= lag /\ (down => i = m)
    <2>1. i + 1 \in 1..n /\ q2[i + 1] = "press"
      BY <1>1, <1>4
    <2>2. heldFor <= lag /\ (down => i + 1 = n)
      BY <2>1 DEF KeyOrder
    <2>3. m \in Nat /\ n = m + 1
      BY <1>1
    <2>4. i \in Nat
      BY <1>4, <2>3
    <2>5. i + 1 = n => i = m
      <3> HIDE DEF n, m
      <3> QED  BY <2>3, <2>4
    <2> QED  BY <2>2, <2>5
  <1>5. \A i \in 1..m : q2'[i] # "repeat" /\ down => heldFor <= lag
    BY <1>1 DEF KeyOrder
  <1>6. OnlyRepeats(q2') /\ m > 0 => OnlyRepeats(q2)
    <2> SUFFICES ASSUME OnlyRepeats(q2'), m > 0
                 PROVE  OnlyRepeats(q2)
      OBVIOUS
    <2>1. q2'[1] = "repeat" /\ q2[2] = "repeat" /\ 2 \in 1..n /\ 1 \in 1..n
      BY <1>1 DEF OnlyRepeats
    <2>2. q2[1] = "repeat"
      BY <2>1 DEF KeyOrder
    <2>3. \A i \in 1..n : i = 1 \/ (i - 1 \in 1..m /\ q2[i] = q2'[i - 1])
      BY <1>1
    <2> QED  BY <2>2, <2>3 DEF OnlyRepeats
  <1>7. OnlyRepeats(q2') => m <= lag
    <2>1. OnlyRepeats(q2) => n <= lag
      BY DEF KeyOrder
    <2> QED  BY <1>1, <1>6, <2>1
  <1>8. ~down /\ OnlyRepeats(q2') /\ q2' # <<>> => upFor = 0 /\ lag = Stall + 1
    <2>1. q2' # <<>> => m > 0
      BY <1>1
    <2>2. ~down /\ OnlyRepeats(q2) => upFor = 0 /\ lag = Stall + 1
      BY DEF KeyOrder
    <2> QED  BY <1>6, <2>1, <2>2
  <1>9. (q2' # <<>> => upFor <= lag) /\ (down => upFor = 0)
    BY DEF KeyOrder
  <1> QED  BY <1>2, <1>3, <1>4, <1>5, <1>7, <1>8, <1>9 DEF KeyOrder

(* T8 with nothing to take.                                                  *)
LEMMA TickOrder ==
    ASSUME Ke!KeyAssumption, KeyTypes, KeyOrder, Ke!PassTick
    PROVE  KeyOrder'
  <1>1. q2 = <<>> /\ q2' = <<>> /\ lag' = 0 /\ UNCHANGED <<down, heldFor, upFor>>
    BY DEF Ke!PassTick, Ke!keyVars
  <1> QED  BY <1>1 DEF KeyOrder, OnlyRepeats

LEMMA OrderStep ==
    ASSUME Ke!KeyAssumption, KeyTypes, KeyOrder, [Ke!TapNext]_tapVars
    PROVE  KeyOrder'
  <1>1. CASE Ke!PassPress \/ Ke!PassRepeat \/ Ke!PassRelease
    BY <1>1, TakeOrder DEF Ke!PassPress, Ke!PassRepeat, Ke!PassRelease
  <1>2. CASE UNCHANGED tapVars
    BY <1>2 DEF tapVars, Ke!keyVars, KeyOrder, OnlyRepeats
  <1> QED  BY <1>1, <1>2, PressOrder, ReleaseOrder, ElapseOrder, TickOrder DEF Ke!TapNext

(* The press that is timed.                                                  *)

LEMMA FingerPress ==
    ASSUME Ke!KeyAssumption, KeyInv, Ke!Press \/ Ke!Release
    PROVE  KeyPress'
  <1>1. q2' # <<>>
    BY PostIs DEF Ke!Press, Ke!Release, KeyInv, Scans
  <1>2. UNCHANGED <<active, moving, repeated, age, quiet, truth, lag, done>>
    BY DEF Ke!Press, Ke!Release, Ke!hold
  <1>3. ~(down' /\ same')
    BY DEF Ke!Press, Ke!Release
  <1> QED  BY <1>1, <1>2, <1>3 DEF KeyInv, KeyPress

LEMMA ElapsePress ==
    ASSUME Ke!KeyAssumption, KeyInv, Ke!TapElapse
    PROVE  KeyPress'
  <1>1. KeyTypes /\ KeyOrder /\ KeyPress
    BY DEF KeyInv
  <1>0. KeyNumbers
    BY <1>1, KeyFacts
  <1>2. /\ lag <= Stall /\ lag' = lag + 1 /\ heldFor < MaxHeld
        /\ UNCHANGED <<down, active, moving, repeated, same, done>>
    BY DEF Ke!TapElapse
  <1>3. active /\ ~moving => age' = age + 1 /\ quiet' = quiet + 1
    <2>1. active /\ ~moving => age < MaxHeld /\ quiet < MaxHeld
      BY <1>0, <1>1, <1>2 DEF KeyPress, KeyNumbers
    <2> QED  BY <2>1 DEF Ke!TapElapse, Ke!Up
  <1>4. /\ down /\ same => heldFor' = heldFor + 1 /\ truth' = heldFor + 1
        /\ ~(down /\ same) => truth' = truth
    BY DEF Ke!TapElapse
  <1>5. down /\ same /\ heldFor + 1 >= FirstRepeat => q2' # <<>> /\ OnlyRepeats(q2')
    <2> SUFFICES ASSUME down, same, heldFor + 1 >= FirstRepeat
                 PROVE  q2' # <<>> /\ OnlyRepeats(q2')
      OBVIOUS
    <2>1. Ke!Post("repeat") /\ OnlyRepeats(q2)
      BY <1>1 DEF Ke!TapElapse, KeyPress
    <2>2. /\ q2' # <<>>
          /\ \/ q2' = q2
             \/ /\ Len(q2') = Len(q2) + 1 /\ q2'[Len(q2) + 1] = "repeat"
                /\ \A i \in 1..Len(q2) : q2'[i] = q2[i]
      BY <1>1, <2>1, PostIs DEF Scans
    <2>3. Len(q2) \in Nat
      BY <1>1, QueueIs
    <2> QED  BY <2>1, <2>2, <2>3 DEF OnlyRepeats
  <1>6. ~down \/ heldFor + 1 < FirstRepeat => q2' = q2
    BY <1>1, KeyFacts DEF Ke!TapElapse, KeyNumbers
  <1>7. q2' = <<>> => q2 = <<>>
    BY <1>1, <1>6, PostIs DEF Ke!TapElapse, Scans
  <1>8. active /\ ~moving => age' <= HoldFor - 1 + lag' /\ truth' <= age' + Stall + 1
    <2>1. active /\ ~moving => age <= HoldFor - 1 + lag /\ truth <= age + Stall + 1
      BY <1>1 DEF KeyPress
    <2>2. truth' = truth \/ truth' = truth + 1
      BY <1>1, <1>4 DEF KeyPress
    <2> QED  BY <1>0, <1>2, <1>3, <2>1, <2>2 DEF KeyNumbers
  <1>9. active /\ ~moving /\ q2' = <<>> =>
           truth' + quiet' <= age' + Stall + 1 \/ truth' < FirstRepeat
    <2>1. CASE down /\ same
      BY <1>1, <1>4, <1>5, <2>1, KeyFacts DEF KeyNumbers
    <2>2. CASE ~(down /\ same)
      <3>1. active /\ ~moving /\ q2 = <<>> =>
               truth + quiet <= age + Stall + 1 \/ truth < FirstRepeat
        BY <1>1 DEF KeyPress
      <3> QED  BY <1>0, <1>3, <1>4, <1>7, <2>2, <3>1 DEF KeyNumbers
    <2> QED  BY <2>1, <2>2
  <1>10. down /\ same =>
            /\ active /\ truth' = heldFor' /\ OnlyRepeats(q2')
            /\ heldFor' < FirstRepeat => q2' = <<>> /\ ~repeated /\ age' <= heldFor'
            /\ heldFor' >= FirstRepeat /\ q2' = <<>> => repeated /\ quiet' = 0
    <2> SUFFICES ASSUME down, same
                 PROVE  /\ active /\ truth' = heldFor' /\ OnlyRepeats(q2')
                        /\ heldFor' < FirstRepeat =>
                              q2' = <<>> /\ ~repeated /\ age' <= heldFor'
                        /\ heldFor' >= FirstRepeat /\ q2' = <<>> => repeated /\ quiet' = 0
      OBVIOUS
    <2>1. active /\ truth' = heldFor' /\ heldFor' = heldFor + 1
      BY <1>1, <1>4 DEF KeyPress
    <2>2. CASE heldFor + 1 >= FirstRepeat
      BY <1>1, <1>5, <2>1, <2>2, KeyFacts DEF KeyNumbers
    <2>3. CASE heldFor + 1 < FirstRepeat
      <3>0. heldFor < FirstRepeat
        BY <1>0, <2>3 DEF KeyNumbers
      <3>1. q2' = <<>> /\ ~repeated /\ age <= heldFor
        BY <1>1, <1>6, <2>3, <3>0 DEF KeyPress
      <3>5. age' \in Nat
        BY <1>0 DEF Ke!TapElapse, Ke!Up, KeyNumbers
      <3>2. age' <= age + 1
        BY <1>0, <2>1 DEF Ke!TapElapse, Ke!Up, KeyNumbers
      <3>3. OnlyRepeats(q2')
        BY <3>1 DEF OnlyRepeats
      <3>4. age' <= heldFor'
        BY <1>0, <2>1, <3>1, <3>2, <3>5 DEF KeyNumbers
      <3> QED  BY <1>0, <2>1, <2>3, <3>1, <3>3, <3>4 DEF KeyNumbers
    <2> QED  BY <1>1, <2>2, <2>3, KeyFacts DEF KeyNumbers
  <1>11. done = "full" /\ ~active => truth' <= TapMax + Stall
    BY <1>1, <1>4 DEF KeyPress
  <1>12. moving => active /\ repeated /\ quiet' <= LostAfter + lag'
    <2>1. moving => active /\ repeated /\ quiet <= LostAfter + lag
      BY <1>1 DEF KeyPress
    <2>2. quiet' = 0 \/ quiet' = quiet + 1 \/ quiet' = quiet
      BY DEF Ke!TapElapse, Ke!Up
    <2> QED  BY <1>0, <1>2, <2>1, <2>2 DEF KeyNumbers
  <1>13. active /\ repeated /\ ~down /\ q2' = <<>> => upFor' <= quiet'
    <2>1. active /\ repeated /\ ~down /\ q2 = <<>> => upFor <= quiet
      BY <1>1 DEF KeyPress
    <2>2. active /\ ~down => upFor' = Ke!Up(upFor) /\ quiet' = Ke!Up(quiet)
      BY DEF Ke!TapElapse
    <2>3. upFor <= quiet => Ke!Up(upFor) <= Ke!Up(quiet)
      BY <1>0 DEF Ke!Up, KeyNumbers
    <2> QED  BY <1>7, <2>1, <2>2, <2>3
  <1> QED
    BY <1>2, <1>8, <1>9, <1>10, <1>11, <1>12, <1>13 DEF KeyPress

(* A key that is down is not taken for lost.                                 *)
LEMMA TickPress ==
    ASSUME Ke!KeyAssumption, KeyInv, Ke!PassTick
    PROVE  KeyPress'
  <1>1. KeyTypes /\ KeyOrder /\ KeyPress
    BY DEF KeyInv
  <1>2. q2 = <<>> /\ q2' = <<>> /\ lag' = 0 /\ Ke!Tick /\ UNCHANGED <<down, heldFor, upFor>>
    BY DEF Ke!PassTick, Ke!keyVars
  <1>3. down /\ same => ~(active /\ Ke!IsLost)
    <2>1. KeyNumbers
      BY <1>1, KeyFacts
    <2>2. CASE down /\ same /\ heldFor < FirstRepeat
      <3>1. ~repeated /\ age <= heldFor
        BY <1>1, <2>2 DEF KeyPress
      <3> QED  BY <2>1, <2>2, <3>1 DEF Ke!IsLost, KeyNumbers
    <2>3. CASE down /\ same /\ ~(heldFor < FirstRepeat)
      <3>1. heldFor >= FirstRepeat
        BY <2>1, <2>3 DEF KeyNumbers
      <3>2. repeated /\ quiet = 0
        BY <1>1, <1>2, <2>3, <3>1 DEF KeyPress
      <3> QED  BY <2>1, <3>2 DEF Ke!IsLost, KeyNumbers
    <2> QED  BY <2>2, <2>3
  <1>4. CASE active /\ Ke!IsLost
    <2>1. /\ ~active' /\ ~moving' /\ UNCHANGED <<truth, same>>
          /\ done' = Ke!Amounts(age - quiet)
      BY <1>2, <1>4 DEF Ke!Tick, Ke!Forget
    <2>2. done' = "full" => truth <= TapMax + Stall
      <3>1. done' = "full" => ~moving /\ age - quiet < TapMax
        BY <2>1 DEF Ke!Amounts
      <3>2. ~moving => truth + quiet <= age + Stall + 1 \/ truth < FirstRepeat
        BY <1>1, <1>2, <1>4 DEF KeyPress
      <3> QED  BY <1>1, <3>1, <3>2, KeyFacts DEF KeyNumbers
    <2> QED  BY <1>2, <1>3, <1>4, <2>1, <2>2 DEF KeyPress
  <1>5. CASE active /\ ~Ke!IsLost /\ ~moving /\ age >= HoldFor
    <2>1. /\ moving' /\ done' = "start" /\ UNCHANGED <<active, repeated, age, quiet, truth,
              same>>
      BY <1>2, <1>5 DEF Ke!Tick
    <2>2. repeated /\ quiet <= LostAfter
      BY <1>1, <1>5, KeyFacts DEF Ke!IsLost, KeyNumbers
    <2> QED  BY <1>1, <1>2, <1>5, <2>1, <2>2, KeyFacts DEF KeyPress, KeyNumbers
  <1>6. CASE ~(active /\ Ke!IsLost) /\ ~(active /\ ~moving /\ age >= HoldFor)
    <2>1. done' = "nothing" /\ UNCHANGED <<active, moving, repeated, age, quiet, truth, same>>
      BY <1>2, <1>6 DEF Ke!Tick, Ke!hold
    <2>2. moving => quiet <= LostAfter
      BY <1>1, <1>6, KeyFacts DEF Ke!IsLost, KeyPress, KeyNumbers
    <2>3. active /\ ~moving => age <= HoldFor - 1
      BY <1>1, <1>6, KeyFacts DEF KeyNumbers
    <2> QED  BY <1>1, <1>2, <2>1, <2>2, <2>3, KeyFacts DEF KeyPress, KeyNumbers
  <1> QED  BY <1>4, <1>5, <1>6

LEMMA PassPressPress ==
    ASSUME Ke!KeyAssumption, KeyInv, Ke!PassPress
    PROVE  KeyPress'
  <1>1. KeyTypes /\ KeyOrder
    BY DEF KeyInv
  <1>2. /\ q2 # <<>> /\ Head(q2) = "press" /\ q2' = Tail(q2)
        /\ active' /\ ~moving' /\ ~repeated' /\ age' = 0 /\ quiet' = 0
        /\ truth' = heldFor /\ UNCHANGED <<down, heldFor, upFor, lag>>
    BY DEF Ke!PassPress, Ke!keyVars
  <1>3. heldFor <= lag /\ (down => Len(q2) = 1)
    BY <1>1, <1>2, TakeIs DEF KeyOrder
  <1>4. down => q2' = <<>>
    BY <1>1, <1>2, <1>3, TakeIs
  <1>5. heldFor < FirstRepeat /\ heldFor <= Stall + 1 /\ 0 <= HoldFor - 1 + lag
    BY <1>1, <1>3, KeyFacts DEF KeyNumbers
  <1>6. truth' < FirstRepeat /\ truth' <= age' + Stall + 1 /\ age' <= HoldFor - 1 + lag'
    BY <1>1, <1>2, <1>5, KeyFacts DEF KeyNumbers
  <1>7. OnlyRepeats(<<>>)
    BY DEF OnlyRepeats
  <1>8. age' <= heldFor /\ ~(heldFor >= FirstRepeat)
    BY <1>1, <1>2, <1>5, KeyFacts DEF KeyNumbers
  <1> QED  BY <1>2, <1>4, <1>5, <1>6, <1>7, <1>8 DEF KeyPress

LEMMA PassRepeatPress ==
    ASSUME Ke!KeyAssumption, KeyInv, Ke!PassRepeat
    PROVE  KeyPress'
  <1>1. KeyTypes /\ KeyOrder /\ KeyPress
    BY DEF KeyInv
  <1>2. /\ q2 # <<>> /\ Head(q2) = "repeat" /\ q2' = Tail(q2)
        /\ UNCHANGED <<down, heldFor, upFor, lag, active, age, truth, same>>
    BY DEF Ke!PassRepeat, Ke!keyVars, Ke!hold
  <1>3. OnlyRepeats(q2) => OnlyRepeats(q2')
    BY <1>1, <1>2, TakeIs DEF OnlyRepeats
  <1>4. q2' = <<>> => OnlyRepeats(q2)
    BY <1>1, <1>2, TakeIs DEF OnlyRepeats
  <1>5. CASE active
    <2>1. repeated' /\ quiet' = 0 /\ done' # "full"
      BY <1>5 DEF Ke!PassRepeat
    <2>2. moving' <=> moving \/ age >= HoldFor
      BY <1>1, <1>5, KeyFacts DEF Ke!PassRepeat, KeyNumbers
    <2>3. q2' = <<>> /\ ~down => upFor = 0
      BY <1>1, <1>2, <1>4 DEF KeyOrder
    <2>4. down /\ same => heldFor >= FirstRepeat
      BY <1>1, <1>2, KeyFacts DEF KeyPress, KeyNumbers
    <2>5. ~moving' => ~moving
      BY <2>2
    <2> QED
      <3>1. ~moving' => /\ age' <= HoldFor - 1 + lag' /\ truth' <= age' + Stall + 1
                        /\ truth' + quiet' <= age' + Stall + 1
        BY <1>1, <1>2, <1>5, <2>1, <2>5, KeyFacts DEF KeyPress, KeyNumbers
      <3>2. quiet' <= LostAfter + lag' /\ (upFor = 0 => upFor <= quiet')
        BY <1>1, <1>2, <2>1, KeyFacts DEF KeyNumbers
      <3>3. down /\ same => truth = heldFor /\ OnlyRepeats(q2') /\ ~(heldFor < FirstRepeat)
        BY <1>1, <1>3, <2>4, KeyFacts DEF KeyPress, KeyNumbers
      <3> QED  BY <1>2, <1>5, <2>1, <2>3, <3>1, <3>2, <3>3 DEF KeyPress
  <1>6. CASE ~active
    <2>1. done' = "nothing" /\ UNCHANGED <<moving, repeated, quiet>>
      BY <1>6 DEF Ke!PassRepeat, Ke!hold
    <2> QED  BY <1>1, <1>2, <1>3, <1>6, <2>1 DEF KeyPress
  <1> QED  BY <1>5, <1>6

LEMMA PassReleasePress ==
    ASSUME Ke!KeyAssumption, KeyInv, Ke!PassRelease
    PROVE  KeyPress'
  <1>1. KeyTypes /\ KeyOrder /\ KeyPress
    BY DEF KeyInv
  <1>2. /\ q2 # <<>> /\ Head(q2) = "release" /\ q2' = Tail(q2)
        /\ UNCHANGED <<down, heldFor, upFor, lag, truth, same>>
    BY DEF Ke!PassRelease, Ke!keyVars, Ke!hold
  <1>3. ~(down /\ same)
    BY <1>1, <1>2, TakeIs DEF KeyPress, OnlyRepeats
  <1>4. CASE active
    <2>1. ~active' /\ ~moving' /\ done' = Ke!Amounts(age)
      BY <1>4 DEF Ke!PassRelease, Ke!Forget
    <2>2. done' = "full" => truth <= TapMax + Stall
      <3>1. done' = "full" => ~moving /\ age < TapMax
        BY <2>1 DEF Ke!Amounts
      <3>2. ~moving => truth <= age + Stall + 1
        BY <1>1, <1>4 DEF KeyPress
      <3> QED  BY <1>1, <3>1, <3>2, KeyFacts DEF KeyNumbers
    <2> QED  BY <1>2, <1>3, <2>1, <2>2 DEF KeyPress
  <1>5. CASE ~active
    <2>1. done' = "nothing" /\ UNCHANGED <<active, moving, repeated, age, quiet>>
      BY <1>5 DEF Ke!PassRelease, Ke!hold
    <2> QED  BY <1>1, <1>2, <1>3, <1>5, <2>1 DEF KeyPress
  <1> QED  BY <1>4, <1>5

LEMMA TimedStep ==
    ASSUME Ke!KeyAssumption, KeyInv, [Ke!TapNext]_tapVars
    PROVE  KeyPress'
  <1>1. CASE UNCHANGED tapVars
    BY <1>1 DEF tapVars, Ke!keyVars, Ke!hold, KeyInv, KeyPress, OnlyRepeats
  <1> QED
    BY <1>1, FingerPress, ElapsePress, TickPress, PassPressPress, PassRepeatPress,
       PassReleasePress DEF Ke!TapNext

LEMMA Followed ==
    ASSUME Ke!KeyAssumption, KeyInv
    PROVE  Ke!HandIsFollowed
  <1>1. done = "full" /\ ~active => truth <= TapMax + Stall
    BY DEF KeyInv, KeyPress
  <1>2. ASSUME moving, ~down
        PROVE  upFor <= LostAfter + Stall + 1
    <2>0. KeyNumbers
      BY KeyFacts DEF KeyInv
    <2>1. CASE q2 = <<>>
      <3>1. active /\ repeated /\ quiet <= LostAfter + lag
        BY <1>2 DEF KeyInv, KeyPress
      <3>2. upFor <= quiet
        BY <1>2, <2>1, <3>1 DEF KeyInv, KeyPress
      <3> QED  BY <2>0, <3>1, <3>2 DEF KeyNumbers
    <2>2. CASE q2 # <<>>
      <3>1. upFor <= lag
        BY <2>2 DEF KeyInv, KeyOrder
      <3> QED  BY <2>0, <3>1 DEF KeyNumbers
    <2> QED  BY <2>1, <2>2
  <1> QED  BY <1>1, <1>2 DEF Ke!HandIsFollowed

LEMMA KeyStarts == ASSUME Ke!KeyAssumption, Ke!TapInit  PROVE KeyInv
  BY DEF Ke!KeyAssumption, Ke!TapInit, KeyInv, KeyTypes, KeyOrder, KeyPress, Ke!TapTypeOK,
     OnlyRepeats

LEMMA KeyTypesStep == ASSUME Ke!KeyAssumption, KeyTypes, [Ke!TapNext]_tapVars  PROVE KeyTypes'
  <1>0. KeyNumbers /\ q2 \in Seq(Scans) /\ Len(q2) <= Q2Depth
    BY KeyFacts DEF KeyTypes, Ke!TapTypeOK, Scans
  <1>1. CASE Ke!Press \/ Ke!Release
    <2>1. q2' \in Seq(Scans) /\ Len(q2') <= Q2Depth
      BY <1>0, <1>1, PostIs DEF Ke!Press, Ke!Release, Scans, KeyNumbers
    <2>2. /\ UNCHANGED <<age, quiet, truth, active, moving, done, lag>>
          /\ heldFor' \in Nat /\ upFor' \in Nat
      <3>1. CASE Ke!Press  BY <3>1 DEF Ke!Press
      <3>2. CASE Ke!Release  BY <1>0, <3>2 DEF Ke!Release, Ke!hold, KeyNumbers
      <3> QED  BY <1>1, <3>1, <3>2
    <2> QED  BY <2>1, <2>2 DEF KeyTypes, Ke!TapTypeOK, Scans
  <1>2. CASE Ke!TapElapse
    <2>1. q2' \in Seq(Scans) /\ Len(q2') <= Q2Depth
      <3>1. CASE Ke!Post("repeat")  BY <1>0, <3>1, PostIs DEF Scans, KeyNumbers
      <3>2. CASE UNCHANGED q2  BY <1>0, <3>2
      <3> QED  BY <1>2, <3>1, <3>2 DEF Ke!TapElapse
    <2>2. age' \in Nat /\ quiet' \in Nat /\ quiet' <= age'
      BY <1>0, <1>2 DEF Ke!TapElapse, Ke!Up, KeyNumbers
    <2>3. heldFor' \in Nat /\ upFor' \in Nat /\ truth' \in Nat
      BY <1>0, <1>2 DEF Ke!TapElapse, Ke!Up, KeyNumbers
    <2>4. lag' \in 0..Stall + 1 /\ UNCHANGED <<active, moving, done>>
      BY <1>0, <1>2 DEF Ke!TapElapse, KeyNumbers
    <2> QED  BY <2>1, <2>2, <2>3, <2>4 DEF KeyTypes, Ke!TapTypeOK, Scans
  <1>3. CASE Ke!PassTick
    <2>1. UNCHANGED <<heldFor, upFor, q2, truth>> /\ lag' \in 0..Stall + 1
      BY <1>0, <1>3 DEF Ke!PassTick, Ke!Tick, Ke!keyVars, Ke!hold, KeyNumbers
    <2>2. /\ age' \in Nat /\ quiet' \in Nat /\ quiet' <= age' /\ (moving' => active')
          /\ done' \in {"nothing", "full", "mid", "start", "stop"}
      BY <1>0, <1>3 DEF Ke!PassTick, Ke!Tick, Ke!Forget, Ke!Amounts, Ke!hold, KeyNumbers
    <2> QED  BY <2>1, <2>2 DEF KeyTypes, Ke!TapTypeOK
  <1>4. CASE Ke!PassPress \/ Ke!PassRepeat \/ Ke!PassRelease
    <2>1. q2' \in Seq(Scans) /\ Len(q2') <= Q2Depth
      BY <1>0, <1>4, TakeIs DEF Ke!PassPress, Ke!PassRepeat, Ke!PassRelease, KeyNumbers
    <2>2. /\ age' \in Nat /\ quiet' \in Nat /\ quiet' <= age' /\ (moving' => active')
          /\ done' \in {"nothing", "full", "mid", "start", "stop"} /\ truth' \in Nat
          /\ UNCHANGED <<heldFor, upFor, lag>>
      <3>1. CASE Ke!PassPress
        BY <1>0, <3>1 DEF Ke!PassPress, Ke!Amounts, Ke!keyVars, KeyNumbers
      <3>2. CASE Ke!PassRepeat
        BY <1>0, <3>2 DEF Ke!PassRepeat, Ke!keyVars, Ke!hold, KeyNumbers
      <3>3. CASE Ke!PassRelease
        BY <1>0, <3>3
           DEF Ke!PassRelease, Ke!Forget, Ke!Amounts, Ke!keyVars, Ke!hold, KeyNumbers
      <3> QED  BY <1>4, <3>1, <3>2, <3>3
    <2> QED  BY <2>1, <2>2 DEF KeyTypes, Ke!TapTypeOK, Scans
  <1>5. CASE UNCHANGED tapVars
    BY <1>5 DEF tapVars, Ke!keyVars, Ke!hold, KeyTypes, Ke!TapTypeOK
  <1> QED  BY <1>1, <1>2, <1>3, <1>4, <1>5 DEF Ke!TapNext

LEMMA KeyStep == ASSUME Ke!KeyAssumption, KeyInv, [Ke!TapNext]_tapVars  PROVE KeyInv'
  <1>1. KeyTypes'
    BY KeyTypesStep DEF KeyInv
  <1>2. KeyOrder'
    BY OrderStep DEF KeyInv
  <1> QED  BY <1>1, <1>2, TimedStep DEF KeyInv

LEMMA KeyHolds == Spec => []KeyInv
  <1>1. Init => KeyInv
    BY ServicesAssumption, KeyStarts DEF Init
  <1>2. KeyInv /\ [Next]_vars => KeyInv'
    BY ServicesAssumption, UnitSteps, KeyStep
  <1> QED  BY <1>1, <1>2, PTL DEF Spec

(* A move of M3 that a held key started does not outlive the press: whatever *)
(* ends it, the finger, the session, another screen or the BOOT button, asks *)
(* T2 for a stop, but for the wind, a full Q1 and a restart (ui_display.cpp, *)
(* m3_hold_end()).  A full stroke comes of a tap alone, and a move of a key  *)
(* that is held or was until just now, whatever repeats and releases a Q2    *)
(* that is longer than T8 is ever behind has lost (m3_hold.cpp).             *)
THEOREM HandIsObeyed == Spec => PanelMovesByHand
  <1>1. KeyInv => Ke!HandIsFollowed
    BY ServicesAssumption, Followed
  <1>2. Spec => []Ke!HandIsFollowed
    BY <1>1, KeyHolds, PTL
  <1> QED  BY <1>2, MovesAreStopped, PTL DEF PanelMovesByHand

-----------------------------------------------------------------------------
(* All of them. *)

LEMMA HereStays == Spec => [](here \in Services)
  <1>1. Init => here \in Services
    BY DEF Init
  <1>2. here \in Services /\ [Next]_vars => (here \in Services)'
    BY DEF Next, UnitNext, WorldNext, vars
  <1> QED  BY <1>1, <1>2, PTL DEF Spec

(* Every service keeps its state to its type.                                *)
THEOREM TypesHold == Spec => []TypeOK
  <1>1. /\ here \in Services /\ Ot!OtaTypeOK /\ ShipInv /\ RowsInv /\ PanelInv /\ CfgInv
        /\ PinInv /\ BootInv
        /\ here \in {"ota", "log", "rows", "panel", "settings", "pin", "boot"}
        => TypeOK
    BY ServicesAssumption, NoneBehind, RowsTyped, CfgTyped, OrderHolds
       DEF PanelInv, PinInv, TypeOK
  <1>2. /\ here \in Services /\ KeyInv /\ St!StaTypeOK /\ Ap!ApTypeOK /\ SenseInv
        /\ BusTypes /\ LawInv /\ SessionInv /\ ClockInv
        /\ ~(here \in {"ota", "log", "rows", "panel", "settings", "pin", "boot"})
        => TypeOK
    BY ServicesAssumption, SessionTyped
       DEF KeyInv, KeyTypes, SenseInv, BusTypes, LawInv, ClockInv, TypeOK
  <1> QED
    BY <1>1, <1>2, HereStays, OtaHolds, ShipHolds, RowsHold, PanelHolds, CfgHolds, PinsHold,
       BootHolds, KeyHolds, StaHolds, ApHolds, SenseHolds, BusIsTyped, LawHolds, SessionsHold,
       ClockHolds, PTL
==============================================================================
