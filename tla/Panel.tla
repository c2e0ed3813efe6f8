-------------------------------- MODULE Panel --------------------------------
(***************************************************************************)
(* T8, the LCD and its menus: src/firmware/src/ui_display/ui_display.cpp.  *)
(* A screen, a session, what a PIN was asked for, and the press of an M3   *)
(* key that is being timed (M3Hold has its clock).                         *)
(*                                                                         *)
(* Left out: what the screens show, the digits, and the messages (a key    *)
(* pressed under one is a key not pressed).                                *)
(***************************************************************************)
EXTENDS Naturals

VARIABLES
    screen,     \* s_state
    session,    \* s_session: 0 none, 1 farmer, 2 admin
    role,       \* s_pin_role
    pending,    \* the s_pending_ flags that are up
    back,       \* s_return_menu
    asked,      \* where the PIN was asked for: the screen it is to lead to
    menuHold,   \* s_manual_set_standby_on_entry
    m3,         \* s_motor_pick_ch is 3
    press,      \* s_m3_hold
    posted,     \* what this pass of the loop asked T2 for
    windy       \* EG1_BIT_WIND_OVERRIDE

menuVars  == <<screen, session, role, pending, back, asked, menuHold>>
panelVars == <<menuVars, m3, press, posted, windy>>

Screens == {"STATUS", "ROOT", "CLIMATE", "BROWSE", "CR", "WIND", "ACCESS", "SYSTEM",
            "PIN", "EDIT", "DATE", "TIME", "MODE", "PICK", "ACTION"}
None == 0
Farmer == 1
Admin == 2

PanelInit ==
    /\ screen = "STATUS" /\ session = None /\ role = Farmer /\ pending = {}
    /\ back = "STATUS" /\ asked = "STATUS" /\ menuHold = FALSE
    /\ m3 = FALSE /\ press = "none" /\ posted = "none" /\ windy = FALSE

-----------------------------------------------------------------------------
(* The press that is timed. *)

OnM3 == screen = "ACTION" /\ m3

(* Wrong: the hold is forgotten with its screen. *)
WrongLeaves == press' = "none" /\ posted' = "none"

(* The end of each pass: off the M3 screen a move is stopped. *)
Leaves ==
    IF press # "none" /\ ~OnM3'
    THEN press' = "none" /\ posted' \in (IF press = "moving" THEN {"stop", "full"} ELSE {"none"})
    ELSE UNCHANGED press /\ posted' = "none"

(* manual_gate_ok() and post_manual(): asked for, refused, or Q1 is full. *)
Manual(open) ==
    IF windy /\ open THEN {"refused"} ELSE {"move", "refused", "full"}

(* The press ends: released, or its release lost (m3h_release(), end_press(),*)
(* m3_hold_do()).                                                            *)
Ended(open) ==
    CASE press = "moving" -> IF windy THEN {"refused"} ELSE {"stop", "full"}
      [] press = "timing" -> Manual(open) \cup {"none"}

PressM3 ==
    /\ OnM3
    /\ press' = "timing"
    /\ \E open \in BOOLEAN :
          posted' \in (IF press = "none" THEN {"none"} ELSE Ended(open))
    /\ UNCHANGED <<menuVars, m3, windy>>

ReleaseM3 ==
    /\ press # "none"
    /\ press' = "none" /\ \E open \in BOOLEAN : posted' \in Ended(open)
    /\ UNCHANGED <<menuVars, m3, windy>>

(* Two seconds: the move starts, or the press is forgotten. *)
MoveM3 ==
    /\ OnM3 /\ press = "timing"
    /\ \E open \in BOOLEAN : posted' \in Manual(open)
    /\ press' = IF posted' = "move" THEN "moving" ELSE "none"
    /\ UNCHANGED <<menuVars, m3, windy>>

-----------------------------------------------------------------------------
(* Where a key leads. *)

Goes(s) == screen' = s /\ UNCHANGED <<session, role, pending, back, asked, menuHold, m3>>

(* go_status(): the flags of the mode and of the motors go. *)
GoStatus ==
    /\ screen' = "STATUS" /\ pending' = pending \ {"mode", "motor"}
    /\ UNCHANGED <<session, role, back, asked, menuHold, m3>>

(* Wrong: the hold stays when the session goes. *)
WrongSessionClose == session' = None /\ UNCHANGED menuHold

(* session_close(): the menu's hold on STANDBY goes with it. *)
SessionClose == session' = None /\ menuHold' = FALSE

(* A PIN is asked for: which flags are left up is each caller's. *)
AskPin(r, flags, ret, for) ==
    /\ screen' = "PIN" /\ role' = r /\ pending' = flags /\ back' = ret /\ asked' = for
    /\ UNCHANGED <<session, menuHold, m3>>

(* The manual menu holds the greenhouse still, if it can. *)
EnterPick ==
    /\ screen' = "PICK" /\ m3' = FALSE
    /\ menuHold' \in {menuHold, TRUE}

(* begin_edit() *)
BeginEdit(ret) ==
    IF session < Farmer
    THEN AskPin(Farmer, pending \cup {"param"}, ret, "EDIT")
    ELSE /\ screen' = "EDIT" /\ back' = ret
         /\ UNCHANGED <<session, role, pending, asked, menuHold, m3>>

(* handle_status(): '#' on each of the pages; anything else is the menu.    *)
(* The pages turn by themselves.                                            *)
StatusKey ==
    /\ screen = "STATUS"
    /\ \/ \E s \in {"CLIMATE", "WIND"} :
             IF session >= Farmer THEN Goes(s) ELSE AskPin(Farmer, {}, s, s)
       \/ IF session >= Farmer THEN Goes("MODE") ELSE AskPin(Farmer, {"mode"}, "STATUS", "MODE")
       \/ IF session >= Admin THEN Goes("SYSTEM")
          ELSE AskPin(Admin, (pending \cap {"settime"}) \cup {"ap"}, "STATUS", "SYSTEM")
       \/ IF session >= Admin THEN Goes("DATE")
          ELSE AskPin(Admin, (pending \cap {"ap"}) \cup {"settime"}, "STATUS", "DATE")
       \/ IF session >= Admin
          THEN EnterPick /\ UNCHANGED <<session, role, pending, back, asked>>
          ELSE AskPin(Admin, {"motor"}, "STATUS", "PICK")
       \/ Goes("ROOT")
    /\ Leaves /\ UNCHANGED windy

(* handle_menu_root(), _climate(), _browse_setpoints(), _browse_cr(),       *)
(* _param_menu(), _system(), _set_date(), _set_time(), _edit(),             *)
(* _mode_toggle(): the moves from screen to screen.                          *)
Moves ==
    [ROOT |-> {"CLIMATE", "WIND", "ACCESS", "SYSTEM"}, CLIMATE |-> {"BROWSE", "CR", "ROOT"},
     BROWSE |-> {"CLIMATE"}, CR |-> {"CLIMATE"}, WIND |-> {"ROOT"}, SYSTEM |-> {"ROOT"},
     DATE |-> {"TIME"}, TIME |-> {"DATE"}]

MenuKey ==
    /\ \/ screen \in DOMAIN Moves /\ \E s \in Moves[screen] : Goes(s)
       \/ screen = "BROWSE" /\ BeginEdit("BROWSE")
       \/ screen = "CR" /\ BeginEdit("CLIMATE")
       \/ screen = "WIND" /\ BeginEdit("WIND")
       \/ screen = "EDIT" /\ Goes(back)
       \/ screen \notin {"STATUS"} /\ GoStatus
    /\ Leaves /\ UNCHANGED windy

(* handle_menu_access() *)
AccessKey ==
    /\ screen = "ACCESS"
    /\ \/ session < Farmer /\ AskPin(Farmer, pending \ {"param"}, "ACCESS", "ACCESS")
       \/ session < Admin /\ AskPin(Admin, pending \ {"param"}, "ACCESS", "ACCESS")
       \/ Goes("ROOT")
       \/ /\ SessionClose /\ screen' = "STATUS" /\ pending' = pending \ {"mode", "motor"}
          /\ UNCHANGED <<role, back, asked, m3>>
    /\ Leaves /\ UNCHANGED windy

(* handle_pin(): given up, locked out, or the PIN is right and leads to what *)
(* the flags say, in their order.                                            *)
PinCancelled ==
    /\ screen = "PIN"
    /\ screen' = back /\ pending' = {}
    /\ UNCHANGED <<session, role, back, asked, menuHold, m3, windy>> /\ Leaves

PinLockedOut == screen = "PIN" /\ GoStatus /\ Leaves /\ UNCHANGED windy

PinRight ==
    /\ screen = "PIN"
    /\ role' \in (IF "mode" \in pending THEN {Farmer, Admin} ELSE {role})
    /\ session' = role'
    /\ CASE "ap" \in pending ->
              screen' = "SYSTEM" /\ pending' = pending \ {"ap"} /\ UNCHANGED <<menuHold, m3>>
         [] "ap" \notin pending /\ "settime" \in pending ->
              screen' = "DATE" /\ pending' = pending \ {"settime"} /\ UNCHANGED <<menuHold, m3>>
         [] pending \cap {"ap", "settime"} = {} /\ "mode" \in pending ->
              screen' = "MODE" /\ pending' = pending \ {"mode"} /\ UNCHANGED <<menuHold, m3>>
         [] pending \cap {"ap", "settime", "mode"} = {} /\ "motor" \in pending ->
              EnterPick /\ pending' = pending \ {"motor"}
         [] pending = {"param"} -> screen' = "EDIT" /\ UNCHANGED <<pending, menuHold, m3>>
         [] pending = {} -> screen' = back /\ UNCHANGED <<pending, menuHold, m3>>
    /\ Leaves /\ UNCHANGED <<back, asked, windy>>

(* handle_motor_pick(), handle_motor_action(): a motor, its commands; back. *)
PickKey ==
    /\ screen = "PICK" /\ screen' = "ACTION" /\ m3' \in BOOLEAN
    /\ Leaves /\ UNCHANGED <<session, role, pending, back, asked, menuHold, windy>>

ActionKey ==
    \/ /\ screen = "ACTION" /\ Goes("PICK") /\ Leaves /\ UNCHANGED windy
    \/ /\ screen = "ACTION" /\ ~m3
       /\ \E open \in BOOLEAN : posted' \in Manual(open)
       /\ UNCHANGED <<menuVars, m3, press, windy>>

-----------------------------------------------------------------------------
(* What is not a key. *)

SessionTimeout ==
    /\ session # None
    /\ SessionClose /\ screen' = "STATUS" /\ pending' = pending \ {"mode", "motor"}
    /\ UNCHANGED <<role, back, asked, m3, windy>> /\ Leaves

(* Five minutes without a key; not in the motor menus. *)
MenuIdle ==
    /\ screen \notin {"STATUS", "PICK", "ACTION"}
    /\ GoStatus /\ Leaves /\ UNCHANGED windy

(* The BOOT button: PINs or settings are reset and the session closes, with  *)
(* the screen where it is; or the controller starts again.                   *)
ResetButton ==
    /\ SessionClose
    /\ UNCHANGED <<screen, role, pending, back, asked, m3, windy>> /\ Leaves

Restarted ==
    /\ screen' = "STATUS" /\ session' = None /\ role' = Farmer /\ pending' = {}
    /\ back' = "STATUS" /\ asked' = "STATUS" /\ menuHold' = FALSE
    /\ m3' = FALSE /\ press' = "none" /\ posted' = "restart" /\ windy' = FALSE

WindChanges == windy' = ~windy /\ posted' = "none" /\ UNCHANGED <<menuVars, m3, press>>

PanelNext ==
    \/ StatusKey \/ MenuKey \/ AccessKey \/ PinCancelled \/ PinLockedOut \/ PinRight
    \/ PickKey \/ ActionKey \/ PressM3 \/ ReleaseM3 \/ MoveM3
    \/ SessionTimeout \/ MenuIdle \/ ResetButton \/ Restarted \/ WindChanges

PanelSpec == PanelInit /\ [][PanelNext]_panelVars

-----------------------------------------------------------------------------
PanelTypeOK ==
    /\ screen \in Screens /\ back \in Screens /\ asked \in Screens
    /\ session \in None..Admin /\ role \in {Farmer, Admin}
    /\ pending \subseteq {"ap", "settime", "mode", "motor", "param"}
    /\ press \in {"none", "timing", "moving"} /\ menuHold \in BOOLEAN /\ m3 \in BOOLEAN

(* The greenhouse is held still for the manual menu only as long as an admin *)
(* is logged in: every way a session ends lets go (gh#65).                   *)
MenuHoldIsAnAdmins == menuHold => session = Admin

(* A move that a held key started is stopped in whatever way the press ends:*)
(* release, another press, another screen, the session, the BOOT button.    *)
(* Only the wind override, a full Q1 or a restart ends it without a stop.   *)
MoveIsStopped ==
    [][press = "moving" /\ press' # "moving" =>
           posted' \in {"stop", "full", "restart"} \/ windy]_panelVars
===============================================================================
