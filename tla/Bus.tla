--------------------------------- MODULE Bus ---------------------------------
(***************************************************************************)
(* The RS-485 bus: one master, several tasks, and slaves that may answer   *)
(* late, wrong or not at all.                                              *)
(*   src/drivers/modBus/src/modbus_rtu.cpp                                 *)
(*   src/drivers/windowPos, src/drivers/s200, src/drivers/FG6485A          *)
(*                                                                         *)
(* A frame is the question it answers, or junk.  An answer is told from    *)
(* another by its device and its form (function and length), no more: two  *)
(* registers of one device read alike, and so do two writes to it.  The    *)
(* counters are left out.                                                  *)
(***************************************************************************)
EXTENDS Naturals, Sequences

CONSTANTS
    LateBeyondGap   \* a slave may answer after the gap that follows a timeout

BusAssumption == LateBeyondGap \in BOOLEAN

VARIABLES
    busOf,      \* the task that holds s_bus_mtx
    asking,     \* what it asks
    onBus,      \* where the transaction is
    rx,         \* the frames in the receive FIFO
    owed,       \* the questions slaves have yet to answer
    got         \* what the last transaction gave: its status, what was asked and answered

busVars == <<busOf, asking, onBus, rx, owed, got>>

Q(dev, form, reg) == [dev |-> dev, form |-> form, reg |-> reg]

(* Who asks what: s200_read_measurements(), fg6485a_read_measurements();     *)
(* windowpos_read(), _read_ident(), _read_captures(), _set_window_ms().      *)
QuestionsOf ==
    [T5  |-> {Q("s200", "block", "wind"), Q("fg", "block", "t")},
     T17 |-> {Q("wpos", "block", "reading"), Q("wpos", "word", "closed"),
              Q("wpos", "word", "open")},
     T11 |-> {Q("wpos", "write", "window"), Q("wpos", "write", "teach")}]
BusTasks  == DOMAIN QuestionsOf
Questions == UNION {QuestionsOf[t] : t \in BusTasks}
Junk    == Q("?", "junk", "?")
Nothing == [status |-> "none", asked |-> Junk, answer |-> Junk]

BusInit ==
    /\ busOf = "none" /\ asking = Junk /\ onBus = "idle"
    /\ rx = <<>> /\ owed = {} /\ got = Nothing

(* bus_lock(): or BUSY, after 500 ms, with nothing on the wire. *)
Lock(t) ==
    \/ /\ busOf = "none" /\ busOf' = t
       /\ asking' \in QuestionsOf[t] /\ onBus' = "send"
       /\ UNCHANGED <<rx, owed, got>>
    \/ /\ busOf \notin {"none", t}
       /\ got' = [Nothing EXCEPT !.status = "BUSY"]
       /\ UNCHANGED <<busOf, asking, onBus, rx, owed>>

(* modbus_init() again, under the lock or not at all: the driver is deleted  *)
(* and installed anew.                                                       *)
Reinit ==
    /\ busOf = "none" /\ rx' = <<>>
    /\ UNCHANGED <<busOf, asking, onBus, owed, got>>

(* drain_rx() and send_request(); the slave hears it, or not. *)
Send ==
    /\ onBus = "send" /\ onBus' = "await"
    /\ rx' = <<>> /\ owed' \in {owed, owed \cup {asking}}
    /\ UNCHANGED <<busOf, asking, got>>

(* A slave answers; on the way the frame may be garbled. *)
Answer ==
    /\ \E q \in owed : owed' = owed \ {q} /\ \E f \in {q, Junk} : rx' = Append(rx, f)
    /\ UNCHANGED <<busOf, asking, onBus, got>>

Verdict(f) ==
    IF f = Junk THEN "CRC"
    ELSE IF <<f.dev, f.form>> = <<asking.dev, asking.form>> THEN "OK"
    ELSE "FRAMING"

(* modbus_transaction(): a frame is there.  What follows it is drained. *)
Receive ==
    /\ onBus = "await" /\ rx # <<>>
    /\ got' = [status |-> Verdict(Head(rx)), asked |-> asking, answer |-> Head(rx)]
    /\ rx' = <<>> /\ onBus' = "gap"
    /\ UNCHANGED <<busOf, asking, owed>>

(* None has come in 200 ms. *)
TimesOut ==
    /\ onBus = "await" /\ rx = <<>>
    /\ got' = [status |-> "TIMEOUT", asked |-> asking, answer |-> Junk]
    /\ onBus' = "gap"
    /\ UNCHANGED <<busOf, asking, rx, owed>>

(* Wrong: the lock goes before the silence. *)
WrongUnlock ==
    /\ onBus = "gap" /\ onBus' = "idle" /\ busOf' = "none" /\ asking' = Junk
    /\ UNCHANGED <<rx, owed, got>>

(* wait_ifg(), in which the late answers come, and the lock goes. *)
Unlock ==
    /\ onBus = "gap" /\ (owed = {} \/ LateBeyondGap)
    /\ onBus' = "idle" /\ busOf' = "none" /\ asking' = Junk
    /\ UNCHANGED <<rx, owed, got>>

BusNext ==
    \/ \E t \in BusTasks : Lock(t)
    \/ Reinit \/ Send \/ Answer \/ Receive \/ TimesOut \/ Unlock

BusSpec == BusInit /\ [][BusNext]_busVars

-----------------------------------------------------------------------------
BusTypeOK ==
    /\ busOf \in {"none"} \cup BusTasks /\ (busOf = "none") = (onBus = "idle")
    /\ rx \in Seq(Questions \cup {Junk}) /\ owed \subseteq Questions

(* "No transaction can inherit another one's leftovers"                      *)
(* (modbus_rtu.cpp:436): what is taken for an answer answers what was asked. *)
NobodysLeftovers == got.status = "OK" => got.answer = got.asked
===============================================================================
