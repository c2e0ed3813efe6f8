------------------------------ MODULE TickClock ------------------------------
(***************************************************************************)
(* T2's timers on the millisecond clock they are kept on: a 32-bit counter *)
(* that wraps after 49.7 days, compared as a signed difference.            *)
(* src/firmware/src/relay_controller/relay_controller.cpp.                 *)
(*                                                                         *)
(* RelayController counts time down and has no clock to wrap.  Here the    *)
(* clock is real and the rest is reduced to what its arithmetic can upset: *)
(* full strokes, the dwell, the gap and the CLOSE_ALL sweep.  Targets,     *)
(* pulses, stops and the alarm set the same deadlines the same way.        *)
(***************************************************************************)
EXTENDS Integers

CONSTANTS
    Channel,
    Driven,        \* the channels that get commands of their own
    Travel,        \* travel_ms of each channel
    Gap,           \* RELAY_GAP_MS
    Dwell,         \* ch_dwell_ms()
    Late,          \* ticks T2 may let pass between two looks at the clock
    Word,          \* 2^32
    Uptime         \* ticks since boot the run goes to

Half == Word \div 2

ASSUME ClockAssumption ==
    /\ Driven \subseteq Channel
    /\ Travel \in [Channel -> Nat \ {0}]
    /\ Gap \in Nat /\ Dwell \in Nat /\ Late \in Nat \ {0} /\ Uptime \in Nat
    /\ Word \in Nat /\ Word % 2 = 0
    (* The configuration allows no timer of 24.8 days. *)
    /\ Dwell < Half /\ Gap + Late < Half
    /\ \A c \in Channel : Travel[c] + Late < Half

VARIABLES
    tick,    \* ticks since boot; the clock shows tick % Word
    late,    \* ticks since T2 last looked
    win,     \* state, relay_, gap_ and dwell_deadline_ms, move_end_ms
    sweep,   \* calib_close_all(): running, max_deadline_ms, deadline_ms, done
    real     \* what is really so: ran, the ticks the relay has been on; owed,
             \* the ticks left of the dwell; moved, the tick of the last stop;
             \* wraps, the drive is of a sweep whose deadlines lie about the wrap

vars == <<tick, late, win, sweep, real>>

Directions == {"open", "close"}
Opposite == [open |-> "close",       close |-> "open"]
End      == [open |-> "OPEN",        close |-> "CLOSED"]
MovingTo == [open |-> "MOVING_OPEN", close |-> "MOVING_CLOSE"]
GapTo    == [open |-> "GAP_TO_OPEN", close |-> "GAP_TO_CLOSE"]
EndStates    == {"OPEN", "CLOSED"}
MovingStates == {"MOVING_OPEN", "MOVING_CLOSE"}
GapStates    == {"GAP_TO_OPEN", "GAP_TO_CLOSE"}

Now == tick % Word

(* Wrong: the deadlines are compared as they stand. *)
WrongPending(deadline) == Now < deadline

(* (int32_t)(now_ms - deadline) < 0 *)
Pending(deadline) == (Now - deadline) % Word >= Half

(* Wrong: the sum is kept in a wider word. *)
WrongAfter(t) == Now + t

(* now_ms + t, as a uint32_t. *)
After(t) == (Now + t) % Word

(* t2_ms_since_move(): 0 means no move since boot, told as UINT32_MAX. *)
SinceMove(c) == IF win[c].moveEnd = 0 THEN Word - 1 ELSE (Now - win[c].moveEnd) % Word

-----------------------------------------------------------------------------
(* A boot that recovers all windows CLOSED: no deadline is set. *)
Init ==
    /\ tick = 0 /\ late = 0
    /\ win = [c \in Channel |-> [st |-> "CLOSED", relay |-> 0, gap |-> 0,
                                 dwell |-> 0, moveEnd |-> 0]]
    /\ sweep = [on |-> FALSE, last |-> 0, due |-> [c \in Channel |-> 0], done |-> Channel]
    /\ real = [c \in Channel |-> [ran |-> 0, owed |-> 0, moved |-> 0, wraps |-> FALSE]]

(* A drive ends at an end: the dwell and the time of the move are set. *)
Rest(w, end) == [w EXCEPT !.st = end, !.dwell = After(Dwell), !.moveEnd = Now]
RestReal(r)  == [r EXCEPT !.ran = 0, !.owed = Dwell, !.moved = tick, !.wraps = FALSE]

Due(c) == win[c].st \in MovingStates /\ ~Pending(win[c].relay)

(* Wrong: the drive after a gap runs on the deadline of the one before it. *)
WrongUpdate(c) ==
    LET w == win[c] IN
    CASE Due(c) -> Rest(w, IF w.st = "MOVING_OPEN" THEN "OPEN" ELSE "CLOSED")
      [] w.st \in GapStates /\ ~Pending(w.gap) ->
            [w EXCEPT !.st = IF @ = "GAP_TO_OPEN" THEN "MOVING_OPEN" ELSE "MOVING_CLOSE"]
      [] OTHER -> w

(* ch_update(). *)
Update(c) ==
    LET w == win[c] IN
    CASE Due(c) -> Rest(w, IF w.st = "MOVING_OPEN" THEN "OPEN" ELSE "CLOSED")
      [] w.st \in GapStates /\ ~Pending(w.gap) ->
            [w EXCEPT !.st = IF @ = "GAP_TO_OPEN" THEN "MOVING_OPEN" ELSE "MOVING_CLOSE",
                      !.relay = After(Travel[c])]
      [] OTHER -> w

Pass ==
    /\ ~sweep.on
    /\ win'  = [c \in Channel |-> Update(c)]
    /\ real' = [c \in Channel |-> IF Due(c) THEN RestReal(real[c]) ELSE real[c]]
    /\ late' = 0
    /\ UNCHANGED <<tick, sweep>>

(* ch_start_open() and ch_start_close(), of T6 and of the operator. *)
Command(c, dir, src) ==
    LET w == win[c] IN
    /\ ~sweep.on
    /\ w.st \notin {End[dir], MovingTo[dir], GapTo[dir]}
    /\ ~(src = "T6" /\ w.st \in MovingStates)
    /\ ~(src = "T6" /\ w.st \in EndStates /\ Pending(w.dwell))
    /\ win' = [win EXCEPT ![c] =
          CASE w.st \in MovingStates -> [w EXCEPT !.st = GapTo[dir], !.gap = After(Gap)]
            [] w.st \in GapStates    -> [w EXCEPT !.st = GapTo[dir]]
            [] OTHER                 -> [w EXCEPT !.st = MovingTo[dir], !.relay = After(Travel[c])]]
    /\ real' = [real EXCEPT ![c].ran = 0, ![c].wraps = FALSE]
    /\ UNCHANGED <<tick, late, sweep>>

(* Wrong: the debt is dropped on closed windows only. *)
WrongClearDwell ==
    LET closed == {c \in Channel : win[c].st = "CLOSED"} IN
    /\ ~sweep.on
    /\ win'  = [c \in Channel |-> IF c \in closed THEN [win[c] EXCEPT !.dwell = 0] ELSE win[c]]
    /\ real' = [c \in Channel |-> [real[c] EXCEPT !.owed = 0]]
    /\ UNCHANGED <<tick, late, sweep>>

(* T2_NOTIFY_CLEAR_DWELL. *)
ClearDwell ==
    /\ ~sweep.on
    /\ win'  = [c \in Channel |-> [win[c] EXCEPT !.dwell = 0]]
    /\ real' = [c \in Channel |-> [real[c] EXCEPT !.owed = 0]]
    /\ UNCHANGED <<tick, late, sweep>>

(* calib_close_all(): relay_deadline_ms is left as it was. *)
SweepStart ==
    LET due == [c \in Channel |-> After(Travel[c])] IN
    /\ ~sweep.on
    /\ \E last \in Channel :
          /\ \A c \in Channel : due[c] <= due[last]
          /\ sweep' = [on |-> TRUE, due |-> due, done |-> {}, last |-> due[last]]
    /\ win'  = [c \in Channel |-> [win[c] EXCEPT !.st = "MOVING_CLOSE"]]
    /\ real' = [c \in Channel |->
                  [real[c] EXCEPT !.ran = 0,
                                  !.wraps = \E d \in Channel : due[d] < Now]]
    /\ UNCHANGED <<tick, late>>

(* One turn of its loop: it ends at max_deadline_ms, the largest deadline as *)
(* a number.                                                                 *)
SweepPoll ==
    LET ends == {c \in Channel \ sweep.done : ~Pending(sweep.due[c])} IN
    /\ sweep.on
    /\ win'  = [c \in Channel |-> IF c \in ends THEN Rest(win[c], "CLOSED") ELSE win[c]]
    /\ real' = [c \in Channel |-> IF c \in ends THEN RestReal(real[c]) ELSE real[c]]
    /\ sweep' = [sweep EXCEPT !.done = @ \cup ends, !.on = Pending(sweep.last)]
    /\ late' = 0
    /\ UNCHANGED tick

Tick ==
    /\ tick < Uptime /\ late < Late
    /\ tick' = tick + 1 /\ late' = late + 1
    /\ real' = [c \in Channel |->
                  [real[c] EXCEPT !.ran  = IF win[c].st \in MovingStates THEN @ + 1 ELSE @,
                                  !.owed = IF @ > 0 THEN @ - 1 ELSE @]]
    /\ UNCHANGED <<win, sweep>>

Next == \/ Pass \/ ClearDwell \/ SweepStart \/ SweepPoll \/ Tick
        \/ \E c \in Driven, dir \in Directions, src \in {"T6", "operator"} : Command(c, dir, src)

Spec == Init /\ [][Next]_vars

-----------------------------------------------------------------------------
(* Every deadline fits the clock's word, and T2 is never later than Late. *)
TypeOK ==
    /\ tick \in 0..Uptime /\ late \in 0..Late
    /\ win \in [Channel -> [st : EndStates \cup MovingStates \cup GapStates,
                            relay : 0..Word-1, gap : 0..Word-1, dwell : 0..Word-1,
                            moveEnd : 0..Word-1]]
    /\ sweep.on \in BOOLEAN /\ sweep.last \in 0..Word-1 /\ sweep.done \subseteq Channel
    /\ sweep.due \in [Channel -> 0..Word-1]
    /\ \A c \in Channel : real[c].ran \in Nat /\ real[c].owed \in 0..Dwell

Lands(c) == win[c].st \in MovingStates /\ win'[c].st \in EndStates
Whole(c) == real[c].ran \in Travel[c]..(Travel[c] + Late)

(* However often the clock wraps, a drive that is reported complete had its *)
(* relay on for the travel time and no longer than one look more.  A sweep  *)
(* about the wrap is the exception.                                         *)
DrivesAreWhole == [][\A c \in Channel : Lands(c) => Whole(c) \/ real[c].wraps]_vars

(* A dwell that is still owed is honoured: T6 finds it pending, on whichever *)
(* side of the wrap it was set.                                              *)
DwellHonoured ==
    \A c \in Channel :
        win[c].st \in EndStates /\ real[c].owed > 0 => Pending(win[c].dwell)

(* What the clock tells while it is young: for the first 24.8 days after a  *)
(* boot no dwell is pending but one owed, and until the first wrap a law is  *)
(* told the true time since the last move.                                   *)
EarlyReadsAreRight ==
    \A c \in Channel :
        /\ tick < Half /\ win[c].st \in EndStates /\ Pending(win[c].dwell)
              => real[c].owed > 0
        /\ tick < Word
              => SinceMove(c) = IF real[c].moved = 0 THEN Word - 1
                               ELSE tick - real[c].moved

(* relay_controller.h: the dwell debt is dropped so that T6 need not find   *)
(* its commands refused "until the dwell expires"; the boot's comment:      *)
(* "Climate control can act immediately".                                   *)
DeferralsAreOwed ==
    \A c \in Channel :
        win[c].st \in EndStates /\ Pending(win[c].dwell) => real[c].owed > 0

(* The sweep's comment: "de-energise each channel as its timer expires, exit *)
(* when the last channel is done".                                           *)
SweepWaitsForTheLast == sweep.on \/ sweep.done = Channel
=============================================================================
