---------------------------- MODULE WindowChannel ----------------------------
(***************************************************************************)
(* One window motor as T2 drives it: the channel's record and the          *)
(* operations on it, as functions.                                         *)
(* src/firmware/src/relay_controller/relay_controller.cpp.                 *)
(*                                                                         *)
(* A deadline of the code is a countdown here: "left" is relay_deadline_ms *)
(* minus now, and so on.  A countdown that reaches 0 stays there, so T2    *)
(* may be late by any amount.  The wrap of the 32-bit millisecond clock is *)
(* the subject of the module TickClock.                                    *)
(*                                                                         *)
(* Left out: log rows, the drive epoch, the time of the last move, and the *)
(* learned lead (Leads stands for every value it can have).                *)
(*                                                                         *)
(* An operator Wrong... is its namesake with a plausible slip in it; no    *)
(* definition uses it.                                                     *)
(***************************************************************************)
EXTENDS Integers

CONSTANTS
    Stroke,         \* ticks of drive that take a leaf from one end to the other
    Travels,        \* travel_ms: the drive times the configuration may hold
    Gap,            \* RELAY_GAP_MS
    Dwells,         \* what ch_dwell_ms() may return
    PulseTimes,     \* the widths CMD_PULSE may ask for
    Leads,          \* the overrun leads a target may be cut by
    TakenMod,       \* s_taken counts modulo this
    NvsWrites,      \* the outcomes an NVS write may have
    NoTarget, NoPulse

Directions == {"open", "close"}
Sources    == {"T3", "T6", "operator"}
EndStates  == {"OPEN", "CLOSED"}
States     == {"UNKNOWN", "CLOSED", "MOVING_OPEN", "OPEN", "MOVING_CLOSE",
               "GAP_TO_OPEN", "GAP_TO_CLOSE", "PART_OPEN"}

ASSUME StrokeAssumption  == Stroke \in Nat \ {0}
(* The configured travel, with its margin, is at least the real stroke: the *)
(* premise on which T2 reports an end it has no switch to see.              *)
ASSUME TravelAssumption  == /\ Travels # {}
                            /\ \A t \in Travels : t \in Nat /\ t >= Stroke
ASSUME TimesAssumption   == /\ Gap \in Nat
                            /\ Dwells \subseteq Nat /\ Dwells # {}
                            /\ PulseTimes \subseteq Nat
                            /\ Leads \subseteq Nat /\ Leads # {}
                            /\ TakenMod \in Nat \ {0}
ASSUME NvsAssumption     == NvsWrites \subseteq {"written", "failed"} /\ NvsWrites # {}
ASSUME NoneAssumption    == NoTarget \notin Int /\ NoPulse \notin Int

ChannelRecord ==
    [st : States, relay : Directions \cup {"off"}, left : Nat, gap : Nat, dwell : Nat,
     src : Sources, aim : Int \cup {NoTarget}, pulse : Nat \cup {NoPulse},
     nvs : EndStates \cup {"UNKNOWN"}, taken : Nat]

-----------------------------------------------------------------------------
Opposite == [open |-> "close",       close |-> "open"]
End      == [open |-> "OPEN",        close |-> "CLOSED"]
MovingTo == [open |-> "MOVING_OPEN", close |-> "MOVING_CLOSE"]
GapTo    == [open |-> "GAP_TO_OPEN", close |-> "GAP_TO_CLOSE"]

Moving(c)  == c.st \in {"MOVING_OPEN", "MOVING_CLOSE"}
InGap(c)   == c.st \in {"GAP_TO_OPEN", "GAP_TO_CLOSE"}
Heading(c) == IF c.st \in {"MOVING_OPEN", "GAP_TO_OPEN"} THEN "open" ELSE "close"

(* Wrong: only the ends are written, a drive that starts is not. *)
WrongPersist(c, st, ok) ==
    IF ok = "written" /\ st \in EndStates THEN st ELSE c.nvs

(* persist_ch_state(): every state but an end is stored as UNKNOWN, and the *)
(* result of the write is not looked at.                                    *)
Persist(c, st, ok) ==
    IF ok = "failed" THEN c.nvs ELSE IF st \in EndStates THEN st ELSE "UNKNOWN"

Taken(c) == (c.taken + 1) % TakenMod

(* Wrong: blind to the target that the end of a stroke overrides. *)
WrongTakes(c, dir, src) ==
    src # "T6" /\ c.st \notin {End[dir], MovingTo[dir], GapTo[dir]}

(* Does a command take the window: not the climate law's, and not one that  *)
(* finds the window already where it sends it.                              *)
Takes(c, dir, src) ==
    /\ src # "T6"
    /\ c.st # End[dir]
    /\ ~(c.st \in {MovingTo[dir], GapTo[dir]} /\ c.aim = NoTarget)

(* Switch a relay on and start the travel timer. *)
Energise(c, dir, t) ==
    [c EXCEPT !.relay = dir, !.left = t, !.st = MovingTo[dir]]

(* ch_start_close() and ch_start_open(): what every command shares. *)
Claim(c, dir, src) ==
    [c EXCEPT !.taken = IF Takes(c, dir, src) THEN Taken(c) ELSE @,
              !.aim   = IF src = "T6" /\ c.st = MovingTo[Opposite[dir]]
                        THEN @ ELSE NoTarget,
              !.src   = IF src = "T3" THEN "T3" ELSE @]

(* Wrong: the relay of the old direction stays on through the gap. *)
WrongGap(c, dir, src) ==
    [c EXCEPT !.gap = Gap, !.st = GapTo[dir], !.src = src]

(* Wrong: no gap. *)
WrongReverse(c, dir, src) ==
    [c EXCEPT !.relay = dir, !.left = Stroke, !.st = MovingTo[dir], !.src = src]

Reverse(c, dir, src) ==
    [c EXCEPT !.relay = "off", !.gap = Gap, !.st = GapTo[dir], !.src = src]

(* Wrong: a window left part open has no dwell. *)
WrongDeferred(c, dir, src) ==
    /\ src = "T6"
    /\ \/ c.st = MovingTo[Opposite[dir]]
       \/ c.st = End[Opposite[dir]] /\ c.dwell > 0

(* The climate law's command waits for a stroke, and for the dwell. *)
Deferred(c, dir, src) ==
    /\ src = "T6"
    /\ \/ c.st = MovingTo[Opposite[dir]]
       \/ c.st \in {End[Opposite[dir]], "PART_OPEN"} /\ c.dwell > 0

(* Wrong: a repeated command starts the travel timer again. *)
WrongStart(c, dir, src, t, ok) ==
    LET k == Claim(c, dir, src) IN
    CASE c.st \in {End[dir], GapTo[dir]} \/ Deferred(c, dir, src) -> k
      [] c.st = MovingTo[Opposite[dir]] /\ src # "T6" -> Reverse(k, dir, src)
      [] c.st = GapTo[Opposite[dir]] -> [k EXCEPT !.st = GapTo[dir], !.src = src]
      [] OTHER -> Energise([k EXCEPT !.nvs = Persist(c, "UNKNOWN", ok), !.src = src],
                           dir, t)

Start(c, dir, src, t, ok) ==
    LET k == Claim(c, dir, src) IN
    CASE c.st \in {End[dir], MovingTo[dir], GapTo[dir]} -> k
      [] Deferred(c, dir, src)                          -> k
      [] c.st = MovingTo[Opposite[dir]] /\ src # "T6"   -> Reverse(k, dir, src)
      [] c.st = GapTo[Opposite[dir]] -> [k EXCEPT !.st = GapTo[dir], !.src = src]
      [] OTHER -> Energise([k EXCEPT !.nvs = Persist(c, "UNKNOWN", ok), !.src = src],
                           dir, t)

(* ch_start_target(): an end is an end; a partial aperture needs a trusted  *)
(* reading that is not there already, starts an ordinary drive, and arms    *)
(* the aim only if that drive is under way.                                 *)
StartTarget(c, l, want, src, reading, lead, t, ok) ==
    LET partial == want \in 1..(Stroke - 1)
        dir     == IF want >= Stroke \/ (partial /\ want > l) THEN "open" ELSE "close"
        k       == Start(c, dir, src, t, ok)
        started == k.st \in {MovingTo[dir], GapTo[dir]}
    IN  IF reading = "untaught" \/ (partial /\ (reading = "untrusted" \/ want = l))
        THEN c
        ELSE IF partial /\ started
        THEN [k EXCEPT !.aim = IF dir = "open" THEN want - lead ELSE want + lead]
        ELSE k

(* Wrong: the target is left armed. *)
WrongStopPart(c, d, ok) ==
    [c EXCEPT !.relay = "off", !.st = "PART_OPEN", !.dwell = d,
              !.nvs = Persist(c, "PART_OPEN", ok)]

(* The one way a drive ends short: relay off, PART_OPEN, the dwell armed.   *)
(* The cut of a pulse, the cut at the aim and ch_stop() all end in it.      *)
StopPart(c, d, ok) ==
    [c EXCEPT !.relay = "off", !.st = "PART_OPEN", !.dwell = d, !.aim = NoTarget,
              !.nvs = Persist(c, "PART_OPEN", ok)]

(* The travel timer's end: relay off, the end reported and stored. *)
StopAtEnd(c, d, ok) ==
    LET end == End[Heading(c)] IN
    [c EXCEPT !.relay = "off", !.st = end, !.dwell = d, !.aim = NoTarget,
              !.nvs = Persist(c, end, ok)]

Arrived(c, l) == IF Heading(c) = "open" THEN l >= c.aim ELSE l <= c.aim

(* Wrong: a cut pulse is reported as the end of a stroke. *)
WrongUpdateMoving(c, l, reading, d, ok) ==
    IF c.pulse = 0 \/ c.left = 0 THEN StopAtEnd(c, d, ok) ELSE c

(* ch_update() of a moving channel: the pulse, then the target, then the    *)
(* travel timer.  "reading" is what ch_target_tick() makes of the sensor:   *)
(* fresh, waiting (within the grace) or lost (the target is dropped).       *)
UpdateMoving(c, l, reading, d, ok) ==
    LET aimed == c.aim # NoTarget
        k     == IF aimed /\ reading = "lost" THEN [c EXCEPT !.aim = NoTarget] ELSE c
    IN  CASE c.pulse = 0 -> [StopPart(c, d, ok) EXCEPT !.pulse = NoPulse]
          [] c.pulse # 0 /\ aimed /\ reading = "fresh" /\ Arrived(c, l) -> StopPart(c, d, ok)
          [] OTHER -> IF c.left = 0 THEN StopAtEnd(k, d, ok) ELSE k

(* pulse_reap(): a pulse that something else ended is forgotten. *)
Reap(c) == IF Moving(c) THEN c ELSE [c EXCEPT !.pulse = NoPulse]

Update(c, l, reading, t, d, ok) ==
    Reap(CASE Moving(c)                -> UpdateMoving(c, l, reading, d, ok)
           [] InGap(c) /\ c.gap = 0    -> Energise(c, Heading(c), t)
           [] OTHER                    -> c)

(* ch_stop(): only a drive of the same source, moving or in its gap. *)
Stop(c, src, d, ok) ==
    IF (Moving(c) \/ InGap(c)) /\ c.src = src
    THEN [StopPart(c, d, ok) EXCEPT !.taken = Taken(c), !.pulse = NoPulse]
    ELSE c

(* CMD_PULSE: only from rest, and armed only if the drive started. *)
Pulse(c, dir, w, t, ok) ==
    LET k == Start(c, dir, "operator", t, ok) IN
    IF c.st \in EndStates \cup {"PART_OPEN"}
    THEN IF k.st = MovingTo[dir] THEN [k EXCEPT !.pulse = w] ELSE k
    ELSE c

(* calib_close_all(), one channel: no gap, whatever the relays were doing.  *)
Sweep(c, t, ok) ==
    [c EXCEPT !.taken = Taken(c), !.aim = NoTarget, !.relay = "close", !.left = t,
              !.st = "MOVING_CLOSE", !.nvs = Persist(c, "UNKNOWN", ok)]

Swept(c, d, ok) ==
    IF c.st = "MOVING_CLOSE" /\ c.left = 0
    THEN [c EXCEPT !.relay = "off", !.st = "CLOSED", !.dwell = d,
                   !.nvs = Persist(c, "CLOSED", ok)]
    ELSE c

(* handle_alarm_onset(), one channel. *)
Suspend(c, ok) ==
    [c EXCEPT !.relay = "off", !.taken = Taken(c), !.aim = NoTarget,
              !.st = "UNKNOWN", !.nvs = Persist(c, "UNKNOWN", ok)]

(* Power comes back: the relays are off and RAM is as initialised. *)
PoweredOn(nvs, taken) ==
    [st |-> "UNKNOWN", relay |-> "off", left |-> 0, gap |-> 0, dwell |-> 0,
     src |-> "T6", aim |-> NoTarget, pulse |-> NoPulse, nvs |-> nvs, taken |-> taken]

-----------------------------------------------------------------------------
(* Wrong: a deadline that has passed goes on running. *)
WrongCountDown(n) == n - 1

(* Time passes: the countdowns run, and a relay that is on moves its leaf. *)
CountDown(n) == IF n > 0 THEN n - 1 ELSE n

MoveLeaf(l, relay) ==
    CASE relay = "open"  /\ l < Stroke -> l + 1
      [] relay = "close" /\ l > 0      -> l - 1
      [] OTHER                         -> l

Elapse(c) ==
    [c EXCEPT !.left = CountDown(@), !.gap = CountDown(@), !.dwell = CountDown(@),
              !.pulse = IF @ = NoPulse THEN @ ELSE CountDown(@)]
=============================================================================
