---------------------------- MODULE ChannelProofs ----------------------------
(* What TLAPS proves of the operations on one window: each keeps the        *)
(* channel's part of T2's inductive invariant.                              *)
EXTENDS WindowChannel, TLAPS

NvsReliable == "failed" \notin NvsWrites

(* One channel's part of the inductive invariant.  The two lines on "left"  *)
(* are the strengthening: a drive under way has more travel time left than  *)
(* the leaf has way to go, which is what makes the end it reports real.     *)
ChannelInv(c, l) ==
    /\ c \in ChannelRecord
    /\ l \in 0..Stroke
    /\ c.relay = IF Moving(c) THEN Heading(c) ELSE "off"
    /\ c.aim # NoTarget => Moving(c) \/ InGap(c)
    /\ NvsReliable =>
          /\ c.st = "CLOSED" => l = 0
          /\ c.st = "OPEN"   => l = Stroke
          /\ c.st = "MOVING_CLOSE" => l <= c.left
          /\ c.st = "MOVING_OPEN"  => Stroke - l <= c.left
          /\ c.nvs = "CLOSED" => l = 0 /\ ~Moving(c) /\ ~InGap(c)

(* What a command or an update may do to a channel: it does not lose the    *)
(* position, switches a running motor off or leaves it alone, and claims or *)
(* forgets an end only as a motor stops or starts.                          *)
AtEnd(c) == c.st \in EndStates

Steady(c, k) ==
    /\ c.st # "UNKNOWN" => k.st # "UNKNOWN"
    /\ c.relay # "off"  => k.relay \in {"off", c.relay}
    /\ c.relay = "off" /\ k.relay = "off" /\ (AtEnd(c) \/ AtEnd(k)) => k.st = c.st

(* A channel that a sweep has in hand. *)
InSweep(c) == c.st \in {"MOVING_CLOSE", "CLOSED"} /\ c.aim = NoTarget

-----------------------------------------------------------------------------
(* The operators on one channel keep ChannelInv. *)

(* The names of the states, by direction. *)
LEMMA Names ==
    /\ \A dir \in Directions : dir = "open" \/ dir = "close"
    /\ Opposite["open"] = "close"       /\ Opposite["close"] = "open"
    /\ End["open"] = "OPEN"             /\ End["close"] = "CLOSED"
    /\ MovingTo["open"] = "MOVING_OPEN" /\ MovingTo["close"] = "MOVING_CLOSE"
    /\ GapTo["open"] = "GAP_TO_OPEN"    /\ GapTo["close"] = "GAP_TO_CLOSE"
  BY DEF Directions, Opposite, End, MovingTo, GapTo

(* persist_ch_state() stores CLOSED only for a closed window. *)
LEMMA PersistStores ==
    ASSUME NEW c \in ChannelRecord, NEW st \in States, NEW ok \in NvsWrites
    PROVE  /\ Persist(c, st, ok) \in EndStates \cup {"UNKNOWN"}
           /\ NvsReliable /\ Persist(c, st, ok) = "CLOSED" => st = "CLOSED"
  BY NvsAssumption DEF Persist, ChannelRecord, NvsReliable, EndStates

(* Switching a relay on for a whole travel time, once the NVS is not CLOSED.*)
LEMMA EnergiseKeeps ==
    ASSUME NEW c, NEW l, ChannelInv(c, l), NEW dir \in Directions, NEW t \in Travels,
           NvsReliable => c.nvs # "CLOSED"
    PROVE  /\ ChannelInv(Energise(c, dir, t), l)
           /\ Energise(c, dir, t).st = MovingTo[dir]
  <1> DEFINE k == Energise(c, dir, t)
  <1>1. /\ c \in ChannelRecord /\ l \in 0..Stroke
        /\ t \in Nat /\ t >= Stroke /\ Stroke \in Nat
    BY StrokeAssumption, TravelAssumption DEF ChannelInv
  <1>2. k \in ChannelRecord
    <2>1. MovingTo[dir] \in States
      BY Names DEF States
    <2> QED  BY <1>1, <2>1 DEF Energise, ChannelRecord
  <1>3. /\ k.relay = dir /\ k.left = t /\ k.st = MovingTo[dir] /\ k.nvs = c.nvs
    BY <1>1 DEF Energise, ChannelRecord
  <1> HIDE DEF k
  <1>4. ChannelInv(k, l)
    <2>1. CASE dir = "open"
      BY <1>1, <1>2, <1>3, <2>1, Names DEF ChannelInv, Moving, Heading, InGap
    <2>2. CASE dir = "close"
      BY <1>1, <1>2, <1>3, <2>2, Names DEF ChannelInv, Moving, Heading, InGap
    <2> QED  BY <2>1, <2>2, Names
  <1> QED  BY <1>3, <1>4 DEF k

(* Of a channel record, a relay is on exactly in the moving states. *)
LEMMA Running ==
    ASSUME NEW c, NEW l, ChannelInv(c, l)
    PROVE  Moving(c) <=> c.relay # "off"
  BY DEF ChannelInv, Moving, Heading

(* What is energised is on. *)
LEMMA EnergiseDrives ==
    ASSUME NEW c \in ChannelRecord, NEW dir \in Directions, NEW t
    PROVE  Energise(c, dir, t).relay # "off"
  BY Names DEF Energise, ChannelRecord

(* What a command claims before it acts moves nothing. *)
LEMMA ClaimKeeps ==
    ASSUME NEW c, NEW l, ChannelInv(c, l), NEW dir \in Directions, NEW src \in Sources
    PROVE  /\ ChannelInv(Claim(c, dir, src), l)
           /\ Claim(c, dir, src).st = c.st
           /\ Claim(c, dir, src).relay = c.relay
           /\ Claim(c, dir, src).nvs = c.nvs
           /\ c.st # MovingTo[Opposite[dir]] \/ src # "T6"
                => Claim(c, dir, src).aim = NoTarget
  <1> DEFINE k == Claim(c, dir, src)
  <1>1. c \in ChannelRecord
    BY DEF ChannelInv
  <1>2. Taken(c) \in Nat /\ "T3" \in Sources
    BY <1>1, TimesAssumption DEF Taken, ChannelRecord, Sources
  <1>3. k \in ChannelRecord
    BY <1>1, <1>2 DEF Claim, ChannelRecord
  <1>4. /\ k.st = c.st /\ k.relay = c.relay /\ k.left = c.left /\ k.nvs = c.nvs
        /\ k.aim = c.aim \/ k.aim = NoTarget
        /\ c.st # MovingTo[Opposite[dir]] \/ src # "T6" => k.aim = NoTarget
    BY <1>1 DEF Claim, ChannelRecord
  <1> HIDE DEF k
  <1>5. ChannelInv(k, l)
    BY <1>3, <1>4 DEF ChannelInv, Moving, InGap, Heading
  <1> QED  BY <1>4, <1>5 DEF k

(* A reversal lets go of the motor for the gap. *)
LEMMA ReverseKeeps ==
    ASSUME NEW c, NEW l, ChannelInv(c, l), NEW dir \in Directions, NEW src \in Sources,
           c.st = MovingTo[Opposite[dir]]
    PROVE  ChannelInv(Reverse(c, dir, src), l) /\ Steady(c, Reverse(c, dir, src))
  <1> DEFINE k == Reverse(c, dir, src)
  <1>1. /\ c \in ChannelRecord /\ Gap \in Nat /\ GapTo[dir] \in States
        /\ Moving(c) /\ GapTo[dir] \in {"GAP_TO_OPEN", "GAP_TO_CLOSE"}
    BY Names, TimesAssumption DEF ChannelInv, Moving, States
  <1>2. k \in ChannelRecord
    BY <1>1 DEF Reverse, ChannelRecord
  <1>3. k.relay = "off" /\ k.st = GapTo[dir] /\ k.nvs = c.nvs
    BY <1>1 DEF Reverse, ChannelRecord
  <1> HIDE DEF k
  <1>4. ChannelInv(k, l) /\ Steady(c, k)
    BY <1>1, <1>2, <1>3 DEF ChannelInv, Moving, InGap, Heading, Steady
  <1> QED  BY <1>4 DEF k

(* ch_start_open() and ch_start_close(), whatever the source. *)
LEMMA StartKeeps ==
    ASSUME NEW c, NEW l, ChannelInv(c, l), NEW dir \in Directions, NEW src \in Sources,
           NEW t \in Travels, NEW ok \in NvsWrites
    PROVE  /\ ChannelInv(Start(c, dir, src, t, ok), l)
           /\ Steady(c, Start(c, dir, src, t, ok))
  <1> DEFINE k == Claim(c, dir, src)
             p == [k EXCEPT !.st = GapTo[dir], !.src = src]
             m == [k EXCEPT !.nvs = Persist(c, "UNKNOWN", ok), !.src = src]
  <1>0. ChannelInv(k, l) /\ k.st = c.st /\ k.relay = c.relay /\ k.nvs = c.nvs
    BY ClaimKeeps
  <1>1. /\ ChannelInv(k, l) /\ k.st = c.st /\ k.relay = c.relay /\ k.nvs = c.nvs
        /\ k \in ChannelRecord /\ c \in ChannelRecord
        /\ dir = "open" \/ dir = "close"
    BY <1>0, Names DEF ChannelInv
  <1>2. CASE c.st \in {End[dir], MovingTo[dir], GapTo[dir]} \/ Deferred(c, dir, src)
    <2>1. /\ ~(c.st = MovingTo[Opposite[dir]] /\ src # "T6")
          /\ c.st # GapTo[Opposite[dir]]
      BY <1>1, <1>2, Names DEF Deferred
    <2>2. Start(c, dir, src, t, ok) = k
      BY <1>2, <2>1 DEF Start
    <2> QED  BY <1>0, <2>2 DEF Steady
  <1>3. CASE c.st = MovingTo[Opposite[dir]] /\ src # "T6"
    <2>1. ChannelInv(Reverse(k, dir, src), l) /\ Steady(k, Reverse(k, dir, src))
      BY <1>1, <1>3, ReverseKeeps
    <2>2. /\ c.st \notin {End[dir], MovingTo[dir], GapTo[dir]}
          /\ ~Deferred(c, dir, src)
      BY <1>3, Names DEF Deferred
    <2>3. Start(c, dir, src, t, ok) = Reverse(k, dir, src)
      BY <1>3, <2>2, Names DEF Start
    <2> QED  BY <1>1, <2>1, <2>3 DEF Steady, AtEnd
  <1>4. CASE c.st = GapTo[Opposite[dir]]
    <2>1. p \in ChannelRecord /\ p.st = GapTo[dir] /\ p.relay = k.relay /\ p.nvs = k.nvs
      <3>1. GapTo[dir] \in States
        BY Names DEF States
      <3> QED  BY <1>1, <3>1 DEF ChannelRecord
    <2>2. InGap(k) /\ ~Moving(k) /\ GapTo[dir] \in {"GAP_TO_OPEN", "GAP_TO_CLOSE"}
      BY <1>1, <1>4, Names DEF InGap, Moving
    <2>3. ChannelInv(p, l)
      BY <1>1, <2>1, <2>2 DEF ChannelInv, Moving, InGap
    <2>4. /\ c.st \notin {End[dir], MovingTo[dir], GapTo[dir]}
          /\ c.st # MovingTo[Opposite[dir]] /\ ~Deferred(c, dir, src)
      BY <1>4, Names DEF Deferred
    <2>5. Start(c, dir, src, t, ok) = p
      BY <1>4, <2>4 DEF Start
    <2>6. Steady(c, p)
      BY <1>1, <2>1, <2>2 DEF Steady, AtEnd, InGap, EndStates
    <2> QED  BY <2>3, <2>5, <2>6
  <1>5. CASE /\ c.st \notin {End[dir], MovingTo[dir], GapTo[dir]}
             /\ ~Deferred(c, dir, src)
             /\ ~(c.st = MovingTo[Opposite[dir]] /\ src # "T6")
             /\ c.st # GapTo[Opposite[dir]]
    <2>1. /\ Persist(c, "UNKNOWN", ok) \in EndStates \cup {"UNKNOWN"}
          /\ NvsReliable => Persist(c, "UNKNOWN", ok) # "CLOSED"
      BY <1>1, PersistStores DEF States
    <2>2. /\ m \in ChannelRecord /\ m.st = k.st /\ m.relay = k.relay
          /\ m.left = k.left /\ m.aim = k.aim /\ m.nvs = Persist(c, "UNKNOWN", ok)
      BY <1>1, <2>1 DEF ChannelRecord
    <2>3. ChannelInv(m, l)
      BY <1>1, <2>1, <2>2 DEF ChannelInv, Moving, InGap, Heading
    <2>4. ChannelInv(Energise(m, dir, t), l)
      BY <2>1, <2>2, <2>3, EnergiseKeeps
    <2>5. Start(c, dir, src, t, ok) = Energise(m, dir, t)
      BY <1>5 DEF Start
    <2>6. Steady(c, Energise(m, dir, t))
      <3>1. ~Moving(c)
        BY <1>1, <1>5, Names DEF Moving, Deferred
      <3>2. c.relay = "off"
        BY <3>1 DEF ChannelInv
      <3>3. Energise(m, dir, t).st = MovingTo[dir]
        BY <2>1, <2>2, <2>3, EnergiseKeeps
      <3>4. Energise(m, dir, t).relay # "off"
        BY <2>2, EnergiseDrives
      <3> HIDE DEF m
      <3> QED  BY <3>2, <3>3, <3>4, Names DEF Steady
    <2> QED  BY <2>4, <2>5, <2>6
  <1> QED  BY <1>2, <1>3, <1>4, <1>5

(* CMD_TARGET: it starts what an ordinary command starts, and arms an aim   *)
(* only over a drive that is under way.                                     *)
LEMMA StartTargetKeeps ==
    ASSUME NEW c, NEW l, ChannelInv(c, l), NEW want \in Nat, NEW src \in Sources,
           NEW reading, NEW lead \in Leads, NEW t \in Travels, NEW ok \in NvsWrites
    PROVE  /\ ChannelInv(StartTarget(c, l, want, src, reading, lead, t, ok), l)
           /\ Steady(c, StartTarget(c, l, want, src, reading, lead, t, ok))
  <1> DEFINE partial == want \in 1..(Stroke - 1)
             dir  == IF want >= Stroke \/ (partial /\ want > l) THEN "open" ELSE "close"
             k    == Start(c, dir, src, t, ok)
             aim  == IF dir = "open" THEN want - lead ELSE want + lead
             m    == [k EXCEPT !.aim = aim]
  <1>1. dir \in Directions
    BY DEF Directions
  <1>2. ChannelInv(k, l) /\ Steady(c, k)
    BY <1>1, StartKeeps
  <1>3. CASE k.st \in {MovingTo[dir], GapTo[dir]}
    <2>1. Moving(k) \/ InGap(k)
      BY <1>1, <1>3, Names DEF Moving, InGap
    <2>2. aim \in Int /\ k \in ChannelRecord
      BY <1>2, TimesAssumption DEF ChannelInv
    <2> HIDE DEF k, aim
    <2>3. /\ m \in ChannelRecord
          /\ m.st = k.st /\ m.relay = k.relay /\ m.left = k.left /\ m.nvs = k.nvs
      BY <2>2 DEF ChannelRecord
    <2>4. ChannelInv(m, l) /\ Steady(c, m)
      BY <1>2, <2>1, <2>3 DEF ChannelInv, Moving, InGap, Heading, Steady, AtEnd
    <2> QED  BY <1>2, <2>4 DEF StartTarget, Steady, k, aim
  <1>4. CASE k.st \notin {MovingTo[dir], GapTo[dir]}
    BY <1>2, <1>4 DEF StartTarget, Steady
  <1> QED  BY <1>3, <1>4

(* A drive that ends short claims no end. *)
LEMMA StopPartKeeps ==
    ASSUME NEW c, NEW l, ChannelInv(c, l), NEW d \in Dwells, NEW ok \in NvsWrites,
           NvsReliable => c.nvs # "CLOSED"
    PROVE  /\ ChannelInv(StopPart(c, d, ok), l)
           /\ StopPart(c, d, ok).st = "PART_OPEN" /\ StopPart(c, d, ok).relay = "off"
  <1> DEFINE k == StopPart(c, d, ok)
             n == Persist(c, "PART_OPEN", ok)
  <1>1. c \in ChannelRecord /\ d \in Nat
    BY TimesAssumption DEF ChannelInv
  <1>2. n \in EndStates \cup {"UNKNOWN"} /\ (NvsReliable => n # "CLOSED")
    BY <1>1, PersistStores DEF States
  <1> HIDE DEF n
  <1>3. /\ k \in ChannelRecord
        /\ k.relay = "off" /\ k.st = "PART_OPEN" /\ k.aim = NoTarget /\ k.nvs = n
    BY <1>1, <1>2 DEF StopPart, ChannelRecord, States, n
  <1> HIDE DEF k
  <1>4. ChannelInv(k, l)
    BY <1>2, <1>3 DEF ChannelInv, Moving, InGap
  <1> QED  BY <1>3, <1>4 DEF k

(* A drive whose travel time is up has carried the leaf to its end. *)
LEMMA StopAtEndKeeps ==
    ASSUME NEW c, NEW l, ChannelInv(c, l), NEW d \in Dwells, NEW ok \in NvsWrites,
           Moving(c), c.left = 0
    PROVE  /\ ChannelInv(StopAtEnd(c, d, ok), l)
           /\ StopAtEnd(c, d, ok).st \in EndStates /\ StopAtEnd(c, d, ok).relay = "off"
  <1> DEFINE k == StopAtEnd(c, d, ok)
             e == End[Heading(c)]
             n == Persist(c, e, ok)
  <1>1. c \in ChannelRecord /\ d \in Nat /\ l \in 0..Stroke /\ Stroke \in Nat
    BY TimesAssumption, StrokeAssumption DEF ChannelInv
  <1>2. /\ e \in EndStates /\ e \in States
        /\ NvsReliable => (e = "CLOSED" => l = 0) /\ (e = "OPEN" => l = Stroke)
    BY <1>1, Names DEF ChannelInv, Moving, Heading, EndStates, States
  <1> HIDE DEF e
  <1>3. n \in EndStates \cup {"UNKNOWN"} /\ (NvsReliable /\ n = "CLOSED" => e = "CLOSED")
    BY <1>1, <1>2, PersistStores
  <1> HIDE DEF n
  <1>4. /\ k \in ChannelRecord
        /\ k.relay = "off" /\ k.st = e /\ k.aim = NoTarget /\ k.nvs = n
    BY <1>1, <1>2, <1>3 DEF StopAtEnd, ChannelRecord, n, e
  <1> HIDE DEF k
  <1>5. ChannelInv(k, l)
    BY <1>1, <1>2, <1>3, <1>4 DEF ChannelInv, Moving, InGap, EndStates
  <1> QED  BY <1>2, <1>4, <1>5 DEF k

(* Changing only what ChannelInv does not look at. *)
LEMMA Bookkeeping ==
    ASSUME NEW c, NEW l, ChannelInv(c, l), NEW k \in ChannelRecord,
           k.st = c.st, k.relay = c.relay, k.left = c.left, k.nvs = c.nvs,
           k.aim = c.aim \/ k.aim = NoTarget
    PROVE  ChannelInv(k, l)
  BY DEF ChannelInv, Moving, InGap, Heading

(* ch_update(), whatever the sensor says. *)
LEMMA UpdateKeeps ==
    ASSUME NEW c, NEW l, ChannelInv(c, l), NEW reading, NEW t \in Travels,
           NEW d \in Dwells, NEW ok \in NvsWrites
    PROVE  /\ ChannelInv(Update(c, l, reading, t, d, ok), l)
           /\ Steady(c, Update(c, l, reading, t, d, ok))
           /\ c.st = "UNKNOWN" => Update(c, l, reading, t, d, ok).st = "UNKNOWN"
  <1>1. c \in ChannelRecord
    BY DEF ChannelInv
  <1>2. ASSUME NEW k, ChannelInv(k, l)
        PROVE  ChannelInv(Reap(k), l) /\ Reap(k).st = k.st /\ Reap(k).relay = k.relay
    <2> DEFINE r == [k EXCEPT !.pulse = NoPulse]
    <2>1. /\ r \in ChannelRecord /\ r.st = k.st /\ r.relay = k.relay
          /\ r.left = k.left /\ r.nvs = k.nvs /\ r.aim = k.aim
      BY <1>2 DEF ChannelInv, ChannelRecord
    <2>2. ChannelInv(r, l)
      BY <1>2, <2>1, Bookkeeping
    <2> QED  BY <1>2, <2>1, <2>2 DEF Reap
  <1>3. CASE Moving(c)
    <2> DEFINE k == IF c.aim # NoTarget /\ reading = "lost"
                    THEN [c EXCEPT !.aim = NoTarget] ELSE c
               s == StopPart(c, d, ok)
               r == [s EXCEPT !.pulse = NoPulse]
    <2>1. NvsReliable => c.nvs # "CLOSED"
      BY <1>3 DEF ChannelInv
    <2>2. ChannelInv(s, l) /\ s.st = "PART_OPEN" /\ s.relay = "off"
      BY <2>1, StopPartKeeps
    <2>3. ChannelInv(r, l) /\ r.st = "PART_OPEN" /\ r.relay = "off"
      <3>1. /\ r \in ChannelRecord /\ r.st = s.st /\ r.relay = s.relay
            /\ r.left = s.left /\ r.nvs = s.nvs /\ r.aim = s.aim
        <4> HIDE DEF s
        <4> QED  BY <2>2 DEF ChannelInv, ChannelRecord
      <3> QED  BY <2>2, <3>1, Bookkeeping
    <2>4. ChannelInv(k, l) /\ k.st = c.st /\ k.left = c.left /\ k.relay = c.relay
      <3>1. /\ k \in ChannelRecord /\ k.st = c.st /\ k.relay = c.relay
            /\ k.left = c.left /\ k.nvs = c.nvs /\ (k.aim = c.aim \/ k.aim = NoTarget)
        BY <1>1 DEF ChannelRecord
      <3> HIDE DEF k
      <3> QED  BY <3>1, Bookkeeping
    <2>5. c.left = 0 => /\ ChannelInv(StopAtEnd(k, d, ok), l)
                        /\ StopAtEnd(k, d, ok).st # "UNKNOWN"
                        /\ StopAtEnd(k, d, ok).relay = "off"
      <3> HIDE DEF k
      <3> QED  BY <1>3, <2>4, StopAtEndKeeps DEF Moving, EndStates
    <2>6. /\ ChannelInv(UpdateMoving(c, l, reading, d, ok), l)
          /\ UpdateMoving(c, l, reading, d, ok).st # "UNKNOWN"
          /\ UpdateMoving(c, l, reading, d, ok).relay \in {"off", c.relay}
      <3> HIDE DEF s
      <3>1. CASE c.pulse = 0
        BY <2>3, <3>1 DEF UpdateMoving, s
      <3>2. CASE c.pulse # 0
        BY <1>3, <2>2, <2>4, <2>5, <3>2 DEF UpdateMoving, Moving, s
      <3> QED  BY <3>1, <3>2
    <2> QED  BY <1>2, <1>3, <2>6, Running DEF Update, InGap, Moving, Steady
  <1>4. CASE InGap(c) /\ c.gap = 0
    <2>1. (NvsReliable => c.nvs # "CLOSED") /\ Heading(c) \in Directions
      BY <1>4 DEF ChannelInv, Heading, Directions
    <2>2. /\ ChannelInv(Energise(c, Heading(c), t), l)
          /\ Energise(c, Heading(c), t).st # "UNKNOWN"
      BY <2>1, EnergiseKeeps, Names
    <2>3. c.relay = "off" /\ c.st # "UNKNOWN"
      BY <1>4 DEF ChannelInv, Moving, InGap
    <2>4. Energise(c, Heading(c), t).relay # "off"
      BY <1>1, <2>1, EnergiseDrives
    <2>5. /\ Update(c, l, reading, t, d, ok) = Reap(Energise(c, Heading(c), t))
          /\ c.st # "UNKNOWN"
      BY <1>4, <2>3 DEF Update, Moving, InGap
    <2> QED  BY <1>2, <2>2, <2>3, <2>4, <2>5 DEF Steady
  <1>5. CASE ~Moving(c) /\ ~(InGap(c) /\ c.gap = 0)
    BY <1>2, <1>5 DEF Update, Steady
  <1> QED  BY <1>3, <1>4, <1>5

(* CMD_STOP. *)
LEMMA StopKeeps ==
    ASSUME NEW c, NEW l, ChannelInv(c, l), NEW src, NEW d \in Dwells, NEW ok \in NvsWrites
    PROVE  ChannelInv(Stop(c, src, d, ok), l) /\ Steady(c, Stop(c, src, d, ok))
  <1> DEFINE s == StopPart(c, d, ok)
             k == [s EXCEPT !.taken = Taken(c), !.pulse = NoPulse]
  <1>1. CASE (Moving(c) \/ InGap(c)) /\ c.src = src
    <2>1. NvsReliable => c.nvs # "CLOSED"
      BY <1>1 DEF ChannelInv
    <2>2. /\ ChannelInv(s, l) /\ s \in ChannelRecord
          /\ s.st = "PART_OPEN" /\ s.relay = "off"
      BY <2>1, StopPartKeeps DEF ChannelInv
    <2>3. Taken(c) \in Nat
      BY TimesAssumption DEF Taken, ChannelInv, ChannelRecord
    <2> HIDE DEF s
    <2>4. /\ k \in ChannelRecord /\ k.st = s.st /\ k.relay = s.relay
          /\ k.left = s.left /\ k.nvs = s.nvs /\ k.aim = s.aim
      BY <2>2, <2>3 DEF ChannelRecord
    <2>5. ChannelInv(k, l)
      BY <2>2, <2>4, Bookkeeping
    <2> QED  BY <1>1, <2>2, <2>4, <2>5 DEF Stop, Steady, AtEnd, Moving, InGap, EndStates, s
  <1>2. CASE ~((Moving(c) \/ InGap(c)) /\ c.src = src)
    BY <1>2 DEF Stop, Steady
  <1> QED  BY <1>1, <1>2

(* CMD_PULSE. *)
LEMMA PulseKeeps ==
    ASSUME NEW c, NEW l, ChannelInv(c, l), NEW dir \in Directions, NEW w \in PulseTimes,
           NEW t \in Travels, NEW ok \in NvsWrites
    PROVE  ChannelInv(Pulse(c, dir, w, t, ok), l) /\ Steady(c, Pulse(c, dir, w, t, ok))
  <1> DEFINE k == Start(c, dir, "operator", t, ok)
             m == [k EXCEPT !.pulse = w]
  <1>1. ChannelInv(k, l) /\ k \in ChannelRecord /\ Steady(c, k)
    BY StartKeeps DEF Sources, ChannelInv
  <1>2. w \in Nat
    BY TimesAssumption
  <1> HIDE DEF k
  <1>3. /\ m \in ChannelRecord /\ m.st = k.st /\ m.relay = k.relay
        /\ m.left = k.left /\ m.nvs = k.nvs /\ m.aim = k.aim
    BY <1>1, <1>2 DEF ChannelRecord
  <1>4. ChannelInv(m, l)
    BY <1>1, <1>3, Bookkeeping
  <1> QED  BY <1>1, <1>3, <1>4 DEF Pulse, Steady, AtEnd, k

(* The sweep: its start, and what its end reports. *)
LEMMA SweepKeeps ==
    ASSUME NEW c, NEW l, ChannelInv(c, l), NEW t \in Travels, NEW ok \in NvsWrites
    PROVE  ChannelInv(Sweep(c, t, ok), l) /\ InSweep(Sweep(c, t, ok))
  <1> DEFINE k == Sweep(c, t, ok)
             n == Persist(c, "UNKNOWN", ok)
  <1>1. /\ c \in ChannelRecord /\ Taken(c) \in Nat /\ l \in 0..Stroke
        /\ t \in Nat /\ t >= Stroke /\ Stroke \in Nat
    BY TimesAssumption, TravelAssumption, StrokeAssumption
       DEF ChannelInv, ChannelRecord, Taken
  <1>2. n \in EndStates \cup {"UNKNOWN"} /\ (NvsReliable => n # "CLOSED")
    BY <1>1, PersistStores DEF States
  <1> HIDE DEF n
  <1>3. /\ k \in ChannelRecord /\ k.st = "MOVING_CLOSE" /\ k.relay = "close"
        /\ k.left = t /\ k.aim = NoTarget /\ k.nvs = n
    BY <1>1, <1>2 DEF Sweep, ChannelRecord, States, Directions, n
  <1> HIDE DEF k
  <1>4. ChannelInv(k, l) /\ InSweep(k)
    BY <1>1, <1>2, <1>3 DEF ChannelInv, Moving, InGap, Heading, InSweep
  <1> QED  BY <1>4 DEF k

(* One turn of the sweep's loop: the window is still closing, or closed. *)
LEMMA SweptKeeps ==
    ASSUME NEW c, NEW l, ChannelInv(c, l), NEW d \in Dwells, NEW ok \in NvsWrites,
           InSweep(c)
    PROVE  ChannelInv(Swept(c, d, ok), l) /\ InSweep(Swept(c, d, ok))
  <1> DEFINE n == Persist(c, "CLOSED", ok)
             k == [c EXCEPT !.relay = "off", !.st = "CLOSED", !.dwell = d, !.nvs = n]
  <1>1. CASE c.st = "MOVING_CLOSE" /\ c.left = 0
    <2>1. /\ c \in ChannelRecord /\ d \in Nat /\ l \in 0..Stroke /\ Stroke \in Nat
          /\ NvsReliable => l = 0
      BY <1>1, TimesAssumption, StrokeAssumption DEF ChannelInv
    <2>2. n \in EndStates \cup {"UNKNOWN"}
      BY <2>1, PersistStores DEF States
    <2> HIDE DEF n
    <2>3. /\ k \in ChannelRecord /\ k.st = "CLOSED" /\ k.relay = "off"
          /\ k.left = c.left /\ k.nvs = n /\ k.aim = c.aim
      BY <2>1, <2>2 DEF ChannelRecord, States
    <2> HIDE DEF k
    <2>4. ChannelInv(k, l) /\ InSweep(k)
      BY <2>1, <2>2, <2>3 DEF ChannelInv, Moving, InGap, InSweep
    <2> QED  BY <1>1, <2>4 DEF Swept, k, n
  <1>2. CASE ~(c.st = "MOVING_CLOSE" /\ c.left = 0)
    BY <1>2 DEF Swept
  <1> QED  BY <1>1, <1>2

(* The alarm's onset. *)
LEMMA SuspendKeeps ==
    ASSUME NEW c, NEW l, ChannelInv(c, l), NEW ok \in NvsWrites
    PROVE  ChannelInv(Suspend(c, ok), l) /\ Suspend(c, ok).st = "UNKNOWN"
  <1> DEFINE k == Suspend(c, ok)
             n == Persist(c, "UNKNOWN", ok)
  <1>1. c \in ChannelRecord /\ Taken(c) \in Nat
    BY TimesAssumption DEF ChannelInv, ChannelRecord, Taken
  <1>2. n \in EndStates \cup {"UNKNOWN"} /\ (NvsReliable => n # "CLOSED")
    BY <1>1, PersistStores DEF States
  <1> HIDE DEF n
  <1>3. /\ k \in ChannelRecord /\ k.st = "UNKNOWN" /\ k.relay = "off"
        /\ k.aim = NoTarget /\ k.nvs = n
    BY <1>1, <1>2 DEF Suspend, ChannelRecord, States, n
  <1> HIDE DEF k
  <1>4. ChannelInv(k, l)
    BY <1>1, <1>2, <1>3 DEF ChannelInv, Moving, InGap
  <1> QED  BY <1>3, <1>4 DEF k

(* Power comes back over what the NVS held. *)
LEMMA PoweredOnKeeps ==
    ASSUME NEW c, NEW l, ChannelInv(c, l)
    PROVE  ChannelInv(PoweredOn(c.nvs, 0), l) /\ PoweredOn(c.nvs, 0).st = "UNKNOWN"
  BY DEF ChannelInv, ChannelRecord, PoweredOn, States, Sources, EndStates, Moving, InGap

(* Time passes: a leaf never has further to go than its motor has time. *)
LEMMA ElapseKeeps ==
    ASSUME NEW c, NEW l, ChannelInv(c, l)
    PROVE  /\ ChannelInv(Elapse(c), MoveLeaf(l, c.relay))
           /\ Elapse(c).st = c.st /\ Elapse(c).aim = c.aim /\ Elapse(c).relay = c.relay
  <1> DEFINE k == Elapse(c)
             m == MoveLeaf(l, c.relay)
  <1>1. c \in ChannelRecord /\ l \in 0..Stroke /\ Stroke \in Nat
    BY StrokeAssumption DEF ChannelInv
  <1>2. \A n \in Nat : CountDown(n) \in Nat /\ (n > 0 => CountDown(n) = n - 1)
    BY DEF CountDown
  <1>3. c.pulse # NoPulse => c.pulse \in Nat
    BY <1>1 DEF ChannelRecord
  <1>4. k \in ChannelRecord
    BY <1>1, <1>2, <1>3 DEF Elapse, ChannelRecord
  <1>5. /\ k.st = c.st /\ k.relay = c.relay /\ k.aim = c.aim /\ k.nvs = c.nvs
        /\ k.left = CountDown(c.left) /\ c.left \in Nat
    BY <1>1 DEF Elapse, ChannelRecord
  <1> HIDE DEF k
  <1>6. m \in 0..Stroke
    BY <1>1 DEF MoveLeaf
  <1>7. ChannelInv(k, m)
    <2>1. CASE c.relay = "off"
      <3>1. m = l /\ ~Moving(c)
        BY <2>1 DEF MoveLeaf, ChannelInv, Moving, Heading
      <3> QED  BY <1>4, <1>5, <3>1 DEF ChannelInv, Moving, InGap
    <2>2. CASE c.relay = "open"
      <3>1. c.st = "MOVING_OPEN" /\ m = IF l < Stroke THEN l + 1 ELSE l
        BY <2>2 DEF MoveLeaf, ChannelInv, Moving, Heading
      <3> HIDE DEF m
      <3> QED  BY <1>1, <1>2, <1>4, <1>5, <1>6, <3>1
               DEF ChannelInv, Moving, InGap, Heading
    <2>3. CASE c.relay = "close"
      <3>1. c.st = "MOVING_CLOSE" /\ m = IF l > 0 THEN l - 1 ELSE l
        BY <2>3 DEF MoveLeaf, ChannelInv, Moving, Heading
      <3> HIDE DEF m
      <3> QED  BY <1>1, <1>2, <1>4, <1>5, <1>6, <3>1
               DEF ChannelInv, Moving, InGap, Heading
    <2> QED  BY <1>1, <2>1, <2>2, <2>3 DEF ChannelRecord, Directions
  <1> QED  BY <1>5, <1>7 DEF k
=============================================================================
