------------------------------ MODULE TickProofs ------------------------------
(* What TLAPS proves of T2's timers on a clock that wraps, for every number  *)
(* of channels, every travel, gap and dwell the configuration allows, every  *)
(* lateness and every width of the clock.                                    *)
EXTENDS TickClock, TLAPS

-----------------------------------------------------------------------------
(* The clock's arithmetic.                                                   *)

LEMMA Remainder ==
    \A q, r \in Int, w \in Nat \ {0} : 0 <= r /\ r < w => ((q * w) + r) % w = r
  OBVIOUS

LEMMA Quotient ==
    \A a \in Int, w \in Nat \ {0} :
        \E q \in Int : a = (q * w) + (a % w) /\ a % w \in 0..w-1
  <1>1. \A a \in Int, w \in Nat \ {0} : a = ((a \div w) * w) + (a % w) /\ a \div w \in Int
    OBVIOUS
  <1>2. \A a \in Int, w \in Nat \ {0} : a % w \in 0..w-1
    OBVIOUS
  <1> QED  BY <1>1, <1>2

LEMMA WholeLaps ==
    ASSUME NEW a \in Int, NEW q \in Int, NEW w \in Nat \ {0}
    PROVE  (a + (q * w)) % w = a % w
  <1>1. PICK p \in Int : a = (p * w) + (a % w) /\ a % w \in 0..w-1
    BY Quotient
  <1>2. a + (q * w) = ((p + q) * w) + (a % w)
    BY <1>1
  <1>3. (((p + q) * w) + (a % w)) % w = a % w
    BY <1>1, Remainder, p + q \in Int
  <1> QED  BY <1>2, <1>3

(* A sum and a difference of readings are those of what was read.            *)
LEMMA SumOfReading ==
    ASSUME NEW a \in Int, NEW b \in Int, NEW w \in Nat \ {0}
    PROVE  ((a % w) + b) % w = (a + b) % w
  <1> DEFINE r == a % w
  <1>1. PICK p \in Int : a = (p * w) + r /\ r \in 0..w-1
    BY Quotient
  <1> HIDE DEF r
  <1>2. r + b \in Int
    BY <1>1
  <1>3. a + b = (r + b) + (p * w)
    BY <1>1
  <1>4. ((r + b) + (p * w)) % w = (r + b) % w
    BY <1>2, WholeLaps, Zenon
  <1> QED  BY <1>3, <1>4 DEF r

LEMMA DifferenceOfReadings ==
    ASSUME NEW a \in Int, NEW b \in Int, NEW w \in Nat \ {0}
    PROVE  ((a % w) - (b % w)) % w = (a - b) % w
  <1> DEFINE r == a % w
             s == b % w
  <1>1. PICK p \in Int : a = (p * w) + r /\ r \in 0..w-1
    BY Quotient
  <1>2. PICK q \in Int : b = (q * w) + s /\ s \in 0..w-1
    BY Quotient
  <1> HIDE DEF r, s
  <1>3. (p - q) * w = (p * w) - (q * w)
    OBVIOUS
  <1>4. p * w \in Int /\ q * w \in Int /\ r - s \in Int /\ p - q \in Int
    BY <1>1, <1>2
  <1>5. a - b = (r - s) + ((p - q) * w)
    BY <1>1, <1>2, <1>3, <1>4
  <1>6. ((r - s) + ((p - q) * w)) % w = (r - s) % w
    BY <1>4, WholeLaps, Zenon
  <1> QED  BY <1>5, <1>6 DEF r, s

(* The word of the clock is twice its half, and neither is empty.            *)
LEMMA WordSize == Word \in Nat \ {0} /\ Half \in Nat \ {0} /\ Word = Half + Half
  BY ClockAssumption DEF Half

(* A deadline set for some time before or after now is pending exactly when  *)
(* that time is to come, if it is within half the clock's range.             *)
LEMMA PendingIsToCome ==
    ASSUME tick \in Nat, NEW k \in Int, -Half < k, k < Half
    PROVE  Pending((tick + k) % Word) <=> k > 0
  <1>1. ((tick % Word) - ((tick + k) % Word)) % Word = (tick - (tick + k)) % Word
    <2>1. tick \in Int /\ tick + k \in Int
      OBVIOUS
    <2> QED  BY <2>1, WordSize, DifferenceOfReadings, Zenon
  <1>2. tick - (tick + k) = -k
    OBVIOUS
  <1>3. CASE k > 0
    <2>1. (-k) % Word = Word - k
      <3>1. -k = ((-1) * Word) + (Word - k)
        BY WordSize
      <3>2. 0 <= Word - k /\ Word - k < Word /\ Word - k \in Int
        BY <1>3, WordSize
      <3> QED  BY <3>1, <3>2, WordSize, Remainder
    <2> QED  BY <1>1, <1>2, <1>3, <2>1, WordSize DEF Pending, Now
  <1>4. CASE k <= 0
    <2>1. (-k) % Word = -k
      <3>1. -k = (0 * Word) + (-k) /\ 0 <= -k /\ -k < Word /\ -k \in Int
        BY <1>4, WordSize
      <3> QED  BY <3>1, WordSize, Remainder
    <2> QED  BY <1>1, <1>2, <1>4, <2>1, WordSize DEF Pending, Now
  <1> QED  BY <1>3, <1>4

(* After() is of the word, and is the reading at that time.                  *)
LEMMA AfterReads ==
    ASSUME tick \in Nat, NEW t \in Nat
    PROVE  After(t) = (tick + t) % Word /\ After(t) \in 0..Word-1
  <1>1. ((tick % Word) + t) % Word = (tick + t) % Word
    BY WordSize, SumOfReading
  <1>2. (tick + t) % Word \in 0..Word-1
    BY WordSize, Quotient, tick + t \in Int
  <1> QED  BY <1>1, <1>2 DEF After, Now

LEMMA SmallReads ==
    ASSUME NEW t \in Nat, t < Word
    PROVE  t % Word = t
  BY WordSize, Remainder, t = (0 * Word) + t

LEMMA NowReads ==
    ASSUME tick \in Nat
    PROVE  Now \in 0..Word-1 /\ (tick < Word => Now = tick)
  <1>1. tick % Word \in 0..Word-1
    BY WordSize, Quotient
  <1>2. tick < Word => tick % Word = tick
    BY SmallReads
  <1> QED  BY <1>1, <1>2 DEF Now

-----------------------------------------------------------------------------
(* The inductive invariant.                                                  *)

WindowRecord ==
    [st : EndStates \cup MovingStates \cup GapStates,
     relay : 0..Word-1, gap : 0..Word-1, dwell : 0..Word-1, moveEnd : 0..Word-1]

RealRecord == [ran : Nat, owed : 0..Dwell, moved : Nat, wraps : BOOLEAN]

SweepRecord ==
    [on : BOOLEAN, last : 0..Word-1, due : [Channel -> 0..Word-1], done : SUBSET Channel]

Typed ==
    /\ tick \in 0..Uptime /\ late \in 0..Late
    /\ win \in [Channel -> WindowRecord]
    /\ sweep \in SweepRecord
    /\ real \in [Channel -> RealRecord]

(* The dwell's deadline is the reading at the time it is owed until; while   *)
(* the clock is young one that is paid lies behind.                          *)
DwellKept ==
    \A c \in Channel :
        /\ real[c].owed > 0 => win[c].dwell = (tick + real[c].owed) % Word
        /\ real[c].owed = 0 /\ tick < Half => win[c].dwell <= tick

(* Until the first wrap the reading at the last move is its tick.            *)
MoveKept ==
    \A c \in Channel :
        /\ real[c].moved <= tick
        /\ tick < Word => win[c].moveEnd = real[c].moved

(* What is left of a drive is what its deadline says, and T2 has not let it  *)
(* pass by more than it is late.                                             *)
ToGo(c) == Travel[c] - real[c].ran

Timed(c, deadline) ==
    deadline = (tick + ToGo(c)) % Word /\ real[c].ran < Travel[c] + late

InHand == Channel \ sweep.done

DriveKept ==
    /\ \A c \in Channel : win[c].st \in GapStates => real[c].ran = 0
    /\ ~sweep.on =>
          \A c \in Channel : win[c].st \in MovingStates /\ ~real[c].wraps
                                => Timed(c, win[c].relay)

(* In a sweep every window is closing or closed, the last is still in hand,  *)
(* and those in hand have run equally long; unless their deadlines lie about *)
(* the wrap, these differ as the travels do.                                 *)
SweepKept ==
    sweep.on =>
        /\ \A c \in sweep.done : win[c].st = "CLOSED"
        /\ \A c \in InHand : /\ win[c].st = "MOVING_CLOSE" /\ Timed(c, sweep.due[c])
                             /\ sweep.due[c] <= sweep.last
        /\ \E c \in InHand : sweep.due[c] = sweep.last
        /\ \A c, d \in InHand :
              /\ real[c].ran = real[d].ran
              /\ ~real[c].wraps => sweep.due[d] - sweep.due[c] = Travel[d] - Travel[c]

ClockInv == Typed /\ DwellKept /\ MoveKept /\ DriveKept /\ SweepKept

-----------------------------------------------------------------------------
(* What the operators do to one window.                                      *)

LEMMA Constants ==
    /\ Travel \in [Channel -> Nat \ {0}] /\ Driven \subseteq Channel
    /\ Gap \in Nat /\ Dwell \in Nat /\ Late \in Nat \ {0} /\ Uptime \in Nat
    /\ Dwell < Half /\ \A c \in Channel : Travel[c] + Late < Half
  BY ClockAssumption

LEMMA FieldsOf ==
    ASSUME Typed, NEW c \in Channel
    PROVE  /\ tick \in Nat /\ late \in Nat /\ tick <= Uptime /\ late <= Late
           /\ win[c] \in WindowRecord /\ real[c] \in RealRecord /\ sweep \in SweepRecord
           /\ Travel[c] \in Nat \ {0} /\ ToGo(c) \in Int
  BY Constants DEF Typed, RealRecord, ToGo

LEMMA RestSets ==
    ASSUME Typed, NEW c \in Channel, NEW end \in EndStates
    PROVE  /\ Rest(win[c], end) \in WindowRecord
           /\ Rest(win[c], end).st = end
           /\ Rest(win[c], end).dwell = (tick + Dwell) % Word
           /\ Rest(win[c], end).moveEnd = Now
           /\ RestReal(real[c]) \in RealRecord
           /\ RestReal(real[c]).owed = Dwell /\ RestReal(real[c]).moved = tick
           /\ RestReal(real[c]).ran = 0
  <1>1. win[c] \in WindowRecord /\ real[c] \in RealRecord /\ tick \in Nat
    BY FieldsOf
  <1>2. After(Dwell) = (tick + Dwell) % Word /\ After(Dwell) \in 0..Word-1
    BY <1>1, Constants, AfterReads
  <1>3. Now \in 0..Word-1
    BY <1>1, NowReads
  <1>4. Dwell \in 0..Dwell
    BY Constants
  <1> QED  BY <1>1, <1>2, <1>3, <1>4 DEF Rest, RestReal, WindowRecord, RealRecord

(* A rest keeps the dwell's and the move's parts.                            *)
LEMMA RestIsKept ==
    ASSUME Typed
    PROVE  /\ Dwell = 0 /\ tick < Half => (tick + Dwell) % Word <= tick
           /\ tick < Word => Now = tick
  <1>1. tick \in Nat
    BY Constants DEF Typed
  <1>2. tick < Word => Now = tick /\ tick % Word = tick
    BY <1>1, NowReads, SmallReads
  <1> QED  BY <1>1, <1>2, WordSize

(* A window that is due has run its travel, and by no more than T2 is late.  *)
LEMMA DueIsWhole ==
    ASSUME Typed, NEW c \in Channel, NEW deadline, Timed(c, deadline)
    PROVE  /\ Pending(deadline) <=> real[c].ran < Travel[c]
           /\ ~Pending(deadline) => Whole(c)
  <1>1. /\ tick \in Nat /\ late \in Nat /\ late <= Late /\ real[c].ran \in Nat
        /\ Travel[c] \in Nat \ {0} /\ Travel[c] + Late < Half /\ Late \in Nat
    BY FieldsOf, Constants DEF RealRecord
  <1>2. ToGo(c) \in Int /\ -Half < ToGo(c) /\ ToGo(c) < Half
    BY <1>1, WordSize DEF ToGo, Timed
  <1>3. Pending(deadline) <=> ToGo(c) > 0
    BY <1>1, <1>2, PendingIsToCome DEF Timed
  <1> QED  BY <1>1, <1>3 DEF ToGo, Timed, Whole

(* A drive that starts now is timed.                                         *)
LEMMA StartIsTimed ==
    ASSUME Typed, NEW c \in Channel
    PROVE  /\ After(Travel[c]) \in 0..Word-1
           /\ After(Travel[c]) = (tick + Travel[c]) % Word
  BY FieldsOf, AfterReads

-----------------------------------------------------------------------------
(* Every action keeps the invariant.                                         *)

LEMMA PassKeeps ==
    ASSUME ClockInv, Pass
    PROVE  ClockInv'
  <1>1. Typed /\ ~sweep.on /\ tick' = tick /\ sweep' = sweep /\ late' = 0
    BY DEF ClockInv, Pass
  <1>2. ASSUME NEW c \in Channel, Due(c)
        PROVE  \E end \in EndStates :
                  win'[c] = Rest(win[c], end) /\ real'[c] = RestReal(real[c])
    <2>1. win'[c] = Rest(win[c], "OPEN") \/ win'[c] = Rest(win[c], "CLOSED")
      <3>1. Update(c) = Rest(win[c], "OPEN") \/ Update(c) = Rest(win[c], "CLOSED")
        BY <1>2 DEF Update, Rest, Due, MovingStates, GapStates
      <3> QED  BY <3>1 DEF Pass
    <2>2. real'[c] = RestReal(real[c])
      BY <1>2, Zenon DEF Pass
    <2>3. "OPEN" \in EndStates /\ "CLOSED" \in EndStates
      BY DEF EndStates
    <2> QED  BY <2>1, <2>2, <2>3
  <1>3. ASSUME NEW c \in Channel, ~Due(c)
        PROVE  /\ real'[c] = real[c]
               /\ win'[c] \in WindowRecord
               /\ win'[c].dwell = win[c].dwell /\ win'[c].moveEnd = win[c].moveEnd
               /\ \/ win'[c] = win[c]
                  \/ /\ win[c].st \in GapStates /\ win'[c].st \in MovingStates
                     /\ win'[c].relay = (tick + Travel[c]) % Word
    <2>1. win[c] \in WindowRecord
      BY <1>1, FieldsOf
    <2>2. CASE win[c].st \in GapStates /\ ~Pending(win[c].gap)
      BY <1>1, <1>3, <2>1, <2>2, StartIsTimed
         DEF Pass, Update, WindowRecord, GapStates, MovingStates
    <2>3. CASE ~(win[c].st \in GapStates /\ ~Pending(win[c].gap))
      BY <1>3, <2>1, <2>3 DEF Pass, Update
    <2> QED  BY <2>2, <2>3
  <1>4. Typed'
    <2>1. ASSUME NEW c \in Channel
          PROVE  win'[c] \in WindowRecord /\ real'[c] \in RealRecord
      BY <1>1, <1>2, <1>3, RestSets, FieldsOf
    <2>2. DOMAIN win' = Channel /\ DOMAIN real' = Channel
          /\ win' = [c \in Channel |-> win'[c]] /\ real' = [c \in Channel |-> real'[c]]
      BY DEF Pass
    <2> QED  BY <1>1, <2>1, <2>2, Constants DEF Typed
  <1>5. DwellKept'
    <2> SUFFICES ASSUME NEW c \in Channel
                 PROVE  /\ real'[c].owed > 0 => win'[c].dwell = (tick + real'[c].owed) % Word
                        /\ real'[c].owed = 0 /\ tick < Half => win'[c].dwell <= tick
      BY <1>1 DEF DwellKept
    <2>1. CASE Due(c)
      BY <1>1, <1>2, <2>1, RestSets, RestIsKept
    <2>2. CASE ~Due(c)
      BY <1>3, <2>2 DEF ClockInv, DwellKept
    <2> QED  BY <2>1, <2>2
  <1>6. MoveKept'
    <2> SUFFICES ASSUME NEW c \in Channel
                 PROVE  /\ real'[c].moved <= tick
                        /\ tick < Word => win'[c].moveEnd = real'[c].moved
      BY <1>1 DEF MoveKept
    <2>1. CASE Due(c)
      BY <1>1, <1>2, <2>1, RestSets, RestIsKept, FieldsOf
    <2>2. CASE ~Due(c)
      BY <1>3, <2>2 DEF ClockInv, MoveKept
    <2> QED  BY <2>1, <2>2
  <1>7. DriveKept'
    <2>1. ASSUME NEW c \in Channel, win'[c].st \in GapStates
          PROVE  real'[c].ran = 0
      <3>1. CASE Due(c)
        BY <1>1, <1>2, <3>1, RestSets DEF RestReal
      <3>2. CASE ~Due(c)
        BY <1>3, <2>1, <3>2 DEF ClockInv, DriveKept, GapStates, MovingStates
      <3> QED  BY <3>1, <3>2
    <2>2. ASSUME NEW c \in Channel, win'[c].st \in MovingStates, ~real'[c].wraps
          PROVE  /\ win'[c].relay = (tick + (Travel[c] - real'[c].ran)) % Word
                 /\ real'[c].ran < Travel[c] + 0
      <3>1. CASE Due(c)
        BY <1>1, <1>2, <2>2, <3>1, RestSets DEF EndStates, MovingStates
      <3>2. CASE ~Due(c) /\ win'[c] = win[c]
        <4>1. Timed(c, win[c].relay) /\ Pending(win[c].relay)
          BY <1>1, <1>3, <2>2, <3>2 DEF ClockInv, DriveKept, Due
        <4> QED  BY <1>1, <1>3, <3>2, <4>1, DueIsWhole, FieldsOf
               DEF Timed, ToGo, RealRecord
      <3>3. CASE ~Due(c) /\ win[c].st \in GapStates
        BY <1>1, <1>3, <2>2, <3>3, FieldsOf
           DEF ClockInv, DriveKept, GapStates, MovingStates, RealRecord
      <3> QED  BY <1>3, <3>1, <3>2, <3>3
    <2> QED  BY <1>1, <2>1, <2>2 DEF DriveKept, Timed, ToGo
  <1>8. SweepKept'
    BY <1>1 DEF SweepKept
  <1> QED  BY <1>4, <1>5, <1>6, <1>7, <1>8 DEF ClockInv

LEMMA CommandKeeps ==
    ASSUME ClockInv, NEW d \in Driven, NEW dir \in Directions,
           NEW src \in {"T6", "operator"}, Command(d, dir, src)
    PROVE  ClockInv'
  <1>1. /\ Typed /\ ~sweep.on /\ UNCHANGED <<tick, late, sweep>> /\ d \in Channel
        /\ dir = "open" \/ dir = "close"
    BY Constants DEF ClockInv, Command, Directions
  <1>2. /\ MovingTo[dir] \in MovingStates /\ MovingTo[dir] \notin GapStates
        /\ GapTo[dir] \in GapStates /\ GapTo[dir] \notin MovingStates
    BY <1>1 DEF MovingTo, GapTo, MovingStates, GapStates
  <1>3. /\ After(Gap) \in 0..Word-1 /\ After(Travel[d]) \in 0..Word-1
        /\ After(Travel[d]) = (tick + Travel[d]) % Word
    BY <1>1, Constants, AfterReads, FieldsOf
  <1>4. /\ win \in [Channel -> WindowRecord] /\ win[d] \in WindowRecord
        /\ real \in [Channel -> RealRecord] /\ real[d] \in RealRecord
    BY <1>1 DEF Typed
  <1>5. /\ win' \in [Channel -> WindowRecord] /\ real' \in [Channel -> RealRecord]
        /\ \A c \in Channel : c # d => win'[c] = win[c] /\ real'[c] = real[c]
        /\ win'[d].dwell = win[d].dwell /\ win'[d].moveEnd = win[d].moveEnd
        /\ real'[d].owed = real[d].owed /\ real'[d].moved = real[d].moved
        /\ real'[d].ran = 0 /\ ~real'[d].wraps
        /\ \/ win'[d].st \in GapStates /\ win'[d].st \notin MovingStates
           \/ /\ win'[d].st \in MovingStates /\ win'[d].st \notin GapStates
              /\ win'[d].relay = (tick + Travel[d]) % Word
    <2>1. real' = [real EXCEPT ![d].ran = 0, ![d].wraps = FALSE]
      BY DEF Command
    <2>2. /\ real' \in [Channel -> RealRecord]
          /\ \A c \in Channel : c # d => real'[c] = real[c]
          /\ real'[d].owed = real[d].owed /\ real'[d].moved = real[d].moved
          /\ real'[d].ran = 0 /\ ~real'[d].wraps
      BY <1>1, <1>4, <2>1 DEF RealRecord
    <2>3. PICK w : /\ win' = [win EXCEPT ![d] = w]
                   /\ \/ w = [win[d] EXCEPT !.st = GapTo[dir], !.gap = After(Gap)]
                      \/ w = [win[d] EXCEPT !.st = GapTo[dir]]
                      \/ w = [win[d] EXCEPT !.st = MovingTo[dir], !.relay = After(Travel[d])]
      <3>1. CASE win[d].st \in MovingStates
        BY <3>1 DEF Command, MovingStates, GapStates
      <3>2. CASE win[d].st \notin MovingStates /\ win[d].st \in GapStates
        BY <3>2 DEF Command, MovingStates, GapStates
      <3>3. CASE win[d].st \notin MovingStates /\ win[d].st \notin GapStates
        BY <3>3 DEF Command
      <3> QED  BY <3>1, <3>2, <3>3
    <2>4. /\ w \in WindowRecord /\ w.dwell = win[d].dwell /\ w.moveEnd = win[d].moveEnd
          /\ \/ w.st = GapTo[dir]
             \/ w.st = MovingTo[dir] /\ w.relay = After(Travel[d])
      BY <1>2, <1>3, <1>4, <2>3 DEF WindowRecord
    <2>5. /\ win' \in [Channel -> WindowRecord] /\ win'[d] = w
          /\ \A c \in Channel : c # d => win'[c] = win[c]
      BY <1>1, <1>4, <2>3, <2>4
    <2> QED  BY <1>2, <1>3, <2>2, <2>4, <2>5
  <1>6. Typed'
    BY <1>1, <1>5 DEF Typed
  <1>7. DwellKept' /\ MoveKept'
    BY <1>1, <1>5 DEF ClockInv, DwellKept, MoveKept
  <1>8. DriveKept'
    <2>1. ASSUME NEW c \in Channel
          PROVE  /\ win'[c].st \in GapStates => real'[c].ran = 0
                 /\ win'[c].st \in MovingStates /\ ~real'[c].wraps
                       => /\ win'[c].relay = (tick + (Travel[c] - real'[c].ran)) % Word
                          /\ real'[c].ran < Travel[c] + late
      <3>1. CASE c = d
        BY <1>1, <1>5, <3>1, FieldsOf
      <3>2. CASE c # d
        BY <1>1, <1>5, <3>2 DEF ClockInv, DriveKept, Timed, ToGo
      <3> QED  BY <3>1, <3>2
    <2> QED  BY <1>1, <2>1 DEF DriveKept, Timed, ToGo
  <1>9. SweepKept'
    BY <1>1 DEF SweepKept
  <1> QED  BY <1>6, <1>7, <1>8, <1>9 DEF ClockInv

LEMMA ClearKeeps ==
    ASSUME ClockInv, ClearDwell
    PROVE  ClockInv'
  <1>1. Typed /\ ~sweep.on /\ UNCHANGED <<tick, late, sweep>>
    BY DEF ClockInv, ClearDwell
  <1>2. ASSUME NEW c \in Channel
        PROVE  /\ win'[c] \in WindowRecord /\ real'[c] \in RealRecord
               /\ win'[c].dwell = 0 /\ win'[c].moveEnd = win[c].moveEnd
               /\ win'[c].st = win[c].st /\ win'[c].relay = win[c].relay
               /\ real'[c].owed = 0 /\ real'[c].moved = real[c].moved
               /\ real'[c].ran = real[c].ran /\ real'[c].wraps = real[c].wraps
    <2>1. win[c] \in WindowRecord /\ real[c] \in RealRecord
      BY <1>1, FieldsOf
    <2>2. win'[c] = [win[c] EXCEPT !.dwell = 0] /\ real'[c] = [real[c] EXCEPT !.owed = 0]
      BY <1>1 DEF ClearDwell, Typed
    <2>3. 0 \in 0..Word-1 /\ 0 \in 0..Dwell
      BY WordSize, Constants
    <2> QED  BY <2>1, <2>2, <2>3 DEF WindowRecord, RealRecord
  <1>3. Typed'
    <2>1. win' = [c \in Channel |-> win'[c]] /\ real' = [c \in Channel |-> real'[c]]
      BY DEF ClearDwell
    <2> QED  BY <1>1, <1>2, <2>1 DEF Typed
  <1>4. DwellKept' /\ MoveKept'
    BY <1>1, <1>2, FieldsOf DEF ClockInv, DwellKept, MoveKept
  <1>5. DriveKept' /\ SweepKept'
    BY <1>1, <1>2 DEF ClockInv, DriveKept, SweepKept, Timed, ToGo
  <1> QED  BY <1>3, <1>4, <1>5 DEF ClockInv

LEMMA SweepStartKeeps ==
    ASSUME ClockInv, SweepStart
    PROVE  ClockInv'
  <1> DEFINE due == [c \in Channel |-> After(Travel[c])]
  <1>1. Typed /\ UNCHANGED <<tick, late>> /\ tick \in Nat /\ late \in Nat
    <2>1. UNCHANGED <<tick, late>>
      BY DEF SweepStart
    <2>2. Typed /\ tick \in Nat /\ late \in Nat
      BY Constants DEF ClockInv, Typed
    <2> QED  BY <2>1, <2>2
  <1>2. \A c \in Channel : /\ due[c] \in 0..Word-1 /\ due[c] = (tick + Travel[c]) % Word
                           /\ due[c] = (Now + Travel[c]) % Word
    BY <1>1, StartIsTimed DEF After
  <1>3. PICK last \in Channel :
            /\ \A c \in Channel : due[c] <= due[last]
            /\ sweep' = [on |-> TRUE, due |-> due, done |-> {}, last |-> due[last]]
    BY DEF SweepStart
  <1>4. /\ sweep' \in SweepRecord /\ sweep'.on = TRUE /\ sweep'.done = {}
        /\ sweep'.last = due[last] /\ sweep'.due = due
    <2>1. due \in [Channel -> 0..Word-1] /\ due[last] \in 0..Word-1
      BY <1>2
    <2> HIDE DEF due
    <2> QED  BY <1>3, <2>1 DEF SweepRecord
  <1>5. real' = [c \in Channel |->
                  [real[c] EXCEPT !.ran = 0, !.wraps = \E d \in Channel : due[d] < Now]]
    BY DEF SweepStart
  <1>6. win' = [c \in Channel |-> [win[c] EXCEPT !.st = "MOVING_CLOSE"]]
    BY DEF SweepStart
  <1>7. ASSUME NEW c \in Channel
        PROVE  /\ win'[c] \in WindowRecord /\ real'[c] \in RealRecord
               /\ win'[c].dwell = win[c].dwell /\ win'[c].moveEnd = win[c].moveEnd
               /\ win'[c].st = "MOVING_CLOSE"
               /\ real'[c].owed = real[c].owed /\ real'[c].moved = real[c].moved
               /\ real'[c].ran = 0
               /\ real'[c].wraps = \E d \in Channel : due[d] < Now
    <2>1. win[c] \in WindowRecord /\ real[c] \in RealRecord
      BY <1>1, FieldsOf
    <2> DEFINE wraps == \E d \in Channel : due[d] < Now
    <2>2. /\ win'[c] = [win[c] EXCEPT !.st = "MOVING_CLOSE"]
          /\ real'[c] = [real[c] EXCEPT !.ran = 0, !.wraps = wraps]
      BY <1>5, <1>6
    <2>3. wraps \in BOOLEAN /\ 0 \in Nat
      OBVIOUS
    <2> HIDE DEF wraps, due
    <2>4. win'[c] \in WindowRecord /\ win'[c].dwell = win[c].dwell
          /\ win'[c].moveEnd = win[c].moveEnd /\ win'[c].st = "MOVING_CLOSE"
      BY <2>1, <2>2 DEF WindowRecord, MovingStates
    <2>5. /\ real'[c] \in RealRecord
          /\ real'[c].owed = real[c].owed /\ real'[c].moved = real[c].moved
          /\ real'[c].ran = 0 /\ real'[c].wraps = wraps
      BY <2>1, <2>2, <2>3 DEF RealRecord
    <2> QED  BY <2>4, <2>5 DEF wraps
  <1> HIDE DEF due
  <1>8. Typed'
    <2>1. win' = [c \in Channel |-> win'[c]] /\ real' = [c \in Channel |-> real'[c]]
      BY <1>5, <1>6
    <2> QED  BY <1>1, <1>4, <1>7, <2>1 DEF Typed
  <1>9. DwellKept' /\ MoveKept'
    BY <1>1, <1>7 DEF ClockInv, DwellKept, MoveKept
  <1>10. DriveKept'
    BY <1>4, <1>7 DEF DriveKept, GapStates
  <1>11. SweepKept'
    <2>1. ASSUME NEW c \in Channel
          PROVE  /\ win'[c].st = "MOVING_CLOSE" /\ due[c] <= due[last]
                 /\ due[c] = (tick + (Travel[c] - real'[c].ran)) % Word
                 /\ real'[c].ran < Travel[c] + late
      <3>1. win'[c].st = "MOVING_CLOSE" /\ real'[c].ran = 0
        BY <1>7
      <3>2. Travel[c] \in Nat \ {0} /\ Travel[c] - 0 = Travel[c] /\ 0 < Travel[c] + late
        BY <1>1, Constants
      <3> QED  BY <1>2, <1>3, <3>1, <3>2
    <2>2. ASSUME NEW c \in Channel, NEW d \in Channel
          PROVE  /\ real'[c].ran = real'[d].ran
                 /\ ~real'[c].wraps => due[d] - due[c] = Travel[d] - Travel[c]
      <3>1. real'[c].ran = real'[d].ran
        BY <1>7
      <3>2. ASSUME NEW e \in Channel, ~(due[e] < Now)
            PROVE  due[e] = Now + Travel[e]
        <4>1. /\ Now \in 0..Word-1 /\ Travel[e] \in Nat /\ Travel[e] < Half
              /\ due[e] = (Now + Travel[e]) % Word
          <5>1. Now \in 0..Word-1
            BY <1>1, NowReads
          <5>2. Travel[e] \in Nat /\ Travel[e] < Half
            BY Constants, WordSize
          <5> QED  BY <1>2, <5>1, <5>2
        <4>2. CASE Now + Travel[e] < Word
          BY <4>1, <4>2, SmallReads
        <4>3. CASE Now + Travel[e] >= Word
          <5>1. /\ Now + Travel[e] = (1 * Word) + (Now + Travel[e] - Word)
                /\ 0 <= Now + Travel[e] - Word /\ Now + Travel[e] - Word < Now
                /\ Now + Travel[e] - Word < Word /\ Now + Travel[e] - Word \in Int
            BY <4>1, <4>3, WordSize
          <5>2. due[e] = Now + Travel[e] - Word
            BY <4>1, <5>1, Remainder, WordSize
          <5> QED  BY <3>2, <5>1, <5>2
        <4> QED  BY <4>1, <4>2, <4>3, WordSize
      <3>3. ~real'[c].wraps => due[d] = Now + Travel[d] /\ due[c] = Now + Travel[c]
        BY <1>7, <3>2
      <3>4. Now \in Nat /\ Travel[c] \in Nat /\ Travel[d] \in Nat
        BY <1>1, NowReads, WordSize, Constants
      <3> QED  BY <3>1, <3>3, <3>4
    <2> QED  BY <1>1, <1>4, <2>1, <2>2 DEF SweepKept, InHand, Timed, ToGo
  <1> QED  BY <1>8, <1>9, <1>10, <1>11 DEF ClockInv

LEMMA SweepPollKeeps ==
    ASSUME ClockInv, SweepPoll
    PROVE  ClockInv'
  <1> DEFINE ends == {c \in InHand : ~Pending(sweep.due[c])}
  <1>1. Typed /\ sweep.on /\ tick' = tick /\ late' = 0 /\ tick \in Nat /\ sweep \in SweepRecord
    <2>1. sweep.on /\ tick' = tick /\ late' = 0
      BY DEF SweepPoll
    <2> QED  BY <2>1, Constants DEF ClockInv, Typed
  <1>2. ends \subseteq Channel
    BY DEF InHand
  <1>3. sweep' = [sweep EXCEPT !.done = sweep.done \cup ends, !.on = Pending(sweep.last)]
    BY DEF SweepPoll, InHand
  <1>4. /\ sweep' \in SweepRecord /\ sweep'.on = Pending(sweep.last)
        /\ sweep'.done = sweep.done \cup ends /\ sweep'.due = sweep.due
        /\ sweep'.last = sweep.last
    <2>1. Pending(sweep.last) \in BOOLEAN
      BY DEF Pending
    <2> HIDE DEF ends
    <2> QED  BY <1>1, <1>2, <1>3, <2>1 DEF SweepRecord
  <1>5. /\ \A c \in ends : win'[c] = Rest(win[c], "CLOSED") /\ real'[c] = RestReal(real[c])
        /\ \A c \in Channel \ ends : win'[c] = win[c] /\ real'[c] = real[c]
    BY <1>2 DEF SweepPoll, InHand
  <1>6. win' = [c \in Channel |-> win'[c]] /\ real' = [c \in Channel |-> real'[c]]
    BY DEF SweepPoll
  <1>7. \A c \in ends : c \in InHand /\ ~Pending(sweep.due[c])
    OBVIOUS
  <1>8. \A c \in InHand \ ends : Pending(sweep.due[c])
    OBVIOUS
  <1> HIDE DEF ends
  <1>9. "CLOSED" \in EndStates
    BY DEF EndStates
  <1>10. Typed'
    <2>1. ASSUME NEW c \in Channel
          PROVE  win'[c] \in WindowRecord /\ real'[c] \in RealRecord
      <3>1. CASE c \in ends
        BY <1>1, <1>5, <1>9, <3>1, RestSets
      <3>2. CASE c \notin ends
        BY <1>1, <1>5, <3>2, FieldsOf
      <3> QED  BY <3>1, <3>2
    <2> QED  BY <1>1, <1>4, <1>6, <2>1, Constants DEF Typed
  <1>11. DwellKept' /\ MoveKept'
    <2>1. ASSUME NEW c \in Channel
          PROVE  /\ real'[c].owed > 0 => win'[c].dwell = (tick + real'[c].owed) % Word
                 /\ real'[c].owed = 0 /\ tick < Half => win'[c].dwell <= tick
                 /\ real'[c].moved <= tick
                 /\ tick < Word => win'[c].moveEnd = real'[c].moved
      <3>1. CASE c \in ends
        BY <1>1, <1>5, <1>9, <3>1, RestSets, RestIsKept
      <3>2. CASE c \notin ends
        BY <1>1, <1>5, <3>2 DEF ClockInv, DwellKept, MoveKept
      <3> QED  BY <3>1, <3>2
    <2> QED  BY <1>1, <2>1 DEF DwellKept, MoveKept
  <1>12. \A c \in Channel : win[c].st \in {"MOVING_CLOSE", "CLOSED"}
    BY <1>1 DEF ClockInv, SweepKept, InHand
  <1>13. \A c \in Channel : win'[c].st \in {"MOVING_CLOSE", "CLOSED"}
    <2> SUFFICES ASSUME NEW c \in Channel
                 PROVE  win'[c].st \in {"MOVING_CLOSE", "CLOSED"}
      OBVIOUS
    <2>1. CASE c \in ends
      BY <1>1, <1>5, <1>9, <2>1, RestSets
    <2>2. CASE c \notin ends
      BY <1>5, <1>12, <2>2
    <2> QED  BY <2>1, <2>2
  <1>14. ASSUME NEW c \in Channel, win'[c].st = "MOVING_CLOSE"
         PROVE  /\ c \in InHand /\ c \notin ends
                /\ win'[c] = win[c] /\ real'[c] = real[c]
                /\ Timed(c, sweep.due[c]) /\ real[c].ran < Travel[c]
    <2>1. c \notin ends
      BY <1>1, <1>5, <1>9, <1>14, RestSets
    <2>2. c \in InHand
      BY <1>1, <1>5, <1>14, <2>1 DEF ClockInv, SweepKept, InHand
    <2>3. Timed(c, sweep.due[c])
      BY <1>1, <2>2 DEF ClockInv, SweepKept
    <2>4. real[c].ran < Travel[c]
      BY <1>1, <1>8, <2>1, <2>2, <2>3, DueIsWhole
    <2> QED  BY <1>5, <2>1, <2>2, <2>3, <2>4
  <1>15. PICK m \in InHand : m \in Channel /\ sweep.due[m] = sweep.last
    BY <1>1 DEF ClockInv, SweepKept, InHand
  <1>16. Timed(m, sweep.last)
    BY <1>1, <1>15 DEF ClockInv, SweepKept
  <1>17. DriveKept'
    <2>1. \A c \in Channel : win'[c].st \notin GapStates
      BY <1>13 DEF GapStates
    <2>2. ASSUME ~Pending(sweep.last), NEW c \in Channel, win'[c].st = "MOVING_CLOSE",
                 ~real'[c].wraps
          PROVE  FALSE
      <3>1. c \in InHand /\ real'[c] = real[c] /\ real[c].ran < Travel[c]
        BY <1>14, <2>2
      <3>2. real[m].ran >= Travel[m]
        BY <1>1, <1>15, <1>16, <2>2, DueIsWhole, FieldsOf DEF RealRecord
      <3>3. /\ real[c].ran = real[m].ran
            /\ sweep.due[m] - sweep.due[c] = Travel[m] - Travel[c]
            /\ sweep.due[c] <= sweep.due[m]
        BY <1>1, <1>15, <2>2, <3>1 DEF ClockInv, SweepKept
      <3>4. /\ real[c].ran \in Nat /\ real[m].ran \in Nat
            /\ Travel[c] \in Nat /\ Travel[m] \in Nat
        BY <1>1, <1>15, FieldsOf DEF RealRecord
      <3>5. sweep.due[c] \in Nat /\ sweep.due[m] \in Nat
        BY <1>1, <1>15, WordSize DEF SweepRecord
      <3> QED  BY <3>1, <3>2, <3>3, <3>4, <3>5
    <2>3. \A c \in Channel : win'[c].st \in MovingStates => win'[c].st = "MOVING_CLOSE"
      BY <1>13 DEF MovingStates
    <2> QED  BY <1>4, <2>1, <2>2, <2>3 DEF DriveKept
  <1>18. SweepKept'
    <2> SUFFICES ASSUME Pending(sweep.last)
                 PROVE  /\ \A c \in sweep'.done : win'[c].st = "CLOSED"
                        /\ \A c \in Channel \ sweep'.done :
                              /\ win'[c].st = "MOVING_CLOSE" /\ Timed(c, sweep.due[c])'
                              /\ sweep.due[c] <= sweep.last
                        /\ \E c \in Channel \ sweep'.done : sweep.due[c] = sweep.last
                        /\ \A c, d \in Channel \ sweep'.done :
                              /\ real'[c].ran = real'[d].ran
                              /\ ~real'[c].wraps =>
                                    sweep.due[d] - sweep.due[c] = Travel[d] - Travel[c]
      BY <1>4 DEF SweepKept, InHand
    <2>1. \A c \in Channel \ sweep'.done :
             c \in InHand /\ c \notin ends /\ win'[c] = win[c] /\ real'[c] = real[c]
      BY <1>4, <1>5 DEF InHand
    <2>2. \A c \in sweep'.done : win'[c].st = "CLOSED"
      <3> SUFFICES ASSUME NEW c \in sweep'.done  PROVE win'[c].st = "CLOSED"
        OBVIOUS
      <3>1. CASE c \in ends
        BY <1>1, <1>2, <1>5, <1>9, <3>1, RestSets
      <3>2. CASE c \notin ends
        BY <1>1, <1>4, <1>5, <3>2 DEF ClockInv, SweepKept, SweepRecord
      <3> QED  BY <3>1, <3>2
    <2>3. ASSUME NEW c \in Channel \ sweep'.done
          PROVE  /\ win'[c].st = "MOVING_CLOSE" /\ Timed(c, sweep.due[c])'
                 /\ sweep.due[c] <= sweep.last
      <3>1. c \in InHand /\ win'[c] = win[c] /\ real'[c] = real[c]
        BY <2>1
      <3>2. win[c].st = "MOVING_CLOSE" /\ sweep.due[c] <= sweep.last
        BY <1>1, <3>1 DEF ClockInv, SweepKept
      <3>3. Timed(c, sweep.due[c]) /\ real[c].ran < Travel[c] /\ Travel[c] \in Nat
        BY <1>1, <1>14, <3>1, <3>2, FieldsOf
      <3> QED  BY <1>1, <1>4, <3>1, <3>2, <3>3 DEF Timed, ToGo
    <2>4. m \in Channel \ sweep'.done
      BY <1>4, <1>7, <1>15 DEF InHand
    <2>5. ASSUME NEW c \in Channel \ sweep'.done, NEW d \in Channel \ sweep'.done
          PROVE  /\ real'[c].ran = real'[d].ran
                 /\ ~real'[c].wraps =>
                       sweep.due[d] - sweep.due[c] = Travel[d] - Travel[c]
      BY <1>1, <2>1 DEF ClockInv, SweepKept
    <2> QED  BY <1>15, <2>2, <2>3, <2>4, <2>5
  <1> QED  BY <1>10, <1>11, <1>17, <1>18 DEF ClockInv

LEMMA TickKeeps ==
    ASSUME ClockInv, Tick
    PROVE  ClockInv'
  <1>1. /\ Typed /\ tick' = tick + 1 /\ late' = late + 1 /\ UNCHANGED <<win, sweep>>
        /\ tick < Uptime /\ late < Late
    BY DEF ClockInv, Tick
  <1>2. tick \in Nat /\ late \in Nat
    BY <1>1, Constants DEF Typed
  <1>3. ASSUME NEW c \in Channel
        PROVE  /\ real'[c] \in RealRecord
               /\ real'[c].ran = IF win[c].st \in MovingStates THEN real[c].ran + 1
                                                              ELSE real[c].ran
               /\ real'[c].owed = IF real[c].owed > 0 THEN real[c].owed - 1 ELSE real[c].owed
               /\ real'[c].moved = real[c].moved /\ real'[c].wraps = real[c].wraps
    <2> DEFINE ran == IF win[c].st \in MovingStates THEN real[c].ran + 1 ELSE real[c].ran
               owed == IF real[c].owed > 0 THEN real[c].owed - 1 ELSE real[c].owed
    <2>1. real[c] \in RealRecord
      BY <1>1, FieldsOf
    <2>2. real'[c] = [real[c] EXCEPT !.ran = ran, !.owed = owed]
      BY DEF Tick
    <2>3. ran \in Nat /\ owed \in 0..Dwell
      BY <2>1, Constants DEF RealRecord
    <2> HIDE DEF ran, owed
    <2>4. /\ real'[c] \in RealRecord /\ real'[c].ran = ran /\ real'[c].owed = owed
          /\ real'[c].moved = real[c].moved /\ real'[c].wraps = real[c].wraps
      BY <2>1, <2>2, <2>3 DEF RealRecord
    <2> QED  BY <2>4 DEF ran, owed
  <1>4. Typed'
    <2>1. real' = [c \in Channel |-> real'[c]]
      BY DEF Tick
    <2>2. real' \in [Channel -> RealRecord]
      BY <1>3, <2>1
    <2> QED  BY <1>1, <1>2, <2>2, Constants DEF Typed
  <1>5. DwellKept'
    <2> SUFFICES ASSUME NEW c \in Channel
                 PROVE  /\ real'[c].owed > 0 =>
                              win[c].dwell = ((tick + 1) + real'[c].owed) % Word
                        /\ real'[c].owed = 0 /\ tick + 1 < Half => win[c].dwell <= tick + 1
      BY <1>1 DEF DwellKept
    <2>1. real[c].owed \in Nat /\ win[c].dwell \in Nat
      BY <1>1, FieldsOf, Constants, WordSize DEF RealRecord, WindowRecord
    <2>2. CASE real[c].owed > 0
      <3>1. win[c].dwell = (tick + real[c].owed) % Word /\ real'[c].owed = real[c].owed - 1
        BY <1>3, <2>2 DEF ClockInv, DwellKept
      <3>2. (tick + 1) + real'[c].owed = tick + real[c].owed
        BY <1>2, <2>1, <3>1
      <3>3. tick + 1 < Half => (tick + 1) % Word = tick + 1
        BY <1>2, SmallReads, WordSize
      <3>4. real'[c].owed = 0 => tick + real[c].owed = tick + 1
        BY <1>2, <2>1, <3>1
      <3> QED  BY <1>2, <2>1, <3>1, <3>2, <3>3, <3>4
    <2>3. CASE real[c].owed = 0
      BY <1>2, <1>3, <2>1, <2>3, WordSize DEF ClockInv, DwellKept
    <2> QED  BY <2>1, <2>2, <2>3
  <1>6. MoveKept'
    <2> SUFFICES ASSUME NEW c \in Channel
                 PROVE  /\ real'[c].moved <= tick + 1
                        /\ tick + 1 < Word => win[c].moveEnd = real'[c].moved
      BY <1>1 DEF MoveKept
    <2>1. real[c].moved \in Nat /\ real[c].moved <= tick
          /\ (tick < Word => win[c].moveEnd = real[c].moved)
      BY <1>1, FieldsOf DEF ClockInv, MoveKept, RealRecord
    <2> QED  BY <1>2, <1>3, <2>1, WordSize
  <1>7. ASSUME NEW c \in Channel, NEW deadline, win[c].st \in MovingStates, Timed(c, deadline)
        PROVE  /\ deadline = ((tick + 1) + (Travel[c] - real'[c].ran)) % Word
               /\ real'[c].ran < Travel[c] + (late + 1)
    <2>1. real'[c].ran = real[c].ran + 1 /\ real[c].ran \in Nat /\ Travel[c] \in Nat
      BY <1>1, <1>3, <1>7, FieldsOf DEF RealRecord
    <2>2. (tick + 1) + (Travel[c] - real'[c].ran) = tick + (Travel[c] - real[c].ran)
      BY <1>2, <2>1
    <2> QED  BY <1>2, <1>7, <2>1, <2>2 DEF Timed, ToGo
  <1>8. DriveKept'
    <2>1. \A c \in Channel : win[c].st \in GapStates => real'[c].ran = 0
      BY <1>3 DEF ClockInv, DriveKept, GapStates, MovingStates
    <2>2. ASSUME ~sweep.on, NEW c \in Channel, win[c].st \in MovingStates, ~real'[c].wraps
          PROVE  Timed(c, win[c].relay)
      BY <1>3, <2>2 DEF ClockInv, DriveKept
    <2> QED  BY <1>1, <1>7, <2>1, <2>2 DEF DriveKept, Timed, ToGo
  <1>9. SweepKept'
    <2> SUFFICES ASSUME sweep.on
                 PROVE  /\ \A c \in InHand :
                              /\ sweep.due[c] =
                                    ((tick + 1) + (Travel[c] - real'[c].ran)) % Word
                              /\ real'[c].ran < Travel[c] + (late + 1)
                        /\ \A c, d \in InHand :
                              /\ real'[c].ran = real'[d].ran
                              /\ ~real'[c].wraps =>
                                    sweep.due[d] - sweep.due[c] = Travel[d] - Travel[c]
      BY <1>1 DEF ClockInv, SweepKept, InHand, Timed, ToGo
    <2>1. ASSUME NEW c \in InHand
          PROVE  /\ c \in Channel /\ Timed(c, sweep.due[c]) /\ win[c].st \in MovingStates
                 /\ real'[c].ran = real[c].ran + 1 /\ real'[c].wraps = real[c].wraps
      <3>1. c \in Channel
        BY DEF InHand
      <3>2. Timed(c, sweep.due[c]) /\ win[c].st \in MovingStates
        BY DEF ClockInv, SweepKept, MovingStates
      <3> QED  BY <1>3, <3>1, <3>2
    <2>2. \A c \in InHand : /\ sweep.due[c] = ((tick + 1) + (Travel[c] - real'[c].ran)) % Word
                            /\ real'[c].ran < Travel[c] + (late + 1)
      BY <1>7, <2>1
    <2>3. ASSUME NEW c \in InHand, NEW d \in InHand
          PROVE  /\ real'[c].ran = real'[d].ran
                 /\ ~real'[c].wraps =>
                       sweep.due[d] - sweep.due[c] = Travel[d] - Travel[c]
      <3>1. /\ real[c].ran = real[d].ran
            /\ ~real[c].wraps => sweep.due[d] - sweep.due[c] = Travel[d] - Travel[c]
        BY DEF ClockInv, SweepKept
      <3> QED  BY <2>1, <3>1
    <2> QED  BY <2>2, <2>3
  <1> QED  BY <1>4, <1>5, <1>6, <1>8, <1>9 DEF ClockInv

-----------------------------------------------------------------------------
(* The properties.                                                           *)

LEMMA InitHolds ==
    ASSUME Init
    PROVE  ClockInv
  <1>1. /\ tick = 0 /\ late = 0 /\ sweep.on = FALSE
        /\ 0 \in 0..Word-1 /\ 0 \in 0..Dwell /\ 0 \in 0..Uptime /\ 0 \in 0..Late
    BY WordSize, Constants DEF Init
  <1>2. win \in [Channel -> WindowRecord] /\ real \in [Channel -> RealRecord]
    BY <1>1 DEF Init, WindowRecord, RealRecord, EndStates
  <1>3. sweep \in SweepRecord
    BY <1>1 DEF Init, SweepRecord
  <1>4. \A c \in Channel : /\ win[c].st = "CLOSED" /\ win[c].dwell = 0 /\ win[c].moveEnd = 0
                           /\ real[c].owed = 0 /\ real[c].moved = 0
    BY DEF Init
  <1> QED  BY <1>1, <1>2, <1>3, <1>4
           DEF ClockInv, Typed, DwellKept, MoveKept, DriveKept, SweepKept,
               GapStates, MovingStates

LEMMA StepKeeps ==
    ASSUME ClockInv, [Next]_vars
    PROVE  ClockInv'
  <1>1. CASE UNCHANGED vars
    BY <1>1 DEF vars, ClockInv, Typed, DwellKept, MoveKept, DriveKept, SweepKept, InHand,
                Timed, ToGo
  <1>2. CASE Next
    BY <1>2, PassKeeps, ClearKeeps, SweepStartKeeps, SweepPollKeeps, TickKeeps, CommandKeeps
       DEF Next
  <1> QED  BY <1>1, <1>2

(* Every deadline says how long its timer still runs, by the reading of a    *)
(* clock that wraps: the inductive invariant.                                *)
THEOREM ClockInductive == Spec => []ClockInv
  <1>1. Init => ClockInv
    BY InitHolds
  <1>2. ClockInv /\ [Next]_vars => ClockInv'
    BY StepKeeps
  <1> QED  BY <1>1, <1>2, PTL DEF Spec

(* Every deadline fits the clock's word, and T2 is never later than Late.    *)
THEOREM ClockTypes == Spec => []TypeOK
  <1>1. ClockInv => TypeOK
    <2> SUFFICES ASSUME Typed
                 PROVE  TypeOK
      BY DEF ClockInv
    <2>1. \A c \in Channel : real[c].ran \in Nat /\ real[c].owed \in 0..Dwell
      BY DEF Typed, RealRecord
    <2> QED  BY <2>1 DEF Typed, TypeOK, WindowRecord, SweepRecord
  <1> QED  BY <1>1, ClockInductive, PTL

(* A dwell that is still owed is found pending by ch_start_open() and        *)
(* ch_start_close() of relay_controller.cpp, wherever the clock wraps.       *)
THEOREM DwellIsHonoured == Spec => []DwellHonoured
  <1>1. ClockInv => DwellHonoured
    <2> SUFFICES ASSUME ClockInv, NEW c \in Channel, real[c].owed > 0
                 PROVE  Pending(win[c].dwell)
      BY DEF DwellHonoured
    <2>1. win[c].dwell = (tick + real[c].owed) % Word
      BY DEF ClockInv, DwellKept
    <2>2. tick \in Nat /\ real[c].owed \in 0..Dwell
      BY FieldsOf DEF ClockInv, RealRecord
    <2>3. real[c].owed \in Int /\ -Half < real[c].owed /\ real[c].owed < Half
      BY <2>2, Constants, WordSize
    <2> QED  BY <2>1, <2>2, <2>3, PendingIsToCome
  <1> QED  BY <1>1, ClockInductive, PTL

(* While the clock is young T6 is refused for no dwell but one owed, and     *)
(* t2_ms_since_move() tells the true time since the last move.               *)
THEOREM EarlyReadsRight == Spec => []EarlyReadsAreRight
  <1>1. ClockInv => EarlyReadsAreRight
    <2> SUFFICES ASSUME ClockInv, NEW c \in Channel
                 PROVE  /\ tick < Half /\ Pending(win[c].dwell) => real[c].owed > 0
                        /\ tick < Word
                              => SinceMove(c) = IF real[c].moved = 0 THEN Word - 1
                                               ELSE tick - real[c].moved
      BY DEF EarlyReadsAreRight
    <2>1. /\ tick \in Nat /\ real[c].owed \in 0..Dwell /\ real[c].moved \in Nat
          /\ win[c].dwell \in 0..Word-1 /\ Dwell \in Nat
      BY FieldsOf, Constants DEF ClockInv, RealRecord, WindowRecord
    <2>2. tick < Half /\ real[c].owed = 0 => ~Pending(win[c].dwell)
      <3> SUFFICES ASSUME tick < Half, real[c].owed = 0
                   PROVE  ~Pending(win[c].dwell)
        OBVIOUS
      <3>1. win[c].dwell <= tick
        BY DEF ClockInv, DwellKept
      <3>2. Now = tick
        BY <2>1, NowReads, WordSize
      <3>3. /\ tick - win[c].dwell \in Nat /\ tick - win[c].dwell < Word
            /\ tick - win[c].dwell < Half
        BY <2>1, <3>1, WordSize
      <3>4. (tick - win[c].dwell) % Word = tick - win[c].dwell
        BY <3>3, SmallReads
      <3> QED  BY <2>1, <3>2, <3>3, <3>4, WordSize DEF Pending
    <2>3. tick < Word => SinceMove(c) = IF real[c].moved = 0 THEN Word - 1
                                                            ELSE tick - real[c].moved
      <3> SUFFICES ASSUME tick < Word
                   PROVE  SinceMove(c) = IF real[c].moved = 0 THEN Word - 1
                                                             ELSE tick - real[c].moved
        OBVIOUS
      <3>1. win[c].moveEnd = real[c].moved /\ real[c].moved <= tick
        BY DEF ClockInv, MoveKept
      <3>2. Now = tick
        BY <2>1, NowReads
      <3>3. tick - real[c].moved \in Nat /\ tick - real[c].moved < Word
        BY <2>1, <3>1, WordSize
      <3>4. (tick - real[c].moved) % Word = tick - real[c].moved
        BY <3>3, SmallReads
      <3> QED  BY <3>1, <3>2, <3>4 DEF SinceMove
    <2> QED  BY <2>1, <2>2, <2>3
  <1> QED  BY <1>1, ClockInductive, PTL

(* A drive that ch_update() or calib_close_all() reports complete has run    *)
(* its travel time and at most one look longer, but for the sweep about the  *)
(* wrap.                                                                     *)
THEOREM DrivesAreWholeAlways == Spec => DrivesAreWhole
  <1> DEFINE Wholly == \A c \in Channel : Lands(c) => Whole(c) \/ real[c].wraps
  <1>1. ASSUME ClockInv, Next
        PROVE  Wholly
    <2> SUFFICES ASSUME NEW c \in Channel, Lands(c), ~real[c].wraps
                 PROVE  Whole(c)
      OBVIOUS
    <2>1. Typed /\ win[c].st \in MovingStates /\ win'[c].st \in EndStates
      BY <1>1 DEF ClockInv, Lands
    <2>2. win'[c].st \notin MovingStates
      BY <2>1 DEF MovingStates, EndStates
    <2>3. CASE Pass
      <3>1. ~sweep.on /\ (~Due(c) => win'[c].st = Update(c).st)
        BY <2>3 DEF Pass
      <3>2. Due(c)
        BY <2>1, <2>2, <3>1 DEF Update, MovingStates, GapStates
      <3>3. Timed(c, win[c].relay)
        BY <1>1, <2>1, <3>1 DEF ClockInv, DriveKept
      <3> QED  BY <2>1, <3>2, <3>3, DueIsWhole DEF Due
    <2>4. CASE SweepPoll
      <3>1. sweep.on /\ c \in InHand /\ ~Pending(sweep.due[c])
        BY <2>1, <2>2, <2>4, <1>1 DEF SweepPoll, InHand, ClockInv, SweepKept
      <3>2. Timed(c, sweep.due[c])
        BY <1>1, <3>1 DEF ClockInv, SweepKept
      <3> QED  BY <2>1, <3>1, <3>2, DueIsWhole
    <2>5. ASSUME NEW d \in Driven, NEW dir \in Directions, NEW src \in {"T6", "operator"},
                 Command(d, dir, src)
          PROVE  FALSE
      <3>1. d \in Channel /\ win[d] \in WindowRecord /\ win \in [Channel -> WindowRecord]
        BY <2>1, Constants DEF Typed
      <3>2. CASE c # d
        <4>1. win'[c] = win[c]
          BY <2>5, <3>1, <3>2 DEF Command
        <4> QED  BY <2>1, <2>2, <4>1
      <3>3. CASE c = d
        <4>1. win'[d] = [win[d] EXCEPT !.st = GapTo[dir], !.gap = After(Gap)]
          BY <2>1, <2>5, <3>1, <3>3 DEF Command, MovingStates, GapStates
        <4>2. win'[d].st = GapTo[dir]
          BY <3>1, <4>1 DEF WindowRecord
        <4> QED  BY <2>1, <3>3, <4>2 DEF GapTo, EndStates, Directions
      <3> QED  BY <3>2, <3>3
    <2>6. CASE ClearDwell
      <3>1. win'[c] = [win[c] EXCEPT !.dwell = 0] /\ win[c] \in WindowRecord
        BY <2>1, <2>6 DEF ClearDwell, Typed
      <3> QED  BY <2>1, <2>2, <3>1 DEF WindowRecord
    <2>7. CASE SweepStart
      <3>1. win'[c] = [win[c] EXCEPT !.st = "MOVING_CLOSE"] /\ win[c] \in WindowRecord
        BY <2>1, <2>7 DEF SweepStart, Typed
      <3> QED  BY <2>2, <3>1 DEF WindowRecord, MovingStates
    <2>8. CASE Tick
      BY <2>1, <2>2, <2>8 DEF Tick
    <2> QED  BY <1>1, <2>3, <2>4, <2>5, <2>6, <2>7, <2>8 DEF Next
  <1>2. Spec => [][Wholly]_vars
    BY <1>1, ClockInductive, PTL DEF Spec
  <1> QED  BY <1>2 DEF DrivesAreWhole
===============================================================================
