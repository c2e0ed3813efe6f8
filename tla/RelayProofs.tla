----------------------------- MODULE RelayProofs -----------------------------
(* What TLAPS proves of RelayController, for every number of windows, every *)
(* travel time, gap, dwell, pulse and lead, and every stream of commands.   *)
EXTENDS RelayController, ChannelProofs

(* The invariant of the whole task.  Beyond the channels it says where T2   *)
(* may be while windows are unknown, which is what lets the alarm's         *)
(* suspension and the known positions of the working loop be proved.        *)
Lost(c) == c.st = "UNKNOWN"

RelayInv ==
    /\ TypeOK
    /\ \A c \in Channel : ChannelInv(ch[c], leaf[c])
    /\ "MOTOR_ALARM" \in eg \/ pc \in {"boot", "guard"} => \A c \in Channel : Lost(ch[c])
    /\ KnownWhenWorking
    /\ pc \in {"boot", "sweep", "sweeping", "guard"} => "MOTOR_ALARM" \notin eg
    /\ pc = "boot" => eg = {}
    /\ pc = "sweeping" => \A c \in Channel : InSweep(ch[c])
    /\ pc = "guard" => guard # 0

(* A unit as commissioned, which has stored nothing, satisfies it. *)
LEMMA InitInv == Init => RelayInv
  <1> SUFFICES ASSUME Init PROVE RelayInv
    OBVIOUS
  <1>1. \A c \in Channel : leaf[c] \in 0..Stroke
    BY DEF Init
  <1>2. PoweredOn("UNKNOWN", 0) \in ChannelRecord
    BY DEF PoweredOn, ChannelRecord, States, EndStates, Sources
  <1>3. \A c \in Channel : ChannelInv(ch[c], leaf[c]) /\ Lost(ch[c])
    BY <1>1, <1>2 DEF Init, ChannelInv, PoweredOn, Moving, InGap, Lost
  <1>4. TypeOK
    <2>1. ch \in [Channel -> ChannelRecord] /\ leaf \in [Channel -> 0..Stroke]
      BY <1>1, <1>2 DEF Init
    <2>2. FlagsOK
      BY Zenon DEF Init, FlagsOK
    <2>3. ControlOK
      BY GuardAssumption DEF Init, ControlOK
    <2> QED  BY <2>1, <2>2, <2>3 DEF TypeOK
  <1> QED  BY <1>3, <1>4 DEF Init, RelayInv, KnownWhenWorking

(* A running motor is let go or left alone. *)
NoReversal == \A c \in Channel : ch[c].relay # "off" => ch'[c].relay \in {"off", ch[c].relay}

(* The typed part of the next state, from the channels' part and the flags. *)
LEMMA NextTyped ==
    ASSUME ch' = [c \in Channel |-> ch'[c]], leaf' = [c \in Channel |-> leaf'[c]],
           \A c \in Channel : ChannelInv(ch'[c], leaf'[c]),
           FlagsOK', ControlOK'
    PROVE  TypeOK'
  <1>1. /\ ch' \in [Channel -> ChannelRecord]
        /\ leaf' \in [Channel -> 0..Stroke]
    BY DEF ChannelInv
  <1> QED  BY <1>1 DEF TypeOK

(* The alarm's onset, from wherever it is taken. *)
LEMMA OnsetSuspends ==
    ASSUME RelayInv, Onset, leaf' = leaf
    PROVE  /\ ch' = [c \in Channel |-> ch'[c]]
           /\ \A c \in Channel : ChannelInv(ch'[c], leaf'[c]) /\ Lost(ch'[c])
           /\ eg' = {"MOTOR_ALARM"}
           /\ NoReversal
  <1>1. PICK ok \in [Channel -> NvsWrites] : ch' = [c \in Channel |-> Suspend(ch[c], ok[c])]
    BY DEF Onset
  <1>2. \A c \in Channel : ChannelInv(ch'[c], leaf'[c]) /\ Lost(ch'[c])
    BY <1>1, SuspendKeeps DEF RelayInv, Lost
  <1>3. \A c \in Channel : ch'[c].relay = "off"
    BY <1>2 DEF ChannelInv, Lost, Moving
  <1> QED  BY <1>1, <1>2, <1>3 DEF Onset, NoReversal

(* What every command that moves windows leaves to be shown. *)
LEMMA CommandKeeps ==
    ASSUME RelayInv, Drains, UNCHANGED Rest, ch' = [c \in Channel |-> ch'[c]],
           \A c \in Channel : ChannelInv(ch'[c], leaf[c]) /\ Steady(ch[c], ch'[c])
    PROVE  RelayInv' /\ NoReversal
  <1>1. /\ UNCHANGED <<leaf, eg, pin, edge, quiet, late, debt, pc, ret, guard>>
        /\ leaf' = [c \in Channel |-> leaf'[c]]
        /\ pc = "drain" /\ "MOTOR_ALARM" \notin eg
    BY DEF Rest, alarmVars, Drains, RelayInv, TypeOK
  <1>2. FlagsOK'
    BY <1>1, Zenon DEF RelayInv, TypeOK, FlagsOK
  <1>3. ControlOK'
    BY <1>1 DEF RelayInv, TypeOK, ControlOK
  <1>4. TypeOK'
    BY <1>1, <1>2, <1>3, NextTyped
  <1>5. \A c \in Channel : ch'[c].st # "UNKNOWN"
    BY <1>1 DEF RelayInv, KnownWhenWorking, Steady
  <1> QED  BY <1>1, <1>4, <1>5 DEF RelayInv, KnownWhenWorking, NoReversal, Steady

(* A command to one window. *)
LEMMA OneKeeps ==
    ASSUME RelayInv, Drains, UNCHANGED Rest, NEW w \in Channel, NEW k,
           ch' = [ch EXCEPT ![w] = k], ChannelInv(k, leaf[w]), Steady(ch[w], k)
    PROVE  RelayInv' /\ NoReversal
  <1>1. \A c \in Channel : ChannelInv(ch'[c], leaf[c]) /\ Steady(ch[c], ch'[c])
    BY DEF RelayInv, TypeOK, Steady
  <1>2. ch' = [c \in Channel |-> ch'[c]]
    BY DEF RelayInv, TypeOK
  <1> QED  BY <1>1, <1>2, CommandKeeps

(* A step that touches no channel and keeps the rest of the invariant. *)
LEMMA QuietKeeps ==
    ASSUME RelayInv, UNCHANGED <<ch, leaf>>, FlagsOK', ControlOK',
           eg' \subseteq eg,
           "MOTOR_ALARM" \in eg' \/ pc' \in {"boot", "guard"} =>
                "MOTOR_ALARM" \in eg \/ pc \in {"boot", "guard"},
           pc' \in {"top", "alarm", "update", "drain"} /\ "MOTOR_ALARM" \notin eg' =>
                pc \in {"top", "alarm", "update", "drain"} /\ "MOTOR_ALARM" \notin eg,
           pc' \in {"boot", "sweep", "sweeping", "guard"} => "MOTOR_ALARM" \notin eg',
           pc' = "boot" => pc = "boot",
           pc' = "sweeping" => pc = "sweeping",
           pc' = "guard" => guard' # 0
    PROVE  RelayInv' /\ NoReversal
  <1>1. /\ ch' = [c \in Channel |-> ch'[c]] /\ leaf' = [c \in Channel |-> leaf'[c]]
        /\ \A c \in Channel : ChannelInv(ch'[c], leaf'[c])
    BY DEF RelayInv, TypeOK
  <1>2. TypeOK'
    BY <1>1, NextTyped
  <1>3. NoReversal
    BY DEF NoReversal
  <1>4. KnownWhenWorking'
    BY DEF RelayInv, KnownWhenWorking
  <1>5. pc' = "boot" => eg' = {}
    BY DEF RelayInv
  <1> QED  BY <1>1, <1>2, <1>3, <1>4, <1>5 DEF RelayInv

(* Every step keeps the invariant, and none but the start of a sweep turns  *)
(* a running motor round.                                                   *)
LEMMA StepInv ==
    ASSUME RelayInv, [Next]_vars
    PROVE  RelayInv' /\ (SweepStart \/ NoReversal)
  <1> USE DEF Lost
  <1>b. /\ ch = [c \in Channel |-> ch[c]] /\ leaf = [c \in Channel |-> leaf[c]]
        /\ \A c \in Channel : ChannelInv(ch[c], leaf[c])
        /\ FlagsOK /\ ControlOK
    BY DEF RelayInv, TypeOK
  <1>s. CASE UNCHANGED vars
    <2>1. UNCHANGED <<ch, leaf, eg, pin, edge, quiet, late, debt, pc, ret, guard>>
      BY <1>s DEF vars
    <2>2. FlagsOK'
      BY <1>b, <2>1, Zenon DEF FlagsOK
    <2>3. ControlOK'
      BY <1>b, <2>1 DEF ControlOK
    <2> QED  BY <2>1, <2>2, <2>3, QuietKeeps DEF RelayInv
  <1>1. CASE BootAlarmed
    <2>1. Onset /\ leaf' = leaf /\ pc' = "top"
          /\ UNCHANGED <<pin, edge, quiet, late, debt, ret, guard>>
      BY <1>1 DEF BootAlarmed
    <2>2. /\ ch' = [c \in Channel |-> ch'[c]] /\ NoReversal /\ eg' = {"MOTOR_ALARM"}
          /\ \A c \in Channel : ChannelInv(ch'[c], leaf'[c]) /\ Lost(ch'[c])
      BY <2>1, OnsetSuspends
    <2>3. FlagsOK'
      BY <1>b, <2>1, Zenon DEF FlagsOK
    <2>4. ControlOK'
      BY <1>b, <2>1, <2>2 DEF ControlOK
    <2>5. TypeOK'
      BY <1>b, <2>1, <2>2, <2>3, <2>4, NextTyped
    <2> QED  BY <2>1, <2>2, <2>5 DEF RelayInv, KnownWhenWorking
  <1>2. CASE BootRecovered
    <2> DEFINE k(c) == [ch[c] EXCEPT !.st = "CLOSED"]
    <2>1. /\ ch' = [c \in Channel |-> k(c)] /\ pc' = "top" /\ pc = "boot"
          /\ \A c \in Channel : ch[c].nvs = "CLOSED" /\ ch[c].st = "UNKNOWN"
          /\ UNCHANGED <<leaf, eg, pin, edge, quiet, late, debt, ret, guard>>
      BY <1>2 DEF BootRecovered, alarmVars, RelayInv
    <2>2. ASSUME NEW c \in Channel
          PROVE  ChannelInv(ch'[c], leaf'[c]) /\ ch'[c].st = "CLOSED" /\ ch[c].relay = "off"
      <3>1. /\ ch[c] \in ChannelRecord /\ ch[c].relay = "off" /\ ch[c].aim = NoTarget
            /\ NvsReliable => leaf[c] = 0
        BY <1>b, <2>1 DEF ChannelInv, Moving, InGap
      <3>2. /\ k(c) \in ChannelRecord /\ k(c).st = "CLOSED" /\ k(c).relay = "off"
            /\ k(c).aim = NoTarget /\ k(c).nvs = ch[c].nvs
        BY <3>1 DEF ChannelRecord, States
      <3>3. ChannelInv(k(c), leaf[c])
        <4> HIDE DEF k
        <4> QED  BY <1>b, <3>1, <3>2 DEF ChannelInv, Moving, InGap
      <3> QED  BY <2>1, <3>1, <3>2, <3>3
    <2>3. FlagsOK'
      BY <1>b, <2>1, Zenon DEF FlagsOK
    <2>4. ControlOK'
      BY <1>b, <2>1 DEF ControlOK
    <2>5. TypeOK'
      BY <1>b, <2>1, <2>2, <2>3, <2>4, NextTyped
    <2> QED  BY <2>1, <2>2, <2>5 DEF RelayInv, KnownWhenWorking, NoReversal
  <1>3. CASE BootCalibrate
    <2>1. /\ pc = "boot" /\ pc' = "sweep" /\ ret' = "top"
          /\ UNCHANGED <<ch, leaf, eg, pin, edge, quiet, late, debt, guard>>
      BY <1>3 DEF BootCalibrate, alarmVars
    <2>2. FlagsOK'
      BY <1>b, <2>1, Zenon DEF FlagsOK
    <2>3. ControlOK'
      BY <1>b, <2>1 DEF ControlOK
    <2> QED  BY <2>1, <2>2, <2>3, QuietKeeps DEF RelayInv
  <1>4. CASE SweepStart
    <2>1. PICK t \in [Channel -> Travels], ok \in [Channel -> NvsWrites] :
              ch' = [c \in Channel |-> Sweep(ch[c], t[c], ok[c])]
      BY <1>4 DEF SweepStart
    <2>2. /\ pc = "sweep" /\ pc' = "sweeping" /\ eg' = eg \cup {"CALIBRATING"}
          /\ UNCHANGED <<leaf, pin, edge, quiet, late, debt, ret, guard>>
      BY <1>4 DEF SweepStart, alarmVars
    <2>3. \A c \in Channel : ChannelInv(ch'[c], leaf'[c]) /\ InSweep(ch'[c])
      BY <1>b, <2>1, <2>2, SweepKeeps
    <2>4. FlagsOK'
      BY <1>b, <2>2, Zenon DEF FlagsOK
    <2>5. ControlOK'
      BY <1>b, <2>2 DEF ControlOK
    <2>6. TypeOK'
      BY <1>b, <2>1, <2>2, <2>3, <2>4, <2>5, NextTyped
    <2>7. "MOTOR_ALARM" \notin eg'
      BY <2>2 DEF RelayInv
    <2> QED  BY <1>4, <2>2, <2>3, <2>6, <2>7 DEF RelayInv, KnownWhenWorking
  <1>5. CASE SweepPoll
    <2>1. PICK d \in [Channel -> Dwells], ok \in [Channel -> NvsWrites] :
              ch' = [c \in Channel |-> Swept(ch[c], d[c], ok[c])]
      BY <1>5 DEF SweepPoll
    <2>2. /\ pc = "sweeping" /\ eg' \subseteq eg
          /\ \/ /\ \A c \in Channel : ch'[c].st = "CLOSED"
                /\ pc' = ret /\ ret' = "top"
             \/ pc' = pc /\ ret' = ret
          /\ UNCHANGED <<leaf, pin, edge, quiet, late, debt, guard>>
      BY <1>5 DEF SweepPoll, alarmVars
    <2>3. \A c \in Channel : /\ ChannelInv(ch'[c], leaf'[c]) /\ InSweep(ch'[c])
                             /\ ch[c].relay # "off" => ch'[c].relay \in {"off", ch[c].relay}
      <3>1. TAKE c \in Channel
      <3>2. ChannelInv(ch[c], leaf[c]) /\ InSweep(ch[c]) /\ ch'[c] = Swept(ch[c], d[c], ok[c])
            /\ d[c] \in Dwells
        BY <1>b, <2>1, <2>2 DEF RelayInv
      <3>3. ChannelInv(ch'[c], leaf'[c]) /\ InSweep(ch'[c])
        BY <2>2, <3>2, SweptKeeps
      <3>4. \/ ch'[c] = ch[c] \/ ch'[c].st = "CLOSED"
        BY <3>2 DEF Swept, ChannelInv, ChannelRecord
      <3>5. ch'[c].relay \in {"off", ch[c].relay}
        BY <3>3, <3>4 DEF ChannelInv, Moving
      <3> QED  BY <3>3, <3>5
    <2>4. FlagsOK'
      BY <1>b, <2>2, Zenon DEF FlagsOK
    <2>5. ControlOK'
      BY <1>b, <2>2 DEF ControlOK
    <2>6. TypeOK'
      BY <1>b, <2>1, <2>2, <2>3, <2>4, <2>5, NextTyped
    <2>7. "MOTOR_ALARM" \notin eg' /\ pc' \in {"sweeping", "top", "update", "drain"}
      BY <1>b, <2>2 DEF RelayInv, ControlOK
    <2>8. pc' # "sweeping" => \A c \in Channel : ch'[c].st # "UNKNOWN"
      BY <2>2
    <2> QED  BY <2>3, <2>6, <2>7, <2>8 DEF RelayInv, KnownWhenWorking, NoReversal
  <1>6. CASE AlarmSeen
    <2>1. /\ pc \in {"sweep", "sweeping", "guard"} /\ pc' = "trip"
          /\ UNCHANGED <<ch, leaf, eg, pin, edge, quiet, late, debt, ret, guard>>
      BY <1>6 DEF AlarmSeen, alarmVars
    <2>2. FlagsOK'
      BY <1>b, <2>1, Zenon DEF FlagsOK
    <2>3. ControlOK'
      BY <1>b, <2>1 DEF ControlOK
    <2> QED  BY <2>1, <2>2, <2>3, QuietKeeps DEF RelayInv
  <1>7. CASE Trip
    <2>1. /\ Onset /\ leaf' = leaf /\ pc' = ret /\ ret' = "top" /\ guard' = 0
          /\ edge' = FALSE /\ UNCHANGED <<pin, quiet, late, debt>>
      BY <1>7 DEF Trip
    <2>2. /\ ch' = [c \in Channel |-> ch'[c]] /\ NoReversal /\ eg' = {"MOTOR_ALARM"}
          /\ \A c \in Channel : ChannelInv(ch'[c], leaf'[c]) /\ Lost(ch'[c])
      BY <2>1, OnsetSuspends
    <2>3. FlagsOK'
      BY <1>b, <2>1, Zenon DEF FlagsOK
    <2>4. ControlOK' /\ pc' \in {"top", "update", "drain"}
      BY <1>b, <2>1, <2>2, GuardAssumption DEF ControlOK
    <2>5. TypeOK'
      BY <1>b, <2>1, <2>2, <2>3, <2>4, NextTyped
    <2> QED  BY <2>2, <2>4, <2>5 DEF RelayInv, KnownWhenWorking
  <1>8. CASE Top
    <2>1. /\ pc = "top" /\ pc' = "alarm"
          /\ ch' = IF debt THEN [c \in Channel |-> [ch[c] EXCEPT !.dwell = 0]] ELSE ch
          /\ debt' = FALSE /\ late' = FALSE
          /\ UNCHANGED <<leaf, eg, pin, edge, quiet, ret, guard>>
      BY <1>8 DEF Top
    <2>2. ASSUME NEW c \in Channel
          PROVE  /\ ChannelInv(ch'[c], leaf'[c])
                 /\ ch'[c].st = ch[c].st /\ ch'[c].relay = ch[c].relay
      <3> DEFINE k == [ch[c] EXCEPT !.dwell = 0]
      <3>1. ChannelInv(ch[c], leaf[c]) /\ ch[c] \in ChannelRecord
        BY <1>b DEF ChannelInv
      <3>2. /\ k \in ChannelRecord /\ k.st = ch[c].st /\ k.relay = ch[c].relay
            /\ k.left = ch[c].left /\ k.nvs = ch[c].nvs /\ k.aim = ch[c].aim
        BY <3>1 DEF ChannelRecord
      <3>3. ChannelInv(k, leaf[c])
        BY <3>1, <3>2, Bookkeeping
      <3>4. ch'[c] = k \/ ch'[c] = ch[c]
        BY <2>1
      <3> QED  BY <2>1, <3>1, <3>2, <3>3, <3>4
    <2>3. FlagsOK'
      BY <1>b, <2>1, Zenon DEF FlagsOK
    <2>4. ControlOK'
      BY <1>b, <2>1 DEF ControlOK
    <2>5. ch' = [c \in Channel |-> ch'[c]]
      BY <1>b, <2>1
    <2>6. TypeOK'
      BY <1>b, <2>1, <2>2, <2>3, <2>4, <2>5, NextTyped
    <2> QED  BY <2>1, <2>2, <2>6 DEF RelayInv, KnownWhenWorking, NoReversal
  <1>9. CASE AlarmQuiet
    <2>1. /\ pc = "alarm" /\ pc' = "update"
          /\ UNCHANGED <<ch, leaf, eg, pin, edge, quiet, late, debt, ret, guard>>
      BY <1>9 DEF AlarmQuiet, alarmVars
    <2>2. FlagsOK'
      BY <1>b, <2>1, Zenon DEF FlagsOK
    <2>3. ControlOK'
      BY <1>b, <2>1 DEF ControlOK
    <2> QED  BY <2>1, <2>2, <2>3, QuietKeeps DEF RelayInv
  <1>10. CASE AlarmCheck
    <2>1. /\ pc = "alarm" /\ edge' = FALSE /\ UNCHANGED <<leaf, pin, quiet, late, debt>>
      BY <1>10 DEF AlarmCheck
    <2>2. FlagsOK'
      BY <1>b, <2>1, Zenon DEF FlagsOK
    <2>3. CASE pin /\ "MOTOR_ALARM" \notin eg
      <3>1. Onset /\ pc' = "update" /\ UNCHANGED <<ret, guard>>
        BY <1>10, <2>3 DEF AlarmCheck
      <3>2. /\ ch' = [c \in Channel |-> ch'[c]] /\ NoReversal /\ eg' = {"MOTOR_ALARM"}
            /\ \A c \in Channel : ChannelInv(ch'[c], leaf'[c]) /\ Lost(ch'[c])
        BY <2>1, <3>1, OnsetSuspends
      <3>3. ControlOK'
        BY <1>b, <3>1, <3>2 DEF ControlOK
      <3>4. TypeOK'
        BY <1>b, <2>1, <2>2, <3>2, <3>3, NextTyped
      <3> QED  BY <3>1, <3>2, <3>4 DEF RelayInv, KnownWhenWorking
    <2>4. CASE ~pin /\ "MOTOR_ALARM" \in eg
      <3>1. /\ eg' = eg \ {"MOTOR_ALARM"} /\ pc' = "guard" /\ guard' = GuardChunks
            /\ ret' = "update" /\ UNCHANGED ch
        BY <1>10, <2>4 DEF AlarmCheck
      <3>2. GuardChunks \in Nat /\ GuardChunks # 0
        BY GuardAssumption
      <3>3. ControlOK'
        BY <1>b, <3>1, <3>2 DEF ControlOK
      <3> QED  BY <2>1, <2>2, <2>4, <3>1, <3>2, <3>3, QuietKeeps
    <2>5. CASE (pin /\ "MOTOR_ALARM" \in eg) \/ (~pin /\ "MOTOR_ALARM" \notin eg)
      <3>1. pc' = "update" /\ UNCHANGED <<ch, eg, ret, guard>>
        BY <1>10, <2>5 DEF AlarmCheck
      <3>2. ControlOK'
        BY <1>b, <3>1 DEF ControlOK
      <3> QED  BY <2>1, <2>2, <3>1, <3>2, QuietKeeps
    <2> QED  BY <2>3, <2>4, <2>5
  <1>11. CASE GuardPoll
    <2>1. /\ pc = "guard" /\ guard' = guard - 1
          /\ pc' = IF guard = 1 THEN "sweep" ELSE "guard"
          /\ UNCHANGED <<ch, leaf, eg, pin, edge, quiet, late, debt, ret>>
      BY <1>11 DEF GuardPoll, alarmVars
    <2>2. guard \in 0..GuardChunks /\ guard # 0 /\ GuardChunks \in Nat
      BY <1>b, <2>1, GuardAssumption DEF RelayInv, ControlOK
    <2>3. FlagsOK'
      BY <1>b, <2>1, Zenon DEF FlagsOK
    <2>4. ControlOK' /\ (pc' = "guard" => guard' # 0)
      BY <1>b, <2>1, <2>2 DEF ControlOK
    <2>5. pc' \in {"sweep", "guard"} /\ "MOTOR_ALARM" \notin eg
      BY <2>1 DEF RelayInv
    <2> QED  BY <2>1, <2>3, <2>4, <2>5, QuietKeeps
  <1>12. CASE UpdateAll
    <2>1. PICK t \in [Channel -> Travels], d \in [Channel -> Dwells],
              reading \in {"fresh", "waiting", "lost"}, ok \in [Channel -> NvsWrites] :
              ch' = [c \in Channel |-> Update(ch[c], leaf[c], reading, t[c], d[c], ok[c])]
      BY <1>12 DEF UpdateAll
    <2>2. /\ pc = "update" /\ pc' = "drain"
          /\ UNCHANGED <<leaf, eg, pin, edge, quiet, late, debt, ret, guard>>
      BY <1>12 DEF UpdateAll, alarmVars
    <2>3. \A c \in Channel : /\ ChannelInv(ch'[c], leaf'[c]) /\ Steady(ch[c], ch'[c])
                             /\ Lost(ch[c]) => Lost(ch'[c])
      BY <1>b, <2>1, <2>2, UpdateKeeps
    <2>4. FlagsOK'
      BY <1>b, <2>2, Zenon DEF FlagsOK
    <2>5. ControlOK'
      BY <1>b, <2>2 DEF ControlOK
    <2>6. TypeOK'
      BY <1>b, <2>1, <2>2, <2>3, <2>4, <2>5, NextTyped
    <2> QED  BY <2>2, <2>3, <2>6 DEF RelayInv, KnownWhenWorking, NoReversal, Steady
  <1>13. ASSUME NEW cmd \in Commands, Process(cmd)
         PROVE  RelayInv' /\ NoReversal
    <2>0. /\ cmd.ch \in Channel /\ cmd.dir \in Directions /\ cmd.val \in Nat
          /\ cmd.src \in Sources
      BY CommandAssumption DEF Command
    <2>1. CASE Discard(cmd) \/ Resume(cmd)
      <3>1. UNCHANGED <<ch, leaf, eg, pin, edge, quiet, late, debt, pc, ret, guard>>
        BY <2>1 DEF Discard, Resume, vars
      <3>2. FlagsOK'
        BY <1>b, <3>1, Zenon DEF FlagsOK
      <3>3. ControlOK'
        BY <1>b, <3>1 DEF ControlOK
      <3> QED  BY <3>1, <3>2, <3>3, QuietKeeps DEF RelayInv
    <2>2. CASE CloseAll(cmd)
      <3>1. PICK t \in [Channel -> Travels], ok \in [Channel -> NvsWrites] :
                ch' = [c \in Channel |-> Start(ch[c], "close", cmd.src, t[c], ok[c])]
        BY <2>2 DEF CloseAll
      <3>2. Drains /\ UNCHANGED Rest /\ "close" \in Directions
        BY <2>2 DEF CloseAll, Directions
      <3>3. \A c \in Channel : ChannelInv(ch'[c], leaf[c]) /\ Steady(ch[c], ch'[c])
        BY <1>b, <2>0, <3>1, <3>2, StartKeeps
      <3> QED  BY <3>1, <3>2, <3>3, CommandKeeps
    <2>3. CASE Move(cmd)
      <3>1. PICK t \in Travels, ok \in NvsWrites :
                ch' = [ch EXCEPT ![cmd.ch] = Start(ch[cmd.ch], cmd.dir, cmd.src, t, ok)]
        BY <2>3 DEF Move
      <3>2. Drains /\ UNCHANGED Rest
        BY <2>3 DEF Move
      <3> QED  BY <1>b, <2>0, <3>1, <3>2, StartKeeps, OneKeeps
    <2>4. CASE Target(cmd)
      <3>1. PICK reading \in {"untaught", "untrusted", "trusted"}, lead \in Leads,
                 t \in Travels, ok \in NvsWrites :
                ch' = [ch EXCEPT ![M3] = StartTarget(ch[M3], leaf[M3], cmd.val, cmd.src,
                                                     reading, lead, t, ok)]
        BY <2>4 DEF Target
      <3>2. Drains /\ UNCHANGED Rest /\ M3 \in Channel
        BY <2>4, ChannelAssumption DEF Target
      <3> QED  BY <1>b, <2>0, <3>1, <3>2, StartTargetKeeps, OneKeeps
    <2>5. CASE PulseM3(cmd)
      <3>1. PICK w \in PulseTimes, t \in Travels, ok \in NvsWrites :
                ch' = [ch EXCEPT ![M3] = Pulse(ch[M3], cmd.dir, w, t, ok)]
        BY <2>5 DEF PulseM3
      <3>2. Drains /\ UNCHANGED Rest /\ M3 \in Channel
        BY <2>5, ChannelAssumption DEF PulseM3
      <3> QED  BY <1>b, <2>0, <3>1, <3>2, PulseKeeps, OneKeeps
    <2>6. CASE StopM3(cmd)
      <3>1. PICK d \in Dwells, ok \in NvsWrites :
                ch' = [ch EXCEPT ![M3] = Stop(ch[M3], cmd.src, d, ok)]
        BY <2>6 DEF StopM3
      <3>2. Drains /\ UNCHANGED Rest /\ M3 \in Channel
        BY <2>6, ChannelAssumption DEF StopM3
      <3> QED  BY <1>b, <3>1, <3>2, StopKeeps, OneKeeps
    <2>7. CASE Recalibrate(cmd)
      <3>1. /\ pc = "drain" /\ pc' = "sweep" /\ ret' = "drain" /\ "MOTOR_ALARM" \notin eg
            /\ UNCHANGED <<ch, leaf, eg, pin, edge, quiet, late, debt, guard>>
        BY <2>7 DEF Recalibrate, Drains, alarmVars
      <3>2. FlagsOK'
        BY <1>b, <3>1, Zenon DEF FlagsOK
      <3>3. ControlOK'
        BY <1>b, <3>1 DEF ControlOK
      <3> QED  BY <3>1, <3>2, <3>3, QuietKeeps
    <2> QED  BY <1>13, <2>1, <2>2, <2>3, <2>4, <2>5, <2>6, <2>7 DEF Process
  <1>14. CASE DrainDone
    <2>1. /\ pc = "drain" /\ pc' = "top"
          /\ UNCHANGED <<ch, leaf, eg, pin, edge, quiet, late, debt, ret, guard>>
      BY <1>14 DEF DrainDone, alarmVars
    <2>2. FlagsOK'
      BY <1>b, <2>1, Zenon DEF FlagsOK
    <2>3. ControlOK'
      BY <1>b, <2>1 DEF ControlOK
    <2> QED  BY <2>1, <2>2, <2>3, QuietKeeps
  <1>15. CASE Tick
    <2>1. /\ ch' = [c \in Channel |-> Elapse(ch[c])]
          /\ leaf' = [c \in Channel |-> MoveLeaf(leaf[c], ch[c].relay)]
          /\ UNCHANGED <<eg, pin, edge, quiet, late, debt, pc, ret, guard>>
      BY <1>15 DEF Tick, alarmVars
    <2>2. \A c \in Channel : /\ ChannelInv(ch'[c], leaf'[c]) /\ ch'[c].st = ch[c].st
                             /\ ch'[c].aim = ch[c].aim /\ ch'[c].relay = ch[c].relay
      BY <1>b, <2>1, ElapseKeeps
    <2>3. FlagsOK'
      BY <1>b, <2>1, Zenon DEF FlagsOK
    <2>4. ControlOK'
      BY <1>b, <2>1 DEF ControlOK
    <2>5. TypeOK'
      BY <2>1, <2>2, <2>3, <2>4, NextTyped
    <2> QED  BY <2>1, <2>2, <2>5
             DEF RelayInv, KnownWhenWorking, NoReversal, InSweep
  <1>16. CASE ContactMoves
    <2>1. /\ pin' = ~pin /\ UNCHANGED <<ch, leaf, eg, debt, pc, ret, guard>>
          /\ \/ UNCHANGED <<edge, quiet, late>>
             \/ edge' = TRUE /\ quiet' = TRUE /\ (late' \in BOOLEAN \/ late' = late)
      BY <1>16, Zenon DEF ContactMoves
    <2>2. FlagsOK'
      BY <1>b, <2>1, Zenon DEF FlagsOK
    <2>3. ControlOK'
      BY <1>b, <2>1 DEF ControlOK
    <2> QED  BY <2>1, <2>2, <2>3, QuietKeeps DEF RelayInv
  <1>17. CASE IsrOpens
    <2>1. /\ quiet' = FALSE
          /\ UNCHANGED <<ch, leaf, eg, pin, edge, late, debt, pc, ret, guard>>
      BY <1>17 DEF IsrOpens
    <2>2. FlagsOK'
      BY <1>b, <2>1, Zenon DEF FlagsOK
    <2>3. ControlOK'
      BY <1>b, <2>1 DEF ControlOK
    <2> QED  BY <2>1, <2>2, <2>3, QuietKeeps DEF RelayInv
  <1>18. CASE ClearDwell
    <2>1. /\ debt' = TRUE
          /\ UNCHANGED <<ch, leaf, eg, pin, edge, quiet, late, pc, ret, guard>>
      BY <1>18 DEF ClearDwell, alarmVars
    <2>2. FlagsOK'
      BY <1>b, <2>1, Zenon DEF FlagsOK
    <2>3. ControlOK'
      BY <1>b, <2>1 DEF ControlOK
    <2> QED  BY <2>1, <2>2, <2>3, QuietKeeps DEF RelayInv
  <1>19. CASE PowerLoss
    <2>1. /\ ch' = [c \in Channel |-> PoweredOn(ch[c].nvs, 0)]
          /\ eg' = {} /\ edge' = FALSE /\ quiet' = FALSE /\ late' = FALSE /\ debt' = FALSE
          /\ pc' = "boot" /\ ret' = "top" /\ guard' = 0
          /\ UNCHANGED <<leaf, pin>>
      BY <1>19 DEF PowerLoss
    <2>2. \A c \in Channel : ChannelInv(ch'[c], leaf'[c]) /\ Lost(ch'[c])
      BY <1>b, <2>1, PoweredOnKeeps
    <2>3. FlagsOK'
      BY <1>b, <2>1, Zenon DEF FlagsOK
    <2>4. ControlOK'
      BY <2>1, GuardAssumption DEF ControlOK
    <2>5. TypeOK'
      BY <1>b, <2>1, <2>2, <2>3, <2>4, NextTyped
    <2>6. NoReversal
      BY <2>2 DEF ChannelInv, Moving, NoReversal
    <2> QED  BY <2>1, <2>2, <2>5, <2>6 DEF RelayInv, KnownWhenWorking
  <1> QED  BY <1>s, <1>1, <1>2, <1>3, <1>4, <1>5, <1>6, <1>7, <1>8, <1>9, <1>10, <1>11,
              <1>12, <1>13, <1>14, <1>15, <1>16, <1>17, <1>18, <1>19
           DEF Next, T2Step, Environment

(* The inductive invariant holds in every reachable state. *)
THEOREM Inductive == Spec => []RelayInv
  <1>1. RelayInv /\ [Next]_vars => RelayInv'
    BY StepInv
  <1> QED  BY InitInv, <1>1, PTL DEF Spec

-----------------------------------------------------------------------------
(* What follows for the properties the runs check. *)

(* T2's variables keep their types. *)
THEOREM TypeCorrect == Spec => []TypeOK
  <1>1. RelayInv => TypeOK
    BY DEF RelayInv
  <1> QED  BY Inductive, <1>1, PTL

(* No path through the state machine leaves a relay on outside the moving   *)
(* state of its direction.                                                  *)
THEOREM RelaysFollow == Spec => []RelayFollowsState
  <1>1. RelayInv => RelayFollowsState
    BY DEF RelayInv, ChannelInv, RelayFollowsState
  <1> QED  BY Inductive, <1>1, PTL

(* An alarm suspends every window, however long T2 takes to look again.     *)
THEOREM AlarmHolds == Spec => []AlarmSuspends
  <1>1. RelayInv => AlarmSuspends
    BY DEF RelayInv, ChannelInv, AlarmSuspends, Lost, Moving
  <1> QED  BY Inductive, <1>1, PTL

(* The working loop knows where every window is. *)
THEOREM PositionsKnown == Spec => []KnownWhenWorking
  <1>1. RelayInv => KnownWhenWorking
    BY DEF RelayInv
  <1> QED  BY Inductive, <1>1, PTL

(* No armed target survives the stroke it was armed over. *)
THEOREM TargetsDie == Spec => []TargetsDieWithTheirStroke
  <1>1. RelayInv => TargetsDieWithTheirStroke
    BY DEF RelayInv, ChannelInv, TargetsDieWithTheirStroke
  <1> QED  BY Inductive, <1>1, PTL

(* Where NVS writes do not fail, a window reported at an end is there.      *)
THEOREM EndsReal == ASSUME NvsReliable PROVE Spec => []EndsAreReal
  <1>1. RelayInv => EndsAreReal
    BY DEF RelayInv, ChannelInv, EndsAreReal
  <1> QED  BY Inductive, <1>1, PTL

(* Where NVS writes do not fail, what is stored may be trusted at boot.     *)
THEOREM StoredClosedReal == ASSUME NvsReliable PROVE Spec => []StoredClosedIsClosed
  <1>1. RelayInv => StoredClosedIsClosed
    BY DEF RelayInv, ChannelInv, StoredClosedIsClosed
  <1> QED  BY Inductive, <1>1, PTL

(* Whatever the NVS does, no running motor is turned round in one step but  *)
(* by the start of a sweep (calib_close_all() of an opening window).        *)
THEOREM ReversalsRest == Spec => [][SweepStart \/ NoReversal]_vars
  <1>1. RelayInv /\ [Next]_vars => [SweepStart \/ NoReversal]_vars
    BY StepInv
  <1> QED  BY Inductive, <1>1, PTL DEF Spec
-----------------------------------------------------------------------------
(* T2 implements the promise. *)

drives == [c \in Channel |-> ch[c].relay]
words  == [c \in Channel |-> Said(ch[c])]

(* A command, an update or a turn of the sweep: each window stays, starts   *)
(* or stops.                                                                *)
LEMMA SteadyWorks ==
    ASSUME NvsReliable, RelayInv, RelayInv', leaf' = leaf,
           \A c \in Channel : Steady(ch[c], ch'[c])
    PROVE  Promise!Work
  <1>1. ASSUME NEW c \in Channel
        PROVE  /\ ChannelInv(ch[c], leaf[c]) /\ ChannelInv(ch'[c], leaf[c])
               /\ Steady(ch[c], ch'[c])
    BY <1>1 DEF RelayInv
  <1>2. /\ drives' \in [Channel -> Promise!Ways]
        /\ words'  \in [Channel -> Promise!Words]
    BY <1>1 DEF drives, words, ChannelInv, ChannelRecord, Directions, Said, EndStates,
                Promise!Ways, Promise!Words
  <1>3. ASSUME NEW c \in Channel
        PROVE  Promise!Stay(c) \/ Promise!Start(c) \/ Promise!Stop(c)
    <2>1. /\ drives[c] = ch[c].relay /\ drives'[c] = ch'[c].relay
          /\ words[c] = Said(ch[c]) /\ words'[c] = Said(ch'[c])
      BY DEF drives, words
    <2>2. CASE ch[c].relay # "off" /\ ch'[c].relay # "off"
      <3>1. ch'[c].relay = ch[c].relay /\ Moving(ch[c]) /\ Moving(ch'[c])
        BY <1>1, <2>2, Running DEF Steady
      <3>2. Said(ch[c]) = "unsure" /\ Said(ch'[c]) = "unsure"
        BY <3>1 DEF Said, Moving, EndStates
      <3> QED  BY <2>1, <3>1, <3>2 DEF Promise!Stay, drives, words
    <2>3. CASE ch[c].relay # "off" /\ ch'[c].relay = "off"
      <3>1. Said(ch'[c]) = "CLOSED" => leaf[c] = 0
        BY <1>1 DEF ChannelInv, Said, EndStates
      <3>2. Said(ch'[c]) = "OPEN" => leaf[c] = Stroke
        BY <1>1 DEF ChannelInv, Said, EndStates
      <3> QED  BY <2>1, <2>3, <3>1, <3>2 DEF Promise!Stop, Promise!True, drives, words
    <2>4. CASE ch[c].relay = "off" /\ ch'[c].relay # "off"
      <3>1. Said(ch'[c]) = "unsure"
        BY <1>1, <2>4, Running DEF Said, Moving, EndStates
      <3> QED  BY <2>1, <2>4, <3>1 DEF Promise!Start, drives, words
    <2>5. CASE ch[c].relay = "off" /\ ch'[c].relay = "off"
      <3>1. Said(ch'[c]) = Said(ch[c])
        BY <1>1, <2>5 DEF Steady, AtEnd, Said
      <3> QED  BY <2>1, <2>5, <3>1 DEF Promise!Stay, drives, words
    <2> QED  BY <2>2, <2>3, <2>4, <2>5
  <1> QED  BY <1>2, <1>3 DEF Promise!Work, drives, words

(* A step that touches no window is one in which all stay. *)
LEMMA QuietWorks ==
    ASSUME NvsReliable, RelayInv, RelayInv', UNCHANGED <<ch, leaf>>
    PROVE  Promise!Work
  BY SteadyWorks DEF Steady

(* A command to one window. *)
LEMMA OneWorks ==
    ASSUME NvsReliable, RelayInv, RelayInv', leaf' = leaf, NEW w \in Channel, NEW k,
           ch' = [ch EXCEPT ![w] = k], Steady(ch[w], k)
    PROVE  Promise!Work
  <1>1. \A c \in Channel : Steady(ch[c], ch'[c])
    BY DEF RelayInv, TypeOK, Steady
  <1> QED  BY <1>1, SteadyWorks

(* Wherever every window is lost, no motor runs and no word is given. *)
LEMMA LostSuspends ==
    ASSUME RelayInv', leaf' = leaf, \A c \in Channel : Lost(ch'[c])
    PROVE  Promise!Suspend
  <1>1. \A c \in Channel : ch'[c].relay = "off" /\ Said(ch'[c]) = "unsure"
    BY DEF RelayInv, ChannelInv, Lost, Moving, Said, EndStates
  <1> QED  BY <1>1 DEF Promise!Suspend

(* Each command, by the operator on the channels it is. *)
LEMMA CommandWorks ==
    ASSUME NvsReliable, RelayInv, RelayInv', NEW cmd \in Commands, Process(cmd)
    PROVE  Promise!Work
  <1>b. \A c \in Channel : ChannelInv(ch[c], leaf[c])
    BY DEF RelayInv
  <1>0. /\ cmd.ch \in Channel /\ cmd.dir \in Directions /\ cmd.val \in Nat
        /\ cmd.src \in Sources /\ M3 \in Channel /\ "close" \in Directions
    BY CommandAssumption, ChannelAssumption DEF Command, Directions
  <1>1. CASE Discard(cmd) \/ Resume(cmd) \/ Recalibrate(cmd)
    BY <1>1, QuietWorks DEF Discard, Resume, Recalibrate, vars
  <1>2. CASE CloseAll(cmd)
    <2>1. PICK t \in [Channel -> Travels], ok \in [Channel -> NvsWrites] :
              ch' = [c \in Channel |-> Start(ch[c], "close", cmd.src, t[c], ok[c])]
      BY <1>2 DEF CloseAll
    <2>2. \A c \in Channel : Steady(ch[c], ch'[c])
      BY <1>b, <1>0, <2>1, StartKeeps
    <2> QED  BY <1>2, <2>2, SteadyWorks DEF CloseAll, Rest
  <1>3. CASE Move(cmd)
    <2>1. PICK t \in Travels, ok \in NvsWrites :
              ch' = [ch EXCEPT ![cmd.ch] = Start(ch[cmd.ch], cmd.dir, cmd.src, t, ok)]
      BY <1>3 DEF Move
    <2>2. Steady(ch[cmd.ch], Start(ch[cmd.ch], cmd.dir, cmd.src, t, ok))
      BY <1>b, <1>0, StartKeeps
    <2> QED  BY <1>3, <1>0, <2>1, <2>2, OneWorks DEF Move, Rest
  <1>4. CASE Target(cmd)
    <2>1. PICK reading \in {"untaught", "untrusted", "trusted"}, lead \in Leads,
               t \in Travels, ok \in NvsWrites :
              ch' = [ch EXCEPT ![M3] = StartTarget(ch[M3], leaf[M3], cmd.val, cmd.src,
                                                   reading, lead, t, ok)]
      BY <1>4 DEF Target
    <2>2. Steady(ch[M3], StartTarget(ch[M3], leaf[M3], cmd.val, cmd.src,
                                     reading, lead, t, ok))
      BY <1>b, <1>0, StartTargetKeeps
    <2> QED  BY <1>4, <1>0, <2>1, <2>2, OneWorks DEF Target, Rest
  <1>5. CASE PulseM3(cmd)
    <2>1. PICK w \in PulseTimes, t \in Travels, ok \in NvsWrites :
              ch' = [ch EXCEPT ![M3] = Pulse(ch[M3], cmd.dir, w, t, ok)]
      BY <1>5 DEF PulseM3
    <2>2. Steady(ch[M3], Pulse(ch[M3], cmd.dir, w, t, ok))
      BY <1>b, <1>0, PulseKeeps
    <2> QED  BY <1>5, <1>0, <2>1, <2>2, OneWorks DEF PulseM3, Rest
  <1>6. CASE StopM3(cmd)
    <2>1. PICK d \in Dwells, ok \in NvsWrites :
              ch' = [ch EXCEPT ![M3] = Stop(ch[M3], cmd.src, d, ok)]
      BY <1>6 DEF StopM3
    <2>2. Steady(ch[M3], Stop(ch[M3], cmd.src, d, ok))
      BY <1>b, <1>0, StopKeeps
    <2> QED  BY <1>6, <1>0, <2>1, <2>2, OneWorks DEF StopM3, Rest
  <1> QED  BY <1>1, <1>2, <1>3, <1>4, <1>5, <1>6 DEF Process

(* Every step of T2 and its surroundings is a step of the promise. *)
LEMMA StepPromise ==
    ASSUME NvsReliable, RelayInv, RelayInv', [Next]_vars
    PROVE  [Promise!Next]_(Promise!vars)
  <1>b. \A c \in Channel : ChannelInv(ch[c], leaf[c])
    BY DEF RelayInv
  <1>1. CASE UNCHANGED vars
    BY <1>1, QuietWorks DEF vars, Promise!Next
  <1>2. CASE BootAlarmed \/ Trip
    <2>1. leaf' = leaf /\ eg' = {"MOTOR_ALARM"}
      BY <1>2 DEF BootAlarmed, Trip, Onset
    <2> QED  BY <2>1, LostSuspends DEF RelayInv, Promise!Next
  <1>3. CASE BootRecovered
    <2>1. /\ ch' = [c \in Channel |-> [ch[c] EXCEPT !.st = "CLOSED"]] /\ leaf' = leaf
          /\ \A c \in Channel : ch[c].nvs = "CLOSED" /\ Lost(ch[c])
      BY <1>3 DEF BootRecovered, RelayInv
    <2>2. ASSUME NEW c \in Channel
          PROVE  /\ leaf[c] = 0 /\ ch[c].relay = "off"
                 /\ ch'[c].relay = ch[c].relay /\ Said(ch'[c]) = "CLOSED"
      <3>1. ch[c] \in ChannelRecord /\ ch[c].nvs = "CLOSED" /\ ch[c].st = "UNKNOWN"
        BY <1>b, <2>1 DEF ChannelInv, Lost
      <3>2. leaf[c] = 0 /\ ch[c].relay = "off"
        BY <1>b, <3>1 DEF ChannelInv, Moving
      <3>3. ch'[c].relay = ch[c].relay /\ ch'[c].st = "CLOSED"
        BY <2>1, <3>1 DEF ChannelRecord
      <3> QED  BY <3>2, <3>3 DEF Said, EndStates
    <2> QED  BY <2>1, <2>2 DEF Promise!Recover, Promise!Next
  <1>4. CASE BootCalibrate \/ AlarmSeen \/ AlarmQuiet \/ GuardPoll
    BY <1>4, QuietWorks DEF BootCalibrate, AlarmSeen, AlarmQuiet, GuardPoll, Promise!Next
  <1>5. CASE SweepStart
    <2>1. PICK t \in [Channel -> Travels], ok \in [Channel -> NvsWrites] :
              ch' = [c \in Channel |-> Sweep(ch[c], t[c], ok[c])]
      BY <1>5 DEF SweepStart
    <2>2. ASSUME NEW c \in Channel
          PROVE  ch'[c].relay = "close" /\ Said(ch'[c]) = "unsure"
      <3>1. ch'[c].relay = "close" /\ ch'[c].st = "MOVING_CLOSE"
        BY <1>b, <2>1 DEF Sweep, ChannelInv, ChannelRecord
      <3> QED  BY <3>1 DEF Said, EndStates
    <2>3. leaf' = leaf
      BY <1>5 DEF SweepStart
    <2> QED  BY <2>2, <2>3 DEF Promise!Sweep, Promise!Next
  <1>6. CASE SweepPoll
    <2>1. PICK d \in [Channel -> Dwells], ok \in [Channel -> NvsWrites] :
              ch' = [c \in Channel |-> Swept(ch[c], d[c], ok[c])]
      BY <1>6 DEF SweepPoll
    <2>2. leaf' = leaf
      BY <1>6 DEF SweepPoll
    <2>3. ASSUME NEW c \in Channel PROVE Steady(ch[c], ch'[c])
      <3>1. CASE ch[c].st = "MOVING_CLOSE" /\ ch[c].left = 0
        <4>1. ch'[c].st = "CLOSED" /\ ch'[c].relay = "off" /\ Moving(ch[c])
          BY <1>b, <2>1, <3>1 DEF Swept, ChannelInv, ChannelRecord, Moving
        <4>2. ch[c].relay # "off"
          BY <1>b, <4>1, Running
        <4> QED  BY <4>1, <4>2 DEF Steady
      <3>2. CASE ~(ch[c].st = "MOVING_CLOSE" /\ ch[c].left = 0)
        BY <2>1, <3>2 DEF Swept, Steady
      <3> QED  BY <3>1, <3>2
    <2> QED  BY <2>2, <2>3, SteadyWorks DEF Promise!Next
  <1>7. CASE Top
    <2>1. leaf' = leaf
      BY <1>7 DEF Top
    <2>2. ASSUME NEW c \in Channel PROVE Steady(ch[c], ch'[c])
      <3>1. ch'[c].st = ch[c].st /\ ch'[c].relay = ch[c].relay
        BY <1>7, <1>b DEF Top, ChannelInv, ChannelRecord
      <3> QED  BY <3>1 DEF Steady
    <2> QED  BY <2>1, <2>2, SteadyWorks DEF Promise!Next
  <1>8. CASE AlarmCheck
    <2>1. leaf' = leaf
      BY <1>8 DEF AlarmCheck
    <2>2. CASE pin /\ "MOTOR_ALARM" \notin eg
      <3>1. eg' = {"MOTOR_ALARM"}
        BY <1>8, <2>2 DEF AlarmCheck, Onset
      <3> QED  BY <2>1, <3>1, LostSuspends DEF RelayInv, Promise!Next
    <2>3. CASE ~(pin /\ "MOTOR_ALARM" \notin eg)
      <3>1. ch' = ch
        BY <1>8, <2>3 DEF AlarmCheck
      <3> QED  BY <2>1, <3>1, QuietWorks DEF Promise!Next
    <2> QED  BY <2>2, <2>3
  <1>9. CASE UpdateAll
    <2>1. PICK t \in [Channel -> Travels], d \in [Channel -> Dwells],
              reading \in {"fresh", "waiting", "lost"}, ok \in [Channel -> NvsWrites] :
              ch' = [c \in Channel |-> Update(ch[c], leaf[c], reading, t[c], d[c], ok[c])]
      BY <1>9 DEF UpdateAll
    <2>2. leaf' = leaf
      BY <1>9 DEF UpdateAll
    <2>3. \A c \in Channel : Steady(ch[c], ch'[c])
      BY <1>b, <2>1, UpdateKeeps
    <2> QED  BY <2>2, <2>3, SteadyWorks DEF Promise!Next
  <1>10. ASSUME NEW cmd \in Commands, Process(cmd) PROVE Promise!Next
    BY <1>10, CommandWorks DEF Promise!Next
  <1>11. CASE DrainDone \/ ContactMoves \/ IsrOpens \/ ClearDwell
    BY <1>11, QuietWorks DEF DrainDone, ContactMoves, IsrOpens, ClearDwell, Promise!Next
  <1>12. CASE Tick
    <2>1. /\ leaf' = [c \in Channel |-> MoveLeaf(leaf[c], ch[c].relay)]
          /\ ch' = [c \in Channel |-> Elapse(ch[c])]
      BY <1>12 DEF Tick
    <2>2. ASSUME NEW c \in Channel
          PROVE  ch'[c].relay = ch[c].relay /\ Said(ch'[c]) = Said(ch[c])
      BY <1>b, <2>1, ElapseKeeps DEF Said
    <2>3. leaf' = [c \in Channel |-> Promise!Travelled(leaf[c], drives[c])]
      BY <2>1 DEF MoveLeaf, Promise!Travelled, drives
    <2> QED  BY <2>2, <2>3 DEF Promise!Travel, Promise!Next, drives
  <1>13. CASE PowerLoss
    <2>1. leaf' = leaf /\ pc' = "boot"
      BY <1>13 DEF PowerLoss
    <2> QED  BY <2>1, LostSuspends DEF RelayInv, Promise!Next
  <1> QED  BY <1>1, <1>2, <1>3, <1>4, <1>5, <1>6, <1>7, <1>8, <1>9, <1>10, <1>11, <1>12,
              <1>13 DEF Next, T2Step, Environment

(* A unit as commissioned drives nothing and says nothing. *)
LEMMA InitPromise == Init => Promise!Init
  BY DEF Init, Promise!Init, PoweredOn, Said, EndStates

(* Where NVS writes do not fail, T2 keeps the promise of WindowPromise, for *)
(* any number of windows, any times and any stream of commands, through     *)
(* alarms and losses of power: every step of the task is a step of the      *)
(* abstract controller or none.                                             *)
THEOREM Implements == ASSUME NvsReliable PROVE Spec => PromiseKept
  <1>1. RelayInv /\ RelayInv' /\ [Next]_vars => [Promise!Next]_(Promise!vars)
    BY StepPromise
  <1> QED  BY Inductive, InitPromise, <1>1, PTL DEF Spec, PromiseKept, Promise!Spec

-----------------------------------------------------------------------------
(* What a step may never do to a window. *)

(* Counting one further always shows. *)
LEMMA TakenMoves ==
    ASSUME TakenMod > 1, NEW c, c.taken \in Nat
    PROVE  Taken(c) # c.taken
  <1>1. TakenMod \in Nat
    BY TimesAssumption
  <1>2. \A q, r \in Int : 0 <= r /\ r < TakenMod => ((q * TakenMod) + r) % TakenMod = r
    BY <1>1
  <1>3. CASE c.taken + 1 < TakenMod
    <2>1. c.taken + 1 = (0 * TakenMod) + (c.taken + 1)
      BY <1>1
    <2>2. (c.taken + 1) % TakenMod = c.taken + 1
      BY <1>2, <1>3, <2>1
    <2> QED  BY <2>2 DEF Taken
  <1>4. CASE c.taken + 1 = TakenMod
    <2>1. c.taken + 1 = (1 * TakenMod) + 0
      BY <1>1, <1>4
    <2>2. (c.taken + 1) % TakenMod = 0
      BY <1>1, <1>2, <2>1
    <2> QED  BY <1>1, <1>4, <2>2 DEF Taken
  <1>5. CASE c.taken >= TakenMod
    <2>1. (c.taken + 1) % TakenMod \in 0..TakenMod-1
      BY <1>1
    <2> QED  BY <1>1, <1>5, <2>1 DEF Taken
  <1> QED  BY <1>1, <1>3, <1>4, <1>5

(* Who is not the climate law takes an armed target by counting.            *)
LEMMA StartTells ==
    ASSUME NEW c \in ChannelRecord, NEW dir \in Directions, NEW src \in Sources,
           NEW t, NEW ok, src # "T6", c.aim # NoTarget, Moving(c) \/ InGap(c)
    PROVE  Start(c, dir, src, t, ok).taken = Taken(c)
  <1> DEFINE k == Claim(c, dir, src)
  <1>1. Takes(c, dir, src)
    BY Names DEF Takes, Moving, InGap
  <1>2. k.taken = Taken(c)
    BY <1>1 DEF Claim, ChannelRecord
  <1>3. k \in ChannelRecord
    <2>1. Taken(c) \in Nat
      BY TimesAssumption DEF Taken, ChannelRecord
    <2> QED  BY <2>1 DEF Claim, ChannelRecord, Sources
  <1>5. \/ Start(c, dir, src, t, ok) = k
        \/ Start(c, dir, src, t, ok) = Reverse(k, dir, src)
        \/ Start(c, dir, src, t, ok) = [k EXCEPT !.st = GapTo[dir], !.src = src]
        \/ Start(c, dir, src, t, ok) =
             Energise([k EXCEPT !.nvs = Persist(c, "UNKNOWN", ok), !.src = src], dir, t)
    BY DEF Start
  <1> HIDE DEF k
  <1> QED  BY <1>2, <1>3, <1>5 DEF Reverse, Energise, ChannelRecord

(* The climate law switches no relay of a window that moves, or rests within *)
(* its dwell at a known place, and leaves the target of a stroke against     *)
(* which it is sent.                                                         *)
LEMMA StartYields ==
    ASSUME NEW c \in ChannelRecord, NEW dir \in Directions, NEW t, NEW ok, c.st # "UNKNOWN"
    PROVE  /\ (Moving(c) \/ (c.dwell > 0 /\ ~InGap(c)))
                 => Start(c, dir, "T6", t, ok).relay = c.relay
           /\ Moving(c) /\ dir # Heading(c) => Start(c, dir, "T6", t, ok).aim = c.aim
  <1> DEFINE k == Claim(c, dir, "T6")
  <1>1. k.relay = c.relay /\ (c.st = MovingTo[Opposite[dir]] => k.aim = c.aim)
    BY DEF Claim, ChannelRecord
  <1>2. Moving(c) /\ dir # Heading(c) => c.st = MovingTo[Opposite[dir]]
    BY Names DEF Moving, Heading
  <1>3. (Moving(c) \/ (c.dwell > 0 /\ ~InGap(c)))
          => \/ c.st \in {End[dir], MovingTo[dir], GapTo[dir]}
             \/ Deferred(c, dir, "T6")
    BY Names DEF Moving, InGap, Deferred, ChannelRecord, States
  <1>4. c.st \in {End[dir], MovingTo[dir], GapTo[dir]} => Start(c, dir, "T6", t, ok) = k
    BY Names DEF Start, Deferred
  <1>5. Deferred(c, dir, "T6") => Start(c, dir, "T6", t, ok) = k
    BY Names DEF Start, Deferred
  <1> HIDE DEF k
  <1> QED  BY <1>1, <1>2, <1>3, <1>4, <1>5

(* What T6 posts to Q1: climate_control.cpp sends it moves and targets.      *)
ClimatePosts == \A cmd \in Commands : cmd.src = "T6" => cmd.act \in {"MOVE", "TARGET"}

(* The windows' records are typed, and a target is armed only over a stroke. *)
LEMMA RecordsOf ==
    ASSUME RelayInv, NEW c \in Channel
    PROVE  /\ ch[c] \in ChannelRecord /\ ch[c].taken \in Nat
           /\ ch[c].aim # NoTarget => Moving(ch[c]) \/ InGap(ch[c])
  <1>1. ChannelInv(ch[c], leaf[c])
    BY DEF RelayInv
  <1> QED  BY <1>1 DEF ChannelInv, ChannelRecord

LEMMA CommandFields ==
    ASSUME NEW cmd \in Commands
    PROVE  /\ cmd.act \in {"MOVE", "CLOSE_ALL", "TARGET", "PULSE", "STOP", "RECALIBRATE",
                           "RESUME"}
           /\ cmd.ch \in Channel /\ cmd.dir \in Directions /\ cmd.src \in Sources
  BY CommandAssumption DEF Command

(* What a command of the climate law does to a channel.                      *)
LEMMA ClimateActs ==
    ASSUME RelayInv, ClimatePosts, NEW cmd \in Commands, cmd.src = "T6", Process(cmd),
           NEW c \in Channel
    PROVE  \/ ch'[c] = ch[c]
           \/ /\ ch[c].st # "UNKNOWN" /\ (cmd.act = "MOVE" => cmd.ch = c)
              /\ \E t \in Travels, ok \in NvsWrites :
                    ch'[c] = Start(ch[c], cmd.dir, "T6", t, ok)
           \/ /\ ch[c].st # "UNKNOWN" /\ cmd.act = "TARGET"
              /\ \E dir \in Directions, t \in Travels, ok \in NvsWrites :
                    \/ ch'[c] = Start(ch[c], dir, "T6", t, ok)
                    \/ \E aim : ch'[c] = [Start(ch[c], dir, "T6", t, ok) EXCEPT !.aim = aim]
  <1>1. cmd.act \in {"MOVE", "TARGET"} /\ cmd.ch \in Channel /\ cmd.dir \in Directions
    BY CommandFields DEF ClimatePosts
  <1>2. CASE Discard(cmd) \/ Resume(cmd)
    BY <1>2 DEF Discard, Resume, vars
  <1>3. CASE Move(cmd)
    <2>1. ch[c].st # "UNKNOWN" /\ ch \in [Channel -> ChannelRecord]
      BY <1>3 DEF Move, Drains, RelayInv, KnownWhenWorking, TypeOK
    <2>2. PICK t \in Travels, ok \in NvsWrites :
             ch' = [ch EXCEPT ![cmd.ch] = Start(ch[cmd.ch], cmd.dir, "T6", t, ok)]
      BY <1>3 DEF Move
    <2>3. CASE c = cmd.ch
      <3>1. ch'[c] = Start(ch[c], cmd.dir, "T6", t, ok)
        BY <1>1, <2>1, <2>2, <2>3
      <3> QED  BY <2>1, <2>3, <3>1
    <2>4. CASE c # cmd.ch
      BY <1>1, <2>1, <2>2, <2>4
    <2> QED  BY <2>3, <2>4
  <1>4. CASE Target(cmd)
    <2>1. /\ ch[c].st # "UNKNOWN" /\ ch \in [Channel -> ChannelRecord] /\ M3 \in Channel
          /\ cmd.act = "TARGET"
      BY <1>4, ChannelAssumption DEF Target, Drains, RelayInv, KnownWhenWorking, TypeOK
    <2>2. \E reading \in {"untaught", "untrusted", "trusted"}, lead \in Leads,
              t \in Travels, ok \in NvsWrites :
             ch' = [ch EXCEPT ![M3] =
                      StartTarget(ch[M3], leaf[M3], cmd.val, cmd.src, reading, lead, t, ok)]
      BY <1>4 DEF Target
    <2>3. PICK reading \in {"untaught", "untrusted", "trusted"}, lead \in Leads,
               t \in Travels, ok \in NvsWrites :
             ch' = [ch EXCEPT ![M3] =
                      StartTarget(ch[M3], leaf[M3], cmd.val, cmd.src, reading, lead, t, ok)]
      BY <2>2
    <2>4. CASE c = M3
      <3> DEFINE k == StartTarget(ch[c], leaf[c], cmd.val, "T6", reading, lead, t, ok)
      <3>1. ch'[c] = k
        BY <2>1, <2>3, <2>4
      <3>2. ch[c] \in ChannelRecord
        BY <2>1
      <3>3. \/ k = ch[c]
            \/ \E dir \in Directions :
                  \/ k = Start(ch[c], dir, "T6", t, ok)
                  \/ \E aim : k = [Start(ch[c], dir, "T6", t, ok) EXCEPT !.aim = aim]
        BY DEF StartTarget, Directions
      <3> HIDE DEF k
      <3>4. \/ ch'[c] = ch[c]
            \/ \E dir \in Directions :
                  \/ ch'[c] = Start(ch[c], dir, "T6", t, ok)
                  \/ \E aim : ch'[c] = [Start(ch[c], dir, "T6", t, ok) EXCEPT !.aim = aim]
        BY <3>1, <3>3
      <3> QED  BY <2>1, <3>4, Zenon
    <2>5. CASE c # M3
      BY <2>1, <2>3, <2>5
    <2> QED  BY <2>4, <2>5
  <1> QED  BY <1>1, <1>2, <1>3, <1>4
           DEF Process, CloseAll, PulseM3, StopM3, Recalibrate

(* A command of the climate law switches no relay of a moving window and     *)
(* starts none within its dwell, and one against a stroke leaves its target  *)
(* (ch_start_open(), ch_start_close(), gh#48), whatever else Q1 holds.       *)
THEOREM ClimateGivesWay == ASSUME ClimatePosts PROVE Spec => ClimateYields
  <1> DEFINE Yields ==
        \A c \in Channel :
          /\ (/\ ch'[c].relay # ch[c].relay
              /\ Moving(ch[c]) \/ (ch[c].dwell > 0 /\ ~InGap(ch[c])))
             => ~FromClimate
          /\ (ch[c].aim # NoTarget /\ ch'[c].aim = NoTarget /\ Moving(ch[c]))
             => ~\E cmd \in Commands :
                    /\ cmd.src = "T6" /\ cmd.act = "MOVE" /\ cmd.ch = c
                    /\ cmd.dir # Heading(ch[c]) /\ Process(cmd)
  <1>1. ASSUME RelayInv
        PROVE  Yields
    <2>1. ASSUME NEW c \in Channel, ch'[c].relay # ch[c].relay,
                 Moving(ch[c]) \/ (ch[c].dwell > 0 /\ ~InGap(ch[c])),
                 NEW cmd \in Commands, cmd.src = "T6", Process(cmd)
          PROVE  FALSE
      <3>1. ch[c] \in ChannelRecord /\ ChannelInv(ch[c], leaf[c]) /\ cmd.dir \in Directions
        BY <1>1, RecordsOf, CommandFields DEF RelayInv
      <3>2. ASSUME NEW dir \in Directions, NEW t \in Travels, NEW ok \in NvsWrites,
                   ch[c].st # "UNKNOWN"
            PROVE  /\ Start(ch[c], dir, "T6", t, ok) \in ChannelRecord
                   /\ Start(ch[c], dir, "T6", t, ok).relay = ch[c].relay
        <4>1. ChannelInv(Start(ch[c], dir, "T6", t, ok), leaf[c])
          BY <3>1, <3>2, StartKeeps DEF Sources
        <4>2. Start(ch[c], dir, "T6", t, ok).relay = ch[c].relay
          BY <2>1, <3>1, <3>2, StartYields
        <4> QED  BY <4>1, <4>2 DEF ChannelInv
      <3>3. ASSUME NEW t \in Travels, NEW ok \in NvsWrites, ch[c].st # "UNKNOWN",
                   ch'[c] = Start(ch[c], cmd.dir, "T6", t, ok)
            PROVE  FALSE
        BY <2>1, <3>1, <3>2, <3>3
      <3>4. ASSUME NEW dir \in Directions, NEW t \in Travels, NEW ok \in NvsWrites,
                   ch[c].st # "UNKNOWN", ch'[c] = Start(ch[c], dir, "T6", t, ok)
            PROVE  FALSE
        BY <2>1, <3>2, <3>4
      <3>5. ASSUME NEW dir \in Directions, NEW t \in Travels, NEW ok \in NvsWrites,
                   ch[c].st # "UNKNOWN", NEW aim,
                   ch'[c] = [Start(ch[c], dir, "T6", t, ok) EXCEPT !.aim = aim]
            PROVE  FALSE
        <4> DEFINE s == Start(ch[c], dir, "T6", t, ok)
        <4>1. s \in ChannelRecord /\ s.relay = ch[c].relay
          BY <3>2, <3>5
        <4>2. ch'[c] = [s EXCEPT !.aim = aim]
          BY <3>5
        <4> HIDE DEF s
        <4> QED  BY <2>1, <4>1, <4>2 DEF ChannelRecord
      <3>6. \/ ch'[c] = ch[c]
            \/ /\ ch[c].st # "UNKNOWN"
               /\ \E t \in Travels, ok \in NvsWrites :
                     ch'[c] = Start(ch[c], cmd.dir, "T6", t, ok)
            \/ /\ ch[c].st # "UNKNOWN"
               /\ \E dir \in Directions, t \in Travels, ok \in NvsWrites :
                     \/ ch'[c] = Start(ch[c], dir, "T6", t, ok)
                     \/ \E aim : ch'[c] = [Start(ch[c], dir, "T6", t, ok) EXCEPT !.aim = aim]
        BY <1>1, <2>1, ClimateActs, Zenon
      <3>7. ch'[c] # ch[c]
        BY <2>1
      <3> QED  BY <3>3, <3>4, <3>5, <3>6, <3>7, Zenon
    <2>2. ASSUME NEW c \in Channel, ch[c].aim # NoTarget, ch'[c].aim = NoTarget,
                 Moving(ch[c]), NEW cmd \in Commands, cmd.src = "T6", cmd.act = "MOVE",
                 cmd.dir # Heading(ch[c]), Process(cmd)
          PROVE  FALSE
      <3>1. ch[c] \in ChannelRecord /\ cmd.dir \in Directions
        BY <1>1, RecordsOf, CommandFields
      <3>2. ASSUME NEW t \in Travels, NEW ok \in NvsWrites, ch[c].st # "UNKNOWN",
                   ch'[c] = Start(ch[c], cmd.dir, "T6", t, ok)
            PROVE  FALSE
        <4>1. Start(ch[c], cmd.dir, "T6", t, ok).aim = ch[c].aim
          BY <2>2, <3>1, <3>2, StartYields
        <4> QED  BY <2>2, <3>2, <4>1
      <3> QED  BY <1>1, <2>2, <3>2, ClimateActs
    <2> QED  BY <2>1, <2>2 DEF FromClimate
  <1>2. Spec => [][Yields]_vars
    BY <1>1, Inductive, PTL
  <1> QED  BY <1>2 DEF ClimateYields

(* The count moves, or the target stays. *)
Told(c, k) == k.aim = c.aim \/ k.taken # c.taken

(* A target's drive and a stop tell, and a pulse meets no armed target.      *)
LEMMA TargetTells ==
    ASSUME TakenMod > 1, NEW c \in ChannelRecord, NEW l, NEW want, NEW src \in Sources,
           NEW reading, NEW lead, NEW t, NEW ok,
           \A dir \in Directions : Start(c, dir, src, t, ok) \in ChannelRecord,
           src # "T6", c.aim # NoTarget, Moving(c) \/ InGap(c)
    PROVE  Told(c, StartTarget(c, l, want, src, reading, lead, t, ok))
  <1> DEFINE k == StartTarget(c, l, want, src, reading, lead, t, ok)
  <1>1. \/ k = c
        \/ \E dir \in Directions :
              \/ k = Start(c, dir, src, t, ok)
              \/ \E aim : k = [Start(c, dir, src, t, ok) EXCEPT !.aim = aim]
    BY DEF StartTarget, Directions
  <1> HIDE DEF k
  <1>2. ASSUME NEW dir \in Directions, NEW aim,
               k = Start(c, dir, src, t, ok) \/ k = [Start(c, dir, src, t, ok) EXCEPT !.aim = aim]
        PROVE  k.taken = Taken(c)
    <2> DEFINE s == Start(c, dir, src, t, ok)
    <2>1. s \in ChannelRecord /\ s.taken = Taken(c)
      BY StartTells
    <2>2. k = s \/ k = [s EXCEPT !.aim = aim]
      BY <1>2
    <2> HIDE DEF s
    <2> QED  BY <2>1, <2>2 DEF ChannelRecord
  <1>3. Taken(c) # c.taken
    BY TakenMoves DEF ChannelRecord
  <1>4. k = c \/ k.taken = Taken(c)
    BY <1>1, <1>2
  <1> QED  BY <1>3, <1>4 DEF Told, k

LEMMA OnsetTells ==
    ASSUME TakenMod > 1, RelayInv, Onset, NEW c \in Channel
    PROVE  ch'[c].taken # ch[c].taken
  <1>1. PICK ok \in [Channel -> NvsWrites] : ch' = [x \in Channel |-> Suspend(ch[x], ok[x])]
    BY DEF Onset
  <1>2. ch[c] \in ChannelRecord /\ ch[c].taken \in Nat
    BY RecordsOf
  <1>3. ch'[c].taken = Taken(ch[c])
    BY <1>1, <1>2 DEF Suspend, ChannelRecord
  <1> QED  BY <1>2, <1>3, TakenMoves

LEMMA CommandTells ==
    ASSUME TakenMod > 1, RelayInv, NEW cmd \in Commands, cmd.src # "T6", Process(cmd),
           NEW c \in Channel, ch[c].aim # NoTarget
    PROVE  Told(ch[c], ch'[c])
  <1>1. /\ ch[c] \in ChannelRecord /\ ch[c].taken \in Nat /\ ChannelInv(ch[c], leaf[c])
        /\ Moving(ch[c]) \/ InGap(ch[c])
    BY RecordsOf DEF RelayInv
  <1>2. /\ cmd.ch \in Channel /\ cmd.dir \in Directions /\ cmd.src \in Sources
        /\ M3 \in Channel /\ ch \in [Channel -> ChannelRecord] /\ "close" \in Directions
    BY CommandFields, ChannelAssumption DEF RelayInv, TypeOK, Directions
  <1>3. Taken(ch[c]) # ch[c].taken
    BY <1>1, TakenMoves
  <1>4. ASSUME NEW dir \in Directions, NEW t, NEW ok, ch'[c] = Start(ch[c], dir, cmd.src, t, ok)
        PROVE  Told(ch[c], ch'[c])
    BY <1>1, <1>2, <1>3, <1>4, StartTells DEF Told
  <1>5. ASSUME ch'[c] = ch[c]
        PROVE  Told(ch[c], ch'[c])
    BY <1>5 DEF Told
  <1>6. CASE Discard(cmd) \/ Recalibrate(cmd) \/ Resume(cmd)
    BY <1>5, <1>6 DEF Discard, Recalibrate, Resume, vars
  <1>7. CASE CloseAll(cmd)
    <2>1. PICK t \in [Channel -> Travels], ok \in [Channel -> NvsWrites] :
             ch' = [x \in Channel |-> Start(ch[x], "close", cmd.src, t[x], ok[x])]
      BY <1>7 DEF CloseAll
    <2>2. ch'[c] = Start(ch[c], "close", cmd.src, t[c], ok[c])
      BY <2>1
    <2> QED  BY <1>2, <1>4, <2>2
  <1>8. CASE Move(cmd)
    <2>1. PICK t \in Travels, ok \in NvsWrites :
             ch' = [ch EXCEPT ![cmd.ch] = Start(ch[cmd.ch], cmd.dir, cmd.src, t, ok)]
      BY <1>8 DEF Move
    <2>2. CASE c = cmd.ch
      <3>1. ch'[c] = Start(ch[c], cmd.dir, cmd.src, t, ok)
        BY <1>2, <2>1, <2>2
      <3> QED  BY <1>2, <1>4, <3>1
    <2>3. CASE c # cmd.ch
      BY <1>2, <1>5, <2>1, <2>3
    <2> QED  BY <2>2, <2>3
  <1>9. CASE Target(cmd)
    <2>1. PICK reading \in {"untaught", "untrusted", "trusted"}, lead \in Leads,
               t \in Travels, ok \in NvsWrites :
             ch' = [ch EXCEPT ![M3] =
                      StartTarget(ch[M3], leaf[M3], cmd.val, cmd.src, reading, lead, t, ok)]
      BY <1>9 DEF Target
    <2>2. CASE c = M3
      <3>1. ch'[c] = StartTarget(ch[c], leaf[c], cmd.val, cmd.src, reading, lead, t, ok)
        BY <1>2, <2>1, <2>2
      <3>2. \A dir \in Directions : Start(ch[c], dir, cmd.src, t, ok) \in ChannelRecord
        BY <1>1, <1>2, StartKeeps DEF ChannelInv
      <3>3. Told(ch[c], StartTarget(ch[c], leaf[c], cmd.val, cmd.src, reading, lead, t, ok))
        BY <1>1, <1>2, <3>2, TargetTells
      <3> QED  BY <3>1, <3>3
    <2>3. CASE c # M3
      BY <1>2, <1>5, <2>1, <2>3
    <2> QED  BY <2>2, <2>3
  <1>10. CASE PulseM3(cmd)
    <2>1. PICK w \in PulseTimes, t \in Travels, ok \in NvsWrites :
             ch' = [ch EXCEPT ![M3] = Pulse(ch[M3], cmd.dir, w, t, ok)]
      BY <1>10 DEF PulseM3
    <2>2. Pulse(ch[c], cmd.dir, w, t, ok) = ch[c]
      BY <1>1 DEF Pulse, Moving, InGap, EndStates
    <2> QED  BY <1>2, <1>5, <2>1, <2>2
  <1>11. CASE StopM3(cmd)
    <2>1. PICK d \in Dwells, ok \in NvsWrites :
             ch' = [ch EXCEPT ![M3] = Stop(ch[M3], cmd.src, d, ok)]
      BY <1>11 DEF StopM3
    <2>2. Stop(ch[c], cmd.src, d, ok) = ch[c] \/ Stop(ch[c], cmd.src, d, ok).taken = Taken(ch[c])
      BY <1>1 DEF Stop, StopPart, ChannelRecord
    <2> QED  BY <1>2, <1>3, <2>1, <2>2 DEF Told
  <1> QED  BY <1>6, <1>7, <1>8, <1>9, <1>10, <1>11 DEF Process

(* Whoever but the climate law ends or replaces an armed target is counted,  *)
(* through alarms, sweeps and every command: T6, which compares the count,   *)
(* takes no aborted target for one that was reached (s_taken, gh#42).        *)
THEOREM TakersAreCounted == ASSUME TakenMod > 1 PROVE Spec => TakingsAreTold
  <1> DEFINE Counted ==
        \A c \in Channel :
          (/\ ch[c].aim # NoTarget /\ ch'[c].aim # ch[c].aim
           /\ ch'[c].taken = ch[c].taken)
          => UpdateAll \/ PowerLoss \/ FromClimate
  <1>1. RelayInv /\ [Next]_vars => Counted
    <2> SUFFICES ASSUME RelayInv, [Next]_vars, NEW c \in Channel, ch[c].aim # NoTarget,
                        ~Told(ch[c], ch'[c])
                 PROVE  UpdateAll \/ PowerLoss \/ FromClimate
      BY DEF Told
    <2>1. ch[c] \in ChannelRecord /\ ch[c].taken \in Nat
      BY RecordsOf
    <2>2. ~Onset
      BY OnsetTells DEF Told
    <2>3. ch'[c] # ch[c]
      BY DEF Told
    <2>4. ~BootRecovered
      <3> SUFFICES ASSUME BootRecovered PROVE FALSE
        OBVIOUS
      <3>1. ch'[c] = [ch[c] EXCEPT !.st = "CLOSED"]
        BY DEF BootRecovered
      <3> QED  BY <2>1, <3>1 DEF Told, ChannelRecord
    <2>5. ~SweepStart
      <3> SUFFICES ASSUME SweepStart PROVE FALSE
        OBVIOUS
      <3>1. PICK t \in [Channel -> Travels], ok \in [Channel -> NvsWrites] :
               ch' = [x \in Channel |-> Sweep(ch[x], t[x], ok[x])]
        BY DEF SweepStart
      <3>2. ch'[c].taken = Taken(ch[c])
        BY <2>1, <3>1 DEF Sweep, ChannelRecord
      <3> QED  BY <2>1, <3>2, TakenMoves DEF Told
    <2>6. ~SweepPoll
      <3> SUFFICES ASSUME SweepPoll PROVE FALSE
        OBVIOUS
      <3>1. PICK d \in [Channel -> Dwells], ok \in [Channel -> NvsWrites] :
               ch' = [x \in Channel |-> Swept(ch[x], d[x], ok[x])]
        BY DEF SweepPoll
      <3>2. ch'[c].aim = ch[c].aim
        BY <2>1, <3>1 DEF Swept, ChannelRecord
      <3> QED  BY <3>2 DEF Told
    <2>7. ~Top
      <3> SUFFICES ASSUME Top PROVE FALSE
        OBVIOUS
      <3>1. ch'[c] = ch[c] \/ ch'[c] = [ch[c] EXCEPT !.dwell = 0]
        BY DEF Top
      <3> QED  BY <2>1, <3>1 DEF Told, ChannelRecord
    <2>8. ~Tick
      <3> SUFFICES ASSUME Tick PROVE FALSE
        OBVIOUS
      <3>1. ch'[c] = Elapse(ch[c])
        BY DEF Tick
      <3> QED  BY <2>1, <3>1 DEF Told, Elapse, ChannelRecord
    <2>9. ASSUME NEW cmd \in Commands, Process(cmd)
          PROVE  FromClimate
      BY <2>9, CommandTells DEF FromClimate
    <2>10. ~(BootAlarmed \/ Trip)
      BY <2>2 DEF BootAlarmed, Trip
    <2>11. ~AlarmCheck
      BY <2>2, <2>3 DEF AlarmCheck
    <2>12. ~(BootCalibrate \/ AlarmSeen \/ AlarmQuiet \/ GuardPoll \/ DrainDone
             \/ ContactMoves \/ IsrOpens \/ ClearDwell)
      BY <2>3 DEF BootCalibrate, AlarmSeen, AlarmQuiet, GuardPoll, DrainDone,
                  ContactMoves, IsrOpens, ClearDwell
    <2>13. ~UNCHANGED vars
      BY <2>3 DEF vars
    <2> QED  BY <2>4, <2>5, <2>6, <2>7, <2>8, <2>9, <2>10, <2>11, <2>12, <2>13
             DEF Next, T2Step, Environment
  <1> QED  BY <1>1, Inductive, PTL DEF Spec, TakingsAreTold

(* CALIBRATING falls, but for an alarm or a loss of power, only when a sweep *)
(* has carried every window to its closed end and let go of its motor,       *)
(* whatever was moving when the sweep began (calib_close_all()).             *)
THEOREM SweepsEndClosed == ASSUME NvsReliable PROVE Spec => SweepsAreWhole
  <1> DEFINE Closed == \A c \in Channel : leaf'[c] = 0 /\ ch'[c].relay = "off"
  <1>1. RelayInv' /\ [Next]_vars =>
          (\/ PowerLoss
           \/ "CALIBRATING" \in eg /\ eg' = {} =>
                 \A c \in Channel : leaf'[c] = 0 /\ ch'[c].relay = "off")
    <2> SUFFICES ASSUME RelayInv', [Next]_vars, ~PowerLoss, "CALIBRATING" \in eg, eg' = {}
                 PROVE  Closed
      OBVIOUS
    <2>1. ~Onset /\ eg' # eg
      BY DEF Onset
    <2>2. ~UNCHANGED vars
      BY <2>1 DEF vars
    <2>3. ~(BootAlarmed \/ BootRecovered \/ BootCalibrate \/ SweepStart \/ AlarmSeen \/ Trip
            \/ Top \/ AlarmQuiet \/ GuardPoll \/ UpdateAll \/ DrainDone
            \/ Tick \/ ContactMoves \/ IsrOpens \/ ClearDwell)
      BY <2>1 DEF BootAlarmed, BootRecovered, BootCalibrate, SweepStart, AlarmSeen, Trip,
                  Top, AlarmQuiet, GuardPoll, UpdateAll, DrainDone, Tick, ContactMoves,
                  IsrOpens, ClearDwell
    <2>4. ~AlarmCheck
      BY <2>1 DEF AlarmCheck
    <2>5. ~\E cmd \in Commands : Process(cmd)
      BY <2>1 DEF Process, Discard, CloseAll, Move, Target, PulseM3, StopM3, Recalibrate,
                  Resume, Rest, vars
    <2>6. SweepPoll
      BY <2>2, <2>3, <2>4, <2>5 DEF Next, T2Step, Environment
    <2>7. \A c \in Channel : ch'[c].st = "CLOSED"
      BY <2>1, <2>6 DEF SweepPoll
    <2>8. \A c \in Channel : ChannelInv(ch'[c], leaf'[c])
      BY DEF RelayInv
    <2> QED  BY <2>7, <2>8 DEF ChannelInv, Moving
  <1> QED  BY <1>1, Inductive, PTL DEF Spec, SweepsAreWhole

=============================================================================
