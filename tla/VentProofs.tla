----------------------------- MODULE VentProofs -----------------------------
(* What TLAPS proves of VentControl: for any depth of Q1, any number of     *)
(* windows and any law, an override that has posted its close is obeyed,    *)
(* provided T3 does not run between T6's look at EG1 and its post.          *)
EXTENDS VentControl, RelayProofs

(* What may be in Q1. *)
Posted == ClimateCmds \cup {CloseAllCmd, ResumeCmd}

NoneOfT6 == \A i \in 1..Len(q1) : q1[i].src = "T3"
AllClosing == \A c \in Channel : Closing(c)
NoPulses == \A c \in Channel : ch[c].pulse = NoPulse

TasksOK ==
    /\ q1 \in Seq(Posted) /\ Len(q1) <= Q1Depth
    /\ pc3 \in {"wait", "judge", "close", "resume"} /\ pc6 \in {"wait", "plan", "post"}
    /\ wind \in BOOLEAN /\ gale \in BOOLEAN /\ pending \in BOOLEAN /\ alarm3 \in BOOLEAN
    /\ cmd6 \in Command \cup {NoCommand}
    /\ pc6 = "post" => cmd6 \in ClimateCmds

(* An override that has posted: its close is still to come, or T6 has       *)
(* nothing left in Q1 and the windows do as they are told.                  *)
Rules == \/ pending \/ CloseIsQueued
         \/ NoneOfT6 /\ (Suspended \/ AllClosing)

VentInv ==
    /\ RelayInv
    /\ NoPulses
    /\ TasksOK
    /\ alarm3 = wind
    /\ T6Undisturbed /\ wind => pc6 = "wait"
    /\ T6Undisturbed /\ wind /\ pc3 # "close" => Rules

-----------------------------------------------------------------------------
(* Facts about the channels. *)

(* What T3 and T6 post is a command of the set T2 is proved about. *)
LEMMA PostedAreCommands ==
    /\ Posted \subseteq Commands /\ Posted \subseteq Command
    /\ CloseAllCmd.act = "CLOSE_ALL" /\ CloseAllCmd.src = "T3"
    /\ ResumeCmd.act = "RESUME" /\ ResumeCmd.src = "T3"
    /\ \A cmd \in ClimateCmds : cmd.act \in {"MOVE", "TARGET"} /\ cmd.src = "T6"
  BY PostedAssumption, CommandAssumption
     DEF Posted, ClimateCmds, CloseAllCmd, ResumeCmd, The

(* No command of theirs sets a pulse. *)
LEMMA StartPulse ==
    ASSUME NEW c \in ChannelRecord, NEW dir, NEW src, NEW t, NEW ok
    PROVE  Start(c, dir, src, t, ok).pulse = c.pulse
  BY DEF Start, Claim, Reverse, Energise, ChannelRecord

LEMMA StartTargetPulse ==
    ASSUME NEW c, NEW l, ChannelInv(c, l), NEW want \in Nat, NEW src \in Sources,
           NEW reading, NEW lead \in Leads, NEW t \in Travels, NEW ok \in NvsWrites
    PROVE  StartTarget(c, l, want, src, reading, lead, t, ok).pulse = c.pulse
  <1> DEFINE dir == IF want >= Stroke \/ (want \in 1..(Stroke - 1) /\ want > l)
                    THEN "open" ELSE "close"
             k   == Start(c, dir, src, t, ok)
  <1>1. dir \in Directions
    BY DEF Directions
  <1>2. k \in ChannelRecord /\ k.pulse = c.pulse
    BY <1>1, StartKeeps, StartPulse DEF ChannelInv
  <1> HIDE DEF k
  <1>3. \A a : [k EXCEPT !.aim = a].pulse = k.pulse
    BY <1>2 DEF ChannelRecord
  <1> QED  BY <1>2, <1>3 DEF StartTarget, k

(* A window on its way to CLOSED is left on it by an update. *)
ToClosed(c) ==
    \/ c.st = "CLOSED"
    \/ c.st \in {"MOVING_CLOSE", "GAP_TO_CLOSE"} /\ c.aim = NoTarget

LEMMA ReapPulse ==
    ASSUME NEW c \in ChannelRecord, c.pulse = NoPulse
    PROVE  Reap(c).pulse = NoPulse /\ Reap(c).st = c.st /\ Reap(c).aim = c.aim
  BY DEF Reap, ChannelRecord

LEMMA UpdateCloses ==
    ASSUME NEW c, NEW l, ChannelInv(c, l), NEW reading, NEW t \in Travels,
           NEW d \in Dwells, NEW ok \in NvsWrites, c.pulse = NoPulse
    PROVE  /\ Update(c, l, reading, t, d, ok).pulse = NoPulse
           /\ ToClosed(c) => ToClosed(Update(c, l, reading, t, d, ok))
  <1>0. c \in ChannelRecord /\ c.pulse # 0
    BY NoneAssumption DEF ChannelInv
  <1>1. CASE Moving(c)
    <2> DEFINE k == IF c.aim # NoTarget /\ reading = "lost"
                    THEN [c EXCEPT !.aim = NoTarget] ELSE c
               u == UpdateMoving(c, l, reading, d, ok)
    <2>1. /\ k \in ChannelRecord /\ k.pulse = NoPulse /\ k.st = c.st
          /\ k.relay = c.relay /\ k.left = c.left /\ k.nvs = c.nvs
          /\ k.aim = c.aim \/ k.aim = NoTarget
      BY <1>0 DEF ChannelRecord
    <2>2. Update(c, l, reading, t, d, ok) = Reap(u)
      BY <1>1 DEF Update, Moving, InGap
    <2> HIDE DEF k
    <2>3. CASE u = StopPart(c, d, ok) /\ c.aim # NoTarget
      <3>1. StopPart(c, d, ok) \in ChannelRecord
        BY <1>1, StopPartKeeps DEF ChannelInv
      <3>2. StopPart(c, d, ok).pulse = NoPulse
        BY <1>0 DEF StopPart, ChannelRecord
      <3>3. ~ToClosed(c)
        BY <1>1, <2>3 DEF ToClosed, Moving
      <3> QED  BY <2>2, <2>3, <3>1, <3>2, <3>3, ReapPulse
    <2>4. CASE u = StopAtEnd(k, d, ok) /\ c.left = 0
      <3>1. ChannelInv(k, l) /\ Moving(k)
        BY <1>1, <2>1, Bookkeeping DEF Moving
      <3>2. StopAtEnd(k, d, ok) \in ChannelRecord
        BY <2>1, <2>4, <3>1, StopAtEndKeeps DEF ChannelInv
      <3>3. /\ StopAtEnd(k, d, ok).pulse = NoPulse
            /\ StopAtEnd(k, d, ok).st = End[Heading(k)]
        BY <2>1 DEF StopAtEnd, ChannelRecord
      <3>4. ToClosed(c) => End[Heading(k)] = "CLOSED"
        BY <1>1, <2>1, Names DEF ToClosed, Moving, Heading
      <3> QED  BY <2>2, <2>4, <3>2, <3>3, <3>4, ReapPulse DEF ToClosed
    <2>5. CASE u = k
      <3>1. ToClosed(c) => ToClosed(k)
        BY <2>1 DEF ToClosed
      <3> QED  BY <2>1, <2>2, <2>5, <3>1, ReapPulse DEF ToClosed
    <2> QED  BY <1>0, <2>3, <2>4, <2>5 DEF UpdateMoving, k
  <1>2. CASE InGap(c) /\ c.gap = 0
    <2>1. (NvsReliable => c.nvs # "CLOSED") /\ Heading(c) \in Directions
      BY <1>2 DEF ChannelInv, Heading, Directions
    <2>2. /\ Energise(c, Heading(c), t) \in ChannelRecord
          /\ Energise(c, Heading(c), t).st = MovingTo[Heading(c)]
      BY <2>1, EnergiseKeeps DEF ChannelInv
    <2>3. /\ Energise(c, Heading(c), t).pulse = NoPulse
          /\ Energise(c, Heading(c), t).aim = c.aim
      BY <1>0 DEF Energise, ChannelRecord
    <2>4. ToClosed(c) => MovingTo[Heading(c)] = "MOVING_CLOSE" /\ c.aim = NoTarget
      BY <1>2, Names DEF ToClosed, InGap, Heading
    <2>5. Update(c, l, reading, t, d, ok) = Reap(Energise(c, Heading(c), t))
      BY <1>2 DEF Update, Moving, InGap
    <2> QED  BY <2>2, <2>3, <2>4, <2>5, ReapPulse DEF ToClosed
  <1>3. CASE ~Moving(c) /\ ~(InGap(c) /\ c.gap = 0)
    <2>1. Update(c, l, reading, t, d, ok) = Reap(c)
      BY <1>3 DEF Update
    <2> QED  BY <1>0, <2>1, ReapPulse DEF ToClosed
  <1> QED  BY <1>1, <1>2, <1>3

(* Obeying a CLOSE_ALL of T3 sends a window to CLOSED, whatever it was at.  *)
LEMMA StartCloses ==
    ASSUME NEW c, NEW l, ChannelInv(c, l), NEW t \in Travels, NEW ok \in NvsWrites
    PROVE  ToClosed(Start(c, "close", "T3", t, ok))
  <1> DEFINE k == Claim(c, "close", "T3")
             p == [k EXCEPT !.st = "GAP_TO_CLOSE", !.src = "T3"]
             m == [k EXCEPT !.nvs = Persist(c, "UNKNOWN", ok), !.src = "T3"]
  <1>1. /\ k.st = c.st /\ k.aim = NoTarget /\ k \in ChannelRecord
        /\ "close" \in Directions /\ "T3" \in Sources
    BY ClaimKeeps DEF Directions, Sources, ChannelInv
  <1>2. ~Deferred(c, "close", "T3")
    BY DEF Deferred
  <1> HIDE DEF k
  <1>3. CASE c.st \in {"CLOSED", "MOVING_CLOSE", "GAP_TO_CLOSE"}
    <2>1. Start(c, "close", "T3", t, ok) = k
      BY <1>2, <1>3, Names DEF Start, k
    <2> QED  BY <1>1, <1>3, <2>1 DEF ToClosed
  <1>4. CASE c.st = "MOVING_OPEN"
    <2>1. Start(c, "close", "T3", t, ok) = Reverse(k, "close", "T3")
      BY <1>2, <1>4, Names DEF Start, k
    <2>2. /\ Reverse(k, "close", "T3").st = "GAP_TO_CLOSE"
          /\ Reverse(k, "close", "T3").aim = NoTarget
      BY <1>1, Names DEF Reverse, ChannelRecord
    <2> QED  BY <2>1, <2>2 DEF ToClosed
  <1>5. CASE c.st = "GAP_TO_OPEN"
    <2>1. Start(c, "close", "T3", t, ok) = p
      BY <1>2, <1>5, Names DEF Start, k
    <2>2. p.st = "GAP_TO_CLOSE" /\ p.aim = NoTarget
      BY <1>1 DEF ChannelRecord
    <2> QED  BY <2>1, <2>2 DEF ToClosed
  <1>6. CASE c.st \notin {"CLOSED", "MOVING_CLOSE", "GAP_TO_CLOSE", "MOVING_OPEN", "GAP_TO_OPEN"}
    <2>1. Start(c, "close", "T3", t, ok) = Energise(m, "close", t)
      BY <1>2, <1>6, Names DEF Start, k
    <2>2. m.aim = NoTarget /\ Energise(m, "close", t).aim = m.aim
          /\ Energise(m, "close", t).st = "MOVING_CLOSE"
      BY <1>1, Names DEF Energise, ChannelRecord
    <2> QED  BY <2>1, <2>2 DEF ToClosed
  <1> QED  BY <1>3, <1>4, <1>5, <1>6

-----------------------------------------------------------------------------
(* T2's own steps, and what goes on around it. *)
LEMMA T2Rules ==
    ASSUME RelayInv, NoPulses,
           T2Step \/ DrainDone \/ Tick \/ ContactMoves \/ IsrOpens
    PROVE  NoPulses' /\ (Suspended \/ AllClosing => Suspended' \/ AllClosing')
  <1>b. \A c \in Channel : /\ ChannelInv(ch[c], leaf[c]) /\ ch[c] \in ChannelRecord
                           /\ ch[c].pulse = NoPulse
    BY DEF RelayInv, ChannelInv, NoPulses
  <1>1. CASE Onset
    <2>1. PICK ok \in [Channel -> NvsWrites] :
              ch' = [c \in Channel |-> Suspend(ch[c], ok[c])]
      BY <1>1 DEF Onset
    <2>2. NoPulses'
      BY <1>b, <2>1 DEF Suspend, ChannelRecord, NoPulses
    <2> QED  BY <1>1, <2>2 DEF Onset, Suspended
  <1>2. CASE BootRecovered
    <2>1. \A c \in Channel : ch'[c].pulse = NoPulse /\ ch'[c].st = "CLOSED"
      BY <1>2, <1>b DEF BootRecovered, ChannelRecord
    <2> QED  BY <2>1 DEF NoPulses, AllClosing, Closing
  <1>3. CASE BootCalibrate \/ AlarmSeen \/ GuardPoll
    BY <1>3 DEF BootCalibrate, AlarmSeen, GuardPoll, NoPulses, Suspended
  <1>4. CASE SweepStart
    <2>1. PICK t \in [Channel -> Travels], ok \in [Channel -> NvsWrites] :
              ch' = [c \in Channel |-> Sweep(ch[c], t[c], ok[c])]
      BY <1>4 DEF SweepStart
    <2>2. NoPulses'
      BY <1>b, <2>1 DEF Sweep, ChannelRecord, NoPulses
    <2> QED  BY <1>4, <2>2 DEF SweepStart, Suspended
  <1>5. CASE SweepPoll
    <2>1. PICK d \in [Channel -> Dwells], ok \in [Channel -> NvsWrites] :
              ch' = [c \in Channel |-> Swept(ch[c], d[c], ok[c])]
      BY <1>5 DEF SweepPoll
    <2>2. NoPulses'
      BY <1>b, <2>1 DEF Swept, ChannelRecord, NoPulses
    <2>3. pc' = "sweeping" \/ \A c \in Channel : ch'[c].st = "CLOSED"
      BY <1>5 DEF SweepPoll
    <2> QED  BY <2>2, <2>3 DEF Suspended, AllClosing, Closing
  <1>6. CASE Top
    <2>1. \A c \in Channel : /\ ch'[c].pulse = NoPulse /\ ch'[c].st = ch[c].st
                             /\ ch'[c].aim = ch[c].aim
      BY <1>6, <1>b DEF Top, ChannelRecord
    <2> QED  BY <1>6, <2>1 DEF Top, NoPulses, Suspended, AllClosing, Closing
  <1>7. CASE AlarmQuiet \/ DrainDone \/ ContactMoves \/ IsrOpens
    <2>1. ch' = ch /\ eg' = eg /\ (pc' = pc \/ pc \in {"alarm", "drain"})
      BY <1>7 DEF AlarmQuiet, DrainDone, ContactMoves, IsrOpens
    <2> QED  BY <2>1 DEF NoPulses, Suspended, AllClosing, Closing
  <1>8. CASE AlarmCheck /\ ~Onset
    <2>1. ch' = ch /\ pc = "alarm" /\ (pc' = "guard" \/ eg' = eg)
      BY <1>8 DEF AlarmCheck
    <2> QED  BY <2>1 DEF NoPulses, Suspended, AllClosing, Closing
  <1>9. CASE UpdateAll
    <2>1. PICK t \in [Channel -> Travels], d \in [Channel -> Dwells],
              reading \in {"fresh", "waiting", "lost"}, ok \in [Channel -> NvsWrites] :
              ch' = [c \in Channel |-> Update(ch[c], leaf[c], reading, t[c], d[c], ok[c])]
      BY <1>9 DEF UpdateAll
    <2>2. \A c \in Channel : /\ ch'[c].pulse = NoPulse
                             /\ ToClosed(ch[c]) => ToClosed(ch'[c])
      BY <1>b, <2>1, UpdateCloses
    <2>3. eg' = eg /\ pc = "update"
      BY <1>9 DEF UpdateAll
    <2> QED  BY <2>2, <2>3 DEF NoPulses, Suspended, AllClosing, Closing, ToClosed
  <1>10. CASE Tick
    <2>1. ch' = [c \in Channel |-> Elapse(ch[c])] /\ eg' = eg /\ pc' = pc
      BY <1>10 DEF Tick
    <2>2. \A c \in Channel : /\ ch'[c].pulse = NoPulse /\ ch'[c].st = ch[c].st
                             /\ ch'[c].aim = ch[c].aim
      BY <1>b, <2>1 DEF Elapse, ChannelRecord
    <2> QED  BY <2>1, <2>2 DEF NoPulses, Suspended, AllClosing, Closing
  <1>11. BootAlarmed \/ Trip => Onset
    BY DEF BootAlarmed, Trip
  <1> QED  BY <1>1, <1>2, <1>3, <1>4, <1>5, <1>6, <1>7, <1>8, <1>9, <1>10, <1>11
           DEF T2Step

(* Working off a command of T3 or T6. *)
LEMMA CommandRules ==
    ASSUME RelayInv, NoPulses, NEW cmd \in Posted, Process(cmd)
    PROVE  /\ NoPulses'
           /\ cmd.src = "T3" /\ (Suspended \/ AllClosing) => Suspended' \/ AllClosing'
           /\ cmd = CloseAllCmd => Suspended' \/ AllClosing'
  <1>b. \A c \in Channel : /\ ChannelInv(ch[c], leaf[c]) /\ ch[c] \in ChannelRecord
                           /\ ch[c].pulse = NoPulse
    BY DEF RelayInv, ChannelInv, NoPulses
  <1>0. /\ cmd.ch \in Channel /\ cmd.dir \in Directions /\ cmd.val \in Nat
        /\ cmd.src \in Sources /\ M3 \in Channel /\ ch = [c \in Channel |-> ch[c]]
    BY PostedAreCommands, ChannelAssumption DEF Command, RelayInv, TypeOK
  <1>1. CASE Discard(cmd)
    BY <1>1 DEF Discard, vars, NoPulses, Suspended
  <1>2. CASE Resume(cmd)
    <2>1. cmd # CloseAllCmd
      BY <1>2, PostedAreCommands DEF Resume
    <2> QED  BY <1>2, <2>1 DEF Resume, vars, NoPulses, Suspended, AllClosing, Closing
  <1>3. CASE CloseAll(cmd)
    <2>1. PICK t \in [Channel -> Travels], ok \in [Channel -> NvsWrites] :
              ch' = [c \in Channel |-> Start(ch[c], "close", cmd.src, t[c], ok[c])]
      BY <1>3 DEF CloseAll
    <2>2. NoPulses'
      BY <1>b, <2>1, StartPulse DEF NoPulses
    <2>3. cmd.src = "T3"
      BY <1>3, PostedAreCommands DEF Posted, CloseAll
    <2>4. \A c \in Channel : ToClosed(ch'[c])
      BY <1>b, <2>1, <2>3, StartCloses
    <2> QED  BY <2>2, <2>4 DEF AllClosing, Closing, ToClosed
  <1>4. CASE Move(cmd) \/ Target(cmd)
    <2>1. cmd # CloseAllCmd /\ cmd.src # "T3"
      BY <1>4, PostedAreCommands DEF Posted, Move, Target
    <2>2. CASE Move(cmd)
      <3>1. PICK t \in Travels, ok \in NvsWrites :
                ch' = [ch EXCEPT ![cmd.ch] = Start(ch[cmd.ch], cmd.dir, cmd.src, t, ok)]
        BY <2>2 DEF Move
      <3>2. Start(ch[cmd.ch], cmd.dir, cmd.src, t, ok).pulse = NoPulse
        BY <1>b, <1>0, StartPulse
      <3> QED  BY <1>b, <1>0, <2>1, <3>1, <3>2 DEF NoPulses
    <2>3. CASE Target(cmd)
      <3>1. PICK reading \in {"untaught", "untrusted", "trusted"}, lead \in Leads,
                 t \in Travels, ok \in NvsWrites :
                ch' = [ch EXCEPT ![M3] = StartTarget(ch[M3], leaf[M3], cmd.val, cmd.src,
                                                     reading, lead, t, ok)]
        BY <2>3 DEF Target
      <3>2. StartTarget(ch[M3], leaf[M3], cmd.val, cmd.src, reading, lead, t, ok).pulse
                = NoPulse
        BY <1>b, <1>0, StartTargetPulse
      <3> QED  BY <1>b, <1>0, <2>1, <3>1, <3>2 DEF NoPulses
    <2> QED  BY <1>4, <2>2, <2>3
  <1>5. ~PulseM3(cmd) /\ ~StopM3(cmd) /\ ~Recalibrate(cmd)
    BY PostedAreCommands DEF Posted, PulseM3, StopM3, Recalibrate
  <1> QED  BY <1>1, <1>2, <1>3, <1>4, <1>5 DEF Process

-----------------------------------------------------------------------------
(* Q1. *)

(* What xQueueSend() does to a queue of T3's and T6's commands. *)
LEMMA SendKeeps ==
    ASSUME q1 \in Seq(Posted), Len(q1) <= Q1Depth, NEW cmd \in Posted, Send(cmd)
    PROVE  /\ q1' \in Seq(Posted) /\ Len(q1') <= Q1Depth
           /\ NoneOfT6 /\ cmd.src = "T3" => NoneOfT6'
           /\ CloseIsQueued /\ cmd.src = "T3" => CloseIsQueued'
           /\ cmd = CloseAllCmd /\ ~Full => CloseIsQueued'
  <1>0. Q1Depth \in Nat /\ Len(q1) \in Nat
    BY QueueAssumption
  <1>1. CASE Full
    BY <1>1 DEF Send, NoneOfT6, CloseIsQueued
  <1>2. CASE ~Full
    <2>1. q1' = Append(q1, cmd)
      BY <1>2 DEF Send
    <2>2. /\ q1' \in Seq(Posted) /\ Len(q1') = Len(q1) + 1
          /\ q1'[Len(q1) + 1] = cmd
          /\ \A i \in 1..Len(q1) : q1'[i] = q1[i]
      BY <1>0, <2>1
    <2>3. DOMAIN q1 = 1..Len(q1) /\ DOMAIN q1' = 1..Len(q1')
      BY <2>2
    <2>4. NoneOfT6 /\ cmd.src = "T3" => NoneOfT6'
      BY <1>0, <2>2 DEF NoneOfT6
    <2>5. ASSUME CloseIsQueued, cmd.src = "T3" PROVE CloseIsQueued'
      <3>1. PICK i \in 1..Len(q1) : /\ q1[i] = CloseAllCmd
                                    /\ \A j \in (i + 1)..Len(q1) : q1[j].src = "T3"
        BY <2>3, <2>5 DEF CloseIsQueued
      <3>2. i \in 1..Len(q1') /\ q1'[i] = CloseAllCmd
        BY <1>0, <2>2, <3>1
      <3>3. \A j \in (i + 1)..Len(q1') : q1'[j].src = "T3"
        BY <1>0, <2>2, <2>5, <3>1
      <3> QED  BY <2>3, <3>2, <3>3 DEF CloseIsQueued, CloseAllCmd, The
    <2>6. ASSUME cmd = CloseAllCmd PROVE CloseIsQueued'
      <3>1. Len(q1) + 1 \in 1..Len(q1') /\ q1'[Len(q1) + 1] = CloseAllCmd
            /\ \A j \in (Len(q1) + 2)..Len(q1') : FALSE
        BY <1>0, <2>2, <2>6
      <3> QED  BY <2>3, <3>1, <1>0 DEF CloseIsQueued, CloseAllCmd, The
    <2> QED  BY <1>0, <1>2, <2>2, <2>4, <2>5, <2>6 DEF Full
  <1> QED  BY <1>1, <1>2

(* T2 takes the oldest. *)
LEMMA TakeKeeps ==
    ASSUME q1 \in Seq(Posted), Len(q1) <= Q1Depth, q1 # <<>>, q1' = Tail(q1)
    PROVE  /\ Head(q1) \in Posted
           /\ q1' \in Seq(Posted) /\ Len(q1') <= Q1Depth
           /\ NoneOfT6 => NoneOfT6' /\ Head(q1).src = "T3"
           /\ CloseIsQueued =>
                CloseIsQueued' \/ (NoneOfT6' /\ Head(q1) = CloseAllCmd)
  <1>0. /\ Q1Depth \in Nat /\ Len(q1) \in Nat /\ Len(q1) > 0 /\ Head(q1) = q1[1]
        /\ q1' \in Seq(Posted) /\ Len(q1') = Len(q1) - 1
        /\ \A i \in 1..Len(q1') : q1'[i] = q1[i + 1]
        /\ DOMAIN q1 = 1..Len(q1) /\ DOMAIN q1' = 1..Len(q1')
        /\ Head(q1) \in Posted
    BY QueueAssumption
  <1>1. NoneOfT6 => NoneOfT6' /\ Head(q1).src = "T3"
    BY <1>0 DEF NoneOfT6
  <1>2. ASSUME CloseIsQueued
        PROVE  CloseIsQueued' \/ (NoneOfT6' /\ Head(q1) = CloseAllCmd)
    <2>1. PICK i \in 1..Len(q1) : /\ q1[i] = CloseAllCmd
                                  /\ \A j \in (i + 1)..Len(q1) : q1[j].src = "T3"
      BY <1>0, <1>2 DEF CloseIsQueued
    <2>2. CASE i = 1
      BY <1>0, <2>1, <2>2 DEF NoneOfT6
    <2>3. CASE i # 1
      <3>1. i - 1 \in 1..Len(q1') /\ q1'[i - 1] = CloseAllCmd
        BY <1>0, <2>1, <2>3
      <3>2. \A j \in ((i - 1) + 1)..Len(q1') : q1'[j].src = "T3"
        BY <1>0, <2>1, <2>3
      <3> QED  BY <1>0, <3>1, <3>2 DEF CloseIsQueued, CloseAllCmd, The
    <2> QED  BY <2>2, <2>3
  <1> QED  BY <1>0, <1>1, <1>2

-----------------------------------------------------------------------------
(* The whole loop. *)

LEMMA VentInitInv == VentInit => VentInv
  <1> SUFFICES ASSUME VentInit PROVE VentInv
    OBVIOUS
  <1>1. RelayInv
    BY InitInv DEF VentInit
  <1>2. NoPulses
    BY DEF VentInit, Init, PoweredOn, NoPulses
  <1>3. TasksOK
    <2>1. q1 \in Seq(Posted) /\ Len(q1) <= Q1Depth
      BY QueueAssumption DEF VentInit
    <2>2. /\ wind \in BOOLEAN /\ gale \in BOOLEAN
          /\ pending \in BOOLEAN /\ alarm3 \in BOOLEAN
      BY Zenon DEF VentInit
    <2>3. pc3 = "wait" /\ pc6 = "wait" /\ cmd6 = NoCommand
      BY DEF VentInit
    <2> QED  BY <2>1, <2>2, <2>3, Zenon DEF TasksOK
  <1> QED  BY <1>1, <1>2, <1>3 DEF VentInit, VentInv

(* Every step of the loop is one of T2, or leaves T2 alone. *)
LEMMA RelayStep ==
    ASSUME TasksOK, VentNext
    PROVE  [Next]_vars
  <1>1. CASE Reading \/ T3 \/ T6
    BY <1>1 DEF Reading, T3, Wake3, Steady3, Onset3, Close3, Clear3, Resume3,
                T6, Wake6, Plan6, Post6, relay
  <1>2. CASE Receive
    <2>1. Head(q1) \in Commands
      BY <1>2, PostedAreCommands DEF Receive, TasksOK
    <2> QED  BY <1>2, <2>1 DEF Receive, Next
  <1>3. CASE Work \/ Around
    BY <1>3 DEF Work, Around, Next, Environment
  <1> QED  BY <1>1, <1>2, <1>3 DEF VentNext

(* A step that leaves T2 alone leaves its windows. *)
LEMMA RelayStays ==
    ASSUME NoPulses, relay' = relay
    PROVE  /\ NoPulses' /\ (Suspended' <=> Suspended) /\ (AllClosing' <=> AllClosing)
  BY DEF relay, vars, NoPulses, Suspended, AllClosing, Closing

LEMMA VentStepInv ==
    ASSUME VentInv, [VentNext]_ventVars
    PROVE  VentInv'
  <1>i. RelayInv /\ NoPulses /\ TasksOK /\ alarm3 = wind
    BY DEF VentInv
  <1>q. Q1Depth \in Nat /\ q1 \in Seq(Posted) /\ Len(q1) <= Q1Depth
    BY <1>i, QueueAssumption DEF TasksOK
  <1>p. CloseAllCmd \in Posted /\ ResumeCmd \in Posted /\ CloseAllCmd.src = "T3"
        /\ ResumeCmd.src = "T3" /\ ClimateCmds \subseteq Posted
        /\ Posted \subseteq Command
    BY PostedAreCommands DEF Posted
  <1>s. CASE UNCHANGED ventVars
    <2>1. /\ relay' = relay
          /\ UNCHANGED <<q1, gale, wind, pc3, pending, alarm3, pc6, cmd6>>
      BY <1>s DEF ventVars, t3, t6
    <2>2. RelayInv'
      <3>1. [Next]_vars
        BY <2>1 DEF relay
      <3> QED  BY <1>i, <3>1, StepInv
    <2>3. TasksOK' /\ (Rules => Rules')
      BY <1>i, <2>1, RelayStays DEF TasksOK, Rules, CloseIsQueued, NoneOfT6
    <2> QED  BY <1>i, <2>1, <2>2, <2>3, RelayStays DEF VentInv
  <1>r. ASSUME VentNext PROVE RelayInv'
    BY <1>i, <1>r, RelayStep, StepInv
  <1>1. CASE Reading
    <2>1. relay' = relay /\ gale' = ~gale
          /\ UNCHANGED <<q1, wind, pc3, pending, alarm3, pc6, cmd6>>
      BY <1>1 DEF Reading, t3, t6
    <2>2. TasksOK'
      BY <1>i, <2>1 DEF TasksOK
    <2>3. Rules => Rules'
      BY <1>i, <2>1, RelayStays DEF Rules, CloseIsQueued, NoneOfT6
    <2>4. RelayInv'
      BY <1>1, <1>r DEF VentNext
    <2> QED  BY <1>i, <2>1, <2>2, <2>3, <2>4, RelayStays DEF VentInv
  <1>2. CASE T3
    <2>0. RelayInv'
      BY <1>2, <1>r DEF VentNext
    <2>1. CASE Wake3
      <3>1. /\ relay' = relay /\ UNCHANGED <<gale, wind, alarm3, pc6, cmd6>>
            /\ pc3 = "wait" /\ pc3' \in {"wait", "judge"}
        BY <2>1 DEF Wake3, t6
      <3>2. CASE pending /\ alarm3
        <4>1. Send(CloseAllCmd) /\ pending' = Full
          BY <2>1, <3>2 DEF Wake3
        <4>2. /\ q1' \in Seq(Posted) /\ Len(q1') <= Q1Depth
              /\ ~Full => CloseIsQueued'
          BY <1>q, <1>p, <4>1, SendKeeps
        <4>3. TasksOK' /\ Rules'
          BY <1>i, <3>1, <4>1, <4>2 DEF TasksOK, Rules, Full
        <4> QED  BY <1>i, <2>0, <3>1, <4>3, RelayStays DEF VentInv
      <3>3. CASE ~(pending /\ alarm3)
        <4>1. q1' = q1 /\ pending' = FALSE
          BY <2>1, <3>3 DEF Wake3
        <4>2. TasksOK'
          BY <1>i, <3>1, <4>1 DEF TasksOK
        <4>3. wind /\ Rules => Rules'
          BY <1>i, <3>1, <3>3, <4>1, RelayStays DEF Rules, CloseIsQueued, NoneOfT6
        <4> QED  BY <1>i, <2>0, <3>1, <4>2, <4>3, RelayStays DEF VentInv
      <3> QED  BY <3>2, <3>3
    <2>2. CASE Steady3
      <3>1. /\ relay' = relay /\ pc3 = "judge" /\ pc3' = "wait"
            /\ UNCHANGED <<q1, gale, wind, pending, alarm3, pc6, cmd6>>
        BY <2>2 DEF Steady3, t6
      <3>2. TasksOK' /\ (Rules => Rules')
        BY <1>i, <3>1, RelayStays DEF TasksOK, Rules, CloseIsQueued, NoneOfT6
      <3> QED  BY <1>i, <2>0, <3>1, <3>2, RelayStays DEF VentInv
    <2>3. CASE Onset3
      <3>1. /\ relay' = relay /\ pc3' = "close" /\ alarm3' = TRUE /\ wind' = TRUE
            /\ T6Undisturbed => pc6 = "wait"
            /\ UNCHANGED <<q1, gale, pending, pc6, cmd6>>
        BY <2>3 DEF Onset3, t6, T3MayRun
      <3>2. TasksOK'
        BY <1>i, <3>1 DEF TasksOK
      <3> QED  BY <1>i, <2>0, <3>1, <3>2, RelayStays DEF VentInv
    <2>4. CASE Close3
      <3>1. /\ relay' = relay /\ pc3' = "wait" /\ Send(CloseAllCmd) /\ pending' = Full
            /\ UNCHANGED <<gale, wind, alarm3, pc6, cmd6>>
        BY <2>4 DEF Close3, t6
      <3>2. /\ q1' \in Seq(Posted) /\ Len(q1') <= Q1Depth
            /\ ~Full => CloseIsQueued'
        BY <1>q, <1>p, <3>1, SendKeeps
      <3>3. TasksOK' /\ Rules'
        BY <1>i, <3>1, <3>2 DEF TasksOK, Rules, Full
      <3> QED  BY <1>i, <2>0, <3>1, <3>3, RelayStays DEF VentInv
    <2>5. CASE Clear3
      <3>1. /\ relay' = relay /\ pc3' = "resume" /\ alarm3' = FALSE /\ wind' = FALSE
            /\ pending' = FALSE /\ UNCHANGED <<q1, gale, pc6, cmd6>>
        BY <2>5 DEF Clear3, t6
      <3>2. TasksOK'
        BY <1>i, <3>1 DEF TasksOK
      <3> QED  BY <1>i, <2>0, <3>1, <3>2, RelayStays DEF VentInv
    <2>6. CASE Resume3
      <3>1. /\ relay' = relay /\ pc3 = "resume" /\ pc3' = "wait" /\ Send(ResumeCmd)
            /\ UNCHANGED <<gale, wind, pending, alarm3, pc6, cmd6>>
        BY <2>6 DEF Resume3, t6
      <3>2. /\ q1' \in Seq(Posted) /\ Len(q1') <= Q1Depth
            /\ NoneOfT6 => NoneOfT6'
            /\ CloseIsQueued => CloseIsQueued'
        BY <1>q, <1>p, <3>1, SendKeeps
      <3>3. TasksOK' /\ (Rules => Rules')
        BY <1>i, <3>1, <3>2, RelayStays DEF TasksOK, Rules
      <3> QED  BY <1>i, <2>0, <3>1, <3>3, RelayStays DEF VentInv
    <2> QED  BY <1>2, <2>1, <2>2, <2>3, <2>4, <2>5, <2>6 DEF T3
  <1>3. CASE T6
    <2>0. RelayInv' /\ (T6Undisturbed /\ wind => pc6 = "wait")
      BY <1>3, <1>r DEF VentNext, VentInv
    <2>1. CASE Wake6
      <3>1. /\ relay' = relay /\ pc6 = "wait"
            /\ pc6' = IF Inhibited THEN "wait" ELSE "plan"
            /\ UNCHANGED <<q1, gale, wind, pc3, pending, alarm3, cmd6>>
        BY <2>1 DEF Wake6, t3
      <3>2. TasksOK' /\ (Rules => Rules') /\ (wind => pc6' = "wait")
        BY <1>i, <3>1, RelayStays
           DEF TasksOK, Rules, CloseIsQueued, NoneOfT6, Inhibited
      <3> QED  BY <1>i, <2>0, <3>1, <3>2, RelayStays DEF VentInv
    <2>2. CASE Plan6
      <3>1. /\ relay' = relay /\ pc6 = "plan"
            /\ UNCHANGED <<q1, gale, wind, pc3, pending, alarm3>>
            /\ \/ pc6' = "wait" /\ cmd6' = cmd6
               \/ pc6' = "post" /\ cmd6' \in ClimateCmds
        BY <2>2 DEF Plan6, t3
      <3>2. TasksOK' /\ ~(T6Undisturbed /\ wind)
        BY <1>i, <1>p, <2>0, <3>1 DEF TasksOK
      <3> QED  BY <1>i, <2>0, <3>1, <3>2, RelayStays DEF VentInv
    <2>3. CASE Post6
      <3>1. /\ relay' = relay /\ pc6 = "post" /\ Send(cmd6)
            /\ pc6' = "wait" /\ cmd6' = NoCommand
            /\ UNCHANGED <<gale, wind, pc3, pending, alarm3>>
        BY <2>3 DEF Post6, t3
      <3>2. q1' \in Seq(Posted) /\ Len(q1') <= Q1Depth
        BY <1>i, <1>q, <1>p, <3>1, SendKeeps DEF TasksOK
      <3>3. TasksOK' /\ ~(T6Undisturbed /\ wind)
        BY <1>i, <2>0, <3>1, <3>2 DEF TasksOK
      <3> QED  BY <1>i, <2>0, <3>1, <3>3, RelayStays DEF VentInv
    <2> QED  BY <1>3, <2>1, <2>2, <2>3 DEF T6
  <1>4. CASE Receive
    <2>1. /\ q1 # <<>> /\ Process(Head(q1)) /\ q1' = Tail(q1)
          /\ UNCHANGED <<gale, wind, pc3, pending, alarm3, pc6, cmd6>>
      BY <1>4 DEF Receive, t3, t6
    <2>2. /\ Head(q1) \in Posted
          /\ q1' \in Seq(Posted) /\ Len(q1') <= Q1Depth
          /\ NoneOfT6 => NoneOfT6' /\ Head(q1).src = "T3"
          /\ CloseIsQueued =>
               CloseIsQueued' \/ (NoneOfT6' /\ Head(q1) = CloseAllCmd)
      BY <1>q, <2>1, TakeKeeps
    <2>3. /\ NoPulses'
          /\ Head(q1).src = "T3" /\ (Suspended \/ AllClosing) => Suspended' \/ AllClosing'
          /\ Head(q1) = CloseAllCmd => Suspended' \/ AllClosing'
      BY <1>i, <2>1, <2>2, CommandRules
    <2>4. TasksOK'
      BY <1>i, <2>1, <2>2 DEF TasksOK
    <2>5. Rules => Rules'
      BY <2>1, <2>2, <2>3 DEF Rules
    <2>6. RelayInv'
      BY <1>4, <1>r DEF VentNext
    <2> QED  BY <1>i, <2>1, <2>3, <2>4, <2>5, <2>6 DEF VentInv
  <1>5. CASE Work \/ Around
    <2>1. /\ T2Step \/ DrainDone \/ Tick \/ ContactMoves \/ IsrOpens
          /\ UNCHANGED <<q1, gale, wind, pc3, pending, alarm3, pc6, cmd6>>
      BY <1>5 DEF Work, Around, t3, t6
    <2>2. NoPulses' /\ (Suspended \/ AllClosing => Suspended' \/ AllClosing')
      BY <1>i, <2>1, T2Rules
    <2>3. TasksOK' /\ (Rules => Rules')
      BY <1>i, <2>1, <2>2 DEF TasksOK, Rules, CloseIsQueued, NoneOfT6
    <2>4. RelayInv'
      BY <1>5, <1>r DEF VentNext
    <2> QED  BY <1>i, <2>1, <2>2, <2>3, <2>4 DEF VentInv
  <1> QED  BY <1>s, <1>1, <1>2, <1>3, <1>4, <1>5 DEF VentNext

(* The inductive invariant of the loop. *)
THEOREM VentInductive == VentSpec => []VentInv
  <1>1. VentInv /\ [VentNext]_ventVars => VentInv'
    BY VentStepInv
  <1> QED  BY VentInitInv, <1>1, PTL DEF VentSpec

(* Q1 keeps its depth and holds commands, whatever that depth is, and every *)
(* task is at one of its steps.                                             *)
THEOREM VentTyped == VentSpec => []VentTypeOK
  <1>1. VentInv => VentTypeOK
    <2>1. ASSUME TasksOK PROVE VentTypeOK
      <3>1. \A i \in DOMAIN q1 : q1[i] \in Posted
        BY <2>1 DEF TasksOK
      <3> QED  BY <2>1, <3>1, PostedAreCommands DEF TasksOK, VentTypeOK
    <2> QED  BY <2>1 DEF VentInv
  <1> QED  BY VentInductive, <1>1, PTL

(* FR-WS05 for every depth of Q1, every number of windows and whatever the  *)
(* climate law wants: provided T3 does not run between T6's look at EG1 and *)
(* its post, an override that has posted is obeyed.                         *)
THEOREM OverrideObeyed == ASSUME T6Undisturbed PROVE VentSpec => []OverrideRules
  <1>1. VentInv => OverrideRules
    BY DEF VentInv, Rules, OverrideRules, AllClosing
  <1> QED  BY VentInductive, <1>1, PTL

(* What was proved of T2 alone holds of it in the loop. *)
THEOREM EndsRealInLoop == ASSUME NvsReliable PROVE VentSpec => []EndsAreReal
  <1>1. VentInv => EndsAreReal
    BY DEF VentInv, RelayInv, ChannelInv, EndsAreReal
  <1> QED  BY VentInductive, <1>1, PTL
=============================================================================
