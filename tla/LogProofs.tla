------------------------------ MODULE LogProofs ------------------------------
(* What TLAPS proves of the logs: of the files on the card and their upload, *)
(* and of the rows that come to them.                                        *)
EXTENDS UpdateProofs, FiniteSetTheorems

-----------------------------------------------------------------------------
(* The files and their upload (LogShip). *)

(* What the latch, the cursor, T14's copy of the settings or a file on its    *)
(* way has passed is shipped, was passed over as T9's, or is gone; T9 writes  *)
(* to the newest, which T14 has taken only early.                             *)
Passed(mark) == \A f \in card : f <= mark => f \in shipped \cup jumped
PassedBefore(file) == \A f \in card : f < file => f \in shipped \cup jumped

ShipInv ==
    /\ card \subseteq 1 .. cur /\ IsFiniteSet(card) /\ Cardinality(card) >= 1
    /\ cur \in 1 .. MaxFile /\ shipped \subseteq 1 .. cur
    /\ ~full => cur \in card
    /\ sdOk => cur \in card /\ ~full
    /\ latch \in 0 .. cur /\ after \in 0 .. cur /\ snap \in 0 .. cur
    /\ pcU \in {"top", "daily", "wait", "rotation"}
    /\ pcF \in {"look", "scan", "send"} /\ hand \in 0 .. cur
    /\ Passed(latch) /\ Passed(after) /\ Passed(snap)
    /\ pcF = "send" => hand >= 1 /\ PassedBefore(hand)
    /\ torn = {} /\ (~full /\ cur \in Lo!Taken => early)

-----------------------------------------------------------------------------
(* The least of a set of numbers is one of them.                             *)
LEMMA Least ==
    ASSUME NEW S \in SUBSET Nat, S # {}
    PROVE  Lo!Min(S) \in S /\ \A y \in S : Lo!Min(S) <= y
  <1> DEFINE Upto == {0 .. x : x \in S}
  <1>1. Upto \subseteq FiniteSubsetsOf(Nat) /\ Upto # {}
    <2>1. ASSUME NEW x \in S  PROVE 0 .. x \in SUBSET Nat /\ IsFiniteSet(0 .. x)
      BY FS_Interval
    <2> QED  BY <2>1 DEF FiniteSubsetsOf
  <1>2. PICK u \in Upto : \A v \in Upto : <<v, u>> \notin StrictSubsetOrdering(Nat)
    <2> HIDE DEF Upto
    <2> QED  BY <1>1, FS_StrictSubsetOrderingWellFounded, WFMin
  <1>3. PICK m \in S : u = 0 .. m
    BY <1>2
  <1>4. ASSUME NEW y \in S  PROVE m <= y
    <2> SUFFICES ASSUME y < m  PROVE FALSE
      OBVIOUS
    <2>1. 0 .. y \in SUBSET Nat /\ 0 .. m \in SUBSET Nat /\ 0 .. y \subseteq 0 .. m
      OBVIOUS
    <2>2. m \in 0 .. m /\ m \notin 0 .. y
      OBVIOUS
    <2>3. <<0 .. y, 0 .. m>> \in StrictSubsetOrdering(Nat)
      BY <2>1, <2>2 DEF StrictSubsetOrdering
    <2> QED  BY <1>2, <1>3, <2>3
  <1> HIDE DEF Upto
  <1> QED  BY <1>4 DEF Lo!Min

(* Nothing but the oldest goes, and not the newest while another is there.   *)
LEMMA OldestGoes ==
    ASSUME NEW files, NEW newest \in Nat, files \subseteq 1 .. newest, newest \in files,
           IsFiniteSet(files), Cardinality(files) > 1
    PROVE  /\ files \ {Lo!Min(files)} \subseteq files /\ newest \in files \ {Lo!Min(files)}
           /\ IsFiniteSet(files \ {Lo!Min(files)}) /\ Cardinality(files \ {Lo!Min(files)}) >= 1
  <1>1. files \in SUBSET Nat /\ files # {}
    OBVIOUS
  <1>2. Lo!Min(files) \in files /\ \A y \in files : Lo!Min(files) <= y
    BY <1>1, Least
  <1>3. /\ IsFiniteSet(files \ {Lo!Min(files)}) /\ Cardinality(files) \in Nat
        /\ Cardinality(files \ {Lo!Min(files)}) = Cardinality(files) - 1
    BY <1>2, FS_RemoveElement, FS_CardinalityType
  <1>4. Lo!Min(files) # newest
    <2> SUFFICES ASSUME Lo!Min(files) = newest  PROVE FALSE
      OBVIOUS
    <2>1. ASSUME NEW y \in files  PROVE y = newest
      <3>1. y \in 1 .. newest /\ newest <= y
        BY <1>2
      <3> QED  BY <3>1
    <2>2. files = {newest}
      BY <2>1
    <2>3. Cardinality(files) = 1
      BY <2>2, FS_Singleton
    <2> QED  BY <2>3
  <1> QED  BY <1>3, <1>4

(* The module's own name for the size of a set. *)
LEMMA SizeIs == ASSUME NEW files  PROVE Lo!Cardinality(files) = Cardinality(files)
  BY DEF Lo!Cardinality, Lo!IsFiniteSet, Cardinality, IsFiniteSet

LEMMA Reclaims ==
    ASSUME Lo!LogAssumption, NEW files, NEW newest \in Nat, files \subseteq 1 .. newest,
           newest \in files, IsFiniteSet(files), Lo!MayReclaim(files)
    PROVE  /\ Lo!Reclaimed(files) \subseteq files /\ newest \in Lo!Reclaimed(files)
           /\ IsFiniteSet(Lo!Reclaimed(files)) /\ Cardinality(Lo!Reclaimed(files)) >= 1
  <1>0. MinFiles \in Nat \ {0} /\ Cardinality(files) \in Nat
    BY FS_CardinalityType DEF Lo!LogAssumption
  <1>1. Cardinality(files) > 1
    BY <1>0, SizeIs DEF Lo!MayReclaim
  <1> QED  BY <1>1, OldestGoes DEF Lo!Reclaimed

LEMMA Trims ==
    ASSUME Lo!LogAssumption, NEW files, NEW newest \in Nat, files \subseteq 1 .. newest,
           newest \in files, IsFiniteSet(files), Cardinality(files) >= 1
    PROVE  /\ Lo!Trimmed(files) \subseteq files /\ newest \in Lo!Trimmed(files)
           /\ IsFiniteSet(Lo!Trimmed(files)) /\ Cardinality(Lo!Trimmed(files)) >= 1
  <1>1. CASE Cardinality(files) > MaxFiles
    <2>0. MaxFiles \in Nat \ {0} /\ Cardinality(files) \in Nat
      BY FS_CardinalityType DEF Lo!LogAssumption
    <2>1. Cardinality(files) > 1
      BY <1>1, <2>0
    <2> QED  BY <1>1, <2>1, SizeIs, OldestGoes DEF Lo!Trimmed
  <1>2. CASE ~(Cardinality(files) > MaxFiles)
    BY <1>2, SizeIs DEF Lo!Trimmed
  <1> QED  BY <1>1, <1>2

-----------------------------------------------------------------------------
LEMMA ShipStarts == ASSUME Lo!LogAssumption, Lo!LogInit  PROVE ShipInv
  <1>1. IsFiniteSet({1}) /\ Cardinality({1}) = 1
    BY FS_Singleton
  <1> QED  BY <1>1 DEF Lo!LogInit, ShipInv, Passed, Lo!LogAssumption, Lo!Taken

LEMMA Touched ==
    ASSUME Lo!LogAssumption, ShipInv
    PROVE  /\ cur \in Nat /\ card \subseteq 1 .. cur /\ IsFiniteSet(card)
           /\ Cardinality(card) >= 1 /\ card # {} /\ MaxFile \in Nat
           /\ Lo!Taken \subseteq 1 .. cur
  <1>1. card # {}
    BY FS_EmptySet DEF ShipInv
  <1>2. hand \in 0 .. cur /\ (pcF = "send" => hand >= 1) /\ shipped \subseteq 1 .. cur /\ cur \in Nat
    BY DEF ShipInv
  <1>3. Lo!Taken \subseteq 1 .. cur
    BY <1>2 DEF Lo!Taken
  <1> QED  BY <1>1, <1>3 DEF ShipInv, Lo!LogAssumption

(* The newest of the files is T9's, while it is not full.                     *)
LEMMA NewestIs == ASSUME Lo!LogAssumption, ShipInv, ~full  PROVE Lo!Newest = cur
  <1>1. cur \in card /\ \A y \in card : cur >= y
    BY Touched DEF ShipInv
  <1>2. card \in SUBSET Nat
    BY Touched
  <1>3. \A x \in card : (\A y \in card : x >= y) => x = cur
    BY <1>1, <1>2
  <1> QED  BY <1>1, <1>3 DEF Lo!Newest, Lo!Max

(* T9 writes to no file that T14 has taken for closed.                        *)
LEMMA NoneTorn ==
    ASSUME Lo!LogAssumption, ShipInv, sdOk, Lo!RowAdded
    PROVE  torn' = {}
  BY DEF Lo!RowAdded, ShipInv

(* T9's files go on, and what was passed stays so: a file that is new is     *)
(* newer than all that was.                                                  *)
LEMMA CardKeeps ==
    ASSUME Lo!LogAssumption, ShipInv, UNCHANGED Lo!t14Vars,
           cur' \in 1 .. MaxFile, cur <= cur', card' \subseteq card \cup {cur'},
           cur' = cur \/ cur' = cur + 1,
           cur' = cur => card' \subseteq card /\ early' = early /\ (full => full'),
           IsFiniteSet(card'), Cardinality(card') >= 1,
           ~full' => cur' \in card', sdOk' => cur' \in card' /\ ~full',
           torn' = {}
    PROVE  ShipInv'
  <1>1. cur \in Nat /\ cur' \in Nat /\ MaxFile \in Nat
    BY DEF ShipInv, Lo!LogAssumption
  <1>2. card' \subseteq 1 .. cur'
    BY <1>1 DEF ShipInv
  <1>3. ASSUME NEW mark \in 0 .. cur, Passed(mark)
        PROVE  \A f \in card' : f <= mark => f \in shipped \cup jumped
    BY <1>1, <1>3 DEF ShipInv, Passed
  <1>4. Passed(latch)' /\ Passed(after)' /\ Passed(snap)'
    BY <1>3 DEF ShipInv, Passed, Lo!t14Vars
  <1>5. /\ latch' \in 0 .. cur' /\ after' \in 0 .. cur' /\ snap' \in 0 .. cur'
        /\ hand' \in 0 .. cur' /\ shipped' \subseteq 1 .. cur'
    BY <1>1 DEF ShipInv, Lo!t14Vars
  <1>6. ASSUME pcF' = "send"
        PROVE  hand' >= 1 /\ PassedBefore(hand)'
    <2>1. hand \in 0 .. cur /\ hand >= 1 /\ PassedBefore(hand) /\ hand' = hand
      BY <1>6 DEF ShipInv, Lo!t14Vars
    <2>2. \A f \in card' : f < hand => f \in shipped \cup jumped
      BY <1>1, <2>1 DEF ShipInv, PassedBefore
    <2> QED  BY <2>1, <2>2 DEF PassedBefore, Lo!t14Vars
  <1>7. Lo!Taken' = Lo!Taken
    BY DEF Lo!Taken, Lo!t14Vars
  <1>8. ASSUME ~full', cur' \in Lo!Taken'
        PROVE  early'
    <2>1. cur' = cur
      BY <1>1, <1>7, <1>8, Touched
    <2> QED  BY <1>7, <1>8, <2>1 DEF ShipInv
  <1> QED  BY <1>2, <1>4, <1>5, <1>6, <1>8 DEF ShipInv, Lo!t14Vars

LEMMA RowKeeps == ASSUME Lo!LogAssumption, ShipInv, Lo!WriteRow  PROVE ShipInv'
  <1>1. /\ UNCHANGED Lo!t14Vars /\ cur' = cur /\ full' = full /\ early' = early
        /\ cur \in card /\ ~full
    BY DEF Lo!WriteRow, ShipInv
  <1>2. torn' = {}
    BY NoneTorn DEF Lo!WriteRow, ShipInv
  <1>3. CASE card' = card
    BY <1>1, <1>2, <1>3, Touched, CardKeeps DEF ShipInv
  <1>4. CASE Lo!MayReclaim(card) /\ card' = Lo!Reclaimed(card)
    <2>1. /\ card' \subseteq card /\ cur \in card' /\ IsFiniteSet(card')
          /\ Cardinality(card') >= 1
      BY <1>1, <1>4, Touched, Reclaims
    <2> QED  BY <1>1, <1>2, <2>1, Touched, CardKeeps DEF ShipInv
  <1> QED  BY <1>3, <1>4 DEF Lo!WriteRow

LEMMA RotateKeeps == ASSUME Lo!LogAssumption, ShipInv, Lo!Rotate  PROVE ShipInv'
  <1>1. /\ UNCHANGED Lo!t14Vars /\ cur' = cur + 1 /\ cur < MaxFile /\ cur \in Nat
        /\ MaxFile \in Nat
    BY DEF Lo!Rotate, ShipInv, Lo!LogAssumption
  <1>2. cur' \in 1 .. MaxFile /\ cur <= cur' /\ cur' \in Nat /\ cur' # cur
    BY <1>1
  <1>9. torn' = {}
    BY NoneTorn DEF Lo!Rotate
  <1>3. /\ card \cup {cur'} \subseteq 1 .. cur' /\ IsFiniteSet(card \cup {cur'})
        /\ Cardinality(card \cup {cur'}) >= 1
    <2>1. cur' \notin card
      BY <1>1, Touched
    <2>2. /\ IsFiniteSet(card \cup {cur'})
          /\ Cardinality(card \cup {cur'}) = Cardinality(card) + 1
      BY <2>1, Touched, FS_AddElement
    <2> QED  BY <1>1, <2>2, Touched, FS_CardinalityType
  <1> DEFINE kept == Lo!Trimmed(card \cup {cur'})
  <1>4. /\ kept \subseteq card \cup {cur'} /\ cur' \in kept /\ IsFiniteSet(kept)
        /\ Cardinality(kept) >= 1
    BY <1>2, <1>3, Trims
  <1>5. kept \subseteq 1 .. cur'
    BY <1>3, <1>4
  <1>6. CASE full' = TRUE /\ sdOk' = FALSE /\ UNCHANGED card
    BY <1>1, <1>2, <1>6, <1>9, Touched, CardKeeps
  <1>7. CASE full' = FALSE /\ card' = kept
    BY <1>1, <1>2, <1>4, <1>7, <1>9, CardKeeps
  <1>8. CASE full' = FALSE /\ Lo!MayReclaim(kept) /\ card' = Lo!Reclaimed(kept)
    <2> HIDE DEF kept
    <2>1. /\ card' \subseteq kept /\ cur' \in card' /\ IsFiniteSet(card')
          /\ Cardinality(card') >= 1
      BY <1>2, <1>4, <1>5, <1>8, Reclaims
    <2>2. card' \subseteq card \cup {cur'} /\ full' = FALSE
      BY <1>4, <1>8, <2>1
    <2> QED  BY <1>1, <1>2, <1>9, <2>1, <2>2, CardKeeps
  <1> QED  BY <1>6, <1>7, <1>8 DEF Lo!Rotate

(* A mount that has yet to open its file leaves the files alone.              *)
LEMMA MountKeeps ==
    ASSUME Lo!LogAssumption, ShipInv,
           Lo!WriteUnmounted \/ Lo!Unmount \/ (\E by : Lo!Mount(by))
    PROVE  ShipInv'
  <1>1. UNCHANGED <<card, cur, full, Lo!takes, Lo!t14Vars>> /\ (sdOk' => sdOk)
    BY DEF Lo!WriteUnmounted, Lo!Unmount, Lo!Mount
  <1>2. torn' = {} /\ early' = early
    BY <1>1 DEF ShipInv, Lo!takes
  <1> QED  BY <1>1, <1>2, Touched, CardKeeps DEF ShipInv

(* The file that was T9's is gone on with, or a new one is begun.             *)
LEMMA OpenKeeps == ASSUME Lo!LogAssumption, ShipInv, Lo!Open  PROVE ShipInv'
  <1>1. UNCHANGED Lo!t14Vars /\ torn' = {}
    BY DEF Lo!Open, ShipInv
  <1>2. CASE UNCHANGED <<card, cur, full, sdOk, early>>
    BY <1>1, <1>2, Touched, CardKeeps DEF ShipInv
  <1>3. CASE Lo!OpenActive /\ card # {} /\ ~full
    <2>1. cur' = cur /\ UNCHANGED <<card, full, early>>
      BY <1>3, NewestIs DEF Lo!OpenActive
    <2> QED  BY <1>1, <1>3, <2>1, Touched, CardKeeps DEF ShipInv
  <1>4. CASE Lo!OpenActive /\ ~(card # {} /\ ~full)
    <2>1. cur < MaxFile /\ cur' = cur + 1 /\ card' = card \cup {cur'}
      BY <1>4 DEF Lo!OpenActive
    <2>2. cur' \in 1 .. MaxFile /\ cur <= cur' /\ cur' # cur /\ full' = FALSE
      BY <1>4, <2>1, Touched DEF Lo!OpenActive
    <2>3. IsFiniteSet(card') /\ Cardinality(card') >= 1
      <3>1. cur' \notin card
        BY <2>1, Touched
      <3>2. IsFiniteSet(card') /\ Cardinality(card') = Cardinality(card) + 1
        BY <2>1, <3>1, Touched, FS_AddElement
      <3> QED  BY <3>2, Touched, FS_CardinalityType
    <2> QED  BY <1>1, <2>1, <2>2, <2>3, CardKeeps
  <1> QED  BY <1>2, <1>3, <1>4 DEF Lo!Open

-----------------------------------------------------------------------------
(* T14 looks whose file is whose ...                                          *)
LEMMA LookKeeps == ASSUME Lo!LogAssumption, ShipInv, Lo!Look  PROVE ShipInv'
  <1>1. /\ UNCHANGED <<card, cur, full, sdOk, torn, early, latch, snap, after, pcU, shipped, jumped>>
        /\ pcF' = "scan" /\ pcF = "look" /\ hand' = IF sdOk THEN cur ELSE 0
    BY DEF Lo!Look, Lo!t9Vars, Lo!takes
  <1>2. hand' \in 0 .. cur
    BY <1>1, Touched
  <1>3. Lo!Taken' = Lo!Taken
    BY <1>1 DEF Lo!Taken
  <1> QED  BY <1>1, <1>2, <1>3 DEF ShipInv, Passed, PassedBefore

(* ... and takes the oldest but that one: if that one is older it is passed   *)
(* over, and is not T9's any more.                                            *)
LEMMA ScanKeeps == ASSUME Lo!LogAssumption, ShipInv, Lo!Scan  PROVE ShipInv'
  <1> DEFINE closed == {f \in card : f > after /\ f # hand}
  <1>1. /\ hand' \in Lo!Pending /\ pcF = "scan" /\ pcF' = "send"
        /\ early' = (early \/ Lo!IsT9s(hand'))
        /\ jumped' = jumped \cup {f \in card : f = hand /\ f > after /\ ~Lo!IsT9s(f)}
        /\ UNCHANGED <<card, cur, full, sdOk, torn, latch, snap, after, pcU, shipped>>
    BY DEF Lo!Scan, Lo!t9Vars
  <1>2. closed # {} /\ hand' = Lo!Min(closed) /\ closed \in SUBSET Nat
    BY <1>1, Touched DEF Lo!Pending
  <1>3. hand' \in closed /\ \A g \in closed : hand' <= g
    <2> HIDE DEF closed
    <2> QED  BY <1>2, Least
  <1>4. hand' \in card /\ hand' \in 1 .. cur /\ hand' \in 0 .. cur /\ hand' >= 1
    BY <1>3, Touched
  <1>5. ASSUME NEW g \in card, g < hand'  PROVE g \in shipped \cup jumped'
    <2>1. g \in 1 .. cur /\ g \in Nat /\ cur \in Nat /\ after \in Nat /\ hand' \in Nat
      BY <1>4, Touched DEF ShipInv
    <2>4. g # hand' /\ ~(hand' <= g) /\ g # cur
      <3>1. g \in Nat /\ hand' \in Nat /\ cur \in Nat /\ g < hand' /\ hand' <= cur
        BY <1>4, <1>5, <2>1
      <3> QED  BY <3>1
    <2>2. CASE g <= after
      BY <1>1, <2>2 DEF ShipInv, Passed
    <2>3. CASE g > after
      <3>1. g \notin closed
        <4> HIDE DEF closed
        <4> QED  BY <1>3, <2>4
      <3>2. g = hand
        BY <2>3, <3>1
      <3>3. ~Lo!IsT9s(g)
        <4> SUFFICES ASSUME ~full, g = Lo!Newest  PROVE FALSE
          BY DEF Lo!IsT9s
        <4>1. g = cur
          BY NewestIs
        <4> QED  BY <2>4, <4>1
      <3> QED  BY <1>1, <2>3, <3>2, <3>3
    <2> QED  BY <2>1, <2>2, <2>3
  <1>6. PassedBefore(hand)'
    BY <1>1, <1>5 DEF PassedBefore
  <1>7. Passed(latch)' /\ Passed(after)' /\ Passed(snap)'
    BY <1>1 DEF Passed, ShipInv
  <1>8. ASSUME ~full, cur \in Lo!Taken'
        PROVE  early'
    <2>1. cur \in shipped \/ hand' = cur
      BY <1>1, <1>8 DEF Lo!Taken
    <2>2. CASE cur \in shipped
      BY <1>1, <1>8, <2>2 DEF ShipInv, Lo!Taken
    <2>3. CASE hand' = cur
      BY <1>1, <1>8, <2>3, NewestIs DEF Lo!IsT9s
    <2> QED  BY <2>1, <2>2, <2>3
  <1> HIDE DEF closed
  <1> QED  BY <1>1, <1>4, <1>6, <1>7, <1>8 DEF ShipInv

LEMMA DeliverKeeps == ASSUME Lo!LogAssumption, ShipInv, Lo!Deliver  PROVE ShipInv'
  <1>1. /\ pcF = "send" /\ shipped' = shipped \cup {hand} /\ after' = hand
        /\ latch' \in {hand, latch} /\ pcF' = "look" /\ hand' = 0
        /\ UNCHANGED <<card, cur, full, sdOk, torn, early, snap, pcU, jumped>>
    BY DEF Lo!Deliver, Lo!t9Vars, Lo!takes
  <1>2. hand \in 1 .. cur /\ cur \in Nat /\ PassedBefore(hand)
    BY <1>1, Touched DEF ShipInv
  <1>3. ASSUME NEW g \in card, g <= hand  PROVE g \in shipped' \cup jumped
    <2>1. g \in Nat /\ (g < hand \/ g = hand)
      BY <1>2, <1>3, Touched
    <2> QED  BY <1>1, <1>2, <2>1 DEF PassedBefore
  <1>4. Passed(after)' /\ Passed(snap)'
    BY <1>1, <1>3 DEF ShipInv, Passed
  <1>5. Passed(latch)'
    BY <1>1, <1>3 DEF ShipInv, Passed
  <1>6. /\ latch' \in 0 .. cur /\ after' \in 0 .. cur /\ hand' \in 0 .. cur
        /\ shipped' \subseteq 1 .. cur
    BY <1>1, <1>2 DEF ShipInv
  <1>7. Lo!Taken' = Lo!Taken
    BY <1>1 DEF Lo!Taken
  <1> QED  BY <1>1, <1>4, <1>5, <1>6, <1>7 DEF ShipInv

(* A file that was taken and not delivered is not passed.                     *)
LEMMA StopKeeps == ASSUME Lo!LogAssumption, ShipInv, Lo!StopUpload  PROVE ShipInv'
  <1>1. /\ UNCHANGED <<card, cur, full, sdOk, torn, early, latch, snap, after, shipped, jumped>>
        /\ pcU' \in {"wait", "top"} /\ pcF' = "look" /\ hand' = 0
    BY DEF Lo!StopUpload, Lo!t9Vars, Lo!takes
  <1>2. Lo!Taken' \subseteq Lo!Taken /\ hand' \in 0 .. cur
    BY <1>1, Touched DEF Lo!Taken
  <1> QED  BY <1>1, <1>2 DEF ShipInv, Passed, PassedBefore

LEMMA ShipStep ==
    ASSUME Lo!LogAssumption, ShipInv, [Lo!LogNext]_logVars
    PROVE  ShipInv'
  <1>1. CASE Lo!Snapshot
    <2>1. /\ UNCHANGED <<card, cur, full, sdOk, torn, early, latch, pcF, hand, shipped, jumped>>
          /\ snap' = latch /\ after' = latch /\ pcU' = "daily"
      BY <1>1 DEF Lo!Snapshot, Lo!t9Vars, Lo!takes
    <2> QED  BY <2>1 DEF ShipInv, Passed, PassedBefore, Lo!Taken
  <1>2. CASE Lo!WaitRotation
    <2>1. /\ UNCHANGED <<card, cur, full, sdOk, torn, early, latch, snap, pcF, hand, shipped, jumped>>
          /\ after' \in {snap, after} /\ pcU' \in {"rotation", "top"}
      BY <1>2 DEF Lo!WaitRotation, Lo!t9Vars, Lo!takes
    <2> QED  BY <2>1 DEF ShipInv, Passed, PassedBefore, Lo!Taken
  <1>3. CASE UNCHANGED logVars
    BY <1>3 DEF ShipInv, Passed, PassedBefore, logVars, Lo!Taken
  <1> QED  BY <1>1, <1>2, <1>3, RowKeeps, RotateKeeps, MountKeeps, OpenKeeps, LookKeeps,
              ScanKeeps, DeliverKeeps, StopKeeps
           DEF Lo!LogNext

LEMMA NoneBehind == ASSUME Lo!LogAssumption, ShipInv  PROVE Lo!NoneLeftBehind /\ Lo!LogTypeOK
  BY DEF ShipInv, Passed, Lo!NoneLeftBehind, Lo!LogTypeOK, Lo!Files, Lo!LogAssumption

LEMMA ShipHolds == Spec => []ShipInv
  <1>1. Init => ShipInv
    BY ServicesAssumption, ShipStarts DEF Init
  <1>2. ShipInv /\ [Next]_vars => ShipInv'
    BY ServicesAssumption, UnitSteps, ShipStep
  <1> QED  BY <1>1, <1>2, PTL DEF Spec

-----------------------------------------------------------------------------
(* The rows, and the reports of those that were dropped (LogRows). *)

(* The counts that wait in Q3, added up from the front. *)
Adds(acc) ==
    /\ acc \in [0 .. Len(q3) -> Int] /\ acc[0] = 0
    /\ \A i \in 1 .. Len(q3) : acc[i] = acc[i - 1] + q3[i]

(* Who has a drop in hand that is not counted yet. *)
At(places) == {t \in Lr!Tasks : pcRow[t] \in places}
Counting == At({"count", "recount"})

(* A row that vanished is counted, on its way to the log, told, or lost with *)
(* its report.                                                               *)
CountsAdd ==
    \E acc : /\ Adds(acc)
             /\ vanished <= said + unsaid + dropped + count9 + Cardinality(Counting)
                            + acc[Len(q3)]

(* No post is counted more than twice. *)
Early == At({"send", "evict", "count"})
Late == At({"retry", "recount"})
CountsAreFew ==
    dropped + 2 * Cardinality(Early)
            + Cardinality(Late) <= 2 * posts

(* A drop that was counted has T9 awake, or a row on its way that will.      *)
DropWakes ==
    dropped > 0 =>
        \/ refused \/ q3 # <<>> \/ pc9 \in {"drain", "drained"}
        \/ \E t \in Lr!Tasks : pcRow[t] \in {"count", "retry"}

Awake == {"send", "evict", "count", "retry", "recount"}

RowsInv ==
    /\ q3 \in Seq(Nat) /\ Len(q3) <= Q3Depth
    /\ pcRow \in [Lr!Tasks -> {"idle", "send", "evict", "count", "retry", "recount"}]
    /\ pc9 \in {"wait", "drain", "drained", "report"}
    /\ dropped \in Nat /\ count9 \in Nat /\ posts \in 0 .. MaxRows /\ vanished \in Nat
    /\ said \in Nat /\ unsaid \in Nat
    /\ count9 > 0 <=> pc9 = "report"
    /\ \A t \in Lr!Tasks : pcRow[t] = "recount" => refused
    /\ IsFiniteSet(At(Awake)) /\ CountsAdd /\ CountsAreFew /\ DropWakes

-----------------------------------------------------------------------------
(* A task that goes from one place to another enters and leaves the sets of  *)
(* those at some of the places.                                              *)
LEMMA AtMoves ==
    ASSUME pcRow \in [Lr!Tasks -> {"idle"} \cup Awake], IsFiniteSet(At(Awake)),
           NEW places \in SUBSET Awake,
           NEW t \in Lr!Tasks, NEW from, NEW to, Lr!MovesRow(t, from, to)
    PROVE  /\ IsFiniteSet(At(places)) /\ IsFiniteSet(At(places)')
           /\ Cardinality(At(places)) \in Nat
           /\ Cardinality(At(places)') =
                Cardinality(At(places)) + (IF to \in places THEN 1 ELSE 0)
                                        - (IF from \in places THEN 1 ELSE 0)
  <1>1. pcRow[t] = from /\ pcRow' = [pcRow EXCEPT ![t] = to]
    BY DEF Lr!MovesRow
  <1>2. At(places) \subseteq At(Awake)
    BY DEF At
  <1>3. IsFiniteSet(At(places)) /\ Cardinality(At(places)) \in Nat
    BY <1>2, FS_Subset, FS_CardinalityType
  <1>4. CASE from \in places /\ to \in places
    <2>1. At(places)' = At(places)
      BY <1>1, <1>4 DEF At
    <2> QED  BY <1>3, <1>4, <2>1
  <1>5. CASE from \in places /\ to \notin places
    <2>1. At(places)' = At(places) \ {t} /\ t \in At(places)
      BY <1>1, <1>5 DEF At
    <2> QED  BY <1>3, <1>5, <2>1, FS_RemoveElement
  <1>6. CASE from \notin places /\ to \in places
    <2>1. At(places)' = At(places) \cup {t} /\ t \notin At(places)
      BY <1>1, <1>6 DEF At
    <2> QED  BY <1>3, <1>6, <2>1, FS_AddElement
  <1>7. CASE from \notin places /\ to \notin places
    <2>1. At(places)' = At(places)
      BY <1>1, <1>7 DEF At
    <2> QED  BY <1>3, <1>7, <2>1
  <1> QED  BY <1>4, <1>5, <1>6, <1>7

LEMMA AddsAppend ==
    ASSUME q3 \in Seq(Nat), NEW row \in Nat, q3' = Append(q3, row), NEW acc, Adds(acc)
    PROVE  \E new : Adds(new)' /\ new[Len(q3')] = acc[Len(q3)] + row
  <1> DEFINE new == [i \in 0 .. Len(q3) + 1 |->
                       IF i <= Len(q3) THEN acc[i] ELSE acc[Len(q3)] + row]
  <1>1. Len(q3') = Len(q3) + 1 /\ Len(q3) \in Nat
    OBVIOUS
  <1>2. \A i \in 1 .. Len(q3) : q3'[i] = q3[i]
    OBVIOUS
  <1>3. q3'[Len(q3) + 1] = row
    OBVIOUS
  <1>4. new \in [0 .. Len(q3') -> Int] /\ new[0] = 0
    BY <1>1 DEF Adds
  <1>5. ASSUME NEW i \in 1 .. Len(q3')  PROVE new[i] = new[i - 1] + q3'[i]
    BY <1>1, <1>2, <1>3 DEF Adds
  <1>6. new[Len(q3')] = acc[Len(q3)] + row
    BY <1>1
  <1> HIDE DEF new
  <1> QED  BY <1>4, <1>5, <1>6 DEF Adds

LEMMA AddsAt ==
    ASSUME q3 \in Seq(Nat), NEW acc, Adds(acc), NEW k \in 1 .. Len(q3)
    PROVE  /\ acc[k] = acc[k - 1] + q3[k]
           /\ acc[k] \in Int /\ acc[k - 1] \in Int /\ q3[k] \in Nat
  <1>1. k \in 0 .. Len(q3) /\ k - 1 \in 0 .. Len(q3) /\ q3[k] \in Nat
    OBVIOUS
  <1>2. acc[k] = acc[k - 1] + q3[k]
    BY DEF Adds
  <1>3. acc[k] \in Int /\ acc[k - 1] \in Int
    BY <1>1 DEF Adds
  <1> QED  BY <1>1, <1>2, <1>3

LEMMA AddsUp == ASSUME q3 \in Seq(Nat), NEW acc, Adds(acc)  PROVE acc[Len(q3)] \in Int
  <1>1. Len(q3) \in 0 .. Len(q3)
    OBVIOUS
  <1> QED  BY <1>1 DEF Adds

LEMMA AddsTail ==
    ASSUME q3 \in Seq(Nat), q3 # <<>>, q3' = Tail(q3), NEW acc, Adds(acc)
    PROVE  \E new : Adds(new)' /\ new[Len(q3')] = acc[Len(q3)] - Head(q3)
  <1> DEFINE new == [i \in 0 .. Len(q3) - 1 |-> acc[i + 1] - Head(q3)]
  <1>1. Len(q3') = Len(q3) - 1 /\ Len(q3) \in Nat \ {0} /\ Head(q3) = q3[1] /\ Head(q3) \in Nat
    OBVIOUS
  <1>2. \A i \in 1 .. Len(q3') : q3'[i] = q3[i + 1]
    OBVIOUS
  <1>3. new \in [0 .. Len(q3') -> Int]
    BY <1>1 DEF Adds
  <1>4. new[0] = 0
    <2>1. acc[1] = acc[0] + q3[1]
      BY <1>1 DEF Adds
    <2> QED  BY <1>1, <2>1 DEF Adds
  <1>5. ASSUME NEW i \in 1 .. Len(q3')  PROVE new[i] = new[i - 1] + q3'[i]
    <2>0. i + 1 \in 1 .. Len(q3) /\ (i + 1) - 1 = i
      BY <1>1
    <2>1. /\ acc[i + 1] = acc[i] + q3[i + 1]
          /\ acc[i + 1] \in Int /\ acc[i] \in Int /\ q3[i + 1] \in Nat
      BY <2>0, AddsAt
    <2>2. new[i] = acc[i + 1] - Head(q3) /\ new[i - 1] = acc[i] - Head(q3)
      BY <1>1
    <2> QED  BY <1>1, <1>2, <2>1, <2>2
  <1>6. new[Len(q3')] = acc[Len(q3)] - Head(q3)
    BY <1>1
  <1> HIDE DEF new
  <1> QED  BY <1>3, <1>4, <1>5, <1>6 DEF Adds

-----------------------------------------------------------------------------
LEMMA RowsStarts == ASSUME Lr!RowsAssumption, Lr!RowsInit  PROVE RowsInv
  <1> USE DEF Lr!RowsAssumption, Lr!RowsInit
  <1>1. At(Awake) = {} /\ Counting = {}
    BY DEF At, Awake, Counting
  <1>2. Early = {} /\ Late = {}
    BY DEF At, Early, Late
  <1>3. IsFiniteSet({}) /\ Cardinality({}) = 0
    BY FS_EmptySet
  <1>4. CountsAdd
    <2> DEFINE acc == [i \in 0 .. 0 |-> 0]
    <2>1. Adds(acc)
      BY DEF Adds
    <2>2. Len(q3) = 0 /\ acc[0] = 0
      OBVIOUS
    <2> HIDE DEF acc
    <2>3. Cardinality(Counting) = 0
      BY <1>1, <1>3
    <2>4. vanished <= said + unsaid + dropped + count9 + Cardinality(Counting) + acc[Len(q3)]
      BY <2>2, <2>3
    <2> QED  BY <2>1, <2>4 DEF CountsAdd
  <1>5. CountsAreFew
    <2>1. /\ Cardinality(Early) = 0
          /\ Cardinality(Late) = 0
      BY <1>2, <1>3
    <2> QED  BY <2>1 DEF CountsAreFew
  <1>6. DropWakes
    BY DEF DropWakes
  <1>7. pcRow \in [Lr!Tasks -> {"idle", "send", "evict", "count", "retry", "recount"}]
    OBVIOUS
  <1>8. q3 \in Seq(Nat) /\ Len(q3) = 0
    OBVIOUS
  <1>9. IsFiniteSet(At(Awake))
    BY <1>1, <1>3
  <1>10. \A t \in Lr!Tasks : pcRow[t] = "recount" => refused
    OBVIOUS
  <1>11. /\ dropped \in Nat /\ count9 \in Nat /\ posts \in 0 .. MaxRows /\ vanished \in Nat
         /\ said \in Nat /\ unsaid \in Nat /\ Len(q3) <= Q3Depth
    BY <1>8
  <1>12. pc9 \in {"wait", "drain", "drained", "report"} /\ ~(count9 > 0) /\ pc9 # "report"
    OBVIOUS
  <1> QED
    <2> USE DEF Lr!RowsAssumption
    <2> QED  BY <1>4, <1>5, <1>6, <1>7, <1>8, <1>9, <1>10, <1>11, <1>12, Zenon DEF RowsInv

(* What a post does to the counts of who is where.                           *)
LEMMA WhoIsWhere ==
    ASSUME RowsInv, NEW t \in Lr!Tasks, NEW from, NEW to, Lr!MovesRow(t, from, to),
           to \in {"idle"} \cup Awake
    PROVE  /\ pcRow' \in [Lr!Tasks -> {"idle"} \cup Awake]
           /\ pcRow'[t] = to /\ \A u \in Lr!Tasks \ {t} : pcRow'[u] = pcRow[u]
           /\ IsFiniteSet(At(Awake)')
           /\ Cardinality(Counting) \in Nat /\ Cardinality(Early) \in Nat
           /\ Cardinality(Late) \in Nat
           /\ Cardinality(Counting') = Cardinality(Counting)
                + (IF to \in {"count", "recount"} THEN 1 ELSE 0)
                - (IF from \in {"count", "recount"} THEN 1 ELSE 0)
           /\ Cardinality(Early') = Cardinality(Early)
                + (IF to \in {"send", "evict", "count"} THEN 1 ELSE 0)
                - (IF from \in {"send", "evict", "count"} THEN 1 ELSE 0)
           /\ Cardinality(Late') = Cardinality(Late)
                + (IF to \in {"retry", "recount"} THEN 1 ELSE 0)
                - (IF from \in {"retry", "recount"} THEN 1 ELSE 0)
  <1>1. pcRow \in [Lr!Tasks -> {"idle"} \cup Awake] /\ IsFiniteSet(At(Awake))
    BY DEF RowsInv, Awake
  <1>2. /\ pcRow' \in [Lr!Tasks -> {"idle"} \cup Awake] /\ pcRow'[t] = to
        /\ \A u \in Lr!Tasks \ {t} : pcRow'[u] = pcRow[u]
    BY <1>1 DEF Lr!MovesRow
  <1>3. /\ {"count", "recount"} \in SUBSET Awake
        /\ {"send", "evict", "count"} \in SUBSET Awake
        /\ {"retry", "recount"} \in SUBSET Awake /\ Awake \in SUBSET Awake
    BY DEF Awake
  <1>4. IsFiniteSet(At(Awake)')
    BY <1>1, <1>3, AtMoves
  <1>5. /\ Cardinality(Counting) \in Nat
        /\ Cardinality(Counting') = Cardinality(Counting)
                + (IF to \in {"count", "recount"} THEN 1 ELSE 0)
                - (IF from \in {"count", "recount"} THEN 1 ELSE 0)
    BY <1>1, <1>3, AtMoves DEF Counting
  <1>6. /\ Cardinality(Early) \in Nat
        /\ Cardinality(Early') = Cardinality(Early)
                + (IF to \in {"send", "evict", "count"} THEN 1 ELSE 0)
                - (IF from \in {"send", "evict", "count"} THEN 1 ELSE 0)
    BY <1>1, <1>3, AtMoves DEF Early
  <1>7. /\ Cardinality(Late) \in Nat
        /\ Cardinality(Late') = Cardinality(Late)
                + (IF to \in {"retry", "recount"} THEN 1 ELSE 0)
                - (IF from \in {"retry", "recount"} THEN 1 ELSE 0)
    BY <1>1, <1>3, AtMoves DEF Late
  <1> QED  BY <1>2, <1>4, <1>5, <1>6, <1>7

(* The counts as they stand: kept where Q3 is kept.                          *)
LEMMA AddsStay ==
    ASSUME RowsInv, UNCHANGED q3
    PROVE  \E acc : /\ Adds(acc)' /\ acc[Len(q3')] \in Int
                    /\ vanished <= said + unsaid + dropped + count9
                                   + Cardinality(Counting) + acc[Len(q3')]
  <1>1. PICK acc : /\ Adds(acc)
                   /\ vanished <= said + unsaid + dropped + count9
                                  + Cardinality(Counting) + acc[Len(q3)]
    BY DEF RowsInv, CountsAdd
  <1>2. acc[Len(q3)] \in Int
    BY <1>1, AddsUp DEF RowsInv
  <1>3. Adds(acc)' /\ Len(q3') = Len(q3)
    BY <1>1 DEF Adds
  <1>4. acc[Len(q3')] = acc[Len(q3)]
    BY <1>3
  <1> WITNESS acc
  <1> QED  BY <1>1, <1>2, <1>3, <1>4

(* A row in, or out.                                                         *)
LEMMA AddsIn ==
    ASSUME RowsInv, NEW row \in Nat, q3' = Append(q3, row)
    PROVE  \E acc : /\ Adds(acc)' /\ acc[Len(q3')] \in Int
                    /\ vanished <= said + unsaid + dropped + count9
                                   + Cardinality(Counting) + acc[Len(q3')] - row
  <1>1. PICK acc : /\ Adds(acc)
                   /\ vanished <= said + unsaid + dropped + count9
                                  + Cardinality(Counting) + acc[Len(q3)]
    BY DEF RowsInv, CountsAdd
  <1>2. acc[Len(q3)] \in Int
    BY <1>1, AddsUp DEF RowsInv
  <1>3. q3 \in Seq(Nat)
    BY DEF RowsInv
  <1>4. PICK new : Adds(new)' /\ new[Len(q3')] = acc[Len(q3)] + row
    BY <1>1, <1>3, AddsAppend
  <1>5. new[Len(q3')] - row = acc[Len(q3)] /\ new[Len(q3')] \in Int
    BY <1>2, <1>4
  <1> QED
    <2> DEFINE sum == said + unsaid + dropped + count9 + Cardinality(Counting)
    <2>1. sum + new[Len(q3')] - row = sum + acc[Len(q3)]
      <3>1. IsFiniteSet(Counting)
        <4>1. Counting \subseteq At(Awake)
          BY DEF Counting, At, Awake
        <4> QED  BY <4>1, FS_Subset DEF RowsInv
      <3>2. sum \in Int
        BY <3>1, FS_CardinalityType DEF RowsInv
      <3> HIDE DEF sum
      <3> QED  BY <1>2, <1>4, <3>2
    <2> QED  BY <1>1, <1>4, <1>5, <2>1

LEMMA AddsOut ==
    ASSUME RowsInv, q3 # <<>>, q3' = Tail(q3)
    PROVE  \E acc : /\ Adds(acc)' /\ acc[Len(q3')] \in Int
                    /\ vanished <= said + unsaid + dropped + count9
                                   + Cardinality(Counting) + acc[Len(q3')] + Head(q3)
  <1>1. PICK acc : /\ Adds(acc)
                   /\ vanished <= said + unsaid + dropped + count9
                                  + Cardinality(Counting) + acc[Len(q3)]
    BY DEF RowsInv, CountsAdd
  <1>2. acc[Len(q3)] \in Int
    BY <1>1, AddsUp DEF RowsInv
  <1>3. q3 \in Seq(Nat) /\ Head(q3) \in Nat
    BY DEF RowsInv
  <1>4. PICK new : Adds(new)' /\ new[Len(q3')] = acc[Len(q3)] - Head(q3)
    BY <1>1, <1>3, AddsTail
  <1>5. new[Len(q3')] + Head(q3) = acc[Len(q3)] /\ new[Len(q3')] \in Int
    BY <1>2, <1>3, <1>4
  <1> QED
    <2> DEFINE sum == said + unsaid + dropped + count9 + Cardinality(Counting)
    <2>1. sum + new[Len(q3')] + Head(q3) = sum + acc[Len(q3)]
      <3>1. IsFiniteSet(Counting)
        <4>1. Counting \subseteq At(Awake)
          BY DEF Counting, At, Awake
        <4> QED  BY <4>1, FS_Subset DEF RowsInv
      <3>2. sum \in Int
        BY <3>1, FS_CardinalityType DEF RowsInv
      <3> HIDE DEF sum
      <3> QED  BY <1>2, <1>3, <1>4, <3>2
    <2> QED  BY <1>1, <1>4, <1>5, <2>1

(* The parts of RowsInv that are neither a type nor a sum.                   *)
RowTypes ==
    /\ q3 \in Seq(Nat) /\ Len(q3) <= Q3Depth
    /\ pc9 \in {"wait", "drain", "drained", "report"}
    /\ dropped \in Nat /\ count9 \in Nat /\ posts \in 0 .. MaxRows /\ vanished \in Nat
    /\ said \in Nat /\ unsaid \in Nat
    /\ count9 > 0 <=> pc9 = "report"

LEMMA RowsParts == ASSUME RowsInv  PROVE RowTypes
  BY DEF RowsInv, RowTypes

LEMMA PostsKeep ==
    ASSUME Lr!RowsAssumption, RowsInv, NEW t \in Lr!Tasks, Lr!PostRow(t)
    PROVE  RowsInv'
  <1>1. /\ Lr!MovesRow(t, "idle", "send") /\ posts' = posts + 1 /\ posts < MaxRows
           /\ pcRow[t] = "idle"
        /\ UNCHANGED <<q3, dropped, pc9, count9, vanished, refused, said, unsaid>>
    BY DEF Lr!PostRow, Lr!MovesRow
  <1>2. RowTypes
    BY RowsParts
  <1>3. "send" \in {"idle"} \cup Awake
    BY DEF Awake
  <1>4. /\ pcRow' \in [Lr!Tasks -> {"idle"} \cup Awake]
        /\ pcRow'[t] = "send" /\ \A u \in Lr!Tasks \ {t} : pcRow'[u] = pcRow[u]
        /\ IsFiniteSet(At(Awake)')
        /\ Cardinality(Counting) \in Nat /\ Cardinality(Early) \in Nat
        /\ Cardinality(Late) \in Nat
        /\ Cardinality(Counting') = Cardinality(Counting)
        /\ Cardinality(Early') = Cardinality(Early) + 1
        /\ Cardinality(Late') = Cardinality(Late)
    BY <1>1, <1>3, WhoIsWhere
  <1>5. RowTypes'
    BY <1>1, <1>2 DEF RowTypes, Lr!RowsAssumption
  <1>6. CountsAdd'
    <2>1. PICK acc : /\ Adds(acc)' /\ acc[Len(q3')] \in Int
                     /\ vanished <= said + unsaid + dropped + count9
                                   + Cardinality(Counting) + acc[Len(q3')]
      BY <1>1, AddsStay
    <2> QED  BY <1>1, <1>4, <2>1 DEF CountsAdd
  <1>7. CountsAreFew'
    BY <1>1, <1>2, <1>4 DEF CountsAreFew, RowsInv, RowTypes
  <1>8. DropWakes'
    BY <1>1, <1>4 DEF DropWakes, RowsInv
  <1>9. \A u \in Lr!Tasks : pcRow'[u] = "recount" => refused'
    BY <1>1, <1>4 DEF RowsInv
  <1> QED  BY <1>4, <1>5, <1>6, <1>7, <1>8, <1>9 DEF RowsInv, RowTypes, Awake

LEMMA RowIn ==
    ASSUME Lr!RowsAssumption, RowTypes, NEW row \in Nat, Lr!Sends(row)
    PROVE  q3' = Append(q3, row) /\ q3' \in Seq(Nat) /\ Len(q3') <= Q3Depth /\ q3' # <<>>
  <1>1. q3' = Append(q3, row) /\ q3 \in Seq(Nat) /\ Len(q3) < Q3Depth
    BY DEF Lr!Sends, RowTypes
  <1>2. Q3Depth \in Nat /\ Len(q3) \in Nat /\ Len(q3') = Len(q3) + 1 /\ q3' \in Seq(Nat)
    BY <1>1 DEF Lr!RowsAssumption
  <1>3. Len(q3') <= Q3Depth
    BY <1>1, <1>2
  <1> QED  BY <1>1, <1>2, <1>3

LEMMA RowOut ==
    ASSUME Lr!RowsAssumption, RowTypes, q3 # <<>>, q3' = Tail(q3)
    PROVE  q3' \in Seq(Nat) /\ Len(q3') <= Q3Depth /\ Head(q3) \in Nat
  <1>1. q3 \in Seq(Nat) /\ Len(q3) <= Q3Depth
    BY DEF RowTypes
  <1>2. /\ Q3Depth \in Nat /\ Len(q3) \in Nat /\ Len(q3') = Len(q3) - 1
        /\ q3' \in Seq(Nat) /\ Head(q3) \in Nat
    BY <1>1 DEF Lr!RowsAssumption
  <1> QED  BY <1>1, <1>2

LEMMA SendsKeep ==
    ASSUME Lr!RowsAssumption, RowsInv, NEW t \in Lr!Tasks, Lr!SendRow(t)
    PROVE  RowsInv'
  <1>0. RowTypes
    BY RowsParts
  <1>1. /\ UNCHANGED <<dropped, pc9, count9, posts, vanished, refused, said, unsaid>>
        /\ \/ Lr!Sends(0) /\ Lr!MovesRow(t, "send", "idle")
           \/ Len(q3) = Q3Depth /\ Lr!MovesRow(t, "send", "evict") /\ UNCHANGED q3
    BY DEF Lr!SendRow
  <1>2. CASE Lr!Sends(0) /\ Lr!MovesRow(t, "send", "idle")
    <2>1. /\ pcRow' \in [Lr!Tasks -> {"idle"} \cup Awake] /\ pcRow'[t] = "idle"
          /\ \A u \in Lr!Tasks \ {t} : pcRow'[u] = pcRow[u]
          /\ IsFiniteSet(At(Awake)') /\ Cardinality(Counting) \in Nat
          /\ Cardinality(Early) \in Nat /\ Cardinality(Late) \in Nat
          /\ Cardinality(Counting') = Cardinality(Counting)
          /\ Cardinality(Early') = Cardinality(Early) - 1
             /\ Cardinality(Late') = Cardinality(Late)
      BY <1>2, WhoIsWhere DEF Awake
    <2>2. /\ q3' = Append(q3, 0) /\ q3' \in Seq(Nat) /\ Len(q3') <= Q3Depth /\ q3' # <<>>
      BY <1>0, <1>2, RowIn
    <2>3. RowTypes'
      BY <1>0, <1>1, <2>2 DEF RowTypes
    <2>4. CountsAdd'
      <3>1. PICK acc : /\ Adds(acc)' /\ acc[Len(q3')] \in Int
                       /\ vanished <= said + unsaid + dropped + count9
                                     + Cardinality(Counting) + acc[Len(q3')] - 0
        BY <2>2, AddsIn
      <3>2. vanished <= said + unsaid + dropped + count9 + Cardinality(Counting) + acc[Len(q3')]
        BY <1>0, <2>1, <3>1 DEF RowTypes
      <3> QED  BY <1>1, <2>1, <3>1, <3>2 DEF CountsAdd
    <2>5. CountsAreFew'
      BY <1>0, <1>1, <2>1 DEF CountsAreFew, RowsInv, RowTypes
    <2>6. DropWakes'
      BY <2>2 DEF DropWakes
    <2>7. \A u \in Lr!Tasks : pcRow'[u] = "recount" => refused'
      BY <1>1, <2>1 DEF RowsInv
    <2> QED  BY <2>1, <2>3, <2>4, <2>5, <2>6, <2>7 DEF RowsInv, RowTypes, Awake
  <1>3. CASE Len(q3) = Q3Depth /\ Lr!MovesRow(t, "send", "evict") /\ UNCHANGED q3
    <2>1. /\ pcRow' \in [Lr!Tasks -> {"idle"} \cup Awake] /\ pcRow'[t] = "evict"
          /\ \A u \in Lr!Tasks \ {t} : pcRow'[u] = pcRow[u]
          /\ IsFiniteSet(At(Awake)') /\ Cardinality(Counting) \in Nat
          /\ Cardinality(Early) \in Nat /\ Cardinality(Late) \in Nat
          /\ Cardinality(Counting') = Cardinality(Counting)
          /\ Cardinality(Early') = Cardinality(Early) /\ Cardinality(Late') = Cardinality(Late)
      BY <1>3, WhoIsWhere DEF Awake
    <2>3. RowTypes'
      BY <1>0, <1>1, <1>3 DEF RowTypes
    <2>4. CountsAdd'
      <3>1. PICK acc : /\ Adds(acc)' /\ acc[Len(q3')] \in Int
                       /\ vanished <= said + unsaid + dropped + count9
                                     + Cardinality(Counting) + acc[Len(q3')]
        BY <1>3, AddsStay
      <3> QED  BY <1>1, <2>1, <3>1 DEF CountsAdd
    <2>5. CountsAreFew'
      BY <1>0, <1>1, <2>1 DEF CountsAreFew, RowsInv, RowTypes
    <2>6. DropWakes'
      BY <1>1, <1>3, <2>1 DEF DropWakes, RowsInv, Lr!MovesRow
    <2>7. \A u \in Lr!Tasks : pcRow'[u] = "recount" => refused'
      BY <1>1, <2>1 DEF RowsInv
    <2> QED  BY <2>1, <2>3, <2>4, <2>5, <2>6, <2>7 DEF RowsInv, RowTypes, Awake
  <1> QED  BY <1>1, <1>2, <1>3

LEMMA Shifted ==
    ASSUME NEW v \in Nat, NEW s \in Nat, NEW u \in Nat, NEW d \in Nat, NEW c \in Nat,
           NEW k \in Nat, NEW a \in Int, NEW h \in Nat, v <= s + u + d + c + k + a + h
    PROVE  v + 1 <= s + (u + h) + d + c + (k + 1) + a
  OBVIOUS

LEMMA Told ==
    ASSUME NEW v \in Nat, NEW s \in Nat, NEW u \in Nat, NEW d \in Nat, NEW c \in Nat,
           NEW k \in Nat, NEW a \in Int, NEW h \in Nat, v <= s + u + d + c + k + a + h
    PROVE  v <= (s + h) + u + d + c + k + a
  OBVIOUS

LEMMA EvictsKeep ==
    ASSUME Lr!RowsAssumption, RowsInv, NEW t \in Lr!Tasks, Lr!EvictRow(t)
    PROVE  RowsInv'
  <1>0. RowTypes
    BY RowsParts
  <1>1. /\ UNCHANGED <<dropped, pc9, count9, posts, refused, said>>
        /\ Lr!MovesRow(t, "evict", "count")
        /\ \/ /\ q3 # <<>> /\ q3' = Tail(q3)
              /\ vanished' = vanished + 1 /\ unsaid' = unsaid + Head(q3)
           \/ q3 = <<>> /\ UNCHANGED <<q3, vanished, unsaid>>
    BY DEF Lr!EvictRow
  <1>2. /\ pcRow' \in [Lr!Tasks -> {"idle"} \cup Awake] /\ pcRow'[t] = "count"
        /\ \A u \in Lr!Tasks \ {t} : pcRow'[u] = pcRow[u]
        /\ IsFiniteSet(At(Awake)') /\ Cardinality(Counting) \in Nat
        /\ Cardinality(Early) \in Nat /\ Cardinality(Late) \in Nat
        /\ Cardinality(Counting') = Cardinality(Counting) + 1
        /\ Cardinality(Early') = Cardinality(Early) /\ Cardinality(Late') = Cardinality(Late)
    BY <1>1, WhoIsWhere DEF Awake
  <1>3. RowTypes' /\ CountsAdd'
    <2>1. CASE q3 # <<>> /\ q3' = Tail(q3) /\ vanished' = vanished + 1
               /\ unsaid' = unsaid + Head(q3)
      <3>1. q3' \in Seq(Nat) /\ Len(q3') <= Q3Depth /\ Head(q3) \in Nat
        BY <1>0, <2>1, RowOut
      <3>2. RowTypes'
        BY <1>0, <1>1, <2>1, <3>1 DEF RowTypes
      <3>3. PICK acc : /\ Adds(acc)' /\ acc[Len(q3')] \in Int
                       /\ vanished <= said + unsaid + dropped + count9
                                     + Cardinality(Counting) + acc[Len(q3')] + Head(q3)
        BY <2>1, AddsOut
      <3>4. vanished' <= said + unsaid' + dropped + count9 + Cardinality(Counting')
                         + acc[Len(q3')]
        <4>1. /\ vanished \in Nat /\ said \in Nat /\ unsaid \in Nat /\ dropped \in Nat
              /\ count9 \in Nat
          BY <1>0 DEF RowTypes
        <4>2. /\ Cardinality(Counting) \in Nat
              /\ Cardinality(Counting') = Cardinality(Counting) + 1
          BY <1>2
        <4>3. /\ vanished' = vanished + 1 /\ unsaid' = unsaid + Head(q3)
              /\ Head(q3) \in Nat
          BY <2>1, <3>1
        <4>4. vanished + 1 <= said + (unsaid + Head(q3)) + dropped + count9
                              + (Cardinality(Counting) + 1) + acc[Len(q3')]
          BY <3>3, <4>1, <4>2, <4>3, Shifted
        <4> QED  BY <4>2, <4>3, <4>4
      <3> QED  BY <1>1, <3>2, <3>3, <3>4 DEF CountsAdd
    <2>2. CASE UNCHANGED <<q3, vanished, unsaid>>
      <3>1. RowTypes'
        BY <1>0, <1>1, <2>2 DEF RowTypes
      <3>3. PICK acc : /\ Adds(acc)' /\ acc[Len(q3')] \in Int
                       /\ vanished <= said + unsaid + dropped + count9
                                     + Cardinality(Counting) + acc[Len(q3')]
        BY <2>2, AddsStay
      <3>4. vanished' <= said + unsaid' + dropped + count9 + Cardinality(Counting')
                         + acc[Len(q3')]
        BY <1>0, <1>2, <2>2, <3>3 DEF RowTypes
      <3> QED  BY <1>1, <3>1, <3>3, <3>4 DEF CountsAdd
    <2> QED  BY <1>1, <2>1, <2>2
  <1>5. CountsAreFew'
    BY <1>0, <1>1, <1>2 DEF CountsAreFew, RowsInv, RowTypes
  <1>6. DropWakes'
    BY <1>2 DEF DropWakes
  <1>7. \A u \in Lr!Tasks : pcRow'[u] = "recount" => refused'
    BY <1>1, <1>2 DEF RowsInv
  <1> QED  BY <1>2, <1>3, <1>5, <1>6, <1>7 DEF RowsInv, RowTypes, Awake

LEMMA CountsKeep ==
    ASSUME Lr!RowsAssumption, RowsInv, NEW t \in Lr!Tasks, Lr!CountRow(t)
    PROVE  RowsInv'
  <1>0. RowTypes
    BY RowsParts
  <1>1. /\ UNCHANGED <<q3, pc9, count9, posts, vanished, refused, said, unsaid>>
        /\ dropped' = dropped + 1
        /\ Lr!MovesRow(t, "count", "retry") \/ Lr!MovesRow(t, "recount", "idle")
    BY DEF Lr!CountRow
  <1>2. RowTypes'
    BY <1>0, <1>1 DEF RowTypes
  <1>3. PICK acc : /\ Adds(acc)' /\ acc[Len(q3')] \in Int
                   /\ vanished <= said + unsaid + dropped + count9
                                 + Cardinality(Counting) + acc[Len(q3')]
    BY <1>1, AddsStay
  <1>4. CASE Lr!MovesRow(t, "count", "retry")
    <2>1. /\ pcRow' \in [Lr!Tasks -> {"idle"} \cup Awake] /\ pcRow'[t] = "retry"
          /\ \A u \in Lr!Tasks \ {t} : pcRow'[u] = pcRow[u]
          /\ IsFiniteSet(At(Awake)') /\ Cardinality(Counting) \in Nat
          /\ Cardinality(Early) \in Nat /\ Cardinality(Late) \in Nat
          /\ Cardinality(Counting') = Cardinality(Counting) - 1
          /\ Cardinality(Early') = Cardinality(Early) - 1
             /\ Cardinality(Late') = Cardinality(Late) + 1
      BY <1>4, WhoIsWhere DEF Awake
    <2>2. vanished <= said + unsaid + dropped' + count9 + Cardinality(Counting') + acc[Len(q3')]
      BY <1>0, <1>1, <1>3, <2>1 DEF RowTypes
    <2>3. CountsAdd'
      BY <1>1, <1>3, <2>2 DEF CountsAdd
    <2>5. CountsAreFew'
      BY <1>0, <1>1, <2>1 DEF CountsAreFew, RowsInv, RowTypes
    <2>6. DropWakes'
      BY <2>1 DEF DropWakes
    <2>7. \A u \in Lr!Tasks : pcRow'[u] = "recount" => refused'
      BY <1>1, <2>1 DEF RowsInv
    <2> QED  BY <1>2, <2>1, <2>3, <2>5, <2>6, <2>7 DEF RowsInv, RowTypes, Awake
  <1>5. CASE Lr!MovesRow(t, "recount", "idle")
    <2>1. /\ pcRow' \in [Lr!Tasks -> {"idle"} \cup Awake] /\ pcRow'[t] = "idle"
          /\ \A u \in Lr!Tasks \ {t} : pcRow'[u] = pcRow[u]
          /\ IsFiniteSet(At(Awake)') /\ Cardinality(Counting) \in Nat
          /\ Cardinality(Early) \in Nat /\ Cardinality(Late) \in Nat
          /\ Cardinality(Counting') = Cardinality(Counting) - 1
          /\ Cardinality(Early') = Cardinality(Early)
             /\ Cardinality(Late') = Cardinality(Late) - 1
      BY <1>5, WhoIsWhere DEF Awake
    <2>2. vanished <= said + unsaid + dropped' + count9 + Cardinality(Counting') + acc[Len(q3')]
      BY <1>0, <1>1, <1>3, <2>1 DEF RowTypes
    <2>3. CountsAdd'
      BY <1>1, <1>3, <2>2 DEF CountsAdd
    <2>5. CountsAreFew'
      BY <1>0, <1>1, <2>1 DEF CountsAreFew, RowsInv, RowTypes
    <2>6. DropWakes'
      BY <1>1, <1>5 DEF DropWakes, Lr!MovesRow, RowsInv
    <2>7. \A u \in Lr!Tasks : pcRow'[u] = "recount" => refused'
      BY <1>1, <2>1 DEF RowsInv
    <2> QED  BY <1>2, <2>1, <2>3, <2>5, <2>6, <2>7 DEF RowsInv, RowTypes, Awake
  <1> QED  BY <1>1, <1>4, <1>5

LEMMA RetriesKeep ==
    ASSUME Lr!RowsAssumption, RowsInv, NEW t \in Lr!Tasks, Lr!RetryRow(t)
    PROVE  RowsInv'
  <1>0. RowTypes
    BY RowsParts
  <1>1. /\ UNCHANGED <<dropped, pc9, count9, posts, said, unsaid>>
        /\ \/ Lr!Sends(0) /\ Lr!MovesRow(t, "retry", "idle") /\ UNCHANGED <<vanished, refused>>
           \/ /\ Len(q3) = Q3Depth /\ Lr!MovesRow(t, "retry", "recount")
              /\ vanished' = vanished + 1 /\ refused' = TRUE /\ UNCHANGED q3
    BY DEF Lr!RetryRow
  <1>2. CASE Lr!Sends(0) /\ Lr!MovesRow(t, "retry", "idle") /\ UNCHANGED <<vanished, refused>>
    <2>1. /\ pcRow' \in [Lr!Tasks -> {"idle"} \cup Awake] /\ pcRow'[t] = "idle"
          /\ \A u \in Lr!Tasks \ {t} : pcRow'[u] = pcRow[u]
          /\ IsFiniteSet(At(Awake)') /\ Cardinality(Counting) \in Nat
          /\ Cardinality(Early) \in Nat /\ Cardinality(Late) \in Nat
          /\ Cardinality(Counting') = Cardinality(Counting)
          /\ Cardinality(Early') = Cardinality(Early)
             /\ Cardinality(Late') = Cardinality(Late) - 1
      BY <1>2, WhoIsWhere DEF Awake
    <2>2. /\ q3' = Append(q3, 0) /\ q3' \in Seq(Nat) /\ Len(q3') <= Q3Depth /\ q3' # <<>>
      BY <1>0, <1>2, RowIn
    <2>3. RowTypes'
      BY <1>0, <1>1, <1>2, <2>2 DEF RowTypes
    <2>4. CountsAdd'
      <3>1. PICK acc : /\ Adds(acc)' /\ acc[Len(q3')] \in Int
                       /\ vanished <= said + unsaid + dropped + count9
                                     + Cardinality(Counting) + acc[Len(q3')] - 0
        BY <2>2, AddsIn
      <3>2. vanished <= said + unsaid + dropped + count9 + Cardinality(Counting) + acc[Len(q3')]
        BY <1>0, <2>1, <3>1 DEF RowTypes
      <3> QED  BY <1>1, <1>2, <2>1, <3>1, <3>2 DEF CountsAdd
    <2>5. CountsAreFew'
      BY <1>0, <1>1, <2>1 DEF CountsAreFew, RowsInv, RowTypes
    <2>6. DropWakes'
      BY <2>2 DEF DropWakes
    <2>7. \A u \in Lr!Tasks : pcRow'[u] = "recount" => refused'
      BY <1>1, <1>2, <2>1 DEF RowsInv
    <2> QED  BY <2>1, <2>3, <2>4, <2>5, <2>6, <2>7 DEF RowsInv, RowTypes, Awake
  <1>3. CASE /\ Len(q3) = Q3Depth /\ Lr!MovesRow(t, "retry", "recount")
             /\ vanished' = vanished + 1 /\ refused' = TRUE /\ UNCHANGED q3
    <2>1. /\ pcRow' \in [Lr!Tasks -> {"idle"} \cup Awake] /\ pcRow'[t] = "recount"
          /\ \A u \in Lr!Tasks \ {t} : pcRow'[u] = pcRow[u]
          /\ IsFiniteSet(At(Awake)') /\ Cardinality(Counting) \in Nat
          /\ Cardinality(Early) \in Nat /\ Cardinality(Late) \in Nat
          /\ Cardinality(Counting') = Cardinality(Counting) + 1
          /\ Cardinality(Early') = Cardinality(Early) /\ Cardinality(Late') = Cardinality(Late)
      BY <1>3, WhoIsWhere DEF Awake
    <2>3. RowTypes'
      BY <1>0, <1>1, <1>3 DEF RowTypes
    <2>4. CountsAdd'
      <3>1. PICK acc : /\ Adds(acc)' /\ acc[Len(q3')] \in Int
                       /\ vanished <= said + unsaid + dropped + count9
                                     + Cardinality(Counting) + acc[Len(q3')]
        BY <1>3, AddsStay
      <3>2. vanished' <= said + unsaid + dropped + count9 + Cardinality(Counting')
                         + acc[Len(q3')]
        BY <1>0, <1>3, <2>1, <3>1 DEF RowTypes
      <3> QED  BY <1>1, <3>1, <3>2 DEF CountsAdd
    <2>5. CountsAreFew'
      BY <1>0, <1>1, <2>1 DEF CountsAreFew, RowsInv, RowTypes
    <2>6. DropWakes'
      BY <1>3 DEF DropWakes
    <2>7. \A u \in Lr!Tasks : pcRow'[u] = "recount" => refused'
      BY <1>3
    <2> QED  BY <2>1, <2>3, <2>4, <2>5, <2>6, <2>7 DEF RowsInv, RowTypes, Awake
  <1> QED  BY <1>1, <1>2, <1>3

(* Where nobody moves, the counts of who is where stand.                     *)
LEMMA NobodyMoves ==
    ASSUME RowsInv, UNCHANGED pcRow
    PROVE  /\ pcRow' \in [Lr!Tasks -> {"idle"} \cup Awake] /\ IsFiniteSet(At(Awake)')
           /\ Cardinality(Counting) \in Nat /\ Cardinality(Early) \in Nat
           /\ Cardinality(Late) \in Nat /\ Counting' = Counting /\ Early' = Early
              /\ Late' = Late
  <1>1. /\ Counting \subseteq At(Awake) /\ Early \subseteq At(Awake)
        /\ Late \subseteq At(Awake)
    BY DEF Counting, Early, Late, At, Awake
  <1>2. IsFiniteSet(Counting) /\ IsFiniteSet(Early) /\ IsFiniteSet(Late)
    BY <1>1, FS_Subset DEF RowsInv
  <1>3. /\ Cardinality(Counting) \in Nat /\ Cardinality(Early) \in Nat
        /\ Cardinality(Late) \in Nat
    BY <1>2, FS_CardinalityType
  <1>4. Counting' = Counting /\ Early' = Early /\ Late' = Late /\ At(Awake)' = At(Awake)
    BY DEF Counting, Early, Late, At
  <1> QED  BY <1>3, <1>4 DEF RowsInv, Awake

LEMMA TakesKeep == ASSUME Lr!RowsAssumption, RowsInv, Lr!TakeRow  PROVE RowsInv'
  <1>0. RowTypes
    BY RowsParts
  <1>1. /\ pc9 # "report" /\ pc9' = "drain" /\ q3 # <<>> /\ q3' = Tail(q3)
        /\ said' = said + Head(q3)
        /\ UNCHANGED <<dropped, count9, vanished, refused, unsaid>>
        /\ \/ UNCHANGED <<pcRow, posts>>
           \/ posts < MaxRows /\ posts' = posts + 1 /\ Lr!MovesRow("T9", "idle", "send")
    BY DEF Lr!TakeRow
  <1>2. q3' \in Seq(Nat) /\ Len(q3') <= Q3Depth /\ Head(q3) \in Nat
    BY <1>0, <1>1, RowOut
  <1>3. RowTypes'
    <2>1. posts' \in 0 .. MaxRows /\ said' \in Nat
      BY <1>0, <1>1, <1>2 DEF RowTypes, Lr!RowsAssumption
    <2> QED  BY <1>0, <1>1, <1>2, <2>1 DEF RowTypes
  <1>4. PICK acc : /\ Adds(acc)' /\ acc[Len(q3')] \in Int
                   /\ vanished <= said + unsaid + dropped + count9
                                 + Cardinality(Counting) + acc[Len(q3')] + Head(q3)
    BY <1>1, AddsOut
  <1>5. "T9" \in Lr!Tasks
    BY DEF Lr!Tasks
  <1>6. DropWakes'
    BY <1>1 DEF DropWakes
  <1>7. ASSUME Cardinality(Counting) \in Nat, Cardinality(Counting') = Cardinality(Counting)
        PROVE  CountsAdd'
    <2>1. /\ vanished \in Nat /\ said \in Nat /\ unsaid \in Nat /\ dropped \in Nat
          /\ count9 \in Nat
      BY <1>0 DEF RowTypes
    <2>2. vanished <= (said + Head(q3)) + unsaid + dropped + count9
                      + Cardinality(Counting) + acc[Len(q3')]
      BY <1>2, <1>4, <1>7, <2>1, Told
    <2>3. vanished' <= said' + unsaid' + dropped' + count9' + Cardinality(Counting')
                       + acc[Len(q3')]
      BY <1>1, <1>7, <2>2
    <2> QED  BY <1>4, <2>3 DEF CountsAdd
  <1>8. CASE UNCHANGED <<pcRow, posts>>
    <2>1. /\ pcRow' \in [Lr!Tasks -> {"idle"} \cup Awake] /\ IsFiniteSet(At(Awake)')
          /\ Cardinality(Counting) \in Nat /\ Cardinality(Early) \in Nat
          /\ Cardinality(Late) \in Nat /\ Counting' = Counting /\ Early' = Early
             /\ Late' = Late
      BY <1>8, NobodyMoves
    <2>2. CountsAdd'
      BY <1>7, <2>1
    <2>3. CountsAreFew'
      BY <1>1, <1>8, <2>1 DEF CountsAreFew, RowsInv
    <2>4. \A u \in Lr!Tasks : pcRow'[u] = "recount" => refused'
      BY <1>1, <1>8 DEF RowsInv
    <2> QED  BY <1>3, <1>6, <2>1, <2>2, <2>3, <2>4 DEF RowsInv, RowTypes, Awake
  <1>9. CASE posts < MaxRows /\ posts' = posts + 1 /\ Lr!MovesRow("T9", "idle", "send")
    <2>1. /\ pcRow' \in [Lr!Tasks -> {"idle"} \cup Awake] /\ pcRow'["T9"] = "send"
          /\ \A u \in Lr!Tasks \ {"T9"} : pcRow'[u] = pcRow[u]
          /\ IsFiniteSet(At(Awake)') /\ Cardinality(Counting) \in Nat
          /\ Cardinality(Early) \in Nat /\ Cardinality(Late) \in Nat
          /\ Cardinality(Counting') = Cardinality(Counting)
          /\ Cardinality(Early') = Cardinality(Early) + 1
             /\ Cardinality(Late') = Cardinality(Late)
      BY <1>5, <1>9, WhoIsWhere DEF Awake
    <2>2. CountsAdd'
      BY <1>7, <2>1
    <2>3. CountsAreFew'
      BY <1>0, <1>1, <1>9, <2>1 DEF CountsAreFew, RowsInv, RowTypes
    <2>4. \A u \in Lr!Tasks : pcRow'[u] = "recount" => refused'
      BY <1>1, <2>1 DEF RowsInv
    <2> QED  BY <1>3, <1>6, <2>1, <2>2, <2>3, <2>4 DEF RowsInv, RowTypes, Awake
  <1> QED  BY <1>1, <1>8, <1>9

LEMMA DrainsKeep ==
    ASSUME Lr!RowsAssumption, RowsInv, Lr!FindEmpty \/ Lr!TakeCount \/ Lr!ReportCount
    PROVE  RowsInv'
  <1>0. RowTypes
    BY RowsParts
  <1>1. UNCHANGED <<pcRow, posts, vanished, refused, said>>
    BY DEF Lr!FindEmpty, Lr!TakeCount, Lr!ReportCount
  <1>2. /\ pcRow' \in [Lr!Tasks -> {"idle"} \cup Awake] /\ IsFiniteSet(At(Awake)')
        /\ Cardinality(Counting) \in Nat /\ Cardinality(Early) \in Nat
        /\ Cardinality(Late) \in Nat /\ Counting' = Counting /\ Early' = Early /\ Late' = Late
    BY <1>1, NobodyMoves
  <1>3. \A u \in Lr!Tasks : pcRow'[u] = "recount" => refused'
    BY <1>1 DEF RowsInv
  <1>4. CASE Lr!FindEmpty
    <2>1. pc9 # "report" /\ pc9' = "drained" /\ UNCHANGED <<q3, dropped, count9, unsaid>>
      BY <1>4 DEF Lr!FindEmpty
    <2>2. RowTypes'
      BY <1>0, <1>1, <2>1 DEF RowTypes
    <2>3. PICK acc : /\ Adds(acc)' /\ acc[Len(q3')] \in Int
                     /\ vanished <= said + unsaid + dropped + count9
                                   + Cardinality(Counting) + acc[Len(q3')]
      BY <2>1, AddsStay
    <2>4. CountsAdd'
      BY <1>1, <1>2, <2>1, <2>3 DEF CountsAdd
    <2>5. CountsAreFew'
      BY <1>1, <1>2, <2>1 DEF CountsAreFew, RowsInv
    <2>6. DropWakes'
      BY <2>1 DEF DropWakes
    <2> QED  BY <1>2, <1>3, <2>2, <2>4, <2>5, <2>6 DEF RowsInv, RowTypes, Awake
  <1>5. CASE Lr!TakeCount
    <2>1. /\ pc9 = "drained" /\ count9' = dropped /\ dropped' = 0 /\ UNCHANGED <<q3, unsaid>>
          /\ pc9' = IF dropped > 0 THEN "report" ELSE "wait"
      BY <1>5 DEF Lr!TakeCount
    <2>2. RowTypes'
      <3>1. pc9' \in {"wait", "drain", "drained", "report"}
        BY <2>1
      <3>2. count9' > 0 <=> pc9' = "report"
        BY <2>1
      <3> QED  BY <1>0, <1>1, <2>1, <3>1, <3>2 DEF RowTypes
    <2>3. PICK acc : /\ Adds(acc)' /\ acc[Len(q3')] \in Int
                     /\ vanished <= said + unsaid + dropped + count9
                                   + Cardinality(Counting) + acc[Len(q3')]
      BY <2>1, AddsStay
    <2>4. vanished' <= said' + unsaid' + dropped' + count9' + Cardinality(Counting')
                       + acc[Len(q3')]
      <3>1. count9 = 0
        BY <1>0, <2>1 DEF RowTypes
      <3> QED  BY <1>0, <1>1, <1>2, <2>1, <2>3, <3>1 DEF RowTypes
    <2>5. CountsAdd'
      BY <2>3, <2>4 DEF CountsAdd
    <2>6. CountsAreFew'
      BY <1>0, <1>1, <1>2, <2>1 DEF CountsAreFew, RowsInv, RowTypes
    <2>7. DropWakes'
      BY <2>1 DEF DropWakes
    <2> QED  BY <1>2, <1>3, <2>2, <2>5, <2>6, <2>7 DEF RowsInv, RowTypes, Awake
  <1>6. CASE Lr!ReportCount
    <2>1. /\ pc9 = "report" /\ pc9' = "wait" /\ count9' = 0 /\ UNCHANGED dropped
          /\ \/ Lr!Sends(count9) /\ UNCHANGED unsaid
             \/ Len(q3) = Q3Depth /\ unsaid' = unsaid + count9 /\ UNCHANGED q3
      BY <1>6 DEF Lr!ReportCount
    <2>2. /\ vanished \in Nat /\ said \in Nat /\ unsaid \in Nat /\ dropped \in Nat
          /\ count9 \in Nat
      BY <1>0 DEF RowTypes
    <2>3. CountsAreFew'
      BY <1>1, <1>2, <2>1 DEF CountsAreFew, RowsInv
    <2>4. CASE Lr!Sends(count9) /\ UNCHANGED unsaid
      <3>1. q3' = Append(q3, count9) /\ q3' \in Seq(Nat) /\ Len(q3') <= Q3Depth /\ q3' # <<>>
        BY <1>0, <2>2, <2>4, RowIn
      <3>2. RowTypes'
        BY <1>0, <1>1, <2>1, <2>4, <3>1 DEF RowTypes
      <3>3. PICK acc : /\ Adds(acc)' /\ acc[Len(q3')] \in Int
                       /\ vanished <= said + unsaid + dropped + count9
                                     + Cardinality(Counting) + acc[Len(q3')] - count9
        BY <2>2, <3>1, AddsIn
      <3>4. vanished <= said + unsaid + dropped + 0 + Cardinality(Counting) + acc[Len(q3')]
        BY <1>2, <2>2, <3>3
      <3>5. CountsAdd'
        BY <1>1, <1>2, <2>1, <2>4, <3>3, <3>4 DEF CountsAdd
      <3>6. DropWakes'
        BY <3>1 DEF DropWakes
      <3> QED  BY <1>2, <1>3, <2>3, <3>2, <3>5, <3>6 DEF RowsInv, RowTypes, Awake
    <2>5. CASE Len(q3) = Q3Depth /\ unsaid' = unsaid + count9 /\ UNCHANGED q3
      <3>2. RowTypes'
        BY <1>0, <1>1, <2>1, <2>5 DEF RowTypes
      <3>3. PICK acc : /\ Adds(acc)' /\ acc[Len(q3')] \in Int
                       /\ vanished <= said + unsaid + dropped + count9
                                     + Cardinality(Counting) + acc[Len(q3')]
        BY <2>5, AddsStay
      <3>4. vanished <= said + (unsaid + count9) + dropped + 0 + Cardinality(Counting)
                        + acc[Len(q3')]
        BY <1>2, <2>2, <3>3
      <3>5. CountsAdd'
        BY <1>1, <1>2, <2>1, <2>5, <3>3, <3>4 DEF CountsAdd
      <3>6. DropWakes'
        BY <1>1, <2>1, <2>5 DEF DropWakes, RowsInv
      <3> QED  BY <1>2, <1>3, <2>3, <3>2, <3>5, <3>6 DEF RowsInv, RowTypes, Awake
    <2> QED  BY <2>1, <2>4, <2>5
  <1> QED  BY <1>4, <1>5, <1>6

LEMMA RowsStep ==
    ASSUME Lr!RowsAssumption, RowsInv, [Lr!RowsNext]_rowVars
    PROVE  RowsInv'
  <1>1. CASE UNCHANGED rowVars
    <2> USE <1>1 DEF rowVars
    <2>1. RowTypes'
      BY RowsParts DEF RowTypes
    <2>2. /\ pcRow' \in [Lr!Tasks -> {"idle"} \cup Awake] /\ IsFiniteSet(At(Awake)')
          /\ Counting' = Counting /\ Early' = Early /\ Late' = Late
      BY NobodyMoves
    <2>3. CountsAdd'
      <3>1. PICK acc : /\ Adds(acc)' /\ acc[Len(q3')] \in Int
                       /\ vanished <= said + unsaid + dropped + count9
                                     + Cardinality(Counting) + acc[Len(q3')]
        BY AddsStay
      <3> QED  BY <2>2, <3>1 DEF CountsAdd
    <2>4. CountsAreFew' /\ DropWakes'
      BY <2>2 DEF CountsAreFew, DropWakes, RowsInv
    <2>5. \A u \in Lr!Tasks : pcRow'[u] = "recount" => refused'
      BY DEF RowsInv
    <2> QED  BY <2>1, <2>2, <2>3, <2>4, <2>5 DEF RowsInv, RowTypes, Awake
  <1>2. Posters \subseteq Lr!Tasks
    BY DEF Lr!Tasks
  <1>3. ASSUME NEW t \in Posters, Lr!PostRow(t)  PROVE RowsInv'
    BY <1>2, <1>3, PostsKeep
  <1>4. ASSUME NEW t \in Lr!Tasks,
               Lr!SendRow(t) \/ Lr!EvictRow(t) \/ Lr!CountRow(t) \/ Lr!RetryRow(t)
        PROVE  RowsInv'
    BY <1>4, SendsKeep, EvictsKeep, CountsKeep, RetriesKeep
  <1> QED  BY <1>1, <1>3, <1>4, TakesKeep, DrainsKeep DEF Lr!RowsNext

LEMMA RowsTyped == ASSUME Lr!RowsAssumption, RowsInv  PROVE Lr!RowsTypeOK
  <1>1. IsFiniteSet(Early) /\ IsFiniteSet(Late)
    <2>1. Early \subseteq At(Awake) /\ Late \subseteq At(Awake)
      BY DEF Early, Late, At, Awake
    <2> QED  BY <2>1, FS_Subset DEF RowsInv
  <1>2. Cardinality(Early) \in Nat /\ Cardinality(Late) \in Nat
    BY <1>1, FS_CardinalityType
  <1>3. dropped <= 2 * MaxRows
    BY <1>2 DEF RowsInv, CountsAreFew, Lr!RowsAssumption
  <1> QED  BY <1>3 DEF RowsInv, Lr!RowsTypeOK, Lr!RowsAssumption

LEMMA RowsTold == ASSUME RowsInv  PROVE Lr!RowsAreTold
  <1> SUFFICES ASSUME q3 = <<>>, pc9 = "wait", \A t \in Lr!Tasks : pcRow[t] = "idle"
               PROVE  vanished <= said + unsaid + dropped /\ (dropped > 0 => refused)
    BY DEF Lr!RowsAreTold
  <1>1. Counting = {}
    BY DEF Counting, At
  <1>2. Cardinality(Counting) = 0
    BY <1>1, FS_EmptySet
  <1>3. PICK acc : /\ Adds(acc)
                   /\ vanished <= said + unsaid + dropped + count9 + Cardinality(Counting)
                                  + acc[Len(q3)]
    BY DEF RowsInv, CountsAdd
  <1>4. acc[Len(q3)] = 0
    BY <1>3 DEF Adds
  <1>5. count9 = 0
    BY DEF RowsInv
  <1>6. vanished <= said + unsaid + dropped
    BY <1>2, <1>3, <1>4, <1>5 DEF RowsInv
  <1>7. dropped > 0 => refused
    BY DEF RowsInv, DropWakes
  <1> QED  BY <1>6, <1>7

LEMMA RowsHold == Spec => []RowsInv
  <1>1. Init => RowsInv
    BY ServicesAssumption, RowsStarts DEF Init
  <1>2. RowsInv /\ [Next]_vars => RowsInv'
    BY ServicesAssumption, UnitSteps, RowsStep
  <1> QED  BY <1>1, <1>2, PTL DEF Spec

(* No log file that the latch has passed is left on the card without having  *)
(* been uploaded whole, whatever fails, is rotated away, is lost with the     *)
(* card or comes back with it (event_logger.cpp, status_post.cpp), but for    *)
(* the two that NoneLeftBehind names: one that T14 took while it was T9's,    *)
(* and one that T9 closed while T14 was passing it over.  And no row gives    *)
(* way to another without the log being told of it (event_logger.cpp).        *)
THEOREM LogsAreShipped == Spec => []NoneLeftBehind
  <1>1. ShipInv /\ RowsInv => NoneLeftBehind
    BY ServicesAssumption, NoneBehind, RowsTold DEF NoneLeftBehind
  <1> QED  BY <1>1, ShipHolds, RowsHold, PTL
==============================================================================
