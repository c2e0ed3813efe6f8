------------------------------- MODULE LogShip -------------------------------
(***************************************************************************)
(* The log files on the SD card: T9, which writes, rotates and trims them  *)
(* and mounts the card, and T14, which uploads the closed ones:            *)
(*   src/firmware/src/event_logger/event_logger.cpp                        *)
(*   src/firmware/src/status_post/status_post.cpp                          *)
(* T14 is cut where it has looked which file is T9's, and where it has     *)
(* taken one and sends it; a mount, by T9 or T11, where the card is there  *)
(* and the file not yet open.                                              *)
(*                                                                         *)
(* A file's name is the time of its creation, here its number; the clock   *)
(* only goes forward.  The rows, the queue they come by, the status post   *)
(* and the names of other units' files are left out.                       *)
(***************************************************************************)
EXTENDS Naturals, FiniteSetsExt

CONSTANTS
    MaxFile,            \* the bound on names
    MaxFiles, MinFiles, \* SD_MAX_FILES, SD_MIN_FILES
    LatchMayFail        \* NVS refuses the latch

LogAssumption ==
    /\ MinFiles \in Nat \ {0} /\ MaxFiles \in Nat /\ MinFiles <= MaxFiles
    /\ MaxFile \in Nat /\ MaxFiles < MaxFile

VARIABLES
    card,       \* the files on the card
    mounted,    \* the card is mounted
    cur, full,  \* s_cur_filename; the newest file has its size
    sdOk, released, \* s_sd_ok, s_sd_released
    opening,        \* a mount has yet to open its file
    notified,   \* T14_NOTIFY_LOG_ROTATED
    latch,      \* log_last_up
    snap, after,    \* T14: the latch in its copy of the settings; its cursor
    pcU, pcF,   \* T14, and its upload of a file
    hand,       \* the name it passes over ("scan"), the file it sends ("send")
    shipped,    \* the files the server has had
    early,      \* T14 has taken the file that is T9's to go on with
    torn,       \* T9 wrote to them though T14 had taken them for closed
    jumped      \* T14 passed over them as T9's when T9 had a newer one

t9Vars  == <<card, mounted, cur, full, sdOk, released, opening>>
t14Vars == <<latch, snap, after, pcU, pcF, hand, shipped, jumped>>
takes   == <<early, torn>>
logVars == <<t9Vars, notified, takes, t14Vars>>

Files == 1..MaxFile
Newest == IF card = {} THEN 0 ELSE Max(card)

LogInit ==
    /\ card = {1} /\ mounted = TRUE /\ cur = 1 /\ full = FALSE
    /\ sdOk = TRUE /\ released = FALSE /\ opening = FALSE /\ notified = FALSE
    /\ latch = 0 /\ snap = 0 /\ after = 0 /\ pcU = "top" /\ pcF = "look" /\ hand = 0
    /\ shipped = {} /\ early = FALSE /\ torn = {} /\ jumped = {}

-----------------------------------------------------------------------------
(* T9 *)

(* The card's own files are kept to their number, the oldest go first. *)
Trimmed(files) == IF Cardinality(files) > MaxFiles THEN files \ {Min(files)} ELSE files

(* Room is made by the oldest file, while there are more than the least.     *)
(* Otherwise logging is suspended.                                           *)
Reclaimed(files) == files \ {Min(files)}
MayReclaim(files) == Cardinality(files) > MinFiles

(* The files that T14 has taken as they were. *)
Taken == IF pcF = "send" THEN shipped \cup {hand} ELSE shipped
RowAdded == torn' = IF early THEN torn ELSE torn \cup ({cur} \cap Taken)

(* A row is written; or the card is full, and the write is tried again with  *)
(* the oldest file gone; or it fails.                                        *)
WriteRow ==
    /\ sdOk /\ mounted
    /\ \/ card' = card /\ sdOk' = TRUE
       \/ MayReclaim(card) /\ card' = Reclaimed(card) /\ sdOk' \in BOOLEAN
       \/ card' = card /\ sdOk' = FALSE
    /\ IF sdOk' THEN RowAdded ELSE UNCHANGED torn
    /\ UNCHANGED <<mounted, cur, full, released, opening, early, notified, t14Vars>>

(* With a row the file has its size: rotate_sd_file(). *)
Rotate ==
    /\ sdOk /\ mounted /\ cur < MaxFile
    /\ cur' = cur + 1 /\ RowAdded /\ early' = FALSE
    /\ \/ /\ full' = FALSE /\ notified' = TRUE
          /\ LET kept == Trimmed(card \cup {cur'}) IN
                \/ card' = kept /\ sdOk' = TRUE
                \/ IF MayReclaim(kept) THEN card' = Reclaimed(kept) /\ sdOk' = TRUE
                   ELSE card' = kept /\ sdOk' = FALSE
       \/ full' = TRUE /\ sdOk' = FALSE /\ UNCHANGED <<card, notified>>
    /\ UNCHANGED <<mounted, released, opening, t14Vars>>

(* The card is gone under T9. *)
WriteUnmounted ==
    /\ sdOk /\ ~mounted /\ sdOk' = FALSE
    /\ UNCHANGED <<card, mounted, cur, full, released, opening, notified, takes, t14Vars>>

(* event_logger_sd_remount(), by T9 once a minute or by T11 on request: the  *)
(* card, if it can be had ...                                                *)
Mount(by) ==
    /\ ~sdOk /\ (by = "T9" => ~released)
    /\ released' = FALSE
    /\ mounted' \in BOOLEAN /\ opening' = (opening \/ mounted')
    /\ UNCHANGED <<card, cur, full, sdOk, notified, takes, t14Vars>>

(* ... and the file, sd_open_active_file(): the newest is gone on with,      *)
(* unless it is full.  The card may be released meanwhile.                   *)
OpenActive ==
    IF card # {} /\ ~full THEN cur' = Newest /\ UNCHANGED <<card, full, early>>
    ELSE /\ cur < MaxFile /\ cur' = cur + 1 /\ card' = card \cup {cur'}
         /\ full' = FALSE /\ early' = FALSE

Open ==
    /\ opening /\ opening' = FALSE
    /\ \/ /\ mounted /\ OpenActive /\ sdOk' = TRUE
          /\ UNCHANGED <<mounted, released>> \/ (mounted' = FALSE /\ released' = TRUE)
       \/ mounted' = FALSE /\ UNCHANGED <<card, cur, full, sdOk, released, early>>
    /\ UNCHANGED <<notified, torn, t14Vars>>

(* event_logger_sd_unmount() *)
Unmount ==
    /\ sdOk' = FALSE /\ released' = TRUE /\ mounted' = FALSE
    /\ UNCHANGED <<card, cur, full, opening, notified, takes, t14Vars>>

-----------------------------------------------------------------------------
(* T14 *)

(* The settings are copied; then, in the daily minute, the upload. *)
Snapshot ==
    /\ pcU = "top" /\ pcU' = "daily"
    /\ snap' = latch /\ after' = latch
    /\ UNCHANGED <<t9Vars, notified, takes, latch, pcF, hand, shipped, jumped>>

(* event_logger_next_pending(): the name of T9's file, while it writes; then *)
(* the oldest file past the cursor but that one.                             *)
Look ==
    /\ pcU \in {"daily", "rotation"} /\ pcF = "look"
    /\ pcF' = "scan" /\ hand' = IF sdOk THEN cur ELSE 0
    /\ UNCHANGED <<t9Vars, notified, takes, latch, snap, after, pcU, shipped, jumped>>

(* Wrong: the newest of them is taken (gh#87). *)
WrongPending ==
    LET closed == {f \in card : f > after /\ f # hand} IN
    IF closed = {} THEN {} ELSE {Max(closed)}

Pending ==
    LET closed == {f \in card : f > after /\ f # hand} IN
    IF closed = {} THEN {} ELSE {Min(closed)}

(* T9 writes to it, or will go on with it when it can. *)
IsT9s(f) == f = Newest /\ ~full

Scan ==
    /\ pcF = "scan" /\ mounted
    /\ pcF' = "send" /\ hand' \in Pending
    /\ early' = (early \/ IsT9s(hand'))
    /\ jumped' = jumped \cup {f \in card : f = hand /\ f > after /\ ~IsT9s(f)}
    /\ UNCHANGED <<t9Vars, notified, torn, latch, snap, after, pcU, shipped>>

(* do_log_upload() is answered: the latch is stored, the cursor goes on.     *)
Deliver ==
    /\ pcF = "send"
    /\ shipped' = shipped \cup {hand} /\ after' = hand
    /\ latch' \in (IF LatchMayFail THEN {hand, latch} ELSE {hand})
    /\ pcF' = "look" /\ hand' = 0
    /\ UNCHANGED <<t9Vars, notified, takes, snap, pcU, jumped>>

(* It is not the minute, twelve are done, the card cannot be read, nothing   *)
(* is pending, or an upload fails.                                           *)
StopUpload ==
    /\ pcU \in {"daily", "rotation"}
    /\ pcF = "scan" => ~mounted \/ Pending = {}
    /\ pcU' = IF pcU = "daily" THEN "wait" ELSE "top"
    /\ pcF' = "look" /\ hand' = 0
    /\ UNCHANGED <<t9Vars, notified, takes, latch, snap, after, shipped, jumped>>

(* The wait for a rotation; it is ignored if it is not to be uploaded on. *)
WaitRotation ==
    /\ pcU = "wait" /\ notified' = FALSE
    /\ \/ notified /\ pcU' = "rotation" /\ after' = snap
       \/ pcU' = "top" /\ UNCHANGED after
    /\ UNCHANGED <<t9Vars, takes, latch, snap, pcF, hand, shipped, jumped>>

-----------------------------------------------------------------------------
LogNext ==
    \/ WriteRow \/ Rotate \/ WriteUnmounted \/ Mount("T9") \/ Mount("T11") \/ Open \/ Unmount
    \/ Snapshot \/ Look \/ Scan \/ Deliver \/ StopUpload \/ WaitRotation

(* T14 runs on, the daily minute comes, and of the uploads that are tried    *)
(* again and again one is taken by the server, and the latch stored.         *)
LogFairness ==
    /\ WF_logVars(Snapshot \/ Scan \/ StopUpload \/ WaitRotation)
    /\ SF_logVars(Look) /\ SF_logVars(Deliver /\ latch' = after')

LogSpec == LogInit /\ [][LogNext]_logVars /\ LogFairness

-----------------------------------------------------------------------------
LogTypeOK ==
    /\ card \subseteq Files /\ cur \in Files /\ shipped \subseteq Files
    /\ latch \in 0..MaxFile /\ pcU \in {"top", "daily", "wait", "rotation"}
    /\ pcF \in {"look", "scan", "send"} /\ hand \in 0..MaxFile
    /\ sdOk => cur \in card

(* No file stays behind: what the latch has passed has been uploaded whole,  *)
(* or is no longer on the card (status_post.cpp, upload_pending(): quietly,  *)
(* without ever reaching the server).  But for two files, which T14 is not   *)
(* told of: one it took while it was T9's, whose later rows are not sent,    *)
(* and one that T9 closed between T14's look at its name and the scan that   *)
(* passes over that name.                                                    *)
NoneLeftBehind ==
    \A f \in card : f <= latch => f \in shipped \ torn \/ f \in jumped

(* And a file that T9 is done with comes to its upload, if the card stays in *)
(* and retention does not come first: []<>Drained(f).                        *)
Drained(f) == f \in shipped \cup jumped \/ f \notin card \/ f >= cur \/ ~mounted
===============================================================================
