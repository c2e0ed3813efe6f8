------------------------------- MODULE LogRows -------------------------------
(***************************************************************************)
(* The rows of the log on their way to T9: Q3, which any task posts to     *)
(* without waiting and whose oldest row gives way, and the count of those  *)
(* that did:                                                               *)
(*   src/firmware/src/event_logger/event_logger.cpp                        *)
(*                                                                         *)
(* A row is what it counts: 0, or for T9's report the rows that vanished.  *)
(* What T9 writes to is LogShip's; here a write may fail, and T9 posts too;*)
(* what it takes with no card to write to is gone without being counted.   *)
(***************************************************************************)
EXTENDS Naturals, Sequences

CONSTANTS
    Posters,    \* the tasks that post, other than T9
    Q3Depth,
    MaxRows     \* rows posted in a behaviour

RowsAssumption == "T9" \notin Posters /\ Q3Depth \in Nat \ {0} /\ MaxRows \in Nat

VARIABLES
    q3,
    dropped,    \* g_q3_dropped
    pcRow,      \* where each task is in log_post()
    pc9, count9,    \* T9: its place, the count it took
    posts,      \* rows posted so far
    vanished,   \* rows evicted from Q3 or refused by it
    refused,    \* Q3 has refused one twice
    said, unsaid    \* of the counts: what T9 has logged; what went with a report

rowVars == <<q3, dropped, pcRow, pc9, count9, posts, vanished, refused, said, unsaid>>

Tasks == Posters \cup {"T9"}

RowsInit ==
    /\ q3 = <<>> /\ dropped = 0 /\ pcRow = [t \in Tasks |-> "idle"]
    /\ pc9 = "wait" /\ count9 = 0
    /\ posts = 0 /\ vanished = 0 /\ refused = FALSE /\ said = 0 /\ unsaid = 0

MovesRow(t, from, to) == pcRow[t] = from /\ pcRow' = [pcRow EXCEPT ![t] = to]

(* xQueueSend() of a row, with no wait. *)
Sends(row) == Len(q3) < Q3Depth /\ q3' = Append(q3, row)

-----------------------------------------------------------------------------
(* log_post(): sent, if there is room ...                                    *)
PostRow(t) ==
    /\ posts < MaxRows /\ posts' = posts + 1 /\ MovesRow(t, "idle", "send")
    /\ UNCHANGED <<q3, dropped, pc9, count9, vanished, refused, said, unsaid>>

SendRow(t) ==
    /\ \/ Sends(0) /\ MovesRow(t, "send", "idle")
       \/ Len(q3) = Q3Depth /\ MovesRow(t, "send", "evict") /\ UNCHANGED q3
    /\ UNCHANGED <<dropped, pc9, count9, posts, vanished, refused, said, unsaid>>

(* ... or else in the place of the oldest, unless T9 has emptied Q3 by now;  *)
(* a drop is counted either way ...                                          *)
EvictRow(t) ==
    /\ MovesRow(t, "evict", "count")
    /\ \/ /\ q3 # <<>> /\ q3' = Tail(q3)
          /\ vanished' = vanished + 1 /\ unsaid' = unsaid + Head(q3)
       \/ q3 = <<>> /\ UNCHANGED <<q3, vanished, unsaid>>
    /\ UNCHANGED <<dropped, pc9, count9, posts, refused, said>>

CountRow(t) ==
    /\ MovesRow(t, "count", "retry") \/ MovesRow(t, "recount", "idle")
    /\ dropped' = dropped + 1
    /\ UNCHANGED <<q3, pc9, count9, posts, vanished, refused, said, unsaid>>

(* ... and once more, if another task was quicker. *)
RetryRow(t) ==
    /\ \/ Sends(0) /\ MovesRow(t, "retry", "idle") /\ UNCHANGED <<vanished, refused>>
       \/ /\ Len(q3) = Q3Depth /\ MovesRow(t, "retry", "recount")
          /\ vanished' = vanished + 1 /\ refused' = TRUE /\ UNCHANGED q3
    /\ UNCHANGED <<dropped, pc9, count9, posts, said, unsaid>>

-----------------------------------------------------------------------------
(* task_event_logger(): wakes on a row and takes all there are; where the    *)
(* card fails it posts a row of its own.                                     *)
TakeRow ==
    /\ pc9 \in {"wait", "drain"} /\ pc9' = "drain" /\ pcRow["T9"] = "idle"
    /\ q3 # <<>> /\ q3' = Tail(q3) /\ said' = said + Head(q3)
    /\ \/ UNCHANGED <<pcRow, posts>>
       \/ posts < MaxRows /\ posts' = posts + 1 /\ MovesRow("T9", "idle", "send")
    /\ UNCHANGED <<dropped, count9, vanished, refused, unsaid>>

FindEmpty ==
    /\ pc9 = "drain" /\ pc9' = "drained" /\ pcRow["T9"] = "idle" /\ q3 = <<>>
    /\ UNCHANGED <<q3, dropped, pcRow, count9, posts, vanished, refused, said, unsaid>>

(* log_take_dropped_count(), by which time Q3 may have filled again. *)
TakeCount ==
    /\ pc9 = "drained"
    /\ count9' = dropped /\ dropped' = 0
    /\ pc9' = IF dropped > 0 THEN "report" ELSE "wait"
    /\ UNCHANGED <<q3, pcRow, posts, vanished, refused, said, unsaid>>

(* The report is sent once, room or no room. *)
ReportCount ==
    /\ pc9 = "report" /\ pc9' = "wait" /\ count9' = 0
    /\ \/ Sends(count9) /\ UNCHANGED unsaid
       \/ Len(q3) = Q3Depth /\ unsaid' = unsaid + count9 /\ UNCHANGED q3
    /\ UNCHANGED <<dropped, pcRow, posts, vanished, refused, said>>

RowsNext ==
    \/ \E t \in Posters : PostRow(t)
    \/ \E t \in Tasks : SendRow(t) \/ EvictRow(t) \/ CountRow(t) \/ RetryRow(t)
    \/ TakeRow \/ FindEmpty \/ TakeCount \/ ReportCount

RowsSpec == RowsInit /\ [][RowsNext]_rowVars

-----------------------------------------------------------------------------
RowsTypeOK ==
    /\ q3 \in Seq(Nat) /\ Len(q3) <= Q3Depth
    /\ pcRow \in [Tasks -> {"idle", "send", "evict", "count", "retry", "recount"}]
    /\ pc9 \in {"wait", "drain", "drained", "report"} /\ (count9 > 0 <=> pc9 = "report")
    /\ posts <= MaxRows /\ dropped <= 2 * MaxRows

(* With Q3 empty and everyone at rest, every row that vanished has been told *)
(* of, or its count went with a report that did not get through.  A drop     *)
(* waits for some later row to wake T9 only where Q3 refused a row twice: it *)
(* is counted before the row that takes its place can wake T9.               *)
RowsAreTold ==
    (q3 = <<>> /\ pc9 = "wait" /\ \A t \in Tasks : pcRow[t] = "idle") =>
        /\ vanished <= said + unsaid + dropped
        /\ dropped > 0 => refused
===============================================================================
