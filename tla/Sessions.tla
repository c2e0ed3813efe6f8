------------------------------- MODULE Sessions -------------------------------
(***************************************************************************)
(* The sessions of the web server: a few slots, each with an expiry in the *)
(* time of day, which every request slides forward and a login overwrites. *)
(*   src/firmware/src/web_server/web_server.cpp                            *)
(*                                                                         *)
(* The server's one task opens, renews and closes; T16 and T17 only look.  *)
(* The time of day is set by others: NTP or the operator may move it       *)
(* either way.  The PIN itself is Pins' matter.                            *)
(***************************************************************************)
EXTENDS Integers, FiniteSets

CONSTANTS
    Slots,          \* 1..MAX_SESSIONS
    Tokens,         \* more than the slots: gen_token() never repeats a live one
    Timeouts,       \* what session_timeout_min may be set to
    MaxNow          \* the end of time

SessionAssumption ==
    /\ IsFiniteSet(Slots) /\ Slots \subseteq Nat /\ Slots # {}
    /\ Timeouts \subseteq Nat \ {0} /\ MaxNow \in Nat \ {0}

VARIABLES
    sessions,       \* per slot: token, expiry (0: free), length, age since last used
    now,            \* time(NULL)
    setBack         \* by how much the clock was ever set back

sessionVars == <<sessions, now, setBack>>

Nobody == "nobody"
FreeSlot == [token |-> Nobody, expiry |-> 0, len |-> 0, age |-> 0]

SessionInit ==
    /\ sessions = [s \in Slots |-> FreeSlot]
    /\ now = 1 /\ setBack = 0

Live(s) == sessions[s].expiry > now

(* session_find_and_renew(): a request with a cookie is answered for a live  *)
(* session, whose time starts again.                                         *)
FindAndRenew(token) ==
    \E s \in Slots :
        /\ Live(s) /\ sessions[s].token = token
        /\ sessions' = [sessions EXCEPT ![s].expiry = now + sessions[s].len, ![s].age = 0]
        /\ UNCHANGED <<now, setBack>>

Free == {s \in Slots : sessions[s].expiry = 0}
First(set) == {s \in set : \A other \in set : s <= other}
Soonest == {s \in Slots : \A other \in Slots : sessions[s].expiry <= sessions[other].expiry}

(* Wrong: the last to run out gives way (the comparison turned round).       *)
WrongChosen ==
    IF Free # {} THEN First(Free)
    ELSE First({s \in Slots : \A other \in Slots : sessions[s].expiry >= sessions[other].expiry})

(* The slot a login takes: a free one, or the one that runs out first.       *)
Chosen == IF Free # {} THEN First(Free) ELSE First(Soonest)

(* login_handler(), the PIN being right, with the timeout set at that time.  *)
Login(token, len) ==
    /\ \A s \in Slots : sessions[s].token # token
    /\ \E s \in Chosen :
        sessions' = [sessions EXCEPT
            ![s] = [token |-> token, expiry |-> now + len, len |-> len, age |-> 0]]
    /\ UNCHANGED <<now, setBack>>

(* logout_handler(): the slot is wiped, its session live or not.             *)
Logout(token) ==
    \E s \in Slots :
        /\ sessions[s].token = token
        /\ sessions' = [sessions EXCEPT ![s] = FreeSlot]
        /\ UNCHANGED <<now, setBack>>

Older(s) ==
    IF sessions[s].token = Nobody THEN sessions[s]
    ELSE [sessions[s] EXCEPT !.age = sessions[s].age + 1]

TimePasses ==
    /\ now < MaxNow /\ now' = now + 1
    /\ sessions' = [s \in Slots |-> Older(s)]
    /\ UNCHANGED setBack

(* NTP or the operator sets the clock.                                       *)
ClockIsSet ==
    \E t \in 1..MaxNow :
        /\ t # now /\ now' = t
        /\ setBack' = IF t < now THEN setBack + now - t ELSE setBack
        /\ setBack' <= MaxNow
        /\ UNCHANGED sessions

SessionNext ==
    \/ \E token \in Tokens : FindAndRenew(token) \/ Logout(token)
    \/ \E token \in Tokens, len \in Timeouts : Login(token, len)
    \/ TimePasses \/ ClockIsSet

SessionSpec == SessionInit /\ [][SessionNext]_sessionVars

-----------------------------------------------------------------------------
SessionTypeOK ==
    /\ \A s \in Slots : /\ sessions[s].token \in Tokens \union {Nobody}
                        /\ sessions[s].len \in Timeouts \union {0}
                        /\ sessions[s].expiry \in Nat /\ sessions[s].age \in Nat
    /\ now \in 1..MaxNow /\ setBack \in 0..MaxNow

(* Who is logged in stays so: his session ends by his logout, by its time or *)
(* by the clock, and by another's login only when every slot is live, and    *)
(* then it is the one that would have run out first.  A slot that has lapsed *)
(* but was never wiped counts as taken, and must still be found before a     *)
(* live one.                                                                 *)
SessionsLast ==
    [][\A s \in Slots :
        (Live(s) /\ sessions'[s].token \notin {sessions[s].token, Nobody}) =>
            \A other \in Slots :
                Live(other) /\ sessions[s].expiry <= sessions[other].expiry]_sessionVars

(* A session left alone is dead after its timeout, and what it outlives that *)
(* by is what the clock was set back, and no more.                           *)
LapsesInTime == \A s \in Slots : Live(s) => sessions[s].age < sessions[s].len + setBack
=============================================================================
