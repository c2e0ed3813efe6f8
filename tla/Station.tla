------------------------------ MODULE Station -------------------------------
(***************************************************************************)
(* The Wi-Fi station: the event handler with its retries and its back-off  *)
(* timer, T14's status posts, which notice a link that carries nothing,    *)
(* T10, which they ask for a new lease or a new association, and the time: *)
(*   src/firmware/src/network_manager/network_manager.cpp                  *)
(*   src/firmware/src/status_post/status_post.cpp                          *)
(*                                                                         *)
(* Addresses, the back-off's length and the geo look-up's contents are     *)
(* left out; credentials are there and status posts are enabled.           *)
(***************************************************************************)
EXTENDS Naturals

CONSTANTS
    kMaxRetries,
    FailA, FailB            \* T14_FAIL_THRESHOLD_A, _B

StationAssumption ==
    /\ kMaxRetries \in Nat /\ FailA \in Nat \ {0} /\ FailB \in Nat /\ FailA < FailB

VARIABLES
    router,     \* "ok", "off", or "dead": it takes a station and carries nothing
    link,       \* the station: "down", "joining", "up"
    lease,      \* what it has is good at the router
    lostEvent,  \* WIFI_EVENT_STA_DISCONNECTED has yet to be handled
    retries,    \* s_retry_count
    timer10,    \* s_reconnect_timer runs
    fails,      \* s_consecutive_post_fails
    firedA, firedB,
    asked10,    \* the notifications of T10
    ntp,        \* s_sntp_synced
    prevNtp,    \* T10's prev
    told4,      \* DM_NOTIFY_NTP_SYNCED is set
    geo         \* s_geo_done

linkVars == <<link, lease, lostEvent, retries, timer10>>
postVars == <<fails, firedA, firedB>>
timeVars == <<ntp, prevNtp, told4, geo>>
staVars  == <<router, linkVars, postVars, asked10, timeVars>>

(* nm_wifi_init_blocking() has started the radio.                           *)
StaInit ==
    /\ router = "ok" /\ link = "joining" /\ lease = FALSE
    /\ lostEvent = FALSE /\ retries = 0 /\ timer10 = FALSE
    /\ fails = 0 /\ firedA = FALSE /\ firedB = FALSE /\ asked10 = {}
    /\ ntp = FALSE /\ prevNtp = FALSE /\ told4 = FALSE /\ geo = FALSE

Online == link = "up" /\ lease /\ router = "ok"

-----------------------------------------------------------------------------
(* The router goes, comes back, or forgets what it leased. *)
Router ==
    /\ \E r \in {"ok", "off", "dead"} \ {router} : router' = r
    /\ lease' = FALSE
    /\ IF router' = "off" /\ link = "up"
       THEN link' = "down" /\ lostEvent' = TRUE
       ELSE UNCHANGED <<link, lostEvent>>
    /\ UNCHANGED <<retries, timer10, postVars, asked10, timeVars>>

(* The driver: an attempt ends with a link, with an address if the router    *)
(* gives one (IP_EVENT_STA_GOT_IP clears the retries), or it ends with the   *)
(* event.                                                                    *)
Joined ==
    /\ link = "joining"
    /\ IF router = "off"
       THEN link' = "down" /\ lostEvent' = TRUE /\ UNCHANGED <<lease, retries>>
       ELSE /\ link' = "up" /\ lease' = (router = "ok")
            /\ retries' = IF router = "ok" THEN 0 ELSE retries
            /\ UNCHANGED lostEvent
    /\ UNCHANGED <<router, timer10, postVars, asked10, timeVars>>

Connect == link' = IF link = "down" THEN "joining" ELSE link

(* nm_wifi_event_handler(), nm_schedule_reconnect() *)
Lost ==
    /\ lostEvent /\ lostEvent' = FALSE
    /\ IF retries < kMaxRetries
       THEN retries' = retries + 1 /\ Connect /\ UNCHANGED timer10
       ELSE timer10' = TRUE /\ UNCHANGED <<retries, link>>
    /\ UNCHANGED <<router, lease, postVars, asked10, timeVars>>

(* nm_reconnect_timer_cb() *)
Reconnect ==
    /\ timer10 /\ timer10' = FALSE /\ Connect
    /\ UNCHANGED <<router, lease, lostEvent, retries, postVars, asked10, timeVars>>

-----------------------------------------------------------------------------
(* Wrong: the escalation is not started over. *)
WrongPostStatus ==
    /\ \/ /\ Online
          /\ fails' = 0 /\ firedA' = FALSE /\ firedB' = FALSE
          /\ UNCHANGED asked10
       \/ LET n == IF fails < FailB THEN fails + 1 ELSE fails
              a == n >= FailA /\ ~firedA
              b == n >= FailB /\ ~firedB
          IN  /\ fails' = n /\ firedA' = (firedA \/ a) /\ firedB' = (firedB \/ b)
              /\ asked10' = asked10 \cup (IF a THEN {"renew"} ELSE {})
                                    \cup (IF b THEN {"reassociate"} ELSE {})
    /\ UNCHANGED <<router, linkVars, timeVars>>

(* do_status_post(), which may fail on a good link too, at the server: the   *)
(* escalation starts over after its second step.                             *)
PostStatus ==
    /\ \/ /\ Online
          /\ fails' = 0 /\ firedA' = FALSE /\ firedB' = FALSE
          /\ UNCHANGED asked10
       \/ LET n == fails + 1
              a == n >= FailA /\ ~firedA
              b == n >= FailB /\ ~firedB
          IN  /\ fails' = IF b THEN 0 ELSE n
              /\ firedA' = (~b /\ (firedA \/ a))
              /\ firedB' = FALSE
              /\ asked10' = asked10 \cup (IF a THEN {"renew"} ELSE {})
                                    \cup (IF b THEN {"reassociate"} ELSE {})
    /\ UNCHANGED <<router, linkVars, timeVars>>

(* T10 on its notifications: a new lease, and after it, if asked, a new      *)
(* association; the disconnection has its event, and T10 connects itself.    *)
Recover ==
    /\ asked10 # {} /\ asked10' = {}
    /\ IF "reassociate" \in asked10
       THEN /\ lease' = FALSE /\ link' = "joining"
            /\ lostEvent' = (lostEvent \/ link = "up")
       ELSE /\ lease' = (lease \/ (link = "up" /\ router = "ok"))
            /\ UNCHANGED <<link, lostEvent>>
    /\ UNCHANGED <<router, retries, timer10, postVars, timeVars>>

-----------------------------------------------------------------------------
(* nm_sntp_quick_sync() at boot, run_ntp_resync() when one is due: T4 is      *)
(* told by the second, by T10's start and its loop on the change.            *)
Resync ==
    /\ Online /\ ntp' = TRUE /\ told4' \in {ntp, TRUE} /\ UNCHANGED <<prevNtp, geo>>
    /\ UNCHANGED <<router, linkVars, postVars, asked10>>

(* The rest of T10's pass: the status is compared and posted to Q5, and once *)
(* it is online with the time it looks up where it is, which may fail.       *)
Compare ==
    /\ asked10 = {} /\ prevNtp' = ntp
    /\ told4' = (told4 \/ (ntp /\ ~prevNtp))
    /\ geo' \in {geo, geo \/ (ntp /\ Online)}
    /\ UNCHANGED <<router, linkVars, postVars, asked10, ntp>>

(* T4: handle_ntp_sync(). *)
T4Takes ==
    /\ told4 /\ told4' = FALSE
    /\ UNCHANGED <<router, linkVars, postVars, asked10, ntp, prevNtp, geo>>

StaNext ==
    \/ Router \/ Joined \/ Lost \/ Reconnect
    \/ PostStatus \/ Recover \/ Resync \/ Compare \/ T4Takes

(* The driver, the handler, the timer and the tasks go on. *)
StaFair ==
    /\ WF_staVars(Joined) /\ WF_staVars(Lost) /\ WF_staVars(Reconnect)
    /\ WF_staVars(PostStatus) /\ WF_staVars(Recover)

StaSpec == StaInit /\ [][StaNext]_staVars /\ StaFair

-----------------------------------------------------------------------------
StaTypeOK ==
    /\ router \in {"ok", "off", "dead"} /\ link \in {"down", "joining", "up"}
    /\ lease => link = "up"
    /\ retries \in 0 .. kMaxRetries /\ fails \in 0 .. FailB - 1
    /\ asked10 \subseteq {"renew", "reassociate"}
    /\ firedA \in BOOLEAN /\ (firedA <=> fails >= FailA) /\ ~firedB
    /\ prevNtp => ntp

(* Once the router stays well the unit is online again, whatever was tried   *)
(* and how often before: also where it has a link and no event will come.    *)
(* <>[]RouterWell => []<>Online.                                             *)
RouterWell == router = "ok"
===============================================================================
