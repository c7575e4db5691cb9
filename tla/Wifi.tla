------------------------------- MODULE Wifi -------------------------------
(* How the device gets on a network and when its provisioning AP is up: the *)
(* event handler, the timer task (reconnect watchdog, delayed AP close), the *)
(* selector of saved networks, the BOOT button, the wait for the first       *)
(* connection, and the provisioning page (idf_wifi.cpp).                     *)
(*                                                                           *)
(* Generations are compared for equality alone: "fresh", "current" and       *)
(* val = "current" say that no later generation was made.  The state and the *)
(* recovery mutex are held for moments and always taken in time; only the    *)
(* driver mutex, held across waits and scans, is waited for or given up.     *)
EXTENDS Naturals, Sequences

CONSTANTS MaxEvents,    \* bound: events on their way to the handler
          MaxWeb,       \* bound: submissions of the page and reconnects
          MaxPresses    \* bound: long presses of the button

VARIABLES
    driver,     \* the WiFi driver: AP interface, STA configuration, link
    events,     \* events not yet handled
    lock,       \* s_wifi_driver_mutex
    scan,       \* s_scan_running
    ap,         \* s_ap_mode, s_ap_manual_mode
    sta,        \* s_has_sta_credentials, _configured, _connected, several profiles
    target,     \* s_provisioning_target: the network submitted, "none" when inactive
    val,        \* s_provisioning_validation_generation
    rec,        \* the outage and the claim on the recovery AP
    closing,    \* s_ap_close_timer is armed
    pc,         \* where each task is
    mem,        \* what the tasks remember between steps
    used        \* history: submissions and presses

vars == <<driver, events, lock, scan, ap, sta, target, val, rec, closing, pc, mem, used>>

Networks == {"home", "new"}       \* saved, and submitted by the page
Tasks == {"handler", "timer", "select", "button", "first", "web"}

Drivers == [ap : BOOLEAN, cfg : Networks \cup {"none"},
            link : {"off", "trying", "ip"}, on : Networks \cup {"none"}]
Aps == [on : BOOLEAN, manual : BOOLEAN]
Stas == [cred : BOOLEAN, conf : BOOLEAN, up : BOOLEAN, many : BOOLEAN]
Recs == [since : {"none", "recent", "long"}, started : BOOLEAN,
         inflight : BOOLEAN, current : BOOLEAN]
Mems == [fresh : BOOLEAN, started : BOOLEAN, sel : BOOLEAN, gone : BOOLEAN,
         back : Networks \cup {"none"}, backConf : BOOLEAN,
         kind : {"none", "submit", "reconnect"}, page : BOOLEAN]

TypeOK ==
    /\ driver \in Drivers /\ ap \in Aps /\ sta \in Stas /\ rec \in Recs /\ mem \in Mems
    /\ Len(events) <= MaxEvents
    /\ lock \in Tasks \cup {"none"} /\ scan \in {"none", "page", "select"}
    /\ target \in Networks \cup {"none"} /\ val \in {"none", "current", "old"}
    /\ closing \in BOOLEAN
    /\ used.web \in 0 .. MaxWeb /\ used.press \in 0 .. MaxPresses

\* idf_wifi_start: with saved networks the STA is started and the first
\* connection waited for, with none the AP is up.
Init ==
    /\ \E saved, many \in BOOLEAN :
         /\ saved \/ ~many
         /\ driver = [ap |-> ~saved, cfg |-> IF saved /\ ~many THEN "home" ELSE "none",
                      link |-> IF saved /\ ~many THEN "trying" ELSE "off",
                      on |-> IF saved /\ ~many THEN "home" ELSE "none"]
         /\ ap = [on |-> ~saved, manual |-> FALSE]
         /\ sta = [cred |-> saved, conf |-> saved /\ ~many, up |-> FALSE, many |-> many]
         /\ pc = [t \in Tasks |-> CASE t = "first" /\ saved -> "wait"
                                    [] t = "select" /\ many -> "scan"
                                    [] OTHER -> "idle"]
    /\ events = <<>> /\ lock = "none" /\ scan = "none"
    /\ target = "none" /\ val = "none" /\ closing = FALSE
    /\ rec = [since |-> "none", started |-> FALSE, inflight |-> FALSE, current |-> FALSE]
    /\ mem = [fresh |-> FALSE, started |-> FALSE, sel |-> TRUE, gone |-> FALSE,
              back |-> "none", backConf |-> FALSE, kind |-> "none", page |-> FALSE]
    /\ used = [web |-> 0, press |-> 0, odd |-> FALSE]

-----------------------------------------------------------------------------
(* The driver: a link may come up or break at any time                      *)

Happens(e) == Len(events) < MaxEvents /\ events' = Append(events, e)

LinkUp ==
    /\ driver.link = "trying"
    /\ driver' = [driver EXCEPT !.link = "ip"] /\ Happens("gotip")
    /\ UNCHANGED <<lock, scan, ap, sta, target, val, rec, closing, pc, mem, used>>

LinkDown ==
    /\ driver.link # "off"
    /\ driver' = [driver EXCEPT !.link = "off", !.on = "none"] /\ Happens("gone")
    /\ UNCHANGED <<lock, scan, ap, sta, target, val, rec, closing, pc, mem, used>>

\* esp_wifi_connect: nothing while the link is on its way or up.
Connected(d) ==
    IF d.link = "off" /\ d.cfg # "none" THEN [d EXCEPT !.link = "trying", !.on = d.cfg] ELSE d

\* WifiDriverOperation(0): the mutex is free and no scan owns the driver.
Free == lock = "none" /\ scan = "none"
\* wifi_connect_now, which does not wait.
ConnectNow == driver' = IF Free THEN Connected(driver) ELSE driver

-----------------------------------------------------------------------------
(* The event handler                                                        *)

\* Without the mark that the AP was started, none is started again.
ResetKeeping(r) == [r EXCEPT !.since = "none", !.inflight = FALSE, !.current = FALSE]

\* reset_recovery_state: every claim and every generation read before is void.
Reset(r) == [r EXCEPT !.since = "none", !.started = FALSE, !.inflight = FALSE, !.current = FALSE]

\* A reconnect follows at once for the first drops, later ones wait for the
\* watchdog: which one it is is left open.
Disconnected ==
    /\ pc["handler"] = "idle" /\ events # <<>> /\ Head(events) = "gone"
    /\ events' = Tail(events)
    /\ sta' = [sta EXCEPT !.up = FALSE]
    /\ LET awaited == pc["web"] \in {"leave", "waiting"} IN
       IF sta.conf
         THEN /\ IF rec.since = "none"
                   THEN /\ rec' = [rec EXCEPT !.since = "recent", !.current = FALSE]
                        /\ mem' = [mem EXCEPT !.gone = awaited, !.fresh = FALSE]
                   ELSE rec' = rec /\ mem' = [mem EXCEPT !.gone = awaited]
              /\ ConnectNow \/ driver' = driver
         ELSE mem' = [mem EXCEPT !.gone = awaited] /\ UNCHANGED <<rec, driver>>
    /\ UNCHANGED <<lock, scan, ap, target, val, closing, pc, used>>

GotIp ==
    /\ pc["handler"] = "idle" /\ events # <<>> /\ Head(events) = "gotip"
    /\ events' = Tail(events)
    /\ sta' = [sta EXCEPT !.up = TRUE]
    /\ val' = IF target # "none" THEN "current" ELSE val
    /\ rec' = Reset(rec) /\ mem' = [mem EXCEPT !.fresh = FALSE]
    /\ pc' = [pc EXCEPT !["handler"] = "ap"]
    /\ UNCHANGED <<driver, lock, scan, ap, target, closing, used>>

\* Taken by name alone, a link that is on its way would count.
ValidatedByName(v) ==
    IF target = "none" \/ v # "current" \/ ~ap.on \/ ap.manual THEN "nothing"
    ELSE IF driver.on = target THEN "matched" ELSE "retry"

\* validate_provisioning_target_locked for a generation: what it finds.
Validated(v) ==
    IF target = "none" \/ v # "current" \/ ~ap.on \/ ap.manual THEN "nothing"
    ELSE IF driver.link # "ip" THEN "retry"
    ELSE IF driver.on = target THEN "matched" ELSE "nothing"

GotIpAp ==
    /\ pc["handler"] = "ap" /\ pc' = [pc EXCEPT !["handler"] = "idle"]
    /\ IF ap.on /\ sta.cred
         THEN IF target # "none"
                THEN LET v == IF val = "none" THEN "current" ELSE val
                         result == IF Free THEN Validated(v) ELSE "retry"
                     IN  /\ val' = IF result = "retry" /\ ~ap.manual THEN v ELSE "none"
                         /\ closing' = (closing \/ result = "matched"
                                          \/ (result = "retry" /\ ~ap.manual))
                         /\ target' = IF result = "matched" THEN "none" ELSE target
                         /\ mem' = IF result = "matched" THEN [mem EXCEPT !.sel = pc["select"] = "idle"] ELSE mem
                ELSE /\ closing' = (closing \/ ~ap.manual)
                     /\ UNCHANGED <<val, target, mem>>
         ELSE /\ closing' = (closing \/ (target # "none" /\ val # "none"))
              /\ UNCHANGED <<val, target, mem>>
    /\ UNCHANGED <<driver, events, lock, scan, ap, sta, rec, used>>

-----------------------------------------------------------------------------
(* The timer task: delayed close of the AP                                  *)

CloseTimer ==
    /\ closing /\ pc["timer"] = "idle"
    /\ IF val # "none"
         THEN LET result == IF Free THEN Validated(val) ELSE "retry" IN
              /\ val' = IF result = "retry" THEN val ELSE "none"
              /\ target' = IF result = "matched" THEN "none" ELSE target
              /\ mem' = IF result = "matched" THEN [mem EXCEPT !.sel = pc["select"] = "idle"] ELSE mem
              /\ closing' = (result # "nothing")
              /\ UNCHANGED <<driver, ap>>
         ELSE /\ IF target # "none" \/ ~Free THEN closing' = TRUE /\ UNCHANGED <<driver, ap>>
                 ELSE /\ closing' = FALSE
                      /\ IF ap.on /\ ~ap.manual
                           THEN /\ driver' = [driver EXCEPT !.ap = FALSE]
                                /\ ap' = [on |-> FALSE, manual |-> FALSE]
                           ELSE UNCHANGED <<driver, ap>>
              /\ UNCHANGED <<val, target, mem>>
    /\ UNCHANGED <<events, lock, scan, sta, rec, pc, used>>

-----------------------------------------------------------------------------
(* The timer task: the reconnect watchdog                                   *)

\* With the AP up it acts at every fourth tick only: it may do nothing.
Watchdog ==
    /\ pc["timer"] = "idle" /\ sta.cred /\ ~sta.up
    /\ rec' = IF rec.since = "none" THEN [rec EXCEPT !.since = "recent", !.current = FALSE]
              ELSE rec
    /\ IF target # "none"
         THEN /\ IF sta.conf THEN ConnectNow ELSE driver' = driver
              /\ UNCHANGED <<pc, mem>>
         ELSE /\ pc' = [pc EXCEPT !["timer"] = "claim"]
              /\ mem' = [mem EXCEPT !.fresh = TRUE]
              /\ UNCHANGED driver
    /\ UNCHANGED <<events, lock, scan, ap, sta, target, val, closing, used>>

\* Sixty seconds of outage pass, enough for the close timer's retries, one
\* each second, unless it waits for a network submitted.
OutageLasts ==
    /\ rec.since = "recent" /\ (closing => target # "none")
    /\ rec' = [rec EXCEPT !.since = "long"]
    /\ UNCHANGED <<driver, events, lock, scan, ap, sta, target, val, closing, pc, mem, used>>

\* idf_wifi_recovery_ap_due.
Due ==
    /\ ~rec.started /\ ~sta.up /\ sta.conf /\ ~ap.on /\ target = "none"
    /\ pc["select"] = "idle" /\ rec.since = "long" /\ mem.fresh

Claim ==
    /\ pc["timer"] = "claim"
    /\ IF Due /\ ~rec.inflight
         THEN /\ rec' = [rec EXCEPT !.inflight = TRUE, !.current = TRUE]
              /\ mem' = [mem EXCEPT !.fresh = FALSE]
              /\ pc' = [pc EXCEPT !["timer"] = "start"]
         ELSE /\ pc' = [pc EXCEPT !["timer"] = "reconnect"]
              /\ mem' = [mem EXCEPT !.fresh = FALSE] /\ UNCHANGED rec
    /\ UNCHANGED <<driver, events, lock, scan, ap, sta, target, val, closing, used>>

\* recovery_claim_is_current.
Current == rec.inflight /\ rec.current /\ sta.conf /\ ~sta.up /\ target = "none"

\* start_provisioning_ap_locked up to set_ap_state; the STA goes on.
ApUp(d) == [(IF sta.cred /\ sta.conf THEN Connected(d) ELSE d) EXCEPT !.ap = TRUE]

StartRecovery ==
    /\ pc["timer"] = "start"
    /\ IF Free
         THEN /\ lock' = "timer"
              /\ IF Current /\ ~ap.on
                   THEN driver' = ApUp(driver) /\ pc' = [pc EXCEPT !["timer"] = "mark"]
                   ELSE driver' = driver /\ pc' = [pc EXCEPT !["timer"] = "finish"]
         ELSE UNCHANGED <<driver, lock>> /\ pc' = [pc EXCEPT !["timer"] = "finish"]
    /\ UNCHANGED <<events, scan, ap, sta, target, val, rec, closing, mem, used>>

MarkRecovery ==
    /\ pc["timer"] = "mark" /\ ap' = [on |-> TRUE, manual |-> FALSE]
    /\ mem' = [mem EXCEPT !.started = TRUE]
    /\ pc' = [pc EXCEPT !["timer"] = "finish"]
    /\ UNCHANGED <<driver, events, lock, scan, sta, target, val, rec, closing, used>>

FinishTrusting ==
    /\ pc["timer"] = "finish"
    /\ rec' = [rec EXCEPT !.inflight = FALSE, !.current = FALSE, !.started = mem.started]
    /\ lock' = IF lock = "timer" THEN "none" ELSE lock
    /\ pc' = [pc EXCEPT !["timer"] = "reconnect"]
    /\ mem' = [mem EXCEPT !.started = FALSE]
    /\ UNCHANGED <<driver, ap, events, scan, sta, target, val, closing, used>>

\* finish_recovery_ap_claim: an AP started for a claim that a reset has voided
\* is taken down again.
Finish ==
    /\ pc["timer"] = "finish"
    /\ LET up == mem.started /\ ap.on /\ ~ap.manual
           valid == up /\ rec.inflight /\ rec.current /\ ~sta.up
           stale == up /\ ~valid /\ target = "none"
       IN  /\ rec' = [rec EXCEPT !.inflight = FALSE, !.current = FALSE, !.started = valid \/ @]
           /\ IF stale THEN /\ driver' = [driver EXCEPT !.ap = FALSE]
                            /\ ap' = [on |-> FALSE, manual |-> FALSE]
                       ELSE UNCHANGED <<driver, ap>>
    /\ lock' = IF lock = "timer" THEN "none" ELSE lock
    /\ pc' = [pc EXCEPT !["timer"] = "reconnect"] /\ mem' = [mem EXCEPT !.started = FALSE]
    /\ UNCHANGED <<events, scan, sta, target, val, closing, used>>

\* start_wifi_select_once, refused while a claim is being carried out.
Select == IF rec.inflight \/ pc["select"] # "idle" THEN "no" ELSE "start"

Reconnect ==
    /\ pc["timer"] = "reconnect"
    /\ IF sta.many \/ ~sta.conf
         THEN /\ pc' = [pc EXCEPT !["timer"] = "idle",
                                  !["select"] = IF Select = "start" THEN "scan" ELSE @]
              /\ mem' = IF Select = "start" THEN [mem EXCEPT !.sel = TRUE] ELSE mem
              /\ UNCHANGED driver
         ELSE pc' = [pc EXCEPT !["timer"] = "idle"] /\ ConnectNow /\ UNCHANGED mem
    /\ UNCHANGED <<events, lock, scan, ap, sta, target, val, rec, closing, used>>

-----------------------------------------------------------------------------
(* The selector of saved networks                                           *)

SelectDone == pc' = [pc EXCEPT !["select"] = "idle"] /\ mem' = [mem EXCEPT !.sel = TRUE]

\* It takes the scan, then the mutex for as long as the scan lasts.
SelectScan ==
    /\ pc["select"] = "scan"
    /\ IF target # "none" \/ scan # "none" \/ lock # "none"
         THEN SelectDone /\ UNCHANGED <<scan, lock>>
         ELSE /\ scan' = "select" /\ lock' = "select"
              /\ pc' = [pc EXCEPT !["select"] = "scanning"] /\ mem' = mem
    /\ UNCHANGED <<driver, events, ap, sta, target, val, rec, closing, used>>

SelectScanned ==
    /\ pc["select"] = "scanning" /\ scan' = "none" /\ lock' = "none"
    /\ SelectDone \/ (pc' = [pc EXCEPT !["select"] = "apply"] /\ mem' = mem)
    /\ UNCHANGED <<driver, events, ap, sta, target, val, rec, closing, used>>

\* wifi_apply_and_connect_locked: the mode follows s_ap_mode.  The driver takes
\* another configuration only while the link is down.
Applied(d, net) ==
    LET m == [d EXCEPT !.ap = ap.on]
    IN  IF m.link = "off" THEN Connected([m EXCEPT !.cfg = net]) ELSE m

SelectApplyBlindly ==
    /\ pc["select"] = "apply" /\ SelectDone
    /\ IF Free
         THEN driver' = Applied(driver, "home") /\ sta' = [sta EXCEPT !.conf = TRUE]
         ELSE UNCHANGED <<driver, sta>>
    /\ UNCHANGED <<events, lock, scan, ap, target, val, rec, closing, used>>

\* wifi_apply_and_connect_if_current: dropped if a target was submitted since.
SelectApply ==
    /\ pc["select"] = "apply" /\ SelectDone
    /\ IF Free /\ mem.sel /\ target = "none"
         THEN /\ driver' = Applied(driver, "home")
              /\ sta' = IF driver.link = "off" THEN [sta EXCEPT !.conf = TRUE] ELSE sta
         ELSE UNCHANGED <<driver, sta>>
    /\ UNCHANGED <<events, lock, scan, ap, target, val, rec, closing, used>>

-----------------------------------------------------------------------------
(* The button and the first connection                                      *)

\* start_provisioning_ap: an AP that is up only becomes a manual one.
StartAp(task, manual) ==
    IF ap.on
      THEN /\ ap' = [ap EXCEPT !.manual = @ \/ manual]
           /\ pc' = [pc EXCEPT ![task] = "idle"]
           /\ UNCHANGED <<driver, lock>>
      ELSE /\ lock' = task /\ driver' = ApUp(driver)
           /\ pc' = [pc EXCEPT ![task] = "mark"] /\ UNCHANGED ap

Press ==
    /\ pc["button"] = "idle" /\ used.press < MaxPresses
    /\ used' = [used EXCEPT !.press = @ + 1]
    /\ IF Free THEN StartAp("button", TRUE) ELSE UNCHANGED <<driver, lock, ap, pc>>
    /\ UNCHANGED <<events, scan, sta, target, val, rec, closing, mem>>

MarkAp(task, manual) ==
    /\ pc[task] = "mark" /\ ap' = [on |-> TRUE, manual |-> manual]
    /\ lock' = "none" /\ pc' = [pc EXCEPT ![task] = "idle"]
    /\ UNCHANGED <<driver, events, scan, sta, target, val, rec, closing, mem>>

ButtonMarks == MarkAp("button", TRUE) /\ UNCHANGED used

\* sta_wait_first_connect: a connection clears the AP state, without the driver.
FirstConnected ==
    /\ pc["first"] = "wait" /\ sta.up
    /\ ap' = [on |-> FALSE, manual |-> FALSE]
    /\ pc' = [pc EXCEPT !["first"] = "idle"]
    /\ used' = [used EXCEPT !.odd = @ \/ ap.on \/ driver.ap]
    /\ UNCHANGED <<driver, events, lock, scan, sta, target, val, rec, closing, mem>>

FirstTimeout ==
    /\ pc["first"] = "wait" /\ ~sta.up
    /\ pc' = [pc EXCEPT !["first"] = "start"]
    /\ UNCHANGED <<driver, events, lock, scan, ap, sta, target, val, rec, closing, mem, used>>

FirstStarts ==
    /\ pc["first"] = "start"
    /\ IF Free THEN StartAp("first", FALSE)
       ELSE pc' = [pc EXCEPT !["first"] = "idle"] /\ UNCHANGED <<driver, lock, ap>>
    /\ UNCHANGED <<events, scan, sta, target, val, rec, closing, mem, used>>

\* The connection may have come up since the wait ended, unseen.
FirstMarks ==
    /\ MarkAp("first", FALSE)
    /\ used' = [used EXCEPT !.odd = @ \/ (sta.up /\ pc["handler"] = "idle")]

-----------------------------------------------------------------------------
(* The page: idf_wifi_provision_connect and idf_wifi_reconnect              *)

\* reset_recovery_state(true, true): the recovery AP is closed, unless a
\* target is being connected to.
ResetClosing(closed) ==
    /\ rec' = Reset(rec)
    /\ IF closed THEN /\ driver' = [driver EXCEPT !.ap = FALSE]
                      /\ ap' = [on |-> FALSE, manual |-> FALSE]
                 ELSE UNCHANGED <<driver, ap>>

WebBegins(kind) ==
    /\ pc["web"] = "idle" /\ used.web < MaxWeb
    /\ kind = "reconnect" => sta.cred /\ sta.conf
    /\ used' = [used EXCEPT !.web = @ + 1]
    /\ IF Free
         THEN /\ lock' = "web"
              /\ ResetClosing(rec.started /\ ap.on /\ ~ap.manual /\ target = "none")
              /\ mem' = [mem EXCEPT !.fresh = FALSE, !.gone = FALSE, !.kind = kind,
                                    !.back = target, !.backConf = sta.conf,
                                    !.page = kind = "submit" /\ ap.on,
                                    !.sel = pc["select"] = "idle" \/ (@ /\ kind # "submit")]
              /\ sta' = [sta EXCEPT !.conf = FALSE]
              /\ target' = IF kind = "submit" THEN "none" ELSE target
              /\ val' = IF kind = "submit" /\ val = "current" THEN "old" ELSE val
              /\ pc' = [pc EXCEPT !["web"] = "leave"]
         ELSE /\ sta' = IF kind = "reconnect" THEN [sta EXCEPT !.conf = FALSE] ELSE sta
              /\ UNCHANGED <<driver, lock, ap, target, val, rec, pc, mem>>
    /\ UNCHANGED <<events, scan, closing>>
Submit == WebBegins("submit")
WebReconnect == WebBegins("reconnect")

\* wifi_disconnect_driver_locked: a link that is not down is waited for.
WebLeaves ==
    /\ pc["web"] = "leave"
    /\ IF driver.link = "off" /\ ~sta.up
         THEN pc' = [pc EXCEPT !["web"] = "apply"] /\ UNCHANGED <<driver, events>>
         ELSE /\ pc' = [pc EXCEPT !["web"] = "waiting"]
              /\ IF driver.link = "off" THEN UNCHANGED <<driver, events>>
                 ELSE driver' = [driver EXCEPT !.link = "off", !.on = "none"] /\ Happens("gone")
    /\ UNCHANGED <<lock, scan, ap, sta, target, val, rec, closing, mem, used>>

WebLeft ==
    /\ pc["web"] = "waiting" /\ mem.gone
    /\ pc' = [pc EXCEPT !["web"] = "apply"]
    /\ UNCHANGED <<driver, events, lock, scan, ap, sta, target, val, rec, closing, mem, used>>

Idle(m) == [m EXCEPT !.gone = FALSE, !.kind = "none", !.back = "none", !.backConf = FALSE]

\* restore_previous, or the error path of a reconnect.
WebFails ==
    /\ pc["web"] \in {"waiting", "apply"} /\ (pc["web"] = "apply" => mem.kind = "submit")
    /\ pc' = [pc EXCEPT !["web"] = "idle"] /\ lock' = "none"
    /\ IF mem.kind = "submit"
         THEN /\ sta' = [sta EXCEPT !.conf = mem.backConf]
              /\ target' = mem.back /\ val' = (IF val = "current" THEN "old" ELSE val)
              /\ driver' = IF sta.cred /\ mem.backConf THEN Connected(driver) ELSE driver
         ELSE UNCHANGED <<driver, sta, target, val>>
    /\ mem' = Idle(mem)
    /\ UNCHANGED <<events, scan, ap, rec, closing, used>>

SubmitApplies ==
    /\ pc["web"] = "apply" /\ mem.kind = "submit"
    /\ target' = "new" /\ val' = (IF val = "current" THEN "old" ELSE val)
    /\ sta' = [sta EXCEPT !.cred = TRUE, !.conf = TRUE]
    /\ driver' = Applied(driver, "new")
    /\ lock' = "none" /\ pc' = [pc EXCEPT !["web"] = "idle"]
    /\ mem' = [Idle(mem) EXCEPT !.sel = pc["select"] = "idle"]
    /\ UNCHANGED <<events, scan, ap, rec, closing, used>>

ReconnectApplies ==
    /\ pc["web"] = "apply" /\ mem.kind = "reconnect"
    /\ lock' = "none" /\ pc' = [pc EXCEPT !["web"] = "connect"]
    /\ UNCHANGED <<driver, events, scan, ap, sta, target, val, rec, closing, mem, used>>

ReconnectConnects ==
    /\ pc["web"] = "connect"
    /\ sta' = [sta EXCEPT !.conf = TRUE] /\ ConnectNow
    /\ pc' = [pc EXCEPT !["web"] = "idle"] /\ mem' = Idle(mem)
    /\ UNCHANGED <<events, lock, scan, ap, target, val, rec, closing, used>>

\* idf_wifi_scan_request and its collector: no operation while the scan lasts.
PageScan ==
    /\ scan = "none" /\ lock = "none" /\ scan' = "page"
    /\ UNCHANGED <<driver, events, lock, ap, sta, target, val, rec, closing, pc, mem, used>>
PageScanned ==
    /\ scan = "page" /\ scan' = "none"
    /\ UNCHANGED <<driver, events, lock, ap, sta, target, val, rec, closing, pc, mem, used>>

-----------------------------------------------------------------------------
Handler == Disconnected \/ GotIp \/ GotIpAp
Timer == Claim \/ StartRecovery \/ MarkRecovery \/ Finish \/ Reconnect
Selector == SelectScan \/ SelectScanned \/ SelectApply
First == FirstConnected \/ FirstTimeout \/ FirstStarts \/ FirstMarks
Web == WebLeaves \/ WebLeft \/ WebFails \/ SubmitApplies \/ ReconnectApplies \/ ReconnectConnects

Next ==
    \/ LinkUp \/ LinkDown
    \/ Handler \/ CloseTimer \/ Watchdog \/ OutageLasts \/ Timer
    \/ Selector \/ Press \/ ButtonMarks \/ First
    \/ Submit \/ WebReconnect \/ Web \/ PageScan \/ PageScanned

\* Tasks and timers run on; a step that needs the driver finds it free in the end.
Fairness ==
    /\ WF_vars(Handler) /\ WF_vars(Timer) /\ WF_vars(OutageLasts)
    /\ SF_vars(pc["select"] = "idle" /\ Watchdog)
    /\ SF_vars(Free /\ StartRecovery) /\ SF_vars(Free /\ CloseTimer)
    /\ WF_vars(Selector) /\ WF_vars(ButtonMarks) /\ WF_vars(First) /\ WF_vars(Web)
    /\ WF_vars(PageScanned)

Spec == Init /\ [][Next]_vars /\ Fairness

-----------------------------------------------------------------------------
(* Properties                                                               *)

\* No AP is left up on a device that is on the network: someone is still to
\* close it, unless the user opened it or waits on it for the network submitted.
NoneStranded ==
    /\ ap.on /\ ~ap.manual /\ sta.up /\ target = "none" /\ sta.cred /\ ~used.odd
    => closing \/ pc["handler"] = "ap" \/ pc["timer"] \in {"start", "mark", "finish"}
         \/ lock # "none"

\* s_ap_mode says whether the AP is up, whenever nobody is changing it.
ApStateTrue == lock = "none" /\ ~used.odd => driver.ap = ap.on

\* While a network submitted is being tried, nothing puts another in its place.
TargetKept == target # "none" /\ lock # "web" => driver.cfg = target

\* A target leaves the list of things to do only when the device is on it, or
\* another submission takes its place.
Reached ==
    target # "none" /\ target' = "none"
    => pc'["web"] = "leave" \/ (driver.on = target /\ driver.link = "ip")
TargetReached ==
    [][Reached]_vars

Offline == ~sta.up /\ target = "none" /\ sta.conf /\ scan # "page"
Recovering == driver.ap
SelectorRests == pc["select"] = "idle" /\ pc["timer"] = "idle"

\* A device that stays offline comes to have its AP up (reconnect_watchdog_cb),
\* unless it goes on trying a network submitted or the page goes on scanning, if
\* the selector, a few seconds long, is over before some tick, one each 15 s.
Recovers ==
    /\ <>[]Offline
    /\ []<>SelectorRests
    => []<>Recovering

\* idf_wifi.cpp:2208 "Keep APSTA so the page remains connected": the AP that the
\* page was used on is up when the submission has been carried out.
PageKept == mem.page /\ target = "new" /\ ~used.odd => driver.ap

-----------------------------------------------------------------------------
(* The inductive invariant.                                                 *)

WifiAssumption == MaxEvents \in Nat /\ MaxWeb \in Nat /\ MaxPresses \in Nat

Stages == {"idle", "ap", "claim", "start", "mark", "finish", "reconnect", "scan", "scanning",
           "apply", "wait", "leave", "waiting", "connect"}
Typed ==
    /\ TypeOK /\ events \in Seq({"gone", "gotip"})
    /\ pc \in [Tasks -> Stages] /\ pc["handler"] \in {"idle", "ap"}
    /\ used \in [web : 0 .. MaxWeb, press : 0 .. MaxPresses, odd : BOOLEAN]

\* Who holds the driver mutex between two steps.
Working == pc["web"] \in {"leave", "waiting", "apply"}
Locked ==
    /\ \A t \in {"timer", "button", "first"} : pc[t] = "mark" => lock = t
    /\ Working => lock = "web"
    /\ pc["select"] = "scanning" => lock = "select"

\* The network that a submission would give way to, or the one submitted.
Goal == IF Working /\ mem.kind = "submit" THEN mem.back ELSE target
Leaving ==
    /\ Working /\ mem.kind = "submit" => target = "none"
    /\ pc["web"] \in {"waiting", "apply"} => driver.link = "off"
Aimed ==
    /\ val # "none" => Goal # "none"
    /\ Goal # "none" => driver.cfg = Goal

\* Between its start and the mark, an AP is up and not known.
Marking == \E t \in {"timer", "button", "first"} : pc[t] = "mark"
ApShown ==
    ~used.odd => IF Marking THEN driver.ap /\ ~ap.on ELSE driver.ap = ap.on

Closers ==
    ap.on /\ ~ap.manual /\ sta.up /\ Goal = "none" /\ sta.cred /\ ~used.odd
    => closing \/ pc["handler"] = "ap" \/ (pc["timer"] = "finish" /\ mem.started)

IInv == Typed /\ Locked /\ Leaving /\ Aimed /\ ApShown /\ Closers
=============================================================================
