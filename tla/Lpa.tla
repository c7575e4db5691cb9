-------------------------------- MODULE Lpa --------------------------------
(***************************************************************************)
(* The installation of an eSIM profile (idf_lpa_install.cpp), the web job  *)
(* that runs it and the user's consent (idf_web.cpp), and the card's       *)
(* pending notifications.                                                  *)
(*                                                                         *)
(* One action is one exchange with the card or a server, or one hold of    *)
(* the cellular job lock.  An exchange has three outcomes: answered,       *)
(* "unheard" (carried out, the answer is lost) and "lost".  The contents   *)
(* of the messages are abstracted to whether the code accepts them.        *)
(***************************************************************************)
EXTENDS Naturals, FiniteSets

CONSTANTS Hosts,          \* SM-DP+ servers, numbered by their alphabetical order
          Initial,        \* notifications on the card at first
          MaxSeq,         \* the card's last sequence number here (model bound)
          MaxPending,     \* kMaxPendingNotifications
          MaxJobs,        \* installations (model bound)
          MaxRestarts     \* restarts of the device (model bound)

VARIABLES
    job,        \* s_esim_job, with the server the activation code names
    wait,       \* s_esim_confirmation_*; late: 0, past the installer's deadline, past the job's
    at,         \* where esim_task is
    left,       \* notifications that recover_notifications has still to send
    held,       \* the current host's notifications could not be sent
    got,        \* what the confirmation callback returned
    result,     \* result.error so far
    session,    \* the server's session: none, open, cancelled, used
    card,       \* the card: its notifications, next number, and the profile of this job
    restarts,   \* history: restarts so far
    delivered,  \* history: notifications that reached their server
    consented   \* history: jobs the user named in an accepted consent

vars == <<job, wait, at, left, held, got, result, session, card, restarts, delivered, consented>>
history == <<restarts, delivered, consented>>

Note == Hosts \X (1 .. MaxSeq)      \* server and sequence number
Outcomes == {"ok", "unheard", "lost"}
Errors == {"none", "card", "protocol", "server", "notification_pending", "policy", "timeout",
           "invalid", "postponed", "uncertain", "failed", "cancellation_failed"}

Silent == [state |-> "off", received |-> FALSE, accepted |-> FALSE, code |-> 0, late |-> 0]
NoJob(id) == [id |-> id, phase |-> "idle", host |-> CHOOSE h \in Hosts : TRUE,
              code |-> FALSE, installed |-> FALSE, pending |-> FALSE]

Jobs == [id : 0 .. MaxJobs, phase : {"idle", "queued", "running", "done"}, host : Hosts,
         code : BOOLEAN, installed : BOOLEAN, pending : BOOLEAN]
Waits == [state : {"off", "on"}, received : BOOLEAN, accepted : BOOLEAN,
          code : 0 .. MaxJobs, late : 0 .. 2]
Consents == [received : BOOLEAN, accepted : BOOLEAN, code : 0 .. MaxJobs]
Cards == [notes : SUBSET Note, next : 1 .. MaxSeq + 1, own : 0 .. MaxSeq, profile : BOOLEAN]

TypeOK ==
    /\ job \in Jobs /\ wait \in Waits /\ got \in Consents /\ card \in Cards
    /\ at \in {"idle", "begin", "retrieve", "send", "remove", "initiate", "authenticate", "ask",
               "waiting", "answered", "prepare", "download", "notify", "notifyRemove",
               "cancel", "finish"}
    /\ left \subseteq Note /\ held \in BOOLEAN /\ result \in Errors
    /\ session \in {"none", "open", "cancelled", "used"}
    /\ restarts \in 0 .. MaxRestarts /\ delivered \subseteq Note /\ consented \subseteq 1 .. MaxJobs

Init ==
    /\ job = NoJob(0) /\ wait = Silent /\ at = "idle" /\ left = {} /\ held = FALSE
    /\ got = [received |-> FALSE, accepted |-> FALSE, code |-> 0]
    /\ result = "none" /\ session = "none"
    /\ card = [notes |-> Initial, own |-> 0, profile |-> FALSE,
               next |-> CHOOSE n \in 1 .. MaxSeq + 1 : \A m \in Initial : m[2] < n]
    /\ restarts = 0 /\ delivered = {} /\ consented = {}

-----------------------------------------------------------------------------
(* The job and its notifications. *)

\* start_esim_job for an installation.
StartJob(host) ==
    /\ at = "idle" /\ job.phase \in {"idle", "done"} /\ job.id < MaxJobs
    /\ job' = [NoJob(job.id + 1) EXCEPT !.phase = "queued", !.host = host]
    /\ at' = "begin" /\ result' = "none" /\ session' = "none"
    /\ card' = [card EXCEPT !.own = 0, !.profile = FALSE]
    /\ UNCHANGED <<wait, left, held, got, history>>

\* esim_task marks its job running, if it gets the lock in time.
Begin(locked) ==
    /\ at = "begin" /\ at' = "retrieve"
    /\ job' = IF locked THEN [job EXCEPT !.phase = "running"] ELSE job
    /\ UNCHANGED <<wait, left, held, got, result, session, card, history>>

\* Every way out of the installer: no session is cancelled before there is one.
Leave(error) == result' = error /\ at' = "finish"

\* recover_notifications sorts by server and then by number, and takes them from
\* the front: each time the first of those that are left.
Before(a, b) == a[1] < b[1] \/ (a[1] = b[1] /\ a[2] < b[2])
First == CHOOSE n \in left : \A m \in left : ~Before(m, n)

\* The card's list is fetched and checked as a whole.
Retrieve(ok) ==
    /\ at = "retrieve" /\ held' = FALSE
    /\ \/ /\ ~ok /\ left' = {} /\ \E e \in {"card", "protocol"} : Leave(e)
       \/ /\ ok /\ Cardinality(card.notes) > MaxPending /\ left' = {} /\ Leave("protocol")
       \/ /\ ok /\ Cardinality(card.notes) <= MaxPending
          /\ left' = card.notes /\ at' = "send" /\ UNCHANGED result
    /\ UNCHANGED <<job, wait, got, session, card, history>>

\* A server whose notification failed has its later ones put off.
Skip(host) == {n \in left : n[1] # host}

PutOff(host) ==
    /\ left' = Skip(host) /\ held' = (held \/ host = job.host) /\ at' = "send"

SendRemovesFirst(outcome) ==
    /\ at = "send" /\ left # {}
    /\ delivered' = IF outcome = "lost" THEN delivered ELSE delivered \cup {First}
    /\ left' = left \ {First} /\ at' = "send"
    /\ card' = [card EXCEPT !.notes = @ \ {First}]
    /\ UNCHANGED <<job, wait, held, got, result, session, restarts, consented>>

\* The HTTP exchange of notification().
Send(outcome) ==
    /\ at = "send" /\ left # {}
    /\ delivered' = IF outcome = "lost" THEN delivered ELSE delivered \cup {First}
    /\ \/ outcome = "ok" /\ at' = "remove" /\ UNCHANGED <<left, held>>
       \/ outcome # "ok" /\ PutOff(First[1])
    /\ UNCHANGED <<job, wait, got, result, session, card, restarts, consented>>

Removed(note, outcome) ==
    card' = IF outcome = "lost" THEN card ELSE [card EXCEPT !.notes = @ \ {note}]

\* Removing it from the card, where it may be absent already.
Discard(outcome) ==
    /\ at = "remove" /\ Removed(First, outcome)
    /\ \/ outcome = "ok" /\ left' = left \ {First} /\ at' = "send" /\ UNCHANGED held
       \/ outcome # "ok" /\ PutOff(First[1])
    /\ UNCHANGED <<job, wait, got, result, session, history>>

\* Only the current server's failure stops the installation.
Recovered ==
    /\ at = "send" /\ left = {}
    /\ \/ held /\ Leave("notification_pending")
       \/ ~held /\ at' = "initiate" /\ UNCHANGED result
    /\ UNCHANGED <<job, wait, left, held, got, session, card, history>>

-----------------------------------------------------------------------------
(* Authentication and consent. *)

\* IMEI, the card's challenge, and InitiateAuthentication.  A session that the
\* server opened without our knowing is not cancelled.
Initiate(error) ==
    /\ at = "initiate"
    /\ \/ /\ error = "none" /\ session' = "open" /\ at' = "authenticate" /\ UNCHANGED result
       \/ /\ error \in {"card", "server", "protocol"} /\ session' = session /\ Leave(error)
    /\ UNCHANGED <<job, wait, left, held, got, card, history>>

AbandonUnnamed(error) == result' = "abandoned" /\ at' = "cancel"

\* From here on a failure cancels the session.
Abandon(error) == result' = error /\ at' = "cancel"

\* The card authenticates the server and the server the card; the profile's
\* metadata must parse and carry no policy rules.
Authenticate(error) ==
    /\ at = "authenticate"
    /\ \/ error = "none" /\ at' = "ask" /\ UNCHANGED result
       \/ error \in {"card", "server", "protocol", "policy"} /\ Abandon(error)
    /\ UNCHANGED <<job, wait, left, held, got, session, card, history>>

\* esim_install_confirmation, up to its loop.
Ask(locked, code) ==
    /\ at = "ask"
    /\ \/ /\ ~locked /\ Abandon("timeout") /\ UNCHANGED <<job, wait>>
       \/ /\ locked /\ job.phase # "running" /\ Abandon("invalid") /\ UNCHANGED <<job, wait>>
       \/ /\ locked /\ job.phase = "running"
          /\ wait' = [Silent EXCEPT !.state = "on"]
          /\ job' = [job EXCEPT !.code = code] /\ at' = "waiting" /\ UNCHANGED result
    /\ UNCHANGED <<left, held, got, session, card, history>>

\* Time passes while the user thinks.  The installer's deadline was set first.
Tick ==
    /\ at \in {"waiting", "answered"} /\ wait.late < 2
    /\ wait' = [wait EXCEPT !.late = @ + 1]
    /\ UNCHANGED <<job, at, left, held, got, result, session, card, history>>

ExpectsAny(id) ==
    /\ wait.state = "on" /\ job.phase = "running" /\ ~wait.received /\ wait.late < 2

Expects(id) ==
    /\ wait.state = "on" /\ job.id = id /\ job.phase = "running"
    /\ ~wait.received /\ wait.late < 2

\* submit_esim_confirmation: a code is given if and only if one is needed.
Submit(id, consent, coded) ==
    LET fits == coded = (consent /\ job.code) IN
    /\ id \in 1 .. job.id /\ Expects(id) /\ fits
    /\ wait' = [wait EXCEPT !.received = TRUE, !.accepted = consent,
                            !.code = IF coded THEN id ELSE 0]
    /\ consented' = IF consent THEN consented \cup {id} ELSE consented
    /\ UNCHANGED <<job, at, left, held, got, result, session, card, restarts, delivered>>

AnsweredPatiently ==
    /\ at = "waiting" /\ wait.received
    /\ got' = [received |-> TRUE, accepted |-> wait.accepted, code |-> wait.code]
    /\ wait' = [Silent EXCEPT !.late = wait.late] /\ at' = "answered"
    /\ UNCHANGED <<job, left, held, result, session, card, history>>

\* The loop of esim_install_confirmation sees the answer or its deadline.
Answered ==
    /\ at = "waiting" /\ (wait.received \/ wait.late = 2)
    /\ got' = IF wait.late < 2
                 THEN [received |-> TRUE, accepted |-> wait.accepted, code |-> wait.code]
                 ELSE [received |-> FALSE, accepted |-> FALSE, code |-> 0]
    /\ wait' = [Silent EXCEPT !.late = wait.late] /\ at' = "answered"
    /\ UNCHANGED <<job, left, held, result, session, card, history>>

\* The installer checks its own deadline once more.
Consider ==
    /\ at = "answered"
    /\ \/ (~got.received \/ wait.late > 0) /\ Abandon("timeout")
       \/ got.received /\ wait.late = 0 /\ ~got.accepted /\ Abandon("postponed")
       \/ got.received /\ wait.late = 0 /\ got.accepted /\ at' = "prepare" /\ UNCHANGED result
    /\ UNCHANGED <<job, wait, left, held, got, session, card, history>>

\* PrepareDownload, with the hash of the code.
Prepare(ok) ==
    /\ at = "prepare"
    /\ \/ ok /\ at' = "download" /\ UNCHANGED result
       \/ ~ok /\ \E e \in {"card", "protocol", "invalid"} : Abandon(e)
    /\ UNCHANGED <<job, wait, left, held, got, session, card, history>>

-----------------------------------------------------------------------------
(* The package and its notification. *)

\* What the card makes of the package: a profile and a notification of it, a
\* notification of a failure, or nothing.
Loaded(what) ==
    IF what = "nothing" THEN card
    ELSE [card EXCEPT !.notes = @ \cup {<<job.host, card.next>>}, !.own = card.next,
                      !.next = @ + 1, !.profile = what = "profile"]

DownloadCertain(what, heard) ==
    /\ at = "download" /\ (what # "nothing" => card.next <= MaxSeq)
    /\ card' = Loaded(what) /\ session' = "used"
    /\ \/ heard /\ what # "nothing" /\ at' = "notify" /\ UNCHANGED result
       \/ ~(heard /\ what # "nothing") /\ Leave("server")
    /\ UNCHANGED <<job, wait, left, held, got, history>>

\* GetBoundProfilePackage streams the package into the card; unless a valid
\* installation result comes back nothing is known.
Download(what, heard) ==
    /\ at = "download" /\ (what # "nothing" => card.next <= MaxSeq)
    /\ card' = Loaded(what) /\ session' = "used"
    /\ \/ heard /\ what # "nothing" /\ at' = "notify" /\ UNCHANGED result
       \/ ~(heard /\ what # "nothing") /\ Leave("uncertain")
    /\ UNCHANGED <<job, wait, left, held, got, history>>

Own == <<job.host, card.own>>

ConcludeDone(pending) ==
    /\ job' = [job EXCEPT !.installed = card.profile, !.pending = FALSE]
    /\ Leave(IF ~card.profile THEN "failed" ELSE "none")

\* The result as the last lines of the installer set it.
Conclude(pending) ==
    /\ job' = [job EXCEPT !.installed = card.profile, !.pending = pending]
    /\ Leave(IF ~card.profile THEN "failed" ELSE IF pending THEN "notification_pending" ELSE "none")

Notify(outcome) ==
    /\ at = "notify"
    /\ delivered' = IF outcome = "lost" THEN delivered ELSE delivered \cup {Own}
    /\ \/ outcome = "ok" /\ at' = "notifyRemove" /\ UNCHANGED <<job, result>>
       \/ outcome # "ok" /\ Conclude(TRUE)
    /\ UNCHANGED <<wait, left, held, got, session, card, restarts, consented>>

NotifyRemove(outcome) ==
    /\ at = "notifyRemove" /\ Removed(Own, outcome) /\ Conclude(outcome # "ok")
    /\ UNCHANGED <<wait, left, held, got, session, history>>

CancelCareless(outcome) ==
    /\ at = "cancel" /\ session' = IF outcome = "lost" THEN session ELSE "cancelled"
    /\ at' = "finish" /\ UNCHANGED result
    /\ UNCHANGED <<job, wait, left, held, got, card, history>>

\* cancel_session, on the card and at the server.
Cancel(outcome) ==
    /\ at = "cancel" /\ session' = IF outcome = "lost" THEN session ELSE "cancelled"
    /\ Leave(IF outcome = "ok" THEN result ELSE "cancellation_failed")
    /\ UNCHANGED <<job, wait, left, held, got, card, history>>

\* The end of esim_task.
Finish ==
    /\ at = "finish" /\ at' = "idle"
    /\ job' = [job EXCEPT !.phase = "done", !.code = FALSE]
    /\ wait' = Silent
    /\ UNCHANGED <<left, held, got, result, session, card, history>>

\* The device restarts: the card and the servers stay as they are.
Restart ==
    /\ restarts < MaxRestarts /\ restarts' = restarts + 1
    /\ job' = NoJob(job.id) /\ wait' = Silent /\ at' = "idle" /\ left' = {} /\ held' = FALSE
    /\ result' = "none" /\ session' = "none"
    /\ UNCHANGED <<got, card, delivered, consented>>

Exchange ==
    \/ \E ok \in BOOLEAN : Retrieve(ok) \/ Prepare(ok)
    \/ \E o \in Outcomes : Send(o) \/ Discard(o) \/ Notify(o) \/ NotifyRemove(o) \/ Cancel(o)
    \/ \E e \in Errors : Initiate(e) \/ Authenticate(e)
    \/ \E heard \in BOOLEAN, what \in {"profile", "refusal", "nothing"} : Download(what, heard)

Task ==
    \/ Exchange \/ Recovered \/ Answered \/ Consider \/ Finish
    \/ \E locked \in BOOLEAN : Begin(locked) \/ \E code \in BOOLEAN : Ask(locked, code)

User == \E id \in 1 .. MaxJobs, consent, coded \in BOOLEAN : Submit(id, consent, coded)

Next == Task \/ Tick \/ User \/ Restart \/ \E host \in Hosts : StartJob(host)

\* Every exchange ends or times out, and time passes.
Fairness == WF_vars(Task) /\ WF_vars(Tick)

Spec == Init /\ [][Next]_vars /\ Fairness

-----------------------------------------------------------------------------
(* Properties *)

\* notification(), idf_lpa_install.cpp:218: a notification leaves the card
\* only when its server has it, whatever is lost on the way.
Kept == card.notes \ card'.notes \subseteq delivered
NotificationKept == [][Kept]_vars

\* recover_notifications: a server never gets a notification while an older
\* one for it is on the card undelivered.
Ordered ==
    \A n \in delivered' \ delivered, m \in card.notes :
       m[1] = n[1] /\ m[2] < n[2] => m \in delivered
InOrder == [][Ordered]_vars

\* The job's outcome is true of the card: success means that the profile is
\* there, and notified unless it says otherwise; any failure but "uncertain"
\* means that it is not there.
OutcomeTrue ==
    job.phase = "done" =>
        /\ job.installed => /\ card.profile
                            /\ job.pending \/ (Own \in delivered /\ Own \notin card.notes)
        /\ ~job.installed /\ result # "uncertain" => ~card.profile

\* A download is prepared only with the consent that the user gave to this very
\* job, and with the code given with it.
ConsentGiven ==
    at \in {"prepare", "download", "notify", "notifyRemove"} =>
        /\ job.id \in consented
        /\ got.code = (IF job.code THEN job.id ELSE 0)

\* A server's session that the installer knows of is cancelled or used when the
\* job ends, unless the job says that cancelling failed; what was cancelled was
\* not installed.
SessionsClosed ==
    /\ job.phase = "done" /\ session = "open" => result = "cancellation_failed"
    /\ session = "cancelled" => ~card.profile

Busy == job.phase \in {"queued", "running"}

\* Every job ends, although the user may never answer.
JobEnds == Busy ~> ~Busy

-----------------------------------------------------------------------------
(* The inductive invariant *)

LpaAssumption ==
    /\ Hosts \subseteq Nat /\ Hosts # {} /\ Initial \subseteq Note
    /\ MaxSeq \in Nat \ {0} /\ MaxPending \in Nat /\ MaxJobs \in Nat /\ MaxRestarts \in Nat

\* The job goes along with its task.
Phases ==
    /\ job.phase \in {"idle", "done"} <=> at = "idle"
    /\ at # "idle" => job.id # 0
    /\ wait.state = "on" => at = "waiting"

\* Until the package is sent the card has no profile of the job, and the server's
\* session is open once initiated.
Untouched ==
    /\ at \in {"begin", "retrieve", "send", "remove", "initiate"} => session = "none"
    /\ at \in {"authenticate", "ask", "waiting", "answered", "prepare", "download", "cancel"}
         => session = "open"
    /\ at \in {"notify", "notifyRemove"} => session = "used" /\ card.own # 0
    /\ at \notin {"idle", "notify", "notifyRemove", "finish"} => ~card.profile /\ ~job.installed

\* What the job is about to report is true already.
Concluded ==
    at = "finish" \/ job.phase = "done" =>
        /\ job.installed => card.profile /\ (job.pending \/ (Own \in delivered /\ Own \notin card.notes))
        /\ ~job.installed /\ result # "uncertain" => ~card.profile
        /\ session = "open" => result = "cancellation_failed"

\* A cancelled session has left nothing on the card.
Cancelled == session = "cancelled" => at \in {"idle", "finish"} /\ ~card.profile

\* A consent on its way to the installer was given to this job.
Agreed ==
    /\ at = "waiting" /\ wait.received /\ wait.accepted =>
         job.id \in consented /\ wait.code = (IF job.code THEN job.id ELSE 0)
    /\ at = "answered" /\ got.received /\ got.accepted =>
         job.id \in consented /\ got.code = (IF job.code THEN job.id ELSE 0)

\* A notification that is neither delivered nor still to be sent is of a server
\* that was put off; past the recovery it is not of this job's server.
Accounted ==
    /\ at \in {"send", "remove"} =>
         \A m \in card.notes \ (delivered \cup left) :
            (\A n \in left : n[1] # m[1]) /\ (m[1] = job.host => held)
    /\ at = "remove" => left # {} /\ First \in delivered
    /\ at \in {"initiate", "authenticate", "ask", "waiting", "answered", "prepare", "download"} =>
         \A m \in card.notes : m[1] = job.host => m \in delivered
    /\ at = "notify" => \A m \in card.notes : m[1] = job.host => m \in delivered \cup {Own}
    /\ at = "notifyRemove" => Own \in delivered

IInv ==
    /\ TypeOK /\ Phases /\ Untouched /\ Concluded /\ Cancelled /\ Agreed /\ ConsentGiven
    /\ Accounted
=============================================================================
