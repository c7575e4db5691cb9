------------------------------ MODULE ModemHealth ------------------------------
(***************************************************************************)
(* How the modem is brought up and kept usable (idf_modem.cpp): modem_task *)
(* starts the modem, unlocks the SIM with the saved PIN, puts the SMS      *)
(* settings in place, and then watches registration and the card for ever; *)
(* the daily SMS health check of another task does it once more.  Both may *)
(* ask for a hard reset, a limited number of times.                        *)
(*                                                                         *)
(* One action is one stage of a pass of modem_task's loop, or one step of  *)
(* another task; what the modem answers is chosen within the action.       *)
(* Whether an interval has elapsed, and whether the AT channel is idle, is *)
(* left open.  How commands reach the modem is in OwnerCommands.           *)
(***************************************************************************)
EXTENDS Naturals

CONSTANTS
    HasPin,        \* the card asks for a PIN after each restart
    PinLimit,      \* pinMaxAttempts of the saved credential
    WantData,      \* dataEnabled
    RoamingData,   \* roamingEnabled
    DailyCheck,    \* smsHealthEnabled
    RetryLimit,    \* maximum_attempts of the health reset
    FailLimit,     \* CEREG failures before a reset (3)
    DeregLimit,    \* unregistered probes before a reset (60)
    DataRetries,   \* MODEM_DATA_MODE_RETRY_MAX
    Settings,      \* the SMS settings a restart of the modem loses
    MaxEvents,     \* bound: what the user, the network or the card does
    MaxFaults      \* bound: answers that are lost or are errors

VARIABLES
    modem,     \* the modem and its card, as they really are
    status,    \* s_status, as far as decisions use it
    owner,     \* the local variables of modem_task
    at,        \* the stage of modem_task
    resetReq,  \* s_reset_request
    reinit,    \* s_reinit_pending
    unlockReq, \* s_sim_unlock_request
    retryData, \* s_data_mode_retry_pending with its count; 0: none pending
    storage,   \* s_sms_storage_pending
    tried,     \* s_last_pin_attempt_key is this card's
    failed,    \* pinFailedAttempts, kept in flash
    goodPin,   \* the saved PIN is the card's
    retries,   \* s_health_reset_retry_count
    daily,     \* the count the daily check will store, under its claim; 0: no claim
    wrong,     \* wrong PINs given to the card since the credential was saved
    lost,      \* those that were not recorded
    asked,     \* health resets since SMS last worked
    events, faults

vars == <<modem, status, owner, at, resetReq, reinit, unlockReq, retryData, storage,
          tried, failed, goodPin, retries, daily, wrong, lost, asked, events, faults>>
pinVars    == <<tried, failed, goodPin, wrong, lost>>
healthVars == <<retries, asked>>

Nets  == {"home", "roaming", "none", "rlos"}
Cards == {"absent", "pin", "puk", "ready"}

Modems == [card : Cards, alive : BOOLEAN, net : Nets, sms : SUBSET Settings, pdp : BOOLEAN,
           tries : 0 .. 2]
Statuses == [sim : Cards \cup {"unknown"}, cereg : Nets \cup {"unread"}, ip : BOOLEAN,
             atReady : BOOLEAN]
Owners == [simReady : BOOLEAN, registered : BOOLEAN, done : BOOLEAN, reconf : BOOLEAN,
           present : {"unknown", "no", "yes"}, confirmed : {"unknown", "no", "yes"},
           fails : 0 .. FailLimit, deregs : 0 .. DeregLimit]

TypeOK ==
    /\ modem \in Modems /\ status \in Statuses /\ owner \in Owners
    /\ at \in {"start", "boot", "waiting", "top", "restarted", "unlock", "data", "probe"}
    /\ resetReq \in {"none", "soft", "hard"}
    /\ reinit \in BOOLEAN
    /\ unlockReq \in {"none", "pin", "puk"}
    /\ retryData \in 0 .. DataRetries
    /\ storage \in BOOLEAN /\ tried \in BOOLEAN /\ goodPin \in BOOLEAN
    /\ daily \in 0 .. RetryLimit
    /\ failed \in 0 .. PinLimit
    /\ retries \in 0 .. RetryLimit
    /\ wrong \in Nat /\ lost \in Nat /\ asked \in Nat
    /\ events \in 0 .. MaxEvents /\ faults \in 0 .. MaxFaults

\* The locals modem_task starts its loop with.
Fresh == [simReady |-> FALSE, registered |-> FALSE, done |-> FALSE, reconf |-> FALSE,
          present |-> "unknown", confirmed |-> "unknown", fails |-> 0, deregs |-> 0]

Off == [sim |-> "unknown", cereg |-> "unread", ip |-> FALSE, atReady |-> FALSE]

Init ==
    /\ modem = [card |-> IF HasPin THEN "pin" ELSE "ready", alive |-> TRUE,
                net |-> "home", sms |-> {}, pdp |-> FALSE, tries |-> 0]
    /\ status = Off /\ owner = Fresh /\ at = "start"
    /\ resetReq = "none" /\ reinit = FALSE /\ unlockReq = "none" /\ retryData = 0
    /\ storage = FALSE /\ tried = FALSE /\ failed = 0 /\ goodPin \in BOOLEAN
    /\ retries = 0 /\ daily = 0 /\ wrong = 0 /\ lost = 0 /\ asked = 0
    /\ events = 0 /\ faults = 0

-----------------------------------------------------------------------------
(* The modem. *)

\* One exchange may go wrong while the bound allows it.
MayFail == {FALSE} \cup {f \in {TRUE} : faults < MaxFaults}
Counted(f) == faults' = IF f THEN faults + 1 ELSE faults

\* A restarted modem: the SMS settings and the data context are gone, and the
\* card asks for its PIN again.
Restarted(m) ==
    [m EXCEPT !.card = IF @ = "ready" /\ HasPin THEN "pin" ELSE @,
              !.sms = {}, !.pdp = FALSE]

\* modem_power_cycle: it revives a hung modem, unless it fails.
Cycled(f) == [Restarted(modem) EXCEPT !.alive = ~f]

\* AT+CEREG?: what a modem that answers says.
Registration(m) == IF m.card = "ready" THEN m.net ELSE "none"
Served(s) == s \in {"home", "roaming"}

\* invalidate_registration_state
Invalid(ready) == [status EXCEPT !.cereg = "unread", !.ip = FALSE, !.atReady = ready]

\* configure_sms_and_registration: the settings afterwards; a command that
\* failed leaves its setting alone.
Taken(m, f) == IF f THEN {m.sms \cup s : s \in SUBSET Settings} ELSE {Settings}

-----------------------------------------------------------------------------
(* try_unlock_sim.  An outcome is what it returns, what it made of the     *)
(* status and the card, and what it remembers of the attempt.              *)

Outcome(ok, sim, card, k, t, n, w, l, f) ==
    [ok |-> ok, sim |-> sim, card |-> card, tries |-> k, tried |-> t, failed |-> n,
     wrong |-> w, lost |-> l, fault |-> f]

\* Nothing was submitted.  The status never goes back to "unknown".
Unsubmitted(ok, sim, t, f) ==
    Outcome(ok, IF sim = "unknown" THEN status.sim ELSE sim, modem.card, modem.tries,
            t, failed, wrong, lost, f)

\* The saved PIN is submitted; the card blocks itself at the third wrong one in
\* a row.  An attempt whose answer was lost, or that could not be
\* saved, is not counted.
Submitted ==
    IF goodPin THEN {Outcome(TRUE, "ready", "ready", 0, FALSE, 0, wrong, lost, FALSE)}
    ELSE {Outcome(FALSE, "pin", IF modem.tries = 2 THEN "puk" ELSE "pin",
                  (modem.tries + 1) % 3, TRUE, IF f THEN failed ELSE failed + 1,
                  wrong + 1, IF f THEN lost + 1 ELSE lost, f) : f \in MayFail}

\* Mutant of Unlocks: the key of the last attempt is all that stops another.
UnlocksUncounted(allowPuk, t) ==
    IF ~modem.alive \/ modem.card # "pin" \/ allowPuk \/ t
    THEN {Unsubmitted(modem.alive /\ modem.card = "ready",
                      IF modem.alive THEN modem.card ELSE "unknown", t, FALSE)}
    ELSE {[u EXCEPT !.failed = 0] : u \in Submitted}

\* The outcomes with the key t of the last attempt.  A PUK is only given when
\* the user confirmed it, and is taken to be right; it makes the saved PIN the
\* card's.
Unlocks(allowPuk, t) ==
    {Unsubmitted(FALSE, "unknown", t, TRUE) : f \in MayFail \ {FALSE}} \cup
    IF ~modem.alive THEN {Unsubmitted(FALSE, "unknown", t, FALSE)}
    ELSE IF modem.card = "puk" /\ allowPuk
    THEN {Outcome(TRUE, "ready", "ready", 0, FALSE, 0, wrong, lost, FALSE)}
    ELSE IF modem.card # "pin" \/ allowPuk \/ failed >= PinLimit \/ t
    THEN {Unsubmitted(modem.card = "ready", modem.card, t, FALSE)}
    ELSE Submitted

\* What the outcome leaves behind, and the SMS settings after a success.
Unlocked(u, base, g) ==
    \E s \in IF u.ok THEN Taken(base, g) ELSE {base.sms} :
        /\ modem' = [base EXCEPT !.card = u.card, !.tries = u.tries, !.sms = s]
        /\ storage' = IF u.ok THEN ~("storage" \in s) ELSE storage
        /\ tried' = u.tried /\ failed' = u.failed /\ wrong' = u.wrong /\ lost' = u.lost
        /\ goodPin' = (goodPin \/ (modem.card = "puk" /\ u.ok))

-----------------------------------------------------------------------------
(* Data. *)

\* apply_configured_data_mode_once, at home only: whether it worked, the
\* context and the address afterwards.
DataMode(s, f) ==
    IF s # "home" THEN [ok |-> TRUE, pdp |-> modem.pdp, ip |-> status.ip]
    ELSE IF f THEN [ok |-> FALSE, pdp |-> modem.pdp, ip |-> status.ip]
    ELSE [ok |-> TRUE, pdp |-> WantData, ip |-> WantData]

\* enforce_roaming_data_policy after it.
Policy(d, s) ==
    IF WantData /\ ~RoamingData /\ s = "roaming" /\ d.ip
    THEN [d EXCEPT !.pdp = FALSE, !.ip = FALSE] ELSE d

\* apply_startup_data_mode and enforce_roaming_data_policy
AfterRegistration(s, f) == Policy(DataMode(s, f), s)

\* process_data_mode_retry
RetryData ==
    /\ at = "data"
    /\ \/ retryData = 0 /\ UNCHANGED <<modem, status, retryData, faults>> /\ at' = "probe"
       \/ /\ retryData > 0
          /\ \/ /\ resetReq # "none" \/ status.cereg = "unread"
                /\ retryData' = 0 /\ at' = "probe" /\ UNCHANGED <<modem, status, faults>>
             \/ /\ resetReq = "none" /\ status.cereg # "unread"
                /\ \E f \in MayFail :
                     LET d == DataMode(status.cereg, f \/ ~modem.alive) IN
                     /\ modem' = [modem EXCEPT !.pdp = d.pdp]
                     /\ status' = [status EXCEPT !.ip = d.ip]
                     /\ retryData' = IF d.ok \/ retryData = DataRetries THEN 0 ELSE retryData + 1
                     /\ Counted(f)
                /\ at' = "top"
    /\ UNCHANGED <<owner, resetReq, reinit, unlockReq, storage, pinVars, daily,
                   healthVars, events>>

-----------------------------------------------------------------------------
(* Start. *)

\* The handshake of the start: with or without a power cycle first, again and
\* again; a power cycle answers a reset request.
StartUp ==
    /\ at = "start"
    /\ \E f \in MayFail :
         /\ \/ modem' = Cycled(f) /\ resetReq' = (IF f THEN "none" ELSE resetReq)
            \/ modem.alive /\ ~f /\ UNCHANGED <<modem, resetReq>>
         /\ Counted(f)
    /\ status' = [Off EXCEPT !.sim = status.sim, !.atReady = modem'.alive]
    /\ at' = IF modem'.alive THEN "boot" ELSE "start"
    /\ UNCHANGED <<owner, reinit, unlockReq, retryData, storage, pinVars, daily,
                   healthVars, events>>

\* The first try_unlock_sim; what configure_sms_and_registration returns is
\* not looked at.
FirstUnlock ==
    /\ at = "boot"
    /\ \E u \in Unlocks(FALSE, tried), g \in MayFail :
         /\ ~(u.fault /\ g) /\ (g => u.ok)
         /\ Unlocked(u, modem, g)
         /\ Counted(u.fault \/ g)
         /\ status' = [status EXCEPT !.sim = u.sim]
         /\ owner' = [Fresh EXCEPT !.simReady = u.ok]
         /\ at' = IF u.ok THEN "waiting" ELSE "top"
    /\ UNCHANGED <<resetReq, reinit, unlockReq, retryData, daily, healthVars, events>>

\* The first 30 looks at CEREG, and what follows registration.
Wait ==
    /\ at = "waiting" /\ at' = "top"
    /\ LET s == Registration(modem) IN
       \/ UNCHANGED <<modem, status, owner, retryData, storage, faults>>
       \/ /\ modem.alive /\ ~Served(s)
          /\ status' = [status EXCEPT !.cereg = s]
          /\ UNCHANGED <<modem, owner, retryData, storage, faults>>
       \/ /\ modem.alive /\ Served(s)
          /\ \E f \in MayFail :
               LET d == AfterRegistration(s, f) IN
               /\ modem' = [modem EXCEPT !.pdp = d.pdp,
                                         !.sms = IF storage THEN @ \cup {"storage"} ELSE @]
               /\ status' = [status EXCEPT !.cereg = s, !.ip = d.ip]
               /\ retryData' = IF d.ok THEN retryData ELSE 1
               /\ Counted(f)
          /\ storage' = FALSE
          /\ owner' = [owner EXCEPT !.registered = TRUE, !.done = TRUE]
    /\ UNCHANGED <<resetReq, reinit, unlockReq, pinVars, daily, healthVars, events>>

-----------------------------------------------------------------------------
(* The top of the loop: resets and recovery. *)

\* After a reset, or when the card turned out to be ready.
Forgotten(o, sim) ==
    [o EXCEPT !.simReady = sim = "ready", !.registered = FALSE, !.done = FALSE,
              !.fails = 0, !.deregs = 0, !.present = "unknown", !.reconf = TRUE]

\* handle_reset_request_if_any, up to the restart.
BeginReset ==
    /\ at = "top" /\ resetReq # "none"
    /\ \E f \in MayFail :
         /\ modem' = IF resetReq = "hard" THEN Cycled(f)
                     ELSE IF modem.alive THEN Restarted(modem) ELSE modem
         /\ f => resetReq = "hard"
         /\ Counted(f)
    /\ resetReq' = "none"
    /\ status' = Invalid(FALSE) /\ retryData' = 0
    /\ at' = "restarted"
    /\ UNCHANGED <<owner, reinit, unlockReq, storage, pinVars, daily, healthVars, events>>

\* The rest of it, or run_pending_reinit_if_recovered: AT answers again.
Recover(forget) ==
    \E u \in Unlocks(FALSE, tried), g \in MayFail :
        /\ ~(u.fault /\ g) /\ (g => u.ok)
        /\ Unlocked(u, modem, g)
        /\ Counted(u.fault \/ g)
        /\ reinit' = FALSE /\ retryData' = 0
        /\ status' = [Invalid(TRUE) EXCEPT !.sim = u.sim]
        /\ owner' = IF forget \/ (~owner.simReady /\ u.sim = "ready")
                    THEN Forgotten(owner, u.sim) ELSE owner

EndReset ==
    /\ at = "restarted" /\ at' = "unlock"
    /\ \/ modem.alive /\ Recover(TRUE)
       \/ /\ ~modem.alive
          /\ reinit' = TRUE
          /\ owner' = Forgotten(owner, status.sim)
          /\ UNCHANGED <<modem, status, retryData, storage, pinVars, faults>>
    /\ UNCHANGED <<resetReq, unlockReq, daily, healthVars, events>>

\* A pass without a reset request.
Top ==
    /\ at = "top" /\ resetReq = "none" /\ at' = "unlock"
    /\ \/ reinit /\ modem.alive /\ Recover(FALSE)
       \/ /\ reinit => ~modem.alive
          /\ status' = IF reinit THEN Invalid(FALSE) ELSE status
          /\ retryData' = IF reinit THEN 0 ELSE retryData
          /\ owner' = IF ~owner.simReady /\ status.sim = "ready"
                      THEN Forgotten(owner, status.sim) ELSE owner
          /\ UNCHANGED <<modem, reinit, storage, pinVars, faults>>
    /\ UNCHANGED <<resetReq, unlockReq, daily, healthVars, events>>

-----------------------------------------------------------------------------
(* Unlocking in the loop. *)

TryUnlock(allowPuk, t) ==
    \E u \in Unlocks(allowPuk, t), g \in MayFail :
        /\ ~(u.fault /\ g) /\ (g => u.ok)
        /\ Unlocked(u, modem, g)
        /\ Counted(u.fault \/ g)
        /\ status' = IF u.ok THEN [Invalid(TRUE) EXCEPT !.sim = u.sim]
                     ELSE [status EXCEPT !.sim = u.sim]
        /\ retryData' = IF u.ok THEN 0 ELSE retryData
        /\ owner' = IF u.ok THEN [owner EXCEPT !.simReady = TRUE, !.registered = FALSE,
                                               !.done = FALSE, !.reconf = TRUE]
                    ELSE [owner EXCEPT !.simReady = FALSE]

\* A request of the user (a saved daily, a confirmed PUK), or the retry
\* while the card is not ready.
Unlock ==
    /\ at = "unlock" /\ at' = "data"
    /\ \/ /\ unlockReq # "none"
          /\ unlockReq' = "none"
          /\ TryUnlock(unlockReq = "puk", unlockReq # "pin" /\ tried)
       \/ /\ unlockReq = "none" /\ ~owner.simReady
          /\ TryUnlock(FALSE, tried) /\ UNCHANGED unlockReq
    /\ UNCHANGED <<resetReq, reinit, daily, healthVars, events>>

\* Nothing is due, or the channel is busy.
NoUnlock ==
    /\ at = "unlock" /\ at' = "data"
    /\ UNCHANGED <<modem, status, owner, resetReq, reinit, unlockReq, retryData, storage,
                   pinVars, daily, healthVars, events, faults>>

-----------------------------------------------------------------------------
(* Health resets. *)

\* Mutant of MayReset: the counter is not looked at.
MayResetAlways == daily = 0 /\ resetReq = "none"

\* request_health_reset_with_backoff, when the wait is over.
MayReset == daily = 0 /\ resetReq = "none" /\ retries < RetryLimit

\* idf_modem_request_reset(true) and the count.
Requested(n) ==
    /\ resetReq' = "hard"
    /\ retries' = IF n < RetryLimit THEN n + 1 ELSE n
    /\ asked' = asked + 1

\* clear_health_reset_backoff
Recovered == retries' = 0 /\ asked' = 0

-----------------------------------------------------------------------------
(* The health probe. *)

\* Mutant of Pending: one attempt is enough.
PendingOnce(fault) == FALSE

\* sms_reconfigure_pending after configure_sms_and_registration.
Pending(fault) == fault

\* A registered modem: the settings again if they may be lost, then what
\* follows a new registration.
ProbeServed(s) ==
    \E f, g \in MayFail, t \in SUBSET Settings :
        LET d == AfterRegistration(s, f) IN
        /\ ~(f /\ g) /\ (f => ~owner.done) /\ (g => owner.reconf)
        /\ IF owner.reconf THEN t \in Taken(modem, g)
           ELSE t = IF owner.done THEN modem.sms ELSE modem.sms \cup {"storage"}
        /\ modem' = [modem EXCEPT !.pdp = IF owner.done THEN @ ELSE d.pdp,
                                  !.sms = t]
        /\ status' = [status EXCEPT !.cereg = s, !.ip = IF owner.done THEN @ ELSE d.ip]
        /\ retryData' = IF owner.done \/ d.ok THEN retryData ELSE 1
        /\ storage' = (owner.reconf /\ "storage" \notin t)
        /\ owner' = [owner EXCEPT !.registered = TRUE, !.done = TRUE, !.fails = 0,
                                  !.deregs = 0, !.reconf = @ /\ Pending(g)]
        /\ IF owner.reconf /\ ~g THEN Recovered ELSE UNCHANGED healthVars
        /\ Counted(f \/ g)
    /\ UNCHANGED resetReq

\* No service: counted while a card is known to be there, unless the network
\* only offers restricted service.
ProbeUnserved(s) ==
    LET base == [owner EXCEPT !.registered = FALSE, !.done = FALSE, !.reconf = TRUE,
                              !.fails = 0]
        counts == s # "rlos" /\ owner.present = "yes"
        n == IF owner.deregs < DeregLimit THEN owner.deregs + 1 ELSE DeregLimit
    IN
    /\ \/ ~counts /\ owner' = [base EXCEPT !.deregs = 0] /\ UNCHANGED <<resetReq, healthVars>>
       \/ /\ counts /\ (n < DeregLimit \/ ~MayReset)
          /\ owner' = [base EXCEPT !.deregs = n] /\ UNCHANGED <<resetReq, healthVars>>
       \/ /\ counts /\ n = DeregLimit /\ MayReset
          /\ Requested(retries) /\ owner' = [base EXCEPT !.deregs = 0]
    /\ status' = IF resetReq' = resetReq THEN [status EXCEPT !.cereg = s] ELSE Invalid(FALSE)
    /\ retryData' = IF resetReq' = resetReq THEN retryData ELSE 0
    /\ UNCHANGED <<modem, storage, faults>>

\* No answer.  sim_present is not true once the card's own query failed too.
ProbeFailed(f) ==
    LET n == IF owner.fails < FailLimit THEN owner.fails + 1 ELSE FailLimit IN
    /\ \/ /\ owner.present # "yes"
          /\ owner' = [owner EXCEPT !.fails = 0] /\ UNCHANGED <<resetReq, healthVars>>
       \/ /\ owner.present = "yes" /\ (n < FailLimit \/ ~MayReset)
          /\ owner' = [owner EXCEPT !.fails = n] /\ UNCHANGED <<resetReq, healthVars>>
       \/ /\ owner.present = "yes" /\ n = FailLimit /\ MayReset
          /\ Requested(retries) /\ owner' = [owner EXCEPT !.fails = 0]
    /\ status' = IF resetReq' = resetReq THEN status ELSE Invalid(FALSE)
    /\ retryData' = IF resetReq' = resetReq THEN retryData ELSE 0
    /\ Counted(f)
    /\ UNCHANGED <<modem, storage>>

Probe ==
    /\ at = "probe" /\ owner.simReady /\ at' = "top"
    /\ LET s == Registration(modem) IN
       \/ modem.alive /\ Served(s) /\ ProbeServed(s)
       \/ modem.alive /\ ~Served(s) /\ ProbeUnserved(s)
       \/ \E f \in MayFail : (f <=> modem.alive) /\ ProbeFailed(f)
    /\ UNCHANGED <<reinit, unlockReq, pinVars, daily, events>>

-----------------------------------------------------------------------------
(* The hot-swap check. *)

Seen == IF ~modem.alive THEN "unknown" ELSE IF modem.card = "absent" THEN "no" ELSE "yes"

Check ==
    /\ at = "probe" /\ at' = "top"
    /\ LET gone == [owner EXCEPT !.present = Seen, !.confirmed = Seen, !.registered = FALSE,
                                 !.done = FALSE, !.reconf = TRUE]
       IN
       \/ /\ Seen = "unknown"
          /\ owner' = [owner EXCEPT !.present = "unknown"]
          /\ UNCHANGED <<status, resetReq, retryData>>
       \/ /\ Seen # "unknown" /\ owner.confirmed \in {"unknown", Seen}
          /\ owner' = [owner EXCEPT !.present = Seen, !.confirmed = Seen]
          /\ UNCHANGED <<status, resetReq, retryData>>
       \/ /\ Seen = "yes" /\ owner.confirmed = "no"
          /\ owner' = [gone EXCEPT !.deregs = 0]
          /\ resetReq' = "hard" /\ status' = Invalid(FALSE) /\ retryData' = 0
       \/ /\ Seen = "no" /\ owner.confirmed = "yes"
          /\ owner' = [gone EXCEPT !.simReady = FALSE]
          /\ status' = [Invalid(TRUE) EXCEPT !.sim = "absent"] /\ retryData' = 0
          /\ UNCHANGED resetReq
    /\ UNCHANGED <<modem, reinit, unlockReq, storage, pinVars, daily, healthVars,
                   events, faults>>

\* Neither is due.
NoProbe ==
    /\ at = "probe" /\ at' = "top"
    /\ UNCHANGED <<modem, status, owner, resetReq, reinit, unlockReq, retryData, storage,
                   pinVars, daily, healthVars, events, faults>>

-----------------------------------------------------------------------------
(* idf_modem_sms_health_check, once a day, on the scheduler's task. *)

\* Mutant of Known: a modem that answers nothing has no card.
KnownAnswering == status.sim \notin {"absent", "unknown"} /\ modem.alive

\* sim_present of the daily check: the last state any answer gave.
Known == status.sim \notin {"absent", "unknown"}

\* It finds AT or the card not ready, or the settings still wrong after putting
\* them in place: it claims the right to ask for a reset.
DailyFails ==
    /\ DailyCheck /\ at # "start"
    /\ \E f \in MayFail :
         /\ ~status.atReady \/ ~modem.alive \/ status.sim # "ready" \/ f
         /\ Counted(f)
    /\ Known /\ MayReset
    /\ daily' = retries + 1
    /\ UNCHANGED <<modem, status, owner, at, resetReq, reinit, unlockReq, retryData, storage,
                   pinVars, healthVars, events>>

\* idf_modem_request_reset and the count, under the claim.
DailyResets ==
    /\ daily > 0 /\ daily' = 0
    /\ Requested(daily - 1)
    /\ status' = Invalid(FALSE) /\ retryData' = 0
    /\ UNCHANGED <<modem, owner, at, reinit, unlockReq, storage, pinVars,
                   events, faults>>

\* Everything answers: the settings are put in place again.
DailyRepairs ==
    /\ DailyCheck /\ at \notin {"start", "boot"} /\ daily = 0
    /\ status.atReady /\ modem.alive /\ modem.sms # Settings
    /\ modem' = [modem EXCEPT !.sms = Settings]
    /\ storage' = FALSE
    /\ IF Served(Registration(modem)) THEN Recovered ELSE UNCHANGED healthVars
    /\ UNCHANGED <<status, owner, at, resetReq, reinit, unlockReq, retryData, pinVars,
                   daily, events, faults>>

-----------------------------------------------------------------------------
(* The user, the card, the network, and a restart of the device. *)

Happens == events < MaxEvents /\ events' = events + 1

World ==
    /\ Happens
    /\ \/ modem.alive /\ modem' = [modem EXCEPT !.alive = FALSE]
       \/ \E n \in Nets \ {modem.net} : modem' = [modem EXCEPT !.net = n]
       \/ modem.card # "absent" /\ modem' = [modem EXCEPT !.card = "absent"]
       \/ modem.card = "absent"
          /\ modem' = [modem EXCEPT !.card = IF HasPin THEN "pin" ELSE "ready", !.sms = {}]
       \/ modem.alive /\ modem.sms # {} /\ modem' = [modem EXCEPT !.sms = {}]
    /\ UNCHANGED <<status, owner, at, resetReq, reinit, unlockReq, retryData, storage,
                   pinVars, daily, healthVars, faults>>

\* A saved credential starts its counter anew.
SaveCredential ==
    /\ Happens /\ HasPin
    /\ goodPin' \in BOOLEAN
    /\ failed' = 0 /\ wrong' = 0 /\ lost' = 0
    /\ unlockReq' = "pin"
    /\ UNCHANGED <<modem, status, owner, at, resetReq, reinit, retryData, storage, tried,
                   daily, healthVars, faults>>

ConfirmPuk ==
    /\ Happens /\ modem.card = "puk"
    /\ unlockReq' = "puk"
    /\ UNCHANGED <<modem, status, owner, at, resetReq, reinit, retryData, storage, pinVars,
                   daily, healthVars, faults>>

\* idf_modem_request_reset, from the web interface.
UserReset ==
    /\ Happens
    /\ resetReq' \in {"soft", "hard"}
    /\ status' = Invalid(FALSE) /\ retryData' = 0
    /\ UNCHANGED <<modem, owner, at, reinit, unlockReq, storage, pinVars, daily,
                   healthVars, faults>>

Reboot ==
    /\ Happens
    /\ status' = Off /\ owner' = Fresh /\ at' = "start"
    /\ resetReq' = "none" /\ reinit' = FALSE /\ unlockReq' = "none" /\ retryData' = 0
    /\ storage' = FALSE /\ tried' = FALSE /\ retries' = 0 /\ daily' = 0 /\ asked' = 0
    /\ UNCHANGED <<modem, failed, wrong, lost, goodPin, faults>>

Owner == \/ StartUp \/ FirstUnlock \/ Wait \/ BeginReset \/ EndReset \/ Top
         \/ Unlock \/ NoUnlock \/ RetryData \/ Probe \/ Check \/ NoProbe
Daily == DailyFails \/ DailyResets \/ DailyRepairs

Next == Owner \/ Daily \/ World \/ SaveCredential \/ ConfirmPuk \/ UserReset \/ Reboot

Spec == Init /\ [][Next]_vars

\* Both tasks are scheduled, and a poll that stays possible again and again is
\* not put off for ever; what the world does is not fair.
Fair ==
    /\ WF_vars(StartUp) /\ WF_vars(FirstUnlock) /\ WF_vars(Wait)
    /\ WF_vars(BeginReset) /\ WF_vars(EndReset) /\ WF_vars(Top)
    /\ WF_vars(Unlock \/ NoUnlock) /\ SF_vars(Unlock) /\ WF_vars(RetryData)
    /\ WF_vars(Probe \/ Check \/ NoProbe) /\ SF_vars(Probe) /\ SF_vars(Check)
    /\ WF_vars(DailyFails) /\ WF_vars(DailyResets) /\ WF_vars(DailyRepairs)

FairSpec == Spec /\ Fair

-----------------------------------------------------------------------------
(* Properties. *)

\* A saved PIN that is wrong costs the card no more attempts than the limit the
\* user set, across restarts of the device and of the modem; only an attempt
\* that could not be recorded is not counted.
PinSpared == wrong <= PinLimit + lost

\* Without SMS working in between, the health checks of both tasks together ask
\* for at most RetryLimit hard resets.
ResetsSpaced == asked <= RetryLimit

Healthy == PinSpared /\ ResetsSpaced

Hangs == ~modem.alive /\ status.sim \notin {"absent", "unknown"}
HangOver == modem.alive \/ retries = RetryLimit

\* A modem that stopped answering is reset until it answers, or until the
\* allowed number of resets is used up.
HangEnds == Hangs ~> HangOver

\* SMS settings the owner knows to be doubtful are in place again once the
\* modem, the card and the network stay usable.
Usable == /\ modem.alive /\ Served(modem.net)
          /\ modem.card = "ready" \/ (modem.card = "pin" /\ goodPin)
Doubtful == owner.reconf /\ Usable
InPlace == modem.sms = Settings \/ ~Usable

SettingsReturn == Doubtful ~> InPlace

\* With data while roaming switched off, a modem that stays abroad does not
\* keep its data context.
RoamingStops == (Usable /\ modem.net = "roaming" /\ modem.pdp)
                    ~> (~modem.pdp \/ ~Usable \/ modem.net # "roaming")

-----------------------------------------------------------------------------
(* The inductive invariant. *)

HealthAssumption ==
    /\ HasPin \in BOOLEAN /\ WantData \in BOOLEAN /\ RoamingData \in BOOLEAN
    /\ DailyCheck \in BOOLEAN /\ "storage" \in Settings
    /\ PinLimit \in Nat /\ RetryLimit \in Nat /\ FailLimit \in Nat /\ DeregLimit \in Nat
    /\ DataRetries \in Nat \ {0} /\ MaxEvents \in Nat /\ MaxFaults \in Nat

\* Until the saved PIN turns out to be right, every wrong attempt is counted or
\* was lost.
PinCounted ==
    /\ ~goodPin => wrong <= failed + lost
    /\ wrong <= PinLimit + lost

\* The counter of resets is never behind, and will not be once the claim of the
\* daily check is taken up.
ResetsCounted ==
    /\ asked <= retries
    /\ daily > 0 => asked < daily

IInv == TypeOK /\ PinCounted /\ ResetsCounted
=============================================================================
