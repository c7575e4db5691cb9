-------------------------------- MODULE Ota --------------------------------
(***************************************************************************)
(* The signed update over the web: the upload session, the three numbers   *)
(* that it keeps in NVS, the two app slots with the bootloader's record of *)
(* them, and the health task that confirms a new image or rolls it back.   *)
(* components/idf_web/idf_web_ota_core.cpp, idf_web_ota.cpp and            *)
(* main/app_main.cpp.                                                      *)
(*                                                                         *)
(* A mutex keeps the session, finish and the health check apart, so that   *)
(* they are whole with respect to each other.  Power may be cut between    *)
(* any two writes of flash, so that finish and the health check are        *)
(* programs of one step per write.                                         *)
(***************************************************************************)
EXTENDS Integers

CONSTANTS
    MaxRelease,     \* bound: releases that the owner of the key has signed
    Chunks,         \* bound: chunks of an image
    MaxCuts,        \* bound: power cuts
    MaxFaults       \* bound: writes or reads of flash that fail

ASSUME OtaAssumption ==
    /\ MaxRelease \in Nat \ {0}
    /\ Chunks \in Nat \ {0}
    /\ MaxCuts \in Nat
    /\ MaxFaults \in Nat

Slots == {1, 2}             \* addresses of the app partitions; 0 is none
Releases == 1 .. MaxRelease
Blank == -1                 \* erased, or partly written

Other(s) == 3 - s

NoSession == [active |-> FALSE, finishing |-> FALSE, release |-> 0,
              target |-> 0, written |-> 0]

VARIABLES
    app,        \* release in each slot; 0 came over the serial line
    img,        \* the bootloader's state of each slot
    boot,       \* the slot that was last selected
    accepted,   \* release counter of the last confirmed update
    pending,    \* release counter of the update on trial, or 0
    paddr,      \* its slot, or 0
    running,    \* the slot that runs, or 0 when there is no power
    session,    \* IdfWebOtaSession
    restart,    \* restart_pending
    step,       \* next write of finish or of the health check
    health,     \* the health task: loop, once, done
    late,       \* its minute is over
    confirmed,  \* releases that a health check has confirmed
    overwrote,  \* an upload has given up the numbers of an earlier trial
    cuts, faults

chip  == <<app, img, boot>>
nvs   == <<accepted, pending, paddr>>
task  == <<health, late>>
spent == <<cuts, faults>>
vars  == <<app, img, boot, accepted, pending, paddr, running, session, restart,
           step, health, late, confirmed, overwrote, cuts, faults>>

FinishSteps == {"store", "address", "undo", "undoAddress", "select"}
HealthSteps == {"bind", "confirm", "persist", "clear", "clearAddress"}

SessionRecord ==
    [active : BOOLEAN, finishing : BOOLEAN, release : Releases \cup {0},
     target : Slots \cup {0}, written : 0 .. Chunks]

TypeOK ==
    /\ app \in [Slots -> Releases \cup {0, Blank}]
    /\ img \in [Slots -> {"new", "pending", "valid", "invalid", "aborted"}]
    /\ boot \in Slots
    /\ accepted \in Releases \cup {0}
    /\ pending \in Releases \cup {0}
    /\ paddr \in Slots \cup {0}
    /\ running \in Slots \cup {0}
    /\ session \in SessionRecord
    /\ restart \in BOOLEAN
    /\ step \in {"idle"} \cup FinishSteps \cup HealthSteps
    /\ health \in {"loop", "once", "done"}
    /\ late \in BOOLEAN
    /\ confirmed \in SUBSET (Releases \cup {0})
    /\ overwrote \in BOOLEAN
    /\ cuts \in 0 .. MaxCuts
    /\ faults \in 0 .. MaxFaults

\* A chip that was flashed over the serial line, or one that firmware which did
\* not yet store the address is about to start anew.
Init ==
    /\ \/ /\ app = [s \in Slots |-> IF s = 1 THEN 0 ELSE Blank]
          /\ img = [s \in Slots |-> IF s = 1 THEN "valid" ELSE "invalid"]
          /\ boot = 1 /\ running = 1 /\ pending = 0
       \/ /\ app = [s \in Slots |-> IF s = 1 THEN 0 ELSE 1]
          /\ img = [s \in Slots |-> IF s = 1 THEN "valid" ELSE "new"]
          /\ boot = 2 /\ running = 0 /\ pending = 1
    /\ accepted = 0 /\ paddr = 0
    /\ session = NoSession
    /\ restart = FALSE
    /\ step = "idle"
    /\ health = "loop" /\ late = FALSE
    /\ confirmed = {0}
    /\ overwrote = FALSE
    /\ cuts = 0 /\ faults = 0

Higher(a, b) == IF a > b THEN a ELSE b

\* The mutex is free.
Free == running # 0 /\ step = "idle"

Fault == faults < MaxFaults /\ faults' = faults + 1

-----------------------------------------------------------------------------
(* The upload.                                                             *)

Floor == Higher(accepted, pending)

\* A mistake: the slot that was not selected last is taken to be free.
TargetNotSelected == Other(boot)

\* esp_ota_get_next_update_partition.
Target == Other(running)

\* A mistake: a second upload may start before the restart that the first one
\* waits for.
StartAgain(release) ==
    /\ Free /\ health # "once"
    /\ ~session.active
    /\ release > Floor
    /\ img[running] # "pending"
    /\ app' = [app EXCEPT ![Target] = Blank]
    /\ session' = [NoSession EXCEPT !.active = TRUE, !.release = release,
                                    !.target = Target]
    /\ UNCHANGED <<img, boot, nvs, running, restart, step, task, confirmed,
                   overwrote, spent>>

\* start, of a manifest that is signed; esp_ota_begin erases the target, and
\* refuses while the running image is on trial.
Start(release) ==
    /\ Free /\ health # "once"
    /\ ~session.active /\ ~restart
    /\ release > Floor
    /\ img[running] # "pending"
    /\ app' = [app EXCEPT ![Target] = Blank]
    /\ session' = [NoSession EXCEPT !.active = TRUE, !.release = release,
                                    !.target = Target]
    /\ UNCHANGED <<img, boot, nvs, running, restart, step, task, confirmed,
                   overwrote, spent>>

\* A mistake: more is written than the manifest says.
AppendPast ==
    /\ Free /\ session.active /\ ~session.finishing
    /\ session' = [session EXCEPT !.written = @ + 1]
    /\ UNCHANGED <<chip, nvs, running, restart, step, task, confirmed, overwrote, spent>>

\* A chunk at the expected offset.
Append ==
    /\ Free /\ session.active /\ ~session.finishing
    /\ session.written < Chunks
    /\ session' = [session EXCEPT !.written = @ + 1]
    /\ UNCHANGED <<chip, nvs, running, restart, step, task, confirmed, overwrote, spent>>

\* prepare_finish.
PrepareFinish ==
    /\ Free /\ session.active /\ ~session.finishing
    /\ session' = IF session.written = Chunks
                  THEN [session EXCEPT !.finishing = TRUE] ELSE NoSession
    /\ UNCHANGED <<chip, nvs, running, restart, step, task, confirmed, overwrote, spent>>

\* cancel_finish: the job that would have finished was refused.
CancelFinish ==
    /\ Free /\ session.finishing
    /\ session' = [session EXCEPT !.finishing = FALSE]
    /\ UNCHANGED <<chip, nvs, running, restart, step, task, confirmed, overwrote, spent>>

\* A wrong chunk, a write that fails, cancel_upload, expire.
GiveUp ==
    /\ Free /\ session.active /\ ~session.finishing
    /\ session' = NoSession
    /\ UNCHANGED <<chip, nvs, running, restart, step, task, confirmed, overwrote, spent>>

\* finish, up to its first write: the image has the hash of the manifest and
\* esp_ota_end accepts it, or the session is over.  The upload of an image lasts
\* much longer than the second between two health checks: if none has succeeded
\* by now, flash has failed.
Finish ==
    /\ Free /\ session.finishing
    /\ health = "loop" => faults > 0
    /\ \/ /\ app' = [app EXCEPT ![session.target] = session.release]
          /\ step' = "store"
          /\ UNCHANGED session
       \/ /\ session' = NoSession
          /\ UNCHANGED <<app, step>>
    /\ UNCHANGED <<img, boot, nvs, running, restart, task, confirmed, overwrote, spent>>

\* store_pending: the counter, then the address.  After a failure both are
\* erased, as far as that succeeds.
Store ==
    \/ /\ step = "store"
       /\ overwrote' = (overwrote \/ paddr # 0)
       /\ \/ pending' = session.release /\ step' = "address" /\ UNCHANGED faults
          \/ Fault /\ step' = "undo" /\ UNCHANGED pending
       /\ UNCHANGED <<paddr, session>>
    \/ /\ step = "address"
       /\ \/ paddr' = session.target /\ step' = "select" /\ UNCHANGED faults
          \/ Fault /\ step' = "undo" /\ UNCHANGED paddr
       /\ UNCHANGED <<pending, session, overwrote>>

\* clear_pending after a failure of store_pending or set_boot; its errors are
\* ignored.
Undo ==
    \/ /\ step = "undo" /\ step' = "undoAddress"
       /\ \/ pending' = 0 /\ UNCHANGED faults
          \/ Fault /\ UNCHANGED pending
       /\ UNCHANGED <<paddr, session, overwrote>>
    \/ /\ step = "undoAddress" /\ step' = "idle" /\ session' = NoSession
       /\ \/ paddr' = 0 /\ UNCHANGED <<overwrote, faults>>
          \/ Fault /\ overwrote' = (overwrote \/ (pending = 0 /\ paddr # 0))
             /\ UNCHANGED paddr
       /\ UNCHANGED pending

WritePending ==
    /\ running # 0
    /\ Store \/ Undo
    /\ UNCHANGED <<chip, accepted, running, restart, task, confirmed, cuts>>

\* set_boot: the new image is the one to start, on trial.
SetBoot ==
    /\ running # 0 /\ step = "select"
    /\ \/ /\ boot' = session.target
          /\ img' = [img EXCEPT ![session.target] = "new"]
          /\ restart' = TRUE
          /\ session' = NoSession
          /\ step' = "idle"
          /\ UNCHANGED faults
       \/ /\ Fault /\ step' = "undo"
          /\ UNCHANGED <<boot, img, restart, session>>
    /\ UNCHANGED <<app, nvs, running, task, confirmed, overwrote, cuts>>

-----------------------------------------------------------------------------
(* The health check.                                                       *)

\* What ends when the chip restarts.
Off ==
    /\ running' = 0
    /\ session' = NoSession
    /\ restart' = FALSE
    /\ step' = "idle"

\* Every second until the first success; the check of a start that failed is
\* not repeated.
Checked(done) ==
    health' = IF health = "once" \/ done THEN "done" ELSE health

\* esp_ota_mark_app_invalid_rollback_and_reboot does nothing when the other slot
\* could not start.
Rollback ==
    \/ /\ img[Other(running)] = "valid" /\ app[Other(running)] # Blank
       /\ img' = [img EXCEPT ![running] = "invalid"]
       /\ Off
       /\ UNCHANGED health
    \/ /\ img[Other(running)] # "valid" \/ app[Other(running)] = Blank
       /\ step' = "idle" /\ Checked(FALSE)
       /\ UNCHANGED <<img, running, session, restart>>

\* A mistake: the address of the image on trial is not compared.
NamedByCounter(addr) == pending > accepted

\* Metadata names the running image, in the slot addr.
Named(addr) == pending > accepted /\ addr = running

\* A mistake: a trial has no deadline.
DecideEver(addr, live) ==
    \/ /\ img[running] = "pending" /\ ~Named(addr)
       /\ Rollback
    \/ /\ img[running] = "pending" /\ Named(addr)
       /\ step' = IF live THEN "confirm" ELSE "idle"
       /\ Checked(FALSE)
       /\ UNCHANGED <<img, running, session, restart>>
    \/ /\ img[running] # "pending"
       /\ step' = IF pending = 0 THEN "idle" ELSE IF Named(addr) THEN "persist" ELSE "clear"
       /\ Checked(pending = 0)
       /\ UNCHANGED <<img, running, session, restart>>

\* A mistake: the health check waits for numbers that are not its own.
DecideWait(addr, live) ==
    \/ /\ img[running] = "pending" /\ (~Named(addr) \/ late)
       /\ Rollback
    \/ /\ img[running] = "pending" /\ Named(addr) /\ ~late
       /\ step' = IF live THEN "confirm" ELSE "idle"
       /\ Checked(FALSE)
       /\ UNCHANGED <<img, running, session, restart>>
    \/ /\ img[running] # "pending"
       /\ step' = IF pending # 0 /\ Named(addr) THEN "persist" ELSE "idle"
       /\ Checked(pending = 0)
       /\ UNCHANGED <<img, running, session, restart>>

\* idf_web_ota_health_decide and what its decisions do up to the first write.
Decide(addr, live) ==
    \/ /\ img[running] = "pending" /\ (~Named(addr) \/ late)
       /\ Rollback
    \/ /\ img[running] = "pending" /\ Named(addr) /\ ~late
       /\ step' = IF live THEN "confirm" ELSE "idle"
       /\ Checked(FALSE)
       /\ UNCHANGED <<img, running, session, restart>>
    \/ /\ img[running] # "pending"
       /\ step' = IF pending = 0 THEN "idle" ELSE IF Named(addr) THEN "persist" ELSE "clear"
       /\ Checked(pending = 0)
       /\ UNCHANGED <<img, running, session, restart>>

\* health_check reads the numbers; one that fails while the image is on trial
\* rolls back.
HealthCheck(live) ==
    /\ Free /\ health # "done"
    /\ live => health = "loop"
    /\ \/ /\ Fault
          /\ IF img[running] = "pending" THEN Rollback
             ELSE Checked(FALSE) /\ UNCHANGED <<img, running, session, restart, step>>
       \/ /\ img[running] = "pending" /\ pending > accepted /\ paddr = 0
          /\ step' = "bind"
          /\ UNCHANGED <<img, running, session, restart, health, faults>>
       \/ /\ ~(img[running] = "pending" /\ pending > accepted /\ paddr = 0)
          /\ Decide(paddr, live)
          /\ UNCHANGED faults
    /\ UNCHANGED <<app, boot, nvs, late, confirmed, overwrote, cuts>>

Bind(live) ==
    /\ running # 0 /\ step = "bind"
    /\ live => health = "loop"
    /\ \/ paddr' = running /\ Decide(running, live) /\ UNCHANGED faults
       \/ Fault /\ Rollback /\ UNCHANGED paddr
    /\ UNCHANGED <<app, boot, accepted, pending, late, confirmed, overwrote, cuts>>

\* mark_valid: from here on the bootloader keeps the image.
Confirm ==
    /\ running # 0 /\ step = "confirm"
    /\ \/ /\ img' = [img EXCEPT ![running] = "valid"]
          /\ confirmed' = confirmed \cup {app[running]}
          /\ step' = "persist"
          /\ UNCHANGED <<running, session, restart, health, faults>>
       \/ Fault /\ Rollback /\ UNCHANGED confirmed
    /\ UNCHANGED <<app, boot, nvs, late, overwrote, cuts>>

\* A mistake: the numbers of the trial are erased before accepted is written.
PersistNothing ==
    /\ running # 0 /\ step = "persist"
    /\ step' = "clear"
    /\ UNCHANGED <<chip, nvs, running, session, restart, task, confirmed, overwrote,
                   spent>>

\* persist_accepted.
Persist ==
    /\ running # 0 /\ step = "persist"
    /\ \/ accepted' = Higher(accepted, pending) /\ step' = "clear" /\ UNCHANGED faults
       \/ Fault /\ step' = "idle" /\ UNCHANGED accepted
    /\ UNCHANGED <<chip, pending, paddr, running, session, restart, health, late,
                   confirmed, overwrote, cuts>>

\* clear_pending: both keys, the second one also when the first one failed;
\* a check that failed is repeated.
Clear ==
    /\ running # 0
    /\ \/ /\ step = "clear" /\ pending' = 0 /\ step' = "clearAddress"
          /\ UNCHANGED <<paddr, health, overwrote, faults>>
       \/ /\ step = "clear" /\ Fault /\ Checked(FALSE)
          /\ paddr' = 0 /\ step' = "idle"
          /\ UNCHANGED <<pending, overwrote>>
       \/ /\ step = "clearAddress" /\ paddr' = 0 /\ step' = "idle" /\ Checked(TRUE)
          /\ UNCHANGED <<pending, overwrote, faults>>
       \/ /\ step = "clearAddress" /\ Fault /\ Checked(FALSE) /\ step' = "idle"
          /\ UNCHANGED <<pending, paddr, overwrote>>
    /\ UNCHANGED <<chip, accepted, running, session, restart, late, confirmed, cuts>>

\* The minute of ota_health_task is over.
Deadline ==
    /\ running # 0 /\ health = "loop" /\ ~late
    /\ late' = TRUE
    /\ UNCHANGED <<chip, nvs, running, session, restart, step, health, confirmed,
                   overwrote, spent>>

-----------------------------------------------------------------------------
(* Power.                                                                  *)

\* reboot_task, two seconds after finish; power that is cut; anything else that
\* restarts the chip.
Reboot ==
    /\ Free /\ restart
    /\ Off
    /\ UNCHANGED <<chip, nvs, task, confirmed, overwrote, spent>>

CutPower ==
    /\ running # 0
    /\ cuts < MaxCuts /\ cuts' = cuts + 1
    /\ Off
    /\ UNCHANGED <<chip, nvs, task, confirmed, overwrote, faults>>

Startable(states, s) == states[s] \in {"new", "valid"} /\ app[s] # Blank

\* The bootloader gives up an image that was on trial when it starts again,
\* takes the slot that was selected last if it may start, else the other one,
\* and puts a new image on trial; app_main starts the health task last, or
\* checks once when the start failed.
Boot ==
    /\ running = 0
    /\ LET tried == [s \in Slots |-> IF img[s] = "pending" THEN "aborted" ELSE img[s]]
           slot  == IF Startable(tried, boot) THEN boot ELSE Other(boot)
       IN  /\ Startable(tried, slot)
           /\ running' = slot
           /\ img' = [tried EXCEPT ![slot] = IF @ = "new" THEN "pending" ELSE @]
    /\ health' \in {"loop", "once"}
    /\ late' = (health' = "once")
    /\ UNCHANGED <<app, boot, nvs, session, restart, step, confirmed, overwrote, spent>>

-----------------------------------------------------------------------------

Upload == \E release \in Releases : Start(release)
Check == \E live \in BOOLEAN : HealthCheck(live) \/ Bind(live)
Writes == WritePending \/ SetBoot \/ Confirm \/ Persist \/ Clear

Next ==
    \/ Upload \/ Append \/ PrepareFinish \/ CancelFinish \/ GiveUp \/ Finish
    \/ Writes \/ Check \/ Deadline
    \/ Reboot \/ CutPower \/ Boot

\* A function that holds the mutex goes on, the health task is woken every
\* second, a minute passes, a restart that was asked for comes.
Fairness ==
    /\ WF_vars(Writes) /\ SF_vars(Check) /\ WF_vars(Deadline)
    /\ WF_vars(Reboot) /\ WF_vars(Boot)

Spec == Init /\ [][Next]_vars /\ Fairness

-----------------------------------------------------------------------------
(* Properties.                                                             *)

\* Whatever is cut off, there is a slot that starts: one that holds a whole
\* image that is confirmed (idf_web_ota.cpp:168-206, the erase of the target).
OneConfirmed ==
    \E s \in Slots : img[s] = "valid" /\ app[s] # Blank

\* A selected image is named in NVS until it starts, whatever is cut off: it
\* cannot come up only to find that nobody knows it.  A health check of the old
\* image that flash has kept from succeeding may still erase its numbers
\* (idf_web_ota_core.cpp:225-236, 266).
TrialNamed ==
    (img[boot] = "new" /\ step # "store")
        => (pending = app[boot] /\ paddr \in {0, boot}) \/ faults > 0

\* The accepted counter, which refuses older releases, counts a release that a
\* health check has confirmed on this device.  Only an address that an earlier
\* update has left in NVS can lead the check to count an upload that never ran:
\* a counter stored beside it, and power cut before the address that goes with
\* it, look like the trial of the running image
\* (idf_web_ota_core.cpp:265, idf_web_ota.cpp:218-236, 317-328).
AcceptedRan == accepted \in confirmed \/ overwrote

\* All of these: whatever is cut off or fails, there is an image that starts, one
\* that was selected is known when it starts, and only confirmed releases count.
UpdateTrue == TypeOK /\ OneConfirmed /\ TrialNamed /\ AcceptedRan

\* An image is confirmed only if it is the one that the numbers name, and newer
\* than every release that was confirmed before it, unless an upload has replaced
\* or erased the numbers of one of those before accepted had them
\* (idf_web_ota_core.cpp:135-136, 248-267, 300-305).
ConfirmsTrial ==
    \A s \in Slots : img[s] = "pending" /\ img'[s] = "valid"
        => /\ app[s] = pending
           /\ overwrote \/ \A r \in confirmed : app[s] > r
ConfirmedOnTrial == [][ConfirmsTrial]_vars

OnTrial == running # 0 /\ img[boot] = "pending"
TrialOver == img[boot] # "pending"

\* An image on trial does not stay on trial: it is confirmed or the chip goes
\* back (app_main.cpp:26-39).
TrialEnds == OnTrial ~> TrialOver

Unsettled == pending # 0
Settled == pending = 0 \/ health = "done"

\* The numbers of a trial do not stay either, unless the only check of a failed
\* start has come to nothing (idf_web_ota_core.cpp:310-317).
Settles == Unsettled ~> Settled
=============================================================================
