------------------------------ MODULE WebJobs ------------------------------
(***************************************************************************)
(* Who may do what on the device, as components/idf_web/idf_web.cpp keeps  *)
(* it apart: the shared admission, the restart owner, the slots of the     *)
(* background jobs of the API, the transfer of a backup, the update over   *)
(* the web, push tests, the cellular jobs under their lock, and the        *)
(* scheduler with its unattended restarts.                                 *)
(*                                                                         *)
(* The HTTP server runs one handler at a time; its steps interleave with   *)
(* those of the scheduler, the tasks of the jobs and the passing of time.  *)
(***************************************************************************)
EXTENDS FiniteSets, Integers

CONSTANTS
    JobSlots,       \* API_JOB_SLOTS, 6 of them
    JobActiveMax    \* API_JOB_ACTIVE_MAX = 3

JobKinds == {"query", "modem", "export", "restore", "ota"}
HoldingJobs == {"keepalive", "esim"}    \* cellular jobs that keep the admission
CellJobs == HoldingJobs \cup {"sched", "action"}
Starts == HoldingJobs \cup {"exportStart", "restoreStart", "otaStart", "test"}
Passes == {"low", "restore", "daily"}   \* why the scheduler restarts the chip

Empty == [kind |-> "query", state |-> "empty"]
Done  == [kind |-> "query", state |-> "done"]   \* whatever it was
Idle == [op |-> "none", at |-> "idle"]
Resting == [op |-> "none", at |-> 0]

JobRecord == [kind : JobKinds, state : {"empty", "new", "queued", "running", "done"}]
WebPlace == [op : {"none", "restoreFinish", "reboot", "factory"} \cup JobKinds \cup Starts,
             at : {"idle", "admit", "check", "act", "create", "release"}]
SchedPlace == [op : {"none", "keepalive"} \cup Passes, at : 0 .. 18]

VARIABLES
    admission,  \* s_shared_admission_active
    testing,    \* s_push_test_admission_active
    owner,      \* s_device_restart_pending
    doom,       \* who has scheduled the restart of the chip, or no
    slot,       \* s_api_jobs
    backup,     \* s_backup_transfer; whole: all of an upload is there
    ota,        \* IdfWebOtaSession; whole: all of an image is there
    restore,    \* s_restore_restart_pending; due: a minute after the job
    cell,       \* the cellular jobs that are queued or run
    test,       \* a push test is queued or runs
    web,        \* the handler of the HTTP server and where it is
    sched,      \* what the scheduler is at and where it is
    refused     \* a claim has lost its job because something held it off

vars == <<admission, testing, owner, doom, slot, backup, ota, restore, cell,
          test, web, sched, refused>>

TypeOK ==
    /\ admission \in BOOLEAN /\ testing \in BOOLEAN /\ owner \in BOOLEAN
    /\ doom \in {"no", "web", "factory", "scheduler"}
    /\ slot \in [JobSlots -> JobRecord]
    /\ backup \in {"none", "export", "ready", "upload", "whole", "taken"}
    /\ ota \in {"none", "upload", "whole", "finishing", "restart"}
    /\ restore \in {"no", "pending", "due"}
    /\ cell \subseteq CellJobs
    /\ test \in BOOLEAN
    /\ web \in WebPlace
    /\ sched \in SchedPlace
    /\ refused \in BOOLEAN

Cold ==
    /\ admission' = FALSE /\ testing' = FALSE /\ owner' = FALSE /\ doom' = "no"
    /\ slot' = [s \in JobSlots |-> Empty]
    /\ backup' = "none" /\ ota' = "none" /\ restore' = "no"
    /\ cell' = {} /\ test' = FALSE
    /\ web' = Idle /\ sched' = Resting
    /\ refused' = FALSE

Init ==
    /\ admission = FALSE /\ testing = FALSE /\ owner = FALSE /\ doom = "no"
    /\ slot = [s \in JobSlots |-> Empty]
    /\ backup = "none" /\ ota = "none" /\ restore = "no"
    /\ cell = {} /\ test = FALSE
    /\ web = Idle /\ sched = Resting
    /\ refused = FALSE

-----------------------------------------------------------------------------
(* What the guards read.                                                   *)

Active == {s \in JobSlots : slot[s].state \in {"new", "queued", "running"}}

OtaActive == ota \in {"upload", "whole", "finishing"}

RestartPending == owner \/ ota = "restart"

\* cellular_job_active_locked.
CellBusy == RestartPending \/ OtaActive \/ cell # {}

\* What keeps a restart that was asked for over the web from happening.
RestartHeld ==
    \/ backup # "none" \/ OtaActive \/ ota = "restart" \/ restore # "no"
    \/ Active # {} \/ admission \/ testing \/ test

\* A mistake: an update may start beside the jobs of the API.
StartHeldButJobs(op) ==
    \/ OtaActive \/ RestartPending \/ restore # "no"
    \/ op # "test" /\ test
    \/ op # "exportStart" /\ backup # "none"
    \/ op = "otaStart" /\ CellBusy

\* A mistake: nobody looks for a backup that is being read or written.
StartHeldButBackup(op) ==
    \/ OtaActive \/ RestartPending \/ restore # "no"
    \/ op # "test" /\ test
    \/ op \in HoldingJobs \cup {"otaStart", "test"} /\ Active # {}
    \/ op = "otaStart" /\ CellBusy

\* What keeps the handler op from starting, once it has the admission.
StartHeld(op) ==
    \/ OtaActive \/ RestartPending \/ restore # "no"
    \/ op # "test" /\ test
    \/ op # "exportStart" /\ backup # "none"
    \/ op \in HoldingJobs \cup {"otaStart", "test"} /\ Active # {}
    \/ op = "otaStart" /\ CellBusy

\* What keeps a job of the API from being taken.
JobHeld(kind) ==
    \/ OtaActive /\ kind # "ota"
    \/ (RestartPending \/ restore # "no") /\ kind # "query"

-----------------------------------------------------------------------------
(* The handlers that start something: admission, checks, act, release.     *)

Goes(at) == web' = [web EXCEPT !.at = at]

\* The handler is through, and has given the admission back.
Over == web' = Idle /\ admission' = FALSE

\* A request comes in; a push test also raises its own flag, and the end of an
\* upload over the web first marks the session as finishing, or drops it.
Request(op) ==
    /\ web = Idle
    /\ web' = [op |-> op, at |-> "admit"]
    /\ IF op = "test" THEN ~testing /\ testing' = TRUE ELSE UNCHANGED testing
    /\ UNCHANGED <<admission, owner, doom, slot, backup, ota, restore, cell, test,
                   sched, refused>>

OtaFinish ==
    /\ web = Idle
    /\ \/ ota = "whole" /\ ota' = "finishing" /\ web' = [op |-> "ota", at |-> "admit"]
       \/ ota = "upload" /\ ota' = "none" /\ UNCHANGED web
    /\ UNCHANGED <<admission, testing, owner, doom, slot, backup, restore, cell,
                   test, sched, refused>>

\* try_shared_admission.  The claim of an export and the mark of an update that
\* is to finish stay behind when it fails.
Admit ==
    /\ web.at = "admit" /\ web.op \notin {"reboot", "factory"}
    /\ IF admission
       THEN /\ web' = Idle
            /\ testing' = FALSE
            /\ refused' = (refused \/ web.op \in {"export", "ota"})
            /\ UNCHANGED admission
       ELSE /\ admission' = TRUE
            /\ Goes(IF web.op = "restoreFinish" THEN "act" ELSE "check")
            /\ UNCHANGED <<testing, refused>>
    /\ UNCHANGED <<owner, doom, slot, backup, ota, restore, cell, test, sched>>

Check ==
    /\ web.at = "check" /\ web.op \in Starts
    /\ IF StartHeld(web.op) THEN Over /\ testing' = FALSE
       ELSE Goes("act") /\ UNCHANGED <<admission, testing>>
    /\ UNCHANGED <<owner, doom, slot, backup, ota, restore, cell, test, sched, refused>>

\* handle_config_export claims the transfer, gives the admission back and goes
\* on as the enqueueing of a job, which asks for it again.
StartExport ==
    /\ web.at = "act" /\ web.op = "exportStart"
    /\ admission' = FALSE
    /\ \/ /\ backup = "none" /\ backup' = "export"
          /\ web' = [op |-> "export", at |-> "admit"]
       \/ /\ backup # "none" /\ UNCHANGED backup
          /\ web' = Idle
    /\ UNCHANGED <<testing, owner, doom, slot, ota, restore, cell, test, sched, refused>>

\* handle_config_restore_start; the body may be wrong.
StartRestore ==
    /\ web.at = "act" /\ web.op = "restoreStart"
    /\ backup' \in {backup, "upload"}
    /\ Over
    /\ UNCHANGED <<testing, owner, doom, slot, ota, restore, cell, test, sched, refused>>

\* handle_ota_start, after it has read the body; Ota.tla has its inside.
StartOta ==
    /\ web.at = "act" /\ web.op = "otaStart"
    /\ ota' \in {ota, "upload"}
    /\ Over
    /\ UNCHANGED <<testing, owner, doom, slot, backup, restore, cell, test, sched, refused>>

\* handle_test_push; the queue may be full.
StartTest ==
    /\ web.at = "act" /\ web.op = "test"
    /\ test' \in {test, TRUE}
    /\ Over /\ testing' = FALSE
    /\ UNCHANGED <<owner, doom, slot, backup, ota, restore, cell, sched, refused>>

\* start_esim_job, start_keepalive_job: the task takes the admission over; it
\* may not come up.
StartCell ==
    /\ web.at = "act" /\ web.op \in HoldingJobs
    /\ \/ /\ ~CellBusy
          /\ cell' = cell \cup {web.op}
          /\ web' = Idle
          /\ UNCHANGED admission
       \/ Over /\ UNCHANGED cell
    /\ UNCHANGED <<testing, owner, doom, slot, backup, ota, restore, test, sched, refused>>

\* handle_config_restore_finish takes the bytes and enqueues their job.
TakeRestore ==
    /\ web.at = "act" /\ web.op = "restoreFinish"
    /\ \/ /\ backup = "whole" /\ backup' = "taken"
          /\ web' = [op |-> "restore", at |-> "check"]
          /\ UNCHANGED admission
       \/ backup # "whole" /\ Over /\ UNCHANGED backup
    /\ UNCHANGED <<testing, owner, doom, slot, ota, restore, cell, test, sched, refused>>

-----------------------------------------------------------------------------
(* enqueue_api_job.                                                        *)

\* backup_clear_claim after a refusal.
Unclaimed(kind) == IF kind \in {"export", "restore"} THEN "none" ELSE backup

\* An update that may not finish yet is to be finished later.
Unfinished(kind) == IF kind = "ota" /\ ota = "finishing" THEN "whole" ELSE ota

\* The second check; it leaves the mark of an update that is to finish.
CheckJob ==
    /\ web.at = "check" /\ web.op \in JobKinds
    /\ IF JobHeld(web.op)
       THEN /\ Over
            /\ backup' = Unclaimed(web.op)
            /\ refused' = (refused \/ web.op = "ota")
       ELSE /\ Goes("act")
            /\ UNCHANGED <<admission, backup, refused>>
    /\ UNCHANGED <<testing, owner, doom, slot, ota, restore, cell, test, sched>>

\* No slot, no lock within 100 ms, no task.
Reject ==
    /\ Over
    /\ backup' = Unclaimed(web.op)
    /\ ota' = Unfinished(web.op)

\* A slot for the job: an empty one, or one whose result was kept for its minute.
Insert ==
    /\ web.at = "act" /\ web.op \in JobKinds
    /\ \/ /\ Cardinality(Active) < JobActiveMax
          /\ \E s \in JobSlots :
                /\ slot[s].state = "empty"
                /\ slot' = [slot EXCEPT ![s] = [kind |-> web.op, state |-> "new"]]
          /\ Goes("create")
          /\ UNCHANGED <<admission, backup, ota>>
       \/ Reject /\ UNCHANGED slot
    /\ UNCHANGED <<testing, owner, doom, restore, cell, test, sched, refused>>

\* The task of the job; from here on it runs beside the handler.
Create ==
    /\ web.at = "create"
    /\ \E s \in JobSlots :
          /\ slot[s].state = "new"
          /\ \/ /\ slot' = [slot EXCEPT ![s].state = "queued"]
                /\ Goes("release")
                /\ UNCHANGED <<admission, backup, ota>>
             \/ slot' = [slot EXCEPT ![s] = Empty] /\ Reject
    /\ UNCHANGED <<testing, owner, doom, restore, cell, test, sched, refused>>

\* The answer 202.
Accepted ==
    /\ web.at = "release"
    /\ Over
    /\ UNCHANGED <<testing, owner, doom, slot, backup, ota, restore, cell, test,
                   sched, refused>>

-----------------------------------------------------------------------------
(* Transfers: chunks, downloads, and time.                                 *)

\* handle_config_restore_chunk; a wrong chunk ends the upload.
RestoreChunk ==
    /\ web = Idle /\ backup \in {"upload", "whole"}
    /\ backup' \in IF backup = "upload" THEN {"whole", "none"} ELSE {"none"}
    /\ UNCHANGED <<admission, testing, owner, doom, slot, ota, restore, cell, test,
                   web, sched, refused>>

\* handle_ota_chunk, refused while a cellular job runs.
OtaChunk ==
    /\ web = Idle /\ ota \in {"upload", "whole"}
    /\ ~admission /\ ~testing /\ ~RestartPending /\ cell = {}
    /\ ota' \in IF ota = "upload" THEN {"whole", "none"} ELSE {"none"}
    /\ UNCHANGED <<admission, testing, owner, doom, slot, backup, restore, cell,
                   test, web, sched, refused>>

\* GET of a finished export; a transfer that knows its size, or an upload of
\* firmware, that is left alone for two minutes.
Download ==
    /\ backup \in {"ready", "upload", "whole"}
    /\ backup' = "none"
    /\ UNCHANGED <<admission, testing, owner, doom, slot, ota, restore, cell, test,
                   web, sched, refused>>

OtaExpire ==
    /\ ota \in {"upload", "whole"}
    /\ ota' = "none"
    /\ UNCHANGED <<admission, testing, owner, doom, slot, backup, restore, cell,
                   test, web, sched, refused>>

\* The minute of a result, or of a restored configuration, is over.
Forget ==
    /\ \E s \in JobSlots :
          slot[s].state = "done" /\ slot' = [slot EXCEPT ![s] = Empty]
    /\ UNCHANGED <<admission, testing, owner, doom, backup, ota, restore, cell, test,
                   web, sched, refused>>

RestoreDue ==
    /\ restore = "pending" /\ restore' = "due"
    /\ UNCHANGED <<admission, testing, owner, doom, slot, backup, ota, cell, test,
                   web, sched, refused>>

-----------------------------------------------------------------------------
(* The tasks.                                                              *)

\* api_job_task; a job that needs the modem is refused while others have it.
JobStart(s) ==
    /\ slot[s].state = "queued"
    /\ \/ /\ slot[s].kind # "modem"
          /\ slot' = [slot EXCEPT ![s].state = "running"]
          /\ UNCHANGED cell
       \/ /\ slot[s].kind = "modem" /\ ~CellBusy
          /\ slot' = [slot EXCEPT ![s].state = "running"]
          /\ cell' = cell \cup {"action"}
       \/ /\ slot[s].kind = "modem"
          /\ slot' = [slot EXCEPT ![s] = Done]
          /\ UNCHANGED cell
    /\ UNCHANGED <<admission, testing, owner, doom, backup, ota, restore, test, web,
                   sched, refused>>

\* A mistake: a restore that has failed keeps the transfer.
JobEndKeeps(s) ==
    /\ slot[s].state = "running"
    /\ \E ok \in BOOLEAN :
          /\ backup' = CASE slot[s].kind = "export" /\ ok -> "ready"
                         [] slot[s].kind = "export" /\ ~ok -> "none"
                         [] slot[s].kind = "restore" /\ ok -> "none"
                         [] OTHER -> backup
          /\ ota' = IF slot[s].kind # "ota" THEN ota ELSE IF ok THEN "restart" ELSE "none"
          /\ restore' = IF slot[s].kind = "restore" /\ ok THEN "pending" ELSE restore
    /\ cell' = IF slot[s].kind = "modem" THEN cell \ {"action"} ELSE cell
    /\ slot' = [slot EXCEPT ![s] = Done]
    /\ UNCHANGED <<admission, testing, owner, doom, test, web, sched, refused>>

JobEnd(s) ==
    /\ slot[s].state = "running"
    /\ \E ok \in BOOLEAN :
          /\ backup' = CASE slot[s].kind = "export" /\ ok -> "ready"
                         [] slot[s].kind = "export" /\ ~ok -> "none"
                         [] slot[s].kind = "restore" -> "none"
                         [] OTHER -> backup
          /\ ota' = IF slot[s].kind # "ota" THEN ota ELSE IF ok THEN "restart" ELSE "none"
          /\ restore' = IF slot[s].kind = "restore" /\ ok THEN "pending" ELSE restore
    /\ cell' = IF slot[s].kind = "modem" THEN cell \ {"action"} ELSE cell
    /\ slot' = [slot EXCEPT ![s] = Done]
    /\ UNCHANGED <<admission, testing, owner, doom, test, web, sched, refused>>

\* A mistake: a task may leave with the admission.
CellEndKeeps(c) ==
    /\ c \in cell /\ c # "action"
    /\ cell' = cell \ {c}
    /\ UNCHANGED <<admission, testing, owner, doom, slot, backup, ota, restore, test,
                   web, sched, refused>>

\* esim_task, keepalive_task and sched_task_worker end; the first two give the
\* admission back.
CellEnd(c) ==
    /\ c \in cell /\ c # "action"
    /\ cell' = cell \ {c}
    /\ admission' = IF c \in HoldingJobs THEN FALSE ELSE admission
    /\ UNCHANGED <<testing, owner, doom, slot, backup, ota, restore, test, web,
                   sched, refused>>

\* start_sched_job asks for no admission; by the scheduler, or by a handler.
StartSched ==
    /\ web = Idle \/ sched = Resting
    /\ ~CellBusy
    /\ cell' = cell \cup {"sched"}
    /\ UNCHANGED <<admission, testing, owner, doom, slot, backup, ota, restore, test,
                   web, sched, refused>>

TestEnd ==
    /\ test /\ test' = FALSE
    /\ UNCHANGED <<admission, testing, owner, doom, slot, backup, ota, restore, cell,
                   web, sched, refused>>

-----------------------------------------------------------------------------
(* Restarts.                                                               *)

\* A mistake: the checks of a restart are made before it is claimed.
RebootChecksFirst ==
    /\ web.op = "reboot"
    /\ \/ /\ web.at = "admit"
          /\ IF owner \/ RestartHeld THEN web' = Idle ELSE Goes("check")
          /\ UNCHANGED <<owner, doom>>
       \/ /\ web.at = "check"
          /\ owner' = TRUE
          /\ doom' = IF owner THEN doom ELSE "web"
          /\ web' = Idle
    /\ UNCHANGED <<admission, testing, slot, backup, ota, restore, cell, test, sched,
                   refused>>

\* handle_reboot claims the restart, then looks whether anybody is busy.
Reboot ==
    /\ web.op = "reboot"
    /\ \/ /\ web.at = "admit"
          /\ owner' = TRUE
          /\ IF owner THEN web' = Idle ELSE Goes("check")
          /\ UNCHANGED doom
       \/ /\ web.at = "check"
          /\ IF RestartHeld THEN owner' = FALSE /\ UNCHANGED doom
             ELSE doom' = "web" /\ UNCHANGED owner
          /\ web' = Idle
    /\ UNCHANGED <<admission, testing, slot, backup, ota, restore, cell, test, sched,
                   refused>>

\* handle_factory_reset looks first; it gives the restart up when it could not
\* clear the configuration.
FactoryReset ==
    /\ web.op = "factory"
    /\ \/ /\ web.at = "admit"
          /\ IF owner \/ RestartHeld THEN web' = Idle ELSE Goes("act")
          /\ UNCHANGED <<owner, doom>>
       \/ /\ web.at = "act" /\ web' = Idle
          /\ \/ owner /\ UNCHANGED <<owner, doom>>
             \/ ~owner /\ UNCHANGED <<owner, doom>>
             \/ ~owner /\ owner' = TRUE /\ doom' = "factory"
    /\ UNCHANGED <<admission, testing, slot, backup, ota, restore, cell, test, sched,
                   refused>>

RequestRestart(op) ==
    /\ web = Idle
    /\ web' = [op |-> op, at |-> "admit"]
    /\ UNCHANGED <<admission, testing, owner, doom, slot, backup, ota, restore, cell,
                   test, sched, refused>>

\* A mistake: the restart that a restored configuration waits for is itself held
\* up by it.
FoundRestore(i, op) ==
    CASE i = 1 -> (owner /\ sched.at <= 8) \/ ota = "restart"
      [] i = 2 -> Active # {} \/ (op = "daily" /\ \E s \in JobSlots : slot[s].state = "done")
      [] i = 3 -> backup # "none"
      [] i = 4 -> OtaActive
      [] i = 5 -> restore # "no"
      [] i = 6 -> admission \/ testing
      [] i = 7 -> test
      [] i = 8 -> cell # {} \/ OtaActive \/ ota = "restart"

\* The reads of system_idle_for_maintenance, in their order.
Found(i, op) ==
    CASE i = 1 -> (owner /\ sched.at <= 8) \/ ota = "restart"
      [] i = 2 -> Active # {} \/ (op = "daily" /\ \E s \in JobSlots : slot[s].state = "done")
      [] i = 3 -> backup # "none"
      [] i = 4 -> OtaActive
      [] i = 5 -> restore # "no" /\ op # "restore"
      [] i = 6 -> admission \/ testing
      [] i = 7 -> test
      [] i = 8 -> cell # {} \/ OtaActive \/ ota = "restart"

\* The scheduler finds a reason to restart: little memory, or the hour of the
\* day; a restored configuration goes straight to the claim.
Consider(op) ==
    /\ sched = Resting
    /\ IF op = "restore" THEN restore = "due" ELSE TRUE
    /\ sched' = [op |-> op, at |-> IF op = "restore" THEN 9 ELSE 1]
    /\ UNCHANGED <<admission, testing, owner, doom, slot, backup, ota, restore, cell,
                   test, web, refused>>

\* One read of the first pass, at 1 to 8, or of the second one, at 10 to 17.
Read ==
    /\ sched.op \in Passes /\ sched.at \in (1 .. 8) \cup (10 .. 17)
    /\ IF Found(IF sched.at <= 8 THEN sched.at ELSE sched.at - 9, sched.op)
       THEN sched' = Resting /\ owner' = IF sched.at <= 8 THEN owner ELSE FALSE
       ELSE sched' = [sched EXCEPT !.at = @ + 1] /\ UNCHANGED owner
    /\ UNCHANGED <<admission, testing, doom, slot, backup, ota, restore, cell, test,
                   web, refused>>

\* claim_restart_owner between the passes.
Claim ==
    /\ sched.at = 9
    /\ sched' = IF owner THEN Resting ELSE [sched EXCEPT !.at = 10]
    /\ owner' = TRUE
    /\ UNCHANGED <<admission, testing, doom, slot, backup, ota, restore, cell, test,
                   web, refused>>

\* A mistake: the scheduler does not stop where it has decided.
DecideOn ==
    /\ sched.at = 18
    /\ doom' = "scheduler"
    /\ sched' = [sched EXCEPT !.at = @ + 1]
    /\ UNCHANGED <<admission, testing, owner, slot, backup, ota, restore, cell, test,
                   web, refused>>

\* The chip restarts, now or in a second.
Decide ==
    /\ sched.at = 18
    /\ doom' = "scheduler"
    /\ restore' = IF sched.op = "restore" THEN "no" ELSE restore
    /\ sched' = Resting
    /\ UNCHANGED <<admission, testing, owner, slot, backup, ota, cell, test, web, refused>>

\* The scheduler starts the keepalive that is due.
Keepalive ==
    /\ \/ /\ sched = Resting /\ ~admission /\ ~testing
          /\ admission' = TRUE
          /\ sched' = [op |-> "keepalive", at |-> 1]
          /\ UNCHANGED cell
       \/ /\ sched.op = "keepalive" /\ sched.at = 1
          /\ IF StartHeld("keepalive")
             THEN admission' = FALSE /\ sched' = Resting
             ELSE sched' = [sched EXCEPT !.at = 2] /\ UNCHANGED admission
          /\ UNCHANGED cell
       \/ /\ sched.op = "keepalive" /\ sched.at = 2
          /\ sched' = Resting
          /\ \/ ~CellBusy /\ cell' = cell \cup {"keepalive"} /\ UNCHANGED admission
             \/ admission' = FALSE /\ UNCHANGED cell
    /\ UNCHANGED <<testing, owner, doom, slot, backup, ota, restore, test, web, refused>>

\* esp_restart, after a restart was scheduled or an update has finished.
Restart ==
    /\ doom # "no" \/ ota = "restart"
    /\ Cold

-----------------------------------------------------------------------------

Enqueue == Admit \/ CheckJob \/ Insert \/ Create \/ Accepted
Start == Check \/ StartExport \/ StartRestore \/ StartOta \/ StartTest \/ StartCell
         \/ TakeRestore
Handler == Enqueue \/ Start \/ Reboot \/ FactoryReset
Ask == \/ \E op \in Starts \cup {"query", "modem", "restoreFinish"} : Request(op)
       \/ \E op \in {"reboot", "factory"} : RequestRestart(op)
       \/ OtaFinish \/ RestoreChunk \/ OtaChunk
Elapse == Download \/ OtaExpire \/ Forget \/ RestoreDue
Job == \E s \in JobSlots : JobStart(s) \/ JobEnd(s)
Cell == \E c \in CellJobs : CellEnd(c)
Maintain == Read \/ Claim \/ Decide
Scheduler == Maintain \/ Keepalive \/ \E op \in Passes : Consider(op)

Next == \/ Handler \/ Ask \/ Elapse \/ Job \/ Cell \/ StartSched \/ TestEnd
        \/ Scheduler \/ Restart

\* A handler, a task and the scheduler go on; time passes; the scheduler tries
\* a restart that is due again every five seconds.
KeepaliveGoesOn == sched.op = "keepalive" /\ Keepalive
Fairness ==
    /\ WF_vars(Handler)
    /\ \A s \in JobSlots : WF_vars(JobStart(s) \/ JobEnd(s))
    /\ \A c \in CellJobs : WF_vars(CellEnd(c))
    /\ WF_vars(TestEnd)
    /\ WF_vars(Elapse)
    /\ WF_vars(Maintain) /\ WF_vars(KeepaliveGoesOn)
    /\ SF_vars(Consider("restore"))
    /\ WF_vars(Restart)

Spec == Init /\ [][Next]_vars /\ Fairness

-----------------------------------------------------------------------------
(* Properties.                                                             *)

\* Whoever decides to restart has claimed it and then found nobody who holds the
\* admission, and whoever starts has taken the admission and then found no
\* restart: a restart over the web or by the scheduler never cuts off an eSIM
\* job, a keepalive or a push test, and one by the scheduler no cellular job at
\* all (idf_web.cpp:104-107, 5171-5191, 6108-6120).
RestartSpares ==
    /\ doom \in {"web", "scheduler"} => ~test /\ cell \cap HoldingJobs = {}
    /\ doom = "scheduler" => cell = {}

\* An update over the web has the device to itself, but for scheduled tasks and
\* actions on the modem, which ask for no admission
\* (idf_web.cpp:1892, 2419, 4664, 5081, 5371).
UpdateAlone ==
    OtaActive => /\ backup = "none" /\ ~test
                 /\ cell \cap HoldingJobs = {}
                 /\ \A s \in Active : slot[s].kind = "ota"

\* So has a backup that is written or read, but for other jobs of the API.
BackupAlone == backup # "none" => ~OtaActive /\ ~test /\ cell \cap HoldingJobs = {}

\* A claim that nothing ends but its job has that job: the transfer of an
\* export, the bytes of a restore, an update that is to finish.  A request that
\* finds the admission taken at the second time of asking leaves its claim
\* behind (idf_web.cpp:1883-1899, 2536-2550).
ClaimServed ==
    /\ backup \in {"export", "taken"} =>
          \/ refused
          \/ web.op \in {"export", "restore"}
          \/ \E s \in Active : slot[s].kind \in {"export", "restore"}
    /\ ota = "finishing" =>
          \/ refused
          \/ web.op = "ota"
          \/ \E s \in Active : slot[s].kind = "ota"

\* All of it: a restart, an update and a backup have the device to themselves,
\* and no claim is left without the job that ends it.
JobsApart == TypeOK /\ RestartSpares /\ UpdateAlone /\ BackupAlone /\ ClaimServed

Admitted == admission

\* Nobody keeps the admission, whatever fails on the way (idf_web.cpp:110-113).
AdmissionFreed == Admitted ~> ~Admitted

Quiet == web = Idle /\ ~refused /\ cell = {} /\ ~admission
Restored == restore # "no"

\* Once no more requests come and nothing was refused its job, a restored
\* configuration is taken into use by a restart (idf_web.cpp:5476-5490).
RestoreRestarts ==
    <>[]Quiet => (Restored ~> ~Restored)
=============================================================================
