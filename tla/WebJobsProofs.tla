---------------------------- MODULE WebJobsProofs ----------------------------
(***************************************************************************)
(* Proofs about WebJobs, for any number of job slots.  Who may do what on  *)
(* the device: a restart, an update and the backups exclude one another    *)
(* and the work that they would disturb, and no claim is left unserved.    *)
(***************************************************************************)
EXTENDS WebJobs, TLAPS, FiniteSetTheorems

-----------------------------------------------------------------------------
(* The inductive invariant.                                                *)

\* The handler has the admission.
WebHolds == web.at \in {"check", "act", "create", "release"}
            /\ web.op \notin {"reboot", "factory"}

CellHolds == cell \cap HoldingJobs # {}
SchedHolds == sched.op = "keepalive"

\* At most one of the handler, the cellular jobs and the scheduler has the
\* admission, and while one has it the flag is up.
OneHolder ==
    /\ WebHolds \/ CellHolds \/ SchedHolds => admission
    /\ ~(WebHolds /\ CellHolds) /\ ~(WebHolds /\ SchedHolds) /\ ~(CellHolds /\ SchedHolds)
    /\ ~(HoldingJobs \subseteq cell)

\* Where a handler can be, and where the scheduler.
Places ==
    /\ web.op = "none" <=> web.at = "idle"
    /\ web.op \in Starts \cup {"restoreFinish"} => web.at \in {"admit", "check", "act"}
    /\ web.op \in {"reboot"} => web.at \in {"admit", "check"}
    /\ web.op \in {"factory"} => web.at \in {"admit", "act"}
    /\ sched.op = "none" => sched.at = 0
    /\ sched.op = "keepalive" => sched.at \in {1, 2}
    /\ sched.op \in Passes => sched.at \in 1 .. 18

\* The scheduler has claimed the restart.
Claimed == sched.op \in Passes /\ sched.at >= 10

\* One owner of the restart: the handler that has claimed it, the scheduler, or
\* whoever has decided.
OneOwner ==
    /\ web.op = "reboot" /\ web.at = "check" => owner
    /\ Claimed => owner
    /\ doom # "no" => owner
    /\ ~(web.op = "reboot" /\ web.at = "check" /\ Claimed)
    /\ ~(web.op = "reboot" /\ web.at = "check" /\ doom # "no")
    /\ ~(Claimed /\ doom # "no")

\* Nobody who holds the admission has passed its checks.
NobodyStarts ==
    /\ ~(web.op \in Starts /\ web.at = "act")
    /\ ~(sched.op = "keepalive" /\ sched.at = 2)
    /\ ~CellHolds

\* What a decided restart, or the second pass of the scheduler, has found.
Found8 ==
    /\ doom \in {"web", "scheduler"} => NobodyStarts /\ ~test
    /\ doom = "scheduler" => cell = {}
    /\ sched.op \in Passes /\ sched.at >= 16 => NobodyStarts
    /\ sched.op \in Passes /\ sched.at >= 17 => ~test
    /\ sched.op \in Passes /\ sched.at >= 18 => cell = {}

\* What a handler that has passed its checks, and the scheduler, have found.
Checked ==
    /\ web.op \in Starts /\ web.at = "act" =>
          /\ ~OtaActive
          /\ web.op # "test" => ~test
          /\ web.op # "exportStart" => backup = "none"
          /\ web.op = "otaStart" => Active = {}
    /\ sched.op = "keepalive" /\ sched.at = 2 => ~OtaActive /\ ~test /\ backup = "none"
    /\ web.op \in JobKinds \ {"ota"} /\ web.at \in {"act", "create"} => ~OtaActive

\* The job that an active slot holds, and the handler that is to fill one, have
\* the claim that goes with it, and nobody else has.
Backups == {"export", "restore"}
ClaimOf(kind) == IF kind = "export" THEN "export" ELSE "taken"
Enqueuing == web.at \in {"admit", "check", "act"}

OneClaim ==
    /\ \A s \in Active : slot[s].kind \in Backups => backup = ClaimOf(slot[s].kind)
    /\ \A s, t \in Active :
          slot[s].kind \in Backups /\ slot[t].kind \in Backups => s = t
    /\ web.op \in Backups /\ Enqueuing =>
          backup = ClaimOf(web.op) /\ \A s \in Active : slot[s].kind \notin Backups
    /\ web.op = "restore" => web.at # "admit"
    /\ \A s \in JobSlots : slot[s].state = "new" => web.at = "create" /\ slot[s].kind = web.op
    /\ web.at = "create" => web.op \in JobKinds
    /\ \A s, t \in JobSlots : slot[s].state = "new" /\ slot[t].state = "new" => s = t
    /\ web.at = "create" => \E s \in JobSlots : slot[s].state = "new"

\* A claim is served: by a handler on its way to enqueue, or by an active job.
Served ==
    /\ backup \in {"export", "taken"} =>
          \/ refused
          \/ web.op \in Backups /\ Enqueuing
          \/ \E s \in Active : slot[s].kind \in Backups
    /\ ota = "finishing" =>
          \/ refused
          \/ web.op = "ota" /\ Enqueuing
          \/ \E s \in Active : slot[s].kind = "ota"

IInv ==
    /\ TypeOK /\ Places
    /\ OneHolder /\ OneOwner /\ Found8 /\ Checked /\ OneClaim /\ Served
    /\ UpdateAlone /\ BackupAlone

-----------------------------------------------------------------------------
(* Every action keeps the invariant.                                       *)

LEMMA AdmitPreserves == ASSUME IInv, Admit PROVE IInv'
<1>1. TypeOK'
  <2>1. admission' \in BOOLEAN
    BY DEF IInv, TypeOK, CellJobs, JobRecord, WebPlace, SchedPlace, HoldingJobs,
        JobKinds, Starts, Passes, Admit, Idle, Goes
  <2>2. testing' \in BOOLEAN
    BY DEF IInv, TypeOK, CellJobs, JobRecord, WebPlace, SchedPlace, HoldingJobs,
        JobKinds, Starts, Passes, Admit, Idle, Goes
  <2>3. web' \in WebPlace
    BY DEF IInv, TypeOK, CellJobs, JobRecord, WebPlace, SchedPlace, HoldingJobs,
        JobKinds, Starts, Passes, Admit, Idle, Goes
  <2>4. refused' \in BOOLEAN
    BY DEF IInv, TypeOK, CellJobs, JobRecord, WebPlace, SchedPlace, HoldingJobs,
        JobKinds, Starts, Passes, Admit, Idle, Goes
  <2> QED
    BY <2>1, <2>2, <2>3, <2>4 DEF IInv, TypeOK, Admit
<1>2. UpdateAlone' /\ BackupAlone'
  BY DEF IInv, UpdateAlone, HoldingJobs, Active, OtaActive, BackupAlone, Admit, Idle,
      Goes
<1>3. Places'
  BY DEF IInv, Places, Starts, Passes, HoldingJobs, TypeOK, CellJobs, JobRecord,
      WebPlace, SchedPlace, JobKinds, Admit, Idle, Goes
<1>4. OneHolder'
  BY DEF IInv, OneHolder, HoldingJobs, WebHolds, CellHolds, SchedHolds, Admit, Idle,
      Goes
<1>5. OneOwner'
  BY DEF IInv, OneOwner, Claimed, Passes, TypeOK, CellJobs, JobRecord, WebPlace,
      SchedPlace, HoldingJobs, JobKinds, Starts, Admit, Idle, Goes
<1>6. Found8'
  BY DEF IInv, Found8, Passes, NobodyStarts, Starts, CellHolds, HoldingJobs, TypeOK,
      CellJobs, JobRecord, WebPlace, SchedPlace, JobKinds, Admit, Idle, Goes
<1>7. Checked'
  BY DEF IInv, Checked, JobKinds, Starts, Active, OtaActive, HoldingJobs, TypeOK,
      CellJobs, JobRecord, WebPlace, SchedPlace, Passes, Admit, Idle, Goes
<1>8. OneClaim'
  BY DEF IInv, OneClaim, JobKinds, Active, Backups, ClaimOf, Enqueuing, TypeOK,
      CellJobs, JobRecord, WebPlace, SchedPlace, HoldingJobs, Starts, Passes, Admit,
      Idle, Goes
<1>9. Served'
  BY DEF IInv, TypeOK, CellJobs, JobRecord, WebPlace, SchedPlace, HoldingJobs, JobKinds,
      Starts, Passes, OneClaim, Active, Backups, ClaimOf, Enqueuing, Served, Admit,
      Idle, Goes
<1> QED BY <1>1, <1>2, <1>3, <1>4, <1>5, <1>6, <1>7, <1>8, <1>9 DEF IInv

LEMMA CheckJobPreserves == ASSUME IInv, CheckJob PROVE IInv'
<1>1. TypeOK'
  <2>1. admission' \in BOOLEAN
    BY DEF IInv, TypeOK, CellJobs, JobRecord, WebPlace, SchedPlace, HoldingJobs,
        JobKinds, Starts, Passes, CheckJob, JobHeld, Goes, Over, Unclaimed, OtaActive,
        RestartPending, Idle
  <2>2. backup' \in {"none", "export", "ready", "upload", "whole", "taken"}
    BY DEF IInv, TypeOK, CellJobs, JobRecord, WebPlace, SchedPlace, HoldingJobs,
        JobKinds, Starts, Passes, CheckJob, JobHeld, Goes, Over, Unclaimed, OtaActive,
        RestartPending, Idle
  <2>3. web' \in WebPlace
    BY DEF IInv, TypeOK, CellJobs, JobRecord, WebPlace, SchedPlace, HoldingJobs,
        JobKinds, Starts, Passes, CheckJob, JobHeld, Goes, Over, Unclaimed, OtaActive,
        RestartPending, Idle
  <2>4. refused' \in BOOLEAN
    BY DEF IInv, TypeOK, CellJobs, JobRecord, WebPlace, SchedPlace, HoldingJobs,
        JobKinds, Starts, Passes, CheckJob, JobHeld, Goes, Over, Unclaimed, OtaActive,
        RestartPending, Idle
  <2> QED
    BY <2>1, <2>2, <2>3, <2>4 DEF IInv, TypeOK, CheckJob
<1>2. Places'
  BY DEF IInv, Places, Starts, Passes, HoldingJobs, TypeOK, CellJobs, JobRecord,
      WebPlace, SchedPlace, JobKinds, CheckJob, JobHeld, Goes, Over, Unclaimed,
      OtaActive, RestartPending, Idle
<1>3. OneHolder'
  BY DEF IInv, OneHolder, HoldingJobs, WebHolds, CellHolds, SchedHolds, CheckJob,
      JobKinds, JobHeld, Goes, Over, Unclaimed, OtaActive, RestartPending, Idle
<1>4. OneOwner'
  BY DEF IInv, OneOwner, Claimed, Passes, TypeOK, CellJobs, JobRecord, WebPlace,
      SchedPlace, HoldingJobs, JobKinds, Starts, CheckJob, JobHeld, Goes, Over,
      Unclaimed, OtaActive, RestartPending, Idle
<1>5. Found8'
  BY DEF IInv, Found8, Passes, NobodyStarts, Starts, CellHolds, HoldingJobs, TypeOK,
      CellJobs, JobRecord, WebPlace, SchedPlace, JobKinds, CheckJob, JobHeld, Goes,
      Over, Unclaimed, OtaActive, RestartPending, Idle
<1>6. Checked'
  BY DEF IInv, Checked, JobKinds, Starts, Active, OtaActive, HoldingJobs, TypeOK,
      CellJobs, JobRecord, WebPlace, SchedPlace, Passes, CheckJob, JobHeld, Goes, Over,
      Unclaimed, RestartPending, Idle
<1>7. OneClaim'
  BY DEF IInv, OneClaim, JobKinds, Active, Backups, ClaimOf, Enqueuing, TypeOK,
      CellJobs, JobRecord, WebPlace, SchedPlace, HoldingJobs, Starts, Passes, CheckJob,
      JobHeld, Goes, Over, Unclaimed, OtaActive, RestartPending, Idle
<1>8. Served'
  BY DEF IInv, TypeOK, CellJobs, JobRecord, WebPlace, SchedPlace, HoldingJobs, JobKinds,
      Starts, Passes, OneHolder, WebHolds, CellHolds, SchedHolds, Served, Active,
      Backups, Enqueuing, CheckJob, JobHeld, Goes, Over, Unclaimed, OtaActive,
      RestartPending, Idle
<1>9. UpdateAlone'
  BY DEF IInv, UpdateAlone, HoldingJobs, Active, OtaActive, CheckJob, JobKinds, JobHeld,
      Goes, Over, Unclaimed, RestartPending, Idle
<1>10. BackupAlone'
  BY DEF IInv, BackupAlone, HoldingJobs, OtaActive, CheckJob, JobKinds, JobHeld, Goes,
      Over, Unclaimed, RestartPending, Idle
<1> QED BY <1>1, <1>2, <1>3, <1>4, <1>5, <1>6, <1>7, <1>8, <1>9, <1>10 DEF IInv

LEMMA InsertPreserves == ASSUME IInv, Insert PROVE IInv'
<1>1. TypeOK'
  <2>1. admission' \in BOOLEAN
    BY DEF IInv, TypeOK, CellJobs, JobRecord, WebPlace, SchedPlace, HoldingJobs,
        JobKinds, Starts, Passes, Insert, Active, Goes, Reject, Over, Unclaimed,
        Unfinished, Idle
  <2>2. slot' \in [JobSlots -> JobRecord]
    BY DEF IInv, TypeOK, CellJobs, JobRecord, WebPlace, SchedPlace, HoldingJobs,
        JobKinds, Starts, Passes, Insert, Active, Goes, Reject, Over, Unclaimed,
        Unfinished, Idle
  <2>3. backup' \in {"none", "export", "ready", "upload", "whole", "taken"}
    BY DEF IInv, TypeOK, CellJobs, JobRecord, WebPlace, SchedPlace, HoldingJobs,
        JobKinds, Starts, Passes, Insert, Active, Goes, Reject, Over, Unclaimed,
        Unfinished, Idle
  <2>4. ota' \in {"none", "upload", "whole", "finishing", "restart"}
    BY DEF IInv, TypeOK, CellJobs, JobRecord, WebPlace, SchedPlace, HoldingJobs,
        JobKinds, Starts, Passes, Insert, Active, Goes, Reject, Over, Unclaimed,
        Unfinished, Idle
  <2>5. web' \in WebPlace
    BY DEF IInv, TypeOK, CellJobs, JobRecord, WebPlace, SchedPlace, HoldingJobs,
        JobKinds, Starts, Passes, Insert, Active, Goes, Reject, Over, Unclaimed,
        Unfinished, Idle
  <2> QED
    BY <2>1, <2>2, <2>3, <2>4, <2>5 DEF IInv, TypeOK, Insert
<1>2. Places'
  BY DEF IInv, Places, Starts, Passes, HoldingJobs, TypeOK, CellJobs, JobRecord,
      WebPlace, SchedPlace, JobKinds, Insert, Active, Goes, Reject, Over, Unclaimed,
      Unfinished, Idle
<1>3. OneHolder'
  BY DEF IInv, OneHolder, HoldingJobs, WebHolds, CellHolds, SchedHolds, Insert,
      JobKinds, Active, Goes, Reject, Over, Unclaimed, Unfinished, Idle
<1>4. OneOwner'
  BY DEF IInv, OneOwner, Claimed, Passes, TypeOK, CellJobs, JobRecord, WebPlace,
      SchedPlace, HoldingJobs, JobKinds, Starts, Insert, Active, Goes, Reject, Over,
      Unclaimed, Unfinished, Idle
<1>5. Found8'
  BY DEF IInv, Found8, Passes, NobodyStarts, Starts, CellHolds, HoldingJobs, TypeOK,
      CellJobs, JobRecord, WebPlace, SchedPlace, JobKinds, Insert, Active, Goes, Reject,
      Over, Unclaimed, Unfinished, Idle
<1>6. Checked'
  BY DEF IInv, Checked, JobKinds, Starts, Active, OtaActive, HoldingJobs, TypeOK,
      CellJobs, JobRecord, WebPlace, SchedPlace, Passes, Insert, Goes, Reject, Over,
      Unclaimed, Unfinished, Idle
<1>7. OneClaim'
  BY DEF IInv, OneClaim, JobKinds, Active, Backups, ClaimOf, Enqueuing, TypeOK,
      CellJobs, JobRecord, WebPlace, SchedPlace, HoldingJobs, Starts, Passes, Insert,
      Goes, Reject, Over, Unclaimed, Unfinished, Idle
<1>8. Served'
  BY DEF IInv, Served, Active, Backups, Enqueuing, TypeOK, CellJobs, JobRecord,
      WebPlace, SchedPlace, HoldingJobs, JobKinds, Starts, Passes, Insert, Goes, Reject,
      Over, Unclaimed, Unfinished, Idle
<1>9. UpdateAlone'
  BY DEF IInv, TypeOK, CellJobs, JobRecord, WebPlace, SchedPlace, HoldingJobs, JobKinds,
      Starts, Passes, Checked, Active, OtaActive, UpdateAlone, Insert, Goes, Reject,
      Over, Unclaimed, Unfinished, Idle
<1>10. BackupAlone'
  BY DEF IInv, BackupAlone, HoldingJobs, OtaActive, Insert, JobKinds, Active, Goes,
      Reject, Over, Unclaimed, Unfinished, Idle
<1> QED BY <1>1, <1>2, <1>3, <1>4, <1>5, <1>6, <1>7, <1>8, <1>9, <1>10 DEF IInv

LEMMA CreatePreserves == ASSUME IInv, Create PROVE IInv'
<1>1. TypeOK'
  <2>1. admission' \in BOOLEAN
    BY DEF IInv, TypeOK, CellJobs, JobRecord, WebPlace, SchedPlace, HoldingJobs,
        JobKinds, Starts, Passes, Create, Empty, Goes, Reject, Over, Unclaimed,
        Unfinished, Idle
  <2>2. slot' \in [JobSlots -> JobRecord]
    BY DEF IInv, TypeOK, CellJobs, JobRecord, WebPlace, SchedPlace, HoldingJobs,
        JobKinds, Starts, Passes, Create, Empty, Goes, Reject, Over, Unclaimed,
        Unfinished, Idle
  <2>3. backup' \in {"none", "export", "ready", "upload", "whole", "taken"}
    BY DEF IInv, TypeOK, CellJobs, JobRecord, WebPlace, SchedPlace, HoldingJobs,
        JobKinds, Starts, Passes, Create, Empty, Goes, Reject, Over, Unclaimed,
        Unfinished, Idle
  <2>4. ota' \in {"none", "upload", "whole", "finishing", "restart"}
    BY DEF IInv, TypeOK, CellJobs, JobRecord, WebPlace, SchedPlace, HoldingJobs,
        JobKinds, Starts, Passes, Create, Empty, Goes, Reject, Over, Unclaimed,
        Unfinished, Idle
  <2>5. web' \in WebPlace
    BY DEF IInv, TypeOK, CellJobs, JobRecord, WebPlace, SchedPlace, HoldingJobs,
        JobKinds, Starts, Passes, Create, Empty, Goes, Reject, Over, Unclaimed,
        Unfinished, Idle
  <2> QED
    BY <2>1, <2>2, <2>3, <2>4, <2>5 DEF IInv, TypeOK, Create
<1>2. Places'
  BY DEF IInv, Places, Starts, Passes, HoldingJobs, TypeOK, CellJobs, JobRecord,
      WebPlace, SchedPlace, JobKinds, Create, Empty, Goes, Reject, Over, Unclaimed,
      Unfinished, Idle
<1>3. OneHolder'
  BY DEF IInv, OneClaim, JobKinds, Active, Backups, ClaimOf, Enqueuing, OneHolder,
      HoldingJobs, WebHolds, CellHolds, SchedHolds, Create, Empty, Goes, Reject, Over,
      Unclaimed, Unfinished, Idle
<1>4. OneOwner'
  BY DEF IInv, OneOwner, Claimed, Passes, TypeOK, CellJobs, JobRecord, WebPlace,
      SchedPlace, HoldingJobs, JobKinds, Starts, Create, Empty, Goes, Reject, Over,
      Unclaimed, Unfinished, Idle
<1>5. Found8'
  BY DEF IInv, Found8, Passes, NobodyStarts, Starts, CellHolds, HoldingJobs, TypeOK,
      CellJobs, JobRecord, WebPlace, SchedPlace, JobKinds, Create, Empty, Goes, Reject,
      Over, Unclaimed, Unfinished, Idle
<1>6. Checked'
  BY DEF IInv, Checked, JobKinds, Starts, Active, OtaActive, HoldingJobs, TypeOK,
      CellJobs, JobRecord, WebPlace, SchedPlace, Passes, Create, Empty, Goes, Reject,
      Over, Unclaimed, Unfinished, Idle
<1>7. OneClaim'
  BY DEF IInv, OneClaim, JobKinds, Active, Backups, ClaimOf, Enqueuing, TypeOK,
      CellJobs, JobRecord, WebPlace, SchedPlace, HoldingJobs, Starts, Passes, Create,
      Empty, Goes, Reject, Over, Unclaimed, Unfinished, Idle
<1>8. Served'
  BY DEF IInv, TypeOK, CellJobs, JobRecord, WebPlace, SchedPlace, HoldingJobs, JobKinds,
      Starts, Passes, OneClaim, Active, Backups, ClaimOf, Enqueuing, Served, Create,
      Empty, Goes, Reject, Over, Unclaimed, Unfinished, Idle
<1>9. UpdateAlone'
  BY DEF IInv, UpdateAlone, HoldingJobs, Active, OtaActive, TypeOK, CellJobs, JobRecord,
      WebPlace, SchedPlace, JobKinds, Starts, Passes, Create, Empty, Goes, Reject, Over,
      Unclaimed, Unfinished, Idle
<1>10. BackupAlone'
  BY DEF IInv, BackupAlone, HoldingJobs, OtaActive, Create, Empty, Goes, Reject, Over,
      Unclaimed, Unfinished, Idle
<1> QED BY <1>1, <1>2, <1>3, <1>4, <1>5, <1>6, <1>7, <1>8, <1>9, <1>10 DEF IInv

LEMMA AcceptedPreserves == ASSUME IInv, Accepted PROVE IInv'
<1>1. TypeOK'
  <2>1. admission' \in BOOLEAN
    BY DEF IInv, TypeOK, CellJobs, JobRecord, WebPlace, SchedPlace, HoldingJobs,
        JobKinds, Starts, Passes, Accepted, Over, Idle
  <2>2. web' \in WebPlace
    BY DEF IInv, TypeOK, CellJobs, JobRecord, WebPlace, SchedPlace, HoldingJobs,
        JobKinds, Starts, Passes, Accepted, Over, Idle
  <2> QED
    BY <2>1, <2>2 DEF IInv, TypeOK, Accepted
<1>2. UpdateAlone' /\ BackupAlone'
  BY DEF IInv, UpdateAlone, HoldingJobs, Active, OtaActive, BackupAlone, Accepted, Over,
      Idle
<1>3. Places'
  BY DEF IInv, Places, Starts, Passes, HoldingJobs, Accepted, Over, Idle
<1>4. OneHolder'
  BY DEF IInv, Places, Starts, Passes, HoldingJobs, OneHolder, WebHolds, CellHolds,
      SchedHolds, Accepted, Over, Idle
<1>5. OneOwner'
  BY DEF IInv, OneOwner, Claimed, Passes, Accepted, Over, Idle
<1>6. Found8'
  BY DEF IInv, Found8, Passes, NobodyStarts, Starts, CellHolds, HoldingJobs, Accepted,
      Over, Idle
<1>7. Checked'
  BY DEF IInv, Checked, JobKinds, Starts, Active, OtaActive, HoldingJobs, Accepted,
      Over, Idle
<1>8. OneClaim'
  BY DEF IInv, OneClaim, JobKinds, Active, Backups, ClaimOf, Enqueuing, Accepted, Over,
      Idle
<1>9. Served'
  BY DEF IInv, Served, Active, Backups, Enqueuing, Accepted, Over, Idle
<1> QED BY <1>1, <1>2, <1>3, <1>4, <1>5, <1>6, <1>7, <1>8, <1>9 DEF IInv

LEMMA CheckPreserves == ASSUME IInv, Check PROVE IInv'
<1>1. TypeOK'
  <2>1. admission' \in BOOLEAN
    BY DEF IInv, TypeOK, CellJobs, JobRecord, WebPlace, SchedPlace, HoldingJobs,
        JobKinds, Starts, Passes, Check, StartHeld, Goes, Over, Active, OtaActive,
        RestartPending, CellBusy, Idle
  <2>2. testing' \in BOOLEAN
    BY DEF IInv, TypeOK, CellJobs, JobRecord, WebPlace, SchedPlace, HoldingJobs,
        JobKinds, Starts, Passes, Check, StartHeld, Goes, Over, Active, OtaActive,
        RestartPending, CellBusy, Idle
  <2>3. web' \in WebPlace
    BY DEF IInv, TypeOK, CellJobs, JobRecord, WebPlace, SchedPlace, HoldingJobs,
        JobKinds, Starts, Passes, Check, StartHeld, Goes, Over, Active, OtaActive,
        RestartPending, CellBusy, Idle
  <2> QED
    BY <2>1, <2>2, <2>3 DEF IInv, TypeOK, Check
<1>2. UpdateAlone' /\ BackupAlone'
  BY DEF IInv, UpdateAlone, HoldingJobs, Active, OtaActive, BackupAlone, Check, Starts,
      StartHeld, Goes, Over, RestartPending, CellBusy, Idle
<1>3. Places'
  BY DEF IInv, Places, Starts, Passes, HoldingJobs, TypeOK, CellJobs, JobRecord,
      WebPlace, SchedPlace, JobKinds, Check, StartHeld, Goes, Over, Active, OtaActive,
      RestartPending, CellBusy, Idle
<1>4. OneHolder'
  BY DEF IInv, OneHolder, HoldingJobs, WebHolds, CellHolds, SchedHolds, Check, Starts,
      StartHeld, Goes, Over, Active, OtaActive, RestartPending, CellBusy, Idle
<1>5. OneOwner'
  BY DEF IInv, OneOwner, Claimed, Passes, TypeOK, CellJobs, JobRecord, WebPlace,
      SchedPlace, HoldingJobs, JobKinds, Starts, Check, StartHeld, Goes, Over, Active,
      OtaActive, RestartPending, CellBusy, Idle
<1>6. Found8'
  BY DEF IInv, Places, Starts, Passes, HoldingJobs, OneOwner, Claimed, Found8,
      NobodyStarts, CellHolds, Check, StartHeld, Goes, Over, Active, OtaActive,
      RestartPending, CellBusy, Idle
<1>7. Checked'
  BY DEF IInv, Checked, JobKinds, Starts, Active, OtaActive, HoldingJobs, TypeOK,
      CellJobs, JobRecord, WebPlace, SchedPlace, Passes, Check, StartHeld, Goes, Over,
      RestartPending, CellBusy, Idle
<1>8. OneClaim'
  BY DEF IInv, OneClaim, JobKinds, Active, Backups, ClaimOf, Enqueuing, TypeOK,
      CellJobs, JobRecord, WebPlace, SchedPlace, HoldingJobs, Starts, Passes, Check,
      StartHeld, Goes, Over, OtaActive, RestartPending, CellBusy, Idle
<1>9. Served'
  BY DEF IInv, Served, Active, Backups, Enqueuing, Check, Starts, StartHeld, Goes, Over,
      HoldingJobs, OtaActive, RestartPending, CellBusy, Idle
<1> QED BY <1>1, <1>2, <1>3, <1>4, <1>5, <1>6, <1>7, <1>8, <1>9 DEF IInv

LEMMA StartExportPreserves == ASSUME IInv, StartExport PROVE IInv'
<1>1. TypeOK'
  <2>1. admission' \in BOOLEAN
    BY DEF IInv, TypeOK, CellJobs, JobRecord, WebPlace, SchedPlace, HoldingJobs,
        JobKinds, Starts, Passes, StartExport, Idle
  <2>2. backup' \in {"none", "export", "ready", "upload", "whole", "taken"}
    BY DEF IInv, TypeOK, CellJobs, JobRecord, WebPlace, SchedPlace, HoldingJobs,
        JobKinds, Starts, Passes, StartExport, Idle
  <2>3. web' \in WebPlace
    BY DEF IInv, TypeOK, CellJobs, JobRecord, WebPlace, SchedPlace, HoldingJobs,
        JobKinds, Starts, Passes, StartExport, Idle
  <2> QED
    BY <2>1, <2>2, <2>3 DEF IInv, TypeOK, StartExport
<1>2. Places'
  BY DEF IInv, Places, Starts, Passes, HoldingJobs, StartExport, Idle
<1>3. OneHolder'
  BY DEF IInv, OneHolder, HoldingJobs, WebHolds, CellHolds, SchedHolds, StartExport,
      Idle
<1>4. OneOwner'
  BY DEF IInv, OneOwner, Claimed, Passes, StartExport, Idle
<1>5. Found8'
  BY DEF IInv, Found8, Passes, NobodyStarts, Starts, CellHolds, HoldingJobs,
      StartExport, Idle
<1>6. Checked'
  BY DEF IInv, OneHolder, HoldingJobs, WebHolds, CellHolds, SchedHolds, Checked,
      JobKinds, Starts, Active, OtaActive, StartExport, Idle
<1>7. OneClaim'
  BY DEF IInv, OneClaim, JobKinds, Active, Backups, ClaimOf, Enqueuing, StartExport,
      Idle
<1>8. Served'
  BY DEF IInv, Served, Active, Backups, Enqueuing, StartExport, Idle
<1>9. UpdateAlone'
  BY DEF IInv, Checked, JobKinds, Starts, Active, OtaActive, HoldingJobs, UpdateAlone,
      StartExport, Idle
<1>10. BackupAlone'
  BY DEF IInv, OneHolder, HoldingJobs, WebHolds, CellHolds, SchedHolds, Checked,
      JobKinds, Starts, Active, OtaActive, BackupAlone, StartExport, Idle
<1> QED BY <1>1, <1>2, <1>3, <1>4, <1>5, <1>6, <1>7, <1>8, <1>9, <1>10 DEF IInv

LEMMA StartRestorePreserves == ASSUME IInv, StartRestore PROVE IInv'
<1>1. TypeOK'
  <2>1. admission' \in BOOLEAN
    BY DEF IInv, TypeOK, CellJobs, JobRecord, WebPlace, SchedPlace, HoldingJobs,
        JobKinds, Starts, Passes, StartRestore, Over, Idle
  <2>2. backup' \in {"none", "export", "ready", "upload", "whole", "taken"}
    BY DEF IInv, TypeOK, CellJobs, JobRecord, WebPlace, SchedPlace, HoldingJobs,
        JobKinds, Starts, Passes, StartRestore, Over, Idle
  <2>3. web' \in WebPlace
    BY DEF IInv, TypeOK, CellJobs, JobRecord, WebPlace, SchedPlace, HoldingJobs,
        JobKinds, Starts, Passes, StartRestore, Over, Idle
  <2> QED
    BY <2>1, <2>2, <2>3 DEF IInv, TypeOK, StartRestore
<1>2. Places'
  BY DEF IInv, Places, Starts, Passes, HoldingJobs, StartRestore, Over, Idle
<1>3. OneHolder'
  BY DEF IInv, OneHolder, HoldingJobs, WebHolds, CellHolds, SchedHolds, StartRestore,
      Over, Idle
<1>4. OneOwner'
  BY DEF IInv, OneOwner, Claimed, Passes, StartRestore, Over, Idle
<1>5. Found8'
  BY DEF IInv, Found8, Passes, NobodyStarts, Starts, CellHolds, HoldingJobs,
      StartRestore, Over, Idle
<1>6. Checked'
  BY DEF IInv, OneHolder, HoldingJobs, WebHolds, CellHolds, SchedHolds, Checked,
      JobKinds, Starts, Active, OtaActive, StartRestore, Over, Idle
<1>7. OneClaim'
  BY DEF IInv, Checked, JobKinds, Starts, Active, OtaActive, HoldingJobs, OneClaim,
      Backups, ClaimOf, Enqueuing, StartRestore, Over, Idle
<1>8. Served'
  BY DEF IInv, Served, Active, Backups, Enqueuing, StartRestore, Over, Idle
<1>9. UpdateAlone'
  BY DEF IInv, Checked, JobKinds, Starts, Active, OtaActive, HoldingJobs, UpdateAlone,
      StartRestore, Over, Idle
<1>10. BackupAlone'
  BY DEF IInv, OneHolder, HoldingJobs, WebHolds, CellHolds, SchedHolds, Checked,
      JobKinds, Starts, Active, OtaActive, BackupAlone, StartRestore, Over, Idle
<1> QED BY <1>1, <1>2, <1>3, <1>4, <1>5, <1>6, <1>7, <1>8, <1>9, <1>10 DEF IInv

LEMMA StartOtaPreserves == ASSUME IInv, StartOta PROVE IInv'
<1>1. TypeOK'
  <2>1. admission' \in BOOLEAN
    BY DEF IInv, TypeOK, CellJobs, JobRecord, WebPlace, SchedPlace, HoldingJobs,
        JobKinds, Starts, Passes, StartOta, Over, Idle
  <2>2. ota' \in {"none", "upload", "whole", "finishing", "restart"}
    BY DEF IInv, TypeOK, CellJobs, JobRecord, WebPlace, SchedPlace, HoldingJobs,
        JobKinds, Starts, Passes, StartOta, Over, Idle
  <2>3. web' \in WebPlace
    BY DEF IInv, TypeOK, CellJobs, JobRecord, WebPlace, SchedPlace, HoldingJobs,
        JobKinds, Starts, Passes, StartOta, Over, Idle
  <2> QED
    BY <2>1, <2>2, <2>3 DEF IInv, TypeOK, StartOta
<1>2. Places'
  BY DEF IInv, Places, Starts, Passes, HoldingJobs, StartOta, Over, Idle
<1>3. OneHolder'
  BY DEF IInv, OneHolder, HoldingJobs, WebHolds, CellHolds, SchedHolds, StartOta, Over,
      Idle
<1>4. OneOwner'
  BY DEF IInv, OneOwner, Claimed, Passes, StartOta, Over, Idle
<1>5. Found8'
  BY DEF IInv, Found8, Passes, NobodyStarts, Starts, CellHolds, HoldingJobs, StartOta,
      Over, Idle
<1>6. Checked'
  BY DEF IInv, OneHolder, HoldingJobs, WebHolds, CellHolds, SchedHolds, Checked,
      JobKinds, Starts, Active, OtaActive, StartOta, Over, Idle
<1>7. OneClaim'
  BY DEF IInv, OneClaim, JobKinds, Active, Backups, ClaimOf, Enqueuing, StartOta, Over,
      Idle
<1>8. Served'
  BY DEF IInv, Served, Active, Backups, Enqueuing, StartOta, Over, Idle
<1>9. UpdateAlone'
  BY DEF IInv, OneHolder, HoldingJobs, WebHolds, CellHolds, SchedHolds, Checked,
      JobKinds, Starts, Active, OtaActive, UpdateAlone, StartOta, Over, Idle
<1>10. BackupAlone'
  BY DEF IInv, Checked, JobKinds, Starts, Active, OtaActive, HoldingJobs, BackupAlone,
      StartOta, Over, Idle
<1> QED BY <1>1, <1>2, <1>3, <1>4, <1>5, <1>6, <1>7, <1>8, <1>9, <1>10 DEF IInv

LEMMA StartTestPreserves == ASSUME IInv, StartTest PROVE IInv'
<1>1. TypeOK'
  <2>1. admission' \in BOOLEAN
    BY DEF IInv, TypeOK, CellJobs, JobRecord, WebPlace, SchedPlace, HoldingJobs,
        JobKinds, Starts, Passes, StartTest, Over, Idle
  <2>2. testing' \in BOOLEAN
    BY DEF IInv, TypeOK, CellJobs, JobRecord, WebPlace, SchedPlace, HoldingJobs,
        JobKinds, Starts, Passes, StartTest, Over, Idle
  <2>3. test' \in BOOLEAN
    BY DEF IInv, TypeOK, CellJobs, JobRecord, WebPlace, SchedPlace, HoldingJobs,
        JobKinds, Starts, Passes, StartTest, Over, Idle
  <2>4. web' \in WebPlace
    BY DEF IInv, TypeOK, CellJobs, JobRecord, WebPlace, SchedPlace, HoldingJobs,
        JobKinds, Starts, Passes, StartTest, Over, Idle
  <2> QED
    BY <2>1, <2>2, <2>3, <2>4 DEF IInv, TypeOK, StartTest
<1>2. Places'
  BY DEF IInv, Places, Starts, Passes, HoldingJobs, StartTest, Over, Idle
<1>3. OneHolder'
  BY DEF IInv, OneHolder, HoldingJobs, WebHolds, CellHolds, SchedHolds, StartTest, Over,
      Idle
<1>4. OneOwner'
  BY DEF IInv, OneOwner, Claimed, Passes, StartTest, Over, Idle
<1>5. Found8'
  BY DEF IInv, Found8, Passes, NobodyStarts, Starts, CellHolds, HoldingJobs, TypeOK,
      CellJobs, JobRecord, WebPlace, SchedPlace, JobKinds, StartTest, Over, Idle
<1>6. Checked'
  BY DEF IInv, OneHolder, HoldingJobs, WebHolds, CellHolds, SchedHolds, Checked,
      JobKinds, Starts, Active, OtaActive, StartTest, Over, Idle
<1>7. OneClaim'
  BY DEF IInv, OneClaim, JobKinds, Active, Backups, ClaimOf, Enqueuing, StartTest, Over,
      Idle
<1>8. Served'
  BY DEF IInv, Served, Active, Backups, Enqueuing, StartTest, Over, Idle
<1>9. UpdateAlone'
  BY DEF IInv, Checked, JobKinds, Starts, Active, OtaActive, HoldingJobs, UpdateAlone,
      StartTest, Over, Idle
<1>10. BackupAlone'
  BY DEF IInv, Checked, JobKinds, Starts, Active, OtaActive, HoldingJobs, BackupAlone,
      StartTest, Over, Idle
<1> QED BY <1>1, <1>2, <1>3, <1>4, <1>5, <1>6, <1>7, <1>8, <1>9, <1>10 DEF IInv

LEMMA StartCellPreserves == ASSUME IInv, StartCell PROVE IInv'
<1>1. TypeOK'
  <2>1. admission' \in BOOLEAN
    BY DEF IInv, TypeOK, CellJobs, JobRecord, WebPlace, SchedPlace, HoldingJobs,
        JobKinds, Starts, Passes, StartCell, Idle, CellBusy, Over, OtaActive,
        RestartPending
  <2>2. cell' \subseteq CellJobs
    BY DEF IInv, TypeOK, CellJobs, JobRecord, WebPlace, SchedPlace, HoldingJobs,
        JobKinds, Starts, Passes, StartCell, Idle, CellBusy, Over, OtaActive,
        RestartPending
  <2>3. web' \in WebPlace
    BY DEF IInv, TypeOK, CellJobs, JobRecord, WebPlace, SchedPlace, HoldingJobs,
        JobKinds, Starts, Passes, StartCell, Idle, CellBusy, Over, OtaActive,
        RestartPending
  <2> QED
    BY <2>1, <2>2, <2>3 DEF IInv, TypeOK, StartCell
<1>2. Places'
  BY DEF IInv, Places, Starts, Passes, HoldingJobs, StartCell, Idle, CellBusy, Over,
      OtaActive, RestartPending
<1>3. OneHolder'
  BY DEF IInv, OneHolder, HoldingJobs, WebHolds, CellHolds, SchedHolds, StartCell, Idle,
      CellBusy, Over, OtaActive, RestartPending
<1>4. OneOwner'
  BY DEF IInv, OneOwner, Claimed, Passes, StartCell, HoldingJobs, Idle, CellBusy, Over,
      OtaActive, RestartPending
<1>5. Found8'
  BY DEF IInv, Found8, Passes, NobodyStarts, Starts, CellHolds, HoldingJobs, TypeOK,
      CellJobs, JobRecord, WebPlace, SchedPlace, JobKinds, StartCell, Idle, CellBusy,
      Over, OtaActive, RestartPending
<1>6. Checked'
  BY DEF IInv, Checked, JobKinds, Starts, Active, OtaActive, HoldingJobs, StartCell,
      Idle, CellBusy, Over, RestartPending
<1>7. OneClaim'
  BY DEF IInv, OneClaim, JobKinds, Active, Backups, ClaimOf, Enqueuing, StartCell,
      HoldingJobs, Idle, CellBusy, Over, OtaActive, RestartPending
<1>8. Served'
  BY DEF IInv, Served, Active, Backups, Enqueuing, StartCell, HoldingJobs, Idle,
      CellBusy, Over, OtaActive, RestartPending
<1>9. UpdateAlone'
  BY DEF IInv, UpdateAlone, HoldingJobs, Active, OtaActive, StartCell, Idle, CellBusy,
      Over, RestartPending
<1>10. BackupAlone'
  BY DEF IInv, Checked, JobKinds, Starts, Active, OtaActive, HoldingJobs, BackupAlone,
      StartCell, Idle, CellBusy, Over, RestartPending
<1> QED BY <1>1, <1>2, <1>3, <1>4, <1>5, <1>6, <1>7, <1>8, <1>9, <1>10 DEF IInv

LEMMA RebootPreserves == ASSUME IInv, Reboot PROVE IInv'
<1>1. TypeOK'
  <2>1. owner' \in BOOLEAN
    BY DEF IInv, TypeOK, CellJobs, JobRecord, WebPlace, SchedPlace, HoldingJobs,
        JobKinds, Starts, Passes, Reboot, Idle, RestartHeld, Goes, Active, OtaActive
  <2>2. doom' \in {"no", "web", "factory", "scheduler"}
    BY DEF IInv, TypeOK, CellJobs, JobRecord, WebPlace, SchedPlace, HoldingJobs,
        JobKinds, Starts, Passes, Reboot, Idle, RestartHeld, Goes, Active, OtaActive
  <2>3. web' \in WebPlace
    BY DEF IInv, TypeOK, CellJobs, JobRecord, WebPlace, SchedPlace, HoldingJobs,
        JobKinds, Starts, Passes, Reboot, Idle, RestartHeld, Goes, Active, OtaActive
  <2> QED
    BY <2>1, <2>2, <2>3 DEF IInv, TypeOK, Reboot
<1>2. UpdateAlone' /\ BackupAlone'
  BY DEF IInv, UpdateAlone, HoldingJobs, Active, OtaActive, BackupAlone, Reboot, Idle,
      RestartHeld, Goes
<1>3. Places'
  BY DEF IInv, Places, Starts, Passes, HoldingJobs, TypeOK, CellJobs, JobRecord,
      WebPlace, SchedPlace, JobKinds, Reboot, Idle, RestartHeld, Goes, Active, OtaActive
<1>4. OneHolder'
  BY DEF IInv, OneHolder, HoldingJobs, WebHolds, CellHolds, SchedHolds, TypeOK,
      CellJobs, JobRecord, WebPlace, SchedPlace, JobKinds, Starts, Passes, Reboot, Idle,
      RestartHeld, Goes, Active, OtaActive
<1>5. OneOwner'
  BY DEF IInv, OneOwner, Claimed, Passes, Reboot, Idle, RestartHeld, Goes, Active,
      OtaActive
<1>6. Found8'
  BY DEF IInv, Places, Starts, Passes, HoldingJobs, OneHolder, WebHolds, CellHolds,
      SchedHolds, OneOwner, Claimed, Found8, NobodyStarts, Reboot, Idle, RestartHeld,
      Goes, Active, OtaActive
<1>7. Checked'
  BY DEF IInv, Checked, JobKinds, Starts, Active, OtaActive, HoldingJobs, TypeOK,
      CellJobs, JobRecord, WebPlace, SchedPlace, Passes, Reboot, Idle, RestartHeld, Goes
<1>8. OneClaim'
  BY DEF IInv, OneClaim, JobKinds, Active, Backups, ClaimOf, Enqueuing, TypeOK,
      CellJobs, JobRecord, WebPlace, SchedPlace, HoldingJobs, Starts, Passes, Reboot,
      Idle, RestartHeld, Goes, OtaActive
<1>9. Served'
  BY DEF IInv, Served, Active, Backups, Enqueuing, Reboot, Idle, RestartHeld, Goes,
      OtaActive
<1> QED BY <1>1, <1>2, <1>3, <1>4, <1>5, <1>6, <1>7, <1>8, <1>9 DEF IInv

LEMMA FactoryResetPreserves == ASSUME IInv, FactoryReset PROVE IInv'
<1>1. TypeOK'
  <2>1. owner' \in BOOLEAN
    BY DEF IInv, TypeOK, CellJobs, JobRecord, WebPlace, SchedPlace, HoldingJobs,
        JobKinds, Starts, Passes, FactoryReset, Idle, RestartHeld, Goes, Active,
        OtaActive
  <2>2. doom' \in {"no", "web", "factory", "scheduler"}
    BY DEF IInv, TypeOK, CellJobs, JobRecord, WebPlace, SchedPlace, HoldingJobs,
        JobKinds, Starts, Passes, FactoryReset, Idle, RestartHeld, Goes, Active,
        OtaActive
  <2>3. web' \in WebPlace
    BY DEF IInv, TypeOK, CellJobs, JobRecord, WebPlace, SchedPlace, HoldingJobs,
        JobKinds, Starts, Passes, FactoryReset, Idle, RestartHeld, Goes, Active,
        OtaActive
  <2> QED
    BY <2>1, <2>2, <2>3 DEF IInv, TypeOK, FactoryReset
<1>2. UpdateAlone' /\ BackupAlone'
  BY DEF IInv, UpdateAlone, HoldingJobs, Active, OtaActive, BackupAlone, FactoryReset,
      Idle, RestartHeld, Goes
<1>3. Places'
  BY DEF IInv, Places, Starts, Passes, HoldingJobs, TypeOK, CellJobs, JobRecord,
      WebPlace, SchedPlace, JobKinds, FactoryReset, Idle, RestartHeld, Goes, Active,
      OtaActive
<1>4. OneHolder'
  BY DEF IInv, OneHolder, HoldingJobs, WebHolds, CellHolds, SchedHolds, TypeOK,
      CellJobs, JobRecord, WebPlace, SchedPlace, JobKinds, Starts, Passes, FactoryReset,
      Idle, RestartHeld, Goes, Active, OtaActive
<1>5. OneOwner'
  BY DEF IInv, OneOwner, Claimed, Passes, TypeOK, CellJobs, JobRecord, WebPlace,
      SchedPlace, HoldingJobs, JobKinds, Starts, FactoryReset, Idle, RestartHeld, Goes,
      Active, OtaActive
<1>6. Found8'
  BY DEF IInv, Found8, Passes, NobodyStarts, Starts, CellHolds, HoldingJobs, TypeOK,
      CellJobs, JobRecord, WebPlace, SchedPlace, JobKinds, FactoryReset, Idle,
      RestartHeld, Goes, Active, OtaActive
<1>7. Checked'
  BY DEF IInv, Checked, JobKinds, Starts, Active, OtaActive, HoldingJobs, FactoryReset,
      Idle, RestartHeld, Goes
<1>8. OneClaim'
  BY DEF IInv, OneClaim, JobKinds, Active, Backups, ClaimOf, Enqueuing, TypeOK,
      CellJobs, JobRecord, WebPlace, SchedPlace, HoldingJobs, Starts, Passes,
      FactoryReset, Idle, RestartHeld, Goes, OtaActive
<1>9. Served'
  BY DEF IInv, Served, Active, Backups, Enqueuing, FactoryReset, Idle, RestartHeld,
      Goes, OtaActive
<1> QED BY <1>1, <1>2, <1>3, <1>4, <1>5, <1>6, <1>7, <1>8, <1>9 DEF IInv

LEMMA OtaFinishPreserves == ASSUME IInv, OtaFinish PROVE IInv'
<1>1. TypeOK'
  <2>1. ota' \in {"none", "upload", "whole", "finishing", "restart"}
    BY DEF IInv, TypeOK, CellJobs, JobRecord, WebPlace, SchedPlace, HoldingJobs,
        JobKinds, Starts, Passes, OtaFinish, Idle
  <2>2. web' \in WebPlace
    BY DEF IInv, TypeOK, CellJobs, JobRecord, WebPlace, SchedPlace, HoldingJobs,
        JobKinds, Starts, Passes, OtaFinish, Idle
  <2> QED
    BY <2>1, <2>2 DEF IInv, TypeOK, OtaFinish
<1>2. Places'
  BY DEF IInv, Places, Starts, Passes, HoldingJobs, OtaFinish, Idle
<1>3. OneHolder'
  BY DEF IInv, OneHolder, HoldingJobs, WebHolds, CellHolds, SchedHolds, OtaFinish, Idle
<1>4. OneOwner'
  BY DEF IInv, OneOwner, Claimed, Passes, OtaFinish, Idle
<1>5. Found8'
  BY DEF IInv, Found8, Passes, NobodyStarts, Starts, CellHolds, HoldingJobs, OtaFinish,
      Idle
<1>6. Checked'
  BY DEF IInv, Checked, JobKinds, Starts, Active, OtaActive, HoldingJobs, OtaFinish,
      Idle
<1>7. OneClaim'
  BY DEF IInv, OneClaim, JobKinds, Active, Backups, ClaimOf, Enqueuing, OtaFinish, Idle
<1>8. Served'
  BY DEF IInv, Served, Active, Backups, Enqueuing, OtaFinish, Idle
<1>9. UpdateAlone'
  BY DEF IInv, UpdateAlone, HoldingJobs, Active, OtaActive, OtaFinish, Idle
<1>10. BackupAlone'
  BY DEF IInv, BackupAlone, HoldingJobs, OtaActive, OtaFinish, Idle
<1> QED BY <1>1, <1>2, <1>3, <1>4, <1>5, <1>6, <1>7, <1>8, <1>9, <1>10 DEF IInv

LEMMA RestoreChunkPreserves == ASSUME IInv, RestoreChunk PROVE IInv'
<1>1. TypeOK'
  <2>1. backup' \in {"none", "export", "ready", "upload", "whole", "taken"}
    BY DEF IInv, TypeOK, CellJobs, JobRecord, WebPlace, SchedPlace, HoldingJobs,
        JobKinds, Starts, Passes, RestoreChunk, Idle
  <2> QED
    BY <2>1 DEF IInv, TypeOK, RestoreChunk
<1>2. Places' /\ OneHolder' /\ OneOwner' /\ Found8'
  BY DEF IInv, Places, Starts, Passes, HoldingJobs, OneHolder, WebHolds, CellHolds,
      SchedHolds, OneOwner, Claimed, Found8, NobodyStarts, RestoreChunk, Idle
<1>3. Checked'
  BY DEF IInv, Checked, JobKinds, Starts, Active, OtaActive, HoldingJobs, RestoreChunk,
      Idle
<1>4. OneClaim'
  BY DEF IInv, OneClaim, JobKinds, Active, Backups, ClaimOf, Enqueuing, RestoreChunk,
      Idle
<1>5. Served'
  BY DEF IInv, Served, Active, Backups, Enqueuing, RestoreChunk, Idle
<1>6. UpdateAlone'
  BY DEF IInv, UpdateAlone, HoldingJobs, Active, OtaActive, RestoreChunk, Idle
<1>7. BackupAlone'
  BY DEF IInv, BackupAlone, HoldingJobs, OtaActive, RestoreChunk, Idle
<1> QED BY <1>1, <1>2, <1>3, <1>4, <1>5, <1>6, <1>7 DEF IInv

LEMMA OtaChunkPreserves == ASSUME IInv, OtaChunk PROVE IInv'
<1>1. TypeOK'
  <2>1. ota' \in {"none", "upload", "whole", "finishing", "restart"}
    BY DEF IInv, TypeOK, CellJobs, JobRecord, WebPlace, SchedPlace, HoldingJobs,
        JobKinds, Starts, Passes, OtaChunk, Idle, RestartPending
  <2> QED
    BY <2>1 DEF IInv, TypeOK, OtaChunk
<1>2. Places' /\ OneHolder' /\ OneOwner' /\ Found8' /\ OneClaim'
  BY DEF IInv, Places, Starts, Passes, HoldingJobs, OneHolder, WebHolds, CellHolds,
      SchedHolds, OneOwner, Claimed, Found8, NobodyStarts, OneClaim, JobKinds, Active,
      Backups, ClaimOf, Enqueuing, OtaChunk, Idle, RestartPending
<1>3. Checked'
  BY DEF IInv, Checked, JobKinds, Starts, Active, OtaActive, HoldingJobs, OtaChunk,
      Idle, RestartPending
<1>4. Served'
  BY DEF IInv, Served, Active, Backups, Enqueuing, OtaChunk, Idle, RestartPending
<1>5. UpdateAlone'
  BY DEF IInv, UpdateAlone, HoldingJobs, Active, OtaActive, OtaChunk, Idle,
      RestartPending
<1>6. BackupAlone'
  BY DEF IInv, BackupAlone, HoldingJobs, OtaActive, OtaChunk, Idle, RestartPending
<1> QED BY <1>1, <1>2, <1>3, <1>4, <1>5, <1>6 DEF IInv

LEMMA DownloadPreserves == ASSUME IInv, Download PROVE IInv'
<1>1. TypeOK'
  <2>1. backup' \in {"none", "export", "ready", "upload", "whole", "taken"}
    BY DEF IInv, TypeOK, CellJobs, JobRecord, WebPlace, SchedPlace, HoldingJobs,
        JobKinds, Starts, Passes, Download
  <2> QED
    BY <2>1 DEF IInv, TypeOK, Download
<1>2. Places' /\ OneHolder' /\ OneOwner' /\ Found8'
  BY DEF IInv, Places, Starts, Passes, HoldingJobs, OneHolder, WebHolds, CellHolds,
      SchedHolds, OneOwner, Claimed, Found8, NobodyStarts, Download
<1>3. Checked'
  BY DEF IInv, Checked, JobKinds, Starts, Active, OtaActive, HoldingJobs, Download
<1>4. OneClaim'
  BY DEF IInv, OneClaim, JobKinds, Active, Backups, ClaimOf, Enqueuing, Download
<1>5. Served'
  BY DEF IInv, Served, Active, Backups, Enqueuing, Download
<1>6. UpdateAlone'
  BY DEF IInv, UpdateAlone, HoldingJobs, Active, OtaActive, Download
<1>7. BackupAlone'
  BY DEF IInv, BackupAlone, HoldingJobs, OtaActive, Download
<1> QED BY <1>1, <1>2, <1>3, <1>4, <1>5, <1>6, <1>7 DEF IInv

LEMMA OtaExpirePreserves == ASSUME IInv, OtaExpire PROVE IInv'
<1>1. TypeOK'
  <2>1. ota' \in {"none", "upload", "whole", "finishing", "restart"}
    BY DEF IInv, TypeOK, CellJobs, JobRecord, WebPlace, SchedPlace, HoldingJobs,
        JobKinds, Starts, Passes, OtaExpire
  <2> QED
    BY <2>1 DEF IInv, TypeOK, OtaExpire
<1>2. Places' /\ OneHolder' /\ OneOwner' /\ Found8' /\ OneClaim'
  BY DEF IInv, Places, Starts, Passes, HoldingJobs, OneHolder, WebHolds, CellHolds,
      SchedHolds, OneOwner, Claimed, Found8, NobodyStarts, OneClaim, JobKinds, Active,
      Backups, ClaimOf, Enqueuing, OtaExpire
<1>3. Checked'
  BY DEF IInv, Checked, JobKinds, Starts, Active, OtaActive, HoldingJobs, OtaExpire
<1>4. Served'
  BY DEF IInv, Served, Active, Backups, Enqueuing, OtaExpire
<1>5. UpdateAlone'
  BY DEF IInv, UpdateAlone, HoldingJobs, Active, OtaActive, OtaExpire
<1>6. BackupAlone'
  BY DEF IInv, BackupAlone, HoldingJobs, OtaActive, OtaExpire
<1> QED BY <1>1, <1>2, <1>3, <1>4, <1>5, <1>6 DEF IInv

LEMMA ForgetPreserves == ASSUME IInv, Forget PROVE IInv'
<1>1. TypeOK'
  <2>1. slot' \in [JobSlots -> JobRecord]
    BY DEF IInv, TypeOK, CellJobs, JobRecord, WebPlace, SchedPlace, HoldingJobs,
        JobKinds, Starts, Passes, Forget, Empty
  <2> QED
    BY <2>1 DEF IInv, TypeOK, Forget
<1>2. Places' /\ OneHolder' /\ OneOwner' /\ Found8' /\ BackupAlone'
  BY DEF IInv, Places, Starts, Passes, HoldingJobs, OneHolder, WebHolds, CellHolds,
      SchedHolds, OneOwner, Claimed, Found8, NobodyStarts, BackupAlone, OtaActive,
      Forget, Empty
<1>3. Checked'
  BY DEF IInv, Checked, JobKinds, Starts, Active, OtaActive, HoldingJobs, Forget, Empty
<1>4. OneClaim'
  BY DEF IInv, OneClaim, JobKinds, Active, Backups, ClaimOf, Enqueuing, Forget, Empty
<1>5. Served'
  BY DEF IInv, Served, Active, Backups, Enqueuing, Forget, Empty
<1>6. UpdateAlone'
  BY DEF IInv, UpdateAlone, HoldingJobs, Active, OtaActive, Forget, Empty
<1> QED BY <1>1, <1>2, <1>3, <1>4, <1>5, <1>6 DEF IInv

LEMMA RestoreDuePreserves == ASSUME IInv, RestoreDue PROVE IInv'
<1>1. TypeOK'
  <2>1. restore' \in {"no", "pending", "due"}
    BY DEF IInv, TypeOK, CellJobs, JobRecord, WebPlace, SchedPlace, HoldingJobs,
        JobKinds, Starts, Passes, RestoreDue
  <2> QED
    BY <2>1 DEF IInv, TypeOK, RestoreDue
<1>2. Places' /\ OneHolder' /\ OneOwner' /\ Found8' /\ Checked' /\ OneClaim' /\ Served'
    /\ UpdateAlone' /\ BackupAlone'
  BY DEF IInv, Places, Starts, Passes, HoldingJobs, OneHolder, WebHolds, CellHolds,
      SchedHolds, OneOwner, Claimed, Found8, NobodyStarts, Checked, JobKinds, Active,
      OtaActive, OneClaim, Backups, ClaimOf, Enqueuing, Served, UpdateAlone,
      BackupAlone, RestoreDue
<1> QED BY <1>1, <1>2 DEF IInv

LEMMA ClaimPreserves == ASSUME IInv, Claim PROVE IInv'
<1>1. TypeOK'
  <2>1. owner' \in BOOLEAN
    BY DEF IInv, TypeOK, CellJobs, JobRecord, WebPlace, SchedPlace, HoldingJobs,
        JobKinds, Starts, Passes, Claim, Resting
  <2>2. sched' \in SchedPlace
    BY DEF IInv, TypeOK, CellJobs, JobRecord, WebPlace, SchedPlace, HoldingJobs,
        JobKinds, Starts, Passes, Claim, Resting
  <2> QED
    BY <2>1, <2>2 DEF IInv, TypeOK, Claim
<1>2. OneClaim' /\ Served' /\ UpdateAlone' /\ BackupAlone'
  BY DEF IInv, OneClaim, JobKinds, Active, Backups, ClaimOf, Enqueuing, Served,
      UpdateAlone, HoldingJobs, OtaActive, BackupAlone, Claim, Resting
<1>3. Places'
  BY DEF IInv, Places, Starts, Passes, HoldingJobs, Claim, Resting
<1>4. OneHolder'
  BY DEF IInv, OneHolder, HoldingJobs, WebHolds, CellHolds, SchedHolds, Claim, Resting
<1>5. OneOwner'
  BY DEF IInv, OneOwner, Claimed, Passes, Claim, Resting
<1>6. Found8'
  BY DEF IInv, Found8, Passes, NobodyStarts, Starts, CellHolds, HoldingJobs, Claim,
      Resting
<1>7. Checked'
  BY DEF IInv, Checked, JobKinds, Starts, Active, OtaActive, HoldingJobs, Claim, Resting
<1> QED BY <1>1, <1>2, <1>3, <1>4, <1>5, <1>6, <1>7 DEF IInv

LEMMA DecidePreserves == ASSUME IInv, Decide PROVE IInv'
<1>1. TypeOK'
  <2>1. doom' \in {"no", "web", "factory", "scheduler"}
    BY DEF IInv, TypeOK, CellJobs, JobRecord, WebPlace, SchedPlace, HoldingJobs,
        JobKinds, Starts, Passes, Decide, Resting
  <2>2. restore' \in {"no", "pending", "due"}
    BY DEF IInv, TypeOK, CellJobs, JobRecord, WebPlace, SchedPlace, HoldingJobs,
        JobKinds, Starts, Passes, Decide, Resting
  <2>3. sched' \in SchedPlace
    BY DEF IInv, TypeOK, CellJobs, JobRecord, WebPlace, SchedPlace, HoldingJobs,
        JobKinds, Starts, Passes, Decide, Resting
  <2> QED
    BY <2>1, <2>2, <2>3 DEF IInv, TypeOK, Decide
<1>2. OneClaim' /\ Served' /\ UpdateAlone' /\ BackupAlone'
  BY DEF IInv, OneClaim, JobKinds, Active, Backups, ClaimOf, Enqueuing, Served,
      UpdateAlone, HoldingJobs, OtaActive, BackupAlone, Decide, Resting
<1>3. Places'
  BY DEF IInv, Places, Starts, Passes, HoldingJobs, Decide, Resting
<1>4. OneHolder'
  BY DEF IInv, OneHolder, HoldingJobs, WebHolds, CellHolds, SchedHolds, Decide, Resting
<1>5. OneOwner'
  BY DEF IInv, TypeOK, CellJobs, JobRecord, WebPlace, SchedPlace, HoldingJobs, JobKinds,
      Starts, Passes, Places, OneOwner, Claimed, Decide, Resting
<1>6. Found8'
  BY DEF IInv, TypeOK, CellJobs, JobRecord, WebPlace, SchedPlace, HoldingJobs, JobKinds,
      Starts, Passes, Places, Found8, NobodyStarts, CellHolds, Decide, Resting
<1>7. Checked'
  BY DEF IInv, Checked, JobKinds, Starts, Active, OtaActive, HoldingJobs, Decide,
      Resting
<1> QED BY <1>1, <1>2, <1>3, <1>4, <1>5, <1>6, <1>7 DEF IInv

LEMMA KeepalivePreserves == ASSUME IInv, Keepalive PROVE IInv'
<1>1. TypeOK'
  <2>1. admission' \in BOOLEAN
    BY DEF IInv, TypeOK, CellJobs, JobRecord, WebPlace, SchedPlace, HoldingJobs,
        JobKinds, Starts, Passes, Keepalive, Resting, CellBusy, StartHeld, OtaActive,
        RestartPending, Active
  <2>2. cell' \subseteq CellJobs
    BY DEF IInv, TypeOK, CellJobs, JobRecord, WebPlace, SchedPlace, HoldingJobs,
        JobKinds, Starts, Passes, Keepalive, Resting, CellBusy, StartHeld, OtaActive,
        RestartPending, Active
  <2>3. sched' \in SchedPlace
    BY DEF IInv, TypeOK, CellJobs, JobRecord, WebPlace, SchedPlace, HoldingJobs,
        JobKinds, Starts, Passes, Keepalive, Resting, CellBusy, StartHeld, OtaActive,
        RestartPending, Active
  <2> QED
    BY <2>1, <2>2, <2>3 DEF IInv, TypeOK, Keepalive
<1>2. OneClaim' /\ Served'
  BY DEF IInv, OneClaim, JobKinds, Active, Backups, ClaimOf, Enqueuing, Served,
      Keepalive, Resting, CellBusy, StartHeld, OtaActive, RestartPending, HoldingJobs
<1>3. Places'
  BY DEF IInv, Places, Starts, Passes, HoldingJobs, TypeOK, CellJobs, JobRecord,
      WebPlace, SchedPlace, JobKinds, Keepalive, Resting, CellBusy, StartHeld,
      OtaActive, RestartPending, Active
<1>4. OneHolder'
  BY DEF IInv, OneHolder, HoldingJobs, WebHolds, CellHolds, SchedHolds, Keepalive,
      Resting, CellBusy, StartHeld, OtaActive, RestartPending, Active
<1>5. OneOwner'
  BY DEF IInv, OneOwner, Claimed, Passes, TypeOK, CellJobs, JobRecord, WebPlace,
      SchedPlace, HoldingJobs, JobKinds, Starts, Keepalive, Resting, CellBusy,
      StartHeld, OtaActive, RestartPending, Active
<1>6. Found8'
  BY DEF IInv, TypeOK, CellJobs, JobRecord, WebPlace, SchedPlace, HoldingJobs, JobKinds,
      Starts, Passes, OneOwner, Claimed, Found8, NobodyStarts, CellHolds, Keepalive,
      Resting, CellBusy, StartHeld, OtaActive, RestartPending, Active
<1>7. Checked'
  BY DEF IInv, Checked, JobKinds, Starts, Active, OtaActive, HoldingJobs, Keepalive,
      Resting, CellBusy, StartHeld, RestartPending
<1>8. UpdateAlone'
  BY DEF IInv, UpdateAlone, HoldingJobs, Active, OtaActive, Keepalive, Resting,
      CellBusy, StartHeld, RestartPending
<1>9. BackupAlone'
  BY DEF IInv, Checked, JobKinds, Starts, Active, OtaActive, HoldingJobs, BackupAlone,
      Keepalive, Resting, CellBusy, StartHeld, RestartPending
<1> QED BY <1>1, <1>2, <1>3, <1>4, <1>5, <1>6, <1>7, <1>8, <1>9 DEF IInv

LEMMA StartSchedPreserves == ASSUME IInv, StartSched PROVE IInv'
<1>1. TypeOK'
  <2>1. cell' \subseteq CellJobs
    BY DEF IInv, TypeOK, CellJobs, JobRecord, WebPlace, SchedPlace, HoldingJobs,
        JobKinds, Starts, Passes, StartSched, Idle, Resting, CellBusy, OtaActive,
        RestartPending
  <2> QED
    BY <2>1 DEF IInv, TypeOK, StartSched
<1>2. Places' /\ OneOwner' /\ Checked' /\ OneClaim' /\ Served'
  BY DEF IInv, Places, Starts, Passes, HoldingJobs, OneOwner, Claimed, Checked,
      JobKinds, Active, OtaActive, OneClaim, Backups, ClaimOf, Enqueuing, Served,
      StartSched, Idle, Resting, CellBusy, RestartPending
<1>3. OneHolder'
  BY DEF IInv, OneHolder, HoldingJobs, WebHolds, CellHolds, SchedHolds, StartSched,
      Idle, Resting, CellBusy, OtaActive, RestartPending
<1>4. Found8'
  BY DEF IInv, Places, Starts, Passes, HoldingJobs, OneOwner, Claimed, Found8,
      NobodyStarts, CellHolds, StartSched, Idle, Resting, CellBusy, OtaActive,
      RestartPending
<1>5. UpdateAlone'
  BY DEF IInv, UpdateAlone, HoldingJobs, Active, OtaActive, StartSched, Idle, Resting,
      CellBusy, RestartPending
<1>6. BackupAlone'
  BY DEF IInv, BackupAlone, HoldingJobs, OtaActive, StartSched, Idle, Resting, CellBusy,
      RestartPending
<1> QED BY <1>1, <1>2, <1>3, <1>4, <1>5, <1>6 DEF IInv

LEMMA TestEndPreserves == ASSUME IInv, TestEnd PROVE IInv'
<1>1. TypeOK'
  <2>1. test' \in BOOLEAN
    BY DEF IInv, TypeOK, CellJobs, JobRecord, WebPlace, SchedPlace, HoldingJobs,
        JobKinds, Starts, Passes, TestEnd
  <2> QED
    BY <2>1 DEF IInv, TypeOK, TestEnd
<1>2. Places' /\ OneHolder' /\ OneOwner' /\ OneClaim' /\ Served'
  BY DEF IInv, Places, Starts, Passes, HoldingJobs, OneHolder, WebHolds, CellHolds,
      SchedHolds, OneOwner, Claimed, OneClaim, JobKinds, Active, Backups, ClaimOf,
      Enqueuing, Served, TestEnd
<1>3. Found8'
  BY DEF IInv, Found8, Passes, NobodyStarts, Starts, CellHolds, HoldingJobs, TestEnd
<1>4. Checked'
  BY DEF IInv, Checked, JobKinds, Starts, Active, OtaActive, HoldingJobs, TestEnd
<1>5. UpdateAlone'
  BY DEF IInv, UpdateAlone, HoldingJobs, Active, OtaActive, TestEnd
<1>6. BackupAlone'
  BY DEF IInv, BackupAlone, HoldingJobs, OtaActive, TestEnd
<1> QED BY <1>1, <1>2, <1>3, <1>4, <1>5, <1>6 DEF IInv

LEMMA RestartPreserves == ASSUME IInv, Restart PROVE IInv'
<1>1. TypeOK'
  <2>1. admission' \in BOOLEAN
    BY DEF IInv, TypeOK, CellJobs, JobRecord, WebPlace, SchedPlace, HoldingJobs,
        JobKinds, Starts, Passes, Restart, Cold, Empty, Idle, Resting
  <2>2. testing' \in BOOLEAN
    BY DEF IInv, TypeOK, CellJobs, JobRecord, WebPlace, SchedPlace, HoldingJobs,
        JobKinds, Starts, Passes, Restart, Cold, Empty, Idle, Resting
  <2>3. owner' \in BOOLEAN
    BY DEF IInv, TypeOK, CellJobs, JobRecord, WebPlace, SchedPlace, HoldingJobs,
        JobKinds, Starts, Passes, Restart, Cold, Empty, Idle, Resting
  <2>4. doom' \in {"no", "web", "factory", "scheduler"}
    BY DEF IInv, TypeOK, CellJobs, JobRecord, WebPlace, SchedPlace, HoldingJobs,
        JobKinds, Starts, Passes, Restart, Cold, Empty, Idle, Resting
  <2>5. slot' \in [JobSlots -> JobRecord]
    BY DEF IInv, TypeOK, CellJobs, JobRecord, WebPlace, SchedPlace, HoldingJobs,
        JobKinds, Starts, Passes, Restart, Cold, Empty, Idle, Resting
  <2>6. backup' \in {"none", "export", "ready", "upload", "whole", "taken"}
    BY DEF IInv, TypeOK, CellJobs, JobRecord, WebPlace, SchedPlace, HoldingJobs,
        JobKinds, Starts, Passes, Restart, Cold, Empty, Idle, Resting
  <2>7. ota' \in {"none", "upload", "whole", "finishing", "restart"}
    BY DEF IInv, TypeOK, CellJobs, JobRecord, WebPlace, SchedPlace, HoldingJobs,
        JobKinds, Starts, Passes, Restart, Cold, Empty, Idle, Resting
  <2>8. restore' \in {"no", "pending", "due"}
    BY DEF IInv, TypeOK, CellJobs, JobRecord, WebPlace, SchedPlace, HoldingJobs,
        JobKinds, Starts, Passes, Restart, Cold, Empty, Idle, Resting
  <2>9. cell' \subseteq CellJobs
    BY DEF IInv, TypeOK, CellJobs, JobRecord, WebPlace, SchedPlace, HoldingJobs,
        JobKinds, Starts, Passes, Restart, Cold, Empty, Idle, Resting
  <2>10. test' \in BOOLEAN
    BY DEF IInv, TypeOK, CellJobs, JobRecord, WebPlace, SchedPlace, HoldingJobs,
        JobKinds, Starts, Passes, Restart, Cold, Empty, Idle, Resting
  <2>11. web' \in WebPlace
    BY DEF IInv, TypeOK, CellJobs, JobRecord, WebPlace, SchedPlace, HoldingJobs,
        JobKinds, Starts, Passes, Restart, Cold, Empty, Idle, Resting
  <2>12. sched' \in SchedPlace
    BY DEF IInv, TypeOK, CellJobs, JobRecord, WebPlace, SchedPlace, HoldingJobs,
        JobKinds, Starts, Passes, Restart, Cold, Empty, Idle, Resting
  <2>13. refused' \in BOOLEAN
    BY DEF IInv, TypeOK, CellJobs, JobRecord, WebPlace, SchedPlace, HoldingJobs,
        JobKinds, Starts, Passes, Restart, Cold, Empty, Idle, Resting
  <2> QED
    BY <2>1, <2>2, <2>3, <2>4, <2>5, <2>6, <2>7, <2>8, <2>9, <2>10, <2>11, <2>12, <2>13
        DEF IInv, TypeOK, Restart
<1>2. Places'
  BY DEF IInv, Places, Starts, Passes, HoldingJobs, Restart, Cold, Empty, Idle, Resting
<1>3. OneHolder'
  BY DEF IInv, OneHolder, HoldingJobs, WebHolds, CellHolds, SchedHolds, Restart, Cold,
      Empty, Idle, Resting
<1>4. OneOwner'
  BY DEF IInv, OneOwner, Claimed, Passes, Restart, Cold, Empty, Idle, Resting
<1>5. Found8'
  BY DEF IInv, Found8, Passes, NobodyStarts, Starts, CellHolds, HoldingJobs, Restart,
      Cold, Empty, Idle, Resting
<1>6. Checked'
  BY DEF IInv, Checked, JobKinds, Starts, Active, OtaActive, HoldingJobs, Restart, Cold,
      Empty, Idle, Resting
<1>7. OneClaim'
  BY DEF IInv, OneClaim, JobKinds, Active, Backups, ClaimOf, Enqueuing, Restart, Cold,
      Empty, Idle, Resting
<1>8. Served'
  BY DEF IInv, Served, Active, Backups, Enqueuing, Restart, Cold, Empty, Idle, Resting
<1>9. UpdateAlone'
  BY DEF IInv, UpdateAlone, HoldingJobs, Active, OtaActive, Restart, Cold, Empty, Idle,
      Resting
<1>10. BackupAlone'
  BY DEF IInv, BackupAlone, HoldingJobs, OtaActive, Restart, Cold, Empty, Idle, Resting
<1> QED BY <1>1, <1>2, <1>3, <1>4, <1>5, <1>6, <1>7, <1>8, <1>9, <1>10 DEF IInv

LEMMA TakeWholePreserves == ASSUME IInv, TakeRestore, backup = "whole" PROVE IInv'
<1>1. /\ backup' = "taken"
      /\ web' = [op |-> "restore", at |-> "check"]
      /\ web.at = "act" /\ web.op = "restoreFinish"
      /\ UNCHANGED <<admission, testing, owner, doom, slot, ota, restore, cell, test,
          sched, refused>>
  BY DEF TakeRestore
<1>2. TypeOK'
  <2>1. admission' \in BOOLEAN
    BY <1>1 DEF IInv, TypeOK, CellJobs, JobRecord, WebPlace, SchedPlace, HoldingJobs,
        JobKinds, Starts, Passes
  <2>2. backup' \in {"none", "export", "ready", "upload", "whole", "taken"}
    BY <1>1 DEF IInv, TypeOK, CellJobs, JobRecord, WebPlace, SchedPlace, HoldingJobs,
        JobKinds, Starts, Passes
  <2>3. web' \in WebPlace
    BY <1>1 DEF IInv, TypeOK, CellJobs, JobRecord, WebPlace, SchedPlace, HoldingJobs,
        JobKinds, Starts, Passes
  <2> QED
    BY <1>1, <2>1, <2>2, <2>3 DEF IInv, TypeOK
<1>3. Places'
  BY <1>1 DEF IInv, Places, Starts, Passes, HoldingJobs
<1>4. OneHolder'
  BY <1>1 DEF IInv, OneHolder, HoldingJobs, WebHolds, CellHolds, SchedHolds
<1>5. OneOwner'
  BY <1>1 DEF IInv, OneOwner, Claimed, Passes
<1>6. Found8'
  BY <1>1 DEF IInv, Found8, Passes, NobodyStarts, Starts, CellHolds, HoldingJobs
<1>7. Checked'
  BY <1>1 DEF IInv, Checked, JobKinds, Starts, Active, OtaActive, HoldingJobs
<1>8. OneClaim'
  BY <1>1 DEF IInv, OneClaim, JobKinds, Active, Backups, ClaimOf, Enqueuing
<1>9. Served'
  BY <1>1 DEF IInv, Served, Active, Backups, Enqueuing
<1>10. UpdateAlone'
  BY <1>1 DEF IInv, UpdateAlone, HoldingJobs, Active, OtaActive
<1>11. BackupAlone'
  BY <1>1 DEF IInv, BackupAlone, HoldingJobs, OtaActive
<1> QED BY <1>2, <1>3, <1>4, <1>5, <1>6, <1>7, <1>8, <1>9, <1>10, <1>11 DEF IInv

LEMMA TakeNothingPreserves == ASSUME IInv, TakeRestore, backup # "whole" PROVE IInv'
<1>1. /\ web' = Idle /\ admission' = FALSE
      /\ web.at = "act" /\ web.op = "restoreFinish"
      /\ UNCHANGED <<testing, owner, doom, slot, backup, ota, restore, cell, test,
          sched, refused>>
  BY DEF TakeRestore, Over
<1>2. TypeOK'
  <2>1. admission' \in BOOLEAN
    BY <1>1 DEF IInv, TypeOK, CellJobs, JobRecord, WebPlace, SchedPlace, HoldingJobs,
        JobKinds, Starts, Passes, Idle
  <2>2. backup' \in {"none", "export", "ready", "upload", "whole", "taken"}
    BY <1>1 DEF IInv, TypeOK, CellJobs, JobRecord, WebPlace, SchedPlace, HoldingJobs,
        JobKinds, Starts, Passes, Idle
  <2>3. web' \in WebPlace
    BY <1>1 DEF IInv, TypeOK, CellJobs, JobRecord, WebPlace, SchedPlace, HoldingJobs,
        JobKinds, Starts, Passes, Idle
  <2> QED
    BY <1>1, <2>1, <2>2, <2>3 DEF IInv, TypeOK
<1>3. Places'
  BY <1>1 DEF IInv, Places, Starts, Passes, HoldingJobs, Idle
<1>4. OneHolder'
  BY <1>1 DEF IInv, OneHolder, HoldingJobs, WebHolds, CellHolds, SchedHolds, Idle
<1>5. OneOwner'
  BY <1>1 DEF IInv, OneOwner, Claimed, Passes, Idle
<1>6. Found8'
  BY <1>1 DEF IInv, Found8, Passes, NobodyStarts, Starts, CellHolds, HoldingJobs, Idle
<1>7. Checked'
  BY <1>1 DEF IInv, Checked, JobKinds, Starts, Active, OtaActive, HoldingJobs, Idle
<1>8. OneClaim'
  BY <1>1 DEF IInv, OneClaim, JobKinds, Active, Backups, ClaimOf, Enqueuing, Idle
<1>9. Served'
  BY <1>1 DEF IInv, Served, Active, Backups, Enqueuing, Idle
<1>10. UpdateAlone'
  BY <1>1 DEF IInv, UpdateAlone, HoldingJobs, Active, OtaActive, Idle
<1>11. BackupAlone'
  BY <1>1 DEF IInv, BackupAlone, HoldingJobs, OtaActive, Idle
<1> QED BY <1>2, <1>3, <1>4, <1>5, <1>6, <1>7, <1>8, <1>9, <1>10, <1>11 DEF IInv

LEMMA ReadBusyPreserves == ASSUME IInv, Read, Found(IF sched.at <= 8 THEN sched.at ELSE sched.at - 9, sched.op) PROVE IInv'
<1>1. /\ sched' = Resting
      /\ owner' = IF sched.at <= 8 THEN owner ELSE FALSE
      /\ sched.op \in Passes
      /\ UNCHANGED <<admission, testing, doom, slot, backup, ota, restore, cell, test,
          web, refused>>
  BY DEF Read
<1>2. /\ sched.at <= 8 \/ Claimed
  BY DEF Read, Claimed
<1>3. TypeOK'
  <2>1. owner' \in BOOLEAN
    BY <1>1, <1>2 DEF IInv, TypeOK, CellJobs, JobRecord, WebPlace, SchedPlace,
        HoldingJobs, JobKinds, Starts, Passes, Resting, Claimed
  <2>2. sched' \in SchedPlace
    BY <1>1, <1>2 DEF IInv, TypeOK, CellJobs, JobRecord, WebPlace, SchedPlace,
        HoldingJobs, JobKinds, Starts, Passes, Resting, Claimed
  <2> QED
    BY ZenonT(60), <1>1, <1>2, <2>1, <2>2 DEF IInv, TypeOK
<1>4. OneClaim' /\ Served' /\ UpdateAlone' /\ BackupAlone'
  BY <1>1, <1>2 DEF IInv, OneClaim, JobKinds, Active, Backups, ClaimOf, Enqueuing,
      Served, UpdateAlone, HoldingJobs, OtaActive, BackupAlone, Resting, Passes, Claimed
<1>5. Places'
  BY <1>1, <1>2 DEF IInv, Places, Starts, Passes, HoldingJobs, Resting, Claimed
<1>6. OneHolder'
  BY <1>1, <1>2 DEF IInv, OneHolder, HoldingJobs, WebHolds, CellHolds, SchedHolds,
      Resting, Passes, Claimed
<1>7. OneOwner'
  BY <1>1, <1>2 DEF IInv, OneOwner, Claimed, Passes, Resting
<1>8. Found8'
  BY <1>1, <1>2 DEF IInv, Found8, Passes, NobodyStarts, Starts, CellHolds, HoldingJobs,
      Resting, Claimed
<1>9. Checked'
  BY <1>1, <1>2 DEF IInv, Checked, JobKinds, Starts, Active, OtaActive, HoldingJobs,
      Resting, Passes, Claimed
<1> QED BY <1>3, <1>4, <1>5, <1>6, <1>7, <1>8, <1>9 DEF IInv

LEMMA ReadIdlePreserves == ASSUME IInv, Read, ~Found(IF sched.at <= 8 THEN sched.at ELSE sched.at - 9, sched.op) PROVE IInv'
<1>1. /\ sched' = [sched EXCEPT !.at = @ + 1]
      /\ sched.op \in Passes /\ sched.at \in (1 .. 8) \cup (10 .. 17)
      /\ UNCHANGED <<admission, testing, owner, doom, slot, backup, ota, restore, cell,
          test, web, refused>>
  BY DEF Read
<1>2. /\ sched.at = 15 => ~Found(6, sched.op)
      /\ sched.at = 16 => ~Found(7, sched.op)
      /\ sched.at = 17 => ~Found(8, sched.op)
  OBVIOUS
<1>3. /\ sched.at = 15 => ~admission
      /\ sched.at = 16 => ~test
      /\ sched.at = 17 => cell = {}
  BY <1>2 DEF Found
<1>4. TypeOK'
  <2>1. owner' \in BOOLEAN
    BY <1>1, <1>2, <1>3 DEF IInv, TypeOK, CellJobs, JobRecord, WebPlace, SchedPlace,
        HoldingJobs, JobKinds, Starts, Passes, Found, Active, OtaActive
  <2>2. sched' \in SchedPlace
    BY <1>1, <1>2, <1>3 DEF IInv, TypeOK, CellJobs, JobRecord, WebPlace, SchedPlace,
        HoldingJobs, JobKinds, Starts, Passes, Found, Active, OtaActive
  <2> QED
    BY <1>1, <1>2, <1>3, <2>1, <2>2 DEF IInv, TypeOK
<1>5. OneClaim' /\ Served' /\ UpdateAlone' /\ BackupAlone'
  BY <1>1, <1>2, <1>3 DEF IInv, OneClaim, JobKinds, Active, Backups, ClaimOf, Enqueuing,
      Served, UpdateAlone, HoldingJobs, OtaActive, BackupAlone, Passes, Found
<1>6. Places'
  BY <1>1, <1>2, <1>3 DEF IInv, Places, Starts, Passes, HoldingJobs, Found, Active,
      OtaActive
<1>7. OneHolder'
  BY <1>1, <1>2, <1>3 DEF IInv, OneHolder, HoldingJobs, WebHolds, CellHolds, SchedHolds,
      Passes, Found, Active, OtaActive
<1>8. OneOwner'
  BY <1>1, <1>2, <1>3 DEF IInv, OneOwner, Claimed, Passes, Found, Active, OtaActive
<1>9. Found8'
  BY <1>1, <1>2, <1>3 DEF IInv, OneHolder, HoldingJobs, WebHolds, CellHolds, SchedHolds,
      Found8, Passes, NobodyStarts, Starts, Found, Active, OtaActive
<1>10. Checked'
  BY <1>1, <1>2, <1>3 DEF IInv, Checked, JobKinds, Starts, Active, OtaActive,
      HoldingJobs, Passes, Found
<1> QED BY <1>4, <1>5, <1>6, <1>7, <1>8, <1>9, <1>10 DEF IInv

LEMMA RequestPreserves == ASSUME IInv, NEW op \in Starts \cup {"query", "modem", "restoreFinish"}, Request(op) PROVE IInv'
<1>1. TypeOK'
  <2>1. testing' \in BOOLEAN
    BY DEF IInv, TypeOK, CellJobs, JobRecord, WebPlace, SchedPlace, HoldingJobs,
        JobKinds, Starts, Passes, Request, Idle
  <2>2. web' \in WebPlace
    BY DEF IInv, TypeOK, CellJobs, JobRecord, WebPlace, SchedPlace, HoldingJobs,
        JobKinds, Starts, Passes, Request, Idle
  <2> QED
    BY <2>1, <2>2 DEF IInv, TypeOK, Request
<1>2. UpdateAlone' /\ BackupAlone'
  BY DEF IInv, UpdateAlone, HoldingJobs, Active, OtaActive, BackupAlone, Request, Idle
<1>3. Places'
  BY DEF IInv, Places, Starts, Passes, HoldingJobs, Request, Idle
<1>4. OneHolder'
  BY DEF IInv, OneHolder, HoldingJobs, WebHolds, CellHolds, SchedHolds, Request, Idle
<1>5. OneOwner'
  BY DEF IInv, OneOwner, Claimed, Passes, Request, Idle
<1>6. Found8'
  BY DEF IInv, Found8, Passes, NobodyStarts, Starts, CellHolds, HoldingJobs, Request,
      Idle
<1>7. Checked'
  BY DEF IInv, Checked, JobKinds, Starts, Active, OtaActive, HoldingJobs, Request, Idle
<1>8. OneClaim'
  BY DEF IInv, OneClaim, JobKinds, Active, Backups, ClaimOf, Enqueuing, TypeOK,
      CellJobs, JobRecord, WebPlace, SchedPlace, HoldingJobs, Starts, Passes, Request,
      Idle
<1>9. Served'
  BY DEF IInv, Served, Active, Backups, Enqueuing, Request, Idle
<1> QED BY <1>1, <1>2, <1>3, <1>4, <1>5, <1>6, <1>7, <1>8, <1>9 DEF IInv

LEMMA RequestRestartPreserves == ASSUME IInv, NEW op \in {"reboot", "factory"}, RequestRestart(op) PROVE IInv'
<1>1. TypeOK'
  <2>1. web' \in WebPlace
    BY DEF IInv, TypeOK, CellJobs, JobRecord, WebPlace, SchedPlace, HoldingJobs,
        JobKinds, Starts, Passes, RequestRestart, Idle
  <2> QED
    BY <2>1 DEF IInv, TypeOK, RequestRestart
<1>2. UpdateAlone' /\ BackupAlone'
  BY DEF IInv, UpdateAlone, HoldingJobs, Active, OtaActive, BackupAlone, RequestRestart,
      Idle
<1>3. Places'
  BY DEF IInv, Places, Starts, Passes, HoldingJobs, RequestRestart, Idle
<1>4. OneHolder'
  BY DEF IInv, OneHolder, HoldingJobs, WebHolds, CellHolds, SchedHolds, RequestRestart,
      Idle
<1>5. OneOwner'
  BY DEF IInv, OneOwner, Claimed, Passes, RequestRestart, Idle
<1>6. Found8'
  BY DEF IInv, Found8, Passes, NobodyStarts, Starts, CellHolds, HoldingJobs,
      RequestRestart, Idle
<1>7. Checked'
  BY DEF IInv, Checked, JobKinds, Starts, Active, OtaActive, HoldingJobs,
      RequestRestart, Idle
<1>8. OneClaim'
  BY DEF IInv, OneClaim, JobKinds, Active, Backups, ClaimOf, Enqueuing, RequestRestart,
      Idle
<1>9. Served'
  BY DEF IInv, Served, Active, Backups, Enqueuing, RequestRestart, Idle
<1> QED BY <1>1, <1>2, <1>3, <1>4, <1>5, <1>6, <1>7, <1>8, <1>9 DEF IInv

LEMMA JobStartPreserves == ASSUME IInv, NEW s \in JobSlots, JobStart(s) PROVE IInv'
<1>1. TypeOK'
  <2>1. slot' \in [JobSlots -> JobRecord]
    BY DEF IInv, TypeOK, CellJobs, JobRecord, WebPlace, SchedPlace, HoldingJobs,
        JobKinds, Starts, Passes, JobStart, Done, CellBusy, OtaActive, RestartPending
  <2>2. cell' \subseteq CellJobs
    BY DEF IInv, TypeOK, CellJobs, JobRecord, WebPlace, SchedPlace, HoldingJobs,
        JobKinds, Starts, Passes, JobStart, Done, CellBusy, OtaActive, RestartPending
  <2> QED
    BY <2>1, <2>2 DEF IInv, TypeOK, JobStart
<1>2. Places' /\ OneOwner'
  BY DEF IInv, Places, Starts, Passes, HoldingJobs, OneOwner, Claimed, JobStart, Done,
      CellBusy, OtaActive, RestartPending
<1>3. OneHolder'
  BY DEF IInv, OneHolder, HoldingJobs, WebHolds, CellHolds, SchedHolds, JobStart, Done,
      CellBusy, OtaActive, RestartPending
<1>4. Found8'
  BY DEF IInv, Places, Starts, Passes, HoldingJobs, OneOwner, Claimed, Found8,
      NobodyStarts, CellHolds, JobStart, Done, CellBusy, OtaActive, RestartPending
<1>5. Checked'
  BY DEF IInv, Checked, JobKinds, Starts, Active, OtaActive, HoldingJobs, JobStart,
      Done, CellBusy, RestartPending
<1>6. OneClaim'
  BY SMTT(60) DEF IInv, OneClaim, JobKinds, Active, Backups, ClaimOf, Enqueuing, TypeOK,
      CellJobs, JobRecord, WebPlace, SchedPlace, HoldingJobs, Starts, Passes, JobStart,
      Done, CellBusy, OtaActive, RestartPending
<1>7. Served'
  BY DEF IInv, Served, Active, Backups, Enqueuing, TypeOK, CellJobs, JobRecord,
      WebPlace, SchedPlace, HoldingJobs, JobKinds, Starts, Passes, JobStart, Done,
      CellBusy, OtaActive, RestartPending
<1>8. UpdateAlone'
  BY DEF IInv, UpdateAlone, HoldingJobs, Active, OtaActive, TypeOK, CellJobs, JobRecord,
      WebPlace, SchedPlace, JobKinds, Starts, Passes, JobStart, Done, CellBusy,
      RestartPending
<1>9. BackupAlone'
  BY DEF IInv, BackupAlone, HoldingJobs, OtaActive, JobStart, Done, CellBusy,
      RestartPending
<1> QED BY <1>1, <1>2, <1>3, <1>4, <1>5, <1>6, <1>7, <1>8, <1>9 DEF IInv

LEMMA JobEndPreserves == ASSUME IInv, NEW s \in JobSlots, JobEnd(s) PROVE IInv'
<1>1. TypeOK'
  <2>1. slot' \in [JobSlots -> JobRecord]
    BY DEF IInv, TypeOK, CellJobs, JobRecord, WebPlace, SchedPlace, HoldingJobs,
        JobKinds, Starts, Passes, JobEnd, Done
  <2>2. backup' \in {"none", "export", "ready", "upload", "whole", "taken"}
    BY DEF IInv, TypeOK, CellJobs, JobRecord, WebPlace, SchedPlace, HoldingJobs,
        JobKinds, Starts, Passes, JobEnd, Done
  <2>3. ota' \in {"none", "upload", "whole", "finishing", "restart"}
    BY DEF IInv, TypeOK, CellJobs, JobRecord, WebPlace, SchedPlace, HoldingJobs,
        JobKinds, Starts, Passes, JobEnd, Done
  <2>4. restore' \in {"no", "pending", "due"}
    BY DEF IInv, TypeOK, CellJobs, JobRecord, WebPlace, SchedPlace, HoldingJobs,
        JobKinds, Starts, Passes, JobEnd, Done
  <2>5. cell' \subseteq CellJobs
    BY DEF IInv, TypeOK, CellJobs, JobRecord, WebPlace, SchedPlace, HoldingJobs,
        JobKinds, Starts, Passes, JobEnd, Done
  <2> QED
    BY <2>1, <2>2, <2>3, <2>4, <2>5 DEF IInv, TypeOK, JobEnd
<1>2. Places' /\ OneOwner'
  BY DEF IInv, Places, Starts, Passes, HoldingJobs, OneOwner, Claimed, JobEnd, Done
<1>3. OneHolder'
  BY DEF IInv, OneHolder, HoldingJobs, WebHolds, CellHolds, SchedHolds, JobEnd, Done
<1>4. Found8'
  BY DEF IInv, Found8, Passes, NobodyStarts, Starts, CellHolds, HoldingJobs, JobEnd,
      Done
<1>5. Checked'
  BY DEF IInv, OneClaim, JobKinds, Active, Backups, ClaimOf, Enqueuing, Checked, Starts,
      OtaActive, HoldingJobs, JobEnd, Done
<1>6. OneClaim'
  BY DEF IInv, OneClaim, JobKinds, Active, Backups, ClaimOf, Enqueuing, TypeOK,
      CellJobs, JobRecord, WebPlace, SchedPlace, HoldingJobs, Starts, Passes, JobEnd,
      Done
<1>7. Served'
  BY DEF IInv, Served, Active, Backups, Enqueuing, JobEnd, Done
<1>8. UpdateAlone'
  BY DEF IInv, UpdateAlone, HoldingJobs, Active, OtaActive, JobEnd, Done
<1>9. BackupAlone'
  <2>1. backup' # "none" => backup # "none"
    <3>1. s \in Active
      BY DEF JobEnd, Active
    <3>2. slot[s].kind \in Backups => backup # "none"
      BY <3>1 DEF IInv, OneClaim, ClaimOf
    <3> QED BY <3>2 DEF JobEnd, Backups
  <2>2. OtaActive' => OtaActive
    BY DEF JobEnd, OtaActive
  <2>3. cell' \subseteq cell /\ UNCHANGED test
    BY DEF JobEnd
  <2> QED BY <2>1, <2>2, <2>3 DEF IInv, BackupAlone
<1> QED BY <1>1, <1>2, <1>3, <1>4, <1>5, <1>6, <1>7, <1>8, <1>9 DEF IInv

LEMMA CellEndPreserves == ASSUME IInv, NEW c \in CellJobs, CellEnd(c) PROVE IInv'
<1>1. TypeOK'
  <2>1. admission' \in BOOLEAN
    BY DEF IInv, TypeOK, CellJobs, JobRecord, WebPlace, SchedPlace, HoldingJobs,
        JobKinds, Starts, Passes, CellEnd
  <2>2. cell' \subseteq CellJobs
    BY DEF IInv, TypeOK, CellJobs, JobRecord, WebPlace, SchedPlace, HoldingJobs,
        JobKinds, Starts, Passes, CellEnd
  <2> QED
    BY ZenonT(60), <2>1, <2>2 DEF IInv, TypeOK, CellEnd
<1>2. Places' /\ OneOwner' /\ Checked' /\ OneClaim' /\ Served'
  BY DEF IInv, Places, Starts, Passes, HoldingJobs, OneOwner, Claimed, Checked,
      JobKinds, Active, OtaActive, OneClaim, Backups, ClaimOf, Enqueuing, Served,
      CellEnd
<1>3. OneHolder'
  BY DEF IInv, OneHolder, HoldingJobs, WebHolds, CellHolds, SchedHolds, CellEnd
<1>4. Found8'
  BY DEF IInv, Found8, Passes, NobodyStarts, Starts, CellHolds, HoldingJobs, CellEnd
<1>5. UpdateAlone'
  BY DEF IInv, UpdateAlone, HoldingJobs, Active, OtaActive, CellEnd
<1>6. BackupAlone'
  BY DEF IInv, BackupAlone, HoldingJobs, OtaActive, CellEnd
<1> QED BY <1>1, <1>2, <1>3, <1>4, <1>5, <1>6 DEF IInv

LEMMA ConsiderPreserves == ASSUME IInv, NEW op \in Passes, Consider(op) PROVE IInv'
<1>1. TypeOK'
  <2>1. sched' \in SchedPlace
    BY DEF IInv, TypeOK, CellJobs, JobRecord, WebPlace, SchedPlace, HoldingJobs,
        JobKinds, Starts, Passes, Consider, Resting
  <2> QED
    BY <2>1 DEF IInv, TypeOK, Consider
<1>2. OneClaim' /\ Served' /\ UpdateAlone' /\ BackupAlone'
  BY DEF IInv, OneClaim, JobKinds, Active, Backups, ClaimOf, Enqueuing, Served,
      UpdateAlone, HoldingJobs, OtaActive, BackupAlone, Consider, Resting
<1>3. Places'
  BY DEF IInv, Places, Starts, Passes, HoldingJobs, Consider, Resting
<1>4. OneHolder'
  BY DEF IInv, OneHolder, HoldingJobs, WebHolds, CellHolds, SchedHolds, TypeOK,
      CellJobs, JobRecord, WebPlace, SchedPlace, JobKinds, Starts, Passes, Consider,
      Resting
<1>5. OneOwner'
  BY DEF IInv, OneOwner, Claimed, Passes, Consider, Resting
<1>6. Found8'
  BY DEF IInv, Found8, Passes, NobodyStarts, Starts, CellHolds, HoldingJobs, Consider,
      Resting
<1>7. Checked'
  BY DEF IInv, Checked, JobKinds, Starts, Active, OtaActive, HoldingJobs, Consider,
      Resting
<1> QED BY <1>1, <1>2, <1>3, <1>4, <1>5, <1>6, <1>7 DEF IInv

-----------------------------------------------------------------------------
(* The theorems.                                                           *)

LEMMA InitIInv == Init => IInv
<1> SUFFICES ASSUME Init PROVE IInv
  OBVIOUS
<1>1. TypeOK
  <2>1. Empty \in JobRecord /\ Idle \in WebPlace /\ Resting \in SchedPlace
    BY DEF JobRecord, WebPlace, SchedPlace, Empty, Idle, Resting, JobKinds
  <2> QED BY <2>1 DEF Init, TypeOK, CellJobs
<1>2. Places /\ OneHolder /\ OneOwner /\ Found8 /\ Checked
  BY DEF Init, Places, OneHolder, OneOwner, Found8, Checked, WebHolds, CellHolds, SchedHolds, Claimed,
      NobodyStarts, OtaActive, Idle, Resting, Starts, HoldingJobs, Passes, JobKinds
<1>3. OneClaim /\ Served /\ UpdateAlone /\ BackupAlone
  BY DEF Init, OneClaim, Served, UpdateAlone, BackupAlone, Active, OtaActive, Backups, Enqueuing, Idle,
      Empty, HoldingJobs
<1> QED BY <1>1, <1>2, <1>3 DEF IInv

LEMMA NextIInv == IInv /\ [Next]_vars => IInv'
<1> SUFFICES ASSUME IInv, [Next]_vars PROVE IInv'
  OBVIOUS
<1>1. CASE Handler
  <2>1. ASSUME TakeRestore PROVE IInv'
    BY <2>1, TakeWholePreserves, TakeNothingPreserves
  <2> QED
    BY <1>1, <2>1, AdmitPreserves, CheckJobPreserves, InsertPreserves, CreatePreserves, AcceptedPreserves, CheckPreserves,
        StartExportPreserves, StartRestorePreserves, StartOtaPreserves, StartTestPreserves, StartCellPreserves, RebootPreserves,
        FactoryResetPreserves DEF Handler, Enqueue, Start
<1>2. CASE Ask
  BY <1>2, RequestPreserves, RequestRestartPreserves, OtaFinishPreserves, RestoreChunkPreserves, OtaChunkPreserves DEF Ask
<1>3. CASE Elapse
  BY <1>3, DownloadPreserves, OtaExpirePreserves, ForgetPreserves, RestoreDuePreserves DEF Elapse
<1>4. CASE Job
  <2>1. PICK s \in JobSlots : JobStart(s) \/ JobEnd(s)
    BY <1>4 DEF Job
  <2> QED BY <2>1, JobStartPreserves, JobEndPreserves
<1>5. CASE Cell
  <2>1. PICK c \in CellJobs : CellEnd(c)
    BY <1>5 DEF Cell
  <2> QED BY <2>1, CellEndPreserves
<1>6. CASE Scheduler
  <2>1. ASSUME Read PROVE IInv'
    BY <2>1, ReadBusyPreserves, ReadIdlePreserves
  <2> QED
    BY <1>6, <2>1, ClaimPreserves, DecidePreserves, KeepalivePreserves, ConsiderPreserves DEF Scheduler, Maintain
<1>7. CASE UNCHANGED vars
  BY <1>7 DEF vars, IInv, TypeOK, Places, OneHolder, OneOwner, Found8, Checked, OneClaim, Served,
      UpdateAlone, BackupAlone, WebHolds, CellHolds, SchedHolds, Claimed, NobodyStarts, OtaActive, Active,
      Enqueuing
<1> QED
  BY <1>1, <1>2, <1>3, <1>4, <1>5, <1>6, <1>7, StartSchedPreserves, TestEndPreserves, RestartPreserves DEF Next

LEMMA Invariance == Spec => []IInv
  BY InitIInv, NextIInv, PTL DEF Spec

\* Every variable of the admission and of the jobs stays of its type.
LEMMA InvIsTyped == IInv => TypeOK
BY DEF IInv

\* A restart over the web or by the scheduler cuts off no eSIM job, no keepalive
\* and no push test, and one by the scheduler no cellular job at all.
LEMMA InvSpares == IInv => RestartSpares
BY DEF IInv, Found8, NobodyStarts, CellHolds, RestartSpares

\* An update over the web has the device to itself, but for scheduled tasks and
\* actions on the modem.
LEMMA InvUpdates == IInv => UpdateAlone
BY DEF IInv

\* A backup that is written or read excludes updates, tests and the cellular jobs
\* that hold the admission.
LEMMA InvBacksUp == IInv => BackupAlone
BY DEF IInv

\* A claim that only its job ends has that job, or a handler on its way to start
\* it, or was refused it.
LEMMA InvServes == IInv => ClaimServed
BY DEF IInv, Served, ClaimServed, Backups

\* All of it.
LEMMA InvIsApart == IInv => JobsApart
BY InvIsTyped, InvSpares, InvUpdates, InvBacksUp, InvServes DEF JobsApart

\* No restart cuts off work that it should wait for, in every behaviour.
THEOREM RestartsSpare == Spec => []RestartSpares
BY Invariance, InvSpares, PTL

\* For any number of job slots, whatever the handlers, the jobs and the scheduler
\* do between a check and the act it is for: the type of every variable, what a
\* restart spares, that updates and backups are alone, and that claims are served.
THEOREM JobsAreApart == Spec => []JobsApart
BY Invariance, InvIsApart, PTL
=============================================================================
