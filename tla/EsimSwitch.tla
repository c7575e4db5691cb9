---------------------------- MODULE EsimSwitch ----------------------------
(* Which eSIM profile the card enables and which one the modem runs on,    *)
(* while scheduled jobs (keepalive and advanced tasks) switch to another   *)
(* profile and back, and while the user manages profiles through handles   *)
(* of the list he was last shown.                                          *)
(*                                                                         *)
(* Shared admission (module WebJobs) lets one cellular job run at a time,  *)
(* so one record describes the running job.  A command to the card may be  *)
(* refused, may find the toolkit busy, or its answer may be lost, whether  *)
(* or not the card carried it out.  The clock counts days, and no job of   *)
(* some minutes lasts over a midnight.                                     *)
EXTENDS Naturals, FiniteSets, Sequences, SequencesExt

CONSTANTS Profiles,     \* what the card may hold
          None,         \* no profile
          Interval,     \* days between two runs of the scheduled job
          MaxDay,       \* bound: the clock stops here
          MaxShown,     \* bound: how often a profile list is published
          MaxWeb        \* bound: operations of the user on a profile

\* The card holds some profiles, and a job is not due again on the day it ran.
EsimAssumption ==
    /\ IsFiniteSet(Profiles) /\ Profiles # {} /\ None \notin Profiles
    /\ Interval \in Nat \ {0} /\ MaxDay \in Nat /\ Interval <= MaxDay
    /\ MaxShown \in Nat /\ MaxWeb \in Nat

VARIABLES
    installed,  \* profiles on the card
    enabled,    \* the profile the card enables
    iccids,     \* profiles whose list entry carries the ICCID
    modem,      \* "down", "at" (answers commands), "ready" (registered)
    live,       \* the profile of the current UICC session
    job,        \* the running job
    kaLast,     \* kaLastTime / lastRun of the task, in days
    day,        \* the clock
    cache,      \* s_esim_cache: the handles' generation and the list
    web,        \* operations of the user so far
    shown,      \* history: <<handle, profile>> of every list ever shown
    failed,     \* history: day of the last failed switching run, if recorded
    lost        \* history: an answer that changed the card was lost

vars == <<installed, enabled, iccids, modem, live, job, kaLast, day, cache, web,
          shown, failed, lost>>
cardVars == <<installed, enabled, iccids, live>>
webVars == <<cache, web, shown>>
dayVars == <<kaLast, day, failed>>

Handles == (1 .. MaxShown) \X (1 .. Cardinality(Profiles))
Operations == {"enable", "disable", "switch", "delete", "nickname", "refresh"}
Steps == {"prepare", "enable", "busy", "wait", "again", "act", "restore", "record",
          "webwait", "webend"}

\* EsimJobSwitch and the locals of the task that runs.
NoJob == [kind |-> "none", op |-> "none", step |-> "prepare", target |-> None,
          back |-> FALSE, switched |-> FALSE, original |-> None, undo |-> FALSE,
          retried |-> FALSE, ok |-> FALSE, began |-> None, trouble |-> FALSE,
          wanted |-> None]
Jobs == [kind : {"none", "cellular", "web"}, op : Operations \cup {"none"},
         step : Steps, target : Profiles \cup {None}, back : BOOLEAN,
         switched : BOOLEAN, original : Profiles \cup {None}, undo : BOOLEAN,
         retried : BOOLEAN, ok : BOOLEAN, began : Profiles \cup {None},
         trouble : BOOLEAN, wanted : Profiles \cup {None}]

TypeOK ==
    /\ installed \subseteq Profiles /\ enabled \in installed \cup {None}
    /\ iccids \subseteq Profiles /\ live \in Profiles \cup {None}
    /\ modem \in {"down", "at", "ready"}
    /\ job \in Jobs
    /\ kaLast \in 0 .. MaxDay /\ day \in 0 .. MaxDay
    /\ cache.gen \in 0 .. MaxShown /\ cache.list \in Seq(Profiles)
    /\ web \in 0 .. MaxWeb /\ shown \subseteq Handles \X Profiles
    /\ failed \in 0 .. MaxDay \cup {MaxDay + 1} /\ lost \in BOOLEAN

Init ==
    /\ installed = Profiles
    /\ enabled = CHOOSE p \in Profiles : TRUE    \* all alike at the start
    /\ live = enabled
    /\ iccids \in SUBSET Profiles
    /\ modem = "ready"
    /\ job = NoJob
    /\ kaLast = 0 /\ day = Interval
    /\ cache = [gen |-> 0, list |-> <<>>]
    /\ web = 0 /\ shown = {}
    /\ failed = MaxDay + 1 /\ lost = FALSE

Cellular == job.kind = "cellular"
At(step) == job.kind # "none" /\ job.step = step
Goto(step) == job' = [job EXCEPT !.step = step]

-----------------------------------------------------------------------------
(* The modem                                                               *)

\* idf_modem_request_reset: the registration is invalidated at once.
Reset == modem' = "down"

\* The owner task carries the reset out; the UICC starts a new session.
Boots ==
    /\ modem = "down"
    /\ modem' = "at" /\ live' = enabled /\ lost' = FALSE
    /\ UNCHANGED <<installed, enabled, iccids, job>> /\ UNCHANGED <<webVars, dayVars>>

Registers ==
    /\ modem = "at"
    /\ modem' = "ready"
    /\ UNCHANGED <<cardVars, job, lost>> /\ UNCHANGED <<webVars, dayVars>>

\* The operator removes a profile that is not in use from outside.
RemoteDelete(p) ==
    /\ p \in installed \ {enabled, live}
    /\ installed' = installed \ {p}
    /\ job' = [job EXCEPT !.trouble = @ \/ (Cellular /\ p = job.began)]
    /\ UNCHANGED <<enabled, iccids, live, modem, lost>> /\ UNCHANGED <<webVars, dayVars>>

Midnight ==
    /\ day < MaxDay /\ job.kind = "none"
    /\ day' = day + 1
    /\ UNCHANGED <<cardVars, modem, job, lost, kaLast, failed>> /\ UNCHANGED webVars

-----------------------------------------------------------------------------
(* A scheduled job                                                         *)

\* keepalive_due: a baseline in the future is not due.  Keepalive always
\* switches back; an advanced task may leave its profile active.
KeepaliveDue(last, now) == last <= now /\ now - last >= Interval

StartDue(target, back) ==
    /\ job.kind = "none" /\ KeepaliveDue(kaLast, day)
    /\ job' = [NoJob EXCEPT !.kind = "cellular", !.target = target, !.back = back,
                            !.began = enabled]
    /\ UNCHANGED <<cardVars, modem, lost>> /\ UNCHANGED <<webVars, dayVars>>

\* esim_prepare_profile: one list gives the original and the target.  An
\* enabled target needs no switch; one that the list lacks is tried directly.
ListFails ==
    /\ Cellular /\ At("prepare")
    /\ Goto("restore")
    /\ UNCHANGED <<cardVars, modem, lost>> /\ UNCHANGED <<webVars, dayVars>>

Prepare ==
    /\ Cellular /\ At("prepare") /\ modem # "down"
    /\ job' = [job EXCEPT !.original = IF enabled \in iccids THEN enabled ELSE None,
                          !.step = IF enabled = job.target THEN "act" ELSE "enable"]
    /\ UNCHANGED <<cardVars, modem, lost>> /\ UNCHANGED <<webVars, dayVars>>

\* Where a failed operation on the card leaves the job.
Unable == IF job.kind = "web" THEN "webend" ELSE IF job.undo THEN "record" ELSE "restore"
Fails == [job EXCEPT !.step = Unable, !.ok = @ /\ job.undo, !.trouble = Cellular]

\* profile_operation that the card confirmed, followed by the reset that puts
\* the modem on the new profile.
Confirmed ==
    job' = [job EXCEPT !.step = IF job.kind = "web" THEN "webwait" ELSE "wait",
                       !.switched = Cellular,
                       !.ok = IF job.kind = "web" THEN TRUE ELSE @]

Wish == IF job.op = "disable" THEN None ELSE job.target
\* The card's own conditions for enabling and disabling.
Possible == /\ job.target \in installed
            /\ (job.op = "disable") = (enabled = job.target)

EnableConfirmedLazily ==
    /\ At("enable") /\ modem # "down" /\ Possible
    /\ enabled' = Wish
    /\ Confirmed
    /\ IF job.retried THEN Reset /\ UNCHANGED lost ELSE UNCHANGED <<modem, lost>>
    /\ UNCHANGED <<installed, iccids, live>> /\ UNCHANGED <<webVars, dayVars>>

EnableConfirmed ==
    /\ At("enable") /\ modem # "down" /\ Possible
    /\ enabled' = Wish
    /\ Confirmed
    /\ Reset /\ UNCHANGED lost
    /\ UNCHANGED <<installed, iccids, live>> /\ UNCHANGED <<webVars, dayVars>>

EnableRefused ==
    /\ At("enable")
    /\ job' = Fails
    /\ UNCHANGED <<cardVars, modem, lost>> /\ UNCHANGED <<webVars, dayVars>>

\* The card switched and the answer was lost: the job sees a failure and asks
\* for no reset.
EnableLost ==
    /\ At("enable") /\ modem # "down" /\ Possible
    /\ enabled' = Wish /\ lost' = TRUE
    /\ job' = Fails
    /\ UNCHANGED <<installed, iccids, live, modem>> /\ UNCHANGED <<webVars, dayVars>>

\* catBusy: the modem is switched off and on once, then the command repeated.
EnableBusy ==
    /\ At("enable") /\ modem # "down" /\ ~job.retried
    /\ Goto("busy") /\ Reset
    /\ UNCHANGED <<cardVars, lost>> /\ UNCHANGED <<webVars, dayVars>>

Retry ==
    /\ At("busy") /\ modem # "down"
    /\ job' = [job EXCEPT !.step = "enable", !.retried = TRUE]
    /\ UNCHANGED <<cardVars, modem, lost>> /\ UNCHANGED <<webVars, dayVars>>

RetryTooLate ==
    /\ At("busy") /\ modem = "down"
    /\ job' = Fails
    /\ UNCHANGED <<cardVars, modem, lost>> /\ UNCHANGED <<webVars, dayVars>>

\* wait_registered_after_esim_switch: 90 s, another reset, 90 s.
Registered ==
    /\ job.kind # "none" /\ job.step \in {"wait", "again"} /\ modem = "ready"
    /\ Goto(IF job.undo THEN "record" ELSE "act")
    /\ UNCHANGED <<cardVars, modem, lost>> /\ UNCHANGED <<webVars, dayVars>>

WaitAgain ==
    /\ At("wait") /\ modem # "ready"
    /\ Goto("again") /\ Reset
    /\ UNCHANGED <<cardVars, lost>> /\ UNCHANGED <<webVars, dayVars>>

UnregisteredOnceMore ==
    /\ At("again") /\ modem # "ready"
    /\ Goto("wait")
    /\ UNCHANGED <<cardVars, modem, lost>> /\ UNCHANGED <<webVars, dayVars>>

Unregistered ==
    /\ At("again") /\ modem # "ready"
    /\ Goto(IF job.undo THEN "record" ELSE "restore")
    /\ UNCHANGED <<cardVars, modem, lost>> /\ UNCHANGED <<webVars, dayVars>>

\* The action of the job: SMS, USSD or data traffic, with its result.
Act ==
    /\ At("act")
    /\ \E ok \in BOOLEAN : job' = [job EXCEPT !.step = "restore", !.ok = ok]
    /\ UNCHANGED <<cardVars, modem, lost>> /\ UNCHANGED <<webVars, dayVars>>

\* esim_restore_profile, if the job switched (and is to switch back).
RestoreIfDone ==
    /\ At("restore")
    /\ job' = IF job.switched /\ job.back /\ job.ok /\ job.original # None
                THEN [job EXCEPT !.step = "enable", !.undo = TRUE, !.retried = FALSE,
                                 !.target = job.original]
                ELSE [job EXCEPT !.step = "record"]
    /\ UNCHANGED <<cardVars, modem, lost>> /\ UNCHANGED <<webVars, dayVars>>

Restore ==
    /\ At("restore")
    /\ job' = IF job.switched /\ job.back /\ job.original # None
                THEN [job EXCEPT !.step = "enable", !.undo = TRUE, !.retried = FALSE,
                                 !.target = job.original]
                ELSE [job EXCEPT !.step = "record"]
    /\ UNCHANGED <<cardVars, modem, lost>> /\ UNCHANGED <<webVars, dayVars>>

\* A success is recorded; a failure of a switching job is put off to the next
\* day.  The record is a configuration save that may fail.
BaselineHourly(ok) == IF ok THEN day ELSE kaLast
Baseline(ok) == IF ok THEN day
                ELSE IF Interval - 1 < day THEN day - (Interval - 1) ELSE day

Record ==
    /\ At("record")
    /\ \E saved \in BOOLEAN :
          /\ kaLast' = IF saved THEN Baseline(job.ok) ELSE kaLast
          /\ failed' = IF saved /\ ~job.ok THEN day ELSE MaxDay + 1
    /\ job' = NoJob
    /\ UNCHANGED <<cardVars, modem, lost, day>> /\ UNCHANGED webVars

-----------------------------------------------------------------------------
(* The user's operations                                                   *)

\* The list as the card gives it, and the publication of a new list: fresh
\* handles for every entry.
Listed == SetToSeq(installed)
Named(gen, list) == {<<<<gen, i>>, list[i]>> : i \in 1 .. Len(list)}
PublishAgain ==
    /\ cache' = [gen |-> 1, list |-> Listed]
    /\ shown' = shown \cup Named(1, Listed)
Publish ==
    /\ cache.gen < MaxShown
    /\ cache' = [gen |-> cache.gen + 1, list |-> Listed]
    /\ shown' = shown \cup Named(cache.gen + 1, Listed)

\* resolve_esim_handle: the handle must be one of the current list.
Resolves(h) == h[1] = cache.gen /\ h[2] \in DOMAIN cache.list

StartWeb(op, s) ==
    /\ job.kind = "none" /\ web < MaxWeb /\ op # "refresh"
    /\ Resolves(s[1])
    /\ job' = [NoJob EXCEPT !.kind = "web", !.op = op, !.wanted = s[2],
                            !.target = cache.list[s[1][2]]]
    /\ web' = web + 1
    /\ UNCHANGED <<cardVars, modem, lost, cache, shown>> /\ UNCHANGED dayVars

StartRefresh ==
    /\ job.kind = "none" /\ cache.gen < MaxShown
    /\ job' = [NoJob EXCEPT !.kind = "web", !.op = "refresh", !.step = "webend",
                            !.ok = TRUE]
    /\ UNCHANGED <<cardVars, modem, lost>> /\ UNCHANGED <<webVars, dayVars>>

\* The list is read again before the card is touched; "switch" of the enabled
\* profile changes nothing and still counts as a change of the card.
Reread ==
    /\ job.kind = "web" /\ At("prepare") /\ modem # "down"
    /\ job' = [job EXCEPT !.step =
                 IF job.target \notin installed THEN "webend"
                 ELSE IF job.op \in {"delete", "nickname"} THEN "act"
                 ELSE IF job.op = "switch" /\ enabled = job.target THEN "webwait"
                 ELSE "enable",
                 !.ok = job.op = "switch" /\ enabled = job.target]
    /\ UNCHANGED <<cardVars, modem, lost>> /\ UNCHANGED <<webVars, dayVars>>

RereadFails ==
    /\ job.kind = "web" /\ At("prepare")
    /\ Goto("webend")
    /\ UNCHANGED <<cardVars, modem, lost>> /\ UNCHANGED <<webVars, dayVars>>

\* delete_profile and set_profile_nickname: one command; the answer may be lost.
WebCommand(done, ok) ==
    /\ job.kind = "web" /\ At("act") /\ (ok => done)
    /\ done => modem # "down" /\ job.target \in installed
    /\ done /\ job.op = "delete" => job.target # enabled
    /\ installed' = IF done /\ job.op = "delete" THEN installed \ {job.target} ELSE installed
    /\ job' = [job EXCEPT !.step = "webend", !.ok = ok]
    /\ UNCHANGED <<enabled, iccids, live, modem, lost>> /\ UNCHANGED <<webVars, dayVars>>

\* After a change of the active profile the task waits for the modem and reads
\* the list; without it the old list is withdrawn and the job has failed.
WebSettled ==
    /\ At("webwait") /\ modem = "ready"
    /\ Publish /\ job' = NoJob
    /\ UNCHANGED <<cardVars, modem, lost, web>> /\ UNCHANGED dayVars

WebUnsettled ==
    /\ At("webwait")
    /\ cache' = [cache EXCEPT !.list = <<>>] /\ job' = NoJob
    /\ UNCHANGED <<cardVars, modem, lost, web, shown>> /\ UNCHANGED dayVars

\* Any other operation refreshes the list if it succeeded and the card answers.
WebEnd ==
    /\ At("webend")
    /\ \/ job.ok /\ modem # "down" /\ Publish
       \/ UNCHANGED <<cache, shown>>
    /\ job' = NoJob
    /\ UNCHANGED <<cardVars, modem, lost, web>> /\ UNCHANGED dayVars

-----------------------------------------------------------------------------
JobStep ==
    \/ ListFails \/ Prepare
    \/ EnableConfirmed \/ EnableRefused \/ EnableLost \/ EnableBusy
    \/ Retry \/ RetryTooLate
    \/ Registered \/ WaitAgain \/ Unregistered
    \/ (Cellular /\ Act) \/ Restore \/ Record
    \/ Reread \/ RereadFails
    \/ \E done, ok \in BOOLEAN : WebCommand(done, ok)
    \/ WebSettled \/ WebUnsettled \/ WebEnd

Next ==
    \/ JobStep
    \/ Boots \/ Registers \/ Midnight
    \/ \E p \in Profiles : RemoteDelete(p)
    \/ \E target \in Profiles, back \in BOOLEAN : StartDue(target, back)
    \/ \E op \in Operations, s \in shown : StartWeb(op, s)
    \/ StartRefresh

\* The owner task of the modem and the task of the job are scheduled fairly; a
\* network to register on may be missing for ever.
Spec == Init /\ [][Next]_vars /\ WF_vars(JobStep) /\ WF_vars(Boots)

-----------------------------------------------------------------------------
(* Properties                                                              *)

\* A job that is to switch back leaves the card on the profile it found,
\* unless the card refused, the answer of a switch was lost, the original was
\* removed from outside or the card does not name it (esim_restore_profile).
\* That the network was not found or the action failed is no excuse.
Restores ==
    Cellular /\ job.back /\ job'.kind = "none"
        => enabled = job.began \/ job.trouble \/ job.began \notin iccids
OriginalRestored == [][Restores]_vars

\* The modem never runs registered on a profile the card has left, but for a
\* switch whose answer was lost: every confirmed switch resets the modem, so
\* the job's action uses the profile it was meant for (keepalive_task).
RunsOnEnabled == modem = "ready" /\ ~lost => live = enabled
ActsOnTarget == Cellular /\ At("act") /\ modem = "ready" /\ ~lost => live = job.target

\* The card is asked to act on no other profile than the one the user saw
\* under the handle he chose, whatever lists came and went (resolve_esim_handle).
ActsOnShown == job.kind = "web" => job.target = job.wanted

\* All three: whatever fails on the way, jobs and users act on the profiles that
\* they mean.
SwitchTrue == TypeOK /\ RunsOnEnabled /\ ActsOnTarget /\ ActsOnShown

\* A failed switching job is not started again on the day its failure was
\* recorded: no hourly switching of cards (keepalive_task).
PutsOff == job.kind = "none" /\ job'.kind = "cellular" => day # failed
PutOffADay == [][PutsOff]_vars

Busy == job.kind # "none"

\* Every job ends, whatever the card and the network answer.
JobsEnd == Busy ~> ~Busy
=============================================================================
