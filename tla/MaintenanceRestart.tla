------------------------- MODULE MaintenanceRestart -------------------------
(***************************************************************************)
(* The unattended restart of components/idf_web/idf_web.cpp over the       *)
(* forwarding queues.  scheduler_task asks system_idle_for_maintenance,    *)
(* claims s_device_restart_pending, asks again, waits 300 ms and restarts. *)
(* The question reads s_busy and then the depth of one queue after the     *)
(* other, each under a hold of s_mutex of its own.  The push worker has    *)
(* the higher priority, so it may run between any two of these reads.  A   *)
(* restart loses what is queued or in the worker's hand: it is all in RAM. *)
(***************************************************************************)
EXTENDS PushQueue, Sequences

VARIABLES
    owner,  \* who set s_device_restart_pending
    pass,   \* 0: not asking; 1 and 2: before and after the claim; 3: restarts
    done,   \* how many reads of this pass found nothing
    queued  \* history: the forwards that waited when this pass began

mvars == <<owner, pass, done, queued>>
allvars == <<vars, mvars>>

\* The reads of system_idle_for_maintenance that are about the queues, in the
\* order of the code.
Reads == <<"busy", "forward depth", "retry depth", "email depth">>

MTypeOK ==
    /\ TypeOK
    /\ owner \in {"none", "scheduler", "web"}
    /\ pass \in 0 .. 3
    /\ done \in 0 .. Len(Reads)
    /\ queued \subseteq Items

\* What the read finds is empty.
Quiet(r) ==
    CASE r = "busy"          -> Idle
      [] r = "forward depth" -> \A s \in FwdSlots : fwd[s] = None
      [] r = "retry depth"   -> \A s \in PushSlots : legs[s] = None
      [] r = "email depth"   -> \A s \in EmailSlots : legs[s] = None

MInit ==
    /\ Init
    /\ owner = "none"
    /\ pass = 0
    /\ done = 0
    /\ queued = {}

Waiting == {i \in Items : \E s \in FwdSlots : fwd[s] = i}

\* A restart is due (low heap, daily restart) and none is pending.
Ask ==
    /\ pass = 0
    /\ owner = "none"
    /\ pass' = 1
    /\ queued' = Waiting
    /\ UNCHANGED <<vars, owner, done>>

Read ==
    /\ pass \in {1, 2}
    /\ done < Len(Reads)
    /\ Quiet(Reads[done + 1])
    /\ done' = done + 1
    /\ UNCHANGED <<vars, owner, pass, queued>>

\* This read, or one of an OTA, an API job or the modem, says busy.  The
\* scheduler gives its claim up and asks again at a later tick.
GiveUp ==
    /\ pass \in {1, 2}
    /\ pass' = 0
    /\ done' = 0
    /\ owner' = IF pass = 2 THEN "none" ELSE owner
    /\ queued' = {}
    /\ UNCHANGED vars

\* compare_exchange_strong on s_device_restart_pending
Claim ==
    /\ pass = 1
    /\ done = Len(Reads)
    /\ owner = "none"
    /\ owner' = "scheduler"
    /\ pass' = 2
    /\ done' = 0
    /\ queued' = Waiting
    /\ UNCHANGED vars

\* The second pass found the system idle as well.
Decide ==
    /\ pass = 2
    /\ done = Len(Reads)
    /\ pass' = 3
    /\ UNCHANGED <<vars, owner, done, queued>>

\* claim_restart_owner from a web handler, and release_restart_owner when the
\* handler's own operation fails.
WebClaim ==
    /\ owner = "none"
    /\ owner' = "web"
    /\ UNCHANGED <<vars, pass, done, queued>>

WebRelease ==
    /\ owner = "web"
    /\ owner' = "none"
    /\ UNCHANGED <<vars, pass, done, queued>>

\* The other tasks go on while the scheduler asks, and until the restart.
Others == Next /\ UNCHANGED mvars

MNext == Ask \/ Read \/ GiveUp \/ Claim \/ Decide \/ WebClaim \/ WebRelease \/ Others

MSpec == MInit /\ [][MNext]_allvars

-----------------------------------------------------------------------------
\* The comment in process_forward_one: "busy covers the window between dequeue
\* and enqueue so a maintenance restart cannot lose an in-flight SMS".  A
\* forward that waited in its queue when the scheduler began to ask is not in
\* the worker's hand when the restart is decided.
RestartKeepsInFlight ==
    [][pass # 3 /\ pass' = 3 => handFwd \notin queued]_allvars
=============================================================================
