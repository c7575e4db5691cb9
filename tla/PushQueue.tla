----------------------------- MODULE PushQueue -----------------------------
(***************************************************************************)
(* The forwarding queues of components/idf_push/idf_push.cpp.  A received  *)
(* SMS waits in s_forward_jobs; the single push worker pops it and fans it *)
(* out, under one hold of s_mutex, into one leg per destination: a slot of *)
(* s_push_jobs per channel and one slot of s_email_jobs.  A completion     *)
(* record counts the legs that are still to succeed; when the last one     *)
(* does, the inbox item is marked as forwarded.                            *)
(*                                                                         *)
(* One action is one critical section of the worker, or one call of        *)
(* another task.  What the worker has popped and not yet put anywhere is   *)
(* in handFwd or handLeg: s_busy is true exactly then.  Configuration,     *)
(* rules, back-off and cool-down times are read afresh at every step, so   *)
(* the model leaves what they say open at every step.                      *)
(***************************************************************************)
EXTENDS Integers, FiniteSets

CONSTANTS
    Items,        \* inbox ids
    Channels,     \* push channels, IDF_MAX_PUSH_CHANNELS
    Email,        \* the email destination
    None,         \* an unused slot, an empty hand, a job with no inbox id
    FwdSlots,     \* slots of s_forward_jobs
    PushSlots,    \* slots of s_push_jobs
    EmailSlots,   \* slots of s_email_jobs
    CompSlots,    \* slots of s_forward_completions
    RetryMax,     \* PUSH_RETRY_MAX
    MaxForwards,  \* bound: forwards queued in one behaviour
    MaxNotices    \* bound: notices and mails of our own in one behaviour

Targets  == Channels \cup {Email}
LegSlots == PushSlots \cup EmailSlots

Leg        == [target : Targets, attempts : 0 .. RetryMax - 1,
               item : Items \cup {None}, comp : Nat]
Completion == [id : Nat \ {0}, item : Items, remaining : Nat \ {0}]

ASSUME DistinctValues ==
    /\ Email \notin Channels
    /\ None \notin Items \cup Leg \cup Completion \cup LegSlots
    /\ PushSlots \cap EmailSlots = {}

ASSUME Capacities ==
    /\ IsFiniteSet(Channels)
    /\ IsFiniteSet(LegSlots)
    /\ IsFiniteSet(CompSlots)
    /\ Cardinality(CompSlots) = Cardinality(LegSlots)
    /\ RetryMax \in Nat \ {0}
    /\ MaxForwards \in Nat
    /\ MaxNotices \in Nat

VARIABLES
    inbox,     \* what the web inbox shows of each item
    fwd,       \* s_forward_jobs
    legs,      \* s_push_jobs and s_email_jobs
    comps,     \* s_forward_completions
    lastComp,  \* s_next_completion_id
    handFwd,   \* the forward job in process_forward_one
    handLeg,   \* the job in process_push_one or process_email_one
    wifi,      \* idf_wifi_get_status().staConnected
    fan,       \* history: per completion id, the destinations wanted and reached
    dropped,   \* history: items a forwarding rule discarded
    forwards,  \* calls of idf_push_enqueue_forward that were accepted
    notices    \* calls of idf_push_enqueue_notify and idf_push_enqueue_email

vars == <<inbox, fwd, legs, comps, lastComp, handFwd, handLeg, wifi,
          fan, dropped, forwards, notices>>

FanOutRecord == [item : Items, want : SUBSET Targets, sent : SUBSET Targets]

TypeOK ==
    /\ inbox \in [Items -> {"absent", "unsent", "forwarded", "deleted"}]
    /\ fwd \in [FwdSlots -> Items \cup {None}]
    /\ legs \in [LegSlots -> Leg \cup {None}]
    /\ comps \in [CompSlots -> Completion \cup {None}]
    /\ lastComp \in Nat
    /\ handFwd \in Items \cup {None}
    /\ handLeg \in Leg \cup {None}
    /\ wifi \in BOOLEAN
    /\ fan \in [1 .. lastComp -> FanOutRecord]
    /\ dropped \subseteq Items
    /\ forwards \in 0 .. MaxForwards
    /\ notices \in 0 .. MaxNotices

Init ==
    /\ inbox = [i \in Items |-> "absent"]
    /\ fwd = [s \in FwdSlots |-> None]
    /\ legs = [s \in LegSlots |-> None]
    /\ comps = [k \in CompSlots |-> None]
    /\ lastComp = 0
    /\ handFwd = None
    /\ handLeg = None
    /\ wifi \in BOOLEAN
    /\ fan = [c \in {} |-> None]
    /\ dropped = {}
    /\ forwards = 0
    /\ notices = 0

-----------------------------------------------------------------------------
Idle == handFwd = None /\ handLeg = None

Shown(i) == inbox[i] \in {"unsent", "forwarded"}

\* idf_inbox_set_forwarded: an item that is gone is left alone.
SetForwarded(S, state) ==
    [i \in Items |-> IF i \in S /\ Shown(i) THEN state ELSE inbox[i]]

FreeIn(S) == {s \in S : legs[s] = None}

SlotsOf(t) == IF t = Email THEN EmailSlots ELSE PushSlots

\* push_queue_free_locked and email_queue_depth_locked: every destination of
\* the forward must find room before any is queued.
Fits(T) ==
    /\ Cardinality(T \cap Channels) <= Cardinality(FreeIn(PushSlots))
    /\ Email \in T => FreeIn(EmailSlots) # {}

\* The ways the enqueue loop can spread destinations T over free slots.
Placements(T) ==
    {f \in [T -> FreeIn(LegSlots)] :
        /\ \A t \in T : f[t] \in SlotsOf(t)
        /\ \A t, u \in T : f[t] = f[u] => t = u}

NewLeg(t, i, c) == [target |-> t, attempts |-> 0, item |-> i, comp |-> c]

Placed(f, i, c) ==
    [s \in LegSlots |-> IF \E t \in DOMAIN f : f[t] = s
                        THEN NewLeg(CHOOSE t \in DOMAIN f : f[t] = s, i, c)
                        ELSE legs[s]]

\* Mutant of Cancelled: a given-up leg leaves its completion record behind.
CancelledNone(C) == comps

\* cancel_forward_completion_locked, for the completion ids in C.
Cancelled(C) ==
    [k \in CompSlots |-> IF comps[k] # None /\ comps[k].id \in C
                         THEN None ELSE comps[k]]

UsedIn(S) == {s \in S : legs[s] # None}

\* Mutant of Emptied: the job is copied out and its slot stays in use.
EmptiedNone(S) == legs

\* The leg slots after the jobs in S were taken out.
Emptied(S) == [s \in LegSlots |-> IF s \in S THEN None ELSE legs[s]]

\* Mutant of Exhausted: one attempt too many.
ExhaustedLate(leg) == leg.attempts + 1 > RetryMax

Exhausted(leg) == leg.attempts + 1 >= RetryMax

\* Mutant of Retried: the attempt is not counted.
RetriedUncounted(leg) == leg

Retried(leg) == [leg EXCEPT !.attempts = @ + 1]

-----------------------------------------------------------------------------
(* The tasks around the worker. *)

\* idf_inbox_add, called by the SMS task.
Receive(i) ==
    /\ inbox[i] = "absent"
    /\ inbox' = [inbox EXCEPT ![i] = "unsent"]
    /\ UNCHANGED <<fwd, legs, comps, lastComp, handFwd, handLeg, wifi, fan,
                   dropped, forwards, notices>>

\* idf_push_enqueue_forward: the SMS task's admission of a new item, or the
\* web page's manual resend of one it shows.
EnqueueForward(i, s) ==
    /\ Shown(i)
    /\ fwd[s] = None
    /\ forwards < MaxForwards
    /\ fwd' = [fwd EXCEPT ![s] = i]
    /\ forwards' = forwards + 1
    /\ UNCHANGED <<inbox, legs, comps, lastComp, handFwd, handLeg, wifi, fan,
                   dropped, notices>>

\* idf_inbox_delete, or the ring overwriting the entry.
Delete(i) ==
    /\ Shown(i)
    /\ inbox' = [inbox EXCEPT ![i] = "deleted"]
    /\ UNCHANGED <<fwd, legs, comps, lastComp, handFwd, handLeg, wifi, fan,
                   dropped, forwards, notices>>

\* idf_push_enqueue_notify: as many of the valid channels T as find a slot.
EnqueueNotify(T) ==
    /\ notices < MaxNotices
    /\ Cardinality(T) <= Cardinality(FreeIn(PushSlots))
    /\ \E f \in Placements(T) : legs' = Placed(f, None, 0)
    /\ notices' = notices + 1
    /\ UNCHANGED <<inbox, fwd, comps, lastComp, handFwd, handLeg, wifi, fan,
                   dropped, forwards>>

\* idf_push_enqueue_email, also what the startup notification calls.
EnqueueEmail(s) ==
    /\ notices < MaxNotices
    /\ legs[s] = None
    /\ legs' = [legs EXCEPT ![s] = NewLeg(Email, None, 0)]
    /\ notices' = notices + 1
    /\ UNCHANGED <<inbox, fwd, comps, lastComp, handFwd, handLeg, wifi, fan,
                   dropped, forwards>>

WifiUp ==
    /\ ~wifi
    /\ wifi' = TRUE
    /\ UNCHANGED <<inbox, fwd, legs, comps, lastComp, handFwd, handLeg, fan,
                   dropped, forwards, notices>>

WifiDown ==
    /\ wifi
    /\ wifi' = FALSE
    /\ UNCHANGED <<inbox, fwd, legs, comps, lastComp, handFwd, handLeg, fan,
                   dropped, forwards, notices>>

-----------------------------------------------------------------------------
(* process_forward_one *)

\* pop_forward_job: any job whose nextUs has passed.
PopForward(s) ==
    /\ Idle
    /\ fwd[s] # None
    /\ handFwd' = fwd[s]
    /\ fwd' = [fwd EXCEPT ![s] = None]
    /\ UNCHANGED <<inbox, legs, comps, lastComp, handLeg, wifi, fan, dropped,
                   forwards, notices>>

\* A forwarding rule discards the message: it counts as forwarded.
DropByRule ==
    /\ handFwd # None
    /\ inbox' = SetForwarded({handFwd}, "forwarded")
    /\ dropped' = dropped \cup {handFwd}
    /\ handFwd' = None
    /\ UNCHANGED <<fwd, legs, comps, lastComp, handLeg, wifi, fan, forwards,
                   notices>>

\* Rules and configuration select no destination: the job just ends.
NoDestination ==
    /\ handFwd # None
    /\ handFwd' = None
    /\ UNCHANGED <<inbox, fwd, legs, comps, lastComp, handLeg, wifi, fan,
                   dropped, forwards, notices>>

\* Every destination in T fits: register the completion and queue the legs.
FanOut(T, k) ==
    /\ handFwd # None
    /\ T # {}
    /\ Fits(T)
    /\ comps[k] = None
    /\ lastComp' = lastComp + 1
    /\ comps' = [comps EXCEPT ![k] = [id |-> lastComp + 1, item |-> handFwd,
                                      remaining |-> Cardinality(T)]]
    /\ \E f \in Placements(T) : legs' = Placed(f, handFwd, lastComp + 1)
    /\ fan' = [c \in 1 .. lastComp + 1 |->
                 IF c \in DOMAIN fan THEN fan[c]
                 ELSE [item |-> handFwd, want |-> T, sent |-> {}]]
    /\ handFwd' = None
    /\ UNCHANGED <<inbox, fwd, handLeg, wifi, dropped, forwards, notices>>

\* Enqueueing failed: nothing was queued, and requeue_forward_later puts the
\* job back without counting an attempt, or loses it to a queue that has
\* filled up meanwhile ("remains not forwarded for manual resend").
RequeueForward(T) ==
    /\ handFwd # None
    /\ T # {}
    /\ ~Fits(T) \/ \A k \in CompSlots : comps[k] # None
    /\ \/ \E s \in FwdSlots : /\ fwd[s] = None
                              /\ fwd' = [fwd EXCEPT ![s] = handFwd]
       \/ /\ \A s \in FwdSlots : fwd[s] # None
          /\ UNCHANGED fwd
    /\ handFwd' = None
    /\ UNCHANGED <<inbox, legs, comps, lastComp, handLeg, wifi, fan, dropped,
                   forwards, notices>>

-----------------------------------------------------------------------------
(* process_push_one and process_email_one *)

Pop(s) ==
    /\ Idle
    /\ legs[s] # None
    /\ handLeg' = legs[s]
    /\ legs' = Emptied({s})
    /\ UNCHANGED <<inbox, fwd, comps, lastComp, handFwd, wifi, fan, dropped,
                   forwards, notices>>

PopPush(s)  == s \in PushSlots /\ Pop(s)
PopEmail(s) == s \in EmailSlots /\ wifi /\ Pop(s)

\* note_forward_target_success: one leg fewer to wait for; the last one marks
\* the inbox item.
Counted(c) ==
    [k \in CompSlots |->
        IF comps[k] = None \/ comps[k].id # c THEN comps[k]
        ELSE IF comps[k].remaining = 1 THEN None
        ELSE [comps[k] EXCEPT !.remaining = @ - 1]]

\* Mutant of CompletedItems: the first success already marks the item.
CompletedItemsEarly(c) ==
    {comps[k].item : k \in {j \in CompSlots : comps[j] # None /\ comps[j].id = c}}

CompletedItems(c) ==
    {comps[k].item : k \in {j \in CompSlots : /\ comps[j] # None
                                              /\ comps[j].id = c
                                              /\ comps[j].remaining = 1}}

LegSucceeds ==
    /\ handLeg # None
    /\ comps' = Counted(handLeg.comp)
    /\ inbox' = SetForwarded(CompletedItems(handLeg.comp), "forwarded")
    /\ fan' = [c \in DOMAIN fan |->
                 IF c = handLeg.comp
                 THEN [fan[c] EXCEPT !.sent = @ \cup {handLeg.target}]
                 ELSE fan[c]]
    /\ handLeg' = None
    /\ UNCHANGED <<fwd, legs, lastComp, handFwd, wifi, dropped, forwards,
                   notices>>

\* fail_push_job_without_retry, retries exhausted, or no room for the retry:
\* the completion is cancelled and the item shown as not forwarded.
LegFails ==
    /\ handLeg # None
    /\ \/ handLeg.target # Email      \* unsupported network, permanent failure
       \/ Exhausted(handLeg)
       \/ FreeIn(SlotsOf(handLeg.target)) = {}
    /\ comps' = Cancelled({handLeg.comp})
    /\ inbox' = SetForwarded({handLeg.item}, "unsent")
    /\ handLeg' = None
    /\ UNCHANGED <<fwd, legs, lastComp, handFwd, wifi, fan, dropped, forwards,
                   notices>>

\* The channel was disabled or became invalid after the leg was queued.
LegDiscarded ==
    /\ handLeg # None
    /\ handLeg.target # Email
    /\ comps' = Cancelled({handLeg.comp})
    /\ handLeg' = None
    /\ UNCHANGED <<inbox, fwd, legs, lastComp, handFwd, wifi, fan, dropped,
                   forwards, notices>>

LegRetries(s) ==
    /\ handLeg # None
    /\ ~Exhausted(handLeg)
    /\ s \in SlotsOf(handLeg.target)
    /\ legs[s] = None
    /\ legs' = [legs EXCEPT ![s] = Retried(handLeg)]
    /\ handLeg' = None
    /\ UNCHANGED <<inbox, fwd, comps, lastComp, handFwd, wifi, fan, dropped,
                   forwards, notices>>

\* purge_push_jobs_disabled
PurgePush ==
    LET gone == UsedIn(PushSlots) IN
    /\ Idle
    /\ gone # {}
    /\ legs' = Emptied(gone)
    /\ comps' = Cancelled({legs[s].comp : s \in gone})
    /\ inbox' = SetForwarded({legs[s].item : s \in gone}, "unsent")
    /\ UNCHANGED <<fwd, lastComp, handFwd, handLeg, wifi, fan, dropped,
                   forwards, notices>>

\* process_email_one with email disabled: the items keep their mark.
PurgeEmail ==
    LET gone == UsedIn(EmailSlots) IN
    /\ Idle
    /\ wifi
    /\ gone # {}
    /\ legs' = Emptied(gone)
    /\ comps' = Cancelled({legs[s].comp : s \in gone})
    /\ UNCHANGED <<inbox, fwd, lastComp, handFwd, handLeg, wifi, fan, dropped,
                   forwards, notices>>

-----------------------------------------------------------------------------
FinishForward ==
    \/ DropByRule
    \/ NoDestination
    \/ \E T \in SUBSET Targets :
         \/ \E k \in CompSlots : FanOut(T, k)
         \/ RequeueForward(T)

FinishLeg ==
    \/ LegSucceeds
    \/ LegFails
    \/ LegDiscarded
    \/ \E s \in LegSlots : LegRetries(s)

Worker ==
    \/ \E s \in FwdSlots : PopForward(s)
    \/ \E s \in LegSlots : PopPush(s) \/ PopEmail(s)
    \/ FinishForward
    \/ FinishLeg
    \/ PurgePush
    \/ PurgeEmail

Environment ==
    \/ \E i \in Items : \/ Receive(i)
                        \/ \E s \in FwdSlots : EnqueueForward(i, s)
                        \/ Delete(i)
    \/ \E T \in SUBSET Channels : EnqueueNotify(T)
    \/ \E s \in EmailSlots : EnqueueEmail(s)
    \/ WifiUp
    \/ WifiDown

Next == Worker \/ Environment

Spec == Init /\ [][Next]_vars

\* The worker never stops.  A forward put back waits 20 s or more, so the
\* worker gets round to every leg, and a leg's back-off and its channel's
\* cool-down end.  Email is sent over WiFi only, so the access point must come
\* back and stay long enough for the worker to see it: in the end, for good.
WifiStays == wifi
Fairness ==
    /\ WF_vars(FinishForward)
    /\ WF_vars(FinishLeg)
    /\ \A s \in FwdSlots : SF_vars(PopForward(s))
    /\ \A s \in LegSlots : SF_vars(PopPush(s)) /\ SF_vars(PopEmail(s))
    /\ <>[]WifiStays

FairSpec == Spec /\ Fairness

-----------------------------------------------------------------------------
\* Where a leg can be: a slot, or the worker's hand (written None).
Places == LegSlots \cup {None}
Job(p) == IF p = None THEN handLeg ELSE legs[p]

\* A leg of completion c for destination t still exists.
LegFor(c, t) ==
    \E p \in Places : Job(p) # None /\ Job(p).comp = c /\ Job(p).target = t

\* The destinations that completion c has still to reach.
Left(c) == fan[c].want \ fan[c].sent

\* Record r counts what is left, and each of it still has its leg.
Exact(r) ==
    /\ r.id \in 1 .. lastComp
    /\ r.item = fan[r.id].item
    /\ \A t \in Targets : LegFor(r.id, t) <=> t \in Left(r.id)
    /\ r.remaining = Cardinality(Left(r.id))

\* Every completion record is exact: no counter waits for a leg that is gone,
\* and none runs out while a leg is still to come
\* (register_forward_completion_locked .. cancel_forward_completion).
CompletionAccounting ==
    \A k \in CompSlots : comps[k] # None => Exact(comps[k])

\* The inbox shows an item as forwarded only if some fan-out of that item
\* reached every destination it wanted, or a rule discarded the item: legs of
\* two fan-outs of one item (a manual resend while the first is still being
\* retried) never add up to a mark.
ForwardedMeansDelivered ==
    \A i \in Items :
        inbox[i] = "forwarded" =>
            \/ i \in dropped
            \/ \E c \in 1 .. lastComp : /\ fan[c].item = i
                                        /\ fan[c].sent = fan[c].want

\* A destination that was reached is not sent to a second time by the same
\* fan-out: every leg alive is for a destination still to be reached, and no
\* two legs are for the same one.
NoSecondSend ==
    \A p \in Places :
        Job(p) # None /\ Job(p).comp # 0 =>
            /\ Job(p).target \in Left(Job(p).comp)
            /\ \A q \in Places \ {p} :
                 Job(q) # None /\ Job(q).comp = Job(p).comp
                    => Job(q).target # Job(p).target

\* A forward whose legs fit always finds a completion record: the branch of
\* process_forward_one that fails for want of one cannot be reached, so a
\* cancelled fan-out never leaks its record.
RecordsSuffice ==
    handFwd # None /\ FreeIn(LegSlots) # {}
        => \E k \in CompSlots : comps[k] = None

Drained ==
    /\ Idle
    /\ \A s \in FwdSlots : fwd[s] = None
    /\ \A s \in LegSlots : legs[s] = None

\* Every forward and every leg leaves the queues in the end: retries are
\* bounded, and a forward that found its queues full is not put back forever.
QueuesDrain == <>[]Drained
=============================================================================
