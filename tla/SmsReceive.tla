----------------------------- MODULE SmsReceive -----------------------------
(***************************************************************************)
(* Reception in components/idf_sms/idf_sms.cpp.  The network offers a      *)
(* segment directly (+CMT, acknowledged with +CNMA) or the modem stores it *)
(* on the SIM (+CMTI, read with CMGR or CMGL, removed with CMGD).  sms_task*)
(* gathers the segments of a multipart message in the slots s_concat and   *)
(* admits a complete message, or what there is of one when it times out or *)
(* its slot is wanted, to the forwarding queue.  A direct message that     *)
(* finds that queue full may wait in RAM (s_pending_forwards).             *)
(*                                                                         *)
(* All of it runs in sms_task, so one action is one line, record, slot or  *)
(* retry that the task handles; a listing of the SIM is handled record by  *)
(* record.  When the task reads the SIM (+CMTI indices, s_backfill_pending,*)
(* the polling interval) is left open: it may at any time.  Timestamps are *)
(* left open as well, but the order in which slots were touched is kept.   *)
(***************************************************************************)
EXTENDS Integers, SequencesExt

CONSTANTS
    Messages,    \* messages sent to the device
    Refs,        \* concatenation reference, sender and segment count
    Ref,         \* Ref[m]: the one message m uses; two messages may share one
    Total,       \* Total[r]: segment count
    Corrupt,     \* messages whose PDU cannot be decoded
    Verdicts,    \* among "blocked", "queued" and "full"
    Unsent,      \* segments that never come
    None,
    SlotMax,     \* CONCAT_SLOTS
    DoneMax,     \* entries of s_concat_done
    SeenMax,     \* SEEN_RING_MAX
    PendingMax,  \* PENDING_FORWARD_MAX
    Batch,       \* BATCH_MAX
    StallMax,    \* passes without progress before a record is removed
    IndexMax,    \* INDEX_QUEUE_MAX
    SimSize,     \* records the SIM holds
    Window,      \* records that fit in an 8 KB response
    MaxRestarts, \* bound
    MaxAged      \* bound: entries of s_concat_done that outlive their ten minutes

Segments == UNION {{<<m, p>> : p \in 1 .. Total[Ref[m]]} : m \in Messages}
RefOf(s)   == Ref[s[1]]
TotalOf(s) == Total[RefOf(s)]
Decodes(s) == s[1] \notin Corrupt

\* What makes a text: the segments it was put together from, and the one that
\* came first, whose timestamp it carries.
Parts == (SUBSET Segments) \ {{}}
Text  == [parts : Parts, first : Segments]

Slot == [ref : Refs, parts : Parts, first : Segments, delivered : Nat,
         partial : BOOLEAN]
Entry == [idx : 1 .. SimSize, form : {"pdu", "cut", "headless"}]
Pass == [list : SUBSET Entry, handled : 0 .. Batch, admissions : 0 .. Batch,
         headless : SUBSET (1 .. SimSize), bad : SUBSET (1 .. SimSize),
         cut : SUBSET (1 .. SimSize)]

\* What the constants are.
Shape ==
    /\ Ref \in [Messages -> Refs]
    /\ Total \in [Refs -> Nat \ {0}]
    /\ Corrupt \subseteq Messages
    /\ Unsent \subseteq Segments
    /\ Verdicts \subseteq {"blocked", "queued", "full"}
    /\ None \notin Segments \cup Pass

Bounds ==
    /\ {SlotMax, DoneMax, SeenMax, Batch, StallMax} \subseteq Nat \ {0}
    /\ {PendingMax, IndexMax, SimSize, Window, MaxRestarts, MaxAged} \subseteq Nat

ASSUME ReceptionAssumption == Shape /\ Bounds

VARIABLES
    net,       \* segments the network still offers
    sim,       \* the SIM's records
    index,     \* s_index_queue
    open,      \* the active slots of s_concat, least recently touched first
    done,      \* s_concat_done, oldest first
    seen,      \* s_seen, oldest first
    pending,   \* s_pending_forwards
    pass,      \* the listing that backfill_stored_sms works through
    stall,     \* s_nopdu_stall_rounds and s_decode_stall_rounds
    idle,      \* history: passes in a row that deleted nothing they read, to StallMax
    abandoned, \* history: segments whose records were removed for corrupt ones
    accepted,  \* history: parts of texts admitted to the forwarding queue or to RAM
    again,     \* history: those of texts admitted a second time
    ignored,   \* history: segments in texts of a blocked sender
    forgotten, \* history: segments that left s_concat_done
    acked,     \* history: segments acknowledged to the network
    restarts,
    aged

ram   == <<open, done, seen, pending>>
fate  == <<accepted, again, ignored, forgotten>>
outer == <<net, sim, index, acked>>
rounds == <<stall, idle, abandoned>>
bound == <<restarts, aged>>
vars  == <<ram, fate, outer, pass, rounds, bound>>

NoStall == [headless |-> 0, bad |-> 0]

TypeOK ==
    /\ net \subseteq Segments
    /\ sim \in [1 .. SimSize -> Segments \cup {None}]
    /\ index \in Seq(1 .. SimSize) /\ Len(index) <= IndexMax
    /\ open \in Seq(Slot) /\ Len(open) <= SlotMax
    /\ done \in Seq(Parts) /\ Len(done) <= DoneMax
    /\ seen \in Seq(Text) /\ Len(seen) <= SeenMax
    /\ pending \in Seq(Text) /\ Len(pending) <= PendingMax
    /\ pass \in Pass \cup {None}
    /\ stall \in [headless : 0 .. StallMax, bad : 0 .. StallMax]
    /\ idle \in 0 .. StallMax
    /\ {accepted, again} \subseteq SUBSET Parts
    /\ {acked, ignored, forgotten, abandoned} \subseteq SUBSET Segments
    /\ restarts \in 0 .. MaxRestarts
    /\ aged \in 0 .. MaxAged

\* The device starts with nothing in RAM; the SIM may hold records.
Boot(offered, stored) ==
    /\ net = offered
    /\ sim = stored
    /\ index = <<>> /\ open = <<>> /\ done = <<>> /\ seen = <<>> /\ pending = <<>>
    /\ pass = None
    /\ stall = NoStall /\ idle = 0 /\ abandoned = {}
    /\ accepted = {} /\ again = {} /\ ignored = {} /\ forgotten = {} /\ acked = {}
    /\ restarts = 0
    /\ aged = 0

Init == Boot(Segments \ Unsent, [i \in 1 .. SimSize |-> None])

-----------------------------------------------------------------------------
(* process_sms_content: what becomes of a text.  The verdict is what the   *)
(* blacklist and idf_push_enqueue_forward say of it.                       *)

\* The n newest elements of s: a ring that overwrites its oldest.
Newest(s, n) == IF Len(s) <= n THEN s ELSE SubSeq(s, Len(s) - n + 1, Len(s))

Unchanged ==
    [seen |-> seen, pending |-> pending, accepted |-> accepted, again |-> again,
     ignored |-> ignored, retained |-> TRUE, admitted |-> FALSE]

\* Mutant of Remembered: an admitted text is not entered in s_seen.
RememberedNot(c) == seen

\* remember_seen
Remembered(c) == Newest(Append(seen, c), SeenMax)

Admit(c, waiting) ==
    [Unchanged EXCEPT !.seen = Remembered(c), !.pending = waiting,
                      !.accepted = @ \cup {c.parts},
                      !.again = @ \cup ({c.parts} \cap accepted),
                      !.admitted = TRUE]

\* Mutant of Process: a text that nobody has room for counts as retained.
ProcessCareless(c, ramRetry, v) ==
    CASE v = "blocked"           -> [Unchanged EXCEPT !.ignored = @ \cup c.parts]
      [] v # "blocked" /\ Contains(seen, c) -> Unchanged
      [] v = "queued" /\ ~Contains(seen, c) -> Admit(c, pending)
      [] OTHER -> IF ramRetry /\ Len(pending) < PendingMax
                  THEN Admit(c, Append(pending, c)) ELSE Unchanged

Process(c, ramRetry, v) ==
    CASE v = "blocked"           -> [Unchanged EXCEPT !.ignored = @ \cup c.parts]
      [] v # "blocked" /\ Contains(seen, c) -> Unchanged
      [] v = "queued" /\ ~Contains(seen, c) -> Admit(c, pending)
      [] OTHER -> IF ramRetry /\ Len(pending) < PendingMax
                  THEN Admit(c, Append(pending, c))
                  ELSE [Unchanged EXCEPT !.retained = FALSE]

\* retain_concat_before_clear
Retain(slot, ramRetry, v) ==
    IF Cardinality(slot.parts) = slot.delivered THEN Unchanged
    ELSE Process([parts |-> slot.parts, first |-> slot.first], ramRetry, v)

-----------------------------------------------------------------------------
(* handle_decoded_pdu *)

NewSlot(s) ==
    [ref |-> RefOf(s), parts |-> {s}, first |-> s, delivered |-> 0, partial |-> FALSE]

Full(slot) == Cardinality(slot.parts) = Total[slot.ref]

\* Mutant of Recorded: a slot is cleared without a fingerprint.
RecordedNot(slot) == done

\* Mutant of Recorded: the ring grows past its size.
RecordedGrowing(slot) == Append(done, slot.parts)

\* record_concat_done: whatever a slot held when it was cleared.
Recorded(slot) == Newest(Append(done, slot.parts), DoneMax)

\* The segments that entries d of s_concat_done have the fingerprints of.
Marked(d) == UNION ToSet(d)

RecentlyDone(s) == s \in Marked(done)

\* The outcome of one segment: the slots and finished texts afterwards, what
\* process_sms_content left, and the flags of PduDecodeOutcome.
Outcome(slots, finished, p, safe, blocked) ==
    [open |-> slots, done |-> finished, p |-> p, safe |-> safe, blocked |-> blocked]

\* The segment waits in a slot.
Kept(slots) == Outcome(slots, done, Unchanged, FALSE, FALSE)

\* This pass admits no more: the record is left for the next one.
Deferred(slots) == Kept(slots)

Single(s, ramRetry, v) ==
    LET p == Process([parts |-> {s}, first |-> s], ramRetry, v)
    IN  Outcome(open, done, p, p.retained, ~p.retained)

\* Mutant of Replace: the slot is reused whether or not its text was retained.
ReplaceCareless(k, s, ramRetry, v) ==
    Outcome(Append(RemoveAt(open, k), NewSlot(s)), Recorded(open[k]),
            Retain(open[k], ramRetry, v), FALSE, FALSE)

\* Slot k makes way for a new slot for s.
Replace(k, s, ramRetry, v) ==
    LET p == Retain(open[k], ramRetry, v)
    IN  IF p.retained
        THEN Outcome(Append(RemoveAt(open, k), NewSlot(s)), Recorded(open[k]), p,
                     FALSE, FALSE)
        ELSE Outcome(open, done, p, FALSE, TRUE)

\* Segment s joins slot k.
Join(k, s, ramRetry, mayAdmit, v) ==
    LET slot  == [open[k] EXCEPT !.parts = @ \cup {s}]
        slots == IF s \in open[k].parts THEN open
                 ELSE Append(RemoveAt(open, k), slot)
        at    == IF s \in open[k].parts THEN k ELSE Len(open)
        p     == Retain(slot, ramRetry, v)
    IN  CASE ~Full(slot)               -> Kept(slots)
          [] Full(slot) /\ ~mayAdmit   -> Deferred(slots)
          [] Full(slot) /\ mayAdmit /\ p.retained ->
                Outcome(RemoveAt(slots, at), Recorded(slot), p, TRUE, FALSE)
          [] OTHER -> Outcome(slots, done, p, FALSE, TRUE)

\* Same reference, same segment number, another text or timestamp.
Conflicts(slot, s) == \E t \in slot.parts : t[2] = s[2] /\ t # s

Multipart(s, ramRetry, mayAdmit, v) ==
    LET mine == {k \in DOMAIN open : open[k].ref = RefOf(s)}
        k    == CHOOSE j \in mine : TRUE
    IN  CASE mine = {} /\ Len(open) < SlotMax -> Kept(Append(open, NewSlot(s)))
          [] mine = {} /\ Len(open) >= SlotMax ->
                IF mayAdmit THEN Replace(1, s, ramRetry, v) ELSE Deferred(open)
          [] mine # {} /\ Conflicts(open[k], s) ->
                IF mayAdmit THEN Replace(k, s, ramRetry, v) ELSE Deferred(open)
          [] OTHER -> Join(k, s, ramRetry, mayAdmit, v)

Handle(s, ramRetry, mayAdmit, v) ==
    IF TotalOf(s) = 1
    THEN IF mayAdmit THEN Single(s, ramRetry, v) ELSE Deferred(open)
    ELSE IF RecentlyDone(s) THEN Outcome(open, done, Unchanged, TRUE, FALSE)
    ELSE Multipart(s, ramRetry, mayAdmit, v)

Settle(slots, finished, p) ==
    /\ open' = slots
    /\ done' = finished
    /\ forgotten' = forgotten \cup (Marked(done) \ Marked(finished))
    /\ seen' = p.seen
    /\ pending' = p.pending
    /\ accepted' = p.accepted
    /\ again' = p.again
    /\ ignored' = p.ignored

Apply(o) == Settle(o.open, o.done, o.p)

-----------------------------------------------------------------------------
(* Outside of sms_task *)

\* enqueue_index: twice is once, and a full queue relies on the listing.
Enqueued(i) ==
    IF Contains(index, i) \/ Len(index) >= IndexMax THEN index ELSE Append(index, i)

\* The modem stores an offered segment on the SIM, which acknowledges it.  The
\* +CMTI line that says so may be lost.
Store(s, i) ==
    /\ s \in net
    /\ sim[i] = None
    /\ sim' = [sim EXCEPT ![i] = s]
    /\ net' = net \ {s}
    /\ index' \in {index, Enqueued(i)}
    /\ UNCHANGED <<ram, fate, acked, pass, rounds, bound>>

\* CONCAT_DONE_TTL_US has passed since the oldest entry was made.
AgeDone ==
    /\ aged < MaxAged
    /\ done # <<>>
    /\ done' = Tail(done)
    /\ forgotten' = forgotten \cup (Marked(done) \ Marked(done'))
    /\ aged' = aged + 1
    /\ UNCHANGED <<open, seen, pending, accepted, again, ignored, outer, pass, rounds,
                   restarts>>

\* Everything but the SIM is lost.
Restart ==
    /\ restarts < MaxRestarts
    /\ restarts' = restarts + 1
    /\ open' = <<>> /\ done' = <<>> /\ seen' = <<>> /\ pending' = <<>>
    /\ index' = <<>>
    /\ pass' = None
    /\ stall' = NoStall /\ idle' = 0
    /\ UNCHANGED <<abandoned, fate, net, sim, acked, aged>>

-----------------------------------------------------------------------------
(* sms_task, while it works through no listing *)

\* process_urc_line with a PDU in the +CMT window.  A segment whose admission
\* is blocked is not acknowledged; nor does an acknowledgment always arrive.
ReceiveDirect(s, v, arrives) ==
    LET o == Handle(s, TRUE, TRUE, v) IN
    /\ pass = None
    /\ s \in net
    /\ Decodes(s)
    /\ Apply(o)
    /\ IF o.blocked \/ ~arrives THEN UNCHANGED <<net, acked>>
       ELSE net' = net \ {s} /\ acked' = acked \cup {s}
    /\ UNCHANGED <<sim, index, pass, rounds, bound>>

\* AT+CMGD deletes the record and says so, deletes it unseen, or fails.
Answers == {"deleted", "unheard", "failed"}

Gone(I, a)   == {i \in I : a[i] # "failed"}
Told(I, a)   == {i \in I : a[i] = "deleted"}
Without(gone) == [i \in 1 .. SimSize |-> IF i \in gone THEN None ELSE sim[i]]

\* fetch_stored_sms_by_index.  The index may be that of a record that is gone
\* by now, or of another one in its place.
Fetch(v, a) ==
    LET i == Head(index)
        o == Handle(sim[i], FALSE, TRUE, v)
    IN  /\ pass = None
        /\ index # <<>>
        /\ index' = Tail(index)
        /\ IF sim[i] = None \/ ~Decodes(sim[i])
           THEN UNCHANGED <<ram, fate, sim>>
           ELSE /\ Apply(o)
                /\ sim' = IF o.safe /\ a # "failed" THEN Without({i}) ELSE sim
        /\ UNCHANGED <<net, acked, pass, rounds, bound>>

\* expire_concat_slots for slot k: CONCAT_TIMEOUT_US since it was touched, or
\* CONCAT_RECOVERY_US since what there was of it was admitted.
Expire(k, v) ==
    LET slot == open[k]
        p    == Retain(slot, TRUE, v)
    IN  /\ pass = None
        /\ CASE ~p.retained -> Settle(Append(RemoveAt(open, k), slot), done, p)
             [] p.retained /\ (slot.partial \/ Full(slot)) ->
                    Settle(RemoveAt(open, k), Recorded(slot), p)
             [] OTHER ->
                    Settle([open EXCEPT ![k].delivered = Cardinality(slot.parts),
                                        ![k].partial = TRUE], done, p)
        /\ UNCHANGED <<outer, pass, rounds, bound>>

\* retry_pending_forward, when the forwarding queue has room again.
RetryPending ==
    /\ pass = None
    /\ pending # <<>>
    /\ pending' = Tail(pending)
    /\ UNCHANGED <<open, done, seen, fate, outer, pass, rounds, bound>>

-----------------------------------------------------------------------------
(* backfill_stored_sms *)

Occupied == {i \in 1 .. SimSize : sim[i] # None}

\* Where AT+CMGL lists a record: it lists them in order.
Place(i) == Cardinality({j \in Occupied : j <= i})

\* The record at the end of the 8 KB that the response can hold loses its PDU or
\* part of it (f); what follows is not seen.
Listing(f) ==
    {[idx |-> i, form |-> IF Place(i) <= Window THEN "pdu" ELSE f] :
        i \in {j \in Occupied : Place(j) <= Window + 1}}

StartPass ==
    /\ pass = None
    /\ Occupied # {}
    /\ \E f \in {"cut", "headless"} :
         pass' = [list |-> Listing(f), handled |-> 0, admissions |-> 0,
                  headless |-> {}, bad |-> {},
                  cut |-> {i \in Occupied : Place(i) = Window + 1}]
    /\ UNCHANGED <<ram, fate, outer, rounds, bound>>

\* The record that comes next in the listing.
First(e) == e \in pass.list /\ \A d \in pass.list : e.idx <= d.idx

Some(I, i) == IF Cardinality(I) < Batch THEN I \cup {i} ELSE I

\* The record has no PDU line, or one that cannot be decoded.
PassUnreadable ==
    /\ pass # None
    /\ \E e \in pass.list :
         /\ First(e)
         /\ \/ /\ e.form = "headless"
               /\ pass' = [pass EXCEPT !.list = @ \ {e}, !.headless = Some(@, e.idx)]
            \/ /\ e.form # "headless"
               /\ e.form = "cut" \/ ~Decodes(sim[e.idx])
               /\ pass' = [pass EXCEPT !.list = @ \ {e}, !.bad = Some(@, e.idx)]
    /\ UNCHANGED <<ram, fate, outer, rounds, bound>>

\* A record that is retained is deleted while this pass may still delete; one
\* whose admission is blocked ends the pass.
PassRecord(v, a) ==
    /\ pass # None
    /\ \E e \in pass.list :
         LET o == Handle(sim[e.idx], FALSE, pass.admissions < Batch, v)
             delete == o.safe /\ pass.handled < Batch
         IN  /\ First(e)
             /\ e.form = "pdu"
             /\ Decodes(sim[e.idx])
             /\ Apply(o)
             /\ sim' = IF delete /\ a # "failed" THEN Without({e.idx}) ELSE sim
             /\ pass' = [pass EXCEPT
                  !.list = IF o.blocked THEN {} ELSE @ \ {e},
                  !.handled = IF delete /\ a = "deleted" THEN @ + 1 ELSE @,
                  !.admissions = IF o.p.admitted THEN @ + 1 ELSE @]
    /\ UNCHANGED <<net, index, acked, rounds, bound>>

\* Mutant of Rounds: progress does not start the count anew.
RoundsKept(n, I, progress) == IF I = {} THEN 0 ELSE IF n < StallMax THEN n + 1 ELSE n

\* The rounds a kind of unreadable record has stalled for, after this pass.
Rounds(n, I, progress) ==
    IF I = {} \/ progress THEN 0 ELSE IF n < StallMax THEN n + 1 ELSE n

\* After StallMax rounds the records are taken for corrupt and removed.
Hopeless(n, I) == IF n >= StallMax THEN I ELSE {}

Doubtful == IF pass = None THEN {} ELSE pass.headless \cup pass.bad

\* The end of the pass.  Records removed for want of a PDU line count as
\* progress for those that do not decode.
EndPass(a) ==
    /\ pass # None
    /\ pass.list = {}
    /\ LET h  == Rounds(stall.headless, pass.headless, pass.handled > 0)
           H  == Hopeless(h, pass.headless)
           b  == Rounds(stall.bad, pass.bad, pass.handled > 0 \/ Told(H, a) # {})
           B  == Hopeless(b, pass.bad)
       IN  /\ sim' = Without(Gone(H \cup B, a))
           /\ stall' = [headless |-> IF H # {} /\ H = Told(H, a) THEN 0 ELSE h,
                        bad      |-> IF B # {} /\ B = Told(B, a) THEN 0 ELSE b]
           /\ abandoned' = abandoned \cup {sim[i] : i \in Gone(H \cup B, a)}
    /\ idle' = CASE pass.handled > 0 -> 0
                 [] pass.handled = 0 /\ idle < StallMax -> idle + 1
                 [] OTHER -> idle
    /\ pass' = None
    /\ UNCHANGED <<ram, fate, net, index, acked, bound>>

-----------------------------------------------------------------------------
Next ==
    \/ \E s \in Segments, i \in 1 .. SimSize : Store(s, i)
    \/ AgeDone
    \/ Restart
    \/ \E s \in Segments, v \in Verdicts, b \in BOOLEAN : ReceiveDirect(s, v, b)
    \/ \E v \in Verdicts, a \in Answers : Fetch(v, a)
    \/ \E k \in DOMAIN open, v \in Verdicts : Expire(k, v)
    \/ RetryPending
    \/ StartPass
    \/ PassUnreadable
    \/ \E v \in Verdicts, a \in Answers : PassRecord(v, a)
    \/ \E a \in [Doubtful -> Answers] : EndPass(a)

Spec == Init /\ [][Next]_vars

\* sms_task never stops and polls the SIM.  The forwarding queue has room again
\* and again (PushQueue), and a deletion that keeps being tried succeeds.
RecordDeleted == PassRecord("queued", "deleted") /\ Occupied' # Occupied
DoubtfulDeleted == EndPass([i \in Doubtful |-> "deleted"]) /\ Occupied' # Occupied
Expired(k) == k \in DOMAIN open /\ Expire(k, "queued")
Fairness ==
    /\ WF_vars(StartPass)
    /\ WF_vars(PassUnreadable)
    /\ WF_vars(\E v \in Verdicts, a \in Answers : PassRecord(v, a))
    /\ WF_vars(\E a \in [Doubtful -> Answers] : EndPass(a))
    /\ SF_vars(RecordDeleted) /\ SF_vars(DoubtfulDeleted)
    /\ \A k \in 1 .. SlotMax : SF_vars(Expired(k))
    /\ WF_vars(RetryPending)

FairSpec == Spec /\ Fairness

-----------------------------------------------------------------------------
OnSim(s) == \E i \in 1 .. SimSize : sim[i] = s

Held(s) == \E k \in DOMAIN open : s \in open[k].parts

\* The segment was part of a text that was admitted, or of a blocked sender.
Covered(s) == s \in ignored \cup UNION accepted

\* No segment is ever lost: until its text is admitted, the network still
\* offers it, or the SIM or a slot holds it.  Only a restart may lose one, and
\* only one that was acknowledged directly: what the SIM held for a slot is
\* still there (retain_concat_before_clear, safe_to_delete, and the CNMA rule).
\* And where the SIM holds more than one response does, the record at the cut
\* may be taken for a corrupt one (DeletesAdmitted says when).
NothingLost ==
    \A s \in Segments \ Unsent :
        \/ s \in net \/ OnSim(s) \/ Held(s) \/ Covered(s)
        \/ s \in acked /\ restarts > 0
        \/ s \in abandoned /\ Window < SimSize
        \/ ~Decodes(s)

\* What reception promises of every segment.
ReceptionTrue == TypeOK /\ NothingLost

\* A SIM record is deleted only once its content has been admitted, or as a
\* corrupt one.  What can be decoded is taken for corrupt only where the response
\* was cut off, at the end of a listing, and only after StallMax listings in a row
\* brought no progress ("Three passes without progress indicate a corrupt
\* record"): a pass that deletes something starts the count anew.
DeletesAdmitted ==
    /\ \A s \in Segments : OnSim(s) /\ ~OnSim(s)' => Covered(s)' \/ s \in abandoned'
    /\ \A s \in abandoned' \ abandoned :
         Decodes(s) => idle' = StallMax /\ \E i \in pass.cut : sim[i] = s
DeletedOnceAdmitted == [][DeletesAdmitted]_vars

\* A segment is forwarded once, however it comes and however often: a text that
\* shares a segment with an earlier one is that text with more of the message (a
\* supplement after a time-out), unless s_concat_done has forgotten the segment
\* (was_seen, concat_recently_done, deliveredParts) or the device was restarted.
AdmitsAnew ==
    /\ \A c \in accepted' \ accepted, d \in accepted :
         c \cap d \subseteq forgotten \/ d \subseteq c \/ restarts > 0
    /\ \A c \in again' \ again : c \cap forgotten # {} \/ restarts > 0
OneCopy == [][AdmitsAnew]_vars

Drained == Occupied = {} /\ pending = <<>>

\* Whatever the SIM holds is admitted and deleted in the end, and what waits in
\* RAM reaches the forwarding queue: a missing segment, a full queue, a failed
\* deletion or a corrupt record only delays it.
ReceptionDrains == <>[]Drained

\* "Later polling recovers omitted SMS" (idf_modem.cpp, of a response that was cut
\* off at 8 KB): no record is removed as a corrupt one that can be decoded and
\* has not been admitted.
OmittedRecovered == \A s \in abandoned : Covered(s) \/ ~Decodes(s)

\* "Fingerprint completed or expired assemblies so SIM replay cannot reopen
\* delivered segments": no slot waits for the rest of a message that was
\* admitted complete.
NotReopened ==
    \A k \in DOMAIN open, s \in Segments :
        s \in open[k].parts =>
            ~ \E c \in accepted : s \in c /\ Cardinality(c) = TotalOf(s)
=============================================================================
