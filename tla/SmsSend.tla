------------------------------ MODULE SmsSend ------------------------------
(* Sending of messages (idf_sms.cpp): the queue of the Web page, which the   *)
(* SMS task empties, and idf_sms_send_text, which the SMS task and a task of *)
(* the scheduler may run at the same time.  A text is a sequence of          *)
(* characters, each one or two units long.                                   *)
EXTENDS Naturals, Sequences, FiniteSets, SequencesExt, FiniteSetsExt

CONSTANTS
    Texts,      \* the messages: sequences of the units of their characters
    OutMax,     \* OUT_SMS_QUEUE_MAX
    OnePart,    \* units that fit into a message of one part
    PerPart,    \* units that fit into a part of several
    Refs,       \* values of the 16-bit reference
    MaxSends,   \* bound: messages of a behaviour
    MaxFaults   \* bound: failures of a behaviour

VARIABLES
    asked,      \* messages asked for: the text of each, and whether the page asked
    queue,      \* s_out_queue: the messages waiting
    looked,     \* the SMS task has found the modem ready in this turn
    job,        \* what each task is sending
    csmsRef,    \* s_csms_ref
    mode,       \* the modem's message format: "pdu" or "text"
    ready,      \* modemReady
    reset,      \* a hard reset of the modem is requested
    up,         \* parts given to the modem, in order (history)
    sent,       \* the sent list, with what its ring has lost
    faults      \* failures that happened (bound)

vars == <<asked, queue, looked, job, csmsRef, mode, ready, reset, up, sent, faults>>

Tasks == {"sms", "sched"}
Idle == [at |-> "idle", m |-> 0, parts |-> <<>>, ref |-> 0, part |-> 0, moved |-> FALSE]

Init ==
    /\ asked = <<>> /\ queue = <<>> /\ looked = FALSE /\ job = [t \in Tasks |-> Idle]
    /\ csmsRef \in 0 .. Refs - 1 /\ mode = "pdu" /\ ready = TRUE /\ reset = FALSE
    /\ up = <<>> /\ sent = <<>> /\ faults = 0

-----------------------------------------------------------------------------
(* The parts of a text: each takes as many characters as fit.               *)

Units(text, n) == FoldLeft(LAMBDA a, u : a + u, 0, SubSeq(text, 1, n))
Fits(text, cap) == Max({n \in 0 .. Len(text) : Units(text, n) <= cap})
\* The bound of the steps is the length of the text.
Split(text, cap) ==
    FoldLeft(LAMBDA a, i : IF a.rest = <<>> THEN a
                           ELSE LET n == Fits(a.rest, cap)
                                IN  [parts |-> Append(a.parts, SubSeq(a.rest, 1, n)),
                                     rest |-> SubSeq(a.rest, n + 1, Len(a.rest))],
             [parts |-> <<>>, rest |-> text], [i \in 1 .. Len(text) |-> i]).parts
PartsByOne(text) == Split(text, OnePart)
PartsOf(text) == IF Len(Split(text, OnePart)) > 1 THEN Split(text, PerPart) ELSE Split(text, OnePart)

-----------------------------------------------------------------------------
(* The queue                                                                *)

\* idf_sms_enqueue_outgoing; a text is refused when the queue is full.
Enqueue(text) ==
    /\ Len(asked) < MaxSends /\ Len(queue) < OutMax
    /\ asked' = Append(asked, [text |-> text, page |-> TRUE]) /\ queue' = Append(queue, Len(asked) + 1)
    /\ UNCHANGED <<looked, job, csmsRef, mode, ready, reset, up, sent, faults>>

\* The keepalive and the scheduled tasks send without the queue.
Keepalive(text) ==
    /\ Len(asked) < MaxSends /\ job["sched"] = Idle
    /\ asked' = Append(asked, [text |-> text, page |-> FALSE])
    /\ job' = [job EXCEPT !["sched"] = [Idle EXCEPT !.at = "check", !.m = Len(asked) + 1]]
    /\ UNCHANGED <<queue, looked, csmsRef, mode, ready, reset, up, sent, faults>>

\* The loop of the SMS task reads the status once, then turns to its queues.
Look ==
    /\ job["sms"] = Idle /\ ~looked /\ ready
    /\ looked' = TRUE
    /\ UNCHANGED <<asked, queue, job, csmsRef, mode, ready, reset, up, sent, faults>>
\* Something else was due in this turn, or the queue was busy.
Skip ==
    /\ looked /\ job["sms"] = Idle
    /\ looked' = FALSE
    /\ UNCHANGED <<asked, queue, job, csmsRef, mode, ready, reset, up, sent, faults>>
RestKept(q) == q
Rest(q) == Tail(q)
Pop ==
    /\ looked /\ job["sms"] = Idle /\ queue # <<>>
    /\ looked' = FALSE /\ queue' = Rest(queue)
    /\ job' = [job EXCEPT !["sms"] = [Idle EXCEPT !.at = "check", !.m = Head(queue)]]
    /\ UNCHANGED <<asked, csmsRef, mode, ready, reset, up, sent, faults>>

-----------------------------------------------------------------------------
(* idf_sms_send_text                                                        *)

Entry(t, ok) == [m |-> job[t].m, ok |-> ok]

\* The modem may have left the network since the loop looked: the message is
\* refused, and what the queue held is gone without an entry.
Check(t) ==
    /\ job[t].at = "check"
    /\ IF ~ready THEN job' = [job EXCEPT ![t] = Idle]
       ELSE LET parts == PartsOf(asked[job[t].m].text)
            IN  job' = [job EXCEPT ![t].parts = parts, ![t].at = IF Len(parts) > 1 THEN "ref" ELSE "mode"]
    /\ UNCHANGED <<asked, queue, looked, csmsRef, mode, ready, reset, up, sent, faults>>

\* One atomic step takes the reference and moves it on; zero is taken again.
SameRef(r) == r
NextRef(r) == (r + 1) % Refs
Reference(t) ==
    /\ job[t].at = "ref"
    /\ csmsRef' = NextRef(csmsRef)
    /\ job' = [job EXCEPT ![t].ref = csmsRef, ![t].at = IF csmsRef = 0 THEN "ref" ELSE "mode"]
    /\ UNCHANGED <<asked, queue, looked, mode, ready, reset, up, sent, faults>>

\* A modem that restarted may be in text mode, where the PDU would be sent as it
\* is written: the mode is set before each message.
After(t) == [job[t] EXCEPT !.at = "part", !.part = 1, !.moved = FALSE]
FormatKept == mode
Format == "pdu"
Mode(t) ==
    /\ job[t].at = "mode"
    /\ mode' = Format /\ job' = [job EXCEPT ![t] = After(t)]
    /\ UNCHANGED <<asked, queue, looked, csmsRef, ready, reset, up, sent, faults>>
ModeFails(t) ==
    /\ job[t].at = "mode" /\ faults < MaxFaults
    /\ faults' = faults + 1 /\ sent' = Append(sent, Entry(t, FALSE)) /\ reset' = TRUE
    /\ job' = [job EXCEPT ![t] = Idle]
    /\ UNCHANGED <<asked, queue, looked, csmsRef, mode, ready, up>>

Upload(t) == [m |-> job[t].m, ref |-> job[t].ref, part |-> job[t].part, of |-> Len(job[t].parts),
              body |-> job[t].parts[job[t].part], mode |-> mode, moved |-> job[t].moved]
FinalButOne(j) == j.part + 1 >= Len(j.parts)
Final(j) == j.part = Len(j.parts)
Part(t) ==
    /\ job[t].at = "part"
    /\ up' = Append(up, Upload(t))
    /\ IF Final(job[t]) THEN sent' = Append(sent, Entry(t, TRUE)) /\ job' = [job EXCEPT ![t] = Idle]
       ELSE job' = [job EXCEPT ![t].part = @ + 1] /\ UNCHANGED sent
    /\ UNCHANGED <<asked, queue, looked, csmsRef, mode, ready, reset, faults>>

\* The codec is busy, the modem refuses the part, or it gives no prompt in time:
\* nothing was sent.  Without an answer after the upload nobody knows.
FailedAgain(t) == [job[t] EXCEPT !.at = "mode"]
Failed(t) == Idle
PartFails(t) ==
    /\ job[t].at = "part" /\ faults < MaxFaults
    /\ \E how \in {"codec", "refused", "prompt", "answer"} :
        /\ up' = IF how = "answer" THEN Append(up, Upload(t)) ELSE up
        /\ reset' = (reset \/ how \in {"prompt", "answer"})
    /\ faults' = faults + 1
    /\ sent' = IF Failed(t) = Idle THEN Append(sent, Entry(t, FALSE)) ELSE sent
    /\ job' = [job EXCEPT ![t] = Failed(t)]
    /\ UNCHANGED <<asked, queue, looked, csmsRef, mode, ready>>

-----------------------------------------------------------------------------
(* The modem and its owner                                                  *)

\* A reset, asked for or not, may leave the modem in text mode; the owner takes
\* it off the network when it sees it.
Restart ==
    /\ reset \/ faults < MaxFaults
    /\ faults' = IF reset THEN faults ELSE faults + 1
    /\ reset' = FALSE /\ mode' = "text"
    /\ ready' \in (IF reset THEN {FALSE} ELSE {ready, FALSE})
    /\ job' = [t \in Tasks |-> [job[t] EXCEPT !.moved = job[t].at = "part"]]
    /\ UNCHANGED <<asked, queue, looked, csmsRef, up, sent>>

\* configure_sms_and_registration sets the format before the modem is ready.
Register ==
    /\ ~ready /\ ready' = TRUE /\ mode' = "pdu"
    /\ UNCHANGED <<asked, queue, looked, job, csmsRef, reset, up, sent, faults>>
Deregister ==
    /\ ready /\ faults < MaxFaults /\ ready' = FALSE /\ faults' = faults + 1
    /\ UNCHANGED <<asked, queue, looked, job, csmsRef, mode, reset, up, sent>>

Next ==
    \/ \E text \in Texts : Enqueue(text) \/ Keepalive(text)
    \/ Look \/ Skip \/ Pop
    \/ \E t \in Tasks : Check(t) \/ Reference(t) \/ Mode(t) \/ ModeFails(t) \/ Part(t) \/ PartFails(t)
    \/ Restart \/ Register \/ Deregister

Spec == Init /\ [][Next]_vars

-----------------------------------------------------------------------------
(* Properties                                                               *)

(* The state stays in its types, and the queue within its size.             *)
TypeOK ==
    /\ asked \in Seq([text : Texts, page : BOOLEAN]) /\ Len(queue) <= OutMax /\ \A i \in DOMAIN queue : queue[i] \in DOMAIN asked
    /\ looked \in BOOLEAN /\ ready \in BOOLEAN /\ reset \in BOOLEAN /\ mode \in {"pdu", "text"}
    /\ csmsRef \in 0 .. Refs - 1 /\ faults \in 0 .. MaxFaults
    /\ \A t \in Tasks : job[t].at \in {"idle", "check", "ref", "mode", "part"} /\ job[t].m \in 0 .. Len(asked)
    /\ \A i \in DOMAIN sent : sent[i].m \in DOMAIN asked /\ sent[i].ok \in BOOLEAN

Uploads(m) == SelectSeq(up, LAMBDA u : u.m = m)

(* A message is given to the modem at most once: no part of it twice, its    *)
(* parts in order under one reference, and at most one entry in the sent     *)
(* list, whatever fails on the way (the comment "Do not resend after a       *)
(* post-Ctrl+Z timeout because delivery is unknown").                        *)
SentOnce ==
    \A m \in DOMAIN asked :
        /\ \A i, j \in DOMAIN Uploads(m) : i < j => Uploads(m)[i].part < Uploads(m)[j].part
        /\ Cardinality({i \in DOMAIN sent : sent[i].m = m}) <= 1

(* An entry marked as sent is one whose whole text the modem took: the       *)
(* bodies of its parts, each within the size of a part, make up the text.    *)
ReportTrue ==
    \A i \in DOMAIN sent : sent[i].ok =>
        LET us == Uploads(sent[i].m)
        IN  /\ FlattenSeq([k \in DOMAIN us |-> us[k].body]) = asked[sent[i].m].text
            /\ \A k \in DOMAIN us : /\ us[k].of = Len(us) /\ us[k].ref = us[1].ref
                                    /\ Units(us[k].body, Len(us[k].body)) <= IF Len(us) = 1 THEN OnePart ELSE PerPart

(* The parts of two messages never bear the same reference, and none bears   *)
(* the zero of a message of one part: a receiver would join them.            *)
RefsApart ==
    \A i, j \in DOMAIN up :
        /\ (up[i].of > 1) = (up[i].ref # 0)
        /\ up[i].ref # 0 /\ up[i].ref = up[j].ref => up[i].m = up[j].m

(* A PDU reaches a modem in text mode only when the modem restarted in the   *)
(* middle of that very message.                                              *)
InPduMode == \A i \in DOMAIN up : up[i].mode = "text" => up[i].moved

(* What the Web page promised ("SMS queued. Check the sent list for the      *)
(* result"): a message of the queue that is neither waiting nor being sent   *)
(* is in the sent list.                                                      *)
Told ==
    \A m \in DOMAIN asked : asked[m].page =>
        \/ \E i \in DOMAIN queue : queue[i] = m
        \/ \E t \in Tasks : job[t].m = m
        \/ \E i \in DOMAIN sent : sent[i].m = m
=============================================================================
