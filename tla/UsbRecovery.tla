---------------------------- MODULE UsbRecovery ----------------------------
(* The recovery channel over USB: the development tool (usb_recovery.py)     *)
(* that writes a request, waits for its answer, retries and polls, and the   *)
(* task of the firmware (usb_recovery.cpp) that reads and answers; between   *)
(* them a line on which frames are cut by a timeout or a reset, and on which *)
(* answers come late.  Several runs of the tool take turns with the port.    *)
(*                                                                           *)
(* A frame is a sequence of pieces <<frame, k>>: its header is piece 1, its  *)
(* last piece the CRC, which holds only for the pieces of one frame.         *)
EXTENDS Naturals, Sequences, FiniteSets

CONSTANTS Runs,         \* runs of the tool, each with its own nonce
          Kinds,        \* what runs may be asked to do
          Seqs,         \* sequence numbers are 0 .. Seqs - 1; 256 in the code
          MaxSends,     \* bound: requests written
          MaxBoots      \* bound: resets of the device

VARIABLES
    run,        \* each run of the tool
    port,       \* the run that holds the port, by its flock
    heard,      \* the parser of the run that holds the port
    down, up,   \* pieces on their way to the device, and from it
    parser,     \* buffer_ of the device's parser
    job,        \* s_provision_nonce, _state, and what the worker does with it
    sends, boots,
    saved       \* history: how often each run's network was stored, and set up

vars == <<run, port, heard, down, up, parser, job, sends, boots, saved>>
device == <<parser, job>>

Commands == {"state", "async", "status", "ota", "query", "recover", "legacy"}
Requests == [cmd : Commands, seq : 0 .. Seqs - 1, of : Runs, ext : BOOLEAN]

\* A credential or a nonce makes a frame longer.
Size(f) == IF "status" \in DOMAIN f THEN 2 ELSE IF f.cmd \in {"async", "legacy"} THEN 4
           ELSE IF f.cmd = "status" THEN 3 ELSE 2
Pieces(f) == [k \in 1 .. Size(f) |-> <<f, k>>]
Capacity == 8           \* kParserCapacity: two frames of the largest size

Idle == [state |-> "idle", of |-> "none", worker |-> "waits"]

TypeOK ==
    /\ \A r \in Runs : run[r].at \in {"new", "send", "wait", "ended"}
    /\ port \in Runs \cup {"none"}
    /\ Len(parser) <= Capacity /\ Len(heard) <= Capacity
    /\ job.state \in {"idle", "pending", "started", "failed"}
    /\ job.worker \in {"waits", "told", "saved", "connected"}
    /\ saved \in [Runs -> [times : 0 .. MaxSends, up : BOOLEAN]]

Init ==
    /\ run \in [Runs -> [at : {"new"}, kind : Kinds, seq : 0 .. Seqs - 1]]
    /\ port = "none" /\ heard = <<>> /\ down = <<>> /\ up = <<>>
    /\ parser = <<>> /\ job = Idle /\ sends = 0 /\ boots = 0
    /\ saved = [r \in Runs |-> [times |-> 0, up |-> FALSE]]

-----------------------------------------------------------------------------
(* The parser, the same on both sides                                        *)

\* A header whose frame is still incomplete, or complete with a CRC that holds.
Holds(buf, i) ==
    /\ buf[i][2] = 1
    /\ LET n == Size(buf[i][1])
       IN  Len(buf) < i + n - 1 \/ SubSeq(buf, i, i + n - 1) = Pieces(buf[i][1])

\* What precedes such a header is discarded.
Resync(buf) ==
    LET at == {i \in DOMAIN buf : Holds(buf, i)}
    IN  IF at = {} THEN <<>> ELSE SubSeq(buf, CHOOSE i \in at : \A j \in at : i <= j, Len(buf))

Complete(buf) == buf # <<>> /\ Len(buf) >= Size(buf[1][1])
Beyond(buf) == SubSeq(buf, Size(buf[1][1]) + 1, Len(buf))

\* The oldest bytes give way when a chunk does not fit.
Fed(buf, chunk) ==
    LET all == buf \o chunk
    IN  Resync(SubSeq(all, IF Len(all) > Capacity THEN Len(all) - Capacity + 1 ELSE 1, Len(all)))

-----------------------------------------------------------------------------
(* The device                                                               *)

\* A read of what has come.
Read ==
    \E n \in 1 .. Len(down) :
        /\ ~Complete(parser)
        /\ parser' = Fed(parser, SubSeq(down, 1, n)) /\ down' = SubSeq(down, n + 1, Len(down))
        /\ UNCHANGED <<run, port, heard, up, job, sends, boots, saved>>

\* reset_if_idle
ForgetRest ==
    /\ parser # <<>> /\ ~Complete(parser) /\ down = <<>>
    /\ parser' = <<>>
    /\ UNCHANGED <<run, port, heard, down, up, job, sends, boots, saved>>

\* Another request takes the place of the one the worker has.
AsyncUnchecked(r) == {<<"ok", [state |-> "pending", of |-> r, worker |-> "told"]>>}
\* provision_wifi_async, and whether the worker is told once the answer is out.
Async(r) ==
    CASE job.state = "pending" -> {<<IF job.of = r THEN "ok" ELSE "busy", job>>}
      [] job.state \in {"started", "failed"} /\ job.of = r ->
            {<<IF job.state = "started" THEN "ok" ELSE "internal", job>>}
      [] OTHER -> {<<"ok", [state |-> "pending", of |-> r, worker |-> "told"]>>,
                   <<"no-mem", job>>}

\* The nonce passed over.
StatusOfLast(r) == IF job.state = "idle" THEN "not-found" ELSE "ok"
\* provision_wifi_status finds the job by its nonce alone.
StatusOf(r) == IF job.state = "idle" \/ job.of # r THEN "not-found" ELSE "ok"

Answer(f, status) ==
    [cmd |-> f.cmd, seq |-> f.seq, status |-> status, ext |-> f.ext,
     of |-> IF f.cmd = "status" THEN f.of ELSE "none",
     state |-> IF f.cmd = "status" THEN job.state ELSE "none"]

\* write_frame: all of it, or what the line took before the timeout.
Write(f, status) ==
    \E k \in {0, 1, 2} : up' = up \o SubSeq(Pieces(Answer(f, status)), 1, k)

\* provision_wifi_legacy stores and connects before it answers.
Legacy(f) ==
    IF job.state = "pending" THEN Write(f, "busy") /\ UNCHANGED saved
    ELSE \E ok \in BOOLEAN :
            /\ saved' = [saved EXCEPT ![f.of] = [times |-> @.times + 1, up |-> ok]]
            /\ Write(f, IF ok THEN "ok" ELSE "internal")

\* handle_frame
Handle ==
    /\ Complete(parser) /\ parser' = Resync(Beyond(parser))
    /\ LET f == parser[1][1]
       IN  \/ /\ f.cmd = "async" /\ UNCHANGED saved
              /\ \E o \in Async(f.of) : job' = o[2] /\ Write(f, o[1])
           \/ f.cmd = "legacy" /\ Legacy(f) /\ UNCHANGED job
           \/ f.cmd = "status" /\ Write(f, StatusOf(f.of)) /\ UNCHANGED <<job, saved>>
           \/ f.cmd \in {"state", "ota"} /\ Write(f, "ok") /\ UNCHANGED <<job, saved>>
           \/ /\ f.cmd \in {"query", "recover"} /\ UNCHANGED <<job, saved>>
              /\ \E s \in {"ok", "busy"} : Write(f, s)
    /\ UNCHANGED <<run, port, heard, down, sends, boots>>

\* usb_wifi_provision_task: the network is stored, then tried, then the outcome
\* is published; any of it may fail.
Save ==
    /\ job.worker = "told"
    /\ \/ /\ job' = [job EXCEPT !.worker = "saved"]
          /\ saved' = [saved EXCEPT ![job.of].times = @ + 1]
       \/ job' = [job EXCEPT !.worker = "waits", !.state = "failed"] /\ UNCHANGED saved
    /\ UNCHANGED <<run, port, heard, down, up, parser, sends, boots>>

Connect ==
    /\ job.worker = "saved"
    /\ \/ /\ job' = [job EXCEPT !.worker = "waits", !.state = "started"]
          /\ saved' = [saved EXCEPT ![job.of].up = TRUE]
       \/ job' = [job EXCEPT !.worker = "waits", !.state = "failed"] /\ UNCHANGED saved
    /\ UNCHANGED <<run, port, heard, down, up, parser, sends, boots>>

\* A reset forgets the job and the parser; what is on the line may stay there.
Reset ==
    /\ boots < MaxBoots /\ boots' = boots + 1
    /\ parser' = <<>> /\ job' = Idle
    /\ \E n \in 0 .. Len(down) : down' = SubSeq(down, n + 1, Len(down))
    /\ up' \in {up, <<>>}
    /\ UNCHANGED <<run, port, heard, sends, saved>>

-----------------------------------------------------------------------------
(* The tool                                                                 *)

Ends(r, how) ==
    run' = [run EXCEPT ![r] = [at |-> "ended", kind |-> @.kind, seq |-> @.seq, how |-> how]]

\* Requests that change something repeated as well.
TriesAll(cmd, ext) == 3
\* run_transaction repeats only what reads and carries nothing.
Tries(cmd, ext) == IF cmd \in {"state", "ota"} /\ ~ext THEN 3 ELSE 1

Asks(r, cmd, ext, tries, busy) ==
    run' = [run EXCEPT ![r] = [at |-> "send", kind |-> @.kind, seq |-> @.seq,
                               cmd |-> cmd, ext |-> ext, tries |-> tries, busy |-> busy]]
Begins(r, cmd, ext) == Asks(r, cmd, ext, Tries(cmd, ext), 2)    \* BATCH_BUSY_RETRIES = 2
Polls(r) == Begins(r, "status", FALSE)

Start(r) ==
    /\ run[r].at = "new"
    /\ LET kind == run[r].kind
       IN  Begins(r, IF kind = "provision" THEN "async" ELSE kind, kind = "ota")
    /\ UNCHANGED <<port, heard, down, up, parser, job, sends, boots, saved>>

\* Device.__exit__: the kernel may drop what was not read.
Close == port' = "none" /\ heard' = <<>> /\ up' \in {up, <<>>}

\* No answer: another attempt, the request without the key, or the poll that
\* tells what became of the provisioning; else an error.
Lost(r) ==
    LET q == run[r]
    IN  CASE q.tries > 1 -> Asks(r, q.cmd, q.ext, q.tries - 1, q.busy)
          [] q.tries <= 1 /\ q.cmd = "ota" /\ q.ext -> Begins(r, "ota", FALSE)
          [] q.tries <= 1 /\ q.cmd \in {"async", "status"} -> Polls(r)
          [] OTHER -> Ends(r, "error")

\* Device.__enter__ and _write_all; the line takes the request, or a part of it
\* before the timeout.
Send(r) ==
    /\ run[r].at = "send" /\ port = "none" /\ sends < MaxSends /\ sends' = sends + 1
    /\ LET q == run[r]
           f == [cmd |-> q.cmd, seq |-> q.seq, of |-> r, ext |-> q.ext]
       IN  \/ /\ down' = down \o Pieces(f)
              /\ run' = [run EXCEPT ![r] =
                    [at |-> "wait", kind |-> q.kind, seq |-> (q.seq + 1) % Seqs, sent |-> q.seq,
                     cmd |-> q.cmd, ext |-> q.ext, tries |-> q.tries, busy |-> q.busy]]
              /\ port' = r /\ heard' = <<>> /\ UNCHANGED up
           \/ /\ \E k \in 1 .. Size(f) - 1 : down' = down \o SubSeq(Pieces(f), 1, k)
              /\ Lost(r) /\ Close
    /\ UNCHANGED <<parser, job, boots, saved>>

Hear(r) ==
    /\ run[r].at = "wait" /\ up # <<>> /\ ~Complete(heard)
    /\ \E n \in 1 .. Len(up) :
        heard' = Fed(heard, SubSeq(up, 1, n)) /\ up' = SubSeq(up, n + 1, Len(up))
    /\ UNCHANGED <<run, port, down, parser, job, sends, boots, saved>>

\* What the command makes of an answer.
Answered(r, a) ==
    LET q == run[r]
    IN  CASE q.cmd = "async" -> IF a.status = "ok" THEN Polls(r) ELSE Ends(r, "refused")
          [] q.cmd = "status" ->
                IF a.status \notin {"ok", "not-found"} THEN Ends(r, "refused")
                ELSE IF a.status = "ok" /\ a.of = r /\ a.state \in {"started", "failed"}
                     THEN Ends(r, IF a.state = "started" THEN "ok" ELSE "failed")
                     ELSE Polls(r)
          [] q.cmd = "query" /\ a.status = "busy" ->
                IF q.busy = 0 THEN Ends(r, "unavailable")
                ELSE Asks(r, "query", FALSE, 1, q.busy - 1)
          [] q.cmd = "ota" /\ a.ext # q.ext -> Ends(r, "error")
          [] OTHER -> Ends(r, IF a.status = "ok" THEN "ok" ELSE "refused")

\* transact: an answer to another request is passed over.
Take(r) ==
    /\ run[r].at = "wait" /\ Complete(heard)
    /\ LET a == heard[1][1]
       IN  IF a.cmd = run[r].cmd /\ a.seq = run[r].sent
           THEN Answered(r, a) /\ Close
           ELSE heard' = Resync(Beyond(heard)) /\ UNCHANGED <<run, port, up>>
    /\ UNCHANGED <<down, parser, job, sends, boots, saved>>

TimeOut(r) ==
    /\ run[r].at = "wait" /\ Lost(r) /\ Close
    /\ UNCHANGED <<down, parser, job, sends, boots, saved>>

\* The deadline of the whole run.
GiveUp(r) ==
    /\ run[r].at = "send" /\ Ends(r, "error")
    /\ UNCHANGED <<port, heard, down, up, parser, job, sends, boots, saved>>

Tool(r) == Start(r) \/ Send(r) \/ Hear(r) \/ Take(r) \/ TimeOut(r) \/ GiveUp(r)
Firmware == Read \/ ForgetRest \/ Handle \/ Save \/ Connect
Next == (\E r \in Runs : Tool(r)) \/ Firmware \/ Reset

Spec == Init /\ [][Next]_vars /\ \A r \in Runs : WF_vars(Tool(r))

-----------------------------------------------------------------------------
(* Properties                                                               *)

\* A run that reports success has had its own network stored and set up, and
\* one that reports failure has not, whoever used the port in between, whatever
\* answer came late.
ReportTrue ==
    \A r \in Runs : run[r].at = "ended" /\ run[r].kind = "provision" =>
        /\ run[r].how = "ok" => saved[r].up
        /\ run[r].how = "failed" => ~saved[r].up

\* A lost answer makes no run store its network twice.
StoredOnce == \A r \in Runs : saved[r].times <= 1

WorkerKeeps == boots' = boots /\ job.worker # "waits" => job'.of = job.of

\* The worker's request is neither replaced nor freed before it is done with it.
NotReplaced == [][WorkerKeeps]_vars

\* Every run comes to an end.
RunsEnd == \A r \in Runs : <>(run[r].at = "ended")

-----------------------------------------------------------------------------
(* The inductive invariant                                                  *)

UsbAssumption ==
    /\ "none" \notin Runs
    /\ Kinds \subseteq {"provision", "state", "ota", "query", "recover", "legacy"}
    /\ Seqs \in Nat \ {0} /\ MaxSends \in Nat \ {0} /\ MaxBoots \in Nat

Answers == [cmd : Commands, seq : 0 .. Seqs - 1,
            status : {"ok", "busy", "internal", "no-mem", "not-found"}, ext : BOOLEAN,
            of : Runs \cup {"none"},
            state : {"idle", "pending", "started", "failed", "none"}]
Parts == Requests \X (1 .. 4)
Replies == Answers \X (1 .. 2)

Unstarted == [at : {"new"}, kind : Kinds, seq : 0 .. Seqs - 1]
Sending == [at : {"send"}, kind : Kinds, seq : 0 .. Seqs - 1, cmd : Commands, ext : BOOLEAN,
            tries : 1 .. 3, busy : 0 .. 2]
Waiting == [at : {"wait"}, kind : Kinds, seq : 0 .. Seqs - 1, cmd : Commands, ext : BOOLEAN,
            tries : 1 .. 3, busy : 0 .. 2, sent : 0 .. Seqs - 1]
Ended == [at : {"ended"}, kind : Kinds, seq : 0 .. Seqs - 1,
          how : {"ok", "failed", "refused", "error", "unavailable"}]
Jobs == [state : {"idle", "pending", "started", "failed"}, of : Runs \cup {"none"},
         worker : {"waits", "told", "saved", "connected"}]
Tools == Unstarted \cup Sending \cup Waiting \cup Ended

Typed ==
    /\ TypeOK /\ run \in [Runs -> Tools] /\ job \in Jobs
    /\ parser \in Seq(Parts) /\ down \in Seq(Parts)
    /\ heard \in Seq(Replies) /\ up \in Seq(Replies)
    /\ parser # <<>> => parser[1][2] = 1
    /\ sends \in Nat /\ boots \in Nat

\* What is on its way to be handled.
Line == parser \o down
Provisions(cmd) == cmd \in {"async", "legacy"}
\* The header of the request by which a run has its network stored.
Storing(piece, r) == piece[2] = 1 /\ Provisions(piece[1].cmd) /\ piece[1].of = r
Ahead(r) == \E i \in DOMAIN Line : Storing(Line[i], r)
Unsent(r) == run[r].at = "new" \/ (run[r].at = "send" /\ Provisions(run[r].cmd))
Over(r) == ~Unsent(r) /\ ~Ahead(r) /\ ~(job.of = r /\ job.worker # "waits")

\* Such a request is written once, and what it asks for is not done before it is read.
Single == \A r \in Runs, i, j \in DOMAIN Line :
              Storing(Line[i], r) /\ Storing(Line[j], r) => i = j
Untouched(r) == saved[r] = [times |-> 0, up |-> FALSE] /\ job.of # r
SentOnce ==
    /\ Single
    /\ \A r \in Runs : Unsent(r) => ~Ahead(r)
    /\ \A r \in Runs : Unsent(r) \/ Ahead(r) => Untouched(r)

\* The worker's stages, and the outcome that the job shows after them.
JobTrue ==
    /\ job.worker # "waits" <=> job.state = "pending"
    /\ job.state = "idle" <=> job.of = "none"
    /\ job.of \in Runs =>
         /\ job.worker = "told" => saved[job.of] = [times |-> 0, up |-> FALSE]
         /\ job.worker = "saved" => saved[job.of] = [times |-> 1, up |-> FALSE]
         /\ job.state = "started" => saved[job.of].up
         /\ job.state = "failed" => ~saved[job.of].up

\* An answer on its way that tells an outcome tells one that stays.
Outcome(a) == a.cmd = "status" /\ a.status = "ok" /\ a.state \in {"started", "failed"}
Settled(a) == a.of \in Runs /\ Over(a.of) /\ saved[a.of].up = (a.state = "started")
OnTheWay == {heard[i][1] : i \in DOMAIN heard} \cup {up[i][1] : i \in DOMAIN up}
AnswersTrue == \A a \in OnTheWay : Outcome(a) => Settled(a)

\* What a run asks for, and what it reports.
Asking(q) ==
    q.at \in {"send", "wait"} =>
        /\ IF q.kind = "provision" THEN q.cmd \in {"async", "status"} ELSE q.cmd = q.kind
        /\ Provisions(q.cmd) => q.tries = 1
Reported(q, r) ==
    q.at = "ended" /\ q.kind = "provision" /\ q.how \in {"ok", "failed"} =>
        Over(r) /\ saved[r].up = (q.how = "ok")
ToolTrue == \A r \in Runs : Asking(run[r]) /\ Reported(run[r], r)

IInv == Typed /\ SentOnce /\ JobTrue /\ AnswersTrue /\ ToolTrue /\ StoredOnce
=============================================================================
