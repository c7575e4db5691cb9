----------------------------- MODULE MipStream -----------------------------
(* An HTTP answer on its way through the modem's socket: the peer sends it,   *)
(* the modem keeps what has arrived, AT+MIPRD fetches it in pieces, and       *)
(* MipTlsSession and HttpResponse put it together (over TLS as well as in     *)
(* plain HTTP: a record is a piece of the stream). Or, in the other half of   *)
(* the state space, one answer of another command, whatever its lines.        *)
EXTENDS MipWire

CONSTANTS
    Announced,      \* the lengths a header states: none, one or several
    MaxBody,        \* bytes of the body the peer sends (a bound)
    Most,           \* kReadMax
    BodyMax,        \* kHttpBodyMax
    MaxFaults,      \* notices and lines out of place (a bound)
    MaxLines        \* lines of an answer of another command (a bound)

VARIABLES
    task,       \* "read", or the parser an answer is for
    peer,       \* what the peer has yet to send, and whether it has closed
    sent,       \* what it has sent
    modem,      \* bytes not fetched, notices not told
    faults,
    lines,      \* the answer of another command so far
    s           \* MipTlsSession and HttpResponse

vars == <<task, peer, sent, modem, faults, lines, s>>

\* A header of two pieces, then the body: positions in the stream.
Header == 2
Total(p) == Header + p.body

Init ==
    /\ task \in {"read", "result", "config", "close", "open", "state", "contexts"}
    /\ peer \in IF task = "read"
                THEN [body : 0 .. MaxBody, lengths : Announced, coded : BOOLEAN, closed : {FALSE}]
                ELSE [body : {0}, lengths : {<< >>}, coded : {FALSE}, closed : {FALSE}]
    /\ sent = 0 /\ modem = [data |-> << >>, told |-> TRUE]
    /\ faults = 0 /\ lines = << >>
    /\ s = [pending |-> << >>, closed |-> FALSE, fed |-> << >>, header |-> FALSE,
            body |-> 0, complete |-> FALSE, outcome |-> "none"]

(* ---- The peer and the modem -------------------------------------------- *)
Arrive ==
    /\ task = "read" /\ sent < Total(peer) /\ ~peer.closed
    /\ sent' = sent + 1
    /\ modem' = [modem EXCEPT !.data = Append(@, sent + 1)]
    /\ UNCHANGED <<task, peer, faults, lines, s>>
PeerCloses ==
    /\ task = "read" /\ ~peer.closed /\ peer' = [peer EXCEPT !.closed = TRUE]
    /\ modem' = [modem EXCEPT !.told = FALSE]
    /\ UNCHANGED <<task, sent, faults, lines, s>>

\* A notice said between two commands is discarded before the next is written.
Discard ==
    /\ ~modem.told /\ faults < MaxFaults /\ faults' = faults + 1
    /\ modem' = [modem EXCEPT !.told = TRUE]
    /\ UNCHANGED <<task, peer, sent, lines, s>>

Notice(k) == <<[k |-> k]>>
Echo == {<< >>, Notice("echo")}

(* ---- HttpResponse::feed ------------------------------------------------ *)
\* parse_header: one length at most, no transfer coding.
HeaderGood == Len(peer.lengths) <= 1 /\ ~peer.coded /\ \A i \in DOMAIN peer.lengths : peer.lengths[i] <= BodyMax
Expects(n) == peer.lengths = <<n>>

FeedByte(acc, b) ==
    IF acc.outcome # "none" THEN acc
    ELSE IF acc.complete THEN [acc EXCEPT !.outcome = "failed"]
    ELSE IF ~acc.header
    THEN IF b < Header THEN [acc EXCEPT !.fed = Append(@, b)]
         ELSE IF ~HeaderGood THEN [acc EXCEPT !.outcome = "failed"]
         ELSE [acc EXCEPT !.fed = Append(@, b), !.header = TRUE, !.complete = Expects(0)]
    ELSE IF acc.body + 1 > BodyMax THEN [acc EXCEPT !.outcome = "failed"]
    ELSE [acc EXCEPT !.fed = Append(@, b), !.body = @ + 1,
                     !.complete = Expects(acc.body + 1)]
Feed(acc, bytes) == FoldLeft(FeedByte, acc, bytes)

\* A closed connection completes any answer.
FinishAny(acc) == [acc EXCEPT !.complete = TRUE, !.outcome = "done"]
\* finish_eof
Finish(acc) ==
    IF acc.header /\ (peer.lengths = << >> \/ Expects(acc.body))
    THEN [acc EXCEPT !.complete = TRUE, !.outcome = "done"]
    ELSE [acc EXCEPT !.outcome = "failed"]
Settled(acc) == IF acc.outcome = "none" /\ acc.complete THEN [acc EXCEPT !.outcome = "done"]
                                                        ELSE acc

(* ---- MipTlsSession::receive_mip_bytes ---------------------------------- *)
\* What a call takes leaves nothing behind.
RestDropped(data, n) == << >>
\* What a call does not take stays in pending_.
Rest(data, n) == SubSeq(data, n + 1, Len(data))
Take(acc, data) ==
    {Settled(Feed([acc EXCEPT !.pending = Rest(data, n)], SubSeq(data, 1, n))) : n \in 1 .. Len(data)}

FromPending ==
    /\ task = "read" /\ s.outcome = "none" /\ s.pending # << >>
    /\ s' \in Take(s, s.pending)
    /\ UNCHANGED <<task, peer, sent, modem, faults, lines>>
EndOfStream ==
    /\ task = "read" /\ s.outcome = "none" /\ s.pending = << >> /\ s.closed
    /\ s' = Finish(s)
    /\ UNCHANGED <<task, peer, sent, modem, faults, lines>>

\* The modem answers a read: some of what it has, and how much is left; the
\* notices that wait; and once in a while a line out of place.
\* A second notice of a close is out of place, one without a close is not said.
Strays == {"known", "cmt", "rtcp", "garbled", "error", "late"}
          \cup (IF peer.closed THEN {"disconn"} ELSE {})
Stray(k) == IF k = "late" THEN <<[k |-> "answer", cid |-> 1, form |-> "pair", value |-> <<0>>, unread |-> 0]>>
                          ELSE Notice(k)
Answered(n, echo, stray) ==
    LET line == <<[k |-> "answer", cid |-> 0, form |-> "pair",
                   value |-> SubSeq(modem.data, 1, n),
                   unread |-> Len(modem.data) - n]>>
        told == IF modem.told THEN << >> ELSE Notice("disconn") IN
      echo \o stray \o told \o (IF n = 0 THEN << >> ELSE line) \o Notice("ok")

Heard(r) ==
    IF ~r.ok THEN s' = [s EXCEPT !.outcome = "failed"]
    ELSE LET next == [s EXCEPT !.closed = s.closed \/ r.closed] IN
         IF r.data = << >> THEN s' = next ELSE s' \in Take(next, r.data)

Fetch ==
    /\ task = "read" /\ s.outcome = "none" /\ s.pending = << >> /\ ~s.closed
    /\ \E n \in 0 .. Len(modem.data), echo \in Echo,
          stray \in {<< >>} \cup (IF faults < MaxFaults THEN {Stray(k) : k \in Strays} ELSE {}) :
         /\ n <= Most /\ (n = 0 => modem.data = << >> \/ ~modem.told)
         /\ faults' = faults + Len(stray)
         /\ Heard(Read(Answered(n, echo, stray), Most))
         /\ modem' = [data |-> SubSeq(modem.data, n + 1, Len(modem.data)), told |-> TRUE]
    /\ UNCHANGED <<task, peer, sent, lines>>

\* The answer is lost, and with it the bytes in it; or the time is up.
Lost ==
    /\ task = "read" /\ s.outcome = "none"
    /\ s' = [s EXCEPT !.outcome = "failed"]
    /\ UNCHANGED <<task, peer, sent, modem, faults, lines>>

(* ---- One answer of another command, line by line ----------------------- *)
Answers == [k : {"answer"}, cid : {0}, form : {"pair"}, end : {"none"},
            value : IF task = "state" THEN {"initial", "closed", "other"} ELSE {0, 1}]
           \cup [k : {"answer"}, cid : {0}, form : {"bare", "bad"}, value : {0}, end : {"none"}]
           \cup [k : {"answer"}, cid : {1}, form : {"pair"}, end : {"good"},
                 value : IF task = "state" THEN {"connected"} ELSE {0}]
           \cup [k : {"answer"}, cid : {0}, form : {"pair"}, end : {"good"},
                 value : IF task = "state" THEN {"connected", "connecting", "initial"} ELSE {}]
Said == {[k |-> k] : k \in {"echo", "ok", "error", "cmt", "pdu", "known", "rtcp", "disconn", "garbled",
                            "other"}}
        \cup {[k |-> "open", cid |-> 0, value |-> v] : v \in {0, 1}}
        \cup Answers
Say ==
    /\ task # "read" /\ Len(lines) < MaxLines
    /\ \E line \in Said : lines' = Append(lines, line)
    /\ UNCHANGED <<task, peer, sent, modem, faults, s>>

Next == Arrive \/ PeerCloses \/ Discard \/ FromPending \/ EndOfStream \/ Fetch \/ Lost \/ Say
Spec == Init /\ [][Next]_vars

-----------------------------------------------------------------------------
TypeOK ==
    /\ peer.closed \in BOOLEAN /\ sent \in 0 .. Total(peer)
    /\ modem.data \in Seq(1 .. Header + MaxBody) /\ modem.told \in BOOLEAN
    /\ s.outcome \in {"none", "done", "failed"} /\ s.body \in 0 .. BodyMax
    /\ s.complete \in BOOLEAN /\ s.closed \in BOOLEAN
    /\ faults \in 0 .. MaxFaults /\ Len(lines) <= MaxLines

\* What the parser was fed and what still waits is the beginning of what the
\* peer sent, every byte once and in its place.
InOrder == LET got == s.fed \o s.pending IN
    s.outcome # "failed" => got = [i \in 1 .. Len(got) |-> i] /\ Len(got) <= sent

\* An answer judged complete has the length it announced; without one the peer
\* has closed, and the session never takes an open socket for a closed one.
WholeAnswer ==
    /\ s.outcome = "done" =>
         /\ s.header /\ ~peer.coded
         /\ IF peer.lengths = << >> THEN peer.closed
                                 ELSE Expects(s.body)
    /\ s.closed => peer.closed

\* Whatever else the modem says in an answer, no parser accepts one that has an
\* error, no end, or news of a closed connection in it, and what it accepts is
\* the one line for this socket.
Parsed == CASE task = "result" -> Result(lines, FALSE)
            [] task = "config" -> Config(lines)
            [] task = "close" -> Closed(lines)
            [] task = "open" -> Opened(lines)
            [] task = "state" -> State(lines)
            [] task = "contexts" -> Contexts(lines, 1)
            [] OTHER -> Reject
JudgedTrue ==
    /\ Parsed.ok =>
         /\ Count(lines, {"error", "disconn", "garbled", "other"}) = 0 /\ Count(lines, {"ok"}) = 1
         /\ CASE task \in {"result", "config", "close", "state"} ->
                   \E i \in 1 .. Len(lines) :
                     /\ lines[i].k = "answer" /\ lines[i].value = Parsed.value
                     /\ lines[i].cid = 0 \/ (task = "close" /\ Parsed.confirm)
                     /\ Count(lines, {"answer"}) = 1
              [] task = "open" -> Count(lines, {"answer"}) = 0
              [] OTHER -> Cardinality({i \in 1 .. Len(lines) : lines[i].k = "answer"
                                         /\ lines[i].cid = 1}) = 1
    /\ task = "open" /\ Latched(lines, "none") =>
         Count(lines, {"disconn", "garbled"}) = 0 /\ Count(lines, {"open"}) <= 1
=============================================================================
