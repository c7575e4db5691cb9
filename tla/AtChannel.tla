----------------------------- MODULE AtChannel -----------------------------
(* The lines of the modem's UART (idf_modem.cpp, idf_modem_query_filter.h,   *)
(* idf_modem_imei.h): answers to the owner's commands, and unsolicited lines *)
(* (URCs) anywhere between them.  The owner reads in blocks that may end in  *)
(* the middle of a line, and reads them in one of several ways: as they come *)
(* (plain, until a token), through the filter that keeps an answer apart     *)
(* from everything else (filter), as an IMEI frame, as the answer to MIPOPEN *)
(* (open), or with a prompt to wait for first (pdu).                         *)
EXTENDS Naturals, Sequences, SequencesExt

CONSTANTS
    Modes,          \* the ways of reading there are
    MaxCommands,    \* bound: commands of a behaviour
    MaxUrcs,        \* bound: unsolicited lines of a behaviour
    MaxWire         \* bound: lines in the receive buffer

VARIABLES
    wire,       \* lines received and not yet read
    todo,       \* lines the modem has still to send in answer
    emitted,    \* every unsolicited line it has sent (history)
    carry,      \* s_uart_line_carry: the line whose first part has been read
    waitPdu,    \* s_uart_wait_cmt_pdu
    urcs,       \* s_urc_buffer
    cut,        \* unsolicited lines taken for whole in the middle (history)
    phase,      \* what the owner is doing
    cmd,        \* the command: its number, how it is read
    clean,      \* nothing was owed or unread when it was written (history)
    resp,       \* lines of its answer
    outcome     \* how it ended

vars == <<wire, todo, emitted, carry, waitPdu, urcs, cut, phase, cmd, clean, resp, outcome>>

Unsolicited == {"urc", "cmt", "pdu"}
Line(k, n) == [k |-> k, n |-> n]
Of(q, kinds) == SelectSeq(q, LAMBDA l : l.k \in kinds)
Has(q, k) == \E i \in DOMAIN q : q[i].k = k

Init ==
    /\ wire = <<>> /\ todo = <<>> /\ emitted = <<>> /\ carry = <<>> /\ urcs = <<>> /\ cut = {}
    /\ waitPdu = FALSE /\ phase = "idle" /\ clean = TRUE /\ resp = <<>> /\ outcome = "none"
    /\ cmd = [n |-> 0, mode |-> "none"]

-----------------------------------------------------------------------------
(* The modem                                                                *)

Answers(c) ==
    LET Lines(ks) == [i \in DOMAIN ks |-> Line(ks[i], c.n)]
    IN  {Lines(<<"echo", "error">>)} \cup
        {IF c.mode = "pdu" THEN Lines(<<"echo", "prompt">>)
         ELSE IF c.mode \in {"until", "open"} THEN Lines(<<"echo", "ok", "data">>)
         ELSE Lines(<<"echo", "data", "ok">>)}

Answer ==
    /\ todo # <<>> /\ Len(wire) < MaxWire
    /\ wire' = Append(wire, Head(todo)) /\ todo' = Tail(todo)
    /\ UNCHANGED <<emitted, carry, waitPdu, urcs, cut, phase, cmd, clean, resp, outcome>>

\* A message delivered directly comes as a header and a PDU.
Urc ==
    /\ Len(emitted) < MaxUrcs
    /\ \E ks \in {<<"urc">>, <<"cmt", "pdu">>} :
        LET ls == [i \in DOMAIN ks |-> Line(ks[i], Len(emitted) + i)]
        IN  Len(wire) < MaxWire /\ wire' = wire \o ls /\ emitted' = emitted \o ls
    /\ UNCHANGED <<todo, carry, waitPdu, urcs, cut, phase, cmd, clean, resp, outcome>>

-----------------------------------------------------------------------------
(* A block of bytes: n whole lines and, perhaps, the first part of another. *)

\* The rest of a line of which the first part was lost is no line anyone knows.
Whole(q) == IF q # <<>> /\ carry = <<>> /\ q[1].k = "rest" THEN Tail(q) ELSE q
\* The line in carry comes first; what stands for it in wire is its rest.
Lines(n) == IF carry # <<>> THEN carry \o SubSeq(wire, 2, n) ELSE Whole(SubSeq(wire, 1, n))
Rest(n, half) ==
    IF half THEN <<Line("rest", wire[n + 1].n)>> \o SubSeq(wire, n + 2, Len(wire))
    ELSE SubSeq(wire, n + 1, Len(wire))
NoCarry(n, half) == <<>>
Carry(n, half) == IF half THEN <<wire[n + 1]>> ELSE <<>>
Blocks == {b \in (0 .. Len(wire)) \X BOOLEAN :
              (b[2] => b[1] < Len(wire)) /\ (b[1] = 0 => b[2] /\ carry = <<>>)}

\* preserve_uart_urc_line: lines that are URCs by themselves, and a PDU only
\* after its header.
Preserve(ls) ==
    FoldLeft(LAMBDA a, l : IF l.k \in {"urc", "cmt"} \/ (l.k = "pdu" /\ a.wait)
                           THEN [urcs |-> Append(a.urcs, l), wait |-> l.k = "cmt" \/ (a.wait /\ l.k # "pdu")] ELSE a,
             [urcs |-> urcs, wait |-> waitPdu], ls)

\* IdfModemQueryResponseFilter: the first line with the command's prefix and the
\* final line are the answer, everything else but the echo is unsolicited.
FilterLine(a, l) ==
    CASE l.k \in {"ok", "error"} -> [a EXCEPT !.resp = Append(@, l)]
      [] l.k = "data" /\ ~Has(a.resp, "data") -> [a EXCEPT !.resp = Append(@, l)]
      [] l.k = "echo" -> a
      [] OTHER -> [a EXCEPT !.urcs = Append(@, l), !.wait = l.k = "cmt" \/ (@ /\ l.k # "pdu")]
Filter(ls) == FoldLeft(FilterLine, [resp |-> resp, urcs |-> urcs, wait |-> waitPdu], ls)

\* capture_pending_uart_locked, before a command is written.
Begin(m) ==
    /\ phase = "idle" /\ cmd.n < MaxCommands
    /\ phase' = "draining" /\ cmd' = [n |-> cmd.n + 1, mode |-> m] /\ outcome' = "none"
    /\ UNCHANGED <<wire, todo, emitted, carry, waitPdu, urcs, cut, clean, resp>>

Drain ==
    /\ phase = "draining" /\ wire # <<>>
    /\ \E b \in Blocks :
        LET p == Preserve(Lines(b[1]))
        IN  /\ urcs' = p.urcs /\ waitPdu' = p.wait
            /\ wire' = Rest(b[1], b[2]) /\ carry' = Carry(b[1], b[2])
    /\ UNCHANGED <<todo, emitted, cut, phase, cmd, clean, resp, outcome>>

\* Nothing comes for a while, except perhaps in the middle of a line.
Quiet == wire = <<>> \/ (Len(wire) = 1 /\ carry # <<>>)
NotWaiting == TRUE
Drained == Quiet

Write ==
    /\ phase = "draining" /\ Drained
    /\ clean' = (todo = <<>> /\ carry = <<>>)
    /\ \E a \in Answers(cmd) : todo' = todo \o a
    /\ phase' = "reading" /\ resp' = IF carry = <<>> THEN <<>> ELSE <<Line("stub", 0)>>
    /\ UNCHANGED <<wire, emitted, carry, waitPdu, urcs, cut, cmd, outcome>>

-----------------------------------------------------------------------------
(* Reading an answer                                                        *)

First(q, kinds) == Of(q, kinds)[1].k
Final(q, good, bad) ==
    IF Of(q, good \cup bad) = <<>> THEN "none" ELSE IF First(q, good \cup bad) \in good THEN "ok" ELSE "fail"

\* idf_modem_parse_imei_frame: complete lines only; anything that is neither a
\* URC nor expected at its place makes the frame invalid.
Imei(q, partial) ==
    LET own == Of(q, {"echo", "data", "ok", "error", "prompt", "cmgs", "rest"})
        ks == [i \in DOMAIN own |-> own[i].k]
    IN  IF partial \/ ~(Has(own, "ok") \/ Has(own, "error")) THEN "none"
        ELSE IF ks \in {<<"echo", "data", "ok">>, <<"data", "ok">>} /\ (Has(own, "echo") => own[1].n = cmd.n)
        THEN "ok" ELSE "fail"

\* owner_send_mip_deadline with await_mip_open: one OK and one +MIPOPEN, of
\* which the OK is enough; a line it does not know is an error.
Open(q, partial) ==
    LET own == Of(q, {"data", "ok", "error", "prompt", "cmgs", "rest", "echo"})
    IN  IF \E i \in DOMAIN own :
              \/ own[i].k \notin {"echo", "data", "ok"} \/ (own[i].k = "echo" /\ own[i].n # cmd.n)
              \/ \E j \in 1 .. i - 1 : own[j].k = own[i].k
        THEN "fail"
        ELSE IF Has(own, "ok") /\ ~partial THEN "ok" ELSE "none"

\* owner_send_pdu: the prompt, then +CMGS or a final line.
Pdu(q) ==
    LET at == {i \in DOMAIN q : q[i].k = "prompt"}
    IN  IF at = {} THEN (IF Has(q, "error") THEN "fail" ELSE "none")
        ELSE Final(SubSeq(q, (CHOOSE i \in at : \A j \in at : i <= j) + 1, Len(q)), {"cmgs", "ok"}, {"error"})

\* The rest of a line that had begun before the command.
Stub(n) == IF resp = <<Line("stub", 0)>> THEN <<Line("rest", 0)>> \o Tail(Lines(n)) ELSE Lines(n)
Verdict(q, half) ==
    CASE cmd.mode \in {"plain", "filter"} -> Final(q, {"ok"}, {"error"})
      [] cmd.mode = "until" -> Final(q, {"data"}, {"error"})
      [] cmd.mode = "imei" -> Imei(q, half)
      [] cmd.mode = "open" -> Open(q, half)
      [] cmd.mode = "pdu" -> Pdu(q)

\* flush_pending at the end of a filtered answer: the part of a line that
\* follows the final one is taken for a line.
FlushPending(v, half) == cmd.mode = "filter" /\ v # "none" /\ half

Read ==
    /\ phase = "reading" /\ wire # <<>>
    /\ \E b \in Blocks :
        LET n == b[1]  half == b[2]
            f == Filter(Lines(n))
            p == IF cmd.mode = "filter" THEN f ELSE Preserve(Lines(n))
            q == IF cmd.mode = "filter" THEN f.resp
                 ELSE resp \o (IF cmd.mode = "imei" THEN Lines(n) ELSE Stub(n))
            v == Verdict(q, half)
            flush == FlushPending(v, half)
        IN  /\ urcs' = p.urcs /\ resp' = q
            /\ waitPdu' = IF flush /\ wire[n + 1].k = "pdu" THEN FALSE ELSE p.wait
            /\ wire' = Rest(n, half) /\ carry' = IF flush THEN <<>> ELSE Carry(n, half)
            /\ cut' = IF flush THEN cut \cup {wire[n + 1]} ELSE cut
            /\ outcome' = v /\ phase' = IF v = "none" THEN "reading" ELSE "idle"
            \* The PDU is written once the prompt is there.
            /\ IF cmd.mode = "pdu" /\ Has(q, "prompt") /\ ~Has(resp, "prompt")
               THEN \E a \in {<<"cmgs", "ok">>, <<"error">>} :
                        todo' = todo \o [i \in DOMAIN a |-> Line(a[i], cmd.n)]
               ELSE UNCHANGED todo
    /\ UNCHANGED <<emitted, cmd, clean>>

TimeOut ==
    /\ phase = "reading" /\ phase' = "idle" /\ outcome' = "timeout"
    /\ UNCHANGED <<wire, todo, emitted, carry, waitPdu, urcs, cut, cmd, clean, resp>>

Next == Answer \/ Urc \/ (\E m \in Modes : Begin(m)) \/ Drain \/ Write \/ Read \/ TimeOut
Spec == Init /\ [][Next]_vars

-----------------------------------------------------------------------------
(* Properties                                                               *)

TypeOK ==
    /\ phase \in {"idle", "draining", "reading"} /\ outcome \in {"none", "ok", "fail", "timeout"}
    /\ waitPdu \in BOOLEAN /\ clean \in BOOLEAN /\ Len(carry) <= 1 /\ Len(wire) <= MaxWire + 1
    /\ cmd.n \in 0 .. MaxCommands /\ cmd.mode \in Modes \cup {"none"}

Coming == Of(carry \o wire, Unsolicited)
\* What a cut line takes with it: the PDU of a header.
Lost == cut \cup {l \in Range(emitted) : l.k = "pdu" /\ Line("cmt", l.n - 1) \in cut}

\* Every unsolicited line reaches the buffer once, whole and in order, whatever
\* command is being read and wherever a block ends; but for the line that a
\* filtered answer's end has cut.
UrcsKept ==
    SelectSeq(Of(urcs, Unsolicited) \o Coming, LAMBDA l : l \notin Lost)
      = SelectSeq(emitted, LAMBDA l : l \notin Lost)

\* idf_modem_query_filter.h: "all remaining + lines are unsolicited and
\* preserved".
AllPreserved == Of(urcs, Unsolicited) \o Coming = emitted

\* A command that was written when nothing was owed ends with what the modem
\* answered to it, whatever unsolicited lines came between.
InStep ==
    clean /\ outcome \in {"ok", "fail"} =>
        LET own == SelectSeq(resp, LAMBDA l : l.k \notin Unsolicited)
        IN  /\ \A i \in DOMAIN own : own[i].n = cmd.n
            /\ outcome = "fail" <=> Has(own, "error")
=============================================================================
