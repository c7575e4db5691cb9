------------------------------ MODULE MipWire ------------------------------
(* The answers of the modem's TCP commands as idf_modem_https_wire judges     *)
(* them. An answer is the sequence of its lines, in which notices of the      *)
(* modem, a message being delivered and late lines of other commands may      *)
(* stand anywhere. A line keeps its kind and its fields:                      *)
(*   echo, ok, error   the command, OK, ERROR or +CME ERROR                   *)
(*   cmt, pdu, known   a message's header, hexadecimal digits, is_known_urc   *)
(*   rtcp, disconn     +MIPURC: data has arrived, the peer has closed         *)
(*   garbled           +MIPURC: with anything else in it                      *)
(*   answer            the line the command asks for: cid and value, a value  *)
(*                     alone ("bare"), or fields parse_csv or parse_uint refuse *)
(*   open              +MIPOPEN: cid,value                                    *)
(*   other             any other line                                         *)
EXTENDS Naturals, Sequences, FiniteSets, SequencesExt

Reject == [ok |-> FALSE]
LinesOf(lines, kinds) == SelectSeq(lines, LAMBDA l : l.k \in kinds)
Count(lines, kinds) == Len(LinesOf(lines, kinds))

(* ---- scan_frame -------------------------------------------------------- *)
\* Lines that are no part of an answer are passed over; a PDU only right after
\* its +CMT header, echoes and line ends aside.
ScanStep(line, acc) ==
    CASE ~acc.ok -> acc
      [] acc.ok /\ line.k = "echo" -> [acc EXCEPT !.echoes = @ + 1]
      [] acc.ok /\ line.k = "ok" -> [acc EXCEPT !.oks = @ + 1, !.ok = acc.oks = 0]
      [] acc.ok /\ line.k = "error" -> [acc EXCEPT !.ok = FALSE]
      [] acc.ok /\ line.k = "cmt" -> [acc EXCEPT !.aux = TRUE, !.wait = TRUE]
      [] acc.ok /\ line.k = "pdu" /\ acc.wait -> [acc EXCEPT !.aux = TRUE, !.wait = FALSE]
      [] acc.ok /\ line.k = "known" -> [acc EXCEPT !.aux = TRUE, !.wait = FALSE]
      [] OTHER -> [acc EXCEPT !.body = Append(@, line), !.wait = FALSE]
Scanned(lines) ==
    FoldLeft(LAMBDA acc, line : ScanStep(line, acc),
             [ok |-> TRUE, oks |-> 0, echoes |-> 0, aux |-> FALSE, wait |-> FALSE,
              body |-> << >>], lines)
Frame(lines) == LET s == Scanned(lines) IN [s EXCEPT !.ok = s.ok /\ s.oks = 1]

(* ---- One line asked for ------------------------------------------------ *)
\* Every notice is passed over.
AnyNotice(line) == line.k \in {"rtcp", "disconn", "garbled"}
\* consume_nonfatal_mip_urc
Nonfatal(line) == line.k = "rtcp"
Asked(body) == SelectSeq(body, LAMBDA l : ~Nonfatal(l))

\* parse_result_impl: the line of the command, once, for socket 0. A closed
\* socket may be told without its number.
Result(lines, single) ==
    LET f == Frame(lines) a == Asked(f.body) IN
    IF ~f.ok \/ Len(a) # 1 \/ a[1].k # "answer" THEN Reject
    ELSE IF a[1].form = "bare" THEN IF single THEN [ok |-> TRUE, value |-> 0] ELSE Reject
    ELSE IF a[1].cid # 0 \/ a[1].form = "bad" THEN Reject
    ELSE [ok |-> TRUE, value |-> a[1].value]

\* parse_cfg_response: the setting asked for, with one value or two.
Config(lines) == Result(lines, FALSE)

\* has_single_mip_close_zero and parse_mip_close_result: a close told without
\* its socket needs to be confirmed.
SingleClose(lines) ==
    /\ Cardinality({i \in 1 .. Len(lines) : lines[i].k = "answer" /\ lines[i].form = "bare"
                                            /\ lines[i].value = 0}) = 1
    /\ Count(lines, {"ok"}) <= 1
Closed(lines) ==
    LET single == SingleClose(lines) r == Result(lines, single) IN
      IF r.ok THEN [ok |-> TRUE, value |-> r.value, confirm |-> single] ELSE Reject

\* parse_mip_open_line: any result but zero is a refusal.
OpenLine(line) == line.k = "open" /\ line.cid = 0 /\ line.value = 0

\* parse_mip_open: the result may come with the answer, or later.
Opened(lines) ==
    LET f == Frame(lines) a == Asked(f.body) IN
      IF ~f.ok \/ Len(a) > 1 \/ (\E i \in 1 .. Len(a) : ~OpenLine(a[i])) THEN Reject
      ELSE [ok |-> TRUE, present |-> a # << >>]

\* parse_mip_state_disposition and classify_mip_state: beside the state a result
\* of the open may stand.
State(lines) ==
    LET f == Frame(lines) a == Asked(f.body)
        states == SelectSeq(a, LAMBDA l : l.k # "open")
        opens == SelectSeq(a, LAMBDA l : l.k = "open") IN
    IF \/ ~f.ok \/ Len(states) # 1 \/ Len(opens) > 1
       \/ \E i \in 1 .. Len(opens) : ~OpenLine(opens[i])
    THEN Reject
    ELSE LET l == states[1] IN
      IF \/ l.k # "answer" \/ l.form # "pair" \/ l.cid # 0
         \/ l.value \notin {"initial", "closed", "connected", "connecting"}
         \/ l.end \notin (CASE l.value = "initial" -> {"none"}
                            [] l.value = "closed" -> {"none", "good"}
                            [] OTHER -> {"good"})
      THEN Reject ELSE [ok |-> TRUE, value |-> l.value]

(* ---- Lists: parse_cgdccont, parse_cgact -------------------------------- *)
Contexts(lines, cid) ==
    LET f == Frame(lines) a == Asked(f.body) IN
    IF \/ ~f.ok \/ f.body = << >>
       \/ \E i \in 1 .. Len(a) : a[i].k # "answer" \/ a[i].form # "pair"
       \/ \E i, j \in 1 .. Len(a) : i # j /\ a[i].cid = a[j].cid
       \/ \A i \in 1 .. Len(a) : a[i].cid # cid
    THEN Reject
    ELSE [ok |-> TRUE, value |-> a[CHOOSE i \in 1 .. Len(a) : a[i].cid = cid].value]

(* ---- Waiting for the socket: MipOpenLatch ------------------------------ *)
\* Everything the modem says goes through consume_line until CONNECTED; a line
\* cut off must not be the beginning of one that matters.
Latched(lines, cut) ==
    LET seen == SelectSeq(lines, LAMBDA l : l.k \in {"open", "rtcp", "disconn", "garbled"})
        opens == SelectSeq(seen, LAMBDA l : l.k = "open") IN
    /\ \A i \in 1 .. Len(seen) : OpenLine(seen[i]) \/ Nonfatal(seen[i])
    /\ Len(opens) <= 1
    /\ cut \notin {"open", "rtcp", "disconn", "garbled"}

(* ---- parse_read -------------------------------------------------------- *)
\* What a read brought: bytes, the number still waiting, whether the peer has
\* closed; or nothing but an echo and OK.
Read(lines, most) ==
    LET f == Frame(lines)
        reads == SelectSeq(f.body, LAMBDA l : l.k = "answer")
        closes == SelectSeq(f.body, LAMBDA l : l.k = "disconn") IN
    IF \/ ~f.ok \/ Len(reads) > 1 \/ Len(closes) > 1
       \/ \E i \in 1 .. Len(f.body) : f.body[i].k \notin {"answer", "disconn", "rtcp"}
    THEN Reject
    ELSE IF reads = << >>
    THEN IF closes # << >> THEN [ok |-> TRUE, data |-> << >>, closed |-> TRUE, none |-> FALSE]
         ELSE IF f.body = << >> /\ f.echoes <= 1 /\ ~f.aux
         THEN [ok |-> TRUE, data |-> << >>, closed |-> FALSE, none |-> TRUE]
         ELSE Reject
    ELSE LET l == reads[1] IN
         IF \/ l.cid # 0 \/ l.form = "bad" \/ Len(l.value) > most
            \/ (closes # << >> /\ l.unread # 0)
         THEN Reject
         ELSE [ok |-> TRUE, data |-> l.value, closed |-> closes # << >>, none |-> FALSE]
=============================================================================
