------------------------------- MODULE Smtp -------------------------------
(* The sending of one queued email: process_email_one takes it, and          *)
(* send_smtp_email talks to the server, over implicit TLS on port 465 and    *)
(* otherwise over a plain connection raised by STARTTLS. The server answers  *)
(* in lines of which the last has a code of its own; it may refuse, fall     *)
(* silent or close at any point, and the limit of the session may expire at  *)
(* any read or write. A failed attempt is repeated later on a connection of  *)
(* its own. Addresses, subject and body are the one text "message"; DNS and  *)
(* TCP are part of the connection's outcome.                                 *)
EXTENDS Naturals, Sequences, FiniteSets

CONSTANTS
    MaxAttempts,    \* PUSH_RETRY_MAX
    MaxMore         \* lines before the last one of an answer (a bound)

VARIABLES
    implicit,   \* smtpPort is 465
    phase,      \* where send_smtp_email stands
    step,       \* the command under way, an index of Script
    line,       \* the connection: SmtpConn
    put,        \* pieces of the message written
    asked,      \* the command the server is answering, 0 for none
    more,       \* lines of that answer already sent
    lines,      \* what has arrived and was not read
    judged,     \* the command the last final line answered
    attempts,   \* EmailJob.attempts
    bare,       \* what was written to a connection without TLS
    mails,      \* messages the server has accepted
    heard,      \* acceptances send_smtp_email has read
    adrift      \* whole messages of ended attempts, not yet judged

vars == <<implicit, phase, step, line, put, asked, more, lines, judged, attempts, bare,
          mails, heard, adrift>>

Pieces == 2

\* On a connection that is TLS from its start.
ScriptImplicit == <<"greeting", "EHLO", "AUTH LOGIN", "user", "password", "MAIL", "RCPT", "DATA",
                    "message">>
\* Without STARTTLS.
ScriptInClear == ScriptImplicit
Script ==
    IF implicit THEN ScriptImplicit
    ELSE <<"greeting", "EHLO", "STARTTLS", "handshake", "EHLO", "AUTH LOGIN", "user", "password",
           "MAIL", "RCPT", "DATA", "message">>

\* The codes send_smtp_email goes on with.
Right(c) ==
    CASE c \in {"greeting", "STARTTLS"} -> {220}
      [] c = "RCPT" -> {250, 251}
      [] c \in {"AUTH LOGIN", "user"} -> {334}
      [] c = "password" -> {235}
      [] c = "DATA" -> {354}
      [] OTHER -> {250}

Line == [to : 1 .. 12, code : {220, 250, 251, 334, 235, 354, 550}, last : BOOLEAN]

Init ==
    /\ implicit \in BOOLEAN
    /\ phase = "queued" /\ line = "none"
    /\ step = 0 /\ put = 0 /\ asked = 0 /\ more = 0 /\ judged = 0
    /\ lines = << >> /\ bare = {}
    /\ attempts = 0 /\ mails = 0 /\ heard = 0 /\ adrift = 0

(* ---- The end of an attempt --------------------------------------------- *)
Whole == put = Pieces /\ asked # 0

\* The connection is closed; a whole message the server has not judged is out
\* of this attempt's hands.
Close ==
    /\ line' = "none" /\ lines' = << >> /\ asked' = 0 /\ more' = 0 /\ put' = 0 /\ step' = 0
    /\ adrift' = adrift + (IF Whole /\ line # "shut" THEN 1 ELSE 0)

\* process_email_one: another attempt later, or none any more.
Repeat ==
    /\ attempts' = attempts + 1
    /\ phase' = IF attempts + 1 >= MaxAttempts THEN "failed" ELSE "queued"

\* QUIT is written without waiting for its answer.
Fail == Close /\ Repeat /\ UNCHANGED <<implicit, judged, bare, mails, heard>>

(* ---- The connection ---------------------------------------------------- *)
Connected ==
    /\ line' = IF implicit THEN "tls" ELSE "plain"
    /\ phase' = "read" /\ step' = 1 /\ asked' = 1
    /\ UNCHANGED <<implicit, put, more, lines, judged, attempts, bare, mails, heard, adrift>>
Connect == phase = "queued" /\ (Connected \/ Fail)

\* mbedtls takes what is left in the socket for the server's handshake.
Verified(ok) == ok /\ lines = << >>
Upgrade(ok) ==
    /\ phase = "write" /\ Script[step] = "handshake"
    /\ IF Verified(ok) /\ line = "plain"
       THEN /\ line' = "tls" /\ step' = step + 1
            /\ UNCHANGED <<implicit, phase, put, asked, more, lines, judged, attempts, bare,
                           mails, heard, adrift>>
       ELSE Fail

(* ---- Commands ---------------------------------------------------------- *)
\* smtp_conn_write_all: what was written counts although the session's limit
\* has passed; the message goes out in pieces.
Written == IF Script[step] = "message" THEN put + 1 ELSE put
LastPiece == Script[step] = "message" => put + 1 = Pieces
Write ==
    /\ phase = "write" /\ Script[step] # "handshake" /\ line \in {"plain", "tls"}
    /\ put' = Written
    /\ bare' = IF line = "plain" THEN bare \cup {Script[step]} ELSE bare
    /\ phase' = IF LastPiece THEN "read" ELSE "write"
    /\ asked' = IF LastPiece THEN step ELSE 0
    /\ UNCHANGED <<implicit, step, line, more, lines, judged, attempts, mails, heard, adrift>>

\* The limit is noticed after the last piece: it is written, and the attempt has
\* failed all the same.
WriteLate ==
    /\ phase = "write" /\ Script[step] = "message" /\ put + 1 = Pieces /\ line = "tls"
    /\ line' = "none" /\ lines' = << >> /\ asked' = 0 /\ more' = 0 /\ put' = 0 /\ step' = 0
    /\ adrift' = adrift + 1
    /\ Repeat
    /\ UNCHANGED <<implicit, judged, bare, mails, heard>>
WriteFails == phase = "write" /\ Script[step] # "handshake" /\ Fail

(* ---- Answers: smtp_read_response --------------------------------------- *)
\* Any line with a code.
AnyLine(l) == TRUE
\* smtp_final_line_code: a code followed by a space or by nothing.
Final(l) == l.last
FirstOf(chunk) == {i \in 1 .. Len(chunk) :
                     Final(chunk[i]) /\ \A j \in 1 .. i - 1 : ~Final(chunk[j])}

\* After a good answer.
Judged(s) ==
    IF s < Len(Script) THEN phase' = "write" /\ step' = s + 1 /\ UNCHANGED heard
                       ELSE phase' = "quit" /\ step' = s /\ heard' = heard + 1

\* What was read behind the final line is forgotten with it.
Read ==
    /\ phase = "read"
    /\ \E n \in 1 .. Len(lines) :
         LET chunk == SubSeq(lines, 1, n) rest == SubSeq(lines, n + 1, Len(lines)) IN
           IF FirstOf(chunk) = {}
           THEN /\ lines' = rest
                /\ UNCHANGED <<implicit, phase, step, line, put, asked, more, judged, attempts,
                               bare, mails, heard, adrift>>
           ELSE LET l == chunk[CHOOSE i \in FirstOf(chunk) : TRUE] IN
                IF l.code \in Right(Script[step])
                THEN /\ Judged(step) /\ lines' = rest /\ judged' = l.to
                     /\ UNCHANGED <<implicit, line, put, asked, more, attempts, bare, mails,
                                    adrift>>
                ELSE Close /\ Repeat /\ judged' = l.to
                     /\ UNCHANGED <<implicit, bare, mails, heard>>

\* The answer's or the session's limit passes, or the server has closed.
ReadFails == phase = "read" /\ Fail

\* QUIT's answer decides.
EndedByQuit == (phase' = "sent" /\ UNCHANGED attempts) \/ Repeat
\* QUIT's own answer does not matter.
Ended == phase' = "sent" /\ UNCHANGED attempts
Quit ==
    /\ phase = "quit"
    /\ Close /\ Ended
    /\ UNCHANGED <<implicit, judged, bare, mails, heard>>

(* ---- The server -------------------------------------------------------- *)
AnswerMore(code) ==
    /\ asked # 0 /\ more < MaxMore /\ line # "shut"
    /\ more' = more + 1
    /\ lines' = Append(lines, [to |-> asked, code |-> code, last |-> FALSE])
    /\ UNCHANGED <<implicit, phase, step, line, put, asked, judged, attempts, bare, mails,
                   heard, adrift>>

Accepts(c, code) == c = "message" /\ code = 250
Answer(code) ==
    /\ asked # 0 /\ line # "shut"
    /\ lines' = Append(lines, [to |-> asked, code |-> code, last |-> TRUE])
    /\ mails' = mails + (IF Accepts(Script[asked], code) THEN 1 ELSE 0)
    /\ asked' = 0 /\ more' = 0
    /\ UNCHANGED <<implicit, phase, step, line, put, judged, attempts, bare, heard, adrift>>

Shut ==
    /\ line \in {"plain", "tls"} /\ line' = "shut"
    /\ UNCHANGED <<implicit, phase, step, put, asked, more, lines, judged, attempts, bare, mails,
                   heard, adrift>>

\* A message of an attempt that gave up is accepted after all, or is not.
JudgeLate ==
    /\ adrift > 0 /\ adrift' = adrift - 1
    /\ mails' \in {mails, mails + 1}
    /\ UNCHANGED <<implicit, phase, step, line, put, asked, more, lines, judged, attempts, bare,
                   heard>>

Done == phase \in {"sent", "failed"} /\ adrift = 0 /\ UNCHANGED vars

Codes(s) == IF s = 0 THEN {} ELSE Right(Script[s]) \cup {550}
Server == \/ \E code \in Codes(asked) : AnswerMore(code) \/ Answer(code)
          \/ Shut \/ JudgeLate
Sender == \/ Connect \/ \E ok \in BOOLEAN : Upgrade(ok)
          \/ Write \/ WriteLate \/ WriteFails \/ Read \/ ReadFails \/ Quit
Next == Server \/ Sender \/ Done
Spec == Init /\ [][Next]_vars

-----------------------------------------------------------------------------
TypeOK ==
    /\ implicit \in BOOLEAN
    /\ phase \in {"queued", "write", "read", "quit", "sent", "failed"}
    /\ step \in 0 .. Len(Script) /\ asked \in 0 .. Len(Script) /\ judged \in 0 .. 12
    /\ line \in {"none", "plain", "tls", "shut"}
    /\ put \in 0 .. Pieces /\ more \in 0 .. MaxMore
    /\ lines \in Seq(Line)
    /\ attempts \in 0 .. MaxAttempts
    /\ mails \in 0 .. MaxAttempts /\ heard \in 0 .. MaxAttempts /\ adrift \in 0 .. MaxAttempts

\* An answer is never taken for that of another command, however its lines are
\* cut into segments: before the next command the last final line read is that
\* of the one before it.
InStep == phase = "write" /\ Script[step] # "handshake" =>
    judged = step - (IF step > 1 /\ Script[step - 1] = "handshake" THEN 2 ELSE 1)

\* Nothing but the greeting's EHLO and STARTTLS is written in the clear: no
\* name, no password and no message.
Veiled == bare \subseteq {"EHLO", "STARTTLS"}

\* An email reported as sent was accepted, and a second copy can only come of an
\* attempt whose acceptance was never heard.
SentTrue ==
    /\ phase \in {"quit", "sent"} <=> heard > 0
    /\ heard <= 1 /\ heard <= mails
    /\ mails <= attempts + 1

-----------------------------------------------------------------------------
(* The inductive invariant.                                                *)

SmtpAssumption == MaxAttempts \in Nat \ {0} /\ MaxMore \in Nat

\* An attempt has a connection and a command under way; between attempts there
\* is neither.
Places ==
    /\ phase \in {"queued", "sent", "failed"} => step = 0 /\ line = "none" /\ put = 0
    /\ phase \in {"write", "read", "quit"} => step > 0 /\ line # "none"
    /\ phase = "read" => Script[step] # "handshake" /\ (Script[step] = "message" => put = Pieces)
    /\ phase = "write" => step > 1 /\ put < Pieces
    /\ phase \in {"write", "read"} /\ Script[step] # "message" => put = 0
    /\ phase = "quit" => step = Len(Script)

\* The server answers only the command under way, and ends with its one final
\* line, which is the last.
Answering ==
    /\ phase # "read" => asked = 0 /\ lines = << >>
    /\ asked \in {0, step} /\ (asked = 0 => more = 0)
    /\ phase = "read" /\ asked = 0 => lines # << >>
    /\ \A i \in 1 .. Len(lines) :
         lines[i].to = step /\ (lines[i].last <=> asked = 0 /\ i = Len(lines))

\* Without TLS the script has not come past its handshake.
Bare == line = "plain" => ~implicit /\ step <= 4

\* The final line on the message has come.
Answered == phase = "read" /\ Script[step] = "message" /\ asked = 0

\* Each attempt has at most one message, which the server has, may have, or had.
Accounts ==
    /\ phase # "failed" => attempts < MaxAttempts
    /\ heard \in {0, 1} /\ (heard = 1 <=> phase \in {"quit", "sent"})
    /\ mails + adrift <= attempts + 1
    /\ heard = 0 /\ ~Answered => mails + adrift <= attempts
    /\ heard = 1 => mails > 0
    /\ Answered /\ lines[Len(lines)].code = 250 => mails > 0

IInv == TypeOK /\ Places /\ Answering /\ Bare /\ Veiled /\ InStep /\ Accounts
        /\ (phase = "write" /\ Script[step] = "handshake" => judged = step - 1)
=============================================================================
