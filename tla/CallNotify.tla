----------------------------- MODULE CallNotify -----------------------------
(* Notification of incoming calls (idf_sms.cpp): RING and +CLIP lines reach  *)
(* the SMS task in batches; a number that +CLIP does not give is asked for   *)
(* with AT+CLCC some time after the first RING.                              *)
EXTENDS Naturals, Sequences, FiniteSets, SequencesExt, FiniteSetsExt

CONSTANTS
    Numbers,    \* callers
    Blocked,    \* those whose canonical number is on the blocklist
    Gap,        \* CALL_GAP_US
    Delay,      \* CALL_CLCC_DELAY_US
    MaxLines    \* bound: lines of a behaviour

VARIABLES
    calling,    \* the caller that rings now
    lines,      \* lines not yet taken
    heard,      \* lines the modem sent (bound)
    call,       \* s_call_*: the session, its age, and the callers in it (history)
    sessions,   \* sessions begun (history)
    phase,      \* of the SMS task: "top" (the rest of the loop too), "flush", "query", "late"
    asked,      \* session and first ring when AT+CLCC was sent
    recovered,  \* the number it gave
    enabled,    \* the calls are to be notified
    busy,       \* an eSIM session, or the PDU of a message, is awaited
    told        \* notifications: session and number

vars == <<calling, lines, heard, call, sessions, phase, asked, recovered, enabled, busy, told>>

NoNumber == "none"
FreshOf(n) == [active |-> TRUE, notified |-> FALSE, saw |-> FALSE, tried |-> FALSE, number |-> n, quiet |-> 0, rung |-> 0,
               from |-> {}]
FreshKeeping(old) == FreshOf(old.number)
Fresh(old) == FreshOf(NoNumber)

Init ==
    /\ calling = NoNumber /\ lines = <<>> /\ heard = 0 /\ sessions = 0 /\ phase = "top" /\ asked = 0
    /\ call = [FreshOf(NoNumber) EXCEPT !.active = FALSE] /\ recovered = NoNumber /\ enabled \in BOOLEAN /\ busy = FALSE /\ told = {}

-----------------------------------------------------------------------------
(* The world                                                                *)

Dial(n) ==
    /\ calling = NoNumber /\ calling' = n
    /\ UNCHANGED <<lines, heard, call, sessions, phase, asked, recovered, enabled, busy, told>>
HangUp ==
    /\ calling # NoNumber /\ calling' = NoNumber
    /\ UNCHANGED <<lines, heard, call, sessions, phase, asked, recovered, enabled, busy, told>>
\* parse_clip_number yields nothing for a withheld or malformed number.
Line ==
    /\ calling # NoNumber /\ heard < MaxLines /\ heard' = heard + 1
    /\ \E k \in {"ring", "clip"} :
         \E n \in (IF k = "ring" THEN {NoNumber} ELSE {calling, NoNumber}) :
             lines' = Append(lines, [k |-> k, n |-> n, from |-> calling])
    /\ UNCHANGED <<calling, call, sessions, phase, asked, recovered, enabled, busy, told>>
Older(n, cap) == IF n > cap THEN n ELSE n + 1
Tick ==
    /\ call.active
    /\ call' = [call EXCEPT !.quiet = Older(@, Gap), !.rung = Older(@, Delay)]
    /\ call' # call
    /\ UNCHANGED <<calling, lines, heard, sessions, phase, asked, recovered, enabled, busy, told>>
Configure ==
    /\ \/ enabled' = ~enabled /\ UNCHANGED busy
       \/ busy' = ~busy /\ UNCHANGED enabled
    /\ UNCHANGED <<calling, lines, heard, call, sessions, phase, asked, recovered, told>>

-----------------------------------------------------------------------------
(* The SMS task                                                             *)

\* notify_incoming_call
Notify(s, n) ==
    [s EXCEPT !.call.notified = TRUE,
              !.told = IF enabled /\ n \notin Blocked THEN @ \cup {[session |-> s.sessions, n |-> n, from |-> s.call.from, k |-> Cardinality({t \in @ : t.session = s.sessions})]} ELSE @]

\* handle_call_urc_line
Session(s) ==
    IF ~s.call.active \/ s.call.quiet > Gap THEN [s EXCEPT !.call = Fresh(s.call), !.sessions = @ + 1] ELSE s
Heard(s, l) ==
    LET b == [Session(s) EXCEPT !.call.quiet = 0, !.call.from = @ \cup {l.from}]
        c == IF l.n # NoNumber THEN [b EXCEPT !.call.number = l.n] ELSE b
    IN  IF l.k = "clip"
        THEN IF ~c.call.notified /\ c.call.number # NoNumber THEN Notify(c, c.call.number) ELSE c
        ELSE IF ~c.call.saw THEN [c EXCEPT !.call.saw = TRUE, !.call.rung = 0] ELSE c
Now == [call |-> call, sessions |-> sessions, told |-> told]
Taken == FoldLeft(Heard, Now, lines)
Becomes(s) == call' = s.call /\ sessions' = s.sessions /\ told' = s.told

\* process_urc_text at the top of the loop
Take ==
    /\ phase = "top" /\ phase' = "flush" /\ lines' = <<>> /\ Becomes(Taken)
    /\ UNCHANGED <<calling, heard, asked, recovered, enabled, busy>>

NeverQuiet == FALSE
Quiet == call.quiet > Gap
Due == call.saw /\ ~call.notified /\ call.rung >= Delay
GivesUp == ~enabled \/ Quiet
\* flush_pending_call_notify
Flush ==
    /\ phase = "flush"
    /\ IF ~Due THEN phase' = "top" /\ UNCHANGED <<call, sessions, told, asked>>
       ELSE IF GivesUp THEN phase' = "top" /\ Becomes(Notify(Now, NoNumber)) /\ UNCHANGED asked
       ELSE IF busy \/ call.tried THEN phase' = "top" /\ UNCHANGED <<call, sessions, told, asked>>
       ELSE phase' = "query" /\ asked' = sessions /\ call' = [call EXCEPT !.tried = TRUE] /\ UNCHANGED <<sessions, told>>
    /\ UNCHANGED <<calling, lines, heard, recovered, enabled, busy>>

\* query_clcc_number: a whole answer with exactly one incoming call in it; the
\* rows may show the caller, a second one waiting, or nothing.
Recovered(rows) == IF Cardinality(rows) = 1 THEN CHOOSE n \in rows : TRUE ELSE NoNumber
Answer ==
    /\ phase = "query" /\ phase' = "late"
    /\ \E rows \in {{}, {calling}} \cup {{calling, n} : n \in Numbers} : recovered' = Recovered(rows)
    /\ call' = [call EXCEPT !.from = @ \cup {calling}]
    /\ UNCHANGED <<calling, lines, heard, sessions, asked, enabled, busy, told>>
\* The lines that came meanwhile first: they may have notified the call, or have
\* begun another.
StaleUnseen(s) == FALSE
Stale(s) == s.call.notified \/ ~s.call.saw \/ s.sessions # asked
Recover ==
    /\ phase = "late" /\ phase' = "top" /\ lines' = <<>> /\ recovered' = NoNumber
    /\ LET s == Taken
       IN  Becomes(IF Stale(s) THEN s ELSE Notify([s EXCEPT !.call.number = recovered], recovered))
    /\ UNCHANGED <<calling, heard, asked, enabled, busy>>

Next ==
    \/ \E n \in Numbers : Dial(n)
    \/ HangUp \/ Line \/ Tick \/ Configure
    \/ Take \/ Flush \/ Answer \/ Recover

Spec == Init /\ [][Next]_vars

-----------------------------------------------------------------------------
(* Properties                                                               *)

(* The state stays in its types.                                            *)
TypeOK ==
    /\ calling \in Numbers \cup {NoNumber} /\ recovered \in Numbers \cup {NoNumber}
    /\ Len(lines) <= heard /\ heard <= MaxLines
    /\ phase \in {"top", "flush", "query", "late"} /\ asked \in 0 .. sessions /\ enabled \in BOOLEAN /\ busy \in BOOLEAN
    /\ call.number \in Numbers \cup {NoNumber} /\ call.quiet \in 0 .. Gap + 1 /\ call.rung \in 0 .. Delay + 1
    /\ \A t \in told : t.session \in 1 .. sessions

(* However its lines and the answer to AT+CLCC interleave, one call is       *)
(* notified once, and a number in a notification is that of a caller heard   *)
(* in that session.                                                          *)
ToldOnce == \A t, u \in told : t.session = u.session => t = u
ToldRight == \A t \in told : t.n # NoNumber => t.n \in t.from

Rings == call.saw /\ ~call.notified
DealtWith == call.notified \/ ~call.saw

(* A call that rang does not wait for ever: it is notified (or, blocked or   *)
(* with notifications off, counts as notified), whatever keeps the modem     *)
(* busy, unless lines that come after the gap begin another session first.   *)
RingTold == Rings ~> DealtWith
=============================================================================
