-------------------------------- MODULE Es9 --------------------------------
(***************************************************************************)
(* One HTTPS exchange with an SM-DP+ server (idf_lpa_es9_transport.cpp):   *)
(* a request whose answer is kept ("post"), a notification whose answer    *)
(* must be empty ("notice"), and the download whose body is streamed into  *)
(* the card ("package").                                                   *)
(*                                                                         *)
(* The ESP-IDF HTTP client is external: its calls have any outcome it may  *)
(* report.  A call that reports EAGAIN and is repeated is a stuttering     *)
(* step.  Headers arrive together; bodies arrive in pieces.                *)
(***************************************************************************)
EXTENDS Integers, Sequences, FiniteSets

CONSTANTS Parts,        \* pieces of a request
          MaxBody,      \* most pieces of an answer that is kept or streamed
          Answers       \* what the server may answer

VARIABLES
    kind,       \* the operation
    answer,     \* the server's answer: status, protocol header, length header, size, framing
    at,         \* where the exchange is
    sent,       \* what was put on the wire: 0 is the request's header
    written,    \* pieces of the request that the client reported written
    capture,    \* ResponseCapture
    late,       \* the deadline has passed
    fed,        \* pieces fed to the card
    closes,     \* how often the connection was closed
    result      \* the transport error, "none" at first

vars == <<kind, answer, at, sent, written, capture, late, fed, closes, result>>

Kinds == {"post", "notice", "package"}
Captured == {"none", "timeout", "too_large", "status", "protocol", "body", "redirect"}
Results == Captured \cup {"config", "transport", "write"}

Fresh == [connected |-> FALSE, status |-> -1, protocol |-> "none", length |-> -1, bytes |-> 0,
          error |-> "none", closed |-> FALSE]

TypeOK ==
    /\ kind \in Kinds /\ answer \in Answers
    /\ at \in {"start", "open", "write", "fetch", "read", "check", "connecting", "sending",
               "answering", "streaming", "close", "install", "ended"}
    /\ sent \in Seq(0 .. Parts) /\ written \in 0 .. Parts
    /\ capture \in [connected : BOOLEAN, status : {-1, 200, 204, 302, 500},
                    protocol : {"none", "good", "bad"}, length : -2 .. MaxBody + 3,
                    bytes : 0 .. MaxBody + 1, error : Captured, closed : BOOLEAN]
    /\ late \in BOOLEAN /\ fed \in 0 .. MaxBody + 1 /\ closes \in Nat /\ result \in Results

Init ==
    /\ kind \in Kinds /\ answer \in Answers /\ at = "start"
    /\ sent = <<>> /\ written = 0 /\ capture = Fresh /\ late = FALSE /\ fed = 0
    /\ closes = 0 /\ result = "none"

-----------------------------------------------------------------------------

Expire == ~late /\ at # "ended" /\ late' = TRUE
          /\ UNCHANGED <<kind, answer, at, sent, written, capture, fed, closes, result>>

End(error) == at' = "close" /\ result' = error
Timely(error) == IF late THEN "timeout" ELSE error

TooLateToAsk ==
    /\ late /\ at \in {"open", "write", "connecting", "sending"}
    /\ End("timeout")
    /\ UNCHANGED <<kind, answer, sent, written, capture, late, fed, closes>>

\* Deadline::apply fails: a time-out before the next call.
TooLate ==
    /\ late /\ at \in {"open", "write", "fetch", "read", "connecting", "sending", "answering",
                      "streaming"}
    /\ End("timeout")
    /\ UNCHANGED <<kind, answer, sent, written, capture, late, fed, closes>>

\* The client is made and configured.
Start(ok) ==
    /\ at = "start"
    /\ IF ok THEN at' = (IF kind = "package" THEN "connecting" ELSE "open") /\ UNCHANGED result
             ELSE End("config")
    /\ UNCHANGED <<kind, answer, sent, written, capture, late, fed, closes>>

\* esp_http_client_open: what it sent before it gave up is not known.
Open(headed, ok) ==
    /\ at = "open" /\ (ok => headed)
    /\ capture' = [capture EXCEPT !.connected = TRUE]
    /\ sent' = IF headed THEN Append(sent, 0) ELSE sent
    /\ IF ok THEN at' = "write" /\ UNCHANGED result ELSE End(Timely("transport"))
    /\ UNCHANGED <<kind, answer, written, late, fed, closes>>

WriteAgain(gone, ok) ==
    /\ at = "write" /\ written < Parts /\ (ok => gone) /\ Len(sent) < Parts + 3
    /\ sent' = IF gone THEN Append(sent, written + 1) ELSE sent
    /\ written' = IF ok THEN written + 1 ELSE written
    /\ UNCHANGED <<kind, answer, at, capture, late, fed, closes, result>>

\* A write that reports no progress may have sent its piece; it is not repeated.
Write(gone, ok) ==
    /\ at = "write" /\ written < Parts /\ (ok => gone)
    /\ sent' = IF gone THEN Append(sent, written + 1) ELSE sent
    /\ \/ ok /\ written' = written + 1 /\ UNCHANGED <<at, result>>
       \/ ~ok /\ End(Timely("write")) /\ UNCHANGED written
    /\ UNCHANGED <<kind, answer, capture, late, fed, closes>>

Written ==
    /\ at = "write" /\ written = Parts /\ at' = "fetch"
    /\ UNCHANGED <<kind, answer, sent, written, capture, late, fed, closes, result>>

-----------------------------------------------------------------------------
(* on_http_event. *)

FirstProtocol == IF answer.protocol = "twice" THEN "good" ELSE answer.protocol

Protocol == IF answer.protocol = "twice" THEN "bad" ELSE answer.protocol

\* The length as declared; -2 is a header that is malformed or repeated.
Length == CASE answer.length = "none"  -> -1
            [] answer.length = "right" -> answer.size
            [] answer.length = "long"  -> answer.size + 1
            [] answer.length = "bad"   -> -2

Headed == [capture EXCEPT !.status = answer.status, !.protocol = Protocol, !.length = Length]

\* stream_preflight_error.
Preflight(c) ==
    CASE c.status = 302 -> "redirect"
      [] c.status # 200 /\ c.status # 302 -> "status"
      [] c.status = 200 /\ c.protocol # "good" -> "protocol"
      [] c.status = 200 /\ c.protocol = "good" /\ c.length = -2 -> "body"
      [] c.status = 200 /\ c.protocol = "good" /\ c.length > MaxBody -> "too_large"
      [] OTHER -> "none"

KeptAll(c) == [c EXCEPT !.bytes = @ + 1]

\* A piece of an answer that is kept.
Kept(c) == IF c.bytes >= MaxBody
              THEN [c EXCEPT !.bytes = MaxBody + 1, !.error = "too_large"]
              ELSE [c EXCEPT !.bytes = @ + 1]

\* All of the answer has arrived, as its framing tells.
Complete == answer.length \in {"right", "none"} /\ answer.framed /\ capture.bytes = answer.size

-----------------------------------------------------------------------------
(* post_json. *)

\* esp_http_client_fetch_headers.
Fetch(ok) ==
    /\ at = "fetch"
    /\ capture' = IF ok THEN Headed ELSE capture
    /\ \/ ok /\ Length > MaxBody /\ End("too_large")
       \/ ok /\ Length <= MaxBody /\ at' = "read" /\ UNCHANGED result
       \/ ~ok /\ End(Timely("transport"))
    /\ UNCHANGED <<kind, answer, sent, written, late, fed, closes>>

\* esp_http_client_read of a piece.
Read ==
    /\ at = "read" /\ ~Complete /\ capture.bytes < answer.size /\ capture' = Kept(capture)
    /\ IF capture'.error # "none" THEN End(capture'.error) ELSE UNCHANGED <<at, result>>
    /\ UNCHANGED <<kind, answer, sent, written, late, fed, closes>>

\* The connection ends or fails in the middle.
ReadFails ==
    /\ at = "read" /\ ~Complete /\ End(Timely("transport"))
    /\ UNCHANGED <<kind, answer, sent, written, capture, late, fed, closes>>

Received ==
    /\ at = "read" /\ Complete /\ at' = "check"
    /\ UNCHANGED <<kind, answer, sent, written, capture, late, fed, closes, result>>

\* The checks of idf_lpa_es9_post_json.
PostError ==
    CASE capture.status = 302 -> "redirect"
      [] capture.status # 302 /\ capture.protocol # "good" -> "protocol"
      [] OTHER -> IF capture.status # (IF kind = "notice" THEN 204 ELSE 200) THEN "status"
                  ELSE IF (kind = "notice") # (capture.bytes = 0) THEN "body" ELSE "none"

CheckPost ==
    /\ at = "check" /\ kind # "package" /\ End(PostError)
    /\ UNCHANGED <<kind, answer, sent, written, capture, late, fed, closes>>

-----------------------------------------------------------------------------
(* perform_bpp_response. *)

\* abort_http_event closes the connection at once.
Aborted(c, error) == [c EXCEPT !.error = error, !.closed = TRUE]

\* Connecting may be repeated, since nothing has been sent.
Connect ==
    /\ at = "connecting" /\ at' = "sending"
    /\ capture' = [capture EXCEPT !.connected = TRUE]
    /\ UNCHANGED <<kind, answer, sent, written, late, fed, closes, result>>

ConnectFails ==
    /\ at = "connecting" /\ End("write")
    /\ UNCHANGED <<kind, answer, sent, written, capture, late, fed, closes>>

Transmit ==
    /\ at = "sending" /\ Len(sent) <= Parts
    /\ sent' = Append(sent, Len(sent))
    /\ at' = IF Len(sent) = Parts THEN "answering" ELSE "sending"
    /\ UNCHANGED <<kind, answer, written, capture, late, fed, closes, result>>

\* EAGAIN after some progress: the request must not be replayed.
TransmitFails ==
    /\ at = "sending" /\ End(Timely("write"))
    /\ UNCHANGED <<kind, answer, sent, written, capture, late, fed, closes>>

\* The response's headers, with the preflight at their end.
Respond ==
    /\ at = "answering"
    /\ IF late
          THEN capture' = Aborted(capture, "timeout") /\ closes' = closes + 1
          ELSE LET error == Preflight(Headed) IN
               IF error = "none" THEN capture' = Headed /\ UNCHANGED closes
               ELSE capture' = Aborted(Headed, error) /\ closes' = closes + 1
    /\ IF capture'.error = "none" THEN at' = "streaming" /\ UNCHANGED result
                                  ELSE End(Timely(capture'.error))
    /\ UNCHANGED <<kind, answer, sent, written, late, fed>>

\* A piece of the package goes to the card.
Stream(taken) ==
    /\ at = "streaming" /\ capture.bytes < answer.size
    /\ LET error == IF late THEN "timeout"
                    ELSE IF capture.bytes >= MaxBody THEN "too_large"
                    ELSE IF ~taken THEN "body" ELSE "none"
           c == [capture EXCEPT !.bytes = @ + 1] IN
       /\ fed' = IF error \in {"none", "body"} THEN fed + 1 ELSE fed
       /\ IF error = "none"
             THEN capture' = c /\ UNCHANGED <<at, closes, result>>
             ELSE capture' = Aborted(c, error) /\ closes' = closes + 1 /\ End(error)
    /\ UNCHANGED <<kind, answer, sent, written, late>>

\* perform returns although the package is not whole.
StreamFails ==
    /\ at \in {"answering", "streaming"}
    /\ \E e \in {"body", "transport"} : End(Timely(e))
    /\ UNCHANGED <<kind, answer, sent, written, capture, late, fed, closes>>

\* The stream ends, which without a length header may be too early.
StreamEnds ==
    /\ at = "streaming" /\ (capture.length = -1 \/ capture.bytes = answer.size)
    /\ End(IF late THEN "timeout"
           ELSE IF capture.length >= 0 /\ capture.bytes # capture.length THEN "body" ELSE "none")
    /\ UNCHANGED <<kind, answer, sent, written, capture, late, fed, closes>>

-----------------------------------------------------------------------------

CloseTwice(ok) ==
    /\ at = "close" /\ closes' = closes + 1
    /\ result' = IF result = "none" /\ ~ok THEN "transport" ELSE result
    /\ at' = IF kind = "package" /\ result' = "none" THEN "install" ELSE "ended"
    /\ UNCHANGED <<kind, answer, sent, written, capture, late, fed>>

\* close_http_once and the cleanup, which may fail.
Close(ok) ==
    /\ at = "close" /\ closes' = IF capture.closed THEN closes ELSE closes + 1
    /\ result' = IF result = "none" /\ ~ok THEN "transport" ELSE result
    /\ at' = IF kind = "package" /\ result' = "none" THEN "install" ELSE "ended"
    /\ UNCHANGED <<kind, answer, sent, written, capture, late, fed>>

InstallBlindly ==
    /\ at = "install" /\ at' = "ended"
    /\ result' = IF late THEN "timeout" ELSE "none"
    /\ UNCHANGED <<kind, answer, sent, written, capture, late, fed, closes>>

\* IdfLpaBppStream::finish accepts a whole package only (see Bpp).
Install ==
    /\ at = "install" /\ at' = "ended"
    /\ result' = IF late THEN "timeout" ELSE IF fed # answer.size THEN "body" ELSE "none"
    /\ UNCHANGED <<kind, answer, sent, written, capture, late, fed, closes>>

\* What needs nobody's answer.
Local == \/ TooLate \/ Written \/ Received \/ CheckPost \/ Install
         \/ \E ok \in BOOLEAN : Start(ok) \/ Close(ok)

Peer == \/ \E ok \in BOOLEAN : \/ Fetch(ok) \/ Stream(ok)
                              \/ \E before \in BOOLEAN : Open(before, ok) \/ Write(before, ok)
        \/ Read \/ ReadFails \/ Connect \/ ConnectFails \/ Transmit \/ TransmitFails
        \/ Respond \/ StreamFails \/ StreamEnds

Next == Local \/ Peer \/ Expire

\* The server may never answer; every call returns within the time-out that
\* Deadline::apply gave it, and time passes.
Fairness == WF_vars(Local) /\ WF_vars(Expire)

Spec == Init /\ [][Next]_vars /\ Fairness

-----------------------------------------------------------------------------
(* Properties *)

\* request_headers, idf_lpa_es9_transport.cpp:571: no part of a request reaches the
\* wire twice or out of order, whatever calls report about their progress.
RequestOnce == sent = [i \in 1 .. Len(sent) |-> i - 1]

\* The card is fed only by an answer whose status, protocol and length were right.
FedAfterPreflight ==
    fed > 0 => /\ answer.status = 200 /\ answer.protocol = "good"
               /\ answer.length # "bad" /\ fed <= MaxBody

\* What counts as success was sent whole by the server, with the right headers,
\* and was received whole.
SuccessIsWhole ==
    at = "ended" /\ result = "none" =>
        /\ Len(sent) = Parts + 1 /\ answer.protocol = "good"
        /\ answer.status = (IF kind = "notice" THEN 204 ELSE 200)
        /\ (IF kind = "package" THEN fed ELSE capture.bytes) = answer.size
        /\ answer.size <= MaxBody

\* The connection is closed once, also when the event handler closed it.
ClosedOnce == closes <= 1 /\ (at = "ended" => closes = 1)

\* Every exchange ends.
Ends == <>(at = "ended")
=============================================================================
