------------------------------ MODULE EsimApdu ------------------------------
(* One request to the eUICC's ISD-R: EsimApduSession opens a logical channel  *)
(* with AT+CCHO, sends the request in STORE DATA blocks with AT+CGLA, fetches *)
(* the rest of a long answer with GET RESPONSE and closes the channel. Every  *)
(* command may fail with or without being carried out, and its answer may     *)
(* have a notice of the modem in it. Sessions follow one another; a channel   *)
(* one of them left open is in the way of the next.                           *)
EXTENDS Naturals, Sequences

CONSTANTS
    Channels,       \* the card's logical channels, from 1
    Known,          \* those close_known_channels closes
    MaxBlocks,      \* blocks of a request (a bound)
    MaxSegments,    \* segments of an answer (a bound)
    ChainMax,       \* GET_RESPONSE_CHAIN_MAX
    DataMax,        \* APDU_RESPONSE_DATA_MAX, in segments
    MaxSessions,    \* bound
    MaxFaults       \* bound

VARIABLES
    taken,      \* channels open on the card
    got,        \* blocks the card has of this request
    answer,     \* segments the card has yet to send
    run,        \* requests the card carried out: blocks asked and got, segments answered
    s,          \* EsimApduSession
    request,    \* blocks, whether the terminal's capability is declared, policy
    sessions, faults,
    hurt        \* history: a fault struck this session

vars == <<taken, got, answer, run, s, request, sessions, faults, hurt>>

NoRequest == [blocks |-> 0, declare |-> FALSE, strict |-> FALSE]
Requests == [blocks : 1 .. MaxBlocks, declare : BOOLEAN, strict : BOOLEAN]
Idle == [at |-> "idle", open |-> FALSE, channel |-> 0, tries |-> 0, block |-> 0, candidate |-> 0,
         out |-> << >>, chain |-> 0]

Init ==
    /\ taken \in {{}, {1}, Known}
    /\ got = << >> /\ answer = << >> /\ run = << >>
    /\ s = Idle /\ request = NoRequest
    /\ sessions = 0 /\ faults = 0 /\ hurt = FALSE

(* ---- Commands and answers ---------------------------------------------- *)
\* The command was not carried out, its answer was lost, or a notice stands in
\* the answer: find_unique_response_line tolerates one only for profile reads.
Fates == {"good"} \cup (IF faults < MaxFaults THEN {"undone", "lost", "notice"} ELSE {})
Done(f) == f # "undone"
Read(f) == f = "good" \/ (f = "notice" /\ ~request.strict)
Spend(f) == faults' = faults + (IF f = "good" THEN 0 ELSE 1) /\ hurt' = (hurt \/ f # "good")

End(how) == s' = [Idle EXCEPT !.at = how, !.out = IF how = "answered" THEN s.out ELSE << >>]

\* invoke_es10_raw
Begin ==
    /\ s.at \in {"idle", "answered", "failed", "unopened"} /\ sessions < MaxSessions
    /\ request' \in Requests
    /\ s' = [Idle EXCEPT !.at = IF request'.declare THEN "declare" ELSE "open"]
    /\ sessions' = sessions + 1 /\ hurt' = FALSE /\ got' = << >> /\ answer' = << >>
    /\ UNCHANGED <<taken, run, faults>>

\* declare_terminal_capability: CSIM, before a channel is opened.
Declare ==
    /\ s.at = "declare"
    /\ \E f \in Fates : Spend(f) /\ (IF Done(f) /\ f # "lost" THEN s' = [s EXCEPT !.at = "open"]
                                                              ELSE End("failed"))
    /\ UNCHANGED <<taken, got, answer, run, request, sessions>>

(* ---- The channel ------------------------------------------------------- *)
Free == Channels \ taken
Lowest(set) == CHOOSE c \in set : \A d \in set : c <= d

\* parse_ccho_channel: the channel, and the candidate, which it also gives for an
\* answer it refuses when the number stood in it before what it refused.
ParseCcho(f, opened, seen, c) ==
    [found |-> opened /\ Read(f),
     candidate |-> IF opened /\ (Read(f) \/ (seen /\ f = "notice")) THEN c ELSE 0]

\* AT+CCHO
Open ==
    /\ s.at = "open"
    /\ \E f \in Fates, seen \in BOOLEAN :
         LET c == Lowest(Free)
             opened == Free # {} /\ Done(f)
             p == ParseCcho(f, opened, seen, c) IN
         /\ Spend(f)
         /\ taken' = IF opened THEN taken \cup {c} ELSE taken
         /\ s' = IF p.found
                 THEN [s EXCEPT !.at = "send", !.open = TRUE, !.channel = c]
                 ELSE [s EXCEPT !.at = "sweep", !.tries = @ + 1, !.candidate = p.candidate]
    /\ UNCHANGED <<got, answer, run, request, sessions>>

\* Nothing is closed.
SweptNone == {}
\* close_known_channels
Swept == (IF s.candidate = 0 THEN {} ELSE {s.candidate}) \cup Known

\* One of the closes may go undone. After the second failure there is no third try.
Sweep ==
    /\ s.at = "sweep"
    /\ \E undone \in {{}} \cup (IF faults < MaxFaults THEN {{c} : c \in Swept} ELSE {}) :
         /\ taken' = taken \ (Swept \ undone)
         /\ faults' = faults + (IF undone = {} THEN 0 ELSE 1)
         /\ hurt' = (hurt \/ undone # {})
    /\ IF s.tries < 2 THEN s' = [s EXCEPT !.at = "open", !.candidate = 0] ELSE End("unopened")
    /\ UNCHANGED <<got, answer, run, request, sessions>>

(* ---- STORE DATA and GET RESPONSE --------------------------------------- *)
\* One block too early.
LastEarly(b) == b + 1 >= request.blocks - 1
\* exchange_store_data: offset + n = payload.size()
Last(b) == b + 1 = request.blocks

\* The card carries a request out when its last block is there; it answers in
\* segments, each but the last announcing the next.
Blocks(n) == [i \in 1 .. n |-> i - 1]
Store ==
    /\ s.at = "send" /\ s.channel \in taken
    /\ \E f \in Fates, n \in 1 .. MaxSegments :
         LET last == Last(s.block) now == Append(got, s.block) IN
         /\ Spend(f)
         /\ ~last => n = 1
         /\ got' = IF Done(f) THEN now ELSE got
         /\ answer' = IF Done(f) THEN [i \in 1 .. n |-> i] ELSE << >>
         /\ run' = IF Done(f) /\ last
                   THEN Append(run, [asked |-> request.blocks, got |-> now, segments |-> n]) ELSE run
         /\ s' = IF Read(f) THEN [s EXCEPT !.at = "collect", !.out = << >>, !.chain = 0]
                            ELSE [s EXCEPT !.at = "close", !.out = << >>, !.block = MaxBlocks + 1]
    /\ UNCHANGED <<taken, request, sessions>>

\* Only what the newest answer brought.
LatestOnly(out, seg) == <<seg>>
\* collect_response appends.
Collected(out, seg) == Append(out, seg)

\* An error, or an answer that is too long: what was collected is dropped.
Spoil == s' = [s EXCEPT !.at = "close", !.out = << >>, !.block = MaxBlocks + 1]

\* The answer at hand: its data; then the next block, the end, or GET RESPONSE.
Collect ==
    /\ s.at = "collect" /\ answer # << >>
    /\ LET out == Collected(s.out, Head(answer)) more == Len(answer) > 1 IN
         IF Len(s.out) + 1 > DataMax \/ (more /\ s.chain + 1 > ChainMax)
         THEN Spoil
         ELSE s' = IF more THEN [s EXCEPT !.at = "more", !.out = out, !.chain = @ + 1]
                   ELSE IF Last(s.block) THEN [s EXCEPT !.at = "close", !.out = out, !.block = @ + 1]
                   ELSE [s EXCEPT !.at = "send", !.out = << >>, !.block = @ + 1]
    /\ answer' = Tail(answer)
    /\ UNCHANGED <<taken, got, run, request, sessions, faults, hurt>>

GetResponse ==
    /\ s.at = "more"
    /\ \E f \in Fates :
         /\ Spend(f)
         /\ IF Read(f) THEN s' = [s EXCEPT !.at = "collect"] ELSE Spoil
    /\ UNCHANGED <<taken, got, answer, run, request, sessions>>

\* The card answers with an error of its own.
CardRefuses ==
    /\ s.at \in {"send", "collect"} /\ faults < MaxFaults /\ faults' = faults + 1 /\ hurt' = TRUE
    /\ Spoil
    /\ UNCHANGED <<taken, got, answer, run, request, sessions>>

\* The destructor's close: its answer does not matter.
Close ==
    /\ s.at = "close"
    /\ \E f \in Fates :
         /\ faults' = faults + (IF f = "good" THEN 0 ELSE 1) /\ UNCHANGED hurt
         /\ taken' = IF Done(f) THEN taken \ {s.channel} ELSE taken
    /\ End(IF s.block = request.blocks THEN "answered" ELSE "failed")
    /\ UNCHANGED <<got, answer, run, request, sessions>>

Next == Begin \/ Declare \/ Open \/ Sweep \/ Store \/ Collect \/ GetResponse \/ CardRefuses \/ Close
Spec == Init /\ [][Next]_vars

-----------------------------------------------------------------------------
TypeOK ==
    /\ taken \subseteq Channels /\ request \in Requests \cup {NoRequest}
    /\ s.at \in {"idle", "declare", "open", "sweep", "send", "collect", "more", "close", "answered",
                 "failed", "unopened"}
    /\ s.open \in BOOLEAN /\ s.channel \in Channels \cup {0} /\ s.tries \in 0 .. 2
    /\ s.block \in 0 .. MaxBlocks + 1 /\ s.chain \in 0 .. ChainMax
    /\ sessions \in 0 .. MaxSessions /\ faults \in 0 .. MaxFaults

\* The card carries out whole requests only: all blocks, each once and in its
\* order; and an answer handed on is the card's whole answer to that request.
WholeRequest ==
    /\ \A i \in 1 .. Len(run) : run[i].got = Blocks(run[i].asked)
    /\ s.at = "answered" =>
         /\ run # << >> /\ run[Len(run)].got = Blocks(request.blocks)
         /\ s.out = [i \in 1 .. run[Len(run)].segments |-> i]

\* Channels left open by earlier sessions never keep a session out that is not
\* itself struck by a fault.
ChannelFound == s.at = "unopened" => hurt

-----------------------------------------------------------------------------
(* The inductive invariant.                                                *)

ApduAssumption ==
    /\ Channels \subseteq Nat \ {0} /\ 1 \in Channels
    /\ Known \subseteq Channels /\ Known # {}
    /\ MaxBlocks \in Nat \ {0} /\ MaxSegments \in Nat \ {0}
    /\ ChainMax \in Nat /\ DataMax \in Nat /\ MaxSessions \in Nat /\ MaxFaults \in Nat

States ==
    [at : {"idle", "declare", "open", "sweep", "send", "collect", "more", "close", "answered",
           "failed", "unopened"},
     open : BOOLEAN, channel : Channels \cup {0}, tries : 0 .. 2, block : 0 .. MaxBlocks + 1,
     candidate : Channels \cup {0}, out : Seq(Nat), chain : 0 .. ChainMax]
Executed == [asked : Nat, got : Seq(Nat), segments : Nat]

\* A channel is looked for twice; after a sweep without a fault there is one.
Opening ==
    /\ s.at \in {"declare", "open", "sweep"} => got = << >> /\ s.block = 0
    /\ s.at = "declare" => s.tries = 0
    /\ s.at = "open" => s.tries < 2 /\ (s.tries = 1 => hurt \/ Free # {})
    /\ s.at = "sweep" => s.tries > 0 /\ (s.tries = 2 => hurt)
    /\ s.at = "unopened" => hurt

\* The card has the blocks that were sent, in their order.
Sending == s.at = "send" => s.block < request.blocks /\ got = Blocks(s.block)

\* What was collected and what the card still has are its answer.
Segments(from, n) == [i \in 1 .. n |-> from + i]
Newest == run[Len(run)]
Collecting ==
    s.at \in {"collect", "more"} =>
      /\ s.block < request.blocks /\ got = Blocks(s.block + 1)
      /\ s.out = Segments(0, Len(s.out)) /\ answer = Segments(Len(s.out), Len(answer))
      /\ Last(s.block) => /\ run # << >> /\ Newest.got = Blocks(request.blocks)
                          /\ Newest.segments = Len(s.out) + Len(answer)

Closing ==
    s.at = "answered" \/ (s.at = "close" /\ s.block = request.blocks) =>
      /\ run # << >> /\ Newest.got = Blocks(request.blocks)
      /\ s.out = Segments(0, Newest.segments)

Requested == s.at # "idle" => request \in Requests
RunsWhole == run \in Seq(Executed) /\ \A i \in 1 .. Len(run) : run[i].got = Blocks(run[i].asked)

IInv == /\ TypeOK /\ s \in States /\ hurt \in BOOLEAN
        /\ got \in Seq(Nat) /\ answer \in Seq(Nat) /\ RunsWhole /\ Requested
        /\ Opening /\ Sending /\ Collecting /\ Closing
=============================================================================
