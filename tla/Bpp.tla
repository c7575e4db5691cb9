-------------------------------- MODULE Bpp --------------------------------
(***************************************************************************)
(* The download of a bound profile package, components/idf_lpa/            *)
(* idf_lpa_bpp.cpp: the server's JSON answer is parsed as it arrives, the  *)
(* package inside it is cut into its TLVs, and these go to the eUICC in    *)
(* segments of blocks while the rest of the answer is still on its way.    *)
(*                                                                         *)
(* A step of the model is one token of the answer: a member of a JSON      *)
(* object, the end of one, the header of a TLV, a byte of its value.  The  *)
(* server may send any token at any time, the card may refuse any block,   *)
(* and the transport may give up between any two tokens.  Sizes are small  *)
(* numbers: a header has size 1.                                           *)
(***************************************************************************)
EXTENDS Integers, SequencesExt

CONSTANTS
    Said,           \* the keys the server uses, by depth
    Lens,           \* the lengths it declares, by tag
    MaxDecoded,     \* IDF_LPA_BPP_MAX_DECODED_BYTES
    MaxSegment,     \* IDF_LPA_BPP_MAX_SEGMENT_BYTES
    MaxMetadata,    \* IDF_LPA_BPP_MAX_METADATA_WIRE_BYTES
    MaxElements,    \* IDF_LPA_BPP_MAX_ELEMENTS
    BlockBytes,     \* IDF_LPA_BPP_BLOCK_BYTES
    MaxBlock,       \* the last block number, 255
    MaxDepth,       \* kJsonMaxDepth
    MaxMembers,     \* kJsonMaxMembers
    MacBytes        \* the MAC at the end of a fragment of metadata, 8

Tags == {"BF36", "BF23", "A0", "87", "A1", "88", "A2", "A3", "86"}

Keys == {"header", "functionExecutionStatus", "status", "transactionId",
         "boundProfilePackage", "unknown"}
Values == {"{", "right", "wrong", "number"}

StatusPath == <<"header", "functionExecutionStatus", "status">>
TransactionPath == <<"transactionId">>

VARIABLES
    json,       \* the frames of the JSON document, and what has been seen
    der,        \* the parser of the package with the writer of segments
    card,       \* the segments begun on the card: tag, blocks sent, ended
    outcome,    \* what idf_lpa_es9_get_bound_profile_package will say
    agreed,     \* ghost: the package's metadata are those of the consent
    doc,        \* ghost: the telling paths the document really had, whole
    total       \* ghost: the size the package declares, with its header

vars == <<json, der, card, outcome, agreed, doc, total>>

NoParser ==
    [state |-> "outer_header", left |-> 0, kind |-> "outer_header", outer |-> 0,
     sequence |-> 0, inSequence |-> FALSE, children |-> 0, decoded |-> 0,
     segments |-> 0, elements |-> 0, parent |-> 0, partial |-> FALSE,
     final |-> FALSE, collecting |-> FALSE, wire |-> <<>>, result |-> FALSE,
     active |-> FALSE, bytes |-> 0]

NoDocument ==
    [frames |-> <<>>, headerDepth |-> 0, statusDepth |-> 0, function |-> FALSE,
     value |-> FALSE, status |-> FALSE, transaction |-> FALSE,
     package |-> FALSE, inPackage |-> FALSE, done |-> FALSE]

Init ==
    /\ json = NoDocument /\ der = NoParser /\ card = <<>> /\ outcome = "none"
    /\ agreed \in BOOLEAN /\ doc = {} /\ total = 0

(***************************************************************************)
(* A work in progress is the parser with the card; answer is what the card *)
(* says to the blocks and openings of this token: ok, nothing, or data.    *)
(***************************************************************************)
Failed(w) == [w EXCEPT !.p.state = "failed"]
Broken(w) == w.p.state = "failed"

\* Blocks sent when n bytes of a segment have been written: the last one waits.
Sent(n) == IF n = 0 THEN 0 ELSE (n - 1) \div BlockBytes

Begin(w, tag, answer) ==
    IF Broken(w) THEN w
    ELSE IF answer = "fail" /\ w.card = <<>> THEN Failed(w)    \* the opening
    ELSE [p |-> [w.p EXCEPT !.active = TRUE, !.bytes = 0],
          card |-> Append(w.card, [tag |-> tag, size |-> 0, blocks |-> 0, ended |-> FALSE])]

Write(w, n, answer) ==
    LET bytes == w.p.bytes + n
        new == Sent(bytes) - Sent(w.p.bytes)
    IN IF Broken(w) THEN w
       ELSE IF ~w.p.active \/ bytes > MaxSegment THEN Failed(w)
       ELSE LET at == Len(w.card)
                on == [w EXCEPT !.p.bytes = bytes, !.card[at].size = bytes,
                                !.card[at].blocks = @ + new]
            IN IF new > 0 /\ (answer # "ok" \/ Sent(bytes) - 1 > MaxBlock)
               THEN Failed(on) ELSE on

\* BppSegmentWriter::finish under finish_segment: the last block.
FinishSegment(w, final, answer) ==
    IF Broken(w) THEN w
    ELSE IF ~w.p.active \/ w.p.bytes = 0 \/ Sent(w.p.bytes) > MaxBlock THEN Failed(w)
    ELSE LET at == Len(w.card)
             on == [p |-> [w.p EXCEPT !.active = FALSE, !.bytes = 0,
                                      !.segments = @ + 1,
                                      !.result = @ \/ answer = "data"],
                    card |-> [w.card EXCEPT ![at].ended = TRUE,
                                            ![at].blocks = @ + 1]]
         IN IF \/ answer = "fail"
               \/ answer = "data" /\ (~final \/ w.p.result)
               \/ on.p.segments > MaxElements
            THEN Failed(on) ELSE on

Total(s) == FoldLeft(LAMBDA a, b : a + b, 0, s)

Emit(w, n, answer) ==
    LET wire == w.p.wire
        more == IF w.p.state = "value"
                THEN [wire EXCEPT ![Len(wire)] = @ + n] ELSE Append(wire, n)
        put  == IF ~w.p.collecting THEN Write(w, n, answer)
                ELSE IF Total(wire) + n > MaxMetadata THEN Failed(w)
                ELSE [w EXCEPT !.p.wire = more]
    IN IF Broken(w) THEN w
       ELSE IF \/ w.p.outer < n
               \/ w.p.inSequence /\ w.p.sequence < n
               \/ w.p.decoded + n > MaxDecoded
       THEN Failed(w)
       ELSE IF Broken(put) THEN put
       ELSE [put EXCEPT !.p.outer = @ - n, !.p.decoded = @ + n,
                        !.p.sequence = IF w.p.inSequence THEN @ - n ELSE @]

\* A replay that does not wait for the comparison.
VerifyTooLate(w, answer) ==
    LET Replay(v, n) ==
            FinishSegment(Write(Begin(v, IF Len(v.card) = 2 THEN "A1" ELSE "88", answer),
                                n, answer), FALSE, answer)
        sent == FoldLeft(Replay, [w EXCEPT !.p.collecting = FALSE], w.p.wire)
    IN IF ~agreed THEN Failed(sent) ELSE [sent EXCEPT !.p.wire = <<>>]

\* verify_and_replay_metadata: nothing of A1 has gone to the card before.
VerifyAndReplay(w, answer) ==
    LET Replay(v, n) ==
            FinishSegment(Write(Begin(v, IF Len(v.card) = 2 THEN "A1" ELSE "88", answer),
                                n, answer), FALSE, answer)
        start == [w EXCEPT !.p.collecting = FALSE]
        sent == FoldLeft(Replay, start, w.p.wire)
    IN IF ~agreed \/ \E i \in 2 .. Len(w.p.wire) : w.p.wire[i] <= 1 + MacBytes
       THEN Failed(w)
       ELSE [sent EXCEPT !.p.wire = <<>>]

\* What feed and finish do first when a sequence has come to its end.
LeaveMetadata(w, answer) ==
    IF w.p.state # "metadata_child" \/ w.p.sequence # 0 THEN w
    ELSE IF w.p.children = 0 THEN Failed(w)
    ELSE LET v == VerifyAndReplay(w, answer)
         IN IF Broken(v) THEN v
            ELSE [v EXCEPT !.p.inSequence = FALSE,
                           !.p.state = "second_sequence_or_profile"]

\* The size limits on a TLV that goes to the card by itself.
TlvFits(p, size) ==
    /\ p.bytes + size <= MaxSegment
    /\ p.outer >= size
    /\ ~p.inSequence \/ p.sequence >= size

\* preflight_pending_child, for a TLV that goes with its parent's header.
ChildFits(p, size, exact) ==
    /\ exact => p.parent = size
    /\ size + 1 <= MaxSegment
    /\ p.outer >= IF exact THEN size + 1 ELSE size
    /\ p.decoded + size + 1 <= MaxDecoded

\* The value of a TLV follows; its state tells where it belongs.
Value(w, len) ==
    IF Broken(w) THEN w
    ELSE [w EXCEPT !.p.left = len, !.p.kind = w.p.state, !.p.state = "value",
                   !.p.parent = 0]

\* A header that waits for its only child, and is sent with it.
Parent(w, len, next) ==
    [w EXCEPT !.p.parent = len, !.p.children = 0, !.p.state = next]

\* The child of a sequence that holds nothing else.
OnlyChild(w, size, answer) ==
    IF ~ChildFits(w.p, size, TRUE) THEN Failed(w)
    ELSE LET tag == IF w.p.state = "first_sequence_child" THEN "A0" ELSE "A2"
             opened == Emit(Begin(w, tag, answer), 1, answer)
             inside == [opened EXCEPT !.p.sequence = w.p.parent, !.p.inSequence = TRUE]
         IN Value(Emit(inside, 1, answer), size - 1)

\* The header of the sequence of profile elements, a segment of its own.
Profile(w, len, answer) ==
    IF w.p.outer < 1 + len THEN Failed(w)
    ELSE LET opened == Emit(Begin(w, "A3", answer), 1, answer)
             inside == [opened EXCEPT !.p.sequence = len, !.p.inSequence = TRUE,
                                      !.p.children = 0]
             done == FinishSegment(inside, FALSE, answer)
         IN IF Broken(done) THEN done ELSE [done EXCEPT !.p.state = "profile_child"]

\* handle_header: tag and length of a TLV are complete.
Handle(w, tag, len, answer) ==
    LET p == w.p
        Is(state, t) == p.state = state /\ tag = t /\ len > 0
    IN CASE Is("outer_header", "BF36") ->
                [Parent(w, len, "outer_child") EXCEPT !.p.outer = len]
         [] Is("outer_child", "BF23") ->
                IF ~ChildFits(p, 1 + len, FALSE) THEN Failed(w)
                ELSE LET opened == Write(Begin(w, "BF36", answer), 1, answer)
                     IN Value(Emit([opened EXCEPT !.p.decoded = 1], 1, answer), len)
         [] Is("first_sequence_header", "A0") -> Parent(w, len, "first_sequence_child")
         [] Is("first_sequence_child", "87") -> OnlyChild(w, 1 + len, answer)
         [] Is("metadata_sequence_header", "A1") ->
                IF p.outer < 1 + len \/ 1 + len > MaxMetadata THEN Failed(w)
                ELSE LET v == Emit([w EXCEPT !.p.collecting = TRUE], 1, answer)
                     IN IF Broken(v) THEN v
                        ELSE [v EXCEPT !.p.sequence = len, !.p.inSequence = TRUE,
                                       !.p.children = 0, !.p.state = "metadata_child"]
         [] Is("metadata_child", "88") ->
                IF len <= MacBytes \/ ~TlvFits(p, 1 + len) THEN Failed(w)
                ELSE Value(Emit(w, 1, answer), len)
         [] Is("second_sequence_or_profile", "A2") -> Parent(w, len, "second_sequence_child")
         [] Is("second_sequence_or_profile", "A3") -> Profile(w, len, answer)
         [] Is("second_sequence_child", "87") -> OnlyChild(w, 1 + len, answer)
         [] Is("profile_sequence_header", "A3") -> Profile(w, len, answer)
         [] Is("profile_child", "86") ->
                IF ~TlvFits([p EXCEPT !.bytes = 0], 1 + len) THEN Failed(w)
                ELSE Value(Emit(Begin(w, "86", answer), 1, answer), len)
         [] OTHER -> Failed(w)

\* A parser that ends the last segment at once.
EndOfValueAtOnce(w, answer) ==
    LET closed == FinishSegment(w, w.p.outer = 0, answer)
        Next(v, state) == IF Broken(v) THEN v ELSE [v EXCEPT !.p.state = state]
        Leave(v) == [v EXCEPT !.p.inSequence = FALSE]
        Child(v) == [v EXCEPT !.p.children = @ + 1]
        kind == w.p.kind
    IN CASE kind = "outer_child" -> Next(closed, "first_sequence_header")
         [] kind = "first_sequence_child" -> Next(Leave(closed), "metadata_sequence_header")
         [] kind = "metadata_child" -> Next(Child(w), "metadata_child")
         [] kind = "second_sequence_child" -> Next(Leave(closed), "profile_sequence_header")
         [] kind = "profile_child" -> Next(Child(closed), "profile_child")

\* consume_value_byte at the end of a value.
EndOfValue(w, answer) ==
    LET closed == FinishSegment(w, FALSE, answer)
        Next(v, state) == IF Broken(v) THEN v ELSE [v EXCEPT !.p.state = state]
        Leave(v) == [v EXCEPT !.p.inSequence = FALSE]
        Child(v) == [v EXCEPT !.p.children = @ + 1]
        kind == w.p.kind
    IN CASE kind = "outer_child" -> Next(closed, "first_sequence_header")
         [] kind = "first_sequence_child" ->
                IF w.p.sequence # 0 THEN Failed(w)
                ELSE Next(Leave(closed), "metadata_sequence_header")
         [] kind = "metadata_child" -> Next(Child(w), "metadata_child")
         [] kind = "second_sequence_child" ->
                IF w.p.sequence # 0 THEN Failed(w)
                ELSE Next(Leave(closed), "profile_sequence_header")
         [] kind = "profile_child" ->
                IF w.p.sequence = 0 /\ w.p.outer = 0     \* the last one waits
                THEN Next(Child([w EXCEPT !.p.final = TRUE]), "profile_child")
                ELSE Next(Child(closed), "profile_child")

(***************************************************************************)
(* The steps.  A failure, whoever meets it, clears the parser and closes   *)
(* the card's session.                                                     *)
(***************************************************************************)
\* fail_once and the transport's abort.
Fail ==
    /\ outcome' = "failed"
    /\ json' = NoDocument
    /\ der' = [NoParser EXCEPT !.state = "failed"]

\* A token of the package has been worked through.
Settle(w) ==
    /\ card' = w.card
    /\ IF Broken(w) THEN Fail
       ELSE der' = w.p /\ UNCHANGED <<json, outcome>>
    /\ UNCHANGED <<agreed, doc>>

Work == [p |-> der, card |-> card]
InPackage == outcome = "none" /\ json.inPackage

\* A first part of a header: the rest comes with a later token.
HeaderPart(answer) ==
    /\ InPackage /\ der.state # "value" /\ ~der.partial
    /\ LET w == LeaveMetadata(Work, answer)
       IN Settle(IF w.p.state = "profile_child" /\ w.p.sequence = 0
                 THEN Failed(w) ELSE [w EXCEPT !.p.partial = TRUE])
    /\ UNCHANGED total

\* A whole header.
Header(tag, len, answer) ==
    /\ InPackage /\ der.state # "value"
    /\ LET w == LeaveMetadata(Work, answer)
           tooMany == \/ w.p.elements + 1 > MaxElements
                      \/ w.p.segments >= MaxElements
                      \/ w.p.decoded + 1 + len > MaxDecoded
           counted == [w EXCEPT !.p.elements = @ + 1, !.p.partial = FALSE]
       IN Settle(IF Broken(w) THEN w
                 ELSE IF w.p.state = "profile_child" /\ w.p.sequence = 0 THEN Failed(w)
                 ELSE IF tooMany THEN Failed(w)
                 ELSE Handle(counted, tag, len, answer))
    /\ total' = IF der.state = "outer_header" THEN 1 + len ELSE total

\* A byte of a value.
Byte(answer) ==
    /\ InPackage /\ der.state = "value"
    /\ LET w == Emit(Work, 1, answer)
       IN Settle(IF Broken(w) THEN w
                 ELSE LET v == [w EXCEPT !.p.left = @ - 1]
                      IN IF v.p.left # 0 THEN v ELSE EndOfValue(v, answer))
    /\ UNCHANGED total

\* The end of the package's string; quartets: the base64 text is complete.
EndOfPackage(quartets) ==
    /\ InPackage
    /\ IF quartets
       THEN /\ json' = [json EXCEPT !.inPackage = FALSE, !.package = TRUE]
            /\ UNCHANGED <<der, outcome>>
       ELSE Fail
    /\ UNCHANGED <<card, agreed, doc, total>>

Depth == Len(json.frames)
Path(key) == [i \in 1 .. Depth |-> IF i < Depth THEN json.frames[i].key ELSE key]

Known(path) == path \in {<<"header">>, <<"header", "functionExecutionStatus">>}
Text(path) == path \in {StatusPath, TransactionPath, <<"boundProfilePackage">>}

\* A parser with no limit to the nesting.
RefusedShallow(key, value) ==
    LET top == json.frames[Depth]
    IN \/ key \in top.keys
       \/ Cardinality(top.keys) >= MaxMembers
       \/ Known(Path(key)) /\ value # "{"
       \/ Text(Path(key)) /\ value \notin {"right", "wrong"}

\* What the parser does not take: a key twice, one that may not follow the
\* package, a value of another type, too much, or what the answer must not say.
Refused(key, value) ==
    LET top == json.frames[Depth]
    IN \/ key \in top.keys
       \/ Cardinality(top.keys) >= MaxMembers
       \/ Depth = 1 /\ json.package /\ key \notin {"header", "transactionId"}
       \/ Known(Path(key)) /\ value # "{"
       \/ Text(Path(key)) /\ value \notin {"right", "wrong"}
       \/ value = "{" /\ Depth >= MaxDepth
       \/ Path(key) \in {StatusPath, TransactionPath} /\ value = "wrong"

\* A member of an object: its key and the start of its value, or all of it.
Member(key, value) ==
    /\ outcome = "none" /\ ~json.inPackage /\ Depth > 0 /\ key \in Said[Depth]
    /\ IF Refused(key, value) THEN Fail
       ELSE LET path == Path(key)
                named == [json EXCEPT !.frames[Depth] = [key |-> key, keys |-> @.keys \cup {key}]]
            IN /\ json' =
                    IF value = "{"
                    THEN [named EXCEPT
                            !.frames = Append(@, [key |-> "", keys |-> {}]),
                            !.headerDepth = IF path = <<"header">> THEN Depth + 1 ELSE @,
                            !.function = @ /\ path # <<"header">>,
                            !.statusDepth = IF Known(path) /\ Depth = 2 THEN Depth + 1 ELSE @,
                            !.value = @ /\ ~Known(path)]
                    ELSE [named EXCEPT
                            !.transaction = @ \/ path = TransactionPath,
                            !.value = @ \/ path = StatusPath,
                            !.inPackage = path = <<"boundProfilePackage">>]
               /\ UNCHANGED <<der, outcome>>
    /\ doc' = IF value = "right" THEN doc \cup ({Path(key)} \cap {StatusPath, TransactionPath})
              ELSE doc
    /\ UNCHANGED <<card, agreed, total>>

\* The start of the document.
Open ==
    /\ outcome = "none" /\ json = NoDocument
    /\ json' = [json EXCEPT !.frames = <<[key |-> "", keys |-> {}]>>]
    /\ UNCHANGED <<der, card, outcome, agreed, doc, total>>

\* The end of an object.
Close ==
    /\ outcome = "none" /\ ~json.inPackage /\ Depth > 0
    /\ LET function == json.function \/ json.statusDepth = Depth
           refused == \/ json.statusDepth = Depth /\ ~json.value
                      \/ json.headerDepth = Depth /\ ~(function /\ json.value)
       IN IF refused THEN Fail
          ELSE /\ json' = [json EXCEPT
                     !.frames = Front(@), !.function = function,
                     !.statusDepth = IF @ = Depth THEN 0 ELSE @,
                     !.headerDepth = IF @ = Depth THEN 0 ELSE @,
                     !.status = @ \/ json.headerDepth = Depth,
                     !.done = Depth = 1]
               /\ UNCHANGED <<der, outcome>>
    /\ UNCHANGED <<card, agreed, doc, total>>

\* An end that takes the card's answer for a whole package.
CompleteShort(answer) ==
    /\ outcome = "none"
    /\ LET whole == json.done /\ json.status /\ json.transaction /\ json.package
           w == LeaveMetadata(Work, answer)
           v == FinishSegment(w, TRUE, answer)
       IN IF ~whole THEN Fail /\ UNCHANGED card
          ELSE /\ card' = v.card
               /\ IF v.p.result
                  THEN /\ outcome' = "ok"
                       /\ json' = NoDocument
                       /\ der' = [NoParser EXCEPT !.state = "failed"]
                  ELSE Fail
    /\ UNCHANGED <<agreed, doc, total>>

\* The body is complete: IdfLpaBppStream::finish.
Complete(answer) ==
    /\ outcome = "none"
    /\ LET whole == json.done /\ json.status /\ json.transaction /\ json.package
           w == LeaveMetadata(Work, answer)
           last == IF w.p.state # "profile_child" \/ w.p.sequence # 0 THEN w
                   ELSE IF w.p.children = 0 \/ w.p.outer # 0 THEN Failed(w)
                   ELSE LET v == IF w.p.final THEN FinishSegment(w, TRUE, answer) ELSE w
                        IN IF Broken(v) THEN v ELSE [v EXCEPT !.p.state = "done"]
           ok == /\ last.p.state = "done" /\ ~last.p.partial
                 /\ last.p.outer = 0 /\ last.p.result
       IN IF ~whole THEN Fail /\ UNCHANGED card
          ELSE /\ card' = last.card
               /\ IF ok
                  THEN /\ outcome' = "ok"
                       /\ json' = NoDocument
                       /\ der' = [NoParser EXCEPT !.state = "failed"]
                  ELSE Fail
    /\ UNCHANGED <<agreed, doc, total>>

\* The transport meets an error, or its deadline.
Abort ==
    /\ outcome = "none"
    /\ Fail
    /\ UNCHANGED <<card, agreed, doc, total>>

Answers == {"ok", "fail", "data"}

Next ==
    \/ Open \/ Close \/ Abort
    \/ \E key \in Keys, value \in Values : Member(key, value)
    \/ \E answer \in Answers : HeaderPart(answer) \/ Byte(answer) \/ Complete(answer)
    \/ \E tag \in Tags, answer \in Answers :
           \E len \in Lens[tag] : Header(tag, len, answer)
    \/ \E quartets \in BOOLEAN : EndOfPackage(quartets)

Spec == Init /\ [][Next]_vars

(***************************************************************************)
(* Properties.                                                             *)
(***************************************************************************)
TypeOK ==
    /\ outcome \in {"none", "ok", "failed"}
    /\ agreed \in BOOLEAN
    /\ doc \subseteq {StatusPath, TransactionPath}
    /\ Depth <= MaxDepth
    /\ der.bytes \in 0 .. MaxSegment
    /\ der.outer \in Nat /\ der.sequence \in Nat /\ der.left \in Nat
    /\ der.decoded \in 0 .. MaxDecoded
    /\ \A i \in DOMAIN card :
           card[i].tag \in Tags /\ card[i].blocks \in 0 .. MaxBlock + 1

\* What lies beyond the end of a package is on the card.
Whole == Total([i \in DOMAIN card |-> card[i].size]) = total

\* The card gets the last block of the package, which makes it install the
\* profile, only when the whole answer has been read and says that the server
\* succeeded, for this very transaction, wherever in the answer it says so
\* (BppDerStreamParser keeps the last segment back until IdfLpaBppStream::finish).
EnvelopeFirst ==
    (card # <<>> /\ Last(card).tag = "86" /\ Last(card).ended /\ Whole) =>
        {StatusPath, TransactionPath} \subseteq doc

\* Nothing beyond the first sequence reaches the card unless the metadata in
\* the package are those the owner consented to.
ConsentFirst ==
    (\E i \in DOMAIN card : card[i].tag \notin {"BF36", "A0"}) => agreed

Order(tags) ==
    LET a3 == CHOOSE i \in DOMAIN tags : tags[i] = "A3"
    IN /\ \E i \in DOMAIN tags : tags[i] = "A3"
       /\ SubSeq(tags, 1, 4) = <<"BF36", "A0", "A1", "88">>
       /\ \A i \in 4 .. a3 - 1 : tags[i] = "88" \/ (tags[i] = "A2" /\ i = a3 - 1)
       /\ \A i \in a3 + 1 .. Len(tags) : tags[i] = "86"
       /\ Len(tags) > a3

\* A download that succeeds has given the card every byte the package
\* declares, in segments that are all complete and in the order of SGP.22.
WholePackage ==
    outcome = "ok" =>
        /\ Whole
        /\ Order([i \in DOMAIN card |-> card[i].tag])
        /\ \A i \in DOMAIN card : card[i].ended
        /\ \A i \in DOMAIN card : card[i].blocks = Sent(card[i].size) + 1
=============================================================================
