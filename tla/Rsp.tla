-------------------------------- MODULE Rsp --------------------------------
(* The messages of a download session as idf_lpa_rsp.cpp reads them: what    *)
(* the server answers, what the card answers, and the notifications the      *)
(* card keeps.  Each reader has checks of its own, in an order of its own;   *)
(* the model runs them on messages with a defect and compares the verdicts   *)
(* with what the protocol says a message looks like.                         *)
(*                                                                           *)
(* A message is a function from its containers to their fields, in order.    *)
(* The value of a field is this session's ("own"), another session's, some   *)
(* well-formed value, or an ill-formed one ("bad": empty, too long, wrong);  *)
(* that of a container ("box") is the fields it contains.                    *)
EXTENDS Naturals, Sequences, FiniteSets, TLC

VARIABLES
    step,       \* what the installer waits for, or how it ended
    last        \* the message read last, and what its reader said

vars == <<step, last>>

F(tag, val) == [tag |-> tag, val |-> val]
Tags(fields) == [i \in DOMAIN fields |-> fields[i].tag]
Count(fields, tag) == Cardinality({i \in DOMAIN fields : fields[i].tag = tag})
The(fields, tag) == (CHOOSE f \in {fields[i] : i \in DOMAIN fields} : f.tag = tag).val
Some(fields, vals) == \E i \in DOMAIN fields : fields[i].val \in vals

-----------------------------------------------------------------------------
(* Messages as the protocol has them (SGP.22)                               *)

Json(names) == [i \in DOMAIN names |-> F(names[i], IF names[i] = "transactionId" THEN "own" ELSE "box")]
Status(val) == [header |-> <<F("functionExecutionStatus", "box")>>,
                function |-> <<F("status", val), F("statusCodeData", "box")>>,
                codes |-> <<F("subjectCode", "box"), F("reasonCode", "box")>>]
Profile == [i \in 1 .. 11 |->
    F(<<"5A", "91", "92", "93", "94", "95", "B6", "B7", "99", "BF22", "BF23">>[i], "good")]
Metadata == <<F("80", "good"), F("81", "good"), F("0C", "own"), F("5A", "good")>>

Base(k) ==
    CASE k = "signed1" ->
            Status("own") @@
            [json |-> Json(<<"header", "transactionId", "serverSigned1">>),
             body |-> <<F("80", "own"), F("81", "own"), F("83", "own"), F("84", "good")>>]
      [] k = "done" -> Status("own") @@ [json |-> Json(<<"header">>)]
      [] k = "refused" -> Status("other") @@ [json |-> Json(<<"header">>)]
      [] k = "authenticated" ->
            [root |-> <<F("A0", "box")>>,
             A0 |-> <<F("30", "box"), F("5F37", "good"), F("30", "good"), F("30", "good")>>,
             body |-> <<F("80", "own"), F("83", "own"), F("84", "own"), F("BF22", "good"), F("A0", "own")>>]
      [] k = "not authenticated" ->
            [root |-> <<F("A1", "box")>>, A1 |-> <<F("80", "own"), F("02", "good")>>]
      [] k = "signed2" ->
            Status("own") @@
            [json |-> Json(<<"header", "transactionId", "profileMetadata", "smdpSigned2">>),
             profile |-> Profile,
             body |-> <<F("80", "own"), F("01", "good"), F("5F49", "good")>>]
      [] k = "prepared" ->
            [root |-> <<F("A0", "box")>>, A0 |-> <<F("30", "box"), F("5F37", "good")>>,
             body |-> <<F("80", "own"), F("5F49", "good"), F("04", "good")>>]
      [] k = "not prepared" ->
            [root |-> <<F("A1", "box")>>, A1 |-> <<F("80", "own"), F("02", "good")>>]
      [] k \in {"installed", "not installed"} ->
            [root |-> <<F("BF27", "box"), F("5F37", "good")>>,
             data |-> <<F("80", "own"), F("BF2F", "box"), F("06", "good"), F("A2", "box")>>,
             meta |-> Metadata,
             final |-> <<F(IF k = "installed" THEN "A0" ELSE "A1", "box")>>,
             result |-> IF k = "installed" THEN <<F("4F", "good"), F("04", "good")>>
                        ELSE <<F("02", "good"), F("02", "good"), F("04", "good")>>]
      [] k = "other" ->
            [root |-> <<F("BF2F", "box"), F("5F37", "good"), F("30", "good"), F("30", "good")>>,
             meta |-> Metadata]
      [] k = "cancelled" ->
            [root |-> <<F("A0", "box")>>, A0 |-> <<F("30", "box"), F("5F37", "good")>>,
             body |-> <<F("80", "own"), F("81", "good"), F("82", "own")>>]
      [] k = "not cancelled" -> [root |-> <<F("81", "good")>>]

\* Which message may come at which step.
At(s) == CASE s = "signed1" -> {"signed1", "refused"}
           [] s = "authenticated" -> {"authenticated", "not authenticated"}
           [] s = "signed2" -> {"signed2", "refused"}
           [] s = "prepared" -> {"prepared", "not prepared"}
           [] s = "result" -> {"installed", "not installed"}
           [] s = "pending" -> {"installed", "not installed", "other"}
           [] s = "cancel" -> {"cancelled", "not cancelled"}
           [] s = "closing" -> {"done", "refused"}

\* One defect in one container: a field gone, twice, out of place, unknown, or
\* with the value of another session or an ill-formed one.
Without(q, i) == SubSeq(q, 1, i - 1) \o SubSeq(q, i + 1, Len(q))
Changes(q) ==
    {Without(q, i) : i \in DOMAIN q} \cup {Append(q, q[i]) : i \in DOMAIN q}
    \cup {[q EXCEPT ![i] = q[i + 1], ![i + 1] = q[i]] : i \in 1 .. Len(q) - 1}
    \cup {Append(q, F("FF", "good"))}
    \cup {[q EXCEPT ![i].val = v] : i \in {j \in DOMAIN q : q[j].val # "box"}, v \in {"other", "bad"}}
Messages(k) == {Base(k)} \cup UNION {{[Base(k) EXCEPT ![c] = q] : q \in Changes(Base(k)[c])} : c \in DOMAIN Base(k)}

\* What the protocol lets pass: the order of the fields, the optional ones left
\* out, members of JSON in any order and unknown ones besides.
Sub(q, i) == SelectSeq(q, LAMBDA t : t # i)
Optional(k, c) ==
    CASE c = "meta" -> {"5A"}
      [] c = "profile" -> {"93", "94", "95", "B6", "B7", "99", "BF22", "BF23"}
      [] k = "signed2" /\ c = "body" -> {"5F49"}
      [] (k = "prepared" /\ c = "body") \/ (k = "not installed" /\ c = "result") -> {"04"}
      [] OTHER -> {}
Members(c) == CASE c = "header" -> {"functionExecutionStatus"} [] c = "function" -> {"status"} [] c = "codes" -> {}
Shaped(k, m, c) ==
    LET tags == Tags(m[c])  all == Tags(Base(k)[c])
    IN  IF c \in {"json", "header", "function", "codes"}
        THEN /\ Cardinality({tags[i] : i \in DOMAIN tags}) = Len(tags)
             /\ \A t \in IF c = "json" THEN {all[i] : i \in DOMAIN all} ELSE Members(c) : Count(m[c], t) = 1
        ELSE /\ tags = all \/ \E t \in Optional(k, c) : tags = Sub(all, t)
             \* No icon without its type, no rules without their owner.
             /\ c = "profile" => /\ Count(m[c], "94") > 0 => Count(m[c], "93") > 0
                                 /\ Count(m[c], "99") > 0 => Count(m[c], "B7") > 0

\* The server has refused.
Refused(m) == "function" \in DOMAIN m /\ Some(m.function, {"other"})

\* What has to be this session's has this session's value, everything else a
\* well-formed one; a notification kept by the card may be of any session.
Fits(s, k, m) ==
    \A c \in DOMAIN m :
        /\ Shaped(k, m, c) /\ ~Some(m[c], {"bad"})
        /\ s # "pending" /\ c # "function" =>
             \A i \in DOMAIN m[c] : m[c][i].val = "other" =>
                \A j \in DOMAIN Base(k)[c] : Base(k)[c][j] # F(m[c][i].tag, "own")

-----------------------------------------------------------------------------
(* The readers                                                              *)

Then(one, next) == IF one # "ok" THEN one ELSE next
Unless(bad, verdict) == IF bad THEN verdict ELSE "ok"

\* unique_child
Unique(fields, tag) ==
    CASE Count(fields, tag) > 1 -> "duplicate" [] Count(fields, tag) = 0 -> "missing" [] OTHER -> "ok"

\* ordered_fields
Ordered(fields, tags) == Unless(Tags(fields) # tags, "malformed")

\* The pattern of the newer readers: twice, unknown, missing, out of place.
Strict(fields, must, may, orders) ==
    CASE \E t \in must \cup may : Count(fields, t) > 1 -> "duplicate"
      [] \E i \in DOMAIN fields : fields[i].tag \notin must \cup may -> "malformed"
      [] \E t \in must : Count(fields, t) = 0 -> "missing"
      [] OTHER -> Unless(Tags(fields) \notin orders, "malformed")

Bad(fields, tag) == \E i \in DOMAIN fields : fields[i] = F(tag, "bad")

\* JsonScanner: members in any order, none twice, unknown ones passed over.
ReadObject(fields, wanted) ==
    CASE \E t \in {fields[i].tag : i \in DOMAIN fields} : Count(fields, t) > 1 -> "duplicate"
      [] \E t \in wanted : Count(fields, t) = 0 -> "missing"
      [] OTHER -> "ok"

\* idf_lpa_rsp_parse_status
ReadStatus(m) ==
    Then(ReadObject(m.json, {"header"}),
    Then(ReadObject(m.header, {"functionExecutionStatus"}),
    Then(ReadObject(m.function, {"status"}),
    Then(ReadObject(m.codes, {}),
    Then(Unless(Bad(m.function, "status"), "malformed"),
         Unless(The(m.function, "status") # "own", "server"))))))

ReadJson(m, wanted) ==
    Then(ReadStatus(m), Then(ReadObject(m.json, wanted), Unless(Bad(m.json, "transactionId"), "malformed")))

\* idf_lpa_rsp_validate_server_signed1; the session is the one the JSON names.
ServerSigned1(m) ==
    LET b == m.body
    IN  Then(Unique(b, "80"),
        Then(Unless(The(b, "80") # The(m.json, "transactionId"), "transaction"),
        Then(Unique(b, "81"), Then(Unless(The(b, "81") # "own", "challenge"),
        Then(Unique(b, "83"), Then(Unless(The(b, "83") # "own", "address"),
        Then(Unique(b, "84"),
             Unless(Bad(b, "84") \/ \E i \in DOMAIN b : b[i].tag \notin {"80", "81", "83", "84"},
                    "malformed"))))))))

\* idf_lpa_rsp_build_authenticate_server_request
AuthenticateRequest(m) == Ordered(m.body, <<"80", "81", "83", "84">>)

\* A refusal: of this transaction, with a code that exists.
Refusal(fields) ==
    Then(Unless(The(fields, "80") # "own", "transaction"),
    Then(Unless(Bad(fields, "02"), "malformed"), "server"))

AuthenticateResponse(m) ==
    CASE Len(m.root) # 1 -> "malformed"
      [] m.root[1].tag = "A1" -> Then(Ordered(m.A1, <<"80", "02">>), Refusal(m.A1))
      [] OTHER ->
            Then(Ordered(m.A0, <<"30", "5F37", "30", "30">>),
            Then(Ordered(m.body, <<"80", "83", "84", "BF22", "A0">>),
            Then(Unless(Some(m.A0, {"bad"}), "malformed"),
            Then(Unless(The(m.body, "80") # "own", "transaction"),
            Then(Unless(The(m.body, "83") # "own", "address"),
            Then(Unless(The(m.body, "84") # "own", "challenge"),
                 Unless(Bad(m.body, "BF22") \/ The(m.body, "A0") # "own", "malformed")))))))

\* idf_lpa_rsp_parse_smdp_signed2
SmdpSigned2(m) ==
    LET b == m.body
    IN  Then(Unique(b, "80"), Then(Unless(The(b, "80") # "own", "transaction"),
        Then(Unique(b, "01"), Then(Unless(The(b, "01") = "bad", "confirmation"),
             Unless(Tags(b) \notin {<<"80", "01">>, <<"80", "01", "5F49">>} \/ Bad(b, "5F49"),
                    "malformed")))))

\* idf_lpa_rsp_parse_profile_metadata: the optional fields in order, each at
\* most once.
Rank == [t \in {"93", "94", "95", "B6", "B7", "99", "BF22", "BF23"} |->
    CASE t = "93" -> 1 [] t = "94" -> 2 [] t = "95" -> 3 [] t = "B6" -> 4
      [] t = "B7" -> 5 [] t = "99" -> 6 [] t = "BF22" -> 7 [] t = "BF23" -> 8]
Rest(fields) == SubSeq(Tags(fields), 4, Len(fields))
ProfileMetadata(p) ==
    Then(Unless(Len(p) < 3 \/ SubSeq(Tags(p), 1, 3) # <<"5A", "91", "92">> \/ Some(p, {"bad"}), "malformed"),
    Then(Unless(\E i \in DOMAIN Rest(p) : Rest(p)[i] \notin DOMAIN Rank, "malformed"),
    Then(Unless(\E i \in DOMAIN Rest(p) : Rest(p)[i] = "94" /\ \A j \in 1 .. i : Rest(p)[j] # "93", "malformed"),
    Then(Unless(\E i \in 2 .. Len(Rest(p)) : Rank[Rest(p)[i]] <= Rank[Rest(p)[i - 1]], "duplicate"),
         Unless(Count(p, "99") > 0 /\ Count(p, "B7") = 0, "malformed")))))

\* Rules are more than this installer can show its user.
Policy(p) == Unless(Count(p, "99") > 0, "policy")

\* One of two choices, and only one.
Choice(fields) ==
    Then(Strict(fields, {}, {"A0", "A1"}, {Tags(fields)}),
    Then(Unless(Len(fields) = 0, "missing"), Unless(Len(fields) = 2, "malformed")))

PrepareResponse(m) ==
    Then(Choice(m.root),
    IF m.root[1].tag = "A1"
    THEN Then(Strict(m.A1, {"80", "02"}, {}, {<<"80", "02">>}), Refusal(m.A1))
    ELSE Then(Strict(m.A0, {"30", "5F37"}, {}, {<<"30", "5F37">>}),
         Then(Unless(Bad(m.A0, "5F37"), "malformed"),
         Then(Strict(m.body, {"80", "5F49"}, {"04"}, {<<"80", "5F49">>, <<"80", "5F49", "04">>}),
         Then(Unless(Bad(m.body, "5F49") \/ Bad(m.body, "04"), "malformed"),
              Unless(The(m.body, "80") # "own", "transaction"))))))

MetadataOrders == {<<"80", "81", "0C">>, <<"80", "81", "0C", "5A">>}
MetadataValues(b) ==
    Then(Unless(Bad(b, "5A") \/ Bad(b, "80") \/ Bad(b, "81"), "malformed"), Unless(Bad(b, "0C"), "address"))

\* parse_notification_metadata looks for what is missing before what is unknown.
NotificationMetadata(b) ==
    Then(Unless(\E t \in {"80", "81", "0C", "5A"} : Count(b, t) > 1, "duplicate"),
    Then(Unless(\E t \in {"80", "81", "0C"} : Count(b, t) = 0, "missing"),
    Then(Unless(Tags(b) \notin MetadataOrders, "malformed"), MetadataValues(b))))

\* An error result, by position.
ErrorResult(b) ==
    CASE Len(b) < 2 -> "missing"
      [] b[1].tag # "02" \/ b[2].tag # "02" -> "malformed"
      [] Len(b) > 2 /\ b[3].tag = "02" -> "duplicate"
      [] Len(b) > 2 /\ b[3].tag # "04" -> "malformed"
      [] Len(b) > 3 -> IF b[4].tag = "04" THEN "duplicate" ELSE "malformed"
      [] OTHER -> Unless(Some(b, {"bad"}), "malformed")

\* parse_installation_notification; a pending one is of any session.
AnySession(m, pending) == TRUE
OfSession(m, pending) ==
    /\ The(m.data, "80") \in IF pending THEN {"own", "other"} ELSE {"own"}

InstallationData(m, pending) ==
    Then(Strict(m.root, {"BF27", "5F37"}, {}, {<<"BF27", "5F37">>}),
    Then(Unless(Bad(m.root, "5F37"), "malformed"),
    Then(Strict(m.data, {"80", "BF2F", "06", "A2"}, {}, {<<"80", "BF2F", "06", "A2">>}),
    Then(Unless(~OfSession(m, pending), "transaction"), Unless(Bad(m.data, "06"), "malformed")))))

InstallationResult(m, pending) ==
    Then(InstallationData(m, pending),
    Then(Strict(m.meta, {"80", "81", "0C"}, {"5A"}, MetadataOrders),
    Then(MetadataValues(m.meta),
    Then(Unless(~pending /\ The(m.meta, "0C") # "own", "address"),
    Then(Choice(m.final),
    IF m.final[1].tag = "A1" THEN ErrorResult(m.result)
    ELSE Then(Strict(m.result, {"4F", "04"}, {}, {<<"4F", "04">>}),
              Unless(Some(m.result, {"bad"}), "malformed")))))))

\* parse_other_signed_notification
OtherNotification(m) ==
    Then(Ordered(m.root, <<"BF2F", "5F37", "30", "30">>),
    Then(Unless(Some(m.root, {"bad"}), "malformed"), NotificationMetadata(m.meta)))

CancelResponse(m) ==
    CASE Len(m.root) # 1 -> "malformed"
      [] m.root[1].tag = "81" -> Then(Unless(Bad(m.root, "81"), "malformed"), "server")
      [] OTHER ->
            Then(Ordered(m.A0, <<"30", "5F37">>), Then(Ordered(m.body, <<"80", "81", "82">>),
            Then(Unless(Bad(m.A0, "5F37"), "malformed"),
            Then(Unless(The(m.body, "80") # "own", "transaction"),
                 Unless(Bad(m.body, "81") \/ The(m.body, "82") # "own", "malformed")))))

Reads(s, k, m) ==
    CASE k = "refused" \/ s = "closing" -> ReadStatus(m)
      [] s = "signed1" ->
            Then(ReadJson(m, {"transactionId", "serverSigned1"}), Then(ServerSigned1(m), AuthenticateRequest(m)))
      [] s = "authenticated" -> AuthenticateResponse(m)
      [] s = "signed2" ->
            Then(ReadJson(m, {"transactionId", "profileMetadata", "smdpSigned2"}),
            Then(Unless(The(m.json, "transactionId") # "own", "transaction"),
            Then(ProfileMetadata(m.profile), Then(SmdpSigned2(m), Policy(m.profile)))))
      [] s = "prepared" -> PrepareResponse(m)
      [] k = "other" -> OtherNotification(m)
      [] s \in {"result", "pending"} -> InstallationResult(m, s = "pending")
      [] s = "cancel" -> CancelResponse(m)

-----------------------------------------------------------------------------
Steps == {"pending", "signed1", "authenticated", "signed2", "prepared", "result", "cancel", "closing"}

TypeOK ==
    /\ step \in Steps \cup {"installed", "failed", "uncertain", "ended"}
    /\ last.verdict \in {"none", "ok", "server", "duplicate", "malformed", "missing",
                         "transaction", "address", "challenge", "confirmation", "policy"}

Init == step = "pending" /\ last = [at |-> "none", verdict |-> "none"]

\* idf_lpa_install_profile: what comes after a message.  A session the server
\* has opened is cancelled on any error before the package is asked for.
NextStep(s, k, verdict) ==
    CASE s = "pending" -> IF verdict = "ok" THEN "signed1" ELSE "ended"
      [] s = "signed1" -> IF verdict = "ok" THEN "authenticated" ELSE "ended"
      [] s = "authenticated" -> IF verdict = "ok" THEN "signed2" ELSE "cancel"
      [] s = "signed2" -> IF verdict = "ok" THEN "prepared" ELSE "cancel"
      [] s = "prepared" -> IF verdict = "ok" THEN "result" ELSE "cancel"
      [] s = "result" -> IF verdict # "ok" THEN "uncertain" ELSE IF k = "installed" THEN "installed" ELSE "failed"
      [] s = "cancel" -> IF verdict = "ok" THEN "closing" ELSE "ended"
      [] s = "closing" -> "ended"

Receive(s) ==
    /\ step = s
    /\ \E k \in At(s) : \E m \in Messages(k) :
        LET v == Reads(s, k, m)
        IN  /\ last' = [at |-> s, kind |-> k, msg |-> m, verdict |-> v]
            /\ step' = NextStep(s, k, v)

Next == \E s \in Steps : Receive(s)
Spec == Init /\ [][Next]_vars

-----------------------------------------------------------------------------
(* Properties                                                               *)

\* Each reader accepts what the protocol has, of this session, and nothing
\* else; a refusal by the server or the card is told from a message that is not
\* one.
Agrees ==
    last.at # "none" =>
        (IF Fits(last.at, last.kind, last.msg)
         THEN last.verdict =
                CASE Refused(last.msg) \/ last.kind \in {"not authenticated", "not prepared", "not cancelled"} -> "server"
                  [] last.kind = "signed2" /\ Count(last.msg.profile, "99") > 0 -> "policy"
                  [] OTHER -> "ok"
         ELSE last.verdict \in {"ok", "server", "policy"} => Refused(last.msg) /\ last.verdict = "server")
=============================================================================
