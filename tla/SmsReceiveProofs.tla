-------------------------- MODULE SmsReceiveProofs --------------------------
(***************************************************************************)
(* Proof that SmsReceive loses no segment and deletes no record before its *)
(* time, for any number of messages, segments, slots and records, and      *)
(* wherever the response to a listing is cut off.                          *)
(***************************************************************************)
EXTENDS MCMessages, FiniteSetTheorems, SequenceTheorems, TLAPS, WellFoundedInduction

-----------------------------------------------------------------------------
(* The inductive invariant                                                 *)

\* The segments that the text of an admission or of a blocked sender covers.
Cover(noted, admitted) == noted \cup UNION admitted

\* A slot is cleared without another admission only if all its segments are
\* covered: it counts those that were admitted, and gains one at a time.
Counts(slot, C) ==
    /\ IsFiniteSet(slot.parts)
    /\ slot.delivered <= Cardinality(slot.parts)
    /\ slot.delivered = Cardinality(slot.parts) => slot.parts \subseteq C

\* What makes sms_task drop a segment is true: it counts all segments of a slot
\* as delivered, has the fingerprint of the segment, or has seen its text.
Grounds(slots, finished, texts, noted, admitted) ==
    /\ \A x \in ToSet(slots) : Counts(x, Cover(noted, admitted))
    /\ Marked(finished) \subseteq Cover(noted, admitted)
    /\ \A c \in ToSet(texts) : c.parts \in admitted

\* A record that a listing shows is there until it is handled, once, and shown
\* whole unless the response was cut off at it; what counts as unreadable is there
\* too, and stood at the cut or does not decode.
Listed ==
    pass # None =>
        /\ \A i \in pass.headless : sim[i] # None /\ i \in pass.cut
        /\ \A i \in pass.bad : sim[i] # None /\ (i \in pass.cut \/ ~Decodes(sim[i]))
        /\ \A e \in pass.list :
             /\ sim[e.idx] # None
             /\ e.form = "pdu" \/ e.idx \in pass.cut
             /\ e.idx \notin pass.headless \cup pass.bad
             /\ \A d \in pass.list : d.idx = e.idx => d = e
        /\ pass.cut # {} => Window < SimSize

\* No kind of unreadable record has stalled for longer than the listing itself.
Counted == stall.headless <= idle /\ stall.bad <= idle

\* What decodes was taken for corrupt only because a response was cut off.
Spared == \A s \in abandoned : Decodes(s) => Window < SimSize

\* A segment that only a slot holds was acknowledged to the network.
Backed ==
    \A s \in Segments \ Unsent :
        \/ s \in net \/ OnSim(s) \/ Covered(s)
        \/ s \in acked /\ (Held(s) \/ restarts > 0)
        \/ s \in abandoned /\ Window < SimSize
        \/ ~Decodes(s)

IInv ==
    /\ TypeOK
    /\ Grounds(open, done, seen, ignored, accepted)
    /\ Listed
    /\ Counted
    /\ Spared
    /\ Backed

-----------------------------------------------------------------------------
(* Sequences                                                               *)

\* A sequence with one more element.
LEMMA Appended ==
    ASSUME NEW S, NEW q \in Seq(S), NEW e \in S
    PROVE  /\ Append(q, e) \in Seq(S) /\ Len(Append(q, e)) = Len(q) + 1
           /\ ToSet(Append(q, e)) = ToSet(q) \cup {e}
           /\ Append(q, e)[Len(q) + 1] = e
           /\ \A i \in 1 .. Len(q) : Append(q, e)[i] = q[i]
  BY DEF ToSet

\* The elements of a sequence.
LEMMA Elements ==
    ASSUME NEW S, NEW q \in Seq(S)
    PROVE  /\ DOMAIN q = 1 .. Len(q)
           /\ \A i \in 1 .. Len(q) : q[i] \in S /\ q[i] \in ToSet(q)
           /\ \A x \in ToSet(q) : x \in S /\ \E i \in 1 .. Len(q) : x = q[i]
           /\ \A e : Contains(q, e) <=> e \in ToSet(q)
  BY DEF ToSet, Contains

\* A sequence without its k-th element.
LEMMA Removed ==
    ASSUME NEW S, NEW q \in Seq(S), NEW k \in 1 .. Len(q)
    PROVE  /\ RemoveAt(q, k) \in Seq(S) /\ Len(RemoveAt(q, k)) = Len(q) - 1
           /\ ToSet(RemoveAt(q, k)) \subseteq ToSet(q)
           /\ ToSet(q) = ToSet(RemoveAt(q, k)) \cup {q[k]}
<1> DEFINE a == SubSeq(q, 1, k - 1)
           b == SubSeq(q, k + 1, Len(q))
<1>1. /\ a \in Seq(S) /\ Len(a) = k - 1 /\ \A i \in 1 .. k - 1 : a[i] = q[i]
      /\ b \in Seq(S) /\ Len(b) = Len(q) - k /\ \A i \in 1 .. Len(q) - k : b[i] = q[k + i]
  BY SubSeqProperties
<1>2. /\ RemoveAt(q, k) \in Seq(S) /\ Len(RemoveAt(q, k)) = Len(q) - 1
      /\ \A i \in 1 .. Len(q) - 1 : RemoveAt(q, k)[i] = IF i < k THEN q[i] ELSE q[i + 1]
  <2>1. RemoveAt(q, k) = a \o b
    BY DEF RemoveAt
  <2> HIDE DEF a, b
  <2>2. /\ a \o b \in Seq(S) /\ Len(a \o b) = Len(q) - 1
        /\ \A i \in 1 .. Len(q) - 1 : (a \o b)[i] = IF i <= k - 1 THEN a[i] ELSE b[i - (k - 1)]
    BY <1>1, ConcatProperties
  <2>4. ASSUME NEW i \in 1 .. Len(q) - 1
        PROVE  (a \o b)[i] = IF i < k THEN q[i] ELSE q[i + 1]
    <3>1. CASE i < k
      BY <1>1, <2>2, <3>1
    <3>2. CASE ~(i < k)
      <4>1. (a \o b)[i] = b[i - (k - 1)] /\ i - (k - 1) \in 1 .. Len(q) - k
        BY <2>2, <3>2
      <4>2. k + (i - (k - 1)) = i + 1
        OBVIOUS
      <4> QED BY <1>1, <3>2, <4>1, <4>2
    <3> QED BY <3>1, <3>2
  <2> QED BY <2>1, <2>2, <2>4
<1>3. ASSUME NEW i \in 1 .. Len(q), i # k
      PROVE  \E j \in 1 .. Len(q) - 1 : RemoveAt(q, k)[j] = q[i]
  <2>1. CASE i < k
    BY <1>2, <1>3, <2>1
  <2>2. CASE i > k
    <3>1. i - 1 \in 1 .. Len(q) - 1 /\ RemoveAt(q, k)[i - 1] = q[i]
      BY <1>2, <1>3, <2>2
    <3> QED BY <3>1
  <2> QED BY <1>3, <2>1, <2>2
<1>4. DOMAIN RemoveAt(q, k) = 1 .. Len(q) - 1
  BY <1>2
<1>5. ToSet(RemoveAt(q, k)) \subseteq ToSet(q)
  BY <1>2, <1>4 DEF ToSet
<1>6. ToSet(q) \subseteq ToSet(RemoveAt(q, k)) \cup {q[k]}
  <2>1. SUFFICES ASSUME NEW i \in 1 .. Len(q), i # k
                 PROVE  q[i] \in ToSet(RemoveAt(q, k))
    BY DEF ToSet
  <2>2. PICK j \in 1 .. Len(q) - 1 : RemoveAt(q, k)[j] = q[i]
    BY <1>3, <2>1
  <2> QED BY <1>4, <2>2 DEF ToSet
<1>7. q[k] \in ToSet(q)
  BY DEF ToSet
<1> QED BY <1>2, <1>5, <1>6, <1>7

\* The newest elements of a sequence.
LEMMA NewestIs ==
    ASSUME NEW S, NEW q \in Seq(S), NEW n \in Nat
    PROVE  /\ Newest(q, n) \in Seq(S) /\ Len(Newest(q, n)) <= n
           /\ ToSet(Newest(q, n)) \subseteq ToSet(q)
<1>1. CASE Len(q) <= n
  BY <1>1 DEF Newest
<1>2. CASE Len(q) > n
  <2> DEFINE m == Len(q) - n + 1
  <2>1. /\ SubSeq(q, m, Len(q)) \in Seq(S)
        /\ Len(SubSeq(q, m, Len(q))) = n
        /\ \A i \in 1 .. n : SubSeq(q, m, Len(q))[i] = q[m + i - 1]
    BY <1>2, SubSeqProperties
  <2>2. \A i \in 1 .. n : m + i - 1 \in 1 .. Len(q)
    BY <1>2
  <2>3. Newest(q, n) = SubSeq(q, m, Len(q))
    BY <1>2 DEF Newest
  <2>4. DOMAIN SubSeq(q, m, Len(q)) = 1 .. n
    BY <2>1
  <2> HIDE DEF m
  <2> QED BY SMTT(60), <2>1, <2>2, <2>3, <2>4 DEF ToSet
<1> QED BY <1>1, <1>2

\* The rest of a sequence.
LEMMA Tails ==
    ASSUME NEW S, NEW q \in Seq(S), q # <<>>
    PROVE  /\ Tail(q) \in Seq(S) /\ Len(Tail(q)) = Len(q) - 1
           /\ Head(q) = q[1] /\ 1 \in 1 .. Len(q) /\ Head(q) \in S
           /\ \A i \in 1 .. Len(Tail(q)) : i + 1 \in 1 .. Len(q) /\ Tail(q)[i] = q[i + 1]
           /\ ToSet(Tail(q)) \subseteq ToSet(q)
<1>1. /\ Tail(q) \in Seq(S) /\ Len(Tail(q)) = Len(q) - 1
      /\ Head(q) = q[1] /\ 1 \in 1 .. Len(q) /\ Head(q) \in S
      /\ \A i \in 1 .. Len(Tail(q)) : i + 1 \in 1 .. Len(q) /\ Tail(q)[i] = q[i + 1]
  OBVIOUS
<1> QED BY <1>1 DEF ToSet

-----------------------------------------------------------------------------
(* What becomes of a text                                                  *)

\* What process_sms_content leaves is of its type, and forgets nothing that was
\* covered.
Good(p) ==
    /\ p.seen \in Seq(Text) /\ Len(p.seen) <= SeenMax
    /\ p.pending \in Seq(Text) /\ Len(p.pending) <= PendingMax
    /\ p.accepted \in SUBSET Parts /\ p.again \in SUBSET Parts
    /\ p.ignored \in SUBSET Segments
    /\ p.retained \in BOOLEAN /\ p.admitted \in BOOLEAN
    /\ accepted \subseteq p.accepted /\ ignored \subseteq p.ignored
    /\ \A c \in ToSet(p.seen) : c.parts \in p.accepted

CoverOf(p) == Cover(p.ignored, p.accepted)

LEMMA Constants ==
    /\ Ref \in [Messages -> Refs] /\ Total \in [Refs -> Nat \ {0}]
    /\ SlotMax \in Nat \ {0} /\ DoneMax \in Nat \ {0} /\ SeenMax \in Nat \ {0}
    /\ Batch \in Nat \ {0} /\ StallMax \in Nat \ {0}
    /\ PendingMax \in Nat /\ IndexMax \in Nat /\ SimSize \in Nat /\ Window \in Nat
    /\ MaxRestarts \in Nat /\ MaxAged \in Nat
    /\ None \notin Segments /\ None \notin Pass
  BY ReceptionAssumption DEF Shape, Bounds

\* Cover only grows.
LEMMA GoodCovers ==
    ASSUME NEW p, Good(p) PROVE Cover(ignored, accepted) \subseteq CoverOf(p)
  BY DEF Good, Cover, CoverOf

LEMMA UnchangedIs ==
    ASSUME TypeOK, Grounds(open, done, seen, ignored, accepted)
    PROVE  /\ Good(Unchanged) /\ Unchanged.retained /\ ~Unchanged.admitted
           /\ CoverOf(Unchanged) = Cover(ignored, accepted)
  BY DEF TypeOK, Grounds, Good, Unchanged, CoverOf

LEMMA AdmitIs ==
    ASSUME TypeOK, Grounds(open, done, seen, ignored, accepted),
           NEW c \in Text, NEW waiting \in Seq(Text), Len(waiting) <= PendingMax
    PROVE  Good(Admit(c, waiting)) /\ c.parts \subseteq CoverOf(Admit(c, waiting))
<1> DEFINE p == Admit(c, waiting)
<1>1. /\ p.seen = Remembered(c) /\ p.pending = waiting
      /\ p.accepted = accepted \cup {c.parts}
      /\ p.again = again \cup ({c.parts} \cap accepted)
      /\ p.ignored = ignored /\ p.retained = TRUE /\ p.admitted = TRUE
  BY DEF Admit, Unchanged
<1> HIDE DEF p
<1>2. c.parts \in Parts
  BY DEF Text
<1>3. Append(seen, c) \in Seq(Text) /\ ToSet(Append(seen, c)) = ToSet(seen) \cup {c}
  BY Appended DEF TypeOK
<1>4. /\ Remembered(c) \in Seq(Text) /\ Len(Remembered(c)) <= SeenMax
      /\ ToSet(Remembered(c)) \subseteq ToSet(seen) \cup {c}
  BY <1>3, NewestIs, Constants DEF Remembered
<1>5. \A d \in ToSet(p.seen) : d.parts \in p.accepted
  BY <1>1, <1>4 DEF Grounds
<1>6. Good(p)
  BY <1>1, <1>2, <1>4, <1>5 DEF Good, TypeOK
<1>7. c.parts \subseteq CoverOf(p)
  BY <1>1 DEF CoverOf, Cover
<1> QED BY <1>6, <1>7 DEF p

\* A text that counts as retained is covered.
LEMMA ProcessIs ==
    ASSUME TypeOK, Grounds(open, done, seen, ignored, accepted),
           NEW c \in Text, NEW ramRetry \in BOOLEAN, NEW v
    PROVE  /\ Good(Process(c, ramRetry, v))
           /\ Process(c, ramRetry, v).retained => c.parts \subseteq CoverOf(Process(c, ramRetry, v))
<1> DEFINE p == Process(c, ramRetry, v)
<1>1. CASE v = "blocked"
  <2>1. p = [Unchanged EXCEPT !.ignored = @ \cup c.parts]
    BY <1>1 DEF Process
  <2>2. /\ p.seen = seen /\ p.pending = pending /\ p.accepted = accepted
        /\ p.again = again /\ p.ignored = ignored \cup c.parts
        /\ p.retained = TRUE /\ p.admitted = FALSE
    BY <2>1 DEF Unchanged
  <2>3. c.parts \subseteq Segments
    BY DEF Text, Parts
  <2> HIDE DEF p
  <2>4. Good(p)
    BY <2>2, <2>3 DEF Good, TypeOK, Grounds
  <2> QED BY <2>2, <2>4 DEF CoverOf, Cover, p
<1>2. CASE v # "blocked" /\ Contains(seen, c)
  <2>1. p = Unchanged
    BY <1>2 DEF Process
  <2>2. c.parts \in accepted
    BY <1>2, Elements DEF Grounds, TypeOK
  <2>3. c.parts \subseteq Cover(ignored, accepted)
    BY <2>2 DEF Cover
  <2> QED BY <2>1, <2>3, UnchangedIs
<1>3. CASE v = "queued" /\ ~Contains(seen, c)
  <2>1. p = Admit(c, pending)
    BY <1>3 DEF Process
  <2> QED BY <2>1, AdmitIs DEF TypeOK
<1>4. CASE v \notin {"blocked", "queued"} /\ ~Contains(seen, c)
  <2>1. CASE ramRetry /\ Len(pending) < PendingMax
    <3>1. p = Admit(c, Append(pending, c))
      BY <1>4, <2>1 DEF Process
    <3>2. Append(pending, c) \in Seq(Text) /\ Len(Append(pending, c)) <= PendingMax
      BY <2>1, Constants DEF TypeOK
    <3> QED BY <3>1, <3>2, AdmitIs
  <2>2. CASE ~(ramRetry /\ Len(pending) < PendingMax)
    <3>1. p = [Unchanged EXCEPT !.retained = FALSE]
      BY <1>4, <2>2 DEF Process
    <3>2. /\ p.seen = seen /\ p.pending = pending /\ p.accepted = accepted
          /\ p.again = again /\ p.ignored = ignored
          /\ p.retained = FALSE /\ p.admitted = FALSE
      BY <3>1 DEF Unchanged
    <3> HIDE DEF p
    <3>3. Good(p)
      BY <3>2 DEF Good, TypeOK, Grounds
    <3> QED BY <3>2, <3>3 DEF p
  <2> QED BY <2>1, <2>2
<1> QED BY <1>1, <1>2, <1>3, <1>4

\* So is what a slot holds, when it may be cleared.
LEMMA RetainIs ==
    ASSUME TypeOK, Grounds(open, done, seen, ignored, accepted),
           NEW slot \in Slot, Counts(slot, Cover(ignored, accepted)),
           NEW ramRetry \in BOOLEAN, NEW v
    PROVE  /\ Good(Retain(slot, ramRetry, v))
           /\ Retain(slot, ramRetry, v).retained =>
                 slot.parts \subseteq CoverOf(Retain(slot, ramRetry, v))
<1>1. CASE Cardinality(slot.parts) = slot.delivered
  <2>1. Retain(slot, ramRetry, v) = Unchanged
    BY <1>1 DEF Retain
  <2>2. slot.parts \subseteq Cover(ignored, accepted)
    BY <1>1 DEF Counts
  <2> QED BY <2>1, <2>2, UnchangedIs
<1>2. CASE Cardinality(slot.parts) # slot.delivered
  <2> DEFINE c == [parts |-> slot.parts, first |-> slot.first]
  <2>1. Retain(slot, ramRetry, v) = Process(c, ramRetry, v)
    BY <1>2 DEF Retain
  <2>2. c \in Text /\ c.parts = slot.parts
    BY DEF Slot, Text
  <2> HIDE DEF c
  <2> QED BY <2>1, <2>2, ProcessIs
<1> QED BY <1>1, <1>2

-----------------------------------------------------------------------------
(* What becomes of a segment                                               *)

LEMMA SegmentIs ==
    ASSUME NEW s \in Segments
    PROVE  s[1] \in Messages /\ RefOf(s) \in Refs /\ TotalOf(s) \in Nat \ {0}
  BY Constants DEF Segments, RefOf, TotalOf

LEMMA PartsAre == ASSUME NEW Q, Q \subseteq Segments, Q # {} PROVE Q \in Parts
  BY DEF Parts

LEMMA PartsIs ==
    ASSUME NEW s \in Segments
    PROVE  /\ {s} \in Parts
           /\ \A P \in Parts : P \cup {s} \in Parts
<1>1. \A P \in Parts : P \subseteq Segments
  BY DEF Parts
<1>2. \A P \in Parts : P \cup {s} \subseteq Segments /\ P \cup {s} # {}
  BY <1>1
<1> QED BY <1>2, PartsAre

LEMMA OutcomeIs ==
    ASSUME NEW slots, NEW finished, NEW p, NEW safe \in BOOLEAN, NEW blocked \in BOOLEAN
    PROVE  LET o == Outcome(slots, finished, p, safe, blocked)
           IN  /\ o.open = slots /\ o.done = finished /\ o.p = p
               /\ o.safe \in BOOLEAN /\ o.blocked \in BOOLEAN
               /\ (o.safe <=> safe) /\ (o.blocked <=> blocked)
  BY DEF Outcome

LEMMA CountsGrow ==
    ASSUME NEW x, NEW C, NEW D, C \subseteq D, Counts(x, C) PROVE Counts(x, D)
  BY DEF Counts

\* A slot that was just opened.
LEMMA NewSlotIs ==
    ASSUME NEW s \in Segments, NEW C
    PROVE  NewSlot(s) \in Slot /\ NewSlot(s).parts = {s} /\ Counts(NewSlot(s), C)
<1>1. IsFiniteSet({s}) /\ Cardinality({s}) = 1
  BY FS_Singleton
<1>2. {s} \in Parts /\ RefOf(s) \in Refs
  BY SegmentIs, PartsIs
<1>3. NewSlot(s) \in Slot /\ NewSlot(s).parts = {s} /\ NewSlot(s).delivered = 0
  BY <1>2 DEF NewSlot, Slot
<1> QED BY <1>1, <1>3 DEF Counts

\* A slot that a segment joins.
LEMMA JoinedIs ==
    ASSUME NEW x \in Slot, NEW s \in Segments, NEW C, Counts(x, C)
    PROVE  LET slot == [x EXCEPT !.parts = @ \cup {s}]
           IN  /\ slot \in Slot /\ slot.parts = x.parts \cup {s}
               /\ s \in x.parts => slot = x
               /\ Counts(slot, C)
<1> DEFINE slot == [x EXCEPT !.parts = @ \cup {s}]
<1>1. slot \in Slot /\ slot.parts = x.parts \cup {s} /\ slot.delivered = x.delivered
  <2>1. x.parts \cup {s} \in Parts
    BY PartsIs DEF Slot
  <2> QED BY <2>1 DEF Slot
<1>2. s \in x.parts => slot = x
  <2>1. s \in x.parts => x.parts \cup {s} = x.parts
    OBVIOUS
  <2> QED BY <2>1 DEF Slot
<1>3. CASE s \notin x.parts
  <2>1. /\ IsFiniteSet(slot.parts) /\ Cardinality(slot.parts) = Cardinality(x.parts) + 1
        /\ Cardinality(x.parts) \in Nat
    BY <1>1, <1>3, FS_AddElement, FS_CardinalityType DEF Counts
  <2> HIDE DEF slot
  <2> QED BY <1>1, <1>2, <1>3, <2>1 DEF Counts, Slot, slot
<1> QED BY <1>1, <1>2, <1>3

\* The fingerprints after a slot was cleared.
LEMMA RecordedIs ==
    ASSUME TypeOK, NEW slot \in Slot, NEW C, slot.parts \subseteq C, Marked(done) \subseteq C
    PROVE  /\ Recorded(slot) \in Seq(Parts) /\ Len(Recorded(slot)) <= DoneMax
           /\ Marked(Recorded(slot)) \subseteq C
<1>1. slot.parts \in Parts /\ done \in Seq(Parts)
  BY DEF Slot, TypeOK
<1>2. /\ Append(done, slot.parts) \in Seq(Parts)
      /\ ToSet(Append(done, slot.parts)) = ToSet(done) \cup {slot.parts}
  BY <1>1, Appended
<1>3. /\ Recorded(slot) \in Seq(Parts) /\ Len(Recorded(slot)) <= DoneMax
      /\ ToSet(Recorded(slot)) \subseteq ToSet(done) \cup {slot.parts}
  BY <1>2, NewestIs, Constants DEF Recorded
<1> QED BY <1>3 DEF Marked

\* An outcome is of its type, its grounds are true, and no segment leaves the
\* slots uncovered.
Right(o) ==
    /\ o.open \in Seq(Slot) /\ Len(o.open) <= SlotMax
    /\ o.done \in Seq(Parts) /\ Len(o.done) <= DoneMax
    /\ Good(o.p)
    /\ o.safe \in BOOLEAN /\ o.blocked \in BOOLEAN
    /\ Grounds(o.open, o.done, o.p.seen, o.p.ignored, o.p.accepted)
    /\ \A x \in ToSet(open) : \A t \in x.parts :
         t \in CoverOf(o.p) \/ \E y \in ToSet(o.open) : t \in y.parts

\* It says what became of segment s.
Accounts(o, s) ==
    /\ o.safe => s \in CoverOf(o.p)
    /\ ~o.blocked => s \in CoverOf(o.p) \/ \E y \in ToSet(o.open) : s \in y.parts

LEMMA OutcomeRight ==
    ASSUME TypeOK, Grounds(open, done, seen, ignored, accepted),
           NEW slots \in Seq(Slot), Len(slots) <= SlotMax,
           NEW finished \in Seq(Parts), Len(finished) <= DoneMax,
           NEW p, Good(p), NEW safe \in BOOLEAN, NEW blocked \in BOOLEAN,
           \A x \in ToSet(slots) : x \in ToSet(open) \/ Counts(x, CoverOf(p)),
           Marked(finished) \subseteq CoverOf(p),
           \A x \in ToSet(open) : \A t \in x.parts :
             t \in CoverOf(p) \/ \E y \in ToSet(slots) : t \in y.parts
    PROVE  Right(Outcome(slots, finished, p, safe, blocked))
<1> DEFINE o == Outcome(slots, finished, p, safe, blocked)
<1>1. /\ o.open = slots /\ o.done = finished /\ o.p = p
      /\ o.safe \in BOOLEAN /\ o.blocked \in BOOLEAN
  BY OutcomeIs
<1>2. \A x \in ToSet(slots) : Counts(x, CoverOf(p))
  BY GoodCovers, CountsGrow DEF Grounds
<1>3. \A c \in ToSet(p.seen) : c.parts \in p.accepted
  BY DEF Good
<1> HIDE DEF o
<1>4. Grounds(o.open, o.done, o.p.seen, o.p.ignored, o.p.accepted)
  BY <1>1, <1>2, <1>3 DEF Grounds, CoverOf
<1> QED BY <1>1, <1>4 DEF Right, o

LEMMA AccountIs ==
    ASSUME NEW slots, NEW finished, NEW p, NEW safe \in BOOLEAN, NEW blocked \in BOOLEAN,
           NEW s, safe => s \in CoverOf(p),
           ~blocked => s \in CoverOf(p) \/ \E y \in ToSet(slots) : s \in y.parts
    PROVE  Accounts(Outcome(slots, finished, p, safe, blocked), s)
<1> DEFINE o == Outcome(slots, finished, p, safe, blocked)
<1>1. o.open = slots /\ o.p = p /\ (o.safe <=> safe) /\ (o.blocked <=> blocked)
  BY OutcomeIs
<1> HIDE DEF o
<1>2. Accounts(o, s)
  BY <1>1 DEF Accounts
<1> QED BY <1>2 DEF o

\* The slots as they are, or with one more.
LEMMA KeptRight ==
    ASSUME TypeOK, Grounds(open, done, seen, ignored, accepted),
           NEW slots \in Seq(Slot), Len(slots) <= SlotMax,
           \A x \in ToSet(slots) : x \in ToSet(open) \/ Counts(x, Cover(ignored, accepted)),
           \A x \in ToSet(open) : \A t \in x.parts : \E y \in ToSet(slots) : t \in y.parts
    PROVE  /\ Right(Kept(slots)) /\ Kept(slots).open = slots
           /\ ~Kept(slots).safe /\ ~Kept(slots).p.admitted
<1>1. Right(Outcome(slots, done, Unchanged, FALSE, FALSE))
  BY OutcomeRight, UnchangedIs DEF TypeOK, Grounds
<1> QED BY <1>1, UnchangedIs DEF Kept, Outcome

LEMMA SingleIs ==
    ASSUME TypeOK, Grounds(open, done, seen, ignored, accepted),
           NEW s \in Segments, NEW ramRetry \in BOOLEAN, NEW v
    PROVE  Right(Single(s, ramRetry, v)) /\ Accounts(Single(s, ramRetry, v), s)
<1> DEFINE c == [parts |-> {s}, first |-> s]
           p == Process(c, ramRetry, v)
<1>1. c \in Text /\ c.parts = {s}
  BY PartsIs DEF Text
<1>2. Good(p) /\ p.retained \in BOOLEAN /\ (p.retained => s \in CoverOf(p))
  BY <1>1, ProcessIs DEF Good
<1>3. Single(s, ramRetry, v) = Outcome(open, done, p, p.retained, ~p.retained)
  BY DEF Single
<1> HIDE DEF c, p
<1>4. Marked(done) \subseteq CoverOf(p)
  BY <1>2, GoodCovers DEF Grounds
<1>5. Right(Outcome(open, done, p, p.retained, ~p.retained))
  BY <1>2, <1>4, OutcomeRight DEF TypeOK
<1>6. p.retained => s \in CoverOf(p)
  BY <1>2
<1>7. (~p.retained) \in BOOLEAN
  OBVIOUS
<1>8. Accounts(Outcome(open, done, p, p.retained, ~p.retained), s)
  BY <1>2, <1>6, <1>7, AccountIs
<1> QED BY <1>3, <1>5, <1>8

\* A slot of its own for s, in the place of slot k if there is one.
LEMMA ReplaceIs ==
    ASSUME TypeOK, Grounds(open, done, seen, ignored, accepted),
           NEW k \in 1 .. Len(open),
           NEW s \in Segments, NEW ramRetry \in BOOLEAN, NEW v
    PROVE  Right(Replace(k, s, ramRetry, v)) /\ Accounts(Replace(k, s, ramRetry, v), s)
<1> DEFINE p     == Retain(open[k], ramRetry, v)
           slots == Append(RemoveAt(open, k), NewSlot(s))
<1>1. open[k] \in Slot /\ open[k] \in ToSet(open) /\ Counts(open[k], Cover(ignored, accepted))
  BY Elements DEF TypeOK, Grounds
<1>2. Good(p) /\ p.retained \in BOOLEAN /\ (p.retained => open[k].parts \subseteq CoverOf(p))
  BY <1>1, RetainIs DEF Good
<1>3. Marked(done) \subseteq CoverOf(p)
  BY <1>2, GoodCovers DEF Grounds
<1> HIDE DEF p
<1>4. CASE p.retained
  <2>1. Replace(k, s, ramRetry, v) = Outcome(slots, Recorded(open[k]), p, FALSE, FALSE)
    BY <1>4 DEF Replace, p
  <2>2. /\ slots \in Seq(Slot) /\ Len(slots) = Len(open)
        /\ ToSet(slots) = ToSet(RemoveAt(open, k)) \cup {NewSlot(s)}
        /\ ToSet(RemoveAt(open, k)) \subseteq ToSet(open)
        /\ ToSet(open) = ToSet(RemoveAt(open, k)) \cup {open[k]}
    <3>1. open \in Seq(Slot) /\ NewSlot(s) \in Slot /\ Len(open) \in Nat
      <4>1. open \in Seq(Slot)
        BY DEF TypeOK
      <4> QED BY <4>1, NewSlotIs
    <3>2. /\ RemoveAt(open, k) \in Seq(Slot) /\ Len(RemoveAt(open, k)) = Len(open) - 1
          /\ ToSet(RemoveAt(open, k)) \subseteq ToSet(open)
          /\ ToSet(open) = ToSet(RemoveAt(open, k)) \cup {open[k]}
      BY <3>1, Removed
    <3> QED BY <3>1, <3>2, Appended
  <2> HIDE DEF slots
  <2>3. \A x \in ToSet(slots) : x \in ToSet(open) \/ Counts(x, CoverOf(p))
    BY <2>2, NewSlotIs
  <2>4. \A x \in ToSet(open) : \A t \in x.parts :
           t \in CoverOf(p) \/ \E y \in ToSet(slots) : t \in y.parts
    BY <1>2, <1>4, <2>2
  <2>5. /\ Recorded(open[k]) \in Seq(Parts) /\ Len(Recorded(open[k])) <= DoneMax
        /\ Marked(Recorded(open[k])) \subseteq CoverOf(p)
    BY <1>1, <1>2, <1>3, <1>4, RecordedIs
  <2>6. Right(Outcome(slots, Recorded(open[k]), p, FALSE, FALSE))
    BY <1>2, <2>2, <2>3, <2>4, <2>5, OutcomeRight DEF TypeOK
  <2>7. NewSlot(s) \in ToSet(slots) /\ s \in NewSlot(s).parts
    BY <2>2, NewSlotIs
  <2> QED BY <2>1, <2>6, <2>7 DEF Accounts, Outcome
<1>5. CASE ~p.retained
  <2>1. Replace(k, s, ramRetry, v) = Outcome(open, done, p, FALSE, TRUE)
    BY <1>5 DEF Replace, p
  <2>2. Right(Outcome(open, done, p, FALSE, TRUE))
    BY <1>2, <1>3, OutcomeRight DEF TypeOK
  <2> QED BY <2>1, <2>2 DEF Accounts, Outcome
<1> QED BY <1>4, <1>5

LEMMA JoinIs ==
    ASSUME TypeOK, Grounds(open, done, seen, ignored, accepted),
           NEW k \in 1 .. Len(open), NEW s \in Segments, NEW ramRetry \in BOOLEAN,
           NEW mayAdmit \in BOOLEAN, NEW v
    PROVE  LET o == Join(k, s, ramRetry, mayAdmit, v)
           IN  Right(o) /\ Accounts(o, s) /\ (~mayAdmit => ~o.p.admitted)
<1> DEFINE slot  == [open[k] EXCEPT !.parts = @ \cup {s}]
           slots == IF s \in open[k].parts THEN open
                    ELSE Append(RemoveAt(open, k), slot)
           at    == IF s \in open[k].parts THEN k ELSE Len(open)
           p     == Retain(slot, ramRetry, v)
           o     == Join(k, s, ramRetry, mayAdmit, v)
<1>1. open[k] \in Slot /\ open[k] \in ToSet(open) /\ Counts(open[k], Cover(ignored, accepted))
  BY Elements DEF TypeOK, Grounds
<1>2. /\ slot \in Slot /\ slot.parts = open[k].parts \cup {s}
      /\ s \in open[k].parts => slot = open[k]
      /\ Counts(slot, Cover(ignored, accepted))
  BY <1>1, JoinedIs
<1>3. o = CASE ~Full(slot)               -> Kept(slots)
            [] Full(slot) /\ ~mayAdmit   -> Deferred(slots)
            [] Full(slot) /\ mayAdmit /\ p.retained ->
                  Outcome(RemoveAt(slots, at), Recorded(slot), p, TRUE, FALSE)
            [] OTHER -> Outcome(slots, done, p, FALSE, TRUE)
  BY DEF Join
<1> HIDE DEF slot, o
<1>4. Good(p) /\ p.retained \in BOOLEAN /\ (p.retained => slot.parts \subseteq CoverOf(p))
  BY <1>2, RetainIs DEF Good
<1>5. Marked(done) \subseteq CoverOf(p)
  BY <1>4, GoodCovers DEF Grounds
<1> HIDE DEF p
<1>6. /\ slots \in Seq(Slot) /\ Len(slots) = Len(open) /\ at \in 1 .. Len(slots)
      /\ slots[at] = slot /\ slot \in ToSet(slots)
      /\ \A x \in ToSet(slots) : x \in ToSet(open) \/ x = slot
      /\ \A x \in ToSet(open) : x \in ToSet(slots) \/ x.parts \subseteq slot.parts
  <2>1. CASE s \in open[k].parts
    BY <1>1, <1>2, <2>1 DEF TypeOK
  <2>2. CASE s \notin open[k].parts
    <3>1. /\ RemoveAt(open, k) \in Seq(Slot) /\ Len(RemoveAt(open, k)) = Len(open) - 1
          /\ ToSet(RemoveAt(open, k)) \subseteq ToSet(open)
          /\ ToSet(open) = ToSet(RemoveAt(open, k)) \cup {open[k]}
          /\ Len(open) \in Nat
      BY Removed DEF TypeOK
    <3>2. /\ slots \in Seq(Slot) /\ Len(slots) = Len(open)
          /\ ToSet(slots) = ToSet(RemoveAt(open, k)) \cup {slot}
          /\ slots[Len(open)] = slot
      BY <1>2, <2>2, <3>1, Appended
    <3>3. at = Len(open)
      BY <2>2
    <3> HIDE DEF slots, at
    <3> QED BY <1>2, <3>1, <3>2, <3>3
  <2> QED BY <2>1, <2>2
<1> HIDE DEF slots, at
<1>7. Len(slots) <= SlotMax
  BY <1>6 DEF TypeOK
<1>8. s \in slot.parts
  BY <1>2
<1>9. \A x \in ToSet(open) : \A t \in x.parts : \E y \in ToSet(slots) : t \in y.parts
  BY <1>6
<1>10. CASE ~Full(slot) \/ ~mayAdmit
  <2>1. o = Kept(slots)
    BY <1>3, <1>10 DEF Deferred
  <2>2. Right(Kept(slots)) /\ Kept(slots).open = slots
        /\ ~Kept(slots).safe /\ ~Kept(slots).p.admitted
    BY <1>2, <1>6, <1>7, <1>9, KeptRight
  <2> QED BY <1>6, <1>8, <2>1, <2>2 DEF Accounts, o
<1>11. CASE Full(slot) /\ mayAdmit /\ p.retained
  <2> DEFINE rest == RemoveAt(slots, at)
  <2>1. o = Outcome(rest, Recorded(slot), p, TRUE, FALSE)
    BY <1>3, <1>11
  <2>2. /\ rest \in Seq(Slot) /\ Len(rest) <= SlotMax
        /\ ToSet(rest) \subseteq ToSet(slots)
        /\ ToSet(slots) = ToSet(rest) \cup {slot}
    BY SMTT(60), <1>6, <1>7, Removed, Constants
  <2> HIDE DEF rest
  <2>3. \A x \in ToSet(rest) : x \in ToSet(open) \/ Counts(x, CoverOf(p))
    BY <1>2, <1>4, <1>6, <2>2, GoodCovers, CountsGrow
  <2>4. \A x \in ToSet(open) : \A t \in x.parts :
           t \in CoverOf(p) \/ \E y \in ToSet(rest) : t \in y.parts
    BY <1>4, <1>6, <1>11, <2>2
  <2>5. /\ Recorded(slot) \in Seq(Parts) /\ Len(Recorded(slot)) <= DoneMax
        /\ Marked(Recorded(slot)) \subseteq CoverOf(p)
    BY <1>2, <1>4, <1>5, <1>11, RecordedIs
  <2>6. Right(Outcome(rest, Recorded(slot), p, TRUE, FALSE))
    BY <1>4, <2>2, <2>3, <2>4, <2>5, OutcomeRight
  <2>7. s \in CoverOf(p)
    BY <1>4, <1>8, <1>11
  <2> QED BY <1>11, <2>1, <2>6, <2>7, AccountIs DEF o
<1>12. CASE Full(slot) /\ mayAdmit /\ ~p.retained
  <2>1. o = Outcome(slots, done, p, FALSE, TRUE)
    BY <1>3, <1>12
  <2>2. \A x \in ToSet(slots) : x \in ToSet(open) \/ Counts(x, CoverOf(p))
    BY <1>2, <1>4, <1>6, GoodCovers, CountsGrow
  <2>3. Right(Outcome(slots, done, p, FALSE, TRUE))
    BY <1>4, <1>5, <1>6, <1>7, <1>9, <2>2, OutcomeRight DEF TypeOK
  <2> QED BY <1>12, <2>1, <2>3, AccountIs DEF o
<1> QED BY <1>4, <1>10, <1>11, <1>12

\* A segment that may be dropped is covered, and one that sms_task takes is covered
\* or in a slot; a segment for the next pass is not taken.
LEMMA HandleIs ==
    ASSUME TypeOK, Grounds(open, done, seen, ignored, accepted),
           NEW s \in Segments, NEW ramRetry \in BOOLEAN, NEW mayAdmit \in BOOLEAN, NEW v
    PROVE  LET o == Handle(s, ramRetry, mayAdmit, v)
           IN  /\ Right(o) /\ (o.safe => s \in CoverOf(o.p))
               /\ mayAdmit => Accounts(o, s)
               /\ ~mayAdmit => ~o.p.admitted
<1> DEFINE o == Handle(s, ramRetry, mayAdmit, v)
           mine == {j \in DOMAIN open : open[j].ref = RefOf(s)}
           k == CHOOSE j \in mine : TRUE
<1> SUFFICES /\ Right(o) /\ (o.safe => s \in CoverOf(o.p))
             /\ mayAdmit => Accounts(o, s)
             /\ ~mayAdmit => ~o.p.admitted
  OBVIOUS
<1>1. open \in Seq(Slot) /\ Len(open) <= SlotMax /\ DOMAIN open = 1 .. Len(open)
      /\ SlotMax \in Nat \ {0} /\ Len(open) \in Nat
  BY Constants DEF TypeOK
<1>2. /\ Right(Deferred(open)) /\ Deferred(open).open = open
      /\ ~Deferred(open).safe /\ ~Deferred(open).p.admitted
  BY <1>1, KeptRight DEF Deferred
<1>3. CASE TotalOf(s) = 1
  <2>1. o = IF mayAdmit THEN Single(s, ramRetry, v) ELSE Deferred(open)
    BY <1>3 DEF Handle
  <2>2. Right(Single(s, ramRetry, v)) /\ Accounts(Single(s, ramRetry, v), s)
    BY SingleIs
  <2> HIDE DEF o
  <2> QED BY <1>2, <2>1, <2>2 DEF Accounts
<1>4. CASE TotalOf(s) # 1 /\ RecentlyDone(s)
  <2>1. o = Outcome(open, done, Unchanged, TRUE, FALSE)
    BY <1>4 DEF Handle
  <2>2. s \in Cover(ignored, accepted) /\ Marked(done) \subseteq Cover(ignored, accepted)
    BY <1>4 DEF RecentlyDone, Grounds
  <2>3. Right(Outcome(open, done, Unchanged, TRUE, FALSE))
    BY <1>1, <2>2, OutcomeRight, UnchangedIs DEF TypeOK
  <2>4. s \in CoverOf(Unchanged) /\ ~Unchanged.admitted
    BY <2>2, UnchangedIs
  <2>5. Accounts(Outcome(open, done, Unchanged, TRUE, FALSE), s)
    BY <2>4, AccountIs
  <2>6. o.p = Unchanged
    BY <2>1 DEF Outcome
  <2> HIDE DEF o
  <2> QED BY <2>1, <2>3, <2>4, <2>5, <2>6
<1>5. CASE TotalOf(s) # 1 /\ ~RecentlyDone(s)
  <2>1. o = Multipart(s, ramRetry, mayAdmit, v)
    BY <1>5 DEF Handle
  <2>2. o = CASE mine = {} /\ Len(open) < SlotMax -> Kept(Append(open, NewSlot(s)))
              [] mine = {} /\ Len(open) >= SlotMax ->
                    IF mayAdmit THEN Replace(1, s, ramRetry, v) ELSE Deferred(open)
              [] mine # {} /\ Conflicts(open[k], s) ->
                    IF mayAdmit THEN Replace(k, s, ramRetry, v) ELSE Deferred(open)
              [] OTHER -> Join(k, s, ramRetry, mayAdmit, v)
    BY <2>1 DEF Multipart
  <2>6. mine \subseteq 1 .. Len(open) /\ (mine # {} => k \in 1 .. Len(open))
    BY <1>1
  <2> HIDE DEF mine, k, o
  <2>7. ASSUME NEW j \in 1 .. Len(open), o = Replace(j, s, ramRetry, v), mayAdmit
        PROVE  Right(o) /\ Accounts(o, s)
    BY <2>7, ReplaceIs
  <2>3. CASE mine = {} /\ Len(open) < SlotMax
    <3>1. o = Kept(Append(open, NewSlot(s)))
      BY <1>1, <2>2, <2>3
    <3> DEFINE slots == Append(open, NewSlot(s))
    <3>2. /\ slots \in Seq(Slot) /\ Len(slots) <= SlotMax
          /\ ToSet(slots) = ToSet(open) \cup {NewSlot(s)}
          /\ NewSlot(s).parts = {s} /\ Counts(NewSlot(s), Cover(ignored, accepted))
      BY <1>1, <2>3, NewSlotIs, Appended
    <3> HIDE DEF slots
    <3>4. NewSlot(s) \in ToSet(slots) /\ s \in NewSlot(s).parts
      BY <3>2
    <3>3. /\ Right(Kept(slots)) /\ Kept(slots).open = slots
          /\ ~Kept(slots).safe /\ ~Kept(slots).p.admitted
      BY <3>2, KeptRight
    <3> QED BY <3>1, <3>3, <3>4 DEF Accounts, slots
  <2>4. CASE mine = {} /\ Len(open) >= SlotMax
    <3>1. o = IF mayAdmit THEN Replace(1, s, ramRetry, v) ELSE Deferred(open)
      BY <1>1, <2>2, <2>4
    <3>2. 1 \in 1 .. Len(open)
      BY <1>1, <2>4
    <3> QED BY <1>2, <2>7, <3>1, <3>2 DEF Accounts
  <2>5. CASE mine # {}
    <3>1. k \in 1 .. Len(open)
      BY <2>5, <2>6
    <3>2. CASE Conflicts(open[k], s)
      <4>1. o = IF mayAdmit THEN Replace(k, s, ramRetry, v) ELSE Deferred(open)
        BY <2>2, <2>5, <3>2
      <4> QED BY <1>2, <2>7, <3>1, <4>1 DEF Accounts
    <3>3. CASE ~Conflicts(open[k], s)
      <4>1. o = Join(k, s, ramRetry, mayAdmit, v)
        BY <2>2, <2>5, <3>3
      <4> QED BY <3>1, <4>1, JoinIs DEF Accounts
    <3> QED BY <3>2, <3>3
  <2> QED BY <1>1, <2>3, <2>4, <2>5
<1> HIDE DEF o
<1> QED BY <1>3, <1>4, <1>5

-----------------------------------------------------------------------------
(* What a step leaves                                                      *)

\* What sms_task keeps in RAM, and the history of it, is of its type.
Memory ==
    /\ open \in Seq(Slot) /\ Len(open) <= SlotMax
    /\ done \in Seq(Parts) /\ Len(done) <= DoneMax
    /\ seen \in Seq(Text) /\ Len(seen) <= SeenMax
    /\ pending \in Seq(Text) /\ Len(pending) <= PendingMax
    /\ accepted \in SUBSET Parts /\ again \in SUBSET Parts
    /\ ignored \in SUBSET Segments /\ forgotten \in SUBSET Segments

\* So is everything else.
World ==
    /\ net \subseteq Segments /\ acked \subseteq Segments
    /\ sim \in [1 .. SimSize -> Segments \cup {None}]
    /\ index \in Seq(1 .. SimSize) /\ Len(index) <= IndexMax
    /\ pass \in Pass \cup {None}
    /\ stall \in [headless : 0 .. StallMax, bad : 0 .. StallMax]
    /\ idle \in 0 .. StallMax /\ abandoned \subseteq Segments
    /\ restarts \in 0 .. MaxRestarts /\ aged \in 0 .. MaxAged

LEMMA TypeIs == (TypeOK <=> Memory /\ World) /\ (TypeOK' <=> Memory' /\ World')
  BY DEF TypeOK, Memory, World

LEMMA PassIs ==
    ASSUME World, pass # None
    PROVE  /\ pass \in Pass /\ pass.list \subseteq Entry
           /\ pass.headless \subseteq 1 .. SimSize /\ pass.bad \subseteq 1 .. SimSize
           /\ pass.cut \subseteq 1 .. SimSize
           /\ pass.handled \in 0 .. Batch /\ pass.admissions \in 0 .. Batch
           /\ \A e \in pass.list : /\ e.idx \in 1 .. SimSize
                                    /\ sim[e.idx] \in Segments \cup {None}
<1>1. /\ pass \in Pass /\ pass.list \subseteq Entry
      /\ pass.headless \subseteq 1 .. SimSize /\ pass.bad \subseteq 1 .. SimSize
      /\ pass.cut \subseteq 1 .. SimSize
      /\ pass.handled \in 0 .. Batch /\ pass.admissions \in 0 .. Batch
  BY DEF World, Pass
<1>2. \A e \in Entry : e.idx \in 1 .. SimSize
  BY DEF Entry
<1> QED BY <1>1, <1>2 DEF World

\* No segment leaves the slots uncovered, and what was covered stays so.
Keeps ==
    /\ Cover(ignored, accepted) \subseteq Cover(ignored, accepted)'
    /\ \A t \in Segments : Held(t) => Held(t)' \/ Covered(t)'

LEMMA CoveredIs == \A t : Covered(t) <=> t \in Cover(ignored, accepted)
  BY DEF Covered, Cover

LEMMA HeldIs ==
    ASSUME NEW q \in Seq(Slot)
    PROVE  \A t : (\E k \in DOMAIN q : t \in q[k].parts) <=> \E x \in ToSet(q) : t \in x.parts
  BY DEF ToSet

LEMMA ApplyIs ==
    ASSUME TypeOK, Grounds(open, done, seen, ignored, accepted), NEW o, Right(o), Apply(o)
    PROVE  /\ Memory' /\ Grounds(open, done, seen, ignored, accepted)' /\ Keeps
           /\ CoverOf(o.p) = Cover(ignored, accepted)' /\ open' = o.open
<1>1. /\ open' = o.open /\ done' = o.done /\ seen' = o.p.seen /\ pending' = o.p.pending
      /\ accepted' = o.p.accepted /\ again' = o.p.again /\ ignored' = o.p.ignored
      /\ forgotten' = forgotten \cup (Marked(done) \ Marked(o.done))
  BY DEF Apply, Settle
<1>2. Marked(done) \subseteq Segments
  <2>1. \A P \in ToSet(done) : P \subseteq Segments
    BY Elements DEF TypeOK, Parts
  <2> QED BY <2>1 DEF Marked
<1>3. Memory'
  BY <1>1, <1>2 DEF Right, Good, Memory, TypeOK
<1>4. Grounds(open, done, seen, ignored, accepted)'
  BY <1>1 DEF Right, Grounds
<1>5. CoverOf(o.p) = Cover(ignored, accepted)'
  BY <1>1 DEF CoverOf, Cover
<1>6. Keeps
  <2>1. Cover(ignored, accepted) \subseteq Cover(ignored, accepted)'
    BY <1>5, GoodCovers DEF Right
  <2>2. ASSUME NEW t \in Segments, Held(t) PROVE Held(t)' \/ Covered(t)'
    <3>1. PICK x \in ToSet(open) : t \in x.parts
      BY <2>2, HeldIs DEF Held, TypeOK
    <3>2. t \in CoverOf(o.p) \/ \E y \in ToSet(o.open) : t \in y.parts
      BY <3>1 DEF Right
    <3>3. CASE t \in CoverOf(o.p)
      BY <1>5, <3>3 DEF Covered, Cover
    <3>4. CASE \E y \in ToSet(o.open) : t \in y.parts
      <4>1. \E j \in DOMAIN o.open : t \in o.open[j].parts
        BY <3>4, HeldIs DEF Right
      <4> QED BY <1>1, <4>1 DEF Held
    <3> QED BY <3>2, <3>3, <3>4
  <2> QED BY <2>1, <2>2 DEF Keeps
<1> QED BY <1>1, <1>3, <1>4, <1>5, <1>6

\* A step that leaves the slots and the history alone.
LEMMA CalmKeeps ==
    ASSUME UNCHANGED <<open, accepted, ignored>> PROVE Keeps
  BY DEF Keeps, Held, Covered, Cover

\* A step that removes no record for a corrupt one, and starts or ends no count.
LEMMA CountsStay ==
    ASSUME Counted, Spared, UNCHANGED <<stall, idle, abandoned>> PROVE Counted' /\ Spared'
  BY DEF Counted, Spared, Decodes

\* A segment stays where it is, goes to the SIM, or is acknowledged and gathered.
LEMMA BackedKept ==
    ASSUME Backed, Keeps, DeletesAdmitted, acked \subseteq acked',
           abandoned \subseteq abandoned', Spared',
           restarts \in Nat, restarts' = restarts,
           \A s \in Segments : s \in net /\ s \notin net' =>
             OnSim(s)' \/ (s \in acked' /\ Held(s)') \/ Covered(s)'
    PROVE  Backed'
<1> SUFFICES ASSUME NEW s \in Segments \ Unsent, Decodes(s)
             PROVE  \/ s \in net' \/ OnSim(s)' \/ Covered(s)'
                    \/ s \in acked' /\ (Held(s)' \/ restarts > 0)
                    \/ s \in abandoned' /\ Window < SimSize
  BY DEF Backed, Decodes
<1>1. \/ s \in net \/ OnSim(s) \/ Covered(s)
      \/ s \in acked /\ (Held(s) \/ restarts > 0)
      \/ s \in abandoned /\ Window < SimSize
  BY DEF Backed
<1>2. CASE s \in net
  BY <1>2
<1>3. CASE OnSim(s)
  BY <1>3 DEF DeletesAdmitted, Spared, Decodes
<1>4. CASE Covered(s)
  BY <1>4 DEF Keeps, Covered, Cover
<1>5. CASE s \in acked /\ (Held(s) \/ restarts > 0)
  BY <1>5 DEF Keeps
<1>6. CASE s \in abandoned /\ Window < SimSize
  BY <1>6
<1> QED BY <1>1, <1>2, <1>3, <1>4, <1>5, <1>6

\* Nothing leaves the SIM.
LEMMA SimKept ==
    ASSUME UNCHANGED <<sim, abandoned>>
    PROVE  DeletesAdmitted /\ \A s : OnSim(s)' <=> OnSim(s)
  BY DEF DeletesAdmitted, OnSim

\* Without its records of one place the SIM holds what it held elsewhere.
LEMMA WithoutIs ==
    ASSUME World, NEW gone \in SUBSET (1 .. SimSize)
    PROVE  /\ Without(gone) \in [1 .. SimSize -> Segments \cup {None}]
           /\ \A i \in 1 .. SimSize : Without(gone)[i] = IF i \in gone THEN None ELSE sim[i]
  BY DEF Without, World

\* What was removed from the SIM was covered, or taken for corrupt at a cut.
LEMMA RemovedFromSim ==
    ASSUME World, NEW gone \in SUBSET (1 .. SimSize), sim' = Without(gone),
           \A i \in gone : sim[i] \in Cover(ignored, accepted)' \/ sim[i] \in abandoned',
           \A s \in abandoned' \ abandoned :
             Decodes(s) => idle' = StallMax /\ \E i \in pass.cut : sim[i] = s
    PROVE  DeletesAdmitted /\ sim' \in [1 .. SimSize -> Segments \cup {None}]
<1>1. /\ sim' \in [1 .. SimSize -> Segments \cup {None}]
      /\ \A i \in 1 .. SimSize : sim'[i] = IF i \in gone THEN None ELSE sim[i]
  BY WithoutIs
<1>2. ASSUME NEW s \in Segments, OnSim(s), ~OnSim(s)'
      PROVE  Covered(s)' \/ s \in abandoned'
  <2>1. PICK i \in 1 .. SimSize : sim[i] = s
    BY <1>2 DEF OnSim
  <2>2. sim'[i] # s
    BY <1>2, <2>1 DEF OnSim
  <2>3. i \in gone /\ s # None
    BY <1>1, <2>1, <2>2, Constants
  <2> QED BY <2>1, <2>3 DEF Covered, Cover
<1> QED BY <1>1, <1>2 DEF DeletesAdmitted

-----------------------------------------------------------------------------
(* Each action keeps the invariant                                         *)

LEMMA StoreKeeps ==
    ASSUME IInv, NEW s \in Segments, NEW i \in 1 .. SimSize, Store(s, i)
    PROVE  IInv' /\ DeletesAdmitted
<1>1. /\ s \in net /\ sim[i] = None /\ sim' = [sim EXCEPT ![i] = s] /\ net' = net \ {s}
      /\ index' \in {index, Enqueued(i)}
      /\ UNCHANGED <<open, done, seen, pending, accepted, again, ignored, forgotten, acked,
                     pass, stall, idle, abandoned, restarts, aged>>
  BY DEF Store, ram, fate, bound, rounds
<1>2. TypeOK /\ Memory /\ World
  BY TypeIs DEF IInv
<1>3. \A t \in Segments : (OnSim(t) => OnSim(t)') /\ OnSim(s)'
  BY <1>1, <1>2, Constants DEF OnSim, World
<1>4. DeletesAdmitted /\ Counted' /\ Spared'
  BY <1>1, <1>3, CountsStay DEF DeletesAdmitted, IInv
<1>5. TypeOK'
  <2>1. Memory'
    BY <1>1, <1>2 DEF Memory
  <2>2. index' \in Seq(1 .. SimSize) /\ Len(index') <= IndexMax
    <3>1. index \in Seq(1 .. SimSize) /\ Len(index) <= IndexMax /\ Len(index) \in Nat
      BY <1>2 DEF World
    <3>2. CASE index' = index
      BY <3>1, <3>2
    <3>3. CASE index' = Append(index, i) /\ Len(index) < IndexMax
      BY <3>1, <3>3, Appended, Constants
    <3>4. index' = index \/ (index' = Append(index, i) /\ Len(index) < IndexMax)
      BY <1>1, <3>1, Constants DEF Enqueued
    <3> QED BY <3>2, <3>3, <3>4
  <2>3. World'
    BY <1>1, <1>2, <2>2 DEF World
  <2> QED BY <2>1, <2>3, TypeIs
<1>6. Grounds(open, done, seen, ignored, accepted)'
  BY <1>1 DEF IInv, Grounds, Marked
<1>7. Listed'
  <2>1. \A j \in 1 .. SimSize : sim[j] # None => sim'[j] = sim[j]
    BY <1>1, <1>2 DEF World
  <2> QED BY <1>1, <1>2, <2>1, PassIs DEF IInv, Listed, Decodes
<1>8. Backed'
  BY <1>1, <1>2, <1>3, <1>4, CalmKeeps, BackedKept DEF IInv, World
<1> QED BY <1>4, <1>5, <1>6, <1>7, <1>8 DEF IInv

LEMMA AgeDoneKeeps ==
    ASSUME IInv, AgeDone PROVE IInv' /\ DeletesAdmitted
<1>1. /\ aged < MaxAged /\ done # <<>> /\ done' = Tail(done)
      /\ forgotten' = forgotten \cup (Marked(done) \ Marked(done')) /\ aged' = aged + 1
      /\ UNCHANGED <<open, seen, pending, accepted, again, ignored, net, sim, index, acked,
                     pass, stall, idle, abandoned, restarts>>
  BY DEF AgeDone, outer, rounds
<1>2. TypeOK /\ Memory /\ World
  BY TypeIs DEF IInv
<1>3. /\ done' \in Seq(Parts) /\ Len(done') <= DoneMax /\ ToSet(done') \subseteq ToSet(done)
      /\ \A P \in ToSet(done) : P \subseteq Segments
  BY <1>1, <1>2, Tails, Elements, Constants DEF Memory, Parts
<1>4. Marked(done') \subseteq Marked(done) /\ Marked(done) \subseteq Segments
  BY <1>3 DEF Marked
<1>5. TypeOK'
  <2>1. Memory'
    BY <1>1, <1>2, <1>3, <1>4 DEF Memory
  <2>2. World'
    BY <1>1, <1>2, Constants DEF World
  <2> QED BY <2>1, <2>2, TypeIs
<1>6. Grounds(open, done, seen, ignored, accepted)'
  BY <1>1, <1>4 DEF IInv, Grounds
<1>7. Listed' /\ DeletesAdmitted /\ Counted' /\ Spared'
  BY <1>1, SimKept, CountsStay DEF IInv, Listed
<1>8. Backed'
  BY <1>1, <1>2, <1>7, CalmKeeps, BackedKept DEF IInv, World
<1> QED BY <1>5, <1>6, <1>7, <1>8 DEF IInv

LEMMA RestartKeeps ==
    ASSUME IInv, Restart PROVE IInv' /\ DeletesAdmitted
<1>1. /\ restarts < MaxRestarts /\ restarts' = restarts + 1
      /\ open' = <<>> /\ done' = <<>> /\ seen' = <<>> /\ pending' = <<>> /\ index' = <<>>
      /\ pass' = None /\ stall' = NoStall /\ idle' = 0
      /\ UNCHANGED <<accepted, again, ignored, forgotten, net, sim, acked, abandoned,
                     aged>>
  BY DEF Restart, fate
<1>2. TypeOK /\ Memory /\ World
  BY TypeIs DEF IInv
<1>3. TypeOK'
  <2>1. Memory'
    BY <1>1, <1>2, Constants DEF Memory
  <2>2. World'
    BY <1>1, <1>2, Constants DEF World, NoStall
  <2> QED BY <2>1, <2>2, TypeIs
<1>4. Grounds(open, done, seen, ignored, accepted)' /\ Listed'
  BY <1>1 DEF Grounds, Marked, ToSet, Listed
<1>5. /\ DeletesAdmitted /\ \A s : OnSim(s)' <=> OnSim(s)
      /\ Counted' /\ Spared'
  BY <1>1, SimKept DEF IInv, Counted, Spared, NoStall, Decodes
<1>6. restarts' > 0
  BY <1>1, <1>2 DEF World
<1>7. Backed'
  BY <1>1, <1>5, <1>6 DEF IInv, Backed, Covered, Decodes
<1> QED BY <1>3, <1>4, <1>5, <1>7 DEF IInv

\* sms_task handles a segment, and afterwards the pass is as it was or over.
LEMMA ReceiveDirectKeeps ==
    ASSUME IInv, NEW s \in Segments, NEW v, NEW arrives \in BOOLEAN,
           ReceiveDirect(s, v, arrives)
    PROVE  IInv' /\ DeletesAdmitted
<1> DEFINE o == Handle(s, TRUE, TRUE, v)
<1>1. /\ pass = None /\ Apply(o)
      /\ \/ UNCHANGED <<net, acked>>
         \/ ~o.blocked /\ net' = net \ {s} /\ acked' = acked \cup {s}
      /\ UNCHANGED <<sim, index, pass, stall, idle, abandoned, restarts, aged>>
  BY DEF ReceiveDirect, bound, rounds
<1>2. TypeOK /\ Memory /\ World
  BY TypeIs DEF IInv
<1>3. Right(o) /\ Accounts(o, s)
  BY <1>2, HandleIs DEF IInv
<1> HIDE DEF o
<1>4. /\ Memory' /\ Grounds(open, done, seen, ignored, accepted)' /\ Keeps
      /\ CoverOf(o.p) = Cover(ignored, accepted)' /\ open' = o.open
  BY <1>1, <1>2, <1>3, ApplyIs DEF IInv
<1>5. TypeOK'
  <2>1. World'
    BY <1>1, <1>2 DEF World
  <2> QED BY <1>4, <2>1, TypeIs
<1>6. ~o.blocked => Covered(s)' \/ Held(s)'
  <2>1. ~o.blocked => s \in CoverOf(o.p) \/ \E y \in ToSet(o.open) : s \in y.parts
    BY <1>3 DEF Accounts
  <2>2. (\E y \in ToSet(o.open) : s \in y.parts) => \E j \in DOMAIN o.open : s \in o.open[j].parts
    BY <1>3, HeldIs DEF Right
  <2> QED BY <1>4, <2>1, <2>2 DEF Covered, Cover, Held
<1>7. DeletesAdmitted /\ Counted' /\ Spared'
  BY <1>1, SimKept, CountsStay DEF IInv
<1>8. Listed'
  BY <1>1 DEF Listed
<1>9. Backed'
  <2>1. restarts \in Nat
    BY <1>2 DEF World
  <2> QED BY <1>1, <1>4, <1>6, <1>7, <2>1, BackedKept DEF IInv
<1> QED BY <1>4, <1>5, <1>7, <1>8, <1>9 DEF IInv

LEMMA FetchKeeps ==
    ASSUME IInv, NEW v, NEW a, Fetch(v, a) PROVE IInv' /\ DeletesAdmitted
<1> DEFINE i == Head(index)
           o == Handle(sim[i], FALSE, TRUE, v)
<1>1. /\ pass = None /\ index # <<>> /\ index' = Tail(index)
      /\ IF sim[i] = None \/ ~Decodes(sim[i])
         THEN UNCHANGED <<open, done, seen, pending, accepted, again, ignored, forgotten, sim>>
         ELSE /\ Apply(o)
              /\ sim' = IF o.safe /\ a # "failed" THEN Without({i}) ELSE sim
      /\ UNCHANGED <<net, acked, pass, stall, idle, abandoned, restarts, aged>>
  BY DEF Fetch, ram, fate, bound, rounds
<1>2. TypeOK /\ Memory /\ World
  BY TypeIs DEF IInv
<1>3. /\ i \in 1 .. SimSize /\ index' \in Seq(1 .. SimSize) /\ Len(index') <= IndexMax
      /\ sim[i] \in Segments \cup {None}
  BY <1>1, <1>2, Tails, Constants DEF World
<1> HIDE DEF i
<1>4. Listed' /\ restarts \in Nat /\ Counted' /\ Spared'
  BY <1>1, <1>2, CountsStay DEF IInv, Listed, World
<1>5. CASE sim[i] = None \/ ~Decodes(sim[i])
  <2>1. UNCHANGED <<open, done, seen, pending, accepted, again, ignored, forgotten, sim>>
    BY <1>1, <1>5
  <2>2. Memory' /\ World'
    BY <1>1, <1>2, <1>3, <2>1 DEF Memory, World
  <2>3. Grounds(open, done, seen, ignored, accepted)' /\ DeletesAdmitted /\ Keeps
    BY <1>1, <2>1, SimKept, CalmKeeps DEF IInv, Grounds
  <2>4. Backed'
    BY <1>1, <1>4, <2>3, BackedKept DEF IInv
  <2> QED BY <1>4, <2>2, <2>3, <2>4, TypeIs DEF IInv
<1>6. CASE sim[i] \in Segments /\ Decodes(sim[i])
  <2>1. /\ Apply(o)
        /\ sim' = IF o.safe /\ a # "failed" THEN Without({i}) ELSE sim
    BY <1>1, <1>6, Constants
  <2>2. Right(o) /\ (o.safe => sim[i] \in CoverOf(o.p))
    BY <1>2, <1>6, HandleIs DEF IInv
  <2> HIDE DEF o
  <2>3. /\ Memory' /\ Grounds(open, done, seen, ignored, accepted)' /\ Keeps
        /\ CoverOf(o.p) = Cover(ignored, accepted)'
    BY <1>2, <2>1, <2>2, ApplyIs DEF IInv
  <2>4. DeletesAdmitted /\ sim' \in [1 .. SimSize -> Segments \cup {None}]
    <3>1. CASE sim' = sim
      BY <1>1, <1>2, <3>1, SimKept DEF World
    <3>2. CASE o.safe /\ sim' = Without({i})
      <4>1. sim[i] \in Cover(ignored, accepted)'
        BY <2>2, <2>3, <3>2
      <4>2. /\ {i} \in SUBSET (1 .. SimSize)
            /\ \A j \in {i} : sim[j] \in Cover(ignored, accepted)'
        BY <1>3, <4>1
      <4> QED BY <1>1, <1>2, <3>2, <4>2, RemovedFromSim
    <3> QED BY <2>1, <3>1, <3>2
  <2>5. World'
    BY <1>1, <1>2, <1>3, <2>4 DEF World
  <2>6. Backed'
    BY <1>1, <1>4, <2>3, <2>4, BackedKept DEF IInv
  <2> QED BY <1>4, <2>3, <2>4, <2>5, <2>6, TypeIs DEF IInv
<1> QED BY <1>3, <1>5, <1>6

LEMMA ExpireKeeps ==
    ASSUME IInv, NEW k \in DOMAIN open, NEW v, Expire(k, v)
    PROVE  IInv' /\ DeletesAdmitted
<1> DEFINE slot == open[k]
           p    == Retain(slot, TRUE, v)
           late == [open EXCEPT ![k].delivered = Cardinality(slot.parts), ![k].partial = TRUE]
           tried == Append(RemoveAt(open, k), slot)
<1>1. /\ pass = None
      /\ CASE ~p.retained -> Settle(tried, done, p)
           [] p.retained /\ (slot.partial \/ Full(slot)) ->
                  Settle(RemoveAt(open, k), Recorded(slot), p)
           [] OTHER -> Settle(late, done, p)
      /\ UNCHANGED <<net, sim, index, acked, pass, stall, idle, abandoned, restarts, aged>>
  BY DEF Expire, outer, bound, rounds
<1>2. TypeOK /\ Memory /\ World
  BY TypeIs DEF IInv
<1>3. k \in 1 .. Len(open) /\ open \in Seq(Slot) /\ Len(open) <= SlotMax /\ Len(open) \in Nat
  BY <1>2 DEF Memory
<1>4. slot \in Slot /\ slot \in ToSet(open) /\ Counts(slot, Cover(ignored, accepted))
  BY <1>3, Elements DEF IInv, Grounds
<1>5. Good(p) /\ p.retained \in BOOLEAN /\ (p.retained => slot.parts \subseteq CoverOf(p))
  BY <1>2, <1>4, RetainIs DEF Good, IInv
<1> HIDE DEF p
<1>6. Marked(done) \subseteq CoverOf(p)
  BY <1>5, GoodCovers DEF IInv, Grounds
<1>7. ASSUME NEW slots, NEW finished, Settle(slots, finished, p),
             Right(Outcome(slots, finished, p, FALSE, FALSE))
      PROVE  IInv' /\ DeletesAdmitted
  <2> DEFINE o == Outcome(slots, finished, p, FALSE, FALSE)
  <2>1. Apply(o)
    BY <1>7 DEF Apply, Outcome
  <2> HIDE DEF o
  <2>2. Memory' /\ Grounds(open, done, seen, ignored, accepted)' /\ Keeps
    BY <1>2, <1>7, <2>1, ApplyIs DEF IInv, o
  <2>3. World' /\ Listed' /\ restarts \in Nat
    BY <1>1, <1>2 DEF World, Listed
  <2>4. DeletesAdmitted /\ Counted' /\ Spared'
    BY <1>1, SimKept, CountsStay DEF IInv
  <2>5. Backed'
    BY <1>1, <2>2, <2>3, <2>4, BackedKept DEF IInv
  <2> QED BY <2>2, <2>3, <2>4, <2>5, TypeIs DEF IInv
<1>8. /\ RemoveAt(open, k) \in Seq(Slot) /\ Len(RemoveAt(open, k)) = Len(open) - 1
      /\ ToSet(RemoveAt(open, k)) \subseteq ToSet(open)
      /\ ToSet(open) = ToSet(RemoveAt(open, k)) \cup {slot}
  BY <1>3, Removed
<1>9. CASE ~p.retained
  <2>1. tried \in Seq(Slot) /\ Len(tried) <= SlotMax /\ ToSet(tried) = ToSet(open)
    BY <1>3, <1>4, <1>8, Appended
  <2>2. Settle(tried, done, p)
    BY <1>1, <1>9
  <2> HIDE DEF tried
  <2>3. Right(Outcome(tried, done, p, FALSE, FALSE))
    BY <1>2, <1>5, <1>6, <2>1, OutcomeRight DEF IInv, Memory
  <2> QED BY <1>7, <2>2, <2>3
<1>10. CASE p.retained /\ (slot.partial \/ Full(slot))
  <2>1. Settle(RemoveAt(open, k), Recorded(slot), p)
    BY <1>1, <1>10
  <2>2. /\ Recorded(slot) \in Seq(Parts) /\ Len(Recorded(slot)) <= DoneMax
        /\ Marked(Recorded(slot)) \subseteq CoverOf(p)
    BY <1>2, <1>4, <1>5, <1>6, <1>10, RecordedIs
  <2>3. Len(RemoveAt(open, k)) <= SlotMax
    BY <1>3, <1>8, Constants
  <2>4. \A x \in ToSet(open) : \A t \in x.parts :
          t \in CoverOf(p) \/ \E y \in ToSet(RemoveAt(open, k)) : t \in y.parts
    BY <1>5, <1>8, <1>10
  <2> HIDE DEF slot
  <2>5. Right(Outcome(RemoveAt(open, k), Recorded(slot), p, FALSE, FALSE))
    BY <1>2, <1>5, <1>8, <2>2, <2>3, <2>4, OutcomeRight DEF IInv
  <2> QED BY <1>7, <2>1, <2>5
<1>11. CASE p.retained /\ ~(slot.partial \/ Full(slot))
  <2>1. Settle(late, done, p)
    BY <1>1, <1>11
  <2> DEFINE told == [slot EXCEPT !.delivered = Cardinality(slot.parts), !.partial = TRUE]
  <2>2. Cardinality(slot.parts) \in Nat /\ IsFiniteSet(slot.parts)
    BY <1>4, FS_CardinalityType DEF Counts
  <2>3. /\ told \in Slot /\ told.parts = slot.parts
        /\ told.delivered = Cardinality(slot.parts)
    BY <1>4, <2>2 DEF Slot
  <2>4. late = [open EXCEPT ![k] = told]
    BY <1>3, <1>4 DEF Slot
  <2> HIDE DEF told, late
  <2>5. /\ late \in Seq(Slot) /\ Len(late) = Len(open) /\ late[k] = told
        /\ \A j \in 1 .. Len(open) : j # k => late[j] = open[j]
    BY <1>3, <2>3, <2>4
  <2>6. /\ \A x \in ToSet(late) : x \in ToSet(open) \/ x = told
        /\ \A x \in ToSet(open) : x \in ToSet(late) \/ x = slot
        /\ told \in ToSet(late)
    BY <1>3, <2>5 DEF ToSet
  <2>7. Counts(told, CoverOf(p))
    BY <1>5, <1>11, <2>2, <2>3 DEF Counts
  <2>8. \A x \in ToSet(late) : x \in ToSet(open) \/ Counts(x, CoverOf(p))
    BY <2>6, <2>7
  <2>9. \A x \in ToSet(open) : \A t \in x.parts :
          t \in CoverOf(p) \/ \E y \in ToSet(late) : t \in y.parts
    BY <1>5, <1>11, <2>6
  <2> HIDE DEF slot
  <2>10. Right(Outcome(late, done, p, FALSE, FALSE))
    BY <1>2, <1>3, <1>5, <1>6, <2>5, <2>8, <2>9, OutcomeRight DEF IInv, Memory
  <2> QED BY <1>7, <2>1, <2>10
<1> QED BY <1>5, <1>9, <1>10, <1>11

LEMMA RetryPendingKeeps ==
    ASSUME IInv, RetryPending PROVE IInv' /\ DeletesAdmitted
<1>1. /\ pending # <<>> /\ pending' = Tail(pending)
      /\ UNCHANGED <<open, done, seen, accepted, again, ignored, forgotten, net, sim, index,
                     acked, pass, stall, idle, abandoned, restarts, aged>>
  BY DEF RetryPending, fate, outer, bound, rounds
<1>2. TypeOK /\ Memory /\ World
  BY TypeIs DEF IInv
<1>3. pending' \in Seq(Text) /\ Len(pending') <= PendingMax
  BY <1>1, <1>2, Tails, Constants DEF Memory
<1>4. Memory' /\ World' /\ restarts \in Nat
  BY <1>1, <1>2, <1>3 DEF Memory, World
<1>5. /\ Grounds(open, done, seen, ignored, accepted)' /\ Listed' /\ DeletesAdmitted /\ Keeps
      /\ Counted' /\ Spared'
  BY <1>1, SimKept, CalmKeeps, CountsStay DEF IInv, Grounds, Listed
<1>6. Backed'
  BY <1>1, <1>4, <1>5, BackedKept DEF IInv
<1> QED BY <1>4, <1>5, <1>6, TypeIs DEF IInv

\* The steps of a listing that leave the RAM alone.
LEMMA PassSteps ==
    ASSUME IInv, pass' \in Pass \cup {None}, Listed', DeletesAdmitted, Counted', Spared',
           sim' \in [1 .. SimSize -> Segments \cup {None}],
           stall' \in [headless : 0 .. StallMax, bad : 0 .. StallMax],
           idle' \in 0 .. StallMax, abandoned' \subseteq Segments, abandoned \subseteq abandoned',
           UNCHANGED <<open, done, seen, pending, accepted, again, ignored, forgotten, net,
                       index, acked, restarts, aged>>
    PROVE  IInv'
<1>1. TypeOK /\ Memory /\ World
  BY TypeIs DEF IInv
<1>2. Memory' /\ World' /\ restarts \in Nat
  BY <1>1 DEF Memory, World
<1>3. Grounds(open, done, seen, ignored, accepted)' /\ Keeps
  BY CalmKeeps DEF IInv, Grounds
<1>4. Backed'
  BY <1>2, <1>3, BackedKept DEF IInv
<1> QED BY <1>2, <1>3, <1>4, TypeIs DEF IInv

LEMMA StartPassKeeps ==
    ASSUME IInv, StartPass PROVE IInv' /\ DeletesAdmitted
<1>1. TypeOK /\ Memory /\ World
  BY TypeIs DEF IInv
<1>2. ASSUME NEW i \in Occupied PROVE Place(i) \in Nat /\ Place(i) <= SimSize
  <2> DEFINE Q == {j \in Occupied : j <= i}
  <2>1. IsFiniteSet(1 .. SimSize) /\ Cardinality(1 .. SimSize) = SimSize
    BY FS_Interval, Constants
  <2>2. Q \subseteq 1 .. SimSize
    BY DEF Occupied
  <2>3. IsFiniteSet(Q) /\ Cardinality(Q) <= Cardinality(1 .. SimSize)
    BY <2>1, <2>2, FS_Subset
  <2>4. Cardinality(Q) \in Nat
    BY <2>3, FS_CardinalityType
  <2> QED BY <2>1, <2>3, <2>4 DEF Place
<1> DEFINE last == {i \in Occupied : Place(i) = Window + 1}
<1>3. PICK f \in {"cut", "headless"} :
        pass' = [list |-> Listing(f), handled |-> 0, admissions |-> 0, headless |-> {},
                 bad |-> {}, cut |-> last]
  BY DEF StartPass
<1>4. /\ last \subseteq 1 .. SimSize
      /\ last # {} => Window < SimSize
  BY <1>2, Constants DEF Occupied
<1>5. ASSUME NEW e \in Listing(f)
      PROVE  /\ e \in Entry /\ sim[e.idx] # None
             /\ e.form = "pdu" \/ e.idx \in last
             /\ e = [idx |-> e.idx, form |-> IF Place(e.idx) <= Window THEN "pdu" ELSE f]
  <2>1. PICK i \in Occupied : /\ Place(i) <= Window + 1
                              /\ e = [idx |-> i, form |-> IF Place(i) <= Window THEN "pdu" ELSE f]
    BY <1>5 DEF Listing
  <2>2. Place(i) <= Window \/ Place(i) = Window + 1
    BY <1>2, <2>1, Constants
  <2>3. i \in 1 .. SimSize /\ sim[i] # None
    BY DEF Occupied
  <2> QED BY <2>1, <2>2, <2>3 DEF Entry
<1> HIDE DEF last
<1>6. pass' \in Pass
  BY <1>3, <1>4, <1>5, Constants DEF Pass
<1>7. /\ pass'.headless = {} /\ pass'.bad = {} /\ pass'.list = Listing(f) /\ pass'.cut = last
  BY <1>3
<1>8. UNCHANGED <<open, done, seen, pending, accepted, again, ignored, forgotten, net, sim,
                  index, acked, stall, idle, abandoned, restarts, aged>>
  BY DEF StartPass, ram, fate, outer, bound, rounds
<1>9. Listed'
  <2>1. \A e \in Listing(f) : /\ sim'[e.idx] # None /\ (e.form = "pdu" \/ e.idx \in last)
                              /\ \A d \in Listing(f) : d.idx = e.idx => d = e
    BY <1>5, <1>8
  <2> QED BY <1>4, <1>7, <2>1 DEF Listed
<1>10. DeletesAdmitted /\ Counted' /\ Spared'
  BY <1>8, SimKept, CountsStay DEF IInv
<1> QED BY <1>1, <1>6, <1>8, <1>9, <1>10, PassSteps DEF World

\* What is left of a listing after one of its records.
LEMMA RestListed ==
    ASSUME World, Listed, pass # None, NEW e \in pass.list
    PROVE  /\ e.idx \in 1 .. SimSize /\ sim[e.idx] \in Segments
           /\ e.form = "pdu" \/ e.idx \in pass.cut
           /\ e.idx \notin pass.headless \cup pass.bad
           /\ \A d \in pass.list \ {e} : d.idx \in 1 .. SimSize /\ d.idx # e.idx
<1>1. \A d \in pass.list : d.idx \in 1 .. SimSize /\ sim[d.idx] \in Segments \cup {None}
  BY PassIs
<1>2. /\ sim[e.idx] # None /\ (e.form = "pdu" \/ e.idx \in pass.cut)
      /\ e.idx \notin pass.headless \cup pass.bad
      /\ \A d \in pass.list : d.idx = e.idx => d = e
  BY DEF Listed
<1> QED BY <1>1, <1>2

LEMMA PassUnreadableKeeps ==
    ASSUME IInv, PassUnreadable PROVE IInv' /\ DeletesAdmitted
<1>1. TypeOK /\ Memory /\ World /\ Listed
  BY TypeIs DEF IInv
<1>2. PICK e \in pass.list :
        \/ /\ e.form = "headless"
           /\ pass' = [pass EXCEPT !.list = @ \ {e}, !.headless = Some(@, e.idx)]
        \/ /\ e.form = "cut" \/ ~Decodes(sim[e.idx])
           /\ pass' = [pass EXCEPT !.list = @ \ {e}, !.bad = Some(@, e.idx)]
  BY DEF PassUnreadable
<1>3. /\ pass # None
      /\ UNCHANGED <<open, done, seen, pending, accepted, again, ignored, forgotten, net, sim,
                     index, acked, stall, idle, abandoned, restarts, aged>>
  BY DEF PassUnreadable, ram, fate, outer, bound, rounds
<1>4. /\ e.idx \in 1 .. SimSize /\ sim[e.idx] \in Segments
      /\ e.form = "pdu" \/ e.idx \in pass.cut
      /\ \A d \in pass.list \ {e} : d.idx # e.idx
  BY <1>1, <1>3, RestListed
<1>5. /\ pass \in Pass /\ pass.list \subseteq Entry
      /\ pass.headless \subseteq 1 .. SimSize /\ pass.bad \subseteq 1 .. SimSize
      /\ Some(pass.headless, e.idx) \subseteq pass.headless \cup {e.idx}
      /\ Some(pass.bad, e.idx) \subseteq pass.bad \cup {e.idx}
  BY <1>1, <1>3, PassIs DEF Some
<1>6. /\ pass' \in Pass /\ pass'.list = pass.list \ {e} /\ pass'.cut = pass.cut
      /\ \/ /\ pass'.headless = Some(pass.headless, e.idx) /\ pass'.bad = pass.bad
            /\ e.idx \in pass.cut
         \/ /\ pass'.headless = pass.headless /\ pass'.bad = Some(pass.bad, e.idx)
            /\ e.idx \in pass.cut \/ ~Decodes(sim[e.idx])
  <2>1. CASE /\ e.form = "headless"
             /\ pass' = [pass EXCEPT !.list = @ \ {e}, !.headless = Some(@, e.idx)]
    BY <1>4, <1>5, <2>1 DEF Pass
  <2>2. CASE /\ e.form = "cut" \/ ~Decodes(sim[e.idx])
             /\ pass' = [pass EXCEPT !.list = @ \ {e}, !.bad = Some(@, e.idx)]
    BY <1>4, <1>5, <2>2 DEF Pass
  <2> QED BY <1>2, <2>1, <2>2
<1>7. /\ pass'.headless \cup pass'.bad \subseteq pass.headless \cup pass.bad \cup {e.idx}
      /\ \A i \in pass'.headless : i \in pass.headless \/ (i = e.idx /\ i \in pass.cut)
      /\ \A i \in pass'.bad :
           i \in pass.bad \/ (i = e.idx /\ (i \in pass.cut \/ ~Decodes(sim[i])))
  BY <1>5, <1>6
<1>8. Listed'
  <2>1. \A i \in pass'.headless : sim'[i] # None /\ i \in pass'.cut
    BY <1>1, <1>3, <1>4, <1>6, <1>7, Constants DEF Listed
  <2>2. \A i \in pass'.bad : sim'[i] # None /\ (i \in pass'.cut \/ ~Decodes(sim'[i]))
    <3>1. \A i \in pass'.bad : sim[i] # None /\ (i \in pass.cut \/ ~Decodes(sim[i]))
      BY <1>1, <1>3, <1>4, <1>7, Constants DEF Listed
    <3> QED BY <1>3, <1>6, <3>1
  <2>3. ASSUME NEW d \in pass'.list
        PROVE  /\ sim'[d.idx] # None /\ (d.form = "pdu" \/ d.idx \in pass'.cut)
               /\ d.idx \notin pass'.headless \cup pass'.bad
               /\ \A c \in pass'.list : c.idx = d.idx => c = d
    BY <1>1, <1>3, <1>4, <1>6, <1>7 DEF Listed
  <2>4. pass'.cut # {} => Window < SimSize
    BY <1>1, <1>3, <1>6 DEF Listed
  <2> QED BY <2>1, <2>2, <2>3, <2>4 DEF Listed, Decodes
<1>9. DeletesAdmitted /\ Counted' /\ Spared'
  BY <1>3, SimKept, CountsStay DEF IInv
<1> QED BY <1>1, <1>3, <1>6, <1>8, <1>9, PassSteps DEF World

LEMMA PassRecordKeeps ==
    ASSUME IInv, NEW v, NEW a, PassRecord(v, a) PROVE IInv' /\ DeletesAdmitted
<1> DEFINE Found(e) == Handle(sim[e.idx], FALSE, pass.admissions < Batch, v)
           Delete(e) == Found(e).safe /\ pass.handled < Batch
<1>1. TypeOK /\ Memory /\ World /\ Listed
  BY TypeIs DEF IInv
<1>2. PICK e \in pass.list :
        /\ Decodes(sim[e.idx]) /\ Apply(Found(e))
        /\ sim' = IF Delete(e) /\ a # "failed" THEN Without({e.idx}) ELSE sim
        /\ pass' = [pass EXCEPT
                     !.list = IF Found(e).blocked THEN {} ELSE @ \ {e},
                     !.handled = IF Delete(e) /\ a = "deleted" THEN @ + 1 ELSE @,
                     !.admissions = IF Found(e).p.admitted THEN @ + 1 ELSE @]
  BY DEF PassRecord
<1> DEFINE o == Found(e)
           delete == o.safe /\ pass.handled < Batch
<1>3. pass # None /\ UNCHANGED <<net, index, acked, stall, idle, abandoned, restarts, aged>>
  BY DEF PassRecord, bound, rounds
<1>4. /\ Decodes(sim[e.idx]) /\ Apply(o)
      /\ sim' = IF delete /\ a # "failed" THEN Without({e.idx}) ELSE sim
      /\ pass' = [pass EXCEPT
                   !.list = IF o.blocked THEN {} ELSE @ \ {e},
                   !.handled = IF delete /\ a = "deleted" THEN @ + 1 ELSE @,
                   !.admissions = IF o.p.admitted THEN @ + 1 ELSE @]
  BY <1>2
<1>5. /\ e.idx \in 1 .. SimSize /\ sim[e.idx] \in Segments
      /\ e.idx \notin pass.headless \cup pass.bad
      /\ \A d \in pass.list \ {e} : d.idx \in 1 .. SimSize /\ d.idx # e.idx
  BY <1>1, <1>3, RestListed
<1>6. /\ Right(o) /\ (o.safe => sim[e.idx] \in CoverOf(o.p))
      /\ pass.admissions < Batch \/ ~o.p.admitted
  <2>1. (pass.admissions < Batch) \in BOOLEAN
    OBVIOUS
  <2> QED BY <1>1, <1>5, <2>1, HandleIs DEF IInv
<1> HIDE DEF o, Found, Delete
<1>7. /\ Memory' /\ Grounds(open, done, seen, ignored, accepted)' /\ Keeps
      /\ CoverOf(o.p) = Cover(ignored, accepted)'
  BY <1>1, <1>4, <1>6, ApplyIs DEF IInv
<1>8. DeletesAdmitted /\ sim' \in [1 .. SimSize -> Segments \cup {None}]
  <2>1. CASE sim' = sim
    BY <1>1, <1>3, <2>1, SimKept DEF World
  <2>2. CASE delete /\ sim' = Without({e.idx})
    <3>1. /\ {e.idx} \in SUBSET (1 .. SimSize)
          /\ \A j \in {e.idx} : sim[j] \in Cover(ignored, accepted)'
      BY <1>5, <1>6, <1>7, <2>2
    <3> QED BY <1>1, <1>3, <2>2, <3>1, RemovedFromSim
  <2> QED BY <1>4, <2>1, <2>2
<1>9. \A i \in 1 .. SimSize : i # e.idx => sim'[i] = sim[i]
  <2>1. {e.idx} \in SUBSET (1 .. SimSize)
    BY <1>5
  <2> QED BY <1>1, <1>4, <2>1, WithoutIs
<1>10. /\ pass \in Pass /\ pass.headless \subseteq 1 .. SimSize /\ pass.bad \subseteq 1 .. SimSize 
       /\ pass.list \subseteq Entry /\ pass.handled \in 0 .. Batch /\ pass.admissions \in 0 .. Batch
  BY <1>1, <1>3, PassIs
<1>11. /\ pass'.list \subseteq pass.list \ {e}
       /\ pass'.headless = pass.headless /\ pass'.bad = pass.bad /\ pass'.cut = pass.cut
  BY <1>4, <1>10 DEF Pass
<1>12. pass' \in Pass
  <2>1. (IF o.blocked THEN {} ELSE pass.list \ {e}) \subseteq Entry
    BY <1>10
  <2>2. (IF delete /\ a = "deleted" THEN pass.handled + 1 ELSE pass.handled) \in 0 .. Batch
    BY <1>10, Constants
  <2>3. (IF o.p.admitted THEN pass.admissions + 1 ELSE pass.admissions) \in 0 .. Batch
    BY <1>6, <1>10, Constants
  <2> HIDE DEF delete
  <2> QED BY <1>4, <1>10, <2>1, <2>2, <2>3 DEF Pass
<1>13. Listed'
  <2>1. ASSUME NEW i \in pass.headless \cup pass.bad PROVE sim'[i] = sim[i]
    BY <1>5, <1>9, <1>10
  <2>2. \A i \in pass'.headless : sim'[i] # None /\ i \in pass'.cut
    BY <1>1, <1>3, <1>11, <2>1 DEF Listed
  <2>3. \A i \in pass'.bad : sim'[i] # None /\ (i \in pass'.cut \/ ~Decodes(sim'[i]))
    <3>1. \A i \in pass.bad : sim[i] # None /\ (i \in pass.cut \/ ~Decodes(sim[i]))
      BY <1>1, <1>3 DEF Listed
    <3> QED BY <1>11, <2>1, <3>1
  <2>4. ASSUME NEW d \in pass'.list
        PROVE  /\ sim'[d.idx] # None /\ (d.form = "pdu" \/ d.idx \in pass'.cut)
               /\ d.idx \notin pass'.headless \cup pass'.bad
               /\ \A c \in pass'.list : c.idx = d.idx => c = d
    <3>1. d \in pass.list \ {e} /\ sim'[d.idx] = sim[d.idx]
      BY <1>5, <1>9, <1>11
    <3> QED BY <1>1, <1>3, <1>11, <3>1 DEF Listed
  <2>5. pass'.cut # {} => Window < SimSize
    BY <1>1, <1>3, <1>11 DEF Listed
  <2> QED BY <2>2, <2>3, <2>4, <2>5 DEF Listed, Decodes
<1>14. World' /\ restarts \in Nat /\ Counted' /\ Spared'
  <2>1. /\ UNCHANGED <<net, index, acked, stall, idle, abandoned, restarts, aged>>
        /\ pass' \in Pass \cup {None}
    BY <1>3, <1>12
  <2> QED BY <1>1, <1>3, <1>8, <2>1, CountsStay DEF IInv, World
<1>15. Backed'
  BY <1>3, <1>7, <1>8, <1>14, BackedKept DEF IInv
<1> QED BY <1>7, <1>8, <1>13, <1>14, <1>15, TypeIs DEF IInv

LEMMA EndPassKeeps ==
    ASSUME IInv, NEW a, EndPass(a) PROVE IInv' /\ DeletesAdmitted
<1> DEFINE h == Rounds(stall.headless, pass.headless, pass.handled > 0)
           H == Hopeless(h, pass.headless)
           b == Rounds(stall.bad, pass.bad, pass.handled > 0 \/ Told(H, a) # {})
           B == Hopeless(b, pass.bad)
           gone == Gone(H \cup B, a)
<1>1. TypeOK /\ Memory /\ World /\ Listed /\ Counted /\ Spared
  BY TypeIs DEF IInv
<1>2. /\ pass # None /\ pass' = None
      /\ sim' = Without(gone)
      /\ stall' = [headless |-> IF H # {} /\ H = Told(H, a) THEN 0 ELSE h,
                   bad      |-> IF B # {} /\ B = Told(B, a) THEN 0 ELSE b]
      /\ abandoned' = abandoned \cup {sim[i] : i \in gone}
      /\ idle' = CASE pass.handled > 0 -> 0
                   [] pass.handled = 0 /\ idle < StallMax -> idle + 1
                   [] OTHER -> idle
      /\ UNCHANGED <<open, done, seen, pending, accepted, again, ignored, forgotten, net,
                     index, acked, restarts, aged>>
  BY DEF EndPass, ram, fate, bound
<1>3. /\ stall.headless \in 0 .. StallMax /\ stall.bad \in 0 .. StallMax
      /\ idle \in 0 .. StallMax /\ pass.handled \in 0 .. Batch
      /\ stall.headless <= idle /\ stall.bad <= idle
  BY <1>1, <1>2, PassIs DEF World, Counted
<1>4. /\ pass.headless \cup pass.bad \subseteq 1 .. SimSize
      /\ \A i \in pass.headless \cup pass.bad :
           /\ sim[i] \in Segments
           /\ Decodes(sim[i]) => i \in pass.cut
      /\ pass.cut # {} => Window < SimSize
  <2>1. pass.headless \subseteq 1 .. SimSize /\ pass.bad \subseteq 1 .. SimSize
    BY <1>1, <1>2, PassIs
  <2>2. \A i \in 1 .. SimSize : sim[i] \in Segments \cup {None}
    BY <1>1 DEF World
  <2> QED BY <1>1, <1>2, <2>1, <2>2 DEF Listed
<1>5. idle' \in 0 .. StallMax /\ (idle' = idle + 1 \/ idle' = StallMax \/ pass.handled > 0)
  BY <1>2, <1>3, Constants
<1>6. h \in 0 .. StallMax /\ h <= idle' /\ b \in 0 .. StallMax /\ b <= idle'
  <2>1. h \in 0 .. StallMax /\ h <= idle'
    BY <1>3, <1>5, Constants DEF Rounds
  <2>2. b \in 0 .. StallMax /\ b <= idle'
    <3> HIDE DEF h, H
    <3> QED BY <1>3, <1>5, Constants DEF Rounds
  <2> QED BY <2>1, <2>2
<1>7. /\ H \subseteq pass.headless /\ (H # {} => h >= StallMax)
      /\ B \subseteq pass.bad /\ (B # {} => b >= StallMax)
  BY DEF Hopeless
<1>8. gone \subseteq H \cup B
  BY DEF Gone
<1> HIDE DEF h, H, b, B, gone
<1>9. gone # {} => idle' = StallMax
  BY <1>5, <1>6, <1>7, <1>8, Constants
<1>10. stall' \in [headless : 0 .. StallMax, bad : 0 .. StallMax] /\ Counted'
  <2>1. /\ (IF H # {} /\ H = Told(H, a) THEN 0 ELSE h) \in 0 .. idle'
        /\ (IF B # {} /\ B = Told(B, a) THEN 0 ELSE b) \in 0 .. idle'
    BY <1>5, <1>6, Constants
  <2>2. 0 .. idle' \subseteq 0 .. StallMax
    BY <1>5, Constants
  <2>3. stall' \in [headless : 0 .. idle', bad : 0 .. idle']
    BY <1>2, <2>1
  <2>4. stall'.headless \in 0 .. idle' /\ stall'.bad \in 0 .. idle'
    BY <2>3
  <2> QED BY <1>5, <2>2, <2>3, <2>4, Constants DEF Counted
<1>11. gone \subseteq pass.headless \cup pass.bad
  BY <1>7, <1>8
<1>12. /\ abandoned' \subseteq Segments /\ abandoned \subseteq abandoned' /\ Spared'
       /\ \A s \in abandoned' \ abandoned :
            Decodes(s) => idle' = StallMax /\ \E i \in pass.cut : sim[i] = s
  <2>1. \A s \in abandoned' \ abandoned : \E i \in gone : s = sim[i]
    BY <1>2
  <2>2. \A s \in abandoned' \ abandoned :
          /\ s \in Segments
          /\ Decodes(s) => idle' = StallMax /\ \E i \in pass.cut : sim[i] = s
    BY <1>4, <1>9, <1>11, <2>1
  <2>3. abandoned \subseteq abandoned' /\ abandoned \subseteq Segments
    BY <1>1, <1>2 DEF World
  <2>4. Spared'
    BY <1>1, <1>4, <2>2 DEF Spared, Decodes
  <2> QED BY <2>2, <2>3, <2>4
<1>13. DeletesAdmitted /\ sim' \in [1 .. SimSize -> Segments \cup {None}]
  <2>1. gone \in SUBSET (1 .. SimSize) /\ \A i \in gone : sim[i] \in abandoned'
    BY <1>2, <1>4, <1>11
  <2> QED BY <1>1, <1>2, <1>12, <2>1, RemovedFromSim
<1>14. Listed'
  BY <1>2 DEF Listed
<1> QED BY <1>2, <1>5, <1>10, <1>12, <1>13, <1>14, PassSteps

-----------------------------------------------------------------------------
(* The theorems                                                            *)

LEMMA InitIInv == Init => IInv
<1> SUFFICES ASSUME Init PROVE IInv
  OBVIOUS
<1>1. /\ net = Segments \ Unsent /\ sim = [i \in 1 .. SimSize |-> None]
      /\ index = <<>> /\ open = <<>> /\ done = <<>> /\ seen = <<>> /\ pending = <<>>
      /\ pass = None /\ stall = NoStall /\ idle = 0 /\ abandoned = {}
      /\ accepted = {} /\ again = {} /\ ignored = {} /\ forgotten = {} /\ acked = {}
      /\ restarts = 0 /\ aged = 0
  BY DEF Init, Boot
<1>2. Memory
  BY <1>1, Constants DEF Memory
<1>3. World
  BY <1>1, Constants DEF World, NoStall
<1>4. Grounds(open, done, seen, ignored, accepted) /\ Listed /\ Backed
  BY <1>1 DEF Grounds, Marked, ToSet, Listed, Backed
<1>5. Counted /\ Spared
  BY <1>1 DEF Counted, Spared, NoStall
<1> QED BY <1>2, <1>3, <1>4, <1>5, TypeIs DEF IInv

LEMMA NextIInv == ASSUME IInv, [Next]_vars PROVE IInv' /\ [DeletesAdmitted]_vars
<1>1. CASE Next
  BY <1>1, StoreKeeps, AgeDoneKeeps, RestartKeeps, ReceiveDirectKeeps, FetchKeeps, ExpireKeeps,
     RetryPendingKeeps, StartPassKeeps, PassUnreadableKeeps, PassRecordKeeps, EndPassKeeps DEF Next
<1>2. CASE UNCHANGED vars
  <2>1. UNCHANGED <<open, done, seen, pending, accepted, again, ignored, forgotten, net, sim,
                    index, acked, pass, stall, idle, abandoned, restarts, aged>>
    BY <1>2 DEF vars, ram, fate, outer, bound, rounds
  <2>2. DeletesAdmitted /\ Listed' /\ Counted' /\ Spared'
    BY <2>1, SimKept, CountsStay DEF IInv, Listed
  <2>3. TypeOK /\ Memory /\ World
    BY TypeIs DEF IInv
  <2> QED BY <1>2, <2>1, <2>2, <2>3, PassSteps DEF World
<1> QED BY <1>1, <1>2

LEMMA Invariance == Spec => []IInv
  BY InitIInv, NextIInv, PTL DEF Spec

\* No segment that is sent is lost: the network offers it, or the SIM or a slot
\* holds it, until its text is admitted or is of a blocked sender; a restart loses
\* only what was acknowledged directly, and the removal of corrupt records only what
\* does not decode or stood at the cut of a listing of more than the response holds.
THEOREM ReceptionHolds == Spec => []ReceptionTrue
<1>1. IInv => ReceptionTrue
  BY DEF IInv, Backed, ReceptionTrue, NothingLost
<1> QED BY <1>1, Invariance, PTL

\* And a record leaves the SIM only when its segment is covered, or as a corrupt one:
\* it does not decode, or it stands at the cut of the last of StallMax listings in a
\* row that brought no progress.
THEOREM DeletesOnceAdmitted == Spec => DeletedOnceAdmitted
<1>1. IInv /\ [Next]_vars => [DeletesAdmitted]_vars
  BY NextIInv
<1> QED BY <1>1, Invariance, PTL DEF Spec, DeletedOnceAdmitted

\* Each component keeps to its own part of the state.
LEMMA PushSteps ==
    ASSUME [AllNext]_allvars
    PROVE  /\ which' = which
           /\ which = "test" => [T!Next]_(T!vars)
           /\ which = "mail" => [X!Next]_(X!vars)
  BY DEF AllNext, ReceiveNext, RNext, YNext, MNext, KNext, TNext, XNext, allvars, T!vars, X!vars

-----------------------------------------------------------------------------
(* The dialogue with a mail server (Smtp).                                 *)

\* The commands in their order, without and with STARTTLS.
LEMMA ScriptIs ==
    ASSUME s1 \in BOOLEAN
    PROVE  /\ s1 => /\ Len(X!Script) = 9
                    /\ X!Script[1] = "greeting" /\ X!Script[2] = "EHLO"
                    /\ X!Script[3] = "AUTH LOGIN" /\ X!Script[4] = "user"
                    /\ X!Script[5] = "password" /\ X!Script[6] = "MAIL"
                    /\ X!Script[7] = "RCPT" /\ X!Script[8] = "DATA" /\ X!Script[9] = "message"
           /\ ~s1 => /\ Len(X!Script) = 12
                     /\ X!Script[1] = "greeting" /\ X!Script[2] = "EHLO"
                     /\ X!Script[3] = "STARTTLS" /\ X!Script[4] = "handshake"
                     /\ X!Script[5] = "EHLO"
                     /\ X!Script[6] = "AUTH LOGIN" /\ X!Script[7] = "user"
                     /\ X!Script[8] = "password" /\ X!Script[9] = "MAIL"
                     /\ X!Script[10] = "RCPT" /\ X!Script[11] = "DATA" /\ X!Script[12] = "message"
<1>1. CASE s1
  BY <1>1 DEF X!Script, X!ScriptImplicit
<1>2. CASE ~s1
  BY <1>2 DEF X!Script
<1> QED BY <1>1, <1>2

\* Where the commands stand that count here.
LEMMA Positions ==
    ASSUME s1 \in BOOLEAN
    PROVE  /\ Len(X!Script) \in {9, 12}
           /\ \A i \in 1 .. Len(X!Script) :
                /\ X!Script[i] = "message" <=> i = Len(X!Script)
                /\ X!Script[i] = "handshake" <=> ~s1 /\ i = 4
                /\ ~s1 /\ i \in {2, 3} => X!Script[i] \in {"EHLO", "STARTTLS"}
<1>1. CASE s1
  <2>1. Len(X!Script) = 9
    BY <1>1, ScriptIs
  <2>2. \A i \in 1 .. 9 : i \in {1, 2, 3, 4, 5, 6, 7, 8, 9}
    OBVIOUS
  <2> QED BY <1>1, <2>1, <2>2, ScriptIs
<1>2. CASE ~s1
  <2>1. Len(X!Script) = 12
    BY <1>2, ScriptIs
  <2>2. \A i \in 1 .. 12 : i \in {1, 2, 3, 4, 5, 6, 7, 8, 9, 10, 11, 12}
    OBVIOUS
  <2> QED BY <1>2, <2>1, <2>2, ScriptIs
<1> QED BY <1>1, <1>2

LEMMA ScriptLength ==
    ASSUME s1 \in BOOLEAN
    PROVE  Len(X!Script) \in Nat /\ Len(X!Script) >= 9 /\ Len(X!Script) <= 12
<1> DEFINE n == Len(X!Script)
<1>1. n = 9 \/ n = 12
  BY Positions
<1> HIDE DEF n
<1>2. n \in Nat /\ n >= 9 /\ n <= 12
  BY <1>1
<1> QED BY <1>2 DEF n

\* The script does not change on the way.
LEMMA ScriptStays == ASSUME s1' = s1 PROVE X!Script' = X!Script
  BY DEF X!Script

\* A message judged late leaves no more than there were.
LEMMA LateSum ==
    ASSUME NEW m \in Nat, NEW d \in Nat, NEW m2 \in {m, m + 1}, NEW d2, d > 0, d2 = d - 1
    PROVE  m2 \in Nat /\ d2 \in Nat /\ m2 >= m /\ m2 + d2 <= m + d
  OBVIOUS
LEMMA Transitive ==
    ASSUME NEW a \in Nat, NEW b \in Nat, NEW c \in Nat, NEW d \in Nat, a + b <= c + d
    PROVE  \A e \in Nat : c + d <= e => a + b <= e
  OBVIOUS

\* The codes of the protocol.
LEMMA CodesAre ==
    ASSUME NEW s
    PROVE  X!Codes(s) \subseteq {220, 250, 251, 334, 235, 354, 550}
<1>1. \A c : X!Right(c) \subseteq {220, 250, 251, 334, 235, 354}
  BY ZenonT(60) DEF X!Right
<1> QED BY <1>1 DEF X!Codes

\* Only 250 ends the message well.
LEMMA MessageCode == X!Right("message") = {250}
  BY DEF X!Right

\* Nothing has arrived.
LEMMA NoLines == << >> \in Seq(X!Line) /\ Len(<< >>) = 0
  OBVIOUS

LEMMA ConnectedKeeps == ASSUME X!SmtpAssumption, X!IInv, s2 = "queued", X!Connected PROVE X!IInv'
<1> USE DEF X!SmtpAssumption, X!IInv, X!TypeOK, X!Places, X!Answering, X!Bare, X!Veiled, X!InStep, X!Accounts, X!Answered, X!Pieces, X!Connected
<1>0. s1' = s1 /\ X!Script' = X!Script
  BY ScriptStays
<1>1. X!TypeOK'
  BY SMTT(60), <1>0, Positions, NoLines
<1>2. X!Places'
  BY <1>0, Positions, NoLines
<1>3. X!Answering'
  BY <1>0, Positions, NoLines
<1>4. X!Bare'
  BY <1>0, Positions, NoLines
<1>5. X!Veiled'
  BY <1>0, Positions, NoLines
<1>6. X!InStep'
  BY <1>0, Positions, NoLines
<1>7. X!Accounts'
  BY <1>0, Positions, NoLines
<1>8. (s2 = "write" /\ X!Script[s3] = "handshake" => s9 = s3 - 1)'
  BY <1>0, Positions
<1> QED BY <1>1, <1>2, <1>3, <1>4, <1>5, <1>6, <1>7, <1>8

LEMMA FailKeeps == ASSUME X!SmtpAssumption, X!IInv, s2 \in {"queued", "write", "read"}, X!Fail PROVE X!IInv'
<1> USE DEF X!SmtpAssumption, X!IInv, X!TypeOK, X!Places, X!Answering, X!Bare, X!Veiled, X!InStep, X!Accounts, X!Answered, X!Pieces, X!Fail, X!Close, X!Repeat, X!Whole
<1>0. s1' = s1 /\ X!Script' = X!Script
  BY ScriptStays
<1>1. X!TypeOK'
  BY <1>0, Positions, NoLines
<1>2. X!Places'
  BY <1>0, Positions, NoLines
<1>3. X!Answering'
  BY <1>0, Positions, NoLines
<1>4. X!Bare'
  BY <1>0, Positions, NoLines
<1>5. X!Veiled'
  BY <1>0, Positions, NoLines
<1>6. X!InStep'
  BY <1>0, Positions, NoLines
<1>7. X!Accounts'
  BY <1>0, Positions, NoLines
<1>8. (s2 = "write" /\ X!Script[s3] = "handshake" => s9 = s3 - 1)'
  BY <1>0, Positions
<1> QED BY <1>1, <1>2, <1>3, <1>4, <1>5, <1>6, <1>7, <1>8

LEMMA WriteKeeps == ASSUME X!SmtpAssumption, X!IInv, X!Write PROVE X!IInv'
<1> USE DEF X!SmtpAssumption, X!IInv, X!TypeOK, X!Places, X!Answering, X!Bare, X!Veiled, X!InStep, X!Accounts, X!Answered, X!Pieces, X!Write, X!Written, X!LastPiece
<1>0. s1' = s1 /\ X!Script' = X!Script
  BY ScriptStays
<1>1. X!TypeOK'
  BY <1>0, Positions, NoLines
<1>2. X!Places'
  BY <1>0, Positions, NoLines
<1>3. X!Answering'
  BY <1>0, Positions, NoLines
<1>4. X!Bare'
  BY <1>0, Positions, NoLines
<1>5. X!Veiled'
  <2>1. s4 = "plain" => ~s1 /\ s3 \in {2, 3}
    BY Positions
  <2>2. s4 = "plain" => X!Script[s3] \in {"EHLO", "STARTTLS"}
    BY <2>1, Positions
  <2> QED BY <2>2
<1>6. X!InStep'
  BY <1>0, Positions, NoLines
<1>7. X!Accounts'
  BY <1>0, Positions, NoLines
<1>8. (s2 = "write" /\ X!Script[s3] = "handshake" => s9 = s3 - 1)'
  BY <1>0, Positions
<1> QED BY <1>1, <1>2, <1>3, <1>4, <1>5, <1>6, <1>7, <1>8

LEMMA WriteLateKeeps == ASSUME X!SmtpAssumption, X!IInv, X!WriteLate PROVE X!IInv'
<1> USE DEF X!SmtpAssumption, X!IInv, X!TypeOK, X!Places, X!Answering, X!Bare, X!Veiled, X!InStep, X!Accounts, X!Answered, X!Pieces, X!WriteLate, X!Repeat
<1>0. s1' = s1 /\ X!Script' = X!Script
  BY ScriptStays
<1>1. X!TypeOK'
  BY <1>0, Positions, NoLines
<1>2. X!Places'
  BY <1>0, Positions, NoLines
<1>3. X!Answering'
  BY <1>0, Positions, NoLines
<1>4. X!Bare'
  BY <1>0, Positions, NoLines
<1>5. X!Veiled'
  BY <1>0, Positions, NoLines
<1>6. X!InStep'
  BY <1>0, Positions, NoLines
<1>7. X!Accounts'
  BY <1>0, Positions, NoLines
<1>8. (s2 = "write" /\ X!Script[s3] = "handshake" => s9 = s3 - 1)'
  BY <1>0, Positions
<1> QED BY <1>1, <1>2, <1>3, <1>4, <1>5, <1>6, <1>7, <1>8

LEMMA QuitKeeps == ASSUME X!SmtpAssumption, X!IInv, X!Quit PROVE X!IInv'
<1> USE DEF X!SmtpAssumption, X!IInv, X!TypeOK, X!Places, X!Answering, X!Bare, X!Veiled, X!InStep, X!Accounts, X!Answered, X!Pieces, X!Quit, X!Close, X!Ended, X!Whole
<1>0. s1' = s1 /\ X!Script' = X!Script
  BY ScriptStays
<1>1. X!TypeOK'
  BY <1>0, Positions, NoLines
<1>2. X!Places'
  BY <1>0, Positions, NoLines
<1>3. X!Answering'
  BY <1>0, Positions, NoLines
<1>4. X!Bare'
  BY <1>0, Positions, NoLines
<1>5. X!Veiled'
  BY <1>0, Positions, NoLines
<1>6. X!InStep'
  BY <1>0, Positions, NoLines
<1>7. X!Accounts'
  BY <1>0, Positions, NoLines
<1>8. (s2 = "write" /\ X!Script[s3] = "handshake" => s9 = s3 - 1)'
  BY <1>0, Positions
<1> QED BY <1>1, <1>2, <1>3, <1>4, <1>5, <1>6, <1>7, <1>8

LEMMA ShutKeeps == ASSUME X!SmtpAssumption, X!IInv, X!Shut PROVE X!IInv'
<1> USE DEF X!SmtpAssumption, X!IInv, X!TypeOK, X!Places, X!Answering, X!Bare, X!Veiled, X!InStep, X!Accounts, X!Answered, X!Pieces, X!Shut
<1>0. s1' = s1 /\ X!Script' = X!Script
  BY ScriptStays
<1>1. X!TypeOK'
  BY <1>0, Positions, NoLines
<1>2. X!Places'
  BY <1>0, Positions, NoLines
<1>3. X!Answering'
  BY <1>0, Positions, NoLines
<1>4. X!Bare'
  BY <1>0, Positions, NoLines
<1>5. X!Veiled'
  BY <1>0, Positions, NoLines
<1>6. X!InStep'
  BY <1>0, Positions, NoLines
<1>7. X!Accounts'
  BY <1>0, Positions, NoLines
<1>8. (s2 = "write" /\ X!Script[s3] = "handshake" => s9 = s3 - 1)'
  BY <1>0, Positions
<1> QED BY <1>1, <1>2, <1>3, <1>4, <1>5, <1>6, <1>7, <1>8

LEMMA JudgeLateKeeps == ASSUME X!SmtpAssumption, X!IInv, X!JudgeLate PROVE X!IInv'
<1> USE DEF X!SmtpAssumption, X!IInv, X!TypeOK, X!Places, X!Answering, X!Bare, X!Veiled, X!InStep, X!Accounts, X!Answered, X!Pieces, X!JudgeLate
<1>0. s1' = s1 /\ X!Script' = X!Script
  BY ScriptStays
<1>1. X!TypeOK'
  BY <1>0, Positions, NoLines
<1>2. X!Places'
  BY <1>0, Positions, NoLines
<1>3. X!Answering'
  BY <1>0, Positions, NoLines
<1>4. X!Bare'
  BY <1>0, Positions, NoLines
<1>5. X!Veiled'
  BY <1>0, Positions, NoLines
<1>6. X!InStep'
  BY <1>0, Positions, NoLines
<1>7. X!Accounts'
  <2>1. s12 \in Nat /\ s14 \in Nat /\ s10 \in Nat
    OBVIOUS
  <2>2. s14 > 0 /\ s14' = s14 - 1 /\ s12' \in {s12, s12 + 1}
    OBVIOUS
  <2>3. s12' \in Nat /\ s14' \in Nat /\ s12' >= s12 /\ s12' + s14' <= s12 + s14
    BY <2>1, <2>2, LateSum
  <2>4. X!Answered' <=> X!Answered
    BY <1>0
  <2>5. s8' = s8 /\ s10' = s10 /\ s13' = s13 /\ s2' = s2
    OBVIOUS
  <2>6. X!Accounts
    OBVIOUS
  <2>7. \A b \in Nat : s12 + s14 <= b => s12' + s14' <= b
    BY <2>1, <2>3, Transitive
  <2> HIDE DEF X!Answered, X!JudgeLate, X!IInv, X!TypeOK
  <2>8. s10 + 1 \in Nat /\ (s12 > 0 => s12' > 0)
    BY <2>1, <2>3
  <2> QED BY <2>1, <2>4, <2>5, <2>6, <2>7, <2>8
<1>8. (s2 = "write" /\ X!Script[s3] = "handshake" => s9 = s3 - 1)'
  BY <1>0, Positions
<1> QED BY <1>1, <1>2, <1>3, <1>4, <1>5, <1>6, <1>7, <1>8

LEMMA HandshakeKeeps == ASSUME X!SmtpAssumption, X!IInv, s2 = "write", X!Script[s3] = "handshake",
    s4' = "tls", s3' = s3 + 1,
    UNCHANGED <<s1, s2, s5, s6, s7, s8, s9, s10, s11, s12, s13, s14>> PROVE X!IInv'
<1> USE DEF X!SmtpAssumption, X!IInv, X!TypeOK, X!Places, X!Answering, X!Bare, X!Veiled, X!InStep, X!Accounts, X!Answered, X!Pieces, X!Upgrade
<1>0. s1' = s1 /\ X!Script' = X!Script
  BY ScriptStays
<1>1. X!TypeOK'
  BY <1>0, Positions, NoLines
<1>2. X!Places'
  BY <1>0, Positions, NoLines
<1>3. X!Answering'
  BY <1>0, Positions, NoLines
<1>4. X!Bare'
  BY <1>0, Positions, NoLines
<1>5. X!Veiled'
  BY <1>0, Positions, NoLines
<1>6. X!InStep'
  BY <1>0, Positions, NoLines
<1>7. X!Accounts'
  BY <1>0, Positions, NoLines
<1>8. (s2 = "write" /\ X!Script[s3] = "handshake" => s9 = s3 - 1)'
  BY <1>0, Positions
<1> QED BY <1>1, <1>2, <1>3, <1>4, <1>5, <1>6, <1>7, <1>8

LEMMA AnswerMoreKeeps == ASSUME X!SmtpAssumption, X!IInv, NEW code \in X!Codes(s6), X!AnswerMore(code) PROVE X!IInv'
<1> USE DEF X!SmtpAssumption, X!IInv, X!TypeOK, X!Places, X!Answering, X!Bare, X!Veiled, X!InStep, X!Accounts, X!Answered, X!Pieces, X!AnswerMore
<1>0. s1' = s1 /\ X!Script' = X!Script
  BY ScriptStays
<1>a. /\ s8' \in Seq(X!Line) /\ Len(s8') = Len(s8) + 1 /\ Len(s8) \in Nat
      /\ s8'[Len(s8')] = [to |-> s6, code |-> code, last |-> FALSE]
      /\ \A i \in 1 .. Len(s8) : s8'[i] = s8[i]
  <2>1. [to |-> s6, code |-> code, last |-> FALSE] \in X!Line
    <3>1. s6 \in 1 .. 12
      <4>1. Len(X!Script) \in Nat /\ Len(X!Script) <= 12
        BY ScriptLength
      <4>2. s6 \in 0 .. Len(X!Script) /\ s6 # 0
        OBVIOUS
      <4> QED BY <4>1, <4>2
    <3>2. code \in {220, 250, 251, 334, 235, 354, 550}
      BY CodesAre
    <3> QED BY <3>1, <3>2 DEF X!Line
  <2>2. s8 \in Seq(X!Line) /\ Len(s8) \in Nat
    BY LenProperties
  <2> QED BY <2>1, <2>2, AppendProperties
<1>b. s2 = "read" /\ s3 = s6 /\ s3 > 0
  OBVIOUS
<1>1. X!TypeOK'
  BY <1>0, <1>a, <1>b, Positions, NoLines
<1>2. X!Places'
  BY <1>0, <1>a, <1>b, Positions, NoLines
<1>3. X!Answering'
  BY <1>0, <1>a, <1>b, Positions, NoLines
<1>4. X!Bare'
  BY <1>0, <1>a, <1>b, Positions, NoLines
<1>5. X!Veiled'
  BY <1>0, <1>a, <1>b, Positions, NoLines
<1>6. X!InStep'
  BY <1>0, <1>a, <1>b, Positions, NoLines
<1>7. X!Accounts'
  BY <1>0, <1>a, <1>b, Positions, NoLines
<1>8. (s2 = "write" /\ X!Script[s3] = "handshake" => s9 = s3 - 1)'
  BY <1>0, <1>a, <1>b, Positions
<1> QED BY <1>1, <1>2, <1>3, <1>4, <1>5, <1>6, <1>7, <1>8

LEMMA AnswerKeeps == ASSUME X!SmtpAssumption, X!IInv, NEW code \in X!Codes(s6), X!Answer(code) PROVE X!IInv'
<1> USE DEF X!SmtpAssumption, X!IInv, X!TypeOK, X!Places, X!Answering, X!Bare, X!Veiled, X!InStep, X!Accounts, X!Answered, X!Pieces, X!Answer, X!Accepts
<1>0. s1' = s1 /\ X!Script' = X!Script
  BY ScriptStays
<1>a. /\ s8' \in Seq(X!Line) /\ Len(s8') = Len(s8) + 1 /\ Len(s8) \in Nat
      /\ s8'[Len(s8')] = [to |-> s6, code |-> code, last |-> TRUE]
      /\ \A i \in 1 .. Len(s8) : s8'[i] = s8[i]
  <2>1. [to |-> s6, code |-> code, last |-> TRUE] \in X!Line
    <3>1. s6 \in 1 .. 12
      <4>1. Len(X!Script) \in Nat /\ Len(X!Script) <= 12
        BY ScriptLength
      <4>2. s6 \in 0 .. Len(X!Script) /\ s6 # 0
        OBVIOUS
      <4> QED BY <4>1, <4>2
    <3>2. code \in {220, 250, 251, 334, 235, 354, 550}
      BY CodesAre
    <3> QED BY <3>1, <3>2 DEF X!Line
  <2>2. s8 \in Seq(X!Line) /\ Len(s8) \in Nat
    BY LenProperties
  <2> QED BY <2>1, <2>2, AppendProperties
<1>b. s2 = "read" /\ s3 = s6 /\ s3 > 0
  OBVIOUS
<1>1. X!TypeOK'
  BY <1>0, <1>a, <1>b, Positions, NoLines
<1>2. X!Places'
  BY <1>0, <1>a, <1>b, Positions, NoLines
<1>3. X!Answering'
  BY <1>0, <1>a, <1>b, Positions, NoLines
<1>4. X!Bare'
  BY <1>0, <1>a, <1>b, Positions, NoLines
<1>5. X!Veiled'
  BY <1>0, <1>a, <1>b, Positions, NoLines
<1>6. X!InStep'
  BY <1>0, <1>a, <1>b, Positions, NoLines
<1>7. X!Accounts'
  BY <1>0, <1>a, <1>b, Positions, NoLines
<1>8. (s2 = "write" /\ X!Script[s3] = "handshake" => s9 = s3 - 1)'
  BY <1>0, <1>a, <1>b, Positions
<1> QED BY <1>1, <1>2, <1>3, <1>4, <1>5, <1>6, <1>7, <1>8

\* What is read holds a final line only with the last of what has arrived, and
\* that answers the command under way.
LEMMA FinalIsLast ==
    ASSUME X!IInv, s2 = "read", NEW n \in 1 .. Len(s8)
    PROVE  LET chunk == SubSeq(s8, 1, n) rest == SubSeq(s8, n + 1, Len(s8))
               l == chunk[CHOOSE i \in X!FirstOf(chunk) : TRUE]
           IN  /\ rest \in Seq(X!Line) /\ Len(rest) = Len(s8) - n
               /\ \A i \in 1 .. Len(rest) : rest[i] = s8[n + i]
               /\ X!FirstOf(chunk) = {} => s6 # 0 \/ n < Len(s8)
               /\ X!FirstOf(chunk) # {} => /\ s6 = 0 /\ n = Len(s8) /\ l = s8[Len(s8)]
                                          /\ rest = << >> /\ l.to = s3 /\ l \in X!Line
<1> DEFINE chunk == SubSeq(s8, 1, n)
           rest == SubSeq(s8, n + 1, Len(s8))
           pick == CHOOSE i \in X!FirstOf(chunk) : TRUE
<1>1. s8 \in Seq(X!Line) /\ Len(s8) \in Nat /\ n \in Nat /\ n <= Len(s8)
  BY LenProperties DEF X!IInv, X!TypeOK
<1>2. /\ chunk \in Seq(X!Line) /\ Len(chunk) = n
      /\ \A i \in 1 .. n : chunk[i] = s8[i]
  BY <1>1, SubSeqProperties
<1>3. /\ rest \in Seq(X!Line) /\ Len(rest) = Len(s8) - n
      /\ \A i \in 1 .. Len(rest) : rest[i] = s8[n + i]
  BY <1>1, SubSeqProperties
<1>4. \A i \in 1 .. n : X!Final(chunk[i]) <=> s6 = 0 /\ i = Len(s8)
  BY <1>1, <1>2 DEF X!IInv, X!Answering, X!Final
<1> HIDE DEF chunk, rest
<1>5. X!FirstOf(chunk) = {i \in 1 .. n : s6 = 0 /\ i = Len(s8)}
  BY <1>1, <1>2, <1>4 DEF X!FirstOf
<1>6. X!FirstOf(chunk) = {} => s6 # 0 \/ n < Len(s8)
  BY <1>1, <1>5
<1>7. ASSUME X!FirstOf(chunk) # {}
      PROVE  /\ s6 = 0 /\ n = Len(s8) /\ chunk[pick] = s8[Len(s8)]
             /\ rest = << >> /\ chunk[pick].to = s3 /\ chunk[pick] \in X!Line
  <2>1. pick \in X!FirstOf(chunk)
    BY <1>7
  <2>2. s6 = 0 /\ pick = Len(s8) /\ pick \in 1 .. n
    BY <2>1, <1>5
  <2>3. n = Len(s8) /\ chunk[pick] = s8[Len(s8)]
    <3>1. n = Len(s8) /\ pick = n
      <4>1. \A p \in 1 .. n : p = Len(s8) => n = Len(s8) /\ p = n
        BY <1>1
      <4> HIDE DEF pick
      <4> QED BY <2>2, <4>1
    <3>2. chunk[n] = s8[n]
      BY <1>1, <1>2, <2>2
    <3> QED BY <3>1, <3>2
  <2>4. rest = << >>
    BY <2>3, <1>1, <1>3, EmptySeq
  <2>5. Len(s8) \in 1 .. Len(s8)
    BY <1>1
  <2> QED BY <2>2, <2>3, <2>4, <2>5, <1>1, ElementOfSeq DEF X!IInv, X!Answering
<1> QED BY <1>3, <1>6, <1>7 DEF chunk, rest

\* A part of the answer without its final line is dropped.
LEMMA MoreReadKeeps == ASSUME X!SmtpAssumption, X!IInv, s2 = "read",
    NEW rest, s8' = rest, rest \in Seq(X!Line), NEW n \in 1 .. Len(s8), Len(rest) = Len(s8) - n,
    \A i \in 1 .. Len(rest) : rest[i] = s8[n + i], s6 # 0 \/ n < Len(s8),
    UNCHANGED <<s1, s2, s3, s4, s5, s6, s7, s9, s10, s11, s12, s13, s14>> PROVE X!IInv'
<1> USE DEF X!SmtpAssumption, X!IInv, X!TypeOK, X!Places, X!Answering, X!Bare, X!Veiled, X!InStep, X!Accounts, X!Answered, X!Pieces
<1>0. s1' = s1 /\ X!Script' = X!Script
  BY ScriptStays
<1>1. X!TypeOK'
  BY <1>0, Positions, NoLines
<1>2. X!Places'
  BY <1>0, Positions, NoLines
<1>3. X!Answering'
  <2>1. s6 = 0 => n < Len(s8)
    OBVIOUS
  <2>2. Len(s8) \in Nat /\ n \in Nat /\ Len(rest) \in Nat
    BY LenProperties
  <2>3. s6 = 0 => rest # << >>
    BY <2>1, <2>2, NoLines
  <2>4. ASSUME NEW i \in 1 .. Len(rest)
        PROVE  rest[i].to = s3 /\ (rest[i].last <=> s6 = 0 /\ i = Len(rest))
    <3>1. n + i \in 1 .. Len(s8) /\ (n + i = Len(s8) <=> i = Len(rest))
      BY <2>2
    <3>2. rest[i] = s8[n + i]
      OBVIOUS
    <3>3. X!Answering
      OBVIOUS
    <3> HIDE DEF X!IInv, X!TypeOK, X!Places
    <3> QED BY <3>1, <3>2, <3>3
  <2>5. X!Answering /\ UNCHANGED <<s2, s3, s6, s7>> /\ s8' = rest
    OBVIOUS
  <2> HIDE DEF X!IInv, X!TypeOK, X!Places, X!Accounts
  <2> QED BY <2>3, <2>4, <2>5
<1>4. X!Bare'
  BY <1>0, Positions, NoLines
<1>5. X!Veiled'
  BY <1>0, Positions, NoLines
<1>6. X!InStep'
  BY <1>0, Positions, NoLines
<1>7. X!Accounts'
  BY <1>0, Positions, NoLines
<1>8. (s2 = "write" /\ X!Script[s3] = "handshake" => s9 = s3 - 1)'
  BY <1>0, Positions
<1> QED BY <1>1, <1>2, <1>3, <1>4, <1>5, <1>6, <1>7, <1>8

\* After the right answer the next command, or QUIT.
LEMMA RightKeeps == ASSUME X!SmtpAssumption, X!IInv, s2 = "read",
    NEW l, l = s8[Len(s8)], Len(s8) > 0, s6 = 0, l.to = s3, l.code \in X!Right(X!Script[s3]),
    X!Judged(s3), s8' = << >>, s9' = l.to,
    UNCHANGED <<s1, s4, s5, s6, s7, s10, s11, s12, s14>> PROVE X!IInv'
<1> USE DEF X!SmtpAssumption, X!IInv, X!TypeOK, X!Places, X!Answering, X!Bare, X!Veiled, X!InStep, X!Accounts, X!Answered, X!Pieces, X!Judged
<1>0. s1' = s1 /\ X!Script' = X!Script
  BY ScriptStays
<1>a. s3 \in 0 .. 12 /\ s3 \in 1 .. Len(X!Script) /\ Len(X!Script) \in Nat
  <2>1. Len(X!Script) \in Nat /\ Len(X!Script) <= 12 /\ s3 \in 0 .. Len(X!Script) /\ s3 > 0
    BY ScriptLength
  <2> HIDE DEF X!IInv
  <2> QED BY <2>1
<1>1. X!TypeOK'
  BY <1>0, <1>a, MessageCode, Positions, NoLines
<1>2. X!Places'
  BY <1>0, <1>a, MessageCode, Positions, NoLines
<1>3. X!Answering'
  BY <1>0, <1>a, MessageCode, Positions, NoLines
<1>4. X!Bare'
  BY <1>0, <1>a, MessageCode, Positions, NoLines
<1>5. X!Veiled'
  BY <1>0, <1>a, MessageCode, Positions, NoLines
<1>6. X!InStep'
  BY SMTT(60), <1>0, <1>a, MessageCode, Positions, NoLines
<1>7. X!Accounts'
  BY <1>0, <1>a, MessageCode, Positions, NoLines
<1>8. (s2 = "write" /\ X!Script[s3] = "handshake" => s9 = s3 - 1)'
  BY <1>0, <1>a, MessageCode, Positions
<1> QED BY <1>1, <1>2, <1>3, <1>4, <1>5, <1>6, <1>7, <1>8

\* After a wrong one the attempt ends.
LEMMA WrongKeeps == ASSUME X!SmtpAssumption, X!IInv, s2 = "read",
    NEW l, l.to = s3, s6 = 0, X!Close, X!Repeat, s9' = l.to,
    UNCHANGED <<s1, s11, s12, s13>> PROVE X!IInv'
<1> USE DEF X!SmtpAssumption, X!IInv, X!TypeOK, X!Places, X!Answering, X!Bare, X!Veiled, X!InStep, X!Accounts, X!Answered, X!Pieces, X!Close, X!Repeat, X!Whole
<1>0. s1' = s1 /\ X!Script' = X!Script
  BY ScriptStays
<1>a. s3 \in 0 .. 12 /\ s3 \in 1 .. Len(X!Script) /\ Len(X!Script) \in Nat
  <2>1. Len(X!Script) \in Nat /\ Len(X!Script) <= 12 /\ s3 \in 0 .. Len(X!Script) /\ s3 > 0
    BY ScriptLength
  <2> HIDE DEF X!IInv
  <2> QED BY <2>1
<1>1. X!TypeOK'
  BY <1>0, <1>a, Positions, NoLines
<1>2. X!Places'
  BY <1>0, <1>a, Positions, NoLines
<1>3. X!Answering'
  BY <1>0, <1>a, Positions, NoLines
<1>4. X!Bare'
  BY <1>0, <1>a, Positions, NoLines
<1>5. X!Veiled'
  BY <1>0, <1>a, Positions, NoLines
<1>6. X!InStep'
  BY <1>0, <1>a, Positions, NoLines
<1>7. X!Accounts'
  BY <1>0, <1>a, Positions, NoLines
<1>8. (s2 = "write" /\ X!Script[s3] = "handshake" => s9 = s3 - 1)'
  BY <1>0, <1>a, Positions
<1> QED BY <1>1, <1>2, <1>3, <1>4, <1>5, <1>6, <1>7, <1>8

LEMMA ReadKeeps == ASSUME X!SmtpAssumption, X!IInv, X!Read PROVE X!IInv'
<1>1. PICK n \in 1 .. Len(s8) :
        LET chunk == SubSeq(s8, 1, n) rest == SubSeq(s8, n + 1, Len(s8)) IN
           IF X!FirstOf(chunk) = {}
           THEN /\ s8' = rest
                /\ UNCHANGED <<s1, s2, s3, s4, s5, s6, s7, s9, s10, s11, s12, s13, s14>>
           ELSE LET l == chunk[CHOOSE i \in X!FirstOf(chunk) : TRUE] IN
                IF l.code \in X!Right(X!Script[s3])
                THEN /\ X!Judged(s3) /\ s8' = rest /\ s9' = l.to
                     /\ UNCHANGED <<s1, s4, s5, s6, s7, s10, s11, s12, s14>>
                ELSE X!Close /\ X!Repeat /\ s9' = l.to /\ UNCHANGED <<s1, s11, s12, s13>>
  BY DEF X!Read
<1> DEFINE chunk == SubSeq(s8, 1, n)
           rest == SubSeq(s8, n + 1, Len(s8))
           l == chunk[CHOOSE i \in X!FirstOf(chunk) : TRUE]
<1>2. s2 = "read"
  BY DEF X!Read
<1>3. /\ rest \in Seq(X!Line) /\ Len(rest) = Len(s8) - n
      /\ \A i \in 1 .. Len(rest) : rest[i] = s8[n + i]
      /\ X!FirstOf(chunk) = {} => s6 # 0 \/ n < Len(s8)
      /\ X!FirstOf(chunk) # {} => /\ s6 = 0 /\ n = Len(s8) /\ l = s8[Len(s8)]
                                 /\ rest = << >> /\ l.to = s3 /\ l \in X!Line
  BY <1>2, FinalIsLast
<1>4. CASE X!FirstOf(chunk) = {}
  <2>1. s8' = rest /\ UNCHANGED <<s1, s2, s3, s4, s5, s6, s7, s9, s10, s11, s12, s13, s14>>
    BY <1>1, <1>4
  <2> HIDE DEF rest
  <2> QED BY <1>2, <1>3, <1>4, <2>1, MoreReadKeeps
<1>5. CASE X!FirstOf(chunk) # {} /\ l.code \in X!Right(X!Script[s3])
  <2>1. /\ X!Judged(s3) /\ s8' = rest /\ s9' = l.to
        /\ UNCHANGED <<s1, s4, s5, s6, s7, s10, s11, s12, s14>>
    BY <1>1, <1>5
  <2>2. Len(s8) > 0
    BY <1>3, <1>5
  <2> HIDE DEF rest, l
  <2> QED BY <1>2, <1>3, <1>5, <2>1, <2>2, RightKeeps
<1>6. CASE X!FirstOf(chunk) # {} /\ l.code \notin X!Right(X!Script[s3])
  <2>1. X!Close /\ X!Repeat /\ s9' = l.to /\ UNCHANGED <<s1, s11, s12, s13>>
    BY <1>1, <1>6
  <2> HIDE DEF rest, l
  <2> QED BY <1>2, <1>3, <1>6, <2>1, WrongKeeps
<1> QED BY <1>4, <1>5, <1>6

LEMMA UpgradeKeeps ==
    ASSUME X!SmtpAssumption, X!IInv, NEW ok \in BOOLEAN, X!Upgrade(ok)
    PROVE  X!IInv'
<1>1. s2 = "write" /\ X!Script[s3] = "handshake"
  BY DEF X!Upgrade
<1>2. CASE X!Fail
  BY <1>1, <1>2, FailKeeps
<1>3. CASE ~X!Fail
  <2>1. /\ s4' = "tls" /\ s3' = s3 + 1
        /\ UNCHANGED <<s1, s2, s5, s6, s7, s8, s9, s10, s11, s12, s13, s14>>
    BY <1>3 DEF X!Upgrade
  <2> QED BY <1>1, <2>1, HandshakeKeeps
<1> QED BY <1>2, <1>3

LEMMA MailInit == ASSUME X!SmtpAssumption, X!Init PROVE X!IInv
<1> USE DEF X!Init, X!SmtpAssumption
<1>1. Len(X!Script) \in Nat
  BY ScriptLength
<1>2. s8 \in Seq(X!Line) /\ Len(s8) = 0
  BY NoLines
<1> QED BY <1>1, <1>2 DEF X!IInv, X!TypeOK, X!Places, X!Answering, X!Bare, X!Veiled, X!InStep,
                          X!Accounts, X!Answered, X!Pieces

LEMMA MailKept == ASSUME X!SmtpAssumption, X!IInv, [X!Next]_(X!vars) PROVE X!IInv'
<1>1. CASE UNCHANGED X!vars
  <2>1. X!Script' = X!Script
    BY <1>1 DEF X!vars, X!Script
  <2>2. X!TypeOK' /\ X!Places' /\ X!Answering' /\ X!Bare' /\ X!Veiled'
    BY <1>1, <2>1 DEF X!vars, X!IInv, X!TypeOK, X!Places, X!Answering, X!Bare, X!Veiled
  <2>3. X!InStep' /\ X!Accounts'
    BY <1>1, <2>1 DEF X!vars, X!IInv, X!InStep, X!Accounts, X!Answered
  <2> QED BY <1>1, <2>1, <2>2, <2>3 DEF X!vars, X!IInv
<1>2. CASE X!Server
  BY <1>2, AnswerKeeps, AnswerMoreKeeps, ShutKeeps, JudgeLateKeeps DEF X!Server
<1>3. CASE X!Sender
  <2>1. CASE X!Connect
    BY <2>1, ConnectedKeeps, FailKeeps DEF X!Connect
  <2>2. CASE X!WriteFails \/ X!ReadFails
    BY <2>2, FailKeeps DEF X!WriteFails, X!ReadFails
  <2> QED BY <1>3, <2>1, <2>2, UpgradeKeeps, WriteKeeps, WriteLateKeeps, ReadKeeps, QuitKeeps
          DEF X!Sender
<1> QED BY <1>1, <1>2, <1>3 DEF X!Next, X!Done

LEMMA MailIsTrue == X!IInv => X!TypeOK /\ X!InStep /\ X!Veiled /\ X!SentTrue
<1> SUFFICES ASSUME X!IInv PROVE X!InStep /\ X!SentTrue
  BY DEF X!IInv
<1>1. X!InStep
  BY DEF X!IInv
<1>2. X!SentTrue
  BY DEF X!IInv, X!TypeOK, X!Accounts, X!SentTrue
<1> QED BY <1>1, <1>2

-----------------------------------------------------------------------------
(* The test of a push channel (TestPush).                                  *)

\* A slot is of its type, in one phase, and what it says is over is its own.
JobSound(j) ==
    /\ j \in T!Jobs
    /\ ~(j.pending /\ j.running) /\ ~((j.pending \/ j.running) /\ j.done)
    /\ j.done => j.of = j.asked
    /\ j.success => j.done /\ j.attempted /\ j.status = 200

LEMMA SlotsSound == ASSUME T!IInv PROVE \A c \in Channels : JobSound(s1[c])
  BY DEF T!IInv, T!TypeOK, T!ResultOwn, T!Busy, JobSound

LEMMA TestSound ==
    ASSUME T!TestAssumption, s1' \in [Channels -> T!Jobs], \A c \in Channels : JobSound(s1'[c]),
           s2' \in T!Settings, s5' \in Nat, s6' \in Nat, s9' \in 0 .. MaxTests,
           T!HandlerSound', T!WorkerSound', T!RunningIsWorkers'
    PROVE  T!IInv'
<1>1. T!TypeOK'
  BY DEF T!TypeOK, T!Busy, JobSound, T!Jobs
<1>2. T!ResultOwn'
  BY DEF T!ResultOwn, JobSound
<1> QED BY <1>1, <1>2 DEF T!IInv

\* A slot whose test is given up is sound.
LEMMA OverSound ==
    ASSUME NEW j, JobSound(j), j.pending \/ j.running
    PROVE  LET o == T!Over(j, "preflight")
           IN  /\ JobSound(o) /\ ~o.pending /\ ~o.running /\ o.done /\ o.asked = j.asked
<1> DEFINE o == T!Over(j, "preflight")
<1>1. j \in T!Jobs
  BY DEF JobSound
<1>2. /\ o.pending = FALSE /\ o.running = FALSE /\ o.done = TRUE /\ o.success = FALSE
      /\ o.asked = j.asked /\ o.of = j.asked
  BY DEF T!Over, T!Empty
<1>3. o \in T!Jobs
  <2>1. j.asked \in Nat
    BY <1>1 DEF T!Jobs
  <2> QED BY <2>1 DEF T!Over, T!Empty, T!Jobs
<1> QED BY <1>2, <1>3 DEF JobSound

\* Expiry only ends tests that wait.
LEMMA ExpireSound ==
    ASSUME T!IInv
    PROVE  /\ T!Expire(s1) \in [Channels -> T!Jobs]
           /\ \A c \in Channels :
                /\ JobSound(T!Expire(s1)[c])
                /\ T!Expire(s1)[c].asked = s1[c].asked
                /\ T!Expire(s1)[c].running = s1[c].running
<1> SUFFICES ASSUME NEW c \in Channels
             PROVE  /\ JobSound(T!Expire(s1)[c])
                    /\ T!Expire(s1)[c].asked = s1[c].asked
                    /\ T!Expire(s1)[c].running = s1[c].running
  BY DEF JobSound, T!Expire
<1>1. CASE T!Expired(s1[c])
  <2>1. s1[c].pending /\ JobSound(s1[c])
    BY <1>1, SlotsSound DEF T!Expired
  <2>2. T!Expire(s1)[c] = T!Over(s1[c], "preflight")
    BY <1>1 DEF T!Expire
  <2>3. ~s1[c].running /\ s1[c].running \in BOOLEAN
    BY <2>1 DEF JobSound, T!Jobs
  <2>4. T!Over(s1[c], "preflight").running = FALSE
    BY DEF T!Over, T!Empty
  <2> QED BY <2>1, <2>2, <2>3, <2>4, OverSound
<1>2. CASE ~T!Expired(s1[c])
  BY <1>2, SlotsSound DEF T!Expire
<1> QED BY <1>1, <1>2

\* The parts of the invariant that say nothing of a slot.
LEMMA RestSound ==
    ASSUME T!IInv
    PROVE  /\ s2 \in T!Settings /\ s5 \in Nat /\ s6 \in Nat /\ s9 \in 0 .. MaxTests
           /\ T!HandlerSound /\ T!WorkerSound /\ T!RunningIsWorkers
           /\ s1 \in [Channels -> T!Jobs]
  BY DEF T!IInv, T!TypeOK

\* Slots that run what they ran stay the worker's.
LEMMA RunsStay ==
    ASSUME T!IInv, s8' = s8,
           \A c \in Channels : s1'[c].running = s1[c].running /\ s1'[c].asked = s1[c].asked
    PROVE  T!RunningIsWorkers' /\ T!WorkerSound'
<1>1. T!RunningIsWorkers'
  BY RestSound DEF T!RunningIsWorkers
<1>2. s8.at \in {"sending", "sent"} => s8.picked \in Channels
  BY RestSound DEF T!WorkerSound, T!Idle
<1>3. T!WorkerSound'
  BY <1>2, RestSound DEF T!WorkerSound
<1> QED BY <1>1, <1>3

LEMMA StatusKeeps == ASSUME T!TestAssumption, T!IInv, T!Status PROVE T!IInv'
<1> USE DEF T!Status
<1>1. T!HandlerSound'
  BY RestSound DEF T!HandlerSound
<1>2. T!RunningIsWorkers' /\ T!WorkerSound'
  BY ExpireSound, RunsStay
<1> QED BY <1>1, <1>2, ExpireSound, RestSound, TestSound

LEMMA AskKeeps == ASSUME T!TestAssumption, T!IInv, NEW c \in Channels, T!Ask(c) PROVE T!IInv'
<1> USE DEF T!Ask
<1>1. T!HandlerSound'
  BY RestSound DEF T!HandlerSound, T!Idle
<1>2. T!RunningIsWorkers' /\ T!WorkerSound'
  BY ExpireSound, RunsStay
<1> QED BY <1>1, <1>2, ExpireSound, RestSound, TestSound

LEMMA AdmitKeeps == ASSUME T!TestAssumption, T!IInv, T!Admit PROVE T!IInv'
<1> USE DEF T!Admit
<1>1. s7 # T!Idle /\ s7.channel \in Channels
  BY RestSound DEF T!HandlerSound, T!Idle
<1>2. s2.channel[s7.channel].valid \in BOOLEAN
  BY <1>1, RestSound DEF T!Settings, T!Channel
<1>3. T!HandlerSound'
  BY <1>1, <1>2, RestSound DEF T!HandlerSound, T!Idle
<1>4. T!RunningIsWorkers' /\ T!WorkerSound'
  BY RunsStay
<1> QED BY <1>3, <1>4, SlotsSound, RestSound, TestSound

\* A slot in which a test is queued.
LEMMA QueuedSound ==
    ASSUME NEW d \in Nat, NEW n \in Nat
    PROVE  LET j == [T!Empty EXCEPT !.pending = TRUE, !.deadline = d, !.asked = n]
           IN  JobSound(j) /\ ~j.running
  BY DEF T!Empty, JobSound, T!Jobs

LEMMA QueueKeeps == ASSUME T!TestAssumption, T!IInv, T!Queue PROVE T!IInv'
<1> DEFINE c == s7.channel
           jobs == T!Expire(s1)
           new == [T!Empty EXCEPT !.pending = TRUE, !.deadline = s5 + TestMax,
                                  !.asked = s9 + 1]
           ok == s7.valid /\ ~T!Busy(jobs[c])
<1>1. /\ s7.at = "admitted" /\ s7' = T!Idle /\ UNCHANGED <<s2, s3, s4, s5, s6, s8>>
      /\ s1' = IF ok THEN [jobs EXCEPT ![c] = new] ELSE jobs
      /\ s9' = s9 + (IF ok THEN 1 ELSE 0)
  BY DEF T!Queue
<1>2. c \in Channels /\ s9 < MaxTests /\ s9 \in Nat /\ s5 \in Nat
  BY <1>1, RestSound DEF T!HandlerSound, T!Idle, T!TestAssumption
<1>3. JobSound(new) /\ ~new.running
  <2>1. s5 + TestMax \in Nat /\ s9 + 1 \in Nat
    BY <1>2 DEF T!TestAssumption
  <2> QED BY <2>1, QueuedSound
<1>4. s9' \in 0 .. MaxTests
  BY <1>1, <1>2 DEF T!TestAssumption
<1>5. s1' \in [Channels -> T!Jobs] /\ \A d \in Channels : JobSound(s1'[d])
  BY ZenonT(60), <1>1, <1>3, ExpireSound DEF JobSound
<1>6. T!HandlerSound'
  BY <1>1 DEF T!HandlerSound
<1>7. CASE ~ok
  <2>1. T!RunningIsWorkers' /\ T!WorkerSound'
    BY <1>1, <1>7, ExpireSound, RunsStay
  <2> QED BY <1>1, <1>4, <1>5, <1>6, <2>1, RestSound, TestSound
<1>8. CASE ok
  <2>1. ~s1[c].running
    BY <1>2, <1>8, ExpireSound DEF T!Busy
  <2>2. s1' = [jobs EXCEPT ![c] = new]
    BY <1>1, <1>8
  <2> HIDE DEF new, jobs
  <2>3. s1'[c] = new /\ \A d \in Channels : d # c => s1'[d] = jobs[d]
    BY <1>2, <2>2, ExpireSound DEF jobs
  <2>4. \A d \in Channels \ {c} : s1'[d].running = s1[d].running /\ s1'[d].asked = s1[d].asked
    BY <2>3, ExpireSound DEF jobs
  <2>5. T!RunningIsWorkers'
    BY <1>1, <1>3, <2>3, <2>4, RestSound DEF T!RunningIsWorkers
  <2>6. s8.at \in {"sending", "sent"} => s8.picked \in Channels \ {c}
    BY <2>1, RestSound DEF T!WorkerSound, T!Idle
  <2>7. T!WorkerSound'
    BY <1>1, <2>4, <2>6, RestSound DEF T!WorkerSound
  <2> QED BY <1>1, <1>4, <1>5, <1>6, <2>5, <2>7, RestSound, TestSound
<1> QED BY <1>7, <1>8

\* While the worker does not send, nothing runs.
LEMMA NoneRuns ==
    ASSUME T!IInv, s8.at \notin {"sending", "sent"}
    PROVE  \A c \in Channels : ~s1[c].running
  BY RestSound DEF T!RunningIsWorkers

LEMMA BeginKeeps == ASSUME T!TestAssumption, T!IInv, T!Begin PROVE T!IInv'
<1> USE DEF T!Begin
<1>1. T!HandlerSound'
  BY RestSound DEF T!HandlerSound
<1>2. s8' \in {T!Idle} \cup [at : {"looked"}, now : Nat]
  BY RestSound
<1>3. s8'.at \in {"idle", "looked"}
  BY <1>2 DEF T!Idle
<1>4. T!WorkerSound'
  BY <1>2, <1>3 DEF T!WorkerSound
<1>5. \A c \in Channels : ~s1[c].running
  BY NoneRuns DEF T!Idle
<1>6. T!RunningIsWorkers'
  BY <1>5, ExpireSound DEF T!RunningIsWorkers
<1> QED BY <1>1, <1>4, <1>6, ExpireSound, RestSound, TestSound

LEMMA SendKeeps == ASSUME T!TestAssumption, T!IInv, T!Send PROVE T!IInv'
<1>1. PICK o \in T!Sent(s8.channel, s8.way) :
        s8' = [at |-> "sent", picked |-> s8.picked, test |-> s8.test, outcome |-> o]
  BY DEF T!Send
<1>2. s8.at = "sending" /\ UNCHANGED <<s1, s2, s3, s4, s5, s6, s7, s9>>
  BY DEF T!Send
<1>3. s8 \in [at : {"sending"}, channel : T!Channel, way : {"wifi", "cellular"},
              picked : Channels, test : Nat]
  BY <1>2, RestSound DEF T!WorkerSound, T!Idle
<1>4. o \in T!Outcomes /\ (o.success => o.attempted /\ o.status = 200)
  <2>1. ASSUME NEW a \in T!Answers
        PROVE  LET p == T!Outcome(T!Good(a), s8.way, TRUE, T!Stage(a), a.status)
               IN  p \in T!Outcomes /\ (p.success => p.attempted /\ p.status = 200)
    <3>1. T!Good(a) \in BOOLEAN /\ T!Stage(a) \in {"none", "http", "modem", "response"}
      BY DEF T!Good, T!Stage, T!Answers
    <3>2. a.status \in {0, 200, 404} /\ s8.way \in T!Ways
      BY <1>3 DEF T!Answers, T!Ways
    <3> DEFINE ok == T!Good(a)
               p == T!Outcome(ok, s8.way, TRUE, T!Stage(a), a.status)
    <3>3. p.success = ok /\ p.attempted = TRUE /\ p.status = a.status
      BY DEF T!Outcome
    <3>4. ok => a.status = 200
      BY DEF T!Good
    <3>5. ok \in BOOLEAN /\ T!Stage(a) \in {"none", "http", "modem", "response"}
      BY <3>1
    <3> HIDE DEF ok
    <3>6. p \in T!Outcomes
      BY <3>2, <3>5 DEF T!Outcomes, T!Outcome
    <3> QED BY <3>3, <3>4, <3>6 DEF ok
  <2>2. ASSUME NEW st \in {"target", "ca", "request"}
        PROVE  LET p == T!Outcome(FALSE, s8.way, FALSE, st, 0)
               IN  p \in T!Outcomes /\ ~p.success
    <3>1. s8.way \in T!Ways
      BY <1>3 DEF T!Ways
    <3> QED BY <3>1 DEF T!Outcomes, T!Outcome
  <2>3. CASE \E a \in T!Answers :
               o = T!Outcome(T!Good(a), s8.way, TRUE, T!Stage(a), a.status)
    <3>1. PICK a \in T!Answers : o = T!Outcome(T!Good(a), s8.way, TRUE, T!Stage(a), a.status)
      BY <2>3
    <3> DEFINE p == T!Outcome(T!Good(a), s8.way, TRUE, T!Stage(a), a.status)
    <3>2. p \in T!Outcomes /\ (p.success => p.attempted /\ p.status = 200)
      BY ZenonT(60), <2>1
    <3>3. o = p
      BY <3>1
    <3> HIDE DEF p
    <3> QED BY <3>2, <3>3
  <2>4. CASE \E st \in {"target", "ca", "request"} : o = T!Outcome(FALSE, s8.way, FALSE, st, 0)
    BY <2>2, <2>4
  <2> QED BY <2>3, <2>4 DEF T!Sent
<1>5. s8' \in [at : {"sent"}, picked : Channels, test : Nat, outcome : T!Outcomes]
  BY <1>1, <1>3, <1>4
<1>6. s8'.at = "sent" /\ s8'.picked = s8.picked /\ s8'.test = s8.test /\ s8'.outcome = o
  BY <1>1
<1>7. T!WorkerSound'
  <2>1. s1[s8.picked].running /\ s1[s8.picked].asked = s8.test
    BY <1>2, RestSound DEF T!WorkerSound
  <2> QED BY <1>2, <1>4, <1>5, <1>6, <2>1 DEF T!WorkerSound
<1>8. T!RunningIsWorkers'
  BY <1>2, <1>6, RestSound DEF T!RunningIsWorkers
<1>9. T!HandlerSound'
  BY <1>2, RestSound DEF T!HandlerSound
<1> QED BY <1>2, <1>7, <1>8, <1>9, SlotsSound, RestSound, TestSound

LEMMA CompleteKeeps == ASSUME T!TestAssumption, T!IInv, T!Complete PROVE T!IInv'
<1> DEFINE c == s8.picked
           o == s8.outcome
           new == [T!Over(s1[c], o.stage) EXCEPT !.success = o.success,
                    !.path = o.path, !.attempted = o.attempted, !.status = o.status,
                    !.of = s8.test]
<1>1. /\ s8.at = "sent" /\ s8' = T!Idle /\ s1' = [s1 EXCEPT ![c] = new]
      /\ UNCHANGED <<s2, s3, s4, s5, s6, s7, s9>>
  BY DEF T!Complete
<1>2. s8 \in [at : {"sent"}, picked : Channels, test : Nat, outcome : T!Outcomes]
  BY <1>1, RestSound DEF T!WorkerSound, T!Idle
<1>3. s1[c].asked = s8.test /\ (o.success => o.attempted /\ o.status = 200)
  BY <1>1, RestSound DEF T!WorkerSound
<1>4. c \in Channels /\ o \in T!Outcomes /\ s8.test \in Nat /\ s1[c] \in T!Jobs
  BY <1>2, RestSound
<1>5. /\ o.success \in BOOLEAN /\ o.path \in T!Ways /\ o.attempted \in BOOLEAN
      /\ o.stage \in {"none", "target", "ca", "request", "modem", "response", "http"}
      /\ o.status \in {0, 200, 404}
  BY <1>4 DEF T!Outcomes
<1>6. JobSound(new) /\ ~new.running
  <2> HIDE DEF c, o
  <2>1. new \in T!Jobs
    <3>1. s1[c].asked \in Nat
      BY <1>4 DEF T!Jobs
    <3>2. o.stage \in {"none", "preflight", "target", "ca", "request", "modem", "response", "http"}
      BY <1>5
    <3>3. o.path \in T!Ways \cup {"none"}
      BY <1>5
    <3>4. T!Over(s1[c], o.stage) \in T!Jobs
      BY <3>1, <3>2 DEF T!Over, T!Empty, T!Jobs
    <3>5. s8.test \in Nat /\ o.success \in BOOLEAN /\ o.attempted \in BOOLEAN
          /\ o.status \in {0, 200, 404}
      BY <1>4, <1>5
    <3> DEFINE base == T!Over(s1[c], o.stage)
    <3> HIDE DEF base
    <3> QED BY ZenonT(60), <3>3, <3>4, <3>5 DEF T!Jobs, base
  <2>2. /\ new.pending = FALSE /\ new.running = FALSE /\ new.done = TRUE /\ new.of = s8.test
        /\ new.success = o.success /\ new.attempted = o.attempted /\ new.status = o.status
        /\ new.asked = s1[c].asked
    BY DEF T!Over, T!Empty
  <2> QED BY <1>3, <2>1, <2>2 DEF JobSound
<1> HIDE DEF new
<1>7. s1' \in [Channels -> T!Jobs] /\ \A d \in Channels : JobSound(s1'[d])
  BY <1>1, <1>4, <1>6, SlotsSound, RestSound DEF JobSound
<1>8. T!RunningIsWorkers'
  <2>1. \A d \in Channels : d # c => ~s1[d].running
    BY <1>1, RestSound DEF T!RunningIsWorkers
  <2>2. \A d \in Channels : ~s1'[d].running
    BY <1>1, <1>4, <1>6, <2>1, RestSound
  <2> QED BY <2>2 DEF T!RunningIsWorkers
<1>9. T!WorkerSound' /\ T!HandlerSound'
  BY <1>1, RestSound DEF T!WorkerSound, T!HandlerSound, T!Idle
<1> QED BY <1>1, <1>7, <1>8, <1>9, RestSound, TestSound

\* Settings and network only change.
LEMMA ChangeKeeps == ASSUME T!TestAssumption, T!IInv, T!Change PROVE T!IInv'
<1>1. UNCHANGED <<s1, s5, s7, s8, s9>> /\ s6' = s6 + 1
  BY DEF T!Change
<1>2. s2' \in T!Settings
  <2>1. CASE s2' = s2
    BY <2>1, RestSound
  <2>2. CASE s2' = [s2 EXCEPT !.enabled = ~@]
    BY <2>2, RestSound DEF T!Settings
  <2>3. ASSUME NEW mo \in T!Modes, s2' = [s2 EXCEPT !.mode = mo] PROVE s2' \in T!Settings
    BY <2>3, RestSound DEF T!Settings
  <2>4. ASSUME NEW c \in Channels, NEW f \in {"valid", "cellular", "root"},
               s2' = [s2 EXCEPT !.channel[c][f] = ~@]
        PROVE  s2' \in T!Settings
    <3>1. s2.channel[c] \in T!Channel /\ s2.channel \in [Channels -> T!Channel]
      BY RestSound DEF T!Settings
    <3>2. [s2.channel[c] EXCEPT ![f] = ~@] \in T!Channel
      BY <3>1 DEF T!Channel
    <3>3. [s2.channel EXCEPT ![c] = [s2.channel[c] EXCEPT ![f] = ~@]] \in [Channels -> T!Channel]
      BY <3>1, <3>2
    <3> QED BY <2>4, <3>3, RestSound DEF T!Settings
  <2> QED BY <2>1, <2>2, <2>3, <2>4 DEF T!Change
<1>3. T!HandlerSound'
  BY <1>1, RestSound DEF T!HandlerSound
<1>4. T!RunningIsWorkers' /\ T!WorkerSound'
  BY <1>1, RunsStay
<1> QED BY <1>1, <1>2, <1>3, <1>4, SlotsSound, RestSound, TestSound

LEMMA TickKeeps == ASSUME T!TestAssumption, T!IInv, T!Tick PROVE T!IInv'
<1>1. UNCHANGED <<s1, s2, s3, s4, s6, s7, s8, s9>> /\ s5' = s5 + 1
  BY DEF T!Tick
<1>2. T!HandlerSound'
  BY <1>1, RestSound DEF T!HandlerSound
<1>3. T!RunningIsWorkers' /\ T!WorkerSound'
  BY <1>1, RunsStay
<1> QED BY <1>1, <1>2, <1>3, SlotsSound, RestSound, TestSound

\* The copies, and the end of all tests when forwarding is disabled.
LEMMA CopyKeeps == ASSUME T!TestAssumption, T!IInv, T!Copy PROVE T!IInv'
<1>1. s8.at = "looked" /\ UNCHANGED <<s2, s3, s4, s5, s6, s7, s9>>
  BY DEF T!Copy
<1>2. s8 \in [at : {"looked"}, now : Nat]
  BY <1>1, RestSound DEF T!WorkerSound, T!Idle
<1>3. \A c \in Channels : ~s1[c].running
  BY <1>1, NoneRuns
<1>4. T!HandlerSound'
  BY <1>1, RestSound DEF T!HandlerSound
<1>5. CASE ~s2.enabled
  <2>1. s1' = T!FailPending(s1) /\ s8' = T!Idle
    BY <1>5 DEF T!Copy
  <2>2. \A c \in Channels : JobSound(s1'[c]) /\ ~s1'[c].running
    BY <1>3, <2>1, OverSound, SlotsSound DEF T!FailPending
  <2>3. s1' \in [Channels -> T!Jobs]
    <3>1. DOMAIN s1' = Channels /\ s1' = [c \in Channels |-> s1'[c]]
      BY <2>1 DEF T!FailPending
    <3> QED BY <2>2, <3>1 DEF JobSound
  <2>4. T!RunningIsWorkers' /\ T!WorkerSound'
    BY <2>1, <2>2 DEF T!RunningIsWorkers, T!WorkerSound, T!Idle
  <2> QED BY <1>1, <1>4, <2>2, <2>3, <2>4, RestSound, TestSound
<1>6. CASE s2.enabled
  <2> DEFINE way == T!Select(s2.mode, s3)
  <2>1. UNCHANGED s1
    BY <1>6 DEF T!Copy
  <2>2. \/ s8' = T!Idle
        \/ /\ way # "defer"
           /\ s8' = [at |-> "copied", now |-> s8.now, way |-> way, channel |-> s2.channel]
    <3>1. \/ s8' = T!Idle /\ way \in {"defer", "wifi"}
          \/ /\ way # "defer"
             /\ s8' = [at |-> "copied", now |-> s8.now, way |-> way, channel |-> s2.channel]
      BY <1>6 DEF T!Copy
    <3> QED BY <3>1
  <2>3. way # "defer" => way \in {"wifi", "cellular"}
    BY RestSound DEF T!Select, T!Settings, T!Modes
  <2>4. s8' \in {T!Idle} \cup [at : {"copied"}, now : Nat, way : {"wifi", "cellular"},
                              channel : [Channels -> T!Channel]]
    <3>1. s2.channel \in [Channels -> T!Channel]
      BY RestSound DEF T!Settings
    <3> HIDE DEF way
    <3> QED BY <1>2, <2>2, <2>3, <3>1
  <2>5. s8'.at \in {"idle", "copied"}
    BY <2>4 DEF T!Idle
  <2>6. T!WorkerSound'
    BY <2>4, <2>5 DEF T!WorkerSound
  <2>7. T!RunningIsWorkers'
    BY <1>3, <2>1 DEF T!RunningIsWorkers
  <2> QED BY <1>1, <1>4, <2>1, <2>6, <2>7, SlotsSound, RestSound, TestSound
<1> QED BY <1>5, <1>6

\* Channels have a first one among any.
LEMMA FirstExists ==
    ASSUME NEW S \in SUBSET Nat, S # {}
    PROVE  \E n \in S : \A k \in S : n <= k
<1>1. PICK n \in S : \A k \in S : <<k, n>> \notin OpToRel(<, Nat)
  BY NatLessThanWellFounded, WFMin
<1>2. \A k \in S : ~(k < n)
  BY <1>1 DEF OpToRel
<1> QED BY <1>2

\* A slot put off or taken up is sound.
LEMMA PostponedSound ==
    ASSUME T!TestAssumption, NEW c \in Channels, JobSound(s1[c]), s8.now \in Nat
    PROVE  JobSound(T!Postponed(c)) /\ T!Postponed(c).running = s1[c].running
<1>1. s8.now + WaitTime \in Nat
  BY DEF T!TestAssumption
<1>2. T!Postponed(c) \in T!Jobs
  BY <1>1 DEF T!Postponed, JobSound, T!Jobs
<1>3. /\ T!Postponed(c).pending = s1[c].pending /\ T!Postponed(c).running = s1[c].running
      /\ T!Postponed(c).done = s1[c].done /\ T!Postponed(c).success = s1[c].success
      /\ T!Postponed(c).of = s1[c].of /\ T!Postponed(c).asked = s1[c].asked
      /\ T!Postponed(c).attempted = s1[c].attempted /\ T!Postponed(c).status = s1[c].status
  BY DEF T!Postponed, JobSound, T!Jobs
<1> QED BY <1>2, <1>3 DEF JobSound

LEMMA StartedSound ==
    ASSUME NEW c \in Channels, s1[c] \in T!Jobs, s8.way \in {"wifi", "cellular"}
    PROVE  JobSound(T!Started(c)) /\ T!Started(c).running /\ T!Started(c).asked = s1[c].asked
<1>1. s1[c].asked \in Nat
  BY DEF T!Jobs
<1>2. T!Started(c) \in T!Jobs
  <2>2. s8.way \in T!Ways \cup {"none"}
    BY DEF T!Ways
  <2>3. T!Empty \in T!Jobs
    BY DEF T!Empty, T!Jobs
  <2> QED BY ZenonT(60), <1>1, <2>2, <2>3 DEF T!Started, T!Jobs
<1>3. /\ T!Started(c).running = TRUE /\ T!Started(c).pending = FALSE
      /\ T!Started(c).done = FALSE /\ T!Started(c).success = FALSE
      /\ T!Started(c).asked = s1[c].asked
  BY DEF T!Started, T!Empty
<1> QED BY <1>2, <1>3 DEF JobSound

LEMMA PickKeeps == ASSUME T!TestAssumption, T!IInv, T!Pick PROVE T!IInv'
<1> DEFINE ready == {c \in Channels : T!Open(c) /\ ~T!Waiting(c)}
           first == CHOOSE c \in ready : \A d \in ready : c <= d
<1>1. s8.at = "copied" /\ UNCHANGED <<s2, s3, s4, s5, s6, s7, s9>>
  BY DEF T!Pick
<1>2. s8 \in [at : {"copied"}, now : Nat, way : {"wifi", "cellular"},
              channel : [Channels -> T!Channel]]
  BY <1>1, RestSound DEF T!WorkerSound, T!Idle
<1>3. \A c \in Channels : ~s1[c].running /\ JobSound(s1[c]) /\ s1[c] \in T!Jobs
  BY <1>1, NoneRuns, SlotsSound, RestSound
<1>4. T!HandlerSound'
  BY <1>1, RestSound DEF T!HandlerSound
<1>5. CASE ready = {}
  <2>1. /\ s1' = [c \in Channels |-> IF T!Waiting(c) THEN T!Postponed(c) ELSE s1[c]]
        /\ s8' = T!Idle
    BY <1>5 DEF T!Pick
  <2>2. \A c \in Channels : JobSound(s1'[c]) /\ ~s1'[c].running
    BY <1>2, <1>3, <2>1, PostponedSound
  <2>3. s1' \in [Channels -> T!Jobs]
    BY <2>1, <2>2 DEF JobSound
  <2>4. T!RunningIsWorkers' /\ T!WorkerSound'
    BY <2>1, <2>2 DEF T!RunningIsWorkers, T!WorkerSound, T!Idle
  <2> QED BY <1>1, <1>4, <2>2, <2>3, <2>4, RestSound, TestSound
<1>6. CASE ready # {}
  <2>1. /\ s1' = [c \in Channels |-> IF c = first THEN T!Started(c)
                      ELSE IF c < first /\ T!Waiting(c) THEN T!Postponed(c) ELSE s1[c]]
        /\ s8' = [at |-> "sending", channel |-> s8.channel[first],
                  way |-> s8.way, picked |-> first, test |-> s1[first].asked]
    BY <1>6 DEF T!Pick
  <2>2. first \in Channels
    <3>1. ready \in SUBSET Nat
      BY DEF T!TestAssumption
    <3>2. first \in ready
      BY <1>6, <3>1, FirstExists
    <3> QED BY <3>2
  <2> HIDE DEF first
  <2>3. JobSound(T!Started(first)) /\ T!Started(first).running
        /\ T!Started(first).asked = s1[first].asked
    BY <1>2, <1>3, <2>2, StartedSound
  <2>4. s1'[first] = T!Started(first)
    BY <2>1, <2>2
  <2>5. \A c \in Channels \ {first} : JobSound(s1'[c]) /\ ~s1'[c].running
    BY <1>2, <1>3, <2>1, PostponedSound
  <2>6. s1' \in [Channels -> T!Jobs]
    BY <2>1, <2>3, <2>4, <2>5 DEF JobSound
  <2>7. s8' \in [at : {"sending"}, channel : T!Channel, way : {"wifi", "cellular"},
                 picked : Channels, test : Nat]
    <3>1. s1[first].asked \in Nat
      BY <1>3, <2>2 DEF T!Jobs
    <3> QED BY <1>2, <2>1, <2>2, <3>1
  <2>8. s8'.at = "sending" /\ s8'.picked = first /\ s8'.test = s1[first].asked
    BY <2>1
  <2>9. T!WorkerSound'
    BY <2>3, <2>4, <2>7, <2>8 DEF T!WorkerSound
  <2>10. T!RunningIsWorkers'
    BY <2>3, <2>4, <2>5, <2>8 DEF T!RunningIsWorkers
  <2> QED BY <1>1, <1>4, <2>3, <2>4, <2>5, <2>6, <2>9, <2>10, RestSound, TestSound
<1> QED BY <1>5, <1>6

LEMMA TestInit == ASSUME T!TestAssumption, T!Init PROVE T!IInv
<1>1. JobSound(T!Empty)
  BY DEF T!Empty, JobSound, T!Jobs
<1>2. s1 \in [Channels -> T!Jobs] /\ \A c \in Channels : JobSound(s1[c]) /\ ~s1[c].running
  BY <1>1 DEF T!Init, JobSound, T!Empty
<1>3. s2 \in T!Settings
  <2>1. [c \in Channels |-> T!Plain] \in [Channels -> T!Channel]
    BY DEF T!Channel, T!Plain
  <2> QED BY <2>1 DEF T!Init, T!Settings
<1>4. T!TypeOK /\ T!ResultOwn
  BY <1>2, <1>3 DEF T!Init, T!TypeOK, T!ResultOwn, T!TestAssumption, T!Busy, JobSound, T!Jobs
<1>5. T!HandlerSound /\ T!WorkerSound /\ T!RunningIsWorkers
  BY <1>2 DEF T!Init, T!HandlerSound, T!WorkerSound, T!RunningIsWorkers, T!Idle
<1> QED BY <1>2, <1>4, <1>5 DEF T!IInv, T!Init

LEMMA TestKept == ASSUME T!TestAssumption, T!IInv, [T!Next]_(T!vars) PROVE T!IInv'
<1>1. CASE UNCHANGED T!vars
  <2>1. UNCHANGED <<s1, s2, s3, s4, s5, s6, s7, s8, s9>>
    BY <1>1 DEF T!vars
  <2>2. T!HandlerSound'
    BY <2>1, RestSound DEF T!HandlerSound
  <2>3. T!RunningIsWorkers' /\ T!WorkerSound'
    BY <2>1, RunsStay
  <2> QED BY <2>1, <2>2, <2>3, SlotsSound, RestSound, TestSound
<1>2. CASE T!Next
  BY <1>2, AskKeeps, AdmitKeeps, QueueKeeps, StatusKeeps, BeginKeeps, CopyKeeps, PickKeeps,
     SendKeeps, CompleteKeeps, ChangeKeeps, TickKeeps DEF T!Next, T!Handler, T!Worker
<1> QED BY <1>1, <1>2

-----------------------------------------------------------------------------
(* What MCMessages says of the test and of the mail dialogue.              *)

\* The state of the component that runs is sound.
PushSound ==
    /\ which = "test" => T!IInv
    /\ which = "mail" => X!IInv

\* For any channels, settings, clocks and numbers of events: what a slot says is over
\* is the test last asked for, and success only of a request answered with 2xx; a
\* command is answered by the line meant for it, nothing is said in the clear after
\* STARTTLS, and a mail counts as sent only if the server took the message.
THEOREM PushTrueHolds == AllSpec => []PushTrue
<1>1. AllInit => PushSound
  BY TestsAssumption, MailsAssumption, TestInit, MailInit DEF AllInit, PushSound
<1>2. PushSound /\ [AllNext]_allvars => PushSound'
  BY TestsAssumption, MailsAssumption, PushSteps, TestKept, MailKept DEF PushSound
<1>3. PushSound => PushTrue
  BY MailIsTrue DEF PushSound, PushTrue, T!IInv
<1> QED BY <1>1, <1>2, <1>3, PTL DEF AllSpec
=============================================================================
