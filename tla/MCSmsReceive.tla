---------------------------- MODULE MCSmsReceive ----------------------------
(* Finite instances of SmsReceive. *)
EXTENDS SmsReceive

\* Messages are numbered.  In each of these the reference is a number too.
RefTwo    == <<1, 2>>        \* two messages of two segments
RefMixed  == <<1, 2>>        \* one message of two segments, one of one
OneShort  == <<2, 1>>
RefFive   == <<1, 2, 3, 4, 5>>
Nothing   == {}
NoEnds    == {<<1, 2>>, <<3, 2>>}
RefCrowd  == <<1, 1, 2>>     \* two with one reference, and a third
TwoEach   == [r \in Refs |-> 2]

\* The device boots with messages of two segments that the SIM stored, in
\* order, while it was off.
BacklogInit == Boot({}, [i \in 1 .. SimSize |-> <<(i + 1) \div 2, 2 - (i % 2)>>])
BacklogSpec == BacklogInit /\ [][Next]_vars

\* The SIM holds all but the last segment of each message, one message after the
\* other; the last segments are late.
RefThree == <<1, 2, 3>>
NineEach == [r \in Refs |-> 9]
MostStored ==
    [i \in 1 .. SimSize |->
        IF i <= 8 * Cardinality(Messages)
        THEN <<(i + 7) \div 8, 1 + ((i - 1) % 8)>> ELSE None]
CutInit == Boot({}, MostStored)

\* The listings of half a minute (CONCAT_HUNT_POLL_MS apart): no slot times out.
CutNext ==
    \/ StartPass
    \/ PassUnreadable
    \/ \E v \in Verdicts, a \in Answers : PassRecord(v, a)
    \/ \E a \in [Doubtful -> Answers] : EndPass(a)
CutSpec == CutInit /\ [][CutNext]_vars

\* What tells states apart in these instances.  s_seen never overflows, so its
\* order is of no account; what waits in RAM counts only by its number; and
\* without a restart nobody looks at acked.
Apart == <<net, sim, index, open, done, ToSet(seen), Len(pending), fate,
           pass, rounds, bound, IF MaxRestarts = 0 THEN {} ELSE acked>>
=============================================================================
