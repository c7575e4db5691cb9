---------------------------- MODULE MCMessages ----------------------------
(***************************************************************************)
(* The ways of a message through the device: the reception of SMS          *)
(* (SmsReceive, in three instances), the sending of SMS (SmsSend), calls   *)
(* (CallNotify), the test of a channel (TestPush) and one email (Smtp).    *)
(* They share no state that these properties are about, so a behaviour is  *)
(* about one of them, which names it.                                      *)
(***************************************************************************)
EXTENDS SmsReceive, TLC

\* The constants of TestPush, whose PendingMax is TestMax here, and Smtp.
CONSTANTS
    Channels, TestMax, WaitTime, MaxTests, MaxTime, MaxEvents,
    MaxAttempts, MaxMore

\* SmsReceive: a message of two segments and one of one; three of two, two of
\* which bear the same reference, and of which some never get their second segment.
RefMixed == <<1, 2>>
OneShort == <<2, 1>>
RefCrowd == <<1, 1, 2>>
TwoEach  == <<2, 2>>
NoEnds   == {<<1, 2>>, <<3, 2>>}
Halves   == {<<1, 2>>, <<2, 2>>, <<3, 2>>}

\* SmsSend: a text of one part and one of several, in units of its characters.
MCTexts == {<<1, 2>>, <<2, 1, 1, 2>>}

\* The component a behaviour is about, and its state: the components take
\* turns in the same variables, and those one does not need are 0.
VARIABLES
    which,
    s1, s2, s3, s4, s5, s6, s7, s8, s9, s10, s11, s12, s13, s14, s15, s16,
    s17, s18

allvars ==
    <<which, vars, s1, s2, s3, s4, s5, s6, s7, s8, s9, s10, s11, s12, s13,
    s14, s15, s16, s17, s18>>

R == INSTANCE SmsReceive WITH
    None <- None, Batch <- 1, StallMax <- 1, SlotMax <- 1, SeenMax <- 8,
    PendingMax <- 1, SimSize <- 1, Window <- 1, MaxAged <- 0,
    Messages <- {1, 2, 3}, Refs <- {1, 2}, Ref <- RefCrowd, Total <- TwoEach,
    Corrupt <- {}, Verdicts <- {"queued"}, Unsent <- NoEnds, DoneMax <- 2,
    IndexMax <- 0, MaxRestarts <- 0, net <- s1, sim <- s2, index <- s3,
    open <- s4, done <- s5, seen <- s6, pending <- s7, pass <- s8,
    stall <- s9, idle <- s10, abandoned <- s11, accepted <- s12, again <- s13,
    ignored <- s14, forgotten <- s15, acked <- s16, restarts <- s17,
    aged <- s18

Y == INSTANCE SmsReceive WITH
    None <- None, Batch <- 1, StallMax <- 1, SlotMax <- 1, SeenMax <- 8,
    PendingMax <- 0, SimSize <- 1, Window <- 1, MaxAged <- 0,
    Messages <- {1, 2, 3}, Refs <- {1, 2}, Ref <- RefCrowd, Total <- TwoEach,
    Corrupt <- {}, Verdicts <- {"blocked", "queued", "full"},
    Unsent <- Halves, DoneMax <- 1, IndexMax <- 0, MaxRestarts <- 0,
    net <- s1, sim <- s2, index <- s3, open <- s4, done <- s5, seen <- s6,
    pending <- s7, pass <- s8, stall <- s9, idle <- s10, abandoned <- s11,
    accepted <- s12, again <- s13, ignored <- s14, forgotten <- s15,
    acked <- s16, restarts <- s17, aged <- s18

M == INSTANCE SmsSend WITH
    Texts <- MCTexts, OutMax <- 1, OnePart <- 3, PerPart <- 2, Refs <- 3,
    MaxSends <- 2, MaxFaults <- 2, asked <- s1, queue <- s2, looked <- s3,
    job <- s4, csmsRef <- s5, mode <- s6, ready <- s7, reset <- s8, up <- s9,
    sent <- s10, faults <- s11

K == INSTANCE CallNotify WITH
    Numbers <- {"a", "b"}, Blocked <- {"b"}, Gap <- 2, Delay <- 1,
    MaxLines <- 2, calling <- s1, lines <- s2, heard <- s3, call <- s4,
    sessions <- s5, phase <- s6, asked <- s7, recovered <- s8, enabled <- s9,
    busy <- s10, told <- s11

T == INSTANCE TestPush WITH
    PendingMax <- TestMax, job <- s1, settings <- s2, wifi <- s3,
    synced <- s4, clock <- s5, events <- s6, web <- s7, worker <- s8,
    tests <- s9

X == INSTANCE Smtp WITH
    implicit <- s1, phase <- s2, step <- s3, line <- s4, put <- s5,
    asked <- s6, more <- s7, lines <- s8, judged <- s9, attempts <- s10,
    bare <- s11, mails <- s12, heard <- s13, adrift <- s14

ReceiveOff == Init

AllInit ==
    \/ which = "receive" /\ Init
       /\ s1 = 0 /\ s2 = 0 /\ s3 = 0 /\ s4 = 0 /\ s5 = 0 /\ s6 = 0 /\ s7 = 0 /\ s8 = 0 /\ s9 = 0 /\ s10 = 0
       /\ s11 = 0 /\ s12 = 0 /\ s13 = 0 /\ s14 = 0 /\ s15 = 0 /\ s16 = 0 /\ s17 = 0 /\ s18 = 0
    \/ which = "shared" /\ R!Init /\ ReceiveOff
    \/ which = "blocked" /\ Y!Init /\ ReceiveOff
    \/ which = "send" /\ M!Init /\ ReceiveOff
       /\ s12 = 0 /\ s13 = 0 /\ s14 = 0 /\ s15 = 0 /\ s16 = 0 /\ s17 = 0 /\ s18 = 0
    \/ which = "call" /\ K!Init /\ ReceiveOff
       /\ s12 = 0 /\ s13 = 0 /\ s14 = 0 /\ s15 = 0 /\ s16 = 0 /\ s17 = 0 /\ s18 = 0
    \/ which = "test" /\ T!Init /\ ReceiveOff
       /\ s10 = 0 /\ s11 = 0 /\ s12 = 0 /\ s13 = 0 /\ s14 = 0 /\ s15 = 0 /\ s16 = 0 /\ s17 = 0 /\ s18 = 0
    \/ which = "mail" /\ X!Init /\ ReceiveOff
       /\ s15 = 0 /\ s16 = 0 /\ s17 = 0 /\ s18 = 0

ReceiveNext ==
    /\ which = "receive" /\ Next
    /\ UNCHANGED
         <<which, s1, s2, s3, s4, s5, s6, s7, s8, s9, s10, s11, s12, s13, s14,
         s15, s16, s17, s18>>
RNext ==
    /\ which = "shared" /\ R!Next
    /\ UNCHANGED <<which, vars>>
YNext ==
    /\ which = "blocked" /\ Y!Next
    /\ UNCHANGED <<which, vars>>
MNext ==
    /\ which = "send" /\ M!Next
    /\ UNCHANGED <<which, vars, s12, s13, s14, s15, s16, s17, s18>>
KNext ==
    /\ which = "call" /\ K!Next
    /\ UNCHANGED <<which, vars, s12, s13, s14, s15, s16, s17, s18>>
TNext ==
    /\ which = "test" /\ T!Next
    /\ UNCHANGED
         <<which, vars, s10, s11, s12, s13, s14, s15, s16, s17, s18>>
XNext ==
    /\ which = "mail" /\ X!Next
    /\ UNCHANGED <<which, vars, s15, s16, s17, s18>>
AllNext ==
    ReceiveNext \/ RNext \/ YNext \/ MNext \/ KNext \/ TNext \/ XNext

AllSpec == AllInit /\ [][AllNext]_allvars

-----------------------------------------------------------------------------
\* What tells states of the reception apart in these instances: s_seen never
\* overflows, so its order is of no account; what waits in RAM counts only by its
\* number; without a restart nobody looks at acked (s16); only AdmitsAnew,
\* which is asked of the shared instance, looks at forgotten (s15), at again (s13)
\* and at what accepted (s12) is made of; and only DeletesAdmitted, which is not
\* asked of that instance, at idle (s10).
Apart ==
    <<net, sim, index, open, done, ToSet(seen), Len(pending), pass, rounds,
      ignored, UNION accepted, acked, bound>>
Others ==
    CASE which = "shared" ->
           <<s1, s2, s3, s4, s5, ToSet(s6), Len(s7), s8, s9, s11, s12, s13, s14, s15,
             s17, s18>>
      [] which = "blocked" ->
           <<s1, s2, s3, s4, s5, ToSet(s6), Len(s7), s8, s9, s10, s11, UNION s12, s14,
             s17, s18>>
      [] OTHER -> <<s1, s2, s3, s4, s5, s6, s7, s8, s9, s10, s11, s12, s13, s14>>
View == <<which, Apart, Others>>

\* What the proofs assume holds of these constants (TestPush, Smtp).
ASSUME TestsAssumption == T!TestAssumption
ASSUME MailsAssumption == X!SmtpAssumption

\* However crowded the slots are, a segment is admitted once, however often it
\* comes, a SIM record is deleted only once its content is admitted or it is corrupt,
\* and no step loses a segment (SmsReceive).
AdmittedOnce ==
    [][/\ which = "shared" => R!AdmitsAnew /\ R!NothingLost'
       /\ which = "blocked" => Y!DeletesAdmitted /\ Y!NothingLost']_allvars

\* However a sending fails, no part goes to the modem twice, a message reported
\* as sent was taken whole, parts of two messages never share a reference, and
\* none goes out in the wrong mode (SmsSend).
SmsSent == which = "send" => M!TypeOK /\ M!SentOnce /\ M!ReportTrue /\ M!RefsApart /\ M!InPduMode

\* However its lines and AT+CLCC interleave, a call is notified once, and with a
\* number heard in its session (CallNotify).
CallTold == which = "call" => K!TypeOK /\ K!ToldOnce /\ K!ToldRight

\* The result a test shows is that of the test last asked for, and only a test
\* the push worker runs is called running (TestPush); a mail dialogue never takes
\* an answer for another command's, says nothing secret in the clear, and reports
\* as sent what was accepted (Smtp).
PushTrue ==
    /\ which = "test" => T!TypeOK /\ T!ResultOwn /\ T!RunningIsWorkers
    /\ which = "mail" => X!TypeOK /\ X!InStep /\ X!Veiled /\ X!SentTrue
=============================================================================
