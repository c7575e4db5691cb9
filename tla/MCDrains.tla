----------------------------- MODULE MCDrains -----------------------------
(***************************************************************************)
(* What must happen in the end, component by component, under the          *)
(* assumptions that the scheduling of its tasks justifies: the instances   *)
(* are small, for the whole graph of states is searched for cycles.  A     *)
(* behaviour is about one component, which names it; the update over the   *)
(* air (Ota) is here with its safety too.                                  *)
(***************************************************************************)
EXTENDS Ota, TLC

\* The constants of PushQueue, and None of all.
CONSTANTS
    Items, Channels, Email, None, FwdSlots, PushSlots, EmailSlots, CompSlots,
    RetryMax, MaxForwards, MaxNotices

\* SmsReceive: a message of two segments and one of one.
RefMixed == <<1, 2>>
OneShort == <<2, 1>>

\* The component a behaviour is about, and its state: the components take
\* turns in the same variables, and those one does not need are 0.
VARIABLES
    which,
    s1, s2, s3, s4, s5, s6, s7, s8, s9, s10, s11, s12, s13, s14, s15, s16,
    s17, s18, s19, s20, s21, s22, s23, s24, s25, s26

allvars ==
    <<which, vars, s1, s2, s3, s4, s5, s6, s7, s8, s9, s10, s11, s12, s13,
    s14, s15, s16, s17, s18, s19, s20, s21, s22, s23, s24, s25, s26>>

P == INSTANCE PushQueueProofs WITH
    inbox <- s1, fwd <- s2, legs <- s3, comps <- s4, lastComp <- s5,
    handFwd <- s6, handLeg <- s7, wifi <- s8, fan <- s9, dropped <- s10,
    forwards <- s11, notices <- s12

R == INSTANCE SmsReceive WITH
    Messages <- {1, 2}, Refs <- {1, 2}, Ref <- RefMixed, Total <- OneShort,
    Corrupt <- {2}, Verdicts <- {"queued", "full"}, Unsent <- {},
    None <- None, SlotMax <- 1, DoneMax <- 2, SeenMax <- 8, PendingMax <- 1,
    Batch <- 1, StallMax <- 2, IndexMax <- 0, SimSize <- 1, Window <- 1,
    MaxRestarts <- 0, MaxAged <- 0, net <- s1, sim <- s2, index <- s3,
    open <- s4, done <- s5, seen <- s6, pending <- s7, pass <- s8,
    stall <- s9, idle <- s10, abandoned <- s11, accepted <- s12, again <- s13,
    ignored <- s14, forgotten <- s15, acked <- s16, restarts <- s17,
    aged <- s18

C == INSTANCE CallNotify WITH
    Numbers <- {"a"}, Blocked <- {}, Gap <- 1, Delay <- 1, MaxLines <- 2,
    calling <- s1, lines <- s2, heard <- s3, call <- s4, sessions <- s5,
    phase <- s6, asked <- s7, recovered <- s8, enabled <- s9, busy <- s10,
    told <- s11

T == INSTANCE TestPush WITH
    Channels <- {1}, PendingMax <- 2, WaitTime <- 1, MaxTests <- 1,
    MaxTime <- 2, MaxEvents <- 1, job <- s1, settings <- s2, wifi <- s3,
    synced <- s4, clock <- s5, events <- s6, web <- s7, worker <- s8,
    tests <- s9

O == INSTANCE OwnerCommands WITH
    Tasks <- {"sms", "esim"}, SmsTask <- "sms", EsimTasks <- {"esim"},
    None <- None, SlotCount <- 1, MaxCalls <- 1, MaxAcks <- 0, MaxResets <- 1,
    MaxOps <- 1, state <- s1, gone <- s2, signal <- s3, cmd <- s4,
    result <- s5, urgentQ <- s6, commonQ <- s7, session <- s8, ready <- s9,
    resetReq <- s10, reinit <- s11, at <- s12, mine <- s13, ticket <- s14,
    woken <- s15, got <- s16, sms <- s17, esim <- s18, ownerAt <- s19,
    work <- s20, workSlot <- s21, urgent <- s22, calls <- s23, acks <- s24,
    resets <- s25, ops <- s26

H == INSTANCE ModemHealth WITH
    HasPin <- TRUE, DailyCheck <- TRUE, PinLimit <- 1, WantData <- TRUE,
    RoamingData <- FALSE, RetryLimit <- 1, FailLimit <- 2, DeregLimit <- 2,
    DataRetries <- 1, Settings <- {"notify", "storage"}, MaxEvents <- 1,
    MaxFaults <- 2, modem <- s1, status <- s2, owner <- s3, at <- s4,
    resetReq <- s5, reinit <- s6, unlockReq <- s7, retryData <- s8,
    storage <- s9, tried <- s10, failed <- s11, goodPin <- s12,
    retries <- s13, daily <- s14, wrong <- s15, lost <- s16, asked <- s17,
    events <- s18, faults <- s19

K == INSTANCE ModemHealth WITH
    HasPin <- FALSE, DailyCheck <- FALSE, PinLimit <- 1, WantData <- TRUE,
    RoamingData <- FALSE, RetryLimit <- 1, FailLimit <- 2, DeregLimit <- 2,
    DataRetries <- 1, Settings <- {"notify", "storage"}, MaxEvents <- 1,
    MaxFaults <- 2, modem <- s1, status <- s2, owner <- s3, at <- s4,
    resetReq <- s5, reinit <- s6, unlockReq <- s7, retryData <- s8,
    storage <- s9, tried <- s10, failed <- s11, goodPin <- s12,
    retries <- s13, daily <- s14, wrong <- s15, lost <- s16, asked <- s17,
    events <- s18, faults <- s19

W == INSTANCE Wifi WITH
    MaxEvents <- 1, MaxWeb <- 0, MaxPresses <- 1, driver <- s1, events <- s2,
    lock <- s3, scan <- s4, ap <- s5, sta <- s6, target <- s7, val <- s8,
    rec <- s9, closing <- s10, pc <- s11, mem <- s12, used <- s13

L == INSTANCE Lpa WITH
    Hosts <- {1, 2}, Initial <- {<<1, 1>>, <<2, 2>>, <<1, 3>>}, MaxSeq <- 5,
    MaxPending <- 3, MaxJobs <- 1, MaxRestarts <- 1, job <- s1, wait <- s2,
    at <- s3, left <- s4, held <- s5, got <- s6, result <- s7, session <- s8,
    card <- s9, restarts <- s10, delivered <- s11, consented <- s12

S == INSTANCE EsimSwitch WITH
    Profiles <- {"A", "B"}, None <- None, Interval <- 1, MaxDay <- 1,
    MaxShown <- 1, MaxWeb <- 0, installed <- s1, enabled <- s2, iccids <- s3,
    modem <- s4, live <- s5, job <- s6, kaLast <- s7, day <- s8, cache <- s9,
    web <- s10, shown <- s11, failed <- s12, lost <- s13

J == INSTANCE WebJobs WITH
    JobSlots <- {"j"}, JobActiveMax <- 1, admission <- s1, testing <- s2,
    owner <- s3, doom <- s4, slot <- s5, backup <- s6, ota <- s7,
    restore <- s8, cell <- s9, test <- s10, web <- s11, sched <- s12,
    refused <- s13

UpdateOff == Init /\ running = 1

AllInit ==
    \/ which = "update" /\ Init
       /\ s1 = 0 /\ s2 = 0 /\ s3 = 0 /\ s4 = 0 /\ s5 = 0 /\ s6 = 0 /\ s7 = 0 /\ s8 = 0 /\ s9 = 0 /\ s10 = 0
       /\ s11 = 0 /\ s12 = 0 /\ s13 = 0 /\ s14 = 0 /\ s15 = 0 /\ s16 = 0 /\ s17 = 0 /\ s18 = 0 /\ s19 = 0 /\ s20 = 0
       /\ s21 = 0 /\ s22 = 0 /\ s23 = 0 /\ s24 = 0 /\ s25 = 0 /\ s26 = 0
    \/ which = "push" /\ P!Init /\ UpdateOff
       /\ s13 = 0 /\ s14 = 0 /\ s15 = 0 /\ s16 = 0 /\ s17 = 0 /\ s18 = 0 /\ s19 = 0 /\ s20 = 0 /\ s21 = 0 /\ s22 = 0
       /\ s23 = 0 /\ s24 = 0 /\ s25 = 0 /\ s26 = 0
    \/ which = "receive" /\ R!Init /\ UpdateOff
       /\ s19 = 0 /\ s20 = 0 /\ s21 = 0 /\ s22 = 0 /\ s23 = 0 /\ s24 = 0 /\ s25 = 0 /\ s26 = 0
    \/ which = "call" /\ C!Init /\ UpdateOff
       /\ s12 = 0 /\ s13 = 0 /\ s14 = 0 /\ s15 = 0 /\ s16 = 0 /\ s17 = 0 /\ s18 = 0 /\ s19 = 0 /\ s20 = 0 /\ s21 = 0
       /\ s22 = 0 /\ s23 = 0 /\ s24 = 0 /\ s25 = 0 /\ s26 = 0
    \/ which = "test" /\ T!Init /\ UpdateOff
       /\ s10 = 0 /\ s11 = 0 /\ s12 = 0 /\ s13 = 0 /\ s14 = 0 /\ s15 = 0 /\ s16 = 0 /\ s17 = 0 /\ s18 = 0 /\ s19 = 0
       /\ s20 = 0 /\ s21 = 0 /\ s22 = 0 /\ s23 = 0 /\ s24 = 0 /\ s25 = 0 /\ s26 = 0
    \/ which = "owner" /\ O!Init /\ UpdateOff
    \/ which = "hang" /\ H!Init /\ UpdateOff
       /\ s20 = 0 /\ s21 = 0 /\ s22 = 0 /\ s23 = 0 /\ s24 = 0 /\ s25 = 0 /\ s26 = 0
    \/ which = "settings" /\ K!Init /\ UpdateOff
       /\ s20 = 0 /\ s21 = 0 /\ s22 = 0 /\ s23 = 0 /\ s24 = 0 /\ s25 = 0 /\ s26 = 0
    \/ which = "wifi" /\ W!Init /\ UpdateOff
       /\ s14 = 0 /\ s15 = 0 /\ s16 = 0 /\ s17 = 0 /\ s18 = 0 /\ s19 = 0 /\ s20 = 0 /\ s21 = 0 /\ s22 = 0 /\ s23 = 0
       /\ s24 = 0 /\ s25 = 0 /\ s26 = 0
    \/ which = "install" /\ L!Init /\ UpdateOff
       /\ s13 = 0 /\ s14 = 0 /\ s15 = 0 /\ s16 = 0 /\ s17 = 0 /\ s18 = 0 /\ s19 = 0 /\ s20 = 0 /\ s21 = 0 /\ s22 = 0
       /\ s23 = 0 /\ s24 = 0 /\ s25 = 0 /\ s26 = 0
    \/ which = "switch" /\ S!Init /\ UpdateOff
       /\ s14 = 0 /\ s15 = 0 /\ s16 = 0 /\ s17 = 0 /\ s18 = 0 /\ s19 = 0 /\ s20 = 0 /\ s21 = 0 /\ s22 = 0 /\ s23 = 0
       /\ s24 = 0 /\ s25 = 0 /\ s26 = 0
    \/ which = "jobs" /\ J!Init /\ UpdateOff
       /\ s14 = 0 /\ s15 = 0 /\ s16 = 0 /\ s17 = 0 /\ s18 = 0 /\ s19 = 0 /\ s20 = 0 /\ s21 = 0 /\ s22 = 0 /\ s23 = 0
       /\ s24 = 0 /\ s25 = 0 /\ s26 = 0

UpdateNext ==
    /\ which = "update" /\ Next
    /\ UNCHANGED
         <<which, s1, s2, s3, s4, s5, s6, s7, s8, s9, s10, s11, s12, s13, s14,
         s15, s16, s17, s18, s19, s20, s21, s22, s23, s24, s25, s26>>
PNext ==
    /\ which = "push" /\ P!Next
    /\ UNCHANGED
         <<which, vars, s13, s14, s15, s16, s17, s18, s19, s20, s21, s22, s23,
         s24, s25, s26>>
RNext ==
    /\ which = "receive" /\ R!Next
    /\ UNCHANGED
         <<which, vars, s19, s20, s21, s22, s23, s24, s25, s26>>
CNext ==
    /\ which = "call" /\ C!Next
    /\ UNCHANGED
         <<which, vars, s12, s13, s14, s15, s16, s17, s18, s19, s20, s21, s22,
         s23, s24, s25, s26>>
TNext ==
    /\ which = "test" /\ T!Next
    /\ UNCHANGED
         <<which, vars, s10, s11, s12, s13, s14, s15, s16, s17, s18, s19, s20,
         s21, s22, s23, s24, s25, s26>>
ONext ==
    /\ which = "owner" /\ O!Next
    /\ UNCHANGED <<which, vars>>
HNext ==
    /\ which = "hang" /\ H!Next
    /\ UNCHANGED <<which, vars, s20, s21, s22, s23, s24, s25, s26>>
KNext ==
    /\ which = "settings" /\ K!Next
    /\ UNCHANGED <<which, vars, s20, s21, s22, s23, s24, s25, s26>>
WNext ==
    /\ which = "wifi" /\ W!Next
    /\ UNCHANGED
         <<which, vars, s14, s15, s16, s17, s18, s19, s20, s21, s22, s23, s24,
         s25, s26>>
LNext ==
    /\ which = "install" /\ L!Next
    /\ UNCHANGED
         <<which, vars, s13, s14, s15, s16, s17, s18, s19, s20, s21, s22, s23,
         s24, s25, s26>>
SNext ==
    /\ which = "switch" /\ S!Next
    /\ UNCHANGED
         <<which, vars, s14, s15, s16, s17, s18, s19, s20, s21, s22, s23, s24,
         s25, s26>>
JNext ==
    /\ which = "jobs" /\ J!Next
    /\ UNCHANGED
         <<which, vars, s14, s15, s16, s17, s18, s19, s20, s21, s22, s23, s24,
         s25, s26>>
AllNext ==
    \/ UpdateNext \/ PNext \/ RNext \/ CNext \/ TNext \/ ONext
    \/ HNext \/ KNext \/ WNext \/ LNext \/ SNext \/ JNext

AllSpec == AllInit /\ [][AllNext]_allvars

-----------------------------------------------------------------------------
\* The assumptions on the scheduling of each component, those of its own module.
Pvars == <<s1, s2, s3, s4, s5, s6, s7, s8, s9, s10, s11, s12>>
PFair ==
    /\ WF_Pvars(which = "push" /\ P!FinishForward)
    /\ WF_Pvars(which = "push" /\ P!FinishLeg)
    /\ \A s \in FwdSlots : SF_Pvars(which = "push" /\ P!PopForward(s))
    /\ \A s \in PushSlots : SF_Pvars(which = "push" /\ P!PopPush(s))
    /\ \A s \in EmailSlots : SF_Pvars(which = "push" /\ P!PopEmail(s))
    /\ <>[](which = "push" => P!WifiStays)

Rvars == <<s1, s2, s3, s4, s5, s6, s7, s8, s9, s10, s11, s12, s13, s14, s15, s16, s17, s18>>
RFair ==
    /\ WF_Rvars(which = "receive" /\ R!StartPass)
    /\ WF_Rvars(which = "receive" /\ R!PassUnreadable)
    /\ WF_Rvars(which = "receive" /\ \E v \in {"queued", "full"}, a \in R!Answers : R!PassRecord(v, a))
    /\ WF_Rvars(which = "receive" /\ \E a \in [R!Doubtful -> R!Answers] : R!EndPass(a))
    /\ SF_Rvars(which = "receive" /\ R!RecordDeleted)
    /\ SF_Rvars(which = "receive" /\ R!DoubtfulDeleted)
    /\ SF_Rvars(which = "receive" /\ R!Expired(1))
    /\ WF_Rvars(which = "receive" /\ R!RetryPending)

Cvars == <<s1, s2, s3, s4, s5, s6, s7, s8, s9, s10, s11>>
CFair ==
    /\ WF_Cvars(which = "call" /\ C!Take)
    /\ WF_Cvars(which = "call" /\ C!Flush)
    /\ WF_Cvars(which = "call" /\ C!Answer)
    /\ WF_Cvars(which = "call" /\ C!Recover)
    /\ WF_Cvars(which = "call" /\ C!Tick)

Tvars == <<s1, s2, s3, s4, s5, s6, s7, s8, s9>>
TFair ==
    /\ WF_Tvars(which = "test" /\ T!Worker)
    /\ WF_Tvars(which = "test" /\ T!Tick)

Ovars == <<s1, s2, s3, s4, s5, s6, s7, s8, s9, s10, s11, s12, s13, s14, s15, s16, s17, s18, s19, s20, s21, s22, s23, s24, s25, s26>>
OFair ==
    /\ WF_Ovars(which = "owner" /\ O!OwnerStep)
    /\ WF_Ovars(which = "owner" /\ O!Reclaim)
    /\ WF_Ovars(which = "owner" /\ O!CallerStep("sms"))
    /\ WF_Ovars(which = "owner" /\ O!CallerStep("esim"))
    /\ WF_Ovars(which = "owner" /\ O!EsimTake("esim"))
    /\ WF_Ovars(which = "owner" /\ O!EsimEnd("esim"))

Hvars == <<s1, s2, s3, s4, s5, s6, s7, s8, s9, s10, s11, s12, s13, s14, s15, s16, s17, s18, s19>>
HFair ==
    /\ WF_Hvars(which = "hang" /\ H!StartUp)
    /\ WF_Hvars(which = "hang" /\ H!FirstUnlock)
    /\ WF_Hvars(which = "hang" /\ H!Wait)
    /\ WF_Hvars(which = "hang" /\ H!BeginReset)
    /\ WF_Hvars(which = "hang" /\ H!EndReset)
    /\ WF_Hvars(which = "hang" /\ H!Top)
    /\ WF_Hvars(which = "hang" /\ (H!Unlock \/ H!NoUnlock))
    /\ SF_Hvars(which = "hang" /\ H!Unlock)
    /\ WF_Hvars(which = "hang" /\ H!RetryData)
    /\ WF_Hvars(which = "hang" /\ (H!Probe \/ H!Check \/ H!NoProbe))
    /\ SF_Hvars(which = "hang" /\ H!Probe)
    /\ SF_Hvars(which = "hang" /\ H!Check)
    /\ WF_Hvars(which = "hang" /\ H!DailyFails)
    /\ WF_Hvars(which = "hang" /\ H!DailyResets)
    /\ WF_Hvars(which = "hang" /\ H!DailyRepairs)

Kvars == <<s1, s2, s3, s4, s5, s6, s7, s8, s9, s10, s11, s12, s13, s14, s15, s16, s17, s18, s19>>
KFair ==
    /\ WF_Kvars(which = "settings" /\ K!StartUp)
    /\ WF_Kvars(which = "settings" /\ K!FirstUnlock)
    /\ WF_Kvars(which = "settings" /\ K!Wait)
    /\ WF_Kvars(which = "settings" /\ K!BeginReset)
    /\ WF_Kvars(which = "settings" /\ K!EndReset)
    /\ WF_Kvars(which = "settings" /\ K!Top)
    /\ WF_Kvars(which = "settings" /\ (K!Unlock \/ K!NoUnlock))
    /\ SF_Kvars(which = "settings" /\ K!Unlock)
    /\ WF_Kvars(which = "settings" /\ K!RetryData)
    /\ WF_Kvars(which = "settings" /\ (K!Probe \/ K!Check \/ K!NoProbe))
    /\ SF_Kvars(which = "settings" /\ K!Probe)
    /\ SF_Kvars(which = "settings" /\ K!Check)
    /\ WF_Kvars(which = "settings" /\ K!DailyFails)
    /\ WF_Kvars(which = "settings" /\ K!DailyResets)
    /\ WF_Kvars(which = "settings" /\ K!DailyRepairs)

Wvars == <<s1, s2, s3, s4, s5, s6, s7, s8, s9, s10, s11, s12, s13>>
WFair ==
    /\ WF_Wvars(which = "wifi" /\ W!Handler)
    /\ WF_Wvars(which = "wifi" /\ W!Timer)
    /\ WF_Wvars(which = "wifi" /\ W!OutageLasts)
    /\ SF_Wvars(which = "wifi" /\ W!SelectorRests /\ W!Watchdog)
    /\ SF_Wvars(which = "wifi" /\ W!Free /\ W!StartRecovery)
    /\ SF_Wvars(which = "wifi" /\ W!Free /\ W!CloseTimer)
    /\ WF_Wvars(which = "wifi" /\ W!Selector)
    /\ WF_Wvars(which = "wifi" /\ W!ButtonMarks)
    /\ WF_Wvars(which = "wifi" /\ W!First)
    /\ WF_Wvars(which = "wifi" /\ W!Web)
    /\ WF_Wvars(which = "wifi" /\ W!PageScanned)

UFair ==
    /\ WF_vars(which = "update" /\ Writes)
    /\ SF_vars(which = "update" /\ Check)
    /\ WF_vars(which = "update" /\ Deadline)
    /\ WF_vars(which = "update" /\ Reboot)
    /\ WF_vars(which = "update" /\ Boot)

Lvars == <<s1, s2, s3, s4, s5, s6, s7, s8, s9, s10, s11, s12>>
LFair ==
    /\ WF_Lvars(which = "install" /\ L!Task)
    /\ WF_Lvars(which = "install" /\ L!Tick)

Svars == <<s1, s2, s3, s4, s5, s6, s7, s8, s9, s10, s11, s12, s13>>
SFair ==
    /\ WF_Svars(which = "switch" /\ S!JobStep)
    /\ WF_Svars(which = "switch" /\ S!Boots)

Jvars == <<s1, s2, s3, s4, s5, s6, s7, s8, s9, s10, s11, s12, s13>>
JFair ==
    /\ WF_Jvars(which = "jobs" /\ J!Handler)
    /\ WF_Jvars(which = "jobs" /\ (J!JobStart("j") \/ J!JobEnd("j")))
    /\ WF_Jvars(which = "jobs" /\ J!CellEnd("keepalive"))
    /\ WF_Jvars(which = "jobs" /\ J!CellEnd("esim"))
    /\ WF_Jvars(which = "jobs" /\ J!CellEnd("sched"))
    /\ WF_Jvars(which = "jobs" /\ J!CellEnd("action"))
    /\ WF_Jvars(which = "jobs" /\ J!TestEnd)
    /\ WF_Jvars(which = "jobs" /\ J!Elapse)
    /\ WF_Jvars(which = "jobs" /\ J!Maintain)
    /\ WF_Jvars(which = "jobs" /\ J!KeepaliveGoesOn)
    /\ SF_Jvars(which = "jobs" /\ J!Consider("restore"))
    /\ WF_Jvars(which = "jobs" /\ J!Restart)

-----------------------------------------------------------------------------
\* The behaviour is about w and p holds; p holds if the behaviour is about w.
At(w, p) == which = w /\ p
If(w, p) == which = w => p

\* What the proofs about PushQueue assume holds of this instance.
ASSUME QueuesAssumption == P!DistinctValues /\ P!Capacities

\* The branch of process_forward_one that finds no completion record for legs that
\* fit is never taken: a cancelled fan-out does not leak its record (PushQueue).
RecordsSuffice == which = "push" => P!RecordsSuffice

\* What was taken in comes out: the queues of the push worker, the SIM and the
\* slots of reception are empty in the end, a call that rang is dealt with, and
\* a test that was asked for has an end (PushQueue, SmsReceive, CallNotify,
\* TestPush).
QueuesDrain ==
    /\ PFair => <>[]If("push", P!Drained)
    /\ RFair => <>[]If("receive", R!Drained)
    /\ CFair => (At("call", C!Rings) ~> If("call", C!DealtWith))
    /\ TFair => (At("test", T!Waits(1)) ~> If("test", T!TestOver(1)))

\* Every slot for a command becomes free again, a reset that others delay is
\* served, a modem that stopped answering is reset while resets are left, and SMS
\* settings in doubt are put back (OwnerCommands, ModemHealth).
ModemServes ==
    /\ OFair => /\ \A s \in 1 .. 1 : At("owner", O!Used(s)) ~> If("owner", ~O!Used(s))
                /\ At("owner", O!Asked) ~> If("owner", O!Served)
    /\ HFair => (At("hang", H!Hangs) ~> If("hang", H!HangOver))
    /\ KFair => (At("settings", K!Doubtful) ~> If("settings", K!InPlace))

\* A device that stays offline gets its AP up, unless it goes on trying a network
\* that was submitted or the page goes on scanning (Wifi).
Recovers ==
    WFair =>
        (/\ <>[]If("wifi", W!Offline)
         /\ []<>If("wifi", W!SelectorRests)
         => []<>If("wifi", W!Recovering))

\* Every job ends: a trial is decided and its numbers go, an installation and a
\* switch of profiles end whatever is answered, nobody keeps the admission, and a
\* restored configuration is taken into use (Ota, Lpa, EsimSwitch, WebJobs).
JobsEnd ==
    /\ UFair => /\ At("update", OnTrial) ~> If("update", TrialOver)
                /\ At("update", Unsettled) ~> If("update", Settled)
    /\ LFair => (At("install", L!Busy) ~> If("install", ~L!Busy))
    /\ SFair => (At("switch", S!Busy) ~> If("switch", ~S!Busy))
    /\ JFair => /\ At("jobs", J!Admitted) ~> If("jobs", ~J!Admitted)
                /\ <>[]If("jobs", J!Quiet) => (At("jobs", J!Restored) ~> If("jobs", ~J!Restored))
=============================================================================
