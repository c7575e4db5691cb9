------------------------------ MODULE MCModem ------------------------------
(***************************************************************************)
(* The modem: who uses it and when (OwnerCommands), the lines of one       *)
(* command (AtChannel), its card, network and resets (ModemHealth), HTTPS  *)
(* over its sockets (ModemHttps, MipStream) and the commands to its eSIM   *)
(* (EsimApdu); and the jobs of the page, which share the admission with    *)
(* the work of the modem (WebJobs).  They share no state that these        *)
(* properties are about, so a behaviour is about one of them, which names  *)
(* it.                                                                     *)
(***************************************************************************)
EXTENDS OwnerCommands, TLC

CONSTANTS
    web, smsTask, esimTask,
    \* ModemHealth
    HasPin, PinLimit, WantData, RoamingData, DailyCheck, RetryLimit, FailLimit,
    DeregLimit, DataRetries, SmsSettings, MaxEvents, MaxFaults,
    \* ModemHttps
    MaxPolls, MaxFlight,
    \* EsimApdu
    Channels, KnownChannels, MaxBlocks, MaxSegments, ChainMax, DataMax,
    MaxSessions, MaxApduFaults,
    \* WebJobs
    JobSlots, JobActiveMax

\* The Content-Length headers an answer announces itself with.
MCAnnounced == {<< >>, <<0>>, <<2>>, <<3>>, <<1, 1>>}

\* The component a behaviour is about, and its state: the components take
\* turns in the same variables, and those one does not need are 0.
VARIABLES
    which,
    s1, s2, s3, s4, s5, s6, s7, s8, s9, s10, s11, s12, s13, s14, s15, s16,
    s17, s18, s19

allvars ==
    <<which, vars, s1, s2, s3, s4, s5, s6, s7, s8, s9, s10, s11, s12, s13,
    s14, s15, s16, s17, s18, s19>>

A == INSTANCE AtChannel WITH
    Modes <- {"plain", "filter", "until", "imei", "open", "pdu"},
    MaxCommands <- 2, MaxUrcs <- 2, MaxWire <- 3, wire <- s1, todo <- s2,
    emitted <- s3, carry <- s4, waitPdu <- s5, urcs <- s6, cut <- s7,
    phase <- s8, cmd <- s9, clean <- s10, resp <- s11, outcome <- s12

H == INSTANCE ModemHealth WITH
    Settings <- SmsSettings, modem <- s1, status <- s2, owner <- s3, at <- s4,
    resetReq <- s5, reinit <- s6, unlockReq <- s7, retryData <- s8,
    storage <- s9, tried <- s10, failed <- s11, goodPin <- s12,
    retries <- s13, daily <- s14, wrong <- s15, lost <- s16, asked <- s17,
    events <- s18, faults <- s19

S == INSTANCE ModemHttps WITH
    modem <- s1, flight <- s2, request <- s3, began <- s4, mixed <- s5,
    s <- s6

M == INSTANCE MipStream WITH
    Announced <- MCAnnounced, MaxBody <- 3, Most <- 2, BodyMax <- 3,
    MaxFaults <- 1, MaxLines <- 3, task <- s1, peer <- s2, sent <- s3,
    modem <- s4, faults <- s5, lines <- s6, s <- s7

E == INSTANCE EsimApdu WITH
    Known <- KnownChannels, MaxFaults <- MaxApduFaults, taken <- s1,
    got <- s2, answer <- s3, run <- s4, s <- s5, request <- s6,
    sessions <- s7, faults <- s8, hurt <- s9

J == INSTANCE WebJobsProofs WITH
    admission <- s1, testing <- s2, owner <- s3, doom <- s4, slot <- s5,
    backup <- s6, ota <- s7, restore <- s8, cell <- s9, test <- s10,
    web <- s11, sched <- s12, refused <- s13

OwnerOff == Init

AllInit ==
    \/ which = "owner" /\ Init
       /\ s1 = 0 /\ s2 = 0 /\ s3 = 0 /\ s4 = 0 /\ s5 = 0 /\ s6 = 0 /\ s7 = 0 /\ s8 = 0 /\ s9 = 0 /\ s10 = 0
       /\ s11 = 0 /\ s12 = 0 /\ s13 = 0 /\ s14 = 0 /\ s15 = 0 /\ s16 = 0 /\ s17 = 0 /\ s18 = 0 /\ s19 = 0
    \/ which = "answers" /\ A!Init /\ OwnerOff
       /\ s13 = 0 /\ s14 = 0 /\ s15 = 0 /\ s16 = 0 /\ s17 = 0 /\ s18 = 0 /\ s19 = 0
    \/ which = "health" /\ H!Init /\ OwnerOff
    \/ which = "https" /\ S!Init /\ OwnerOff
       /\ s7 = 0 /\ s8 = 0 /\ s9 = 0 /\ s10 = 0 /\ s11 = 0 /\ s12 = 0 /\ s13 = 0 /\ s14 = 0 /\ s15 = 0 /\ s16 = 0
       /\ s17 = 0 /\ s18 = 0 /\ s19 = 0
    \/ which = "stream" /\ M!Init /\ OwnerOff
       /\ s8 = 0 /\ s9 = 0 /\ s10 = 0 /\ s11 = 0 /\ s12 = 0 /\ s13 = 0 /\ s14 = 0 /\ s15 = 0 /\ s16 = 0 /\ s17 = 0
       /\ s18 = 0 /\ s19 = 0
    \/ which = "apdu" /\ E!Init /\ OwnerOff
       /\ s10 = 0 /\ s11 = 0 /\ s12 = 0 /\ s13 = 0 /\ s14 = 0 /\ s15 = 0 /\ s16 = 0 /\ s17 = 0 /\ s18 = 0 /\ s19 = 0
    \/ which = "jobs" /\ J!Init /\ OwnerOff
       /\ s14 = 0 /\ s15 = 0 /\ s16 = 0 /\ s17 = 0 /\ s18 = 0 /\ s19 = 0

OwnerNext ==
    /\ which = "owner" /\ Next
    /\ UNCHANGED
         <<which, s1, s2, s3, s4, s5, s6, s7, s8, s9, s10, s11, s12, s13, s14,
         s15, s16, s17, s18, s19>>
ANext ==
    /\ which = "answers" /\ A!Next
    /\ UNCHANGED <<which, vars, s13, s14, s15, s16, s17, s18, s19>>
HNext ==
    /\ which = "health" /\ H!Next
    /\ UNCHANGED <<which, vars>>
SNext ==
    /\ which = "https" /\ S!Next
    /\ UNCHANGED
         <<which, vars, s7, s8, s9, s10, s11, s12, s13, s14, s15, s16, s17,
         s18, s19>>
MNext ==
    /\ which = "stream" /\ M!Next
    /\ UNCHANGED
         <<which, vars, s8, s9, s10, s11, s12, s13, s14, s15, s16, s17, s18,
         s19>>
ENext ==
    /\ which = "apdu" /\ E!Next
    /\ UNCHANGED
         <<which, vars, s10, s11, s12, s13, s14, s15, s16, s17, s18, s19>>
JNext ==
    /\ which = "jobs" /\ J!Next
    /\ UNCHANGED <<which, vars, s14, s15, s16, s17, s18, s19>>
\* A session, or what its bounds let happen, comes to an end.
Rest ==
    /\ which \in
        {"answers", "health", "https", "stream", "apdu"}
    /\ UNCHANGED allvars

AllNext ==
    OwnerNext \/ ANext \/ HNext \/ SNext \/ MNext \/ ENext \/ JNext \/ Rest

AllSpec == AllInit /\ [][AllNext]_allvars

-----------------------------------------------------------------------------
\* What the proofs assume holds of these constants (ModemHealth,
\* ModemHttps, EsimApdu).
ASSUME ModemAssumption == H!HealthAssumption
ASSUME SessionAssumption == S!HttpsAssumption
ASSUME CardAssumption == E!ApduAssumption

\* Every unsolicited line of the modem arrives once, whole and in order, whatever
\* command is being read, and a command ends with its own answer (AtChannel); an
\* answer over HTTPS is what the server sent, whole and in order (MipStream).
AnswersTrue ==
    /\ which = "answers" => A!TypeOK /\ A!UrcsKept /\ A!InStep
    /\ which = "stream" => M!TypeOK /\ M!InOrder /\ M!WholeAnswer /\ M!JudgedTrue

\* A wrong saved PIN never blocks the card, whatever is retried, reset or started
\* again; and resets stop where they should (ModemHealth).
HealthTrue == which = "health" => H!TypeOK /\ H!PinSpared /\ H!ResetsSpaced

\* A session over the modem's sockets leaves settings, socket and data context as
\* it found them, or says that it could not (ModemHttps).
HttpsTrue ==
    which = "https" =>
        S!TypeOK /\ S!SettingsRestored /\ S!SocketClosedOrReset /\ S!PdpPutDown

\* The profile of a data context that is in use is never rewritten (ModemHttps).
ProfileKept == [][which = "https" => S!KeepsProfile]_allvars

\* The eSIM carries out whole requests only and its answers arrive whole, and
\* channels left open keep no later session out (EsimApdu).
ApduTrue == which = "apdu" => E!TypeOK /\ E!WholeRequest /\ E!ChannelFound

\* Restarts, updates and backups have the device to themselves, and every claim is
\* served (WebJobs).
JobsApart == which = "jobs" => J!JobsApart
=============================================================================
