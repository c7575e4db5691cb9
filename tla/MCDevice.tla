----------------------------- MODULE MCDevice -----------------------------
(***************************************************************************)
(* What the device keeps and how it comes back: the configuration in NVS   *)
(* (ConfigStore), the forms that change it (Settings), the WiFi connection *)
(* and its recovery AP (Wifi), the recovery by USB (UsbRecovery), the      *)
(* certificate authorities (CaProvision) and the log (Log); and its eSIM:  *)
(* the switching of profiles (EsimSwitch) and the download of one (Lpa the *)
(* installation, Bpp the parser of the package, Es9 an exchange with a     *)
(* server, Rsp the readers of its messages).  They share no state that     *)
(* these properties are about, so a behaviour is about one of them, which  *)
(* names it.                                                               *)
(***************************************************************************)
EXTENDS ConfigStore, TLC

\* The constants of Settings, Wifi, UsbRecovery and CaProvision.
CONSTANTS
    Savers, Ssids, ChannelTypes, MaxNets, MaxSaves,
    MaxEvents, MaxWeb, MaxPresses,
    Runs, ToolKinds, Seqs, MaxSends, MaxBoots,
    Origins, Certs, CaChannels, CertSlots, BindSlots, MaxProbes, MaxChanges, MaxFaults

At(gen, schema) == [gen |-> gen, schema |-> schema, val |-> {}]
Pair(b0, m0, b1, m1, s) ==
    [blob |-> [i \in Slots |-> IF i = 0 THEN b0 ELSE b1],
     mark |-> [i \in Slots |-> IF i = 0 THEN m0 ELSE m1],
     state |-> s]
Good(b0, b1) == Pair(b0, b0, b1, b1, "ready")

Last == GenMod - 1

\* ConfigStore: an empty partition, one with a legacy schema, one whose first migration was
\* cut off, two full ones about to wrap round, one of them with a newer slot of
\* schema 7, and one that lost the state byte.
SoundStores ==
    {Pair(Absent, Absent, Absent, Absent, "absent"),
     Good(At(Last, 5), Absent),
     Pair(At(1, 6), Absent, Absent, Absent, "migrating"),
     Good(At(Last - 1, 6), At(Last, 6)),
     Good(At(0, 7), At(Last, 6)),
     Pair(At(1, 6), At(1, 6), Absent, Absent, "migrating")}

\* Also those with a slot that is of no use: of a schema of the future, with the
\* wrong marker, or with none.
LoadableStores ==
    SoundStores \cup
    {Good(At(1, 6), At(0, 8)),
     Pair(At(1, 6), At(0, 6), At(2, 6), At(2, 6), "ready"),
     Pair(At(1, 6), At(1, 6), At(2, 6), Absent, "ready")}

NoneFails == {{}}

\* EsimSwitch: its constants.
CONSTANTS Profiles, NoProfile, Interval, MaxDay, MaxShown, MaxActs

\* Lpa: its constants, and the notifications on the card at first.
CONSTANTS Hosts, Initial, MaxSeq, MaxPending, MaxJobs, MaxRestarts
TwoServers == {<<1, 1>>, <<2, 2>>, <<1, 3>>}

\* Bpp: members of the server's answer, out of place and twice.
MCSaid == <<{"header", "transactionId", "boundProfilePackage", "status"},
            {"functionExecutionStatus", "status"}, {"status", "transactionId"}>>

\* Bpp: packages of the smallest size, with one element more, or with A2.
MCLens == [t \in {"BF36", "BF23", "A0", "87", "A1", "88", "A2", "A3", "86"} |->
    CASE t = "BF36" -> {12, 14, 15}
      [] t = "A1" -> {3, 6}
      [] t = "88" -> {1, 2}
      [] t = "A3" -> {2, 4}
      [] t \in {"A0", "A2"} -> {2}
      [] OTHER -> {1}]

\* Es9: what a server may answer.
MCAnswers == [status : {200, 204, 302, 500}, protocol : {"none", "good", "bad", "twice"},
              length : {"none", "right", "long", "bad"}, size : 0 .. 4, framed : BOOLEAN]

\* The component a behaviour is about, and its state: the components take
\* turns in the same variables, and those one does not need are 0.
VARIABLES
    which,
    s1, s2, s3, s4, s5, s6, s7, s8, s9, s10, s11, s12, s13, s14, s15, s16

allvars ==
    <<which, vars, s1, s2, s3, s4, s5, s6, s7, s8, s9, s10, s11, s12, s13,
    s14, s15, s16>>

T == INSTANCE Settings WITH
    Tasks <- Savers, Types <- ChannelTypes, cfg <- s1, lock <- s2, task <- s3,
    backup <- s4, count <- s5, acked <- s6

W == INSTANCE Wifi WITH
    driver <- s1, events <- s2, lock <- s3, scan <- s4, ap <- s5, sta <- s6,
    target <- s7, val <- s8, rec <- s9, closing <- s10, pc <- s11, mem <- s12,
    used <- s13

U == INSTANCE UsbRecovery WITH
    Kinds <- ToolKinds, run <- s1, port <- s2, heard <- s3, down <- s4,
    up <- s5, parser <- s6, job <- s7, sends <- s8, boots <- s9, saved <- s10

C == INSTANCE CaProvisionProofs WITH
    Channels <- CaChannels, MaxSaves <- MaxChanges, target <- s1,
    generation <- s2, issuer <- s3, cert <- s4, bind <- s5, session <- s6,
    nonces <- s7, job <- s8, verified <- s9, answer <- s10, faults <- s11

S == INSTANCE EsimSwitchProofs WITH
    None <- NoProfile, MaxWeb <- MaxActs, installed <- s1, enabled <- s2,
    iccids <- s3, modem <- s4, live <- s5, job <- s6, kaLast <- s7, day <- s8,
    cache <- s9, web <- s10, shown <- s11, failed <- s12, lost <- s13

L == INSTANCE Lpa WITH
    job <- s1, wait <- s2, at <- s3, left <- s4, held <- s5, got <- s6,
    result <- s7, session <- s8, card <- s9, restarts <- s10,
    delivered <- s11, consented <- s12

B == INSTANCE Bpp WITH
    Said <- MCSaid, Lens <- MCLens, MaxDecoded <- 16, MaxSegment <- 4,
    MaxMetadata <- 7, MaxElements <- 11, BlockBytes <- 2, MaxBlock <- 1,
    MaxDepth <- 3, MaxMembers <- 3, MacBytes <- 1, json <- s1, der <- s2,
    card <- s3, outcome <- s4, agreed <- s5, doc <- s6, total <- s7

E == INSTANCE Es9 WITH
    Parts <- 2, MaxBody <- 2, Answers <- MCAnswers, kind <- s1, answer <- s2,
    at <- s3, sent <- s4, written <- s5, capture <- s6, late <- s7, fed <- s8,
    closes <- s9, result <- s10

R == INSTANCE Rsp WITH
    step <- s1, last <- s2

G == INSTANCE Log WITH
    RingLines <- 3, RingCells <- 6, Widths <- {1, 2}, Limit <- 2,
    MaxLines <- 4, MaxBoots <- 2, MaxTimeouts <- 1, lines <- s1, count <- s2,
    next <- s3, seq <- s4, ring <- s5, w <- s6, prev <- s7, deferred <- s8,
    loadTried <- s9, saved <- s10, page <- s11, boots <- s12, timeouts <- s13,
    text <- s14, before <- s15, last <- s16

StoreOff == Init /\ state = "absent" /\ image = "confirmed"

AllInit ==
    \/ which = "store" /\ Init
       /\ s1 = 0 /\ s2 = 0 /\ s3 = 0 /\ s4 = 0 /\ s5 = 0 /\ s6 = 0 /\ s7 = 0 /\ s8 = 0 /\ s9 = 0 /\ s10 = 0
       /\ s11 = 0 /\ s12 = 0 /\ s13 = 0 /\ s14 = 0 /\ s15 = 0 /\ s16 = 0
    \/ which = "settings" /\ T!Init /\ StoreOff
       /\ s7 = 0 /\ s8 = 0 /\ s9 = 0 /\ s10 = 0 /\ s11 = 0 /\ s12 = 0 /\ s13 = 0 /\ s14 = 0 /\ s15 = 0 /\ s16 = 0
    \/ which = "wifi" /\ W!Init /\ StoreOff
       /\ s14 = 0 /\ s15 = 0 /\ s16 = 0
    \/ which = "usb" /\ U!Init /\ StoreOff
       /\ s11 = 0 /\ s12 = 0 /\ s13 = 0 /\ s14 = 0 /\ s15 = 0 /\ s16 = 0
    \/ which = "ca" /\ C!Init /\ StoreOff
       /\ s12 = 0 /\ s13 = 0 /\ s14 = 0 /\ s15 = 0 /\ s16 = 0
    \/ which = "switch" /\ S!Init /\ StoreOff
       /\ s14 = 0 /\ s15 = 0 /\ s16 = 0
    \/ which = "install" /\ L!Init /\ StoreOff
       /\ s13 = 0 /\ s14 = 0 /\ s15 = 0 /\ s16 = 0
    \/ which = "package" /\ B!Init /\ StoreOff
       /\ s8 = 0 /\ s9 = 0 /\ s10 = 0 /\ s11 = 0 /\ s12 = 0 /\ s13 = 0 /\ s14 = 0 /\ s15 = 0 /\ s16 = 0
    \/ which = "exchange" /\ E!Init /\ StoreOff
       /\ s11 = 0 /\ s12 = 0 /\ s13 = 0 /\ s14 = 0 /\ s15 = 0 /\ s16 = 0
    \/ which = "message" /\ R!Init /\ StoreOff
       /\ s3 = 0 /\ s4 = 0 /\ s5 = 0 /\ s6 = 0 /\ s7 = 0 /\ s8 = 0 /\ s9 = 0 /\ s10 = 0 /\ s11 = 0 /\ s12 = 0
       /\ s13 = 0 /\ s14 = 0 /\ s15 = 0 /\ s16 = 0
    \/ which = "log" /\ G!Init /\ StoreOff

StoreNext ==
    /\ which = "store" /\ Next
    /\ UNCHANGED
         <<which, s1, s2, s3, s4, s5, s6, s7, s8, s9, s10, s11, s12, s13, s14,
         s15, s16>>
TNext ==
    /\ which = "settings" /\ T!Next
    /\ UNCHANGED
         <<which, vars, s7, s8, s9, s10, s11, s12, s13, s14, s15, s16>>
WNext ==
    /\ which = "wifi" /\ W!Next
    /\ UNCHANGED <<which, vars, s14, s15, s16>>
UNext ==
    /\ which = "usb" /\ U!Next
    /\ UNCHANGED <<which, vars, s11, s12, s13, s14, s15, s16>>
CNext ==
    /\ which = "ca" /\ C!Next
    /\ UNCHANGED <<which, vars, s12, s13, s14, s15, s16>>
SNext ==
    /\ which = "switch" /\ S!Next
    /\ UNCHANGED <<which, vars, s14, s15, s16>>
LNext ==
    /\ which = "install" /\ L!Next
    /\ UNCHANGED <<which, vars, s13, s14, s15, s16>>
BNext ==
    /\ which = "package" /\ B!Next
    /\ UNCHANGED
         <<which, vars, s8, s9, s10, s11, s12, s13, s14, s15, s16>>
ENext ==
    /\ which = "exchange" /\ E!Next
    /\ UNCHANGED <<which, vars, s11, s12, s13, s14, s15, s16>>
RNext ==
    /\ which = "message" /\ R!Next
    /\ UNCHANGED
         <<which, vars, s3, s4, s5, s6, s7, s8, s9, s10, s11, s12, s13, s14,
         s15, s16>>
GNext ==
    /\ which = "log" /\ G!Next
    /\ UNCHANGED <<which, vars>>
AllNext ==
    \/ StoreNext \/ TNext \/ WNext \/ UNext \/ CNext \/ SNext
    \/ LNext \/ BNext \/ ENext \/ RNext \/ GNext

AllSpec == AllInit /\ [][AllNext]_allvars

-----------------------------------------------------------------------------
\* What the proofs assume holds of these constants.
ASSUME FormsAssumption == T!SettingsAssumption
ASSUME AuthoritiesAssumption == C!CaAssumption
ASSUME RadioAssumption == W!WifiAssumption
ASSUME ChannelAssumption == U!UsbAssumption
\* What the proofs about EsimSwitch assume holds of this instance.
ASSUME ProfilesAssumption == S!EsimAssumption

\* What the proofs about Lpa assume.
ASSUME InstallAssumption == L!LpaAssumption

\* A stored secret goes where it was given for, nobody is locked out, and no
\* save undoes another (Settings).
SettingsTrue ==
    which = "settings" => T!TypeOK /\ T!SecretsStay /\ T!NotLockedOut /\ T!LastWins

\* The AP is up or on its way to be closed, as the driver has it, and nothing puts
\* another network in the place of one that is being tried (Wifi).
WifiTrue ==
    which = "wifi" => W!TypeOK /\ W!NoneStranded /\ W!ApStateTrue /\ W!TargetKept

\* What a recovery run reports is what happened, and it stores once (UsbRecovery).
UsbTrue == which = "usb" => U!TypeOK /\ U!ReportTrue /\ U!StoredOnce

\* The store of authorities is whole at every moment, and an origin is bound to
\* an authority of a chain that it showed (CaProvision).
CaTrue == which = "ca" => C!CaTrue

\* A target network is given up only when it is reached (Wifi); connecting forgets
\* no saved network (Settings); a worker's request is not replaced under it
\* (UsbRecovery); an installation that is told to be done is found (CaProvision).
StepsTrue ==
    [][/\ which = "wifi" => W!Reached
       /\ which = "settings" => \A t \in Savers : T!Remembered(t)
       /\ which = "usb" => U!WorkerKeeps
       /\ which = "ca" => C!Installed]_allvars

\* The modem runs on the profile that the card enables, a job acts on the profile
\* it was meant for, and the user's on the one he was shown (EsimSwitch).
SwitchTrue == which = "switch" => S!SwitchTrue

\* What an installation says is true of the card and of the server, and nothing
\* is written to the card before its user agreed to this very profile; a package
\* counts as installed only if every byte of it reached the card; a request goes
\* out once, and an answer counts when it is whole, has the right headers and is
\* one of this session (Lpa, Bpp, Es9, Rsp).
InstallTrue ==
    /\ which = "install" => L!TypeOK /\ L!OutcomeTrue /\ L!ConsentGiven /\ L!SessionsClosed
    /\ which = "package" => B!TypeOK /\ B!ConsentFirst /\ B!EnvelopeFirst /\ B!WholePackage
    /\ which = "exchange" =>
         E!TypeOK /\ E!RequestOnce /\ E!FedAfterPreflight /\ E!SuccessIsWhole /\ E!ClosedOnce
    /\ which = "message" => R!TypeOK /\ R!Agrees

\* What is kept of the log over a restart, and what the page shows of it, are the
\* lines in their order, without a hole (Log).
LogTrue == which = "log" => G!TypeOK /\ G!PrevTrue /\ G!PageTrue

\* A job that switched profiles switches back, and a failed one waits a day
\* (EsimSwitch); a notification leaves the card when its server has it, older
\* ones first (Lpa).
EsimStepsTrue ==
    [][/\ which = "switch" => S!Restores /\ S!PutsOff
       /\ which = "install" => L!Kept /\ L!Ordered]_allvars

Perms == Permutations(Savers) \cup Permutations(Runs)
=============================================================================
