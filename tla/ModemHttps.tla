---------------------------- MODULE ModemHttps ----------------------------
(* One HTTPS (or keepalive) request over the modem's own TCP stack: the    *)
(* session reads the modem's socket state and settings, changes what it    *)
(* needs, opens a socket, exchanges the request, and puts everything back, *)
(* one AT command at a time.                                               *)
(*                                                                         *)
(* A command may be carried out or not; its answer may be an error, may be *)
(* lost, or may come so late that it is read as the answer of a command    *)
(* sent after it: "flight" holds the answers not yet read.  What waits on  *)
(* the UART before a command is written is discarded.                      *)
EXTENDS Naturals, Sequences, FiniteSets

CONSTANTS MaxPolls,     \* kConnectedPollMaxQueries
          MaxFlight     \* bound: answers on their way

VARIABLES
    modem,      \* what the modem holds: socket, settings, APN profile, PDP
    flight,     \* answers on their way to the session
    request,    \* apn: a profile of its own is asked for; keep: dataEnabled
    began,      \* history: the modem when the session began
    mixed,      \* history: an earlier command's answer was taken for another's
    s           \* MipPostSession

vars == <<modem, flight, request, began, mixed, s>>

Settings == {"encoding", "autofree", "ssl"}
Sockets == {"initial", "connecting", "connected", "closed"}
\* The first and the last step with each setting, in the code's order.
FirstSetting == "encoding"
NextSetting == [encoding |-> "autofree", autofree |-> "ssl", ssl |-> "open"]
Steps == {"state", "stale", "recheck", "snapshot", "context", "profile",
          "profileCheck", "activate", "open", "wait", "exchange", "close", "confirm",
          "deactivate", "restore", "restoreCheck", "end"} \cup Settings
Modems == [socket : Sockets, own : SUBSET Settings, apn : {"own", "asked"},
           active : BOOLEAN]
Sessions == [step : Steps, check : BOOLEAN, touched : SUBSET Settings,
             opened : BOOLEAN, activated : BOOLEAN, changed : BOOLEAN,
             polls : 0 .. MaxPolls, clean : BOOLEAN, reset : BOOLEAN,
             undoing : BOOLEAN]

TypeOK ==
    /\ modem \in Modems /\ s \in Sessions
    /\ Len(flight) <= MaxFlight
    /\ request \in [apn : BOOLEAN, keep : BOOLEAN]
    /\ mixed \in BOOLEAN

\* "own" is the set of settings that still have the value found at the start.
Init ==
    /\ modem \in [socket : Sockets, own : {Settings}, apn : {"own"}, active : BOOLEAN]
    /\ began = modem
    /\ flight = <<>> /\ mixed = FALSE
    /\ request \in [apn : BOOLEAN, keep : BOOLEAN]
    /\ s = [step |-> "state", check |-> FALSE, touched |-> {}, opened |-> FALSE,
            activated |-> FALSE, changed |-> FALSE, polls |-> 0,
            clean |-> TRUE, reset |-> FALSE, undoing |-> FALSE]

-----------------------------------------------------------------------------
(* Commands and answers                                                    *)

\* An answer is read: the first of those that wait, and of the one that comes now;
\* or it comes too late, or never.
Silence == [kind |-> "none", val |-> ""]
From(n, answer) == Append(SubSeq(flight, n + 1, Len(flight)), answer)
Outcomes(answer) ==
    {[heard |-> Head(From(n, answer)), flight |-> Tail(From(n, answer)), mixed |-> n < Len(flight)] :
        n \in 0 .. Len(flight)}
    \cup {[heard |-> Silence, flight |-> From(n, answer), mixed |-> FALSE] :
            n \in {k \in 0 .. Len(flight) : Len(flight) - k < MaxFlight}}
    \cup {[heard |-> Silence, flight |-> <<>>, mixed |-> FALSE]}

Same(m) == ""
\* A command whose answer has the given kind: "new" is the modem that has
\* carried it out, Val(m) what the answer then says, Good(v) the session after
\* an answer of the right kind, Bad the session after any other or none.  A
\* bare "OK" of an earlier command is an answer of the right kind.
Command(kind, new, Val(_), Good(_), Bad) ==
    \E done \in BOOLEAN :
      LET m == IF done THEN new ELSE modem
      IN  \E o \in Outcomes([kind |-> IF done THEN kind ELSE "error", val |-> Val(m)]) :
            /\ modem' = m /\ flight' = o.flight /\ mixed' = (mixed \/ o.mixed)
            /\ s' = IF o.heard.kind = kind THEN Good(o.heard.val) ELSE Bad
            /\ UNCHANGED <<request, began>>

-----------------------------------------------------------------------------
(* Undoing: cleanup                                                        *)

\* cleanup() goes through its steps in this order and skips those the session
\* gave no reason for.
UndoOrder == <<"close", "ssl", "autofree", "encoding", "deactivate", "restore">>
Needed(t, step) ==
    CASE step = "close" -> t.opened
      [] step \in Settings -> step \in t.touched
      [] step = "deactivate" -> t.activated /\ ~request.keep
      [] step = "restore" -> t.changed /\ ~request.keep
\* The session at its first needed step from the n-th on.
UndoFrom(t, n) ==
    LET left == {i \in n .. Len(UndoOrder) : Needed(t, UndoOrder[i])}
    IN  [t EXCEPT !.undoing = TRUE, !.check = FALSE,
                  !.step = IF left = {} THEN "end"
                           ELSE UndoOrder[CHOOSE i \in left : \A j \in left : i <= j]]
Undo == UndoFrom(s, 1)
UndoNext(t) == UndoFrom(t, 1 + CHOOSE i \in 1 .. Len(UndoOrder) : UndoOrder[i] = t.step)
\* record_cleanup_failure; only a socket that may be open asks for a reset.
Unclean(t, reset) == [t EXCEPT !.clean = FALSE, !.reset = @ \/ reset]

-----------------------------------------------------------------------------
(* The session                                                             *)

Socket(m) == m.socket
\* ensure_initial_state: a connected or closed socket is closed first.
AskState ==
    /\ s.step = "state"
    /\ Command("state", modem, Socket,
         LAMBDA v : IF v = "initial" THEN [s EXCEPT !.step = "snapshot"]
                    ELSE IF v \in {"connected", "closed"} THEN [s EXCEPT !.step = "stale"]
                    ELSE Undo,
         Undo)

CloseStale ==
    /\ s.step = "stale"
    /\ Command("close", [modem EXCEPT !.socket = "initial"], Same,
         LAMBDA v : [s EXCEPT !.step = "recheck"], Undo)

Recheck ==
    /\ s.step = "recheck"
    /\ Command("state", modem, Socket,
         LAMBDA v : IF v = "initial" THEN [s EXCEPT !.step = "snapshot"] ELSE Undo, Undo)

\* snapshot_config: the settings as they are.
Snapshot ==
    /\ s.step = "snapshot"
    /\ Command("config", modem, Same, LAMBDA v : [s EXCEPT !.step = "context"], Undo)

Pdp(m) == IF m.active THEN "active" ELSE "idle"
Set(m) == [m EXCEPT !.step = FirstSetting, !.touched = {FirstSetting}]
ContextUnmarked ==
    /\ s.step = "context"
    /\ Command("context", modem, Pdp,
         LAMBDA v : IF v = "active" THEN IF request.apn THEN Undo ELSE Set(s)
                    ELSE IF request.apn THEN [s EXCEPT !.step = "profile", !.changed = TRUE]
                    ELSE [s EXCEPT !.step = "activate"],
         Undo)
ContextUnguarded ==
    /\ s.step = "context"
    /\ Command("context", modem, Pdp,
         LAMBDA v : IF request.apn THEN [s EXCEPT !.step = "profile", !.changed = TRUE]
                    ELSE IF v = "active" THEN Set(s)
                    ELSE [s EXCEPT !.step = "activate", !.activated = TRUE],
         Undo)

\* prepare_pdp: the profile is rewritten only while its PDP is down.
AskContext ==
    /\ s.step = "context"
    /\ Command("context", modem, Pdp,
         LAMBDA v : IF request.apn
                      THEN IF v = "active" THEN Undo
                           ELSE [s EXCEPT !.step = "profile", !.changed = TRUE]
                    ELSE IF v = "active" THEN Set(s)
                    ELSE [s EXCEPT !.step = "activate", !.activated = TRUE],
         Undo)

SetProfile ==
    /\ s.step = "profile"
    /\ Command("bare", [modem EXCEPT !.apn = "asked"], Same,
         LAMBDA v : [s EXCEPT !.step = "profileCheck"], Undo)

Apn(m) == m.apn
CheckProfile ==
    /\ s.step = "profileCheck"
    /\ Command("profile", modem, Apn,
         LAMBDA v : IF v = "asked" THEN [s EXCEPT !.step = "activate", !.activated = TRUE]
                    ELSE Undo,
         Undo)

Activate ==
    /\ s.step = "activate"
    /\ Command("bare", [modem EXCEPT !.active = TRUE], Same, LAMBDA v : Set(s), Undo)

\* apply_runtime_config: each setting is marked as touched, set and read back.
SetSetting ==
    /\ s.step \in Settings /\ ~s.check /\ ~s.undoing
    /\ Command("bare", [modem EXCEPT !.own = @ \ {s.step}], Same,
         LAMBDA v : [s EXCEPT !.check = TRUE], Undo)

Value(m) == IF s.step \in m.own THEN "own" ELSE "set"
AfterSetting ==
    LET next == NextSetting[s.step]
    IN  [s EXCEPT !.step = next, !.check = FALSE, !.opened = next = "open",
                  !.touched = @ \cup ({next} \cap Settings)]
CheckSetting ==
    /\ s.step \in Settings /\ s.check /\ ~s.undoing
    /\ Command(s.step, modem, Value,
         LAMBDA v : IF v = "set" THEN AfterSetting ELSE Undo, Undo)

\* open_socket; "maybe open" is set before the command is sent.
Open ==
    /\ s.step = "open"
    /\ \E socket \in Sockets :
          Command("bare", [modem EXCEPT !.socket = socket], Same,
            LAMBDA v : [s EXCEPT !.step = "wait", !.polls = MaxPolls], Undo)

WaitOn ==
    /\ s.step = "wait" /\ s.polls > 0
    /\ Command("state", modem, Socket,
         LAMBDA v : IF v = "connected" THEN [s EXCEPT !.step = "exchange"]
                    ELSE IF v \in {"initial", "connecting"} THEN s
                    ELSE Undo,
         Undo)

\* wait_for_connected: polls while the socket is on its way.
Wait ==
    /\ s.step = "wait" /\ s.polls > 0
    /\ Command("state", modem, Socket,
         LAMBDA v : IF v = "connected" THEN [s EXCEPT !.step = "exchange"]
                    ELSE IF v \in {"initial", "connecting"} /\ s.polls > 1
                           THEN [s EXCEPT !.polls = @ - 1]
                    ELSE Undo,
         Undo)

\* TLS, the request and the answer: commands of the kind "data".  Whether the
\* request succeeds makes no difference to what has to be undone.
Exchange ==
    /\ s.step = "exchange"
    /\ Command("data", modem, Same,
         LAMBDA v : Undo, Undo)

\* The connection comes up, or goes down, by itself.
NetworkMoves ==
    /\ \/ modem.socket = "connecting" /\ modem' \in {[modem EXCEPT !.socket = "connected"],
                                                     [modem EXCEPT !.socket = "closed"]}
       \/ modem.socket = "connected" /\ modem' = [modem EXCEPT !.socket = "closed"]
    /\ s.step # "end"
    /\ UNCHANGED <<flight, request, began, mixed, s>>

\* An answer of one field says nothing of the socket: its state is asked for.
CloseAnswers == {"full", "short"}
CloseTrusting ==
    /\ s.step = "close"
    /\ \E v0 \in CloseAnswers : Command("close", [modem EXCEPT !.socket = "initial"], LAMBDA m : v0,
         LAMBDA v : IF v = "short" THEN [s EXCEPT !.step = "confirm"] ELSE UndoNext(s),
         UndoNext(s))

Close ==
    /\ s.step = "close"
    /\ \E v0 \in CloseAnswers : Command("close", [modem EXCEPT !.socket = "initial"], LAMBDA m : v0,
         LAMBDA v : IF v = "short" THEN [s EXCEPT !.step = "confirm"] ELSE UndoNext(s),
         UndoNext(Unclean(s, TRUE)))

ConfirmClosed ==
    /\ s.step = "confirm"
    /\ LET t == [s EXCEPT !.step = "close"] IN
       Command("state", modem, Socket,
         LAMBDA v : IF v = "initial" THEN UndoNext(t) ELSE UndoNext(Unclean(t, TRUE)),
         UndoNext(Unclean(t, TRUE)))

\* restore_config: set back and read back.
RestoreSettingBlindly ==
    /\ s.step \in Settings /\ ~s.check /\ s.undoing
    /\ Command("bare", [modem EXCEPT !.own = @ \cup {s.step}], Same,
         LAMBDA v : UndoNext(s), UndoNext(Unclean(s, FALSE)))

RestoreSetting ==
    /\ s.step \in Settings /\ ~s.check /\ s.undoing
    /\ Command("bare", [modem EXCEPT !.own = @ \cup {s.step}], Same,
         LAMBDA v : [s EXCEPT !.check = TRUE], UndoNext(Unclean(s, FALSE)))

CheckRestored ==
    /\ s.step \in Settings /\ s.check /\ s.undoing
    /\ Command(s.step, modem, Value,
         LAMBDA v : IF v = "own" THEN UndoNext(s) ELSE UndoNext(Unclean(s, FALSE)),
         UndoNext(Unclean(s, FALSE)))

Deactivate ==
    /\ s.step = "deactivate"
    /\ Command("bare", [modem EXCEPT !.active = FALSE], Same,
         LAMBDA v : UndoNext(s), UndoNext(Unclean(s, FALSE)))

\* restore_cgdccont: written back and read back.
RestoreProfile ==
    /\ s.step = "restore" /\ ~s.check
    /\ Command("bare", [modem EXCEPT !.apn = "own"], Same,
         LAMBDA v : [s EXCEPT !.check = TRUE], UndoNext(Unclean(s, FALSE)))

CheckRestoredProfile ==
    /\ s.step = "restore" /\ s.check
    /\ Command("profile", modem, Apn,
         LAMBDA v : IF v = "own" THEN UndoNext(s) ELSE UndoNext(Unclean(s, FALSE)),
         UndoNext(Unclean(s, FALSE)))

-----------------------------------------------------------------------------
SessionStep ==
    \/ AskState \/ CloseStale \/ Recheck \/ Snapshot
    \/ AskContext \/ SetProfile \/ CheckProfile \/ Activate
    \/ SetSetting \/ CheckSetting \/ Open \/ Wait \/ Exchange
    \/ Close \/ ConfirmClosed \/ RestoreSetting \/ CheckRestored
    \/ Deactivate \/ RestoreProfile \/ CheckRestoredProfile

Next == SessionStep \/ NetworkMoves

\* The owner task runs the session to its end.
Spec == Init /\ [][Next]_vars /\ WF_vars(SessionStep)

Ended == s.step = "end"
-----------------------------------------------------------------------------
(* Properties                                                              *)

\* A session that reports a clean end has put back every MIP setting and, if
\* it changed it, the APN profile, whatever answers were lost or came late:
\* what is set back is read back (restore_config, restore_cgdccont).
SettingsRestored ==
    Ended /\ s.clean => /\ modem.own = Settings
                        /\ (request.keep \/ modem.apn = "own")

\* A socket the session may have opened is closed, or the result asks for a
\* reset of the modem (cleanupRequiresReset).
SocketClosedOrReset == Ended /\ s.opened /\ ~s.reset => modem.socket = "initial"

\* A PDP context found down is down again after a clean end, unless the answer
\* of an earlier command was read as that of another (cleanup does not read the
\* PDP state back, as it does everything else).
PdpPutDown ==
    Ended /\ s.clean /\ ~began.active /\ ~request.keep /\ ~mixed => ~modem.active

\* The profile of a PDP that was up when the session began is never rewritten.
KeepsProfile == began.active => modem'.apn = modem.apn
LiveProfileKept == [][KeepsProfile]_vars

\* The session ends, whatever the modem answers.
SessionEnds == <>Ended

-----------------------------------------------------------------------------
(* The inductive invariant.                                                *)

HttpsAssumption == MaxPolls \in Nat \ {0} /\ MaxFlight \in Nat

Kinds == {"state", "close", "config", "context", "bare", "profile", "data", "error"} \cup Settings
Values == {"", "own", "set", "asked", "active", "idle"} \cup Sockets \cup CloseAnswers
Typed ==
    /\ TypeOK /\ began \in Modems /\ flight \in Seq([kind : Kinds, val : Values])

\* On its way forward the session has had every answer to what it sent.
Forward ==
    ~s.undoing =>
        /\ flight = <<>> /\ ~mixed
        /\ s.step \in {"state", "stale", "recheck", "snapshot", "context"}
             => s.touched = {} /\ ~s.opened /\ ~s.activated /\ ~s.changed
        /\ s.step \in {"profile", "profileCheck"}
             => s.touched = {} /\ ~s.opened /\ ~s.activated /\ s.changed
        /\ s.step = "activate" => s.touched = {} /\ ~s.opened /\ s.activated
        /\ s.step \in Settings => s.step \in s.touched /\ ~s.opened
        /\ s.step \in {"open", "wait", "exchange"} => s.opened
        /\ s.step \notin {"close", "confirm", "deactivate", "restore", "end"}

\* What the session has marked is all that it may have changed.
Marked ==
    /\ Settings \ s.touched \subseteq modem.own
    /\ ~s.changed => modem.apn = "own"
    /\ ~s.activated => modem.active = began.active
    /\ s.changed => ~began.active

\* What it has marked and come past while undoing is undone, or told.
Undone(step) ==
    CASE step = "close" -> s.opened /\ ~s.reset => modem.socket = "initial"
      [] step \in Settings -> s.clean => step \in modem.own
      [] step = "deactivate" ->
            s.clean /\ ~began.active /\ ~request.keep /\ ~mixed => ~modem.active
      [] step = "restore" -> s.clean => request.keep \/ modem.apn = "own"
Place(step) ==
    IF step = "end" THEN Len(UndoOrder) + 1
    ELSE IF step = "confirm" THEN 1 ELSE CHOOSE i \in 1 .. Len(UndoOrder) : UndoOrder[i] = step
Backward ==
    s.undoing =>
        /\ s.step \in {"close", "confirm", "deactivate", "restore", "end"} \cup Settings
        /\ \A i \in 1 .. Place(s.step) - 1 : Undone(UndoOrder[i])
        /\ s.step \in {"close", "confirm"} => s.opened
        /\ s.step = "confirm" => modem.socket = "initial"
        /\ s.step = "deactivate" => s.activated
        /\ s.step = "restore" => s.changed

\* A late answer that says a thing is as it was is true: by then nothing but
\* undoing touches it.
LateTrue ==
    \A i \in DOMAIN flight :
        LET a == flight[i] IN
        /\ a.kind \in Settings /\ a.val = "own" => a.kind \in modem.own
        /\ a.kind = "profile" /\ a.val = "own" => modem.apn = "own"
        /\ a.kind = "close" => ~s.opened \/ (s.step # "close" /\ (modem.socket = "initial" \/ s.reset))

IInv == Typed /\ Forward /\ Marked /\ Backward /\ LateTrue
=============================================================================
