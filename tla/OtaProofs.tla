------------------------------ MODULE OtaProofs ------------------------------
(***************************************************************************)
(* Proofs about MCDrains.  The signed update (Ota), for any number of      *)
(* releases, chunks, power cuts and failures of flash: there is always an  *)
(* image that starts, the one on trial is known, and only confirmed        *)
(* releases are counted.  The queues of the push worker (PushQueue), for   *)
(* any items, channels and sizes: a record is left for every fan-out.      *)
(***************************************************************************)
EXTENDS MCDrains, TLAPS

-----------------------------------------------------------------------------
(* The inductive invariant.                                                *)

\* A slot that is selected but not yet confirmed has a confirmed one beside it.
Fresh(s) == img[s] \in {"new", "pending"}
Backed ==
    /\ OneConfirmed
    /\ \A s \in Slots : Fresh(s) =>
          /\ img[Other(s)] = "valid" /\ app[Other(s)] # Blank
          /\ app[s] # Blank /\ boot = s

\* What runs is confirmed or on trial; without power nothing goes on.
Running ==
    /\ running # 0 => img[running] \in {"valid", "pending"} /\ app[running] # Blank
    /\ running # 0 /\ img[boot] = "new" =>
          restart /\ step \in {"idle", "clear", "clearAddress"}
    /\ running = 0 => step = "idle" /\ session = NoSession /\ ~restart

\* The selected slot holds a confirmed image only while it runs or there is no
\* power; a slot on trial is the one that runs.
Selected ==
    /\ img[boot] = "valid" => app[boot] # Blank /\ running \in {0, boot}
    /\ img[boot] = "pending" => running \in {0, boot}

\* The session belongs to the slot that does not run, the steps of finish to the
\* session.
Session ==
    /\ session.finishing => session.active
    /\ session.active =>
          /\ running # 0 /\ ~restart /\ health # "once"
          /\ session.target = Other(running)
          /\ img[running] = "valid"
          /\ session.release \in Releases
    /\ step \in FinishSteps =>
          /\ session.active /\ session.finishing
          /\ app[session.target] = session.release
    /\ step \in {"address", "select"} => pending = session.release
    /\ step = "select" => paddr = session.target
    /\ step \in FinishSteps \ {"store"} =>
          overwrote \/ paddr = 0 \/ (step # "address" /\ paddr = session.target)

\* The steps of the health check: the trial that goes on is the one that the
\* numbers name, and the numbers that are kept are those of a confirmed release.
Steps ==
    /\ step \in {"bind", "confirm"} => img[running] = "pending" /\ pending > accepted
    /\ step = "bind" => paddr = 0
    /\ step = "confirm" => paddr = running
    /\ step = "persist" =>
          /\ pending > accepted /\ paddr = running /\ img[running] = "valid"
          /\ pending \in confirmed \/ overwrote
    /\ step \in {"clear", "clearAddress"} =>
          /\ img[running] = "valid"
          /\ overwrote \/ \A r \in confirmed : r <= accepted

\* Without a fault the numbers of an update are gone before the next is finished.
Timely ==
    /\ faults = 0 /\ (step \in FinishSteps \/ (img[boot] = "new" /\ running # 0))
          => health = "done"
    /\ faults = 0 /\ img[boot] = "new" /\ running # 0 => step = "idle"
    /\ TrialNamed

\* The numbers beside an image that was selected are its own.
Trial ==
    /\ Fresh(boot) => pending \in {0, app[boot]} /\ paddr \in {0, boot}

\* Numbers that no health check has confirmed do not name an image that runs:
\* they name one on trial, or one that was never selected and has a confirmed
\* image beside it.
Waiting ==
    paddr # 0 /\ pending # 0 /\ pending \notin confirmed /\ ~overwrote =>
        /\ paddr = boot => img[boot] # "valid"
        /\ paddr = Other(boot) => img[boot] = "valid"

\* What was confirmed is counted in accepted, or waits in pending to be.
Counted ==
    /\ 0 \in confirmed
    /\ AcceptedRan
    /\ overwrote \/ \A r \in confirmed :
          \/ r <= accepted
          \/ r = pending /\ paddr = boot /\ img[boot] = "valid"

IInv ==
    /\ TypeOK
    /\ Backed /\ Running /\ Selected /\ Session /\ Steps
    /\ Timely /\ Trial /\ Waiting /\ Counted

-----------------------------------------------------------------------------
(* Every action keeps the invariant.                                       *)

LEMMA NoSessionType == NoSession \in SessionRecord
  BY OtaAssumption DEF NoSession, SessionRecord

LEMMA StartPreserves == ASSUME IInv, NEW release \in Releases, Start(release) PROVE IInv'
<1>1. TypeOK'
  <2>1. app' \in [Slots -> Releases \cup {0, Blank}]
    BY DEF IInv, TypeOK, Slots, Releases, Blank, FinishSteps, HealthSteps,
        SessionRecord, Start, NoSession, nvs, task, spent, Free, Floor, Target, Higher,
        Other
  <2>2. session' \in SessionRecord
    <3>1. Target \in Slots
      BY DEF IInv, TypeOK, Start, Free, Target, Other, Slots
    <3> QED BY <3>1, NoSessionType DEF Start, SessionRecord
  <2> QED
    BY <2>1, <2>2 DEF IInv, TypeOK, Start, nvs, task, spent
<1>2. Steps' /\ Waiting' /\ Counted'
  BY DEF IInv, Steps, Waiting, Other, Counted, AcceptedRan, Start, Blank, NoSession,
      nvs, task, spent, Free, Floor, Target, Higher
<1>3. Backed'
  BY DEF IInv, TypeOK, Slots, Releases, Blank, FinishSteps, HealthSteps, SessionRecord,
      Running, NoSession, Selected, Backed, Other, OneConfirmed, Fresh, Start, nvs,
      task, spent, Free, Floor, Target, Higher
<1>4. Running'
  BY DEF IInv, Running, Blank, NoSession, TypeOK, Slots, Releases, FinishSteps,
      HealthSteps, SessionRecord, Start, nvs, task, spent, Free, Floor, Target, Higher,
      Other
<1>5. Selected'
  BY DEF IInv, Selected, Blank, TypeOK, Slots, Releases, FinishSteps, HealthSteps,
      SessionRecord, Start, NoSession, nvs, task, spent, Free, Floor, Target, Higher,
      Other
<1>6. Session'
  BY DEF IInv, Running, Blank, NoSession, Session, Releases, Other, FinishSteps, Start,
      nvs, task, spent, Free, Floor, Target, Higher
<1>7. Timely'
  BY DEF IInv, Running, Blank, NoSession, Timely, FinishSteps, TrialNamed, Start, nvs,
      task, spent, Free, Floor, Target, Higher, Other
<1>8. Trial'
  BY DEF IInv, Running, Blank, NoSession, Selected, Trial, Fresh, Start, nvs, task,
      spent, Free, Floor, Target, Higher, Other
<1> QED BY <1>1, <1>2, <1>3, <1>4, <1>5, <1>6, <1>7, <1>8 DEF IInv

LEMMA AppendPreserves == ASSUME IInv, Append PROVE IInv'
<1>1. TypeOK'
  <2>1. session' \in SessionRecord
    BY OtaAssumption DEF IInv, TypeOK, Slots, Releases, Blank, SessionRecord, Append,
        chip, nvs, task, spent, Free
  <2> QED
    BY <2>1 DEF IInv, TypeOK, Append, chip, nvs, task, spent
<1>2. Backed' /\ Selected' /\ Steps' /\ Timely' /\ Trial' /\ Waiting' /\ Counted'
  BY DEF IInv, Backed, Slots, Blank, Other, OneConfirmed, Fresh, Selected, Steps,
      Timely, FinishSteps, TrialNamed, Trial, Waiting, Counted, AcceptedRan, Append,
      chip, nvs, task, spent, Free
<1>3. Running'
  BY DEF IInv, Running, Blank, NoSession, Append, chip, nvs, task, spent, Free
<1>4. Session'
  BY DEF IInv, Session, Releases, Other, FinishSteps, Append, chip, nvs, task, spent,
      Free
<1> QED BY <1>1, <1>2, <1>3, <1>4 DEF IInv

LEMMA PrepareFinishPreserves == ASSUME IInv, PrepareFinish PROVE IInv'
<1>1. TypeOK'
  <2>1. session' \in SessionRecord
    BY NoSessionType DEF IInv, TypeOK, Slots, Releases, Blank, SessionRecord,
        PrepareFinish, chip, nvs, task, spent, Free
  <2> QED
    BY <2>1 DEF IInv, TypeOK, PrepareFinish, chip, nvs, task, spent
<1>2. Backed' /\ Selected' /\ Steps' /\ Timely' /\ Trial' /\ Waiting' /\ Counted'
  BY DEF IInv, Backed, Slots, Blank, Other, OneConfirmed, Fresh, Selected, Steps,
      Timely, FinishSteps, TrialNamed, Trial, Waiting, Counted, AcceptedRan,
      PrepareFinish, NoSession, chip, nvs, task, spent, Free
<1>3. Running'
  BY DEF IInv, Running, Blank, NoSession, PrepareFinish, chip, nvs, task, spent, Free
<1>4. Session'
  BY DEF IInv, Session, Releases, Other, FinishSteps, PrepareFinish, NoSession, chip,
      nvs, task, spent, Free
<1> QED BY <1>1, <1>2, <1>3, <1>4 DEF IInv

LEMMA CancelFinishPreserves == ASSUME IInv, CancelFinish PROVE IInv'
<1>1. TypeOK'
  <2>1. session' \in SessionRecord
    BY NoSessionType DEF IInv, TypeOK, Slots, Releases, Blank, SessionRecord,
        CancelFinish, chip, nvs, task, spent, Free
  <2> QED
    BY <2>1 DEF IInv, TypeOK, CancelFinish, chip, nvs, task, spent
<1>2. Backed' /\ Selected' /\ Steps' /\ Timely' /\ Trial' /\ Waiting' /\ Counted'
  BY DEF IInv, Backed, Slots, Blank, Other, OneConfirmed, Fresh, Selected, Steps,
      Timely, FinishSteps, TrialNamed, Trial, Waiting, Counted, AcceptedRan,
      CancelFinish, chip, nvs, task, spent, Free
<1>3. Running'
  BY DEF IInv, Running, Blank, NoSession, CancelFinish, chip, nvs, task, spent, Free
<1>4. Session'
  BY DEF IInv, Session, Releases, Other, FinishSteps, CancelFinish, chip, nvs, task,
      spent, Free
<1> QED BY <1>1, <1>2, <1>3, <1>4 DEF IInv

LEMMA GiveUpPreserves == ASSUME IInv, GiveUp PROVE IInv'
<1>1. TypeOK'
  <2>1. session' \in SessionRecord
    BY NoSessionType DEF IInv, TypeOK, Slots, Releases, Blank, SessionRecord, GiveUp,
        chip, nvs, task, spent, Free
  <2> QED
    BY <2>1 DEF IInv, TypeOK, GiveUp, chip, nvs, task, spent
<1>2. Backed' /\ Selected' /\ Steps' /\ Timely' /\ Trial' /\ Waiting' /\ Counted'
  BY DEF IInv, Backed, Slots, Blank, Other, OneConfirmed, Fresh, Selected, Steps,
      Timely, FinishSteps, TrialNamed, Trial, Waiting, Counted, AcceptedRan, GiveUp,
      NoSession, chip, nvs, task, spent, Free
<1>3. Running'
  BY DEF IInv, Running, Blank, NoSession, GiveUp, chip, nvs, task, spent, Free
<1>4. Session'
  BY DEF IInv, Session, Releases, Other, FinishSteps, GiveUp, NoSession, chip, nvs,
      task, spent, Free
<1> QED BY <1>1, <1>2, <1>3, <1>4 DEF IInv

LEMMA FinishPreserves == ASSUME IInv, Finish PROVE IInv'
<1>1. TypeOK'
  <2>1. app' \in [Slots -> Releases \cup {0, Blank}]
    BY DEF IInv, TypeOK, Slots, Releases, Blank, FinishSteps, HealthSteps,
        SessionRecord, Finish, NoSession, nvs, task, spent, Free
  <2>2. session' \in SessionRecord
    BY NoSessionType DEF IInv, TypeOK, Slots, Releases, Blank, SessionRecord, Finish,
        nvs, task, spent, Free
  <2>3. step' \in {"idle"} \cup FinishSteps \cup HealthSteps
    BY DEF IInv, TypeOK, Slots, Releases, Blank, FinishSteps, HealthSteps,
        SessionRecord, Finish, NoSession, nvs, task, spent, Free
  <2> QED
    BY <2>1, <2>2, <2>3 DEF IInv, TypeOK, Finish, nvs, task, spent
<1>2. Waiting' /\ Counted'
  BY DEF IInv, Waiting, Other, Counted, AcceptedRan, Finish, NoSession, nvs, task,
      spent, Free
<1>3. Backed'
  BY DEF IInv, Backed, Slots, Blank, Other, OneConfirmed, Fresh, TypeOK, Releases,
      FinishSteps, HealthSteps, SessionRecord, Finish, NoSession, nvs, task, spent, Free
<1>4. Running'
  BY DEF IInv, TypeOK, Slots, Releases, Blank, FinishSteps, HealthSteps, SessionRecord,
      Session, Other, Running, NoSession, Finish, nvs, task, spent, Free
<1>5. Selected'
  BY DEF IInv, Selected, Blank, TypeOK, Slots, Releases, FinishSteps, HealthSteps,
      SessionRecord, Finish, NoSession, nvs, task, spent, Free
<1>6. Session'
  BY DEF IInv, Session, Releases, Other, FinishSteps, TypeOK, Slots, Blank, HealthSteps,
      SessionRecord, Finish, NoSession, nvs, task, spent, Free
<1>7. Steps'
  BY DEF IInv, Steps, Finish, NoSession, nvs, task, spent, Free
<1>8. Timely'
  BY DEF IInv, TypeOK, Slots, Releases, Blank, FinishSteps, HealthSteps, SessionRecord,
      Running, NoSession, Session, Other, Timely, TrialNamed, Finish, nvs, task, spent,
      Free
<1>9. Trial'
  BY DEF IInv, Running, Blank, NoSession, Selected, Session, Releases, Other,
      FinishSteps, Trial, Fresh, Finish, nvs, task, spent, Free
<1> QED BY <1>1, <1>2, <1>3, <1>4, <1>5, <1>6, <1>7, <1>8, <1>9 DEF IInv

LEMMA StoreCounterPreserves == ASSUME IInv, WritePending, step = "store" PROVE IInv'
<1>1. TypeOK'
  <2>1. pending' \in Releases \cup {0}
    BY DEF IInv, TypeOK, Slots, Releases, Blank, FinishSteps, HealthSteps,
        SessionRecord, WritePending, chip, task, Store, Undo, Fault, NoSession
  <2>2. paddr' \in Slots \cup {0}
    BY DEF IInv, TypeOK, Slots, Releases, Blank, FinishSteps, HealthSteps,
        SessionRecord, WritePending, chip, task, Store, Undo, Fault, NoSession
  <2>3. session' \in SessionRecord
    BY NoSessionType DEF IInv, TypeOK, Slots, Releases, Blank, SessionRecord,
        WritePending, chip, task, Store, Undo, Fault
  <2>4. step' \in {"idle"} \cup FinishSteps \cup HealthSteps
    BY DEF IInv, TypeOK, Slots, Releases, Blank, FinishSteps, HealthSteps,
        SessionRecord, WritePending, chip, task, Store, Undo, Fault, NoSession
  <2>5. overwrote' \in BOOLEAN
    BY DEF IInv, TypeOK, Slots, Releases, Blank, FinishSteps, HealthSteps,
        SessionRecord, WritePending, chip, task, Store, Undo, Fault, NoSession
  <2>6. faults' \in 0 .. MaxFaults
    BY OtaAssumption DEF IInv, TypeOK, Slots, Releases, Blank, FinishSteps, HealthSteps,
        SessionRecord, WritePending, chip, task, Store, Undo, Fault, NoSession
  <2> QED
    BY <2>1, <2>2, <2>3, <2>4, <2>5, <2>6 DEF IInv, TypeOK, WritePending, chip, task,
        Store, Undo
<1>2. Backed' /\ Selected'
  BY DEF IInv, Backed, Slots, Blank, Other, OneConfirmed, Fresh, Selected, WritePending,
      chip, task, Store, Undo, Fault, NoSession
<1>3. Running'
  BY DEF IInv, Running, Blank, NoSession, WritePending, chip, task, Store, Undo, Fault
<1>4. Session'
  BY DEF IInv, Session, Releases, Other, FinishSteps, TypeOK, Slots, Blank, HealthSteps,
      SessionRecord, WritePending, chip, task, Store, Undo, Fault, NoSession
<1>5. Steps'
  BY DEF IInv, Steps, WritePending, chip, task, Store, Undo, Fault, NoSession
<1>6. Timely'
  BY DEF IInv, Timely, FinishSteps, TrialNamed, TypeOK, Slots, Releases, Blank,
      HealthSteps, SessionRecord, WritePending, chip, task, Store, Undo, Fault,
      NoSession
<1>7. Trial'
  BY DEF IInv, Running, Blank, NoSession, Selected, Session, Releases, Other,
      FinishSteps, Trial, Fresh, WritePending, chip, task, Store, Undo, Fault
<1>8. Waiting'
  BY DEF IInv, TypeOK, Slots, Releases, Blank, FinishSteps, HealthSteps, SessionRecord,
      Session, Other, Waiting, WritePending, chip, task, Store, Undo, Fault, NoSession
<1>9. Counted'
  BY DEF IInv, TypeOK, Slots, Releases, Blank, FinishSteps, HealthSteps, SessionRecord,
      Session, Other, Counted, AcceptedRan, WritePending, chip, task, Store, Undo,
      Fault, NoSession
<1> QED BY <1>1, <1>2, <1>3, <1>4, <1>5, <1>6, <1>7, <1>8, <1>9 DEF IInv

LEMMA StoreAddressPreserves == ASSUME IInv, WritePending, step = "address" PROVE IInv'
<1>1. TypeOK'
  <2>1. pending' \in Releases \cup {0}
    BY DEF IInv, TypeOK, Slots, Releases, Blank, FinishSteps, HealthSteps,
        SessionRecord, WritePending, chip, task, Store, Undo, Fault, NoSession
  <2>2. paddr' \in Slots \cup {0}
    BY DEF IInv, TypeOK, Slots, Releases, Blank, FinishSteps, HealthSteps,
        SessionRecord, WritePending, chip, task, Store, Undo, Fault, NoSession
  <2>3. session' \in SessionRecord
    BY NoSessionType DEF IInv, TypeOK, Slots, Releases, Blank, SessionRecord,
        WritePending, chip, task, Store, Undo, Fault
  <2>4. step' \in {"idle"} \cup FinishSteps \cup HealthSteps
    BY DEF IInv, TypeOK, Slots, Releases, Blank, FinishSteps, HealthSteps,
        SessionRecord, WritePending, chip, task, Store, Undo, Fault, NoSession
  <2>5. overwrote' \in BOOLEAN
    BY DEF IInv, TypeOK, Slots, Releases, Blank, FinishSteps, HealthSteps,
        SessionRecord, WritePending, chip, task, Store, Undo, Fault, NoSession
  <2>6. faults' \in 0 .. MaxFaults
    BY OtaAssumption DEF IInv, TypeOK, Slots, Releases, Blank, FinishSteps, HealthSteps,
        SessionRecord, WritePending, chip, task, Store, Undo, Fault, NoSession
  <2> QED
    BY <2>1, <2>2, <2>3, <2>4, <2>5, <2>6 DEF IInv, TypeOK, WritePending, chip, task,
        Store, Undo
<1>2. Backed' /\ Selected'
  BY DEF IInv, Backed, Slots, Blank, Other, OneConfirmed, Fresh, Selected, WritePending,
      chip, task, Store, Undo, Fault, NoSession
<1>3. Running'
  BY DEF IInv, Running, Blank, NoSession, WritePending, chip, task, Store, Undo, Fault
<1>4. Session'
  BY DEF IInv, Session, Releases, Other, FinishSteps, WritePending, chip, task, Store,
      Undo, Fault, NoSession
<1>5. Steps'
  BY DEF IInv, Steps, WritePending, chip, task, Store, Undo, Fault, NoSession
<1>6. Timely'
  BY DEF IInv, Timely, FinishSteps, TrialNamed, TypeOK, Slots, Releases, Blank,
      HealthSteps, SessionRecord, WritePending, chip, task, Store, Undo, Fault,
      NoSession
<1>7. Trial'
  BY DEF IInv, Running, Blank, NoSession, Selected, Session, Releases, Other,
      FinishSteps, Trial, Fresh, WritePending, chip, task, Store, Undo, Fault
<1>8. Waiting'
  BY DEF IInv, TypeOK, Slots, Releases, Blank, FinishSteps, HealthSteps, SessionRecord,
      Selected, Session, Other, Waiting, WritePending, chip, task, Store, Undo, Fault,
      NoSession
<1>9. Counted'
  BY DEF IInv, Selected, Blank, Session, Releases, Other, FinishSteps, Counted,
      AcceptedRan, WritePending, chip, task, Store, Undo, Fault, NoSession
<1> QED BY <1>1, <1>2, <1>3, <1>4, <1>5, <1>6, <1>7, <1>8, <1>9 DEF IInv

LEMMA UndoCounterPreserves == ASSUME IInv, WritePending, step = "undo" PROVE IInv'
<1>1. TypeOK'
  <2>1. pending' \in Releases \cup {0}
    BY DEF IInv, TypeOK, Slots, Releases, Blank, FinishSteps, HealthSteps,
        SessionRecord, WritePending, chip, task, Store, Undo, Fault, NoSession
  <2>2. paddr' \in Slots \cup {0}
    BY DEF IInv, TypeOK, Slots, Releases, Blank, FinishSteps, HealthSteps,
        SessionRecord, WritePending, chip, task, Store, Undo, Fault, NoSession
  <2>3. session' \in SessionRecord
    BY NoSessionType DEF IInv, TypeOK, Slots, Releases, Blank, SessionRecord,
        WritePending, chip, task, Store, Undo, Fault
  <2>4. step' \in {"idle"} \cup FinishSteps \cup HealthSteps
    BY DEF IInv, TypeOK, Slots, Releases, Blank, FinishSteps, HealthSteps,
        SessionRecord, WritePending, chip, task, Store, Undo, Fault, NoSession
  <2>5. overwrote' \in BOOLEAN
    BY DEF IInv, TypeOK, Slots, Releases, Blank, FinishSteps, HealthSteps,
        SessionRecord, WritePending, chip, task, Store, Undo, Fault, NoSession
  <2>6. faults' \in 0 .. MaxFaults
    BY OtaAssumption DEF IInv, TypeOK, Slots, Releases, Blank, FinishSteps, HealthSteps,
        SessionRecord, WritePending, chip, task, Store, Undo, Fault, NoSession
  <2> QED
    BY <2>1, <2>2, <2>3, <2>4, <2>5, <2>6 DEF IInv, TypeOK, WritePending, chip, task,
        Store, Undo
<1>2. Backed' /\ Selected'
  BY DEF IInv, Backed, Slots, Blank, Other, OneConfirmed, Fresh, Selected, WritePending,
      chip, task, Store, Undo, Fault, NoSession
<1>3. Running'
  BY DEF IInv, Running, Blank, NoSession, WritePending, chip, task, Store, Undo, Fault
<1>4. Session'
  BY DEF IInv, Session, Releases, Other, FinishSteps, WritePending, chip, task, Store,
      Undo, Fault, NoSession
<1>5. Steps'
  BY DEF IInv, Steps, WritePending, chip, task, Store, Undo, Fault, NoSession
<1>6. Timely'
  BY DEF IInv, Timely, FinishSteps, TrialNamed, TypeOK, Slots, Releases, Blank,
      HealthSteps, SessionRecord, WritePending, chip, task, Store, Undo, Fault,
      NoSession
<1>7. Trial'
  BY DEF IInv, Trial, Fresh, WritePending, chip, task, Store, Undo, Fault, NoSession
<1>8. Waiting'
  BY DEF IInv, Waiting, Other, WritePending, chip, task, Store, Undo, Fault, NoSession
<1>9. Counted'
  BY DEF IInv, TypeOK, Slots, Releases, Blank, FinishSteps, HealthSteps, SessionRecord,
      Selected, Session, Other, Counted, AcceptedRan, WritePending, chip, task, Store,
      Undo, Fault, NoSession
<1> QED BY <1>1, <1>2, <1>3, <1>4, <1>5, <1>6, <1>7, <1>8, <1>9 DEF IInv

LEMMA UndoAddressPreserves == ASSUME IInv, WritePending, step = "undoAddress" PROVE IInv'
<1>1. TypeOK'
  <2>1. pending' \in Releases \cup {0}
    BY DEF IInv, TypeOK, Slots, Releases, Blank, FinishSteps, HealthSteps,
        SessionRecord, WritePending, chip, task, Store, Undo, Fault, NoSession
  <2>2. paddr' \in Slots \cup {0}
    BY DEF IInv, TypeOK, Slots, Releases, Blank, FinishSteps, HealthSteps,
        SessionRecord, WritePending, chip, task, Store, Undo, Fault, NoSession
  <2>3. session' \in SessionRecord
    BY NoSessionType DEF IInv, TypeOK, Slots, Releases, Blank, SessionRecord,
        WritePending, chip, task, Store, Undo, Fault
  <2>4. step' \in {"idle"} \cup FinishSteps \cup HealthSteps
    BY DEF IInv, TypeOK, Slots, Releases, Blank, FinishSteps, HealthSteps,
        SessionRecord, WritePending, chip, task, Store, Undo, Fault, NoSession
  <2>5. overwrote' \in BOOLEAN
    BY DEF IInv, TypeOK, Slots, Releases, Blank, FinishSteps, HealthSteps,
        SessionRecord, WritePending, chip, task, Store, Undo, Fault, NoSession
  <2>6. faults' \in 0 .. MaxFaults
    BY OtaAssumption DEF IInv, TypeOK, Slots, Releases, Blank, FinishSteps, HealthSteps,
        SessionRecord, WritePending, chip, task, Store, Undo, Fault, NoSession
  <2> QED
    BY <2>1, <2>2, <2>3, <2>4, <2>5, <2>6 DEF IInv, TypeOK, WritePending, chip, task,
        Store, Undo
<1>2. Backed' /\ Selected'
  BY DEF IInv, Backed, Slots, Blank, Other, OneConfirmed, Fresh, Selected, WritePending,
      chip, task, Store, Undo, Fault, NoSession
<1>3. Running'
  BY DEF IInv, Running, Blank, NoSession, WritePending, chip, task, Store, Undo, Fault
<1>4. Session'
  BY DEF IInv, Session, Releases, Other, FinishSteps, WritePending, chip, task, Store,
      Undo, Fault, NoSession
<1>5. Steps'
  BY DEF IInv, Steps, WritePending, chip, task, Store, Undo, Fault, NoSession
<1>6. Timely'
  BY DEF IInv, Timely, FinishSteps, TrialNamed, TypeOK, Slots, Releases, Blank,
      HealthSteps, SessionRecord, WritePending, chip, task, Store, Undo, Fault,
      NoSession
<1>7. Trial'
  BY DEF IInv, Trial, Fresh, WritePending, chip, task, Store, Undo, Fault, NoSession
<1>8. Waiting'
  BY DEF IInv, Waiting, Other, TypeOK, Slots, Releases, Blank, FinishSteps, HealthSteps,
      SessionRecord, WritePending, chip, task, Store, Undo, Fault, NoSession
<1>9. Counted'
  BY DEF IInv, TypeOK, Slots, Releases, Blank, FinishSteps, HealthSteps, SessionRecord,
      Selected, Session, Other, Counted, AcceptedRan, WritePending, chip, task, Store,
      Undo, Fault, NoSession
<1> QED BY <1>1, <1>2, <1>3, <1>4, <1>5, <1>6, <1>7, <1>8, <1>9 DEF IInv

LEMMA SetBootPreserves == ASSUME IInv, SetBoot PROVE IInv'
<1>1. TypeOK'
  <2>1. img' \in [Slots -> {"new", "pending", "valid", "invalid", "aborted"}]
    BY DEF IInv, TypeOK, Slots, Releases, Blank, FinishSteps, HealthSteps,
        SessionRecord, SetBoot, NoSession, nvs, task, Fault
  <2>2. boot' \in Slots
    BY DEF IInv, TypeOK, Slots, Releases, Blank, FinishSteps, HealthSteps,
        SessionRecord, Session, Other, Running, NoSession, SetBoot, nvs, task, Fault
  <2>3. session' \in SessionRecord
    BY NoSessionType DEF IInv, TypeOK, Slots, Releases, Blank, SessionRecord, SetBoot,
        nvs, task, Fault
  <2>4. restart' \in BOOLEAN
    BY DEF IInv, TypeOK, Slots, Releases, Blank, FinishSteps, HealthSteps,
        SessionRecord, SetBoot, NoSession, nvs, task, Fault
  <2>5. step' \in {"idle"} \cup FinishSteps \cup HealthSteps
    BY DEF IInv, TypeOK, Slots, Releases, Blank, FinishSteps, HealthSteps,
        SessionRecord, SetBoot, NoSession, nvs, task, Fault
  <2>6. faults' \in 0 .. MaxFaults
    BY OtaAssumption DEF IInv, TypeOK, Slots, Releases, Blank, FinishSteps, HealthSteps,
        SessionRecord, SetBoot, NoSession, nvs, task, Fault
  <2> QED
    BY <2>1, <2>2, <2>3, <2>4, <2>5, <2>6 DEF IInv, TypeOK, SetBoot, nvs, task
<1>2. Backed'
  BY DEF IInv, TypeOK, Slots, Releases, Blank, FinishSteps, HealthSteps, SessionRecord,
      Selected, Session, Other, Backed, OneConfirmed, Fresh, SetBoot, NoSession, nvs,
      task, Fault
<1>3. Running'
  BY DEF IInv, TypeOK, Slots, Releases, Blank, FinishSteps, HealthSteps, SessionRecord,
      Session, Other, Running, NoSession, SetBoot, nvs, task, Fault
<1>4. Selected'
  BY DEF IInv, TypeOK, Slots, Releases, Blank, FinishSteps, HealthSteps, SessionRecord,
      Session, Other, Selected, SetBoot, NoSession, nvs, task, Fault
<1>5. Session'
  BY DEF IInv, Session, Releases, Other, FinishSteps, SetBoot, NoSession, nvs, task,
      Fault
<1>6. Steps'
  BY DEF IInv, Steps, SetBoot, NoSession, nvs, task, Fault
<1>7. Timely'
  BY DEF IInv, TypeOK, Slots, Releases, Blank, FinishSteps, HealthSteps, SessionRecord,
      Session, Other, Timely, TrialNamed, SetBoot, NoSession, nvs, task, Fault
<1>8. Trial'
  BY DEF IInv, Session, Releases, Other, FinishSteps, Trial, Fresh, SetBoot, NoSession,
      nvs, task, Fault
<1>9. Waiting'
  BY DEF IInv, TypeOK, Slots, Releases, Blank, FinishSteps, HealthSteps, SessionRecord,
      Session, Other, Waiting, SetBoot, NoSession, nvs, task, Fault
<1>10. Counted'
  BY DEF IInv, TypeOK, Slots, Releases, Blank, FinishSteps, HealthSteps, SessionRecord,
      Selected, Session, Other, Counted, AcceptedRan, SetBoot, NoSession, nvs, task,
      Fault
<1> QED BY <1>1, <1>2, <1>3, <1>4, <1>5, <1>6, <1>7, <1>8, <1>9, <1>10 DEF IInv

LEMMA ConfirmPreserves == ASSUME IInv, Confirm PROVE IInv'
<1>1. TypeOK'
  <2>1. img' \in [Slots -> {"new", "pending", "valid", "invalid", "aborted"}]
    BY DEF IInv, TypeOK, Slots, Releases, Blank, FinishSteps, HealthSteps,
        SessionRecord, Confirm, nvs, Fault, Rollback, Other, Off, Checked, NoSession
  <2>2. running' \in Slots \cup {0}
    BY DEF IInv, TypeOK, Slots, Releases, Blank, FinishSteps, HealthSteps,
        SessionRecord, Confirm, nvs, Fault, Rollback, Other, Off, Checked, NoSession
  <2>3. session' \in SessionRecord
    BY NoSessionType DEF IInv, TypeOK, Slots, Releases, Blank, SessionRecord, Confirm,
        nvs, Fault, Rollback, Other, Off, Checked
  <2>4. restart' \in BOOLEAN
    BY DEF IInv, TypeOK, Slots, Releases, Blank, FinishSteps, HealthSteps,
        SessionRecord, Confirm, nvs, Fault, Rollback, Other, Off, Checked, NoSession
  <2>5. step' \in {"idle"} \cup FinishSteps \cup HealthSteps
    BY DEF IInv, TypeOK, Slots, Releases, Blank, FinishSteps, HealthSteps,
        SessionRecord, Confirm, nvs, Fault, Rollback, Other, Off, Checked, NoSession
  <2>6. health' \in {"loop", "once", "done"}
    BY DEF IInv, TypeOK, Slots, Releases, Blank, FinishSteps, HealthSteps,
        SessionRecord, Confirm, nvs, Fault, Rollback, Other, Off, Checked, NoSession
  <2>7. confirmed' \in SUBSET (Releases \cup {0})
    <3>1. app[running] \in Releases \cup {0}
      BY DEF IInv, TypeOK, Running, Confirm
    <3> QED BY <3>1 DEF Confirm, IInv, TypeOK
  <2>8. faults' \in 0 .. MaxFaults
    BY OtaAssumption DEF IInv, TypeOK, Slots, Releases, Blank, FinishSteps, HealthSteps,
        SessionRecord, Confirm, nvs, Fault, Rollback, Other, Off, Checked, NoSession
  <2> QED
    BY <2>1, <2>2, <2>3, <2>4, <2>5, <2>6, <2>7, <2>8 DEF IInv, TypeOK, Confirm, nvs,
        Rollback
<1>2. Backed'
  BY DEF IInv, Backed, Slots, Blank, Other, OneConfirmed, Fresh, TypeOK, Releases,
      FinishSteps, HealthSteps, SessionRecord, Confirm, nvs, Fault, Rollback, Off,
      Checked, NoSession
<1>3. Running'
  BY DEF IInv, Running, Blank, NoSession, TypeOK, Slots, Releases, FinishSteps,
      HealthSteps, SessionRecord, Confirm, nvs, Fault, Rollback, Other, Off, Checked
<1>4. Selected'
  BY DEF IInv, TypeOK, Slots, Releases, Blank, FinishSteps, HealthSteps, SessionRecord,
      Steps, Trial, Fresh, Selected, Confirm, nvs, Fault, Rollback, Other, Off, Checked,
      NoSession
<1>5. Session'
  BY DEF IInv, Session, Releases, Other, FinishSteps, TypeOK, Slots, Blank, HealthSteps,
      SessionRecord, Confirm, nvs, Fault, Rollback, Off, Checked, NoSession
<1>6. Steps'
  BY DEF IInv, TypeOK, Slots, Releases, Blank, FinishSteps, HealthSteps, SessionRecord,
      Selected, Trial, Fresh, Waiting, Other, Steps, Confirm, nvs, Fault, Rollback, Off,
      Checked, NoSession
<1>7. Timely'
  BY DEF IInv, Timely, FinishSteps, TrialNamed, TypeOK, Slots, Releases, Blank,
      HealthSteps, SessionRecord, Confirm, nvs, Fault, Rollback, Other, Off, Checked,
      NoSession
<1>8. Trial'
  BY DEF IInv, Trial, Fresh, TypeOK, Slots, Releases, Blank, FinishSteps, HealthSteps,
      SessionRecord, Confirm, nvs, Fault, Rollback, Other, Off, Checked, NoSession
<1>9. Waiting'
  BY DEF IInv, TypeOK, Slots, Releases, Blank, FinishSteps, HealthSteps, SessionRecord,
      Steps, Trial, Fresh, Waiting, Other, Confirm, nvs, Fault, Rollback, Off, Checked,
      NoSession
<1>10. Counted'
  <2>1. /\ running = boot /\ running \in Slots /\ img[running] = "pending"
        /\ paddr = running /\ pending > accepted /\ pending \in {0, app[boot]}
    BY DEF IInv, Confirm, Steps, Backed, Fresh, Trial, TypeOK
  <2>2. UNCHANGED <<boot, accepted, pending, paddr, overwrote>>
    BY DEF Confirm, nvs
  <2>3. AcceptedRan' /\ 0 \in confirmed'
    BY <2>2 DEF IInv, Counted, AcceptedRan, Confirm
  <2>4. overwrote \/ \A r \in confirmed : r <= accepted
    BY <2>1 DEF IInv, Counted
  <2>5. CASE img' = [img EXCEPT ![running] = "valid"] /\ confirmed' = confirmed \cup {app[running]}
    <3>1. img'[boot] = "valid"
      BY <2>1, <2>5 DEF IInv, TypeOK
    <3>2. pending = app[running]
      BY <2>1 DEF IInv, TypeOK, Releases
    <3> QED BY <2>1, <2>2, <2>3, <2>4, <2>5, <3>1, <3>2 DEF Counted
  <2>6. CASE confirmed' = confirmed
    BY <2>2, <2>3, <2>4, <2>6 DEF Counted
  <2> QED BY <2>5, <2>6 DEF Confirm
<1> QED BY <1>1, <1>2, <1>3, <1>4, <1>5, <1>6, <1>7, <1>8, <1>9, <1>10 DEF IInv

LEMMA PersistPreserves == ASSUME IInv, Persist PROVE IInv'
<1>1. TypeOK'
  <2>1. accepted' \in Releases \cup {0}
    BY DEF IInv, TypeOK, Slots, Releases, Blank, FinishSteps, HealthSteps,
        SessionRecord, Persist, chip, Higher, Fault
  <2>2. step' \in {"idle"} \cup FinishSteps \cup HealthSteps
    BY DEF IInv, TypeOK, Slots, Releases, Blank, FinishSteps, HealthSteps,
        SessionRecord, Persist, chip, Higher, Fault
  <2>3. faults' \in 0 .. MaxFaults
    BY OtaAssumption DEF IInv, TypeOK, Slots, Releases, Blank, FinishSteps, HealthSteps,
        SessionRecord, Persist, chip, Higher, Fault
  <2> QED
    BY <2>1, <2>2, <2>3 DEF IInv, TypeOK, Persist, chip
<1>2. Backed' /\ Selected' /\ Trial' /\ Waiting'
  BY DEF IInv, Backed, Slots, Blank, Other, OneConfirmed, Fresh, Selected, Trial,
      Waiting, Persist, chip, Higher, Fault
<1>3. Running'
  BY DEF IInv, Running, Blank, NoSession, Persist, chip, Higher, Fault
<1>4. Session'
  BY DEF IInv, Session, Releases, Other, FinishSteps, Persist, chip, Higher, Fault
<1>5. Steps'
  BY DEF IInv, TypeOK, Slots, Releases, Blank, FinishSteps, HealthSteps, SessionRecord,
      Counted, AcceptedRan, Steps, Persist, chip, Higher, Fault
<1>6. Timely'
  BY DEF IInv, Timely, FinishSteps, TrialNamed, TypeOK, Slots, Releases, Blank,
      HealthSteps, SessionRecord, Persist, chip, Higher, Fault
<1>7. Counted'
  BY DEF IInv, TypeOK, Slots, Releases, Blank, FinishSteps, HealthSteps, SessionRecord,
      Steps, Counted, AcceptedRan, Persist, chip, Higher, Fault
<1> QED BY <1>1, <1>2, <1>3, <1>4, <1>5, <1>6, <1>7 DEF IInv

LEMMA ClearPreserves == ASSUME IInv, Clear PROVE IInv'
<1>1. TypeOK'
  <2>1. pending' \in Releases \cup {0}
    BY DEF IInv, TypeOK, Slots, Releases, Blank, FinishSteps, HealthSteps,
        SessionRecord, Clear, chip, Fault, Checked
  <2>2. paddr' \in Slots \cup {0}
    BY DEF IInv, TypeOK, Slots, Releases, Blank, FinishSteps, HealthSteps,
        SessionRecord, Clear, chip, Fault, Checked
  <2>3. step' \in {"idle"} \cup FinishSteps \cup HealthSteps
    BY DEF IInv, TypeOK, Slots, Releases, Blank, FinishSteps, HealthSteps,
        SessionRecord, Clear, chip, Fault, Checked
  <2>4. health' \in {"loop", "once", "done"}
    BY DEF IInv, TypeOK, Slots, Releases, Blank, FinishSteps, HealthSteps,
        SessionRecord, Clear, chip, Fault, Checked
  <2>5. overwrote' \in BOOLEAN
    BY DEF IInv, TypeOK, Slots, Releases, Blank, FinishSteps, HealthSteps,
        SessionRecord, Clear, chip, Fault, Checked
  <2>6. faults' \in 0 .. MaxFaults
    BY OtaAssumption DEF IInv, TypeOK, Slots, Releases, Blank, FinishSteps, HealthSteps,
        SessionRecord, Clear, chip, Fault, Checked
  <2> QED
    BY <2>1, <2>2, <2>3, <2>4, <2>5, <2>6 DEF IInv, TypeOK, Clear, chip
<1>2. Backed' /\ Selected'
  BY DEF IInv, Backed, Slots, Blank, Other, OneConfirmed, Fresh, Selected, Clear, chip,
      Fault, Checked
<1>3. Running'
  BY DEF IInv, Running, Blank, NoSession, Clear, chip, Fault, Checked
<1>4. Session'
  BY DEF IInv, Session, Releases, Other, FinishSteps, Clear, chip, Fault, Checked
<1>5. Steps'
  BY DEF IInv, Steps, Clear, chip, Fault, Checked
<1>6. Timely'
  BY DEF IInv, Timely, FinishSteps, TrialNamed, TypeOK, Slots, Releases, Blank,
      HealthSteps, SessionRecord, Clear, chip, Fault, Checked
<1>7. Trial'
  BY DEF IInv, Trial, Fresh, Clear, chip, Fault, Checked
<1>8. Waiting'
  BY DEF IInv, Waiting, Other, Clear, chip, Fault, Checked
<1>9. Counted'
  BY DEF IInv, Steps, Counted, AcceptedRan, Clear, chip, Fault, Checked
<1> QED BY <1>1, <1>2, <1>3, <1>4, <1>5, <1>6, <1>7, <1>8, <1>9 DEF IInv

LEMMA DeadlinePreserves == ASSUME IInv, Deadline PROVE IInv'
<1>1. TypeOK'
  <2>1. late' \in BOOLEAN
    BY DEF IInv, TypeOK, Slots, Releases, Blank, FinishSteps, HealthSteps,
        SessionRecord, Deadline, chip, nvs, spent
  <2> QED
    BY <2>1 DEF IInv, TypeOK, Deadline, chip, nvs, spent
<1>2. Backed' /\ Running' /\ Selected' /\ Session' /\ Steps' /\ Timely' /\ Trial' /\
    Waiting' /\ Counted'
  BY DEF IInv, Backed, Slots, Blank, Other, OneConfirmed, Fresh, Running, NoSession,
      Selected, Session, Releases, FinishSteps, Steps, Timely, TrialNamed, Trial,
      Waiting, Counted, AcceptedRan, Deadline, chip, nvs, spent
<1> QED BY <1>1, <1>2 DEF IInv

LEMMA RebootPreserves == ASSUME IInv, Reboot PROVE IInv'
<1>1. TypeOK'
  <2>1. running' \in Slots \cup {0}
    BY DEF IInv, TypeOK, Slots, Releases, Blank, FinishSteps, HealthSteps,
        SessionRecord, Reboot, chip, nvs, task, spent, Free, Off, NoSession
  <2>2. session' \in SessionRecord
    BY NoSessionType DEF IInv, TypeOK, Slots, Releases, Blank, SessionRecord, Reboot,
        chip, nvs, task, spent, Free, Off
  <2>3. restart' \in BOOLEAN
    BY DEF IInv, TypeOK, Slots, Releases, Blank, FinishSteps, HealthSteps,
        SessionRecord, Reboot, chip, nvs, task, spent, Free, Off, NoSession
  <2>4. step' \in {"idle"} \cup FinishSteps \cup HealthSteps
    BY DEF IInv, TypeOK, Slots, Releases, Blank, FinishSteps, HealthSteps,
        SessionRecord, Reboot, chip, nvs, task, spent, Free, Off, NoSession
  <2> QED
    BY <2>1, <2>2, <2>3, <2>4 DEF IInv, TypeOK, Reboot, chip, nvs, task, spent
<1>2. Backed' /\ Trial' /\ Waiting' /\ Counted'
  BY DEF IInv, Backed, Slots, Blank, Other, OneConfirmed, Fresh, Trial, Waiting,
      Counted, AcceptedRan, Reboot, chip, nvs, task, spent, Free, Off, NoSession
<1>3. Running'
  BY DEF IInv, Running, Blank, NoSession, Reboot, chip, nvs, task, spent, Free, Off
<1>4. Selected'
  BY DEF IInv, Selected, Blank, Reboot, chip, nvs, task, spent, Free, Off, NoSession
<1>5. Session'
  BY DEF IInv, Session, Releases, Other, FinishSteps, Reboot, chip, nvs, task, spent,
      Free, Off, NoSession
<1>6. Steps'
  BY DEF IInv, Steps, Reboot, chip, nvs, task, spent, Free, Off, NoSession
<1>7. Timely'
  BY DEF IInv, Timely, FinishSteps, TrialNamed, Reboot, chip, nvs, task, spent, Free,
      Off, NoSession
<1> QED BY <1>1, <1>2, <1>3, <1>4, <1>5, <1>6, <1>7 DEF IInv

LEMMA CutPowerPreserves == ASSUME IInv, CutPower PROVE IInv'
<1>1. TypeOK'
  <2>1. running' \in Slots \cup {0}
    BY DEF IInv, TypeOK, Slots, Releases, Blank, FinishSteps, HealthSteps,
        SessionRecord, CutPower, chip, nvs, task, Off, NoSession
  <2>2. session' \in SessionRecord
    BY NoSessionType DEF IInv, TypeOK, Slots, Releases, Blank, SessionRecord, CutPower,
        chip, nvs, task, Off
  <2>3. restart' \in BOOLEAN
    BY DEF IInv, TypeOK, Slots, Releases, Blank, FinishSteps, HealthSteps,
        SessionRecord, CutPower, chip, nvs, task, Off, NoSession
  <2>4. step' \in {"idle"} \cup FinishSteps \cup HealthSteps
    BY DEF IInv, TypeOK, Slots, Releases, Blank, FinishSteps, HealthSteps,
        SessionRecord, CutPower, chip, nvs, task, Off, NoSession
  <2>5. cuts' \in 0 .. MaxCuts
    BY OtaAssumption DEF IInv, TypeOK, Slots, Releases, Blank, FinishSteps, HealthSteps,
        SessionRecord, CutPower, chip, nvs, task, Off, NoSession
  <2> QED
    BY <2>1, <2>2, <2>3, <2>4, <2>5 DEF IInv, TypeOK, CutPower, chip, nvs, task
<1>2. Backed' /\ Trial' /\ Waiting' /\ Counted'
  BY DEF IInv, Backed, Slots, Blank, Other, OneConfirmed, Fresh, Trial, Waiting,
      Counted, AcceptedRan, CutPower, chip, nvs, task, Off, NoSession
<1>3. Running'
  BY DEF IInv, Running, Blank, NoSession, CutPower, chip, nvs, task, Off
<1>4. Selected'
  BY DEF IInv, Selected, Blank, CutPower, chip, nvs, task, Off, NoSession
<1>5. Session'
  BY DEF IInv, Session, Releases, Other, FinishSteps, CutPower, chip, nvs, task, Off,
      NoSession
<1>6. Steps'
  BY DEF IInv, Steps, CutPower, chip, nvs, task, Off, NoSession
<1>7. Timely'
  BY DEF IInv, Timely, FinishSteps, TrialNamed, TypeOK, Slots, Releases, Blank,
      HealthSteps, SessionRecord, CutPower, chip, nvs, task, Off, NoSession
<1> QED BY <1>1, <1>2, <1>3, <1>4, <1>5, <1>6, <1>7 DEF IInv

LEMMA BootPreserves == ASSUME IInv, Boot PROVE IInv'
<1>0. \E slot \in Slots :
        /\ running' = slot /\ img[slot] \in {"new", "valid"} /\ app[slot] # Blank
        /\ slot = boot \/ (slot = Other(boot) /\ ~(img[boot] \in {"new", "valid"} /\ app[boot] # Blank))
        /\ \A s \in Slots : img'[s] = IF img[s] = "pending" THEN "aborted"
                                      ELSE IF s = slot /\ img[s] = "new" THEN "pending" ELSE img[s]
  <2> DEFINE tried == [s \in Slots |-> IF img[s] = "pending" THEN "aborted" ELSE img[s]]
             slot == IF Startable(tried, boot) THEN boot ELSE Other(boot)
  <2>1. /\ Startable(tried, slot) /\ running' = slot
        /\ img' = [tried EXCEPT ![slot] = IF @ = "new" THEN "pending" ELSE @]
    BY DEF Boot
  <2>2. boot \in Slots /\ slot \in Slots
    BY DEF IInv, TypeOK, Other, Slots
  <2>3. \A s \in Slots : tried[s] = IF img[s] = "pending" THEN "aborted" ELSE img[s]
    OBVIOUS
  <2>4. \A s \in Slots : Startable(tried, s) <=> img[s] \in {"new", "valid"} /\ app[s] # Blank
    BY <2>3 DEF Startable
  <2>5. \A s \in Slots : img'[s] = IF s = slot /\ tried[s] = "new" THEN "pending" ELSE tried[s]
    BY <2>1, <2>2
  <2>6. slot = boot \/ (slot = Other(boot) /\ ~Startable(tried, boot))
    OBVIOUS
  <2> HIDE DEF tried, slot
  <2>7. \A s \in Slots : img'[s] = IF img[s] = "pending" THEN "aborted"
                                   ELSE IF s = slot /\ img[s] = "new" THEN "pending" ELSE img[s]
    BY <2>3, <2>5
  <2> QED BY <2>1, <2>2, <2>4, <2>6, <2>7
<1>a. UNCHANGED <<app, boot, pending, paddr, accepted, session, restart, step, confirmed, faults>>
      /\ running = 0 /\ boot \in Slots
  BY DEF Boot, nvs, spent, IInv, TypeOK
<1>1. TypeOK'
  <2>1. img' \in [Slots -> {"new", "pending", "valid", "invalid", "aborted"}]
    BY DEF IInv, TypeOK, Slots, Releases, Blank, FinishSteps, HealthSteps,
        SessionRecord, Boot, Other, nvs, spent, Startable
  <2>2. running' \in Slots \cup {0}
    BY DEF IInv, TypeOK, Slots, Releases, Blank, FinishSteps, HealthSteps,
        SessionRecord, Boot, Other, nvs, spent, Startable
  <2>3. health' \in {"loop", "once", "done"}
    BY DEF IInv, TypeOK, Slots, Releases, Blank, FinishSteps, HealthSteps,
        SessionRecord, Boot, Other, nvs, spent, Startable
  <2>4. late' \in BOOLEAN
    BY DEF IInv, TypeOK, Slots, Releases, Blank, FinishSteps, HealthSteps,
        SessionRecord, Boot, Other, nvs, spent, Startable
  <2> QED
    BY <2>1, <2>2, <2>3, <2>4 DEF IInv, TypeOK, Boot, nvs, spent
<1>2. Backed'
  BY <1>0, <1>a DEF IInv, Backed, Slots, Other, OneConfirmed, Fresh
<1>3. Running'
  BY DEF IInv, TypeOK, Slots, Releases, Blank, FinishSteps, HealthSteps, SessionRecord,
      Backed, Other, OneConfirmed, Fresh, Running, NoSession, Boot, nvs, spent,
      Startable
<1>4. Selected'
  BY DEF IInv, Selected, Blank, TypeOK, Slots, Releases, FinishSteps, HealthSteps,
      SessionRecord, Boot, Other, nvs, spent, Startable
<1>5. Session'
  BY DEF IInv, Session, Releases, Other, FinishSteps, Boot, Slots, nvs, spent,
      Startable, Blank
<1>6. Steps'
  BY DEF IInv, Running, Blank, NoSession, Steps, Boot, Slots, Other, nvs, spent,
      Startable
<1>7. Timely'
  <2>1. session = NoSession /\ step = "idle"
    BY <1>a DEF IInv, Running
  <2>2. step' \notin FinishSteps /\ step' = "idle"
    BY <1>a, <2>1 DEF FinishSteps
  <2>3. ~(img'[boot] = "new" /\ running' # 0)
    BY <1>0, <1>a DEF IInv, Backed, Fresh
  <2>4. TrialNamed'
    BY <1>0, <1>a, <2>1 DEF IInv, Timely, TrialNamed, Slots, Other
  <2> QED BY <1>a, <2>2, <2>3, <2>4 DEF Timely
<1>8. Trial'
  BY DEF IInv, Trial, Fresh, TypeOK, Slots, Releases, Blank, FinishSteps, HealthSteps,
      SessionRecord, Boot, Other, nvs, spent, Startable
<1>9. Waiting'
  BY DEF IInv, Waiting, Other, TypeOK, Slots, Releases, Blank, FinishSteps, HealthSteps,
      SessionRecord, Boot, nvs, spent, Startable
<1>10. Counted'
  BY DEF IInv, Counted, AcceptedRan, TypeOK, Slots, Releases, Blank, FinishSteps,
      HealthSteps, SessionRecord, Boot, Other, nvs, spent, Startable
<1> QED BY <1>1, <1>2, <1>3, <1>4, <1>5, <1>6, <1>7, <1>8, <1>9, <1>10 DEF IInv

LEMMA HealthCheckPreserves == ASSUME IInv, NEW live \in BOOLEAN, HealthCheck(live) PROVE IInv'
<1>1. TypeOK'
  <2>1. img' \in [Slots -> {"new", "pending", "valid", "invalid", "aborted"}]
    BY DEF IInv, TypeOK, Slots, Releases, Blank, FinishSteps, HealthSteps,
        SessionRecord, HealthCheck, nvs, Free, Fault, Checked, Rollback, Decide, Other,
        Off, Named, NoSession
  <2>2. running' \in Slots \cup {0}
    BY DEF IInv, TypeOK, Slots, Releases, Blank, FinishSteps, HealthSteps,
        SessionRecord, HealthCheck, nvs, Free, Fault, Checked, Rollback, Decide, Other,
        Off, Named, NoSession
  <2>3. session' \in SessionRecord
    BY NoSessionType DEF IInv, TypeOK, Slots, Releases, Blank, SessionRecord,
        HealthCheck, nvs, Free, Fault, Checked, Rollback, Decide, Other, Off, Named
  <2>4. restart' \in BOOLEAN
    BY DEF IInv, TypeOK, Slots, Releases, Blank, FinishSteps, HealthSteps,
        SessionRecord, HealthCheck, nvs, Free, Fault, Checked, Rollback, Decide, Other,
        Off, Named, NoSession
  <2>5. step' \in {"idle"} \cup FinishSteps \cup HealthSteps
    BY DEF IInv, TypeOK, Slots, Releases, Blank, FinishSteps, HealthSteps,
        SessionRecord, HealthCheck, nvs, Free, Fault, Checked, Rollback, Decide, Other,
        Off, Named, NoSession
  <2>6. health' \in {"loop", "once", "done"}
    BY DEF IInv, TypeOK, Slots, Releases, Blank, FinishSteps, HealthSteps,
        SessionRecord, HealthCheck, nvs, Free, Fault, Checked, Rollback, Decide, Other,
        Off, Named, NoSession
  <2>7. faults' \in 0 .. MaxFaults
    BY OtaAssumption DEF IInv, TypeOK, Slots, Releases, Blank, FinishSteps, HealthSteps,
        SessionRecord, HealthCheck, nvs, Free, Fault, Checked, Rollback, Decide, Other,
        Off, Named, NoSession
  <2> QED
    BY <2>1, <2>2, <2>3, <2>4, <2>5, <2>6, <2>7 DEF IInv, TypeOK, HealthCheck, nvs,
        Rollback, Decide
<1>2. Backed'
  BY DEF IInv, Backed, Slots, Blank, Other, OneConfirmed, Fresh, TypeOK, Releases,
      FinishSteps, HealthSteps, SessionRecord, HealthCheck, nvs, Free, Fault, Checked,
      Rollback, Decide, Off, Named, NoSession
<1>3. Running'
  BY DEF IInv, TypeOK, Slots, Releases, Blank, FinishSteps, HealthSteps, SessionRecord,
      Backed, Other, OneConfirmed, Fresh, Trial, Running, NoSession, HealthCheck, nvs,
      Free, Fault, Checked, Rollback, Decide, Off, Named
<1>4. Selected'
  BY DEF IInv, Selected, Blank, TypeOK, Slots, Releases, FinishSteps, HealthSteps,
      SessionRecord, HealthCheck, nvs, Free, Fault, Checked, Rollback, Decide, Other,
      Off, Named, NoSession
<1>5. Session'
  BY DEF IInv, Session, Releases, Other, FinishSteps, HealthCheck, nvs, Free, Fault,
      Checked, Rollback, Decide, Blank, Off, Named, NoSession
<1>6. Steps'
  BY DEF IInv, TypeOK, Slots, Releases, Blank, FinishSteps, HealthSteps, SessionRecord,
      Running, NoSession, Selected, Waiting, Other, Counted, AcceptedRan, Steps,
      HealthCheck, nvs, Free, Fault, Checked, Rollback, Decide, Off, Named
<1>7. Timely'
  BY DEF IInv, Timely, FinishSteps, TrialNamed, TypeOK, Slots, Releases, Blank,
      HealthSteps, SessionRecord, HealthCheck, nvs, Free, Fault, Checked, Rollback,
      Decide, Other, Off, Named, NoSession
<1>8. Trial'
  BY DEF IInv, Trial, Fresh, TypeOK, Slots, Releases, Blank, FinishSteps, HealthSteps,
      SessionRecord, HealthCheck, nvs, Free, Fault, Checked, Rollback, Decide, Other,
      Off, Named, NoSession
<1>9. Waiting'
  BY DEF IInv, Waiting, Other, TypeOK, Slots, Releases, Blank, FinishSteps, HealthSteps,
      SessionRecord, HealthCheck, nvs, Free, Fault, Checked, Rollback, Decide, Off,
      Named, NoSession
<1>10. Counted'
  BY DEF IInv, Counted, AcceptedRan, TypeOK, Slots, Releases, Blank, FinishSteps,
      HealthSteps, SessionRecord, HealthCheck, nvs, Free, Fault, Checked, Rollback,
      Decide, Other, Off, Named, NoSession
<1> QED BY <1>1, <1>2, <1>3, <1>4, <1>5, <1>6, <1>7, <1>8, <1>9, <1>10 DEF IInv

LEMMA BindPreserves == ASSUME IInv, NEW live \in BOOLEAN, Bind(live) PROVE IInv'
<1>1. TypeOK'
  <2>1. img' \in [Slots -> {"new", "pending", "valid", "invalid", "aborted"}]
    BY DEF IInv, TypeOK, Slots, Releases, Blank, FinishSteps, HealthSteps,
        SessionRecord, Bind, Fault, Rollback, Decide, Other, Off, Checked, Named,
        NoSession
  <2>2. paddr' \in Slots \cup {0}
    BY DEF IInv, TypeOK, Slots, Releases, Blank, FinishSteps, HealthSteps,
        SessionRecord, Bind, Fault, Rollback, Decide, Other, Off, Checked, Named,
        NoSession
  <2>3. running' \in Slots \cup {0}
    BY DEF IInv, TypeOK, Slots, Releases, Blank, FinishSteps, HealthSteps,
        SessionRecord, Bind, Fault, Rollback, Decide, Other, Off, Checked, Named,
        NoSession
  <2>4. session' \in SessionRecord
    BY NoSessionType DEF IInv, TypeOK, Slots, Releases, Blank, SessionRecord, Bind,
        Fault, Rollback, Decide, Other, Off, Checked, Named
  <2>5. restart' \in BOOLEAN
    BY DEF IInv, TypeOK, Slots, Releases, Blank, FinishSteps, HealthSteps,
        SessionRecord, Bind, Fault, Rollback, Decide, Other, Off, Checked, Named,
        NoSession
  <2>6. step' \in {"idle"} \cup FinishSteps \cup HealthSteps
    BY DEF IInv, TypeOK, Slots, Releases, Blank, FinishSteps, HealthSteps,
        SessionRecord, Bind, Fault, Rollback, Decide, Other, Off, Checked, Named,
        NoSession
  <2>7. health' \in {"loop", "once", "done"}
    BY DEF IInv, TypeOK, Slots, Releases, Blank, FinishSteps, HealthSteps,
        SessionRecord, Bind, Fault, Rollback, Decide, Other, Off, Checked, Named,
        NoSession
  <2>8. faults' \in 0 .. MaxFaults
    BY OtaAssumption DEF IInv, TypeOK, Slots, Releases, Blank, FinishSteps, HealthSteps,
        SessionRecord, Bind, Fault, Rollback, Decide, Other, Off, Checked, Named,
        NoSession
  <2> QED
    BY <2>1, <2>2, <2>3, <2>4, <2>5, <2>6, <2>7, <2>8 DEF IInv, TypeOK, Bind, Rollback,
        Decide
<1>2. Backed'
  BY DEF IInv, Backed, Slots, Blank, Other, OneConfirmed, Fresh, TypeOK, Releases,
      FinishSteps, HealthSteps, SessionRecord, Bind, Fault, Rollback, Decide, Off,
      Checked, Named, NoSession
<1>3. Running'
  BY DEF IInv, Running, Blank, NoSession, Bind, Fault, Rollback, Decide, Other, Off,
      Checked, Named
<1>4. Selected'
  BY DEF IInv, Selected, Blank, TypeOK, Slots, Releases, FinishSteps, HealthSteps,
      SessionRecord, Bind, Fault, Rollback, Decide, Other, Off, Checked, Named,
      NoSession
<1>5. Session'
  BY DEF IInv, Session, Releases, Other, FinishSteps, Bind, Fault, Rollback, Decide,
      Blank, Off, Checked, Named, NoSession
<1>6. Steps'
  BY DEF IInv, Steps, Bind, Fault, Rollback, Decide, Blank, Other, Off, Checked, Named,
      NoSession
<1>7. Timely'
  BY DEF IInv, Timely, FinishSteps, TrialNamed, TypeOK, Slots, Releases, Blank,
      HealthSteps, SessionRecord, Bind, Fault, Rollback, Decide, Other, Off, Checked,
      Named, NoSession
<1>8. Trial'
  BY DEF IInv, TypeOK, Slots, Releases, Blank, FinishSteps, HealthSteps, SessionRecord,
      Running, NoSession, Selected, Trial, Fresh, Bind, Fault, Rollback, Decide, Other,
      Off, Checked, Named
<1>9. Waiting'
  BY DEF IInv, TypeOK, Slots, Releases, Blank, FinishSteps, HealthSteps, SessionRecord,
      Backed, Other, OneConfirmed, Fresh, Steps, Waiting, Bind, Fault, Rollback, Decide,
      Off, Checked, Named, NoSession
<1>10. Counted'
  BY DEF IInv, Selected, Blank, Steps, Counted, AcceptedRan, Bind, Fault, Rollback,
      Decide, Other, Off, Checked, Named, NoSession
<1> QED BY <1>1, <1>2, <1>3, <1>4, <1>5, <1>6, <1>7, <1>8, <1>9, <1>10 DEF IInv

-----------------------------------------------------------------------------
(* The theorems.                                                           *)

LEMMA InitIInv == Init => IInv
<1> SUFFICES ASSUME Init PROVE IInv
  OBVIOUS
<1>1. TypeOK
  <2>1. MaxRelease >= 1 /\ MaxCuts \in Nat /\ MaxFaults \in Nat
    BY OtaAssumption
  <2>2. 1 \in Releases /\ 0 \in 0 .. MaxCuts /\ 0 \in 0 .. MaxFaults
    BY <2>1, OtaAssumption DEF Releases
  <2> QED
    BY ZenonT(60), <2>2, NoSessionType DEF Init, TypeOK, Slots, FinishSteps, HealthSteps
<1>2. Backed /\ Running /\ Selected /\ Session /\ Steps
  BY DEF Init, Backed, OneConfirmed, Fresh, Other, Running, Selected, Session, Steps, NoSession,
      Slots, Blank, FinishSteps
<1>3. Timely /\ Trial /\ Waiting /\ Counted
  BY DEF Init, Timely, TrialNamed, Trial, Fresh, Waiting, Counted, AcceptedRan, Other, Slots, FinishSteps
<1> QED BY <1>1, <1>2, <1>3 DEF IInv

LEMMA NextIInv == IInv /\ [Next]_vars => IInv'
<1> SUFFICES ASSUME IInv, [Next]_vars PROVE IInv'
  OBVIOUS
<1>1. CASE Upload
  BY <1>1, StartPreserves DEF Upload
<1>2. CASE Writes
  <2>1. ASSUME WritePending PROVE IInv'
    BY <2>1, StoreCounterPreserves, StoreAddressPreserves, UndoCounterPreserves, UndoAddressPreserves
      DEF WritePending, Store, Undo
  <2> QED
    BY <1>2, <2>1, SetBootPreserves, ConfirmPreserves, PersistPreserves, ClearPreserves DEF Writes
<1>3. CASE Check
  BY <1>3, HealthCheckPreserves, BindPreserves DEF Check
<1>4. CASE UNCHANGED vars
  BY <1>4 DEF vars, IInv, TypeOK, Backed, OneConfirmed, Fresh, Running, Selected, Session, Steps,
      Timely, TrialNamed, Trial, Waiting, Counted, AcceptedRan
<1> QED
  BY <1>1, <1>2, <1>3, <1>4, AppendPreserves, PrepareFinishPreserves, CancelFinishPreserves,
      GiveUpPreserves, FinishPreserves, DeadlinePreserves, RebootPreserves, CutPowerPreserves,
      BootPreserves DEF Next

LEMMA Invariance == Spec => []IInv
  BY InitIInv, NextIInv, PTL DEF Spec

\* Whatever is cut off or fails: the variables keep their types, there is an image
\* that starts, one that was selected is known when it starts, and only confirmed
\* releases count.
THEOREM UpdateIsTrue == Spec => []UpdateTrue
<1>1. IInv => UpdateTrue
  BY DEF IInv, Backed, Timely, Counted, UpdateTrue
<1> QED BY <1>1, Invariance, PTL

\* Only a health check confirms an image, and only the one that the numbers name.
LEMMA OnlyConfirm == ASSUME IInv, Next, NEW s \in Slots, img[s] = "pending", img'[s] = "valid"
                     PROVE Confirm /\ s = running /\ UNCHANGED <<app, pending, accepted>>
  BY DEF IInv, TypeOK, Next, Upload, Start, Append, PrepareFinish, CancelFinish, GiveUp, Finish,
      Writes, WritePending, SetBoot, Confirm, Persist, Clear, Check, HealthCheck, Bind, Decide,
      Rollback, Deadline, Reboot, CutPower, Boot, chip, nvs, spent, task

\* An image is confirmed only if it is the one that the numbers name, and newer
\* than every release that was confirmed before it, unless an upload has replaced
\* or erased the numbers of one of those.
THEOREM ConfirmedIsOnTrial == Spec => ConfirmedOnTrial
<1>1. ASSUME IInv, [Next]_vars PROVE [ConfirmsTrial]_vars
  <2> SUFFICES ASSUME Next, NEW s \in Slots, img[s] = "pending", img'[s] = "valid"
               PROVE app[s] = pending /\ (overwrote \/ \A r \in confirmed : app[s] > r)
    BY <1>1 DEF ConfirmsTrial
  <2>1. Confirm /\ s = running
    BY <1>1, OnlyConfirm
  <2>2. pending > accepted /\ boot = s /\ pending \in {0, app[s]}
    BY <1>1, <2>1 DEF IInv, Confirm, Steps, Backed, Trial, Fresh
  <2>3. app[s] = pending
    BY <1>1, <2>2 DEF IInv, TypeOK, Releases
  <2>4. overwrote \/ \A r \in confirmed : r <= accepted
    BY <1>1, <2>2 DEF IInv, Counted
  <2>5. \A r \in confirmed : r <= accepted => pending > r
    BY <1>1, <2>2 DEF IInv, TypeOK, Releases
  <2> QED BY <2>3, <2>4, <2>5
<1> QED BY <1>1, Invariance, PTL DEF Spec, ConfirmedOnTrial

-----------------------------------------------------------------------------
(* The queues of the push worker, of which PushQueueProofs shows the       *)
(* inductive invariant, in the behaviours of MCDrains.                     *)

\* Each component keeps to its own part of the state.
LEMMA PushSteps ==
    ASSUME [AllNext]_allvars
    PROVE  which' = which /\ (which = "push" => [P!Next]_(P!vars))
  BY DEF AllNext, UpdateNext, PNext, RNext, CNext, TNext, ONext, HNext, KNext, WNext, LNext,
         SNext, JNext, allvars, P!vars

\* For any items, channels, sizes of the queues and numbers of retries,
\* process_forward_one never takes the branch for legs that fit but find no
\* completion record: no cancelled or finished fan-out leaks one.
THEOREM RecordsSufficeHolds == AllSpec => []RecordsSuffice
<1> DEFINE Inv == which = "push" => P!IndInv
<1>1. AllInit => Inv
  BY QueuesAssumption, P!IndInit DEF AllInit
<1>2. Inv /\ [AllNext]_allvars => Inv'
  BY QueuesAssumption, PushSteps, P!IndNext
<1>3. Inv => RecordsSuffice
  BY QueuesAssumption, P!RecordLeft DEF RecordsSuffice
<1> QED BY <1>1, <1>2, <1>3, PTL DEF AllSpec
=============================================================================
