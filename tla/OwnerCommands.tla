---------------------------- MODULE OwnerCommands ----------------------------
(***************************************************************************)
(* How tasks hand AT commands to the single task that owns the modem UART  *)
(* (components/idf_modem/idf_modem.cpp).  A caller copies its request into *)
(* a free slot, queues the slot's number and waits for the slot's          *)
(* semaphore until its deadline; the owner pops the number, executes the   *)
(* command without the lock and publishes the answer.  A caller that gives *)
(* up marks the slot, and the owner reclaims it later.                     *)
(*                                                                         *)
(* One action is one hold of s_command_mutex or one unlocked access to     *)
(* shared state.  A deadline may pass at any step that waits, and a        *)
(* bounded wait for the mutex may fail at any time, because another task   *)
(* may hold it.  Ordinary commands run under s_session_mutex, which an     *)
(* eSIM operation keeps over all of its commands; AT+CNMA, sent by the SMS *)
(* task alone, takes the priority queue and no session.                    *)
(***************************************************************************)
EXTENDS Integers, FiniteSets, Sequences

CONSTANTS
    Tasks,       \* the tasks that submit commands
    SmsTask,     \* idf_sms's sms_task, the only one that sends AT+CNMA
    EsimTasks,   \* tasks that run eSIM operations
    None,        \* nobody, nothing
    SlotCount,   \* OWNER_COMMAND_SLOTS
    MaxCalls,    \* bound: ordinary commands submitted
    MaxAcks,     \* bound: AT+CNMA commands submitted
    MaxResets,   \* bound: resets requested
    MaxOps       \* bound: eSIM operations begun

Slots   == 1 .. SlotCount
Command == [by : Tasks, priority : BOOLEAN, id : Nat]

ASSUME TaskAssumption ==
    /\ SmsTask \in Tasks
    /\ EsimTasks \subseteq Tasks \ {SmsTask}
    /\ None \notin Tasks \cup Slots \cup Command

ASSUME BoundAssumption ==
    /\ SlotCount \in Nat \ {0}
    /\ MaxCalls \in Nat
    /\ MaxAcks \in Nat
    /\ MaxResets \in Nat
    /\ MaxOps \in Nat

VARIABLES
    \* a slot of s_command_slots
    state,     \* OwnerCommandSlot.state
    gone,      \* caller_abandoned
    signal,    \* the binary semaphore completed
    cmd,       \* request: whose command the slot holds
    result,    \* result, response
    \* the queues, the mutexes and the gate
    urgentQ,   \* s_priority_command_queue
    commonQ,   \* s_command_queue
    session,   \* who holds s_session_mutex
    ready,     \* s_runtime_queue_ready
    resetReq,  \* s_reset_request
    reinit,    \* s_reinit_pending
    \* a caller in submit_owner_command
    at,        \* where it is
    mine,      \* its command, or its last one
    ticket,    \* slot_index
    woken,     \* completed == pdTRUE
    got,       \* the command whose answer it was last given
    sms,       \* where sms_task is: in its loop, sending, after a failure
    esim,      \* how far the task's eSIM operation is
    \* the owner
    ownerAt,   \* where the owner's loop is
    work,      \* what it is doing with a slot
    workSlot,  \* slot_index in owner_process_one_command
    urgent,    \* its parameter priority
    \* the bounds
    calls, acks, resets, ops

slotVars  == <<state, gone, signal, cmd, result>>
gateVars  == <<ready, resetReq, reinit>>
taskVars  == <<at, mine, ticket, woken, got, sms>>
ownerVars == <<ownerAt, work, workSlot, urgent>>
bounds    == <<calls, acks, resets, ops>>
vars == <<slotVars, urgentQ, commonQ, session, gateVars, taskVars, esim,
          ownerVars, bounds>>

TypeOK ==
    /\ state \in [Slots -> {"free", "queued", "running", "done", "abandoned"}]
    /\ gone \in [Slots -> BOOLEAN]
    /\ signal \in [Slots -> BOOLEAN]
    /\ cmd \in [Slots -> Command \cup {None}]
    /\ result \in [Slots -> {"none", "answered", "refused"}]
    /\ urgentQ \in Seq(Slots)
    /\ commonQ \in Seq(Slots)
    /\ session \in Tasks \cup {None}
    /\ ready \in BOOLEAN /\ resetReq \in BOOLEAN /\ reinit \in BOOLEAN
    /\ at \in [Tasks -> {"idle", "session", "enqueue", "wait", "leave"}]
    /\ mine \in [Tasks -> Command \cup {None}]
    /\ ticket \in [Tasks -> Slots \cup {None}]
    /\ woken \in [Tasks -> BOOLEAN]
    /\ got \in [Tasks -> Command \cup {None}]
    /\ sms \in {"loop", "sending", "failed"}
    /\ esim \in [Tasks -> {"none", "begun", "open", "working", "cut"}]
    /\ ownerAt \in {"urgent", "common", "house", "reset"}
    /\ work \in {"none", "popped", "running", "signal"}
    /\ workSlot \in Slots
    /\ urgent \in BOOLEAN
    /\ calls \in Nat /\ acks \in Nat /\ resets \in Nat /\ ops \in Nat

Init ==
    /\ state = [s \in Slots |-> "free"]
    /\ gone = [s \in Slots |-> FALSE]
    /\ signal = [s \in Slots |-> FALSE]
    /\ cmd = [s \in Slots |-> None]
    /\ result = [s \in Slots |-> "none"]
    /\ urgentQ = <<>> /\ commonQ = <<>>
    /\ session = None
    /\ ready = TRUE /\ resetReq = FALSE /\ reinit = FALSE
    /\ at = [t \in Tasks |-> "idle"]
    /\ mine = [t \in Tasks |-> None]
    /\ ticket = [t \in Tasks |-> None]
    /\ woken = [t \in Tasks |-> FALSE]
    /\ got = [t \in Tasks |-> None]
    /\ sms = "loop"
    /\ esim = [t \in Tasks |-> "none"]
    /\ ownerAt = "urgent" /\ work = "none" /\ workSlot = 1 /\ urgent = FALSE
    /\ calls = 0 /\ acks = 0 /\ resets = 0 /\ ops = 0

-----------------------------------------------------------------------------
(* Helpers. *)

\* s_esim_operation_depth != 0
EsimActive == \E t \in Tasks : esim[t] # "none"

\* The session mutex is recursive: an eSIM operation keeps it after a call.
KeepsSession(t) == esim[t] \in {"open", "working", "cut"}

\* idf_modem_owner_command_allowed
Allowed(p) == p \/ (ready /\ ~resetReq)

\* Mutant of ResetSlot: the state gets the default of another field.
ResetSlotWrong(s) ==
    /\ state' = [state EXCEPT ![s] = "none"]
    /\ gone' = [gone EXCEPT ![s] = FALSE]
    /\ cmd' = [cmd EXCEPT ![s] = None]
    /\ result' = [result EXCEPT ![s] = "none"]

\* reset_owner_slot
ResetSlot(s) ==
    /\ state' = [state EXCEPT ![s] = "free"]
    /\ gone' = [gone EXCEPT ![s] = FALSE]
    /\ cmd' = [cmd EXCEPT ![s] = None]
    /\ result' = [result EXCEPT ![s] = "none"]

\* What an eSIM operation or sms_task makes of a call's outcome: a channel that
\* has carried a command is cut off when the next one is turned away; a send
\* goes on, ends, or asks for a reset (an ERROR to AT+CMGF counts as answered).
EsimAfter(t, outcome) ==
    CASE esim[t] \in {"open", "working"} /\ outcome = "answered" -> "working"
      [] esim[t] = "working" /\ outcome \in {"gated", "refused"} -> "cut"
      [] OTHER -> esim[t]

SmsAfter(t, outcome) ==
    IF t # SmsTask \/ sms # "sending" THEN {sms}
    ELSE {"loop", "failed"} \cup (IF outcome = "answered" THEN {"sending"} ELSE {})

\* submit_owner_command returns.
Return(t, outcome) ==
    /\ at' = [at EXCEPT ![t] = "idle"]
    /\ ticket' = [ticket EXCEPT ![t] = None]
    /\ woken' = [woken EXCEPT ![t] = FALSE]
    /\ session' = IF session = t /\ ~KeepsSession(t) THEN None ELSE session
    /\ esim' = [esim EXCEPT ![t] = EsimAfter(t, outcome)]
    /\ sms' \in SmsAfter(t, outcome)
    /\ UNCHANGED mine

-----------------------------------------------------------------------------
(* A caller: submit_owner_command. *)

\* An ordinary command passes the gate and goes for the session.
CallCommon(t) ==
    /\ at[t] = "idle" /\ calls < MaxCalls
    /\ esim[t] # "begun"
    /\ t = SmsTask => sms = "sending"
    /\ ready
    /\ at' = [at EXCEPT ![t] = "session"]
    /\ mine' = [mine EXCEPT ![t] =
           [by |-> t, priority |-> FALSE, id |-> calls + acks]]
    /\ got' = [got EXCEPT ![t] = None]
    /\ calls' = calls + 1
    /\ UNCHANGED <<slotVars, urgentQ, commonQ, session, gateVars, ticket, woken,
                   sms, esim, ownerVars, acks, resets, ops>>

\* The gate is closed: IDF_MODEM_ERR_BUSY at once.
CallGated(t) ==
    /\ at[t] = "idle"
    /\ esim[t] # "begun"
    /\ t = SmsTask => sms = "sending"
    /\ ~ready
    /\ Return(t, "gated")
    /\ UNCHANGED <<slotVars, urgentQ, commonQ, gateVars, got, ownerVars, bounds>>

\* AT+CNMA needs neither the gate nor the session.
CallUrgent(t) ==
    /\ t = SmsTask /\ sms = "loop"
    /\ at[t] = "idle" /\ acks < MaxAcks
    /\ at' = [at EXCEPT ![t] = "enqueue"]
    /\ mine' = [mine EXCEPT ![t] =
           [by |-> t, priority |-> TRUE, id |-> calls + acks]]
    /\ got' = [got EXCEPT ![t] = None]
    /\ acks' = acks + 1
    /\ UNCHANGED <<slotVars, urgentQ, commonQ, session, gateVars, ticket, woken,
                   sms, esim, ownerVars, calls, resets, ops>>

\* Mutant of TakeSession: an ordinary command does without the session.
NoSession(t) ==
    /\ at[t] = "session"
    /\ at' = [at EXCEPT ![t] = "enqueue"]
    /\ UNCHANGED <<slotVars, urgentQ, commonQ, session, gateVars, mine, ticket, woken,
                   got, sms, esim, ownerVars, bounds>>

TakeSession(t) ==
    /\ at[t] = "session" /\ session \in {None, t}
    /\ session' = t
    /\ at' = [at EXCEPT ![t] = "enqueue"]
    /\ UNCHANGED <<slotVars, urgentQ, commonQ, gateVars, mine, ticket, woken, got,
                   sms, esim, ownerVars, bounds>>

\* The deadline passes before the session is had, or before the slot is; or
\* the bounded wait for s_command_mutex fails.
GiveUpEarly(t) ==
    /\ at[t] \in {"session", "enqueue"}
    /\ at[t] = "session" => session \notin {None, t}
    /\ Return(t, "timeout")
    /\ UNCHANGED <<slotVars, urgentQ, commonQ, gateVars, got, ownerVars, bounds>>

FreeSlots    == {s \in Slots : state[s] = "free"}
FirstFree(s) == s \in FreeSlots /\ \A r \in FreeSlots : s <= r
HasRoom(q)   == Len(q) < SlotCount
QueueOf(c)   == IF c.priority THEN urgentQ ELSE commonQ

SlotsFull(t) ==
    /\ at[t] = "enqueue" /\ FreeSlots = {}
    /\ Return(t, "busy")
    /\ UNCHANGED <<slotVars, urgentQ, commonQ, gateVars, got, ownerVars, bounds>>

Occupy(t, s) ==
    /\ state' = [state EXCEPT ![s] = "queued"]
    /\ gone' = [gone EXCEPT ![s] = FALSE]
    /\ cmd' = [cmd EXCEPT ![s] = mine[t]]
    /\ result' = [result EXCEPT ![s] = "none"]
    /\ IF mine[t].priority
         THEN urgentQ' = Append(urgentQ, s) /\ UNCHANGED commonQ
         ELSE commonQ' = Append(commonQ, s) /\ UNCHANGED urgentQ
    /\ at' = [at EXCEPT ![t] = "wait"]
    /\ ticket' = [ticket EXCEPT ![t] = s]
    /\ UNCHANGED <<mine, woken, session, sms, esim>>

\* The slot is filled in under the mutex; the queue has no room for it only
\* if some entries are stale, and the slot is then given back.
Enqueue(t) ==
    /\ at[t] = "enqueue"
    /\ \E s \in Slots :
          /\ FirstFree(s)
          /\ signal' = [signal EXCEPT ![s] = FALSE]
          /\ IF HasRoom(QueueOf(mine[t])) THEN Occupy(t, s)
             ELSE /\ ResetSlot(s)
                  /\ Return(t, "busy")
                  /\ UNCHANGED <<urgentQ, commonQ>>
    /\ UNCHANGED <<gateVars, got, ownerVars, bounds>>

Wake(t) ==
    /\ at[t] = "wait" /\ signal[ticket[t]]
    /\ signal' = [signal EXCEPT ![ticket[t]] = FALSE]
    /\ woken' = [woken EXCEPT ![t] = TRUE]
    /\ at' = [at EXCEPT ![t] = "leave"]
    /\ UNCHANGED <<state, gone, cmd, result, urgentQ, commonQ, session, gateVars,
                   mine, ticket, got, sms, esim, ownerVars, bounds>>

\* The wait times out: the abandonment is published before the mutex is had.
Expire(t) ==
    /\ at[t] = "wait" /\ ~signal[ticket[t]]
    /\ gone' = [gone EXCEPT ![ticket[t]] = TRUE]
    /\ at' = [at EXCEPT ![t] = "leave"]
    /\ UNCHANGED <<state, signal, cmd, result, urgentQ, commonQ, session, gateVars,
                   mine, ticket, woken, got, sms, esim, ownerVars, bounds>>

\* The mutex is had, and the slot is done: its answer is the caller's.
LeaveDone(t) ==
    LET s == ticket[t] IN
    /\ at[t] = "leave" /\ state[s] = "done"
    /\ got' = [got EXCEPT ![t] = cmd[s]]
    /\ ResetSlot(s)
    /\ signal' = IF woken[t] THEN signal ELSE [signal EXCEPT ![s] = FALSE]
    /\ Return(t, result[s])
    /\ UNCHANGED <<urgentQ, commonQ, gateVars, ownerVars, bounds>>

\* The mutex is had, and the slot is not done: it is left to the owner.
LeaveUndone(t) ==
    LET s == ticket[t] IN
    /\ at[t] = "leave" /\ state[s] # "done"
    /\ state' = IF state[s] \in {"queued", "running"}
                  THEN [state EXCEPT ![s] = "abandoned"] ELSE state
    /\ gone' = IF state[s] = "free" THEN [gone EXCEPT ![s] = FALSE] ELSE gone
    /\ Return(t, "timeout")
    /\ UNCHANGED <<signal, cmd, result, urgentQ, commonQ, gateVars, got, ownerVars,
                   bounds>>

\* The mutex is not had in time.
LeaveUnlocked(t) ==
    /\ at[t] = "leave"
    /\ gone' = [gone EXCEPT ![ticket[t]] = TRUE]
    /\ Return(t, "timeout")
    /\ UNCHANGED <<state, signal, cmd, result, urgentQ, commonQ, gateVars, got,
                   ownerVars, bounds>>

-----------------------------------------------------------------------------
(* eSIM operations, sms_task and resets. *)

\* idf_modem_begin_esim_operation counts the operation, then waits.
EsimBegin(t) ==
    /\ t \in EsimTasks /\ at[t] = "idle" /\ esim[t] = "none" /\ ops < MaxOps
    /\ esim' = [esim EXCEPT ![t] = "begun"]
    /\ ops' = ops + 1
    /\ UNCHANGED <<slotVars, urgentQ, commonQ, session, gateVars, taskVars,
                   ownerVars, calls, acks, resets>>

EsimTake(t) ==
    /\ esim[t] = "begun" /\ session = None
    /\ session' = t
    /\ esim' = [esim EXCEPT ![t] = "open"]
    /\ UNCHANGED <<slotVars, urgentQ, commonQ, gateVars, taskVars, ownerVars, bounds>>

\* Mutant of EsimEnd: the operation stays counted.
EsimStays(t) ==
    /\ at[t] = "idle" /\ KeepsSession(t)
    /\ session' = None
    /\ UNCHANGED <<slotVars, urgentQ, commonQ, gateVars, taskVars, esim, ownerVars,
                   bounds>>

EsimEnd(t) ==
    /\ at[t] = "idle" /\ KeepsSession(t)
    /\ session' = None
    /\ esim' = [esim EXCEPT ![t] = "none"]
    /\ UNCHANGED <<slotVars, urgentQ, commonQ, gateVars, taskVars, ownerVars, bounds>>

\* sms_task looks for an eSIM operation once, and then sends.
SmsSend ==
    /\ at[SmsTask] = "idle" /\ sms = "loop" /\ ~EsimActive
    /\ sms' = "sending"
    /\ UNCHANGED <<slotVars, urgentQ, commonQ, session, gateVars, at, mine, ticket,
                   woken, got, esim, ownerVars, bounds>>

\* idf_modem_request_reset
RequestReset ==
    /\ resets < MaxResets
    /\ ready' = FALSE
    /\ resetReq' = TRUE
    /\ resets' = resets + 1
    /\ UNCHANGED <<slotVars, urgentQ, commonQ, session, reinit, at, mine, ticket,
                   woken, got, esim, ownerVars, calls, acks, ops>>

\* A failed AT+CMGF or a timed-out AT+CMGS makes sms_task reset the modem.
SmsReset == sms = "failed" /\ sms' = "loop" /\ RequestReset

\* The web interface refuses to reset while an eSIM job runs, and an eSIM task
\* resets after its operation.
WebReset == ~EsimActive /\ RequestReset /\ UNCHANGED sms

-----------------------------------------------------------------------------
(* The owner: the loop of modem_task and owner_process_one_command. *)

\* Mutant of Reclaimable: queued slots are reclaimed although they are queued.
ReclaimableEarly(s) == gone[s] /\ state[s] # "running"

\* Mutant of Reclaimable: a done slot that nobody waits for stays done.
ReclaimableFree(s) == gone[s] /\ state[s] = "free"

Reclaimable(s) == gone[s] /\ state[s] \in {"done", "free"}

\* owner_reclaim_expired_done_slots, at the start of every
\* owner_process_one_command; it is skipped when the mutex is taken.
Reclaim ==
    /\ work = "none"
    /\ \E s \in Slots : Reclaimable(s)
    /\ state'  = [s \in Slots |-> IF Reclaimable(s) THEN "free" ELSE state[s]]
    /\ gone'   = [s \in Slots |-> gone[s] /\ ~Reclaimable(s)]
    /\ signal' = [s \in Slots |->
           signal[s] /\ ~(Reclaimable(s) /\ state[s] = "done")]
    /\ cmd'    = [s \in Slots |-> IF Reclaimable(s) THEN None ELSE cmd[s]]
    /\ result' = [s \in Slots |-> IF Reclaimable(s) THEN "none" ELSE result[s]]
    /\ UNCHANGED <<urgentQ, commonQ, session, gateVars, taskVars, esim, ownerVars,
                   bounds>>

\* Urgent commands are drained in the loop, and after each AT command that the
\* owner issues for itself: in its housekeeping and while it resets the modem.
PopUrgent ==
    /\ work = "none" /\ ownerAt # "common" /\ urgentQ # <<>>
    /\ work' = "popped" /\ workSlot' = Head(urgentQ) /\ urgent' = TRUE
    /\ urgentQ' = Tail(urgentQ)
    /\ UNCHANGED <<slotVars, commonQ, session, gateVars, taskVars, esim, ownerAt,
                   bounds>>

\* At most one ordinary command is taken in a pass.
PopCommon ==
    /\ work = "none" /\ ownerAt = "common" /\ commonQ # <<>>
    /\ work' = "popped" /\ workSlot' = Head(commonQ) /\ urgent' = FALSE
    /\ commonQ' = Tail(commonQ)
    /\ ownerAt' = "urgent"
    /\ UNCHANGED <<slotVars, urgentQ, session, gateVars, taskVars, esim, bounds>>

\* The loop goes on when there is nothing to take where it is.
MoveOn ==
    /\ work = "none"
    /\ \/ ownerAt = "urgent" /\ urgentQ = <<>> /\ ownerAt' = "common"
       \/ ownerAt = "common" /\ commonQ = <<>> /\ ownerAt' = "house"
       \/ ownerAt = "house" /\ ~(resetReq /\ ~EsimActive) /\ ownerAt' = "urgent"
    /\ UNCHANGED <<slotVars, urgentQ, commonQ, session, gateVars, taskVars, esim,
                   work, workSlot, urgent, bounds>>

\* Mutant of Dropped: caller_abandoned is not looked at.
DroppedMarked(s) == state[s] = "abandoned"

Dropped(s) == state[s] = "abandoned" \/ gone[s]

\* The popped slot was abandoned, or is not queued any more.
DropCommand ==
    /\ work = "popped"
    /\ Dropped(workSlot) \/ state[workSlot] # "queued"
    /\ IF Dropped(workSlot) THEN ResetSlot(workSlot)
                            ELSE UNCHANGED <<state, gone, cmd, result>>
    /\ work' = "none"
    /\ UNCHANGED <<signal, urgentQ, commonQ, session, gateVars, taskVars, esim,
                   ownerAt, workSlot, urgent, bounds>>

RefuseCommand ==
    /\ work = "popped"
    /\ ~Dropped(workSlot) /\ state[workSlot] = "queued" /\ ~Allowed(urgent)
    /\ state' = [state EXCEPT ![workSlot] = "done"]
    /\ result' = [result EXCEPT ![workSlot] = "refused"]
    /\ work' = "signal"
    /\ UNCHANGED <<gone, signal, cmd, urgentQ, commonQ, session, gateVars, taskVars,
                   esim, ownerAt, workSlot, urgent, bounds>>

StartCommand ==
    /\ work = "popped"
    /\ ~Dropped(workSlot) /\ state[workSlot] = "queued" /\ Allowed(urgent)
    /\ state' = [state EXCEPT ![workSlot] = "running"]
    /\ work' = "running"
    /\ UNCHANGED <<gone, signal, cmd, result, urgentQ, commonQ, session, gateVars,
                   taskVars, esim, ownerAt, workSlot, urgent, bounds>>

FinishCommand ==
    /\ work = "running"
    /\ IF Dropped(workSlot)
         THEN ResetSlot(workSlot) /\ work' = "none"
         ELSE /\ state' = [state EXCEPT ![workSlot] = "done"]
              /\ result' = [result EXCEPT ![workSlot] = "answered"]
              /\ work' = "signal"
              /\ UNCHANGED <<gone, cmd>>
    /\ UNCHANGED <<signal, urgentQ, commonQ, session, gateVars, taskVars, esim,
                   ownerAt, workSlot, urgent, bounds>>

\* The semaphore is given after the mutex.
GiveCompleted ==
    /\ work = "signal"
    /\ signal' = [signal EXCEPT ![workSlot] = TRUE]
    /\ work' = "none"
    /\ UNCHANGED <<state, gone, cmd, result, urgentQ, commonQ, session, gateVars,
                   taskVars, esim, ownerAt, workSlot, urgent, bounds>>

\* handle_reset_request_if_any waits for the eSIM operations to end.
StartReset ==
    /\ work = "none" /\ ownerAt = "house" /\ resetReq /\ ~EsimActive
    /\ resetReq' = FALSE /\ ready' = FALSE
    /\ ownerAt' = "reset"
    /\ UNCHANGED <<slotVars, urgentQ, commonQ, session, reinit, taskVars, esim, work,
                   workSlot, urgent, bounds>>

\* The modem answers again after the reset, or does not.
FinishReset(answers) ==
    /\ work = "none" /\ ownerAt = "reset"
    /\ ready' = (ready \/ answers)
    /\ reinit' = ~answers
    /\ ownerAt' = "urgent"
    /\ UNCHANGED <<slotVars, urgentQ, commonQ, session, resetReq, taskVars, esim,
                   work, workSlot, urgent, bounds>>

\* at_channel_idle_now
ChannelIdle ==
    /\ ~EsimActive
    /\ session = None
    /\ \A s \in Slots : state[s] = "free"

\* run_pending_reinit_if_recovered, once the modem answers
Reinitialise ==
    /\ work = "none" /\ ownerAt = "house" /\ reinit /\ ChannelIdle
    /\ ready' = TRUE /\ reinit' = FALSE
    /\ UNCHANGED <<slotVars, urgentQ, commonQ, session, resetReq, taskVars, esim,
                   ownerVars, bounds>>

-----------------------------------------------------------------------------
CallerStep(t) ==
    \/ TakeSession(t) \/ GiveUpEarly(t) \/ SlotsFull(t) \/ Enqueue(t)
    \/ Wake(t) \/ Expire(t) \/ LeaveDone(t) \/ LeaveUndone(t) \/ LeaveUnlocked(t)

OwnerStep ==
    \/ PopUrgent \/ PopCommon \/ MoveOn
    \/ DropCommand \/ RefuseCommand \/ StartCommand \/ FinishCommand \/ GiveCompleted
    \/ StartReset \/ FinishReset(TRUE) \/ FinishReset(FALSE)

Next ==
    \/ \E t \in Tasks : \/ CallCommon(t) \/ CallGated(t) \/ CallUrgent(t)
                        \/ CallerStep(t)
                        \/ EsimBegin(t) \/ EsimTake(t) \/ EsimEnd(t)
    \/ SmsSend \/ SmsReset \/ WebReset
    \/ OwnerStep \/ Reclaim \/ Reinitialise

Spec == Init /\ [][Next]_vars

\* Every wait of a caller has a deadline, an eSIM operation is a finite list of
\* commands, and the owner's loop never stops: it polls its queues at least
\* every half second and tries to reclaim each time.
Fairness ==
    /\ WF_vars(OwnerStep)
    /\ WF_vars(Reclaim)
    /\ \A t \in Tasks : /\ WF_vars(CallerStep(t))
                        /\ WF_vars(EsimTake(t))
                        /\ WF_vars(EsimEnd(t))

FairSpec == Spec /\ Fairness

-----------------------------------------------------------------------------
(* Safety. *)

InQueue(q) == {q[i] : i \in 1 .. Len(q)}
Once(q)    == \A i, j \in 1 .. Len(q) : q[i] = q[j] => i = j
Waiting    == InQueue(urgentQ) \cup InQueue(commonQ)

\* A slot is in the queues at most once, and only while it is queued or was
\* abandoned there, whatever races between a caller that gives up and the
\* owner; and the slot the owner works on is in no queue, not free, not done.  So no
\* queue entry and no owner ever uses a slot that can be allocated again.
QueueEntries ==
    /\ Once(urgentQ) /\ Once(commonQ)
    /\ InQueue(urgentQ) \cap InQueue(commonQ) = {}
    /\ \A s \in Waiting : state[s] \in {"queued", "abandoned"}
    /\ work \in {"popped", "running"} => workSlot \notin Waiting
    /\ work = "popped" => state[workSlot] \in {"queued", "abandoned"}
    /\ work = "running" => state[workSlot] \in {"running", "abandoned"}

\* The queue never refuses a slot that was just allocated (queue_full is a
\* reply no caller ever gets).
QueueNeverFull ==
    FreeSlots # {} => HasRoom(urgentQ) /\ HasRoom(commonQ)

\* The queues hold what waits, once, and always have room for what may come.
QueuesExact == QueueEntries /\ QueueNeverFull

\* An ordinary command starts on the modem only while the task that submitted
\* it still holds the session mutex.  A command whose caller timed out never
\* starts inside somebody else's eSIM channel.
StartsInSession ==
    [][\A s \in Slots :
          (state[s] = "queued" /\ state'[s] = "running" /\ ~cmd[s].priority)
             => session = cmd[s].by]_vars

\* The answer a caller is given is the answer to its own command.
AnswerIsOwn == \A t \in Tasks : got[t] \in {None, mine[t]}

\* So it is as long as there are only ordinary commands: their callers hold the
\* session until they have left their slots, however late they are.
OrdinaryAnswerIsOwn == acks = 0 => AnswerIsOwn

\* A caller whose semaphore was given finds its own command done: it does not
\* return ESP_ERR_TIMEOUT before its time is over.
SignalMeansAnswer ==
    \A t \in Tasks : at[t] = "leave" /\ woken[t] =>
        state[ticket[t]] = "done" /\ cmd[ticket[t]] = mine[t]

\* A reset waits for an eSIM operation whose channel is in use: none of its
\* commands is turned away after the first was answered.
EsimNotTruncated == \A t \in Tasks : esim[t] # "cut"

-----------------------------------------------------------------------------
(* Liveness. *)

Used(s) == state[s] # "free"

\* No slot is lost: whatever its caller did, a slot becomes free again.
SlotsComeFree == \A s \in Slots : Used(s) ~> ~Used(s)

Asked == resetReq
Served == ownerAt = "reset"

\* A reset that eSIM operations delay is not lost.
ResetServed == Asked ~> Served
=============================================================================
