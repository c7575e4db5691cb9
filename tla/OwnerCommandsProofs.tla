------------------------- MODULE OwnerCommandsProofs -------------------------
(***************************************************************************)
(* The safety invariants of OwnerCommands, proved for any tasks and any    *)
(* number of slots, commands, resets and eSIM operations; and of the       *)
(* instances of ModemHealth, EsimApdu, ModemHttps and WebJobs that share   *)
(* its run.                                                                *)
(***************************************************************************)
EXTENDS MCModem, FiniteSetTheorems, SequenceTheorems, WellFoundedInduction, TLAPS

-----------------------------------------------------------------------------
(* Sequences without repetition *)

LEMMA TailFacts ==
    ASSUME NEW q \in Seq(Slots), q # <<>>
    PROVE  /\ Tail(q) \in Seq(Slots)
           /\ Head(q) \in Slots
           /\ Head(q) \in InQueue(q)
           /\ InQueue(Tail(q)) \subseteq InQueue(q)
           /\ Once(q) => Once(Tail(q)) /\ Head(q) \notin InQueue(Tail(q))
<1>1. /\ Len(q) \in Nat /\ Len(q) > 0
      /\ Tail(q) \in Seq(Slots) /\ Len(Tail(q)) = Len(q) - 1
      /\ Head(q) = q[1] /\ Head(q) \in Slots
      /\ \A i \in 1 .. Len(q) - 1 : Tail(q)[i] = q[i + 1]
  OBVIOUS
<1>2. Head(q) \in InQueue(q)
  BY <1>1 DEF InQueue
<1>3. \A i \in 1 .. Len(Tail(q)) : i + 1 \in 1 .. Len(q) /\ Tail(q)[i] = q[i + 1]
  BY <1>1
<1>4. InQueue(Tail(q)) \subseteq InQueue(q)
  BY <1>3 DEF InQueue
<1>5. ASSUME Once(q) PROVE Once(Tail(q))
  BY <1>1, <1>3, <1>5 DEF Once
<1>6. ASSUME Once(q) PROVE Head(q) \notin InQueue(Tail(q))
  BY <1>1, <1>3, <1>6 DEF Once, InQueue
<1> QED BY <1>1, <1>2, <1>4, <1>5, <1>6

LEMMA AppendFacts ==
    ASSUME NEW q \in Seq(Slots), NEW s \in Slots
    PROVE  /\ Append(q, s) \in Seq(Slots)
           /\ InQueue(Append(q, s)) = InQueue(q) \cup {s}
           /\ Once(q) /\ s \notin InQueue(q) => Once(Append(q, s))
<1>1. /\ Len(q) \in Nat
      /\ Append(q, s) \in Seq(Slots) /\ Len(Append(q, s)) = Len(q) + 1
      /\ \A i \in 1 .. Len(q) : Append(q, s)[i] = q[i]
      /\ Append(q, s)[Len(q) + 1] = s
  OBVIOUS
<1>2. InQueue(Append(q, s)) = InQueue(q) \cup {s}
  <2>1. InQueue(Append(q, s)) \subseteq InQueue(q) \cup {s}
    BY <1>1 DEF InQueue
  <2>2. InQueue(q) \subseteq InQueue(Append(q, s))
    <3> SUFFICES ASSUME NEW i \in 1 .. Len(q) PROVE q[i] \in InQueue(Append(q, s))
      BY DEF InQueue
    <3>1. i \in 1 .. Len(Append(q, s)) /\ Append(q, s)[i] = q[i]
      BY <1>1
    <3> QED BY <3>1 DEF InQueue
  <2>3. s \in InQueue(Append(q, s))
    <3>1. Len(q) + 1 \in 1 .. Len(Append(q, s)) /\ Append(q, s)[Len(q) + 1] = s
      BY <1>1
    <3> QED BY <3>1 DEF InQueue
  <2> QED BY <2>1, <2>2, <2>3
<1>3. ASSUME Once(q), s \notin InQueue(q) PROVE Once(Append(q, s))
  BY <1>1, <1>3 DEF Once, InQueue
<1> QED BY <1>1, <1>2, <1>3

\* A sequence without repetition that misses a slot is shorter than the slots.
LEMMA ShortQueue ==
    ASSUME NEW q \in Seq(Slots), Once(q), NEW s \in Slots, s \notin InQueue(q)
    PROVE  HasRoom(q)
<1> DEFINE T == Slots \ {s}
<1>1. IsFiniteSet(Slots) /\ Cardinality(Slots) = SlotCount
  BY BoundAssumption, FS_Interval DEF Slots
<1>2. IsFiniteSet(T) /\ Cardinality(T) <= SlotCount /\ Cardinality(T) # SlotCount
  <2>1. T \in SUBSET Slots /\ T # Slots
    OBVIOUS
  <2> QED BY <1>1, <2>1, FS_Subset
<1>3. q \in Injection(1 .. Len(q), T)
  <2>1. q \in [1 .. Len(q) -> T]
    BY DEF InQueue
  <2>2. \A i, j \in 1 .. Len(q) : q[i] = q[j] => i = j
    BY DEF Once
  <2> QED BY <2>1, <2>2 DEF Injection, IsInjective
<1>4. Cardinality(1 .. Len(q)) <= Cardinality(T)
  BY <1>2, <1>3, FS_Injection
<1>5. Cardinality(1 .. Len(q)) = Len(q)
  <2>1. Len(q) \in Nat
    OBVIOUS
  <2> QED BY SMTT(60), <2>1, FS_Interval
<1>6. Cardinality(T) \in Nat /\ Len(q) \in Nat
  BY <1>2, FS_CardinalityType
<1> QED BY <1>2, <1>4, <1>5, <1>6, BoundAssumption DEF HasRoom

-----------------------------------------------------------------------------
(* Type correctness *)

\* Outcomes of submit_owner_command, as its caller's state knows them.
Outcomes == {"gated", "timeout", "busy", "none", "answered", "refused"}

\* What a task knows and how far it is stays well typed when a call returns.
LEMMA ReturnType ==
    ASSUME TypeOK, NEW t \in Tasks, NEW outcome \in Outcomes, Return(t, outcome)
    PROVE  /\ at' \in [Tasks -> {"idle", "session", "enqueue", "wait", "leave"}]
           /\ mine' \in [Tasks -> Command \cup {None}]
           /\ ticket' \in [Tasks -> Slots \cup {None}]
           /\ woken' \in [Tasks -> BOOLEAN]
           /\ session' \in Tasks \cup {None}
           /\ sms' \in {"loop", "sending", "failed"}
           /\ esim' \in [Tasks -> {"none", "begun", "open", "working", "cut"}]
<1>1. EsimAfter(t, outcome) \in {"none", "begun", "open", "working", "cut"}
  BY DEF EsimAfter, TypeOK
<1>2. SmsAfter(t, outcome) \subseteq {"loop", "sending", "failed"}
  BY DEF SmsAfter, TypeOK
<1> QED BY <1>1, <1>2 DEF Return, TypeOK

\* A slot stays well typed when it is reset.
LEMMA ResetType ==
    ASSUME TypeOK, NEW s \in Slots, ResetSlot(s)
    PROVE  /\ state' \in [Slots -> {"free", "queued", "running", "done", "abandoned"}]
           /\ gone' \in [Slots -> BOOLEAN]
           /\ cmd' \in [Slots -> Command \cup {None}]
           /\ result' \in [Slots -> {"none", "answered", "refused"}]
  BY DEF ResetSlot, TypeOK

\* Where a caller is tells what it has in its hands.
CallerInv ==
    \A t \in Tasks :
        /\ at[t] \in {"session", "enqueue"} => mine[t] \in Command /\ mine[t].by = t
        /\ at[t] = "session" => ~mine[t].priority
        /\ at[t] = "enqueue" /\ ~mine[t].priority => session = t
        /\ at[t] \in {"wait", "leave"} => ticket[t] \in Slots
        /\ KeepsSession(t) => session = t
        /\ esim[t] = "begun" => at[t] = "idle"
        /\ esim[t] # "none" => t \in EsimTasks

\* A queued command that nobody has given up belongs to a caller that waits
\* for it at this very slot, and that holds the session if it is ordinary.
Owned ==
    \A s \in Slots : state[s] = "queued" /\ ~gone[s] =>
        /\ cmd[s] \in Command
        /\ at[cmd[s].by] \in {"wait", "leave"}
        /\ ticket[cmd[s].by] = s
        /\ ~cmd[s].priority => session = cmd[s].by

IndInv == TypeOK /\ CallerInv /\ QueueEntries /\ Owned

LEMMA TypeInit == Init => TypeOK
<1>1. 1 \in Slots /\ <<>> \in Seq(Slots)
  <2>1. <<>> \in Seq(Slots)
    OBVIOUS
  <2> QED BY <2>1, BoundAssumption DEF Slots
<1> SUFFICES ASSUME Init PROVE TypeOK
  OBVIOUS
<1>2. /\ state \in [Slots -> {"free", "queued", "running", "done", "abandoned"}]
      /\ gone \in [Slots -> BOOLEAN]
      /\ signal \in [Slots -> BOOLEAN]
      /\ cmd \in [Slots -> Command \cup {None}]
      /\ result \in [Slots -> {"none", "answered", "refused"}]
  BY DEF Init
<1>3. /\ at \in [Tasks -> {"idle", "session", "enqueue", "wait", "leave"}]
      /\ mine \in [Tasks -> Command \cup {None}]
      /\ ticket \in [Tasks -> Slots \cup {None}]
      /\ woken \in [Tasks -> BOOLEAN]
      /\ got \in [Tasks -> Command \cup {None}]
      /\ esim \in [Tasks -> {"none", "begun", "open", "working", "cut"}]
  BY DEF Init
<1> QED BY <1>1, <1>2, <1>3 DEF Init, TypeOK

LEMMA TypeNext == TypeOK /\ CallerInv /\ [Next]_vars => TypeOK'
<1> SUFFICES ASSUME TypeOK, CallerInv, [Next]_vars PROVE TypeOK'
  OBVIOUS
<1> USE DEF Outcomes, gateVars, ownerVars, bounds
<1>1. ASSUME NEW t \in Tasks, CallCommon(t) PROVE TypeOK'
  BY <1>1 DEF CallCommon, TypeOK, Command, slotVars
<1>2. ASSUME NEW t \in Tasks, CallGated(t) PROVE TypeOK'
  <2>1. Return(t, "gated")
    BY <1>2 DEF CallGated
  <2> QED BY <1>2, <2>1, ReturnType DEF CallGated, TypeOK, slotVars
<1>3. ASSUME NEW t \in Tasks, CallUrgent(t) PROVE TypeOK'
  BY <1>3 DEF CallUrgent, TypeOK, Command, slotVars
<1>4. ASSUME NEW t \in Tasks, TakeSession(t) PROVE TypeOK'
  BY <1>4 DEF TakeSession, TypeOK, slotVars
<1>5. ASSUME NEW t \in Tasks, GiveUpEarly(t) PROVE TypeOK'
  <2>1. Return(t, "timeout")
    BY <1>5 DEF GiveUpEarly
  <2> QED BY <1>5, <2>1, ReturnType DEF GiveUpEarly, TypeOK, slotVars
<1>6. ASSUME NEW t \in Tasks, SlotsFull(t) PROVE TypeOK'
  <2>1. Return(t, "busy")
    BY <1>6 DEF SlotsFull
  <2> QED BY <1>6, <2>1, ReturnType DEF SlotsFull, TypeOK, slotVars
<1>7. ASSUME NEW t \in Tasks, Enqueue(t) PROVE TypeOK'
  <2>1. PICK s \in Slots :
          /\ signal' = [signal EXCEPT ![s] = FALSE]
          /\ \/ Occupy(t, s)
             \/ ResetSlot(s) /\ Return(t, "busy") /\ UNCHANGED <<urgentQ, commonQ>>
    BY <1>7 DEF Enqueue
  <2>2. mine[t] \in Command
    BY <1>7 DEF Enqueue, CallerInv
  <2>3. CASE Occupy(t, s)
    <3>1. urgentQ' \in Seq(Slots) /\ commonQ' \in Seq(Slots)
      BY ZenonT(60), <2>3, AppendFacts DEF Occupy, TypeOK
    <3> QED BY <1>7, <2>1, <2>2, <2>3, <3>1 DEF Enqueue, Occupy, TypeOK
  <2>4. CASE ResetSlot(s) /\ Return(t, "busy") /\ UNCHANGED <<urgentQ, commonQ>>
    BY <1>7, <2>1, <2>4, ResetType, ReturnType DEF Enqueue, TypeOK
  <2> QED BY <2>1, <2>3, <2>4
<1>8. ASSUME NEW t \in Tasks, Wake(t) PROVE TypeOK'
  BY ZenonT(60), <1>8 DEF Wake, TypeOK
<1>9. ASSUME NEW t \in Tasks, Expire(t) PROVE TypeOK'
  BY ZenonT(60), <1>9 DEF Expire, TypeOK
<1>10. ASSUME NEW t \in Tasks, LeaveDone(t) PROVE TypeOK'
  <2>1. ticket[t] \in Slots
    BY <1>10 DEF LeaveDone, CallerInv
  <2>2. result[ticket[t]] \in Outcomes
    BY <2>1 DEF TypeOK
  <2>3. ResetSlot(ticket[t]) /\ Return(t, result[ticket[t]])
    BY <1>10 DEF LeaveDone
  <2> HIDE DEF Outcomes
  <2> QED BY <1>10, <2>1, <2>2, <2>3, ResetType, ReturnType DEF LeaveDone, TypeOK
<1>11. ASSUME NEW t \in Tasks, LeaveUndone(t) PROVE TypeOK'
  <2>1. Return(t, "timeout")
    BY <1>11 DEF LeaveUndone
  <2> QED BY <1>11, <2>1, ReturnType DEF LeaveUndone, TypeOK
<1>12. ASSUME NEW t \in Tasks, LeaveUnlocked(t) PROVE TypeOK'
  <2>1. Return(t, "timeout")
    BY <1>12 DEF LeaveUnlocked
  <2> QED BY ZenonT(60), <1>12, <2>1, ReturnType DEF LeaveUnlocked, TypeOK
<1>13. ASSUME NEW t \in Tasks, EsimBegin(t) \/ EsimTake(t) \/ EsimEnd(t) PROVE TypeOK'
  BY <1>13 DEF EsimBegin, EsimTake, EsimEnd, TypeOK, slotVars, taskVars
<1>14. CASE SmsSend \/ SmsReset \/ WebReset
  <2>1. CASE SmsSend
    BY <2>1 DEF SmsSend, TypeOK, slotVars, taskVars
  <2>2. ASSUME RequestReset, sms' \in {"loop", "sending", "failed"} PROVE TypeOK'
    <3>1. /\ ready' = FALSE /\ resetReq' = TRUE /\ resets' = resets + 1
          /\ UNCHANGED <<calls, acks, ops>>
      BY <2>2 DEF RequestReset
    <3>2. UNCHANGED <<slotVars, urgentQ, commonQ, session, reinit, at, mine, ticket,
                      woken, got, esim, ownerVars, calls, acks, ops>>
      BY <2>2 DEF RequestReset
    <3>3. ready' \in BOOLEAN /\ resetReq' \in BOOLEAN
      BY <3>1, Zenon
    <3> QED BY <2>2, <3>1, <3>2, <3>3 DEF TypeOK, slotVars
  <2>3. RequestReset => sms' \in {"loop", "sending", "failed"} \/ ~(SmsReset \/ WebReset)
    BY DEF SmsReset, WebReset, TypeOK
  <2> QED BY <1>14, <2>1, <2>2, <2>3 DEF SmsReset, WebReset
<1>15. CASE Reclaim
  BY <1>15 DEF Reclaim, Reclaimable, TypeOK, taskVars
<1>16. CASE PopUrgent
  BY <1>16, TailFacts DEF PopUrgent, TypeOK, slotVars, taskVars
<1>17. CASE PopCommon
  BY <1>17, TailFacts DEF PopCommon, TypeOK, slotVars, taskVars
<1>18. CASE MoveOn
  BY <1>18 DEF MoveOn, TypeOK, slotVars, taskVars
<1>19. CASE DropCommand
  <2>1. ResetSlot(workSlot) \/ UNCHANGED <<state, gone, cmd, result>>
    BY <1>19 DEF DropCommand
  <2>2. workSlot \in Slots
    BY DEF TypeOK
  <2> QED BY <1>19, <2>1, <2>2, ResetType DEF DropCommand, TypeOK, taskVars
<1>20. CASE RefuseCommand
  BY <1>20 DEF RefuseCommand, TypeOK, taskVars
<1>21. CASE StartCommand
  BY <1>21 DEF StartCommand, TypeOK, taskVars
<1>22. CASE FinishCommand
  <2>1. workSlot \in Slots
    BY DEF TypeOK
  <2>2. CASE Dropped(workSlot)
    BY <1>22, <2>1, <2>2, ResetType DEF FinishCommand, TypeOK, taskVars
  <2>3. CASE ~Dropped(workSlot)
    BY <1>22, <2>1, <2>3 DEF FinishCommand, TypeOK, taskVars
  <2> QED BY <2>2, <2>3
<1>23. CASE GiveCompleted
  BY <1>23 DEF GiveCompleted, TypeOK, taskVars
<1>24. CASE StartReset \/ FinishReset(TRUE) \/ FinishReset(FALSE) \/ Reinitialise
  BY <1>24 DEF StartReset, FinishReset, Reinitialise, TypeOK, slotVars, taskVars
<1>25. CASE UNCHANGED vars
  BY <1>25 DEF vars, TypeOK, slotVars, taskVars
<1> QED
  BY <1>1, <1>2, <1>3, <1>4, <1>5, <1>6, <1>7, <1>8, <1>9, <1>10, <1>11, <1>12,
     <1>13, <1>14, <1>15, <1>16, <1>17, <1>18, <1>19, <1>20, <1>21, <1>22, <1>23,
     <1>24, <1>25 DEF Next, CallerStep, OwnerStep

-----------------------------------------------------------------------------
(* What the callers and the queue entries are *)

\* A return frees the session only if the task holds it for this call alone.
LEMMA ReturnCaller ==
    ASSUME TypeOK, CallerInv, NEW t \in Tasks, NEW outcome \in Outcomes,
           Return(t, outcome)
    PROVE  CallerInv'
<1>1. esim'[t] = EsimAfter(t, outcome) /\ \A u \in Tasks \ {t} : esim'[u] = esim[u]
  BY DEF Return, TypeOK
<1>2. /\ esim'[t] = "begun" => esim[t] = "begun"
      /\ esim'[t] # "none" => esim[t] # "none"
      /\ KeepsSession(t)' => KeepsSession(t)
  BY <1>1 DEF EsimAfter, KeepsSession, TypeOK
<1>3. \A u \in Tasks \ {t} : KeepsSession(u)' = KeepsSession(u)
  BY <1>1 DEF KeepsSession
<1>4. /\ at'[t] = "idle"
      /\ \A u \in Tasks \ {t} : at'[u] = at[u] /\ ticket'[u] = ticket[u]
      /\ mine' = mine
  BY DEF Return, TypeOK
<1>5. /\ KeepsSession(t) => session' = session
      /\ \A u \in Tasks \ {t} : session = u => session' = u
  BY TaskAssumption DEF Return
<1>6. ASSUME NEW u \in Tasks \ {t}
      PROVE  /\ at'[u] \in {"session", "enqueue"} => mine'[u] \in Command /\ mine'[u].by = u
             /\ at'[u] = "session" => ~mine'[u].priority
             /\ at'[u] = "enqueue" /\ ~mine'[u].priority => session' = u
             /\ at'[u] \in {"wait", "leave"} => ticket'[u] \in Slots
             /\ KeepsSession(u)' => session' = u
             /\ esim'[u] = "begun" => at'[u] = "idle"
             /\ esim'[u] # "none" => u \in EsimTasks
  BY <1>1, <1>3, <1>4, <1>5 DEF CallerInv
<1>7. /\ KeepsSession(t)' => session' = t
      /\ esim'[t] # "none" => t \in EsimTasks
  BY <1>2, <1>5 DEF CallerInv
<1> QED BY <1>4, <1>6, <1>7 DEF CallerInv

LEMMA CallerNext == TypeOK /\ CallerInv /\ [Next]_vars => CallerInv'
<1> SUFFICES ASSUME TypeOK, CallerInv, [Next]_vars PROVE CallerInv'
  OBVIOUS
<1>1. ASSUME NEW t \in Tasks, NEW outcome \in Outcomes, Return(t, outcome)
      PROVE  CallerInv'
  BY <1>1, ReturnCaller
<1>2. ASSUME NEW t \in Tasks,
             CallGated(t) \/ GiveUpEarly(t) \/ SlotsFull(t) \/ LeaveDone(t)
               \/ LeaveUndone(t) \/ LeaveUnlocked(t)
      PROVE  CallerInv'
  <2>1. \A s \in Slots : result[s] \in Outcomes
    BY DEF TypeOK, Outcomes
  <2>2. LeaveDone(t) => ticket[t] \in Slots
    BY DEF LeaveDone, CallerInv
  <2>3. \E outcome \in Outcomes : Return(t, outcome)
    BY <1>2, <2>1, <2>2
       DEF CallGated, GiveUpEarly, SlotsFull, LeaveDone, LeaveUndone, LeaveUnlocked,
           Outcomes
  <2> QED BY <1>1, <2>3
<1>3. ASSUME NEW t \in Tasks, CallCommon(t) PROVE CallerInv'
  BY <1>3 DEF CallCommon, CallerInv, KeepsSession, TypeOK, Command
<1>4. ASSUME NEW t \in Tasks, CallUrgent(t) PROVE CallerInv'
  BY <1>4, TaskAssumption DEF CallUrgent, CallerInv, KeepsSession, TypeOK, Command
<1>5. ASSUME NEW t \in Tasks, TakeSession(t) PROVE CallerInv'
  BY <1>5, TaskAssumption DEF TakeSession, CallerInv, KeepsSession, TypeOK
<1>6. ASSUME NEW t \in Tasks, Enqueue(t) PROVE CallerInv'
  <2>1. PICK s \in Slots : Occupy(t, s) \/ Return(t, "busy")
    BY <1>6 DEF Enqueue
  <2>2. CASE Occupy(t, s)
    BY <1>6, <2>2 DEF Enqueue, Occupy, CallerInv, KeepsSession, TypeOK
  <2>3. CASE Return(t, "busy")
    BY <1>1, <2>3 DEF Outcomes
  <2> QED BY <2>1, <2>2, <2>3
<1>7. ASSUME NEW t \in Tasks, Wake(t) \/ Expire(t) PROVE CallerInv'
  BY <1>7 DEF Wake, Expire, CallerInv, KeepsSession, TypeOK
<1>8. ASSUME NEW t \in Tasks, EsimBegin(t) PROVE CallerInv'
  BY <1>8 DEF EsimBegin, CallerInv, KeepsSession, TypeOK, taskVars
<1>9. ASSUME NEW t \in Tasks, EsimTake(t) PROVE CallerInv'
  BY <1>9, TaskAssumption DEF EsimTake, CallerInv, KeepsSession, TypeOK, taskVars
<1>10. ASSUME NEW t \in Tasks, EsimEnd(t) PROVE CallerInv'
  BY <1>10 DEF EsimEnd, CallerInv, KeepsSession, TypeOK, taskVars
<1>11. CASE UNCHANGED <<at, mine, ticket, session, esim>>
  BY <1>11 DEF CallerInv, KeepsSession
<1>12. SmsSend \/ SmsReset \/ WebReset \/ OwnerStep \/ Reclaim \/ Reinitialise
         \/ UNCHANGED vars => UNCHANGED <<at, mine, ticket, session, esim>>
  BY DEF SmsSend, SmsReset, WebReset, RequestReset, OwnerStep, PopUrgent, PopCommon,
         MoveOn, DropCommand, RefuseCommand, StartCommand, FinishCommand,
         GiveCompleted, StartReset, FinishReset, Reclaim, Reinitialise, taskVars, vars
<1> QED
  BY <1>2, <1>3, <1>4, <1>5, <1>6, <1>7, <1>8, <1>9, <1>10, <1>11, <1>12
     DEF Next, CallerStep

\* A step that only moves slots along their way keeps the entries.
Along ==
    /\ UNCHANGED <<urgentQ, commonQ, work, workSlot>>
    /\ \A s \in Slots :
          /\ state[s] = "queued" => state'[s] \in {"queued", "abandoned"}
          /\ state[s] = "running" => state'[s] \in {"running", "abandoned"}
          /\ state[s] = "abandoned" => state'[s] = "abandoned"

LEMMA AlongEntries == TypeOK /\ QueueEntries /\ Along => QueueEntries'
<1> SUFFICES ASSUME TypeOK, QueueEntries, Along PROVE QueueEntries'
  OBVIOUS
<1>1. workSlot \in Slots /\ \A s \in Waiting : s \in Slots
  BY DEF TypeOK, Waiting, InQueue
<1>2. Waiting' = Waiting
  BY DEF Along, Waiting
<1>3. Once(urgentQ') /\ Once(commonQ') /\ InQueue(urgentQ') \cap InQueue(commonQ') = {}
  BY DEF Along, QueueEntries
<1>4. \A s \in Waiting' : state'[s] \in {"queued", "abandoned"}
  BY <1>1, <1>2 DEF Along, QueueEntries
<1>5. work' = work /\ workSlot' = workSlot
  BY DEF Along
<1>6. /\ work' = "popped" => state'[workSlot'] \in {"queued", "abandoned"}
      /\ work' = "running" => state'[workSlot'] \in {"running", "abandoned"}
  BY <1>1, <1>5 DEF Along, QueueEntries
<1> QED BY <1>2, <1>3, <1>4, <1>5, <1>6 DEF QueueEntries

LEMMA EntriesNext == TypeOK /\ CallerInv /\ QueueEntries /\ [Next]_vars => QueueEntries'
<1> SUFFICES ASSUME TypeOK, CallerInv, QueueEntries, [Next]_vars PROVE QueueEntries'
  OBVIOUS
<1>1. /\ urgentQ \in Seq(Slots) /\ commonQ \in Seq(Slots) /\ workSlot \in Slots
      /\ \A s \in Waiting : s \in Slots
  BY DEF TypeOK, Waiting, InQueue
<1>2. Along => QueueEntries'
  BY AlongEntries
<1>3. ASSUME UNCHANGED <<state, urgentQ, commonQ, work, workSlot>> PROVE QueueEntries'
  BY <1>2, <1>3 DEF Along
<1>4. ASSUME NEW t \in Tasks, Enqueue(t) PROVE QueueEntries'
  <2>1. PICK s \in Slots :
          /\ FirstFree(s)
          /\ \/ Occupy(t, s)
             \/ ResetSlot(s) /\ UNCHANGED <<urgentQ, commonQ>>
    BY <1>4 DEF Enqueue
  <2>2. work' = work /\ workSlot' = workSlot
    BY <1>4 DEF Enqueue, ownerVars
  <2>3. state[s] = "free" /\ s \notin Waiting
    BY <2>1 DEF FirstFree, FreeSlots, QueueEntries
  <2>4. CASE Occupy(t, s)
    <3>1. /\ state'[s] = "queued"
          /\ \A r \in Slots \ {s} : state'[r] = state[r]
      BY <2>4 DEF Occupy, TypeOK
    <3>2. \/ urgentQ' = Append(urgentQ, s) /\ commonQ' = commonQ
          \/ urgentQ' = urgentQ /\ commonQ' = Append(commonQ, s)
      BY <2>4 DEF Occupy
    <3>3. Waiting' = Waiting \cup {s}
      BY ZenonT(60), <1>1, <3>2, AppendFacts DEF Waiting
    <3>4. \A q \in {urgentQ, commonQ} :
            /\ Once(Append(q, s))
            /\ InQueue(Append(q, s)) = InQueue(q) \cup {s}
            /\ s \notin InQueue(q)
      <4>1. ASSUME NEW q \in {urgentQ, commonQ}
            PROVE  q \in Seq(Slots) /\ Once(q) /\ s \notin InQueue(q)
        BY <1>1, <2>3, <4>1 DEF Waiting, QueueEntries
      <4> QED BY <4>1, AppendFacts
    <3>5. /\ Once(urgentQ') /\ Once(commonQ')
          /\ InQueue(urgentQ') \cap InQueue(commonQ') = {}
      BY <3>2, <3>4 DEF QueueEntries
    <3>6. \A r \in Waiting' : state'[r] \in {"queued", "abandoned"}
      BY <1>1, <3>1, <3>3 DEF QueueEntries
    <3>7. work' \in {"popped", "running"} =>
              workSlot' # s /\ state'[workSlot'] = state[workSlot]
      BY <1>1, <2>2, <2>3, <3>1 DEF QueueEntries
    <3> QED BY <2>2, <3>3, <3>5, <3>6, <3>7 DEF QueueEntries
  <2>5. CASE ResetSlot(s) /\ UNCHANGED <<urgentQ, commonQ>>
    BY <1>2, <2>2, <2>3, <2>5 DEF ResetSlot, TypeOK, Along
  <2> QED BY <2>1, <2>4, <2>5
<1>5. ASSUME NEW t \in Tasks, LeaveDone(t) \/ LeaveUndone(t) PROVE QueueEntries'
  <2>1. UNCHANGED <<urgentQ, commonQ, work, workSlot>>
    BY <1>5 DEF LeaveDone, LeaveUndone, ownerVars
  <2>2. LeaveDone(t) => Along
    BY <2>1 DEF LeaveDone, ResetSlot, TypeOK, Along
  <2>3. LeaveUndone(t) => Along
    BY <2>1 DEF LeaveUndone, TypeOK, Along
  <2> QED BY <1>2, <1>5, <2>2, <2>3
<1>6. CASE Reclaim
  BY <1>2, <1>6 DEF Reclaim, Reclaimable, ownerVars, Along
<1>7. ASSUME PopUrgent \/ PopCommon PROVE QueueEntries'
  <2>1. PICK q \in {urgentQ, commonQ} :
          /\ q # <<>> /\ work' = "popped" /\ workSlot' = Head(q) /\ state' = state
          /\ urgentQ' = IF PopUrgent THEN Tail(q) ELSE urgentQ
          /\ commonQ' = IF PopUrgent THEN commonQ ELSE Tail(q)
          /\ q = IF PopUrgent THEN urgentQ ELSE commonQ
    BY <1>7 DEF PopUrgent, PopCommon, slotVars
  <2>2. /\ q \in Seq(Slots) /\ Once(q)
        /\ Head(q) \in InQueue(q) /\ Head(q) \notin InQueue(Tail(q))
        /\ Once(Tail(q)) /\ InQueue(Tail(q)) \subseteq InQueue(q)
    BY <1>1, <2>1, TailFacts DEF QueueEntries
  <2>3. Once(urgentQ') /\ Once(commonQ')
    BY <2>1, <2>2 DEF QueueEntries
  <2>4. /\ InQueue(urgentQ') \cap InQueue(commonQ') = {}
        /\ Waiting' \subseteq Waiting
        /\ workSlot' \in Waiting /\ workSlot' \notin Waiting'
    BY <2>1, <2>2 DEF QueueEntries, Waiting
  <2> QED BY <2>1, <2>3, <2>4 DEF QueueEntries
<1>8. CASE DropCommand
  <2>1. work' = "none" /\ UNCHANGED <<urgentQ, commonQ>> /\ workSlot \notin Waiting
    BY <1>8 DEF DropCommand, QueueEntries
  <2>2. \A s \in Slots \ {workSlot} : state'[s] = state[s]
    BY <1>8 DEF DropCommand, ResetSlot, TypeOK
  <2> QED BY <1>1, <2>1, <2>2 DEF QueueEntries, Waiting
<1>9. ASSUME RefuseCommand \/ StartCommand \/ FinishCommand PROVE QueueEntries'
  <2>1. /\ work' \in {"none", "signal", "running"} /\ UNCHANGED <<urgentQ, commonQ, workSlot>>
        /\ workSlot \notin Waiting
        /\ work' = "running" => state'[workSlot] = "running"
    BY <1>1, <1>9 DEF RefuseCommand, StartCommand, FinishCommand, QueueEntries, TypeOK
  <2>2. \A s \in Slots \ {workSlot} : state'[s] = state[s]
    BY <1>9 DEF RefuseCommand, StartCommand, FinishCommand, ResetSlot, TypeOK
  <2> QED BY <1>1, <2>1, <2>2 DEF QueueEntries, Waiting
<1>10. CASE GiveCompleted
  BY <1>10 DEF GiveCompleted, QueueEntries, Waiting
<1>11. ASSUME NEW t \in Tasks,
              \/ CallCommon(t) \/ CallGated(t) \/ CallUrgent(t) \/ TakeSession(t)
              \/ GiveUpEarly(t) \/ SlotsFull(t) \/ Wake(t) \/ Expire(t)
              \/ LeaveUnlocked(t) \/ EsimBegin(t) \/ EsimTake(t) \/ EsimEnd(t)
       PROVE  QueueEntries'
  BY <1>3, <1>11
     DEF CallCommon, CallGated, CallUrgent, TakeSession, GiveUpEarly, SlotsFull, Wake,
         Expire, LeaveUnlocked, EsimBegin, EsimTake, EsimEnd, slotVars, ownerVars
<1>12. CASE \/ SmsSend \/ SmsReset \/ WebReset \/ MoveOn \/ StartReset
            \/ FinishReset(TRUE) \/ FinishReset(FALSE) \/ Reinitialise
            \/ UNCHANGED vars
  BY <1>3, <1>12
     DEF SmsSend, SmsReset, WebReset, RequestReset, MoveOn, StartReset, FinishReset,
         Reinitialise, slotVars, ownerVars, vars
<1> QED
  BY <1>4, <1>5, <1>6, <1>7, <1>8, <1>9, <1>10, <1>11, <1>12
     DEF Next, CallerStep, OwnerStep

-----------------------------------------------------------------------------
(* Whose the queued commands are *)

\* A command stays its caller's as long as nothing of it and its caller moves.
Kept ==
    \A s \in Slots : state'[s] = "queued" /\ ~gone'[s] =>
        /\ state[s] = "queued" /\ ~gone[s] /\ cmd'[s] = cmd[s]
        /\ cmd[s] \in Command =>
              /\ at[cmd[s].by] \in {"wait", "leave"} => at'[cmd[s].by] \in {"wait", "leave"}
              /\ ticket[cmd[s].by] = s => ticket'[cmd[s].by] = s
              /\ session = cmd[s].by => session' = cmd[s].by

LEMMA KeptOwned == Owned /\ Kept => Owned'
  BY DEF Owned, Kept

\* A caller's return is no matter to the commands of the others.
LEMMA ReturnKept ==
    ASSUME TypeOK, Owned, NEW t \in Tasks, NEW outcome, Return(t, outcome),
           \A s \in Slots : state'[s] = "queued" /\ ~gone'[s] =>
               /\ state[s] = "queued" /\ ~gone[s] /\ cmd'[s] = cmd[s]
               /\ ~(at[t] \in {"wait", "leave"} /\ ticket[t] = s)
    PROVE  Owned'
<1>1. /\ \A u \in Tasks \ {t} : at'[u] = at[u] /\ ticket'[u] = ticket[u]
      /\ \A u \in Tasks \ {t} : session = u => session' = u
  BY TaskAssumption DEF Return, TypeOK
<1>2. ASSUME NEW s \in Slots, state'[s] = "queued", ~gone'[s]
      PROVE  cmd[s] \in Command /\ cmd[s].by \in Tasks \ {t}
  <2>1. /\ cmd[s] \in Command /\ at[cmd[s].by] \in {"wait", "leave"}
        /\ ticket[cmd[s].by] = s
    BY <1>2 DEF Owned
  <2>2. cmd[s].by \in Tasks
    BY <2>1 DEF Command
  <2> QED BY <1>2, <2>1, <2>2
<1>3. Kept
  BY <1>1, <1>2 DEF Kept
<1> QED BY <1>3, KeptOwned

LEMMA OwnedNext ==
    TypeOK /\ CallerInv /\ QueueEntries /\ Owned /\ [Next]_vars => Owned'
<1> SUFFICES ASSUME TypeOK, CallerInv, QueueEntries, Owned, [Next]_vars PROVE Owned'
  OBVIOUS
<1>1. \A s \in Slots : cmd[s] \in Command => cmd[s].by \in Tasks
  BY DEF Command
<1>2. ASSUME UNCHANGED <<state, gone, cmd, at, ticket, session>> PROVE Owned'
  BY <1>2 DEF Owned
<1>3. ASSUME NEW t \in Tasks, CallGated(t) \/ GiveUpEarly(t) \/ SlotsFull(t)
      PROVE  Owned'
  <2>1. \E outcome : Return(t, outcome)
    BY <1>3 DEF CallGated, GiveUpEarly, SlotsFull
  <2>2. UNCHANGED <<state, gone, cmd>> /\ at[t] \notin {"wait", "leave"}
    BY <1>3 DEF CallGated, GiveUpEarly, SlotsFull, slotVars
  <2> QED BY <2>1, <2>2, ReturnKept
<1>4. ASSUME NEW t \in Tasks, LeaveDone(t) PROVE Owned'
  <2>1. ticket[t] \in Slots /\ state[ticket[t]] = "done"
    BY <1>4 DEF LeaveDone, CallerInv
  <2>2. ResetSlot(ticket[t]) /\ Return(t, result[ticket[t]])
    BY <1>4 DEF LeaveDone
  <2>3. \A s \in Slots : state'[s] = "queued" /\ ~gone'[s] =>
            s # ticket[t] /\ state[s] = "queued" /\ ~gone[s] /\ cmd'[s] = cmd[s]
    BY <2>1, <2>2 DEF ResetSlot, TypeOK
  <2> QED BY <2>2, <2>3, ReturnKept
<1>5. ASSUME NEW t \in Tasks, LeaveUndone(t) PROVE Owned'
  <2>1. Return(t, "timeout") /\ cmd' = cmd
    BY <1>5 DEF LeaveUndone
  <2>2. ticket[t] \in Slots
    BY <1>5 DEF LeaveUndone, CallerInv
  <2>3. \A s \in Slots : state'[s] = "queued" /\ ~gone'[s] =>
            s # ticket[t] /\ state[s] = "queued" /\ ~gone[s]
    BY <1>5, <2>2 DEF LeaveUndone, TypeOK
  <2> QED BY <2>1, <2>3, ReturnKept
<1>6. ASSUME NEW t \in Tasks, LeaveUnlocked(t) PROVE Owned'
  <2>1. Return(t, "timeout") /\ UNCHANGED <<state, cmd>>
    BY <1>6 DEF LeaveUnlocked
  <2>2. ticket[t] \in Slots
    BY <1>6 DEF LeaveUnlocked, CallerInv
  <2>3. \A s \in Slots : ~gone'[s] => s # ticket[t] /\ ~gone[s]
    BY <1>6, <2>2 DEF LeaveUnlocked, TypeOK
  <2> QED BY <2>1, <2>3, ReturnKept
<1>7. ASSUME NEW t \in Tasks, CallCommon(t) \/ CallUrgent(t) \/ TakeSession(t) PROVE Owned'
  <2>1. UNCHANGED <<state, gone, cmd, ticket>> /\ at[t] \notin {"wait", "leave"}
    BY <1>7 DEF CallCommon, CallUrgent, TakeSession, slotVars
  <2>2. \A u \in Tasks \ {t} : at'[u] = at[u]
    BY <1>7 DEF CallCommon, CallUrgent, TakeSession, TypeOK
  <2>3. \A u \in Tasks : session = u => session' = u
    BY <1>7, TaskAssumption DEF CallCommon, CallUrgent, TakeSession
  <2>4. Kept
    BY <1>1, <2>1, <2>2, <2>3 DEF Kept
  <2> QED BY <2>4, KeptOwned
<1>8. ASSUME NEW t \in Tasks, Wake(t) \/ Expire(t) PROVE Owned'
  <2>1. UNCHANGED <<state, cmd, ticket, session>> /\ \A s \in Slots : gone[s] => gone'[s]
    BY <1>8 DEF Wake, Expire, TypeOK
  <2>2. at'[t] = "leave" /\ \A u \in Tasks \ {t} : at'[u] = at[u]
    BY <1>8 DEF Wake, Expire, TypeOK
  <2>3. Kept
    BY <1>1, <2>1, <2>2 DEF Kept
  <2> QED BY <2>3, KeptOwned
<1>9. ASSUME NEW t \in Tasks, Enqueue(t) PROVE Owned'
  <2>1. PICK s \in Slots :
          /\ FirstFree(s)
          /\ \/ Occupy(t, s)
             \/ ResetSlot(s) /\ Return(t, "busy")
    BY <1>9 DEF Enqueue
  <2>2. at[t] = "enqueue" /\ state[s] = "free"
    BY <1>9, <2>1 DEF Enqueue, FirstFree, FreeSlots
  <2>3. CASE Occupy(t, s)
    <3>1. mine[t] \in Command /\ mine[t].by = t /\ (~mine[t].priority => session = t)
      BY <2>2 DEF CallerInv
    <3>2. /\ cmd'[s] = mine[t] /\ at'[t] = "wait" /\ ticket'[t] = s /\ session' = session
          /\ \A r \in Slots \ {s} : /\ state'[r] = state[r] /\ gone'[r] = gone[r]
                                   /\ cmd'[r] = cmd[r]
          /\ \A u \in Tasks \ {t} : at'[u] = at[u] /\ ticket'[u] = ticket[u]
      BY <2>3 DEF Occupy, TypeOK
    <3>3. ASSUME NEW r \in Slots \ {s}, state'[r] = "queued", ~gone'[r]
          PROVE  /\ cmd'[r] \in Command
                 /\ at'[cmd'[r].by] \in {"wait", "leave"}
                 /\ ticket'[cmd'[r].by] = r
                 /\ ~cmd'[r].priority => session' = cmd'[r].by
      <4>1. /\ cmd[r] \in Command /\ at[cmd[r].by] \in {"wait", "leave"}
            /\ ticket[cmd[r].by] = r
            /\ ~cmd[r].priority => session = cmd[r].by
        BY <3>2, <3>3 DEF Owned
      <4>2. cmd[r].by \in Tasks \ {t}
        BY <1>1, <2>2, <4>1
      <4> QED BY <3>2, <4>1, <4>2
    <3> QED BY <3>1, <3>2, <3>3 DEF Owned
  <2>4. CASE ResetSlot(s) /\ Return(t, "busy")
    <3>1. \A r \in Slots : state'[r] = "queued" /\ ~gone'[r] =>
              state[r] = "queued" /\ ~gone[r] /\ cmd'[r] = cmd[r]
      BY <2>4 DEF ResetSlot, TypeOK
    <3> QED BY <2>2, <2>4, <3>1, ReturnKept
  <2> QED BY <2>1, <2>3, <2>4
<1>10. ASSUME NEW t \in Tasks, EsimBegin(t) \/ EsimTake(t) PROVE Owned'
  <2>1. UNCHANGED <<state, gone, cmd, at, ticket>>
    BY <1>10 DEF EsimBegin, EsimTake, slotVars, taskVars
  <2>2. \A u \in Tasks : session = u => session' = u
    BY <1>10, TaskAssumption DEF EsimBegin, EsimTake
  <2>3. Kept
    BY <1>1, <2>1, <2>2 DEF Kept
  <2> QED BY <2>3, KeptOwned
<1>11. ASSUME NEW t \in Tasks, EsimEnd(t) PROVE Owned'
  <2>1. UNCHANGED <<state, gone, cmd, at, ticket>> /\ at[t] = "idle" /\ session = t
    BY <1>11 DEF EsimEnd, slotVars, taskVars, CallerInv
  <2> QED BY <1>1, <2>1 DEF Owned
<1>12. ASSUME Reclaim \/ DropCommand \/ RefuseCommand \/ StartCommand \/ FinishCommand
       PROVE  Owned'
  <2>1. UNCHANGED <<at, ticket, session>>
    BY <1>12 DEF Reclaim, DropCommand, RefuseCommand, StartCommand, FinishCommand, taskVars
  <2>2. \A s \in Slots : state'[s] = "queued" /\ ~gone'[s] =>
            state[s] = "queued" /\ ~gone[s] /\ cmd'[s] = cmd[s]
    BY <1>12 DEF Reclaim, Reclaimable, DropCommand, RefuseCommand, StartCommand,
                 FinishCommand, ResetSlot, TypeOK
  <2>3. Kept
    BY <2>1, <2>2 DEF Kept
  <2> QED BY <2>3, KeptOwned
<1>13. CASE \/ SmsSend \/ SmsReset \/ WebReset \/ PopUrgent \/ PopCommon \/ MoveOn
            \/ GiveCompleted \/ StartReset \/ FinishReset(TRUE) \/ FinishReset(FALSE)
            \/ Reinitialise \/ UNCHANGED vars
  BY <1>2, <1>13
     DEF SmsSend, SmsReset, WebReset, RequestReset, PopUrgent, PopCommon, MoveOn,
         GiveCompleted, StartReset, FinishReset, Reinitialise, slotVars, taskVars, vars
<1> QED
  BY <1>3, <1>4, <1>5, <1>6, <1>7, <1>8, <1>9, <1>10, <1>11, <1>12, <1>13
     DEF Next, CallerStep, OwnerStep

-----------------------------------------------------------------------------
LEMMA Inductive == Spec => []IndInv
<1>1. Init => CallerInv /\ QueueEntries /\ Owned
  BY DEF Init, CallerInv, KeepsSession, QueueEntries, Once, Waiting, InQueue, Owned
<1>2. Init => IndInv
  BY <1>1, TypeInit DEF IndInv
<1>3. IndInv /\ [Next]_vars => IndInv'
  BY TypeNext, CallerNext, EntriesNext, OwnedNext DEF IndInv
<1> QED BY <1>2, <1>3, PTL DEF Spec

\* Every variable of the model stays in its range.
THEOREM TypeCorrect == Spec => []TypeOK
  BY Inductive, PTL DEF IndInv

\* However callers time out, a slot is in the queues at most once and only
\* while it cannot be allocated, and the owner's slot is nobody else's.
THEOREM EntriesHold == Spec => []QueueEntries
  BY Inductive, PTL DEF IndInv

\* A caller that finds a free slot finds room in its queue: queue_full is
\* never the reason for a busy reply.
THEOREM QueueNeverFullHolds == Spec => []QueueNeverFull
<1>1. IndInv => QueueNeverFull
  <2> SUFFICES ASSUME IndInv, NEW s \in Slots, state[s] = "free"
               PROVE  HasRoom(urgentQ) /\ HasRoom(commonQ)
    BY DEF QueueNeverFull, FreeSlots
  <2>1. /\ urgentQ \in Seq(Slots) /\ Once(urgentQ) /\ s \notin InQueue(urgentQ)
        /\ commonQ \in Seq(Slots) /\ Once(commonQ) /\ s \notin InQueue(commonQ)
    BY DEF IndInv, TypeOK, QueueEntries, Waiting
  <2> QED BY <2>1, ShortQueue
<1> QED BY <1>1, Inductive, PTL

\* Both of them.
THEOREM QueuesExactHold == Spec => []QueuesExact
  BY EntriesHold, QueueNeverFullHolds, PTL DEF QueuesExact

\* An ordinary command starts on the modem only while its caller holds the
\* session: a command that was given up never starts in an eSIM operation.
THEOREM StartsInSessionHolds == Spec => StartsInSession
<1> DEFINE Start == \A s \in Slots :
              (state[s] = "queued" /\ state'[s] = "running" /\ ~cmd[s].priority)
                 => session = cmd[s].by
<1>1. IndInv /\ [Next]_vars => [Start]_vars
  <2> SUFFICES ASSUME IndInv, Next, NEW s \in Slots,
                      state[s] = "queued", state'[s] = "running", ~cmd[s].priority
               PROVE  session = cmd[s].by
    OBVIOUS
  <2>1. StartCommand /\ s = workSlot
    <3>1. \A t \in Tasks : ~CallerStep(t)
      BY DEF CallerStep, TakeSession, GiveUpEarly, SlotsFull, Enqueue, Occupy, Wake,
             Expire, LeaveDone, LeaveUndone, LeaveUnlocked, ResetSlot, slotVars,
             IndInv, TypeOK
    <3>2. \A t \in Tasks : ~(CallCommon(t) \/ CallGated(t) \/ CallUrgent(t)
                               \/ EsimBegin(t) \/ EsimTake(t) \/ EsimEnd(t))
      BY DEF CallCommon, CallGated, CallUrgent, EsimBegin, EsimTake, EsimEnd, slotVars
    <3>3. ~(SmsSend \/ SmsReset \/ WebReset \/ Reinitialise \/ StartReset
              \/ FinishReset(TRUE) \/ FinishReset(FALSE)
              \/ PopUrgent \/ PopCommon \/ MoveOn \/ GiveCompleted)
      BY DEF SmsSend, SmsReset, WebReset, RequestReset, Reinitialise, StartReset,
             FinishReset, PopUrgent, PopCommon, MoveOn, GiveCompleted, slotVars
    <3>4. ~(Reclaim \/ DropCommand \/ RefuseCommand \/ FinishCommand)
      <4>1. ~Reclaim
        BY DEF Reclaim
      <4>2. ~DropCommand
        BY DEF DropCommand, ResetSlot, IndInv, TypeOK
      <4>3. ~RefuseCommand
        BY DEF RefuseCommand, IndInv, TypeOK
      <4>4. ~FinishCommand
        BY DEF FinishCommand, ResetSlot, IndInv, TypeOK
      <4> QED BY <4>1, <4>2, <4>3, <4>4
    <3>5. StartCommand
      BY <3>1, <3>2, <3>3, <3>4 DEF Next, OwnerStep
    <3> QED BY <3>5 DEF StartCommand, IndInv, TypeOK
  <2>2. ~gone[s]
    BY <2>1 DEF StartCommand, Dropped
  <2> QED BY <2>2 DEF IndInv, Owned
<1> QED BY <1>1, Inductive, PTL DEF Spec, StartsInSession
-----------------------------------------------------------------------------
(* Without AT+CNMA *)

\* Every submitted command is ordinary: its caller holds the session from the
\* time it looks for a slot, and what its slot holds is its own.
OrdinaryInv ==
    \A t \in Tasks :
        /\ mine[t] # None => ~mine[t].priority
        /\ at[t] \in {"enqueue", "wait", "leave"} => session = t
        /\ at[t] \in {"wait", "leave"} /\ state[ticket[t]] # "free" =>
               cmd[ticket[t]] = mine[t]
        /\ got[t] \in {None, mine[t]}

\* Only Enqueue puts a command into a slot.
OnlyOut == \A s \in Slots : state'[s] # "free" => state[s] # "free" /\ cmd'[s] = cmd[s]

\* A caller that does not move keeps its own while nobody allocates.
LEMMA OthersOrdinary ==
    ASSUME TypeOK, CallerInv, OrdinaryInv, NEW u \in Tasks, OnlyOut,
           at'[u] = at[u], mine'[u] = mine[u], ticket'[u] = ticket[u],
           got'[u] \in {None, mine[u]}, session = u => session' = u
    PROVE  /\ mine'[u] # None => ~mine'[u].priority
           /\ at'[u] \in {"enqueue", "wait", "leave"} => session' = u
           /\ at'[u] \in {"wait", "leave"} /\ state'[ticket'[u]] # "free" =>
                  cmd'[ticket'[u]] = mine'[u]
           /\ got'[u] \in {None, mine'[u]}
<1>1. at[u] \in {"wait", "leave"} => ticket[u] \in Slots
  BY DEF CallerInv
<1> QED BY <1>1 DEF OrdinaryInv, OnlyOut

LEMMA OrdinaryNext ==
    IndInv /\ OrdinaryInv /\ [Next]_vars /\ acks' = 0 => OrdinaryInv'
<1> SUFFICES ASSUME IndInv, OrdinaryInv, [Next]_vars, acks' = 0 PROVE OrdinaryInv'
  OBVIOUS
<1>1. TypeOK /\ CallerInv
  BY DEF IndInv
<1>2. ASSUME NEW t \in Tasks, OnlyOut, at'[t] = "idle", mine' = mine,
             got'[t] \in {None, mine[t]},
             \A u \in Tasks \ {t} : /\ at'[u] = at[u] /\ ticket'[u] = ticket[u]
                                    /\ got'[u] = got[u]
                                    /\ session = u => session' = u
      PROVE  OrdinaryInv'
  <2>1. ASSUME NEW u \in Tasks \ {t}
        PROVE  /\ mine'[u] # None => ~mine'[u].priority
               /\ at'[u] \in {"enqueue", "wait", "leave"} => session' = u
               /\ at'[u] \in {"wait", "leave"} /\ state'[ticket'[u]] # "free" =>
                      cmd'[ticket'[u]] = mine'[u]
               /\ got'[u] \in {None, mine'[u]}
    <3>1. got'[u] \in {None, mine[u]}
      BY <1>2 DEF OrdinaryInv
    <3> QED BY <1>1, <1>2, <3>1, OthersOrdinary
  <2> QED BY <1>2, <2>1 DEF OrdinaryInv
<1>3. ASSUME NEW t \in Tasks, CallGated(t) \/ GiveUpEarly(t) \/ SlotsFull(t)
                                \/ LeaveUndone(t) \/ LeaveUnlocked(t)
      PROVE  OrdinaryInv'
  <2>1. PICK outcome : Return(t, outcome)
    BY <1>3 DEF CallGated, GiveUpEarly, SlotsFull, LeaveUndone, LeaveUnlocked
  <2>2. got' = got /\ OnlyOut
    BY <1>1, <1>3 DEF CallGated, GiveUpEarly, SlotsFull, LeaveUndone, LeaveUnlocked,
                      OnlyOut, slotVars, TypeOK
  <2>3. /\ at'[t] = "idle" /\ mine' = mine
        /\ \A u \in Tasks \ {t} : /\ at'[u] = at[u] /\ ticket'[u] = ticket[u]
                                  /\ session = u => session' = u
    BY <1>1, <2>1, TaskAssumption DEF Return, TypeOK
  <2>4. got[t] \in {None, mine[t]}
    BY DEF OrdinaryInv
  <2> QED BY <1>2, <2>2, <2>3, <2>4
<1>4. ASSUME NEW t \in Tasks, LeaveDone(t) PROVE OrdinaryInv'
  <2>1. /\ ticket[t] \in Slots /\ at[t] = "leave" /\ state[ticket[t]] = "done"
        /\ Return(t, result[ticket[t]]) /\ ResetSlot(ticket[t])
        /\ got' = [got EXCEPT ![t] = cmd[ticket[t]]]
    BY <1>1, <1>4 DEF LeaveDone, CallerInv
  <2>2. got'[t] = mine[t] /\ \A u \in Tasks \ {t} : got'[u] = got[u]
    BY <1>1, <2>1 DEF OrdinaryInv, TypeOK
  <2>3. OnlyOut
    BY <1>1, <2>1 DEF ResetSlot, OnlyOut, TypeOK
  <2>4. /\ at'[t] = "idle" /\ mine' = mine
        /\ \A u \in Tasks \ {t} : /\ at'[u] = at[u] /\ ticket'[u] = ticket[u]
                                  /\ session = u => session' = u
    BY <1>1, <2>1, TaskAssumption DEF Return, TypeOK
  <2> QED BY <1>2, <2>2, <2>3, <2>4
<1>5. ASSUME NEW t \in Tasks, Enqueue(t) PROVE OrdinaryInv'
  <2>1. PICK s \in Slots :
          /\ FirstFree(s)
          /\ \/ Occupy(t, s)
             \/ ResetSlot(s) /\ Return(t, "busy")
    BY <1>5 DEF Enqueue
  <2>2. /\ at[t] = "enqueue" /\ state[s] = "free" /\ got' = got /\ session = t
    BY <1>5, <2>1 DEF Enqueue, FirstFree, FreeSlots, OrdinaryInv
  <2>3. \A u \in Tasks \ {t} : at[u] \notin {"enqueue", "wait", "leave"}
    BY <2>2 DEF OrdinaryInv
  <2>4. CASE Occupy(t, s)
    <3>1. /\ cmd'[s] = mine[t] /\ at'[t] = "wait" /\ ticket'[t] = s
          /\ session' = session /\ mine' = mine
          /\ \A u \in Tasks \ {t} : at'[u] = at[u]
      BY <1>1, <2>4 DEF Occupy, TypeOK
    <3> QED BY <2>2, <2>3, <3>1 DEF OrdinaryInv
  <2>5. CASE ResetSlot(s) /\ Return(t, "busy")
    <3>1. /\ at'[t] = "idle" /\ mine' = mine
          /\ \A u \in Tasks \ {t} : at'[u] = at[u]
      BY <1>1, <2>5 DEF Return, TypeOK
    <3> QED BY <2>2, <2>3, <3>1 DEF OrdinaryInv
  <2> QED BY <2>1, <2>4, <2>5
<1>6. ASSUME NEW t \in Tasks, CallCommon(t) PROVE OrdinaryInv'
  <2>1. /\ ~mine'[t].priority /\ at'[t] = "session" /\ got'[t] = None
        /\ \A u \in Tasks \ {t} : /\ at'[u] = at[u] /\ mine'[u] = mine[u]
                                  /\ got'[u] = got[u]
        /\ UNCHANGED <<state, cmd, ticket, session>>
    BY <1>1, <1>6 DEF CallCommon, TypeOK, slotVars
  <2> QED BY <2>1 DEF OrdinaryInv
<1>7. ASSUME NEW t \in Tasks PROVE ~CallUrgent(t)
  <2>1. acks \in Nat => acks + 1 # 0
    OBVIOUS
  <2> QED BY <1>1, <2>1 DEF CallUrgent, TypeOK
<1>8. ASSUME NEW t \in Tasks, TakeSession(t) PROVE OrdinaryInv'
  <2>1. /\ at[t] = "session" /\ at'[t] = "enqueue" /\ session' = t /\ session \in {None, t}
        /\ \A u \in Tasks \ {t} : at'[u] = at[u]
        /\ UNCHANGED <<state, cmd, mine, got, ticket>>
    BY <1>1, <1>8 DEF TakeSession, TypeOK, slotVars
  <2>2. \A u \in Tasks \ {t} : at'[u] \notin {"enqueue", "wait", "leave"}
    BY <2>1, TaskAssumption DEF OrdinaryInv
  <2> QED BY <2>1, <2>2 DEF OrdinaryInv
<1>9. ASSUME NEW t \in Tasks, Wake(t) \/ Expire(t) PROVE OrdinaryInv'
  <2>1. /\ at[t] = "wait" /\ at'[t] = "leave"
        /\ \A u \in Tasks \ {t} : at'[u] = at[u]
        /\ UNCHANGED <<state, cmd, mine, got, ticket, session>>
    BY <1>1, <1>9 DEF Wake, Expire, TypeOK
  <2> QED BY <2>1 DEF OrdinaryInv
<1>10. ASSUME UNCHANGED <<at, mine, got, ticket>>, OnlyOut,
              \A u \in Tasks : at[u] # "idle" /\ session = u => session' = u
       PROVE  OrdinaryInv'
  <2>1. \A u \in Tasks : at[u] \in {"wait", "leave"} => ticket[u] \in Slots
    BY <1>1 DEF CallerInv
  <2> QED BY <1>10, <2>1 DEF OrdinaryInv, OnlyOut
<1>11. ASSUME NEW t \in Tasks, EsimBegin(t) \/ EsimTake(t) \/ EsimEnd(t) PROVE OrdinaryInv'
  <2>1. UNCHANGED <<at, mine, got, ticket, state, cmd>>
    BY <1>11 DEF EsimBegin, EsimTake, EsimEnd, slotVars, taskVars
  <2>2. \A u \in Tasks : at[u] # "idle" /\ session = u => session' = u
    BY <1>1, <1>11, TaskAssumption DEF EsimBegin, EsimTake, EsimEnd, CallerInv
  <2> QED BY <1>10, <2>1, <2>2 DEF OnlyOut
<1>12. ASSUME Reclaim \/ DropCommand \/ RefuseCommand \/ StartCommand \/ FinishCommand
       PROVE  OrdinaryInv'
  <2>1. UNCHANGED <<at, mine, got, ticket, session>>
    BY <1>12 DEF Reclaim, DropCommand, RefuseCommand, StartCommand, FinishCommand, taskVars
  <2>2. Reclaim => OnlyOut
    BY DEF Reclaim, OnlyOut
  <2>3. workSlot \in Slots
    BY <1>1 DEF TypeOK
  <2>4. DropCommand => OnlyOut
    BY <1>1, <2>3 DEF DropCommand, ResetSlot, OnlyOut, TypeOK
  <2>5. RefuseCommand \/ StartCommand => OnlyOut
    BY <1>1, <2>3 DEF RefuseCommand, StartCommand, OnlyOut, TypeOK
  <2>6. FinishCommand => OnlyOut
    <3>1. work = "running" => state[workSlot] # "free"
      BY DEF IndInv, QueueEntries
    <3> QED BY <1>1, <2>3, <3>1 DEF FinishCommand, ResetSlot, OnlyOut, TypeOK
  <2> QED BY <1>10, <1>12, <2>1, <2>2, <2>4, <2>5, <2>6
<1>13. CASE \/ SmsSend \/ SmsReset \/ WebReset \/ PopUrgent \/ PopCommon \/ MoveOn
            \/ GiveCompleted \/ StartReset \/ FinishReset(TRUE) \/ FinishReset(FALSE)
            \/ Reinitialise \/ UNCHANGED vars
  <2>1. UNCHANGED <<at, mine, got, ticket, session, state, cmd>>
    BY <1>13
       DEF SmsSend, SmsReset, WebReset, RequestReset, PopUrgent, PopCommon, MoveOn,
           GiveCompleted, StartReset, FinishReset, Reinitialise, slotVars, taskVars, vars
  <2> QED BY <1>10, <2>1 DEF OnlyOut
<1> QED
  BY <1>3, <1>4, <1>5, <1>6, <1>7, <1>8, <1>9, <1>11, <1>12, <1>13
     DEF Next, CallerStep, OwnerStep

\* AT+CNMA commands are only ever added.
LEMMA AcksKept == TypeOK /\ [Next]_vars /\ acks' = 0 => acks = 0
<1> SUFFICES ASSUME TypeOK, [Next]_vars, acks' # acks PROVE acks' # 0
  BY DEF TypeOK
<1>1. \E t \in Tasks : CallUrgent(t)
  <2>1. \A t \in Tasks : ~CallCommon(t) /\ ~CallGated(t)
    BY DEF CallCommon, CallGated, bounds
  <2>2. \A t \in Tasks : ~CallerStep(t)
    BY DEF CallerStep, TakeSession, GiveUpEarly, SlotsFull, Enqueue, Wake, Expire,
           LeaveDone, LeaveUndone, LeaveUnlocked, bounds
  <2>3. \A t \in Tasks : ~EsimBegin(t) /\ ~EsimTake(t) /\ ~EsimEnd(t)
    BY DEF EsimBegin, EsimTake, EsimEnd, bounds
  <2>4. ~SmsSend /\ ~SmsReset /\ ~WebReset
    BY DEF SmsSend, SmsReset, WebReset, RequestReset, bounds
  <2>5. ~OwnerStep /\ ~Reclaim /\ ~Reinitialise /\ ~UNCHANGED vars
    BY DEF OwnerStep, PopUrgent, PopCommon, MoveOn, DropCommand, RefuseCommand,
           StartCommand, FinishCommand, GiveCompleted, StartReset, FinishReset,
           Reclaim, Reinitialise, bounds, vars
  <2> QED BY <2>1, <2>2, <2>3, <2>4, <2>5 DEF Next
<1>2. acks' = acks + 1 /\ acks \in Nat
  BY <1>1 DEF CallUrgent, TypeOK
<1> QED BY <1>2

\* Until the first AT+CNMA, every answer is the answer to the caller's own
\* command: the session mutex keeps the slot from being allocated again before
\* its caller has left, however late that caller is.
THEOREM OrdinaryAnswersAreOwn == Spec => []OrdinaryAnswerIsOwn
<1> DEFINE Inv == acks = 0 => OrdinaryInv
<1>1. Init => Inv
  BY DEF Init, OrdinaryInv
<1>2. IndInv /\ Inv /\ [Next]_vars => Inv'
  BY OrdinaryNext, AcksKept DEF IndInv
<1>3. Inv => OrdinaryAnswerIsOwn
  BY DEF OrdinaryInv, OrdinaryAnswerIsOwn, AnswerIsOwn
<1> QED BY <1>1, <1>2, <1>3, Inductive, PTL DEF Spec

-----------------------------------------------------------------------------
(* Bring-up and health (ModemHealth)                                       *)

\* The parts of the invariant that a step may disturb, by what they are about.
PinTypes ==
    /\ s10 \in BOOLEAN /\ s11 \in 0 .. PinLimit /\ s12 \in BOOLEAN
    /\ s15 \in Nat /\ s16 \in Nat
ResetTypes == s13 \in 0 .. RetryLimit /\ s14 \in 0 .. RetryLimit /\ s17 \in Nat
Requests == s5 \in {"none", "soft", "hard"} /\ s6 \in BOOLEAN /\ s7 \in {"none", "pin", "puk"}
Stages == {"start", "boot", "waiting", "top", "restarted", "unlock", "data", "probe"}

LEMMA HealthParts ==
    H!IInv <=> /\ s1 \in H!Modems /\ s2 \in H!Statuses /\ s3 \in H!Owners /\ s4 \in Stages
               /\ Requests /\ s8 \in 0 .. DataRetries /\ s9 \in BOOLEAN
               /\ PinTypes /\ H!PinCounted /\ ResetTypes /\ H!ResetsCounted
               /\ s18 \in 0 .. MaxEvents /\ s19 \in 0 .. MaxFaults
  BY DEF H!IInv, H!TypeOK, PinTypes, ResetTypes, Requests, Stages

LEMMA HealthSound ==
    ASSUME s1' \in H!Modems, s2' \in H!Statuses, s3' \in H!Owners, s4' \in Stages,
           Requests', s8' \in 0 .. DataRetries, s9' \in BOOLEAN,
           PinTypes', H!PinCounted', ResetTypes', H!ResetsCounted',
           s18' \in 0 .. MaxEvents, s19' \in 0 .. MaxFaults
    PROVE  H!IInv'
  BY DEF H!IInv, H!TypeOK, PinTypes, ResetTypes, Requests, Stages

LEMMA PinsUnchanged ==
    ASSUME PinTypes, H!PinCounted, UNCHANGED <<s10, s11, s12, s15, s16>>
    PROVE  PinTypes' /\ H!PinCounted'
  BY DEF PinTypes, H!PinCounted

LEMMA ResetsUnchanged ==
    ASSUME ResetTypes, H!ResetsCounted, UNCHANGED <<s13, s14, s17>>
    PROVE  ResetTypes' /\ H!ResetsCounted'
  BY DEF ResetTypes, H!ResetsCounted

LEMMA FaultCounted ==
    ASSUME H!HealthAssumption, NEW f \in BOOLEAN, s19 \in 0 .. MaxFaults,
           f => s19 < MaxFaults, H!Counted(f)
    PROVE  s19' \in 0 .. MaxFaults
  BY DEF H!HealthAssumption, H!Counted

LEMMA MayFailIs == H!MayFail \subseteq BOOLEAN /\ (TRUE \in H!MayFail => s19 < MaxFaults)
  BY DEF H!MayFail

LEMMA OneMoreAttempt ==
    ASSUME NEW n \in Nat, NEW k \in 0 .. n, NEW w \in Nat, NEW l \in Nat, w <= k + l, k < n
    PROVE  /\ k + 1 \in 0 .. n /\ w + 1 \in Nat /\ l + 1 \in Nat
           /\ w + 1 <= (k + 1) + l /\ w + 1 <= n + l
           /\ w + 1 <= k + (l + 1) /\ w + 1 <= n + (l + 1)
  OBVIOUS

\* What try_unlock_sim may come to: no more attempts than are counted or lost.
LEMMA UnlockFacts ==
    ASSUME H!HealthAssumption, H!IInv, NEW puk \in BOOLEAN, NEW t \in BOOLEAN,
           NEW u \in H!Unlocks(puk, t)
    PROVE  /\ u.ok \in BOOLEAN /\ u.sim \in H!Cards \cup {"unknown"} /\ u.card \in H!Cards
           /\ u.tries \in 0 .. 2 /\ u.tried \in BOOLEAN /\ u.failed \in 0 .. PinLimit
           /\ u.wrong \in Nat /\ u.lost \in Nat /\ u.fault \in BOOLEAN
           /\ u.fault => s19 < MaxFaults
           /\ ~(s12 \/ (s1.card = "puk" /\ u.ok)) => u.wrong <= u.failed + u.lost
           /\ u.wrong <= PinLimit + u.lost
<1>1. /\ s1.card \in H!Cards /\ s1.tries \in 0 .. 2 /\ s1.alive \in BOOLEAN
      /\ s2.sim \in H!Cards \cup {"unknown"}
      /\ s11 \in 0 .. PinLimit /\ s12 \in BOOLEAN /\ s15 \in Nat /\ s16 \in Nat
      /\ PinLimit \in Nat
      /\ ~s12 => s15 <= s11 + s16
      /\ s15 <= PinLimit + s16
  BY HealthParts DEF H!Modems, H!Statuses, PinTypes, H!PinCounted, H!HealthAssumption
<1> DEFINE Nothing(ok, sim, f) == H!Unsubmitted(ok, sim, t, f)
<1>2. ASSUME NEW ok \in BOOLEAN, NEW sim \in H!Cards \cup {"unknown"}, NEW f \in BOOLEAN,
             u = Nothing(ok, sim, f)
      PROVE  /\ u.ok = ok /\ u.sim \in H!Cards \cup {"unknown"} /\ u.card = s1.card
             /\ u.tries = s1.tries /\ u.tried = t /\ u.failed = s11 /\ u.wrong = s15
             /\ u.lost = s16 /\ u.fault = f
  BY <1>1, <1>2 DEF H!Unsubmitted, H!Outcome
<1>3. CASE \E f \in H!MayFail \ {FALSE} : u = Nothing(FALSE, "unknown", TRUE)
  <2>1. s19 < MaxFaults
    BY <1>3 DEF H!MayFail
  <2> QED BY <1>1, <1>2, <1>3, <2>1
<1>4. CASE u = Nothing(FALSE, "unknown", FALSE)
  BY <1>1, <1>2, <1>4
<1>5. CASE u = H!Outcome(TRUE, "ready", "ready", 0, FALSE, 0, s15, s16, FALSE)
           /\ (s12 \/ s1.card = "puk")
  <2>1. /\ u.ok = TRUE /\ u.sim = "ready" /\ u.card = "ready" /\ u.tries = 0 /\ u.tried = FALSE
        /\ u.failed = 0 /\ u.wrong = s15 /\ u.lost = s16 /\ u.fault = FALSE
    BY <1>5 DEF H!Outcome
  <2>2. s12 \/ (s1.card = "puk" /\ u.ok)
    BY <1>5, <2>1
  <2>3. u.failed \in 0 .. PinLimit /\ u.tries \in 0 .. 2 /\ u.wrong <= PinLimit + u.lost
    BY <1>1, <2>1
  <2> QED BY <1>1, <2>1, <2>2, <2>3 DEF H!Cards
<1>6. CASE u = Nothing(s1.card = "ready", s1.card, FALSE)
  <2>1. (s1.card = "ready") \in BOOLEAN /\ s1.card \in H!Cards \cup {"unknown"}
    BY <1>1
  <2> QED BY <1>1, <1>2, <1>6, <2>1
<1>7. ASSUME ~s12, s11 < PinLimit, NEW f \in H!MayFail,
             u = H!Outcome(FALSE, "pin", IF s1.tries = 2 THEN "puk" ELSE "pin",
                           (s1.tries + 1) % 3, TRUE, IF f THEN s11 ELSE s11 + 1,
                           s15 + 1, IF f THEN s16 + 1 ELSE s16, f)
      PROVE  /\ u.ok \in BOOLEAN /\ u.sim \in H!Cards \cup {"unknown"} /\ u.card \in H!Cards
             /\ u.tries \in 0 .. 2 /\ u.tried \in BOOLEAN /\ u.failed \in 0 .. PinLimit
             /\ u.wrong \in Nat /\ u.lost \in Nat /\ u.fault \in BOOLEAN
             /\ u.fault => s19 < MaxFaults
             /\ u.wrong <= u.failed + u.lost
             /\ u.wrong <= PinLimit + u.lost
  <2>1. /\ u.ok = FALSE /\ u.sim = "pin" /\ u.card = (IF s1.tries = 2 THEN "puk" ELSE "pin")
        /\ u.tries = (s1.tries + 1) % 3 /\ u.tried = TRUE
        /\ u.failed = (IF f THEN s11 ELSE s11 + 1) /\ u.wrong = s15 + 1
        /\ u.lost = (IF f THEN s16 + 1 ELSE s16) /\ u.fault = f
    BY <1>7 DEF H!Outcome
  <2>2. f \in BOOLEAN /\ (f => s19 < MaxFaults)
    BY <1>7 DEF H!MayFail
  <2>3. (s1.tries + 1) % 3 \in 0 .. 2
    BY <1>1
  <2>4. u.card \in H!Cards
    BY <2>1 DEF H!Cards
  <2>5. u.failed \in 0 .. PinLimit /\ u.wrong \in Nat /\ u.lost \in Nat
        /\ u.wrong <= u.failed + u.lost /\ u.wrong <= PinLimit + u.lost
    <3>0. /\ s11 + 1 \in 0 .. PinLimit /\ s15 + 1 \in Nat /\ s16 + 1 \in Nat
          /\ s15 + 1 <= (s11 + 1) + s16 /\ s15 + 1 <= PinLimit + s16
          /\ s15 + 1 <= s11 + (s16 + 1) /\ s15 + 1 <= PinLimit + (s16 + 1)
      BY <1>1, <1>7, OneMoreAttempt
    <3>1. CASE f
      <4>1. u.failed = s11 /\ u.wrong = s15 + 1 /\ u.lost = s16 + 1
        BY <2>1, <3>1
      <4> QED BY <1>1, <3>0, <4>1
    <3>2. CASE ~f
      <4>1. u.failed = s11 + 1 /\ u.wrong = s15 + 1 /\ u.lost = s16
        BY <2>1, <3>2
      <4> QED BY <1>1, <3>0, <4>1
    <3> QED BY <2>2, <3>1, <3>2
  <2> QED BY <2>1, <2>2, <2>3, <2>4, <2>5 DEF H!Cards
<1>8. \/ \E f \in H!MayFail \ {FALSE} : u = Nothing(FALSE, "unknown", TRUE)
      \/ u = Nothing(FALSE, "unknown", FALSE)
      \/ /\ u = H!Outcome(TRUE, "ready", "ready", 0, FALSE, 0, s15, s16, FALSE)
         /\ (s12 \/ s1.card = "puk")
      \/ u = Nothing(s1.card = "ready", s1.card, FALSE)
      \/ ~s12 /\ s11 < PinLimit /\ u \in H!Submitted
  <2>1. \/ \E f \in H!MayFail \ {FALSE} : u = Nothing(FALSE, "unknown", TRUE)
        \/ u = Nothing(FALSE, "unknown", FALSE)
        \/ u = H!Outcome(TRUE, "ready", "ready", 0, FALSE, 0, s15, s16, FALSE) /\ s1.card = "puk"
        \/ u = Nothing(s1.card = "ready", s1.card, FALSE)
        \/ ~(s11 >= PinLimit) /\ u \in H!Submitted
    BY DEF H!Unlocks
  <2>2. ~(s11 >= PinLimit) => s11 < PinLimit
    BY <1>1
  <2>3. s12 /\ u \in H!Submitted
        => u = H!Outcome(TRUE, "ready", "ready", 0, FALSE, 0, s15, s16, FALSE)
    BY DEF H!Submitted
  <2> QED BY <2>1, <2>2, <2>3
<1>9. CASE ~s12 /\ s11 < PinLimit /\ u \in H!Submitted
  <2>1. PICK f \in H!MayFail :
           u = H!Outcome(FALSE, "pin", IF s1.tries = 2 THEN "puk" ELSE "pin",
                         (s1.tries + 1) % 3, TRUE, IF f THEN s11 ELSE s11 + 1,
                         s15 + 1, IF f THEN s16 + 1 ELSE s16, f)
    BY <1>9 DEF H!Submitted
  <2> QED BY <1>7, <1>9, <2>1
<1> QED BY <1>3, <1>4, <1>5, <1>6, <1>8, <1>9

\* What an attempt leaves behind.
LEMMA UnlockedKeeps ==
    ASSUME H!HealthAssumption, H!IInv, NEW puk \in BOOLEAN, NEW t \in BOOLEAN,
           NEW u \in H!Unlocks(puk, t), NEW g \in H!MayFail, ~(u.fault /\ g), g => u.ok,
           H!Unlocked(u, s1, g), H!Counted(u.fault \/ g)
    PROVE  /\ s1' \in H!Modems /\ s9' \in BOOLEAN /\ PinTypes' /\ H!PinCounted'
           /\ s19' \in 0 .. MaxFaults
<1>1. /\ u.ok \in BOOLEAN /\ u.card \in H!Cards
      /\ u.tries \in 0 .. 2 /\ u.tried \in BOOLEAN /\ u.failed \in 0 .. PinLimit
      /\ u.wrong \in Nat /\ u.lost \in Nat /\ u.fault \in BOOLEAN
      /\ u.fault => s19 < MaxFaults
      /\ ~(s12 \/ (s1.card = "puk" /\ u.ok)) => u.wrong <= u.failed + u.lost
      /\ u.wrong <= PinLimit + u.lost
  BY UnlockFacts
<1>2. s1 \in H!Modems /\ s9 \in BOOLEAN /\ s12 \in BOOLEAN /\ s19 \in 0 .. MaxFaults
  BY HealthParts DEF PinTypes
<1>3. PICK s \in IF u.ok THEN H!Taken(s1, g) ELSE {s1.sms} :
        /\ s1' = [s1 EXCEPT !.card = u.card, !.tries = u.tries, !.sms = s]
        /\ s9' = (IF u.ok THEN ~("storage" \in s) ELSE s9)
        /\ s10' = u.tried /\ s11' = u.failed /\ s15' = u.wrong /\ s16' = u.lost
        /\ s12' = (s12 \/ (s1.card = "puk" /\ u.ok))
  BY DEF H!Unlocked
<1>4. s \in SUBSET SmsSettings
  BY <1>2, <1>3 DEF H!Taken, H!Modems
<1>5. s1' \in H!Modems
  BY <1>1, <1>2, <1>3, <1>4 DEF H!Modems
<1>6. s9' \in BOOLEAN
  BY <1>2, <1>3
<1>7. PinTypes'
  BY <1>1, <1>2, <1>3 DEF PinTypes
<1>8. H!PinCounted'
  BY <1>1, <1>3 DEF H!PinCounted
<1>9. g \in BOOLEAN /\ (g => s19 < MaxFaults)
  BY MayFailIs
<1>10. s19' \in 0 .. MaxFaults
  BY <1>1, <1>2, <1>9, FaultCounted
<1> QED BY <1>5, <1>6, <1>7, <1>8, <1>10

\* Data mode and roaming policy leave truth values.
LEMMA DataFacts ==
    ASSUME H!HealthAssumption, s1 \in H!Modems, s2 \in H!Statuses, NEW s, NEW f
    PROVE  /\ H!DataMode(s, f).ok \in BOOLEAN /\ H!DataMode(s, f).pdp \in BOOLEAN
           /\ H!DataMode(s, f).ip \in BOOLEAN
           /\ H!AfterRegistration(s, f).ok \in BOOLEAN
           /\ H!AfterRegistration(s, f).pdp \in BOOLEAN
           /\ H!AfterRegistration(s, f).ip \in BOOLEAN
<1> DEFINE d == H!DataMode(s, f)
<1>1. d \in [ok : BOOLEAN, pdp : BOOLEAN, ip : BOOLEAN]
  BY DEF H!DataMode, H!HealthAssumption, H!Modems, H!Statuses
<1> HIDE DEF d
<1>2. H!Policy(d, s) \in [ok : BOOLEAN, pdp : BOOLEAN, ip : BOOLEAN]
  BY <1>1 DEF H!Policy
<1>3. H!AfterRegistration(s, f) = H!Policy(d, s)
  BY DEF H!AfterRegistration, d
<1> QED BY <1>1, <1>2, <1>3 DEF d

LEMMA RegistrationIs == ASSUME s1 \in H!Modems PROVE H!Registration(s1) \in H!Nets
  BY DEF H!Registration, H!Modems, H!Nets

LEMMA StatusFacts ==
    ASSUME s2 \in H!Statuses, NEW isReady \in BOOLEAN, NEW sim \in H!Cards \cup {"unknown"},
           NEW net \in H!Nets, NEW ip \in BOOLEAN
    PROVE  /\ H!Invalid(isReady) \in H!Statuses
           /\ [H!Invalid(isReady) EXCEPT !.sim = sim] \in H!Statuses
           /\ [s2 EXCEPT !.sim = sim] \in H!Statuses
           /\ [s2 EXCEPT !.cereg = net] \in H!Statuses
           /\ [s2 EXCEPT !.cereg = net, !.ip = ip] \in H!Statuses
           /\ [s2 EXCEPT !.ip = ip] \in H!Statuses
           /\ H!Off \in H!Statuses
           /\ [H!Off EXCEPT !.sim = sim, !.atReady = isReady] \in H!Statuses
<1>1. H!Invalid(isReady) \in H!Statuses
  BY DEF H!Invalid, H!Statuses
<1>2. H!Off \in H!Statuses
  BY DEF H!Off, H!Statuses
<1> QED BY <1>1, <1>2 DEF H!Statuses

LEMMA ModemFacts ==
    ASSUME H!HealthAssumption, NEW m \in H!Modems
    PROVE  /\ H!Restarted(m) \in H!Modems
           /\ \A f \in BOOLEAN : [m EXCEPT !.alive = f] \in H!Modems
           /\ \A b \in BOOLEAN : [m EXCEPT !.pdp = b] \in H!Modems
           /\ \A b \in BOOLEAN, t \in SUBSET SmsSettings :
                [m EXCEPT !.pdp = b, !.sms = t] \in H!Modems
           /\ \A t \in SUBSET SmsSettings : [m EXCEPT !.sms = t] \in H!Modems
<1>1. H!Restarted(m) \in H!Modems
  <2>1. (IF m.card = "ready" /\ HasPin THEN "pin" ELSE m.card) \in H!Cards
    BY DEF H!Modems, H!Cards
  <2> QED BY <2>1 DEF H!Restarted, H!Modems
<1> QED BY <1>1 DEF H!Modems

LEMMA OwnerFacts ==
    ASSUME H!HealthAssumption, NEW o \in H!Owners
    PROVE  /\ H!Fresh \in H!Owners
           /\ \A b \in BOOLEAN : [H!Fresh EXCEPT !.simReady = b] \in H!Owners
           /\ \A sim : H!Forgotten(o, sim) \in H!Owners
<1>1. 0 \in 0 .. FailLimit /\ 0 \in 0 .. DeregLimit
  BY DEF H!HealthAssumption
<1>2. H!Fresh \in H!Owners
  BY <1>1 DEF H!Fresh, H!Owners
<1>3. \A b \in BOOLEAN : [H!Fresh EXCEPT !.simReady = b] \in H!Owners
  BY <1>2 DEF H!Owners
<1>4. ASSUME NEW sim PROVE H!Forgotten(o, sim) \in H!Owners
  <2>1. (sim = "ready") \in BOOLEAN
    OBVIOUS
  <2> DEFINE p == [o EXCEPT !.simReady = sim = "ready", !.registered = FALSE, !.done = FALSE]
             q == [p EXCEPT !.fails = 0, !.deregs = 0, !.present = "unknown", !.reconf = TRUE]
  <2>2. p \in H!Owners
    BY <2>1 DEF H!Owners
  <2>3. q \in H!Owners
    <3> HIDE DEF p
    <3> QED BY <1>1, <2>2 DEF H!Owners
  <2>4. H!Forgotten(o, sim) = q
    BY DEF H!Forgotten, H!Owners
  <2> QED BY <2>3, <2>4
<1> QED BY <1>2, <1>3, <1>4

-----------------------------------------------------------------------------
(* modem_task's steps *)

LEMMA StartUpKeeps == ASSUME H!HealthAssumption, H!IInv, H!StartUp PROVE H!IInv'
<1>1. PICK f \in H!MayFail :
        /\ \/ s1' = H!Cycled(f) /\ s5' = (IF f THEN "none" ELSE s5)
           \/ s1.alive /\ ~f /\ UNCHANGED <<s1, s5>>
        /\ H!Counted(f)
  BY DEF H!StartUp
<1>2. f \in BOOLEAN /\ (f => s19 < MaxFaults)
  BY MayFailIs
<1>3. s1' \in H!Modems
  <2>1. H!Restarted(s1) \in H!Modems
    BY HealthParts, ModemFacts
  <2>2. H!Cycled(f) \in H!Modems
    BY <1>2, <2>1 DEF H!Cycled, H!Modems
  <2> QED BY <1>1, <2>2, HealthParts
<1>4. Requests'
  BY <1>1, HealthParts DEF H!StartUp, Requests
<1>5. s1'.alive \in BOOLEAN /\ s2.sim \in H!Cards \cup {"unknown"}
  BY <1>3, HealthParts DEF H!Modems, H!Statuses
<1>6. s2' \in H!Statuses
  BY <1>5, HealthParts, StatusFacts DEF H!StartUp, H!Nets
<1>7. s4' \in Stages
  BY DEF H!StartUp, Stages
<1>8. s19' \in 0 .. MaxFaults
  BY <1>1, <1>2, HealthParts, FaultCounted
<1>9. UNCHANGED <<s3, s8, s9, s18>> /\ UNCHANGED <<s10, s11, s12, s15, s16>>
      /\ UNCHANGED <<s13, s14, s17>>
  BY DEF H!StartUp, H!pinVars, H!healthVars
<1> QED BY <1>3, <1>4, <1>6, <1>7, <1>8, <1>9, HealthParts, HealthSound,
       PinsUnchanged, ResetsUnchanged

LEMMA FirstUnlockKeeps == ASSUME H!HealthAssumption, H!IInv, H!FirstUnlock PROVE H!IInv'
<1>1. PICK u \in H!Unlocks(FALSE, s10), g \in H!MayFail :
        /\ ~(u.fault /\ g) /\ (g => u.ok) /\ H!Unlocked(u, s1, g) /\ H!Counted(u.fault \/ g)
        /\ s2' = [s2 EXCEPT !.sim = u.sim]
        /\ s3' = [H!Fresh EXCEPT !.simReady = u.ok]
        /\ s4' = (IF u.ok THEN "waiting" ELSE "top")
  BY DEF H!FirstUnlock
<1>2. s10 \in BOOLEAN
  BY HealthParts DEF PinTypes
<1>3. /\ s1' \in H!Modems /\ s9' \in BOOLEAN /\ PinTypes' /\ H!PinCounted'
      /\ s19' \in 0 .. MaxFaults
  BY <1>1, <1>2, UnlockedKeeps
<1>4. u.ok \in BOOLEAN /\ u.sim \in H!Cards \cup {"unknown"}
  BY <1>2, UnlockFacts
<1>5. s2' \in H!Statuses
  BY <1>1, <1>4, HealthParts, StatusFacts DEF H!Nets
<1>6. s3' \in H!Owners
  BY <1>1, <1>4, HealthParts, OwnerFacts
<1>7. s4' \in Stages
  BY <1>1 DEF Stages
<1>8. UNCHANGED <<s5, s6, s7, s8, s18>> /\ UNCHANGED <<s13, s14, s17>>
  BY DEF H!FirstUnlock, H!healthVars
<1>9. Requests'
  BY <1>8, HealthParts DEF Requests
<1> QED BY <1>3, <1>5, <1>6, <1>7, <1>8, <1>9, HealthParts, HealthSound,
       ResetsUnchanged

LEMMA WaitKeeps == ASSUME H!HealthAssumption, H!IInv, H!Wait PROVE H!IInv'
<1> DEFINE s == H!Registration(s1)
<1>1. UNCHANGED <<s5, s6, s7, s18>> /\ UNCHANGED <<s10, s11, s12, s15, s16>>
      /\ UNCHANGED <<s13, s14, s17>> /\ s4' = "top"
  BY DEF H!Wait, H!pinVars, H!healthVars
<1>2. Requests' /\ s4' \in Stages /\ s18' \in 0 .. MaxEvents
  BY <1>1, HealthParts DEF Requests, Stages
<1>3. /\ s1' \in H!Modems /\ s2' \in H!Statuses /\ s3' \in H!Owners
      /\ s8' \in 0 .. DataRetries /\ s9' \in BOOLEAN /\ s19' \in 0 .. MaxFaults
  <2>1. CASE UNCHANGED <<s1, s2, s3, s8, s9, s19>>
    BY <2>1, HealthParts
  <2>2. CASE s2' = [s2 EXCEPT !.cereg = s] /\ UNCHANGED <<s1, s3, s8, s9, s19>>
    <3>1. s \in H!Nets
      BY HealthParts, RegistrationIs
    <3> HIDE DEF s
    <3> QED BY <2>2, <3>1, HealthParts DEF H!Statuses
  <2>3. CASE /\ \E f \in H!MayFail :
                  LET d == H!AfterRegistration(s, f) IN
                  /\ s1' = [s1 EXCEPT !.pdp = d.pdp,
                                      !.sms = IF s9 THEN @ \cup {"storage"} ELSE @]
                  /\ s2' = [s2 EXCEPT !.cereg = s, !.ip = d.ip]
                  /\ s8' = (IF d.ok THEN s8 ELSE 1)
                  /\ H!Counted(f)
             /\ s9' = FALSE
             /\ s3' = [s3 EXCEPT !.registered = TRUE, !.done = TRUE]
    <3>1. PICK f \in H!MayFail :
            LET d == H!AfterRegistration(s, f) IN
            /\ s1' = [s1 EXCEPT !.pdp = d.pdp, !.sms = IF s9 THEN s1.sms \cup {"storage"} ELSE s1.sms]
            /\ s2' = [s2 EXCEPT !.cereg = s, !.ip = d.ip]
            /\ s8' = (IF d.ok THEN s8 ELSE 1)
            /\ H!Counted(f)
      BY <2>3
    <3>2. s \in H!Nets
      BY HealthParts, RegistrationIs
    <3> DEFINE d == H!AfterRegistration(s, f)
    <3>3. d.pdp \in BOOLEAN /\ d.ip \in BOOLEAN
      BY HealthParts, DataFacts
    <3>4. (IF s9 THEN s1.sms \cup {"storage"} ELSE s1.sms) \in SUBSET SmsSettings
      BY HealthParts DEF H!Modems, H!HealthAssumption
    <3> HIDE DEF d, s
    <3>5. s1' \in H!Modems
      BY <3>1, <3>3, <3>4, HealthParts, ModemFacts DEF d
    <3>6. s2' \in H!Statuses
      BY <3>1, <3>2, <3>3, HealthParts DEF d, H!Statuses
    <3>7. s8' \in 0 .. DataRetries
      BY <3>1, HealthParts DEF H!HealthAssumption
    <3>8. s3' \in H!Owners
      BY <2>3, HealthParts DEF H!Owners
    <3>9. f \in BOOLEAN /\ (f => s19 < MaxFaults)
      BY MayFailIs
    <3>10. s19' \in 0 .. MaxFaults
      BY <3>1, <3>9, HealthParts, FaultCounted
    <3> QED BY <2>3, <3>5, <3>6, <3>7, <3>8, <3>10
  <2> QED BY <2>1, <2>2, <2>3 DEF H!Wait
<1> QED BY <1>1, <1>2, <1>3, HealthParts, HealthSound,
       PinsUnchanged, ResetsUnchanged

LEMMA BeginResetKeeps == ASSUME H!HealthAssumption, H!IInv, H!BeginReset PROVE H!IInv'
<1>1. PICK f \in H!MayFail :
        /\ s1' = (IF s5 = "hard" THEN H!Cycled(f)
                  ELSE IF s1.alive THEN H!Restarted(s1) ELSE s1)
        /\ H!Counted(f)
  BY DEF H!BeginReset
<1>2. f \in BOOLEAN /\ (f => s19 < MaxFaults)
  BY MayFailIs
<1>3. s1' \in H!Modems
  <2>1. H!Restarted(s1) \in H!Modems
    BY HealthParts, ModemFacts
  <2>2. H!Cycled(f) \in H!Modems
    BY <1>2, <2>1 DEF H!Cycled, H!Modems
  <2> QED BY <1>1, <2>1, <2>2, HealthParts
<1>4. /\ UNCHANGED <<s3, s6, s7, s9, s18>> /\ UNCHANGED <<s10, s11, s12, s15, s16>>
      /\ UNCHANGED <<s13, s14, s17>> /\ s5' = "none" /\ s2' = H!Invalid(FALSE) /\ s8' = 0
      /\ s4' = "restarted"
  BY DEF H!BeginReset, H!pinVars, H!healthVars
<1>5. s2' \in H!Statuses
  BY <1>4, HealthParts, StatusFacts DEF H!Nets
<1>6. Requests' /\ s4' \in Stages /\ s8' \in 0 .. DataRetries
  BY <1>4, HealthParts DEF Requests, Stages, H!HealthAssumption
<1>7. s19' \in 0 .. MaxFaults
  BY <1>1, <1>2, HealthParts, FaultCounted
<1> QED BY <1>3, <1>4, <1>5, <1>6, <1>7, HealthParts, HealthSound,
       PinsUnchanged, ResetsUnchanged

\* After a restart of the modem the card is unlocked again.
LEMMA RecoverKeeps ==
    ASSUME H!HealthAssumption, H!IInv, NEW forget \in BOOLEAN, H!Recover(forget)
    PROVE  /\ s1' \in H!Modems /\ s2' \in H!Statuses /\ s3' \in H!Owners /\ s6' = FALSE
           /\ s8' = 0 /\ s9' \in BOOLEAN /\ PinTypes' /\ H!PinCounted'
           /\ s19' \in 0 .. MaxFaults
<1>1. PICK u \in H!Unlocks(FALSE, s10), g \in H!MayFail :
        /\ ~(u.fault /\ g) /\ (g => u.ok) /\ H!Unlocked(u, s1, g) /\ H!Counted(u.fault \/ g)
        /\ s6' = FALSE /\ s8' = 0
        /\ s2' = [H!Invalid(TRUE) EXCEPT !.sim = u.sim]
        /\ s3' = (IF forget \/ (~s3.simReady /\ u.sim = "ready")
                  THEN H!Forgotten(s3, u.sim) ELSE s3)
  BY DEF H!Recover
<1>2. s10 \in BOOLEAN
  BY HealthParts DEF PinTypes
<1>3. /\ s1' \in H!Modems /\ s9' \in BOOLEAN /\ PinTypes' /\ H!PinCounted'
      /\ s19' \in 0 .. MaxFaults
  BY <1>1, <1>2, UnlockedKeeps
<1>4. u.sim \in H!Cards \cup {"unknown"}
  BY <1>2, UnlockFacts
<1>5. s2' \in H!Statuses
  BY <1>1, <1>4, HealthParts, StatusFacts DEF H!Nets
<1>6. s3' \in H!Owners
  BY <1>1, HealthParts, OwnerFacts
<1> QED BY <1>1, <1>3, <1>5, <1>6

LEMMA EndResetKeeps == ASSUME H!HealthAssumption, H!IInv, H!EndReset PROVE H!IInv'
<1>1. UNCHANGED <<s5, s7, s18>> /\ UNCHANGED <<s13, s14, s17>> /\ s4' = "unlock"
  BY DEF H!EndReset, H!healthVars
<1>2. s4' \in Stages /\ s18' \in 0 .. MaxEvents
  BY <1>1, HealthParts DEF Stages
<1>3. CASE s1.alive /\ H!Recover(TRUE)
  <2>1. /\ s1' \in H!Modems /\ s2' \in H!Statuses /\ s3' \in H!Owners /\ s6' = FALSE
        /\ s8' = 0 /\ s9' \in BOOLEAN /\ PinTypes' /\ H!PinCounted'
        /\ s19' \in 0 .. MaxFaults
    BY <1>3, RecoverKeeps
  <2>2. Requests' /\ s8' \in 0 .. DataRetries
    <3>1. 0 \in 0 .. DataRetries
      BY DEF H!HealthAssumption
    <3>2. s5 \in {"none", "soft", "hard"} /\ s7 \in {"none", "pin", "puk"}
      BY HealthParts DEF Requests
    <3>3. s6' \in BOOLEAN
      BY <2>1
    <3>4. Requests'
      BY <1>1, <3>2, <3>3 DEF Requests
    <3> QED BY <2>1, <3>1, <3>4
  <2> QED BY <1>1, <1>2, <2>1, <2>2, HealthParts, HealthSound, ResetsUnchanged
<1>4. CASE /\ s6' = TRUE /\ s3' = H!Forgotten(s3, s2.sim)
           /\ UNCHANGED <<s1, s2, s8, s9, s19>> /\ UNCHANGED <<s10, s11, s12, s15, s16>>
  <2>1. s3' \in H!Owners
    BY <1>4, HealthParts, OwnerFacts
  <2>2. Requests'
    BY <1>1, <1>4, HealthParts DEF Requests
  <2> QED BY <1>1, <1>2, <1>4, <2>1, <2>2, HealthParts, HealthSound, PinsUnchanged, ResetsUnchanged
<1> QED BY <1>3, <1>4 DEF H!EndReset, H!pinVars

LEMMA TopKeeps == ASSUME H!HealthAssumption, H!IInv, H!Top PROVE H!IInv'
<1>1. UNCHANGED <<s5, s7, s18>> /\ UNCHANGED <<s13, s14, s17>> /\ s4' = "unlock"
  BY DEF H!Top, H!healthVars
<1>2. s4' \in Stages /\ s18' \in 0 .. MaxEvents
  BY <1>1, HealthParts DEF Stages
<1>3. CASE H!Recover(FALSE)
  <2>1. /\ s1' \in H!Modems /\ s2' \in H!Statuses /\ s3' \in H!Owners /\ s6' = FALSE
        /\ s8' = 0 /\ s9' \in BOOLEAN /\ PinTypes' /\ H!PinCounted'
        /\ s19' \in 0 .. MaxFaults
    BY <1>3, RecoverKeeps
  <2>2. Requests' /\ s8' \in 0 .. DataRetries
    <3>1. 0 \in 0 .. DataRetries
      BY DEF H!HealthAssumption
    <3>2. s5 \in {"none", "soft", "hard"} /\ s7 \in {"none", "pin", "puk"}
      BY HealthParts DEF Requests
    <3>3. s6' \in BOOLEAN
      BY <2>1
    <3>4. Requests'
      BY <1>1, <3>2, <3>3 DEF Requests
    <3> QED BY <2>1, <3>1, <3>4
  <2> QED BY <1>1, <1>2, <2>1, <2>2, HealthParts, HealthSound, ResetsUnchanged
<1>4. CASE /\ s2' = (IF s6 THEN H!Invalid(FALSE) ELSE s2)
           /\ s8' = (IF s6 THEN 0 ELSE s8)
           /\ s3' = (IF ~s3.simReady /\ s2.sim = "ready" THEN H!Forgotten(s3, s2.sim) ELSE s3)
           /\ UNCHANGED <<s1, s6, s9, s19>> /\ UNCHANGED <<s10, s11, s12, s15, s16>>
  <2>1. s3' \in H!Owners
    BY <1>4, HealthParts, OwnerFacts
  <2>2. s2' \in H!Statuses
    BY <1>4, HealthParts, StatusFacts DEF H!Nets
  <2>3. Requests' /\ s8' \in 0 .. DataRetries
    BY <1>1, <1>4, HealthParts DEF Requests, H!HealthAssumption
  <2> QED BY <1>1, <1>2, <1>4, <2>1, <2>2, <2>3, HealthParts, HealthSound,
         PinsUnchanged, ResetsUnchanged
<1> QED BY <1>3, <1>4 DEF H!Top, H!pinVars

LEMMA TryUnlockKeeps ==
    ASSUME H!HealthAssumption, H!IInv, NEW puk \in BOOLEAN, NEW t \in BOOLEAN,
           H!TryUnlock(puk, t)
    PROVE  /\ s1' \in H!Modems /\ s2' \in H!Statuses /\ s3' \in H!Owners
           /\ s8' \in 0 .. DataRetries /\ s9' \in BOOLEAN /\ PinTypes' /\ H!PinCounted'
           /\ s19' \in 0 .. MaxFaults
<1>1. PICK u \in H!Unlocks(puk, t), g \in H!MayFail :
        /\ ~(u.fault /\ g) /\ (g => u.ok) /\ H!Unlocked(u, s1, g) /\ H!Counted(u.fault \/ g)
        /\ s2' = (IF u.ok THEN [H!Invalid(TRUE) EXCEPT !.sim = u.sim]
                  ELSE [s2 EXCEPT !.sim = u.sim])
        /\ s8' = (IF u.ok THEN 0 ELSE s8)
        /\ s3' = (IF u.ok THEN [s3 EXCEPT !.simReady = TRUE, !.registered = FALSE,
                                          !.done = FALSE, !.reconf = TRUE]
                  ELSE [s3 EXCEPT !.simReady = FALSE])
  BY DEF H!TryUnlock
<1>2. /\ s1' \in H!Modems /\ s9' \in BOOLEAN /\ PinTypes' /\ H!PinCounted'
      /\ s19' \in 0 .. MaxFaults
  BY <1>1, UnlockedKeeps
<1>3. u.sim \in H!Cards \cup {"unknown"}
  BY UnlockFacts
<1>4. s2' \in H!Statuses
  BY <1>1, <1>3, HealthParts, StatusFacts DEF H!Nets
<1>5. s3' \in H!Owners
  BY <1>1, HealthParts DEF H!Owners
<1>6. s8' \in 0 .. DataRetries
  BY <1>1, HealthParts DEF H!HealthAssumption
<1> QED BY <1>2, <1>4, <1>5, <1>6

LEMMA UnlockKeeps == ASSUME H!HealthAssumption, H!IInv, H!Unlock PROVE H!IInv'
<1>1. UNCHANGED <<s5, s6, s18>> /\ UNCHANGED <<s13, s14, s17>> /\ s4' = "data"
  BY DEF H!Unlock, H!healthVars
<1>2. s4' \in Stages /\ s18' \in 0 .. MaxEvents /\ s10 \in BOOLEAN
  BY <1>1, HealthParts DEF Stages, PinTypes
<1>3. Requests'
  BY <1>1, HealthParts DEF Requests, H!Unlock
<1>4. /\ s1' \in H!Modems /\ s2' \in H!Statuses /\ s3' \in H!Owners
      /\ s8' \in 0 .. DataRetries /\ s9' \in BOOLEAN /\ PinTypes' /\ H!PinCounted'
      /\ s19' \in 0 .. MaxFaults
  <2>1. (s7 = "puk") \in BOOLEAN /\ (s7 # "pin" /\ s10) \in BOOLEAN
    OBVIOUS
  <2>2. \/ H!TryUnlock(s7 = "puk", s7 # "pin" /\ s10)
        \/ H!TryUnlock(FALSE, s10)
    BY DEF H!Unlock
  <2> QED BY <1>2, <2>1, <2>2, TryUnlockKeeps
<1> QED BY <1>1, <1>2, <1>3, <1>4, HealthParts, HealthSound, ResetsUnchanged

LEMMA RetryDataKeeps == ASSUME H!HealthAssumption, H!IInv, H!RetryData PROVE H!IInv'
<1>1. /\ UNCHANGED <<s3, s5, s6, s7, s9, s18>> /\ UNCHANGED <<s10, s11, s12, s15, s16>>
      /\ UNCHANGED <<s13, s14, s17>> /\ s4' \in {"probe", "top"}
  BY DEF H!RetryData, H!pinVars, H!healthVars
<1>2. Requests' /\ s4' \in Stages
  BY <1>1, HealthParts DEF Requests, Stages
<1>3. /\ s1' \in H!Modems /\ s2' \in H!Statuses /\ s8' \in 0 .. DataRetries
      /\ s19' \in 0 .. MaxFaults
  <2>1. CASE UNCHANGED <<s1, s2, s8, s19>>
    BY <2>1, HealthParts
  <2>2. CASE s8' = 0 /\ UNCHANGED <<s1, s2, s19>>
    BY <2>2, HealthParts DEF H!HealthAssumption
  <2>3. CASE \E f \in H!MayFail :
               LET d == H!DataMode(s2.cereg, f \/ ~s1.alive) IN
               /\ s1' = [s1 EXCEPT !.pdp = d.pdp]
               /\ s2' = [s2 EXCEPT !.ip = d.ip]
               /\ s8' = (IF d.ok \/ s8 = DataRetries THEN 0 ELSE s8 + 1)
               /\ H!Counted(f)
    <3>1. PICK f \in H!MayFail :
             LET d == H!DataMode(s2.cereg, f \/ ~s1.alive) IN
             /\ s1' = [s1 EXCEPT !.pdp = d.pdp]
             /\ s2' = [s2 EXCEPT !.ip = d.ip]
             /\ s8' = (IF d.ok \/ s8 = DataRetries THEN 0 ELSE s8 + 1)
             /\ H!Counted(f)
      BY <2>3
    <3> DEFINE d == H!DataMode(s2.cereg, f \/ ~s1.alive)
    <3>2. d.pdp \in BOOLEAN /\ d.ip \in BOOLEAN
      BY HealthParts, DataFacts
    <3> HIDE DEF d
    <3>3. s1' \in H!Modems
      BY <3>1, <3>2, HealthParts, ModemFacts DEF d
    <3>4. s2' \in H!Statuses
      BY <3>1, <3>2, HealthParts DEF d, H!Statuses
    <3>5. s8' \in 0 .. DataRetries
      BY <3>1, HealthParts DEF H!HealthAssumption
    <3>6. f \in BOOLEAN /\ (f => s19 < MaxFaults)
      BY MayFailIs
    <3> QED BY <3>1, <3>3, <3>4, <3>5, <3>6, HealthParts, FaultCounted
  <2> QED BY <2>1, <2>2, <2>3 DEF H!RetryData
<1> QED BY <1>1, <1>2, <1>3, HealthParts, HealthSound, PinsUnchanged, ResetsUnchanged

\* request_health_reset_with_backoff: a reset asked for is counted.
LEMMA RequestedKeeps ==
    ASSUME H!HealthAssumption, ResetTypes, H!ResetsCounted, H!MayReset, s14' = s14,
           H!Requested(s13)
    PROVE  ResetTypes' /\ H!ResetsCounted' /\ s5' = "hard"
<1>1. s14 = 0 /\ s13 < RetryLimit
  BY DEF H!MayReset
<1>2. s5' = "hard" /\ s13' = s13 + 1 /\ s17' = s17 + 1
  BY <1>1 DEF H!Requested
<1>3. s13 \in 0 .. RetryLimit /\ s17 \in Nat /\ s17 <= s13 /\ RetryLimit \in Nat
  BY DEF ResetTypes, H!ResetsCounted, H!HealthAssumption
<1>4. s13 + 1 \in 0 .. RetryLimit /\ s17 + 1 \in Nat /\ s17 + 1 <= s13 + 1
  BY <1>1, <1>3
<1> QED BY <1>1, <1>2, <1>4 DEF ResetTypes, H!ResetsCounted

LEMMA RecoveredKeeps ==
    ASSUME H!HealthAssumption, ResetTypes, H!ResetsCounted, s14' = s14, H!Recovered
    PROVE  ResetTypes' /\ H!ResetsCounted'
  BY DEF ResetTypes, H!ResetsCounted, H!Recovered, H!HealthAssumption

\* What a probe changes.
ProbeResult ==
    /\ s1' \in H!Modems /\ s2' \in H!Statuses /\ s3' \in H!Owners
    /\ s5' \in {"none", "soft", "hard"} /\ s8' \in 0 .. DataRetries /\ s9' \in BOOLEAN
    /\ s19' \in 0 .. MaxFaults /\ ResetTypes' /\ H!ResetsCounted'

LEMMA ServedKeeps ==
    ASSUME H!HealthAssumption, H!IInv, s14' = s14, NEW s \in H!Nets, H!ProbeServed(s)
    PROVE  ProbeResult
<1>1. PICK f \in H!MayFail, g \in H!MayFail, t \in SUBSET SmsSettings :
        LET d == H!AfterRegistration(s, f) IN
        /\ ~(f /\ g)
        /\ s1' = [s1 EXCEPT !.pdp = IF s3.done THEN s1.pdp ELSE d.pdp, !.sms = t]
        /\ s2' = [s2 EXCEPT !.cereg = s, !.ip = IF s3.done THEN s2.ip ELSE d.ip]
        /\ s8' = (IF s3.done \/ d.ok THEN s8 ELSE 1)
        /\ s9' = (s3.reconf /\ "storage" \notin t)
        /\ s3' = [s3 EXCEPT !.registered = TRUE, !.done = TRUE, !.fails = 0,
                            !.deregs = 0, !.reconf = s3.reconf /\ H!Pending(g)]
        /\ IF s3.reconf /\ ~g THEN H!Recovered ELSE UNCHANGED <<s13, s17>>
        /\ H!Counted(f \/ g)
  BY DEF H!ProbeServed, H!healthVars
<1> DEFINE d == H!AfterRegistration(s, f)
<1>2. d.pdp \in BOOLEAN /\ d.ip \in BOOLEAN
  BY HealthParts, DataFacts
<1>3. s3.done \in BOOLEAN /\ s3.reconf \in BOOLEAN /\ s1.pdp \in BOOLEAN /\ s2.ip \in BOOLEAN
  BY HealthParts DEF H!Owners, H!Modems, H!Statuses
<1>4. /\ f \in BOOLEAN /\ (f => s19 < MaxFaults)
      /\ g \in BOOLEAN /\ (g => s19 < MaxFaults)
  BY MayFailIs
<1> DEFINE pdp == IF s3.done THEN s1.pdp ELSE d.pdp
           ip == IF s3.done THEN s2.ip ELSE d.ip
           reconf == s3.reconf /\ H!Pending(g)
<1>5. pdp \in BOOLEAN /\ ip \in BOOLEAN
  BY <1>2, <1>3
<1>6. reconf \in BOOLEAN
  OBVIOUS
<1>7. /\ s1' = [s1 EXCEPT !.pdp = pdp, !.sms = t]
      /\ s2' = [s2 EXCEPT !.cereg = s, !.ip = ip]
      /\ s3' = [s3 EXCEPT !.registered = TRUE, !.done = TRUE, !.fails = 0,
                          !.deregs = 0, !.reconf = reconf]
      /\ s8' = (IF s3.done \/ d.ok THEN s8 ELSE 1)
  BY <1>1
<1> HIDE DEF pdp, ip, reconf, d
<1>8. s1' \in H!Modems
  BY <1>5, <1>7, HealthParts, ModemFacts
<1>9. s2' \in H!Statuses
  BY <1>5, <1>7, HealthParts DEF H!Statuses
<1>10. s3' \in H!Owners
  <2>1. 0 \in 0 .. FailLimit /\ 0 \in 0 .. DeregLimit
    BY DEF H!HealthAssumption
  <2>2. [s3 EXCEPT !.registered = TRUE, !.done = TRUE, !.fails = 0, !.deregs = 0,
                   !.reconf = reconf] \in H!Owners
    BY <1>6, <2>1, HealthParts DEF H!Owners
  <2> QED BY <1>7, <2>2
<1>11. s8' \in 0 .. DataRetries
  BY <1>7, HealthParts DEF H!HealthAssumption
<1>12. s9' \in BOOLEAN
  BY <1>1
<1>13. s19' \in 0 .. MaxFaults
  BY <1>1, <1>4, HealthParts, FaultCounted
<1>14. ResetTypes' /\ H!ResetsCounted'
  <2>1. H!Recovered \/ UNCHANGED <<s13, s17>>
    BY <1>1
  <2> QED BY <2>1, HealthParts, RecoveredKeeps, ResetsUnchanged
<1>15. s5' \in {"none", "soft", "hard"}
  BY HealthParts DEF H!ProbeServed, Requests
<1> QED BY <1>8, <1>9, <1>10, <1>11, <1>12, <1>13, <1>14, <1>15 DEF ProbeResult

\* A probe without an answer or without service: counted, perhaps a reset.
LEMMA AskedKeeps ==
    ASSUME H!HealthAssumption, H!IInv, s14' = s14,
           \/ UNCHANGED <<s5, s13, s17>>
           \/ H!MayReset /\ H!Requested(s13)
    PROVE  ResetTypes' /\ H!ResetsCounted' /\ s5' \in {"none", "soft", "hard"}
<1>1. CASE UNCHANGED <<s5, s13, s17>>
  BY <1>1, HealthParts, ResetsUnchanged DEF Requests
<1>2. CASE H!MayReset /\ H!Requested(s13)
  BY <1>2, HealthParts, RequestedKeeps
<1> QED BY <1>1, <1>2

LEMMA UnservedKeeps ==
    ASSUME H!HealthAssumption, H!IInv, s14' = s14, NEW s \in H!Nets, H!ProbeUnserved(s)
    PROVE  ProbeResult
<1> DEFINE base == [s3 EXCEPT !.registered = FALSE, !.done = FALSE, !.reconf = TRUE, !.fails = 0]
           n == IF s3.deregs < DeregLimit THEN s3.deregs + 1 ELSE DeregLimit
<1>1. 0 \in 0 .. FailLimit /\ 0 \in 0 .. DeregLimit /\ n \in 0 .. DeregLimit
  BY HealthParts DEF H!HealthAssumption, H!Owners
<1>2. base \in H!Owners
  BY <1>1, HealthParts DEF H!Owners
<1>3. /\ s3' \in {[base EXCEPT !.deregs = 0], [base EXCEPT !.deregs = n]}
      /\ \/ UNCHANGED <<s5, s13, s17>>
         \/ H!MayReset /\ H!Requested(s13)
  BY DEF H!ProbeUnserved, H!healthVars
<1>4. s3' \in H!Owners
  <2> HIDE DEF base, n
  <2> QED BY <1>1, <1>2, <1>3 DEF H!Owners
<1>5. ResetTypes' /\ H!ResetsCounted' /\ s5' \in {"none", "soft", "hard"}
  BY <1>3, AskedKeeps
<1>6. s2' \in {[s2 EXCEPT !.cereg = s], H!Invalid(FALSE)} /\ s8' \in {s8, 0}
      /\ UNCHANGED <<s1, s9, s19>>
  BY DEF H!ProbeUnserved
<1>7. s2' \in H!Statuses
  BY <1>6, HealthParts, StatusFacts
<1>8. s8' \in 0 .. DataRetries
  BY <1>6, HealthParts DEF H!HealthAssumption
<1> QED BY <1>4, <1>5, <1>6, <1>7, <1>8, HealthParts DEF ProbeResult

LEMMA FailedKeeps ==
    ASSUME H!HealthAssumption, H!IInv, s14' = s14, NEW f \in H!MayFail, H!ProbeFailed(f)
    PROVE  ProbeResult
<1> DEFINE n == IF s3.fails < FailLimit THEN s3.fails + 1 ELSE FailLimit
<1>1. 0 \in 0 .. FailLimit /\ n \in 0 .. FailLimit
  BY HealthParts DEF H!HealthAssumption, H!Owners
<1>2. /\ s3' \in {[s3 EXCEPT !.fails = 0], [s3 EXCEPT !.fails = n]}
      /\ \/ UNCHANGED <<s5, s13, s17>>
         \/ H!MayReset /\ H!Requested(s13)
  BY DEF H!ProbeFailed, H!healthVars
<1>3. s3' \in H!Owners
  <2> HIDE DEF n
  <2> QED BY <1>1, <1>2, HealthParts DEF H!Owners
<1>4. ResetTypes' /\ H!ResetsCounted' /\ s5' \in {"none", "soft", "hard"}
  BY <1>2, AskedKeeps
<1>5. s2' \in {s2, H!Invalid(FALSE)} /\ s8' \in {s8, 0} /\ UNCHANGED <<s1, s9>> /\ H!Counted(f)
  BY DEF H!ProbeFailed
<1>6. s2' \in H!Statuses
  BY <1>5, HealthParts, StatusFacts DEF H!Nets, H!Cards
<1>7. s8' \in 0 .. DataRetries
  BY <1>5, HealthParts DEF H!HealthAssumption
<1>8. f \in BOOLEAN /\ (f => s19 < MaxFaults)
  BY MayFailIs
<1>9. s19' \in 0 .. MaxFaults
  BY <1>5, <1>8, HealthParts, FaultCounted
<1> QED BY <1>3, <1>4, <1>5, <1>6, <1>7, <1>9, HealthParts DEF ProbeResult

LEMMA ProbeKeeps == ASSUME H!HealthAssumption, H!IInv, H!Probe PROVE H!IInv'
<1>1. UNCHANGED <<s6, s7, s18>> /\ UNCHANGED <<s10, s11, s12, s15, s16>> /\ s14' = s14
      /\ s4' = "top"
  BY DEF H!Probe, H!pinVars
<1>2. H!Registration(s1) \in H!Nets
  BY HealthParts, RegistrationIs
<1>3. ProbeResult
  BY <1>1, <1>2, ServedKeeps, UnservedKeeps, FailedKeeps DEF H!Probe
<1>4. Requests' /\ s4' \in Stages
  BY <1>1, <1>3, HealthParts DEF Requests, Stages, ProbeResult
<1> QED BY <1>1, <1>3, <1>4, HealthParts, HealthSound, PinsUnchanged DEF ProbeResult

LEMMA CheckKeeps == ASSUME H!HealthAssumption, H!IInv, H!Check PROVE H!IInv'
<1>1. /\ UNCHANGED <<s1, s6, s7, s9, s18, s19>> /\ UNCHANGED <<s10, s11, s12, s15, s16>>
      /\ UNCHANGED <<s13, s14, s17>> /\ s4' = "top"
  BY DEF H!Check, H!pinVars, H!healthVars
<1> DEFINE unseen == [s3 EXCEPT !.present = H!Seen, !.confirmed = H!Seen, !.registered = FALSE,
                              !.done = FALSE, !.reconf = TRUE]
<1>2. H!Seen \in {"unknown", "no", "yes"}
  BY DEF H!Seen
<1>3. unseen \in H!Owners
  BY <1>2, HealthParts DEF H!Owners
<1>4. 0 \in 0 .. DeregLimit /\ 0 \in 0 .. DataRetries
  BY DEF H!HealthAssumption
<1>5. s3' \in H!Owners
  <2>1. s3' \in {[s3 EXCEPT !.present = "unknown"],
                 [s3 EXCEPT !.present = H!Seen, !.confirmed = H!Seen],
                 [unseen EXCEPT !.deregs = 0], [unseen EXCEPT !.simReady = FALSE]}
    BY DEF H!Check
  <2> HIDE DEF unseen
  <2> QED BY <1>2, <1>3, <1>4, <2>1, HealthParts DEF H!Owners
<1>6. /\ s2' \in {s2, H!Invalid(FALSE), [H!Invalid(TRUE) EXCEPT !.sim = "absent"]}
      /\ s8' \in {s8, 0} /\ s5' \in {s5, "hard"}
  BY DEF H!Check
<1>7. s2' \in H!Statuses
  BY ZenonT(60), <1>6, HealthParts, StatusFacts DEF H!Nets, H!Cards
<1>8. s8' \in 0 .. DataRetries
  BY <1>4, <1>6, HealthParts
<1>9. Requests' /\ s4' \in Stages
  BY <1>1, <1>6, HealthParts DEF Requests, Stages
<1> QED BY <1>1, <1>5, <1>7, <1>8, <1>9, HealthParts, HealthSound, PinsUnchanged, ResetsUnchanged

\* Nothing is due.
LEMMA IdleKeeps ==
    ASSUME H!HealthAssumption, H!IInv, H!NoUnlock \/ H!NoProbe \/ UNCHANGED H!vars
    PROVE  H!IInv'
<1>1. /\ UNCHANGED <<s1, s2, s3, s5, s6, s7, s8, s9, s18, s19>>
      /\ UNCHANGED <<s10, s11, s12, s15, s16>>
      /\ UNCHANGED <<s13, s14, s17>> /\ s4' \in {s4, "data", "top"}
  BY DEF H!NoUnlock, H!NoProbe, H!vars, H!pinVars, H!healthVars
<1>2. Requests' /\ s4' \in Stages
  BY <1>1, HealthParts DEF Requests, Stages
<1> QED BY <1>1, <1>2, HealthParts, HealthSound, PinsUnchanged, ResetsUnchanged

-----------------------------------------------------------------------------
(* The daily check *)

LEMMA DailyFailsKeeps == ASSUME H!HealthAssumption, H!IInv, H!DailyFails PROVE H!IInv'
<1>1. /\ UNCHANGED <<s1, s2, s3, s4, s5, s6, s7, s8, s9, s18>>
      /\ UNCHANGED <<s10, s11, s12, s15, s16>> /\ UNCHANGED <<s13, s17>>
      /\ H!MayReset /\ s14' = s13 + 1
  BY DEF H!DailyFails, H!pinVars, H!healthVars
<1>2. PICK f \in H!MayFail : H!Counted(f)
  BY DEF H!DailyFails
<1>3. f \in BOOLEAN /\ (f => s19 < MaxFaults)
  BY MayFailIs
<1>4. s19' \in 0 .. MaxFaults
  BY <1>2, <1>3, HealthParts, FaultCounted
<1>5. ResetTypes' /\ H!ResetsCounted'
  <2>1. s13 \in 0 .. RetryLimit /\ s17 \in Nat /\ s17 <= s13 /\ RetryLimit \in Nat
        /\ s13 < RetryLimit
    BY <1>1, HealthParts DEF ResetTypes, H!ResetsCounted, H!HealthAssumption, H!MayReset
  <2>2. s13 + 1 \in 0 .. RetryLimit /\ s17 < s13 + 1
    BY <2>1
  <2> QED BY <1>1, <2>1, <2>2 DEF ResetTypes, H!ResetsCounted
<1>6. Requests' /\ s4' \in Stages
  BY <1>1, HealthParts DEF Requests, Stages
<1> QED BY <1>1, <1>4, <1>5, <1>6, HealthParts, HealthSound, PinsUnchanged

LEMMA DailyResetsKeeps == ASSUME H!HealthAssumption, H!IInv, H!DailyResets PROVE H!IInv'
<1>1. /\ UNCHANGED <<s1, s3, s4, s6, s7, s9, s18, s19>> /\ UNCHANGED <<s10, s11, s12, s15, s16>>
      /\ s14 > 0 /\ s14' = 0 /\ s2' = H!Invalid(FALSE) /\ s8' = 0
      /\ H!Requested(s14 - 1)
  BY DEF H!DailyResets, H!pinVars
<1>2. /\ s13 \in 0 .. RetryLimit /\ s14 \in 0 .. RetryLimit /\ s17 \in Nat /\ RetryLimit \in Nat
      /\ s17 < s14
  BY <1>1, HealthParts DEF ResetTypes, H!ResetsCounted, H!HealthAssumption
<1>3. s14 - 1 < RetryLimit /\ (s14 - 1) + 1 = s14 /\ s17 + 1 <= s14 /\ s17 + 1 \in Nat
      /\ 0 \in 0 .. RetryLimit
  BY <1>2
<1>4. s5' = "hard" /\ s13' = s14 /\ s17' = s17 + 1
  BY <1>1, <1>3 DEF H!Requested
<1>5. ResetTypes' /\ H!ResetsCounted'
  <2>1. ~(s14' > 0)
    BY <1>1
  <2> QED BY <1>1, <1>2, <1>3, <1>4, <2>1 DEF ResetTypes, H!ResetsCounted
<1>6. Requests' /\ s4' \in Stages
  BY <1>1, <1>4, HealthParts DEF Requests, Stages
<1>7. s2' \in H!Statuses
  BY <1>1, HealthParts, StatusFacts DEF H!Nets, H!Cards
<1>8. s8' \in 0 .. DataRetries
  BY <1>1 DEF H!HealthAssumption
<1> QED BY <1>1, <1>5, <1>6, <1>7, <1>8, HealthParts, HealthSound, PinsUnchanged

LEMMA DailyRepairsKeeps == ASSUME H!HealthAssumption, H!IInv, H!DailyRepairs PROVE H!IInv'
<1>1. /\ UNCHANGED <<s2, s3, s4, s5, s6, s7, s8, s18, s19>> /\ UNCHANGED <<s10, s11, s12, s15, s16>>
      /\ s14' = s14 /\ s9' = FALSE /\ s1' = [s1 EXCEPT !.sms = SmsSettings]
      /\ H!Recovered \/ UNCHANGED <<s13, s17>>
  BY DEF H!DailyRepairs, H!pinVars, H!healthVars
<1>2. s1' \in H!Modems
  BY <1>1, HealthParts, ModemFacts
<1>3. ResetTypes' /\ H!ResetsCounted'
  BY <1>1, HealthParts, RecoveredKeeps, ResetsUnchanged
<1>4. Requests' /\ s4' \in Stages
  BY <1>1, HealthParts DEF Requests, Stages
<1> QED BY <1>1, <1>2, <1>3, <1>4, HealthParts, HealthSound, PinsUnchanged

-----------------------------------------------------------------------------
(* The user, the card, the network, and a restart of the device *)

LEMMA EventCounted ==
    ASSUME H!HealthAssumption, s18 \in 0 .. MaxEvents, H!Happens PROVE s18' \in 0 .. MaxEvents
  BY DEF H!HealthAssumption, H!Happens

LEMMA WorldKeeps == ASSUME H!HealthAssumption, H!IInv, H!World PROVE H!IInv'
<1>1. /\ UNCHANGED <<s2, s3, s4, s5, s6, s7, s8, s9, s19>> /\ UNCHANGED <<s10, s11, s12, s15, s16>>
      /\ UNCHANGED <<s13, s14, s17>> /\ H!Happens
  BY DEF H!World, H!pinVars, H!healthVars
<1>2. s1' \in H!Modems
  <2>1. \/ s1' = [s1 EXCEPT !.alive = FALSE]
        \/ \E n \in H!Nets : s1' = [s1 EXCEPT !.net = n]
        \/ \E c \in H!Cards : s1' = [s1 EXCEPT !.card = c]
        \/ \E c \in H!Cards : s1' = [s1 EXCEPT !.card = c, !.sms = {}]
        \/ s1' = [s1 EXCEPT !.sms = {}]
    BY DEF H!World, H!Cards
  <2> QED BY <2>1, HealthParts DEF H!Modems
<1>3. Requests' /\ s4' \in Stages
  BY <1>1, HealthParts DEF Requests, Stages
<1> QED BY <1>1, <1>2, <1>3, HealthParts, HealthSound, PinsUnchanged, ResetsUnchanged, EventCounted

LEMMA SaveCredentialKeeps == ASSUME H!HealthAssumption, H!IInv, H!SaveCredential PROVE H!IInv'
<1>1. /\ UNCHANGED <<s1, s2, s3, s4, s5, s6, s8, s9, s10, s19>> /\ UNCHANGED <<s13, s14, s17>>
      /\ H!Happens /\ s7' = "pin" /\ s12' \in BOOLEAN /\ s11' = 0 /\ s15' = 0 /\ s16' = 0
  BY DEF H!SaveCredential, H!healthVars
<1>2. PinTypes' /\ H!PinCounted'
  <2>1. PinLimit \in Nat /\ 0 <= 0 + 0 /\ 0 <= PinLimit + 0 /\ 0 \in 0 .. PinLimit
    BY DEF H!HealthAssumption
  <2> QED BY <1>1, <2>1, HealthParts DEF PinTypes, H!PinCounted
<1>3. Requests' /\ s4' \in Stages
  BY <1>1, HealthParts DEF Requests, Stages
<1> QED BY <1>1, <1>2, <1>3, HealthParts, HealthSound, ResetsUnchanged, EventCounted

LEMMA ConfirmPukKeeps == ASSUME H!HealthAssumption, H!IInv, H!ConfirmPuk PROVE H!IInv'
<1>1. /\ UNCHANGED <<s1, s2, s3, s4, s5, s6, s8, s9, s19>> /\ UNCHANGED <<s10, s11, s12, s15, s16>>
      /\ UNCHANGED <<s13, s14, s17>> /\ H!Happens /\ s7' = "puk"
  BY DEF H!ConfirmPuk, H!pinVars, H!healthVars
<1>2. Requests' /\ s4' \in Stages
  BY <1>1, HealthParts DEF Requests, Stages
<1> QED BY <1>1, <1>2, HealthParts, HealthSound, PinsUnchanged, ResetsUnchanged, EventCounted

LEMMA UserResetKeeps == ASSUME H!HealthAssumption, H!IInv, H!UserReset PROVE H!IInv'
<1>1. /\ UNCHANGED <<s1, s3, s4, s6, s7, s9, s19>> /\ UNCHANGED <<s10, s11, s12, s15, s16>>
      /\ UNCHANGED <<s13, s14, s17>> /\ H!Happens /\ s5' \in {"soft", "hard"}
      /\ s2' = H!Invalid(FALSE) /\ s8' = 0
  BY DEF H!UserReset, H!pinVars, H!healthVars
<1>2. Requests' /\ s4' \in Stages
  BY <1>1, HealthParts DEF Requests, Stages
<1>3. s2' \in H!Statuses
  BY <1>1, HealthParts, StatusFacts DEF H!Nets, H!Cards
<1>4. s8' \in 0 .. DataRetries
  BY <1>1 DEF H!HealthAssumption
<1> QED BY <1>1, <1>2, <1>3, <1>4, HealthParts, HealthSound, PinsUnchanged, ResetsUnchanged,
       EventCounted

LEMMA RebootKeeps == ASSUME H!HealthAssumption, H!IInv, H!Reboot PROVE H!IInv'
<1>1. /\ UNCHANGED <<s1, s11, s15, s16, s12, s19>> /\ H!Happens
      /\ s2' = H!Off /\ s3' = H!Fresh /\ s4' = "start" /\ s5' = "none" /\ s6' = FALSE
      /\ s7' = "none" /\ s8' = 0 /\ s9' = FALSE /\ s10' = FALSE
      /\ s13' = 0 /\ s14' = 0 /\ s17' = 0
  BY DEF H!Reboot
<1>2. PinTypes' /\ H!PinCounted'
  BY <1>1, HealthParts DEF PinTypes, H!PinCounted
<1>3. ResetTypes' /\ H!ResetsCounted' /\ s8' \in 0 .. DataRetries
  BY <1>1 DEF H!HealthAssumption, ResetTypes, H!ResetsCounted
<1>4. Requests' /\ s4' \in Stages /\ s9' \in BOOLEAN
  BY <1>1 DEF Requests, Stages
<1>5. s2' \in H!Statuses /\ s3' \in H!Owners
  BY <1>1, HealthParts, StatusFacts, OwnerFacts DEF H!Nets, H!Cards
<1> QED BY <1>1, <1>2, <1>3, <1>4, <1>5, HealthParts, HealthSound, EventCounted

-----------------------------------------------------------------------------

LEMMA HealthInit == ASSUME H!HealthAssumption, H!Init PROVE H!IInv
<1>1. s1 \in H!Modems
  BY DEF H!Init, H!Modems, H!Cards, H!Nets
<1>2. s2 \in H!Statuses
  BY DEF H!Init, H!Off, H!Statuses
<1>3. s3 \in H!Owners
  BY DEF H!Init, H!Fresh, H!Owners, H!HealthAssumption
<1>4. PinTypes /\ H!PinCounted /\ ResetTypes /\ H!ResetsCounted
  <2>1. /\ s10 = FALSE /\ s11 = 0 /\ s12 \in BOOLEAN /\ s15 = 0 /\ s16 = 0
        /\ s13 = 0 /\ s14 = 0 /\ s17 = 0
    BY DEF H!Init
  <2>2. /\ 0 <= PinLimit + 0 /\ 0 <= 0 + 0 /\ 0 \in 0 .. PinLimit /\ 0 \in 0 .. RetryLimit
        /\ 0 \in Nat /\ 0 <= 0 /\ ~(0 > 0)
    BY DEF H!HealthAssumption
  <2>3. PinTypes /\ H!PinCounted
    BY <2>1, <2>2 DEF PinTypes, H!PinCounted
  <2> QED BY <2>1, <2>2, <2>3 DEF ResetTypes, H!ResetsCounted
<1>5. Requests /\ s4 \in Stages /\ s9 \in BOOLEAN
  BY DEF H!Init, Requests, Stages
<1>6. s8 \in 0 .. DataRetries /\ s18 \in 0 .. MaxEvents /\ s19 \in 0 .. MaxFaults
  BY DEF H!Init, H!HealthAssumption
<1> QED BY <1>1, <1>2, <1>3, <1>4, <1>5, <1>6, HealthParts

LEMMA HealthKept == ASSUME H!HealthAssumption, H!IInv, [H!Next]_(H!vars) PROVE H!IInv'
  BY StartUpKeeps, FirstUnlockKeeps, WaitKeeps, BeginResetKeeps, EndResetKeeps, TopKeeps,
     UnlockKeeps, RetryDataKeeps, ProbeKeeps, CheckKeeps, IdleKeeps, DailyFailsKeeps,
     DailyResetsKeeps, DailyRepairsKeeps, WorldKeeps, SaveCredentialKeeps, ConfirmPukKeeps,
     UserResetKeeps, RebootKeeps DEF H!Next, H!Owner, H!Daily

\* Each component keeps to its own part of the state.
LEMMA ModemSteps ==
    ASSUME [AllNext]_allvars
    PROVE  /\ which' = which
           /\ which = "health" => [H!Next]_(H!vars)
           /\ which = "apdu" => [E!Next]_(E!vars)
           /\ which = "https" => [S!Next]_(S!vars)
           /\ which = "jobs" => [J!Next]_(J!vars)
  BY DEF AllNext, OwnerNext, ANext, HNext, SNext, MNext, ENext, JNext, Rest, allvars, H!vars,
         E!vars, S!vars, J!vars

\* For any limits, faults and events: a wrong saved PIN costs the card no more
\* attempts than the user allowed and than could not be recorded, across restarts
\* of device and modem; and without SMS working in between, modem_task and the
\* daily check together ask for at most the allowed number of hard resets.
THEOREM HealthTrueHolds == AllSpec => []HealthTrue
<1> DEFINE Inv == which = "health" => H!IInv
<1>1. AllInit => Inv
  BY ModemAssumption, HealthInit DEF AllInit
<1>2. Inv /\ [AllNext]_allvars => Inv'
  BY ModemAssumption, ModemSteps, HealthKept
<1>3. Inv => HealthTrue
  <2> SUFFICES ASSUME H!IInv PROVE H!TypeOK /\ H!PinSpared /\ H!ResetsSpaced
    BY DEF HealthTrue
  <2>1. H!TypeOK /\ H!PinSpared
    BY DEF H!IInv, H!PinSpared, H!PinCounted
  <2>2. s17 \in Nat /\ s13 \in 0 .. RetryLimit /\ s17 <= s13 /\ RetryLimit \in Nat
    BY HealthParts, ModemAssumption DEF ResetTypes, H!ResetsCounted, H!HealthAssumption
  <2>3. H!ResetsSpaced
    BY <2>2 DEF H!ResetsSpaced
  <2> QED BY <2>1, <2>3
<1> QED BY <1>1, <1>2, <1>3, PTL DEF AllSpec

-----------------------------------------------------------------------------
(* Requests to the eSIM (EsimApdu)                                         *)

\* The blocks and segments counted up.
LEMMA BlocksAre ==
    ASSUME NEW n \in Nat
    PROVE  /\ E!Blocks(n) \in Seq(Nat) /\ Len(E!Blocks(n)) = n
           /\ Append(E!Blocks(n), n) = E!Blocks(n + 1)
           /\ E!Blocks(0) = << >>
<1>1. E!Blocks(n) \in Seq(Nat) /\ Len(E!Blocks(n)) = n
  BY DEF E!Blocks
<1>2. E!Blocks(n + 1) \in Seq(Nat) /\ Len(E!Blocks(n + 1)) = n + 1
  BY DEF E!Blocks
<1>3. \A i \in 1 .. n + 1 : Append(E!Blocks(n), n)[i] = E!Blocks(n + 1)[i]
  <2>1. \A i \in 1 .. n : Append(E!Blocks(n), n)[i] = i - 1
    BY <1>1 DEF E!Blocks
  <2>2. Append(E!Blocks(n), n)[n + 1] = n
    BY <1>1
  <2>3. \A i \in 1 .. n + 1 : E!Blocks(n + 1)[i] = i - 1
    BY DEF E!Blocks
  <2> QED BY <2>1, <2>2, <2>3
<1>4. Append(E!Blocks(n), n) \in Seq(Nat) /\ Len(Append(E!Blocks(n), n)) = n + 1
  BY <1>1
<1>5. E!Blocks(0) = << >>
  BY DEF E!Blocks
<1> QED BY <1>1, <1>2, <1>3, <1>4, <1>5

LEMMA NatSeqsEqual ==
    ASSUME NEW p \in Seq(Nat), NEW q \in Seq(Nat), Len(p) = Len(q),
           \A i \in 1 .. Len(p) : p[i] = q[i]
    PROVE  p = q
  OBVIOUS

LEMMA SegmentsAre ==
    ASSUME NEW a \in Nat, NEW n \in Nat
    PROVE  /\ E!Segments(a, n) \in Seq(Nat) /\ Len(E!Segments(a, n)) = n
           /\ \A i \in 1 .. n : E!Segments(a, n)[i] = a + i
           /\ E!Segments(0, 0) = << >>
  BY DEF E!Segments

\* Taking the next segment over.
LEMMA SegmentTaken ==
    ASSUME NEW k \in Nat, NEW n \in Nat \ {0}
    PROVE  /\ Head(E!Segments(k, n)) = k + 1
           /\ Tail(E!Segments(k, n)) = E!Segments(k + 1, n - 1)
           /\ Append(E!Segments(0, k), k + 1) = E!Segments(0, k + 1)
<1>1. /\ E!Segments(k, n) \in Seq(Nat) /\ Len(E!Segments(k, n)) = n
      /\ \A i \in 1 .. n : E!Segments(k, n)[i] = k + i
  BY SegmentsAre
<1>2. n - 1 \in Nat /\ k + 1 \in Nat
  OBVIOUS
<1>3. /\ E!Segments(k + 1, n - 1) \in Seq(Nat) /\ Len(E!Segments(k + 1, n - 1)) = n - 1
      /\ \A i \in 1 .. n - 1 : E!Segments(k + 1, n - 1)[i] = (k + 1) + i
  BY <1>2, SegmentsAre
<1>4. Head(E!Segments(k, n)) = k + 1
  BY <1>1
<1>5. Tail(E!Segments(k, n)) = E!Segments(k + 1, n - 1)
  <2>1. E!Segments(k, n) # << >>
    BY <1>1
  <2>2. /\ Tail(E!Segments(k, n)) \in Seq(Nat) /\ Len(Tail(E!Segments(k, n))) = n - 1
        /\ \A i \in 1 .. n - 1 : Tail(E!Segments(k, n))[i] = E!Segments(k, n)[i + 1]
    BY <1>1, <2>1
  <2>3. \A i \in 1 .. n - 1 : i + 1 \in 1 .. n /\ k + (i + 1) = (k + 1) + i
    OBVIOUS
  <2>4. ASSUME NEW i \in 1 .. n - 1
        PROVE  Tail(E!Segments(k, n))[i] = E!Segments(k + 1, n - 1)[i]
    <3>1. Tail(E!Segments(k, n))[i] = E!Segments(k, n)[i + 1]
      BY <2>2
    <3>2. E!Segments(k, n)[i + 1] = k + (i + 1)
      BY <1>1, <2>3
    <3>3. E!Segments(k + 1, n - 1)[i] = (k + 1) + i
      BY <1>3
    <3> QED BY <2>3, <3>1, <3>2, <3>3
  <2>5. \A i \in 1 .. Len(Tail(E!Segments(k, n))) :
           Tail(E!Segments(k, n))[i] = E!Segments(k + 1, n - 1)[i]
    BY <2>2, <2>4
  <2>6. Len(Tail(E!Segments(k, n))) = Len(E!Segments(k + 1, n - 1))
    BY <1>3, <2>2
  <2> QED BY <1>3, <2>2, <2>5, <2>6, NatSeqsEqual
<1>6. Append(E!Segments(0, k), k + 1) = E!Segments(0, k + 1)
  <2>1. /\ E!Segments(0, k) \in Seq(Nat) /\ Len(E!Segments(0, k)) = k
        /\ \A i \in 1 .. k : E!Segments(0, k)[i] = 0 + i
    BY SegmentsAre
  <2>2. /\ E!Segments(0, k + 1) \in Seq(Nat) /\ Len(E!Segments(0, k + 1)) = k + 1
        /\ \A i \in 1 .. k + 1 : E!Segments(0, k + 1)[i] = 0 + i
    BY <1>2, SegmentsAre
  <2>3. /\ Append(E!Segments(0, k), k + 1) \in Seq(Nat)
        /\ Len(Append(E!Segments(0, k), k + 1)) = k + 1
        /\ \A i \in 1 .. k : Append(E!Segments(0, k), k + 1)[i] = E!Segments(0, k)[i]
        /\ Append(E!Segments(0, k), k + 1)[k + 1] = k + 1
    BY <2>1
  <2>4. \A i \in 1 .. k + 1 : Append(E!Segments(0, k), k + 1)[i] = E!Segments(0, k + 1)[i]
    BY <2>1, <2>2, <2>3
  <2> QED BY <2>2, <2>3, <2>4
<1> QED BY <1>4, <1>5, <1>6

LEMMA LowestExists ==
    ASSUME NEW some \in SUBSET Nat, some # {}
    PROVE  \E n \in some : \A k \in some : n <= k
<1>1. PICK n \in some : \A k \in some : <<k, n>> \notin OpToRel(<, Nat)
  BY NatLessThanWellFounded, WFMin
<1>2. \A k \in some : ~(k < n)
  BY <1>1 DEF OpToRel
<1> QED BY <1>2

\* A free channel has a lowest one.
LEMMA LowestIs ==
    ASSUME E!ApduAssumption, E!Free # {}
    PROVE  E!Lowest(E!Free) \in Channels /\ E!Lowest(E!Free) \in E!Free
<1>1. E!Free \in SUBSET Nat /\ E!Free \subseteq Channels
  BY DEF E!Free, E!ApduAssumption
<1>2. \E c \in E!Free : \A d \in E!Free : c <= d
  BY <1>1, LowestExists
<1>3. E!Lowest(E!Free) \in E!Free
  BY <1>2 DEF E!Lowest
<1> QED BY <1>1, <1>3

LEMMA FatesSpent ==
    ASSUME E!ApduAssumption, s8 \in 0 .. MaxApduFaults, s9 \in BOOLEAN, NEW f \in E!Fates,
           E!Spend(f)
    PROVE  s8' \in 0 .. MaxApduFaults /\ s9' \in BOOLEAN /\ (s9 => s9') /\ (f # "good" => s9')
           /\ (f = "good" => s9' = s9)
<1>1. f # "good" => s8 < MaxApduFaults
  BY DEF E!Fates
<1>2. CASE f = "good"
  BY <1>2 DEF E!Spend
<1>3. CASE f # "good"
  <2>1. s8' = s8 + 1 /\ s9' = TRUE
    BY <1>3 DEF E!Spend
  <2>2. s8 + 1 \in 0 .. MaxApduFaults
    BY <1>1, <1>3 DEF E!ApduAssumption
  <2> QED BY <1>3, <2>1, <2>2
<1> QED BY <1>2, <1>3

LEMMA ReadIsDone == ASSUME NEW f, E!Read(f) PROVE E!Done(f)
  BY DEF E!Read, E!Done

\* The invariant after a step, part by part.
LEMMA ApduSound ==
    ASSUME s1' \subseteq Channels, s6' \in E!Requests \cup {E!NoRequest}, s5' \in E!States,
           s7' \in 0 .. MaxSessions, s8' \in 0 .. MaxApduFaults, s9' \in BOOLEAN,
           s2' \in Seq(Nat), s3' \in Seq(Nat), E!RunsWhole', E!Requested',
           E!Opening', E!Sending', E!Collecting', E!Closing'
    PROVE  E!IInv'
<1>1. E!TypeOK'
  BY DEF E!TypeOK, E!States
<1> QED BY <1>1 DEF E!IInv

LEMMA ApduParts ==
    ASSUME E!IInv
    PROVE  /\ s1 \subseteq Channels /\ s6 \in E!Requests \cup {E!NoRequest} /\ s5 \in E!States
           /\ s7 \in 0 .. MaxSessions /\ s8 \in 0 .. MaxApduFaults /\ s9 \in BOOLEAN
           /\ s2 \in Seq(Nat) /\ s3 \in Seq(Nat) /\ E!RunsWhole /\ E!Requested
           /\ E!Opening /\ E!Sending /\ E!Collecting /\ E!Closing
  BY DEF E!IInv, E!TypeOK

\* Parts that speak of other stages than the next hold.
LEMMA ElsewhereSound ==
    /\ s5'.at \notin {"declare", "open", "sweep", "unopened"} => E!Opening'
    /\ s5'.at # "send" => E!Sending'
    /\ s5'.at \notin {"collect", "more"} => E!Collecting'
    /\ s5'.at # "answered" /\ s5'.at # "close" => E!Closing'
  BY DEF E!Opening, E!Sending, E!Collecting, E!Closing

LEMMA IdleState ==
    ASSUME E!ApduAssumption
    PROVE  /\ E!Idle \in E!States
           /\ \A how \in {"declare", "open", "answered", "failed", "unopened"} :
                [E!Idle EXCEPT !.at = how] \in E!States
           /\ \A q \in Seq(Nat), how \in {"answered", "failed", "unopened"} :
                [E!Idle EXCEPT !.at = how, !.out = q] \in E!States
<1>1. << >> \in Seq(Nat)
  OBVIOUS
<1>2. 0 \in 0 .. MaxBlocks + 1 /\ 0 \in 0 .. ChainMax /\ 0 \in 0 .. 2
  BY DEF E!ApduAssumption
<1>3. E!Idle \in E!States
  BY <1>1, <1>2 DEF E!Idle, E!States
<1> QED BY <1>3 DEF E!States

LEMMA EndState ==
    ASSUME E!ApduAssumption, s5 \in E!States, NEW how \in {"answered", "failed", "unopened"},
           E!End(how)
    PROVE  s5' \in E!States /\ s5'.at = how
           /\ s5'.out = (IF how = "answered" THEN s5.out ELSE << >>)
<1> DEFINE q == IF how = "answered" THEN s5.out ELSE << >>
<1>1. q \in Seq(Nat)
  BY DEF E!States
<1>2. s5' = [E!Idle EXCEPT !.at = how, !.out = q]
  BY DEF E!End
<1> HIDE DEF q
<1>3. s5' \in E!States
  BY <1>1, <1>2, IdleState
<1>4. s5'.at = how /\ s5'.out = q
  BY <1>2 DEF E!Idle
<1> QED BY <1>3, <1>4 DEF q

\* A step that leaves out what was collected and closes the channel.
LEMMA SpoiltState ==
    ASSUME E!ApduAssumption, s5 \in E!States, E!Spoil, NEW b \in 0 .. MaxBlocks
    PROVE  s5' \in E!States /\ s5'.at = "close" /\ s5'.block # b
<1>1. << >> \in Seq(Nat) /\ MaxBlocks + 1 \in 0 .. MaxBlocks + 1 /\ MaxBlocks + 1 # b
  BY DEF E!ApduAssumption
<1>2. s5' = [s5 EXCEPT !.at = "close", !.out = << >>, !.block = MaxBlocks + 1]
  BY DEF E!Spoil
<1> QED BY <1>1, <1>2 DEF E!States

LEMMA RequestBlocks ==
    ASSUME E!ApduAssumption, s6 \in E!Requests \cup {E!NoRequest}
    PROVE  s6.blocks \in 0 .. MaxBlocks
  BY DEF E!ApduAssumption, E!Requests, E!NoRequest

LEMMA UntouchedKept ==
    ASSUME E!IInv, UNCHANGED <<s1, s2, s3, s4, s5, s6, s7, s8, s9>>
    PROVE  E!IInv'
  BY DEF E!IInv, E!TypeOK, E!RunsWhole, E!Requested, E!Opening, E!Sending, E!Collecting,
         E!Closing, E!Free, E!Last, E!Newest, E!States

LEMMA BeginKept ==
    ASSUME E!ApduAssumption, E!IInv, E!Begin
    PROVE  E!IInv'
<1> USE ApduParts
<1>1. /\ s6' \in E!Requests /\ s7 < MaxSessions /\ s7' = s7 + 1 /\ s9' = FALSE
      /\ s2' = << >> /\ s3' = << >> /\ s1' = s1 /\ s4' = s4 /\ s8' = s8
  BY DEF E!Begin
<1> DEFINE how == IF s6'.declare THEN "declare" ELSE "open"
<1>2. s5' = [E!Idle EXCEPT !.at = how]
  BY DEF E!Begin
<1>3. how \in {"declare", "open", "answered", "failed", "unopened"} /\ how \in {"declare", "open"}
  OBVIOUS
<1> HIDE DEF how
<1>4. s5' \in E!States
  BY <1>2, <1>3, IdleState
<1>5. s5'.at = how /\ s5'.tries = 0 /\ s5'.block = 0
  BY <1>2 DEF E!Idle
<1>6. s7' \in 0 .. MaxSessions
  BY <1>1 DEF E!ApduAssumption
<1>7. << >> \in Seq(Nat)
  OBVIOUS
<1>8. E!Opening'
  BY <1>1, <1>3, <1>5 DEF E!Opening
<1>9. E!RunsWhole' /\ E!Requested'
  BY <1>1 DEF E!RunsWhole, E!Requested
<1>10. E!Sending' /\ E!Collecting' /\ E!Closing'
  BY <1>3, <1>5, ElsewhereSound
<1> QED BY <1>1, <1>4, <1>6, <1>7, <1>8, <1>9, <1>10, ApduSound

LEMMA DeclareKept ==
    ASSUME E!ApduAssumption, E!IInv, E!Declare
    PROVE  E!IInv'
<1> USE ApduParts
<1>1. /\ s5.at = "declare" /\ s1' = s1 /\ s2' = s2 /\ s3' = s3 /\ s4' = s4
      /\ s6' = s6 /\ s7' = s7
  BY DEF E!Declare
<1>2. PICK f \in E!Fates :
        E!Spend(f) /\ (IF E!Done(f) /\ f # "lost" THEN s5' = [s5 EXCEPT !.at = "open"]
                                                  ELSE E!End("failed"))
  BY DEF E!Declare
<1>3. s8' \in 0 .. MaxApduFaults /\ s9' \in BOOLEAN
  BY <1>2, FatesSpent
<1>4. E!RunsWhole' /\ E!Requested'
  BY <1>1 DEF E!RunsWhole, E!Requested
<1>5. CASE s5' = [s5 EXCEPT !.at = "open"]
  <2>1. s5' \in E!States /\ s5'.at = "open" /\ s5'.tries = 0 /\ s5'.block = 0 /\ s2' = << >>
    BY <1>1, <1>5 DEF E!States, E!Opening
  <2>2. E!Opening'
    BY <2>1 DEF E!Opening
  <2>3. E!Sending' /\ E!Collecting' /\ E!Closing'
    BY <2>1, ElsewhereSound
  <2> QED BY <1>1, <1>3, <1>4, <2>1, <2>2, <2>3, ApduSound
<1>6. CASE E!End("failed")
  <2>1. s5' \in E!States /\ s5'.at = "failed"
    BY <1>6, EndState
  <2>2. E!Opening' /\ E!Sending' /\ E!Collecting' /\ E!Closing'
    BY <2>1, ElsewhereSound
  <2> QED BY <1>1, <1>3, <1>4, <2>1, <2>2, ApduSound
<1> QED BY <1>2, <1>5, <1>6

LEMMA OpenKept ==
    ASSUME E!ApduAssumption, E!IInv, E!Open
    PROVE  E!IInv'
<1> USE ApduParts
<1> DEFINE c == E!Lowest(E!Free)
<1>1. /\ s5.at = "open" /\ s2' = s2 /\ s3' = s3 /\ s4' = s4 /\ s6' = s6 /\ s7' = s7
  BY DEF E!Open
<1>2. PICK f \in E!Fates, seen \in BOOLEAN :
        LET opened == E!Free # {} /\ E!Done(f)
            p == E!ParseCcho(f, opened, seen, c)
        IN /\ E!Spend(f)
           /\ s1' = IF opened THEN s1 \cup {c} ELSE s1
           /\ s5' = IF p.found
                   THEN [s5 EXCEPT !.at = "send", !.open = TRUE, !.channel = c]
                   ELSE [s5 EXCEPT !.at = "sweep", !.tries = @ + 1, !.candidate = p.candidate]
  BY DEF E!Open
<1> DEFINE opened == E!Free # {} /\ E!Done(f)
           p == E!ParseCcho(f, opened, seen, c)
<1>3. /\ E!Spend(f)
      /\ s1' = IF opened THEN s1 \cup {c} ELSE s1
      /\ s5' = IF p.found
              THEN [s5 EXCEPT !.at = "send", !.open = TRUE, !.channel = c]
              ELSE [s5 EXCEPT !.at = "sweep", !.tries = @ + 1, !.candidate = p.candidate]
  BY <1>2
<1>4. /\ p.found <=> opened /\ E!Read(f)
      /\ (p.candidate = c /\ opened) \/ p.candidate = 0
  BY DEF E!ParseCcho
<1>5. opened => c \in Channels
  BY LowestIs
<1>6. s8' \in 0 .. MaxApduFaults /\ s9' \in BOOLEAN /\ (s9 => s9') /\ (f # "good" => s9')
  BY <1>3, FatesSpent
<1>7. E!RunsWhole' /\ E!Requested'
  BY <1>1 DEF E!RunsWhole, E!Requested
<1>8. s1' \subseteq Channels
  BY <1>3, <1>5
<1>9. s5.tries \in 0 .. 2 /\ s5.tries < 2 /\ (s5.tries = 1 => s9 \/ E!Free # {})
      /\ s2 = << >> /\ s5.block = 0
  BY <1>1 DEF E!States, E!Opening
<1>10. f = "good" => E!Done(f) /\ E!Read(f)
  BY DEF E!Done, E!Read
<1> HIDE DEF opened, p, c
<1>11. CASE p.found
  <2>1. s5' = [s5 EXCEPT !.at = "send", !.open = TRUE, !.channel = c]
    BY <1>3, <1>11
  <2>2. c \in Channels \cup {0}
    BY <1>4, <1>5, <1>11
  <2>3. s5' \in E!States /\ s5'.at = "send" /\ s5'.block = 0
    BY <1>9, <2>1, <2>2 DEF E!States
  <2>4. s6 \in E!Requests
    BY <1>1 DEF E!Requested
  <2>5. s6.blocks \in 1 .. MaxBlocks
    BY <2>4 DEF E!Requests
  <2>6. 0 < s6.blocks
    BY <2>5
  <2>7. E!Blocks(0) = << >>
    BY BlocksAre
  <2>8. E!Sending'
    BY <1>1, <1>9, <2>3, <2>6, <2>7 DEF E!Sending
  <2>9. E!Opening' /\ E!Collecting' /\ E!Closing'
    BY <2>3, ElsewhereSound
  <2> QED BY <1>1, <1>6, <1>7, <1>8, <2>3, <2>8, <2>9, ApduSound
<1>12. CASE ~p.found
  <2>1. s5' = [s5 EXCEPT !.at = "sweep", !.tries = @ + 1, !.candidate = p.candidate]
    BY <1>3, <1>12
  <2>2. p.candidate \in Channels \cup {0}
    BY <1>4, <1>5
  <2>3. s5.tries + 1 \in 0 .. 2 /\ s5.tries + 1 > 0 /\ (s5.tries + 1 = 2 => s5.tries = 1)
    BY <1>9
  <2>4. /\ s5' \in E!States /\ s5'.at = "sweep" /\ s5'.block = 0
        /\ s5'.tries = s5.tries + 1
    BY <1>9, <2>1, <2>2, <2>3 DEF E!States
  <2>5. s5'.tries = 2 => s9'
    <3>1. CASE f # "good"
      BY <1>6, <3>1
    <3>2. CASE f = "good"
      <4>1. E!Free = {}
        BY <1>4, <1>10, <1>12, <3>2 DEF opened
      <4> QED BY <1>6, <1>9, <2>3, <2>4, <4>1
    <3> QED BY <3>1, <3>2
  <2>6. E!Opening'
    BY <1>1, <1>9, <2>3, <2>4, <2>5 DEF E!Opening
  <2>7. E!Sending' /\ E!Collecting' /\ E!Closing'
    BY <2>4, ElsewhereSound
  <2> QED BY <1>1, <1>6, <1>7, <1>8, <2>4, <2>6, <2>7, ApduSound
<1> QED BY <1>11, <1>12

LEMMA SweepKept ==
    ASSUME E!ApduAssumption, E!IInv, E!Sweep
    PROVE  E!IInv'
<1> USE ApduParts
<1>1. /\ s5.at = "sweep" /\ s2' = s2 /\ s3' = s3 /\ s4' = s4 /\ s6' = s6 /\ s7' = s7
      /\ IF s5.tries < 2 THEN s5' = [s5 EXCEPT !.at = "open", !.candidate = 0]
                         ELSE E!End("unopened")
  BY DEF E!Sweep
<1>2. PICK undone \in {{}} \cup (IF s8 < MaxApduFaults THEN {{c} : c \in E!Swept} ELSE {}) :
        /\ s1' = s1 \ (E!Swept \ undone)
        /\ s8' = s8 + (IF undone = {} THEN 0 ELSE 1)
        /\ s9' = (s9 \/ undone # {})
  BY DEF E!Sweep
<1>3. s9' \in BOOLEAN /\ (s9 => s9')
  BY <1>2
<1>4. s8' \in 0 .. MaxApduFaults
  <2>1. CASE undone = {}
    BY <1>2, <2>1
  <2>2. CASE undone # {}
    <3>1. s8 < MaxApduFaults
      BY <1>2, <2>2
    <3>2. s8 + 1 \in 0 .. MaxApduFaults
      BY <3>1 DEF E!ApduAssumption
    <3> QED BY <1>2, <2>2, <3>2
  <2> QED BY <2>1, <2>2
<1>5. E!RunsWhole' /\ E!Requested'
  BY <1>1 DEF E!RunsWhole, E!Requested
<1>6. s1' \subseteq Channels
  BY <1>2
<1>7. ~s9' => Channels \ s1' # {}
  <2>1. ASSUME ~s9' PROVE Channels \ s1' # {}
    <3>1. undone = {}
      BY <1>2, <2>1
    <3>2. KnownChannels \cap s1' = {}
      BY <1>2, <3>1 DEF E!Swept
    <3> QED BY <3>2 DEF E!ApduAssumption
  <2> QED BY <2>1
<1>8. /\ s5.tries \in 0 .. 2 /\ s5.tries > 0 /\ (s5.tries = 2 => s9)
      /\ s2 = << >> /\ s5.block = 0
  BY <1>1 DEF E!States, E!Opening
<1>9. CASE s5.tries < 2
  <2>1. s5' = [s5 EXCEPT !.at = "open", !.candidate = 0]
    BY <1>1, <1>9
  <2>2. s5' \in E!States /\ s5'.at = "open" /\ s5'.tries = s5.tries /\ s5'.block = 0
    BY <1>8, <2>1 DEF E!States
  <2>3. E!Opening'
    BY <1>1, <1>7, <1>8, <1>9, <2>2 DEF E!Opening, E!Free
  <2>4. E!Sending' /\ E!Collecting' /\ E!Closing'
    BY <2>2, ElsewhereSound
  <2> QED BY <1>1, <1>3, <1>4, <1>5, <1>6, <2>2, <2>3, <2>4, ApduSound
<1>10. CASE ~(s5.tries < 2)
  <2>1. s9' /\ E!End("unopened")
    BY <1>1, <1>3, <1>8, <1>10
  <2>2. s5' \in E!States /\ s5'.at = "unopened"
    BY <2>1, EndState
  <2>3. E!Opening'
    BY <2>1, <2>2 DEF E!Opening
  <2>4. E!Sending' /\ E!Collecting' /\ E!Closing'
    BY <2>2, ElsewhereSound
  <2> QED BY <1>1, <1>3, <1>4, <1>5, <1>6, <2>2, <2>3, <2>4, ApduSound
<1> QED BY <1>9, <1>10

\* A request that the card carries out is added to those before it.
LEMMA RunAppended ==
    ASSUME E!RunsWhole, NEW b \in Nat, NEW n \in Nat,
           s4' = Append(s4, [asked |-> b, got |-> E!Blocks(b), segments |-> n])
    PROVE  /\ E!RunsWhole' /\ s4' # << >>
           /\ E!Newest'.got = E!Blocks(b) /\ E!Newest'.segments = n
<1> DEFINE new == [asked |-> b, got |-> E!Blocks(b), segments |-> n]
<1>1. E!Blocks(b) \in Seq(Nat)
  BY BlocksAre
<1>2. new \in E!Executed /\ new.got = E!Blocks(new.asked) /\ new.got = E!Blocks(b) /\ new.segments = n
  BY <1>1 DEF E!Executed
<1>3. s4' = Append(s4, new)
  OBVIOUS
<1> HIDE DEF new
<1>4. s4 \in Seq(E!Executed) /\ \A i \in 1 .. Len(s4) : s4[i].got = E!Blocks(s4[i].asked)
  BY DEF E!RunsWhole
<1>5. /\ s4' \in Seq(E!Executed) /\ Len(s4') = Len(s4) + 1 /\ s4'[Len(s4) + 1] = new
      /\ \A i \in 1 .. Len(s4) : s4'[i] = s4[i]
  BY <1>2, <1>3, <1>4
<1>6. \A i \in 1 .. Len(s4') : s4'[i].got = E!Blocks(s4'[i].asked)
  <2>1. ASSUME NEW i \in 1 .. Len(s4') PROVE s4'[i].got = E!Blocks(s4'[i].asked)
    <3>1. CASE i \in 1 .. Len(s4)
      BY <1>4, <1>5, <3>1
    <3>2. CASE i = Len(s4) + 1
      BY <1>2, <1>5, <3>2
    <3> QED BY <1>4, <1>5, <3>1, <3>2
  <2> QED BY <2>1
<1>7. E!Newest' = new
  BY <1>5 DEF E!Newest
<1>8. s4' # << >>
  BY <1>4, <1>5
<1> QED BY <1>2, <1>5, <1>6, <1>7, <1>8 DEF E!RunsWhole

LEMMA StoreKept ==
    ASSUME E!ApduAssumption, E!IInv, E!Store
    PROVE  E!IInv'
<1> USE ApduParts
<1> DEFINE last == E!Last(s5.block)
           now == Append(s2, s5.block)
<1>1. s5.at = "send" /\ s1' = s1 /\ s6' = s6 /\ s7' = s7
  BY DEF E!Store
<1>2. PICK f \in E!Fates, n \in 1 .. MaxSegments :
        /\ E!Spend(f)
        /\ s2' = IF E!Done(f) THEN now ELSE s2
        /\ s3' = IF E!Done(f) THEN [i \in 1 .. n |-> i] ELSE << >>
        /\ s4' = IF E!Done(f) /\ last
                  THEN Append(s4, [asked |-> s6.blocks, got |-> now, segments |-> n]) ELSE s4
        /\ s5' = IF E!Read(f) THEN [s5 EXCEPT !.at = "collect", !.out = << >>, !.chain = 0]
                  ELSE [s5 EXCEPT !.at = "close", !.out = << >>, !.block = MaxBlocks + 1]
  BY DEF E!Store
<1>3. s8' \in 0 .. MaxApduFaults /\ s9' \in BOOLEAN
  BY <1>2, FatesSpent
<1>4. s5.block \in Nat /\ s6.blocks \in 0 .. MaxBlocks /\ s5.block < s6.blocks /\ n \in Nat
  BY <1>1, RequestBlocks DEF E!States, E!Sending, E!ApduAssumption
<1>5. now = E!Blocks(s5.block + 1) /\ now \in Seq(Nat)
  <2>1. s2 = E!Blocks(s5.block)
    BY <1>1 DEF E!Sending
  <2>2. Append(E!Blocks(s5.block), s5.block) = E!Blocks(s5.block + 1)
    BY <1>4, BlocksAre
  <2>3. s5.block + 1 \in Nat
    BY <1>4
  <2>4. E!Blocks(s5.block + 1) \in Seq(Nat)
    BY <2>3, BlocksAre
  <2> QED BY <2>1, <2>2, <2>4
<1>6. last <=> s5.block + 1 = s6.blocks
  BY DEF E!Last
<1>7. [i \in 1 .. n |-> i] = E!Segments(0, n)
  BY <1>4 DEF E!Segments
<1>8. E!Segments(0, n) \in Seq(Nat) /\ Len(E!Segments(0, n)) = n /\ E!Segments(0, 0) = << >>
  BY <1>4, SegmentsAre
<1> HIDE DEF last, now
<1>9. s2' \in Seq(Nat) /\ s3' \in Seq(Nat)
  <2>1. << >> \in Seq(Nat)
    OBVIOUS
  <2> QED BY <1>2, <1>5, <1>7, <1>8, <2>1
<1>10. last => s6.blocks \in Nat /\ now = E!Blocks(s6.blocks)
  BY <1>4, <1>5, <1>6
<1>11. /\ E!RunsWhole'
       /\ E!Done(f) /\ last => /\ s4' # << >> /\ E!Newest'.got = E!Blocks(s6.blocks)
                               /\ E!Newest'.segments = n
  <2>1. CASE E!Done(f) /\ last
    <3>1. s4' = Append(s4, [asked |-> s6.blocks, got |-> E!Blocks(s6.blocks), segments |-> n])
      BY <1>2, <1>10, <2>1
    <3> QED BY <1>4, <1>10, <2>1, <3>1, RunAppended
  <2>2. CASE ~(E!Done(f) /\ last)
    <3>1. s4' = s4
      BY <1>2, <2>2
    <3> QED BY <2>2, <3>1 DEF E!RunsWhole
  <2> QED BY <2>1, <2>2
<1>12. E!Requested'
  BY <1>1 DEF E!Requested
<1>13. CASE E!Read(f)
  <2>1. E!Done(f)
    BY <1>13, ReadIsDone
  <2>2. s5' = [s5 EXCEPT !.at = "collect", !.out = << >>, !.chain = 0]
    BY <1>2, <1>13
  <2>3. << >> \in Seq(Nat) /\ 0 \in 0 .. ChainMax /\ Len(<< >>) = 0
    BY DEF E!ApduAssumption
  <2>4. /\ s5' \in E!States /\ s5'.at = "collect" /\ s5'.out = << >> /\ s5'.block = s5.block
    BY <2>2, <2>3 DEF E!States
  <2>5. s2' = E!Blocks(s5.block + 1) /\ s3' = E!Segments(0, n)
    BY <1>2, <1>5, <1>7, <2>1
  <2>6. E!Collecting'
    <3>1. E!Last(s5.block)' <=> last
      BY <1>1, <1>6, <2>4 DEF E!Last
    <3>2. /\ s5'.block < s6'.blocks /\ s2' = E!Blocks(s5'.block + 1)
          /\ s5'.out = E!Segments(0, Len(s5'.out))
          /\ s3' = E!Segments(Len(s5'.out), Len(s3')) /\ Len(s5'.out) + Len(s3') = n
      BY <1>1, <1>4, <1>8, <2>3, <2>4, <2>5
    <3>3. last => /\ s4' # << >> /\ E!Newest'.got = E!Blocks(s6'.blocks)
                  /\ E!Newest'.segments = Len(s5'.out) + Len(s3')
      BY <1>1, <1>11, <2>1, <3>2
    <3>4. E!Last(s5.block)' => last
      BY <3>1
    <3> QED BY <3>2, <3>3, <3>4 DEF E!Collecting
  <2>7. E!Opening' /\ E!Sending' /\ E!Closing'
    BY <2>4, ElsewhereSound
  <2> QED BY <1>1, <1>3, <1>9, <1>11, <1>12, <2>4, <2>6, <2>7, ApduSound
<1>14. CASE ~E!Read(f)
  <2>1. E!Spoil
    BY <1>2, <1>14 DEF E!Spoil
  <2>2. s5' \in E!States /\ s5'.at = "close" /\ s5'.block # s6.blocks
    BY <1>4, <2>1, SpoiltState
  <2>3. E!Closing'
    BY <1>1, <2>2 DEF E!Closing
  <2>4. E!Opening' /\ E!Sending' /\ E!Collecting'
    BY <2>2, ElsewhereSound
  <2> QED BY <1>1, <1>3, <1>9, <1>11, <1>12, <2>2, <2>3, <2>4, ApduSound
<1> QED BY <1>13, <1>14

LEMMA CollectKept ==
    ASSUME E!ApduAssumption, E!IInv, E!Collect
    PROVE  E!IInv'
<1> USE ApduParts
<1> DEFINE k == Len(s5.out)
           m == Len(s3)
           out == E!Collected(s5.out, Head(s3))
<1>1. /\ s5.at = "collect" /\ s3 # << >> /\ s3' = Tail(s3) /\ s1' = s1 /\ s2' = s2 /\ s4' = s4
      /\ s6' = s6 /\ s7' = s7 /\ s8' = s8 /\ s9' = s9
  BY DEF E!Collect
<1>2. IF Len(s5.out) + 1 > DataMax \/ (m > 1 /\ s5.chain + 1 > ChainMax)
      THEN E!Spoil
      ELSE s5' = IF m > 1 THEN [s5 EXCEPT !.at = "more", !.out = out, !.chain = @ + 1]
                 ELSE IF E!Last(s5.block)
                      THEN [s5 EXCEPT !.at = "close", !.out = out, !.block = @ + 1]
                 ELSE [s5 EXCEPT !.at = "send", !.out = << >>, !.block = @ + 1]
  BY DEF E!Collect
<1>3. /\ s5.out \in Seq(Nat) /\ s5.block \in Nat /\ s5.chain \in 0 .. ChainMax
      /\ s6.blocks \in 0 .. MaxBlocks
  BY RequestBlocks DEF E!States
<1>4. k \in Nat /\ m \in Nat \ {0} /\ m - 1 \in Nat /\ k + 1 \in Nat
  BY <1>1, <1>3
<1>5. /\ s5.block < s6.blocks /\ s2 = E!Blocks(s5.block + 1)
      /\ s5.out = E!Segments(0, k) /\ s3 = E!Segments(k, m)
      /\ E!Last(s5.block) => /\ s4 # << >> /\ E!Newest.got = E!Blocks(s6.blocks)
                             /\ E!Newest.segments = k + m
  BY <1>1 DEF E!Collecting
<1>6. E!Newest' = E!Newest
  BY <1>1 DEF E!Newest
<1> HIDE DEF k, m
<1>7. /\ Head(E!Segments(k, m)) = k + 1
      /\ Tail(E!Segments(k, m)) = E!Segments(k + 1, m - 1)
      /\ Append(E!Segments(0, k), k + 1) = E!Segments(0, k + 1)
  BY <1>4, SegmentTaken
<1>8. /\ E!Segments(k + 1, m - 1) \in Seq(Nat) /\ Len(E!Segments(k + 1, m - 1)) = m - 1
      /\ E!Segments(0, k + 1) \in Seq(Nat) /\ Len(E!Segments(0, k + 1)) = k + 1
  BY <1>4, SegmentsAre
<1>9. s3' = E!Segments(k + 1, m - 1) /\ s3' \in Seq(Nat) /\ Len(s3') = m - 1
  BY <1>1, <1>5, <1>7, <1>8
<1>10. out = E!Segments(0, k + 1) /\ out \in Seq(Nat) /\ Len(out) = k + 1
  BY <1>5, <1>7, <1>8 DEF E!Collected
<1> HIDE DEF out
<1>11. E!RunsWhole' /\ E!Requested'
  BY <1>1 DEF E!RunsWhole, E!Requested
<1>12. E!Last(s5.block) <=> s5.block + 1 = s6.blocks
  BY DEF E!Last
<1>13. s5.block + 1 \in 0 .. MaxBlocks + 1 /\ s5.block + 1 \in Nat
  BY SMTT(60), <1>3, <1>5 DEF E!ApduAssumption
<1>14. CASE E!Spoil
  <2>1. s5' \in E!States /\ s5'.at = "close" /\ s5'.block # s6.blocks
    BY <1>3, <1>14, SpoiltState
  <2>2. E!Closing'
    BY <1>1, <2>1 DEF E!Closing
  <2>3. E!Opening' /\ E!Sending' /\ E!Collecting'
    BY <2>1, ElsewhereSound
  <2> QED BY <1>1, <1>9, <1>11, <2>1, <2>2, <2>3, ApduSound
<1>15. CASE m > 1 /\ ~(s5.chain + 1 > ChainMax)
            /\ s5' = [s5 EXCEPT !.at = "more", !.out = out, !.chain = @ + 1]
  <2>1. s5.chain + 1 \in 0 .. ChainMax
    BY SMTT(60), <1>3, <1>15 DEF E!ApduAssumption
  <2>2. s5' \in E!States /\ s5'.at = "more" /\ s5'.block = s5.block /\ s5'.out = out
    BY <1>10, <1>15, <2>1 DEF E!States
  <2>3. Len(s5'.out) = k + 1 /\ Len(s5'.out) + Len(s3') = k + m
    <3>1. Len(s5'.out) = k + 1
      BY <1>10, <2>2
    <3>2. Len(s3') = m - 1
      BY <1>9
    <3>3. (k + 1) + (m - 1) = k + m
      BY <1>4
    <3> QED BY <3>1, <3>2, <3>3
  <2>4. E!Last(s5.block)' => E!Last(s5.block)
    BY <1>1, <2>2 DEF E!Last
  <2>5. E!Collecting'
    BY <1>1, <1>5, <1>6, <1>9, <1>10, <2>2, <2>3, <2>4 DEF E!Collecting
  <2>6. E!Opening' /\ E!Sending' /\ E!Closing'
    BY <2>2, ElsewhereSound
  <2> QED BY <1>1, <1>9, <1>11, <2>2, <2>5, <2>6, ApduSound
<1>16. CASE ~(m > 1) /\ E!Last(s5.block)
            /\ s5' = [s5 EXCEPT !.at = "close", !.out = out, !.block = @ + 1]
  <2>1. s5' \in E!States /\ s5'.at = "close" /\ s5'.out = out
    BY <1>10, <1>13, <1>16 DEF E!States
  <2>2. E!Newest.segments = k + 1
    BY <1>4, <1>5, <1>16
  <2>3. E!Closing'
    BY <1>1, <1>5, <1>6, <1>10, <1>16, <2>1, <2>2 DEF E!Closing
  <2>4. E!Opening' /\ E!Sending' /\ E!Collecting'
    BY <2>1, ElsewhereSound
  <2> QED BY <1>1, <1>9, <1>11, <2>1, <2>3, <2>4, ApduSound
<1>17. CASE ~(m > 1) /\ ~E!Last(s5.block)
            /\ s5' = [s5 EXCEPT !.at = "send", !.out = << >>, !.block = @ + 1]
  <2>1. << >> \in Seq(Nat)
    OBVIOUS
  <2>2. s5' \in E!States /\ s5'.at = "send" /\ s5'.block = s5.block + 1
    BY <1>13, <1>17, <2>1 DEF E!States
  <2>3. s5.block + 1 < s6.blocks
    BY <1>3, <1>5, <1>12, <1>17
  <2>4. E!Sending'
    BY <1>1, <1>5, <2>2, <2>3 DEF E!Sending
  <2>5. E!Opening' /\ E!Collecting' /\ E!Closing'
    BY <2>2, ElsewhereSound
  <2> QED BY <1>1, <1>9, <1>11, <2>2, <2>4, <2>5, ApduSound
<1> QED BY <1>2, <1>14, <1>15, <1>16, <1>17

LEMMA GetResponseKept ==
    ASSUME E!ApduAssumption, E!IInv, E!GetResponse
    PROVE  E!IInv'
<1> USE ApduParts
<1>1. /\ s5.at = "more" /\ s1' = s1 /\ s2' = s2 /\ s3' = s3 /\ s4' = s4 /\ s6' = s6 /\ s7' = s7
  BY DEF E!GetResponse
<1>2. PICK f \in E!Fates :
        E!Spend(f) /\ IF E!Read(f) THEN s5' = [s5 EXCEPT !.at = "collect"] ELSE E!Spoil
  BY DEF E!GetResponse
<1>3. s8' \in 0 .. MaxApduFaults /\ s9' \in BOOLEAN
  BY <1>2, FatesSpent
<1>4. E!RunsWhole' /\ E!Requested'
  BY <1>1 DEF E!RunsWhole, E!Requested
<1>5. CASE s5' = [s5 EXCEPT !.at = "collect"]
  <2>1. /\ s5' \in E!States /\ s5'.at = "collect" /\ s5'.block = s5.block /\ s5'.out = s5.out
    BY <1>5 DEF E!States
  <2>2. (E!Last(s5.block)' => E!Last(s5.block)) /\ E!Newest' = E!Newest
    BY <1>1, <2>1 DEF E!Last, E!Newest
  <2>3. E!Collecting'
    BY <1>1, <2>1, <2>2 DEF E!Collecting
  <2>4. E!Opening' /\ E!Sending' /\ E!Closing'
    BY <2>1, ElsewhereSound
  <2> QED BY <1>1, <1>3, <1>4, <2>1, <2>3, <2>4, ApduSound
<1>6. CASE E!Spoil
  <2>1. s5' \in E!States /\ s5'.at = "close" /\ s5'.block # s6.blocks
    BY <1>6, RequestBlocks, SpoiltState
  <2>2. E!Closing'
    BY <1>1, <2>1 DEF E!Closing
  <2>3. E!Opening' /\ E!Sending' /\ E!Collecting'
    BY <2>1, ElsewhereSound
  <2> QED BY <1>1, <1>3, <1>4, <2>1, <2>2, <2>3, ApduSound
<1> QED BY <1>2, <1>5, <1>6

LEMMA RefusalKept ==
    ASSUME E!ApduAssumption, E!IInv, E!CardRefuses
    PROVE  E!IInv'
<1> USE ApduParts
<1>1. /\ s1' = s1 /\ s2' = s2 /\ s3' = s3 /\ s4' = s4 /\ s6' = s6 /\ s7' = s7
      /\ s8 < MaxApduFaults /\ s8' = s8 + 1 /\ s9' = TRUE /\ E!Spoil
  BY DEF E!CardRefuses
<1>0. s5.at \in {"send", "collect"}
  BY DEF E!CardRefuses
<1>2. s8' \in 0 .. MaxApduFaults
  BY <1>1 DEF E!ApduAssumption
<1>3. E!RunsWhole' /\ E!Requested'
  BY <1>0, <1>1 DEF E!RunsWhole, E!Requested
<1>4. s5' \in E!States /\ s5'.at = "close" /\ s5'.block # s6.blocks
  BY <1>1, RequestBlocks, SpoiltState
<1>5. E!Closing'
  BY <1>1, <1>4 DEF E!Closing
<1>6. E!Opening' /\ E!Sending' /\ E!Collecting'
  BY <1>4, ElsewhereSound
<1> QED BY <1>1, <1>2, <1>3, <1>4, <1>5, <1>6, ApduSound

LEMMA CloseKept ==
    ASSUME E!ApduAssumption, E!IInv, E!Close
    PROVE  E!IInv'
<1> USE ApduParts
<1>1. /\ s5.at = "close" /\ s2' = s2 /\ s3' = s3 /\ s4' = s4 /\ s6' = s6 /\ s7' = s7
      /\ s9' = s9 /\ E!End(IF s5.block = s6.blocks THEN "answered" ELSE "failed")
  BY DEF E!Close
<1>2. PICK f \in E!Fates :
        /\ s8' = s8 + (IF f = "good" THEN 0 ELSE 1)
        /\ s1' = IF E!Done(f) THEN s1 \ {s5.channel} ELSE s1
  BY DEF E!Close
<1>3. s8' \in 0 .. MaxApduFaults
  <2>1. CASE f = "good"
    BY <1>2, <2>1
  <2>2. CASE f # "good"
    <3>1. s8 < MaxApduFaults
      BY <2>2 DEF E!Fates
    <3> QED BY <1>2, <2>2, <3>1 DEF E!ApduAssumption
  <2> QED BY <2>1, <2>2
<1>4. s1' \subseteq Channels
  BY <1>2
<1>5. E!RunsWhole' /\ E!Requested'
  BY <1>1 DEF E!RunsWhole, E!Requested
<1>6. CASE s5.block = s6.blocks /\ E!End("answered")
  <2>1. s5' \in E!States /\ s5'.at = "answered" /\ s5'.out = s5.out
    BY <1>6, EndState
  <2>2. E!Newest' = E!Newest
    BY <1>1 DEF E!Newest
  <2>3. E!Closing'
    BY <1>1, <1>6, <2>1, <2>2 DEF E!Closing
  <2>4. E!Opening' /\ E!Sending' /\ E!Collecting'
    BY <2>1, ElsewhereSound
  <2> QED BY <1>1, <1>3, <1>4, <1>5, <2>1, <2>3, <2>4, ApduSound
<1>7. CASE E!End("failed")
  <2>1. s5' \in E!States /\ s5'.at = "failed"
    BY <1>7, EndState
  <2>2. E!Opening' /\ E!Sending' /\ E!Collecting' /\ E!Closing'
    BY <2>1, ElsewhereSound
  <2> QED BY <1>1, <1>3, <1>4, <1>5, <2>1, <2>2, ApduSound
<1>8. (E!End("answered") /\ s5.block = s6.blocks) \/ E!End("failed")
  BY <1>1
<1> QED BY <1>6, <1>7, <1>8

LEMMA ApduInit ==
    ASSUME E!ApduAssumption, E!Init
    PROVE  E!IInv
<1>1. /\ s1 \in {{}, {1}, KnownChannels} /\ s2 = << >> /\ s3 = << >> /\ s4 = << >>
      /\ s5 = E!Idle /\ s6 = E!NoRequest /\ s7 = 0 /\ s8 = 0 /\ s9 = FALSE
  BY DEF E!Init
<1>2. s5 \in E!States /\ s5.at = "idle"
  BY <1>1, IdleState DEF E!Idle
<1>3. s1 \subseteq Channels /\ s7 \in 0 .. MaxSessions /\ s8 \in 0 .. MaxApduFaults
  <2>1. s1 = {} \/ s1 = {1} \/ s1 = KnownChannels
    BY <1>1
  <2>2. {1} \subseteq Channels /\ KnownChannels \subseteq Channels
    BY DEF E!ApduAssumption
  <2>3. 0 \in 0 .. MaxSessions /\ 0 \in 0 .. MaxApduFaults
    BY DEF E!ApduAssumption
  <2> QED BY <1>1, <2>1, <2>2, <2>3
<1>4. << >> \in Seq(Nat) /\ << >> \in Seq(E!Executed) /\ Len(<< >>) = 0
  OBVIOUS
<1>5. E!TypeOK
  BY <1>1, <1>2, <1>3 DEF E!TypeOK, E!States
<1>6. E!RunsWhole
  BY <1>1, <1>4 DEF E!RunsWhole
<1>7. E!Requested /\ E!Opening /\ E!Sending /\ E!Collecting /\ E!Closing
  BY <1>2 DEF E!Requested, E!Opening, E!Sending, E!Collecting, E!Closing
<1> QED BY <1>1, <1>2, <1>4, <1>5, <1>6, <1>7 DEF E!IInv

LEMMA ApduStepsKept ==
    ASSUME E!ApduAssumption, E!IInv, E!Next
    PROVE  E!IInv'
  BY BeginKept, DeclareKept, OpenKept, SweepKept, StoreKept, CollectKept, GetResponseKept,
     RefusalKept, CloseKept DEF E!Next

LEMMA ApduTells ==
    ASSUME E!ApduAssumption, E!IInv
    PROVE  E!TypeOK /\ E!WholeRequest /\ E!ChannelFound
<1> USE ApduParts
<1>1. E!ChannelFound
  BY DEF E!ChannelFound, E!Opening
<1>2. s5.at = "answered" =>
        /\ s4 # << >> /\ s4[Len(s4)].got = E!Blocks(s6.blocks)
        /\ s5.out = [i \in 1 .. s4[Len(s4)].segments |-> i]
  <2>1. ASSUME s5.at = "answered"
        PROVE  /\ s4 # << >> /\ s4[Len(s4)].got = E!Blocks(s6.blocks)
               /\ s5.out = [i \in 1 .. s4[Len(s4)].segments |-> i]
    <3> DEFINE n == s4[Len(s4)].segments
    <3>1. s4 # << >> /\ s4[Len(s4)].got = E!Blocks(s6.blocks) /\ s5.out = E!Segments(0, n)
      BY <2>1 DEF E!Closing, E!Newest
    <3>2. s4 \in Seq(E!Executed)
      BY DEF E!RunsWhole
    <3>3. Len(s4) \in 1 .. Len(s4)
      BY <3>1, <3>2
    <3>4. s4[Len(s4)] \in E!Executed
      BY <3>2, <3>3
    <3>5. n \in Nat
      BY <3>4 DEF E!Executed
    <3> HIDE DEF n
    <3>6. E!Segments(0, n) = [i \in 1 .. n |-> i]
      BY <3>5 DEF E!Segments
    <3> QED BY <3>1, <3>6 DEF n
  <2> QED BY <2>1
<1>3. \A i \in 1 .. Len(s4) : s4[i].got = E!Blocks(s4[i].asked)
  BY DEF E!RunsWhole
<1>4. E!WholeRequest
  BY <1>2, <1>3 DEF E!WholeRequest
<1>5. E!TypeOK
  BY DEF E!IInv
<1> QED BY <1>1, <1>4, <1>5

LEMMA ApduKept ==
    ASSUME E!ApduAssumption, E!IInv, [E!Next]_(E!vars)
    PROVE  E!IInv'
  BY ApduStepsKept, UntouchedKept DEF E!vars

\* For any card, faults and sessions: the card carries out whole requests only, an
\* answer handed on is the card's whole answer to that request, and channels left
\* open keep no session out that no fault struck.
THEOREM ApduTrueHolds == AllSpec => []ApduTrue
<1> DEFINE Inv == which = "apdu" => E!IInv
<1>1. AllInit => Inv
  BY CardAssumption, ApduInit DEF AllInit
<1>2. Inv /\ [AllNext]_allvars => Inv'
  BY CardAssumption, ModemSteps, ApduKept
<1>3. Inv => ApduTrue
  BY CardAssumption, ApduTells DEF ApduTrue
<1> QED BY <1>1, <1>2, <1>3, PTL DEF AllSpec

-----------------------------------------------------------------------------
(* A session over the modem's sockets (ModemHttps)                         *)

\* An answer on its way to the session.
Lines == [kind : S!Kinds, val : S!Values]

\* The answers from the n-th on, and the one that comes now after them.
LEMMA FromSound ==
    ASSUME s2 \in Seq(Lines), NEW a \in Lines, NEW n \in 0 .. Len(s2)
    PROVE  /\ S!From(n, a) \in Seq(Lines) /\ Len(S!From(n, a)) = Len(s2) - n + 1
           /\ S!From(n, a)[Len(s2) - n + 1] = a
           /\ \A i \in 1 .. Len(s2) - n : S!From(n, a)[i] = s2[n + i]
<1> DEFINE sub == SubSeq(s2, n + 1, Len(s2))
<1>1. sub \in Seq(Lines) /\ Len(sub) = Len(s2) - n
      /\ (\A i \in 1 .. Len(sub) : sub[i] = s2[n + i])
  OBVIOUS
<1>2. S!From(n, a) = Append(sub, a)
  BY DEF S!From
<1> HIDE DEF sub
<1> QED BY <1>1, <1>2

\* Which of them is heard, and which are left.
LEMMA HeardSound ==
    ASSUME s2 \in Seq(Lines), NEW a \in Lines, NEW n \in 0 .. Len(s2)
    PROVE  /\ Head(S!From(n, a)) = (IF n = Len(s2) THEN a ELSE s2[n + 1])
           /\ Tail(S!From(n, a)) \in Seq(Lines) /\ Len(Tail(S!From(n, a))) = Len(s2) - n
           /\ \A i \in 1 .. Len(s2) - n :
                 Tail(S!From(n, a))[i] = a \/ (\E j \in 1 .. Len(s2) : Tail(S!From(n, a))[i] = s2[j])
<1> DEFINE line == S!From(n, a)
<1>1. /\ line \in Seq(Lines) /\ Len(line) = Len(s2) - n + 1
      /\ line[Len(s2) - n + 1] = a
      /\ \A i \in 1 .. Len(s2) - n : line[i] = s2[n + i]
  BY FromSound
<1> HIDE DEF line
<1>2. Len(s2) \in Nat /\ line # << >> /\ Len(line) \in Nat
  BY <1>1
<1>3. Head(line) = line[1]
  BY <1>1, <1>2, HeadTailProperties
<1>4. Head(line) = (IF n = Len(s2) THEN a ELSE s2[n + 1])
  BY <1>1, <1>2, <1>3
<1>5. /\ Tail(line) \in Seq(Lines) /\ Len(Tail(line)) = Len(line) - 1
      /\ \A i \in 1 .. Len(Tail(line)) : Tail(line)[i] = line[i + 1]
  BY <1>1, <1>2, HeadTailProperties
<1>6. ASSUME NEW i \in 1 .. Len(s2) - n, Tail(line)[i] # a
      PROVE  \E j \in 1 .. Len(s2) : Tail(line)[i] = s2[j]
  <2>1. Tail(line)[i] = line[i + 1] /\ i + 1 \in 1 .. Len(line) /\ i + 1 # Len(line)
    BY <1>1, <1>2, <1>5, <1>6
  <2>2. line[i + 1] = s2[n + i + 1] /\ n + i + 1 \in 1 .. Len(s2)
    <3>1. i \in 1 .. Len(s2) - n
      BY <1>6
    <3>4. i + 1 \in 1 .. Len(s2) - n
      <4>1. i \in Nat /\ i + 1 <= Len(line) /\ i + 1 # Len(line) /\ Len(line) = Len(s2) - n + 1
        BY <1>1, <2>1, <3>1
      <4> QED BY <1>2, <4>1
    <3>2. line[i + 1] = s2[n + (i + 1)] /\ i + 1 \in 1 .. Len(s2) - n
      BY <1>1, <3>4
    <3>3. n + (i + 1) = n + i + 1 /\ n + i + 1 \in 1 .. Len(s2)
      BY <1>2, <3>2
    <3> QED BY <3>2, <3>3
  <2> QED BY <2>1, <2>2
<1> QED BY <1>1, <1>2, <1>4, <1>5, <1>6 DEF line

\* What a command may hear, and what is still on its way then: nothing that was
\* not on its way, or is the answer to the command; and with nothing on its way,
\* its own answer or none.
LEMMA OutcomeSound ==
    ASSUME S!Typed, S!HttpsAssumption, NEW a \in Lines, NEW o \in S!Outcomes(a)
    PROVE  /\ o.flight \in Seq(Lines) /\ Len(o.flight) <= MaxFlight /\ o.mixed \in BOOLEAN
           /\ \A i \in 1 .. Len(o.flight) :
                 o.flight[i] = a \/ (\E j \in 1 .. Len(s2) : o.flight[i] = s2[j])
           /\ \/ o.heard = S!Silence \/ o.heard = a
              \/ \E j \in 1 .. Len(s2) : o.heard = s2[j]
           /\ o.heard # S!Silence /\ ~o.mixed => o.heard = a
           /\ s2 = <<>> /\ o.heard # S!Silence => o.heard = a /\ o.flight = <<>>
           /\ s2 = <<>> => ~o.mixed
<1>1. s2 \in Seq(Lines) /\ Len(s2) <= MaxFlight /\ Len(s2) \in Nat
  BY DEF S!Typed, S!TypeOK, Lines
<1>2. CASE \E n \in 0 .. Len(s2) :
              o = [heard |-> Head(S!From(n, a)), flight |-> Tail(S!From(n, a)), mixed |-> n < Len(s2)]
  <2>1. PICK n \in 0 .. Len(s2) :
              o = [heard |-> Head(S!From(n, a)), flight |-> Tail(S!From(n, a)), mixed |-> n < Len(s2)]
    BY <1>2
  <2>2. o.heard = Head(S!From(n, a)) /\ o.flight = Tail(S!From(n, a)) /\ o.mixed = (n < Len(s2))
    BY <2>1
  <2>3. /\ o.heard = (IF n = Len(s2) THEN a ELSE s2[n + 1])
        /\ o.flight \in Seq(Lines) /\ Len(o.flight) = Len(s2) - n
        /\ \A i \in 1 .. Len(s2) - n :
              o.flight[i] = a \/ (\E j \in 1 .. Len(s2) : o.flight[i] = s2[j])
    BY <1>1, <2>2, HeardSound
  <2>4. o.heard = a \/ (\E j \in 1 .. Len(s2) : o.heard = s2[j])
    BY <1>1, <2>3
  <2>5. Len(o.flight) <= MaxFlight
    BY <1>1, <2>3 DEF S!HttpsAssumption
  <2>6. s2 = <<>> => n = Len(s2) /\ o.flight = <<>>
    BY <1>1, <2>3
  <2>7. o.mixed \in BOOLEAN /\ (~o.mixed => n = Len(s2)) /\ (n = Len(s2) => ~o.mixed)
    <3>1. CASE n = Len(s2)
      <4>1. (n < Len(s2)) = FALSE
        BY <1>1, <3>1
      <4> QED BY <2>2, <3>1, <4>1
    <3>2. CASE n # Len(s2)
      <4>1. (n < Len(s2)) = TRUE
        BY <1>1, <3>2
      <4> QED BY <2>2, <3>2, <4>1
    <3> QED BY <3>1, <3>2
  <2> QED BY <2>3, <2>4, <2>5, <2>6, <2>7
<1>3. CASE \E n \in 0 .. Len(s2) : /\ Len(s2) - n < MaxFlight
              /\ o = [heard |-> S!Silence, flight |-> S!From(n, a), mixed |-> FALSE]
  <2>1. PICK n \in 0 .. Len(s2) : /\ Len(s2) - n < MaxFlight
              /\ o = [heard |-> S!Silence, flight |-> S!From(n, a), mixed |-> FALSE]
    BY <1>3
  <2>2. o.heard = S!Silence /\ o.flight = S!From(n, a) /\ o.mixed = FALSE
    BY <2>1
  <2>3. /\ o.flight \in Seq(Lines) /\ Len(o.flight) = Len(s2) - n + 1
        /\ o.flight[Len(s2) - n + 1] = a
        /\ \A i \in 1 .. Len(s2) - n : o.flight[i] = s2[n + i]
    BY <1>1, <2>2, FromSound
  <2>4. ASSUME NEW i \in 1 .. Len(o.flight), o.flight[i] # a
        PROVE  \E j \in 1 .. Len(s2) : o.flight[i] = s2[j]
    <3>1. i # Len(s2) - n + 1 /\ n + i \in 1 .. Len(s2) /\ i \in 1 .. Len(s2) - n
      BY SMTT(60), <1>1, <2>3, <2>4
    <3> QED BY <2>3, <3>1
  <2>5. Len(o.flight) <= MaxFlight
    BY <1>1, <2>1, <2>3 DEF S!HttpsAssumption
  <2> QED BY <2>2, <2>3, <2>4, <2>5
<1>4. CASE o = [heard |-> S!Silence, flight |-> <<>>, mixed |-> FALSE]
  <2>1. o.heard = S!Silence /\ o.flight = <<>> /\ o.mixed = FALSE
    BY <1>4
  <2>2. << >> \in Seq(Lines) /\ Len(<< >>) = 0 /\ 0 <= MaxFlight
    BY DEF S!HttpsAssumption
  <2>3. o.flight \in Seq(Lines) /\ Len(o.flight) = 0 /\ Len(o.flight) <= MaxFlight
    BY <2>1, <2>2
  <2>4. \A i \in 1 .. Len(o.flight) : FALSE
    BY <2>3
  <2> QED BY <2>1, <2>3, <2>4
<1> QED BY <1>2, <1>3, <1>4 DEF S!Outcomes

\* cleanup: the first step that is needed from the n-th on, and those before it
\* are not.
LEMMA UndoReaches ==
    ASSUME NEW t \in S!Sessions, NEW n \in 1 .. 7, NEW u, u = S!UndoFrom(t, n)
    PROVE  /\ u.undoing /\ u.step \in S!Steps /\ u.check = FALSE
           /\ u = [t EXCEPT !.undoing = TRUE, !.check = FALSE, !.step = u.step]
           /\ \/ u.step = "end" /\ \A i \in n .. 6 : ~S!Needed(t, S!UndoOrder[i])
              \/ \E k \in n .. 6 : /\ u.step = S!UndoOrder[k] /\ S!Needed(t, S!UndoOrder[k])
                                   /\ \A i \in n .. (k - 1) : ~S!Needed(t, S!UndoOrder[i])
<1> DEFINE left == {i \in n .. 6 : S!Needed(t, S!UndoOrder[i])}
           step == IF left = {} THEN "end"
                   ELSE S!UndoOrder[CHOOSE i \in left : \A j \in left : i <= j]
<1>1. Len(S!UndoOrder) = 6 /\ (\A i \in 1 .. 6 : S!UndoOrder[i] \in S!Steps \ {"end"})
  BY DEF S!UndoOrder, S!Steps, S!Settings
<1>2. u = [t EXCEPT !.undoing = TRUE, !.check = FALSE, !.step = step]
  BY <1>1 DEF S!UndoFrom
<1>3. left # {} => \E i \in left : \A j \in left : i <= j
  <2> SUFFICES ASSUME NEW k \in left
               PROVE  \E i \in left : \A j \in left : i <= j
    OBVIOUS
  <2>1. left \subseteq 1 .. 6
    OBVIOUS
  <2> HIDE DEF left
  <2>2. CASE 1 \in left
    BY <2>1, <2>2
  <2>3. CASE 1 \notin left /\ 2 \in left
    BY <2>1, <2>3
  <2>4. CASE 1 \notin left /\ 2 \notin left /\ 3 \in left
    BY <2>1, <2>4
  <2>5. CASE 1 \notin left /\ 2 \notin left /\ 3 \notin left /\ 4 \in left
    BY <2>1, <2>5
  <2>6. CASE 1 \notin left /\ 2 \notin left /\ 3 \notin left /\ 4 \notin left /\ 5 \in left
    BY <2>1, <2>6
  <2>7. CASE 1 \notin left /\ 2 \notin left /\ 3 \notin left /\ 4 \notin left /\ 5 \notin left
    BY <2>1, <2>7
  <2> QED BY <2>2, <2>3, <2>4, <2>5, <2>6, <2>7
<1>4. \/ step = "end" /\ \A i \in n .. 6 : ~S!Needed(t, S!UndoOrder[i])
      \/ \E k \in n .. 6 : /\ step = S!UndoOrder[k] /\ S!Needed(t, S!UndoOrder[k])
                           /\ \A i \in n .. (k - 1) : ~S!Needed(t, S!UndoOrder[i])
  <2>1. CASE left = {}
    BY <2>1
  <2>2. CASE left # {}
    <3>1. PICK k \in left : k = (CHOOSE i \in left : \A j \in left : i <= j) /\ \A j \in left : k <= j
      BY <1>3, <2>2
    <3>2. step = S!UndoOrder[k]
      BY <2>2, <3>1
    <3>3. k \in n .. 6 /\ S!Needed(t, S!UndoOrder[k])
      OBVIOUS
    <3>4. \A i \in n .. (k - 1) : ~S!Needed(t, S!UndoOrder[i])
      BY <3>1, <3>3
    <3> HIDE DEF step
    <3> QED BY <3>2, <3>3, <3>4
  <2> QED BY <2>1, <2>2
<1> HIDE DEF step, left
<1>5. step \in S!Steps
  <2>1. CASE step = "end"
    BY <2>1 DEF S!Steps
  <2>2. CASE step # "end"
    <3>1. PICK k \in n .. 6 : step = S!UndoOrder[k]
      BY <1>4, <2>2
    <3>2. k \in 1 .. 6
      OBVIOUS
    <3> QED BY <1>1, <3>1, <3>2
  <2> QED BY <2>1, <2>2
<1>6. u.undoing /\ u.step = step /\ u.check = FALSE
  BY <1>2 DEF S!Sessions
<1> QED BY <1>2, <1>4, <1>5, <1>6

\* The order of cleanup.
LEMMA OrderIs ==
    /\ Len(S!UndoOrder) = 6
    /\ S!UndoOrder[1] = "close" /\ S!UndoOrder[2] = "ssl" /\ S!UndoOrder[3] = "autofree"
    /\ S!UndoOrder[4] = "encoding" /\ S!UndoOrder[5] = "deactivate" /\ S!UndoOrder[6] = "restore"
  BY DEF S!UndoOrder

\* Every step of it has its place.
LEMMA PlaceIs ==
    /\ \A k \in 1 .. 6 : (CHOOSE i \in 1 .. 6 : S!UndoOrder[i] = S!UndoOrder[k]) = k
    /\ \A k \in 1 .. 6 : S!Place(S!UndoOrder[k]) = k
    /\ S!Place("end") = 7 /\ S!Place("confirm") = 1
<1>1. \A i, k \in 1 .. 6 : S!UndoOrder[i] = S!UndoOrder[k] => i = k
  BY OrderIs
<1>2. \A k \in 1 .. 6 : S!UndoOrder[k] # "end" /\ S!UndoOrder[k] # "confirm"
  BY OrderIs
<1>3. \A k \in 1 .. 6 : (CHOOSE i \in 1 .. 6 : S!UndoOrder[i] = S!UndoOrder[k]) = k
  BY <1>1
<1>4. Len(S!UndoOrder) = 6
  BY OrderIs
<1> QED BY <1>2, <1>3, <1>4 DEF S!Place

\* The step after the k-th.
LEMMA NextIs ==
    ASSUME NEW t, NEW k \in 1 .. 6, t.step = S!UndoOrder[k]
    PROVE  S!UndoNext(t) = S!UndoFrom(t, k + 1)
<1>1. Len(S!UndoOrder) = 6
  BY OrderIs
<1>2. (CHOOSE i \in 1 .. Len(S!UndoOrder) : S!UndoOrder[i] = t.step) = k
  BY <1>1, PlaceIs
<1>3. 1 + k = k + 1
  OBVIOUS
<1> QED BY <1>2, <1>3 DEF S!UndoNext

\* A step that the session gave no reason for finds undone what it would undo.
LEMMA NotNeeded ==
    ASSUME NEW t, NEW k \in 1 .. 6, ~S!Needed(t, S!UndoOrder[k]), S!Marked', UNCHANGED <<s3, s4>>,
           s6'.opened = t.opened, s6'.touched = t.touched, s6'.activated = t.activated,
           s6'.changed = t.changed
    PROVE  S!Undone(S!UndoOrder[k])'
<1>1. CASE k = 1
  BY <1>1, OrderIs DEF S!Needed, S!Undone, S!Marked, S!Settings
<1>2. CASE k \in {2, 3, 4}
  <2>1. S!UndoOrder[k] \in S!Settings /\ S!UndoOrder[k] \notin {"close", "deactivate", "restore"}
    BY <1>2, OrderIs DEF S!Settings
  <2> QED BY <2>1 DEF S!Needed, S!Undone, S!Marked
<1>3. CASE k = 5
  BY <1>3, OrderIs DEF S!Needed, S!Undone, S!Marked, S!Settings
<1>4. CASE k = 6
  BY <1>4, OrderIs DEF S!Needed, S!Undone, S!Marked, S!Settings
<1> QED BY <1>1, <1>2, <1>3, <1>4

\* cleanup goes on to the first step needed from the n-th on: all before it is
\* undone.
LEMMA Undoes ==
    ASSUME S!Typed, NEW t \in S!Sessions, NEW n \in 1 .. 7, s6' = S!UndoFrom(t, n),
           s1' \in S!Modems, s2' \in Seq(Lines), Len(s2') <= MaxFlight, s5' \in BOOLEAN,
           UNCHANGED <<s3, s4>>, S!Marked', S!LateTrue',
           \A i \in 1 .. n - 1 : S!Undone(S!UndoOrder[i])'
    PROVE  S!IInv'
<1> DEFINE u == S!UndoFrom(t, n)
<1>1. /\ u.undoing /\ u.step \in S!Steps /\ u.check = FALSE
      /\ u = [t EXCEPT !.undoing = TRUE, !.check = FALSE, !.step = u.step]
      /\ \/ u.step = "end" /\ \A i \in n .. 6 : ~S!Needed(t, S!UndoOrder[i])
         \/ \E k \in n .. 6 : /\ u.step = S!UndoOrder[k] /\ S!Needed(t, S!UndoOrder[k])
                              /\ \A i \in n .. (k - 1) : ~S!Needed(t, S!UndoOrder[i])
  BY UndoReaches
<1> HIDE DEF u
<1>2. s6' = u
  BY DEF u
<1>3. u \in S!Sessions
  <2>1. PICK step \in S!Steps : u = [t EXCEPT !.undoing = TRUE, !.check = FALSE, !.step = step]
    BY <1>1
  <2> QED BY <2>1 DEF S!Sessions
<1>4. /\ u.opened = t.opened /\ u.touched = t.touched /\ u.activated = t.activated
      /\ u.changed = t.changed
  BY <1>1 DEF S!Sessions
<1>5. S!Typed'
  BY <1>2, <1>3 DEF S!Typed, S!TypeOK, Lines
<1>6. S!Forward'
  BY <1>1, <1>2 DEF S!Forward
<1>7. S!Backward'
  <2>1. \A i \in 1 .. 6 : ~S!Needed(t, S!UndoOrder[i]) => S!Undone(S!UndoOrder[i])'
    BY <1>2, <1>4, NotNeeded
  <2>2. CASE u.step = "end" /\ \A i \in n .. 6 : ~S!Needed(t, S!UndoOrder[i])
    <3>1. \A i \in 1 .. 7 - 1 : S!Undone(S!UndoOrder[i])'
      <4> SUFFICES ASSUME NEW i \in 1 .. 6
                   PROVE  S!Undone(S!UndoOrder[i])'
        OBVIOUS
      <4>1. CASE i < n
        BY <4>1
      <4>2. CASE i >= n
        BY <4>2, <2>1, <2>2
      <4> QED BY <4>1, <4>2
    <3>2. s6'.step = "end" /\ S!Place(s6'.step) = 7
      BY <1>2, <2>2, PlaceIs
    <3> QED BY <3>1, <3>2 DEF S!Backward
  <2>3. ASSUME NEW k \in n .. 6, u.step = S!UndoOrder[k], S!Needed(t, S!UndoOrder[k]),
               \A i \in n .. (k - 1) : ~S!Needed(t, S!UndoOrder[i])
        PROVE  S!Backward'
    <3>1. \A i \in 1 .. k - 1 : S!Undone(S!UndoOrder[i])'
      <4> SUFFICES ASSUME NEW i \in 1 .. k - 1
                   PROVE  S!Undone(S!UndoOrder[i])'
        OBVIOUS
      <4>1. CASE i < n
        BY <4>1
      <4>2. CASE i >= n
        BY <4>2, <2>1, <2>3
      <4> QED BY <4>1, <4>2
    <3>2. k \in 1 .. 6 /\ S!Place(s6'.step) = k /\ s6'.step = S!UndoOrder[k]
      BY <1>2, <2>3, PlaceIs
    <3>3. /\ s6'.step \in {"close", "confirm", "deactivate", "restore", "end"} \cup S!Settings
          /\ s6'.step # "confirm"
      BY <3>2, OrderIs DEF S!Settings
    <3>4. /\ s6'.step = "close" => s6'.opened
          /\ s6'.step = "deactivate" => s6'.activated
          /\ s6'.step = "restore" => s6'.changed
      BY <1>2, <1>4, <2>3, <3>2 DEF S!Needed, S!Settings
    <3> QED BY <3>1, <3>2, <3>3, <3>4 DEF S!Backward
  <2> QED BY <1>1, <2>2, <2>3
<1> QED BY <1>5, <1>6, <1>7 DEF S!IInv

\* With nothing on its way, a command hears its own answer or none.
LEMMA ForwardHeard ==
    ASSUME S!HttpsAssumption, S!Typed, s2 = <<>>, ~s5, NEW a \in Lines,
           NEW o \in S!Outcomes(a), s2' = o.flight, s5' = (s5 \/ o.mixed)
    PROVE  /\ s2' \in Seq(Lines) /\ Len(s2') <= MaxFlight /\ s5' \in BOOLEAN /\ ~s5'
           /\ \A i \in DOMAIN s2' : s2'[i] = a
           /\ o.heard = S!Silence \/ (o.heard = a /\ s2' = <<>>)
<1>1. /\ o.flight \in Seq(Lines) /\ Len(o.flight) <= MaxFlight /\ o.mixed \in BOOLEAN
      /\ \A i \in 1 .. Len(o.flight) :
            o.flight[i] = a \/ (\E j \in 1 .. Len(s2) : o.flight[i] = s2[j])
      /\ s2 = <<>> /\ o.heard # S!Silence => o.heard = a /\ o.flight = <<>>
      /\ s2 = <<>> => ~o.mixed
  BY OutcomeSound
<1>2. DOMAIN o.flight = 1 .. Len(o.flight)
  BY <1>1
<1>3. Len(s2) = 0
  OBVIOUS
<1>4. \A i \in DOMAIN s2' : s2'[i] = a
  BY <1>1, <1>2, <1>3
<1>5. ~o.mixed /\ s5' = FALSE
  BY <1>1 DEF S!Typed, S!TypeOK
<1> QED BY <1>1, <1>4, <1>5

\* What is on its way then is true, if the one answer is.
LEMMA LateOne ==
    ASSUME NEW a, \A i \in DOMAIN s2' : s2'[i] = a,
           a.kind \in S!Settings /\ a.val = "own" => a.kind \in s1'.own,
           a.kind = "profile" /\ a.val = "own" => s1'.apn = "own",
           a.kind = "close" => ~s6'.opened
    PROVE  S!LateTrue'
  BY DEF S!LateTrue

\* What is on its way stays true while cleanup undoes.
LEMMA LateStays ==
    ASSUME S!LateTrue, NEW a,
           \A i \in DOMAIN s2' : s2'[i] = a \/ (\E j \in DOMAIN s2 : s2'[i] = s2[j]),
           s1.own \subseteq s1'.own, s1.apn = "own" => s1'.apn = "own",
           s6'.opened = s6.opened, s6'.step # "close",
           s1.socket = "initial" => s1'.socket = "initial", s6.reset => s6'.reset,
           a.kind \in S!Settings /\ a.val = "own" => a.kind \in s1'.own,
           a.kind = "profile" /\ a.val = "own" => s1'.apn = "own",
           a.kind = "close" => s1'.socket = "initial"
    PROVE  S!LateTrue'
<1> SUFFICES ASSUME NEW i \in DOMAIN s2'
             PROVE  LET b == s2'[i] IN
                    /\ b.kind \in S!Settings /\ b.val = "own" => b.kind \in s1'.own
                    /\ b.kind = "profile" /\ b.val = "own" => s1'.apn = "own"
                    /\ b.kind = "close" => ~s6'.opened \/ (s6'.step # "close" /\ (s1'.socket = "initial" \/ s6'.reset))
  BY DEF S!LateTrue
<1>1. CASE s2'[i] = a
  BY <1>1
<1>2. ASSUME NEW j \in DOMAIN s2, s2'[i] = s2[j]
      PROVE  LET b == s2'[i] IN
             /\ b.kind \in S!Settings /\ b.val = "own" => b.kind \in s1'.own
             /\ b.kind = "profile" /\ b.val = "own" => s1'.apn = "own"
             /\ b.kind = "close" => ~s6'.opened \/ (s6'.step # "close" /\ (s1'.socket = "initial" \/ s6'.reset))
  BY <1>2 DEF S!LateTrue
<1> QED BY <1>1, <1>2

\* What is undone stays undone.
LEMMA UndoneStays ==
    ASSUME NEW k \in 1 .. 6, S!Undone(S!UndoOrder[k]), UNCHANGED <<s3, s4>>, s5 => s5',
           s6'.opened = s6.opened, s6.reset => s6'.reset, s6'.clean => s6.clean,
           s1.own \subseteq s1'.own, s1.apn = "own" => s1'.apn = "own",
           s1.socket = "initial" => s1'.socket = "initial", s1'.active => s1.active
    PROVE  S!Undone(S!UndoOrder[k])'
<1>1. CASE k = 1
  BY <1>1, OrderIs DEF S!Undone, S!Settings
<1>2. CASE k \in {2, 3, 4}
  <2>1. S!UndoOrder[k] \in S!Settings /\ S!UndoOrder[k] \notin {"close", "deactivate", "restore"}
    BY <1>2, OrderIs DEF S!Settings
  <2> QED BY <2>1 DEF S!Undone
<1>3. CASE k = 5
  BY <1>3, OrderIs DEF S!Undone, S!Settings
<1>4. CASE k = 6
  BY <1>4, OrderIs DEF S!Undone, S!Settings
<1> QED BY <1>1, <1>2, <1>3, <1>4

\* cleanup begins with what the session has marked.
LEMMA UndoKeeps ==
    ASSUME s6 \in S!Sessions, s6' = S!Undo
    PROVE  /\ s6'.opened = s6.opened /\ s6'.touched = s6.touched
           /\ s6'.activated = s6.activated /\ s6'.changed = s6.changed
           /\ s6'.clean = s6.clean /\ s6'.reset = s6.reset
<1>1. s6' = S!UndoFrom(s6, 1)
  BY DEF S!Undo
<1> DEFINE u == S!UndoFrom(s6, 1)
<1>2. u = [s6 EXCEPT !.undoing = TRUE, !.check = FALSE, !.step = u.step]
  <2>1. 1 \in 1 .. 7
    OBVIOUS
  <2> QED BY ZenonT(60), <2>1, UndoReaches
<1> HIDE DEF u
<1>3. s6' = u
  BY <1>1 DEF u
<1> QED BY <1>2, <1>3 DEF S!Sessions

LEMMA LateNone == ASSUME s2' = <<>> PROVE S!LateTrue'
<1>1. \A i \in DOMAIN s2' : FALSE
  OBVIOUS
<1> QED BY <1>1 DEF S!LateTrue

\* A session that fails on its way forward, or has ended its exchange, turns to
\* cleanup.
LEMMA Begins ==
    ASSUME S!Typed, s6' = S!Undo,
           s1' \in S!Modems, s2' \in Seq(Lines), Len(s2') <= MaxFlight, s5' \in BOOLEAN,
           UNCHANGED <<s3, s4>>, S!Marked', S!LateTrue'
    PROVE  S!IInv'
<1>1. s6' = S!UndoFrom(s6, 1) /\ s6 \in S!Sessions
  BY DEF S!Undo, S!Typed, S!TypeOK
<1>2. \A i \in 1 .. 1 - 1 : S!Undone(S!UndoOrder[i])'
  OBVIOUS
<1> QED BY <1>1, <1>2, Undoes

\* ensure_initial_state: the state of the socket.
LEMMA HttpsAskState ==
    ASSUME S!HttpsAssumption, S!IInv, S!AskState
    PROVE  S!IInv'
<1>1. /\ ~s6.undoing /\ s2 = <<>> /\ ~s5 /\ s6.step \notin {"close", "confirm", "deactivate", "restore", "end"}
      /\ S!Typed /\ s1 \in S!Modems /\ s6 \in S!Sessions /\ S!Marked
  BY DEF S!IInv, S!Typed, S!TypeOK, S!Forward, S!Backward, S!Settings, S!AskState
<1>2. PICK done \in BOOLEAN :
        \E o \in S!Outcomes([kind |-> IF done THEN "state" ELSE "error", val |-> s1.socket]) :
          /\ s1' = s1
          /\ s2' = o.flight /\ s5' = (s5 \/ o.mixed) /\ UNCHANGED <<s3, s4>>
          /\ s6' = (IF o.heard.kind = "state"
                    THEN IF o.heard.val = "initial" THEN [s6 EXCEPT !.step = "snapshot"]
                      ELSE IF o.heard.val \in {"connected", "closed"} THEN [s6 EXCEPT !.step = "stale"] ELSE S!Undo
                    ELSE S!Undo)
  BY DEF S!AskState, S!Command, S!Socket
<1> DEFINE a == [kind |-> IF done THEN "state" ELSE "error", val |-> s1.socket]
<1>3. PICK o \in S!Outcomes(a) :
          /\ s1' = s1
          /\ s2' = o.flight /\ s5' = (s5 \/ o.mixed) /\ UNCHANGED <<s3, s4>>
          /\ s6' = (IF o.heard.kind = "state"
                    THEN IF o.heard.val = "initial" THEN [s6 EXCEPT !.step = "snapshot"]
                      ELSE IF o.heard.val \in {"connected", "closed"} THEN [s6 EXCEPT !.step = "stale"] ELSE S!Undo
                    ELSE S!Undo)
  BY <1>2
<1>4. /\ a \in Lines /\ a.val = s1.socket
      /\ IF done THEN a.kind = "state" ELSE a.kind = "error"
      /\ "state" # "error" /\ S!Silence.kind # "state"
  BY <1>1 DEF Lines, S!Kinds, S!Values, S!Settings, S!Silence, S!Modems, S!Sockets
<1> HIDE DEF a
<1>5. /\ s2' \in Seq(Lines) /\ Len(s2') <= MaxFlight /\ s5' \in BOOLEAN /\ ~s5'
      /\ \A i \in DOMAIN s2' : s2'[i] = a
      /\ o.heard = S!Silence \/ (o.heard = a /\ s2' = <<>>)
  BY <1>1, <1>3, <1>4, ForwardHeard
<1>6. o.heard.kind = "state" => done /\ o.heard.val = a.val /\ s2' = <<>>
  BY <1>4, <1>5
<1>7. s1' \in S!Modems
  BY <1>1, <1>3 DEF S!Modems, S!Sockets
<1>8. CASE s6' = S!Undo
  <2>1. /\ s6'.opened = s6.opened /\ s6'.touched = s6.touched
        /\ s6'.activated = s6.activated /\ s6'.changed = s6.changed
    BY <1>1, <1>8, UndoKeeps
  <2>2. S!Marked'
    BY <1>1, <1>3, <2>1 DEF S!Marked, S!Modems, S!Settings, S!IInv, S!Forward,
           S!AskState
  <2>3. S!LateTrue'
    BY <1>3, <1>4, <1>5, <2>1, LateOne DEF S!Settings, S!IInv, S!Forward, S!AskState
  <2> QED BY <1>1, <1>3, <1>5, <1>7, <1>8, <2>2, <2>3, Begins
<1>9. CASE s6' # S!Undo
  <2>1. /\ done /\ s2' = <<>> /\ s1' = s1 /\ a.val = s1.socket
        /\ LET v == a.val IN s6' = (IF v = "initial" THEN [s6 EXCEPT !.step = "snapshot"]
                      ELSE IF v \in {"connected", "closed"} THEN [s6 EXCEPT !.step = "stale"] ELSE S!Undo)
    BY <1>3, <1>4, <1>6, <1>9
  <2>2. s6' \in S!Sessions
    BY <1>1, <1>9, <2>1 DEF S!Sessions, S!Steps, S!Settings, S!HttpsAssumption, S!Set,
           S!FirstSetting, S!AfterSetting, S!NextSetting, S!AskState
  <2>3. S!Typed'
    BY <1>1, <1>3, <1>5, <1>7, <2>2 DEF S!Typed, S!TypeOK, Lines
  <2>4. S!Forward'
    BY <1>1, <1>5, <1>9, <2>1 DEF S!IInv, S!Forward, S!Sessions, S!Settings, S!Set,
           S!FirstSetting, S!AfterSetting, S!NextSetting, S!AskState
  <2>5. S!Marked'
    BY <1>1, <1>3, <1>9, <2>1 DEF S!IInv, S!Forward, S!Marked, S!Modems, S!Sessions,
           S!Settings, S!Set, S!FirstSetting, S!AfterSetting, S!NextSetting,
           S!AskState
  <2>6. ~s6'.undoing
    BY <1>1, <1>9, <2>1 DEF S!Sessions, S!Set, S!AfterSetting, S!NextSetting
  <2>7. S!Backward'
    BY <2>6 DEF S!Backward
  <2>8. S!LateTrue'
    BY <2>1, LateNone
  <2> QED BY <2>3, <2>4, <2>5, <2>7, <2>8 DEF S!IInv
<1> QED BY <1>8, <1>9

\* ensure_initial_state: a socket left over is closed; the session has none open
\* yet.
LEMMA HttpsCloseStale ==
    ASSUME S!HttpsAssumption, S!IInv, S!CloseStale
    PROVE  S!IInv'
<1>1. /\ ~s6.undoing /\ s2 = <<>> /\ ~s5 /\ s6.step \notin {"close", "confirm", "deactivate", "restore", "end"}
      /\ S!Typed /\ s1 \in S!Modems /\ s6 \in S!Sessions /\ S!Marked
  BY DEF S!IInv, S!Typed, S!TypeOK, S!Forward, S!Backward, S!Settings, S!CloseStale
<1>2. PICK done \in BOOLEAN :
        \E o \in S!Outcomes([kind |-> IF done THEN "close" ELSE "error", val |-> ""]) :
          /\ s1' = (IF done THEN [s1 EXCEPT !.socket = "initial"] ELSE s1)
          /\ s2' = o.flight /\ s5' = (s5 \/ o.mixed) /\ UNCHANGED <<s3, s4>>
          /\ s6' = (IF o.heard.kind = "close"
                    THEN [s6 EXCEPT !.step = "recheck"]
                    ELSE S!Undo)
  BY DEF S!CloseStale, S!Command, S!Same
<1> DEFINE a == [kind |-> IF done THEN "close" ELSE "error", val |-> ""]
<1>3. PICK o \in S!Outcomes(a) :
          /\ s1' = (IF done THEN [s1 EXCEPT !.socket = "initial"] ELSE s1)
          /\ s2' = o.flight /\ s5' = (s5 \/ o.mixed) /\ UNCHANGED <<s3, s4>>
          /\ s6' = (IF o.heard.kind = "close"
                    THEN [s6 EXCEPT !.step = "recheck"]
                    ELSE S!Undo)
  BY <1>2
<1>4. /\ a \in Lines /\ a.val = ""
      /\ IF done THEN a.kind = "close" ELSE a.kind = "error"
      /\ "close" # "error" /\ S!Silence.kind # "close"
  BY <1>1 DEF Lines, S!Kinds, S!Values, S!Settings, S!Silence, S!Modems, S!Sockets
<1> HIDE DEF a
<1>5. /\ s2' \in Seq(Lines) /\ Len(s2') <= MaxFlight /\ s5' \in BOOLEAN /\ ~s5'
      /\ \A i \in DOMAIN s2' : s2'[i] = a
      /\ o.heard = S!Silence \/ (o.heard = a /\ s2' = <<>>)
  BY <1>1, <1>3, <1>4, ForwardHeard
<1>6. o.heard.kind = "close" => done /\ o.heard.val = a.val /\ s2' = <<>>
  BY <1>4, <1>5
<1>7. s1' \in S!Modems
  BY <1>1, <1>3 DEF S!Modems, S!Sockets
<1>8. CASE s6' = S!Undo
  <2>1. /\ s6'.opened = s6.opened /\ s6'.touched = s6.touched
        /\ s6'.activated = s6.activated /\ s6'.changed = s6.changed
    BY <1>1, <1>8, UndoKeeps
  <2>2. S!Marked'
    BY <1>1, <1>3, <2>1 DEF S!Marked, S!Modems, S!Settings, S!IInv, S!Forward,
           S!CloseStale
  <2>4. ~s6.opened
    BY <1>1 DEF S!IInv, S!Forward, S!CloseStale
  <2>3. S!LateTrue'
    BY <1>4, <1>5, <2>1, <2>4, LateOne DEF S!Settings
  <2> QED BY <1>1, <1>3, <1>5, <1>7, <1>8, <2>2, <2>3, Begins
<1>9. CASE s6' # S!Undo
  <2>1. /\ done /\ s2' = <<>> /\ s1' = [s1 EXCEPT !.socket = "initial"] /\ a.val = ""
        /\ LET v == a.val IN s6' = ([s6 EXCEPT !.step = "recheck"])
    BY <1>3, <1>4, <1>6, <1>9
  <2>2. s6' \in S!Sessions
    BY <1>1, <1>9, <2>1 DEF S!Sessions, S!Steps, S!Settings, S!HttpsAssumption, S!Set,
           S!FirstSetting, S!AfterSetting, S!NextSetting, S!CloseStale
  <2>3. S!Typed'
    BY <1>1, <1>3, <1>5, <1>7, <2>2 DEF S!Typed, S!TypeOK, Lines
  <2>4. S!Forward'
    BY <1>1, <1>5, <1>9, <2>1 DEF S!IInv, S!Forward, S!Sessions, S!Settings, S!Set,
           S!FirstSetting, S!AfterSetting, S!NextSetting, S!CloseStale
  <2>5. S!Marked'
    BY <1>1, <1>3, <1>9, <2>1 DEF S!IInv, S!Forward, S!Marked, S!Modems, S!Sessions,
           S!Settings, S!Set, S!FirstSetting, S!AfterSetting, S!NextSetting,
           S!CloseStale
  <2>6. ~s6'.undoing
    BY <1>1, <1>9, <2>1 DEF S!Sessions, S!Set, S!AfterSetting, S!NextSetting
  <2>7. S!Backward'
    BY <2>6 DEF S!Backward
  <2>8. S!LateTrue'
    BY <2>1, LateNone
  <2> QED BY <2>3, <2>4, <2>5, <2>7, <2>8 DEF S!IInv
<1> QED BY <1>8, <1>9

\* query_state: the state after the close.
LEMMA HttpsRecheck ==
    ASSUME S!HttpsAssumption, S!IInv, S!Recheck
    PROVE  S!IInv'
<1>1. /\ ~s6.undoing /\ s2 = <<>> /\ ~s5 /\ s6.step \notin {"close", "confirm", "deactivate", "restore", "end"}
      /\ S!Typed /\ s1 \in S!Modems /\ s6 \in S!Sessions /\ S!Marked
  BY DEF S!IInv, S!Typed, S!TypeOK, S!Forward, S!Backward, S!Settings, S!Recheck
<1>2. PICK done \in BOOLEAN :
        \E o \in S!Outcomes([kind |-> IF done THEN "state" ELSE "error", val |-> s1.socket]) :
          /\ s1' = s1
          /\ s2' = o.flight /\ s5' = (s5 \/ o.mixed) /\ UNCHANGED <<s3, s4>>
          /\ s6' = (IF o.heard.kind = "state"
                    THEN IF o.heard.val = "initial" THEN [s6 EXCEPT !.step = "snapshot"] ELSE S!Undo
                    ELSE S!Undo)
  BY DEF S!Recheck, S!Command, S!Socket
<1> DEFINE a == [kind |-> IF done THEN "state" ELSE "error", val |-> s1.socket]
<1>3. PICK o \in S!Outcomes(a) :
          /\ s1' = s1
          /\ s2' = o.flight /\ s5' = (s5 \/ o.mixed) /\ UNCHANGED <<s3, s4>>
          /\ s6' = (IF o.heard.kind = "state"
                    THEN IF o.heard.val = "initial" THEN [s6 EXCEPT !.step = "snapshot"] ELSE S!Undo
                    ELSE S!Undo)
  BY <1>2
<1>4. /\ a \in Lines /\ a.val = s1.socket
      /\ IF done THEN a.kind = "state" ELSE a.kind = "error"
      /\ "state" # "error" /\ S!Silence.kind # "state"
  BY <1>1 DEF Lines, S!Kinds, S!Values, S!Settings, S!Silence, S!Modems, S!Sockets
<1> HIDE DEF a
<1>5. /\ s2' \in Seq(Lines) /\ Len(s2') <= MaxFlight /\ s5' \in BOOLEAN /\ ~s5'
      /\ \A i \in DOMAIN s2' : s2'[i] = a
      /\ o.heard = S!Silence \/ (o.heard = a /\ s2' = <<>>)
  BY <1>1, <1>3, <1>4, ForwardHeard
<1>6. o.heard.kind = "state" => done /\ o.heard.val = a.val /\ s2' = <<>>
  BY <1>4, <1>5
<1>7. s1' \in S!Modems
  BY <1>1, <1>3 DEF S!Modems, S!Sockets
<1>8. CASE s6' = S!Undo
  <2>1. /\ s6'.opened = s6.opened /\ s6'.touched = s6.touched
        /\ s6'.activated = s6.activated /\ s6'.changed = s6.changed
    BY <1>1, <1>8, UndoKeeps
  <2>2. S!Marked'
    BY <1>1, <1>3, <2>1 DEF S!Marked, S!Modems, S!Settings, S!IInv, S!Forward, S!Recheck
  <2>3. S!LateTrue'
    BY <1>3, <1>4, <1>5, <2>1, LateOne DEF S!Settings, S!IInv, S!Forward, S!Recheck
  <2> QED BY <1>1, <1>3, <1>5, <1>7, <1>8, <2>2, <2>3, Begins
<1>9. CASE s6' # S!Undo
  <2>1. /\ done /\ s2' = <<>> /\ s1' = s1 /\ a.val = s1.socket
        /\ LET v == a.val IN s6' = (IF v = "initial" THEN [s6 EXCEPT !.step = "snapshot"] ELSE S!Undo)
    BY <1>3, <1>4, <1>6, <1>9
  <2>2. s6' \in S!Sessions
    BY <1>1, <1>9, <2>1 DEF S!Sessions, S!Steps, S!Settings, S!HttpsAssumption, S!Set,
           S!FirstSetting, S!AfterSetting, S!NextSetting, S!Recheck
  <2>3. S!Typed'
    BY <1>1, <1>3, <1>5, <1>7, <2>2 DEF S!Typed, S!TypeOK, Lines
  <2>4. S!Forward'
    BY <1>1, <1>5, <1>9, <2>1 DEF S!IInv, S!Forward, S!Sessions, S!Settings, S!Set,
           S!FirstSetting, S!AfterSetting, S!NextSetting, S!Recheck
  <2>5. S!Marked'
    BY <1>1, <1>3, <1>9, <2>1 DEF S!IInv, S!Forward, S!Marked, S!Modems, S!Sessions,
           S!Settings, S!Set, S!FirstSetting, S!AfterSetting, S!NextSetting, S!Recheck
  <2>6. ~s6'.undoing
    BY <1>1, <1>9, <2>1 DEF S!Sessions, S!Set, S!AfterSetting, S!NextSetting
  <2>7. S!Backward'
    BY <2>6 DEF S!Backward
  <2>8. S!LateTrue'
    BY <2>1, LateNone
  <2> QED BY <2>3, <2>4, <2>5, <2>7, <2>8 DEF S!IInv
<1> QED BY <1>8, <1>9

\* snapshot_config: nothing is marked yet.
LEMMA HttpsSnapshot ==
    ASSUME S!HttpsAssumption, S!IInv, S!Snapshot
    PROVE  S!IInv'
<1>1. /\ ~s6.undoing /\ s2 = <<>> /\ ~s5 /\ s6.step \notin {"close", "confirm", "deactivate", "restore", "end"}
      /\ S!Typed /\ s1 \in S!Modems /\ s6 \in S!Sessions /\ S!Marked
  BY DEF S!IInv, S!Typed, S!TypeOK, S!Forward, S!Backward, S!Settings, S!Snapshot
<1>2. PICK done \in BOOLEAN :
        \E o \in S!Outcomes([kind |-> IF done THEN "config" ELSE "error", val |-> ""]) :
          /\ s1' = s1
          /\ s2' = o.flight /\ s5' = (s5 \/ o.mixed) /\ UNCHANGED <<s3, s4>>
          /\ s6' = (IF o.heard.kind = "config"
                    THEN [s6 EXCEPT !.step = "context"]
                    ELSE S!Undo)
  BY DEF S!Snapshot, S!Command, S!Same
<1> DEFINE a == [kind |-> IF done THEN "config" ELSE "error", val |-> ""]
<1>3. PICK o \in S!Outcomes(a) :
          /\ s1' = s1
          /\ s2' = o.flight /\ s5' = (s5 \/ o.mixed) /\ UNCHANGED <<s3, s4>>
          /\ s6' = (IF o.heard.kind = "config"
                    THEN [s6 EXCEPT !.step = "context"]
                    ELSE S!Undo)
  BY <1>2
<1>4. /\ a \in Lines /\ a.val = ""
      /\ IF done THEN a.kind = "config" ELSE a.kind = "error"
      /\ "config" # "error" /\ S!Silence.kind # "config"
  BY <1>1 DEF Lines, S!Kinds, S!Values, S!Settings, S!Silence, S!Modems, S!Sockets
<1> HIDE DEF a
<1>5. /\ s2' \in Seq(Lines) /\ Len(s2') <= MaxFlight /\ s5' \in BOOLEAN /\ ~s5'
      /\ \A i \in DOMAIN s2' : s2'[i] = a
      /\ o.heard = S!Silence \/ (o.heard = a /\ s2' = <<>>)
  BY <1>1, <1>3, <1>4, ForwardHeard
<1>6. o.heard.kind = "config" => done /\ o.heard.val = a.val /\ s2' = <<>>
  BY <1>4, <1>5
<1>7. s1' \in S!Modems
  BY <1>1, <1>3 DEF S!Modems, S!Sockets
<1>8. CASE s6' = S!Undo
  <2>1. /\ s6'.opened = s6.opened /\ s6'.touched = s6.touched
        /\ s6'.activated = s6.activated /\ s6'.changed = s6.changed
    BY <1>1, <1>8, UndoKeeps
  <2>2. S!Marked'
    BY <1>1, <1>3, <2>1 DEF S!Marked, S!Modems, S!Settings, S!IInv, S!Forward,
           S!Snapshot
  <2>3. S!LateTrue'
    BY <1>3, <1>4, <1>5, <2>1, LateOne DEF S!Settings, S!IInv, S!Forward, S!Snapshot
  <2> QED BY <1>1, <1>3, <1>5, <1>7, <1>8, <2>2, <2>3, Begins
<1>9. CASE s6' # S!Undo
  <2>1. /\ done /\ s2' = <<>> /\ s1' = s1 /\ a.val = ""
        /\ LET v == a.val IN s6' = ([s6 EXCEPT !.step = "context"])
    BY <1>3, <1>4, <1>6, <1>9
  <2>2. s6' \in S!Sessions
    BY <1>1, <1>9, <2>1 DEF S!Sessions, S!Steps, S!Settings, S!HttpsAssumption, S!Set,
           S!FirstSetting, S!AfterSetting, S!NextSetting, S!Snapshot
  <2>3. S!Typed'
    BY <1>1, <1>3, <1>5, <1>7, <2>2 DEF S!Typed, S!TypeOK, Lines
  <2>4. S!Forward'
    BY <1>1, <1>5, <1>9, <2>1 DEF S!IInv, S!Forward, S!Sessions, S!Settings, S!Set,
           S!FirstSetting, S!AfterSetting, S!NextSetting, S!Snapshot
  <2>5. S!Marked'
    BY <1>1, <1>3, <1>9, <2>1 DEF S!IInv, S!Forward, S!Marked, S!Modems, S!Sessions,
           S!Settings, S!Set, S!FirstSetting, S!AfterSetting, S!NextSetting,
           S!Snapshot
  <2>6. ~s6'.undoing
    BY <1>1, <1>9, <2>1 DEF S!Sessions, S!Set, S!AfterSetting, S!NextSetting
  <2>7. S!Backward'
    BY <2>6 DEF S!Backward
  <2>8. S!LateTrue'
    BY <2>1, LateNone
  <2> QED BY <2>3, <2>4, <2>5, <2>7, <2>8 DEF S!IInv
<1> QED BY <1>8, <1>9

\* prepare_pdp: the profile is marked only where the PDP is down, which is how
\* it was found.
LEMMA HttpsAskContext ==
    ASSUME S!HttpsAssumption, S!IInv, S!AskContext
    PROVE  S!IInv'
<1>1. /\ ~s6.undoing /\ s2 = <<>> /\ ~s5 /\ s6.step \notin {"close", "confirm", "deactivate", "restore", "end"}
      /\ S!Typed /\ s1 \in S!Modems /\ s6 \in S!Sessions /\ S!Marked
  BY DEF S!IInv, S!Typed, S!TypeOK, S!Forward, S!Backward, S!Settings, S!AskContext
<1>2. PICK done \in BOOLEAN :
        \E o \in S!Outcomes([kind |-> IF done THEN "context" ELSE "error", val |-> IF s1.active THEN "active" ELSE "idle"]) :
          /\ s1' = s1
          /\ s2' = o.flight /\ s5' = (s5 \/ o.mixed) /\ UNCHANGED <<s3, s4>>
          /\ s6' = (IF o.heard.kind = "context"
                    THEN IF s3.apn
                      THEN IF o.heard.val = "active" THEN S!Undo
                           ELSE [s6 EXCEPT !.step = "profile", !.changed = TRUE]
                      ELSE IF o.heard.val = "active" THEN S!Set(s6)
                      ELSE [s6 EXCEPT !.step = "activate", !.activated = TRUE]
                    ELSE S!Undo)
  BY DEF S!AskContext, S!Command, S!Pdp
<1> DEFINE a == [kind |-> IF done THEN "context" ELSE "error", val |-> IF s1.active THEN "active" ELSE "idle"]
<1>3. PICK o \in S!Outcomes(a) :
          /\ s1' = s1
          /\ s2' = o.flight /\ s5' = (s5 \/ o.mixed) /\ UNCHANGED <<s3, s4>>
          /\ s6' = (IF o.heard.kind = "context"
                    THEN IF s3.apn
                      THEN IF o.heard.val = "active" THEN S!Undo
                           ELSE [s6 EXCEPT !.step = "profile", !.changed = TRUE]
                      ELSE IF o.heard.val = "active" THEN S!Set(s6)
                      ELSE [s6 EXCEPT !.step = "activate", !.activated = TRUE]
                    ELSE S!Undo)
  BY <1>2
<1>4. /\ a \in Lines /\ a.val = (IF s1.active THEN "active" ELSE "idle")
      /\ IF done THEN a.kind = "context" ELSE a.kind = "error"
      /\ "context" # "error" /\ S!Silence.kind # "context"
  BY <1>1 DEF Lines, S!Kinds, S!Values, S!Settings, S!Silence, S!Modems, S!Sockets
<1> HIDE DEF a
<1>5. /\ s2' \in Seq(Lines) /\ Len(s2') <= MaxFlight /\ s5' \in BOOLEAN /\ ~s5'
      /\ \A i \in DOMAIN s2' : s2'[i] = a
      /\ o.heard = S!Silence \/ (o.heard = a /\ s2' = <<>>)
  BY <1>1, <1>3, <1>4, ForwardHeard
<1>6. o.heard.kind = "context" => done /\ o.heard.val = a.val /\ s2' = <<>>
  BY <1>4, <1>5
<1>7. s1' \in S!Modems
  BY <1>1, <1>3 DEF S!Modems, S!Sockets
<1>8. CASE s6' = S!Undo
  <2>1. /\ s6'.opened = s6.opened /\ s6'.touched = s6.touched
        /\ s6'.activated = s6.activated /\ s6'.changed = s6.changed
    BY <1>1, <1>8, UndoKeeps
  <2>2. S!Marked'
    BY <1>1, <1>3, <2>1 DEF S!Marked, S!Modems, S!Settings, S!IInv, S!Forward,
           S!AskContext
  <2>3. S!LateTrue'
    BY <1>3, <1>4, <1>5, <2>1, LateOne DEF S!Settings, S!IInv, S!Forward, S!AskContext
  <2> QED BY <1>1, <1>3, <1>5, <1>7, <1>8, <2>2, <2>3, Begins
<1>9. CASE s6' # S!Undo
  <2>1. /\ done /\ s2' = <<>> /\ s1' = s1 /\ a.val = (IF s1.active THEN "active" ELSE "idle")
        /\ LET v == a.val IN s6' = (IF s3.apn
                      THEN IF v = "active" THEN S!Undo
                           ELSE [s6 EXCEPT !.step = "profile", !.changed = TRUE]
                      ELSE IF v = "active" THEN S!Set(s6)
                      ELSE [s6 EXCEPT !.step = "activate", !.activated = TRUE])
    BY <1>3, <1>4, <1>6, <1>9
  <2>2. s6' \in S!Sessions
    BY <1>1, <1>9, <2>1 DEF S!Sessions, S!Steps, S!Settings, S!HttpsAssumption, S!Set,
           S!FirstSetting, S!AfterSetting, S!NextSetting, S!AskContext
  <2>3. S!Typed'
    BY <1>1, <1>3, <1>5, <1>7, <2>2 DEF S!Typed, S!TypeOK, Lines
  <2>4. S!Forward'
    BY <1>1, <1>5, <1>9, <2>1 DEF S!IInv, S!Forward, S!Sessions, S!Settings, S!Set,
           S!FirstSetting, S!AfterSetting, S!NextSetting, S!AskContext
  <2>5. S!Marked'
    BY <1>1, <1>3, <1>9, <2>1 DEF S!IInv, S!Forward, S!Marked, S!Modems, S!Sessions,
           S!Settings, S!Set, S!FirstSetting, S!AfterSetting, S!NextSetting,
           S!AskContext
  <2>6. ~s6'.undoing
    BY <1>1, <1>9, <2>1 DEF S!Sessions, S!Set, S!AfterSetting, S!NextSetting
  <2>7. S!Backward'
    BY <2>6 DEF S!Backward
  <2>8. S!LateTrue'
    BY <2>1, LateNone
  <2> QED BY <2>3, <2>4, <2>5, <2>7, <2>8 DEF S!IInv
<1> QED BY <1>8, <1>9

\* prepare_pdp: the profile is marked before it is rewritten.
LEMMA HttpsSetProfile ==
    ASSUME S!HttpsAssumption, S!IInv, S!SetProfile
    PROVE  S!IInv'
<1>1. /\ ~s6.undoing /\ s2 = <<>> /\ ~s5 /\ s6.step \notin {"close", "confirm", "deactivate", "restore", "end"}
      /\ S!Typed /\ s1 \in S!Modems /\ s6 \in S!Sessions /\ S!Marked
  BY DEF S!IInv, S!Typed, S!TypeOK, S!Forward, S!Backward, S!Settings, S!SetProfile
<1>2. PICK done \in BOOLEAN :
        \E o \in S!Outcomes([kind |-> IF done THEN "bare" ELSE "error", val |-> ""]) :
          /\ s1' = (IF done THEN [s1 EXCEPT !.apn = "asked"] ELSE s1)
          /\ s2' = o.flight /\ s5' = (s5 \/ o.mixed) /\ UNCHANGED <<s3, s4>>
          /\ s6' = (IF o.heard.kind = "bare"
                    THEN [s6 EXCEPT !.step = "profileCheck"]
                    ELSE S!Undo)
  BY DEF S!SetProfile, S!Command, S!Same
<1> DEFINE a == [kind |-> IF done THEN "bare" ELSE "error", val |-> ""]
<1>3. PICK o \in S!Outcomes(a) :
          /\ s1' = (IF done THEN [s1 EXCEPT !.apn = "asked"] ELSE s1)
          /\ s2' = o.flight /\ s5' = (s5 \/ o.mixed) /\ UNCHANGED <<s3, s4>>
          /\ s6' = (IF o.heard.kind = "bare"
                    THEN [s6 EXCEPT !.step = "profileCheck"]
                    ELSE S!Undo)
  BY <1>2
<1>4. /\ a \in Lines /\ a.val = ""
      /\ IF done THEN a.kind = "bare" ELSE a.kind = "error"
      /\ "bare" # "error" /\ S!Silence.kind # "bare"
  BY <1>1 DEF Lines, S!Kinds, S!Values, S!Settings, S!Silence, S!Modems, S!Sockets
<1> HIDE DEF a
<1>5. /\ s2' \in Seq(Lines) /\ Len(s2') <= MaxFlight /\ s5' \in BOOLEAN /\ ~s5'
      /\ \A i \in DOMAIN s2' : s2'[i] = a
      /\ o.heard = S!Silence \/ (o.heard = a /\ s2' = <<>>)
  BY <1>1, <1>3, <1>4, ForwardHeard
<1>6. o.heard.kind = "bare" => done /\ o.heard.val = a.val /\ s2' = <<>>
  BY <1>4, <1>5
<1>7. s1' \in S!Modems
  BY <1>1, <1>3 DEF S!Modems, S!Sockets
<1>8. CASE s6' = S!Undo
  <2>1. /\ s6'.opened = s6.opened /\ s6'.touched = s6.touched
        /\ s6'.activated = s6.activated /\ s6'.changed = s6.changed
    BY <1>1, <1>8, UndoKeeps
  <2>2. S!Marked'
    BY <1>1, <1>3, <2>1 DEF S!Marked, S!Modems, S!Settings, S!IInv, S!Forward,
           S!SetProfile
  <2>3. S!LateTrue'
    BY <1>3, <1>4, <1>5, <2>1, LateOne DEF S!Settings, S!IInv, S!Forward, S!SetProfile
  <2> QED BY <1>1, <1>3, <1>5, <1>7, <1>8, <2>2, <2>3, Begins
<1>9. CASE s6' # S!Undo
  <2>1. /\ done /\ s2' = <<>> /\ s1' = [s1 EXCEPT !.apn = "asked"] /\ a.val = ""
        /\ LET v == a.val IN s6' = ([s6 EXCEPT !.step = "profileCheck"])
    BY <1>3, <1>4, <1>6, <1>9
  <2>2. s6' \in S!Sessions
    BY <1>1, <1>9, <2>1 DEF S!Sessions, S!Steps, S!Settings, S!HttpsAssumption, S!Set,
           S!FirstSetting, S!AfterSetting, S!NextSetting, S!SetProfile
  <2>3. S!Typed'
    BY <1>1, <1>3, <1>5, <1>7, <2>2 DEF S!Typed, S!TypeOK, Lines
  <2>4. S!Forward'
    BY <1>1, <1>5, <1>9, <2>1 DEF S!IInv, S!Forward, S!Sessions, S!Settings, S!Set,
           S!FirstSetting, S!AfterSetting, S!NextSetting, S!SetProfile
  <2>5. S!Marked'
    BY <1>1, <1>3, <1>9, <2>1 DEF S!IInv, S!Forward, S!Marked, S!Modems, S!Sessions,
           S!Settings, S!Set, S!FirstSetting, S!AfterSetting, S!NextSetting,
           S!SetProfile
  <2>6. ~s6'.undoing
    BY <1>1, <1>9, <2>1 DEF S!Sessions, S!Set, S!AfterSetting, S!NextSetting
  <2>7. S!Backward'
    BY <2>6 DEF S!Backward
  <2>8. S!LateTrue'
    BY <2>1, LateNone
  <2> QED BY <2>3, <2>4, <2>5, <2>7, <2>8 DEF S!IInv
<1> QED BY <1>8, <1>9

\* prepare_pdp: the activation is marked before it is asked for.
LEMMA HttpsCheckProfile ==
    ASSUME S!HttpsAssumption, S!IInv, S!CheckProfile
    PROVE  S!IInv'
<1>1. /\ ~s6.undoing /\ s2 = <<>> /\ ~s5 /\ s6.step \notin {"close", "confirm", "deactivate", "restore", "end"}
      /\ S!Typed /\ s1 \in S!Modems /\ s6 \in S!Sessions /\ S!Marked
  BY DEF S!IInv, S!Typed, S!TypeOK, S!Forward, S!Backward, S!Settings, S!CheckProfile
<1>2. PICK done \in BOOLEAN :
        \E o \in S!Outcomes([kind |-> IF done THEN "profile" ELSE "error", val |-> s1.apn]) :
          /\ s1' = s1
          /\ s2' = o.flight /\ s5' = (s5 \/ o.mixed) /\ UNCHANGED <<s3, s4>>
          /\ s6' = (IF o.heard.kind = "profile"
                    THEN IF o.heard.val = "asked" THEN [s6 EXCEPT !.step = "activate", !.activated = TRUE]
                      ELSE S!Undo
                    ELSE S!Undo)
  BY DEF S!CheckProfile, S!Command, S!Apn
<1> DEFINE a == [kind |-> IF done THEN "profile" ELSE "error", val |-> s1.apn]
<1>3. PICK o \in S!Outcomes(a) :
          /\ s1' = s1
          /\ s2' = o.flight /\ s5' = (s5 \/ o.mixed) /\ UNCHANGED <<s3, s4>>
          /\ s6' = (IF o.heard.kind = "profile"
                    THEN IF o.heard.val = "asked" THEN [s6 EXCEPT !.step = "activate", !.activated = TRUE]
                      ELSE S!Undo
                    ELSE S!Undo)
  BY <1>2
<1>4. /\ a \in Lines /\ a.val = s1.apn
      /\ IF done THEN a.kind = "profile" ELSE a.kind = "error"
      /\ "profile" # "error" /\ S!Silence.kind # "profile"
  BY <1>1 DEF Lines, S!Kinds, S!Values, S!Settings, S!Silence, S!Modems, S!Sockets
<1> HIDE DEF a
<1>5. /\ s2' \in Seq(Lines) /\ Len(s2') <= MaxFlight /\ s5' \in BOOLEAN /\ ~s5'
      /\ \A i \in DOMAIN s2' : s2'[i] = a
      /\ o.heard = S!Silence \/ (o.heard = a /\ s2' = <<>>)
  BY <1>1, <1>3, <1>4, ForwardHeard
<1>6. o.heard.kind = "profile" => done /\ o.heard.val = a.val /\ s2' = <<>>
  BY <1>4, <1>5
<1>7. s1' \in S!Modems
  BY <1>1, <1>3 DEF S!Modems, S!Sockets
<1>8. CASE s6' = S!Undo
  <2>1. /\ s6'.opened = s6.opened /\ s6'.touched = s6.touched
        /\ s6'.activated = s6.activated /\ s6'.changed = s6.changed
    BY <1>1, <1>8, UndoKeeps
  <2>2. S!Marked'
    BY <1>1, <1>3, <2>1 DEF S!Marked, S!Modems, S!Settings, S!IInv, S!Forward,
           S!CheckProfile
  <2>3. S!LateTrue'
    BY <1>3, <1>4, <1>5, <2>1, LateOne DEF S!Settings, S!IInv, S!Forward, S!CheckProfile
  <2> QED BY <1>1, <1>3, <1>5, <1>7, <1>8, <2>2, <2>3, Begins
<1>9. CASE s6' # S!Undo
  <2>1. /\ done /\ s2' = <<>> /\ s1' = s1 /\ a.val = s1.apn
        /\ LET v == a.val IN s6' = (IF v = "asked" THEN [s6 EXCEPT !.step = "activate", !.activated = TRUE]
                      ELSE S!Undo)
    BY <1>3, <1>4, <1>6, <1>9
  <2>2. s6' \in S!Sessions
    BY <1>1, <1>9, <2>1 DEF S!Sessions, S!Steps, S!Settings, S!HttpsAssumption, S!Set,
           S!FirstSetting, S!AfterSetting, S!NextSetting, S!CheckProfile
  <2>3. S!Typed'
    BY <1>1, <1>3, <1>5, <1>7, <2>2 DEF S!Typed, S!TypeOK, Lines
  <2>4. S!Forward'
    BY <1>1, <1>5, <1>9, <2>1 DEF S!IInv, S!Forward, S!Sessions, S!Settings, S!Set,
           S!FirstSetting, S!AfterSetting, S!NextSetting, S!CheckProfile
  <2>5. S!Marked'
    BY <1>1, <1>3, <1>9, <2>1 DEF S!IInv, S!Forward, S!Marked, S!Modems, S!Sessions,
           S!Settings, S!Set, S!FirstSetting, S!AfterSetting, S!NextSetting,
           S!CheckProfile
  <2>6. ~s6'.undoing
    BY <1>1, <1>9, <2>1 DEF S!Sessions, S!Set, S!AfterSetting, S!NextSetting
  <2>7. S!Backward'
    BY <2>6 DEF S!Backward
  <2>8. S!LateTrue'
    BY <2>1, LateNone
  <2> QED BY <2>3, <2>4, <2>5, <2>7, <2>8 DEF S!IInv
<1> QED BY <1>8, <1>9

\* prepare_pdp: the first setting is marked before it is set.
LEMMA HttpsActivate ==
    ASSUME S!HttpsAssumption, S!IInv, S!Activate
    PROVE  S!IInv'
<1>1. /\ ~s6.undoing /\ s2 = <<>> /\ ~s5 /\ s6.step \notin {"close", "confirm", "deactivate", "restore", "end"}
      /\ S!Typed /\ s1 \in S!Modems /\ s6 \in S!Sessions /\ S!Marked
  BY DEF S!IInv, S!Typed, S!TypeOK, S!Forward, S!Backward, S!Settings, S!Activate
<1>2. PICK done \in BOOLEAN :
        \E o \in S!Outcomes([kind |-> IF done THEN "bare" ELSE "error", val |-> ""]) :
          /\ s1' = (IF done THEN [s1 EXCEPT !.active = TRUE] ELSE s1)
          /\ s2' = o.flight /\ s5' = (s5 \/ o.mixed) /\ UNCHANGED <<s3, s4>>
          /\ s6' = (IF o.heard.kind = "bare"
                    THEN S!Set(s6)
                    ELSE S!Undo)
  BY DEF S!Activate, S!Command, S!Same
<1> DEFINE a == [kind |-> IF done THEN "bare" ELSE "error", val |-> ""]
<1>3. PICK o \in S!Outcomes(a) :
          /\ s1' = (IF done THEN [s1 EXCEPT !.active = TRUE] ELSE s1)
          /\ s2' = o.flight /\ s5' = (s5 \/ o.mixed) /\ UNCHANGED <<s3, s4>>
          /\ s6' = (IF o.heard.kind = "bare"
                    THEN S!Set(s6)
                    ELSE S!Undo)
  BY <1>2
<1>4. /\ a \in Lines /\ a.val = ""
      /\ IF done THEN a.kind = "bare" ELSE a.kind = "error"
      /\ "bare" # "error" /\ S!Silence.kind # "bare"
  BY <1>1 DEF Lines, S!Kinds, S!Values, S!Settings, S!Silence, S!Modems, S!Sockets
<1> HIDE DEF a
<1>5. /\ s2' \in Seq(Lines) /\ Len(s2') <= MaxFlight /\ s5' \in BOOLEAN /\ ~s5'
      /\ \A i \in DOMAIN s2' : s2'[i] = a
      /\ o.heard = S!Silence \/ (o.heard = a /\ s2' = <<>>)
  BY <1>1, <1>3, <1>4, ForwardHeard
<1>6. o.heard.kind = "bare" => done /\ o.heard.val = a.val /\ s2' = <<>>
  BY <1>4, <1>5
<1>7. s1' \in S!Modems
  BY <1>1, <1>3 DEF S!Modems, S!Sockets
<1>8. CASE s6' = S!Undo
  <2>1. /\ s6'.opened = s6.opened /\ s6'.touched = s6.touched
        /\ s6'.activated = s6.activated /\ s6'.changed = s6.changed
    BY <1>1, <1>8, UndoKeeps
  <2>2. S!Marked'
    BY <1>1, <1>3, <2>1 DEF S!Marked, S!Modems, S!Settings, S!IInv, S!Forward,
           S!Activate
  <2>3. S!LateTrue'
    BY <1>3, <1>4, <1>5, <2>1, LateOne DEF S!Settings, S!IInv, S!Forward, S!Activate
  <2> QED BY <1>1, <1>3, <1>5, <1>7, <1>8, <2>2, <2>3, Begins
<1>9. CASE s6' # S!Undo
  <2>1. /\ done /\ s2' = <<>> /\ s1' = [s1 EXCEPT !.active = TRUE] /\ a.val = ""
        /\ LET v == a.val IN s6' = (S!Set(s6))
    BY <1>3, <1>4, <1>6, <1>9
  <2>2. s6' \in S!Sessions
    BY <1>1, <1>9, <2>1 DEF S!Sessions, S!Steps, S!Settings, S!HttpsAssumption, S!Set,
           S!FirstSetting, S!AfterSetting, S!NextSetting, S!Activate
  <2>3. S!Typed'
    BY <1>1, <1>3, <1>5, <1>7, <2>2 DEF S!Typed, S!TypeOK, Lines
  <2>4. S!Forward'
    BY <1>1, <1>5, <1>9, <2>1 DEF S!IInv, S!Forward, S!Sessions, S!Settings, S!Set,
           S!FirstSetting, S!AfterSetting, S!NextSetting, S!Activate
  <2>5. S!Marked'
    BY ZenonT(60), <1>1, <1>3, <1>9, <2>1 DEF S!IInv, S!Forward, S!Marked, S!Modems, S!Sessions,
           S!Settings, S!Set, S!FirstSetting, S!AfterSetting, S!NextSetting,
           S!Activate
  <2>6. ~s6'.undoing
    BY <1>1, <1>9, <2>1 DEF S!Sessions, S!Set, S!AfterSetting, S!NextSetting
  <2>7. S!Backward'
    BY <2>6 DEF S!Backward
  <2>8. S!LateTrue'
    BY <2>1, LateNone
  <2> QED BY <2>3, <2>4, <2>5, <2>7, <2>8 DEF S!IInv
<1> QED BY <1>8, <1>9

\* set_config: the setting is marked.
LEMMA HttpsSetSetting ==
    ASSUME S!HttpsAssumption, S!IInv, S!SetSetting
    PROVE  S!IInv'
<1>1. /\ ~s6.undoing /\ s2 = <<>> /\ ~s5 /\ s6.step \notin {"close", "confirm", "deactivate", "restore", "end"}
      /\ S!Typed /\ s1 \in S!Modems /\ s6 \in S!Sessions /\ S!Marked
  BY DEF S!IInv, S!Typed, S!TypeOK, S!Forward, S!Backward, S!Settings, S!SetSetting
<1>2. PICK done \in BOOLEAN :
        \E o \in S!Outcomes([kind |-> IF done THEN "bare" ELSE "error", val |-> ""]) :
          /\ s1' = (IF done THEN [s1 EXCEPT !.own = @ \ {s6.step}] ELSE s1)
          /\ s2' = o.flight /\ s5' = (s5 \/ o.mixed) /\ UNCHANGED <<s3, s4>>
          /\ s6' = (IF o.heard.kind = "bare"
                    THEN [s6 EXCEPT !.check = TRUE]
                    ELSE S!Undo)
  BY DEF S!SetSetting, S!Command, S!Same
<1> DEFINE a == [kind |-> IF done THEN "bare" ELSE "error", val |-> ""]
<1>3. PICK o \in S!Outcomes(a) :
          /\ s1' = (IF done THEN [s1 EXCEPT !.own = @ \ {s6.step}] ELSE s1)
          /\ s2' = o.flight /\ s5' = (s5 \/ o.mixed) /\ UNCHANGED <<s3, s4>>
          /\ s6' = (IF o.heard.kind = "bare"
                    THEN [s6 EXCEPT !.check = TRUE]
                    ELSE S!Undo)
  BY <1>2
<1>4. /\ a \in Lines /\ a.val = ""
      /\ IF done THEN a.kind = "bare" ELSE a.kind = "error"
      /\ "bare" # "error" /\ S!Silence.kind # "bare"
  BY <1>1 DEF Lines, S!Kinds, S!Values, S!Settings, S!Silence, S!Modems, S!Sockets
<1> HIDE DEF a
<1>5. /\ s2' \in Seq(Lines) /\ Len(s2') <= MaxFlight /\ s5' \in BOOLEAN /\ ~s5'
      /\ \A i \in DOMAIN s2' : s2'[i] = a
      /\ o.heard = S!Silence \/ (o.heard = a /\ s2' = <<>>)
  BY <1>1, <1>3, <1>4, ForwardHeard
<1>6. o.heard.kind = "bare" => done /\ o.heard.val = a.val /\ s2' = <<>>
  BY <1>4, <1>5
<1>7. s1' \in S!Modems
  BY <1>1, <1>3 DEF S!Modems, S!Sockets
<1>8. CASE s6' = S!Undo
  <2>1. /\ s6'.opened = s6.opened /\ s6'.touched = s6.touched
        /\ s6'.activated = s6.activated /\ s6'.changed = s6.changed
    BY <1>1, <1>8, UndoKeeps
  <2>2. S!Marked'
    BY <1>1, <1>3, <2>1 DEF S!Marked, S!Modems, S!Settings, S!IInv, S!Forward,
           S!SetSetting
  <2>3. S!LateTrue'
    BY <1>3, <1>4, <1>5, <2>1, LateOne DEF S!Settings, S!IInv, S!Forward, S!SetSetting
  <2> QED BY <1>1, <1>3, <1>5, <1>7, <1>8, <2>2, <2>3, Begins
<1>9. CASE s6' # S!Undo
  <2>1. /\ done /\ s2' = <<>> /\ s1' = [s1 EXCEPT !.own = @ \ {s6.step}] /\ a.val = ""
        /\ LET v == a.val IN s6' = ([s6 EXCEPT !.check = TRUE])
    BY <1>3, <1>4, <1>6, <1>9
  <2>2. s6' \in S!Sessions
    BY <1>1, <1>9, <2>1 DEF S!Sessions, S!Steps, S!Settings, S!HttpsAssumption, S!Set,
           S!FirstSetting, S!AfterSetting, S!NextSetting, S!SetSetting
  <2>3. S!Typed'
    BY <1>1, <1>3, <1>5, <1>7, <2>2 DEF S!Typed, S!TypeOK, Lines
  <2>4. S!Forward'
    BY <1>1, <1>5, <1>9, <2>1 DEF S!IInv, S!Forward, S!Sessions, S!Settings, S!Set,
           S!FirstSetting, S!AfterSetting, S!NextSetting, S!SetSetting
  <2>97. s6.step \in s6.touched /\ s6' = [s6 EXCEPT !.check = TRUE]
        /\ s1' = [s1 EXCEPT !.own = @ \ {s6.step}]
    BY <1>1, <2>1 DEF S!IInv, S!Forward, S!SetSetting
  <2>98. /\ s6'.touched = s6.touched /\ s6'.changed = s6.changed /\ s6'.activated = s6.activated
        /\ s1'.own = s1.own \ {s6.step} /\ s1'.apn = s1.apn /\ s1'.active = s1.active
    BY <1>1, <2>97 DEF S!Modems, S!Sessions
  <2>5. S!Marked'
    BY <1>1, <1>3, <2>97, <2>98 DEF S!Marked
  <2>6. ~s6'.undoing
    BY <1>1, <1>9, <2>1 DEF S!Sessions, S!Set, S!AfterSetting, S!NextSetting
  <2>7. S!Backward'
    BY <2>6 DEF S!Backward
  <2>8. S!LateTrue'
    BY <2>1, LateNone
  <2> QED BY <2>3, <2>4, <2>5, <2>7, <2>8 DEF S!IInv
<1> QED BY <1>8, <1>9

\* verify_config: the next setting is marked before it is set, and so is the
\* socket.
LEMMA HttpsCheckSetting ==
    ASSUME S!HttpsAssumption, S!IInv, S!CheckSetting
    PROVE  S!IInv'
<1>1. /\ ~s6.undoing /\ s2 = <<>> /\ ~s5 /\ s6.step \notin {"close", "confirm", "deactivate", "restore", "end"}
      /\ S!Typed /\ s1 \in S!Modems /\ s6 \in S!Sessions /\ S!Marked
  BY DEF S!IInv, S!Typed, S!TypeOK, S!Forward, S!Backward, S!Settings, S!CheckSetting
<1>2. PICK done \in BOOLEAN :
        \E o \in S!Outcomes([kind |-> IF done THEN s6.step ELSE "error", val |-> IF s6.step \in s1.own THEN "own" ELSE "set"]) :
          /\ s1' = s1
          /\ s2' = o.flight /\ s5' = (s5 \/ o.mixed) /\ UNCHANGED <<s3, s4>>
          /\ s6' = (IF o.heard.kind = s6.step
                    THEN IF o.heard.val = "set" THEN S!AfterSetting ELSE S!Undo
                    ELSE S!Undo)
  BY DEF S!CheckSetting, S!Command, S!Value
<1> DEFINE a == [kind |-> IF done THEN s6.step ELSE "error", val |-> IF s6.step \in s1.own THEN "own" ELSE "set"]
<1>3. PICK o \in S!Outcomes(a) :
          /\ s1' = s1
          /\ s2' = o.flight /\ s5' = (s5 \/ o.mixed) /\ UNCHANGED <<s3, s4>>
          /\ s6' = (IF o.heard.kind = s6.step
                    THEN IF o.heard.val = "set" THEN S!AfterSetting ELSE S!Undo
                    ELSE S!Undo)
  BY <1>2
<1>4. /\ a \in Lines /\ a.val = (IF s6.step \in s1.own THEN "own" ELSE "set")
      /\ IF done THEN a.kind = s6.step ELSE a.kind = "error"
      /\ s6.step # "error" /\ S!Silence.kind # s6.step
  BY <1>1 DEF Lines, S!Kinds, S!Values, S!Settings, S!Silence, S!Modems, S!Sockets,
         S!CheckSetting
<1> HIDE DEF a
<1>5. /\ s2' \in Seq(Lines) /\ Len(s2') <= MaxFlight /\ s5' \in BOOLEAN /\ ~s5'
      /\ \A i \in DOMAIN s2' : s2'[i] = a
      /\ o.heard = S!Silence \/ (o.heard = a /\ s2' = <<>>)
  BY <1>1, <1>3, <1>4, ForwardHeard
<1>6. o.heard.kind = s6.step => done /\ o.heard.val = a.val /\ s2' = <<>>
  BY <1>4, <1>5
<1>7. s1' \in S!Modems
  BY <1>1, <1>3 DEF S!Modems, S!Sockets
<1>8. CASE s6' = S!Undo
  <2>1. /\ s6'.opened = s6.opened /\ s6'.touched = s6.touched
        /\ s6'.activated = s6.activated /\ s6'.changed = s6.changed
    BY <1>1, <1>8, UndoKeeps
  <2>2. S!Marked'
    BY <1>1, <1>3, <2>1 DEF S!Marked, S!Modems, S!Settings, S!IInv, S!Forward,
           S!CheckSetting
  <2>3. S!LateTrue'
    BY <1>3, <1>4, <1>5, <2>1, LateOne DEF S!Settings, S!IInv, S!Forward, S!CheckSetting
  <2> QED BY <1>1, <1>3, <1>5, <1>7, <1>8, <2>2, <2>3, Begins
<1>9. CASE s6' # S!Undo
  <2>1. /\ done /\ s2' = <<>> /\ s1' = s1 /\ a.val = (IF s6.step \in s1.own THEN "own" ELSE "set")
        /\ LET v == a.val IN s6' = (IF v = "set" THEN S!AfterSetting ELSE S!Undo)
    BY <1>3, <1>4, <1>6, <1>9
  <2>110. PICK next \in S!Settings \cup {"open"} :
            /\ s6' = [s6 EXCEPT !.step = next, !.check = FALSE, !.opened = next = "open",
                                !.touched = @ \cup ({next} \cap S!Settings)]
    <3>1. s6' = S!AfterSetting
      BY <1>9, <2>1
    <3>2. s6.step \in S!Settings
      BY DEF S!CheckSetting
    <3>3. S!NextSetting[s6.step] \in S!Settings \cup {"open"}
      BY <3>2 DEF S!NextSetting, S!Settings
    <3> QED BY <3>1, <3>3 DEF S!AfterSetting
  <2>109. PICK opened \in BOOLEAN : /\ opened <=> next = "open"
            /\ s6' = [s6 EXCEPT !.step = next, !.check = FALSE, !.opened = opened,
                                !.touched = @ \cup ({next} \cap S!Settings)]
    <3>1. CASE next = "open"
      <4>1. (next = "open") = TRUE
        BY <3>1
      <4> QED BY <2>110, <3>1, <4>1
    <3>2. CASE next # "open"
      <4>1. (next = "open") = FALSE
        BY <3>2
      <4> QED BY <2>110, <3>2, <4>1
    <3> QED BY <3>1, <3>2
  <2>116. /\ s6'.step = next /\ s6'.opened = opened /\ s6'.touched = s6.touched \cup ({next} \cap S!Settings)
        /\ s6'.undoing = FALSE
    BY <1>1, <2>109 DEF S!Sessions
  <2>2. s6' \in S!Sessions
    BY <1>1, <2>109 DEF S!Sessions, S!Steps
  <2>3. S!Typed'
    BY <1>1, <1>3, <1>5, <1>7, <2>2 DEF S!Typed, S!TypeOK, Lines
  <2>4. S!Forward'
    BY <1>5, <2>1, <2>116, <2>109 DEF S!Forward, S!Settings
  <2>5. S!Marked'
    BY <1>1, <1>3, <1>9, <2>1 DEF S!IInv, S!Forward, S!Marked, S!Modems, S!Sessions,
           S!Settings, S!Set, S!FirstSetting, S!AfterSetting, S!NextSetting,
           S!CheckSetting
  <2>6. ~s6'.undoing
    BY <1>1, <1>9, <2>1 DEF S!Sessions, S!Set, S!AfterSetting, S!NextSetting
  <2>7. S!Backward'
    BY <2>6 DEF S!Backward
  <2>8. S!LateTrue'
    BY <2>1, LateNone
  <2> QED BY <2>3, <2>4, <2>5, <2>7, <2>8 DEF S!IInv
<1> QED BY <1>8, <1>9

\* open_socket.
LEMMA HttpsOpen ==
    ASSUME S!HttpsAssumption, S!IInv, S!Open
    PROVE  S!IInv'
<1>1. /\ ~s6.undoing /\ s2 = <<>> /\ ~s5 /\ s6.step \notin {"close", "confirm", "deactivate", "restore", "end"}
      /\ S!Typed /\ s1 \in S!Modems /\ s6 \in S!Sessions /\ S!Marked
  BY DEF S!IInv, S!Typed, S!TypeOK, S!Forward, S!Backward, S!Settings, S!Open
<1>10. PICK socket \in S!Sockets :
        \E done \in BOOLEAN :
          \E o \in S!Outcomes([kind |-> IF done THEN "bare" ELSE "error", val |-> ""]) :
             /\ s1' = (IF done THEN [s1 EXCEPT !.socket = socket] ELSE s1)
             /\ s2' = o.flight /\ s5' = (s5 \/ o.mixed) /\ UNCHANGED <<s3, s4>>
             /\ s6' = (IF o.heard.kind = "bare" THEN [s6 EXCEPT !.step = "wait", !.polls = MaxPolls]
                       ELSE S!Undo)
  BY DEF S!Open, S!Command, S!Same
<1>2. PICK done \in BOOLEAN :
        \E o \in S!Outcomes([kind |-> IF done THEN "bare" ELSE "error", val |-> ""]) :
          /\ s1' = (IF done THEN [s1 EXCEPT !.socket = socket] ELSE s1)
          /\ s2' = o.flight /\ s5' = (s5 \/ o.mixed) /\ UNCHANGED <<s3, s4>>
          /\ s6' = (IF o.heard.kind = "bare"
                    THEN [s6 EXCEPT !.step = "wait", !.polls = MaxPolls]
                    ELSE S!Undo)
  BY <1>10
<1> DEFINE a == [kind |-> IF done THEN "bare" ELSE "error", val |-> ""]
<1>3. PICK o \in S!Outcomes(a) :
          /\ s1' = (IF done THEN [s1 EXCEPT !.socket = socket] ELSE s1)
          /\ s2' = o.flight /\ s5' = (s5 \/ o.mixed) /\ UNCHANGED <<s3, s4>>
          /\ s6' = (IF o.heard.kind = "bare"
                    THEN [s6 EXCEPT !.step = "wait", !.polls = MaxPolls]
                    ELSE S!Undo)
  BY <1>2
<1>4. /\ a \in Lines /\ a.val = ""
      /\ IF done THEN a.kind = "bare" ELSE a.kind = "error"
      /\ "bare" # "error" /\ S!Silence.kind # "bare"
  BY <1>1 DEF Lines, S!Kinds, S!Values, S!Settings, S!Silence, S!Modems, S!Sockets
<1> HIDE DEF a
<1>5. /\ s2' \in Seq(Lines) /\ Len(s2') <= MaxFlight /\ s5' \in BOOLEAN /\ ~s5'
      /\ \A i \in DOMAIN s2' : s2'[i] = a
      /\ o.heard = S!Silence \/ (o.heard = a /\ s2' = <<>>)
  BY <1>1, <1>3, <1>4, ForwardHeard
<1>6. o.heard.kind = "bare" => done /\ o.heard.val = a.val /\ s2' = <<>>
  BY <1>4, <1>5
<1>7. s1' \in S!Modems
  BY <1>1, <1>3 DEF S!Modems, S!Sockets
<1>8. CASE s6' = S!Undo
  <2>1. /\ s6'.opened = s6.opened /\ s6'.touched = s6.touched
        /\ s6'.activated = s6.activated /\ s6'.changed = s6.changed
    BY <1>1, <1>8, UndoKeeps
  <2>2. S!Marked'
    BY <1>1, <1>3, <2>1 DEF S!Marked, S!Modems, S!Settings, S!IInv, S!Forward, S!Open
  <2>3. S!LateTrue'
    BY <1>3, <1>4, <1>5, <2>1, LateOne DEF S!Settings, S!IInv, S!Forward, S!Open
  <2> QED BY <1>1, <1>3, <1>5, <1>7, <1>8, <2>2, <2>3, Begins
<1>9. CASE s6' # S!Undo
  <2>1. /\ done /\ s2' = <<>> /\ s1' = [s1 EXCEPT !.socket = socket] /\ a.val = ""
        /\ LET v == a.val IN s6' = ([s6 EXCEPT !.step = "wait", !.polls = MaxPolls])
    BY <1>3, <1>4, <1>6, <1>9
  <2>112. MaxPolls \in 0 .. MaxPolls
    BY DEF S!HttpsAssumption
  <2>2. s6' \in S!Sessions
    BY <2>112, <1>1, <1>9, <2>1 DEF S!Sessions, S!Steps, S!Settings,
           S!HttpsAssumption, S!Set, S!FirstSetting, S!AfterSetting, S!NextSetting,
           S!Open
  <2>3. S!Typed'
    BY <1>1, <1>3, <1>5, <1>7, <2>2 DEF S!Typed, S!TypeOK, Lines
  <2>4. S!Forward'
    BY <1>1, <1>5, <1>9, <2>1 DEF S!IInv, S!Forward, S!Sessions, S!Settings, S!Set,
           S!FirstSetting, S!AfterSetting, S!NextSetting, S!Open
  <2>5. S!Marked'
    BY ZenonT(60), <1>1, <1>3, <1>9, <2>1 DEF S!IInv, S!Forward, S!Marked, S!Modems, S!Sessions,
           S!Settings, S!Set, S!FirstSetting, S!AfterSetting, S!NextSetting, S!Open
  <2>6. ~s6'.undoing
    BY <1>1, <1>9, <2>1 DEF S!Sessions, S!Set, S!AfterSetting, S!NextSetting
  <2>7. S!Backward'
    BY <2>6 DEF S!Backward
  <2>8. S!LateTrue'
    BY <2>1, LateNone
  <2> QED BY <2>3, <2>4, <2>5, <2>7, <2>8 DEF S!IInv
<1> QED BY <1>8, <1>9

\* wait_for_connected.
LEMMA HttpsWait ==
    ASSUME S!HttpsAssumption, S!IInv, S!Wait
    PROVE  S!IInv'
<1>1. /\ ~s6.undoing /\ s2 = <<>> /\ ~s5 /\ s6.step \notin {"close", "confirm", "deactivate", "restore", "end"}
      /\ S!Typed /\ s1 \in S!Modems /\ s6 \in S!Sessions /\ S!Marked
  BY DEF S!IInv, S!Typed, S!TypeOK, S!Forward, S!Backward, S!Settings, S!Wait
<1>2. PICK done \in BOOLEAN :
        \E o \in S!Outcomes([kind |-> IF done THEN "state" ELSE "error", val |-> s1.socket]) :
          /\ s1' = s1
          /\ s2' = o.flight /\ s5' = (s5 \/ o.mixed) /\ UNCHANGED <<s3, s4>>
          /\ s6' = (IF o.heard.kind = "state"
                    THEN IF o.heard.val = "connected" THEN [s6 EXCEPT !.step = "exchange"]
                      ELSE IF o.heard.val \in {"initial", "connecting"} /\ s6.polls > 1
                           THEN [s6 EXCEPT !.polls = @ - 1] ELSE S!Undo
                    ELSE S!Undo)
  BY DEF S!Wait, S!Command, S!Socket
<1> DEFINE a == [kind |-> IF done THEN "state" ELSE "error", val |-> s1.socket]
<1>3. PICK o \in S!Outcomes(a) :
          /\ s1' = s1
          /\ s2' = o.flight /\ s5' = (s5 \/ o.mixed) /\ UNCHANGED <<s3, s4>>
          /\ s6' = (IF o.heard.kind = "state"
                    THEN IF o.heard.val = "connected" THEN [s6 EXCEPT !.step = "exchange"]
                      ELSE IF o.heard.val \in {"initial", "connecting"} /\ s6.polls > 1
                           THEN [s6 EXCEPT !.polls = @ - 1] ELSE S!Undo
                    ELSE S!Undo)
  BY <1>2
<1>4. /\ a \in Lines /\ a.val = s1.socket
      /\ IF done THEN a.kind = "state" ELSE a.kind = "error"
      /\ "state" # "error" /\ S!Silence.kind # "state"
  BY <1>1 DEF Lines, S!Kinds, S!Values, S!Settings, S!Silence, S!Modems, S!Sockets
<1> HIDE DEF a
<1>5. /\ s2' \in Seq(Lines) /\ Len(s2') <= MaxFlight /\ s5' \in BOOLEAN /\ ~s5'
      /\ \A i \in DOMAIN s2' : s2'[i] = a
      /\ o.heard = S!Silence \/ (o.heard = a /\ s2' = <<>>)
  BY <1>1, <1>3, <1>4, ForwardHeard
<1>6. o.heard.kind = "state" => done /\ o.heard.val = a.val /\ s2' = <<>>
  BY <1>4, <1>5
<1>7. s1' \in S!Modems
  BY <1>1, <1>3 DEF S!Modems, S!Sockets
<1>8. CASE s6' = S!Undo
  <2>1. /\ s6'.opened = s6.opened /\ s6'.touched = s6.touched
        /\ s6'.activated = s6.activated /\ s6'.changed = s6.changed
    BY <1>1, <1>8, UndoKeeps
  <2>2. S!Marked'
    BY <1>1, <1>3, <2>1 DEF S!Marked, S!Modems, S!Settings, S!IInv, S!Forward, S!Wait
  <2>3. S!LateTrue'
    BY <1>3, <1>4, <1>5, <2>1, LateOne DEF S!Settings, S!IInv, S!Forward, S!Wait
  <2> QED BY <1>1, <1>3, <1>5, <1>7, <1>8, <2>2, <2>3, Begins
<1>9. CASE s6' # S!Undo
  <2>1. /\ done /\ s2' = <<>> /\ s1' = s1 /\ a.val = s1.socket
        /\ LET v == a.val IN s6' = (IF v = "connected" THEN [s6 EXCEPT !.step = "exchange"]
                      ELSE IF v \in {"initial", "connecting"} /\ s6.polls > 1
                           THEN [s6 EXCEPT !.polls = @ - 1] ELSE S!Undo)
    BY <1>3, <1>4, <1>6, <1>9
  <2>2. s6' \in S!Sessions
    BY <1>1, <1>9, <2>1 DEF S!Sessions, S!Steps, S!Settings, S!HttpsAssumption, S!Set,
           S!FirstSetting, S!AfterSetting, S!NextSetting, S!Wait
  <2>3. S!Typed'
    BY <1>1, <1>3, <1>5, <1>7, <2>2 DEF S!Typed, S!TypeOK, Lines
  <2>4. S!Forward'
    BY <1>1, <1>5, <1>9, <2>1 DEF S!IInv, S!Forward, S!Sessions, S!Settings, S!Set,
           S!FirstSetting, S!AfterSetting, S!NextSetting, S!Wait
  <2>5. S!Marked'
    BY <1>1, <1>3, <1>9, <2>1 DEF S!IInv, S!Forward, S!Marked, S!Modems, S!Sessions,
           S!Settings, S!Set, S!FirstSetting, S!AfterSetting, S!NextSetting, S!Wait
  <2>6. ~s6'.undoing
    BY <1>1, <1>9, <2>1 DEF S!Sessions, S!Set, S!AfterSetting, S!NextSetting
  <2>7. S!Backward'
    BY <2>6 DEF S!Backward
  <2>8. S!LateTrue'
    BY <2>1, LateNone
  <2> QED BY <2>3, <2>4, <2>5, <2>7, <2>8 DEF S!IInv
<1> QED BY <1>8, <1>9

\* run: the exchange ends in cleanup, whatever comes of it.
LEMMA HttpsExchange ==
    ASSUME S!HttpsAssumption, S!IInv, S!Exchange
    PROVE  S!IInv'
<1>1. /\ ~s6.undoing /\ s2 = <<>> /\ ~s5 /\ s6.step \notin {"close", "confirm", "deactivate", "restore", "end"}
      /\ S!Typed /\ s1 \in S!Modems /\ s6 \in S!Sessions /\ S!Marked
  BY DEF S!IInv, S!Typed, S!TypeOK, S!Forward, S!Backward, S!Settings, S!Exchange
<1>2. PICK done \in BOOLEAN :
        \E o \in S!Outcomes([kind |-> IF done THEN "data" ELSE "error", val |-> ""]) :
          /\ s1' = s1
          /\ s2' = o.flight /\ s5' = (s5 \/ o.mixed) /\ UNCHANGED <<s3, s4>>
          /\ s6' = (IF o.heard.kind = "data"
                    THEN S!Undo
                    ELSE S!Undo)
  BY DEF S!Exchange, S!Command, S!Same
<1> DEFINE a == [kind |-> IF done THEN "data" ELSE "error", val |-> ""]
<1>3. PICK o \in S!Outcomes(a) :
          /\ s1' = s1
          /\ s2' = o.flight /\ s5' = (s5 \/ o.mixed) /\ UNCHANGED <<s3, s4>>
          /\ s6' = (IF o.heard.kind = "data"
                    THEN S!Undo
                    ELSE S!Undo)
  BY <1>2
<1>4. /\ a \in Lines /\ a.val = ""
      /\ IF done THEN a.kind = "data" ELSE a.kind = "error"
      /\ "data" # "error" /\ S!Silence.kind # "data"
  BY <1>1 DEF Lines, S!Kinds, S!Values, S!Settings, S!Silence, S!Modems, S!Sockets
<1> HIDE DEF a
<1>5. /\ s2' \in Seq(Lines) /\ Len(s2') <= MaxFlight /\ s5' \in BOOLEAN /\ ~s5'
      /\ \A i \in DOMAIN s2' : s2'[i] = a
      /\ o.heard = S!Silence \/ (o.heard = a /\ s2' = <<>>)
  BY <1>1, <1>3, <1>4, ForwardHeard
<1>6. o.heard.kind = "data" => done /\ o.heard.val = a.val /\ s2' = <<>>
  BY <1>4, <1>5
<1>7. s1' \in S!Modems
  BY <1>1, <1>3 DEF S!Modems, S!Sockets
<1>8. CASE s6' = S!Undo
  <2>1. /\ s6'.opened = s6.opened /\ s6'.touched = s6.touched
        /\ s6'.activated = s6.activated /\ s6'.changed = s6.changed
    BY <1>1, <1>8, UndoKeeps
  <2>2. S!Marked'
    BY <1>1, <1>3, <2>1 DEF S!Marked, S!Modems, S!Settings, S!IInv, S!Forward,
           S!Exchange
  <2>3. S!LateTrue'
    BY <1>3, <1>4, <1>5, <2>1, LateOne DEF S!Settings, S!IInv, S!Forward, S!Exchange
  <2> QED BY <1>1, <1>3, <1>5, <1>7, <1>8, <2>2, <2>3, Begins
<1> QED BY <1>3, <1>8

\* A step of cleanup that gets the answer a: what the modem holds is only undone,
\* what is on its way is a or was on its way, and what a says is true.
Towards(a) ==
    /\ s1' \in S!Modems /\ s1.own \subseteq s1'.own
    /\ s1.apn = "own" => s1'.apn = "own"
    /\ s1.socket = "initial" => s1'.socket = "initial"
    /\ s1'.active => s1.active
    /\ s1'.active = s1.active \/ s6.activated
    /\ s2' \in Seq(Lines) /\ Len(s2') <= MaxFlight
    /\ \A i \in DOMAIN s2' : s2'[i] = a \/ (\E j \in DOMAIN s2 : s2'[i] = s2[j])
    /\ s5' \in BOOLEAN /\ (s5 => s5') /\ UNCHANGED <<s3, s4>>
    /\ a.kind \in S!Settings /\ a.val = "own" => a.kind \in s1'.own
    /\ a.kind = "profile" /\ a.val = "own" => s1'.apn = "own"
    /\ a.kind = "close" => s1'.socket = "initial"

\* What the session has marked is as it was, and what it has recorded still is.
Follows(t) ==
    /\ t.opened = s6.opened /\ t.touched = s6.touched
    /\ t.activated = s6.activated /\ t.changed = s6.changed
    /\ t.clean => s6.clean
    /\ s6.reset => t.reset

\* A command of cleanup may hear an answer from before; if so, the session is
\* mixed.
LEMMA BackHeard ==
    ASSUME S!HttpsAssumption, S!Typed, NEW a \in Lines, NEW o \in S!Outcomes(a),
           s2' = o.flight, s5' = (s5 \/ o.mixed)
    PROVE  /\ s2' \in Seq(Lines) /\ Len(s2') <= MaxFlight
           /\ s5' \in BOOLEAN /\ (s5 => s5')
           /\ \A i \in DOMAIN s2' : s2'[i] = a \/ (\E j \in DOMAIN s2 : s2'[i] = s2[j])
           /\ \/ o.heard = S!Silence \/ o.heard = a
              \/ \E j \in DOMAIN s2 : o.heard = s2[j]
           /\ ~s5' /\ o.heard # S!Silence => o.heard = a
<1>1. /\ o.flight \in Seq(Lines) /\ Len(o.flight) <= MaxFlight /\ o.mixed \in BOOLEAN
      /\ \A i \in 1 .. Len(o.flight) :
            o.flight[i] = a \/ (\E j \in 1 .. Len(s2) : o.flight[i] = s2[j])
      /\ \/ o.heard = S!Silence \/ o.heard = a
         \/ \E j \in 1 .. Len(s2) : o.heard = s2[j]
      /\ o.heard # S!Silence /\ ~o.mixed => o.heard = a
  BY OutcomeSound
<1>2. DOMAIN o.flight = 1 .. Len(o.flight) /\ DOMAIN s2 = 1 .. Len(s2)
  BY <1>1 DEF S!Typed
<1>3. s5 \in BOOLEAN /\ o.mixed \in BOOLEAN
  BY <1>1 DEF S!Typed, S!TypeOK
<1>4. s5' \in BOOLEAN /\ (s5 => s5') /\ (~s5' => ~o.mixed)
  BY <1>3
<1> QED BY <1>1, <1>2, <1>4

\* Undoing changes nothing that is not marked.
LEMMA MarkedStays ==
    ASSUME S!Marked, NEW a, Towards(a), Follows(s6')
    PROVE  S!Marked'
  BY DEF S!Marked, Towards, Follows

LEMMA LateFollows ==
    ASSUME S!LateTrue, NEW a, Towards(a), Follows(s6'), s6'.step # "close"
    PROVE  S!LateTrue'
  BY LateStays DEF Towards, Follows

LEMMA UndoneFollows ==
    ASSUME S!Backward, s6.undoing, NEW a, Towards(a), Follows(s6')
    PROVE  \A i \in 1 .. S!Place(s6.step) - 1 : i \in 1 .. 6 => S!Undone(S!UndoOrder[i])'
<1> SUFFICES ASSUME NEW i \in 1 .. S!Place(s6.step) - 1, i \in 1 .. 6
             PROVE  S!Undone(S!UndoOrder[i])'
  OBVIOUS
<1>1. S!Undone(S!UndoOrder[i])
  BY DEF S!Backward
<1> QED BY <1>1, UndoneStays DEF Towards, Follows

\* cleanup goes on behind the k-th step, once that is undone or told.
LEMMA GoesOn ==
    ASSUME S!HttpsAssumption, S!IInv, s6.undoing, NEW a, Towards(a),
           NEW k \in 1 .. 6, S!Place(s6.step) = k,
           NEW t \in S!Sessions, Follows(t), s6' = S!UndoFrom(t, k + 1),
           Follows(s6') /\ s6'.clean = t.clean /\ s6'.reset = t.reset /\ s6'.opened = t.opened
             => S!Undone(S!UndoOrder[k])'
    PROVE  S!IInv'
<1>1. PICK n \in 1 .. 7 : n = k + 1
  OBVIOUS
<1> DEFINE u == S!UndoFrom(t, n)
<1>2. /\ u = [t EXCEPT !.undoing = TRUE, !.check = FALSE, !.step = u.step]
      /\ u.step = "end" \/ (\E j \in n .. 6 : u.step = S!UndoOrder[j])
  <2>1. /\ u = [t EXCEPT !.undoing = TRUE, !.check = FALSE, !.step = u.step]
        /\ \/ u.step = "end" /\ \A i \in n .. 6 : ~S!Needed(t, S!UndoOrder[i])
           \/ \E j \in n .. 6 : /\ u.step = S!UndoOrder[j] /\ S!Needed(t, S!UndoOrder[j])
                                /\ \A i \in n .. (j - 1) : ~S!Needed(t, S!UndoOrder[i])
    BY ZenonT(60), UndoReaches
  <2> HIDE DEF u
  <2> QED BY <2>1
<1>3. u.step # "close"
  <2>1. \A j \in 2 .. 6 : S!UndoOrder[j] # "close"
    BY OrderIs
  <2>2. n .. 6 \subseteq 2 .. 6
    BY <1>1
  <2> HIDE DEF u
  <2> QED BY <1>2, <2>1, <2>2
<1> HIDE DEF u
<1>4. s6' = u
  BY <1>1 DEF u
<1>5. /\ s6'.clean = t.clean /\ s6'.reset = t.reset /\ s6'.opened = t.opened
      /\ s6'.touched = t.touched /\ s6'.activated = t.activated /\ s6'.changed = t.changed
  BY ZenonT(60), <1>2, <1>4 DEF S!Sessions
<1>6. Follows(s6')
  BY <1>5 DEF Follows
<1>7. S!Marked' /\ S!LateTrue'
  BY <1>3, <1>4, <1>6, MarkedStays, LateFollows DEF S!IInv
<1>8. \A i \in 1 .. (k + 1) - 1 : S!Undone(S!UndoOrder[i])'
  <2> SUFFICES ASSUME NEW i \in 1 .. k
               PROVE  S!Undone(S!UndoOrder[i])'
    OBVIOUS
  <2>1. CASE i = k
    BY <1>5, <1>6, <2>1
  <2>2. CASE i # k
    <3>1. i \in 1 .. S!Place(s6.step) - 1 /\ i \in 1 .. 6
      BY <2>2
    <3> QED BY <1>6, <3>1, UndoneFollows DEF S!IInv
  <2> QED BY <2>1, <2>2
<1> QED BY <1>1, <1>7, <1>8, Undoes DEF S!IInv, Towards

\* cleanup stays at its step, to read back what it has set.
LEMMA Stays ==
    ASSUME S!HttpsAssumption, S!IInv, s6.undoing, NEW a, Towards(a),
           NEW k \in 1 .. 6, S!Place(s6.step) = k,
           s6' \in S!Sessions, Follows(s6'), s6'.undoing, s6'.step = s6.step, s6.step # "close"
    PROVE  S!IInv'
<1>1. S!Marked' /\ S!LateTrue'
  BY MarkedStays, LateFollows DEF S!IInv
<1>2. \A i \in 1 .. S!Place(s6'.step) - 1 : S!Undone(S!UndoOrder[i])'
  <2>1. S!Place(s6'.step) = k
    OBVIOUS
  <2> SUFFICES ASSUME NEW i \in 1 .. k - 1
               PROVE  S!Undone(S!UndoOrder[i])'
    BY <2>1
  <2>2. i \in 1 .. S!Place(s6.step) - 1 /\ i \in 1 .. 6
    OBVIOUS
  <2> QED BY <2>2, UndoneFollows DEF S!IInv
<1>3. S!Backward'
  BY <1>2 DEF S!IInv, S!Backward, Towards, Follows
<1>4. S!Forward'
  BY DEF S!Forward
<1>5. S!Typed'
  BY DEF S!IInv, S!Typed, S!TypeOK, Towards, Lines
<1> QED BY <1>1, <1>3, <1>4, <1>5 DEF S!IInv

\* cleanup asks for the state of the socket it has closed.
LEMMA Confirms ==
    ASSUME S!HttpsAssumption, S!IInv, s6.undoing, NEW a, Towards(a), s6.step = "close",
           s6' = [s6 EXCEPT !.step = "confirm"], s1'.socket = "initial"
    PROVE  S!IInv'
<1>1. s6' \in S!Sessions /\ Follows(s6') /\ s6'.step = "confirm" /\ s6'.undoing
      /\ s6'.opened = s6.opened
  BY DEF S!IInv, S!Typed, S!TypeOK, S!Sessions, S!Steps, Follows
<1>2. S!Marked' /\ S!LateTrue'
  BY <1>1, MarkedStays, LateFollows DEF S!IInv
<1>3. \A i \in 1 .. S!Place(s6'.step) - 1 : S!Undone(S!UndoOrder[i])'
  <2>1. S!Place(s6'.step) - 1 = 0
    BY <1>1, PlaceIs
  <2> QED BY <2>1
<1>4. S!Backward'
  BY <1>1, <1>3 DEF S!IInv, S!Backward
<1>5. S!Forward'
  BY <1>1 DEF S!Forward
<1>6. S!Typed'
  BY <1>1 DEF S!IInv, S!Typed, S!TypeOK, Towards, Lines
<1> QED BY <1>2, <1>4, <1>5, <1>6 DEF S!IInv

\* record_cleanup_failure.
LEMMA UncleanIs ==
    ASSUME NEW t \in S!Sessions, NEW reset \in BOOLEAN, NEW u, u = S!Unclean(t, reset)
    PROVE  /\ u \in S!Sessions /\ u.step = t.step /\ ~u.clean /\ (t.reset => u.reset)
           /\ (reset => u.reset)
           /\ u.opened = t.opened /\ u.touched = t.touched
           /\ u.activated = t.activated /\ u.changed = t.changed
<1>1. CASE reset
  <2>1. (t.reset \/ reset) = TRUE
    BY <1>1
  <2>2. u = [t EXCEPT !.clean = FALSE, !.reset = TRUE]
    BY <2>1 DEF S!Unclean, S!Sessions
  <2> QED BY <2>2 DEF S!Sessions
<1>2. CASE ~reset
  <2>1. (t.reset \/ reset) = t.reset
    BY <1>2 DEF S!Sessions
  <2>2. u = [t EXCEPT !.clean = FALSE, !.reset = t.reset]
    BY <2>1 DEF S!Unclean
  <2> QED BY <1>2, <2>2 DEF S!Sessions
<1> QED BY <1>1, <1>2

\* The k-th step is undone, and cleanup goes on.
LEMMA Passes ==
    ASSUME S!HttpsAssumption, S!IInv, s6.undoing, NEW a, Towards(a),
           NEW k \in 1 .. 6, S!Place(s6.step) = k,
           NEW t \in S!Sessions, Follows(t), t.step = S!UndoOrder[k], s6' = S!UndoNext(t),
           s6'.clean = t.clean /\ s6'.opened = t.opened => S!Undone(S!UndoOrder[k])'
    PROVE  S!IInv'
<1>1. s6' = S!UndoFrom(t, k + 1)
  BY NextIs
<1> QED BY <1>1, GoesOn

\* The k-th step failed, which is recorded, and cleanup goes on.
LEMMA GivesUp ==
    ASSUME S!HttpsAssumption, S!IInv, s6.undoing, NEW a, Towards(a),
           NEW k \in 1 .. 6, S!Place(s6.step) = k,
           NEW t \in S!Sessions, Follows(t), t.step = S!UndoOrder[k],
           NEW reset \in BOOLEAN, k = 1 => reset, s6' = S!UndoNext(S!Unclean(t, reset))
    PROVE  S!IInv'
<1> DEFINE u == S!Unclean(t, reset)
<1>1. /\ u \in S!Sessions /\ u.step = t.step /\ ~u.clean /\ (t.reset => u.reset)
      /\ (reset => u.reset)
      /\ u.opened = t.opened /\ u.touched = t.touched
      /\ u.activated = t.activated /\ u.changed = t.changed
  BY ZenonT(60), UncleanIs
<1> HIDE DEF u
<1>2. Follows(u)
  BY <1>1 DEF Follows
<1>3. s6' = S!UndoFrom(u, k + 1)
  BY <1>1, NextIs DEF u
<1>4. s6'.clean = u.clean /\ s6'.reset = u.reset => S!Undone(S!UndoOrder[k])'
  <2> SUFFICES ASSUME ~s6'.clean, reset => s6'.reset
               PROVE  S!Undone(S!UndoOrder[k])'
    BY <1>1
  <2>1. CASE k = 1
    BY <2>1, OrderIs DEF S!Undone, S!Settings
  <2>2. CASE k \in {2, 3, 4}
    <3>1. /\ S!UndoOrder[k] \in S!Settings
          /\ S!UndoOrder[k] \notin {"close", "deactivate", "restore"}
      BY <2>2, OrderIs DEF S!Settings
    <3> QED BY <3>1 DEF S!Undone
  <2>3. CASE k \in {5, 6}
    BY <2>3, OrderIs DEF S!Undone, S!Settings
  <2> QED BY <2>1, <2>2, <2>3
<1> QED BY <1>1, <1>2, <1>3, <1>4, GoesOn

\* cleanup: no answer to an earlier close is on its way, so the one heard is
\* this one's.
LEMMA HttpsClose ==
    ASSUME S!HttpsAssumption, S!IInv, S!Close
    PROVE  S!IInv'
<1>1. /\ s6.undoing /\ s6.step = "close" /\ s6.opened
      /\ S!Typed /\ s1 \in S!Modems /\ s6 \in S!Sessions
  BY DEF S!IInv, S!Typed, S!TypeOK, S!Forward, S!Backward, S!Settings, S!Close
<1>2. 1 \in 1 .. 6 /\ S!Place(s6.step) = 1 /\ s6.step = S!UndoOrder[1] /\ Follows(s6)
  BY <1>1, OrderIs, PlaceIs DEF Follows
<1>3. PICK v0 \in S!CloseAnswers, done \in BOOLEAN :
        \E o \in S!Outcomes([kind |-> IF done THEN "close" ELSE "error", val |-> v0]) :
          /\ s1' = (IF done THEN [s1 EXCEPT !.socket = "initial"] ELSE s1)
          /\ s2' = o.flight /\ s5' = (s5 \/ o.mixed) /\ UNCHANGED <<s3, s4>>
          /\ s6' = (IF o.heard.kind = "close"
                    THEN IF o.heard.val = "short" THEN [s6 EXCEPT !.step = "confirm"]
                      ELSE S!UndoNext(s6)
                    ELSE S!UndoNext(S!Unclean(s6, TRUE)))
  BY DEF S!Close, S!Command
<1> DEFINE a == [kind |-> IF done THEN "close" ELSE "error", val |-> v0]
<1>4. PICK o \in S!Outcomes(a) :
          /\ s1' = (IF done THEN [s1 EXCEPT !.socket = "initial"] ELSE s1)
          /\ s2' = o.flight /\ s5' = (s5 \/ o.mixed) /\ UNCHANGED <<s3, s4>>
          /\ s6' = (IF o.heard.kind = "close"
                    THEN IF o.heard.val = "short" THEN [s6 EXCEPT !.step = "confirm"]
                      ELSE S!UndoNext(s6)
                    ELSE S!UndoNext(S!Unclean(s6, TRUE)))
  BY <1>3
<1>5. /\ a \in Lines /\ a.val = v0
      /\ IF done THEN a.kind = "close" ELSE a.kind = "error"
      /\ "close" # "error" /\ S!Silence.kind # "close"
  BY <1>1 DEF Lines, S!Kinds, S!Values, S!Settings, S!Silence, S!Modems, S!Sockets,
         S!CloseAnswers
<1> HIDE DEF a
<1>6. /\ s2' \in Seq(Lines) /\ Len(s2') <= MaxFlight /\ s5' \in BOOLEAN /\ (s5 => s5')
      /\ \A i \in DOMAIN s2' : s2'[i] = a \/ (\E j \in DOMAIN s2 : s2'[i] = s2[j])
      /\ \/ o.heard = S!Silence \/ o.heard = a
         \/ \E j \in DOMAIN s2 : o.heard = s2[j]
      /\ ~s5' /\ o.heard # S!Silence => o.heard = a
  BY <1>1, <1>4, <1>5, BackHeard
<1>7. Towards(a)
  <2>1. /\ s1' \in S!Modems /\ s1.own \subseteq s1'.own
        /\ s1.apn = "own" => s1'.apn = "own"
        /\ s1.socket = "initial" => s1'.socket = "initial"
        /\ s1'.active => s1.active
        /\ s1'.active = s1.active \/ s6.activated
    BY <1>1, <1>4 DEF S!Modems, S!Sockets
  <2>2. /\ a.kind \in S!Settings /\ a.val = "own" => a.kind \in s1'.own
        /\ a.kind = "profile" /\ a.val = "own" => s1'.apn = "own"
        /\ a.kind = "close" => s1'.socket = "initial"
    BY <1>1, <1>4, <1>5 DEF S!Settings, S!Modems
  <2> QED BY <1>4, <1>6, <2>1, <2>2 DEF Towards
<1>9. CASE s6' = S!UndoNext(S!Unclean(s6, TRUE))
  <2>1. TRUE \in BOOLEAN /\ (1 = 1 => TRUE)
    BY <1>2
  <2> QED BY <1>1, <1>2, <1>7, <1>9, <2>1, GivesUp
<1>10. CASE o.heard.kind = "close" /\ s6' = S!UndoNext(s6)
  <2>1. o.heard.kind = "close" /\ s6' = S!UndoNext(s6)
    BY <1>10
  <2>2. o.heard = a /\ done
    <3>1. ASSUME NEW j \in DOMAIN s2, o.heard = s2[j]
          PROVE  FALSE
      BY <1>1, <2>1, <3>1 DEF S!IInv, S!LateTrue
    <3> QED BY <1>5, <1>6, <2>1, <3>1
  <2>3. s1'.socket = "initial"
    BY <1>1, <1>4, <2>2 DEF S!Modems
  <2>4. S!Undone(S!UndoOrder[1])'
    BY <2>3, OrderIs DEF S!Undone, S!Settings
  <2> QED BY <1>1, <1>2, <1>7, <2>1, <2>4, Passes
<1>11. CASE o.heard.kind = "close" /\ s6' = [s6 EXCEPT !.step = "confirm"]
  <2>1. o.heard = a /\ done
    <3>1. ASSUME NEW j \in DOMAIN s2, o.heard = s2[j]
          PROVE  FALSE
      BY <1>1, <1>11, <3>1 DEF S!IInv, S!LateTrue
    <3> QED BY <1>5, <1>6, <1>11, <3>1
  <2>2. s1'.socket = "initial"
    BY <1>1, <1>4, <2>1 DEF S!Modems
  <2> QED BY <1>1, <1>7, <1>11, <2>2, Confirms
<1> QED BY <1>4, <1>9, <1>10, <1>11

\* confirm_cleanup_close_state: the socket is closed already.
LEMMA HttpsConfirmClosed ==
    ASSUME S!HttpsAssumption, S!IInv, S!ConfirmClosed
    PROVE  S!IInv'
<1>1. /\ s6.undoing /\ s6.step = "confirm" /\ s1.socket = "initial"
      /\ S!Typed /\ s1 \in S!Modems /\ s6 \in S!Sessions
  BY DEF S!IInv, S!Typed, S!TypeOK, S!Forward, S!Backward, S!Settings, S!ConfirmClosed
<1> DEFINE t == [s6 EXCEPT !.step = "close"]
<1>2. 1 \in 1 .. 6 /\ S!Place(s6.step) = 1 /\ t.step = S!UndoOrder[1] /\ t \in S!Sessions
      /\ Follows(t) /\ t.opened = s6.opened
  BY <1>1, OrderIs, PlaceIs DEF S!Sessions, S!Steps, Follows
<1>3. PICK done \in BOOLEAN :
        \E o \in S!Outcomes([kind |-> IF done THEN "state" ELSE "error", val |-> s1.socket]) :
          /\ s1' = s1
          /\ s2' = o.flight /\ s5' = (s5 \/ o.mixed) /\ UNCHANGED <<s3, s4>>
          /\ s6' = (IF o.heard.kind = "state"
                    THEN IF o.heard.val = "initial" THEN S!UndoNext(t)
                      ELSE S!UndoNext(S!Unclean(t, TRUE))
                    ELSE S!UndoNext(S!Unclean(t, TRUE)))
  BY DEF S!ConfirmClosed, S!Command, S!Socket
<1> DEFINE a == [kind |-> IF done THEN "state" ELSE "error", val |-> s1.socket]
<1>4. PICK o \in S!Outcomes(a) :
          /\ s1' = s1
          /\ s2' = o.flight /\ s5' = (s5 \/ o.mixed) /\ UNCHANGED <<s3, s4>>
          /\ s6' = (IF o.heard.kind = "state"
                    THEN IF o.heard.val = "initial" THEN S!UndoNext(t)
                      ELSE S!UndoNext(S!Unclean(t, TRUE))
                    ELSE S!UndoNext(S!Unclean(t, TRUE)))
  BY <1>3
<1>5. /\ a \in Lines /\ a.val = s1.socket
      /\ IF done THEN a.kind = "state" ELSE a.kind = "error"
      /\ "state" # "error" /\ S!Silence.kind # "state"
  BY <1>1 DEF Lines, S!Kinds, S!Values, S!Settings, S!Silence, S!Modems, S!Sockets,
         S!CloseAnswers
<1> HIDE DEF a
<1>6. /\ s2' \in Seq(Lines) /\ Len(s2') <= MaxFlight /\ s5' \in BOOLEAN /\ (s5 => s5')
      /\ \A i \in DOMAIN s2' : s2'[i] = a \/ (\E j \in DOMAIN s2 : s2'[i] = s2[j])
      /\ \/ o.heard = S!Silence \/ o.heard = a
         \/ \E j \in DOMAIN s2 : o.heard = s2[j]
      /\ ~s5' /\ o.heard # S!Silence => o.heard = a
  BY <1>1, <1>4, <1>5, BackHeard
<1>7. Towards(a)
  <2>1. /\ s1' \in S!Modems /\ s1.own \subseteq s1'.own
        /\ s1.apn = "own" => s1'.apn = "own"
        /\ s1.socket = "initial" => s1'.socket = "initial"
        /\ s1'.active => s1.active
        /\ s1'.active = s1.active \/ s6.activated
    BY <1>1, <1>4 DEF S!Modems, S!Sockets
  <2>2. /\ a.kind \in S!Settings /\ a.val = "own" => a.kind \in s1'.own
        /\ a.kind = "profile" /\ a.val = "own" => s1'.apn = "own"
        /\ a.kind = "close" => s1'.socket = "initial"
    BY <1>1, <1>4, <1>5 DEF S!Settings, S!Modems
  <2> QED BY <1>4, <1>6, <2>1, <2>2 DEF Towards
<1>9. CASE s6' = S!UndoNext(S!Unclean(t, TRUE))
  <2>1. TRUE \in BOOLEAN /\ (1 = 1 => TRUE)
    BY <1>2
  <2> QED BY <1>1, <1>2, <1>7, <1>9, <2>1, GivesUp
<1>10. CASE o.heard.kind = "state" /\ s6' = S!UndoNext(t)
  <2>1. o.heard.kind = "state" /\ s6' = S!UndoNext(t)
    BY <1>10
  <2>4. S!Undone(S!UndoOrder[1])'
    BY <1>1, <1>4, OrderIs DEF S!Undone, S!Settings
  <2> QED BY <1>1, <1>2, <1>7, <2>1, <2>4, Passes
<1> QED BY <1>4, <1>9, <1>10

\* restore_config: set back.
LEMMA HttpsRestoreSetting ==
    ASSUME S!HttpsAssumption, S!IInv, S!RestoreSetting
    PROVE  S!IInv'
<1>1. /\ s6.undoing /\ s6.step \in S!Settings
      /\ S!Typed /\ s1 \in S!Modems /\ s6 \in S!Sessions
  BY DEF S!IInv, S!Typed, S!TypeOK, S!Forward, S!Backward, S!Settings, S!RestoreSetting
<1>2. PICK k \in 2 .. 4 : S!Place(s6.step) = k /\ s6.step = S!UndoOrder[k] /\ Follows(s6)
  <2>1. \E k \in 2 .. 4 : s6.step = S!UndoOrder[k]
    BY <1>1, OrderIs DEF S!Settings
  <2> QED BY <2>1, PlaceIs DEF Follows
<1>3. PICK done \in BOOLEAN :
        \E o \in S!Outcomes([kind |-> IF done THEN "bare" ELSE "error", val |-> ""]) :
          /\ s1' = (IF done THEN [s1 EXCEPT !.own = @ \cup {s6.step}] ELSE s1)
          /\ s2' = o.flight /\ s5' = (s5 \/ o.mixed) /\ UNCHANGED <<s3, s4>>
          /\ s6' = (IF o.heard.kind = "bare"
                    THEN [s6 EXCEPT !.check = TRUE]
                    ELSE S!UndoNext(S!Unclean(s6, FALSE)))
  BY DEF S!RestoreSetting, S!Command, S!Same
<1> DEFINE a == [kind |-> IF done THEN "bare" ELSE "error", val |-> ""]
<1>4. PICK o \in S!Outcomes(a) :
          /\ s1' = (IF done THEN [s1 EXCEPT !.own = @ \cup {s6.step}] ELSE s1)
          /\ s2' = o.flight /\ s5' = (s5 \/ o.mixed) /\ UNCHANGED <<s3, s4>>
          /\ s6' = (IF o.heard.kind = "bare"
                    THEN [s6 EXCEPT !.check = TRUE]
                    ELSE S!UndoNext(S!Unclean(s6, FALSE)))
  BY <1>3
<1>5. /\ a \in Lines /\ a.val = ""
      /\ IF done THEN a.kind = "bare" ELSE a.kind = "error"
      /\ "bare" # "error" /\ S!Silence.kind # "bare"
  BY <1>1 DEF Lines, S!Kinds, S!Values, S!Settings, S!Silence, S!Modems, S!Sockets,
         S!CloseAnswers
<1> HIDE DEF a
<1>6. /\ s2' \in Seq(Lines) /\ Len(s2') <= MaxFlight /\ s5' \in BOOLEAN /\ (s5 => s5')
      /\ \A i \in DOMAIN s2' : s2'[i] = a \/ (\E j \in DOMAIN s2 : s2'[i] = s2[j])
      /\ \/ o.heard = S!Silence \/ o.heard = a
         \/ \E j \in DOMAIN s2 : o.heard = s2[j]
      /\ ~s5' /\ o.heard # S!Silence => o.heard = a
  BY <1>1, <1>4, <1>5, BackHeard
<1>7. Towards(a)
  <2>1. /\ s1' \in S!Modems /\ s1.own \subseteq s1'.own
        /\ s1.apn = "own" => s1'.apn = "own"
        /\ s1.socket = "initial" => s1'.socket = "initial"
        /\ s1'.active => s1.active
        /\ s1'.active = s1.active \/ s6.activated
    BY <1>1, <1>4 DEF S!Modems, S!Sockets
  <2>2. /\ a.kind \in S!Settings /\ a.val = "own" => a.kind \in s1'.own
        /\ a.kind = "profile" /\ a.val = "own" => s1'.apn = "own"
        /\ a.kind = "close" => s1'.socket = "initial"
    BY <1>1, <1>4, <1>5 DEF S!Settings, S!Modems
  <2> QED BY <1>4, <1>6, <2>1, <2>2 DEF Towards
<1>8. k \in 1 .. 6 /\ k # 1
  OBVIOUS
<1>9. CASE s6' = S!UndoNext(S!Unclean(s6, FALSE))
  <2>1. FALSE \in BOOLEAN /\ (k = 1 => FALSE)
    BY <1>2, <1>8
  <2> QED BY <1>1, <1>2, <1>7, <1>8, <1>9, <2>1, GivesUp
<1>10. CASE s6' = [s6 EXCEPT !.check = TRUE]
  <2>1. s6' \in S!Sessions /\ Follows(s6') /\ s6'.undoing /\ s6'.step = s6.step /\ s6.step # "close"
    BY <1>1, <1>10 DEF S!Sessions, S!Settings, Follows
  <2> QED BY <1>1, <1>2, <1>7, <1>8, <2>1, Stays
<1> QED BY <1>4, <1>9, <1>10

\* restore_config: read back; an earlier answer that says the same is as true.
LEMMA HttpsCheckRestored ==
    ASSUME S!HttpsAssumption, S!IInv, S!CheckRestored
    PROVE  S!IInv'
<1>1. /\ s6.undoing /\ s6.step \in S!Settings
      /\ S!Typed /\ s1 \in S!Modems /\ s6 \in S!Sessions
  BY DEF S!IInv, S!Typed, S!TypeOK, S!Forward, S!Backward, S!Settings, S!CheckRestored
<1>2. PICK k \in 2 .. 4 : S!Place(s6.step) = k /\ s6.step = S!UndoOrder[k] /\ Follows(s6)
  <2>1. \E k \in 2 .. 4 : s6.step = S!UndoOrder[k]
    BY <1>1, OrderIs DEF S!Settings
  <2> QED BY <2>1, PlaceIs DEF Follows
<1>3. PICK done \in BOOLEAN :
        \E o \in S!Outcomes([kind |-> IF done THEN s6.step ELSE "error", val |-> IF s6.step \in s1.own THEN "own" ELSE "set"]) :
          /\ s1' = s1
          /\ s2' = o.flight /\ s5' = (s5 \/ o.mixed) /\ UNCHANGED <<s3, s4>>
          /\ s6' = (IF o.heard.kind = s6.step
                    THEN IF o.heard.val = "own" THEN S!UndoNext(s6)
                      ELSE S!UndoNext(S!Unclean(s6, FALSE))
                    ELSE S!UndoNext(S!Unclean(s6, FALSE)))
  BY DEF S!CheckRestored, S!Command, S!Value
<1> DEFINE a == [kind |-> IF done THEN s6.step ELSE "error", val |-> IF s6.step \in s1.own THEN "own" ELSE "set"]
<1>4. PICK o \in S!Outcomes(a) :
          /\ s1' = s1
          /\ s2' = o.flight /\ s5' = (s5 \/ o.mixed) /\ UNCHANGED <<s3, s4>>
          /\ s6' = (IF o.heard.kind = s6.step
                    THEN IF o.heard.val = "own" THEN S!UndoNext(s6)
                      ELSE S!UndoNext(S!Unclean(s6, FALSE))
                    ELSE S!UndoNext(S!Unclean(s6, FALSE)))
  BY <1>3
<1>5. /\ a \in Lines /\ a.val = (IF s6.step \in s1.own THEN "own" ELSE "set")
      /\ IF done THEN a.kind = s6.step ELSE a.kind = "error"
      /\ s6.step # "error" /\ S!Silence.kind # s6.step
  BY <1>1 DEF Lines, S!Kinds, S!Values, S!Settings, S!Silence, S!Modems, S!Sockets,
         S!CloseAnswers
<1> HIDE DEF a
<1>6. /\ s2' \in Seq(Lines) /\ Len(s2') <= MaxFlight /\ s5' \in BOOLEAN /\ (s5 => s5')
      /\ \A i \in DOMAIN s2' : s2'[i] = a \/ (\E j \in DOMAIN s2 : s2'[i] = s2[j])
      /\ \/ o.heard = S!Silence \/ o.heard = a
         \/ \E j \in DOMAIN s2 : o.heard = s2[j]
      /\ ~s5' /\ o.heard # S!Silence => o.heard = a
  BY <1>1, <1>4, <1>5, BackHeard
<1>7. Towards(a)
  <2>1. /\ s1' \in S!Modems /\ s1.own \subseteq s1'.own
        /\ s1.apn = "own" => s1'.apn = "own"
        /\ s1.socket = "initial" => s1'.socket = "initial"
        /\ s1'.active => s1.active
        /\ s1'.active = s1.active \/ s6.activated
    BY <1>1, <1>4 DEF S!Modems, S!Sockets
  <2>2. /\ a.kind \in S!Settings /\ a.val = "own" => a.kind \in s1'.own
        /\ a.kind = "profile" /\ a.val = "own" => s1'.apn = "own"
        /\ a.kind = "close" => s1'.socket = "initial"
    BY <1>1, <1>4, <1>5 DEF S!Settings, S!Modems
  <2> QED BY <1>4, <1>6, <2>1, <2>2 DEF Towards
<1>8. k \in 1 .. 6 /\ k # 1
  OBVIOUS
<1>9. CASE s6' = S!UndoNext(S!Unclean(s6, FALSE))
  <2>1. FALSE \in BOOLEAN /\ (k = 1 => FALSE)
    BY <1>2, <1>8
  <2> QED BY <1>1, <1>2, <1>7, <1>8, <1>9, <2>1, GivesUp
<1>10. CASE o.heard.kind = s6.step /\ o.heard.val = "own" /\ s6' = S!UndoNext(s6)
  <2>1. o.heard.kind = s6.step /\ o.heard.val = "own" /\ s6' = S!UndoNext(s6)
    BY <1>10
  <2>2. s6.step \in s1.own
    <3>1. ASSUME NEW j \in DOMAIN s2, o.heard = s2[j]
          PROVE  s6.step \in s1.own
      BY <1>1, <2>1, <3>1 DEF S!IInv, S!LateTrue
    <3>2. CASE o.heard = a
      BY <1>5, <2>1, <3>2
    <3> QED BY <1>5, <1>6, <2>1, <3>1, <3>2
  <2>3. S!UndoOrder[k] \in S!Settings /\ S!UndoOrder[k] \notin {"close", "deactivate", "restore"}
    BY <1>1, <1>2 DEF S!Settings
  <2>4. S!Undone(S!UndoOrder[k])'
    BY <1>2, <1>4, <2>2, <2>3 DEF S!Undone
  <2> QED BY <1>1, <1>2, <1>7, <1>8, <2>1, <2>4, Passes
<1> QED BY <1>4, <1>9, <1>10

\* cleanup: the PDP is down if the OK was that of this command.
LEMMA HttpsDeactivate ==
    ASSUME S!HttpsAssumption, S!IInv, S!Deactivate
    PROVE  S!IInv'
<1>1. /\ s6.undoing /\ s6.step = "deactivate" /\ s6.activated
      /\ S!Typed /\ s1 \in S!Modems /\ s6 \in S!Sessions
  BY DEF S!IInv, S!Typed, S!TypeOK, S!Forward, S!Backward, S!Settings, S!Deactivate
<1>2. 5 \in 1 .. 6 /\ S!Place(s6.step) = 5 /\ s6.step = S!UndoOrder[5] /\ Follows(s6)
  BY <1>1, OrderIs, PlaceIs DEF Follows
<1>3. PICK done \in BOOLEAN :
        \E o \in S!Outcomes([kind |-> IF done THEN "bare" ELSE "error", val |-> ""]) :
          /\ s1' = (IF done THEN [s1 EXCEPT !.active = FALSE] ELSE s1)
          /\ s2' = o.flight /\ s5' = (s5 \/ o.mixed) /\ UNCHANGED <<s3, s4>>
          /\ s6' = (IF o.heard.kind = "bare"
                    THEN S!UndoNext(s6)
                    ELSE S!UndoNext(S!Unclean(s6, FALSE)))
  BY DEF S!Deactivate, S!Command, S!Same
<1> DEFINE a == [kind |-> IF done THEN "bare" ELSE "error", val |-> ""]
<1>4. PICK o \in S!Outcomes(a) :
          /\ s1' = (IF done THEN [s1 EXCEPT !.active = FALSE] ELSE s1)
          /\ s2' = o.flight /\ s5' = (s5 \/ o.mixed) /\ UNCHANGED <<s3, s4>>
          /\ s6' = (IF o.heard.kind = "bare"
                    THEN S!UndoNext(s6)
                    ELSE S!UndoNext(S!Unclean(s6, FALSE)))
  BY <1>3
<1>5. /\ a \in Lines /\ a.val = ""
      /\ IF done THEN a.kind = "bare" ELSE a.kind = "error"
      /\ "bare" # "error" /\ S!Silence.kind # "bare"
  BY <1>1 DEF Lines, S!Kinds, S!Values, S!Settings, S!Silence, S!Modems, S!Sockets,
         S!CloseAnswers
<1> HIDE DEF a
<1>6. /\ s2' \in Seq(Lines) /\ Len(s2') <= MaxFlight /\ s5' \in BOOLEAN /\ (s5 => s5')
      /\ \A i \in DOMAIN s2' : s2'[i] = a \/ (\E j \in DOMAIN s2 : s2'[i] = s2[j])
      /\ \/ o.heard = S!Silence \/ o.heard = a
         \/ \E j \in DOMAIN s2 : o.heard = s2[j]
      /\ ~s5' /\ o.heard # S!Silence => o.heard = a
  BY <1>1, <1>4, <1>5, BackHeard
<1>7. Towards(a)
  <2>1. /\ s1' \in S!Modems /\ s1.own \subseteq s1'.own
        /\ s1.apn = "own" => s1'.apn = "own"
        /\ s1.socket = "initial" => s1'.socket = "initial"
        /\ s1'.active => s1.active
        /\ s1'.active = s1.active \/ s6.activated
    BY <1>1, <1>4 DEF S!Modems, S!Sockets
  <2>2. /\ a.kind \in S!Settings /\ a.val = "own" => a.kind \in s1'.own
        /\ a.kind = "profile" /\ a.val = "own" => s1'.apn = "own"
        /\ a.kind = "close" => s1'.socket = "initial"
    BY <1>1, <1>4, <1>5 DEF S!Settings, S!Modems
  <2> QED BY <1>4, <1>6, <2>1, <2>2 DEF Towards
<1>9. CASE s6' = S!UndoNext(S!Unclean(s6, FALSE))
  <2>1. FALSE \in BOOLEAN /\ (5 = 1 => FALSE)
    BY <1>2
  <2> QED BY <1>1, <1>2, <1>7, <1>9, <2>1, GivesUp
<1>10. CASE o.heard.kind = "bare" /\ s6' = S!UndoNext(s6)
  <2>1. o.heard.kind = "bare" /\ s6' = S!UndoNext(s6)
    BY <1>10
  <2>2. ~s5' => ~s1'.active
    <3>1. CASE ~s5'
      <4>1. o.heard = a /\ done
        BY <1>5, <1>6, <2>1, <3>1
      <4> QED BY <1>1, <1>4, <4>1 DEF S!Modems
    <3> QED BY <3>1
  <2>4. S!Undone(S!UndoOrder[5])'
    BY <2>2, OrderIs DEF S!Undone, S!Settings
  <2> QED BY <1>1, <1>2, <1>7, <2>1, <2>4, Passes
<1> QED BY <1>4, <1>9, <1>10

\* restore_cgdccont: written back.
LEMMA HttpsRestoreProfile ==
    ASSUME S!HttpsAssumption, S!IInv, S!RestoreProfile
    PROVE  S!IInv'
<1>1. /\ s6.undoing /\ s6.step = "restore"
      /\ S!Typed /\ s1 \in S!Modems /\ s6 \in S!Sessions
  BY DEF S!IInv, S!Typed, S!TypeOK, S!Forward, S!Backward, S!Settings, S!RestoreProfile
<1>2. 6 \in 1 .. 6 /\ S!Place(s6.step) = 6 /\ s6.step = S!UndoOrder[6] /\ Follows(s6)
  BY <1>1, OrderIs, PlaceIs DEF Follows
<1>3. PICK done \in BOOLEAN :
        \E o \in S!Outcomes([kind |-> IF done THEN "bare" ELSE "error", val |-> ""]) :
          /\ s1' = (IF done THEN [s1 EXCEPT !.apn = "own"] ELSE s1)
          /\ s2' = o.flight /\ s5' = (s5 \/ o.mixed) /\ UNCHANGED <<s3, s4>>
          /\ s6' = (IF o.heard.kind = "bare"
                    THEN [s6 EXCEPT !.check = TRUE]
                    ELSE S!UndoNext(S!Unclean(s6, FALSE)))
  BY DEF S!RestoreProfile, S!Command, S!Same
<1> DEFINE a == [kind |-> IF done THEN "bare" ELSE "error", val |-> ""]
<1>4. PICK o \in S!Outcomes(a) :
          /\ s1' = (IF done THEN [s1 EXCEPT !.apn = "own"] ELSE s1)
          /\ s2' = o.flight /\ s5' = (s5 \/ o.mixed) /\ UNCHANGED <<s3, s4>>
          /\ s6' = (IF o.heard.kind = "bare"
                    THEN [s6 EXCEPT !.check = TRUE]
                    ELSE S!UndoNext(S!Unclean(s6, FALSE)))
  BY <1>3
<1>5. /\ a \in Lines /\ a.val = ""
      /\ IF done THEN a.kind = "bare" ELSE a.kind = "error"
      /\ "bare" # "error" /\ S!Silence.kind # "bare"
  BY <1>1 DEF Lines, S!Kinds, S!Values, S!Settings, S!Silence, S!Modems, S!Sockets,
         S!CloseAnswers
<1> HIDE DEF a
<1>6. /\ s2' \in Seq(Lines) /\ Len(s2') <= MaxFlight /\ s5' \in BOOLEAN /\ (s5 => s5')
      /\ \A i \in DOMAIN s2' : s2'[i] = a \/ (\E j \in DOMAIN s2 : s2'[i] = s2[j])
      /\ \/ o.heard = S!Silence \/ o.heard = a
         \/ \E j \in DOMAIN s2 : o.heard = s2[j]
      /\ ~s5' /\ o.heard # S!Silence => o.heard = a
  BY <1>1, <1>4, <1>5, BackHeard
<1>7. Towards(a)
  <2>1. /\ s1' \in S!Modems /\ s1.own \subseteq s1'.own
        /\ s1.apn = "own" => s1'.apn = "own"
        /\ s1.socket = "initial" => s1'.socket = "initial"
        /\ s1'.active => s1.active
        /\ s1'.active = s1.active \/ s6.activated
    BY <1>1, <1>4 DEF S!Modems, S!Sockets
  <2>2. /\ a.kind \in S!Settings /\ a.val = "own" => a.kind \in s1'.own
        /\ a.kind = "profile" /\ a.val = "own" => s1'.apn = "own"
        /\ a.kind = "close" => s1'.socket = "initial"
    BY <1>1, <1>4, <1>5 DEF S!Settings, S!Modems
  <2> QED BY <1>4, <1>6, <2>1, <2>2 DEF Towards
<1>9. CASE s6' = S!UndoNext(S!Unclean(s6, FALSE))
  <2>1. FALSE \in BOOLEAN /\ (6 = 1 => FALSE)
    BY <1>2
  <2> QED BY <1>1, <1>2, <1>7, <1>9, <2>1, GivesUp
<1>10. CASE s6' = [s6 EXCEPT !.check = TRUE]
  <2>1. s6' \in S!Sessions /\ Follows(s6') /\ s6'.undoing /\ s6'.step = s6.step /\ s6.step # "close"
    BY <1>1, <1>10 DEF S!Sessions, S!Settings, Follows
  <2> QED BY <1>1, <1>2, <1>7, <2>1, Stays
<1> QED BY <1>4, <1>9, <1>10

\* restore_cgdccont: read back; an earlier answer that says the same is as true.
LEMMA HttpsCheckRestoredProfile ==
    ASSUME S!HttpsAssumption, S!IInv, S!CheckRestoredProfile
    PROVE  S!IInv'
<1>1. /\ s6.undoing /\ s6.step = "restore"
      /\ S!Typed /\ s1 \in S!Modems /\ s6 \in S!Sessions
  BY DEF S!IInv, S!Typed, S!TypeOK, S!Forward, S!Backward, S!Settings,
         S!CheckRestoredProfile
<1>2. 6 \in 1 .. 6 /\ S!Place(s6.step) = 6 /\ s6.step = S!UndoOrder[6] /\ Follows(s6)
  BY <1>1, OrderIs, PlaceIs DEF Follows
<1>3. PICK done \in BOOLEAN :
        \E o \in S!Outcomes([kind |-> IF done THEN "profile" ELSE "error", val |-> s1.apn]) :
          /\ s1' = s1
          /\ s2' = o.flight /\ s5' = (s5 \/ o.mixed) /\ UNCHANGED <<s3, s4>>
          /\ s6' = (IF o.heard.kind = "profile"
                    THEN IF o.heard.val = "own" THEN S!UndoNext(s6)
                      ELSE S!UndoNext(S!Unclean(s6, FALSE))
                    ELSE S!UndoNext(S!Unclean(s6, FALSE)))
  BY DEF S!CheckRestoredProfile, S!Command, S!Apn
<1> DEFINE a == [kind |-> IF done THEN "profile" ELSE "error", val |-> s1.apn]
<1>4. PICK o \in S!Outcomes(a) :
          /\ s1' = s1
          /\ s2' = o.flight /\ s5' = (s5 \/ o.mixed) /\ UNCHANGED <<s3, s4>>
          /\ s6' = (IF o.heard.kind = "profile"
                    THEN IF o.heard.val = "own" THEN S!UndoNext(s6)
                      ELSE S!UndoNext(S!Unclean(s6, FALSE))
                    ELSE S!UndoNext(S!Unclean(s6, FALSE)))
  BY <1>3
<1>5. /\ a \in Lines /\ a.val = s1.apn
      /\ IF done THEN a.kind = "profile" ELSE a.kind = "error"
      /\ "profile" # "error" /\ S!Silence.kind # "profile"
  BY <1>1 DEF Lines, S!Kinds, S!Values, S!Settings, S!Silence, S!Modems, S!Sockets,
         S!CloseAnswers
<1> HIDE DEF a
<1>6. /\ s2' \in Seq(Lines) /\ Len(s2') <= MaxFlight /\ s5' \in BOOLEAN /\ (s5 => s5')
      /\ \A i \in DOMAIN s2' : s2'[i] = a \/ (\E j \in DOMAIN s2 : s2'[i] = s2[j])
      /\ \/ o.heard = S!Silence \/ o.heard = a
         \/ \E j \in DOMAIN s2 : o.heard = s2[j]
      /\ ~s5' /\ o.heard # S!Silence => o.heard = a
  BY <1>1, <1>4, <1>5, BackHeard
<1>7. Towards(a)
  <2>1. /\ s1' \in S!Modems /\ s1.own \subseteq s1'.own
        /\ s1.apn = "own" => s1'.apn = "own"
        /\ s1.socket = "initial" => s1'.socket = "initial"
        /\ s1'.active => s1.active
        /\ s1'.active = s1.active \/ s6.activated
    BY <1>1, <1>4 DEF S!Modems, S!Sockets
  <2>2. /\ a.kind \in S!Settings /\ a.val = "own" => a.kind \in s1'.own
        /\ a.kind = "profile" /\ a.val = "own" => s1'.apn = "own"
        /\ a.kind = "close" => s1'.socket = "initial"
    BY <1>1, <1>4, <1>5 DEF S!Settings, S!Modems
  <2> QED BY <1>4, <1>6, <2>1, <2>2 DEF Towards
<1>9. CASE s6' = S!UndoNext(S!Unclean(s6, FALSE))
  <2>1. FALSE \in BOOLEAN /\ (6 = 1 => FALSE)
    BY <1>2
  <2> QED BY <1>1, <1>2, <1>7, <1>9, <2>1, GivesUp
<1>10. CASE o.heard.kind = "profile" /\ o.heard.val = "own" /\ s6' = S!UndoNext(s6)
  <2>1. o.heard.kind = "profile" /\ o.heard.val = "own" /\ s6' = S!UndoNext(s6)
    BY <1>10
  <2>2. s1.apn = "own"
    <3>1. ASSUME NEW j \in DOMAIN s2, o.heard = s2[j]
          PROVE  s1.apn = "own"
      BY <1>1, <2>1, <3>1 DEF S!IInv, S!LateTrue
    <3>2. CASE o.heard = a
      BY <1>5, <2>1, <3>2
    <3> QED BY <1>5, <1>6, <2>1, <3>1, <3>2
  <2>4. S!Undone(S!UndoOrder[6])'
    BY <1>4, <2>2, OrderIs DEF S!Undone, S!Settings
  <2> QED BY <1>1, <1>2, <1>7, <2>1, <2>4, Passes
<1> QED BY <1>4, <1>9, <1>10

\* A socket that is closed stays so, whatever the network does.
LEMMA HttpsNetworkMoves ==
    ASSUME S!HttpsAssumption, S!IInv, S!NetworkMoves
    PROVE  S!IInv'
<1>1. PICK socket \in {"connected", "closed"} :
          s1' = [s1 EXCEPT !.socket = socket] /\ s1.socket # "initial"
  BY DEF S!NetworkMoves
<1>2. UNCHANGED <<s2, s3, s4, s5, s6>> /\ s1 \in S!Modems
  BY DEF S!NetworkMoves, S!IInv, S!Typed, S!TypeOK
<1>3. /\ s1' \in S!Modems /\ s1'.own = s1.own /\ s1'.apn = s1.apn /\ s1'.active = s1.active
  BY <1>1, <1>2 DEF S!Modems, S!Sockets
<1>4. S!Typed' /\ S!Forward' /\ S!Marked'
  BY <1>2, <1>3 DEF S!IInv, S!Typed, S!TypeOK, S!Forward, S!Marked
<1>5. S!LateTrue'
  BY <1>1, <1>2, <1>3 DEF S!IInv, S!LateTrue
<1>6. S!Backward'
  <2> SUFFICES ASSUME s6.undoing
               PROVE  S!Backward'
    BY <1>2 DEF S!Backward
  <2>1. \A i \in 1 .. S!Place(s6.step) - 1 : S!Undone(S!UndoOrder[i])'
    <3> SUFFICES ASSUME NEW i \in 1 .. S!Place(s6.step) - 1
                 PROVE  S!Undone(S!UndoOrder[i])'
      OBVIOUS
    <3>1. S!Undone(S!UndoOrder[i])
      BY DEF S!IInv, S!Backward
    <3>2. i \in 1 .. 6
      <4>1. s6.step = "end" \/ s6.step = "confirm" \/ (\E k \in 1 .. 6 : s6.step = S!UndoOrder[k])
        BY OrderIs DEF S!IInv, S!Backward, S!Settings
      <4>2. S!Place(s6.step) \in 1 .. 7
        BY <4>1, PlaceIs
      <4> QED BY <4>2
    <3>3. s1.socket = "initial" => s1'.socket = "initial"
      BY <1>1
    <3> QED BY <1>2, <1>3, <3>1, <3>2, <3>3, UndoneStays
  <2>2. s6.step # "confirm"
    BY <1>1 DEF S!IInv, S!Backward
  <2> QED BY <1>2, <2>1, <2>2 DEF S!IInv, S!Backward
<1> QED BY <1>4, <1>5, <1>6 DEF S!IInv

\* MipPostSession: nothing is marked.
LEMMA HttpsStarts ==
    ASSUME S!HttpsAssumption, S!Init
    PROVE  S!IInv
<1>1. s6 = [step |-> "state", check |-> FALSE, touched |-> {}, opened |-> FALSE,
            activated |-> FALSE, changed |-> FALSE, polls |-> 0,
            clean |-> TRUE, reset |-> FALSE, undoing |-> FALSE]
  BY DEF S!Init
<1>2. s6 \in S!Sessions
  BY <1>1 DEF S!Sessions, S!Steps, S!HttpsAssumption
<1>3. s1 \in S!Modems /\ s1.own = S!Settings /\ s1.apn = "own" /\ s4 = s1
  BY DEF S!Init, S!Modems
<1>4. s2 = <<>> /\ s5 = FALSE /\ s3 \in [apn : BOOLEAN, keep : BOOLEAN]
  BY DEF S!Init
<1>5. s2 \in Seq(Lines) /\ Len(s2) <= MaxFlight /\ DOMAIN s2 = {}
  BY <1>4 DEF S!HttpsAssumption
<1>6. S!Typed
  BY <1>2, <1>3, <1>4, <1>5 DEF S!Typed, S!TypeOK, Lines
<1>7. S!Forward /\ S!Marked /\ S!Backward
  BY <1>1, <1>3, <1>4 DEF S!Forward, S!Marked, S!Backward, S!Settings
<1>8. S!LateTrue
  BY <1>5 DEF S!LateTrue
<1> QED BY <1>6, <1>7, <1>8 DEF S!IInv

\* Nothing changes.
LEMMA HttpsStands ==
    ASSUME S!IInv, UNCHANGED S!vars
    PROVE  S!IInv'
<1>1. UNCHANGED <<s1, s2, s3, s4, s5, s6>>
  BY DEF S!vars
<1>2. \A step : S!Undone(step)' = S!Undone(step)
  BY <1>1 DEF S!Undone
<1> QED BY <1>1, <1>2
        DEF S!IInv, S!Typed, S!TypeOK, S!Forward, S!Marked, S!Backward, S!LateTrue

\* Every step of a session keeps the invariant.
LEMMA HttpsKept ==
    ASSUME S!HttpsAssumption, S!IInv, [S!Next]_(S!vars)
    PROVE  S!IInv'
<1>1. CASE UNCHANGED S!vars
  BY <1>1, HttpsStands
<1>2. CASE S!NetworkMoves
  BY <1>2, HttpsNetworkMoves
<1>3. CASE S!AskState \/ S!CloseStale \/ S!Recheck \/ S!Snapshot
  BY <1>3, HttpsAskState, HttpsCloseStale, HttpsRecheck, HttpsSnapshot
<1>4. CASE S!AskContext \/ S!SetProfile \/ S!CheckProfile \/ S!Activate
  BY <1>4, HttpsAskContext, HttpsSetProfile, HttpsCheckProfile, HttpsActivate
<1>5. CASE S!SetSetting \/ S!CheckSetting \/ S!Open \/ S!Wait \/ S!Exchange
  BY <1>5, HttpsSetSetting, HttpsCheckSetting, HttpsOpen, HttpsWait, HttpsExchange
<1>6. CASE S!Close \/ S!ConfirmClosed \/ S!RestoreSetting \/ S!CheckRestored
  BY <1>6, HttpsClose, HttpsConfirmClosed, HttpsRestoreSetting, HttpsCheckRestored
<1>7. CASE S!Deactivate \/ S!RestoreProfile \/ S!CheckRestoredProfile
  BY <1>7, HttpsDeactivate, HttpsRestoreProfile, HttpsCheckRestoredProfile
<1> QED BY <1>1, <1>2, <1>3, <1>4, <1>5, <1>6, <1>7 DEF S!Next, S!SessionStep

\* At the end of cleanup everything marked is undone, or told.
LEMMA HttpsTells ==
    ASSUME S!IInv
    PROVE  S!TypeOK /\ S!SettingsRestored /\ S!SocketClosedOrReset /\ S!PdpPutDown
<1>1. S!TypeOK
  BY DEF S!IInv, S!Typed
<1>2. CASE s6.step = "end"
  <2>1. s6.undoing /\ S!Place(s6.step) = 7
    BY <1>2, PlaceIs DEF S!IInv, S!Forward
  <2>2. \A i \in 1 .. 6 : S!Undone(S!UndoOrder[i])
    BY <2>1 DEF S!IInv, S!Backward
  <2>3. /\ S!Undone("close") /\ S!Undone("ssl") /\ S!Undone("autofree") /\ S!Undone("encoding")
        /\ S!Undone("deactivate") /\ S!Undone("restore")
    BY <2>2, OrderIs
  <2>4. s6.opened /\ ~s6.reset => s1.socket = "initial"
    BY <2>3 DEF S!Undone, S!Settings
  <2>5. s6.clean => S!Settings \subseteq s1.own
    BY <2>3 DEF S!Undone, S!Settings
  <2>6. s6.clean => s3.keep \/ s1.apn = "own"
    BY <2>3 DEF S!Undone, S!Settings
  <2>7. s6.clean /\ ~s4.active /\ ~s3.keep /\ ~s5 => ~s1.active
    BY <2>3 DEF S!Undone, S!Settings
  <2>8. s1.own \subseteq S!Settings
    BY <1>1 DEF S!TypeOK, S!Modems
  <2> QED BY <1>1, <2>4, <2>5, <2>6, <2>7, <2>8
          DEF S!SettingsRestored, S!SocketClosedOrReset, S!PdpPutDown
<1>3. CASE s6.step # "end"
  BY <1>1, <1>3 DEF S!SettingsRestored, S!SocketClosedOrReset, S!PdpPutDown, S!Ended
<1> QED BY <1>2, <1>3

\* Only two steps write the profile, and neither is reached with a PDP that was
\* up.
LEMMA KeepsProfileStep ==
    ASSUME S!IInv, S!Next
    PROVE  S!KeepsProfile
<1> SUFFICES ASSUME s4.active
             PROVE  s1'.apn = s1.apn
  BY DEF S!KeepsProfile
<1>1. s1 \in S!Modems /\ ~s6.changed
  BY DEF S!IInv, S!Typed, S!TypeOK, S!Marked
<1>2. ~S!SetProfile /\ ~S!RestoreProfile
  BY <1>1 DEF S!SetProfile, S!RestoreProfile, S!IInv, S!Forward, S!Backward, S!Settings
<1>3. CASE S!NetworkMoves
  BY <1>1, <1>3 DEF S!NetworkMoves, S!Modems
<1>4. CASE \/ S!AskState \/ S!CloseStale \/ S!Recheck \/ S!Snapshot \/ S!AskContext \/ S!CheckProfile
           \/ S!Activate \/ S!SetSetting \/ S!CheckSetting \/ S!Wait \/ S!Exchange
  BY <1>1, <1>4 DEF S!AskState, S!CloseStale, S!Recheck, S!Snapshot, S!AskContext,
         S!CheckProfile,
     S!Activate, S!SetSetting, S!CheckSetting, S!Wait, S!Exchange, S!Command, S!Modems
<1>5. CASE S!Open
  BY <1>1, <1>5 DEF S!Open, S!Command, S!Modems
<1>6. CASE S!Close \/ S!ConfirmClosed \/ S!RestoreSetting \/ S!CheckRestored \/ S!Deactivate
           \/ S!CheckRestoredProfile
  BY <1>1, <1>6 DEF S!Close, S!ConfirmClosed, S!RestoreSetting, S!CheckRestored,
         S!Deactivate,
     S!CheckRestoredProfile, S!Command, S!Modems
<1> QED BY <1>2, <1>3, <1>4, <1>5, <1>6 DEF S!Next, S!SessionStep

\* idf_modem_https: whatever commands the modem leaves undone and whatever answers
\* are lost or come late, a session that ends clean has put back the settings, the
\* profile and, if no answer was taken for another, the PDP; and the socket is closed
\* or a reset asked for.
THEOREM HttpsTrueHolds == AllSpec => []HttpsTrue
<1> DEFINE Inv == which = "https" => S!IInv
<1>1. AllInit => Inv
  BY SessionAssumption, HttpsStarts DEF AllInit
<1>2. Inv /\ [AllNext]_allvars => Inv'
  BY SessionAssumption, ModemSteps, HttpsKept
<1>3. Inv => HttpsTrue
  BY HttpsTells DEF HttpsTrue
<1> QED BY <1>1, <1>2, <1>3, PTL DEF AllSpec

\* prepare_pdp: no step of a session rewrites the profile of a PDP that was up when
\* it began.
THEOREM ProfileKeptHolds == AllSpec => ProfileKept
<1> DEFINE Inv == which = "https" => S!IInv
           Step == which = "https" => S!KeepsProfile
<1>1. AllInit => Inv
  BY SessionAssumption, HttpsStarts DEF AllInit
<1>2. Inv /\ [AllNext]_allvars => Inv'
  BY SessionAssumption, ModemSteps, HttpsKept
<1>3. Inv /\ [AllNext]_allvars => [Step]_allvars
  <2> SUFFICES ASSUME Inv, AllNext, allvars' # allvars, which = "https"
               PROVE  S!KeepsProfile
    OBVIOUS
  <2>1. S!Next
    BY DEF AllNext, OwnerNext, ANext, HNext, SNext, MNext, ENext, JNext, Rest
  <2> QED BY <2>1, KeepsProfileStep
<1> QED BY <1>1, <1>2, <1>3, PTL DEF AllSpec, ProfileKept

\* Restarts, updates and backups have the device to themselves, and every claim is
\* served, in the behaviours of MCModem: WebJobsProofs shows the inductive invariant.
THEOREM JobsApartHolds == AllSpec => []JobsApart
<1> DEFINE Inv == which = "jobs" => J!IInv
<1>1. AllInit => Inv
  BY J!InitIInv DEF AllInit
<1>2. Inv /\ [AllNext]_allvars => Inv'
  BY ModemSteps, J!NextIInv
<1>3. Inv => JobsApart
  BY J!InvIsApart DEF JobsApart
<1> QED BY <1>1, <1>2, <1>3, PTL DEF AllSpec
=============================================================================
