-------------------------- MODULE PushQueueProofs --------------------------
(***************************************************************************)
(* The safety invariants of PushQueue, proved for any number of items,     *)
(* channels, slots and forwards.                                           *)
(***************************************************************************)
EXTENDS PushQueue, FiniteSetTheorems, TLAPS

-----------------------------------------------------------------------------
(* Type correctness *)

\* A leg as FanOut, EnqueueNotify and EnqueueEmail make it is a leg.
LEMMA NewLegType ==
    ASSUME NEW t \in Targets, NEW i \in Items \cup {None}, NEW c \in Nat
    PROVE  NewLeg(t, i, c) \in Leg
  BY Capacities DEF NewLeg, Leg

\* Queueing new legs keeps the arrays well typed.
LEMMA PlacedType ==
    ASSUME TypeOK, NEW T \in SUBSET Targets, NEW f \in Placements(T),
           NEW i \in Items \cup {None}, NEW c \in Nat
    PROVE  Placed(f, i, c) \in [LegSlots -> Leg \cup {None}]
<1>1. DOMAIN f = T
  BY DEF Placements
<1>2. ASSUME NEW s \in LegSlots, \E t \in T : f[t] = s
      PROVE  NewLeg(CHOOSE t \in T : f[t] = s, i, c) \in Leg
  <2>1. (CHOOSE t \in T : f[t] = s) \in Targets
    BY <1>2
  <2> QED BY <2>1, NewLegType
<1> QED BY <1>1, <1>2 DEF Placed, TypeOK

\* Cancelling completions keeps the table well typed.
LEMMA CancelledType ==
    ASSUME TypeOK, NEW C
    PROVE  Cancelled(C) \in [CompSlots -> Completion \cup {None}]
  BY DEF Cancelled, TypeOK

\* Changing marks keeps the inbox well typed.
LEMMA SetForwardedType ==
    ASSUME TypeOK, NEW S, NEW state \in {"unsent", "forwarded"}
    PROVE  SetForwarded(S, state)
             \in [Items -> {"absent", "unsent", "forwarded", "deleted"}]
  BY DEF SetForwarded, TypeOK

\* Counting a success keeps the table well typed: a record never reaches zero.
LEMMA CountedType ==
    ASSUME TypeOK, NEW c
    PROVE  Counted(c) \in [CompSlots -> Completion \cup {None}]
<1>1. ASSUME NEW k \in CompSlots, comps[k] # None, comps[k].remaining # 1
      PROVE  [comps[k] EXCEPT !.remaining = @ - 1] \in Completion
  BY <1>1 DEF TypeOK, Completion
<1> QED BY <1>1 DEF Counted, TypeOK

LEMMA TypeInit == Init => TypeOK
  BY Capacities DEF Init, TypeOK

LEMMA TypeNext == TypeOK /\ [Next]_vars => TypeOK'
<1> SUFFICES ASSUME TypeOK, [Next]_vars PROVE TypeOK'
  OBVIOUS
<1> USE Capacities
<1>1. ASSUME NEW i \in Items, Receive(i) PROVE TypeOK'
  BY <1>1 DEF Receive, TypeOK
<1>2. ASSUME NEW i \in Items, NEW s \in FwdSlots, EnqueueForward(i, s) PROVE TypeOK'
  BY <1>2 DEF EnqueueForward, TypeOK
<1>3. ASSUME NEW i \in Items, Delete(i) PROVE TypeOK'
  BY <1>3 DEF Delete, TypeOK
<1>4. ASSUME NEW T \in SUBSET Channels, EnqueueNotify(T) PROVE TypeOK'
  <2>1. PICK f \in Placements(T) : legs' = Placed(f, None, 0)
    BY <1>4 DEF EnqueueNotify
  <2>2. legs' \in [LegSlots -> Leg \cup {None}]
    BY <2>1, PlacedType DEF Targets
  <2> QED BY <1>4, <2>2 DEF EnqueueNotify, TypeOK
<1>5. ASSUME NEW s \in EmailSlots, EnqueueEmail(s) PROVE TypeOK'
  <2>1. NewLeg(Email, None, 0) \in Leg
    BY NewLegType DEF Targets
  <2> QED BY <1>5, <2>1 DEF EnqueueEmail, TypeOK, LegSlots
<1>6. CASE WifiUp
  BY <1>6 DEF WifiUp, TypeOK
<1>7. CASE WifiDown
  BY <1>7 DEF WifiDown, TypeOK
<1>8. ASSUME NEW s \in FwdSlots, PopForward(s) PROVE TypeOK'
  BY <1>8 DEF PopForward, TypeOK
<1>9. CASE DropByRule
  BY <1>9, SetForwardedType DEF DropByRule, TypeOK
<1>10. CASE NoDestination
  BY <1>10 DEF NoDestination, TypeOK
<1>11. ASSUME NEW T \in SUBSET Targets, NEW k \in CompSlots, FanOut(T, k)
       PROVE  TypeOK'
  <2>1. PICK f \in Placements(T) : legs' = Placed(f, handFwd, lastComp + 1)
    BY <1>11 DEF FanOut
  <2>2. legs' \in [LegSlots -> Leg \cup {None}]
    BY <2>1, PlacedType DEF TypeOK
  <2>3. IsFiniteSet(T) /\ Cardinality(T) \in Nat \ {0}
    <3>1. IsFiniteSet(Targets)
      BY FS_AddElement DEF Targets
    <3>2. IsFiniteSet(T)
      BY <3>1, FS_Subset
    <3>3. T # {}
      BY <1>11 DEF FanOut
    <3> QED BY <3>2, <3>3, FS_EmptySet, FS_CardinalityType
  <2>4. comps' \in [CompSlots -> Completion \cup {None}]
    BY <1>11, <2>3 DEF FanOut, TypeOK, Completion
  <2>5. fan' \in [1 .. lastComp' -> FanOutRecord]
    BY <1>11 DEF FanOut, TypeOK, FanOutRecord
  <2>6. /\ lastComp' \in Nat /\ handFwd' \in Items \cup {None}
        /\ UNCHANGED <<inbox, fwd, handLeg, wifi, dropped, forwards, notices>>
    BY <1>11 DEF FanOut, TypeOK
  <2> QED BY <2>2, <2>4, <2>5, <2>6 DEF TypeOK
<1>12. ASSUME NEW T \in SUBSET Targets, RequeueForward(T) PROVE TypeOK'
  BY <1>12 DEF RequeueForward, TypeOK
<1>13. ASSUME NEW s \in LegSlots, Pop(s) PROVE TypeOK'
  BY <1>13 DEF Pop, TypeOK, Emptied
<1>14. CASE LegSucceeds
  <2>1. comps' \in [CompSlots -> Completion \cup {None}]
    BY <1>14, CountedType DEF LegSucceeds
  <2>2. inbox' \in [Items -> {"absent", "unsent", "forwarded", "deleted"}]
    BY <1>14, SetForwardedType DEF LegSucceeds
  <2>3. handLeg.target \in Targets
    BY <1>14 DEF LegSucceeds, TypeOK, Leg
  <2>4. fan' \in [1 .. lastComp' -> FanOutRecord]
    <3>1. DOMAIN fan = 1 .. lastComp /\ lastComp' = lastComp
      BY <1>14 DEF LegSucceeds, TypeOK
    <3>2. ASSUME NEW c \in 1 .. lastComp
          PROVE  [fan[c] EXCEPT !.sent = @ \cup {handLeg.target}] \in FanOutRecord
      BY <2>3 DEF TypeOK, FanOutRecord
    <3> QED BY <1>14, <3>1, <3>2 DEF LegSucceeds, TypeOK
  <2> QED BY <1>14, <2>1, <2>2, <2>4 DEF LegSucceeds, TypeOK
<1>15. CASE LegFails
  BY <1>15, CancelledType, SetForwardedType DEF LegFails, TypeOK
<1>16. CASE LegDiscarded
  BY <1>16, CancelledType DEF LegDiscarded, TypeOK
<1>17. ASSUME NEW s \in LegSlots, LegRetries(s) PROVE TypeOK'
  <2>1. handLeg \in Leg /\ handLeg.attempts + 1 \in 0 .. RetryMax - 1
    BY <1>17 DEF LegRetries, TypeOK, Leg, Exhausted, Retried
  <2>2. Retried(handLeg) \in Leg
    BY <2>1 DEF Leg, Retried
  <2> QED BY <1>17, <2>2 DEF LegRetries, TypeOK
<1>18. CASE PurgePush
  BY <1>18, CancelledType, SetForwardedType DEF PurgePush, TypeOK, Emptied
<1>19. CASE PurgeEmail
  BY <1>19, CancelledType DEF PurgeEmail, TypeOK, Emptied
<1>20. CASE UNCHANGED vars
  BY <1>20 DEF vars, TypeOK
<1>21. CASE Environment
  BY <1>1, <1>2, <1>3, <1>4, <1>5, <1>6, <1>7, <1>21 DEF Environment
<1>22. CASE FinishForward
  BY <1>9, <1>10, <1>11, <1>12, <1>22 DEF FinishForward
<1>23. CASE FinishLeg
  BY <1>14, <1>15, <1>16, <1>17, <1>23 DEF FinishLeg
<1>24. CASE Worker
  BY <1>8, <1>13, <1>18, <1>19, <1>22, <1>23, <1>24
     DEF Worker, PopPush, PopEmail
<1> QED
  BY <1>20, <1>21, <1>24 DEF Next

\* Every variable of the queues keeps its type, whatever the sizes.
THEOREM TypeCorrect == Spec => []TypeOK
  BY TypeInit, TypeNext, PTL DEF Spec
-----------------------------------------------------------------------------
(***************************************************************************)
(* The inductive invariant.  CompletionAccounting alone is not inductive:  *)
(* a success must find at most one record to count down (OneRecordPerId)   *)
(* and one leg for the destination (NoSecondSend), ids given out later     *)
(* must be new to every leg (KnownCompletions), and the last count must    *)
(* mean that everything wanted was reached (ReachedWasWanted).             *)
(***************************************************************************)
KnownCompletions ==
    \A p \in Places : Job(p) # None => Job(p).comp \in 0 .. lastComp

ReachedWasWanted ==
    \A c \in 1 .. lastComp : fan[c].sent \subseteq fan[c].want

OneRecordPerId ==
    \A j, k \in CompSlots :
        comps[j] # None /\ comps[k] # None /\ comps[j].id = comps[k].id => j = k

OneHand == handFwd = None \/ handLeg = None

LegInv ==
    /\ KnownCompletions
    /\ ReachedWasWanted
    /\ OneRecordPerId
    /\ CompletionAccounting
    /\ NoSecondSend

IndInv == TypeOK /\ OneHand /\ LegInv /\ ForwardedMeansDelivered

\* Every place holds a leg or nothing.
LEMMA JobType ==
    ASSUME TypeOK, NEW p \in Places
    PROVE  Job(p) \in Leg \cup {None}
  BY DEF TypeOK, Places, Job

\* A leg that moves from one place to another, its destination and
\* completion unchanged, disturbs nothing.
LEMMA MoveKeeps ==
    ASSUME TypeOK, LegInv, NEW a \in Places, NEW b \in Places,
           Job(a) # None, Job(b) = None, Job(a)' = None, Job(b)' # None,
           Job(b)'.comp = Job(a).comp, Job(b)'.target = Job(a).target,
           \A p \in Places \ {a, b} : Job(p)' = Job(p),
           UNCHANGED <<comps, lastComp, fan>>
    PROVE  LegInv'
<1> USE DEF LegInv, Left
<1>1. KnownCompletions'
  BY DEF KnownCompletions
<1>2. ReachedWasWanted' /\ OneRecordPerId'
  BY DEF ReachedWasWanted, OneRecordPerId
<1>3. \A c, t : LegFor(c, t)' <=> LegFor(c, t)
  BY DEF LegFor
<1>4. CompletionAccounting'
  BY <1>3 DEF CompletionAccounting, Exact
<1>5. NoSecondSend'
  BY DEF NoSecondSend
<1> QED BY <1>1, <1>2, <1>4, <1>5

\* Legs may be given up when their completions are cancelled with them.
LEMMA CancelKeeps ==
    ASSUME TypeOK, LegInv, NEW C, comps' = Cancelled(C),
           \A p \in Places : \/ Job(p)' = Job(p)
                             \/ Job(p)' = None /\ Job(p).comp \in C,
           UNCHANGED <<lastComp, fan>>
    PROVE  LegInv'
<1> USE DEF LegInv, Left
<1>1. KnownCompletions'
  BY DEF KnownCompletions
<1>2. \A k \in CompSlots : comps'[k] # None => comps[k] # None /\ comps'[k] = comps[k] /\ comps[k].id \notin C
  BY DEF Cancelled
<1>3. ReachedWasWanted' /\ OneRecordPerId'
  BY <1>2 DEF ReachedWasWanted, OneRecordPerId
<1>4. \A c, t : c \notin C => (LegFor(c, t)' <=> LegFor(c, t))
  BY DEF LegFor
<1>5. CompletionAccounting'
  BY <1>2, <1>4 DEF CompletionAccounting, Exact
<1>6. NoSecondSend'
  BY DEF NoSecondSend
<1> QED BY <1>1, <1>3, <1>5, <1>6

\* Legs of our own notices belong to no completion.
LEMMA NoticeKeeps ==
    ASSUME TypeOK, LegInv,
           \A p \in Places : \/ Job(p)' = Job(p)
                             \/ Job(p) = None /\ Job(p)' # None /\ Job(p)'.comp = 0,
           UNCHANGED <<comps, lastComp, fan>>
    PROVE  LegInv'
<1> USE DEF LegInv, Left
<1>1. KnownCompletions'
  BY DEF KnownCompletions, TypeOK
<1>2. ReachedWasWanted' /\ OneRecordPerId'
  BY DEF ReachedWasWanted, OneRecordPerId
<1>3. \A c, t : c # 0 => (LegFor(c, t)' <=> LegFor(c, t))
  BY DEF LegFor
<1>4. \A k \in CompSlots : comps[k] # None => comps[k].id # 0
  BY DEF TypeOK, Completion
<1>5. CompletionAccounting'
  BY <1>3, <1>4 DEF CompletionAccounting, Exact
<1>6. NoSecondSend'
  BY DEF NoSecondSend
<1> QED BY <1>1, <1>2, <1>5, <1>6

\* A destination reached: one record counts one less, or ends at its last.
LEMMA SuccessKeeps ==
    ASSUME TypeOK, LegInv, LegSucceeds
    PROVE  LegInv'
<1> DEFINE l == handLeg
<1> USE DEF LegInv, Left
<1>1. l \in Leg /\ l # None /\ Job(None) = l /\ None \in Places
  BY DEF LegSucceeds, TypeOK, Job, Places
<1>2. Job(None)' = None /\ \A p \in Places \ {None} : Job(p)' = Job(p)
  BY DEF LegSucceeds, Job
<1>3. \A c \in 1 .. lastComp :
        /\ fan'[c].item = fan[c].item
        /\ fan'[c].want = fan[c].want
        /\ fan'[c].sent = IF c = l.comp THEN fan[c].sent \cup {l.target}
                          ELSE fan[c].sent
  BY DEF LegSucceeds, TypeOK, FanOutRecord
<1>4. UNCHANGED lastComp /\ comps' = Counted(l.comp)
  BY DEF LegSucceeds
<1>5. l.comp \in 0 .. lastComp /\ \A c \in 1 .. lastComp : c # 0
  BY <1>1 DEF KnownCompletions, TypeOK
<1>6. l.comp # 0 => l.target \in fan[l.comp].want \ fan[l.comp].sent
  BY <1>1 DEF NoSecondSend
<1>7. KnownCompletions'
  BY <1>2, <1>4 DEF KnownCompletions
<1>8. ReachedWasWanted'
  <2>1. ASSUME NEW c \in 1 .. lastComp
        PROVE  fan'[c].sent \subseteq fan'[c].want
    <3>1. fan[c].sent \subseteq fan[c].want
      BY DEF ReachedWasWanted
    <3>2. c = l.comp => l.target \in fan[c].want
      BY <1>5, <1>6
    <3> QED BY ZenonT(60), <1>3, <3>1, <3>2
  <2> QED BY <1>4, <2>1 DEF ReachedWasWanted
<1>9. \A k \in CompSlots :
        comps'[k] # None =>
          /\ comps[k] # None
          /\ comps'[k].id = comps[k].id
          /\ comps'[k].item = comps[k].item
          /\ comps'[k].remaining = IF comps[k].id = l.comp
                                   THEN comps[k].remaining - 1
                                   ELSE comps[k].remaining
  BY <1>4 DEF Counted, TypeOK, Completion
<1>10. OneRecordPerId'
  BY <1>9 DEF OneRecordPerId
<1>11. \A p \in Places \ {None} :
         Job(p) # None /\ Job(p).comp = l.comp /\ l.comp # 0 => Job(p).target # l.target
  BY <1>1 DEF NoSecondSend
<1>12. ASSUME NEW k \in CompSlots, comps'[k] # None, NEW c, c = comps[k].id
       PROVE  /\ c \in 1 .. lastComp'
              /\ comps'[k].id = c
              /\ comps'[k].item = fan'[c].item
              /\ \A t \in Targets : LegFor(c, t)' <=> t \in fan'[c].want \ fan'[c].sent
              /\ comps'[k].remaining = Cardinality(fan'[c].want \ fan'[c].sent)
  <2>1. /\ comps[k] # None /\ c = comps[k].id /\ c \in 1 .. lastComp /\ c # 0
        /\ comps[k].item = fan[c].item
        /\ \A t \in Targets : LegFor(c, t) <=> t \in fan[c].want \ fan[c].sent
        /\ comps[k].remaining = Cardinality(fan[c].want \ fan[c].sent)
    BY <1>5, <1>9, <1>12 DEF CompletionAccounting, Exact
  <2>2. c \in 1 .. lastComp' /\ comps'[k].id = c /\ comps'[k].item = fan'[c].item
    BY <2>1, <1>3, <1>4, <1>9, <1>12
  <2>3. ASSUME NEW t \in Targets
        PROVE  LegFor(c, t)' <=> LegFor(c, t) /\ ~(c = l.comp /\ t = l.target)
    <3>1. LegFor(c, t)' => LegFor(c, t) /\ ~(c = l.comp /\ t = l.target)
      BY <1>2, <1>11, <2>1 DEF LegFor
    <3>2. LegFor(c, t) /\ ~(c = l.comp /\ t = l.target) => LegFor(c, t)'
      BY <1>1, <1>2 DEF LegFor
    <3> QED BY <3>1, <3>2
  <2>4. \A t \in Targets : LegFor(c, t)' <=> t \in fan'[c].want \ fan'[c].sent
    <3>1. ASSUME NEW t \in Targets
          PROVE  t \in fan'[c].want \ fan'[c].sent
                   <=> t \in fan[c].want \ fan[c].sent /\ ~(c = l.comp /\ t = l.target)
      <4>1. CASE c = l.comp
        BY ZenonT(60), <4>1, <1>3, <2>1
      <4>2. CASE c # l.comp
        BY <4>2, <1>3, <2>1
      <4> QED BY <4>1, <4>2
    <3> QED BY <2>1, <2>3, <3>1
  <2>5. comps'[k].remaining = Cardinality(fan'[c].want \ fan'[c].sent)
    <3> DEFINE rest == fan[c].want \ fan[c].sent
    <3>1. IsFiniteSet(rest)
      <4>1. IsFiniteSet(Targets) /\ rest \in SUBSET Targets
        BY <2>1, Capacities, FS_AddElement DEF Targets, TypeOK, FanOutRecord
      <4> QED BY <4>1, FS_Subset
    <3>2. CASE c = l.comp
      <4>1. l.target \in rest
        BY <3>2, <1>6, <2>1
      <4>2. fan'[c].want \ fan'[c].sent = rest \ {l.target}
        BY <3>2, <1>3, <2>1
      <4> HIDE DEF rest
      <4>3. Cardinality(rest \ {l.target}) = Cardinality(rest) - 1
        BY <3>1, <4>1, FS_RemoveElement
      <4> QED BY <4>2, <4>3, <3>2, <2>1, <1>9, <1>12 DEF rest
    <3>3. CASE c # l.comp
      BY <3>3, <1>3, <2>1, <1>9, <1>12
    <3> QED BY <3>2, <3>3
  <2> QED BY <2>2, <2>4, <2>5
<1>13. CompletionAccounting'
  <2>1. ASSUME NEW k \in CompSlots, comps'[k] # None
        PROVE  Exact(comps[k])'
    <3> DEFINE c == comps[k].id
    <3>1. /\ c \in 1 .. lastComp'
          /\ comps'[k].id = c
          /\ comps'[k].item = fan'[c].item
          /\ comps'[k].remaining = Cardinality(fan'[c].want \ fan'[c].sent)
      BY <1>12, <2>1
    <3>2. \A t \in Targets : (\E p \in Places : Job(p)' # None /\ Job(p)'.comp = c /\ Job(p)'.target = t)
             <=> t \in fan'[c].want \ fan'[c].sent
      BY <1>12, <2>1 DEF LegFor
    <3> QED BY <3>1, <3>2 DEF Exact, LegFor
  <2> QED BY <2>1 DEF CompletionAccounting
<1>14. NoSecondSend'
  <2>1. ASSUME NEW p \in Places, Job(p)' # None, Job(p)'.comp # 0
        PROVE  /\ Job(p)'.target \in fan'[Job(p)'.comp].want \ fan'[Job(p)'.comp].sent
               /\ \A q \in Places \ {p} :
                    Job(q)' # None /\ Job(q)'.comp = Job(p)'.comp
                       => Job(q)'.target # Job(p)'.target
    <3>1. p # None /\ Job(p)' = Job(p) /\ Job(p).comp \in 1 .. lastComp
      BY <1>2, <2>1 DEF KnownCompletions
    <3>2. Job(p).target \in fan[Job(p).comp].want \ fan[Job(p).comp].sent
      BY <2>1, <3>1 DEF NoSecondSend
    <3>3. Job(p)'.target \in fan'[Job(p)'.comp].want \ fan'[Job(p)'.comp].sent
      BY ZenonT(60), <3>1, <3>2, <1>3, <1>11, <2>1
    <3>4. \A q \in Places \ {p} : Job(q)' # None => Job(q)' = Job(q)
      BY <1>2
    <3> QED BY <2>1, <3>1, <3>3, <3>4 DEF NoSecondSend
  <2> QED BY <2>1 DEF NoSecondSend
<1> QED BY <1>7, <1>8, <1>10, <1>13, <1>14

\* A fan-out: a new record under a new id, and one leg per destination.
LEMMA FanOutKeeps ==
    ASSUME TypeOK, LegInv, NEW T \in SUBSET Targets, NEW k \in CompSlots,
           FanOut(T, k)
    PROVE  LegInv'
<1> DEFINE n == lastComp + 1
<1> USE DEF LegInv, Left
<1>1. PICK f \in Placements(T) : legs' = Placed(f, handFwd, n)
  BY DEF FanOut
<1>2. /\ DOMAIN f = T
      /\ \A t \in T : f[t] \in LegSlots /\ legs[f[t]] = None
      /\ \A t, u \in T : f[t] = f[u] => t = u
  BY DEF Placements, FreeIn
<1>3. ASSUME NEW t \in T
      PROVE  /\ Job(f[t]) = None
             /\ Job(f[t])' # None
             /\ Job(f[t])'.comp = n
             /\ Job(f[t])'.target = t
  <2>1. (CHOOSE u \in T : f[u] = f[t]) = t
    BY <1>2
  <2>2. legs'[f[t]] = NewLeg(t, handFwd, n) /\ legs[f[t]] = None
    BY <1>1, <1>2, <2>1 DEF Placed
  <2>3. NewLeg(t, handFwd, n) \in Leg
    <3>1. t \in Targets /\ handFwd \in Items \cup {None} /\ n \in Nat
      BY DEF TypeOK
    <3> HIDE DEF n
    <3> QED BY <3>1, NewLegType
  <2>4. f[t] # None
    BY <1>2, DistinctValues
  <2> QED BY <2>2, <2>3, <2>4, DistinctValues DEF Job, NewLeg
<1>4. ASSUME NEW p \in Places, \A t \in T : f[t] # p
      PROVE  Job(p)' = Job(p)
  BY <1>1, <1>2, <1>4 DEF Placed, Job, FanOut, Places
<1>5. /\ lastComp' = n /\ n \in Nat /\ n \notin 0 .. lastComp
      /\ \A c \in 0 .. lastComp : c \in 0 .. n
      /\ \A c \in 1 .. lastComp : c \in 1 .. n /\ c # n
      /\ \A c \in 1 .. n : c \in 1 .. lastComp \/ c = n
      /\ n \in 1 .. n
  BY DEF FanOut, TypeOK
<1>6. /\ \A c \in 1 .. lastComp : fan'[c] = fan[c]
      /\ fan'[n] = [item |-> handFwd, want |-> T, sent |-> {}]
  BY <1>5 DEF FanOut, TypeOK
<1>7. /\ comps[k] = None
      /\ comps'[k] = [id |-> n, item |-> handFwd, remaining |-> Cardinality(T)]
      /\ \A j \in CompSlots \ {k} : comps'[j] = comps[j]
  BY DEF FanOut, TypeOK
<1>8. KnownCompletions'
  BY <1>3, <1>4, <1>5 DEF KnownCompletions
<1>9. ReachedWasWanted'
  BY <1>5, <1>6 DEF ReachedWasWanted
<1>10. \A j \in CompSlots : comps[j] # None => comps[j].id \in 1 .. lastComp
  BY DEF CompletionAccounting, Exact
<1>11. OneRecordPerId'
  BY <1>5, <1>7, <1>10 DEF OneRecordPerId
<1>12. CompletionAccounting'
  <2>1. Exact(comps[k])'
    <3>1. \A t \in Targets :
            (\E p \in Places : Job(p)' # None /\ Job(p)'.comp = n /\ Job(p)'.target = t)
              <=> t \in T
      <4>1. ASSUME NEW p \in Places, Job(p)' # None, Job(p)'.comp = n
            PROVE  \E u \in T : f[u] = p
        BY <4>1, <1>4, <1>5 DEF KnownCompletions
      <4>2. ASSUME NEW t \in T PROVE f[t] \in Places
        BY <1>2 DEF Places
      <4> QED BY <4>1, <4>2, <1>3
    <3>2. /\ comps'[k].id = n /\ comps'[k].item = handFwd
          /\ comps'[k].remaining = Cardinality(T)
      BY <1>7
    <3>3. fan'[n].item = handFwd /\ fan'[n].want \ fan'[n].sent = T
      BY <1>6
    <3>4. n \in 1 .. lastComp'
      BY <1>5
    <3> HIDE DEF n
    <3> QED BY <3>1, <3>2, <3>3, <3>4 DEF Exact, LegFor
  <2>2. ASSUME NEW j \in CompSlots \ {k}, comps'[j] # None
        PROVE  Exact(comps[j])'
    <3> DEFINE c == comps[j].id
    <3>1. Exact(comps[j]) /\ c \in 1 .. lastComp /\ comps'[j] = comps[j]
      BY <2>2, <1>7 DEF CompletionAccounting, Exact
    <3>2. \A p \in Places : Job(p)' # None /\ Job(p)'.comp = c
            <=> Job(p) # None /\ Job(p).comp = c
      BY <3>1, <1>3, <1>4, <1>5
    <3>3. \A p \in Places : Job(p)' # None /\ Job(p)'.comp = c => Job(p)' = Job(p)
      BY <3>1, <1>3, <1>4, <1>5
    <3>4. \A t \in Targets :
            (\E p \in Places : Job(p)' # None /\ Job(p)'.comp = c /\ Job(p)'.target = t)
              <=> LegFor(c, t)
      BY <3>2, <3>3 DEF LegFor
    <3> HIDE DEF c
    <3>5. \A t \in Targets :
            (\E p \in Places : Job(p)' # None /\ Job(p)'.comp = c /\ Job(p)'.target = t)
              <=> t \in fan[c].want \ fan[c].sent
      BY <3>1, <3>4 DEF Exact, c
    <3>6. /\ c \in 1 .. lastComp' /\ fan'[c] = fan[c] /\ comps'[j].id = c
          /\ comps'[j].item = fan'[c].item
          /\ comps'[j].remaining = Cardinality(fan'[c].want \ fan'[c].sent)
      BY <3>1, <1>5, <1>6 DEF Exact, c
    <3> QED BY <3>5, <3>6 DEF Exact, LegFor
  <2> QED BY <2>1, <2>2 DEF CompletionAccounting
<1>13. NoSecondSend'
  <2>1. ASSUME NEW p \in Places, Job(p)' # None, Job(p)'.comp # 0
        PROVE  /\ Job(p)'.target \in fan'[Job(p)'.comp].want \ fan'[Job(p)'.comp].sent
               /\ \A q \in Places \ {p} :
                    Job(q)' # None /\ Job(q)'.comp = Job(p)'.comp
                       => Job(q)'.target # Job(p)'.target
    <3>1. CASE \E t \in T : f[t] = p
      <4>1. PICK t \in T : f[t] = p
        BY <3>1
      <4>2. Job(p)'.comp = n /\ Job(p)'.target = t
        BY <4>1, <1>3
      <4>3. ASSUME NEW q \in Places \ {p}, Job(q)' # None, Job(q)'.comp = n
            PROVE  Job(q)'.target # t
        BY <4>1, <4>3, <1>3, <1>4, <1>5 DEF KnownCompletions
      <4> QED BY <4>2, <4>3, <1>6
    <3>2. CASE \A t \in T : f[t] # p
      <4>1. Job(p)' = Job(p) /\ Job(p) # None /\ Job(p).comp \in 1 .. lastComp
        <5>1. Job(p)' = Job(p) /\ Job(p) # None /\ Job(p).comp \in 0 .. lastComp
          BY <3>2, <2>1, <1>4 DEF KnownCompletions
        <5> QED BY <5>1, <2>1 DEF TypeOK
      <4>2. \A q \in Places \ {p} : Job(q)' # None /\ Job(q)'.comp = Job(p).comp
               => Job(q)' = Job(q)
        BY <4>1, <1>3, <1>4, <1>5
      <4>3. fan'[Job(p).comp] = fan[Job(p).comp]
        BY <4>1, <1>6
      <4> QED BY <4>1, <4>2, <4>3, <2>1 DEF NoSecondSend
    <3> QED BY <3>1, <3>2
  <2> QED BY <2>1 DEF NoSecondSend
<1> QED BY <1>8, <1>9, <1>11, <1>12, <1>13

\* An item marked before a step that marks nothing new and keeps the history
\* was rightly marked after it, too.
LEMMA OldMarksKeep ==
    ASSUME ForwardedMeansDelivered, UNCHANGED <<lastComp, fan>>, dropped \subseteq dropped',
           \A i \in Items : inbox'[i] = "forwarded" => inbox[i] = "forwarded" \/ i \in dropped'
    PROVE  ForwardedMeansDelivered'
  BY DEF ForwardedMeansDelivered

\* The last success of a fan-out marks an item whose destinations are all
\* reached.
LEMMA SuccessMarks ==
    ASSUME TypeOK, LegInv, ForwardedMeansDelivered, LegSucceeds
    PROVE  ForwardedMeansDelivered'
<1> DEFINE l == handLeg
<1>1. /\ l # None /\ None \in Places /\ Job(None) = l
      /\ UNCHANGED <<lastComp, dropped>>
      /\ inbox' = SetForwarded(CompletedItems(l.comp), "forwarded")
  BY DEF LegSucceeds, Places, Job
<1>2. \A c \in 1 .. lastComp :
        /\ fan'[c].item = fan[c].item
        /\ fan'[c].want = fan[c].want
        /\ fan'[c].sent = IF c = l.comp THEN fan[c].sent \cup {l.target}
                          ELSE fan[c].sent
  BY DEF LegSucceeds, TypeOK, FanOutRecord
<1>3. \A c \in 1 .. lastComp : fan[c].sent \subseteq fan[c].want /\ c # 0
  BY DEF LegInv, ReachedWasWanted, TypeOK
<1>4. l.comp # 0 => l.target \in Left(l.comp)
  BY <1>1 DEF LegInv, NoSecondSend
<1>5. ASSUME NEW c \in 1 .. lastComp, fan[c].sent = fan[c].want
      PROVE  fan'[c].sent = fan'[c].want
  BY <1>2, <1>3, <1>4, <1>5 DEF Left
<1>6. ASSUME NEW i \in CompletedItems(l.comp)
      PROVE  \E c \in 1 .. lastComp : fan'[c].item = i /\ fan'[c].sent = fan'[c].want
  <2>1. PICK k \in CompSlots : /\ comps[k] # None /\ comps[k].id = l.comp
                               /\ comps[k].remaining = 1 /\ comps[k].item = i
    BY <1>6 DEF CompletedItems
  <2>2. /\ l.comp \in 1 .. lastComp /\ fan[l.comp].item = i
        /\ Cardinality(Left(l.comp)) = 1
    BY <2>1 DEF LegInv, CompletionAccounting, Exact
  <2>3. IsFiniteSet(Left(l.comp))
    <3>1. IsFiniteSet(Targets) /\ Left(l.comp) \in SUBSET Targets
      BY <2>2, Capacities, FS_AddElement DEF Targets, TypeOK, FanOutRecord, Left
    <3> QED BY <3>1, FS_Subset
  <2>4. PICK x : Left(l.comp) = {x}
    BY <2>2, <2>3, FS_Singleton
  <2>5. Left(l.comp) = {l.target}
    BY <2>2, <2>4, <1>3, <1>4
  <2>6. fan'[l.comp].sent = fan'[l.comp].want
    BY <2>2, <2>5, <1>2, <1>3 DEF Left
  <2> QED BY <2>2, <2>6, <1>2
<1>7. \A i \in Items : inbox'[i] = "forwarded"
                       => inbox[i] = "forwarded" \/ i \in CompletedItems(l.comp)
  BY <1>1 DEF SetForwarded
<1>8. ASSUME NEW i \in Items, inbox'[i] = "forwarded", i \notin dropped'
      PROVE  \E c \in 1 .. lastComp' : fan'[c].item = i /\ fan'[c].sent = fan'[c].want
  <2>1. CASE i \in CompletedItems(l.comp)
    BY <2>1, <1>1, <1>6
  <2>2. CASE inbox[i] = "forwarded"
    <3>1. PICK c \in 1 .. lastComp : fan[c].item = i /\ fan[c].sent = fan[c].want
      BY <2>2, <1>1, <1>8 DEF ForwardedMeansDelivered
    <3> QED BY <3>1, <1>1, <1>2, <1>5
  <2> QED BY <2>1, <2>2, <1>7, <1>8
<1> QED BY <1>8 DEF ForwardedMeansDelivered

\* A fan-out adds to the history and marks nothing.
LEMMA FanOutMarks ==
    ASSUME TypeOK, ForwardedMeansDelivered,
           NEW T \in SUBSET Targets, NEW k \in CompSlots, FanOut(T, k)
    PROVE  ForwardedMeansDelivered'
<1>1. /\ UNCHANGED <<inbox, dropped>>
      /\ \A c \in 1 .. lastComp : c \in 1 .. lastComp' /\ fan'[c] = fan[c]
  BY DEF FanOut, TypeOK
<1> QED BY <1>1 DEF ForwardedMeansDelivered

-----------------------------------------------------------------------------
LEMMA IndInit == Init => IndInv
<1> SUFFICES ASSUME Init PROVE IndInv
  OBVIOUS
<1>1. TypeOK
  BY TypeInit
<1>2. \A p \in Places : Job(p) = None
  BY DEF Init, Places, Job
<1>3. LegInv
  BY <1>2 DEF Init, LegInv, KnownCompletions, ReachedWasWanted, OneRecordPerId,
              CompletionAccounting, NoSecondSend
<1>4. OneHand /\ ForwardedMeansDelivered
  BY DEF Init, OneHand, ForwardedMeansDelivered
<1> QED BY <1>1, <1>3, <1>4 DEF IndInv

LEMMA IndNext == IndInv /\ [Next]_vars => IndInv'
<1> SUFFICES ASSUME IndInv, [Next]_vars PROVE IndInv'
  OBVIOUS
<1>1. TypeOK /\ OneHand /\ LegInv /\ ForwardedMeansDelivered /\ TypeOK'
  BY TypeNext DEF IndInv
<1> USE <1>1
<1> DEFINE Rest == OneHand' /\ LegInv' /\ ForwardedMeansDelivered'
<1> SUFFICES Rest
  BY DEF IndInv
<1>2. ASSUME UNCHANGED <<legs, handLeg, comps, lastComp, fan>> PROVE LegInv'
  <2>1. \A p \in Places : Job(p)' = Job(p)
    BY <1>2 DEF Job
  <2> QED BY <1>2, <2>1, NoticeKeeps
<1>3. ASSUME NEW i \in Items, Receive(i) \/ Delete(i) PROVE Rest
  <2>1. LegInv'
    BY <1>2, <1>3 DEF Receive, Delete
  <2>2. ForwardedMeansDelivered'
    BY <1>3, OldMarksKeep DEF Receive, Delete, TypeOK
  <2> QED BY <1>3, <2>1, <2>2 DEF Receive, Delete, OneHand
<1>4. ASSUME NEW i \in Items, NEW s \in FwdSlots, EnqueueForward(i, s) PROVE Rest
  BY <1>2, <1>4, OldMarksKeep DEF EnqueueForward, OneHand
<1>5. ASSUME NEW T \in SUBSET Channels, EnqueueNotify(T) PROVE Rest
  <2>1. PICK f \in Placements(T) : legs' = Placed(f, None, 0)
    BY <1>5 DEF EnqueueNotify
  <2>2. ASSUME NEW s \in LegSlots, legs'[s] # legs[s]
        PROVE  legs[s] = None /\ legs'[s] # None /\ legs'[s].comp = 0
    <3>1. DOMAIN f = T /\ \A t \in T : legs[f[t]] = None
      BY DEF Placements, FreeIn
    <3>2. PICK t \in T : f[t] = s /\ legs'[s] = NewLeg(CHOOSE u \in T : f[u] = s, None, 0)
      BY <2>1, <2>2, <3>1 DEF Placed
    <3>3. (CHOOSE u \in T : f[u] = s) \in Targets
      BY <3>2 DEF Targets
    <3>4. legs'[s] \in Leg
      BY <3>2, <3>3, NewLegType
    <3>5. legs'[s].comp = 0
      BY <3>2 DEF NewLeg
    <3>6. legs[s] = None
      BY <3>1, <3>2
    <3> QED BY <3>4, <3>5, <3>6, DistinctValues
  <2>3. LegInv'
    BY <1>5, <2>2, NoticeKeeps DEF EnqueueNotify, Job, Places
  <2> QED BY <1>5, <2>3, OldMarksKeep DEF EnqueueNotify, OneHand
<1>6. ASSUME NEW s \in EmailSlots, EnqueueEmail(s) PROVE Rest
  <2>1. NewLeg(Email, None, 0) \in Leg
    BY NewLegType DEF Targets
  <2>2. s \in LegSlots /\ s # None /\ legs[s] = None
        /\ legs'[s] # None /\ legs'[s].comp = 0
        /\ \A r \in LegSlots \ {s} : legs'[r] = legs[r]
    BY <1>6, <2>1, DistinctValues DEF EnqueueEmail, LegSlots, NewLeg, TypeOK
  <2>3. LegInv'
    BY <1>6, <2>2, NoticeKeeps DEF EnqueueEmail, Job, Places
  <2> QED BY <1>6, <2>3, OldMarksKeep DEF EnqueueEmail, OneHand
<1>7. CASE WifiUp \/ WifiDown
  BY <1>2, <1>7, OldMarksKeep DEF WifiUp, WifiDown, OneHand
<1>8. ASSUME NEW s \in FwdSlots, PopForward(s) PROVE Rest
  BY <1>2, <1>8, OldMarksKeep DEF PopForward, OneHand, Idle
<1>9. CASE DropByRule
  <2>1. ForwardedMeansDelivered'
    BY <1>9, OldMarksKeep DEF DropByRule, SetForwarded
  <2> QED BY <1>2, <1>9, <2>1 DEF DropByRule, OneHand
<1>10. CASE NoDestination
  BY <1>2, <1>10, OldMarksKeep DEF NoDestination, OneHand
<1>11. ASSUME NEW T \in SUBSET Targets, NEW k \in CompSlots, FanOut(T, k) PROVE Rest
  BY <1>11, FanOutKeeps, FanOutMarks DEF FanOut, OneHand
<1>12. ASSUME NEW T \in SUBSET Targets, RequeueForward(T) PROVE Rest
  BY <1>2, <1>12, OldMarksKeep DEF RequeueForward, OneHand
<1>13. ASSUME NEW s \in LegSlots, Pop(s) PROVE Rest
  <2>1. /\ s \in Places /\ None \in Places /\ s # None
        /\ Job(s) # None /\ Job(None) = None
        /\ Job(s)' = None /\ Job(None)' = Job(s)
        /\ \A p \in Places \ {s, None} : Job(p)' = Job(p)
    BY <1>13, DistinctValues DEF Pop, Idle, Job, Places, TypeOK, Emptied
  <2>2. LegInv'
    BY <1>13, <2>1, MoveKeeps DEF Pop
  <2> QED BY <1>13, <2>2, OldMarksKeep DEF Pop, Idle, OneHand
<1>14. CASE LegSucceeds
  BY <1>14, SuccessKeeps, SuccessMarks DEF LegSucceeds, OneHand
<1>15. CASE LegFails \/ LegDiscarded
  <2>1. /\ \A p \in Places : \/ Job(p)' = Job(p)
                             \/ Job(p)' = None /\ Job(p).comp \in {handLeg.comp}
        /\ comps' = Cancelled({handLeg.comp})
    BY <1>15 DEF LegFails, LegDiscarded, Job
  <2>2. LegInv'
    BY <1>15, <2>1, CancelKeeps DEF LegFails, LegDiscarded
  <2>3. ForwardedMeansDelivered'
    BY <1>15, OldMarksKeep DEF LegFails, LegDiscarded, SetForwarded
  <2> QED BY <1>15, <2>2, <2>3 DEF LegFails, LegDiscarded, OneHand
<1>16. ASSUME NEW s \in LegSlots, LegRetries(s) PROVE Rest
  <2>1. /\ handLeg \in Leg
        /\ Retried(handLeg).comp = handLeg.comp
        /\ Retried(handLeg).target = handLeg.target
        /\ handLeg.attempts + 1 \in 0 .. RetryMax - 1
    BY <1>16, Capacities DEF LegRetries, TypeOK, Leg, Exhausted, Retried
  <2>2. legs'[s] = Retried(handLeg) /\ legs'[s] # None
    <3>1. Retried(handLeg) \in Leg
      BY <2>1 DEF Leg, Retried
    <3> QED BY <1>16, <3>1, DistinctValues DEF LegRetries, TypeOK
  <2>3. /\ s \in Places /\ None \in Places /\ s # None
        /\ Job(None) # None /\ Job(s) = None
        /\ Job(None)' = None /\ Job(s)' # None
        /\ Job(s)'.comp = Job(None).comp /\ Job(s)'.target = Job(None).target
        /\ \A p \in Places \ {None, s} : Job(p)' = Job(p)
    BY <1>16, <2>1, <2>2, DistinctValues DEF LegRetries, Job, Places, TypeOK
  <2>4. LegInv'
    BY <1>16, <2>3, MoveKeeps DEF LegRetries
  <2> QED BY <1>16, <2>4, OldMarksKeep DEF LegRetries, OneHand
<1>17. CASE PurgePush \/ PurgeEmail
  <2>1. PICK gone \in SUBSET LegSlots :
          /\ legs' = Emptied(gone)
          /\ comps' = Cancelled({legs[s].comp : s \in gone})
    BY <1>17 DEF PurgePush, PurgeEmail, UsedIn, LegSlots
  <2>2. \A p \in Places : \/ Job(p)' = Job(p)
                          \/ Job(p)' = None /\ Job(p).comp \in {legs[s].comp : s \in gone}
    BY <1>17, <2>1 DEF PurgePush, PurgeEmail, Emptied, Job, Places
  <2>3. LegInv'
    BY <1>17, <2>1, <2>2, CancelKeeps DEF PurgePush, PurgeEmail
  <2>4. ForwardedMeansDelivered'
    BY <1>17, OldMarksKeep DEF PurgePush, PurgeEmail, SetForwarded
  <2> QED BY <1>17, <2>3, <2>4 DEF PurgePush, PurgeEmail, OneHand, Idle
<1>18. CASE UNCHANGED vars
  BY <1>2, <1>18, OldMarksKeep DEF vars, OneHand
<1> HIDE DEF Rest
<1>19. CASE Environment
  BY <1>3, <1>4, <1>5, <1>6, <1>7, <1>19 DEF Environment
<1>20. CASE FinishForward
  BY <1>9, <1>10, <1>11, <1>12, <1>20 DEF FinishForward
<1>21. CASE FinishLeg
  BY <1>14, <1>15, <1>16, <1>21 DEF FinishLeg
<1>22. CASE Worker
  BY <1>8, <1>13, <1>17, <1>20, <1>21, <1>22 DEF Worker, PopPush, PopEmail
<1> QED BY <1>18, <1>19, <1>22 DEF Next

LEMMA Inductive == Spec => []IndInv
  BY IndInit, IndNext, PTL DEF Spec

\* Each record has a leg of its own, and there are as many records as slots:
\* while a slot is free, so is a record.
LEMMA RecordLeft == IndInv => RecordsSuffice
<1> SUFFICES ASSUME IndInv, handFwd # None, FreeIn(LegSlots) # {},
                    \A k \in CompSlots : comps[k] # None
             PROVE  FALSE
  BY DEF RecordsSuffice
<1> DEFINE g == [k \in CompSlots |->
                   CHOOSE s \in LegSlots : legs[s] # None /\ legs[s].comp = comps[k].id]
<1>1. ASSUME NEW k \in CompSlots
      PROVE  \E s \in LegSlots : legs[s] # None /\ legs[s].comp = comps[k].id
  <2>1. Exact(comps[k]) /\ comps[k].remaining \in Nat \ {0}
    BY DEF IndInv, LegInv, CompletionAccounting, TypeOK, Completion
  <2>2. Left(comps[k].id) # {}
    BY <2>1, FS_EmptySet DEF Exact
  <2>3. PICK t \in Targets : t \in Left(comps[k].id)
    BY <2>1, <2>2 DEF IndInv, TypeOK, FanOutRecord, Exact, Left
  <2>4. LegFor(comps[k].id, t)
    BY <2>1, <2>3 DEF Exact
  <2>5. handLeg = None
    BY DEF IndInv, OneHand
  <2> QED BY <2>4, <2>5 DEF LegFor, Places, Job
<1>2. \A k \in CompSlots : /\ g[k] \in LegSlots /\ legs[g[k]] # None
                            /\ legs[g[k]].comp = comps[k].id
  BY <1>1
<1>3. g \in Injection(CompSlots, UsedIn(LegSlots))
  <2>1. g \in [CompSlots -> UsedIn(LegSlots)]
    BY <1>2 DEF UsedIn
  <2>2. \A j, k \in CompSlots : g[j] = g[k] => j = k
    BY <1>2 DEF IndInv, LegInv, OneRecordPerId
  <2> QED BY <2>1, <2>2 DEF Injection, IsInjective
<1>4. UsedIn(LegSlots) \in SUBSET LegSlots /\ UsedIn(LegSlots) # LegSlots
  BY DEF UsedIn, FreeIn
<1>5. /\ IsFiniteSet(UsedIn(LegSlots))
      /\ Cardinality(UsedIn(LegSlots)) <= Cardinality(LegSlots)
      /\ Cardinality(UsedIn(LegSlots)) # Cardinality(LegSlots)
  BY <1>4, Capacities, FS_Subset
<1>6. Cardinality(CompSlots) <= Cardinality(UsedIn(LegSlots))
  BY <1>3, <1>5, FS_Injection
<1>7. Cardinality(UsedIn(LegSlots)) \in Nat /\ Cardinality(LegSlots) \in Nat
  BY <1>5, Capacities, FS_CardinalityType
<1> QED BY <1>5, <1>6, <1>7, Capacities

-----------------------------------------------------------------------------
\* Whatever the sizes of the queues, a completion record counts exactly the
\* destinations that are still to be reached.
THEOREM AccountingHolds == Spec => []CompletionAccounting
  BY Inductive, PTL DEF IndInv, LegInv

\* The inbox never shows a message as forwarded that no fan-out delivered to
\* every one of its destinations, unless a rule discarded it.
THEOREM ForwardedHolds == Spec => []ForwardedMeansDelivered
  BY Inductive, PTL DEF IndInv

\* No fan-out sends to a destination that it has reached already.
THEOREM NoSecondSendHolds == Spec => []NoSecondSend
  BY Inductive, PTL DEF IndInv, LegInv

\* process_forward_one never runs out of completion records for a forward
\* whose legs fit.
THEOREM AvailableHolds == Spec => []RecordsSuffice
  BY Inductive, RecordLeft, PTL
=============================================================================
