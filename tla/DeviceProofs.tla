---------------------------- MODULE DeviceProofs ----------------------------
(***************************************************************************)
(* Proofs about what the device keeps (MCDevice).                          *)
(*                                                                         *)
(* ConfigStore: for any number of changes and power cuts, any contents of  *)
(* the partition at the first boot and a GenMod of at least 4, with writes *)
(* that may garble what they write.  The theorems about what is stored     *)
(* assume that a slot can be read: Unreadable \subseteq {{}}.              *)
(*                                                                         *)
(* Settings, CaProvision, Wifi, UsbRecovery: what run device checks of     *)
(* them, for any tasks, networks, channels, servers and authorities, any   *)
(* runs of the tool, requests and resets.                                  *)
(*                                                                         *)
(* EsimSwitch, Lpa: which profile jobs act on, for any profiles, lists and *)
(* operations; and what an installation reports, for any servers and       *)
(* notifications.                                                          *)
(***************************************************************************)
EXTENDS MCDevice, Sequences, TLAPS, FiniteSetTheorems, WellFoundedInduction

-----------------------------------------------------------------------------
(* Type correctness                                                        *)

\* The next generation is the newer one, also where it wraps round.
LEMMA NextIsNewer ==
    ASSUME NEW g \in Generations
    PROVE  /\ NextGeneration(g) \in Generations
           /\ GenerationNewer(NextGeneration(g), g)
           /\ ~GenerationNewer(g, NextGeneration(g))
BY StoreAssumption DEF NextGeneration, GenerationNewer, Generations

\* A slot that is selected is one of the two and holds a blob.
LEMMA SelectedType ==
    ASSUME TypeOK, NEW unread
    PROVE  LET slot == SelectSlots(Schema, unread).slot
           IN  /\ slot \in Slots \cup {NoSlot}
               /\ slot # NoSlot => blob[slot] \in Blob
<1> DEFINE slot == SelectSlots(Schema, unread).slot
<1>1. slot \in Slots \cup {NoSlot}
  BY DEF SelectSlots, Slots
<1>2. ASSUME slot # NoSlot PROVE ReadSlot(slot, Schema, unread) = "valid"
  BY <1>2 DEF SelectSlots, Slots, NoSlot
<1>3. slot # NoSlot => blob[slot] # Absent
  BY <1>2 DEF ReadSlot
<1> QED BY <1>1, <1>3 DEF TypeOK, Stored

\* A blob is one, as SelectTarget makes it.
LEMMA FreshType ==
    ASSUME NEW v \in Values, NEW g \in Generations
    PROVE  [gen |-> NextGeneration(g), schema |-> RequiredSchema(v), val |-> v] \in Blob
BY NextIsNewer DEF Blob, RequiredSchema

LEMMA TypeInit == Init => TypeOK
<1> SUFFICES ASSUME Init PROVE TypeOK
  OBVIOUS
<1>1. PICK s \in Stores : blob = s.blob /\ mark = s.mark /\ state = s.state
  BY DEF Init
<1>2. s \in [blob : [Slots -> Stored], mark : [Slots -> Stored],
             state : {"absent", "migrating", "ready"}]
  BY <1>1, StoreAssumption
<1>3. 0 \in Generations /\ 0 \in Slots /\ Absent \in Stored /\ 0 \in 0 .. MaxCuts
  BY StoreAssumption DEF Generations, Slots, Stored
<1> QED BY <1>1, <1>2, <1>3 DEF Init, NoJob, TypeOK, Values

LEMMA EndJobType ==
    ASSUME EndJob
    PROVE  /\ step' \in {"idle"} /\ next' \in Values /\ target' \in Slots
           /\ fresh' \in Stored /\ current' \in Values
BY DEF EndJob, Values, Slots, Stored

LEMMA LoadedType ==
    ASSUME TypeOK, NEW v \in Values, NEW s, Loaded(v, s)
    PROVE  /\ step' \in {"idle", "select"} /\ next' \in Values /\ target' \in Slots
           /\ fresh' \in Stored /\ config' \in Values /\ power' \in {"loading", "up", power}
BY EndJobType DEF Loaded, Publish, TypeOK

LEMMA TypeNext == TypeOK /\ [Next]_vars => TypeOK'
<1> SUFFICES ASSUME TypeOK, [Next]_vars PROVE TypeOK'
  OBVIOUS
<1>1. CASE Boot
  BY <1>1 DEF Boot, TypeOK, flash
<1>2. CASE Load
  <2>1. PICK unread \in Unreadable :
          LET slot == SelectSlots(Schema, unread).slot
          IN  \/ /\ slot # NoSlot
                 /\ inUse' = [slot |-> slot, gen |-> blob[slot].gen]
                 /\ \/ Loaded(blob[slot].val, blob[slot].schema)
                    \/ WriteStateFirst(blob[slot].val)
              \/ /\ slot = NoSlot
                 /\ \/ Loaded(LegacyValue, 0)
                    \/ WriteStateFirst(LegacyValue)
                 /\ UNCHANGED inUse
    BY <1>2 DEF Load
  <2> DEFINE slot == SelectSlots(Schema, unread).slot
  <2>2. /\ slot \in Slots \cup {NoSlot}
        /\ slot # NoSlot => blob[slot].gen \in Generations /\ blob[slot].val \in Values
    BY SelectedType DEF Blob
  <2>3. inUse' \in [slot : Slots \cup {NoSlot}, gen : Generations]
    BY <2>1, <2>2 DEF TypeOK
  <2>4. \E v \in Values : (\E s : Loaded(v, s)) \/ WriteStateFirst(v)
    BY <2>1, <2>2 DEF LegacyValue, Values
  <2>5. /\ step' \in {"idle", "select", "state"} /\ next' \in Values
        /\ target' \in Slots /\ fresh' \in Stored /\ config' \in Values
        /\ power' \in {"loading", "up", power} /\ current' \in Values
    <3>1. ASSUME NEW v \in Values, NEW s, Loaded(v, s) PROVE current' \in Values
      BY <3>1, EndJobType DEF Loaded, Publish, TypeOK
    <3>2. ASSUME NEW v \in Values, WriteStateFirst(v)
          PROVE  /\ step' = "state" /\ next' \in Values
                 /\ UNCHANGED <<config, power, target, fresh, current>>
      BY <3>2 DEF WriteStateFirst
    <3> QED BY <2>4, <3>1, <3>2, LoadedType DEF TypeOK
  <2> QED BY <1>2, <2>3, <2>5 DEF Load, TypeOK, flash, SaveSteps
<1>3. CASE WriteState
  <2>1. \E s : Loaded(next, s)
    BY <1>3 DEF WriteState
  <2>2. /\ step' \in {"idle", "select"} /\ next' \in Values
        /\ target' \in Slots /\ fresh' \in Stored /\ config' \in Values
        /\ power' \in {"loading", "up", power}
    BY <2>1, LoadedType DEF TypeOK
  <2>3. current' \in Values
    BY <2>1, EndJobType DEF Loaded, Publish, TypeOK
  <2> QED BY <1>3, <2>2, <2>3 DEF WriteState, TypeOK, SaveSteps
<1>4. ASSUME NEW u \in Updates, BeginUpdate(u) PROVE TypeOK'
  BY <1>4 DEF BeginUpdate, TypeOK, flash, Values, SaveSteps
<1>5. CASE SelectTarget
  <2>1. PICK unread \in Unreadable :
          LET found == SelectSlots(Schema, unread)
              base  == IF found.slot = NoSlot THEN inUse
                       ELSE [slot |-> found.slot, gen |-> blob[found.slot].gen]
          IN  /\ target' = OtherSlot(base.slot)
              /\ fresh' = [gen |-> NextGeneration(base.gen),
                           schema |-> RequiredSchema(next), val |-> next]
    BY <1>5 DEF SelectTarget
  <2> DEFINE found == SelectSlots(Schema, unread)
             base  == IF found.slot = NoSlot THEN inUse
                      ELSE [slot |-> found.slot, gen |-> blob[found.slot].gen]
  <2>2. base.gen \in Generations
    BY SelectedType DEF TypeOK, Blob
  <2>3. fresh' \in Stored
    BY <2>1, <2>2, FreshType DEF TypeOK, Stored
  <2>4. target' \in Slots
    BY <2>1 DEF OtherSlot, Slots
  <2> QED BY <1>5, <2>3, <2>4 DEF SelectTarget, TypeOK, flash, SaveSteps
<1>6. CASE EraseMarker
  BY <1>6 DEF EraseMarker, TypeOK, Stored, SaveSteps
<1>7. Written(fresh) \subseteq Stored
  BY StoreAssumption DEF Written, TypeOK, Stored, Blob, Rubbish, Generations, Values
<1>8. CASE WriteBlob
  BY <1>7, <1>8 DEF WriteBlob, TypeOK, SaveSteps
<1>9. CASE WriteMarker
  BY <1>7, <1>9 DEF WriteMarker, TypeOK, SaveSteps
<1>10. CASE WriteReady
  BY <1>10 DEF WriteReady, TypeOK, SaveSteps
<1>11. CASE FinishSave
  <2>1. fresh.gen \in Generations
    BY StoreAssumption DEF TypeOK, Stored, Blob, Absent, Generations
  <2> QED BY <1>11, <2>1, EndJobType DEF FinishSave, Publish, TypeOK, flash, Values
<1>12. CASE Fail
  BY <1>12, EndJobType DEF Fail, TypeOK, flash
<1>13. CASE CutPower
  BY <1>13, EndJobType, StoreAssumption DEF CutPower, TypeOK, flash, Values, Generations
<1>14. CASE Confirm
  BY <1>14 DEF Confirm, TypeOK, flash, job
<1>15. CASE UNCHANGED vars
  BY <1>15 DEF vars, flash, job, TypeOK
<1> QED
  BY <1>1, <1>2, <1>3, <1>4, <1>5, <1>6, <1>8, <1>9, <1>10, <1>11, <1>12, <1>13,
     <1>14, <1>15 DEF Next, SaveStep

\* Type correctness of the partition, the state in RAM and the job under way.
THEOREM TypeCorrect == Spec => []TypeOK
BY TypeInit, TypeNext, PTL DEF Spec

-----------------------------------------------------------------------------
(* What a restart would load                                               *)

Whole(i)   == ReadSlot(i, Schema, {}) = "valid"
Future(i)  == ReadSlot(i, Schema, {}) = "unsupported"
Useless(i) == ~Whole(i) /\ ~Future(i)

\* A slot counts if its marker is that of its blob; otherwise it is of no use.
MarkerDecides ==
    \A i \in Slots :
        /\ mark[i] = blob[i] /\ blob[i] \in Blob /\ blob[i].schema \in {6, 7} => Whole(i)
        /\ mark[i] = Absent \/ mark[i] # blob[i] => Useless(i)

\* A slot that counts is loaded if its sibling is of no use, ...
LoneSlot ==
    \A i \in Slots : Whole(i) /\ Useless(OtherSlot(i)) => Effective = blob[i].val

\* ... or counts too and holds the generation before.
NewestSlot ==
    \A i \in Slots :
        /\ Whole(i) /\ Whole(OtherSlot(i))
        /\ blob[OtherSlot(i)].gen \in Generations
        /\ blob[i].gen = NextGeneration(blob[OtherSlot(i)].gen)
        => Effective = blob[i].val

\* Without a slot that counts the legacy configuration is loaded.
NoWholeSlot == (\A i \in Slots : ~Whole(i)) => Effective = {}

LEMMA MarkerDecidesHolds == MarkerDecides
BY DEF MarkerDecides, Whole, Future, Useless, ReadSlot, Schema, Absent, Blob

LEMMA LoneSlotHolds == LoneSlot
BY DEF LoneSlot, SelectSlots, Effective, OtherSlot, Slots, NoSlot, Whole, Future, Useless

LEMMA NewestSlotHolds == NewestSlot
BY NextIsNewer DEF NewestSlot, SelectSlots, Effective, OtherSlot, Slots, NoSlot, Whole, Future

LEMMA NoWholeSlotHolds == NoWholeSlot
BY DEF NoWholeSlot, SelectSlots, Effective, Slots, NoSlot, Whole, LegacyValue

\* The same of the state after a step.
LEMMA AfterStep == MarkerDecides' /\ LoneSlot' /\ NewestSlot' /\ NoWholeSlot'
BY MarkerDecidesHolds, LoneSlotHolds, NewestSlotHolds, NoWholeSlotHolds, PTL

\* What is loaded, and what is in a slot, depends on blobs and markers only.
LEMMA SameFlash ==
    ASSUME UNCHANGED <<blob, mark>>
    PROVE  /\ Effective' = Effective
           /\ \A i \in Slots : (Whole(i)' <=> Whole(i)) /\ (Useless(i)' <=> Useless(i))
BY ZenonT(60) DEF Effective, SelectSlots, Whole, Future, Useless, ReadSlot

\* What a load or a save finds if it selects a slot, and if it selects none.
LEMMA Found ==
    LET found == SelectSlots(Schema, {})
    IN  /\ found.slot # NoSlot =>
             /\ found.slot \in Slots /\ Whole(found.slot)
             /\ Effective = blob[found.slot].val
        /\ found.slot = NoSlot => Effective = {}
        /\ found.slot = NoSlot /\ ~found.unsupported => \A i \in Slots : Useless(i)
<1> DEFINE found == SelectSlots(Schema, {})
<1>1. found.slot # NoSlot => found.slot \in Slots /\ Whole(found.slot)
  BY DEF SelectSlots, Slots, NoSlot, Whole
<1>2. Effective = IF found.slot = NoSlot THEN {} ELSE blob[found.slot].val
  BY DEF Effective, LegacyValue
<1>3. ASSUME found.slot = NoSlot, ~found.unsupported PROVE \A i \in Slots : Useless(i)
  <2> DEFINE valid   == {i \in Slots : Whole(i)}
             beyond  == {i \in Slots : Future(i)}
             newest  == IF valid = {0, 1}
                        THEN IF GenerationNewer(blob[1].gen, blob[0].gen) THEN 1 ELSE 0
                        ELSE IF 0 \in valid THEN 0 ELSE 1
             blocked == IF valid = {} THEN beyond
                        ELSE {i \in beyond :
                                 GenerationNewer(blob[i].gen, blob[newest].gen)}
  <2>1. found.slot = IF valid = {} \/ blocked # {} THEN NoSlot ELSE newest
    BY DEF SelectSlots, Whole, Future
  <2>2. found.unsupported <=> blocked # {}
    BY DEF SelectSlots, Whole, Future
  <2>3. newest # NoSlot
    BY DEF NoSlot
  <2>4. valid = {} /\ beyond = {}
    <3> HIDE DEF valid, beyond, found
    <3> QED BY <1>3, <2>1, <2>2, <2>3
  <2> QED BY <2>4 DEF Useless
<1> QED BY <1>1, <1>2, <1>3

LEMMA SameSlot ==
    ASSUME NEW i \in Slots, blob'[i] = blob[i], mark'[i] = mark[i]
    PROVE  (Whole(i)' <=> Whole(i)) /\ (Useless(i)' <=> Useless(i))
BY DEF Whole, Future, Useless, ReadSlot

-----------------------------------------------------------------------------
(* The inductive invariant.  A save writes a slot whose sibling holds what *)
(* is stored, or is of no use because nothing is; and whoever starts one   *)
(* starts from a value that has every acknowledged change.                 *)

Sibling == OtherSlot(target)

\* What the slot that is not being written holds.
Held == IF Whole(Sibling) THEN blob[Sibling].val ELSE {}

\* The blob under way is to replace what the sibling holds.
Replacing ==
    /\ fresh \in Blob /\ fresh.schema \in {6, 7} /\ fresh.val = next
    /\ Whole(Sibling) \/ Useless(Sibling)
    /\ Whole(Sibling) => fresh.gen = NextGeneration(blob[Sibling].gen)
    /\ acked \subseteq Held

Durable ==
    /\ acked \subseteq Effective
    /\ power = "up" => acked \subseteq config
    /\ step \in {"state"} \cup SaveSteps => acked \subseteq next
    /\ current \subseteq next
    /\ current = {} \/ \E u \in Updates : current = {u}
    /\ power # "up" => current = {}
    /\ step \in {"load", "state"} => power = "loading"
    /\ step \in {"erase", "blob", "mark", "ready", "verify"} => Replacing
    /\ step \in {"erase", "blob", "mark"} => Effective = Held
    /\ step \in {"blob", "mark"} => mark[target] = Absent
    /\ step \in {"ready", "verify"} => blob[target] = fresh

\* The slot that a save writes and its sibling.
LEMMA SiblingIs ==
    ASSUME TypeOK
    PROVE  /\ target \in Slots /\ Sibling \in Slots
           /\ Sibling # target /\ OtherSlot(Sibling) = target
           /\ blob[Sibling].gen \in Generations
BY StoreAssumption DEF TypeOK, Sibling, OtherSlot, Slots, Stored, Blob, Absent, Generations

\* Once its marker is there, the blob under way is what is loaded.
LEMMA Replaced ==
    ASSUME TypeOK, Replacing, blob[target] = fresh, mark[target] = fresh
    PROVE  Effective = next
<1>1. Whole(target)
  BY SiblingIs, MarkerDecidesHolds DEF MarkerDecides, Replacing
<1>2. OtherSlot(target) = Sibling
  BY DEF Sibling
<1> QED
  BY <1>1, <1>2, SiblingIs, LoneSlotHolds, NewestSlotHolds
     DEF LoneSlot, NewestSlot, Replacing

\* A slot of no use leaves what its sibling holds.
LEMMA HeldIsLoaded ==
    ASSUME TypeOK, Useless(target), Whole(Sibling) \/ Useless(Sibling)
    PROVE  Effective = Held
<1>1. CASE Whole(Sibling)
  BY <1>1, SiblingIs, LoneSlotHolds DEF LoneSlot, Held
<1>2. CASE Useless(Sibling)
  <2>1. ~Whole(0) /\ ~Whole(1)
    BY <1>2, SiblingIs DEF Useless, Slots
  <2> QED BY <1>2, <2>1, NoWholeSlotHolds DEF NoWholeSlot, Slots, Held, Useless
<1> QED BY <1>1, <1>2

\* The same of the state after a step, as implications.
ReplacedThen ==
    TypeOK /\ Replacing /\ blob[target] = fresh /\ mark[target] = fresh => Effective = next

HeldThen ==
    TypeOK /\ Useless(target) /\ (Whole(Sibling) \/ Useless(Sibling)) => Effective = Held

LEMMA ReplacedThenHolds == ReplacedThen
BY Replaced DEF ReplacedThen

LEMMA HeldThenHolds == HeldThen
BY HeldIsLoaded DEF HeldThen

LEMMA ThenAfterStep == ReplacedThen' /\ HeldThen'
BY ReplacedThenHolds, HeldThenHolds, PTL

-----------------------------------------------------------------------------
(* The steps of a save                                                     *)

\* Steps that leave the slots alone change neither what is loaded nor what a
\* save under way relies on.
LEMMA SameReplacing ==
    ASSUME TypeOK, UNCHANGED <<blob, mark, target, fresh, next, acked>>
    PROVE  /\ Held' = Held
           /\ Replacing' <=> Replacing
<1>1. Sibling' = Sibling /\ Sibling \in Slots
  BY SiblingIs DEF Sibling
<1>2. /\ ReadSlot(Sibling, Schema, {})' = ReadSlot(Sibling, Schema, {})
      /\ blob'[Sibling'] = blob[Sibling]
  BY <1>1 DEF ReadSlot
<1>3. /\ Whole(Sibling)' <=> Whole(Sibling)
      /\ Useless(Sibling)' <=> Useless(Sibling)
  BY <1>1, <1>2 DEF Whole, Useless, Future, ReadSlot
<1>4. Held' = Held
  BY <1>2, <1>3 DEF Held
<1> QED BY <1>2, <1>3, <1>4 DEF Replacing

\* A step that writes one slot leaves its sibling as it was.
LEMMA SiblingKept ==
    ASSUME TypeOK, UNCHANGED <<target, fresh, next, acked>>,
           blob'[Sibling] = blob[Sibling], mark'[Sibling] = mark[Sibling]
    PROVE  /\ Held' = Held
           /\ Replacing' <=> Replacing
<1>1. Sibling' = Sibling /\ Sibling \in Slots
  BY SiblingIs DEF Sibling
<1>2. blob'[Sibling'] = blob[Sibling]
  BY <1>1
<1>3. /\ Whole(Sibling)' <=> Whole(Sibling)
      /\ Useless(Sibling)' <=> Useless(Sibling)
  BY <1>1 DEF Whole, Useless, Future, ReadSlot
<1>4. Held' = Held
  BY <1>2, <1>3 DEF Held
<1> QED BY <1>2, <1>3, <1>4 DEF Replacing

LEMMA EraseMarkerStep ==
    ASSUME TypeOK, TypeOK', Durable, EraseMarker
    PROVE  Durable' /\ Effective' = Effective
<1>1. /\ mark'[target] = Absent /\ mark'[Sibling] = mark[Sibling]
      /\ blob' = blob /\ target' = target /\ step = "erase" /\ step' = "blob"
      /\ UNCHANGED <<fresh, next, acked, power, config, current>>
  BY SiblingIs DEF EraseMarker, TypeOK
<1>2. Held' = Held /\ Replacing'
  BY <1>1, SiblingKept DEF Durable
<1>3. Effective' = Held'
  <2>1. Useless(target)'
    BY <1>1, AfterStep, SiblingIs DEF MarkerDecides
  <2> QED BY <1>2, <2>1, ThenAfterStep DEF HeldThen, Replacing
<1> QED BY <1>1, <1>2, <1>3 DEF Durable, SaveSteps

LEMMA WriteBlobStep ==
    ASSUME TypeOK, TypeOK', Durable, WriteBlob
    PROVE  Durable' /\ Effective' = Effective
<1>1. /\ mark' = mark /\ blob'[Sibling] = blob[Sibling]
      /\ target' = target /\ step = "blob" /\ step' = "mark"
      /\ UNCHANGED <<fresh, next, acked, power, config, current>>
  BY SiblingIs DEF WriteBlob, TypeOK
<1>2. Held' = Held /\ Replacing'
  BY <1>1, SiblingKept DEF Durable
<1>3. Effective' = Held'
  <2>1. mark'[target'] = Absent /\ target' \in Slots
    BY <1>1, SiblingIs DEF Durable
  <2>2. Useless(target)'
    BY <2>1, AfterStep DEF MarkerDecides
  <2> QED BY <1>2, <2>2, ThenAfterStep DEF HeldThen, Replacing
<1> QED BY <1>1, <1>2, <1>3 DEF Durable, SaveSteps

LEMMA WriteMarkerStep ==
    ASSUME TypeOK, TypeOK', Durable, WriteMarker
    PROVE  Durable' /\ (Effective' = Effective \/ Effective' = next)
<1>1. /\ mark'[Sibling] = mark[Sibling] /\ blob' = blob /\ blob[target] = fresh
      /\ target' = target /\ step = "mark" /\ step' = "ready"
      /\ UNCHANGED <<fresh, next, acked, power, config, current>>
  BY SiblingIs DEF WriteMarker, TypeOK, BlobReadBack
<1>2. Held' = Held /\ Replacing'
  BY <1>1, SiblingKept DEF Durable
<1>3. Effective = Held /\ acked \subseteq Held
  BY <1>1 DEF Durable, Replacing
<1>4. Effective' = Held' \/ Effective' = next'
  <2>1. CASE mark'[target] = fresh
    BY <1>1, <1>2, <2>1, ThenAfterStep DEF ReplacedThen
  <2>2. CASE mark'[target] # fresh
    <3>1. Useless(target)'
      BY <1>1, <2>2, AfterStep, SiblingIs DEF MarkerDecides
    <3> QED BY <1>2, <3>1, ThenAfterStep DEF HeldThen, Replacing
  <2> QED BY <2>1, <2>2
<1> QED BY <1>1, <1>2, <1>3, <1>4 DEF Durable, SaveSteps

LEMMA FinishSaveStep ==
    ASSUME TypeOK, TypeOK', Durable, FinishSave
    PROVE  Durable' /\ Effective' = Effective /\ Effective = next
<1>1. /\ blob' = blob /\ mark' = mark /\ step = "verify" /\ step' = "idle"
      /\ power' = "up" /\ config' = next /\ next' = {} /\ current' = {}
      /\ acked' = acked \cup current /\ mark[target] = fresh
  BY DEF FinishSave, Publish, EndJob, MarkerReadBack, flash
<1>2. Effective = next
  BY <1>1, Replaced DEF Durable
<1>3. Effective' = Effective
  BY <1>1, SameFlash
<1>4. acked' \subseteq next
  BY <1>1 DEF Durable, SaveSteps
<1> QED BY <1>1, <1>2, <1>3, <1>4 DEF Durable, SaveSteps

-----------------------------------------------------------------------------
(* The steps of loads and updates                                          *)

\* Every slot can be read.
AllReadable == Unreadable \subseteq {{}}

LEMMA SelectTargetStep ==
    ASSUME AllReadable, TypeOK, TypeOK', Durable, SelectTarget
    PROVE  Durable' /\ Effective' = Effective
<1> DEFINE found == SelectSlots(Schema, {})
           base  == IF found.slot = NoSlot THEN inUse
                    ELSE [slot |-> found.slot, gen |-> blob[found.slot].gen]
<1>1. /\ ~found.unsupported
      /\ target' = OtherSlot(base.slot)
      /\ fresh' = [gen |-> NextGeneration(base.gen),
                   schema |-> RequiredSchema(next), val |-> next]
  BY DEF SelectTarget, AllReadable
<1>2. /\ step = "select" /\ step' = "erase"
      /\ UNCHANGED <<blob, mark, next, acked, power, config, current>>
  BY DEF SelectTarget, flash
<1>3. /\ Effective' = Effective
      /\ \A i \in Slots : (Whole(i)' <=> Whole(i)) /\ (Useless(i)' <=> Useless(i))
  BY <1>2, SameFlash
<1>4. base.gen \in Generations /\ next \in Values
  BY SelectedType DEF TypeOK, Blob
<1>5. /\ fresh' \in Blob /\ fresh'.schema \in {6, 7} /\ fresh'.val = next'
      /\ fresh'.gen = NextGeneration(base.gen)
  BY <1>1, <1>2, <1>4, FreshType DEF RequiredSchema
<1>6. /\ Sibling' \in Slots
      /\ found.slot # NoSlot => Sibling' = found.slot
  BY <1>1, Found DEF Sibling, OtherSlot, Slots
<1>7. CASE found.slot # NoSlot
  <2>1. /\ Whole(found.slot) /\ found.slot \in Slots
        /\ Effective = blob[found.slot].val
    BY <1>7, Found
  <2>2. Whole(Sibling)' /\ blob'[Sibling'] = blob[found.slot]
    BY <1>2, <1>6, <1>7, <2>1 DEF Whole, ReadSlot
  <2>3. Held' = Effective
    BY <2>1, <2>2 DEF Held
  <2>4. fresh'.gen = NextGeneration(blob'[Sibling'].gen)
    BY <1>5, <1>7, <2>2
  <2>5. Replacing'
    BY <1>2, <1>5, <2>2, <2>3, <2>4 DEF Replacing, Durable
  <2> QED BY <1>2, <1>3, <2>3, <2>5 DEF Durable, SaveSteps
<1>8. CASE found.slot = NoSlot
  <2>1. Effective = {} /\ \A i \in Slots : Useless(i)
    BY <1>1, <1>8, Found
  <2>2. Useless(Sibling)'
    BY <1>2, <1>6, <2>1 DEF Useless, Whole, Future, ReadSlot
  <2>3. Held' = {}
    BY <2>2 DEF Held, Useless
  <2>4. acked = {}
    BY <2>1 DEF Durable
  <2>5. Replacing'
    BY <1>2, <1>5, <2>2, <2>3, <2>4 DEF Replacing, Useless
  <2> QED BY <1>2, <1>3, <2>1, <2>3, <2>5 DEF Durable, SaveSteps
<1> QED BY <1>7, <1>8

\* Publishing a value, or saving it first, keeps to what is acknowledged.
LEMMA LoadedStep ==
    ASSUME Durable, TypeOK, NEW v, NEW schema, Loaded(v, schema),
           acked \subseteq v, UNCHANGED <<blob, mark, acked>>, power = "loading"
    PROVE  /\ Durable' /\ Effective' = Effective
           /\ step' \in SaveSteps => next' = v
<1>1. Effective' = Effective
  BY SameFlash
<1>2. current = {}
  BY DEF Durable
<1>3. CASE schema < 6
  <2>1. step' = "select" /\ next' = v /\ UNCHANGED <<power, config, current>>
    BY <1>3 DEF Loaded
  <2> QED BY <1>1, <1>2, <2>1 DEF Durable, SaveSteps
<1>4. CASE ~(schema < 6)
  <2>1. /\ step' = "idle" /\ next' = {} /\ power' = "up" /\ config' = v /\ current' = {}
    BY <1>4 DEF Loaded, Publish, EndJob
  <2> QED BY <1>1, <2>1 DEF Durable, SaveSteps
<1> QED BY <1>3, <1>4

LEMMA WriteStateFirstStep ==
    ASSUME Durable, TypeOK, NEW v, WriteStateFirst(v),
           acked \subseteq v, UNCHANGED <<blob, mark, acked>>, power = "loading"
    PROVE  Durable' /\ Effective' = Effective /\ step' \notin SaveSteps
<1>1. Effective' = Effective
  BY SameFlash
<1>2. step' = "state" /\ next' = v /\ UNCHANGED <<power, config, current>>
  BY DEF WriteStateFirst
<1> QED BY <1>1, <1>2 DEF Durable, SaveSteps

LEMMA LoadStep ==
    ASSUME AllReadable, TypeOK, Durable, Load
    PROVE  /\ Durable' /\ Effective' = Effective
           /\ step' \in SaveSteps => acked \subseteq next'
<1> DEFINE found == SelectSlots(Schema, {})
<1>1. \/ /\ found.slot # NoSlot
         /\ \/ Loaded(blob[found.slot].val, blob[found.slot].schema)
            \/ WriteStateFirst(blob[found.slot].val)
      \/ /\ found.slot = NoSlot
         /\ Loaded(LegacyValue, 0) \/ WriteStateFirst(LegacyValue)
  BY DEF Load, AllReadable
<1>2. \E v : acked \subseteq v /\ ((\E s : Loaded(v, s)) \/ WriteStateFirst(v))
  BY <1>1, Found DEF Durable, LegacyValue
<1>3. UNCHANGED <<blob, mark, acked>> /\ power = "loading"
  BY DEF Load, flash, Durable
<1> QED BY <1>2, <1>3, LoadedStep, WriteStateFirstStep

LEMMA WriteStateStep ==
    ASSUME TypeOK, Durable, WriteState
    PROVE  /\ Durable' /\ Effective' = Effective
           /\ step' \in SaveSteps => acked \subseteq next'
<1>1. \E s : Loaded(next, s)
  BY DEF WriteState
<1>2. UNCHANGED <<blob, mark, acked>> /\ power = "loading" /\ acked \subseteq next
  BY DEF WriteState, Durable
<1> QED BY <1>1, <1>2, LoadedStep

LEMMA BeginUpdateStep ==
    ASSUME TypeOK, Durable, NEW u \in Updates, BeginUpdate(u)
    PROVE  /\ Durable' /\ Effective' = Effective
           /\ acked \subseteq next'
<1>1. /\ UNCHANGED <<blob, mark, acked, power, config>> /\ power = "up"
      /\ step' = "select" /\ next' = config \cup {u} /\ current' = {u}
  BY DEF BeginUpdate, flash
<1>2. Effective' = Effective
  BY <1>1, SameFlash
<1> QED BY <1>1, <1>2 DEF Durable, SaveSteps

\* The rest ends the job, or touches nothing that counts.
LEMMA OtherStep ==
    ASSUME TypeOK, Durable,
           Boot \/ WriteReady \/ Fail \/ CutPower \/ Confirm \/ UNCHANGED vars
    PROVE  Durable' /\ Effective' = Effective /\ acked' = acked
<1>1. UNCHANGED <<blob, mark, acked>>
  BY DEF Boot, WriteReady, Fail, CutPower, Confirm, vars, flash
<1>2. Effective' = Effective
  BY <1>1, SameFlash
<1>3. CASE Boot
  BY <1>1, <1>2, <1>3 DEF Boot, Durable, SaveSteps
<1>4. CASE Fail \/ CutPower
  BY <1>1, <1>2, <1>4 DEF Fail, CutPower, EndJob, Durable, SaveSteps
<1>5. CASE WriteReady \/ Confirm \/ UNCHANGED vars
  <2>1. UNCHANGED <<blob, mark, target, fresh, next, acked, config, power, current>>
    BY <1>5 DEF WriteReady, Confirm, vars, flash, job
  <2>2. Replacing' <=> Replacing
    BY <2>1, SameReplacing
  <2>3. Held' = Held
    BY <2>1, SameReplacing
  <2>4. step' = step \/ (step = "ready" /\ step' = "verify")
    BY <1>5 DEF WriteReady, Confirm, vars, job
  <2> QED BY <1>2, <2>1, <2>2, <2>3, <2>4 DEF Durable, SaveSteps
<1> QED BY <1>3, <1>4, <1>5

-----------------------------------------------------------------------------
(* Theorems                                                                *)

LEMMA DurableInit == Init => Durable
BY DEF Init, NoJob, Durable, SaveSteps

\* What a step may do to the stored value, the value to be stored and the
\* acknowledged changes.
StoredStep ==
    \/ /\ Effective' = Effective /\ acked' = acked
       /\ step' \in SaveSteps => acked \subseteq next'
       /\ step \in SaveSteps => step' \notin SaveSteps \/ next' = next
    \/ /\ step \in SaveSteps /\ step' \in SaveSteps /\ next' = next
       /\ Effective' \in {Effective, next} /\ acked' = acked
    \/ /\ step \in SaveSteps /\ step' \notin SaveSteps
       /\ Effective' = Effective /\ Effective = next
       /\ acked' = acked \cup current /\ current \subseteq Effective

LEMMA DurableNext ==
    ASSUME AllReadable, TypeOK, TypeOK', Durable, [Next]_vars
    PROVE  Durable' /\ StoredStep
<1>1. CASE Boot \/ WriteReady \/ Fail \/ CutPower \/ Confirm \/ UNCHANGED vars
  <2>1. step' \in SaveSteps => step \in SaveSteps /\ next' = next
    BY <1>1 DEF Boot, WriteReady, Fail, CutPower, Confirm, EndJob, vars, job, SaveSteps
  <2> QED BY <1>1, <2>1, OtherStep DEF StoredStep, Durable
<1>2. CASE Load
  BY <1>2, LoadStep DEF StoredStep, Load, SaveSteps
<1>3. CASE WriteState
  BY <1>3, WriteStateStep DEF StoredStep, WriteState, SaveSteps
<1>4. ASSUME NEW u \in Updates, BeginUpdate(u) PROVE Durable' /\ StoredStep
  BY <1>4, BeginUpdateStep DEF StoredStep, BeginUpdate, SaveSteps
<1>5. CASE SelectTarget
  BY <1>5, SelectTargetStep DEF StoredStep, SelectTarget, SaveSteps, Durable
<1>6. CASE EraseMarker
  BY <1>6, EraseMarkerStep DEF StoredStep, EraseMarker, SaveSteps, Durable
<1>7. CASE WriteBlob
  BY <1>7, WriteBlobStep DEF StoredStep, WriteBlob, SaveSteps, Durable
<1>8. CASE WriteMarker
  BY <1>8, WriteMarkerStep DEF StoredStep, WriteMarker, SaveSteps
<1>9. CASE FinishSave
  BY <1>9, FinishSaveStep
     DEF StoredStep, FinishSave, Publish, EndJob, SaveSteps, Durable
<1> QED
  BY <1>1, <1>2, <1>3, <1>4, <1>5, <1>6, <1>7, <1>8, <1>9 DEF Next, SaveStep

\* The invariant that the two theorems below rest on.
THEOREM DurableInvariant ==
    ASSUME AllReadable PROVE Spec => []Durable
<1>1. TypeOK /\ TypeOK' /\ Durable /\ [Next]_vars => Durable'
  BY DurableNext
<1> QED BY <1>1, DurableInit, TypeCorrect, PTL DEF Spec

\* A change whose caller was told that it is stored is in what a restart would
\* load, whatever failed, was garbled or was cut off since.
THEOREM AcknowledgedDurableAlways ==
    ASSUME AllReadable PROVE Spec => []AcknowledgedDurable
<1>1. Durable => AcknowledgedDurable
  BY DEF Durable, AcknowledgedDurable
<1> QED BY <1>1, DurableInvariant, PTL

\* Each step of the store is one of AtomicConfig, or none.
LEMMA AtomicStep ==
    ASSUME TypeOK, TypeOK', Durable, StoredStep
    PROVE  [Atomic!Next]_(Atomic!vars)
<1> DEFINE wanted == IF step \in SaveSteps THEN {next} ELSE {}
<1>1. next \in Values /\ next' \in Values /\ current \in Values
  BY DEF TypeOK
<1>2. ASSUME Effective' = Effective, acked' = acked,
             step' \in SaveSteps => acked \subseteq next',
             step \in SaveSteps => step' \notin SaveSteps \/ next' = next
      PROVE  [Atomic!Next]_(Atomic!vars)
  <2>1. CASE step \in SaveSteps /\ step' \notin SaveSteps
    BY <1>2, <2>1 DEF Atomic!Next, Atomic!GiveUp
  <2>2. CASE step \notin SaveSteps /\ step' \in SaveSteps
    <3>1. Atomic!Request(next')
      BY <1>2, <2>2 DEF Atomic!Request
    <3> QED BY <1>1, <3>1 DEF Atomic!Next, Values
  <2>3. CASE (step \in SaveSteps) <=> (step' \in SaveSteps)
    BY <1>2, <2>3 DEF Atomic!vars
  <2> QED BY <2>1, <2>2, <2>3
<1>3. ASSUME step \in SaveSteps, step' \in SaveSteps, next' = next,
             Effective' \in {Effective, next}, acked' = acked
      PROVE  [Atomic!Next]_(Atomic!vars)
  <2>1. CASE Effective' = Effective
    BY <1>3, <2>1 DEF Atomic!vars
  <2>2. CASE Effective' = next
    BY <1>3, <2>2 DEF Atomic!Next, Atomic!Replace
  <2> QED BY <1>3, <2>1, <2>2
<1>4. ASSUME step \in SaveSteps, step' \notin SaveSteps,
             Effective' = Effective, Effective = next,
             acked' = acked \cup current, current \subseteq Effective
      PROVE  [Atomic!Next]_(Atomic!vars)
  <2>1. CASE current = {}
    BY <1>4, <2>1 DEF Atomic!Next, Atomic!GiveUp
  <2>2. ASSUME NEW u \in Updates, current = {u}
        PROVE  [Atomic!Next]_(Atomic!vars)
    <3>1. Atomic!Acknowledge(u)
      BY <1>4, <2>2 DEF Atomic!Acknowledge
    <3> QED BY <3>1 DEF Atomic!Next
  <2> QED BY <2>1, <2>2 DEF Durable
<1> QED BY <1>2, <1>3, <1>4 DEF StoredStep

\* A save replaces what is stored as a whole or not at all, and has if its
\* caller is told so: the store implements AtomicConfig.
THEOREM StoreIsAtomic ==
    ASSUME AllReadable PROVE Spec => SavesAtomically
<1>1. Init => Atomic!Init
  <2> SUFFICES ASSUME Init PROVE Atomic!Init
    OBVIOUS
  <2>1. step \notin SaveSteps /\ acked = {}
    BY DEF Init, NoJob, SaveSteps
  <2>2. Effective \in SUBSET Updates
    <3>1. TypeOK
      BY TypeInit
    <3> QED BY <3>1, SelectedType DEF Effective, LegacyValue, Blob, Values
  <2> QED BY <2>1, <2>2 DEF Atomic!Init
<1>2. TypeOK /\ TypeOK' /\ Durable /\ [Next]_vars => [Atomic!Next]_(Atomic!vars)
  BY DurableNext, AtomicStep
<1> QED
  BY <1>1, <1>2, TypeCorrect, DurableInvariant, PTL DEF Spec, SavesAtomically, Atomic!Spec
-----------------------------------------------------------------------------
(***************************************************************************)
(* A partition that can be loaded at the first boot can be loaded after a  *)
(* power cut at any point, by the running image and by the one it may be   *)
(* rolled back to.  The schema of that one is 6 or 7, those that are       *)
(* stored in two slots.                                                    *)
(***************************************************************************)
-----------------------------------------------------------------------------
(* What firmware of schema s makes of the slots                            *)

Valid(i, s)  == mark[i] = blob[i] /\ blob[i].schema \in 1 .. s
Beyond(i, s) == mark[i] = blob[i] /\ blob[i].schema > s
SomeValid(s) == \E i \in Slots : Valid(i, s)

\* A slot of a later schema has a valid sibling that is not older.
Beaten(s) ==
    \A i \in Slots : Beyond(i, s) =>
        /\ Valid(OtherSlot(i), s)
        /\ ~GenerationNewer(blob[i].gen, blob[OtherSlot(i)].gen)

Empty(i) == blob[i] = Absent /\ mark[i] = Absent

\* Nothing has been stored yet, or the first save has got as far as its blob.
FirstSave(s) ==
    /\ Empty(1)
    /\ Empty(0) \/ (state = "migrating" /\ mark[0] = Absent /\ blob[0].schema \in 6 .. s)

-----------------------------------------------------------------------------
(* The inductive invariant.                                                *)

\* Firmware of schema s finds what this firmware finds, or the first save.
Sound(s) ==
    /\ SomeValid(Schema) => SomeValid(s) /\ Beaten(s)
    /\ ~SomeValid(Schema) /\ Intact => FirstSave(s)

\* Of two valid slots one is newer.
Ordered ==
    Valid(0, Schema) /\ Valid(1, Schema) =>
        (GenerationNewer(blob[0].gen, blob[1].gen)
            <=> ~GenerationNewer(blob[1].gen, blob[0].gen))

Writing == {"erase", "blob", "mark"}

\* The first save goes to an empty partition that is marked as migrating, any
\* other leaves a valid slot alone, and none that can be rolled back writes what
\* the image before it cannot read.
Saving ==
    /\ inUse.slot # NoSlot \/ power = "up" => SomeValid(Schema)
    /\ ~SomeValid(Schema) =>
          /\ Intact => state # "ready"
          /\ step = "select" => state = "migrating"
          /\ step \in {"erase", "blob"} => target = 0 /\ Intact /\ state = "migrating"
    /\ SomeValid(Schema) /\ step \in Writing => Valid(Sibling, Schema)
    /\ step = "ready" => mark[target] \in {fresh, Rubbish}
    /\ image = "rolledback" => power = "off" /\ step = "idle"
    /\ image # "confirmed" /\ step \in Writing =>
          /\ fresh.schema <= PreviousSchema
          /\ Valid(Sibling, Schema) => Valid(Sibling, PreviousSchema)

Boots ==
    /\ Ordered /\ Saving
    /\ Sound(Schema)
    /\ image # "confirmed" => Sound(PreviousSchema)

-----------------------------------------------------------------------------
(* Loads in these terms                                                    *)

LEMMA Reads ==
    ASSUME TypeOK, NEW i \in Slots, NEW s \in {6, 7}
    PROVE  LET seen == ReadSlot(i, s, {})
           IN  /\ seen = "valid" <=> Valid(i, s)
               /\ seen = "unsupported" <=> Beyond(i, s)
               /\ seen = "empty" <=> Empty(i)
               /\ seen = "resumable" <=> mark[i] = Absent /\ blob[i].schema \in 6 .. s
<1>1. blob[i] \in Stored /\ mark[i] \in Stored
  BY DEF TypeOK
<1>2. /\ blob[i] # Absent => blob[i].schema \in 0 .. 8
      /\ Absent.schema = -1
  BY <1>1 DEF Stored, Blob, Absent
<1> QED BY <1>1, <1>2 DEF ReadSlot, Valid, Beyond, Empty

LEMMA SelectIs ==
    ASSUME TypeOK, NEW s \in {6, 7}
    PROVE  LET found == SelectSlots(s, {})
           IN  /\ found.slot = NoSlot <=> ~SomeValid(s) \/ ~Beaten(s)
               /\ found.unsupported <=> ~Beaten(s)
               /\ found.slot # NoSlot =>
                     /\ found.slot \in Slots /\ Valid(found.slot, s)
                     /\ Valid(0, s) /\ Valid(1, s) =>
                           (found.slot = 1 <=> GenerationNewer(blob[1].gen, blob[0].gen))
               /\ found.invalid <=>
                     /\ \A i \in Slots : ~Valid(i, s) /\ ~Beyond(i, s)
                     /\ \E i \in Slots : ~Empty(i)
               /\ found.resumable <=>
                     /\ state = "migrating" /\ Empty(1)
                     /\ mark[0] = Absent /\ blob[0].schema \in 6 .. s
<1> DEFINE valid   == {i \in Slots : Valid(i, s)}
           beyond  == {i \in Slots : Beyond(i, s)}
           newest  == IF valid = {0, 1}
                      THEN IF GenerationNewer(blob[1].gen, blob[0].gen) THEN 1 ELSE 0
                      ELSE IF 0 \in valid THEN 0 ELSE 1
           blocked == IF valid = {} THEN beyond
                      ELSE {i \in beyond :
                               GenerationNewer(blob[i].gen, blob[newest].gen)}
           found   == SelectSlots(s, {})
<1>1. /\ found.slot = IF valid = {} \/ blocked # {} THEN NoSlot ELSE newest
      /\ found.unsupported <=> blocked # {}
      /\ found.invalid <=> valid = {} /\ beyond = {} /\ \E i \in Slots : ~Empty(i)
      /\ found.resumable <=> ResumableInitialMigration(ReadSlot(0, s, {}), ReadSlot(1, s, {}))
  <2>1. valid = {i \in Slots : ReadSlot(i, s, {}) = "valid"}
    BY Reads
  <2>2. beyond = {i \in Slots : ReadSlot(i, s, {}) = "unsupported"}
    BY Reads
  <2>3. \A i \in Slots : ReadSlot(i, s, {}) # "empty" <=> ~Empty(i)
    BY Reads
  <2> HIDE DEF valid, beyond
  <2> QED BY <2>1, <2>2, <2>3 DEF SelectSlots
<1>2. valid = {} <=> ~SomeValid(s)
  BY DEF SomeValid
<1>3. blocked = {} <=> Beaten(s)
  <2>1. \A i \in Slots : Beyond(i, s) => ~Valid(i, s)
    BY DEF Beyond, Valid
  <2>2. \A i \in Slots : OtherSlot(i) \in Slots /\ OtherSlot(i) # i
                         /\ \A j \in Slots : j \in {i, OtherSlot(i)}
    BY DEF OtherSlot, Slots
  <2>3. ASSUME NEW i \in Slots, Beyond(i, s), Valid(OtherSlot(i), s)
        PROVE  valid # {} /\ newest = OtherSlot(i)
    BY <2>1, <2>2, <2>3 DEF Slots, OtherSlot
  <2>4. ASSUME NEW i \in Slots, Beyond(i, s), ~Valid(OtherSlot(i), s)
        PROVE  valid = {}
    BY <2>1, <2>2, <2>4
  <2>5. \A i \in Slots : i \in blocked <=>
           /\ Beyond(i, s)
           /\ valid = {} \/ GenerationNewer(blob[i].gen, blob[newest].gen)
    OBVIOUS
  <2>6. blocked \subseteq Slots
    OBVIOUS
  <2>7. \A i \in Slots : i \in blocked <=>
           /\ Beyond(i, s)
           /\ ~Valid(OtherSlot(i), s) \/ GenerationNewer(blob[i].gen, blob[OtherSlot(i)].gen)
    <3> HIDE DEF valid, blocked, newest
    <3> QED BY <2>3, <2>4, <2>5
  <2> HIDE DEF blocked
  <2> QED BY <2>6, <2>7 DEF Beaten
<1>4. /\ newest \in Slots /\ newest # NoSlot
      /\ valid # {} => Valid(newest, s)
      /\ Valid(0, s) /\ Valid(1, s) =>
            (newest = 1 <=> GenerationNewer(blob[1].gen, blob[0].gen))
  BY DEF Slots, NoSlot
<1>5. ResumableInitialMigration(ReadSlot(0, s, {}), ReadSlot(1, s, {})) <=>
        /\ state = "migrating" /\ Empty(1)
        /\ mark[0] = Absent /\ blob[0].schema \in 6 .. s
  BY Reads DEF ResumableInitialMigration, Slots
<1>6. valid = {} /\ beyond = {} <=> \A i \in Slots : ~Valid(i, s) /\ ~Beyond(i, s)
  OBVIOUS
<1> HIDE DEF valid, beyond, newest, blocked, found
<1>7. /\ found.slot = NoSlot <=> ~SomeValid(s) \/ ~Beaten(s)
      /\ found.unsupported <=> ~Beaten(s)
  BY <1>1, <1>2, <1>3, <1>4
<1>8. found.slot # NoSlot => found.slot = newest /\ valid # {}
  BY <1>1
<1>9. found.invalid <=> /\ \A i \in Slots : ~Valid(i, s) /\ ~Beyond(i, s)
                        /\ \E i \in Slots : ~Empty(i)
  BY <1>1, <1>6
<1> QED BY <1>1, <1>4, <1>5, <1>7, <1>8, <1>9 DEF found

LEMMA LoadableIs ==
    ASSUME TypeOK, NEW s \in {6, 7}
    PROVE  Loadable(s) <=> IF SomeValid(s) THEN Beaten(s) ELSE FirstSave(s)
<1> DEFINE found == SelectSlots(s, {})
<1>1. Loadable(s) <=> ~found.unsupported /\ (found.invalid => found.resumable)
  BY DEF Loadable
<1>2. SomeValid(s) => ~found.invalid
  BY SelectIs DEF SomeValid
<1>3. ASSUME ~SomeValid(s)
      PROVE  Beaten(s) <=> \A i \in Slots : ~Beyond(i, s)
  BY <1>3 DEF Beaten, SomeValid, OtherSlot, Slots
<1>4. FirstSave(s) => \A i \in Slots : ~Beyond(i, s)
  BY DEF FirstSave, Beyond, Empty, Slots, Absent
<1>5. ASSUME ~SomeValid(s)
      PROVE  ~found.unsupported /\ (found.invalid => found.resumable) <=> FirstSave(s)
  BY <1>3, <1>4, <1>5, SelectIs DEF FirstSave, SomeValid, Slots
<1> QED BY <1>1, <1>2, <1>5, SelectIs

-----------------------------------------------------------------------------
(* Every step keeps the invariant.                                         *)

\* The image that may be started instead stores in two slots too.
PreviousStores == PreviousSchema \in {6, 7}

\* Steps that leave the partition alone and do not start to write it.
LEMMA Calm ==
    ASSUME TypeOK, Boots, UNCHANGED <<blob, mark, state>>,
           image' # "confirmed" => image # "confirmed",
           image' = "rolledback" => power' = "off" /\ step' = "idle",
           inUse'.slot # NoSlot \/ power' = "up" => SomeValid(Schema),
           \/ step' \in {"idle", "load", "state", "verify"}
           \/ step' = "select" /\ (SomeValid(Schema) \/ state = "migrating")
           \/ UNCHANGED <<step, target, fresh>>
    PROVE  Boots'
<1>1. \A s : /\ Sound(s)' <=> Sound(s)
             /\ SomeValid(s)' <=> SomeValid(s)
  BY DEF Sound, SomeValid, Valid, Beaten, Beyond, FirstSave, Empty, Intact
<1>2. Ordered'
  BY DEF Boots, Ordered, Valid
<1>3. Saving'
  <2>1. \A i, s : Valid(i, s)' <=> Valid(i, s)
    BY DEF Valid
  <2>2. Intact' <=> Intact
    BY DEF Intact
  <2>3. CASE UNCHANGED <<step, target, fresh>>
    <3>1. Sibling' = Sibling
      BY <2>3 DEF Sibling
    <3> QED BY <1>1, <2>1, <2>2, <2>3, <3>1 DEF Boots, Saving, Writing
  <2>4. CASE step' \notin Writing \cup {"ready"} /\ (step' = "select" => SomeValid(Schema) \/ state = "migrating")
    BY <1>1, <2>2, <2>4 DEF Boots, Saving, Writing
  <2> QED BY <2>3, <2>4 DEF Writing
<1> QED BY <1>1, <1>2, <1>3 DEF Boots

LEMMA CalmSteps ==
    ASSUME TypeOK, Durable, Boots,
           \/ Boot \/ Fail \/ CutPower \/ Confirm \/ FinishSave \/ UNCHANGED vars
           \/ \E u \in Updates : BeginUpdate(u)
    PROVE  Boots'
<1>1. CASE Boot
  BY <1>1, Calm DEF Boot, flash, Boots, Saving
<1>2. CASE Fail
  BY <1>2, Calm DEF Fail, EndJob, flash, Boots, Saving
<1>3. CASE CutPower
  BY <1>3, Calm DEF CutPower, EndJob, flash, Boots, Saving
<1>4. CASE Confirm
  BY <1>4, Calm DEF Confirm, flash, job, Boots, Saving
<1>5. CASE FinishSave
  <2>1. /\ UNCHANGED <<blob, mark, state, image>> /\ step' = "idle"
        /\ step = "verify" /\ mark[target] = fresh
    BY <1>5 DEF FinishSave, Publish, EndJob, MarkerReadBack, flash
  <2>2. SomeValid(Schema)
    BY <2>1, SiblingIs DEF Durable, Replacing, SomeValid, Valid, Schema
  <2> QED BY <2>1, <2>2, Calm DEF Boots, Saving
<1>6. CASE UNCHANGED vars
  BY <1>6, Calm DEF vars, flash, job, Boots, Saving
<1>7. ASSUME NEW u \in Updates, BeginUpdate(u) PROVE Boots'
  BY <1>7, Calm DEF BeginUpdate, flash, Boots, Saving
<1> QED BY <1>1, <1>2, <1>3, <1>4, <1>5, <1>6, <1>7

LEMMA LoadBoots ==
    ASSUME AllReadable, TypeOK, Boots, Load PROVE Boots'
<1> DEFINE found == SelectSlots(Schema, {})
<1>1. /\ UNCHANGED <<blob, mark, state, image>> /\ step = "load"
      /\ found.slot # NoSlot => inUse'.slot = found.slot
      /\ found.slot = NoSlot => inUse' = inUse
      /\ \/ found.slot # NoSlot
         \/ found.slot = NoSlot /\ state = "migrating" /\ Loaded(LegacyValue, 0)
         \/ WriteStateFirst(LegacyValue)
  <2>1. PICK unread \in Unreadable :
          LET slot == SelectSlots(Schema, unread).slot
          IN  \/ slot # NoSlot /\ inUse' = [slot |-> slot, gen |-> blob[slot].gen]
              \/ /\ slot = NoSlot /\ UNCHANGED inUse
                 /\ \/ state = "migrating" /\ Loaded(LegacyValue, 0)
                    \/ WriteStateFirst(LegacyValue)
    BY DEF Load
  <2>2. unread = {}
    BY DEF AllReadable
  <2> QED BY <2>1, <2>2 DEF Load, flash
<1>2. found.slot # NoSlot => SomeValid(Schema)
  BY SelectIs DEF Schema
<1>3. /\ step' \in {"idle", "state"} \/ step' = "select"
      /\ step' = "select" => SomeValid(Schema) \/ state = "migrating"
      /\ power' = "up" => SomeValid(Schema)
  <2>1. CASE found.slot # NoSlot
    <3>1. step' \in {"idle", "select", "state"}
      BY <2>1 DEF Load, AllReadable, Loaded, Publish, EndJob, WriteStateFirst
    <3> QED BY <1>2, <2>1, <3>1
  <2>2. CASE state = "migrating" /\ Loaded(LegacyValue, 0)
    <3>1. step' = "select" /\ power' = power
      BY <2>2 DEF Loaded
    <3> QED BY <2>2, <3>1 DEF Boots, Saving
  <2>3. CASE WriteStateFirst(LegacyValue)
    BY <2>3 DEF WriteStateFirst, Boots, Saving
  <2> QED BY <1>1, <2>1, <2>2, <2>3
<1> QED BY <1>1, <1>2, <1>3, Calm DEF Boots, Saving

\* The state byte matters only to the first save.
LEMMA WriteStateBoots ==
    ASSUME TypeOK, Boots, WriteState PROVE Boots'
<1>1. /\ UNCHANGED <<blob, mark, image, inUse>> /\ step = "state"
      /\ inUse.slot = NoSlot => state' = "migrating" /\ step' = "select" /\ power' = power
      /\ step' \in {"idle", "select"}
  BY DEF WriteState, Loaded, Publish, EndJob
<1>2. /\ \A s : (SomeValid(s)' <=> SomeValid(s)) /\ (Beaten(s)' <=> Beaten(s))
      /\ Intact' <=> Intact
      /\ Ordered' <=> Ordered
  BY <1>1 DEF SomeValid, Valid, Beaten, Beyond, Intact, Ordered
<1>3. ASSUME NEW s, Sound(s) PROVE Sound(s)'
  <2>1. ASSUME ~SomeValid(Schema), FirstSave(s) PROVE FirstSave(s)'
    BY <1>1, <2>1 DEF FirstSave, Empty, Boots, Saving
  <2> QED BY <1>2, <1>3, <2>1 DEF Sound
<1>4. Saving'
  BY <1>1, <1>2 DEF Boots, Saving, Writing
<1> QED BY <1>1, <1>2, <1>3, <1>4 DEF Boots

\* After a step that leaves the slot that is written of no use, its sibling counts.
LEMMA SiblingCounts ==
    ASSUME TypeOK, TypeOK', NEW s \in {6, 7}, UNCHANGED target,
           blob'[Sibling] = blob[Sibling], mark'[Sibling] = mark[Sibling],
           mark'[target] # blob'[target] \/ blob'[target].schema < 1,
           Valid(Sibling, Schema) => Valid(Sibling, s),
           ~Valid(Sibling, Schema) /\ Intact' => FirstSave(s)'
    PROVE  /\ Sound(s)' /\ Ordered'
           /\ SomeValid(Schema)' <=> Valid(Sibling, Schema)
           /\ \A z : Valid(Sibling, z)' <=> Valid(Sibling, z)
<1>1. /\ target \in Slots /\ Sibling \in Slots /\ Sibling # target /\ Sibling' = Sibling
      /\ \A i \in Slots : i \in {target, Sibling}
      /\ OtherSlot(target) = Sibling /\ OtherSlot(Sibling) = target
  BY SiblingIs DEF Sibling, Slots
<1>2. \A z : /\ ~Valid(target, z)'
             /\ Valid(Sibling, z)' <=> Valid(Sibling, z)
  BY <1>1 DEF Valid
<1>3. \A z : SomeValid(z)' <=> Valid(Sibling, z)
  BY <1>1, <1>2 DEF SomeValid
<1>4. Ordered'
  BY <1>1, <1>2 DEF Ordered, Slots
<1>5. ASSUME Valid(Sibling, s) PROVE Beaten(s)'
  <2>1. ~Beyond(Sibling, s)'
    BY <1>1, <1>5 DEF Beyond, Valid
  <2>2. blob'[target] \in Stored
    BY <1>1 DEF TypeOK
  <2>3. blob'[target].schema \in -1 .. 8
    BY <2>2 DEF Stored, Blob, Absent
  <2>4. mark'[target] = blob'[target] => ~(blob'[target].schema > s)
    BY <2>3
  <2> QED BY <1>1, <2>1, <2>4 DEF Beaten, Beyond
<1> QED BY <1>2, <1>3, <1>4, <1>5 DEF Sound

LEMMA SelectTargetBoots ==
    ASSUME AllReadable, PreviousStores, TypeOK, Boots, SelectTarget PROVE Boots'
<1> DEFINE found == SelectSlots(Schema, {})
           base  == IF found.slot = NoSlot THEN inUse
                    ELSE [slot |-> found.slot, gen |-> blob[found.slot].gen]
<1>1. /\ UNCHANGED <<blob, mark, state, image, power, inUse>>
      /\ step = "select" /\ step' = "erase"
  BY DEF SelectTarget, flash
<1>2. /\ ~found.unsupported
      /\ found.invalid => found.resumable
      /\ RequiredSchema(next) = 7 => AllowFirstV7Write(base.slot)
      /\ target' = OtherSlot(base.slot)
      /\ fresh'.schema = RequiredSchema(next)
  <2>1. PICK unread \in Unreadable :
          LET seen == SelectSlots(Schema, unread)
              from == IF seen.slot = NoSlot THEN inUse
                      ELSE [slot |-> seen.slot, gen |-> blob[seen.slot].gen]
          IN  /\ ~seen.unsupported
              /\ seen.invalid => seen.resumable
              /\ RequiredSchema(next) = 7 => AllowFirstV7Write(from.slot)
              /\ target' = OtherSlot(from.slot)
              /\ fresh'.schema = RequiredSchema(next)
    BY DEF SelectTarget
  <2>2. unread = {}
    BY DEF AllReadable
  <2> QED BY <2>1, <2>2
<1>3. /\ \A s : /\ Sound(s)' <=> Sound(s)
                /\ SomeValid(s)' <=> SomeValid(s)
      /\ \A i, s : Valid(i, s)' <=> Valid(i, s)
      /\ Intact' <=> Intact
      /\ Ordered' <=> Ordered
  BY <1>1 DEF Sound, SomeValid, Valid, Beaten, Beyond, FirstSave, Empty, Intact, Ordered
<1>4. RequiredSchema(next) \in {6, 7} /\ PreviousSchema \in {6, 7}
  BY DEF RequiredSchema, PreviousStores
<1>5. image # "confirmed" => image = "pending"
  BY <1>1 DEF TypeOK, Boots, Saving
<1>6. CASE SomeValid(Schema)
  <2> DEFINE b == found.slot
  <2>1. /\ b # NoSlot /\ b \in Slots /\ Valid(b, Schema) /\ base.slot = b
        /\ Valid(0, Schema) /\ Valid(1, Schema) =>
              (b = 1 <=> GenerationNewer(blob[1].gen, blob[0].gen))
    BY <1>2, <1>6, SelectIs DEF Schema
  <2>2. Sibling' = b
    BY <1>2, <2>1 DEF Sibling, OtherSlot, Slots
  <2>3. ASSUME image # "confirmed", PreviousSchema = 6 PROVE Valid(b, PreviousSchema)
    <3>1. Beaten(6)
      BY <1>6, <2>3 DEF Boots, Sound
    <3>2. SUFFICES ASSUME ~Valid(b, 6) PROVE FALSE
      BY <2>3
    <3>3. Beyond(b, 6)
      BY <2>1, <3>2 DEF Valid, Beyond, Schema
    <3>4. /\ Valid(OtherSlot(b), 6)
          /\ ~GenerationNewer(blob[b].gen, blob[OtherSlot(b)].gen)
      BY <2>1, <3>1, <3>3 DEF Beaten
    <3>5. Valid(OtherSlot(b), Schema)
      BY <3>4 DEF Valid, Schema
    <3>6. CASE b = 0
      BY <2>1, <3>4, <3>5, <3>6 DEF Boots, Ordered, OtherSlot
    <3>7. CASE b = 1
      BY <2>1, <3>4, <3>5, <3>7 DEF OtherSlot
    <3> QED BY <2>1, <3>6, <3>7 DEF Slots
  <2>4. image # "confirmed" => fresh'.schema <= PreviousSchema /\ Valid(b, PreviousSchema)
    <3>1. CASE PreviousSchema = 7
      BY <1>2, <1>4, <2>1, <3>1 DEF Schema
    <3>2. CASE PreviousSchema = 6
      <4>1. image # "confirmed" => blob[b].schema \in 1 .. 6
        BY <2>3, <3>2 DEF Valid
      <4>2. image # "confirmed" => ~AllowFirstV7Write(base.slot)
        BY <1>5, <2>1, <4>1 DEF AllowFirstV7Write
      <4> QED BY <1>2, <1>4, <2>3, <3>2, <4>2
    <3> QED BY <1>4, <3>1, <3>2
  <2>5. Saving'
    BY <1>1, <1>3, <1>6, <2>1, <2>2, <2>4 DEF Boots, Saving, Writing
  <2> QED BY <1>1, <1>3, <2>5 DEF Boots
<1>7. CASE ~SomeValid(Schema)
  <2>1. base.slot = NoSlot
    BY <1>7, SelectIs DEF Boots, Saving, Schema
  <2>2. target' = 0
    BY <1>2, <2>1 DEF OtherSlot, NoSlot
  <2>3. FirstSave(Schema)
    BY <1>2, <1>7, LoadableIs DEF Loadable, Schema
  <2>4. Intact
    BY <2>3 DEF FirstSave, Empty, Intact, Slots, Absent, Rubbish, Schema
  <2>5. image # "confirmed" => fresh'.schema <= PreviousSchema
    BY <1>2, <1>4, <1>5, <2>1 DEF AllowFirstV7Write
  <2>6. Sibling' \in Slots
    BY <2>2 DEF Sibling, OtherSlot, Slots
  <2>7. Saving'
    BY <1>1, <1>3, <1>7, <2>2, <2>4, <2>5, <2>6 DEF Boots, Saving, Writing, SomeValid
  <2> QED BY <1>1, <1>3, <2>7 DEF Boots
<1> QED BY <1>6, <1>7

LEMMA EraseMarkerBoots ==
    ASSUME PreviousStores, TypeOK, TypeOK', Durable, Boots, EraseMarker PROVE Boots'
<1>1. /\ mark' = [mark EXCEPT ![target] = Absent] /\ step = "erase" /\ step' = "blob"
      /\ UNCHANGED <<blob, state, image, power, inUse, target, fresh>>
  BY DEF EraseMarker
<1>2. /\ mark'[Sibling] = mark[Sibling] /\ mark'[target] = Absent
      /\ Sibling' = Sibling
      /\ mark'[target] # blob'[target] \/ blob'[target].schema < 1
  BY <1>1, SiblingIs DEF TypeOK, Absent, Sibling
<1>3. ~Valid(Sibling, Schema) => ~SomeValid(Schema) /\ target = 0 /\ Intact
  BY <1>1 DEF Boots, Saving, Writing
<1>4. ~Valid(Sibling, Schema) => mark' = mark
  <2>1. ~Valid(Sibling, Schema) => mark[0] = Absent
    BY <1>3 DEF Boots, Sound, FirstSave, Empty
  <2> QED BY <1>1, <1>3, <2>1 DEF TypeOK
<1>5. ASSUME NEW s \in {6, 7}, Sound(s), Valid(Sibling, Schema) => Valid(Sibling, s)
      PROVE  /\ Sound(s)' /\ Ordered'
             /\ SomeValid(Schema)' <=> Valid(Sibling, Schema)
             /\ \A z : Valid(Sibling, z)' <=> Valid(Sibling, z)
  <2>1. ~Valid(Sibling, Schema) => FirstSave(s)'
    BY <1>1, <1>3, <1>4, <1>5 DEF Sound, FirstSave, Empty
  <2> QED BY <1>1, <1>2, <1>5, <2>1, SiblingCounts
<1>6. /\ Sound(Schema)' /\ Ordered'
      /\ SomeValid(Schema)' <=> Valid(Sibling, Schema)
      /\ \A z : Valid(Sibling, z)' <=> Valid(Sibling, z)
  BY <1>5 DEF Boots, Schema
<1>7. (image # "confirmed" => Sound(PreviousSchema))'
  BY <1>1, <1>5 DEF Boots, Saving, Writing, PreviousStores
<1>8. Saving'
  <2>1. ~Valid(Sibling, Schema) => Intact'
    BY <1>1, <1>3, <1>4 DEF Intact
  <2> QED BY <1>1, <1>2, <1>3, <1>6, <2>1 DEF Boots, Saving, Writing, SomeValid
<1> QED BY <1>6, <1>7, <1>8 DEF Boots

LEMMA WriteBlobBoots ==
    ASSUME PreviousStores, TypeOK, TypeOK', Durable, Boots, WriteBlob PROVE Boots'
<1>1. /\ step = "blob" /\ step' = "mark" /\ blob'[target] \in {fresh, Rubbish}
      /\ blob'[Sibling] = blob[Sibling]
      /\ UNCHANGED <<mark, state, image, power, inUse, target, fresh>>
  BY SiblingIs DEF WriteBlob, Written, TypeOK
<1>2. /\ mark[target] = Absent /\ Sibling' = Sibling
      /\ mark'[target] # blob'[target] \/ blob'[target].schema < 1
      /\ fresh.schema \in {6, 7}
  BY <1>1 DEF Durable, Replacing, SaveSteps, Absent, Sibling
<1>3. ~Valid(Sibling, Schema) =>
        ~SomeValid(Schema) /\ target = 0 /\ Sibling = 1 /\ Intact /\ state = "migrating"
  BY <1>1 DEF Boots, Saving, Writing, Sibling, OtherSlot
<1>4. ASSUME NEW s \in {6, 7}, Sound(s), Valid(Sibling, Schema) => Valid(Sibling, s),
             fresh.schema <= s
      PROVE  /\ Sound(s)' /\ Ordered'
             /\ SomeValid(Schema)' <=> Valid(Sibling, Schema)
             /\ \A z : Valid(Sibling, z)' <=> Valid(Sibling, z)
  <2>1. ASSUME ~Valid(Sibling, Schema), Intact' PROVE FirstSave(s)'
    <3>1. Empty(1)
      BY <1>3, <1>4, <2>1 DEF Sound, FirstSave
    <3>2. blob'[0] = fresh
      BY <1>1, <1>3, <2>1 DEF Intact, Slots
    <3> QED BY <1>1, <1>2, <1>3, <1>4, <2>1, <3>1, <3>2 DEF FirstSave, Empty
  <2> QED BY <1>1, <1>2, <1>4, <2>1, SiblingCounts
<1>5. /\ Sound(Schema)' /\ Ordered'
      /\ SomeValid(Schema)' <=> Valid(Sibling, Schema)
      /\ \A z : Valid(Sibling, z)' <=> Valid(Sibling, z)
  BY <1>2, <1>4 DEF Boots, Schema
<1>6. (image # "confirmed" => Sound(PreviousSchema))'
  BY <1>1, <1>2, <1>4 DEF Boots, Saving, Writing, PreviousStores
<1>7. Saving'
  BY <1>1, <1>2, <1>3, <1>5 DEF Boots, Saving, Writing, SomeValid
<1> QED BY <1>5, <1>6, <1>7 DEF Boots

LEMMA WriteMarkerBoots ==
    ASSUME PreviousStores, TypeOK, TypeOK', Durable, Boots, WriteMarker PROVE Boots'
<1>1. /\ step = "mark" /\ step' = "ready"
      /\ mark'[target] \in {fresh, Rubbish} /\ mark'[Sibling] = mark[Sibling]
      /\ blob[target] = fresh
      /\ UNCHANGED <<blob, state, image, power, inUse, target, fresh>>
  BY SiblingIs DEF WriteMarker, Written, BlobReadBack, TypeOK
<1>2. /\ target \in Slots /\ Sibling \in Slots /\ Sibling # target /\ Sibling' = Sibling
      /\ \A i \in Slots : i \in {target, Sibling}
      /\ OtherSlot(target) = Sibling /\ OtherSlot(Sibling) = target
  BY <1>1, SiblingIs DEF Sibling, Slots
<1>3. /\ Replacing /\ fresh.schema \in {6, 7}
      /\ Whole(Sibling) <=> Valid(Sibling, Schema)
      /\ Future(Sibling) <=> Beyond(Sibling, Schema)
  BY <1>1, <1>2, Reads DEF Durable, SaveSteps, Replacing, Whole, Future, Schema
<1>4. \A z : Valid(Sibling, z)' <=> Valid(Sibling, z)
  BY <1>1, <1>2 DEF Valid
<1>5. CASE mark'[target] = Rubbish
  <2>1. /\ mark'[target] # blob'[target] /\ ~Intact'
        /\ mark'[target] \in {fresh', Rubbish} /\ target' = target
    BY <1>1, <1>2, <1>3, <1>5 DEF Rubbish, Intact
  <2>2. ASSUME NEW s \in {6, 7}, Valid(Sibling, Schema) => Valid(Sibling, s)
        PROVE  Sound(s)' /\ Ordered' /\ (SomeValid(Schema)' <=> Valid(Sibling, Schema))
    BY <1>1, <1>2, <2>1, <2>2, SiblingCounts
  <2>3. Sound(Schema)' /\ Ordered' /\ (SomeValid(Schema)' <=> Valid(Sibling, Schema))
    BY <2>2 DEF Schema
  <2>4. (image # "confirmed" => Sound(PreviousSchema))'
    BY <1>1, <2>2 DEF Boots, Saving, Writing, PreviousStores
  <2>5. Saving'
    <3>1. SomeValid(Schema) => SomeValid(Schema)'
      BY <1>1, <2>3 DEF Boots, Saving, Writing
    <3> QED BY <1>1, <2>1, <3>1 DEF Boots, Saving, Writing
  <2> QED BY <2>3, <2>4, <2>5 DEF Boots
<1>6. CASE mark'[target] = fresh
  <2>1. \A z \in {6, 7} : fresh.schema <= z => Valid(target, z)' /\ ~Beyond(target, z)'
    BY <1>1, <1>2, <1>3, <1>6 DEF Valid, Beyond
  <2>2. ASSUME NEW s \in {6, 7}, fresh.schema <= s, Valid(Sibling, Schema) => Valid(Sibling, s)
        PROVE  Sound(s)' /\ SomeValid(s)'
    <3>1. ~Beyond(Sibling, s)'
      <4>1. CASE Valid(Sibling, Schema)
        BY <1>1, <1>2, <2>2, <4>1 DEF Valid, Beyond
      <4>2. CASE ~Valid(Sibling, Schema)
        <5>1. ~Beyond(Sibling, Schema)
          BY <1>3, <4>2 DEF Replacing, Useless
        <5>2. blob[Sibling] \in Stored
          BY <1>2 DEF TypeOK
        <5>3. blob[Sibling].schema \in -1 .. 8
          BY <5>2 DEF Stored, Blob, Absent
        <5> QED BY <1>1, <1>2, <4>2, <5>1, <5>3 DEF Valid, Beyond, Schema
      <4> QED BY <4>1, <4>2
    <3>2. SomeValid(s)' /\ Beaten(s)'
      <4>1. \A i \in Slots : ~Beyond(i, s)'
        BY <1>1, <1>2, <2>1, <2>2, <3>1 DEF Beyond
      <4>2. Valid(target, s)' /\ target' \in Slots
        BY <1>1, <1>2, <2>1, <2>2
      <4> QED BY <4>1, <4>2 DEF SomeValid, Beaten, Valid, Beyond
    <3>3. fresh.schema <= Schema
      BY <1>3 DEF Schema
    <3>4. SomeValid(Schema)'
      <4>1. Valid(target, Schema)' /\ target' \in Slots
        BY <1>1, <1>2, <2>1, <3>3 DEF Schema
      <4> QED BY <4>1 DEF SomeValid, Valid
    <3> QED BY <3>2, <3>4 DEF Sound
  <2>3. Sound(Schema)' /\ SomeValid(Schema)'
    BY <1>3, <2>2 DEF Schema
  <2>4. (image # "confirmed" => Sound(PreviousSchema))'
    BY <1>1, <2>2 DEF Boots, Saving, Writing, PreviousStores
  <2>5. Ordered'
    <3>1. CASE Valid(Sibling, Schema)
      <4>1. blob'[target].gen = NextGeneration(blob'[Sibling].gen)
        BY <1>1, <1>3, <3>1 DEF Replacing
      <4>2. /\ GenerationNewer(blob'[target].gen, blob'[Sibling].gen)
            /\ ~GenerationNewer(blob'[Sibling].gen, blob'[target].gen)
        BY <1>1, <4>1, SiblingIs, NextIsNewer
      <4> QED BY <1>2, <4>2 DEF Ordered, Slots
    <3>2. CASE ~Valid(Sibling, Schema)
      BY <1>2, <1>4, <3>2 DEF Ordered, Slots
    <3> QED BY <3>1, <3>2
  <2>6. Saving'
    BY <1>1, <1>6, <2>3 DEF Boots, Saving, Writing
  <2> QED BY <2>3, <2>4, <2>5, <2>6 DEF Boots
<1> QED BY <1>1, <1>5, <1>6

LEMMA WriteReadyBoots ==
    ASSUME TypeOK, Durable, Boots, WriteReady PROVE Boots'
<1>1. /\ UNCHANGED <<blob, mark, image, inUse, power, target, fresh>>
      /\ step = "ready" /\ step' = "verify"
  BY DEF WriteReady
<1>2. /\ \A s : (SomeValid(s)' <=> SomeValid(s)) /\ (Beaten(s)' <=> Beaten(s))
      /\ Intact' <=> Intact
      /\ Ordered' <=> Ordered
  BY <1>1 DEF SomeValid, Valid, Beaten, Beyond, Intact, Ordered
<1>3. SomeValid(Schema) \/ ~Intact
  <2>1. /\ target \in Slots /\ blob[target] = fresh /\ fresh.schema \in {6, 7}
        /\ mark[target] \in {fresh, Rubbish}
    BY <1>1, SiblingIs DEF Durable, Replacing, SaveSteps, Boots, Saving
  <2>2. CASE mark[target] = fresh
    BY <2>1, <2>2 DEF SomeValid, Valid, Schema
  <2>3. CASE mark[target] = Rubbish
    BY <2>1, <2>3 DEF Intact
  <2> QED BY <2>1, <2>2, <2>3
<1>4. \A s : Sound(s) => Sound(s)'
  BY <1>2, <1>3 DEF Sound
<1>5. Saving'
  BY <1>1, <1>2, <1>3 DEF Boots, Saving, Writing
<1> QED BY <1>1, <1>2, <1>4, <1>5 DEF Boots

-----------------------------------------------------------------------------
(* The theorem.                                                            *)

LEMMA BootsNext ==
    ASSUME AllReadable, PreviousStores, TypeOK, TypeOK', Durable, Boots, [Next]_vars
    PROVE  Boots'
BY CalmSteps, LoadBoots, WriteStateBoots, SelectTargetBoots, EraseMarkerBoots, WriteBlobBoots,
   WriteMarkerBoots, WriteReadyBoots
   DEF Next, SaveStep

\* The invariant says what the property says.
LEMMA OrderedIs == ASSUME TypeOK PROVE Ordered <=> OneNewest
<1>1. (\A i \in Slots : ReadSlot(i, Schema, {}) = "valid") <=> Valid(0, Schema) /\ Valid(1, Schema)
  BY Reads DEF Slots, Schema
<1> QED BY <1>1 DEF Ordered, OneNewest, GenerationNewer

LEMMA BootsIsRecoverable ==
    ASSUME PreviousStores, TypeOK, Boots PROVE Recoverable
<1>1. OneNewest
  BY OrderedIs DEF Boots
<1>2. \A s \in {6, 7} : Intact /\ Sound(s) /\ Sound(Schema) => Loadable(s)
  BY LoadableIs DEF Sound, FirstSave, SomeValid, Valid, Empty, Absent, Slots, Schema
<1>3. Bootable
  <2>1. SelectSlots(Schema, {}).slot = NoSlot => ~SomeValid(Schema)
    BY SelectIs DEF Boots, Sound, Schema
  <2> QED BY <1>2, <2>1 DEF Bootable, Boots, Saving, Schema
<1>4. RollbackReads
  BY <1>2 DEF RollbackReads, Boots, PreviousStores
<1> QED BY <1>1, <1>3, <1>4 DEF Recoverable

LEMMA BootsInit ==
    ASSUME PreviousStores, Init, TypeOK, Intact, Recoverable PROVE Boots
<1>1. Ordered
  BY OrderedIs DEF Recoverable
<1>2. Loadable(Schema) /\ (SelectSlots(Schema, {}).slot = NoSlot => state # "ready")
  BY DEF Recoverable, Bootable
<1>3. Sound(Schema)
  BY <1>2, LoadableIs DEF Sound, Schema
<1>4. image # "confirmed" => Sound(PreviousSchema)
  <2> SUFFICES ASSUME image # "confirmed" PROVE Sound(PreviousSchema)
    OBVIOUS
  <2>1. Loadable(PreviousSchema)
    BY DEF Recoverable, RollbackReads
  <2>2. SomeValid(PreviousSchema) => SomeValid(Schema)
    BY DEF SomeValid, Valid, Schema, PreviousStores
  <2>3. FirstSave(PreviousSchema) => ~SomeValid(Schema)
    BY DEF FirstSave, SomeValid, Valid, Empty, Absent, Slots, Schema, PreviousStores
  <2> QED BY <2>1, <2>2, <2>3, LoadableIs DEF Sound, PreviousStores
<1>5. Saving
  <2>1. ~SomeValid(Schema) => state # "ready"
    BY <1>2, SelectIs DEF Schema
  <2> QED BY <2>1 DEF Init, NoJob, Saving, Writing
<1> QED BY <1>1, <1>3, <1>4, <1>5 DEF Boots

\* What could be loaded at the first boot can be loaded after a power cut at any
\* point, by the running image and by the one it may be rolled back to, and of two
\* slots that count one is newer.
THEOREM RecoverableAlways ==
    ASSUME AllReadable, PreviousStores
    PROVE  Spec /\ Intact /\ Recoverable => []Recoverable
<1>1. Init /\ TypeOK /\ Intact /\ Recoverable => Boots
  BY BootsInit
<1>2. TypeOK /\ TypeOK' /\ Durable /\ Boots /\ [Next]_vars => Boots'
  BY BootsNext
<1>3. TypeOK /\ Boots => Recoverable
  BY BootsIsRecoverable
<1> QED
  BY <1>1, <1>2, <1>3, TypeCorrect, DurableInvariant, PTL DEF Spec

-----------------------------------------------------------------------------
(* The forms of the page (Settings).                                       *)

\* The configuration of a device that leaves the factory.
LEMMA DefaultsSound ==
    ASSUME T!SettingsAssumption
    PROVE  T!Sound(T!Defaults) /\ T!Usable(T!Defaults.acc)
<1>1. T!Defaults \in T!Configs
  <2>1. [i \in T!Slots |-> T!NoNet] \in [T!Slots -> T!Networks]
    BY DEF T!Networks
  <2>2. [a \in T!Accounts |-> [user |-> a = 0, pass |-> a = 0]]
          \in [T!Accounts -> [user : BOOLEAN, pass : BOOLEAN]]
    OBVIOUS
  <2>3. [h \in T!Channels |-> [type |-> CHOOSE t \in ChannelTypes : TRUE, key |-> "none"]]
          \in [T!Channels -> [type : ChannelTypes, key : ChannelTypes \cup {"none"}]]
    BY DEF T!SettingsAssumption
  <2>4. 0 \in 0 .. MaxSaves
    BY DEF T!SettingsAssumption
  <2> QED BY <2>1, <2>2, <2>3, <2>4 DEF T!Configs, T!Defaults
<1>2. T!OwnSecrets(T!Defaults)
  BY DEF T!OwnSecrets, T!Defaults, T!NoNet
<1>3. T!Usable(T!Defaults.acc)
  BY DEF T!Usable, T!Defaults, T!Accounts
<1> QED BY <1>1, <1>2, <1>3 DEF T!Sound

\* A configuration and its parts.
LEMMA ConfigParts ==
    ASSUME NEW c, T!Sound(c)
    PROVE  /\ c = [nets |-> c.nets, acc |-> c.acc, chan |-> c.chan, plain |-> c.plain,
                   mark |-> c.mark]
           /\ c.nets \in [T!Slots -> T!Networks]
           /\ c.acc \in [T!Accounts -> [user : BOOLEAN, pass : BOOLEAN]]
           /\ c.chan \in [T!Channels -> [type : ChannelTypes, key : ChannelTypes \cup {"none"}]]
           /\ c.plain \in [T!Plain -> 0 .. MaxSaves]
           /\ c.mark \in [T!Markers -> 0 .. MaxSaves]
           /\ \A i \in T!Slots : c.nets[i].pass \in {c.nets[i].ssid, "open"}
           /\ \A h \in T!Channels : c.chan[h].key \in {c.chan[h].type, "none"}
  BY DEF T!Sound, T!Configs, T!OwnSecrets

\* The slot that gives way is one, and holds the network if some slot does.
LEMMA FromIs ==
    ASSUME T!SettingsAssumption, NEW nets, NEW net
    PROVE  /\ T!From(nets, net) \in T!Slots
           /\ \A i \in T!Slots : nets[i].ssid = net.ssid =>
                 nets[T!From(nets, net)].ssid = net.ssid
           /\ ~(\E i \in T!Slots : nets[i].ssid = net.ssid) => T!From(nets, net) = MaxNets - 1
<1> DEFINE same == {i \in T!Slots : nets[i].ssid = net.ssid}
<1>1. CASE same = {}
  <2>1. T!From(nets, net) = MaxNets - 1
    BY <1>1 DEF T!From
  <2> QED BY <1>1, <2>1 DEF T!Slots, T!SettingsAssumption
<1>2. CASE same # {}
  <2>1. IsFiniteSet(same)
    <3>1. IsFiniteSet(T!Slots)
      BY FS_Interval DEF T!Slots, T!SettingsAssumption
    <3> QED BY <3>1, FS_Subset
  <2>2. same \subseteq Nat
    BY DEF T!Slots, T!SettingsAssumption
  <2>3. C!IsFiniteSet(same)
    BY <2>1 DEF IsFiniteSet, C!IsFiniteSet
  <2>4. C!Lowest(same) \in same
    BY <1>2, <2>2, <2>3, C!LowestExists
  <2>5. T!From(nets, net) = C!Lowest(same)
    BY <1>2 DEF C!Lowest, T!From
  <2> QED BY <1>2, <2>4, <2>5
<1> QED BY <1>1, <1>2

\* The network lists that a save of a form may make.
LEMMA FirstSound ==
    ASSUME T!SettingsAssumption, NEW nets \in [T!Slots -> T!Networks],
           NEW net \in T!Networks, net.pass \in {net.ssid, "open"},
           \A i \in T!Slots : nets[i].pass \in {nets[i].ssid, "open"}
    PROVE  /\ T!First(nets, net) \in [T!Slots -> T!Networks]
           /\ \A i \in T!Slots : T!First(nets, net)[i].pass \in {T!First(nets, net)[i].ssid, "open"}
<1>1. T!First(nets, net) = [i \in T!Slots |-> IF i = 0 THEN net
                            ELSE IF i <= T!From(nets, net) THEN nets[i - 1] ELSE nets[i]]
  BY DEF T!First
<1>2. \A i \in T!Slots : i # 0 => i - 1 \in T!Slots
  BY DEF T!Slots, T!SettingsAssumption
<1> QED BY <1>1, <1>2

LEMMA FormKinds ==
    ASSUME NEW form \in T!Forms
    PROVE  \/ form.fam = "wifi" /\ form \in T!WifiForms
           \/ form.fam = "push" /\ form \in T!PushForms
           \/ form.fam = "accounts" /\ form \in T!AccountForms
           \/ form.fam = "plain" /\ form \in [fam : {"plain"}, i : T!Plain]
           \/ form.fam = "marker" /\ form \in [fam : {"marker"}, i : T!Markers]
           \/ form.fam = "remember" /\ form \in [fam : {"remember"}, ssid : Ssids, open : BOOLEAN]
           \/ form.fam = "restore"
           \/ form.fam = "reset"
  BY DEF T!Forms, T!WifiForms, T!PushForms, T!AccountForms, T!Others

\* A configuration with other parts is sound when those are.
LEMMA SoundWith ==
    ASSUME NEW nets \in [T!Slots -> T!Networks],
           NEW acc \in [T!Accounts -> [user : BOOLEAN, pass : BOOLEAN]],
           NEW chan \in [T!Channels -> [type : ChannelTypes, key : ChannelTypes \cup {"none"}]],
           NEW plain \in [T!Plain -> 0 .. MaxSaves], NEW marks \in [T!Markers -> 0 .. MaxSaves],
           \A i \in T!Slots : nets[i].pass \in {nets[i].ssid, "open"},
           \A h \in T!Channels : chan[h].key \in {chan[h].type, "none"}
    PROVE  T!Sound([nets |-> nets, acc |-> acc, chan |-> chan, plain |-> plain, mark |-> marks])
  BY DEF T!Sound, T!Configs, T!OwnSecrets

\* idf_config.cpp, every save: what it makes of two sound copies is sound, and
\* somebody can still log in.
LEMMA MadeSound ==
    ASSUME T!SettingsAssumption, NEW form \in T!Forms, NEW seen, NEW base,
           NEW id \in 0 .. MaxSaves, T!Sound(seen), T!Sound(base), T!Sound(s4),
           T!Usable(base.acc), ~T!Refused(form, seen, base)
    PROVE  T!Sound(T!Made(form, seen, base, id)) /\ T!Usable(T!Made(form, seen, base, id).acc)
<1> DEFINE made == T!Made(form, seen, base, id)
<1>0. /\ base = [nets |-> base.nets, acc |-> base.acc, chan |-> base.chan,
                 plain |-> base.plain, mark |-> base.mark]
      /\ base.nets \in [T!Slots -> T!Networks]
      /\ base.acc \in [T!Accounts -> [user : BOOLEAN, pass : BOOLEAN]]
      /\ base.chan \in [T!Channels -> [type : ChannelTypes, key : ChannelTypes \cup {"none"}]]
      /\ base.plain \in [T!Plain -> 0 .. MaxSaves]
      /\ base.mark \in [T!Markers -> 0 .. MaxSaves]
      /\ \A i \in T!Slots : base.nets[i].pass \in {base.nets[i].ssid, "open"}
      /\ \A h \in T!Channels : base.chan[h].key \in {base.chan[h].type, "none"}
  BY ConfigParts
<1>1. CASE form.fam = "wifi"
  <2>1. form \in T!WifiForms
    BY <1>1, FormKinds
  <2> DEFINE slot == T!Slot(form, base)
  <2>2. slot \in T!Networks /\ slot.pass \in {slot.ssid, "open"}
    <3>1. CASE form.ssid = "none"
      <4>1. slot = T!NoNet
        BY <3>1 DEF T!Slot
      <4>2. T!NoNet \in T!Networks /\ T!NoNet.pass = "open"
        BY DEF T!Networks, T!NoNet
      <4> QED BY <4>1, <4>2
    <3>2. CASE form.ssid # "none" /\ form.how \in {"open", "given"}
      BY <2>1, <3>2 DEF T!Slot, T!Networks, T!WifiForms
    <3>3. CASE form.ssid # "none" /\ form.how = "blank"
      <4>1. base.nets[form.i].ssid = form.ssid /\ base.nets[form.i].pass # "open"
        BY <1>1, <3>3 DEF T!Refused, T!Holds
      <4>2. base.nets[form.i].pass = form.ssid
        BY <1>0, <2>1, <4>1 DEF T!WifiForms
      <4>3. slot = [ssid |-> form.ssid, pass |-> form.ssid]
        BY <3>3, <4>2 DEF T!Slot
      <4> QED BY <2>1, <3>3, <4>3 DEF T!Networks, T!WifiForms
    <3> QED BY <2>1, <3>1, <3>2, <3>3 DEF T!WifiForms
  <2>3. form.i \in T!Slots
    BY <2>1 DEF T!WifiForms
  <2> DEFINE nets == [base.nets EXCEPT ![form.i] = slot]
  <2>4. made = [nets |-> nets, acc |-> base.acc, chan |-> base.chan,
                plain |-> base.plain, mark |-> base.mark]
    BY <1>0, <1>1 DEF T!Made
  <2> HIDE DEF slot, made
  <2>5. nets \in [T!Slots -> T!Networks] /\ \A i \in T!Slots : nets[i].pass \in {nets[i].ssid, "open"}
    BY <1>0, <2>2, <2>3
  <2> HIDE DEF nets
  <2>6. T!Sound(made)
    BY <1>0, <2>4, <2>5, SoundWith
  <2>7. T!Usable(made.acc)
    BY <2>4
  <2> QED BY <2>6, <2>7 DEF made
<1>2. CASE form.fam = "remember"
  <2>1. form.ssid \in Ssids
    BY <1>2, FormKinds
  <2>2. T!Net(form) \in T!Networks /\ T!Net(form).pass \in {T!Net(form).ssid, "open"}
    BY <2>1 DEF T!Net, T!Networks
  <2> DEFINE nets == T!First(base.nets, T!Net(form))
  <2>3. nets \in [T!Slots -> T!Networks] /\ \A i \in T!Slots : nets[i].pass \in {nets[i].ssid, "open"}
    BY <1>0, <2>2, FirstSound
  <2>4. made = [nets |-> nets, acc |-> base.acc, chan |-> base.chan,
                plain |-> base.plain, mark |-> base.mark]
    BY <1>0, <1>2 DEF T!Made
  <2> HIDE DEF made, nets
  <2>5. T!Sound(made)
    BY <1>0, <2>3, <2>4, SoundWith
  <2>6. T!Usable(made.acc)
    BY <2>4
  <2> QED BY <2>5, <2>6 DEF made
<1>3. CASE form.fam = "push"
  <2>1. form \in T!PushForms
    BY <1>3, FormKinds
  <2>2. /\ seen.chan \in [T!Channels -> [type : ChannelTypes, key : ChannelTypes \cup {"none"}]]
        /\ \A h \in T!Channels : seen.chan[h].key \in {seen.chan[h].type, "none"}
    BY ConfigParts
  <2> DEFINE ch == T!Channel(form, seen.chan[form.i])
             chan == [seen.chan EXCEPT ![form.i] = ch]
  <2>3. form.i \in T!Channels
    BY <2>1 DEF T!PushForms
  <2>4. ch \in [type : ChannelTypes, key : ChannelTypes \cup {"none"}] /\ ch.key \in {ch.type, "none"}
    BY <2>1, <2>2, <2>3 DEF T!Channel, T!PushForms
  <2>5. made = [nets |-> base.nets, acc |-> base.acc, chan |-> chan,
                plain |-> base.plain, mark |-> base.mark]
    BY <1>0, <1>3 DEF T!Made, T!WithChannel
  <2> HIDE DEF ch, made
  <2>6. /\ chan \in [T!Channels -> [type : ChannelTypes, key : ChannelTypes \cup {"none"}]]
        /\ \A h \in T!Channels : chan[h].key \in {chan[h].type, "none"}
    BY <2>2, <2>3, <2>4
  <2> HIDE DEF chan
  <2>7. T!Sound(made)
    BY <1>0, <2>5, <2>6, SoundWith
  <2>8. T!Usable(made.acc)
    BY <2>5
  <2> QED BY <2>7, <2>8 DEF made
<1>4. CASE form.fam = "accounts"
  <2> DEFINE acc == T!NewAccounts(form, seen, base)
  <2>1. T!Usable(acc)
    BY <1>4 DEF T!Refused
  <2>2. form \in T!AccountForms
    BY <1>4, FormKinds
  <2>3. acc \in [T!Accounts -> [user : BOOLEAN, pass : BOOLEAN]]
    <3>1. seen.acc \in [T!Accounts -> [user : BOOLEAN, pass : BOOLEAN]]
      BY ConfigParts
    <3> QED BY <1>0, <2>2, <3>1 DEF T!NewAccounts, T!AccountOf, T!AccountForms
  <2>4. made = [nets |-> base.nets, acc |-> acc, chan |-> base.chan,
                plain |-> base.plain, mark |-> base.mark]
    BY <1>0, <1>4 DEF T!Made
  <2> HIDE DEF acc, made
  <2>5. T!Sound(made)
    BY <1>0, <2>3, <2>4, SoundWith
  <2> QED BY <2>1, <2>4, <2>5 DEF made
<1>5. CASE form.fam = "plain"
  <2> DEFINE plain == [base.plain EXCEPT ![form.i] = id]
  <2>1. plain \in [T!Plain -> 0 .. MaxSaves]
    BY <1>0
  <2>2. made = [nets |-> base.nets, acc |-> base.acc, chan |-> base.chan,
                plain |-> plain, mark |-> base.mark]
    BY <1>0, <1>5 DEF T!Made
  <2> HIDE DEF plain, made
  <2>8. T!Sound(made)
    BY <1>0, <2>1, <2>2, SoundWith
  <2>9. T!Usable(made.acc)
    BY <2>2
  <2> QED BY <2>8, <2>9 DEF made
<1>6. CASE form.fam = "marker"
  <2> DEFINE marks == [base.mark EXCEPT ![form.i] = id]
  <2>1. marks \in [T!Markers -> 0 .. MaxSaves]
    BY <1>0
  <2>2. made = [nets |-> base.nets, acc |-> base.acc, chan |-> base.chan,
                plain |-> base.plain, mark |-> marks]
    BY <1>0, <1>6 DEF T!Made
  <2> HIDE DEF marks, made
  <2>8. T!Sound(made)
    BY <1>0, <2>1, <2>2, SoundWith
  <2>9. T!Usable(made.acc)
    BY <2>2
  <2> QED BY <2>8, <2>9 DEF made
<1>7. CASE form.fam = "restore"
  <2> DEFINE plain == [base.plain EXCEPT !["email"] = s4.plain["email"]]
  <2>1. /\ s4.nets \in [T!Slots -> T!Networks]
        /\ s4.chan \in [T!Channels -> [type : ChannelTypes, key : ChannelTypes \cup {"none"}]]
        /\ s4.plain \in [T!Plain -> 0 .. MaxSaves]
        /\ \A i \in T!Slots : s4.nets[i].pass \in {s4.nets[i].ssid, "open"}
        /\ \A h \in T!Channels : s4.chan[h].key \in {s4.chan[h].type, "none"}
    BY ConfigParts
  <2>2. plain \in [T!Plain -> 0 .. MaxSaves]
    BY <1>0, <2>1 DEF T!Plain
  <2>3. made = [nets |-> s4.nets, acc |-> base.acc, chan |-> s4.chan,
                plain |-> plain, mark |-> base.mark]
    BY <1>0, <1>7 DEF T!Made, T!Restored
  <2> HIDE DEF plain, made
  <2>8. T!Sound(made)
    BY <1>0, <2>1, <2>2, <2>3, SoundWith
  <2>9. T!Usable(made.acc)
    BY <2>3
  <2> QED BY <2>8, <2>9 DEF made
<1>8. CASE form.fam = "reset"
  BY <1>8, DefaultsSound DEF T!Made
<1> QED BY <1>1, <1>2, <1>3, <1>4, <1>5, <1>6, <1>7, <1>8, FormKinds

\* What a save stores differs from what has been acknowledged in nothing but what
\* it will acknowledge.
LEMMA MadeAcks ==
    ASSUME T!SettingsAssumption, T!IInv, NEW form \in T!Forms, NEW seen, NEW id \in 1 .. MaxSaves
    PROVE  T!Own(T!Made(form, seen, s1, id)) = T!Ack(form, T!Made(form, seen, s1, id))
<1> DEFINE made == T!Made(form, seen, s1, id)
<1>0. /\ s1.plain \in [T!Plain -> 0 .. MaxSaves]
      /\ s1.mark \in [T!Markers -> 0 .. MaxSaves]
      /\ s1.acc \in [T!Accounts -> [user : BOOLEAN, pass : BOOLEAN]]
      /\ s1 = [nets |-> s1.nets, acc |-> s1.acc, chan |-> s1.chan, plain |-> s1.plain,
               mark |-> s1.mark]
  BY ConfigParts DEF T!IInv
<1>1. s6 = [plain |-> s1.plain, mark |-> s1.mark, acc |-> s1.acc]
  BY DEF T!IInv, T!LastWins, T!Own
<1>2. CASE form.fam = "wifi"
  <2>1. made = [s1 EXCEPT !.nets = made.nets]
    BY <1>0, <1>2 DEF T!Made
  <2> QED BY <1>0, <1>1, <1>2, <2>1 DEF T!Own, T!Ack
<1>3. CASE form.fam = "remember"
  <2>1. made = [s1 EXCEPT !.nets = made.nets]
    BY <1>0, <1>3 DEF T!Made
  <2> QED BY <1>0, <1>1, <1>3, <2>1 DEF T!Own, T!Ack
<1>4. CASE form.fam = "push"
  <2>1. made = [s1 EXCEPT !.chan = made.chan]
    BY <1>0, <1>4 DEF T!Made, T!WithChannel
  <2> QED BY <1>0, <1>1, <1>4, <2>1 DEF T!Own, T!Ack
<1>5. CASE form.fam = "accounts"
  <2>1. made = [s1 EXCEPT !.acc = made.acc]
    BY <1>0, <1>5 DEF T!Made
  <2> QED BY <1>0, <1>1, <1>5, <2>1 DEF T!Own, T!Ack
<1>6. CASE form.fam = "plain"
  <2>1. made = [s1 EXCEPT !.plain = [s1.plain EXCEPT ![form.i] = id]]
    BY <1>0, <1>6 DEF T!Made
  <2>2. form.i \in T!Plain
    BY <1>6, FormKinds
  <2> HIDE DEF made
  <2>3. made.plain = [s1.plain EXCEPT ![form.i] = id]
        /\ made.mark = s1.mark /\ made.acc = s1.acc
    BY <1>0, <2>1
  <2>4. made.plain[form.i] = id
    BY <1>0, <2>2, <2>3
  <2>5. T!Ack(form, made) = [s6 EXCEPT !.plain[form.i] = made.plain[form.i]]
    BY <1>6 DEF T!Ack
  <2>6. T!Ack(form, made) = [plain |-> [s1.plain EXCEPT ![form.i] = id], mark |-> s1.mark, acc |-> s1.acc]
    BY <1>1, <2>4, <2>5
  <2> QED BY <2>3, <2>6 DEF T!Own, made
<1>7. CASE form.fam = "marker"
  <2>1. made = [s1 EXCEPT !.mark = [s1.mark EXCEPT ![form.i] = id]]
    BY <1>0, <1>7 DEF T!Made
  <2>2. form.i \in T!Markers
    BY <1>7, FormKinds
  <2> HIDE DEF made
  <2>3. made.mark = [s1.mark EXCEPT ![form.i] = id]
        /\ made.plain = s1.plain /\ made.acc = s1.acc
    BY <1>0, <2>1
  <2>4. made.mark[form.i] = id
    BY <1>0, <2>2, <2>3
  <2>5. T!Ack(form, made) = [s6 EXCEPT !.mark[form.i] = made.mark[form.i]]
    BY <1>7 DEF T!Ack
  <2>6. T!Ack(form, made) = [plain |-> s1.plain, mark |-> [s1.mark EXCEPT ![form.i] = id], acc |-> s1.acc]
    BY <1>1, <2>4, <2>5
  <2> QED BY <2>3, <2>6 DEF T!Own, made
<1>8. CASE form.fam = "restore"
  <2>1. /\ made.plain = [s1.plain EXCEPT !["email"] = s4.plain["email"]]
        /\ made.mark = s1.mark /\ made.acc = s1.acc
    BY <1>0, <1>8 DEF T!Made, T!Restored
  <2> HIDE DEF made
  <2>2. made.plain["email"] = s4.plain["email"]
    BY <1>0, <2>1 DEF T!Plain
  <2>3. T!Ack(form, made) = [s6 EXCEPT !.plain["email"] = made.plain["email"]]
    BY <1>8 DEF T!Ack
  <2>4. T!Ack(form, made) = [plain |-> [s1.plain EXCEPT !["email"] = s4.plain["email"]], mark |-> s1.mark, acc |-> s1.acc]
    BY <1>1, <2>2, <2>3
  <2> QED BY <2>1, <2>4 DEF T!Own, made
<1>9. CASE form.fam = "reset"
  BY <1>9 DEF T!Ack
<1> QED BY <1>2, <1>3, <1>4, <1>5, <1>6, <1>7, <1>8, <1>9, FormKinds

\* Only the one that has the lock stores.
LEMMA OneStores ==
    ASSUME T!SettingsAssumption, T!IInv, NEW t \in Savers, s3[t].at = "store"
    PROVE  T!Storing(t, s3[t]) /\ s2 = t
  BY DEF T!IInv, T!Reading, T!Storing, T!Rest

LEMMA OneReads ==
    ASSUME T!IInv, NEW t \in Savers, s3[t].at = "read"
    PROVE  T!Reading(s3[t])
  BY DEF T!IInv, T!Reading, T!Storing, T!Rest

LEMMA SettingsInit == ASSUME T!SettingsAssumption, T!Init PROVE T!IInv
<1>1. T!Sound(s1) /\ T!Sound(s4) /\ T!NotLockedOut
  BY DefaultsSound DEF T!Init, T!NotLockedOut
<1>2. T!LastWins
  BY DEF T!Init, T!LastWins
<1>3. s6 \in [plain : [T!Plain -> 0 .. MaxSaves], mark : [T!Markers -> 0 .. MaxSaves],
              acc : [T!Accounts -> [user : BOOLEAN, pass : BOOLEAN]]]
  BY <1>1, <1>2, ConfigParts DEF T!LastWins, T!Own
<1>4. T!TypeOK
  BY <1>1, <1>3 DEF T!TypeOK, T!Sound, T!Init, T!Rest, T!SettingsAssumption
<1> QED BY <1>1, <1>2, <1>4 DEF T!IInv, T!Init

LEMMA ReadKeeps ==
    ASSUME T!SettingsAssumption, T!IInv, NEW t \in Savers, NEW form \in T!Forms, T!Read(t, form)
    PROVE  T!IInv'
<1>1. UNCHANGED <<s1, s2, s4, s6>> /\ s5' = s5 + 1 /\ s5 < MaxSaves
  BY DEF T!Read
<1>2. s3' = [s3 EXCEPT ![t] = [at |-> "read", form |-> form, seen |-> s1, id |-> s5 + 1]]
  BY DEF T!Read
<1>3. s5 \in 0 .. MaxSaves /\ s5' \in 0 .. MaxSaves /\ s5 + 1 \in 1 .. MaxSaves
  BY <1>1 DEF T!IInv, T!TypeOK, T!SettingsAssumption
<1>4. T!Reading(s3'[t])
  BY <1>2, <1>3 DEF T!Reading, T!IInv, T!Sound
<1>5. ASSUME NEW u \in Savers, u # t
      PROVE  (s3[u] = T!Rest \/ T!Reading(s3[u]) \/ T!Storing(u, s3[u]))'
  <2>1. s3'[u] = s3[u]
    BY <1>2, <1>5
  <2>2. T!Storing(u, s3[u]) => T!Storing(u, s3[u])'
    BY <1>1, <2>1 DEF T!Storing, T!Ack
  <2> QED BY <2>1, <2>2 DEF T!IInv, T!Reading
<1>6. \A u \in Savers : (s3[u] = T!Rest \/ T!Reading(s3[u]) \/ T!Storing(u, s3[u]))'
  BY <1>2, <1>4, <1>5 DEF T!IInv, T!Reading
<1>7. (\A u \in Savers : s3[u].at \in {"idle", "read", "store"})'
  BY <1>6 DEF T!Reading, T!Storing, T!Rest
<1>8. T!TypeOK'
  BY <1>1, <1>3, <1>7 DEF T!IInv, T!TypeOK
<1> QED BY <1>1, <1>2, <1>6, <1>8 DEF T!IInv, T!NotLockedOut, T!LastWins, T!Sound, T!OwnSecrets

LEMMA BeginKeeps ==
    ASSUME T!SettingsAssumption, T!IInv, NEW t \in Savers, T!Begin(t)
    PROVE  T!IInv'
<1> DEFINE form == s3[t].form
           made == T!Made(form, s3[t].seen, s1, s3[t].id)
<1>1. T!Reading(s3[t]) /\ s2 = "none" /\ UNCHANGED <<s1, s4, s5, s6>>
  BY OneReads DEF T!Begin
<1>2. \A u \in Savers : s3[u] = T!Rest \/ T!Reading(s3[u])
  BY <1>1 DEF T!IInv, T!Storing, T!SettingsAssumption
<1>3. form \in T!Forms /\ s3[t].id \in 1 .. MaxSaves /\ s3[t].id \in 0 .. MaxSaves /\ T!Sound(s3[t].seen)
  BY <1>1 DEF T!Reading, T!Sound, T!SettingsAssumption
<1>4. CASE T!Refused(form, s3[t].seen, s1)
  <2>1. s3' = [s3 EXCEPT ![t] = T!Rest] /\ s2' = s2
    BY <1>4 DEF T!Begin, T!Drop
  <2>2. \A u \in Savers : (s3[u] = T!Rest \/ T!Reading(s3[u]))'
    BY <1>2, <2>1 DEF T!IInv, T!Reading
  <2>3. T!TypeOK'
    BY <1>1, <2>1, <2>2 DEF T!IInv, T!TypeOK, T!Reading, T!Rest
  <2> QED BY <1>1, <2>1, <2>2, <2>3 DEF T!IInv, T!NotLockedOut, T!LastWins, T!Sound, T!OwnSecrets
<1>5. CASE ~T!Refused(form, s3[t].seen, s1)
  <2>1. s2' = t /\ s3' = [s3 EXCEPT ![t] = [at |-> "store", form |-> form, next |-> made]]
    BY <1>5 DEF T!Begin, T!Keep
  <2>2. T!Sound(made) /\ T!Usable(made.acc)
    BY <1>3, <1>5, MadeSound DEF T!IInv, T!NotLockedOut
  <2>3. T!Own(made) = T!Ack(form, made)
    BY <1>3, MadeAcks
  <2>4. form.fam = "remember" => made.nets = T!First(s1.nets, T!Net(form))
    <3>1. s1 = [nets |-> s1.nets, acc |-> s1.acc, chan |-> s1.chan, plain |-> s1.plain,
               mark |-> s1.mark]
      BY ConfigParts DEF T!IInv
    <3> QED BY <3>1 DEF T!Made
  <2> HIDE DEF made, form
  <2>5. s3'[t] = [at |-> "store", form |-> form, next |-> made]
    BY <2>1 DEF T!IInv
  <2>6. s3'[t].form = form /\ s3'[t].next = made
    BY <2>5
  <2>7. T!Storing(t, s3[t])'
    BY <1>1, <1>3, <2>1, <2>2, <2>3, <2>4, <2>5, <2>6 DEF T!Storing, T!Sound, T!Ack
  <2>8. \A u \in Savers : (s3[u] = T!Rest \/ T!Reading(s3[u]) \/ T!Storing(u, s3[u]))'
    BY <1>2, <2>1, <2>7 DEF T!IInv, T!Reading
  <2>9. (\A u \in Savers : s3[u].at \in {"idle", "read", "store"})'
    BY <2>8 DEF T!Reading, T!Storing, T!Rest
  <2>10. T!TypeOK'
    BY <1>1, <2>1, <2>9 DEF T!IInv, T!TypeOK
  <2> QED BY <1>1, <2>1, <2>8, <2>10 DEF T!IInv, T!NotLockedOut, T!LastWins, T!Sound, T!OwnSecrets
<1> QED BY <1>4, <1>5

LEMMA FinishKeeps ==
    ASSUME T!SettingsAssumption, T!IInv, NEW t \in Savers, T!Finish(t)
    PROVE  T!IInv'
<1>1. T!Storing(t, s3[t]) /\ s2 = t
  BY OneStores DEF T!Finish
<1>2. s2' = "none" /\ s3' = [s3 EXCEPT ![t] = T!Rest] /\ UNCHANGED <<s4, s5>>
  BY DEF T!Finish
<1>3. \A u \in Savers : (s3[u] = T!Rest \/ T!Reading(s3[u]))'
  <2>1. \A u \in Savers : u # t => s3[u] = T!Rest \/ T!Reading(s3[u])
    BY <1>1 DEF T!IInv, T!Storing
  <2> QED BY <1>2, <2>1 DEF T!IInv, T!Reading
<1>4. T!Sound(s1)' /\ T!NotLockedOut' /\ T!LastWins'
  <2>1. CASE s1' = s3[t].next /\ s6' = T!Ack(s3[t].form, s3[t].next)
    BY <1>1, <2>1 DEF T!Storing, T!Sound, T!OwnSecrets, T!NotLockedOut, T!LastWins
  <2>2. CASE UNCHANGED <<s1, s6>>
    BY <2>2 DEF T!IInv, T!Sound, T!OwnSecrets, T!NotLockedOut, T!LastWins
  <2> QED BY <2>1, <2>2 DEF T!Finish
<1>5. T!Sound(s4)'
  BY <1>2 DEF T!IInv, T!Sound, T!OwnSecrets
<1>6. (s6 \in [plain : [T!Plain -> 0 .. MaxSaves], mark : [T!Markers -> 0 .. MaxSaves],
               acc : [T!Accounts -> [user : BOOLEAN, pass : BOOLEAN]]])'
  BY <1>4 DEF T!LastWins, T!Own, T!Sound, T!Configs
<1>7. T!TypeOK'
  BY <1>2, <1>3, <1>4, <1>5, <1>6 DEF T!IInv, T!TypeOK, T!Sound, T!Reading, T!Rest
<1> QED BY <1>2, <1>3, <1>4, <1>5, <1>7 DEF T!IInv

LEMMA ExportKeeps ==
    ASSUME T!SettingsAssumption, T!IInv, T!Export PROVE T!IInv'
<1>1. s4' = s1 /\ UNCHANGED <<s1, s2, s3, s5, s6>>
  BY DEF T!Export
<1>2. \A u \in Savers : T!Storing(u, s3[u]) => T!Storing(u, s3[u])'
  BY <1>1 DEF T!Storing, T!Ack
<1>3. \A u \in Savers : (s3[u] = T!Rest \/ T!Reading(s3[u]) \/ T!Storing(u, s3[u]))'
  BY <1>1, <1>2 DEF T!IInv, T!Reading
<1>4. T!Sound(s1)' /\ T!Sound(s4)'
  BY <1>1 DEF T!IInv, T!Sound, T!OwnSecrets
<1>5. T!TypeOK'
  BY <1>1, <1>4 DEF T!IInv, T!TypeOK, T!Sound
<1> QED BY <1>1, <1>3, <1>4, <1>5 DEF T!IInv, T!NotLockedOut, T!LastWins

LEMMA SettingsKept ==
    ASSUME T!SettingsAssumption, T!IInv, [T!Next]_(T!vars) PROVE T!IInv'
<1>1. CASE UNCHANGED T!vars
  <2>1. UNCHANGED <<s1, s2, s3, s4, s5, s6>>
    BY <1>1 DEF T!vars
  <2>2. \A u \in Savers : T!Storing(u, s3[u]) => T!Storing(u, s3[u])'
    BY <2>1 DEF T!Storing, T!Ack
  <2>3. \A u \in Savers : (s3[u] = T!Rest \/ T!Reading(s3[u]) \/ T!Storing(u, s3[u]))'
    BY <2>1, <2>2 DEF T!IInv, T!Reading
  <2> QED BY <2>1, <2>3 DEF T!IInv, T!TypeOK, T!NotLockedOut, T!LastWins, T!Sound, T!OwnSecrets
<1> QED BY <1>1, ReadKeeps, BeginKeeps, FinishKeeps, ExportKeeps DEF T!Next

\* idf_config_save_wifi: every network keeps a slot, or the last of a full list goes.
LEMMA FirstKeeps ==
    ASSUME T!SettingsAssumption, NEW nets, NEW net, NEW i \in T!Slots,
           \/ i # MaxNets - 1
           \/ \E k \in T!Slots : nets[k].ssid = net.ssid
    PROVE  \E j \in T!Slots : T!First(nets, net)[j].ssid = nets[i].ssid
<1> DEFINE from == T!From(nets, net)
           new == T!First(nets, net)
<1>1. new = [k \in T!Slots |-> IF k = 0 THEN net ELSE IF k <= from THEN nets[k - 1] ELSE nets[k]]
  BY DEF T!First
<1>2. from \in T!Slots
  BY FromIs
<1>3. i = from => nets[from].ssid = net.ssid
  BY FromIs
<1> HIDE DEF from, new
<1>4. CASE i < from
  <2>1. i + 1 \in T!Slots /\ i + 1 # 0 /\ i + 1 <= from /\ (i + 1) - 1 = i
    BY <1>2, <1>4 DEF T!Slots, T!SettingsAssumption
  <2>2. new[i + 1] = nets[i]
    BY <1>1, <2>1
  <2> QED BY <2>1, <2>2 DEF new
<1>5. CASE i > from
  <2>1. i # 0 /\ ~(i <= from)
    BY <1>2, <1>5 DEF T!Slots, T!SettingsAssumption
  <2>2. new[i] = nets[i]
    BY <1>1, <2>1
  <2> QED BY <2>2 DEF new
<1>6. CASE i = from
  <2>1. nets[from].ssid = net.ssid
    BY <1>3, <1>6
  <2>2. new[0] = net /\ 0 \in T!Slots
    BY <1>1 DEF T!Slots, T!SettingsAssumption
  <2> QED BY <1>6, <2>1, <2>2 DEF new
<1> QED BY <1>2, <1>4, <1>5, <1>6 DEF T!Slots, T!SettingsAssumption

LEMMA RemembersStep ==
    ASSUME T!SettingsAssumption, T!IInv, NEW t \in Savers
    PROVE  T!Remembered(t)
<1> SUFFICES ASSUME s3[t].at = "store", s3[t].form.fam = "remember", s1' = s3[t].next, s2' # s2
             PROVE  LET kept == {i \in T!Slots : \E j \in T!Slots : s1'.nets[j].ssid = s1.nets[i].ssid}
                        known == \E i \in T!Slots : s1.nets[i].ssid = s3[t].form.ssid
                    IN  kept = T!Slots \/ (~known /\ T!Slots \ kept = {MaxNets - 1})
  BY DEF T!Remembered
<1>1. s1'.nets = T!First(s1.nets, T!Net(s3[t].form))
  BY OneStores DEF T!Storing
<1>2. T!Net(s3[t].form).ssid = s3[t].form.ssid
  BY DEF T!Net
<1> DEFINE kept == {i \in T!Slots : \E j \in T!Slots : s1'.nets[j].ssid = s1.nets[i].ssid}
<1>3. ASSUME NEW i \in T!Slots, \/ i # MaxNets - 1
                                 \/ \E k \in T!Slots : s1.nets[k].ssid = s3[t].form.ssid
      PROVE  i \in kept
  <2> DEFINE nets == s1.nets
             net == T!Net(s3[t].form)
  <2>1. i # MaxNets - 1 \/ \E k \in T!Slots : nets[k].ssid = net.ssid
    BY <1>2, <1>3
  <2> HIDE DEF nets, net
  <2>2. \E j \in T!Slots : T!First(nets, net)[j].ssid = nets[i].ssid
    BY <2>1, FirstKeeps
  <2> QED BY <1>1, <2>2 DEF nets, net
<1>4. MaxNets - 1 \in T!Slots
  BY DEF T!Slots, T!SettingsAssumption
<1>5. kept \subseteq T!Slots
  OBVIOUS
<1> HIDE DEF kept
<1>6. CASE \E k \in T!Slots : s1.nets[k].ssid = s3[t].form.ssid
  <2>1. kept = T!Slots
    BY <1>3, <1>5, <1>6
  <2> QED BY <2>1 DEF kept
<1>7. CASE ~\E k \in T!Slots : s1.nets[k].ssid = s3[t].form.ssid
  <2>1. kept = T!Slots \/ T!Slots \ kept = {MaxNets - 1}
    BY <1>3, <1>4, <1>5
  <2> QED BY <1>7, <2>1 DEF kept
<1> QED BY <1>6, <1>7

-----------------------------------------------------------------------------
(* WiFi provisioning (Wifi)                                                *)

\* wifi_connect_locked changes the link alone, and nothing when there is one.
LEMMA ConnectedSound ==
    ASSUME W!Typed
    PROVE  /\ W!Connected(s1) \in W!Drivers
           /\ W!Connected(s1).ap = s1.ap /\ W!Connected(s1).cfg = s1.cfg
           /\ s1.link # "off" => W!Connected(s1) = s1
  BY DEF W!Typed, W!TypeOK, W!Connected, W!Drivers

\* start_provisioning_ap_locked puts the AP up and leaves the station its
\* network.
LEMMA ApUpSound ==
    ASSUME W!Typed
    PROVE  /\ W!ApUp(s1) \in W!Drivers
           /\ W!ApUp(s1).ap = TRUE /\ W!ApUp(s1).cfg = s1.cfg
<1>1. s1 \in W!Drivers /\ W!Connected(s1) \in W!Drivers /\ W!Connected(s1).cfg = s1.cfg
  BY ConnectedSound DEF W!Typed, W!TypeOK
<1> QED BY <1>1 DEF W!ApUp, W!Drivers

\* wifi_apply_and_connect_locked puts the network in where the link is off.
LEMMA AppliedSound ==
    ASSUME W!Typed, NEW net \in W!Networks
    PROVE  /\ W!Applied(s1, net) \in W!Drivers
           /\ W!Applied(s1, net).ap = s5.on
           /\ s1.link = "off" => W!Applied(s1, net).cfg = net
<1>1. s1 \in W!Drivers /\ s5.on \in BOOLEAN BY DEF W!Typed, W!TypeOK, W!Aps
<1> QED BY <1>1 DEF W!Applied, W!Connected, W!Drivers

\* A step that leaves the target, its use and the network in the driver alone.
LEMMA AimedStays ==
    ASSUME W!Aimed, s1'.cfg = s1.cfg, s12'.kind = s12.kind, s12'.back = s12.back,
           UNCHANGED <<s7, s8>>, W!Working' <=> W!Working
    PROVE  W!Aimed'
  BY DEF W!Aimed, W!Goal

\* A request of the page that finds the mutex taken changes nothing of the
\* radio.
LEMMA WebRefused ==
    ASSUME W!Typed, NEW kind, W!WebBegins(kind), ~W!Free
    PROVE  /\ UNCHANGED <<s1, s5, s7, s8, s10, s11, s12>>
           /\ s6'.up = s6.up /\ s6'.cred = s6.cred /\ s13'.odd = s13.odd
  BY DEF W!Typed, W!TypeOK, W!Stas, W!WebBegins

\* A request of the page that gets the mutex, and what it remembers and clears.
LEMMA WebBegun ==
    ASSUME W!Typed, NEW kind \in {"submit", "reconnect"}, W!WebBegins(kind), W!Free
    PROVE  /\ s11' = [s11 EXCEPT !["web"] = "leave"]
           /\ s12'.kind = kind /\ s12'.back = s7 /\ s12'.started = s12.started
           /\ s6'.up = s6.up /\ s6'.cred = s6.cred
           /\ s7' = (IF kind = "submit" THEN "none" ELSE s7)
           /\ s8' # "none" => s8 # "none"
           /\ s1'.cfg = s1.cfg /\ s1'.link = s1.link
           /\ s5' = s5 \/ ~s5'.on
           /\ s13'.odd = s13.odd /\ s10' = s10
<1>1. s12'.kind = kind /\ s12'.back = s7 /\ s12'.started = s12.started
  BY DEF W!Typed, W!TypeOK, W!Mems, W!WebBegins
<1>2. s1'.cfg = s1.cfg /\ s1'.link = s1.link
  BY DEF W!Typed, W!TypeOK, W!Drivers, W!WebBegins, W!ResetClosing
<1>3. s6'.up = s6.up /\ s6'.cred = s6.cred
  BY DEF W!Typed, W!TypeOK, W!Stas, W!WebBegins
<1>4. s5' = s5 \/ ~s5'.on
  BY DEF W!WebBegins, W!ResetClosing
<1>5. s13'.odd = s13.odd
  BY DEF W!Typed, W!WebBegins
<1>6. /\ s11' = [s11 EXCEPT !["web"] = "leave"]
      /\ s7' = (IF kind = "submit" THEN "none" ELSE s7)
      /\ (s8' # "none" => s8 # "none")
      /\ s10' = s10
  BY DEF W!WebBegins
<1> QED BY <1>1, <1>2, <1>3, <1>4, <1>5, <1>6

\* The access point answers: the station gets an address, and the event waits
\* its turn.
LEMMA WifiLinkUp ==
    ASSUME W!WifiAssumption, W!IInv, W!LinkUp
    PROVE  W!IInv'
<1>1. W!Typed'
  <2>1. W!Typed BY DEF W!IInv
  <2>2. s1' \in W!Drivers
    BY <2>1 DEF W!Typed, W!TypeOK, W!Drivers, W!LinkUp
  <2>3. s2' \in Seq({"gone", "gotip"}) /\ Len(s2') <= MaxEvents
    BY <2>1 DEF W!Typed, W!WifiAssumption, W!LinkUp, W!Happens
  <2>4. UNCHANGED <<s3, s4, s5, s6, s7, s8, s9, s10, s11, s12, s13>>
    BY DEF W!LinkUp
  <2> QED BY <2>1, <2>2, <2>3, <2>4 DEF W!Typed, W!TypeOK
<1>2. W!Locked'
  BY <1>1 DEF W!IInv, W!Typed, W!Locked, W!Working, W!LinkUp
<1>3. W!Leaving'
  BY <1>1 DEF W!IInv, W!Typed, W!Leaving, W!Working, W!LinkUp
<1>4. W!Aimed'
  BY <1>1 DEF W!IInv, W!Typed, W!Aimed, W!Goal, W!Working, W!LinkUp
<1>5. W!ApShown'
  BY <1>1 DEF W!IInv, W!Typed, W!ApShown, W!Marking, W!LinkUp
<1>6. W!Closers'
  BY <1>1 DEF W!IInv, W!Typed, W!Closers, W!Goal, W!Working, W!LinkUp
<1> QED BY <1>1, <1>2, <1>3, <1>4, <1>5, <1>6 DEF W!IInv

\* The access point goes: the station has no link, and the event waits its turn.
LEMMA WifiLinkDown ==
    ASSUME W!WifiAssumption, W!IInv, W!LinkDown
    PROVE  W!IInv'
<1>1. W!Typed'
  <2>1. W!Typed BY DEF W!IInv
  <2>2. s1' \in W!Drivers
    BY <2>1 DEF W!Typed, W!TypeOK, W!Drivers, W!LinkDown
  <2>3. s2' \in Seq({"gone", "gotip"}) /\ Len(s2') <= MaxEvents
    BY <2>1 DEF W!Typed, W!WifiAssumption, W!LinkDown, W!Happens
  <2>4. UNCHANGED <<s3, s4, s5, s6, s7, s8, s9, s10, s11, s12, s13>>
    BY DEF W!LinkDown
  <2> QED BY <2>1, <2>2, <2>3, <2>4 DEF W!Typed, W!TypeOK
<1>2. W!Locked'
  BY <1>1 DEF W!IInv, W!Typed, W!Locked, W!Working, W!LinkDown
<1>3. W!Leaving'
  BY <1>1 DEF W!IInv, W!Typed, W!Leaving, W!Working, W!LinkDown
<1>4. W!Aimed'
  BY <1>1 DEF W!IInv, W!Typed, W!Aimed, W!Goal, W!Working, W!LinkDown
<1>5. W!ApShown'
  BY <1>1 DEF W!IInv, W!Typed, W!ApShown, W!Marking, W!LinkDown
<1>6. W!Closers'
  BY <1>1 DEF W!IInv, W!Typed, W!Closers, W!Goal, W!Working, W!LinkDown
<1> QED BY <1>1, <1>2, <1>3, <1>4, <1>5, <1>6 DEF W!IInv

\* wifi_event_handler: it notes that the link is gone and tries again, unless
\* the page is leaving it.
LEMMA WifiDisconnected ==
    ASSUME W!WifiAssumption, W!IInv, W!Disconnected
    PROVE  W!IInv'
<1>1. W!Typed'
  <2>1. W!Typed BY DEF W!IInv
  <2>2. s1' \in W!Drivers
    BY <2>1, ConnectedSound DEF W!Typed, W!TypeOK, W!Disconnected, W!ConnectNow
  <2>3. s2' \in Seq({"gone", "gotip"}) /\ Len(s2') <= MaxEvents
    BY <2>1 DEF W!Typed, W!TypeOK, W!WifiAssumption, W!Disconnected
  <2>4. s6' \in W!Stas
    BY <2>1 DEF W!Typed, W!TypeOK, W!Stas, W!Disconnected
  <2>5. s9' \in W!Recs
    BY <2>1 DEF W!Typed, W!TypeOK, W!Recs, W!Disconnected
  <2>6. s12' \in W!Mems
    <3>1. PICK awaited \in BOOLEAN :
            \/ s12' = [s12 EXCEPT !.gone = awaited, !.fresh = FALSE]
            \/ s12' = [s12 EXCEPT !.gone = awaited]
      <4>1. CASE s11["web"] \in {"leave", "waiting"}
        <5>1. \/ s12' = [s12 EXCEPT !.gone = TRUE, !.fresh = FALSE]
              \/ s12' = [s12 EXCEPT !.gone = TRUE]
          BY <4>1 DEF W!Disconnected
        <5> QED BY <5>1
      <4>2. CASE s11["web"] \notin {"leave", "waiting"}
        <5>1. (s11["web"] \in {"leave", "waiting"}) = FALSE
          BY <4>2
        <5>2. \/ s12' = [s12 EXCEPT !.gone = FALSE, !.fresh = FALSE]
              \/ s12' = [s12 EXCEPT !.gone = FALSE]
          BY <5>1 DEF W!Disconnected
        <5> QED BY <5>2
      <4> QED BY <4>1, <4>2
    <3>2. s12 \in W!Mems
      BY <2>1 DEF W!Typed, W!TypeOK
    <3>3. CASE s12' = [s12 EXCEPT !.gone = awaited, !.fresh = FALSE]
      BY <3>2, <3>3 DEF W!Mems
    <3>4. CASE s12' = [s12 EXCEPT !.gone = awaited]
      BY <3>2, <3>4 DEF W!Mems
    <3> QED BY <3>1, <3>3, <3>4
  <2>7. UNCHANGED <<s3, s4, s5, s7, s8, s10, s11, s13>>
    BY DEF W!Disconnected
  <2> QED BY <2>1, <2>2, <2>3, <2>4, <2>5, <2>6, <2>7 DEF W!Typed, W!TypeOK
<1>2. W!Locked'
  BY <1>1 DEF W!IInv, W!Typed, W!Locked, W!Working, W!Disconnected
<1>3. W!Leaving'
  BY ConnectedSound, <1>1 DEF W!IInv, W!Typed, W!TypeOK, W!Stages, W!Leaving,
         W!Working, W!Locked, W!Mems, W!Free, W!Disconnected, W!ConnectNow
<1>4. W!Aimed'
  <2>1. s1'.cfg = s1.cfg
    BY ConnectedSound DEF W!IInv, W!Disconnected, W!ConnectNow
  <2>2. s12'.kind = s12.kind /\ s12'.back = s12.back
    BY DEF W!IInv, W!Typed, W!TypeOK, W!Mems, W!Disconnected
  <2>3. UNCHANGED <<s7, s8>> /\ (W!Working' <=> W!Working)
    BY DEF W!IInv, W!Typed, W!Working, W!Disconnected
  <2> QED BY <2>1, <2>2, <2>3, AimedStays DEF W!IInv
<1>5. W!ApShown'
  BY ConnectedSound, <1>1 DEF W!IInv, W!Typed, W!ApShown, W!Marking, W!Disconnected,
         W!ConnectNow
<1>6. W!Closers'
  BY ConnectedSound, <1>1 DEF W!IInv, W!Typed, W!Closers, W!Disconnected
<1> QED BY <1>1, <1>2, <1>3, <1>4, <1>5, <1>6 DEF W!IInv

\* wifi_event_handler: it notes the address, and goes on to the AP if one is to
\* be closed.
LEMMA WifiGotIp ==
    ASSUME W!WifiAssumption, W!IInv, W!GotIp
    PROVE  W!IInv'
<1>1. W!Typed'
  <2>1. W!Typed BY DEF W!IInv
  <2>2. s2' \in Seq({"gone", "gotip"}) /\ Len(s2') <= MaxEvents
    BY <2>1 DEF W!Typed, W!TypeOK, W!WifiAssumption, W!GotIp
  <2>3. s6' \in W!Stas
    BY <2>1 DEF W!Typed, W!TypeOK, W!Stas, W!GotIp
  <2>4. s8' \in {"none", "current", "old"}
    BY <2>1 DEF W!Typed, W!TypeOK, W!GotIp
  <2>5. s9' \in W!Recs
    BY <2>1 DEF W!Typed, W!TypeOK, W!Recs, W!GotIp, W!Reset
  <2>6. s12' \in W!Mems
    BY <2>1 DEF W!Typed, W!TypeOK, W!Mems, W!GotIp
  <2>7. /\ s11' \in [W!Tasks -> W!Stages]
         /\ s11'["handler"] \in {"idle", "ap"}
    BY <2>1 DEF W!Typed, W!Stages, W!GotIp
  <2>8. UNCHANGED <<s1, s3, s4, s5, s7, s10, s13>>
    BY DEF W!GotIp
  <2> QED BY <2>1, <2>2, <2>3, <2>4, <2>5, <2>6, <2>7, <2>8 DEF W!Typed, W!TypeOK
<1>2. W!Locked'
  BY <1>1 DEF W!IInv, W!Typed, W!Locked, W!Working, W!GotIp
<1>3. W!Leaving'
  BY <1>1 DEF W!IInv, W!Typed, W!Leaving, W!Working, W!GotIp
<1>4. W!Aimed'
  BY <1>1 DEF W!IInv, W!Typed, W!Aimed, W!Goal, W!Working, W!Leaving, W!GotIp
<1>5. W!ApShown'
  BY <1>1 DEF W!IInv, W!Typed, W!ApShown, W!Marking, W!GotIp
<1>6. W!Closers'
  BY <1>1 DEF W!IInv, W!Typed, W!Closers, W!GotIp
<1> QED BY <1>1, <1>2, <1>3, <1>4, <1>5, <1>6 DEF W!IInv

\* wifi_event_handler: what is left of the address: the target is reached, or
\* the AP is to be closed.
LEMMA WifiGotIpAp ==
    ASSUME W!WifiAssumption, W!IInv, W!GotIpAp
    PROVE  W!IInv'
<1>1. W!Typed'
  <2>1. W!Typed BY DEF W!IInv
  <2>2. /\ s11' \in [W!Tasks -> W!Stages]
         /\ s11'["handler"] \in {"idle", "ap"}
    BY <2>1 DEF W!Typed, W!Stages, W!GotIpAp
  <2>3. s8' \in {"none", "current", "old"}
    BY <2>1 DEF W!Typed, W!TypeOK, W!GotIpAp
  <2>4. s10' \in BOOLEAN
    BY <2>1 DEF W!Typed, W!GotIpAp
  <2>5. s7' \in W!Networks \cup {"none"}
    BY <2>1 DEF W!Typed, W!TypeOK, W!GotIpAp
  <2>6. s12' \in W!Mems
    BY <2>1 DEF W!Typed, W!TypeOK, W!Mems, W!Networks, W!GotIpAp
  <2>7. UNCHANGED <<s1, s2, s3, s4, s5, s6, s9, s13>>
    BY DEF W!GotIpAp
  <2> QED BY <2>1, <2>2, <2>3, <2>4, <2>5, <2>6, <2>7 DEF W!Typed, W!TypeOK
<1>2. W!Locked'
  BY <1>1 DEF W!IInv, W!Typed, W!Locked, W!Working, W!GotIpAp
<1>3. W!Leaving'
  BY <1>1 DEF W!IInv, W!Typed, W!Leaving, W!Working, W!GotIpAp
<1>4. W!Aimed'
  BY <1>1 DEF W!IInv, W!Typed, W!Aimed, W!Goal, W!Working, W!Leaving, W!Locked,
         W!Free, W!GotIpAp
<1>5. W!ApShown'
  BY <1>1 DEF W!IInv, W!Typed, W!ApShown, W!Marking, W!GotIpAp
<1>6. W!Closers'
  BY <1>1 DEF W!IInv, W!Typed, W!Tasks, W!Closers, W!Goal, W!Working, W!Leaving,
         W!GotIpAp
<1> QED BY <1>1, <1>2, <1>3, <1>4, <1>5, <1>6 DEF W!IInv

\* ap_close_timer_cb: with the mutex, and nobody else at it, the AP is closed
\* and said to be.
LEMMA WifiCloseTimer ==
    ASSUME W!WifiAssumption, W!IInv, W!CloseTimer
    PROVE  W!IInv'
<1>1. W!Typed'
  <2>1. W!Typed BY DEF W!IInv
  <2>2. s8' \in {"none", "current", "old"}
    BY <2>1 DEF W!Typed, W!TypeOK, W!CloseTimer
  <2>3. s7' \in W!Networks \cup {"none"}
    BY <2>1 DEF W!Typed, W!TypeOK, W!CloseTimer
  <2>4. s12' \in W!Mems
    BY <2>1 DEF W!Typed, W!TypeOK, W!Mems, W!CloseTimer
  <2>5. s10' \in BOOLEAN
    BY <2>1 DEF W!Typed, W!CloseTimer
  <2>6. s1' \in W!Drivers
    BY <2>1 DEF W!Typed, W!TypeOK, W!Drivers, W!CloseTimer
  <2>7. s5' \in W!Aps
    <3>1. s5' = s5 \/ s5' = [on |-> FALSE, manual |-> FALSE]
      BY DEF W!CloseTimer
    <3>2. s5 \in W!Aps
      BY <2>1 DEF W!Typed, W!TypeOK
    <3>3. [on |-> FALSE, manual |-> FALSE] \in W!Aps
      BY DEF W!Aps
    <3> QED BY <3>1, <3>2, <3>3
  <2>8. UNCHANGED <<s2, s3, s4, s6, s9, s11, s13>>
    BY DEF W!CloseTimer
  <2> QED BY <2>1, <2>2, <2>3, <2>4, <2>5, <2>6, <2>7, <2>8 DEF W!Typed, W!TypeOK
<1>2. W!Locked'
  BY <1>1 DEF W!IInv, W!Typed, W!Locked, W!Working, W!CloseTimer
<1>3. W!Leaving'
  BY <1>1 DEF W!IInv, W!Typed, W!Leaving, W!Working, W!Locked, W!Free, W!CloseTimer
<1>4. W!Aimed'
  BY <1>1 DEF W!IInv, W!Typed, W!Aimed, W!Goal, W!Working, W!Locked, W!Free,
         W!CloseTimer
<1>5. W!ApShown'
  BY <1>1 DEF W!IInv, W!Typed, W!TypeOK, W!ApShown, W!Marking, W!Drivers, W!Aps,
         W!CloseTimer
<1>6. W!Closers'
  <2>1. UNCHANGED <<s6, s9, s11, s13>>
    BY DEF W!CloseTimer
  <2>2. CASE s8 # "none"
    <3>1. s5' = s5 /\ (s10' \/ s7' = s7)
      BY <2>2 DEF W!CloseTimer
    <3>2. s12'.kind = s12.kind /\ s12'.back = s12.back
      BY DEF W!IInv, W!Typed, W!TypeOK, W!Mems, W!CloseTimer
    <3>3. W!Goal # "none"
      BY <2>2 DEF W!IInv, W!Aimed
    <3> QED BY <2>1, <3>1, <3>2, <3>3 DEF W!Closers, W!Goal, W!Working
  <2>3. CASE s8 = "none"
    BY <2>1, <2>3 DEF W!IInv, W!Closers, W!CloseTimer
  <2> QED BY <2>2, <2>3
<1> QED BY <1>1, <1>2, <1>3, <1>4, <1>5, <1>6 DEF W!IInv

\* reconnect_watchdog_cb: a tick of the timer begins.
LEMMA WifiWatchdog ==
    ASSUME W!WifiAssumption, W!IInv, W!Watchdog
    PROVE  W!IInv'
<1>1. W!Typed'
  <2>1. W!Typed BY DEF W!IInv
  <2>2. s9' \in W!Recs
    BY <2>1 DEF W!Typed, W!TypeOK, W!Recs, W!Watchdog
  <2>3. s1' \in W!Drivers
    BY <2>1, ConnectedSound DEF W!Typed, W!TypeOK, W!Watchdog, W!ConnectNow
  <2>4. /\ s11' \in [W!Tasks -> W!Stages]
         /\ s11'["handler"] \in {"idle", "ap"}
    BY <2>1 DEF W!Typed, W!Tasks, W!Stages, W!Watchdog
  <2>5. s12' \in W!Mems
    BY <2>1 DEF W!Typed, W!TypeOK, W!Mems, W!Watchdog
  <2>6. UNCHANGED <<s2, s3, s4, s5, s6, s7, s8, s10, s13>>
    BY DEF W!Watchdog
  <2> QED BY <2>1, <2>2, <2>3, <2>4, <2>5, <2>6 DEF W!Typed, W!TypeOK
<1>2. W!Locked'
  BY <1>1 DEF W!IInv, W!Typed, W!Tasks, W!Locked, W!Working, W!Watchdog
<1>3. W!Leaving'
  BY ConnectedSound, <1>1 DEF W!IInv, W!Typed, W!Tasks, W!Leaving, W!Working,
         W!Locked, W!Free, W!Watchdog, W!ConnectNow
<1>4. W!Aimed'
  BY ConnectedSound, <1>1 DEF W!IInv, W!Typed, W!TypeOK, W!Tasks, W!Aimed, W!Goal,
         W!Working, W!Mems, W!Watchdog, W!ConnectNow
<1>5. W!ApShown'
  BY ConnectedSound, <1>1 DEF W!IInv, W!Typed, W!Tasks, W!ApShown, W!Marking,
         W!Watchdog, W!ConnectNow
<1>6. W!Closers'
  BY ConnectedSound, <1>1 DEF W!IInv, W!Typed, W!Closers, W!Watchdog
<1> QED BY <1>1, <1>2, <1>3, <1>4, <1>5, <1>6 DEF W!IInv

\* idf_wifi_recovery_ap_due: the time without a network runs on.
LEMMA WifiOutageLasts ==
    ASSUME W!WifiAssumption, W!IInv, W!OutageLasts
    PROVE  W!IInv'
<1>1. W!Typed'
  <2>1. W!Typed BY DEF W!IInv
  <2>2. s9' \in W!Recs
    BY <2>1 DEF W!Typed, W!TypeOK, W!Recs, W!OutageLasts
  <2>3. UNCHANGED <<s1, s2, s3, s4, s5, s6, s7, s8, s10, s11, s12, s13>>
    BY DEF W!OutageLasts
  <2> QED BY <2>1, <2>2, <2>3 DEF W!Typed, W!TypeOK
<1>2. W!Locked'
  BY <1>1 DEF W!IInv, W!Typed, W!Locked, W!Working, W!OutageLasts
<1>3. W!Leaving'
  BY <1>1 DEF W!IInv, W!Typed, W!Leaving, W!Working, W!OutageLasts
<1>4. W!Aimed'
  BY <1>1 DEF W!IInv, W!Typed, W!Aimed, W!Goal, W!Working, W!OutageLasts
<1>5. W!ApShown'
  BY <1>1 DEF W!IInv, W!Typed, W!ApShown, W!Marking, W!OutageLasts
<1>6. W!Closers'
  BY <1>1 DEF W!IInv, W!Typed, W!Closers, W!Goal, W!Working, W!OutageLasts
<1> QED BY <1>1, <1>2, <1>3, <1>4, <1>5, <1>6 DEF W!IInv

\* claim_recovery_ap_if_due: the outage is claimed, with no change to the AP.
LEMMA WifiClaim ==
    ASSUME W!WifiAssumption, W!IInv, W!Claim
    PROVE  W!IInv'
<1>1. W!Typed'
  <2>1. W!Typed BY DEF W!IInv
  <2>2. s9' \in W!Recs
    BY <2>1 DEF W!Typed, W!TypeOK, W!Recs, W!Claim
  <2>3. s12' \in W!Mems
    BY <2>1 DEF W!Typed, W!TypeOK, W!Mems, W!Claim
  <2>4. /\ s11' \in [W!Tasks -> W!Stages]
         /\ s11'["handler"] \in {"idle", "ap"}
    BY <2>1 DEF W!Typed, W!Tasks, W!Stages, W!Claim
  <2>5. UNCHANGED <<s1, s2, s3, s4, s5, s6, s7, s8, s10, s13>>
    BY DEF W!Claim
  <2> QED BY <2>1, <2>2, <2>3, <2>4, <2>5 DEF W!Typed, W!TypeOK
<1>2. W!Locked'
  BY <1>1 DEF W!IInv, W!Typed, W!Tasks, W!Locked, W!Working, W!Claim
<1>3. W!Leaving'
  BY <1>1 DEF W!IInv, W!Typed, W!TypeOK, W!Tasks, W!Leaving, W!Working, W!Mems, W!Claim
<1>4. W!Aimed'
  BY <1>1 DEF W!IInv, W!Typed, W!TypeOK, W!Tasks, W!Aimed, W!Goal, W!Working, W!Mems,
         W!Claim
<1>5. W!ApShown'
  BY <1>1 DEF W!IInv, W!Typed, W!Tasks, W!ApShown, W!Marking, W!Claim
<1>6. W!Closers'
  BY <1>1 DEF W!IInv, W!Typed, W!TypeOK, W!Tasks, W!Closers, W!Goal, W!Working,
         W!Mems, W!Claim
<1> QED BY <1>1, <1>2, <1>3, <1>4, <1>5, <1>6 DEF W!IInv

\* reconnect_watchdog_cb: the claim is current and the mutex free, so the AP is
\* started.
LEMMA WifiStartRecovery ==
    ASSUME W!WifiAssumption, W!IInv, W!StartRecovery
    PROVE  W!IInv'
<1>1. W!Typed'
  <2>1. W!Typed BY DEF W!IInv
  <2>2. s3' \in W!Tasks \cup {"none"}
    BY <2>1 DEF W!Typed, W!TypeOK, W!Tasks, W!StartRecovery
  <2>3. s1' \in W!Drivers
    BY <2>1, ApUpSound DEF W!Typed, W!TypeOK, W!StartRecovery
  <2>4. /\ s11' \in [W!Tasks -> W!Stages]
         /\ s11'["handler"] \in {"idle", "ap"}
    BY <2>1 DEF W!Typed, W!Tasks, W!Stages, W!StartRecovery
  <2>5. UNCHANGED <<s2, s4, s5, s6, s7, s8, s9, s10, s12, s13>>
    BY DEF W!StartRecovery
  <2> QED BY <2>1, <2>2, <2>3, <2>4, <2>5 DEF W!Typed, W!TypeOK
<1>2. W!Locked'
  BY <1>1 DEF W!IInv, W!Typed, W!Tasks, W!Locked, W!Working, W!StartRecovery, W!Free
<1>3. W!Leaving'
  BY ApUpSound, <1>1 DEF W!IInv, W!Typed, W!Tasks, W!Leaving, W!Working, W!Locked,
         W!Free, W!StartRecovery
<1>4. W!Aimed'
  <2>1. s1'.cfg = s1.cfg
    BY ApUpSound DEF W!IInv, W!StartRecovery
  <2>2. s12'.kind = s12.kind /\ s12'.back = s12.back
    BY DEF W!IInv, W!Typed, W!StartRecovery
  <2>3. UNCHANGED <<s7, s8>> /\ (W!Working' <=> W!Working)
    BY DEF W!IInv, W!Typed, W!Tasks, W!Working, W!StartRecovery
  <2> QED BY <2>1, <2>2, <2>3, AimedStays DEF W!IInv
<1>5. W!ApShown'
  <2>1. UNCHANGED <<s5, s13>>
    BY DEF W!StartRecovery
  <2>2. CASE W!Free /\ W!Current /\ ~s5.on
    <3>1. s1'.ap = TRUE
      BY <2>2, ApUpSound DEF W!IInv, W!StartRecovery
    <3>2. W!Marking'
      BY <2>2 DEF W!IInv, W!Typed, W!Tasks, W!Marking, W!StartRecovery
    <3> QED BY <2>1, <2>2, <3>1, <3>2 DEF W!ApShown
  <2>3. CASE ~(W!Free /\ W!Current /\ ~s5.on)
    <3>1. s1' = s1
      BY <2>3 DEF W!StartRecovery
    <3>2. W!Marking' <=> W!Marking
      BY <2>3 DEF W!IInv, W!Typed, W!Tasks, W!Marking, W!StartRecovery
    <3> QED BY <2>1, <3>1, <3>2 DEF W!IInv, W!ApShown
  <2> QED BY <2>2, <2>3
<1>6. W!Closers'
  BY ApUpSound, <1>1 DEF W!IInv, W!Typed, W!Tasks, W!Closers, W!Goal, W!Working,
         W!StartRecovery
<1> QED BY <1>1, <1>2, <1>3, <1>4, <1>5, <1>6 DEF W!IInv

\* start_provisioning_ap_locked: the AP that the timer started is said to be up.
LEMMA WifiMarkRecovery ==
    ASSUME W!WifiAssumption, W!IInv, W!MarkRecovery
    PROVE  W!IInv'
<1>1. W!Typed'
  <2>1. W!Typed BY DEF W!IInv
  <2>2. s5' \in W!Aps
    BY <2>1 DEF W!Typed, W!Aps, W!MarkRecovery
  <2>3. s12' \in W!Mems
    BY <2>1 DEF W!Typed, W!TypeOK, W!Mems, W!MarkRecovery
  <2>4. /\ s11' \in [W!Tasks -> W!Stages]
         /\ s11'["handler"] \in {"idle", "ap"}
    BY <2>1 DEF W!Typed, W!Tasks, W!Stages, W!MarkRecovery
  <2>5. UNCHANGED <<s1, s2, s3, s4, s6, s7, s8, s9, s10, s13>>
    BY DEF W!MarkRecovery
  <2> QED BY <2>1, <2>2, <2>3, <2>4, <2>5 DEF W!Typed, W!TypeOK
<1>2. W!Locked'
  BY <1>1 DEF W!IInv, W!Typed, W!Locked, W!Working, W!MarkRecovery
<1>3. W!Leaving'
  BY <1>1 DEF W!IInv, W!Typed, W!Leaving, W!Working, W!MarkRecovery
<1>4. W!Aimed'
  BY <1>1 DEF W!IInv, W!Typed, W!Aimed, W!Goal, W!Working, W!MarkRecovery
<1>5. W!ApShown'
  BY <1>1 DEF W!IInv, W!Typed, W!Tasks, W!ApShown, W!Marking, W!Locked, W!MarkRecovery
<1>6. W!Closers'
  BY <1>1 DEF W!IInv, W!Typed, W!Closers, W!MarkRecovery
<1> QED BY <1>1, <1>2, <1>3, <1>4, <1>5, <1>6 DEF W!IInv

\* finish_recovery_ap_claim: the AP stays with the claim that it was started
\* for, or is to be closed.
LEMMA WifiFinish ==
    ASSUME W!WifiAssumption, W!IInv, W!Finish
    PROVE  W!IInv'
<1>1. W!Typed'
  <2>1. W!Typed BY DEF W!IInv
  <2>2. s9' \in W!Recs
    BY <2>1 DEF W!Typed, W!TypeOK, W!Recs, W!Finish
  <2>3. s1' \in W!Drivers
    BY <2>1 DEF W!Typed, W!TypeOK, W!Drivers, W!Finish
  <2>4. s5' \in W!Aps
    <3>1. s5' = s5 \/ s5' = [on |-> FALSE, manual |-> FALSE]
      BY DEF W!Finish
    <3>2. s5 \in W!Aps
      BY <2>1 DEF W!Typed, W!TypeOK
    <3>3. [on |-> FALSE, manual |-> FALSE] \in W!Aps
      BY DEF W!Aps
    <3> QED BY <3>1, <3>2, <3>3
  <2>5. s3' \in W!Tasks \cup {"none"}
    BY <2>1 DEF W!Typed, W!TypeOK, W!Finish
  <2>6. /\ s11' \in [W!Tasks -> W!Stages]
         /\ s11'["handler"] \in {"idle", "ap"}
    BY <2>1 DEF W!Typed, W!Tasks, W!Stages, W!Finish
  <2>7. s12' \in W!Mems
    BY <2>1 DEF W!Typed, W!TypeOK, W!Mems, W!Finish
  <2>8. UNCHANGED <<s2, s4, s6, s7, s8, s10, s13>>
    BY DEF W!Finish
  <2> QED BY <2>1, <2>2, <2>3, <2>4, <2>5, <2>6, <2>7, <2>8 DEF W!Typed, W!TypeOK
<1>2. W!Locked'
  BY <1>1 DEF W!IInv, W!Typed, W!Locked, W!Working, W!Finish
<1>3. W!Leaving'
  BY <1>1 DEF W!IInv, W!Typed, W!TypeOK, W!Leaving, W!Working, W!Drivers, W!Finish
<1>4. W!Aimed'
  BY <1>1 DEF W!IInv, W!Typed, W!TypeOK, W!Aimed, W!Goal, W!Working, W!Drivers, W!Finish
<1>5. W!ApShown'
  BY <1>1 DEF W!IInv, W!Typed, W!TypeOK, W!ApShown, W!Marking, W!Drivers, W!Aps,
         W!Finish
<1>6. W!Closers'
  BY <1>1 DEF W!IInv, W!Typed, W!Closers, W!Goal, W!Working, W!Leaving, W!Finish
<1> QED BY <1>1, <1>2, <1>3, <1>4, <1>5, <1>6 DEF W!IInv

\* reconnect_watchdog_cb: the tick ends with an attempt to connect, or with the
\* selector.
LEMMA WifiReconnect ==
    ASSUME W!WifiAssumption, W!IInv, W!Reconnect
    PROVE  W!IInv'
<1>1. W!Typed'
  <2>1. W!Typed BY DEF W!IInv
  <2>2. /\ s11' \in [W!Tasks -> W!Stages]
         /\ s11'["handler"] \in {"idle", "ap"}
    BY <2>1 DEF W!Typed, W!Tasks, W!Stages, W!Reconnect, W!Select
  <2>3. s12' \in W!Mems
    BY ZenonT(60), <2>1 DEF W!Typed, W!TypeOK, W!Mems, W!Networks, W!Reconnect, W!ConnectNow,
           W!Select
  <2>4. s1' \in W!Drivers
    BY <2>1, ConnectedSound DEF W!Typed, W!TypeOK, W!Reconnect, W!ConnectNow, W!Select
  <2>5. UNCHANGED <<s2, s3, s4, s5, s6, s7, s8, s9, s10, s13>>
    BY DEF W!Reconnect, W!Select
  <2> QED BY <2>1, <2>2, <2>3, <2>4, <2>5 DEF W!Typed, W!TypeOK
<1>2. W!Locked'
  BY <1>1 DEF W!IInv, W!Typed, W!Tasks, W!Locked, W!Working, W!Reconnect, W!Select
<1>3. W!Leaving'
  BY ConnectedSound, <1>1 DEF W!IInv, W!Typed, W!TypeOK, W!Tasks, W!Leaving,
         W!Working, W!Locked, W!Mems, W!Free, W!Reconnect, W!ConnectNow, W!Select
<1>4. W!Aimed'
  BY ConnectedSound, <1>1 DEF W!IInv, W!Typed, W!TypeOK, W!Tasks, W!Aimed, W!Goal,
         W!Working, W!Locked, W!Mems, W!Reconnect, W!ConnectNow, W!Select
<1>5. W!ApShown'
  BY ConnectedSound, <1>1 DEF W!IInv, W!Typed, W!Tasks, W!ApShown, W!Marking,
         W!Reconnect, W!ConnectNow, W!Select
<1>6. W!Closers'
  BY ConnectedSound, <1>1 DEF W!IInv, W!Typed, W!TypeOK, W!Tasks, W!Closers, W!Goal,
         W!Working, W!Mems, W!Reconnect, W!Select
<1> QED BY <1>1, <1>2, <1>3, <1>4, <1>5, <1>6 DEF W!IInv

\* wifi_select_task: the selector takes the mutex and scans, or gives up.
LEMMA WifiSelectScan ==
    ASSUME W!WifiAssumption, W!IInv, W!SelectScan
    PROVE  W!IInv'
<1>1. W!Typed'
  <2>1. W!Typed BY DEF W!IInv
  <2>2. /\ s11' \in [W!Tasks -> W!Stages]
         /\ s11'["handler"] \in {"idle", "ap"}
    BY <2>1 DEF W!Typed, W!Tasks, W!Stages, W!SelectScan, W!SelectDone
  <2>3. s12' \in W!Mems
    BY <2>1 DEF W!Typed, W!TypeOK, W!Mems, W!SelectScan, W!SelectDone
  <2>4. s4' \in {"none", "page", "select"}
    BY <2>1 DEF W!Typed, W!TypeOK, W!SelectScan
  <2>5. s3' \in W!Tasks \cup {"none"}
    BY <2>1 DEF W!Typed, W!TypeOK, W!Tasks, W!SelectScan
  <2>6. UNCHANGED <<s1, s2, s5, s6, s7, s8, s9, s10, s13>>
    BY DEF W!SelectScan
  <2> QED BY <2>1, <2>2, <2>3, <2>4, <2>5, <2>6 DEF W!Typed, W!TypeOK
<1>2. W!Locked'
  BY <1>1 DEF W!IInv, W!Typed, W!Tasks, W!Locked, W!Working, W!SelectScan, W!SelectDone
<1>3. W!Leaving'
  BY <1>1 DEF W!IInv, W!Typed, W!TypeOK, W!Tasks, W!Leaving, W!Working, W!Mems,
         W!SelectScan, W!SelectDone
<1>4. W!Aimed'
  BY <1>1 DEF W!IInv, W!Typed, W!TypeOK, W!Tasks, W!Aimed, W!Goal, W!Working, W!Mems,
         W!SelectScan, W!SelectDone
<1>5. W!ApShown'
  BY <1>1 DEF W!IInv, W!Typed, W!Tasks, W!ApShown, W!Marking, W!SelectScan, W!SelectDone
<1>6. W!Closers'
  BY <1>1 DEF W!IInv, W!Typed, W!TypeOK, W!Tasks, W!Closers, W!Goal, W!Working,
         W!Mems, W!SelectScan, W!SelectDone
<1> QED BY <1>1, <1>2, <1>3, <1>4, <1>5, <1>6 DEF W!IInv

\* wifi_scan_candidates: the scan is over and the mutex given back.
LEMMA WifiSelectScanned ==
    ASSUME W!WifiAssumption, W!IInv, W!SelectScanned
    PROVE  W!IInv'
<1>1. W!Typed'
  <2>1. W!Typed BY DEF W!IInv
  <2>2. s4' \in {"none", "page", "select"}
    BY <2>1 DEF W!Typed, W!SelectScanned
  <2>3. s3' \in W!Tasks \cup {"none"}
    BY <2>1 DEF W!Typed, W!SelectScanned
  <2>4. /\ s11' \in [W!Tasks -> W!Stages]
         /\ s11'["handler"] \in {"idle", "ap"}
    BY <2>1 DEF W!Typed, W!Tasks, W!Stages, W!SelectScanned, W!SelectDone
  <2>5. s12' \in W!Mems
    BY <2>1 DEF W!Typed, W!TypeOK, W!Mems, W!SelectScanned, W!SelectDone
  <2>6. UNCHANGED <<s1, s2, s5, s6, s7, s8, s9, s10, s13>>
    BY DEF W!SelectScanned
  <2> QED BY <2>1, <2>2, <2>3, <2>4, <2>5, <2>6 DEF W!Typed, W!TypeOK
<1>2. W!Locked'
  BY <1>1 DEF W!IInv, W!Typed, W!Tasks, W!Locked, W!Working, W!SelectScanned,
         W!SelectDone
<1>3. W!Leaving'
  BY <1>1 DEF W!IInv, W!Typed, W!Tasks, W!Leaving, W!Working, W!Locked,
         W!SelectScanned, W!SelectDone
<1>4. W!Aimed'
  BY <1>1 DEF W!IInv, W!Typed, W!Tasks, W!Aimed, W!Goal, W!Working, W!Locked,
         W!SelectScanned, W!SelectDone
<1>5. W!ApShown'
  BY <1>1 DEF W!IInv, W!Typed, W!Tasks, W!ApShown, W!Marking, W!SelectScanned,
         W!SelectDone
<1>6. W!Closers'
  BY <1>1 DEF W!IInv, W!Typed, W!TypeOK, W!Tasks, W!Closers, W!Goal, W!Working,
         W!Mems, W!SelectScanned, W!SelectDone
<1> QED BY <1>1, <1>2, <1>3, <1>4, <1>5, <1>6 DEF W!IInv

\* wifi_apply_and_connect_if_current: a network is put in only where no target
\* is wanted.
LEMMA WifiSelectApply ==
    ASSUME W!WifiAssumption, W!IInv, W!SelectApply
    PROVE  W!IInv'
<1>1. W!Typed'
  <2>1. W!Typed BY DEF W!IInv
  <2>2. /\ s11' \in [W!Tasks -> W!Stages]
         /\ s11'["handler"] \in {"idle", "ap"}
    BY <2>1 DEF W!Typed, W!Tasks, W!Stages, W!SelectApply, W!SelectDone
  <2>3. s12' \in W!Mems
    BY <2>1 DEF W!Typed, W!TypeOK, W!Mems, W!SelectApply, W!SelectDone
  <2>4. s1' \in W!Drivers
    BY <2>1, AppliedSound DEF W!Typed, W!TypeOK, W!Networks, W!SelectApply
  <2>5. s6' \in W!Stas
    BY <2>1 DEF W!Typed, W!TypeOK, W!Stas, W!SelectApply
  <2>6. UNCHANGED <<s2, s3, s4, s5, s7, s8, s9, s10, s13>>
    BY DEF W!SelectApply
  <2> QED BY <2>1, <2>2, <2>3, <2>4, <2>5, <2>6 DEF W!Typed, W!TypeOK
<1>2. W!Locked'
  BY <1>1 DEF W!IInv, W!Typed, W!Locked, W!Working, W!SelectApply, W!SelectDone
<1>3. W!Leaving'
  BY AppliedSound, <1>1 DEF W!IInv, W!Typed, W!Leaving, W!Working, W!Locked, W!Free,
         W!SelectApply, W!SelectDone
<1>4. W!Aimed'
  BY AppliedSound, <1>1 DEF W!IInv, W!Typed, W!Aimed, W!Goal, W!Working, W!Locked,
         W!Free, W!SelectApply, W!SelectDone
<1>5. W!ApShown'
  <2>1. UNCHANGED <<s5, s13>> /\ (W!Marking' <=> W!Marking)
    BY DEF W!IInv, W!Typed, W!Marking, W!SelectApply, W!SelectDone
  <2>2. CASE W!Free /\ s12.sel /\ s7 = "none"
    <3>1. s1'.ap = s5.on
      BY <2>2, AppliedSound DEF W!IInv, W!Networks, W!SelectApply
    <3>2. ~W!Marking
      BY <2>2 DEF W!IInv, W!Locked, W!Marking, W!Free
    <3> QED BY <2>1, <3>1, <3>2 DEF W!ApShown
  <2>3. CASE ~(W!Free /\ s12.sel /\ s7 = "none")
    <3>1. s1' = s1
      BY <2>3 DEF W!SelectApply
    <3> QED BY <2>1, <3>1 DEF W!IInv, W!ApShown
  <2> QED BY <2>2, <2>3
<1>6. W!Closers'
  BY AppliedSound, <1>1 DEF W!IInv, W!Typed, W!TypeOK, W!Closers, W!Goal, W!Working,
         W!Stas, W!SelectApply, W!SelectDone
<1> QED BY <1>1, <1>2, <1>3, <1>4, <1>5, <1>6 DEF W!IInv

\* provision_button_task: with the mutex free, the button starts the AP.
LEMMA WifiPress ==
    ASSUME W!WifiAssumption, W!IInv, W!Press
    PROVE  W!IInv'
<1>1. W!Typed'
  <2>1. W!Typed BY DEF W!IInv
  <2>2. /\ s13' \in [web : 0 .. MaxWeb, press : 0 .. MaxPresses, odd : BOOLEAN]
    BY <2>1 DEF W!Typed, W!WifiAssumption, W!Press
  <2>3. s5' \in W!Aps
    BY <2>1 DEF W!Typed, W!TypeOK, W!Aps, W!Press, W!StartAp
  <2>4. /\ s11' \in [W!Tasks -> W!Stages]
         /\ s11'["handler"] \in {"idle", "ap"}
    BY <2>1 DEF W!Typed, W!Tasks, W!Stages, W!Press, W!StartAp
  <2>5. s1' \in W!Drivers
    BY <2>1, ApUpSound DEF W!Typed, W!TypeOK, W!Press, W!StartAp
  <2>6. s3' \in W!Tasks \cup {"none"}
    BY <2>1 DEF W!Typed, W!TypeOK, W!Tasks, W!Press, W!StartAp
  <2>7. UNCHANGED <<s2, s4, s6, s7, s8, s9, s10, s12>>
    BY DEF W!Press
  <2> QED BY <2>1, <2>2, <2>3, <2>4, <2>5, <2>6, <2>7 DEF W!Typed, W!TypeOK
<1>2. W!Locked'
  BY <1>1 DEF W!IInv, W!Typed, W!Tasks, W!Locked, W!Working, W!Press, W!StartAp, W!Free
<1>3. W!Leaving'
  BY ApUpSound, <1>1 DEF W!IInv, W!Typed, W!Tasks, W!Leaving, W!Working, W!Locked,
         W!Free, W!Press, W!StartAp
<1>4. W!Aimed'
  <2>1. s1'.cfg = s1.cfg
    BY ApUpSound DEF W!IInv, W!Press, W!StartAp
  <2>2. s12'.kind = s12.kind /\ s12'.back = s12.back
    BY DEF W!IInv, W!Typed, W!Press
  <2>3. UNCHANGED <<s7, s8>> /\ (W!Working' <=> W!Working)
    BY DEF W!IInv, W!Typed, W!Tasks, W!Working, W!Press, W!StartAp
  <2> QED BY <2>1, <2>2, <2>3, AimedStays DEF W!IInv
<1>5. W!ApShown'
  <2>1. s13'.odd = s13.odd
    BY DEF W!IInv, W!Typed, W!Press
  <2>2. CASE W!Free /\ ~s5.on
    <3>1. s1'.ap = TRUE /\ s5' = s5
      BY <2>2, ApUpSound DEF W!IInv, W!Press, W!StartAp
    <3>2. W!Marking'
      BY <2>2 DEF W!IInv, W!Typed, W!Tasks, W!Marking, W!Press, W!StartAp
    <3> QED BY <2>1, <2>2, <3>1, <3>2 DEF W!ApShown
  <2>3. CASE ~(W!Free /\ ~s5.on)
    <3>1. s1' = s1 /\ s5'.on = s5.on
      BY <2>3 DEF W!IInv, W!Typed, W!TypeOK, W!Aps, W!Press, W!StartAp
    <3>2. W!Marking' <=> W!Marking
      BY <2>3 DEF W!IInv, W!Typed, W!Marking, W!Press, W!StartAp
    <3> QED BY <2>1, <3>1, <3>2 DEF W!IInv, W!ApShown
  <2> QED BY <2>2, <2>3
<1>6. W!Closers'
  BY ApUpSound, <1>1 DEF W!IInv, W!Typed, W!TypeOK, W!Closers, W!Goal, W!Working,
         W!Aps, W!Press, W!StartAp
<1> QED BY <1>1, <1>2, <1>3, <1>4, <1>5, <1>6 DEF W!IInv

\* provision_button_task: the AP that the button started is said to be up, and
\* kept.
LEMMA WifiButtonMarks ==
    ASSUME W!WifiAssumption, W!IInv, W!ButtonMarks
    PROVE  W!IInv'
<1>1. W!Typed'
  <2>1. W!Typed BY DEF W!IInv
  <2>2. /\ s11' \in [W!Tasks -> W!Stages]
         /\ s11'["handler"] \in {"idle", "ap"}
    BY <2>1 DEF W!Typed, W!Tasks, W!Stages, W!ButtonMarks, W!MarkAp
  <2>3. s5' \in W!Aps
    BY <2>1 DEF W!Typed, W!Aps, W!ButtonMarks, W!MarkAp
  <2>4. s3' \in W!Tasks \cup {"none"}
    BY <2>1 DEF W!Typed, W!ButtonMarks, W!MarkAp
  <2>5. UNCHANGED <<s1, s2, s4, s6, s7, s8, s9, s10, s12, s13>>
    BY DEF W!ButtonMarks, W!MarkAp
  <2> QED BY <2>1, <2>2, <2>3, <2>4, <2>5 DEF W!Typed, W!TypeOK
<1>2. W!Locked'
  BY <1>1 DEF W!IInv, W!Typed, W!Locked, W!Working, W!ButtonMarks, W!MarkAp
<1>3. W!Leaving'
  BY <1>1 DEF W!IInv, W!Typed, W!Leaving, W!Working, W!ButtonMarks, W!MarkAp
<1>4. W!Aimed'
  BY <1>1 DEF W!IInv, W!Typed, W!Aimed, W!Goal, W!Working, W!ButtonMarks, W!MarkAp
<1>5. W!ApShown'
  BY <1>1 DEF W!IInv, W!Typed, W!Tasks, W!ApShown, W!Marking, W!Locked, W!ButtonMarks,
         W!MarkAp
<1>6. W!Closers'
  BY <1>1 DEF W!IInv, W!Typed, W!Closers, W!ButtonMarks, W!MarkAp
<1> QED BY <1>1, <1>2, <1>3, <1>4, <1>5, <1>6 DEF W!IInv

\* sta_wait_first_connect: the AP is said to be down without asking the driver
\* (used.odd).
LEMMA WifiFirstConnected ==
    ASSUME W!WifiAssumption, W!IInv, W!FirstConnected
    PROVE  W!IInv'
<1>1. W!Typed'
  <2>1. W!Typed BY DEF W!IInv
  <2>2. s5' \in W!Aps
    BY <2>1 DEF W!Typed, W!Aps, W!FirstConnected
  <2>3. /\ s11' \in [W!Tasks -> W!Stages]
         /\ s11'["handler"] \in {"idle", "ap"}
    BY <2>1 DEF W!Typed, W!Tasks, W!Stages, W!FirstConnected
  <2>4. /\ s13' \in [web : 0 .. MaxWeb, press : 0 .. MaxPresses, odd : BOOLEAN]
    BY <2>1 DEF W!Typed, W!FirstConnected
  <2>5. UNCHANGED <<s1, s2, s3, s4, s6, s7, s8, s9, s10, s12>>
    BY DEF W!FirstConnected
  <2> QED BY <2>1, <2>2, <2>3, <2>4, <2>5 DEF W!Typed, W!TypeOK
<1>2. W!Locked'
  BY <1>1 DEF W!IInv, W!Typed, W!Locked, W!Working, W!FirstConnected
<1>3. W!Leaving'
  BY <1>1 DEF W!IInv, W!Typed, W!Leaving, W!Working, W!FirstConnected
<1>4. W!Aimed'
  BY <1>1 DEF W!IInv, W!Typed, W!Aimed, W!Goal, W!Working, W!FirstConnected
<1>5. W!ApShown'
  BY <1>1 DEF W!IInv, W!Typed, W!TypeOK, W!Tasks, W!ApShown, W!Marking, W!Aps,
         W!FirstConnected
<1>6. W!Closers'
  BY <1>1 DEF W!IInv, W!Typed, W!Closers, W!FirstConnected
<1> QED BY <1>1, <1>2, <1>3, <1>4, <1>5, <1>6 DEF W!IInv

\* sta_wait_first_connect: the wait for the first connection is over.
LEMMA WifiFirstTimeout ==
    ASSUME W!WifiAssumption, W!IInv, W!FirstTimeout
    PROVE  W!IInv'
<1>1. W!Typed'
  <2>1. W!Typed BY DEF W!IInv
  <2>2. /\ s11' \in [W!Tasks -> W!Stages]
         /\ s11'["handler"] \in {"idle", "ap"}
    BY <2>1 DEF W!Typed, W!Tasks, W!Stages, W!FirstTimeout
  <2>3. UNCHANGED <<s1, s2, s3, s4, s5, s6, s7, s8, s9, s10, s12, s13>>
    BY DEF W!FirstTimeout
  <2> QED BY <2>1, <2>2, <2>3 DEF W!Typed, W!TypeOK
<1>2. W!Locked'
  BY <1>1 DEF W!IInv, W!Typed, W!Locked, W!Working, W!FirstTimeout
<1>3. W!Leaving'
  BY <1>1 DEF W!IInv, W!Typed, W!Leaving, W!Working, W!FirstTimeout
<1>4. W!Aimed'
  BY <1>1 DEF W!IInv, W!Typed, W!Aimed, W!Goal, W!Working, W!FirstTimeout
<1>5. W!ApShown'
  BY <1>1 DEF W!IInv, W!Typed, W!ApShown, W!Marking, W!FirstTimeout
<1>6. W!Closers'
  BY <1>1 DEF W!IInv, W!Typed, W!Closers, W!FirstTimeout
<1> QED BY <1>1, <1>2, <1>3, <1>4, <1>5, <1>6 DEF W!IInv

\* sta_wait_first_connect: with the mutex free, the AP is started.
LEMMA WifiFirstStarts ==
    ASSUME W!WifiAssumption, W!IInv, W!FirstStarts
    PROVE  W!IInv'
<1>1. W!Typed'
  <2>1. W!Typed BY DEF W!IInv
  <2>2. s5' \in W!Aps
    BY <2>1 DEF W!Typed, W!TypeOK, W!Aps, W!FirstStarts, W!StartAp
  <2>3. /\ s11' \in [W!Tasks -> W!Stages]
         /\ s11'["handler"] \in {"idle", "ap"}
    BY <2>1 DEF W!Typed, W!Tasks, W!Stages, W!FirstStarts, W!StartAp
  <2>4. s1' \in W!Drivers
    BY <2>1, ApUpSound DEF W!Typed, W!TypeOK, W!FirstStarts, W!StartAp
  <2>5. s3' \in W!Tasks \cup {"none"}
    BY <2>1 DEF W!Typed, W!TypeOK, W!Tasks, W!FirstStarts, W!StartAp
  <2>6. UNCHANGED <<s2, s4, s6, s7, s8, s9, s10, s12, s13>>
    BY DEF W!FirstStarts
  <2> QED BY <2>1, <2>2, <2>3, <2>4, <2>5, <2>6 DEF W!Typed, W!TypeOK
<1>2. W!Locked'
  BY <1>1 DEF W!IInv, W!Typed, W!Tasks, W!Locked, W!Working, W!FirstStarts, W!StartAp,
         W!Free
<1>3. W!Leaving'
  BY ApUpSound, <1>1 DEF W!IInv, W!Typed, W!Tasks, W!Leaving, W!Working, W!Locked,
         W!Free, W!FirstStarts, W!StartAp
<1>4. W!Aimed'
  <2>1. s1'.cfg = s1.cfg
    BY ApUpSound DEF W!IInv, W!FirstStarts, W!StartAp
  <2>2. s12'.kind = s12.kind /\ s12'.back = s12.back
    BY DEF W!IInv, W!Typed, W!FirstStarts
  <2>3. UNCHANGED <<s7, s8>> /\ (W!Working' <=> W!Working)
    BY DEF W!IInv, W!Typed, W!Tasks, W!Working, W!FirstStarts, W!StartAp
  <2> QED BY <2>1, <2>2, <2>3, AimedStays DEF W!IInv
<1>5. W!ApShown'
  <2>1. s13'.odd = s13.odd
    BY DEF W!IInv, W!Typed, W!FirstStarts
  <2>2. CASE W!Free /\ ~s5.on
    <3>1. s1'.ap = TRUE /\ s5' = s5
      BY <2>2, ApUpSound DEF W!IInv, W!FirstStarts, W!StartAp
    <3>2. W!Marking'
      BY <2>2 DEF W!IInv, W!Typed, W!Tasks, W!Marking, W!FirstStarts, W!StartAp
    <3> QED BY <2>1, <2>2, <3>1, <3>2 DEF W!ApShown
  <2>3. CASE ~(W!Free /\ ~s5.on)
    <3>1. s1' = s1 /\ s5'.on = s5.on
      BY <2>3 DEF W!IInv, W!Typed, W!TypeOK, W!Aps, W!FirstStarts, W!StartAp
    <3>2. W!Marking' <=> W!Marking
      BY <2>3 DEF W!IInv, W!Typed, W!Tasks, W!Marking, W!FirstStarts, W!StartAp
    <3> QED BY <2>1, <3>1, <3>2 DEF W!IInv, W!ApShown
  <2> QED BY <2>2, <2>3
<1>6. W!Closers'
  BY ApUpSound, <1>1 DEF W!IInv, W!Typed, W!TypeOK, W!Tasks, W!Closers, W!Goal,
         W!Working, W!Aps, W!FirstStarts, W!StartAp
<1> QED BY <1>1, <1>2, <1>3, <1>4, <1>5, <1>6 DEF W!IInv

\* sta_wait_first_connect: the AP is said to be up, perhaps after a connection
\* (used.odd).
LEMMA WifiFirstMarks ==
    ASSUME W!WifiAssumption, W!IInv, W!FirstMarks
    PROVE  W!IInv'
<1>1. W!Typed'
  <2>1. W!Typed BY DEF W!IInv
  <2>2. /\ s11' \in [W!Tasks -> W!Stages]
         /\ s11'["handler"] \in {"idle", "ap"}
    BY <2>1 DEF W!Typed, W!Tasks, W!Stages, W!FirstMarks, W!MarkAp
  <2>3. s5' \in W!Aps
    BY <2>1 DEF W!Typed, W!Aps, W!FirstMarks, W!MarkAp
  <2>4. s3' \in W!Tasks \cup {"none"}
    BY <2>1 DEF W!Typed, W!FirstMarks, W!MarkAp
  <2>5. /\ s13' \in [web : 0 .. MaxWeb, press : 0 .. MaxPresses, odd : BOOLEAN]
    BY <2>1 DEF W!Typed, W!FirstMarks
  <2>6. UNCHANGED <<s1, s2, s4, s6, s7, s8, s9, s10, s12>>
    BY DEF W!FirstMarks, W!MarkAp
  <2> QED BY <2>1, <2>2, <2>3, <2>4, <2>5, <2>6 DEF W!Typed, W!TypeOK
<1>2. W!Locked'
  BY <1>1 DEF W!IInv, W!Typed, W!Locked, W!Working, W!FirstMarks, W!MarkAp
<1>3. W!Leaving'
  BY <1>1 DEF W!IInv, W!Typed, W!Leaving, W!Working, W!FirstMarks, W!MarkAp
<1>4. W!Aimed'
  BY <1>1 DEF W!IInv, W!Typed, W!Aimed, W!Goal, W!Working, W!FirstMarks, W!MarkAp
<1>5. W!ApShown'
  BY <1>1 DEF W!IInv, W!Typed, W!Tasks, W!ApShown, W!Marking, W!Locked, W!FirstMarks,
         W!MarkAp
<1>6. W!Closers'
  BY <1>1 DEF W!IInv, W!Typed, W!Closers, W!FirstMarks, W!MarkAp
<1> QED BY <1>1, <1>2, <1>3, <1>4, <1>5, <1>6 DEF W!IInv

\* idf_wifi_provision_connect: the earlier target is remembered and cleared
\* while the page works.
LEMMA WifiSubmit ==
    ASSUME W!WifiAssumption, W!IInv, W!Submit
    PROVE  W!IInv'
<1>1. W!Typed'
  <2>1. W!Typed BY DEF W!IInv
  <2>2. /\ s13' \in [web : 0 .. MaxWeb, press : 0 .. MaxPresses, odd : BOOLEAN]
    BY <2>1 DEF W!Typed, W!WifiAssumption, W!Submit, W!WebBegins
  <2>3. s3' \in W!Tasks \cup {"none"}
    BY <2>1 DEF W!Typed, W!TypeOK, W!Tasks, W!Submit, W!WebBegins
  <2>4. s9' \in W!Recs
    BY <2>1 DEF W!Typed, W!TypeOK, W!Recs, W!Submit, W!WebBegins, W!ResetClosing,
           W!Reset
  <2>5. s1' \in W!Drivers
    BY ZenonT(60), <2>1 DEF W!Typed, W!TypeOK, W!Drivers, W!Submit, W!WebBegins, W!ResetClosing,
           W!Reset, W!Free
  <2>6. s5' \in W!Aps
    <3>1. s5' = s5 \/ s5' = [on |-> FALSE, manual |-> FALSE]
      BY DEF W!Submit, W!WebBegins, W!ResetClosing
    <3>2. s5 \in W!Aps
      BY <2>1 DEF W!Typed, W!TypeOK
    <3>3. [on |-> FALSE, manual |-> FALSE] \in W!Aps
      BY DEF W!Aps
    <3> QED BY <3>1, <3>2, <3>3
  <2>7. s12' \in W!Mems
    <3>1. CASE s12' = s12
      BY <2>1, <3>1 DEF W!Typed, W!TypeOK
    <3>2. CASE s12' # s12
      <4>1. PICK page \in BOOLEAN, sel \in BOOLEAN :
               s12' = [s12 EXCEPT !.fresh = FALSE, !.gone = FALSE, !.kind = "submit",
                                  !.back = s7, !.backConf = s6.conf, !.page = page, !.sel = sel]
        BY <2>1, <3>2 DEF W!Typed, W!Submit, W!WebBegins
      <4> QED BY ZenonT(60), <2>1, <4>1 DEF W!Typed, W!TypeOK, W!Mems, W!Networks, W!Stas
    <3> QED BY <3>1, <3>2
  <2>8. s6' \in W!Stas
    BY <2>1 DEF W!Typed, W!TypeOK, W!Stas, W!Submit, W!WebBegins
  <2>9. s7' \in W!Networks \cup {"none"}
    BY <2>1 DEF W!Typed, W!TypeOK, W!Submit, W!WebBegins
  <2>10. s8' \in {"none", "current", "old"}
    BY <2>1 DEF W!Typed, W!TypeOK, W!Submit, W!WebBegins
  <2>11. /\ s11' \in [W!Tasks -> W!Stages]
         /\ s11'["handler"] \in {"idle", "ap"}
    BY <2>1 DEF W!Typed, W!Tasks, W!Stages, W!Submit, W!WebBegins
  <2>12. UNCHANGED <<s2, s4, s10>>
    BY DEF W!Submit, W!WebBegins
  <2> QED BY <2>1, <2>2, <2>3, <2>4, <2>5, <2>6, <2>7, <2>8, <2>9, <2>10, <2>11, <2>12
             DEF W!Typed, W!TypeOK
<1>2. W!Locked'
  BY <1>1 DEF W!IInv, W!Typed, W!Tasks, W!Locked, W!Working, W!Submit, W!WebBegins,
         W!Free
<1>3. W!Leaving'
  <2>1. CASE ~W!Free
    <3>1. W!WebBegins("submit")
      BY DEF W!Submit
    <3>2. /\ UNCHANGED <<s1, s5, s7, s8, s10, s11, s12>>
          /\ s6'.up = s6.up /\ s6'.cred = s6.cred /\ s13'.odd = s13.odd
      BY <2>1, <3>1, WebRefused DEF W!IInv
    <3> QED BY <3>2 DEF W!IInv, W!Leaving, W!Working
  <2>2. CASE W!Free
    <3>1. W!WebBegins("submit") /\ ~W!Working /\ W!Goal = s7
      BY <2>2 DEF W!Submit, W!IInv, W!Locked, W!Free, W!Goal
    <3>2. s11["web"] = "idle" /\ s11' = [s11 EXCEPT !["web"] = "leave"]
      BY <2>2, <3>1, WebBegun DEF W!IInv, W!WebBegins
    <3>3. s11'["web"] = "leave" /\ (\A t \in W!Tasks \ {"web"} : s11'[t] = s11[t])
      BY <3>2 DEF W!IInv, W!Typed, W!Tasks
    <3>4. s12'.kind = "submit" => s7' = "none"
      BY <2>2, <3>1, WebBegun DEF W!IInv
    <3> QED BY <3>3, <3>4 DEF W!Leaving
  <2> QED BY <2>1, <2>2
<1>4. W!Aimed'
  <2>1. CASE ~W!Free
    <3>1. W!WebBegins("submit")
      BY DEF W!Submit
    <3>2. /\ UNCHANGED <<s1, s5, s7, s8, s10, s11, s12>>
          /\ s6'.up = s6.up /\ s6'.cred = s6.cred /\ s13'.odd = s13.odd
      BY <2>1, <3>1, WebRefused DEF W!IInv
    <3> QED BY <3>2 DEF W!IInv, W!Aimed, W!Goal, W!Working
  <2>2. CASE W!Free
    <3>1. W!WebBegins("submit") /\ ~W!Working /\ W!Goal = s7
      BY <2>2 DEF W!Submit, W!IInv, W!Locked, W!Free, W!Goal
    <3>2. s11["web"] = "idle" /\ s11' = [s11 EXCEPT !["web"] = "leave"]
      BY <2>2, <3>1, WebBegun DEF W!IInv, W!WebBegins
    <3>3. s11'["web"] = "leave" /\ (\A t \in W!Tasks \ {"web"} : s11'[t] = s11[t])
      BY <3>2 DEF W!IInv, W!Typed, W!Tasks
    <3>4. W!Goal' = s7
      BY <2>2, <3>1, <3>3, WebBegun DEF W!IInv, W!Goal, W!Working
    <3>5. (s8' # "none" => s8 # "none") /\ s1'.cfg = s1.cfg
      BY <2>2, <3>1, WebBegun DEF W!IInv
    <3> QED BY <3>1, <3>4, <3>5 DEF W!IInv, W!Aimed
  <2> QED BY <2>1, <2>2
<1>5. W!ApShown'
  BY <1>1 DEF W!IInv, W!Typed, W!TypeOK, W!Tasks, W!ApShown, W!Marking, W!Drivers,
         W!Aps, W!Submit, W!WebBegins, W!ResetClosing
<1>6. W!Closers'
  <2>1. CASE ~W!Free
    <3>1. W!WebBegins("submit")
      BY DEF W!Submit
    <3>2. /\ UNCHANGED <<s1, s5, s7, s8, s10, s11, s12>>
          /\ s6'.up = s6.up /\ s6'.cred = s6.cred /\ s13'.odd = s13.odd
      BY <2>1, <3>1, WebRefused DEF W!IInv
    <3> QED BY <3>2 DEF W!IInv, W!Closers, W!Goal, W!Working
  <2>2. CASE W!Free
    <3>1. W!WebBegins("submit") /\ ~W!Working /\ W!Goal = s7
      BY <2>2 DEF W!Submit, W!IInv, W!Locked, W!Free, W!Goal
    <3>2. s11["web"] = "idle" /\ s11' = [s11 EXCEPT !["web"] = "leave"]
      BY <2>2, <3>1, WebBegun DEF W!IInv, W!WebBegins
    <3>3. s11'["web"] = "leave" /\ (\A t \in W!Tasks \ {"web"} : s11'[t] = s11[t])
      BY <3>2 DEF W!IInv, W!Typed, W!Tasks
    <3>4. W!Goal' = s7
      BY <2>2, <3>1, <3>3, WebBegun DEF W!IInv, W!Goal, W!Working
    <3>5. s5' = s5 \/ ~s5'.on
      BY <2>2, <3>1, WebBegun DEF W!IInv
    <3>6. /\ s10' = s10 /\ s6'.up = s6.up /\ s6'.cred = s6.cred /\ s13'.odd = s13.odd
          /\ s12'.started = s12.started
      BY <2>2, <3>1, WebBegun DEF W!IInv
    <3> QED BY <3>1, <3>3, <3>4, <3>5, <3>6 DEF W!IInv, W!Closers, W!Tasks
  <2> QED BY <2>1, <2>2
<1> QED BY <1>1, <1>2, <1>3, <1>4, <1>5, <1>6 DEF W!IInv

\* idf_wifi_reconnect: the target stays while the page takes the station off the
\* network.
LEMMA WifiWebReconnect ==
    ASSUME W!WifiAssumption, W!IInv, W!WebReconnect
    PROVE  W!IInv'
<1>1. W!Typed'
  <2>1. W!Typed BY DEF W!IInv
  <2>2. /\ s13' \in [web : 0 .. MaxWeb, press : 0 .. MaxPresses, odd : BOOLEAN]
    BY <2>1 DEF W!Typed, W!WifiAssumption, W!WebReconnect, W!WebBegins
  <2>3. s3' \in W!Tasks \cup {"none"}
    BY <2>1 DEF W!Typed, W!TypeOK, W!Tasks, W!WebReconnect, W!WebBegins
  <2>4. s9' \in W!Recs
    BY <2>1 DEF W!Typed, W!TypeOK, W!Recs, W!WebReconnect, W!WebBegins,
           W!ResetClosing, W!Reset
  <2>5. s1' \in W!Drivers
    BY ZenonT(60), <2>1 DEF W!Typed, W!TypeOK, W!Drivers, W!WebReconnect, W!WebBegins,
           W!ResetClosing, W!Reset, W!Free
  <2>6. s5' \in W!Aps
    <3>1. s5' = s5 \/ s5' = [on |-> FALSE, manual |-> FALSE]
      BY DEF W!WebReconnect, W!WebBegins, W!ResetClosing
    <3>2. s5 \in W!Aps
      BY <2>1 DEF W!Typed, W!TypeOK
    <3>3. [on |-> FALSE, manual |-> FALSE] \in W!Aps
      BY DEF W!Aps
    <3> QED BY <3>1, <3>2, <3>3
  <2>7. s12' \in W!Mems
    <3>1. CASE s12' = s12
      BY <2>1, <3>1 DEF W!Typed, W!TypeOK
    <3>2. CASE s12' # s12
      <4>1. PICK page \in BOOLEAN, sel \in BOOLEAN :
               s12' = [s12 EXCEPT !.fresh = FALSE, !.gone = FALSE, !.kind = "reconnect",
                                  !.back = s7, !.backConf = s6.conf, !.page = page, !.sel = sel]
        BY <2>1, <3>2 DEF W!Typed, W!WebReconnect, W!WebBegins
      <4> QED BY ZenonT(60), <2>1, <4>1 DEF W!Typed, W!TypeOK, W!Mems, W!Networks, W!Stas
    <3> QED BY <3>1, <3>2
  <2>8. s6' \in W!Stas
    BY <2>1 DEF W!Typed, W!TypeOK, W!Stas, W!WebReconnect, W!WebBegins
  <2>9. s7' \in W!Networks \cup {"none"}
    BY <2>1 DEF W!Typed, W!TypeOK, W!WebReconnect, W!WebBegins
  <2>10. s8' \in {"none", "current", "old"}
    BY <2>1 DEF W!Typed, W!TypeOK, W!WebReconnect, W!WebBegins
  <2>11. /\ s11' \in [W!Tasks -> W!Stages]
         /\ s11'["handler"] \in {"idle", "ap"}
    BY <2>1 DEF W!Typed, W!Tasks, W!Stages, W!WebReconnect, W!WebBegins
  <2>12. UNCHANGED <<s2, s4, s10>>
    BY DEF W!WebReconnect, W!WebBegins
  <2> QED BY <2>1, <2>2, <2>3, <2>4, <2>5, <2>6, <2>7, <2>8, <2>9, <2>10, <2>11, <2>12
             DEF W!Typed, W!TypeOK
<1>2. W!Locked'
  BY <1>1 DEF W!IInv, W!Typed, W!Tasks, W!Locked, W!Working, W!WebReconnect,
         W!WebBegins, W!Free
<1>3. W!Leaving'
  <2>1. CASE ~W!Free
    <3>1. W!WebBegins("reconnect")
      BY DEF W!WebReconnect
    <3>2. /\ UNCHANGED <<s1, s5, s7, s8, s10, s11, s12>>
          /\ s6'.up = s6.up /\ s6'.cred = s6.cred /\ s13'.odd = s13.odd
      BY <2>1, <3>1, WebRefused DEF W!IInv
    <3> QED BY <3>2 DEF W!IInv, W!Leaving, W!Working
  <2>2. CASE W!Free
    <3>1. W!WebBegins("reconnect") /\ ~W!Working /\ W!Goal = s7
      BY <2>2 DEF W!WebReconnect, W!IInv, W!Locked, W!Free, W!Goal
    <3>2. s11["web"] = "idle" /\ s11' = [s11 EXCEPT !["web"] = "leave"]
      BY <2>2, <3>1, WebBegun DEF W!IInv, W!WebBegins
    <3>3. s11'["web"] = "leave" /\ (\A t \in W!Tasks \ {"web"} : s11'[t] = s11[t])
      BY <3>2 DEF W!IInv, W!Typed, W!Tasks
    <3>4. s12'.kind = "submit" => s7' = "none"
      BY <2>2, <3>1, WebBegun DEF W!IInv
    <3> QED BY <3>3, <3>4 DEF W!Leaving
  <2> QED BY <2>1, <2>2
<1>4. W!Aimed'
  <2>1. CASE ~W!Free
    <3>1. W!WebBegins("reconnect")
      BY DEF W!WebReconnect
    <3>2. /\ UNCHANGED <<s1, s5, s7, s8, s10, s11, s12>>
          /\ s6'.up = s6.up /\ s6'.cred = s6.cred /\ s13'.odd = s13.odd
      BY <2>1, <3>1, WebRefused DEF W!IInv
    <3> QED BY <3>2 DEF W!IInv, W!Aimed, W!Goal, W!Working
  <2>2. CASE W!Free
    <3>1. W!WebBegins("reconnect") /\ ~W!Working /\ W!Goal = s7
      BY <2>2 DEF W!WebReconnect, W!IInv, W!Locked, W!Free, W!Goal
    <3>2. s11["web"] = "idle" /\ s11' = [s11 EXCEPT !["web"] = "leave"]
      BY <2>2, <3>1, WebBegun DEF W!IInv, W!WebBegins
    <3>3. s11'["web"] = "leave" /\ (\A t \in W!Tasks \ {"web"} : s11'[t] = s11[t])
      BY <3>2 DEF W!IInv, W!Typed, W!Tasks
    <3>4. W!Goal' = s7
      BY <2>2, <3>1, <3>3, WebBegun DEF W!IInv, W!Goal
    <3>5. (s8' # "none" => s8 # "none") /\ s1'.cfg = s1.cfg
      BY <2>2, <3>1, WebBegun DEF W!IInv
    <3> QED BY <3>1, <3>4, <3>5 DEF W!IInv, W!Aimed
  <2> QED BY <2>1, <2>2
<1>5. W!ApShown'
  BY <1>1 DEF W!IInv, W!Typed, W!TypeOK, W!Tasks, W!ApShown, W!Marking, W!Drivers,
         W!Aps, W!WebReconnect, W!WebBegins, W!ResetClosing
<1>6. W!Closers'
  <2>1. CASE ~W!Free
    <3>1. W!WebBegins("reconnect")
      BY DEF W!WebReconnect
    <3>2. /\ UNCHANGED <<s1, s5, s7, s8, s10, s11, s12>>
          /\ s6'.up = s6.up /\ s6'.cred = s6.cred /\ s13'.odd = s13.odd
      BY <2>1, <3>1, WebRefused DEF W!IInv
    <3> QED BY <3>2 DEF W!IInv, W!Closers, W!Goal, W!Working
  <2>2. CASE W!Free
    <3>1. W!WebBegins("reconnect") /\ ~W!Working /\ W!Goal = s7
      BY <2>2 DEF W!WebReconnect, W!IInv, W!Locked, W!Free, W!Goal
    <3>2. s11["web"] = "idle" /\ s11' = [s11 EXCEPT !["web"] = "leave"]
      BY <2>2, <3>1, WebBegun DEF W!IInv, W!WebBegins
    <3>3. s11'["web"] = "leave" /\ (\A t \in W!Tasks \ {"web"} : s11'[t] = s11[t])
      BY <3>2 DEF W!IInv, W!Typed, W!Tasks
    <3>4. W!Goal' = s7
      BY <2>2, <3>1, <3>3, WebBegun DEF W!IInv, W!Goal
    <3>5. s5' = s5 \/ ~s5'.on
      BY <2>2, <3>1, WebBegun DEF W!IInv
    <3>6. /\ s10' = s10 /\ s6'.up = s6.up /\ s6'.cred = s6.cred /\ s13'.odd = s13.odd
          /\ s12'.started = s12.started
      BY <2>2, <3>1, WebBegun DEF W!IInv
    <3> QED BY <3>1, <3>3, <3>4, <3>5, <3>6 DEF W!IInv, W!Closers, W!Tasks
  <2> QED BY <2>1, <2>2
<1> QED BY <1>1, <1>2, <1>3, <1>4, <1>5, <1>6 DEF W!IInv

\* wifi_disconnect_driver_locked: the link is taken down, and its event awaited.
LEMMA WifiWebLeaves ==
    ASSUME W!WifiAssumption, W!IInv, W!WebLeaves
    PROVE  W!IInv'
<1>1. W!Typed'
  <2>1. W!Typed BY DEF W!IInv
  <2>2. /\ s11' \in [W!Tasks -> W!Stages]
         /\ s11'["handler"] \in {"idle", "ap"}
    BY <2>1 DEF W!Typed, W!Tasks, W!Stages, W!WebLeaves
  <2>3. s1' \in W!Drivers
    BY ZenonT(60), <2>1 DEF W!Typed, W!TypeOK, W!Drivers, W!WebLeaves
  <2>4. s2' \in Seq({"gone", "gotip"}) /\ Len(s2') <= MaxEvents
    BY SMTT(60), <2>1 DEF W!Typed, W!TypeOK, W!WifiAssumption, W!WebLeaves, W!Happens
  <2>5. UNCHANGED <<s3, s4, s5, s6, s7, s8, s9, s10, s12, s13>>
    BY DEF W!WebLeaves
  <2> QED BY <2>1, <2>2, <2>3, <2>4, <2>5 DEF W!Typed, W!TypeOK
<1>2. W!Locked'
  BY <1>1 DEF W!IInv, W!Typed, W!Tasks, W!Locked, W!Working, W!WebLeaves
<1>3. W!Leaving'
  <2>1. CASE s1.link = "off"
    BY <2>1 DEF W!IInv, W!Typed, W!Leaving, W!Working, W!WebLeaves
  <2>2. CASE s1.link # "off"
    <3>1. s1'.link = "off"
      BY <2>2 DEF W!IInv, W!Typed, W!TypeOK, W!Drivers, W!WebLeaves
    <3>2. UNCHANGED <<s7, s12>> /\ W!Working
      BY DEF W!Working, W!WebLeaves
    <3> QED BY <3>1, <3>2 DEF W!IInv, W!Leaving
  <2> QED BY <2>1, <2>2
<1>4. W!Aimed'
  <2>1. s1'.cfg = s1.cfg
    BY DEF W!IInv, W!Typed, W!TypeOK, W!Drivers, W!WebLeaves
  <2>2. s12'.kind = s12.kind /\ s12'.back = s12.back
    BY DEF W!IInv, W!Typed, W!WebLeaves
  <2>3. UNCHANGED <<s7, s8>> /\ (W!Working' <=> W!Working)
    BY DEF W!IInv, W!Typed, W!Working, W!WebLeaves
  <2> QED BY <2>1, <2>2, <2>3, AimedStays DEF W!IInv
<1>5. W!ApShown'
  <2>1. s1'.ap = s1.ap
    BY DEF W!IInv, W!Typed, W!TypeOK, W!Drivers, W!WebLeaves
  <2>2. UNCHANGED <<s5, s13>> /\ (W!Marking' <=> W!Marking)
    BY DEF W!IInv, W!Typed, W!Tasks, W!Marking, W!WebLeaves
  <2> QED BY <2>1, <2>2 DEF W!IInv, W!ApShown
<1>6. W!Closers'
  BY <1>1 DEF W!IInv, W!Typed, W!Tasks, W!Closers, W!Goal, W!Working, W!WebLeaves
<1> QED BY <1>1, <1>2, <1>3, <1>4, <1>5, <1>6 DEF W!IInv

\* wifi_disconnect_driver_locked: the event has come.
LEMMA WifiWebLeft ==
    ASSUME W!WifiAssumption, W!IInv, W!WebLeft
    PROVE  W!IInv'
<1>1. W!Typed'
  <2>1. W!Typed BY DEF W!IInv
  <2>2. /\ s11' \in [W!Tasks -> W!Stages]
         /\ s11'["handler"] \in {"idle", "ap"}
    BY <2>1 DEF W!Typed, W!Tasks, W!Stages, W!WebLeft
  <2>3. UNCHANGED <<s1, s2, s3, s4, s5, s6, s7, s8, s9, s10, s12, s13>>
    BY DEF W!WebLeft
  <2> QED BY <2>1, <2>2, <2>3 DEF W!Typed, W!TypeOK
<1>2. W!Locked'
  BY <1>1 DEF W!IInv, W!Typed, W!Locked, W!Working, W!WebLeft
<1>3. W!Leaving'
  BY <1>1 DEF W!IInv, W!Typed, W!Leaving, W!Working, W!WebLeft
<1>4. W!Aimed'
  BY <1>1 DEF W!IInv, W!Typed, W!Aimed, W!Goal, W!Working, W!WebLeft
<1>5. W!ApShown'
  BY <1>1 DEF W!IInv, W!Typed, W!ApShown, W!Marking, W!WebLeft
<1>6. W!Closers'
  BY <1>1 DEF W!IInv, W!Typed, W!Closers, W!Goal, W!Working, W!WebLeft
<1> QED BY <1>1, <1>2, <1>3, <1>4, <1>5, <1>6 DEF W!IInv

\* restore_previous: the earlier target is wanted again, and it is still the one
\* in the driver.
LEMMA WifiWebFails ==
    ASSUME W!WifiAssumption, W!IInv, W!WebFails
    PROVE  W!IInv'
<1>1. W!Typed'
  <2>1. W!Typed BY DEF W!IInv
  <2>2. /\ s11' \in [W!Tasks -> W!Stages]
         /\ s11'["handler"] \in {"idle", "ap"}
    BY <2>1 DEF W!Typed, W!Tasks, W!Stages, W!WebFails
  <2>3. s3' \in W!Tasks \cup {"none"}
    BY <2>1 DEF W!Typed, W!WebFails
  <2>4. s6' \in W!Stas
    <3>1. s6' = s6 \/ s6' = [s6 EXCEPT !.conf = s12.backConf]
      BY DEF W!WebFails
    <3> QED BY <2>1, <3>1 DEF W!Typed, W!TypeOK, W!Stas, W!Mems
  <2>5. s7' \in W!Networks \cup {"none"}
    <3>1. s7' = s7 \/ s7' = s12.back
      BY DEF W!WebFails
    <3> QED BY <2>1, <3>1 DEF W!Typed, W!TypeOK, W!Mems
  <2>6. s8' \in {"none", "current", "old"}
    BY <2>1 DEF W!Typed, W!TypeOK, W!WebFails
  <2>7. s1' \in W!Drivers
    BY <2>1, ConnectedSound DEF W!Typed, W!TypeOK, W!WebFails
  <2>8. s12' \in W!Mems
    BY <2>1 DEF W!Typed, W!TypeOK, W!Mems, W!WebFails, W!Idle
  <2>9. UNCHANGED <<s2, s4, s5, s9, s10, s13>>
    BY DEF W!WebFails
  <2> QED BY <2>1, <2>2, <2>3, <2>4, <2>5, <2>6, <2>7, <2>8, <2>9 DEF W!Typed, W!TypeOK
<1>2. W!Locked'
  BY <1>1 DEF W!IInv, W!Typed, W!Locked, W!Working, W!WebFails
<1>3. W!Leaving'
  BY ConnectedSound, <1>1 DEF W!IInv, W!Typed, W!Leaving, W!WebFails, W!Idle
<1>4. W!Aimed'
  BY ConnectedSound, <1>1 DEF W!IInv, W!Typed, W!Aimed, W!Goal, W!Working, W!WebFails
<1>5. W!ApShown'
  BY ConnectedSound, <1>1 DEF W!IInv, W!Typed, W!ApShown, W!Marking, W!WebFails
<1>6. W!Closers'
  BY ConnectedSound, <1>1 DEF W!IInv, W!Typed, W!TypeOK, W!Closers, W!Goal, W!Working,
         W!Stas, W!WebFails, W!Idle
<1> QED BY <1>1, <1>2, <1>3, <1>4, <1>5, <1>6 DEF W!IInv

\* idf_wifi_provision_connect: the link is off, so the network goes in as the
\* target it becomes.
LEMMA WifiSubmitApplies ==
    ASSUME W!WifiAssumption, W!IInv, W!SubmitApplies
    PROVE  W!IInv'
<1>1. W!Typed'
  <2>1. W!Typed BY DEF W!IInv
  <2>2. s7' \in W!Networks \cup {"none"}
    BY <2>1 DEF W!Typed, W!Networks, W!SubmitApplies
  <2>3. s8' \in {"none", "current", "old"}
    BY <2>1 DEF W!Typed, W!TypeOK, W!SubmitApplies
  <2>4. s6' \in W!Stas
    BY <2>1 DEF W!Typed, W!TypeOK, W!Stas, W!SubmitApplies
  <2>5. s1' \in W!Drivers
    BY <2>1, AppliedSound DEF W!Typed, W!Networks, W!SubmitApplies
  <2>6. s3' \in W!Tasks \cup {"none"}
    BY <2>1 DEF W!Typed, W!SubmitApplies
  <2>7. /\ s11' \in [W!Tasks -> W!Stages]
         /\ s11'["handler"] \in {"idle", "ap"}
    BY <2>1 DEF W!Typed, W!Tasks, W!Stages, W!SubmitApplies
  <2>8. s12' \in W!Mems
    BY <2>1 DEF W!Typed, W!TypeOK, W!Mems, W!SubmitApplies, W!Idle
  <2>9. UNCHANGED <<s2, s4, s5, s9, s10, s13>>
    BY DEF W!SubmitApplies
  <2> QED BY <2>1, <2>2, <2>3, <2>4, <2>5, <2>6, <2>7, <2>8, <2>9 DEF W!Typed, W!TypeOK
<1>2. W!Locked'
  BY <1>1 DEF W!IInv, W!Typed, W!Locked, W!Working, W!SubmitApplies
<1>3. W!Leaving'
  BY AppliedSound, <1>1 DEF W!IInv, W!Typed, W!Leaving, W!SubmitApplies, W!Idle
<1>4. W!Aimed'
  BY AppliedSound, <1>1 DEF W!IInv, W!Typed, W!Aimed, W!Goal, W!Leaving, W!Networks,
         W!SubmitApplies, W!Idle
<1>5. W!ApShown'
  <2>1. UNCHANGED <<s5, s13>> /\ (W!Marking' <=> W!Marking)
    BY DEF W!IInv, W!Typed, W!Marking, W!SubmitApplies
  <2>2. s1'.ap = s5.on
    BY AppliedSound DEF W!IInv, W!Networks, W!SubmitApplies
  <2>3. ~W!Marking
    BY DEF W!IInv, W!Locked, W!Working, W!Marking, W!SubmitApplies
  <2> QED BY <2>1, <2>2, <2>3 DEF W!ApShown
<1>6. W!Closers'
  BY AppliedSound, <1>1 DEF W!IInv, W!Typed, W!Closers, W!Goal, W!SubmitApplies, W!Idle
<1> QED BY <1>1, <1>2, <1>3, <1>4, <1>5, <1>6 DEF W!IInv

\* wifi_disconnect_quietly: the mutex is given back before the connection is
\* tried.
LEMMA WifiReconnectApplies ==
    ASSUME W!WifiAssumption, W!IInv, W!ReconnectApplies
    PROVE  W!IInv'
<1>1. W!Typed'
  <2>1. W!Typed BY DEF W!IInv
  <2>2. s3' \in W!Tasks \cup {"none"}
    BY <2>1 DEF W!Typed, W!ReconnectApplies
  <2>3. /\ s11' \in [W!Tasks -> W!Stages]
         /\ s11'["handler"] \in {"idle", "ap"}
    BY <2>1 DEF W!Typed, W!Tasks, W!Stages, W!ReconnectApplies
  <2>4. UNCHANGED <<s1, s2, s4, s5, s6, s7, s8, s9, s10, s12, s13>>
    BY DEF W!ReconnectApplies
  <2> QED BY <2>1, <2>2, <2>3, <2>4 DEF W!Typed, W!TypeOK
<1>2. W!Locked'
  BY <1>1 DEF W!IInv, W!Typed, W!Locked, W!Working, W!ReconnectApplies
<1>3. W!Leaving'
  BY <1>1 DEF W!IInv, W!Typed, W!Leaving, W!ReconnectApplies
<1>4. W!Aimed'
  BY <1>1 DEF W!IInv, W!Typed, W!Aimed, W!Goal, W!ReconnectApplies
<1>5. W!ApShown'
  BY <1>1 DEF W!IInv, W!Typed, W!ApShown, W!Marking, W!ReconnectApplies
<1>6. W!Closers'
  BY <1>1 DEF W!IInv, W!Typed, W!Closers, W!Goal, W!ReconnectApplies
<1> QED BY <1>1, <1>2, <1>3, <1>4, <1>5, <1>6 DEF W!IInv

\* idf_wifi_reconnect: the station connects with what the driver has.
LEMMA WifiReconnectConnects ==
    ASSUME W!WifiAssumption, W!IInv, W!ReconnectConnects
    PROVE  W!IInv'
<1>1. W!Typed'
  <2>1. W!Typed BY DEF W!IInv
  <2>2. s6' \in W!Stas
    BY <2>1 DEF W!Typed, W!TypeOK, W!Stas, W!ReconnectConnects
  <2>3. s1' \in W!Drivers
    BY <2>1, ConnectedSound DEF W!Typed, W!TypeOK, W!ReconnectConnects, W!ConnectNow
  <2>4. /\ s11' \in [W!Tasks -> W!Stages]
         /\ s11'["handler"] \in {"idle", "ap"}
    BY <2>1 DEF W!Typed, W!Tasks, W!Stages, W!ReconnectConnects
  <2>5. s12' \in W!Mems
    BY <2>1 DEF W!Typed, W!TypeOK, W!Mems, W!ReconnectConnects, W!Idle
  <2>6. UNCHANGED <<s2, s3, s4, s5, s7, s8, s9, s10, s13>>
    BY DEF W!ReconnectConnects
  <2> QED BY <2>1, <2>2, <2>3, <2>4, <2>5, <2>6 DEF W!Typed, W!TypeOK
<1>2. W!Locked'
  BY <1>1 DEF W!IInv, W!Typed, W!Locked, W!Working, W!ReconnectConnects
<1>3. W!Leaving'
  BY ConnectedSound, <1>1 DEF W!IInv, W!Typed, W!Leaving, W!ReconnectConnects, W!Idle
<1>4. W!Aimed'
  BY ConnectedSound, <1>1 DEF W!IInv, W!Typed, W!Aimed, W!Goal, W!Working,
         W!ReconnectConnects, W!ConnectNow
<1>5. W!ApShown'
  BY ConnectedSound, <1>1 DEF W!IInv, W!Typed, W!ApShown, W!Marking,
         W!ReconnectConnects, W!ConnectNow
<1>6. W!Closers'
  BY ConnectedSound, <1>1 DEF W!IInv, W!Typed, W!Closers, W!Goal, W!Working,
         W!ReconnectConnects, W!Idle
<1> QED BY <1>1, <1>2, <1>3, <1>4, <1>5, <1>6 DEF W!IInv

\* idf_wifi_scan_request: the scan needs the mutex free and changes nothing
\* else.
LEMMA WifiPageScan ==
    ASSUME W!WifiAssumption, W!IInv, W!PageScan
    PROVE  W!IInv'
<1>1. W!Typed'
  <2>1. W!Typed BY DEF W!IInv
  <2>2. s4' \in {"none", "page", "select"}
    BY <2>1 DEF W!Typed, W!PageScan
  <2>3. UNCHANGED <<s1, s2, s3, s5, s6, s7, s8, s9, s10, s11, s12, s13>>
    BY DEF W!PageScan
  <2> QED BY <2>1, <2>2, <2>3 DEF W!Typed, W!TypeOK
<1>2. W!Locked'
  BY <1>1 DEF W!IInv, W!Typed, W!Locked, W!Working, W!PageScan
<1>3. W!Leaving'
  BY <1>1 DEF W!IInv, W!Typed, W!Leaving, W!Working, W!PageScan
<1>4. W!Aimed'
  BY <1>1 DEF W!IInv, W!Typed, W!Aimed, W!Goal, W!Working, W!PageScan
<1>5. W!ApShown'
  BY <1>1 DEF W!IInv, W!Typed, W!ApShown, W!Marking, W!PageScan
<1>6. W!Closers'
  BY <1>1 DEF W!IInv, W!Typed, W!Closers, W!Goal, W!Working, W!PageScan
<1> QED BY <1>1, <1>2, <1>3, <1>4, <1>5, <1>6 DEF W!IInv

\* wifi_scan_collect_once: the scan is collected.
LEMMA WifiPageScanned ==
    ASSUME W!WifiAssumption, W!IInv, W!PageScanned
    PROVE  W!IInv'
<1>1. W!Typed'
  <2>1. W!Typed BY DEF W!IInv
  <2>2. s4' \in {"none", "page", "select"}
    BY <2>1 DEF W!Typed, W!PageScanned
  <2>3. UNCHANGED <<s1, s2, s3, s5, s6, s7, s8, s9, s10, s11, s12, s13>>
    BY DEF W!PageScanned
  <2> QED BY <2>1, <2>2, <2>3 DEF W!Typed, W!TypeOK
<1>2. W!Locked'
  BY <1>1 DEF W!IInv, W!Typed, W!Locked, W!Working, W!PageScanned
<1>3. W!Leaving'
  BY <1>1 DEF W!IInv, W!Typed, W!Leaving, W!Working, W!PageScanned
<1>4. W!Aimed'
  BY <1>1 DEF W!IInv, W!Typed, W!Aimed, W!Goal, W!Working, W!PageScanned
<1>5. W!ApShown'
  BY <1>1 DEF W!IInv, W!Typed, W!ApShown, W!Marking, W!PageScanned
<1>6. W!Closers'
  BY <1>1 DEF W!IInv, W!Typed, W!Closers, W!Goal, W!Working, W!PageScanned
<1> QED BY <1>1, <1>2, <1>3, <1>4, <1>5, <1>6 DEF W!IInv

\* Nothing changes.
LEMMA WifiStands ==
    ASSUME W!IInv, UNCHANGED W!vars
    PROVE  W!IInv'
<1>1. UNCHANGED <<s1, s2, s3, s4, s5, s6, s7, s8, s9, s10, s11, s12, s13>>
  BY DEF W!vars
<1>2. W!Typed'
  BY <1>1 DEF W!IInv, W!Typed, W!TypeOK
<1>3. W!Working' = W!Working /\ W!Marking' = W!Marking /\ W!Goal' = W!Goal
  BY <1>1 DEF W!Working, W!Marking, W!Goal
<1>4. W!Locked' /\ W!Leaving' /\ W!Aimed'
  BY <1>1, <1>3 DEF W!IInv, W!Locked, W!Leaving, W!Aimed
<1>5. W!ApShown' /\ W!Closers'
  BY <1>1, <1>3 DEF W!IInv, W!ApShown, W!Closers
<1> QED BY <1>2, <1>4, <1>5 DEF W!IInv

\* Every step of idf_wifi keeps the invariant.
LEMMA WifiKept ==
    ASSUME W!WifiAssumption, W!IInv, [W!Next]_(W!vars)
    PROVE  W!IInv'
<1>1. CASE UNCHANGED W!vars
  BY <1>1, WifiStands
<1>2. CASE W!LinkUp \/ W!LinkDown \/ W!Handler
  BY <1>2, WifiLinkUp, WifiLinkDown, WifiDisconnected, WifiGotIp, WifiGotIpAp DEF W!Handler
<1>3. CASE W!CloseTimer \/ W!Watchdog \/ W!OutageLasts \/ W!Timer
  BY <1>3, WifiCloseTimer, WifiWatchdog, WifiOutageLasts, WifiClaim, WifiStartRecovery,
     WifiMarkRecovery, WifiFinish, WifiReconnect DEF W!Timer
<1>4. CASE W!Selector \/ W!Press \/ W!ButtonMarks
  BY <1>4, WifiSelectScan, WifiSelectScanned, WifiSelectApply, WifiPress, WifiButtonMarks
     DEF W!Selector
<1>5. CASE W!First
  BY <1>5, WifiFirstConnected, WifiFirstTimeout, WifiFirstStarts, WifiFirstMarks DEF W!First
<1>6. CASE W!Submit \/ W!WebReconnect \/ W!PageScan \/ W!PageScanned
  BY <1>6, WifiSubmit, WifiWebReconnect, WifiPageScan, WifiPageScanned
<1>7. CASE W!Web
  BY <1>7, WifiWebLeaves, WifiWebLeft, WifiWebFails, WifiSubmitApplies, WifiReconnectApplies,
     WifiReconnectConnects DEF W!Web
<1> QED BY <1>1, <1>2, <1>3, <1>4, <1>5, <1>6, <1>7 DEF W!Next

\* idf_wifi_start: the AP is up or not, and is known to be.
LEMMA WifiStarts ==
    ASSUME W!WifiAssumption, W!Init
    PROVE  W!IInv
<1>1. s11 \in [W!Tasks -> {"idle", "wait", "scan"}] /\ s11["handler"] = "idle"
  BY DEF W!Init, W!Tasks
<1>2. s1 \in W!Drivers /\ s1.ap = s5.on /\ s5.manual = FALSE
  BY DEF W!Init, W!Drivers, W!Networks
<1>3. s5 \in W!Aps /\ s6 \in W!Stas /\ s6.up = FALSE
  BY DEF W!Init, W!Aps, W!Stas
<1>4. s9 \in W!Recs
  BY DEF W!Init, W!Recs
<1>5. s12 \in W!Mems
  BY DEF W!Init, W!Mems
<1>6. s2 \in Seq({"gone", "gotip"}) /\ Len(s2) <= MaxEvents
  BY DEF W!Init, W!WifiAssumption
<1>7. s13 \in [web : 0 .. MaxWeb, press : 0 .. MaxPresses, odd : BOOLEAN]
  BY DEF W!Init, W!WifiAssumption
<1>8. s3 = "none" /\ s4 = "none" /\ s7 = "none" /\ s8 = "none" /\ s10 = FALSE
  BY DEF W!Init
<1>9. s11["handler"] \in {"idle", "ap"} /\ s11 \in [W!Tasks -> W!Stages]
  BY <1>1 DEF W!Stages
<1>10. W!Typed
  BY <1>2, <1>3, <1>4, <1>5, <1>6, <1>7, <1>8, <1>9 DEF W!Typed, W!TypeOK
<1>11. ~W!Working /\ ~W!Marking /\ s11["select"] # "scanning" /\ W!Goal = "none"
  BY <1>1, <1>8 DEF W!Working, W!Marking, W!Tasks, W!Goal
<1>12. W!Locked /\ W!Leaving
  BY <1>1, <1>11 DEF W!Locked, W!Leaving, W!Working, W!Marking, W!Tasks
<1>13. W!Aimed /\ W!ApShown /\ W!Closers
  BY <1>2, <1>3, <1>8, <1>11 DEF W!Aimed, W!ApShown, W!Closers
<1> QED BY <1>10, <1>12, <1>13 DEF W!IInv

\* What the invariant says to one who looks at the device between two operations.
LEMMA WifiTells ==
    ASSUME W!IInv
    PROVE  W!TypeOK /\ W!NoneStranded /\ W!ApStateTrue /\ W!TargetKept
<1>1. W!TypeOK
  BY DEF W!IInv, W!Typed
<1>2. s3 # "web" => ~W!Working /\ W!Goal = s7
  BY DEF W!IInv, W!Locked, W!Goal
<1>3. W!NoneStranded
  BY <1>2 DEF W!IInv, W!Closers, W!NoneStranded
<1>4. W!ApStateTrue
  BY DEF W!IInv, W!Locked, W!ApShown, W!Marking, W!ApStateTrue
<1>5. W!TargetKept
  BY <1>2 DEF W!IInv, W!Aimed, W!TargetKept
<1> QED BY <1>1, <1>3, <1>4, <1>5

\* validate_provisioning_target_locked alone clears a target for good, and on the
\* network that it is; a submission clears it to put another in its place.
LEMMA ReachedStep ==
    ASSUME W!IInv, W!Next
    PROVE  W!Reached
<1> SUFFICES ASSUME s7 # "none", s7' = "none"
             PROVE  s11'["web"] = "leave" \/ (s1.on = s7 /\ s1.link = "ip")
  BY DEF W!Reached
<1>1. CASE W!GotIpAp
  BY <1>1 DEF W!GotIpAp, W!Validated
<1>2. CASE W!CloseTimer
  BY <1>2 DEF W!CloseTimer, W!Validated
<1>3. CASE W!Submit
  BY <1>3 DEF W!Submit, W!WebBegins, W!IInv, W!Typed, W!Tasks
<1>4. CASE W!WebReconnect
  BY <1>4 DEF W!WebReconnect, W!WebBegins
<1>5. CASE W!WebFails
  BY <1>5 DEF W!WebFails, W!IInv, W!Leaving, W!Working
<1>6. CASE W!SubmitApplies
  BY <1>6 DEF W!SubmitApplies
<1>7. CASE ~(W!GotIpAp \/ W!CloseTimer \/ W!Submit \/ W!WebReconnect \/ W!WebFails
             \/ W!SubmitApplies)
  <2>1. s7' = s7
    BY <1>7 DEF W!Next, W!Handler, W!Timer, W!Selector, W!First, W!Web,
                W!LinkUp, W!LinkDown, W!Disconnected, W!GotIp, W!Watchdog, W!OutageLasts,
                W!Claim, W!StartRecovery, W!MarkRecovery, W!Finish, W!Reconnect,
                W!SelectScan, W!SelectScanned, W!SelectApply, W!Press, W!ButtonMarks,
                W!MarkAp, W!FirstConnected, W!FirstTimeout, W!FirstStarts, W!FirstMarks,
                W!WebLeaves, W!WebLeft, W!ReconnectApplies, W!ReconnectConnects,
                W!PageScan, W!PageScanned
  <2> QED BY <2>1
<1> QED BY <1>1, <1>2, <1>3, <1>4, <1>5, <1>6, <1>7

-----------------------------------------------------------------------------
(* UsbRecovery: sequences that lose their first elements                   *)

\* s without its first elements is t.
Rest(t, s) == Len(t) <= Len(s) /\ \A i \in 1 .. Len(t) : t[i] = s[i + (Len(s) - Len(t))]

\* < on the naturals is well-founded.
LEMMA LeastExists ==
    ASSUME NEW some \in SUBSET Nat, some # {}
    PROVE  \E n \in some : \A k \in some : n <= k
<1>1. PICK n \in some : \A k \in some : <<k, n>> \notin OpToRel(<, Nat)
  BY NatLessThanWellFounded, WFMin
<1>2. \A k \in some : ~(k < n)
  BY <1>1 DEF OpToRel
<1> QED BY <1>2

\* The end of a sequence.
LEMMA RestIs ==
    ASSUME NEW Elems, NEW s \in Seq(Elems), NEW m \in 1 .. Len(s) + 1
    PROVE  /\ SubSeq(s, m, Len(s)) \in Seq(Elems)
           /\ Len(SubSeq(s, m, Len(s))) = Len(s) - m + 1
           /\ Rest(SubSeq(s, m, Len(s)), s)
<1> DEFINE t == SubSeq(s, m, Len(s))
<1>1. t \in Seq(Elems) /\ Len(t) = Len(s) - m + 1
  OBVIOUS
<1>2. \A i \in 1 .. Len(t) : t[i] = s[i + m - 1]
  BY <1>1
<1> QED BY <1>1, <1>2 DEF Rest

\* The end of an end.
LEMMA RestTwice ==
    ASSUME NEW Elems, NEW s \in Seq(Elems), NEW t \in Seq(Elems), NEW u \in Seq(Elems), Rest(t, s), Rest(u, t)
    PROVE  Rest(u, s)
BY DEF Rest

\* What is added at the end stays there.
LEMMA RestMore ==
    ASSUME NEW Elems, NEW s \in Seq(Elems), NEW t \in Seq(Elems), NEW x \in Seq(Elems), Rest(t, s)
    PROVE  Rest(t \o x, s \o x)
<1>1. Len(t \o x) = Len(t) + Len(x) /\ Len(s \o x) = Len(s) + Len(x)
  OBVIOUS
<1>2. ASSUME NEW i \in 1 .. Len(t \o x)
      PROVE  (t \o x)[i] = (s \o x)[i + (Len(s \o x) - Len(t \o x))]
  <2>1. CASE i <= Len(t)
    BY <1>1, <2>1 DEF Rest
  <2>2. CASE i > Len(t)
    BY <1>1, <2>2 DEF Rest
  <2>3. i \in Int /\ Len(t) \in Int
    OBVIOUS
  <2>4. i <= Len(t) \/ i > Len(t)
    BY <2>3
  <2> QED BY <2>1, <2>2, <2>4
<1> QED BY <1>1, <1>2 DEF Rest

\* It has nothing of its own.
LEMMA RestIn ==
    ASSUME NEW Elems, NEW s \in Seq(Elems), NEW t \in Seq(Elems), Rest(t, s), NEW i \in 1 .. Len(t)
    PROVE  \E j \in 1 .. Len(s) : t[i] = s[j]
<1>1. i + (Len(s) - Len(t)) \in 1 .. Len(s)
  BY DEF Rest
<1> QED BY <1>1 DEF Rest

\* What a parser keeps is the end of what it had, from a header on.
LEMMA ResyncRest ==
    ASSUME NEW Elems, NEW buf \in Seq(Elems)
    PROVE  /\ U!Resync(buf) \in Seq(Elems) /\ Rest(U!Resync(buf), buf)
           /\ U!Resync(buf) # <<>> => U!Resync(buf)[1][2] = 1
<1> DEFINE at == {i \in DOMAIN buf : U!Holds(buf, i)}
           first == CHOOSE i \in at : \A j \in at : i <= j
<1>1. CASE at = {}
  <2>1. U!Resync(buf) = <<>>
    BY <1>1 DEF U!Resync
  <2> QED BY <2>1 DEF Rest
<1>2. CASE at # {}
  <2>1. at \in SUBSET Nat
    OBVIOUS
  <2>2. first \in at
    BY <1>2, <2>1, LeastExists
  <2>3. U!Resync(buf) = SubSeq(buf, first, Len(buf))
    BY <1>2 DEF U!Resync
  <2>8. first \in DOMAIN buf /\ U!Holds(buf, first)
    BY <2>2
  <2> HIDE DEF first
  <2>9. first \in 1 .. Len(buf)
    BY <2>8
  <2>4. first \in 1 .. Len(buf) /\ buf[first][2] = 1
    BY <2>8, <2>9 DEF U!Holds
  <2>5. SubSeq(buf, first, Len(buf))[1] = buf[first]
    BY <2>4
  <2>6. first \in 1 .. Len(buf) + 1
    BY <2>4
  <2>7. SubSeq(buf, first, Len(buf)) \in Seq(Elems) /\ Rest(SubSeq(buf, first, Len(buf)), buf)
    BY <2>6, RestIs
  <2> QED BY <2>3, <2>4, <2>5, <2>7
<1> QED BY <1>1, <1>2

\* So is what it keeps when it is fed, and it never keeps more than it has room
\* for.
LEMMA FedRest ==
    ASSUME NEW Elems, NEW buf \in Seq(Elems), NEW chunk \in Seq(Elems)
    PROVE  /\ U!Fed(buf, chunk) \in Seq(Elems) /\ Rest(U!Fed(buf, chunk), buf \o chunk)
           /\ U!Fed(buf, chunk) # <<>> => U!Fed(buf, chunk)[1][2] = 1
           /\ Len(U!Fed(buf, chunk)) <= U!Capacity
<1> DEFINE all == buf \o chunk
           m == IF Len(all) > U!Capacity THEN Len(all) - U!Capacity + 1 ELSE 1
           kept == SubSeq(all, m, Len(all))
<1>1. all \in Seq(Elems) /\ Len(all) \in Nat
  OBVIOUS
<1>2. m \in 1 .. Len(all) + 1 /\ Len(all) - m + 1 <= U!Capacity
  BY <1>1 DEF U!Capacity
<1>3. U!Fed(buf, chunk) = U!Resync(kept)
  BY DEF U!Fed
<1> HIDE DEF all, m
<1>4. kept \in Seq(Elems) /\ Len(kept) <= U!Capacity /\ Rest(kept, all)
  BY <1>1, <1>2, RestIs
<1> HIDE DEF kept
<1>5. /\ U!Resync(kept) \in Seq(Elems) /\ Rest(U!Resync(kept), kept)
      /\ U!Resync(kept) # <<>> => U!Resync(kept)[1][2] = 1
  BY <1>4, ResyncRest
<1>6. Rest(U!Resync(kept), all)
  BY <1>1, <1>4, <1>5, RestTwice
<1>7. Len(U!Resync(kept)) <= U!Capacity
  BY <1>4, <1>5 DEF Rest, U!Capacity
<1> QED BY <1>3, <1>5, <1>6, <1>7 DEF all

\* Reading takes from the line what it feeds to the parser.
LEMMA FedLine ==
    ASSUME NEW Elems, NEW buf \in Seq(Elems), NEW line \in Seq(Elems), NEW n \in 1 .. Len(line)
    PROVE  /\ SubSeq(line, 1, n) \in Seq(Elems) /\ SubSeq(line, n + 1, Len(line)) \in Seq(Elems)
           /\ Rest(U!Fed(buf, SubSeq(line, 1, n)) \o SubSeq(line, n + 1, Len(line)), buf \o line)
<1> DEFINE chunk == SubSeq(line, 1, n)
           left == SubSeq(line, n + 1, Len(line))
           fed == U!Fed(buf, chunk)
<1>1. chunk \in Seq(Elems) /\ Len(chunk) = n /\ \A i \in 1 .. n : chunk[i] = line[i]
  OBVIOUS
<1>2. left \in Seq(Elems) /\ Len(left) = Len(line) - n /\ \A i \in 1 .. Len(left) : left[i] = line[i + n]
  OBVIOUS
<1>3. fed \in Seq(Elems) /\ Rest(fed, buf \o chunk)
  BY <1>1, FedRest
<1> HIDE DEF chunk, left, fed
<1> DEFINE first == buf \o chunk
<1>8. first \in Seq(Elems) /\ Len(first) = Len(buf) + n
  BY <1>1
<1>9. \A i \in 1 .. Len(buf) + n : first[i] = IF i <= Len(buf) THEN buf[i] ELSE line[i - Len(buf)]
  BY <1>1
<1> HIDE DEF first
<1> DEFINE all == first \o left
<1>4. Rest(fed \o left, all)
  BY <1>2, <1>3, <1>8, RestMore DEF first
<1>5. all \in Seq(Elems) /\ Len(all) = Len(buf) + Len(line)
  <2>3. first \in Seq(Elems) /\ left \in Seq(Elems)
    BY <1>2, <1>8
  <2>1. all \in Seq(Elems) /\ Len(all) = Len(first) + Len(left)
    BY <2>3
  <2>2. Len(buf) \in Nat /\ Len(line) \in Nat /\ n \in Nat
    OBVIOUS
  <2> QED BY <1>2, <1>8, <2>1, <2>2
<1>10. \A i \in 1 .. Len(buf) + Len(line) :
         all[i] = IF i <= Len(buf) + n THEN first[i] ELSE left[i - (Len(buf) + n)]
  BY <1>2, <1>8
<1> HIDE DEF all
<1>6. ASSUME NEW i \in 1 .. Len(buf) + Len(line) PROVE all[i] = (buf \o line)[i]
  <2>0. Len(buf) \in Nat /\ Len(line) \in Nat /\ i \in Int
    OBVIOUS
  <2>1. CASE i <= Len(buf)
    BY <1>9, <1>10, <2>0, <2>1
  <2>2. CASE i > Len(buf) /\ i <= Len(buf) + n
    BY <1>9, <1>10, <2>0, <2>2
  <2>3. CASE i > Len(buf) + n
    <3>1. all[i] = left[i - (Len(buf) + n)]
      BY <1>10, <2>0, <2>3
    <3>2. i - (Len(buf) + n) \in 1 .. Len(left)
      BY <1>2, <2>0, <2>3
    <3>4. (i - (Len(buf) + n)) + n = i - Len(buf)
      BY <2>0
    <3>3. left[i - (Len(buf) + n)] = line[i - Len(buf)]
      BY <1>2, <3>2, <3>4
    <3> QED BY <2>0, <2>3, <3>1, <3>3
  <2> QED BY <2>0, <2>1, <2>2, <2>3
<1>11. Len(buf \o line) = Len(buf) + Len(line)
  OBVIOUS
<1>12. fed \o left \in Seq(Elems)
  BY <1>2, <1>3
<1>7. Rest(fed \o left, buf \o line)
  <2>1. Len(fed \o left) \in Nat /\ Len(buf) \in Nat /\ Len(line) \in Nat
    BY <1>12
  <2>2. ASSUME NEW i \in 1 .. Len(fed \o left)
        PROVE  (fed \o left)[i] = (buf \o line)[i + (Len(buf \o line) - Len(fed \o left))]
    <3>1. (fed \o left)[i] = all[i + (Len(all) - Len(fed \o left))]
      BY <1>4 DEF Rest
    <3>2. i + (Len(all) - Len(fed \o left)) \in 1 .. Len(buf) + Len(line)
      BY <1>4, <1>5, <2>1 DEF Rest
    <3> QED BY <1>5, <1>6, <1>11, <3>1, <3>2
  <2> QED BY <1>4, <1>5, <1>11, <2>2 DEF Rest
<1> QED BY <1>1, <1>2, <1>7 DEF chunk, left, fed
-----------------------------------------------------------------------------
(* UsbRecovery: what is on the line and what a step may do                 *)

\* The pieces of a request.
LEMMA SizeIs ==
    ASSUME NEW f \in U!Requests
    PROVE  /\ U!Size(f) \in {2, 3, 4} /\ U!Pieces(f) \in Seq(U!Parts) /\ Len(U!Pieces(f)) = U!Size(f)
           /\ \A k \in 1 .. U!Size(f) : U!Pieces(f)[k] = <<f, k>>
<1>1. U!Size(f) \in {2, 3, 4}
  BY DEF U!Size, U!Requests
<1>2. \A k \in 1 .. U!Size(f) : <<f, k>> \in U!Parts
  BY <1>1 DEF U!Parts
<1> QED BY <1>1, <1>2 DEF U!Pieces

\* The pieces of an answer.
LEMMA ReplyIs ==
    ASSUME NEW a \in U!Answers
    PROVE  /\ U!Size(a) = 2 /\ U!Pieces(a) \in Seq(U!Replies) /\ Len(U!Pieces(a)) = 2
           /\ \A k \in 1 .. 2 : U!Pieces(a)[k] = <<a, k>>
<1>1. U!Size(a) = 2
  BY DEF U!Size, U!Answers
<1>2. \A k \in 1 .. 2 : <<a, k>> \in U!Replies
  BY DEF U!Replies
<1> QED BY <1>1, <1>2 DEF U!Pieces

\* What a run of the tool knows at each of its stages.
LEMMA ToolIs ==
    ASSUME NEW q \in U!Tools
    PROVE  /\ q.kind \in ToolKinds /\ q.seq \in 0 .. Seqs - 1 /\ q.at \in {"new", "send", "wait", "ended"}
           /\ q.at \in {"send", "wait"} =>
                q.cmd \in U!Commands /\ q.ext \in BOOLEAN /\ q.tries \in 1 .. 3 /\ q.busy \in 0 .. 2
           /\ q.at = "wait" => q.sent \in 0 .. Seqs - 1
BY DEF U!Tools, U!Unstarted, U!Sending, U!Waiting, U!Ended

\* The types, variable by variable.
LEMMA TypedIs ==
    ASSUME s1' \in [Runs -> U!Tools], s2' \in Runs \cup {"none"}, s7' \in U!Jobs,
           Len(s6') <= U!Capacity, Len(s3') <= U!Capacity,
           s6' \in Seq(U!Parts), s4' \in Seq(U!Parts), s3' \in Seq(U!Replies), s5' \in Seq(U!Replies),
           s6' # <<>> => s6'[1][2] = 1, s8' \in Nat, s9' \in Nat,
           s10' \in [Runs -> [times : 0 .. MaxSends, up : BOOLEAN]]
    PROVE  U!Typed'
<1>1. \A r \in Runs : s1'[r].at \in {"new", "send", "wait", "ended"}
  BY ToolIs
<1>2. s7'.state \in {"idle", "pending", "started", "failed"}
      /\ s7'.worker \in {"waits", "told", "saved", "connected"}
  BY DEF U!Jobs
<1> QED BY <1>1, <1>2 DEF U!Typed, U!TypeOK

\* What is on its way to be handled.
LEMMA LineTyped ==
    ASSUME U!Typed
    PROVE  /\ U!Line \in Seq(U!Parts) /\ DOMAIN U!Line = 1 .. Len(U!Line)
           /\ s6 # <<>> => U!Line # <<>> /\ U!Line[1] = s6[1] /\ s6[1] \in U!Parts
BY DEF U!Typed, U!Line

\* What comes off the line brings nothing new.
LEMMA LineShrinks ==
    ASSUME U!Typed, U!Typed', U!Single, Rest(U!Line', U!Line)
    PROVE  U!Single' /\ \A r \in Runs : U!Ahead(r)' => U!Ahead(r)
<1> DEFINE d == Len(U!Line) - Len(U!Line')
<1>1. /\ U!Line \in Seq(U!Parts) /\ DOMAIN U!Line = 1 .. Len(U!Line)
      /\ U!Line' \in Seq(U!Parts) /\ DOMAIN U!Line' = 1 .. Len(U!Line')
  BY LineTyped DEF U!Typed, U!Line
<1>2. ASSUME NEW i \in DOMAIN U!Line' PROVE i + d \in DOMAIN U!Line /\ U!Line'[i] = U!Line[i + d]
  BY <1>1 DEF Rest
<1>3. d \in Int /\ \A i \in DOMAIN U!Line' : i \in Int
  BY <1>1
<1> HIDE DEF d
<1>4. ASSUME NEW r \in Runs, NEW i \in DOMAIN U!Line', NEW j \in DOMAIN U!Line',
             U!Storing(U!Line'[i], r), U!Storing(U!Line'[j], r)
      PROVE  i = j
  <2>1. i + d = j + d
    BY <1>2, <1>4 DEF U!Single
  <2>2. i \in Int /\ j \in Int
    BY <1>3
  <2> QED BY <1>3, <2>1, <2>2
<1>5. ASSUME NEW r \in Runs, NEW i \in DOMAIN U!Line', U!Storing(U!Line'[i], r) PROVE U!Ahead(r)
  BY <1>2, <1>5 DEF U!Ahead
<1> QED BY <1>4, <1>5 DEF U!Single, U!Ahead

\* If nothing comes back, what a run is told stays true.
LEMMA OverStays ==
    ASSUME NEW r \in Runs, U!Over(r), U!Unsent(r)' => U!Unsent(r), U!Ahead(r)' => U!Ahead(r) \/ U!Unsent(r),
           ~(s7'.of = r /\ s7'.worker # "waits")
    PROVE  U!Over(r)'
BY DEF U!Over

\* What a step must do to keep the invariant: no run is ready to write again
\* what it wrote; what is told was told already, or is true and over.
LEMMA UsbMoves ==
    ASSUME U!IInv, U!Typed', U!Single', U!JobTrue', U!StoredOnce',
           \A r \in Runs : /\ U!Unsent(r)' => U!Unsent(r) /\ ~U!Ahead(r)'
                           /\ U!Ahead(r)' => U!Ahead(r) \/ U!Unsent(r)
                           /\ U!Unsent(r)' \/ U!Ahead(r)' => s7'.of # r /\ s10'[r] = s10[r]
                           /\ U!Over(r) => /\ ~(s7'.of = r /\ s7'.worker # "waits")
                                         /\ s10'[r].up = s10[r].up
                           /\ U!Asking(s1'[r]) /\ U!Reported(s1'[r], r),
           \A a \in U!OnTheWay' \ U!OnTheWay : U!Outcome(a) => U!Settled(a)
    PROVE  U!IInv'
<1>1. \A r \in Runs : U!Over(r) => U!Over(r)' /\ s10'[r].up = s10[r].up
  BY OverStays
<1>2. U!SentOnce'
  <2>1. \A r \in Runs : U!Unsent(r)' => ~U!Ahead(r)'
    OBVIOUS
  <2>2. \A r \in Runs : U!Unsent(r)' \/ U!Ahead(r)' => U!Untouched(r)'
    BY DEF U!IInv, U!SentOnce, U!Untouched
  <2> QED BY <2>1, <2>2 DEF U!SentOnce
<1>3. U!AnswersTrue'
  <2> SUFFICES ASSUME NEW a \in U!OnTheWay', U!Outcome(a) PROVE U!Settled(a)'
    BY DEF U!AnswersTrue
  <2>1. U!Settled(a)
    BY DEF U!IInv, U!AnswersTrue
  <2> QED BY <1>1, <2>1 DEF U!Settled
<1>4. U!ToolTrue'
  <2> SUFFICES ASSUME NEW r \in Runs PROVE U!Asking(s1'[r]) /\ U!Reported(s1[r], r)'
    BY DEF U!ToolTrue
  <2>1. U!Asking(s1'[r]) /\ U!Reported(s1'[r], r)
    OBVIOUS
  <2> QED BY <1>1, <2>1 DEF U!Reported
<1> QED BY <1>2, <1>3, <1>4 DEF U!IInv
-----------------------------------------------------------------------------
(* The U!device *)

\* A step of the device writes no request, and no run changes by it.
LEMMA DeviceMoves ==
    ASSUME U!IInv, U!Typed', U!JobTrue', U!StoredOnce', s1' = s1, Rest(U!Line', U!Line),
           \A r \in Runs : /\ U!Ahead(r)' \/ U!Unsent(r) => s7'.of # r /\ s10'[r] = s10[r]
                           /\ U!Over(r) => /\ ~(s7'.of = r /\ s7'.worker # "waits")
                                         /\ s10'[r].up = s10[r].up,
           \A a \in U!OnTheWay' \ U!OnTheWay : U!Outcome(a) => U!Settled(a)
    PROVE  U!IInv'
<1>1. U!Single' /\ \A r \in Runs : U!Ahead(r)' => U!Ahead(r)
  BY LineShrinks DEF U!IInv, U!SentOnce
<1>2. \A r \in Runs : U!Unsent(r)' <=> U!Unsent(r)
  BY DEF U!Unsent
<1>3. \A r \in Runs : U!Unsent(r) => ~U!Ahead(r)
  BY DEF U!IInv, U!SentOnce
<1>4. \A r \in Runs : U!Asking(s1'[r]) /\ U!Reported(s1'[r], r)
  BY DEF U!IInv, U!ToolTrue
<1> QED BY <1>1, <1>2, <1>3, <1>4, UsbMoves

\* write_frame puts at most one answer on the line.
LEMMA WriteIs ==
    ASSUME U!Typed, s3' = s3, NEW f \in U!Requests,
           NEW status \in {"ok", "busy", "internal", "no-mem", "not-found"}, U!Write(f, status)
    PROVE  /\ s5' \in Seq(U!Replies) /\ U!OnTheWay' \subseteq U!OnTheWay \cup {U!Answer(f, status)}
           /\ U!Answer(f, status) \in U!Answers
<1> DEFINE a == U!Answer(f, status)
<1>1. a \in U!Answers
  BY DEF U!Typed, U!Answer, U!Answers, U!Requests, U!Jobs, U!Commands
<1>2. U!Pieces(a) \in Seq(U!Replies) /\ Len(U!Pieces(a)) = 2 /\ \A k \in 1 .. 2 : U!Pieces(a)[k] = <<a, k>>
  BY <1>1, ReplyIs
<1>3. PICK k \in {0, 1, 2} : s5' = s5 \o SubSeq(U!Pieces(a), 1, k)
  BY DEF U!Write
<1> DEFINE x == SubSeq(U!Pieces(a), 1, k)
<1> HIDE DEF a
<1>4. x \in Seq(U!Replies) /\ \A i \in DOMAIN x : x[i][1] = a
  BY <1>2
<1>5. s5 \in Seq(U!Replies) /\ s5' = s5 \o x
  BY <1>3 DEF U!Typed
<1> HIDE DEF x
<1>6. s5' \in Seq(U!Replies) /\ Len(s5') = Len(s5) + Len(x)
  BY <1>4, <1>5
<1>7. ASSUME NEW i \in DOMAIN s5' PROVE s5'[i][1] \in U!OnTheWay \cup {a}
  <2>1. CASE i <= Len(s5)
    <3>1. i \in DOMAIN s5 /\ s5'[i] = s5[i]
      BY <1>4, <1>5, <1>6, <2>1
    <3> QED BY <3>1 DEF U!OnTheWay
  <2>2. CASE i > Len(s5)
    <3>1. i - Len(s5) \in DOMAIN x /\ s5'[i] = x[i - Len(s5)]
      BY <1>4, <1>5, <1>6, <2>2
    <3> QED BY <1>4, <3>1
  <2>3. i \in Int /\ Len(s5) \in Int
    BY <1>5, <1>6
  <2> QED BY <2>1, <2>2, <2>3
<1>8. U!OnTheWay' \subseteq U!OnTheWay \cup {a}
  BY <1>7 DEF U!OnTheWay
<1> QED BY <1>1, <1>6, <1>8 DEF a

\* A frame that is handled is taken off the line, whole.
LEMMA HandleLine ==
    ASSUME U!IInv, U!Complete(s6), s6' = U!Resync(U!Beyond(s6)), s4' = s4
    PROVE  /\ s6' \in Seq(U!Parts) /\ Len(s6') <= U!Capacity
           /\ s6' # <<>> => s6'[1][2] = 1
           /\ Rest(U!Line', U!Line) /\ Len(U!Line') < Len(U!Line)
           /\ s6[1][1] \in U!Requests /\ U!Line # <<>> /\ U!Line[1] = s6[1] /\ s6[1][2] = 1
<1>1. s6 \in Seq(U!Parts) /\ s4 \in Seq(U!Parts) /\ s6 # <<>> /\ Len(s6) <= U!Capacity
  BY DEF U!IInv, U!Typed, U!TypeOK, U!Complete
<1>2. s6[1] \in U!Parts /\ s6[1][1] \in U!Requests /\ s6[1][2] = 1
  <2>1. s6[1] \in U!Parts
    BY <1>1
  <2> QED BY <1>1, <2>1 DEF U!IInv, U!Typed, U!Parts
<1> DEFINE n == U!Size(s6[1][1])
           rest == U!Beyond(s6)
<1>3. n \in {2, 3, 4} /\ Len(s6) >= n
  BY <1>2, SizeIs DEF U!Complete
<1>4. rest = SubSeq(s6, n + 1, Len(s6))
  BY DEF U!Beyond
<1> HIDE DEF n, rest
<1>5. n + 1 \in 1 .. Len(s6) + 1
  BY <1>1, <1>3
<1>6. rest \in Seq(U!Parts) /\ Len(rest) = Len(s6) - n /\ Rest(rest, s6)
  <2>1. /\ SubSeq(s6, n + 1, Len(s6)) \in Seq(U!Parts)
        /\ Len(SubSeq(s6, n + 1, Len(s6))) = Len(s6) - (n + 1) + 1
        /\ Rest(SubSeq(s6, n + 1, Len(s6)), s6)
    BY <1>1, <1>5, RestIs
  <2>2. Len(s6) - (n + 1) + 1 = Len(s6) - n
    BY <1>1, <1>3
  <2> QED BY <1>4, <2>1, <2>2
<1>7. /\ s6' \in Seq(U!Parts) /\ Rest(s6', rest)
      /\ s6' # <<>> => s6'[1][2] = 1
  BY <1>6, ResyncRest DEF rest
<1>8. Rest(s6', s6)
  BY <1>1, <1>6, <1>7, RestTwice
<1>9. Rest(U!Line', U!Line)
  BY <1>1, <1>7, <1>8, RestMore DEF U!Line
<1>10. Len(s6') <= U!Capacity /\ Len(s6') < Len(s6)
  <2>1. Len(s6') <= Len(rest)
    BY <1>7 DEF Rest
  <2> QED BY <1>1, <1>3, <1>6, <1>7, <2>1 DEF U!Capacity
<1>11. Len(U!Line') < Len(U!Line)
  BY <1>1, <1>7, <1>10 DEF U!Line
<1> QED BY <1>1, <1>2, <1>7, <1>9, <1>10, <1>11, LineTyped DEF U!IInv

\* The request that is handled was the only one of its run.
LEMMA HandledLast ==
    ASSUME U!IInv, U!Complete(s6), s6' = U!Resync(U!Beyond(s6)), s4' = s4,
           U!Provisions(s6[1][1].cmd), NEW r \in Runs, r = s6[1][1].of
    PROVE  U!Ahead(r) /\ ~U!Ahead(r)' /\ ~U!Unsent(r) /\ U!Untouched(r) /\ ~U!Over(r)
<1>1. /\ s6' \in Seq(U!Parts) /\ Rest(U!Line', U!Line) /\ Len(U!Line') < Len(U!Line)
      /\ s6[1][1] \in U!Requests /\ U!Line # <<>> /\ U!Line[1] = s6[1] /\ s6[1][2] = 1
  BY HandleLine
<1>2. /\ U!Line \in Seq(U!Parts) /\ DOMAIN U!Line = 1 .. Len(U!Line)
      /\ U!Line' \in Seq(U!Parts) /\ DOMAIN U!Line' = 1 .. Len(U!Line')
  BY <1>1, LineTyped DEF U!IInv, U!Typed, U!Line
<1>3. 1 \in DOMAIN U!Line /\ U!Storing(U!Line[1], r)
  BY <1>1, <1>2 DEF U!Requests, U!Storing
<1>4. ASSUME NEW i \in DOMAIN U!Line', U!Storing(U!Line'[i], r) PROVE FALSE
  <2>1. i + (Len(U!Line) - Len(U!Line')) \in DOMAIN U!Line /\ U!Line'[i] = U!Line[i + (Len(U!Line) - Len(U!Line'))]
    BY <1>1, <1>2 DEF Rest
  <2>2. i + (Len(U!Line) - Len(U!Line')) = 1
    BY <1>3, <1>4, <2>1 DEF U!IInv, U!SentOnce, U!Single
  <2>3. i \in 1 .. Len(U!Line') /\ Len(U!Line) \in Nat /\ Len(U!Line') \in Nat
    BY <1>2
  <2> QED BY <1>1, <2>2, <2>3
<1>5. ~U!Ahead(r)'
  BY <1>4 DEF U!Ahead
<1>6. U!Ahead(r)
  BY <1>3 DEF U!Ahead
<1>7. ~U!Unsent(r) /\ U!Untouched(r) /\ ~U!Over(r)
  BY <1>3, <1>6 DEF U!IInv, U!SentOnce, U!Over
<1> QED BY <1>5, <1>6, <1>7

\* read: a chunk of what has come.
LEMMA UsbRead == ASSUME U!UsbAssumption, U!IInv, U!Read PROVE U!IInv'
<1>1. PICK n \in 1 .. Len(s4) :
        s6' = U!Fed(s6, SubSeq(s4, 1, n)) /\ s4' = SubSeq(s4, n + 1, Len(s4))
  BY DEF U!Read
<1>2. s6 \in Seq(U!Parts) /\ s4 \in Seq(U!Parts)
  BY DEF U!IInv, U!Typed
<1>3. SubSeq(s4, 1, n) \in Seq(U!Parts) /\ s4' \in Seq(U!Parts) /\ Rest(U!Line', U!Line)
  BY <1>1, <1>2, FedLine DEF U!Line
<1>4. /\ s6' \in Seq(U!Parts) /\ Len(s6') <= U!Capacity
      /\ s6' # <<>> => s6'[1][2] = 1
  BY <1>1, <1>2, <1>3, FedRest
<1>5. UNCHANGED <<s1, s2, s3, s5, s7, s8, s9, s10>>
  BY DEF U!Read
<1>6. U!Typed'
  BY <1>3, <1>4, <1>5, TypedIs DEF U!IInv, U!Typed, U!TypeOK
<1>7. U!JobTrue' /\ U!StoredOnce' /\ U!OnTheWay' = U!OnTheWay
  BY <1>5 DEF U!IInv, U!JobTrue, U!StoredOnce, U!OnTheWay
<1>8. \A r \in Runs : U!Ahead(r)' => U!Ahead(r)
  BY <1>3, <1>6, LineShrinks DEF U!IInv, U!SentOnce
<1>9. \A r \in Runs : /\ U!Ahead(r)' \/ U!Unsent(r) => s7'.of # r /\ s10'[r] = s10[r]
                      /\ U!Over(r) => ~(s7'.of = r /\ s7'.worker # "waits") /\ s10'[r].up = s10[r].up
  BY <1>5, <1>8 DEF U!IInv, U!SentOnce, U!Untouched, U!Over
<1> QED BY <1>3, <1>5, <1>6, <1>7, <1>9, DeviceMoves

\* reset_if_idle
LEMMA UsbForget == ASSUME U!UsbAssumption, U!IInv, U!ForgetRest PROVE U!IInv'
<1>1. UNCHANGED <<s1, s2, s3, s4, s5, s7, s8, s9, s10>> /\ s6' = <<>> /\ s4 = <<>>
  BY DEF U!ForgetRest
<1>2. Rest(U!Line', U!Line)
  BY <1>1 DEF U!Line, Rest, U!IInv, U!Typed
<1>3. U!Typed'
  BY <1>1, TypedIs DEF U!IInv, U!Typed, U!TypeOK, U!Capacity
<1>4. U!JobTrue' /\ U!StoredOnce' /\ U!OnTheWay' = U!OnTheWay
  BY <1>1 DEF U!IInv, U!JobTrue, U!StoredOnce, U!OnTheWay
<1>5. \A r \in Runs : U!Ahead(r)' => U!Ahead(r)
  BY <1>2, <1>3, LineShrinks DEF U!IInv, U!SentOnce
<1>6. \A r \in Runs : /\ U!Ahead(r)' \/ U!Unsent(r) => s7'.of # r /\ s10'[r] = s10[r]
                      /\ U!Over(r) => ~(s7'.of = r /\ s7'.worker # "waits") /\ s10'[r].up = s10[r].up
  BY <1>1, <1>5 DEF U!IInv, U!SentOnce, U!Untouched, U!Over
<1> QED BY <1>1, <1>2, <1>3, <1>4, <1>6, DeviceMoves

\* A reset.
LEMMA UsbReset == ASSUME U!UsbAssumption, U!IInv, U!Reset PROVE U!IInv'
<1>1. UNCHANGED <<s1, s2, s3, s8, s10>> /\ s6' = <<>> /\ s7' = U!Idle
      /\ s9' = s9 + 1 /\ s5' \in {s5, <<>>}
  BY DEF U!Reset
<1>2. PICK n \in 0 .. Len(s4) : s4' = SubSeq(s4, n + 1, Len(s4))
  BY DEF U!Reset
<1>3. s6 \in Seq(U!Parts) /\ s4 \in Seq(U!Parts) /\ s5 \in Seq(U!Replies)
  BY DEF U!IInv, U!Typed
<1>4. s4' \in Seq(U!Parts) /\ Rest(s4', s4)
  <2>1. n + 1 \in 1 .. Len(s4) + 1
    BY <1>3
  <2> QED BY <1>2, <1>3, <2>1, RestIs
<1>5. Rest(U!Line', U!Line)
  <2>1. Rest(<<>> \o s4, s6 \o s4)
    <3>1. Rest(<<>>, s6) /\ <<>> \in Seq(U!Parts)
      BY <1>3 DEF Rest
    <3> QED BY <1>3, <3>1, RestMore
  <2>2. Rest(<<>> \o s4', <<>> \o s4)
    <3>1. <<>> \o s4' = s4' /\ <<>> \o s4 = s4
      BY <1>3, <1>4
    <3> QED BY <1>4, <3>1
  <2>3. /\ <<>> \o s4 \in Seq(U!Parts) /\ s6 \o s4 \in Seq(U!Parts) /\ <<>> \o s4' \in Seq(U!Parts)
    BY <1>3, <1>4
  <2>4. Rest(<<>> \o s4', s6 \o s4)
    BY <2>1, <2>2, <2>3, RestTwice
  <2> QED BY <1>1, <2>4 DEF U!Line
<1>6. U!Typed'
  <2>2. s7' \in U!Jobs
    BY <1>1 DEF U!Idle, U!Jobs
  <2>3. <<>> \in Seq(U!Replies)
    OBVIOUS
  <2>4. s5' \in Seq(U!Replies)
    BY <1>1, <1>3, <2>3
  <2>1. s7' \in U!Jobs /\ s5' \in Seq(U!Replies)
    BY <2>2, <2>4
  <2> QED BY <1>1, <1>4, <2>1, TypedIs DEF U!IInv, U!Typed, U!TypeOK, U!Capacity
<1>7. U!JobTrue'
  BY <1>1 DEF U!JobTrue, U!Idle, U!UsbAssumption
<1>8. U!StoredOnce' /\ U!OnTheWay' \subseteq U!OnTheWay
  BY <1>1 DEF U!IInv, U!StoredOnce, U!OnTheWay
<1>9. \A r \in Runs : s7'.of # r /\ s7'.worker = "waits"
  BY <1>1 DEF U!Idle, U!UsbAssumption
<1> QED BY <1>1, <1>5, <1>6, <1>7, <1>8, <1>9, DeviceMoves

\* provision_wifi_async gives the worker another request only while it has none.
LEMMA AsyncIs ==
    ASSUME U!IInv, NEW r \in Runs, NEW o \in U!Async(r)
    PROVE  /\ o[1] \in {"ok", "busy", "internal", "no-mem", "not-found"}
           /\ \/ o[2] = s7
              \/ s7.worker = "waits" /\ o[2] = [state |-> "pending", of |-> r, worker |-> "told"]
BY DEF U!Async, U!IInv, U!JobTrue

\* provision_wifi_async: only a job that is over gives way to another.
LEMMA UsbAsync ==
    ASSUME U!UsbAssumption, U!IInv, U!Complete(s6), s6' = U!Resync(U!Beyond(s6)),
           UNCHANGED <<s1, s2, s3, s4, s8, s9, s10>>,
           NEW f, f = s6[1][1], f.cmd = "async",
           NEW o \in U!Async(f.of), s7' = o[2], U!Write(f, o[1])
    PROVE  U!IInv'
<1> DEFINE r == f.of
<1>1. /\ s6' \in Seq(U!Parts) /\ Len(s6') <= U!Capacity /\ Rest(U!Line', U!Line)
      /\ s6' # <<>> => s6'[1][2] = 1
      /\ f \in U!Requests
  BY HandleLine
<1>2. r \in Runs
  BY <1>1 DEF U!Requests
<1>3. U!Ahead(r) /\ ~U!Ahead(r)' /\ ~U!Unsent(r) /\ U!Untouched(r) /\ ~U!Over(r)
  BY <1>2, HandledLast DEF U!Provisions
<1>4. /\ o[1] \in {"ok", "busy", "internal", "no-mem", "not-found"}
      /\ \/ s7' = s7
         \/ s7.worker = "waits" /\ s7' = [state |-> "pending", of |-> r, worker |-> "told"]
  BY <1>2, AsyncIs
<1>5. s5' \in Seq(U!Replies) /\ U!OnTheWay' \subseteq U!OnTheWay \cup {U!Answer(f, o[1])}
  BY <1>1, <1>4, WriteIs DEF U!IInv
<1>6. \A a \in U!OnTheWay' \ U!OnTheWay : ~U!Outcome(a)
  BY <1>5 DEF U!Answer, U!Outcome
<1> HIDE DEF r
<1>7. s7' \in U!Jobs
  BY <1>2, <1>4 DEF U!IInv, U!Typed, U!Jobs
<1>8. U!Typed'
  BY <1>1, <1>5, <1>7, TypedIs DEF U!IInv, U!Typed, U!TypeOK
<1>9. U!JobTrue'
  BY <1>2, <1>3, <1>4 DEF U!IInv, U!JobTrue, U!Untouched, U!UsbAssumption
<1>10. U!StoredOnce'
  BY DEF U!IInv, U!StoredOnce
<1>11. \A t \in Runs : U!Ahead(t)' => U!Ahead(t)
  BY <1>1, <1>8, LineShrinks DEF U!IInv, U!SentOnce
<1>12. \A t \in Runs : /\ U!Ahead(t)' \/ U!Unsent(t) => s7'.of # t /\ s10'[t] = s10[t]
                       /\ U!Over(t) => ~(s7'.of = t /\ s7'.worker # "waits") /\ s10'[t].up = s10[t].up
  <2> TAKE t \in Runs
  <2>1. CASE t = r
    BY <1>3, <2>1
  <2>2. CASE t # r
    BY <1>4, <1>11, <2>2 DEF U!IInv, U!SentOnce, U!Untouched, U!Over
  <2> QED BY <2>1, <2>2
<1> QED BY <1>1, <1>6, <1>8, <1>9, <1>10, <1>12, DeviceMoves

\* provision_wifi_legacy: the network is stored before the answer.
LEMMA UsbLegacy ==
    ASSUME U!UsbAssumption, U!IInv, U!Complete(s6), s6' = U!Resync(U!Beyond(s6)),
           UNCHANGED <<s1, s2, s3, s4, s8, s9, s7>>,
           NEW f, f = s6[1][1], f.cmd = "legacy", U!Legacy(f)
    PROVE  U!IInv'
<1> DEFINE r == f.of
<1>1. /\ s6' \in Seq(U!Parts) /\ Len(s6') <= U!Capacity /\ Rest(U!Line', U!Line)
      /\ s6' # <<>> => s6'[1][2] = 1
      /\ f \in U!Requests
  BY HandleLine
<1>2. r \in Runs
  BY <1>1 DEF U!Requests
<1>3. U!Ahead(r) /\ ~U!Ahead(r)' /\ ~U!Unsent(r) /\ U!Untouched(r) /\ ~U!Over(r)
  BY <1>2, HandledLast DEF U!Provisions
<1>4. \E status \in {"ok", "busy", "internal", "no-mem", "not-found"} : U!Write(f, status)
  BY DEF U!Legacy
<1>5. /\ s5' \in Seq(U!Replies)
      /\ \E status : U!OnTheWay' \subseteq U!OnTheWay \cup {U!Answer(f, status)}
  BY <1>1, <1>4, WriteIs DEF U!IInv
<1>6. \A a \in U!OnTheWay' \ U!OnTheWay : ~U!Outcome(a)
  BY <1>5 DEF U!Answer, U!Outcome
<1>7. s10 \in [Runs -> [times : 0 .. MaxSends, up : BOOLEAN]]
  BY DEF U!IInv, U!Typed, U!TypeOK
<1>8. \/ s10' = s10
      \/ \E ok \in BOOLEAN : s10' = [s10 EXCEPT ![r] = [times |-> 1, up |-> ok]]
  <2>1. s10[f.of].times + 1 = 1
    BY <1>3 DEF U!Untouched
  <2> QED BY <2>1 DEF U!Legacy
<1> HIDE DEF r
<1>9. 1 \in 0 .. MaxSends
  BY DEF U!UsbAssumption
<1>10. /\ s10' \in [Runs -> [times : 0 .. MaxSends, up : BOOLEAN]]
       /\ \A t \in Runs \ {r} : s10'[t] = s10[t]
       /\ s10'[r].times <= 1
  BY <1>2, <1>3, <1>7, <1>8, <1>9 DEF U!Untouched
<1>11. U!Typed'
  BY <1>1, <1>5, <1>10, TypedIs DEF U!IInv, U!Typed, U!TypeOK
<1>12. U!JobTrue'
  BY <1>2, <1>3, <1>10 DEF U!IInv, U!JobTrue, U!Untouched
<1>13. U!StoredOnce'
  BY <1>10 DEF U!IInv, U!StoredOnce
<1>14. \A t \in Runs : U!Ahead(t)' => U!Ahead(t)
  BY <1>1, <1>11, LineShrinks DEF U!IInv, U!SentOnce
<1>15. \A t \in Runs : /\ U!Ahead(t)' \/ U!Unsent(t) => s7'.of # t /\ s10'[t] = s10[t]
                       /\ U!Over(t) => ~(s7'.of = t /\ s7'.worker # "waits") /\ s10'[t].up = s10[t].up
  <2> TAKE t \in Runs
  <2>1. CASE t = r
    BY <1>3, <2>1
  <2>2. CASE t # r
    BY <1>10, <1>14, <2>2 DEF U!IInv, U!SentOnce, U!Untouched, U!Over
  <2> QED BY <2>1, <2>2
<1> QED BY <1>1, <1>6, <1>11, <1>12, <1>13, <1>15, DeviceMoves

\* The answers that change nothing: the outcome of a job that is told is final.
LEMMA UsbReplies ==
    ASSUME U!UsbAssumption, U!IInv, U!Complete(s6), s6' = U!Resync(U!Beyond(s6)),
           UNCHANGED <<s1, s2, s3, s4, s8, s9, s7, s10>>,
           NEW f, f = s6[1][1],
           NEW status \in {"ok", "busy", "internal", "no-mem", "not-found"}, U!Write(f, status),
           f.cmd = "status" => status = U!StatusOf(f.of)
    PROVE  U!IInv'
<1>1. /\ s6' \in Seq(U!Parts) /\ Len(s6') <= U!Capacity /\ Rest(U!Line', U!Line)
      /\ s6' # <<>> => s6'[1][2] = 1
      /\ f \in U!Requests
  BY HandleLine
<1>2. s5' \in Seq(U!Replies) /\ U!OnTheWay' \subseteq U!OnTheWay \cup {U!Answer(f, status)}
  BY <1>1, WriteIs DEF U!IInv
<1>3. U!Typed'
  BY <1>1, <1>2, TypedIs DEF U!IInv, U!Typed, U!TypeOK
<1>4. U!JobTrue' /\ U!StoredOnce'
  BY DEF U!IInv, U!JobTrue, U!StoredOnce
<1>5. ASSUME U!Outcome(U!Answer(f, status)) PROVE U!Settled(U!Answer(f, status))
  <2>1. f.cmd = "status" /\ status = "ok" /\ s7.state \in {"started", "failed"}
    BY <1>5 DEF U!Outcome, U!Answer
  <2>2. f.of \in Runs /\ s7.of = f.of
    BY <1>1, <2>1 DEF U!StatusOf, U!Requests
  <2>3. U!Over(f.of) /\ s10[f.of].up = (s7.state = "started")
    <3>1. s7.worker = "waits" /\ ~U!Unsent(f.of) /\ ~U!Ahead(f.of)
      BY <2>1, <2>2 DEF U!IInv, U!JobTrue, U!SentOnce, U!Untouched
    <3>2. s10[f.of].up \in BOOLEAN
      BY <2>2 DEF U!IInv, U!Typed, U!TypeOK
    <3> QED BY <2>1, <2>2, <3>1, <3>2 DEF U!IInv, U!JobTrue, U!Over
  <2> QED BY <2>1, <2>2, <2>3 DEF U!Settled, U!Answer
<1>6. \A t \in Runs : U!Ahead(t)' => U!Ahead(t)
  BY <1>1, <1>3, LineShrinks DEF U!IInv, U!SentOnce
<1>7. \A t \in Runs : /\ U!Ahead(t)' \/ U!Unsent(t) => s7'.of # t /\ s10'[t] = s10[t]
                      /\ U!Over(t) => ~(s7'.of = t /\ s7'.worker # "waits") /\ s10'[t].up = s10[t].up
  BY <1>6 DEF U!IInv, U!SentOnce, U!Untouched, U!Over
<1> QED BY <1>1, <1>2, <1>3, <1>4, <1>5, <1>7, DeviceMoves

\* handle_frame
LEMMA UsbHandle == ASSUME U!UsbAssumption, U!IInv, U!Handle PROVE U!IInv'
<1> DEFINE f == s6[1][1]
<1>1. /\ U!Complete(s6) /\ s6' = U!Resync(U!Beyond(s6))
      /\ UNCHANGED <<s1, s2, s3, s4, s8, s9>>
  BY DEF U!Handle
<1>2. CASE f.cmd = "async" /\ (\E o \in U!Async(f.of) : s7' = o[2] /\ U!Write(f, o[1])) /\ UNCHANGED s10
  BY <1>1, <1>2, UsbAsync
<1>3. CASE f.cmd = "legacy" /\ U!Legacy(f) /\ UNCHANGED s7
  BY <1>1, <1>3, UsbLegacy
<1>4. CASE f.cmd = "status" /\ U!Write(f, U!StatusOf(f.of)) /\ UNCHANGED <<s7, s10>>
  <2>1. U!StatusOf(f.of) \in {"ok", "busy", "internal", "no-mem", "not-found"}
    BY DEF U!StatusOf
  <2> QED BY <1>1, <1>4, <2>1, UsbReplies
<1>5. CASE f.cmd \in {"state", "ota"} /\ U!Write(f, "ok") /\ UNCHANGED <<s7, s10>>
  BY <1>1, <1>5, UsbReplies
<1>6. CASE f.cmd \in {"query", "recover"} /\ (\E s \in {"ok", "busy"} : U!Write(f, s)) /\ UNCHANGED <<s7, s10>>
  BY <1>1, <1>6, UsbReplies
<1> QED BY <1>2, <1>3, <1>4, <1>5, <1>6 DEF U!Handle

\* A step of the worker is about its own request only.
LEMMA WorkerMoves ==
    ASSUME U!UsbAssumption, U!IInv, U!JobTrue', s7.worker # "waits", s7' \in U!Jobs, s7'.of = s7.of,
           s10' \in [Runs -> [times : 0 .. MaxSends, up : BOOLEAN]],
           \A t \in Runs \ {s7.of} : s10'[t] = s10[t],
           s10'[s7.of].times <= 1,
           UNCHANGED <<s1, s2, s3, s4, s5, s6, s8, s9>>
    PROVE  U!IInv'
<1>1. U!Typed'
  BY TypedIs DEF U!IInv, U!Typed, U!TypeOK
<1>2. U!StoredOnce'
  BY DEF U!IInv, U!StoredOnce
<1>3. U!Line' = U!Line /\ U!OnTheWay' = U!OnTheWay
  BY DEF U!Line, U!OnTheWay
<1>4. Rest(U!Line', U!Line)
  BY <1>3 DEF Rest, U!IInv, U!Typed, U!Line
<1>5. \A t \in Runs : U!Ahead(t)' <=> U!Ahead(t)
  BY <1>3 DEF U!Ahead
<1>6. \A t \in Runs : /\ U!Ahead(t)' \/ U!Unsent(t) => s7'.of # t /\ s10'[t] = s10[t]
                      /\ U!Over(t) => ~(s7'.of = t /\ s7'.worker # "waits") /\ s10'[t].up = s10[t].up
  BY <1>5 DEF U!IInv, U!SentOnce, U!Untouched, U!Over
<1> QED BY <1>1, <1>2, <1>3, <1>4, <1>6, DeviceMoves

\* usb_wifi_provision_task stores the network.
LEMMA UsbSave == ASSUME U!UsbAssumption, U!IInv, U!Save PROVE U!IInv'
<1>1. /\ s7.worker = "told" /\ s7 \in U!Jobs
      /\ s10 \in [Runs -> [times : 0 .. MaxSends, up : BOOLEAN]]
      /\ UNCHANGED <<s1, s2, s3, s4, s5, s6, s8, s9>>
  BY DEF U!Save, U!IInv, U!Typed, U!TypeOK
<1>2. /\ s7.state = "pending" /\ s7.of \in Runs /\ s10[s7.of] = [times |-> 0, up |-> FALSE]
  BY <1>1 DEF U!IInv, U!JobTrue, U!Jobs
<1>3. 1 \in 0 .. MaxSends
  BY DEF U!UsbAssumption
<1>4. CASE s7' = [s7 EXCEPT !.worker = "saved"] /\ s10' = [s10 EXCEPT ![s7.of].times = @ + 1]
  <2>1. s7' \in U!Jobs /\ s7'.of = s7.of /\ s7'.worker = "saved" /\ s7'.state = "pending"
    BY <1>1, <1>2, <1>4 DEF U!Jobs
  <2>2. /\ s10' \in [Runs -> [times : 0 .. MaxSends, up : BOOLEAN]]
        /\ \A t \in Runs \ {s7.of} : s10'[t] = s10[t]
        /\ s10'[s7.of].times = 1 /\ s10'[s7.of].up = FALSE
    BY <1>1, <1>2, <1>3, <1>4
  <2>3. /\ s10' \in [Runs -> [times : 0 .. MaxSends, up : BOOLEAN]]
        /\ \A t \in Runs \ {s7.of} : s10'[t] = s10[t]
        /\ s10'[s7.of] = [times |-> 1, up |-> FALSE]
    BY <1>2, <2>2
  <2>4. U!JobTrue'
    BY <1>2, <2>1, <2>3 DEF U!JobTrue, U!UsbAssumption
  <2> QED BY <1>1, <2>1, <2>3, <2>4, WorkerMoves
<1>5. CASE s7' = [s7 EXCEPT !.worker = "waits", !.state = "failed"] /\ UNCHANGED s10
  <2>1. s7' \in U!Jobs /\ s7'.of = s7.of /\ s7'.worker = "waits" /\ s7'.state = "failed"
    BY <1>1, <1>2, <1>5 DEF U!Jobs
  <2>2. U!JobTrue'
    BY <1>2, <1>5, <2>1 DEF U!JobTrue, U!UsbAssumption
  <2> QED BY <1>1, <1>2, <1>5, <2>1, <2>2, WorkerMoves
<1> QED BY <1>4, <1>5 DEF U!Save

\* It connects, and the outcome is published.
LEMMA UsbConnect == ASSUME U!UsbAssumption, U!IInv, U!Connect PROVE U!IInv'
<1>1. /\ s7.worker = "saved" /\ s7 \in U!Jobs
      /\ s10 \in [Runs -> [times : 0 .. MaxSends, up : BOOLEAN]]
      /\ UNCHANGED <<s1, s2, s3, s4, s5, s6, s8, s9>>
  BY DEF U!Connect, U!IInv, U!Typed, U!TypeOK
<1>2. /\ s7.state = "pending" /\ s7.of \in Runs /\ s10[s7.of] = [times |-> 1, up |-> FALSE]
  BY <1>1 DEF U!IInv, U!JobTrue, U!Jobs
<1>3. 1 \in 0 .. MaxSends
  BY DEF U!UsbAssumption
<1>4. CASE s7' = [s7 EXCEPT !.worker = "waits", !.state = "started"] /\ s10' = [s10 EXCEPT ![s7.of].up = TRUE]
  <2>1. s7' \in U!Jobs /\ s7'.of = s7.of /\ s7'.worker = "waits" /\ s7'.state = "started"
    BY <1>1, <1>2, <1>4 DEF U!Jobs
  <2>2. /\ s10' \in [Runs -> [times : 0 .. MaxSends, up : BOOLEAN]]
        /\ \A t \in Runs \ {s7.of} : s10'[t] = s10[t]
        /\ s10'[s7.of].times = 1 /\ s10'[s7.of].up
    <3>1. /\ s10' \in [Runs -> [times : 0 .. MaxSends, up : BOOLEAN]]
      BY <1>1, <1>2, <1>3, <1>4
    <3>2. \A t \in Runs \ {s7.of} : s10'[t] = s10[t]
      BY <1>1, <1>4
    <3>3. s10'[s7.of].times = 1
      BY <1>1, <1>2, <1>4
    <3>4. s10'[s7.of].up = TRUE
      BY <1>1, <1>2, <1>4
    <3> QED BY <3>1, <3>2, <3>3, <3>4
  <2>3. U!JobTrue'
    BY <1>2, <2>1, <2>2 DEF U!JobTrue, U!UsbAssumption
  <2> QED BY <1>1, <2>1, <2>2, <2>3, WorkerMoves
<1>5. CASE s7' = [s7 EXCEPT !.worker = "waits", !.state = "failed"] /\ UNCHANGED s10
  <2>1. s7' \in U!Jobs /\ s7'.of = s7.of /\ s7'.worker = "waits" /\ s7'.state = "failed"
    BY <1>1, <1>2, <1>5 DEF U!Jobs
  <2>2. U!JobTrue'
    BY <1>2, <1>5, <2>1 DEF U!JobTrue, U!UsbAssumption
  <2> QED BY <1>1, <1>2, <1>5, <2>1, <2>2, WorkerMoves
<1> QED BY <1>4, <1>5 DEF U!Connect

-----------------------------------------------------------------------------
(* UsbRecovery: the tool                                                   *)

\* What a step of the tool does with its run.
Moved(r) ==
    /\ s1' \in [Runs -> U!Tools] /\ \A t \in Runs \ {r} : s1'[t] = s1[t]
    /\ U!Asking(s1'[r]) /\ U!Reported(s1'[r], r)
    /\ s1'[r].at \in {"send", "wait"} => ~(s1'[r].at = "send" /\ U!Provisions(s1'[r].cmd))
    /\ s1'[r].at # "new"

\* A run is about to write a request.
LEMMA AsksIs ==
    ASSUME U!UsbAssumption, U!Typed, NEW r \in Runs, NEW cmd \in U!Commands, NEW ext \in BOOLEAN,
           NEW tries \in 1 .. 3, NEW busy \in 0 .. 2, U!Asks(r, cmd, ext, tries, busy)
    PROVE  /\ s1' \in [Runs -> U!Tools] /\ \A t \in Runs \ {r} : s1'[t] = s1[t]
           /\ s1'[r].at = "send" /\ s1'[r].kind = s1[r].kind /\ s1'[r].cmd = cmd
           /\ s1'[r].tries = tries
<1> DEFINE q == [at |-> "send", kind |-> s1[r].kind, seq |-> s1[r].seq,
                 cmd |-> cmd, ext |-> ext, tries |-> tries, busy |-> busy]
<1>1. s1 \in [Runs -> U!Tools] /\ s1[r].kind \in ToolKinds /\ s1[r].seq \in 0 .. Seqs - 1
  BY ToolIs DEF U!Typed
<1>2. q \in U!Sending
  BY <1>1 DEF U!Sending
<1>3. s1' = [s1 EXCEPT ![r] = q]
  BY DEF U!Asks
<1>4. q.at = "send" /\ q.kind = s1[r].kind /\ q.cmd = cmd /\ q.tries = tries
  OBVIOUS
<1> HIDE DEF q
<1>5. q \in U!Tools
  BY <1>2 DEF U!Tools
<1> QED BY <1>1, <1>3, <1>4, <1>5

\* A run ends.
LEMMA EndsIs ==
    ASSUME U!UsbAssumption, U!Typed, NEW r \in Runs,
           NEW how \in {"ok", "failed", "refused", "error", "unavailable"}, U!Ends(r, how)
    PROVE  /\ s1' \in [Runs -> U!Tools] /\ \A t \in Runs \ {r} : s1'[t] = s1[t]
           /\ s1'[r].at = "ended" /\ s1'[r].kind = s1[r].kind /\ s1'[r].how = how
<1> DEFINE q == [at |-> "ended", kind |-> s1[r].kind, seq |-> s1[r].seq, how |-> how]
<1>1. s1 \in [Runs -> U!Tools] /\ s1[r].kind \in ToolKinds /\ s1[r].seq \in 0 .. Seqs - 1
  BY ToolIs DEF U!Typed
<1>2. q \in U!Ended
  BY <1>1 DEF U!Ended
<1>3. s1' = [s1 EXCEPT ![r] = q]
  BY DEF U!Ends
<1>4. q.at = "ended" /\ q.kind = s1[r].kind /\ q.how = how
  OBVIOUS
<1> HIDE DEF q
<1>5. q \in U!Tools
  BY <1>2 DEF U!Tools
<1> QED BY <1>1, <1>3, <1>4, <1>5

\* What a run may ask for next.
LEMMA AsksMoves ==
    ASSUME U!UsbAssumption, U!Typed, NEW r \in Runs, NEW cmd \in U!Commands, NEW ext \in BOOLEAN,
           NEW tries \in 1 .. 3, NEW busy \in 0 .. 2, U!Asks(r, cmd, ext, tries, busy),
           ~U!Provisions(cmd), IF s1[r].kind = "provision" THEN cmd = "status" ELSE cmd = s1[r].kind
    PROVE  Moved(r)
BY AsksIs DEF Moved, U!Asking, U!Reported

\* What a run may report.
LEMMA EndsMoves ==
    ASSUME U!UsbAssumption, U!Typed, NEW r \in Runs,
           NEW how \in {"ok", "failed", "refused", "error", "unavailable"}, U!Ends(r, how),
           s1[r].kind = "provision" /\ how \in {"ok", "failed"} =>
             U!Over(r) /\ s10[r].up = (how = "ok")
    PROVE  Moved(r)
BY EndsIs DEF Moved, U!Asking, U!Reported

\* No answer: whatever the run does next, it stores nothing again.
LEMMA LostMoves ==
    ASSUME U!UsbAssumption, U!IInv, NEW r \in Runs, s1[r].at \in {"send", "wait"}, U!Lost(r)
    PROVE  Moved(r)
<1> DEFINE q == s1[r]
<1>1. /\ q.kind \in ToolKinds /\ q.cmd \in U!Commands /\ q.ext \in BOOLEAN
      /\ q.tries \in 1 .. 3 /\ q.busy \in 0 .. 2
  BY ToolIs DEF U!IInv, U!Typed
<1>2. /\ IF q.kind = "provision" THEN q.cmd \in {"async", "status"} ELSE q.cmd = q.kind
      /\ U!Provisions(q.cmd) => q.tries = 1
  BY DEF U!IInv, U!ToolTrue, U!Asking
<1>3. U!Typed
  BY DEF U!IInv
<1>4. CASE q.tries > 1 /\ U!Asks(r, q.cmd, q.ext, q.tries - 1, q.busy)
  <2>1. q.tries - 1 \in 1 .. 3
    BY <1>1, <1>4
  <2>2. ~U!Provisions(q.cmd)
    BY <1>2, <1>4
  <2>3. IF q.kind = "provision" THEN q.cmd = "status" ELSE q.cmd = q.kind
    BY <1>2, <2>2 DEF U!Provisions
  <2> QED BY <1>1, <1>3, <1>4, <2>1, <2>2, <2>3, AsksMoves
<1>5. CASE q.cmd = "ota" /\ U!Begins(r, "ota", FALSE)
  <2>1. q.kind # "provision" /\ q.kind = "ota"
    BY <1>2, <1>5
  <2>2. U!Asks(r, "ota", FALSE, 3, 2)
    BY <1>5 DEF U!Begins, U!Tries
  <2>3. "ota" \in U!Commands /\ ~U!Provisions("ota")
    BY DEF U!Commands, U!Provisions
  <2>4. 3 \in 1 .. 3 /\ 2 \in 0 .. 2 /\ FALSE \in BOOLEAN
    OBVIOUS
  <2> QED BY <1>3, <2>1, <2>2, <2>3, <2>4, AsksMoves
<1>6. CASE q.cmd \in {"async", "status"} /\ U!Polls(r)
  <2>1. q.kind = "provision"
    BY <1>1, <1>2, <1>6 DEF U!UsbAssumption
  <2>2. U!Asks(r, "status", FALSE, 1, 2)
    BY <1>6 DEF U!Polls, U!Begins, U!Tries
  <2>3. "status" \in U!Commands /\ ~U!Provisions("status")
    BY DEF U!Commands, U!Provisions
  <2>4. 1 \in 1 .. 3 /\ 2 \in 0 .. 2 /\ FALSE \in BOOLEAN
    OBVIOUS
  <2> QED BY <1>3, <2>1, <2>2, <2>3, <2>4, AsksMoves
<1>7. CASE U!Ends(r, "error")
  BY <1>3, <1>7, EndsMoves
<1> QED BY <1>4, <1>5, <1>6, <1>7 DEF U!Lost

\* A step of the tool that writes nothing.
LEMMA ToolMoves ==
    ASSUME U!UsbAssumption, U!IInv, NEW r \in Runs, Moved(r), s2' \in Runs \cup {"none"},
           Len(s3') <= U!Capacity, s3' \in Seq(U!Replies), s5' \in Seq(U!Replies),
           U!OnTheWay' \subseteq U!OnTheWay, UNCHANGED <<s4, s6, s7, s8, s9, s10>>
    PROVE  U!IInv'
<1>1. U!Typed'
  BY TypedIs DEF U!IInv, U!Typed, U!TypeOK, Moved
<1>2. U!Line' = U!Line
  BY DEF U!Line
<1>3. \A t \in Runs : U!Ahead(t)' <=> U!Ahead(t)
  BY <1>2 DEF U!Ahead
<1>4. U!Single' /\ U!JobTrue' /\ U!StoredOnce'
  BY <1>2 DEF U!IInv, U!SentOnce, U!Single, U!JobTrue, U!StoredOnce
<1>5. \A t \in Runs : U!Unsent(t)' => U!Unsent(t)
  BY DEF Moved, U!Unsent
<1>6. \A t \in Runs : U!Asking(s1'[t]) /\ U!Reported(s1'[t], t)
  BY DEF Moved, U!IInv, U!ToolTrue
<1>7. \A t \in Runs : /\ U!Unsent(t)' => U!Unsent(t) /\ ~U!Ahead(t)'
                      /\ U!Ahead(t)' => U!Ahead(t) \/ U!Unsent(t)
                      /\ U!Unsent(t)' \/ U!Ahead(t)' => s7'.of # t /\ s10'[t] = s10[t]
                      /\ U!Over(t) => ~(s7'.of = t /\ s7'.worker # "waits") /\ s10'[t].up = s10[t].up
  BY <1>3, <1>5 DEF U!IInv, U!SentOnce, U!Untouched, U!Over
<1> QED BY <1>1, <1>4, <1>6, <1>7, UsbMoves

\* Closing the port loses answers at most.
LEMMA CloseIs ==
    ASSUME U!Typed, U!Close
    PROVE  /\ s2' \in Runs \cup {"none"} /\ Len(s3') <= U!Capacity
           /\ s3' \in Seq(U!Replies) /\ s5' \in Seq(U!Replies) /\ U!OnTheWay' \subseteq U!OnTheWay
<1>1. s3' = <<>> /\ s2' = "none" /\ s5' \in {s5, <<>>}
  BY DEF U!Close
<1>2. s5 \in Seq(U!Replies) /\ <<>> \in Seq(U!Replies)
  BY DEF U!Typed
<1>3. s5' \in Seq(U!Replies) /\ s3' \in Seq(U!Replies)
  BY <1>1, <1>2
<1>4. U!OnTheWay' \subseteq U!OnTheWay
  BY <1>1 DEF U!OnTheWay
<1> QED BY <1>1, <1>3, <1>4 DEF U!Capacity

\* A run that goes on waiting.
LEMMA StaysMoves == ASSUME U!IInv, NEW r \in Runs, s1' = s1, s1[r].at = "wait" PROVE Moved(r)
BY DEF U!IInv, U!Typed, U!ToolTrue, Moved

\* run_transaction gives up waiting.
LEMMA UsbTimeOut == ASSUME U!UsbAssumption, U!IInv, NEW r \in Runs, U!TimeOut(r) PROVE U!IInv'
BY LostMoves, CloseIs, ToolMoves DEF U!TimeOut, U!IInv

\* The deadline of the whole run.
LEMMA UsbGiveUp == ASSUME U!UsbAssumption, U!IInv, NEW r \in Runs, U!GiveUp(r) PROVE U!IInv'
<1>1. U!Ends(r, "error") /\ UNCHANGED <<s2, s3, s4, s5, s6, s7, s8, s9, s10>>
  BY DEF U!GiveUp
<1>2. Moved(r)
  BY <1>1, EndsMoves DEF U!IInv
<1>3. U!OnTheWay' = U!OnTheWay
  BY <1>1 DEF U!OnTheWay
<1> QED BY <1>1, <1>2, <1>3, ToolMoves DEF U!IInv, U!Typed, U!TypeOK

\* read: what has come.
LEMMA UsbHear == ASSUME U!UsbAssumption, U!IInv, NEW r \in Runs, U!Hear(r) PROVE U!IInv'
<1>1. PICK n \in 1 .. Len(s5) : s3' = U!Fed(s3, SubSeq(s5, 1, n)) /\ s5' = SubSeq(s5, n + 1, Len(s5))
  BY DEF U!Hear
<1>2. s3 \in Seq(U!Replies) /\ s5 \in Seq(U!Replies)
  BY DEF U!IInv, U!Typed
<1>3. /\ SubSeq(s5, 1, n) \in Seq(U!Replies) /\ s5' \in Seq(U!Replies)
      /\ Rest(s3' \o s5', s3 \o s5)
  BY <1>1, <1>2, FedLine
<1>4. s3' \in Seq(U!Replies) /\ Len(s3') <= U!Capacity
  BY <1>1, <1>2, <1>3, FedRest
<1>5. U!OnTheWay' \subseteq U!OnTheWay
  <2> DEFINE s == s3 \o s5
             t == s3' \o s5'
  <2>4. /\ s \in Seq(U!Replies) /\ t \in Seq(U!Replies) /\ Rest(t, s) /\ Len(s) = Len(s3) + Len(s5)
        /\ \A j \in 1 .. Len(s3) + Len(s5) :
             s[j] = IF j <= Len(s3) THEN s3[j] ELSE s5[j - Len(s3)]
    BY <1>2, <1>3, <1>4
  <2> HIDE DEF s, t
  <2>5. ASSUME NEW j \in 1 .. Len(s) PROVE s[j][1] \in U!OnTheWay
    <3>1. j \in Int /\ Len(s3) \in Nat /\ Len(s5) \in Nat
      BY <1>2
    <3>2. CASE j <= Len(s3)
      <4>1. j \in DOMAIN s3 /\ s[j] = s3[j]
        BY <1>2, <2>4, <3>1, <3>2
      <4> QED BY <4>1 DEF U!OnTheWay
    <3>3. CASE j > Len(s3)
      <4>1. j - Len(s3) \in DOMAIN s5 /\ s[j] = s5[j - Len(s3)]
        BY <1>2, <2>4, <3>1, <3>3
      <4> QED BY <4>1 DEF U!OnTheWay
    <3> QED BY <3>1, <3>2, <3>3
  <2>1. ASSUME NEW i \in DOMAIN (s3' \o s5') PROVE (s3' \o s5')[i][1] \in U!OnTheWay
    <3>1. i \in 1 .. Len(t)
      BY <2>4 DEF t
    <3>2. PICK j \in 1 .. Len(s) : t[i] = s[j]
      <4>1. s \in Seq(U!Replies) /\ t \in Seq(U!Replies) /\ Rest(t, s)
        BY <2>4
      <4> QED BY <3>1, <4>1, RestIn
    <3> QED BY <2>5, <3>2 DEF t
  <2>2. ASSUME NEW i \in DOMAIN s3' PROVE s3'[i][1] \in U!OnTheWay
    <3>1. i \in DOMAIN (s3' \o s5') /\ (s3' \o s5')[i] = s3'[i]
      BY <1>3, <1>4
    <3> QED BY <2>1, <3>1
  <2>3. ASSUME NEW i \in DOMAIN s5' PROVE s5'[i][1] \in U!OnTheWay
    <3>1. Len(s3') + i \in DOMAIN (s3' \o s5') /\ (s3' \o s5')[Len(s3') + i] = s5'[i]
      BY <1>3, <1>4
    <3> QED BY <2>1, <3>1
  <2> QED BY <2>2, <2>3 DEF U!OnTheWay
<1>6. /\ s1' = s1 /\ s1[r].at = "wait" /\ s2' = s2
      /\ UNCHANGED <<s4, s6, s7, s8, s9, s10>>
  BY DEF U!Hear
<1>7. Moved(r)
  BY <1>6, StaysMoves
<1> QED BY <1>3, <1>4, <1>5, <1>6, <1>7, ToolMoves DEF U!IInv, U!Typed, U!TypeOK

\* The tool takes up an answer to its request.
LEMMA AnsweredMoves ==
    ASSUME U!UsbAssumption, U!IInv, NEW r \in Runs, s1[r].at = "wait",
           NEW a \in U!Answers, a \in U!OnTheWay, a.cmd = s1[r].cmd, U!Answered(r, a)
    PROVE  Moved(r)
<1> DEFINE q == s1[r]
<1>1. /\ q.kind \in ToolKinds /\ q.cmd \in U!Commands /\ q.ext \in BOOLEAN
      /\ q.tries \in 1 .. 3 /\ q.busy \in 0 .. 2
  BY ToolIs DEF U!IInv, U!Typed
<1>2. IF q.kind = "provision" THEN q.cmd \in {"async", "status"} ELSE q.cmd = q.kind
  BY DEF U!IInv, U!ToolTrue, U!Asking
<1>3. U!Typed
  BY DEF U!IInv
<1>4. CASE q.cmd \in {"async", "status"} /\ U!Polls(r)
  <2>1. q.kind = "provision"
    BY <1>1, <1>2, <1>4 DEF U!UsbAssumption
  <2>2. U!Asks(r, "status", FALSE, 1, 2)
    BY <1>4 DEF U!Polls, U!Begins, U!Tries
  <2>3. "status" \in U!Commands /\ ~U!Provisions("status")
    BY DEF U!Commands, U!Provisions
  <2>4. 1 \in 1 .. 3 /\ 2 \in 0 .. 2 /\ FALSE \in BOOLEAN
    OBVIOUS
  <2> QED BY <1>3, <2>1, <2>2, <2>3, <2>4, AsksMoves
<1>5. CASE U!Ends(r, "refused") \/ U!Ends(r, "error") \/ U!Ends(r, "unavailable")
  BY <1>3, <1>5, EndsMoves
<1>6. CASE /\ q.cmd = "status" /\ a.status = "ok" /\ a.of = r /\ a.state \in {"started", "failed"}
           /\ U!Ends(r, IF a.state = "started" THEN "ok" ELSE "failed")
  <2>1. U!Settled(a)
    BY <1>6 DEF U!IInv, U!AnswersTrue, U!Outcome
  <2> QED BY <1>3, <1>6, <2>1, EndsMoves DEF U!Settled
<1>7. CASE q.cmd = "query" /\ q.busy # 0 /\ U!Asks(r, "query", FALSE, 1, q.busy - 1)
  <2>1. q.busy - 1 \in 0 .. 2
    BY <1>1, <1>7
  <2>2. q.kind # "provision" /\ q.kind = "query"
    BY <1>2, <1>7
  <2>3. "query" \in U!Commands /\ ~U!Provisions("query")
    BY DEF U!Commands, U!Provisions
  <2>4. 1 \in 1 .. 3 /\ FALSE \in BOOLEAN
    OBVIOUS
  <2> QED BY <1>3, <1>7, <2>1, <2>2, <2>3, <2>4, AsksMoves
<1>8. CASE q.cmd \notin {"async", "status"} /\ U!Ends(r, IF a.status = "ok" THEN "ok" ELSE "refused")
  <2>1. q.kind # "provision"
    BY <1>2, <1>8
  <2> QED BY <1>3, <1>8, <2>1, EndsMoves
<1>9. CASE q.cmd = "async"
  BY <1>4, <1>5, <1>9 DEF U!Answered
<1>10. CASE q.cmd = "status"
  BY <1>4, <1>5, <1>6, <1>10 DEF U!Answered
<1>11. CASE q.cmd = "query"
  BY <1>5, <1>7, <1>8, <1>11 DEF U!Answered
<1>12. CASE q.cmd \notin {"async", "status", "query"}
  BY <1>5, <1>8, <1>12 DEF U!Answered
<1> QED BY <1>9, <1>10, <1>11, <1>12

\* transact
LEMMA UsbTake == ASSUME U!UsbAssumption, U!IInv, NEW r \in Runs, U!Take(r) PROVE U!IInv'
<1>1. /\ s1[r].at = "wait" /\ U!Complete(s3)
      /\ UNCHANGED <<s4, s6, s7, s8, s9, s10>>
  BY DEF U!Take
<1>2. s3 \in Seq(U!Replies) /\ s3 # <<>> /\ Len(s3) <= U!Capacity /\ s5 \in Seq(U!Replies)
  BY <1>1 DEF U!IInv, U!Typed, U!TypeOK, U!Complete
<1>3. s3[1][1] \in U!Answers /\ s3[1][1] \in U!OnTheWay
  <2>1. s3[1] \in U!Replies /\ 1 \in DOMAIN s3
    BY <1>2
  <2> QED BY <2>1 DEF U!Replies, U!OnTheWay
<1>4. CASE /\ s3[1][1].cmd = s1[r].cmd /\ U!Answered(r, s3[1][1]) /\ U!Close
  BY <1>1, <1>3, <1>4, AnsweredMoves, CloseIs, ToolMoves DEF U!IInv
<1>5. CASE s3' = U!Resync(U!Beyond(s3)) /\ UNCHANGED <<s1, s2, s5>>
  <2> DEFINE n == U!Size(s3[1][1])
             rest == U!Beyond(s3)
  <2>1. n = 2 /\ Len(s3) >= n
    BY <1>1, <1>3, ReplyIs DEF U!Complete
  <2>2. rest = SubSeq(s3, n + 1, Len(s3))
    BY DEF U!Beyond
  <2> HIDE DEF n, rest
  <2>3. n + 1 \in 1 .. Len(s3) + 1
    BY <1>2, <2>1
  <2>4. rest \in Seq(U!Replies) /\ Rest(rest, s3)
    BY <1>2, <2>2, <2>3, RestIs
  <2>5. s3' \in Seq(U!Replies) /\ Rest(s3', rest)
    BY <1>5, <2>4, ResyncRest DEF rest
  <2>6. Rest(s3', s3)
    BY <1>2, <2>4, <2>5, RestTwice
  <2>7. Len(s3') <= U!Capacity
    BY <1>2, <2>5, <2>6 DEF Rest, U!Capacity
  <2>8. U!OnTheWay' \subseteq U!OnTheWay
    <3>1. ASSUME NEW i \in DOMAIN s3' PROVE s3'[i][1] \in U!OnTheWay
      <4>1. PICK j \in 1 .. Len(s3) : s3'[i] = s3[j]
        BY <1>2, <2>5, <2>6, RestIn
      <4> QED BY <1>2, <4>1 DEF U!OnTheWay
    <3> QED BY <1>5, <3>1 DEF U!OnTheWay
  <2>9. Moved(r)
    BY <1>1, <1>5, StaysMoves
  <2> QED BY <1>1, <1>2, <1>5, <2>5, <2>7, <2>8, <2>9, ToolMoves
             DEF U!IInv, U!Typed, U!TypeOK
<1> QED BY <1>4, <1>5 DEF U!Take

\* A run of the tool begins.
LEMMA UsbStart == ASSUME U!UsbAssumption, U!IInv, NEW r \in Runs, U!Start(r) PROVE U!IInv'
<1> DEFINE kind == s1[r].kind
           cmd == IF kind = "provision" THEN "async" ELSE kind
<1>1. /\ s1[r].at = "new" /\ U!Begins(r, cmd, kind = "ota")
      /\ UNCHANGED <<s2, s3, s4, s5, s6, s7, s8, s9, s10>>
  BY DEF U!Start
<1>2. kind \in ToolKinds /\ U!Typed
  BY ToolIs DEF U!IInv, U!Typed
<1>3. kind \in {"provision", "state", "ota", "query", "recover", "legacy"} /\ cmd \in U!Commands
  BY <1>2 DEF U!UsbAssumption, U!Commands
<1>4. U!Tries(cmd, kind = "ota") \in 1 .. 3 /\ (U!Provisions(cmd) => U!Tries(cmd, kind = "ota") = 1)
  BY DEF U!Tries, U!Provisions
<1>5. (kind = "ota") \in BOOLEAN /\ 2 \in 0 .. 2
  OBVIOUS
<1> DEFINE ext == (kind = "ota")
           tries == U!Tries(cmd, ext)
<1>6. U!Asks(r, cmd, ext, tries, 2)
  BY <1>1 DEF U!Begins
<1>16. ext \in BOOLEAN /\ tries \in 1 .. 3 /\ (U!Provisions(cmd) => tries = 1)
  BY <1>4
<1> HIDE DEF ext, tries, cmd
<1>7. /\ s1' \in [Runs -> U!Tools] /\ \A t \in Runs \ {r} : s1'[t] = s1[t]
      /\ s1'[r].at = "send" /\ s1'[r].kind = kind /\ s1'[r].cmd = cmd
      /\ s1'[r].tries = tries
  BY <1>2, <1>3, <1>5, <1>6, <1>16, AsksIs
<1>8. U!Asking(s1'[r]) /\ U!Reported(s1'[r], r)
  BY <1>7, <1>16 DEF U!Asking, U!Reported, cmd
<1>9. U!Typed'
  BY <1>1, <1>7, TypedIs DEF U!IInv, U!Typed, U!TypeOK
<1>10. U!Line' = U!Line /\ U!OnTheWay' = U!OnTheWay
  BY <1>1 DEF U!Line, U!OnTheWay
<1>11. \A t \in Runs : U!Ahead(t)' <=> U!Ahead(t)
  BY <1>10 DEF U!Ahead
<1>12. U!Single' /\ U!JobTrue' /\ U!StoredOnce'
  BY <1>1, <1>10 DEF U!IInv, U!SentOnce, U!Single, U!JobTrue, U!StoredOnce
<1>13. \A t \in Runs : U!Unsent(t)' => U!Unsent(t)
  BY <1>1, <1>7 DEF U!Unsent
<1>14. \A t \in Runs : U!Asking(s1'[t]) /\ U!Reported(s1'[t], t)
  BY <1>7, <1>8 DEF U!IInv, U!ToolTrue
<1>15. \A t \in Runs : /\ U!Unsent(t)' => U!Unsent(t) /\ ~U!Ahead(t)'
                       /\ U!Ahead(t)' => U!Ahead(t) \/ U!Unsent(t)
                       /\ U!Unsent(t)' \/ U!Ahead(t)' => s7'.of # t /\ s10'[t] = s10[t]
                       /\ U!Over(t) => ~(s7'.of = t /\ s7'.worker # "waits") /\ s10'[t].up = s10[t].up
  BY <1>1, <1>11, <1>13 DEF U!IInv, U!SentOnce, U!Untouched, U!Over
<1> QED BY <1>9, <1>10, <1>12, <1>14, <1>15, UsbMoves

\* What is written adds the header of this run at most.
LEMMA LineGrows ==
    ASSUME U!Typed, U!Single, s6' = s6, NEW f \in U!Requests, NEW x \in Seq(U!Parts),
           \A i \in 1 .. Len(x) : x[i] = <<f, i>>, s4' = s4 \o x,
           U!Provisions(f.cmd) => ~U!Ahead(f.of)
    PROVE  /\ s4' \in Seq(U!Parts) /\ U!Single'
           /\ \A t \in Runs : U!Ahead(t)' => U!Ahead(t) \/ (t = f.of /\ U!Provisions(f.cmd))
<1>1. s6 \in Seq(U!Parts) /\ s4 \in Seq(U!Parts)
  BY DEF U!Typed
<1> DEFINE n == Len(s6) + Len(s4)
<1>2. /\ U!Line \in Seq(U!Parts) /\ Len(U!Line) = n /\ n \in Nat
      /\ \A i \in 1 .. n : U!Line[i] = IF i <= Len(s6) THEN s6[i] ELSE s4[i - Len(s6)]
  BY <1>1 DEF U!Line
<1>3. /\ s4' \in Seq(U!Parts) /\ Len(s4') = Len(s4) + Len(x)
      /\ \A i \in 1 .. Len(s4) + Len(x) :
           s4'[i] = IF i <= Len(s4) THEN s4[i] ELSE x[i - Len(s4)]
  BY <1>1
<1>4. /\ U!Line' \in Seq(U!Parts) /\ Len(U!Line') = n + Len(x)
      /\ \A i \in 1 .. n + Len(x) :
           U!Line'[i] = IF i <= Len(s6) THEN s6[i] ELSE s4'[i - Len(s6)]
  BY <1>1, <1>3 DEF U!Line
<1>5. Len(s6) \in Nat /\ Len(s4) \in Nat /\ Len(x) \in Nat
  BY <1>1
<1>6. ASSUME NEW i \in 1 .. n + Len(x) PROVE U!Line'[i] = IF i <= n THEN U!Line[i] ELSE <<f, i - n>>
  <2>1. CASE i <= n
    <3>1. CASE i <= Len(s6)
      BY <1>2, <1>4, <1>5, <2>1, <3>1
    <3>2. CASE i > Len(s6)
      <4>1. i - Len(s6) \in 1 .. Len(s4) /\ i \in 1 .. n /\ ~(i <= Len(s6))
        BY <1>5, <2>1, <3>2
      <4>2. U!Line'[i] = s4'[i - Len(s6)] /\ U!Line[i] = s4[i - Len(s6)]
        BY <1>2, <1>4, <4>1
      <4>3. s4'[i - Len(s6)] = s4[i - Len(s6)]
        BY <1>3, <1>5, <4>1
      <4> QED BY <2>1, <4>2, <4>3
    <3>3. i \in Int
      BY <1>5
    <3> QED BY <1>5, <3>1, <3>2, <3>3
  <2>2. CASE i > n
    <3>1. /\ i - Len(s6) \in 1 .. Len(s4) + Len(x) /\ ~(i - Len(s6) <= Len(s4))
          /\ (i - Len(s6)) - Len(s4) = i - n /\ i - n \in 1 .. Len(x)
      BY <1>5, <2>2
    <3>4. ~(i <= Len(s6)) /\ ~(i <= n)
      BY <1>5, <2>2
    <3>5. U!Line'[i] = s4'[i - Len(s6)]
      BY <1>4, <3>4
    <3>6. s4'[i - Len(s6)] = x[(i - Len(s6)) - Len(s4)]
      BY <1>3, <3>1
    <3>2. U!Line'[i] = x[i - n]
      BY <3>1, <3>5, <3>6
    <3> QED BY <3>1, <3>2, <3>4
  <2> QED BY <1>5, <2>1, <2>2
<1> HIDE DEF n
<1>7. DOMAIN U!Line = 1 .. n /\ DOMAIN U!Line' = 1 .. n + Len(x)
  BY <1>2, <1>4
\* Where a header is on the line.
<1>8. ASSUME NEW t \in Runs, NEW i \in 1 .. n + Len(x), U!Storing(U!Line'[i], t)
      PROVE  \/ i \in DOMAIN U!Line /\ U!Storing(U!Line[i], t)
             \/ i = n + 1 /\ t = f.of /\ U!Provisions(f.cmd)
  <2>1. CASE i <= n
    BY <1>2, <1>5, <1>6, <1>7, <1>8, <2>1
  <2>2. CASE i > n
    <3>3. ~(i <= n)
      BY <1>2, <1>5, <2>2
    <3>1. U!Line'[i] = <<f, i - n>>
      BY <1>6, <3>3
    <3>2. i - n = 1 /\ t = f.of /\ U!Provisions(f.cmd)
      BY <1>8, <3>1 DEF U!Storing
    <3> QED BY <1>2, <3>2
  <2> QED BY <1>2, <1>5, <2>1, <2>2
<1>9. \A t \in Runs : U!Ahead(t)' => U!Ahead(t) \/ (t = f.of /\ U!Provisions(f.cmd))
  BY <1>7, <1>8 DEF U!Ahead
<1>10. ASSUME NEW t \in Runs, NEW i \in 1 .. n + Len(x), NEW j \in 1 .. n + Len(x),
              U!Storing(U!Line'[i], t), U!Storing(U!Line'[j], t)
       PROVE  i = j
  <2>1. /\ \/ i \in DOMAIN U!Line /\ U!Storing(U!Line[i], t)
           \/ i = n + 1 /\ t = f.of /\ U!Provisions(f.cmd)
        /\ \/ j \in DOMAIN U!Line /\ U!Storing(U!Line[j], t)
           \/ j = n + 1 /\ t = f.of /\ U!Provisions(f.cmd)
    BY <1>8, <1>10
  <2> QED BY <2>1 DEF U!Single, U!Ahead
<1>11. U!Single'
  BY <1>7, <1>10 DEF U!Single
<1> QED BY <1>3, <1>9, <1>11

\* A request is written, or a part of it.
LEMMA UsbSend == ASSUME U!UsbAssumption, U!IInv, NEW r \in Runs, U!Send(r) PROVE U!IInv'
<1> DEFINE q == s1[r]
           f == [cmd |-> q.cmd, seq |-> q.seq, of |-> r, ext |-> q.ext]
           w == [at |-> "wait", kind |-> q.kind, seq |-> (q.seq + 1) % Seqs, sent |-> q.seq,
                 cmd |-> q.cmd, ext |-> q.ext, tries |-> q.tries, busy |-> q.busy]
<1>1. q.at = "send" /\ s8' = s8 + 1 /\ UNCHANGED <<s6, s7, s9, s10>> /\ U!Typed
  BY DEF U!Send, U!IInv
<1>2. /\ q.kind \in ToolKinds /\ q.cmd \in U!Commands /\ q.ext \in BOOLEAN /\ q.seq \in 0 .. Seqs - 1
      /\ q.tries \in 1 .. 3 /\ q.busy \in 0 .. 2 /\ s1 \in [Runs -> U!Tools]
  BY <1>1, ToolIs DEF U!Typed
<1>3. f \in U!Requests
  BY <1>2 DEF U!Requests
<1>4. U!Size(f) \in {2, 3, 4} /\ U!Pieces(f) \in Seq(U!Parts) /\ Len(U!Pieces(f)) = U!Size(f)
      /\ \A k \in 1 .. U!Size(f) : U!Pieces(f)[k] = <<f, k>>
  BY <1>3, SizeIs
<1>5. f.of = r /\ f.cmd = q.cmd
  OBVIOUS
<1>6. U!Provisions(q.cmd) => U!Unsent(r) /\ ~U!Ahead(r)
  BY <1>1 DEF U!Unsent, U!IInv, U!SentOnce
<1>7. \/ /\ s4' = s4 \o U!Pieces(f) /\ s1' = [s1 EXCEPT ![r] = w]
         /\ s2' = r /\ s3' = <<>> /\ UNCHANGED s5
      \/ /\ \E k \in 1 .. U!Size(f) - 1 : s4' = s4 \o SubSeq(U!Pieces(f), 1, k)
         /\ U!Lost(r) /\ U!Close
  BY DEF U!Send
<1> HIDE DEF f
<1>8. \E x \in Seq(U!Parts) : s4' = s4 \o x /\ \A i \in 1 .. Len(x) : x[i] = <<f, i>>
  <2>1. CASE s4' = s4 \o U!Pieces(f)
    BY <1>4, <2>1
  <2>2. ASSUME NEW k \in 1 .. U!Size(f) - 1, s4' = s4 \o SubSeq(U!Pieces(f), 1, k)
        PROVE  \E x \in Seq(U!Parts) : s4' = s4 \o x /\ \A i \in 1 .. Len(x) : x[i] = <<f, i>>
    <3>1. k \in Nat /\ k <= U!Size(f) /\ U!Size(f) \in Nat
      BY <1>4
    <3>2. /\ SubSeq(U!Pieces(f), 1, k) \in Seq(U!Parts) /\ Len(SubSeq(U!Pieces(f), 1, k)) = k
          /\ \A i \in 1 .. k : SubSeq(U!Pieces(f), 1, k)[i] = U!Pieces(f)[i]
      BY <1>4, <3>1
    <3>3. \A i \in 1 .. k : i \in 1 .. U!Size(f)
      BY <3>1
    <3>4. \A i \in 1 .. k : SubSeq(U!Pieces(f), 1, k)[i] = <<f, i>>
      BY <1>4, <3>2, <3>3
    <3> QED BY <2>2, <3>2, <3>4
  <2> QED BY <1>7, <2>1, <2>2
<1>9. /\ s4' \in Seq(U!Parts) /\ U!Single'
      /\ \A t \in Runs : U!Ahead(t)' => U!Ahead(t) \/ (t = r /\ U!Provisions(q.cmd))
  <2>1. PICK x \in Seq(U!Parts) : s4' = s4 \o x /\ \A i \in 1 .. Len(x) : x[i] = <<f, i>>
    BY <1>8
  <2>2. U!Provisions(f.cmd) => ~U!Ahead(f.of)
    BY <1>5, <1>6
  <2>3. U!Single /\ s6' = s6
    BY <1>1 DEF U!IInv, U!SentOnce
  <2>4. /\ s4' \in Seq(U!Parts) /\ U!Single'
        /\ \A t \in Runs : U!Ahead(t)' => U!Ahead(t) \/ (t = f.of /\ U!Provisions(f.cmd))
    BY <1>1, <1>3, <2>1, <2>2, <2>3, LineGrows
  <2> QED BY <1>5, <2>4
<1>10. /\ Moved(r) /\ s2' \in Runs \cup {"none"} /\ Len(s3') <= U!Capacity
       /\ s3' \in Seq(U!Replies) /\ s5' \in Seq(U!Replies) /\ U!OnTheWay' \subseteq U!OnTheWay
  <2>1. CASE U!Lost(r) /\ U!Close
    BY <1>1, <2>1, LostMoves, CloseIs
  <2>2. CASE s1' = [s1 EXCEPT ![r] = w] /\ s2' = r /\ s3' = <<>> /\ UNCHANGED s5
    <3>1. (q.seq + 1) % Seqs \in 0 .. Seqs - 1
      <4>1. q.seq + 1 \in Nat /\ Seqs \in Nat \ {0}
        BY <1>2 DEF U!UsbAssumption
      <4> QED BY <4>1
    <3>2. w \in U!Waiting
      BY <1>2, <3>1 DEF U!Waiting
    <3>3. w \in U!Tools
      BY <3>2 DEF U!Tools
    <3>4. w.at = "wait" /\ w.kind = q.kind /\ w.cmd = q.cmd /\ w.tries = q.tries
      OBVIOUS
    <3> HIDE DEF w
    <3>5. s1' \in [Runs -> U!Tools] /\ s1'[r] = w /\ \A t \in Runs \ {r} : s1'[t] = s1[t]
      BY <1>2, <2>2, <3>3
    <3>6. U!Asking(q)
      BY DEF U!IInv, U!ToolTrue
    <3>7. U!Asking(w) /\ U!Reported(w, r)
      BY <1>1, <3>4, <3>6 DEF U!Asking, U!Reported
    <3>8. Moved(r)
      BY <3>4, <3>5, <3>7 DEF Moved
    <3>9. U!OnTheWay' \subseteq U!OnTheWay
      BY <2>2 DEF U!OnTheWay
    <3>10. <<>> \in Seq(U!Replies) /\ s5 \in Seq(U!Replies)
      BY <1>1 DEF U!Typed
    <3> QED BY <2>2, <3>8, <3>9, <3>10 DEF U!Capacity
  <2> QED BY <1>7, <2>1, <2>2
<1>11. U!Typed'
  BY <1>1, <1>9, <1>10, TypedIs DEF U!Typed, U!TypeOK, Moved
<1>12. U!JobTrue' /\ U!StoredOnce'
  BY <1>1 DEF U!IInv, U!JobTrue, U!StoredOnce
<1>13. \A t \in Runs : U!Unsent(t)' => U!Unsent(t) /\ t # r
  BY <1>10 DEF Moved, U!Unsent
<1>14. \A t \in Runs : U!Asking(s1'[t]) /\ U!Reported(s1'[t], t)
  BY <1>10 DEF Moved, U!IInv, U!ToolTrue
<1>15. \A t \in Runs : /\ U!Unsent(t)' => U!Unsent(t) /\ ~U!Ahead(t)'
                       /\ U!Ahead(t)' => U!Ahead(t) \/ U!Unsent(t)
                       /\ U!Unsent(t)' \/ U!Ahead(t)' => s7'.of # t /\ s10'[t] = s10[t]
                       /\ U!Over(t) => ~(s7'.of = t /\ s7'.worker # "waits") /\ s10'[t].up = s10[t].up
  <2> TAKE t \in Runs
  <2>1. U!Ahead(t)' => U!Ahead(t) \/ (t = r /\ U!Unsent(t))
    BY <1>6, <1>9
  <2>2. (U!Unsent(t) => ~U!Ahead(t)) /\ (U!Unsent(t) \/ U!Ahead(t) => s7.of # t)
    BY DEF U!IInv, U!SentOnce, U!Untouched
  <2> QED BY <1>1, <1>13, <2>1, <2>2 DEF U!Over
<1> QED BY <1>9, <1>10, <1>11, <1>12, <1>14, <1>15, UsbMoves

\* Before the tool is run.
LEMMA UsbStarts == ASSUME U!UsbAssumption, U!Init PROVE U!IInv
<1>1. s1 \in [Runs -> U!Unstarted]
  BY DEF U!Init, U!Unstarted
<1>2. U!Unstarted \subseteq U!Tools /\ \A q \in U!Unstarted : q.at = "new"
  BY DEF U!Unstarted, U!Tools
<1>3. /\ s2 = "none" /\ s3 = <<>> /\ s4 = <<>> /\ s5 = <<>> /\ s6 = <<>>
      /\ s7 = U!Idle /\ s8 = 0 /\ s9 = 0 /\ s10 = [r \in Runs |-> [times |-> 0, up |-> FALSE]]
  BY DEF U!Init
<1>4. \A r \in Runs : s1[r].at = "new" /\ s10[r] = [times |-> 0, up |-> FALSE] /\ s7.of # r
  BY <1>1, <1>2, <1>3 DEF U!Idle, U!UsbAssumption
<1>5. U!Line = <<>> /\ U!OnTheWay = {}
  BY <1>3 DEF U!Line, U!OnTheWay
<1>6. U!Typed
  <2>1. s1 \in [Runs -> U!Tools] /\ s7 \in U!Jobs /\ 0 \in 0 .. MaxSends
    BY <1>1, <1>2, <1>3 DEF U!Idle, U!Jobs, U!UsbAssumption
  <2>2. s10 \in [Runs -> [times : 0 .. MaxSends, up : BOOLEAN]]
    BY <1>3, <2>1
  <2>3. <<>> \in Seq(U!Parts) /\ <<>> \in Seq(U!Replies)
    OBVIOUS
  <2> QED BY <1>3, <1>4, <2>1, <2>2, <2>3 DEF U!Typed, U!TypeOK, U!Capacity, U!Idle
<1>7. U!SentOnce
  BY <1>4, <1>5 DEF U!SentOnce, U!Single, U!Untouched, U!Ahead
<1>8. U!JobTrue
  BY <1>3 DEF U!JobTrue, U!Idle, U!UsbAssumption
<1>9. U!AnswersTrue
  BY <1>5 DEF U!AnswersTrue
<1>10. U!ToolTrue /\ U!StoredOnce
  BY <1>4 DEF U!ToolTrue, U!Asking, U!Reported, U!StoredOnce
<1> QED BY <1>6, <1>7, <1>8, <1>9, <1>10 DEF U!IInv

\* Nothing changes.
LEMMA UsbStands == ASSUME U!IInv, UNCHANGED U!vars PROVE U!IInv'
<1>1. U!Line' = U!Line /\ U!OnTheWay' = U!OnTheWay
  BY DEF U!vars, U!Line, U!OnTheWay
<1>2. \A r \in Runs : (U!Ahead(r)' <=> U!Ahead(r)) /\ (U!Unsent(r)' <=> U!Unsent(r)) /\ (U!Over(r)' <=> U!Over(r))
  BY <1>1 DEF U!vars, U!Ahead, U!Unsent, U!Over
<1>3. U!Typed'
  BY DEF U!vars, U!IInv, U!Typed, U!TypeOK
<1>4. U!SentOnce' /\ U!JobTrue'
  BY <1>1, <1>2 DEF U!vars, U!IInv, U!SentOnce, U!Single, U!Untouched, U!JobTrue
<1>5. U!AnswersTrue'
  BY <1>1, <1>2 DEF U!vars, U!IInv, U!AnswersTrue, U!Settled
<1>6. U!ToolTrue' /\ U!StoredOnce'
  BY <1>2 DEF U!vars, U!IInv, U!ToolTrue, U!Reported, U!StoredOnce
<1> QED BY <1>3, <1>4, <1>5, <1>6 DEF U!IInv

\* Every step keeps the invariant.
LEMMA UsbKept == ASSUME U!UsbAssumption, U!IInv, U!Next PROVE U!IInv'
<1>1. ASSUME NEW r \in Runs, U!Tool(r) PROVE U!IInv'
  BY <1>1, UsbStart, UsbSend, UsbHear, UsbTake, UsbTimeOut, UsbGiveUp DEF U!Tool
<1>2. CASE U!Firmware
  BY <1>2, UsbRead, UsbForget, UsbHandle, UsbSave, UsbConnect DEF U!Firmware
<1> QED BY <1>1, <1>2, UsbReset DEF U!Next

\* The invariant says what is reported.
LEMMA UsbTells == ASSUME U!IInv PROVE U!TypeOK /\ U!ReportTrue /\ U!StoredOnce
BY DEF U!IInv, U!Typed, U!ToolTrue, U!Reported, U!ReportTrue

\* The worker's request is neither replaced nor freed before it is done with it.
LEMMA WorkerKeepsStep == ASSUME U!UsbAssumption, U!IInv, U!Next PROVE U!WorkerKeeps
<1>1. s7 \in U!Jobs /\ s9 \in Nat
  BY DEF U!IInv, U!Typed
<1>2. CASE U!Handle
  <2>1. U!Complete(s6) /\ s6' = U!Resync(U!Beyond(s6)) /\ s4' = s4
    BY <1>2 DEF U!Handle
  <2>2. s6[1][1].of \in Runs
    <3>1. s6[1][1] \in U!Requests
      BY <2>1, HandleLine
    <3> QED BY <3>1 DEF U!Requests
  <2>3. s7' = s7 \/ \E o \in U!Async(s6[1][1].of) : s7' = o[2]
    BY <1>2 DEF U!Handle
  <2> QED BY <2>2, <2>3, AsyncIs DEF U!WorkerKeeps
<1>3. CASE U!Save \/ U!Connect
  BY <1>1, <1>3 DEF U!Save, U!Connect, U!WorkerKeeps, U!Jobs
<1>4. CASE U!Reset
  BY <1>1, <1>4 DEF U!Reset, U!WorkerKeeps
<1>5. ASSUME NEW r \in Runs, U!Tool(r) PROVE U!WorkerKeeps
  BY <1>5 DEF U!Tool, U!Start, U!Send, U!Hear, U!Take, U!TimeOut, U!GiveUp,
         U!WorkerKeeps
<1>6. CASE U!Read \/ U!ForgetRest
  BY <1>6 DEF U!Read, U!ForgetRest, U!WorkerKeeps
<1> QED BY <1>2, <1>3, <1>4, <1>5, <1>6 DEF U!Next, U!Firmware

-----------------------------------------------------------------------------
(* The components together (MCDevice).                                     *)

\* A step is one of the component that the behaviour is about.
LEMMA OneSteps ==
    ASSUME [AllNext]_allvars
    PROVE  /\ which' = which
           /\ which = "settings" => [T!Next]_(T!vars)
           /\ which = "wifi" => [W!Next]_(W!vars)
           /\ which = "usb" => [U!Next]_(U!vars)
           /\ which = "ca" => [C!Next]_(C!vars)
  BY DEF AllNext, StoreNext, TNext, WNext, UNext, CNext, SNext, LNext, BNext, ENext, RNext,
         GNext, allvars, T!vars, W!vars, U!vars, C!vars

\* The save jobs of handle_modern_save, idf_config_note_wifi_connected and the
\* scheduler, whatever they read before they got the lock: a stored secret goes
\* where it was given for, somebody can log in, and no save undoes another.
THEOREM SettingsTrueHolds == AllSpec => []SettingsTrue
<1> DEFINE Inv == which = "settings" => T!IInv
<1>1. AllInit => Inv
  BY FormsAssumption, SettingsInit DEF AllInit
<1>2. Inv /\ [AllNext]_allvars => Inv'
  BY FormsAssumption, OneSteps, SettingsKept
<1>3. Inv => SettingsTrue
  BY DEF SettingsTrue, T!IInv, T!Sound, T!SecretsStay
<1> QED BY <1>1, <1>2, <1>3, PTL DEF AllSpec

\* idf_config_note_wifi_connected: connecting to a network that is saved forgets
\* none, and a new one costs at most the last slot of a full list.
THEOREM RemembersHolds ==
    AllSpec => [][which = "settings" => \A t \in Savers : T!Remembered(t)]_allvars
<1> DEFINE Inv == which = "settings" => T!IInv
<1>1. AllInit => Inv
  BY FormsAssumption, SettingsInit DEF AllInit
<1>2. Inv /\ [AllNext]_allvars => Inv'
  BY FormsAssumption, OneSteps, SettingsKept
<1>3. Inv => (which = "settings" => \A t \in Savers : T!Remembered(t))
  BY FormsAssumption, RemembersStep
<1> QED BY <1>1, <1>2, <1>3, PTL DEF AllSpec

\* idf_config_ca_install and the jobs that install: the store of authorities is
\* whole at every moment, and an origin is bound to an authority it showed.
THEOREM CaTrueHolds == AllSpec => []CaTrue
<1> DEFINE Inv == which = "ca" => C!IInv
<1>1. AllInit => Inv
  BY AuthoritiesAssumption, C!InvInitial DEF AllInit
<1>2. Inv /\ [AllNext]_allvars => Inv'
  BY AuthoritiesAssumption, OneSteps, C!InvKept
<1>3. Inv => CaTrue
  BY AuthoritiesAssumption, C!InvIsTrue DEF CaTrue
<1> QED BY <1>1, <1>2, <1>3, PTL DEF AllSpec

\* idf_wifi: with events, timers, tasks, the button and the page in any order, the
\* AP is up or on its way to be closed, as the driver has it, and nothing puts
\* another network in the place of one that is being tried.
THEOREM WifiTrueHolds == AllSpec => []WifiTrue
<1> DEFINE Inv == which = "wifi" => W!IInv
<1>1. AllInit => Inv
  BY RadioAssumption, WifiStarts DEF AllInit
<1>2. Inv /\ [AllNext]_allvars => Inv'
  BY RadioAssumption, OneSteps, WifiKept
<1>3. Inv => WifiTrue
  BY WifiTells DEF WifiTrue
<1> QED BY <1>1, <1>2, <1>3, PTL DEF AllSpec

\* usb_recovery.cpp and usb_recovery.py: whichever frames are cut and whichever
\* answers are lost, late or read by another run, a run that reports success has had
\* its own network stored and set up, one that reports failure has not, and no
\* network is stored twice for a run.
THEOREM UsbTrueHolds == AllSpec => []UsbTrue
<1> DEFINE Inv == which = "usb" => U!IInv
<1>1. AllInit => Inv
  BY ChannelAssumption, UsbStarts DEF AllInit
<1>2. Inv /\ [AllNext]_allvars => Inv'
  BY ChannelAssumption, OneSteps, UsbKept, UsbStands
<1>3. Inv => UsbTrue
  BY UsbTells DEF UsbTrue
<1> QED BY <1>1, <1>2, <1>3, PTL DEF AllSpec

\* What no step of these components may do: idf_wifi gives a target up only on the
\* network that it is; a save forgets no network; a request over USB is not replaced
\* under its worker; an installation that is told to be done is found.
THEOREM StepsHold == AllSpec => StepsTrue
<1> DEFINE Inv == /\ which = "wifi" => W!IInv
                  /\ which = "settings" => T!IInv
                  /\ which = "usb" => U!IInv
                  /\ which = "ca" => C!IInv
           Step == /\ which = "wifi" => W!Reached
                   /\ which = "settings" => \A t \in Savers : T!Remembered(t)
                   /\ which = "usb" => U!WorkerKeeps
                   /\ which = "ca" => C!Installed
<1>1. AllInit => Inv
  BY RadioAssumption, FormsAssumption, AuthoritiesAssumption, ChannelAssumption, WifiStarts,
     SettingsInit, UsbStarts, C!InvInitial DEF AllInit
<1>2. ASSUME Inv, [AllNext]_allvars
      PROVE  Inv'
  <2>1. which' = which
    BY <1>2, OneSteps
  <2>2. which = "wifi" => W!IInv'
    BY <1>2, RadioAssumption, OneSteps, WifiKept
  <2>3. which = "settings" => T!IInv'
    BY <1>2, FormsAssumption, OneSteps, SettingsKept
  <2>4. which = "usb" => U!IInv'
    BY <1>2, ChannelAssumption, OneSteps, UsbKept, UsbStands
  <2>5. which = "ca" => C!IInv'
    BY <1>2, AuthoritiesAssumption, OneSteps, C!InvKept
  <2> QED BY <2>1, <2>2, <2>3, <2>4, <2>5
<1>3. ASSUME Inv, AllNext
      PROVE  Step
  <2>1. which = "wifi" => W!Reached
    BY <1>3, ReachedStep
    DEF AllNext, StoreNext, TNext, WNext, UNext, CNext, SNext, LNext, BNext, ENext, RNext,
         GNext
  <2>2. which = "settings" => \A t \in Savers : T!Remembered(t)
    BY <1>3, FormsAssumption, RemembersStep
  <2>3. which = "usb" => U!WorkerKeeps
    BY <1>3, ChannelAssumption, WorkerKeepsStep
    DEF AllNext, StoreNext, TNext, WNext, UNext, CNext, SNext, LNext, BNext, ENext, RNext,
         GNext
  <2>4. which = "ca" => C!Installed
    BY <1>3, AuthoritiesAssumption, C!InstalledStep
    DEF AllNext, StoreNext, TNext, WNext, UNext, CNext, SNext, LNext, BNext, ENext, RNext,
         GNext
  <2> QED BY <2>1, <2>2, <2>3, <2>4
<1>4. Inv /\ [AllNext]_allvars => [Step]_allvars
  BY <1>3
<1> QED BY <1>1, <1>2, <1>4, PTL DEF AllSpec, StepsTrue

-----------------------------------------------------------------------------
(* The switching of profiles (EsimSwitch), of which EsimSwitchProofs shows *)
(* the inductive invariant, in the behaviours of MCDevice.                 *)

\* Each component keeps to its own part of the state.
LEMMA EsimSteps ==
    ASSUME [AllNext]_allvars
    PROVE  /\ which' = which
           /\ which = "switch" => [S!Next]_(S!vars)
           /\ which = "install" => [L!Next]_(L!vars)
  BY DEF AllNext, StoreNext, TNext, WNext, UNext, CNext, SNext, LNext, BNext, ENext, RNext,
         GNext, allvars, S!vars, L!vars

LEMMA SwitchInv == AllSpec => [](which = "switch" => S!IInv)
<1> DEFINE Inv == which = "switch" => S!IInv
<1>1. AllInit => Inv
  BY ProfilesAssumption, S!InvInitial DEF AllInit
<1>2. Inv /\ [AllNext]_allvars => Inv'
  BY ProfilesAssumption, EsimSteps, S!InvKept
<1> QED BY <1>1, <1>2, PTL DEF AllSpec

\* What a job acts on is what it is said to act on: for any profiles of the card,
\* lists and operations of the page, answers of the card and losses of the modem,
\* the modem runs on the profile that the card enables once it answers, a job of
\* the scheduler on its target, and one of the page on the profile shown.
THEOREM SwitchTrueHolds == AllSpec => []SwitchTrue
<1>1. (which = "switch" => S!IInv) => SwitchTrue
  BY ProfilesAssumption, S!InvIsTrue DEF SwitchTrue
<1> QED BY <1>1, SwitchInv, PTL

\* A job that switched profiles switches back unless the card prevents it, and no
\* switching job starts on the day of a failure.
LEMMA SwitchStepsHold == AllSpec => [][which = "switch" => S!Restores /\ S!PutsOff]_allvars
<1>1. (which = "switch" => S!IInv) /\ [AllNext]_allvars
      => [which = "switch" => S!Restores /\ S!PutsOff]_allvars
  <2> SUFFICES ASSUME which = "switch", S!IInv, AllNext PROVE S!Restores /\ S!PutsOff
    OBVIOUS
  <2>1. S!Next
    BY DEF AllNext, StoreNext, TNext, WNext, UNext, CNext, SNext, LNext, BNext, ENext, RNext,
         GNext
  <2> QED BY <2>1, S!StepRestores, S!StepPutsOff
<1> QED BY <1>1, SwitchInv, PTL DEF AllSpec

-----------------------------------------------------------------------------
(* The installation of a profile (Lpa) *)

\* A notification is a pair of numbers.
LEMMA NoteNumbers ==
    ASSUME L!LpaAssumption, NEW m \in L!Note
    PROVE  m[1] \in Nat /\ m[2] \in Nat
<1>1. m[1] \in Hosts
  BY DEF L!Note
<1>2. m[2] \in 1 .. MaxSeq
  BY DEF L!Note
<1>3. Hosts \subseteq Nat /\ MaxSeq \in Nat
  BY DEF L!LpaAssumption
<1>4. m[2] \in Nat
  BY <1>2, <1>3
<1> QED BY <1>1, <1>3, <1>4

\* Notifications to be sent have a first one: the lowest number of the first server.
LEMMA FirstIs ==
    ASSUME L!LpaAssumption, s4 \subseteq L!Note, s4 # {}
    PROVE  L!First \in s4 /\ \A m \in s4 : ~L!Before(m, L!First)
<1> DEFINE hosts == {m[1] : m \in s4}
<1>1. \A m \in s4 : m[1] \in Nat /\ m[2] \in Nat
  BY NoteNumbers
<1>2. hosts \in SUBSET Nat /\ hosts # {}
  BY <1>1
<1>3. PICK h \in hosts : \A k \in hosts : h <= k
  BY <1>2, LeastExists
<1> DEFINE numbers == {m[2] : m \in {o \in s4 : o[1] = h}}
<1>4. numbers \in SUBSET Nat /\ numbers # {}
  BY <1>1, <1>3
<1>5. PICK number \in numbers : \A k \in numbers : number <= k
  BY <1>4, LeastExists
<1>6. PICK n \in s4 : n[1] = h /\ n[2] = number
  BY <1>5
<1>7. \A m \in s4 : ~L!Before(m, n)
  <2> SUFFICES ASSUME NEW m \in s4, L!Before(m, n) PROVE FALSE
    OBVIOUS
  <2>1. n[1] <= m[1]
    BY <1>3, <1>6
  <2>2. m[1] = n[1] => n[2] <= m[2]
    BY <1>5, <1>6
  <2> QED BY <1>1, <2>1, <2>2 DEF L!Before
<1> QED BY <1>7 DEF L!First

\* What the values at a start are.
LEMMA LpaValues ==
    ASSUME L!LpaAssumption
    PROVE  /\ L!Silent \in L!Waits /\ \A n \in 0 .. MaxJobs : L!NoJob(n) \in L!Jobs
           /\ 0 \in 0 .. MaxSeq /\ 0 \in 0 .. MaxJobs /\ MaxSeq \in Nat /\ MaxJobs \in Nat
           /\ MaxRestarts \in Nat
BY DEF L!Jobs, L!Waits, L!Silent, L!NoJob, L!LpaAssumption

\* The first of those left depends on nothing else.
LEMMA FirstStays == ASSUME s4' = s4 PROVE L!First' = L!First
BY DEF L!First

\* start_esim_job.
LEMMA LpaStartJob ==
    ASSUME L!LpaAssumption, L!IInv, NEW host \in Hosts, L!StartJob(host)
    PROVE  L!IInv'
<1>1. L!TypeOK'
  <2>1. s1' \in L!Jobs
    <3>1. s1.id + 1 \in 0 .. MaxJobs
      BY LpaValues DEF L!IInv, L!TypeOK, L!StartJob, L!Jobs
    <3>2. L!NoJob(s1.id + 1) \in L!Jobs
      BY <3>1, LpaValues
    <3> QED BY <3>2 DEF L!StartJob, L!Jobs
  <2>2. s9' \in L!Cards
    BY LpaValues DEF L!IInv, L!TypeOK, L!StartJob, L!Cards
  <2> QED BY <2>1, <2>2, LpaValues DEF L!IInv, L!StartJob, L!TypeOK, L!Errors, L!history
<1>2. L!Phases' /\ L!Untouched' /\ L!Cancelled'
  BY DEF L!IInv, L!StartJob, L!NoJob, L!TypeOK, L!Phases, L!Untouched, L!Cancelled,
         L!Jobs
<1>3. L!Concluded'
  BY DEF L!StartJob, L!Concluded
<1>4. L!Agreed' /\ L!ConsentGiven'
  BY DEF L!StartJob, L!Agreed, L!ConsentGiven
<1>5. L!Accounted'
  BY FirstStays DEF L!StartJob, L!Accounted
<1> QED BY <1>1, <1>2, <1>3, <1>4, <1>5 DEF L!IInv

\* esim_task: from "begin" on no profile is on the card.
LEMMA LpaBegin ==
    ASSUME L!LpaAssumption, L!IInv, NEW locked \in BOOLEAN, L!Begin(locked)
    PROVE  L!IInv'
<1>1. L!TypeOK'
  <2>1. s1' \in L!Jobs
    BY LpaValues DEF L!IInv, L!TypeOK, L!Begin, L!Jobs
  <2> QED BY <2>1, LpaValues DEF L!IInv, L!Begin, L!TypeOK, L!history
<1>2. L!Phases' /\ L!Untouched' /\ L!Cancelled'
  BY DEF L!IInv, L!Begin, L!Phases, L!Untouched, L!Cancelled
<1>3. L!Concluded'
  BY DEF L!IInv, L!Begin, L!Concluded, L!Own, L!history
<1>4. L!Agreed' /\ L!ConsentGiven'
  BY DEF L!Begin, L!Agreed, L!ConsentGiven
<1>5. L!Accounted'
  BY FirstStays DEF L!Begin, L!Accounted
<1> QED BY <1>1, <1>2, <1>3, <1>4, <1>5 DEF L!IInv

\* recover_notifications: all that the card has are left to be sent.
LEMMA LpaRetrieve ==
    ASSUME L!LpaAssumption, L!IInv, NEW ok \in BOOLEAN, L!Retrieve(ok)
    PROVE  L!IInv'
<1>1. L!TypeOK'
  <2>1. s9.notes \subseteq L!Note
    BY DEF L!IInv, L!TypeOK, L!Cards
  <2> QED BY <2>1, LpaValues DEF L!IInv, L!Retrieve, L!Leave, L!TypeOK, L!Errors,
                 L!history
<1>2. L!Phases' /\ L!Untouched' /\ L!Cancelled'
  BY DEF L!IInv, L!Retrieve, L!Leave, L!Phases, L!Untouched, L!Cancelled
<1>3. L!Concluded'
  BY DEF L!IInv, L!Retrieve, L!Untouched, L!Concluded
<1>4. L!Agreed' /\ L!ConsentGiven'
  BY DEF L!Retrieve, L!Leave, L!Agreed, L!ConsentGiven
<1>5. L!Accounted'
  BY FirstStays DEF L!Retrieve, L!Leave, L!Accounted
<1> QED BY <1>1, <1>2, <1>3, <1>4, <1>5 DEF L!IInv

\* notification, the exchange: the first of those left is delivered, or all of
\* its server are put off.
LEMMA LpaSend ==
    ASSUME L!LpaAssumption, L!IInv, NEW o \in L!Outcomes, L!Send(o)
    PROVE  L!IInv'
<1>1. L!TypeOK'
  <2>1. L!First \in L!Note
    BY FirstIs DEF L!IInv, L!TypeOK, L!Send
  <2>2. s11' \subseteq L!Note
    BY <2>1 DEF L!IInv, L!TypeOK, L!Send
  <2>3. s4' \subseteq L!Note /\ s5' \in BOOLEAN
    BY DEF L!IInv, L!TypeOK, L!Send, L!PutOff, L!Skip
  <2>4. s3' \in {"remove", "send"}
    BY DEF L!Send, L!PutOff
  <2> QED BY <2>2, <2>3, <2>4 DEF L!IInv, L!Send, L!TypeOK
<1>2. L!Phases' /\ L!Untouched' /\ L!Cancelled'
  BY DEF L!IInv, L!Send, L!PutOff, L!Phases, L!Untouched, L!Cancelled
<1>3. L!Concluded'
  BY DEF L!IInv, L!Send, L!PutOff, L!Concluded, L!Own
<1>4. L!Agreed' /\ L!ConsentGiven'
  BY DEF L!Send, L!PutOff, L!Agreed, L!ConsentGiven
<1>5. L!Accounted'
  <2>1. L!First \in s4
    BY FirstIs DEF L!IInv, L!TypeOK, L!Send
  <2>2. CASE o = "ok"
    BY <2>1, <2>2, FirstStays DEF L!IInv, L!Send, L!Accounted
  <2>3. CASE o # "ok"
    <3>1. s3' = "send" /\ s4' = L!Skip(L!First[1]) /\ s5' = (s5 \/ L!First[1] = s1.host)
      BY <2>3 DEF L!Send, L!PutOff
    <3>2. s1' = s1 /\ s9' = s9 /\ s11 \subseteq s11'
      BY DEF L!Send
    <3>3. ASSUME NEW m \in s9.notes \ (s11' \cup s4')
          PROVE  (\A n \in s4' : n[1] # m[1]) /\ (m[1] = s1.host => s5')
      <4>1. CASE m \in s4
        BY <3>1, <3>3, <4>1 DEF L!Skip
      <4>2. CASE m \notin s4
        BY <3>1, <3>2, <3>3, <4>2 DEF L!Skip, L!IInv, L!Accounted, L!Send
      <4> QED BY <4>1, <4>2
    <3> QED BY <3>1, <3>2, <3>3 DEF L!Accounted
  <2> QED BY <2>2, <2>3
<1> QED BY <1>1, <1>2, <1>3, <1>4, <1>5 DEF L!IInv

\* notification, the removal: the one removed was delivered.
LEMMA LpaDiscard ==
    ASSUME L!LpaAssumption, L!IInv, NEW o \in L!Outcomes, L!Discard(o)
    PROVE  L!IInv'
<1>1. L!TypeOK'
  <2>1. s9' \in L!Cards
    BY LpaValues DEF L!IInv, L!TypeOK, L!Discard, L!Removed, L!Cards
  <2> QED BY <2>1, LpaValues DEF L!IInv, L!Discard, L!PutOff, L!Skip, L!TypeOK,
                 L!history
<1>2. L!Phases' /\ L!Untouched' /\ L!Cancelled'
  BY DEF L!IInv, L!Discard, L!PutOff, L!Removed, L!Phases, L!Untouched, L!Cancelled
<1>3. L!Concluded'
  BY DEF L!IInv, L!Discard, L!PutOff, L!Removed, L!Concluded, L!Own, L!history
<1>4. L!Agreed' /\ L!ConsentGiven'
  BY DEF L!Discard, L!PutOff, L!Agreed, L!ConsentGiven
<1>5. L!Accounted'
  BY FirstStays DEF L!IInv, L!Discard, L!PutOff, L!Skip, L!Removed, L!TypeOK,
         L!Accounted, L!Cards, L!history
<1> QED BY <1>1, <1>2, <1>3, <1>4, <1>5 DEF L!IInv

\* recover_notifications: if none of the server of this job was put off, it has
\* had all of them.
LEMMA LpaRecovered ==
    ASSUME L!LpaAssumption, L!IInv, L!Recovered
    PROVE  L!IInv'
<1>1. L!TypeOK'
  <2> QED BY LpaValues DEF L!IInv, L!Recovered, L!Leave, L!TypeOK, L!Errors, L!history
<1>2. L!Phases' /\ L!Untouched' /\ L!Cancelled'
  BY DEF L!IInv, L!Recovered, L!Leave, L!Phases, L!Untouched, L!Cancelled
<1>3. L!Concluded'
  BY DEF L!IInv, L!Recovered, L!Untouched, L!Concluded
<1>4. L!Agreed' /\ L!ConsentGiven'
  BY DEF L!Recovered, L!Leave, L!Agreed, L!ConsentGiven
<1>5. L!Accounted'
  BY FirstStays DEF L!IInv, L!Recovered, L!Leave, L!Accounted, L!history
<1> QED BY <1>1, <1>2, <1>3, <1>4, <1>5 DEF L!IInv

\* InitiateAuthentication: a session is open from here on.
LEMMA LpaInitiate ==
    ASSUME L!LpaAssumption, L!IInv, NEW e \in L!Errors, L!Initiate(e)
    PROVE  L!IInv'
<1>1. L!TypeOK'
  <2> QED BY LpaValues DEF L!IInv, L!Initiate, L!Leave, L!TypeOK, L!history
<1>2. L!Phases' /\ L!Untouched' /\ L!Cancelled'
  BY DEF L!IInv, L!Initiate, L!Leave, L!Phases, L!Untouched, L!Cancelled
<1>3. L!Concluded'
  BY DEF L!IInv, L!Initiate, L!Phases, L!Untouched, L!Concluded
<1>4. L!Agreed' /\ L!ConsentGiven'
  BY DEF L!Initiate, L!Leave, L!Agreed, L!ConsentGiven
<1>5. L!Accounted'
  BY FirstStays DEF L!IInv, L!Initiate, L!Leave, L!Accounted, L!history
<1> QED BY <1>1, <1>2, <1>3, <1>4, <1>5 DEF L!IInv

\* Authentication and metadata.
LEMMA LpaAuthenticate ==
    ASSUME L!LpaAssumption, L!IInv, NEW e \in L!Errors, L!Authenticate(e)
    PROVE  L!IInv'
<1>1. L!TypeOK'
  <2> QED BY LpaValues DEF L!IInv, L!Authenticate, L!Abandon, L!TypeOK, L!history
<1>2. L!Phases' /\ L!Untouched' /\ L!Cancelled'
  BY DEF L!IInv, L!Authenticate, L!Abandon, L!Phases, L!Untouched, L!Cancelled
<1>3. L!Concluded'
  BY DEF L!IInv, L!Authenticate, L!Abandon, L!Phases, L!Concluded
<1>4. L!Agreed' /\ L!ConsentGiven'
  BY DEF L!Authenticate, L!Abandon, L!Agreed, L!ConsentGiven
<1>5. L!Accounted'
  BY FirstStays DEF L!IInv, L!Authenticate, L!Abandon, L!Accounted, L!history
<1> QED BY <1>1, <1>2, <1>3, <1>4, <1>5 DEF L!IInv

\* esim_install_confirmation: no consent has been received when the question is
\* put.
LEMMA LpaAsk ==
    ASSUME L!LpaAssumption, L!IInv, NEW locked \in BOOLEAN, NEW code \in BOOLEAN, L!Ask(locked, code)
    PROVE  L!IInv'
<1>1. L!TypeOK'
  <2>1. s1' \in L!Jobs
    BY LpaValues DEF L!IInv, L!TypeOK, L!Ask, L!Jobs
  <2>2. s2' \in L!Waits
    BY LpaValues DEF L!IInv, L!TypeOK, L!Ask, L!Waits
  <2> QED BY <2>1, <2>2, LpaValues DEF L!IInv, L!Ask, L!Abandon, L!TypeOK, L!Errors,
                 L!history
<1>2. L!Phases' /\ L!Untouched' /\ L!Cancelled'
  BY DEF L!IInv, L!Ask, L!Abandon, L!TypeOK, L!Phases, L!Untouched, L!Cancelled, L!Jobs
<1>3. L!Concluded'
  BY DEF L!IInv, L!Ask, L!Abandon, L!TypeOK, L!Phases, L!Concluded, L!Jobs
<1>4. L!Agreed' /\ L!ConsentGiven'
  BY DEF L!Ask, L!Abandon, L!Silent, L!Agreed, L!ConsentGiven
<1>5. L!Accounted'
  BY FirstStays DEF L!IInv, L!Ask, L!Abandon, L!TypeOK, L!Accounted, L!Jobs, L!history
<1> QED BY <1>1, <1>2, <1>3, <1>4, <1>5 DEF L!IInv

\* Time passes.
LEMMA LpaTick ==
    ASSUME L!LpaAssumption, L!IInv, L!Tick
    PROVE  L!IInv'
<1>1. L!TypeOK'
  <2>1. s2' \in L!Waits
    BY LpaValues DEF L!IInv, L!TypeOK, L!Tick, L!Waits
  <2> QED BY <2>1, LpaValues DEF L!IInv, L!Tick, L!TypeOK, L!history
<1>2. L!Phases' /\ L!Untouched' /\ L!Cancelled'
  BY DEF L!IInv, L!Tick, L!Phases, L!Untouched, L!Cancelled
<1>3. L!Concluded'
  BY DEF L!IInv, L!Tick, L!Concluded, L!Own, L!history
<1>4. L!Agreed' /\ L!ConsentGiven'
  BY DEF L!IInv, L!Tick, L!Agreed, L!ConsentGiven, L!history
<1>5. L!Accounted'
  BY FirstStays DEF L!IInv, L!Tick, L!Accounted, L!history
<1> QED BY <1>1, <1>2, <1>3, <1>4, <1>5 DEF L!IInv

\* submit_esim_confirmation: only the job that waits can be answered, with a
\* code if it needs one.
LEMMA LpaSubmit ==
    ASSUME L!LpaAssumption, L!IInv, NEW id \in 1 .. MaxJobs, NEW consent \in BOOLEAN, NEW coded \in BOOLEAN, L!Submit(id, consent, coded)
    PROVE  L!IInv'
<1>1. L!TypeOK'
  <2>1. s2' \in L!Waits
    <3>1. (IF coded THEN id ELSE 0) \in 0 .. MaxJobs
      BY LpaValues
    <3> QED BY <3>1 DEF L!IInv, L!TypeOK, L!Submit, L!Waits
  <2> QED BY <2>1, LpaValues DEF L!IInv, L!Submit, L!TypeOK
<1>2. L!Phases' /\ L!Untouched' /\ L!Cancelled'
  BY DEF L!IInv, L!Submit, L!Phases, L!Untouched, L!Cancelled
<1>3. L!Concluded'
  BY DEF L!IInv, L!Submit, L!Concluded, L!Own
<1>4. L!Agreed' /\ L!ConsentGiven'
  BY DEF L!IInv, L!Submit, L!Expects, L!TypeOK, L!Agreed, L!ConsentGiven, L!Waits
<1>5. L!Accounted'
  BY FirstStays DEF L!IInv, L!Submit, L!Accounted, L!Own
<1> QED BY <1>1, <1>2, <1>3, <1>4, <1>5 DEF L!IInv

\* esim_install_confirmation: the answer is handed to the installer.
LEMMA LpaAnswered ==
    ASSUME L!LpaAssumption, L!IInv, L!Answered
    PROVE  L!IInv'
<1>1. L!TypeOK'
  <2>1. s2' \in L!Waits
    BY LpaValues DEF L!IInv, L!TypeOK, L!Answered, L!Waits
  <2>2. s6' \in L!Consents
    BY LpaValues DEF L!IInv, L!TypeOK, L!Answered, L!Waits, L!Consents
  <2> QED BY <2>1, <2>2, LpaValues DEF L!IInv, L!Answered, L!TypeOK, L!history
<1>2. L!Phases' /\ L!Untouched' /\ L!Cancelled'
  BY DEF L!IInv, L!Answered, L!Silent, L!Phases, L!Untouched, L!Cancelled
<1>3. L!Concluded'
  BY DEF L!IInv, L!Answered, L!Concluded, L!Own, L!history
<1>4. L!Agreed' /\ L!ConsentGiven'
  BY DEF L!IInv, L!Answered, L!Agreed, L!ConsentGiven, L!history
<1>5. L!Accounted'
  BY FirstStays DEF L!IInv, L!Answered, L!Accounted, L!history
<1> QED BY <1>1, <1>2, <1>3, <1>4, <1>5 DEF L!IInv

\* Without a consent in time the session is cancelled.
LEMMA LpaConsider ==
    ASSUME L!LpaAssumption, L!IInv, L!Consider
    PROVE  L!IInv'
<1>1. L!TypeOK'
  <2> QED BY LpaValues DEF L!IInv, L!Consider, L!Abandon, L!TypeOK, L!Errors, L!history
<1>2. L!Phases' /\ L!Untouched' /\ L!Cancelled'
  BY DEF L!IInv, L!Consider, L!Abandon, L!Phases, L!Untouched, L!Cancelled
<1>3. L!Concluded'
  BY DEF L!IInv, L!Consider, L!Abandon, L!Phases, L!Concluded
<1>4. L!Agreed' /\ L!ConsentGiven'
  BY DEF L!IInv, L!Consider, L!Abandon, L!Agreed, L!ConsentGiven, L!history
<1>5. L!Accounted'
  BY FirstStays DEF L!IInv, L!Consider, L!Abandon, L!Accounted, L!history
<1> QED BY <1>1, <1>2, <1>3, <1>4, <1>5 DEF L!IInv

\* PrepareDownload.
LEMMA LpaPrepare ==
    ASSUME L!LpaAssumption, L!IInv, NEW ok \in BOOLEAN, L!Prepare(ok)
    PROVE  L!IInv'
<1>1. L!TypeOK'
  <2> QED BY LpaValues DEF L!IInv, L!Prepare, L!Abandon, L!TypeOK, L!Errors, L!history
<1>2. L!Phases' /\ L!Untouched' /\ L!Cancelled'
  BY DEF L!IInv, L!Prepare, L!Abandon, L!Phases, L!Untouched, L!Cancelled
<1>3. L!Concluded'
  BY DEF L!IInv, L!Prepare, L!Abandon, L!Phases, L!Concluded
<1>4. L!Agreed' /\ L!ConsentGiven'
  BY DEF L!IInv, L!Prepare, L!Abandon, L!Agreed, L!ConsentGiven, L!history
<1>5. L!Accounted'
  BY FirstStays DEF L!IInv, L!Prepare, L!Abandon, L!Accounted, L!history
<1> QED BY <1>1, <1>2, <1>3, <1>4, <1>5 DEF L!IInv

\* The package: what the card has is either told by its notification, or
\* uncertain.
LEMMA LpaDownload ==
    ASSUME L!LpaAssumption, L!IInv, NEW what \in {"profile", "refusal", "nothing"}, NEW heard \in BOOLEAN, L!Download(what, heard)
    PROVE  L!IInv'
<1>1. L!TypeOK'
  <2>1. s9' \in L!Cards
    <3>1. s9 \in L!Cards /\ s1.host \in Hosts
      BY DEF L!IInv, L!TypeOK, L!Jobs
    <3>2. CASE what = "nothing"
      BY <3>1, <3>2 DEF L!Download, L!Loaded
    <3>3. CASE what # "nothing"
      <4>1. s9' = [notes |-> s9.notes \cup {<<s1.host, s9.next>>}, own |-> s9.next,
                   next |-> s9.next + 1, profile |-> what = "profile"]
        BY <3>1, <3>3 DEF L!Download, L!Loaded, L!Cards
      <4>2. s9.next \in 1 .. MaxSeq
        BY <3>1, <3>3, LpaValues DEF L!Download, L!Cards
      <4>3. s9.notes \cup {<<s1.host, s9.next>>} \in SUBSET L!Note
        BY <3>1, <4>2 DEF L!Cards, L!Note
      <4>4. s9.next \in 0 .. MaxSeq /\ s9.next + 1 \in 1 .. MaxSeq + 1
        BY <4>2, LpaValues
      <4> QED BY <4>1, <4>3, <4>4 DEF L!Cards
    <3> QED BY <3>2, <3>3
  <2> QED BY <2>1, LpaValues DEF L!IInv, L!Download, L!Leave, L!TypeOK, L!Errors,
                 L!history
<1>2. L!Phases' /\ L!Untouched' /\ L!Cancelled'
  BY DEF L!IInv, L!Download, L!Leave, L!Loaded, L!TypeOK, L!Phases, L!Untouched,
         L!Cancelled, L!Cards
<1>3. L!Concluded'
  BY DEF L!IInv, L!Download, L!Leave, L!Phases, L!Untouched, L!Concluded
<1>4. L!Agreed' /\ L!ConsentGiven'
  BY DEF L!IInv, L!Download, L!Leave, L!Agreed, L!ConsentGiven, L!history
<1>5. L!Accounted'
  BY FirstStays DEF L!IInv, L!Download, L!Leave, L!Loaded, L!Accounted, L!Own, L!history
<1> QED BY <1>1, <1>2, <1>3, <1>4, <1>5 DEF L!IInv

\* notification, for the one of this job: delivered, or still pending.
LEMMA LpaNotify ==
    ASSUME L!LpaAssumption, L!IInv, NEW o \in L!Outcomes, L!Notify(o)
    PROVE  L!IInv'
<1>1. L!TypeOK'
  <2>1. s1' \in L!Jobs
    BY LpaValues DEF L!IInv, L!TypeOK, L!Notify, L!Conclude, L!Cards, L!Jobs
  <2>2. L!Own \in L!Note
    <3>1. s1.host \in Hosts /\ s9.own \in 0 .. MaxSeq /\ s9.own # 0
      BY DEF L!IInv, L!TypeOK, L!Untouched, L!Notify, L!Jobs, L!Cards
    <3>2. s9.own \in 1 .. MaxSeq
      BY <3>1, LpaValues
    <3> QED BY <3>1, <3>2 DEF L!Own, L!Note
  <2>3. s11' \subseteq L!Note
    BY <2>2 DEF L!IInv, L!TypeOK, L!Notify
  <2>4. s7' \in L!Errors /\ s3' \in {"notifyRemove", "finish"}
    BY DEF L!IInv, L!TypeOK, L!Notify, L!Conclude, L!Leave, L!Errors
  <2> QED BY <2>1, <2>3, <2>4 DEF L!IInv, L!Notify, L!TypeOK
<1>2. L!Phases' /\ L!Untouched' /\ L!Cancelled'
  BY DEF L!IInv, L!Notify, L!Conclude, L!Leave, L!TypeOK, L!Phases, L!Untouched,
         L!Cancelled, L!Jobs
<1>3. L!Concluded'
  BY DEF L!IInv, L!Notify, L!Conclude, L!TypeOK, L!Untouched, L!Concluded, L!Own, L!Jobs
<1>4. L!Agreed' /\ L!ConsentGiven'
  BY DEF L!IInv, L!Notify, L!Conclude, L!Leave, L!Agreed, L!ConsentGiven
<1>5. L!Accounted'
  BY FirstStays DEF L!Notify, L!Conclude, L!Leave, L!Accounted, L!Own
<1> QED BY <1>1, <1>2, <1>3, <1>4, <1>5 DEF L!IInv

\* It is removed once it was delivered.
LEMMA LpaNotifyRemove ==
    ASSUME L!LpaAssumption, L!IInv, NEW o \in L!Outcomes, L!NotifyRemove(o)
    PROVE  L!IInv'
<1>1. L!TypeOK'
  <2>1. s1' \in L!Jobs
    BY LpaValues DEF L!IInv, L!TypeOK, L!NotifyRemove, L!Conclude, L!Cards, L!Jobs
  <2>2. s9' \in L!Cards
    BY LpaValues DEF L!IInv, L!TypeOK, L!NotifyRemove, L!Removed, L!Cards
  <2> QED BY <2>1, <2>2, LpaValues DEF L!IInv, L!NotifyRemove, L!Conclude, L!Leave,
                 L!TypeOK, L!Errors, L!history
<1>2. L!Phases' /\ L!Untouched' /\ L!Cancelled'
  BY DEF L!IInv, L!NotifyRemove, L!Conclude, L!Leave, L!Phases, L!Untouched, L!Cancelled
<1>3. L!Concluded'
  <2>1. /\ s1' = [s1 EXCEPT !.installed = s9.profile, !.pending = (o # "ok")]
        /\ s7' = IF ~s9.profile THEN "failed" ELSE IF o # "ok" THEN "notification_pending" ELSE "none"
        /\ s3' = "finish" /\ s8' = s8 /\ s11' = s11
    BY DEF L!NotifyRemove, L!Conclude, L!Leave, L!history
  <2>2. s1 \in L!Jobs /\ s9 \in L!Cards /\ s8 = "used" /\ L!Own \in s11
    BY DEF L!IInv, L!TypeOK, L!Untouched, L!Accounted, L!NotifyRemove
  <2>3. s9'.profile = s9.profile /\ s9'.own = s9.own /\ (o = "ok" => s9'.notes = s9.notes \ {L!Own})
    BY <2>2 DEF L!NotifyRemove, L!Removed
  <2>4. s1'.installed = s9.profile /\ s1'.pending = (o # "ok") /\ s1'.host = s1.host
    BY <2>1, <2>2
  <2>5. L!Own' = L!Own
    BY <2>3, <2>4 DEF L!Own
  <2> QED BY <2>1, <2>2, <2>3, <2>4, <2>5 DEF L!Concluded
<1>4. L!Agreed' /\ L!ConsentGiven'
  BY DEF L!NotifyRemove, L!Conclude, L!Leave, L!Agreed, L!ConsentGiven
<1>5. L!Accounted'
  BY FirstStays DEF L!NotifyRemove, L!Conclude, L!Leave, L!Accounted
<1> QED BY <1>1, <1>2, <1>3, <1>4, <1>5 DEF L!IInv

\* cancel_session: nothing was installed.
LEMMA LpaCancel ==
    ASSUME L!LpaAssumption, L!IInv, NEW o \in L!Outcomes, L!Cancel(o)
    PROVE  L!IInv'
<1>1. L!TypeOK'
  <2> QED BY LpaValues DEF L!IInv, L!Cancel, L!Leave, L!TypeOK, L!Errors, L!history
<1>2. L!Phases' /\ L!Untouched' /\ L!Cancelled'
  BY DEF L!IInv, L!Cancel, L!Leave, L!Phases, L!Untouched, L!Cancelled
<1>3. L!Concluded'
  BY DEF L!IInv, L!Cancel, L!Leave, L!Untouched, L!Concluded
<1>4. L!Agreed' /\ L!ConsentGiven'
  BY DEF L!Cancel, L!Leave, L!Agreed, L!ConsentGiven
<1>5. L!Accounted'
  BY FirstStays DEF L!Cancel, L!Leave, L!Accounted
<1> QED BY <1>1, <1>2, <1>3, <1>4, <1>5 DEF L!IInv

\* esim_task: the job is done.
LEMMA LpaFinish ==
    ASSUME L!LpaAssumption, L!IInv, L!Finish
    PROVE  L!IInv'
<1>1. L!TypeOK'
  <2>1. s1' \in L!Jobs
    BY LpaValues DEF L!IInv, L!TypeOK, L!Finish, L!Jobs
  <2>2. s2' \in L!Waits
    BY LpaValues DEF L!Finish
  <2> QED BY <2>1, <2>2, LpaValues DEF L!IInv, L!Finish, L!TypeOK, L!history
<1>2. L!Phases' /\ L!Untouched' /\ L!Cancelled'
  BY DEF L!IInv, L!Finish, L!Silent, L!Phases, L!Untouched, L!Cancelled
<1>3. L!Concluded'
  BY DEF L!IInv, L!Finish, L!Concluded, L!Own, L!history
<1>4. L!Agreed' /\ L!ConsentGiven'
  BY DEF L!Finish, L!Agreed, L!ConsentGiven
<1>5. L!Accounted'
  BY FirstStays DEF L!Finish, L!Accounted
<1> QED BY <1>1, <1>2, <1>3, <1>4, <1>5 DEF L!IInv

\* A restart forgets the job.
LEMMA LpaRestart ==
    ASSUME L!LpaAssumption, L!IInv, L!Restart
    PROVE  L!IInv'
<1>1. L!TypeOK'
  <2>1. s1' \in L!Jobs
    BY LpaValues DEF L!IInv, L!TypeOK, L!Restart, L!Jobs
  <2>2. s2' \in L!Waits
    BY LpaValues DEF L!Restart
  <2>3. s10' \in 0 .. MaxRestarts
    BY LpaValues DEF L!IInv, L!TypeOK, L!Restart
  <2> QED BY <2>1, <2>2, <2>3 DEF L!IInv, L!Restart, L!TypeOK, L!Errors
<1>2. L!Phases' /\ L!Untouched' /\ L!Cancelled'
  BY DEF L!Restart, L!NoJob, L!Silent, L!Phases, L!Untouched, L!Cancelled
<1>3. L!Concluded'
  BY DEF L!Restart, L!NoJob, L!Concluded
<1>4. L!Agreed' /\ L!ConsentGiven'
  BY DEF L!Restart, L!Agreed, L!ConsentGiven
<1>5. L!Accounted'
  BY FirstStays DEF L!Restart, L!Accounted
<1> QED BY <1>1, <1>2, <1>3, <1>4, <1>5 DEF L!IInv

\* Before the first job.
LEMMA LpaStarts == L!LpaAssumption /\ L!Init => L!IInv
<1> SUFFICES ASSUME L!LpaAssumption, L!Init PROVE L!IInv
  OBVIOUS
<1>1. L!TypeOK
  <2>1. \E n \in 1 .. MaxSeq + 1 : \A m \in Initial : m[2] < n
    <3>1. \A m \in Initial : m[2] \in 1 .. MaxSeq
      BY DEF L!LpaAssumption, L!Note
    <3>2. MaxSeq + 1 \in 1 .. MaxSeq + 1 /\ \A m \in Initial : m[2] < MaxSeq + 1
      BY <3>1, LpaValues
    <3> QED BY <3>2
  <2>2. (CHOOSE n \in 1 .. MaxSeq + 1 : \A m \in Initial : m[2] < n) \in 1 .. MaxSeq + 1
    BY <2>1
  <2>3. s9 \in L!Cards
    BY <2>2, LpaValues DEF L!Init, L!Cards, L!LpaAssumption
  <2>4. s1 \in L!Jobs /\ s2 \in L!Waits /\ s6 \in L!Consents
    BY LpaValues DEF L!Init, L!Consents
  <2>5. s10 \in 0 .. MaxRestarts
    BY LpaValues DEF L!Init
  <2> QED BY <2>3, <2>4, <2>5 DEF L!Init, L!TypeOK, L!Errors
<1>2. L!Phases /\ L!Untouched /\ L!Concluded /\ L!Cancelled /\ L!Agreed /\ L!ConsentGiven /\ L!Accounted
  BY DEF L!Init, L!Phases, L!Untouched, L!Concluded, L!Cancelled, L!Agreed,
         L!ConsentGiven,
         L!Accounted, L!NoJob, L!Silent
<1> QED BY <1>1, <1>2 DEF L!IInv

\* Every step of an installation keeps the invariant.
LEMMA LpaKept == L!LpaAssumption /\ L!IInv /\ L!Next => L!IInv'
<1> SUFFICES ASSUME L!LpaAssumption, L!IInv, L!Next PROVE L!IInv'
  OBVIOUS
<1>1. CASE L!Exchange
  BY <1>1, LpaRetrieve, LpaPrepare, LpaSend, LpaDiscard, LpaNotify, LpaNotifyRemove,
     LpaCancel,
     LpaInitiate, LpaAuthenticate, LpaDownload DEF L!Exchange
<1>2. CASE L!Task /\ ~L!Exchange
  BY <1>2, LpaRecovered, LpaAnswered, LpaConsider, LpaFinish, LpaBegin, LpaAsk
     DEF L!Task
<1>3. CASE L!Tick \/ L!User \/ L!Restart \/ \E host \in Hosts : L!StartJob(host)
  BY <1>3, LpaTick, LpaSubmit, LpaRestart, LpaStartJob DEF L!User
<1> QED BY <1>1, <1>2, <1>3 DEF L!Next

\* The invariant says what is reported.
LEMMA LpaTells == L!IInv => L!TypeOK /\ L!OutcomeTrue /\ L!ConsentGiven /\ L!SessionsClosed
BY DEF L!IInv, L!OutcomeTrue, L!SessionsClosed, L!Concluded, L!Cancelled

\* Only two steps take a notification off the card, and its server has it by then.
LEMMA LpaKeepsStep == ASSUME L!LpaAssumption, L!IInv, L!Next PROVE L!Kept
<1>1. s9 \in L!Cards
  BY DEF L!IInv, L!TypeOK
<1>2. ASSUME NEW o \in L!Outcomes, L!Discard(o) PROVE L!Kept
  <2>1. L!First \in s11
    BY <1>2 DEF L!IInv, L!Accounted, L!Discard
  <2> QED BY <1>1, <1>2, <2>1 DEF L!Kept, L!Discard, L!Removed
<1>3. ASSUME NEW o \in L!Outcomes, L!NotifyRemove(o) PROVE L!Kept
  <2>1. L!Own \in s11
    BY <1>3 DEF L!IInv, L!Accounted, L!NotifyRemove
  <2> QED BY <1>1, <1>3, <2>1 DEF L!Kept, L!NotifyRemove, L!Removed
<1>4. ASSUME NEW what \in {"profile", "refusal", "nothing"}, NEW heard \in BOOLEAN,
             L!Download(what, heard)
      PROVE  L!Kept
  BY <1>1, <1>4 DEF L!Kept, L!Download, L!Loaded
<1>5. ASSUME NEW host \in Hosts, L!StartJob(host) PROVE L!Kept
  BY <1>1, <1>5 DEF L!Kept, L!StartJob
<1>6. CASE s9' = s9
  BY <1>6 DEF L!Kept
<1>7. \/ s9' = s9
      \/ \E o \in L!Outcomes : L!Discard(o) \/ L!NotifyRemove(o)
      \/ \E what \in {"profile", "refusal", "nothing"}, heard \in BOOLEAN : L!Download(what, heard)
      \/ \E host \in Hosts : L!StartJob(host)
  BY DEF L!Next, L!Task, L!Exchange, L!User, L!Retrieve, L!Prepare, L!Send, L!Notify,
         L!Cancel,
         L!Initiate, L!Authenticate, L!Recovered, L!Answered, L!Consider, L!Finish, L!Begin, L!Ask,
         L!Tick, L!Submit, L!Restart
<1> QED BY <1>2, <1>3, <1>4, <1>5, <1>6, <1>7

\* A notification goes to its server after the older ones: the first of those left,
\* or that of the job, once none of its server is left.
LEMMA LpaOrders == ASSUME L!LpaAssumption, L!IInv, L!Next PROVE L!Ordered
<1>1. ASSUME NEW o \in L!Outcomes, L!Send(o) PROVE L!Ordered
  <2>1. s4 \subseteq L!Note /\ s4 # {} /\ s11' \ s11 \subseteq {L!First}
    BY <1>1 DEF L!IInv, L!TypeOK, L!Send
  <2>2. L!First \in s4 /\ \A m \in s4 : ~L!Before(m, L!First)
    BY <2>1, FirstIs
  <2>3. ASSUME NEW m \in s9.notes, m[1] = L!First[1], m[2] < L!First[2], m \notin s11
        PROVE  FALSE
    <3>1. m \in s4
      BY <1>1, <2>2, <2>3 DEF L!IInv, L!Accounted, L!Send
    <3> QED BY <2>2, <2>3, <3>1 DEF L!Before
  <2> QED BY <2>1, <2>3 DEF L!Ordered
<1>2. ASSUME NEW o \in L!Outcomes, L!Notify(o) PROVE L!Ordered
  <2>1. s11' \ s11 \subseteq {L!Own} /\ s9.own \in Nat
    BY <1>2, LpaValues DEF L!Notify, L!IInv, L!TypeOK, L!Cards
  <2>2. \A m \in s9.notes : m[1] = s1.host => m \in s11 \cup {L!Own}
    BY <1>2 DEF L!IInv, L!Accounted, L!Notify
  <2>3. L!Own[1] = s1.host /\ L!Own[2] = s9.own /\ ~(L!Own[2] < L!Own[2])
    BY <2>1 DEF L!Own
  <2>4. ASSUME NEW m \in s9.notes, m[1] = L!Own[1], m[2] < L!Own[2] PROVE m \in s11
    BY <2>2, <2>3, <2>4
  <2> QED BY <2>1, <2>4 DEF L!Ordered
<1>3. CASE s11' = s11
  BY <1>3 DEF L!Ordered
<1>4. s11' = s11 \/ \E o \in L!Outcomes : L!Send(o) \/ L!Notify(o)
  BY DEF L!Next, L!Task, L!Exchange, L!User, L!Retrieve, L!Prepare, L!Discard,
         L!NotifyRemove, L!Cancel,
         L!Initiate, L!Authenticate, L!Recovered, L!Answered, L!Consider, L!Finish, L!Begin, L!Ask,
         L!Tick, L!Submit, L!Restart, L!StartJob, L!Download, L!history
<1> QED BY <1>1, <1>2, <1>3, <1>4

LEMMA LpaStands == L!IInv /\ UNCHANGED L!vars => L!IInv'
BY FirstStays DEF L!vars, L!IInv, L!TypeOK, L!Phases, L!Untouched, L!Concluded, L!Cancelled, L!Agreed,
     L!ConsentGiven, L!Accounted, L!Own

LEMMA InstallInv == AllSpec => [](which = "install" => L!IInv)
<1> DEFINE Inv == which = "install" => L!IInv
<1>1. AllInit => Inv
  BY InstallAssumption, LpaStarts DEF AllInit
<1>2. Inv /\ [AllNext]_allvars => Inv'
  BY InstallAssumption, EsimSteps, LpaKept, LpaStands
<1> QED BY <1>1, <1>2, PTL DEF AllSpec

\* What an installation says is true (the part of InstallTrue about Lpa): for any
\* servers, notifications and lost answers, a profile that is said to be installed
\* is on the card and its server knows, or is said not to know; one that is not said
\* to be, or to be uncertain, is not; nothing is downloaded without the user's
\* consent to this job; a session of the server is used, or cancelled, or that is
\* said to have failed.
THEOREM InstallationsTrue ==
    AllSpec => [](which = "install" =>
                    L!TypeOK /\ L!OutcomeTrue /\ L!ConsentGiven /\ L!SessionsClosed)
<1>1. L!IInv => L!TypeOK /\ L!OutcomeTrue /\ L!ConsentGiven /\ L!SessionsClosed
  BY LpaTells
<1> QED BY <1>1, InstallInv, PTL

\* A job that switched profiles switches back, and none starts on the day of a
\* failure; a notification leaves the card only when its server has it, and no
\* server gets one before an older one that is on the card.
THEOREM EsimStepsHold == AllSpec => EsimStepsTrue
<1> DEFINE Install == which = "install" => L!Kept /\ L!Ordered
           Switch == which = "switch" => S!Restores /\ S!PutsOff
<1>1. (which = "install" => L!IInv) /\ [AllNext]_allvars => [Install]_allvars
  <2> SUFFICES ASSUME which = "install", L!IInv, AllNext PROVE L!Kept /\ L!Ordered
    OBVIOUS
  <2>1. L!Next
    BY DEF AllNext, StoreNext, TNext, WNext, UNext, CNext, SNext, LNext, BNext, ENext, RNext,
         GNext
  <2> QED BY <2>1, InstallAssumption, LpaKeepsStep, LpaOrders
<1>2. AllSpec => [][Install]_allvars
  BY <1>1, InstallInv, PTL DEF AllSpec
<1>3. AllSpec => [][Switch]_allvars
  BY SwitchStepsHold
<1> HIDE DEF Install, Switch
<1>4. AllSpec => [][Install /\ Switch]_allvars
  BY <1>2, <1>3, PTL
<1>5. [Install /\ Switch]_allvars
      => [/\ which = "switch" => S!Restores /\ S!PutsOff
          /\ which = "install" => L!Kept /\ L!Ordered]_allvars
  BY DEF Install, Switch
<1> QED BY <1>4, <1>5, PTL DEF EsimStepsTrue
=============================================================================
