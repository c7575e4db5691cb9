---------------------------- MODULE ConfigStore -----------------------------
(***************************************************************************)
(* The configuration store: components/idf_config/idf_config_storage.cpp   *)
(* and the update protocol of idf_config.cpp on top of it.                 *)
(*                                                                         *)
(* The NVS partition "appcfg" holds two slots, each a blob (key cfgA or    *)
(* cfgB) and a marker (markA or markB) that authenticates it, and a state  *)
(* byte.  A save writes the slot that is not in use; a load picks a slot.  *)
(* Every write that reaches flash is a step of its own: it may fail, it    *)
(* may store something else than it was given, and the power may be cut    *)
(* before and after it.                                                    *)
(*                                                                         *)
(* A configuration is the set of changes that callers made to it.  A       *)
(* marker holds the generation, length and CRC of its blob, so it is       *)
(* modelled as the blob it was made for.                                   *)
(***************************************************************************)
EXTENDS Integers, FiniteSets

CONSTANTS
    Updates,        \* changes that callers make, each of them once
    CellularUpdates,\* those that set what only schema 7 can hold
    Stores,         \* contents of the partition at the first boot
    Unreadable,     \* sets of slots that a load or save may fail to read
    Garbling,       \* whether a write may store something else, unnoticed
    GenMod,         \* 2^32
    PreviousSchema, \* CONFIG_SCHEMA_VERSION of the image an OTA replaced
    MaxCuts         \* bound: power cuts and restarts

Slots  == {0, 1}
NoSlot == -1
Schema == 7                     \* CONFIG_SCHEMA_VERSION
Generations == 0 .. GenMod - 1
Values == SUBSET Updates
Blob   == [gen : Generations, schema : 0 .. 8, val : Values]
Absent == [gen |-> 0, schema |-> -1, val |-> {}]    \* ESP_ERR_NVS_NOT_FOUND
Rubbish == [gen |-> 0, schema |-> 0, val |-> {}]    \* decodes to Invalid
Stored == Blob \cup {Absent}
LegacyValue == {}               \* what loadLegacy finds in "sms_config"

ASSUME StoreAssumption ==
    /\ CellularUpdates \subseteq Updates
    /\ GenMod \in Nat /\ GenMod >= 4
    /\ Unreadable \subseteq SUBSET Slots
    /\ Garbling \in BOOLEAN
    /\ MaxCuts \in Nat
    /\ Stores \subseteq [blob : [Slots -> Stored], mark : [Slots -> Stored],
                         state : {"absent", "migrating", "ready"}]

VARIABLES
    blob, mark, state,  \* the partition
    image,              \* OTA state of the running image
    power,              \* "off", "loading", "up" or "stopped"
    config,             \* s_config
    inUse,              \* s_activeSlot and s_activeGeneration
    step,               \* where the load or save under way stands
    next,               \* the value being loaded or saved
    target, fresh,      \* the slot it is written to, and the blob
    asked,              \* changes that callers have made
    current,            \* the change being saved, as a set of at most one
    acked,              \* changes whose callers got ESP_OK
    cuts                \* power cuts and restarts so far

flash == <<blob, mark, state>>
job   == <<step, next, target, fresh, current>>
vars  == <<flash, image, power, config, inUse, job, asked, acked, cuts>>

SaveSteps == {"select", "erase", "blob", "mark", "ready", "verify"}

TypeOK ==
    /\ blob \in [Slots -> Stored]
    /\ mark \in [Slots -> Stored]
    /\ state \in {"absent", "migrating", "ready"}
    /\ image \in {"pending", "confirmed", "rolledback"}
    /\ power \in {"off", "loading", "up", "stopped"}
    /\ config \in Values
    /\ inUse \in [slot : Slots \cup {NoSlot}, gen : Generations]
    /\ step \in {"idle", "load", "state"} \cup SaveSteps
    /\ next \in Values
    /\ target \in Slots
    /\ fresh \in Stored
    /\ asked \in Values /\ current \in Values /\ acked \in Values
    /\ cuts \in 0 .. MaxCuts

-----------------------------------------------------------------------------
(* Which slot counts.                                                      *)

\* A mistake: generations compared without regard to the wrap.
GenerationUnsigned(l, r) == l > r

\* The difference of two generations, read as a signed number, is positive.
GenerationNewer(l, r) ==
    LET ahead == IF l >= r THEN l - r ELSE l - r + GenMod
    IN  0 < ahead /\ 2 * ahead < GenMod

\* A mistake: the new slot gets the generation of the old one.
GenerationKept(g) == g

\* A mistake: no wrap.
GenerationGrows(g) == g + 1

NextGeneration(g) == IF g = GenMod - 1 THEN 0 ELSE g + 1

\* What firmware that knows the schemas up to s makes of slot i, unread being
\* the slots that it cannot read: an error of NVS, or no memory to decode in.
ReadSlot(i, s, unread) ==
    IF blob[i] = Absent /\ mark[i] = Absent THEN "empty"
    ELSE IF i \in unread THEN "invalid"
    ELSE IF mark[i] = Absent
         THEN IF blob[i].schema \in 6 .. s THEN "resumable" ELSE "invalid"
    ELSE IF blob[i] = Absent \/ mark[i] # blob[i] THEN "invalid"
    ELSE IF blob[i].schema > s THEN "unsupported"
    ELSE IF blob[i].schema = 0 THEN "invalid"
    ELSE "valid"

\* A mistake: a first save that was cut off is given up.
ResumeOnlyReady(first, second) == state = "ready" /\ first = "resumable"

\* The first save was cut off between its blob and its marker.
ResumableInitialMigration(first, second) ==
    state = "migrating" /\ first = "resumable" /\ second = "empty"

\* The two slots as selectSlots finds them.
SelectSlots(s, unread) ==
    LET seen(i) == ReadSlot(i, s, unread)
        valid   == {i \in Slots : seen(i) = "valid"}
        beyond  == {i \in Slots : seen(i) = "unsupported"}
        newest  == IF valid = {0, 1}
                   THEN IF GenerationNewer(blob[1].gen, blob[0].gen) THEN 1 ELSE 0
                   ELSE IF 0 \in valid THEN 0 ELSE 1
        blocked == IF valid = {} THEN beyond
                   ELSE {i \in beyond :
                            GenerationNewer(blob[i].gen, blob[newest].gen)}
    IN  [slot |-> IF valid = {} \/ blocked # {} THEN NoSlot ELSE newest,
         unsupported |-> blocked # {},
         invalid |-> /\ valid = {} /\ beyond = {}
                     /\ \E i \in Slots : seen(i) # "empty",
         resumable |-> ResumableInitialMigration(seen(0), seen(1))]

\* Whether a load by that firmware would get past the slots, and what it would
\* find in them.
Loadable(s) ==
    LET found == SelectSlots(s, {})
    IN  /\ ~found.unsupported
        /\ found.invalid => found.resumable

Effective ==
    LET slot == SelectSlots(Schema, {}).slot
    IN  IF slot = NoSlot THEN LegacyValue ELSE blob[slot].val

-----------------------------------------------------------------------------
(* The job under way: a load, or an update, which holds s_persist_mutex.   *)

NoJob == step = "idle" /\ next = {} /\ target = 0 /\ fresh = Absent /\ current = {}

Init ==
    /\ \E s \in Stores : blob = s.blob /\ mark = s.mark /\ state = s.state
    /\ image \in {"pending", "confirmed"}
    /\ image = "pending" => Loadable(PreviousSchema)
    /\ power = "off"
    /\ config = {}
    /\ inUse = [slot |-> NoSlot, gen |-> 0]
    /\ NoJob
    /\ asked = {} /\ acked = {}
    /\ cuts = 0

EndJob ==
    /\ step' = "idle" /\ next' = {} /\ target' = 0 /\ fresh' = Absent
    /\ current' = {}

\* replace_config: readers get the value v.
Publish(v) == config' = v /\ power' = "up" /\ EndJob

Boot ==
    /\ power = "off" /\ image # "rolledback"
    /\ power' = "loading"
    /\ step' = "load"
    /\ UNCHANGED <<flash, image, config, inUse, next, target, fresh, current,
                   asked, acked, cuts>>

\* With v loaded from a slot, or from what preceded the slots: it is published,
\* or first saved if it is not in a schema that the slots are to hold.
Loaded(v, schema) ==
    IF schema < 6 THEN /\ step' = "select"
                       /\ next' = v
                       /\ UNCHANGED <<config, power, target, fresh, current>>
                  ELSE Publish(v)

WriteStateFirst(v) ==
    /\ step' = "state"
    /\ next' = v
    /\ UNCHANGED <<config, power, target, fresh, current>>

Load ==
    /\ step = "load"
    /\ \E unread \in Unreadable :
        LET found == SelectSlots(Schema, unread)
            slot  == found.slot
        IN  /\ ~found.unsupported
            /\ found.invalid => found.resumable
            /\ \/ /\ slot # NoSlot
                  /\ inUse' = [slot |-> slot, gen |-> blob[slot].gen]
                  /\ IF state = "ready" THEN Loaded(blob[slot].val, blob[slot].schema)
                                        ELSE WriteStateFirst(blob[slot].val)
               \/ /\ slot = NoSlot /\ state # "ready"
                  /\ IF state = "migrating" THEN Loaded(LegacyValue, 0)
                                            ELSE WriteStateFirst(LegacyValue)
                  /\ UNCHANGED inUse
    /\ UNCHANGED <<flash, image, asked, acked, cuts>>

WriteState ==
    /\ step = "state"
    /\ IF inUse.slot = NoSlot
       THEN state' = "migrating" /\ Loaded(next, 0)
       ELSE state' = "ready" /\ Loaded(next, blob[inUse.slot].schema)
    /\ UNCHANGED <<blob, mark, image, inUse, asked, acked, cuts>>

\* begin_config_update, and the caller's change to the copy.
BeginUpdate(u) ==
    /\ power = "up" /\ step = "idle" /\ u \notin asked
    /\ step' = "select"
    /\ next' = config \cup {u}
    /\ current' = {u}
    /\ asked' = asked \cup {u}
    /\ UNCHANGED <<flash, image, power, config, inUse, target, fresh, acked, cuts>>

-----------------------------------------------------------------------------
(* idf_config_storage_save                                                 *)

RequiredSchema(v) == IF v \cap CellularUpdates # {} THEN 7 ELSE 6

\* A mistake: the slot in use is written in place.
SlotInUse(slot) == IF slot = 1 THEN 1 ELSE 0

OtherSlot(slot) == IF slot = 0 THEN 1 ELSE 0

\* A mistake: the running image is not asked for.
AllowAnyV7Write(slot) == TRUE

AllowFirstV7Write(slot) ==
    \/ slot # NoSlot /\ blob[slot].schema >= 7
    \/ image # "pending"

SelectTarget ==
    /\ step = "select"
    /\ \E unread \in Unreadable :
        LET found == SelectSlots(Schema, unread)
            base  == IF found.slot = NoSlot THEN inUse
                     ELSE [slot |-> found.slot, gen |-> blob[found.slot].gen]
        IN  /\ ~found.unsupported
            /\ found.invalid => found.resumable
            /\ RequiredSchema(next) = 7 => AllowFirstV7Write(base.slot)
            /\ target' = OtherSlot(base.slot)
            /\ fresh' = [gen |-> NextGeneration(base.gen),
                         schema |-> RequiredSchema(next), val |-> next]
    /\ step' = "erase"
    /\ UNCHANGED <<flash, image, power, config, inUse, next, current, asked,
                   acked, cuts>>

\* What a write may leave behind when it reports no error.
Written(b) == IF Garbling THEN {b, Rubbish} ELSE {b}

EraseMarker ==
    /\ step = "erase"
    /\ mark' = [mark EXCEPT ![target] = Absent]
    /\ step' = "blob"
    /\ UNCHANGED <<blob, state, image, power, config, inUse, next, target, fresh,
                   current, asked, acked, cuts>>

WriteBlob ==
    /\ step = "blob"
    /\ \E b \in Written(fresh) : blob' = [blob EXCEPT ![target] = b]
    /\ step' = "mark"
    /\ UNCHANGED <<mark, state, image, power, config, inUse, next, target, fresh,
                   current, asked, acked, cuts>>

BlobReadBack == blob[target] = fresh

WriteMarker ==
    /\ step = "mark" /\ BlobReadBack
    /\ \E m \in Written(fresh) : mark' = [mark EXCEPT ![target] = m]
    /\ step' = "ready"
    /\ UNCHANGED <<blob, state, image, power, config, inUse, next, target, fresh,
                   current, asked, acked, cuts>>

WriteReady ==
    /\ step = "ready"
    /\ state' = "ready"
    /\ step' = "verify"
    /\ UNCHANGED <<blob, mark, image, power, config, inUse, next, target, fresh,
                   current, asked, acked, cuts>>

MarkerReadBack == mark[target] = fresh

\* The save returns ESP_OK, the value is published and the caller told.
FinishSave ==
    /\ step = "verify" /\ MarkerReadBack
    /\ inUse' = [slot |-> target, gen |-> fresh.gen]
    /\ acked' = acked \cup current
    /\ Publish(next)
    /\ UNCHANGED <<flash, image, asked, cuts>>

\* An NVS call or an allocation fails, a guard refuses, or what is read back is
\* not what was written.  A load that fails leaves the services stopped.
Fail ==
    /\ step # "idle"
    /\ power' = IF power = "loading" THEN "stopped" ELSE power
    /\ EndJob
    /\ UNCHANGED <<flash, image, config, inUse, asked, acked, cuts>>

-----------------------------------------------------------------------------
(* The environment.                                                        *)

\* The bootloader returns to the previous image if this one is unconfirmed.
CutPower ==
    /\ power # "off" /\ cuts < MaxCuts
    /\ power' = "off"
    /\ image' = IF image = "pending" THEN "rolledback" ELSE image
    /\ config' = {}
    /\ inUse' = [slot |-> NoSlot, gen |-> 0]
    /\ EndJob
    /\ cuts' = cuts + 1
    /\ UNCHANGED <<flash, asked, acked>>

\* idf_web_ota_health_check, with the services up.
Confirm ==
    /\ power = "up" /\ image = "pending"
    /\ image' = "confirmed"
    /\ UNCHANGED <<flash, power, config, inUse, job, asked, acked, cuts>>

SaveStep ==
    \/ SelectTarget
    \/ EraseMarker
    \/ WriteBlob
    \/ WriteMarker
    \/ WriteReady
    \/ FinishSave

Next ==
    \/ Boot
    \/ Load
    \/ WriteState
    \/ \E u \in Updates : BeginUpdate(u)
    \/ SaveStep
    \/ Fail
    \/ CutPower
    \/ Confirm

Spec == Init /\ [][Next]_vars

-----------------------------------------------------------------------------
(* Properties.                                                             *)

\* A change whose caller was told that it is stored is in what a restart would
\* load, whatever happened since: later saves that failed halfway, writes that
\* stored something else, power cuts between any two writes.
AcknowledgedDurable == acked \subseteq Effective

\* Of two slots that both count, one is newer and the other is not, also where
\* the generation wraps round: no load depends on the order of the slots.
OneNewest ==
    (\A i \in Slots : ReadSlot(i, Schema, {}) = "valid") =>
        GenerationNewer(blob[0].gen, blob[1].gen)
            # GenerationNewer(blob[1].gen, blob[0].gen)

\* No slot holds what a garbled write left there.
Intact == \A i \in Slots : blob[i] # Rubbish /\ mark[i] # Rubbish

\* A partition that could be loaded can be loaded after a power cut at any
\* point, the first save included, whose slot has no sibling to fall back on.
Bootable ==
    Intact => /\ Loadable(Schema)
              /\ SelectSlots(Schema, {}).slot = NoSlot => state # "ready"

\* As long as the running image can be rolled back, and once it has been, the
\* image before it can load what is stored.
RollbackReads == Intact /\ image # "confirmed" => Loadable(PreviousSchema)

\* All three: what can be loaded once can be loaded after a power cut at any
\* point, by this image and by the one it may be rolled back to, from one slot.
Recoverable == OneNewest /\ Bootable /\ RollbackReads

\* A save replaces the stored value as a whole or not at all, and if its caller
\* is told that it succeeded, it has.
Atomic == INSTANCE AtomicConfig WITH
    stored <- Effective,
    wanted <- IF step \in SaveSteps THEN {next} ELSE {}

SavesAtomically == Atomic!Spec
=============================================================================
