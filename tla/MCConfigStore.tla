--------------------------- MODULE MCConfigStore ---------------------------
(* Finite instances of ConfigStore. *)
EXTENDS ConfigStore, TLC

At(gen, schema) == [gen |-> gen, schema |-> schema, val |-> {}]
Pair(b0, m0, b1, m1, s) ==
    [blob |-> [i \in Slots |-> IF i = 0 THEN b0 ELSE b1],
     mark |-> [i \in Slots |-> IF i = 0 THEN m0 ELSE m1],
     state |-> s]
Good(b0, b1) == Pair(b0, b0, b1, b1, "ready")

Last == GenMod - 1

\* An empty partition, one with a legacy schema, one whose first migration was
\* cut off, two full ones about to wrap round, one of them with a newer slot of
\* schema 7, and one that lost the state byte.
SoundStores ==
    {Pair(Absent, Absent, Absent, Absent, "absent"),
     Good(At(Last, 5), Absent),
     Pair(At(1, 6), Absent, Absent, Absent, "migrating"),
     Good(At(Last - 1, 6), At(Last, 6)),
     Good(At(0, 7), At(Last, 6)),
     Pair(At(1, 6), At(1, 6), Absent, Absent, "migrating")}

\* Also those with a slot that is of no use: of a schema of the future, with the
\* wrong marker, or with none.
LoadableStores ==
    SoundStores \cup
    {Good(At(1, 6), At(0, 8)),
     Pair(At(1, 6), At(0, 6), At(2, 6), At(2, 6), "ready"),
     Pair(At(1, 6), At(1, 6), At(2, 6), Absent, "ready")}

NoneFails == {{}}
OneMayFail == {{}, {0}, {1}}
=============================================================================
