---------------------------- MODULE AtomicConfig ----------------------------
(***************************************************************************)
(* What the configuration store promises: one value that a save replaces   *)
(* as a whole or not at all.  A save whose caller was told that it failed, *)
(* or was cut off by a power loss, may have replaced the value; one whose  *)
(* caller was told that it succeeded has.                                  *)
(***************************************************************************)
EXTENDS FiniteSets

CONSTANT Updates     \* changes that callers make, each of them once

VARIABLES stored,    \* the changes in the value that a restart would load
          wanted,    \* {}, or the value that a save under way is to store
          acked      \* the changes whose callers were told that they are stored

vars == <<stored, wanted, acked>>

TypeOK ==
    /\ stored \in SUBSET Updates
    /\ wanted \in SUBSET SUBSET Updates
    /\ acked \in SUBSET Updates

Init == stored \in SUBSET Updates /\ wanted = {} /\ acked = {}

\* Nobody starts from a value that lacks an acknowledged change.
Request(v) ==
    /\ wanted = {}
    /\ acked \subseteq v
    /\ wanted' = {v}
    /\ UNCHANGED <<stored, acked>>

Replace ==
    /\ wanted # {}
    /\ stored' \in wanted
    /\ UNCHANGED <<wanted, acked>>

\* The save succeeded, and u is the change it was for.
Acknowledge(u) ==
    /\ u \in stored /\ stored \in wanted
    /\ acked' = acked \cup {u}
    /\ wanted' = {}
    /\ UNCHANGED stored

\* The save failed, or succeeded on behalf of nobody, or the power was cut.
GiveUp ==
    /\ wanted # {}
    /\ wanted' = {}
    /\ UNCHANGED <<stored, acked>>

Next ==
    \/ \E v \in SUBSET Updates : Request(v)
    \/ Replace
    \/ \E u \in Updates : Acknowledge(u)
    \/ GiveUp

Spec == Init /\ [][Next]_vars
=============================================================================
