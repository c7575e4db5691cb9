---------------------------- MODULE MCPushQueue ----------------------------
(* Finite instances of PushQueue. *)
EXTENDS PushQueue, TLC

\* Items, channels and the slots of an array are interchangeable: the code
\* picks the first free slot and the first job that is due, and the model
\* leaves open which job that is.
Symmetry ==
    Permutations(Items) \cup Permutations(Channels) \cup
    Permutations(FwdSlots) \cup Permutations(PushSlots) \cup
    Permutations(CompSlots)
=============================================================================
