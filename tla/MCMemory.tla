------------------------------ MODULE MCMemory ------------------------------
(***************************************************************************)
(* The run of Memory, and of the heap with the map in it.  The two share   *)
(* no state here, so a behaviour runs one of them while the other stays in *)
(* its initial state.                                                      *)
(***************************************************************************)
EXTENDS Memory, HashMap, TLC

VARIABLE part

\* The files that exec is called with.

None_ == [found |-> "no", segs |-> <<>>]
Small == [found |-> "yes", segs |-> <<[vaddr |-> 1, filesz |-> 1, memsz |-> 2]>>]
\* The second segment has more bytes in the file than in memory.
Broken == [found |-> "yes", segs |-> <<[vaddr |-> 0, filesz |-> 2, memsz |-> 2],
                                       [vaddr |-> 2, filesz |-> 2, memsz |-> 1]>>]

MCImages == {None_, Small, Broken, [None_ EXCEPT !.found = "short"], [None_ EXCEPT !.found = "not ELF"]}
MCElf    == {Small}
MCFrames == 1 .. 16
MCGrow   == {-5, 5}
MCMap    == {[length |-> 1, shared |-> TRUE], [length |-> 2, shared |-> FALSE]}

\* Frames, and slots, are alike: only how many are free or lost, which entries of the page
\* tables and which trapframes have one, the areas of the
\* tasks, and whether all are apart.
Shape == <<part, mapVars, Cardinality(free), Cardinality(lost),
           [t \in Tasks |-> {e \in Entries : pagetable[t][e] # None}],
           {t \in Tasks : trapframe[t] # None},
           [t \in Tasks |-> [i \in Indices |-> IF i \in Mine(t) THEN Of(t, i) ELSE None]],
           Cardinality(FreeSlots), state, sz, iref, panicked, FramesOwned, AreasOwned>>

\* Two keys share a chain.
CONSTANTS k1, k2, k3
MCHash == (k1 :> 0) @@ (k2 :> 0) @@ (k3 :> 1)
-----------------------------------------------------------------------------
MCInit == part \in {"memory", "heap"} /\ Init /\ MapInit

MCNext ==
    /\ UNCHANGED part
    /\ IF part = "memory" THEN Next ELSE UNCHANGED vars
    /\ IF part = "heap" THEN MapNext ELSE UNCHANGED mapVars

MCSpec == MCInit /\ [][MCNext]_<<part, vars, mapVars>>
=============================================================================
