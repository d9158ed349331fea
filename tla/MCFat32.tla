------------------------------ MODULE MCFat32 ------------------------------
(***************************************************************************)
(* Fat32 with two names.  A lookup of the first finds the second, because  *)
(* it begins with the first up to case; an unlink of the first does not.   *)
(***************************************************************************)
EXTENDS Fat32, TLC

MCAlike == {<<"a", "Ab">>}

\* Bound: once exit has leaked a reference, one process at a time has a file
\* open or is in a call.
MCOneAfterLeak ==
    NoLeak \/ \E p \in Procs : pc[p] = "idle" /\ file[p] = None

MCSymmetry == Permutations(Procs) \cup Permutations(Values)
=============================================================================
