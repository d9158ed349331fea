---------------------------- MODULE MCBufferCache ----------------------------
(***************************************************************************)
(* BufferCache with more blocks than buffers.  Processes, files and values *)
(* are model values that the module only compares, so their permutations   *)
(* are symmetries.                                                         *)
(***************************************************************************)
EXTENDS BufferCache, TLC

MCSymmetry == Permutations(Procs) \cup Permutations(Files)
                   \cup Permutations(Values)
==============================================================================
