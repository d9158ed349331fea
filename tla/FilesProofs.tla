---------------------------- MODULE FilesProofs ----------------------------
(***************************************************************************)
(* Proofs about Files.  A call works on a state s of the objects, the      *)
(* pipes and the inodes; c counts, for each object, the references that    *)
(* descriptors, or the call itself, still hold.  Dup and Close keep the    *)
(* two in step, and each call is a sequence of them.                       *)
(***************************************************************************)
EXTENDS Files, FiniteSetTheorems, WellFoundedInduction, TLAPS

FileStates ==
    [file : [FileIds -> FileObjects \cup {None}],
     pipe : [PipeIds -> SUBSET {"r", "w"}], iref : [Inodes -> Int]]

(* An object of a pipe is one end of it, and no two objects are the same   *)
(* end.                                                                    *)
EndsInv(s) ==
    /\ \A f \in FileIds :
         s.file[f] # None /\ s.file[f].pipe # None =>
             s.file[f].ends = {"r"} \/ s.file[f].ends = {"w"}
    /\ \A f, g \in FileIds :
         f # g /\ s.file[f] # None /\ s.file[g] # None /\ s.file[f].pipe # None
             /\ s.file[f].pipe = s.file[g].pipe
         => s.file[f].ends \cap s.file[g].ends = {}

PipesInv(s) ==
    \A q \in PipeIds : \A e :
        e \in s.pipe[q] <=> \E f \in FileIds : /\ s.file[f] # None
                                               /\ s.file[f].pipe = q
                                               /\ e \in s.file[f].ends

RefsInv(s, c) ==
    \A f \in FileIds : c[f] > 0 => s.file[f] # None /\ s.file[f].ref >= c[f]

Sound(s, c) ==
    /\ s \in FileStates
    /\ c \in [FileIds -> Nat]
    /\ EndsInv(s)
    /\ PipesInv(s)
    /\ RefsInv(s, c)

More(c, f) == [c EXCEPT ![f] = @ + 1]
Less(c, f) == [c EXCEPT ![f] = @ - 1]

(* s2 is s with the reference count of f set to r. *)
RefChanged(s, s2, f, r) ==
    /\ s2 \in FileStates
    /\ s2.pipe = s.pipe /\ s2.iref = s.iref
    /\ \A g \in FileIds \ {f} : s2.file[g] = s.file[g]
    /\ s2.file[f] # None
    /\ s2.file[f].ref = r /\ s2.file[f].pipe = s.file[f].pipe
    /\ s2.file[f].ends = s.file[f].ends
    /\ s2.file[f].inode = s.file[f].inode

(* s2 is s without the object f and its end of its pipe. *)
Dropped(s, s2, f) ==
    /\ s2 \in FileStates
    /\ s2.iref = s.iref
    /\ \A g \in FileIds \ {f} : s2.file[g] = s.file[g]
    /\ s2.file[f] = None
    /\ \A q \in PipeIds : s2.pipe[q] = IF q = s.file[f].pipe
                                       THEN s.pipe[q] \ s.file[f].ends
                                       ELSE s.pipe[q]

(* Writing a reference count leaves the rest of the state alone. *)
LEMMA RefSet ==
    ASSUME NEW s \in FileStates, NEW f \in FileIds, s.file[f] # None,
           NEW r \in Nat \ {0}, NEW s2, s2 = [s EXCEPT !.file[f].ref = r]
    PROVE  RefChanged(s, s2, f, r)
<1>1. PICK o : o = [s.file[f] EXCEPT !.ref = r]
  OBVIOUS
<1>2. s.file[f] \in FileObjects
  BY DEF FileStates
<1>3. /\ o \in FileObjects
      /\ o.ref = r /\ o.pipe = s.file[f].pipe
      /\ o.ends = s.file[f].ends /\ o.inode = s.file[f].inode
  BY <1>1, <1>2 DEF FileObjects
<1>4. o # None
  BY <1>3, NoneAssumption
<1>5. PICK fs : fs = [s.file EXCEPT ![f] = o]
  OBVIOUS
<1>6. /\ fs \in [FileIds -> FileObjects \cup {None}]
      /\ fs[f] = o
      /\ \A g \in FileIds \ {f} : fs[g] = s.file[g]
  BY <1>3, <1>5 DEF FileStates
<1>7. s2 = [s EXCEPT !.file = fs]
  BY <1>1, <1>5
<1>8. s2.file = fs /\ s2.pipe = s.pipe /\ s2.iref = s.iref /\ s2 \in FileStates
  BY <1>6, <1>7 DEF FileStates
<1> QED BY <1>3, <1>4, <1>6, <1>8 DEF RefChanged

(* Drop takes away one object and its end of its pipe. *)
LEMMA DropSet ==
    ASSUME NEW s \in FileStates, NEW f \in FileIds, s.file[f] # None,
           NEW s2, s2 = Drop(s, f)
    PROVE  Dropped(s, s2, f)
<1>1. /\ s.file[f] \in FileObjects
      /\ s.file \in [FileIds -> FileObjects \cup {None}]
      /\ s.pipe \in [PipeIds -> SUBSET {"r", "w"}]
  BY DEF FileStates
<1>2. s.file[f].pipe \in PipeIds \cup {None} /\ s.file[f].ends \in SUBSET {"r", "w"}
  BY <1>1 DEF FileObjects
<1>3. None \notin PipeIds
  BY NoneAssumption, FilesAssumption DEF PipeIds
<1>4. PICK fs : fs = [s.file EXCEPT ![f] = None]
  OBVIOUS
<1>5. PICK ps : ps = IF s.file[f].pipe = None THEN s.pipe
                     ELSE [s.pipe EXCEPT ![s.file[f].pipe] = @ \ s.file[f].ends]
  OBVIOUS
<1>6. /\ fs \in [FileIds -> FileObjects \cup {None}]
      /\ fs[f] = None
      /\ \A g \in FileIds \ {f} : fs[g] = s.file[g]
  BY <1>1, <1>4
<1>7. /\ ps \in [PipeIds -> SUBSET {"r", "w"}]
      /\ \A q \in PipeIds : ps[q] = IF q = s.file[f].pipe
                                    THEN s.pipe[q] \ s.file[f].ends ELSE s.pipe[q]
  BY <1>1, <1>2, <1>3, <1>5
<1>8. s2 = [s EXCEPT !.file = fs, !.pipe = ps]
  BY <1>4, <1>5 DEF Drop
<1>9. s2 = [file |-> fs, pipe |-> ps, iref |-> s.iref]
  BY <1>8 DEF FileStates
<1>10. s.iref \in [Inodes -> Int]
  BY DEF FileStates
<1> QED BY <1>6, <1>7, <1>9, <1>10 DEF FileStates, Dropped

(* A reference count that is written leaves pipes and their ends as they   *)
(* were.                                                                   *)
LEMMA RefSound ==
    ASSUME NEW s, NEW c, Sound(s, c), NEW f \in FileIds, s.file[f] # None,
           NEW r \in Nat \ {0}, NEW s2, s2 = [s EXCEPT !.file[f].ref = r],
           NEW c2 \in [FileIds -> Nat], c2[f] <= r,
           \A g \in FileIds \ {f} : c2[g] = c[g]
    PROVE  Sound(s2, c2) /\ s2.iref = s.iref
<1>0. s \in FileStates
  BY DEF Sound
<1>1. RefChanged(s, s2, f, r)
  BY <1>0, RefSet
<1>2. \A g \in FileIds :
        /\ s2.file[g] = None <=> s.file[g] = None
        /\ s2.file[g].pipe = s.file[g].pipe
        /\ s2.file[g].ends = s.file[g].ends
  BY <1>1 DEF RefChanged
<1>3. EndsInv(s2)
  BY <1>2 DEF Sound, EndsInv
<1>4. PipesInv(s2)
  BY <1>1, <1>2 DEF Sound, PipesInv, RefChanged
<1>5. RefsInv(s2, c2)
  BY <1>1 DEF Sound, RefsInv, RefChanged
<1> QED BY <1>1, <1>3, <1>4, <1>5 DEF Sound, RefChanged

(* file::dup: one more reference, for one more holder. *)
LEMMA DupSound ==
    ASSUME NEW s, NEW c, Sound(s, c), NEW f \in FileIds, s.file[f] # None,
           s.file[f].ref >= c[f]
    PROVE  /\ Sound(Dup(s, f), More(c, f))
           /\ Dup(s, f).iref = s.iref
           /\ Dup(s, f).file[f] # None
           /\ Dup(s, f).file[f].ref = s.file[f].ref + 1
           /\ \A g \in FileIds : /\ Dup(s, f).file[g] = None <=> s.file[g] = None
                                 /\ Dup(s, f).file[g].inode = s.file[g].inode
<1>1. s.file[f] \in FileObjects
  BY DEF Sound, FileStates
<1>2. s.file[f].ref \in Nat \ {0} /\ s \in FileStates /\ c \in [FileIds -> Nat]
  BY <1>1 DEF FileObjects, Sound
<1>3. PICK r : r = s.file[f].ref + 1
  OBVIOUS
<1>4. Dup(s, f) = [s EXCEPT !.file[f].ref = r]
  BY <1>3 DEF Dup
<1>5. r \in Nat \ {0} /\ c[f] + 1 <= r
  BY <1>2, <1>3
<1>6. /\ More(c, f) \in [FileIds -> Nat]
      /\ More(c, f)[f] = c[f] + 1
      /\ \A g \in FileIds \ {f} : More(c, f)[g] = c[g]
  BY <1>2 DEF More
<1>7. Sound(Dup(s, f), More(c, f)) /\ Dup(s, f).iref = s.iref
  BY <1>4, <1>5, <1>6, RefSound
<1>8. RefChanged(s, Dup(s, f), f, r)
  BY <1>2, <1>4, <1>5, RefSet
<1> QED BY <1>3, <1>7, <1>8 DEF RefChanged

(* OldClose, the close of exit: one reference less, for one holder less;   *)
(* with the last one the object goes, and its end of the pipe.             *)
LEMMA OldCloseSound ==
    ASSUME NEW s, NEW c, Sound(s, c), NEW f \in FileIds, c[f] > 0
    PROVE  /\ Sound(OldClose(s, f), Less(c, f))
           /\ OldClose(s, f).iref = s.iref
           /\ \A g \in FileIds :
                OldClose(s, f).file[g] # None =>
                    /\ s.file[g] # None
                    /\ OldClose(s, f).file[g].inode = s.file[g].inode
<1>1. /\ s \in FileStates /\ c \in [FileIds -> Nat]
      /\ s.file[f] # None /\ s.file[f].ref >= c[f]
  BY DEF Sound, RefsInv
<1>2. s.file[f].ref \in Nat \ {0}
  <2>1. s.file[f] \in FileObjects
    BY <1>1 DEF FileStates
  <2> QED BY <2>1 DEF FileObjects
<1>3. /\ Less(c, f) \in [FileIds -> Nat]
      /\ Less(c, f)[f] = c[f] - 1
      /\ \A g \in FileIds \ {f} : Less(c, f)[g] = c[g]
  BY <1>1 DEF Less
<1>4. CASE s.file[f].ref > 1
  <2>1. PICK r : r = s.file[f].ref - 1
    OBVIOUS
  <2>2. OldClose(s, f) = [s EXCEPT !.file[f].ref = r]
    BY <1>4, <2>1 DEF OldClose
  <2>3. r \in Nat \ {0} /\ c[f] - 1 <= r
    BY <1>1, <1>2, <1>4, <2>1
  <2>4. Sound(OldClose(s, f), Less(c, f)) /\ OldClose(s, f).iref = s.iref
    BY <1>1, <1>3, <2>2, <2>3, RefSound
  <2>5. RefChanged(s, OldClose(s, f), f, r)
    BY <1>1, <2>2, <2>3, RefSet
  <2> QED BY <1>1, <2>4, <2>5 DEF RefChanged
<1>5. CASE ~(s.file[f].ref > 1)
  <2>1. PICK s2 : s2 = Drop(s, f)
    OBVIOUS
  <2>2. OldClose(s, f) = s2
    BY <1>5, <2>1 DEF OldClose
  <2>3. Dropped(s, s2, f)
    BY <1>1, <2>1, DropSet
  <2> USE DEF Dropped
  <2>4. EndsInv(s2)
    BY <2>3 DEF EndsInv, Sound
  <2>5. PipesInv(s2)
    <3> SUFFICES ASSUME NEW q \in PipeIds, NEW e
                 PROVE  e \in s2.pipe[q] <=>
                          \E g \in FileIds : /\ s2.file[g] # None
                                             /\ s2.file[g].pipe = q
                                             /\ e \in s2.file[g].ends
      BY DEF PipesInv
    <3>1. e \in s.pipe[q] <=>
            \E g \in FileIds : /\ s.file[g] # None
                               /\ s.file[g].pipe = q
                               /\ e \in s.file[g].ends
      BY DEF PipesInv, Sound
    <3>2. CASE q = s.file[f].pipe
      <4>1. q # None
        BY NoneAssumption, FilesAssumption DEF PipeIds
      <4>2. \A g \in FileIds \ {f} :
              s.file[g] # None /\ s.file[g].pipe = q
              => s.file[f].ends \cap s.file[g].ends = {}
        BY <1>1, <3>2, <4>1 DEF EndsInv, Sound
      <4>3. e \in s2.pipe[q] <=> e \in s.pipe[q] /\ e \notin s.file[f].ends
        BY <2>3, <3>2
      <4> QED BY <2>3, <3>1, <4>2, <4>3
    <3>3. CASE q # s.file[f].pipe
      BY <2>3, <3>1, <3>3
    <3> QED BY <3>2, <3>3
  <2>6. c[f] = 1
    BY <1>1, <1>2, <1>5
  <2>7. RefsInv(s2, Less(c, f))
    BY <1>1, <1>3, <2>3, <2>6 DEF RefsInv, Sound
  <2> QED BY <1>3, <2>2, <2>3, <2>4, <2>5, <2>7 DEF Sound
<1> QED BY <1>4, <1>5

(* Soundness is about objects and pipes: the inodes' counts may be any. *)
LEMMA IrefFree ==
    ASSUME NEW s, NEW c, Sound(s, c), NEW r \in [Inodes -> Int],
           NEW s2, s2 = [s EXCEPT !.iref = r]
    PROVE  /\ Sound(s2, c)
           /\ s2.file = s.file /\ s2.pipe = s.pipe /\ s2.iref = r
<1>1. s \in FileStates
  BY DEF Sound
<1>2. s2 = [file |-> s.file, pipe |-> s.pipe, iref |-> r]
  BY <1>1 DEF FileStates
<1>3. s2.file = s.file /\ s2.pipe = s.pipe /\ s2.iref = r /\ s2 \in FileStates
  BY <1>1, <1>2 DEF FileStates
<1> QED BY <1>3 DEF Sound, EndsInv, PipesInv, RefsInv

(* VfsManager::close is OldClose, but that the last reference also frees   *)
(* the inode.                                                              *)
LEMMA CloseSound ==
    ASSUME NEW s, NEW c, Sound(s, c), NEW f \in FileIds, c[f] > 0
    PROVE  /\ Sound(Close(s, f), Less(c, f))
           /\ Close(s, f).file = OldClose(s, f).file
           /\ Close(s, f).iref = IF ~(s.file[f].ref > 1) /\ s.file[f].inode # None
                                 THEN Put(s.iref, s.file[f].inode) ELSE s.iref
<1>1. /\ s \in FileStates /\ s.file[f] # None
  BY DEF Sound, RefsInv
<1>2. s.file[f].inode \in Inodes \cup {None}
  <2>1. s.file[f] \in FileObjects
    BY <1>1 DEF FileStates
  <2> QED BY <2>1 DEF FileObjects
<1>3. Sound(OldClose(s, f), Less(c, f)) /\ OldClose(s, f).iref = s.iref
  BY OldCloseSound
<1>4. CASE s.file[f].ref > 1 \/ s.file[f].inode = None
  <2>1. Close(s, f) = OldClose(s, f)
    BY <1>4 DEF Close, OldClose
  <2> QED BY <1>3, <1>4, <2>1
<1>5. CASE ~(s.file[f].ref > 1) /\ s.file[f].inode # None
  <2>1. PICK o : o = OldClose(s, f)
    OBVIOUS
  <2>2. o = Drop(s, f)
    BY <1>5, <2>1 DEF OldClose
  <2>3. Sound(o, Less(c, f)) /\ o.iref = s.iref
    BY <1>3, <2>1
  <2>4. PICK r : r = Put(s.iref, s.file[f].inode)
    OBVIOUS
  <2>5. r \in [Inodes -> Int]
    <3>1. PICK j : j = s.file[f].inode
      OBVIOUS
    <3>2. PICK t : t = s.iref
      OBVIOUS
    <3>3. j \in Inodes /\ t \in [Inodes -> Int]
      BY <1>1, <1>2, <1>5, <3>1, <3>2 DEF FileStates
    <3>4. r = [t EXCEPT ![j] = @ - 1]
      BY <2>4, <3>1, <3>2 DEF Put
    <3> QED BY <3>3, <3>4
  <2>6. Close(s, f) = [o EXCEPT !.iref = Put(@, s.file[f].inode)]
    BY <1>5, <2>2 DEF Close
  <2>7. Close(s, f) = [o EXCEPT !.iref = r]
    BY <2>3, <2>4, <2>6
  <2>8. /\ Sound(Close(s, f), Less(c, f))
        /\ Close(s, f).file = o.file /\ Close(s, f).iref = r
    BY <2>3, <2>5, <2>7, IrefFree
  <2> QED BY <1>5, <2>1, <2>4, <2>8
<1> QED BY <1>4, <1>5

(* The files that are open on an inode. *)
OpenOn(s, i) == {f \in FileIds : s.file[f] # None /\ s.file[f].inode = i}

(* An inode counts the files that are open on it and w others. *)
InodesInv(s, w) ==
    \A i \in Inodes : s.iref[i] >= Cardinality(OpenOn(s, i)) + w[i]

(* The numbers of objects are finite. *)
LEMMA FewFiles ==
    ASSUME NEW S \in SUBSET FileIds
    PROVE  IsFiniteSet(S) /\ Cardinality(S) \in Nat
<1>1. IsFiniteSet(FileIds)
  BY FilesAssumption, FS_Interval DEF FileIds
<1> QED BY <1>1, FS_Subset, FS_CardinalityType

(* With no more files open on it, an inode is held as before. *)
LEMMA FewerOpen ==
    ASSUME NEW s, NEW s2, NEW w \in [Inodes -> Int], InodesInv(s, w),
           s.iref \in [Inodes -> Int], s2.iref = s.iref,
           \A g \in FileIds : s2.file[g] # None =>
               s.file[g] # None /\ s2.file[g].inode = s.file[g].inode
    PROVE  InodesInv(s2, w)
<1> SUFFICES ASSUME NEW i \in Inodes
             PROVE  s2.iref[i] >= Cardinality(OpenOn(s2, i)) + w[i]
  BY DEF InodesInv
<1>1. s.iref[i] >= Cardinality(OpenOn(s, i)) + w[i]
  BY DEF InodesInv
<1>2. OpenOn(s2, i) \subseteq OpenOn(s, i) /\ OpenOn(s, i) \in SUBSET FileIds
  BY DEF OpenOn
<1>3. /\ IsFiniteSet(OpenOn(s, i))
      /\ Cardinality(OpenOn(s, i)) \in Nat /\ Cardinality(OpenOn(s2, i)) \in Nat
  BY <1>2, FewFiles
<1>4. Cardinality(OpenOn(s2, i)) <= Cardinality(OpenOn(s, i))
  BY <1>2, <1>3, FS_Subset
<1>5. s.iref[i] \in Int /\ w[i] \in Int
  OBVIOUS
<1> QED BY <1>1, <1>3, <1>4, <1>5

LEMMA CloseInodes ==
    ASSUME NEW s, NEW c, Sound(s, c), NEW f \in FileIds, c[f] > 0,
           NEW w \in [Inodes -> Int], InodesInv(s, w)
    PROVE  InodesInv(OldClose(s, f), w) /\ InodesInv(Close(s, f), w)
<1>1. s.iref \in [Inodes -> Int] /\ s.file[f] # None /\ s \in FileStates
  BY DEF Sound, RefsInv, FileStates
<1>2. /\ OldClose(s, f).iref = s.iref
      /\ \A g \in FileIds :
           OldClose(s, f).file[g] # None =>
               /\ s.file[g] # None
               /\ OldClose(s, f).file[g].inode = s.file[g].inode
  BY OldCloseSound
<1>3. InodesInv(OldClose(s, f), w)
  BY <1>1, <1>2, FewerOpen
<1>4. /\ Close(s, f).file = OldClose(s, f).file
      /\ Close(s, f).iref = IF ~(s.file[f].ref > 1) /\ s.file[f].inode # None
                            THEN Put(s.iref, s.file[f].inode) ELSE s.iref
  BY CloseSound
<1>5. CASE s.file[f].ref > 1 \/ s.file[f].inode = None
  <2>1. Close(s, f).iref = s.iref
    BY <1>4, <1>5
  <2> QED BY <1>1, <1>2, <1>3, <1>4, <2>1, FewerOpen
<1>6. CASE ~(s.file[f].ref > 1) /\ s.file[f].inode # None
  <2>1. PICK j : j = s.file[f].inode
    OBVIOUS
  <2>2. Close(s, f).iref = [s.iref EXCEPT ![j] = @ - 1]
    BY <1>4, <1>6, <2>1 DEF Put
  <2>3. OldClose(s, f).file[f] = None
    <3>1. OldClose(s, f) = Drop(s, f)
      BY <1>6 DEF OldClose
    <3>2. Dropped(s, Drop(s, f), f)
      BY <1>1, DropSet
    <3> QED BY <3>1, <3>2 DEF Dropped
  <2> SUFFICES ASSUME NEW i \in Inodes
               PROVE  Close(s, f).iref[i] >= Cardinality(OpenOn(Close(s, f), i)) + w[i]
    BY <1>3 DEF InodesInv
  <2>4. OpenOn(Close(s, f), i) \subseteq OpenOn(s, i) \ {f}
    BY <1>2, <1>4, <2>3 DEF OpenOn
  <2>5. /\ OpenOn(s, i) \in SUBSET FileIds
        /\ OpenOn(s, i) \ {f} \in SUBSET FileIds
        /\ OpenOn(Close(s, f), i) \in SUBSET FileIds
    BY DEF OpenOn
  <2>6. /\ Cardinality(OpenOn(s, i)) \in Nat
        /\ Cardinality(OpenOn(s, i) \ {f}) \in Nat
        /\ Cardinality(OpenOn(Close(s, f), i)) \in Nat
        /\ IsFiniteSet(OpenOn(s, i)) /\ IsFiniteSet(OpenOn(s, i) \ {f})
    BY <2>5, FewFiles
  <2>7. Cardinality(OpenOn(Close(s, f), i)) <= Cardinality(OpenOn(s, i) \ {f})
    BY <2>4, <2>6, FS_Subset
  <2>8. Cardinality(OpenOn(s, i) \ {f}) =
          IF f \in OpenOn(s, i) THEN Cardinality(OpenOn(s, i)) - 1
          ELSE Cardinality(OpenOn(s, i))
    BY <2>6, FS_RemoveElement
  <2>9. f \in OpenOn(s, i) <=> i = j
    BY <1>1, <2>1 DEF OpenOn
  <2>10. Close(s, f).iref[i] = IF i = j THEN s.iref[i] - 1 ELSE s.iref[i]
    BY <1>1, <2>2
  <2>11. s.iref[i] >= Cardinality(OpenOn(s, i)) + w[i]
    BY DEF InodesInv
  <2>12. s.iref[i] \in Int /\ w[i] \in Int
    BY <1>1
  <2> QED BY <2>6, <2>7, <2>8, <2>9, <2>10, <2>11, <2>12
<1> QED BY <1>3, <1>5, <1>6

(* The descriptors of all processes that hold an object, and their number. *)
FdTables == [Procs -> [Fds -> FileIds \cup {None}]]
HoldersOf(t, f) == {x \in Procs \X Fds : t[x[1]][x[2]] = f}
Held(t) == [f \in FileIds |-> Cardinality(HoldersOf(t, f))]

SetSlot(t, p, n, f) == [t EXCEPT ![p][n] = f]

LEMMA FewHolders ==
    ASSUME NEW t, NEW f
    PROVE  IsFiniteSet(HoldersOf(t, f)) /\ Cardinality(HoldersOf(t, f)) \in Nat
<1>1. IsFiniteSet(Fds)
  BY FilesAssumption, FS_Interval DEF Fds
<1>2. IsFiniteSet(Procs \X Fds)
  BY <1>1, FilesAssumption, FS_Product
<1>3. HoldersOf(t, f) \subseteq Procs \X Fds
  BY DEF HoldersOf
<1> QED BY <1>2, <1>3, FS_Subset, FS_CardinalityType

(* A descriptor that is filled is one more holder of its object, and one   *)
(* that is cleared one less.                                               *)
LEMMA SlotFilled ==
    ASSUME NEW t \in FdTables, NEW p \in Procs, NEW n \in Fds, t[p][n] = None,
           NEW f \in FileIds, NEW t2, t2 = SetSlot(t, p, n, f)
    PROVE  t2 \in FdTables /\ Held(t2) = More(Held(t), f)
<1>1. /\ t2 \in FdTables
      /\ \A q \in Procs, m \in Fds :
           t2[q][m] = IF q = p /\ m = n THEN f ELSE t[q][m]
  BY DEF FdTables, SetSlot
<1>2. None \notin FileIds
  BY NoneAssumption, FilesAssumption DEF FileIds
<1>3. HoldersOf(t2, f) = HoldersOf(t, f) \cup {<<p, n>>}
  BY <1>1 DEF HoldersOf
<1>4. <<p, n>> \notin HoldersOf(t, f)
  BY <1>2 DEF HoldersOf
<1>5. Cardinality(HoldersOf(t2, f)) = Cardinality(HoldersOf(t, f)) + 1
  BY <1>3, <1>4, FewHolders, FS_AddElement
<1>6. \A g \in FileIds \ {f} : HoldersOf(t2, g) = HoldersOf(t, g)
  BY <1>1, <1>2 DEF HoldersOf
<1>7. More(Held(t), f) = [g \in FileIds |-> IF g = f THEN Held(t)[f] + 1 ELSE Held(t)[g]]
  BY DEF More, Held
<1> QED BY <1>1, <1>5, <1>6, <1>7 DEF Held

LEMMA SlotCleared ==
    ASSUME NEW t \in FdTables, NEW p \in Procs, NEW n \in Fds,
           NEW f \in FileIds, t[p][n] = f, NEW t2, t2 = SetSlot(t, p, n, None)
    PROVE  t2 \in FdTables /\ Held(t2) = Less(Held(t), f) /\ Held(t)[f] > 0
<1>1. /\ t2 \in FdTables
      /\ \A q \in Procs, m \in Fds :
           t2[q][m] = IF q = p /\ m = n THEN None ELSE t[q][m]
  BY DEF FdTables, SetSlot
<1>2. None \notin FileIds
  BY NoneAssumption, FilesAssumption DEF FileIds
<1>3. HoldersOf(t2, f) = HoldersOf(t, f) \ {<<p, n>>}
  BY <1>1, <1>2 DEF HoldersOf
<1>4. <<p, n>> \in HoldersOf(t, f)
  BY DEF HoldersOf
<1>5. Cardinality(HoldersOf(t2, f)) = Cardinality(HoldersOf(t, f)) - 1
  BY <1>3, <1>4, FewHolders, FS_RemoveElement
<1>6. \A g \in FileIds \ {f} : HoldersOf(t2, g) = HoldersOf(t, g)
  BY <1>1, <1>2 DEF HoldersOf
<1>7. Less(Held(t), f) = [g \in FileIds |-> IF g = f THEN Held(t)[f] - 1 ELSE Held(t)[g]]
  BY DEF Less, Held
<1>8. Held(t2) = Less(Held(t), f)
  BY <1>5, <1>6, <1>7 DEF Held
<1>9. Cardinality(HoldersOf(t, f)) # 0
  BY <1>4, FewHolders, FS_EmptySet
<1> QED BY <1>1, <1>8, <1>9, FewHolders DEF Held

-----------------------------------------------------------------------------
(* Paths.  s is a state of namex: the inode it is at, which it holds, and  *)
(* the references.  They stay above b, what others hold.                   *)

Walks == [ip : Inodes \cup {None}, r : [Inodes -> Int]]

Above(s, b) == \A i \in Inodes : s.r[i] >= b[i] + (IF s.ip = i THEN 1 ELSE 0)

LEMMA GetMore ==
    ASSUME NEW r \in [Inodes -> Int], NEW i \in Inodes, NEW dir \in Inodes
    PROVE  /\ Get(r, i, dir) \in [Inodes -> Int]
           /\ \A j \in Inodes : Get(r, i, dir)[j] >= r[j] + (IF j = i THEN 1 ELSE 0)
<1>1. CASE r[i] = 0
  <2>1. PICK u : u = [r EXCEPT ![i] = 1]
    OBVIOUS
  <2>2. Get(r, i, dir) = [u EXCEPT ![dir] = r[dir] + 1]
    BY <1>1, <2>1 DEF Get
  <2>3. u \in [Inodes -> Int] /\ \A j \in Inodes : u[j] = IF j = i THEN 1 ELSE r[j]
    BY <2>1
  <2> QED BY <1>1, <2>2, <2>3
<1>2. CASE r[i] # 0
  BY <1>2 DEF Get
<1> QED BY <1>1, <1>2

LEMMA PutLess ==
    ASSUME NEW r \in [Inodes -> Int], NEW i \in Inodes
    PROVE  /\ Put(r, i) \in [Inodes -> Int]
           /\ \A j \in Inodes : Put(r, i)[j] = r[j] - (IF j = i THEN 1 ELSE 0)
  BY DEF Put

(* What a directory names, and what is mounted on it, is an inode. *)
LEMMA EntriesNamed ==
    /\ \A x \in Entries : x[1] \in Inodes /\ x[3] \in Inodes
    /\ \A i \in Inodes : ConvertInodeByMp(i) \in Inodes
<1>1. \A x \in Entries : x[1] \in Inodes /\ x[3] \in Inodes
  BY DEF Entries, Inodes
<1>2. ASSUME NEW i \in Inodes PROVE ConvertInodeByMp(i) \in Inodes
  <2>1. CASE \E m \in Mount : m[1] = i
    <3>1. (CHOOSE m \in Mount : m[1] = i) \in Mount
      BY <2>1
    <3>2. \A m \in Mount : m[2] \in Inodes
      BY DEF Mount, Inodes
    <3> QED BY <2>1, <3>1, <3>2 DEF ConvertInodeByMp
  <2>2. CASE ~\E m \in Mount : m[1] = i
    BY <2>2 DEF ConvertInodeByMp
  <2> QED BY <2>1, <2>2
<1> QED BY <1>1, <1>2

(* One element of a path: the reference that is held moves along. *)
LEMMA StepAbove ==
    ASSUME NEW s \in Walks, NEW n, NEW b \in [Inodes -> Int]
    PROVE  /\ Step(s, n) \in Walks
           /\ Above(s, b) => Above(Step(s, n), b)
<1> DEFINE e == {x \in Entries : x[1] = s.ip /\ x[2] = n}
<1>0. None \notin Inodes /\ s.r \in [Inodes -> Int] /\ s.ip \in Inodes \cup {None}
  BY NoneAssumption DEF Walks
<1>1. CASE s.ip = None
  BY <1>1 DEF Step
<1>2. CASE s.ip # None /\ e = {}
  <2>1. Step(s, n) = [ip |-> None, r |-> Put(s.r, s.ip)]
    BY <1>2 DEF Step
  <2>2. s.ip \in Inodes
    BY <1>0, <1>2
  <2>3. /\ Put(s.r, s.ip) \in [Inodes -> Int]
        /\ \A j \in Inodes : Put(s.r, s.ip)[j] = s.r[j] - (IF j = s.ip THEN 1 ELSE 0)
    BY <1>0, <2>2, PutLess
  <2>4. Step(s, n) \in Walks
    BY <2>1, <2>3 DEF Walks
  <2>5. ASSUME Above(s, b) PROVE Above(Step(s, n), b)
    <3> SUFFICES ASSUME NEW i \in Inodes PROVE Put(s.r, s.ip)[i] >= b[i]
      BY <1>0, <2>1 DEF Above
    <3>1. s.r[i] >= b[i] + (IF s.ip = i THEN 1 ELSE 0)
      BY <2>5 DEF Above
    <3>2. s.r[i] \in Int /\ b[i] \in Int
      BY <1>0
    <3> QED BY <2>3, <3>1, <3>2
  <2> QED BY <2>4, <2>5
<1>3. CASE s.ip # None /\ e # {}
  <2> DEFINE next == (CHOOSE x \in e : TRUE)[3]
             got == Put(Get(s.r, next, s.ip), s.ip)
             conv == ConvertInodeByMp(next)
             last == IF conv = next THEN got ELSE Get(Put(got, next), conv, next)
  <2>1. Step(s, n) = [ip |-> conv, r |-> last]
    BY <1>3 DEF Step
  <2>2. next \in Inodes
    <3>1. (CHOOSE x \in e : TRUE) \in e
      BY <1>3
    <3> QED BY <3>1, EntriesNamed
  <2>3. conv \in Inodes /\ s.ip \in Inodes
    <3> HIDE DEF next
    <3> QED BY <1>0, <1>3, <2>2, EntriesNamed
  <2> HIDE DEF next, conv
  <2>4. PICK u : u = Get(s.r, next, s.ip)
    OBVIOUS
  <2>5. /\ u \in [Inodes -> Int]
        /\ \A j \in Inodes : u[j] >= s.r[j] + (IF j = next THEN 1 ELSE 0)
    BY <1>0, <2>2, <2>3, <2>4, GetMore
  <2>6. /\ got \in [Inodes -> Int]
        /\ \A j \in Inodes : got[j] = u[j] - (IF j = s.ip THEN 1 ELSE 0)
    BY <2>3, <2>4, <2>5, PutLess
  <2> HIDE DEF got
  <2>7. /\ last \in [Inodes -> Int]
        /\ \A j \in Inodes : last[j] >= got[j] - (IF j = next THEN 1 ELSE 0)
                                               + (IF j = conv THEN 1 ELSE 0)
    <3>1. CASE conv = next
      BY <2>2, <2>6, <3>1
    <3>2. CASE conv # next
      <4>1. PICK v : v = Put(got, next)
        OBVIOUS
      <4>2. /\ v \in [Inodes -> Int]
            /\ \A j \in Inodes : v[j] = got[j] - (IF j = next THEN 1 ELSE 0)
        BY <2>2, <2>6, <4>1, PutLess
      <4>3. /\ Get(v, conv, next) \in [Inodes -> Int]
            /\ \A j \in Inodes : Get(v, conv, next)[j] >= v[j] + (IF j = conv THEN 1 ELSE 0)
        BY <2>2, <2>3, <4>2, GetMore
      <4>4. last = Get(v, conv, next)
        BY <3>2, <4>1
      <4> HIDE DEF last
      <4> QED BY <2>6, <4>2, <4>3, <4>4
    <3> QED BY <3>1, <3>2
  <2> HIDE DEF last
  <2>8. Step(s, n) \in Walks
    BY <2>1, <2>3, <2>7 DEF Walks
  <2>9. ASSUME Above(s, b) PROVE Above(Step(s, n), b)
    <3> SUFFICES ASSUME NEW i \in Inodes
                 PROVE  last[i] >= b[i] + (IF conv = i THEN 1 ELSE 0)
      BY <2>1 DEF Above
    <3>1. s.r[i] >= b[i] + (IF s.ip = i THEN 1 ELSE 0)
      BY <2>9 DEF Above
    <3>2. s.r[i] \in Int /\ b[i] \in Int /\ u[i] \in Int /\ got[i] \in Int /\ last[i] \in Int
      BY <1>0, <2>5, <2>6, <2>7
    <3> QED BY <2>5, <2>6, <2>7, <3>1, <3>2
  <2> QED BY <2>8, <2>9
<1> QED BY <1>1, <1>2, <1>3

(* namex of a path of at most two elements, as the paths of this model. *)
LEMMA NamexAbove ==
    ASSUME NEW r \in [Inodes -> Int], NEW ip \in Inodes \cup {None}, NEW path,
           NEW k \in 0 .. 2, NEW b \in [Inodes -> Int]
    PROVE  /\ namex(r, ip, path, k) \in Walks
           /\ Above([ip |-> ip, r |-> r], b) => Above(namex(r, ip, path, k), b)
           /\ k = 0 => namex(r, ip, path, k) = [ip |-> ip, r |-> r]
<1> DEFINE w0 == [ip |-> ip, r |-> r]
           w1 == Step(w0, path[1])
           w2 == Step(w1, path[2])
           w[i \in 0 .. k] == IF i = 0 THEN w0 ELSE Step(w[i - 1], path[i])
<1>1. w0 \in Walks
  BY DEF Walks
<1>2. w1 \in Walks /\ (Above(w0, b) => Above(w1, b))
  <2> HIDE DEF w0
  <2> QED BY <1>1, StepAbove
<1>3. w2 \in Walks /\ (Above(w1, b) => Above(w2, b))
  <2> HIDE DEF w1
  <2> QED BY <1>2, StepAbove
<1>4. namex(r, ip, path, k) = w[k]
  BY DEF namex
<1>5. w = [i \in 0 .. k |-> IF i = 0 THEN w0 ELSE Step(w[i - 1], path[i])]
  <2> DEFINE u == [i \in 0 .. k |-> IF i = 0 THEN w0 ELSE IF i = 1 THEN w1 ELSE w2]
  <2>1. \A i \in 0 .. k : i # 0 => Step(u[i - 1], path[i]) = u[i]
    <3> SUFFICES ASSUME NEW i \in 0 .. k, i # 0
                 PROVE  Step(u[i - 1], path[i]) = u[i]
      OBVIOUS
    <3>1. i \in {1, 2} /\ i - 1 \in 0 .. k
      OBVIOUS
    <3>2. CASE i = 1
      <4>1. u[0] = w0 /\ u[1] = w1
        BY <3>1, <3>2
      <4> QED BY <3>2, <4>1
    <3>3. CASE i = 2
      <4>1. u[1] = w1 /\ u[2] = w2
        BY <3>1, <3>3
      <4> QED BY <3>3, <4>1
    <3> QED BY <3>1, <3>2, <3>3
  <2>2. u = [i \in 0 .. k |-> IF i = 0 THEN w0 ELSE Step(u[i - 1], path[i])]
    <3> HIDE DEF w0, w1, w2
    <3>1. \A i \in 0 .. k : u[i] = IF i = 0 THEN w0 ELSE Step(u[i - 1], path[i])
      BY <2>1
    <3>2. u = [i \in 0 .. k |-> u[i]]
      OBVIOUS
    <3> HIDE DEF u
    <3> QED BY <3>1, <3>2
  <2>3. \E x : x = [i \in 0 .. k |-> IF i = 0 THEN w0 ELSE Step(x[i - 1], path[i])]
    BY <2>2
  <2> QED BY <2>3
<1> HIDE DEF w, w0
<1>6. w[0] = w0
  BY <1>5
<1>7. k >= 1 => w[1] = w1
  <2> HIDE DEF w1
  <2>1. k >= 1 => w[1] = Step(w[0], path[1])
    BY <1>5
  <2> QED BY <2>1, <1>6 DEF w1
<1>8. k = 2 => w[2] = w2
  <2> HIDE DEF w2
  <2>1. k = 2 => w[2] = Step(w[1], path[2])
    BY <1>5
  <2> QED BY <2>1, <1>7 DEF w2
<1> HIDE DEF w1, w2
<1>9. k = 0 \/ k = 1 \/ k = 2
  OBVIOUS
<1>10. w[k] \in Walks /\ (Above(w0, b) => Above(w[k], b)) /\ (k = 0 => w[k] = w0)
  BY <1>1, <1>2, <1>3, <1>6, <1>7, <1>8, <1>9
<1> QED BY <1>4, <1>10 DEF w0

(* openat leaves every inode with the references others hold, and one for  *)
(* the file it found.  With O_CREATE that is so for a name in the          *)
(* directory the path starts from; nameiparent's inode is lost for others. *)
LEMMA LookupAbove ==
    ASSUME iref \in [Inodes -> Int], NEW dp \in Inodes, NEW path \in Paths,
           NEW create \in BOOLEAN
    PROVE  /\ Lookup(dp, path, create) \in Walks
           /\ (create => dp \in Dirs /\ Len(path) = 1)
              => Above(Lookup(dp, path, create), iref)
<1>1. PICK b : b = iref
  OBVIOUS
<1>2. PICK r0 : r0 = [b EXCEPT ![dp] = @ + 1]
  OBVIOUS
<1>3. /\ b \in [Inodes -> Int] /\ r0 \in [Inodes -> Int]
      /\ \A i \in Inodes : r0[i] = b[i] + (IF dp = i THEN 1 ELSE 0)
  BY <1>1, <1>2
<1>4. PICK k : k = Len(path)
  OBVIOUS
<1>5. k \in {1, 2}
  BY <1>4 DEF Paths
<1>6. Above([ip |-> dp, r |-> r0], b)
  BY <1>3 DEF Above
<1>7. PICK up : up = namex(r0, dp, path, k - 1)
  OBVIOUS
<1>8. up \in Walks /\ (k = 1 => up = [ip |-> dp, r |-> r0])
  <2>1. k - 1 \in 0 .. 2
    BY <1>5
  <2> QED BY <1>3, <1>7, <2>1, NamexAbove
<1>9. PICK left : left = IF up.ip \in Dirs \cup {None} THEN up.r ELSE Put(up.r, up.ip)
  OBVIOUS
<1>10. left \in [Inodes -> Int]
  <2>1. up.r \in [Inodes -> Int] /\ up.ip \in Inodes \cup {None}
    BY <1>8 DEF Walks
  <2>2. up.ip \in Inodes => Put(up.r, up.ip) \in [Inodes -> Int]
    BY <2>1, PutLess
  <2> QED BY <1>9, <2>1, <2>2
<1>11. k = 1 /\ dp \in Dirs => left = r0
  BY <1>8, <1>9
<1>12. CASE ~create
  <2>1. Lookup(dp, path, create) = namex(r0, dp, path, k)
    BY <1>1, <1>2, <1>4, <1>12 DEF Lookup
  <2>2. k \in 0 .. 2
    BY <1>5
  <2> QED BY <1>1, <1>3, <1>6, <2>1, <2>2, NamexAbove
<1>13. CASE create /\ path[k] = "a" /\ dp = "root"
  <2>1. Lookup(dp, path, create) = [ip |-> "a", r |-> Put(Get(left, "a", "root"), dp)]
    BY <1>1, <1>2, <1>4, <1>7, <1>9, <1>13 DEF Lookup
  <2>2. "a" \in Inodes /\ "root" \in Inodes
    BY DEF Inodes
  <2>3. PICK u : u = Get(left, "a", "root")
    OBVIOUS
  <2>4. /\ u \in [Inodes -> Int]
        /\ \A j \in Inodes : u[j] >= left[j] + (IF j = "a" THEN 1 ELSE 0)
    BY <1>10, <2>2, <2>3, GetMore
  <2>5. PICK v : v = Put(u, dp)
    OBVIOUS
  <2>6. /\ v \in [Inodes -> Int]
        /\ \A j \in Inodes : v[j] = u[j] - (IF j = dp THEN 1 ELSE 0)
    BY <2>4, <2>5, PutLess
  <2>7. Lookup(dp, path, create) = [ip |-> "a", r |-> v]
    BY <2>1, <2>3, <2>5
  <2>8. [ip |-> "a", r |-> v] \in Walks
    BY <2>2, <2>6 DEF Walks
  <2>9. ASSUME k = 1, dp \in Dirs PROVE Above([ip |-> "a", r |-> v], b)
    <3> SUFFICES ASSUME NEW i \in Inodes
                 PROVE  v[i] >= b[i] + (IF "a" = i THEN 1 ELSE 0)
      BY DEF Above
    <3>1. left[i] = b[i] + (IF dp = i THEN 1 ELSE 0)
      BY <1>3, <1>11, <2>9
    <3>2. v[i] \in Int /\ u[i] \in Int /\ left[i] \in Int /\ b[i] \in Int
      BY <1>3, <1>10, <2>4, <2>6
    <3> QED BY <2>4, <2>6, <3>1, <3>2
  <2> QED BY <1>1, <1>4, <1>13, <2>7, <2>8, <2>9
<1>14. CASE create /\ ~(path[k] = "a" /\ dp = "root")
  <2>1. Lookup(dp, path, create) = namex(left, dp, <<path[k]>>, 1)
    BY <1>1, <1>2, <1>4, <1>7, <1>9, <1>14 DEF Lookup
  <2>2. 1 \in 0 .. 2
    OBVIOUS
  <2>3. namex(left, dp, <<path[k]>>, 1) \in Walks
    BY <1>3, <1>10, <2>2, NamexAbove
  <2>4. ASSUME k = 1, dp \in Dirs
        PROVE  Above(namex(left, dp, <<path[k]>>, 1), b)
    <3>1. Above([ip |-> dp, r |-> left], b)
      BY <1>6, <1>11, <2>4
    <3> QED BY <1>3, <1>10, <2>2, <3>1, NamexAbove
  <2> QED BY <1>1, <1>4, <1>14, <2>1, <2>3, <2>4
<1> QED BY <1>12, <1>13, <1>14

-----------------------------------------------------------------------------
(* exit closes the descriptors one after the other.                        *)

LEMMA FirstOf ==
    ASSUME NEW S \in SUBSET Nat, S # {}
    PROVE  \E n \in S : \A m \in S : n <= m
<1>1. PICK n \in S : \A m \in S : ~ <<m, n>> \in OpToRel(<, Nat)
  BY NatLessThanWellFounded, WFMin
<1>2. \A m \in S : ~(m < n)
  BY <1>1 DEF OpToRel
<1> QED BY <1>2

CloseAll(s, t) ==
    LET c[n \in 0 .. NOFILE] ==
          IF n = 0 THEN s
          ELSE IF t[n - 1] = None THEN c[n - 1] ELSE OldClose(c[n - 1], t[n - 1])
    IN  c[NOFILE]

(* The table of the descriptors that are left when n have been closed. *)
Rest(t, p, n) == [t EXCEPT ![p] = [m \in Fds |-> IF m < n THEN None ELSE t[p][m]]]

LEMMA CloseAllSound ==
    ASSUME NEW s, NEW t \in FdTables, NEW p \in Procs, Sound(s, Held(t)),
           NEW w \in [Inodes -> Int]
    PROVE  /\ Sound(CloseAll(s, t[p]), Held([t EXCEPT ![p] = [n \in Fds |-> None]]))
           /\ CloseAll(s, t[p]).iref = s.iref
           /\ InodesInv(s, w) => InodesInv(CloseAll(s, t[p]), w)
<1> DEFINE G(x, n) == IF t[p][n - 1] = None THEN x ELSE OldClose(x, t[p][n - 1])
           c[n \in 0 .. NOFILE] == IF n = 0 THEN s ELSE G(c[n - 1], n)
<1>0. NOFILE \in Nat
  BY FilesAssumption
<1>1. CloseAll(s, t[p]) = c[NOFILE]
  BY DEF CloseAll
<1>2. c = [n \in 0 .. NOFILE |-> IF n = 0 THEN s ELSE G(c[n - 1], n)]
  <2> HIDE DEF G
  <2> DEFINE Has(k, u) == u = [n \in 0 .. k |-> IF n = 0 THEN s ELSE G(u[n - 1], n)]
             Bad == {k \in 0 .. NOFILE : ~\E u : Has(k, u)}
  <2>1. ASSUME Bad # {} PROVE FALSE
    <3>1. Bad \in SUBSET Nat
      BY <1>0
    <3>2. PICK k \in Bad : \A m \in Bad : k <= m
      <4> HIDE DEF Bad
      <4> QED BY <2>1, <3>1, FirstOf
    <3>3. k \in 0 .. NOFILE /\ ~\E u : Has(k, u)
      BY <3>2
    <3>4. CASE k = 0
      <4>1. Has(0, [n \in 0 .. 0 |-> s])
        OBVIOUS
      <4> HIDE DEF Has
      <4> QED BY <3>3, <3>4, <4>1
    <3>5. CASE k # 0
      <4>1. k - 1 \in 0 .. NOFILE /\ k - 1 \notin Bad
        <5> HIDE DEF Bad
        <5> QED BY <1>0, <3>1, <3>2, <3>3, <3>5
      <4>2. PICK u : Has(k - 1, u)
        BY <4>1
      <4>3. \A n \in 0 .. k - 1 : u[n] = IF n = 0 THEN s ELSE G(u[n - 1], n)
        BY <4>2
      <4> DEFINE v == [n \in 0 .. k |-> IF n = k THEN G(u[k - 1], k) ELSE u[n]]
      <4>4. \A n \in 0 .. k : v[n] = IF n = 0 THEN s ELSE G(v[n - 1], n)
        <5> SUFFICES ASSUME NEW n \in 0 .. k
                     PROVE  v[n] = IF n = 0 THEN s ELSE G(v[n - 1], n)
          OBVIOUS
        <5>1. CASE n = k
          <6>1. k - 1 \in 0 .. k /\ k - 1 # k
            BY <3>3, <3>5
          <6>2. v[k - 1] = u[k - 1]
            BY <6>1
          <6>3. v[k] = G(u[k - 1], k)
            BY <3>3
          <6> HIDE DEF v
          <6> QED BY <3>5, <5>1, <6>2, <6>3
        <5>2. CASE n # k
          <6>1. n \in 0 .. k - 1 /\ (n # 0 => n - 1 \in 0 .. k /\ n - 1 # k)
            BY <3>3, <5>2
          <6>2. v[n] = u[n] /\ (n # 0 => v[n - 1] = u[n - 1])
            BY <5>2, <6>1
          <6> HIDE DEF v
          <6> QED BY <4>3, <6>1, <6>2
        <5> QED BY <5>1, <5>2
      <4>5. v = [n \in 0 .. k |-> v[n]]
        OBVIOUS
      <4>6. Has(k, v)
        <5> HIDE DEF v
        <5> QED BY <4>4, <4>5
      <4> HIDE DEF Has
      <4> QED BY <3>3, <4>6
    <3> QED BY <3>4, <3>5
  <2>2. NOFILE \in 0 .. NOFILE
    BY <1>0
  <2>3. \E u : Has(NOFILE, u)
    <3> HIDE DEF Has
    <3> QED BY <2>1, <2>2
  <2> QED BY <2>3
<1> HIDE DEF c
<1> DEFINE Fine(n) == /\ Sound(c[n], Held(Rest(t, p, n)))
                      /\ c[n].iref = s.iref
                      /\ InodesInv(s, w) => InodesInv(c[n], w)
           Off == {n \in 0 .. NOFILE : ~Fine(n)}
<1>3. Fine(0)
  <2>1. c[0] = s
    <3> HIDE DEF G
    <3> QED BY <1>0, <1>2
  <2>2. Rest(t, p, 0) = t
    <3>1. [m \in Fds |-> IF m < 0 THEN None ELSE t[p][m]] = t[p]
      BY FilesAssumption DEF Fds, FdTables
    <3> QED BY <3>1 DEF Rest, FdTables
  <2> QED BY <2>1, <2>2
<1>4. ASSUME NEW n \in 0 .. NOFILE, n # 0, Fine(n - 1) PROVE Fine(n)
  <2>1. n - 1 \in Fds /\ n \in Nat
    BY <1>0, <1>4 DEF Fds
  <2>2. PICK x : x = c[n - 1]
    OBVIOUS
  <2>3. c[n] = G(x, n)
    <3> HIDE DEF G
    <3> QED BY <1>2, <1>4, <2>2
  <2>4. PICK a : a = Rest(t, p, n - 1)
    OBVIOUS
  <2>5. PICK b : b = Rest(t, p, n)
    OBVIOUS
  <2>6. /\ a \in FdTables /\ a[p][n - 1] = t[p][n - 1]
        /\ b = [a EXCEPT ![p][n - 1] = None]
    <3>1. PICK ra : ra = [m \in Fds |-> IF m < n - 1 THEN None ELSE t[p][m]]
      OBVIOUS
    <3>2. PICK rb : rb = [m \in Fds |-> IF m < n THEN None ELSE t[p][m]]
      OBVIOUS
    <3>3. /\ ra \in [Fds -> FileIds \cup {None}]
          /\ ra[n - 1] = t[p][n - 1]
      BY <2>1, <3>1 DEF FdTables
    <3>4. a = [t EXCEPT ![p] = ra] /\ b = [t EXCEPT ![p] = rb]
      BY <2>4, <2>5, <3>1, <3>2 DEF Rest
    <3>5. rb = [ra EXCEPT ![n - 1] = None]
      <4>1. \A m \in Fds : m < n <=> m < n - 1 \/ m = n - 1
        BY <2>1, <1>0 DEF Fds
      <4>2. \A m \in Fds : rb[m] = [ra EXCEPT ![n - 1] = None][m]
        BY <3>1, <3>2, <4>1
      <4>3. /\ rb = [m \in Fds |-> rb[m]]
            /\ [ra EXCEPT ![n - 1] = None] = [m \in Fds |-> [ra EXCEPT ![n - 1] = None][m]]
        BY <3>1, <3>2
      <4> QED BY <4>2, <4>3
    <3>6. a \in FdTables /\ a[p] = ra
      BY <3>3, <3>4 DEF FdTables
    <3>7. [a EXCEPT ![p][n - 1] = None] = [a EXCEPT ![p] = rb]
      BY <3>5, <3>6
    <3>8. [a EXCEPT ![p] = rb] = [t EXCEPT ![p] = rb]
      BY <3>4 DEF FdTables
    <3> QED BY <3>3, <3>4, <3>6, <3>7, <3>8
  <2>7. Sound(x, Held(a)) /\ x.iref = s.iref /\ (InodesInv(s, w) => InodesInv(x, w))
    BY <1>4, <2>2, <2>4
  <2>8. CASE t[p][n - 1] = None
    <3>1. c[n] = x
      BY <2>3, <2>8
    <3>2. b = a
      BY <2>6, <2>8 DEF FdTables
    <3> QED BY <2>5, <2>7, <3>1, <3>2
  <2>9. CASE t[p][n - 1] # None
    <3>1. PICK f : f = t[p][n - 1]
      OBVIOUS
    <3>2. f \in FileIds /\ a[p][n - 1] = f
      BY <2>1, <2>6, <2>9, <3>1 DEF FdTables
    <3>3. c[n] = OldClose(x, f)
      BY <2>3, <2>9, <3>1
    <3>4. Held(b) = Less(Held(a), f) /\ Held(a)[f] > 0
      <4>1. PICK j : j = n - 1
        OBVIOUS
      <4>2. a \in FdTables /\ j \in Fds /\ a[p][j] = f /\ f \in FileIds
        BY <2>1, <2>6, <3>2, <4>1
      <4>3. b = SetSlot(a, p, j, None)
        BY <2>6, <4>1 DEF SetSlot
      <4> QED BY <4>2, <4>3, SlotCleared
    <3>5. /\ Sound(OldClose(x, f), Less(Held(a), f))
          /\ OldClose(x, f).iref = x.iref
      BY <2>7, <3>2, <3>4, OldCloseSound
    <3>6. InodesInv(x, w) => InodesInv(OldClose(x, f), w)
      BY <2>7, <3>2, <3>4, CloseInodes
    <3> QED BY <2>5, <2>7, <3>3, <3>4, <3>5, <3>6
  <2> QED BY <2>8, <2>9
<1> HIDE DEF Fine
<1>5. ASSUME Off # {} PROVE FALSE
  <2>1. Off \in SUBSET Nat
    BY <1>0
  <2>2. PICK n \in Off : \A m \in Off : n <= m
    <3> HIDE DEF Off
    <3> QED BY <1>5, <2>1, FirstOf
  <2>3. n \in 0 .. NOFILE /\ ~Fine(n) /\ n # 0
    BY <2>2, <1>3
  <2>4. n - 1 \in 0 .. NOFILE /\ n - 1 \notin Off
    <3> HIDE DEF Off
    <3> QED BY <1>0, <2>1, <2>2, <2>3
  <2>5. Fine(n - 1)
    BY <2>4
  <2> QED BY <1>4, <2>3, <2>5
<1>6. Fine(NOFILE)
  <2>1. NOFILE \in 0 .. NOFILE
    BY <1>0
  <2> QED BY <1>5, <2>1
<1>7. Rest(t, p, NOFILE) = [t EXCEPT ![p] = [n \in Fds |-> None]]
  <2>1. \A m \in Fds : m < NOFILE
    BY <1>0 DEF Fds
  <2>2. [m \in Fds |-> IF m < NOFILE THEN None ELSE t[p][m]] = [m \in Fds |-> None]
    BY <2>1
  <2> QED BY <2>2 DEF Rest
<1> QED BY <1>1, <1>6, <1>7 DEF Fine

-----------------------------------------------------------------------------
(* New objects.                                                            *)

LEMMA NewFileSound ==
    ASSUME NEW s, NEW c, Sound(s, c), NEW f \in FileIds, s.file[f] = None,
           NEW i \in Inodes, NEW r \in [Inodes -> Int], NEW s2,
           s2 = [file |-> [s.file EXCEPT ![f] = InodeFile(i)],
                 pipe |-> s.pipe, iref |-> r],
           NEW w \in [Inodes -> Int]
    PROVE  /\ Sound(s2, More(c, f))
           /\ InodesInv(s, w)
              /\ (\A j \in Inodes : r[j] >= s.iref[j] + (IF i = j THEN 1 ELSE 0))
              => InodesInv(s2, w)
<1>0. s \in FileStates /\ c \in [FileIds -> Nat]
  BY DEF Sound
<1>1. PICK o : o = InodeFile(i)
  OBVIOUS
<1>2. /\ o \in FileObjects /\ o.ref = 1 /\ o.pipe = None /\ o.inode = i
  BY <1>1 DEF InodeFile, FileObjects
<1>3. o # None
  BY <1>2, NoneAssumption
<1>4. /\ s2.pipe = s.pipe /\ s2.iref = r
      /\ s2.file \in [FileIds -> FileObjects \cup {None}]
      /\ s2.file[f] = o
      /\ \A g \in FileIds \ {f} : s2.file[g] = s.file[g]
  BY <1>0, <1>1, <1>2 DEF FileStates
<1>5. s2 \in FileStates
  BY <1>0, <1>4 DEF FileStates
<1>6. EndsInv(s2)
  BY <1>2, <1>4 DEF Sound, EndsInv
<1>7. PipesInv(s2)
  <2>1. None \notin PipeIds
    BY NoneAssumption, FilesAssumption DEF PipeIds
  <2> QED BY <1>2, <1>4, <2>1 DEF Sound, PipesInv
<1>8. c[f] = 0
  BY <1>0 DEF Sound, RefsInv
<1>9. /\ More(c, f) \in [FileIds -> Nat]
      /\ More(c, f)[f] = 1
      /\ \A g \in FileIds \ {f} : More(c, f)[g] = c[g]
  BY <1>0, <1>8 DEF More
<1>10. RefsInv(s2, More(c, f))
  BY <1>2, <1>3, <1>4, <1>9 DEF Sound, RefsInv
<1>11. ASSUME InodesInv(s, w),
              \A j \in Inodes : r[j] >= s.iref[j] + (IF i = j THEN 1 ELSE 0)
       PROVE  InodesInv(s2, w)
  <2> SUFFICES ASSUME NEW j \in Inodes
               PROVE  s2.iref[j] >= Cardinality(OpenOn(s2, j)) + w[j]
    BY DEF InodesInv
  <2>1. s.iref[j] >= Cardinality(OpenOn(s, j)) + w[j]
    BY <1>11 DEF InodesInv
  <2>2. r[j] >= s.iref[j] + (IF i = j THEN 1 ELSE 0)
    BY <1>11
  <2>3. s.iref[j] \in Int /\ w[j] \in Int /\ r[j] \in Int
    BY <1>0 DEF FileStates
  <2>4. OpenOn(s, j) \in SUBSET FileIds /\ f \notin OpenOn(s, j)
    BY DEF OpenOn
  <2>5. IsFiniteSet(OpenOn(s, j)) /\ Cardinality(OpenOn(s, j)) \in Nat
    BY <2>4, FewFiles
  <2>6. CASE i = j
    <3>1. OpenOn(s2, j) = OpenOn(s, j) \cup {f}
      BY <1>2, <1>3, <1>4, <2>6 DEF OpenOn
    <3>2. Cardinality(OpenOn(s2, j)) = Cardinality(OpenOn(s, j)) + 1
      BY <2>4, <2>5, <3>1, FS_AddElement
    <3> QED BY <1>4, <2>1, <2>2, <2>3, <2>5, <2>6, <3>2
  <2>7. CASE i # j
    <3>1. OpenOn(s2, j) = OpenOn(s, j)
      BY <1>2, <1>3, <1>4, <2>7 DEF OpenOn
    <3> QED BY <1>4, <2>1, <2>2, <2>3, <2>5, <2>7, <3>1
  <2> QED BY <2>6, <2>7
<1>12. Sound(s2, More(c, f))
  BY <1>5, <1>6, <1>7, <1>9, <1>10 DEF Sound
<1> QED BY <1>11, <1>12

(* While an object is free, a pipe is free: each pipe with an open end has *)
(* an object.                                                              *)
LEMMA PipeFree ==
    ASSUME NEW s, NEW c, Sound(s, c), NEW f \in FileIds, s.file[f] = None
    PROVE  \E q \in PipeIds : s.pipe[q] = {}
<1> SUFFICES ASSUME \A q \in PipeIds : s.pipe[q] # {} PROVE FALSE
  OBVIOUS
<1>1. \A q \in PipeIds : \E g \in FileIds : s.file[g] # None /\ s.file[g].pipe = q
  BY DEF Sound, PipesInv
<1> DEFINE h == [q \in PipeIds |->
                  CHOOSE g \in FileIds : s.file[g] # None /\ s.file[g].pipe = q]
<1>2. \A q \in PipeIds : /\ h[q] \in FileIds
                         /\ s.file[h[q]] # None /\ s.file[h[q]].pipe = q
  BY <1>1
<1>3. h \in [PipeIds -> FileIds \ {f}]
  BY <1>2
<1> HIDE DEF h
<1>4. MaxFile \in Nat /\ MaxFile >= 1
  BY FilesAssumption DEF FileIds
<1>5. /\ IsFiniteSet(PipeIds) /\ Cardinality(PipeIds) = MaxFile
      /\ IsFiniteSet(FileIds) /\ Cardinality(FileIds) = MaxFile
  <2>1. 1 \in Int /\ MaxFile \in Int /\ ~(1 > MaxFile) /\ MaxFile - 1 + 1 = MaxFile
    BY <1>4
  <2>2. IsFiniteSet(1 .. MaxFile) /\ Cardinality(1 .. MaxFile) = MaxFile
    BY <2>1, FS_Interval
  <2> QED BY <2>2 DEF PipeIds, FileIds
<1>6. /\ IsFiniteSet(FileIds \ {f})
      /\ Cardinality(FileIds \ {f}) = MaxFile - 1
  BY <1>5, FS_RemoveElement
<1>7. Cardinality(FileIds \ {f}) < Cardinality(PipeIds)
  BY <1>4, <1>5, <1>6
<1>8. \E x, y \in PipeIds : x # y /\ h[x] = h[y]
  BY <1>3, <1>5, <1>6, <1>7, FS_PigeonHole
<1> QED BY <1>2, <1>8

WithPipe(s, f0, f1, q) ==
    [s EXCEPT !.file[f0] = PipeFile(q, "r"), !.file[f1] = PipeFile(q, "w"),
              !.pipe[q] = {"r", "w"}]

LEMMA NewPipeSound ==
    ASSUME NEW s, NEW c, Sound(s, c), NEW f0 \in FileIds, NEW f1 \in FileIds,
           f0 # f1, s.file[f0] = None, s.file[f1] = None,
           NEW q \in PipeIds, s.pipe[q] = {}, NEW s2,
           s2 = WithPipe(s, f0, f1, q),
           NEW w \in [Inodes -> Int]
    PROVE  /\ Sound(s2, More(More(c, f0), f1))
           /\ s2.iref = s.iref
           /\ InodesInv(s, w) => InodesInv(s2, w)
<1>0. s \in FileStates /\ c \in [FileIds -> Nat]
  BY DEF Sound
<1>1. PICK o0 : o0 = PipeFile(q, "r")
  OBVIOUS
<1>2. PICK o1 : o1 = PipeFile(q, "w")
  OBVIOUS
<1>3. /\ o0 \in FileObjects /\ o0.ref = 1 /\ o0.pipe = q /\ o0.ends = {"r"} /\ o0.inode = None
      /\ o1 \in FileObjects /\ o1.ref = 1 /\ o1.pipe = q /\ o1.ends = {"w"} /\ o1.inode = None
  BY <1>1, <1>2 DEF PipeFile, FileObjects
<1>4. o0 # None /\ o1 # None
  BY <1>3, NoneAssumption
<1>5. PICK fs : fs = [[s.file EXCEPT ![f0] = o0] EXCEPT ![f1] = o1]
  OBVIOUS
<1>6. PICK ps : ps = [s.pipe EXCEPT ![q] = {"r", "w"}]
  OBVIOUS
<1>7. /\ fs \in [FileIds -> FileObjects \cup {None}]
      /\ fs[f0] = o0 /\ fs[f1] = o1
      /\ \A g \in FileIds \ {f0, f1} : fs[g] = s.file[g]
      /\ ps \in [PipeIds -> SUBSET {"r", "w"}]
      /\ ps[q] = {"r", "w"}
      /\ \A x \in PipeIds \ {q} : ps[x] = s.pipe[x]
  BY <1>0, <1>3, <1>5, <1>6 DEF FileStates
<1>8. s2 = [file |-> fs, pipe |-> ps, iref |-> s.iref]
  BY <1>0, <1>1, <1>2, <1>5, <1>6 DEF FileStates, WithPipe
<1>9. /\ s2 \in FileStates /\ s2.file = fs /\ s2.pipe = ps /\ s2.iref = s.iref
  <2>1. PICK r : r = s.iref
    OBVIOUS
  <2>2. r \in [Inodes -> Int]
    BY <1>0, <2>1 DEF FileStates
  <2>3. [file |-> fs, pipe |-> ps, iref |-> r] \in FileStates
    BY <1>7, <2>2 DEF FileStates
  <2>4. s2.file = fs /\ s2.pipe = ps /\ s2.iref = s.iref
    BY <1>8
  <2> QED BY <1>8, <2>1, <2>3, <2>4
<1>10. q # None
  BY NoneAssumption, FilesAssumption DEF PipeIds
<1>11. \A g \in FileIds \ {f0, f1} : fs[g] # None => fs[g].pipe # q
  <2> SUFFICES ASSUME NEW g \in FileIds \ {f0, f1}, fs[g] # None, fs[g].pipe = q
               PROVE  FALSE
    OBVIOUS
  <2>1. s.file[g] # None /\ s.file[g].pipe = q
    BY <1>7
  <2>2. "r" \in s.file[g].ends \/ "w" \in s.file[g].ends
    BY <1>10, <2>1 DEF Sound, EndsInv
  <2>3. \A e : e \in s.file[g].ends => e \in s.pipe[q]
    BY <2>1 DEF Sound, PipesInv
  <2> QED BY <2>2, <2>3
<1>12. EndsInv(s2)
  <2>1. \A g \in FileIds : g = f0 \/ g = f1 \/ g \in FileIds \ {f0, f1}
    OBVIOUS
  <2>2. \A g \in FileIds : fs[g] # None /\ fs[g].pipe # None =>
            fs[g].ends = {"r"} \/ fs[g].ends = {"w"}
    BY <1>3, <1>7, <2>1 DEF Sound, EndsInv
  <2>3. ASSUME NEW g \in FileIds, NEW x \in FileIds, g # x, fs[g] # None,
               fs[x] # None, fs[g].pipe # None, fs[g].pipe = fs[x].pipe
        PROVE  fs[g].ends \cap fs[x].ends = {}
    <3>1. CASE fs[g].pipe = q
      <4>1. g \in {f0, f1} /\ x \in {f0, f1}
        BY <1>11, <2>3, <3>1
      <4> QED BY <1>3, <1>7, <2>3, <4>1
    <3>2. CASE fs[g].pipe # q
      <4>1. g \in FileIds \ {f0, f1} /\ x \in FileIds \ {f0, f1}
        BY <1>3, <1>7, <2>3, <3>2
      <4>2. fs[g] = s.file[g] /\ fs[x] = s.file[x]
        BY <1>7, <4>1
      <4> QED BY <2>3, <4>1, <4>2 DEF Sound, EndsInv
    <3> QED BY <3>1, <3>2
  <2> QED BY <1>9, <2>2, <2>3 DEF EndsInv
<1>13. PipesInv(s2)
  <2> SUFFICES ASSUME NEW x \in PipeIds, NEW e
               PROVE  e \in ps[x] <=> \E g \in FileIds : /\ fs[g] # None
                                                         /\ fs[g].pipe = x
                                                         /\ e \in fs[g].ends
    BY <1>9 DEF PipesInv
  <2>1. CASE x = q
    BY <1>3, <1>4, <1>7, <1>11, <2>1
  <2>2. CASE x # q
    <3>1. e \in s.pipe[x] <=> \E g \in FileIds : /\ s.file[g] # None
                                                 /\ s.file[g].pipe = x
                                                 /\ e \in s.file[g].ends
      BY DEF Sound, PipesInv
    <3> QED BY <1>3, <1>7, <2>2, <3>1
  <2> QED BY <2>1, <2>2
<1>14. c[f0] = 0 /\ c[f1] = 0
  BY <1>0 DEF Sound, RefsInv
<1>15. PICK c2 : c2 = More(More(c, f0), f1)
  OBVIOUS
<1>16. /\ c2 \in [FileIds -> Nat] /\ c2[f0] = 1 /\ c2[f1] = 1
       /\ \A g \in FileIds \ {f0, f1} : c2[g] = c[g]
  BY <1>0, <1>14, <1>15 DEF More
<1>17. RefsInv(s2, c2)
  <2>1. \A g \in FileIds \ {f0, f1} : c2[g] > 0 => fs[g] # None /\ fs[g].ref >= c2[g]
    BY <1>7, <1>16 DEF Sound, RefsInv
  <2>2. fs[f0].ref >= c2[f0] /\ fs[f1].ref >= c2[f1]
    BY <1>3, <1>7, <1>16
  <2> QED BY <1>4, <1>7, <1>9, <2>1, <2>2 DEF RefsInv
<1>18. Sound(s2, c2)
  BY <1>9, <1>12, <1>13, <1>16, <1>17 DEF Sound
<1>19. ASSUME InodesInv(s, w) PROVE InodesInv(s2, w)
  <2>1. None \notin Inodes
    BY NoneAssumption
  <2>2. \A j \in Inodes : OpenOn(s2, j) = OpenOn(s, j)
    BY <1>3, <1>7, <1>9, <2>1 DEF OpenOn
  <2> QED BY <1>9, <1>19, <2>2 DEF InodesInv
<1> QED BY <1>9, <1>15, <1>18, <1>19

-----------------------------------------------------------------------------
(* The invariant.                                                          *)

(* The objects and pipes are sound for the descriptors there are, and a    *)
(* process that does not run has no descriptor.                            *)
Inv ==
    /\ fd \in FdTables
    /\ alive \subseteq Procs
    /\ created \in BOOLEAN /\ panicked \in BOOLEAN
    /\ Sound(State, Held(fd))
    /\ \A p \in Procs \ alive : \A n \in Fds : fd[p][n] = None

(* What an inode is held by, other than open files. *)
Own(al) == [i \in Inodes |-> IF i = "root" THEN 1 + Cardinality(al) ELSE 0]

(* O_CREATE only of a name in the directory the path starts from. *)
Shallow == \A x \in Creates : x[1] \in Dirs /\ Len(x[2]) = 1

(* What a step keeps. *)
Kept ==
    /\ Inv'
    /\ Shallow /\ InodesInv(State, Own(alive)) => InodesInv(State', Own(alive'))

LEMMA OwnType ==
    ASSUME NEW al \in SUBSET Procs
    PROVE  /\ IsFiniteSet(al) /\ Cardinality(al) \in Nat
           /\ Own(al) \in [Inodes -> Int]
<1>1. IsFiniteSet(al) /\ Cardinality(al) \in Nat
  BY FilesAssumption, FS_Subset, FS_CardinalityType
<1> QED BY <1>1 DEF Own

LEMMA StateIs ==
    /\ State.file = file /\ State.pipe = pipe /\ State.iref = iref
    /\ State' = [file |-> file', pipe |-> pipe', iref |-> iref']
  BY DEF State

LEMMA KeepIs ==
    ASSUME NEW s2 \in FileStates, Keep(s2)
    PROVE  State' = s2
<1>1. s2 = [file |-> s2.file, pipe |-> s2.pipe, iref |-> s2.iref]
  BY DEF FileStates
<1> QED BY <1>1 DEF Keep, State

(* A descriptor leads to an object that exists and counts it. *)
LEMMA HandleAlive ==
    ASSUME Inv, NEW p \in Procs, NEW n \in Fds, fd[p][n] # None
    PROVE  /\ fd[p][n] \in FileIds
           /\ Held(fd)[fd[p][n]] > 0
           /\ State.file[fd[p][n]] # None
           /\ State.file[fd[p][n]].ref >= Held(fd)[fd[p][n]]
<1>1. PICK t : t = fd
  OBVIOUS
<1>2. PICK f : f = t[p][n]
  OBVIOUS
<1>3. t \in FdTables /\ f \in FileIds
  BY <1>1, <1>2 DEF Inv, FdTables
<1>4. Held(t)[f] > 0
  BY <1>2, <1>3, SlotCleared
<1>5. Sound(State, Held(t))
  BY <1>1 DEF Inv
<1> QED BY <1>1, <1>2, <1>3, <1>4, <1>5 DEF Sound, RefsInv

(* A call that stops the kernel, or does nothing. *)
LEMMA Stands ==
    ASSUME Inv, UNCHANGED <<fd, alive, file, pipe, iref, created>>,
           panicked' \in BOOLEAN
    PROVE  Kept
<1>1. State' = State /\ fd' = fd /\ alive' = alive /\ created' = created
  BY DEF State
<1> QED BY <1>1 DEF Kept, Inv

LEMMA CloseStep ==
    ASSUME Inv, NEW p \in Procs, NEW n \in Fds, sys_close(p, n)
    PROVE  Kept
<1>1. PICK f : f = fd[p][n]
  OBVIOUS
<1>2. getFileByfd(p, n) = f
  BY <1>1 DEF getFileByfd
<1>3. CASE f = None
  BY <1>2, <1>3, Stands DEF sys_close, Panic
<1>4. CASE f # None
  <2>1. /\ Keep(Close(State, f)) /\ fd' = [fd EXCEPT ![p][n] = None]
        /\ UNCHANGED <<alive, created, panicked>> /\ p \in alive
    BY <1>2, <1>4 DEF sys_close, Ready
  <2>2. f \in FileIds /\ Held(fd)[f] > 0
    BY <1>1, <1>4, HandleAlive
  <2>3. Sound(State, Held(fd)) /\ fd \in FdTables
    BY DEF Inv
  <2>4. fd' = SetSlot(fd, p, n, None)
    BY <2>1 DEF SetSlot
  <2>5. fd' \in FdTables /\ Held(fd') = Less(Held(fd), f)
    BY <1>1, <2>2, <2>3, <2>4, SlotCleared
  <2>6. Sound(Close(State, f), Held(fd'))
    BY <2>2, <2>3, <2>5, CloseSound
  <2>7. State' = Close(State, f)
    <3>1. Close(State, f) \in FileStates
      BY <2>6 DEF Sound
    <3> QED BY <2>1, <3>1, KeepIs
  <2>8. \A q \in Procs \ alive' : \A m \in Fds : fd'[q][m] = None
    BY <2>1, <2>3 DEF Inv, FdTables
  <2>9. Inv'
    BY <2>1, <2>5, <2>6, <2>7, <2>8 DEF Inv
  <2>10. InodesInv(State, Own(alive)) => InodesInv(Close(State, f), Own(alive))
    <3>1. Own(alive) \in [Inodes -> Int]
      BY OwnType DEF Inv
    <3> QED BY <2>2, <2>3, <3>1, CloseInodes
  <2> QED BY <2>1, <2>7, <2>9, <2>10 DEF Kept
<1> QED BY <1>3, <1>4

LEMMA FirstFree ==
    ASSUME NEW S \in SUBSET Nat, S # {}
    PROVE  Min(S) \in S
<1>1. PICK n \in S : \A m \in S : n <= m
  BY FirstOf
<1> QED BY <1>1 DEF Min

LEMMA DupInodes ==
    ASSUME NEW s, NEW c, Sound(s, c), NEW f \in FileIds, s.file[f] # None,
           s.file[f].ref >= c[f], NEW w \in [Inodes -> Int], InodesInv(s, w)
    PROVE  InodesInv(Dup(s, f), w)
<1>1. /\ Dup(s, f).iref = s.iref
      /\ \A g \in FileIds : /\ Dup(s, f).file[g] = None <=> s.file[g] = None
                            /\ Dup(s, f).file[g].inode = s.file[g].inode
  BY DupSound
<1>2. s.iref \in [Inodes -> Int]
  BY DEF Sound, FileStates
<1> QED BY <1>1, <1>2, FewerOpen

(* A reference that nobody uses any more does no harm. *)
LEMMA SoundFewer ==
    ASSUME NEW s, NEW c, Sound(s, c), NEW c2 \in [FileIds -> Nat],
           \A f \in FileIds : c2[f] <= c[f]
    PROVE  Sound(s, c2)
<1>1. \A f \in FileIds : c2[f] > 0 => s.file[f] # None /\ s.file[f].ref >= c2[f]
  <2> SUFFICES ASSUME NEW f \in FileIds, c2[f] > 0
               PROVE  s.file[f] # None /\ s.file[f].ref >= c2[f]
    OBVIOUS
  <2>1. c[f] \in Nat /\ c2[f] \in Nat /\ c2[f] <= c[f]
    BY DEF Sound
  <2>2. s.file[f] # None /\ s.file[f].ref >= c[f]
    BY <2>1 DEF Sound, RefsInv
  <2>3. s.file[f].ref \in Nat
    <3>1. s.file[f] \in FileObjects
      BY <2>2 DEF Sound, FileStates
    <3> QED BY <3>1 DEF FileObjects
  <2> QED BY <2>1, <2>2, <2>3
<1> QED BY <1>1 DEF Sound, RefsInv

LEMMA HeldType ==
    ASSUME NEW t
    PROVE  Held(t) \in [FileIds -> Nat]
  BY FewHolders DEF Held

(* A descriptor of p is made a reference to f, which the call has counted. *)
LEMMA Registered ==
    ASSUME Inv, NEW p \in alive, NEW n \in Fds, fd[p][n] = None, NEW f \in FileIds,
           fd' = SetSlot(fd, p, n, f), NEW s2, State' = s2,
           Sound(s2, More(Held(fd), f)),
           UNCHANGED alive, created' \in BOOLEAN, panicked' \in BOOLEAN
    PROVE  Inv'
<1>1. fd \in FdTables /\ p \in Procs
  BY DEF Inv
<1>2. fd' \in FdTables /\ Held(fd') = More(Held(fd), f)
  BY <1>1, SlotFilled
<1>3. \A q \in Procs \ alive : \A m \in Fds : fd'[q][m] = None
  BY <1>1 DEF Inv, SetSlot, FdTables
<1>4. Sound(State', Held(fd'))
  BY <1>2
<1> QED BY <1>2, <1>3, <1>4 DEF Inv

LEMMA FreeSlot ==
    ASSUME NEW t \in [Fds -> FileIds \cup {None}], Free(t) # {}
    PROVE  Min(Free(t)) \in Fds /\ t[Min(Free(t))] = None
<1>1. Free(t) \in SUBSET Nat
  BY FilesAssumption DEF Free, Fds
<1>2. Min(Free(t)) \in Free(t)
  BY <1>1, FirstFree
<1> QED BY <1>2 DEF Free

LEMMA DupStep ==
    ASSUME Inv, NEW p \in Procs, NEW n \in Fds, sys_dup(p, n)
    PROVE  Kept
<1>1. PICK f : f = fd[p][n]
  OBVIOUS
<1>2. getFileByfd(p, n) = f
  BY <1>1 DEF getFileByfd
<1>3. f # None /\ p \in alive
  BY <1>2 DEF sys_dup, Ready
<1>4. CASE Free(fd[p]) = {}
  BY <1>2, <1>4, Stands DEF sys_dup, Panic
<1>5. CASE Free(fd[p]) # {}
  <2>1. PICK k : k = Min(Free(fd[p]))
    OBVIOUS
  <2>2. /\ Keep(Dup(State, f)) /\ fd' = [fd EXCEPT ![p] = Register(@, f)]
        /\ UNCHANGED <<alive, created, panicked>>
    BY <1>2, <1>5 DEF sys_dup
  <2>3. /\ f \in FileIds /\ Held(fd)[f] > 0
        /\ State.file[f] # None /\ State.file[f].ref >= Held(fd)[f]
    BY <1>1, <1>3, HandleAlive
  <2>4. Sound(State, Held(fd)) /\ fd \in FdTables
    BY DEF Inv
  <2>5. k \in Fds /\ fd[p][k] = None
    <3>1. fd[p] \in [Fds -> FileIds \cup {None}]
      BY <2>4 DEF FdTables
    <3> QED BY <1>5, <2>1, <3>1, FreeSlot
  <2>6. fd' = SetSlot(fd, p, k, f)
    BY <2>1, <2>2 DEF SetSlot, Register
  <2>7. Sound(Dup(State, f), More(Held(fd), f))
    BY <2>3, <2>4, DupSound
  <2>8. State' = Dup(State, f)
    <3>1. Dup(State, f) \in FileStates
      BY <2>7 DEF Sound
    <3> QED BY <2>2, <3>1, KeepIs
  <2>9. Inv'
    <3>1. created' \in BOOLEAN /\ panicked' \in BOOLEAN /\ alive' = alive
      BY <2>2 DEF Inv
    <3> QED BY <1>3, <2>3, <2>5, <2>6, <2>7, <2>8, <3>1, Registered
  <2>10. InodesInv(State, Own(alive)) => InodesInv(Dup(State, f), Own(alive))
    <3>1. Own(alive) \in [Inodes -> Int]
      BY OwnType DEF Inv
    <3> QED BY <2>3, <2>4, <3>1, DupInodes
  <2> QED BY <2>2, <2>8, <2>9, <2>10 DEF Kept
<1> QED BY <1>4, <1>5

LEMMA FcntlStep ==
    ASSUME Inv, NEW p \in Procs, NEW n \in Fds, NEW m \in Fds, sys_fcntl(p, n, m)
    PROVE  Kept
<1>1. PICK f : f = fd[p][n]
  OBVIOUS
<1>2. getFileByfd(p, n) = f
  BY <1>1 DEF getFileByfd
<1>3. PICK c : c = {k \in Free(fd[p]) : k >= m}
  OBVIOUS
<1>4. CASE f = None \/ c = {}
  BY <1>2, <1>3, <1>4, Stands DEF sys_fcntl, Panic, Inv
<1>5. CASE f # None /\ c # {}
  <2>1. PICK k : k = Min(c)
    OBVIOUS
  <2>2. /\ Keep(Dup(State, f))
        /\ fd' = IF k > NFILE THEN fd ELSE [fd EXCEPT ![p][k] = f]
        /\ UNCHANGED <<alive, created, panicked>> /\ p \in alive
    BY <1>2, <1>3, <1>5, <2>1 DEF sys_fcntl, Ready
  <2>3. /\ f \in FileIds /\ Held(fd)[f] > 0
        /\ State.file[f] # None /\ State.file[f].ref >= Held(fd)[f]
    BY <1>1, <1>5, HandleAlive
  <2>4. Sound(State, Held(fd)) /\ fd \in FdTables
    BY DEF Inv
  <2>5. k \in Fds /\ fd[p][k] = None
    <3>1. c \in SUBSET Nat
      BY <1>3, FilesAssumption DEF Free, Fds
    <3>2. k \in c
      BY <1>5, <2>1, <3>1, FirstFree
    <3> QED BY <1>3, <3>2 DEF Free
  <2>6. Sound(Dup(State, f), More(Held(fd), f))
    BY <2>3, <2>4, DupSound
  <2>7. State' = Dup(State, f)
    <3>1. Dup(State, f) \in FileStates
      BY <2>6 DEF Sound
    <3> QED BY <2>2, <3>1, KeepIs
  <2>8. created' \in BOOLEAN /\ panicked' \in BOOLEAN /\ alive' = alive
    BY <2>2 DEF Inv
  <2>9. ASSUME k > NFILE PROVE Inv'
    <3>1. fd' = fd
      BY <2>2, <2>9
    <3>2. \A g \in FileIds : Held(fd)[g] <= More(Held(fd), f)[g]
      BY <2>3, HeldType DEF More
    <3>3. Sound(Dup(State, f), Held(fd))
      BY <2>6, <3>2, HeldType, SoundFewer
    <3> QED BY <2>4, <2>7, <2>8, <3>1, <3>3 DEF Inv
  <2>10. ASSUME ~(k > NFILE) PROVE Inv'
    <3>1. fd' = SetSlot(fd, p, k, f)
      BY <2>2, <2>10 DEF SetSlot
    <3> QED BY <2>2, <2>3, <2>5, <2>6, <2>7, <2>8, <3>1, Registered
  <2>11. Inv'
    BY <2>9, <2>10
  <2>12. InodesInv(State, Own(alive)) => InodesInv(Dup(State, f), Own(alive))
    <3>1. Own(alive) \in [Inodes -> Int]
      BY OwnType DEF Inv
    <3> QED BY <2>3, <2>4, <3>1, DupInodes
  <2> QED BY <2>2, <2>7, <2>11, <2>12 DEF Kept
<1> QED BY <1>4, <1>5

LEMMA Dup3Step ==
    ASSUME Inv, NEW p \in Procs, NEW n \in Fds, NEW m \in Fds, sys_dup3(p, n, m)
    PROVE  Kept
<1>1. PICK f : f = fd[p][n]
  OBVIOUS
<1>2. getFileByfd(p, n) = f
  BY <1>1 DEF getFileByfd
<1>3. CASE f = None
  BY <1>2, <1>3, Stands DEF sys_dup3, Panic
<1>4. CASE f # None
  <2>1. PICK s : s = Dup(State, f)
    OBVIOUS
  <2>2. PICK old : old = fd[p][m]
    OBVIOUS
  <2>3. PICK t : t = IF old # None THEN Close(s, old) ELSE s
    OBVIOUS
  <2>4. PICK u : u = IF m > NFILE THEN Close(t, f) ELSE t
    OBVIOUS
  <2>5. /\ Keep(u) /\ fd' = [fd EXCEPT ![p][m] = IF m > NFILE THEN None ELSE f]
        /\ UNCHANGED <<alive, created, panicked>> /\ p \in alive
    BY <1>2, <1>4, <2>1, <2>2, <2>3, <2>4 DEF sys_dup3, Ready
  <2>6. /\ f \in FileIds /\ Held(fd)[f] > 0
        /\ State.file[f] # None /\ State.file[f].ref >= Held(fd)[f]
    BY <1>1, <1>4, HandleAlive
  <2>7. Sound(State, Held(fd)) /\ fd \in FdTables
    BY DEF Inv
  <2>8. PICK c0 : c0 = Held(fd)
    OBVIOUS
  <2>9. c0 \in [FileIds -> Nat]
    BY <2>8, HeldType
  <2>10. PICK c1 : c1 = More(c0, f)
    OBVIOUS
  <2>11. Sound(s, c1)
    BY <2>1, <2>6, <2>7, <2>8, <2>10, DupSound
  <2>12. c1 \in [FileIds -> Nat] /\ \A g \in FileIds : c1[g] = c0[g] + (IF g = f THEN 1 ELSE 0)
    BY <2>6, <2>9, <2>10 DEF More
  <2>13. old # None => old \in FileIds /\ c0[old] > 0
    BY <2>2, <2>8, HandleAlive
  <2>14. PICK c2 : c2 = IF old # None THEN Less(c1, old) ELSE c1
    OBVIOUS
  <2>15. /\ c2 \in [FileIds -> Nat]
         /\ \A g \in FileIds : c2[g] = c0[g] + (IF g = f THEN 1 ELSE 0)
                                             - (IF g = old THEN 1 ELSE 0)
    <3>1. None \notin FileIds
      BY NoneAssumption, FilesAssumption DEF FileIds
    <3> QED BY <2>9, <2>12, <2>13, <2>14, <3>1 DEF Less
  <2>16. Sound(t, c2)
    <3>1. CASE old = None
      BY <2>3, <2>11, <2>14, <3>1
    <3>2. CASE old # None
      <4>1. c1[old] > 0
        BY <2>9, <2>12, <2>13, <3>2
      <4> QED BY <2>3, <2>11, <2>13, <2>14, <3>2, <4>1, CloseSound
    <3> QED BY <3>1, <3>2
  <2>17. c2[f] > 0
    BY <2>6, <2>8, <2>9, <2>15
  <2>18. PICK t1 : t1 = SetSlot(fd, p, m, None)
    OBVIOUS
  <2>19. /\ t1 \in FdTables /\ t1[p][m] = None
         /\ \A g \in FileIds : Held(t1)[g] = c0[g] - (IF g = old THEN 1 ELSE 0)
    <3>0. t1[p][m] = None
      BY <2>7, <2>18 DEF SetSlot, FdTables
    <3>1. CASE old = None
      <4>1. t1 = fd
        BY <2>2, <2>7, <2>18, <3>1 DEF SetSlot, FdTables
      <4>2. None \notin FileIds
        BY NoneAssumption, FilesAssumption DEF FileIds
      <4> QED BY <2>7, <2>8, <2>9, <3>0, <3>1, <4>1, <4>2
    <3>2. CASE old # None
      <4>1. t1 \in FdTables /\ Held(t1) = Less(c0, old)
        BY <2>2, <2>7, <2>8, <2>13, <2>18, <3>2, SlotCleared
      <4> QED BY <2>9, <2>13, <3>0, <3>2, <4>1 DEF Less
    <3> QED BY <3>1, <3>2
  <2>20. Sound(u, Held(fd')) /\ fd' \in FdTables
    <3>1. CASE m > NFILE
      <4>1. fd' = t1
        BY <2>5, <2>18, <3>1 DEF SetSlot
      <4>2. Sound(u, Less(c2, f))
        BY <2>4, <2>6, <2>16, <2>17, <3>1, CloseSound
      <4>3. Less(c2, f) = Held(t1)
        <5>1. /\ Less(c2, f) \in [FileIds -> Nat]
              /\ \A g \in FileIds : Less(c2, f)[g] = c2[g] - (IF g = f THEN 1 ELSE 0)
          BY <2>6, <2>15, <2>17 DEF Less
        <5>2. \A g \in FileIds : Less(c2, f)[g] = Held(t1)[g]
          BY <2>9, <2>15, <2>19, <5>1
        <5> QED BY <5>1, <5>2, HeldType
      <4> QED BY <2>19, <4>1, <4>2, <4>3
    <3>2. CASE ~(m > NFILE)
      <4>1. fd' = SetSlot(fd, p, m, f)
        BY <2>5, <3>2 DEF SetSlot
      <4>2. SetSlot(fd, p, m, f) = SetSlot(t1, p, m, f)
        BY <2>7, <2>18 DEF SetSlot, FdTables
      <4>3. fd' \in FdTables /\ Held(fd') = More(Held(t1), f)
        BY <2>6, <2>19, <4>1, <4>2, SlotFilled
      <4>4. More(Held(t1), f) = c2
        <5>1. /\ More(Held(t1), f) \in [FileIds -> Nat]
              /\ \A g \in FileIds : More(Held(t1), f)[g] =
                                      Held(t1)[g] + (IF g = f THEN 1 ELSE 0)
          BY <2>6, HeldType DEF More
        <5>2. \A g \in FileIds : More(Held(t1), f)[g] = c2[g]
          BY <2>9, <2>15, <2>19, <5>1
        <5> QED BY <2>15, <5>1, <5>2
      <4>5. u = t
        BY <2>4, <3>2
      <4> QED BY <2>16, <4>3, <4>4, <4>5
    <3> QED BY <3>1, <3>2
  <2>21. State' = u
    <3>1. u \in FileStates
      BY <2>20 DEF Sound
    <3> QED BY <2>5, <3>1, KeepIs
  <2>22. \A q \in Procs \ alive' : \A k \in Fds : fd'[q][k] = None
    BY <2>5, <2>7 DEF Inv, FdTables
  <2>23. Inv'
    BY <2>5, <2>20, <2>21, <2>22 DEF Inv
  <2>24. ASSUME InodesInv(State, Own(alive)) PROVE InodesInv(u, Own(alive))
    <3>1. PICK w : w = Own(alive)
      OBVIOUS
    <3>2. w \in [Inodes -> Int]
      BY <3>1, OwnType DEF Inv
    <3>3. InodesInv(s, w)
      BY <2>1, <2>6, <2>7, <2>24, <3>1, <3>2, DupInodes
    <3>4. InodesInv(t, w)
      <4>1. CASE old # None
        <5>1. c1[old] > 0
          BY <2>9, <2>12, <2>13, <4>1
        <5> QED BY <2>3, <2>11, <2>13, <3>2, <3>3, <4>1, <5>1, CloseInodes
      <4>2. CASE old = None
        BY <2>3, <3>3, <4>2
      <4> QED BY <4>1, <4>2
    <3>5. InodesInv(u, w)
      <4>1. CASE m > NFILE
        BY <2>4, <2>6, <2>16, <2>17, <3>2, <3>4, <4>1, CloseInodes
      <4>2. CASE ~(m > NFILE)
        BY <2>4, <3>4, <4>2
      <4> QED BY <4>1, <4>2
    <3> QED BY <3>1, <3>5
  <2> QED BY <2>5, <2>21, <2>23, <2>24 DEF Kept
<1> QED BY <1>3, <1>4

(* The directory a path starts from is an inode. *)
LEMMA StartInode ==
    ASSUME Inv, NEW p \in Procs, NEW n, StartDir(p, n) # None
    PROVE  StartDir(p, n) \in Inodes
<1>1. CASE getFileByfd(p, n) = None
  BY <1>1 DEF StartDir, Inodes
<1>2. CASE getFileByfd(p, n) # None
  <2>1. n \in Fds /\ getFileByfd(p, n) = fd[p][n]
    BY <1>2 DEF getFileByfd
  <2>2. PICK f : f = fd[p][n]
    OBVIOUS
  <2>3. f \in FileIds /\ State.file[f] # None
    BY <1>2, <2>1, <2>2, HandleAlive
  <2>4. State.file[f] \in FileObjects
    BY <2>3 DEF Inv, Sound, FileStates
  <2>5. file[f].inode \in Inodes \cup {None}
    BY <2>4, StateIs DEF FileObjects
  <2>6. StartDir(p, n) = file[f].inode
    BY <1>2, <2>1, <2>2 DEF StartDir
  <2> QED BY <2>5, <2>6
<1> QED BY <1>1, <1>2

(* What openat and faccessat know of the path they looked up. *)
LEMMA Opened ==
    ASSUME Inv, NEW p \in Procs, NEW n, NEW path \in Paths, NEW create \in BOOLEAN,
           NEW dp, dp = StartDir(p, n), NEW l, l = Lookup(dp, path, create),
           Opening(p, dp, path, create, l)
    PROVE  /\ l \in Walks
           /\ Shallow => Above(l, iref)
           /\ created' \in BOOLEAN /\ panicked' \in BOOLEAN
           /\ UNCHANGED <<alive, pipe>> /\ p \in alive
<1>1. dp \in Inodes
  BY StartInode DEF Opening
<1>2. iref \in [Inodes -> Int]
  <2>1. State.iref \in [Inodes -> Int]
    BY DEF Inv, Sound, FileStates
  <2> QED BY <2>1, StateIs
<1>3. ASSUME Shallow, create PROVE dp \in Dirs /\ Len(path) = 1
  <2>1. <<dp, path>> \in Creates
    BY <1>3 DEF Opening
  <2> QED BY <1>3, <2>1 DEF Shallow
<1>4. /\ l \in Walks
      /\ Shallow => Above(l, iref)
  BY <1>1, <1>2, <1>3, LookupAbove
<1>5. created' \in BOOLEAN /\ panicked' \in BOOLEAN
  BY DEF Opening, Inv
<1> QED BY <1>4, <1>5 DEF Opening, Ready

(* References to inodes that are added, or not, and nothing else. *)
LEMMA OnlyRefs ==
    ASSUME Inv, UNCHANGED <<fd, alive, file, pipe>>, iref' \in [Inodes -> Int],
           created' \in BOOLEAN, panicked' \in BOOLEAN,
           Shallow => \A i \in Inodes : iref'[i] >= iref[i]
    PROVE  Kept
<1>1. PICK r : r = iref'
  OBVIOUS
<1>2. PICK s : s = State
  OBVIOUS
<1>3. PICK s2 : s2 = [s EXCEPT !.iref = r]
  OBVIOUS
<1>4. Sound(s, Held(fd)) /\ s.file = file /\ s.pipe = pipe /\ s.iref = iref
  BY <1>2, StateIs DEF Inv
<1>5. r \in [Inodes -> Int]
  BY <1>1
<1>6. Sound(s2, Held(fd)) /\ s2.file = s.file /\ s2.pipe = s.pipe /\ s2.iref = r
  BY <1>3, <1>4, <1>5, IrefFree
<1>7. State' = s2
  <2>1. s2 \in FileStates
    BY <1>6 DEF Sound
  <2>2. Keep(s2)
    BY <1>1, <1>4, <1>6 DEF Keep
  <2> QED BY <2>1, <2>2, KeepIs
<1>8. Inv'
  BY <1>6, <1>7 DEF Inv
<1>9. ASSUME Shallow, InodesInv(State, Own(alive)) PROVE InodesInv(s2, Own(alive))
  <2> SUFFICES ASSUME NEW i \in Inodes
               PROVE  s2.iref[i] >= Cardinality(OpenOn(s2, i)) + Own(alive)[i]
    BY DEF InodesInv
  <2>1. OpenOn(s2, i) = OpenOn(s, i)
    BY <1>6 DEF OpenOn
  <2>2. s.iref[i] >= Cardinality(OpenOn(s, i)) + Own(alive)[i]
    BY <1>2, <1>9 DEF InodesInv
  <2>3. r[i] >= s.iref[i]
    BY <1>1, <1>4, <1>9
  <2>4. OpenOn(s, i) \in SUBSET FileIds
    BY DEF OpenOn
  <2>5. Cardinality(OpenOn(s, i)) \in Nat
    BY <2>4, FewFiles
  <2>6. Own(alive)[i] \in Int
    BY OwnType DEF Inv
  <2>7. s.iref[i] \in Int
    BY <1>4 DEF Sound, FileStates
  <2> QED BY <1>5, <1>6, <2>1, <2>2, <2>3, <2>5, <2>6, <2>7
<1> QED BY <1>7, <1>8, <1>9 DEF Kept

LEMMA CheckStep ==
    ASSUME Inv, NEW p \in Procs, NEW n, NEW path \in Paths, CheckFile(p, n, path)
    PROVE  Kept
<1>1. PICK dp : dp = StartDir(p, n)
  OBVIOUS
<1>2. PICK l : l = Lookup(dp, path, FALSE)
  OBVIOUS
<1>3. /\ Opening(p, dp, path, FALSE, l)
      /\ iref' = IF l.ip = None THEN l.r ELSE Put(l.r, l.ip)
      /\ UNCHANGED <<fd, file>>
  BY <1>1, <1>2 DEF CheckFile
<1>4. /\ l \in Walks
      /\ Shallow => Above(l, iref)
      /\ created' \in BOOLEAN /\ panicked' \in BOOLEAN
      /\ UNCHANGED <<alive, pipe>>
  BY <1>1, <1>2, <1>3, Opened
<1>5. l.r \in [Inodes -> Int] /\ l.ip \in Inodes \cup {None} /\ None \notin Inodes
  BY <1>4, NoneAssumption DEF Walks
<1>6. /\ iref' \in [Inodes -> Int]
      /\ \A i \in Inodes : iref'[i] = l.r[i] - (IF l.ip = i THEN 1 ELSE 0)
  <2>1. CASE l.ip = None
    BY <1>3, <1>5, <2>1
  <2>2. CASE l.ip # None
    <3>1. iref' = Put(l.r, l.ip) /\ l.ip \in Inodes
      BY <1>3, <1>5, <2>2
    <3> QED BY <1>5, <3>1, PutLess
  <2> QED BY <2>1, <2>2
<1>7. ASSUME Shallow PROVE \A i \in Inodes : iref'[i] >= iref[i]
  <2> SUFFICES ASSUME NEW i \in Inodes PROVE iref'[i] >= iref[i]
    OBVIOUS
  <2>1. l.r[i] >= iref[i] + (IF l.ip = i THEN 1 ELSE 0)
    BY <1>4, <1>7 DEF Above
  <2>2. State.iref[i] \in Int
    BY DEF Inv, Sound, FileStates
  <2>3. iref[i] \in Int /\ l.r[i] \in Int
    BY <1>5, <2>2, StateIs
  <2> QED BY <1>6, <2>1, <2>3
<1> QED BY <1>3, <1>4, <1>6, <1>7, OnlyRefs

LEMMA AccessStep ==
    ASSUME Inv, NEW p \in Procs, NEW n, NEW path \in Paths, sys_faccessat(p, n, path)
    PROVE  Kept
<1>1. CASE CheckFile(p, n, path)
  BY <1>1, CheckStep
<1>2. CASE NoStart(p, n)
  BY <1>2, Stands DEF NoStart, Panic
<1> QED BY <1>1, <1>2 DEF sys_faccessat

LEMMA NewFileFree ==
    ASSUME Room(1)
    PROVE  NewFile \in FileIds /\ file[NewFile] = None
<1>1. PICK S : S = {f \in FileIds : file[f] = None}
  OBVIOUS
<1>2. S # {}
  BY <1>1, FS_EmptySet DEF Room
<1>3. S \in SUBSET Nat
  BY <1>1, FilesAssumption DEF FileIds
<1>4. Min(S) \in S
  BY <1>2, <1>3, FirstFree
<1> QED BY <1>1, <1>4 DEF NewFile

LEMMA OpenFileStep ==
    ASSUME Inv, NEW p \in Procs, NEW n, NEW path \in Paths, NEW create \in BOOLEAN,
           OpenFile(p, n, path, create)
    PROVE  Kept
<1>1. PICK dp : dp = StartDir(p, n)
  OBVIOUS
<1>2. PICK l : l = Lookup(dp, path, create)
  OBVIOUS
<1>3. /\ Opening(p, dp, path, create, l)
      /\ iref' = l.r
      /\ IF l.ip = None THEN UNCHANGED <<fd, file>>
         ELSE /\ Free(fd[p]) # {}
              /\ fd' = [fd EXCEPT ![p] = Register(@, NewFile)]
              /\ file' = [file EXCEPT ![NewFile] = InodeFile(l.ip)]
  BY <1>1, <1>2 DEF OpenFile
<1>4. /\ l \in Walks
      /\ Shallow => Above(l, iref)
      /\ created' \in BOOLEAN /\ panicked' \in BOOLEAN
      /\ UNCHANGED <<alive, pipe>> /\ p \in alive
  BY <1>1, <1>2, <1>3, Opened
<1>5. l.r \in [Inodes -> Int] /\ l.ip \in Inodes \cup {None} /\ None \notin Inodes
  BY <1>4, NoneAssumption DEF Walks
<1>6. Shallow => \A i \in Inodes : l.r[i] >= iref[i] + (IF l.ip = i THEN 1 ELSE 0)
  BY <1>4 DEF Above
<1>7. CASE l.ip = None
  <2>1. ASSUME Shallow PROVE \A i \in Inodes : iref'[i] >= iref[i]
    <3> SUFFICES ASSUME NEW i \in Inodes PROVE l.r[i] >= iref[i]
      BY <1>3
    <3>1. l.r[i] >= iref[i] + 0
      BY <1>5, <1>6, <1>7, <2>1
    <3>2. State.iref[i] \in Int
      BY DEF Inv, Sound, FileStates
    <3>3. iref[i] \in Int /\ l.r[i] \in Int
      BY <1>5, <3>2, StateIs
    <3> QED BY <3>1, <3>3
  <2> QED BY <1>3, <1>4, <1>5, <1>7, <2>1, OnlyRefs
<1>8. CASE l.ip # None
  <2>1. PICK f : f = NewFile
    OBVIOUS
  <2>2. PICK k : k = Min(Free(fd[p]))
    OBVIOUS
  <2>3. f \in FileIds /\ file[f] = None
    BY <1>3, <2>1, NewFileFree DEF Opening
  <2>4. Sound(State, Held(fd)) /\ fd \in FdTables
    BY DEF Inv
  <2>5. k \in Fds /\ fd[p][k] = None
    <3>1. fd[p] \in [Fds -> FileIds \cup {None}]
      BY <2>4 DEF FdTables
    <3> QED BY <1>3, <1>8, <2>2, <3>1, FreeSlot
  <2>6. fd' = SetSlot(fd, p, k, f)
    BY <1>3, <1>8, <2>1, <2>2 DEF SetSlot, Register
  <2>7. PICK s : s = State
    OBVIOUS
  <2>8. PICK i : i = l.ip
    OBVIOUS
  <2>9. PICK r : r = l.r
    OBVIOUS
  <2>10. s.file = file /\ s.pipe = pipe /\ s.iref = iref /\ Sound(s, Held(fd))
    BY <2>4, <2>7, StateIs
  <2>11. PICK s2 : s2 = [file |-> [s.file EXCEPT ![f] = InodeFile(i)],
                         pipe |-> s.pipe, iref |-> r]
    OBVIOUS
  <2>12. State' = s2
    BY <1>3, <1>4, <1>8, <2>1, <2>8, <2>9, <2>10, <2>11, StateIs
  <2>13. PICK w : w = Own(alive)
    OBVIOUS
  <2>14. w \in [Inodes -> Int]
    BY <2>13, OwnType DEF Inv
  <2>15. /\ Sound(s2, More(Held(fd), f))
         /\ InodesInv(s, w)
            /\ (\A j \in Inodes : r[j] >= s.iref[j] + (IF i = j THEN 1 ELSE 0))
            => InodesInv(s2, w)
    <3>1. i \in Inodes /\ r \in [Inodes -> Int]
      BY <1>5, <1>8, <2>8, <2>9
    <3>2. s.file[f] = None
      BY <2>3, <2>10
    <3> QED BY <2>3, <2>10, <2>11, <2>14, <3>1, <3>2, NewFileSound
  <2>16. Inv'
    BY <1>4, <2>3, <2>5, <2>6, <2>12, <2>15, Registered
  <2>17. Shallow => \A j \in Inodes : r[j] >= s.iref[j] + (IF i = j THEN 1 ELSE 0)
    BY <1>6, <2>8, <2>9, <2>10
  <2>18. alive' = alive
    BY <1>4
  <2> QED BY <2>7, <2>12, <2>13, <2>15, <2>16, <2>17, <2>18 DEF Kept
<1> QED BY <1>7, <1>8

LEMMA OpenStep ==
    ASSUME Inv, NEW p \in Procs, NEW n, NEW path \in Paths, NEW create \in BOOLEAN,
           sys_openat(p, n, path, create)
    PROVE  Kept
<1>1. CASE OpenFile(p, n, path, create)
  BY <1>1, OpenFileStep
<1>2. CASE TableFull(p, n, path, create)
  BY <1>2, Stands DEF TableFull, Panic
<1>3. CASE NoStart(p, n)
  BY <1>3, Stands DEF NoStart, Panic
<1> QED BY <1>1, <1>2, <1>3 DEF sys_openat

LEMMA FewFds ==
    ASSUME NEW S \in SUBSET Fds
    PROVE  IsFiniteSet(S) /\ Cardinality(S) \in Nat
<1>1. IsFiniteSet(Fds)
  BY FilesAssumption, FS_Interval DEF Fds
<1> QED BY <1>1, FS_Subset, FS_CardinalityType

(* Of two elements one is left when the first is taken. *)
LEMMA TwoLeft ==
    ASSUME NEW S \in SUBSET Nat, IsFiniteSet(S), Cardinality(S) \in Nat,
           Cardinality(S) >= 2
    PROVE  /\ Min(S) \in S
           /\ Min(S \ {Min(S)}) \in S \ {Min(S)}
<1>1. S # {}
  BY FS_EmptySet
<1>2. Min(S) \in S
  BY <1>1, FirstFree
<1>3. PICK k : k = Min(S)
  OBVIOUS
<1>4. Cardinality(S \ {k}) = Cardinality(S) - 1
  BY <1>2, <1>3, FS_RemoveElement
<1>5. S \ {k} # {}
  BY <1>4, FS_EmptySet
<1>6. PICK T : T = S \ {k}
  OBVIOUS
<1>7. T \in SUBSET Nat /\ T # {}
  BY <1>5, <1>6
<1>8. Min(T) \in T
  BY <1>7, FirstFree
<1> QED BY <1>2, <1>3, <1>6, <1>8

LEMMA PipeStep ==
    ASSUME ~BadBuffer, Inv, NEW p \in Procs, sys_pipe(p)
    PROVE  Kept
<1>1. CASE Cardinality(Free(fd[p])) < 2
  BY <1>1, Stands DEF sys_pipe, Panic
<1>2. CASE ~(Cardinality(Free(fd[p])) < 2)
  <2>1. PICK f0 : f0 = NewFile
    OBVIOUS
  <2>2. PICK f1 : f1 = Min({f \in FileIds \ {f0} : file[f] = None})
    OBVIOUS
  <2>3. PICK q : q = NewPipe
    OBVIOUS
  <2>4. PICK s : s = State
    OBVIOUS
  <2>5. PICK s2 : s2 = WithPipe(s, f0, f1, q)
    OBVIOUS
  <2>6. /\ Keep(s2)
        /\ fd' = [fd EXCEPT ![p] = Register(Register(@, f0), f1)]
        /\ UNCHANGED <<alive, created, panicked>> /\ p \in alive /\ Room(2)
    BY <1>2, <2>1, <2>2, <2>3, <2>4, <2>5 DEF sys_pipe, WithPipe, Ready
  <2>7. /\ f0 \in FileIds /\ f1 \in FileIds /\ f0 # f1
        /\ file[f0] = None /\ file[f1] = None
    <3>1. PICK S : S = {f \in FileIds : file[f] = None}
      OBVIOUS
    <3>2. S \in SUBSET FileIds /\ S \in SUBSET Nat /\ Cardinality(S) >= 2
      BY <2>6, <3>1, FilesAssumption DEF Room, FileIds
    <3>3. IsFiniteSet(S) /\ Cardinality(S) \in Nat
      BY <3>2, FewFiles
    <3>4. Min(S) \in S /\ Min(S \ {Min(S)}) \in S \ {Min(S)}
      BY <3>2, <3>3, TwoLeft
    <3>5. f0 = Min(S)
      BY <2>1, <3>1 DEF NewFile
    <3>6. S \ {f0} = {f \in FileIds \ {f0} : file[f] = None}
      BY <3>1
    <3>7. f1 = Min(S \ {f0})
      BY <2>2, <3>6
    <3> QED BY <3>1, <3>4, <3>5, <3>7
  <2>8. Sound(s, Held(fd)) /\ fd \in FdTables /\ s.file = file /\ s.pipe = pipe
    BY <2>4, StateIs DEF Inv
  <2>9. q \in PipeIds /\ s.pipe[q] = {}
    <3>1. PICK S : S = {x \in PipeIds : pipe[x] = {}}
      OBVIOUS
    <3>2. s.file[f0] = None
      BY <2>7, <2>8
    <3>3. \E x \in PipeIds : s.pipe[x] = {}
      BY <2>7, <2>8, <3>2, PipeFree
    <3>4. S \in SUBSET Nat /\ S # {}
      BY <2>8, <3>1, <3>3, FilesAssumption DEF PipeIds
    <3>5. Min(S) \in S
      BY <3>4, FirstFree
    <3> QED BY <2>3, <2>8, <3>1, <3>5 DEF NewPipe
  <2>10. PICK w : w = Own(alive)
    OBVIOUS
  <2>11. w \in [Inodes -> Int]
    BY <2>10, OwnType DEF Inv
  <2>12. /\ Sound(s2, More(More(Held(fd), f0), f1))
         /\ InodesInv(s, w) => InodesInv(s2, w)
    <3>1. s.file[f0] = None /\ s.file[f1] = None
      BY <2>7, <2>8
    <3> QED BY <2>5, <2>7, <2>8, <2>9, <2>11, <3>1, NewPipeSound
  <2>13. State' = s2
    <3>1. s2 \in FileStates
      BY <2>12 DEF Sound
    <3> QED BY <2>6, <3>1, KeepIs
  <2>14. PICK t : t = fd[p]
    OBVIOUS
  <2>15. t \in [Fds -> FileIds \cup {None}]
    BY <2>8, <2>14 DEF FdTables
  <2>16. PICK k0 : k0 = Min(Free(t))
    OBVIOUS
  <2>17. PICK k1 : k1 = Min(Free(t) \ {k0})
    OBVIOUS
  <2>18. /\ k0 \in Fds /\ k1 \in Fds /\ k0 # k1
         /\ t[k0] = None /\ t[k1] = None
    <3>1. Free(t) \in SUBSET Fds /\ Free(t) \in SUBSET Nat
      BY FilesAssumption DEF Free, Fds
    <3>2. IsFiniteSet(Free(t)) /\ Cardinality(Free(t)) \in Nat
      BY <3>1, FewFds
    <3>3. Cardinality(Free(t)) >= 2
      BY <1>2, <2>14, <3>2
    <3>4. Min(Free(t)) \in Free(t) /\ Min(Free(t) \ {Min(Free(t))}) \in Free(t) \ {Min(Free(t))}
      BY <3>1, <3>2, <3>3, TwoLeft
    <3>5. k0 \in Free(t) /\ k1 \in Free(t) \ {k0}
      BY <2>16, <2>17, <3>4
    <3> QED BY <3>5 DEF Free
  <2>19. PICK t1 : t1 = [t EXCEPT ![k0] = f0]
    OBVIOUS
  <2>20. Register(t, f0) = t1
    BY <2>16, <2>19 DEF Register
  <2>21. Free(t1) = Free(t) \ {k0}
    <3>1. f0 # None
      BY <2>7, NoneAssumption, FilesAssumption DEF FileIds
    <3> QED BY <2>15, <2>18, <2>19, <3>1 DEF Free
  <2>22. Register(Register(t, f0), f1) = [t1 EXCEPT ![k1] = f1]
    BY <2>17, <2>20, <2>21 DEF Register
  <2>23. PICK d : d = SetSlot(fd, p, k0, f0)
    OBVIOUS
  <2>24. d \in FdTables /\ Held(d) = More(Held(fd), f0)
    BY <2>7, <2>8, <2>14, <2>18, <2>23, SlotFilled
  <2>25. d[p] = t1 /\ d = [fd EXCEPT ![p] = t1]
    BY <2>8, <2>14, <2>19, <2>23 DEF SetSlot, FdTables
  <2>26. fd' = SetSlot(d, p, k1, f1)
    <3>1. PICK t2 : t2 = [t1 EXCEPT ![k1] = f1]
      OBVIOUS
    <3>2. fd' = [fd EXCEPT ![p] = t2]
      BY <2>6, <2>14, <2>22, <3>1
    <3>3. SetSlot(d, p, k1, f1) = [d EXCEPT ![p] = t2]
      BY <2>25, <3>1 DEF SetSlot
    <3>4. [d EXCEPT ![p] = t2] = [fd EXCEPT ![p] = t2]
      BY <2>8, <2>25 DEF FdTables
    <3> QED BY <3>2, <3>3, <3>4
  <2>27. d[p][k1] = None
    BY <2>15, <2>18, <2>19, <2>25
  <2>28. fd' \in FdTables /\ Held(fd') = More(Held(d), f1)
    BY <2>7, <2>18, <2>24, <2>26, <2>27, SlotFilled
  <2>29. Sound(State', Held(fd'))
    BY <2>12, <2>13, <2>24, <2>28
  <2>30. \A x \in Procs \ alive' : \A m \in Fds : fd'[x][m] = None
    BY <2>6, <2>8 DEF Inv, FdTables
  <2>31. Inv'
    BY <2>6, <2>28, <2>29, <2>30 DEF Inv
  <2>32. alive' = alive
    BY <2>6
  <2> QED BY <2>4, <2>10, <2>12, <2>13, <2>31, <2>32 DEF Kept
<1> QED BY <1>1, <1>2

(* The table of the descriptors when p has forked q. *)
Forked(t, p, q) == [t EXCEPT ![q] = t[p]]

(* fork: the child's descriptors are as many holders more. *)
LEMMA ForkHeld ==
    ASSUME NEW t \in FdTables, NEW p \in Procs, NEW q \in Procs,
           \A n \in Fds : t[q][n] = None, NEW t2, t2 = Forked(t, p, q),
           NEW f \in FileIds
    PROVE  /\ Count(t[p], f) \in Nat
           /\ Held(t2)[f] = Held(t)[f] + Count(t[p], f)
           /\ (\A n \in Fds : t[p][n] # f) => Count(t[p], f) = 0
<1>1. PICK N : N = {n \in Fds : t[p][n] = f}
  OBVIOUS
<1>2. PICK H : H = {q} \X N
  OBVIOUS
<1>3. N \in SUBSET Fds
  BY <1>1
<1>4. IsFiniteSet(N) /\ Cardinality(N) \in Nat
  BY <1>3, FewFds
<1>5. Count(t[p], f) = Cardinality(N)
  BY <1>1 DEF Count
<1>6. IsFiniteSet({q}) /\ Cardinality({q}) = 1
  BY FS_Singleton
<1>7. IsFiniteSet(H) /\ Cardinality(H) = Cardinality({q}) * Cardinality(N)
  BY <1>2, <1>4, <1>6, FS_Product
<1>8. Cardinality(H) = Cardinality(N)
  BY <1>4, <1>6, <1>7
<1>9. None \notin FileIds
  BY NoneAssumption, FilesAssumption DEF FileIds
<1>10. \A x \in Procs, n \in Fds : t2[x][n] = IF x = q THEN t[p][n] ELSE t[x][n]
  BY DEF FdTables, Forked
<1>11. HoldersOf(t2, f) = HoldersOf(t, f) \cup H
  BY <1>1, <1>2, <1>9, <1>10 DEF HoldersOf
<1>12. HoldersOf(t, f) \cap H = {}
  BY <1>1, <1>2, <1>9 DEF HoldersOf
<1>13. IsFiniteSet(HoldersOf(t, f)) /\ Cardinality(HoldersOf(t, f)) \in Nat
  BY FewHolders
<1>14. Cardinality(HoldersOf(t2, f)) = Cardinality(HoldersOf(t, f)) + Cardinality(H)
                                       - Cardinality(HoldersOf(t, f) \cap H)
  BY <1>7, <1>11, <1>13, FS_Union
<1>15. Cardinality(HoldersOf(t, f) \cap H) = 0
  BY <1>12, FS_EmptySet
<1>16. Held(t2)[f] = Held(t)[f] + Count(t[p], f)
  BY <1>4, <1>5, <1>8, <1>13, <1>14, <1>15 DEF Held
<1>17. ASSUME \A n \in Fds : t[p][n] # f PROVE Count(t[p], f) = 0
  <2>1. N = {}
    BY <1>1, <1>17
  <2> QED BY <1>5, <2>1, FS_EmptySet
<1> QED BY <1>4, <1>5, <1>16, <1>17

LEMMA ForkStep ==
    ASSUME Inv, NEW p \in Procs, NEW q \in Procs, fork(p, q)
    PROVE  Kept
<1>1. /\ p \in alive /\ q \notin alive /\ alive' = alive \cup {q}
      /\ fd' = [fd EXCEPT ![q] = fd[p]]
      /\ file' = [f \in FileIds |-> IF file[f] = None THEN None
                                    ELSE [file[f] EXCEPT !.ref = @ + Count(fd[p], f)]]
      /\ iref' = [iref EXCEPT !["root"] = @ + 1]
      /\ UNCHANGED <<pipe, created, panicked>>
  BY DEF fork, Ready
<1>2. PICK s : s = State
  OBVIOUS
<1>3. PICK t : t = fd
  OBVIOUS
<1>4. PICK t2 : t2 = Forked(t, p, q)
  OBVIOUS
<1>5. /\ s.file = file /\ s.pipe = pipe /\ s.iref = iref
      /\ Sound(s, Held(t)) /\ t \in FdTables /\ alive \subseteq Procs
  BY <1>2, <1>3, StateIs DEF Inv
<1>6. t2 = fd' /\ t2 \in FdTables
  BY <1>1, <1>3, <1>4, <1>5 DEF FdTables, Forked
<1>7. \A n \in Fds : t[q][n] = None
  BY <1>1, <1>3 DEF Inv
<1>8. s \in FileStates /\ Held(t) \in [FileIds -> Nat]
  BY <1>5 DEF Sound
<1>9. PICK fs : fs = file'
  OBVIOUS
<1>10. PICK r : r = iref'
  OBVIOUS
<1>11. ASSUME NEW f \in FileIds
       PROVE  /\ fs[f] \in FileObjects \cup {None}
              /\ fs[f] = None <=> s.file[f] = None
              /\ s.file[f] # None =>
                   /\ fs[f].ref = s.file[f].ref + Count(t[p], f)
                   /\ fs[f].pipe = s.file[f].pipe /\ fs[f].ends = s.file[f].ends
                   /\ fs[f].inode = s.file[f].inode
  <2>1. CASE s.file[f] = None
    BY <1>1, <1>5, <1>9, <2>1
  <2>2. CASE s.file[f] # None
    <3>1. PICK o : o = s.file[f]
      OBVIOUS
    <3>2. PICK k : k = Count(t[p], f)
      OBVIOUS
    <3>3. k \in Nat
      BY <1>4, <1>5, <1>7, <3>2, ForkHeld
    <3>4. o \in FileObjects
      BY <1>8, <2>2, <3>1 DEF FileStates
    <3>5. fs[f] = [o EXCEPT !.ref = @ + k]
      BY <1>1, <1>3, <1>5, <1>9, <2>2, <3>1, <3>2
    <3>6. o.ref \in Nat \ {0}
      BY <3>4 DEF FileObjects
    <3>7. o.ref + k \in Nat \ {0}
      BY <3>3, <3>6
    <3>8. PICK m : m = o.ref + k
      OBVIOUS
    <3>9. fs[f] = [o EXCEPT !.ref = m]
      BY <3>5, <3>8
    <3>10. /\ fs[f] \in FileObjects /\ fs[f].ref = m
           /\ fs[f].pipe = o.pipe /\ fs[f].ends = o.ends /\ fs[f].inode = o.inode
      BY <3>4, <3>7, <3>8, <3>9 DEF FileObjects
    <3>11. fs[f] # None
      BY <3>10, NoneAssumption
    <3> QED BY <2>2, <3>1, <3>2, <3>8, <3>10, <3>11
  <2> QED BY <2>1, <2>2
<1>12. fs \in [FileIds -> FileObjects \cup {None}]
  <2>1. fs = [f \in FileIds |-> fs[f]]
    BY <1>1, <1>9
  <2> QED BY <1>11, <2>1
<1>13. PICK s2 : s2 = [file |-> fs, pipe |-> s.pipe, iref |-> r]
  OBVIOUS
<1>14. State' = s2
  BY <1>1, <1>5, <1>9, <1>10, <1>13, StateIs
<1>15. s2.file = fs /\ s2.pipe = s.pipe /\ s2.iref = r
  BY <1>13
<1>16. /\ r \in [Inodes -> Int]
       /\ \A i \in Inodes : r[i] = s.iref[i] + (IF i = "root" THEN 1 ELSE 0)
  <2>1. PICK b : b = s.iref
    OBVIOUS
  <2>2. b \in [Inodes -> Int]
    BY <1>8, <2>1 DEF FileStates
  <2>3. r = [b EXCEPT !["root"] = @ + 1]
    BY <1>1, <1>5, <1>10, <2>1
  <2>4. "root" \in Inodes
    BY DEF Inodes
  <2> QED BY <2>1, <2>2, <2>3, <2>4
<1>17. s2 \in FileStates
  <2>1. s.pipe \in [PipeIds -> SUBSET {"r", "w"}]
    BY <1>8 DEF FileStates
  <2> QED BY <1>12, <1>13, <1>16, <2>1 DEF FileStates
<1>18. EndsInv(s2)
  BY <1>5, <1>11, <1>15 DEF Sound, EndsInv
<1>19. PipesInv(s2)
  BY <1>5, <1>11, <1>15 DEF Sound, PipesInv
<1>20. Held(t2) \in [FileIds -> Nat]
  BY HeldType
<1>21. RefsInv(s2, Held(t2))
  <2> SUFFICES ASSUME NEW f \in FileIds, Held(t2)[f] > 0
               PROVE  fs[f] # None /\ fs[f].ref >= Held(t2)[f]
    BY <1>15 DEF RefsInv
  <2>1. PICK k : k = Count(t[p], f)
    OBVIOUS
  <2>2. /\ k \in Nat /\ Held(t2)[f] = Held(t)[f] + k
        /\ (\A n \in Fds : t[p][n] # f) => k = 0
    BY <1>4, <1>5, <1>7, <2>1, ForkHeld
  <2>3. Held(t)[f] \in Nat
    BY <1>8
  <2>4. s.file[f] # None
    <3>1. CASE \E n \in Fds : t[p][n] = f
      <4>1. PICK n \in Fds : t[p][n] = f
        BY <3>1
      <4>2. fd[p][n] = f /\ f # None
        BY <1>3, <4>1, NoneAssumption, FilesAssumption DEF FileIds
      <4> QED BY <1>2, <4>2, HandleAlive
    <3>2. CASE \A n \in Fds : t[p][n] # f
      <4>1. Held(t)[f] > 0
        BY <2>2, <2>3, <3>2
      <4> QED BY <1>5, <4>1 DEF Sound, RefsInv
    <3> QED BY <3>1, <3>2
  <2>5. s.file[f].ref \in Nat
    <3>1. s.file[f] \in FileObjects
      BY <1>8, <2>4 DEF FileStates
    <3> QED BY <3>1 DEF FileObjects
  <2>6. s.file[f].ref >= Held(t)[f]
    <3>1. Held(t)[f] > 0 => s.file[f].ref >= Held(t)[f]
      BY <1>5 DEF Sound, RefsInv
    <3> QED BY <2>3, <2>5, <3>1
  <2>7. fs[f].ref = s.file[f].ref + k /\ fs[f] # None
    BY <1>11, <2>1, <2>4
  <2> QED BY <2>2, <2>3, <2>5, <2>6, <2>7
<1>22. Sound(s2, Held(t2))
  BY <1>17, <1>18, <1>19, <1>20, <1>21 DEF Sound
<1>23. \A x \in Procs \ alive' : \A n \in Fds : fd'[x][n] = None
  BY <1>1, <1>5, <1>3 DEF Inv, FdTables
<1>24. Inv'
  BY <1>1, <1>5, <1>6, <1>14, <1>22, <1>23 DEF Inv
<1>25. ASSUME InodesInv(State, Own(alive)) PROVE InodesInv(s2, Own(alive'))
  <2>1. /\ IsFiniteSet(alive) /\ Cardinality(alive) \in Nat
        /\ Own(alive) \in [Inodes -> Int]
    BY <1>5, OwnType
  <2>2. Cardinality(alive') = Cardinality(alive) + 1
    BY <1>1, <2>1, FS_AddElement
  <2>3. \A i \in Inodes : Own(alive')[i] = Own(alive)[i] + (IF i = "root" THEN 1 ELSE 0)
    BY <2>1, <2>2 DEF Own
  <2> SUFFICES ASSUME NEW i \in Inodes
               PROVE  s2.iref[i] >= Cardinality(OpenOn(s2, i)) + Own(alive')[i]
    BY DEF InodesInv
  <2>4. OpenOn(s2, i) = OpenOn(s, i)
    BY <1>11, <1>15 DEF OpenOn
  <2>5. s.iref[i] >= Cardinality(OpenOn(s, i)) + Own(alive)[i]
    BY <1>2, <1>25 DEF InodesInv
  <2>6. OpenOn(s, i) \in SUBSET FileIds
    BY DEF OpenOn
  <2>7. Cardinality(OpenOn(s, i)) \in Nat
    BY <2>6, FewFiles
  <2>8. s.iref[i] \in Int /\ Own(alive)[i] \in Int
    BY <1>8, <2>1 DEF FileStates
  <2> QED BY <1>15, <1>16, <2>3, <2>4, <2>5, <2>7, <2>8
<1> QED BY <1>14, <1>24, <1>25 DEF Kept

LEMMA ExitStep ==
    ASSUME Inv, NEW p \in Procs, exit(p)
    PROVE  Kept
<1>1. /\ Keep(CloseAll(State, fd[p]))
      /\ fd' = [fd EXCEPT ![p] = [n \in Fds |-> None]]
      /\ alive' = alive \ {p} /\ p \in alive
      /\ UNCHANGED <<created, panicked>>
  BY DEF exit, CloseAll, Ready
<1>2. PICK t : t = fd
  OBVIOUS
<1>3. PICK s : s = State
  OBVIOUS
<1>4. PICK w : w = Own(alive)
  OBVIOUS
<1>5. t \in FdTables /\ Sound(s, Held(t)) /\ alive \subseteq Procs
  BY <1>2, <1>3 DEF Inv
<1>6. w \in [Inodes -> Int] /\ IsFiniteSet(alive) /\ Cardinality(alive) \in Nat
  BY <1>4, <1>5, OwnType
<1>7. PICK s2 : s2 = CloseAll(s, t[p])
  OBVIOUS
<1>8. PICK t2 : t2 = [t EXCEPT ![p] = [n \in Fds |-> None]]
  OBVIOUS
<1>9. /\ Sound(s2, Held(t2)) /\ s2.iref = s.iref
      /\ InodesInv(s, w) => InodesInv(s2, w)
  BY <1>5, <1>6, <1>7, <1>8, CloseAllSound
<1>10. State' = s2
  <2>1. s2 \in FileStates
    BY <1>9 DEF Sound
  <2> QED BY <1>1, <1>2, <1>3, <1>7, <2>1, KeepIs
<1>11. fd' = t2 /\ t2 \in FdTables
  BY <1>1, <1>2, <1>5, <1>8 DEF FdTables
<1>12. \A x \in Procs \ alive' : \A n \in Fds : fd'[x][n] = None
  BY <1>1, <1>2, <1>5 DEF Inv, FdTables
<1>13. Inv'
  BY <1>1, <1>5, <1>9, <1>10, <1>11, <1>12 DEF Inv
<1>14. ASSUME InodesInv(s2, w) PROVE InodesInv(s2, Own(alive'))
  <2>1. Cardinality(alive') = Cardinality(alive) - 1 /\ Cardinality(alive') \in Nat
    <3>1. Cardinality(alive') = Cardinality(alive) - 1
      BY <1>1, <1>6, FS_RemoveElement
    <3>2. alive' \in SUBSET Procs
      BY <1>1, <1>5
    <3> QED BY <3>1, <3>2, OwnType
  <2> SUFFICES ASSUME NEW i \in Inodes
               PROVE  s2.iref[i] >= Cardinality(OpenOn(s2, i)) + Own(alive')[i]
    BY DEF InodesInv
  <2>2. Own(alive')[i] <= w[i] /\ Own(alive')[i] \in Int /\ w[i] \in Int
    BY <1>4, <1>6, <2>1 DEF Own
  <2>3. s2.iref[i] >= Cardinality(OpenOn(s2, i)) + w[i]
    BY <1>14 DEF InodesInv
  <2>4. OpenOn(s2, i) \in SUBSET FileIds
    BY DEF OpenOn
  <2>5. Cardinality(OpenOn(s2, i)) \in Nat
    BY <2>4, FewFiles
  <2>6. s2.iref[i] \in Int
    BY <1>9 DEF Sound, FileStates
  <2> QED BY <2>2, <2>3, <2>5, <2>6
<1> QED BY <1>3, <1>4, <1>9, <1>10, <1>13, <1>14 DEF Kept

-----------------------------------------------------------------------------
(* The theorems.                                                           *)

LEMMA FirstInv ==
    ASSUME Init
    PROVE  Inv /\ InodesInv(State, Own(alive))
<1>1. /\ fd = [p \in Procs |-> [n \in Fds |-> None]] /\ alive = {First}
      /\ file = [f \in FileIds |-> None] /\ pipe = [q \in PipeIds |-> {}]
      /\ iref = [i \in Inodes |-> FirstRefs(i)]
      /\ created = FALSE /\ panicked = FALSE
  BY DEF Init
<1>2. PICK s : s = State
  OBVIOUS
<1>3. s.file = file /\ s.pipe = pipe /\ s.iref = iref
      /\ s = [file |-> file, pipe |-> pipe, iref |-> iref]
  BY <1>2 DEF State
<1>4. iref \in [Inodes -> Int] /\ iref["root"] = 4
      /\ \A i \in Inodes : iref[i] >= 0
  BY <1>1 DEF Inodes, FirstRefs
<1>5. s \in FileStates
  BY <1>1, <1>3, <1>4 DEF FileStates
<1>6. fd \in FdTables
  BY <1>1 DEF FdTables
<1>7. \A f \in FileIds : Held(fd)[f] = 0
  <2> SUFFICES ASSUME NEW f \in FileIds PROVE Held(fd)[f] = 0
    OBVIOUS
  <2>1. None \notin FileIds
    BY NoneAssumption, FilesAssumption DEF FileIds
  <2>2. HoldersOf(fd, f) = {}
    BY <1>1, <2>1 DEF HoldersOf
  <2> QED BY <2>2, FS_EmptySet DEF Held
<1>8. Sound(s, Held(fd))
  <2>1. Held(fd) \in [FileIds -> Nat]
    BY HeldType
  <2>2. EndsInv(s) /\ PipesInv(s)
    BY <1>1, <1>3 DEF EndsInv, PipesInv
  <2>3. RefsInv(s, Held(fd))
    BY <1>7 DEF RefsInv
  <2> QED BY <1>5, <2>1, <2>2, <2>3 DEF Sound
<1>9. Inv
  BY <1>1, <1>2, <1>6, <1>8, FilesAssumption DEF Inv
<1>10. InodesInv(s, Own(alive))
  <2> SUFFICES ASSUME NEW i \in Inodes
               PROVE  s.iref[i] >= Cardinality(OpenOn(s, i)) + Own(alive)[i]
    BY DEF InodesInv
  <2>1. OpenOn(s, i) = {}
    BY <1>1, <1>3 DEF OpenOn
  <2>2. Cardinality(OpenOn(s, i)) = 0
    BY <2>1, FS_EmptySet
  <2>3. Cardinality(alive) = 1
    BY <1>1, FS_Singleton
  <2>4. Own(alive)[i] = IF i = "root" THEN 2 ELSE 0
    BY <2>3 DEF Own
  <2> QED BY <1>3, <1>4, <2>2, <2>4
<1> QED BY <1>2, <1>9, <1>10

LEMMA StepKept ==
    ASSUME ~BadBuffer, Inv, [Next]_vars
    PROVE  Kept
<1>1. ASSUME NEW p \in Procs, NEW n \in Fds \cup {-1}, NEW path \in Paths,
             NEW create \in BOOLEAN, sys_openat(p, n, path, create)
      PROVE  Kept
  BY <1>1, OpenStep
<1>2. ASSUME NEW p \in Procs, NEW n \in Fds \cup {-1}, NEW path \in Paths,
             sys_faccessat(p, n, path)
      PROVE  Kept
  BY <1>2, AccessStep
<1>3. ASSUME NEW p \in Procs, NEW n \in Fds, sys_close(p, n) PROVE Kept
  BY <1>3, CloseStep
<1>4. ASSUME NEW p \in Procs, NEW n \in Fds, sys_dup(p, n) PROVE Kept
  BY <1>4, DupStep
<1>5. ASSUME NEW p \in Procs, NEW n \in Fds, NEW m \in Fds, sys_dup3(p, n, m)
      PROVE  Kept
  BY <1>5, Dup3Step
<1>6. ASSUME NEW p \in Procs, NEW n \in Fds, NEW m \in Fds, sys_fcntl(p, n, m)
      PROVE  Kept
  BY <1>6, FcntlStep
<1>7. ASSUME NEW p \in Procs, sys_pipe(p) PROVE Kept
  BY <1>7, PipeStep
<1>8. ASSUME NEW p \in Procs, NEW q \in Procs, fork(p, q) PROVE Kept
  BY <1>8, ForkStep
<1>9. ASSUME NEW p \in Procs, exit(p) PROVE Kept
  BY <1>9, ExitStep
<1>10. CASE UNCHANGED vars
  <2>1. UNCHANGED <<fd, alive, file, pipe, iref, created>> /\ panicked' = panicked
    BY <1>10 DEF vars
  <2>2. panicked' \in BOOLEAN
    BY <2>1 DEF Inv
  <2> QED BY <2>1, <2>2, Stands
<1> QED BY <1>1, <1>2, <1>3, <1>4, <1>5, <1>6, <1>7, <1>8, <1>9, <1>10 DEF Next

LEMMA InvHolds ==
    ASSUME Inv
    PROVE  HandlesHeld
<1>1. Sound(State, Held(fd)) /\ fd \in FdTables
  BY DEF Inv
<1>2. /\ file \in [FileIds -> FileObjects \cup {None}]
      /\ pipe \in [PipeIds -> SUBSET {"r", "w"}] /\ iref \in [Inodes -> Int]
  <2>1. State \in FileStates
    BY <1>1 DEF Sound
  <2> QED BY <2>1, StateIs DEF FileStates
<1>3. TypeOK
  BY <1>1, <1>2 DEF TypeOK, Inv, FdTables
<1>4. RefsCover
  <2> SUFFICES ASSUME NEW f \in FileIds, Holders(f) # {}
               PROVE  file[f] # None /\ file[f].ref >= Cardinality(Holders(f))
    BY DEF RefsCover
  <2>1. Holders(f) = HoldersOf(fd, f)
    BY DEF Holders, HoldersOf
  <2>2. Held(fd)[f] = Cardinality(Holders(f))
    BY <2>1 DEF Held
  <2>3. IsFiniteSet(Holders(f)) /\ Cardinality(Holders(f)) \in Nat
    BY <2>1, FewHolders
  <2>4. Cardinality(Holders(f)) # 0
    BY <2>3, FS_EmptySet
  <2>5. Held(fd)[f] > 0
    BY <2>2, <2>3, <2>4
  <2>6. State.file[f] # None /\ State.file[f].ref >= Held(fd)[f]
    BY <1>1, <2>5 DEF Sound, RefsInv
  <2> QED BY <2>2, <2>6, StateIs
<1>5. PipeEndsHeld
  <2> SUFFICES ASSUME NEW q \in PipeIds, NEW e
               PROVE  e \in pipe[q] <=>
                        e \in UNION {file[f].ends : f \in {g \in FileIds :
                                       file[g] # None /\ file[g].pipe = q}}
    BY DEF PipeEndsHeld
  <2>1. PipesInv(State)
    BY <1>1 DEF Sound
  <2>2. e \in pipe[q] <=> \E f \in FileIds : /\ file[f] # None
                                             /\ file[f].pipe = q
                                             /\ e \in file[f].ends
    BY <2>1, StateIs DEF PipesInv
  <2> QED BY <2>2
<1> QED BY <1>3, <1>4, <1>5 DEF HandlesHeld

(* No order of open, dup, dup3, fcntl, pipe, fork, close and exit leaves a *)
(* descriptor without its object, an object with fewer references than     *)
(* descriptors, or a pipe whose open ends are not those of its objects:    *)
(* for any number of processes, descriptors and objects, as long as the    *)
(* descriptors of a new pipe can be copied out to the caller.              *)
THEOREM HandlesAlwaysHeld ==
    ASSUME ~BadBuffer
    PROVE  Spec => []HandlesHeld
<1>1. Init => Inv
  BY FirstInv
<1>2. Inv /\ [Next]_vars => Inv'
  BY StepKept DEF Kept
<1>3. Inv => HandlesHeld
  BY InvHolds
<1> QED BY <1>1, <1>2, <1>3, PTL DEF Spec

(* When files are created only in the directory their path starts from, an *)
(* inode counts every file that is open on it, and the root also every     *)
(* process that works in it: none is deleted while it can be reached.      *)
THEOREM InodesAlwaysHeld ==
    ASSUME ~BadBuffer, Shallow
    PROVE  Spec => []InodesHeld
<1> DEFINE IInv == Inv /\ InodesInv(State, Own(alive))
<1>1. Init => IInv
  BY FirstInv
<1>2. IInv /\ [Next]_vars => IInv'
  <2> SUFFICES ASSUME IInv, [Next]_vars PROVE IInv'
    OBVIOUS
  <2>1. Kept
    BY StepKept
  <2> QED BY <2>1 DEF Kept
<1>3. IInv => InodesHeld
  <2> SUFFICES ASSUME IInv, NEW i \in Inodes
               PROVE  iref[i] >= Cardinality({f \in FileIds : file[f] # None
                                                 /\ file[f].inode = i})
                        + (IF i = "root" THEN 1 + Cardinality(alive) ELSE 0)
    BY DEF InodesHeld
  <2>1. State.iref[i] >= Cardinality(OpenOn(State, i)) + Own(alive)[i]
    BY DEF InodesInv
  <2>2. OpenOn(State, i) = {f \in FileIds : file[f] # None /\ file[f].inode = i}
    BY StateIs DEF OpenOn
  <2>3. Own(alive)[i] = IF i = "root" THEN 1 + Cardinality(alive) ELSE 0
    BY DEF Own
  <2> QED BY <2>1, <2>2, <2>3, StateIs
<1> HIDE DEF IInv
<1> QED BY <1>1, <1>2, <1>3, PTL DEF Spec
============================================================================
