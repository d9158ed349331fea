-------------------------- MODULE BufferCacheProofs --------------------------
(***************************************************************************)
(* Proofs about BufferCache, for every number of processes, buffers, files *)
(* and values, whichever blocks are written through the cache and whether  *)
(* or not copies fail, as long as no task is preempted inside allocBuffer. *)
(***************************************************************************)
EXTENDS BufferCache, FiniteSetTheorems, TLAPS

-----------------------------------------------------------------------------
(* The inductive invariant.                                                *)

\* Who has counted a reference to b and not given it up: with a failed copy
\* the count stays, so refcnt may be more.
Counted(b) == {p \in Procs : pc[p] \in LockPcs \cup HoldPcs /\ buf[p] = b}

RefsCounted == \A b \in Bufs : refcnt[b] >= Cardinality(Counted(b))

\* allocBuffer is not entered while another task is inside, and what its scan
\* found still holds when the reference is counted.
WindowInv ==
    /\ \A p, q \in Procs : pc[p] \in WindowPcs /\ pc[q] \in WindowPcs => p = q
    /\ \A p \in Procs : pc[p] = "hit" => blockno[buf[p]] = req[p].blk
    /\ \A p \in Procs : pc[p] = "miss" =>
           refcnt[buf[p]] = 0 /\ \A b \in Bufs : blockno[b] # req[p].blk

\* What the variables of a process hold at each place.
ProcInv ==
    \A p \in Procs :
        /\ IF pc[p] = "idle" THEN req[p] = None ELSE req[p] \in Requests
        /\ pc[p] \in WindowPcs \cup LockPcs \cup HoldPcs \cup {"unlock"} =>
               buf[p] \in Bufs
        /\ pc[p] \in {"flush", "update", "store"} => req[p].op = "write"
        /\ pc[p] \in {"update", "store"} => req[p].blk # Dir
        /\ pc[p] = "store" => sector[p] \in Contents

\* The block and the lock of a buffer belong to those who rely on it.
HoldInv ==
    /\ \A p \in Procs : pc[p] \in LockPcs \cup HoldPcs => blockno[buf[p]] = req[p].blk
    /\ \A p \in Procs : pc[p] \in HoldPcs \cup {"unlock"} => owner[buf[p]] = p

IndInv == TypeOK /\ RefsCounted /\ WindowInv /\ ProcInv /\ HoldInv
              /\ OneBufferPerBlock /\ NoLostWakeup

\* What the abstract store needs on top: a buffer of a file that is valid has
\* what the disk has until it is written, and who uses a buffer finds it valid.
CleanInv ==
    /\ \A b \in Bufs : valid[b] /\ blockno[b] \in Files =>
           \/ data[b] = disk[blockno[b]]
           \/ \E p \in Procs : pc[p] = "flush" /\ buf[p] = b
    /\ \A p \in Procs : pc[p] \in {"use", "flush", "free"} => valid[buf[p]]

\* ... and a call on a file has its value from its use of the buffer on.
GotInv ==
    \A p \in Procs :
        /\ pc[p] \notin {"flush", "free", "unlock", "update", "store"} => got[p] = None
        /\ pc[p] # "idle" /\ req[p].blk = Dir => got[p] = None
        /\ pc[p] \in {"flush", "free", "unlock"} /\ req[p].blk # Dir => got[p] # None
        /\ pc[p] \in {"update", "store"} => Faults \/ got[p] # None

StoreInv == IndInv /\ CleanInv /\ GotInv

-----------------------------------------------------------------------------
(* Facts about requests and references.                                    *)

LEMMA RequestFacts ==
    ASSUME NEW r \in Requests
    PROVE  /\ r # None
           /\ r.op \in {"read", "write"} /\ r.blk \in Blocks
           /\ r.op = "write" => r.file \in Files /\ r.val \in Values
                                /\ r.blk \in {Dir, r.file}
BY NoneAssumption, CacheAssumption DEF Requests, Blocks

LEMMA BlockFacts ==
    /\ 0 \notin Blocks /\ Files \subseteq Blocks /\ Dir \in Blocks /\ Dir \notin Files
    /\ \A b \in Bufs : b # None
BY CacheAssumption DEF Blocks

LEMMA CountedFinite ==
    ASSUME NEW b
    PROVE  IsFiniteSet(Counted(b)) /\ Cardinality(Counted(b)) \in Nat
<1>1. Counted(b) \in SUBSET Procs
  BY DEF Counted
<1>2. IsFiniteSet(Counted(b))
  BY <1>1, CacheAssumption, FS_Subset
<1> QED
  BY <1>2, FS_CardinalityType

\* A buffer that a process counts itself on is no victim.
LEMMA CountedHeld ==
    ASSUME TypeOK, RefsCounted, ProcInv, NEW p \in Procs, pc[p] \in LockPcs \cup HoldPcs
    PROVE  refcnt[buf[p]] > 0
<1>1. buf[p] \in Bufs
  BY DEF ProcInv
<1>2. p \in Counted(buf[p])
  BY DEF Counted
<1>3. Cardinality(Counted(buf[p])) # 0
  BY <1>2, CountedFinite, FS_EmptySet
<1> QED
  BY <1>1, <1>3, CountedFinite DEF RefsCounted, TypeOK

\* The scan finds the one buffer of the block.
LEMMA HitFound ==
    ASSUME IndInv, NEW p \in Procs, pc[p] # "idle", Hits(p) # {}
    PROVE  /\ Min(Hits(p)) \in Bufs
           /\ blockno[Min(Hits(p))] = req[p].blk
<1>1. PICK b \in Bufs : blockno[b] = req[p].blk
  BY DEF Hits
<1>2. req[p].blk # 0
  BY RequestFacts, BlockFacts DEF IndInv, ProcInv
<1>3. Hits(p) = {b}
  BY <1>1, <1>2 DEF Hits, IndInv, OneBufferPerBlock
<1>4. b \in Int
  BY CacheAssumption DEF Bufs
<1>5. Min({b}) = b
  BY <1>4 DEF Min
<1> QED
  BY <1>1, <1>3, <1>5

\* Counts that do not fall cover users that are not more.
LEMMA CountKept ==
    ASSUME IndInv, TypeOK', NEW b \in Bufs,
           refcnt'[b] >= refcnt[b], Counted(b)' \subseteq Counted(b)
    PROVE  refcnt'[b] >= Cardinality(Counted(b)')
<1>1. IsFiniteSet(Counted(b)') /\ Cardinality(Counted(b)') <= Cardinality(Counted(b))
  BY CountedFinite, FS_Subset
<1>2. Cardinality(Counted(b)') \in Nat
  BY <1>1, FS_CardinalityType
<1> QED
  BY <1>1, <1>2, CountedFinite DEF IndInv, RefsCounted, TypeOK

\* Where a reference is counted there is one user more.
LEMMA CountMore ==
    ASSUME IndInv, TypeOK', NEW b \in Bufs, NEW p,
           refcnt'[b] = refcnt[b] + 1, Counted(b)' \subseteq Counted(b) \cup {p}
    PROVE  refcnt'[b] >= Cardinality(Counted(b)')
<1> DEFINE S == Counted(b)
<1> HIDE DEF S
<1>a. IsFiniteSet(S) /\ Cardinality(S) \in Nat
  BY CountedFinite DEF S
<1>1. /\ IsFiniteSet(S \cup {p})
      /\ Cardinality(S \cup {p}) <= Cardinality(S) + 1
  <2>1. /\ IsFiniteSet(S \cup {p})
        /\ Cardinality(S \cup {p}) = IF p \in S THEN Cardinality(S) ELSE Cardinality(S) + 1
    BY <1>a, FS_AddElement
  <2> QED
    BY <1>a, <2>1
<1>2. IsFiniteSet(Counted(b)')
      /\ Cardinality(Counted(b)') <= Cardinality(S \cup {p})
  BY <1>1, FS_Subset DEF S
<1>3. Cardinality(Counted(b)') \in Nat /\ Cardinality(S \cup {p}) \in Nat
  BY <1>1, <1>2, FS_CardinalityType
<1>4. refcnt[b] >= Cardinality(S)
  BY DEF S, IndInv, RefsCounted
<1> QED
  BY <1>a, <1>1, <1>2, <1>3, <1>4 DEF IndInv, TypeOK

\* Where a reference is given up there is one user less.
LEMMA CountLess ==
    ASSUME IndInv, TypeOK', NEW b \in Bufs, NEW p \in Counted(b),
           refcnt'[b] = refcnt[b] - 1, Counted(b)' \subseteq Counted(b) \ {p}
    PROVE  refcnt'[b] >= Cardinality(Counted(b)')
<1>1. /\ IsFiniteSet(Counted(b) \ {p})
      /\ Cardinality(Counted(b) \ {p}) = Cardinality(Counted(b)) - 1
  BY CountedFinite, FS_RemoveElement
<1>2. IsFiniteSet(Counted(b)')
      /\ Cardinality(Counted(b)') <= Cardinality(Counted(b) \ {p})
  BY <1>1, FS_Subset
<1>3. Cardinality(Counted(b)') \in Nat
  BY <1>2, FS_CardinalityType
<1> QED
  BY <1>1, <1>2, <1>3, CountedFinite DEF IndInv, RefsCounted, TypeOK

\* Nobody relies on a victim.
LEMMA VictimUnused ==
    ASSUME IndInv, NEW p \in Procs, pc[p] = "miss"
    PROVE  /\ \A q \in Procs : pc[q] \in LockPcs \cup HoldPcs => buf[q] # buf[p]
           /\ Counted(buf[p]) = {} /\ refcnt[buf[p]] = 0
BY CountedHeld DEF IndInv, WindowInv, Counted

-----------------------------------------------------------------------------
(* Every step keeps the invariant.                                         *)

\* Every step keeps the types.
LEMMA TypeStep ==
    ASSUME IndInv, [Next]_vars
    PROVE  TypeOK'
<1> USE DEF At, Goto, bufVars, procVars, TypeOK, ProcInv, IndInv, Pcs,
   WindowPcs, LockPcs, HoldPcs
<1>1. ASSUME NEW p \in Procs, NEW r \in Requests, Start(p, r)
      PROVE  TypeOK'
  BY <1>1, RequestFacts DEF Start
<1>2. ASSUME NEW p \in Procs, AllocHit(p)
      PROVE  TypeOK'
  BY <1>2, HitFound DEF AllocHit
<1>3. ASSUME NEW p \in Procs, CountHit(p)
      PROVE  TypeOK'
  BY <1>3, RequestFacts DEF CountHit
<1>4. ASSUME NEW p \in Procs, AllocMiss(p)
      PROVE  TypeOK'
  BY <1>4 DEF AllocMiss, Victims
<1>5. ASSUME NEW p \in Procs, TakeVictim(p)
      PROVE  TypeOK'
  BY <1>5, RequestFacts DEF TakeVictim
<1>6. ASSUME NEW p \in Procs, SleepLock(p)
      PROVE  TypeOK'
  BY <1>6, RequestFacts DEF SleepLock
<1>7. ASSUME NEW p \in Procs, ReadDisk(p)
      PROVE  TypeOK'
  BY <1>7, RequestFacts DEF ReadDisk
<1>8. ASSUME NEW p \in Procs, UseRead(p)
      PROVE  TypeOK'
  <2>1. buf[p] \in Bufs /\ req[p] \in Requests
    BY <1>8 DEF UseRead
  <2>2. req[p].blk # Dir => data[buf[p]][req[p].blk] \in Values
    BY <2>1, RequestFacts DEF Contents, Blocks
  <2> QED
    BY <1>8, <2>2 DEF UseRead
<1>9. ASSUME NEW p \in Procs, UseWrite(p)
      PROVE  TypeOK'
  <2>1. buf[p] \in Bufs /\ req[p] \in Requests /\ req[p].op = "write"
    BY <1>9 DEF UseWrite
  <2>2. [data[buf[p]] EXCEPT ![req[p].file] = req[p].val] \in Contents
    BY <2>1, RequestFacts DEF Contents
  <2>3. data' \in [Bufs -> Contents]
    BY <1>9, <2>2 DEF UseWrite
  <2>4. got' \in [Procs -> Values \cup {None}]
    BY <1>9, <2>1, RequestFacts DEF UseWrite
  <2> QED
    BY <1>9, <2>3, <2>4 DEF UseWrite
<1>10. ASSUME NEW p \in Procs, UseFails(p)
      PROVE  TypeOK'
  BY <1>10, RequestFacts DEF UseFails, DropBuffer, EndOfCall, Updates
<1>11. ASSUME NEW p \in Procs, WriteDisk(p)
      PROVE  TypeOK'
  BY <1>11, RequestFacts DEF WriteDisk
<1>12. ASSUME NEW p \in Procs, FreeRef(p)
      PROVE  TypeOK'
  <2>1. buf[p] \in Bufs /\ refcnt[buf[p]] > 0
    BY <1>12, CountedHeld DEF FreeRef
  <2>2. refcnt' \in [Bufs -> Nat]
    BY <1>12, <2>1 DEF FreeRef
  <2> QED
    BY <1>12, <2>2 DEF FreeRef
<1>13. ASSUME NEW p \in Procs, FreeLock(p)
      PROVE  TypeOK'
  BY <1>13, RequestFacts DEF FreeLock, DropBuffer, EndOfCall, Updates
<1>14. ASSUME NEW p \in Procs, UpdateRead(p)
      PROVE  TypeOK'
  <2>1. req[p] \in Requests /\ req[p].op = "write"
    BY <1>14 DEF UpdateRead
  <2>2. [disk[Dir] EXCEPT ![req[p].file] = req[p].val] \in Contents
    BY <2>1, RequestFacts, BlockFacts DEF Contents
  <2> QED
    BY <1>14, <2>2 DEF UpdateRead
<1>15. ASSUME NEW p \in Procs, UpdateWrite(p)
      PROVE  TypeOK'
  BY <1>15, RequestFacts DEF UpdateWrite
<1>16. CASE UNCHANGED vars
  BY <1>16 DEF vars
<1> QED
  BY <1>1, <1>2, <1>3, <1>4, <1>5, <1>6, <1>7, <1>8, <1>9, <1>10, <1>11,
     <1>12, <1>13, <1>14, <1>15, <1>16 DEF Next, Step

\* Every step leaves each process the variables its next one needs.
LEMMA ProcStep ==
    ASSUME IndInv, [Next]_vars
    PROVE  ProcInv'
<1> USE DEF At, Goto, bufVars, procVars, TypeOK, ProcInv, IndInv, Pcs,
   WindowPcs, LockPcs, HoldPcs
<1>1. ASSUME NEW p \in Procs, NEW r \in Requests, Start(p, r)
      PROVE  ProcInv'
  BY <1>1, RequestFacts DEF Start
<1>2. ASSUME NEW p \in Procs, AllocHit(p)
      PROVE  ProcInv'
  BY <1>2, HitFound DEF AllocHit
<1>3. ASSUME NEW p \in Procs, CountHit(p)
      PROVE  ProcInv'
  BY <1>3, RequestFacts DEF CountHit
<1>4. ASSUME NEW p \in Procs, AllocMiss(p)
      PROVE  ProcInv'
  BY <1>4 DEF AllocMiss, Victims
<1>5. ASSUME NEW p \in Procs, TakeVictim(p)
      PROVE  ProcInv'
  BY <1>5, RequestFacts DEF TakeVictim
<1>6. ASSUME NEW p \in Procs, SleepLock(p)
      PROVE  ProcInv'
  BY <1>6, RequestFacts DEF SleepLock
<1>7. ASSUME NEW p \in Procs, ReadDisk(p)
      PROVE  ProcInv'
  BY <1>7, RequestFacts DEF ReadDisk
<1>8. ASSUME NEW p \in Procs, UseRead(p)
      PROVE  ProcInv'
  BY <1>8, RequestFacts DEF UseRead
<1>9. ASSUME NEW p \in Procs, UseWrite(p)
      PROVE  ProcInv'
  BY <1>9, RequestFacts DEF UseWrite
<1>10. ASSUME NEW p \in Procs, UseFails(p)
      PROVE  ProcInv'
  BY <1>10, RequestFacts DEF UseFails, DropBuffer, EndOfCall, Updates
<1>11. ASSUME NEW p \in Procs, WriteDisk(p)
      PROVE  ProcInv'
  BY <1>11, RequestFacts DEF WriteDisk
<1>12. ASSUME NEW p \in Procs, FreeRef(p)
      PROVE  ProcInv'
  BY <1>12, RequestFacts DEF FreeRef
<1>13. ASSUME NEW p \in Procs, FreeLock(p)
      PROVE  ProcInv'
  BY <1>13, RequestFacts DEF FreeLock, DropBuffer, EndOfCall, Updates
<1>14. ASSUME NEW p \in Procs, UpdateRead(p)
      PROVE  ProcInv'
  <2>1. req[p] \in Requests /\ req[p].op = "write"
    BY <1>14 DEF UpdateRead
  <2>2. [disk[Dir] EXCEPT ![req[p].file] = req[p].val] \in Contents
    BY <2>1, RequestFacts, BlockFacts DEF Contents
  <2> QED
    BY <1>14, <2>2 DEF UpdateRead
<1>15. ASSUME NEW p \in Procs, UpdateWrite(p)
      PROVE  ProcInv'
  BY <1>15, RequestFacts DEF UpdateWrite
<1>16. CASE UNCHANGED vars
  BY <1>16 DEF vars
<1> QED
  BY <1>1, <1>2, <1>3, <1>4, <1>5, <1>6, <1>7, <1>8, <1>9, <1>10, <1>11,
     <1>12, <1>13, <1>14, <1>15, <1>16 DEF Next, Step

\* Every reference that a process relies on is counted.
LEMMA RefsStep ==
    ASSUME IndInv, [Next]_vars
    PROVE  RefsCounted'
<1> SUFFICES ASSUME NEW b \in Bufs
             PROVE  refcnt'[b] >= Cardinality(Counted(b)')
  BY DEF RefsCounted
<1> DEFINE Kept == refcnt'[b] >= refcnt[b] /\ Counted(b)' \subseteq Counted(b)
           More(p) == /\ refcnt'[b] = refcnt[b] + 1
                      /\ Counted(b)' \subseteq Counted(b) \cup {p}
           Less(p) == /\ p \in Counted(b) /\ refcnt'[b] = refcnt[b] - 1
                      /\ Counted(b)' \subseteq Counted(b) \ {p}
<1>a. TypeOK'
  BY TypeStep
<1>b. (Kept \/ \E p : More(p) \/ Less(p)) => refcnt'[b] >= Cardinality(Counted(b)')
  BY <1>a, CountKept, CountMore, CountLess
<1> USE DEF At, Goto, bufVars, procVars, IndInv, TypeOK, ProcInv, Counted,
   WindowPcs, LockPcs, HoldPcs
<1>1. ASSUME NEW p \in Procs, NEW r \in Requests, Start(p, r)
      PROVE  Kept
  BY <1>1 DEF Start
<1>2. ASSUME NEW p \in Procs, AllocHit(p)
      PROVE  Kept
  BY <1>2 DEF AllocHit
<1>3. ASSUME NEW p \in Procs, CountHit(p)
      PROVE  Kept \/ More(p)
  <2>1. CASE b = buf[p]
    BY <1>3, <2>1 DEF CountHit
  <2>2. CASE b # buf[p]
    BY <1>3, <2>2 DEF CountHit
  <2> QED
    BY <2>1, <2>2
<1>4. ASSUME NEW p \in Procs, AllocMiss(p)
      PROVE  Kept
  BY <1>4 DEF AllocMiss
<1>5. ASSUME NEW p \in Procs, TakeVictim(p)
      PROVE  Kept \/ More(p)
  <2>1. CASE b = buf[p]
    BY <1>5, <2>1, VictimUnused DEF TakeVictim
  <2>2. CASE b # buf[p]
    BY <1>5, <2>2 DEF TakeVictim
  <2> QED
    BY <2>1, <2>2
<1>6. ASSUME NEW p \in Procs, SleepLock(p)
      PROVE  Kept
  BY <1>6 DEF SleepLock
<1>7. ASSUME NEW p \in Procs, ReadDisk(p)
      PROVE  Kept
  BY <1>7 DEF ReadDisk
<1>8. ASSUME NEW p \in Procs, UseRead(p)
      PROVE  Kept
  BY <1>8 DEF UseRead
<1>9. ASSUME NEW p \in Procs, UseWrite(p)
      PROVE  Kept
  BY <1>9 DEF UseWrite
<1>10. ASSUME NEW p \in Procs, UseFails(p)
      PROVE  Kept
  BY <1>10 DEF DropBuffer, EndOfCall, Updates, UseFails
<1>11. ASSUME NEW p \in Procs, WriteDisk(p)
      PROVE  Kept
  BY <1>11 DEF WriteDisk
<1>12. ASSUME NEW p \in Procs, FreeRef(p)
      PROVE  Kept \/ Less(p)
  <2>1. CASE b = buf[p]
    BY <1>12, <2>1 DEF FreeRef
  <2>2. CASE b # buf[p]
    BY <1>12, <2>2 DEF FreeRef
  <2> QED
    BY <2>1, <2>2
<1>13. ASSUME NEW p \in Procs, FreeLock(p)
      PROVE  Kept
  BY <1>13 DEF DropBuffer, EndOfCall, Updates, FreeLock
<1>14. ASSUME NEW p \in Procs, UpdateRead(p)
      PROVE  Kept
  BY <1>14 DEF UpdateRead
<1>15. ASSUME NEW p \in Procs, UpdateWrite(p)
      PROVE  Kept
  BY <1>15 DEF UpdateWrite
<1>16. ASSUME UNCHANGED vars
      PROVE  Kept
  BY <1>16 DEF vars
<1> HIDE DEF Kept, More, Less
<1> QED
  BY <1>b, <1>1, <1>2, <1>3, <1>4, <1>5, <1>6, <1>7, <1>8, <1>9, <1>10, <1>11,
     <1>12, <1>13, <1>14, <1>15, <1>16 DEF Next, Step

\* No step comes between the scan of allocBuffer and its count.
LEMMA WindowStep ==
    ASSUME IndInv, ~Preempt, [Next]_vars
    PROVE  WindowInv'
<1> USE DEF At, Goto, bufVars, procVars, IndInv, TypeOK, WindowInv, ProcInv,
   WindowPcs, LockPcs, HoldPcs
<1>1. ASSUME NEW p \in Procs, NEW r \in Requests, Start(p, r)
      PROVE  WindowInv'
  BY <1>1 DEF Start
<1>2. ASSUME NEW p \in Procs, AllocHit(p)
      PROVE  WindowInv'
  BY <1>2, HitFound DEF AllocHit
<1>3. ASSUME NEW p \in Procs, CountHit(p)
      PROVE  WindowInv'
  BY <1>3 DEF CountHit
<1>4. ASSUME NEW p \in Procs, AllocMiss(p)
      PROVE  WindowInv'
  BY <1>4 DEF AllocMiss, Victims, Hits
<1>5. ASSUME NEW p \in Procs, TakeVictim(p)
      PROVE  WindowInv'
  BY <1>5 DEF TakeVictim
<1>6. ASSUME NEW p \in Procs, SleepLock(p)
      PROVE  WindowInv'
  BY <1>6 DEF SleepLock
<1>7. ASSUME NEW p \in Procs, ReadDisk(p)
      PROVE  WindowInv'
  BY <1>7 DEF ReadDisk
<1>8. ASSUME NEW p \in Procs, UseRead(p)
      PROVE  WindowInv'
  BY <1>8 DEF UseRead
<1>9. ASSUME NEW p \in Procs, UseWrite(p)
      PROVE  WindowInv'
  BY <1>9 DEF UseWrite
<1>10. ASSUME NEW p \in Procs, UseFails(p)
      PROVE  WindowInv'
  BY <1>10 DEF UseFails, DropBuffer, EndOfCall, Updates
<1>11. ASSUME NEW p \in Procs, WriteDisk(p)
      PROVE  WindowInv'
  BY <1>11 DEF WriteDisk
<1>12. ASSUME NEW p \in Procs, FreeRef(p)
      PROVE  WindowInv'
  BY <1>12 DEF FreeRef
<1>13. ASSUME NEW p \in Procs, FreeLock(p)
      PROVE  WindowInv'
  BY <1>13 DEF FreeLock, DropBuffer, EndOfCall, Updates
<1>14. ASSUME NEW p \in Procs, UpdateRead(p)
      PROVE  WindowInv'
  BY <1>14 DEF UpdateRead
<1>15. ASSUME NEW p \in Procs, UpdateWrite(p)
      PROVE  WindowInv'
  BY <1>15 DEF UpdateWrite
<1>16. CASE UNCHANGED vars
  BY <1>16 DEF vars
<1> QED
  BY <1>1, <1>2, <1>3, <1>4, <1>5, <1>6, <1>7, <1>8, <1>9, <1>10, <1>11,
     <1>12, <1>13, <1>14, <1>15, <1>16 DEF Next, Step

\* A buffer keeps its block and its lock while a process relies on them.
LEMMA HoldStep ==
    ASSUME IndInv, [Next]_vars
    PROVE  HoldInv'
<1> USE DEF At, Goto, bufVars, procVars, IndInv, TypeOK, HoldInv, ProcInv,
   WindowPcs, LockPcs, HoldPcs
<1>1. ASSUME NEW p \in Procs, NEW r \in Requests, Start(p, r)
      PROVE  HoldInv'
  BY <1>1 DEF Start
<1>2. ASSUME NEW p \in Procs, AllocHit(p)
      PROVE  HoldInv'
  BY <1>2 DEF AllocHit
<1>3. ASSUME NEW p \in Procs, CountHit(p)
      PROVE  HoldInv'
  BY <1>3 DEF CountHit, WindowInv
<1>4. ASSUME NEW p \in Procs, AllocMiss(p)
      PROVE  HoldInv'
  BY <1>4 DEF AllocMiss
<1>5. ASSUME NEW p \in Procs, TakeVictim(p)
      PROVE  HoldInv'
  BY <1>5, VictimUnused DEF TakeVictim
<1>6. ASSUME NEW p \in Procs, SleepLock(p)
      PROVE  HoldInv'
  BY <1>6, CacheAssumption DEF SleepLock
<1>7. ASSUME NEW p \in Procs, ReadDisk(p)
      PROVE  HoldInv'
  BY <1>7 DEF ReadDisk
<1>8. ASSUME NEW p \in Procs, UseRead(p)
      PROVE  HoldInv'
  BY <1>8 DEF UseRead
<1>9. ASSUME NEW p \in Procs, UseWrite(p)
      PROVE  HoldInv'
  BY <1>9 DEF UseWrite
<1>10. ASSUME NEW p \in Procs, UseFails(p)
      PROVE  HoldInv'
  BY <1>10 DEF UseFails, DropBuffer, EndOfCall, Updates
<1>11. ASSUME NEW p \in Procs, WriteDisk(p)
      PROVE  HoldInv'
  BY <1>11 DEF WriteDisk
<1>12. ASSUME NEW p \in Procs, FreeRef(p)
      PROVE  HoldInv'
  BY <1>12 DEF FreeRef
<1>13. ASSUME NEW p \in Procs, FreeLock(p)
      PROVE  HoldInv'
  BY <1>13 DEF FreeLock, DropBuffer, EndOfCall, Updates
<1>14. ASSUME NEW p \in Procs, UpdateRead(p)
      PROVE  HoldInv'
  BY <1>14 DEF UpdateRead
<1>15. ASSUME NEW p \in Procs, UpdateWrite(p)
      PROVE  HoldInv'
  BY <1>15 DEF UpdateWrite
<1>16. CASE UNCHANGED vars
  BY <1>16 DEF vars
<1> QED
  BY <1>1, <1>2, <1>3, <1>4, <1>5, <1>6, <1>7, <1>8, <1>9, <1>10, <1>11,
     <1>12, <1>13, <1>14, <1>15, <1>16 DEF Next, Step

\* A victim gets a block that no other buffer has.
LEMMA OneBufferStep ==
    ASSUME IndInv, [Next]_vars
    PROVE  OneBufferPerBlock'
<1> USE DEF At, Goto, bufVars, IndInv, TypeOK, OneBufferPerBlock
<1>1. ASSUME NEW p \in Procs, NEW r \in Requests, Start(p, r)
      PROVE  OneBufferPerBlock'
  BY <1>1 DEF Start
<1>2. ASSUME NEW p \in Procs, AllocHit(p)
      PROVE  OneBufferPerBlock'
  BY <1>2 DEF AllocHit
<1>3. ASSUME NEW p \in Procs, CountHit(p)
      PROVE  OneBufferPerBlock'
  BY <1>3 DEF CountHit
<1>4. ASSUME NEW p \in Procs, AllocMiss(p)
      PROVE  OneBufferPerBlock'
  BY <1>4 DEF AllocMiss
<1>5. ASSUME NEW p \in Procs, TakeVictim(p)
      PROVE  OneBufferPerBlock'
  BY <1>5 DEF TakeVictim, WindowInv, ProcInv, WindowPcs
<1>6. ASSUME NEW p \in Procs, SleepLock(p)
      PROVE  OneBufferPerBlock'
  BY <1>6 DEF SleepLock
<1>7. ASSUME NEW p \in Procs, ReadDisk(p)
      PROVE  OneBufferPerBlock'
  BY <1>7 DEF ReadDisk
<1>8. ASSUME NEW p \in Procs, UseRead(p)
      PROVE  OneBufferPerBlock'
  BY <1>8 DEF UseRead
<1>9. ASSUME NEW p \in Procs, UseWrite(p)
      PROVE  OneBufferPerBlock'
  BY <1>9 DEF UseWrite
<1>10. ASSUME NEW p \in Procs, UseFails(p)
      PROVE  OneBufferPerBlock'
  BY <1>10 DEF UseFails, DropBuffer, EndOfCall, Updates
<1>11. ASSUME NEW p \in Procs, WriteDisk(p)
      PROVE  OneBufferPerBlock'
  BY <1>11 DEF WriteDisk
<1>12. ASSUME NEW p \in Procs, FreeRef(p)
      PROVE  OneBufferPerBlock'
  BY <1>12 DEF FreeRef
<1>13. ASSUME NEW p \in Procs, FreeLock(p)
      PROVE  OneBufferPerBlock'
  BY <1>13 DEF FreeLock, DropBuffer, EndOfCall, Updates
<1>14. ASSUME NEW p \in Procs, UpdateRead(p)
      PROVE  OneBufferPerBlock'
  BY <1>14 DEF UpdateRead
<1>15. ASSUME NEW p \in Procs, UpdateWrite(p)
      PROVE  OneBufferPerBlock'
  BY <1>15 DEF UpdateWrite
<1>16. CASE UNCHANGED vars
  BY <1>16 DEF vars, procVars
<1> QED
  BY <1>1, <1>2, <1>3, <1>4, <1>5, <1>6, <1>7, <1>8, <1>9, <1>10, <1>11,
     <1>12, <1>13, <1>14, <1>15, <1>16 DEF Next, Step

\* SleepLock::unlock leaves nobody asleep on the lock.
LEMMA WakeupStep ==
    ASSUME IndInv, [Next]_vars
    PROVE  NoLostWakeup'
<1> USE DEF At, Goto, bufVars, procVars, IndInv, TypeOK, NoLostWakeup,
   ProcInv, WindowPcs, LockPcs, HoldPcs
<1>1. ASSUME NEW p \in Procs, NEW r \in Requests, Start(p, r)
      PROVE  NoLostWakeup'
  BY <1>1, CacheAssumption DEF Start
<1>2. ASSUME NEW p \in Procs, AllocHit(p)
      PROVE  NoLostWakeup'
  BY <1>2, CacheAssumption DEF AllocHit
<1>3. ASSUME NEW p \in Procs, CountHit(p)
      PROVE  NoLostWakeup'
  BY <1>3, CacheAssumption DEF CountHit
<1>4. ASSUME NEW p \in Procs, AllocMiss(p)
      PROVE  NoLostWakeup'
  BY <1>4, CacheAssumption DEF AllocMiss
<1>5. ASSUME NEW p \in Procs, TakeVictim(p)
      PROVE  NoLostWakeup'
  BY <1>5, CacheAssumption DEF TakeVictim
<1>6. ASSUME NEW p \in Procs, SleepLock(p)
      PROVE  NoLostWakeup'
  BY <1>6, CacheAssumption DEF SleepLock
<1>7. ASSUME NEW p \in Procs, ReadDisk(p)
      PROVE  NoLostWakeup'
  BY <1>7, CacheAssumption DEF ReadDisk
<1>8. ASSUME NEW p \in Procs, UseRead(p)
      PROVE  NoLostWakeup'
  BY <1>8, CacheAssumption DEF UseRead
<1>9. ASSUME NEW p \in Procs, UseWrite(p)
      PROVE  NoLostWakeup'
  BY <1>9, CacheAssumption DEF UseWrite
<1>10. ASSUME NEW p \in Procs, UseFails(p)
      PROVE  NoLostWakeup'
  BY <1>10, CacheAssumption DEF UseFails, DropBuffer, EndOfCall, Updates
<1>11. ASSUME NEW p \in Procs, WriteDisk(p)
      PROVE  NoLostWakeup'
  BY <1>11, CacheAssumption DEF WriteDisk
<1>12. ASSUME NEW p \in Procs, FreeRef(p)
      PROVE  NoLostWakeup'
  BY <1>12, CacheAssumption DEF FreeRef
<1>13. ASSUME NEW p \in Procs, FreeLock(p)
      PROVE  NoLostWakeup'
  BY <1>13, CacheAssumption DEF FreeLock, DropBuffer, EndOfCall, Updates
<1>14. ASSUME NEW p \in Procs, UpdateRead(p)
      PROVE  NoLostWakeup'
  BY <1>14, CacheAssumption DEF UpdateRead
<1>15. ASSUME NEW p \in Procs, UpdateWrite(p)
      PROVE  NoLostWakeup'
  BY <1>15, CacheAssumption DEF UpdateWrite
<1>16. CASE UNCHANGED vars
  BY <1>16 DEF vars
<1> QED
  BY <1>1, <1>2, <1>3, <1>4, <1>5, <1>6, <1>7, <1>8, <1>9, <1>10, <1>11,
     <1>12, <1>13, <1>14, <1>15, <1>16 DEF Next, Step

LEMMA InvInit == Init => IndInv
<1> SUFFICES ASSUME Init PROVE IndInv
  OBVIOUS
<1>1. TypeOK
  <2>1. PICK c \in Contents : /\ data = [b \in Bufs |-> c]
                              /\ disk = [k \in Blocks |-> IF k = Dir THEN c
                                            ELSE [f \in Files |-> c[k]]]
    BY DEF Init
  <2>2. \A k \in Files : [f \in Files |-> c[k]] \in Contents
    BY DEF Contents
  <2>3. disk \in [Blocks -> Contents]
    BY <2>1, <2>2 DEF Blocks
  <2> QED
    BY <2>1, <2>3 DEF Init, TypeOK, Pcs
<1>2. RefsCounted
  <2>1. \A b \in Bufs : Counted(b) = {}
    BY DEF Init, Counted, LockPcs, HoldPcs
  <2>2. \A b \in Bufs : Cardinality(Counted(b)) = 0
    BY <2>1, FS_EmptySet
  <2>3. \A b \in Bufs : refcnt[b] = 0
    BY DEF Init
  <2> QED
    BY <2>2, <2>3 DEF RefsCounted
<1>3. WindowInv /\ ProcInv /\ HoldInv /\ NoLostWakeup
  BY DEF Init, WindowInv, ProcInv, HoldInv, NoLostWakeup, WindowPcs, LockPcs, HoldPcs
<1>4. OneBufferPerBlock
  BY DEF Init, OneBufferPerBlock
<1> QED
  BY <1>1, <1>2, <1>3, <1>4 DEF IndInv

LEMMA InvStep == ~Preempt /\ IndInv /\ [Next]_vars => IndInv'
BY TypeStep, RefsStep, WindowStep, ProcStep, HoldStep, OneBufferStep, WakeupStep
   DEF IndInv

LEMMA Invariance == ASSUME ~Preempt PROVE Spec => []IndInv
<1>1. IndInv /\ [Next]_vars => IndInv'
  BY InvStep
<1> QED
  BY <1>1, InvInit, PTL DEF Spec

\* allocBuffer gives a block one buffer, although it releases the lock of the
\* cache before it counts its reference and processes sleep for the disk and
\* for the buffer's lock: whoever waits for a buffer, holds it or reads into it
\* has the block it asked for, and it is evicted from none of them.
THEOREM BuffersKept == ASSUME ~Preempt PROVE Spec => []BuffersKeepBlocks
<1>1. IndInv => BuffersKeepBlocks
  BY CountedHeld DEF IndInv, BuffersKeepBlocks, HeldKeepsBlock, HoldInv
<1> QED
  BY <1>1, Invariance, PTL

\* SleepLock::lock and unlock lose no wakeup: nobody sleeps on a free buffer.
THEOREM CacheNoLostWakeup == ASSUME ~Preempt PROVE Spec => []NoLostWakeup
<1>1. IndInv => NoLostWakeup
  BY DEF IndInv
<1> QED
  BY <1>1, Invariance, PTL

-----------------------------------------------------------------------------
(* The cache is a store of blocks.                                         *)

\* A valid buffer of a file has the block of the disk, but for a pending write.
LEMMA CleanStep ==
    ASSUME IndInv, CleanInv, [Next]_vars
    PROVE  CleanInv'
<1> USE DEF At, Goto, bufVars, procVars, IndInv, TypeOK, CleanInv, ProcInv,
   HoldInv, WindowPcs, LockPcs, HoldPcs
<1>1. ASSUME NEW p \in Procs, NEW r \in Requests, Start(p, r)
      PROVE  CleanInv'
  BY <1>1, BlockFacts DEF Start
<1>2. ASSUME NEW p \in Procs, AllocHit(p)
      PROVE  CleanInv'
  BY <1>2, BlockFacts DEF AllocHit
<1>3. ASSUME NEW p \in Procs, CountHit(p)
      PROVE  CleanInv'
  BY <1>3, BlockFacts DEF CountHit
<1>4. ASSUME NEW p \in Procs, AllocMiss(p)
      PROVE  CleanInv'
  BY <1>4, BlockFacts DEF AllocMiss
<1>5. ASSUME NEW p \in Procs, TakeVictim(p)
      PROVE  CleanInv'
  BY <1>5, VictimUnused, BlockFacts DEF TakeVictim
<1>6. ASSUME NEW p \in Procs, SleepLock(p)
      PROVE  CleanInv'
  BY <1>6, BlockFacts DEF SleepLock
<1>7. ASSUME NEW p \in Procs, ReadDisk(p)
      PROVE  CleanInv'
  BY <1>7, BlockFacts DEF ReadDisk
<1>8. ASSUME NEW p \in Procs, UseRead(p)
      PROVE  CleanInv'
  BY <1>8, BlockFacts DEF UseRead
<1>9. ASSUME NEW p \in Procs, UseWrite(p)
      PROVE  CleanInv'
  BY <1>9, RequestFacts DEF UseWrite
<1>10. ASSUME NEW p \in Procs, UseFails(p)
      PROVE  CleanInv'
  BY <1>10, BlockFacts DEF UseFails, DropBuffer, EndOfCall, Updates
<1>11. ASSUME NEW p \in Procs, WriteDisk(p)
      PROVE  CleanInv'
  BY <1>11, BlockFacts, CacheAssumption DEF WriteDisk, OneBufferPerBlock
<1>12. ASSUME NEW p \in Procs, FreeRef(p)
      PROVE  CleanInv'
  BY <1>12, BlockFacts DEF FreeRef
<1>13. ASSUME NEW p \in Procs, FreeLock(p)
      PROVE  CleanInv'
  BY <1>13, BlockFacts DEF FreeLock, DropBuffer, EndOfCall, Updates
<1>14. ASSUME NEW p \in Procs, UpdateRead(p)
      PROVE  CleanInv'
  BY <1>14, BlockFacts DEF UpdateRead
<1>15. ASSUME NEW p \in Procs, UpdateWrite(p)
      PROVE  CleanInv'
  BY <1>15, BlockFacts DEF UpdateWrite
<1>16. CASE UNCHANGED vars
  BY <1>16 DEF vars
<1> QED
  BY <1>1, <1>2, <1>3, <1>4, <1>5, <1>6, <1>7, <1>8, <1>9, <1>10, <1>11,
     <1>12, <1>13, <1>14, <1>15, <1>16 DEF Next, Step

\* What a process reads from its buffer is a value.
LEMMA UsedValue ==
    ASSUME IndInv, NEW p \in Procs, pc[p] = "use", req[p].blk # Dir
    PROVE  /\ buf[p] \in Bufs /\ req[p] \in Requests /\ req[p].blk \in Files
           /\ blockno[buf[p]] = req[p].blk
           /\ data[buf[p]][req[p].blk] \in Values
<1>1. buf[p] \in Bufs /\ req[p] \in Requests /\ blockno[buf[p]] = req[p].blk
  BY DEF IndInv, ProcInv, HoldInv, HoldPcs
<1>2. req[p].blk \in Files
  BY <1>1, RequestFacts DEF Blocks
<1> QED
  BY <1>1, <1>2 DEF IndInv, TypeOK, Contents

\* A call on a file has its value from its use of the buffer to its end.
LEMMA GotStep ==
    ASSUME IndInv, GotInv, [Next]_vars
    PROVE  GotInv'
<1> USE DEF At, Goto, bufVars, procVars, IndInv, TypeOK, GotInv, ProcInv,
   WindowPcs, LockPcs, HoldPcs, Pcs
<1>1. ASSUME NEW p \in Procs, NEW r \in Requests, Start(p, r)
      PROVE  GotInv'
  BY <1>1, RequestFacts, NoneAssumption DEF Start
<1>2. ASSUME NEW p \in Procs, AllocHit(p)
      PROVE  GotInv'
  BY <1>2, RequestFacts, NoneAssumption DEF AllocHit
<1>3. ASSUME NEW p \in Procs, CountHit(p)
      PROVE  GotInv'
  BY <1>3, RequestFacts, NoneAssumption DEF CountHit
<1>4. ASSUME NEW p \in Procs, AllocMiss(p)
      PROVE  GotInv'
  BY <1>4, RequestFacts, NoneAssumption DEF AllocMiss
<1>5. ASSUME NEW p \in Procs, TakeVictim(p)
      PROVE  GotInv'
  BY <1>5, RequestFacts, NoneAssumption DEF TakeVictim
<1>6. ASSUME NEW p \in Procs, SleepLock(p)
      PROVE  GotInv'
  BY <1>6, RequestFacts, NoneAssumption DEF SleepLock
<1>7. ASSUME NEW p \in Procs, ReadDisk(p)
      PROVE  GotInv'
  BY <1>7, RequestFacts, NoneAssumption DEF ReadDisk
<1>8. ASSUME NEW p \in Procs, UseRead(p)
      PROVE  GotInv'
  BY <1>8, UsedValue, NoneAssumption DEF UseRead
<1>9. ASSUME NEW p \in Procs, UseWrite(p)
      PROVE  GotInv'
  BY <1>9, RequestFacts, NoneAssumption DEF UseWrite
<1>10. ASSUME NEW p \in Procs, UseFails(p)
      PROVE  GotInv'
  BY <1>10, RequestFacts, NoneAssumption DEF UseFails, DropBuffer, EndOfCall,
     Updates
<1>11. ASSUME NEW p \in Procs, WriteDisk(p)
      PROVE  GotInv'
  BY <1>11, RequestFacts, NoneAssumption DEF WriteDisk
<1>12. ASSUME NEW p \in Procs, FreeRef(p)
      PROVE  GotInv'
  BY <1>12, RequestFacts, NoneAssumption DEF FreeRef
<1>13. ASSUME NEW p \in Procs, FreeLock(p)
      PROVE  GotInv'
  BY <1>13, RequestFacts, NoneAssumption DEF FreeLock, DropBuffer, EndOfCall,
     Updates
<1>14. ASSUME NEW p \in Procs, UpdateRead(p)
      PROVE  GotInv'
  BY <1>14, RequestFacts, NoneAssumption DEF UpdateRead
<1>15. ASSUME NEW p \in Procs, UpdateWrite(p)
      PROVE  GotInv'
  BY <1>15, RequestFacts, NoneAssumption DEF UpdateWrite
<1>16. CASE UNCHANGED vars
  BY <1>16 DEF vars
<1> QED
  BY <1>1, <1>2, <1>3, <1>4, <1>5, <1>6, <1>7, <1>8, <1>9, <1>10, <1>11,
     <1>12, <1>13, <1>14, <1>15, <1>16 DEF Next, Step

LEMMA StoreInvInit == Init => StoreInv
<1>1. Init => CleanInv /\ GotInv
  BY DEF Init, CleanInv, GotInv
<1> QED
  BY <1>1, InvInit DEF StoreInv

LEMMA StoreInvStep == ~Preempt /\ StoreInv /\ [Next]_vars => StoreInv'
BY InvStep, CleanStep, GotStep DEF StoreInv

\* The value of a file that has a valid buffer is in the buffer, before and
\* after a step.
LEMMA ValueCached ==
    ASSUME OneBufferPerBlock, NEW f \in Files, NEW b \in Bufs, blockno[b] = f, valid[b]
    PROVE  FileValue(f) = data[b][f]
<1>1. f # 0 /\ b \in Int
  BY CacheAssumption DEF Bufs
<1>2. {c \in Bufs : blockno[c] = f /\ valid[c]} = {b}
  BY <1>1 DEF OneBufferPerBlock
<1>3. Min({b}) = b
  BY <1>1 DEF Min
<1> QED
  BY <1>2, <1>3 DEF FileValue

LEMMA ValueCachedNext ==
    ASSUME OneBufferPerBlock', NEW f \in Files, NEW b \in Bufs, blockno'[b] = f, valid'[b]
    PROVE  FileValue(f)' = data'[b][f]
<1>1. f # 0 /\ b \in Int
  BY CacheAssumption DEF Bufs
<1>2. {c \in Bufs : blockno'[c] = f /\ valid'[c]} = {b}
  BY <1>1 DEF OneBufferPerBlock
<1>3. Min({b}) = b
  BY <1>1 DEF Min
<1> QED
  BY <1>2, <1>3 DEF FileValue

\* Without one it is on the disk.
LEMMA ValueOnDisk ==
    ASSUME NEW f \in Files, \A b \in Bufs : ~(blockno[b] = f /\ valid[b])
    PROVE  FileValue(f) = disk[f][f]
BY DEF FileValue

LEMMA ValueOnDiskNext ==
    ASSUME NEW f \in Files, \A b \in Bufs : ~(blockno'[b] = f /\ valid'[b])
    PROVE  FileValue(f)' = disk'[f][f]
BY DEF FileValue

\* An eviction loses nothing: nobody was about to write the victim.
LEMMA EvictionKeeps ==
    ASSUME StoreInv, IndInv', NEW p \in Procs, TakeVictim(p), NEW f \in Files
    PROVE  FileValue(f)' = FileValue(f)
<1> DEFINE b == buf[p]
<1>1. /\ b \in Bufs /\ pc[p] = "miss"
      /\ valid' = [valid EXCEPT ![b] = FALSE]
      /\ blockno' = [blockno EXCEPT ![b] = req[p].blk]
      /\ data' = data /\ disk' = disk
  BY DEF TakeVictim, At, StoreInv, IndInv, ProcInv, WindowPcs
<1>2. valid \in [Bufs -> BOOLEAN] /\ blockno \in [Bufs -> Blocks \cup {0}]
  BY DEF StoreInv, IndInv, TypeOK
<1> HIDE DEF b
<1>3. CASE \E c \in Bufs \ {b} : blockno[c] = f /\ valid[c]
  <2>1. PICK c \in Bufs \ {b} : blockno[c] = f /\ valid[c]
    BY <1>3
  <2>2. blockno'[c] = f /\ valid'[c]
    BY <1>1, <1>2, <2>1
  <2>3. FileValue(f) = data[c][f]
    BY <2>1, ValueCached DEF StoreInv, IndInv
  <2>4. FileValue(f)' = data'[c][f]
    BY <2>1, <2>2, ValueCachedNext DEF IndInv
  <2> QED
    BY <1>1, <2>3, <2>4
<1>4. CASE ~\E c \in Bufs \ {b} : blockno[c] = f /\ valid[c]
  <2>1. \A c \in Bufs : ~(blockno'[c] = f /\ valid'[c])
    BY <1>1, <1>2, <1>4
  <2>2. FileValue(f)' = disk[f][f]
    BY <1>1, <2>1, ValueOnDiskNext
  <2>3. CASE blockno[b] = f /\ valid[b]
    <3>1. FileValue(f) = data[b][f]
      BY <1>1, <2>3, ValueCached DEF StoreInv, IndInv
    <3>2. \A q \in Procs : pc[q] = "flush" => buf[q] # b
      BY <1>1, VictimUnused DEF StoreInv, HoldPcs, b
    <3>3. data[b] = disk[f]
      BY <1>1, <2>3, <3>2 DEF StoreInv, CleanInv
    <3> QED
      BY <2>2, <3>1, <3>3
  <2>4. CASE ~(blockno[b] = f /\ valid[b])
    <3>1. FileValue(f) = disk[f][f]
      BY <1>4, <2>4, ValueOnDisk
    <3> QED
      BY <2>2, <3>1
  <2> QED
    BY <2>3, <2>4
<1> QED
  BY <1>3, <1>4

\* A miss shows the value that was on the disk.
LEMMA MissKeeps ==
    ASSUME StoreInv, IndInv', NEW p \in Procs, ReadDisk(p), NEW f \in Files
    PROVE  FileValue(f)' = FileValue(f)
<1> DEFINE b == buf[p]
<1>1. /\ b \in Bufs /\ pc[p] = "io" /\ blockno[b] = req[p].blk /\ owner[b] = p
      /\ valid' = [valid EXCEPT ![b] = TRUE]
      /\ data' = [data EXCEPT ![b] = disk[blockno[b]]]
      /\ blockno' = blockno /\ disk' = disk
  BY DEF ReadDisk, At, StoreInv, IndInv, ProcInv, HoldInv, HoldPcs
<1>2. valid \in [Bufs -> BOOLEAN] /\ data \in [Bufs -> Contents]
  BY DEF StoreInv, IndInv, TypeOK
<1>3. \A q \in Procs : pc[q] = "flush" => buf[q] # b
  BY <1>1 DEF StoreInv, IndInv, HoldInv, HoldPcs, b
<1> HIDE DEF b
<1>4. CASE blockno[b] = f
  <2>1. FileValue(f)' = disk[f][f]
    BY <1>1, <1>2, <1>4, ValueCachedNext DEF IndInv
  <2>2. CASE valid[b]
    <3>1. FileValue(f) = data[b][f] /\ data[b] = disk[f]
      BY <1>1, <1>3, <1>4, <2>2, ValueCached DEF StoreInv, IndInv, CleanInv
    <3> QED
      BY <2>1, <3>1
  <2>3. CASE ~valid[b]
    <3>1. \A c \in Bufs : ~(blockno[c] = f /\ valid[c])
      BY <1>1, <1>4, <2>3, BlockFacts DEF StoreInv, IndInv, OneBufferPerBlock
    <3> QED
      BY <2>1, <3>1, ValueOnDisk
  <2> QED
    BY <2>2, <2>3
<1>5. CASE blockno[b] # f
  <2>1. \A c \in Bufs : blockno[c] = f => valid'[c] = valid[c] /\ data'[c] = data[c]
    BY <1>1, <1>2, <1>5
  <2>2. CASE \E c \in Bufs : blockno[c] = f /\ valid[c]
    <3>1. PICK c \in Bufs : blockno[c] = f /\ valid[c]
      BY <2>2
    <3>2. FileValue(f) = data[c][f]
      BY <3>1, ValueCached DEF StoreInv, IndInv
    <3>3. FileValue(f)' = data'[c][f]
      BY <1>1, <2>1, <3>1, ValueCachedNext DEF IndInv
    <3> QED
      BY <2>1, <3>1, <3>2, <3>3
  <2>3. CASE ~\E c \in Bufs : blockno[c] = f /\ valid[c]
    BY <1>1, <2>1, <2>3, ValueOnDisk, ValueOnDiskNext
  <2> QED
    BY <2>2, <2>3
<1> QED
  BY <1>4, <1>5

\* A write to the disk changes no value: the buffer has it already.
LEMMA FlushKeeps ==
    ASSUME StoreInv, IndInv', NEW p \in Procs, WriteDisk(p), NEW f \in Files
    PROVE  FileValue(f)' = FileValue(f)
<1> DEFINE b == buf[p]
<1>1. /\ b \in Bufs /\ valid[b]
      /\ disk' = [disk EXCEPT ![blockno[b]] = data[b]]
      /\ valid' = valid /\ blockno' = blockno /\ data' = data
  BY DEF WriteDisk, At, bufVars, StoreInv, IndInv, ProcInv, CleanInv, HoldPcs
<1>2. disk \in [Blocks -> Contents]
  BY DEF StoreInv, IndInv, TypeOK
<1> HIDE DEF b
<1>3. CASE \E c \in Bufs : blockno[c] = f /\ valid[c]
  <2>1. PICK c \in Bufs : blockno[c] = f /\ valid[c]
    BY <1>3
  <2>2. FileValue(f) = data[c][f] /\ FileValue(f)' = data'[c][f]
    BY <1>1, <2>1, ValueCached, ValueCachedNext DEF StoreInv, IndInv
  <2> QED
    BY <1>1, <2>2
<1>4. CASE ~\E c \in Bufs : blockno[c] = f /\ valid[c]
  <2>1. blockno[b] # f
    BY <1>1, <1>4
  <2>2. disk'[f] = disk[f]
    BY <1>1, <1>2, <2>1, BlockFacts
  <2> QED
    BY <1>1, <1>4, <2>2, ValueOnDisk, ValueOnDiskNext
<1> QED
  BY <1>3, <1>4

\* UpdateInode writes the directory only.
LEMMA UpdateKeeps ==
    ASSUME StoreInv, IndInv', NEW p \in Procs, UpdateWrite(p), NEW f \in Files
    PROVE  FileValue(f)' = FileValue(f)
<1>1. disk'[f] = disk[f]
  BY BlockFacts DEF UpdateWrite, StoreInv, IndInv, TypeOK
<1> QED
  BY <1>1 DEF UpdateWrite, bufVars, FileValue

\* A write to the buffer changes the value of its own file.
LEMMA WriteStores ==
    ASSUME StoreInv, IndInv', NEW p \in Procs, UseWrite(p), NEW f \in Files
    PROVE  FileValue(f)' = IF req[p].blk = f THEN req[p].val ELSE FileValue(f)
<1> DEFINE b == buf[p]
<1>1. /\ b \in Bufs /\ valid[b] /\ blockno[b] = req[p].blk
      /\ data' = [data EXCEPT ![b] = [data[b] EXCEPT ![req[p].file] = req[p].val]]
      /\ valid' = valid /\ blockno' = blockno /\ disk' = disk
  BY DEF UseWrite, At, StoreInv, IndInv, ProcInv, HoldInv, CleanInv, HoldPcs
<1>2. data \in [Bufs -> [Files -> Values]]
  BY DEF StoreInv, IndInv, TypeOK, Contents
<1>3. req[p].file \in Files /\ req[p].blk \in {Dir, req[p].file}
  BY RequestFacts DEF UseWrite, At, StoreInv, IndInv, ProcInv
<1> HIDE DEF b
<1>4. CASE blockno[b] = f
  <2>1. FileValue(f)' = data'[b][f]
    BY <1>1, <1>4, ValueCachedNext DEF IndInv
  <2>2. req[p].file = f
    BY <1>1, <1>3, <1>4, BlockFacts
  <2>3. data'[b] = [data[b] EXCEPT ![f] = req[p].val]
    BY <1>1, <1>2, <2>2
  <2>4. data[b] \in [Files -> Values]
    BY <1>1, <1>2
  <2>5. data'[b][f] = req[p].val
    BY <2>3, <2>4
  <2> QED
    BY <1>1, <1>4, <2>1, <2>5
<1>5. CASE blockno[b] # f
  <2>1. \A c \in Bufs : blockno[c] = f => data'[c] = data[c]
    BY <1>1, <1>2, <1>5
  <2>2. CASE \E c \in Bufs : blockno[c] = f /\ valid[c]
    <3>1. PICK c \in Bufs : blockno[c] = f /\ valid[c]
      BY <2>2
    <3>2. FileValue(f) = data[c][f] /\ FileValue(f)' = data'[c][f]
      BY <1>1, <3>1, ValueCached, ValueCachedNext DEF StoreInv, IndInv
    <3> QED
      BY <1>1, <1>5, <2>1, <3>1, <3>2
  <2>3. CASE ~\E c \in Bufs : blockno[c] = f /\ valid[c]
    <3>1. FileValue(f) = disk[f][f] /\ FileValue(f)' = disk'[f][f]
      BY <1>1, <2>3, ValueOnDisk, ValueOnDiskNext
    <3> QED
      BY <1>1, <1>5, <3>1
  <2> QED
    BY <2>2, <2>3
<1> QED
  BY <1>4, <1>5

StoreStep == [Store!StoreNext]_(Store!storeVars)

\* A step that leaves the calls and the values alone is a step of the store
\* that does nothing.
LEMMA StoreStutters ==
    ASSUME req' = req, got' = got, \A f \in Files : FileValue(f)' = FileValue(f)
    PROVE  StoreStep
<1>1. \A p \in Procs : FileRequest(p)' = FileRequest(p)
  BY DEF FileRequest
<1> QED
  BY <1>1 DEF StoreStep, Store!storeVars

\* The values are on the disk and in the buffers.
LEMMA ValuesAlone ==
    ASSUME valid' = valid, blockno' = blockno, data' = data, disk' = disk
    PROVE  \A f \in Files : FileValue(f)' = FileValue(f)
BY DEF FileValue

\* What a request on a file is to the store.
LEMMA FileRequestFacts ==
    ASSUME NEW p \in Procs, req[p] \in Requests, req[p].blk # Dir
    PROVE  /\ FileRequest(p) \in Store!Requests /\ FileRequest(p) # None
           /\ FileRequest(p).op = req[p].op /\ FileRequest(p).blk = req[p].blk
           /\ req[p].blk \in Files
           /\ req[p].op = "write" => FileRequest(p).val = req[p].val
<1>1. req[p] # None /\ req[p].blk \in Files /\ req[p].op \in {"read", "write"}
      /\ (req[p].op = "write" => req[p].val \in Values)
  BY RequestFacts DEF Blocks
<1>2. CASE req[p].op = "read"
  BY <1>1, <1>2 DEF FileRequest, Requests, Store!Requests
<1>3. CASE req[p].op = "write"
  <2>1. FileRequest(p) = [op |-> "write", blk |-> req[p].blk, val |-> req[p].val]
    BY <1>1, <1>3 DEF FileRequest
  <2> QED
    BY <1>1, <1>3, <2>1, NoneAssumption DEF Store!Requests
<1> QED
  BY <1>1, <1>2, <1>3

\* A call starts.
LEMMA StartAsks ==
    ASSUME StoreInv, NEW p \in Procs, NEW r \in Requests, Start(p, r)
    PROVE  StoreStep
<1>1. /\ req' = [req EXCEPT ![p] = r] /\ got' = got /\ req[p] = None
      /\ req \in [Procs -> Requests \cup {None}]
      /\ \A f \in Files : FileValue(f)' = FileValue(f)
  BY ValuesAlone DEF Start, At, bufVars, StoreInv, IndInv, ProcInv, TypeOK
<1>2. FileRequest(p) = None
  BY <1>1 DEF FileRequest
<1>3. \A q \in Procs \ {p} : FileRequest(q)' = FileRequest(q)
  BY <1>1 DEF FileRequest
<1>4. CASE r.blk = Dir
  <2>1. FileRequest(p)' = None
    BY <1>1, <1>4, RequestFacts DEF FileRequest
  <2> QED
    BY <1>1, <1>2, <1>3, <2>1 DEF StoreStep, Store!storeVars
<1>5. CASE r.blk # Dir
  <2>1. FileRequest(p)' \in Store!Requests
    <3>1. req'[p] = r /\ r # None /\ r.blk \in Files /\ r.op \in {"read", "write"}
          /\ (r.op = "write" => r.val \in Values)
      BY <1>1, <1>5, RequestFacts DEF Blocks
    <3>2. CASE r.op = "read"
      BY <1>5, <3>1, <3>2 DEF FileRequest, Requests, Store!Requests
    <3>3. CASE r.op = "write"
      BY <1>5, <3>1, <3>3 DEF FileRequest, Store!Requests
    <3> QED
      BY <3>1, <3>2, <3>3
  <2>2. Store!Ask(p)
    BY <1>1, <1>2, <1>3, <2>1 DEF Store!Ask
  <2> QED
    BY <2>2 DEF StoreStep, Store!StoreNext
<1> QED
  BY <1>4, <1>5

\* A call ends: one on a file returns, one on the directory was none.
LEMMA CallReturns ==
    ASSUME StoreInv, NEW p \in Procs, req[p] \in Requests,
           req' = [req EXCEPT ![p] = None], got' = [got EXCEPT ![p] = None],
           \A f \in Files : FileValue(f)' = FileValue(f),
           req[p].blk # Dir => Faults \/ got[p] # None,
           req[p].blk = Dir => got[p] = None
    PROVE  StoreStep
<1>1. req \in [Procs -> Requests \cup {None}] /\ got \in [Procs -> Values \cup {None}]
  BY DEF StoreInv, IndInv, TypeOK
<1>2. FileRequest(p)' = None
  BY <1>1 DEF FileRequest
<1>3. \A q \in Procs \ {p} : FileRequest(q)' = FileRequest(q)
  BY <1>1 DEF FileRequest
<1>4. CASE req[p].blk = Dir
  <2>1. got' = got
    BY <1>1, <1>4
  <2>2. FileRequest(p) = None
    BY <1>4 DEF FileRequest
  <2> QED
    BY <1>2, <1>3, <2>1, <2>2 DEF StoreStep, Store!storeVars
<1>5. CASE req[p].blk # Dir
  <2>1. FileRequest(p) # None
    BY <1>5, FileRequestFacts
  <2>2. [q \in Procs |-> FileRequest(q)]' =
            [[q \in Procs |-> FileRequest(q)] EXCEPT ![p] = None]
    BY <1>2, <1>3
  <2>3. Faults \/ got[p] # None
    BY <1>5
  <2>4. [f \in Files |-> FileValue(f)]' = [f \in Files |-> FileValue(f)]
    OBVIOUS
  <2>5. Store!Return(p)
    BY <2>1, <2>2, <2>3, <2>4 DEF Store!Return
  <2> QED
    BY <2>5 DEF StoreStep, Store!StoreNext
<1> QED
  BY <1>4, <1>5

\* ReadInode's copy is where a read gets its value.
LEMMA ReadGets ==
    ASSUME StoreInv, NEW p \in Procs, UseRead(p)
    PROVE  StoreStep
<1>1. /\ pc[p] = "use" /\ req[p].op = "read" /\ got[p] = None /\ req' = req
      /\ got' = [got EXCEPT ![p] = IF req[p].blk = Dir THEN None
                                   ELSE data[buf[p]][req[p].blk]]
      /\ got \in [Procs -> Values \cup {None}]
      /\ req[p] \in Requests
  BY DEF UseRead, At, StoreInv, IndInv, TypeOK, GotInv, ProcInv
<1>2. \A f \in Files : FileValue(f)' = FileValue(f)
  BY ValuesAlone DEF UseRead, bufVars
<1>3. CASE req[p].blk = Dir
  BY <1>1, <1>2, <1>3, StoreStutters
<1>4. CASE req[p].blk # Dir
  <2>1. FileRequest(p) # None /\ FileRequest(p).op = "read"
        /\ FileRequest(p).blk = req[p].blk /\ req[p].blk \in Files
    BY <1>1, <1>4, FileRequestFacts
  <2>2. FileValue(req[p].blk) = data[buf[p]][req[p].blk]
    BY <1>1, <1>4, UsedValue, ValueCached DEF StoreInv, IndInv, CleanInv
  <2>3. \A q \in Procs : FileRequest(q)' = FileRequest(q)
    BY <1>1 DEF FileRequest
  <2>4. Store!Get(p)
    BY <1>1, <1>2, <1>4, <2>1, <2>2, <2>3 DEF Store!Get
  <2> QED
    BY <2>4 DEF StoreStep, Store!StoreNext
<1> QED
  BY <1>3, <1>4

\* WriteInode's copy is where a write stores its value, before the disk has it.
LEMMA WritePuts ==
    ASSUME StoreInv, IndInv', NEW p \in Procs, UseWrite(p)
    PROVE  StoreStep
<1>1. /\ pc[p] = "use" /\ req[p].op = "write" /\ got[p] = None /\ req' = req
      /\ got' = [got EXCEPT ![p] = IF req[p].blk = Dir THEN None ELSE req[p].val]
      /\ got \in [Procs -> Values \cup {None}]
      /\ req[p] \in Requests
  BY DEF UseWrite, At, StoreInv, IndInv, TypeOK, GotInv, ProcInv
<1>2. \A f \in Files : FileValue(f)' = IF req[p].blk = f THEN req[p].val ELSE FileValue(f)
  BY WriteStores
<1>3. CASE req[p].blk = Dir
  BY <1>1, <1>2, <1>3, StoreStutters, BlockFacts
<1>4. CASE req[p].blk # Dir
  <2>1. FileRequest(p) # None /\ FileRequest(p).op = "write"
        /\ FileRequest(p).blk = req[p].blk /\ req[p].blk \in Files
        /\ FileRequest(p).val = req[p].val
    BY <1>1, <1>4, FileRequestFacts
  <2>2. \A q \in Procs : FileRequest(q)' = FileRequest(q)
    BY <1>1 DEF FileRequest
  <2>3. Store!Put(p)
    BY <1>1, <1>2, <1>4, <2>1, <2>2 DEF Store!Put
  <2> QED
    BY <2>3 DEF StoreStep, Store!StoreNext
<1> QED
  BY <1>3, <1>4

\* The buffer is given up, after its use or after a failed copy: the call
\* returns, or goes on to UpdateInode.
LEMMA DropReturns ==
    ASSUME StoreInv, NEW p \in Procs, FreeLock(p) \/ UseFails(p)
    PROVE  StoreStep
<1>1. /\ DropBuffer(p) /\ req[p] \in Requests
      /\ req \in [Procs -> Requests \cup {None}] /\ got \in [Procs -> Values \cup {None}]
  BY DEF FreeLock, UseFails, At, StoreInv, IndInv, ProcInv, TypeOK
<1>2. \A f \in Files : FileValue(f)' = FileValue(f)
  BY ValuesAlone DEF FreeLock, UseFails, bufVars
<1>3. /\ req[p].blk # Dir => Faults \/ got[p] # None
      /\ req[p].blk = Dir => got[p] = None
  BY DEF FreeLock, UseFails, At, StoreInv, GotInv
<1>4. CASE Updates(p)
  BY <1>1, <1>2, <1>4, StoreStutters DEF DropBuffer
<1>5. CASE ~Updates(p)
  BY <1>1, <1>2, <1>3, <1>5, CallReturns DEF DropBuffer
<1> QED
  BY <1>4, <1>5

\* The end of UpdateInode is the end of a write.
LEMMA UpdateReturns ==
    ASSUME StoreInv, IndInv', NEW p \in Procs, UpdateWrite(p)
    PROVE  StoreStep
<1>1. /\ req[p] \in Requests /\ req[p].blk # Dir /\ (Faults \/ got[p] # None)
      /\ req' = [req EXCEPT ![p] = None] /\ got' = [got EXCEPT ![p] = None]
  BY DEF UpdateWrite, At, StoreInv, IndInv, ProcInv, GotInv
<1> QED
  BY <1>1, UpdateKeeps, CallReturns

LEMMA StoreRefined ==
    ASSUME StoreInv, IndInv', [Next]_vars
    PROVE  StoreStep
<1>1. CASE UNCHANGED vars
  BY <1>1, ValuesAlone, StoreStutters DEF vars, bufVars, procVars
<1>2. ASSUME NEW p \in Procs,
             \/ AllocHit(p) \/ CountHit(p) \/ AllocMiss(p) \/ SleepLock(p)
             \/ FreeRef(p) \/ UpdateRead(p)
      PROVE  StoreStep
  BY <1>2, ValuesAlone, StoreStutters
     DEF AllocHit, CountHit, AllocMiss, SleepLock, FreeRef, UpdateRead, bufVars
<1>3. ASSUME NEW p \in Procs, TakeVictim(p) \/ ReadDisk(p) \/ WriteDisk(p)
      PROVE  StoreStep
  BY <1>3, EvictionKeeps, MissKeeps, FlushKeeps, StoreStutters
     DEF TakeVictim, ReadDisk, WriteDisk
<1> QED
  BY <1>1, <1>2, <1>3, StartAsks, ReadGets, WritePuts, DropReturns, UpdateReturns
     DEF Next, Step

LEMMA StoreBegins == Init => Store!StoreInit
<1> SUFFICES ASSUME Init PROVE Store!StoreInit
  OBVIOUS
<1>1. \A f \in Files : FileValue(f) = disk[f][f]
  BY ValueOnDisk DEF Init
<1>2. disk \in [Blocks -> Contents]
  BY InvInit DEF IndInv, TypeOK
<1>3. \A f \in Files : disk[f][f] \in Values
  BY <1>2, BlockFacts DEF Contents
<1>4. \A p \in Procs : FileRequest(p) = None
  BY DEF Init, FileRequest
<1> QED
  BY <1>1, <1>3, <1>4 DEF Init, Store!StoreInit

\* The cache implements the store: hits, misses, evictions, writes through to
\* the disk, failed copies and updates of the directory behind the cache, in
\* every interleaving, amount to blocks that hold what was last written to
\* them, and every read of a file's block returns its value.
THEOREM CacheImplementsStore == ASSUME ~Preempt PROVE Spec => CacheIsStore
<1>1. StoreInv /\ [Next]_vars => StoreInv'
  BY StoreInvStep
<1>2. StoreInv /\ StoreInv' /\ [Next]_vars => [Store!StoreNext]_(Store!storeVars)
  BY StoreRefined DEF StoreInv, StoreStep
<1> QED
  BY <1>1, <1>2, StoreInvInit, StoreBegins, PTL DEF Spec, CacheIsStore, Store!StoreSpec

\* BufferLayer::read returns the content of the block: what a process is about
\* to use is what the disk has in the block it asked for.  (With preemption
\* inside allocBuffer this is false.)
THEOREM ReadsReturnBlocks == ASSUME ~Preempt PROVE Spec => []ReadReturnsBlock
<1>1. StoreInv => ReadReturnsBlock
  <2> SUFFICES ASSUME StoreInv, NEW p \in Procs, pc[p] = "use", req[p].blk \in Files
               PROVE  data[buf[p]] = disk[req[p].blk]
    BY DEF ReadReturnsBlock
  <2>1. buf[p] \in Bufs /\ blockno[buf[p]] = req[p].blk /\ owner[buf[p]] = p
    BY DEF StoreInv, IndInv, ProcInv, HoldInv, HoldPcs
  <2>2. \A q \in Procs : pc[q] = "flush" => buf[q] # buf[p]
    BY <2>1 DEF StoreInv, IndInv, HoldInv, HoldPcs
  <2> QED
    BY <2>1, <2>2 DEF StoreInv, CleanInv
<1>2. StoreInv /\ [Next]_vars => StoreInv'
  BY StoreInvStep
<1> QED
  BY <1>1, <1>2, StoreInvInit, PTL DEF Spec
=============================================================================
