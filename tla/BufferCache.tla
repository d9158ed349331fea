---------------------------- MODULE BufferCache ----------------------------
(***************************************************************************)
(* fs/buf/BufferLayer.cpp with the sleep locks of os/SleepLock.cpp, used   *)
(* as ReadInode and WriteInode of fs/fat32/fat32_file_system.cpp use it.   *)
(*                                                                         *)
(* Only hart 0 runs tasks, so a stretch of code that neither sleeps nor    *)
(* is preempted is one action.  allocBuffer releases the cache's spin lock *)
(* before it counts its reference; Preempt says whether a timer interrupt  *)
(* may switch tasks there.  WriteInode ends with UpdateInode, which writes *)
(* the file's directory entry to the disk past the cache.                  *)
(***************************************************************************)
EXTENDS Naturals, FiniteSetsExt

CONSTANTS
    Procs,       \* processes
    BUFFER_NUM,  \* buffers of the cache
    Files,       \* files, each with one block of data
    Dir,         \* the block with the directory entries of these files
    Written,     \* the blocks that are written through the cache
    Values,      \* contents of a file, and of an entry
    None,        \* no process, no request, no buffer
    Preempt,     \* tasks may be preempted inside allocBuffer
    Faults       \* either_copyin and either_copyout may fail

Bufs == 0 .. BUFFER_NUM - 1

ASSUME CacheAssumption ==
    /\ IsFiniteSet(Procs)
    /\ BUFFER_NUM \in Nat \ {0}
    /\ Dir \notin Files /\ Files \cap Nat = {} /\ Dir \notin Nat
    /\ None \notin Procs \cup Bufs
    /\ Written \subseteq Files \cup {Dir}
    /\ Preempt \in BOOLEAN /\ Faults \in BOOLEAN

Blocks == Files \cup {Dir}

\* A block has one part per file: in the directory the entry of the file, in
\* the block of the file its data.
Contents == [Files -> Values]

Requests == [op : {"read"}, blk : Blocks]
    \cup {r \in [op : {"write"}, blk : Written, file : Files, val : Values] :
              r.blk \in {Dir, r.file}}

ASSUME NoneAssumption ==
    /\ None \notin Values
    /\ None \notin Requests \cup [op : {"write"}, blk : Files, val : Values]

VARIABLES
    valid, blockno, refcnt, data,   \* fields of struct buf
    owner,   \* its SleepLock: the pid that holds it, or None
    disk,    \* the blocks on the disk
    pc,      \* where each process is
    req,     \* what it asked for: op, block, and the file and value it writes
    buf,     \* its struct buf pointer
    sector,  \* UpdateInode's copy of the directory block
    got      \* the value its call on a file has copied out or in

bufVars  == <<valid, blockno, refcnt, data, owner>>
procVars == <<pc, req, buf, sector>>
vars == <<bufVars, disk, procVars, got>>

\* Inside allocBuffer without a lock, and where a reference is counted.
WindowPcs == {"hit", "miss"}
LockPcs   == {"lock", "asleep"}
HoldPcs   == {"io", "use", "flush", "free"}
Pcs == {"idle", "scan", "unlock", "update", "store", "panic"}
           \cup WindowPcs \cup LockPcs \cup HoldPcs

TypeOK ==
    /\ valid   \in [Bufs -> BOOLEAN]
    /\ blockno \in [Bufs -> Blocks \cup {0}]
    /\ refcnt  \in [Bufs -> Nat]
    /\ data    \in [Bufs -> Contents]
    /\ owner   \in [Bufs -> Procs \cup {None}]
    /\ disk    \in [Blocks -> Contents]
    /\ pc      \in [Procs -> Pcs]
    /\ req     \in [Procs -> Requests \cup {None}]
    /\ buf     \in [Procs -> Bufs \cup {None}]
    /\ sector  \in [Procs -> Contents \cup {None}]
    /\ got     \in [Procs -> Values \cup {None}]

-----------------------------------------------------------------------------
\* init: the buffers are zeroed, so every blockno is 0, which is no cluster.
Init ==
    /\ \E c \in Contents : /\ data = [b \in Bufs |-> c]
                           /\ disk = [k \in Blocks |-> IF k = Dir THEN c
                                        ELSE [f \in Files |-> c[k]]]
    /\ valid = [b \in Bufs |-> FALSE]
    /\ blockno = [b \in Bufs |-> 0]
    /\ refcnt = [b \in Bufs |-> 0]
    /\ owner = [b \in Bufs |-> None]
    /\ pc = [p \in Procs |-> "idle"]
    /\ req = [p \in Procs |-> None]
    /\ buf = [p \in Procs |-> None]
    /\ sector = [p \in Procs |-> None]
    /\ got = [p \in Procs |-> None]

\* p is at l and has the hart: no other task is inside allocBuffer, unless it
\* was preempted there.
At(p, l) ==
    /\ pc[p] = l
    /\ Preempt \/ \A q \in Procs \ {p} : pc[q] \notin WindowPcs

Goto(p, l) == pc' = [pc EXCEPT ![p] = l]

\* ReadInode or WriteInode of a file, or of the directory: lookup reads it,
\* create and unlink write an entry of it.
Start(p, r) ==
    /\ At(p, "idle")
    /\ req' = [req EXCEPT ![p] = r]
    /\ Goto(p, "scan")
    /\ UNCHANGED <<bufVars, disk, buf, sector, got>>

-----------------------------------------------------------------------------
(* allocBuffer.                                                            *)

Hits(p) == {b \in Bufs : blockno[b] = req[p].blk}

\* last_use_tick picks one of these; any of them can be the oldest.
Victims == {b \in Bufs : refcnt[b] = 0}

\* The first buffer with the block number; the spin lock is released.
AllocHit(p) ==
    /\ At(p, "scan")
    /\ Hits(p) # {}
    /\ buf' = [buf EXCEPT ![p] = Min(Hits(p))]
    /\ Goto(p, "hit")
    /\ UNCHANGED <<bufVars, disk, req, sector, got>>

\* Mutant: a hit is not counted.
CountHit_Not(p) ==
    /\ At(p, "hit")
    /\ Goto(p, "lock")
    /\ UNCHANGED <<bufVars, disk, req, buf, sector, got>>

CountHit(p) ==
    /\ At(p, "hit")
    /\ refcnt' = [refcnt EXCEPT ![buf[p]] = @ + 1]
    /\ Goto(p, "lock")
    /\ UNCHANGED <<valid, blockno, data, owner, disk, req, buf, sector, got>>

\* A victim, or panic("alloc buf"); the spin lock is released.
AllocMiss(p) ==
    /\ At(p, "scan")
    /\ Hits(p) = {}
    /\ \/ \E b \in Victims : buf' = [buf EXCEPT ![p] = b] /\ Goto(p, "miss")
       \/ Victims = {} /\ Goto(p, "panic") /\ UNCHANGED buf
    /\ UNCHANGED <<bufVars, disk, req, sector, got>>

TakeVictim(p) ==
    /\ At(p, "miss")
    /\ valid' = [valid EXCEPT ![buf[p]] = FALSE]
    /\ refcnt' = [refcnt EXCEPT ![buf[p]] = 1]
    /\ blockno' = [blockno EXCEPT ![buf[p]] = req[p].blk]
    /\ Goto(p, "lock")
    /\ UNCHANGED <<data, owner, disk, req, buf, sector, got>>

\* SleepLock::lock.  Back in read, a valid buffer is used as it is and another
\* one is filled by RwDevRead, which sleeps.
SleepLock(p) ==
    /\ At(p, "lock")
    /\ IF owner[buf[p]] = None
       THEN /\ owner' = [owner EXCEPT ![buf[p]] = p]
            /\ Goto(p, IF valid[buf[p]] THEN "use" ELSE "io")
       ELSE Goto(p, "asleep") /\ UNCHANGED owner
    /\ UNCHANGED <<valid, blockno, refcnt, data, disk, req, buf, sector, got>>

-----------------------------------------------------------------------------
(* read, the use of the buffer, write and freeBuffer.                      *)

ReadDisk(p) ==
    /\ At(p, "io")
    /\ data' = [data EXCEPT ![buf[p]] = disk[req[p].blk]]
    /\ valid' = [valid EXCEPT ![buf[p]] = TRUE]
    /\ Goto(p, "use")
    /\ UNCHANGED <<blockno, refcnt, owner, disk, req, buf, sector, got>>

\* ReadInode copies the data out.
UseRead(p) ==
    /\ At(p, "use") /\ req[p].op = "read"
    /\ got' = [got EXCEPT ![p] = IF req[p].blk = Dir THEN None
                                 ELSE data[buf[p]][req[p].blk]]
    /\ Goto(p, "free")
    /\ UNCHANGED <<bufVars, disk, req, buf, sector>>

\* WriteInode copies the data in.
UseWrite(p) ==
    /\ At(p, "use") /\ req[p].op = "write"
    /\ data' = [data EXCEPT ![buf[p]][req[p].file] = req[p].val]
    /\ got' = [got EXCEPT ![p] = IF req[p].blk = Dir THEN None ELSE req[p].val]
    /\ Goto(p, "flush")
    /\ UNCHANGED <<valid, blockno, refcnt, owner, disk, req, buf, sector>>

\* The call is over, or UpdateInode follows: that of a file changes its entry
\* in Dir, that of the directory one in a block that is not modelled.
Updates(p) == req[p].op = "write" /\ req[p].blk # Dir
EndOfCall(p) == IF Updates(p) THEN "update" ELSE "idle"
DropBuffer(p) ==
    /\ buf' = [buf EXCEPT ![p] = None]
    /\ req' = [req EXCEPT ![p] = IF Updates(p) THEN @ ELSE None]
    /\ got' = [got EXCEPT ![p] = IF Updates(p) THEN @ ELSE None]

\* The copy from or to user memory fails: the loop is left and the buffer is
\* not freed.  (What copyin has stored by then is never seen: the lock is kept
\* for ever.)  WriteInode still updates the entry.
UseFails(p) ==
    /\ Faults
    /\ At(p, "use") /\ req[p].blk # Dir
    /\ Goto(p, EndOfCall(p))
    /\ DropBuffer(p)
    /\ UNCHANGED <<bufVars, disk, sector>>

\* Mutant: the buffer is not written to the disk.
WriteDisk_Not(p) ==
    /\ At(p, "flush")
    /\ Goto(p, "free")
    /\ UNCHANGED <<bufVars, disk, req, buf, sector, got>>

\* BufferLayer::write, to the block number in the buffer.
WriteDisk(p) ==
    /\ At(p, "flush")
    /\ disk' = [disk EXCEPT ![blockno[buf[p]]] = data[buf[p]]]
    /\ Goto(p, "free")
    /\ UNCHANGED <<bufVars, req, buf, sector, got>>

\* freeBuffer gives up the reference, ...
FreeRef(p) ==
    /\ At(p, "free")
    /\ refcnt' = [refcnt EXCEPT ![buf[p]] = @ - 1]
    /\ Goto(p, "unlock")
    /\ UNCHANGED <<valid, blockno, data, owner, disk, req, buf, sector, got>>

\* Mutant: only the lock is released.
FreeLock_NoWake(p) ==
    /\ At(p, "unlock")
    /\ owner' = [owner EXCEPT ![buf[p]] = None]
    /\ Goto(p, EndOfCall(p))
    /\ DropBuffer(p)
    /\ UNCHANGED <<valid, blockno, refcnt, data, disk, sector>>

\* ... then the sleep lock, and wakes those who sleep on it.
FreeLock(p) ==
    /\ At(p, "unlock")
    /\ owner' = [owner EXCEPT ![buf[p]] = None]
    /\ pc' = [q \in Procs |->
           IF q = p THEN EndOfCall(p)
           ELSE IF pc[q] = "asleep" /\ buf[q] = buf[p] THEN "lock" ELSE pc[q]]
    /\ DropBuffer(p)
    /\ UNCHANGED <<valid, blockno, refcnt, data, disk, sector>>

-----------------------------------------------------------------------------
(* UpdateInode: the sector with the entry is read, changed and written.    *)

UpdateRead(p) ==
    /\ At(p, "update")
    /\ sector' = [sector EXCEPT ![p] = [disk[Dir] EXCEPT ![req[p].file] = req[p].val]]
    /\ Goto(p, "store")
    /\ UNCHANGED <<bufVars, disk, req, buf, got>>

UpdateWrite(p) ==
    /\ At(p, "store")
    /\ disk' = [disk EXCEPT ![Dir] = sector[p]]
    /\ sector' = [sector EXCEPT ![p] = None]
    /\ req' = [req EXCEPT ![p] = None]
    /\ got' = [got EXCEPT ![p] = None]
    /\ Goto(p, "idle")
    /\ UNCHANGED <<bufVars, buf>>

-----------------------------------------------------------------------------
Step(p) ==
    \/ \E r \in Requests : Start(p, r)
    \/ AllocHit(p) \/ CountHit(p) \/ AllocMiss(p) \/ TakeVictim(p)
    \/ SleepLock(p) \/ ReadDisk(p)
    \/ UseRead(p) \/ UseWrite(p) \/ UseFails(p) \/ WriteDisk(p)
    \/ FreeRef(p) \/ FreeLock(p)
    \/ UpdateRead(p) \/ UpdateWrite(p)

\* A panic stops the machine.
Next == \E p \in Procs : /\ \A q \in Procs : pc[q] # "panic"
                         /\ Step(p)

Spec == Init /\ [][Next]_vars

-----------------------------------------------------------------------------
(* Properties.                                                             *)

\* The value of a file: in its buffer if there is a valid one, else on disk.
FileValue(f) ==
    LET cached == {b \in Bufs : blockno[b] = f /\ valid[b]}
    IN IF cached = {} THEN disk[f][f] ELSE data[Min(cached)][f]

\* What p asks of the block of a file.
FileRequest(p) ==
    IF req[p] = None THEN None
    ELSE IF req[p].blk = Dir THEN None
    ELSE IF req[p].op = "read" THEN req[p]
    ELSE [op |-> "write", blk |-> req[p].blk, val |-> req[p].val]

Store == INSTANCE BlockStore
             WITH Clients <- Procs, Blocks <- Files, MayFail <- Faults,
                  store <- [f \in Files |-> FileValue(f)],
                  asked <- [p \in Procs |-> FileRequest(p)]

\* Hits, misses, evictions and writes of any processes amount to blocks that
\* hold what was last written to them: eviction loses nothing and every read
\* of a file's block returns its value.
CacheIsStore == Store!StoreSpec

\* A block is in one buffer at most, although the scan and the victim's new
\* block number are separate steps with a disk transfer of others in between.
OneBufferPerBlock ==
    \A b, c \in Bufs : b # c /\ blockno[b] = blockno[c] => blockno[b] = 0

\* A process that has found its buffer, waits for its lock, holds it or reads
\* the disk into it, has the block it asked for: it was not evicted meanwhile.
HeldKeepsBlock ==
    \A p \in Procs : pc[p] \in LockPcs \cup HoldPcs =>
        /\ refcnt[buf[p]] > 0
        /\ blockno[buf[p]] = req[p].blk
        /\ pc[p] \in HoldPcs => owner[buf[p]] = p

\* allocBuffer gives a block one buffer, and the buffer to nobody else while a
\* process relies on it.
BuffersKeepBlocks == TypeOK /\ OneBufferPerBlock /\ HeldKeepsBlock

\* SleepLock::unlock wakes the sleepers: nobody sleeps on a free lock.
NoLostWakeup == \A p \in Procs : pc[p] = "asleep" => owner[buf[p]] # None

\* "Read the content of the given block and return a buf with that content"
\* (the comment on BufferLayer::read): what a process is about to use is what
\* the disk has in the block of the file it asked for.
ReadReturnsBlock ==
    \A p \in Procs : pc[p] = "use" /\ req[p].blk \in Files =>
        data[buf[p]] = disk[req[p].blk]

\* "UpdateInode: in fat32 it is enough to update the short entry": an entry
\* on the disk changes only by a write of that entry.
EntryKept ==
    [][\A f \in Files : disk'[Dir][f] # disk[Dir][f] =>
          \E p \in Procs : pc[p] \in {"flush", "store"} /\ pc'[p] # pc[p]
                            /\ req[p].file = f]_vars
=============================================================================
