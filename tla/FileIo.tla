------------------------------- MODULE FileIo -------------------------------
(***************************************************************************)
(* VfsManager::read and write of an inode, the calls of os/SyscallFile.cpp *)
(* that reach them, lseek and fstat: the offset and the size that a struct *)
(* file keeps, and the size of its inode.                                  *)
(*                                                                         *)
(* A file may be shared by processes (fork), and an inode by files.  The   *)
(* offset is read before the inode's lock is taken and changed after it is *)
(* released, with interrupts on.                                           *)
(***************************************************************************)
EXTENDS Integers, FiniteSetsExt

CONSTANTS
    Procs,
    Shared,     \* the processes that hold the first file; the others hold the second
    None,
    MaxSize,    \* bound on the size of the file
    OffMod,     \* offsets are size_t: they wrap
    MaxVec,     \* buffers of a readv or writev
    Seeks       \* the offsets lseek is called with

VARIABLES
    off, size,  \* file::offset and file::size, of both files
    sz,         \* inode::sz
    io,         \* the call a process is in, or None
    stat        \* the size fstat told last

vars == <<off, size, sz, io, stat>>

getFile(p) == IF p \in Shared THEN 1 ELSE 2
Add(a, b) == (a + b) % OffMod

\* openat with O_APPEND or O_TRUNC starts at the end of the file; the file is
\* empty here, and both start at 0.
Init ==
    /\ off = [f \in {1, 2} |-> 0]
    /\ size = [f \in {1, 2} |-> 0]
    /\ sz = 0
    /\ io = [p \in Procs |-> None]
    /\ stat = [p \in Procs |-> 0]

\* sys_read and sys_write (one buffer), sys_readv and sys_writev.
sys_rw(p, kind, n) ==
    /\ io[p] = None
    /\ io' = [io EXCEPT ![p] = [kind |-> kind, left |-> n, off |-> None, ret |-> None]]
    /\ UNCHANGED <<off, size, sz, stat>>

\* inode::read or write is called with the offset of the file.
CallInode(p) ==
    /\ io[p] # None /\ io[p].off = None
    /\ io' = [io EXCEPT ![p].off = off[getFile(p)]]
    /\ UNCHANGED <<off, size, sz, stat>>

\* ReadInode: nothing past the end.
ReadInode(p) ==
    LET x == io[p]
    IN /\ x # None /\ x.kind = "r" /\ x.off # None /\ x.ret = None
       /\ io' = [io EXCEPT ![p].ret = IF x.off < sz THEN 1 ELSE 0]
       /\ UNCHANGED <<off, size, sz, stat>>

\* WriteInode: refused past the end.
WriteInode(p) ==
    LET x == io[p]
    IN /\ x # None /\ x.kind = "w" /\ x.off # None /\ x.ret = None
       /\ x.off <= sz => x.off < MaxSize
       /\ io' = [io EXCEPT ![p].ret = IF x.off > sz THEN -1 ELSE 1]
       /\ sz' = IF x.off > sz THEN sz ELSE Max({sz, x.off + 1})
       /\ UNCHANGED <<off, size, stat>>

\* The offset moves, for a write twice, and the next buffer follows.
Advance(p) ==
    LET x == io[p]
        f == getFile(p)
        o == Add(off[f], x.ret)
        e == Add(o, x.ret)
    IN /\ x # None /\ x.ret # None
       /\ off' = [off EXCEPT ![f] = IF x.kind = "r" THEN o ELSE e]
       /\ size' = IF x.kind = "r" THEN size ELSE [size EXCEPT ![f] = Max({@, e})]
       /\ io' = [io EXCEPT ![p] = IF x.left = 1 THEN None
                                  ELSE [x EXCEPT !.left = @ - 1, !.off = None, !.ret = None]]
       /\ UNCHANGED <<sz, stat>>

\* An offset past the end of the file is allowed, a negative one is refused.
sys_lseek(p, whence, k) ==
    LET f == getFile(p)
        o == CASE whence = "end" -> size[f] + k
               [] whence = "set" -> k
               [] whence = "cur" -> off[f] + k
    IN /\ io[p] = None
       /\ o \in 0 .. OffMod - 1
       /\ off' = [off EXCEPT ![f] = o]
       /\ UNCHANGED <<size, sz, io, stat>>

sys_fstat(p) ==
    /\ io[p] = None
    /\ stat' = [stat EXCEPT ![p] = size[getFile(p)]]
    /\ UNCHANGED <<off, size, sz, io>>

Next == \E p \in Procs :
    \/ \E kind \in {"r", "w"}, n \in 1 .. MaxVec : sys_rw(p, kind, n)
    \/ CallInode(p) \/ ReadInode(p) \/ WriteInode(p) \/ Advance(p)
    \/ \E whence \in {"set", "cur", "end"}, k \in Seeks : sys_lseek(p, whence, k)
    \/ sys_fstat(p)

Spec == Init /\ [][Next]_vars

-----------------------------------------------------------------------------
\* A write at the place where the file's offset was left by reads and writes
\* is accepted, as cat.c expects of every one of its writes.
WriteAccepted == \A p \in Procs : io[p] # None => io[p].ret # -1
=============================================================================
