-------------------------------- MODULE Pipe --------------------------------
(***************************************************************************)
(* fs/Pipe.cpp, with the file references of fs/vfs/vfs.cpp that keep a     *)
(* pipe alive.                                                             *)
(*                                                                         *)
(* read, write and close hold lock_ from their first line to their return  *)
(* or to sleep(), which gives it up.  The lock disables the interrupts of  *)
(* the only hart that runs tasks, so each such stretch is one action.      *)
(***************************************************************************)
EXTENDS Naturals, Sequences, FiniteSets

CONSTANTS
    Procs,      \* processes
    Creator,    \* the one that called pipe()
    PIPESIZE,   \* bytes of the buffer
    WORD,       \* 2^32: nread and nwrite are unsigned int
    Bytes,      \* values of a byte
    WriteBufs,  \* the buffers passed to write
    ReadSizes,  \* the sizes passed to read
    Killable    \* the processes that may be killed

ASSUME PipeAssumption ==
    /\ Creator \in Procs /\ Killable \subseteq Procs
    /\ PIPESIZE \in Nat \ {0}
    /\ WORD \in Nat /\ WORD > PIPESIZE
    /\ WriteBufs \subseteq Seq(Bytes)
    /\ ReadSizes \subseteq Nat

\* The index nread % PIPESIZE is continuous across the overflow of nread.
ASSUME WordAssumption == WORD % PIPESIZE = 0

Ends == {"R", "W"}

VARIABLES
    data, nread, nwrite, readopen, writeopen,   \* fields of Pipe
    deleted,    \* close() has deleted the pipe
    ref,        \* file::ref of the two files
    fds,        \* the processes with each file in openFiles
    op,         \* the call each process is in
    asleep,     \* the channel it sleeps on: "no", "nread" or "nwrite"
    buf,        \* what its write has still to copy
    want,       \* the size of its read
    killed,     \* Task::killed
    got,        \* bytes copied to the user by the last read
    abandoned   \* history: a write gave up on a full pipe, no reader woken since

ringVars == <<data, nread, nwrite>>
fileVars == <<readopen, writeopen, deleted, ref, fds>>
procVars == <<op, asleep, buf, want, killed>>
vars == <<ringVars, fileVars, procVars, got, abandoned>>

Ops == {"idle", "read", "write", "closeR", "closeW"}

TypeOK ==
    /\ data \in [0 .. PIPESIZE - 1 -> Bytes]
    /\ nread \in 0 .. WORD - 1 /\ nwrite \in 0 .. WORD - 1
    /\ readopen \in BOOLEAN /\ writeopen \in BOOLEAN /\ deleted \in BOOLEAN
    /\ ref \in [Ends -> Nat]
    /\ fds \in [Ends -> SUBSET Procs]
    /\ op \in [Procs -> Ops]
    /\ asleep \in [Procs -> {"no", "nread", "nwrite"}]
    /\ buf \in [Procs -> Seq(Bytes)]
    /\ want \in [Procs -> Nat]
    /\ killed \in [Procs -> BOOLEAN]
    /\ got \in Seq(Bytes)
    /\ abandoned \in BOOLEAN

-----------------------------------------------------------------------------
(* Arithmetic of uint_t, and the ring.                                     *)

\* Mutant: the counters do not overflow.
Add_NoWrap(x, k) == x + k

Add(x, k) == IF x + k >= WORD THEN x + k - WORD ELSE x + k
Sub(x, y) == IF x >= y THEN x - y ELSE x + WORD - y

Slot(n) == n % PIPESIZE

\* Mutant: room for one byte more than there is.
Room_OneMore == Sub(Add(nread, PIPESIZE + 1), nwrite)

\* How many increments of nread make it equal to nwrite, and how many of
\* nwrite make it equal to nread + PIPESIZE: the loops stop there.
Avail == Sub(nwrite, nread)
Room  == Sub(Add(nread, PIPESIZE), nwrite)

\* data after the first k bytes of s, k <= PIPESIZE, were stored from nwrite on.
Store(s, k) ==
    [i \in 0 .. PIPESIZE - 1 |->
        IF \E j \in 1 .. k : Slot(Add(nwrite, j - 1)) = i
        THEN s[CHOOSE j \in 1 .. k : Slot(Add(nwrite, j - 1)) = i]
        ELSE data[i]]

\* The next k bytes to read.
NextBytes(k) == [j \in 1 .. k |-> data[Slot(Add(nread, j - 1))]]

\* wakeup(&nread) or wakeup(&nwrite).
Wake(ch) == asleep' = [p \in Procs |-> IF asleep[p] = ch THEN "no" ELSE asleep[p]]

-----------------------------------------------------------------------------
(* createPipe: the creator has both files, each with one reference.        *)
Init ==
    /\ \E b \in Bytes : data = [i \in 0 .. PIPESIZE - 1 |-> b]
    /\ nread = 0 /\ nwrite = 0
    /\ readopen = TRUE /\ writeopen = TRUE /\ deleted = FALSE
    /\ ref = [e \in Ends |-> 1]
    /\ fds = [e \in Ends |-> {Creator}]
    /\ op = [p \in Procs |-> "idle"]
    /\ asleep = [p \in Procs |-> "no"]
    /\ buf = [p \in Procs |-> <<>>]
    /\ want = [p \in Procs |-> 0]
    /\ killed = [p \in Procs |-> FALSE]
    /\ got = <<>>
    /\ abandoned = FALSE

Awake(p, o) == op[p] = o /\ asleep[p] = "no"
Return(p) == op' = [op EXCEPT ![p] = "idle"]

\* read on either file: VfsManager::read does not look at readable.  A killed
\* process exits before it can make another call.
StartRead(p, n) ==
    /\ Awake(p, "idle") /\ p \in fds["R"] \cup fds["W"] /\ ~killed[p]
    /\ op' = [op EXCEPT ![p] = "read"]
    /\ want' = [want EXCEPT ![p] = n]
    /\ UNCHANGED <<ringVars, fileVars, asleep, buf, killed, got, abandoned>>

\* write looks at writable.
StartWrite(p, s) ==
    /\ Awake(p, "idle") /\ p \in fds["W"] /\ ~killed[p]
    /\ op' = [op EXCEPT ![p] = "write"]
    /\ buf' = [buf EXCEPT ![p] = s]
    /\ UNCHANGED <<ringVars, fileVars, asleep, want, killed, got, abandoned>>

\* Pipe::read on an empty pipe that may still be written: -1 for a killed
\* process, or sleep.
ReadEmpty(p) ==
    /\ Awake(p, "read")
    /\ nread = nwrite /\ writeopen
    /\ \/ /\ killed[p]
          /\ Return(p)
          /\ want' = [want EXCEPT ![p] = 0]
          /\ UNCHANGED asleep
       \/ /\ ~killed[p]
          /\ asleep' = [asleep EXCEPT ![p] = "nread"]
          /\ UNCHANGED <<op, want>>
    /\ UNCHANGED <<ringVars, fileVars, buf, killed, got, abandoned>>

\* Mutant: the writers are not woken.
ReadBytes_NoWake(p, k, lost) ==
    /\ Awake(p, "read")
    /\ ~(nread = nwrite /\ writeopen)
    /\ k + lost <= want[p] /\ k + lost <= Avail
    /\ lost = 1 \/ k = want[p] \/ k = Avail
    /\ got' = NextBytes(k)
    /\ nread' = Add(nread, k + lost)
    /\ Return(p)
    /\ want' = [want EXCEPT ![p] = 0]
    /\ UNCHANGED <<data, nwrite, fileVars, asleep, buf, killed, abandoned>>

\* Pipe::read otherwise: copy out up to n bytes.  A copyout that fails ends
\* the loop after nread was incremented: that byte is gone.
ReadBytes(p, k, lost) ==
    /\ Awake(p, "read")
    /\ ~(nread = nwrite /\ writeopen)
    /\ k + lost <= want[p] /\ k + lost <= Avail
    /\ lost = 1 \/ k = want[p] \/ k = Avail
    /\ got' = NextBytes(k)
    /\ nread' = Add(nread, k + lost)
    /\ Wake("nwrite")
    /\ Return(p)
    /\ want' = [want EXCEPT ![p] = 0]
    /\ UNCHANGED <<data, nwrite, fileVars, buf, killed, abandoned>>

\* Pipe::write when the rest of the buffer fits, or copyin fails at byte
\* k + 1: the loop ends and the readers are woken.
WriteDone(p, k) ==
    /\ Awake(p, "write")
    /\ \/ k = Len(buf[p])
       \/ k < Len(buf[p]) /\ k < Room
    /\ k <= Room
    /\ data' = Store(buf[p], k)
    /\ nwrite' = Add(nwrite, k)
    /\ buf' = [buf EXCEPT ![p] = <<>>]
    /\ Wake("nread") /\ abandoned' = FALSE
    /\ Return(p)
    /\ UNCHANGED <<nread, fileVars, want, killed, got>>

\* The pipe is filled and there is more to write: wake the readers, sleep.
WriteBlock(p) ==
    /\ Awake(p, "write")
    /\ Len(buf[p]) > Room
    /\ readopen /\ ~killed[p]
    /\ data' = Store(buf[p], Room)
    /\ nwrite' = Add(nwrite, Room)
    /\ buf' = [buf EXCEPT ![p] = SubSeq(@, Room + 1, Len(@))]
    /\ asleep' = [q \in Procs |->
           IF q = p THEN "nwrite" ELSE IF asleep[q] = "nread" THEN "no" ELSE asleep[q]]
    /\ abandoned' = FALSE
    /\ UNCHANGED <<nread, fileVars, op, want, killed, got>>

\* The same with no reader left, or by a killed writer: return -1.  What was
\* copied stays, and nobody is woken for it.
WriteFail(p) ==
    /\ Awake(p, "write")
    /\ Len(buf[p]) > Room
    /\ ~readopen \/ killed[p]
    /\ data' = Store(buf[p], Room)
    /\ nwrite' = Add(nwrite, Room)
    /\ buf' = [buf EXCEPT ![p] = <<>>]
    /\ Return(p)
    /\ abandoned' = TRUE
    /\ UNCHANGED <<nread, fileVars, asleep, want, killed, got>>

\* fork and dup: q gets p's file and the file one more reference.
Dup(p, q, e) ==
    /\ Awake(p, "idle") /\ p \in fds[e] /\ ~killed[p]
    /\ Awake(q, "idle") /\ q \notin fds[e]
    /\ ref' = [ref EXCEPT ![e] = @ + 1]
    /\ fds' = [fds EXCEPT ![e] = @ \cup {q}]
    /\ UNCHANGED <<ringVars, readopen, writeopen, deleted, procVars, got, abandoned>>

CloseOp(e) == IF e = "R" THEN "closeR" ELSE "closeW"

\* Mutant: the pipe's end is closed by whoever closes the file.
CloseFile_Always(p, e) ==
    /\ Awake(p, "idle") /\ p \in fds[e]
    /\ fds' = [fds EXCEPT ![e] = @ \ {p}]
    /\ ref' = [ref EXCEPT ![e] = @ - 1]
    /\ op' = [op EXCEPT ![p] = CloseOp(e)]
    /\ UNCHANGED <<ringVars, readopen, writeopen, deleted, asleep, buf, want,
                   killed, got, abandoned>>

\* VfsManager::close under ref_lock; the last reference goes on to close the
\* pipe's end, without a lock in between.
CloseFile(p, e) ==
    /\ Awake(p, "idle") /\ p \in fds[e]
    /\ fds' = [fds EXCEPT ![e] = @ \ {p}]
    /\ ref' = [ref EXCEPT ![e] = @ - 1]
    /\ op' = [op EXCEPT ![p] = IF ref[e] > 1 THEN @ ELSE CloseOp(e)]
    /\ UNCHANGED <<ringVars, readopen, writeopen, deleted, asleep, buf, want,
                   killed, got, abandoned>>

\* Pipe::close.
ClosePipe(p, e) ==
    /\ Awake(p, CloseOp(e))
    /\ readopen' = (readopen /\ e # "R")
    /\ writeopen' = (writeopen /\ e # "W")
    /\ Wake(IF e = "R" THEN "nwrite" ELSE "nread")
    /\ abandoned' = (abandoned /\ e = "R")
    /\ deleted' = (~readopen' /\ ~writeopen')
    /\ Return(p)
    /\ UNCHANGED <<ringVars, ref, fds, buf, want, killed, got>>

\* kill(): the flag only, a sleeping process is not woken.
Kill(p) ==
    /\ p \in Killable /\ ~killed[p]
    /\ killed' = [killed EXCEPT ![p] = TRUE]
    /\ UNCHANGED <<ringVars, fileVars, op, asleep, buf, want, got, abandoned>>

Next ==
    \E p \in Procs :
        \/ \E n \in ReadSizes : StartRead(p, n)
        \/ \E s \in WriteBufs : StartWrite(p, s)
        \/ ReadEmpty(p)
        \/ \E k \in 0 .. Avail, lost \in {0, 1} : ReadBytes(p, k, lost)
        \/ \E k \in 0 .. Room : WriteDone(p, k)
        \/ WriteBlock(p)
        \/ WriteFail(p)
        \/ \E q \in Procs, e \in Ends : Dup(p, q, e)
        \/ \E e \in Ends : CloseFile(p, e) \/ ClosePipe(p, e)
        \/ Kill(p)

Spec == Init /\ [][Next]_vars

-----------------------------------------------------------------------------
(* Properties.                                                             *)

Stream == INSTANCE ByteStream
              WITH Clients <- Procs, Messages <- WriteBufs, Capacity <- PIPESIZE,
                   pending <- buf, queue <- NextBytes(Avail),
                   rd <- readopen, wr <- writeopen

\* The ring and its two wrapping counters are a bounded byte queue: read and
\* write of any processes, blocked and resumed in any order, deliver every
\* byte once and in order, across the overflow of nread and nwrite.
PipeIsStream == Stream!StreamSpec

\* No lost wakeup between read, write and close: a process sleeps only while
\* it must, unless a write() that returned -1 has left bytes behind.
NoLostWakeup ==
    \A p \in Procs :
        /\ asleep[p] = "nread"  => abandoned \/ (Avail = 0 /\ writeopen)
        /\ asleep[p] = "nwrite" => Room = 0 /\ readopen

\* close() deletes the pipe when both ends are closed: by then no process can
\* reach it, neither through a file nor from inside read, write or close.
NoUseAfterDelete ==
    deleted => /\ \A e \in Ends : ref[e] = 0 /\ fds[e] = {}
               /\ \A p \in Procs : op[p] = "idle"

\* read() sleeps when there is no data (the comment on its loop).
ReaderSleepsOnlyWhenEmpty ==
    \A p \in Procs : asleep[p] = "nread" => Avail = 0
=============================================================================
