----------------------------- MODULE PipeProofs -----------------------------
(***************************************************************************)
(* Proofs about Pipe, for every buffer size, counter width and number of   *)
(* processes.                                                              *)
(***************************************************************************)
EXTENDS Pipe, FiniteSetTheorems, SequenceTheorems, TLAPS

-----------------------------------------------------------------------------
(* The arithmetic of the two counters.                                     *)

\* nread and nwrite modulo 2^32 stay in their range when they are advanced.
LEMMA AddType ==
    ASSUME NEW x \in 0 .. WORD - 1, NEW k \in 0 .. WORD
    PROVE  Add(x, k) \in 0 .. WORD - 1
BY PipeAssumption DEF Add

\* The distance between the counters stays in range too.
LEMMA SubType ==
    ASSUME NEW x \in 0 .. WORD - 1, NEW y \in 0 .. WORD - 1
    PROVE  /\ Sub(x, y) \in 0 .. WORD - 1
           /\ Sub(x, y) = 0 <=> x = y
BY PipeAssumption DEF Sub

\* Advancing by nothing changes nothing.
LEMMA AddZero ==
    ASSUME NEW x \in 0 .. WORD - 1
    PROVE  Add(x, 0) = x
BY PipeAssumption DEF Add

\* An index into data is a slot of the buffer.
LEMMA SlotType ==
    ASSUME NEW n \in Nat
    PROVE  Slot(n) \in 0 .. PIPESIZE - 1
BY PipeAssumption DEF Slot

\* The pipe holds no more than its buffer.
Bounded == Avail <= PIPESIZE

\* The two loop conditions agree: what is there and what still fits make up
\* the buffer, whether or not a counter has overflowed.
LEMMA AvailRoom ==
    ASSUME nread \in 0 .. WORD - 1, nwrite \in 0 .. WORD - 1, Bounded
    PROVE  /\ Avail \in 0 .. PIPESIZE
           /\ Room \in 0 .. PIPESIZE
           /\ Avail + Room = PIPESIZE
           /\ Avail = 0 <=> nread = nwrite
BY PipeAssumption DEF Avail, Room, Add, Sub, Bounded

\* Reading moves nread towards nwrite.
LEMMA ReadMoves ==
    ASSUME nread \in 0 .. WORD - 1, nwrite \in 0 .. WORD - 1, Bounded,
           NEW k \in Nat, k <= Avail,
           nread' = Add(nread, k), nwrite' = nwrite
    PROVE  Avail' = Avail - k
BY PipeAssumption DEF Avail, Add, Sub, Bounded

\* Writing moves nwrite away from nread.
LEMMA WriteMoves ==
    ASSUME nread \in 0 .. WORD - 1, nwrite \in 0 .. WORD - 1, Bounded,
           NEW k \in Nat, k <= Room,
           nread' = nread, nwrite' = Add(nwrite, k)
    PROVE  Avail' = Avail + k /\ Room' = Room - k
BY PipeAssumption DEF Avail, Room, Add, Sub, Bounded

-----------------------------------------------------------------------------
(* Type correctness.                                                       *)

\* What write() leaves in data is bytes.
LEMMA StoreType ==
    ASSUME data \in [0 .. PIPESIZE - 1 -> Bytes],
           NEW s \in Seq(Bytes), NEW k \in 0 .. Len(s)
    PROVE  Store(s, k) \in [0 .. PIPESIZE - 1 -> Bytes]
<1> SUFFICES ASSUME NEW i \in 0 .. PIPESIZE - 1,
                    \E j \in 1 .. k : Slot(Add(nwrite, j - 1)) = i
             PROVE  s[CHOOSE j \in 1 .. k : Slot(Add(nwrite, j - 1)) = i] \in Bytes
  BY DEF Store
<1> DEFINE j == CHOOSE j \in 1 .. k : Slot(Add(nwrite, j - 1)) = i
<1>1. j \in 1 .. k
  OBVIOUS
<1>2. j \in 1 .. Len(s)
  BY <1>1
<1> QED
  BY <1>2

\* What read() delivers is bytes.
LEMMA NextBytesType ==
    ASSUME data \in [0 .. PIPESIZE - 1 -> Bytes], nread \in 0 .. WORD - 1,
           NEW k \in 0 .. PIPESIZE
    PROVE  NextBytes(k) \in Seq(Bytes)
<1>1. ASSUME NEW j \in 1 .. k
      PROVE  data[Slot(Add(nread, j - 1))] \in Bytes
  <2>1. j - 1 \in 0 .. WORD
    BY PipeAssumption
  <2>2. Add(nread, j - 1) \in Nat
    BY <2>1, AddType
  <2> QED
    BY <2>2, SlotType
<1>2. NextBytes(k) \in [1 .. k -> Bytes]
  BY <1>1 DEF NextBytes
<1> QED
  BY <1>2

\* The reference counts count the files in openFiles.
RefsOK == \A e \in Ends : IsFiniteSet(fds[e]) /\ ref[e] = Cardinality(fds[e])

TypeInv == TypeOK /\ Bounded /\ RefsOK

LEMMA TypeInit == Init => TypeInv
<1> SUFFICES ASSUME Init PROVE TypeInv
  OBVIOUS
<1>1. TypeOK
  <2>1. data \in [0 .. PIPESIZE - 1 -> Bytes]
    BY DEF Init
  <2>2. buf \in [Procs -> Seq(Bytes)] /\ got \in Seq(Bytes)
    BY DEF Init
  <2>3. fds \in [Ends -> SUBSET Procs] /\ ref \in [Ends -> Nat]
    BY PipeAssumption DEF Init
  <2>4. nread \in 0 .. WORD - 1 /\ nwrite \in 0 .. WORD - 1
        /\ want \in [Procs -> Nat]
    BY PipeAssumption DEF Init
  <2>5. /\ readopen \in BOOLEAN /\ writeopen \in BOOLEAN /\ deleted \in BOOLEAN
        /\ killed \in [Procs -> BOOLEAN] /\ abandoned \in BOOLEAN
    BY DEF Init
  <2>6. op \in [Procs -> Ops] /\ asleep \in [Procs -> {"no", "nread", "nwrite"}]
    BY DEF Init, Ops
  <2> QED
    BY <2>1, <2>2, <2>3, <2>4, <2>5, <2>6 DEF TypeOK
<1>2. Bounded
  BY PipeAssumption DEF Init, Bounded, Avail, Sub
<1>3. RefsOK
  BY FS_Singleton DEF Init, RefsOK
<1> QED
  BY <1>1, <1>2, <1>3 DEF TypeInv

LEMMA TypeStep == TypeInv /\ [Next]_vars => TypeInv'
<1> SUFFICES ASSUME TypeInv, [Next]_vars PROVE TypeInv'
  OBVIOUS
<1> USE DEF TypeInv, TypeOK, Ops
<1>a. /\ Avail \in 0 .. PIPESIZE /\ Room \in 0 .. PIPESIZE
      /\ Avail + Room = PIPESIZE
      /\ PIPESIZE \in Nat /\ WORD \in Nat /\ WORD > PIPESIZE
  BY AvailRoom, PipeAssumption
<1>1. ASSUME NEW p \in Procs, NEW n \in ReadSizes, StartRead(p, n)
      PROVE  TypeInv'
  BY <1>1, PipeAssumption
     DEF StartRead, ringVars, fileVars, Bounded, Avail, RefsOK
<1>2. ASSUME NEW p \in Procs, NEW s \in WriteBufs, StartWrite(p, s)
      PROVE  TypeInv'
  BY <1>2, PipeAssumption
     DEF StartWrite, ringVars, fileVars, Bounded, Avail, RefsOK
<1>3. ASSUME NEW p \in Procs, ReadEmpty(p)
      PROVE  TypeInv'
  <2>1. CASE killed[p]
    <3>1. op' = [op EXCEPT ![p] = "idle"] /\ want' = [want EXCEPT ![p] = 0]
          /\ asleep' = asleep
      BY <1>3, <2>1 DEF ReadEmpty, Return
    <3> QED
      BY <1>3, <3>1 DEF ReadEmpty, ringVars, fileVars, Bounded, Avail, RefsOK
  <2>2. CASE ~killed[p]
    BY <1>3, <2>2 DEF ReadEmpty, ringVars, fileVars, Bounded, Avail, RefsOK
  <2> QED
    BY <2>1, <2>2
<1>4. ASSUME NEW p \in Procs, NEW k \in 0 .. Avail, NEW lost \in {0, 1},
             ReadBytes(p, k, lost)
      PROVE  TypeInv'
  <2>1. k + lost \in Nat /\ k + lost <= Avail /\ nread' = Add(nread, k + lost)
        /\ nwrite' = nwrite /\ got' = NextBytes(k)
    BY <1>4, <1>a DEF ReadBytes
  <2>2. Bounded'
    BY <2>1, <1>a, ReadMoves DEF Bounded
  <2>3. nread' \in 0 .. WORD - 1
    <3>1. k + lost \in 0 .. WORD
      BY <2>1, <1>a
    <3> QED
      BY <2>1, <3>1, AddType
  <2>4. got' \in Seq(Bytes)
    BY <2>1, <1>a, NextBytesType
  <2> QED
    BY <1>4, <2>1, <2>2, <2>3, <2>4 DEF ReadBytes, Return, Wake, fileVars, RefsOK
<1>5. ASSUME NEW p \in Procs, NEW k \in 0 .. Room, WriteDone(p, k)
      PROVE  TypeInv'
  <2>1. k \in 0 .. Len(buf[p]) /\ nwrite' = Add(nwrite, k) /\ nread' = nread
        /\ data' = Store(buf[p], k)
    BY <1>5, <1>a DEF WriteDone
  <2>2. Bounded'
    BY <2>1, <1>a, WriteMoves DEF Bounded
  <2>3. nwrite' \in 0 .. WORD - 1
    <3>1. k \in 0 .. WORD
      BY <1>a
    <3> QED
      BY <2>1, <3>1, AddType
  <2>4. data' \in [0 .. PIPESIZE - 1 -> Bytes]
    BY <2>1, StoreType
  <2>5. <<>> \in Seq(Bytes)
    OBVIOUS
  <2> QED
    BY <1>5, <2>1, <2>2, <2>3, <2>4, <2>5 DEF WriteDone, Return, Wake, fileVars, RefsOK
<1>6. ASSUME NEW p \in Procs, WriteBlock(p) \/ WriteFail(p)
      PROVE  TypeInv'
  <2>1. Room \in 0 .. Len(buf[p]) /\ nwrite' = Add(nwrite, Room)
        /\ nread' = nread /\ data' = Store(buf[p], Room)
    BY <1>6, <1>a DEF WriteBlock, WriteFail
  <2>2. Bounded'
    BY <2>1, <1>a, WriteMoves DEF Bounded
  <2>3. nwrite' \in 0 .. WORD - 1
    <3>1. Room \in 0 .. WORD
      BY <1>a
    <3> QED
      BY <2>1, <3>1, AddType
  <2>4. data' \in [0 .. PIPESIZE - 1 -> Bytes]
    BY <2>1, StoreType
  <2>5. <<>> \in Seq(Bytes) /\ SubSeq(buf[p], Room + 1, Len(buf[p])) \in Seq(Bytes)
    BY <1>a
  <2>6. CASE WriteBlock(p)
    BY <2>6, <2>1, <2>2, <2>3, <2>4, <2>5 DEF WriteBlock, fileVars, RefsOK
  <2>7. CASE WriteFail(p)
    BY <2>7, <2>1, <2>2, <2>3, <2>4, <2>5 DEF WriteFail, Return, fileVars, RefsOK
  <2> QED
    BY <1>6, <2>6, <2>7
<1>7. ASSUME NEW p \in Procs, NEW q \in Procs, NEW e \in Ends, Dup(p, q, e)
      PROVE  TypeInv'
  <2>1. IsFiniteSet(fds[e] \cup {q}) /\ Cardinality(fds[e] \cup {q}) = ref[e] + 1
    <3>1. IsFiniteSet(fds[e]) /\ ref[e] = Cardinality(fds[e]) /\ q \notin fds[e]
      BY <1>7 DEF Dup, RefsOK
    <3> QED
      BY <3>1, FS_AddElement
  <2>2. TypeOK' /\ Bounded'
    BY <1>7 DEF Dup, ringVars, procVars, Bounded, Avail
  <2> QED
    BY <1>7, <2>1, <2>2 DEF Dup, RefsOK
<1>10. ASSUME NEW p \in Procs, NEW e \in Ends, CloseFile(p, e)
      PROVE  TypeInv'
  <2>1. IsFiniteSet(fds[e] \ {p}) /\ Cardinality(fds[e] \ {p}) = ref[e] - 1
    <3>1. IsFiniteSet(fds[e]) /\ ref[e] = Cardinality(fds[e]) /\ p \in fds[e]
      BY <1>10 DEF CloseFile, RefsOK
    <3> QED
      BY <3>1, FS_RemoveElement
  <2>2. ref[e] - 1 \in Nat
    BY <2>1, FS_CardinalityType
  <2>3. TypeOK' /\ Bounded'
    BY <1>10, <2>2 DEF CloseFile, CloseOp, ringVars, Bounded, Avail
  <2> QED
    BY <1>10, <2>1, <2>3 DEF CloseFile, RefsOK
<1>8. ASSUME NEW p \in Procs, NEW e \in Ends, ClosePipe(p, e)
      PROVE  TypeInv'
  BY <1>8 DEF ClosePipe, Wake, Return, ringVars, Bounded, Avail, RefsOK
<1>9. ASSUME NEW p \in Procs, Kill(p)
      PROVE  TypeInv'
  BY <1>9 DEF Kill, ringVars, fileVars, Bounded, Avail, RefsOK
<1>11. CASE UNCHANGED vars
  BY <1>11 DEF vars, ringVars, fileVars, procVars, Bounded, Avail, RefsOK
<1> QED
  BY <1>1, <1>2, <1>3, <1>4, <1>5, <1>6, <1>7, <1>8, <1>9, <1>10, <1>11 DEF Next

\* Every reachable state of a pipe is well typed, and the pipe never holds
\* more than PIPESIZE bytes although its counters overflow.
THEOREM PipeTypeCorrect == Spec => [](TypeOK /\ Bounded)
<1>1. TypeInv => TypeOK /\ Bounded
  BY DEF TypeInv
<1> QED
  BY <1>1, TypeInit, TypeStep, PTL DEF Spec

-----------------------------------------------------------------------------
(* Sleeping and waking.                                                    *)

\* What a process sleeps on tells which call it is in.
SleepersInCall ==
    \A p \in Procs :
        /\ asleep[p] = "nread" => op[p] = "read"
        /\ asleep[p] = "nwrite" => op[p] = "write"

WakeInv == SleepersInCall /\ NoLostWakeup

LEMMA WakeStep == TypeInv /\ WakeInv /\ [Next]_vars => WakeInv'
<1> SUFFICES ASSUME TypeInv, WakeInv, [Next]_vars PROVE WakeInv'
  OBVIOUS
<1> USE DEF TypeInv, WakeInv
<1>t. /\ nread \in 0 .. WORD - 1 /\ nwrite \in 0 .. WORD - 1
      /\ op \in [Procs -> Ops]
      /\ asleep \in [Procs -> {"no", "nread", "nwrite"}]
  BY DEF TypeOK
<1>a. /\ Avail \in 0 .. PIPESIZE /\ Room \in 0 .. PIPESIZE
      /\ Avail + Room = PIPESIZE
      /\ Avail = 0 <=> nread = nwrite
  BY AvailRoom, <1>t
\* Steps that leave the counters and the ends alone and put nobody to sleep.
<1>q. ASSUME UNCHANGED <<ringVars, readopen, writeopen, asleep, abandoned>>,
             \A p \in Procs : asleep[p] # "no" => op'[p] = op[p]
      PROVE  WakeInv'
  BY <1>q, <1>t DEF ringVars, SleepersInCall, NoLostWakeup, Avail, Room
<1>1. ASSUME NEW p \in Procs,
             \/ \E n \in ReadSizes : StartRead(p, n)
             \/ \E s \in WriteBufs : StartWrite(p, s)
             \/ \E q \in Procs, e \in Ends : Dup(p, q, e)
             \/ \E e \in Ends : CloseFile(p, e)
             \/ Kill(p)
      PROVE  WakeInv'
  <2>1. UNCHANGED <<ringVars, readopen, writeopen, asleep, abandoned>>
    BY <1>1 DEF StartRead, StartWrite, Dup, CloseFile, Kill, fileVars, procVars
  <2>2. \A q \in Procs : asleep[q] # "no" => op'[q] = op[q]
    BY <1>1, <1>t DEF StartRead, StartWrite, Dup, CloseFile, Kill, procVars, Awake
  <2> QED
    BY <2>1, <2>2, <1>q
<1>2. ASSUME NEW p \in Procs, ReadEmpty(p) PROVE WakeInv'
  <2>1. CASE killed[p]
    <3>1. UNCHANGED <<ringVars, readopen, writeopen, asleep, abandoned>>
      BY <1>2, <2>1 DEF ReadEmpty, fileVars
    <3>2. \A q \in Procs : asleep[q] # "no" => op'[q] = op[q]
      BY <1>2, <2>1, <1>t DEF ReadEmpty, Return, Awake
    <3> QED
      BY <3>1, <3>2, <1>q
  <2>2. CASE ~killed[p]
    <3>1. /\ op[p] = "read" /\ Avail = 0 /\ writeopen
          /\ asleep' = [asleep EXCEPT ![p] = "nread"]
          /\ UNCHANGED <<nread, nwrite, readopen, writeopen, abandoned, op>>
      BY <1>2, <2>2, <1>a DEF ReadEmpty, Awake, ringVars, fileVars
    <3> QED
      BY <3>1, <1>t DEF SleepersInCall, NoLostWakeup, Avail, Room
  <2> QED
    BY <2>1, <2>2
<1>3. ASSUME NEW p \in Procs, NEW k \in 0 .. Avail, NEW lost \in {0, 1},
             ReadBytes(p, k, lost)
      PROVE  WakeInv'
  <2>1. /\ op[p] = "read" /\ asleep[p] = "no"
        /\ asleep' = [q \in Procs |-> IF asleep[q] = "nwrite" THEN "no" ELSE asleep[q]]
        /\ op' = [op EXCEPT ![p] = "idle"]
        /\ UNCHANGED <<nwrite, readopen, writeopen, abandoned>>
        /\ ~(nread = nwrite /\ writeopen)
    BY <1>3 DEF ReadBytes, Awake, Wake, Return, fileVars
  <2>2. ASSUME NEW q \in Procs, asleep[q] = "nread" PROVE abandoned
    BY <2>1, <2>2, <1>a DEF NoLostWakeup
  <2> QED
    BY <2>1, <2>2, <1>t DEF SleepersInCall, NoLostWakeup
<1>4. ASSUME NEW p \in Procs, NEW k \in 0 .. Room, WriteDone(p, k)
      PROVE  WakeInv'
  <2>1. /\ op[p] = "write" /\ asleep[p] = "no"
        /\ asleep' = [q \in Procs |-> IF asleep[q] = "nread" THEN "no" ELSE asleep[q]]
        /\ op' = [op EXCEPT ![p] = "idle"]
        /\ nwrite' = Add(nwrite, k)
        /\ UNCHANGED <<nread, readopen, writeopen>>
    BY <1>4 DEF WriteDone, Awake, Wake, Return, fileVars
  <2>2. Room' = Room - k
    BY <2>1, <1>t, <1>a, WriteMoves
  <2>3. Room = 0 => Room' = 0
    <3> SUFFICES ASSUME Room = 0 PROVE Room' = 0
      OBVIOUS
    <3>1. k = 0
      OBVIOUS
    <3> QED
      BY <3>1, <2>2
  <2> QED
    BY <2>1, <2>3, <1>t DEF SleepersInCall, NoLostWakeup
<1>5. ASSUME NEW p \in Procs, WriteBlock(p) \/ WriteFail(p)
      PROVE  WakeInv'
  <2>1. /\ op[p] = "write" /\ asleep[p] = "no"
        /\ nwrite' = Add(nwrite, Room)
        /\ UNCHANGED <<nread, readopen, writeopen>>
    BY <1>5 DEF WriteBlock, WriteFail, Awake, fileVars
  <2>2. Room' = 0
    BY <2>1, <1>t, <1>a, WriteMoves
  <2>3. CASE WriteBlock(p)
    <3>1. /\ readopen /\ op' = op
          /\ asleep' = [q \in Procs |-> IF q = p THEN "nwrite"
                           ELSE IF asleep[q] = "nread" THEN "no" ELSE asleep[q]]
      BY <2>3 DEF WriteBlock
    <3> QED
      BY <3>1, <2>1, <2>2, <1>t DEF SleepersInCall, NoLostWakeup
  <2>4. CASE WriteFail(p)
    <3>1. abandoned' /\ asleep' = asleep /\ op' = [op EXCEPT ![p] = "idle"]
      BY <2>4 DEF WriteFail, Return
    <3> QED
      BY <3>1, <2>1, <2>2, <1>t DEF SleepersInCall, NoLostWakeup
  <2> QED
    BY <1>5, <2>3, <2>4
<1>6. ASSUME NEW p \in Procs, NEW e \in Ends, ClosePipe(p, e)
      PROVE  WakeInv'
  <2>1. /\ asleep[p] = "no" /\ op' = [op EXCEPT ![p] = "idle"]
        /\ UNCHANGED <<nread, nwrite>>
    BY <1>6 DEF ClosePipe, Awake, Return, ringVars
  <2>2. Avail' = Avail /\ Room' = Room
    BY <2>1 DEF Avail, Room
  <2>3. CASE e = "R"
    <3>1. /\ asleep' = [q \in Procs |-> IF asleep[q] = "nwrite" THEN "no" ELSE asleep[q]]
          /\ writeopen' = writeopen /\ abandoned' = abandoned
      BY <1>6, <2>3 DEF ClosePipe, Wake, TypeOK
    <3> QED
      BY <3>1, <2>1, <2>2, <1>t DEF SleepersInCall, NoLostWakeup
  <2>4. CASE e = "W"
    <3>1. /\ asleep' = [q \in Procs |-> IF asleep[q] = "nread" THEN "no" ELSE asleep[q]]
          /\ readopen' = readopen
      BY <1>6, <2>4 DEF ClosePipe, Wake, TypeOK
    <3> QED
      BY <3>1, <2>1, <2>2, <1>t DEF SleepersInCall, NoLostWakeup
  <2> QED
    BY <2>3, <2>4 DEF Ends
<1>7. CASE UNCHANGED vars
  BY <1>7, <1>q DEF vars, ringVars, fileVars, procVars
<1> QED
  BY <1>1, <1>2, <1>3, <1>4, <1>5, <1>6, <1>7 DEF Next

\* read, write and close never lose a wakeup, whatever the sizes and the
\* number of readers and writers.
THEOREM PipeNoLostWakeup == Spec => []NoLostWakeup
<1>1. Init => WakeInv
  BY DEF Init, WakeInv, SleepersInCall, NoLostWakeup
<1>2. WakeInv => NoLostWakeup
  BY DEF WakeInv
<1> QED
  BY <1>1, <1>2, TypeInit, TypeStep, WakeStep, PTL DEF Spec

-----------------------------------------------------------------------------
(* The life of the pipe.                                                   *)

Open(e) == IF e = "R" THEN readopen ELSE writeopen

\* A process inside read or write has the file open; one inside close had the
\* last reference to an end that is still open, and is alone there; an end
\* with a file is open; the pipe is deleted when both ends are closed.
LifeInv ==
    /\ \A p \in Procs : /\ op[p] = "read" => p \in fds["R"] \cup fds["W"]
                        /\ op[p] = "write" => p \in fds["W"]
    /\ \A e \in Ends, p \in Procs : op[p] = CloseOp(e) => fds[e] = {} /\ Open(e)
    /\ \A e \in Ends, p, q \in Procs :
           op[p] = CloseOp(e) /\ op[q] = CloseOp(e) => p = q
    /\ \A e \in Ends : fds[e] # {} => Open(e)
    /\ deleted <=> ~readopen /\ ~writeopen

LEMMA LifeStep == TypeInv /\ LifeInv /\ [Next]_vars => LifeInv'
<1> SUFFICES ASSUME TypeInv, LifeInv, [Next]_vars PROVE LifeInv'
  OBVIOUS
<1>t. /\ op \in [Procs -> Ops]
      /\ fds \in [Ends -> SUBSET Procs] /\ ref \in [Ends -> Nat]
      /\ readopen \in BOOLEAN /\ writeopen \in BOOLEAN /\ deleted \in BOOLEAN
  BY DEF TypeInv, TypeOK
<1>c. \A e \in Ends : CloseOp(e) \in {"closeR", "closeW"}
  BY DEF CloseOp
\* Steps that leave the files alone and enter no call but read and write.
<1>q. ASSUME UNCHANGED fileVars,
             \A p \in Procs :
                 \/ op'[p] = op[p] \/ op'[p] = "idle"
                 \/ op'[p] = "read" /\ p \in fds["R"] \cup fds["W"]
                 \/ op'[p] = "write" /\ p \in fds["W"]
      PROVE  LifeInv'
  BY <1>q, <1>t, <1>c DEF fileVars, LifeInv, Open
<1>1. ASSUME NEW p \in Procs,
             \/ \E n \in ReadSizes : StartRead(p, n)
             \/ \E s \in WriteBufs : StartWrite(p, s)
             \/ ReadEmpty(p)
             \/ \E k \in 0 .. Avail, lost \in {0, 1} : ReadBytes(p, k, lost)
             \/ \E k \in 0 .. Room : WriteDone(p, k)
             \/ WriteBlock(p) \/ WriteFail(p)
             \/ Kill(p)
      PROVE  LifeInv'
  <2>1. UNCHANGED fileVars
    BY <1>1 DEF StartRead, StartWrite, ReadEmpty, ReadBytes, WriteDone,
                WriteBlock, WriteFail, Kill, fileVars
  <2>2. \/ op' = op \/ op' = [op EXCEPT ![p] = "idle"]
        \/ op' = [op EXCEPT ![p] = "read"] /\ p \in fds["R"] \cup fds["W"]
        \/ op' = [op EXCEPT ![p] = "write"] /\ p \in fds["W"]
    BY <1>1 DEF StartRead, StartWrite, ReadEmpty, ReadBytes, WriteDone,
                WriteBlock, WriteFail, Kill, Return
  <2> QED
    BY <2>1, <2>2, <1>t, <1>q
<1>2. ASSUME NEW p \in Procs, NEW q \in Procs, NEW e \in Ends, Dup(p, q, e)
      PROVE  LifeInv'
  <2>1. /\ fds' = [fds EXCEPT ![e] = fds[e] \cup {q}] /\ p \in fds[e]
        /\ UNCHANGED <<readopen, writeopen, deleted, op>>
    BY <1>2 DEF Dup, procVars
  <2> QED
    BY <2>1, <1>t, <1>c DEF LifeInv, Open, Ends
<1>3. ASSUME NEW p \in Procs, NEW e \in Ends, CloseFile(p, e)
      PROVE  LifeInv'
  <2>1. /\ fds' = [fds EXCEPT ![e] = fds[e] \ {p}] /\ p \in fds[e]
        /\ op[p] = "idle"
        /\ op' = [op EXCEPT ![p] = IF ref[e] > 1 THEN op[p] ELSE CloseOp(e)]
        /\ UNCHANGED <<readopen, writeopen, deleted>>
    BY <1>3 DEF CloseFile, Awake
  <2>2. CASE ref[e] > 1
    <3>1. op' = op
      BY <2>1, <2>2, <1>t
    <3> QED
      BY <2>1, <3>1, <1>t, <1>c DEF LifeInv, Open, Ends
  <2>3. CASE ~(ref[e] > 1)
    <3>1. fds[e] = {p}
      <4>1. IsFiniteSet(fds[e]) /\ Cardinality(fds[e]) <= 1
        BY <2>3, <1>t DEF TypeInv, RefsOK
      <4>2. fds[e] = {} \/ \E x : fds[e] = {x}
        <5>1. Cardinality(fds[e]) \in Nat
          BY <4>1, FS_CardinalityType
        <5>2. Cardinality(fds[e]) = 0 \/ Cardinality(fds[e]) = 1
          BY <5>1, <4>1
        <5> QED
          BY <5>2, <4>1, FS_EmptySet, FS_Singleton
      <4> QED
        BY <4>2, <2>1
    <3>2. op' = [op EXCEPT ![p] = CloseOp(e)]
      BY <2>1, <2>3
    <3>3. fds'[e] = {}
      BY <2>1, <3>1, <1>t
    <3>4. Open(e) /\ \A x \in Procs : op[x] # CloseOp(e)
      BY <2>1, <1>t DEF LifeInv
    <3> QED
      BY <2>1, <3>2, <3>3, <3>4, <1>t, <1>c DEF LifeInv, Open, Ends, CloseOp
  <2> QED
    BY <2>2, <2>3
<1>4. ASSUME NEW p \in Procs, NEW e \in Ends, ClosePipe(p, e)
      PROVE  LifeInv'
  <2>1. /\ op[p] = CloseOp(e) /\ op' = [op EXCEPT ![p] = "idle"]
        /\ fds' = fds /\ fds[e] = {} /\ Open(e)
        /\ readopen' = (readopen /\ e # "R") /\ writeopen' = (writeopen /\ e # "W")
        /\ deleted' = (~readopen' /\ ~writeopen')
    BY <1>4 DEF ClosePipe, Awake, Return, LifeInv
  <2> QED
    BY <2>1, <1>t, <1>c DEF LifeInv, Open, Ends, CloseOp
<1>5. CASE UNCHANGED vars
  BY <1>5, <1>q DEF vars, procVars
<1> QED
  BY <1>1, <1>2, <1>3, <1>4, <1>5 DEF Next

\* The pipe is deleted only when no process can use it any more.
THEOREM PipeNoUseAfterDelete == Spec => []NoUseAfterDelete
<1>1. Init => LifeInv
  BY DEF Init, LifeInv, Open, CloseOp, Ends
<1>2. TypeInv /\ LifeInv => NoUseAfterDelete
  <2> SUFFICES ASSUME TypeInv, LifeInv, deleted
               PROVE  /\ \A e \in Ends : ref[e] = 0 /\ fds[e] = {}
                      /\ \A p \in Procs : op[p] = "idle"
    BY DEF NoUseAfterDelete
  <2>1. \A e \in Ends : ~Open(e) /\ fds[e] = {}
    BY DEF LifeInv, Open
  <2>2. \A e \in Ends : ref[e] = 0
    BY <2>1, FS_EmptySet DEF TypeInv, RefsOK
  <2>3. \A p \in Procs : op[p] = "idle"
    BY <2>1 DEF LifeInv, Ends, CloseOp, TypeInv, TypeOK, Ops
  <2> QED
    BY <2>1, <2>2, <2>3
<1> QED
  BY <1>1, <1>2, TypeInit, TypeStep, LifeStep, PTL DEF Spec

-----------------------------------------------------------------------------
(* The pipe is a byte stream.                                              *)

\* Two steps of a counter are one.
LEMMA AddAdd ==
    ASSUME NEW x \in 0 .. WORD - 1, NEW a \in Nat, NEW b \in Nat, a + b <= WORD
    PROVE  Add(Add(x, a), b) = Add(x, a + b)
BY PipeAssumption DEF Add

\* nwrite is where Avail increments of nread lead.
LEMMA AddAvail ==
    ASSUME nread \in 0 .. WORD - 1, nwrite \in 0 .. WORD - 1
    PROVE  Add(nread, Avail) = nwrite
BY PipeAssumption DEF Add, Avail, Sub

\* No multiple of PIPESIZE lies strictly between 0 and PIPESIZE.
LEMMA NoMultiple ==
    ASSUME NEW d \in Int, 0 < d, d < PIPESIZE, NEW z \in Int
    PROVE  d # PIPESIZE * z
<1>0. PIPESIZE \in Nat /\ PIPESIZE > 0
  BY PipeAssumption
<1>1. CASE z <= 0
  <2>1. PIPESIZE * z <= 0
    BY <1>0, <1>1
  <2>2. PIPESIZE * z \in Int
    BY <1>0
  <2> QED
    BY <2>1, <2>2
<1>2. CASE z >= 1
  <2>1. PIPESIZE * z >= PIPESIZE
    BY <1>0, <1>2
  <2>2. PIPESIZE * z \in Int
    BY <1>0
  <2> QED
    BY <2>1, <2>2, <1>0
<1> QED
  BY <1>1, <1>2

\* A slot is the remainder of a division.
LEMMA SlotDiv ==
    ASSUME NEW n \in Nat
    PROVE  \E a \in Int : n = PIPESIZE * a + Slot(n)
<1>0. PIPESIZE \in Nat /\ PIPESIZE > 0
  BY PipeAssumption
<1>1. n \div PIPESIZE \in Int /\ n = PIPESIZE * (n \div PIPESIZE) + (n % PIPESIZE)
  BY <1>0
<1> QED
  BY <1>1 DEF Slot

\* PIPESIZE counters in a row have different slots, also when they overflow on
\* the way: 2^32 is a multiple of PIPESIZE.
LEMMA SlotsApart ==
    ASSUME NEW x \in 0 .. WORD - 1, NEW i \in Nat, NEW j \in Nat, i < j, j < PIPESIZE
    PROVE  Slot(Add(x, i)) # Slot(Add(x, j))
<1> SUFFICES ASSUME Slot(Add(x, i)) = Slot(Add(x, j)) PROVE FALSE
  OBVIOUS
<1>0. PIPESIZE \in Nat /\ PIPESIZE > 0 /\ WORD \in Nat /\ WORD > PIPESIZE
  BY PipeAssumption
<1>1. Add(x, i) \in Nat /\ Add(x, j) \in Nat
  BY <1>0, AddType
<1> PICK m \in Nat : m = Add(x, i)
  BY <1>1
<1> PICK n \in Nat : n = Add(x, j)
  BY <1>1
<1> PICK s \in Nat : s = Slot(m)
  BY SlotType, <1>0
<1>2. PICK a \in Int : m = PIPESIZE * a + s
  BY SlotDiv
<1>3. PICK b \in Int : n = PIPESIZE * b + s
  BY SlotDiv
<1>4. PICK q \in Int : WORD = PIPESIZE * q
  <2>1. \E a1 \in Int : WORD = PIPESIZE * a1 + Slot(WORD)
    BY SlotDiv, <1>0
  <2> QED
    BY <2>1, WordAssumption, <1>0 DEF Slot
<1>5. n - m = j - i \/ n - m = j - i - WORD
  BY <1>0 DEF Add
<1>6. j - i \in Int /\ 0 < j - i /\ j - i < PIPESIZE
  BY <1>0
<1>7. n - m = PIPESIZE * (b - a)
  <2>1. PIPESIZE * (b - a) = PIPESIZE * b - PIPESIZE * a
    BY <1>0
  <2>2. PIPESIZE * b \in Int /\ PIPESIZE * a \in Int
    BY <1>0
  <2> QED
    BY <2>1, <2>2, <1>2, <1>3
<1>8. CASE n - m = j - i
  BY <1>8, <1>7, <1>6, NoMultiple
<1>9. CASE n - m = j - i - WORD
  <2>1. PIPESIZE * (b - a + q) = PIPESIZE * (b - a) + PIPESIZE * q
    BY <1>0
  <2>2. PIPESIZE * (b - a) \in Int
    BY <1>0
  <2>3. j - i = PIPESIZE * (b - a + q)
    BY <2>1, <2>2, <1>9, <1>7, <1>4, <1>0
  <2> QED
    BY <2>3, <1>6, NoMultiple
<1> QED
  BY <1>5, <1>8, <1>9

\* The same, whichever of the two comes first.
LEMMA SlotsDistinct ==
    ASSUME NEW x \in 0 .. WORD - 1, NEW i \in Nat, NEW j \in Nat,
           i < PIPESIZE, j < PIPESIZE, Slot(Add(x, i)) = Slot(Add(x, j))
    PROVE  i = j
BY SlotsApart, PipeAssumption

\* Store puts byte j of the buffer in the j-th slot from nwrite on and leaves
\* the other slots alone.
LEMMA StoreNew ==
    ASSUME nwrite \in 0 .. WORD - 1, data \in [0 .. PIPESIZE - 1 -> Bytes],
           NEW s, NEW k \in 0 .. PIPESIZE, NEW j \in 1 .. k
    PROVE  Store(s, k)[Slot(Add(nwrite, j - 1))] = s[j]
<1>0. PIPESIZE \in Nat /\ PIPESIZE > 0 /\ WORD \in Nat /\ WORD > PIPESIZE
  BY PipeAssumption
<1> DEFINE i == Slot(Add(nwrite, j - 1))
           h == CHOOSE h \in 1 .. k : Slot(Add(nwrite, h - 1)) = i
<1>1. i \in 0 .. PIPESIZE - 1
  <2>1. j - 1 \in 0 .. WORD
    BY <1>0
  <2>2. Add(nwrite, j - 1) \in Nat
    BY <2>1, AddType
  <2> QED
    BY <2>2, SlotType
<1>2. h \in 1 .. k /\ Slot(Add(nwrite, h - 1)) = i
  OBVIOUS
<1>3. h = j
  <2> HIDE DEF h
  <2>1. h - 1 \in Nat /\ h - 1 < PIPESIZE /\ j - 1 \in Nat /\ j - 1 < PIPESIZE
    BY <1>0, <1>2
  <2>2. h - 1 = j - 1
    BY <2>1, <1>2, SlotsDistinct
  <2> QED
    BY <2>2, <1>2
<1>4. Store(s, k)[i] = s[h]
  BY <1>1 DEF Store
<1> QED
  BY <1>3, <1>4

\* A slot that is none of the k from nwrite on keeps its byte.
LEMMA StoreOld ==
    ASSUME data \in [0 .. PIPESIZE - 1 -> Bytes],
           NEW s, NEW k \in Nat, NEW i \in 0 .. PIPESIZE - 1,
           \A j \in 1 .. k : Slot(Add(nwrite, j - 1)) # i
    PROVE  Store(s, k)[i] = data[i]
BY DEF Store

\* The length of what can be read, and its bytes.
LEMMA NextBytesIs ==
    ASSUME data \in [0 .. PIPESIZE - 1 -> Bytes], nread \in 0 .. WORD - 1,
           NEW k \in 0 .. PIPESIZE
    PROVE  /\ NextBytes(k) \in Seq(Bytes)
           /\ Len(NextBytes(k)) = k
           /\ \A j \in 1 .. k : NextBytes(k)[j] = data[Slot(Add(nread, j - 1))]
<1>1. NextBytes(k) \in Seq(Bytes)
  BY NextBytesType
<1>2. k \in Nat
  BY PipeAssumption
<1>3. Len(NextBytes(k)) = k
  BY <1>2 DEF NextBytes
<1> QED
  BY <1>1, <1>3 DEF NextBytes

\* read takes the bytes at the front of the queue and leaves the others.
LEMMA ReadTakes ==
    ASSUME TypeOK, Bounded, NEW k \in Nat, NEW lost \in {0, 1}, k + lost <= Avail,
           nread' = Add(nread, k + lost), UNCHANGED <<data, nwrite>>
    PROVE  /\ NextBytes(k) = SubSeq(NextBytes(Avail), 1, k)
           /\ NextBytes(Avail)' =
                  SubSeq(NextBytes(Avail), k + lost + 1, Len(NextBytes(Avail)))
<1>0. PIPESIZE \in Nat /\ PIPESIZE > 0 /\ WORD \in Nat /\ WORD > PIPESIZE
  BY PipeAssumption
<1>t. data \in [0 .. PIPESIZE - 1 -> Bytes] /\ nread \in 0 .. WORD - 1
      /\ nwrite \in 0 .. WORD - 1
  BY DEF TypeOK
<1>a. Avail \in 0 .. PIPESIZE
  BY AvailRoom, <1>t
<1> PICK n \in 0 .. PIPESIZE : n = Avail
  BY <1>a
<1> PICK h \in Nat : h = k + lost
  OBVIOUS
<1>h. h <= n /\ k <= n /\ k \in 0 .. PIPESIZE /\ n - h \in 0 .. PIPESIZE /\ h \in 0 .. WORD
  BY <1>0
<1>n. Avail' = n - h
  BY ReadMoves, <1>t
<1>r. nread' = Add(nread, h) /\ nread' \in 0 .. WORD - 1
  BY AddType, <1>t, <1>h
<1> DEFINE Q == NextBytes(n)
<1>1. /\ Q \in Seq(Bytes) /\ Len(Q) = n
      /\ \A j \in 1 .. n : Q[j] = data[Slot(Add(nread, j - 1))]
  BY NextBytesIs, <1>t
<1>2. /\ NextBytes(k) \in Seq(Bytes) /\ Len(NextBytes(k)) = k
      /\ \A j \in 1 .. k : NextBytes(k)[j] = data[Slot(Add(nread, j - 1))]
  BY NextBytesIs, <1>t, <1>h
<1> DEFINE R == [j \in 1 .. n - h |-> data[Slot(Add(nread', j - 1))]]
<1>3. NextBytes(Avail)' = R
  BY <1>n DEF NextBytes
<1>4. \A j \in 1 .. n - h : Add(nread', j - 1) = Add(nread, h + j - 1)
  <2> TAKE j \in 1 .. n - h
  <2>1. j - 1 \in Nat /\ h + (j - 1) <= WORD
    BY <1>0, <1>h
  <2> QED
    BY <2>1, <1>r, <1>t, AddAdd
<1>5. \A j \in 1 .. n - h : R[j] = Q[h + j]
  <2> TAKE j \in 1 .. n - h
  <2>1. h + j \in 1 .. n
    BY <1>h
  <2>2. Q[h + j] = data[Slot(Add(nread, h + j - 1))]
    BY <1>1, <2>1
  <2>3. R[j] = data[Slot(Add(nread', j - 1))]
    OBVIOUS
  <2> QED
    BY <1>4, <2>2, <2>3
<1> HIDE DEF Q, R
<1>6. NextBytes(k) = SubSeq(Q, 1, k)
  <2>1. /\ SubSeq(Q, 1, k) \in Seq(Bytes) /\ Len(SubSeq(Q, 1, k)) = k
        /\ \A j \in 1 .. k : SubSeq(Q, 1, k)[j] = Q[j]
    BY <1>1, <1>h
  <2>2. \A j \in 1 .. k : NextBytes(k)[j] = SubSeq(Q, 1, k)[j]
    BY <2>1, <1>1, <1>2, <1>h
  <2> QED
    BY <2>1, <2>2, <1>2, SeqEqual
<1>7. R = SubSeq(Q, h + 1, n)
  <2>1. /\ SubSeq(Q, h + 1, n) \in Seq(Bytes) /\ Len(SubSeq(Q, h + 1, n)) = n - h
        /\ \A j \in 1 .. n - h : SubSeq(Q, h + 1, n)[j] = Q[h + j]
    BY <1>1, <1>h
  <2>2. R \in Seq(Bytes) /\ Len(R) = n - h
    <3>1. R \in [1 .. n - h -> Bytes]
      BY <1>5, <1>1, <1>h DEF R
    <3> QED
      BY <3>1, <1>h
  <2> QED
    BY <2>1, <2>2, <1>5, SeqEqual
<1> QED
  BY <1>6, <1>7, <1>3, <1>1 DEF Q

\* write adds the first k bytes of its buffer behind the ones in the queue and
\* overwrites none of them.
LEMMA WriteAdds ==
    ASSUME TypeOK, Bounded, NEW s \in Seq(Bytes), NEW k \in Nat,
           k <= Room, k <= Len(s),
           data' = Store(s, k), nwrite' = Add(nwrite, k), nread' = nread
    PROVE  NextBytes(Avail)' = NextBytes(Avail) \o SubSeq(s, 1, k)
<1>0. PIPESIZE \in Nat /\ PIPESIZE > 0 /\ WORD \in Nat /\ WORD > PIPESIZE
  BY PipeAssumption
<1>t. data \in [0 .. PIPESIZE - 1 -> Bytes] /\ nread \in 0 .. WORD - 1
      /\ nwrite \in 0 .. WORD - 1
  BY DEF TypeOK
<1>a. Avail \in 0 .. PIPESIZE /\ Room \in 0 .. PIPESIZE /\ Avail + Room = PIPESIZE
  BY AvailRoom, <1>t
<1> PICK n \in 0 .. PIPESIZE : n = Avail
  BY <1>a
<1>k. n + k <= PIPESIZE /\ n + k \in 0 .. PIPESIZE /\ k \in 0 .. PIPESIZE
      /\ k \in 0 .. Len(s)
  BY <1>0, <1>a
<1>n. Avail' = n + k
  BY WriteMoves, <1>t
<1>w. \A j \in 1 .. k : Add(nwrite, j - 1) = Add(nread, n + j - 1)
  <2> TAKE j \in 1 .. k
  <2>1. j - 1 \in Nat /\ n + (j - 1) <= WORD
    BY <1>0, <1>k
  <2> QED
    BY <2>1, <1>t, AddAdd, AddAvail
<1>d. data' \in [0 .. PIPESIZE - 1 -> Bytes]
  BY StoreType, <1>t, <1>k
<1> DEFINE R == [j \in 1 .. n + k |-> data'[Slot(Add(nread, j - 1))]]
           Q == NextBytes(n)
           S == SubSeq(s, 1, k)
<1>1. /\ Q \in Seq(Bytes) /\ Len(Q) = n
      /\ \A j \in 1 .. n : Q[j] = data[Slot(Add(nread, j - 1))]
  BY NextBytesIs, <1>t
<1>2. /\ S \in Seq(Bytes) /\ Len(S) = k
      /\ \A j \in 1 .. k : S[j] = s[j]
  BY <1>k
<1>3. NextBytes(Avail)' = R
  BY <1>n DEF NextBytes
<1>s. \A j \in 1 .. n + k : Slot(Add(nread, j - 1)) \in 0 .. PIPESIZE - 1
  <2> TAKE j \in 1 .. n + k
  <2>1. j - 1 \in 0 .. WORD
    BY <1>0, <1>k
  <2>2. Add(nread, j - 1) \in Nat
    BY <2>1, <1>t, AddType
  <2> QED
    BY <2>2, SlotType
<1>4. \A j \in 1 .. n : R[j] = Q[j]
  <2> TAKE j \in 1 .. n
  <2>j. j \in 1 .. n + k /\ j - 1 \in Nat /\ j - 1 < PIPESIZE
    BY <1>k, <1>0
  <2> PICK i : i = Slot(Add(nread, j - 1))
    OBVIOUS
  <2>1. i \in 0 .. PIPESIZE - 1
    BY <1>s, <2>j
  <2>2. ASSUME NEW h \in 1 .. k, Slot(Add(nwrite, h - 1)) = i PROVE FALSE
    <3>1. n + h - 1 \in Nat /\ n + h - 1 < PIPESIZE /\ n + h - 1 # j - 1
      BY <1>k, <1>0
    <3>2. Slot(Add(nread, n + h - 1)) = Slot(Add(nread, j - 1))
      BY <1>w, <2>2
    <3> QED
      BY <3>1, <3>2, <2>j, <1>t, SlotsDistinct
  <2>3. Store(s, k)[i] = data[i]
    BY <2>1, <2>2, <1>t, StoreOld
  <2>4. R[j] = data'[i]
    BY <2>j
  <2> QED
    BY <2>3, <2>4, <1>1
<1>5. \A j \in 1 .. k : R[n + j] = S[j]
  <2> TAKE j \in 1 .. k
  <2>j. n + j \in 1 .. n + k
    BY <1>k
  <2>1. R[n + j] = data'[Slot(Add(nread, n + j - 1))]
    BY <2>j
  <2>2. Store(s, k)[Slot(Add(nwrite, j - 1))] = s[j]
    BY <1>t, <1>k, StoreNew
  <2> QED
    BY <2>1, <2>2, <1>w, <1>2
<1>6. R \in Seq(Bytes) /\ Len(R) = n + k
  <2>1. R \in [1 .. n + k -> Bytes]
    BY <1>s, <1>d
  <2> QED
    BY <2>1, <1>k
<1> HIDE DEF Q, R, S
<1>7. /\ Q \o S \in Seq(Bytes) /\ Len(Q \o S) = n + k
      /\ \A j \in 1 .. n + k : (Q \o S)[j] = IF j <= n THEN Q[j] ELSE S[j - n]
  <2>1. Q \in Seq(Bytes) /\ S \in Seq(Bytes)
    BY <1>1, <1>2
  <2>2. /\ Q \o S \in Seq(Bytes) /\ Len(Q \o S) = Len(Q) + Len(S)
        /\ \A i \in 1 .. Len(Q) + Len(S) :
               (Q \o S)[i] = IF i <= Len(Q) THEN Q[i] ELSE S[i - Len(Q)]
    BY <2>1, ConcatProperties, Zenon
  <2> QED
    BY <2>2, <1>1, <1>2
<1>8. \A j \in 1 .. n + k : R[j] = (Q \o S)[j]
  <2> TAKE j \in 1 .. n + k
  <2>1. CASE j <= n
    BY <2>1, <1>7, <1>4
  <2>2. CASE j > n
    <3>1. j - n \in 1 .. k /\ n + (j - n) = j
      BY <2>2, <1>k
    <3>2. R[j] = S[j - n]
      BY <3>1, <1>5
    <3> QED
      BY <3>2, <2>2, <1>7
  <2>3. j <= n \/ j > n
    BY <1>0
  <2> QED
    BY <2>1, <2>2, <2>3
<1>9. R = Q \o S
  BY <1>6, <1>7, <1>8, SeqEqual
<1> QED
  BY <1>9, <1>3 DEF Q, S

\* A process outside write has nothing left to write.
NothingPending == \A p \in Procs : op[p] # "write" => buf[p] = <<>>

\* write forgets its buffer when it returns.
LEMMA PendingStep == TypeInv /\ NothingPending /\ [Next]_vars => NothingPending'
<1> SUFFICES ASSUME TypeInv, NothingPending, [Next]_vars PROVE NothingPending'
  OBVIOUS
<1>t. op \in [Procs -> Ops] /\ buf \in [Procs -> Seq(Bytes)]
  BY DEF TypeInv, TypeOK
<1>1. ASSUME NEW p \in Procs, buf' = buf, op[p] # "write",
             \A q \in Procs \ {p} : op'[q] = op[q]
      PROVE  NothingPending'
  BY <1>1 DEF NothingPending
<1>2. ASSUME NEW p \in Procs,
             \/ \E n \in ReadSizes : StartRead(p, n)
             \/ ReadEmpty(p)
             \/ \E k \in 0 .. Avail, lost \in {0, 1} : ReadBytes(p, k, lost)
             \/ \E e \in Ends : CloseFile(p, e) \/ ClosePipe(p, e)
      PROVE  NothingPending'
  <2>1. buf' = buf /\ op[p] # "write"
    BY <1>2 DEF StartRead, ReadEmpty, ReadBytes, CloseFile, ClosePipe, Awake, CloseOp
  <2>2. \A q \in Procs \ {p} : op'[q] = op[q]
    BY <1>2, <1>t DEF StartRead, ReadEmpty, ReadBytes, CloseFile, ClosePipe, Return
  <2> QED
    BY <2>1, <2>2, <1>1
<1>3. ASSUME NEW p \in Procs, NEW s \in WriteBufs, StartWrite(p, s)
      PROVE  NothingPending'
  BY <1>3, <1>t DEF StartWrite, NothingPending
<1>4. ASSUME NEW p \in Procs, NEW k \in 0 .. Room, WriteDone(p, k)
      PROVE  NothingPending'
  BY <1>4, <1>t DEF WriteDone, Return, NothingPending
<1>5. ASSUME NEW p \in Procs, WriteBlock(p)
      PROVE  NothingPending'
  BY <1>5, <1>t DEF WriteBlock, Awake, NothingPending
<1>6. ASSUME NEW p \in Procs, WriteFail(p)
      PROVE  NothingPending'
  BY <1>6, <1>t DEF WriteFail, Return, NothingPending
<1>7. ASSUME NEW p \in Procs, Kill(p) \/ \E q \in Procs, e \in Ends : Dup(p, q, e)
      PROVE  NothingPending'
  BY <1>7 DEF Kill, Dup, procVars, NothingPending
<1>8. CASE UNCHANGED vars
  BY <1>8 DEF vars, procVars, NothingPending
<1> QED
  BY <1>2, <1>3, <1>4, <1>5, <1>6, <1>7, <1>8 DEF Next

\* The initial state of a pipe is an empty stream.
LEMMA StreamInitially == Init => Stream!StreamInit
<1> SUFFICES ASSUME Init PROVE Stream!StreamInit
  OBVIOUS
<1>1. Avail = 0
  BY PipeAssumption DEF Init, Avail, Sub
<1>2. NextBytes(Avail) = <<>>
  BY <1>1 DEF NextBytes
<1> QED
  BY <1>2 DEF Init, Stream!StreamInit

\* Each step of the pipe is a step of the stream or leaves it alone.
StreamStep == [Stream!StreamNext]_(Stream!streamVars)

\* A step that touches neither the ring, the ends nor a buffer.
LEMMA StreamStutters ==
    ASSUME UNCHANGED <<ringVars, readopen, writeopen, buf, got>>
    PROVE  UNCHANGED Stream!streamVars
<1>1. Avail' = Avail /\ data' = data /\ nread' = nread
  BY DEF ringVars, Avail
<1>2. NextBytes(Avail)' = NextBytes(Avail)
  BY <1>1 DEF NextBytes
<1> QED
  BY <1>2 DEF Stream!streamVars

\* A stretch of write, to its end or to sleep(), puts bytes into the stream.
LEMMA PutStep ==
    ASSUME TypeOK, Bounded, LifeInv, NEW p \in Procs, op[p] = "write",
           NEW k \in Nat, k <= Room, k <= Len(buf[p]),
           data' = Store(buf[p], k), nwrite' = Add(nwrite, k), nread' = nread,
           NEW rest \in {<<>>, SubSeq(buf[p], k + 1, Len(buf[p]))},
           buf' = [buf EXCEPT ![p] = rest],
           UNCHANGED <<got, readopen, writeopen>>
    PROVE  StreamStep
<1>0. PIPESIZE \in Nat
  BY PipeAssumption
<1>t. /\ data \in [0 .. PIPESIZE - 1 -> Bytes] /\ nread \in 0 .. WORD - 1
      /\ nwrite \in 0 .. WORD - 1 /\ buf[p] \in Seq(Bytes)
  BY DEF TypeOK
<1>a. Avail \in 0 .. PIPESIZE /\ Room \in 0 .. PIPESIZE /\ Avail + Room = PIPESIZE
  BY AvailRoom, <1>t
<1>1. NextBytes(Avail)' = NextBytes(Avail) \o SubSeq(buf[p], 1, k)
  BY WriteAdds, <1>t
<1>2. Len(NextBytes(Avail)) = Avail
  BY NextBytesIs, <1>t, <1>a
<1>3. Len(NextBytes(Avail)) + k <= PIPESIZE /\ k \in 0 .. PIPESIZE
  BY <1>2, <1>a, <1>0
<1>4. writeopen
  BY DEF LifeInv, Open, Ends
<1>5. Stream!Put(p, k)
  BY <1>1, <1>3, <1>4 DEF Stream!Put
<1> QED
  BY <1>3, <1>5 DEF StreamStep, Stream!StreamNext

\* Action by action.
LEMMA StreamSimulates ==
    TypeInv /\ LifeInv /\ NothingPending /\ [Next]_vars => StreamStep
<1> SUFFICES ASSUME TypeInv, LifeInv, NothingPending, [Next]_vars PROVE StreamStep
  OBVIOUS
<1>0. PIPESIZE \in Nat
  BY PipeAssumption
<1>t. /\ TypeOK /\ Bounded /\ data \in [0 .. PIPESIZE - 1 -> Bytes]
      /\ nread \in 0 .. WORD - 1 /\ nwrite \in 0 .. WORD - 1
      /\ buf \in [Procs -> Seq(Bytes)]
      /\ readopen \in BOOLEAN /\ writeopen \in BOOLEAN
  BY DEF TypeInv, TypeOK
<1>a. Avail \in 0 .. PIPESIZE /\ Room \in 0 .. PIPESIZE
  BY AvailRoom, <1>t
<1>1. ASSUME NEW p \in Procs,
             \/ \E n \in ReadSizes : StartRead(p, n)
             \/ ReadEmpty(p)
             \/ \E q \in Procs, e \in Ends : Dup(p, q, e)
             \/ \E e \in Ends : CloseFile(p, e)
             \/ Kill(p)
      PROVE  StreamStep
  <2>1. UNCHANGED <<ringVars, readopen, writeopen, buf, got>>
    BY <1>1 DEF StartRead, ReadEmpty, Dup, CloseFile, Kill, fileVars, procVars
  <2> QED
    BY <2>1, StreamStutters DEF StreamStep
<1>2. ASSUME NEW p \in Procs, NEW s \in WriteBufs, StartWrite(p, s)
      PROVE  StreamStep
  <2>1. writeopen /\ buf[p] = <<>>
    BY <1>2 DEF StartWrite, Awake, LifeInv, NothingPending, Open, Ends
  <2>2. buf' = [buf EXCEPT ![p] = s] /\ UNCHANGED <<ringVars, readopen, writeopen, got>>
    BY <1>2 DEF StartWrite, fileVars
  <2>3. Avail' = Avail /\ data' = data /\ nread' = nread
    BY <2>2 DEF ringVars, Avail
  <2>4. NextBytes(Avail)' = NextBytes(Avail)
    BY <2>3 DEF NextBytes
  <2>5. Stream!Offer(p)
    BY <2>1, <2>2, <2>4 DEF Stream!Offer
  <2> QED
    BY <2>5 DEF StreamStep, Stream!StreamNext
<1>3. ASSUME NEW p \in Procs, NEW k \in 0 .. Avail, NEW lost \in {0, 1},
             ReadBytes(p, k, lost)
      PROVE  StreamStep
  <2>k. k \in Nat /\ k \in 0 .. PIPESIZE
    BY <1>a, <1>0
  <2>1. /\ k + lost <= Avail
        /\ nread' = Add(nread, k + lost)
        /\ got' = NextBytes(k)
        /\ UNCHANGED <<data, nwrite, readopen, writeopen, buf>>
    BY <1>3 DEF ReadBytes, fileVars
  <2>2. /\ NextBytes(k) = SubSeq(NextBytes(Avail), 1, k)
        /\ NextBytes(Avail)' =
               SubSeq(NextBytes(Avail), k + lost + 1, Len(NextBytes(Avail)))
    BY <2>k, <2>1, <1>t, ReadTakes
  <2>3. Len(NextBytes(Avail)) = Avail
    BY NextBytesIs, <1>t, <1>a
  <2>4. Stream!Get(k, lost)
    BY <2>1, <2>2, <2>3 DEF Stream!Get
  <2> QED
    BY <2>k, <2>4 DEF StreamStep, Stream!StreamNext
<1>4. ASSUME NEW p \in Procs, NEW k \in 0 .. Room, WriteDone(p, k)
      PROVE  StreamStep
  <2>1. /\ k \in Nat /\ k <= Room /\ k <= Len(buf[p]) /\ op[p] = "write"
        /\ data' = Store(buf[p], k) /\ nwrite' = Add(nwrite, k) /\ nread' = nread
        /\ buf' = [buf EXCEPT ![p] = <<>>]
        /\ UNCHANGED <<got, readopen, writeopen>>
    BY <1>4, <1>a, <1>t DEF WriteDone, Awake, fileVars
  <2> QED
    BY <2>1, <1>t, PutStep
<1>5. ASSUME NEW p \in Procs, WriteBlock(p) \/ WriteFail(p)
      PROVE  StreamStep
  <2> PICK k \in 0 .. PIPESIZE : k = Room
    BY <1>a
  <2>1. /\ k \in Nat /\ k <= Room /\ k <= Len(buf[p]) /\ op[p] = "write"
        /\ data' = Store(buf[p], k) /\ nwrite' = Add(nwrite, k) /\ nread' = nread
        /\ UNCHANGED <<got, readopen, writeopen>>
    BY <1>5, <1>0, <1>t DEF WriteBlock, WriteFail, Awake, fileVars
  <2>2. PICK rest \in {<<>>, SubSeq(buf[p], k + 1, Len(buf[p]))} :
               buf' = [buf EXCEPT ![p] = rest]
    BY <1>5 DEF WriteBlock, WriteFail
  <2> QED
    BY <2>1, <2>2, <1>t, PutStep
<1>6. ASSUME NEW p \in Procs, NEW e \in Ends, ClosePipe(p, e)
      PROVE  StreamStep
  <2>1. /\ Open(e) /\ UNCHANGED <<ringVars, buf, got>>
        /\ readopen' = (readopen /\ e # "R") /\ writeopen' = (writeopen /\ e # "W")
    BY <1>6 DEF ClosePipe, Awake, LifeInv
  <2>2. Avail' = Avail /\ data' = data /\ nread' = nread
    BY <2>1 DEF ringVars, Avail
  <2>3. NextBytes(Avail)' = NextBytes(Avail)
    BY <2>2 DEF NextBytes
  <2>4. CASE e = "R"
    <3>1. Stream!ShutRead
      BY <2>1, <2>3, <2>4, <1>t DEF Stream!ShutRead, Open
    <3> QED
      BY <3>1 DEF StreamStep, Stream!StreamNext
  <2>5. CASE e = "W"
    <3>1. Stream!ShutWrite
      BY <2>1, <2>3, <2>5, <1>t DEF Stream!ShutWrite, Open
    <3> QED
      BY <3>1 DEF StreamStep, Stream!StreamNext
  <2> QED
    BY <2>4, <2>5 DEF Ends
<1>7. CASE UNCHANGED vars
  <2>1. UNCHANGED <<ringVars, readopen, writeopen, buf, got>>
    BY <1>7 DEF vars, fileVars, procVars
  <2> QED
    BY <2>1, StreamStutters DEF StreamStep
<1> QED
  BY <1>1, <1>2, <1>3, <1>4, <1>5, <1>6, <1>7 DEF Next

\* The pipe implements a bounded byte stream for every buffer size that
\* divides 2^32: every byte written is read once and in order, whatever the
\* processes do to each other and however often the counters overflow.
THEOREM PipeImplementsStream == Spec => PipeIsStream
<1>1. Init => LifeInv /\ NothingPending
  BY DEF Init, LifeInv, NothingPending, Open, CloseOp, Ends
<1>2. TypeInv /\ LifeInv /\ NothingPending /\ [Next]_vars
          => [Stream!StreamNext]_(Stream!streamVars)
  BY StreamSimulates DEF StreamStep
<1> QED
  BY <1>1, <1>2, StreamInitially, TypeInit, TypeStep, LifeStep, PendingStep, PTL
     DEF Spec, PipeIsStream, Stream!StreamSpec
=============================================================================
