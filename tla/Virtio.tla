------------------------------- MODULE Virtio -------------------------------
(***************************************************************************)
(* The disk driver driver/virtio.cpp against a device that takes requests  *)
(* from the avail ring and completes them in any order.                    *)
(*                                                                         *)
(* VirtioRw holds vdiskLock except where it sleeps, so the code between    *)
(* two sleeps is one action.  VirtioIntr runs on either hart under the     *)
(* same lock, but the device goes on while it walks the used ring.         *)
(***************************************************************************)
EXTENDS Naturals, FiniteSets

CONSTANTS
    Procs,     \* processes, each with a buffer of its own
    NUM,       \* descriptors, and entries of each ring
    WORD,      \* 2^16: the ring indices are uint16_t
    Sectors, Values,
    None       \* null pointers, empty slots, no call

ASSUME VirtioAssumption ==
    /\ NUM \in Nat /\ NUM > 2
    /\ WORD \in Nat \ {0} /\ WORD % NUM = 0
    /\ None \notin Procs \cup Values \cup Nat

Desc == 0 .. NUM - 1

VARIABLES
    free,      \* virtioDisk.free
    desc,      \* the descriptors: what addr points to, NEXT flag, next
    ops,       \* request headers, by the first descriptor of the chain
    info,      \* data, finish and status, by the first descriptor
    avail, availIdx,     \* the avail ring and avail->idx
    used, usedIdx,       \* the used ring and used->idx
    used_idx,            \* how far VirtioIntr has looked
    devIdx, taken,       \* device: how far it has read, requests it works on
    raise, irq,          \* it will raise the interrupt; the interrupt is on
    intr,      \* VirtioIntr is in its loop and holds vdiskLock
    pc,        \* where each process is in VirtioRw
    call,      \* its arguments: op, block and, for a write, the value
    idx,       \* its three descriptors
    mem,       \* the contents of its buffer
    disk       \* the contents of the sectors

driverVars == <<free, desc, ops, info, avail, availIdx>>
deviceVars == <<used, usedIdx, devIdx, taken, raise, irq, disk>>
procVars   == <<pc, call, idx>>
vars == <<driverVars, deviceVars, used_idx, intr, procVars, mem>>

Calls == [op : {"read"}, blk : Sectors]
             \cup [op : {"write"}, blk : Sectors, val : Values]

ASSUME CallAssumption == None \notin Calls

\* A descriptor as free_desc leaves it.
Blank == [addr |-> None, more |-> FALSE, next |-> 0]

\* "alloc": wants descriptors and the lock; "full": sleeps on free[0];
\* "check": will look at finish; "wait": sleeps on its buffer.
Pcs == {"idle", "alloc", "full", "check", "wait"}

TypeOK ==
    /\ free \in [Desc -> BOOLEAN]
    /\ desc \in [Desc -> [addr : Procs \cup {"op", "status"} \cup {None},
                          more : BOOLEAN, next : Desc]]
    /\ ops  \in [Desc -> Calls \cup {None}]
    /\ info \in [Desc -> [data : Procs \cup {None}, finish : BOOLEAN,
                          status : {"ok", "none"}]]
    /\ avail \in [Desc -> Desc \cup {None}]
    /\ used  \in [Desc -> Desc \cup {None}]
    /\ {availIdx, usedIdx, used_idx, devIdx} \subseteq 0 .. WORD - 1
    /\ taken \subseteq Desc
    /\ raise \in BOOLEAN /\ irq \in BOOLEAN /\ intr \in BOOLEAN
    /\ pc \in [Procs -> Pcs]
    /\ call \in [Procs -> Calls \cup {None}]
    /\ idx \in [Procs -> [1 .. 3 -> Desc] \cup {None}]
    /\ mem \in [Procs -> Values \cup {None}]
    /\ disk \in [Sectors -> Values]

-----------------------------------------------------------------------------
(* VirtioInit.                                                             *)
Init ==
    /\ free = [i \in Desc |-> TRUE]
    /\ desc = [i \in Desc |-> Blank]
    /\ ops = [i \in Desc |-> None]
    /\ info = [i \in Desc |-> [data |-> None, finish |-> FALSE, status |-> "none"]]
    /\ avail = [i \in Desc |-> None] /\ availIdx = 0
    /\ used = [i \in Desc |-> None] /\ usedIdx = 0
    /\ used_idx = 0 /\ devIdx = 0 /\ taken = {}
    /\ raise = FALSE /\ irq = FALSE /\ intr = FALSE
    /\ pc = [p \in Procs |-> "idle"]
    /\ call = [p \in Procs |-> None]
    /\ idx = [p \in Procs |-> None]
    /\ mem = [p \in Procs |-> None]
    /\ \E v \in Values : disk = [s \in Sectors |-> v]

Inc(x) == (x + 1) % WORD

-----------------------------------------------------------------------------
(* VirtioRw.  vdiskLock is free when VirtioIntr is not in its loop.        *)

\* VirtioRead or VirtioWrite is called with p's buffer.
Start(p, c) ==
    /\ pc[p] = "idle"
    /\ pc' = [pc EXCEPT ![p] = "alloc"]
    /\ call' = [call EXCEPT ![p] = c]
    /\ mem' = [mem EXCEPT ![p] = IF c.op = "write" THEN c.val ELSE None]
    /\ UNCHANGED <<driverVars, deviceVars, used_idx, intr, idx>>

\* Mutant: alloc_desc does not look at free.
FreeDescs_All == Desc

FreeDescs == {i \in Desc : free[i]}

\* The n-th free descriptor, in the order alloc_desc finds them.
NthFree(n) ==
    CHOOSE i \in FreeDescs : Cardinality({j \in FreeDescs : j <= i}) = n

\* alloc3_desc succeeds: the chain is filled in, published and notified, and
\* p sleeps until its request has finished.
Submit(p) ==
    /\ pc[p] = "alloc" /\ ~intr
    /\ Cardinality(FreeDescs) >= 3
    /\ LET i == [n \in 1 .. 3 |-> NthFree(n)] IN
       /\ free' = [free EXCEPT ![i[1]] = FALSE, ![i[2]] = FALSE, ![i[3]] = FALSE]
       /\ ops' = [ops EXCEPT ![i[1]] = call[p]]
       /\ desc' = [desc EXCEPT
              ![i[1]] = [addr |-> "op", more |-> TRUE, next |-> i[2]],
              ![i[2]] = [addr |-> p, more |-> TRUE, next |-> i[3]],
              ![i[3]] = [addr |-> "status", more |-> FALSE, next |-> 0]]
       /\ info' = [info EXCEPT ![i[1]] =
              [data |-> p, finish |-> FALSE, status |-> "none"]]
       /\ avail' = [avail EXCEPT ![availIdx % NUM] = i[1]]
       /\ idx' = [idx EXCEPT ![p] = i]
    /\ availIdx' = Inc(availIdx)
    /\ pc' = [pc EXCEPT ![p] = "wait"]
    /\ UNCHANGED <<deviceVars, used_idx, intr, call, mem>>

\* alloc3_desc fails: what it got is given back, which wakes the others that
\* sleep for descriptors, then p sleeps for them.
NoDescs(p) ==
    /\ pc[p] = "alloc" /\ ~intr
    /\ Cardinality(FreeDescs) < 3
    /\ pc' = [q \in Procs |->
           IF q = p THEN "full"
           ELSE IF pc[q] = "full" /\ FreeDescs # {} THEN "alloc" ELSE pc[q]]
    /\ UNCHANGED <<driverVars, deviceVars, used_idx, intr, call, idx, mem>>

\* The descriptors free_chain frees.
Chain(h) ==
    {h} \cup IF ~desc[h].more THEN {}
             ELSE {desc[h].next} \cup
                  IF desc[desc[h].next].more THEN {desc[desc[h].next].next} ELSE {}

\* Mutant: the loop on finish is an if.
Finish_Early(p) ==
    /\ pc[p] \in {"check", "wait"} /\ ~intr
    /\ info' = [info EXCEPT ![idx[p][1]].data = None]
    /\ LET c == Chain(idx[p][1]) IN
       /\ free' = [i \in Desc |-> free[i] \/ i \in c]
       /\ desc' = [i \in Desc |-> IF i \in c THEN Blank ELSE desc[i]]
    /\ pc' = [q \in Procs |->
           IF q = p THEN "idle" ELSE IF pc[q] = "full" THEN "alloc" ELSE pc[q]]
    /\ call' = [call EXCEPT ![p] = None]
    /\ idx' = [idx EXCEPT ![p] = None]
    /\ mem' = [mem EXCEPT ![p] = None]
    /\ UNCHANGED <<ops, avail, availIdx, deviceVars, used_idx, intr>>

\* The end of the loop: the chain is freed, which wakes those who wait for
\* descriptors, and the call returns.
Finish(p) ==
    /\ pc[p] = "check" /\ ~intr
    /\ info[idx[p][1]].finish
    /\ info' = [info EXCEPT ![idx[p][1]].data = None]
    /\ LET c == Chain(idx[p][1]) IN
       /\ free' = [i \in Desc |-> free[i] \/ i \in c]
       /\ desc' = [i \in Desc |-> IF i \in c THEN Blank ELSE desc[i]]
    /\ pc' = [q \in Procs |->
           IF q = p THEN "idle" ELSE IF pc[q] = "full" THEN "alloc" ELSE pc[q]]
    /\ call' = [call EXCEPT ![p] = None]
    /\ idx' = [idx EXCEPT ![p] = None]
    /\ mem' = [mem EXCEPT ![p] = None]
    /\ UNCHANGED <<ops, avail, availIdx, deviceVars, used_idx, intr>>

-----------------------------------------------------------------------------
(* VirtioIntr.                                                             *)

\* Take the lock and acknowledge the interrupt, ...
IntrEnter ==
    /\ irq /\ ~intr
    /\ irq' = FALSE
    /\ intr' = TRUE
    /\ UNCHANGED <<driverVars, used, usedIdx, devIdx, taken, raise, disk, used_idx,
                   procVars, mem>>

\* Mutant: the sleeper is not told.
IntrStep_NoWake ==
    /\ intr /\ used_idx # usedIdx
    /\ info' = [info EXCEPT ![used[used_idx % NUM]].finish = TRUE]
    /\ used' = [used EXCEPT ![used_idx % NUM] = None]
    /\ used_idx' = Inc(used_idx)
    /\ UNCHANGED <<free, desc, ops, avail, availIdx, usedIdx, devIdx, taken, raise,
                   irq, disk, intr, procVars, mem>>

\* ... then one entry of the used ring after the other (an entry is dead once
\* it was read), ...
IntrStep ==
    /\ intr /\ used_idx # usedIdx
    /\ LET id == used[used_idx % NUM] IN
       /\ info' = [info EXCEPT ![id].finish = TRUE]
       /\ pc' = [p \in Procs |->
              IF pc[p] = "wait" /\ info[id].data = p THEN "check" ELSE pc[p]]
    /\ used' = [used EXCEPT ![used_idx % NUM] = None]
    /\ used_idx' = Inc(used_idx)
    /\ UNCHANGED <<free, desc, ops, avail, availIdx, usedIdx, devIdx, taken, raise,
                   irq, disk, intr, call, idx, mem>>

\* Mutant: the handler ends after any number of entries.
IntrLeave_Early ==
    /\ intr
    /\ intr' = FALSE
    /\ UNCHANGED <<driverVars, deviceVars, used_idx, procVars, mem>>

\* ... up to the device's index.
IntrLeave ==
    /\ intr /\ used_idx = usedIdx
    /\ intr' = FALSE
    /\ UNCHANGED <<driverVars, deviceVars, used_idx, procVars, mem>>

-----------------------------------------------------------------------------
(* The device.                                                             *)

\* It reads the avail ring up to avail->idx (an entry is dead once read).
DeviceTake ==
    /\ devIdx # availIdx
    /\ taken' = taken \cup {avail[devIdx % NUM]}
    /\ avail' = [avail EXCEPT ![devIdx % NUM] = None]
    /\ devIdx' = Inc(devIdx)
    /\ UNCHANGED <<free, desc, ops, info, availIdx, used, usedIdx, raise, irq, disk,
                   used_idx, intr, procVars, mem>>

\* It follows a chain, transfers the sector, stores the status and the used
\* entry, and will raise the interrupt.
DeviceServe(h) ==
    /\ h \in taken
    /\ LET p == desc[desc[h].next].addr
           s == ops[h].blk
       IN IF ops[h].op = "write"
          THEN disk' = [disk EXCEPT ![s] = mem[p]] /\ UNCHANGED mem
          ELSE mem' = [mem EXCEPT ![p] = disk[s]] /\ UNCHANGED disk
    /\ info' = [info EXCEPT ![h].status = "ok"]
    /\ used' = [used EXCEPT ![usedIdx % NUM] = h]
    /\ usedIdx' = Inc(usedIdx)
    /\ taken' = taken \ {h}
    /\ raise' = TRUE
    /\ UNCHANGED <<free, desc, ops, avail, availIdx, devIdx, irq, used_idx, intr, procVars>>

DeviceRaise ==
    /\ raise
    /\ raise' = FALSE
    /\ irq' = TRUE
    /\ UNCHANGED <<driverVars, used, usedIdx, devIdx, taken, disk, used_idx, intr,
                   procVars, mem>>

-----------------------------------------------------------------------------
Rw(p) == Submit(p) \/ NoDescs(p) \/ Finish(p)
Intr == IntrEnter \/ IntrStep \/ IntrLeave
Device == DeviceTake \/ DeviceRaise \/ \E h \in Desc : DeviceServe(h)

Next ==
    \/ \E p \in Procs : Rw(p) \/ \E c \in Calls : Start(p, c)
    \/ Intr
    \/ Device

Spec == Init /\ [][Next]_vars

-----------------------------------------------------------------------------
(* Properties.                                                             *)

\* The value p's call has transferred: the device has stored the status.
Got(p) == IF pc[p] \in {"check", "wait"} /\ info[idx[p][1]].status = "ok"
          THEN mem[p] ELSE None

Store == INSTANCE BlockStore
             WITH Clients <- Procs, Blocks <- Sectors, MayFail <- FALSE,
                  store <- disk, asked <- call,
                  got <- [p \in Procs |-> Got(p)]

\* Every VirtioRw transfers its own sector from or to its own buffer, once,
\* and returns after that, whatever order the device completes requests in,
\* across the reuse of descriptors and the overflow of the ring indices.
DiskIsStore == Store!StoreSpec

\* Each process under way owns three descriptors, linked in a chain: they are
\* not free (free_desc would panic) and no other process's.
ChainsApart ==
    \A p \in Procs : pc[p] \in {"check", "wait"} =>
        /\ Chain(idx[p][1]) = {idx[p][n] : n \in 1 .. 3}
        /\ \A i \in Chain(idx[p][1]) : ~free[i]
        /\ \A q \in Procs \ {p} : pc[q] \in {"check", "wait"} =>
               Chain(idx[p][1]) \cap Chain(idx[q][1]) = {}

\* No descriptor is lost: those that are not free belong to a call under way.
NoLeak ==
    \A i \in Desc : free[i] \/ \E p \in Procs :
        pc[p] \in {"check", "wait"} /\ i \in Chain(idx[p][1])

\* alloc_desc, free_chain and the interrupt handler agree on who owns each
\* descriptor of the ring.
DescriptorsOwned == TypeOK /\ ChainsApart /\ NoLeak

\* Nobody sleeps for what is there, a finished request or three descriptors,
\* and who is woken for its request finds it finished.
NoLostWakeup ==
    \A p \in Procs :
        /\ pc[p] = "wait" => ~info[idx[p][1]].finish
        /\ pc[p] = "check" => info[idx[p][1]].finish
        /\ pc[p] = "full" => Cardinality(FreeDescs) < 3

\* The acknowledgement races with new completions: an entry of the used ring
\* that VirtioIntr has not seen when it leaves has its interrupt to come.
CompletionSeen == used_idx # usedIdx /\ ~intr => irq \/ raise
=============================================================================
