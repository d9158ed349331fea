------------------------------- MODULE Memory -------------------------------
(***************************************************************************)
(* Page frames, page tables and mapped areas of tasks: MemAllocator,       *)
(* VmManager, the vma table, and the calls that change an address space    *)
(* (fork, clone, exec, brk, sbrk, mmap, munmap, a page fault, exit, wait). *)
(*                                                                         *)
(* Addresses are counted in a unit of which PGSIZE make a page.  A page    *)
(* table is a function from its own pages (root and lower levels) and the  *)
(* virtual pages to frames.  A call is one step: a task changes only its   *)
(* own address space, and the free list has a lock.  Permissions and       *)
(* contents are left out.                                                  *)
(***************************************************************************)
EXTENDS Integers, FiniteSetsExt, Sequences

CONSTANTS
    Tasks, First,  \* the tasks, and the init task
    None,
    Frames,        \* the pages of physical memory, as numbers
    PGSIZE,        \* units in a page
    LowPages,      \* pages a program can grow to (bound)
    HighPages,     \* pages below the 4 MB that mmap keeps free at the top (bound)
    NVMA,          \* slots of vma_table_
    NOMMAPFILE,    \* areas of a task
    Images,        \* the files that exec is called with
    Grow,          \* the arguments of sbrk
    Map,           \* the lengths and flags that mmap is called with
    MaxLost        \* no exec of a missing file once so many frames are lost (bound)

ASSUME MemoryAssumption ==
    /\ IsFiniteSet(Tasks) /\ First \in Tasks
    /\ Frames \subseteq Nat /\ Frames # {}
    /\ \A n \in {PGSIZE, LowPages, HighPages, NVMA, NOMMAPFILE} : n \in Nat \ {0}
    /\ LowPages >= 2

\* Segments lie where a program may; what exec refuses may have any sizes.
ASSUME ImagesAssumption ==
    /\ \A img \in Images :
         /\ img.segs \in Seq([vaddr : Nat, filesz : Nat, memsz : Nat])
         /\ \A k \in DOMAIN img.segs :
              img.segs[k].vaddr + img.segs[k].filesz <= LowPages * PGSIZE
    /\ \A a \in Map : a.length \in Nat /\ a.shared \in BOOLEAN
    /\ Grow \subseteq Int

Pages   == 0 .. LowPages + HighPages - 1
Top     == (LowPages + HighPages) * PGSIZE
\* The pages of a page table itself: the root, and the two lower levels for
\* the trampoline, for the program and for the areas of mmap.
Root == -1
Top1 == -2
Top0 == -3
Low1 == -4
Low0 == -5
Map0 == -6
Tables  == Map0 .. Root
Entries == Tables \cup Pages
NoTable == [e \in Entries |-> None]
Slots   == 1 .. NVMA
Indices == 1 .. NOMMAPFILE

\* struct vma, of which all but these are left out
Areas == [addr : 0 .. Top, length : 0 .. Top, ip : BOOLEAN, shared : BOOLEAN]

ASSUME NoneAssumption == None \notin Nat \cup Areas

PGROUNDDOWN(a) == (a \div PGSIZE) * PGSIZE
PGROUNDUP(a)   == ((a + PGSIZE - 1) \div PGSIZE) * PGSIZE
\* The pages of [from, to), both rounded up.
Span(from, to) == PGROUNDUP(from) \div PGSIZE .. PGROUNDUP(to) \div PGSIZE - 1

VARIABLES
    free,      \* freeList
    state,     \* UNUSED, running (or able to), ZOMBIE
    trapframe, pagetable, sz,   \* of each task
    area,      \* vma_table_
    vma,       \* the areas of each task, by index
    iref,      \* references to the inode of the programs
    lost,      \* frames that no pointer leads to any more
    panicked   \* the text of the panic, or "no"

vars == <<free, state, trapframe, pagetable, sz, area, vma, iref, lost, panicked>>

TypeOK ==
    /\ free \subseteq Frames /\ lost \subseteq Frames
    /\ state \in [Tasks -> {"UNUSED", "RUN", "ZOMBIE"}]
    /\ trapframe \in [Tasks -> Frames \cup {None}]
    /\ pagetable \in [Tasks -> [Entries -> Frames \cup {None}]]
    /\ sz \in [Tasks -> 0 .. LowPages * PGSIZE]
    /\ area \in [Slots -> Areas \cup {None}]
    /\ \A s \in Slots : area[s] # None => area[s].addr % PGSIZE = 0
    /\ vma \in [Tasks -> [Indices -> Slots \cup {None}]]
    /\ iref \in Nat

-----------------------------------------------------------------------------
(* Page tables.  m is a call's view of memory: the free frames, the page   *)
(* table at hand, whether all allocations succeeded, and the panic.        *)

View(fr, pg) == [free |-> fr, pg |-> pg, ok |-> TRUE, panic |-> "no"]

\* MemAllocator::alloc, for entry e of the page table.
alloc(m, e) ==
    IF ~m.ok \/ m.free = {} THEN [m EXCEPT !.ok = FALSE]
    ELSE [m EXCEPT !.free = @ \ {Min(m.free)}, !.pg[e] = Min(m.free)]

\* walk with alloc: the two lower tables on the way to a page.
Path(p) == IF p < LowPages THEN <<Low1, Low0>> ELSE <<Top1, Map0>>
Need(m, e) == IF m.pg[e] = None THEN alloc(m, e) ELSE m
walk(m, p) == Need(Need(m, Path(p)[1]), Path(p)[2])

mappages(m, p, f) ==
    LET w == walk(m, p)
    IN IF w.ok /\ w.pg[p] # None THEN [w EXCEPT !.panic = "remap"]
       ELSE IF w.ok THEN [w EXCEPT !.pg[p] = f] ELSE w

\* A frame for page p; when a table for it cannot be had the frame is left over.
NewPage(m, p) ==
    LET f == Min(m.free) IN
    IF m.free = {} THEN [m |-> [m EXCEPT !.ok = FALSE], left |-> {}]
    ELSE LET w == mappages([m EXCEPT !.free = @ \ {f}], p, f)
         IN [m |-> w, left |-> IF w.ok THEN {} ELSE {f}]

\* userUnmap with do_free
userUnmap(m, ps) ==
    [m EXCEPT !.free = @ \cup ({m.pg[p] : p \in ps \cap Pages} \ {None}),
              !.pg = [e \in Entries |-> IF e \in ps THEN None ELSE @[e]]]

\* The loop of userAlloc from page lo to page hi - 1, and the page it came to.
MapRange(m, lo, hi) ==
    LET up[k \in lo .. hi] ==
            IF k = lo THEN [m |-> m, at |-> lo]
            ELSE IF ~up[k - 1].m.ok \/ up[k - 1].m.panic # "no" THEN up[k - 1]
            ELSE LET n == NewPage(up[k - 1].m, k - 1)
                 IN [m |-> [n.m EXCEPT !.free = @ \cup n.left], at |-> k - 1]
    IN up[hi]

\* userAlloc: on failure the pages mapped so far are taken back.
userAlloc(m, old, new) ==
    LET lo   == PGROUNDUP(old) \div PGSIZE
        hi   == PGROUNDUP(new) \div PGSIZE
        last == MapRange(m, lo, hi)
    IN IF new < old \/ lo >= hi THEN m
       ELSE IF last.m.ok THEN last.m ELSE userUnmap(last.m, lo .. last.at - 1)

\* freewalk of a table from which [0, size) was unmapped, the trampoline and the trapframe too
FreeTaskPagetable(m, size) ==
    LET u == userUnmap(m, Span(0, size))
    IN IF \E p \in Pages : u.pg[p] # None THEN [u EXCEPT !.panic = "freewalk: leaf"]
       ELSE [u EXCEPT !.free = @ \cup ({u.pg[e] : e \in Tables} \ {None}), !.pg = NoTable]

\* taskPagetable: the root, and the tables above the trampoline and the trapframe
taskPagetable(fr) ==
    LET m == alloc(alloc(alloc(View(fr, NoTable), Root), Top1), Top0)
    IN IF m.ok THEN m ELSE [FreeTaskPagetable(m, 0) EXCEPT !.ok = FALSE]

\* Mutant: the child's page table points to the parent's frames.
CopyPages_Share(m, from, ps) ==
    [m EXCEPT !.pg = [e \in Entries |-> IF e \in ps THEN from[e] ELSE @[e]]]

\* userVmCopy and CopyUserMem: a copy of the pages ps that are mapped; no memory is a panic
CopyPages(m, from, ps) ==
    LET mapped == {p \in ps : from[p] # None}
        cp[k \in 0 .. LowPages] ==
            IF k = 0 THEN m
            ELSE IF k - 1 \notin mapped \/ cp[k - 1].panic # "no" THEN cp[k - 1]
            ELSE LET n == NewPage(cp[k - 1], k - 1).m
                 IN IF n.ok THEN n ELSE [n EXCEPT !.panic = "userVmCopy: alloc mem fail"]
    IN IF ps # {} /\ from[Low0] = None THEN [m EXCEPT !.panic = "userVmCopy: pte not present"]
       ELSE cp[LowPages]

-----------------------------------------------------------------------------
(* Areas.  type is never set but to PROG, which is 0: all areas are PROG.  *)

Mine(t)   == {i \in Indices : vma[t][i] # None}
Of(t, i)  == area[vma[t][i]]
FreeSlots == {s \in Slots : area[s] = None}
Covers(a, p) == PGROUNDDOWN(a.addr) <= p * PGSIZE /\ p * PGSIZE < PGROUNDUP(a.addr + a.length)
AreaPages(a) == a.addr \div PGSIZE .. a.addr \div PGSIZE + PGROUNDUP(a.length) \div PGSIZE - 1

\* Mutant: the slots stay in use.
FreedAreas_Keeps(t, I) == area

\* vma::free of the areas at indices I of t, and with it the references to the inode.
FreedAreas(t, I) == [s \in Slots |-> IF \E i \in I : vma[t][i] = s THEN None ELSE area[s]]
WithIp(t, I)     == Cardinality({i \in I : Of(t, i).ip})

\* The k lowest of a set of numbers, in order.
Lowest(S, k) ==
    LET l[n \in 0 .. k] == IF n = 0 THEN <<>>
                           ELSE Append(l[n - 1], Min(S \ {l[n - 1][i] : i \in 1 .. n - 1}))
    IN l[k]

-----------------------------------------------------------------------------
(* The calls.                                                              *)

Running(t) == state[t] = "RUN" /\ panicked = "no"

Panic(text) == panicked' = text
               /\ UNCHANGED <<free, state, trapframe, pagetable, sz, area, vma, iref, lost>>

\* After a call that leaves memory as in m.
Became(t, m) == free' = m.free /\ pagetable' = [pagetable EXCEPT ![t] = m.pg] /\ panicked' = m.panic

Init ==
    LET m == userAlloc(taskPagetable(Frames \ {Min(Frames)}), 0, 2 * PGSIZE)
    IN /\ free = m.free
       /\ state = [t \in Tasks |-> IF t = First THEN "RUN" ELSE "UNUSED"]
       /\ trapframe = [t \in Tasks |-> IF t = First THEN Min(Frames) ELSE None]
       /\ pagetable = [t \in Tasks |-> IF t = First THEN m.pg ELSE NoTable]
       /\ sz = [t \in Tasks |-> IF t = First THEN 2 * PGSIZE ELSE 0]
       /\ area = [s \in Slots |-> None]
       /\ vma = [t \in Tasks |-> [i \in Indices |-> None]]
       /\ iref = 0 /\ lost = {} /\ panicked = "no"

\* allocTask, fork and clone.  CopyVmaMem keeps the address in an int: it
\* reaches the areas above sz only where the program lies, not those of mmap.
Copied(t) == Span(0, sz[t])
             \cup UNION {AreaPages(Of(t, i)) \cap 0 .. LowPages - 1 :
                            i \in {j \in Mine(t) : Of(t, j).addr >= sz[t]}}

fork(t, c, cloning) ==
    LET tf == Min(free)
        pt == taskPagetable(free \ {tf})
        m  == CopyPages(pt, pagetable[t], IF cloning THEN Span(0, sz[t]) ELSE Copied(t))
        new == Lowest(FreeSlots, Cardinality(Mine(t)))
        Nth(i) == new[Cardinality({j \in Mine(t) : j <= i})]
    IN /\ Running(t) /\ state[c] = "UNUSED" /\ free # {}
       /\ IF ~pt.ok THEN Panic("null page table")
          ELSE IF m.panic # "no" THEN Panic(m.panic)
          ELSE IF cloning /\ Mine(t) # {} THEN Panic("dup of a null file")
          ELSE IF Cardinality(Mine(t)) > Cardinality(FreeSlots) THEN Panic("not enough vma")
          ELSE /\ Became(c, m)
               /\ trapframe' = [trapframe EXCEPT ![c] = tf]
               /\ sz' = [sz EXCEPT ![c] = sz[t]]
               /\ vma' = [vma EXCEPT ![c] = [i \in Indices |-> IF i \in Mine(t) THEN Nth(i) ELSE None]]
               /\ area' = [s \in Slots |-> IF \E i \in Mine(t) : Nth(i) = s
                                           THEN Of(t, CHOOSE i \in Mine(t) : Nth(i) = s) ELSE area[s]]
               /\ iref' = iref + WithIp(t, Mine(t))
               /\ state' = [state EXCEPT ![c] = "RUN"]
               /\ UNCHANGED lost

\* The area of a segment of the program.
LazyLoadSeg(ph) == [addr   |-> PGROUNDDOWN(ph.vaddr),
                    length |-> ph.filesz + (ph.vaddr % PGSIZE), ip |-> TRUE, shared |-> FALSE]

\* The first n segments become the areas of t, in place of those it had.
Loaded(t, segs, n) ==
    LET slots == Lowest(FreeSlots \cup {vma[t][i] : i \in Mine(t)}, n)
    IN /\ vma' = [vma EXCEPT ![t] = [i \in Indices |-> IF i <= n THEN slots[i] ELSE None]]
       /\ area' = [s \in Slots |->
             IF \E k \in 1 .. n : slots[k] = s THEN LazyLoadSeg(segs[CHOOSE k \in 1 .. n : slots[k] = s])
             ELSE FreedAreas(t, Mine(t))[s]]
       /\ iref' = iref - WithIp(t, Mine(t)) + n

\* sys_exec: the arguments take args frames until exec is done.  exec gives up
\* before or after it has freed the old areas; the areas it added stay.
exec(t, img, args) ==
    LET held  == {f \in free : Cardinality({g \in free : g < f}) < args}
        pt    == taskPagetable(free \ held)
        good  == {k \in 0 .. Len(img.segs) : \A j \in 1 .. k : img.segs[j].memsz >= img.segs[j].filesz}
        n     == Max(good)   \* segments loaded
        size  == IF n = 0 THEN 0 ELSE img.segs[n].vaddr + img.segs[n].memsz
        stack == userAlloc(pt, PGROUNDUP(size), PGROUNDUP(size) + PGSIZE)
        left  == FreeTaskPagetable(IF n < Len(img.segs) THEN pt ELSE stack, size)
        done  == FreeTaskPagetable(View(stack.free, pagetable[t]), sz[t])
    IN /\ Running(t) /\ Cardinality(free) >= args /\ pt.ok
       /\ PGROUNDUP(size) + PGSIZE <= LowPages * PGSIZE
       /\ \/ /\ img.found = "no"     \* the new page table is forgotten
             /\ Cardinality(lost) < MaxLost
             /\ free' = pt.free \cup held
             /\ lost' = lost \cup (free \ (pt.free \cup held))
             /\ UNCHANGED <<state, trapframe, pagetable, sz, area, vma, iref, panicked>>
          \/ /\ img.found = "short"
             /\ UNCHANGED vars
          \/ /\ img.found = "not ELF"
             /\ area' = FreedAreas(t, Mine(t))
             /\ vma' = [vma EXCEPT ![t] = [i \in Indices |-> None]]
             /\ iref' = iref - WithIp(t, Mine(t))
             /\ UNCHANGED <<free, state, trapframe, pagetable, sz, lost, panicked>>
          \/ /\ img.found = "yes"
             /\ IF n > NOMMAPFILE \/ n > Cardinality(FreeSlots) + Cardinality(Mine(t))
                THEN Panic("not enough vma")
                ELSE IF n < Len(img.segs) \/ ~stack.ok
                THEN /\ Loaded(t, img.segs, n)
                     /\ free' = left.free \cup held
                     /\ UNCHANGED <<state, trapframe, pagetable, sz, lost, panicked>>
                ELSE IF done.panic # "no" THEN Panic(done.panic)
                ELSE /\ Loaded(t, img.segs, n)
                     /\ free' = done.free \cup held
                     /\ pagetable' = [pagetable EXCEPT ![t] = stack.pg]
                     /\ sz' = [sz EXCEPT ![t] = PGROUNDUP(size) + PGSIZE]
                     /\ UNCHANGED <<state, trapframe, lost, panicked>>

\* growtask, from sys_sbrk and sys_brk.  A size below zero wraps and changes nothing.
growtask(t, n) ==
    LET new == sz[t] + n
        up  == userAlloc(View(free, pagetable[t]), sz[t], new)
    IN /\ Running(t) /\ n # 0 /\ new <= LowPages * PGSIZE
       /\ \/ n > 0 /\ up.panic # "no" /\ panicked' = up.panic /\ UNCHANGED <<free, pagetable, sz>>
          \/ n > 0 /\ up.panic = "no" /\ Became(t, up) /\ sz' = [sz EXCEPT ![t] = IF up.ok THEN new ELSE @]
          \/ /\ n < 0 /\ new >= 0
             /\ Became(t, userUnmap(View(free, pagetable[t]), Span(new, sz[t])))
             /\ sz' = [sz EXCEPT ![t] = new]
          \/ n < 0 /\ new < 0 /\ UNCHANGED <<free, pagetable, sz, panicked>>
       /\ UNCHANGED <<state, trapframe, area, vma, iref, lost>>

\* The lengths of the areas of t.
vmasz(t) ==
    LET sum[i \in 0 .. NOMMAPFILE] ==
            IF i = 0 THEN 0 ELSE sum[i - 1] + (IF i \in Mine(t) THEN Of(t, i).length ELSE 0)
    IN sum[NOMMAPFILE]

\* sys_mmap: no file, and a place below the areas of t, counted by their lengths.
sys_mmap(t, length, shared) ==
    LET addr == PGROUNDDOWN(Top - vmasz(t) - PGROUNDUP(length))
        idle == Indices \ Mine(t)
    IN /\ Running(t) /\ addr >= LowPages * PGSIZE
       /\ IF FreeSlots = {} \/ idle = {} THEN Panic("not enough vma")
          ELSE /\ area' = [area EXCEPT ![Min(FreeSlots)] =
                              [addr |-> addr, length |-> length, ip |-> FALSE, shared |-> shared]]
               /\ vma' = [vma EXCEPT ![t][Min(idle)] = Min(FreeSlots)]
               /\ UNCHANGED <<free, state, trapframe, pagetable, sz, iref, lost, panicked>>

\* sys_munmap: all of the first area that holds the address, unless it is of a file.
sys_munmap(t, addr) ==
    LET in == {i \in Mine(t) : Of(t, i).addr <= addr /\ addr < Of(t, i).addr + Of(t, i).length}
        a  == Of(t, Min(in))
    IN /\ Running(t)
       /\ IF in = {} THEN Panic("no area")
          ELSE /\ ~a.ip
               /\ Became(t, userUnmap(View(free, pagetable[t]), AreaPages(a)))
               /\ area' = FreedAreas(t, {Min(in)})
               /\ vma' = [vma EXCEPT ![t][Min(in)] = None]
               /\ UNCHANGED <<state, trapframe, sz, iref, lost>>

\* exit: the areas with their pages; the rest of the address space waits for freeTask.
Exiting(t) ==
    IF t = First THEN Panic("init task exit")
    ELSE IF \E i \in Mine(t) : Of(t, i).shared THEN Panic("rewind of a null file")
    ELSE /\ Became(t, userUnmap(View(free, pagetable[t]), UNION {AreaPages(Of(t, i)) : i \in Mine(t)}))
         /\ area' = FreedAreas(t, Mine(t))
         /\ iref' = iref - WithIp(t, Mine(t))
         /\ vma' = [vma EXCEPT ![t] = [i \in Indices |-> None]]
         /\ state' = [state EXCEPT ![t] = "ZOMBIE"]
         /\ UNCHANGED <<trapframe, sz, lost>>

exit(t) == Running(t) /\ Exiting(t)

\* A page fault: LoadIfValid, LoadIfContain.  Without a frame the null page is
\* cleared; without a table the frame is forgotten and the task faults again.
usertrap(t, p) ==
    LET n == NewPage(View(free, pagetable[t]), p)
    IN /\ Running(t) /\ pagetable[t][p] = None
       /\ IF (\E i \in Mine(t) : Covers(Of(t, i), p)) \/ p * PGSIZE < sz[t]
          THEN IF free = {} THEN Panic("null page")
               ELSE /\ Became(t, n.m)
                    /\ lost' = lost \cup n.left
                    /\ UNCHANGED <<state, trapframe, sz, area, vma, iref>>
          ELSE Exiting(t)

\* freeTask, from the wait of the parent.
freeTask(t) ==
    LET m == FreeTaskPagetable(View(free \cup {trapframe[t]}, pagetable[t]), sz[t])
    IN /\ state[t] = "ZOMBIE" /\ panicked = "no"
       /\ IF m.panic # "no" THEN Panic(m.panic)
          ELSE /\ Became(t, m)
               /\ trapframe' = [trapframe EXCEPT ![t] = None]
               /\ sz' = [sz EXCEPT ![t] = 0]
               /\ state' = [state EXCEPT ![t] = "UNUSED"]
               /\ UNCHANGED <<area, vma, iref, lost>>

Next ==
    \E t \in Tasks :
        \/ \E c \in Tasks \ {t}, cloning \in BOOLEAN : fork(t, c, cloning)
        \/ \E img \in Images, args \in 0 .. 1 : exec(t, img, args)
        \/ \E n \in Grow : growtask(t, n)
        \/ \E a \in Map : sys_mmap(t, a.length, a.shared)
        \/ \E p \in Pages : sys_munmap(t, p * PGSIZE) \/ usertrap(t, p)
        \/ exit(t)
        \/ freeTask(t)

Spec == Init /\ [][Next]_vars

-----------------------------------------------------------------------------
(* Properties.                                                             *)

\* The pointers to frames that tasks have: their page tables' and the trapframe's.
Trap == Map0 - 1
At(x) == IF x[2] = Trap THEN trapframe[x[1]] ELSE pagetable[x[1]][x[2]]
Uses == {x \in Tasks \X (Entries \cup {Trap}) : At(x) # None}

\* Every frame is in exactly one place: in the free list, in one page table of
\* one task and only once, a trapframe, or lost by the two paths that forget
\* one.  No sequence of calls frees a frame twice, shares one, or drops one.
FramesOwned ==
    LET used == {At(x) : x \in Uses}
    IN /\ free \cap lost = {}
       /\ used = Frames \ (free \cup lost)
       /\ Cardinality(used) = Cardinality(Uses)

\* Every used slot of vma_table_ is an area of one task, under one index, a
\* task has areas only while it runs, and the program's inode has as many
\* references as areas that read from it.
AreasOwned ==
    /\ TypeOK
    /\ \A s \in Slots : Cardinality({x \in Tasks \X Indices : vma[x[1]][x[2]] = s})
                        = IF area[s] = None THEN 0 ELSE 1
    /\ \A t \in Tasks : state[t] # "RUN" => Mine(t) = {}
    /\ iref = Cardinality({s \in Slots : area[s] # None /\ area[s].ip})

\* A page table is freed only when it maps nothing, as the comment on freewalk
\* requires of its callers.
FreedTablesEmpty == panicked # "freewalk: leaf"

=============================================================================
