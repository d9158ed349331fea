-------------------------------- MODULE Buddy --------------------------------
(***************************************************************************)
(* The kernel's heap: operator new and delete of StartOS.cpp over the      *)
(* buddy allocator of memory/BuddyAllocator.cpp, whose pages come from     *)
(* MemAllocator.  A block of level l is 2^l bytes at a multiple of 2^l;    *)
(* its level is stored in a header in front of the object.                 *)
(*                                                                         *)
(* The allocator has no lock.  Under a caller's spin lock a call cannot be *)
(* interrupted; elsewhere a task can be preempted between the load and the *)
(* store of a list head, which Preemptible admits.                         *)
(***************************************************************************)
EXTENDS Integers, SequencesExt

CONSTANTS Users,                 \* the tasks that allocate and free
          Nobody,
          MIN_LEVEL, MAX_LEVEL,
          HeaderSize,            \* bytes for the level, in front of the object
          NPages,                \* pages that MemAllocator has
          Sizes,                 \* sizes of the objects that are made
          MaxObjects,            \* objects at a time (bound)
          Preemptible

Levels == 0 .. MAX_LEVEL
PageSize == 2 ^ MAX_LEVEL
Bytes == 0 .. NPages * PageSize - 1

(* The sizes that alloc has a list for: from PageSize - HeaderSize + 1 to   *)
(* PageSize, which operator new lets through, the index is past freelist.   *)
ASSUME BuddyAssumption ==
    /\ MIN_LEVEL \in Nat /\ MAX_LEVEL \in Nat /\ MIN_LEVEL <= MAX_LEVEL
    /\ NPages \in Nat /\ MaxObjects \in Nat /\ Preemptible \in BOOLEAN
    /\ HeaderSize \in Nat
    /\ \A s \in Sizes : s \in Nat /\ s + HeaderSize <= PageSize
    /\ Nobody \notin [size : Sizes, found : [from : {"pages", "freelist"},
                                             i : Levels, list : Seq(Nat)]]

VARIABLES heap,      \* free lists, MemAllocator's list, levels of the blocks in use
          objects,   \* the objects made and not deleted: address and size
          look,      \* what a task has loaded in alloc, or Nobody
          heapPanic

buddyVars == <<heap, objects, look, heapPanic>>

calc_level(size) == CHOOSE l \in MIN_LEVEL .. MAX_LEVEL :
    size <= 2 ^ l /\ \A k \in MIN_LEVEL .. l - 1 : size > 2 ^ k

(* The address with bit lv the other way. *)
get_buddy(block, lv) ==
    IF (block \div 2 ^ lv) % 2 = 0 THEN block + 2 ^ lv ELSE block - 2 ^ lv

(* The smallest level from lv on with a free block; without one, a page.    *)
Found(h, lv) ==
    LET at == {i \in lv .. MAX_LEVEL : h.freelist[i] # <<>>}
    IN  IF at = {} THEN [from |-> "pages", i |-> MAX_LEVEL, list |-> h.pages]
        ELSE LET i == CHOOSE i \in at : \A j \in at : i <= j
             IN  [from |-> "freelist", i |-> i, list |-> h.freelist[i]]

(* MemAllocator::alloc, which has a lock, is over at once. *)
WithoutPage(h, f) == IF f.from = "pages" THEN [h EXCEPT !.pages = Tail(@)] ELSE h

(* The lists F without the block that was found; *)
Without(F, f) == IF f.from = "pages" THEN F ELSE [F EXCEPT ![f.i] = Tail(f.list)]

(* the block or the page is split down to lv: the other half goes to the    *)
(* list of each level on the way.                                           *)
SplitLists(F, block, lv, i) ==
    [k \in Levels |-> IF k \in lv .. i - 1 THEN <<get_buddy(block, k)>> \o F[k]
                                           ELSE F[k]]

Carve(h, f, lv) ==
    LET block == Head(f.list)
    IN  [freelist |-> SplitLists(Without(h.freelist, f), block, lv, f.i),
         pages |-> h.pages,
         level |-> [h.level EXCEPT ![block] = lv]]

(* Mutant: the buddy stays in its list. *)
MergeAt_Keeps(s, i) ==
    LET buddy == get_buddy(s.block, i)
    IN  IF s.placed THEN s
        ELSE IF buddy \in ToSet(s.freelist[i])
        THEN [s EXCEPT !.block = IF @ < buddy THEN @ ELSE buddy]
        ELSE [s EXCEPT !.freelist[i] = <<s.block>> \o @, !.placed = TRUE]

(* One turn of free's loop: a free buddy joins the block, or the block is   *)
(* placed in the list.                                                      *)
MergeAt(s, i) ==
    LET buddy == get_buddy(s.block, i)
    IN  IF s.placed THEN s
        ELSE IF buddy \in ToSet(s.freelist[i])
        THEN [s EXCEPT !.freelist[i] = RemoveFirst(@, buddy),
                       !.block = IF @ < buddy THEN @ ELSE buddy]
        ELSE [s EXCEPT !.freelist[i] = <<s.block>> \o @, !.placed = TRUE]

(* From the level in the block's header up; a whole page goes back.         *)
buddy_free(h, block) ==
    LET lv == h.level[block]
        m[i \in lv .. MAX_LEVEL] ==
            IF i = lv
            THEN [freelist |-> h.freelist, block |-> block, placed |-> FALSE]
            ELSE MergeAt(m[i - 1], i - 1)
        end == m[MAX_LEVEL]
    IN  [freelist |-> end.freelist,
         pages |-> IF end.placed THEN h.pages ELSE <<end.block>> \o h.pages,
         level |-> [h.level EXCEPT ![block] = -1]]

(* A call that nothing interrupts; the page allocator must not be empty.    *)
HasRoom(h, size) ==
    Found(h, calc_level(size + HeaderSize)).list # <<>>
buddy_alloc(h, size) ==
    LET lv == calc_level(size + HeaderSize)
        f == Found(h, lv)
    IN  Carve(WithoutPage(h, f), f, lv)
Placed(h, size) == Head(Found(h, calc_level(size + HeaderSize)).list)
-----------------------------------------------------------------------------
BuddyInit ==
    /\ heap = [freelist |-> [l \in Levels |-> <<>>],
               pages |-> [n \in 1 .. NPages |-> (NPages - n) * PageSize],
               level |-> [b \in Bytes |-> -1]]
    /\ objects = {}
    /\ look = [u \in Users |-> Nobody]
    /\ heapPanic = FALSE

Goes(u) == ~heapPanic /\ (Preemptible \/ \A v \in Users \ {u} : look[v] = Nobody)

(* alloc, up to the load of the list's head and of its next block, or to    *)
(* the page.                                                                *)
Look(u, size) ==
    LET f == Found(heap, calc_level(size + HeaderSize))
    IN  /\ Goes(u) /\ look[u] = Nobody
        /\ Cardinality(objects) + Cardinality({v \in Users : look[v] # Nobody})
               < MaxObjects
        /\ IF f.list = <<>> THEN heapPanic' = TRUE /\ UNCHANGED <<heap, look>>
           ELSE /\ look' = [look EXCEPT ![u] = [size |-> size, found |-> f]]
                /\ heap' = WithoutPage(heap, f)
                /\ UNCHANGED heapPanic
        /\ UNCHANGED objects

(* The store of the head, the split, and the header. *)
Take(u) ==
    /\ Goes(u) /\ look[u] # Nobody
    /\ heap' = Carve(heap, look[u].found, calc_level(look[u].size + HeaderSize))
    /\ objects' = objects \cup {[at |-> Head(look[u].found.list), size |-> look[u].size]}
    /\ look' = [look EXCEPT ![u] = Nobody]
    /\ UNCHANGED heapPanic

Delete(u, o) ==
    /\ Goes(u) /\ look[u] = Nobody
    /\ heap' = buddy_free(heap, o.at)
    /\ objects' = objects \ {o}
    /\ UNCHANGED <<look, heapPanic>>

BuddyNext == \E u \in Users :
    \/ \E size \in Sizes : Look(u, size)
    \/ Take(u)
    \/ \E o \in objects : Delete(u, o)
-----------------------------------------------------------------------------
InUse == {a \in Bytes : heap.level[a] # -1}
Free == UNION {{<<a, l>> : a \in ToSet(heap.freelist[l])} : l \in Levels}
Coming == {<<Head(look[u].found.list), MAX_LEVEL>> :
              u \in {v \in Users : look[v] # Nobody /\ look[v].found.from = "pages"}}
Blocks == Free \cup Coming \cup {<<a, heap.level[a]>> : a \in InUse}

(* Every byte of the pages that the heap has taken belongs to exactly one   *)
(* block, in use or in one list once; no two free buddies of a level are    *)
(* left apart, so that an empty page always goes back; and every object     *)
(* fits in its block behind the header.                                     *)
BlocksOwned ==
    /\ \A x \in Bytes :
         Cardinality({b \in Blocks : x \in b[1] .. b[1] + 2 ^ b[2] - 1})
             = IF PageSize * (x \div PageSize) \in ToSet(heap.pages) THEN 0 ELSE 1
    /\ \A l \in Levels : IsInjective(heap.freelist[l])
    /\ IsInjective(heap.pages)
    /\ \A l \in 0 .. MAX_LEVEL - 1 : \A a \in ToSet(heap.freelist[l]) :
         get_buddy(a, l) \notin ToSet(heap.freelist[l])
    /\ heap.freelist[MAX_LEVEL] = <<>>
    /\ \A o \in objects : o.at \in InUse /\ o.size + HeaderSize <= 2 ^ heap.level[o.at]
=============================================================================
