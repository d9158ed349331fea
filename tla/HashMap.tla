------------------------------- MODULE HashMap -------------------------------
(***************************************************************************)
(* std::map of src/sstl/map.hpp, as the FAT file system uses it for its    *)
(* inode cache: a table of chains whose nodes are made with new, so in the *)
(* heap of Buddy.  put and poll run under the map's spin lock; poll also   *)
(* makes a node that nobody deletes.                                       *)
(***************************************************************************)
EXTENDS Buddy

CONSTANTS Keys, Vals,
          Order,      \* bits_: the table has 2^Order chains
          Hash,       \* hash_64(key, bits_ - 1) of each key
          NodeSize,
          MaxLeak     \* nodes left behind by poll (bound)

Buckets == 0 .. 2 ^ Order - 1

ASSUME MapAssumption ==
    /\ Order \in Nat \ {0} /\ MaxLeak \in Nat
    /\ Hash \in [Keys -> 0 .. 2 ^ (Order - 1) - 1]
    /\ NodeSize \in Nat /\ NodeSize + HeaderSize <= PageSize
    /\ Nobody \notin Vals

VARIABLES hashtable,   \* the chains: nodes with their address, key and value
          kept,        \* what the callers have put and not polled
          leaked       \* the nodes that nobody points to

mapVars == <<buddyVars, hashtable, kept, leaked>>

MapInit ==
    /\ BuddyInit
    /\ hashtable = [b \in Buckets |-> <<>>]
    /\ kept = [k \in Keys |-> Nobody]
    /\ leaked = {}

Chain(k) == hashtable[Hash[k]]

(* The first node of the chain with the key; without one the last node.     *)
Reached(k) ==
    LET same == {i \in DOMAIN Chain(k) : Chain(k)[i].key = k}
    IN  IF same = {} THEN Len(Chain(k)) ELSE CHOOSE i \in same : \A j \in same : i <= j

get(k) ==
    IF \E i \in DOMAIN Chain(k) : Chain(k)[i].key = k
    THEN Chain(k)[Reached(k)].val ELSE Nobody

NoRoom(u) ==
    /\ Goes(u) /\ look[u] = Nobody /\ ~HasRoom(heap, NodeSize)
    /\ heapPanic' = TRUE
    /\ UNCHANGED <<heap, objects, look, hashtable, kept, leaked>>

(* GetInode puts a key that get has not found. *)
put(u, k, v) ==
    /\ Goes(u) /\ look[u] = Nobody /\ get(k) = Nobody
    /\ HasRoom(heap, NodeSize)
    /\ heap' = buddy_alloc(heap, NodeSize)
    /\ hashtable' = [hashtable EXCEPT ![Hash[k]] =
           <<[at |-> Placed(heap, NodeSize), key |-> k, val |-> v]>> \o @]
    /\ kept' = [kept EXCEPT ![k] = v]
    /\ UNCHANGED <<objects, look, heapPanic, leaked>>

(* Mutant: the head of the chain is not replaced when it is the node. *)
Unlinked_Head(chain, i) == IF i = 1 THEN chain ELSE RemoveAt(chain, i)

Unlinked(chain, i) == RemoveAt(chain, i)

(* FreeInode polls the key of an inode in the cache. *)
poll(u, k) ==
    LET i == Reached(k)
    IN  /\ Goes(u) /\ look[u] = Nobody /\ kept[k] # Nobody
        /\ HasRoom(heap, NodeSize) /\ Cardinality(leaked) < MaxLeak
        /\ leaked' = leaked \cup {Placed(heap, NodeSize)}
        /\ heap' = buddy_free(buddy_alloc(heap, NodeSize), Chain(k)[i].at)
        /\ hashtable' = [hashtable EXCEPT ![Hash[k]] = Unlinked(@, i)]
        /\ kept' = [kept EXCEPT ![k] = Nobody]
        /\ UNCHANGED <<objects, look, heapPanic>>

MapNext ==
    \/ BuddyNext /\ UNCHANGED <<hashtable, kept, leaked>>
    \/ \E u \in Users, k \in Keys :
         \/ \E v \in Vals : put(u, k, v)
         \/ poll(u, k)
    \/ \E u \in Users : NoRoom(u)

MapSpec == MapInit /\ [][MapNext]_mapVars
-----------------------------------------------------------------------------
(* The iterator: the first node of the first chain that has one, *)
FirstIn(from) ==
    LET full == {b \in Buckets : b >= from /\ hashtable[b] # <<>>}
    IN  IF full = {} THEN Nobody
        ELSE <<CHOOSE b \in full : \A c \in full : b <= c, 1>>
begin == FirstIn(0)

(* and after a node its neighbour, or the next chain after its key's. *)
increment(pos) ==
    LET chain == hashtable[pos[1]]
    IN  IF pos[2] < Len(chain) THEN <<pos[1], pos[2] + 1>>
        ELSE FirstIn(Hash[chain[pos[2]].key] + 1)

Nodes == UNION {{<<b, i>> : i \in DOMAIN hashtable[b]} : b \in Buckets}

Visited ==
    LET w[n \in 0 .. Cardinality(Nodes)] ==
            IF n = 0 THEN begin ELSE increment(w[n - 1])
    IN  [n \in 1 .. Cardinality(Nodes) |-> w[n - 1]]

(* The map answers with what was put and not polled since, its iterator     *)
(* meets every node once, and every node, every leaked node and every       *)
(* object has a block of the heap to itself.                                *)
MapHolds ==
    /\ \A k \in Keys : get(k) = kept[k]
    /\ ToSet(Visited) = Nodes
    /\ InUse = {hashtable[x[1]][x[2]].at : x \in Nodes} \cup leaked
                   \cup {o.at : o \in objects}
    /\ Cardinality(InUse) = Cardinality(Nodes) + Cardinality(leaked) + Cardinality(objects)
=============================================================================
