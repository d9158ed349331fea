----------------------------- MODULE BlockStore -----------------------------
(***************************************************************************)
(* What the disk driver and the buffer cache promise their users: blocks   *)
(* that hold the value last written to them.                               *)
(***************************************************************************)
CONSTANTS
    Clients, Blocks, Values, None,
    MayFail      \* calls may return without having had their effect

VARIABLES
    store,     \* the value of each block
    asked,     \* what each client asks for, or None
    got        \* the value its call has read or written, or None

Requests == [op : {"read"}, blk : Blocks]
                \cup [op : {"write"}, blk : Blocks, val : Values]

storeVars == <<store, asked, got>>

StoreInit ==
    /\ store \in [Blocks -> Values]
    /\ asked = [c \in Clients |-> None]
    /\ got = [c \in Clients |-> None]

Ask(c) ==
    /\ asked[c] = None
    /\ \E r \in Requests : asked' = [asked EXCEPT ![c] = r]
    /\ UNCHANGED <<store, got>>

\* A call takes effect at one moment: a read gets the value of its block, ...
Get(c) ==
    /\ asked[c] # None /\ asked[c].op = "read" /\ got[c] = None
    /\ got' = [got EXCEPT ![c] = store[asked[c].blk]]
    /\ UNCHANGED <<store, asked>>

\* ... a write stores its own.  Nothing else changes a block.
Put(c) ==
    /\ asked[c] # None /\ asked[c].op = "write" /\ got[c] = None
    /\ store' = [store EXCEPT ![asked[c].blk] = asked[c].val]
    /\ got' = [got EXCEPT ![c] = asked[c].val]
    /\ UNCHANGED asked

Return(c) ==
    /\ asked[c] # None
    /\ MayFail \/ got[c] # None
    /\ asked' = [asked EXCEPT ![c] = None]
    /\ got' = [got EXCEPT ![c] = None]
    /\ UNCHANGED store

StoreNext == \E c \in Clients : Ask(c) \/ Get(c) \/ Put(c) \/ Return(c)

StoreSpec == StoreInit /\ [][StoreNext]_storeVars
=============================================================================
