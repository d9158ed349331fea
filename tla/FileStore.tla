----------------------------- MODULE FileStore -----------------------------
(***************************************************************************)
(* What the file system promises: files that are sequences of blocks, each *)
(* of which changes only by a write to it.  A new block holds None.        *)
(***************************************************************************)
EXTENDS Naturals, Sequences

CONSTANTS Clients, Files, Values, None

VARIABLES
    content,   \* the blocks of each file, or None
    pending    \* the write each client has under way, or None

storeVars == <<content, pending>>

StoreInit ==
    /\ content = [f \in Files |-> None]
    /\ pending = [c \in Clients |-> None]

Make(f) ==
    /\ content[f] = None
    /\ content' = [content EXCEPT ![f] = <<None>>]
    /\ UNCHANGED pending

Remove(f) ==
    /\ content[f] # None
    /\ content' = [content EXCEPT ![f] = None]
    /\ UNCHANGED pending

Ask(c, f, k) ==
    /\ pending[c] = None /\ content[f] # None
    /\ k <= Len(content[f])
    /\ pending' = [pending EXCEPT ![c] = [file |-> f, at |-> k]]
    /\ UNCHANGED content

\* A block is added for a write after the last one.
Extend(c) ==
    /\ pending[c] # None
    /\ LET w == pending[c]
       IN /\ content[w.file] # None /\ w.at = Len(content[w.file])
          /\ content' = [content EXCEPT ![w.file] = Append(@, None)]
    /\ UNCHANGED pending

Put(c, v) ==
    /\ pending[c] # None
    /\ LET w == pending[c]
       IN /\ content[w.file] # None /\ w.at < Len(content[w.file])
          /\ content' = [content EXCEPT ![w.file][w.at + 1] = v]
    /\ pending' = [pending EXCEPT ![c] = None]

StoreNext ==
    \/ /\ pending' = pending /\ content' # content
       /\ \/ \E f \in Files : Make(f) \/ Remove(f)
          \/ \E c \in Clients : Extend(c)
    \/ /\ pending' # pending
       /\ \E c \in Clients :
             \/ \E v \in Values : Put(c, v)
             \/ \E f \in Files :
                   /\ content[f] # None
                   /\ \E k \in 0 .. Len(content[f]) : Ask(c, f, k)

StoreSpec == StoreInit /\ [][StoreNext]_storeVars
=============================================================================
