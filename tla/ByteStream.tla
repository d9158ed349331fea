----------------------------- MODULE ByteStream -----------------------------
(***************************************************************************)
(* What a pipe promises its users: a bounded queue of bytes with two ends. *)
(***************************************************************************)
EXTENDS Naturals, Sequences

CONSTANTS Clients, Messages, Capacity

VARIABLES
    pending,   \* what each client still has to write
    queue,     \* the bytes written and not yet read
    got,       \* what the last read returned
    rd, wr     \* whether each end is open

streamVars == <<pending, queue, got, rd, wr>>

StreamInit ==
    /\ pending = [c \in Clients |-> <<>>]
    /\ queue = <<>> /\ got = <<>>
    /\ rd = TRUE /\ wr = TRUE

\* A client calls write.
Offer(c) ==
    /\ wr /\ pending[c] = <<>>
    /\ \E s \in Messages : pending' = [pending EXCEPT ![c] = s]
    /\ UNCHANGED <<queue, got, rd, wr>>

\* Its first k bytes enter while the write end is open, never more than fit;
\* the others follow later, or never if the call ends early.
Put(c, k) ==
    /\ wr
    /\ k <= Len(pending[c]) /\ Len(queue) + k <= Capacity
    /\ queue' = queue \o SubSeq(pending[c], 1, k)
    /\ \E rest \in {<<>>, SubSeq(pending[c], k + 1, Len(pending[c]))} :
           pending' = [pending EXCEPT ![c] = rest]
    /\ UNCHANGED <<got, rd, wr>>

\* The first k bytes leave in the order they came; a reader whose memory
\* cannot be written loses one more.  Either end may be read from.
Get(k, lost) ==
    /\ k + lost <= Len(queue)
    /\ got' = SubSeq(queue, 1, k)
    /\ queue' = SubSeq(queue, k + lost + 1, Len(queue))
    /\ UNCHANGED <<pending, rd, wr>>

ShutRead  == rd /\ rd' = FALSE /\ UNCHANGED <<pending, queue, got, wr>>
ShutWrite == wr /\ wr' = FALSE /\ UNCHANGED <<pending, queue, got, rd>>

StreamNext ==
    \/ \E c \in Clients : Offer(c) \/ \E k \in 0 .. Capacity : Put(c, k)
    \/ \E k \in 0 .. Capacity, lost \in {0, 1} : Get(k, lost)
    \/ ShutRead
    \/ ShutWrite

StreamSpec == StreamInit /\ [][StreamNext]_streamVars
=============================================================================
