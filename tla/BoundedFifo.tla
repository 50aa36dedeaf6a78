----------------------------- MODULE BoundedFifo -----------------------------
(***************************************************************************)
(* Queues that keep their newest MaxSize entries, one for each owner: what *)
(* the state adapter of the chat bridge promises to the SDK.               *)
(***************************************************************************)
EXTENDS Naturals, Sequences

CONSTANTS Owners, Entries, MaxSize

VARIABLE queues

Newest(s) == IF Len(s) <= MaxSize THEN s ELSE SubSeq(s, Len(s) - MaxSize + 1, Len(s))

Put(o) == \E e \in Entries : queues' = [queues EXCEPT ![o] = Newest(Append(@, e))]

Take(o) == queues[o] # <<>> /\ queues' = [queues EXCEPT ![o] = Tail(@)]

FifoInit == queues = [o \in Owners |-> <<>>]

FifoNext == \E o \in Owners : Put(o) \/ Take(o)

FifoSpec == FifoInit /\ [][FifoNext]_queues
=============================================================================
