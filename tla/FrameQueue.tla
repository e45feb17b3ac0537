----------------------------- MODULE FrameQueue -----------------------------
(***************************************************************************)
(* What the frame ring promises, with no shared memory in sight: every     *)
(* ring object is a bounded FIFO.  A frame offered to it is either         *)
(* appended whole or dropped, the head is either taken or skipped, and     *)
(* nothing else ever leaves or enters a queue.  FrameRing implements this  *)
(* specification (its property ImplementsFifo).                            *)
(***************************************************************************)
EXTENDS Naturals, Sequences

CONSTANTS Objects,   \* the ring objects ever created, one per inode
          Capacity   \* slots of a ring

VARIABLES queue,     \* queue[o]: frames published in object o and not consumed
          offered,   \* the number of frames producers have offered so far
          taken      \* the last frame handed to the consumer, 0 before any

fqVars == <<queue, offered, taken>>

QInit ==
    /\ queue = [o \in Objects |-> <<>>]
    /\ offered = 0
    /\ taken = 0

\* A producer starts on its next frame; the frame may still be dropped.
Offer ==
    /\ offered' = offered + 1
    /\ UNCHANGED <<queue, taken>>

\* An offered frame joins the queue of one object, whole, if there is room.
Put(o, f) ==
    /\ f \in 1..offered
    /\ \A p \in Objects : f \notin {queue[p][i] : i \in 1..Len(queue[p])}
    /\ Len(queue[o]) < Capacity
    /\ queue' = [queue EXCEPT ![o] = Append(@, f)]
    /\ UNCHANGED <<offered, taken>>

\* The oldest frame of an object leaves it: handed over, or skipped as corrupt.
Take(o) ==
    /\ queue[o] # <<>>
    /\ queue' = [queue EXCEPT ![o] = Tail(@)]
    /\ taken' \in {Head(queue[o]), taken}
    /\ UNCHANGED offered

QNext ==
    \/ Offer
    \/ \E o \in Objects : Take(o) \/ \E f \in 1..offered : Put(o, f)

QSpec == QInit /\ [][QNext]_fqVars

=============================================================================
