------------------------------ MODULE ByteFifo ------------------------------
(***************************************************************************)
(* What firmware/player/ringbuf.h promises: a bounded queue of bytes with  *)
(* one producer and one consumer.  The producer offers as much of a chunk  *)
(* as there is room for and Put appends it at once, Get hands the oldest   *)
(* bytes to the consumer, Drop discards them, Clear empties the queue.     *)
(* RingBuf.tla implements it with two free-running counters and no lock.   *)
(***************************************************************************)
EXTENDS Integers, Sequences

CONSTANTS
    Capacity,   \* bytes the queue can hold
    Values      \* the byte values told apart

VARIABLES
    offered,    \* the chunk the producer is about to append
    q,          \* the queued bytes, oldest first
    got         \* what the last Get handed out

fifoVars == <<offered, q, got>>

Init == offered = << >> /\ q = << >> /\ got = << >>

Offer ==
    /\ offered = << >> /\ offered' # << >>
    /\ offered' \in Seq(Values) /\ Len(q) + Len(offered') <= Capacity
    /\ UNCHANGED <<q, got>>

Put ==
    /\ offered # << >>
    /\ q' = q \o offered
    /\ offered' = << >>
    /\ UNCHANGED got

Get(n) ==
    /\ got' = SubSeq(q, 1, n)
    /\ q' = SubSeq(q, n + 1, Len(q))
    /\ UNCHANGED offered

Drop(n) ==
    /\ q' = SubSeq(q, n + 1, Len(q))
    /\ UNCHANGED <<offered, got>>

Clear == offered = << >> /\ q' = << >> /\ UNCHANGED <<offered, got>>

Next ==
    \/ Offer
    \/ Put
    \/ \E n \in 1 .. Len(q) : Get(n) \/ Drop(n)
    \/ Clear

Spec == Init /\ [][Next]_fifoVars
=============================================================================
