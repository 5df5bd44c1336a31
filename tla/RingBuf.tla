------------------------------- MODULE RingBuf -------------------------------
(***************************************************************************)
(* firmware/player/ringbuf.c: the lock-free single-producer                *)
(* single-consumer byte ring both cores use.  The producer owns wr, the    *)
(* consumer owns rd; both are free-running counters that wrap modulo the   *)
(* width of size_t and are reduced to a slot only when a byte is touched.  *)
(* Each call is split where the other side can run: the counters are read  *)
(* once, the bytes are copied one at a time, and the own counter is        *)
(* published last, behind the barrier.                                     *)
(***************************************************************************)
EXTENDS Integers, Sequences

CONSTANTS
    Capacity,   \* ring size in bytes, a power of two in the code
    Modulus,    \* 2^width of size_t, the modulus of the counters
    MaxLen,     \* longest rb_write/rb_read/rb_skip request
    Values      \* the byte values told apart

(* rb_init accepts only powers of two, and a ring is smaller than the      *)
(* address space, so the size divides the modulus of the counters.         *)
ASSUME RingAssumption ==
    /\ Capacity \in Nat \ {0}
    /\ Modulus \in Nat
    /\ \E k \in 2 .. Modulus : Modulus = k * Capacity
    /\ MaxLen \in Nat \ {0}

VARIABLES
    wr, rd,     \* the shared counters
    data,       \* the storage, slot -> byte
    src,        \* bytes of the rb_write in progress, << >> when there is none
    wdone,      \* how many of them are in the ring already
    rlen,       \* length of the rb_read in progress, 0 when there is none
    dst,        \* bytes it has copied out so far
    got         \* bytes the last finished rb_read returned

vars == <<wr, rd, data, src, wdone, rlen, dst, got>>

-----------------------------------------------------------------------------
(* Counter arithmetic modulo the width, on values already reduced.         *)

Plus(a, b) == IF a + b >= Modulus THEN a + b - Modulus ELSE a + b

Minus(a, b) == IF a >= b THEN a - b ELSE a - b + Modulus

Used == Minus(wr, rd)

(* Mutant: one byte too many.                                              *)
FreePlusOne == Capacity - Used + 1

Free == Capacity - Used

Least(a, b) == IF a < b THEN a ELSE b

Slot(c) == c % Capacity

-----------------------------------------------------------------------------
Init ==
    /\ wr = 0 /\ rd = 0
    /\ data \in [0 .. Capacity - 1 -> Values]
    /\ src = << >> /\ wdone = 0
    /\ rlen = 0 /\ dst = << >> /\ got = << >>

(* Mutant: the request is clamped to the size of the ring.                 *)
WriteBeginUnclamped(s) ==
    /\ src = << >>
    /\ Free > 0
    /\ src' = SubSeq(s, 1, Least(Len(s), Capacity))
    /\ wdone' = 0
    /\ UNCHANGED <<wr, rd, data, rlen, dst, got>>

(* rb_write: clamp the request to the free space seen now.                 *)
WriteBegin(s) ==
    /\ src = << >>
    /\ Free > 0
    /\ src' = SubSeq(s, 1, Least(Len(s), Free))
    /\ wdone' = 0
    /\ UNCHANGED <<wr, rd, data, rlen, dst, got>>

WriteByte ==
    /\ wdone < Len(src)
    /\ data' = [data EXCEPT ![Slot(Plus(wr, wdone))] = src[wdone + 1]]
    /\ wdone' = wdone + 1
    /\ UNCHANGED <<wr, rd, src, rlen, dst, got>>

(* Mutant: the counter is published before the bytes are in.               *)
WritePublishEarly ==
    /\ src # << >>
    /\ wr' = Plus(wr, Len(src))
    /\ src' = << >>
    /\ wdone' = 0
    /\ UNCHANGED <<rd, data, rlen, dst, got>>

WritePublish ==
    /\ src # << >>
    /\ wdone = Len(src)
    /\ wr' = Plus(wr, Len(src))
    /\ src' = << >>
    /\ wdone' = 0
    /\ UNCHANGED <<rd, data, rlen, dst, got>>

(* rb_read: clamp the request to what is published now.                    *)
ReadBegin(n) ==
    /\ rlen = 0
    /\ Used > 0
    /\ rlen' = Least(n, Used)
    /\ dst' = << >>
    /\ UNCHANGED <<wr, rd, data, src, wdone, got>>

ReadByte ==
    /\ Len(dst) < rlen
    /\ dst' = Append(dst, data[Slot(Plus(rd, Len(dst)))])
    /\ UNCHANGED <<wr, rd, data, src, wdone, rlen, got>>

ReadPublish ==
    /\ rlen > 0
    /\ Len(dst) = rlen
    /\ rd' = Plus(rd, rlen)
    /\ got' = dst
    /\ rlen' = 0
    /\ dst' = << >>
    /\ UNCHANGED <<wr, data, src, wdone>>

(* rb_skip: the consumer discards without copying.                         *)
Skip(n) ==
    /\ rlen = 0
    /\ Used > 0
    /\ rd' = Plus(rd, Least(n, Used))
    /\ UNCHANGED <<wr, data, src, wdone, rlen, dst, got>>

(* rb_reset: only legal while neither side is inside a call (ringbuf.h).   *)
Reset ==
    /\ src = << >> /\ rlen = 0
    /\ wr' = 0 /\ rd' = 0
    /\ UNCHANGED <<data, src, wdone, rlen, dst, got>>

Producer ==
    \/ \E k \in 1 .. MaxLen : \E s \in [1 .. k -> Values] : WriteBegin(s)
    \/ WriteByte
    \/ WritePublish

Consumer ==
    \/ \E n \in 1 .. MaxLen : ReadBegin(n) \/ Skip(n)
    \/ ReadByte
    \/ ReadPublish

Next == Producer \/ Consumer \/ Reset

Spec == Init /\ [][Next]_vars

-----------------------------------------------------------------------------
(* Type invariant of the ring.                                             *)
TypeOK ==
    /\ wr \in 0 .. Modulus - 1 /\ rd \in 0 .. Modulus - 1
    /\ data \in [0 .. Capacity - 1 -> Values]
    /\ src \in Seq(Values) /\ wdone \in 0 .. Len(src)
    /\ rlen \in Nat /\ dst \in Seq(Values) /\ Len(dst) <= rlen
    /\ got \in Seq(Values)

(* The ring never holds more than its size, and neither call in progress   *)
(* relies on room or bytes that are not there, however the counters have   *)
(* wrapped and however far the other side has moved since they were read.  *)
Occupancy ==
    /\ Used <= Capacity
    /\ Len(src) <= Free
    /\ rlen <= Used

(* The slots an unfinished rb_write fills and the slots an unfinished      *)
(* rb_read copies are different: neither side ever touches a byte the      *)
(* other is working on.                                                    *)
NoSlotRace ==
    \A i \in 0 .. Len(src) - 1, j \in 0 .. rlen - 1 :
        Slot(Plus(wr, i)) # Slot(Plus(rd, j))

(* The published bytes, oldest first.                                      *)
Window(bytes, from, n) == [k \in 1 .. n |-> bytes[Slot(Plus(from, k - 1))]]

Queued == Window(data, rd, Used)

Fifo == INSTANCE ByteFifo WITH offered <- src, q <- Queued, got <- got

(* The ring implements the bounded queue of ringbuf.h: every call appends  *)
(* its own bytes, takes or drops the oldest at one instant, losing none.   *)
FifoSpec == Fifo!Spec
=============================================================================
