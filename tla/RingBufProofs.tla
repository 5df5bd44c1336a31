--------------------------- MODULE RingBufProofs ---------------------------
(***************************************************************************)
(* What holds of firmware/player/ringbuf.c for every ring size, every      *)
(* counter width and every byte alphabet: RingBuf.tla's type invariant,    *)
(* its occupancy bound, the disjointness of the two sides' slots, and that *)
(* the two counters implement the queue of ByteFifo.tla.                   *)
(***************************************************************************)
EXTENDS RingBuf, SequenceTheorems, TLAPS

(* Occupancy is inductive only together with the types: the bounds on the  *)
(* counters are what makes one conditional subtraction a reduction modulo  *)
(* the width.                                                              *)
IInv == TypeOK /\ Occupancy

(* A free-running counter wraps only after more than a ring of bytes.      *)
LEMMA WidthExceedsRing == Modulus > Capacity
<1>1. PICK k \in 2 .. Modulus : Modulus = k * Capacity
  BY RingAssumption
<1>2. k * Capacity >= 2 * Capacity
  BY <1>1, RingAssumption
<1> QED BY <1>1, <1>2, RingAssumption

(* Adding to a counter stays in the counter's range and is undone by       *)
(* taking the difference.                                                  *)
LEMMA PlusMinus ==
    ASSUME NEW a \in 0 .. Modulus - 1, NEW n \in 0 .. Capacity
    PROVE  /\ Plus(a, n) \in 0 .. Modulus - 1
           /\ Minus(Plus(a, n), a) = n
BY WidthExceedsRing, RingAssumption DEF Plus, Minus

(* A slot is a slot: a counter is reduced to an index of the storage.      *)
LEMMA SlotType ==
    ASSUME NEW c \in Nat
    PROVE  Slot(c) \in 0 .. Capacity - 1
BY RingAssumption DEF Slot

(* The room left after using or freeing part of the ring.                  *)
LEMMA UsedAfterWrite ==
    ASSUME wr \in 0 .. Modulus - 1, rd \in 0 .. Modulus - 1,
           NEW n \in Nat, Used + n <= Capacity
    PROVE  Minus(Plus(wr, n), rd) = Used + n
BY WidthExceedsRing, RingAssumption DEF Plus, Minus, Used

LEMMA UsedAfterRead ==
    ASSUME wr \in 0 .. Modulus - 1, rd \in 0 .. Modulus - 1,
           NEW n \in Nat, n <= Used
    PROVE  Minus(wr, Plus(rd, n)) = Used - n
BY RingAssumption DEF Plus, Minus, Used

-----------------------------------------------------------------------------
LEMMA InitIInv == Init => IInv
BY RingAssumption DEF Init, IInv, TypeOK, Occupancy, Used, Free, Minus

(* Every step of either side keeps the types and the occupancy.            *)
LEMMA NextIInv == IInv /\ [Next]_vars => IInv'
<1> SUFFICES ASSUME IInv, [Next]_vars PROVE IInv'
  OBVIOUS
<1> USE RingAssumption
<1>0. Used \in 0 .. Capacity /\ Free \in 0 .. Capacity
  BY DEF IInv, TypeOK, Occupancy, Used, Free, Minus
<1>a. wr \in 0 .. Modulus - 1 /\ rd \in 0 .. Modulus - 1
  BY DEF IInv, TypeOK
<1>b. Len(src) \in 0 .. Capacity /\ rlen \in 0 .. Capacity
  BY <1>0 DEF IInv, TypeOK, Occupancy
<1>1. ASSUME NEW k \in 1 .. MaxLen, NEW s \in [1 .. k -> Values], WriteBegin(s)
      PROVE  IInv'
  <2>1. s \in Seq(Values) /\ Len(s) = k
    BY <1>1
  <2>2. Least(Len(s), Free) \in 0 .. Free /\ Least(Len(s), Free) <= Len(s)
    BY <1>0, <2>1 DEF Least
  <2>3. src' \in Seq(Values) /\ Len(src') = Least(Len(s), Free)
    BY <1>1, <2>1, <2>2 DEF WriteBegin
  <2>4. Free' = Free /\ Used' = Used
    BY <1>1 DEF WriteBegin, Free, Used
  <2>5. TypeOK'
    BY <1>1, <2>3, <2>2 DEF WriteBegin, IInv, TypeOK
  <2>6. Occupancy'
    BY <1>1, <2>2, <2>3, <2>4 DEF WriteBegin, IInv, Occupancy
  <2> QED BY <2>5, <2>6 DEF IInv
<1>2. CASE WriteByte
  <2>1. src[wdone + 1] \in Values
    BY <1>2 DEF WriteByte, IInv, TypeOK
  <2>2. data' \in [0 .. Capacity - 1 -> Values]
    <3>1. data \in [0 .. Capacity - 1 -> Values]
      BY DEF IInv, TypeOK
    <3> QED BY ONLY <1>2, <2>1, <3>1 DEF WriteByte
  <2>3. wdone' \in 0 .. Len(src)
    BY <1>2 DEF WriteByte, IInv, TypeOK
  <2>4. TypeOK'
    BY <1>2, <2>2, <2>3 DEF WriteByte, IInv, TypeOK
  <2>5. Occupancy'
    BY <1>2 DEF WriteByte, IInv, Occupancy, Used, Free
  <2> QED BY <2>4, <2>5 DEF IInv
<1>3. CASE WritePublish
  <2>1. Used' = Used + Len(src)
    BY <1>0, <1>3, UsedAfterWrite DEF WritePublish, IInv, TypeOK, Occupancy, Used, Free
  <2>2. wr' \in 0 .. Modulus - 1
    <3>1. Plus(wr, Len(src)) \in 0 .. Modulus - 1
      BY ONLY <1>a, <1>b, PlusMinus
    <3> QED BY <1>3, <3>1 DEF WritePublish
  <2>3. TypeOK'
    BY <1>3, <2>2 DEF WritePublish, IInv, TypeOK
  <2>4. Occupancy'
    BY <1>0, <1>3, <2>1 DEF WritePublish, IInv, TypeOK, Occupancy, Free
  <2> QED BY <2>3, <2>4 DEF IInv
<1>4. ASSUME NEW n \in 1 .. MaxLen, ReadBegin(n)
      PROVE  IInv'
  <2>1. Least(n, Used) \in 0 .. Used
    BY <1>0 DEF Least
  <2>2. TypeOK'
    BY <1>4, <1>0, <2>1 DEF ReadBegin, IInv, TypeOK
  <2>3. Occupancy'
    BY <1>4, <2>1 DEF ReadBegin, IInv, Occupancy, Used, Free
  <2> QED BY <2>2, <2>3 DEF IInv
<1>5. CASE ReadByte
  <2>1. Len(dst) \in 0 .. Capacity
    BY <1>0, <1>5 DEF ReadByte, IInv, TypeOK, Occupancy
  <2>2. Slot(Plus(rd, Len(dst))) \in 0 .. Capacity - 1
    <3>1. Plus(rd, Len(dst)) \in 0 .. Modulus - 1
      BY ONLY <1>a, <2>1, PlusMinus
    <3>2. Plus(rd, Len(dst)) \in Nat
      BY <3>1
    <3> QED BY ONLY <3>2, SlotType
  <2>3. data[Slot(Plus(rd, Len(dst)))] \in Values
    BY <2>2 DEF IInv, TypeOK
  <2>4. TypeOK'
    BY <1>5, <2>3 DEF ReadByte, IInv, TypeOK
  <2>5. Occupancy'
    BY <1>5 DEF ReadByte, IInv, Occupancy, Used, Free
  <2> QED BY <2>4, <2>5 DEF IInv
<1>6. CASE ReadPublish
  <2>1. Used' = Used - rlen
    BY <1>0, <1>6, UsedAfterRead DEF ReadPublish, IInv, TypeOK, Occupancy, Used
  <2>2. rd' \in 0 .. Modulus - 1
    <3>1. Plus(rd, rlen) \in 0 .. Modulus - 1
      BY ONLY <1>a, <1>b, PlusMinus
    <3> QED BY <1>6, <3>1 DEF ReadPublish
  <2>3. TypeOK'
    BY <1>6, <2>2 DEF ReadPublish, IInv, TypeOK
  <2>4. Occupancy'
    BY <1>0, <1>6, <2>1 DEF ReadPublish, IInv, TypeOK, Occupancy, Free
  <2> QED BY <2>3, <2>4 DEF IInv
<1>7. ASSUME NEW n \in 1 .. MaxLen, Skip(n)
      PROVE  IInv'
  <2>1. Least(n, Used) \in 0 .. Used
    BY <1>0 DEF Least
  <2>2. Used' = Used - Least(n, Used)
    BY <1>0, <1>7, <2>1, UsedAfterRead DEF Skip, IInv, TypeOK, Used
  <2>3. rd' \in 0 .. Modulus - 1
    <3>1. Least(n, Used) \in 0 .. Capacity
      BY <1>0, <2>1
    <3>2. Plus(rd, Least(n, Used)) \in 0 .. Modulus - 1
      BY ONLY <1>a, <3>1, PlusMinus
    <3> QED BY <1>7, <3>2 DEF Skip
  <2>4. TypeOK'
    BY <1>7, <2>3 DEF Skip, IInv, TypeOK
  <2>5. Occupancy'
    BY <1>0, <1>7, <2>1, <2>2 DEF Skip, IInv, TypeOK, Occupancy, Free
  <2> QED BY <2>4, <2>5 DEF IInv
<1>8. CASE Reset
  BY <1>8 DEF Reset, IInv, TypeOK, Occupancy, Used, Free, Minus
<1>9. CASE UNCHANGED vars
  BY <1>9 DEF vars, IInv, TypeOK, Occupancy, Used, Free
<1> QED
  BY <1>1, <1>2, <1>3, <1>4, <1>5, <1>6, <1>7, <1>8, <1>9
  DEF Next, Producer, Consumer

(* The inductive invariant holds throughout.                               *)
LEMMA Invariance == Spec => []IInv
BY InitIInv, NextIInv, PTL DEF Spec

(* Whatever its size and the width of its counters, the ring's variables   *)
(* keep their types: in particular neither call ever indexes outside the   *)
(* storage or the source buffer (rb_write, rb_read).                       *)
THEOREM TypeCorrect == Spec => []TypeOK
BY Invariance, PTL DEF IInv

(* Whatever its size and the width of its counters, the ring holds at most *)
(* its size and the room or the bytes a call in progress relies on stay    *)
(* there until it publishes (rb_used, rb_free, rb_write, rb_read).         *)
THEOREM OccupancyHolds == Spec => []Occupancy
BY Invariance, PTL DEF IInv

-----------------------------------------------------------------------------
(* Two numbers less than a ring apart, and not equal, have different slots. *)
LEMMA SlotsApart ==
    ASSUME NEW a \in Nat, NEW d \in 1 .. Capacity - 1
    PROVE  Slot(a + d) # Slot(a)
<1> USE RingAssumption
<1>1. SUFFICES ASSUME Slot(a + d) = Slot(a) PROVE FALSE
  OBVIOUS
<1> DEFINE p == (a + d) \div Capacity
           q == a \div Capacity
<1>2. p \in Int /\ q \in Int
  OBVIOUS
<1>3. a + d = Capacity * p + Slot(a + d) /\ a = Capacity * q + Slot(a)
  BY DEF Slot
<1>4. Slot(a) \in Int /\ Slot(a + d) \in Int
  BY SlotType
<1> HIDE DEF p, q
<1>5. d = Capacity * (p - q)
  BY <1>1, <1>2, <1>3, <1>4
<1>6. p - q >= 1
  BY <1>2, <1>5
<1>7. Capacity * (p - q) >= Capacity
  BY <1>2, <1>6
<1> QED BY <1>5, <1>7

(* Wrapping a counter does not move its slot: the ring size divides the    *)
(* width of the counters.                                                  *)
LEMMA SlotWraps ==
    ASSUME NEW c \in Nat, c >= Modulus
    PROVE  Slot(c - Modulus) = Slot(c)
<1> USE RingAssumption
<1>1. PICK k \in 2 .. Modulus : Modulus = k * Capacity
  OBVIOUS
<1> DEFINE e == c - Modulus
           p == e \div Capacity
<1>2. e \in Nat /\ p \in Int /\ Slot(e) \in 0 .. Capacity - 1
  BY SlotType
<1>3. e = Capacity * p + Slot(e)
  BY DEF Slot
<1>4. c = e + k * Capacity
  BY <1>1
<1> HIDE DEF e, p
<1>5. c = Capacity * (p + k) + Slot(e)
  BY <1>2, <1>3, <1>4
<1>6. (Capacity * (p + k) + Slot(e)) % Capacity = Slot(e)
  BY <1>2
<1> QED BY <1>5, <1>6 DEF Slot, e

LEMMA SlotPlus ==
    ASSUME NEW c \in 0 .. Modulus - 1, NEW n \in 0 .. Capacity
    PROVE  Slot(Plus(c, n)) = Slot(c + n)
BY SlotWraps, RingAssumption DEF Plus

(* The slot of the n-th byte after the published ones, seen from rd.       *)
LEMMA SlotFromRd ==
    ASSUME wr \in 0 .. Modulus - 1, rd \in 0 .. Modulus - 1, Used <= Capacity,
           NEW n \in 0 .. Capacity
    PROVE  Slot(Plus(wr, n)) = Slot(rd + (Used + n))
<1>1. Slot(Plus(wr, n)) = Slot(wr + n)
  BY SlotPlus
<1>2. Used \in 0 .. Capacity
  BY RingAssumption DEF Used, Minus
<1>3. CASE wr >= rd
  <2>1. rd + (Used + n) = wr + n
    BY <1>3, RingAssumption DEF Used, Minus
  <2> QED BY <1>1, <2>1
<1>4. CASE wr < rd
  <2>1. rd + (Used + n) = wr + n + Modulus
    BY <1>4, RingAssumption DEF Used, Minus
  <2>2. Slot(rd + (Used + n) - Modulus) = Slot(rd + (Used + n))
    BY <1>2, <2>1, SlotWraps, RingAssumption
  <2>3. rd + (Used + n) - Modulus = wr + n
    BY <1>2, <2>1, RingAssumption
  <2> QED BY <1>1, <2>2, <2>3
<1> QED BY <1>3, <1>4, RingAssumption

(* A byte past the published ones and a published byte less than a ring    *)
(* before it have different slots.                                         *)
LEMMA WriteSlotApart ==
    ASSUME wr \in 0 .. Modulus - 1, rd \in 0 .. Modulus - 1,
           NEW i \in Nat, NEW j \in Nat, Used + i < Capacity, j < Used
    PROVE  Slot(Plus(wr, i)) # Slot(Plus(rd, j))
<1>1. Used \in 0 .. Capacity /\ i \in 0 .. Capacity /\ j \in 0 .. Capacity
  BY RingAssumption DEF Used, Minus
<1>2. Slot(Plus(wr, i)) = Slot(rd + (Used + i))
  BY <1>1, SlotFromRd
<1>3. Slot(Plus(rd, j)) = Slot(rd + j)
  BY <1>1, SlotPlus
<1> DEFINE d == Used + i - j
<1>4. d \in 1 .. Capacity - 1 /\ rd + j \in Nat
  BY <1>1, RingAssumption
<1>5. rd + (Used + i) = (rd + j) + d
  BY <1>1, RingAssumption
<1> HIDE DEF d
<1>6. Slot((rd + j) + d) # Slot(rd + j)
  BY <1>4, SlotsApart
<1> QED BY <1>2, <1>3, <1>5, <1>6

(* Whatever the ring's size and the width of its counters, rb_write never  *)
(* stores into a slot an unfinished rb_read copies from: the lock-free     *)
(* ring has no data race on its bytes.                                     *)
THEOREM SlotsDisjoint == Spec => []NoSlotRace
<1>1. IInv => NoSlotRace
  <2> SUFFICES ASSUME IInv,
                      NEW i \in 0 .. Len(src) - 1, NEW j \in 0 .. rlen - 1
               PROVE  Slot(Plus(wr, i)) # Slot(Plus(rd, j))
    BY DEF NoSlotRace
  <2>1. wr \in 0 .. Modulus - 1 /\ rd \in 0 .. Modulus - 1
    BY DEF IInv, TypeOK
  <2>2. i \in Nat /\ j \in Nat
    OBVIOUS
  <2>3. Used + i < Capacity /\ j < Used
    BY <2>1, RingAssumption DEF IInv, TypeOK, Occupancy, Free, Used, Minus
  <2> QED BY <2>1, <2>2, <2>3, WriteSlotApart
<1> QED BY <1>1, Invariance, PTL

-----------------------------------------------------------------------------
(* The two counters implement the queue of ByteFifo.tla: a step that       *)
(* publishes is the queue's operation, every other step a stutter.         *)

(* What the copies in progress have moved so far: the bytes an rb_write    *)
(* has stored are the front of its buffer, the bytes an rb_read has copied *)
(* are still the oldest of the ring.                                       *)
Copied ==
    /\ \A k \in 0 .. wdone - 1 : data[Slot(Plus(wr, k))] = src[k + 1]
    /\ \A k \in 0 .. Len(dst) - 1 : dst[k + 1] = data[Slot(Plus(rd, k))]

CInv == IInv /\ Copied

LEMMA Ranges ==
    ASSUME IInv
    PROVE  /\ wr \in 0 .. Modulus - 1 /\ rd \in 0 .. Modulus - 1
           /\ Used \in 0 .. Capacity /\ Free = Capacity - Used
           /\ Len(src) \in 0 .. Capacity /\ Used + Len(src) <= Capacity
           /\ rlen \in 0 .. Capacity /\ rlen <= Used
           /\ wdone \in 0 .. Len(src) /\ Len(dst) \in 0 .. rlen
BY RingAssumption DEF IInv, TypeOK, Occupancy, Used, Free, Minus

(* The bytes the counters stand for are a sequence.                        *)
LEMMA WindowSeq ==
    ASSUME NEW m \in [0 .. Capacity - 1 -> Values],
           NEW from \in 0 .. Modulus - 1, NEW n \in 0 .. Capacity
    PROVE  /\ Window(m, from, n) \in Seq(Values)
           /\ Len(Window(m, from, n)) = n
           /\ \A k \in 1 .. n : Window(m, from, n)[k] = m[Slot(Plus(from, k - 1))]
<1>1. ASSUME NEW k \in 1 .. n
      PROVE  m[Slot(Plus(from, k - 1))] \in Values
  <2>1. k - 1 \in 0 .. Capacity
    BY RingAssumption
  <2>2. Plus(from, k - 1) \in 0 .. Modulus - 1
    BY <2>1, PlusMinus
  <2>3. Plus(from, k - 1) \in Nat
    BY <2>2
  <2>4. Slot(Plus(from, k - 1)) \in 0 .. Capacity - 1
    BY <2>3, SlotType
  <2> QED BY <2>4
<1>2. Window(m, from, n) \in [1 .. n -> Values]
  BY <1>1 DEF Window
<1>3. Window(m, from, n) \in Seq(Values) /\ Len(Window(m, from, n)) = n
  BY <1>2
<1> QED BY <1>3 DEF Window

-----------------------------------------------------------------------------
LEMMA InitCopied == Init => Copied
BY DEF Init, Copied

(* Storing a byte disturbs neither the published bytes nor those stored    *)
(* before it in the same call.                                             *)
LEMMA StoreApart ==
    ASSUME IInv, WriteByte
    PROVE  /\ \A k \in 0 .. Used - 1 :
                 data'[Slot(Plus(rd, k))] = data[Slot(Plus(rd, k))]
           /\ \A k \in 0 .. wdone - 1 :
                 data'[Slot(Plus(wr, k))] = data[Slot(Plus(wr, k))]
           /\ data'[Slot(Plus(wr, wdone))] = src[wdone + 1]
<1> DEFINE x == Slot(Plus(wr, wdone))
<1>0. wdone \in Nat /\ wdone < Len(src)
  BY Ranges DEF WriteByte
<1>1. x \in 0 .. Capacity - 1
  <2>1. wr \in 0 .. Modulus - 1 /\ wdone \in 0 .. Capacity
    BY <1>0, Ranges, RingAssumption
  <2>2. Plus(wr, wdone) \in 0 .. Modulus - 1
    BY <2>1, PlusMinus
  <2>3. Plus(wr, wdone) \in Nat
    BY <2>2
  <2> QED BY <2>3, SlotType
<1>2. data' = [data EXCEPT ![x] = src[wdone + 1]]
  BY DEF WriteByte
<1>3. DOMAIN data = 0 .. Capacity - 1
  BY DEF IInv, TypeOK
<1>4. ASSUME NEW k \in 0 .. Used - 1 PROVE Slot(Plus(rd, k)) # x
  BY <1>0, Ranges, WriteSlotApart, RingAssumption
<1>5. ASSUME NEW k \in 0 .. wdone - 1 PROVE Slot(Plus(wr, k)) # x
  <2>1. /\ Slot(Plus(wr, k)) = Slot(rd + (Used + k))
        /\ x = Slot(rd + (Used + wdone))
    BY <1>0, Ranges, SlotFromRd, RingAssumption
  <2>2. /\ rd + (Used + k) \in Nat
        /\ wdone - k \in 1 .. Capacity - 1
        /\ rd + (Used + wdone) = rd + (Used + k) + (wdone - k)
    BY <1>0, Ranges, RingAssumption
  <2> QED BY <2>1, <2>2, SlotsApart
<1> HIDE DEF x
<1>6. \A y : y # x => data'[y] = data[y] \/ y \notin 0 .. Capacity - 1
  BY <1>2, <1>3
<1>7. ASSUME NEW c \in 0 .. Modulus - 1, NEW k \in 0 .. Capacity
      PROVE  Slot(Plus(c, k)) \in 0 .. Capacity - 1
  <2>1. Plus(c, k) \in 0 .. Modulus - 1
    BY PlusMinus
  <2>2. Plus(c, k) \in Nat
    BY <2>1
  <2> QED BY <2>2, SlotType
<1>8. ASSUME NEW k \in 0 .. Used - 1
      PROVE  data'[Slot(Plus(rd, k))] = data[Slot(Plus(rd, k))]
  <2>1. rd \in 0 .. Modulus - 1 /\ k \in 0 .. Capacity
    BY Ranges, RingAssumption
  <2> QED BY <1>4, <1>6, <1>7, <2>1
<1>9. ASSUME NEW k \in 0 .. wdone - 1
      PROVE  data'[Slot(Plus(wr, k))] = data[Slot(Plus(wr, k))]
  <2>1. wr \in 0 .. Modulus - 1 /\ k \in 0 .. Capacity
    BY <1>0, Ranges, RingAssumption
  <2> QED BY <1>5, <1>6, <1>7, <2>1
<1>10. data'[x] = src[wdone + 1]
  BY <1>1, <1>2, <1>3
<1> QED BY <1>8, <1>9, <1>10 DEF x

LEMMA NextCopied == CInv /\ [Next]_vars => Copied'
<1> SUFFICES ASSUME CInv, [Next]_vars PROVE Copied'
  OBVIOUS
<1>0. IInv /\ Copied
  BY DEF CInv
<1>1. ASSUME NEW k \in 1 .. MaxLen, NEW s \in [1 .. k -> Values], WriteBegin(s)
      PROVE  Copied'
  BY <1>0, <1>1 DEF WriteBegin, Copied
<1>2. CASE WriteByte
  <2>1. \A k \in 0 .. wdone' - 1 : data'[Slot(Plus(wr, k))] = src[k + 1]
    <3>1. wdone' = wdone + 1 /\ wdone \in Nat
      BY <1>0, <1>2, Ranges DEF WriteByte
    <3>2. \A k \in 0 .. wdone' - 1 : k \in 0 .. wdone - 1 \/ k = wdone
      BY <3>1
    <3> QED BY <1>0, <1>2, <3>2, StoreApart DEF Copied
  <2>2. \A k \in 0 .. Len(dst) - 1 : dst[k + 1] = data'[Slot(Plus(rd, k))]
    <3>1. \A k \in 0 .. Len(dst) - 1 : k \in 0 .. Used - 1
      BY <1>0, Ranges
    <3> QED BY <1>0, <1>2, <3>1, StoreApart DEF Copied
  <2> QED BY <1>2, <2>1, <2>2 DEF WriteByte, Copied
<1>3. CASE WritePublish
  BY <1>0, <1>3 DEF WritePublish, Copied
<1>4. ASSUME NEW n \in 1 .. MaxLen, ReadBegin(n)
      PROVE  Copied'
  BY <1>0, <1>4 DEF ReadBegin, Copied
<1>5. CASE ReadByte
  <2>1. Len(dst') = Len(dst) + 1 /\ Len(dst) \in Nat
    BY <1>0, <1>5 DEF ReadByte, IInv, TypeOK
  <2>2. \A k \in 0 .. Len(dst) - 1 : dst'[k + 1] = dst[k + 1]
    BY <1>0, <1>5 DEF ReadByte, IInv, TypeOK
  <2>3. dst'[Len(dst) + 1] = data[Slot(Plus(rd, Len(dst)))]
    BY <1>0, <1>5 DEF ReadByte, IInv, TypeOK
  <2>4. \A k \in 0 .. Len(dst') - 1 : k \in 0 .. Len(dst) - 1 \/ k = Len(dst)
    BY <2>1
  <2> QED BY <1>0, <1>5, <2>2, <2>3, <2>4 DEF ReadByte, Copied
<1>6. CASE ReadPublish
  BY <1>0, <1>6 DEF ReadPublish, Copied
<1>7. ASSUME NEW n \in 1 .. MaxLen, Skip(n)
      PROVE  Copied'
  <2>1. Len(dst) = 0
    BY <1>0, <1>7, Ranges DEF Skip
  <2> QED BY <1>0, <1>7, <2>1 DEF Skip, Copied
<1>8. CASE Reset
  <2>1. Len(dst) = 0 /\ wdone = 0
    BY <1>0, <1>8, Ranges DEF Reset
  <2> QED BY <1>8, <2>1 DEF Reset, Copied
<1>9. CASE UNCHANGED vars
  BY <1>0, <1>9 DEF vars, Copied
<1> QED
  BY <1>1, <1>2, <1>3, <1>4, <1>5, <1>6, <1>7, <1>8, <1>9
  DEF Next, Producer, Consumer

LEMMA CopiedHolds == Spec => []CInv
<1>1. Init => CInv
  BY InitIInv, InitCopied DEF CInv
<1>2. CInv /\ [Next]_vars => CInv'
  BY NextIInv, NextCopied DEF CInv
<1> QED BY <1>1, <1>2, PTL DEF Spec

-----------------------------------------------------------------------------
(* rb_write's publication appends exactly the caller's bytes.              *)
LEMMA PublishAppends ==
    ASSUME CInv, WritePublish
    PROVE  Queued' = Queued \o src
<1>0. IInv /\ Copied
  BY DEF CInv
<1>1. src \in Seq(Values) /\ wdone = Len(src) /\ rd' = rd /\ data' = data
  BY <1>0 DEF WritePublish, IInv, TypeOK
<1>2. Used' = Used + Len(src)
  BY <1>0, Ranges, UsedAfterWrite DEF WritePublish, Used
<1>3. /\ Queued \in Seq(Values) /\ Len(Queued) = Used
      /\ \A k \in 1 .. Used : Queued[k] = data[Slot(Plus(rd, k - 1))]
  BY <1>0, Ranges, WindowSeq DEF Queued, IInv, TypeOK
<1>4. /\ Queued' \in Seq(Values) /\ Len(Queued') = Used'
      /\ \A k \in 1 .. Used' : Queued'[k] = data[Slot(Plus(rd, k - 1))]
  <2>1. Queued' = Window(data, rd, Used')
    BY <1>1 DEF Queued
  <2>2. Used' \in 0 .. Capacity /\ rd \in 0 .. Modulus - 1
    BY <1>0, <1>2, Ranges, RingAssumption
  <2>3. data \in [0 .. Capacity - 1 -> Values]
    BY <1>0 DEF IInv, TypeOK
  <2> QED BY ONLY <2>1, <2>2, <2>3, WindowSeq
<1>5. /\ Queued \o src \in Seq(Values)
      /\ Len(Queued \o src) = Used + Len(src)
      /\ \A k \in 1 .. Used + Len(src) :
            (Queued \o src)[k] = IF k <= Used THEN Queued[k] ELSE src[k - Used]
  BY <1>1, <1>3, ConcatProperties
<1>6. ASSUME NEW k \in 1 .. Used + Len(src)
      PROVE  Queued'[k] = (Queued \o src)[k]
  <2>1. CASE k <= Used
    <3>1. k \in 1 .. Used /\ k \in 1 .. Used'
      BY <1>0, <1>2, <2>1, Ranges
    <3> QED BY <1>3, <1>4, <1>5, <2>1, <3>1
  <2>2. CASE k > Used
    <3> DEFINE n == k - 1 - Used
    <3>1. n \in 0 .. wdone - 1 /\ n \in 0 .. Capacity /\ n + 1 = k - Used
      BY <1>0, <1>1, <2>2, Ranges, RingAssumption
    <3>2. data[Slot(Plus(wr, n))] = src[n + 1]
      BY <1>0, <3>1 DEF Copied
    <3>3. Slot(Plus(wr, n)) = Slot(rd + (Used + n))
      BY <1>0, <3>1, Ranges, SlotFromRd
    <3>4. k - 1 \in 0 .. Capacity /\ Used + n = k - 1
      BY <1>0, Ranges, RingAssumption
    <3>5. Slot(Plus(rd, k - 1)) = Slot(rd + (k - 1))
      BY <1>0, <3>4, Ranges, SlotPlus
    <3>6. k \in 1 .. Used'
      BY <1>2
    <3>7. Queued'[k] = data[Slot(Plus(rd, k - 1))]
      BY <1>4, <3>6
    <3>8. Queued'[k] = src[k - Used]
      BY ONLY <3>1, <3>2, <3>3, <3>4, <3>5, <3>7
    <3>9. ~(k <= Used)
      BY <1>0, <2>2, Ranges
    <3>10. (Queued \o src)[k] = src[k - Used]
      BY ONLY <1>5, <1>6, <3>9
    <3> QED BY <3>8, <3>10
  <2>3. k <= Used \/ k > Used
    <3>1. Used \in Nat /\ k \in Nat
      BY <1>0, Ranges
    <3> QED BY ONLY <3>1
  <2> QED BY ONLY <2>1, <2>2, <2>3
<1> QED BY <1>2, <1>4, <1>5, <1>6, SeqEqual

(* Consuming the n oldest bytes leaves the rest, in order.                 *)
LEMMA ConsumeDrops ==
    ASSUME CInv, NEW n \in 0 .. Used,
           rd' = Plus(rd, n), wr' = wr, data' = data
    PROVE  /\ Len(Queued) = Used
           /\ Queued' = SubSeq(Queued, n + 1, Len(Queued))
<1>0. IInv
  BY DEF CInv
<1>1. /\ rd \in 0 .. Modulus - 1 /\ Used \in 0 .. Capacity /\ n \in 0 .. Capacity
      /\ data \in [0 .. Capacity - 1 -> Values]
  <2>1. rd \in 0 .. Modulus - 1 /\ Used \in 0 .. Capacity
    BY <1>0, Ranges
  <2>2. data \in [0 .. Capacity - 1 -> Values]
    BY <1>0 DEF IInv, TypeOK
  <2> QED BY <2>1, <2>2, RingAssumption
<1>2. Used' = Used - n
  BY <1>0, <1>1, Ranges, UsedAfterRead DEF Used
<1>3. rd' \in 0 .. Modulus - 1
  BY ONLY <1>1, PlusMinus, rd' = Plus(rd, n)
<1>4. /\ Queued \in Seq(Values) /\ Len(Queued) = Used
      /\ \A k \in 1 .. Used : Queued[k] = data[Slot(Plus(rd, k - 1))]
  BY <1>1, WindowSeq DEF Queued
<1>5. Used' \in 0 .. Capacity
  BY <1>1, <1>2, RingAssumption
<1>6. /\ Queued' \in Seq(Values) /\ Len(Queued') = Used'
      /\ \A k \in 1 .. Used' : Queued'[k] = data[Slot(Plus(rd', k - 1))]
  <2>1. Queued' = Window(data, rd', Used')
    BY DEF Queued
  <2> QED BY ONLY <1>1, <1>3, <1>5, <2>1, WindowSeq
<1> DEFINE rest == SubSeq(Queued, n + 1, Used)
<1>7. /\ rest \in Seq(Values) /\ Len(rest) = Used - n
      /\ \A k \in 1 .. Used - n : rest[k] = Queued[n + k]
  <2>1. \A i \in n + 1 .. Used : Queued[i] \in Values
    BY <1>1, <1>4
  <2>2. n + 1 \in Int /\ Used \in Int
    BY <1>1
  <2>3. /\ rest \in Seq(Values)
        /\ Len(rest) = IF n + 1 <= Used THEN Used - (n + 1) + 1 ELSE 0
        /\ \A i \in 1 .. Used - (n + 1) + 1 : rest[i] = Queued[(n + 1) + i - 1]
    BY <2>1, <2>2, SubSeqProperties
  <2> HIDE DEF rest
  <2>4. Len(rest) = Used - n
    BY <1>1, <2>3
  <2>5. ASSUME NEW k \in 1 .. Used - n
        PROVE  rest[k] = Queued[n + k]
    <3>1. k \in 1 .. Used - (n + 1) + 1 /\ (n + 1) + k - 1 = n + k
      BY <1>1
    <3> QED BY <2>3, <3>1
  <2> QED BY <2>3, <2>4, <2>5
<1>8. ASSUME NEW k \in 1 .. Used - n
      PROVE  Queued'[k] = rest[k]
  <2>1. k \in 1 .. Used' /\ n + k \in 1 .. Used /\ n + k - 1 \in 0 .. Capacity
        /\ k - 1 \in 0 .. Capacity
    BY <1>1, <1>2, RingAssumption
  <2>2. Queued'[k] = data[Slot(Plus(rd', k - 1))]
    BY <1>6, <2>1
  <2>3. Slot(Plus(rd', k - 1)) = Slot(rd' + (k - 1))
    BY ONLY <1>3, <2>1, SlotPlus
  <2>4. Slot(rd' + (k - 1)) = Slot(rd + (n + k - 1))
    <3>1. CASE rd + n < Modulus
      <4>1. rd' = rd + n
        BY <1>1, <3>1, RingAssumption DEF Plus
      <4>2. rd' + (k - 1) = rd + (n + k - 1)
        BY <1>1, <4>1, <2>1
      <4> QED BY <4>2
    <3>2. CASE rd + n >= Modulus
      <4> DEFINE c == rd + (n + k - 1)
      <4>1. rd' = rd + n - Modulus
        BY <1>1, <3>2, RingAssumption DEF Plus
      <4>2. /\ rd' + (k - 1) = c - Modulus
            /\ c \in Nat /\ c >= Modulus
        BY <1>1, <3>2, <4>1, <2>1, RingAssumption
      <4> HIDE DEF c
      <4>3. Slot(c - Modulus) = Slot(c)
        BY <4>2, SlotWraps
      <4>4. Slot(rd' + (k - 1)) = Slot(c)
        BY <4>2, <4>3
      <4> QED BY <4>4 DEF c
    <3> QED BY <1>1, <3>1, <3>2, RingAssumption
  <2>5. Slot(Plus(rd, n + k - 1)) = Slot(rd + (n + k - 1))
    BY ONLY <1>1, <2>1, SlotPlus
  <2>6. Queued[n + k] = data[Slot(Plus(rd, n + k - 1))]
    BY <1>4, <2>1
  <2>7. rest[k] = Queued[n + k]
    BY <1>7
  <2> HIDE DEF rest
  <2> QED BY ONLY <2>2, <2>3, <2>4, <2>5, <2>6, <2>7
<1> HIDE DEF rest
<1>9. Queued' = rest
  BY <1>2, <1>6, <1>7, <1>8, SeqEqual
<1> QED BY <1>4, <1>9 DEF rest

(* rb_read hands out the oldest bytes of the queue.                        *)
LEMMA ReadTakesOldest ==
    ASSUME CInv, ReadPublish
    PROVE  dst = SubSeq(Queued, 1, rlen)
<1>0. IInv /\ Copied
  BY DEF CInv
<1>1. /\ dst \in Seq(Values) /\ Len(dst) = rlen
      /\ rlen \in 0 .. Used /\ Used \in 0 .. Capacity
      /\ rd \in 0 .. Modulus - 1 /\ data \in [0 .. Capacity - 1 -> Values]
  BY <1>0, Ranges DEF ReadPublish, IInv, TypeOK
<1>2. /\ Queued \in Seq(Values) /\ Len(Queued) = Used
      /\ \A k \in 1 .. Used : Queued[k] = data[Slot(Plus(rd, k - 1))]
  BY <1>1, WindowSeq DEF Queued
<1> DEFINE front == SubSeq(Queued, 1, rlen)
<1>3. /\ front \in Seq(Values) /\ Len(front) = rlen
      /\ \A k \in 1 .. rlen : front[k] = Queued[k]
  BY <1>1, <1>2
<1>4. ASSUME NEW k \in 1 .. rlen
      PROVE  dst[k] = front[k]
  <2>1. k - 1 \in 0 .. Len(dst) - 1 /\ (k - 1) + 1 = k /\ k \in 1 .. Used
    BY <1>1
  <2>2. dst[k] = data[Slot(Plus(rd, k - 1))]
    BY <1>0, <2>1 DEF Copied
  <2> QED BY <1>2, <1>3, <2>1, <2>2
<1> HIDE DEF front
<1>5. dst = front
  BY <1>1, <1>3, <1>4, SeqEqual
<1> QED BY <1>5 DEF front

-----------------------------------------------------------------------------
(* Steps that publish nothing leave the queue and the last result alone.   *)
LEMMA Stutters ==
    ASSUME CInv, UNCHANGED <<wr, rd, got>>,
           \/ UNCHANGED data
           \/ WriteByte
    PROVE  UNCHANGED <<Queued, got>>
<1>1. CASE UNCHANGED data
  BY <1>1 DEF Queued, Window, Used, Slot, Plus, Minus
<1>2. CASE WriteByte
  <2>1. IInv
    BY DEF CInv
  <2>2. Used' = Used /\ rd' = rd
    BY DEF Used
  <2>3. \A k \in 1 .. Used : k - 1 \in 0 .. Used - 1
    BY <2>1, Ranges
  <2>4. \A k \in 1 .. Used :
           data'[Slot(Plus(rd, k - 1))] = data[Slot(Plus(rd, k - 1))]
    BY <1>2, <2>1, <2>3, StoreApart
  <2>5. /\ Queued = [k \in 1 .. Used |-> data[Slot(Plus(rd, k - 1))]]
        /\ Queued' = [k \in 1 .. Used |-> data'[Slot(Plus(rd, k - 1))]]
    BY <2>2 DEF Queued, Window
  <2> QED BY <2>4, <2>5
<1> QED BY <1>1, <1>2

LEMMA InitMaps == Init => Fifo!Init
<1> SUFFICES ASSUME Init PROVE src = << >> /\ Queued = << >> /\ got = << >>
  BY DEF Fifo!Init
<1>1. Used = 0
  BY DEF Init, Used, Minus
<1> QED BY <1>1 DEF Init, Queued, Window

LEMMA StepMaps ==
    ASSUME CInv, CInv', [Next]_vars
    PROVE  [Fifo!Next]_<<src, Queued, got>>
<1>0. IInv
  BY DEF CInv
<1>r. Used \in 0 .. Capacity /\ Len(src) \in 0 .. Capacity
      /\ Used + Len(src) <= Capacity /\ rlen \in 0 .. Used
  BY <1>0, Ranges
<1>l. Len(Queued) = Used
  BY <1>0, Ranges, WindowSeq DEF Queued, IInv, TypeOK
<1>1. ASSUME NEW k \in 1 .. MaxLen, NEW s \in [1 .. k -> Values], WriteBegin(s)
      PROVE  Fifo!Next
  <2>1. src = << >> /\ src' = SubSeq(s, 1, Least(Len(s), Free))
    BY <1>1 DEF WriteBegin
  <2>2. UNCHANGED <<Queued, got>> /\ Used' = Used
    BY <1>1, Stutters DEF WriteBegin, Used
  <2>3. s \in Seq(Values) /\ Len(s) = k /\ k \in Nat \ {0}
    BY RingAssumption
  <2>4. Least(Len(s), Free) \in 1 .. Len(s)
    BY <1>1, <1>0, <2>3, Ranges, RingAssumption DEF WriteBegin, Least
  <2>5. src' \in Seq(Values) /\ Len(src') \in Nat \ {0}
    BY <2>1, <2>3, <2>4
  <2>6. IInv'
    BY DEF CInv
  <2>7. Used' + Len(src') <= Capacity
    BY <2>6, RingAssumption DEF IInv, TypeOK, Occupancy, Used, Free, Minus
  <2>8. src' # << >>
    BY <2>5
  <2>9. Fifo!Offer
    BY <1>l, <2>1, <2>2, <2>5, <2>7, <2>8 DEF Fifo!Offer
  <2> QED BY <2>9 DEF Fifo!Next
<1>2. CASE WriteByte
  BY <1>2, Stutters DEF WriteByte
<1>3. CASE WritePublish
  <2>1. Queued' = Queued \o src
    BY <1>3, PublishAppends
  <2>2. Fifo!Put
    BY <1>3, <2>1 DEF WritePublish, Fifo!Put
  <2> QED BY <2>2 DEF Fifo!Next
<1>4. ASSUME NEW n \in 1 .. MaxLen, ReadBegin(n)
      PROVE  UNCHANGED <<src, Queued, got>>
  BY <1>4, Stutters DEF ReadBegin
<1>5. CASE ReadByte
  BY <1>5, Stutters DEF ReadByte
<1>6. CASE ReadPublish
  <2>1. Queued' = SubSeq(Queued, rlen + 1, Len(Queued))
    BY <1>6, <1>r, ConsumeDrops DEF ReadPublish
  <2>2. got' = SubSeq(Queued, 1, rlen)
    BY <1>6, ReadTakesOldest DEF ReadPublish
  <2>3. rlen \in 1 .. Len(Queued)
    BY <1>6, <1>r, <1>l DEF ReadPublish
  <2>4. Fifo!Get(rlen)
    BY <1>6, <2>1, <2>2 DEF Fifo!Get, ReadPublish
  <2> QED BY <2>3, <2>4 DEF Fifo!Next
<1>7. ASSUME NEW n \in 1 .. MaxLen, Skip(n)
      PROVE  Fifo!Next
  <2> DEFINE m == Least(n, Used)
  <2>1. m \in 1 .. Used
    BY <1>7, <1>r DEF Skip, Least
  <2>2. rd' = Plus(rd, m) /\ UNCHANGED <<wr, data, src, got>>
    BY <1>7 DEF Skip
  <2> HIDE DEF m
  <2>3. Queued' = SubSeq(Queued, m + 1, Len(Queued))
    BY <1>r, <2>1, <2>2, ConsumeDrops
  <2>4. Fifo!Drop(m)
    BY <2>2, <2>3 DEF Fifo!Drop
  <2> QED BY <1>l, <2>1, <2>4 DEF Fifo!Next
<1>8. CASE Reset
  <2>1. Used' = 0
    BY <1>8 DEF Reset, Used, Minus
  <2>2. Queued' = << >>
    BY <2>1 DEF Queued, Window
  <2>3. Fifo!Clear
    BY <1>8, <2>2 DEF Reset, Fifo!Clear
  <2> QED BY <2>3 DEF Fifo!Next
<1>9. CASE UNCHANGED vars
  BY <1>9, Stutters DEF vars
<1> QED
  BY <1>1, <1>2, <1>3, <1>4, <1>5, <1>6, <1>7, <1>8, <1>9
  DEF Next, Producer, Consumer

(* ringbuf.c implements the bounded queue, for every ring size that        *)
(* divides the counters' width: a finished rb_write appended its bytes in  *)
(* one step, a finished rb_read took the oldest, none lost or reordered.   *)
THEOREM RefinesFifo == Spec => FifoSpec
<1>1. Init => Fifo!Init
  BY InitMaps
<1>2. CInv /\ CInv' /\ [Next]_vars => [Fifo!Next]_<<src, Queued, got>>
  BY StepMaps
<1> QED
  BY <1>1, <1>2, CopiedHolds, PTL DEF Spec, FifoSpec, Fifo!Spec, Fifo!fifoVars
=============================================================================
