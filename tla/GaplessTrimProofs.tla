-------------------------- MODULE GaplessTrimProofs --------------------------
(***************************************************************************)
(* The trim is exact for every track, delay, padding and chunk, as long as *)
(* the delay is shorter than a chunk; a longer delay swallows the track    *)
(* (run GaplessTrimLong).                                                  *)
(***************************************************************************)
EXTENDS GaplessTrim, SequenceTheorems, TLAPS

(* Where the decoder stands, from the cursors of the trim.                 *)
Cursor ==
    /\ trimmed => pos = base + Delay + emitted
    /\ ~trimmed => /\ Delay > 0 /\ emitted = 0
                   /\ pos = base \/ (pos = Total /\ Total - base <= Delay)
    /\ ~beof => Len(out) = emitted /\ (Known => emitted = 0 \/ emitted < TailTarget)

TrimInv == TrimTypeOK /\ Cursor /\ TrimExact

USE TrimAssumption DEF AtLeastZero, TrimLeast

(* Two batches that follow one another are one batch.                      *)
LEMMA BatchType ==
    ASSUME NEW f \in Nat, NEW n \in Nat
    PROVE  Batch(f, n) \in Seq(Nat) /\ Len(Batch(f, n)) = n
<1>1. ASSUME NEW i \in 1 .. n PROVE f + i - 1 \in Nat
  OBVIOUS
<1>2. Batch(f, n) \in [1 .. n -> Nat]
  BY <1>1 DEF Batch
<1> QED
  BY <1>2

LEMMA EmptyBatch == ASSUME NEW f PROVE Batch(f, 0) = <<>>
<1>1. 1 .. 0 = {}
  OBVIOUS
<1> QED
  BY <1>1 DEF Batch

LEMMA BatchConcat ==
    ASSUME NEW f \in Nat, NEW n \in Nat, NEW m \in Nat
    PROVE  Batch(f, n) \o Batch(f + n, m) = Batch(f, n + m)
<1>1. /\ Batch(f, n) \in Seq(Nat) /\ Len(Batch(f, n)) = n
      /\ Batch(f + n, m) \in Seq(Nat) /\ Len(Batch(f + n, m)) = m
      /\ Batch(f, n + m) \in Seq(Nat) /\ Len(Batch(f, n + m)) = n + m
  <2>1. f + n \in Nat /\ n + m \in Nat
    OBVIOUS
  <2> QED
    BY <2>1, BatchType
<1>2. ASSUME NEW i \in 1 .. n + m
      PROVE  (Batch(f, n) \o Batch(f + n, m))[i] = Batch(f, n + m)[i]
  <2>1. Batch(f, n + m)[i] = f + i - 1
    BY DEF Batch
  <2>2. CASE i <= n
    <3>1. i \in 1 .. n
      BY <2>2
    <3>2. (Batch(f, n) \o Batch(f + n, m))[i] = Batch(f, n)[i]
      BY <1>1, <2>2, ConcatProperties
    <3> QED
      BY <2>1, <3>1, <3>2 DEF Batch
  <2>3. CASE i > n
    <3>1. i - n \in 1 .. m
      BY <2>3
    <3>2. i \in 1 .. Len(Batch(f, n)) + Len(Batch(f + n, m)) /\ ~(i <= Len(Batch(f, n)))
      BY <1>1, <2>3
    <3>3. (Batch(f, n) \o Batch(f + n, m))[i] = Batch(f + n, m)[i - Len(Batch(f, n))]
      BY <1>1, <3>2, ConcatProperties
    <3>4. Batch(f + n, m)[i - n] = f + n + (i - n) - 1
      BY <3>1 DEF Batch
    <3>5. f + n + (i - n) - 1 = f + i - 1
      BY <2>3
    <3> QED
      BY <1>1, <2>1, <3>3, <3>4, <3>5
  <2>4. i <= n \/ i > n
    OBVIOUS
  <2> QED
    BY <2>2, <2>3, <2>4
<1>3. /\ Batch(f, n) \o Batch(f + n, m) \in Seq(Nat)
      /\ Len(Batch(f, n) \o Batch(f + n, m)) = n + m
  BY <1>1, ConcatProperties
<1> QED
  BY <1>1, <1>2, <1>3, SeqEqual

(* The start of a track, and of the stream after a seek.                   *)
LEMMA TrimInitInv == TrimInit => TrimInv
<1> SUFFICES ASSUME TrimInit PROVE TrimInv
  OBVIOUS
<1>1. out = <<>> /\ Len(out) = 0 /\ out \in Seq(Nat)
  BY DEF TrimInit
<1>2. out = Batch(base + Delay, Len(out))
  BY <1>1, EmptyBatch
<1>a. trimmed \in BOOLEAN /\ beof \in BOOLEAN /\ (trimmed <=> Delay = 0)
  BY DEF TrimInit
<1>3. TrimTypeOK
  BY <1>1, <1>a DEF TrimInit, TrimTypeOK
<1>b. pos = 0 /\ base = 0 /\ emitted = 0
  BY DEF TrimInit
<1>4. Cursor
  BY <1>1, <1>a, <1>b DEF Cursor
<1>5. TrimExact
  BY <1>1, <1>2 DEF TrimInit, TrimExact, Audible, TailTarget
<1> QED
  BY <1>3, <1>4, <1>5 DEF TrimInv

LEMMA SeekStep == ASSUME NEW p \in Seeks, Seek(p) PROVE TrimInv'
<1>1. out' = <<>> /\ Len(out') = 0 /\ out' \in Seq(Nat)
  BY DEF Seek
<1>2. out' = Batch(base' + Delay, Len(out'))
  BY <1>1, EmptyBatch
<1>a. trimmed' \in BOOLEAN /\ beof' \in BOOLEAN /\ (trimmed' <=> Delay = 0)
  BY DEF Seek
<1>b. pos' = p /\ base' = p /\ emitted' = 0 /\ p \in 0 .. Total
  BY DEF Seek
<1>3. TrimTypeOK'
  BY <1>1, <1>a, <1>b DEF TrimTypeOK
<1>4. Cursor'
  BY <1>1, <1>a, <1>b DEF Cursor
<1>5. TrimExact'
  BY <1>1, <1>2 DEF Seek, TrimExact, Audible, TailTarget
<1> QED
  BY <1>3, <1>4, <1>5 DEF TrimInv

(* The decoder is drained: everything audible was written.                 *)
LEMMA DrainedStep == ASSUME TrimInv, Drained PROVE TrimInv'
<1> USE DEF TrimInv
<1>1. TrimTypeOK' /\ Cursor'
  BY DEF Drained, TrimTypeOK, Cursor
<1>2. pos = Total
  BY DEF Drained, Got, TrimTypeOK
<1>3. base = 0 => Len(out) = Audible
  BY <1>2 DEF Drained, TrimTypeOK, Cursor, Audible, TailTarget
<1>4. TrimExact'
  BY <1>3 DEF Drained, TrimExact, Audible
<1> QED
  BY <1>1, <1>4

(* A batch that is dropped whole is the end of the track.                  *)
LEMMA DroppedStep == ASSUME Delay < Chunk, TrimInv, Dropped PROVE TrimInv'
<1> USE DEF TrimInv
<1>1. ~trimmed /\ Got = Total - pos /\ pos < Total
  BY DEF Dropped, Lead, Got, TrimTypeOK
<1>2. pos' = Total /\ pos = base /\ Total - base <= Delay
  BY <1>1 DEF Dropped, Lead, TrimTypeOK, Cursor
<1>3. TrimTypeOK' /\ TrimExact'
  BY <1>2 DEF Dropped, TrimTypeOK, TrimExact, Audible
<1>4. Cursor'
  BY <1>1, <1>2 DEF Dropped, TrimTypeOK, Cursor
<1> QED
  BY <1>3, <1>4

(* What is written continues what was written before.                      *)
LEMMA WrittenStep == ASSUME Delay < Chunk, TrimInv, Written PROVE TrimInv'
<1> DEFINE kept == Got - Lead
           lst  == Known /\ emitted + kept >= TailTarget
           n    == IF lst THEN AtLeastZero(TailTarget - emitted) ELSE kept
<1> USE DEF TrimInv
<1>1. /\ kept \in Nat /\ n \in Nat /\ n <= kept /\ ~beof
      /\ pos + Lead = base + Delay + emitted
      /\ pos' = base + Delay + emitted + kept /\ pos' <= Total
  BY DEF Written, Got, Lead, TrimTypeOK, Cursor, TailTarget
<1>2. /\ out' = out \o Batch(base + Delay + emitted, n)
      /\ emitted' = emitted + kept /\ beof' = lst /\ trimmed' /\ base' = base
  BY <1>1 DEF Written
<1>3. Len(out) = emitted /\ emitted \in Nat /\ base + Delay \in Nat
  BY <1>1 DEF TrimTypeOK, Cursor
<1> HIDE DEF n, lst, kept
<1>4. out' = Batch(base + Delay, emitted + n)
  <2>1. out = Batch(base + Delay, emitted)
    BY <1>3 DEF TrimExact
  <2>2. out' = Batch(base + Delay, emitted) \o Batch(base + Delay + emitted, n)
    BY <1>2, <2>1
  <2>3. Batch(base + Delay, emitted) \o Batch(base + Delay + emitted, n)
          = Batch(base + Delay, emitted + n)
    <3>1. base + Delay \in Nat /\ emitted \in Nat /\ n \in Nat
      BY <1>1, <1>3
    <3> QED
      BY ONLY <3>1, BatchConcat
  <2> QED
    BY <2>2, <2>3
<1>5. Len(out') = emitted + n /\ out' \in Seq(Nat)
  BY <1>1, <1>3, <1>4, BatchType
<1>6. TrimTypeOK'
  BY <1>1, <1>2, <1>3, <1>5 DEF Written, TrimTypeOK
<1>7. Cursor'
  <2>1. ~beof' => ~lst
    BY <1>2
  <2>2. ~lst => n = kept /\ (Known => emitted + kept < TailTarget)
    BY <1>1, <1>3 DEF lst, n, TrimTypeOK, TailTarget
  <2>3. ~beof' => Len(out') = emitted' /\ (Known => emitted' < TailTarget)
    BY <1>2, <1>5, <2>1, <2>2
  <2>4. pos' = base' + Delay + emitted' /\ trimmed'
    BY <1>1, <1>2, <1>3 DEF TrimTypeOK
  <2> QED
    BY <2>3, <2>4 DEF Cursor
<1>8. TrimExact'
  <2>1. out' = Batch(base' + Delay, Len(out'))
    BY <1>2, <1>4, <1>5
  <2>2. base' = 0 => emitted + kept <= Total - Delay
    BY <1>1, <1>2 DEF TrimTypeOK
  <2>3. Known => emitted = 0 \/ emitted < TailTarget
    BY <1>1 DEF Cursor
  <2>4. base' = 0 /\ beof' => Len(out') = Audible
    <3>1. base' = 0 /\ beof' => lst
      BY <1>2
    <3>2. lst => n = Audible - emitted
      BY <1>1, <1>3, <2>3 DEF n, lst, Audible, TailTarget
    <3>3. Audible \in Nat
      BY DEF Audible, TailTarget
    <3> QED
      BY <1>3, <1>5, <3>1, <3>2, <3>3
  <2>5. base' = 0 => Len(out') <= Audible
    BY <1>1, <1>2, <1>3, <1>5, <2>2, <2>3 DEF n, lst, Audible, TailTarget
  <2> QED
    BY <2>1, <2>4, <2>5 DEF TrimExact, Audible
<1> QED
  BY <1>6, <1>7, <1>8

LEMMA TrimNextInv == ASSUME Delay < Chunk PROVE TrimInv /\ [TrimNext]_trimVars => TrimInv'
<1> SUFFICES ASSUME TrimInv, [TrimNext]_trimVars PROVE TrimInv'
  OBVIOUS
<1>1. ASSUME NEW p \in Seeks, Seek(p) PROVE TrimInv'
  BY <1>1, SeekStep
<1>2. CASE Round
  BY <1>2, DrainedStep, DroppedStep, WrittenStep DEF Round
<1>3. CASE UNCHANGED trimVars
  BY <1>3 DEF trimVars, TrimInv, TrimTypeOK, Cursor, TrimExact, Audible
<1> QED
  BY <1>1, <1>2, <1>3 DEF TrimNext

(* The cursors keep their types when the delay is shorter than a chunk.    *)
THEOREM TrimTypes == ASSUME Delay < Chunk PROVE TrimSpec => []TrimTypeOK
<1>1. TrimInv => TrimTypeOK
  BY DEF TrimInv
<1> QED
  BY <1>1, TrimInitInv, TrimNextInv, PTL DEF TrimSpec

(* A track played from its start is heard exactly, without the encoder's   *)
(* delay and padding, when the delay is shorter than a chunk               *)
(* (decode_round_inner).                                                   *)
THEOREM TrimIsExact == ASSUME Delay < Chunk PROVE TrimSpec => []TrimExact
<1>1. TrimInv => TrimExact
  BY DEF TrimInv
<1> QED
  BY <1>1, TrimInitInv, TrimNextInv, PTL DEF TrimSpec
=============================================================================
