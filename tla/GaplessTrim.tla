----------------------------- MODULE GaplessTrim -----------------------------
(***************************************************************************)
(* The gapless trim of one track on Core B (decode_round_inner and         *)
(* trim_reset of firmware/bb/bb_main.c; the AP's own decode loop in        *)
(* player_process() trims the same way).  The decoder delivers Total       *)
(* frames in batches; the first Delay are the encoder's, the last Pad are  *)
(* its padding, and neither is to be heard.  A frame is its index in the   *)
(* decoder's output.                                                       *)
(***************************************************************************)
EXTENDS Integers, Sequences

CONSTANTS
    Total,          \* frames the decoder delivers
    Delay, Pad,     \* IPC_C_GAP_DELAY, IPC_C_GAP_PAD
    Known,          \* the AP knows Total (IPC_C_GAP_TOTAL > 0)
    Chunk,          \* CHUNK_FRAMES
    Seeks           \* positions the user seeks to

ASSUME TrimAssumption ==
    /\ Total \in Nat /\ Delay \in Nat /\ Pad \in Nat
    /\ Known \in BOOLEAN
    /\ Chunk \in Nat \ {0}
    /\ Seeks \subseteq 0 .. Total

VARIABLES
    pos,            \* the decoder's position
    base,           \* where it was last sent to
    trimmed,        \* s_leading_trimmed
    emitted,        \* s_emitted
    beof,           \* IPC_C_BEOF
    out             \* the frames written to the PCM ring since then

trimVars == <<pos, base, trimmed, emitted, beof, out>>

AtLeastZero(n) == IF n > 0 THEN n ELSE 0

TrimLeast(a, b) == IF a < b THEN a ELSE b

TailTarget == AtLeastZero(Total - Delay - Pad)

(* n frames of the decoder's output, from frame f on                       *)
Batch(f, n) == [i \in 1 .. n |-> f + i - 1]

TrimInit ==
    /\ pos = 0 /\ base = 0
    /\ trimmed = (Delay = 0) /\ emitted = 0
    /\ beof = FALSE /\ out = <<>>

(* SEEK: the decoder is repositioned, trim_reset, and the ring is emptied. *)
Seek(p) ==
    /\ pos' = p /\ base' = p
    /\ trimmed' = (Delay = 0) /\ emitted' = 0
    /\ beof' = FALSE /\ out' = <<>>

-----------------------------------------------------------------------------
(* One decode round, after its checks on the ring.                         *)

Got == TrimLeast(Chunk, Total - pos)

Lead == IF trimmed THEN 0 ELSE Delay

(* The decoder is drained.                                                 *)
Drained ==
    /\ ~beof /\ Got = 0
    /\ beof' = TRUE
    /\ UNCHANGED <<pos, base, trimmed, emitted, out>>

(* The whole batch belongs to the encoder's delay: drop it.                *)
Dropped ==
    /\ ~beof /\ Got > 0
    /\ Lead > 0 /\ Lead >= Got
    /\ pos' = pos + Got
    /\ UNCHANGED <<base, trimmed, emitted, beof, out>>

(* Mutant: the delay is trimmed off every batch.                           *)
WrittenTrimming ==
    /\ ~beof /\ Got > 0
    /\ ~(Lead > 0 /\ Lead >= Got)
    /\ LET kept == Got - Lead
           last == Known /\ emitted + kept >= TailTarget
           n    == IF last THEN AtLeastZero(TailTarget - emitted) ELSE kept
       IN  /\ out' = out \o Batch(pos + Lead, n)
           /\ emitted' = emitted + kept
           /\ beof' = last
    /\ pos' = pos + Got
    /\ UNCHANGED <<base, trimmed>>

(* What is left of the batch is written, up to the last audible frame.     *)
Written ==
    /\ ~beof /\ Got > 0
    /\ ~(Lead > 0 /\ Lead >= Got)
    /\ LET kept == Got - Lead
           last == Known /\ emitted + kept >= TailTarget
           n    == IF last THEN AtLeastZero(TailTarget - emitted) ELSE kept
       IN  /\ out' = out \o Batch(pos + Lead, n)
           /\ emitted' = emitted + kept
           /\ beof' = last
    /\ pos' = pos + Got
    /\ trimmed' = TRUE
    /\ UNCHANGED base

Round == Drained \/ Dropped \/ Written

TrimNext == Round \/ \E p \in Seeks : Seek(p)

TrimSpec == TrimInit /\ [][TrimNext]_trimVars

-----------------------------------------------------------------------------
(* Every variable keeps its type.                                          *)
TrimTypeOK ==
    /\ pos \in 0 .. Total /\ base \in 0 .. Total
    /\ trimmed \in BOOLEAN /\ beof \in BOOLEAN
    /\ emitted \in 0 .. Total
    /\ out \in Seq(Nat)

(* The audible part of the track, as its player is to hear it.             *)
Audible == IF Known THEN TailTarget ELSE AtLeastZero(Total - Delay)

(* What reaches the ring runs on without a gap from the first frame past   *)
(* the delay, and a track played from its start to its end is heard        *)
(* exactly: no frame of the delay, none of the padding, none missing       *)
(* (decode_round_inner).                                                   *)
TrimExact ==
    /\ out = Batch(base + Delay, Len(out))
    /\ base = 0 => Len(out) <= Audible
    /\ base = 0 /\ beof => Len(out) = Audible
=============================================================================
