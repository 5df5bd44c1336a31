------------------------------ MODULE RingBufMC ------------------------------
(* RingBuf with a ring of four bytes whose counters wrap after eight, so   *)
(* that both the slot index and the counters wrap within a few calls.      *)
EXTENDS RingBuf

MCCapacity == 4
MCModulus == 8
MCMaxLen == 2
MCValues == {0, 1}
=============================================================================
