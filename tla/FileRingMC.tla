----------------------------- MODULE FileRingMC -----------------------------
(* Two instances.  A track longer than its ring and a short one after it:  *)
(* ring 0 holds two chunks of two sectors of two bytes, the first file     *)
(* ends inside a sector and so does one seek target; both rings are in     *)
(* service, pre-opened, promoted and retired.  And one file on rings of    *)
(* one byte, for the runs with every fault.                                *)
EXTENDS FileRing, TLC

CONSTANTS f1, f2

OneFile == {f1}
TwoFiles == {f1, f2}
NoNext == {}
SecondFile == {f2}
LongAndShort == (f1 :> 9) @@ (f2 :> 1)
LongRings == (0 :> 8) @@ (1 :> 4)
TwoBytes == (f1 :> 2)
OneByteRings == (0 :> 1) @@ (1 :> 1)
Lens1 == {1}
Lens3 == {3}
Seeks03 == {0, 3}
Seeks37 == {3, 7}
ReadFaults == {"read_error", "stall"}
=============================================================================
