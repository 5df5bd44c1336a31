----------------------------- MODULE EqSeqlockMC -----------------------------
(* A small instance of EqSeqlock for TLC: three curves of one to three     *)
(* bands that differ in every word they share.                             *)
EXTENDS EqSeqlock

Words == 0 .. 3
Curve(v, n) ==
    [en |-> v % 2, n |-> n, ext |-> v,
     band |-> [i \in 1 .. Bands |-> IF i <= n THEN v ELSE 0]]
ThreeCurves == {Curve(1, 3), Curve(2, 1), Curve(3, 2)}
=============================================================================
