---------------------------- MODULE GaplessTrimMC ----------------------------
(* Small instances of GaplessTrim for TLC.                                 *)
EXTENDS GaplessTrim

Anywhere == 0 .. Total
=============================================================================
