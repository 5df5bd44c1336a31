----------------------------- MODULE PlayQueueMC -----------------------------
(* A list of one format that ends with a file no codec opens, one whose    *)
(* second track has a format of its own, one whose second is gone.         *)
EXTENDS PlayQueue

CONSTANTS ra, rb, rc, rx, rm

PqSomeLists == {<<ra, rb, rx>>, <<ra, rc>>, <<rb, rm>>}
PqSomeFormats == [r \in {ra, rb, rc, rx, rm} |-> IF r = rc THEN 24 ELSE 16]
=============================================================================
