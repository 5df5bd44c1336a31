------------------------------ MODULE PlaybackMC ------------------------------
(* Components of playback that share nothing, side by side: a behaviour    *)
(* follows one of them, its focus, and the others rest, so the state space *)
(* is the sum of theirs.                                                   *)
EXTENDS RingBufMC, GaplessTrimMC, PlayQueueMC, BtLink, TLC

CONSTANTS adrA, adrB, adrC

VARIABLE focus

PlaybackInit ==
    /\ focus \in {"ring", "trim", "queue", "bluetooth"}
    /\ Init /\ TrimInit /\ PqInit /\ BtInit
    /\ focus = "bluetooth" \/ btTab.devices = << >>
    /\ focus = "ring" \/ data = [s \in 0 .. Capacity - 1 |-> CHOOSE v \in Values : TRUE]

PlaybackNext ==
    /\ UNCHANGED focus
    /\ focus # "ring" => UNCHANGED vars
    /\ focus # "trim" => UNCHANGED trimVars
    /\ focus # "queue" => UNCHANGED pqVars
    /\ focus # "bluetooth" => UNCHANGED btVars
    /\ \/ focus = "ring" /\ Next
       \/ focus = "trim" /\ TrimNext
       \/ focus = "queue" /\ PqNext
       \/ focus = "bluetooth" /\ BtNext

PlaybackSpec == PlaybackInit /\ [][PlaybackNext]_<<focus, vars, trimVars, pqVars, btVars>>

PairedOrNot == {<< >>} \cup {s \in BtAddrs \X BtAddrs : s[1] # s[2]}
Addresses == Permutations({adrA, adrB, adrC})

(* Every variable of these components keeps its type.                      *)
PlaybackTypeOK == TypeOK /\ TrimTypeOK /\ PqTypeOK /\ BtTypeOK
=============================================================================
