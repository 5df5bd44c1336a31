------------------------------ MODULE StorageMC ------------------------------
(* The components that write to the flash, side by side: a behaviour       *)
(* follows one of them, its focus, and the others rest, so the state space *)
(* is the sum of theirs.                                                   *)
EXTENDS FwUpdate, Store, MediaDb, FatFile, LogFlush

VARIABLE focus

StorageInit ==
    /\ focus \in {"update", "store", "media", "fat", "log"}
    /\ FwInit /\ StInit /\ MdInit /\ FfInit /\ LgInit
    /\ focus = "update" \/ FwHolds(1, CHOOSE v \in FwVersions : TRUE)
    /\ focus = "store" \/ stHead = [s \in StSlots |-> StNone]
    /\ focus = "log" \/ lgWriter

StorageNext ==
    /\ UNCHANGED focus
    /\ focus # "update" => UNCHANGED fwVars
    /\ focus # "store" => UNCHANGED stVars
    /\ focus # "media" => UNCHANGED mdVars
    /\ focus # "fat" => UNCHANGED ffVars
    /\ focus # "log" => UNCHANGED lgVars
    /\ \/ focus = "update" /\ FwNext
       \/ focus = "store" /\ StStep
       \/ focus = "media" /\ MdNext
       \/ focus = "fat" /\ FfNext
       \/ focus = "log" /\ LgNext

StorageSpec ==
    StorageInit /\ [][StorageNext]_<<focus, fwVars, stVars, mdVars, ffVars, lgVars>>

FirstSeqs == {6}

(* Every variable of these components keeps its type.                      *)
StorageTypeOK == FwTypeOK /\ StTypeOK /\ MdTypeOK /\ FfTypeOK /\ LgTypeOK
=============================================================================
