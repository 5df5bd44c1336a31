------------------------------ MODULE FwUpdate ------------------------------
(***************************************************************************)
(* The firmware update (firmware/services/fw_update.c, offered by          *)
(* update_prompt of firmware/startup/ap_ui.c after every USB session).     *)
(* The eMMC holds two firmware slots; an install writes slot 2 from the    *)
(* image on the user volume and then slot 1 from slot 2, each slot's       *)
(* header block blanked first and written last, every block read back.     *)
(* A finished install deletes the image, FAT sectors before the directory  *)
(* entry.  A block is the version whose image it belongs to, blank or      *)
(* damaged: a damaged one is whatever an interrupted or failed write       *)
(* leaves that is no whole block of an image.                              *)
(***************************************************************************)
EXTENDS Integers

CONSTANTS
    FwVersions,     \* firmware images
    FwLast,         \* the last block of an image; block 0 holds the header
    FwFatWrites,    \* FAT sectors that retiring writes, all copies
    FwInstalls,     \* bound: installs begun
    FwFaults,       \* a subset of FwFaultKinds
    FwBlank, FwBad, \* a block of 0xFF, a damaged block
    FwNoFile        \* no image

FwFaultKinds == {"read", "write", "power"}

ASSUME FwAssumption ==
    /\ FwLast \in Nat /\ FwFatWrites \in Nat \ {0} /\ FwInstalls \in Nat
    /\ FwFaults \subseteq FwFaultKinds
    /\ FwBlank \notin FwVersions /\ FwBad \notin FwVersions
    /\ FwNoFile \notin FwVersions

VARIABLES
    fwSlot,         \* slot -> block -> content
    fwFile,         \* the image on the user volume
    fwFreed,        \* FAT sectors of it that retiring has written
    fwImg,          \* img of update_prompt, once it was validated
    fwPc,           \* where update_prompt is
    fwStep,         \* blocks of the slot being written: header, body, header
    fwCount,        \* installs begun
    fwRisk          \* history: slot 1 was not whole when the last install began

fwVars == <<fwSlot, fwFile, fwFreed, fwImg, fwPc, fwStep, fwCount, fwRisk>>

FwBlocks == 0 .. FwLast
FwContents == FwVersions \cup {FwBlank, FwBad}
FwPcs == {"idle", "offered", "slot2", "slot1", "retire"}

FwHolds(s, v) == \A b \in FwBlocks : fwSlot[s][b] = v

FwWhole(s) == \E v \in FwVersions : FwHolds(s, v)

FwInit ==
    /\ \E v \in FwVersions : fwSlot = [s \in {1, 2} |-> [b \in FwBlocks |-> v]]
    /\ fwFile = FwNoFile /\ fwFreed = 0
    /\ fwImg = FwNoFile /\ fwPc = "idle" /\ fwStep = 0
    /\ fwCount = 0 /\ fwRisk = FALSE

(* A USB session: the host puts an image on the volume.                    *)
FwHostCopies(v) ==
    /\ fwPc = "idle"
    /\ fwFile' = v /\ fwFreed' = 0
    /\ UNCHANGED <<fwSlot, fwImg, fwPc, fwStep, fwCount, fwRisk>>

(* fw_update_find: the image counts if its clusters still follow one       *)
(* another in the first FAT.                                               *)
FwFind ==
    /\ fwPc = "idle"
    /\ fwFile # FwNoFile /\ fwFreed = 0
    /\ fwImg' = fwFile /\ fwPc' = "offered"
    /\ UNCHANGED <<fwSlot, fwFile, fwFreed, fwStep, fwCount, fwRisk>>

(* The user answers BACK.                                                  *)
FwRefuse ==
    /\ fwPc = "offered"
    /\ fwPc' = "idle"
    /\ UNCHANGED <<fwSlot, fwFile, fwFreed, fwImg, fwStep, fwCount, fwRisk>>

(* The user answers PLAY: the install begins with slot 2.                  *)
FwAccept ==
    /\ fwPc = "offered" /\ fwCount < FwInstalls
    /\ fwPc' = "slot2" /\ fwStep' = 0
    /\ fwCount' = fwCount + 1 /\ fwRisk' = ~FwWhole(1)
    /\ UNCHANGED <<fwSlot, fwFile, fwFreed, fwImg>>

FwWriting == fwPc \in {"slot2", "slot1"}

FwTarget == IF fwPc = "slot2" THEN 2 ELSE 1

(* The blocks in the order they are written: the header's place, 1 ..      *)
(* FwLast, and the header's place again.                                   *)
FwBlock == IF fwStep > FwLast THEN 0 ELSE fwStep

(* Mutant: the header is not blanked first.                                *)
FwSourceAtOnce == IF fwPc = "slot2" THEN fwImg ELSE fwSlot[2][FwBlock]

(* What goes there: blank, then the image's block, or slot 2's.            *)
FwSource ==
    IF fwStep = 0 THEN FwBlank
    ELSE IF fwPc = "slot2" THEN fwImg ELSE fwSlot[2][FwBlock]

FwFails ==
    /\ fwPc' = "idle"
    /\ UNCHANGED <<fwFile, fwFreed, fwImg, fwStep, fwCount, fwRisk>>

(* put: the block is written and reads back equal.                         *)
FwPut ==
    /\ FwWriting
    /\ fwSlot' = [fwSlot EXCEPT ![FwTarget][FwBlock] = FwSource]
    /\ IF fwStep <= FwLast
          THEN fwStep' = fwStep + 1 /\ UNCHANGED fwPc
          ELSE /\ fwStep' = 0
               /\ fwPc' = IF fwPc = "slot2" THEN "slot1" ELSE "retire"
    /\ UNCHANGED <<fwFile, fwFreed, fwImg, fwCount, fwRisk>>

(* Mutant: the result of the read-back is dropped.                         *)
FwPutFailsSilently ==
    /\ FwWriting /\ "write" \in FwFaults
    /\ \E c \in {fwSlot[FwTarget][FwBlock], FwSource, FwBad} :
          fwSlot' = [fwSlot EXCEPT ![FwTarget][FwBlock] = c]
    /\ IF fwStep <= FwLast
          THEN fwStep' = fwStep + 1 /\ UNCHANGED fwPc
          ELSE /\ fwStep' = 0
               /\ fwPc' = IF fwPc = "slot2" THEN "slot1" ELSE "retire"
    /\ UNCHANGED <<fwFile, fwFreed, fwImg, fwCount, fwRisk>>

(* put: the write fails, or the block does not read back equal or at all;  *)
(* the install ends with an error, the block in whatever state.            *)
FwPutFails ==
    /\ FwWriting /\ "write" \in FwFaults
    /\ \E c \in {fwSlot[FwTarget][FwBlock], FwSource, FwBad} :
          fwSlot' = [fwSlot EXCEPT ![FwTarget][FwBlock] = c]
    /\ FwFails

(* The source block, or the directory sector of retiring, cannot be read.  *)
FwReadFails ==
    /\ "read" \in FwFaults
    /\ (FwWriting /\ fwStep > 0) \/ fwPc = "retire"
    /\ UNCHANGED fwSlot /\ FwFails

(* fw_update_retire: the next FAT sector, and the directory entry last.    *)
FwRetire ==
    /\ fwPc = "retire"
    /\ IF fwFreed < FwFatWrites
          THEN fwFreed' = fwFreed + 1 /\ UNCHANGED <<fwFile, fwPc>>
          ELSE fwFile' = FwNoFile /\ fwFreed' = 0 /\ fwPc' = "idle"
    /\ UNCHANGED <<fwSlot, fwImg, fwStep, fwCount, fwRisk>>

(* A write of retiring fails; the update counts as done all the same.      *)
FwRetireFails ==
    /\ fwPc = "retire" /\ "write" \in FwFaults
    /\ fwFreed' \in {fwFreed, IF fwFreed < FwFatWrites THEN fwFreed + 1 ELSE fwFreed}
    /\ fwPc' = "idle"
    /\ UNCHANGED <<fwSlot, fwFile, fwImg, fwStep, fwCount, fwRisk>>

(* Power is lost: the block, or the FAT sector, being written may be as it *)
(* was, as it should be, or damaged.                                       *)
FwPowerCut ==
    /\ "power" \in FwFaults /\ fwPc # "idle"
    /\ IF FwWriting
          THEN \E c \in {fwSlot[FwTarget][FwBlock], FwSource, FwBad} :
                  fwSlot' = [fwSlot EXCEPT ![FwTarget][FwBlock] = c]
          ELSE UNCHANGED fwSlot
    /\ IF fwPc = "retire" /\ fwFreed < FwFatWrites
          THEN fwFreed' \in {fwFreed, fwFreed + 1}
          ELSE UNCHANGED fwFreed
    /\ fwPc' = "idle" /\ fwImg' = FwNoFile /\ fwStep' = 0
    /\ UNCHANGED <<fwFile, fwCount, fwRisk>>

FwInstall == FwAccept \/ FwPut \/ FwPutFails \/ FwReadFails

FwNext ==
    \/ \E v \in FwVersions : FwHostCopies(v)
    \/ FwFind \/ FwRefuse \/ FwInstall
    \/ FwRetire \/ FwRetireFails
    \/ FwPowerCut

FwSpec == FwInit /\ [][FwNext]_fwVars

-----------------------------------------------------------------------------
(* Every variable has its type.                                            *)
FwTypeOK ==
    /\ fwSlot \in [{1, 2} -> [FwBlocks -> FwContents]]
    /\ fwFile \in FwVersions \cup {FwNoFile}
    /\ fwFreed \in 0 .. FwFatWrites
    /\ fwImg \in FwVersions \cup {FwNoFile}
    /\ fwPc \in FwPcs /\ fwStep \in 0 .. FwLast + 1
    /\ fwCount \in 0 .. FwInstalls /\ fwRisk \in BOOLEAN

(* A slot whose header block belongs to an image holds all of that image,  *)
(* at every point of every install, failed, cut short or repeated: "each   *)
(* slot's header block goes last" (fw_update.h).                           *)
FwHeaderLast ==
    \A s \in {1, 2} : \A v \in FwVersions : fwSlot[s][0] = v => FwHolds(s, v)

(* fw_install_impl: "at every point one slot holds either the old or the   *)
(* new firmware, complete".                                                *)
FwOneSlotWhole == \E s \in {1, 2} : FwWhole(s)

(* It does as long as every install begins with slot 1 whole: only an      *)
(* install that is tried again after it failed in slot 1 does not.         *)
FwOneSlotWholeAtFirst == ~fwRisk => FwOneSlotWhole

(* The image is taken off the volume only when both slots hold it.         *)
FwRetiredIfInstalled ==
    [][fwFreed' > fwFreed \/ (fwFile # FwNoFile /\ fwFile' = FwNoFile)
          => \A s \in {1, 2} : FwHolds(s, fwFile)]_fwVars
=============================================================================
