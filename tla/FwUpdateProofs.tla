--------------------------- MODULE FwUpdateProofs ---------------------------
(***************************************************************************)
(* The two-slot install keeps a whole firmware for images of every length, *)
(* whatever fails and wherever it is cut short, unless it is tried again   *)
(* over a slot 1 it has broken.                                            *)
(***************************************************************************)
EXTENDS FwUpdate, TLAPS

(* How far the slot being written is.                                      *)
FwFront(s) ==
    /\ fwStep > 0 => fwSlot[s][0] = FwBlank
    /\ \A b \in FwBlocks : b > 0 /\ b < fwStep => fwSlot[s][b] = fwImg

FwPhase ==
    /\ fwPc \in {"offered", "slot2", "slot1", "retire"} =>
          fwImg \in FwVersions /\ fwImg = fwFile
    /\ fwPc = "slot2" => FwFront(2) /\ (~fwRisk => FwWhole(1))
    /\ fwPc = "slot1" => FwFront(1) /\ FwHolds(2, fwImg)
    /\ fwPc = "retire" => FwHolds(1, fwImg) /\ FwHolds(2, fwImg)

FwIInv == FwTypeOK /\ FwHeaderLast /\ FwOneSlotWholeAtFirst /\ FwPhase

USE FwAssumption DEF FwBlocks, FwContents, FwPcs

LEMMA FwInitial == FwInit => FwIInv
<1> SUFFICES ASSUME FwInit PROVE FwIInv
  OBVIOUS
<1> PICK v \in FwVersions : fwSlot = [s \in {1, 2} |-> [b \in FwBlocks |-> v]]
  BY DEF FwInit
<1>1. FwHolds(1, v) /\ FwHolds(2, v)
  BY DEF FwHolds
<1>2. FwTypeOK
  <2>1. fwSlot \in [{1, 2} -> [FwBlocks -> FwContents]]
    OBVIOUS
  <2>2. 0 \in 0 .. FwFatWrites /\ 0 \in 0 .. FwLast + 1 /\ 0 \in 0 .. FwInstalls
    OBVIOUS
  <2> QED
    BY <2>1, <2>2 DEF FwInit, FwTypeOK
<1>3. FwHeaderLast
  BY DEF FwHeaderLast, FwHolds
<1>4. FwOneSlotWholeAtFirst
  BY <1>1 DEF FwOneSlotWholeAtFirst, FwOneSlotWhole, FwWhole
<1>5. FwPhase
  BY DEF FwInit, FwPhase
<1> QED
  BY <1>2, <1>3, <1>4, <1>5 DEF FwIInv

(* A write of content c, of the right block of the slot being written.     *)
LEMMA FwWritten ==
    ASSUME FwTypeOK, FwWriting, NEW c \in FwContents,
           fwSlot' = [fwSlot EXCEPT ![FwTarget][FwBlock] = c]
    PROVE  /\ fwSlot' \in [{1, 2} -> [FwBlocks -> FwContents]]
           /\ fwSlot'[FwTarget][FwBlock] = c
           /\ \A b \in FwBlocks : b # FwBlock => fwSlot'[FwTarget][b] = fwSlot[FwTarget][b]
           /\ \A s \in {1, 2} : s # FwTarget => fwSlot'[s] = fwSlot[s]
           /\ FwTarget \in {1, 2} /\ FwBlock \in FwBlocks
<1>1. FwTarget \in {1, 2} /\ FwBlock \in FwBlocks
  BY DEF FwTypeOK, FwTarget, FwBlock
<1> QED
  BY <1>1 DEF FwTypeOK

LEMMA FwSourceType ==
    ASSUME FwIInv, FwWriting
    PROVE  /\ FwSource \in FwContents
           /\ fwStep > 0 => FwSource = fwImg
           /\ fwStep = 0 => FwSource = FwBlank
           /\ fwImg \in FwVersions
<1>1. fwImg \in FwVersions
  BY DEF FwIInv, FwPhase, FwWriting
<1>2. FwBlock \in FwBlocks
  BY DEF FwIInv, FwTypeOK, FwBlock
<1>3. fwPc = "slot1" => fwSlot[2][FwBlock] = fwImg
  BY <1>2 DEF FwIInv, FwPhase, FwHolds
<1>4. fwStep \in Nat
  BY DEF FwIInv, FwTypeOK
<1> QED
  BY <1>1, <1>3, <1>4 DEF FwSource, FwWriting

(* Whatever a write leaves, a header still means a whole image, and the    *)
(* slot that is not written is not touched.                                *)
LEMMA FwHeaderKept ==
    ASSUME FwIInv, FwWriting, NEW c \in {fwSlot[FwTarget][FwBlock], FwSource, FwBad},
           fwSlot' = [fwSlot EXCEPT ![FwTarget][FwBlock] = c]
    PROVE  FwHeaderLast'
<1> DEFINE t == FwTarget
           k == FwBlock
<1>1. c \in FwContents /\ t \in {1, 2} /\ k \in FwBlocks
  BY FwSourceType DEF FwIInv, FwTypeOK, FwTarget, FwBlock
<1>2. /\ fwSlot'[t][k] = c
      /\ \A b \in FwBlocks : b # k => fwSlot'[t][b] = fwSlot[t][b]
      /\ \A s \in {1, 2} : s # t => fwSlot'[s] = fwSlot[s]
  BY <1>1, FwWritten DEF FwIInv
<1>3. FwFront(t) /\ fwStep \in 0 .. FwLast + 1
  BY DEF FwIInv, FwPhase, FwTypeOK, FwWriting, FwTarget
<1> SUFFICES ASSUME NEW s \in {1, 2}, NEW v \in FwVersions, fwSlot'[s][0] = v
             PROVE  \A b \in FwBlocks : fwSlot'[s][b] = v
  BY DEF FwHeaderLast, FwHolds
<1>4. \A b \in FwBlocks : fwSlot[s][0] = v => fwSlot[s][b] = v
  BY DEF FwIInv, FwHeaderLast, FwHolds
<1>5. CASE s # t
  BY <1>2, <1>4, <1>5
<1>6. CASE s = t /\ fwStep = 0
  <2>1. k = 0 /\ FwSource = FwBlank
    BY <1>6, FwSourceType DEF FwBlock
  <2>2. fwSlot[s][0] = v
    BY <1>2, <1>6, <2>1
  <2> QED
    BY <1>2, <1>4, <1>6, <2>1, <2>2
<1>7. CASE s = t /\ fwStep \in 1 .. FwLast
  <2>1. k = fwStep /\ k # 0
    BY <1>7 DEF FwBlock
  <2>2. 0 \in FwBlocks
    OBVIOUS
  <2>3. fwSlot'[s][0] = FwBlank
    BY <1>2, <1>3, <1>7, <2>1, <2>2 DEF FwFront
  <2> QED
    BY <2>3
<1>8. CASE s = t /\ fwStep = FwLast + 1
  <2>1. k = 0 /\ FwSource = fwImg
    BY <1>8, FwSourceType DEF FwBlock
  <2>2. c = v
    BY <1>2, <1>8, <2>1
  <2>3. fwSlot[t][0] = FwBlank
    BY <1>3, <1>8 DEF FwFront
  <2>4. v = fwImg
    BY <2>1, <2>2, <2>3
  <2>5. \A b \in FwBlocks : b > 0 => fwSlot[s][b] = v
    BY <1>3, <1>8, <2>4 DEF FwFront
  <2> QED
    BY <1>2, <1>8, <2>1, <2>2, <2>5
<1>9. fwStep = 0 \/ fwStep \in 1 .. FwLast \/ fwStep = FwLast + 1
  BY <1>3
<1> QED
  BY <1>5, <1>6, <1>7, <1>8, <1>9

(* A firmware that is whole and not being written stays whole.             *)
LEMMA FwOtherKept ==
    ASSUME FwIInv, FwWriting, NEW c \in {fwSlot[FwTarget][FwBlock], FwSource, FwBad},
           fwSlot' = [fwSlot EXCEPT ![FwTarget][FwBlock] = c]
    PROVE  ~fwRisk => FwOneSlotWhole'
<1>1. c \in FwContents
  BY FwSourceType DEF FwIInv, FwTypeOK, FwTarget, FwBlock
<1>2. \A s \in {1, 2} : s # FwTarget => fwSlot'[s] = fwSlot[s]
  BY <1>1, FwWritten DEF FwIInv
<1>3. CASE fwPc = "slot2"
  <2>1. ~fwRisk => FwWhole(1)
    BY <1>3 DEF FwIInv, FwPhase
  <2>2. fwSlot'[1] = fwSlot[1]
    BY <1>2, <1>3 DEF FwTarget
  <2> QED
    BY <2>1, <2>2 DEF FwOneSlotWhole, FwWhole, FwHolds
<1>4. CASE fwPc = "slot1"
  <2>1. FwHolds(2, fwImg) /\ fwImg \in FwVersions
    BY <1>4 DEF FwIInv, FwPhase
  <2>2. fwSlot'[2] = fwSlot[2]
    BY <1>2, <1>4 DEF FwTarget
  <2> QED
    BY <2>1, <2>2 DEF FwOneSlotWhole, FwWhole, FwHolds
<1> QED
  BY <1>3, <1>4 DEF FwWriting

LEMMA FwPutStep == ASSUME FwIInv, FwPut PROVE FwIInv'
<1> DEFINE t == FwTarget
           k == FwBlock
<1>1. FwWriting /\ fwSlot' = [fwSlot EXCEPT ![FwTarget][FwBlock] = FwSource]
  BY DEF FwPut
<1>2. FwHeaderLast' /\ (~fwRisk => FwOneSlotWhole')
  BY <1>1, FwHeaderKept, FwOtherKept
<1>3. /\ FwSource \in FwContents
      /\ fwStep > 0 => FwSource = fwImg
      /\ fwStep = 0 => FwSource = FwBlank
      /\ fwImg \in FwVersions
  BY <1>1, FwSourceType
<1>4. /\ fwSlot' \in [{1, 2} -> [FwBlocks -> FwContents]]
      /\ fwSlot'[t][k] = FwSource
      /\ \A b \in FwBlocks : b # k => fwSlot'[t][b] = fwSlot[t][b]
      /\ \A s \in {1, 2} : s # t => fwSlot'[s] = fwSlot[s]
      /\ t \in {1, 2} /\ k \in FwBlocks
  BY <1>1, <1>3, FwWritten DEF FwIInv
<1>5. FwTypeOK'
  BY <1>4 DEF FwIInv, FwTypeOK, FwPut, FwWriting
<1>6. FwFront(t) /\ fwStep \in 0 .. FwLast + 1
  BY <1>1 DEF FwIInv, FwPhase, FwTypeOK, FwWriting, FwTarget
<1>7. CASE fwStep <= FwLast
  <2>1. fwStep' = fwStep + 1 /\ fwPc' = fwPc /\ fwImg' = fwImg /\ fwFile' = fwFile /\ fwRisk' = fwRisk
    BY <1>7 DEF FwPut
  <2>2. k = fwStep /\ t' = t
    BY <1>6, <1>7, <2>1 DEF FwBlock, FwTarget
  <2>3. fwSlot'[t][0] = FwBlank
    <3>1. CASE fwStep = 0
      BY <1>3, <1>4, <2>2, <3>1
    <3>2. CASE fwStep > 0
      <4>1. 0 \in FwBlocks
        OBVIOUS
      <4> QED
        BY <1>4, <1>6, <2>2, <3>2, <4>1 DEF FwFront
    <3> QED
      BY <1>6, <3>1, <3>2
  <2>4. \A b \in FwBlocks : b > 0 /\ b < fwStep' => fwSlot'[t][b] = fwImg
    <3> SUFFICES ASSUME NEW b \in FwBlocks, b > 0, b < fwStep' PROVE fwSlot'[t][b] = fwImg
      OBVIOUS
    <3>1. CASE b = fwStep
      BY <1>3, <1>4, <2>2, <3>1
    <3>2. CASE b < fwStep
      BY <1>4, <1>6, <2>2, <3>2 DEF FwFront
    <3> QED
      BY <1>6, <2>1, <3>1, <3>2
  <2>6. fwPc = "slot2" => FwFront(2)' /\ (~fwRisk' => FwWhole(1)')
    <3> SUFFICES ASSUME fwPc = "slot2" PROVE FwFront(2)' /\ (~fwRisk' => FwWhole(1)')
      OBVIOUS
    <3>1. t = 2
      BY DEF FwTarget
    <3>2. fwSlot'[1] = fwSlot[1]
      BY <1>4, <3>1
    <3>3. ~fwRisk => FwWhole(1)
      BY DEF FwIInv, FwPhase
    <3>4. ~fwRisk' => FwWhole(1)'
      BY <2>1, <3>2, <3>3 DEF FwWhole, FwHolds
    <3>5. FwFront(2)'
      BY <2>1, <2>3, <2>4, <3>1 DEF FwFront
    <3> QED
      BY <3>4, <3>5
  <2>7. fwPc = "slot1" => FwFront(1)' /\ FwHolds(2, fwImg)'
    <3> SUFFICES ASSUME fwPc = "slot1" PROVE FwFront(1)' /\ FwHolds(2, fwImg)'
      OBVIOUS
    <3>1. t = 1
      BY DEF FwTarget
    <3>2. fwSlot'[2] = fwSlot[2] /\ FwHolds(2, fwImg)
      BY <1>4, <3>1 DEF FwIInv, FwPhase
    <3>3. FwHolds(2, fwImg)'
      BY <2>1, <3>2 DEF FwHolds
    <3>4. FwFront(1)'
      BY <2>1, <2>3, <2>4, <3>1 DEF FwFront
    <3> QED
      BY <3>3, <3>4
  <2> QED
    BY <1>1, <1>2, <1>5, <2>1, <2>6, <2>7
    DEF FwIInv, FwPhase, FwOneSlotWholeAtFirst, FwWriting
<1>8. CASE fwStep = FwLast + 1
  <2>1. /\ fwStep' = 0 /\ fwPc' = (IF fwPc = "slot2" THEN "slot1" ELSE "retire")
        /\ fwImg' = fwImg /\ fwFile' = fwFile /\ fwRisk' = fwRisk
    BY <1>8 DEF FwPut
  <2>2. k = 0 /\ FwSource = fwImg
    BY <1>3, <1>8 DEF FwBlock
  <2>3. \A b \in FwBlocks : fwSlot'[t][b] = fwImg
    BY <1>4, <1>6, <1>8, <2>2 DEF FwFront
  <2>5. CASE fwPc = "slot2"
    <3>1. t = 2
      BY <2>5 DEF FwTarget
    <3>2. FwHolds(2, fwImg)'
      BY <2>1, <2>3, <3>1 DEF FwHolds
    <3>3. FwFront(1)'
      BY <2>1 DEF FwFront
    <3> QED
      BY <1>2, <1>3, <1>5, <2>1, <2>5, <3>2, <3>3
      DEF FwIInv, FwPhase, FwOneSlotWholeAtFirst
  <2>6. CASE fwPc = "slot1"
    <3>1. t = 1
      BY <2>6 DEF FwTarget
    <3>2. FwHolds(1, fwImg)'
      BY <2>1, <2>3, <3>1 DEF FwHolds
    <3>3. fwSlot'[2] = fwSlot[2] /\ FwHolds(2, fwImg)
      BY <1>4, <2>6, <3>1 DEF FwIInv, FwPhase
    <3>4. FwHolds(2, fwImg)'
      BY <2>1, <3>3 DEF FwHolds
    <3> QED
      BY <1>2, <1>3, <1>5, <2>1, <2>6, <3>2, <3>4
      DEF FwIInv, FwPhase, FwOneSlotWholeAtFirst
  <2> QED
    BY <1>1, <2>5, <2>6 DEF FwWriting
<1> QED
  BY <1>6, <1>7, <1>8

(* An install that ends in a write, whatever the write leaves.             *)
LEMMA FwCutStep ==
    ASSUME FwIInv, FwWriting, NEW c \in {fwSlot[FwTarget][FwBlock], FwSource, FwBad},
           fwSlot' = [fwSlot EXCEPT ![FwTarget][FwBlock] = c],
           fwPc' = "idle", fwImg' \in FwVersions \cup {FwNoFile}, fwStep' \in 0 .. FwLast + 1,
           UNCHANGED <<fwFile, fwFreed, fwCount, fwRisk>>
    PROVE  FwIInv'
<1>1. FwHeaderLast' /\ (~fwRisk => FwOneSlotWhole')
  BY FwHeaderKept, FwOtherKept
<1>2. c \in FwContents
  BY FwSourceType DEF FwIInv, FwTypeOK, FwTarget, FwBlock
<1>3. fwSlot' \in [{1, 2} -> [FwBlocks -> FwContents]]
  BY <1>2, FwWritten DEF FwIInv
<1> QED
  BY <1>1, <1>3 DEF FwIInv, FwTypeOK, FwPhase, FwOneSlotWholeAtFirst

LEMMA FwStepLemma == FwIInv /\ [FwNext]_fwVars => FwIInv'
<1> SUFFICES ASSUME FwIInv, [FwNext]_fwVars PROVE FwIInv'
  OBVIOUS
<1> USE DEF FwIInv
(* Steps that leave the slots alone keep what they hold.                   *)
<1>0. ASSUME UNCHANGED fwSlot
      PROVE  /\ FwHeaderLast' /\ (FwOneSlotWhole' <=> FwOneSlotWhole)
             /\ \A s \in {1, 2} : FwWhole(s)' <=> FwWhole(s)
  BY <1>0 DEF FwHeaderLast, FwOneSlotWhole, FwWhole, FwHolds
<1>1. ASSUME NEW v \in FwVersions, FwHostCopies(v) PROVE FwIInv'
  BY <1>0, <1>1 DEF FwHostCopies, FwTypeOK, FwOneSlotWholeAtFirst, FwPhase
<1>2. CASE FwFind
  BY <1>0, <1>2 DEF FwFind, FwTypeOK, FwOneSlotWholeAtFirst, FwPhase
<1>3. CASE FwRefuse
  BY <1>0, <1>3 DEF FwRefuse, FwTypeOK, FwOneSlotWholeAtFirst, FwPhase
<1>4. CASE FwAccept
  <2>1. FwTypeOK'
    BY <1>4 DEF FwAccept, FwTypeOK
  <2>2. ~fwRisk' => FwWhole(1)'
    BY <1>0, <1>4 DEF FwAccept
  <2>3. FwOneSlotWholeAtFirst'
    BY <2>2 DEF FwOneSlotWholeAtFirst, FwOneSlotWhole
  <2>4. FwFront(2)'
    BY <1>4 DEF FwAccept, FwFront
  <2>5. FwPhase'
    BY <1>4, <2>2, <2>4 DEF FwAccept, FwPhase
  <2> QED
    BY <1>0, <1>4, <2>1, <2>3, <2>5 DEF FwAccept
<1>5. CASE FwPut
  BY <1>5, FwPutStep
<1>6. CASE FwPutFails
  <2>1. fwImg' \in FwVersions \cup {FwNoFile} /\ fwStep' \in 0 .. FwLast + 1
    BY <1>6 DEF FwPutFails, FwFails, FwTypeOK
  <2> QED
    BY <1>6, <2>1, FwCutStep DEF FwPutFails, FwFails
<1>7. CASE FwReadFails
  <2>1. fwPc = "retire" \/ FwWriting
    BY <1>7 DEF FwReadFails
  <2>2. ~fwRisk => FwOneSlotWhole
    BY DEF FwOneSlotWholeAtFirst
  <2> QED
    BY <1>0, <1>7, <2>2 DEF FwReadFails, FwFails, FwTypeOK, FwOneSlotWholeAtFirst, FwPhase
<1>8. CASE FwRetire
  <2>1. FwTypeOK'
    BY <1>8 DEF FwRetire, FwTypeOK
  <2>2. FwOneSlotWholeAtFirst'
    BY <1>0, <1>8 DEF FwRetire, FwOneSlotWholeAtFirst
  <2>3. FwPhase'
    BY <1>8 DEF FwRetire, FwPhase, FwHolds
  <2> QED
    BY <1>0, <1>8, <2>1, <2>2, <2>3 DEF FwRetire
<1>9. CASE FwRetireFails
  <2>1. FwTypeOK'
    BY <1>9 DEF FwRetireFails, FwTypeOK
  <2>2. FwOneSlotWholeAtFirst'
    BY <1>0, <1>9 DEF FwRetireFails, FwOneSlotWholeAtFirst
  <2> QED
    BY <1>0, <1>9, <2>1, <2>2 DEF FwRetireFails, FwPhase
<1>10. CASE FwPowerCut
  <2>1. CASE FwWriting
    <3>1. fwPc # "retire"
      BY <2>1 DEF FwWriting
    <3>2. fwStep' \in 0 .. FwLast + 1
      BY <1>10 DEF FwPowerCut
    <3> QED
      BY <1>10, <2>1, <3>1, <3>2, FwCutStep DEF FwPowerCut
  <2>2. CASE ~FwWriting
    <3>1. UNCHANGED fwSlot
      BY <1>10, <2>2 DEF FwPowerCut
    <3>2. FwTypeOK'
      BY <1>10, <3>1 DEF FwPowerCut, FwTypeOK
    <3>3. FwOneSlotWholeAtFirst'
      BY <1>0, <1>10, <3>1 DEF FwPowerCut, FwOneSlotWholeAtFirst
    <3> QED
      BY <1>0, <1>10, <3>1, <3>2, <3>3 DEF FwPowerCut, FwPhase
  <2> QED
    BY <2>1, <2>2
<1>11. CASE UNCHANGED fwVars
  BY <1>11 DEF fwVars, FwTypeOK, FwHeaderLast, FwOneSlotWholeAtFirst, FwOneSlotWhole,
     FwWhole, FwHolds, FwPhase, FwFront
<1> QED
  BY <1>1, <1>2, <1>3, <1>4, <1>5, <1>6, <1>7, <1>8, <1>9, <1>10, <1>11 DEF FwNext, FwInstall

(* Every variable has its type (fw_update.c).                              *)
THEOREM FwTypeCorrect == FwSpec => []FwTypeOK
<1>1. FwIInv => FwTypeOK
  BY DEF FwIInv
<1> QED
  BY <1>1, FwInitial, FwStepLemma, PTL DEF FwSpec

(* A slot with a header holds the whole image, for images of every length: *)
(* the header block goes last, in both slots, however an install ends.     *)
THEOREM FwHeaderGoesLast == FwSpec => []FwHeaderLast
<1>1. FwIInv => FwHeaderLast
  BY DEF FwIInv
<1> QED
  BY <1>1, FwInitial, FwStepLemma, PTL DEF FwSpec

(* One slot holds a complete firmware at every point of an install that    *)
(* began with slot 1 complete, and after it, whatever fails.               *)
THEOREM FwNeverBricks == FwSpec => []FwOneSlotWholeAtFirst
<1>1. FwIInv => FwOneSlotWholeAtFirst
  BY DEF FwIInv
<1> QED
  BY <1>1, FwInitial, FwStepLemma, PTL DEF FwSpec

(* The image leaves the volume only when both slots hold all of it.        *)
THEOREM FwRetiresLast == FwSpec => FwRetiredIfInstalled
<1> DEFINE Deleted == fwFreed' > fwFreed \/ (fwFile # FwNoFile /\ fwFile' = FwNoFile)
<1>1. ASSUME FwIInv, [FwNext]_fwVars, Deleted
      PROVE  \A s \in {1, 2} : FwHolds(s, fwFile)
  <2>0. fwFreed \in Nat /\ fwFile \in FwVersions \cup {FwNoFile}
    BY <1>1 DEF FwIInv, FwTypeOK
  <2>1. fwPc = "retire"
    <3>1. ASSUME NEW v \in FwVersions PROVE ~FwHostCopies(v)
      BY <1>1, <2>0, <3>1 DEF FwHostCopies
    <3>2. ~(FwFind \/ FwRefuse \/ FwInstall \/ UNCHANGED fwVars)
      BY <1>1, <2>0 DEF FwFind, FwRefuse, FwInstall, FwAccept, FwPut, FwPutFails, FwReadFails,
         FwFails, fwVars
    <3>3. FwPowerCut => fwPc = "retire"
      BY <1>1, <2>0 DEF FwPowerCut
    <3> QED
      BY <1>1, <3>1, <3>2, <3>3 DEF FwNext, FwRetire, FwRetireFails
  <2> QED
    BY <1>1, <2>1 DEF FwIInv, FwPhase
<1>2. FwIInv /\ [FwNext]_fwVars => [Deleted => \A s \in {1, 2} : FwHolds(s, fwFile)]_fwVars
  BY <1>1
<1> QED
  BY <1>2, FwInitial, FwStepLemma, PTL DEF FwSpec, FwRetiredIfInstalled
=============================================================================
