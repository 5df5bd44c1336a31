---------------------------- MODULE StorageProofs ----------------------------
(***************************************************************************)
(* That the record store (firmware/services/store.c) and the media index   *)
(* (firmware/services/media_db.c) implement RecordRegister: for any set of *)
(* records, any payload length, any width of the sequence number above 2,  *)
(* any number of saves or builds and any set of faults.  Each has an       *)
(* inductive invariant, StInv and MdInv, that says where a write in hand   *)
(* was placed and what it has left alone; each action of the component has *)
(* a lemma that it keeps the invariant and is a step of the register.      *)
(* Then the log (firmware/services/log.c): no line is missing from what    *)
(* can be read without a line that says how many were lost, by LgInv.      *)
(* The FAT volume (firmware/services/fs_target.c), as long as its FAT can  *)
(* be read: chains end, cover their files and share no cluster, and no     *)
(* cluster is lost but through a call that did not come to its end, by     *)
(* FfInv, which says what is left to write after each sector; and a call   *)
(* is seen whole or not at all, by FfContent, which says what the files    *)
(* hold meanwhile.  Last, all of them beside the firmware update, as       *)
(* StorageMC.tla puts them.                                                *)
(***************************************************************************)
EXTENDS StorageMC, FwUpdateProofs, SequenceTheorems, FiniteSetTheorems,
        WellFoundedInduction, TLAPS

-----------------------------------------------------------------------------
(* The record store.                                                       *)

(* A save in progress is placed over the slot that is not in use, under a  *)
(* number that makes it the newest, once nothing kept it from seeing the   *)
(* headers.                                                                *)
StPlaced ==
    /\ stPc \in {"payload", "header"} /\ ~stBlind =>
          stTarget = StTargetOf(StHeaders) /\ stSeq = StSeqOf(StHeaders)
    /\ stPc = "verify" /\ ~stBlind /\ stHead[stTarget] = StHeader =>
          StNewest(StHeaders) = stTarget

(* The header is written after all of its payload.                         *)
StPayloadFirst ==
    /\ stPc \in {"payload", "header"} /\ ~stMedia =>
          \A i \in StSectors : i < stNext => stPay[stTarget][i] = stRec
    /\ stPc = "header" => stNext = StPayLen + 1

StInv == StTypeOK /\ StPlaced /\ StPayloadFirst /\ (StWeak => stMedia)

(* What is assumed of the constants.                                       *)
LEMMA StConstants ==
    /\ StPayLen \in Nat /\ StSeqMod \in Nat /\ StSeqMod > 2
    /\ StFirstSeqs \subseteq StSeqs /\ StSaves \in Nat
    /\ StNone \notin StRecords /\ StNone \notin [seq : StSeqs, rec : StRecords]
BY StAssumption DEF StSeqs

(* The next number is a number, and newer than the one it follows.         *)
LEMMA StSuccNewer ==
    ASSUME NEW a \in StSeqs
    PROVE  StSucc(a) \in StSeqs /\ StNewer(StSucc(a), a) /\ ~StNewer(a, StSucc(a))
<1>1. a \in Int /\ 0 <= a /\ a < StSeqMod /\ StSeqMod \in Int /\ StSeqMod > 2
  BY StConstants DEF StSeqs
<1>2. CASE a + 1 = StSeqMod
  <2>1. StSucc(a) = 0
    BY <1>2 DEF StSucc
  <2> QED BY <1>1, <1>2, <2>1 DEF StSeqs, StNewer
<1>3. CASE a + 1 # StSeqMod
  <2>1. StSucc(a) = a + 1 /\ a + 1 < StSeqMod
    BY <1>1, <1>3 DEF StSucc
  <2> QED BY <1>1, <2>1 DEF StSeqs, StNewer
<1> QED BY <1>2, <1>3

(* What the slots hold, one by one.                                        *)
LEMMA StSlotTypes ==
    ASSUME StTypeOK, NEW s \in StSlots
    PROVE  /\ stHead[s] \in StHeads
           /\ StValid(s) => /\ stHead[s].seq \in StSeqs /\ stHead[s].rec \in StRecords
                            /\ stHead[s].rec # StNone
           /\ \A i \in StSectors : stPay[s][i] \in StRecords \cup {StNone}
           /\ s \in StHeaders <=> StValid(s)
<1>1. stHead[s] \in StHeads
  BY DEF StTypeOK
<1>2. \A i \in StSectors : stPay[s][i] \in StRecords \cup {StNone}
  BY DEF StTypeOK
<1> QED BY <1>1, <1>2, StConstants DEF StHeads, StValid, StHeaders

(* The newest slot is one of those whose header is valid.                  *)
LEMMA StNewestValid ==
    ASSUME StHeaders # {}
    PROVE  StNewest(StHeaders) \in StHeaders /\ StNewest(StHeaders) \in StSlots
BY DEF StNewest, StHeaders, StSlots

(* The record a load gives while the newest slot is sound.                 *)
LEMMA StLoadedStrong ==
    ASSUME ~StWeak
    PROVE  StLoaded = IF StHeaders = {} THEN StNone ELSE stHead[StNewest(StHeaders)].rec
<1>1. StHeaders = {} => StHeaders # StSlots
  BY DEF StSlots
<1> QED BY <1>1 DEF StLoaded, StWeak

(* A load gives a record or none.                                          *)
LEMMA StLoadedType ==
    ASSUME StTypeOK
    PROVE  StLoaded \in StRecords \cup {StNone}
<1>1. ASSUME NEW s \in StSlots, StSound(s) PROVE stHead[s].rec \in StRecords
  BY <1>1, StSlotTypes DEF StSound
<1>2. StHeaders # {} => StNewest(StHeaders) \in StSlots
  BY StNewestValid
<1>3. StNewest(StHeaders) \in StSlots => 1 - StNewest(StHeaders) \in StSlots
  BY DEF StSlots
<1>4. StHeaders = StSlots => StHeaders # {}
  BY DEF StSlots
<1> QED BY <1>1, <1>2, <1>3, <1>4 DEF StLoaded

(* What a save is about to write.                                          *)
LEMMA StHeaderType ==
    ASSUME StTypeOK, stPc # "idle"
    PROVE  /\ StHeader \in StHeads /\ StHeader # StNone /\ stRec \in StRecords
           /\ StHeader.seq = stSeq /\ StHeader.rec = stRec /\ stTarget \in StSlots
BY StConstants DEF StTypeOK, StHeader, StHeads

(* Writing over the slot a save was placed in leaves the newest slot and   *)
(* its record alone.                                                       *)
LEMMA StTargetApart ==
    ASSUME StInv, stPc \in {"payload", "header"}, ~stBlind, StHeaders # {}
    PROVE  StNewest(StHeaders) # stTarget /\ StNewest(StHeaders) \in StSlots
           /\ StNewest(StHeaders) = 1 - stTarget
<1>1. stTarget = 1 - StNewest(StHeaders)
  BY DEF StInv, StPlaced, StTargetOf
<1>2. StNewest(StHeaders) \in StSlots
  BY StNewestValid
<1> QED BY <1>1, <1>2 DEF StSlots

(* A header that is damaged, or not written, leaves the newest slot alone. *)
LEMMA StTornHeader ==
    ASSUME StInv, stPc = "header", ~stBlind,
           stHead' = [stHead EXCEPT ![stTarget] = StNone]
    PROVE  /\ (StHeaders # {})' <=> StHeaders # {}
           /\ StHeaders # {} => StNewest(StHeaders)' = StNewest(StHeaders)
           /\ \A s \in StSlots : s # stTarget => stHead'[s] = stHead[s]
<1>1. stTarget \in StSlots /\ stHead \in [StSlots -> StHeads]
  BY DEF StInv, StTypeOK
<1>2. /\ stHead'[stTarget] = StNone
      /\ \A s \in StSlots : s # stTarget => stHead'[s] = stHead[s]
  BY <1>1
<1>3. StHeaders' = StHeaders \ {stTarget}
  BY <1>2 DEF StHeaders, StValid
<1>4. CASE StHeaders = {}
  BY <1>2, <1>3, <1>4
<1>5. CASE StHeaders # {}
  <2>1. StNewest(StHeaders) # stTarget /\ StNewest(StHeaders) \in StSlots
    BY <1>5, StTargetApart
  <2>2. StNewest(StHeaders) \in StHeaders
    BY <1>5, StNewestValid
  <2>3. StHeaders' = {StNewest(StHeaders)}
    BY <1>1, <1>3, <2>1, <2>2 DEF StSlots, StHeaders
  <2>4. StNewest(StHeaders)' = StNewest(StHeaders)
    BY <2>1, <2>3 DEF StNewest, StSlots
  <2> QED BY <1>2, <1>5, <2>3, <2>4
<1> QED BY <1>4, <1>5

(* The commit: the header written makes its slot the newest.               *)
LEMMA StCommits ==
    ASSUME StInv, stPc = "header", ~stBlind,
           stHead' = [stHead EXCEPT ![stTarget] = StHeader]
    PROVE  /\ stTarget \in StHeaders' /\ StNewest(StHeaders)' = stTarget
           /\ stHead'[stTarget] = StHeader
           /\ \A s \in StSlots : s # stTarget => stHead'[s] = stHead[s]
           /\ StHeaders' = StHeaders \cup {stTarget}
<1>1. /\ stTarget \in StSlots /\ stHead \in [StSlots -> StHeads]
      /\ StHeader # StNone /\ StHeader.seq = stSeq
  BY StHeaderType DEF StInv, StTypeOK
<1>2. /\ stHead'[stTarget] = StHeader
      /\ \A s \in StSlots : s # stTarget => stHead'[s] = stHead[s]
  BY <1>1
<1>3. StHeaders' = StHeaders \cup {stTarget}
  BY <1>1, <1>2 DEF StHeaders, StValid
<1>4. CASE StHeaders = {}
  <2>1. StHeaders' = {stTarget}
    BY <1>3, <1>4
  <2>2. StNewest(StHeaders)' = stTarget
    BY <1>1, <2>1 DEF StNewest, StSlots
  <2> QED BY <1>2, <1>3, <2>2
<1>5. CASE StHeaders # {}
  <2> DEFINE n == StNewest(StHeaders)
  <2>1. n # stTarget /\ n \in StSlots /\ n \in StHeaders
    BY <1>5, StTargetApart, StNewestValid
  <2>2. stSeq = StSucc(stHead[n].seq)
    BY <1>5 DEF StInv, StPlaced, StSeqOf
  <2>3. stHead[n].seq \in StSeqs
    BY <2>1, StSlotTypes DEF StInv
  <2> HIDE DEF n
  <2>4. StNewer(stSeq, stHead[n].seq) /\ ~StNewer(stHead[n].seq, stSeq)
    BY <2>2, <2>3, StSuccNewer
  <2>5. stHead'[n] = stHead[n] /\ stHead'[stTarget].seq = stSeq
    BY <1>1, <1>2, <2>1
  <2>6. StHeaders' = StSlots
    BY <1>1, <1>3, <2>1 DEF StSlots, StHeaders
  <2>7. StNewest(StHeaders)' =
          IF StNewer(stHead'[0].seq, stHead'[1].seq) THEN 0 ELSE 1
    BY <2>6 DEF StNewest, StNewer
  <2>8. (n = 0 /\ stTarget = 1) \/ (n = 1 /\ stTarget = 0)
    BY <1>1, <2>1 DEF StSlots
  <2>9. StNewest(StHeaders)' = stTarget
    BY <2>4, <2>5, <2>7, <2>8
  <2> QED BY <1>2, <1>3, <2>9
<1> QED BY <1>4, <1>5

(* The same two facts of the state after a step.                           *)
LEMMA StLoadedNext ==
    /\ StTypeOK' => StLoaded' \in StRecords \cup {StNone}
    /\ ~StWeak' => StLoaded' = IF StHeaders' = {} THEN StNone
                               ELSE stHead'[StNewest(StHeaders)'].rec
<1>1. StTypeOK => StLoaded \in StRecords \cup {StNone}
  BY StLoadedType
<1>2. ~StWeak => StLoaded = IF StHeaders = {} THEN StNone ELSE stHead[StNewest(StHeaders)].rec
  BY StLoadedStrong
<1>3. (StTypeOK => StLoaded \in StRecords \cup {StNone})'
  BY <1>1, PTL
<1>4. (~StWeak => StLoaded = IF StHeaders = {} THEN StNone
                             ELSE stHead[StNewest(StHeaders)].rec)'
  BY <1>2, PTL
<1> QED BY <1>3, <1>4

(* A fresh region and the slots of an earlier save are in order.           *)
LEMMA StInitInv == StInit => StInv /\ Register!Init
<1> SUFFICES ASSUME StInit PROVE StInv /\ Register!Init
  OBVIOUS
<1>1. stHead \in [StSlots -> StHeads]
  <2>1. CASE stHead = [s \in StSlots |-> StNone]
    BY <2>1 DEF StHeads
  <2>2. ASSUME NEW q \in StFirstSeqs, NEW n \in StSlots, NEW r \in [StSlots -> StRecords],
               stHead = [s \in StSlots |-> [seq |-> IF s = n THEN StSucc(q) ELSE q, rec |-> r[s]]]
        PROVE  stHead \in [StSlots -> StHeads]
    <3>1. q \in StSeqs /\ StSucc(q) \in StSeqs
      BY StConstants, StSuccNewer
    <3> QED BY <2>2, <3>1 DEF StHeads
  <2> QED BY <2>1, <2>2 DEF StInit
<1>2. ASSUME NEW s \in StSlots, NEW i \in StSectors
      PROVE  /\ stPay[s][i] \in StRecords \cup {StNone}
             /\ stHead[s] # StNone => stPay[s][i] = stHead[s].rec
  <2>1. stPay[s][i] = IF stHead[s] = StNone THEN StNone ELSE stHead[s].rec
    BY DEF StInit
  <2>2. stHead[s] \in StHeads
    BY <1>1
  <2> QED BY <2>1, <2>2 DEF StHeads
<1>3. StTypeOK
  <2>1. 0 \in StSlots /\ 0 \in StSeqs /\ 1 \in 1 .. StPayLen + 1 /\ 0 \in 0 .. StSaves
    BY StConstants DEF StSlots, StSeqs
  <2>2. stPay \in [StSlots -> [StSectors -> StRecords \cup {StNone}]]
    BY <1>2 DEF StInit
  <2> QED BY <1>1, <2>1, <2>2 DEF StTypeOK, StInit
<1>4. ASSUME NEW s \in StSlots, StValid(s) PROVE StSound(s)
  BY <1>2, <1>4 DEF StSound, StValid
<1>5. ~StWeak
  <2>1. StHeaders # {} => StNewest(StHeaders) \in StHeaders /\ StNewest(StHeaders) \in StSlots
    BY StNewestValid
  <2> QED BY <1>4, <2>1 DEF StWeak, StHeaders, StInit
<1>6. StPlaced /\ StPayloadFirst
  BY DEF StInit, StPlaced, StPayloadFirst
<1>7. StLoaded \in StRecords \cup {StNone}
  BY <1>3, StLoadedType
<1>8. StWeak \in BOOLEAN
  BY DEF StWeak, StInit
<1>9. StInv
  BY <1>3, <1>5, <1>6 DEF StInv
<1>10. stRec = StNone /\ stResult = "none"
  BY DEF StInit
<1>11. Register!Init
  BY <1>7, <1>8, <1>10 DEF Register!Init
<1> QED BY <1>9, <1>11

(* A save begins: nothing a load reads has changed.                        *)
LEMMA StSaveStep ==
    ASSUME StInv, NEW r \in StRecords, StSave(r)
    PROVE  StInv' /\ Register!Begin
<1>1. PICK seen \in SUBSET StHeaders :
         /\ stTarget' = StTargetOf(seen) /\ stSeq' = StSeqOf(seen)
         /\ stBlind' = (seen # StHeaders)
         /\ stMedia' = (stMedia \/ seen # StHeaders)
  BY DEF StSave
<1>2. /\ stPc = "idle" /\ stRec' = r /\ stNext' = 1 /\ stResult' = "none"
      /\ stPc' = IF StPayLen = 0 THEN "header" ELSE "payload"
      /\ stCount < StSaves /\ stCount' = stCount + 1 /\ UNCHANGED <<stHead, stPay>>
  BY DEF StSave
<1>3. /\ StHeaders' = StHeaders /\ StNewest(StHeaders)' = StNewest(StHeaders)
      /\ StLoaded' = StLoaded
      /\ StSound(StNewest(StHeaders))' <=> StSound(StNewest(StHeaders))
      /\ \A q \in SUBSET StHeaders :
            StTargetOf(q)' = StTargetOf(q) /\ StSeqOf(q)' = StSeqOf(q)
  BY <1>2 DEF StHeaders, StValid, StNewest, StSound, StLoaded, StTargetOf, StSeqOf
<1>4. StTypeOK
  BY DEF StInv
<1>5. stTarget' \in StSlots
  BY <1>1 DEF StTargetOf, StNewest, StSlots
<1>6. stSeq' \in StSeqs
  <2>1. CASE seen = {}
    BY <1>1, <2>1, StConstants DEF StSeqOf, StSeqs
  <2>2. CASE seen # {}
    <3>1. StNewest(seen) \in seen /\ StNewest(seen) \in StSlots
      BY <2>2 DEF StNewest, StHeaders, StSlots
    <3>2. stHead[StNewest(seen)].seq \in StSeqs
      BY <1>4, <3>1, StSlotTypes
    <3> QED BY <1>1, <2>2, <3>2, StSuccNewer DEF StSeqOf
  <2> QED BY <2>1, <2>2
<1>7. StTypeOK'
  <2>1. /\ 1 \in 1 .. StPayLen + 1 /\ (StPayLen # 0 => 1 \in StSectors)
        /\ stCount' \in 0 .. StSaves /\ r # StNone
    BY <1>2, <1>4, StConstants DEF StSectors, StTypeOK
  <2>2. stBlind' \in BOOLEAN /\ stMedia' \in BOOLEAN
    BY <1>1
  <2> QED BY <1>2, <1>4, <1>5, <1>6, <2>1, <2>2 DEF StTypeOK
<1>8. StPlaced'
  BY <1>1, <1>2, <1>3 DEF StPlaced
<1>9. StPayloadFirst'
  <2>1. \A i \in StSectors : ~(i < 1)
    BY StConstants DEF StSectors
  <2> QED BY <1>2, <2>1 DEF StPayloadFirst
<1>10. StWeak' => stMedia'
  BY <1>1, <1>3 DEF StWeak, StInv
<1>11. Register!Begin
  BY <1>2, <1>3, <1>4 DEF Register!Begin, StTypeOK
<1> QED BY <1>7, <1>8, <1>9, <1>10, <1>11 DEF StInv

(* The newest header stands for a damaged payload.                         *)
StBadNewest == StHeaders # {} /\ ~StSound(StNewest(StHeaders))

(* A sector of payload goes to the slot that is not in use: a load gives   *)
(* what it gave, whatever became of the sector.                            *)
LEMMA StPayloadKeeps ==
    ASSUME StInv, stPc = "payload", ~StWeak, NEW c, StPutPayload(c)
    PROVE  ~StBadNewest' /\ StLoaded' = StLoaded
<1>1. stHead' = stHead /\ stPay' = [stPay EXCEPT ![stTarget][stNext] = c]
  BY DEF StPutPayload
<1>2. StHeaders' = StHeaders /\ StNewest(StHeaders)' = StNewest(StHeaders)
  BY <1>1 DEF StHeaders, StValid, StNewest
<1>3. CASE StHeaders = {}
  <2>1. StHeaders # StSlots
    BY <1>3 DEF StSlots
  <2> QED BY <1>2, <1>3, <2>1 DEF StBadNewest, StLoaded
<1>4. CASE StHeaders # {}
  <2>1. StNewest(StHeaders) # stTarget /\ StNewest(StHeaders) \in StSlots
    BY <1>4, StTargetApart DEF StWeak
  <2>2. StSound(StNewest(StHeaders))
    BY <1>4 DEF StWeak
  <2>3. stPay'[StNewest(StHeaders)] = stPay[StNewest(StHeaders)]
    <3>1. stPay \in [StSlots -> [StSectors -> StRecords \cup {StNone}]]
      BY DEF StInv, StTypeOK
    <3> QED BY <1>1, <2>1, <3>1
  <2>4. StSound(StNewest(StHeaders))'
    BY <1>1, <1>2, <2>2, <2>3 DEF StSound, StValid
  <2>5. StLoaded = stHead[StNewest(StHeaders)].rec
    BY <1>4, <2>2 DEF StLoaded
  <2>6. StLoaded' = stHead'[StNewest(StHeaders)'].rec
    BY <1>2, <1>4, <2>4 DEF StLoaded
  <2> QED BY <1>1, <1>2, <2>4, <2>5, <2>6 DEF StBadNewest
<1> QED BY <1>3, <1>4

(* The header is the one sector that changes what a load gives, and only   *)
(* to the record being saved.                                              *)
LEMMA StHeaderKeeps ==
    ASSUME StInv, stPc = "header", ~StWeak,
           NEW c \in {stHead[stTarget], StHeader, StNone}, StPutHeader(c),
           stTarget' = stTarget
    PROVE  /\ StLoaded' \in {StLoaded, stRec}
           /\ ~stMedia => ~StBadNewest'
<1>1. stHead' = [stHead EXCEPT ![stTarget] = c] /\ stPay' = stPay
  BY DEF StPutHeader
<1>2. ~stBlind /\ stTarget \in StSlots /\ stHead \in [StSlots -> StHeads]
  BY DEF StWeak, StInv, StTypeOK
<1>3. StLoaded = IF StHeaders = {} THEN StNone ELSE stHead[StNewest(StHeaders)].rec
  BY StLoadedStrong
<1>4. StHeaders # {} => /\ StNewest(StHeaders) # stTarget
                        /\ StNewest(StHeaders) \in StSlots
                        /\ StNewest(StHeaders) = 1 - stTarget
                        /\ StSound(StNewest(StHeaders))
                        /\ StNewest(StHeaders) \in StHeaders
  BY <1>2, StTargetApart, StNewestValid DEF StWeak
<1>5. CASE c = stHead[stTarget]
  <2>1. stHead' = stHead
    BY <1>1, <1>2, <1>5
  <2>2. StLoaded' = StLoaded
    BY <1>1, <2>1 DEF StHeaders, StValid, StNewest, StSound, StLoaded
  <2>3. StBadNewest' <=> StBadNewest
    BY <1>1, <2>1 DEF StBadNewest, StHeaders, StValid, StNewest, StSound
  <2>4. ~StBadNewest
    BY DEF StBadNewest, StWeak
  <2> QED BY <2>2, <2>3, <2>4
<1>6. CASE c = StNone
  <2>1. /\ (StHeaders # {})' <=> StHeaders # {}
        /\ StHeaders # {} => StNewest(StHeaders)' = StNewest(StHeaders)
        /\ \A s \in StSlots : s # stTarget => stHead'[s] = stHead[s]
    BY <1>1, <1>2, <1>6, StTornHeader
  <2>2. CASE StHeaders = {}
    <3>1. StHeaders' = {} /\ StHeaders' # StSlots
      BY <2>1, <2>2 DEF StSlots
    <3> QED BY <1>3, <2>2, <3>1 DEF StBadNewest, StLoaded
  <2>3. CASE StHeaders # {}
    <3>1. StSound(StNewest(StHeaders))'
      BY <1>1, <1>4, <2>1, <2>3 DEF StSound, StValid
    <3>2. StLoaded' = stHead'[StNewest(StHeaders)'].rec
      BY <2>1, <2>3, <3>1 DEF StLoaded
    <3> QED BY <1>3, <1>4, <2>1, <2>3, <3>1, <3>2 DEF StBadNewest
  <2> QED BY <2>2, <2>3
<1>7. CASE c = StHeader
  <2>1. /\ stTarget \in StHeaders' /\ StNewest(StHeaders)' = stTarget
        /\ stHead'[stTarget] = StHeader
        /\ \A s \in StSlots : s # stTarget => stHead'[s] = stHead[s]
        /\ StHeaders' = StHeaders \cup {stTarget}
    BY <1>1, <1>2, <1>7, StCommits
  <2>2. StHeader.rec = stRec /\ StHeader # StNone
    BY StHeaderType DEF StInv
  <2>3. ~stMedia => StSound(stTarget)'
    <3>1. ASSUME ~stMedia, NEW i \in StSectors PROVE stPay[stTarget][i] = stRec
      <4>1. stNext = StPayLen + 1 /\ i < stNext
        BY StConstants DEF StInv, StPayloadFirst, StSectors
      <4> QED BY <3>1, <4>1 DEF StInv, StPayloadFirst
    <3> QED BY <1>1, <2>1, <2>2, <3>1 DEF StSound, StValid
  <2>4. ~stMedia => ~StBadNewest'
    BY <2>1, <2>3 DEF StBadNewest, StSound, StValid
  <2>5. CASE StSound(stTarget)'
    <3>1. StLoaded' = stHead'[stTarget].rec
      BY <2>1, <2>5 DEF StLoaded, StSound, StValid
    <3> QED BY <2>1, <2>2, <2>4, <3>1
  <2>6. CASE ~StSound(stTarget)'
    <3>1. StLoaded' = IF StHeaders' = StSlots /\ StSound(1 - stTarget)'
                      THEN stHead'[1 - stTarget].rec ELSE StNone
      BY <2>1, <2>6 DEF StLoaded, StSound, StValid
    <3>2. CASE StHeaders = {}
      <4>1. StHeaders' # StSlots
        BY <2>1, <3>2 DEF StSlots
      <4> QED BY <1>3, <2>4, <3>1, <3>2, <4>1
    <3>3. CASE StHeaders # {}
      <4>1. StHeaders' = StSlots
        BY <1>2, <1>4, <2>1, <3>3 DEF StSlots, StHeaders
      <4>2. StSound(1 - stTarget)'
        BY <1>1, <1>4, <2>1, <3>3 DEF StSound, StValid
      <4>3. stHead'[1 - stTarget] = stHead[1 - stTarget]
        BY <1>4, <2>1, <3>3
      <4> QED BY <1>3, <1>4, <2>4, <3>1, <3>3, <4>1, <4>2, <4>3
    <3> QED BY <3>2, <3>3
  <2> QED BY <2>5, <2>6
<1> QED BY <1>5, <1>6, <1>7

(* Once a save has placed itself wrongly, or the newest slot is damaged,   *)
(* the medium is to blame.                                                 *)
LEMMA StWeakNext ==
    ASSUME StInv, stBlind' => stBlind, stMedia => stMedia',
           ~StWeak /\ ~stMedia' => ~StBadNewest'
    PROVE  StWeak' => stMedia'
<1>1. StWeak' <=> stBlind' \/ StBadNewest'
  BY DEF StWeak, StBadNewest
<1>2. StWeak => stMedia
  BY DEF StInv
<1>3. stBlind => StWeak
  BY DEF StWeak
<1> QED BY <1>1, <1>2, <1>3

(* What a load gives settles as the register allows.                       *)
LEMMA StSettles ==
    ASSUME StTypeOK', stRec # StNone, ~StWeak => StLoaded' \in {StLoaded, stRec}
    PROVE  Register!Settles
<1>1. CASE StWeak
  BY <1>1, StLoadedNext DEF Register!Settles
<1>2. CASE ~StWeak
  BY <1>2 DEF Register!Settles
<1> QED BY <1>1, <1>2

(* Whether the medium has let the store down is a Boolean.                 *)
LEMMA StWeakType == StWeak \in BOOLEAN /\ StWeak' \in BOOLEAN
BY DEF StWeak

(* One sector of the payload is written.                                   *)
LEMMA StWritePayloadStep ==
    ASSUME StInv, StWritePayload
    PROVE  StInv' /\ Register!Proceed
<1>1. PICK c \in {stRec, StNone} :
         /\ StPutPayload(c) /\ StWritten(c)
         /\ stNext' = stNext + 1
         /\ stPc' = IF stNext = StPayLen THEN "header" ELSE "payload"
  BY DEF StWritePayload
<1>2. /\ stPc = "payload" /\ stHead' = stHead
      /\ stPay' = [stPay EXCEPT ![stTarget][stNext] = c]
      /\ stMedia' = (stMedia \/ c = StNone)
      /\ stTarget' = stTarget /\ stSeq' = stSeq /\ stRec' = stRec
      /\ stResult' = stResult /\ stCount' = stCount /\ stBlind' = stBlind
  BY <1>1 DEF StWritePayload, StPutPayload, StWritten
<1>3. /\ stTarget \in StSlots /\ stNext \in StSectors
      /\ stPay \in [StSlots -> [StSectors -> StRecords \cup {StNone}]]
      /\ stRec \in StRecords \cup {StNone} /\ stRec # StNone
      /\ stMedia \in BOOLEAN
  BY <1>2 DEF StInv, StTypeOK
<1>4. stNext \in Nat /\ 1 <= stNext /\ stNext <= StPayLen /\ StPayLen \in Nat
  BY <1>3, StConstants DEF StSectors
<1>5. StTypeOK'
  <2>1. stPay' \in [StSlots -> [StSectors -> StRecords \cup {StNone}]]
    BY <1>1, <1>2, <1>3
  <2>2. stNext' \in 1 .. StPayLen + 1 /\ (stNext # StPayLen => stNext' \in StSectors)
    BY <1>1, <1>4 DEF StSectors
  <2>3. stPc' \in {"payload", "header"} /\ (stPc' = "payload" => stNext # StPayLen)
    BY <1>1
  <2>4. stMedia' \in BOOLEAN
    BY <1>2, <1>3
  <2> QED BY <1>2, <2>1, <2>2, <2>3, <2>4 DEF StInv, StTypeOK
<1>6. StPlaced'
  <2>1. /\ StHeaders' = StHeaders /\ StTargetOf(StHeaders)' = StTargetOf(StHeaders)
        /\ StSeqOf(StHeaders)' = StSeqOf(StHeaders)
    BY <1>2 DEF StHeaders, StValid, StTargetOf, StSeqOf, StNewest
  <2>2. stPc' # "verify"
    BY <1>1
  <2> QED BY <1>2, <2>1, <2>2 DEF StPlaced, StInv
<1>7. StPayloadFirst'
  <2>1. ASSUME ~stMedia', NEW i \in StSectors, i < stNext'
        PROVE  stPay'[stTarget'][i] = stRec'
    <3>1. ~stMedia /\ c = stRec
      BY <1>1, <1>2, <2>1
    <3>2. i \in Nat /\ (i < stNext \/ i = stNext)
      BY <1>1, <1>4, <2>1 DEF StSectors
    <3>3. CASE i = stNext
      BY <1>2, <1>3, <3>1, <3>3
    <3>4. CASE i # stNext
      <4>1. stPay[stTarget][i] = stRec
        BY <1>2, <3>1, <3>2, <3>4 DEF StInv, StPayloadFirst
      <4>2. stPay'[stTarget][i] = stPay[stTarget][i]
        BY <1>2, <1>3, <3>4, <2>1
      <4> QED BY <1>2, <4>1, <4>2
    <3> QED BY <3>3, <3>4
  <2>2. stPc' = "header" => stNext' = StPayLen + 1
    BY <1>1
  <2> QED BY <2>1, <2>2 DEF StPayloadFirst
<1>8. ~StWeak => ~StBadNewest' /\ StLoaded' = StLoaded
  BY <1>1, <1>2, StPayloadKeeps
<1>9. StWeak' => stMedia'
  BY <1>2, <1>8, StWeakNext
<1>10. Register!Proceed
  BY <1>2, <1>3, <1>5, <1>8, StSettles DEF Register!Proceed
<1> QED BY <1>5, <1>6, <1>7, <1>9, <1>10 DEF StInv

(* The header is written: the commit point.                                *)
LEMMA StWriteHeaderStep ==
    ASSUME StInv, StWriteHeader
    PROVE  StInv' /\ Register!Proceed
<1>1. PICK c \in {StHeader, StNone} :
         StPutHeader(c) /\ StWritten(c) /\ stPc' = "verify" /\ UNCHANGED stNext
  BY DEF StWriteHeader
<1>2. /\ stPc = "header" /\ stPay' = stPay
      /\ stHead' = [stHead EXCEPT ![stTarget] = c]
      /\ stMedia' = (stMedia \/ c = StNone)
      /\ stTarget' = stTarget /\ stSeq' = stSeq /\ stRec' = stRec
      /\ stResult' = stResult /\ stCount' = stCount /\ stBlind' = stBlind
  BY <1>1 DEF StWriteHeader, StPutHeader, StWritten
<1>3. /\ stTarget \in StSlots /\ stHead \in [StSlots -> StHeads]
      /\ stRec \in StRecords \cup {StNone} /\ stRec # StNone
      /\ stMedia \in BOOLEAN
  BY <1>2 DEF StInv, StTypeOK
<1>4. StHeader \in StHeads /\ StHeader # StNone /\ StNone \in StHeads
  BY <1>2, StHeaderType DEF StInv, StHeads
<1>5. StTypeOK'
  <2>1. stHead' \in [StSlots -> StHeads]
    BY <1>1, <1>2, <1>3, <1>4
  <2>2. stMedia' \in BOOLEAN
    BY <1>2, <1>3
  <2> QED BY <1>1, <1>2, <2>1, <2>2 DEF StInv, StTypeOK
<1>6. StPlaced'
  <2>1. ASSUME ~stBlind, stHead'[stTarget] = StHeader PROVE StNewest(StHeaders)' = stTarget
    <3>1. c = StHeader
      BY <1>2, <1>3, <2>1
    <3> QED BY <1>2, <2>1, <3>1, StCommits
  <2>2. StHeader' = StHeader
    BY <1>2 DEF StHeader
  <2> QED BY <1>1, <1>2, <2>1, <2>2 DEF StPlaced
<1>7. StPayloadFirst'
  BY <1>1 DEF StPayloadFirst
<1>8. ~StWeak => /\ StLoaded' \in {StLoaded, stRec}
                 /\ ~stMedia => ~StBadNewest'
  BY <1>1, <1>2, StHeaderKeeps
<1>9. StWeak' => stMedia'
  BY <1>2, <1>8, StWeakNext
<1>10. Register!Proceed
  BY <1>2, <1>3, <1>5, <1>8, StSettles DEF Register!Proceed
<1> QED BY <1>5, <1>6, <1>7, <1>9, <1>10 DEF StInv

(* A write fails or is cut short.                                          *)
LEMMA StStopsStep ==
    ASSUME StInv, StStops
    PROVE  StInv' /\ Register!End
<1>1. PICK res \in {"error", "cut"} :
         /\ \/ /\ stPc = "payload"
               /\ \E c \in {stPay[stTarget][stNext], stRec, StNone} : StPutPayload(c)
            \/ /\ stPc = "header"
               /\ \E c \in {stHead[stTarget], StHeader, StNone} : StPutHeader(c)
         /\ StEnd(res) /\ UNCHANGED stMedia
  BY DEF StStops
<1>2. /\ stPc' = "idle" /\ stResult' = res /\ stRec' = StNone /\ stBlind' = FALSE
      /\ stTarget' = stTarget /\ stSeq' = stSeq /\ stNext' = stNext
      /\ stCount' = stCount /\ stMedia' = stMedia
  BY <1>1 DEF StEnd
<1>3. /\ stTarget \in StSlots /\ stHead \in [StSlots -> StHeads]
      /\ stPay \in [StSlots -> [StSectors -> StRecords \cup {StNone}]]
      /\ stPc = "payload" => stNext \in StSectors
      /\ stRec \in StRecords \cup {StNone} /\ stRec # StNone
  BY <1>1 DEF StInv, StTypeOK
<1>4. /\ stHead' \in [StSlots -> StHeads]
      /\ stPay' \in [StSlots -> [StSectors -> StRecords \cup {StNone}]]
      /\ ~StWeak => /\ StLoaded' \in {StLoaded, stRec}
                    /\ ~stMedia => ~StBadNewest'
  <2>1. ASSUME stPc = "payload", NEW c \in {stPay[stTarget][stNext], stRec, StNone},
               StPutPayload(c)
        PROVE  <1>4!:
    <3>1. stHead' = stHead /\ stPay' = [stPay EXCEPT ![stTarget][stNext] = c]
      BY <2>1 DEF StPutPayload
    <3>2. c \in StRecords \cup {StNone}
      BY <1>3, <2>1
    <3>3. stPay' \in [StSlots -> [StSectors -> StRecords \cup {StNone}]]
      BY <1>3, <2>1, <3>1, <3>2
    <3> QED BY <1>3, <2>1, <3>1, <3>3, StPayloadKeeps
  <2>2. ASSUME stPc = "header", NEW c \in {stHead[stTarget], StHeader, StNone}, StPutHeader(c)
        PROVE  <1>4!:
    <3>1. stPay' = stPay /\ stHead' = [stHead EXCEPT ![stTarget] = c]
      BY <2>2 DEF StPutHeader
    <3>2. StHeader \in StHeads
      BY <2>2, StHeaderType DEF StInv
    <3>3. c \in StHeads
      BY <1>3, <2>2, <3>2 DEF StHeads
    <3> QED BY <1>2, <1>3, <2>2, <3>1, <3>3, StHeaderKeeps
  <2> QED BY <1>1, <2>1, <2>2
<1>5. StTypeOK'
  BY <1>2, <1>4 DEF StInv, StTypeOK
<1>6. StPlaced' /\ StPayloadFirst'
  BY <1>2 DEF StPlaced, StPayloadFirst
<1>7. StWeak' => stMedia'
  BY <1>2, <1>4, StWeakNext
<1>8. Register!End
  BY <1>2, <1>3, <1>4, <1>5, StSettles DEF Register!End
<1> QED BY <1>5, <1>6, <1>7, <1>8 DEF StInv

(* The save ends: an OK is for the record a load now gives.                *)
LEMMA StVerifyStep ==
    ASSUME StInv, StVerify
    PROVE  StInv' /\ Register!End
<1>1. /\ stPc = "verify" /\ stHead' = stHead /\ stPay' = stPay
      /\ stPc' = "idle" /\ stRec' = StNone /\ stBlind' = FALSE
      /\ stTarget' = stTarget /\ stSeq' = stSeq /\ stNext' = stNext
      /\ stCount' = stCount /\ stMedia' \in BOOLEAN /\ (stMedia => stMedia')
      /\ stResult' \in {"ok", "error", "cut"} /\ (stResult' = "ok" => StVerified)
  BY DEF StVerify, StEnd, StInv, StTypeOK
<1>2. stRec # StNone
  BY <1>1 DEF StInv, StTypeOK
<1>3. StLoaded' = StLoaded /\ (StBadNewest' <=> StBadNewest)
  BY <1>1 DEF StLoaded, StBadNewest, StHeaders, StValid, StNewest, StSound
<1>4. ~StWeak => ~StBadNewest
  BY DEF StWeak, StBadNewest
<1>5. StTypeOK'
  BY <1>1 DEF StInv, StTypeOK
<1>6. StPlaced' /\ StPayloadFirst'
  BY <1>1 DEF StPlaced, StPayloadFirst
<1>7. StWeak' => stMedia'
  BY <1>1, <1>3, <1>4, StWeakNext
<1>8. StVerified /\ ~StWeak => StLoaded = stRec
  <2> SUFFICES ASSUME StVerified, ~StWeak PROVE StLoaded = stRec
    OBVIOUS
  <2>1. stHead[stTarget] = StHeader /\ ~stBlind
    BY DEF StVerified, StWeak
  <2>2. StNewest(StHeaders) = stTarget
    BY <1>1, <2>1 DEF StInv, StPlaced
  <2>3. stTarget \in StHeaders /\ StHeader.rec = stRec
    BY <1>1, <2>1, StHeaderType DEF StInv, StHeaders, StValid
  <2>4. StLoaded = IF StHeaders = {} THEN StNone ELSE stHead[StNewest(StHeaders)].rec
    BY StLoadedStrong
  <2> QED BY <2>1, <2>2, <2>3, <2>4
<1>9. Register!End
  <2>1. Register!Settles
    BY <1>2, <1>3, <1>5, StSettles
  <2> QED BY <1>1, <1>2, <1>3, <1>8, <2>1 DEF Register!End
<1> QED BY <1>5, <1>6, <1>7, <1>9 DEF StInv

(* Every step keeps the invariant and is one of the register, or none.     *)
LEMMA StStepInv == StInv /\ [StStep]_stVars => StInv' /\ [Register!Next]_Register!registerVars
<1> SUFFICES ASSUME StInv, [StStep]_stVars
             PROVE  StInv' /\ [Register!Next]_Register!registerVars
  OBVIOUS
<1>1. CASE StStep
  <2>1. StInv' /\ (Register!Begin \/ Register!Proceed \/ Register!End)
    BY <1>1, StSaveStep, StWritePayloadStep, StWriteHeaderStep, StStopsStep, StVerifyStep
       DEF StStep
  <2> QED BY <2>1, StWeakType DEF Register!Next
<1>2. CASE UNCHANGED stVars
  <2>1. /\ stHead' = stHead /\ stPay' = stPay /\ stPc' = stPc /\ stTarget' = stTarget
        /\ stSeq' = stSeq /\ stRec' = stRec /\ stNext' = stNext
        /\ stResult' = stResult /\ stCount' = stCount
        /\ stBlind' = stBlind /\ stMedia' = stMedia
    BY <1>2 DEF stVars
  <2>2. StTypeOK'
    BY <2>1 DEF StInv, StTypeOK
  <2>3. StPlaced'
    BY <2>1 DEF StInv, StPlaced, StTargetOf, StSeqOf, StHeaders, StValid, StNewest, StHeader
  <2>4. StPayloadFirst'
    BY <2>1 DEF StInv, StPayloadFirst
  <2>5. StLoaded' = StLoaded /\ StWeak' = StWeak
    BY <2>1 DEF StLoaded, StWeak, StHeaders, StValid, StNewest, StSound
  <2>6. UNCHANGED Register!registerVars
    BY <2>1, <2>5 DEF Register!registerVars
  <2> QED BY <2>1, <2>2, <2>3, <2>4, <2>5, <2>6 DEF StInv
<1> QED BY <1>1, <1>2

(* The record store keeps its types: store_save moves through its steps    *)
(* and no header, payload or number leaves its range.                      *)
THEOREM StTypes == StSpec => []StTypeOK
<1>1. StInit => StInv
  BY StInitInv
<1>2. StInv /\ [StStep]_stVars => StInv'
  BY StStepInv
<1>3. StInv => StTypeOK
  BY DEF StInv
<1> QED BY <1>1, <1>2, <1>3, PTL DEF StSpec

(* store.h's promise, for any number of saves, records of any length and   *)
(* any faults: a load gives the previous record until the new one is       *)
(* whole, an OK is for a record that a load now gives, and only a sector   *)
(* that went bad unnoticed or could not be read excuses the store.         *)
THEOREM StKeepsRegister == StSpec => StRegister
<1>1. StInit => StInv /\ Register!Init
  BY StInitInv
<1>2. StInv /\ [StStep]_stVars => StInv' /\ [Register!Next]_Register!registerVars
  BY StStepInv
<1>3. StInv => (StWeak => stMedia)
  BY DEF StInv
<1> QED BY <1>1, <1>2, <1>3, PTL DEF StSpec, StRegister, Register!Spec

-----------------------------------------------------------------------------
(* The media index.                                                        *)

(* No header is numbered past the builds begun, nor up to the one in hand. *)
MdNumbered ==
    \A s \in MdSlots : mdSeq[s] <= mdCount /\ (mdPc # "idle" => mdSeq[s] < mdCount)

(* Once its slot is emptied a build is in the one that does not count as   *)
(* the newest, whatever headers were read when it was chosen; its header   *)
(* is written after its records, numbered within the builds begun.         *)
MdBuilding ==
    /\ mdGen = IF mdPc = "idle" THEN 0 ELSE mdCount
    /\ mdPc \in {"append", "number", "commit"} => MdFirst = 1 - mdTarget
    /\ mdPc = "truncate" /\ mdTarget = 1 => MdShape(0)
    /\ mdPc \in {"truncate", "append"} => mdChunk < MdChunks
    /\ mdPc \in {"number", "commit"} => mdRecs[mdTarget] = mdGen
    /\ mdPc = "commit" => 0 < mdNew /\ mdNew <= mdCount

(* The handle reads the slot that counts as the newest.                    *)
MdReading ==
    mdRd # MdClosed /\ ~mdHurt =>
        mdRd = MdFirst /\ MdShape(mdRd) /\ mdRecs[mdRd] = mdRdGen

MdInv == MdTypeOK /\ MdNumbered /\ MdBuilding /\ MdReading /\ (MdWeak => mdHurt)

(* The newest header stands for records that are not its own.              *)
MdTornFirst == MdShape(MdFirst) /\ ~MdGood(MdFirst)

(* What is assumed of the constants.                                       *)
LEMMA MdConstants ==
    /\ MdBuilds \in Nat /\ MdChunks \in Nat \ {0}
    /\ MdClosed \notin MdSlots
BY MdAssumption DEF MdSlots

(* What the slots hold, one by one.                                        *)
LEMMA MdSlotTypes ==
    ASSUME MdTypeOK, NEW s \in MdSlots
    PROVE  /\ mdSeq[s] \in Nat /\ mdSeq[s] \in Int /\ 0 <= mdSeq[s]
           /\ mdCrc[s] \in 0 .. MdBuilds /\ mdRecs[s] \in 0 .. MdBuilds
<1>1. mdSeq[s] \in 0 .. MdBuilds /\ mdCrc[s] \in 0 .. MdBuilds /\ mdRecs[s] \in 0 .. MdBuilds
  BY DEF MdTypeOK
<1> QED BY <1>1, MdConstants

(* Which slot counts as the newest, header by header.                      *)
LEMMA MdFirstIs ==
    /\ MdFirst = IF MdShape(0) /\ (MdShape(1) => mdSeq[0] >= mdSeq[1]) THEN 0 ELSE 1
    /\ MdFirst' = IF MdShape(0)' /\ (MdShape(1)' => mdSeq'[0] >= mdSeq'[1]) THEN 0 ELSE 1
<1>1. MdFirst = IF MdShape(0) /\ (MdShape(1) => mdSeq[0] >= mdSeq[1]) THEN 0 ELSE 1
  <2>1. (0 \in MdThere <=> MdShape(0)) /\ (1 \in MdThere <=> MdShape(1))
    BY DEF MdThere, MdSlots
  <2> QED BY <2>1 DEF MdFirst, MdFirstOf
<1>2. (MdFirst = IF MdShape(0) /\ (MdShape(1) => mdSeq[0] >= mdSeq[1]) THEN 0 ELSE 1)'
  BY <1>1, PTL
<1> QED BY <1>1, <1>2

(* The newest slot is a slot, and one with a header if there is one.       *)
LEMMA MdFirstSlot ==
    /\ MdFirst \in MdSlots /\ 1 - MdFirst \in MdSlots /\ 1 - MdFirst # MdFirst
    /\ ~MdShape(MdFirst) => \A s \in MdSlots : ~MdShape(s)
<1>1. MdFirst = 0 \/ MdFirst = 1
  BY MdFirstIs
<1>2. MdFirst = 1 /\ ~MdShape(1) => ~MdShape(0)
  BY MdFirstIs
<1>3. MdFirst = 0 => MdShape(0)
  BY MdFirstIs
<1> QED BY <1>1, <1>2, <1>3 DEF MdSlots

(* What a reader gets while the newest header is not torn, and which slot. *)
LEMMA MdCurrentStrong ==
    ASSUME ~MdTornFirst
    PROVE  /\ MdOpens = IF MdShape(MdFirst) THEN MdFirst ELSE MdClosed
           /\ MdCurrent = IF MdShape(MdFirst) THEN mdCrc[MdFirst] ELSE 0
<1>1. MdShape(MdFirst) => MdGood(MdFirst)
  BY DEF MdTornFirst
<1>2. ~MdShape(MdFirst) => ~MdGood(MdFirst) /\ ~MdGood(1 - MdFirst)
  BY MdFirstSlot DEF MdGood
<1>3. MdOpens = IF MdShape(MdFirst) THEN MdFirst ELSE MdClosed
  BY <1>1, <1>2 DEF MdOpens, MdGood
<1>4. MdFirst # MdClosed
  BY MdFirstSlot, MdConstants
<1> QED BY <1>3, <1>4 DEF MdCurrent

(* A reader opens a slot or none, and gets a generation or nothing.        *)
LEMMA MdCurrentType ==
    ASSUME MdTypeOK
    PROVE  /\ MdOpens \in MdSlots \cup {MdClosed}
           /\ MdCurrent \in 0 .. MdBuilds /\ MdCurrent \in MdGens \cup {0}
<1>1. MdOpens \in MdSlots \cup {MdClosed}
  BY MdFirstSlot DEF MdOpens
<1>2. 0 \in 0 .. MdBuilds
  BY MdConstants
<1>3. MdCurrent \in 0 .. MdBuilds
  BY <1>1, <1>2, MdSlotTypes DEF MdCurrent
<1> QED BY <1>1, <1>3, MdConstants DEF MdGens

(* The same facts of the state after a step.                               *)
LEMMA MdCurrentNext ==
    /\ MdTypeOK' => MdCurrent' \in MdGens \cup {0}
    /\ MdFirst' \in MdSlots /\ 1 - MdFirst' \in MdSlots /\ 1 - MdFirst' # MdFirst'
    /\ ~MdShape(MdFirst)' => \A s \in MdSlots : ~MdShape(s)'
    /\ ~MdTornFirst' => MdCurrent' = IF MdShape(MdFirst)' THEN mdCrc'[MdFirst'] ELSE 0
<1>1. MdTypeOK => MdCurrent \in MdGens \cup {0}
  BY MdCurrentType
<1>2. ~MdTornFirst => MdCurrent = IF MdShape(MdFirst) THEN mdCrc[MdFirst] ELSE 0
  BY MdCurrentStrong
<1>3. (MdTypeOK => MdCurrent \in MdGens \cup {0})'
  BY <1>1, PTL
<1>4. (~MdTornFirst => MdCurrent = IF MdShape(MdFirst) THEN mdCrc[MdFirst] ELSE 0)'
  BY <1>2, PTL
<1>5. (MdFirst \in MdSlots /\ 1 - MdFirst \in MdSlots /\ 1 - MdFirst # MdFirst)'
  BY MdFirstSlot, PTL
<1>6. (~MdShape(MdFirst) => \A s \in MdSlots : ~MdShape(s))'
  BY MdFirstSlot, PTL
<1> QED BY <1>3, <1>4, <1>5, <1>6

(* The slots are untouched: so is all that is read from them.              *)
LEMMA MdSlotsKept ==
    ASSUME UNCHANGED mdSlots
    PROVE  /\ mdSeq' = mdSeq /\ mdCrc' = mdCrc /\ mdRecs' = mdRecs
           /\ MdFirst' = MdFirst /\ MdOpens' = MdOpens /\ MdCurrent' = MdCurrent
           /\ MdTornFirst' <=> MdTornFirst
           /\ MdThere' = MdThere
           /\ \A s \in MdSlots : MdShape(s)' <=> MdShape(s)
BY DEF mdSlots, MdThere, MdFirst, MdFirstOf, MdOpens, MdCurrent, MdTornFirst, MdShape, MdGood

(* A slot that does not count as the newest is emptied or appended to: the *)
(* newest slot stays, and so does what a reader gets.                      *)
LEMMA MdOtherSlot ==
    ASSUME MdInv, mdTarget \in MdSlots, MdFirst = 1 - mdTarget,
           \A s \in MdSlots : s # mdTarget =>
              mdSeq'[s] = mdSeq[s] /\ mdCrc'[s] = mdCrc[s] /\ mdRecs'[s] = mdRecs[s],
           mdSeq'[mdTarget] \in {0, mdSeq[mdTarget]}
    PROVE  /\ MdFirst' = MdFirst /\ MdFirst # mdTarget /\ MdFirst \in MdSlots
           /\ MdShape(MdFirst)' <=> MdShape(MdFirst)
           /\ MdTornFirst' <=> MdTornFirst
           /\ ~MdTornFirst => MdCurrent' = MdCurrent
<1>1. MdFirst = 1 - mdTarget
  OBVIOUS
<1>2. MdFirst # mdTarget /\ MdFirst \in MdSlots
  BY <1>1, MdFirstSlot
<1>3. /\ mdSeq[0] \in Int /\ mdSeq[1] \in Int /\ 0 <= mdSeq[0] /\ 0 <= mdSeq[1]
  BY MdSlotTypes DEF MdInv, MdSlots
<1>4. MdFirst' = MdFirst
  <2>1. CASE mdTarget = 0
    <3>1. mdSeq'[1] = mdSeq[1] /\ mdSeq'[0] \in {0, mdSeq[0]} /\ MdFirst = 1
      BY <1>1, <2>1 DEF MdSlots
    <3> QED BY <1>3, <3>1, MdFirstIs DEF MdShape
  <2>2. CASE mdTarget = 1
    <3>1. mdSeq'[0] = mdSeq[0] /\ mdSeq'[1] \in {0, mdSeq[1]} /\ MdFirst = 0
      BY <1>1, <2>2 DEF MdSlots
    <3> QED BY <1>3, <3>1, MdFirstIs DEF MdShape
  <2> QED BY <2>1, <2>2 DEF MdSlots
<1>5. /\ mdSeq'[MdFirst] = mdSeq[MdFirst] /\ mdCrc'[MdFirst] = mdCrc[MdFirst]
      /\ mdRecs'[MdFirst] = mdRecs[MdFirst]
  BY <1>2
<1>6. MdShape(MdFirst)' <=> MdShape(MdFirst)
  BY <1>4, <1>5 DEF MdShape
<1>7. MdTornFirst' <=> MdTornFirst
  BY <1>4, <1>5 DEF MdTornFirst, MdGood, MdShape
<1>8. ~MdTornFirst => MdCurrent' = MdCurrent
  BY <1>4, <1>5, <1>6, <1>7, MdCurrentStrong, MdCurrentNext
<1> QED BY <1>2, <1>4, <1>6, <1>7, <1>8

(* A build in hand is a generation.                                        *)
LEMMA MdGenerates ==
    ASSUME MdInv, mdPc # "idle"
    PROVE  /\ mdGen = mdCount /\ mdGen \in MdGens /\ mdGen # 0 /\ mdGen \in 0 .. MdBuilds
           /\ mdTarget \in MdSlots
<1>1. mdGen = mdCount /\ mdGen \in 0 .. MdBuilds /\ mdTarget \in MdSlots
  BY DEF MdInv, MdBuilding, MdTypeOK
<1>2. 0 \in MdSlots /\ mdSeq[0] < mdCount
  BY DEF MdInv, MdNumbered, MdSlots
<1>3. mdSeq[0] \in Int /\ 0 <= mdSeq[0]
  BY <1>2, MdSlotTypes DEF MdInv
<1> QED BY <1>1, <1>2, <1>3, MdConstants DEF MdGens

(* A header goes to the target, numbered by no more than the builds begun. *)
LEMMA MdHeaderTypes ==
    ASSUME MdInv, mdPc = "commit", NEW crc \in 0 .. MdBuilds, MdHeader(crc)
    PROVE  /\ mdSeq' \in [MdSlots -> 0 .. MdBuilds] /\ mdCrc' \in [MdSlots -> 0 .. MdBuilds]
           /\ \A s \in MdSlots : mdSeq'[s] <= mdCount
           /\ mdSeq'[mdTarget] = mdNew /\ mdCrc'[mdTarget] = crc
           /\ \A s \in MdSlots : s # mdTarget => mdSeq'[s] = mdSeq[s] /\ mdCrc'[s] = mdCrc[s]
<1>1. /\ mdSeq' = [mdSeq EXCEPT ![mdTarget] = mdNew]
      /\ mdCrc' = [mdCrc EXCEPT ![mdTarget] = crc]
  BY DEF MdHeader
<1>2. /\ mdTarget \in MdSlots /\ mdSeq \in [MdSlots -> 0 .. MdBuilds]
      /\ mdCrc \in [MdSlots -> 0 .. MdBuilds] /\ mdCount \in 0 .. MdBuilds
      /\ mdNew \in 0 .. MdBuilds /\ mdNew <= mdCount
  BY DEF MdInv, MdTypeOK, MdBuilding
<1>3. /\ mdSeq'[mdTarget] = mdNew /\ mdCrc'[mdTarget] = crc
      /\ \A s \in MdSlots : s # mdTarget => mdSeq'[s] = mdSeq[s] /\ mdCrc'[s] = mdCrc[s]
  BY <1>1, <1>2
<1>4. mdSeq' \in [MdSlots -> 0 .. MdBuilds] /\ mdCrc' \in [MdSlots -> 0 .. MdBuilds]
  BY <1>1, <1>2
<1>5. \A s \in MdSlots : mdSeq'[s] <= mdCount
  BY <1>2, <1>3 DEF MdInv, MdNumbered
<1> QED BY <1>3, <1>4, <1>5

(* Nothing having gone wrong, the header is the newest.                    *)
LEMMA MdHeaderFirst ==
    ASSUME MdInv, mdPc = "commit", NEW crc \in 0 .. MdBuilds, MdHeader(crc),
           mdRecs' = mdRecs, ~MdWeak
    PROVE  /\ MdFirst' = mdTarget /\ mdCrc'[mdTarget] = crc
           /\ MdShape(MdFirst)'
           /\ MdGood(MdFirst)' <=> (crc # 0 /\ mdRecs[mdTarget] = crc)
           /\ crc = 0 => MdCurrent' = MdCurrent
<1> DEFINE o == 1 - mdTarget
<1>1. /\ mdTarget \in MdSlots /\ MdFirst = o /\ o \in MdSlots /\ o # mdTarget
      /\ mdTarget = 1 - o /\ o # MdClosed
  BY MdConstants DEF MdInv, MdTypeOK, MdBuilding, MdSlots
<1>2. /\ mdNew \in Int /\ 0 < mdNew /\ mdSeq[o] < mdNew /\ mdSeq[o] \in Int /\ 0 <= mdSeq[o]
  <2>1. mdNew \in 0 .. MdBuilds /\ 0 < mdNew
    BY DEF MdInv, MdTypeOK, MdBuilding
  <2>2. ~(mdNew <= mdSeq[o])
    BY DEF MdWeak
  <2> QED BY <1>1, <2>1, <2>2, MdSlotTypes, MdConstants DEF MdInv
<1>3. /\ mdSeq'[mdTarget] = mdNew /\ mdCrc'[mdTarget] = crc
      /\ mdSeq'[o] = mdSeq[o] /\ mdCrc'[o] = mdCrc[o] /\ mdRecs'[o] = mdRecs[o]
  BY <1>1, MdHeaderTypes
<1>4. ~MdTornFirst
  BY DEF MdWeak, MdTornFirst
<1> HIDE DEF o
<1>5. MdFirst' = mdTarget
  <2>1. (mdTarget = 0 /\ o = 1) \/ (mdTarget = 1 /\ o = 0)
    BY <1>1 DEF MdSlots
  <2> QED BY <1>2, <1>3, <2>1, MdFirstIs DEF MdShape
<1>6. MdShape(MdFirst)'
  BY <1>2, <1>3, <1>5 DEF MdShape
<1>7. MdGood(MdFirst)' <=> (crc # 0 /\ mdRecs[mdTarget] = crc)
  BY <1>3, <1>5, <1>6 DEF MdGood
<1>8. ASSUME crc = 0 PROVE MdCurrent' = MdCurrent
  <2>1. ~MdGood(MdFirst)'
    BY <1>7, <1>8
  <2>2. MdOpens' = IF MdGood(1 - MdFirst)' THEN 1 - MdFirst' ELSE MdClosed
    BY <2>1 DEF MdOpens
  <2>3. 1 - MdFirst' = o
    BY <1>5 DEF o
  <2>4. MdGood(1 - MdFirst)' <=> MdGood(MdFirst)
    BY <1>1, <1>3, <2>3 DEF MdGood, MdShape
  <2>5. MdShape(MdFirst) <=> MdGood(MdFirst)
    BY <1>4 DEF MdTornFirst, MdGood
  <2>6. MdCurrent' = IF MdShape(MdFirst) THEN mdCrc'[o] ELSE 0
    BY <1>1, <2>2, <2>3, <2>4, <2>5 DEF MdCurrent
  <2> QED BY <1>1, <1>3, <1>4, <2>6, MdCurrentStrong
<1> QED BY <1>3, <1>5, <1>6, <1>7, <1>8

(* What a reader gets settles as the register allows.                      *)
LEMMA MdSettles ==
    ASSUME MdTypeOK', mdGen # 0, ~MdWeak => MdCurrent' \in {MdCurrent, mdGen}
    PROVE  Index!Settles
<1>1. CASE MdWeak
  BY <1>1, MdCurrentNext DEF Index!Settles
<1>2. CASE ~MdWeak
  BY <1>2 DEF Index!Settles
<1> QED BY <1>1, <1>2

(* Whether the index is at risk is a Boolean; while no build runs it is    *)
(* when the newest header is torn.                                         *)
LEMMA MdWeakType ==
    /\ MdWeak \in BOOLEAN /\ MdWeak' \in BOOLEAN
    /\ MdTornFirst => MdWeak
    /\ mdPc = "idle" => (MdWeak <=> MdTornFirst)
    /\ mdPc' = "idle" => (MdWeak' <=> MdTornFirst')
BY DEF MdWeak, MdTornFirst

(* Opening the index for reading.                                          *)
LEMMA MdReopens ==
    ASSUME MdInv, UNCHANGED mdSlots, MdReopen, ~mdHurt' => ~mdHurt /\ mdRd' = MdOpens
    PROVE  MdReading' /\ mdRd' \in MdSlots \cup {MdClosed} /\ mdRdGen' \in 0 .. MdBuilds
<1>1. /\ mdRecs' = mdRecs /\ MdFirst' = MdFirst
      /\ \A s \in MdSlots : MdShape(s)' <=> MdShape(s)
  BY MdSlotsKept
<1>2. /\ mdRd' \in MdSlots \cup {MdClosed}
      /\ mdRdGen' = IF mdRd' = MdClosed THEN 0 ELSE mdCrc[mdRd']
  BY MdCurrentType DEF MdReopen, MdOpenings, MdInv
<1>3. mdRdGen' \in 0 .. MdBuilds
  <2>1. 0 \in 0 .. MdBuilds
    BY MdConstants
  <2> QED BY <1>2, <2>1, MdSlotTypes DEF MdInv
<1>4. ASSUME mdRd' # MdClosed, ~mdHurt'
      PROVE  mdRd' = MdFirst /\ MdShape(MdFirst) /\ mdRecs[MdFirst] = mdRdGen'
  <2>1. ~MdTornFirst /\ mdRd' = MdOpens
    BY <1>4, MdWeakType DEF MdInv
  <2>2. MdOpens = MdFirst /\ MdShape(MdFirst)
    BY <1>4, <2>1, MdCurrentStrong
  <2>3. MdGood(MdFirst)
    BY <2>1, <2>2 DEF MdTornFirst
  <2> QED BY <1>2, <1>4, <2>1, <2>2, <2>3 DEF MdGood
<1>5. MdReading'
  <2>1. ASSUME mdRd' # MdClosed, ~mdHurt' PROVE MdShape(mdRd)'
    BY <1>1, <1>4, <2>1, MdFirstSlot DEF MdShape, mdSlots
  <2> QED BY <1>1, <1>4, <2>1 DEF MdReading
<1> QED BY <1>2, <1>3, <1>5

(* A closed handle reads nothing.                                          *)
LEMMA MdClosing ==
    ASSUME MdCloses
    PROVE  MdReading' /\ mdRd' \in MdSlots \cup {MdClosed} /\ mdRdGen' \in 0 .. MdBuilds
BY MdConstants DEF MdCloses, MdReading

(* A query opens or closes the index, which changes nothing in it.         *)
LEMMA MdQueryStep ==
    ASSUME MdInv, MdQuery \/ MdClose
    PROVE  MdInv' /\ UNCHANGED Index!registerVars
<1>1. /\ mdPc = "idle" /\ UNCHANGED mdSlots
      /\ mdPc' = mdPc /\ mdTarget' = mdTarget /\ mdGen' = mdGen /\ mdChunk' = mdChunk
      /\ mdNew' = mdNew /\ mdOpened' = mdOpened /\ mdResult' = mdResult
      /\ mdCount' = mdCount
      /\ mdHurt' \in BOOLEAN /\ (mdHurt => mdHurt')
  BY DEF MdQuery, MdClose, MdInv, MdTypeOK
<1>2. MdReading' /\ mdRd' \in MdSlots \cup {MdClosed} /\ mdRdGen' \in 0 .. MdBuilds
  <2>1. CASE MdQuery
    BY <1>1, <2>1, MdReopens DEF MdQuery
  <2>2. CASE MdClose
    BY <2>2, MdClosing DEF MdClose
  <2> QED BY <2>1, <2>2
<1>3. /\ mdSeq' = mdSeq /\ mdCrc' = mdCrc /\ mdRecs' = mdRecs
      /\ MdFirst' = MdFirst /\ MdCurrent' = MdCurrent /\ MdWeak' = MdWeak
  BY <1>1, MdSlotsKept, MdWeakType
<1>4. MdTypeOK'
  BY <1>1, <1>2, <1>3 DEF MdInv, MdTypeOK
<1>5. MdNumbered' /\ MdBuilding'
  BY <1>1, <1>3 DEF MdInv, MdNumbered, MdBuilding
<1>6. UNCHANGED Index!registerVars
  BY <1>1, <1>3 DEF Index!registerVars
<1> QED BY <1>1, <1>2, <1>3, <1>4, <1>5, <1>6 DEF MdInv

(* A build begins in a slot that does not count as the newest, if every    *)
(* header was read; in slot 1 only if there is a header in slot 0.         *)
LEMMA MdChooses ==
    ASSUME MdInv, NEW seen \in MdReads
    PROVE  /\ 1 - MdFirstOf(seen) \in MdSlots
           /\ 1 - MdFirstOf(seen) = 1 => MdShape(0)
           /\ seen = MdThere => 1 - MdFirstOf(seen) # MdFirst
<1>1. seen \subseteq MdThere
  BY DEF MdReads
<1>2. MdFirstOf(seen) = 0 => 0 \in seen
  BY DEF MdFirstOf
<1>3. MdFirstOf(seen) = 0 \/ MdFirstOf(seen) = 1
  BY DEF MdFirstOf
<1>4. seen = MdThere => MdFirstOf(seen) = MdFirst
  BY DEF MdFirst
<1> QED BY <1>1, <1>2, <1>3, <1>4, MdFirstSlot DEF MdThere, MdSlots

LEMMA MdBeginStep ==
    ASSUME MdInv, NEW update \in BOOLEAN, NEW seen \in MdReads, MdBegin(update, seen)
    PROVE  MdInv' /\ Index!Begin
<1>1. /\ mdPc = "idle" /\ mdCount < MdBuilds /\ UNCHANGED mdSlots
      /\ mdPc' = "truncate" /\ mdTarget' = 1 - MdFirstOf(seen) /\ mdGen' = mdCount + 1
      /\ mdChunk' = 0 /\ mdNew' = mdNew /\ mdResult' = "none" /\ mdCount' = mdCount + 1
      /\ mdHurt' = (mdHurt \/ seen # MdThere \/ (update /\ mdRd' # MdOpens))
      /\ mdOpened' \in BOOLEAN
  BY DEF MdBegin, MdTargetOf
<1>2. /\ mdSeq' = mdSeq /\ mdCrc' = mdCrc /\ mdRecs' = mdRecs
      /\ MdFirst' = MdFirst /\ MdCurrent' = MdCurrent
      /\ MdTornFirst' <=> MdTornFirst
      /\ MdShape(0)' <=> MdShape(0)
  BY <1>1, MdSlotsKept DEF MdSlots
<1>3. MdReading' /\ mdRd' \in MdSlots \cup {MdClosed} /\ mdRdGen' \in 0 .. MdBuilds
  <2>1. CASE update
    BY <1>1, <2>1, MdReopens DEF MdBegin
  <2>2. CASE ~update
    <3>1. mdRd' = mdRd /\ mdRdGen' = mdRdGen
      BY <2>2 DEF MdBegin, mdHandle
    <3>2. MdShape(mdRd)' <=> MdShape(mdRd)
      BY <1>2, <3>1 DEF MdShape
    <3> QED BY <1>1, <1>2, <3>1, <3>2 DEF MdInv, MdReading, MdTypeOK
  <2> QED BY <2>1, <2>2
<1>4. mdCount \in Int /\ 0 <= mdCount /\ MdBuilds \in Int
  BY MdConstants DEF MdInv, MdTypeOK
<1>5. mdCount + 1 \in 0 .. MdBuilds /\ mdCount + 1 \in MdGens
  BY <1>1, <1>4 DEF MdGens
<1>6. /\ mdTarget' \in MdSlots /\ (mdTarget' = 1 => MdShape(0)')
      /\ seen = MdThere => mdTarget' # MdFirst'
  BY <1>1, <1>2, MdChooses
<1>7. MdTypeOK'
  <2>1. 0 \in 0 .. MdChunks /\ mdHurt' \in BOOLEAN
    BY <1>1, MdConstants DEF MdInv, MdTypeOK
  <2> QED BY <1>1, <1>2, <1>3, <1>5, <1>6, <2>1 DEF MdInv, MdTypeOK
<1>8. MdNumbered'
  <2> SUFFICES ASSUME NEW s \in MdSlots PROVE mdSeq[s] < mdCount + 1
    BY <1>1, <1>2, <1>4, MdSlotTypes DEF MdNumbered, MdInv
  <2>1. mdSeq[s] \in Int /\ mdSeq[s] <= mdCount
    BY MdSlotTypes DEF MdInv, MdNumbered
  <2> QED BY <1>4, <2>1
<1>9. MdBuilding'
  BY <1>1, <1>2, <1>6, MdConstants DEF MdBuilding
<1>10. MdWeak' => mdHurt'
  <2>1. MdWeak' => MdTornFirst' \/ mdTarget' = MdFirst'
    BY <1>1 DEF MdWeak, MdTornFirst
  <2>2. MdTornFirst => mdHurt
    BY MdWeakType DEF MdInv
  <2> QED BY <1>1, <1>2, <1>6, <2>1, <2>2
<1>11. Index!Begin
  BY <1>1, <1>2, <1>5 DEF Index!Begin, MdInv, MdBuilding
<1> QED BY <1>3, <1>7, <1>8, <1>9, <1>10, <1>11 DEF MdInv

(* The slot being built is touched: the one that is open for reading is    *)
(* another.                                                                *)
LEMMA MdReadingKept ==
    ASSUME MdInv, UNCHANGED mdHandle, mdHurt' = mdHurt,
           MdFirst' = MdFirst, MdShape(MdFirst)' <=> MdShape(MdFirst),
           mdRecs'[MdFirst] = mdRecs[MdFirst]
    PROVE  MdReading' /\ mdRd' \in MdSlots \cup {MdClosed} /\ mdRdGen' \in 0 .. MdBuilds
<1>1. mdRd' = mdRd /\ mdRdGen' = mdRdGen
  BY DEF mdHandle
<1>2. ASSUME mdRd = MdFirst, MdShape(mdRd) PROVE MdShape(mdRd)'
  BY <1>1, <1>2 DEF MdShape
<1> QED BY <1>1, <1>2 DEF MdInv, MdReading, MdTypeOK

(* The target is emptied.                                                  *)
LEMMA MdEmpties ==
    ASSUME MdInv, mdPc # "idle", MdEmptied
    PROVE  /\ mdSeq' \in [MdSlots -> 0 .. MdBuilds] /\ mdCrc' \in [MdSlots -> 0 .. MdBuilds]
           /\ mdRecs' \in [MdSlots -> 0 .. MdBuilds]
           /\ mdSeq'[mdTarget] = 0
           /\ \A s \in MdSlots : /\ mdSeq'[s] <= mdSeq[s]
                                 /\ s # mdTarget =>
                                      /\ mdSeq'[s] = mdSeq[s] /\ mdCrc'[s] = mdCrc[s]
                                      /\ mdRecs'[s] = mdRecs[s]
<1>1. /\ mdTarget \in MdSlots /\ mdSeq \in [MdSlots -> 0 .. MdBuilds]
      /\ mdCrc \in [MdSlots -> 0 .. MdBuilds] /\ mdRecs \in [MdSlots -> 0 .. MdBuilds]
      /\ 0 \in 0 .. MdBuilds
  BY MdConstants DEF MdInv, MdTypeOK
<1>2. /\ mdSeq' = [mdSeq EXCEPT ![mdTarget] = 0] /\ mdCrc' = [mdCrc EXCEPT ![mdTarget] = 0]
      /\ mdRecs' = [mdRecs EXCEPT ![mdTarget] = 0]
  BY DEF MdEmptied
<1>3. \A s \in MdSlots : s # mdTarget =>
          mdSeq'[s] = mdSeq[s] /\ mdCrc'[s] = mdCrc[s] /\ mdRecs'[s] = mdRecs[s]
  BY <1>1, <1>2
<1>4. mdSeq'[mdTarget] = 0
  BY <1>1, <1>2
<1>5. ASSUME NEW s \in MdSlots PROVE mdSeq'[s] <= mdSeq[s]
  BY <1>3, <1>4, MdSlotTypes DEF MdInv
<1> QED BY <1>1, <1>2, <1>3, <1>4, <1>5

(* Once it is emptied the target is not the newest slot, even if it was;   *)
(* if it was not, a reader gets what there was.                            *)
LEMMA MdEmptiedOther ==
    ASSUME MdInv, mdPc = "truncate", MdEmptied
    PROVE  /\ MdFirst' = 1 - mdTarget
           /\ ~MdWeak =>
                /\ MdFirst' = MdFirst /\ mdRecs'[MdFirst] = mdRecs[MdFirst]
                /\ MdShape(MdFirst)' <=> MdShape(MdFirst)
                /\ ~MdTornFirst' /\ MdCurrent' = MdCurrent
<1>1. /\ mdTarget \in MdSlots /\ mdSeq'[mdTarget] = 0
      /\ \A s \in MdSlots : s # mdTarget =>
              mdSeq'[s] = mdSeq[s] /\ mdCrc'[s] = mdCrc[s] /\ mdRecs'[s] = mdRecs[s]
      /\ mdTarget = 1 => MdShape(0)
  BY MdEmpties DEF MdInv, MdTypeOK, MdBuilding
<1>2. MdFirst' = 1 - mdTarget
  BY <1>1, MdFirstIs DEF MdShape, MdSlots
<1>3. ASSUME ~MdWeak
      PROVE  /\ MdFirst' = MdFirst /\ mdRecs'[MdFirst] = mdRecs[MdFirst]
             /\ MdShape(MdFirst)' <=> MdShape(MdFirst)
             /\ ~MdTornFirst' /\ MdCurrent' = MdCurrent
  <2>1. mdTarget # MdFirst /\ ~MdTornFirst
    BY <1>3 DEF MdWeak, MdTornFirst
  <2>2. MdFirst = 1 - mdTarget
    BY <1>1, <2>1, MdFirstSlot DEF MdSlots
  <2> QED BY <1>1, <2>1, <2>2, MdOtherSlot, MdFirstSlot
<1> QED BY <1>2, <1>3

(* The target is emptied, and appended to.                                 *)
LEMMA MdFillStep ==
    ASSUME MdInv, MdTruncate \/ MdAppend
    PROVE  MdInv' /\ Index!Proceed
<1>1. /\ mdPc \in {"truncate", "append"} /\ mdPc # "idle" /\ UNCHANGED mdHandle
      /\ mdTarget' = mdTarget /\ mdGen' = mdGen /\ mdOpened' = mdOpened /\ mdNew' = mdNew
      /\ mdResult' = mdResult /\ mdCount' = mdCount /\ mdHurt' = mdHurt
      /\ mdPc' \in {"append", "number"}
  BY DEF MdTruncate, MdAppend
<1>2. mdGen = mdCount /\ mdGen # 0 /\ mdGen \in 0 .. MdBuilds /\ mdTarget \in MdSlots
  BY <1>1, MdGenerates
<1>3. mdChunk \in Int /\ 0 <= mdChunk /\ mdChunk < MdChunks /\ MdChunks \in Int
      /\ mdChunk \in 0 .. MdChunks
  BY <1>1, MdConstants DEF MdInv, MdTypeOK, MdBuilding
<1>4. /\ mdSeq' \in [MdSlots -> 0 .. MdBuilds] /\ mdCrc' \in [MdSlots -> 0 .. MdBuilds]
      /\ mdRecs' \in [MdSlots -> 0 .. MdBuilds]
      /\ \A s \in MdSlots : mdSeq'[s] <= mdSeq[s]
      /\ mdChunk' \in 0 .. MdChunks /\ (mdPc' = "append" => mdChunk' < MdChunks)
      /\ mdPc' = "number" => mdRecs'[mdTarget] = mdGen
      /\ MdFirst' = 1 - mdTarget
      /\ ~MdWeak => /\ MdFirst' = MdFirst /\ mdRecs'[MdFirst] = mdRecs[MdFirst]
                    /\ MdShape(MdFirst)' <=> MdShape(MdFirst)
                    /\ ~MdTornFirst' /\ MdCurrent' = MdCurrent
  <2>1. CASE MdTruncate
    <3>1. MdEmptied /\ mdChunk' = mdChunk /\ mdPc' = "append" /\ mdPc = "truncate"
      BY <2>1 DEF MdTruncate
    <3> QED BY <1>1, <1>3, <3>1, MdEmpties, MdEmptiedOther
  <2>2. CASE MdAppend
    <3>1. /\ mdChunk' = mdChunk + 1 /\ mdSeq' = mdSeq /\ mdCrc' = mdCrc
          /\ mdRecs' = [mdRecs EXCEPT ![mdTarget] =
                           IF mdChunk + 1 = MdChunks THEN mdGen ELSE 0]
          /\ mdPc' = IF mdChunk + 1 = MdChunks THEN "number" ELSE "append"
          /\ mdPc = "append"
      BY <2>2 DEF MdAppend
    <3>2. /\ mdSeq \in [MdSlots -> 0 .. MdBuilds] /\ mdCrc \in [MdSlots -> 0 .. MdBuilds]
          /\ mdRecs \in [MdSlots -> 0 .. MdBuilds] /\ 0 \in 0 .. MdBuilds
      BY MdConstants DEF MdInv, MdTypeOK
    <3>3. /\ mdRecs' \in [MdSlots -> 0 .. MdBuilds]
          /\ mdPc' = "number" => mdRecs'[mdTarget] = mdGen
          /\ \A s \in MdSlots : s # mdTarget => mdRecs'[s] = mdRecs[s]
      BY <1>2, <3>1, <3>2
    <3>4. mdChunk' \in 0 .. MdChunks /\ (mdPc' = "append" => mdChunk' < MdChunks)
      BY <1>3, <3>1
    <3>5. \A s \in MdSlots : mdSeq'[s] <= mdSeq[s]
      BY <3>1, MdSlotTypes DEF MdInv
    <3>6. MdFirst = 1 - mdTarget
      BY <3>1 DEF MdInv, MdBuilding
    <3>7. /\ MdFirst' = MdFirst /\ MdFirst # mdTarget /\ MdFirst \in MdSlots
          /\ MdShape(MdFirst)' <=> MdShape(MdFirst)
          /\ MdTornFirst' <=> MdTornFirst
          /\ ~MdTornFirst => MdCurrent' = MdCurrent
      BY <1>2, <3>1, <3>3, <3>6, MdOtherSlot
    <3>8. ~MdWeak => ~MdTornFirst
      BY MdWeakType
    <3> QED BY <3>1, <3>2, <3>3, <3>4, <3>5, <3>6, <3>7, <3>8
  <2> QED BY <2>1, <2>2
<1>5. MdTypeOK'
  <2>1. mdRd' = mdRd /\ mdRdGen' = mdRdGen
    BY <1>1 DEF mdHandle
  <2> QED BY <1>1, <1>4, <2>1 DEF MdInv, MdTypeOK
<1>6. MdReading'
  <2>1. CASE MdWeak
    BY <1>1, <2>1 DEF MdInv, MdReading
  <2>2. CASE ~MdWeak
    BY <1>1, <1>4, <2>2, MdReadingKept
  <2> QED BY <2>1, <2>2
<1>7. MdNumbered'
  <2> SUFFICES ASSUME NEW s \in MdSlots PROVE mdSeq'[s] < mdCount /\ mdSeq'[s] <= mdCount
    BY <1>1 DEF MdNumbered
  <2>1. mdSeq'[s] \in Int /\ mdSeq[s] \in Int /\ mdCount \in Int
    BY <1>4, MdSlotTypes DEF MdInv, MdTypeOK
  <2>2. mdSeq'[s] <= mdSeq[s] /\ mdSeq[s] < mdCount
    BY <1>1, <1>4 DEF MdInv, MdNumbered
  <2> QED BY <2>1, <2>2
<1>8. MdBuilding'
  BY <1>1, <1>2, <1>4 DEF MdInv, MdBuilding
<1>9. MdWeak' => mdHurt'
  <2>1. MdWeak' => MdTornFirst'
    BY <1>1 DEF MdWeak, MdTornFirst
  <2> QED BY <1>1, <1>4, <2>1 DEF MdInv
<1>10. Index!Proceed
  BY <1>1, <1>2, <1>4, <1>5, MdSettles DEF Index!Proceed
<1> QED BY <1>5, <1>6, <1>7, <1>8, <1>9, <1>10 DEF MdInv

(* The number of the next header: past those that were read, and within    *)
(* the builds begun.                                                       *)
LEMMA MdNumbers ==
    ASSUME MdInv, mdPc = "number", NEW seen \in MdReads
    PROVE  /\ MdNextSeq(seen) \in 0 .. MdBuilds
           /\ 0 < MdNextSeq(seen) /\ MdNextSeq(seen) <= mdCount
           /\ seen = MdThere => \A s \in MdSlots : mdSeq[s] < MdNextSeq(seen)
<1> DEFINE q == [s \in MdSlots |-> IF s \in seen THEN mdSeq[s] ELSE 0]
<1>1. mdCount \in Int /\ mdCount <= MdBuilds /\ MdBuilds \in Int
  BY MdConstants DEF MdInv, MdTypeOK
<1>2. \A s \in MdSlots : mdSeq[s] \in Int /\ 0 <= mdSeq[s] /\ mdSeq[s] < mdCount
  BY MdSlotTypes DEF MdInv, MdNumbered
<1>3. 0 \in MdSlots /\ 1 \in MdSlots /\ MdSlots = {0, 1}
  BY DEF MdSlots
<1>4. /\ q[0] = (IF 0 \in seen THEN mdSeq[0] ELSE 0)
      /\ q[1] = (IF 1 \in seen THEN mdSeq[1] ELSE 0)
  BY <1>3
<1>5. MdNextSeq(seen) = 1 + IF q[0] > q[1] THEN q[0] ELSE q[1]
  BY DEF MdNextSeq
<1> HIDE DEF q
<1>6. /\ MdNextSeq(seen) \in 0 .. MdBuilds
      /\ 0 < MdNextSeq(seen) /\ MdNextSeq(seen) <= mdCount
  BY <1>1, <1>2, <1>3, <1>4, <1>5
<1>7. ASSUME seen = MdThere, NEW s \in MdSlots PROVE mdSeq[s] < MdNextSeq(seen)
  <2>1. q[0] = mdSeq[0] /\ q[1] = mdSeq[1]
    BY <1>2, <1>3, <1>4, <1>7 DEF MdThere, MdShape
  <2> QED BY <1>2, <1>3, <1>5, <2>1
<1> QED BY <1>6, <1>7

(* The header is numbered.                                                 *)
LEMMA MdNumberStep ==
    ASSUME MdInv, NEW seen \in MdReads, MdNumber(seen)
    PROVE  MdInv' /\ Index!Proceed
<1>1. /\ mdPc = "number" /\ mdPc' = "commit" /\ mdNew' = MdNextSeq(seen)
      /\ mdHurt' = (mdHurt \/ seen # MdThere)
      /\ UNCHANGED mdSlots /\ UNCHANGED mdHandle
      /\ mdTarget' = mdTarget /\ mdGen' = mdGen /\ mdChunk' = mdChunk
      /\ mdOpened' = mdOpened /\ mdResult' = mdResult /\ mdCount' = mdCount
  BY DEF MdNumber
<1>2. /\ mdSeq' = mdSeq /\ mdCrc' = mdCrc /\ mdRecs' = mdRecs
      /\ MdFirst' = MdFirst /\ MdCurrent' = MdCurrent
      /\ MdTornFirst' <=> MdTornFirst
  BY <1>1, MdSlotsKept
<1>3. mdRd' = mdRd /\ mdRdGen' = mdRdGen
  BY <1>1 DEF mdHandle
<1>4. mdGen # 0 /\ mdTarget \in MdSlots
  BY <1>1, MdGenerates
<1>5. MdTypeOK'
  <2>1. mdHurt' \in BOOLEAN
    BY <1>1 DEF MdInv, MdTypeOK
  <2> QED BY <1>1, <1>2, <1>3, <2>1, MdNumbers DEF MdInv, MdTypeOK
<1>6. MdNumbered' /\ MdBuilding'
  BY <1>1, <1>2, MdNumbers DEF MdInv, MdNumbered, MdBuilding
<1>7. MdReading'
  BY <1>1, <1>2, <1>3 DEF MdInv, MdReading, MdShape
<1>8. MdWeak' => mdHurt'
  <2>1. CASE seen # MdThere
    BY <1>1, <2>1
  <2>2. CASE seen = MdThere
    <3>1. mdSeq[1 - mdTarget] < mdNew' /\ mdSeq[1 - mdTarget] \in Int /\ mdNew' \in Int
      <4>1. 1 - mdTarget \in MdSlots
        BY <1>4 DEF MdSlots
      <4> QED BY <1>1, <2>2, <4>1, MdNumbers, MdSlotTypes, MdConstants DEF MdInv
    <3>2. MdWeak' => MdTornFirst'
      BY <1>1, <1>2, <3>1 DEF MdWeak, MdTornFirst
    <3>3. MdTornFirst => mdHurt
      BY MdWeakType DEF MdInv
    <3> QED BY <1>1, <1>2, <3>2, <3>3
  <2> QED BY <2>1, <2>2
<1>9. Index!Proceed
  BY <1>1, <1>2, <1>4 DEF Index!Proceed, Index!Settles
<1> QED BY <1>5, <1>6, <1>7, <1>8, <1>9 DEF MdInv

(* The slots as a build leaves them without committing.                    *)
LEMMA MdLeaves ==
    ASSUME MdInv, mdPc # "idle",
           UNCHANGED mdSlots \/ (mdPc = "truncate" /\ MdEmptied)
    PROVE  /\ mdSeq' \in [MdSlots -> 0 .. MdBuilds] /\ mdCrc' \in [MdSlots -> 0 .. MdBuilds]
           /\ mdRecs' \in [MdSlots -> 0 .. MdBuilds]
           /\ \A s \in MdSlots : mdSeq'[s] <= mdCount
           /\ ~MdWeak =>
                /\ MdFirst' = MdFirst /\ mdRecs'[MdFirst] = mdRecs[MdFirst]
                /\ MdShape(MdFirst)' <=> MdShape(MdFirst)
                /\ ~MdTornFirst' /\ MdCurrent' = MdCurrent
<1>1. \A s \in MdSlots : mdSeq[s] \in Int /\ mdCount \in Int /\ mdSeq[s] <= mdCount
  BY MdSlotTypes DEF MdInv, MdNumbered, MdTypeOK
<1>2. CASE UNCHANGED mdSlots
  <2>1. /\ mdSeq' = mdSeq /\ mdCrc' = mdCrc /\ mdRecs' = mdRecs
        /\ MdFirst' = MdFirst /\ MdCurrent' = MdCurrent
        /\ MdTornFirst' <=> MdTornFirst
    BY <1>2, MdSlotsKept
  <2>2. MdShape(MdFirst)' <=> MdShape(MdFirst)
    BY <2>1 DEF MdShape
  <2>3. MdTornFirst => MdWeak
    BY MdWeakType
  <2> QED BY <1>1, <2>1, <2>2, <2>3 DEF MdInv, MdTypeOK
<1>3. CASE mdPc = "truncate" /\ MdEmptied
  <2>1. /\ mdSeq' \in [MdSlots -> 0 .. MdBuilds] /\ mdCrc' \in [MdSlots -> 0 .. MdBuilds]
        /\ mdRecs' \in [MdSlots -> 0 .. MdBuilds]
        /\ \A s \in MdSlots : mdSeq'[s] <= mdSeq[s]
    BY <1>3, MdEmpties
  <2>2. ASSUME NEW s \in MdSlots PROVE mdSeq'[s] <= mdCount
    <3>1. mdSeq'[s] \in Int /\ mdSeq'[s] <= mdSeq[s]
      BY <2>1
    <3> QED BY <1>1, <3>1
  <2> QED BY <1>3, <2>1, <2>2, MdEmptiedOther
<1> QED BY <1>2, <1>3

(* A header that was committed whole, and one that was torn.               *)
LEMMA MdCommitted ==
    ASSUME MdInv, mdPc = "commit", mdRecs' = mdRecs, NEW crc \in {0, mdGen}, MdHeader(crc)
    PROVE  /\ mdSeq' \in [MdSlots -> 0 .. MdBuilds] /\ mdCrc' \in [MdSlots -> 0 .. MdBuilds]
           /\ \A s \in MdSlots : mdSeq'[s] <= mdCount
           /\ ~MdWeak /\ crc = mdGen => ~MdTornFirst' /\ MdCurrent' = mdGen
           /\ ~MdWeak /\ crc = 0 => MdCurrent' = MdCurrent
<1>1. /\ mdGen # 0 /\ mdGen \in 0 .. MdBuilds /\ 0 \in 0 .. MdBuilds
      /\ mdRecs[mdTarget] = mdGen
  BY MdGenerates, MdConstants DEF MdInv, MdBuilding
<1>2. crc \in 0 .. MdBuilds
  BY <1>1
<1>3. /\ mdSeq' \in [MdSlots -> 0 .. MdBuilds] /\ mdCrc' \in [MdSlots -> 0 .. MdBuilds]
      /\ \A s \in MdSlots : mdSeq'[s] <= mdCount
  BY <1>2, MdHeaderTypes
<1>4. ASSUME ~MdWeak
      PROVE  /\ crc = mdGen => ~MdTornFirst' /\ MdCurrent' = mdGen
             /\ crc = 0 => MdCurrent' = MdCurrent
  <2>1. /\ MdFirst' = mdTarget /\ mdCrc'[mdTarget] = crc
        /\ MdShape(MdFirst)'
        /\ MdGood(MdFirst)' <=> (crc # 0 /\ mdRecs[mdTarget] = crc)
        /\ crc = 0 => MdCurrent' = MdCurrent
    BY <1>2, <1>4, MdHeaderFirst
  <2>2. ASSUME crc = mdGen PROVE ~MdTornFirst' /\ MdCurrent' = mdGen
    <3>1. MdGood(MdFirst)'
      BY <1>1, <2>1, <2>2
    <3>2. ~MdTornFirst'
      BY <3>1 DEF MdTornFirst
    <3> QED BY <2>1, <2>2, <3>2, MdCurrentNext
  <2> QED BY <2>1, <2>2
<1> QED BY <1>3, <1>4

(* A build ends, one way or another.                                       *)
LEMMA MdEnds ==
    ASSUME MdInv, mdPc # "idle", NEW res \in {"ok", "error", "cut"}, MdDone(res),
           mdSeq' \in [MdSlots -> 0 .. MdBuilds], mdCrc' \in [MdSlots -> 0 .. MdBuilds],
           mdRecs' \in [MdSlots -> 0 .. MdBuilds],
           \A s \in MdSlots : mdSeq'[s] <= mdCount,
           mdHurt' \in BOOLEAN, MdTornFirst' => mdHurt',
           MdReading' /\ mdRd' \in MdSlots \cup {MdClosed} /\ mdRdGen' \in 0 .. MdBuilds,
           ~MdWeak => MdCurrent' \in {MdCurrent, mdGen},
           res = "ok" => MdCurrent' = mdGen \/ MdWeak
    PROVE  MdInv' /\ Index!End
<1>1. /\ mdPc' = "idle" /\ mdGen' = 0 /\ mdResult' = res /\ mdOpened' = FALSE
      /\ mdTarget' = mdTarget /\ mdChunk' = mdChunk /\ mdCount' = mdCount /\ mdNew' = 0
  BY DEF MdDone
<1>2. MdTypeOK'
  <2>1. 0 \in 0 .. MdBuilds
    BY MdConstants
  <2>2. mdPc' \in {"idle", "truncate", "append", "number", "commit"}
    BY <1>1
  <2>3. mdResult' \in {"none", "ok", "error", "cut"} /\ mdOpened' \in BOOLEAN
    BY <1>1
  <2>4. /\ mdTarget' \in MdSlots /\ mdChunk' \in 0 .. MdChunks
        /\ mdCount' \in 0 .. MdBuilds /\ mdGen' \in 0 .. MdBuilds /\ mdNew' \in 0 .. MdBuilds
    BY <1>1, <2>1 DEF MdInv, MdTypeOK
  <2> QED BY <2>2, <2>3, <2>4 DEF MdTypeOK
<1>3. MdNumbered' /\ MdBuilding'
  BY <1>1 DEF MdNumbered, MdBuilding
<1>4. Index!End
  <2>1. mdGen # 0
    BY MdGenerates
  <2>2. Index!Settles
    BY <1>2, <2>1, MdSettles
  <2> QED BY <1>1, <2>1, <2>2 DEF Index!End
<1>5. MdWeak' => mdHurt'
  BY <1>1, MdWeakType
<1> QED BY <1>2, <1>3, <1>4, <1>5 DEF MdInv

(* The commit of a build that went well.                                   *)
LEMMA MdCommitStep ==
    ASSUME MdInv, MdCommit
    PROVE  MdInv' /\ Index!End
<1>1. /\ mdPc = "commit" /\ mdPc # "idle" /\ MdHeader(mdGen) /\ MdCloses /\ MdDone("ok")
      /\ mdRecs' = mdRecs /\ mdHurt' = mdHurt
  BY DEF MdCommit
<1>2. /\ mdSeq' \in [MdSlots -> 0 .. MdBuilds] /\ mdCrc' \in [MdSlots -> 0 .. MdBuilds]
      /\ \A s \in MdSlots : mdSeq'[s] <= mdCount
      /\ ~MdWeak => ~MdTornFirst' /\ MdCurrent' = mdGen
  BY <1>1, MdCommitted
<1>3. /\ mdRecs' \in [MdSlots -> 0 .. MdBuilds] /\ mdHurt' \in BOOLEAN
      /\ MdTornFirst' => mdHurt'
  BY <1>1, <1>2 DEF MdInv, MdTypeOK
<1> QED BY <1>1, <1>2, <1>3, MdClosing, MdEnds

(* A build that is given up, or fails before its commit.                   *)
LEMMA MdAbortStep ==
    ASSUME MdInv, MdAbort
    PROVE  MdInv' /\ Index!End
<1>1. /\ mdPc # "idle" /\ (UNCHANGED mdSlots \/ (mdPc = "truncate" /\ MdEmptied)) /\ MdRestored /\ MdDone("error")
      /\ mdHurt' = mdHurt
  BY DEF MdAbort
<1>2. /\ mdSeq' \in [MdSlots -> 0 .. MdBuilds] /\ mdCrc' \in [MdSlots -> 0 .. MdBuilds]
      /\ mdRecs' \in [MdSlots -> 0 .. MdBuilds]
      /\ \A s \in MdSlots : mdSeq'[s] <= mdCount
      /\ ~MdWeak =>
           /\ MdFirst' = MdFirst /\ mdRecs'[MdFirst] = mdRecs[MdFirst]
           /\ MdShape(MdFirst)' <=> MdShape(MdFirst)
           /\ ~MdTornFirst' /\ MdCurrent' = MdCurrent
  BY <1>1, MdLeaves
<1>3. MdReading' /\ mdRd' \in MdSlots \cup {MdClosed} /\ mdRdGen' \in 0 .. MdBuilds
  <2>1. CASE MdCloses
    BY <2>1, MdClosing
  <2>2. CASE UNCHANGED mdHandle /\ ~MdWeak
    BY <1>1, <1>2, <2>2, MdReadingKept
  <2>3. CASE UNCHANGED mdHandle /\ MdWeak
    BY <1>1, <2>3 DEF mdHandle, MdReading, MdInv, MdTypeOK
  <2> QED BY <1>1, <2>1, <2>2, <2>3 DEF MdRestored
<1>4. mdHurt' \in BOOLEAN /\ (MdTornFirst' => mdHurt')
  BY <1>1, <1>2 DEF MdInv, MdTypeOK
<1> QED BY <1>1, <1>2, <1>3, <1>4, MdEnds

(* A commit that fails or is cut short.                                    *)
LEMMA MdBreakStep ==
    ASSUME MdInv, MdCommitFails \/ MdPowerCut
    PROVE  MdInv' /\ Index!End
<1>1. CASE MdCommitFails
  <2>1. /\ mdPc = "commit" /\ mdPc # "idle" /\ MdRestored /\ MdDone("error")
        /\ mdHurt' = TRUE /\ mdRecs' = mdRecs
        /\ UNCHANGED <<mdSeq, mdCrc>> \/ MdHeader(0) \/ MdHeader(mdGen)
    BY <1>1 DEF MdCommitFails
  <2>2. /\ mdSeq' \in [MdSlots -> 0 .. MdBuilds] /\ mdCrc' \in [MdSlots -> 0 .. MdBuilds]
        /\ \A s \in MdSlots : mdSeq'[s] <= mdCount
        /\ ~MdWeak => MdCurrent' \in {MdCurrent, mdGen}
    <3>1. CASE UNCHANGED <<mdSeq, mdCrc>>
      <4>1. UNCHANGED mdSlots
        BY <2>1, <3>1 DEF mdSlots
      <4> QED BY <2>1, <4>1, MdLeaves
    <3>2. CASE MdHeader(0) \/ MdHeader(mdGen)
      BY <2>1, <3>2, MdCommitted
    <3> QED BY <2>1, <3>1, <3>2
  <2>3. mdRecs' \in [MdSlots -> 0 .. MdBuilds]
    BY <2>1 DEF MdInv, MdTypeOK
  <2>4. MdReading' /\ mdRd' \in MdSlots \cup {MdClosed} /\ mdRdGen' \in 0 .. MdBuilds
    <3>1. CASE MdCloses
      BY <3>1, MdClosing
    <3>2. CASE UNCHANGED mdHandle
      BY <2>1, <3>2 DEF mdHandle, MdReading, MdInv, MdTypeOK
    <3> QED BY <2>1, <3>1, <3>2 DEF MdRestored
  <2> QED BY <2>1, <2>2, <2>3, <2>4, MdEnds
<1>2. CASE MdPowerCut
  <2>1. /\ mdPc # "idle" /\ MdCloses /\ MdDone("cut")
        /\ \/ UNCHANGED <<mdSlots, mdHurt>>
           \/ mdPc = "truncate" /\ MdEmptied /\ UNCHANGED mdHurt
           \/ mdPc = "commit" /\ MdHeader(mdGen) /\ UNCHANGED <<mdRecs, mdHurt>>
           \/ mdPc = "commit" /\ MdHeader(0) /\ mdHurt' = TRUE /\ UNCHANGED mdRecs
    BY <1>2 DEF MdPowerCut
  <2>2. /\ mdSeq' \in [MdSlots -> 0 .. MdBuilds] /\ mdCrc' \in [MdSlots -> 0 .. MdBuilds]
        /\ mdRecs' \in [MdSlots -> 0 .. MdBuilds]
        /\ \A s \in MdSlots : mdSeq'[s] <= mdCount
        /\ ~MdWeak => MdCurrent' \in {MdCurrent, mdGen}
        /\ mdHurt' \in BOOLEAN /\ (MdTornFirst' => mdHurt')
    <3>0. mdHurt \in BOOLEAN /\ (MdWeak => mdHurt) /\ mdRecs \in [MdSlots -> 0 .. MdBuilds]
      BY DEF MdInv, MdTypeOK
    <3>1. CASE /\ UNCHANGED mdSlots \/ (mdPc = "truncate" /\ MdEmptied)
               /\ mdHurt' = mdHurt
      BY <2>1, <3>0, <3>1, MdLeaves
    <3>2. CASE mdPc = "commit" /\ MdHeader(mdGen) /\ UNCHANGED <<mdRecs, mdHurt>>
      BY <3>0, <3>2, MdCommitted
    <3>3. CASE mdPc = "commit" /\ MdHeader(0) /\ mdHurt' = TRUE /\ UNCHANGED mdRecs
      BY <3>0, <3>3, MdCommitted
    <3> QED BY <2>1, <3>1, <3>2, <3>3
  <2> QED BY <2>1, <2>2, MdClosing, MdEnds
<1> QED BY <1>1, <1>2

(* An index with no headers is in order.                                   *)
LEMMA MdInitInv == MdInit => MdInv /\ Index!Init
<1> SUFFICES ASSUME MdInit PROVE MdInv /\ Index!Init
  OBVIOUS
<1>1. /\ 0 \in 0 .. MdBuilds /\ 0 \in 0 .. MdChunks /\ 0 \in MdSlots /\ MdBuilds \in Nat
  BY MdConstants DEF MdSlots
<1>2. MdTypeOK
  BY <1>1 DEF MdTypeOK, MdInit
<1>3. \A s \in MdSlots : mdSeq[s] = 0 /\ ~MdShape(s)
  BY DEF MdInit, MdShape
<1>4. ~MdWeak
  BY <1>3, MdFirstSlot DEF MdWeak, MdInit
<1>5. MdNumbered /\ MdBuilding /\ MdReading
  BY <1>3 DEF MdInit, MdNumbered, MdBuilding, MdReading
<1>6. MdCurrent \in MdGens \cup {0}
  BY <1>2, MdCurrentType
<1>7. Index!Init
  BY <1>6, MdWeakType DEF Index!Init, MdInit
<1> QED BY <1>2, <1>4, <1>5, <1>7 DEF MdInv

(* Every step keeps the invariant and is one of the register, or none.     *)
LEMMA MdStepInv == MdInv /\ [MdNext]_mdVars => MdInv' /\ [Index!Next]_Index!registerVars
<1> SUFFICES ASSUME MdInv, [MdNext]_mdVars
             PROVE  MdInv' /\ [Index!Next]_Index!registerVars
  OBVIOUS
<1>1. CASE MdNext
  <2>1. /\ MdInv'
        /\ Index!Begin \/ Index!Proceed \/ Index!End \/ UNCHANGED Index!registerVars
    BY <1>1, MdQueryStep, MdBeginStep, MdFillStep, MdNumberStep, MdCommitStep,
       MdAbortStep, MdBreakStep
       DEF MdNext, MdBuild
  <2> QED BY <2>1, MdWeakType DEF Index!Next
<1>2. CASE UNCHANGED mdVars
  <2>1. /\ UNCHANGED mdSlots /\ UNCHANGED mdHandle
        /\ mdPc' = mdPc /\ mdTarget' = mdTarget /\ mdGen' = mdGen /\ mdChunk' = mdChunk
        /\ mdOpened' = mdOpened /\ mdResult' = mdResult /\ mdCount' = mdCount
        /\ mdHurt' = mdHurt /\ mdNew' = mdNew
    BY <1>2 DEF mdVars, mdSlots, mdHandle
  <2>2. /\ mdSeq' = mdSeq /\ mdCrc' = mdCrc /\ mdRecs' = mdRecs
        /\ MdFirst' = MdFirst /\ MdCurrent' = MdCurrent
        /\ MdTornFirst' <=> MdTornFirst
        /\ MdShape(0)' <=> MdShape(0)
    BY <2>1, MdSlotsKept DEF MdSlots
  <2>0. MdWeak' = MdWeak
    BY <2>1, <2>2 DEF MdWeak, MdTornFirst
  <2>3. mdRd' = mdRd /\ mdRdGen' = mdRdGen
    BY <2>1 DEF mdHandle
  <2>4. MdTypeOK'
    BY <2>1, <2>2, <2>3 DEF MdInv, MdTypeOK
  <2>5. MdNumbered' /\ MdBuilding'
    BY <2>1, <2>2 DEF MdInv, MdNumbered, MdBuilding
  <2>6. MdReading'
    BY <2>1, <2>2, <2>3 DEF MdInv, MdReading, MdShape
  <2>7. UNCHANGED Index!registerVars
    BY <2>0, <2>1, <2>2 DEF Index!registerVars
  <2> QED BY <2>0, <2>1, <2>2, <2>4, <2>5, <2>6, <2>7 DEF MdInv
<1> QED BY <1>1, <1>2

(* The index keeps its types: media_db.c never numbers a header past the   *)
(* builds begun, and scan_run never appends past its chunks.               *)
THEOREM MdTypes == MdSpec => []MdTypeOK
<1>1. MdInit => MdInv
  BY MdInitInv
<1>2. MdInv /\ [MdNext]_mdVars => MdInv'
  BY MdStepInv
<1>3. MdInv => MdTypeOK
  BY DEF MdInv
<1> QED BY <1>1, <1>2, <1>3, PTL DEF MdSpec

(* The slot s_rd reads holds what was verified when it was opened, for any *)
(* number of builds, chunks and faults that neither tear a commit nor keep *)
(* a header from being read.                                               *)
THEOREM MdHandlesWhole == MdSpec => []MdHandleWhole
<1>1. MdInit => MdInv
  BY MdInitInv
<1>2. MdInv /\ [MdNext]_mdVars => MdInv'
  BY MdStepInv
<1>3. MdInv => MdHandleWhole
  BY DEF MdInv, MdReading, MdHandleWhole
<1> QED BY <1>1, <1>2, <1>3, PTL DEF MdSpec

(* media_db.h: a reader gets the last index that was committed until a     *)
(* build commits the next one whole, and only a torn commit or a header    *)
(* that went unread excuses it.                                            *)
THEOREM MdKeepsIndex == MdSpec => MdIndex
<1>1. MdInit => MdInv /\ Index!Init
  BY MdInitInv
<1>2. MdInv /\ [MdNext]_mdVars => MdInv' /\ [Index!Next]_Index!registerVars
  BY MdStepInv
<1>3. MdInv => (MdWeak => mdHurt)
  BY DEF MdInv
<1> QED BY <1>1, <1>2, <1>3, PTL DEF MdSpec, MdIndex, Index!Spec

-----------------------------------------------------------------------------
(* The log.                                                                *)

(* The number of the line before the ring's first one.                     *)
LgLow == lgPrinted - lgDropped - Len(lgRing)

(* A line of f follows one that a reader of f has come to.                 *)
LgOrdered(f, m) ==
    \A k \in 1 .. Len(f) :
        f[k].is = "line" => \E j \in 0 .. k - 1 : LgReads(f, m)[j] >= f[k].n - 1

(* A reader of f does not get past line n; a reader comes to line n.       *)
LgUpTo(f, m, n) == \A k \in 0 .. Len(f) : LgReads(f, m)[k] <= n
LgReaches(f, m, n) == \E k \in 0 .. Len(f) : LgReads(f, m)[k] >= n

(* The ring holds consecutive lines, those dropped follow its last one,    *)
(* and the file tells of all before its first one.                         *)
LgInv ==
    /\ LgTypeOK
    /\ LgLow \in Nat /\ (\A i \in DOMAIN lgRing : lgRing[i] = LgLow + i)
    /\ lgDropped > 0 => Len(lgRing) = LgRoom
    /\ LgOrdered(lgFile, lgCut)
    /\ LgUpTo(lgFile, lgCut, lgPrinted)
    /\ LgReaches(lgFile, lgCut, LgLow)

LEMMA LgConstants == LgRoom \in Nat \ {0} /\ LgLines \in Nat
BY LgAssumption

(* A set of numbers that is not empty has a least one.                     *)
LEMMA LeastNumber ==
    ASSUME NEW I \in SUBSET Nat, I # {}
    PROVE  \E m \in I : \A j \in I : m <= j
<1> DEFINE R == {ss \in Nat \X Nat : ss[1] < ss[2]}
<1>1. IsWellFoundedOn(R, Nat)
  BY NatLessThanWellFounded DEF OpToRel
<1> HIDE DEF R
<1>2. PICK m \in I : \A j \in I : ~(<<j, m>> \in R)
  BY <1>1, WFMin
<1>3. ASSUME NEW j \in I PROVE m <= j
  <2>1. j \in Nat /\ m \in Nat /\ <<j, m>> \in Nat \X Nat /\ <<j, m>> \notin R
    BY <1>2
  <2>2. ~(<<j, m>>[1] < <<j, m>>[2])
    BY <2>1 DEF R
  <2> QED BY <2>1, <2>2
<1> QED BY <1>3

(* The greatest of finitely many numbers that a bound is known for.        *)
LEMMA GreatestOf ==
    ASSUME NEW S \in SUBSET Nat, S # {}, NEW b \in Nat, \A x \in S : x <= b
    PROVE  Max(S) \in S /\ \A x \in S : Max(S) >= x
<1> DEFINE D == {b - x : x \in S}
<1>1. D \in SUBSET Nat /\ D # {}
  <2>1. \A x \in S : b - x \in Nat
    OBVIOUS
  <2> QED BY <2>1
<1>2. PICK d \in D : \A e \in D : d <= e
  <2> HIDE DEF D
  <2> QED BY <1>1, LeastNumber
<1>3. PICK y \in S : d = b - y
  BY <1>2
<1>4. ASSUME NEW x \in S PROVE y >= x
  <2>1. b - x \in D /\ x \in Nat /\ y \in Nat
    OBVIOUS
  <2>2. d <= b - x
    BY <1>2, <2>1
  <2> QED BY <1>3, <2>1, <2>2
<1> QED BY <1>4 DEF Max

(* What a reader is at exists.                                             *)
LEMMA LgReadsIs ==
    ASSUME NEW f \in Seq(LgEntries), NEW m \in Nat
    PROVE  /\ LgReads(f, m)[0] = m
           /\ \A k \in 1 .. Len(f) :
                LgReads(f, m)[k] = IF f[k].is = "line" THEN f[k].n
                                   ELSE LgReads(f, m)[k - 1] + f[k].n
           /\ \A k \in 0 .. Len(f) : LgReads(f, m)[k] \in Nat
<1> DEFINE Goes(g, n) ==
              [k \in 0 .. n |-> IF k = 0 THEN m
                                ELSE IF f[k].is = "line" THEN f[k].n ELSE g[k - 1] + f[k].n]
           Reads(n) == \E g : g = Goes(g, n)
<1>1. Len(f) \in Nat /\ \A k \in 1 .. Len(f) : f[k] \in LgEntries
  BY LenProperties, ElementOfSeq
<1>2. Reads(0)
  <2> DEFINE g == [k \in 0 .. 0 |-> m]
  <2>1. g = Goes(g, 0)
    OBVIOUS
  <2> QED BY <2>1
<1>3. ASSUME NEW n \in Nat, Reads(n) PROVE Reads(n + 1)
  <2>1. PICK g : g = Goes(g, n)
    BY <1>3
  <2> DEFINE v == IF f[n + 1].is = "line" THEN f[n + 1].n ELSE g[n] + f[n + 1].n
             h == [k \in 0 .. n + 1 |-> IF k = n + 1 THEN v ELSE g[k]]
  <2>2. \A k \in 0 .. n + 1 : k \in 0 .. n \/ k = n + 1
    OBVIOUS
  <2>3. \A k \in 0 .. n : g[k] = IF k = 0 THEN m
                                 ELSE IF f[k].is = "line" THEN f[k].n ELSE g[k - 1] + f[k].n
    BY <2>1
  <2>4. \A k \in 0 .. n : h[k] = g[k] /\ k # n + 1
    OBVIOUS
  <2>5. h[n + 1] = v /\ n + 1 # 0 /\ n + 1 - 1 = n /\ n \in 0 .. n
    OBVIOUS
  <2>6. \A k \in 0 .. n : k # 0 => k - 1 \in 0 .. n
    OBVIOUS
  <2>7. h = [k \in 0 .. n + 1 |-> h[k]]
    OBVIOUS
  <2> HIDE DEF h
  <2>8. ASSUME NEW k \in 0 .. n + 1
        PROVE  h[k] = IF k = 0 THEN m
                      ELSE IF f[k].is = "line" THEN f[k].n ELSE h[k - 1] + f[k].n
    <3>1. CASE k = n + 1
      BY <2>4, <2>5, <3>1
    <3>2. CASE k \in 0 .. n
      BY <2>3, <2>4, <2>6, <3>2
    <3> QED BY <2>2, <3>1, <3>2
  <2>9. h = Goes(h, n + 1)
    BY <2>7, <2>8
  <2> QED BY <2>9
<1> DEFINE I == {n \in Nat : ~Reads(n)}
<1>4. I = {}
  <2> SUFFICES ASSUME I # {} PROVE FALSE
    OBVIOUS
  <2> HIDE DEF Reads
  <2>1. PICK n \in I : \A j \in I : n <= j
    <3>1. I \in SUBSET Nat
      OBVIOUS
    <3> HIDE DEF I
    <3> QED BY <3>1, LeastNumber
  <2>2. n \in Nat /\ n # 0 /\ ~Reads(n)
    BY <1>2, <2>1
  <2>3. n - 1 \in Nat /\ n - 1 \notin I /\ n - 1 + 1 = n
    BY <2>1, <2>2
  <2>4. Reads(n - 1)
    BY <2>3
  <2>5. Reads(n - 1 + 1)
    BY <1>3, <2>3, <2>4
  <2> QED BY <2>2, <2>3, <2>5
<1> DEFINE r == LgReads(f, m)
<1>5. r = Goes(r, Len(f))
  <2>1. Reads(Len(f))
    <3> HIDE DEF Reads
    <3> QED BY <1>1, <1>4
  <2> QED BY <2>1 DEF LgReads
<1> HIDE DEF r
<1>6. /\ r[0] = m
      /\ \A k \in 1 .. Len(f) : r[k] = IF f[k].is = "line" THEN f[k].n ELSE r[k - 1] + f[k].n
  <2>1. 0 \in 0 .. Len(f) /\ \A k \in 1 .. Len(f) : k \in 0 .. Len(f) /\ k # 0
    BY <1>1
  <2>2. \A k \in 0 .. Len(f) :
          r[k] = IF k = 0 THEN m
                 ELSE IF f[k].is = "line" THEN f[k].n ELSE r[k - 1] + f[k].n
    BY <1>5
  <2> QED BY <2>1, <2>2
<1> DEFINE J == {k \in 0 .. Len(f) : r[k] \notin Nat}
<1>7. J = {}
  <2> SUFFICES ASSUME J # {} PROVE FALSE
    OBVIOUS
  <2>1. PICK n \in J : \A j \in J : n <= j
    <3>1. J \in SUBSET Nat
      OBVIOUS
    <3> HIDE DEF J
    <3> QED BY <3>1, LeastNumber
  <2>2. n \in 1 .. Len(f) /\ n - 1 \in 0 .. Len(f) /\ r[n] \notin Nat
    BY <1>1, <1>6, <2>1
  <2>3. n - 1 \notin J
    BY <2>1, <2>2
  <2>4. r[n - 1] \in Nat /\ f[n].n \in Nat
    BY <1>1, <2>2, <2>3 DEF LgEntries
  <2>5. r[n] = IF f[n].is = "line" THEN f[n].n ELSE r[n - 1] + f[n].n
    BY <1>6, <2>2
  <2> QED BY <2>2, <2>4, <2>5
<1> QED BY <1>6, <1>7 DEF r

(* What follows in a file does not change what was read before.            *)
LEMMA LgReadsPrefix ==
    ASSUME NEW f \in Seq(LgEntries), NEW g \in Seq(LgEntries), NEW m \in Nat,
           Len(f) <= Len(g), \A k \in 1 .. Len(f) : g[k] = f[k]
    PROVE  \A k \in 0 .. Len(f) : LgReads(g, m)[k] = LgReads(f, m)[k]
<1> DEFINE r == LgReads(f, m)
           s == LgReads(g, m)
           J == {k \in 0 .. Len(f) : s[k] # r[k]}
<1>1. Len(f) \in Nat /\ Len(g) \in Nat
  OBVIOUS
<1>2. /\ r[0] = m /\ s[0] = m
      /\ \A k \in 1 .. Len(f) : r[k] = IF f[k].is = "line" THEN f[k].n ELSE r[k - 1] + f[k].n
      /\ \A k \in 1 .. Len(g) : s[k] = IF g[k].is = "line" THEN g[k].n ELSE s[k - 1] + g[k].n
  BY LgReadsIs
<1> HIDE DEF r, s
<1>3. J = {}
  <2> SUFFICES ASSUME J # {} PROVE FALSE
    OBVIOUS
  <2>1. PICK n \in J : \A j \in J : n <= j
    <3>1. J \in SUBSET Nat
      BY <1>1
    <3> HIDE DEF J
    <3> QED BY <3>1, LeastNumber
  <2>2. /\ n \in 1 .. Len(f) /\ n \in 1 .. Len(g) /\ n - 1 \in 0 .. Len(f)
        /\ s[n] # r[n]
    BY <1>1, <1>2, <2>1
  <2>3. s[n - 1] = r[n - 1]
    BY <2>1, <2>2
  <2> QED BY <1>2, <2>2, <2>3
<1> QED BY <1>3 DEF r, s

(* What a flush has to write: the ring's lines, and a note when some were  *)
(* dropped.                                                                *)
LEMMA LgTextIs ==
    ASSUME LgTypeOK
    PROVE  /\ LgText \in Seq(LgEntries)
           /\ Len(LgText) = Len(lgRing) + (IF lgDropped > 0 THEN 1 ELSE 0)
           /\ \A i \in 1 .. Len(lgRing) : LgText[i] = LgLine(lgRing[i])
           /\ lgDropped > 0 => LgText[Len(lgRing) + 1] = LgNote(lgDropped)
<1> DEFINE a == [i \in DOMAIN lgRing |-> LgLine(lgRing[i])]
           b == IF lgDropped > 0 THEN <<LgNote(lgDropped)>> ELSE << >>
<1>1. /\ DOMAIN lgRing = 1 .. Len(lgRing) /\ Len(lgRing) \in Nat
      /\ lgDropped \in Nat /\ \A i \in DOMAIN lgRing : lgRing[i] \in Nat
  BY LgConstants DEF LgTypeOK
<1>2. a \in Seq(LgEntries) /\ Len(a) = Len(lgRing)
  BY <1>1 DEF LgEntries, LgLine
<1>3. LgNote(lgDropped) \in LgEntries
  BY <1>1 DEF LgEntries, LgNote
<1>4. /\ b \in Seq(LgEntries) /\ Len(b) = (IF lgDropped > 0 THEN 1 ELSE 0)
      /\ lgDropped > 0 => b[1] = LgNote(lgDropped)
  BY <1>3
<1>5. LgText = a \o b
  BY DEF LgText
<1>6. \A i \in 1 .. Len(lgRing) : a[i] = LgLine(lgRing[i])
  BY <1>1
<1> HIDE DEF a, b
<1>7. /\ a \o b \in Seq(LgEntries) /\ Len(a \o b) = Len(a) + Len(b)
      /\ \A i \in 1 .. Len(a) + Len(b) :
            (a \o b)[i] = IF i <= Len(a) THEN a[i] ELSE b[i - Len(a)]
  BY <1>2, <1>4, ConcatProperties
<1> QED BY <1>1, <1>2, <1>4, <1>5, <1>6, <1>7

(* An append that stops after k entries keeps the order, and gets the      *)
(* reader no further than what was printed; a whole one gets it there.     *)
LEMMA LgGrown ==
    ASSUME LgInv, NEW k \in 0 .. Len(LgText), NEW f,
           f = lgFile \o SubSeq(LgText, 1, k)
    PROVE  /\ f \in Seq(LgEntries)
           /\ LgOrdered(f, lgCut) /\ LgUpTo(f, lgCut, lgPrinted) /\ LgReaches(f, lgCut, LgLow)
           /\ k = Len(LgText) => LgReaches(f, lgCut, lgPrinted)
<1> DEFINE L == Len(lgFile)
           N == Len(lgRing)
           low == LgLow
           text == LgText
           part == SubSeq(LgText, 1, k)
           r == LgReads(f, lgCut)
           old == LgReads(lgFile, lgCut)
<1>1. /\ lgFile \in Seq(LgEntries) /\ lgCut \in Nat /\ L \in Nat /\ N \in Nat
      /\ lgDropped \in Nat /\ lgPrinted \in Nat /\ low \in Nat
      /\ low = lgPrinted - lgDropped - N /\ (lgDropped > 0 => N > 0)
  BY LgConstants DEF LgInv, LgTypeOK, LgLow
<1>2. /\ text \in Seq(LgEntries)
      /\ Len(text) = N + (IF lgDropped > 0 THEN 1 ELSE 0)
      /\ \A i \in 1 .. N : text[i] = LgLine(lgRing[i])
      /\ lgDropped > 0 => text[N + 1] = LgNote(lgDropped)
  BY LgTextIs DEF LgInv
<1>3. \A i \in 1 .. N : lgRing[i] = low + i
  BY DEF LgInv, LgTypeOK
<1>4. /\ part \in Seq(LgEntries) /\ Len(part) = k
      /\ \A i \in 1 .. k : part[i] = text[i]
  BY <1>2, SubSeqProperties
<1>5. /\ \A i \in 0 .. L : old[i] <= lgPrinted
      /\ \A i \in 1 .. L : lgFile[i].is = "line" =>
            \E j \in 0 .. i - 1 : old[j] >= lgFile[i].n - 1
      /\ \E j \in 0 .. L : old[j] >= low
  BY DEF LgInv, LgOrdered, LgUpTo, LgReaches
<1> HIDE DEF L, N, low, text, part, r, old
<1>6. /\ f \in Seq(LgEntries) /\ Len(f) = L + k /\ k \in Nat
      /\ \A i \in 1 .. L : f[i] = lgFile[i]
      /\ \A i \in 1 .. k : f[L + i] = part[i]
  <2>1. /\ lgFile \o part \in Seq(LgEntries) /\ Len(lgFile \o part) = Len(lgFile) + Len(part)
        /\ \A i \in 1 .. Len(lgFile) + Len(part) :
              (lgFile \o part)[i] = IF i <= Len(lgFile) THEN lgFile[i]
                                    ELSE part[i - Len(lgFile)]
    BY <1>1, <1>4, ConcatProperties
  <2>2. f = lgFile \o part
    BY DEF part
  <2>3. k \in Nat /\ Len(lgFile) = L
    BY <1>4 DEF L
  <2>4. f \in Seq(LgEntries) /\ Len(f) = L + k
    BY <1>4, <2>1, <2>2, <2>3
  <2>5. ASSUME NEW i \in 1 .. L PROVE f[i] = lgFile[i]
    BY <1>1, <1>4, <2>1, <2>2, <2>3
  <2>6. ASSUME NEW i \in 1 .. k PROVE f[L + i] = part[i]
    <3>1. /\ L + i \in 1 .. Len(lgFile) + Len(part) /\ ~(L + i <= Len(lgFile))
          /\ L + i - Len(lgFile) = i
      BY <1>1, <1>4, <2>3
    <3>2. PICK x : x = L + i
      OBVIOUS
    <3>3. x \in 1 .. Len(lgFile) + Len(part) /\ ~(x <= Len(lgFile)) /\ x - Len(lgFile) = i
      BY <1>1, <1>4, <2>3, <3>2
    <3>4. (lgFile \o part)[x] = part[i]
      BY ONLY <2>1, <3>3
    <3> QED BY ONLY <2>2, <3>2, <3>4
  <2> QED BY <2>3, <2>4, <2>5, <2>6
<1>7. /\ r[0] = lgCut
      /\ \A i \in 1 .. L + k : r[i] = IF f[i].is = "line" THEN f[i].n ELSE r[i - 1] + f[i].n
      /\ \A i \in 0 .. L + k : r[i] \in Nat
  <2>1. /\ LgReads(f, lgCut)[0] = lgCut
        /\ \A i \in 1 .. Len(f) :
             LgReads(f, lgCut)[i] = IF f[i].is = "line" THEN f[i].n
                                    ELSE LgReads(f, lgCut)[i - 1] + f[i].n
        /\ \A i \in 0 .. Len(f) : LgReads(f, lgCut)[i] \in Nat
    BY ONLY <1>1, <1>6, LgReadsIs
  <2> QED BY <1>6, <2>1 DEF r
<1>8. \A i \in 0 .. L : r[i] = old[i]
  <2>1. k \in Nat /\ Len(lgFile) = L
    BY <1>4 DEF L
  <2>2. Len(lgFile) <= Len(f) /\ \A i \in 1 .. Len(lgFile) : f[i] = lgFile[i]
    BY <1>1, <1>6, <2>1
  <2>3. \A i \in 0 .. Len(lgFile) : LgReads(f, lgCut)[i] = LgReads(lgFile, lgCut)[i]
    BY <1>1, <1>6, <2>2, LgReadsPrefix
  <2> QED BY <2>1, <2>3 DEF r, old
<1>9. k \in 0 .. N + 1 /\ k <= Len(text) /\ (k = N + 1 => lgDropped > 0)
  BY <1>1, <1>2 DEF text
<1>10. ASSUME NEW i \in 1 .. k, i <= N
       PROVE  f[L + i].is = "line" /\ f[L + i].n = low + i /\ r[L + i] = low + i
  <2>1. i \in 1 .. N /\ L + i \in 1 .. L + k
    BY <1>1, <1>9, <1>10
  <2>2. f[L + i] = LgLine(low + i)
    BY <1>2, <1>3, <1>4, <1>6, <2>1
  <2>3. f[L + i].is = "line" /\ f[L + i].n = low + i
    BY <1>1, <1>6, <2>2 DEF LgLine
  <2> QED BY <1>7, <2>1, <2>3
<1>11. ASSUME k = N + 1
       PROVE  f[L + k].is # "line" /\ r[L + k] = lgPrinted
  <2>1. lgDropped > 0 /\ N > 0 /\ N \in 1 .. k /\ k \in 1 .. k
    BY <1>1, <1>9, <1>11
  <2>2. f[L + k] = LgNote(lgDropped)
    BY <1>2, <1>4, <1>6, <1>11, <2>1
  <2>3. f[L + k].is = "note" /\ f[L + k].n = lgDropped
    <3> DEFINE e == f[L + k]
    <3>1. e = LgNote(lgDropped)
      BY <2>2
    <3> HIDE DEF e
    <3>2. e.is = "note" /\ e.n = lgDropped
      BY ONLY <3>1 DEF LgNote
    <3> QED BY ONLY <3>2 DEF e
  <2>4. r[L + N] = low + N
    <3>1. N <= N
      BY <1>1
    <3> QED BY <1>10, <2>1, <3>1
  <2>5. L + k \in 1 .. L + k /\ L + k - 1 = L + N
    BY <1>1, <1>11, <2>1
  <2>6. r[L + k] = low + N + lgDropped
    <3>1. r[L + k] = r[L + k - 1] + f[L + k].n
      BY <1>1, <1>6, <1>7, <2>3, <2>5
    <3> QED BY <1>1, <1>6, <2>3, <2>4, <2>5, <3>1
  <2>7. low + N + lgDropped = lgPrinted
    BY ONLY <1>1
  <2> QED BY ONLY <2>3, <2>6, <2>7
<1>12. \A i \in 1 .. L + k : i \in 1 .. L \/ \E h \in 1 .. k : i = L + h
  <2> SUFFICES ASSUME NEW i \in 1 .. L + k, i \notin 1 .. L
               PROVE  \E h \in 1 .. k : i = L + h
    OBVIOUS
  <2>1. i - L \in 1 .. k /\ i = L + (i - L)
    BY <1>1, <1>9
  <2> QED BY <2>1
<1>13. LgUpTo(f, lgCut, lgPrinted)
  <2>1. ASSUME NEW i \in 0 .. L + k PROVE r[i] <= lgPrinted
    <3>1. CASE i \in 0 .. L
      BY <1>5, <1>8, <3>1
    <3>2. CASE i \notin 0 .. L
      <4>1. PICK h \in 1 .. k : i = L + h
        BY <1>1, <1>9, <1>12, <3>2
      <4>2. CASE h <= N
        <5>1. r[i] = low + h
          BY <1>10, <4>1, <4>2
        <5> QED BY <1>1, <1>6, <4>1, <4>2, <5>1
      <4>3. CASE h > N
        <5>1. h = k /\ k = N + 1
          BY <1>1, <1>9, <4>1, <4>3
        <5>2. r[i] = lgPrinted
          BY <1>11, <4>1, <5>1
        <5> QED BY <1>1, <5>2
      <4> QED BY <1>1, <1>6, <4>1, <4>2, <4>3
    <3> QED BY <3>1, <3>2
  <2> QED BY <1>6, <2>1 DEF LgUpTo, r
<1>14. LgOrdered(f, lgCut)
  <2>1. ASSUME NEW i \in 1 .. L + k, f[i].is = "line"
        PROVE  \E j \in 0 .. i - 1 : r[j] >= f[i].n - 1
    <3>1. CASE i \in 1 .. L
      <4>1. PICK j \in 0 .. i - 1 : old[j] >= lgFile[i].n - 1
        BY <1>5, <1>6, <2>1, <3>1
      <4>2. j \in 0 .. L
        BY <1>1, <3>1, <4>1
      <4> QED BY <1>6, <1>8, <3>1, <4>1, <4>2
    <3>2. CASE i \notin 1 .. L
      <4>1. PICK h \in 1 .. k : i = L + h
        BY <1>12, <3>2
      <4>2. h <= N
        <5>1. h > N => h = k /\ k = N + 1
          BY <1>1, <1>9, <4>1
        <5>2. CASE h > N
          BY <1>11, <2>1, <4>1, <5>1, <5>2
        <5> QED BY <1>1, <1>6, <4>1, <5>2
      <4>3. f[i].n = low + h
        BY <1>10, <4>1, <4>2
      <4>4. CASE h = 1
        <5>1. PICK j \in 0 .. L : old[j] >= low
          BY <1>5
        <5>2. j \in 0 .. i - 1 /\ i - 1 = L
          BY <1>1, <4>1, <4>4, <5>1
        <5>3. f[i].n - 1 = low /\ r[j] = old[j]
          <6>1. low + h - 1 = low
            BY ONLY <1>1, <4>4
          <6>2. f[i].n - 1 = low
            <7>1. f[i].n = low + 1
              BY <4>3, <4>4
            <7> QED BY ONLY <1>1, <7>1
          <6>3. r[j] = old[j]
            BY ONLY <1>8, <5>1
          <6> QED BY ONLY <6>2, <6>3
        <5> QED BY <5>1, <5>2, <5>3
      <4>5. CASE h # 1
        <5>1. h - 1 \in 1 .. k /\ h - 1 <= N /\ L + (h - 1) \in 0 .. i - 1
          BY <1>1, <1>9, <4>1, <4>2, <4>5
        <5>2. r[L + (h - 1)] = low + (h - 1)
          BY <1>10, <5>1
        <5>3. r[L + (h - 1)] >= f[i].n - 1
          BY <1>1, <1>6, <4>1, <4>3, <5>2
        <5> QED BY <5>1, <5>3
      <4> QED BY <4>4, <4>5
    <3> QED BY <3>1, <3>2
  <2> QED BY <1>6, <2>1 DEF LgOrdered, r
<1>15. LgReaches(f, lgCut, low)
  <2>1. PICK j \in 0 .. L : old[j] >= low
    BY <1>5
  <2>2. j \in 0 .. L + k /\ r[j] >= low
    BY <1>1, <1>8, <1>9, <2>1
  <2> QED BY <1>6, <2>2 DEF LgReaches, r
<1>16. ASSUME k = Len(text) PROVE LgReaches(f, lgCut, lgPrinted)
  <2>1. CASE N = 0
    <3>1. lgDropped = 0 /\ low = lgPrinted
      BY <1>1, <2>1
    <3> QED BY <1>15, <3>1
  <2>2. CASE N # 0
    <3>1. r[L + k] = lgPrinted /\ L + k \in 0 .. L + k
      <4>1. CASE lgDropped > 0
        BY <1>1, <1>2, <1>9, <1>11, <1>16, <4>1
      <4>2. CASE ~(lgDropped > 0)
        <5>1. k = N /\ k \in 1 .. k /\ lgDropped = 0
          BY <1>1, <1>2, <1>16, <2>2, <4>2
        <5>2. r[L + k] = low + k
          <6>1. k <= N
            BY <1>1, <5>1
          <6> QED BY <1>10, <5>1, <6>1
        <5> QED BY <1>1, <5>1, <5>2
      <4> QED BY <4>1, <4>2
    <3> QED BY <1>1, <1>6, <3>1 DEF LgReaches, r
  <2> QED BY <2>1, <2>2
<1> QED BY <1>6, <1>13, <1>14, <1>15, <1>16 DEF low, text

(* The lines of the file and then of the ring: none is skipped.            *)
LEMMA LgInvGives == LgInv => LgTypeOK /\ LgNoneMissing
<1> SUFFICES ASSUME LgInv PROVE LgTypeOK /\ LgNoneMissing
  OBVIOUS
<1> DEFINE k == Len(LgText)
           all == lgFile \o LgText
<1>1. LgText \in Seq(LgEntries) /\ k \in Nat
  BY LgTextIs DEF LgInv
<1>2. SubSeq(LgText, 1, k) = LgText
  BY <1>1, SubSeqFull
<1>3. all = lgFile \o SubSeq(LgText, 1, k) /\ k \in 0 .. Len(LgText)
  BY <1>1, <1>2
<1> HIDE DEF all
<1>4. /\ all \in Seq(LgEntries)
      /\ LgOrdered(all, lgCut) /\ LgUpTo(all, lgCut, lgPrinted)
      /\ LgReaches(all, lgCut, lgPrinted)
  BY <1>3, LgGrown
<1>5. lgCut \in Nat /\ lgPrinted \in Nat
  BY LgConstants DEF LgInv, LgTypeOK
<1>6. DOMAIN all = 1 .. Len(all)
  BY <1>4
<1>7. \A i \in 0 .. Len(all) : LgReads(all, lgCut)[i] \in Nat
  BY <1>4, <1>5, LgReadsIs
<1>8. \E i \in 0 .. Len(all) : LgReads(all, lgCut)[i] = lgPrinted
  <2>1. PICK i \in 0 .. Len(all) : LgReads(all, lgCut)[i] >= lgPrinted
    BY <1>4 DEF LgReaches
  <2>2. LgReads(all, lgCut)[i] <= lgPrinted
    BY <1>4 DEF LgUpTo
  <2> QED BY <1>5, <1>7, <2>1, <2>2
<1> QED BY <1>4, <1>6, <1>8 DEF LgInv, LgNoneMissing, LgOrdered, all

(* What the file tells of, at most what was printed.                       *)
LEMMA LgToldIs ==
    ASSUME LgInv
    PROVE  /\ LgTold \in Nat /\ LgTold <= lgPrinted /\ LgTold >= LgLow
           /\ LgUpTo(lgFile, lgCut, LgTold) /\ LgReaches(lgFile, lgCut, LgTold)
<1> DEFINE r == LgReads(lgFile, lgCut)
           S == {r[k] : k \in 0 .. Len(lgFile)}
<1>1. /\ lgFile \in Seq(LgEntries) /\ lgCut \in Nat /\ lgPrinted \in Nat
      /\ LgLow \in Nat /\ Len(lgFile) \in Nat
  BY LgConstants DEF LgInv, LgTypeOK
<1>2. \A k \in 0 .. Len(lgFile) : r[k] \in Nat
  BY <1>1, LgReadsIs
<1>3. \A k \in 0 .. Len(lgFile) : r[k] <= lgPrinted
  BY DEF LgInv, LgUpTo
<1>4. \E k \in 0 .. Len(lgFile) : r[k] >= LgLow
  BY DEF LgInv, LgReaches
<1>5. LgTold = Max(S)
  BY DEF LgTold
<1> HIDE DEF r
<1>6. S \in SUBSET Nat /\ S # {} /\ \A x \in S : x <= lgPrinted
  BY <1>2, <1>3, <1>4
<1>7. Max(S) \in S /\ \A x \in S : Max(S) >= x
  <2> HIDE DEF S
  <2> QED BY <1>1, <1>6, GreatestOf
<1>8. LgTold \in S /\ \A k \in 0 .. Len(lgFile) : LgTold >= r[k]
  BY <1>5, <1>7
<1>9. PICK k \in 0 .. Len(lgFile) : LgTold = r[k]
  BY <1>8
<1>10. LgTold \in Nat /\ LgTold <= lgPrinted
  BY <1>2, <1>3, <1>9
<1>11. LgTold >= LgLow
  <2>1. PICK j \in 0 .. Len(lgFile) : r[j] >= LgLow
    BY <1>4
  <2>2. LgTold >= r[j] /\ r[j] \in Nat
    BY <1>2, <1>8
  <2> QED BY <1>1, <1>10, <2>1, <2>2
<1>12. LgUpTo(lgFile, lgCut, LgTold)
  <2>1. \A i \in 0 .. Len(lgFile) : r[i] <= LgTold
    BY <1>2, <1>8, <1>10
  <2> QED BY <2>1 DEF LgUpTo, r
<1>13. LgReaches(lgFile, lgCut, LgTold)
  <2>1. r[k] >= LgTold
    BY <1>9, <1>10
  <2> QED BY <2>1 DEF LgReaches, r
<1> QED BY <1>10, <1>11, <1>12, <1>13

(* The empty file.                                                         *)
LEMMA LgEmptyFile ==
    ASSUME NEW m \in Nat
    PROVE  /\ << >> \in Seq(LgEntries)
           /\ LgOrdered(<< >>, m) /\ LgUpTo(<< >>, m, m) /\ LgReaches(<< >>, m, m)
<1>1. << >> \in Seq(LgEntries) /\ Len(<< >>) = 0
  OBVIOUS
<1>2. LgReads(<< >>, m)[0] = m
  BY <1>1, LgReadsIs
<1> QED BY <1>1, <1>2 DEF LgOrdered, LgUpTo, LgReaches

LEMMA LgInitInv == LgInit => LgInv
<1> SUFFICES ASSUME LgInit PROVE LgInv
  OBVIOUS
<1>1. /\ lgRing = << >> /\ Len(lgRing) = 0 /\ DOMAIN lgRing = {} /\ lgDropped = 0
      /\ lgFile = << >> /\ lgPc = "idle" /\ lgPrinted = 0 /\ lgCut = 0
  BY DEF LgInit
<1>2. LgLow = 0
  <2>1. LgLow = lgPrinted - lgDropped - Len(lgRing)
    BY DEF LgLow
  <2>2. Len(lgRing) = 0 /\ lgDropped = 0 /\ lgPrinted = 0
    BY <1>1
  <2> QED BY ONLY <2>1, <2>2
<1>3. LgTypeOK
  BY <1>1, LgConstants DEF LgTypeOK
<1> QED BY <1>1, <1>2, <1>3, LgEmptyFile DEF LgInv

(* The parts of the invariant that speak of the file's entries bear a      *)
(* greater number of lines printed.                                        *)
LEMMA LgMorePrinted ==
    ASSUME NEW f \in Seq(LgEntries), NEW m \in Nat, NEW n \in Nat, NEW p \in Nat, n <= p,
           LgUpTo(f, m, n)
    PROVE  LgUpTo(f, m, p)
<1>1. \A k \in 0 .. Len(f) : LgReads(f, m)[k] \in Nat /\ LgReads(f, m)[k] <= n
  BY LgReadsIs DEF LgUpTo
<1>2. \A k \in 0 .. Len(f) : LgReads(f, m)[k] <= p
  BY <1>1
<1> QED BY <1>2 DEF LgUpTo

LEMMA LgAppends ==
    ASSUME LgInv, LgAppendLine, lgPrinted < LgLines, UNCHANGED <<lgFile, lgCut>>,
           lgPc' \in {"idle", "size", "append"}
    PROVE  LgInv'
<1>1. /\ lgRing \in Seq(1 .. LgLines) /\ Len(lgRing) <= LgRoom /\ lgDropped \in Nat
      /\ lgPrinted \in 0 .. LgLines /\ lgFile \in Seq(LgEntries) /\ lgCut \in Nat
      /\ LgLow \in Nat /\ \A i \in DOMAIN lgRing : lgRing[i] = LgLow + i
      /\ DOMAIN lgRing = 1 .. Len(lgRing) /\ Len(lgRing) \in Nat
  BY DEF LgInv, LgTypeOK
<1>2. lgDropped > 0 => Len(lgRing) = LgRoom
  BY DEF LgInv
<1>3. LgLow = lgPrinted - lgDropped - Len(lgRing)
  BY DEF LgLow
<1>4. LgRoom \in Nat \ {0} /\ LgLines \in Nat
  BY LgConstants
<1>5. lgPrinted' = lgPrinted + 1 /\ lgFile' = lgFile /\ lgCut' = lgCut
  BY DEF LgAppendLine
<1>6. lgPrinted + 1 \in 1 .. LgLines
  BY <1>1, <1>4
<1> DEFINE low == LgLow
<1>7. /\ lgRing' \in Seq(1 .. LgLines) /\ Len(lgRing') <= LgRoom /\ lgDropped' \in Nat
      /\ lgDropped' > 0 => Len(lgRing') = LgRoom
      /\ low = lgPrinted + 1 - lgDropped' - Len(lgRing')
      /\ \A i \in DOMAIN lgRing' : lgRing'[i] = low + i
  <2> HIDE DEF low
  <2>0. low = lgPrinted - lgDropped - Len(lgRing) /\ low \in Nat
    BY <1>1, <1>3 DEF low
  <2>1. CASE Len(lgRing) < LgRoom
    <3>1. lgRing' = Append(lgRing, lgPrinted + 1) /\ lgDropped' = 0 /\ lgDropped = 0
      <4>1. lgDropped = 0
        <5> DEFINE N == Len(lgRing)
        <5>1. N < LgRoom /\ N \in Nat /\ lgDropped \in Nat
          BY <1>1, <2>1
        <5>2. lgDropped > 0 => N = LgRoom
          BY <1>2
        <5> HIDE DEF N
        <5> QED BY ONLY <1>4, <5>1, <5>2
      <4>2. lgRing' = Append(lgRing, lgPrinted + 1) /\ lgDropped' = lgDropped
        BY ONLY LgAppendLine, <2>1 DEF LgAppendLine
      <4> QED BY <4>1, <4>2
    <3>2. /\ Append(lgRing, lgPrinted + 1) \in Seq(1 .. LgLines)
          /\ Len(Append(lgRing, lgPrinted + 1)) = Len(lgRing) + 1
          /\ \A i \in 1 .. Len(lgRing) : Append(lgRing, lgPrinted + 1)[i] = lgRing[i]
          /\ Append(lgRing, lgPrinted + 1)[Len(lgRing) + 1] = lgPrinted + 1
      BY <1>1, <1>6, AppendProperties
    <3>3. /\ lgRing' \in Seq(1 .. LgLines) /\ Len(lgRing') = Len(lgRing) + 1
          /\ DOMAIN lgRing' = 1 .. Len(lgRing) + 1
      BY <3>1, <3>2
    <3>4. \A i \in 1 .. Len(lgRing) : lgRing'[i] = low + i
      BY <1>1, <3>1, <3>2 DEF low
    <3>5. lgRing'[Len(lgRing) + 1] = low + (Len(lgRing) + 1)
      <4>1. low + (Len(lgRing) + 1) = lgPrinted + 1
        BY <1>1, <2>0, <3>1
      <4> QED BY <3>1, <3>2, <4>1
    <3>6. \A i \in DOMAIN lgRing' : lgRing'[i] = low + i
      <4>1. \A i \in 1 .. Len(lgRing) + 1 : i \in 1 .. Len(lgRing) \/ i = Len(lgRing) + 1
        BY <1>1
      <4> QED BY <3>3, <3>4, <3>5, <4>1
    <3>7. low = lgPrinted + 1 - lgDropped' - Len(lgRing')
      BY <1>1, <2>0, <3>1, <3>3
    <3> QED BY <1>1, <1>4, <2>1, <3>1, <3>3, <3>6, <3>7
  <2>2. CASE ~(Len(lgRing) < LgRoom)
    <3>1. lgRing' = lgRing /\ lgDropped' = lgDropped + 1 /\ Len(lgRing) = LgRoom
      <4>1. Len(lgRing) = LgRoom
        <5> DEFINE N == Len(lgRing)
        <5>1. N <= LgRoom /\ N \in Nat /\ ~(N < LgRoom)
          BY <1>1, <2>2
        <5> HIDE DEF N
        <5>2. N = LgRoom
          BY ONLY <1>4, <5>1
        <5> QED BY ONLY <5>2 DEF N
      <4>2. lgRing' = lgRing /\ lgDropped' = lgDropped + 1
        BY ONLY LgAppendLine, <2>2 DEF LgAppendLine
      <4> QED BY <4>1, <4>2
    <3> QED BY <1>1, <1>3, <3>1 DEF low
  <2> QED BY <2>1, <2>2
<1>8. LgLow' = low
  BY <1>1, <1>5, <1>7 DEF LgLow
<1>9. LgTypeOK'
  BY <1>1, <1>5, <1>6, <1>7 DEF LgTypeOK
<1>10. LgUpTo(lgFile, lgCut, lgPrinted + 1)
  <2>1. lgPrinted \in Nat /\ lgPrinted + 1 \in Nat /\ lgPrinted <= lgPrinted + 1
    BY <1>1, <1>4
  <2>2. LgUpTo(lgFile, lgCut, lgPrinted)
    BY DEF LgInv
  <2> QED BY <1>1, <2>1, <2>2, LgMorePrinted
<1>11. (LgUpTo(lgFile, lgCut, lgPrinted))'
  BY <1>5, <1>10 DEF LgUpTo
<1>12. (LgOrdered(lgFile, lgCut))'
  BY <1>5 DEF LgInv, LgOrdered
<1>13. (LgReaches(lgFile, lgCut, LgLow))'
  BY <1>5, <1>8 DEF LgInv, LgReaches
<1> HIDE DEF low
<1> QED BY <1>1, <1>7, <1>8, <1>9, <1>11, <1>12, <1>13 DEF LgInv, low

(* Only the flush's position changes.                                      *)
LEMMA LgMoves ==
    ASSUME LgInv, UNCHANGED <<lgRing, lgDropped, lgFile, lgPrinted, lgCut>>,
           lgPc' \in {"idle", "size", "append"}
    PROVE  LgInv'
<1>1. LgTypeOK'
  BY DEF LgInv, LgTypeOK
<1>2. LgLow' = LgLow
  BY DEF LgLow
<1>3. (LgOrdered(lgFile, lgCut))' /\ (LgUpTo(lgFile, lgCut, lgPrinted))'
  BY DEF LgInv, LgOrdered, LgUpTo
<1>4. (LgReaches(lgFile, lgCut, LgLow))'
  BY <1>2 DEF LgInv, LgReaches
<1> QED BY <1>1, <1>2, <1>3, <1>4 DEF LgInv

(* The ring is emptied, and a reader comes to the last line printed.       *)
LEMMA LgEmptied ==
    ASSUME LgDone, lgPc' \in {"idle", "size", "append"}, lgPrinted' \in 0 .. LgLines,
           lgFile' \in Seq(LgEntries), lgCut' \in Nat,
           (LgOrdered(lgFile, lgCut))', (LgUpTo(lgFile, lgCut, lgPrinted))',
           (LgReaches(lgFile, lgCut, lgPrinted))'
    PROVE  LgInv'
<1>1. lgRing' = << >> /\ Len(lgRing') = 0 /\ DOMAIN lgRing' = {} /\ lgDropped' = 0
  BY DEF LgDone
<1>2. LgLow' = lgPrinted'
  <2>1. LgLow' = lgPrinted' - lgDropped' - Len(lgRing')
    BY DEF LgLow
  <2>2. Len(lgRing') = 0 /\ lgDropped' = 0 /\ lgPrinted' \in Int
    BY <1>1, LgConstants
  <2> DEFINE N == Len(lgRing')
             p == lgPrinted'
  <2>3. LgLow' = p - 0 - N /\ N = 0 /\ p \in Int
    BY <2>1, <2>2
  <2> HIDE DEF N, p
  <2>4. LgLow' = p
    BY ONLY <2>3
  <2> QED BY <2>4 DEF p
<1>3. LgLow' \in Nat
  BY <1>2, LgConstants
<1>4. LgTypeOK'
  BY <1>1, LgConstants DEF LgTypeOK
<1>5. (LgReaches(lgFile, lgCut, LgLow))'
  BY <1>2 DEF LgReaches
<1>6. ~(lgDropped' > 0)
  BY <1>1
<1> QED BY <1>1, <1>3, <1>4, <1>5, <1>6 DEF LgInv

(* A part of the text is appended, and the ring is kept.                   *)
LEMMA LgPartWritten ==
    ASSUME LgInv, NEW k \in 0 .. Len(LgText), lgFile' = lgFile \o SubSeq(LgText, 1, k),
           UNCHANGED <<lgRing, lgDropped, lgPrinted, lgCut>>,
           lgPc' \in {"idle", "size", "append"}
    PROVE  LgInv'
<1>1. /\ lgFile' \in Seq(LgEntries)
      /\ LgOrdered(lgFile', lgCut) /\ LgUpTo(lgFile', lgCut, lgPrinted)
      /\ LgReaches(lgFile', lgCut, LgLow)
  BY LgGrown
<1>2. LgLow' = LgLow
  BY DEF LgLow
<1>3. LgTypeOK'
  BY <1>1 DEF LgInv, LgTypeOK
<1>4. (LgOrdered(lgFile, lgCut))' /\ (LgUpTo(lgFile, lgCut, lgPrinted))'
  BY <1>1 DEF LgOrdered, LgUpTo
<1>5. (LgReaches(lgFile, lgCut, LgLow))'
  BY <1>1, <1>2 DEF LgReaches
<1> QED BY <1>2, <1>3, <1>4, <1>5 DEF LgInv

LEMMA LgTextWhole ==
    ASSUME LgTypeOK
    PROVE  /\ Len(LgText) \in Nat /\ Len(LgText) \in 0 .. Len(LgText)
           /\ SubSeq(LgText, 1, Len(LgText)) = LgText
BY LgTextIs, SubSeqFull

LEMMA LgWriteStep == LgInv /\ LgWrite => LgInv'
<1> SUFFICES ASSUME LgInv, LgWrite PROVE LgInv'
  OBVIOUS
<1>1. /\ lgPc' \in {"idle", "size", "append"}
      /\ lgPrinted' = lgPrinted /\ lgCut' = lgCut
  BY DEF LgWrite
<1>2. /\ Len(LgText) \in Nat /\ Len(LgText) \in 0 .. Len(LgText)
      /\ SubSeq(LgText, 1, Len(LgText)) = LgText
  BY LgTextWhole DEF LgInv
<1>3. CASE lgFile' = lgFile \o LgText /\ LgDone
  <2>1. lgFile' = lgFile \o SubSeq(LgText, 1, Len(LgText))
    BY <1>2, <1>3
  <2>2. /\ lgFile' \in Seq(LgEntries)
        /\ LgOrdered(lgFile', lgCut) /\ LgUpTo(lgFile', lgCut, lgPrinted)
        /\ LgReaches(lgFile', lgCut, lgPrinted)
    BY <1>2, <2>1, LgGrown
  <2>3. /\ (LgOrdered(lgFile, lgCut))' /\ (LgUpTo(lgFile, lgCut, lgPrinted))'
        /\ (LgReaches(lgFile, lgCut, lgPrinted))'
    BY <1>1, <2>2 DEF LgOrdered, LgUpTo, LgReaches
  <2>4. lgPrinted' \in 0 .. LgLines /\ lgCut' \in Nat
    BY <1>1 DEF LgInv, LgTypeOK
  <2> QED BY <1>1, <1>3, <2>2, <2>3, <2>4, LgEmptied
<1>4. CASE lgFile' = lgFile \o LgText /\ LgKept
  <2>1. lgFile' = lgFile \o SubSeq(LgText, 1, Len(LgText))
    BY <1>2, <1>4
  <2> QED BY <1>1, <1>2, <1>4, <2>1, LgPartWritten DEF LgKept
<1>5. CASE LgFailed
  <2>1. PICK k \in IF lgWriter THEN {0} ELSE 0 .. Len(LgText) - 1 :
            lgFile' = lgFile \o SubSeq(LgText, 1, k)
    BY <1>5 DEF LgFailed
  <2>2. k \in 0 .. Len(LgText)
    BY <1>2, <2>1
  <2> QED BY <1>1, <1>5, <2>1, <2>2, LgPartWritten DEF LgFailed, LgKept
<1> QED BY <1>3, <1>4, <1>5 DEF LgWrite

LEMMA LgRotateStep == LgInv /\ LgRotate => LgInv'
<1> SUFFICES ASSUME LgInv, LgRotate PROVE LgInv'
  OBVIOUS
<1>1. UNCHANGED <<lgRing, lgDropped, lgPrinted>> /\ lgPc' \in {"idle", "size", "append"}
  BY DEF LgRotate
<1>2. CASE UNCHANGED <<lgFile, lgCut>>
  BY <1>1, <1>2, LgMoves
<1>3. CASE lgFile' = << >> /\ lgCut' = LgTold
  <2>1. LgTold \in Nat /\ LgTold <= lgPrinted /\ LgTold >= LgLow
    BY LgToldIs
  <2>2. lgPrinted \in Nat /\ LgLow \in Nat
    BY LgConstants DEF LgInv, LgTypeOK
  <2>3. /\ << >> \in Seq(LgEntries)
        /\ LgOrdered(<< >>, LgTold) /\ LgUpTo(<< >>, LgTold, LgTold)
        /\ LgReaches(<< >>, LgTold, LgTold)
    BY <2>1, LgEmptyFile
  <2>4. LgUpTo(<< >>, LgTold, lgPrinted)
    BY <2>1, <2>2, <2>3, LgMorePrinted
  <2>5. LgReaches(<< >>, LgTold, LgLow)
    <3>1. PICK k \in 0 .. Len(<< >>) : LgReads(<< >>, LgTold)[k] >= LgTold
      BY <2>3 DEF LgReaches
    <3>2. LgReads(<< >>, LgTold)[k] \in Nat
      BY <2>1, <2>3, LgReadsIs
    <3>3. LgReads(<< >>, LgTold)[k] >= LgLow
      BY <2>1, <2>2, <3>1, <3>2
    <3> QED BY <3>1, <3>3 DEF LgReaches
  <2>6. LgLow' = LgLow
    BY <1>1 DEF LgLow
  <2>7. LgTypeOK'
    BY <1>1, <1>3, <2>1, <2>3 DEF LgInv, LgTypeOK
  <2>8. (LgOrdered(lgFile, lgCut))' /\ (LgUpTo(lgFile, lgCut, lgPrinted))'
    BY <1>1, <1>3, <2>3, <2>4 DEF LgOrdered, LgUpTo
  <2>9. (LgReaches(lgFile, lgCut, LgLow))'
    BY <1>3, <2>5, <2>6 DEF LgReaches
  <2> QED BY <1>1, <2>6, <2>7, <2>8, <2>9 DEF LgInv
<1> QED BY <1>2, <1>3 DEF LgRotate

LEMMA LgPowerLossStep == LgInv /\ LgPowerLoss => LgInv'
<1> SUFFICES ASSUME LgInv, LgPowerLoss PROVE LgInv'
  OBVIOUS
<1>1. /\ LgDone /\ lgPc' \in {"idle", "size", "append"} /\ lgPrinted' = LgTold
      /\ lgFile' = lgFile /\ lgCut' = lgCut
  BY DEF LgPowerLoss, LgDone
<1>2. /\ LgTold \in Nat /\ LgTold <= lgPrinted
      /\ LgUpTo(lgFile, lgCut, LgTold) /\ LgReaches(lgFile, lgCut, LgTold)
  BY LgToldIs
<1>3. lgPrinted \in 0 .. LgLines /\ lgFile \in Seq(LgEntries) /\ lgCut \in Nat
  BY DEF LgInv, LgTypeOK
<1>4. LgTold \in 0 .. LgLines
  BY <1>2, <1>3, LgConstants
<1>5. (LgOrdered(lgFile, lgCut))'
  BY <1>1 DEF LgInv, LgOrdered
<1>6. (LgUpTo(lgFile, lgCut, lgPrinted))' /\ (LgReaches(lgFile, lgCut, lgPrinted))'
  BY <1>1, <1>2 DEF LgUpTo, LgReaches
<1> QED BY <1>1, <1>3, <1>4, <1>5, <1>6, LgEmptied

LEMMA LgStepInv == LgInv /\ [LgNext]_lgVars => LgInv'
<1> SUFFICES ASSUME LgInv, [LgNext]_lgVars PROVE LgInv'
  OBVIOUS
<1>1. CASE LgPrint
  <2>1. /\ LgAppendLine /\ lgPrinted < LgLines /\ UNCHANGED <<lgFile, lgCut>>
        /\ lgPc' \in {"idle", "size", "append"}
    BY <1>1 DEF LgPrint
  <2> QED BY <2>1, LgAppends
<1>2. CASE LgFlush
  <2>1. UNCHANGED <<lgFile, lgCut>> /\ lgPc' \in {"idle", "size", "append"}
    BY <1>2 DEF LgFlush
  <2>2. CASE lgPrinted < LgLines /\ LgAppendLine
    BY <2>1, <2>2, LgAppends
  <2>3. CASE UNCHANGED <<lgRing, lgDropped, lgPrinted>>
    BY <2>1, <2>3, LgMoves
  <2> QED BY <1>2, <2>2, <2>3 DEF LgFlush
<1>3. CASE LgRotate
  BY <1>3, LgRotateStep
<1>4. CASE LgWrite
  BY <1>4, LgWriteStep
<1>5. CASE LgPowerLoss
  BY <1>5, LgPowerLossStep
<1>6. CASE UNCHANGED lgVars
  <2>1. UNCHANGED <<lgRing, lgDropped, lgFile, lgPrinted, lgCut>> /\ lgPc' = lgPc
    BY <1>6 DEF lgVars
  <2>2. lgPc \in {"idle", "size", "append"}
    BY DEF LgInv, LgTypeOK
  <2> QED BY <2>1, <2>2, LgMoves
<1> QED BY <1>1, <1>2, <1>3, <1>4, <1>5, <1>6 DEF LgNext

LEMMA LgInvariance == LgSpec => []LgInv
BY LgInitInv, LgStepInv, PTL DEF LgSpec

(* The log keeps its types: the ring stays within LOG_BUFFER_LINES, and    *)
(* what is in the file are lines and notes.                                *)
THEOREM LgTypes == LgSpec => []LgTypeOK
<1>1. LgInv => LgTypeOK
  BY LgInvGives
<1> QED BY <1>1, LgInvariance, PTL

(* log.h: "On failure the buffer is kept for the next attempt."  For a     *)
(* ring and a file of any size, any number of lines and any faults, a      *)
(* reader of the file, and then of the ring, never meets a line that does  *)
(* not follow one it has come to, and comes to the last one printed.       *)
THEOREM LgNeverMissing == LgSpec => []LgNoneMissing
<1>1. LgInv => LgNoneMissing
  BY LgInvGives
<1> QED BY <1>1, LgInvariance, PTL

-----------------------------------------------------------------------------
(* The FAT volume, as long as the FAT can be read.                         *)

(* s is the chain from clus: it repeats nothing and ends.                  *)
FfChainOk(s, fat, clus) ==
    /\ s \in Seq(FfClusters)
    /\ \A i, j \in 1 .. Len(s) : s[i] = s[j] => i = j
    /\ IF clus \in FfClusters THEN s # << >> /\ s[1] = clus ELSE s = << >>
    /\ \A i \in 1 .. Len(s) - 1 : fat[s[i]] = s[i + 1]
    /\ s # << >> => fat[s[Len(s)]] = FfEnd

FfOn(c, s) == \E i \in 1 .. Len(s) : s[i] = c

FfApart(s, t) == \A c \in FfClusters : ~(FfOn(c, s) /\ FfOn(c, t))

(* The files' chains.                                                      *)
FfFilesOk ==
    /\ \A f \in FfFiles :
          /\ FfChainOk(FfChain(f), ffFat[1], FfClus(f))
          /\ FfSectors(FfSize(f)) <= Len(FfChain(f))
    /\ \A f, g \in FfFiles : f # g => FfApart(FfChain(f), FfChain(g))

(* The part of the call's clusters that is linked.                         *)
FfFront(s) == SubSeq(s, 1, Len(s) - 1)
FfBase ==
    IF ffCall.at = "grow" /\ Len(ffTodo) >= 3 THEN FfFront(ffCall.chain) ELSE ffCall.chain

(* The call has not been cut short.                                        *)
FfLive == ffCall # FfNone /\ (ffCall.at = "grow" \/ ffTodo # << >> \/ ~ffHurt)

(* What is linked is a chain, the file's own one or one that no entry      *)
(* leads to yet.                                                           *)
FfHeld ==
    FfLive =>
        /\ FfChainOk(FfBase, ffFat[1], FfFirst(FfBase))
        /\ FfChain(ffCall.f) \in {FfBase, << >>}
        /\ \A g \in FfFiles : g # ffCall.f => FfApart(FfBase, FfChain(g))

(* The cluster in hand, before it is linked, is on no chain.               *)
FfLoose ==
    ffCall # FfNone /\ ffCall.at = "grow" /\ Len(ffTodo) >= 3 =>
        LET c == Last(ffCall.chain)
        IN  /\ ~FfOn(c, FfBase) /\ \A g \in FfFiles : ~FfOn(c, FfChain(g))
            /\ ffFat[1][c] = IF Head(ffTodo).copy = 1 /\ Head(ffTodo).c = c
                             THEN FfFree ELSE FfEnd

FfMark(n, c) == [k |-> "fat", copy |-> n, c |-> c, v |-> FfEnd]
FfLink(n, p, c) == [k |-> "fat", copy |-> n, c |-> p, v |-> c]
FfClean(c) == [k |-> "data", c |-> c, units |-> FfBlank]

(* What is left of a round of the growth loop.                             *)
FfRound ==
    LET n == Len(ffCall.chain)
        c == ffCall.chain[n]
        p == ffCall.chain[n - 1]
    IN  \/ ffTodo = << >>
        \/ n > 0 /\ ffTodo = <<FfClean(c)>>
        \/ n = 1 /\ ffTodo = <<FfMark(2, c), FfClean(c)>>
        \/ n = 1 /\ ffTodo = <<FfMark(1, c), FfMark(2, c), FfClean(c)>>
        \/ n > 1 /\ ffTodo = <<FfLink(2, p, c), FfClean(c)>>
        \/ n > 1 /\ ffTodo = <<FfLink(1, p, c), FfLink(2, p, c), FfClean(c)>>
        \/ n > 1 /\ ffTodo = <<FfMark(2, c), FfLink(1, p, c), FfLink(2, p, c), FfClean(c)>>
        \/ n > 1 /\ ffTodo = <<FfMark(1, c), FfMark(2, c), FfLink(1, p, c), FfLink(2, p, c),
                               FfClean(c)>>

(* What the writes after the growth may be.                                *)
FfMayWrite(w, last) ==
    \/ w.k = "hint"
    \/ w.k = "data" /\ FfOn(w.c, ffCall.chain)
    \/ /\ last /\ w = FfEntry(ffCall.f, FfFirst(ffCall.chain), ffCall.off + ffCall.len)
       /\ FfGrownTo <= Len(ffCall.chain)

FfShape ==
    /\ ffCall = FfNone => ffTodo = << >>
    /\ ffCall # FfNone =>
          /\ ffCount < FfCalls /\ ffCall.had <= Len(ffCall.chain)
          /\ IF ffCall.at = "grow"
             THEN FfRound /\ ffCall.kind \in {"append", "create"}
             ELSE \A i \in 1 .. Len(ffTodo) : FfMayWrite(ffTodo[i], i = Len(ffTodo))

(* While no call was hurt: the copies differ in the entry that the second  *)
(* one is to get next, every used cluster is on a chain, and the call's    *)
(* clusters are the file's, or its entry is still to be written.           *)
FfAllKept ==
    ~ffHurt =>
        /\ ffFat[1] = IF ffTodo # << >> /\ Head(ffTodo).k = "fat" /\ Head(ffTodo).copy = 2
                      THEN [ffFat[2] EXCEPT ![Head(ffTodo).c] = Head(ffTodo).v]
                      ELSE ffFat[2]
        /\ \A c \in FfClusters :
              ffFat[1][c] # FfFree =>
                \/ \E f \in FfFiles : FfOn(c, FfChain(f))
                \/ ffCall # FfNone /\ FfOn(c, ffCall.chain)
        /\ ffCall # FfNone /\ ffCall.at = "write" =>
              \/ FfChain(ffCall.f) = ffCall.chain
              \/ ffTodo # << >> /\ ffTodo[Len(ffTodo)].k = "dir"

FfInv == FfTypeOK /\ FfFilesOk /\ FfHeld /\ FfLoose /\ FfShape /\ FfAllKept

LEMMA FfConstants ==
    /\ FfLastCluster \in Nat /\ FfUnit \in Nat \ {0} /\ FfLens \subseteq Nat /\ FfCalls \in Nat
    /\ \A c \in FfClusters : c \in Nat /\ c >= 2 /\ c # FfFree /\ c # FfEnd
    /\ FfFree # FfEnd /\ FfNone \notin FfEntries /\ FfNone \notin FfCallKinds
BY FfAssumption DEF FfClusters, FfFree, FfEnd

FfFats == [FfClusters -> FfClusters \cup {FfFree, FfEnd}]

(* A sequence of clusters that repeats none is not longer than they are.   *)
LEMMA FfShort ==
    ASSUME NEW s \in Seq(FfClusters), \A i, j \in 1 .. Len(s) : s[i] = s[j] => i = j
    PROVE  Len(s) <= FfLastCluster
<1>1. Len(s) \in Nat /\ s \in [1 .. Len(s) -> FfClusters]
  BY LenProperties
<1>2. s \in Injection(1 .. Len(s), FfClusters)
  BY <1>1 DEF Injection, IsInjective
<1>3. IsFiniteSet(FfClusters) /\ Cardinality(FfClusters) <= FfLastCluster
  <2>1. 2 \in Int /\ FfLastCluster \in Int /\ FfLastCluster \in Nat
    BY FfConstants
  <2>2. /\ IsFiniteSet(2 .. FfLastCluster)
        /\ Cardinality(2 .. FfLastCluster) = IF 2 > FfLastCluster THEN 0
                                              ELSE FfLastCluster - 2 + 1
    BY <2>1, FS_Interval
  <2>3. (IF 2 > FfLastCluster THEN 0 ELSE FfLastCluster - 2 + 1) <= FfLastCluster
    BY <2>1
  <2> QED BY <2>2, <2>3 DEF FfClusters
<1>4. Cardinality(1 .. Len(s)) <= Cardinality(FfClusters)
  BY <1>2, <1>3, FS_Injection
<1>5. Cardinality(1 .. Len(s)) = Len(s)
  BY <1>1, FS_Interval
<1>6. Cardinality(FfClusters) \in Nat
  BY <1>3, FS_CardinalityType
<1> QED BY <1>1, <1>3, <1>4, <1>5, <1>6, FfConstants

(* Walking the FAT from a cluster returns the chain from it.               *)
LEMMA FfChainIs ==
    ASSUME NEW s, NEW fat, NEW clus, FfChainOk(s, fat, clus)
    PROVE  FfChainFrom(fat, clus) = s
<1> DEFINE N == Len(s)
           L == FfLastCluster
           At(n) == SubSeq(s, 1, IF n < N THEN n + 1 ELSE N)
           Goes(w) == [n \in 0 .. L |->
                         IF n = 0 THEN IF clus \in FfClusters THEN <<clus>> ELSE << >>
                         ELSE FfWalk(fat, w[n - 1])]
           W == [n \in 0 .. L |-> At(n)]
<1>1. /\ s \in Seq(FfClusters) /\ N \in Nat /\ L \in Nat /\ N <= L
      /\ \A i \in 1 .. N : s[i] \in FfClusters
  BY FfShort, FfConstants, ElementOfSeq, LenProperties DEF FfChainOk
<1>2. \A n \in Nat : /\ At(n) \in Seq(FfClusters)
                     /\ Len(At(n)) = (IF n < N THEN n + 1 ELSE N)
                     /\ \A i \in 1 .. (IF n < N THEN n + 1 ELSE N) : At(n)[i] = s[i]
  <2> TAKE n \in Nat
  <2> DEFINE m == IF n < N THEN n + 1 ELSE N
  <2>1. m \in Nat /\ m <= N
    BY <1>1
  <2> HIDE DEF m, N
  <2>2. \A i \in 1 .. m : s[i] \in FfClusters
    BY <1>1, <2>1
  <2>3. /\ SubSeq(s, 1, m) \in Seq(FfClusters) /\ Len(SubSeq(s, 1, m)) = IF 1 <= m THEN m - 1 + 1 ELSE 0
        /\ \A i \in 1 .. m - 1 + 1 : SubSeq(s, 1, m)[i] = s[1 + i - 1]
    BY <2>1, <2>2, SubSeqProperties
  <2>4. (IF 1 <= m THEN m - 1 + 1 ELSE 0) = m /\ m - 1 + 1 = m /\ \A i \in 1 .. m : 1 + i - 1 = i
    BY <2>1
  <2> QED BY <2>3, <2>4 DEF m
<1>3. At(0) = IF clus \in FfClusters THEN <<clus>> ELSE << >>
  <2>1. CASE N = 0
    <3>1. s = << >> /\ clus \notin FfClusters
      BY <1>1, <2>1 DEF FfChainOk
    <3> QED BY <1>1, <1>2, <2>1, <3>1
  <2>2. CASE N > 0
    <3>1. s # << >> /\ clus \in FfClusters /\ s[1] = clus
      BY <1>1, <2>2 DEF FfChainOk
    <3>2. At(0) \in Seq(FfClusters) /\ Len(At(0)) = 1 /\ At(0)[1] = s[1]
      <4>1. 0 \in Nat /\ (IF 0 < N THEN 0 + 1 ELSE N) = 1 /\ 1 \in 1 .. 1
        BY <1>1, <2>2
      <4> HIDE DEF At, N
      <4>2. /\ At(0) \in Seq(FfClusters)
            /\ Len(At(0)) = (IF 0 < N THEN 0 + 1 ELSE N)
            /\ \A i \in 1 .. (IF 0 < N THEN 0 + 1 ELSE N) : At(0)[i] = s[i]
        BY ONLY <1>2
      <4>3. At(0)[1] = s[1]
        BY <4>1, <4>2
      <4> QED BY <4>1, <4>2, <4>3
    <3>3. <<clus>> \in Seq(FfClusters) /\ Len(<<clus>>) = 1 /\ <<clus>>[1] = clus
      BY <3>1
    <3> HIDE DEF At
    <3>4. At(0) = <<clus>>
      BY <3>1, <3>2, <3>3, SeqEqual
    <3> QED BY <3>1, <3>4
  <2> QED BY <1>1, <2>1, <2>2
<1>4. ASSUME NEW n \in 1 .. L PROVE At(n) = FfWalk(fat, At(n - 1))
  <2> DEFINE t == At(n - 1)
             m == IF n - 1 < N THEN n - 1 + 1 ELSE N
  <2>1. /\ n \in Nat /\ n - 1 \in Nat
        /\ t \in Seq(FfClusters) /\ Len(t) = m /\ \A i \in 1 .. m : t[i] = s[i]
    BY <1>1, <1>2
  <2>2. /\ At(n) \in Seq(FfClusters)
        /\ Len(At(n)) = (IF n < N THEN n + 1 ELSE N)
        /\ \A i \in 1 .. (IF n < N THEN n + 1 ELSE N) : At(n)[i] = s[i]
    BY <1>2, <2>1
  <2>3. CASE N = 0
    BY <1>1, <2>1, <2>2, <2>3 DEF FfWalk
  <2>4. CASE N > 0 /\ n < N
    <3>1. m = n /\ n \in 1 .. N - 1 /\ n \in 1 .. m /\ n + 1 \in 1 .. N
      BY <1>1, <2>1, <2>4
    <3>2. fat[s[n]] = s[n + 1] /\ t[Len(t)] = s[n] /\ s[n + 1] \in FfClusters /\ t # << >>
      <4>1. fat[s[n]] = s[n + 1] /\ s[n + 1] \in FfClusters
        BY <1>1, <3>1 DEF FfChainOk
      <4> HIDE DEF t
      <4>2. Len(t) = n /\ t[n] = s[n] /\ t # << >>
        BY <2>1, <3>1
      <4> QED BY <4>1, <4>2
    <3>3. FfWalk(fat, t) = Append(t, s[n + 1])
      BY <3>2 DEF FfWalk
    <3>4. At(n) = Append(t, s[n + 1])
      <4> HIDE DEF t, At
      <4>1. At(n) \in Seq(FfClusters) /\ Len(At(n)) = n + 1 /\ \A i \in 1 .. n + 1 : At(n)[i] = s[i]
        BY <2>2, <2>4
      <4>2. t \in Seq(FfClusters) /\ Len(t) = n /\ \A i \in 1 .. n : t[i] = s[i]
        BY <2>1, <3>1
      <4>3. /\ Append(t, s[n + 1]) \in Seq(FfClusters) /\ Len(Append(t, s[n + 1])) = n + 1
            /\ \A i \in 1 .. n : Append(t, s[n + 1])[i] = t[i]
            /\ Append(t, s[n + 1])[n + 1] = s[n + 1]
        BY <3>2, <4>2, AppendProperties
      <4>4. \A i \in 1 .. n + 1 : i \in 1 .. n \/ i = n + 1
        BY <2>1
      <4> QED BY <4>1, <4>2, <4>3, <4>4, SeqEqual
    <3> QED BY <3>3, <3>4
  <2>5. CASE N > 0 /\ n >= N
    <3>1. m = N /\ N \in 1 .. m /\ s # << >>
      BY <1>1, <2>1, <2>5
    <3>2. t # << >> /\ t[Len(t)] = s[N] /\ fat[s[N]] = FfEnd /\ FfEnd \notin FfClusters
      BY <1>1, <2>1, <3>1, FfConstants DEF FfChainOk
    <3>3. FfWalk(fat, t) = t
      BY <3>2 DEF FfWalk
    <3>4. At(n) = t
      BY <2>1, <2>5
    <3> QED BY <3>3, <3>4
  <2> QED BY <1>1, <2>3, <2>4, <2>5
<1> HIDE DEF At
<1>5. W = Goes(W)
  <2>1. \A n \in 0 .. L : n = 0 \/ (n \in 1 .. L /\ n - 1 \in 0 .. L)
    BY <1>1
  <2> QED BY <1>3, <1>4, <2>1
<1> DEFINE w == CHOOSE w : w = Goes(w)
<1>6. w = Goes(w)
  BY <1>5
<1>7. FfChainFrom(fat, clus) = w[L]
  BY DEF FfChainFrom
<1> HIDE DEF w
<1> DEFINE J == {n \in 0 .. L : w[n] # At(n)}
<1>8. J = {}
  <2> SUFFICES ASSUME J # {} PROVE FALSE
    OBVIOUS
  <2>1. PICK n \in J : \A j \in J : n <= j
    <3>1. J \in SUBSET Nat
      BY <1>1
    <3> HIDE DEF J
    <3> QED BY <3>1, LeastNumber
  <2>2. w[0] = IF clus \in FfClusters THEN <<clus>> ELSE << >>
    BY <1>1, <1>6
  <2>3. n \in 1 .. L /\ n - 1 \in 0 .. L /\ w[n] # At(n) /\ n # 0
    BY <1>1, <1>3, <2>1, <2>2
  <2>4. w[n - 1] = At(n - 1)
    BY <2>1, <2>3
  <2>5. w[n] = FfWalk(fat, w[n - 1])
    BY <1>6, <2>3
  <2> QED BY <1>4, <2>3, <2>4, <2>5
<1>9. At(L) = s
  <2>1. At(L) \in Seq(FfClusters) /\ Len(At(L)) = N /\ \A i \in 1 .. N : At(L)[i] = s[i]
    BY <1>1, <1>2
  <2> QED BY <1>1, <2>1, SeqEqual
<1> QED BY <1>1, <1>7, <1>8, <1>9

(* A chain that is left alone stays one.                                   *)
LEMMA FfKeeps ==
    ASSUME NEW s, NEW fat, NEW new, NEW clus, FfChainOk(s, fat, clus),
           \A i \in 1 .. Len(s) : new[s[i]] = fat[s[i]]
    PROVE  FfChainOk(s, new, clus)
<1>1. s \in Seq(FfClusters) /\ Len(s) \in Nat /\ (s # << >> => Len(s) \in 1 .. Len(s))
  BY EmptySeq DEF FfChainOk
<1>2. \A i \in 1 .. Len(s) - 1 : i \in 1 .. Len(s)
  BY <1>1
<1>3. \A i \in 1 .. Len(s) - 1 : new[s[i]] = s[i + 1]
  BY <1>2 DEF FfChainOk
<1>4. s # << >> => new[s[Len(s)]] = FfEnd
  BY <1>1 DEF FfChainOk
<1> QED BY <1>3, <1>4 DEF FfChainOk

(* The cluster of a chain is in use.                                       *)
LEMMA FfOnUsed ==
    ASSUME NEW s, NEW fat, NEW clus, FfChainOk(s, fat, clus), NEW c \in FfClusters, FfOn(c, s)
    PROVE  fat[c] # FfFree
<1>1. s \in Seq(FfClusters) /\ Len(s) \in Nat
  BY DEF FfChainOk
<1>2. PICK i \in 1 .. Len(s) : s[i] = c
  BY DEF FfOn
<1>3. CASE i = Len(s)
  <2>1. s # << >>
    BY <1>1, <1>2
  <2> QED BY <1>2, <1>3, <2>1, FfConstants DEF FfChainOk
<1>4. CASE i # Len(s)
  <2>1. i \in 1 .. Len(s) - 1 /\ i + 1 \in 1 .. Len(s)
    BY <1>1, <1>2, <1>4
  <2>2. fat[c] = s[i + 1] /\ s[i + 1] \in FfClusters
    BY <1>1, <1>2, <2>1 DEF FfChainOk
  <2> QED BY <2>2, FfConstants
<1> QED BY <1>3, <1>4

(* Marking, linking or freeing a cluster that is not on a chain leaves it. *)
LEMMA FfOthers ==
    ASSUME NEW s, NEW fat \in FfFats, NEW clus, FfChainOk(s, fat, clus),
           NEW c \in FfClusters, ~FfOn(c, s), NEW v
    PROVE  FfChainOk(s, [fat EXCEPT ![c] = v], clus)
<1>1. s \in Seq(FfClusters) /\ \A i \in 1 .. Len(s) : s[i] \in FfClusters
  BY ElementOfSeq DEF FfChainOk
<1>2. \A i \in 1 .. Len(s) : [fat EXCEPT ![c] = v][s[i]] = fat[s[i]]
  BY <1>1 DEF FfOn, FfFats
<1> HIDE DEF FfOn
<1> QED BY <1>2, FfKeeps

(* A chain grows by the cluster that its last one is linked to.            *)
LEMMA FfExtends ==
    ASSUME NEW s, NEW fat \in FfFats, NEW clus, FfChainOk(s, fat, clus), s # << >>,
           NEW c \in FfClusters, ~FfOn(c, s), fat[c] = FfEnd
    PROVE  FfChainOk(Append(s, c), [fat EXCEPT ![s[Len(s)]] = c], clus)
<1> DEFINE N == Len(s)
           t == Append(s, c)
           new == [fat EXCEPT ![s[N]] = c]
<1>1. /\ s \in Seq(FfClusters) /\ N \in Nat /\ N >= 1 /\ N \in 1 .. N
      /\ \A i \in 1 .. N : s[i] \in FfClusters
  BY EmptySeq, ElementOfSeq DEF FfChainOk
<1>2. \A i, j \in 1 .. N : s[i] = s[j] => i = j
  BY DEF FfChainOk
<1>3. /\ t \in Seq(FfClusters) /\ t # << >> /\ Len(t) = N + 1
      /\ (\A i \in 1 .. N : t[i] = s[i]) /\ t[N + 1] = c
  BY <1>1, AppendProperties
<1>4. s[N] # c /\ \A i \in 1 .. N : s[i] # c
  BY <1>1 DEF FfOn
<1>5. new[s[N]] = c /\ new[c] = FfEnd /\ \A i \in 1 .. N - 1 : new[s[i]] = fat[s[i]]
  <2>1. \A i \in 1 .. N - 1 : i \in 1 .. N /\ i # N
    BY <1>1
  <2>2. \A i \in 1 .. N - 1 : s[i] # s[N] /\ s[i] \in FfClusters
    BY <1>1, <1>2, <2>1
  <2> QED BY <1>1, <1>4, <2>2 DEF FfFats
<1>6. \A i \in 1 .. N - 1 : fat[s[i]] = s[i + 1]
  BY DEF FfChainOk
<1>7. IF clus \in FfClusters THEN s # << >> /\ s[1] = clus ELSE s = << >>
  BY DEF FfChainOk
<1> HIDE DEF t, N, new
<1>8. \A i, j \in 1 .. N + 1 : t[i] = t[j] => i = j
  <2>1. \A i \in 1 .. N + 1 : i \in 1 .. N \/ i = N + 1
    BY <1>1
  <2> QED BY <1>2, <1>3, <1>4, <2>1
<1>9. clus \in FfClusters /\ t[1] = clus
  <2>1. 1 \in 1 .. N
    BY <1>1
  <2> QED BY <1>3, <1>7, <2>1
<1>10. \A i \in 1 .. N + 1 - 1 : new[t[i]] = t[i + 1]
  <2> TAKE i \in 1 .. N + 1 - 1
  <2>1. CASE i = N
    <3>1. t[i] = s[N] /\ t[i + 1] = c
      BY <1>1, <1>3, <2>1
    <3> QED BY <1>5, <3>1
  <2>2. CASE i # N
    <3>1. i \in 1 .. N - 1 /\ i \in 1 .. N /\ i + 1 \in 1 .. N
      BY <1>1, <2>2
    <3>2. t[i] = s[i] /\ t[i + 1] = s[i + 1] /\ new[s[i]] = fat[s[i]] /\ fat[s[i]] = s[i + 1]
      BY <1>3, <1>5, <1>6, <3>1
    <3> QED BY <3>2
  <2> QED BY <2>1, <2>2
<1>11. new[t[N + 1]] = FfEnd
  BY <1>3, <1>5
<1>12. FfChainOk(t, new, clus)
  <2>1. \A i, j \in 1 .. Len(t) : t[i] = t[j] => i = j
    BY <1>3, <1>8
  <2>2. \A i \in 1 .. Len(t) - 1 : new[t[i]] = t[i + 1]
    <3>1. Len(t) - 1 = N + 1 - 1
      BY <1>1, <1>3
    <3> QED BY <1>10, <3>1
  <2>3. new[t[Len(t)]] = FfEnd /\ t \in Seq(FfClusters) /\ t # << >>
    BY <1>3, <1>11
  <2> QED BY ONLY <1>9, <2>1, <2>2, <2>3 DEF FfChainOk
<1> QED BY <1>12 DEF t, new, N

(* A marked cluster is a chain of its own, and nothing is one from nothing.*)
LEMMA FfSingle ==
    ASSUME NEW fat, NEW c \in FfClusters, fat[c] = FfEnd
    PROVE  FfChainOk(<<c>>, fat, c)
<1>1. <<c>> \in Seq(FfClusters) /\ Len(<<c>>) = 1 /\ <<c>>[1] = c /\ <<c>> # << >>
  OBVIOUS
<1> QED BY <1>1 DEF FfChainOk

LEMMA FfNoChain ==
    ASSUME NEW fat, NEW clus, clus \notin FfClusters PROVE FfChainOk(<< >>, fat, clus)
BY DEF FfChainOk

(* The chain is the one from its first cluster, too.                       *)
LEMMA FfFromFirst ==
    ASSUME NEW s, NEW fat, NEW clus \in FfClusters \cup {0}, FfChainOk(s, fat, clus)
    PROVE  FfFirst(s) = clus /\ FfFirst(s) \in FfClusters \cup {0}
<1>1. 0 \notin FfClusters
  BY FfConstants
<1> QED BY <1>1 DEF FfFirst, FfChainOk

(* Sectors are enough for what is in them.                                 *)
LEMMA FfSectorsOf ==
    ASSUME NEW n \in Nat
    PROVE  /\ FfSectors(n) \in Nat /\ FfSectors(0) = 0
           /\ \A k \in Nat : k < n => k \div FfUnit \in Nat /\ k \div FfUnit + 1 <= FfSectors(n)
<1> DEFINE U == FfUnit
           r == (n + U - 1) \div U
<1>1. U \in Nat /\ U >= 1
  BY FfConstants
<1>2. FfSectors(0) = 0
  <2>1. (0 + U - 1) \div U = 0
    <3>1. (0 + U - 1) = 0 + (U - 1) /\ U - 1 \in 0 .. U - 1
      BY <1>1
    <3> QED BY <1>1, <3>1
  <2> QED BY <2>1 DEF FfSectors
<1>3. r \in Nat /\ U * r <= n + U - 1 /\ n + U - 1 < U * r + U
  BY <1>1
<1>4. ASSUME NEW k \in Nat, k < n PROVE k \div U \in Nat /\ k \div U + 1 <= r
  <2> DEFINE q == k \div U
  <2>1. q \in Nat /\ U * q <= k /\ k < U * q + U
    BY <1>1
  <2> HIDE DEF q, r, U
  <2>2. q < r
    <3> SUFFICES ASSUME r <= q PROVE FALSE
      BY <1>3, <2>1
    <3>1. PICK d \in Nat : q = r + d
      <4>1. q - r \in Nat /\ q = r + (q - r)
        BY <1>3, <2>1
      <4> QED BY <4>1
    <3>2. U * q = U * r + U * d /\ U * d >= 0 /\ U * r \in Nat /\ U * d \in Nat
      BY <1>1, <1>3, <3>1
    <3> HIDE <3>1
    <3> QED BY <1>1, <1>3, <1>4, <2>1, <3>2
  <2> QED BY <1>3, <2>1, <2>2 DEF q
<1> QED BY <1>2, <1>3, <1>4 DEF FfSectors

(* A free cluster is found when there is one.                              *)
LEMMA FfAllocFree ==
    ASSUME FfFreeOnes # {}
    PROVE  FfAlloc \in FfClusters /\ ffFat[1][FfAlloc] = FfFree
<1>1. ASSUME NEW S \in SUBSET FfFreeOnes, S # {} PROVE Min(S) \in S
  <2>1. S \in SUBSET Nat
    BY FfConstants DEF FfFreeOnes
  <2>2. \E m \in S : \A j \in S : m <= j
    BY <1>1, <2>1, LeastNumber
  <2> QED BY <2>2 DEF Min
<1> DEFINE start == IF ffHint \in FfClusters THEN ffHint ELSE 2
           onward == {c \in FfFreeOnes : c >= start}
<1>2. onward \in SUBSET FfFreeOnes /\ FfFreeOnes \in SUBSET FfFreeOnes
  OBVIOUS
<1>3. FfAlloc = IF onward # {} THEN Min(onward) ELSE Min(FfFreeOnes)
  BY DEF FfAlloc
<1> HIDE DEF onward
<1>4. FfAlloc \in FfFreeOnes
  BY <1>1, <1>2, <1>3
<1> QED BY <1>4 DEF FfFreeOnes

LEMMA FfDivMono ==
    ASSUME NEW a \in Nat, NEW b \in Nat, a <= b
    PROVE  a \div FfUnit \in Nat /\ b \div FfUnit \in Nat /\ a \div FfUnit <= b \div FfUnit
<1> DEFINE U == FfUnit
           p == a \div U
           q == b \div U
<1>1. U \in Nat /\ U >= 1
  BY FfConstants
<1>2. p \in Nat /\ U * p <= a
  BY <1>1
<1>3. q \in Nat /\ b < U * q + U
  BY <1>1
<1> HIDE DEF U, p, q
<1>4. p <= q
  <2> SUFFICES ASSUME q < p PROVE FALSE
    BY <1>2, <1>3
  <2>1. PICK d \in Nat : p = q + 1 + d
    <3>1. p - q - 1 \in Nat /\ p = q + 1 + (p - q - 1)
      BY <1>2, <1>3
    <3> QED BY <3>1
  <2>2. U * p = U * q + U + U * d /\ U * d >= 0 /\ U * q \in Nat /\ U * d \in Nat
    BY <1>1, <1>3, <2>1
  <2> HIDE <2>1
  <2> QED BY <1>1, <1>2, <1>3, <2>2
<1> QED BY <1>2, <1>3, <1>4 DEF p, q, U

(* What write_range writes: sectors of the chain's clusters.               *)
LEMMA FfRangeIs ==
    ASSUME FfTypeOK, ffCount < FfCalls, NEW chain \in Seq(FfClusters),
           NEW off \in Nat, NEW len \in Nat, NEW zero \in BOOLEAN,
           FfSectors(off + len) <= Len(chain)
    PROVE  /\ FfRange(chain, off, len, zero) \in Seq(FfWrites)
           /\ \A i \in 1 .. Len(FfRange(chain, off, len, zero)) :
                 /\ FfRange(chain, off, len, zero)[i].k = "data"
                 /\ FfOn(FfRange(chain, off, len, zero)[i].c, chain)
<1> DEFINE first == off \div FfUnit
           last == IF len = 0 THEN first - 1 ELSE (off + len - 1) \div FfUnit
           n == last - first + 1
           at(i, u) == (first + i - 1) * FfUnit + u
           units(i) == [u \in FfUnits |->
                          IF at(i, u) \in off .. off + len - 1 THEN ffCount + 1
                          ELSE IF at(i, u) < off \/ ~zero THEN ffData[chain[first + i]][u] ELSE 0]
           r == [i \in 1 .. n |-> [k |-> "data", c |-> chain[first + i], units |-> units(i)]]
<1>1. FfRange(chain, off, len, zero) = r
  BY DEF FfRange
<1>2. /\ first \in Nat /\ last \in Int /\ n \in Nat /\ last + 1 <= Len(chain)
      /\ (len # 0 => last \in Nat)
  <2>1. FfSectors(off + len) \in Nat /\ Len(chain) \in Nat
    BY FfSectorsOf
  <2>2. first \in Nat
    BY FfDivMono
  <2>3. CASE len = 0
    <3>1. last = first - 1
      BY <2>3
    <3>2. first <= FfSectors(off + len)
      <4> HIDE DEF last, n, r, first
      <4>1. off + len + FfUnit - 1 \in Nat /\ off <= off + len + FfUnit - 1
        BY FfConstants
      <4>2. off \div FfUnit <= (off + len + FfUnit - 1) \div FfUnit
        BY <4>1, FfDivMono
      <4> QED BY <4>2 DEF first, FfSectors
    <3> HIDE DEF first, last
    <3> QED BY <2>1, <2>2, <2>3, <3>1, <3>2
  <2>4. CASE len # 0
    <3>1. off + len - 1 \in Nat /\ off <= off + len - 1 /\ off + len \in Nat
          /\ off + len - 1 < off + len
      BY <2>4
    <3>2. last = (off + len - 1) \div FfUnit
      BY <2>4
    <3>3. last \in Nat /\ first <= last
      BY <3>1, <3>2, FfDivMono
    <3>4. last + 1 <= FfSectors(off + len)
      BY <3>1, <3>2, FfSectorsOf
    <3> HIDE DEF first, last
    <3> QED BY <2>1, <2>2, <3>3, <3>4
  <2> QED BY <2>3, <2>4
<1>3. ASSUME NEW i \in 1 .. n
      PROVE  /\ r[i] = [k |-> "data", c |-> chain[first + i], units |-> units(i)]
             /\ first + i \in 1 .. Len(chain) /\ units(i) \in [FfUnits -> 0 .. FfCalls]
  <2>1. r[i] = [k |-> "data", c |-> chain[first + i], units |-> units(i)]
    OBVIOUS
  <2>2. first + i \in 1 .. Len(chain)
    <3>1. Len(chain) \in Nat
      OBVIOUS
    <3> HIDE DEF first, last
    <3> QED BY <1>2, <3>1
  <2>3. chain[first + i] \in FfClusters
    BY <2>2, ElementOfSeq
  <2>4. /\ ffCount + 1 \in 0 .. FfCalls /\ 0 \in 0 .. FfCalls
        /\ \A u \in FfUnits : ffData[chain[first + i]][u] \in 0 .. FfCalls
    BY <2>3, FfConstants DEF FfTypeOK
  <2> HIDE DEF at, first, last
  <2>5. units(i) \in [FfUnits -> 0 .. FfCalls]
    BY <2>4
  <2> QED BY <2>1, <2>2, <2>5
<1> HIDE DEF units, first, last
<1>4. Len(r) = n /\ DOMAIN r = 1 .. n
  BY <1>2
<1>5. \A i \in 1 .. n : r[i] \in FfWrites /\ r[i].k = "data" /\ FfOn(r[i].c, chain)
  <2> TAKE i \in 1 .. n
  <2> DEFINE e == r[i]
  <2>1. chain[first + i] \in FfClusters
    BY <1>3, ElementOfSeq
  <2>2. /\ e = [k |-> "data", c |-> chain[first + i], units |-> units(i)]
        /\ units(i) \in [FfUnits -> 0 .. FfCalls] /\ first + i \in 1 .. Len(chain)
    BY <1>3
  <2> HIDE DEF e, r, n
  <2>3. e \in [k : {"data"}, c : FfClusters, units : [FfUnits -> 0 .. FfCalls]]
    BY <2>1, <2>2
  <2>4. e \in FfWrites
    BY <2>3 DEF FfWrites
  <2>5. e.k = "data" /\ e.c = chain[first + i]
    BY <2>2
  <2>6. FfOn(chain[first + i], chain)
    BY <2>2 DEF FfOn
  <2>7. FfOn(e.c, chain)
    BY <2>5, <2>6
  <2> QED BY <2>4, <2>5, <2>7 DEF e
<1>6. r \in Seq(FfWrites)
  <2>1. r = [i \in 1 .. n |-> r[i]]
    OBVIOUS
  <2> HIDE DEF r, n
  <2> QED BY <1>2, <1>5, <2>1
<1> HIDE DEF r, n
<1> QED BY <1>1, <1>4, <1>5, <1>6

LEMMA FfStill ==
    ASSUME ffFat' = ffFat, ffDir' = ffDir
    PROVE  \A g \in FfFiles : /\ FfChain(g)' = FfChain(g) /\ FfClus(g)' = FfClus(g)
                              /\ FfSize(g)' = FfSize(g)
BY DEF FfChain, FfClus, FfSize

LEMMA FfCallChain ==
    ASSUME NEW f, ffCall'.f = f PROVE FfChain(ffCall.f)' = FfChain(f)'
BY DEF FfChain, FfClus

(* What the FAT and the directory give in a state of the right type.       *)
LEMMA FfTyped ==
    ASSUME FfTypeOK
    PROVE  /\ ffFat[1] \in FfFats /\ ffFat[2] \in FfFats
           /\ \A f \in FfFiles : FfClus(f) \in FfClusters \cup {0} /\ FfSize(f) \in Nat
<1>1. \A f \in FfFiles : FfClus(f) \in FfClusters \cup {0} /\ FfSize(f) \in Nat
  <2> TAKE f \in FfFiles
  <2>1. ffDir[f] \in FfEntries \/ ffDir[f] = FfNone
    BY DEF FfTypeOK
  <2> QED BY <2>1 DEF FfEntries, FfClus, FfSize
<1> QED BY <1>1 DEF FfTypeOK, FfFats

(* A free cluster is on no chain.                                          *)
LEMMA FfFreeApart ==
    ASSUME FfInv, NEW c \in FfClusters, ffFat[1][c] = FfFree
    PROVE  /\ \A g \in FfFiles : ~FfOn(c, FfChain(g))
           /\ FfLive => ~FfOn(c, FfBase)
<1>1. \A g \in FfFiles : ~FfOn(c, FfChain(g))
  <2> TAKE g \in FfFiles
  <2>1. FfChainOk(FfChain(g), ffFat[1], FfClus(g))
    BY DEF FfInv, FfFilesOk
  <2> QED BY <2>1, FfOnUsed
<1>2. ASSUME FfLive PROVE ~FfOn(c, FfBase)
  <2>1. FfChainOk(FfBase, ffFat[1], FfFirst(FfBase))
    BY <1>2 DEF FfInv, FfHeld
  <2> QED BY <2>1, FfOnUsed
<1> QED BY <1>1, <1>2

(* The writes go to sectors of a file with these clusters, and the last    *)
(* one to its entry.                                                       *)
FfWithin(writes, f, chain, size) ==
    \A i \in 1 .. Len(writes) :
        \/ writes[i].k = "hint"
        \/ writes[i].k = "data" /\ FfOn(writes[i].c, chain)
        \/ /\ i = Len(writes) /\ writes[i] = FfEntry(f, FfFirst(chain), size)
           /\ FfSectors(size) <= Len(chain)

(* What a call begins with: the file's chain, and writes of its sectors    *)
(* and of its entry.                                                       *)
LEMMA FfBeginsStep ==
    ASSUME FfInv, NEW kind \in {"append", "create", "rewrite", "patch"}, NEW f \in FfFiles,
           NEW off \in Nat, NEW len \in Nat, NEW at \in {"grow", "write"},
           NEW writes \in Seq(FfWrites), FfBegins(kind, f, off, len, FfChain(f), at, writes),
           at = "grow" => Len(writes) = 0 /\ kind \in {"append", "create"},
           FfWithin(writes, f, FfChain(f), off + len)
    PROVE  FfInv'
<1> DEFINE s == FfChain(f)
           call == [kind |-> kind, f |-> f, off |-> off, len |-> len, chain |-> s,
                    had |-> Len(s), at |-> at]
<1>1. /\ ffCall = FfNone /\ ffCount < FfCalls /\ ffCall' = call /\ ffTodo' = writes
      /\ ffFat' = ffFat /\ ffData' = ffData /\ ffDir' = ffDir /\ ffHint' = ffHint
      /\ ffCount' = ffCount /\ ffHurt' = ffHurt
  BY DEF FfBegins
<1>2. /\ \A g \in FfFiles : FfChainOk(FfChain(g), ffFat[1], FfClus(g))
      /\ s \in Seq(FfClusters) /\ Len(s) \in Nat
  BY DEF FfInv, FfFilesOk, FfChainOk
<1>3. \A g \in FfFiles : /\ FfChain(g)' = FfChain(g) /\ FfClus(g)' = FfClus(g)
                         /\ FfSize(g)' = FfSize(g)
  BY <1>1, FfStill
<1>4. ffTodo = << >>
  BY <1>1 DEF FfInv, FfShape
<1>5. call \in FfCallKinds /\ call # FfNone
  BY <1>2, FfConstants DEF FfCallKinds
<1>6. FfTypeOK'
  BY <1>1, <1>5 DEF FfInv, FfTypeOK
<1>7. FfFilesOk'
  BY <1>1, <1>3 DEF FfInv, FfFilesOk
<1> HIDE DEF s
<1>8. /\ call.kind = kind /\ call.f = f /\ call.off = off /\ call.len = len /\ call.chain = s
      /\ call.had = Len(s) /\ call.at = at
  OBVIOUS
<1> HIDE DEF call
<1>9. at = "grow" => Len(writes) = 0 /\ writes = << >>
  BY EmptySeq
<1>10. FfBase' = s
  BY <1>1, <1>8, <1>9 DEF FfBase
<1>11. FfHeld'
  <2>1. FfChainOk(s, ffFat[1], FfFirst(s))
    <3>1. FfChainOk(s, ffFat[1], FfClus(f)) /\ FfClus(f) \in FfClusters \cup {0}
      BY <1>2, FfTyped DEF FfInv, s
    <3> QED BY <3>1, FfFromFirst
  <2>2. FfChain(f)' = s
    BY <1>3 DEF s
  <2>3. \A g \in FfFiles : g # f => FfApart(s, FfChain(g))
    BY DEF FfInv, FfFilesOk, s
  <2>4. FfChainOk(FfBase', ffFat'[1], FfFirst(FfBase'))
    BY <1>1, <1>10, <2>1
  <2>5. FfChain(ffCall.f)' = FfBase'
    BY <1>1, <1>8, <1>10, <2>2, FfCallChain
  <2>6. \A g \in FfFiles : g # ffCall'.f => FfApart(FfBase', FfChain(g)')
    BY <1>1, <1>3, <1>8, <1>10, <2>3
  <2> QED BY <2>4, <2>5, <2>6 DEF FfHeld
<1>12. FfLoose'
  BY <1>1, <1>8, <1>9 DEF FfLoose
<1>13. FfShape'
  <2>1. ffCall' # FfNone
    BY <1>1, <1>5
  <2>2. ffCount' < FfCalls /\ ffCall'.had <= Len(ffCall'.chain)
    BY <1>1, <1>2, <1>8
  <2>3. CASE at = "grow"
    BY <1>1, <1>8, <1>9, <2>1, <2>2, <2>3 DEF FfShape, FfRound
  <2>4. CASE at = "write"
    <3>1. ASSUME NEW i \in 1 .. Len(ffTodo') PROVE FfMayWrite(ffTodo[i], i = Len(ffTodo))'
      <4>1. i \in 1 .. Len(writes) /\ ffTodo' = writes
        BY <1>1
      <4>2. \/ writes[i].k = "hint"
            \/ writes[i].k = "data" /\ FfOn(writes[i].c, s)
            \/ /\ i = Len(writes)
               /\ writes[i] = FfEntry(f, FfFirst(s), off + len)
               /\ FfSectors(off + len) <= Len(s)
        BY <4>1 DEF s, FfWithin
      <4> QED BY <1>1, <1>8, <4>1, <4>2 DEF FfMayWrite, FfGrownTo
    <3> QED BY <1>1, <1>8, <2>1, <2>2, <2>4, <3>1 DEF FfShape
  <2> QED BY <2>3, <2>4
<1>14. FfAllKept'
  <2> SUFFICES ASSUME ~ffHurt PROVE FfAllKept'
    BY <1>1 DEF FfAllKept
  <2>1. /\ ffFat[1] = ffFat[2]
        /\ \A c \in FfClusters : ffFat[1][c] # FfFree => \E g \in FfFiles : FfOn(c, FfChain(g))
    BY <1>1, <1>4 DEF FfInv, FfAllKept
  <2>2. writes # << >> => Head(writes).k # "fat"
    <3> SUFFICES ASSUME writes # << >> PROVE Head(writes).k # "fat"
      OBVIOUS
    <3>1. 1 \in 1 .. Len(writes) /\ Head(writes) = writes[1]
      BY EmptySeq
    <3> QED BY <3>1 DEF FfEntry, FfWithin
  <2>3. ffFat'[1] = ffFat'[2] /\ ffTodo' = writes
    BY <1>1, <2>1
  <2>4. \A c \in FfClusters : ffFat'[1][c] # FfFree => \E g \in FfFiles : FfOn(c, FfChain(g)')
    BY <1>1, <1>3, <2>1
  <2>5. FfChain(ffCall.f)' = ffCall'.chain
    BY <1>1, <1>3, <1>8, FfCallChain DEF s
  <2> QED BY <2>2, <2>3, <2>4, <2>5 DEF FfAllKept
<1> QED BY <1>6, <1>7, <1>11, <1>12, <1>13, <1>14 DEF FfInv

(* An append and a create begin with nothing to write.                     *)
LEMMA FfGrowBegins ==
    ASSUME FfInv, NEW kind \in {"append", "create"}, NEW f \in FfFiles, NEW off \in Nat,
           NEW len \in Nat, FfBegins(kind, f, off, len, FfChain(f), "grow", << >>)
    PROVE  FfInv'
<1>1. PICK w : w = << >>
  OBVIOUS
<1>2. /\ w \in Seq(FfWrites) /\ Len(w) = 0
      /\ FfBegins(kind, f, off, len, FfChain(f), "grow", w)
  BY <1>1
<1>3. FfWithin(w, f, FfChain(f), off + len)
  BY <1>2 DEF FfWithin
<1>4. kind \in {"append", "create", "rewrite", "patch"}
  OBVIOUS
<1>5. PICK at \in {"grow", "write"} : at = "grow"
  OBVIOUS
<1>6. /\ FfBegins(kind, f, off, len, FfChain(f), at, w)
      /\ (at = "grow" => Len(w) = 0 /\ kind \in {"append", "create"})
  BY <1>1, <1>2, <1>5
<1> HIDE <1>1, <1>5
<1>7. ASSUME FfBegins(kind, f, off, len, FfChain(f), at, w) PROVE FfInv'
  <2>1. w \in Seq(FfWrites)
    BY <1>2
  <2>2. at = "grow" => Len(w) = 0 /\ kind \in {"append", "create"}
    BY <1>6
  <2> QED BY ONLY <1>3, <1>4, <1>7, <2>1, <2>2, FfInv, f \in FfFiles, off \in Nat, len \in Nat, at \in {"grow", "write"}, FfBeginsStep
<1> QED BY <1>6, <1>7

LEMMA FfAppendBegins ==
    ASSUME FfInv, "walk" \notin FfFaults, NEW f \in FfFiles, NEW len \in FfLens, FfAppend(f, len)
    PROVE  FfInv'
<1>1. FfBegins("append", f, FfSize(f), len, FfChain(f), "grow", << >>)
  BY DEF FfAppend, FfSeen
<1>2. len \in Nat /\ FfSize(f) \in Nat
  BY FfConstants, FfTyped DEF FfInv
<1> QED BY <1>1, <1>2, FfGrowBegins

LEMMA FfCreateBegins ==
    ASSUME FfInv, NEW f \in FfFiles, NEW len \in FfLens, FfCreate(f, len)
    PROVE  FfInv'
<1>1. FfChain(f) = << >>
  <2>1. FfClus(f) = 0 /\ 0 \notin FfClusters
    BY FfConstants DEF FfCreate, FfClus
  <2> QED BY <2>1 DEF FfInv, FfFilesOk, FfChainOk
<1>2. FfBegins("create", f, 0, len, FfChain(f), "grow", << >>)
  BY <1>1 DEF FfCreate
<1>3. len \in Nat
  BY FfConstants
<1> QED BY <1>2, <1>3, FfGrowBegins

(* The entry of the file, after the sectors written to.                    *)
LEMMA FfThenEntry ==
    ASSUME NEW r \in Seq(FfWrites), NEW e \in FfWrites
    PROVE  /\ r \o <<e>> \in Seq(FfWrites) /\ Len(r \o <<e>>) = Len(r) + 1 /\ r \o <<e>> # << >>
           /\ \A i \in 1 .. Len(r \o <<e>>) :
                 \/ i \in 1 .. Len(r) /\ (r \o <<e>>)[i] = r[i]
                 \/ i = Len(r \o <<e>>) /\ (r \o <<e>>)[i] = e
           /\ (r \o <<e>>)[Len(r \o <<e>>)] = e
<1> DEFINE w == r \o <<e>>
<1>1. <<e>> \in Seq(FfWrites) /\ Len(<<e>>) = 1 /\ <<e>>[1] = e /\ Len(r) \in Nat
  OBVIOUS
<1>2. /\ w \in Seq(FfWrites) /\ Len(w) = Len(r) + Len(<<e>>)
      /\ \A i \in 1 .. Len(r) + Len(<<e>>) :
            w[i] = IF i <= Len(r) THEN r[i] ELSE <<e>>[i - Len(r)]
  BY <1>1, ConcatProperties
<1> HIDE DEF w
<1>3. \A i \in 1 .. Len(w) : \/ i \in 1 .. Len(r) /\ w[i] = r[i]
                             \/ i = Len(w) /\ w[i] = e
  BY <1>1, <1>2
<1>4. w[Len(w)] = e
  <2>1. Len(w) = Len(r) + 1 /\ Len(r) + 1 - Len(r) = 1 /\ ~(Len(r) + 1 <= Len(r))
        /\ Len(r) + 1 \in 1 .. Len(r) + Len(<<e>>)
    BY <1>1, <1>2
  <2> QED BY <1>1, <1>2, <2>1
<1>5. w # << >>
  BY <1>1, <1>2
<1> QED BY <1>1, <1>2, <1>3, <1>4, <1>5 DEF w

LEMMA FfEntryWrite ==
    ASSUME NEW f \in FfFiles, NEW clus \in FfClusters \cup {0}, NEW size \in Nat
    PROVE  FfEntry(f, clus, size) \in FfWrites /\ FfEntry(f, clus, size).k = "dir"
BY DEF FfEntry, FfWrites, FfEntries

LEMMA FfRewriteBegins ==
    ASSUME FfInv, NEW f \in FfFiles, NEW len \in FfLens, FfRewrite(f, len)
    PROVE  FfInv'
<1> DEFINE s == FfChain(f)
           r == FfRange(s, 0, len, TRUE)
           e == FfEntry(f, ffDir[f].clus, len)
<1>1. /\ ffDir[f] # FfNone /\ FfSectors(len) <= Len(s) /\ ffCount < FfCalls
      /\ FfBegins("rewrite", f, 0, len, s, "write", r \o <<e>>)
  BY DEF FfRewrite, FfBegins
<1>2. s \in Seq(FfClusters) /\ FfChainOk(s, ffFat[1], FfClus(f)) /\ FfTypeOK
  BY DEF FfInv, FfFilesOk, FfChainOk
<1>3. /\ len \in Nat /\ 0 + len = len /\ FfClus(f) = ffDir[f].clus
      /\ FfClus(f) \in FfClusters \cup {0}
  BY <1>1, <1>2, FfConstants, FfTyped DEF FfClus
<1>4. FfFirst(s) = ffDir[f].clus
  BY <1>2, <1>3, FfFromFirst
<1>5. e \in FfWrites /\ e = FfEntry(f, FfFirst(s), 0 + len) /\ FfSectors(0 + len) <= Len(s)
  BY <1>1, <1>3, <1>4, FfEntryWrite
<1> HIDE DEF s, e
<1>6. /\ r \in Seq(FfWrites)
      /\ \A i \in 1 .. Len(r) : r[i].k = "data" /\ FfOn(r[i].c, s)
  <2>1. TRUE \in BOOLEAN /\ 0 \in Nat
    OBVIOUS
  <2> QED BY <1>1, <1>2, <1>3, <1>5, <2>1, FfRangeIs
<1> HIDE DEF r
<1> DEFINE w == r \o <<e>>
<1>7. /\ w \in Seq(FfWrites)
      /\ \A i \in 1 .. Len(w) : \/ i \in 1 .. Len(r) /\ w[i] = r[i]
                                \/ i = Len(w) /\ w[i] = e
  BY <1>5, <1>6, FfThenEntry
<1>8. FfBegins("rewrite", f, 0, len, s, "write", w)
  BY <1>1
<1> HIDE DEF w
<1>9. FfWithin(w, f, s, 0 + len)
  BY <1>5, <1>6, <1>7 DEF FfWithin
<1>10. "write" # "grow" /\ "rewrite" \in {"append", "create", "rewrite", "patch"} /\ 0 \in Nat
  OBVIOUS
<1> USE DEF s
<1> QED BY <1>3, <1>7, <1>8, <1>9, <1>10, FfBeginsStep

LEMMA FfPatchBegins ==
    ASSUME FfInv, NEW f \in FfFiles, NEW off \in 0 .. FfSize(f), FfPatch(f, off, 1)
    PROVE  FfInv'
<1> DEFINE s == FfChain(f)
           r == FfRange(s, off, 1, FALSE)
<1>1. /\ off + 1 <= FfSize(f) /\ ffCount < FfCalls
      /\ FfBegins("patch", f, off, 1, s, "write", r)
  BY DEF FfPatch, FfBegins
<1>2. /\ s \in Seq(FfClusters) /\ FfTypeOK /\ FfSectors(FfSize(f)) <= Len(s)
      /\ FfSize(f) \in Nat /\ off \in Nat /\ 1 \in Nat /\ FALSE \in BOOLEAN /\ Len(s) \in Nat
  BY FfTyped DEF FfInv, FfFilesOk, FfChainOk
<1> HIDE DEF s
<1>3. FfSectors(off + 1) <= Len(s)
  <2>1. /\ off + 1 + FfUnit - 1 \in Nat /\ FfSize(f) + FfUnit - 1 \in Nat
        /\ off + 1 + FfUnit - 1 <= FfSize(f) + FfUnit - 1 /\ off + 1 \in Nat
    BY <1>1, <1>2, FfConstants
  <2>2. FfSectors(off + 1) <= FfSectors(FfSize(f))
    BY <2>1, FfDivMono DEF FfSectors
  <2>3. FfSectors(off + 1) \in Nat /\ FfSectors(FfSize(f)) \in Nat
    BY <1>2, <2>1, FfSectorsOf
  <2> QED BY <1>2, <2>2, <2>3
<1>4. /\ r \in Seq(FfWrites)
      /\ \A i \in 1 .. Len(r) : r[i].k = "data" /\ FfOn(r[i].c, s)
  BY <1>1, <1>2, <1>3, FfRangeIs
<1> HIDE DEF r
<1>5. "write" # "grow" /\ "patch" \in {"append", "create", "rewrite", "patch"}
  OBVIOUS
<1>6. FfWithin(r, f, s, off + 1)
  BY <1>4 DEF FfWithin
<1> USE DEF s
<1> QED BY <1>1, <1>2, <1>4, <1>5, <1>6, FfBeginsStep

LEMMA FfCalledStep ==
    ASSUME FfInv, "walk" \notin FfFaults, NEW f \in FfFiles, FfCalled(f)
    PROVE  FfInv'
BY FfAppendBegins, FfCreateBegins, FfRewriteBegins, FfPatchBegins DEF FfCalled

(* Lists of writes put together.                                           *)
LEMMA FfSnoc ==
    ASSUME NEW t \in Seq(FfWrites), NEW w \in FfWrites, NEW x \in Seq(FfWrites),
           Len(x) = Len(t) + 1, \A i \in 1 .. Len(t) : x[i] = t[i], x[Len(t) + 1] = w
    PROVE  t \o <<w>> = x
<1>1. t \o <<w>> = Append(t, w)
  BY AppendIsConcat
<1>2. /\ Append(t, w) \in Seq(FfWrites) /\ Len(Append(t, w)) = Len(t) + 1
      /\ \A i \in 1 .. Len(t) : Append(t, w)[i] = t[i]
      /\ Append(t, w)[Len(t) + 1] = w
  BY AppendProperties
<1>3. Len(t) \in Nat /\ \A i \in 1 .. Len(t) + 1 : i \in 1 .. Len(t) \/ i = Len(t) + 1
  OBVIOUS
<1> QED BY <1>1, <1>2, <1>3, SeqEqual

(* The writes of a round of the growth loop.                               *)
LEMMA FfGrowthIs ==
    ASSUME NEW s \in Seq(FfClusters), NEW c \in FfClusters
    PROVE  /\ FfGrowth(s, c) \in Seq(FfWrites)
           /\ s = << >> => FfGrowth(s, c) = <<FfMark(1, c), FfMark(2, c), FfClean(c)>>
           /\ s # << >> =>
                 FfGrowth(s, c) = <<FfMark(1, c), FfMark(2, c), FfLink(1, s[Len(s)], c),
                                    FfLink(2, s[Len(s)], c), FfClean(c)>>
<1>1. FfMark(1, c) \in FfWrites /\ FfMark(2, c) \in FfWrites
  BY DEF FfMark, FfWrites
<1>2. FfClean(c) \in FfWrites
  <2>1. FfBlank \in [FfUnits -> 0 .. FfCalls]
    BY FfConstants DEF FfBlank
  <2> QED BY <2>1 DEF FfClean, FfWrites
<1>3. ASSUME s # << >>
      PROVE  FfLink(1, s[Len(s)], c) \in FfWrites /\ FfLink(2, s[Len(s)], c) \in FfWrites
  <2>1. s[Len(s)] \in FfClusters
    BY <1>3, EmptySeq, ElementOfSeq
  <2> QED BY <2>1 DEF FfLink, FfWrites
<1> DEFINE m1 == FfMark(1, c)
           m2 == FfMark(2, c)
           z == FfClean(c)
           l1 == FfLink(1, s[Len(s)], c)
           l2 == FfLink(2, s[Len(s)], c)
<1>4. FfGrowth(s, c) = <<m1, m2>> \o (IF s = << >> THEN << >> ELSE <<l1, l2>>) \o <<z>>
  BY DEF FfGrowth, FfFatSet, FfZero, FfMark, FfLink, FfClean, Last
<1> HIDE DEF m1, m2, z, l1, l2
<1>5. m1 \in FfWrites /\ m2 \in FfWrites /\ z \in FfWrites
  BY <1>1, <1>2 DEF m1, m2, z
<1> DEFINE s2 == <<m1, m2>>
<1>6. s2 \in Seq(FfWrites) /\ Len(s2) = 2 /\ s2[1] = m1 /\ s2[2] = m2
  BY <1>5
<1> HIDE DEF s2
<1>7. CASE s = << >>
  <2> DEFINE s3 == <<m1, m2, z>>
  <2>1. s3 \in Seq(FfWrites) /\ Len(s3) = 3 /\ s3[1] = m1 /\ s3[2] = m2 /\ s3[3] = z
    BY <1>5
  <2> HIDE DEF s3
  <2>2. Len(s3) = Len(s2) + 1 /\ (\A i \in 1 .. Len(s2) : s3[i] = s2[i]) /\ s3[Len(s2) + 1] = z
    BY <1>6, <2>1
  <2>3. s2 \o <<z>> = s3
    BY <1>5, <1>6, <2>1, <2>2, FfSnoc
  <2>4. FfGrowth(s, c) = s2 \o << >> \o <<z>>
    BY <1>4, <1>7 DEF s2
  <2>5. s2 \o << >> = s2
    BY <1>6, ConcatEmptySeq
  <2>6. FfGrowth(s, c) = s3
    BY <2>3, <2>4, <2>5
  <2> QED BY <1>7, <2>1, <2>6 DEF s3, m1, m2, z
<1>8. CASE s # << >>
  <2>1. l1 \in FfWrites /\ l2 \in FfWrites
    BY <1>3, <1>8 DEF l1, l2
  <2> DEFINE s3 == <<m1, m2, l1>>
             s4 == <<m1, m2, l1, l2>>
             s5 == <<m1, m2, l1, l2, z>>
             r1 == <<l1>>
             r2 == <<l1, l2>>
  <2>2. s3 \in Seq(FfWrites) /\ Len(s3) = 3 /\ s3[1] = m1 /\ s3[2] = m2 /\ s3[3] = l1
    BY <1>5, <2>1
  <2>3. /\ s4 \in Seq(FfWrites) /\ Len(s4) = 4
        /\ s4[1] = m1 /\ s4[2] = m2 /\ s4[3] = l1 /\ s4[4] = l2
    BY <1>5, <2>1
  <2>4. /\ s5 \in Seq(FfWrites) /\ Len(s5) = 5
        /\ s5[1] = m1 /\ s5[2] = m2 /\ s5[3] = l1 /\ s5[4] = l2 /\ s5[5] = z
    BY <1>5, <2>1
  <2>5. r1 \in Seq(FfWrites) /\ Len(r1) = 1 /\ r1[1] = l1
    BY <2>1
  <2>6. r2 \in Seq(FfWrites) /\ Len(r2) = 2 /\ r2[1] = l1 /\ r2[2] = l2
    BY <2>1
  <2> HIDE DEF s3, s4, s5, r1, r2
  <2>7. s2 \o <<l1>> = s3
    <3>1. Len(s3) = Len(s2) + 1 /\ (\A i \in 1 .. Len(s2) : s3[i] = s2[i]) /\ s3[Len(s2) + 1] = l1
      BY <1>6, <2>2
    <3> QED BY <1>6, <2>1, <2>2, <3>1, FfSnoc
  <2>8. s3 \o <<l2>> = s4
    <3>1. Len(s4) = Len(s3) + 1 /\ (\A i \in 1 .. Len(s3) : s4[i] = s3[i]) /\ s4[Len(s3) + 1] = l2
      BY <2>2, <2>3
    <3> QED BY <2>1, <2>2, <2>3, <3>1, FfSnoc
  <2>9. s4 \o <<z>> = s5
    <3>1. Len(s5) = Len(s4) + 1 /\ (\A i \in 1 .. Len(s4) : s5[i] = s4[i]) /\ s5[Len(s4) + 1] = z
      BY <2>3, <2>4
    <3> QED BY <1>5, <2>3, <2>4, <3>1, FfSnoc
  <2>10. r1 \o <<l2>> = r2
    <3>1. Len(r2) = Len(r1) + 1 /\ (\A i \in 1 .. Len(r1) : r2[i] = r1[i]) /\ r2[Len(r1) + 1] = l2
      BY <2>5, <2>6
    <3> QED BY <2>1, <2>5, <2>6, <3>1, FfSnoc
  <2>11. s2 \o r2 = s4
    <3>1. <<l2>> \in Seq(FfWrites)
      BY <2>1
    <3>2. s2 \o (r1 \o <<l2>>) = (s2 \o r1) \o <<l2>>
      BY <1>6, <2>5, <3>1, ConcatAssociative
    <3>3. s2 \o r1 = s3
      BY <2>7 DEF r1
    <3> QED BY <2>8, <2>10, <3>2, <3>3
  <2>12. FfGrowth(s, c) = s2 \o r2 \o <<z>>
    BY <1>4, <1>8 DEF s2, r2
  <2>13. FfGrowth(s, c) = s5
    BY <2>9, <2>11, <2>12
  <2> QED BY <1>8, <2>4, <2>13 DEF s5, m1, m2, l1, l2, z
<1> QED BY <1>7, <1>8

(* The last cluster of the chain and the ones before it.                   *)
LEMMA FfFrontOf ==
    ASSUME NEW s \in Seq(FfClusters), s # << >>
    PROVE  /\ FfFront(s) \in Seq(FfClusters) /\ Len(FfFront(s)) = Len(s) - 1
           /\ \A i \in 1 .. Len(s) - 1 : FfFront(s)[i] = s[i]
           /\ Last(s) = s[Len(s)] /\ Last(s) \in FfClusters /\ Len(s) \in Nat \ {0}
           /\ s = Append(FfFront(s), Last(s))
<1> DEFINE N == Len(s)
           t == FfFront(s)
<1>1. N \in Nat /\ N >= 1 /\ N \in 1 .. N /\ \A i \in 1 .. N : s[i] \in FfClusters
  BY EmptySeq, ElementOfSeq
<1>2. s[N] \in FfClusters /\ Last(s) = s[N]
  BY <1>1 DEF Last
<1>3. t \in Seq(FfClusters) /\ Len(t) = N - 1 /\ \A i \in 1 .. N - 1 : t[i] = s[i]
  <2> HIDE DEF N
  <2>1. N - 1 \in Int /\ 1 \in Int /\ \A i \in 1 .. N - 1 : s[i] \in FfClusters
    BY <1>1
  <2>2. /\ SubSeq(s, 1, N - 1) \in Seq(FfClusters)
        /\ Len(SubSeq(s, 1, N - 1)) = IF 1 <= N - 1 THEN N - 1 - 1 + 1 ELSE 0
        /\ \A i \in 1 .. N - 1 - 1 + 1 : SubSeq(s, 1, N - 1)[i] = s[1 + i - 1]
    BY <2>1, SubSeqProperties
  <2>3. /\ (IF 1 <= N - 1 THEN N - 1 - 1 + 1 ELSE 0) = N - 1 /\ N - 1 - 1 + 1 = N - 1
        /\ \A i \in 1 .. N - 1 : 1 + i - 1 = i
    BY <1>1
  <2>4. t = SubSeq(s, 1, N - 1)
    BY DEF FfFront, N
  <2> HIDE DEF t
  <2> QED BY <2>2, <2>3, <2>4
<1> HIDE DEF t, N
<1>4. /\ Append(t, s[N]) \in Seq(FfClusters) /\ Len(Append(t, s[N])) = N - 1 + 1
      /\ \A i \in 1 .. N - 1 : Append(t, s[N])[i] = t[i]
      /\ Append(t, s[N])[N - 1 + 1] = s[N]
  BY <1>2, <1>3, AppendProperties
<1>5. Append(t, s[N]) = s
  <2>1. N - 1 + 1 = N /\ \A i \in 1 .. N : i \in 1 .. N - 1 \/ i = N
    BY <1>1
  <2>2. Len(s) = N
    BY DEF N
  <2> QED BY <1>3, <1>4, <2>1, <2>2, SeqEqual
<1> QED BY <1>1, <1>2, <1>3, <1>5 DEF t, N

LEMMA FfFrontAppend ==
    ASSUME NEW s \in Seq(FfClusters), NEW c \in FfClusters
    PROVE  /\ FfFront(Append(s, c)) = s /\ Last(Append(s, c)) = c
           /\ Append(s, c) \in Seq(FfClusters) /\ Append(s, c) # << >>
           /\ Len(Append(s, c)) = Len(s) + 1 /\ Len(s) \in Nat
           /\ \A i \in 1 .. Len(s) : Append(s, c)[i] = s[i]
           /\ Append(s, c)[Len(s) + 1] = c
<1> DEFINE t == Append(s, c)
<1>1. /\ t \in Seq(FfClusters) /\ t # << >> /\ Len(t) = Len(s) + 1 /\ Len(s) \in Nat
      /\ (\A i \in 1 .. Len(s) : t[i] = s[i]) /\ t[Len(s) + 1] = c
  BY AppendProperties
<1> HIDE DEF t
<1>2. /\ FfFront(t) \in Seq(FfClusters) /\ Len(FfFront(t)) = Len(t) - 1
      /\ (\A i \in 1 .. Len(t) - 1 : FfFront(t)[i] = t[i]) /\ Last(t) = t[Len(t)]
  BY <1>1, FfFrontOf
<1>3. Len(t) - 1 = Len(s)
  BY <1>1
<1>4. FfFront(t) = s
  BY <1>1, <1>2, <1>3, SeqEqual
<1> QED BY <1>1, <1>2, <1>4 DEF t

(* The call in hand.                                                       *)
LEMMA FfCallIs ==
    ASSUME FfInv, ffCall # FfNone
    PROVE  /\ ffCall \in FfCallKinds /\ ffCall.f \in FfFiles /\ ffCall.chain \in Seq(FfClusters)
           /\ ffCall.off \in Nat /\ ffCall.len \in Nat /\ ffCall.had \in Nat
           /\ ffCall.at \in {"grow", "write"} /\ ffCall.off + ffCall.len \in Nat
           /\ ffCount < FfCalls /\ ffCall.had <= Len(ffCall.chain) /\ Len(ffCall.chain) \in Nat
<1>1. ffCall \in FfCallKinds
  BY DEF FfInv, FfTypeOK
<1>2. /\ ffCall.f \in FfFiles /\ ffCall.chain \in Seq(FfClusters) /\ ffCall.off \in Nat
      /\ ffCall.len \in Nat /\ ffCall.had \in Nat /\ ffCall.at \in {"grow", "write"}
  BY <1>1 DEF FfCallKinds
<1>3. ffCount < FfCalls /\ ffCall.had <= Len(ffCall.chain)
  BY DEF FfInv, FfShape
<1> QED BY <1>1, <1>2, <1>3

(* The growth loop finds the volume full.                                  *)
LEMMA FfGrowFull ==
    ASSUME FfInv, FfGrow, FfFreeOnes = {}
    PROVE  FfInv'
<1>1. /\ ffCall # FfNone /\ ffCall.at = "grow" /\ ffTodo = << >> /\ ffHurt' = TRUE
      /\ ffCall' = [ffCall EXCEPT !.at = "write"] /\ ffTodo' = ffTodo
      /\ ffFat' = ffFat /\ ffData' = ffData /\ ffDir' = ffDir /\ ffHint' = ffHint
      /\ ffCount' = ffCount
  BY DEF FfGrow, FfGrowing
<1>2. /\ ffCall \in FfCallKinds /\ ffCount < FfCalls /\ ffCall.had <= Len(ffCall.chain)
  BY <1>1, FfCallIs
<1>3. /\ ffCall' \in FfCallKinds /\ ffCall'.at = "write" /\ ffCall'.had = ffCall.had
      /\ ffCall'.chain = ffCall.chain
  BY <1>1, <1>2 DEF FfCallKinds
<1>4. FfTypeOK'
  BY <1>1, <1>3 DEF FfInv, FfTypeOK
<1>5. FfFilesOk'
  <2>1. \A g \in FfFiles : /\ FfChain(g)' = FfChain(g) /\ FfClus(g)' = FfClus(g)
                           /\ FfSize(g)' = FfSize(g)
    BY <1>1, FfStill
  <2> QED BY <1>1, <2>1 DEF FfInv, FfFilesOk
<1>6. ~FfLive'
  BY <1>1, <1>3 DEF FfLive
<1>7. FfHeld' /\ FfLoose'
  BY <1>1, <1>3, <1>6 DEF FfHeld, FfLoose
<1>8. FfShape'
  <2>1. ffTodo' = << >> /\ Len(ffTodo') = 0
    BY <1>1
  <2> QED BY <1>1, <1>2, <1>3, <2>1 DEF FfShape
<1>9. FfAllKept'
  BY <1>1 DEF FfAllKept
<1> QED BY <1>4, <1>5, <1>7, <1>8, <1>9 DEF FfInv

(* The growth loop takes a cluster.                                        *)
LEMMA FfGrowTakes ==
    ASSUME FfInv, FfGrow, FfFreeOnes # {}
    PROVE  FfInv'
<1> DEFINE s == ffCall.chain
           c == FfAlloc
           t == Append(s, c)
           f == ffCall.f
<1>1. /\ ffCall # FfNone /\ ffCall.at = "grow" /\ ffTodo = << >> /\ ffHurt' = ffHurt
      /\ ffCall' = [ffCall EXCEPT !.chain = t] /\ ffTodo' = FfGrowth(s, c)
      /\ ffFat' = ffFat /\ ffData' = ffData /\ ffDir' = ffDir /\ ffHint' = ffHint
      /\ ffCount' = ffCount
  BY DEF FfGrow, FfGrowing
<1>2. c \in FfClusters /\ ffFat[1][c] = FfFree
  BY FfAllocFree DEF FfGrow
<1>3. /\ ffCall \in FfCallKinds /\ s \in Seq(FfClusters) /\ ffCount < FfCalls
      /\ ffCall.had <= Len(s) /\ ffCall.had \in Nat /\ f \in FfFiles /\ Len(s) \in Nat
  BY <1>1, FfCallIs
<1> HIDE DEF c
<1>4. /\ FfFront(t) = s /\ Last(t) = c /\ t \in Seq(FfClusters) /\ t # << >>
      /\ Len(t) = Len(s) + 1
      /\ (\A i \in 1 .. Len(s) : t[i] = s[i]) /\ t[Len(s) + 1] = c
  BY <1>2, <1>3, FfFrontAppend
<1> HIDE DEF s, t
<1>5. /\ ffCall' \in FfCallKinds /\ ffCall'.at = "grow" /\ ffCall'.had = ffCall.had
      /\ ffCall'.chain = t /\ ffCall'.f = f /\ ffCall'.kind = ffCall.kind
      /\ ffCall' # FfNone
  BY <1>1, <1>3, <1>4, FfConstants DEF FfCallKinds
<1>6. \A g \in FfFiles : /\ FfChain(g)' = FfChain(g) /\ FfClus(g)' = FfClus(g)
                         /\ FfSize(g)' = FfSize(g)
  BY <1>1, FfStill
<1>7. /\ ffTodo' \in Seq(FfWrites)
      /\ (s = << >> => ffTodo' = <<FfMark(1, c), FfMark(2, c), FfClean(c)>>)
      /\ (s # << >> => ffTodo' = <<FfMark(1, c), FfMark(2, c), FfLink(1, s[Len(s)], c),
                                   FfLink(2, s[Len(s)], c), FfClean(c)>>)
  BY <1>1, <1>2, <1>3, FfGrowthIs
<1>8. ffTodo' # << >> /\ Len(ffTodo') >= 3 /\ Head(ffTodo') = FfMark(1, c)
  <2>1. CASE s = << >>
    <3>1. ffTodo' = <<FfMark(1, c), FfMark(2, c), FfClean(c)>>
      BY <1>7, <2>1
    <3> QED BY <3>1
  <2>2. CASE s # << >>
    <3>1. ffTodo' = <<FfMark(1, c), FfMark(2, c), FfLink(1, s[Len(s)], c),
                      FfLink(2, s[Len(s)], c), FfClean(c)>>
      BY <1>7, <2>2
    <3> HIDE <1>7
    <3> QED BY <3>1
  <2> QED BY <2>1, <2>2
<1>9. FfTypeOK'
  BY <1>1, <1>5, <1>7 DEF FfInv, FfTypeOK
<1>10. FfFilesOk'
  BY <1>1, <1>6 DEF FfInv, FfFilesOk
<1>11. FfLive /\ FfBase = s
  BY <1>1 DEF FfLive, FfBase, s
<1>12. FfBase' = s
  BY <1>4, <1>5, <1>8 DEF FfBase
<1>13. /\ FfChainOk(s, ffFat[1], FfFirst(s)) /\ FfChain(f) \in {s, << >>}
       /\ \A g \in FfFiles : g # f => FfApart(s, FfChain(g))
  BY <1>11 DEF FfInv, FfHeld, f
<1>14. FfHeld'
  <2>1. FfChain(ffCall.f)' \in {FfBase', << >>}
    BY <1>3, <1>5, <1>6, <1>12, <1>13, FfCallChain
  <2>2. \A g \in FfFiles : g # ffCall'.f => FfApart(FfBase', FfChain(g)')
    BY <1>5, <1>6, <1>12, <1>13
  <2>3. FfChainOk(FfBase', ffFat'[1], FfFirst(FfBase'))
    BY <1>1, <1>12, <1>13
  <2> QED BY <2>1, <2>2, <2>3 DEF FfHeld
<1>15. (\A g \in FfFiles : ~FfOn(c, FfChain(g))) /\ ~FfOn(c, s)
  BY <1>2, <1>11, FfFreeApart
<1>16. FfLoose'
  <2>1. Last(ffCall'.chain) = c
    BY <1>4, <1>5
  <2>2. ffFat'[1][c] = FfFree /\ Head(ffTodo').copy = 1 /\ Head(ffTodo').c = c
    BY <1>1, <1>2, <1>8 DEF FfMark
  <2>3. ~FfOn(c, FfBase') /\ \A g \in FfFiles : ~FfOn(c, FfChain(g)')
    BY <1>6, <1>12, <1>15
  <2> QED BY <2>1, <2>2, <2>3 DEF FfLoose
<1>17. FfShape'
  <2>1. FfRound'
    <3>1. CASE s = << >>
      <4>1. Len(t) = 1 /\ t[1] = c
        BY <1>4, <3>1
      <4> QED BY <1>5, <1>7, <3>1, <4>1 DEF FfRound
    <3>2. CASE s # << >>
      <4>1. Len(s) \in Nat /\ Len(s) > 0
        BY <1>3, <3>2, EmptySeq
      <4>2. Len(t) > 1 /\ t[Len(t)] = c /\ t[Len(t) - 1] = s[Len(s)]
        <5>1. Len(t) - 1 = Len(s) /\ Len(s) \in 1 .. Len(s)
          BY <1>4, <4>1
        <5> QED BY <1>4, <4>1, <5>1
      <4> QED BY <1>5, <1>7, <3>2, <4>2 DEF FfRound
    <3> QED BY <3>1, <3>2
  <2>2. ffCall.kind \in {"append", "create"}
    BY <1>1 DEF FfInv, FfShape
  <2>3. ffCount' < FfCalls /\ ffCall'.had <= Len(ffCall'.chain)
    BY <1>1, <1>3, <1>4, <1>5
  <2> QED BY <1>5, <2>1, <2>2, <2>3 DEF FfShape
<1>18. FfAllKept'
  <2> SUFFICES ASSUME ~ffHurt PROVE FfAllKept'
    BY <1>1 DEF FfAllKept
  <2>1. /\ ffFat[1] = ffFat[2]
        /\ \A d \in FfClusters : ffFat[1][d] # FfFree =>
              (\E g \in FfFiles : FfOn(d, FfChain(g))) \/ FfOn(d, s)
    BY <1>1 DEF FfInv, FfAllKept, s
  <2>2. ffFat'[1] = ffFat'[2] /\ Head(ffTodo').copy # 2
    BY <1>1, <1>8, <2>1 DEF FfMark
  <2>3. \A d \in FfClusters : FfOn(d, s) => FfOn(d, t)
    <3>1. \A i \in 1 .. Len(s) : i \in 1 .. Len(t)
      BY <1>3, <1>4
    <3> QED BY <1>4, <3>1 DEF FfOn
  <2>4. \A d \in FfClusters : ffFat'[1][d] # FfFree =>
          (\E g \in FfFiles : FfOn(d, FfChain(g)')) \/ FfOn(d, ffCall'.chain)
    BY <1>1, <1>5, <1>6, <2>1, <2>3
  <2> QED BY <1>5, <2>2, <2>4 DEF FfAllKept
<1> QED BY <1>9, <1>10, <1>14, <1>16, <1>17, <1>18 DEF FfInv

(* The hint.                                                               *)
LEMMA FfNotedIs ==
    ASSUME FfInv, FfGrowing
    PROVE  FfNoted \in Seq(FfWrites) /\ \A i \in 1 .. Len(FfNoted) : FfNoted[i].k = "hint"
<1> DEFINE s == ffCall.chain
           a == FfNoted
<1>1. /\ ffCall # FfNone /\ s \in Seq(FfClusters) /\ ffCall.had \in Nat /\ ffCall.had <= Len(s)
      /\ Len(s) \in Nat
  BY FfCallIs DEF FfGrowing, FfInv
<1>2. CASE Len(s) = ffCall.had
  <2>1. a = << >>
    BY <1>2 DEF FfNoted
  <2> QED BY <2>1
<1>3. CASE Len(s) # ffCall.had
  <2>1. s # << >> /\ Len(s) \in 1 .. Len(s)
    BY <1>1, <1>3
  <2>2. Last(s) \in Nat /\ Head(s) \in Nat
    <3>1. Last(s) \in FfClusters /\ Head(s) \in FfClusters
      BY <1>1, <2>1, FfFrontOf, HeadTailProperties
    <3> QED BY <3>1, FfConstants
  <2> DEFINE c == IF ffCall.kind = "append" THEN Last(s) + 1 ELSE Head(s) + Len(s)
  <2>3. c \in Nat
    BY <1>1, <2>2
  <2>4. a = <<[k |-> "hint", c |-> c]>>
    BY <1>3 DEF FfNoted, FfNote
  <2> HIDE DEF c
  <2> DEFINE h == [k |-> "hint", c |-> c]
  <2>5. h \in FfWrites /\ h.k = "hint"
    BY <2>3 DEF FfWrites
  <2> HIDE DEF h, a
  <2>6. <<h>> \in Seq(FfWrites) /\ Len(<<h>>) = 1 /\ <<h>>[1] = h
    BY <2>5
  <2> QED BY <2>4, <2>5, <2>6 DEF h, a
<1> QED BY <1>2, <1>3

(* The data.                                                               *)
LEMMA FfWrittenIs ==
    ASSUME FfInv, FfGrowing, Len(ffCall.chain) >= FfGrownTo
    PROVE  /\ FfWritten \in Seq(FfWrites)
           /\ \A i \in 1 .. Len(FfWritten) :
                 FfWritten[i].k = "data" /\ FfOn(FfWritten[i].c, ffCall.chain)
<1> DEFINE s == ffCall.chain
           b == FfWritten
<1>1. /\ ffCall # FfNone /\ s \in Seq(FfClusters) /\ ffCall.off \in Nat /\ ffCall.len \in Nat
      /\ ffCall.off + ffCall.len \in Nat /\ Len(s) \in Nat /\ ffCount < FfCalls /\ FfTypeOK
  BY FfCallIs DEF FfGrowing, FfInv
<1>2. CASE ffCall.kind = "append"
  <2>1. b = FfRange(s, ffCall.off, ffCall.len, TRUE)
    BY <1>2 DEF FfWritten
  <2>2. FfSectors(ffCall.off + ffCall.len) <= Len(s)
    <3>1. FfSectors(ffCall.off + ffCall.len) \in Nat
      BY <1>1, FfSectorsOf
    <3> QED BY <1>1, <3>1 DEF FfGrownTo
  <2>3. TRUE \in BOOLEAN
    OBVIOUS
  <2> HIDE DEF b, s
  <2>4. b \in Seq(FfWrites) /\ \A i \in 1 .. Len(b) : b[i].k = "data" /\ FfOn(b[i].c, s)
    BY <1>1, <2>1, <2>2, <2>3, FfRangeIs
  <2> QED BY <2>4 DEF b, s
<1>3. CASE ffCall.kind # "append"
  <2>1. b = << >>
    BY <1>3 DEF FfWritten
  <2> QED BY <2>1
<1> QED BY <1>2, <1>3

(* Writes put one after the other, and one more.                           *)
FfWoven(w, a, b, e) ==
    /\ w \in Seq(FfWrites) /\ w # << >> /\ w[Len(w)] = e
    /\ \A i \in 1 .. Len(w) :
          \/ \E j \in 1 .. Len(a) : w[i] = a[j]
          \/ \E j \in 1 .. Len(b) : w[i] = b[j]
          \/ i = Len(w) /\ w[i] = e
    /\ \A j \in 1 .. Len(b) : \E i \in 1 .. Len(w) : w[i] = b[j]

LEMMA FfJoined ==
    ASSUME NEW a \in Seq(FfWrites), NEW b \in Seq(FfWrites), NEW e \in FfWrites,
           NEW w, w = (a \o b) \o <<e>>
    PROVE  FfWoven(w, a, b, e)
<1> DEFINE r == a \o b
<1>1. /\ r \in Seq(FfWrites) /\ Len(r) = Len(a) + Len(b)
      /\ \A i \in 1 .. Len(a) + Len(b) : r[i] = IF i <= Len(a) THEN a[i] ELSE b[i - Len(a)]
      /\ Len(a) \in Nat /\ Len(b) \in Nat
  BY ConcatProperties
<1>2. w = r \o <<e>>
  OBVIOUS
<1> HIDE DEF r
<1>3. /\ r \o <<e>> \in Seq(FfWrites) /\ r \o <<e>> # << >> /\ Len(r \o <<e>>) = Len(r) + 1
      /\ (r \o <<e>>)[Len(r \o <<e>>)] = e
      /\ \A i \in 1 .. Len(r \o <<e>>) :
            \/ i \in 1 .. Len(r) /\ (r \o <<e>>)[i] = r[i]
            \/ i = Len(r \o <<e>>) /\ (r \o <<e>>)[i] = e
  BY <1>1, FfThenEntry
<1>4. /\ w \in Seq(FfWrites) /\ w # << >> /\ w[Len(w)] = e /\ Len(w) = Len(r) + 1
      /\ \A i \in 1 .. Len(w) : \/ i \in 1 .. Len(r) /\ w[i] = r[i]
                                \/ i = Len(w) /\ w[i] = e
  BY <1>2, <1>3
<1>5. ASSUME NEW i \in 1 .. Len(r)
      PROVE  (\E j \in 1 .. Len(a) : r[i] = a[j]) \/ (\E j \in 1 .. Len(b) : r[i] = b[j])
  <2>1. CASE i <= Len(a)
    <3>1. i \in 1 .. Len(a) /\ r[i] = a[i]
      BY <1>1, <2>1
    <3> QED BY <3>1
  <2>2. CASE ~(i <= Len(a))
    <3>1. i - Len(a) \in 1 .. Len(b) /\ r[i] = b[i - Len(a)]
      BY <1>1, <2>2
    <3> QED BY <3>1
  <2> QED BY <2>1, <2>2
<1>6. ASSUME NEW j \in 1 .. Len(b) PROVE \E i \in 1 .. Len(w) : w[i] = b[j]
  <2> DEFINE i == Len(a) + j
  <2>1. /\ i \in 1 .. Len(r) /\ i \in 1 .. Len(a) + Len(b) /\ ~(i <= Len(a)) /\ i - Len(a) = j
        /\ i \in 1 .. Len(w) /\ i # Len(w)
    BY <1>1, <1>4
  <2> HIDE DEF i
  <2>2. r[i] = b[i - Len(a)]
    BY <1>1, <2>1
  <2> QED BY <1>4, <2>1, <2>2
<1>7. ASSUME NEW i \in 1 .. Len(w)
      PROVE  \/ \E j \in 1 .. Len(a) : w[i] = a[j]
             \/ \E j \in 1 .. Len(b) : w[i] = b[j]
             \/ i = Len(w) /\ w[i] = e
  <2>1. CASE i \in 1 .. Len(r) /\ w[i] = r[i]
    BY <1>5, <2>1
  <2> QED BY <1>4, <2>1
<1> QED BY <1>4, <1>6, <1>7 DEF FfWoven

(* What is left when the file has its clusters.                            *)
LEMMA FfRestIs ==
    ASSUME FfInv, FfGrowing, Len(ffCall.chain) >= FfGrownTo
    PROVE  /\ FfRest \in Seq(FfWrites) /\ FfRest # << >>
           /\ FfRest[Len(FfRest)] = FfEntry(ffCall.f, FfFirst(ffCall.chain), ffCall.off + ffCall.len)
           /\ \A i \in 1 .. Len(FfRest) :
                 \/ FfRest[i].k = "hint"
                 \/ /\ FfRest[i].k = "data" /\ FfOn(FfRest[i].c, ffCall.chain)
                    /\ \E j \in 1 .. Len(FfWritten) : FfRest[i] = FfWritten[j]
                 \/ /\ i = Len(FfRest)
                    /\ FfRest[i] = FfEntry(ffCall.f, FfFirst(ffCall.chain),
                                           ffCall.off + ffCall.len)
           /\ \A j \in 1 .. Len(FfWritten) : \E i \in 1 .. Len(FfRest) : FfRest[i] = FfWritten[j]
<1> DEFINE s == ffCall.chain
           a == FfNoted
           b == FfWritten
           e == FfEntry(ffCall.f, FfFirst(s), ffCall.off + ffCall.len)
           w == FfRest
<1>1. /\ s \in Seq(FfClusters) /\ ffCall.f \in FfFiles /\ ffCall.off + ffCall.len \in Nat
  BY FfCallIs DEF FfGrowing
<1>2. FfFirst(s) \in FfClusters \cup {0}
  <2>1. s # << >> => Head(s) \in FfClusters
    BY <1>1, HeadTailProperties
  <2> QED BY <2>1 DEF FfFirst
<1>3. e \in FfWrites
  BY <1>1, <1>2, FfEntryWrite
<1>4. a \in Seq(FfWrites) /\ \A i \in 1 .. Len(a) : a[i].k = "hint"
  BY FfNotedIs
<1>5. b \in Seq(FfWrites) /\ \A i \in 1 .. Len(b) : b[i].k = "data" /\ FfOn(b[i].c, s)
  BY FfWrittenIs
<1>6. w = (a \o b) \o <<e>>
  BY DEF FfRest, FfSized
<1> HIDE DEF a, b, e, s, w
<1>7. /\ w \in Seq(FfWrites) /\ w # << >> /\ w[Len(w)] = e
      /\ \A i \in 1 .. Len(w) :
            \/ \E j \in 1 .. Len(a) : w[i] = a[j]
            \/ \E j \in 1 .. Len(b) : w[i] = b[j]
            \/ i = Len(w) /\ w[i] = e
      /\ \A j \in 1 .. Len(b) : \E i \in 1 .. Len(w) : w[i] = b[j]
  <2>1. FfWoven(w, a, b, e)
    BY <1>3, <1>4, <1>5, <1>6, FfJoined
  <2> QED BY <2>1 DEF FfWoven
<1>8. \A i \in 1 .. Len(w) :
         \/ w[i].k = "hint"
         \/ /\ w[i].k = "data" /\ FfOn(w[i].c, s)
            /\ \E j \in 1 .. Len(b) : w[i] = b[j]
         \/ i = Len(w) /\ w[i] = e
  BY <1>4, <1>5, <1>7
<1> QED BY <1>7, <1>8 DEF e, s, b, w

LEMMA FfFillStep ==
    ASSUME FfInv, FfFill
    PROVE  FfInv'
<1> DEFINE s == ffCall.chain
           f == ffCall.f
<1>1. /\ FfGrowing /\ ffCall # FfNone /\ ffCall.at = "grow" /\ ffTodo = << >> /\ ffHurt' = ffHurt
      /\ Len(s) >= FfGrownTo
      /\ ffCall' = [ffCall EXCEPT !.at = "write"] /\ ffTodo' = FfRest
      /\ ffFat' = ffFat /\ ffData' = ffData /\ ffDir' = ffDir /\ ffHint' = ffHint
      /\ ffCount' = ffCount
  BY DEF FfFill, FfGrowing
<1>2. /\ ffCall \in FfCallKinds /\ s \in Seq(FfClusters) /\ ffCount < FfCalls
      /\ ffCall.had <= Len(s) /\ f \in FfFiles /\ ffCall.off + ffCall.len \in Nat
      /\ Len(s) \in Nat
  BY <1>1, FfCallIs
<1>3. /\ ffCall' \in FfCallKinds /\ ffCall'.at = "write" /\ ffCall'.had = ffCall.had
      /\ ffCall'.chain = s /\ ffCall'.f = f /\ ffCall'.off = ffCall.off
      /\ ffCall'.len = ffCall.len /\ ffCall' # FfNone
  BY <1>1, <1>2, FfConstants DEF FfCallKinds
<1>4. \A g \in FfFiles : /\ FfChain(g)' = FfChain(g) /\ FfClus(g)' = FfClus(g)
                         /\ FfSize(g)' = FfSize(g)
  BY <1>1, FfStill
<1> DEFINE w == FfRest
           e == FfEntry(f, FfFirst(s), ffCall.off + ffCall.len)
<1>5. /\ w \in Seq(FfWrites) /\ w # << >> /\ w[Len(w)] = e
      /\ \A i \in 1 .. Len(w) : \/ w[i].k = "hint"
                                \/ w[i].k = "data" /\ FfOn(w[i].c, s)
                                \/ i = Len(w) /\ w[i] = e
  BY <1>1, FfRestIs
<1>6. ffTodo' = w
  BY <1>1
<1>7. FfLive /\ FfBase = s
  BY <1>1 DEF FfLive, FfBase
<1>8. FfTypeOK'
  BY <1>1, <1>3, <1>5 DEF FfInv, FfTypeOK
<1>9. FfFilesOk'
  BY <1>1, <1>4 DEF FfInv, FfFilesOk
<1> HIDE DEF s, f, w
<1>10. FfBase' = s
  BY <1>3 DEF FfBase
<1>11. FfHeld'
  <2>1. /\ FfChainOk(s, ffFat[1], FfFirst(s)) /\ FfChain(f) \in {s, << >>}
        /\ \A g \in FfFiles : g # f => FfApart(s, FfChain(g))
    BY <1>7 DEF FfInv, FfHeld, f
  <2>2. FfChain(ffCall.f)' \in {FfBase', << >>}
    BY <1>2, <1>3, <1>4, <1>10, <2>1, FfCallChain
  <2>3. \A g \in FfFiles : g # ffCall'.f => FfApart(FfBase', FfChain(g)')
    BY <1>3, <1>4, <1>10, <2>1
  <2>4. FfChainOk(FfBase', ffFat'[1], FfFirst(FfBase'))
    BY <1>1, <1>10, <2>1
  <2> QED BY <2>2, <2>3, <2>4 DEF FfHeld
<1>12. FfLoose'
  BY <1>3 DEF FfLoose
<1>13. FfShape'
  <2>1. FfSectors(ffCall.off + ffCall.len) <= Len(s)
    <3>1. FfSectors(ffCall.off + ffCall.len) \in Nat
      BY <1>2, FfSectorsOf
    <3> QED BY <1>1, <1>2, <3>1 DEF FfGrownTo
  <2>2. FfGrownTo' = FfSectors(ffCall.off + ffCall.len)
    BY <1>3 DEF FfGrownTo
  <2>3. ASSUME NEW i \in 1 .. Len(ffTodo') PROVE FfMayWrite(ffTodo[i], i = Len(ffTodo))'
    BY <1>3, <1>5, <1>6, <2>1, <2>2 DEF FfMayWrite
  <2>4. ffCount' < FfCalls /\ ffCall'.had <= Len(ffCall'.chain)
    BY <1>1, <1>2, <1>3
  <2> QED BY <1>3, <2>3, <2>4 DEF FfShape
<1>14. FfAllKept'
  <2> SUFFICES ASSUME ~ffHurt PROVE FfAllKept'
    BY <1>1 DEF FfAllKept
  <2>1. /\ ffFat[1] = ffFat[2]
        /\ \A d \in FfClusters : ffFat[1][d] # FfFree =>
              (\E g \in FfFiles : FfOn(d, FfChain(g))) \/ FfOn(d, s)
    BY <1>1 DEF FfInv, FfAllKept, s
  <2>2. e.k = "dir"
    BY DEF FfEntry
  <2>3. Head(w).k # "fat"
    <3>1. 1 \in 1 .. Len(w) /\ Head(w) = w[1]
      BY <1>5, EmptySeq
    <3> HIDE DEF e
    <3> QED BY <1>5, <2>2, <3>1
  <2>4. \A d \in FfClusters : ffFat'[1][d] # FfFree =>
          (\E g \in FfFiles : FfOn(d, FfChain(g)')) \/ FfOn(d, ffCall'.chain)
    BY <1>1, <1>3, <1>4, <2>1
  <2>5. ffTodo' # << >> /\ ffTodo'[Len(ffTodo')].k = "dir" /\ Head(ffTodo').k # "fat"
    BY <1>5, <1>6, <2>2, <2>3
  <2>6. ffFat'[1] = ffFat'[2]
    BY <1>1, <2>1
  <2> QED BY <1>3, <2>4, <2>5, <2>6 DEF FfAllKept
<1> QED BY <1>8, <1>9, <1>11, <1>12, <1>13, <1>14 DEF FfInv

(* What one sector write changes.                                          *)
LEMMA FfPerformIs ==
    ASSUME FfTypeOK, NEW w \in FfWrites, FfPerform(w)
    PROVE  /\ ffFat' \in [{1, 2} -> FfFats] /\ ffData' \in [FfClusters -> [FfUnits -> 0 .. FfCalls]]
           /\ ffDir' \in [FfFiles -> FfEntries \cup {FfNone}] /\ ffHint' \in Nat
           /\ (w.k # "fat" => ffFat' = ffFat) /\ (w.k # "dir" => ffDir' = ffDir)
           /\ (w.k = "fat" => ffFat' = [ffFat EXCEPT ![w.copy] = [@ EXCEPT ![w.c] = w.v]])
           /\ (w.k = "dir" => ffDir' = [ffDir EXCEPT ![w.f] = w.entry])
<1>1. /\ ffFat \in [{1, 2} -> FfFats] /\ ffDir \in [FfFiles -> FfEntries \cup {FfNone}]
      /\ ffData \in [FfClusters -> [FfUnits -> 0 .. FfCalls]] /\ ffHint \in Nat
  BY DEF FfTypeOK, FfFats
<1>2. /\ ffFat' = IF w.k = "fat" THEN [ffFat EXCEPT ![w.copy] = [@ EXCEPT ![w.c] = w.v]] ELSE ffFat
      /\ ffData' = IF w.k = "data" THEN [ffData EXCEPT ![w.c] = w.units] ELSE ffData
      /\ ffDir' = IF w.k = "dir" THEN [ffDir EXCEPT ![w.f] = w.entry] ELSE ffDir
      /\ ffHint' = IF w.k = "hint" THEN w.c ELSE ffHint
  BY DEF FfPerform
<1>3. CASE w.k = "fat"
  <2>1. w.copy \in {1, 2} /\ w.c \in FfClusters /\ w.v \in FfClusters \cup {FfEnd}
    BY <1>3 DEF FfWrites
  <2>2. [ffFat[w.copy] EXCEPT ![w.c] = w.v] \in FfFats
    BY <1>1, <2>1 DEF FfFats
  <2> QED BY <1>1, <1>2, <1>3, <2>1, <2>2
<1>4. CASE w.k = "data"
  <2>1. w.c \in FfClusters /\ w.units \in [FfUnits -> 0 .. FfCalls]
    BY <1>4 DEF FfWrites
  <2> QED BY <1>1, <1>2, <1>4, <2>1
<1>5. CASE w.k = "dir"
  <2>1. w.f \in FfFiles /\ w.entry \in FfEntries
    BY <1>5 DEF FfWrites
  <2> QED BY <1>1, <1>2, <1>5, <2>1
<1>6. CASE w.k = "hint"
  <2>1. w.c \in Nat
    BY <1>6 DEF FfWrites
  <2> QED BY <1>1, <1>2, <1>6, <2>1
<1>7. w.k \in {"fat", "data", "dir", "hint"}
  BY DEF FfWrites
<1> QED BY <1>3, <1>4, <1>5, <1>6, <1>7

(* The first copy and the directory stay, and so do the chains.            *)
LEMMA FfFilesStay ==
    ASSUME FfInv, ffFat'[1] = ffFat[1], ffDir' = ffDir
    PROVE  /\ FfFilesOk'
           /\ \A g \in FfFiles : FfChain(g)' = FfChain(g)
<1>1. \A g \in FfFiles : /\ FfChain(g)' = FfChain(g) /\ FfClus(g)' = FfClus(g)
                         /\ FfSize(g)' = FfSize(g)
  BY DEF FfChain, FfClus, FfSize
<1> QED BY <1>1 DEF FfInv, FfFilesOk

(* A cluster that is on no file's chain is written over in the FAT.        *)
LEMMA FfFilesKept ==
    ASSUME FfInv, NEW c \in FfClusters, NEW v, ffFat'[1] = [ffFat[1] EXCEPT ![c] = v],
           ffDir' = ffDir, \A g \in FfFiles : ~FfOn(c, FfChain(g))
    PROVE  /\ FfFilesOk'
           /\ \A g \in FfFiles : FfChain(g)' = FfChain(g)
<1>1. ASSUME NEW g \in FfFiles
      PROVE  /\ FfChain(g)' = FfChain(g) /\ FfClus(g)' = FfClus(g) /\ FfSize(g)' = FfSize(g)
             /\ FfChainOk(FfChain(g), ffFat'[1], FfClus(g))
  <2>1. FfChainOk(FfChain(g), ffFat[1], FfClus(g)) /\ ~FfOn(c, FfChain(g)) /\ ffFat[1] \in FfFats
    BY FfTyped DEF FfInv, FfFilesOk
  <2>2. FfChainOk(FfChain(g), ffFat'[1], FfClus(g))
    BY <2>1, FfOthers
  <2>3. FfClus(g)' = FfClus(g) /\ FfSize(g)' = FfSize(g)
    BY DEF FfClus, FfSize
  <2>4. FfChainFrom(ffFat'[1], FfClus(g)) = FfChain(g)
    BY <2>2, FfChainIs
  <2>5. FfChain(g)' = FfChainFrom(ffFat'[1], FfClus(g)')
    BY DEF FfChain
  <2> QED BY <2>2, <2>3, <2>4, <2>5
<1>2. \A g \in FfFiles : FfSectors(FfSize(g)) <= Len(FfChain(g))
  BY DEF FfInv, FfFilesOk
<1>3. \A g, h \in FfFiles : g # h => FfApart(FfChain(g), FfChain(h))
  BY DEF FfInv, FfFilesOk
<1> QED BY <1>1, <1>2, <1>3 DEF FfFilesOk

(* The cluster in hand is linked to the last one of the call's: the file's *)
(* chain, if it is the one that grows, grows by it.                        *)
LEMMA FfFilesLinked ==
    ASSUME FfInv, NEW f \in FfFiles, NEW b \in Seq(FfClusters), NEW c \in FfClusters, b # << >>,
           FfChainOk(b, ffFat[1], FfFirst(b)), FfChain(f) \in {b, << >>},
           \A g \in FfFiles : g # f => FfApart(b, FfChain(g)),
           ~FfOn(c, b), \A g \in FfFiles : ~FfOn(c, FfChain(g)), ffFat[1][c] = FfEnd,
           ffFat'[1] = [ffFat[1] EXCEPT ![b[Len(b)]] = c], ffDir' = ffDir
    PROVE  /\ FfFilesOk' /\ FfChainOk(Append(b, c), ffFat'[1], FfFirst(Append(b, c)))
           /\ FfChain(f)' \in {Append(b, c), << >>}
           /\ (FfChain(f) = b => FfChain(f)' = Append(b, c))
           /\ \A g \in FfFiles : g # f => /\ FfChain(g)' = FfChain(g)
                                          /\ FfApart(Append(b, c), FfChain(g))
<1> DEFINE t == Append(b, c)
           p == b[Len(b)]
<1>1. /\ t \in Seq(FfClusters) /\ t # << >> /\ Len(t) = Len(b) + 1
      /\ (\A i \in 1 .. Len(b) : t[i] = b[i]) /\ t[Len(b) + 1] = c
      /\ Len(b) \in Nat /\ Len(b) >= 1 /\ p \in FfClusters /\ FfOn(p, b)
  <2>1. Len(b) \in 1 .. Len(b) /\ Len(b) \in Nat
    BY EmptySeq
  <2> QED BY <2>1, AppendProperties, ElementOfSeq DEF FfOn
<1>2. ffFat[1] \in FfFats
  BY FfTyped DEF FfInv
<1>3. FfChainOk(t, ffFat'[1], FfFirst(b))
  BY <1>2, FfExtends
<1>4. FfFirst(t) = FfFirst(b)
  <2>1. 1 \in 1 .. Len(b) /\ Head(t) = t[1] /\ Head(b) = b[1] /\ t[1] = b[1]
    BY <1>1
  <2> QED BY <1>1, <2>1 DEF FfFirst
<1> HIDE DEF t, p
<1>5. \A d \in FfClusters : FfOn(d, t) => FfOn(d, b) \/ d = c
  <2>1. \A i \in 1 .. Len(t) : i \in 1 .. Len(b) \/ i = Len(b) + 1
    BY <1>1
  <2> QED BY <1>1, <2>1 DEF FfOn
<1>6. ASSUME NEW g \in FfFiles
      PROVE  FfClus(g)' = FfClus(g) /\ FfSize(g)' = FfSize(g)
             /\ FfChain(g)' = FfChainFrom(ffFat'[1], FfClus(g))
             /\ FfChainOk(FfChain(g), ffFat[1], FfClus(g))
             /\ FfSectors(FfSize(g)) <= Len(FfChain(g))
  <2>1. FfClus(g)' = FfClus(g) /\ FfSize(g)' = FfSize(g)
    BY DEF FfClus, FfSize
  <2>2. FfChain(g)' = FfChainFrom(ffFat'[1], FfClus(g)')
    BY DEF FfChain
  <2> QED BY <2>1, <2>2 DEF FfInv, FfFilesOk
<1>7. ASSUME NEW g \in FfFiles, ~FfOn(p, FfChain(g))
      PROVE  FfChain(g)' = FfChain(g) /\ FfChainOk(FfChain(g), ffFat'[1], FfClus(g))
  <2>1. FfChainOk(FfChain(g), [ffFat[1] EXCEPT ![p] = c], FfClus(g))
    BY <1>1, <1>2, <1>6, <1>7, FfOthers
  <2>2. FfChainOk(FfChain(g), ffFat'[1], FfClus(g))
    BY <2>1 DEF p
  <2> QED BY <1>6, <2>2, FfChainIs
<1>8. ASSUME NEW g \in FfFiles, g # f
      PROVE  ~FfOn(p, FfChain(g)) /\ FfApart(t, FfChain(g))
  <2>1. FfApart(b, FfChain(g)) /\ ~FfOn(c, FfChain(g))
    BY <1>8
  <2> QED BY <1>1, <1>5, <2>1 DEF FfApart
<1>9. ASSUME FfChain(f) = b
      PROVE  FfChain(f)' = t /\ FfChainOk(t, ffFat'[1], FfClus(f))
  <2>1. FfChainOk(b, ffFat[1], FfClus(f))
    BY <1>6, <1>9
  <2>2. FfChainOk(t, ffFat'[1], FfClus(f))
    BY <1>2, <2>1, FfExtends DEF t
  <2>3. FfChainFrom(ffFat'[1], FfClus(f)) = t
    BY <2>2, FfChainIs
  <2> QED BY <1>6, <2>2, <2>3
<1>10. ASSUME FfChain(f) = << >>
       PROVE  FfChain(f)' = << >> /\ FfChainOk(<< >>, ffFat'[1], FfClus(f))
  <2>1. ~FfOn(p, FfChain(f))
    BY <1>10 DEF FfOn
  <2> QED BY <1>7, <1>10, <2>1
<1>11. FfFilesOk'
  <2>1. ASSUME NEW g \in FfFiles
        PROVE  /\ FfChainOk(FfChain(g)', ffFat'[1], FfClus(g)')
               /\ FfSectors(FfSize(g)') <= Len(FfChain(g)')
    <3>1. CASE g # f
      BY <1>6, <1>7, <1>8, <3>1
    <3>2. CASE g = f /\ FfChain(f) = << >>
      BY <1>6, <1>10, <3>2
    <3>3. CASE g = f /\ FfChain(f) = b
      <4>1. FfSectors(FfSize(f)) \in Nat
        BY FfTyped, FfSectorsOf DEF FfInv
      <4>2. FfSectors(FfSize(f)) <= Len(t)
        BY <1>1, <1>6, <3>3, <4>1
      <4> QED BY <1>6, <1>9, <3>3, <4>2
    <3> QED BY <3>1, <3>2, <3>3
  <2>2. ASSUME NEW g \in FfFiles, NEW h \in FfFiles, g # h
        PROVE  FfApart(FfChain(g)', FfChain(h)')
    <3>1. FfApart(FfChain(g), FfChain(h)) /\ FfApart(FfChain(h), FfChain(g))
      BY <2>2 DEF FfInv, FfFilesOk
    <3>2. CASE g # f /\ h # f
      BY <1>7, <1>8, <3>1, <3>2
    <3>3. CASE FfChain(f) = << >>
      <4>1. FfChain(g)' = FfChain(g) /\ FfChain(h)' = FfChain(h)
        BY <1>7, <1>8, <1>10, <3>3
      <4> QED BY <3>1, <4>1
    <3>4. CASE g = f /\ FfChain(f) = b
      <4>1. FfApart(t, FfChain(h)) /\ FfChain(h)' = FfChain(h)
        BY <1>7, <1>8, <2>2, <3>4
      <4> QED BY <1>9, <3>4, <4>1
    <3>5. CASE h = f /\ FfChain(f) = b
      <4>1. FfApart(t, FfChain(g)) /\ FfChain(g)' = FfChain(g)
        BY <1>7, <1>8, <2>2, <3>5
      <4> QED BY <1>9, <3>5, <4>1 DEF FfApart
    <3> QED BY <3>2, <3>3, <3>4, <3>5
  <2> QED BY <2>1, <2>2 DEF FfFilesOk
<1>12. FfChain(f)' \in {t, << >>}
  BY <1>9, <1>10
<1> QED BY <1>3, <1>4, <1>7, <1>8, <1>9, <1>11, <1>12 DEF t

(* The entry of the call's file is written: its chain is the call's.       *)
LEMMA FfFilesEntered ==
    ASSUME FfInv, NEW f \in FfFiles, NEW s, NEW size \in Nat,
           FfChainOk(s, ffFat[1], FfFirst(s)), FfFirst(s) \in FfClusters \cup {0},
           \A g \in FfFiles : g # f => FfApart(s, FfChain(g)), FfSectors(size) <= Len(s),
           ffFat' = ffFat, ffDir' = [ffDir EXCEPT ![f] = [clus |-> FfFirst(s), size |-> size]]
    PROVE  /\ FfFilesOk' /\ FfChain(f)' = s
           /\ \A g \in FfFiles : g # f => FfChain(g)' = FfChain(g)
<1>1. ffDir \in [FfFiles -> FfEntries \cup {FfNone}]
  BY DEF FfInv, FfTypeOK
<1>2. [clus |-> FfFirst(s), size |-> size] \in FfEntries
  BY DEF FfEntries
<1>3. FfClus(f)' = FfFirst(s) /\ FfSize(f)' = size
  BY <1>1, <1>2, FfConstants DEF FfClus, FfSize
<1>4. FfChain(f)' = s
  <2>1. FfChainFrom(ffFat[1], FfFirst(s)) = s
    BY FfChainIs
  <2>2. FfChain(f)' = FfChainFrom(ffFat'[1], FfClus(f)')
    BY DEF FfChain
  <2> QED BY <1>3, <2>1, <2>2
<1>5. ASSUME NEW g \in FfFiles, g # f
      PROVE  FfChain(g)' = FfChain(g) /\ FfClus(g)' = FfClus(g) /\ FfSize(g)' = FfSize(g)
  BY <1>1, <1>5 DEF FfChain, FfClus, FfSize
<1>6. \A g \in FfFiles : /\ FfChainOk(FfChain(g), ffFat[1], FfClus(g))
                         /\ FfSectors(FfSize(g)) <= Len(FfChain(g))
  BY DEF FfInv, FfFilesOk
<1>7. ASSUME NEW g \in FfFiles
      PROVE  /\ FfChainOk(FfChain(g)', ffFat'[1], FfClus(g)')
             /\ FfSectors(FfSize(g)') <= Len(FfChain(g)')
  <2>1. CASE g = f
    BY <1>3, <1>4, <2>1
  <2>2. CASE g # f
    BY <1>5, <1>6, <2>2
  <2> QED BY <2>1, <2>2
<1>8. ASSUME NEW g \in FfFiles, NEW h \in FfFiles, g # h
      PROVE  FfApart(FfChain(g)', FfChain(h)')
  <2>1. FfApart(FfChain(g), FfChain(h))
    BY <1>8 DEF FfInv, FfFilesOk
  <2>2. CASE g # f /\ h # f
    BY <1>5, <2>1, <2>2
  <2>3. CASE g = f
    BY <1>4, <1>5, <1>8, <2>3
  <2>4. CASE h = f
    <3>1. FfApart(s, FfChain(g)) /\ FfChain(g)' = FfChain(g) /\ FfChain(h)' = s
      BY <1>4, <1>5, <1>8, <2>4
    <3> QED BY <3>1 DEF FfApart
  <2> QED BY <2>2, <2>3, <2>4
<1> QED BY <1>4, <1>5, <1>7, <1>8 DEF FfFilesOk

(* The cluster in hand, and the ones before it.                            *)
LEMMA FfInHand ==
    ASSUME FfInv, ffCall # FfNone, ffCall.at = "grow", ffTodo # << >>
    PROVE  LET s == ffCall.chain
               b == FfFront(s)
               c == Last(s)
           IN  /\ s \in Seq(FfClusters) /\ s # << >> /\ Len(s) \in Nat \ {0}
               /\ c = s[Len(s)] /\ c \in FfClusters /\ ffCall.f \in FfFiles
               /\ b \in Seq(FfClusters) /\ s = Append(b, c) /\ Len(b) = Len(s) - 1
               /\ (Len(s) = 1 => b = << >> /\ s = <<c>>)
               /\ Len(s) > 1 => b # << >> /\ b[Len(b)] = s[Len(s) - 1] /\ s[Len(s) - 1] \in FfClusters
<1> DEFINE s == ffCall.chain
           b == FfFront(s)
           c == Last(s)
<1>1. s \in Seq(FfClusters) /\ ffCall.f \in FfFiles /\ Len(s) \in Nat
  BY FfCallIs
<1>2. FfRound
  BY DEF FfInv, FfShape
<1>3. Len(s) > 0
  BY <1>2 DEF FfRound
<1>4. s # << >>
  BY <1>3
<1>5. /\ b \in Seq(FfClusters) /\ Len(b) = Len(s) - 1 /\ (\A i \in 1 .. Len(s) - 1 : b[i] = s[i])
      /\ c = s[Len(s)] /\ c \in FfClusters /\ s = Append(b, c)
  BY <1>1, <1>4, FfFrontOf
<1> HIDE DEF s, b, c
<1>6. ASSUME Len(s) = 1 PROVE b = << >> /\ s = <<c>>
  <2>1. Len(b) = 0
    BY <1>5, <1>6
  <2>2. b = << >>
    BY <1>5, <2>1
  <2>3. <<c>> \in Seq(FfClusters) /\ Len(<<c>>) = 1 /\ <<c>>[1] = c
    BY <1>5
  <2>4. s = <<c>>
    BY <1>1, <1>5, <1>6, <2>3, SeqEqual
  <2> QED BY <2>2, <2>4
<1>7. ASSUME Len(s) > 1
      PROVE  b # << >> /\ b[Len(b)] = s[Len(s) - 1] /\ s[Len(s) - 1] \in FfClusters
  <2>1. Len(s) - 1 \in 1 .. Len(s) - 1 /\ Len(s) - 1 \in 1 .. Len(s) /\ Len(b) > 0
    BY <1>1, <1>5, <1>7
  <2>2. b # << >>
    BY <2>1
  <2> QED BY <1>1, <1>5, <2>1, <2>2, ElementOfSeq
<1>8. Len(s) \in Nat \ {0}
  BY <1>1, <1>3
<1> QED BY <1>1, <1>4, <1>5, <1>6, <1>7, <1>8 DEF s, b, c

(* The first write of a round.                                             *)
LEMMA FfMarkIt ==
    ASSUME FfInv, ffCall # FfNone, ffCall.at = "grow", ffTodo # << >>, Len(ffTodo) >= 3,
           Head(ffTodo) = FfMark(1, Last(ffCall.chain)), FfPerform(Head(ffTodo))
    PROVE  /\ ffFat'[1] = [ffFat[1] EXCEPT ![Last(ffCall.chain)] = FfEnd] /\ ffFat'[2] = ffFat[2]
           /\ FfFilesOk'
           /\ \A g \in FfFiles : FfChain(g)' = FfChain(g) /\ ~FfOn(Last(ffCall.chain), FfChain(g))
<1> DEFINE c == Last(ffCall.chain)
<1>1. c \in FfClusters
  BY FfInHand
<1> HIDE DEF c
<1>2. \A g \in FfFiles : ~FfOn(c, FfChain(g))
  BY DEF FfInv, FfLoose, c
<1> DEFINE w == Head(ffTodo)
<1>3. w \in FfWrites /\ w.k = "fat" /\ w.copy = 1 /\ w.c = c /\ w.v = FfEnd
  <2>1. w = FfMark(1, c)
    BY DEF c
  <2> HIDE DEF w
  <2>2. FfMark(1, c) \in FfWrites
    BY <1>1 DEF FfMark, FfWrites
  <2> QED BY <2>1, <2>2 DEF FfMark
<1> HIDE DEF w
<1>4. FfPerform(w) /\ FfTypeOK
  BY DEF w, FfInv
<1>5. ffFat' = [ffFat EXCEPT ![1] = [@ EXCEPT ![c] = FfEnd]] /\ ffDir' = ffDir
  BY <1>3, <1>4, FfPerformIs
<1>6. ffFat'[1] = [ffFat[1] EXCEPT ![c] = FfEnd] /\ ffFat'[2] = ffFat[2]
  BY <1>4, <1>5 DEF FfTypeOK
<1>7. FfFilesOk' /\ \A g \in FfFiles : FfChain(g)' = FfChain(g)
  BY <1>1, <1>2, <1>5, <1>6, FfFilesKept
<1> QED BY <1>2, <1>6, <1>7 DEF c

(* The write that links the cluster in hand.                               *)
LEMMA FfLinkIt ==
    ASSUME FfInv, ffCall # FfNone, ffCall.at = "grow", ffTodo # << >>, Len(ffTodo) = 3,
           Len(ffCall.chain) > 1,
           Head(ffTodo) = FfLink(1, ffCall.chain[Len(ffCall.chain) - 1], Last(ffCall.chain)),
           FfPerform(Head(ffTodo))
    PROVE  LET s == ffCall.chain
           IN  /\ ffFat'[1] = [ffFat[1] EXCEPT ![s[Len(s) - 1]] = Last(s)] /\ ffFat'[2] = ffFat[2]
               /\ FfFilesOk' /\ FfChainOk(s, ffFat'[1], FfFirst(s))
               /\ \A g \in FfFiles :
                     IF g = ffCall.f THEN /\ FfChain(g)' \in {s, << >>}
                                          /\ \A d \in FfClusters : FfOn(d, FfChain(g)) => FfOn(d, FfChain(g)')
                     ELSE FfChain(g)' = FfChain(g) /\ FfApart(s, FfChain(g))
<1>0. PICK s \in Seq(FfClusters), b \in Seq(FfClusters), c \in FfClusters, p \in FfClusters,
           f \in FfFiles :
        /\ s = ffCall.chain /\ f = ffCall.f /\ b = FfFront(s) /\ c = Last(s)
        /\ p = s[Len(s) - 1]
  BY FfInHand
<1>1. /\ s \in Seq(FfClusters) /\ c \in FfClusters /\ p \in FfClusters /\ f \in FfFiles
      /\ b \in Seq(FfClusters) /\ b # << >> /\ b[Len(b)] = p /\ s = Append(b, c)
  BY <1>0, FfInHand
<1>2. FfLive /\ FfBase = b
  BY <1>0 DEF FfLive, FfBase
<1>3. /\ ~FfOn(c, b) /\ (\A g \in FfFiles : ~FfOn(c, FfChain(g)))
      /\ ffFat[1][c] = IF Head(ffTodo).copy = 1 /\ Head(ffTodo).c = c THEN FfFree ELSE FfEnd
  BY <1>2, <1>0 DEF FfInv, FfLoose
<1>4. /\ FfChainOk(b, ffFat[1], FfFirst(b)) /\ FfChain(f) \in {b, << >>}
      /\ \A g \in FfFiles : g # f => FfApart(b, FfChain(g))
  BY <1>2, <1>0 DEF FfInv, FfHeld
<1>5. p # c /\ FfOn(p, b)
  <2>1. Len(b) \in 1 .. Len(b)
    BY <1>1, EmptySeq
  <2> QED BY <1>1, <1>3, <2>1 DEF FfOn
<1> DEFINE w == Head(ffTodo)
<1>6. w = FfLink(1, p, c)
  BY <1>0
<1>7. w \in FfWrites /\ w.k = "fat" /\ w.copy = 1 /\ w.c = p /\ w.v = c
  <2> HIDE DEF w
  <2>1. FfLink(1, p, c) \in FfWrites
    BY <1>1 DEF FfLink, FfWrites
  <2> QED BY <1>6, <2>1 DEF FfLink
<1> HIDE DEF w
<1>8. FfPerform(w) /\ FfTypeOK
  BY DEF w, FfInv
<1>9. ffFat' = [ffFat EXCEPT ![1] = [@ EXCEPT ![p] = c]] /\ ffDir' = ffDir
  BY <1>7, <1>8, FfPerformIs
<1>10. ffFat'[1] = [ffFat[1] EXCEPT ![p] = c] /\ ffFat'[2] = ffFat[2]
  BY <1>8, <1>9 DEF FfTypeOK
<1>11. ffFat[1][c] = FfEnd
  BY <1>3, <1>5, <1>7 DEF w
<1>12. ffFat'[1] = [ffFat[1] EXCEPT ![b[Len(b)]] = c]
  BY <1>1, <1>10
<1>13. /\ FfFilesOk' /\ FfChainOk(Append(b, c), ffFat'[1], FfFirst(Append(b, c)))
       /\ FfChain(f)' \in {Append(b, c), << >>}
       /\ (FfChain(f) = b => FfChain(f)' = Append(b, c))
       /\ \A g \in FfFiles : g # f => /\ FfChain(g)' = FfChain(g)
                                      /\ FfApart(Append(b, c), FfChain(g))
  BY <1>1, <1>3, <1>4, <1>9, <1>11, <1>12, FfFilesLinked
<1>14. \A d \in FfClusters : FfOn(d, FfChain(f)) => FfOn(d, FfChain(f)')
  <2>1. CASE FfChain(f) = << >>
    BY <2>1 DEF FfOn
  <2>2. CASE FfChain(f) = b
    <3>1. \A d \in FfClusters : FfOn(d, b) => FfOn(d, Append(b, c))
      <4>1. /\ Len(Append(b, c)) = Len(b) + 1 /\ Len(b) \in Nat
            /\ \A i \in 1 .. Len(b) : Append(b, c)[i] = b[i]
        BY <1>1, AppendProperties
      <4>2. \A i \in 1 .. Len(b) : i \in 1 .. Len(Append(b, c))
        BY <4>1
      <4> QED BY <4>1, <4>2 DEF FfOn
    <3> QED BY <1>13, <2>2, <3>1
  <2> QED BY <1>4, <2>1, <2>2
<1>15. FfFilesOk' /\ FfChainOk(s, ffFat'[1], FfFirst(s)) /\ FfChain(f)' \in {s, << >>}
       /\ \A g \in FfFiles : g # f => FfChain(g)' = FfChain(g) /\ FfApart(s, FfChain(g))
  BY <1>1, <1>13
<1>16. \A g \in FfFiles :
          IF g = f THEN /\ FfChain(g)' \in {s, << >>}
                        /\ \A d \in FfClusters : FfOn(d, FfChain(g)) => FfOn(d, FfChain(g)')
          ELSE FfChain(g)' = FfChain(g) /\ FfApart(s, FfChain(g))
  BY <1>14, <1>15
<1> QED BY <1>0, <1>10, <1>15, <1>16

(* The other writes of a round change neither the first copy nor an entry. *)
LEMMA FfQuietWrite ==
    ASSUME FfInv, NEW w \in FfWrites, w.k \in {"data", "hint"} \/ (w.k = "fat" /\ w.copy = 2),
           FfPerform(w)
    PROVE  /\ ffFat'[1] = ffFat[1] /\ ffDir' = ffDir /\ FfFilesOk'
           /\ ffFat'[2] = IF w.k = "fat" THEN [ffFat[2] EXCEPT ![w.c] = w.v] ELSE ffFat[2]
           /\ \A g \in FfFiles : FfChain(g)' = FfChain(g)
<1>1. FfTypeOK
  BY DEF FfInv
<1>2. ffDir' = ffDir
  BY <1>1, FfPerformIs
<1>3. /\ ffFat'[1] = ffFat[1]
      /\ ffFat'[2] = IF w.k = "fat" THEN [ffFat[2] EXCEPT ![w.c] = w.v] ELSE ffFat[2]
  <2>1. CASE w.k = "fat"
    <3>1. ffFat' = [ffFat EXCEPT ![2] = [@ EXCEPT ![w.c] = w.v]]
      BY <1>1, <2>1, FfPerformIs
    <3> QED BY <1>1, <2>1, <3>1 DEF FfTypeOK
  <2>2. CASE w.k # "fat"
    <3>1. ffFat' = ffFat
      BY <1>1, <2>2, FfPerformIs
    <3> QED BY <2>2, <3>1
  <2> QED BY <2>1, <2>2
<1> QED BY <1>2, <1>3, FfFilesStay

(* The write of the entry, after which the call's clusters are the file's. *)
LEMMA FfEnterIt ==
    ASSUME FfInv, ffCall # FfNone, ffCall.at = "write", ffTodo # << >>,
           Head(ffTodo) = FfEntry(ffCall.f, FfFirst(ffCall.chain), ffCall.off + ffCall.len),
           FfGrownTo <= Len(ffCall.chain), FfPerform(Head(ffTodo))
    PROVE  /\ ffFat' = ffFat /\ FfFilesOk'
           /\ \A g \in FfFiles : FfChain(g)' = IF g = ffCall.f THEN ffCall.chain ELSE FfChain(g)
<1>1. PICK s \in Seq(FfClusters), f \in FfFiles, size \in Nat :
        s = ffCall.chain /\ f = ffCall.f /\ size = ffCall.off + ffCall.len
  BY FfCallIs
<1> DEFINE w == FfEntry(f, FfFirst(s), size)
<1>2. FfLive /\ FfBase = s
  BY <1>1 DEF FfLive, FfBase
<1>3. /\ FfChainOk(s, ffFat[1], FfFirst(s))
      /\ \A g \in FfFiles : g # f => FfApart(s, FfChain(g))
  BY <1>1, <1>2 DEF FfInv, FfHeld
<1>4. FfSectors(size) <= Len(s)
  BY <1>1 DEF FfGrownTo
<1>5. FfFirst(s) \in FfClusters \cup {0}
  <2>1. s # << >> => Head(s) \in FfClusters
    BY <1>1, HeadTailProperties
  <2> QED BY <2>1 DEF FfFirst
<1>6. w \in FfWrites /\ w.k = "dir" /\ w.f = f /\ w.entry = [clus |-> FfFirst(s), size |-> size]
  BY <1>1, <1>5, FfEntryWrite DEF FfEntry
<1>7. FfPerform(w) /\ FfTypeOK
  BY <1>1 DEF FfInv
<1> HIDE DEF w
<1>8. ffFat' = ffFat /\ ffDir' = [ffDir EXCEPT ![f] = [clus |-> FfFirst(s), size |-> size]]
  BY <1>6, <1>7, FfPerformIs
<1>9. FfFilesOk' /\ FfChain(f)' = s /\ \A g \in FfFiles : g # f => FfChain(g)' = FfChain(g)
  BY <1>1, <1>3, <1>4, <1>5, <1>8, FfFilesEntered
<1> QED BY <1>1, <1>8, <1>9

LEMMA FfWriteTypes ==
    ASSUME FfInv, ffTodo # << >>, FfPerform(Head(ffTodo)) \/ UNCHANGED <<ffFat, ffData, ffDir, ffHint>>,
           ffTodo' \in Seq(FfWrites), ffCall' \in FfCallKinds \cup {FfNone}, ffCount' = ffCount,
           ffHurt' \in BOOLEAN
    PROVE  FfTypeOK'
<1>1. Head(ffTodo) \in FfWrites /\ FfTypeOK
  BY HeadTailProperties DEF FfInv, FfTypeOK
<1>2. CASE FfPerform(Head(ffTodo))
  BY <1>1, <1>2, FfPerformIs DEF FfTypeOK, FfFats
<1>3. CASE UNCHANGED <<ffFat, ffData, ffDir, ffHint>>
  BY <1>1, <1>3 DEF FfTypeOK
<1> QED BY <1>2, <1>3

(* What has to be seen to after a write of a round of the growth loop.     *)
LEMMA FfGrowAfter ==
    ASSUME FfInv, FfWrite, ffCall # FfNone, ffCall.at = "grow",
           NEW s \in Seq(FfClusters), NEW b, NEW f \in FfFiles, NEW c \in FfClusters,
           s = ffCall.chain, f = ffCall.f, c = Last(s), FfOn(c, s), FfFilesOk', FfRound',
           FfBase' = b, FfChainOk(b, ffFat'[1], FfFirst(b)), FfChain(f)' \in {b, << >>},
           \A g \in FfFiles : g # f => FfApart(b, FfChain(g)'),
           FfLoose',
           ~ffHurt => ffFat'[1] = IF ffTodo' # << >> /\ Head(ffTodo').k = "fat" /\ Head(ffTodo').copy = 2
                                  THEN [ffFat'[2] EXCEPT ![Head(ffTodo').c] = Head(ffTodo').v]
                                  ELSE ffFat'[2],
           \A d \in FfClusters : ffFat'[1][d] # FfFree => ffFat[1][d] # FfFree \/ d = c,
           \A g \in FfFiles, d \in FfClusters : FfOn(d, FfChain(g)) => FfOn(d, FfChain(g)')
    PROVE  FfInv'
<1>1. /\ ffTodo # << >> /\ FfPerform(Head(ffTodo)) /\ ffTodo' = Tail(ffTodo) /\ ffCall' = ffCall
      /\ ffCount' = ffCount /\ ffHurt' = ffHurt
  BY DEF FfWrite
<1>2. FfTypeOK'
  <2>1. /\ Tail(ffTodo) \in Seq(FfWrites) /\ ffCall \in FfCallKinds \cup {FfNone}
        /\ ffHurt \in BOOLEAN
    BY <1>1, HeadTailProperties DEF FfInv, FfTypeOK
  <2> QED BY <1>1, <2>1, FfWriteTypes
<1>3. FfHeld'
  <2>1. FfChain(ffCall.f)' = FfChain(f)'
    BY <1>1, FfCallChain
  <2> QED BY <1>1, <2>1 DEF FfHeld
<1>4. FfShape'
  <2>1. ffCall.kind \in {"append", "create"} /\ ffCount < FfCalls /\ ffCall.had <= Len(ffCall.chain)
    BY DEF FfInv, FfShape
  <2> QED BY <1>1, <2>1 DEF FfShape
<1>5. FfAllKept'
  <2> SUFFICES ASSUME ~ffHurt PROVE FfAllKept'
    BY <1>1 DEF FfAllKept
  <2>1. \A d \in FfClusters : ffFat[1][d] # FfFree =>
          (\E g \in FfFiles : FfOn(d, FfChain(g))) \/ FfOn(d, s)
    BY DEF FfInv, FfAllKept
  <2>2. ASSUME NEW d \in FfClusters, ffFat'[1][d] # FfFree
        PROVE  (\E g \in FfFiles : FfOn(d, FfChain(g)')) \/ FfOn(d, ffCall'.chain)
    <3>1. CASE ffFat[1][d] # FfFree
      BY <1>1, <2>1, <3>1
    <3>2. CASE d = c
      BY <1>1, <3>2
    <3> QED BY <2>2, <3>1, <3>2
  <2> QED BY <1>1, <2>2 DEF FfAllKept
<1> QED BY <1>2, <1>3, <1>4, <1>5 DEF FfInv

(* The first cluster of a chain is marked in the first copy, ...           *)
LEMMA FfMarkStep ==
    ASSUME FfInv, FfWrite, ffCall # FfNone, ffCall.at = "grow",
           \/ /\ Len(ffCall.chain) = 1
              /\ ffTodo = <<FfMark(1, Last(ffCall.chain)), FfMark(2, Last(ffCall.chain)),
                            FfClean(Last(ffCall.chain))>>
           \/ /\ Len(ffCall.chain) > 1
              /\ ffTodo = <<FfMark(1, Last(ffCall.chain)), FfMark(2, Last(ffCall.chain)),
                            FfLink(1, ffCall.chain[Len(ffCall.chain) - 1], Last(ffCall.chain)),
                            FfLink(2, ffCall.chain[Len(ffCall.chain) - 1], Last(ffCall.chain)),
                            FfClean(Last(ffCall.chain))>>
    PROVE  FfInv'
<1>1. /\ FfPerform(Head(ffTodo)) /\ ffTodo' = Tail(ffTodo) /\ ffCall' = ffCall
      /\ ffHurt' = ffHurt /\ ffTodo # << >>
  BY DEF FfWrite
<1>2. PICK s \in Seq(FfClusters), b \in Seq(FfClusters), c \in FfClusters, f \in FfFiles :
        s = ffCall.chain /\ f = ffCall.f /\ b = FfFront(s) /\ c = Last(s)
  BY <1>1, FfInHand
<1> DEFINE p == s[Len(s) - 1]
<1>3. /\ s # << >> /\ Len(s) \in Nat \ {0} /\ c = s[Len(s)] /\ s = Append(b, c)
      /\ (Len(s) = 1 => b = << >> /\ s = <<c>>)
      /\ (Len(s) > 1 => b # << >> /\ b[Len(b)] = p)
  BY <1>1, <1>2, FfInHand
<1>4. /\ Len(ffTodo) >= 3 /\ Head(ffTodo) = FfMark(1, c)
      /\ \/ Len(s) = 1 /\ ffTodo' = <<FfMark(2, c), FfClean(c)>>
         \/ Len(s) > 1 /\ ffTodo' = <<FfMark(2, c), FfLink(1, p, c), FfLink(2, p, c), FfClean(c)>>
  <2> DEFINE m1 == FfMark(1, c)
             m2 == FfMark(2, c)
             l1 == FfLink(1, p, c)
             l2 == FfLink(2, p, c)
             z == FfClean(c)
  <2>1. \/ Len(s) = 1 /\ ffTodo = <<m1, m2, z>>
        \/ Len(s) > 1 /\ ffTodo = <<m1, m2, l1, l2, z>>
    BY <1>2
  <2> HIDE DEF m1, m2, l1, l2, z
  <2>2. /\ Len(ffTodo) >= 3 /\ Head(ffTodo) = m1
        /\ \/ Len(s) = 1 /\ Tail(ffTodo) = <<m2, z>>
           \/ Len(s) > 1 /\ Tail(ffTodo) = <<m2, l1, l2, z>>
    <3>1. CASE Len(s) = 1 /\ ffTodo = <<m1, m2, z>>
      BY <3>1
    <3>2. CASE Len(s) > 1 /\ ffTodo = <<m1, m2, l1, l2, z>>
      BY <3>2
    <3> QED BY <2>1, <3>1, <3>2
  <2> QED BY <1>1, <2>2 DEF m1, m2, l1, l2, z
<1>5. /\ ffFat'[1] = [ffFat[1] EXCEPT ![c] = FfEnd] /\ ffFat'[2] = ffFat[2] /\ FfFilesOk'
      /\ \A g \in FfFiles : FfChain(g)' = FfChain(g) /\ ~FfOn(c, FfChain(g))
  BY <1>1, <1>2, <1>4, FfMarkIt
<1>6. FfLive /\ FfBase = b
  BY <1>2, <1>4 DEF FfLive, FfBase
<1>7. /\ FfChainOk(b, ffFat[1], FfFirst(b)) /\ FfChain(f) \in {b, << >>} /\ ~FfOn(c, b)
      /\ \A g \in FfFiles : g # f => FfApart(b, FfChain(g))
  BY <1>2, <1>4, <1>6 DEF FfInv, FfHeld, FfLoose
<1>8. ffFat[1] \in FfFats /\ ffFat'[1][c] = FfEnd
  BY <1>5, FfTyped DEF FfInv, FfFats
<1>9. /\ ffTodo' # << >> /\ Head(ffTodo') = FfMark(2, c)
      /\ (Len(s) = 1 => Len(ffTodo') = 2) /\ (Len(s) > 1 => Len(ffTodo') = 4)
  <2>1. CASE Len(s) = 1
    <3>1. ffTodo' = <<FfMark(2, c), FfClean(c)>>
      BY <1>4, <2>1
    <3> QED BY <2>1, <3>1
  <2>2. CASE Len(s) > 1
    <3>1. Len(s) # 1
      BY <1>3, <2>2
    <3> HIDE DEF p
    <3>2. ffTodo' = <<FfMark(2, c), FfLink(1, p, c), FfLink(2, p, c), FfClean(c)>>
      BY <1>4, <3>1
    <3> QED BY ONLY <2>2, <3>1, <3>2
  <2> QED BY <1>3, <2>1, <2>2
<1>10. FfOn(c, s)
  BY <1>3 DEF FfOn
<1>11. FfRound'
  <2>1. ffCall'.chain = s /\ s[Len(s)] = c
    BY <1>1, <1>2, <1>3
  <2> QED BY <1>4, <2>1 DEF FfRound
<1>12. ~ffHurt => ffFat'[1] = IF ffTodo' # << >> /\ Head(ffTodo').k = "fat" /\ Head(ffTodo').copy = 2
                              THEN [ffFat'[2] EXCEPT ![Head(ffTodo').c] = Head(ffTodo').v]
                              ELSE ffFat'[2]
  <2> SUFFICES ASSUME ~ffHurt
               PROVE  ffFat'[1] = [ffFat'[2] EXCEPT ![c] = FfEnd]
    BY <1>9 DEF FfMark
  <2>1. ffFat[1] = ffFat[2]
    BY <1>4 DEF FfInv, FfAllKept, FfMark
  <2> QED BY <1>5, <2>1
<1>13. \A d \in FfClusters : ffFat'[1][d] # FfFree => ffFat[1][d] # FfFree \/ d = c
  BY <1>5, <1>8 DEF FfFats
<1>14. \A g \in FfFiles, d \in FfClusters : FfOn(d, FfChain(g)) => FfOn(d, FfChain(g)')
  BY <1>5
<1>15. CASE Len(s) = 1
  <2>1. FfBase' = s
    BY <1>1, <1>2, <1>9, <1>15 DEF FfBase
  <2>2. FfFirst(s) = c /\ FfChainOk(s, ffFat'[1], FfFirst(s))
    BY <1>3, <1>8, <1>15, FfSingle DEF FfFirst
  <2>3. FfChain(f)' \in {s, << >>}
    BY <1>3, <1>5, <1>7, <1>15
  <2>4. \A g \in FfFiles : g # f => FfApart(s, FfChain(g)')
    BY <1>3, <1>5, <1>15 DEF FfApart, FfOn
  <2>5. FfLoose'
    <3>1. ~(Len(ffTodo') >= 3)
      <4>1. Len(ffTodo') = 2
        BY <1>9, <1>15
      <4> QED BY ONLY <4>1
    <3> QED BY <3>1 DEF FfLoose
  <2>6. /\ FfInv /\ FfWrite /\ ffCall # FfNone /\ ffCall.at = "grow" /\ s \in Seq(FfClusters)
        /\ f \in FfFiles /\ c \in FfClusters
    OBVIOUS
  <2> QED BY ONLY <1>2, <1>5, <1>10, <1>11, <1>12, <1>13, <1>14, <2>1, <2>2, <2>3, <2>4, <2>5,
                  <2>6, FfGrowAfter
<1>16. CASE Len(s) > 1
  <2>1. FfBase' = b
    <3>1. Len(ffTodo') >= 3
      <4>1. Len(ffTodo') = 4
        BY <1>9, <1>16
      <4> QED BY ONLY <4>1
    <3> QED BY <1>1, <1>2, <3>1 DEF FfBase
  <2>2. FfChainOk(b, ffFat'[1], FfFirst(b))
    <3>1. FfChainOk(b, [ffFat[1] EXCEPT ![c] = FfEnd], FfFirst(b))
      BY <1>7, <1>8, FfOthers
    <3> QED BY <1>5, <3>1
  <2>3. FfChain(f)' \in {b, << >>}
    BY <1>5, <1>7
  <2>4. \A g \in FfFiles : g # f => FfApart(b, FfChain(g)')
    BY <1>5, <1>7
  <2>5. FfLoose'
    <3>1. Last(ffCall'.chain) = c
      BY <1>1, <1>2
    <3>2. Head(ffTodo').copy = 2
      BY <1>9 DEF FfMark
    <3> QED BY <1>5, <1>7, <1>8, <2>1, <3>1, <3>2 DEF FfLoose
  <2> QED BY <1>2, <1>5, <1>10, <1>11, <1>12, <1>13, <1>14, <2>1, <2>2, <2>3, <2>4, <2>5, FfGrowAfter
<1> QED BY <1>3, <1>15, <1>16

(* ... linked in the first copy, ...                                       *)
LEMMA FfLinkStep ==
    ASSUME FfInv, FfWrite, ffCall # FfNone, ffCall.at = "grow", Len(ffCall.chain) > 1,
           ffTodo = <<FfLink(1, ffCall.chain[Len(ffCall.chain) - 1], Last(ffCall.chain)),
                      FfLink(2, ffCall.chain[Len(ffCall.chain) - 1], Last(ffCall.chain)),
                      FfClean(Last(ffCall.chain))>>
    PROVE  FfInv'
<1>1. /\ FfPerform(Head(ffTodo)) /\ ffTodo' = Tail(ffTodo) /\ ffCall' = ffCall
      /\ ffHurt' = ffHurt /\ ffTodo # << >>
  BY DEF FfWrite
<1>2. PICK s \in Seq(FfClusters), b \in Seq(FfClusters), c \in FfClusters, p \in FfClusters,
           f \in FfFiles :
        /\ s = ffCall.chain /\ f = ffCall.f /\ b = FfFront(s) /\ c = Last(s)
        /\ p = s[Len(s) - 1]
  BY <1>1, FfInHand
<1>3. /\ s # << >> /\ Len(s) \in Nat \ {0} /\ c = s[Len(s)] /\ s = Append(b, c)
      /\ b # << >> /\ b[Len(b)] = p /\ Len(s) > 1
  BY <1>1, <1>2, FfInHand
<1>4. /\ Len(ffTodo) = 3 /\ Head(ffTodo) = FfLink(1, p, c) /\ ffTodo' = <<FfLink(2, p, c), FfClean(c)>>
  <2> DEFINE l1 == FfLink(1, p, c)
             l2 == FfLink(2, p, c)
             z == FfClean(c)
  <2>1. ffTodo = <<l1, l2, z>>
    BY <1>2
  <2> HIDE DEF l1, l2, z
  <2>2. /\ Len(ffTodo) = 3 /\ Head(ffTodo) = l1 /\ Tail(ffTodo) = <<l2, z>>
    BY <2>1
  <2> QED BY <1>1, <2>2 DEF l1, l2, z
<1>5. /\ ffTodo' # << >> /\ Len(ffTodo') = 2 /\ Head(ffTodo') = FfLink(2, p, c)
  BY <1>4
<1>6. /\ ffFat'[1] = [ffFat[1] EXCEPT ![p] = c] /\ ffFat'[2] = ffFat[2] /\ FfFilesOk'
      /\ FfChainOk(s, ffFat'[1], FfFirst(s))
      /\ \A g \in FfFiles :
            IF g = f THEN /\ FfChain(g)' \in {s, << >>}
                          /\ \A d \in FfClusters : FfOn(d, FfChain(g)) => FfOn(d, FfChain(g)')
            ELSE FfChain(g)' = FfChain(g) /\ FfApart(s, FfChain(g))
  BY <1>1, <1>2, <1>4, FfLinkIt
<1>7. FfBase' = s
  <2>1. ~(Len(ffTodo') >= 3)
    <3>1. Len(ffTodo') = 2
      BY <1>5
    <3> QED BY ONLY <3>1
  <2> QED BY <1>1, <1>2, <2>1 DEF FfBase
<1>8. FfLoose'
  <2>1. ~(Len(ffTodo') >= 3)
    <3>1. Len(ffTodo') = 2
      BY <1>5
    <3> QED BY ONLY <3>1
  <2> QED BY <2>1 DEF FfLoose
<1>9. FfRound'
  BY <1>1, <1>2, <1>3, <1>4 DEF FfRound
<1>10. FfOn(c, s)
  BY <1>3 DEF FfOn
<1>11. ~ffHurt => ffFat'[1] = IF ffTodo' # << >> /\ Head(ffTodo').k = "fat" /\ Head(ffTodo').copy = 2
                              THEN [ffFat'[2] EXCEPT ![Head(ffTodo').c] = Head(ffTodo').v]
                              ELSE ffFat'[2]
  <2> SUFFICES ASSUME ~ffHurt
               PROVE  ffFat'[1] = [ffFat'[2] EXCEPT ![p] = c]
    BY <1>5 DEF FfLink
  <2>1. ffFat[1] = ffFat[2]
    BY <1>4 DEF FfInv, FfAllKept, FfLink
  <2> QED BY <1>6, <2>1
<1>12. \A d \in FfClusters : ffFat'[1][d] # FfFree => ffFat[1][d] # FfFree \/ d = c
  <2>1. FfLive /\ FfBase = b
    BY <1>2, <1>4 DEF FfLive, FfBase
  <2>2. FfChainOk(b, ffFat[1], FfFirst(b))
    BY <2>1 DEF FfInv, FfHeld
  <2>3. FfOn(p, b)
    <3>1. Len(b) \in 1 .. Len(b)
      BY <1>3, EmptySeq
    <3> QED BY <1>3, <3>1 DEF FfOn
  <2>4. ffFat[1][p] # FfFree
    BY <2>2, <2>3, FfOnUsed
  <2>5. ffFat[1] \in FfFats
    BY FfTyped DEF FfInv
  <2> QED BY <1>6, <2>4, <2>5 DEF FfFats
<1>13. \A g \in FfFiles, d \in FfClusters : FfOn(d, FfChain(g)) => FfOn(d, FfChain(g)')
  BY <1>6
<1>14. FfChain(f)' \in {s, << >>} /\ \A g \in FfFiles : g # f => FfApart(s, FfChain(g)')
  BY <1>6
<1>15. /\ FfInv /\ FfWrite /\ ffCall # FfNone /\ ffCall.at = "grow" /\ s \in Seq(FfClusters)
       /\ f \in FfFiles /\ c \in FfClusters
  OBVIOUS
<1> QED BY ONLY <1>2, <1>6, <1>7, <1>8, <1>9, <1>10, <1>11, <1>12, <1>13, <1>14, <1>15, FfGrowAfter

(* ... written to the second copy, and zeroed.                             *)
LEMMA FfQuietStep ==
    ASSUME FfInv, FfWrite, ffCall # FfNone, ffCall.at = "grow",
           NEW w \in FfWrites, w = Head(ffTodo), w.k = "data" \/ (w.k = "fat" /\ w.copy = 2),
           FfBase' = FfBase, FfRound', FfLoose',
           ffTodo' # << >> => Head(ffTodo').k # "fat" \/ Head(ffTodo').copy = 1
    PROVE  FfInv'
<1>1. /\ FfPerform(Head(ffTodo)) /\ ffTodo' = Tail(ffTodo) /\ ffCall' = ffCall
      /\ ffHurt' = ffHurt /\ ffTodo # << >>
  BY DEF FfWrite
<1>2. PICK s \in Seq(FfClusters), c \in FfClusters, f \in FfFiles :
        s = ffCall.chain /\ f = ffCall.f /\ c = Last(s)
  BY <1>1, FfInHand
<1>3. s # << >> /\ Len(s) \in Nat \ {0} /\ c = s[Len(s)]
  BY <1>1, <1>2, FfInHand
<1>4. FfOn(c, s)
  BY <1>3 DEF FfOn
<1>5. PICK b : b = FfBase
  OBVIOUS
<1>6. /\ FfChainOk(b, ffFat[1], FfFirst(b)) /\ FfChain(f) \in {b, << >>}
      /\ \A g \in FfFiles : g # f => FfApart(b, FfChain(g))
  BY <1>2, <1>5 DEF FfInv, FfHeld, FfLive
<1>7. /\ ffFat'[1] = ffFat[1] /\ FfFilesOk'
      /\ ffFat'[2] = IF w.k = "fat" THEN [ffFat[2] EXCEPT ![w.c] = w.v] ELSE ffFat[2]
      /\ \A g \in FfFiles : FfChain(g)' = FfChain(g)
  <2>1. FfPerform(w)
    BY <1>1
  <2> QED BY <2>1, FfQuietWrite
<1>8. ~ffHurt => ffFat'[1] = IF ffTodo' # << >> /\ Head(ffTodo').k = "fat" /\ Head(ffTodo').copy = 2
                             THEN [ffFat'[2] EXCEPT ![Head(ffTodo').c] = Head(ffTodo').v]
                             ELSE ffFat'[2]
  <2> SUFFICES ASSUME ~ffHurt PROVE ffFat'[1] = ffFat'[2]
    OBVIOUS
  <2>1. ffFat[1] = IF w.k = "fat" /\ w.copy = 2 THEN [ffFat[2] EXCEPT ![w.c] = w.v] ELSE ffFat[2]
    BY <1>1 DEF FfInv, FfAllKept
  <2>2. CASE w.k = "data"
    BY <1>7, <2>1, <2>2
  <2>3. CASE w.k = "fat" /\ w.copy = 2
    BY <1>7, <2>1, <2>3
  <2> QED BY <2>2, <2>3
<1>9. \A d \in FfClusters : ffFat'[1][d] # FfFree => ffFat[1][d] # FfFree \/ d = c
  BY <1>7
<1>10. /\ (\A g \in FfFiles, d \in FfClusters : FfOn(d, FfChain(g)) => FfOn(d, FfChain(g)'))
       /\ FfChainOk(b, ffFat'[1], FfFirst(b)) /\ FfChain(f)' \in {b, << >>}
       /\ \A g \in FfFiles : g # f => FfApart(b, FfChain(g)')
  BY <1>6, <1>7
<1>11. /\ FfInv /\ FfWrite /\ ffCall # FfNone /\ ffCall.at = "grow" /\ s \in Seq(FfClusters)
       /\ f \in FfFiles /\ c \in FfClusters /\ FfBase' = b /\ FfRound' /\ FfLoose'
  BY <1>5
<1> QED BY ONLY <1>2, <1>4, <1>7, <1>8, <1>9, <1>10, <1>11, FfGrowAfter

(* A write of the growth loop.                                             *)
LEMMA FfGrowWrite ==
    ASSUME FfInv, FfWrite, ffCall # FfNone, ffCall.at = "grow"
    PROVE  FfInv'
<1>1. /\ FfPerform(Head(ffTodo)) /\ ffTodo' = Tail(ffTodo) /\ ffCall' = ffCall /\ ffTodo # << >>
  BY DEF FfWrite
<1>14. PICK s \in Seq(FfClusters), c \in FfClusters : s = ffCall.chain /\ c = Last(s)
  BY <1>1, FfInHand
<1>15. PICK p : p = s[Len(s) - 1]
  OBVIOUS
<1>2. s = ffCall.chain /\ c = Last(s) /\ p = s[Len(s) - 1]
  BY <1>14, <1>15
<1>3. /\ s # << >> /\ Len(s) \in Nat \ {0} /\ c = s[Len(s)]
      /\ (Len(s) > 1 => p \in FfClusters /\ s = Append(FfFront(s), c) /\ FfFront(s) \in Seq(FfClusters)
                        /\ FfFront(s) # << >> /\ FfFront(s)[Len(FfFront(s))] = p)
  BY <1>1, <1>2, FfInHand
<1> DEFINE m1 == FfMark(1, c)
           m2 == FfMark(2, c)
           l1 == FfLink(1, p, c)
           l2 == FfLink(2, p, c)
           z == FfClean(c)
<1>4. \/ ffTodo = <<z>>
      \/ Len(s) = 1 /\ ffTodo = <<m2, z>>
      \/ Len(s) = 1 /\ ffTodo = <<m1, m2, z>>
      \/ Len(s) > 1 /\ ffTodo = <<l2, z>>
      \/ Len(s) > 1 /\ ffTodo = <<l1, l2, z>>
      \/ Len(s) > 1 /\ ffTodo = <<m2, l1, l2, z>>
      \/ Len(s) > 1 /\ ffTodo = <<m1, m2, l1, l2, z>>
  <2>1. FfRound
    BY DEF FfInv, FfShape
  <2> QED BY <1>1, <1>2, <1>3, <2>1 DEF FfRound
<1>5. /\ z.k = "data" /\ m2.k = "fat" /\ m2.copy = 2 /\ l1.k = "fat" /\ l1.copy = 1
      /\ l1.c = p /\ l2.k = "fat" /\ l2.copy = 2
  BY DEF FfMark, FfLink, FfClean
<1>6. z \in FfWrites /\ m2 \in FfWrites /\ (p \in FfClusters => l2 \in FfWrites)
  <2>1. FfBlank \in [FfUnits -> 0 .. FfCalls]
    BY FfConstants DEF FfBlank
  <2>2. z \in FfWrites
    BY <2>1 DEF FfClean, FfWrites
  <2>3. m2 \in FfWrites
    BY DEF FfMark, FfWrites
  <2>4. p \in FfClusters => l2 \in FfWrites
    BY DEF FfLink, FfWrites
  <2> QED BY <2>2, <2>3, <2>4
<1>7. CASE (Len(s) = 1 /\ ffTodo = <<m1, m2, z>>) \/ (Len(s) > 1 /\ ffTodo = <<m1, m2, l1, l2, z>>)
  BY <1>2, <1>7, FfMarkStep
<1>8. CASE Len(s) > 1 /\ ffTodo = <<l1, l2, z>>
  BY <1>2, <1>8, FfLinkStep
<1>9. ffCall'.chain = s /\ s[Len(s)] = c /\ s[Len(s) - 1] = p
  BY <1>1, <1>2, <1>3
<1> HIDE DEF m1, m2, l1, l2, z
<1>10. CASE ffTodo = <<z>>
  <2>1. Head(ffTodo) = z /\ ffTodo' = << >> /\ Len(ffTodo) = 1 /\ Len(ffTodo') = 0
    BY <1>1, <1>10
  <2>2. ~(Len(ffTodo) >= 3) /\ ~(Len(ffTodo') >= 3)
    BY ONLY <2>1
  <2>3. FfBase' = FfBase
    BY <1>1, <2>2 DEF FfBase
  <2>4. FfLoose'
    BY <2>2 DEF FfLoose
  <2>5. FfRound'
    BY <2>1 DEF FfRound
  <2> QED BY <1>5, <1>6, <2>1, <2>3, <2>4, <2>5, FfQuietStep
<1>11. CASE Len(s) = 1 /\ ffTodo = <<m2, z>>
  <2>1. Head(ffTodo) = m2 /\ ffTodo' = <<z>> /\ Len(ffTodo) = 2
    BY <1>1, <1>11
  <2>2. Len(ffTodo') = 1 /\ Head(ffTodo') = z
    BY <2>1
  <2>3. ~(Len(ffTodo) >= 3) /\ ~(Len(ffTodo') >= 3)
    BY ONLY <2>1, <2>2
  <2>4. FfBase' = FfBase
    BY <1>1, <2>3 DEF FfBase
  <2>5. FfLoose'
    BY <2>3 DEF FfLoose
  <2>6. FfRound'
    BY <1>3, <1>9, <2>1 DEF FfRound, z
  <2> QED BY <1>5, <1>6, <2>1, <2>2, <2>4, <2>5, <2>6, FfQuietStep
<1>12. CASE Len(s) > 1 /\ ffTodo = <<l2, z>>
  <2>1. Head(ffTodo) = l2 /\ ffTodo' = <<z>> /\ Len(ffTodo) = 2
    BY <1>1, <1>12
  <2>2. Len(ffTodo') = 1 /\ Head(ffTodo') = z
    BY <2>1
  <2>3. ~(Len(ffTodo) >= 3) /\ ~(Len(ffTodo') >= 3)
    BY ONLY <2>1, <2>2
  <2>4. FfBase' = FfBase
    BY <1>1, <2>3 DEF FfBase
  <2>5. FfLoose'
    BY <2>3 DEF FfLoose
  <2>6. FfRound'
    BY <1>3, <1>9, <2>1 DEF FfRound, z
  <2>7. l2 \in FfWrites
    BY <1>3, <1>6, <1>12
  <2> QED BY <1>5, <2>1, <2>2, <2>4, <2>5, <2>6, <2>7, FfQuietStep
<1>13. CASE Len(s) > 1 /\ ffTodo = <<m2, l1, l2, z>>
  <2>1. Head(ffTodo) = m2 /\ ffTodo' = <<l1, l2, z>> /\ Len(ffTodo) = 4
    BY <1>1, <1>13
  <2>2. Len(ffTodo') = 3 /\ Head(ffTodo') = l1
    BY <2>1
  <2>3. Len(ffTodo) >= 3 /\ Len(ffTodo') >= 3
    BY ONLY <2>1, <2>2
  <2>4. FfBase = FfFront(s) /\ FfBase' = FfFront(s)
    BY <1>1, <1>2, <2>3 DEF FfBase
  <2>5. FfLoose'
    <3>1. /\ ~FfOn(c, FfFront(s)) /\ (\A g \in FfFiles : ~FfOn(c, FfChain(g)))
          /\ ffFat[1][c] = FfEnd
      BY <1>2, <1>5, <2>1, <2>3, <2>4 DEF FfInv, FfLoose
    <3>2. p # c
      <4>1. Len(FfFront(s)) \in 1 .. Len(FfFront(s))
        BY <1>3, <1>13, EmptySeq
      <4> QED BY <1>3, <1>13, <3>1, <4>1 DEF FfOn
    <3>3. ffFat'[1] = ffFat[1] /\ \A g \in FfFiles : FfChain(g)' = FfChain(g)
      <4>1. FfPerform(m2)
        BY <1>1, <2>1
      <4> QED BY <1>5, <1>6, <4>1, FfQuietWrite
    <3>4. Last(ffCall'.chain) = c /\ Head(ffTodo').c # c
      BY <1>1, <1>2, <1>5, <2>2, <3>2
    <3> QED BY <2>4, <3>1, <3>3, <3>4 DEF FfLoose
  <2>6. FfRound'
    BY <1>3, <1>9, <1>13, <2>1 DEF FfRound, z, l1, l2
  <2> QED BY <1>5, <1>6, <2>1, <2>2, <2>4, <2>5, <2>6, FfQuietStep
<1> QED BY <1>4, <1>7, <1>8, <1>10, <1>11, <1>12, <1>13

(* A write of the sectors, the hint or the entry.                          *)
LEMMA FfLateWrite ==
    ASSUME FfInv, FfWrite, ffCall # FfNone, ffCall.at = "write"
    PROVE  FfInv'
<1> DEFINE w == Head(ffTodo)
<1>1. /\ FfPerform(w) /\ ffTodo' = Tail(ffTodo) /\ ffCall' = ffCall /\ ffTodo # << >>
      /\ ffCount' = ffCount /\ ffHurt' = ffHurt
  BY DEF FfWrite
<1>2. PICK s \in Seq(FfClusters), f \in FfFiles : s = ffCall.chain /\ f = ffCall.f
  BY FfCallIs
<1>3. /\ ffTodo \in Seq(FfWrites) /\ w \in FfWrites /\ Len(ffTodo) \in Nat \ {0} /\ w = ffTodo[1]
      /\ 1 \in 1 .. Len(ffTodo)
      /\ Tail(ffTodo) \in Seq(FfWrites) /\ Len(Tail(ffTodo)) = Len(ffTodo) - 1
      /\ \A i \in 1 .. Len(ffTodo) - 1 : Tail(ffTodo)[i] = ffTodo[i + 1]
  <2>1. ffTodo \in Seq(FfWrites)
    BY DEF FfInv, FfTypeOK
  <2> QED BY <1>1, <2>1, HeadTailProperties, EmptySeq
<1>4. \A i \in 1 .. Len(ffTodo) : FfMayWrite(ffTodo[i], i = Len(ffTodo))
  BY DEF FfInv, FfShape
<1>5. FfMayWrite(w, 1 = Len(ffTodo))
  BY <1>3, <1>4
<1>6. /\ FfLive /\ FfBase = s /\ FfBase' = s /\ FfLoose'
  BY <1>1, <1>2 DEF FfLive, FfBase, FfLoose
<1>7. /\ FfChainOk(s, ffFat[1], FfFirst(s)) /\ FfChain(f) \in {s, << >>}
      /\ \A g \in FfFiles : g # f => FfApart(s, FfChain(g))
  BY <1>2, <1>6 DEF FfInv, FfHeld
<1>8. FfTypeOK'
  <2>1. ffCall \in FfCallKinds \cup {FfNone} /\ ffHurt \in BOOLEAN
    BY DEF FfInv, FfTypeOK
  <2> QED BY <1>1, <1>3, <2>1, FfWriteTypes
<1>9. ASSUME NEW i \in 1 .. Len(ffTodo') PROVE FfMayWrite(ffTodo[i], i = Len(ffTodo))'
  <2>1. /\ i \in 1 .. Len(ffTodo) - 1 /\ i + 1 \in 1 .. Len(ffTodo) /\ ffTodo'[i] = ffTodo[i + 1]
        /\ (i = Len(ffTodo') <=> i + 1 = Len(ffTodo))
    BY <1>1, <1>3
  <2>2. FfMayWrite(ffTodo[i + 1], i + 1 = Len(ffTodo))
    BY <1>4, <2>1
  <2> QED BY <1>1, <2>1, <2>2 DEF FfMayWrite, FfGrownTo
<1>10. FfShape'
  <2>1. ffCount < FfCalls /\ ffCall.had <= Len(ffCall.chain)
    BY DEF FfInv, FfShape
  <2> QED BY <1>1, <1>9, <2>1 DEF FfShape
<1>11. FfChain(ffCall.f)' = FfChain(f)'
  BY <1>1, <1>2, FfCallChain
<1>12. ~ffHurt => /\ ffFat[1] = IF w.k = "fat" /\ w.copy = 2 THEN [ffFat[2] EXCEPT ![w.c] = w.v] ELSE ffFat[2]
                  /\ \A d \in FfClusters : ffFat[1][d] # FfFree =>
                        (\E g \in FfFiles : FfOn(d, FfChain(g))) \/ FfOn(d, s)
                  /\ FfChain(f) = s \/ ffTodo[Len(ffTodo)].k = "dir"
  BY <1>1, <1>2 DEF FfInv, FfAllKept
<1>13. ffTodo' # << >> => Head(ffTodo').k # "fat"
  <2> SUFFICES ASSUME ffTodo' # << >> PROVE Head(ffTodo').k # "fat"
    OBVIOUS
  <2>1. 2 \in 1 .. Len(ffTodo) /\ Head(ffTodo') = ffTodo[2]
    <3>1. Len(ffTodo') \in Nat \ {0} /\ Head(ffTodo') = ffTodo'[1]
      BY <1>1, <1>3, EmptySeq
    <3>2. 1 \in 1 .. Len(ffTodo) - 1 /\ 1 + 1 = 2 /\ 2 \in 1 .. Len(ffTodo)
      BY <1>1, <1>3, <3>1
    <3> QED BY <1>1, <1>3, <3>1, <3>2
  <2>2. FfMayWrite(ffTodo[2], 2 = Len(ffTodo))
    BY <1>4, <2>1
  <2> QED BY <2>1, <2>2 DEF FfMayWrite, FfEntry
<1>14. CASE w.k \in {"data", "hint"}
  <2>1. /\ ffFat'[1] = ffFat[1] /\ FfFilesOk' /\ ffFat'[2] = ffFat[2]
        /\ \A g \in FfFiles : FfChain(g)' = FfChain(g)
    BY <1>1, <1>3, <1>14, FfQuietWrite
  <2>2. FfHeld'
    BY <1>1, <1>2, <1>6, <1>7, <1>11, <2>1 DEF FfHeld
  <2>3. FfAllKept'
    <3> SUFFICES ASSUME ~ffHurt PROVE FfAllKept'
      BY <1>1 DEF FfAllKept
    <3>1. ffFat'[1] = ffFat'[2]
      BY <1>12, <1>14, <2>1
    <3>2. \A d \in FfClusters : ffFat'[1][d] # FfFree =>
            (\E g \in FfFiles : FfOn(d, FfChain(g)')) \/ FfOn(d, ffCall'.chain)
      BY <1>1, <1>2, <1>12, <2>1
    <3>3. FfChain(ffCall.f)' = ffCall'.chain \/ (ffTodo' # << >> /\ ffTodo'[Len(ffTodo')].k = "dir")
      <4>1. CASE FfChain(f) = s
        BY <1>1, <1>2, <1>11, <2>1, <4>1
      <4>2. CASE ffTodo[Len(ffTodo)].k = "dir"
        <5>1. Len(ffTodo) # 1
          BY <1>3, <1>14, <4>2
        <5>2. /\ Len(ffTodo') = Len(ffTodo) - 1 /\ Len(ffTodo') \in 1 .. Len(ffTodo) - 1
              /\ Len(ffTodo') + 1 = Len(ffTodo)
          BY <1>1, <1>3, <5>1
        <5>3. ffTodo'[Len(ffTodo')] = ffTodo[Len(ffTodo)]
          BY <1>1, <1>3, <5>2
        <5>4. ffTodo' # << >>
          <6> SUFFICES ASSUME ffTodo' = << >> PROVE FALSE
            OBVIOUS
          <6>1. Len(ffTodo') = 0
            OBVIOUS
          <6> QED BY <1>3, <5>2, <6>1
        <5> QED BY <4>2, <5>3, <5>4
      <4> QED BY <1>12, <4>1, <4>2
    <3>4. ffCall' # FfNone
      BY <1>1
    <3> QED BY <1>13, <3>1, <3>2, <3>3, <3>4 DEF FfAllKept
  <2> QED BY <1>6, <1>8, <1>10, <2>1, <2>2, <2>3 DEF FfInv
<1>15. CASE w = FfEntry(ffCall.f, FfFirst(ffCall.chain), ffCall.off + ffCall.len)
            /\ FfGrownTo <= Len(ffCall.chain)
  <2>1. /\ ffFat' = ffFat /\ FfFilesOk'
        /\ \A g \in FfFiles : FfChain(g)' = IF g = ffCall.f THEN ffCall.chain ELSE FfChain(g)
    BY <1>1, <1>15, FfEnterIt
  <2>2. \A g \in FfFiles : FfChain(g)' = IF g = f THEN s ELSE FfChain(g)
    BY <1>2, <2>1
  <2>3. FfHeld'
    BY <1>1, <1>2, <1>6, <1>7, <1>11, <2>1, <2>2 DEF FfHeld
  <2>4. FfAllKept'
    <3> SUFFICES ASSUME ~ffHurt PROVE FfAllKept'
      BY <1>1 DEF FfAllKept
    <3>1. ffFat'[1] = ffFat'[2]
      BY <1>12, <1>15, <2>1 DEF FfEntry
    <3>2. ASSUME NEW d \in FfClusters, ffFat'[1][d] # FfFree
          PROVE  (\E g \in FfFiles : FfOn(d, FfChain(g)')) \/ FfOn(d, ffCall'.chain)
      <4>1. (\E g \in FfFiles : FfOn(d, FfChain(g))) \/ FfOn(d, s)
        BY <1>12, <2>1, <3>2
      <4>2. CASE FfOn(d, s)
        BY <1>1, <1>2, <4>2
      <4>3. CASE \E g \in FfFiles : FfOn(d, FfChain(g))
        <5>1. PICK g \in FfFiles : FfOn(d, FfChain(g))
          BY <4>3
        <5>2. CASE g = f
          <6>1. FfChain(f) = s
            BY <1>7, <5>1, <5>2 DEF FfOn
          <6> QED BY <1>1, <1>2, <5>1, <5>2, <6>1
        <5>3. CASE g # f
          BY <2>2, <5>1, <5>3
        <5> QED BY <5>2, <5>3
      <4> QED BY <4>1, <4>2, <4>3
    <3>3. FfChain(ffCall.f)' = ffCall'.chain
      BY <1>1, <1>2, <1>11, <2>2
    <3>4. ffCall' # FfNone
      BY <1>1
    <3> QED BY <1>13, <3>1, <3>2, <3>3, <3>4 DEF FfAllKept
  <2> QED BY <1>6, <1>8, <1>10, <2>1, <2>3, <2>4 DEF FfInv
<1> QED BY <1>5, <1>14, <1>15 DEF FfMayWrite

LEMMA FfWriteStep ==
    ASSUME FfInv, FfWrite PROVE FfInv'
<1>1. ffTodo # << >> /\ ffCall # FfNone
  BY DEF FfWrite, FfInv, FfShape
<1>2. ffCall.at \in {"grow", "write"}
  BY <1>1, FfCallIs
<1> QED BY <1>1, <1>2, FfGrowWrite, FfLateWrite

(* What a round of the growth loop writes next.                            *)
LEMMA FfRoundHead ==
    ASSUME FfInv, ffCall # FfNone, ffCall.at = "grow", ffTodo # << >>
    PROVE  LET w == Head(ffTodo)
               s == ffCall.chain
               c == Last(s)
           IN  \/ w = FfClean(c) /\ Len(ffTodo) = 1
               \/ w \in {FfMark(2, c), FfLink(2, s[Len(s) - 1], c)} /\ Len(ffTodo) > 1
               \/ w = FfMark(1, c) /\ Len(ffTodo) >= 3
               \/ w = FfLink(1, s[Len(s) - 1], c) /\ Len(ffTodo) = 3 /\ Len(s) > 1
<1> DEFINE s == ffCall.chain
           c == Last(s)
           p == s[Len(s) - 1]
           m1 == FfMark(1, c)
           m2 == FfMark(2, c)
           l1 == FfLink(1, p, c)
           l2 == FfLink(2, p, c)
           z == FfClean(c)
           w == Head(ffTodo)
<1>1. FfRound /\ c = s[Len(s)]
  BY FfInHand DEF FfInv, FfShape
<1>2. \/ ffTodo = <<z>>
      \/ ffTodo = <<m2, z>>
      \/ ffTodo = <<m1, m2, z>>
      \/ ffTodo = <<l2, z>>
      \/ Len(s) > 1 /\ ffTodo = <<l1, l2, z>>
      \/ ffTodo = <<m2, l1, l2, z>>
      \/ ffTodo = <<m1, m2, l1, l2, z>>
  BY <1>1 DEF FfRound
<1> HIDE DEF m1, m2, l1, l2, z, s, c, p
<1> DEFINE Q == \/ w = z /\ Len(ffTodo) = 1
                \/ w \in {m2, l2} /\ Len(ffTodo) > 1
                \/ w = m1 /\ Len(ffTodo) >= 3
                \/ w = l1 /\ Len(ffTodo) = 3 /\ Len(s) > 1
<1>3. ASSUME ffTodo = <<z>> PROVE Q
  <2>1. w = z /\ Len(ffTodo) = 1
    BY <1>3
  <2> QED BY <2>1
<1>4. ASSUME ffTodo = <<m2, z>> \/ ffTodo = <<l2, z>> PROVE Q
  <2>1. w \in {m2, l2} /\ Len(ffTodo) = 2
    BY <1>4
  <2> QED BY <2>1
<1>5. ASSUME ffTodo = <<m1, m2, z>> PROVE Q
  <2>1. w = m1 /\ Len(ffTodo) = 3
    BY <1>5
  <2> QED BY <2>1
<1>6. ASSUME Len(s) > 1, ffTodo = <<l1, l2, z>> PROVE Q
  <2>1. w = l1 /\ Len(ffTodo) = 3
    BY <1>6
  <2> QED BY <1>6, <2>1
<1>7. ASSUME ffTodo = <<m2, l1, l2, z>> PROVE Q
  <2>1. w = m2 /\ Len(ffTodo) = 4
    BY <1>7
  <2> QED BY <2>1
<1>8. ASSUME ffTodo = <<m1, m2, l1, l2, z>> PROVE Q
  <2>1. w = m1 /\ Len(ffTodo) = 5
    BY <1>8
  <2> QED BY <2>1
<1>9. Q
  <2> HIDE DEF Q
  <2> QED BY <1>2, <1>3, <1>4, <1>5, <1>6, <1>7, <1>8
<1> QED BY <1>9 DEF m1, m2, l1, l2, z, s, c, p

(* Whatever the write that is cut short did to its sector, the chains hold.*)
LEMMA FfWriteKeepsFiles ==
    ASSUME FfInv, ffTodo # << >>, FfPerform(Head(ffTodo))
    PROVE  FfFilesOk'
<1> DEFINE w == Head(ffTodo)
           s == ffCall.chain
           c == Last(s)
<1>1. ffCall # FfNone /\ ffCall.at \in {"grow", "write"} /\ s \in Seq(FfClusters) /\ Len(s) \in Nat
  <2>1. ffCall # FfNone
    BY DEF FfInv, FfShape
  <2> QED BY <2>1, FfCallIs
<1>2. ffTodo \in Seq(FfWrites) /\ w \in FfWrites /\ w = ffTodo[1] /\ 1 \in 1 .. Len(ffTodo)
  <2>1. ffTodo \in Seq(FfWrites)
    BY DEF FfInv, FfTypeOK
  <2> QED BY <2>1, HeadTailProperties, EmptySeq
<1>3. CASE w.k \in {"data", "hint"} \/ (w.k = "fat" /\ w.copy = 2)
  BY <1>2, <1>3, FfQuietWrite
<1>4. CASE ffCall.at = "write"
  <2>1. FfMayWrite(w, 1 = Len(ffTodo))
    BY <1>1, <1>2, <1>4 DEF FfInv, FfShape
  <2>2. \/ w.k \in {"data", "hint"}
        \/ w = FfEntry(ffCall.f, FfFirst(s), ffCall.off + ffCall.len) /\ FfGrownTo <= Len(s)
    BY <2>1 DEF FfMayWrite
  <2> QED BY <1>1, <1>3, <1>4, <2>2, FfEnterIt
<1>5. CASE ffCall.at = "grow"
  <2> DEFINE p == s[Len(s) - 1]
             m1 == FfMark(1, c)
             m2 == FfMark(2, c)
             l1 == FfLink(1, p, c)
             l2 == FfLink(2, p, c)
             z == FfClean(c)
  <2>1. /\ z.k = "data" /\ m2.k = "fat" /\ m2.copy = 2 /\ l2.k = "fat" /\ l2.copy = 2
    BY DEF FfMark, FfLink, FfClean
  <2>2. \/ w \in {z, m2, l2}
        \/ w = m1 /\ Len(ffTodo) >= 3
        \/ w = l1 /\ Len(ffTodo) = 3 /\ Len(s) > 1
    BY <1>1, <1>5, FfRoundHead
  <2>3. CASE w \in {z, m2, l2}
    BY <1>3, <2>1, <2>3
  <2>4. CASE w = m1 /\ Len(ffTodo) >= 3
    BY <1>1, <1>5, <2>4, FfMarkIt
  <2>5. CASE w = l1 /\ Len(ffTodo) = 3 /\ Len(s) > 1
    BY <1>1, <1>5, <2>5, FfLinkIt
  <2> QED BY <2>2, <2>3, <2>4, <2>5
<1> QED BY <1>1, <1>4, <1>5

LEMMA FfStopsStep ==
    ASSUME FfInv, FfStops PROVE FfInv'
<1>1. /\ ffTodo # << >> /\ ffTodo' = << >> /\ ffHurt' = TRUE
      /\ ffCall' = [ffCall EXCEPT !.at = "write"] /\ ffCount' = ffCount
      /\ FfPerform(Head(ffTodo)) \/ UNCHANGED <<ffFat, ffData, ffDir, ffHint>>
  BY DEF FfStops
<1>2. ffCall # FfNone
  BY <1>1 DEF FfInv, FfShape
<1>3. /\ ffCall' \in FfCallKinds /\ ffCall'.at = "write" /\ ffCall'.had = ffCall.had
      /\ ffCall'.chain = ffCall.chain /\ ffCount < FfCalls /\ ffCall.had <= Len(ffCall.chain)
  BY <1>1, <1>2, FfCallIs DEF FfCallKinds
<1>4. FfTypeOK'
  <2>1. << >> \in Seq(FfWrites) /\ TRUE \in BOOLEAN
    OBVIOUS
  <2> QED BY <1>1, <1>3, <2>1, FfWriteTypes
<1>5. FfFilesOk'
  <2>1. CASE FfPerform(Head(ffTodo))
    BY <1>1, <2>1, FfWriteKeepsFiles
  <2>2. CASE UNCHANGED <<ffFat, ffData, ffDir, ffHint>>
    BY <2>2, FfFilesStay
  <2> QED BY <1>1, <2>1, <2>2
<1>6. ~FfLive'
  BY <1>1, <1>3 DEF FfLive
<1>7. FfHeld' /\ FfLoose'
  BY <1>3, <1>6 DEF FfHeld, FfLoose
<1>8. FfShape'
  <2>1. Len(ffTodo') = 0
    BY <1>1
  <2> QED BY <1>1, <1>3, <2>1 DEF FfShape
<1>9. FfAllKept'
  BY <1>1 DEF FfAllKept
<1> QED BY <1>4, <1>5, <1>7, <1>8, <1>9 DEF FfInv

LEMMA FfReturnStep ==
    ASSUME FfInv, FfReturn PROVE FfInv'
<1>1. /\ ffCall # FfNone /\ ffCall.at = "write" /\ ffTodo = << >> /\ ffTodo' = ffTodo
      /\ ffCall' = FfNone /\ ffCount' = ffCount + 1 /\ ffHurt' = ffHurt
      /\ ffFat' = ffFat /\ ffData' = ffData /\ ffDir' = ffDir /\ ffHint' = ffHint
  BY DEF FfReturn
<1>2. ffCount < FfCalls /\ ffCall.f \in FfFiles
  BY <1>1, FfCallIs
<1>3. FfTypeOK'
  BY <1>1, <1>2, FfConstants DEF FfInv, FfTypeOK
<1>4. FfFilesOk' /\ \A g \in FfFiles : FfChain(g)' = FfChain(g)
  BY <1>1, FfFilesStay
<1>5. FfHeld' /\ FfLoose' /\ FfShape'
  BY <1>1 DEF FfHeld, FfLoose, FfShape, FfLive
<1>6. FfAllKept'
  <2> SUFFICES ASSUME ~ffHurt PROVE FfAllKept'
    BY <1>1 DEF FfAllKept
  <2>1. /\ ffFat[1] = ffFat[2] /\ FfChain(ffCall.f) = ffCall.chain
        /\ \A d \in FfClusters : ffFat[1][d] # FfFree =>
              (\E g \in FfFiles : FfOn(d, FfChain(g))) \/ FfOn(d, ffCall.chain)
    BY <1>1 DEF FfInv, FfAllKept
  <2>2. \A d \in FfClusters : ffFat'[1][d] # FfFree => \E g \in FfFiles : FfOn(d, FfChain(g)')
    BY <1>1, <1>2, <1>4, <2>1
  <2> QED BY <1>1, <2>1, <2>2 DEF FfAllKept
<1> QED BY <1>3, <1>4, <1>5, <1>6 DEF FfInv

LEMMA FfStutter ==
    ASSUME FfInv, UNCHANGED ffVars PROVE FfInv'
<1>1. /\ ffFat' = ffFat /\ ffData' = ffData /\ ffDir' = ffDir /\ ffHint' = ffHint
      /\ ffTodo' = ffTodo /\ ffCall' = ffCall /\ ffCount' = ffCount /\ ffHurt' = ffHurt
  BY DEF ffVars
<1>2. FfTypeOK'
  BY <1>1 DEF FfInv, FfTypeOK
<1>3. FfFilesOk' /\ \A g \in FfFiles : FfChain(g)' = FfChain(g)
  BY <1>1, FfFilesStay
<1>4. FfBase' = FfBase /\ FfLive' = FfLive /\ FfChain(ffCall.f)' = FfChain(ffCall.f)
  BY <1>1 DEF FfBase, FfLive, FfChain, FfClus
<1>5. FfHeld'
  BY <1>1, <1>3, <1>4 DEF FfInv, FfHeld
<1>6. FfLoose'
  BY <1>1, <1>3, <1>4 DEF FfInv, FfLoose
<1>7. FfShape'
  BY <1>1 DEF FfInv, FfShape, FfRound, FfMayWrite, FfGrownTo
<1>8. FfAllKept'
  BY <1>1, <1>3, <1>4 DEF FfInv, FfAllKept
<1> QED BY <1>2, <1>3, <1>5, <1>6, <1>7, <1>8 DEF FfInv

LEMMA FfInitInv == FfInit => FfInv
<1> SUFFICES ASSUME FfInit PROVE FfInv
  OBVIOUS
<1>1. \A f \in FfFiles : ffDir[f] = FfNone /\ FfClus(f) = 0 /\ FfSize(f) = 0
  BY DEF FfInit, FfClus, FfSize
<1>2. ASSUME NEW f \in FfFiles PROVE FfChain(f) = << >> /\ FfChainOk(<< >>, ffFat[1], FfClus(f))
  <2>1. FfClus(f) \notin FfClusters
    BY <1>1, FfConstants
  <2>2. FfChainOk(<< >>, ffFat[1], FfClus(f))
    BY <2>1, FfNoChain
  <2> QED BY <2>2, FfChainIs DEF FfChain
<1>3. FfTypeOK
  <2>1. FfBlank \in [FfUnits -> 0 .. FfCalls] /\ 0 \in 0 .. FfCalls
    BY FfConstants DEF FfBlank
  <2>2. << >> \in Seq(FfWrites)
    OBVIOUS
  <2> QED BY <2>1, <2>2 DEF FfInit, FfTypeOK, FfEntries
<1>4. FfFilesOk
  <2>1. FfSectors(0) = 0 /\ Len(<< >>) = 0
    BY FfSectorsOf
  <2>2. FfApart(<< >>, << >>)
    BY DEF FfApart, FfOn
  <2> QED BY <1>1, <1>2, <2>1, <2>2 DEF FfFilesOk
<1>5. FfHeld /\ FfLoose /\ FfShape
  BY DEF FfInit, FfHeld, FfLoose, FfShape, FfLive
<1>6. FfAllKept
  BY DEF FfInit, FfAllKept
<1> QED BY <1>3, <1>4, <1>5, <1>6 DEF FfInv

LEMMA FfInvStep ==
    ASSUME "walk" \notin FfFaults, FfInv, [FfNext]_ffVars PROVE FfInv'
<1>1. CASE FfGrow
  BY <1>1, FfGrowFull, FfGrowTakes
<1>2. CASE UNCHANGED ffVars
  BY <1>2, FfStutter
<1>3. CASE \E f \in FfFiles : FfCalled(f)
  BY <1>3, FfCalledStep
<1>4. CASE FfFill
  BY <1>4, FfFillStep
<1>5. CASE FfWrite
  BY <1>5, FfWriteStep
<1>6. CASE FfReturn
  BY <1>6, FfReturnStep
<1>7. CASE FfStops
  BY <1>7, FfStopsStep
<1> QED BY <1>1, <1>2, <1>3, <1>4, <1>5, <1>6, <1>7 DEF FfNext

THEOREM FfInvAlways ==
    ASSUME "walk" \notin FfFaults PROVE FfSpec => []FfInv
<1>1. FfInv /\ [FfNext]_ffVars => FfInv'
  BY FfInvStep
<1> QED BY <1>1, FfInitInv, PTL DEF FfSpec

(* Every variable of the volume keeps its type, whatever fails but the     *)
(* reading of the FAT.                                                     *)
THEOREM FfTypes ==
    ASSUME "walk" \notin FfFaults PROVE FfSpec => []FfTypeOK
<1>1. FfInv => FfTypeOK
  BY DEF FfInv
<1> QED BY <1>1, FfInvAlways, PTL

(* FfChainsApart: as long as the FAT can be read, every chain ends, covers *)
(* the size of its file and shares no cluster, between any two sector      *)
(* writes of any call and after any that was cut short.                    *)
THEOREM FfNeverCross ==
    ASSUME "walk" \notin FfFaults PROVE FfSpec => []FfChainsApart
<1>1. ASSUME FfInv PROVE FfChainsApart
  <2>1. ASSUME NEW f \in FfFiles
        PROVE  /\ Len(FfChain(f)) >= FfSectors(FfSize(f)) /\ IsInjective(FfChain(f))
               /\ FfChain(f) # << >> => ffFat[1][Last(FfChain(f))] = FfEnd
    <3>1. /\ FfChainOk(FfChain(f), ffFat[1], FfClus(f))
          /\ FfSectors(FfSize(f)) <= Len(FfChain(f))
      BY <1>1 DEF FfInv, FfFilesOk
    <3>2. FfSectors(FfSize(f)) \in Nat
      BY <1>1, FfTyped, FfSectorsOf DEF FfInv
    <3>3. /\ FfChain(f) \in Seq(FfClusters) /\ Len(FfChain(f)) \in Nat
          /\ DOMAIN FfChain(f) = 1 .. Len(FfChain(f))
      BY <3>1, LenProperties DEF FfChainOk
    <3>4. IsInjective(FfChain(f))
      BY <3>1, <3>3 DEF FfChainOk, IsInjective
    <3>5. FfChain(f) # << >> => ffFat[1][Last(FfChain(f))] = FfEnd
      BY <3>1, <3>3, FfFrontOf DEF FfChainOk
    <3> QED BY <3>1, <3>2, <3>3, <3>4, <3>5
  <2>2. ASSUME NEW f \in FfFiles, NEW g \in FfFiles, f # g
        PROVE  ToSet(FfChain(f)) \cap ToSet(FfChain(g)) = {}
    <3>1. FfApart(FfChain(f), FfChain(g))
      BY <1>1, <2>2 DEF FfInv, FfFilesOk
    <3>2. \A h \in FfFiles : /\ FfChain(h) \in Seq(FfClusters)
                             /\ DOMAIN FfChain(h) = 1 .. Len(FfChain(h))
      BY <1>1, LenProperties DEF FfInv, FfFilesOk, FfChainOk
    <3>3. \A h \in FfFiles : \A d \in ToSet(FfChain(h)) : d \in FfClusters /\ FfOn(d, FfChain(h))
      BY <3>2, ElementOfSeq DEF ToSet, FfOn
    <3> QED BY <3>1, <3>3 DEF FfApart
  <2> QED BY <2>1, <2>2 DEF FfChainsApart
<1> QED BY <1>1, FfInvAlways, PTL

(* FfNothingLost: clusters are lost, and the copies of the FAT differ,     *)
(* only through a call that failed, was cut short or found the volume full.*)
THEOREM FfNeverLeaks ==
    ASSUME "walk" \notin FfFaults PROVE FfSpec => []FfNothingLost
<1>1. ASSUME FfInv PROVE FfNothingLost
  <2> SUFFICES ASSUME ffCall = FfNone, ~ffHurt
               PROVE  /\ ffFat[1] = ffFat[2]
                      /\ \A c \in FfClusters :
                            ffFat[1][c] # FfFree => \E f \in FfFiles : c \in ToSet(FfChain(f))
    BY DEF FfNothingLost
  <2>1. ffTodo = << >>
    BY <1>1 DEF FfInv, FfShape
  <2>2. /\ ffFat[1] = ffFat[2]
        /\ \A c \in FfClusters : ffFat[1][c] # FfFree => \E f \in FfFiles : FfOn(c, FfChain(f))
    BY <1>1, <2>1 DEF FfInv, FfAllKept
  <2>3. \A f \in FfFiles : DOMAIN FfChain(f) = 1 .. Len(FfChain(f))
    BY <1>1, LenProperties DEF FfInv, FfFilesOk, FfChainOk
  <2>4. \A f \in FfFiles, c \in FfClusters : FfOn(c, FfChain(f)) => c \in ToSet(FfChain(f))
    BY <2>3 DEF FfOn, ToSet
  <2> QED BY <2>2, <2>4
<1> QED BY <1>1, FfInvAlways, PTL

-----------------------------------------------------------------------------
(* What the files hold, on top of FfInv.                                   *)

(* Unit p of a file with these clusters, from 0.                           *)
FfAt(chain, p) == ffData[chain[1 + p \div FfUnit]][p % FfUnit]

(* A write of data writes what the call gives where the call writes, and   *)
(* before it, and behind it when it does not zero, what is there already.  *)
FfFits(w, chain, off, len, zero) ==
    \A p \in Nat :
        p \div FfUnit < Len(chain) /\ chain[1 + p \div FfUnit] = w.c =>
            /\ p \in off .. off + len - 1 => w.units[p % FfUnit] = ffCount + 1
            /\ p < off \/ (~zero /\ p >= off + len) => w.units[p % FfUnit] = FfAt(chain, p)

FfReached(writes, chain, p) ==
    \E i \in 1 .. Len(writes) : writes[i].k = "data" /\ writes[i].c = chain[1 + p \div FfUnit]

(* What is not written yet, of what the call writes before the entry, has  *)
(* a write to come.                                                        *)
FfComing(writes, chain, off, len, kind) ==
    /\ \A i \in 1 .. Len(writes) :
          writes[i].k = "data" => FfFits(writes[i], chain, off, len, kind # "patch")
    /\ kind = "create" => \A i \in 1 .. Len(writes) : writes[i].k # "data"
    /\ IF kind = "patch" THEN \A i \in 1 .. Len(writes) : writes[i].k # "dir"
       ELSE /\ FfSectors(off + len) <= Len(chain)
            /\ \A p \in off .. off + len - 1 :
                  \/ FfAt(chain, p) = IF kind = "create" THEN 0 ELSE ffCount + 1
                  \/ FfReached(writes, chain, p)

FfPending == FfComing(ffTodo, ffCall.chain, ffCall.off, ffCall.len, ffCall.kind)

(* The clusters of a new file are blank, but for the one in hand.          *)
FfBlanked ==
    ffCall.kind = "create" =>
        \A j \in 1 .. Len(ffCall.chain) :
            ffTodo = << >> \/ j < Len(ffCall.chain) => ffData[ffCall.chain[j]] = FfBlank

(* Before the entry is written, the file is as the call found it, but for  *)
(* what a rewrite and a patch write in place.                              *)
FfAsFound(old, new) ==
    CASE ffCall.kind = "rewrite" -> Len(new) = Len(old)
      [] ffCall.kind = "patch" -> Len(new) = Len(old) /\ \A i \in 1 .. Len(old) :
                                      i # ffCall.off + 1 => new[i] = old[i]
      [] OTHER -> new = old /\ FfSize(ffCall.f) = ffCall.off

FfBefore ==
    /\ FfAsFound(ffWas[ffCall.f], FfRead(ffCall.f))
    /\ ffCall.kind = "patch" => ffCall.len = 1
    /\ ffCall.kind \in {"create", "rewrite"} => ffCall.off = 0
    /\ ffCall.at = "grow" =>
          /\ FfSectors(ffCall.off) <= ffCall.had /\ FfBlanked
          /\ ffTodo # << >> => ffCall.had < Len(ffCall.chain)
    /\ ffCall.at = "write" /\ ffTodo # << >> => FfPending

(* After it, the call is seen whole.                                       *)
FfAfter ==
    /\ ffCall.at = "write" /\ ffTodo = << >>
    /\ FfMayRead(ffWas[ffCall.f], FfRead(ffCall.f))

FfContent ==
    ffCall # FfNone =>
        /\ \A g \in FfFiles : g # ffCall.f => FfRead(g) = ffWas[g]
        /\ FfBefore \/ FfAfter

LEMMA FfDivMod ==
    ASSUME NEW p \in Nat
    PROVE  p \div FfUnit \in Nat /\ p % FfUnit \in FfUnits /\ FfUnit * (p \div FfUnit) + (p % FfUnit) = p
<1>1. FfUnit \in Nat /\ FfUnit >= 1
  BY FfConstants
<1>2. p \div FfUnit \in Nat /\ p % FfUnit \in 0 .. FfUnit - 1
  BY <1>1
<1>3. FfUnit * (p \div FfUnit) + (p % FfUnit) = p
  BY <1>1
<1> QED BY <1>2, <1>3 DEF FfUnits

(* What reading a file returns, unit by unit.                              *)
LEMMA FfReadIs ==
    ASSUME FfInv, NEW g \in FfFiles
    PROVE  /\ FfSize(g) \in Nat /\ Len(FfRead(g)) = FfSize(g) /\ FfRead(g) \in Seq(0 .. FfCalls)
           /\ \A i \in 1 .. FfSize(g) : FfRead(g)[i] = FfAt(FfChain(g), i - 1)
<1> DEFINE n == FfSize(g)
           s == FfChain(g)
<1>1. n \in Nat /\ FfTypeOK /\ FfSectors(n) <= Len(s) /\ s \in Seq(FfClusters)
  BY FfTyped DEF FfInv, FfFilesOk, FfChainOk
<1>2. FfRead(g) = [i \in 1 .. n |-> FfAt(s, i - 1)]
  BY DEF FfRead, FfUnitsOf, FfAt
<1>3. ASSUME NEW i \in 1 .. n PROVE FfAt(s, i - 1) \in 0 .. FfCalls
  <2>1. i - 1 \in Nat /\ i - 1 < n
    BY <1>1
  <2>2. (i - 1) \div FfUnit \in Nat /\ (i - 1) \div FfUnit + 1 <= FfSectors(n) /\ FfSectors(n) \in Nat
    BY <1>1, <2>1, FfSectorsOf
  <2>3. (i - 1) % FfUnit \in FfUnits
    BY <2>1, FfDivMod
  <2> DEFINE j == 1 + (i - 1) \div FfUnit
  <2>4. j \in 1 .. Len(s)
    <3> HIDE DEF n, s
    <3>1. Len(s) \in Nat
      BY <1>1
    <3> QED BY <1>1, <2>2, <3>1
  <2> HIDE DEF j, s
  <2>5. s[j] \in FfClusters
    BY <1>1, <2>4, ElementOfSeq
  <2>6. ffData[s[j]][(i - 1) % FfUnit] \in 0 .. FfCalls
    BY <1>1, <2>3, <2>5 DEF FfTypeOK
  <2> QED BY <2>6 DEF FfAt, j
<1> HIDE DEF n, s
<1>4. [i \in 1 .. n |-> FfAt(s, i - 1)] \in Seq(0 .. FfCalls)
  BY <1>1, <1>3
<1> QED BY <1>1, <1>2, <1>4 DEF n, s

(* It is the same as long as the size is, and each unit of it.             *)
LEMMA FfReadStays ==
    ASSUME NEW g \in FfFiles, FfSize(g)' = FfSize(g), FfSize(g) \in Nat,
           \A p \in Nat : p < FfSize(g) => FfAt(FfChain(g), p)' = FfAt(FfChain(g), p)
    PROVE  FfRead(g)' = FfRead(g)
<1> DEFINE n == FfSize(g)
<1>1. FfRead(g) = [i \in 1 .. n |-> FfAt(FfChain(g), i - 1)]
  BY DEF FfRead, FfUnitsOf, FfAt
<1>2. FfRead(g)' = [i \in 1 .. n |-> FfAt(FfChain(g), i - 1)']
  BY DEF FfRead, FfUnitsOf, FfAt
<1>3. \A i \in 1 .. n : i - 1 \in Nat /\ i - 1 < n
  OBVIOUS
<1>4. \A i \in 1 .. n : FfAt(FfChain(g), i - 1)' = FfAt(FfChain(g), i - 1)
  BY <1>3
<1> HIDE DEF n
<1> QED BY <1>1, <1>2, <1>4

(* Or its clusters, and what is in them.                                   *)
LEMMA FfReadSame ==
    ASSUME FfInv, NEW g \in FfFiles, FfSize(g)' = FfSize(g),
           \A j \in 1 .. FfSectors(FfSize(g)) :
              /\ FfChain(g)'[j] = FfChain(g)[j]
              /\ ffData'[FfChain(g)[j]] = ffData[FfChain(g)[j]]
    PROVE  FfRead(g)' = FfRead(g)
<1> DEFINE n == FfSize(g)
<1>1. n \in Nat
  BY FfTyped DEF FfInv
<1>2. ASSUME NEW p \in Nat, p < n PROVE FfAt(FfChain(g), p)' = FfAt(FfChain(g), p)
  <2>1. p \div FfUnit \in Nat /\ p \div FfUnit + 1 <= FfSectors(n) /\ FfSectors(n) \in Nat
    BY <1>1, <1>2, FfSectorsOf
  <2> DEFINE j == 1 + p \div FfUnit
  <2>2. j \in 1 .. FfSectors(n)
    <3> HIDE DEF n
    <3> QED BY <2>1
  <2>3. FfChain(g)'[j] = FfChain(g)[j] /\ ffData'[FfChain(g)[j]] = ffData[FfChain(g)[j]]
    BY <2>2
  <2> QED BY <2>3 DEF FfAt
<1> HIDE DEF n
<1> QED BY <1>1, <1>2, FfReadStays DEF n

(* Where write_range writes.                                               *)
LEMMA FfRangePlaces ==
    ASSUME NEW off \in Nat, NEW len \in Nat, NEW first, first = off \div FfUnit, NEW last,
           last = IF len = 0 THEN first - 1 ELSE (off + len - 1) \div FfUnit
    PROVE  /\ first \in Nat /\ last \in Int /\ last - first + 1 \in Nat
           /\ last + 1 <= FfSectors(off + len) /\ FfSectors(off + len) \in Nat
           /\ \A p \in off .. off + len - 1 : p \div FfUnit \in first .. last
<1>1. FfSectors(off + len) \in Nat
  BY FfSectorsOf
<1>2. first \in Nat
  BY FfDivMono
<1>3. CASE len = 0
  <2>1. last = first - 1 /\ off .. off + len - 1 = {}
    BY <1>3
  <2>2. first <= FfSectors(off + len)
    <3>1. off + len + FfUnit - 1 \in Nat /\ off <= off + len + FfUnit - 1
      BY FfConstants
    <3>2. off \div FfUnit <= (off + len + FfUnit - 1) \div FfUnit
      BY <3>1, FfDivMono
    <3> QED BY <3>2 DEF FfSectors
  <2> QED BY ONLY <1>1, <1>2, <2>1, <2>2
<1>4. CASE len # 0
  <2>1. off + len - 1 \in Nat /\ off <= off + len - 1 /\ off + len \in Nat
        /\ off + len - 1 < off + len
    BY <1>4
  <2>2. last = (off + len - 1) \div FfUnit
    BY <1>4
  <2>3. last \in Nat /\ first <= last
    BY <2>1, <2>2, FfDivMono
  <2>4. last + 1 <= FfSectors(off + len)
    BY <2>1, <2>2, FfSectorsOf
  <2>5. ASSUME NEW p \in off .. off + len - 1 PROVE p \div FfUnit \in first .. last
    <3>1. p \in Nat /\ off <= p /\ p <= off + len - 1
      OBVIOUS
    <3>2. p \div FfUnit \in Nat /\ off \div FfUnit <= p \div FfUnit
      BY <3>1, FfDivMono
    <3>3. p \div FfUnit <= (off + len - 1) \div FfUnit
      BY <2>1, <3>1, FfDivMono
    <3> QED BY <1>2, <2>2, <2>3, <3>2, <3>3
  <2> QED BY ONLY <1>1, <1>2, <2>3, <2>4, <2>5
<1> QED BY <1>3, <1>4

(* What it writes there, and that it leaves nothing out.                   *)
FfRanged(r, chain, off, len, zero) ==
    /\ \A i \in 1 .. Len(r) : r[i].k = "data" /\ FfFits(r[i], chain, off, len, zero)
    /\ \A p \in off .. off + len - 1 : FfReached(r, chain, p)

LEMMA FfRangeGives ==
    ASSUME FfTypeOK, ffCount < FfCalls, NEW chain \in Seq(FfClusters),
           \A i, j \in 1 .. Len(chain) : chain[i] = chain[j] => i = j,
           NEW off \in Nat, NEW len \in Nat, NEW zero \in BOOLEAN,
           FfSectors(off + len) <= Len(chain)
    PROVE  FfRanged(FfRange(chain, off, len, zero), chain, off, len, zero)
<1>0. PICK r : r = FfRange(chain, off, len, zero)
  OBVIOUS
<1> DEFINE first == off \div FfUnit
           last == IF len = 0 THEN first - 1 ELSE (off + len - 1) \div FfUnit
           n == last - first + 1
           at(i, u) == (first + i - 1) * FfUnit + u
           units(i) == [u \in FfUnits |->
                          IF at(i, u) \in off .. off + len - 1 THEN ffCount + 1
                          ELSE IF at(i, u) < off \/ ~zero THEN ffData[chain[first + i]][u] ELSE 0]
           e(i) == [k |-> "data", c |-> chain[first + i], units |-> units(i)]
<1>1. r = [i \in 1 .. n |-> e(i)]
  BY <1>0 DEF FfRange
<1>2. /\ first \in Nat /\ last \in Int /\ n \in Nat /\ last + 1 <= FfSectors(off + len)
      /\ FfSectors(off + len) \in Nat
      /\ \A p \in off .. off + len - 1 : p \div FfUnit \in first .. last
  BY FfRangePlaces
<1>3. /\ Len(r) = n /\ \A i \in 1 .. n : r[i] = e(i)
  <2> HIDE DEF e, n
  <2> QED BY <1>1, <1>2
<1>4. \A i \in 1 .. n : r[i].c = chain[first + i] /\ r[i].units = units(i) /\ r[i].k = "data"
  <2> HIDE DEF units, n
  <2> QED BY <1>3
<1>5. \A i \in 1 .. n : first + i \in 1 .. Len(chain)
  <2>1. Len(chain) \in Nat
    OBVIOUS
  <2> HIDE DEF first, last
  <2> QED BY <1>2, <2>1
<1>6. ASSUME NEW i \in 1 .. n, NEW p \in Nat, p \div FfUnit < Len(chain),
             chain[1 + p \div FfUnit] = r[i].c
      PROVE  /\ p \in off .. off + len - 1 => r[i].units[p % FfUnit] = ffCount + 1
             /\ p < off \/ (~zero /\ p >= off + len) => r[i].units[p % FfUnit] = FfAt(chain, p)
  <2>1. /\ p \div FfUnit \in Nat /\ p % FfUnit \in FfUnits
        /\ FfUnit * (p \div FfUnit) + (p % FfUnit) = p
    BY FfDivMod
  <2>2. 1 + p \div FfUnit = first + i
    <3>1. 1 + p \div FfUnit \in 1 .. Len(chain)
      <4>1. Len(chain) \in Nat
        OBVIOUS
      <4> QED BY <1>6, <2>1, <4>1
    <3>2. chain[1 + p \div FfUnit] = chain[first + i] /\ first + i \in 1 .. Len(chain)
      BY <1>4, <1>5, <1>6
    <3> HIDE DEF first, n
    <3> QED BY <3>1, <3>2
  <2>3. at(i, p % FfUnit) = p
    <3>1. first + i - 1 = p \div FfUnit
      <4>1. i \in Int
        OBVIOUS
      <4>2. first \in Nat /\ p \div FfUnit \in Nat
        BY <1>2, <2>1
      <4> DEFINE q == p \div FfUnit
      <4>3. 1 + q = first + i /\ q \in Nat
        BY <2>2, <4>2
      <4> HIDE DEF first, q
      <4>4. first + i - 1 = q
        BY ONLY <4>1, <4>2, <4>3
      <4> QED BY <4>4 DEF q
    <3>2. at(i, p % FfUnit) = (p \div FfUnit) * FfUnit + (p % FfUnit)
      BY <3>1
    <3>3. \A q \in Nat : q * FfUnit = FfUnit * q
      BY FfConstants
    <3>4. (p \div FfUnit) * FfUnit = FfUnit * (p \div FfUnit)
      BY <2>1, <3>3
    <3> HIDE DEF at
    <3> QED BY <2>1, <3>2, <3>4
  <2>4. r[i].units[p % FfUnit] =
           IF p \in off .. off + len - 1 THEN ffCount + 1
           ELSE IF p < off \/ ~zero THEN ffData[chain[first + i]][p % FfUnit] ELSE 0
    <3> DEFINE u == p % FfUnit
    <3> HIDE DEF at, first, n, u
    <3>1. units(i)[u] = IF at(i, u) \in off .. off + len - 1 THEN ffCount + 1
                        ELSE IF at(i, u) < off \/ ~zero THEN ffData[chain[first + i]][u] ELSE 0
      BY <2>1 DEF u
    <3>2. at(i, u) = p
      BY <2>3 DEF u
    <3>3. r[i].units = units(i)
      BY <1>4
    <3> HIDE DEF units
    <3> QED BY <3>1, <3>2, <3>3 DEF u
  <2>5. FfAt(chain, p) = ffData[chain[first + i]][p % FfUnit]
    BY <2>2 DEF FfAt
  <2> HIDE DEF first, n, units
  <2> QED BY <2>4, <2>5
<1>7. ASSUME NEW p \in off .. off + len - 1
      PROVE  \E i \in 1 .. n : r[i].c = chain[1 + p \div FfUnit]
  <2> DEFINE i == p \div FfUnit - first + 1
  <2>1. p \div FfUnit \in first .. last
    BY <1>2
  <2>2. i \in 1 .. n /\ first + i = 1 + p \div FfUnit
    <3> HIDE DEF first, last
    <3> QED BY <1>2, <2>1
  <2> HIDE DEF i, first, n
  <2> QED BY <1>4, <2>2
<1> HIDE DEF n
<1>8. \A i \in 1 .. n : FfFits(r[i], chain, off, len, zero)
  BY <1>6 DEF FfFits
<1>9. \A p \in off .. off + len - 1 : FfReached(r, chain, p)
  BY <1>3, <1>4, <1>7 DEF FfReached
<1> QED BY <1>0, <1>3, <1>4, <1>8, <1>9 DEF FfRanged

(* A call begins with a file as it finds it.                               *)
LEMMA FfContentBegins ==
    ASSUME FfInv, NEW kind \in {"append", "create", "rewrite", "patch"}, NEW f \in FfFiles,
           NEW off \in Nat, NEW len \in Nat, NEW at \in {"grow", "write"},
           NEW writes \in Seq(FfWrites), FfBegins(kind, f, off, len, FfChain(f), at, writes),
           kind \in {"append", "create"} => FfSize(f) = off,
           kind = "patch" => len = 1, kind \in {"create", "rewrite"} => off = 0,
           kind = "create" => Len(FfChain(f)) = 0,
           at = "grow" => Len(writes) = 0 /\ kind \in {"append", "create"},
           at = "write" => FfComing(writes, FfChain(f), off, len, kind)
    PROVE  FfContent'
<1> DEFINE s == FfChain(f)
           call == [kind |-> kind, f |-> f, off |-> off, len |-> len, chain |-> s,
                    had |-> Len(s), at |-> at]
<1>1. /\ ffCall' = call /\ ffTodo' = writes /\ ffWas' = [g \in FfFiles |-> FfRead(g)]
      /\ ffFat' = ffFat /\ ffData' = ffData /\ ffDir' = ffDir /\ ffCount' = ffCount
  BY DEF FfBegins
<1>2. call.kind = kind /\ call.f = f /\ call.off = off /\ call.len = len /\ call.chain = s
      /\ call.had = Len(s) /\ call.at = at
  OBVIOUS
<1>3. \A g \in FfFiles : FfRead(g)' = FfRead(g) /\ FfSize(g)' = FfSize(g)
  BY <1>1, FfStill DEF FfRead, FfUnitsOf
<1>4. s \in Seq(FfClusters) /\ Len(s) \in Nat /\ FfSectors(FfSize(f)) <= Len(s)
  BY DEF FfInv, FfFilesOk, FfChainOk
<1> HIDE DEF s, call
<1>5. \A g \in FfFiles : FfRead(g)' = ffWas'[g]
  BY <1>1, <1>3
<1>6. /\ ffCall'.f = f /\ FfRead(ffCall.f)' = FfRead(f)' /\ ffWas'[ffCall'.f] = ffWas'[f]
      /\ FfSize(ffCall.f)' = FfSize(f)'
  BY <1>1, <1>2 DEF FfRead, FfUnitsOf, FfChain, FfClus, FfSize
<1>7. FfAsFound(ffWas[ffCall.f], FfRead(ffCall.f))'
  BY <1>1, <1>2, <1>3, <1>5, <1>6 DEF FfAsFound
<1>8. at = "grow" => FfSectors(off) <= Len(s) /\ writes = << >> /\ FfBlanked'
  <2> SUFFICES ASSUME at = "grow" PROVE FfSectors(off) <= Len(s) /\ writes = << >> /\ FfBlanked'
    OBVIOUS
  <2>1. writes = << >>
    BY EmptySeq
  <2>2. kind = "create" => \A j \in 1 .. Len(s) : FALSE
    BY <1>4 DEF s
  <2> QED BY <1>1, <1>2, <1>4, <2>1, <2>2 DEF FfBlanked
<1>9. at = "write" => FfPending'
  <2> SUFFICES ASSUME at = "write" PROVE FfPending'
    OBVIOUS
  <2>1. PICK t : t = s
    OBVIOUS
  <2>2. /\ ffTodo' = writes /\ ffCall'.chain = t /\ ffCall'.off = off /\ ffCall'.len = len
        /\ ffCall'.kind = kind /\ ffData' = ffData /\ ffCount' = ffCount
    BY <1>1, <1>2, <2>1
  <2>3. FfComing(writes, t, off, len, kind)
    BY <2>1 DEF s
  <2> HIDE <2>1
  <2>4. FfComing(writes, t, off, len, kind)'
    BY <2>2, <2>3 DEF FfComing, FfFits, FfReached, FfAt, FfSectors
  <2> QED BY ONLY <2>2, <2>4 DEF FfPending, FfComing, FfFits, FfReached, FfAt, FfSectors
<1>10. FfBefore'
  BY <1>1, <1>2, <1>7, <1>8, <1>9 DEF FfBefore
<1> QED BY <1>5, <1>10 DEF FfContent

LEMMA FfContentGrows ==
    ASSUME FfInv, NEW kind \in {"append", "create"}, NEW f \in FfFiles, NEW off \in Nat,
           NEW len \in Nat, FfBegins(kind, f, off, len, FfChain(f), "grow", << >>),
           FfSize(f) = off, kind = "create" => off = 0 /\ Len(FfChain(f)) = 0
    PROVE  FfContent'
<1>1. PICK w, at : w = << >> /\ at = "grow"
  OBVIOUS
<1>2. w \in Seq(FfWrites) /\ Len(w) = 0 /\ at \in {"grow", "write"}
  BY <1>1
<1>3. /\ FfBegins(kind, f, off, len, FfChain(f), at, w) /\ at # "write"
      /\ kind # "patch" /\ kind # "rewrite" /\ kind \in {"append", "create", "rewrite", "patch"}
  BY <1>1
<1> HIDE <1>1
<1> QED BY <1>2, <1>3, FfContentBegins

LEMMA FfAppendContent ==
    ASSUME FfInv, "walk" \notin FfFaults, NEW f \in FfFiles, NEW len \in FfLens, FfAppend(f, len)
    PROVE  FfContent'
<1>1. FfBegins("append", f, FfSize(f), len, FfChain(f), "grow", << >>)
  BY DEF FfAppend, FfSeen
<1>2. len \in Nat /\ FfSize(f) \in Nat
  BY FfConstants, FfTyped DEF FfInv
<1> QED BY <1>1, <1>2, FfContentGrows

LEMMA FfCreateContent ==
    ASSUME FfInv, NEW f \in FfFiles, NEW len \in FfLens, FfCreate(f, len)
    PROVE  FfContent'
<1>1. FfChain(f) = << >> /\ Len(FfChain(f)) = 0 /\ FfSize(f) = 0
  <2>1. FfClus(f) = 0 /\ 0 \notin FfClusters
    BY FfConstants DEF FfCreate, FfClus
  <2>2. FfChain(f) = << >>
    BY <2>1 DEF FfInv, FfFilesOk, FfChainOk
  <2> QED BY <2>2 DEF FfCreate, FfSize
<1>2. FfBegins("create", f, 0, len, FfChain(f), "grow", << >>)
  BY <1>1 DEF FfCreate
<1>3. len \in Nat
  BY FfConstants
<1> QED BY <1>1, <1>2, <1>3, FfContentGrows

LEMMA FfRewriteContent ==
    ASSUME FfInv, NEW f \in FfFiles, NEW len \in FfLens, FfRewrite(f, len)
    PROVE  FfContent'
<1> DEFINE s == FfChain(f)
           r == FfRange(s, 0, len, TRUE)
           e == FfEntry(f, ffDir[f].clus, len)
<1>1. /\ ffDir[f] # FfNone /\ FfSectors(len) <= Len(s) /\ ffCount < FfCalls
      /\ FfBegins("rewrite", f, 0, len, s, "write", r \o <<e>>)
  BY DEF FfRewrite, FfBegins
<1>2. /\ s \in Seq(FfClusters) /\ FfTypeOK
      /\ \A i, j \in 1 .. Len(s) : s[i] = s[j] => i = j
  BY DEF FfInv, FfFilesOk, FfChainOk
<1>3. /\ len \in Nat /\ 0 + len = len /\ FfClus(f) = ffDir[f].clus
      /\ FfClus(f) \in FfClusters \cup {0}
  BY <1>1, <1>2, FfConstants, FfTyped DEF FfClus
<1>4. e \in FfWrites /\ e.k = "dir" /\ FfSectors(0 + len) <= Len(s)
  BY <1>1, <1>3, FfEntryWrite
<1> HIDE DEF s, e
<1>5. TRUE \in BOOLEAN /\ 0 \in Nat
  OBVIOUS
<1>6. r \in Seq(FfWrites)
  BY <1>1, <1>2, <1>3, <1>4, <1>5, FfRangeIs
<1>7. FfRanged(r, s, 0, len, TRUE)
  BY <1>1, <1>2, <1>3, <1>4, <1>5, FfRangeGives
<1> HIDE DEF r
<1> DEFINE w == r \o <<e>>
<1>8. /\ w \in Seq(FfWrites) /\ Len(w) = Len(r) + 1
      /\ \A i \in 1 .. Len(w) : \/ i \in 1 .. Len(r) /\ w[i] = r[i]
                                \/ i = Len(w) /\ w[i] = e
  BY <1>4, <1>6, FfThenEntry
<1>9. \A i \in 1 .. Len(r) : i \in 1 .. Len(w) /\ w[i] = r[i]
  <2>1. Len(r) \in Nat
    BY <1>6
  <2> HIDE DEF w
  <2> QED BY <1>8, <2>1
<1>10. FfBegins("rewrite", f, 0, len, s, "write", w)
  BY <1>1
<1> HIDE DEF w
<1>11. FfComing(w, s, 0, len, "rewrite")
  <2>1. ASSUME NEW i \in 1 .. Len(w), w[i].k = "data" PROVE FfFits(w[i], s, 0, len, TRUE)
    BY <1>4, <1>7, <1>8, <2>1 DEF FfRanged
  <2>2. ASSUME NEW p \in 0 .. 0 + len - 1 PROVE FfReached(w, s, p)
    <3>1. PICK i \in 1 .. Len(r) : r[i].k = "data" /\ r[i].c = s[1 + p \div FfUnit]
      BY <1>7 DEF FfReached, FfRanged
    <3> QED BY <1>9, <3>1 DEF FfReached
  <2>3. ("rewrite" # "patch") = TRUE /\ "rewrite" # "create"
    OBVIOUS
  <2> QED BY <1>4, <2>1, <2>2, <2>3 DEF FfComing
<1>12. PICK kind \in {"append", "create", "rewrite", "patch"}, at \in {"grow", "write"} :
          kind = "rewrite" /\ at = "write"
  OBVIOUS
<1>13. /\ FfBegins(kind, f, 0, len, FfChain(f), at, w) /\ FfComing(w, FfChain(f), 0, len, kind)
       /\ kind # "append" /\ kind # "create" /\ kind # "patch" /\ at # "grow" /\ 0 \in Nat
  BY <1>10, <1>11, <1>12 DEF s
<1> HIDE <1>12
<1> QED BY <1>3, <1>8, <1>13, FfContentBegins

LEMMA FfPatchContent ==
    ASSUME FfInv, NEW f \in FfFiles, NEW off \in 0 .. FfSize(f), FfPatch(f, off, 1)
    PROVE  FfContent'
<1> DEFINE s == FfChain(f)
           r == FfRange(s, off, 1, FALSE)
<1>1. /\ off + 1 <= FfSize(f) /\ ffCount < FfCalls
      /\ FfBegins("patch", f, off, 1, s, "write", r)
  BY DEF FfPatch, FfBegins
<1>2. /\ s \in Seq(FfClusters) /\ FfTypeOK /\ FfSectors(FfSize(f)) <= Len(s)
      /\ \A i, j \in 1 .. Len(s) : s[i] = s[j] => i = j
      /\ FfSize(f) \in Nat /\ off \in Nat /\ 1 \in Nat /\ FALSE \in BOOLEAN /\ Len(s) \in Nat
  BY FfTyped DEF FfInv, FfFilesOk, FfChainOk
<1> HIDE DEF s
<1>3. FfSectors(off + 1) <= Len(s)
  <2>1. /\ off + 1 + FfUnit - 1 \in Nat /\ FfSize(f) + FfUnit - 1 \in Nat
        /\ off + 1 + FfUnit - 1 <= FfSize(f) + FfUnit - 1 /\ off + 1 \in Nat
    BY <1>1, <1>2, FfConstants
  <2>2. FfSectors(off + 1) <= FfSectors(FfSize(f))
    BY <2>1, FfDivMono DEF FfSectors
  <2>3. FfSectors(off + 1) \in Nat /\ FfSectors(FfSize(f)) \in Nat
    BY <1>2, <2>1, FfSectorsOf
  <2> QED BY <1>2, <2>2, <2>3
<1>4. r \in Seq(FfWrites)
  BY <1>1, <1>2, <1>3, FfRangeIs
<1>5. FfRanged(r, s, off, 1, FALSE)
  BY <1>1, <1>2, <1>3, FfRangeGives
<1> HIDE DEF r
<1>6. FfComing(r, s, off, 1, "patch")
  <2>1. ("patch" # "patch") = FALSE /\ "patch" # "create"
    OBVIOUS
  <2> QED BY <1>5, <2>1 DEF FfComing, FfRanged
<1>7. PICK kind \in {"append", "create", "rewrite", "patch"}, at \in {"grow", "write"} :
         kind = "patch" /\ at = "write"
  OBVIOUS
<1>8. /\ FfBegins(kind, f, off, 1, FfChain(f), at, r) /\ FfComing(r, FfChain(f), off, 1, kind)
      /\ kind # "append" /\ kind # "create" /\ kind # "rewrite" /\ at # "grow"
  BY <1>1, <1>6, <1>7 DEF s
<1> HIDE <1>7
<1> QED BY <1>2, <1>4, <1>8, FfContentBegins

LEMMA FfCalledContent ==
    ASSUME FfInv, "walk" \notin FfFaults, NEW f \in FfFiles, FfCalled(f)
    PROVE  FfContent'
BY FfAppendContent, FfCreateContent, FfRewriteContent, FfPatchContent DEF FfCalled

(* A step that leaves what the files hold, and what the call is.           *)
LEMMA FfSeenSame ==
    ASSUME FfInv, FfContent, ffCall # FfNone, ffCall' # FfNone, ffCall'.f = ffCall.f,
           ffCall'.kind = ffCall.kind, ffCall'.off = ffCall.off, ffWas' = ffWas,
           \A g \in FfFiles : FfRead(g)' = FfRead(g) /\ FfSize(g)' = FfSize(g)
    PROVE  /\ \A g \in FfFiles : g # ffCall'.f => FfRead(g)' = ffWas'[g]
           /\ FfBefore => FfAsFound(ffWas[ffCall.f], FfRead(ffCall.f))'
<1>1. PICK f \in FfFiles : f = ffCall.f
  BY FfCallIs
<1>2. FfRead(ffCall.f) = FfRead(f) /\ FfSize(ffCall.f) = FfSize(f) /\ ffWas[ffCall.f] = ffWas[f]
  BY <1>1
<1>3. /\ FfRead(ffCall.f)' = FfRead(f)' /\ FfSize(ffCall.f)' = FfSize(f)'
      /\ ffWas'[ffCall'.f] = ffWas[f]
  BY <1>1 DEF FfRead, FfUnitsOf, FfChain, FfClus, FfSize
<1>4. FfRead(f)' = FfRead(f) /\ FfSize(f)' = FfSize(f)
  OBVIOUS
<1>5. FfBefore => FfAsFound(ffWas[ffCall.f], FfRead(ffCall.f))'
  <2> SUFFICES ASSUME FfBefore PROVE FfAsFound(ffWas[ffCall.f], FfRead(ffCall.f))'
    OBVIOUS
  <2>1. FfAsFound(ffWas[f], FfRead(f))
    BY <1>2 DEF FfBefore
  <2> QED BY <1>2, <1>3, <1>4, <2>1 DEF FfAsFound
<1>6. \A g \in FfFiles : g # ffCall'.f => FfRead(g)' = ffWas'[g]
  BY DEF FfContent
<1> QED BY <1>5, <1>6

(* Nothing on the volume changes.                                          *)
LEMMA FfReadsStill ==
    ASSUME ffFat' = ffFat, ffDir' = ffDir, ffData' = ffData
    PROVE  \A g \in FfFiles : FfRead(g)' = FfRead(g) /\ FfSize(g)' = FfSize(g)
BY FfStill DEF FfRead, FfUnitsOf

LEMMA FfGrowContent ==
    ASSUME FfInv, FfContent, FfGrow PROVE FfContent'
<1>1. /\ ffCall # FfNone /\ ffCall.at = "grow" /\ ffTodo = << >>
      /\ ffFat' = ffFat /\ ffDir' = ffDir /\ ffData' = ffData /\ ffWas' = ffWas
      /\ ffCall \in FfCallKinds /\ ffCall.chain \in Seq(FfClusters)
  BY FfCallIs DEF FfGrow, FfGrowing
<1>2. FfBefore
  BY <1>1 DEF FfContent, FfAfter
<1>3. \A g \in FfFiles : FfRead(g)' = FfRead(g) /\ FfSize(g)' = FfSize(g)
  BY <1>1, FfReadsStill
<1>4. CASE FfFreeOnes # {}
  <2>1. /\ ffTodo' = FfGrowth(ffCall.chain, FfAlloc)
        /\ ffCall' = [ffCall EXCEPT !.chain = Append(@, FfAlloc)]
    BY <1>4 DEF FfGrow
  <2> DEFINE c == FfAlloc
             s == ffCall.chain
             t == Append(s, c)
  <2>2. c \in FfClusters
    BY <1>4, FfAllocFree
  <2>3. /\ ffCall'.f = ffCall.f /\ ffCall'.kind = ffCall.kind /\ ffCall'.off = ffCall.off
        /\ ffCall'.len = ffCall.len /\ ffCall'.had = ffCall.had /\ ffCall'.at = "grow"
        /\ ffCall'.chain = t /\ ffCall' # FfNone
    <3>1. ffCall' = [kind |-> ffCall.kind, f |-> ffCall.f, off |-> ffCall.off, len |-> ffCall.len,
                     chain |-> t, had |-> ffCall.had, at |-> ffCall.at]
      BY <1>1, <2>1 DEF FfCallKinds
    <3>2. t \in Seq(FfClusters)
      BY <1>1, <2>2, FfFrontAppend
    <3> HIDE DEF t
    <3>3. ffCall' \in FfCallKinds
      BY <1>1, <3>1, <3>2 DEF FfCallKinds
    <3> QED BY <1>1, <3>1, <3>3, FfConstants
  <2>4. /\ Len(t) = Len(s) + 1 /\ Len(s) \in Nat /\ \A i \in 1 .. Len(s) : t[i] = s[i]
    BY <1>1, <2>2, FfFrontAppend
  <2> HIDE DEF c, s, t
  <2>5. ffTodo' # << >>
    <3>1. ffTodo' \in {<<FfMark(1, c), FfMark(2, c), FfClean(c)>>} \/ s # << >>
      BY <1>1, <2>1, <2>2, FfGrowthIs DEF c, s
    <3>2. s # << >> => ffTodo' = <<FfMark(1, c), FfMark(2, c), FfLink(1, s[Len(s)], c),
                                     FfLink(2, s[Len(s)], c), FfClean(c)>>
      BY <1>1, <2>1, <2>2, FfGrowthIs DEF c, s
    <3> QED BY <3>1, <3>2
  <2>6. FfSectors(ffCall.off) <= ffCall.had /\ FfBlanked /\ ffCall.had <= Len(s)
        /\ ffCall.had \in Nat
    BY <1>1, <1>2, FfCallIs DEF FfBefore, s
  <2>7. ffCall'.had < Len(ffCall'.chain)
    BY <2>3, <2>4, <2>6
  <2>8. FfBlanked'
    <3> SUFFICES ASSUME ffCall.kind = "create", NEW j \in 1 .. Len(t), j < Len(t)
                 PROVE  ffData[t[j]] = FfBlank
      BY <1>1, <2>3, <2>5 DEF FfBlanked
    <3>1. j \in 1 .. Len(s)
      BY <2>4
    <3> QED BY <1>1, <2>4, <2>6, <3>1 DEF FfBlanked, s
  <2>9. FfAsFound(ffWas[ffCall.f], FfRead(ffCall.f))'
        /\ \A g \in FfFiles : g # ffCall'.f => FfRead(g)' = ffWas'[g]
    BY <1>1, <1>2, <1>3, <2>3, FfSeenSame
  <2>10. FfBefore'
    <3>1. FfSectors(ffCall.off)' = FfSectors(ffCall.off)
      BY <2>3 DEF FfSectors
    <3> QED BY <1>2, <2>3, <2>6, <2>7, <2>8, <2>9, <3>1 DEF FfBefore
  <2> QED BY <2>9, <2>10 DEF FfContent
<1>5. CASE FfFreeOnes = {}
  <2>1. /\ ffTodo' = ffTodo /\ ffCall' = [ffCall EXCEPT !.at = "write"]
    BY <1>5 DEF FfGrow
  <2>2. /\ ffCall'.f = ffCall.f /\ ffCall'.kind = ffCall.kind /\ ffCall'.off = ffCall.off
        /\ ffCall'.len = ffCall.len /\ ffCall'.at = "write" /\ ffCall' # FfNone
    BY <1>1, <2>1, FfConstants DEF FfCallKinds
  <2>3. FfAsFound(ffWas[ffCall.f], FfRead(ffCall.f))'
        /\ \A g \in FfFiles : g # ffCall'.f => FfRead(g)' = ffWas'[g]
    BY <1>1, <1>2, <1>3, <2>2, FfSeenSame
  <2>4. FfBefore'
    BY <1>1, <1>2, <2>1, <2>2, <2>3 DEF FfBefore
  <2> QED BY <2>3, <2>4 DEF FfContent
<1> QED BY <1>4, <1>5

(* The call has its clusters: what it writes next, it has all to come.     *)
LEMMA FfFillContent ==
    ASSUME FfInv, FfContent, FfFill PROVE FfContent'
<1>1. /\ ffCall # FfNone /\ ffCall.at = "grow" /\ ffTodo = << >> /\ FfGrowing
      /\ Len(ffCall.chain) >= FfGrownTo
      /\ ffTodo' = FfRest /\ ffCall' = [ffCall EXCEPT !.at = "write"]
      /\ ffFat' = ffFat /\ ffDir' = ffDir /\ ffData' = ffData /\ ffWas' = ffWas /\ ffCount' = ffCount
  BY DEF FfFill, FfGrowing
<1>2. /\ ffCall \in FfCallKinds /\ ffCall.chain \in Seq(FfClusters) /\ ffCall.off \in Nat
      /\ ffCall.len \in Nat /\ ffCall.off + ffCall.len \in Nat /\ Len(ffCall.chain) \in Nat
      /\ ffCount < FfCalls /\ FfTypeOK
  BY <1>1, FfCallIs DEF FfInv
<1>3. /\ ffCall'.f = ffCall.f /\ ffCall'.kind = ffCall.kind /\ ffCall'.off = ffCall.off
      /\ ffCall'.len = ffCall.len /\ ffCall'.chain = ffCall.chain /\ ffCall'.at = "write"
      /\ ffCall' # FfNone
  BY <1>1, <1>2, FfConstants DEF FfCallKinds
<1>4. FfBefore
  BY <1>1 DEF FfContent, FfAfter
<1>5. \A g \in FfFiles : FfRead(g)' = FfRead(g) /\ FfSize(g)' = FfSize(g)
  BY <1>1, FfReadsStill
<1>6. FfAsFound(ffWas[ffCall.f], FfRead(ffCall.f))'
      /\ \A g \in FfFiles : g # ffCall'.f => FfRead(g)' = ffWas'[g]
  BY <1>1, <1>3, <1>4, <1>5, FfSeenSame
<1>7. /\ ffCall.kind \in {"append", "create"} /\ (ffCall.kind = "create" => ffCall.off = 0)
      /\ FfBlanked
  BY <1>1, <1>4 DEF FfBefore, FfInv, FfShape
<1>8. \A i, j \in 1 .. Len(ffCall.chain) : ffCall.chain[i] = ffCall.chain[j] => i = j
  <2>1. FfBase = ffCall.chain /\ FfLive
    BY <1>1, EmptySeq DEF FfBase, FfLive
  <2> QED BY <2>1 DEF FfInv, FfHeld, FfChainOk
<1>9. PICK s \in Seq(FfClusters), off \in Nat, len \in Nat, w \in Seq(FfWrites) :
         s = ffCall.chain /\ off = ffCall.off /\ len = ffCall.len /\ w = FfRest
  BY <1>1, <1>2, FfRestIs
<1>10. FfSectors(off + len) <= Len(s) /\ FfSectors(off + len) \in Nat /\ Len(s) \in Nat
  <2>1. off + len \in Nat
    BY ONLY off \in Nat, len \in Nat
  <2>2. FfSectors(off + len) \in Nat
    BY <2>1, FfSectorsOf
  <2> QED BY <1>1, <1>2, <1>9, <2>2 DEF FfGrownTo
<1>11. /\ \A i \in 1 .. Len(w) : w[i].k = "data" => \E j \in 1 .. Len(FfWritten) : w[i] = FfWritten[j]
       /\ \A j \in 1 .. Len(FfWritten) : \E i \in 1 .. Len(w) : w[i] = FfWritten[j]
  BY <1>1, <1>9, FfRestIs DEF FfEntry
<1>12. ASSUME ffCall.kind = "append" PROVE FfComing(w, s, off, len, "append")
  <2>1. FfWritten = FfRange(s, off, len, TRUE) /\ TRUE \in BOOLEAN
    BY <1>9, <1>12 DEF FfWritten
  <2>2. \A i, j \in 1 .. Len(s) : s[i] = s[j] => i = j
    BY <1>8, <1>9
  <2> HIDE <1>9
  <2>3. PICK r : r = FfWritten
    OBVIOUS
  <2>4. r = FfRange(s, off, len, TRUE)
    BY <2>1, <2>3
  <2>5. FfRanged(r, s, off, len, TRUE)
    BY <1>2, <1>10, <2>1, <2>2, <2>4, FfRangeGives
  <2>6. /\ \A i \in 1 .. Len(w) : w[i].k = "data" => \E j \in 1 .. Len(r) : w[i] = r[j]
        /\ \A j \in 1 .. Len(r) : \E i \in 1 .. Len(w) : w[i] = r[j]
    BY <1>11, <2>3
  <2> HIDE <2>3, <2>4
  <2>7. \A i \in 1 .. Len(w) : w[i].k = "data" => FfFits(w[i], s, off, len, TRUE)
    BY <2>5, <2>6 DEF FfRanged
  <2>8. ASSUME NEW p \in off .. off + len - 1 PROVE FfReached(w, s, p)
    <3>1. PICK j \in 1 .. Len(r) : r[j].k = "data" /\ r[j].c = s[1 + p \div FfUnit]
      BY <2>5 DEF FfReached, FfRanged
    <3>2. PICK i \in 1 .. Len(w) : w[i] = r[j]
      BY <2>6
    <3> QED BY <3>1, <3>2 DEF FfReached
  <2>9. ("append" # "patch") = TRUE /\ "append" # "create"
    OBVIOUS
  <2> QED BY <1>10, <2>7, <2>8, <2>9 DEF FfComing
<1>13. ASSUME ffCall.kind = "create" PROVE FfComing(w, s, off, len, "create")
  <2>1. FfWritten = << >>
    BY <1>13 DEF FfWritten
  <2>2. \A i \in 1 .. Len(w) : w[i].k # "data"
    <3>1. \A j \in 1 .. Len(FfWritten) : FALSE
      BY <2>1
    <3> QED BY <1>11, <3>1
  <2>3. ASSUME NEW p \in off .. off + len - 1 PROVE FfAt(s, p) = 0
    <3>1. p \in Nat /\ p < off + len /\ off + len \in Nat
      OBVIOUS
    <3>2. p \div FfUnit \in Nat /\ p \div FfUnit + 1 <= FfSectors(off + len)
      BY <3>1, FfSectorsOf
    <3>3. 1 + p \div FfUnit \in 1 .. Len(s)
      <4> HIDE <1>9
      <4> QED BY <1>10, <3>2
    <3>4. ffData[s[1 + p \div FfUnit]] = FfBlank
      BY <1>1, <1>7, <1>9, <1>13, <3>3 DEF FfBlanked
    <3>5. p % FfUnit \in FfUnits
      BY <3>1, FfDivMod
    <3> QED BY <3>4, <3>5 DEF FfAt, FfBlank
  <2>4. "create" # "patch"
    OBVIOUS
  <2> QED BY <1>10, <2>2, <2>3, <2>4 DEF FfComing
<1>14. FfComing(w, s, off, len, ffCall.kind)
  BY <1>7, <1>12, <1>13
<1>15. FfPending'
  <2>1. PICK kind : kind = ffCall.kind
    OBVIOUS
  <2>2. /\ ffTodo' = w /\ ffCall'.chain = s /\ ffCall'.off = off /\ ffCall'.len = len
        /\ ffCall'.kind = kind /\ ffData' = ffData /\ ffCount' = ffCount
    BY <1>1, <1>3, <1>9, <2>1
  <2>3. FfComing(w, s, off, len, kind)
    BY <1>14, <2>1
  <2> HIDE <2>1
  <2>4. FfComing(w, s, off, len, kind)'
    BY <2>2, <2>3 DEF FfComing, FfFits, FfReached, FfAt, FfSectors
  <2> QED BY ONLY <2>2, <2>4 DEF FfPending, FfComing, FfFits, FfReached, FfAt, FfSectors
<1>16. FfBefore'
  BY <1>1, <1>3, <1>4, <1>6, <1>15 DEF FfBefore
<1> QED BY <1>6, <1>16 DEF FfContent

LEMMA FfReturnContent ==
    ASSUME FfReturn PROVE FfContent'
BY DEF FfReturn, FfContent

LEMMA FfStutterContent ==
    ASSUME FfInv, FfContent, UNCHANGED ffVars PROVE FfContent'
<1>1. /\ ffFat' = ffFat /\ ffData' = ffData /\ ffDir' = ffDir /\ ffTodo' = ffTodo
      /\ ffCall' = ffCall /\ ffCount' = ffCount /\ ffWas' = ffWas
  BY DEF ffVars
<1> SUFFICES ASSUME ffCall # FfNone PROVE FfContent'
  BY <1>1 DEF FfContent
<1>2. \A g \in FfFiles : FfRead(g)' = FfRead(g) /\ FfSize(g)' = FfSize(g)
  BY <1>1, FfReadsStill
<1>3. /\ FfBefore => FfAsFound(ffWas[ffCall.f], FfRead(ffCall.f))'
      /\ \A g \in FfFiles : g # ffCall'.f => FfRead(g)' = ffWas'[g]
  BY <1>1, <1>2, FfSeenSame
<1>4. FfPending => FfPending'
  BY <1>1 DEF FfPending, FfComing, FfFits, FfReached, FfAt, FfSectors
<1>5. FfBefore => FfBefore'
  BY <1>1, <1>3, <1>4 DEF FfBefore, FfBlanked, FfSectors
<1>6. FfAfter => FfAfter'
  <2>1. FfRead(ffCall.f)' = FfRead(ffCall.f)
    BY <1>1 DEF FfRead, FfUnitsOf, FfChain, FfClus, FfSize
  <2> QED BY <1>1, <2>1 DEF FfAfter, FfMayRead
<1> QED BY <1>1, <1>3, <1>5, <1>6 DEF FfContent

(* A write that is not of an entry keeps the sizes, and one that is not of *)
(* data what the clusters hold.                                            *)
LEMMA FfPerformKeeps ==
    ASSUME NEW w, FfPerform(w)
    PROVE  /\ w.k # "dir" => ffDir' = ffDir /\ \A g \in FfFiles : FfSize(g)' = FfSize(g)
           /\ w.k # "data" => ffData' = ffData
           /\ w.k = "data" => ffData' = [ffData EXCEPT ![w.c] = w.units]
           /\ w.k = "dir" => ffDir' = [ffDir EXCEPT ![w.f] = w.entry]
<1>1. w.k = "data" \/ w.k = "dir" \/ (w.k # "data" /\ w.k # "dir")
  OBVIOUS
<1> QED BY <1>1 DEF FfPerform, FfSize

(* A sector of the call's clusters is written: the other files are as they *)
(* were.                                                                   *)
LEMMA FfDataElsewhere ==
    ASSUME FfInv, NEW c \in FfClusters, NEW g \in FfFiles, ~FfOn(c, FfChain(g)),
           FfChain(g)' = FfChain(g), FfSize(g)' = FfSize(g), NEW units,
           ffData' = [ffData EXCEPT ![c] = units]
    PROVE  FfRead(g)' = FfRead(g)
<1>1. /\ FfSectors(FfSize(g)) <= Len(FfChain(g)) /\ FfChain(g) \in Seq(FfClusters)
      /\ Len(FfChain(g)) \in Nat /\ FfSectors(FfSize(g)) \in Nat
  BY FfTyped, FfSectorsOf DEF FfInv, FfFilesOk, FfChainOk
<1>2. ASSUME NEW j \in 1 .. FfSectors(FfSize(g))
      PROVE  /\ FfChain(g)'[j] = FfChain(g)[j]
             /\ ffData'[FfChain(g)[j]] = ffData[FfChain(g)[j]]
  <2>1. j \in 1 .. Len(FfChain(g))
    BY <1>1
  <2>2. FfChain(g)[j] # c /\ FfChain(g)[j] \in FfClusters
    BY <1>1, <2>1, ElementOfSeq DEF FfOn
  <2>3. ffData \in [FfClusters -> [FfUnits -> 0 .. FfCalls]]
    BY DEF FfInv, FfTypeOK
  <2> QED BY <2>2, <2>3
<1> QED BY <1>2, FfReadSame

(* The cluster in hand gets linked and zeroed behind what the file holds.  *)
LEMMA FfGrowReads ==
    ASSUME FfInv, FfContent, ffCall # FfNone, ffCall.at = "grow", ffTodo # << >>,
           FfPerform(Head(ffTodo))
    PROVE  \A g \in FfFiles : FfRead(g)' = FfRead(g) /\ FfSize(g)' = FfSize(g)
<1> DEFINE w == Head(ffTodo)
           s == ffCall.chain
           c == Last(s)
           p == s[Len(s) - 1]
<1>1. /\ ffCall.kind \in {"append", "create"} /\ FfBefore
      /\ FfSize(ffCall.f) = ffCall.off /\ FfSectors(ffCall.off) <= ffCall.had /\ ffCall.had < Len(s)
  BY DEF FfInv, FfShape, FfContent, FfAfter, FfBefore, FfAsFound
<1>2. PICK f \in FfFiles : f = ffCall.f
  BY FfCallIs
<1>3. /\ s \in Seq(FfClusters) /\ s # << >> /\ Len(s) \in Nat \ {0} /\ c = s[Len(s)]
      /\ c \in FfClusters /\ ffCall.had \in Nat
  BY FfInHand, FfCallIs
<1>4. ffTodo \in Seq(FfWrites) /\ w \in FfWrites
  <2>1. ffTodo \in Seq(FfWrites)
    BY DEF FfInv, FfTypeOK
  <2> QED BY <2>1, HeadTailProperties
<1>5. /\ FfSize(f) \in Nat /\ FfSectors(FfSize(f)) \in Nat /\ FfSectors(FfSize(f)) < Len(s)
      /\ FfSectors(FfSize(f)) <= Len(FfChain(f))
  <2>1. FfSize(f) \in Nat /\ FfSectors(FfSize(f)) <= Len(FfChain(f))
    BY FfTyped DEF FfInv, FfFilesOk
  <2>2. FfSectors(FfSize(f)) \in Nat
    BY <2>1, FfSectorsOf
  <2>3. FfSectors(FfSize(f)) <= ffCall.had
    BY <1>1, <1>2
  <2> QED BY <1>1, <1>3, <2>1, <2>2, <2>3
<1>6. /\ FfLive /\ FfChain(f) \in {FfBase, << >>}
      /\ \A g \in FfFiles : g # f => FfApart(FfBase, FfChain(g))
  <2>1. FfLive
    BY DEF FfLive
  <2> QED BY <1>2, <2>1 DEF FfInv, FfHeld
<1>7. \/ w = FfClean(c) /\ Len(ffTodo) = 1
      \/ w \in {FfMark(2, c), FfLink(2, p, c)}
      \/ w = FfMark(1, c) /\ Len(ffTodo) >= 3
      \/ w = FfLink(1, p, c) /\ Len(ffTodo) = 3 /\ Len(s) > 1
  BY FfRoundHead
<1>8. w.k # "dir" /\ (w # FfClean(c) => w.k = "fat")
  <2>1. FfClean(c).k = "data" /\ \A n \in {1, 2} : FfMark(n, c).k = "fat" /\ FfLink(n, p, c).k = "fat"
    BY DEF FfClean, FfMark, FfLink
  <2> HIDE DEF w, c, p, s
  <2> QED BY <1>7, <2>1
<1>9. /\ ffDir' = ffDir /\ \A g \in FfFiles : FfSize(g)' = FfSize(g)
      /\ w # FfClean(c) => ffData' = ffData
  BY <1>8, FfPerformKeeps
<1>10. CASE w = FfClean(c) /\ Len(ffTodo) = 1
  <2>1. w.k = "data" /\ w.c = c
    BY <1>10 DEF FfClean
  <2>2. \A g \in FfFiles : FfChain(g)' = FfChain(g)
    BY <1>4, <2>1, FfQuietWrite
  <2>3. ffData' = [ffData EXCEPT ![c] = w.units]
    BY <2>1, FfPerformKeeps
  <2>4. FfBase = s /\ FfOn(c, s)
    <3>1. FfBase = s
      BY <1>10 DEF FfBase
    <3> QED BY <1>3, <3>1 DEF FfOn
  <2>5. \A i, j \in 1 .. Len(s) : s[i] = s[j] => i = j
    BY <1>6, <2>4 DEF FfInv, FfHeld, FfChainOk
  <2>6. ASSUME NEW g \in FfFiles, g # f PROVE FfRead(g)' = FfRead(g)
    <3>1. ~FfOn(c, FfChain(g))
      BY <1>3, <1>6, <2>4, <2>6 DEF FfApart
    <3> HIDE DEF c, w
    <3> QED BY <1>3, <1>9, <2>2, <2>3, <3>1, FfDataElsewhere
  <2>7. FfRead(f)' = FfRead(f)
    <3>1. ASSUME NEW j \in 1 .. FfSectors(FfSize(f))
          PROVE  /\ FfChain(f)'[j] = FfChain(f)[j]
                 /\ ffData'[FfChain(f)[j]] = ffData[FfChain(f)[j]]
      <4>1. j \in 1 .. Len(s) /\ j # Len(s) /\ Len(s) \in 1 .. Len(s)
        BY <1>3, <1>5
      <4>2. FfChain(f) = s
        <5>1. Len(FfChain(f)) # 0
          BY <1>5
        <5> QED BY <1>6, <2>4, <5>1
      <4>3. s[j] # c /\ s[j] \in FfClusters
        BY <1>3, <2>5, <4>1, ElementOfSeq
      <4>4. ffData \in [FfClusters -> [FfUnits -> 0 .. FfCalls]]
        BY DEF FfInv, FfTypeOK
      <4> HIDE DEF c, w
      <4> QED BY <2>2, <2>3, <4>2, <4>3, <4>4
    <3> QED BY <1>9, <3>1, FfReadSame
  <2> QED BY <1>9, <2>6, <2>7
<1>11. CASE w # FfClean(c) /\ \A g \in FfFiles : FfChain(g)' = FfChain(g)
  <2>1. \A g \in FfFiles : FfRead(g)' = FfRead(g)
    BY <1>9, <1>11 DEF FfRead, FfUnitsOf
  <2> QED BY <1>9, <2>1
<1>12. CASE w \in {FfMark(2, c), FfLink(2, p, c)}
  <2>1. w.k = "fat" /\ w.copy = 2 /\ w # FfClean(c)
    <3>1. FfClean(c).k = "data" /\ FfMark(2, c).k = "fat" /\ FfLink(2, p, c).k = "fat"
          /\ FfMark(2, c).copy = 2 /\ FfLink(2, p, c).copy = 2
      BY DEF FfClean, FfMark, FfLink
    <3> HIDE DEF w, c, p, s
    <3> QED BY <1>12, <3>1
  <2>2. \A g \in FfFiles : FfChain(g)' = FfChain(g)
    BY <1>4, <2>1, FfQuietWrite
  <2> QED BY <1>11, <2>1, <2>2
<1>13. CASE w = FfMark(1, c) /\ Len(ffTodo) >= 3
  <2>1. \A g \in FfFiles : FfChain(g)' = FfChain(g)
    BY <1>13, FfMarkIt
  <2>2. w # FfClean(c)
    <3>1. FfClean(c).k = "data" /\ FfMark(1, c).k = "fat"
      BY DEF FfClean, FfMark
    <3> HIDE DEF w, c
    <3> QED BY <1>13, <3>1
  <2> QED BY <1>11, <2>1, <2>2
<1>14. CASE w = FfLink(1, p, c) /\ Len(ffTodo) = 3 /\ Len(s) > 1
  <2>1. w # FfClean(c)
    <3>1. FfClean(c).k = "data" /\ FfLink(1, p, c).k = "fat"
      BY DEF FfClean, FfLink
    <3> HIDE DEF w, c
    <3> QED BY <1>14, <3>1
  <2>2. /\ FfFilesOk' /\ FfChain(f)' \in {s, << >>}
        /\ \A g \in FfFiles : g # f => FfChain(g)' = FfChain(g)
    BY <1>2, <1>14, FfLinkIt
  <2>3. ffData' = ffData
    BY <1>9, <2>1
  <2>4. \A g \in FfFiles : g # f => FfRead(g)' = FfRead(g)
    BY <1>9, <2>2, <2>3 DEF FfRead, FfUnitsOf
  <2>5. ASSUME NEW j \in 1 .. FfSectors(FfSize(f)) PROVE FfChain(f)'[j] = FfChain(f)[j]
    <3>1. FfChain(f) = FfFront(s)
      <4>1. Len(FfChain(f)) # 0
        BY <1>5
      <4>2. FfBase = FfFront(s)
        BY <1>14 DEF FfBase
      <4> QED BY <1>6, <4>1, <4>2
    <3>2. FfChain(f)' = s
      <4>1. FfSectors(FfSize(f)') <= Len(FfChain(f)')
        BY <2>2 DEF FfFilesOk, FfSectors
      <4>2. FfSectors(FfSize(f)) <= Len(FfChain(f)')
        BY <1>9, <4>1
      <4>3. Len(FfChain(f)') # 0
        BY <1>5, <4>2
      <4> QED BY <2>2, <4>3
    <3>3. j \in 1 .. Len(s) - 1
      BY <1>3, <1>5
    <3>4. FfFront(s)[j] = s[j]
      BY <1>3, <3>3, FfFrontOf
    <3> QED BY <3>1, <3>2, <3>4
  <2>6. FfRead(f)' = FfRead(f)
    BY <1>9, <2>3, <2>5, FfReadSame
  <2> QED BY <1>9, <2>4, <2>6
<1> QED BY <1>7, <1>10, <1>12, <1>13, <1>14

LEMMA FfGrowWriteContent ==
    ASSUME FfInv, FfContent, FfWrite, ffCall # FfNone, ffCall.at = "grow"
    PROVE  FfContent'
<1> DEFINE w == Head(ffTodo)
           s == ffCall.chain
           c == Last(s)
<1>1. /\ ffTodo # << >> /\ FfPerform(w) /\ ffTodo' = Tail(ffTodo) /\ ffCall' = ffCall
      /\ ffWas' = ffWas /\ ffCount' = ffCount
  BY DEF FfWrite
<1>2. FfBefore
  BY DEF FfContent, FfAfter
<1>3. \A g \in FfFiles : FfRead(g)' = FfRead(g) /\ FfSize(g)' = FfSize(g)
  BY <1>1, FfGrowReads
<1>4. /\ FfAsFound(ffWas[ffCall.f], FfRead(ffCall.f))'
      /\ \A g \in FfFiles : g # ffCall'.f => FfRead(g)' = ffWas'[g]
  BY <1>1, <1>2, <1>3, FfSeenSame
<1>5. /\ s \in Seq(FfClusters) /\ s # << >> /\ Len(s) \in Nat \ {0} /\ c = s[Len(s)]
      /\ c \in FfClusters
  BY <1>1, FfInHand
<1>6. ffTodo \in Seq(FfWrites) /\ Len(ffTodo) \in Nat /\ ffData \in [FfClusters -> [FfUnits -> 0 .. FfCalls]]
  BY DEF FfInv, FfTypeOK
<1>7. FfBlanked'
  <2> SUFFICES ASSUME ffCall.kind = "create", NEW j \in 1 .. Len(s),
                      ffTodo' = << >> \/ j < Len(s)
               PROVE  ffData'[s[j]] = FfBlank
    BY <1>1 DEF FfBlanked
  <2>1. j < Len(s) => ffData[s[j]] = FfBlank
    BY <1>2 DEF FfBefore, FfBlanked
  <2>2. s[j] \in FfClusters
    BY <1>5, ElementOfSeq
  <2>3. CASE w = FfClean(c) /\ Len(ffTodo) = 1
    <3>1. w.k = "data" /\ w.c = c /\ w.units = FfBlank
      BY <2>3 DEF FfClean
    <3>2. ffData' = [ffData EXCEPT ![c] = FfBlank]
      BY <1>1, <3>1, FfPerformKeeps
    <3>3. FfBase = s /\ FfLive
      BY <2>3 DEF FfBase, FfLive
    <3>4. \A i, k \in 1 .. Len(s) : s[i] = s[k] => i = k
      BY <3>3 DEF FfInv, FfHeld, FfChainOk
    <3> HIDE DEF w
    <3>5. CASE j = Len(s)
      BY <1>5, <1>6, <3>2, <3>5
    <3>6. CASE j < Len(s)
      <4>1. Len(s) \in 1 .. Len(s) /\ j # Len(s)
        BY <1>5, <3>6
      <4>2. s[j] # c
        BY <1>5, <3>4, <4>1
      <4> HIDE DEF c
      <4> QED BY <1>6, <2>1, <2>2, <3>2, <3>6, <4>2
    <3>7. j \in Nat /\ j <= Len(s)
      BY <1>5
    <3> QED BY <1>5, <3>5, <3>6, <3>7
  <2>4. CASE ~(w = FfClean(c) /\ Len(ffTodo) = 1)
    <3> DEFINE p == s[Len(s) - 1]
    <3>1. \/ w \in {FfMark(2, c), FfLink(2, p, c)} /\ Len(ffTodo) > 1
          \/ w = FfMark(1, c) /\ Len(ffTodo) >= 3
          \/ w = FfLink(1, p, c) /\ Len(ffTodo) = 3 /\ Len(s) > 1
      BY <1>1, <2>4, FfRoundHead
    <3>2. /\ FfMark(1, c).k = "fat" /\ FfMark(2, c).k = "fat"
          /\ FfLink(1, p, c).k = "fat" /\ FfLink(2, p, c).k = "fat"
      BY DEF FfMark, FfLink
    <3>3. w.k = "fat" /\ Len(ffTodo) > 1
      <4>1. Len(ffTodo) \in Nat
        BY <1>6
      <4> HIDE DEF w, c, p, s
      <4>2. w.k = "fat"
        BY ONLY <3>1, <3>2
      <4>3. Len(ffTodo) > 1
        BY ONLY <3>1, <4>1
      <4> QED BY <4>2, <4>3
    <3>4. ffData' = ffData
      BY <1>1, <3>3, FfPerformKeeps
    <3>5. ffTodo' # << >>
      <4>1. Len(Tail(ffTodo)) = Len(ffTodo) - 1
        BY <1>1, <1>6
      <4>2. Len(ffTodo') # 0
        BY <1>1, <1>6, <3>3, <4>1
      <4> QED BY <4>2
    <3> QED BY <2>1, <3>4, <3>5
  <2> QED BY <2>3, <2>4
<1>8. FfBefore'
  <2>1. /\ FfSectors(ffCall.off)' = FfSectors(ffCall.off) /\ ffCall.had < Len(s)
    BY <1>1, <1>2 DEF FfSectors, FfBefore
  <2> QED BY <1>1, <1>2, <1>4, <1>7, <2>1 DEF FfBefore
<1> QED BY <1>4, <1>8 DEF FfContent

(* A call that is cut short while it takes clusters.                       *)
LEMMA FfGrowStopsContent ==
    ASSUME FfInv, FfContent, FfStops, ffCall # FfNone, ffCall.at = "grow"
    PROVE  FfContent'
<1>1. /\ ffTodo # << >> /\ ffTodo' = << >> /\ ffCall' = [ffCall EXCEPT !.at = "write"]
      /\ FfPerform(Head(ffTodo)) \/ UNCHANGED <<ffFat, ffData, ffDir, ffHint>>
      /\ ffWas' = ffWas /\ ffCount' = ffCount
  BY DEF FfStops
<1>2. FfBefore /\ ffCall \in FfCallKinds
  BY FfCallIs DEF FfContent, FfAfter
<1>3. \A g \in FfFiles : FfRead(g)' = FfRead(g) /\ FfSize(g)' = FfSize(g)
  BY <1>1, FfGrowReads, FfReadsStill
<1>4. /\ ffCall'.f = ffCall.f /\ ffCall'.kind = ffCall.kind /\ ffCall'.off = ffCall.off
      /\ ffCall'.len = ffCall.len /\ ffCall'.at = "write" /\ ffCall' # FfNone
  BY <1>1, <1>2, FfConstants DEF FfCallKinds
<1>5. /\ FfAsFound(ffWas[ffCall.f], FfRead(ffCall.f))'
      /\ \A g \in FfFiles : g # ffCall'.f => FfRead(g)' = ffWas'[g]
  BY <1>1, <1>2, <1>3, <1>4, FfSeenSame
<1>6. FfBefore'
  BY <1>1, <1>2, <1>4, <1>5 DEF FfBefore
<1> QED BY <1>5, <1>6 DEF FfContent

(* A sector of data is written.                                            *)
LEMMA FfDataLands ==
    ASSUME FfTypeOK, NEW s \in Seq(FfClusters), NEW off \in Nat, NEW len \in Nat,
           NEW zero \in BOOLEAN, NEW w \in FfWrites, w.k = "data",
           FfFits(w, s, off, len, zero), FfPerform(w), NEW p \in Nat, p \div FfUnit < Len(s)
    PROVE  /\ s[1 + p \div FfUnit] # w.c => FfAt(s, p)' = FfAt(s, p)
           /\ s[1 + p \div FfUnit] = w.c /\ p \in off .. off + len - 1 => FfAt(s, p)' = ffCount + 1
           /\ p < off \/ (~zero /\ p >= off + len) => FfAt(s, p)' = FfAt(s, p)
<1> DEFINE j == 1 + p \div FfUnit
           u == p % FfUnit
<1>1. p \div FfUnit \in Nat /\ Len(s) \in Nat
  BY FfDivMod
<1>2. j \in 1 .. Len(s)
  BY <1>1
<1>3. s[j] \in FfClusters
  BY <1>2, ElementOfSeq
<1>4. ffData' = [ffData EXCEPT ![w.c] = w.units] /\ ffData \in [FfClusters -> [FfUnits -> 0 .. FfCalls]]
  BY FfPerformKeeps DEF FfTypeOK
<1>5. FfAt(s, p) = ffData[s[j]][u] /\ FfAt(s, p)' = ffData'[s[j]][u]
  BY DEF FfAt
<1>6. s[j] = w.c =>
         /\ p \in off .. off + len - 1 => w.units[u] = ffCount + 1
         /\ p < off \/ (~zero /\ p >= off + len) => w.units[u] = FfAt(s, p)
  BY DEF FfFits
<1> HIDE DEF j, u
<1>7. IF s[j] = w.c THEN FfAt(s, p)' = w.units[u] ELSE FfAt(s, p)' = FfAt(s, p)
  BY <1>3, <1>4, <1>5
<1>8. /\ s[j] # w.c => FfAt(s, p)' = FfAt(s, p)
      /\ s[j] = w.c /\ p \in off .. off + len - 1 => FfAt(s, p)' = ffCount + 1
      /\ p < off \/ (~zero /\ p >= off + len) => FfAt(s, p)' = FfAt(s, p)
  BY <1>6, <1>7
<1> QED BY <1>8 DEF j

(* It leaves the other writes to come what they are.                       *)
LEMMA FfComingKept ==
    ASSUME FfTypeOK, NEW s \in Seq(FfClusters), NEW off \in Nat, NEW len \in Nat, NEW kind,
           NEW t \in Seq(FfWrites), t # << >>, FfComing(t, s, off, len, kind),
           FfPerform(Head(t)), Head(t).k \in {"data", "hint"}, ffCount' = ffCount
    PROVE  FfComing(Tail(t), s, off, len, kind)'
<1>1. PICK w \in FfWrites, y \in Seq(FfWrites) :
         /\ w = Head(t) /\ y = Tail(t) /\ Len(t) \in Nat /\ Len(t) > 0
         /\ Len(y) = Len(t) - 1 /\ w = t[1] /\ 1 \in 1 .. Len(t)
         /\ \A i \in 1 .. Len(y) : y[i] = t[i + 1] /\ i + 1 \in 1 .. Len(t)
  <2>1. /\ Head(t) \in FfWrites /\ Tail(t) \in Seq(FfWrites) /\ Len(Tail(t)) = Len(t) - 1
        /\ \A i \in 1 .. Len(Tail(t)) : Tail(t)[i] = t[i + 1]
    BY HeadTailProperties
  <2>2. Len(t) \in Nat /\ Len(t) > 0 /\ 1 \in 1 .. Len(t) /\ Head(t) = t[1]
    BY EmptySeq
  <2>3. \A i \in 1 .. Len(Tail(t)) : i + 1 \in 1 .. Len(t)
    BY <2>1, <2>2
  <2> QED BY <2>1, <2>2, <2>3
<1>2. FfPerform(w) /\ w.k \in {"data", "hint"}
  BY <1>1
<1>3. PICK zero \in BOOLEAN : zero = (kind # "patch")
  OBVIOUS
<1>4. \A i \in 1 .. Len(t) : t[i].k = "data" => FfFits(t[i], s, off, len, zero)
  BY <1>3 DEF FfComing
<1>5. \A i \in 1 .. Len(y) : y[i] = t[i + 1] /\ i + 1 \in 1 .. Len(t)
  BY <1>1
<1>6. ASSUME NEW p \in Nat, p \div FfUnit < Len(s)
      PROVE  /\ p < off \/ (~zero /\ p >= off + len) => FfAt(s, p)' = FfAt(s, p)
             /\ w.k = "hint" \/ s[1 + p \div FfUnit] # w.c => FfAt(s, p)' = FfAt(s, p)
             /\ w.k = "data" /\ s[1 + p \div FfUnit] = w.c /\ p \in off .. off + len - 1 =>
                   FfAt(s, p)' = ffCount + 1
  <2>1. CASE w.k = "hint"
    <3>1. ffData' = ffData
      BY <1>2, <2>1, FfPerformKeeps
    <3>2. FfAt(s, p)' = FfAt(s, p)
      BY <3>1 DEF FfAt
    <3> QED BY <2>1, <3>2
  <2>2. CASE w.k = "data"
    <3>1. FfFits(w, s, off, len, zero)
      BY <1>1, <1>4, <2>2
    <3> QED BY <1>2, <1>6, <2>2, <3>1, FfDataLands
  <2> QED BY <1>2, <2>1, <2>2
<1>7. ASSUME NEW i \in 1 .. Len(y), y[i].k = "data" PROVE FfFits(y[i], s, off, len, zero)'
  <2>1. PICK x : x = y[i]
    OBVIOUS
  <2>2. FfFits(x, s, off, len, zero)
    BY <1>4, <1>5, <1>7, <2>1
  <2>3. FfFits(x, s, off, len, zero)'
    <3> SUFFICES ASSUME NEW p \in Nat, p \div FfUnit < Len(s), s[1 + p \div FfUnit] = x.c
                 PROVE  /\ p \in off .. off + len - 1 => x.units[p % FfUnit] = ffCount + 1
                        /\ p < off \/ (~zero /\ p >= off + len) =>
                              x.units[p % FfUnit] = FfAt(s, p)'
      BY DEF FfFits
    <3>1. /\ p \in off .. off + len - 1 => x.units[p % FfUnit] = ffCount + 1
          /\ p < off \/ (~zero /\ p >= off + len) => x.units[p % FfUnit] = FfAt(s, p)
      BY <2>2 DEF FfFits
    <3> QED BY <1>6, <3>1
  <2> QED BY <2>1, <2>3
<1>8. kind = "create" => \A i \in 1 .. Len(t) : t[i].k # "data"
  BY DEF FfComing
<1>9. ASSUME kind # "patch", NEW p \in off .. off + len - 1
      PROVE  \/ FfAt(s, p)' = IF kind = "create" THEN 0 ELSE ffCount + 1
             \/ FfReached(y, s, p)
  <2>1. p \in Nat /\ p < off + len /\ off + len \in Nat
    OBVIOUS
  <2>2. p \div FfUnit < Len(s)
    <3>1. p \div FfUnit \in Nat /\ p \div FfUnit + 1 <= FfSectors(off + len) /\ FfSectors(off + len) \in Nat
      BY <2>1, FfSectorsOf
    <3>2. Len(s) \in Nat /\ FfSectors(off + len) <= Len(s)
      BY <1>9 DEF FfComing
    <3> QED BY <3>1, <3>2
  <2>3. \/ FfAt(s, p) = IF kind = "create" THEN 0 ELSE ffCount + 1
        \/ FfReached(t, s, p)
    BY <1>9 DEF FfComing
  <2>4. CASE w.k = "data" /\ s[1 + p \div FfUnit] = w.c
    <3>1. kind # "create"
      BY <1>1, <1>8, <2>4
    <3> QED BY <1>6, <2>1, <2>2, <2>4, <3>1
  <2>5. CASE ~(w.k = "data" /\ s[1 + p \div FfUnit] = w.c)
    <3>1. FfAt(s, p)' = FfAt(s, p)
      BY <1>2, <1>6, <2>1, <2>2, <2>5
    <3>2. CASE FfReached(t, s, p)
      <4>1. PICK i \in 1 .. Len(t) : t[i].k = "data" /\ t[i].c = s[1 + p \div FfUnit]
        BY <3>2 DEF FfReached
      <4>2. i # 1
        BY <1>1, <2>5, <4>1
      <4>3. i - 1 \in 1 .. Len(y) /\ y[i - 1] = t[i]
        <5>1. i - 1 \in 1 .. Len(y) /\ (i - 1) + 1 = i
          BY <1>1, <4>2
        <5> QED BY <1>5, <5>1
      <4>4. FfReached(y, s, p)
        BY <4>1, <4>3 DEF FfReached
      <4> QED BY <4>4
    <3> QED BY <2>3, <3>1, <3>2
  <2> QED BY <2>4, <2>5
<1>10. ASSUME kind = "patch", NEW i \in 1 .. Len(y) PROVE y[i].k # "dir"
  BY <1>5, <1>10 DEF FfComing
<1>11. ASSUME kind = "create", NEW i \in 1 .. Len(y) PROVE y[i].k # "data"
  BY <1>5, <1>8, <1>11
<1>12. kind # "patch" => FfSectors(off + len) <= Len(s)
  BY DEF FfComing
<1>13. (FfSectors(off + len))' = FfSectors(off + len)
  BY DEF FfSectors
<1>14. FfComing(y, s, off, len, kind)'
  BY <1>3, <1>7, <1>9, <1>10, <1>11, <1>12, <1>13 DEF FfComing, FfReached
<1> QED BY <1>1, <1>14

(* A unit that is the same is read the same.                               *)
LEMMA FfReadWhere ==
    ASSUME NEW g \in FfFiles, FfSize(g)' = FfSize(g), FfSize(g) \in Nat
    PROVE  /\ Len(FfRead(g)') = FfSize(g)
           /\ \A i \in 1 .. FfSize(g) :
                 FfAt(FfChain(g), i - 1)' = FfAt(FfChain(g), i - 1) =>
                    FfRead(g)'[i] = FfRead(g)[i]
<1> DEFINE n == FfSize(g)
<1>1. FfRead(g) = [i \in 1 .. n |-> FfAt(FfChain(g), i - 1)]
  BY DEF FfRead, FfUnitsOf, FfAt
<1>2. FfRead(g)' = [i \in 1 .. n |-> FfAt(FfChain(g), i - 1)']
  BY DEF FfRead, FfUnitsOf, FfAt
<1> HIDE DEF n
<1>3. n \in Nat
  BY DEF n
<1>4. Len(FfRead(g)') = n
  BY <1>2, <1>3
<1> QED BY <1>1, <1>2, <1>4 DEF n

(* What is written when the file has its clusters.                         *)
LEMMA FfLateHead ==
    ASSUME FfInv, FfContent, ffCall # FfNone, ffCall.at = "write", ffTodo # << >>
    PROVE  /\ Head(ffTodo) \in FfWrites /\ FfBefore /\ FfPending /\ FfLive
           /\ FfChain(ffCall.f) \in {ffCall.chain, << >>}
           /\ \A g \in FfFiles : g # ffCall.f => FfApart(ffCall.chain, FfChain(g))
           /\ \/ Head(ffTodo).k = "hint"
              \/ Head(ffTodo).k = "data" /\ FfOn(Head(ffTodo).c, ffCall.chain)
              \/ /\ Len(ffTodo) = 1 /\ ffCall.kind # "patch" /\ FfGrownTo <= Len(ffCall.chain)
                 /\ Head(ffTodo) = FfEntry(ffCall.f, FfFirst(ffCall.chain),
                                           ffCall.off + ffCall.len)
<1>1. ffTodo \in Seq(FfWrites)
  BY DEF FfInv, FfTypeOK
<1>2. /\ Head(ffTodo) \in FfWrites /\ 1 \in 1 .. Len(ffTodo) /\ Head(ffTodo) = ffTodo[1]
  BY <1>1, HeadTailProperties, EmptySeq
<1>3. FfBefore /\ FfPending
  BY DEF FfContent, FfAfter, FfBefore
<1>4. FfLive /\ FfBase = ffCall.chain
  BY DEF FfLive, FfBase
<1>5. FfMayWrite(Head(ffTodo), 1 = Len(ffTodo))
  BY <1>2 DEF FfInv, FfShape
<1>6. ffCall.kind = "patch" => Head(ffTodo).k # "dir"
  BY <1>2, <1>3 DEF FfPending, FfComing
<1>7. FfEntry(ffCall.f, FfFirst(ffCall.chain), ffCall.off + ffCall.len).k = "dir"
  BY DEF FfEntry
<1> QED BY <1>2, <1>3, <1>4, <1>5, <1>6, <1>7 DEF FfInv, FfHeld, FfMayWrite

(* A hint or data: the file is as found, and the others.                   *)
LEMMA FfLateSeen ==
    ASSUME FfInv, FfContent, ffCall # FfNone, ffCall.at = "write", ffTodo # << >>,
           FfPerform(Head(ffTodo)), Head(ffTodo).k \in {"data", "hint"},
           ffCall'.f = ffCall.f, ffCall'.kind = ffCall.kind, ffCall'.off = ffCall.off,
           ffWas' = ffWas
    PROVE  /\ \A g \in FfFiles : g # ffCall'.f => FfRead(g)' = ffWas'[g]
           /\ FfAsFound(ffWas[ffCall.f], FfRead(ffCall.f))'
<1> DEFINE w == Head(ffTodo)
<1>1. PICK f \in FfFiles, s \in Seq(FfClusters), off \in Nat, len \in Nat :
         f = ffCall.f /\ s = ffCall.chain /\ off = ffCall.off /\ len = ffCall.len
  BY FfCallIs
<1>2. /\ w \in FfWrites /\ FfBefore /\ FfPending /\ FfChain(f) \in {s, << >>}
      /\ \A g \in FfFiles : g # f => FfApart(s, FfChain(g))
      /\ w.k = "data" => FfOn(w.c, s)
  <2>1. FfEntry(ffCall.f, FfFirst(ffCall.chain), ffCall.off + ffCall.len).k = "dir"
    BY DEF FfEntry
  <2> QED BY <1>1, <2>1, FfLateHead
<1>3. \A g \in FfFiles : FfChain(g)' = FfChain(g) /\ FfSize(g)' = FfSize(g)
  BY <1>2, FfQuietWrite, FfPerformKeeps
<1>4. ASSUME NEW g \in FfFiles, g # f PROVE FfRead(g)' = FfRead(g)
  <2>1. CASE w.k = "hint"
    <3>1. ffData' = ffData
      BY <2>1, FfPerformKeeps
    <3> QED BY <1>3, <3>1 DEF FfRead, FfUnitsOf
  <2>2. CASE w.k = "data"
    <3>1. ffData' = [ffData EXCEPT ![w.c] = w.units]
      BY <2>2, FfPerformKeeps
    <3>2. w.c \in FfClusters
      BY <1>2, <2>2 DEF FfWrites
    <3>3. ~FfOn(w.c, FfChain(g))
      BY <1>2, <1>4, <2>2, <3>2 DEF FfApart
    <3> QED BY <1>3, <3>1, <3>2, <3>3, FfDataElsewhere
  <2> QED BY <2>1, <2>2
<1>5. \A g \in FfFiles : g # ffCall'.f => FfRead(g)' = ffWas'[g]
  BY <1>1, <1>4 DEF FfContent
<1>6. /\ FfSize(f) \in Nat /\ FfSectors(FfSize(f)) <= Len(FfChain(f)) /\ FfTypeOK
      /\ Len(FfRead(f)) = FfSize(f)
  BY FfReadIs DEF FfInv, FfFilesOk
<1>7. ASSUME NEW p \in Nat, p < FfSize(f),
             p < off \/ (ffCall.kind = "patch" /\ p >= off + len)
      PROVE  FfAt(FfChain(f), p)' = FfAt(FfChain(f), p)
  <2>1. p \div FfUnit \in Nat /\ p \div FfUnit + 1 <= FfSectors(FfSize(f))
        /\ FfSectors(FfSize(f)) \in Nat
    BY <1>6, <1>7, FfSectorsOf
  <2>2. FfChain(f) = s /\ p \div FfUnit < Len(s)
    <3>1. Len(FfChain(f)) # 0
      BY <1>6, <2>1
    <3>2. FfChain(f) = s
      BY <1>2, <3>1
    <3>3. Len(s) \in Nat /\ FfSectors(FfSize(f)) <= Len(s)
      BY <1>6, <3>2
    <3> QED BY <2>1, <3>2, <3>3
  <2>3. FfAt(s, p)' = FfAt(s, p)
    <3>1. CASE w.k = "hint"
      <4>1. ffData' = ffData
        BY <3>1, FfPerformKeeps
      <4> QED BY <4>1 DEF FfAt
    <3>2. CASE w.k = "data"
      <4>1. PICK zero \in BOOLEAN : zero = (ffCall.kind # "patch")
        OBVIOUS
      <4>2. 1 \in 1 .. Len(ffTodo) /\ w = ffTodo[1]
        <5>1. ffTodo \in Seq(FfWrites)
          BY <1>6 DEF FfTypeOK
        <5> QED BY <5>1, EmptySeq
      <4>3. FfFits(w, s, off, len, zero)
        BY <1>1, <1>2, <3>2, <4>1, <4>2 DEF FfPending, FfComing
      <4>4. p < off \/ (~zero /\ p >= off + len)
        BY <1>7, <4>1
      <4>5. PICK v \in FfWrites : v = w
        BY <1>2
      <4>6. v.k = "data" /\ FfFits(v, s, off, len, zero) /\ FfPerform(v)
        BY <3>2, <4>3, <4>5
      <4> HIDE <1>1, <4>1, <4>5
      <4> QED BY <1>6, <2>2, <4>4, <4>6, FfDataLands
    <3> QED BY <3>1, <3>2
  <2>4. FfAt(FfChain(f), p)' = FfAt(s, p)'
    BY <1>3, <2>2 DEF FfAt
  <2> QED BY <2>2, <2>3, <2>4
<1>8. /\ Len(FfRead(f)') = FfSize(f)
      /\ \A i \in 1 .. FfSize(f) :
            FfAt(FfChain(f), i - 1)' = FfAt(FfChain(f), i - 1) => FfRead(f)'[i] = FfRead(f)[i]
  BY <1>3, <1>6, FfReadWhere
<1>9. /\ FfRead(ffCall.f) = FfRead(f) /\ FfSize(ffCall.f) = FfSize(f) /\ ffWas[ffCall.f] = ffWas[f]
      /\ FfRead(ffCall.f)' = FfRead(f)' /\ FfSize(ffCall.f)' = FfSize(f)'
      /\ ffWas'[ffCall'.f] = ffWas[f]
  BY <1>1 DEF FfRead, FfUnitsOf, FfChain, FfClus, FfSize
<1>10. FfAsFound(ffWas[f], FfRead(f))
  BY <1>2, <1>9 DEF FfBefore
<1>11. PICK new, old : new = FfRead(f)' /\ old = ffWas[f]
  OBVIOUS
<1>12. /\ FfRead(ffCall.f)' = new /\ ffWas'[ffCall'.f] = old /\ FfSize(ffCall.f)' = FfSize(f)
      /\ ffCall'.kind = ffCall.kind /\ ffCall'.off = off
  BY <1>1, <1>3, <1>9, <1>11
<1>13. CASE ffCall.kind = "rewrite"
  <2>1. Len(new) = Len(old)
    BY <1>6, <1>8, <1>10, <1>11, <1>13 DEF FfAsFound
  <2>2. ffCall'.kind = "rewrite"
    BY <1>12, <1>13
  <2> QED BY ONLY <1>5, <1>12, <2>1, <2>2 DEF FfAsFound
<1>14. CASE ffCall.kind = "patch"
  <2>1. /\ Len(FfRead(f)) = Len(ffWas[f]) /\ ffCall.len = 1
        /\ \A i \in 1 .. Len(ffWas[f]) : i # off + 1 => FfRead(f)[i] = ffWas[f][i]
    BY <1>1, <1>2, <1>10, <1>14 DEF FfAsFound, FfBefore
  <2>2. ASSUME NEW i \in 1 .. FfSize(f), i # off + 1 PROVE FfRead(f)'[i] = FfRead(f)[i]
    <3>1. i - 1 \in Nat /\ i - 1 < FfSize(f) /\ (i - 1 < off \/ i - 1 >= off + len)
      <4>1. len = 1
        BY <1>1, <2>1
      <4>2. i - 1 \in Nat /\ i - 1 < FfSize(f)
        BY <1>6
      <4> HIDE <1>1
      <4> QED BY <2>2, <4>1, <4>2
    <3>2. FfAt(FfChain(f), i - 1)' = FfAt(FfChain(f), i - 1)
      BY <1>7, <1>14, <3>1
    <3> QED BY <1>8, <3>2
  <2>3. Len(FfRead(f)') = Len(ffWas[f]) /\ FfSize(f) = Len(ffWas[f])
    BY <1>6, <1>8, <2>1
  <2>4. \A i \in 1 .. Len(ffWas[f]) : i # off + 1 => FfRead(f)'[i] = ffWas[f][i]
    BY <2>1, <2>2, <2>3
  <2>5. Len(new) = Len(old) /\ \A i \in 1 .. Len(old) : i # off + 1 => new[i] = old[i]
    BY <1>11, <2>3, <2>4
  <2>6. ffCall'.kind = "patch"
    BY <1>12, <1>14
  <2> QED BY ONLY <1>5, <1>12, <2>5, <2>6 DEF FfAsFound
<1>15. CASE ffCall.kind \notin {"rewrite", "patch"}
  <2>1. FfRead(f) = ffWas[f] /\ FfSize(f) = off
    BY <1>1, <1>9, <1>10, <1>15 DEF FfAsFound
  <2>2. \A p \in Nat : p < FfSize(f) => FfAt(FfChain(f), p)' = FfAt(FfChain(f), p)
    BY <1>7, <2>1
  <2>3. FfRead(f)' = FfRead(f)
    BY <1>3, <1>6, <2>2, FfReadStays
  <2>4. new = old /\ FfSize(ffCall.f)' = ffCall'.off
    BY <1>11, <1>12, <2>1, <2>3
  <2>5. ffCall'.kind \notin {"rewrite", "patch"}
    BY <1>12, <1>15
  <2> QED BY ONLY <1>5, <1>12, <2>4, <2>5 DEF FfAsFound
<1> QED BY <1>5, <1>13, <1>14, <1>15

(* The entry: the call is seen whole.                                      *)
LEMMA FfEntrySeen ==
    ASSUME FfInv, FfContent, ffCall # FfNone, ffCall.at = "write", ffTodo # << >>,
           Len(ffTodo) = 1, ffCall.kind # "patch", FfGrownTo <= Len(ffCall.chain),
           Head(ffTodo) = FfEntry(ffCall.f, FfFirst(ffCall.chain), ffCall.off + ffCall.len),
           FfPerform(Head(ffTodo)), ffTodo' = << >>,
           ffCall'.f = ffCall.f, ffCall'.kind = ffCall.kind, ffCall'.off = ffCall.off,
           ffCall'.len = ffCall.len, ffCall'.at = "write", ffWas' = ffWas, ffCount' = ffCount
    PROVE  FfContent'
<1>1. PICK f \in FfFiles, s \in Seq(FfClusters), off \in Nat, len \in Nat :
         f = ffCall.f /\ s = ffCall.chain /\ off = ffCall.off /\ len = ffCall.len
  BY FfCallIs
<1>0. PICK old : old = ffWas[f]
  OBVIOUS
<1>2. PICK cnt \in 0 .. FfCalls, kind \in {"append", "create", "rewrite"} :
         cnt = ffCount + 1 /\ kind = ffCall.kind
  <2>1. ffCall.kind \in {"append", "create", "rewrite"}
    BY FfCallIs DEF FfCallKinds
  <2>2. ffCount + 1 \in 0 .. FfCalls
    <3>1. ffCount \in 0 .. FfCalls /\ ffCount < FfCalls /\ FfCalls \in Nat
      BY FfCallIs, FfConstants DEF FfInv, FfTypeOK
    <3> QED BY ONLY <3>1
  <2> QED BY <2>1, <2>2
<1>3. /\ FfBefore /\ FfPending /\ FfChain(f) \in {s, << >>} /\ FfTypeOK
      /\ \A g \in FfFiles : g # f => FfRead(g) = ffWas[g]
  BY <1>1, FfLateHead DEF FfInv, FfContent
<1>4. /\ ffFat' = ffFat
      /\ \A g \in FfFiles : FfChain(g)' = IF g = f THEN s ELSE FfChain(g)
  BY <1>1, FfEnterIt
<1>5. /\ ffData' = ffData
      /\ ffDir' = [ffDir EXCEPT ![f] = [clus |-> FfFirst(s), size |-> off + len]]
      /\ Head(ffTodo).k = "dir"
  <2>1. /\ Head(ffTodo).k = "dir" /\ Head(ffTodo).f = f
        /\ Head(ffTodo).entry = [clus |-> FfFirst(s), size |-> off + len]
    BY <1>1 DEF FfEntry
  <2> QED BY <2>1, FfPerformKeeps
<1>6. FfSize(f)' = off + len /\ \A g \in FfFiles : g # f => FfSize(g)' = FfSize(g)
  <2>1. FfFirst(s) \in FfClusters \cup {0}
    <3>1. s # << >> => Head(s) \in FfClusters
      BY HeadTailProperties
    <3> QED BY <3>1 DEF FfFirst
  <2>2. off + len \in Nat
    OBVIOUS
  <2>3. [clus |-> FfFirst(s), size |-> off + len] # FfNone
    BY <2>1, <2>2, FfConstants DEF FfEntries
  <2>4. ffDir \in [FfFiles -> FfEntries \cup {FfNone}]
    BY <1>3 DEF FfTypeOK
  <2> QED BY <1>5, <2>3, <2>4 DEF FfSize
<1>7. \A g \in FfFiles : g # f => FfRead(g)' = FfRead(g)
  BY <1>4, <1>5, <1>6 DEF FfRead, FfUnitsOf
<1>8. FfRead(f)' = [i \in 1 .. off + len |-> FfAt(s, i - 1)]
  BY <1>4, <1>5, <1>6 DEF FfRead, FfUnitsOf, FfAt
<1>9. ASSUME NEW p \in off .. off + len - 1
      PROVE  FfAt(s, p) = IF kind = "create" THEN 0 ELSE cnt
  <2>1. \/ FfAt(s, p) = IF kind = "create" THEN 0 ELSE cnt
        \/ FfReached(ffTodo, s, p)
    BY <1>1, <1>2, <1>3 DEF FfPending, FfComing
  <2>2. ffTodo[1].k = "dir"
    BY <1>3, <1>5, EmptySeq DEF FfTypeOK
  <2>3. ~FfReached(ffTodo, s, p)
    BY <2>2 DEF FfReached
  <2> QED BY <2>1, <2>3
<1>10. \A i \in off + 1 .. off + len : FfAt(s, i - 1) = IF kind = "create" THEN 0 ELSE cnt
  <2>1. \A i \in off + 1 .. off + len : i - 1 \in off .. off + len - 1
    OBVIOUS
  <2> QED BY <1>9, <2>1
<1>11. FfAsFound(ffWas[ffCall.f], FfRead(ffCall.f))
       /\ (ffCall.kind \in {"create", "rewrite"} => ffCall.off = 0)
  BY <1>3 DEF FfBefore
<1>12. FfRead(ffCall.f) = FfRead(f) /\ FfSize(ffCall.f) = FfSize(f) /\ ffWas[ffCall.f] = ffWas[f]
  BY <1>1
<1>13. ASSUME kind = "append"
       PROVE  FfRead(f)' = old \o [i \in 1 .. len |-> cnt]
  <2>1. FfRead(f) = old /\ FfSize(f) = off
    BY <1>0, <1>1, <1>2, <1>11, <1>12, <1>13 DEF FfAsFound
  <2>2. /\ Len(old) = off /\ old \in Seq(0 .. FfCalls) /\ FfSectors(off) <= Len(FfChain(f))
        /\ \A i \in 1 .. off : old[i] = FfAt(FfChain(f), i - 1)
    BY <2>1, FfReadIs DEF FfInv, FfFilesOk
  <2>3. ASSUME NEW i \in 1 .. off PROVE old[i] = FfAt(s, i - 1)
    <3>1. 0 \in Nat /\ 0 < off
      OBVIOUS
    <3>2. 0 \div FfUnit \in Nat /\ 0 \div FfUnit + 1 <= FfSectors(off) /\ FfSectors(off) \in Nat
      BY <3>1, FfSectorsOf
    <3>3. Len(FfChain(f)) # 0
      BY <2>2, <3>2
    <3>4. FfChain(f) = s
      BY <1>3, <3>3
    <3> QED BY <2>2, <3>4
  <2>4. PICK h, t : h = FfRead(f)' /\ t = [i \in 1 .. len |-> cnt]
    OBVIOUS
  <2>5. t \in Seq(0 .. FfCalls) /\ Len(t) = len /\ \A i \in 1 .. len : t[i] = cnt
    BY <2>4
  <2>6. h = [i \in 1 .. off + len |-> FfAt(s, i - 1)]
    BY <1>8, <2>4
  <2>7. /\ \A i \in 1 .. off : h[i] = old[i]
        /\ \A i \in off + 1 .. off + len : h[i] = cnt
    <3>1. \A i \in 1 .. off : i \in 1 .. off + len
      OBVIOUS
    <3>2. \A i \in off + 1 .. off + len : i \in 1 .. off + len
      OBVIOUS
    <3> QED BY <1>10, <1>13, <2>3, <2>6, <3>1, <3>2
  <2>8. h \in Seq(0 .. FfCalls) /\ Len(h) = off + len
    <3>1. ASSUME NEW i \in 1 .. off + len PROVE FfAt(s, i - 1) \in 0 .. FfCalls
      <4>1. h[i] = FfAt(s, i - 1)
        BY <2>6
      <4>2. i \in 1 .. off \/ i \in off + 1 .. off + len
        OBVIOUS
      <4>3. i \in 1 .. off => old[i] \in 0 .. FfCalls
        BY <2>2, ElementOfSeq
      <4> QED BY <2>7, <4>1, <4>2, <4>3
    <3>2. off + len \in Nat
      OBVIOUS
    <3> QED BY <2>6, <3>1, <3>2
  <2> HIDE <2>4, <2>6
  <2> DEFINE both == old \o t
  <2>9. /\ both \in Seq(0 .. FfCalls) /\ Len(both) = Len(old) + Len(t)
        /\ \A i \in 1 .. Len(old) + Len(t) :
              both[i] = IF i <= Len(old) THEN old[i] ELSE t[i - Len(old)]
    <3>1. old \in Seq(0 .. FfCalls) /\ t \in Seq(0 .. FfCalls)
      BY <2>2, <2>5
    <3> QED BY ONLY <3>1, ConcatProperties DEF both
  <2> HIDE DEF both
  <2>10. /\ Len(both) = off + len
         /\ \A i \in 1 .. off + len : both[i] = IF i <= off THEN old[i] ELSE t[i - off]
    BY <2>2, <2>5, <2>9
  <2>11. ASSUME NEW i \in 1 .. off + len PROVE h[i] = both[i]
    <3>1. CASE i <= off
      <4>1. i \in 1 .. off
        BY <3>1
      <4> QED BY <2>7, <2>10, <3>1, <4>1
    <3>2. CASE ~(i <= off)
      <4>1. i \in off + 1 .. off + len /\ i - off \in 1 .. len
        BY <3>2
      <4> QED BY <2>5, <2>7, <2>10, <3>2, <4>1
    <3> QED BY <3>1, <3>2
  <2>12. h = both
    BY <2>8, <2>9, <2>10, <2>11, SeqEqual
  <2> QED BY <2>4, <2>12 DEF both
<1>14. ASSUME kind \in {"create", "rewrite"}
       PROVE  FfRead(f)' = [i \in 1 .. len |-> IF kind = "create" THEN 0 ELSE cnt]
  <2>1. off = 0
    BY <1>1, <1>2, <1>11, <1>14
  <2>2. \A i \in 1 .. len : FfAt(s, i - 1) = IF kind = "create" THEN 0 ELSE cnt
    BY <1>10, <2>1
  <2>3. off + len = len
    BY <2>1
  <2> QED BY <1>8, <2>2, <2>3
<1>15. PICK new : new = FfRead(f)'
  OBVIOUS
<1>16. /\ FfRead(ffCall.f)' = new /\ ffWas'[ffCall'.f] = old /\ ffCount' + 1 = cnt
       /\ ffCall'.kind = kind /\ ffCall'.len = len
  <2>1. FfRead(ffCall.f)' = FfRead(f)'
    BY <1>1 DEF FfRead, FfUnitsOf, FfChain, FfClus, FfSize
  <2> QED BY <1>0, <1>1, <1>2, <1>15, <2>1
<1>17. FfMayRead(ffWas[ffCall.f], FfRead(ffCall.f))'
  <2>1. CASE kind = "append"
    <3>1. new = old \o [i \in 1 .. len |-> cnt]
      BY <1>13, <1>15, <2>1
    <3>2. ffCall'.kind = "append"
      BY <1>16, <2>1
    <3> QED BY ONLY <1>16, <3>1, <3>2 DEF FfMayRead
  <2>2. CASE kind = "create"
    <3>1. new = [i \in 1 .. len |-> 0]
      BY <1>14, <1>15, <2>2
    <3>2. ffCall'.kind = "create"
      BY <1>16, <2>2
    <3> QED BY ONLY <1>16, <3>1, <3>2 DEF FfMayRead
  <2>3. CASE kind = "rewrite"
    <3>1. new = [i \in 1 .. len |-> cnt]
      BY <1>14, <1>15, <2>3
    <3>2. ffCall'.kind = "rewrite"
      BY <1>16, <2>3
    <3> QED BY ONLY <1>16, <3>1, <3>2 DEF FfMayRead
  <2> QED BY <2>1, <2>2, <2>3
<1>18. FfAfter'
  BY <1>17 DEF FfAfter
<1>19. \A g \in FfFiles : g # ffCall'.f => FfRead(g)' = ffWas'[g]
  BY <1>1, <1>3, <1>7
<1> QED BY <1>18, <1>19 DEF FfContent

(* A write of a call that has its clusters.                                *)
LEMMA FfLateWriteContent ==
    ASSUME FfInv, FfContent, FfWrite, ffCall # FfNone, ffCall.at = "write"
    PROVE  FfContent'
<1>1. /\ ffTodo # << >> /\ FfPerform(Head(ffTodo)) /\ ffTodo' = Tail(ffTodo) /\ ffCall' = ffCall
      /\ ffWas' = ffWas /\ ffCount' = ffCount
  BY DEF FfWrite
<1>2. /\ FfBefore /\ FfPending
      /\ \/ Head(ffTodo).k \in {"data", "hint"}
         \/ /\ Len(ffTodo) = 1 /\ ffCall.kind # "patch" /\ FfGrownTo <= Len(ffCall.chain)
            /\ Head(ffTodo) = FfEntry(ffCall.f, FfFirst(ffCall.chain), ffCall.off + ffCall.len)
  BY <1>1, FfLateHead
<1>3. FfTypeOK /\ ffTodo \in Seq(FfWrites)
  BY DEF FfInv, FfTypeOK
<1>4. CASE Head(ffTodo).k \in {"data", "hint"}
  <2>1. /\ FfAsFound(ffWas[ffCall.f], FfRead(ffCall.f))'
        /\ \A g \in FfFiles : g # ffCall'.f => FfRead(g)' = ffWas'[g]
    BY <1>1, <1>4, FfLateSeen
  <2>2. PICK s \in Seq(FfClusters), off \in Nat, len \in Nat, t \in Seq(FfWrites),
             y \in Seq(FfWrites) :
           s = ffCall.chain /\ off = ffCall.off /\ len = ffCall.len /\ t = ffTodo /\ y = Tail(t)
    BY <1>1, <1>3, FfCallIs, HeadTailProperties
  <2>3. PICK kind : kind = ffCall.kind
    OBVIOUS
  <2>4. /\ ffTodo' = y /\ ffCall'.chain = s /\ ffCall'.off = off /\ ffCall'.len = len
        /\ ffCall'.kind = kind
    BY <1>1, <2>2, <2>3
  <2>5. /\ t # << >> /\ FfComing(t, s, off, len, kind) /\ FfPerform(Head(t))
        /\ Head(t).k \in {"data", "hint"} /\ ffCount' = ffCount
    BY <1>1, <1>2, <1>4, <2>2, <2>3 DEF FfPending
  <2>6. FfComing(y, s, off, len, kind)'
    <3>1. y = Tail(t)
      BY <2>2
    <3>2. FfComing(Tail(t), s, off, len, kind)'
      BY ONLY <1>3, <2>5, FfComingKept, s \in Seq(FfClusters), off \in Nat, len \in Nat,
              t \in Seq(FfWrites)
    <3> QED BY ONLY <3>1, <3>2
  <2>7. FfPending'
    BY ONLY <2>4, <2>6 DEF FfPending, FfComing, FfFits, FfReached, FfAt, FfSectors
  <2>8. FfBefore'
    BY <1>1, <1>2, <2>1, <2>7 DEF FfBefore
  <2> QED BY <2>1, <2>8 DEF FfContent
<1>5. CASE Head(ffTodo).k \notin {"data", "hint"}
  <2>1. Tail(ffTodo) = << >>
    <3>1. Len(Tail(ffTodo)) = 0 /\ Tail(ffTodo) \in Seq(FfWrites)
      BY <1>1, <1>2, <1>3, <1>5, HeadTailProperties
    <3> QED BY <3>1, EmptySeq
  <2> QED BY <1>1, <1>2, <1>5, <2>1, FfEntrySeen
<1> QED BY <1>4, <1>5

(* Or it is cut short there.                                               *)
LEMMA FfLateStopsContent ==
    ASSUME FfInv, FfContent, FfStops, ffCall # FfNone, ffCall.at = "write"
    PROVE  FfContent'
<1>1. /\ ffTodo # << >> /\ ffTodo' = << >> /\ ffWas' = ffWas /\ ffCount' = ffCount
      /\ ffCall' = [ffCall EXCEPT !.at = "write"]
      /\ FfPerform(Head(ffTodo)) \/ UNCHANGED <<ffFat, ffData, ffDir, ffHint>>
  BY DEF FfStops
<1>2. /\ FfBefore
      /\ \/ Head(ffTodo).k \in {"data", "hint"}
         \/ /\ Len(ffTodo) = 1 /\ ffCall.kind # "patch" /\ FfGrownTo <= Len(ffCall.chain)
            /\ Head(ffTodo) = FfEntry(ffCall.f, FfFirst(ffCall.chain), ffCall.off + ffCall.len)
  BY <1>1, FfLateHead
<1>3. /\ ffCall'.f = ffCall.f /\ ffCall'.kind = ffCall.kind /\ ffCall'.off = ffCall.off
      /\ ffCall'.len = ffCall.len /\ ffCall'.at = "write" /\ ffCall' # FfNone
  BY <1>1, FfCallIs, FfConstants DEF FfCallKinds
<1>4. ASSUME /\ FfAsFound(ffWas[ffCall.f], FfRead(ffCall.f))'
             /\ \A g \in FfFiles : g # ffCall'.f => FfRead(g)' = ffWas'[g]
      PROVE  FfContent'
  <2>1. FfBefore'
    BY <1>1, <1>2, <1>3, <1>4 DEF FfBefore
  <2> QED BY <1>4, <2>1 DEF FfContent
<1>5. CASE UNCHANGED <<ffFat, ffData, ffDir, ffHint>>
  <2>1. \A g \in FfFiles : FfRead(g)' = FfRead(g) /\ FfSize(g)' = FfSize(g)
    BY <1>5, FfReadsStill
  <2> QED BY <1>1, <1>2, <1>3, <1>4, <2>1, FfSeenSame
<1>6. CASE FfPerform(Head(ffTodo)) /\ Head(ffTodo).k \in {"data", "hint"}
  BY <1>1, <1>3, <1>4, <1>6, FfLateSeen
<1>7. CASE FfPerform(Head(ffTodo)) /\ Head(ffTodo).k \notin {"data", "hint"}
  BY <1>1, <1>2, <1>3, <1>7, FfEntrySeen
<1> QED BY <1>1, <1>5, <1>6, <1>7

LEMMA FfContentStep ==
    ASSUME "walk" \notin FfFaults, FfInv, FfContent, [FfNext]_ffVars PROVE FfContent'
<1>1. CASE FfGrow
  BY <1>1, FfGrowContent
<1>2. CASE UNCHANGED ffVars
  BY <1>2, FfStutterContent
<1>3. CASE \E f \in FfFiles : FfCalled(f)
  BY <1>3, FfCalledContent
<1>4. CASE FfFill
  BY <1>4, FfFillContent
<1>5. ASSUME FfWrite \/ FfStops PROVE ffCall # FfNone /\ ffCall.at \in {"grow", "write"}
  <2>1. ffCall # FfNone
    BY <1>5 DEF FfWrite, FfStops, FfInv, FfShape
  <2> QED BY <2>1, FfCallIs
<1>6. CASE FfWrite
  BY <1>5, <1>6, FfGrowWriteContent, FfLateWriteContent
<1>7. CASE FfReturn
  BY <1>7, FfReturnContent
<1>8. CASE FfStops
  BY <1>5, <1>8, FfGrowStopsContent, FfLateStopsContent
<1> QED BY <1>1, <1>2, <1>3, <1>4, <1>6, <1>7, <1>8 DEF FfNext

(* FfAppendAtomic: between any two sector writes of any call, and after    *)
(* one that was cut short, an append, a new file and a rewrite to another  *)
(* length are seen whole or not at all, what was there before is kept, and *)
(* no other file has changed.                                              *)
THEOREM FfWholeOrNot ==
    ASSUME "walk" \notin FfFaults PROVE FfSpec => []FfAppendAtomic
<1>1. FfInit => FfContent
  BY DEF FfInit, FfContent
<1>2. FfInv /\ FfContent /\ [FfNext]_ffVars => FfContent'
  BY FfContentStep
<1>3. ASSUME FfInv, FfContent PROVE FfAppendAtomic
  <2> SUFFICES ASSUME ffCall # FfNone, NEW f \in FfFiles
               PROVE  \/ FfRead(f) = ffWas[f]
                      \/ f = ffCall.f /\ FfMayRead(ffWas[f], FfRead(f))
    BY DEF FfAppendAtomic
  <2>1. (\A g \in FfFiles : g # ffCall.f => FfRead(g) = ffWas[g]) /\ (FfBefore \/ FfAfter)
    BY <1>3 DEF FfContent
  <2>2. CASE f # ffCall.f
    BY <2>1, <2>2
  <2>3. CASE f = ffCall.f
    <3>1. /\ FfRead(ffCall.f) = FfRead(f) /\ ffWas[ffCall.f] = ffWas[f]
      BY <2>3
    <3>2. CASE FfAfter
      BY <2>3, <3>1, <3>2 DEF FfAfter
    <3>3. CASE FfBefore
      <4>1. FfAsFound(ffWas[f], FfRead(f))
        BY <3>1, <3>3 DEF FfBefore
      <4> QED BY <2>3, <4>1 DEF FfAsFound, FfMayRead
    <3> QED BY <2>1, <3>2, <3>3
  <2> QED BY <2>2, <2>3
<1> QED BY <1>1, <1>2, <1>3, FfInvAlways, PTL DEF FfSpec

-----------------------------------------------------------------------------
(* The components that write to the flash, side by side.                   *)

(* Each one behaves as it does on its own, whatever the focus is.          *)
THEOREM StorageIsEach ==
    StorageSpec => FwSpec /\ StSpec /\ MdSpec /\ FfSpec /\ LgSpec
<1>1. StorageInit => FwInit /\ StInit /\ MdInit /\ FfInit /\ LgInit
  BY DEF StorageInit
<1>2. [StorageNext]_<<focus, fwVars, stVars, mdVars, ffVars, lgVars>> =>
         /\ [FwNext]_fwVars /\ [StStep]_stVars /\ [MdNext]_mdVars
         /\ [FfNext]_ffVars /\ [LgNext]_lgVars
  <2> SUFFICES ASSUME [StorageNext]_<<focus, fwVars, stVars, mdVars, ffVars, lgVars>>
               PROVE  /\ [FwNext]_fwVars /\ [StStep]_stVars /\ [MdNext]_mdVars
                      /\ [FfNext]_ffVars /\ [LgNext]_lgVars
    OBVIOUS
  <2>1. CASE UNCHANGED <<focus, fwVars, stVars, mdVars, ffVars, lgVars>>
    BY <2>1
  <2>2. CASE StorageNext
    BY <2>2 DEF StorageNext
  <2> QED BY <2>1, <2>2
<1> QED BY <1>1, <1>2, PTL DEF StorageSpec, FwSpec, StSpec, MdSpec, FfSpec, LgSpec

(* Every variable of the components that write to the flash keeps its      *)
(* type, whatever fails but the reading of the FAT.                        *)
THEOREM StorageTypes ==
    ASSUME "walk" \notin FfFaults PROVE StorageSpec => []StorageTypeOK
<1>1. FwTypeOK /\ StTypeOK /\ MdTypeOK /\ FfTypeOK /\ LgTypeOK => StorageTypeOK
  BY DEF StorageTypeOK
<1> QED BY <1>1, StorageIsEach, FwTypeCorrect, StTypes, MdTypes, FfTypes, LgTypes, PTL

(* What is proved of each component holds of them side by side: the header *)
(* goes last, one slot boots, a record and the index are the last ones     *)
(* saved, files do not cross, leak or change in part, and no line of the   *)
(* log is lost in silence.                                                 *)
THEOREM StorageSafe ==
    ASSUME "walk" \notin FfFaults
    PROVE  StorageSpec => /\ []FwHeaderLast /\ []FwOneSlotWholeAtFirst /\ FwRetiredIfInstalled
                          /\ StRegister /\ []MdHandleWhole /\ MdIndex
                          /\ []FfChainsApart /\ []FfNothingLost /\ []FfAppendAtomic
                          /\ []LgNoneMissing
BY StorageIsEach, FwHeaderGoesLast, FwNeverBricks, FwRetiresLast, StKeepsRegister, MdHandlesWhole,
   MdKeepsIndex, FfNeverCross, FfNeverLeaks, FfWholeOrNot, LgNeverMissing, PTL
=============================================================================
