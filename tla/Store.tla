-------------------------------- MODULE Store --------------------------------
(***************************************************************************)
(* The two-slot record store over raw sectors (firmware/services/store.c). *)
(* A slot is a header sector, written last, and the payload's sectors.  A  *)
(* payload sector is the record it belongs to, or damaged; the checksums   *)
(* are modelled by what they tell: a header sector is a header or not      *)
(* valid, a payload matches its header when every sector is that record's. *)
(* Records fill StPayLen sectors, all within their slot.                   *)
(***************************************************************************)
EXTENDS Integers

CONSTANTS
    StRecords,      \* what is saved
    StPayLen,       \* sectors of a payload
    StSeqMod,       \* sequence numbers are taken modulo this, 2^32
    StFirstSeqs,    \* sequence numbers a formatted store starts from
    StSaves,        \* bound: saves begun
    StFaults,       \* a subset of StFaultKinds
    StNone          \* no valid header, no record, a damaged sector

StFaultKinds == {"error",   \* a write fails and says so
                 "bad",     \* a write damages its sector and says it is well
                 "read",    \* a sector cannot be read this time
                 "power"}   \* power is lost

ASSUME StAssumption ==
    /\ StPayLen \in Nat
    /\ StSeqMod \in Nat /\ StSeqMod > 2 /\ StFirstSeqs \subseteq 0 .. StSeqMod - 1
    /\ StSaves \in Nat /\ StFaults \subseteq StFaultKinds
    /\ StNone \notin StRecords
    /\ StNone \notin [seq : 0 .. StSeqMod - 1, rec : StRecords]

VARIABLES
    stHead,         \* slot -> [seq, rec] or StNone
    stPay,          \* slot -> payload sector -> record or StNone
    stPc,           \* where store_save is: "idle", "payload", "header", "verify"
    stTarget,       \* target
    stSeq,          \* seq
    stRec,          \* data, StNone when nothing is being saved
    stNext,         \* the next payload sector
    stResult,       \* what the last save came to
    stCount,        \* saves begun
    stBlind,        \* history: this save could not read a valid header
    stMedia         \* history: a sector went bad unnoticed or could not be read

stVars == <<stHead, stPay, stPc, stTarget, stSeq, stRec, stNext, stResult, stCount,
            stBlind, stMedia>>

StSlots == {0, 1}
StSectors == 1 .. StPayLen
StSeqs == 0 .. StSeqMod - 1
StHeads == [seq : StSeqs, rec : StRecords] \cup {StNone}

StValid(s) == stHead[s] # StNone

(* Mutant: the numbers are compared as they are.                           *)
StNewerPlain(a, b) == a > b

(* seq_newer: a - b, taken as a signed number of its width, is positive.   *)
StNewer(a, b) ==
    LET d == IF a >= b THEN a - b ELSE a - b + StSeqMod
    IN  0 < d /\ 2 * d < StSeqMod

StSucc(a) == IF a + 1 = StSeqMod THEN 0 ELSE a + 1

(* The slot that counts as the newest among those whose header was seen.   *)
StNewest(seen) ==
    IF seen = StSlots
    THEN IF StNewer(stHead[0].seq, stHead[1].seq) THEN 0 ELSE 1
    ELSE IF 0 \in seen THEN 0 ELSE 1

StSound(s) == StValid(s) /\ \A i \in StSectors : stPay[s][i] = stHead[s].rec

StHeaders == {s \in StSlots : StValid(s)}

(* store_load: the newest slot, or the other when that one is damaged.     *)
StLoaded ==
    LET n == StNewest(StHeaders)
    IN  IF StHeaders # {} /\ StSound(n) THEN stHead[n].rec
        ELSE IF StHeaders = StSlots /\ StSound(1 - n) THEN stHead[1 - n].rec
        ELSE StNone

(* A fresh region, or the slots as an earlier save left them.              *)
StInit ==
    /\ \/ stHead = [s \in StSlots |-> StNone]
       \/ \E q \in StFirstSeqs, n \in StSlots, r \in [StSlots -> StRecords] :
             stHead = [s \in StSlots |-> [seq |-> IF s = n THEN StSucc(q) ELSE q, rec |-> r[s]]]
    /\ stPay = [s \in StSlots |-> [i \in StSectors |->
                   IF stHead[s] = StNone THEN StNone ELSE stHead[s].rec]]
    /\ stPc = "idle" /\ stTarget = 0 /\ stSeq = 0 /\ stRec = StNone /\ stNext = 1
    /\ stResult = "none" /\ stCount = 0 /\ stBlind = FALSE /\ stMedia = FALSE

(* The invalid or older slot.                                              *)
StTargetOf(seen) == IF seen = {} THEN 0 ELSE 1 - StNewest(seen)

StSeqOf(seen) == IF seen = {} THEN 1 ELSE StSucc(stHead[StNewest(seen)].seq)

(* store_save begins: both headers are read, and seen are the valid ones   *)
(* that could be.                                                          *)
StSave(r) ==
    /\ stPc = "idle" /\ stCount < StSaves
    /\ \E seen \in SUBSET StHeaders :
          /\ seen # StHeaders => "read" \in StFaults
          /\ stTarget' = StTargetOf(seen) /\ stSeq' = StSeqOf(seen)
          /\ stBlind' = (seen # StHeaders)
          /\ stMedia' = (stMedia \/ seen # StHeaders)
    /\ stRec' = r /\ stNext' = 1
    /\ stPc' = IF StPayLen = 0 THEN "header" ELSE "payload"
    /\ stResult' = "none" /\ stCount' = stCount + 1
    /\ UNCHANGED <<stHead, stPay>>

StEnd(res) ==
    /\ stPc' = "idle" /\ stResult' = res
    /\ stRec' = StNone /\ stBlind' = FALSE
    /\ UNCHANGED <<stTarget, stSeq, stNext, stCount>>

StPutPayload(c) ==
    /\ stPay' = [stPay EXCEPT ![stTarget][stNext] = c]
    /\ UNCHANGED stHead

StPutHeader(c) ==
    /\ stHead' = [stHead EXCEPT ![stTarget] = c]
    /\ UNCHANGED stPay

StHeader == [seq |-> stSeq, rec |-> stRec]

(* A sector that the device calls written, and is not always.              *)
StWritten(c) ==
    /\ c = StNone => "bad" \in StFaults
    /\ stMedia' = (stMedia \/ c = StNone)
    /\ UNCHANGED <<stTarget, stSeq, stRec, stResult, stCount, stBlind>>

StWritePayload ==
    /\ stPc = "payload"
    /\ \E c \in {stRec, StNone} :
          /\ StPutPayload(c) /\ StWritten(c)
          /\ stNext' = stNext + 1
          /\ stPc' = IF stNext = StPayLen THEN "header" ELSE "payload"

(* The commit point.                                                       *)
StWriteHeader ==
    /\ stPc = "header"
    /\ \E c \in {StHeader, StNone} :
          /\ StPutHeader(c) /\ StWritten(c)
          /\ stPc' = "verify" /\ UNCHANGED stNext

(* A write fails or is cut short: the sector is as it was, as it should be *)
(* or damaged, and store_save ends.                                        *)
StStops ==
    \E res \in {"error", "cut"} :
       /\ res = "error" => "error" \in StFaults
       /\ res = "cut" => "power" \in StFaults
       /\ \/ /\ stPc = "payload"
             /\ \E c \in {stPay[stTarget][stNext], stRec, StNone} : StPutPayload(c)
          \/ /\ stPc = "header"
             /\ \E c \in {stHead[stTarget], StHeader, StNone} : StPutHeader(c)
       /\ StEnd(res) /\ UNCHANGED stMedia

StVerified ==
    /\ stHead[stTarget] = StHeader
    /\ \A i \in StSectors : stPay[stTarget][i] = stRec

(* The record reads back equal or not, or cannot be read; or power is lost *)
(* meanwhile.                                                              *)
StVerify ==
    /\ stPc = "verify"
    /\ \/ StEnd(IF StVerified THEN "ok" ELSE "error") /\ UNCHANGED stMedia
       \/ "read" \in StFaults /\ StEnd("error") /\ stMedia' = TRUE
       \/ "power" \in StFaults /\ StEnd("cut") /\ UNCHANGED stMedia
    /\ UNCHANGED <<stHead, stPay>>

StStep ==
    \/ \E r \in StRecords : StSave(r)
    \/ StWritePayload \/ StWriteHeader \/ StStops \/ StVerify

StSpec == StInit /\ [][StStep]_stVars

-----------------------------------------------------------------------------
(* Every variable has its type.                                            *)
StTypeOK ==
    /\ stHead \in [StSlots -> StHeads]
    /\ stPay \in [StSlots -> [StSectors -> StRecords \cup {StNone}]]
    /\ stPc \in {"idle", "payload", "header", "verify"}
    /\ stTarget \in StSlots /\ stSeq \in StSeqs
    /\ stRec \in StRecords \cup {StNone}
    /\ stNext \in 1 .. StPayLen + 1
    /\ stPc = "payload" => stNext \in StSectors
    /\ stRec = StNone <=> stPc = "idle"
    /\ stResult \in {"none", "ok", "error", "cut"}
    /\ stCount \in 0 .. StSaves
    /\ stBlind \in BOOLEAN /\ stMedia \in BOOLEAN

(* The medium has let the store down: the newest header stands for a       *)
(* damaged payload, or this save was placed without seeing a valid header. *)
StWeak == stBlind \/ (StHeaders # {} /\ ~StSound(StNewest(StHeaders)))

(* What is abstract of the store.                                          *)
Register == INSTANCE RecordRegister WITH
    Records <- StRecords, Empty <- StNone,
    value <- StLoaded, job <- stRec, weak <- StWeak, result <- stResult

(* store.h: a load gives the previous record until the new one is whole,   *)
(* and an OK is for a record that a load now gives, unless the medium      *)
(* damaged a sector unnoticed or could not read one: no write that fails   *)
(* and no power cut "at any point" brings the store down.                  *)
StRegister == Register!Spec /\ [](StWeak => stMedia)
=============================================================================
