------------------------------- MODULE MediaDb -------------------------------
(***************************************************************************)
(* The media index in two slot files (firmware/services/media_db.c), built *)
(* by scan_run of media_scan.c, run and reported by index_run of ap_ui.c   *)
(* and read through the one handle s_rd.  A build is a generation; the     *)
(* records of a slot are the generation they belong to once all of them    *)
(* are there, 0 before.  A header is its sequence number, 0 when it has    *)
(* not the shape of one, and the generation its checksum was made for: 0   *)
(* for a header that was torn and matches no records.  A header that is    *)
(* there may go unread: fs_open_read has four handles to give, and a read  *)
(* may fail; read_hdr then takes the slot for one without an index.        *)
(***************************************************************************)
EXTENDS Integers

CONSTANTS
    MdBuilds,       \* bound: builds begun
    MdChunks,       \* chunks the records of a build are appended in
    MdFaults,       \* a subset of MdFaultKinds
    MdClosed        \* s_rd = 0

MdFaultKinds == {"io",      \* a truncation, an append or a patch fails
                 "read",    \* a file does not open for reading, or cannot be read
                 "power"}

ASSUME MdAssumption ==
    /\ MdBuilds \in Nat /\ MdChunks \in Nat \ {0}
    /\ MdFaults \subseteq MdFaultKinds /\ MdClosed \notin {0, 1}

VARIABLES
    mdSeq, mdCrc,   \* slot -> seq and crc of its header
    mdRecs,         \* slot -> the generation of its records
    mdPc,           \* where scan_run is: "idle", "truncate", "append", "number",
                    \* "commit"
    mdTarget,       \* s_build_slot
    mdGen,          \* the generation being built, 0 when none is
    mdChunk,        \* chunks appended
    mdNew,          \* the number of the header about to be written, 0 before
    mdRd, mdRdGen,  \* the slot s_rd reads, and what it held when it was verified
    mdOpened,       \* opened of scan_run: the handle is its own
    mdResult,       \* of the last build
    mdCount,        \* builds begun
    mdHurt          \* history: a commit was torn or failed, or a header that
                    \* is there was not read

mdVars == <<mdSeq, mdCrc, mdRecs, mdPc, mdTarget, mdGen, mdChunk, mdNew, mdRd,
            mdRdGen, mdOpened, mdResult, mdCount, mdHurt>>

mdSlots == <<mdSeq, mdCrc, mdRecs>>
mdHandle == <<mdRd, mdRdGen>>

MdSlots == {0, 1}
MdGens == 1 .. MdBuilds

MdShape(s) == mdSeq[s] > 0

(* read_hdr and verify_hdr                                                 *)
MdGood(s) == MdShape(s) /\ mdCrc[s] # 0 /\ mdRecs[s] = mdCrc[s]

(* The slots whose headers are there.                                      *)
MdThere == {s \in MdSlots : MdShape(s)}

(* Those read_hdr may report: any of them can go unread.                   *)
MdReads == IF "read" \in MdFaults THEN SUBSET MdThere ELSE {MdThere}

(* The slot whose header counts as the newest of those that were read.     *)
MdFirstOf(seen) == IF 0 \in seen /\ (1 \in seen => mdSeq[0] >= mdSeq[1]) THEN 0 ELSE 1

MdFirst == MdFirstOf(MdThere)

(* media_db_open: the newest slot, then the older one.                     *)
MdOpens ==
    IF MdGood(MdFirst) THEN MdFirst
    ELSE IF MdGood(1 - MdFirst) THEN 1 - MdFirst ELSE MdClosed

(* What an open that cannot read everything may end with: any good slot,   *)
(* when the other is not read, or none.                                    *)
MdOpenings ==
    IF "read" \in MdFaults THEN {s \in MdSlots : MdGood(s)} \cup {MdClosed} ELSE {MdOpens}

(* The generation a reader gets who can read the headers.                  *)
MdCurrent == IF MdOpens = MdClosed THEN 0 ELSE mdCrc[MdOpens]

MdInit ==
    /\ mdSeq = [s \in MdSlots |-> 0] /\ mdCrc = [s \in MdSlots |-> 0]
    /\ mdRecs = [s \in MdSlots |-> 0]
    /\ mdPc = "idle" /\ mdTarget = 0 /\ mdGen = 0 /\ mdChunk = 0 /\ mdNew = 0
    /\ mdRd = MdClosed /\ mdRdGen = 0 /\ mdOpened = FALSE
    /\ mdResult = "none" /\ mdCount = 0 /\ mdHurt = FALSE

MdReopen ==
    /\ mdRd' \in MdOpenings
    /\ mdRdGen' = IF mdRd' = MdClosed THEN 0 ELSE mdCrc[mdRd']

MdCloses == mdRd' = MdClosed /\ mdRdGen' = 0

(* A query opens the index and leaves it open, or media_resolve does.      *)
MdQuery ==
    /\ mdPc = "idle" /\ MdReopen /\ mdHurt' = (mdHurt \/ mdRd' # MdOpens)
    /\ UNCHANGED <<mdSlots, mdPc, mdTarget, mdGen, mdChunk, mdNew, mdOpened, mdResult, mdCount>>

(* A query closes it.                                                      *)
MdClose ==
    /\ mdPc = "idle" /\ mdRd # MdClosed /\ MdCloses
    /\ UNCHANGED <<mdSlots, mdPc, mdTarget, mdGen, mdChunk, mdNew, mdOpened, mdResult,
                   mdCount, mdHurt>>

(* Mutant: the slot of the newest header is built over.                    *)
MdTargetFirst(seen) == MdFirstOf(seen)

MdTargetOf(seen) == 1 - MdFirstOf(seen)

(* scan_run: an update reopens the index, to look its records up; then     *)
(* media_db_begin picks the slot that is not current, of the headers seen. *)
MdBegin(update, seen) ==
    /\ mdPc = "idle" /\ mdCount < MdBuilds
    /\ IF update
          THEN MdReopen /\ mdOpened' = (mdRd = MdClosed /\ mdRd' # MdClosed)
          ELSE UNCHANGED mdHandle /\ mdOpened' = FALSE
    /\ mdTarget' = MdTargetOf(seen) /\ mdGen' = mdCount + 1 /\ mdChunk' = 0
    /\ mdPc' = "truncate" /\ mdResult' = "none" /\ mdCount' = mdCount + 1
    /\ mdHurt' = (mdHurt \/ seen # MdThere \/ (update /\ mdRd' # MdOpens))
    /\ UNCHANGED <<mdSlots, mdNew>>

MdEmptied ==
    /\ mdSeq' = [mdSeq EXCEPT ![mdTarget] = 0]
    /\ mdCrc' = [mdCrc EXCEPT ![mdTarget] = 0]
    /\ mdRecs' = [mdRecs EXCEPT ![mdTarget] = 0]

(* fs_truncate, and the header sector reserved.                            *)
MdTruncate ==
    /\ mdPc = "truncate" /\ MdEmptied
    /\ mdPc' = "append"
    /\ UNCHANGED <<mdTarget, mdGen, mdChunk, mdNew, mdHandle, mdOpened, mdResult, mdCount,
                   mdHurt>>

(* Mutant: the last chunk is left in the buffer.                           *)
MdAppendUnflushed ==
    /\ mdPc = "append"
    /\ mdChunk' = mdChunk + 1 /\ UNCHANGED mdRecs
    /\ mdPc' = IF mdChunk + 1 = MdChunks THEN "number" ELSE "append"
    /\ UNCHANGED <<mdSeq, mdCrc, mdTarget, mdGen, mdNew, mdHandle, mdOpened, mdResult,
                   mdCount, mdHurt>>

(* Mutant: one chunk is written twice.                                     *)
MdAppendTwice ==
    /\ mdPc = "append"
    /\ mdChunk' = mdChunk + 1
    /\ mdRecs' = [mdRecs EXCEPT ![mdTarget] = IF mdChunk = MdChunks THEN mdGen ELSE 0]
    /\ mdPc' = IF mdChunk = MdChunks THEN "number" ELSE "append"
    /\ UNCHANGED <<mdSeq, mdCrc, mdTarget, mdGen, mdNew, mdHandle, mdOpened, mdResult,
                   mdCount, mdHurt>>

(* flush_chunk                                                             *)
MdAppend ==
    /\ mdPc = "append"
    /\ mdChunk' = mdChunk + 1
    /\ mdRecs' = [mdRecs EXCEPT ![mdTarget] = IF mdChunk + 1 = MdChunks THEN mdGen ELSE 0]
    /\ mdPc' = IF mdChunk + 1 = MdChunks THEN "number" ELSE "append"
    /\ UNCHANGED <<mdSeq, mdCrc, mdTarget, mdGen, mdNew, mdHandle, mdOpened, mdResult,
                   mdCount, mdHurt>>

(* One past the newest header that is read, whichever slot it is in.       *)
MdNextSeq(seen) ==
    LET seq == [s \in MdSlots |-> IF s \in seen THEN mdSeq[s] ELSE 0]
    IN  1 + IF seq[0] > seq[1] THEN seq[0] ELSE seq[1]

(* media_db_end reads the headers again, to number the one it will write.  *)
MdNumber(seen) ==
    /\ mdPc = "number"
    /\ mdNew' = MdNextSeq(seen) /\ mdPc' = "commit"
    /\ mdHurt' = (mdHurt \/ seen # MdThere)
    /\ UNCHANGED <<mdSlots, mdTarget, mdGen, mdChunk, mdHandle, mdOpened, mdResult, mdCount>>

(* The header that fs_patch leaves in the target: none, torn or whole.     *)
MdHeader(crc) ==
    /\ mdSeq' = [mdSeq EXCEPT ![mdTarget] = mdNew]
    /\ mdCrc' = [mdCrc EXCEPT ![mdTarget] = crc]

MdDone(res) ==
    /\ mdPc' = "idle" /\ mdGen' = 0 /\ mdNew' = 0 /\ mdResult' = res /\ mdOpened' = FALSE
    /\ UNCHANGED <<mdTarget, mdChunk, mdCount>>

(* media_db_end: the commit; index_run opens the new index and closes it.  *)
MdCommit ==
    /\ mdPc = "commit" /\ MdHeader(mdGen)
    /\ MdCloses /\ MdDone("ok")
    /\ UNCHANGED <<mdRecs, mdHurt>>

(* The handle after scan_run failed: closed if it was scan_run's own.      *)
MdRestored == IF mdOpened THEN MdCloses ELSE UNCHANGED mdHandle

(* The user gives up, or a truncation or an append fails (media_db_abort). *)
MdAbort ==
    /\ \/ mdPc = "append" /\ UNCHANGED mdSlots
       \/ mdPc = "truncate" /\ "io" \in MdFaults /\ (MdEmptied \/ UNCHANGED mdSlots)
    /\ MdRestored /\ MdDone("error")
    /\ UNCHANGED mdHurt

(* fs_patch fails: the header is not there, torn, or there.                *)
MdCommitFails ==
    /\ mdPc = "commit" /\ "io" \in MdFaults
    /\ UNCHANGED <<mdSeq, mdCrc>> \/ MdHeader(0) \/ MdHeader(mdGen)
    /\ MdRestored /\ MdDone("error")
    /\ mdHurt' = TRUE /\ UNCHANGED mdRecs

(* Power is lost during a build.                                           *)
MdPowerCut ==
    /\ "power" \in MdFaults /\ mdPc # "idle"
    /\ \/ UNCHANGED <<mdSlots, mdHurt>>
       \/ mdPc = "truncate" /\ MdEmptied /\ UNCHANGED mdHurt
       \/ mdPc = "commit" /\ MdHeader(mdGen) /\ UNCHANGED <<mdRecs, mdHurt>>
       \/ mdPc = "commit" /\ MdHeader(0) /\ mdHurt' = TRUE /\ UNCHANGED mdRecs
    /\ MdCloses /\ MdDone("cut")

MdBuild ==
    \/ MdTruncate \/ MdAppend \/ MdCommit \/ MdAbort \/ MdCommitFails
    \/ \E seen \in MdReads : MdNumber(seen)

MdNext ==
    \/ MdQuery \/ MdClose
    \/ \E update \in BOOLEAN : \E seen \in MdReads : MdBegin(update, seen)
    \/ MdBuild \/ MdPowerCut

MdSpec == MdInit /\ [][MdNext]_mdVars

-----------------------------------------------------------------------------
(* Every variable has its type.                                            *)
MdTypeOK ==
    /\ mdSeq \in [MdSlots -> 0 .. MdBuilds]
    /\ mdCrc \in [MdSlots -> 0 .. MdBuilds] /\ mdRecs \in [MdSlots -> 0 .. MdBuilds]
    /\ mdPc \in {"idle", "truncate", "append", "number", "commit"}
    /\ mdTarget \in MdSlots /\ mdGen \in 0 .. MdBuilds /\ mdChunk \in 0 .. MdChunks
    /\ mdNew \in 0 .. MdBuilds
    /\ mdRd \in MdSlots \cup {MdClosed} /\ mdRdGen \in 0 .. MdBuilds
    /\ mdOpened \in BOOLEAN /\ mdResult \in {"none", "ok", "error", "cut"}
    /\ mdCount \in 0 .. MdBuilds /\ mdHurt \in BOOLEAN

(* The newest header stands for records that are not the ones it was made  *)
(* for, so the next build will take the slot in use; or a build has chosen *)
(* that slot; or it is about to write a header that is not the newest.     *)
MdWeak ==
    \/ MdShape(MdFirst) /\ ~MdGood(MdFirst)
    \/ mdPc = "truncate" /\ mdTarget = MdFirst
    \/ mdPc = "commit" /\ mdNew <= mdSeq[1 - mdTarget]

(* What is abstract of the index.                                          *)
Index == INSTANCE RecordRegister WITH
    Records <- MdGens, Empty <- 0,
    value <- MdCurrent, job <- mdGen, weak <- MdWeak, result <- mdResult

(* A reader gets the last index that was committed, until a build commits  *)
(* the next one, whole; and only a torn commit or a header that went       *)
(* unread, not a build that is given up, fails before its commit or is cut *)
(* short there, brings the index to where a build takes the slot in use or *)
(* commits below it.                                                       *)
MdIndex == Index!Spec /\ [](MdWeak => mdHurt)

(* The slot that is open for reading still holds the records that were     *)
(* verified when it was opened, whatever was built meanwhile, as long as   *)
(* no commit was torn and every header that is there was read.             *)
MdHandleWhole == mdRd # MdClosed /\ ~mdHurt => mdRecs[mdRd] = mdRdGen

(* media_db_begin: "rebuilding must never touch the index in use";         *)
(* media_db.h: "a failure at any point leaves the previous index           *)
(* untouched".                                                             *)
MdPreviousKept == [][MdCurrent' \in {MdCurrent, mdGen}]_mdVars
=============================================================================
