------------------------------- MODULE LogFlush -------------------------------
(***************************************************************************)
(* The log (firmware/services/log.c): lines go to a ring in memory and to  *)
(* the log file in flushes, which may fail and are then made again.  On    *)
(* the device a flush hands the whole text to log_write_file of            *)
(* startup/ap_ui.c, which starts the file over when it is full; without a  *)
(* writer (the host tools) it writes line by line.  A line is its number   *)
(* in the order of printing.                                               *)
(***************************************************************************)
EXTENDS Integers, Sequences, FiniteSetsExt

CONSTANTS
    LgRoom,         \* LOG_BUFFER_LINES
    LgFileRoom,     \* LOG_FILE_MAX, in entries
    LgFileBound,    \* bound on the length of the file
    LgLines,        \* bound on the lines printed
    LgFaults        \* a subset of LgFaultKinds

LgFaultKinds == {"probe",    \* fs_size_file fails
                 "truncate", \* fs_truncate fails
                 "write",    \* the write fails before its effect
                 "late",     \* the write has its effect and reports an error
                 "power"}    \* the device is switched off

ASSUME LgAssumption ==
    /\ LgRoom \in Nat \ {0} /\ LgFileRoom > LgRoom + 1 /\ LgLines \in Nat
    /\ LgFileBound \in Nat /\ LgFaults \subseteq LgFaultKinds

(* What a line of the file is: a printed line, or a note of n lost ones.   *)
LgLine(n) == [is |-> "line", n |-> n]
LgNote(n) == [is |-> "note", n |-> n]
LgEntries == [is : {"line", "note"}, n : Nat]

VARIABLES
    lgWriter,       \* s_writer: log_set_writer has been called
    lgRing,         \* s_lines from s_head on
    lgDropped,      \* s_dropped
    lgFile,         \* the log file
    lgPc,           \* "idle", or a flush before its truncation or append
    lgPrinted,      \* history: lines printed
    lgCut           \* history: the lines that the file once told of and that
                    \* a truncation took

lgVars == <<lgWriter, lgRing, lgDropped, lgFile, lgPc, lgPrinted, lgCut>>

LgInit ==
    /\ lgWriter \in BOOLEAN
    /\ lgRing = << >> /\ lgDropped = 0 /\ lgFile = << >>
    /\ lgPc = "idle" /\ lgPrinted = 0 /\ lgCut = 0

-----------------------------------------------------------------------------
(* append_line *)
LgAppendLine ==
    /\ lgPrinted' = lgPrinted + 1
    /\ IF Len(lgRing) < LgRoom
       THEN lgRing' = Append(lgRing, lgPrinted + 1) /\ UNCHANGED lgDropped
       ELSE lgDropped' = lgDropped + 1 /\ UNCHANGED lgRing

(* log_printf; bound: LgLines                                              *)
LgPrint ==
    /\ lgPc = "idle" /\ lgPrinted < LgLines
    /\ LgAppendLine
    /\ UNCHANGED <<lgWriter, lgFile, lgPc, lgCut>>

(* assemble: what a flush has to write.                                    *)
LgText ==
    [i \in DOMAIN lgRing |-> LgLine(lgRing[i])]
        \o (IF lgDropped > 0 THEN <<LgNote(lgDropped)>> ELSE << >>)

(* log_flush with its marker line, or without one; bound: LgFileBound      *)
LgFlush ==
    /\ lgPc = "idle" /\ Len(lgFile) <= LgFileBound
    /\ lgPc' = IF lgWriter THEN "size" ELSE "append"
    /\ \/ lgPrinted < LgLines /\ LgAppendLine
       \/ UNCHANGED <<lgRing, lgDropped, lgPrinted>>
    /\ UNCHANGED <<lgWriter, lgFile, lgCut>>

(* The line a reader of f is at after k entries, if f goes on from line m. *)
LgReads(f, m) ==
    LET at[k \in 0 .. Len(f)] ==
            IF k = 0 THEN m
            ELSE IF f[k].is = "line" THEN f[k].n ELSE at[k - 1] + f[k].n
    IN  at

(* The last line the file tells of.                                        *)
LgTold == Max({LgReads(lgFile, lgCut)[k] : k \in 0 .. Len(lgFile)})

(* log_write_file: room is left, or the file starts over.                  *)
LgRotate ==
    /\ lgPc = "size"
    /\ \/ /\ Len(lgFile) + Len(LgText) <= LgFileRoom \/ "probe" \in LgFaults
          /\ lgPc' = "append"
          /\ UNCHANGED <<lgFile, lgCut>>
       \/ /\ Len(lgFile) + Len(LgText) > LgFileRoom
          /\ lgPc' = "append" /\ lgFile' = << >> /\ lgCut' = LgTold
       \/ /\ Len(lgFile) + Len(LgText) > LgFileRoom /\ "truncate" \in LgFaults
          /\ lgPc' = "idle" /\ UNCHANGED <<lgFile, lgCut>>
    /\ UNCHANGED <<lgWriter, lgRing, lgDropped, lgPrinted>>

LgDone == lgRing' = << >> /\ lgDropped' = 0

LgKept == UNCHANGED <<lgRing, lgDropped>>

(* Mutant: a failed flush empties the buffer.                              *)
LgFailedCleared ==
    /\ LgDone
    /\ lgFile' \in {lgFile \o SubSeq(LgText, 1, k) :
                      k \in IF lgWriter THEN {0} ELSE 0 .. Len(LgText) - 1}

(* A flush that fails: the writer's append has no effect (FatFile), line   *)
(* by line it stops anywhere.  The buffer is kept for the next attempt.    *)
LgFailed ==
    /\ LgKept
    /\ lgFile' \in {lgFile \o SubSeq(LgText, 1, k) :
                      k \in IF lgWriter THEN {0} ELSE 0 .. Len(LgText) - 1}

LgWrite ==
    /\ lgPc = "append"
    /\ \/ lgFile' = lgFile \o LgText /\ LgDone
       \/ "late" \in LgFaults /\ lgWriter /\ lgFile' = lgFile \o LgText /\ LgKept
       \/ "write" \in LgFaults /\ LgFailed
    /\ lgPc' = "idle"
    /\ UNCHANGED <<lgWriter, lgPrinted, lgCut>>

(* The ring is lost; the next boot's lines are numbered on from what the   *)
(* file tells of.                                                          *)
LgPowerLoss ==
    /\ "power" \in LgFaults /\ lgWriter
    /\ lgRing' = << >> /\ lgDropped' = 0 /\ lgPc' = "idle"
    /\ lgPrinted' = LgTold
    /\ UNCHANGED <<lgWriter, lgFile, lgCut>>

LgNext == LgPrint \/ LgFlush \/ LgRotate \/ LgWrite \/ LgPowerLoss

LgSpec == LgInit /\ [][LgNext]_lgVars

-----------------------------------------------------------------------------
(* Every variable has its type.                                            *)
LgTypeOK ==
    /\ lgRing \in Seq(1 .. LgLines) /\ Len(lgRing) <= LgRoom
    /\ lgPc \in {"idle", "size", "append"}
    /\ lgDropped \in Nat /\ lgPrinted \in 0 .. LgLines
    /\ lgFile \in Seq(LgEntries) /\ lgCut \in Nat

(* log.h: "On failure the buffer is kept for the next attempt."  Reading   *)
(* the file, and then the ring, with each note standing for the lines it   *)
(* counts, no printed line is ever skipped, whatever flush failed and      *)
(* where: lines are lost only to a truncation, to a power cut, or counted. *)
(* Lines may come twice; the two writes of write_line count as one.        *)
LgNoneMissing ==
    LET all == lgFile \o LgText
        at == LgReads(all, lgCut)
    IN  /\ \A k \in DOMAIN all :
              all[k].is = "line" => \E j \in 0 .. k - 1 : at[j] >= all[k].n - 1
        /\ \E k \in 0 .. Len(all) : at[k] = lgPrinted
=============================================================================
