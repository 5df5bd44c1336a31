----------------------------- MODULE FileReader -----------------------------
(***************************************************************************)
(* What the codec on Core B is promised by codec_io.h: a file it reads     *)
(* sequentially and repositions.  A read returns consecutive bytes of the  *)
(* file from the current position and advances it; a seek that is not      *)
(* granted leaves the position alone.  FileRing.tla implements this across *)
(* two cores with the shared file rings.                                   *)
(***************************************************************************)
EXTENDS Integers, Sequences

CONSTANTS
    Files,      \* the files the player can be asked for
    NoFile,     \* no file
    FileSize    \* file -> its size in bytes

VARIABLES
    file,       \* the file the codec has open, NoFile when it has none
    pos,        \* the position its tell() reports
    last        \* what the last call returned, if it was a read

readerVars == <<file, pos, last>>

Bytes(f, from, n) == [i \in 1 .. n |-> <<f, from + i - 1>>]

Init == file = NoFile /\ pos = 0 /\ last = << >>

Open(f) ==
    /\ f \in Files
    /\ file' = f
    /\ pos' = 0
    /\ last' = << >>

Close == file' = NoFile /\ pos' = 0 /\ last' = << >>

Read(n) ==
    /\ file # NoFile
    /\ pos + n <= FileSize[file]
    /\ last' = Bytes(file, pos, n)
    /\ pos' = pos + n
    /\ UNCHANGED file

Seek(to) ==
    /\ file # NoFile
    /\ pos' = to
    /\ last' = << >>
    /\ UNCHANGED file

Next ==
    \/ \E f \in Files : Open(f)
    \/ Close
    \/ /\ file # NoFile
       /\ \/ \E n \in 0 .. FileSize[file] : Read(n)
          \/ \E to \in 0 .. FileSize[file] : Seek(to)

Spec == Init /\ [][Next]_readerVars
=============================================================================
