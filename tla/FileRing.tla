------------------------------ MODULE FileRing ------------------------------
(***************************************************************************)
(* The file service between the two cores: firmware/player/bfs.c on the    *)
(* application processor (A), which owns the file system, and              *)
(* firmware/bb/bcio.c on Core B (B), whose codec reads the current track   *)
(* through a shared ring.  Ring 0 serves a hard start; the next track is   *)
(* opened ahead into the other ring and promoted at the gapless boundary.  *)
(* A owns OPEN, BASE, WR, EOF and SEEK_ACK, B owns RD and the seek         *)
(* request; no lock is taken, so every load and store of a word the other  *)
(* side also uses is a step of its own.                                    *)
(*                                                                         *)
(* A byte of a file is <<file, offset>>: what the properties tell apart.   *)
(***************************************************************************)
EXTENDS Integers, Sequences

CONSTANTS
    Files,          \* the tracks
    NextFiles,      \* those that can come next in the queue
    NoFile,         \* no track
    FileSize,       \* track -> bytes
    RingBytes,      \* ring 0 or 1 -> its size (IPC_FILE_BYTES, IPC_FILE2_BYTES)
    RefillChunk,    \* REFILL_CHUNK
    Sector,         \* 512 in the code
    ReadLens,       \* lengths the codec asks for
    SeekTargets,    \* offsets the codec seeks to
    SeqModulus,     \* SEEK_SEQ is a 32-bit counter: it wraps at this value
    Modulus,        \* so do RD and WR: 2^32 in the code
    NoByte,         \* what an unwritten ring byte holds
    Faults          \* which of the faults below the environment may inject

AllFaults == {"read_error", "partial_error", "seek_past_end", "stall",
              "seek_timeout"}

ASSUME FileRingAssumption ==
    /\ Files # {} /\ NoFile \notin Files /\ NextFiles \subseteq Files
    /\ FileSize \in [Files -> Nat]
    /\ RingBytes \in [{0, 1} -> Nat \ {0}]
    /\ Sector \in Nat \ {0}
    /\ RefillChunk \in Nat \ {0}
    /\ \A s \in {0, 1} : RefillChunk <= RingBytes[s] /\ Sector <= RingBytes[s]
    /\ ReadLens \subseteq Nat \ {0}
    /\ SeekTargets \subseteq Nat
    /\ SeqModulus \in Nat /\ SeqModulus > 1
    /\ Modulus \in Nat \ {0}
    /\ \A s \in {0, 1} : Modulus % RingBytes[s] = 0
    /\ \A f \in Files : FileSize[f] < Modulus
    /\ Faults \subseteq AllFaults

Rings == {0, 1}
Services == {"cur", "pre"}

VARIABLES
    open, base, rd, wr, eof,        \* the shared words of each ring
    seekTo, seekSeq, seekAck,
    mem,            \* the bytes of each ring
    ring,           \* IPC_C_RING, the ring the next OPEN or NEXT uses
    svc,            \* s_cur and s_pre: handle, ring and file position
    preFile,        \* s_pre_path while s_pre_valid, NoFile otherwise
    actl,           \* where the AP is with the codec on B
    apc, asvc,      \* bfs_poll: program counter and service being polled
    afree, an, agot,\* its locals: free bytes, bytes asked for, bytes read
    bw,             \* s_w, the ring the codec was opened on
    bfile,          \* the track the codec has open
    bpc,            \* program counter of B
    blen, bbuf,     \* bcio_read: length asked for, bytes copied so far
    brd, bwr,       \* bcio_read: RD and WR as loaded at the top of the loop
    bseek,          \* bcio_seek: the sequence number waited for
    at,             \* what bcio_tell reported when the last call returned
    last,           \* what the last bcio_read returned
    outcome         \* how the last bcio_read ended

words == <<open, base, rd, wr, eof, seekTo, seekSeq, seekAck, mem>>
aVars == <<svc, preFile, actl, ring, apc, asvc, afree, an, agot>>
bVars == <<bw, bfile, bpc, blen, bbuf, brd, bwr, bseek, at, last, outcome>>
vars == <<words, aVars, bVars>>

Least(a, b) == IF a < b THEN a ELSE b

Set(word, s, v) == word' = [word EXCEPT ![s] = v]

NoSvc(s) == [io |-> NoFile, slot |-> s, pos |-> 0]

Init ==
    /\ open = [s \in Rings |-> FALSE]
    /\ base = [s \in Rings |-> 0]
    /\ rd = [s \in Rings |-> 0]
    /\ wr = [s \in Rings |-> 0]
    /\ eof = [s \in Rings |-> FALSE]
    /\ seekTo = [s \in Rings |-> 0]
    /\ seekSeq = [s \in Rings |-> 0]
    /\ seekAck = [s \in Rings |-> 0]
    /\ mem = [s \in Rings |-> [i \in 0 .. RingBytes[s] - 1 |-> NoByte]]
    /\ ring = 0
    /\ svc = [s \in Services |-> NoSvc(0)]
    /\ preFile = NoFile
    /\ actl = "stopped"
    /\ apc = "idle" /\ asvc = "cur"
    /\ afree = 0 /\ an = 0 /\ agot = 0
    /\ bw = 0 /\ bfile = NoFile /\ bpc = "closed"
    /\ blen = 0 /\ bbuf = << >> /\ brd = 0 /\ bwr = 0 /\ bseek = 0
    /\ at = 0 /\ last = << >> /\ outcome = "none"

-----------------------------------------------------------------------------
(* A: open, pre-open, promote, close.  Each runs between two polls of the  *)
(* AP's main loop, and B does not look at the ring it changes.             *)

(* A ring no service serves any more: nothing may read its bytes again, so *)
(* they are forgotten and reading one would show.                          *)
Retired(rings) ==
    [s \in Rings |-> IF s \in rings THEN [i \in DOMAIN mem[s] |-> NoByte]
                                     ELSE mem[s]]

(* Mutant: BASE keeps the value of the track the ring served before.       *)
PublishRingBase(s) ==
    /\ UNCHANGED base
    /\ Set(rd, s, 0)
    /\ Set(wr, s, 0)
    /\ Set(eof, s, FALSE)
    /\ Set(seekTo, s, 0)
    /\ Set(seekAck, s, seekSeq[s])
    /\ mem' = Retired({s})
    /\ UNCHANGED seekSeq

(* ring_publish: header words first, OPEN last; a seek request left over   *)
(* from the previous track is acknowledged without being applied.          *)
PublishRing(s) ==
    /\ Set(base, s, 0)
    /\ Set(rd, s, 0)
    /\ Set(wr, s, 0)
    /\ Set(eof, s, FALSE)
    /\ Set(seekTo, s, 0)
    /\ Set(seekAck, s, seekSeq[s])
    /\ mem' = Retired({s})
    /\ UNCHANGED seekSeq

(* The AP moves a track between stopped, opening, playing, next, closing.  *)
AtRest(state) == actl = state /\ apc = "idle"

(* OPEN after ring_close of both services.                                 *)
ClosedRings == [s \in Rings |-> open[s] /\ \A v \in Services : svc[v].slot # s]

(* bfs_open and b_handoff: a hard start uses ring 0 and drops any pre-open.*)
Start(f) ==
    /\ AtRest("stopped") /\ bpc = "closed"
    /\ svc' = [cur |-> [io |-> f, slot |-> 0, pos |-> 0],
               pre |-> NoSvc(svc["pre"].slot)]
    /\ preFile' = NoFile
    /\ PublishRing(0)
    /\ open' = [ClosedRings EXCEPT ![0] = TRUE]
    /\ ring' = 0
    /\ actl' = "opening"
    /\ UNCHANGED <<apc, asvc, afree, an, agot, bVars>>

(* Mutant: the next track is opened into the ring B is reading.            *)
PreopenSameRing(f) ==
    /\ AtRest("playing")
    /\ preFile # f
    /\ LET s == svc["cur"].slot
       IN  /\ svc' = [svc EXCEPT !["pre"] = [io |-> f, slot |-> s, pos |-> 0]]
           /\ PublishRing(s)
           /\ Set(open, s, TRUE)
    /\ preFile' = f
    /\ UNCHANGED <<actl, ring, apc, asvc, afree, an, agot, bVars>>

(* bfs_preopen when the file is not the one already waiting.               *)
Preopen(f) ==
    /\ AtRest("playing")
    /\ preFile # f
    /\ LET s == 1 - svc["cur"].slot
       IN  /\ svc' = [svc EXCEPT !["pre"] = [io |-> f, slot |-> s, pos |-> 0]]
           /\ PublishRing(s)
           /\ Set(open, s, TRUE)
    /\ preFile' = f
    /\ UNCHANGED <<actl, ring, apc, asvc, afree, an, agot, bVars>>

(* bfs_preopen when cio_open fails: the old pre-open is gone, its ring is  *)
(* left flagged open.                                                      *)
PreopenFails(f) ==
    /\ AtRest("playing")
    /\ preFile # f
    /\ svc' = [svc EXCEPT !["pre"].io = NoFile, !["pre"].pos = 0]
    /\ preFile' = NoFile
    /\ mem' = Retired({1 - svc["cur"].slot})
    /\ UNCHANGED <<open, base, rd, wr, eof, seekTo, seekSeq, seekAck,
                   actl, ring, apc, asvc, afree, an, agot, bVars>>

(* ipc_b_next after the codec drained: bfs_promote and the NEXT command.   *)
Promote ==
    /\ AtRest("playing") /\ bpc = "drained"
    /\ preFile # NoFile
    /\ LET s == svc["pre"].slot
       IN  /\ svc' = [cur |-> [svc["pre"] EXCEPT !.slot = s],
                      pre |-> NoSvc(1 - s)]
           /\ Set(open, 1 - s, FALSE)
           /\ mem' = Retired({1 - s})
           /\ ring' = s
    /\ preFile' = NoFile
    /\ actl' = "opening"
    /\ UNCHANGED <<base, rd, wr, eof, seekTo, seekSeq, seekAck,
                   apc, asvc, afree, an, agot, bVars>>

(* ipc_b_stop: CLOSE, then bfs_close once B has acknowledged.              *)
Stop ==
    /\ AtRest("playing")
    /\ actl' = "closing"
    /\ UNCHANGED <<words, svc, preFile, ring, apc, asvc, afree, an, agot, bVars>>

Close ==
    /\ AtRest("closing") /\ bpc = "closed"
    /\ svc' = [s \in Services |-> NoSvc(svc[s].slot)]
    /\ preFile' = NoFile
    /\ open' = ClosedRings
    /\ mem' = Retired(Rings)
    /\ actl' = "stopped"
    /\ UNCHANGED <<base, rd, wr, eof, seekTo, seekSeq, seekAck,
                   ring, apc, asvc, afree, an, agot, bVars>>

-----------------------------------------------------------------------------
(* A: poll_svc.  asvc is the service, S its ring.                          *)

S == svc[asvc].slot

ACtl == <<preFile, actl, ring>>
aLocals == <<asvc, afree, an, agot>>

Go(label) == apc' = label

(* Back to the main loop; the locals of the poll are gone.                 *)
Done == apc' = "idle" /\ asvc' = "cur" /\ afree' = 0 /\ an' = 0 /\ agot' = 0

Poll(v) ==
    /\ apc = "idle"
    /\ svc[v].io # NoFile
    /\ asvc' = v
    /\ Go("seek")
    /\ UNCHANGED <<words, svc, preFile, actl, ring, afree, an, agot, bVars>>

(* Mutant: the ring is re-based on the next sector.                        *)
SeekFileUp ==
    /\ apc = "seek"
    /\ seekSeq[S] # seekAck[S]
    /\ LET to == seekTo[S]
           landed == Least(to, FileSize[svc[asvc].io])
       IN  /\ svc' = [svc EXCEPT ![asvc].pos = landed]
           /\ IF landed = to
              THEN Set(base, S, to + (to % Sector)) /\ Go("seekRd")
              ELSE UNCHANGED base /\ Go("seekAck")
    /\ UNCHANGED <<open, rd, wr, eof, seekTo, seekSeq, seekAck, mem,
                   ACtl, aLocals, bVars>>

(* Mutant: the seek is acknowledged before the ring is reset.              *)
SeekFileAcks ==
    /\ apc = "seek"
    /\ seekSeq[S] # seekAck[S]
    /\ LET to == seekTo[S]
           landed == Least(to, FileSize[svc[asvc].io])
       IN  /\ svc' = [svc EXCEPT ![asvc].pos = landed]
           /\ IF landed = to
              THEN Set(base, S, to - (to % Sector)) /\ Go("seekRd")
              ELSE UNCHANGED base /\ Go("seekAck")
    /\ Set(seekAck, S, seekSeq[S])
    /\ UNCHANGED <<open, rd, wr, eof, seekTo, seekSeq, mem, ACtl, aLocals, bVars>>

(* A pending seek: cio_seek clamps to the end of the file, and the ring is *)
(* re-based only when the file landed where B asked.                       *)
SeekFile ==
    /\ apc = "seek"
    /\ seekSeq[S] # seekAck[S]
    /\ LET to == seekTo[S]
           landed == Least(to, FileSize[svc[asvc].io])
       IN  /\ svc' = [svc EXCEPT ![asvc].pos = landed]
           /\ IF landed = to
              THEN Set(base, S, to - (to % Sector)) /\ Go("seekRd")
              ELSE UNCHANGED base /\ Go("seekAck")
    /\ UNCHANGED <<open, rd, wr, eof, seekTo, seekSeq, seekAck, mem,
                   ACtl, aLocals, bVars>>

(* Mutant: RD is reset to the start of the sector.                         *)
SeekRdSector ==
    /\ apc = "seekRd"
    /\ Set(rd, S, 0)
    /\ Go("seekWr")
    /\ UNCHANGED <<open, base, wr, eof, seekTo, seekSeq, seekAck, mem, svc,
                   ACtl, aLocals, bVars>>

(* `to` is a local of poll_svc: where the file was positioned.             *)
SeekRd ==
    /\ apc = "seekRd"
    /\ Set(rd, S, svc[asvc].pos - base[S])
    /\ Go("seekWr")
    /\ UNCHANGED <<open, base, wr, eof, seekTo, seekSeq, seekAck, mem, svc,
                   ACtl, aLocals, bVars>>

SeekWr ==
    /\ apc = "seekWr"
    /\ Set(wr, S, svc[asvc].pos - base[S])
    /\ Go("seekEof")
    /\ UNCHANGED <<open, base, rd, eof, seekTo, seekSeq, seekAck, mem, svc,
                   ACtl, aLocals, bVars>>

SeekEof ==
    /\ apc = "seekEof"
    /\ Set(eof, S, FALSE)
    /\ Go("seekAck")
    /\ UNCHANGED <<open, base, rd, wr, seekTo, seekSeq, seekAck, mem, svc,
                   ACtl, aLocals, bVars>>

SeekAck ==
    /\ apc = "seekAck"
    /\ Set(seekAck, S, seekSeq[S])
    /\ Go("refill")
    /\ UNCHANGED <<open, base, rd, wr, eof, seekTo, seekSeq, mem, svc,
                   ACtl, aLocals, bVars>>

NoSeek ==
    /\ apc = "seek"
    /\ seekSeq[S] = seekAck[S]
    /\ Go("refill")
    /\ UNCHANGED <<words, svc, ACtl, aLocals, bVars>>

(* Read ahead: the free space is computed once per poll from the RD seen   *)
(* here; B may consume more while the loop runs.                           *)
Refill ==
    /\ apc = "refill"
    /\ \/ eof[S] /\ Done
       \/ /\ ~eof[S]
          /\ afree' = (RingBytes[S] - (wr[S] - rd[S])) % Modulus
          /\ Go("fill")
          /\ UNCHANGED <<asvc, an, agot>>
    /\ UNCHANGED <<words, svc, ACtl, bVars>>

FillDone ==
    /\ apc = "fill"
    /\ afree < RefillChunk
    /\ Done
    /\ UNCHANGED <<words, svc, ACtl, bVars>>

(* Bytes of the next read: one contiguous run, at most a chunk, ending on  *)
(* a sector boundary of the file.                                          *)
FillSize(s, free) ==
    LET run == Least(Least(free, RingBytes[s] - (wr[s] % RingBytes[s])),
                     RefillChunk)
    IN  IF run > Sector THEN run - ((base[s] + wr[s] + run) % Sector) ELSE run

(* The bytes a read of k bytes leaves in ring s.                           *)
Filled(s, v, k) ==
    [i \in DOMAIN mem[s] |->
        LET ahead == (i - wr[s]) % RingBytes[s]
        IN  IF ahead < k THEN <<svc[v].io, svc[v].pos + ahead>> ELSE mem[s][i]]

FillRead ==
    /\ apc = "fill"
    /\ afree >= RefillChunk
    /\ LET n == FillSize(S, afree)
           k == Least(n, FileSize[svc[asvc].io] - svc[asvc].pos)
       IN  /\ an' = n
           /\ agot' = k
           /\ Set(mem, S, Filled(S, asvc, k))
           /\ svc' = [svc EXCEPT ![asvc].pos = @ + k]
           /\ Go(IF k = 0 THEN "eof" ELSE "publish")
    /\ UNCHANGED <<open, base, rd, wr, eof, seekTo, seekSeq, seekAck,
                   ACtl, asvc, afree, bVars>>

(* cio_read fails.  fs_read (services/fs_target.c) returns the error even  *)
(* when whole sectors of the request were read before it, with the file    *)
(* position already past them.                                             *)
FillError ==
    /\ apc = "fill"
    /\ afree >= RefillChunk
    /\ LET n == FillSize(S, afree)
           k == Least(n, FileSize[svc[asvc].io] - svc[asvc].pos)
       IN  \E moved \in 0 .. k :
              /\ k > 0 /\ moved < k
              /\ IF moved = 0 THEN "read_error" \in Faults
                              ELSE "partial_error" \in Faults
              /\ Set(mem, S, Filled(S, asvc, moved))
              /\ svc' = [svc EXCEPT ![asvc].pos = @ + moved]
    /\ Set(open, S, FALSE)
    /\ Done
    /\ UNCHANGED <<base, rd, wr, eof, seekTo, seekSeq, seekAck, ACtl, bVars>>

Publish ==
    /\ apc = "publish"
    /\ Set(wr, S, (wr[S] + agot) % Modulus)
    /\ afree' = afree - agot
    /\ Go(IF agot < an THEN "eof" ELSE "fill")
    /\ UNCHANGED <<open, base, rd, eof, seekTo, seekSeq, seekAck, mem, svc,
                   ACtl, asvc, an, agot, bVars>>

(* Mutant: the end of the file is not flagged.                             *)
FlagEofNot ==
    /\ apc = "eof"
    /\ Done
    /\ UNCHANGED <<words, svc, ACtl, bVars>>

(* Nothing more to read, or a short read: the rest of the file is in.      *)
FlagEof ==
    /\ apc = "eof"
    /\ Set(eof, S, TRUE)
    /\ Done
    /\ UNCHANGED <<open, base, rd, wr, seekTo, seekSeq, seekAck, mem, svc,
                   ACtl, bVars>>

-----------------------------------------------------------------------------
(* B: bcio.c under the codec.                                              *)

aSide == <<aVars, open, base, wr, eof, seekAck, mem>>

(* cio_open: take the published ring and wait for A's OPEN flag.           *)
OpenCodec ==
    /\ actl = "opening" /\ apc = "idle"
    /\ bw' = ring
    /\ IF open[ring]
       THEN /\ bpc' = "rest" /\ bfile' = svc["cur"].io
            /\ actl' = "playing"
       ELSE /\ bpc' = "closed" /\ bfile' = NoFile
            /\ actl' = "closing"
    /\ at' = 0 /\ last' = << >> /\ outcome' = "none"
    /\ UNCHANGED <<words, svc, preFile, ring, apc, asvc, afree, an, agot,
                   blen, bbuf, brd, bwr, bseek>>

(* The codec reached the end of its stream, or was told to close.          *)
Drain ==
    /\ bpc = "rest"
    /\ bpc' = "drained"
    /\ UNCHANGED <<words, aVars, bw, bfile, blen, bbuf, brd, bwr, bseek, at, last,
                   outcome>>

CloseCodec ==
    /\ actl = "closing" /\ bpc \in {"rest", "drained"}
    /\ bpc' = "closed" /\ bfile' = NoFile
    /\ at' = 0 /\ last' = << >> /\ outcome' = "none"
    /\ UNCHANGED <<words, aVars, bw, blen, bbuf, brd, bwr, bseek>>

ReadBegin(n) ==
    /\ bpc = "rest"
    /\ blen' = n /\ bbuf' = << >>
    /\ bpc' = "load"
    /\ UNCHANGED <<words, aVars, bw, bfile, brd, bwr, bseek, at, last, outcome>>

(* The top of the loop: RD is B's own, WR is loaded once.                  *)
ReadLoad ==
    /\ bpc = "load"
    /\ Len(bbuf) < blen
    /\ brd' = rd[bw]
    /\ bwr' = wr[bw]
    /\ bpc' = IF bwr' = brd' THEN "dry" ELSE "copy"
    /\ UNCHANGED <<words, aVars, bw, bfile, blen, bbuf, bseek, at, last,
                   outcome>>

(* Bytes the ring seems to hold: a WR behind RD looks like a great many.   *)
Avail == (bwr - brd) % Modulus

ReadCopy ==
    /\ bpc = "copy"
    /\ LET n == Least(Avail, blen - Len(bbuf))
       IN  /\ bbuf' = bbuf \o [i \in 1 .. n |->
                                  mem[bw][(brd + i - 1) % RingBytes[bw]]]
           /\ brd' = (brd + n) % Modulus
    /\ bpc' = "consume"
    /\ UNCHANGED <<words, aVars, bw, bfile, blen, bwr, bseek, at, last, outcome>>

ReadConsume ==
    /\ bpc = "consume"
    /\ Set(rd, bw, brd)
    /\ bpc' = "load"
    /\ UNCHANGED <<aSide, seekTo, seekSeq, bw, bfile, blen, bbuf, brd, bwr,
                   bseek, at, last, outcome>>

Return(how) ==
    /\ last' = bbuf
    /\ outcome' = how
    /\ at' = (base[bw] + rd[bw]) % Modulus
    /\ bpc' = "rest"
    /\ blen' = 0 /\ bbuf' = << >> /\ brd' = 0 /\ bwr' = 0
    /\ UNCHANGED <<words, aVars, bw, bfile, bseek>>

ReadFull ==
    /\ bpc = "load"
    /\ Len(bbuf) = blen
    /\ Return("full")

(* The ring is dry: end of file, A stopped serving, or look again.         *)
ReadDry ==
    /\ bpc = "dry"
    /\ \/ eof[bw] /\ Return("end")
       \/ ~eof[bw] /\ ~open[bw] /\ Return("unserved")
       \/ /\ ~eof[bw] /\ open[bw]
          /\ bpc' = "load"
          /\ UNCHANGED <<words, aVars, bw, bfile, blen, bbuf, brd, bwr, bseek, at,
                         last, outcome>>

(* The bounded wait ran out.                                               *)
ReadStall ==
    /\ "stall" \in Faults
    /\ bpc = "dry" /\ ~eof[bw] /\ open[bw]
    /\ Return("stall")

(* The codec's own seek, or that of a SEEK command: none comes once NEXT    *)
(* is posted.                                                              *)
SeekBegin(to) ==
    /\ bpc = "rest" \/ (bpc = "drained" /\ actl = "playing")
    /\ to <= FileSize[bfile] \/ "seek_past_end" \in Faults
    /\ Set(seekTo, bw, to)
    /\ bpc' = "request"
    /\ UNCHANGED <<aSide, rd, seekSeq, bw, bfile, blen, bbuf, brd, bwr, bseek, at,
                   last, outcome>>

SeekRequest ==
    /\ bpc = "request"
    /\ bseek' = (seekSeq[bw] + 1) % SeqModulus
    /\ Set(seekSeq, bw, bseek')
    /\ bpc' = "await"
    /\ UNCHANGED <<aSide, rd, seekTo, bw, bfile, blen, bbuf, brd, bwr, at, last,
                   outcome>>

SeekReturn ==
    /\ bpc = "await"
    /\ seekAck[bw] = bseek
    /\ at' = (base[bw] + rd[bw]) % Modulus
    /\ bpc' = "rest"
    /\ bseek' = 0 /\ last' = << >> /\ outcome' = "none"
    /\ UNCHANGED <<words, aVars, bw, bfile, blen, bbuf, brd, bwr>>

(* The bounded wait for the acknowledgement ran out; tell() is unchanged.  *)
SeekTimeout ==
    /\ "seek_timeout" \in Faults
    /\ bpc = "await"
    /\ seekAck[bw] # bseek
    /\ at' = (base[bw] + rd[bw]) % Modulus
    /\ bpc' = "rest"
    /\ bseek' = 0 /\ last' = << >> /\ outcome' = "none"
    /\ UNCHANGED <<words, aVars, bw, bfile, blen, bbuf, brd, bwr>>

-----------------------------------------------------------------------------
APoll ==
    \/ \E v \in Services : Poll(v)
    \/ SeekFile \/ SeekRd \/ SeekWr \/ SeekEof \/ SeekAck \/ NoSeek
    \/ Refill \/ FillDone \/ FillRead \/ FillError \/ Publish \/ FlagEof

AControl ==
    \/ \E f \in Files : Start(f)
    \/ \E f \in NextFiles : Preopen(f) \/ PreopenFails(f)
    \/ Promote \/ Stop \/ Close

BRead == ReadLoad \/ ReadCopy \/ ReadConsume \/ ReadFull \/ ReadDry

BSeek == SeekRequest \/ SeekReturn

BCodec ==
    \/ OpenCodec \/ Drain \/ CloseCodec
    \/ \E n \in ReadLens : ReadBegin(n)
    \/ \E to \in SeekTargets : SeekBegin(to)

Next ==
    \/ APoll \/ AControl
    \/ BRead \/ ReadStall \/ BSeek \/ SeekTimeout \/ BCodec

Spec == Init /\ [][Next]_vars

(* The AP's main loop keeps polling both services (b_wait_ack polls too),  *)
(* and B runs whatever call it is in.  Nothing obliges the user or the     *)
(* codec to start anything.                                                *)
FairSpec ==
    /\ Spec
    /\ \A v \in Services : WF_vars(Poll(v))
    /\ WF_vars(APoll /\ apc # "idle")
    /\ WF_vars(BRead \/ BSeek)

-----------------------------------------------------------------------------
(* A byte of a file, or of an unwritten place.                              *)
Byte == Files \X Nat \cup {NoByte}

(* The words both sides use, and the bytes of the rings.                    *)
WordsOK ==
    /\ open \in [Rings -> BOOLEAN] /\ eof \in [Rings -> BOOLEAN]
    /\ base \in [Rings -> Nat]
    /\ rd \in [Rings -> 0 .. Modulus - 1] /\ wr \in [Rings -> 0 .. Modulus - 1]
    /\ seekTo \in [Rings -> Nat]
    /\ seekSeq \in [Rings -> 0 .. SeqModulus - 1]
    /\ seekAck \in [Rings -> 0 .. SeqModulus - 1]
    /\ DOMAIN mem = Rings
    /\ \A s \in Rings : mem[s] \in [0 .. RingBytes[s] - 1 -> Byte]

AOK ==
    /\ svc \in [Services ->
                  [io : Files \cup {NoFile}, slot : Rings, pos : Nat]]
    /\ preFile \in Files \cup {NoFile} /\ ring \in Rings
    /\ actl \in {"stopped", "opening", "playing", "closing"}
    /\ apc \in {"idle", "seek", "seekRd", "seekWr", "seekEof", "seekAck",
                "refill", "fill", "publish", "eof"}
    /\ asvc \in Services /\ afree \in Nat /\ an \in Nat /\ agot \in Nat

BOK ==
    /\ bw \in Rings /\ bfile \in Files \cup {NoFile}
    /\ bpc \in {"closed", "rest", "drained", "load", "copy", "consume", "dry",
                "request", "await"}
    /\ blen \in Nat /\ bbuf \in Seq(Byte) /\ last \in Seq(Byte)
    /\ brd \in 0 .. Modulus - 1 /\ bwr \in 0 .. Modulus - 1
    /\ bseek \in 0 .. SeqModulus - 1
    /\ at \in Nat
    /\ outcome \in {"none", "full", "end", "unserved", "stall"}

(* Type invariant of the file service.                                     *)
TypeOK == WordsOK /\ AOK /\ BOK

(* A is between the first store of a seek and its acknowledgement.         *)
Rebasing(v) == asvc = v /\ apc \in {"seekRd", "seekWr", "seekEof", "seekAck"}

Served(v) == svc[v].io # NoFile /\ ~Rebasing(v)

(* A ring in service never holds more than its size and RD never passes    *)
(* WR, although A computes its free space from an RD that B keeps moving.  *)
RingBounded ==
    \A v \in Services : Served(v) =>
        LET s == svc[v].slot
        IN  rd[s] <= wr[s] /\ wr[s] - rd[s] <= RingBytes[s]

(* And every unread byte of a ring in service is that of its own file at   *)
(* BASE + its ring position, and A's file handle stands where WR says the  *)
(* next byte goes (bfs.c: "logical write offset = BASE + WR").             *)
RingHoldsFile ==
    RingBounded /\ \A v \in Services : Served(v) =>
        LET s == svc[v].slot
        IN  /\ \A p \in rd[s] .. wr[s] - 1 :
                  mem[s][p % RingBytes[s]] = <<svc[v].io, base[s] + p>>
            /\ svc[v].pos =
                  base[s] + wr[s] + (IF asvc = v /\ apc = "publish" THEN agot
                                                                    ELSE 0)

(* A repositions a ring only while B waits for the acknowledgement         *)
(* (bfs.c: "B is quiesced until SEEK_ACK catches up").                     *)
SeekQuiesced ==
    \A v \in Services : Rebasing(v) => bpc = "await" /\ bw = svc[v].slot

(* A seek that was granted leaves B at the offset it asked for, and not at *)
(* that of an earlier request that A was still serving (bfs.c: "A          *)
(* repositions, resets BASE/RD/WR/EOF and copies SEEK_SEQ into SEEK_ACK"). *)
SeekLands ==
    [][bpc = "await" /\ seekAck[bw] = bseek /\ bpc' = "rest"
          => at' = seekTo[bw]]_vars

Reader == INSTANCE FileReader WITH file <- bfile, pos <- at, last <- last

(* Through open, read-ahead, wrap, seek, pre-open and promotion, the codec *)
(* sees a plain file: consecutive bytes of the right track, and a position *)
(* that is the one its reads and seeks imply.                              *)
ReaderSpec == Reader!Spec

(* A read in progress always comes back, without the bounded wait: "B can  *)
(* only be waiting on an EMPTY ring, which is always refilled" (bfs.c);    *)
(* and so does a seek.                                                     *)
CallsReturn ==
    /\ (bpc \in {"load", "copy", "consume", "dry"}) ~> (bpc = "rest")
    /\ (bpc \in {"request", "await"}) ~> (bpc = "rest")

-----------------------------------------------------------------------------
(* What the code's comments say and the code does not keep: checked by     *)
(* hand, not by a standing run (see README, "Known deviations").           *)

(* A read that returns fewer bytes than asked while A still serves the     *)
(* ring is at the end of the file (bcio.c: "End of file, or A stopped      *)
(* serving"; ipc_shared.h: "1 = rest of the file is in the ring").         *)
EndIsEnd == outcome = "end" => at = FileSize[bfile]
=============================================================================
