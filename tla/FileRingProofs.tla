--------------------------- MODULE FileRingProofs ---------------------------
(***************************************************************************)
(* What TLAPS proves of FileRing.tla, for any files, ring sizes, chunk and *)
(* sector sizes and counter widths its assumption allows.  The types hold  *)
(* whatever faults happen.  The rest needs one inductive invariant, IInv,  *)
(* and the absence of three faults (Mild); from it follow the contents of  *)
(* the rings, the quiescence of B during a seek, where a seek lands, and   *)
(* that the whole protocol implements FileReader.tla.                      *)
(*                                                                         *)
(* Why IInv: that a ring holds its file's bytes is not inductive.  A       *)
(* repositions BASE, RD, WR one store at a time, so the ring's contents    *)
(* are only as good as the seek protocol (Seeks, Rebase); a store of WR is *)
(* only as good as the free space computed before B moved RD (Room) and    *)
(* the bytes read before it (Ahead); and what B copies depends on a WR it  *)
(* loaded earlier (Reading).  Roles says which ring is whose.              *)
(***************************************************************************)
EXTENDS FileRing, SequenceTheorems, TLAPS

(* The companions of the type invariant: what keeps positions and counts   *)
(* in range, whatever faults happen.                                       *)
InRange ==
    /\ \A v \in Services : svc[v].io # NoFile => svc[v].pos <= FileSize[svc[v].io]
    /\ apc # "idle" => svc[asvc].io # NoFile
    /\ apc \in {"seekRd", "seekWr"} => base[S] <= svc[asvc].pos
    /\ apc = "publish" => agot <= afree

TInv == TypeOK /\ InRange

(* The ring s has been published and B has not used it yet.                *)
Fresh(s) == base[s] = 0 /\ rd[s] = 0 /\ seekSeq[s] = seekAck[s]

(* Which ring and track B, A's current service and its pre-open stand for, *)
(* at each point of the hand-over from one track to the next.              *)
Roles ==
    /\ actl = "stopped" => bpc = "closed"
    /\ actl = "playing" => bpc # "closed"
    /\ actl = "opening" =>
          /\ bpc \in {"closed", "drained"}
          /\ svc["cur"].io # NoFile /\ svc["cur"].slot = ring /\ Fresh(ring)
    /\ bpc # "closed" /\ actl # "opening" =>
          bfile \in Files /\ svc["cur"].io = bfile /\ svc["cur"].slot = bw
    /\ svc["pre"].io # NoFile =>
          svc["pre"].slot = 1 - svc["cur"].slot /\ Fresh(svc["pre"].slot)
    /\ preFile # NoFile => svc["pre"].io = preFile

(* A seek request that A has not acknowledged.                             *)
Pending(s) == seekSeq[s] # seekAck[s]

(* A request is pending only while B waits for it, within the file; once   *)
(* it is acknowledged the ring stands where it asked.                      *)
Seeks ==
    /\ svc["cur"].io # NoFile /\ Pending(svc["cur"].slot) => bpc = "await"
    /\ bpc = "await" => seekSeq[bw] = bseek
    /\ bpc \in {"request", "await"} => seekTo[bw] <= FileSize[bfile]
    /\ bpc = "await" /\ seekAck[bw] = bseek => base[bw] + rd[bw] = seekTo[bw]

(* How far A has got in repositioning the ring for that request.           *)
Rebase ==
    apc \in {"seekRd", "seekWr", "seekEof", "seekAck"} =>
        /\ asvc = "cur" /\ bpc = "await" /\ Pending(bw)
        /\ svc["cur"].pos = seekTo[bw]
        /\ base[bw] = seekTo[bw] - (seekTo[bw] % Sector)
        /\ apc # "seekRd" => rd[bw] = seekTo[bw] - base[bw]
        /\ apc \in {"seekEof", "seekAck"} => wr[bw] = seekTo[bw] - base[bw]

(* Bytes read into the ring of v that WR does not count yet.               *)
Ahead(v) == IF asvc = v /\ apc = "publish" THEN agot ELSE 0

(* RingHoldsFile, and the bytes not yet counted as well: what publishing   *)
(* them will need.                                                         *)
Contents ==
    \A v \in Services : Served(v) =>
        LET s == svc[v].slot
        IN  /\ rd[s] <= wr[s] /\ wr[s] + Ahead(v) - rd[s] <= RingBytes[s]
            /\ svc[v].pos = base[s] + wr[s] + Ahead(v)
            /\ \A p \in rd[s] .. wr[s] + Ahead(v) - 1 :
                  mem[s][p % RingBytes[s]] = <<svc[v].io, base[s] + p>>

(* The free space A computed is still there, whatever B has read since.    *)
Room == apc \in {"fill", "publish"} => wr[S] + afree - rd[S] <= RingBytes[S]

(* bcio_read: its copy of RD and WR lie within the ring, tell() counts the *)
(* bytes taken from it, and those copied so far are the file's next.       *)
Reading ==
    /\ bpc = "copy" => brd = rd[bw] /\ brd <= bwr /\ bwr <= wr[bw] /\ Len(bbuf) < blen
    /\ bpc = "consume" => rd[bw] <= brd /\ brd <= wr[bw]
    /\ bpc \in {"rest", "load", "copy", "dry"} => base[bw] + rd[bw] = at + Len(bbuf)
    /\ bpc = "consume" => base[bw] + brd = at + Len(bbuf)
    /\ bpc \notin {"load", "copy", "consume", "dry"} => bbuf = << >>
    /\ \A i \in 1 .. Len(bbuf) : bbuf[i] = <<bfile, at + i - 1>>

(* The inductive invariant: the types, and what the mild faults keep.      *)
Kept == Roles /\ Seeks /\ Rebase /\ Contents /\ Room /\ Reading

IInv == TInv /\ Kept

-----------------------------------------------------------------------------
USE DEF Rings, Services

(* Arithmetic of positions that wrap.                                      *)
LEMMA ModRange ==
    ASSUME NEW a \in Int, NEW n \in Nat \ {0}
    PROVE  a % n \in 0 .. n - 1
OBVIOUS

(* Reducing a natural number does not make it larger.                      *)
LEMMA ModNat ==
    ASSUME NEW a \in Nat, NEW n \in Nat \ {0}
    PROVE  a % n \in 0 .. n - 1 /\ a % n <= a /\ a - (a % n) \in Nat
<1>1. a % n \in 0 .. n - 1 /\ a % n <= a
  OBVIOUS
<1> QED BY <1>1

(* The assumption on the constants, in the form the steps use.             *)
LEMMA Sizes ==
    /\ NoFile \notin Files /\ NextFiles \subseteq Files
    /\ \A s \in Rings : RingBytes[s] \in Nat \ {0}
    /\ \A f \in Files : FileSize[f] \in Nat /\ FileSize[f] < Modulus
    /\ Sector \in Nat \ {0} /\ RefillChunk \in Nat \ {0}
    /\ Modulus \in Nat \ {0} /\ SeqModulus \in Nat /\ SeqModulus > 1
    /\ ReadLens \subseteq Nat /\ SeekTargets \subseteq Nat
BY FileRingAssumption

(* What the type invariant says of the words of one ring.                  *)
LEMMA Cursors ==
    ASSUME TypeOK, NEW s \in Rings
    PROVE  /\ base[s] \in Nat /\ rd[s] \in 0 .. Modulus - 1 /\ wr[s] \in 0 .. Modulus - 1
           /\ base[s] \in Int /\ rd[s] \in Nat /\ wr[s] \in Nat
           /\ seekTo[s] \in Nat /\ open[s] \in BOOLEAN /\ eof[s] \in BOOLEAN
           /\ seekSeq[s] \in 0 .. SeqModulus - 1 /\ seekAck[s] \in 0 .. SeqModulus - 1
           /\ mem[s] \in [0 .. RingBytes[s] - 1 -> Byte]
<1>1. base[s] \in Nat /\ rd[s] \in 0 .. Modulus - 1 /\ wr[s] \in 0 .. Modulus - 1
  BY DEF TypeOK, WordsOK, AOK, BOK
<1>2. seekTo[s] \in Nat /\ open[s] \in BOOLEAN /\ eof[s] \in BOOLEAN
  BY DEF TypeOK, WordsOK, AOK, BOK
<1>3. seekSeq[s] \in 0 .. SeqModulus - 1 /\ seekAck[s] \in 0 .. SeqModulus - 1
  BY DEF TypeOK, WordsOK, AOK, BOK
<1>4. mem[s] \in [0 .. RingBytes[s] - 1 -> Byte]
  BY DEF TypeOK, WordsOK, AOK, BOK
<1> QED BY <1>1, <1>2, <1>3, <1>4, Sizes

(* poll_svc's next read asks for at least one byte and no more than are    *)
(* free.                                                                   *)
LEMMA FillSizeRange ==
    ASSUME TypeOK, NEW s \in Rings, NEW free \in Nat, free >= RefillChunk
    PROVE  FillSize(s, free) \in 1 .. free
<1> DEFINE hole == RingBytes[s] - (wr[s] % RingBytes[s])
           run == Least(Least(free, hole), RefillChunk)
<1>1. wr[s] \in Int /\ base[s] \in Int /\ RingBytes[s] \in Nat \ {0}
  BY Sizes, Cursors
<1>2. wr[s] % RingBytes[s] \in 0 .. RingBytes[s] - 1
  BY <1>1, ModRange
<1>3. hole \in Nat \ {0}
  BY <1>1, <1>2
<1>4. run \in 1 .. free
  BY <1>3, Sizes DEF Least
<1>5. base[s] + wr[s] + run \in Int
  BY <1>1, <1>4
<1>6. (base[s] + wr[s] + run) % Sector \in 0 .. Sector - 1
  BY <1>5, Sizes, ModRange
<1> HIDE DEF hole
<1>7. FillSize(s, free) =
        IF run > Sector THEN run - ((base[s] + wr[s] + run) % Sector) ELSE run
  BY DEF FillSize, hole
<1> HIDE DEF run
<1> QED BY <1>4, <1>6, <1>7, Sizes

(* The file service starts with its words in range.                        *)
LEMMA TInit == Init => TInv
<1> SUFFICES ASSUME Init PROVE TInv
  OBVIOUS
<1>1. DOMAIN mem = Rings /\ \A s \in Rings : mem[s] \in [0 .. RingBytes[s] - 1 -> Byte]
  BY Sizes DEF Init, Byte
<1>2. svc \in [Services -> [io : Files \cup {NoFile}, slot : Rings, pos : Nat]]
  BY DEF Init, NoSvc
<1>3. TypeOK
  BY <1>1, <1>2, Sizes DEF Init, TypeOK, WordsOK, AOK, BOK
<1>4. InRange
  BY DEF Init, InRange, NoSvc
<1> QED BY <1>3, <1>4 DEF TInv

(* What the type invariant says of A's own variables.                      *)
LEMMA Handles ==
    ASSUME TypeOK, NEW v \in Services
    PROVE  /\ svc[v].io \in Files \cup {NoFile} /\ svc[v].slot \in Rings /\ svc[v].pos \in Nat
           /\ svc[v] = [io |-> svc[v].io, slot |-> svc[v].slot, pos |-> svc[v].pos]
           /\ asvc \in Services /\ afree \in Nat /\ an \in Nat /\ agot \in Nat
BY DEF TypeOK, AOK

(* The same of the service being polled, S its ring.                       *)
LEMMA PollTypes ==
    ASSUME TypeOK
    PROVE  /\ asvc \in Services /\ S \in Rings /\ S = svc[asvc].slot
           /\ svc[asvc].io \in Files \cup {NoFile} /\ svc[asvc].pos \in Nat
           /\ afree \in Nat /\ an \in Nat /\ agot \in Nat
BY Handles DEF TypeOK, AOK, S

(* Moving the file position of the service being polled.                   *)
LEMMA MovePos ==
    ASSUME TypeOK, NEW q \in Nat, svc' = [svc EXCEPT ![asvc].pos = q]
    PROVE  /\ svc' \in [Services -> [io : Files \cup {NoFile}, slot : Rings, pos : Nat]]
           /\ svc'[asvc].io = svc[asvc].io /\ svc'[asvc].slot = svc[asvc].slot
           /\ svc'[asvc].pos = q
           /\ \A v \in Services : /\ svc'[v].io = svc[v].io /\ svc'[v].slot = svc[v].slot
                                  /\ v # asvc => svc'[v] = svc[v]
<1> asvc \in Services /\ svc \in [Services -> [io : Files \cup {NoFile}, slot : Rings, pos : Nat]]
  BY DEF TypeOK, AOK
<1> QED OBVIOUS

(* No step of bfs_poll takes a word, a file position or a local out of     *)
(* range, not even when a read or a seek goes wrong.                       *)
LEMMA TPoll == TInv /\ APoll => TInv'
<1> SUFFICES ASSUME TInv, APoll PROVE TInv'
  OBVIOUS
<1>t. TypeOK /\ WordsOK /\ AOK /\ BOK /\ InRange
  BY DEF TInv, TypeOK
<1>s. /\ asvc \in Services /\ S \in Rings /\ S = svc[asvc].slot
      /\ svc[asvc].io \in Files \cup {NoFile} /\ svc[asvc].pos \in Nat
      /\ afree \in Nat /\ an \in Nat /\ agot \in Nat
  BY <1>t, PollTypes
<1>w. /\ base[S] \in Nat /\ rd[S] \in Nat /\ wr[S] \in Nat /\ seekTo[S] \in Nat
      /\ rd[S] < Modulus /\ wr[S] < Modulus
      /\ mem[S] \in [0 .. RingBytes[S] - 1 -> Byte]
      /\ seekSeq[S] \in 0 .. SeqModulus - 1
  <2>1. /\ base[S] \in Nat /\ rd[S] \in 0 .. Modulus - 1 /\ wr[S] \in 0 .. Modulus - 1
        /\ rd[S] \in Nat /\ wr[S] \in Nat /\ seekTo[S] \in Nat
        /\ mem[S] \in [0 .. RingBytes[S] - 1 -> Byte] /\ seekSeq[S] \in 0 .. SeqModulus - 1
    BY <1>t, <1>s, Cursors
  <2>2. Modulus \in Nat
    BY Sizes
  <2> QED BY <2>1, <2>2
<1>z. Modulus \in Nat \ {0} /\ Sector \in Nat \ {0} /\ RingBytes[S] \in Nat \ {0}
  BY <1>s, Sizes
<1> USE DEF Set, Go, ACtl, aLocals
<1>b. BOK'
  <2>1. UNCHANGED bVars
    BY DEF APoll, Poll, SeekFile, SeekRd, SeekWr, SeekEof, SeekAck, NoSeek, Refill, FillDone,
           FillRead, FillError, Publish, FlagEof, Done
  <2> QED BY <2>1, <1>t DEF bVars, BOK
<1>1. ASSUME NEW v \in Services, Poll(v) PROVE WordsOK' /\ AOK' /\ InRange'
  BY <1>1, <1>t DEF Poll, words, WordsOK, AOK, InRange, S
<1>2. ASSUME SeekFile PROVE WordsOK' /\ AOK' /\ InRange'
  <2> DEFINE to == seekTo[S]
             landed == Least(to, FileSize[svc[asvc].io])
  <2>1. svc[asvc].io \in Files /\ FileSize[svc[asvc].io] \in Nat
    BY <1>2, <1>t, <1>s, Sizes DEF SeekFile, InRange
  <2>2. landed \in Nat /\ landed <= FileSize[svc[asvc].io] /\ landed <= to
    BY <2>1, <1>w DEF Least
  <2>3. svc' = [svc EXCEPT ![asvc].pos = landed]
    BY <1>2 DEF SeekFile
  <2>4. /\ svc' \in [Services -> [io : Files \cup {NoFile}, slot : Rings, pos : Nat]]
        /\ svc'[asvc].io = svc[asvc].io /\ svc'[asvc].slot = svc[asvc].slot
        /\ svc'[asvc].pos = landed
        /\ \A v \in Services : /\ svc'[v].io = svc[v].io /\ svc'[v].slot = svc[v].slot
                               /\ v # asvc => svc'[v] = svc[v]
    BY <2>2, <2>3, <1>t, MovePos
  <2>5. to % Sector \in 0 .. Sector - 1 /\ to - (to % Sector) \in Nat
        /\ to - (to % Sector) <= to
    <3>1. to \in Nat
      BY <1>w
    <3> HIDE DEF to
    <3>2. to % Sector \in 0 .. Sector - 1 /\ to % Sector <= to /\ to - (to % Sector) \in Nat
      BY <3>1, <1>z, ModNat
    <3> QED BY <3>1, <3>2, <1>z
  <2>6. \/ base' = [base EXCEPT ![S] = to - (to % Sector)] /\ landed = to /\ apc' = "seekRd"
        \/ base' = base /\ apc' = "seekAck"
    BY <1>2 DEF SeekFile
  <2>7. UNCHANGED <<open, rd, wr, eof, seekTo, seekSeq, seekAck, mem, preFile, actl, ring,
                    asvc, afree, an, agot>>
    BY <1>2 DEF SeekFile
  <2> HIDE DEF landed, to
  <2>8. WordsOK'
    BY <2>5, <2>6, <2>7, <1>t, <1>s DEF WordsOK
  <2>9. AOK'
    BY <2>4, <2>6, <2>7, <1>t DEF AOK
  <2>10. InRange'
    <3>1. S' = S
      BY <2>4, <2>7 DEF S
    <3>2. apc' = "seekRd" => base'[S] <= svc'[asvc].pos
      BY <2>4, <2>5, <2>6, <1>t, <1>s DEF WordsOK
    <3>3. svc'[asvc].io # NoFile
      BY <2>1, <2>4, Sizes
    <3>4. \A v \in Services : svc'[v].io # NoFile => svc'[v].pos <= FileSize[svc'[v].io]
      BY <2>2, <2>4, <1>t DEF InRange
    <3> QED BY <3>1, <3>2, <3>3, <3>4, <2>6, <2>7 DEF InRange
  <2> QED BY <2>8, <2>9, <2>10
<1>3. ASSUME SeekRd PROVE WordsOK' /\ AOK' /\ InRange'
  <2>1. svc[asvc].pos - base[S] \in 0 .. Modulus - 1
    <3>1. base[S] <= svc[asvc].pos /\ svc[asvc].io # NoFile
      BY <1>3, <1>t DEF SeekRd, InRange
    <3>2. svc[asvc].pos <= FileSize[svc[asvc].io]
      BY <3>1, <1>s, <1>t DEF InRange
    <3>3. FileSize[svc[asvc].io] \in Nat /\ FileSize[svc[asvc].io] < Modulus
      BY <3>1, <1>s, Sizes
    <3> QED BY <3>1, <3>2, <3>3, <1>s, <1>w, <1>z
  <2>2. UNCHANGED <<open, base, wr, eof, seekTo, seekSeq, seekAck, mem, svc,
                    preFile, actl, ring, asvc, afree, an, agot>>
        /\ rd' = [rd EXCEPT ![S] = svc[asvc].pos - base[S]] /\ apc = "seekRd" /\ apc' = "seekWr"
    BY <1>3 DEF SeekRd
  <2>3. WordsOK'
    BY <2>1, <2>2, <1>t, <1>s DEF WordsOK
  <2>4. AOK'
    BY <2>2, <1>t DEF AOK
  <2>5. InRange'
    BY <2>2, <1>t DEF InRange, S
  <2> QED BY <2>3, <2>4, <2>5
<1>4. ASSUME SeekWr PROVE WordsOK' /\ AOK' /\ InRange'
  <2>1. svc[asvc].pos - base[S] \in 0 .. Modulus - 1
    <3>1. base[S] <= svc[asvc].pos /\ svc[asvc].io # NoFile
      BY <1>4, <1>t DEF SeekWr, InRange
    <3>2. svc[asvc].pos <= FileSize[svc[asvc].io]
      BY <3>1, <1>s, <1>t DEF InRange
    <3>3. FileSize[svc[asvc].io] \in Nat /\ FileSize[svc[asvc].io] < Modulus
      BY <3>1, <1>s, Sizes
    <3> QED BY <3>1, <3>2, <3>3, <1>s, <1>w, <1>z
  <2>2. UNCHANGED <<open, base, rd, eof, seekTo, seekSeq, seekAck, mem, svc,
                    preFile, actl, ring, asvc, afree, an, agot>>
        /\ wr' = [wr EXCEPT ![S] = svc[asvc].pos - base[S]] /\ apc = "seekWr" /\ apc' = "seekEof"
    BY <1>4 DEF SeekWr
  <2>3. WordsOK'
    BY <2>1, <2>2, <1>t, <1>s DEF WordsOK
  <2>4. AOK'
    BY <2>2, <1>t DEF AOK
  <2>5. InRange'
    BY <2>2, <1>t DEF InRange, S
  <2> QED BY <2>3, <2>4, <2>5
<1>5. ASSUME SeekEof PROVE WordsOK' /\ AOK' /\ InRange'
  <2>1. WordsOK'
    BY <1>5, <1>t, <1>s DEF SeekEof, WordsOK
  <2>2. AOK' /\ InRange'
    BY <1>5, <1>t DEF SeekEof, AOK, InRange, S
  <2> QED BY <2>1, <2>2
<1>6. ASSUME SeekAck PROVE WordsOK' /\ AOK' /\ InRange'
  <2>1. WordsOK'
    BY <1>6, <1>t, <1>s, <1>w DEF SeekAck, WordsOK
  <2>2. AOK' /\ InRange'
    BY <1>6, <1>t DEF SeekAck, AOK, InRange, S
  <2> QED BY <2>1, <2>2
<1>7. ASSUME NoSeek PROVE WordsOK' /\ AOK' /\ InRange'
  BY <1>7, <1>t DEF NoSeek, words, WordsOK, AOK, InRange, S
<1>8. ASSUME Refill PROVE WordsOK' /\ AOK' /\ InRange'
  <2>1. (RingBytes[S] - (wr[S] - rd[S])) % Modulus \in Nat
    <3> DEFINE a == RingBytes[S] - (wr[S] - rd[S])
    <3>1. a \in Int
      BY <1>s, <1>w, Sizes
    <3> HIDE DEF a
    <3>2. a % Modulus \in Nat
      BY <3>1, Sizes, ModRange
    <3> QED BY <3>2 DEF a
  <2>2. UNCHANGED words /\ WordsOK'
    BY <1>8, <1>t DEF Refill, words, WordsOK
  <2>3. AOK'
    BY <1>8, <2>1, <1>t DEF Refill, Done, AOK
  <2>4. InRange'
    BY <1>8, <2>2, <1>t DEF Refill, Done, InRange, words, S
  <2> QED BY <2>2, <2>3, <2>4
<1>9. ASSUME FillDone PROVE WordsOK' /\ AOK' /\ InRange'
  BY <1>9, <1>t DEF FillDone, Done, words, WordsOK, AOK, InRange, S
<1>10. ASSUME FillRead \/ FillError PROVE WordsOK' /\ AOK' /\ InRange'
  <2> DEFINE size == FileSize[svc[asvc].io]
             n == FillSize(S, afree)
             k == Least(n, size - svc[asvc].pos)
  <2>1. svc[asvc].io \in Files /\ size \in Nat /\ svc[asvc].pos <= size
    BY <1>10, <1>t, <1>s, Sizes DEF FillRead, FillError, InRange
  <2>2. n \in 1 .. afree
    BY <1>10, <1>t, <1>s, FillSizeRange DEF FillRead, FillError
  <2> HIDE DEF n
  <2>3. k \in 0 .. n /\ k + svc[asvc].pos <= size /\ k <= afree
    BY <2>1, <2>2, <1>s DEF Least
  <2> HIDE DEF k, size
  <2>4. ASSUME NEW j \in 0 .. k, mem' = [mem EXCEPT ![S] = Filled(S, asvc, j)]
        PROVE  DOMAIN mem' = Rings /\ \A s \in Rings : mem'[s] \in [0 .. RingBytes[s] - 1 -> Byte]
    <3>1. Filled(S, asvc, j) \in [0 .. RingBytes[S] - 1 -> Byte]
      <4>1. ASSUME NEW i \in 0 .. RingBytes[S] - 1
            PROVE  <<svc[asvc].io, svc[asvc].pos + ((i - wr[S]) % RingBytes[S])>> \in Byte
        <5>1. i - wr[S] \in Int /\ RingBytes[S] \in Nat \ {0}
          BY <1>z, <1>w
        <5>2. (i - wr[S]) % RingBytes[S] \in 0 .. RingBytes[S] - 1
          BY <5>1, ModRange
        <5>3. (i - wr[S]) % RingBytes[S] \in Nat
          BY <5>2, <1>z
        <5> QED BY <5>3, <2>1, <1>s DEF Byte
      <4>2. DOMAIN mem[S] = 0 .. RingBytes[S] - 1
        BY <1>w
      <4> QED BY <4>1, <4>2, <1>w DEF Filled
    <3> QED BY <2>4, <3>1, <1>t, <1>s DEF WordsOK
  <2>5. ASSUME NEW j \in 0 .. k, svc' = [svc EXCEPT ![asvc].pos = @ + j]
        PROVE  /\ svc' \in [Services -> [io : Files \cup {NoFile}, slot : Rings, pos : Nat]]
               /\ svc'[asvc].io \in Files
               /\ \A v \in Services : svc'[v].io # NoFile => svc'[v].pos <= FileSize[svc'[v].io]
    <3>1. svc[asvc].pos + j \in Nat /\ svc[asvc].pos + j <= size
      BY <2>1, <2>3, <1>s
    <3>2. svc' = [svc EXCEPT ![asvc].pos = svc[asvc].pos + j]
      BY <2>5
    <3>3. /\ svc' \in [Services -> [io : Files \cup {NoFile}, slot : Rings, pos : Nat]]
          /\ svc'[asvc].io = svc[asvc].io /\ svc'[asvc].slot = svc[asvc].slot
          /\ svc'[asvc].pos = svc[asvc].pos + j
          /\ \A v \in Services : /\ svc'[v].io = svc[v].io /\ svc'[v].slot = svc[v].slot
                                 /\ v # asvc => svc'[v] = svc[v]
      BY <3>1, <3>2, <1>t, MovePos
    <3> QED BY <3>1, <3>3, <2>1, <1>t DEF InRange, size
  <2>6. CASE FillRead
    <3>1. /\ an' = n /\ agot' = k /\ mem' = [mem EXCEPT ![S] = Filled(S, asvc, k)]
          /\ svc' = [svc EXCEPT ![asvc].pos = @ + k]
          /\ apc' = IF k = 0 THEN "eof" ELSE "publish"
          /\ UNCHANGED <<open, base, rd, wr, eof, seekTo, seekSeq, seekAck, preFile, actl, ring,
                         asvc, afree>>
      BY <2>6 DEF FillRead, n, k, size
    <3>2. k \in 0 .. k /\ k \in Nat /\ an' \in Nat
      BY <2>2, <2>3, <3>1
    <3>3. WordsOK'
      BY <3>1, <3>2, <2>4, <1>t DEF WordsOK
    <3>4. AOK'
      BY <3>1, <3>2, <2>5, <1>t DEF AOK
    <3>5. InRange'
      BY <3>1, <3>2, <2>3, <2>5, Sizes DEF InRange
    <3> QED BY <3>3, <3>4, <3>5
  <2>7. CASE FillError
    <3>1. PICK j \in 0 .. k : /\ mem' = [mem EXCEPT ![S] = Filled(S, asvc, j)]
                              /\ svc' = [svc EXCEPT ![asvc].pos = @ + j]
      BY <2>7 DEF FillError, n, k, size
    <3>2. /\ open' = [open EXCEPT ![S] = FALSE] /\ Done
          /\ UNCHANGED <<base, rd, wr, eof, seekTo, seekSeq, seekAck, preFile, actl, ring>>
      BY <2>7 DEF FillError
    <3>3. WordsOK'
      BY <3>1, <3>2, <2>4, <1>t, <1>s DEF WordsOK
    <3>4. AOK'
      BY <3>1, <3>2, <2>5, <1>t DEF AOK, Done
    <3>5. InRange'
      BY <3>1, <3>2, <2>5 DEF InRange, Done
    <3> QED BY <3>3, <3>4, <3>5
  <2> QED BY <1>10, <2>6, <2>7
<1>12. ASSUME Publish PROVE WordsOK' /\ AOK' /\ InRange'
  <2>1. /\ wr' = [wr EXCEPT ![S] = (wr[S] + agot) % Modulus] /\ afree' = afree - agot
        /\ apc = "publish" /\ apc' \in {"eof", "fill"}
        /\ UNCHANGED <<open, base, rd, eof, seekTo, seekSeq, seekAck, mem, svc,
                       preFile, actl, ring, asvc, an, agot>>
    BY <1>12 DEF Publish
  <2>2. afree' \in Nat
    BY <2>1, <1>t, <1>s DEF InRange
  <2>3. (wr[S] + agot) % Modulus \in 0 .. Modulus - 1
    <3>1. wr[S] + agot \in Int
      BY <1>s, <1>w
    <3> QED BY <3>1, <1>z, ModRange
  <2>4. WordsOK'
    BY <2>1, <2>3, <1>t, <1>s DEF WordsOK
  <2>5. AOK'
    BY <2>1, <2>2, <1>t DEF AOK
  <2>6. InRange'
    BY <2>1, <1>t DEF InRange
  <2> QED BY <2>4, <2>5, <2>6
<1>13. ASSUME FlagEof PROVE WordsOK' /\ AOK' /\ InRange'
  <2>1. WordsOK'
    BY <1>13, <1>t, <1>s DEF FlagEof, WordsOK
  <2>2. AOK' /\ InRange'
    BY <1>13, <1>t DEF FlagEof, Done, AOK, InRange
  <2> QED BY <2>1, <2>2
<1> QED
  BY <1>b, <1>1, <1>2, <1>3, <1>4, <1>5, <1>6, <1>7, <1>8, <1>9, <1>10, <1>12, <1>13
  DEF APoll, TInv, TypeOK

(* Forgetting the bytes of a ring keeps the type of the rings' memory.     *)
LEMMA RetiredTypes ==
    ASSUME TypeOK, NEW rings, mem' = Retired(rings)
    PROVE  DOMAIN mem' = Rings /\ \A s \in Rings : mem'[s] \in [0 .. RingBytes[s] - 1 -> Byte]
<1>1. \A s \in Rings : mem[s] \in [0 .. RingBytes[s] - 1 -> Byte]
  BY DEF TypeOK, WordsOK
<1> QED BY <1>1 DEF Retired, Byte

(* ring_publish leaves the words it writes in range.                       *)
LEMMA PublishTypes ==
    ASSUME TypeOK, NEW s \in Rings, PublishRing(s), open' \in [Rings -> BOOLEAN]
    PROVE  WordsOK'
<1>1. DOMAIN mem' = Rings /\ \A r \in Rings : mem'[r] \in [0 .. RingBytes[r] - 1 -> Byte]
  BY RetiredTypes DEF PublishRing
<1>2. 0 \in 0 .. Modulus - 1
  BY Sizes
<1>3. seekSeq[s] \in 0 .. SeqModulus - 1
  BY DEF TypeOK, WordsOK
<1>4. /\ open' \in [Rings -> BOOLEAN] /\ eof' \in [Rings -> BOOLEAN]
      /\ base' \in [Rings -> Nat] /\ seekTo' \in [Rings -> Nat]
  BY DEF TypeOK, WordsOK, PublishRing, Set
<1>5. rd' \in [Rings -> 0 .. Modulus - 1] /\ wr' \in [Rings -> 0 .. Modulus - 1]
  BY <1>2 DEF TypeOK, WordsOK, PublishRing, Set
<1>6. seekSeq' \in [Rings -> 0 .. SeqModulus - 1] /\ seekAck' \in [Rings -> 0 .. SeqModulus - 1]
  BY <1>3 DEF TypeOK, WordsOK, PublishRing, Set
<1> QED BY <1>1, <1>4, <1>5, <1>6 DEF WordsOK

(* Nor does opening, pre-opening, promoting or closing a track.            *)
LEMMA TControl == TInv /\ AControl => TInv'
<1> SUFFICES ASSUME TInv, AControl PROVE TInv'
  OBVIOUS
<1>t. TypeOK /\ WordsOK /\ AOK /\ BOK /\ InRange
  BY DEF TInv, TypeOK
<1>s. /\ svc \in [Services -> [io : Files \cup {NoFile}, slot : Rings, pos : Nat]]
      /\ open \in [Rings -> BOOLEAN]
  BY <1>t DEF AOK, WordsOK
<1> USE DEF Set, AtRest
<1>i. /\ UNCHANGED <<bVars, apc, asvc, afree, an, agot>> /\ apc = "idle"
  BY DEF AControl, Start, Preopen, PreopenFails, Promote, Stop, Close, words
<1>b. BOK'
  BY <1>t, <1>i DEF bVars, BOK
<1>1. ASSUME NEW f \in Files, Start(f) PROVE WordsOK' /\ AOK' /\ InRange'
  <2>1. ClosedRings \in [Rings -> BOOLEAN]
    BY <1>s DEF ClosedRings
  <2>2. open' \in [Rings -> BOOLEAN]
    BY <1>1, <2>1 DEF Start
  <2>3. WordsOK'
    BY <1>1, <1>t, <2>2, PublishTypes DEF Start
  <2>4. AOK'
    BY <1>1, <1>t, <1>i DEF Start, AOK, NoSvc
  <2>5. InRange'
    BY <1>1, <1>i, Sizes DEF Start, InRange, NoSvc
  <2> QED BY <2>3, <2>4, <2>5
<1>2. ASSUME NEW f \in NextFiles, Preopen(f) PROVE WordsOK' /\ AOK' /\ InRange'
  <2>1. f \in Files /\ 1 - svc["cur"].slot \in Rings
    BY <1>s, Sizes
  <2>2. open' \in [Rings -> BOOLEAN]
    BY <1>2, <1>s DEF Preopen
  <2>3. WordsOK'
    BY <1>2, <1>t, <2>1, <2>2, PublishTypes DEF Preopen
  <2>4. AOK'
    BY <1>2, <1>t, <1>i, <2>1 DEF Preopen, AOK
  <2>5. InRange'
    BY <1>2, <1>i, <1>s, <1>t, <2>1, Sizes DEF Preopen, InRange
  <2> QED BY <2>3, <2>4, <2>5
<1>3. ASSUME NEW f \in NextFiles, PreopenFails(f) PROVE WordsOK' /\ AOK' /\ InRange'
  <2>1. WordsOK'
    BY <1>3, <1>t, RetiredTypes DEF PreopenFails, WordsOK
  <2>2. AOK'
    BY <1>3, <1>t, <1>i DEF PreopenFails, AOK
  <2>3. InRange'
    BY <1>3, <1>t, <1>i, <1>s DEF PreopenFails, InRange
  <2> QED BY <2>1, <2>2, <2>3
<1>4. ASSUME Promote PROVE WordsOK' /\ AOK' /\ InRange'
  <2>1. open' \in [Rings -> BOOLEAN]
    BY <1>4, <1>s DEF Promote
  <2>2. WordsOK'
    BY <1>4, <1>t, <2>1, RetiredTypes DEF Promote, WordsOK
  <2>3. AOK'
    BY <1>4, <1>t, <1>i DEF Promote, AOK, NoSvc
  <2>4. InRange'
    BY <1>4, <1>t, <1>i, <1>s DEF Promote, InRange, NoSvc
  <2> QED BY <2>2, <2>3, <2>4
<1>5. ASSUME Stop PROVE WordsOK' /\ AOK' /\ InRange'
  BY <1>5, <1>t, <1>i DEF Stop, words, WordsOK, AOK, InRange
<1>6. ASSUME Close PROVE WordsOK' /\ AOK' /\ InRange'
  <2>1. open' \in [Rings -> BOOLEAN]
    BY <1>6, <1>s DEF Close, ClosedRings
  <2>2. WordsOK'
    BY <1>6, <1>t, <2>1, RetiredTypes DEF Close, WordsOK
  <2>3. AOK'
    BY <1>6, <1>t, <1>i, <1>s DEF Close, AOK, NoSvc
  <2>4. InRange'
    BY <1>6, <1>i DEF Close, InRange, NoSvc
  <2> QED BY <2>2, <2>3, <2>4
<1> QED
  BY <1>b, <1>1, <1>2, <1>3, <1>4, <1>5, <1>6 DEF AControl, TInv, TypeOK

(* What the type invariant says of B's variables.                          *)
LEMMA BTypes ==
    ASSUME TypeOK
    PROVE  /\ bw \in Rings /\ brd \in Nat /\ bwr \in Nat /\ blen \in Nat
           /\ bbuf \in Seq(Byte) /\ Len(bbuf) \in Nat /\ at \in Nat
           /\ base[bw] \in Nat /\ rd[bw] \in Nat /\ wr[bw] \in Nat
           /\ rd[bw] < Modulus /\ wr[bw] < Modulus /\ brd < Modulus /\ bwr < Modulus
           /\ rd[bw] \in 0 .. Modulus - 1 /\ wr[bw] \in 0 .. Modulus - 1
           /\ (base[bw] + rd[bw]) % Modulus \in Nat
           /\ Avail \in Nat
<1>1. /\ bw \in Rings /\ brd \in 0 .. Modulus - 1 /\ bwr \in 0 .. Modulus - 1 /\ blen \in Nat
      /\ bbuf \in Seq(Byte) /\ at \in Nat
  BY DEF TypeOK, BOK
<1>2. /\ base[bw] \in Nat /\ rd[bw] \in 0 .. Modulus - 1 /\ wr[bw] \in 0 .. Modulus - 1
      /\ rd[bw] \in Nat /\ wr[bw] \in Nat
  BY <1>1, Cursors
<1>3. Modulus \in Nat \ {0}
  BY Sizes
<1>4. base[bw] + rd[bw] \in Nat
  BY <1>2
<1>5. (base[bw] + rd[bw]) % Modulus \in 0 .. Modulus - 1
  BY <1>3, <1>4, ModNat
<1>6. bwr - brd \in Int
  BY <1>1, <1>3
<1>7. (bwr - brd) % Modulus \in 0 .. Modulus - 1
  BY <1>3, <1>6, ModRange
<1>8. (base[bw] + rd[bw]) % Modulus \in Nat /\ (bwr - brd) % Modulus \in Nat
  BY <1>3, <1>5, <1>7
<1>9. Len(bbuf) \in Nat
  BY <1>1
<1>10. /\ rd[bw] < Modulus /\ wr[bw] < Modulus /\ brd < Modulus /\ bwr < Modulus
       /\ brd \in Nat /\ bwr \in Nat
  BY <1>1, <1>2, <1>3
<1> QED BY <1>1, <1>2, <1>8, <1>9, <1>10 DEF Avail

(* What bcio_read has copied once it has taken n more bytes of its ring.   *)
LEMMA CopyTypes ==
    ASSUME TypeOK, NEW n \in Nat
    PROVE  LET more == [i \in 1 .. n |-> mem[bw][(brd + i - 1) % RingBytes[bw]]]
           IN  /\ more \in Seq(Byte) /\ Len(more) = n
               /\ bbuf \o more \in Seq(Byte) /\ Len(bbuf \o more) = Len(bbuf) + n
               /\ \A i \in 1 .. Len(bbuf) + n :
                     (bbuf \o more)[i] =
                        IF i <= Len(bbuf) THEN bbuf[i]
                        ELSE mem[bw][(brd + (i - Len(bbuf)) - 1) % RingBytes[bw]]
<1> DEFINE more == [i \in 1 .. n |-> mem[bw][(brd + i - 1) % RingBytes[bw]]]
<1>1. bw \in Rings /\ brd \in Nat /\ bbuf \in Seq(Byte) /\ Len(bbuf) \in Nat
  BY BTypes
<1>2. mem[bw] \in [0 .. RingBytes[bw] - 1 -> Byte] /\ RingBytes[bw] \in Nat \ {0}
  BY <1>1, Cursors, Sizes
<1>3. ASSUME NEW i \in 1 .. n PROVE mem[bw][(brd + i - 1) % RingBytes[bw]] \in Byte
  <2>1. brd + i - 1 \in Int
    BY <1>1
  <2>2. (brd + i - 1) % RingBytes[bw] \in 0 .. RingBytes[bw] - 1
    BY <1>2, <2>1, ModRange
  <2> QED BY <1>2, <2>2
<1>4. more \in [1 .. n -> Byte]
  BY <1>3
<1>5. more \in Seq(Byte) /\ Len(more) = n
  BY <1>4
<1>6. \A i \in 1 .. n : more[i] = mem[bw][(brd + i - 1) % RingBytes[bw]]
  OBVIOUS
<1> HIDE DEF more
<1>7. /\ bbuf \o more \in Seq(Byte) /\ Len(bbuf \o more) = Len(bbuf) + n
      /\ \A i \in 1 .. Len(bbuf) + n :
            (bbuf \o more)[i] = IF i <= Len(bbuf) THEN bbuf[i] ELSE more[i - Len(bbuf)]
  BY <1>1, <1>5, ConcatProperties
<1>8. ASSUME NEW i \in 1 .. Len(bbuf) + n, ~(i <= Len(bbuf))
      PROVE  more[i - Len(bbuf)] = mem[bw][(brd + (i - Len(bbuf)) - 1) % RingBytes[bw]]
  <2>1. i - Len(bbuf) \in 1 .. n
    BY <1>1, <1>8
  <2> QED BY <1>6, <2>1
<1>9. \A i \in 1 .. Len(bbuf) + n :
        (bbuf \o more)[i] = IF i <= Len(bbuf) THEN bbuf[i]
                            ELSE mem[bw][(brd + (i - Len(bbuf)) - 1) % RingBytes[bw]]
  BY <1>7, <1>8
<1> QED BY <1>5, <1>7, <1>9 DEF more

(* Nor does any call of the codec on B.                                    *)
LEMMA TCodec == TInv /\ (BRead \/ ReadStall \/ BSeek \/ SeekTimeout \/ BCodec) => TInv'
<1> SUFFICES ASSUME TInv, BRead \/ ReadStall \/ BSeek \/ SeekTimeout \/ BCodec PROVE TInv'
  OBVIOUS
<1>t. TypeOK /\ WordsOK /\ AOK /\ BOK /\ InRange
  BY DEF TInv, TypeOK
<1>s. /\ bw \in Rings /\ brd \in Nat /\ bwr \in Nat /\ blen \in Nat
      /\ bbuf \in Seq(Byte) /\ Len(bbuf) \in Nat /\ at \in Nat
      /\ rd[bw] \in 0 .. Modulus - 1 /\ wr[bw] \in 0 .. Modulus - 1
      /\ (base[bw] + rd[bw]) % Modulus \in Nat /\ Avail \in Nat
  BY <1>t, BTypes
<1>e. << >> \in Seq(Byte) /\ 0 \in 0 .. Modulus - 1 /\ 0 \in 0 .. SeqModulus - 1
  BY Sizes
<1> USE DEF Set, aSide
<1>i. UNCHANGED <<svc, apc, asvc, base, afree, an, agot, preFile, ring,
                  wr, eof, seekAck, mem, open>>
  BY DEF BRead, BSeek, BCodec, ReadLoad, ReadCopy, ReadConsume, ReadFull, ReadDry, ReadStall,
         SeekRequest, SeekReturn, SeekTimeout, OpenCodec, Drain, CloseCodec, ReadBegin,
         SeekBegin, words, aVars, Return
<1>r. InRange'
  BY <1>i, <1>t DEF InRange, S
<1>a. AOK'
  <2>1. actl' \in {actl, "playing", "closing"}
    BY DEF BRead, BSeek, BCodec, ReadLoad, ReadCopy, ReadConsume, ReadFull, ReadDry, ReadStall,
         SeekRequest, SeekReturn, SeekTimeout, OpenCodec, Drain, CloseCodec, ReadBegin,
         SeekBegin, words, aVars, Return
  <2> QED BY <2>1, <1>i, <1>t DEF AOK
<1>1. ASSUME \/ ReadLoad \/ ReadCopy \/ ReadFull \/ ReadDry \/ ReadStall
             \/ SeekReturn \/ SeekTimeout \/ OpenCodec \/ Drain \/ CloseCodec
             \/ \E n \in ReadLens : ReadBegin(n)
      PROVE  TInv'
  <2>1. UNCHANGED words
    BY <1>1 DEF ReadLoad, ReadCopy, ReadFull, ReadDry, ReadStall, SeekReturn, SeekTimeout,
                OpenCodec, Drain, CloseCodec, ReadBegin, Return
  <2>w. WordsOK'
    BY <2>1, <1>t DEF words, WordsOK
  <2>2. ASSUME NEW how \in {"full", "end", "unserved", "stall"}, Return(how) PROVE BOK'
    BY <2>2, <1>t, <1>s, <1>e DEF Return, BOK
  <2>l. ASSUME ReadLoad PROVE BOK'
    BY <2>l, <1>t, <1>s DEF ReadLoad, BOK
  <2>f. ASSUME ReadFull \/ ReadStall PROVE BOK'
    BY <2>f, <2>2 DEF ReadFull, ReadStall
  <2>d. ASSUME ReadDry PROVE BOK'
    <3>1. CASE eof[bw] /\ Return("end")
      BY <3>1, <2>2
    <3>2. CASE ~eof[bw] /\ ~open[bw] /\ Return("unserved")
      BY <3>2, <2>2
    <3>3. ASSUME bpc' = "load"
                 /\ UNCHANGED <<bw, bfile, blen, bbuf, brd, bwr, bseek, at, last, outcome>>
          PROVE  BOK'
      BY <3>3, <1>t DEF BOK
    <3> QED BY <2>d, <3>1, <3>2, <3>3 DEF ReadDry
  <2>3. ASSUME ReadCopy PROVE BOK'
    <3> DEFINE n == Least(Avail, blen - Len(bbuf))
               more == [i \in 1 .. n |-> mem[bw][(brd + i - 1) % RingBytes[bw]]]
    <3>1. n \in Int
      BY <1>s DEF Least
    <3>2. more \in Seq(Byte) /\ bbuf \o more \in Seq(Byte)
      <4>1. CASE n \in Nat
        BY <4>1, <1>t, CopyTypes
      <4>2. CASE n \notin Nat
        <5> HIDE DEF n
        <5>1. 1 .. n = {}
          BY <4>2, <3>1
        <5>2. more = << >>
          BY <5>1
        <5> HIDE DEF more
        <5> QED BY <5>2, <1>s, <1>e, ConcatProperties
      <4> QED BY <4>1, <4>2
    <3>3. /\ bbuf' = bbuf \o more /\ brd' = (brd + n) % Modulus /\ bpc' = "consume"
          /\ UNCHANGED <<bw, bfile, blen, bwr, bseek, at, last, outcome>>
      BY <2>3 DEF ReadCopy
    <3> HIDE DEF n, more
    <3>4. Modulus \in Nat \ {0} /\ brd + n \in Int
      BY <1>s, <3>1, Sizes
    <3>5. (brd + n) % Modulus \in 0 .. Modulus - 1
      BY <3>4, ModRange
    <3> QED BY <3>2, <3>3, <3>5, <1>t DEF BOK
  <2>4. ASSUME SeekReturn \/ SeekTimeout PROVE BOK'
    BY <2>4, <1>t, <1>s, <1>e DEF SeekReturn, SeekTimeout, BOK
  <2>c. ASSUME Drain \/ CloseCodec PROVE BOK'
    <3>1. ASSUME Drain PROVE BOK'
      BY <3>1, <1>t DEF Drain, BOK
    <3>2. ASSUME CloseCodec PROVE BOK'
      BY <3>2, <1>t, <1>e DEF CloseCodec, BOK
    <3> QED BY <2>c, <3>1, <3>2
  <2>5. ASSUME NEW n \in ReadLens, ReadBegin(n) PROVE BOK'
    <3>1. n \in Nat
      BY Sizes
    <3> QED BY <2>5, <3>1, <1>t, <1>e DEF ReadBegin, BOK
  <2>6. ASSUME OpenCodec PROVE BOK'
    BY <2>6, <1>t, <1>e DEF OpenCodec, BOK, AOK
  <2> QED
    BY <2>w, <2>l, <2>3, <2>f, <2>d, <2>4, <2>c, <2>5, <2>6, <1>1, <1>a, <1>r DEF TInv, TypeOK
<1>2. ASSUME ReadConsume PROVE TInv'
  <2>1. WordsOK'
    BY <1>2, <1>i, <1>t, <1>s DEF ReadConsume, WordsOK, BOK
  <2>2. BOK'
    BY <1>2, <1>t, SMTT(60) DEF ReadConsume, BOK
  <2> QED BY <2>1, <2>2, <1>a, <1>r DEF TInv, TypeOK
<1>3. ASSUME SeekRequest PROVE TInv'
  <2>0. SeqModulus \in Nat \ {0}
    BY Sizes
  <2>s. seekSeq[bw] \in 0 .. SeqModulus - 1
    BY <1>t, <1>s DEF WordsOK
  <2>1. seekSeq[bw] \in 0 .. SeqModulus - 1 /\ SeqModulus \in Nat \ {0}
    BY <2>0, <2>s
  <2>2. seekSeq[bw] + 1 \in Int
    BY <2>1
  <2>3. (seekSeq[bw] + 1) % SeqModulus \in 0 .. SeqModulus - 1
    BY <2>1, <2>2, ModRange
  <2>4. WordsOK'
    BY <1>3, <1>i, <1>t, <1>s, <2>3 DEF SeekRequest, WordsOK
  <2>5. BOK'
    BY <1>3, <1>t, <2>3 DEF SeekRequest, BOK
  <2> QED BY <2>4, <2>5, <1>a, <1>r DEF TInv, TypeOK
<1>4. ASSUME NEW to \in SeekTargets, SeekBegin(to) PROVE TInv'
  <2>1. to \in Nat
    BY Sizes
  <2>2. WordsOK'
    BY <1>4, <1>i, <1>t, <1>s, <2>1 DEF SeekBegin, WordsOK
  <2>3. BOK'
    BY <1>4, <1>t DEF SeekBegin, BOK
  <2> QED BY <2>2, <2>3, <1>a, <1>r DEF TInv, TypeOK
<1> QED BY <1>1, <1>2, <1>3, <1>4 DEF BRead, BSeek, BCodec

(* The types are inductive.                                                *)
LEMMA TNext == TInv /\ [Next]_vars => TInv'
<1> SUFFICES ASSUME TInv, [Next]_vars PROVE TInv'
  OBVIOUS
<1>1. CASE UNCHANGED vars
  <2>1. UNCHANGED <<words, aVars, bVars>>
    BY <1>1 DEF vars
  <2>2. WordsOK' /\ AOK'
    BY <2>1 DEF words, aVars, TInv, TypeOK, WordsOK, AOK
  <2>3. BOK' /\ InRange'
    BY <2>1 DEF words, aVars, bVars, TInv, TypeOK, BOK, InRange, S
  <2> QED BY <2>2, <2>3 DEF TInv, TypeOK
<1> QED BY <1>1, TPoll, TControl, TCodec DEF Next

(* Every word of the file service keeps its type under every fault: WR and *)
(* RD stay below their modulus, and a ring never holds anything but bytes  *)
(* of files.                                                               *)
THEOREM FileTypes == Spec => []TypeOK
<1>1. TInv /\ [Next]_vars => TInv'
  BY TNext
<1>2. TInv => TypeOK
  BY DEF TInv
<1> QED BY <1>1, <1>2, TInit, PTL DEF Spec

-----------------------------------------------------------------------------
(* The ring in service and the file: facts every step uses.                *)

(* A position below the width of its word is not wrapped.                  *)
LEMMA ModSmall ==
    ASSUME NEW a \in Nat, NEW n \in Nat \ {0}, a < n
    PROVE  a % n = a
OBVIOUS

(* The ring of B is that of the current service while a call may use it.   *)
LEMMA Engaged ==
    ASSUME IInv, bpc \notin {"closed", "drained"} \/ (bpc = "drained" /\ actl = "playing")
    PROVE  /\ actl \notin {"opening", "stopped"}
           /\ bfile \in Files /\ svc["cur"].io = bfile /\ svc["cur"].slot = bw
           /\ svc["cur"].io # NoFile
           /\ svc["pre"].io # NoFile => svc["pre"].slot # bw
<1>1. Roles /\ TypeOK
  BY DEF IInv, Kept, TInv
<1>2. actl \notin {"opening", "stopped"}
  BY <1>1 DEF Roles
<1>3. bpc # "closed"
  OBVIOUS
<1>4. bfile \in Files /\ svc["cur"].io = bfile /\ svc["cur"].slot = bw
  BY <1>1, <1>2, <1>3 DEF Roles
<1>5. bw \in Rings
  BY <1>1, BTypes
<1> QED BY <1>1, <1>2, <1>4, <1>5, Sizes DEF Roles

(* What a served ring holds, with no wrapping of its positions.            *)
LEMMA ServedRing ==
    ASSUME IInv, NEW v \in Services, Served(v), NEW s \in Rings, s = svc[v].slot
    PROVE  /\ rd[s] \in Nat /\ wr[s] \in Nat /\ base[s] \in Nat
           /\ rd[s] <= wr[s] /\ wr[s] + Ahead(v) - rd[s] <= RingBytes[s]
           /\ Ahead(v) \in Nat
           /\ svc[v].pos = base[s] + wr[s] + Ahead(v)
           /\ svc[v].pos <= FileSize[svc[v].io]
           /\ FileSize[svc[v].io] \in Nat
           /\ svc[v].pos < Modulus
           /\ base[s] + rd[s] <= FileSize[svc[v].io]
           /\ base[s] + rd[s] < Modulus
           /\ \A p \in rd[s] .. wr[s] + Ahead(v) - 1 :
                 mem[s][p % RingBytes[s]] = <<svc[v].io, base[s] + p>>
<1>1. TypeOK /\ Contents /\ InRange
  BY DEF IInv, Kept, TInv
<1>2. rd[s] \in Nat /\ wr[s] \in Nat /\ base[s] \in Nat
  BY <1>1, Cursors
<1>3. /\ rd[s] <= wr[s] /\ wr[s] + Ahead(v) - rd[s] <= RingBytes[s]
      /\ svc[v].pos = base[s] + wr[s] + Ahead(v)
      /\ \A p \in rd[s] .. wr[s] + Ahead(v) - 1 :
            mem[s][p % RingBytes[s]] = <<svc[v].io, base[s] + p>>
  BY <1>1 DEF Contents
<1>4. Ahead(v) \in Nat
  BY <1>1, PollTypes DEF Ahead
<1>5. svc[v].io \in Files /\ svc[v].pos <= FileSize[svc[v].io]
  BY <1>1, Handles DEF Served, InRange
<1>6. FileSize[svc[v].io] \in Nat /\ FileSize[svc[v].io] < Modulus /\ Modulus \in Nat
  BY <1>5, Sizes
<1> QED BY <1>2, <1>3, <1>4, <1>5, <1>6

(* While B reads, its ring is served: A repositions it only when B waits.  *)
LEMMA ReadingRing ==
    ASSUME IInv, \/ bpc \in {"rest", "load", "copy", "consume", "dry", "request"}
                 \/ bpc = "await" /\ seekAck[bw] = bseek
    PROVE  /\ Served("cur") /\ svc["cur"].slot = bw /\ svc["cur"].io = bfile
           /\ bfile \in Files /\ bw \in Rings
           /\ ~Pending(bw)
           /\ rd[bw] <= wr[bw] /\ base[bw] + rd[bw] <= FileSize[bfile]
           /\ (base[bw] + rd[bw]) % Modulus = base[bw] + rd[bw]
<1>1. TypeOK /\ Rebase /\ Seeks
  BY DEF IInv, Kept, TInv
<1>2. bfile \in Files /\ svc["cur"].io = bfile /\ svc["cur"].slot = bw /\ svc["cur"].io # NoFile
  BY Engaged
<1>3. ~Pending(bw)
  BY <1>1, <1>2 DEF Seeks, Pending
<1>4. Served("cur")
  BY <1>1, <1>2, <1>3 DEF Served, Rebasing, Rebase
<1>5. bw \in Rings
  BY <1>1, BTypes
<1>6. /\ rd[bw] \in Nat /\ base[bw] \in Nat /\ rd[bw] <= wr[bw]
      /\ base[bw] + rd[bw] <= FileSize[bfile] /\ base[bw] + rd[bw] < Modulus
  BY <1>2, <1>4, <1>5, ServedRing
<1>7. (base[bw] + rd[bw]) % Modulus = base[bw] + rd[bw]
  <2> DEFINE a == base[bw] + rd[bw]
  <2>1. a \in Nat /\ a < Modulus /\ Modulus \in Nat \ {0}
    BY <1>6, Sizes
  <2> HIDE DEF a
  <2>2. a % Modulus = a
    BY <2>1, ModSmall
  <2> QED BY <2>2 DEF a
<1> QED BY <1>2, <1>3, <1>4, <1>5, <1>6, <1>7

(* Two services never share a ring.                                        *)
LEMMA Apart ==
    ASSUME IInv, NEW v \in Services, NEW u \in Services, v # u,
           svc[v].io # NoFile, svc[u].io # NoFile
    PROVE  svc[v].slot # svc[u].slot
BY Handles DEF IInv, Kept, Roles, TInv

-----------------------------------------------------------------------------
(* A: the steps of a seek.                                                 *)

(* A serves a seek only of the ring B waits on.                            *)
LEMMA SeekingRing ==
    ASSUME IInv, \/ apc = "seek" /\ seekSeq[S] # seekAck[S]
                 \/ apc \in {"seekRd", "seekWr", "seekEof", "seekAck"}
    PROVE  /\ asvc = "cur" /\ S = bw /\ svc["cur"].slot = bw /\ bw \in Rings
           /\ bpc = "await" /\ Pending(bw) /\ seekSeq[bw] = bseek /\ seekAck[bw] # bseek
           /\ actl \notin {"opening", "stopped"}
           /\ bfile \in Files /\ svc["cur"].io = bfile /\ bfile # NoFile
           /\ svc["pre"].io # NoFile => svc["pre"].slot # bw
           /\ seekTo[bw] \in Nat /\ seekTo[bw] <= FileSize[bfile]
           /\ base[bw] \in Nat /\ rd[bw] \in Nat /\ wr[bw] \in Nat
<1>1. TypeOK /\ InRange /\ Roles /\ Seeks /\ Rebase
  BY DEF IInv, Kept, TInv
<1>2. asvc \in Services /\ svc[asvc].io # NoFile
  BY <1>1, PollTypes DEF InRange
<1>3. asvc = "cur"
  BY <1>1, <1>2 DEF Roles, Rebase, Fresh, S
<1>4. bpc = "await"
  BY <1>1, <1>2, <1>3 DEF Seeks, Rebase, Pending, S
<1>5. /\ actl \notin {"opening", "stopped"}
      /\ bfile \in Files /\ svc["cur"].io = bfile /\ svc["cur"].slot = bw
      /\ svc["cur"].io # NoFile
      /\ svc["pre"].io # NoFile => svc["pre"].slot # bw
  BY <1>4, Engaged
<1>6. S = bw
  BY <1>3, <1>5 DEF S
<1>7. Pending(bw)
  BY <1>1, <1>6 DEF Rebase, Pending
<1>8. seekSeq[bw] = bseek /\ seekAck[bw] # bseek /\ seekTo[bw] <= FileSize[bfile]
  BY <1>1, <1>4, <1>7 DEF Seeks, Pending
<1>9. bw \in Rings
  BY <1>1, BTypes
<1>10. seekTo[bw] \in Nat /\ base[bw] \in Nat /\ rd[bw] \in Nat /\ wr[bw] \in Nat
  BY <1>1, <1>9, Cursors
<1> QED BY <1>3, <1>4, <1>5, <1>6, <1>7, <1>8, <1>9, <1>10

(* Between the first store of a seek and its acknowledgement only the      *)
(* words of B's ring change, and nothing is promised of them.              *)
LEMMA Repositioning ==
    ASSUME IInv, \/ apc = "seek" /\ seekSeq[S] # seekAck[S]
                 \/ apc \in {"seekRd", "seekWr", "seekEof", "seekAck"},
           apc' \in {"seekRd", "seekWr", "seekEof", "seekAck"},
           UNCHANGED <<bVars, seekTo, seekSeq, seekAck, mem, ACtl, aLocals>>,
           svc'["cur"].io = svc["cur"].io, svc'["cur"].slot = svc["cur"].slot,
           svc'["pre"] = svc["pre"],
           \A s \in Rings : s # bw => base'[s] = base[s] /\ rd'[s] = rd[s] /\ wr'[s] = wr[s]
    PROVE  Roles' /\ Seeks' /\ Contents' /\ Room' /\ Reading'
<1>1. TypeOK /\ InRange /\ Roles /\ Seeks /\ Contents /\ Reading
  BY DEF IInv, Kept, TInv
<1>2. /\ asvc = "cur" /\ S = bw /\ svc["cur"].slot = bw /\ bw \in Rings
      /\ bpc = "await" /\ Pending(bw) /\ seekSeq[bw] = bseek /\ seekAck[bw] # bseek
      /\ actl \notin {"opening", "stopped"}
      /\ bfile \in Files /\ svc["cur"].io = bfile /\ bfile # NoFile
      /\ svc["pre"].io # NoFile => svc["pre"].slot # bw
  BY SeekingRing
<1>3. svc["pre"].slot \in Rings
  BY <1>1, Handles
<1>4. Roles'
  BY <1>1, <1>2, <1>3 DEF Roles, Fresh, bVars, ACtl
<1>5. Seeks'
  BY <1>1, <1>2 DEF Seeks, Pending, bVars
<1>6. Contents'
  <2>1. Rebasing("cur")'
    BY <1>2 DEF Rebasing, aLocals
  <2>2. ASSUME Served("pre")' PROVE Served("pre") /\ svc["pre"].slot # bw
    BY <2>2, <1>2 DEF Served, Rebasing
  <2>3. Ahead("pre")' = 0 /\ Ahead("pre") = 0
    BY <1>2 DEF Ahead, aLocals
  <2> QED BY <2>1, <2>2, <2>3, <1>1, <1>3 DEF Contents, Served
<1>7. Room'
  BY DEF Room
<1>8. Reading'
  BY <1>1, <1>2 DEF Reading, bVars
<1> QED BY <1>4, <1>5, <1>6, <1>7, <1>8

(* Each store of a seek, the last of which acknowledges it, keeps the      *)
(* invariant.                                                              *)
LEMMA SeekSteps ==
    ASSUME IInv, SeekFile \/ SeekRd \/ SeekWr \/ SeekEof \/ SeekAck
    PROVE  Kept'
<1>1. TypeOK /\ InRange /\ Roles /\ Seeks /\ Rebase /\ Contents /\ Reading
  BY DEF IInv, Kept, TInv
<1>2. /\ asvc = "cur" /\ S = bw /\ svc["cur"].slot = bw /\ bw \in Rings
      /\ bpc = "await" /\ Pending(bw) /\ seekSeq[bw] = bseek /\ seekAck[bw] # bseek
      /\ actl \notin {"opening", "stopped"}
      /\ bfile \in Files /\ svc["cur"].io = bfile /\ bfile # NoFile
      /\ svc["pre"].io # NoFile => svc["pre"].slot # bw
      /\ seekTo[bw] \in Nat /\ seekTo[bw] <= FileSize[bfile]
      /\ base[bw] \in Nat /\ rd[bw] \in Nat /\ wr[bw] \in Nat
  BY SeekingRing DEF SeekFile, SeekRd, SeekWr, SeekEof, SeekAck
<1>3. /\ base \in [Rings -> Nat] /\ rd \in [Rings -> 0 .. Modulus - 1]
      /\ wr \in [Rings -> 0 .. Modulus - 1] /\ seekAck \in [Rings -> 0 .. SeqModulus - 1]
  BY <1>1 DEF TypeOK, WordsOK
<1> USE DEF Set, Go
<1>4. ASSUME SeekFile PROVE Kept'
  <2> DEFINE to == seekTo[bw]
  <2>1. FileSize[bfile] \in Nat
    BY <1>2, Sizes
  <2>2. Least(seekTo[S], FileSize[svc[asvc].io]) = to
    BY <2>1, <1>2 DEF Least
  <2>3. /\ svc' = [svc EXCEPT !["cur"].pos = to]
        /\ base' = [base EXCEPT ![bw] = to - (to % Sector)] /\ apc' = "seekRd"
        /\ UNCHANGED <<rd, wr, seekTo, seekSeq, seekAck, mem, ACtl, aLocals, bVars>>
    BY <1>2, <1>4, <2>2 DEF SeekFile
  <2>4. /\ svc'["cur"].io = svc["cur"].io /\ svc'["cur"].slot = svc["cur"].slot
        /\ svc'["pre"] = svc["pre"] /\ svc'["cur"].pos = to
    BY <2>3, <1>1 DEF TypeOK, AOK
  <2>5. base'[bw] = to - (to % Sector) /\ \A s \in Rings : s # bw => base'[s] = base[s]
    BY <2>3, <1>2, <1>3
  <2>6. apc = "seek" /\ seekSeq[S] # seekAck[S]
    BY <1>4 DEF SeekFile
  <2>7. Roles' /\ Seeks' /\ Contents' /\ Room' /\ Reading'
    BY <2>3, <2>4, <2>5, <2>6, Repositioning
  <2>8. Rebase'
    BY <1>2, <2>3, <2>4, <2>5 DEF Rebase, Pending, aLocals, bVars
  <2> QED BY <2>7, <2>8 DEF Kept
<1>5. ASSUME SeekRd PROVE Kept'
  <2>1. /\ rd' = [rd EXCEPT ![bw] = svc["cur"].pos - base[bw]]
        /\ apc = "seekRd" /\ apc' = "seekWr"
        /\ UNCHANGED <<base, wr, seekTo, seekSeq, seekAck, mem, svc, ACtl, aLocals, bVars>>
    BY <1>2, <1>5 DEF SeekRd
  <2>2. rd'[bw] = svc["cur"].pos - base[bw] /\ \A s \in Rings : s # bw => rd'[s] = rd[s]
    BY <2>1, <1>2, <1>3
  <2>3. Roles' /\ Seeks' /\ Contents' /\ Room' /\ Reading'
    BY <2>1, <2>2, Repositioning
  <2>4. Rebase'
    BY <1>1, <1>2, <2>1, <2>2 DEF Rebase, Pending, aLocals, bVars
  <2> QED BY <2>3, <2>4 DEF Kept
<1>6. ASSUME SeekWr PROVE Kept'
  <2>1. /\ wr' = [wr EXCEPT ![bw] = svc["cur"].pos - base[bw]]
        /\ apc = "seekWr" /\ apc' = "seekEof"
        /\ UNCHANGED <<base, rd, seekTo, seekSeq, seekAck, mem, svc, ACtl, aLocals, bVars>>
    BY <1>2, <1>6 DEF SeekWr
  <2>2. wr'[bw] = svc["cur"].pos - base[bw] /\ \A s \in Rings : s # bw => wr'[s] = wr[s]
    BY <2>1, <1>2, <1>3
  <2>3. Roles' /\ Seeks' /\ Contents' /\ Room' /\ Reading'
    BY <2>1, <2>2, Repositioning
  <2>4. Rebase'
    BY <1>1, <1>2, <2>1, <2>2 DEF Rebase, Pending, aLocals, bVars
  <2> QED BY <2>3, <2>4 DEF Kept
<1>7. ASSUME SeekEof PROVE Kept'
  <2>1. /\ apc = "seekEof" /\ apc' = "seekAck"
        /\ UNCHANGED <<base, rd, wr, seekTo, seekSeq, seekAck, mem, svc, ACtl, aLocals, bVars>>
    BY <1>7 DEF SeekEof
  <2>2. Roles' /\ Seeks' /\ Contents' /\ Room' /\ Reading'
    BY <2>1, Repositioning
  <2>3. Rebase'
    BY <1>1, <1>2, <2>1 DEF Rebase, Pending, aLocals, bVars
  <2> QED BY <2>2, <2>3 DEF Kept
<1>8. ASSUME SeekAck PROVE Kept'
  <2>1. /\ apc = "seekAck" /\ apc' = "refill"
        /\ seekAck' = [seekAck EXCEPT ![bw] = seekSeq[bw]]
        /\ UNCHANGED <<base, rd, wr, seekTo, seekSeq, mem, svc, ACtl, aLocals, bVars>>
    BY <1>2, <1>8 DEF SeekAck
  <2>2. seekAck'[bw] = seekSeq[bw] /\ \A s \in Rings : s # bw => seekAck'[s] = seekAck[s]
    BY <2>1, <1>2, <1>3
  <2>3. /\ svc["cur"].pos = seekTo[bw] /\ rd[bw] = seekTo[bw] - base[bw]
        /\ wr[bw] = seekTo[bw] - base[bw]
    BY <1>1, <2>1 DEF Rebase
  <2>4. svc["pre"].slot \in Rings /\ RingBytes[bw] \in Nat
    BY <1>1, <1>2, Handles, Sizes
  <2>5. Roles'
    BY <1>1, <1>2, <2>1, <2>2, <2>4 DEF Roles, Fresh, bVars, ACtl
  <2>6. Seeks'
    BY <1>1, <1>2, <2>1, <2>2, <2>3 DEF Seeks, Pending, bVars
  <2>7. Rebase' /\ Room'
    BY <2>1 DEF Rebase, Room
  <2>8. Contents'
    <3>1. /\ rd[bw] <= wr[bw] /\ wr[bw] + 0 - rd[bw] <= RingBytes[bw]
          /\ svc["cur"].pos = base[bw] + wr[bw] + 0
          /\ rd[bw] .. wr[bw] + 0 - 1 = {}
      BY <2>3, <2>4, <1>2
    <3>2. \A v \in Services : Ahead(v)' = 0 /\ Ahead(v) = 0
      BY <2>1 DEF Ahead
    <3>3. Served("pre")' => Served("pre")
      BY <2>1, <1>2 DEF Served, Rebasing
    <3> QED BY <3>1, <3>2, <3>3, <2>1, <1>1, <1>2 DEF Contents
  <2>9. Reading'
    BY <1>1, <1>2, <2>1 DEF Reading, bVars
  <2> QED BY <2>5, <2>6, <2>7, <2>8, <2>9 DEF Kept
<1> QED BY <1>4, <1>5, <1>6, <1>7, <1>8

-----------------------------------------------------------------------------
(* A: the read-ahead.                                                      *)

(* A position that differs from another by d, up to one turn of the ring,  *)
(* falls in the slot d places after it.                                    *)
LEMMA SlotOffset ==
    ASSUME NEW n \in Nat \ {0}, NEW p \in Nat, NEW w \in Nat, NEW d \in 0 .. n - 1,
           p = w + d \/ p = w + d - n
    PROVE  ((p % n) - w) % n = d
<1> DEFINE q == p \div n
           m == p % n
<1>1. q \in Int /\ m \in 0 .. n - 1 /\ p = n * q + m
  OBVIOUS
<1> HIDE DEF q, m
<1>2. m - w = d - n * q \/ m - w = d - n * (q + 1)
  <2>1. n * (q + 1) = n * q + n
    BY <1>1
  <2> QED BY <1>1, <2>1
<1>3. ASSUME NEW e \in Int, m - w = n * e + d PROVE (m - w) % n = d
  <2>1. (n * e + d) % n = d
    OBVIOUS
  <2> QED BY <2>1, <1>3
<1>4. CASE m - w = d - n * q
  <2>1. -q \in Int /\ m - w = n * (-q) + d
    BY <1>1, <1>4
  <2> QED BY <2>1, <1>3 DEF m
<1>5. CASE m - w = d - n * (q + 1)
  <2>1. -(q + 1) \in Int /\ m - w = n * (-(q + 1)) + d
    BY <1>1, <1>5
  <2> QED BY <2>1, <1>3 DEF m
<1> QED BY <1>2, <1>4, <1>5

(* The read-ahead moves WR only, and only forward: B and its seeks are not *)
(* disturbed.                                                              *)
LEMMA AheadOfReader ==
    ASSUME IInv,
           apc \notin {"seekRd", "seekWr", "seekEof", "seekAck"},
           apc' \notin {"seekRd", "seekWr", "seekEof", "seekAck"},
           UNCHANGED <<bVars, base, rd, seekTo, seekSeq, seekAck, ACtl>>,
           \A v \in Services : svc'[v].io = svc[v].io /\ svc'[v].slot = svc[v].slot,
           wr'[bw] \in Nat, wr'[bw] >= wr[bw]
    PROVE  Roles' /\ Seeks' /\ Rebase' /\ Reading'
<1>1. TypeOK /\ Roles /\ Seeks /\ Reading
  BY DEF IInv, Kept, TInv
<1>2. Roles'
  BY <1>1 DEF Roles, Fresh, bVars, ACtl
<1>3. Seeks' /\ Rebase'
  BY <1>1 DEF Seeks, Pending, Rebase, bVars
<1>4. wr[bw] \in Nat /\ brd \in Nat /\ bwr \in Nat
  BY <1>1, BTypes
<1>5. Reading'
  BY <1>1, <1>4 DEF Reading, bVars
<1> QED BY <1>2, <1>3, <1>5

(* A read of k bytes into the free part of a ring leaves its unread bytes, *)
(* and the k after them are those of the file.                             *)
LEMMA FilledRing ==
    ASSUME IInv, NEW v \in Services, Served(v), NEW s \in Rings, s = svc[v].slot,
           apc # "publish", NEW k \in Nat, wr[s] + k - rd[s] <= RingBytes[s],
           NEW p \in rd[s] .. wr[s] + k - 1
    PROVE  Filled(s, v, k)[p % RingBytes[s]] = <<svc[v].io, base[s] + p>>
<1>1. TypeOK
  BY DEF IInv, TInv
<1>2. Ahead(v) = 0
  BY DEF Ahead
<1>3. /\ rd[s] \in Nat /\ wr[s] \in Nat /\ base[s] \in Nat /\ rd[s] <= wr[s]
      /\ svc[v].pos = base[s] + wr[s] + 0
      /\ \A q \in rd[s] .. wr[s] + 0 - 1 :
            mem[s][q % RingBytes[s]] = <<svc[v].io, base[s] + q>>
  BY <1>2, ServedRing
<1>4. RingBytes[s] \in Nat \ {0} /\ p \in Nat
  BY <1>3, Sizes
<1>5. p % RingBytes[s] \in 0 .. RingBytes[s] - 1
  BY <1>4, ModNat
<1>6. DOMAIN mem[s] = 0 .. RingBytes[s] - 1
  BY <1>1, Cursors
<1> DEFINE ahead == ((p % RingBytes[s]) - wr[s]) % RingBytes[s]
<1>7. Filled(s, v, k)[p % RingBytes[s]] =
        IF ahead < k THEN <<svc[v].io, svc[v].pos + ahead>> ELSE mem[s][p % RingBytes[s]]
  BY <1>5, <1>6 DEF Filled
<1>8. CASE p < wr[s]
  <2> DEFINE d == p - wr[s] + RingBytes[s]
  <2>1. d \in 0 .. RingBytes[s] - 1 /\ p = wr[s] + d - RingBytes[s] /\ d >= k
    BY <1>3, <1>4, <1>8
  <2> HIDE DEF d
  <2>2. ahead = d
    <3> DEFINE R == RingBytes[s]
               w == wr[s]
    <3>1. R \in Nat \ {0} /\ p \in Nat /\ w \in Nat /\ d \in 0 .. R - 1
          /\ (p = w + d \/ p = w + d - R)
      BY <1>3, <1>4, <2>1
    <3> HIDE DEF R, w
    <3>2. ((p % R) - w) % R = d
      BY <3>1, SlotOffset
    <3> QED BY <3>2 DEF R, w
  <2> HIDE DEF ahead
  <2>3. ~(ahead < k)
    BY <2>1, <2>2, <1>4
  <2>4. p \in rd[s] .. wr[s] + 0 - 1
    BY <1>3, <1>4, <1>8
  <2> QED BY <1>7, <2>3, <2>4, <1>3
<1>9. CASE p >= wr[s]
  <2> DEFINE d == p - wr[s]
  <2>1. d \in 0 .. RingBytes[s] - 1 /\ p = wr[s] + d /\ d < k
    BY <1>3, <1>4, <1>9
  <2> HIDE DEF d
  <2>2. ahead = d
    <3> DEFINE R == RingBytes[s]
               w == wr[s]
    <3>1. R \in Nat \ {0} /\ p \in Nat /\ w \in Nat /\ d \in 0 .. R - 1
          /\ (p = w + d \/ p = w + d - R)
      BY <1>3, <1>4, <2>1
    <3> HIDE DEF R, w
    <3>2. ((p % R) - w) % R = d
      BY <3>1, SlotOffset
    <3> QED BY <3>2 DEF R, w
  <2> HIDE DEF ahead
  <2>3. svc[v].pos + ahead = base[s] + p
    BY <1>3, <1>4, <2>1, <2>2
  <2> QED BY <1>7, <2>1, <2>2, <2>3
<1> QED BY <1>3, <1>4, <1>8, <1>9

(* Steps of the poll that change no byte and no word but EOF.              *)
LEMMA IdleSteps ==
    ASSUME IInv, \/ \E v \in Services : Poll(v)
                 \/ NoSeek \/ Refill \/ FillDone \/ FlagEof
    PROVE  Kept'
<1>1. TypeOK /\ InRange /\ Contents
  BY DEF IInv, Kept, TInv
<1> USE DEF Set, Go
<1>2. /\ UNCHANGED <<bVars, base, rd, wr, seekTo, seekSeq, seekAck, mem, svc, ACtl>>
      /\ apc \notin {"seekRd", "seekWr", "seekEof", "seekAck", "publish"}
      /\ apc' \notin {"seekRd", "seekWr", "seekEof", "seekAck", "publish"}
  BY DEF Poll, NoSeek, Refill, FillDone, FlagEof, Done, words, ACtl
<1>3. wr[bw] \in Nat
  BY <1>1, BTypes
<1>4. Roles' /\ Seeks' /\ Rebase' /\ Reading'
  BY <1>2, <1>3, AheadOfReader DEF bVars
<1>5. Contents'
  BY <1>1, <1>2 DEF Contents, Served, Rebasing, Ahead
<1>6. Room'
  <2>1. CASE Refill /\ apc' = "fill"
    <3>1. /\ afree' = (RingBytes[S] - (wr[S] - rd[S])) % Modulus
          /\ UNCHANGED asvc /\ apc = "refill"
      BY <2>1 DEF Refill, Done
    <3>2. asvc \in Services /\ S \in Rings /\ S = svc[asvc].slot
      BY <1>1, PollTypes
    <3>3. Served(asvc)
      BY <3>1, <1>1 DEF Served, Rebasing, InRange
    <3>4. Ahead(asvc) = 0
      BY <3>1 DEF Ahead
    <3>5. rd[S] \in Nat /\ wr[S] \in Nat /\ rd[S] <= wr[S] /\ wr[S] + 0 - rd[S] <= RingBytes[S]
      BY <3>2, <3>3, <3>4, ServedRing
    <3>6. RingBytes[S] \in Nat /\ Modulus \in Nat \ {0}
      BY <3>2, Sizes
    <3> DEFINE free == RingBytes[S] - (wr[S] - rd[S])
    <3>7. free \in Nat /\ wr[S] + free - rd[S] = RingBytes[S]
      BY <3>5, <3>6
    <3> HIDE DEF free
    <3>8. free % Modulus <= free /\ free % Modulus \in 0 .. Modulus - 1
      BY <3>6, <3>7, ModNat
    <3>9. wr[S] + afree' - rd[S] <= RingBytes[S]
      BY <3>1, <3>5, <3>6, <3>7, <3>8 DEF free
    <3> QED BY <3>1, <3>9, <1>2 DEF Room, S
  <2>2. CASE ~(Refill /\ apc' = "fill")
    <3>1. apc' # "fill"
      BY <2>2 DEF Poll, NoSeek, Refill, FillDone, FlagEof, Done
    <3> QED BY <3>1, <1>2 DEF Room
  <2> QED BY <2>1, <2>2
<1> QED BY <1>4, <1>5, <1>6 DEF Kept

(* A read into the ring, its failure, and the publication of WR.           *)
LEMMA FillSteps ==
    ASSUME IInv, "partial_error" \notin Faults, FillRead \/ FillError \/ Publish
    PROVE  Kept'
<1>1. TypeOK /\ InRange /\ Contents /\ Room
  BY DEF IInv, Kept, TInv
<1> USE DEF Set, Go
<1>2. /\ asvc \in Services /\ S \in Rings /\ S = svc[asvc].slot
      /\ svc[asvc].io \in Files \cup {NoFile} /\ svc[asvc].pos \in Nat
      /\ afree \in Nat /\ an \in Nat /\ agot \in Nat
  BY <1>1, PollTypes
<1>3. apc \in {"fill", "publish"} /\ (apc = "publish" <=> Publish)
  BY DEF FillRead, FillError, Publish
<1>4. Served(asvc) /\ svc[asvc].io \in Files
  BY <1>1, <1>2, <1>3 DEF Served, Rebasing, InRange
<1>5. /\ rd[S] \in Nat /\ wr[S] \in Nat /\ base[S] \in Nat /\ rd[S] <= wr[S]
      /\ wr[S] + Ahead(asvc) - rd[S] <= RingBytes[S] /\ Ahead(asvc) \in Nat
      /\ svc[asvc].pos = base[S] + wr[S] + Ahead(asvc)
      /\ svc[asvc].pos <= FileSize[svc[asvc].io] /\ svc[asvc].pos < Modulus
      /\ \A p \in rd[S] .. wr[S] + Ahead(asvc) - 1 :
            mem[S][p % RingBytes[S]] = <<svc[asvc].io, base[S] + p>>
  BY <1>2, <1>4, ServedRing
<1>6. wr[S] + afree - rd[S] <= RingBytes[S]
  BY <1>1, <1>3 DEF Room
<1>7. \A v \in Services : v # asvc /\ svc[v].io # NoFile => svc[v].slot # S
  BY <1>2, <1>4, Sizes, Apart
<1>8. wr[bw] \in Nat /\ bw \in Rings
  BY <1>1, BTypes
<1>9. wr \in [Rings -> 0 .. Modulus - 1] /\ DOMAIN mem = Rings /\ Modulus \in Nat \ {0}
      /\ RingBytes[S] \in Nat /\ \A v \in Services : svc[v].slot \in Rings
  BY <1>1, <1>2, Sizes, Handles DEF TypeOK, WordsOK
<1>10. ASSUME NEW k \in Nat, k <= afree,
              mem' = [mem EXCEPT ![S] = Filled(S, asvc, k)],
              svc' = [svc EXCEPT ![asvc].pos = @ + k],
              UNCHANGED <<base, rd, wr, seekTo, seekSeq, seekAck, ACtl, bVars>>,
              asvc' = asvc \/ apc' # "publish",
              apc = "fill", apc' \in {"idle", "publish", "eof"},
              apc' = "publish" => agot' = k /\ afree' = afree,
              apc' # "publish" => k = 0
       PROVE  Kept'
  <2>1. svc[asvc].pos + k \in Nat /\ svc' = [svc EXCEPT ![asvc].pos = svc[asvc].pos + k]
    BY <1>2, <1>10
  <2>2. /\ svc'[asvc].io = svc[asvc].io /\ svc'[asvc].slot = svc[asvc].slot
        /\ svc'[asvc].pos = svc[asvc].pos + k
        /\ \A v \in Services : /\ svc'[v].io = svc[v].io /\ svc'[v].slot = svc[v].slot
                               /\ v # asvc => svc'[v] = svc[v]
    BY <1>1, <2>1, MovePos
  <2>3. Roles' /\ Seeks' /\ Rebase' /\ Reading'
    BY <2>2, <1>8, <1>10, AheadOfReader DEF bVars
  <2>4. Room'
    BY <1>2, <1>6, <1>10, <2>2 DEF Room, S
  <2>5. Ahead(asvc) = 0
        /\ \A v \in Services : Ahead(v)' = IF v = asvc THEN k ELSE Ahead(v)
    BY <1>10 DEF Ahead
  <2>6. mem'[S] = Filled(S, asvc, k) /\ \A s \in Rings : s # S => mem'[s] = mem[s]
    BY <1>2, <1>9, <1>10
  <2>7. wr[S] + k - rd[S] <= RingBytes[S]
    <3>1. k \in Nat /\ k <= afree
      BY <1>10
    <3>2. afree \in Nat /\ wr[S] \in Nat /\ rd[S] \in Nat /\ RingBytes[S] \in Nat
      BY <1>2, <1>5, <1>6, <1>9
    <3>3. wr[S] + afree - rd[S] <= RingBytes[S]
      BY <1>2, <1>5, <1>6, <1>9
    <3> QED BY <3>1, <3>2, <3>3
  <2>8. ASSUME NEW p \in rd[S] .. wr[S] + k - 1
        PROVE  mem'[S][p % RingBytes[S]] = <<svc[asvc].io, base[S] + p>>
    BY <2>6, <2>7, <1>2, <1>4, <1>10, FilledRing
  <2>9. svc'[asvc].pos = base[S] + wr[S] + k
    BY <2>2, <2>5, <1>5
  <2>10. ASSUME NEW v \in Services, Served(v)', v # asvc
         PROVE  /\ Served(v) /\ svc[v].slot # S /\ svc'[v] = svc[v]
                /\ mem'[svc[v].slot] = mem[svc[v].slot]
    <3>1. svc[v].io # NoFile /\ svc'[v] = svc[v]
      BY <2>2, <2>10 DEF Served
    <3>2. Served(v)
      BY <3>1, <1>10 DEF Served, Rebasing
    <3> QED BY <3>1, <3>2, <2>6, <2>10, <1>7, <1>9
  <2>11. Contents'
    <3>1. ASSUME NEW v \in Services, Served(v)'
          PROVE  LET s == svc'[v].slot
                 IN  /\ rd[s] <= wr[s] /\ wr[s] + Ahead(v)' - rd[s] <= RingBytes[s]
                     /\ svc'[v].pos = base[s] + wr[s] + Ahead(v)'
                     /\ \A p \in rd[s] .. wr[s] + Ahead(v)' - 1 :
                           mem'[s][p % RingBytes[s]] = <<svc'[v].io, base[s] + p>>
      <4>1. CASE v = asvc
        <5>1. Ahead(v)' = k /\ svc'[v].slot = S /\ svc'[v].io = svc[asvc].io
          BY <4>1, <1>2, <2>2, <2>5
        <5>2. /\ rd[S] <= wr[S] /\ wr[S] + Ahead(v)' - rd[S] <= RingBytes[S]
              /\ svc'[v].pos = base[S] + wr[S] + Ahead(v)'
          BY <4>1, <5>1, <1>5, <2>7, <2>9
        <5>3. \A p \in rd[S] .. wr[S] + Ahead(v)' - 1 :
                mem'[S][p % RingBytes[S]] = <<svc'[v].io, base[S] + p>>
          BY <5>1, <2>8
        <5> QED BY <5>1, <5>2, <5>3
      <4>2. CASE v # asvc
        <5>1. Ahead(v)' = Ahead(v)
          BY <4>2, <2>5
        <5> QED BY <4>2, <5>1, <3>1, <2>10, <1>1 DEF Contents
      <4> QED BY <4>1, <4>2
    <3> QED BY <3>1, <1>10 DEF Contents
  <2> QED BY <2>3, <2>4, <2>11 DEF Kept
<1>11. ASSUME FillRead \/ FillError PROVE Kept'
  <2> DEFINE n == FillSize(S, afree)
             k == Least(n, FileSize[svc[asvc].io] - svc[asvc].pos)
  <2>1. n \in 1 .. afree
    BY <1>1, <1>2, <1>11, FillSizeRange DEF FillRead, FillError
  <2>2. FileSize[svc[asvc].io] \in Nat
    BY <1>4, Sizes
  <2> HIDE DEF n
  <2>3. k \in Nat /\ k <= afree
    BY <2>1, <2>2, <1>2, <1>5 DEF Least
  <2>4. CASE FillRead
    <3>1. /\ mem' = [mem EXCEPT ![S] = Filled(S, asvc, k)]
          /\ svc' = [svc EXCEPT ![asvc].pos = @ + k]
          /\ UNCHANGED <<base, rd, wr, seekTo, seekSeq, seekAck, ACtl, bVars, asvc, afree>>
          /\ agot' = k /\ apc = "fill" /\ apc' = IF k = 0 THEN "eof" ELSE "publish"
      BY <2>4 DEF FillRead, n
    <3> HIDE DEF k
    <3> QED BY <3>1, <2>3, <1>10
  <2>5. CASE FillError
    <3>1. /\ mem' = [mem EXCEPT ![S] = Filled(S, asvc, 0)]
          /\ svc' = [svc EXCEPT ![asvc].pos = @ + 0]
      BY <2>5 DEF FillError
    <3>2. /\ UNCHANGED <<base, rd, wr, seekTo, seekSeq, seekAck, ACtl, bVars>>
          /\ apc = "fill" /\ apc' = "idle"
      BY <2>5 DEF FillError, Done
    <3>3. 0 \in Nat /\ 0 <= afree
      BY <1>2
    <3> QED BY <3>1, <3>2, <3>3, <1>10
  <2> QED BY <1>11, <2>4, <2>5
<1>12. ASSUME Publish PROVE Kept'
  <2>1. /\ wr' = [wr EXCEPT ![S] = (wr[S] + agot) % Modulus] /\ afree' = afree - agot
        /\ apc = "publish" /\ apc' \in {"eof", "fill"}
        /\ UNCHANGED <<base, rd, seekTo, seekSeq, seekAck, mem, svc, ACtl, asvc, bVars>>
    BY <1>12 DEF Publish
  <2>2. Ahead(asvc) = agot
    BY <2>1 DEF Ahead
  <2>3. wr[S] + agot \in Nat /\ wr[S] + agot < Modulus
    BY <2>2, <1>2, <1>5, <1>9
  <2>4. (wr[S] + agot) % Modulus = wr[S] + agot
    BY <2>3, <1>9, ModSmall
  <2>5. wr'[S] = wr[S] + agot /\ \A s \in Rings : s # S => wr'[s] = wr[s]
    BY <2>1, <2>4, <1>2, <1>9
  <2>6. wr'[bw] \in Nat /\ wr'[bw] >= wr[bw]
    BY <2>5, <1>2, <1>5, <1>8
  <2>7. Roles' /\ Seeks' /\ Rebase' /\ Reading'
    BY <2>1, <2>6, AheadOfReader
  <2>8. Room'
    <3>1. wr'[S] + afree' - rd[S] <= RingBytes[S]
      BY <2>1, <2>5, <1>2, <1>5, <1>6
    <3> QED BY <3>1, <2>1 DEF Room, S
  <2>9. \A v \in Services : Ahead(v)' = 0 /\ (v # asvc => Ahead(v) = 0)
    BY <2>1 DEF Ahead
  <2>10. wr'[S] + 0 = wr[S] + agot /\ wr'[S] \in Nat
    BY <2>3, <2>5, <1>2, <1>5
  <2>11. ASSUME NEW v \in Services, Served(v)'
         PROVE  LET s == svc[v].slot
                IN  /\ rd[s] <= wr'[s] /\ wr'[s] + 0 - rd[s] <= RingBytes[s]
                    /\ svc[v].pos = base[s] + wr'[s] + 0
                    /\ \A p \in rd[s] .. wr'[s] + 0 - 1 :
                          mem[s][p % RingBytes[s]] = <<svc[v].io, base[s] + p>>
    <3>1. CASE v = asvc
      <4> DEFINE w == wr'[S]
      <4>1. w \in Nat /\ w = wr[S] + agot
        BY <2>5, <1>2, <1>5
      <4> HIDE DEF w
      <4>2. /\ rd[S] <= w /\ w + 0 - rd[S] <= RingBytes[S]
            /\ svc[asvc].pos = base[S] + w + 0
        <5>1. /\ rd[S] \in Nat /\ wr[S] \in Nat /\ base[S] \in Nat /\ agot \in Nat
              /\ RingBytes[S] \in Nat
          BY <1>2, <1>5, <1>9
        <5>2. rd[S] <= wr[S]
          BY <1>5
        <5>3. wr[S] + agot - rd[S] <= RingBytes[S]
          BY <1>5, <2>2
        <5>4. svc[asvc].pos = base[S] + wr[S] + agot
          BY <1>5, <2>2
        <5> QED BY ONLY <4>1, <5>1, <5>2, <5>3, <5>4, SMTT(60)
      <4>3. ASSUME NEW p \in rd[S] .. w + 0 - 1
            PROVE  mem[S][p % RingBytes[S]] = <<svc[asvc].io, base[S] + p>>
        <5>1. p \in rd[S] .. wr[S] + Ahead(asvc) - 1
          BY <2>2, <4>1, <1>2, <1>5
        <5> QED BY <5>1, <1>5
      <4> QED BY <3>1, <4>2, <4>3, <1>2 DEF w
    <3>2. CASE v # asvc
      <4>1. Served(v) /\ svc[v].slot # S /\ svc[v].slot \in Rings
        BY <3>2, <2>1, <2>11, <1>7, <1>9 DEF Served, Rebasing
      <4>2. wr'[svc[v].slot] = wr[svc[v].slot] /\ Ahead(v) = 0
        BY <3>2, <4>1, <2>5, <2>9
      <4> QED BY <4>1, <4>2, <1>1 DEF Contents
    <3> QED BY <3>1, <3>2
  <2>12. Contents'
    BY <2>1, <2>9, <2>11 DEF Contents
  <2> QED BY <2>7, <2>8, <2>12 DEF Kept
<1> QED BY <1>11, <1>12

-----------------------------------------------------------------------------
(* A: open, pre-open, promote, close.                                      *)

(* A ring just published is empty, at the start of its file, with no seek  *)
(* pending; no other ring is touched.                                      *)
LEMMA Published ==
    ASSUME TypeOK, NEW s \in Rings, PublishRing(s)
    PROVE  /\ base'[s] = 0 /\ rd'[s] = 0 /\ wr'[s] = 0 /\ seekSeq'[s] = seekAck'[s]
           /\ \A r \in Rings : r # s =>
                 /\ base'[r] = base[r] /\ rd'[r] = rd[r] /\ wr'[r] = wr[r]
                 /\ seekTo'[r] = seekTo[r] /\ seekAck'[r] = seekAck[r] /\ mem'[r] = mem[r]
           /\ UNCHANGED seekSeq
BY DEF TypeOK, WordsOK, PublishRing, Set, Retired

(* Opening, pre-opening, promoting and closing keep the invariant: the     *)
(* ring they change is not the one B reads, or B is not reading.           *)
LEMMA ControlSteps ==
    ASSUME IInv, AControl
    PROVE  Kept'
<1>1. TypeOK /\ InRange /\ Roles /\ Seeks /\ Contents /\ Reading
  BY DEF IInv, Kept, TInv
<1> USE DEF Set, AtRest
<1>2. UNCHANGED <<bVars, apc, asvc, afree, an, agot>> /\ apc = "idle" /\ apc' = "idle"
  BY DEF AControl, Start, Preopen, PreopenFails, Promote, Stop, Close, words
<1>3. /\ svc["cur"].slot \in Rings /\ svc["pre"].slot \in Rings /\ bw \in Rings
      /\ 1 - svc["cur"].slot \in Rings /\ 1 - svc["cur"].slot # svc["cur"].slot
      /\ \A s \in Rings : RingBytes[s] \in Nat
      /\ svc \in [Services -> [io : Files \cup {NoFile}, slot : Rings, pos : Nat]]
  <2>1. svc["cur"].slot \in Rings /\ svc["pre"].slot \in Rings /\ bw \in Rings
    BY <1>1, BTypes, Handles
  <2>2. svc \in [Services -> [io : Files \cup {NoFile}, slot : Rings, pos : Nat]]
    BY <1>1 DEF TypeOK, AOK
  <2>3. 1 - svc["cur"].slot \in Rings /\ 1 - svc["cur"].slot # svc["cur"].slot
    BY <2>1
  <2>4. \A s \in Rings : RingBytes[s] \in Nat
    BY Sizes
  <2> QED BY <2>1, <2>2, <2>3, <2>4
<1>4. \A v \in Services : Ahead(v) = 0 /\ Ahead(v)' = 0 /\ ~Rebasing(v) /\ ~Rebasing(v)'
  BY <1>2 DEF Ahead, Rebasing
<1>5. Rebase' /\ Room'
  BY <1>2 DEF Rebase, Room
<1>6. ASSUME NEW f \in Files, Start(f) PROVE Kept'
  <2>1. /\ base'[0] = 0 /\ rd'[0] = 0 /\ wr'[0] = 0 /\ seekSeq'[0] = seekAck'[0]
    BY <1>1, <1>6, Published DEF Start
  <2>2. /\ svc'["cur"] = [io |-> f, slot |-> 0, pos |-> 0] /\ svc'["pre"].io = NoFile
        /\ preFile' = NoFile /\ ring' = 0 /\ actl' = "opening" /\ bpc = "closed" /\ f # NoFile
    BY <1>6, Sizes DEF Start, NoSvc
  <2>3. Roles'
    BY <1>2, <2>1, <2>2 DEF Roles, Fresh, bVars
  <2>4. Seeks'
    BY <1>2, <2>1, <2>2 DEF Seeks, Pending, bVars
  <2>5. Contents'
    <3>1. 0 .. 0 + 0 - 1 = {} /\ 0 \in Rings
      OBVIOUS
    <3> QED BY <2>1, <2>2, <3>1, <1>3, <1>4 DEF Contents, Served
  <2>6. Reading'
    BY <1>1, <1>2, <2>2 DEF Reading, bVars
  <2> QED BY <1>5, <2>3, <2>4, <2>5, <2>6 DEF Kept
<1>7. ASSUME NEW f \in NextFiles, Preopen(f) PROVE Kept'
  <2> DEFINE s == 1 - svc["cur"].slot
  <2>1. /\ base'[s] = 0 /\ rd'[s] = 0 /\ wr'[s] = 0 /\ seekSeq'[s] = seekAck'[s]
        /\ \A r \in Rings : r # s =>
              /\ base'[r] = base[r] /\ rd'[r] = rd[r] /\ wr'[r] = wr[r]
              /\ seekTo'[r] = seekTo[r] /\ seekAck'[r] = seekAck[r] /\ mem'[r] = mem[r]
        /\ UNCHANGED seekSeq
    BY <1>1, <1>3, <1>7, Published DEF Preopen
  <2>2. /\ svc'["pre"] = [io |-> f, slot |-> s, pos |-> 0] /\ svc'["cur"] = svc["cur"]
        /\ preFile' = f /\ UNCHANGED <<ring, actl>> /\ actl = "playing"
    BY <1>3, <1>7 DEF Preopen
  <2>3. s \in Rings /\ s # svc["cur"].slot
    BY <1>3
  <2>4. bpc # "closed" /\ bfile \in Files /\ svc["cur"].io = bfile /\ svc["cur"].slot = bw
    BY <1>1, <2>2 DEF Roles
  <2> HIDE DEF s
  <2>5. Roles'
    BY <1>2, <2>1, <2>2, <2>4 DEF Roles, Fresh, bVars, s
  <2>6. Seeks'
    BY <1>1, <1>2, <1>3, <2>1, <2>2, <2>3, <2>4 DEF Seeks, Pending, bVars
  <2>7. Contents'
    <3>1. 0 .. 0 + 0 - 1 = {}
      OBVIOUS
    <3>2. Served("cur")
      BY <2>4, <1>4, Sizes DEF Served
    <3> QED BY <2>1, <2>2, <2>3, <3>1, <3>2, <1>1, <1>3, <1>4 DEF Contents, Served
  <2>8. Reading'
    BY <1>1, <1>2, <1>3, <2>1, <2>3, <2>4 DEF Reading, bVars
  <2> QED BY <1>5, <2>5, <2>6, <2>7, <2>8 DEF Kept
<1>8. ASSUME NEW f \in NextFiles, PreopenFails(f) PROVE Kept'
  <2>1. /\ svc'["pre"].io = NoFile /\ svc'["cur"] = svc["cur"] /\ preFile' = NoFile
        /\ mem'[svc["cur"].slot] = mem[svc["cur"].slot]
        /\ UNCHANGED <<base, rd, wr, seekTo, seekSeq, seekAck, ring, actl>>
    BY <1>3, <1>8 DEF PreopenFails, Retired
  <2>2. Roles' /\ Seeks'
    BY <1>1, <1>2, <2>1 DEF Roles, Seeks, Pending, Fresh, bVars
  <2>3. Contents'
    BY <1>1, <1>4, <2>1 DEF Contents, Served
  <2>4. Reading'
    BY <1>1, <1>2, <2>1 DEF Reading, bVars
  <2> QED BY <1>5, <2>2, <2>3, <2>4 DEF Kept
<1>9. ASSUME Promote PROVE Kept'
  <2> DEFINE s == svc["pre"].slot
  <2>1. /\ svc'["cur"].io = svc["pre"].io /\ svc'["cur"].slot = s
        /\ svc'["cur"].pos = svc["pre"].pos
        /\ svc'["pre"].io = NoFile /\ preFile' = NoFile /\ ring' = s /\ actl' = "opening"
        /\ bpc = "drained" /\ preFile # NoFile
        /\ UNCHANGED <<base, rd, wr, seekTo, seekSeq, seekAck>>
    BY <1>3, <1>9 DEF Promote, NoSvc
  <2>2. svc["pre"].io # NoFile /\ Fresh(s)
    BY <1>1, <2>1 DEF Roles
  <2>3. mem'[s] = mem[s]
    <3>1. s \notin {1 - s}
      BY <1>3
    <3> QED BY <3>1, <1>3, <1>9 DEF Promote, Retired
  <2>4. Roles' /\ Seeks'
    BY <1>2, <2>1, <2>2 DEF Roles, Seeks, Pending, Fresh, bVars
  <2>5. Contents'
    BY <1>1, <1>4, <2>1, <2>2, <2>3 DEF Contents, Served
  <2>6. Reading'
    BY <1>1, <1>2, <2>1 DEF Reading, bVars
  <2> QED BY <1>5, <2>4, <2>5, <2>6 DEF Kept
<1>10. ASSUME Stop PROVE Kept'
  <2>1. UNCHANGED <<words, bVars, svc, preFile, ring>> /\ actl = "playing" /\ actl' = "closing"
    BY <1>10 DEF Stop
  <2>2. Roles' /\ Seeks'
    BY <1>1, <2>1 DEF Roles, Seeks, Pending, Fresh, bVars, words
  <2>3. Contents'
    BY <1>1, <1>4, <2>1 DEF Contents, Served, words
  <2>4. Reading'
    BY <1>1, <1>2, <2>1 DEF Reading, bVars, words
  <2> QED BY <1>5, <2>2, <2>3, <2>4 DEF Kept
<1>11. ASSUME Close PROVE Kept'
  <2>1. /\ svc'["cur"].io = NoFile /\ svc'["pre"].io = NoFile /\ preFile' = NoFile
        /\ actl' = "stopped" /\ bpc = "closed"
    BY <1>11 DEF Close, NoSvc
  <2>2. Roles' /\ Seeks'
    BY <1>2, <2>1 DEF Roles, Seeks, bVars
  <2>3. Contents'
    BY <2>1 DEF Contents, Served
  <2>4. Reading'
    BY <1>1, <1>2, <2>1 DEF Reading, bVars
  <2> QED BY <1>5, <2>2, <2>3, <2>4 DEF Kept
<1> QED BY <1>6, <1>7, <1>8, <1>9, <1>10, <1>11 DEF AControl

-----------------------------------------------------------------------------
(* B: a read.                                                              *)

(* bcio_read changes its own locals, what it returned, and RD.             *)
LEMMA CallFrame ==
    ASSUME IInv, \/ bpc \in {"rest", "load", "copy", "consume", "dry"}
                 \/ bpc = "await" /\ seekAck[bw] = bseek,
           bpc' \in {"rest", "load", "copy", "consume", "dry", "drained"},
           UNCHANGED <<aVars, base, wr, seekTo, seekSeq, seekAck, mem, bw, bfile>>,
           rd'[bw] \in Nat, rd[bw] <= rd'[bw], rd'[bw] <= wr[bw],
           \A s \in Rings : s # bw => rd'[s] = rd[s]
    PROVE  Roles' /\ Seeks' /\ Rebase' /\ Contents' /\ Room'
<1>1. TypeOK /\ InRange /\ Roles /\ Seeks /\ Rebase /\ Contents /\ Room
  BY DEF IInv, Kept, TInv
<1>2. /\ actl \notin {"opening", "stopped"}
      /\ bfile \in Files /\ svc["cur"].io = bfile /\ svc["cur"].slot = bw
      /\ svc["cur"].io # NoFile
      /\ svc["pre"].io # NoFile => svc["pre"].slot # bw
  BY Engaged
<1>3. /\ bw \in Rings /\ svc["pre"].slot \in Rings
      /\ wr[bw] \in Nat /\ rd[bw] \in Nat /\ RingBytes[bw] \in Nat /\ afree \in Nat
  BY <1>1, BTypes, Handles, Sizes
<1>4. Roles'
  BY <1>1, <1>2, <1>3 DEF Roles, Fresh, aVars
<1>5. Seeks'
  BY <1>1, <1>2 DEF Seeks, Pending, aVars
<1>6. Rebase'
  BY <1>1 DEF Seeks, Pending, Rebase, aVars
<1>7. Room'
  <2>1. CASE apc \in {"fill", "publish"}
    <3>1. asvc \in Services /\ S \in Rings /\ S = svc[asvc].slot /\ rd[S] \in Nat
          /\ wr[S] \in Nat /\ RingBytes[S] \in Nat /\ afree \in Nat
      BY <1>1, PollTypes, Cursors, Sizes
    <3>2. wr[S] + afree - rd[S] <= RingBytes[S]
      BY <1>1, <2>1 DEF Room
    <3>3. rd'[S] \in Nat /\ rd[S] <= rd'[S]
      BY <1>3, <3>1
    <3>4. wr[S] + afree - rd'[S] <= RingBytes[S]
      BY <3>1, <3>2, <3>3
    <3> QED BY <3>4 DEF Room, S, aVars
  <2>2. CASE apc \notin {"fill", "publish"}
    BY <2>2 DEF Room, aVars
  <2> QED BY <2>1, <2>2
<1>8. Contents'
  <2>1. \A v \in Services : /\ Ahead(v)' = Ahead(v) /\ Ahead(v) \in Nat
                            /\ Served(v)' = Served(v)
    BY <1>1, PollTypes DEF Ahead, Served, Rebasing, aVars
  <2>2. CASE Served("cur")
    <3>1. /\ wr[bw] + Ahead("cur") - rd[bw] <= RingBytes[bw]
          /\ svc["cur"].pos = base[bw] + wr[bw] + Ahead("cur")
          /\ \A p \in rd[bw] .. wr[bw] + Ahead("cur") - 1 :
                mem[bw][p % RingBytes[bw]] = <<svc["cur"].io, base[bw] + p>>
      BY <1>1, <1>2, <2>2 DEF Contents
    <3> DEFINE r == rd'[bw]
    <3>2. r \in Nat /\ rd[bw] <= r /\ r <= wr[bw]
      OBVIOUS
    <3> HIDE DEF r
    <3>3. wr[bw] + Ahead("cur") - r <= RingBytes[bw]
      <4>1. wr[bw] + Ahead("cur") - rd[bw] <= RingBytes[bw]
        BY <3>1
      <4>2. wr[bw] \in Nat /\ Ahead("cur") \in Nat /\ rd[bw] \in Nat
            /\ RingBytes[bw] \in Nat
        BY <1>3, <2>1
      <4>3. r \in Nat /\ rd[bw] <= r
        BY <3>2
      <4> QED BY ONLY <4>1, <4>2, <4>3, SMTT(60)
    <3>4. ASSUME NEW p \in r .. wr[bw] + Ahead("cur") - 1
          PROVE  mem[bw][p % RingBytes[bw]] = <<svc["cur"].io, base[bw] + p>>
      <4>1. p \in rd[bw] .. wr[bw] + Ahead("cur") - 1
        BY <1>3, <2>1, <3>2
      <4> QED BY <4>1, <3>1
    <3> QED BY <1>1, <1>2, <1>3, <2>1, <3>1, <3>2, <3>3, <3>4 DEF Contents, Served, aVars, r
  <2>3. CASE ~Served("cur")
    BY <1>1, <1>2, <1>3, <2>1, <2>3 DEF Contents, Served, aVars
  <2> QED BY <2>2, <2>3
<1> QED BY <1>4, <1>5, <1>6, <1>7, <1>8

(* bcio_read: each byte copied is the next one of the file.                *)
LEMMA CopyStep ==
    ASSUME IInv, ReadCopy
    PROVE  Kept'
<1>1. TypeOK /\ InRange /\ Roles /\ Seeks /\ Contents /\ Reading
  BY DEF IInv, Kept, TInv
<1>2. bpc = "copy" /\ bpc' = "consume"
      /\ UNCHANGED <<words, aVars, bw, bfile, blen, bwr, bseek, at>>
  BY DEF ReadCopy
<1>3. /\ Served("cur") /\ svc["cur"].slot = bw /\ svc["cur"].io = bfile
      /\ bfile \in Files /\ bw \in Rings /\ rd[bw] <= wr[bw]
  BY <1>2, ReadingRing
<1>4. /\ brd = rd[bw] /\ brd <= bwr /\ bwr <= wr[bw] /\ Len(bbuf) < blen
      /\ base[bw] + rd[bw] = at + Len(bbuf)
      /\ \A i \in 1 .. Len(bbuf) : bbuf[i] = <<bfile, at + i - 1>>
  BY <1>1, <1>2 DEF Reading
<1>5. /\ brd \in Nat /\ bwr \in Nat /\ blen \in Nat /\ Len(bbuf) \in Nat /\ at \in Nat
      /\ base[bw] \in Nat /\ rd[bw] \in Nat /\ wr[bw] \in Nat /\ wr[bw] < Modulus
      /\ Modulus \in Nat \ {0}
  BY <1>1, BTypes, Sizes
<1> DEFINE n == Least(Avail, blen - Len(bbuf))
           more == [i \in 1 .. n |-> mem[bw][(brd + i - 1) % RingBytes[bw]]]
<1>6. Avail = bwr - brd
  <2>1. bwr - brd \in Nat /\ bwr - brd < Modulus
    BY <1>4, <1>5
  <2>2. (bwr - brd) % Modulus = bwr - brd
    BY <2>1, <1>5, ModSmall
  <2> QED BY <2>2 DEF Avail
<1>7. n \in Nat /\ brd + n <= bwr
  BY <1>4, <1>5, <1>6 DEF Least
<1>8. bbuf' = bbuf \o more /\ brd' = (brd + n) % Modulus
  BY DEF ReadCopy
<1> HIDE DEF n
<1>9. brd' = brd + n
  <2>1. brd + n \in Nat /\ brd + n < Modulus
    BY <1>4, <1>5, <1>7
  <2>2. (brd + n) % Modulus = brd + n
    BY <2>1, <1>5, ModSmall
  <2> QED BY <1>8, <2>2
<1>10. /\ Len(bbuf') = Len(bbuf) + n
       /\ \A i \in 1 .. Len(bbuf) + n :
             bbuf'[i] = IF i <= Len(bbuf) THEN bbuf[i]
                        ELSE mem[bw][(brd + (i - Len(bbuf)) - 1) % RingBytes[bw]]
  BY <1>1, <1>7, <1>8, CopyTypes
<1>11. ASSUME NEW i \in 1 .. Len(bbuf) + n PROVE bbuf'[i] = <<bfile, at + i - 1>>
  <2>1. CASE i <= Len(bbuf)
    <3>1. i \in 1 .. Len(bbuf)
      BY <2>1, <1>5, <1>7
    <3>2. bbuf'[i] = bbuf[i]
      BY <2>1, <1>10
    <3> QED BY <3>1, <3>2, <1>4
  <2>2. CASE ~(i <= Len(bbuf))
    <3> DEFINE p == brd + (i - Len(bbuf)) - 1
    <3>1. p \in Nat /\ rd[bw] <= p /\ p <= wr[bw] - 1 /\ base[bw] + p = at + i - 1
      <4> DEFINE len == Len(bbuf)
      <4>1. len \in Nat /\ i \in len + 1 .. len + n
        BY <2>2, <1>5, <1>7
      <4>2. base[bw] + brd = at + len
        BY <1>4
      <4> HIDE DEF len
      <4>3. brd + (i - len) - 1 \in Nat /\ brd + (i - len) - 1 <= wr[bw] - 1
            /\ brd <= brd + (i - len) - 1
        <5>1. brd \in Nat /\ wr[bw] \in Nat /\ n \in Nat /\ brd + n <= wr[bw]
          BY <1>4, <1>5, <1>7
        <5>2. i - len \in 1 .. n
          BY <4>1, <5>1
        <5> QED BY <5>1, <5>2
      <4>4. base[bw] + (brd + (i - len) - 1) = at + i - 1
        <5>1. base[bw] \in Nat /\ brd \in Nat /\ at \in Nat /\ i \in Nat
          BY <1>5, <1>7, <4>1
        <5> QED BY <4>1, <4>2, <5>1
      <4> QED BY <4>3, <4>4, <1>4 DEF len
    <3>2. bbuf'[i] = mem[bw][p % RingBytes[bw]]
      BY <2>2, <1>10
    <3> HIDE DEF p
    <3>3. Ahead("cur") \in Nat
          /\ \A q \in rd[bw] .. wr[bw] + Ahead("cur") - 1 :
                mem[bw][q % RingBytes[bw]] = <<svc["cur"].io, base[bw] + q>>
      BY <1>3, ServedRing
    <3>4. p \in rd[bw] .. wr[bw] + Ahead("cur") - 1
      BY <1>5, <3>1, <3>3
    <3> QED BY <3>1, <3>2, <3>3, <3>4, <1>3
  <2> QED BY <2>1, <2>2
<1>12. Roles' /\ Seeks' /\ Rebase' /\ Contents' /\ Room'
  BY <1>2, <1>3, <1>5, CallFrame DEF words
<1>13. Reading'
  <2>1. rd[bw] <= brd' /\ brd' <= wr[bw] /\ base[bw] + brd' = at + Len(bbuf')
    <3> DEFINE len == Len(bbuf)
    <3>1. len \in Nat /\ Len(bbuf') = len + n /\ base[bw] + brd = at + len
      BY <1>4, <1>5, <1>10
    <3> HIDE DEF len
    <3>2. rd[bw] <= brd' /\ brd' <= wr[bw]
      BY <1>4, <1>5, <1>7, <1>9
    <3>3. base[bw] + (brd + n) = at + (len + n)
      <4>1. base[bw] \in Nat /\ brd \in Nat /\ at \in Nat /\ n \in Nat
        BY <1>5, <1>7
      <4> QED BY <3>1, <4>1
    <3> QED BY <3>1, <3>2, <3>3, <1>9
  <2>2. \A i \in 1 .. Len(bbuf') : bbuf'[i] = <<bfile, at + i - 1>>
    BY <1>10, <1>11
  <2> QED BY <1>2, <2>1, <2>2 DEF Reading, words
<1> QED BY <1>12, <1>13 DEF Kept

(* A read returns: tell() is where the bytes returned end.                 *)
LEMMA ReturnStep ==
    ASSUME IInv, bpc \in {"load", "dry"}, NEW how, Return(how)
    PROVE  /\ Kept'
           /\ at' = at + Len(bbuf) /\ at' <= FileSize[bfile]
<1>1. TypeOK /\ InRange /\ Roles /\ Seeks /\ Contents /\ Reading
  BY DEF IInv, Kept, TInv
<1>2. /\ at' = (base[bw] + rd[bw]) % Modulus /\ bpc' = "rest" /\ bbuf' = << >>
      /\ UNCHANGED <<words, aVars, bw, bfile, bseek>>
  BY DEF Return
<1>3. /\ bw \in Rings /\ rd[bw] <= wr[bw] /\ base[bw] + rd[bw] <= FileSize[bfile]
      /\ (base[bw] + rd[bw]) % Modulus = base[bw] + rd[bw]
  BY ReadingRing
<1>4. base[bw] + rd[bw] = at + Len(bbuf)
  BY <1>1 DEF Reading
<1>5. base[bw] \in Nat /\ rd[bw] \in Nat /\ Len(bbuf') = 0
  BY <1>1, <1>2, BTypes
<1>6. Roles' /\ Seeks' /\ Rebase' /\ Contents' /\ Room'
  BY <1>2, <1>3, <1>5, CallFrame DEF words
<1>7. Reading'
  <2>1. base[bw] + rd[bw] = at' + Len(bbuf') /\ 1 .. Len(bbuf') = {}
    BY <1>2, <1>3, <1>5
  <2> QED BY <1>2, <2>1 DEF Reading, words
<1> QED BY <1>2, <1>3, <1>4, <1>6, <1>7 DEF Kept

(* Every step of bcio_read keeps the invariant.                            *)
LEMMA ReadSteps ==
    ASSUME IInv, \/ BRead \/ ReadStall
                 \/ \E n \in ReadLens : ReadBegin(n)
    PROVE  Kept'
<1>1. TypeOK /\ InRange /\ Roles /\ Seeks /\ Contents /\ Reading
  BY DEF IInv, Kept, TInv
<1>2. bw \in Rings /\ rd[bw] \in Nat /\ wr[bw] \in Nat /\ base[bw] \in Nat
      /\ brd \in Nat /\ at \in Nat /\ Len(bbuf) \in Nat
  BY <1>1, BTypes
<1>3. ASSUME ReadLoad PROVE Kept'
  <2>1. /\ bpc = "load" /\ Len(bbuf) < blen /\ brd' = rd[bw] /\ bwr' = wr[bw]
        /\ bpc' \in {"dry", "copy"}
        /\ UNCHANGED <<words, aVars, bw, bfile, blen, bbuf, bseek, at>>
    BY <1>3 DEF ReadLoad
  <2>2. rd[bw] <= wr[bw]
    BY <2>1, ReadingRing
  <2>3. Roles' /\ Seeks' /\ Rebase' /\ Contents' /\ Room'
    BY <2>1, <2>2, <1>2, CallFrame DEF words
  <2>4. Reading'
    BY <1>1, <1>2, <2>1, <2>2 DEF Reading, words
  <2> QED BY <2>3, <2>4 DEF Kept
<1>4. ASSUME ReadConsume PROVE Kept'
  <2>1. /\ bpc = "consume" /\ bpc' = "load" /\ rd' = [rd EXCEPT ![bw] = brd]
        /\ UNCHANGED <<aVars, base, wr, seekTo, seekSeq, seekAck, mem, bw, bfile, blen, bbuf,
                       brd, bwr, bseek, at>>
    BY <1>4 DEF ReadConsume, aSide, Set
  <2>2. rd[bw] <= brd /\ brd <= wr[bw] /\ base[bw] + brd = at + Len(bbuf)
    BY <1>1, <2>1 DEF Reading
  <2>3. rd'[bw] = brd /\ \A s \in Rings : s # bw => rd'[s] = rd[s]
    BY <1>1, <1>2, <2>1 DEF TypeOK, WordsOK
  <2>4. Roles' /\ Seeks' /\ Rebase' /\ Contents' /\ Room'
    BY <2>1, <2>2, <2>3, <1>2, CallFrame
  <2>5. Reading'
    BY <1>1, <2>1, <2>2, <2>3 DEF Reading
  <2> QED BY <2>4, <2>5 DEF Kept
<1>5. ASSUME ReadFull \/ ReadStall PROVE Kept'
  BY <1>5, ReturnStep DEF ReadFull, ReadStall
<1>6. ASSUME ReadDry PROVE Kept'
  <2>1. bpc = "dry"
    BY <1>6 DEF ReadDry
  <2>2. CASE eof[bw] /\ Return("end")
    BY <2>1, <2>2, ReturnStep
  <2>3. CASE ~eof[bw] /\ ~open[bw] /\ Return("unserved")
    BY <2>1, <2>3, ReturnStep
  <2>4. ASSUME bpc' = "load",
               UNCHANGED <<words, aVars, bw, bfile, blen, bbuf, brd, bwr, bseek, at, last,
                           outcome>>
        PROVE  Kept'
    <3>1. rd[bw] <= wr[bw]
      BY <2>1, ReadingRing
    <3>2. Roles' /\ Seeks' /\ Rebase' /\ Contents' /\ Room'
      BY <2>1, <2>4, <3>1, <1>2, CallFrame DEF words
    <3>3. Reading'
      BY <1>1, <2>1, <2>4 DEF Reading, words
    <3> QED BY <3>2, <3>3 DEF Kept
  <2> QED BY <1>6, <2>2, <2>3, <2>4 DEF ReadDry
<1>7. ASSUME NEW n \in ReadLens, ReadBegin(n) PROVE Kept'
  <2>1. /\ bpc = "rest" /\ bpc' = "load" /\ bbuf' = << >>
        /\ UNCHANGED <<words, aVars, bw, bfile, brd, bwr, bseek, at>>
    BY <1>7 DEF ReadBegin
  <2>2. rd[bw] <= wr[bw]
    BY <2>1, ReadingRing
  <2>3. Roles' /\ Seeks' /\ Rebase' /\ Contents' /\ Room'
    BY <2>1, <2>2, <1>2, CallFrame DEF words
  <2>4. bbuf = << >>
    BY <1>1, <2>1 DEF Reading
  <2>5. Reading'
    BY <1>1, <2>1, <2>4 DEF Reading, words
  <2> QED BY <2>3, <2>5 DEF Kept
<1> QED BY <1>3, <1>4, <1>5, <1>6, <1>7, CopyStep DEF BRead

-----------------------------------------------------------------------------
(* B: a seek, and the codec's life.                                        *)

(* bcio_seek posts the offset, then the sequence number: the request       *)
(* becomes pending, on a ring with no other request.                       *)
LEMMA SeekCallSteps ==
    ASSUME IInv, "seek_past_end" \notin Faults,
           \/ \E to \in SeekTargets : SeekBegin(to)
           \/ SeekRequest
    PROVE  Kept'
<1>1. TypeOK /\ InRange /\ Roles /\ Seeks /\ Rebase /\ Contents /\ Room /\ Reading
  BY DEF IInv, Kept, TInv
<1>2. /\ bpc \in {"rest", "drained", "request"} /\ bpc' \in {"request", "await"}
      /\ UNCHANGED <<aVars, open, base, rd, wr, eof, seekAck, mem, bw, bfile, blen, bbuf, brd, bwr,
                     at>>
      /\ \A s \in Rings : s # bw => seekTo'[s] = seekTo[s] /\ seekSeq'[s] = seekSeq[s]
  BY <1>1 DEF SeekBegin, SeekRequest, aSide, Set, TypeOK, WordsOK
<1>3. /\ actl \notin {"opening", "stopped"}
      /\ bfile \in Files /\ svc["cur"].io = bfile /\ svc["cur"].slot = bw
      /\ svc["cur"].io # NoFile
      /\ svc["pre"].io # NoFile => svc["pre"].slot # bw
  BY Engaged DEF SeekBegin, SeekRequest
<1>4. bw \in Rings /\ svc["pre"].slot \in Rings /\ seekSeq[bw] \in 0 .. SeqModulus - 1
  BY <1>1, BTypes, Handles, Cursors
<1>5. ~Pending(bw) /\ apc \notin {"seekRd", "seekWr", "seekEof", "seekAck"}
  BY <1>1, <1>2, <1>3 DEF Seeks, Rebase, Pending
<1>6. Roles'
  BY <1>1, <1>2, <1>3, <1>4 DEF Roles, Fresh, aVars
<1>7. Rebase'
  BY <1>2, <1>5 DEF Rebase, aVars
<1>8. Contents'
  BY <1>1, <1>2 DEF Contents, Served, Rebasing, Ahead, aVars
<1>9. Room'
  BY <1>1, <1>2 DEF Room, S, aVars
<1>10. Reading'
  BY <1>1, <1>2 DEF Reading
<1>11. Seeks'
  <2>1. ASSUME NEW to \in SeekTargets, SeekBegin(to) PROVE Seeks'
    <3>1. /\ seekTo'[bw] = to /\ to <= FileSize[bfile] /\ bpc' = "request"
          /\ UNCHANGED seekSeq
      BY <1>1, <1>4, <2>1 DEF SeekBegin, Set, TypeOK, WordsOK
    <3> QED BY <3>1, <1>2, <1>3, <1>5 DEF Seeks, Pending, aVars
  <2>2. ASSUME SeekRequest PROVE Seeks'
    <3>1. /\ bseek' = (seekSeq[bw] + 1) % SeqModulus /\ seekSeq' = [seekSeq EXCEPT ![bw] = bseek']
          /\ bpc = "request" /\ bpc' = "await" /\ UNCHANGED seekTo
      BY <2>2 DEF SeekRequest, Set
    <3>2. seekSeq'[bw] = bseek'
      BY <3>1, <1>1, <1>4 DEF TypeOK, WordsOK
    <3>3. bseek' # seekSeq[bw]
      <4> DEFINE q == seekSeq[bw]
      <4>1. q \in 0 .. SeqModulus - 1 /\ SeqModulus \in Nat /\ SeqModulus > 1
        BY <1>4, Sizes
      <4> HIDE DEF q
      <4>2. (q + 1) % SeqModulus # q
        <5>1. CASE q + 1 < SeqModulus
          <6>1. q + 1 \in Nat /\ SeqModulus \in Nat \ {0}
            BY <4>1
          <6>2. (q + 1) % SeqModulus = q + 1
            BY <5>1, <6>1, ModSmall
          <6> QED BY <4>1, <6>2
        <5>2. CASE q + 1 = SeqModulus
          <6>1. SeqModulus % SeqModulus = 0
            BY <4>1
          <6> QED BY <4>1, <5>2, <6>1
        <5> QED BY <4>1, <5>1, <5>2
      <4> QED BY <3>1, <4>2 DEF q
    <3>4. seekAck[bw] # bseek'
      BY <3>3, <1>5 DEF Pending
    <3>5. seekTo[bw] <= FileSize[bfile]
      BY <3>1, <1>1 DEF Seeks
    <3> QED BY <3>1, <3>2, <3>4, <3>5, <1>2 DEF Seeks, aVars
  <2> QED BY <2>1, <2>2
<1> QED BY <1>6, <1>7, <1>8, <1>9, <1>10, <1>11 DEF Kept

(* A seek that is acknowledged leaves B where it asked to be.              *)
LEMMA SeekReturnStep ==
    ASSUME IInv, SeekReturn
    PROVE  Kept' /\ at' = seekTo[bw] /\ at' <= FileSize[bfile] /\ bfile \in Files
<1>1. TypeOK /\ InRange /\ Roles /\ Seeks /\ Contents /\ Reading
  BY DEF IInv, Kept, TInv
<1>2. /\ bpc = "await" /\ seekAck[bw] = bseek
      /\ at' = (base[bw] + rd[bw]) % Modulus /\ bpc' = "rest"
      /\ UNCHANGED <<words, aVars, bw, bfile, blen, bbuf, brd, bwr>>
  BY DEF SeekReturn
<1>3. /\ bw \in Rings /\ rd[bw] <= wr[bw] /\ base[bw] + rd[bw] <= FileSize[bfile]
      /\ (base[bw] + rd[bw]) % Modulus = base[bw] + rd[bw] /\ bfile \in Files
  BY <1>2, ReadingRing
<1>4. base[bw] \in Nat /\ rd[bw] \in Nat
  BY <1>1, BTypes
<1>5. Roles' /\ Seeks' /\ Rebase' /\ Contents' /\ Room'
  BY <1>2, <1>3, <1>4, CallFrame DEF words
<1>6. Reading'
  <2>1. bbuf = << >>
    BY <1>1, <1>2 DEF Reading
  <2>2. at' \in Nat /\ base[bw] + rd[bw] = at' + 0
    BY <1>2, <1>3, <1>4
  <2> QED BY <1>2, <2>1, <2>2 DEF Reading, words
<1>7. base[bw] + rd[bw] = seekTo[bw]
  BY <1>1, <1>2 DEF Seeks
<1> QED BY <1>2, <1>3, <1>5, <1>6, <1>7 DEF Kept

(* Opening, draining and closing the codec keep the invariant.             *)
LEMMA CodecSteps ==
    ASSUME IInv, OpenCodec \/ Drain \/ CloseCodec
    PROVE  Kept'
<1>1. TypeOK /\ InRange /\ Roles /\ Seeks /\ Rebase /\ Contents /\ Room /\ Reading
  BY DEF IInv, Kept, TInv
<1>2. bw \in Rings /\ rd[bw] \in Nat /\ wr[bw] \in Nat
  BY <1>1, BTypes
<1>3. ASSUME OpenCodec PROVE Kept'
  <2>1. /\ actl = "opening" /\ apc = "idle" /\ bw' = ring /\ at' = 0
        /\ \/ bpc' = "rest" /\ bfile' = svc["cur"].io /\ actl' = "playing"
           \/ bpc' = "closed" /\ bfile' = NoFile /\ actl' = "closing"
        /\ UNCHANGED <<words, svc, preFile, ring, apc, asvc, afree, bbuf>>
    BY <1>3 DEF OpenCodec
  <2>2. /\ svc["cur"].io # NoFile /\ svc["cur"].slot = ring /\ Fresh(ring) /\ bbuf = << >>
        /\ svc["cur"].io \in Files
    BY <1>1, <2>1, Handles DEF Roles, Reading
  <2>3. Roles'
    BY <1>1, <2>1, <2>2 DEF Roles, Fresh, words
  <2>4. Seeks'
    BY <2>1, <2>2 DEF Seeks, Pending, Fresh, words
  <2>5. Rebase' /\ Room'
    BY <2>1 DEF Rebase, Room
  <2>6. Contents'
    BY <1>1, <2>1 DEF Contents, Served, Rebasing, Ahead, words
  <2>7. Reading'
    <3>1. base[ring] + rd[ring] = 0 + 0
      BY <2>2 DEF Fresh
    <3> QED BY <2>1, <2>2, <3>1 DEF Reading, words
  <2> QED BY <2>3, <2>4, <2>5, <2>6, <2>7 DEF Kept
<1>4. ASSUME Drain PROVE Kept'
  <2>1. /\ bpc = "rest" /\ bpc' = "drained"
        /\ UNCHANGED <<words, aVars, bw, bfile, blen, bbuf, brd, bwr, bseek, at>>
    BY <1>4 DEF Drain
  <2>2. rd[bw] <= wr[bw]
    BY <2>1, ReadingRing
  <2>3. Roles' /\ Seeks' /\ Rebase' /\ Contents' /\ Room'
    BY <2>1, <2>2, <1>2, CallFrame DEF words
  <2>4. Reading'
    BY <1>1, <2>1 DEF Reading, words
  <2> QED BY <2>3, <2>4 DEF Kept
<1>5. ASSUME CloseCodec PROVE Kept'
  <2>1. /\ actl = "closing" /\ bpc \in {"rest", "drained"} /\ bpc' = "closed" /\ bfile' = NoFile
        /\ UNCHANGED <<words, aVars, bw, blen, bbuf, brd, bwr, bseek>>
    BY <1>5 DEF CloseCodec
  <2>2. bbuf = << >>
    BY <1>1, <2>1 DEF Reading
  <2>3. Roles'
    BY <1>1, <2>1 DEF Roles, Fresh, words, aVars
  <2>4. Seeks' /\ Rebase'
    BY <1>1, <2>1 DEF Seeks, Rebase, Pending, words, aVars
  <2>5. Contents' /\ Room'
    BY <1>1, <2>1 DEF Contents, Served, Rebasing, Ahead, Room, S, words, aVars
  <2>6. Reading'
    BY <2>1, <2>2 DEF Reading
  <2> QED BY <2>3, <2>4, <2>5, <2>6 DEF Kept
<1> QED BY <1>3, <1>4, <1>5

-----------------------------------------------------------------------------
(* The invariant holds at the start, when nothing is open.                 *)
LEMMA IInit == Init => IInv
<1> SUFFICES ASSUME Init PROVE IInv
  OBVIOUS
<1>1. TInv
  BY TInit
<1>2. /\ svc["cur"].io = NoFile /\ svc["pre"].io = NoFile /\ preFile = NoFile
      /\ actl = "stopped" /\ apc = "idle" /\ bpc = "closed" /\ bbuf = << >>
  BY DEF Init, NoSvc
<1>3. Roles /\ Seeks /\ Rebase /\ Room
  BY <1>2 DEF Roles, Seeks, Rebase, Room
<1>4. Contents /\ Reading
  BY <1>2 DEF Contents, Served, Reading
<1> QED BY <1>1, <1>3, <1>4 DEF IInv, Kept

(* The faults that none of the promises of the file service survives are   *)
(* left out here: a read that moved the file before it failed, a seek past *)
(* the end of the file and a seek given up on (README, "Known deviations").*)
Mild == Faults \cap {"partial_error", "seek_past_end", "seek_timeout"} = {}

(* Every step keeps it, as long as the faults are mild.                    *)
LEMMA INext == Mild /\ IInv /\ [Next]_vars => IInv'
<1> SUFFICES ASSUME Mild, IInv, [Next]_vars PROVE IInv'
  OBVIOUS
<1>1. TInv'
  BY TNext DEF IInv
<1>2. "partial_error" \notin Faults /\ "seek_past_end" \notin Faults
      /\ "seek_timeout" \notin Faults
  BY DEF Mild
<1>3. CASE UNCHANGED vars
  <2>1. UNCHANGED <<words, aVars, bVars>>
    BY <1>3 DEF vars
  <2>2. Roles' /\ Seeks' /\ Rebase'
    BY <2>1 DEF IInv, Kept, Roles, Seeks, Rebase, Fresh, Pending, words, aVars, bVars
  <2>3. Contents' /\ Room' /\ Reading'
    BY <2>1 DEF IInv, Kept, Contents, Served, Rebasing, Ahead, Room, S, Reading, words, aVars, bVars
  <2> QED BY <1>1, <2>2, <2>3 DEF IInv, Kept
<1>4. CASE APoll
  BY <1>1, <1>2, <1>4, SeekSteps, IdleSteps, FillSteps DEF APoll, IInv
<1>5. CASE AControl
  BY <1>1, <1>5, ControlSteps DEF IInv
<1>6. CASE BRead \/ ReadStall
  BY <1>1, <1>6, ReadSteps DEF IInv
<1>7. CASE BSeek
  BY <1>1, <1>2, <1>7, SeekCallSteps, SeekReturnStep DEF BSeek, IInv
<1>8. CASE BCodec
  BY <1>1, <1>2, <1>8, CodecSteps, ReadSteps, SeekCallSteps DEF BCodec, IInv
<1>9. ~SeekTimeout
  BY <1>2 DEF SeekTimeout
<1> QED BY <1>3, <1>4, <1>5, <1>6, <1>7, <1>8, <1>9 DEF Next

(* So it always holds.                                                     *)
LEMMA Invariance ==
    ASSUME Mild
    PROVE  Spec => []IInv
<1>1. IInv /\ [Next]_vars => IInv'
  BY INext
<1> QED BY <1>1, IInit, PTL DEF Spec

-----------------------------------------------------------------------------
(* A ring in service is bounded and holds exactly its own file's bytes     *)
(* between RD and WR, through read-ahead, wrap, seek, pre-open and         *)
(* promotion, although A sizes its reads from an RD that B keeps moving.   *)
THEOREM RingsHoldFiles ==
    ASSUME Mild
    PROVE  Spec => []RingHoldsFile
<1>1. IInv => RingHoldsFile
  <2> SUFFICES ASSUME IInv, NEW v \in Services, Served(v)
               PROVE  LET s == svc[v].slot
                      IN  /\ rd[s] <= wr[s] /\ wr[s] - rd[s] <= RingBytes[s]
                          /\ \A p \in rd[s] .. wr[s] - 1 :
                                mem[s][p % RingBytes[s]] = <<svc[v].io, base[s] + p>>
                          /\ svc[v].pos =
                                base[s] + wr[s] + (IF asvc = v /\ apc = "publish" THEN agot
                                                                                  ELSE 0)
    BY DEF RingHoldsFile, RingBounded
  <2> DEFINE s == svc[v].slot
  <2>1. s \in Rings
    BY Handles DEF IInv, TInv
  <2>2. RingBytes[s] \in Nat
    BY <2>1, Sizes
  <2>3. /\ rd[s] \in Nat /\ wr[s] \in Nat /\ base[s] \in Nat
        /\ rd[s] <= wr[s] /\ wr[s] + Ahead(v) - rd[s] <= RingBytes[s]
        /\ Ahead(v) \in Nat
        /\ svc[v].pos = base[s] + wr[s] + Ahead(v)
        /\ \A p \in rd[s] .. wr[s] + Ahead(v) - 1 :
              mem[s][p % RingBytes[s]] = <<svc[v].io, base[s] + p>>
    BY <2>1, ServedRing
  <2> HIDE DEF s
  <2>4. wr[s] - rd[s] <= RingBytes[s]
    BY <2>2, <2>3
  <2>5. ASSUME NEW p \in rd[s] .. wr[s] - 1
        PROVE  mem[s][p % RingBytes[s]] = <<svc[v].io, base[s] + p>>
    <3>1. p \in rd[s] .. wr[s] + Ahead(v) - 1
      BY <2>3
    <3> QED BY <3>1, <2>3
  <2> QED BY <2>3, <2>4, <2>5 DEF Ahead, s
<1> QED BY <1>1, Invariance, PTL

(* A repositions a ring only while B waits for the acknowledgement of a    *)
(* seek on that ring.                                                      *)
THEOREM SeeksQuiesced ==
    ASSUME Mild
    PROVE  Spec => []SeekQuiesced
<1>1. IInv => SeekQuiesced
  BY SeekingRing DEF IInv, Kept, Rebase, SeekQuiesced, Rebasing
<1> QED BY <1>1, Invariance, PTL

(* An acknowledged seek leaves tell() at the offset that seek asked for:   *)
(* never at that of an earlier request A was still serving.                *)
THEOREM SeeksLand ==
    ASSUME Mild
    PROVE  Spec => SeekLands
<1>1. IInv /\ [Next]_vars
        => [bpc = "await" /\ seekAck[bw] = bseek /\ bpc' = "rest" => at' = seekTo[bw]]_vars
  <2> SUFFICES ASSUME IInv, Next, bpc = "await", bpc' = "rest"
               PROVE  at' = seekTo[bw]
    OBVIOUS
  <2>1. actl # "opening" /\ "seek_timeout" \notin Faults
    BY DEF IInv, Kept, Roles, Mild
  <2>2. SeekReturn
    <3>1. ~APoll
      BY DEF APoll, Poll, SeekFile, SeekRd, SeekWr, SeekEof, SeekAck, NoSeek, Refill, FillDone,
             FillRead, FillError, Publish, FlagEof, bVars
    <3>2. ~AControl
      BY DEF AControl, Start, Preopen, PreopenFails, Promote, Stop, Close, bVars
    <3>3. ~BRead /\ ~ReadStall /\ ~BCodec /\ ~SeekTimeout
      BY <2>1 DEF BRead, ReadLoad, ReadCopy, ReadConsume, ReadFull, ReadDry, ReadStall, BCodec,
                  OpenCodec, Drain, CloseCodec, ReadBegin, SeekBegin, SeekTimeout
    <3> QED BY <3>1, <3>2, <3>3 DEF Next, BSeek, SeekRequest
  <2> QED BY <2>2, SeekReturnStep
<1> QED BY <1>1, Invariance, PTL DEF Spec, SeekLands

(* The codec sees a plain file: every step of the two cores is a call of   *)
(* FileReader.tla, or one the codec cannot see.                            *)
THEOREM RingsImplementReader ==
    ASSUME Mild
    PROVE  Spec => ReaderSpec
<1>1. Init => Reader!Init
  BY DEF Init, Reader!Init
<1>2. IInv /\ [Next]_vars => [Reader!Next]_(Reader!readerVars)
  <2> SUFFICES ASSUME IInv, [Next]_vars PROVE Reader!Next \/ UNCHANGED <<bfile, at, last>>
    BY DEF Reader!readerVars
  <2>1. TypeOK /\ Roles /\ Reading
    BY DEF IInv, Kept, TInv
  <2>2. CASE UNCHANGED bVars
    BY <2>2 DEF bVars
  <2>3. ASSUME bpc \in {"load", "dry"}, NEW how, Return(how) PROVE Reader!Next
    <3>1. /\ bfile \in Files /\ FileSize[bfile] \in Nat /\ bfile # NoFile
      BY <2>3, ReadingRing, Sizes
    <3>2. /\ at' = at + Len(bbuf) /\ at' <= FileSize[bfile] /\ last' = bbuf /\ UNCHANGED bfile
      BY <2>3, ReturnStep DEF Return
    <3>3. at \in Nat /\ Len(bbuf) \in Nat /\ bbuf \in Seq(Byte)
      BY <2>1, BTypes
    <3>4. Len(bbuf) \in 0 .. FileSize[bfile]
      BY <3>1, <3>2, <3>3
    <3>5. bbuf = Reader!Bytes(bfile, at, Len(bbuf))
      <4>1. \A i \in 1 .. Len(bbuf) : bbuf[i] = <<bfile, at + i - 1>>
        BY <2>1 DEF Reading
      <4>2. bbuf = [i \in 1 .. Len(bbuf) |-> bbuf[i]]
        BY <3>3
      <4> QED BY <4>1, <4>2 DEF Reader!Bytes
    <3>6. Reader!Read(Len(bbuf))
      BY <3>1, <3>2, <3>5 DEF Reader!Read
    <3> QED BY <3>1, <3>4, <3>6 DEF Reader!Next
  <2>4. ASSUME BRead \/ ReadStall PROVE Reader!Next \/ UNCHANGED <<bfile, at, last>>
    <3>1. CASE ReadLoad \/ ReadCopy \/ ReadConsume
      BY <3>1 DEF ReadLoad, ReadCopy, ReadConsume
    <3>2. CASE ReadFull \/ ReadStall
      BY <3>2, <2>3 DEF ReadFull, ReadStall
    <3>3. CASE ReadDry
      <4>1. bpc = "dry"
        BY <3>3 DEF ReadDry
      <4>2. CASE eof[bw] /\ Return("end")
        BY <4>1, <4>2, <2>3
      <4>3. CASE ~eof[bw] /\ ~open[bw] /\ Return("unserved")
        BY <4>1, <4>3, <2>3
      <4> QED BY <3>3, <4>2, <4>3 DEF ReadDry
    <3> QED BY <2>4, <3>1, <3>2, <3>3 DEF BRead
  <2>5. ASSUME BSeek PROVE Reader!Next \/ UNCHANGED <<bfile, at, last>>
    <3>1. CASE SeekRequest
      BY <3>1 DEF SeekRequest
    <3>2. CASE SeekReturn
      <4>1. /\ at' <= FileSize[bfile] /\ at' = seekTo[bw] /\ bfile \in Files
        BY <3>2, SeekReturnStep
      <4>2. seekTo[bw] \in Nat /\ FileSize[bfile] \in Nat /\ bfile # NoFile
        BY <4>1, <2>1, BTypes, Cursors, Sizes
      <4>3. seekTo[bw] \in 0 .. FileSize[bfile]
        BY <4>1, <4>2
      <4>4. Reader!Seek(seekTo[bw])
        BY <3>2, <4>1, <4>2 DEF SeekReturn, Reader!Seek
      <4> QED BY <4>2, <4>3, <4>4 DEF Reader!Next
    <3> QED BY <2>5, <3>1, <3>2 DEF BSeek
  <2>6. ASSUME BCodec PROVE Reader!Next \/ UNCHANGED <<bfile, at, last>>
    <3>1. CASE OpenCodec
      <4>1. svc["cur"].io \in Files
        BY <3>1, <2>1, Handles DEF OpenCodec, Roles
      <4>2. Reader!Open(svc["cur"].io) \/ Reader!Close
        BY <3>1, <4>1 DEF OpenCodec, Reader!Open, Reader!Close
      <4> QED BY <4>1, <4>2 DEF Reader!Next
    <3>2. CASE CloseCodec
      BY <3>2 DEF CloseCodec, Reader!Close, Reader!Next
    <3> QED BY <2>6, <3>1, <3>2 DEF BCodec, Drain, ReadBegin, SeekBegin
  <2>7. UNCHANGED bVars \/ BRead \/ ReadStall \/ BSeek \/ BCodec
    <3>1. ASSUME APoll PROVE UNCHANGED bVars
      BY <3>1 DEF APoll, Poll, SeekFile, SeekRd, SeekWr, SeekEof, SeekAck, NoSeek, Refill,
                  FillDone, FillRead, FillError, Publish, FlagEof
    <3>2. ASSUME AControl PROVE UNCHANGED bVars
      BY <3>2 DEF AControl, Start, Preopen, PreopenFails, Promote, Stop, Close
    <3>3. ~SeekTimeout
      BY DEF Mild, SeekTimeout
    <3> QED BY <3>1, <3>2, <3>3 DEF Next, vars
  <2> QED BY <2>2, <2>4, <2>5, <2>6, <2>7
<1> QED BY <1>1, <1>2, Invariance, PTL DEF Spec, ReaderSpec, Reader!Spec
=============================================================================
