--------------------------- MODULE PcmStreamProofs ---------------------------
(***************************************************************************)
(* That playback across the two cores plays the frames in order and within *)
(* the ring: for every length of the tracks, of the ring and of a batch,   *)
(* every width of the counters, any playlist, any positions the user seeks *)
(* to and any number of streams.  The types hold whatever faults happen;   *)
(* the rest holds if no wait for Core B runs out (Patient): OPEN may fail  *)
(* and the decoder may, but B's answer is waited for.                      *)
(*                                                                         *)
(* The inductive invariant, IInv, says where the two cores may be at the   *)
(* same time (Steps to Parked), which stream B has open at each point of   *)
(* an operation (Opening, Going), what the three parties' views of the     *)
(* indices imply (Indices) and which frame each slot of the ring holds     *)
(* (Contents), with the frames numbered through all streams (Lin).  It has *)
(* one lemma per part, and in it one case per action.                      *)
(***************************************************************************)
EXTENDS PcmStream, TLAPS

(* The operations that end a stream, those that start one, and where B is  *)
(* while it decodes and while it handles a command.                        *)
StopOps == {"stop", "end", "error", "restart", "change"}
StartOps == {"start", "startat"}
RoundPcs == {"rd", "wr", "decode", "write", "publish", "arm"}
CommandPcs == {"cmd", "exec", "ack"}

(* What keeps positions and counts in range, whatever faults happen.       *)
InRange ==
    /\ bpc \in RoundPcs => codec # None
    /\ bemit <= codec.pos \/ codec = None
    /\ bpc \in {"write", "publish"} => 0 < bgot /\ bgot <= codec.pos
    /\ beof /\ codec # None => codec.pos = TrackFrames
    /\ bpc \in {"rd", "wr", "decode"} => ~beof

TInv == TypeOK /\ InRange

(* No wait runs out.                                                       *)
Patient == Faults \cap {"open_timeout", "seek_timeout", "close_timeout"} = {}

(* Which step of which operation is where.                                 *)
Steps ==
    /\ apc \in {"idle", "snapWr", "snapEof", "decide"} <=> aop = "none"
    /\ apc = "arg" => aop \in {"preload", "next", "seek"} \cup StartOps
    /\ apc \in {"rd", "wr"} => aop \in {"start", "seek"} \cup (StopOps \ {"error"})
    /\ apc = "run" => aop \in {"preload", "next"} \cup StartOps
    /\ apc \in {"snapWr", "snapEof", "decide"} => player = "playing"
    /\ aop \in {"preload"} \cup StartOps => player = "stopped"
    /\ aop = "seek" => player \in {"playing", "paused"}
    /\ aop = "next" => player = "playing"

(* One command is outstanding at most, and B reads it as it was posted.    *)
Outstanding ==
    /\ ack = seq \/ (seq = ack + 1 /\ apc = "wait")
    /\ apc = "seq" => cmd = [op |-> CommandOf(aop), tag |-> seq + 1]
    /\ apc = "wait" => cmd = [op |-> CommandOf(aop), tag |-> seq]
    /\ bpc \in CommandPcs => bseq = seq /\ ack # seq
    /\ bpc \in {"exec", "ack"} => bcmd = cmd
    /\ apc \in {"cmd", "seq", "wait"} /\ aop \notin StopOps => arg = goal

(* When the feeder is attached, and B is told to run.                      *)
Feeding ==
    /\ attached => player \in {"playing", "paused"} /\ bdec
    /\ aop \in {"none", "seek", "next"} /\ player \in {"playing", "paused"} => attached
    /\ aop \in StopOps =>
          IF apc \in {"rd", "wr", "finish"} THEN ~bdec /\ ~attached ELSE bdec
    /\ ~bdec => state = "idle"
    /\ player \in {"stopped", "error"} /\ ~(aop \in StartOps /\ apc = "finish") =>
          state = "idle"
    /\ aop = "seek" => hold /\ state = "idle"
    /\ aop \in {"preload"} \cup StartOps /\ apc = "finish" => bdec
    /\ isr # "off" => attached /\ ~hold

(* B has carried out the command the AP waits for.                         *)
Handled == ack = seq \/ bpc = "ack"

Asking == apc \in {"arg", "cmd", "seq"} \/ (apc = "wait" /\ ~Handled)

(* B decodes only while it may: when it is parked it is in no round.       *)
Parked == bpc \in RoundPcs => state # "idle" \/ (aop = "seek" /\ Asking)

(* Where the stream that B has open stands to the one that is asked for.   *)
AtStart == codec = [goal EXCEPT !.pos = 0]

Opening ==
    /\ aop \in {"start", "preload"} /\ apc = "wait" /\ Handled =>
          (AtStart /\ bstate = "open") \/ (codec = None /\ bstate = "error")
    /\ aop = "start" /\ apc \in {"rd", "wr", "run"} /\ bdec => AtStart
    /\ aop = "start" /\ apc = "run" => AtStart /\ goal.pos = 0
    /\ aop = "preload" /\ apc \in {"run", "finish"} => AtStart
    /\ aop = "startat" /\ Asking => AtStart
    /\ aop = "startat" /\ apc \in {"wait", "run"} /\ ~Asking => codec = goal
    /\ aop = "preload" => goal.pos = 0
    /\ aop \in {"preload"} \cup StartOps => preload = None
    /\ aop \in StopOps /\ apc \in {"rd", "wr", "finish"} => preload = None
    /\ preload # None /\ aop \notin StopOps =>
          preload = goal /\ codec = goal /\ goal.pos = 0 /\ player = "stopped"
    /\ preload # None => bdec
    /\ aop \in StopOps /\ apc = "wait" /\ Handled => codec = None

Current == codec.id = goal.id /\ codec.track = goal.track

Going ==
    /\ player \in {"playing", "paused"} /\ aop = "none" => Current
    /\ aop \in StartOps /\ apc = "finish" => Current
    /\ aop \in {"seek", "next"} /\ Asking => codec.id + 1 = goal.id /\ codec.id >= 1
    /\ aop = "seek" /\ Asking => codec.track = goal.track
    /\ aop = "next" /\ Asking => beof
    /\ aop = "seek" /\ ~Asking => codec = goal
    /\ aop = "next" /\ ~Asking =>
          Current \/ (codec = None /\ bstate = "error" /\ apc = "wait")
    /\ \/ player \in {"playing", "paused"} \/ preload # None
       \/ aop \in {"preload"} \cup StartOps
       => goal.id >= 1
    /\ apc = "decide" /\ snap.eof => beof

(* The indices never claim more than the ring holds, nor what B is about   *)
(* to add to them.                                                         *)
Indices ==
    /\ apc # "wr" => Fill(wr, rd) <= RingFrames
    /\ apc = "wr" => rd = 0
    /\ isr = "copy" => rd # wr
    /\ bpc = "wr" => Fill(rd, brd) + Fill(wr, rd) <= RingFrames
    /\ bpc \in {"decode", "write", "publish"} =>
          bwr = wr /\ Fill(wr, rd) + Chunk <= RingFrames
    /\ aop \in StartOps /\ apc \in {"arg", "cmd", "seq", "wait", "run"} =>
          rd = 0 /\ wr = 0
    /\ aop = "seek" /\ apc = "finish" => rd = 0 /\ wr = 0

(* Frames counted through the streams: the first of a stream follows the   *)
(* last of the one before.                                                 *)
Lin(id, pos) == id * TrackFrames + pos

Live == attached /\ aop # "seek"

Ready ==
    (aop \in StartOps /\ apc \in {"run", "finish"}) \/ (aop = "seek" /\ apc = "finish")

Expect ==
    IF aop \in {"seek"} \cup StartOps THEN Lin(goal.id, goal.pos)
                                      ELSE Lin(due[1], due[2])

Pending == IF bpc \in {"write", "publish"} THEN bgot ELSE 0

Slot(n) == n % RingFrames

LinAt(i) == Lin(ring[i][1], ring[i][2])

(* The frames of the ring follow each other from the one expected next,    *)
(* and B goes on where they end.                                           *)
Queue ==
    \A k \in 0 .. RingFrames - 1 :
       k < Fill(wr, rd) => LinAt(Slot(rd + k)) = Expect + k

Continued == codec # None => Lin(codec.id, codec.pos) = Expect + Fill(wr, rd) + Pending

Written ==
    bpc = "publish" =>
        \A k \in 0 .. Chunk - 1 : k < bgot =>
           ring[Slot(bwr + k)] = <<codec.id, codec.pos - bgot + k>>

Contents == (Live \/ Ready => Queue /\ Continued) /\ Written

Trimmed ==
    ~Preloads =>
        /\ aop # "preload" /\ preload = None
        /\ codec # None => btrim = codec.track
        /\ \/ aop \in StartOps /\ apc \notin {"rd", "wr"}
           \/ aop \in {"seek", "next"}
           \/ aop = "none" /\ player \in {"playing", "paused"}
           => gap = goal.track

Kept ==
    /\ Steps /\ Outstanding /\ Feeding /\ Parked /\ Opening /\ Going
    /\ Indices /\ Contents /\ Trimmed

IInv == TInv /\ Kept

-----------------------------------------------------------------------------
(* Arithmetic.                                                             *)

(* The assumption on the constants, in the form the steps use.             *)
LEMMA PcmConstants ==
    /\ TrackFrames \in Nat \ {0} /\ Chunk \in Nat \ {0} /\ RingFrames \in Nat \ {0}
    /\ 2 * Chunk <= RingFrames /\ Modulus \in Nat \ {0} /\ 2 * RingFrames <= Modulus
    /\ LastTrack \in Nat \ {0} /\ MaxStreams \in Nat
    /\ SeekTargets \subseteq 0 .. TrackFrames
    /\ TailTrim \in BOOLEAN /\ Preloads \in BOOLEAN
<1>1. PICK k \in 2 .. Modulus : Modulus = k * RingFrames
  BY PcmAssumption
<1>2. 2 * RingFrames <= k * RingFrames
  BY <1>1, PcmAssumption
<1> QED BY <1>1, <1>2, PcmAssumption

(* Reducing modulo n.                                                      *)
LEMMA ModRange ==
    ASSUME NEW a \in Int, NEW n \in Nat \ {0}
    PROVE  a % n \in 0 .. n - 1
OBVIOUS

(* A number below n is its own remainder.                                  *)
LEMMA ModSmall ==
    ASSUME NEW a \in Nat, NEW n \in Nat \ {0}, a < n
    PROVE  a % n = a
OBVIOUS

(* The unsigned difference of two counters.                                *)
LEMMA FillIs ==
    ASSUME NEW w \in Counters, NEW r \in Counters
    PROVE  /\ Fill(w, r) = IF w >= r THEN w - r ELSE w - r + Modulus
           /\ Fill(w, r) \in 0 .. Modulus - 1 /\ Fill(w, r) \in Nat
           /\ Fill(w, w) = 0
           /\ Fill(w, r) = 0 => w = r
<1>1. w \in Int /\ 0 <= w /\ w < Modulus /\ r \in Int /\ 0 <= r /\ r < Modulus
      /\ Modulus \in Nat \ {0}
  BY PcmConstants DEF Counters
<1>2. CASE w >= r
  <2>1. (w - r) % Modulus = w - r
    BY <1>1, <1>2, ModSmall
  <2>2. 0 % Modulus = 0
    BY <1>1, ModSmall
  <2> QED BY <1>1, <1>2, <2>1, <2>2 DEF Fill
<1>3. CASE w < r
  <2>1. (w - r) % Modulus = w - r + Modulus
    BY <1>1, <1>3
  <2>2. 0 % Modulus = 0
    BY <1>1, ModSmall
  <2> QED BY <1>1, <1>3, <2>1, <2>2 DEF Fill
<1> QED BY <1>1, <1>2, <1>3

(* A counter that has moved on.                                            *)
LEMMA MovedIs ==
    ASSUME NEW c \in Counters, NEW n \in 0 .. RingFrames
    PROVE  /\ (c + n) % Modulus = IF c + n < Modulus THEN c + n ELSE c + n - Modulus
           /\ (c + n) % Modulus \in Counters
<1>1. c \in Int /\ 0 <= c /\ c < Modulus /\ n \in Int /\ 0 <= n /\ n < Modulus
      /\ Modulus \in Nat \ {0}
  BY PcmConstants DEF Counters
<1> QED BY <1>1 DEF Counters

-----------------------------------------------------------------------------
(* Types.                                                                  *)

(* The parts of the type invariant.                                        *)
LEMMA Types ==
    ASSUME TInv
    PROVE  SharedOK /\ AOK /\ FeederOK /\ CoreOK /\ InRange
BY DEF TInv, TypeOK

(* The values the actions store are of the right type.                     *)
LEMMA Zeros ==
    /\ 0 \in Counters /\ 0 \in 0 .. MaxStreams /\ 0 \in 0 .. LastTrack
    /\ 1 \in 1 .. LastTrack /\ 0 \in 0 .. TrackFrames /\ 0 \in 0 .. TrackFrames - 1
    /\ 0 \in 0 .. Chunk /\ <<0, 0>> \in Frames /\ None \in Streams
    /\ [op |-> "none", tag |-> 0] \in Commands
<1>1. /\ 0 \in Counters /\ 0 \in 0 .. MaxStreams /\ 0 \in 0 .. LastTrack
      /\ 1 \in 1 .. LastTrack /\ 0 \in 0 .. TrackFrames /\ 0 \in 0 .. TrackFrames - 1
      /\ 0 \in 0 .. Chunk
  BY PcmConstants DEF Counters
<1> QED BY <1>1 DEF Frames, Streams, None, Commands

(* The streams that are asked for are within the bounds.                   *)
LEMMA StreamTypes ==
    ASSUME goal \in Streams
    PROVE  /\ Room => \A t \in 1 .. LastTrack, p \in 0 .. TrackFrames :
                         Stream(t, p) \in Streams
           /\ Room => \A p \in SeekTargets : Stream(goal.track, p) \in Streams
           /\ FirstFrame(goal) \in Nat \X (0 .. TrackFrames - 1)
<1>1. goal.id \in 0 .. MaxStreams /\ goal.track \in 0 .. LastTrack /\ goal.pos \in 0 .. TrackFrames
  BY DEF Streams
<1>2. Room => goal.id + 1 \in 0 .. MaxStreams
  BY <1>1, PcmConstants DEF Room
<1>3. FirstFrame(goal) \in Nat \X (0 .. TrackFrames - 1)
  <2>1. goal.id \in Nat /\ goal.id + 1 \in Nat /\ 0 \in 0 .. TrackFrames - 1
    BY <1>1, Zeros, PcmConstants
  <2>2. goal.pos < TrackFrames => goal.pos \in 0 .. TrackFrames - 1
    BY <1>1, PcmConstants
  <2> QED BY <2>1, <2>2 DEF FirstFrame
<1> QED BY <1>1, <1>2, <1>3, PcmConstants DEF Stream, Streams

(* A stream moved to another position, or under another track.             *)
LEMMA MovedTypes ==
    ASSUME NEW s \in Streams
    PROVE  /\ \A p \in 0 .. TrackFrames : [s EXCEPT !.pos = p] \in Streams
           /\ \A p \in SeekTargets \cup {0} : [s EXCEPT !.pos = p] \in Streams
           /\ \A t \in 0 .. LastTrack : [s EXCEPT !.track = t] \in Streams
           /\ s.track \in 0 .. LastTrack /\ s.pos \in 0 .. TrackFrames
           /\ s.id \in 0 .. MaxStreams
<1>1. SeekTargets \cup {0} \subseteq 0 .. TrackFrames
  BY PcmConstants
<1> QED BY <1>1 DEF Streams

(* Whatever operation is in progress, what it posts is a command.          *)
LEMMA CommandTypes ==
    ASSUME seq \in Nat, NEW op
    PROVE  [op |-> CommandOf(op), tag |-> seq + 1] \in Commands
<1>1. CommandOf(op) \in {"open", "next", "seek", "close"}
  BY DEF CommandOf
<1>2. seq + 1 \in Nat
  OBVIOUS
<1> QED BY <1>1, <1>2 DEF Commands

(* The frame after a frame of a track.                                     *)
LEMMA FrameTypes ==
    ASSUME NEW f \in Nat \X (0 .. TrackFrames - 1)
    PROVE  FrameAfter(f) \in Nat \X (0 .. TrackFrames - 1)
<1>1. f[1] \in Nat /\ f[2] \in 0 .. TrackFrames - 1
  OBVIOUS
<1>2. f[1] + 1 \in Nat /\ 0 \in 0 .. TrackFrames - 1
  BY <1>1, Zeros
<1>3. f[2] + 1 < TrackFrames => f[2] + 1 \in 0 .. TrackFrames - 1
  BY <1>1, PcmConstants
<1> QED BY <1>1, <1>2, <1>3 DEF FrameAfter

(* A decode advances the stream by what is left of the track, if less than *)
(* a batch.                                                                *)
LEMMA DecodeIs ==
    ASSUME TInv, BDecode
    PROVE  /\ bgot' \in 0 .. Chunk /\ codec \in Streams /\ codec' \in Streams
           /\ codec' = [codec EXCEPT !.pos = codec.pos + bgot']
           /\ codec'.id = codec.id /\ codec'.track = codec.track
           /\ codec'.pos = codec.pos + bgot' /\ codec.pos + bgot' \in 0 .. TrackFrames
           /\ bemit' = bemit + bgot' /\ bemit' \in 0 .. TrackFrames
           /\ bemit' <= codec'.pos
           /\ bgot' = 0 => codec.pos = TrackFrames
           /\ codec.pos \in Nat /\ codec.id \in Nat
<1>1. codec \in Streams /\ bemit \in 0 .. TrackFrames /\ bemit <= codec.pos
  BY Types DEF CoreOK, InRange, BDecode, RoundPcs
<1>2. codec.pos \in 0 .. TrackFrames /\ codec.id \in 0 .. MaxStreams
  BY <1>1 DEF Streams
<1>3. bgot' = Least(Chunk, TrackFrames - codec.pos)
      /\ codec' = [codec EXCEPT !.pos = codec.pos + bgot'] /\ bemit' = bemit + bgot'
  BY DEF BDecode
<1>4. /\ bgot' \in 0 .. Chunk /\ codec.pos + bgot' \in 0 .. TrackFrames
      /\ bgot' = 0 => codec.pos = TrackFrames
  BY <1>2, <1>3, PcmConstants DEF Least
<1>5. bemit' \in 0 .. TrackFrames /\ bemit' <= codec.pos + bgot'
  BY <1>1, <1>2, <1>3, <1>4, PcmConstants
<1>6. codec' \in Streams /\ codec'.pos = codec.pos + bgot' /\ codec'.id = codec.id
      /\ codec'.track = codec.track
  BY <1>1, <1>3, <1>4 DEF Streams
<1> QED BY <1>1, <1>2, <1>3, <1>4, <1>5, <1>6

(* The initial state has the types.                                        *)
LEMMA InitTypes == Init => TInv
<1> SUFFICES ASSUME Init PROVE TInv
  OBVIOUS
<1>1. SharedOK
  <2>1. ring \in [0 .. RingFrames - 1 -> Frames]
    BY Zeros DEF Init
  <2>2. ack \in 0 .. seq /\ seq \in Nat
    BY DEF Init
  <2> QED BY <2>1, <2>2, Zeros DEF Init, SharedOK, BStates
<1>2. AOK
  BY Zeros DEF Init, AOK
<1>3. FeederOK
  <2>1. <<0, 0>> \in Nat \X (0 .. TrackFrames - 1)
    BY Zeros
  <2> QED BY Zeros, <2>1 DEF Init, FeederOK
<1>4. CoreOK
  BY Zeros DEF Init, CoreOK
<1>5. InRange
  BY DEF Init, InRange, RoundPcs
<1> QED BY <1>1, <1>2, <1>3, <1>4, <1>5 DEF TInv, TypeOK

(* Steps keep the types of the shared words and of the ring.               *)
LEMMA SharedTypes ==
    ASSUME TInv, Next
    PROVE  SharedOK'
<1>t. SharedOK /\ AOK /\ FeederOK /\ CoreOK /\ InRange
  BY Types
<1>1. CASE \E p \in SeekTargets \cup {0} : Start(p)
  BY <1>1, <1>t DEF Start, iVars, bVars, SharedOK
<1>2. CASE Preload
  BY <1>2, <1>t DEF Preload, shared, iVars, bVars, SharedOK
<1>3. CASE \E p \in SeekTargets : Seek(p)
  BY <1>3, <1>t DEF Seek, bVars, SharedOK
<1>4. CASE Stop
  BY <1>4, <1>t DEF Stop, StopFor, bVars, SharedOK
<1>5. CASE \E t \in 1 .. LastTrack : Skip(t)
  BY <1>5, <1>t DEF Skip, StopFor, bVars, SharedOK
<1>6. CASE Pause
  BY <1>6, <1>t DEF Pause, bVars, SharedOK
<1>7. CASE Resume
  BY <1>7, <1>t DEF Resume, bVars, SharedOK
<1>8. CASE PostArg
  BY <1>8, <1>t DEF PostArg, iVars, bVars, SharedOK, AOK
<1>9. CASE PostCmd
  BY <1>9, <1>t, CommandTypes DEF PostCmd, iVars, bVars, SharedOK
<1>10. CASE PostSeq
  <2>1. seq + 1 \in Nat /\ ack \in 0 .. seq + 1
    BY <1>t DEF SharedOK
  <2> QED BY <1>10, <1>t, <2>1 DEF PostSeq, SharedOK
<1>11. CASE WaitOpen \/ WaitSeek \/ FinishStart \/ FinishPreload \/ FinishNext
            \/ FinishStop
  BY <1>11, <1>t
     DEF WaitOpen, WaitSeek, FinishStart, FinishPreload, FinishNext,
         FinishStop, shared, iVars, bVars, SharedOK
<1>12. CASE WaitClose
  BY <1>12, <1>t DEF WaitClose, bVars, SharedOK
<1>13. CASE ZeroRd
  BY <1>13, <1>t, Zeros DEF ZeroRd, iVars, bVars, SharedOK
<1>14. CASE ZeroWr
  <2>1. goal.track \in 0 .. LastTrack
    BY <1>t, MovedTypes DEF AOK
  <2> QED BY <1>14, <1>t, <2>1, Zeros DEF ZeroWr, SharedOK
<1>15. CASE RunB
  BY <1>15, <1>t DEF RunB, iVars, bVars, SharedOK
<1>16. CASE FinishSeek
  BY <1>16, <1>t DEF FinishSeek, bVars, SharedOK
<1>17. CASE SnapRd \/ SnapWr \/ SnapEof \/ DecideReformat \/ DecideGoOn
  BY <1>17, <1>t
     DEF SnapRd, SnapWr, SnapEof, DecideReformat, DecideGoOn, shared, iVars,
         bVars, SharedOK
<1>18. CASE DecideError
  BY <1>18, <1>t DEF DecideError, StopFor, bVars, SharedOK
<1>19. CASE DecideNext
  <2>1. track + 1 \in 0 .. LastTrack
    BY <1>19, <1>t, PcmConstants DEF DecideNext, AOK
  <2> QED BY <1>19, <1>t, <2>1 DEF DecideNext, SharedOK
<1>20. CASE DecideRestart
  BY <1>20, <1>t DEF DecideRestart, StopFor, bVars, SharedOK
<1>21. CASE DecideEnd
  BY <1>21, <1>t DEF DecideEnd, StopFor, bVars, SharedOK
<1>22. CASE IsrFire \/ IsrMask
  BY <1>22, <1>t DEF IsrFire, IsrMask, shared, aVars, bVars, SharedOK
<1>23. CASE IsrCopy
  <2>1. 1 \in 0 .. RingFrames
    BY PcmConstants
  <2>2. rd' \in Counters
    BY <1>23, <1>t, <2>1, MovedIs DEF IsrCopy, SharedOK
  <2> QED BY <1>23, <1>t, <2>2 DEF IsrCopy, SharedOK
<1>24. CASE BSeq \/ BCmd \/ BState \/ BLoadRd \/ BLoadWr \/ BArm
  BY <1>24, <1>t
     DEF BSeq, BCmd, BState, BLoadRd, BLoadWr, BArm, shared, aVars, iVars,
         SharedOK
<1>25. CASE BOpen
  BY <1>25, <1>t DEF BOpen, aVars, iVars, SharedOK, BStates
<1>26. CASE BSeek
  BY <1>26, <1>t DEF BSeek, aVars, iVars, SharedOK
<1>27. CASE BClose
  BY <1>27, <1>t DEF BClose, aVars, iVars, SharedOK, BStates
<1>28. CASE BAck
  <2>1. ack' \in 0 .. seq
    BY <1>28, <1>t DEF BAck, CoreOK
  <2> QED BY <1>28, <1>t, <2>1 DEF BAck, SharedOK
<1>29. CASE BDecodeError
  BY <1>29, <1>t DEF BDecodeError, aVars, iVars, SharedOK, BStates
<1>30. CASE BDecode
  BY <1>30, <1>t DEF BDecode, aVars, iVars, SharedOK, BStates
<1>31. CASE BWrite
  <2>1. codec.id \in 0 .. MaxStreams /\ codec.pos \in 0 .. TrackFrames
        /\ bgot \in 0 .. codec.pos
    BY <1>31, <1>t, MovedTypes DEF BWrite, CoreOK, InRange
  <2>2. ASSUME NEW k \in Int, 0 <= k, k < bgot
        PROVE  <<codec.id, codec.pos - bgot + k>> \in Frames
    <3>1. codec.pos - bgot + k \in 0 .. TrackFrames - 1
      BY <2>1, <2>2, PcmConstants
    <3> QED BY <2>1, <3>1 DEF Frames
  <2>3. ASSUME NEW i \in 0 .. RingFrames - 1 PROVE (i - bwr) % RingFrames \in 0 .. RingFrames - 1
    <3>1. i - bwr \in Int
      BY <1>t DEF CoreOK, Counters
    <3> QED BY <3>1, PcmConstants, ModRange
  <2>4. ASSUME NEW i \in 0 .. RingFrames - 1 PROVE ring'[i] \in Frames
    <3>1. ring[i] \in Frames /\ DOMAIN ring = 0 .. RingFrames - 1
      BY <1>t DEF SharedOK
    <3>2. (i - bwr) % RingFrames \in Int /\ 0 <= (i - bwr) % RingFrames
      BY <2>3, PcmConstants
    <3> QED BY <1>31, <2>2, <3>1, <3>2 DEF BWrite
  <2>5. ring' \in [0 .. RingFrames - 1 -> Frames]
    <3>1. DOMAIN ring = 0 .. RingFrames - 1
      BY <1>t DEF SharedOK
    <3> DEFINE f(i) == LET k == (i - bwr) % RingFrames
                       IN  IF k < bgot THEN <<codec.id, codec.pos - bgot + k>>
                                       ELSE ring[i]
    <3>2. ring' = [i \in 0 .. RingFrames - 1 |-> f(i)]
      BY <1>31, <3>1 DEF BWrite
    <3>3. \A i \in 0 .. RingFrames - 1 : f(i) \in Frames
      BY <2>4, <3>2
    <3> HIDE DEF f
    <3> QED BY <3>2, <3>3
  <2> QED BY <1>31, <1>t, <2>5 DEF BWrite, SharedOK
<1>32. CASE BPublish
  <2>1. bgot \in 0 .. RingFrames
    BY <1>t, PcmConstants DEF CoreOK
  <2>2. wr' \in Counters
    BY <1>32, <1>t, <2>1, MovedIs DEF BPublish, CoreOK
  <2> QED BY <1>32, <1>t, <2>2 DEF BPublish, SharedOK
<1> QED BY <1>1, <1>2, <1>3, <1>4, <1>5, <1>6, <1>7, <1>8, <1>9, <1>10, <1>11,
      <1>12, <1>13, <1>14, <1>15, <1>16, <1>17, <1>18, <1>19, <1>20, <1>21,
      <1>22, <1>23, <1>24, <1>25, <1>26, <1>27, <1>28, <1>29, <1>30, <1>31,
      <1>32
    DEF Next, User, Operation, Process, Interrupt, CoreB, Command, Round

(* Steps keep the types of what the application processor remembers.       *)
LEMMA ATypes ==
    ASSUME TInv, Next
    PROVE  AOK'
<1>t. SharedOK /\ AOK /\ FeederOK /\ CoreOK /\ InRange
  BY Types
<1>1. CASE \E p \in SeekTargets \cup {0} : Start(p)
  <2>1. \A p \in SeekTargets \cup {0} : p \in 0 .. TrackFrames
    BY PcmConstants
  <2>2. goal' \in Streams
    BY <1>1, <1>t, <2>1, StreamTypes, MovedTypes DEF Start, AOK
  <2> QED BY <1>1, <1>t, <2>2, Zeros DEF Start, AOK
<1>2. CASE Preload
  <2>1. goal' \in Streams
    BY <1>2, <1>t, Zeros, StreamTypes DEF Preload, AOK
  <2> QED BY <1>2, <1>t, <2>1 DEF Preload, AOK
<1>3. CASE \E p \in SeekTargets : Seek(p)
  <2>1. goal' \in Streams
    BY <1>3, <1>t, StreamTypes DEF Seek, AOK
  <2> QED BY <1>3, <1>t, <2>1 DEF Seek, AOK
<1>4. CASE Stop
  BY <1>4, <1>t, Zeros DEF Stop, StopFor, bVars, AOK
<1>5. CASE \E t \in 1 .. LastTrack : Skip(t)
  <2>1. preload' \in Streams
    BY <1>5, <1>t, Zeros DEF Skip, StopFor, AOK
  <2>2. track' \in 1 .. LastTrack
    BY <1>5, <1>t, PcmConstants DEF Skip, AOK
  <2> QED BY <1>5, <1>t, <2>1, <2>2 DEF Skip, StopFor, AOK
<1>6. CASE Pause
  BY <1>6, <1>t DEF Pause, bVars, AOK
<1>7. CASE Resume
  BY <1>7, <1>t DEF Resume, bVars, AOK
<1>8. CASE PostArg
  BY <1>8, <1>t DEF PostArg, iVars, bVars, AOK
<1>9. CASE PostCmd
  BY <1>9, <1>t DEF PostCmd, iVars, bVars, AOK
<1>10. CASE PostSeq
  BY <1>10, <1>t DEF PostSeq, iVars, bVars, AOK
<1>11. CASE WaitOpen
  BY <1>11, <1>t DEF WaitOpen, shared, iVars, bVars, AOK
<1>12. CASE WaitSeek
  BY <1>12, <1>t DEF WaitSeek, shared, iVars, bVars, AOK
<1>13. CASE WaitClose
  BY <1>13, <1>t, Zeros DEF WaitClose, bVars, AOK
<1>14. CASE ZeroRd
  BY <1>14, <1>t DEF ZeroRd, iVars, bVars, AOK
<1>15. CASE ZeroWr
  BY <1>15, <1>t DEF ZeroWr, iVars, bVars, AOK
<1>16. CASE RunB
  BY <1>16, <1>t DEF RunB, iVars, bVars, AOK
<1>17. CASE FinishStart
  BY <1>17, <1>t DEF FinishStart, shared, bVars, AOK, Finished
<1>18. CASE FinishPreload
  BY <1>18, <1>t DEF FinishPreload, shared, iVars, bVars, AOK, Finished
<1>19. CASE FinishSeek
  BY <1>19, <1>t DEF FinishSeek, bVars, AOK, Finished
<1>20. CASE FinishNext
  BY <1>20, <1>t DEF FinishNext, shared, iVars, bVars, AOK, Finished
<1>21. CASE FinishStop
  <2>1. goal' \in Streams
    BY <1>21, <1>t, Zeros, StreamTypes DEF FinishStop, AOK
  <2> QED BY <1>21, <1>t, <2>1 DEF FinishStop, Finished, AOK
<1>22. CASE SnapRd
  <2>1. snap' \in [rd : Counters, wr : Counters, eof : BOOLEAN, error : BOOLEAN]
    BY <1>22, <1>t DEF SnapRd, AOK, SharedOK
  <2> QED BY <1>22, <1>t, <2>1 DEF SnapRd, AOK
<1>23. CASE SnapWr
  <2>1. snap' \in [rd : Counters, wr : Counters, eof : BOOLEAN, error : BOOLEAN]
    BY <1>23, <1>t DEF SnapWr, AOK, SharedOK
  <2> QED BY <1>23, <1>t, <2>1 DEF SnapWr, AOK
<1>24. CASE SnapEof
  <2>1. snap' \in [rd : Counters, wr : Counters, eof : BOOLEAN, error : BOOLEAN]
    BY <1>24, <1>t DEF SnapEof, AOK, SharedOK
  <2> QED BY <1>24, <1>t, <2>1 DEF SnapEof, AOK
<1>25. CASE DecideError
  BY <1>25, <1>t, Zeros DEF DecideError, StopFor, bVars, AOK
<1>26. CASE DecideNext
  <2>1. track' \in 1 .. LastTrack
    BY <1>26, <1>t, PcmConstants DEF DecideNext, AOK
  <2>2. goal' \in Streams
    BY <1>26, <1>t, <2>1, Zeros, StreamTypes DEF DecideNext, AOK
  <2> QED BY <1>26, <1>t, <2>1, <2>2 DEF DecideNext, AOK
<1>27. CASE DecideRestart
  <2>1. preload' \in Streams
    BY <1>27, <1>t, Zeros DEF DecideRestart, StopFor, AOK
  <2>2. track' \in 1 .. LastTrack
    BY <1>27, <1>t, PcmConstants DEF DecideRestart, AOK
  <2> QED BY <1>27, <1>t, <2>1, <2>2 DEF DecideRestart, StopFor, AOK
<1>28. CASE DecideReformat
  <2>1. track' \in 1 .. LastTrack
    BY <1>28, <1>t, PcmConstants DEF DecideReformat, AOK
  <2> QED BY <1>28, <1>t, <2>1 DEF DecideReformat, AOK
<1>29. CASE DecideEnd
  BY <1>29, <1>t, Zeros DEF DecideEnd, StopFor, bVars, AOK
<1>30. CASE DecideGoOn
  BY <1>30, <1>t DEF DecideGoOn, shared, iVars, bVars, AOK
<1>31. CASE IsrFire \/ IsrCopy \/ IsrMask
  BY <1>31, <1>t DEF IsrFire, IsrCopy, IsrMask, shared, aVars, bVars, AOK
<1>32. CASE BSeq \/ BCmd \/ BOpen \/ BSeek \/ BClose \/ BAck
  BY <1>32, <1>t
     DEF BSeq, BCmd, BOpen, BSeek, BClose, BAck, shared, aVars, iVars, AOK
<1>33. CASE BState \/ BLoadRd \/ BLoadWr \/ BDecodeError \/ BDecode \/ BWrite
  BY <1>33, <1>t
     DEF BState, BLoadRd, BLoadWr, BDecodeError, BDecode, BWrite, shared,
         aVars, iVars, AOK
<1>34. CASE BPublish \/ BArm
  BY <1>34, <1>t DEF BPublish, BArm, shared, aVars, iVars, AOK
<1> QED BY <1>1, <1>2, <1>3, <1>4, <1>5, <1>6, <1>7, <1>8, <1>9, <1>10, <1>11,
      <1>12, <1>13, <1>14, <1>15, <1>16, <1>17, <1>18, <1>19, <1>20, <1>21,
      <1>22, <1>23, <1>24, <1>25, <1>26, <1>27, <1>28, <1>29, <1>30, <1>31,
      <1>32, <1>33, <1>34
    DEF Next, User, Operation, Process, Interrupt, CoreB, Command, Round

(* Steps keep the types of the feeder and its interrupt.                   *)
LEMMA FeederTypes ==
    ASSUME TInv, Next
    PROVE  FeederOK'
<1>t. SharedOK /\ AOK /\ FeederOK /\ CoreOK /\ InRange
  BY Types
<1>1. CASE (\E p \in SeekTargets \cup {0} : Start(p)) \/ Preload
  BY <1>1, <1>t DEF Start, Preload, shared, iVars, bVars, FeederOK
<1>2. CASE \E p \in SeekTargets : Seek(p)
  BY <1>2, <1>t DEF Seek, bVars, FeederOK
<1>3. CASE Stop
  BY <1>3, <1>t DEF Stop, StopFor, bVars, FeederOK
<1>4. CASE \E t \in 1 .. LastTrack : Skip(t)
  BY <1>4, <1>t DEF Skip, StopFor, bVars, FeederOK
<1>5. CASE Pause
  BY <1>5, <1>t DEF Pause, bVars, FeederOK
<1>6. CASE Resume
  BY <1>6, <1>t DEF Resume, bVars, FeederOK
<1>7. CASE PostArg \/ PostCmd \/ PostSeq \/ WaitOpen \/ WaitSeek \/ ZeroRd
  BY <1>7, <1>t
     DEF PostArg, PostCmd, PostSeq, WaitOpen, WaitSeek, ZeroRd, shared, iVars,
         bVars, FeederOK
<1>8. CASE WaitClose
  BY <1>8, <1>t DEF WaitClose, bVars, FeederOK
<1>9. CASE ZeroWr \/ RunB \/ FinishPreload \/ FinishNext \/ FinishStop
  BY <1>9, <1>t
     DEF ZeroWr, RunB, FinishPreload, FinishNext, FinishStop, shared, iVars,
         bVars, FeederOK
<1>10. CASE FinishStart
  BY <1>10, <1>t, StreamTypes DEF FinishStart, shared, bVars, FeederOK, AOK
<1>11. CASE FinishSeek
  BY <1>11, <1>t, StreamTypes DEF FinishSeek, bVars, FeederOK, AOK
<1>12. CASE SnapRd \/ SnapWr \/ SnapEof \/ DecideNext \/ DecideReformat
            \/ DecideGoOn
  BY <1>12, <1>t
     DEF SnapRd, SnapWr, SnapEof, DecideNext, DecideReformat, DecideGoOn,
         shared, iVars, bVars, FeederOK
<1>13. CASE DecideError
  BY <1>13, <1>t DEF DecideError, StopFor, bVars, FeederOK
<1>14. CASE DecideRestart
  BY <1>14, <1>t DEF DecideRestart, StopFor, bVars, FeederOK
<1>15. CASE DecideEnd
  BY <1>15, <1>t DEF DecideEnd, StopFor, bVars, FeederOK
<1>16. CASE IsrFire
  BY <1>16, <1>t DEF IsrFire, shared, aVars, bVars, FeederOK
<1>17. CASE IsrCopy
  <2>1. rd % RingFrames \in 0 .. RingFrames - 1
    <3>1. rd \in Int
      BY <1>t DEF SharedOK, Counters
    <3> QED BY <3>1, PcmConstants, ModRange
  <2>2. heard' \in Frames
    BY <1>17, <1>t, <2>1 DEF IsrCopy, SharedOK
  <2>3. due' \in Nat \X (0 .. TrackFrames - 1)
    BY <1>17, <1>t, FrameTypes DEF IsrCopy, FeederOK
  <2> QED BY <1>17, <1>t, <2>2, <2>3 DEF IsrCopy, FeederOK
<1>18. CASE IsrMask
  BY <1>18, <1>t DEF IsrMask, shared, aVars, bVars, FeederOK
<1>19. CASE BSeq \/ BCmd \/ BOpen \/ BSeek \/ BClose \/ BAck
  BY <1>19, <1>t
     DEF BSeq, BCmd, BOpen, BSeek, BClose, BAck, shared, aVars, iVars, FeederOK
<1>20. CASE BState \/ BLoadRd \/ BLoadWr \/ BDecodeError \/ BDecode \/ BWrite
  BY <1>20, <1>t
     DEF BState, BLoadRd, BLoadWr, BDecodeError, BDecode, BWrite, shared,
         aVars, iVars, FeederOK
<1>21. CASE BPublish
  BY <1>21, <1>t DEF BPublish, aVars, iVars, FeederOK
<1>22. CASE BArm
  BY <1>22, <1>t DEF BArm, shared, aVars, FeederOK
<1> QED BY <1>1, <1>2, <1>3, <1>4, <1>5, <1>6, <1>7, <1>8, <1>9, <1>10, <1>11,
      <1>12, <1>13, <1>14, <1>15, <1>16, <1>17, <1>18, <1>19, <1>20, <1>21,
      <1>22
    DEF Next, User, Operation, Process, Interrupt, CoreB, Command, Round

(* Steps keep the types of what Core B remembers.                          *)
LEMMA CoreTypes ==
    ASSUME TInv, Next
    PROVE  CoreOK'
<1>t. SharedOK /\ AOK /\ FeederOK /\ CoreOK /\ InRange
  BY Types
<1>1. CASE (\E p \in SeekTargets \cup {0} : Start(p)) \/ Preload
            \/ (\E p \in SeekTargets : Seek(p)) \/ Stop
            \/ (\E t \in 1 .. LastTrack : Skip(t)) \/ Pause
  BY <1>1, <1>t
     DEF Start, Preload, Seek, Stop, StopFor, Skip, Pause, shared, iVars,
         bVars, CoreOK
<1>2. CASE Resume
  BY <1>2, <1>t DEF Resume, bVars, CoreOK
<1>3. CASE PostArg \/ PostCmd \/ WaitOpen \/ WaitSeek \/ WaitClose \/ ZeroRd
  BY <1>3, <1>t
     DEF PostArg, PostCmd, WaitOpen, WaitSeek, WaitClose, ZeroRd, shared,
         iVars, bVars, CoreOK
<1>4. CASE PostSeq
  <2>1. bseq \in 0 .. seq + 1
    BY <1>t DEF CoreOK, SharedOK
  <2> QED BY <1>4, <1>t, <2>1 DEF PostSeq, CoreOK, bVars
<1>5. CASE ZeroWr \/ RunB \/ FinishStart \/ FinishPreload \/ FinishSeek
            \/ FinishNext
  BY <1>5, <1>t
     DEF ZeroWr, RunB, FinishStart, FinishPreload, FinishSeek, FinishNext,
         shared, iVars, bVars, CoreOK
<1>6. CASE FinishStop
  BY <1>6, <1>t DEF FinishStop, shared, iVars, bVars, CoreOK
<1>7. CASE SnapRd \/ SnapWr \/ SnapEof \/ DecideError \/ DecideNext
            \/ DecideRestart
  BY <1>7, <1>t
     DEF SnapRd, SnapWr, SnapEof, DecideError, StopFor, DecideNext,
         DecideRestart, shared, iVars, bVars, CoreOK
<1>8. CASE DecideReformat \/ DecideEnd \/ DecideGoOn
  BY <1>8, <1>t
     DEF DecideReformat, DecideEnd, StopFor, DecideGoOn, shared, iVars, bVars,
         CoreOK
<1>9. CASE IsrFire \/ IsrCopy \/ IsrMask
  BY <1>9, <1>t DEF IsrFire, IsrCopy, IsrMask, shared, aVars, bVars, CoreOK
<1>10. CASE BSeq
  <2>1. seq \in 0 .. seq
    BY <1>t DEF SharedOK
  <2> QED BY <1>10, <1>t, <2>1 DEF BSeq, CoreOK, shared
<1>11. CASE BCmd
  BY <1>11, <1>t DEF BCmd, shared, aVars, iVars, CoreOK, SharedOK
<1>12. CASE BOpen
  <2>1. codec' \in Streams
    BY <1>12, <1>t, Zeros, MovedTypes DEF BOpen, SharedOK
  <2>2. btrim' \in 0 .. LastTrack
    BY <1>12, <1>t DEF BOpen, SharedOK, CoreOK
  <2> QED BY <1>12, <1>t, <2>1, <2>2, Zeros DEF BOpen, CoreOK
<1>13. CASE BSeek
  <2>1. codec' \in Streams
    <3>1. codec \in Streams /\ arg \in Streams
      BY <1>t DEF SharedOK, CoreOK
    <3>2. codec.track \in 0 .. LastTrack
      BY <3>1, MovedTypes
    <3>3. [arg EXCEPT !.track = codec.track] \in Streams
      BY <3>1, <3>2, MovedTypes
    <3> QED BY <1>13, <3>1, <3>3 DEF BSeek
  <2>2. btrim' \in 0 .. LastTrack
    BY <1>13, <1>t DEF BSeek, SharedOK, CoreOK
  <2> QED BY <1>13, <1>t, <2>1, <2>2, Zeros DEF BSeek, CoreOK
<1>14. CASE BClose
  BY <1>14, <1>t, Zeros DEF BClose, aVars, iVars, CoreOK
<1>15. CASE BAck
  BY <1>15, <1>t DEF BAck, aVars, iVars, CoreOK
<1>16. CASE BState
  BY <1>16, <1>t DEF BState, shared, aVars, iVars, CoreOK
<1>17. CASE BLoadRd
  BY <1>17, <1>t DEF BLoadRd, shared, aVars, iVars, CoreOK, SharedOK
<1>18. CASE BLoadWr
  BY <1>18, <1>t DEF BLoadWr, shared, aVars, iVars, CoreOK, SharedOK
<1>19. CASE BDecodeError
  BY <1>19, <1>t DEF BDecodeError, aVars, iVars, CoreOK
<1>20. CASE BDecode
  BY <1>20, <1>t, DecodeIs DEF BDecode, aVars, iVars, CoreOK
<1>21. CASE BWrite
  BY <1>21, <1>t DEF BWrite, aVars, iVars, CoreOK
<1>22. CASE BPublish
  BY <1>22, <1>t DEF BPublish, aVars, iVars, CoreOK
<1>23. CASE BArm
  BY <1>23, <1>t, Zeros DEF BArm, shared, aVars, CoreOK
<1> QED BY <1>1, <1>2, <1>3, <1>4, <1>5, <1>6, <1>7, <1>8, <1>9, <1>10, <1>11,
      <1>12, <1>13, <1>14, <1>15, <1>16, <1>17, <1>18, <1>19, <1>20, <1>21,
      <1>22, <1>23
    DEF Next, User, Operation, Process, Interrupt, CoreB, Command, Round

(* Steps keep positions and counts in range.                               *)
LEMMA RangesKept ==
    ASSUME TInv, Next
    PROVE  InRange'
<1>t. SharedOK /\ AOK /\ FeederOK /\ CoreOK /\ InRange
  BY Types
<1>1. CASE (\E p \in SeekTargets \cup {0} : Start(p)) \/ Preload
            \/ (\E p \in SeekTargets : Seek(p)) \/ Stop
            \/ (\E t \in 1 .. LastTrack : Skip(t)) \/ Pause
  BY <1>1, <1>t
     DEF Start, Preload, Seek, Stop, StopFor, Skip, Pause, shared, iVars,
         bVars, InRange, RoundPcs
<1>2. CASE Resume
  BY <1>2, <1>t DEF Resume, bVars, InRange, RoundPcs
<1>3. CASE PostArg \/ PostCmd \/ PostSeq \/ WaitOpen \/ WaitSeek \/ WaitClose
  BY <1>3, <1>t
     DEF PostArg, PostCmd, PostSeq, WaitOpen, WaitSeek, WaitClose, shared,
         iVars, bVars, InRange, RoundPcs
<1>4. CASE ZeroRd \/ ZeroWr \/ RunB \/ FinishStart \/ FinishPreload
            \/ FinishSeek
  BY <1>4, <1>t
     DEF ZeroRd, ZeroWr, RunB, FinishStart, FinishPreload, FinishSeek, shared,
         iVars, bVars, InRange, RoundPcs
<1>5. CASE FinishNext \/ FinishStop
  BY <1>5, <1>t
     DEF FinishNext, FinishStop, shared, iVars, bVars, InRange, RoundPcs
<1>6. CASE SnapRd \/ SnapWr \/ SnapEof \/ DecideError \/ DecideNext
            \/ DecideRestart
  BY <1>6, <1>t
     DEF SnapRd, SnapWr, SnapEof, DecideError, StopFor, DecideNext,
         DecideRestart, shared, iVars, bVars, InRange, RoundPcs
<1>7. CASE DecideReformat \/ DecideEnd \/ DecideGoOn
  BY <1>7, <1>t
     DEF DecideReformat, DecideEnd, StopFor, DecideGoOn, shared, iVars, bVars,
         InRange, RoundPcs
<1>8. CASE IsrFire \/ IsrCopy \/ IsrMask
  BY <1>8, <1>t
     DEF IsrFire, IsrCopy, IsrMask, shared, aVars, bVars, InRange, RoundPcs
<1>9. CASE BSeq
  BY <1>9, <1>t DEF BSeq, shared, aVars, iVars, InRange, RoundPcs
<1>10. CASE BCmd
  BY <1>10, <1>t DEF BCmd, shared, aVars, iVars, InRange, RoundPcs
<1>11. CASE BOpen
  <2>1. codec' # None => bemit' = 0 /\ codec'.pos = 0 /\ beof' = FALSE
    <3>1. [arg EXCEPT !.pos = 0].pos = 0
      BY <1>t DEF SharedOK, Streams
    <3> QED BY <1>11, <3>1 DEF BOpen
  <2> QED BY <1>11, <1>t, <2>1 DEF BOpen, InRange, RoundPcs
<1>12. CASE BSeek
  <2>1. codec' # None => bemit' = 0 /\ codec'.pos \in Nat /\ beof' = FALSE
    <3>1. [arg EXCEPT !.track = codec.track].pos \in Nat
      BY <1>t DEF SharedOK, Streams
    <3> QED BY <1>12, <3>1 DEF BSeek
  <2> QED BY <1>12, <1>t, <2>1 DEF BSeek, InRange, RoundPcs
<1>13. CASE BClose
  BY <1>13, <1>t DEF BClose, aVars, iVars, InRange, RoundPcs
<1>14. CASE BAck
  BY <1>14, <1>t DEF BAck, aVars, iVars, InRange, RoundPcs
<1>15. CASE BState
  BY <1>15, <1>t DEF BState, shared, aVars, iVars, InRange, RoundPcs
<1>16. CASE BLoadRd
  BY <1>16, <1>t DEF BLoadRd, shared, aVars, iVars, InRange, RoundPcs
<1>17. CASE BLoadWr
  BY <1>17, <1>t DEF BLoadWr, shared, aVars, iVars, InRange, RoundPcs
<1>18. CASE BDecodeError
  BY <1>18, <1>t DEF BDecodeError, aVars, iVars, InRange, RoundPcs
<1>19. CASE BDecode
  <2>1. /\ bgot' # 0 => 0 < bgot' /\ bgot' <= codec'.pos
        /\ bemit' <= codec'.pos /\ codec'.pos \in 0 .. TrackFrames
    BY <1>19, DecodeIs, PcmConstants
  <2>2. codec' # None
    <3>1. CASE bgot' = 0
      <4>1. codec # None
        BY <1>19, <1>t DEF BDecode, InRange, RoundPcs
      <4>2. codec \in Streams /\ codec' = [codec EXCEPT !.pos = codec.pos + 0] /\ codec.pos \in Nat
        BY <1>19, <3>1, DecodeIs
      <4>3. codec' = codec
        BY <4>2 DEF Streams
      <4> QED BY <4>1, <4>3
    <3>2. CASE bgot' # 0
      BY <1>19, <3>2, <2>1, DecodeIs DEF None
    <3> QED BY <3>1, <3>2
  <2>3. beof' => codec'.pos = TrackFrames
    <3>1. ~beof
      BY <1>19, <1>t DEF BDecode, InRange
    <3>2. beof' => bgot' = 0 \/ bemit' >= TrackFrames
      BY <1>19, <3>1 DEF BDecode
    <3>3. bgot' = 0 => codec'.pos = TrackFrames
      BY <1>19, DecodeIs
    <3>4. bemit' >= TrackFrames => codec'.pos = TrackFrames
      BY <1>19, <2>1, DecodeIs, PcmConstants
    <3> QED BY <3>2, <3>3, <3>4
  <2> QED BY <1>19, <1>t, <2>1, <2>2, <2>3 DEF BDecode, InRange, RoundPcs
<1>20. CASE BWrite
  BY <1>20, <1>t DEF BWrite, aVars, iVars, InRange, RoundPcs
<1>21. CASE BPublish
  BY <1>21, <1>t DEF BPublish, aVars, iVars, InRange, RoundPcs
<1>22. CASE BArm
  BY <1>22, <1>t DEF BArm, shared, aVars, InRange, RoundPcs
<1> QED BY <1>1, <1>2, <1>3, <1>4, <1>5, <1>6, <1>7, <1>8, <1>9, <1>10, <1>11,
      <1>12, <1>13, <1>14, <1>15, <1>16, <1>17, <1>18, <1>19, <1>20, <1>21,
      <1>22
    DEF Next, User, Operation, Process, Interrupt, CoreB, Command, Round

(* A step keeps the types, whatever faults happen.                         *)
LEMMA TypesKept == TInv /\ [Next]_vars => TInv'
<1> SUFFICES ASSUME TInv, [Next]_vars PROVE TInv'
  OBVIOUS
<1>1. CASE Next
  BY <1>1, SharedTypes, ATypes, FeederTypes, CoreTypes, RangesKept DEF TInv, TypeOK
<1>2. CASE UNCHANGED vars
  BY <1>2 DEF TInv, TypeOK, SharedOK, AOK, FeederOK, CoreOK, InRange, vars, shared, aVars,
        iVars, bVars
<1> QED BY <1>1, <1>2

(* Every variable keeps its type, whatever faults happen: in particular the *)
(* counters stay within their word and no frame outside a track is written.*)
THEOREM PcmTypes == Spec => []TypeOK
<1>1. TInv => TypeOK
  BY DEF TInv
<1> QED BY <1>1, InitTypes, TypesKept, PTL DEF Spec

-----------------------------------------------------------------------------
(* Which step of which operation is where, on both cores.                  *)

(* The parts of the invariant.                                             *)
LEMMA Parts ==
    ASSUME IInv
    PROVE  /\ SharedOK /\ AOK /\ FeederOK /\ CoreOK /\ InRange
           /\ Steps /\ Outstanding /\ Feeding /\ Parked /\ Opening /\ Going
           /\ Indices /\ Contents /\ Trimmed
BY Types DEF IInv, Kept

(* If no wait runs out, a wait that is over was answered.                  *)
LEMMA Waited ==
    ASSUME Patient, WaitOver
    PROVE  apc = "wait" /\ isr = "off" /\ ack = seq
<1>1. TimeoutOf(aop) \in {"open_timeout", "seek_timeout", "close_timeout"}
  BY DEF TimeoutOf
<1> QED BY <1>1 DEF WaitOver, Answered, Patient

(* Every step of an operation is followed by one that belongs to it.       *)
LEMMA StepsKept ==
    ASSUME IInv, Patient, Next
    PROVE  Steps'
<1>t. SharedOK /\ AOK /\ FeederOK /\ CoreOK /\ InRange
  BY Parts
<1>k. /\ Steps /\ Outstanding /\ Feeding /\ Parked /\ Opening /\ Going
      /\ Indices /\ Contents /\ Trimmed
  BY Parts
<1>1. CASE \E p \in SeekTargets \cup {0} : Start(p)
  BY <1>1, <1>k DEF Start, AtRest, iVars, bVars, Steps, StartOps, StopOps
<1>2. CASE Preload
  BY <1>2, <1>k
     DEF Preload, AtRest, shared, iVars, bVars, Steps, StartOps, StopOps
<1>3. CASE \E p \in SeekTargets : Seek(p)
  BY <1>3, <1>k DEF Seek, AtRest, bVars, Steps, StartOps, StopOps
<1>4. CASE Stop
  BY <1>4, <1>k DEF Stop, StopFor, AtRest, bVars, Steps, StartOps, StopOps
<1>5. CASE \E t \in 1 .. LastTrack : Skip(t)
  BY <1>5, <1>k DEF Skip, StopFor, AtRest, bVars, Steps, StartOps, StopOps
<1>6. CASE Pause
  BY <1>6, <1>k DEF Pause, AtRest, bVars, Steps, StartOps, StopOps
<1>7. CASE Resume
  BY <1>7, <1>k DEF Resume, AtRest, bVars, Steps, StartOps, StopOps
<1>8. CASE PostArg
  BY <1>8, <1>k DEF PostArg, iVars, bVars, Steps, StartOps, StopOps
<1>9. CASE PostCmd
  BY <1>9, <1>k DEF PostCmd, iVars, bVars, Steps, StartOps, StopOps
<1>10. CASE PostSeq
  BY <1>10, <1>k DEF PostSeq, iVars, bVars, Steps, StartOps, StopOps
<1>11. CASE WaitOpen
  BY <1>11, <1>k, Waited
     DEF WaitOpen, Opened, Answered, shared, iVars, bVars, Steps, StartOps,
         StopOps
<1>12. CASE WaitSeek
  BY <1>12, <1>k, Waited
     DEF WaitSeek, shared, iVars, bVars, Steps, StartOps, StopOps
<1>13. CASE WaitClose
  BY <1>13, <1>k, Waited DEF WaitClose, bVars, Steps, StartOps, StopOps
<1>14. CASE ZeroRd
  BY <1>14, <1>k DEF ZeroRd, iVars, bVars, Steps, StartOps, StopOps
<1>15. CASE ZeroWr
  BY <1>15, <1>k DEF ZeroWr, iVars, bVars, Steps, StartOps, StopOps
<1>16. CASE RunB
  BY <1>16, <1>k DEF RunB, iVars, bVars, Steps, StartOps, StopOps
<1>17. CASE FinishStart
  BY <1>17, <1>k
     DEF FinishStart, Finished, shared, bVars, Steps, StartOps, StopOps
<1>18. CASE FinishPreload
  BY <1>18, <1>k
     DEF FinishPreload, Finished, shared, iVars, bVars, Steps, StartOps,
         StopOps
<1>19. CASE FinishSeek
  BY <1>19, <1>k DEF FinishSeek, Finished, bVars, Steps, StartOps, StopOps
<1>20. CASE FinishNext
  BY <1>20, <1>k
     DEF FinishNext, Finished, shared, iVars, bVars, Steps, StartOps, StopOps
<1>21. CASE FinishStop
  BY <1>21, <1>k
     DEF FinishStop, Finished, shared, iVars, bVars, Steps, StartOps, StopOps
<1>22. CASE SnapRd
  BY <1>22, <1>k
     DEF SnapRd, AtRest, shared, iVars, bVars, Steps, StartOps, StopOps
<1>23. CASE SnapWr
  BY <1>23, <1>k DEF SnapWr, shared, iVars, bVars, Steps, StartOps, StopOps
<1>24. CASE SnapEof
  BY <1>24, <1>k DEF SnapEof, shared, iVars, bVars, Steps, StartOps, StopOps
<1>25. CASE DecideError
  BY <1>25, <1>k
     DEF DecideError, StopFor, Deciding, bVars, Steps, StartOps, StopOps
<1>26. CASE DecideNext
  BY <1>26, <1>k
     DEF DecideNext, Deciding, NewEof, iVars, bVars, Steps, StartOps, StopOps
<1>27. CASE DecideRestart
  BY <1>27, <1>k
     DEF DecideRestart, StopFor, Deciding, NewEof, bVars, Steps, StartOps,
         StopOps
<1>28. CASE DecideReformat
  BY <1>28, <1>k
     DEF DecideReformat, Deciding, NewEof, shared, iVars, bVars, Steps,
         StartOps, StopOps
<1>29. CASE DecideEnd
  BY <1>29, <1>k
     DEF DecideEnd, StopFor, Boundary, Deciding, bVars, Steps, StartOps,
         StopOps
<1>30. CASE DecideGoOn
  BY <1>30, <1>k
     DEF DecideGoOn, Boundary, Deciding, shared, iVars, bVars, Steps, StartOps,
         StopOps
<1>31. CASE IsrFire \/ IsrCopy \/ IsrMask
  BY <1>31, <1>k
     DEF IsrFire, IsrCopy, IsrMask, shared, aVars, bVars, Steps, StartOps,
         StopOps
<1>32. CASE BSeq \/ BCmd \/ BOpen \/ BSeek \/ BClose \/ BAck
  BY <1>32, <1>k
     DEF BSeq, BCmd, BOpen, BSeek, BClose, BAck, shared, aVars, iVars, Steps,
         StartOps, StopOps
<1>33. CASE BState \/ BLoadRd \/ BLoadWr \/ BDecodeError \/ BDecode \/ BWrite
  BY <1>33, <1>k
     DEF BState, BLoadRd, BLoadWr, BDecodeError, BDecode, BWrite, shared,
         aVars, iVars, Steps, StartOps, StopOps
<1>34. CASE BPublish \/ BArm
  BY <1>34, <1>k
     DEF BPublish, BArm, shared, aVars, iVars, Steps, StartOps, StopOps
<1> QED BY <1>1, <1>2, <1>3, <1>4, <1>5, <1>6, <1>7, <1>8, <1>9, <1>10, <1>11,
      <1>12, <1>13, <1>14, <1>15, <1>16, <1>17, <1>18, <1>19, <1>20, <1>21,
      <1>22, <1>23, <1>24, <1>25, <1>26, <1>27, <1>28, <1>29, <1>30, <1>31,
      <1>32, <1>33, <1>34
    DEF Next, User, Operation, Process, Interrupt, CoreB, Command, Round

(* No step posts a command while one is unanswered, or lets B read half of *)
(* one.                                                                    *)
LEMMA OutstandingKept ==
    ASSUME IInv, Patient, Next
    PROVE  Outstanding'
<1>t. SharedOK /\ AOK /\ FeederOK /\ CoreOK /\ InRange
  BY Parts
<1>k. /\ Steps /\ Outstanding /\ Feeding /\ Parked /\ Opening /\ Going
      /\ Indices /\ Contents /\ Trimmed
  BY Parts
<1>1. CASE \E p \in SeekTargets \cup {0} : Start(p)
  BY <1>1, <1>k
     DEF Start, AtRest, iVars, bVars, Outstanding, StartOps, StopOps,
         CommandPcs
<1>2. CASE Preload
  BY <1>2, <1>k
     DEF Preload, AtRest, shared, iVars, bVars, Outstanding, StartOps, StopOps,
         CommandPcs
<1>3. CASE \E p \in SeekTargets : Seek(p)
  BY <1>3, <1>k
     DEF Seek, AtRest, bVars, Outstanding, StartOps, StopOps, CommandPcs
<1>4. CASE Stop
  BY <1>4, <1>k
     DEF Stop, StopFor, AtRest, bVars, Outstanding, StartOps, StopOps,
         CommandPcs
<1>5. CASE \E t \in 1 .. LastTrack : Skip(t)
  BY <1>5, <1>k
     DEF Skip, StopFor, AtRest, bVars, Outstanding, StartOps, StopOps,
         CommandPcs
<1>6. CASE Pause \/ Resume
  BY <1>6, <1>k
     DEF Pause, AtRest, Resume, bVars, Outstanding, StartOps, StopOps,
         CommandPcs
<1>7. CASE PostArg
  BY <1>7, <1>k
     DEF PostArg, iVars, bVars, Outstanding, StartOps, StopOps, CommandPcs
<1>8. CASE PostCmd
  BY <1>8, <1>k, <1>t
     DEF PostCmd, iVars, bVars, Outstanding, StartOps, StopOps, CommandPcs,
         SharedOK
<1>9. CASE PostSeq
  BY <1>9, <1>k, <1>t
     DEF PostSeq, iVars, bVars, Outstanding, StartOps, StopOps, CommandPcs,
         SharedOK
<1>10. CASE WaitOpen
  BY <1>10, <1>k, Waited
     DEF WaitOpen, Opened, Answered, shared, iVars, bVars, Outstanding,
         StartOps, StopOps, CommandPcs
<1>11. CASE WaitSeek
  BY <1>11, <1>k, Waited
     DEF WaitSeek, shared, iVars, bVars, Outstanding, StartOps, StopOps,
         CommandPcs
<1>12. CASE WaitClose
  BY <1>12, <1>k, Waited
     DEF WaitClose, bVars, Outstanding, StartOps, StopOps, CommandPcs
<1>13. CASE ZeroRd
  BY <1>13, <1>k
     DEF ZeroRd, iVars, bVars, Outstanding, StartOps, StopOps, CommandPcs
<1>14. CASE ZeroWr
  BY <1>14, <1>k
     DEF ZeroWr, iVars, bVars, Outstanding, StartOps, StopOps, CommandPcs
<1>15. CASE RunB
  BY <1>15, <1>k
     DEF RunB, iVars, bVars, Outstanding, StartOps, StopOps, CommandPcs
<1>16. CASE FinishStart
  BY <1>16, <1>k
     DEF FinishStart, Finished, shared, bVars, Outstanding, StartOps, StopOps,
         CommandPcs
<1>17. CASE FinishPreload
  BY <1>17, <1>k
     DEF FinishPreload, Finished, shared, iVars, bVars, Outstanding, StartOps,
         StopOps, CommandPcs
<1>18. CASE FinishSeek
  BY <1>18, <1>k
     DEF FinishSeek, Finished, bVars, Outstanding, StartOps, StopOps,
         CommandPcs
<1>19. CASE FinishNext
  BY <1>19, <1>k
     DEF FinishNext, Finished, shared, iVars, bVars, Outstanding, StartOps,
         StopOps, CommandPcs
<1>20. CASE FinishStop
  BY <1>20, <1>k
     DEF FinishStop, Finished, shared, iVars, bVars, Outstanding, StartOps,
         StopOps, CommandPcs
<1>21. CASE SnapRd
  BY <1>21, <1>k
     DEF SnapRd, AtRest, shared, iVars, bVars, Outstanding, StartOps, StopOps,
         CommandPcs
<1>22. CASE SnapWr
  BY <1>22, <1>k
     DEF SnapWr, shared, iVars, bVars, Outstanding, StartOps, StopOps,
         CommandPcs
<1>23. CASE SnapEof
  BY <1>23, <1>k
     DEF SnapEof, shared, iVars, bVars, Outstanding, StartOps, StopOps,
         CommandPcs
<1>24. CASE DecideError
  BY <1>24, <1>k
     DEF DecideError, StopFor, Deciding, bVars, Outstanding, StartOps, StopOps,
         CommandPcs
<1>25. CASE DecideNext
  BY <1>25, <1>k
     DEF DecideNext, Deciding, NewEof, iVars, bVars, Outstanding, StartOps,
         StopOps, CommandPcs
<1>26. CASE DecideRestart
  BY <1>26, <1>k
     DEF DecideRestart, StopFor, Deciding, NewEof, bVars, Outstanding,
         StartOps, StopOps, CommandPcs
<1>27. CASE DecideReformat
  BY <1>27, <1>k
     DEF DecideReformat, Deciding, NewEof, shared, iVars, bVars, Outstanding,
         StartOps, StopOps, CommandPcs
<1>28. CASE DecideEnd
  BY <1>28, <1>k
     DEF DecideEnd, StopFor, Boundary, Deciding, bVars, Outstanding, StartOps,
         StopOps, CommandPcs
<1>29. CASE DecideGoOn
  BY <1>29, <1>k
     DEF DecideGoOn, Boundary, Deciding, shared, iVars, bVars, Outstanding,
         StartOps, StopOps, CommandPcs
<1>30. CASE IsrFire \/ IsrCopy \/ IsrMask
  BY <1>30, <1>k
     DEF IsrFire, IsrCopy, IsrMask, shared, aVars, bVars, Outstanding,
         StartOps, StopOps, CommandPcs
<1>31. CASE BSeq
  BY <1>31, <1>k, <1>t
     DEF BSeq, shared, aVars, iVars, Outstanding, StartOps, StopOps,
         CommandPcs, SharedOK
<1>32. CASE BCmd
  BY <1>32, <1>k
     DEF BCmd, shared, aVars, iVars, Outstanding, StartOps, StopOps, CommandPcs
<1>33. CASE BOpen
  BY <1>33, <1>k
     DEF BOpen, aVars, iVars, Outstanding, StartOps, StopOps, CommandPcs
<1>34. CASE BSeek
  BY <1>34, <1>k
     DEF BSeek, aVars, iVars, Outstanding, StartOps, StopOps, CommandPcs
<1>35. CASE BClose
  BY <1>35, <1>k
     DEF BClose, aVars, iVars, Outstanding, StartOps, StopOps, CommandPcs
<1>36. CASE BAck
  BY <1>36, <1>k, <1>t
     DEF BAck, aVars, iVars, Outstanding, StartOps, StopOps, CommandPcs,
         SharedOK
<1>37. CASE BState
  BY <1>37, <1>k
     DEF BState, shared, aVars, iVars, Outstanding, StartOps, StopOps,
         CommandPcs
<1>38. CASE BLoadRd
  BY <1>38, <1>k
     DEF BLoadRd, shared, aVars, iVars, Outstanding, StartOps, StopOps,
         CommandPcs
<1>39. CASE BLoadWr
  BY <1>39, <1>k
     DEF BLoadWr, shared, aVars, iVars, Outstanding, StartOps, StopOps,
         CommandPcs
<1>40. CASE BDecodeError
  BY <1>40, <1>k
     DEF BDecodeError, aVars, iVars, Outstanding, StartOps, StopOps, CommandPcs
<1>41. CASE BDecode
  BY <1>41, <1>k
     DEF BDecode, aVars, iVars, Outstanding, StartOps, StopOps, CommandPcs
<1>42. CASE BWrite
  BY <1>42, <1>k
     DEF BWrite, aVars, iVars, Outstanding, StartOps, StopOps, CommandPcs
<1>43. CASE BPublish
  BY <1>43, <1>k
     DEF BPublish, aVars, iVars, Outstanding, StartOps, StopOps, CommandPcs
<1>44. CASE BArm
  BY <1>44, <1>k
     DEF BArm, shared, aVars, Outstanding, StartOps, StopOps, CommandPcs
<1> QED BY <1>1, <1>2, <1>3, <1>4, <1>5, <1>6, <1>7, <1>8, <1>9, <1>10, <1>11,
      <1>12, <1>13, <1>14, <1>15, <1>16, <1>17, <1>18, <1>19, <1>20, <1>21,
      <1>22, <1>23, <1>24, <1>25, <1>26, <1>27, <1>28, <1>29, <1>30, <1>31,
      <1>32, <1>33, <1>34, <1>35, <1>36, <1>37, <1>38, <1>39, <1>40, <1>41,
      <1>42, <1>43, <1>44
    DEF Next, User, Operation, Process, Interrupt, CoreB, Command, Round

(* What B executes is the command the AP waits for.                        *)
LEMMA Executing ==
    ASSUME IInv, bpc = "exec"
    PROVE  /\ apc = "wait" /\ ack # seq
           /\ bcmd.op \in {"open", "next"} =>
                 aop \in {"start", "preload", "next"} /\ arg = goal
           /\ bcmd.op = "open" => aop \in {"start", "preload"}
           /\ bcmd.op = "next" => aop = "next"
           /\ bcmd.op = "seek" => aop \in {"seek", "startat"} /\ arg = goal
           /\ bcmd.op = "close" => aop \in StopOps
<1>1. apc = "wait" /\ ack # seq /\ bcmd = cmd /\ cmd = [op |-> CommandOf(aop), tag |-> seq]
      /\ (aop \notin StopOps => arg = goal) /\ aop # "none"
  BY Parts DEF Outstanding, CommandPcs, Steps
<1>2. bcmd.op = CommandOf(aop)
  BY <1>1
<1> QED BY <1>1, <1>2, Parts DEF CommandOf, AOK, StopOps

(* Steps keep the feeder attached, held and B running when they should be. *)
LEMMA FeedingKept ==
    ASSUME IInv, Patient, Next
    PROVE  Feeding'
<1>t. SharedOK /\ AOK /\ FeederOK /\ CoreOK /\ InRange
  BY Parts
<1>k. /\ Steps /\ Outstanding /\ Feeding /\ Parked /\ Opening /\ Going
      /\ Indices /\ Contents /\ Trimmed
  BY Parts
<1>1. CASE \E p \in SeekTargets \cup {0} : Start(p)
  BY <1>1, <1>k
     DEF Start, AtRest, iVars, bVars, Feeding, StartOps, StopOps, Steps
<1>2. CASE Preload
  BY <1>2, <1>k
     DEF Preload, AtRest, shared, iVars, bVars, Feeding, StartOps, StopOps,
         Steps
<1>3. CASE \E p \in SeekTargets : Seek(p)
  BY <1>3, <1>k DEF Seek, AtRest, bVars, Feeding, StartOps, StopOps, Steps
<1>4. CASE Stop
  BY <1>4, <1>k
     DEF Stop, StopFor, AtRest, bVars, Feeding, StartOps, StopOps, Steps
<1>5. CASE \E t \in 1 .. LastTrack : Skip(t)
  BY <1>5, <1>k
     DEF Skip, StopFor, AtRest, bVars, Feeding, StartOps, StopOps, Steps
<1>6. CASE Pause
  BY <1>6, <1>k DEF Pause, AtRest, bVars, Feeding, StartOps, StopOps, Steps
<1>7. CASE Resume
  BY <1>7, <1>k DEF Resume, AtRest, bVars, Feeding, StartOps, StopOps, Steps
<1>8. CASE PostArg
  BY <1>8, <1>k DEF PostArg, iVars, bVars, Feeding, StartOps, StopOps, Steps
<1>9. CASE PostCmd
  BY <1>9, <1>k DEF PostCmd, iVars, bVars, Feeding, StartOps, StopOps, Steps
<1>10. CASE PostSeq
  BY <1>10, <1>k DEF PostSeq, iVars, bVars, Feeding, StartOps, StopOps, Steps
<1>11. CASE WaitOpen
  BY <1>11, <1>k, Waited
     DEF WaitOpen, Opened, Answered, shared, iVars, bVars, Feeding, StartOps,
         StopOps, Steps
<1>12. CASE WaitSeek
  BY <1>12, <1>k, Waited
     DEF WaitSeek, shared, iVars, bVars, Feeding, StartOps, StopOps, Steps
<1>13. CASE WaitClose
  BY <1>13, <1>k, Waited
     DEF WaitClose, bVars, Feeding, StartOps, StopOps, Steps
<1>14. CASE ZeroRd
  BY <1>14, <1>k DEF ZeroRd, iVars, bVars, Feeding, StartOps, StopOps, Steps
<1>15. CASE ZeroWr
  BY <1>15, <1>k DEF ZeroWr, iVars, bVars, Feeding, StartOps, StopOps, Steps
<1>16. CASE RunB
  BY <1>16, <1>k DEF RunB, iVars, bVars, Feeding, StartOps, StopOps, Steps
<1>17. CASE FinishStart
  BY <1>17, <1>k
     DEF FinishStart, Finished, shared, bVars, Feeding, StartOps, StopOps,
         Steps
<1>18. CASE FinishPreload
  BY <1>18, <1>k
     DEF FinishPreload, Finished, shared, iVars, bVars, Feeding, StartOps,
         StopOps, Steps
<1>19. CASE FinishSeek
  BY <1>19, <1>k
     DEF FinishSeek, Finished, bVars, Feeding, StartOps, StopOps, Steps
<1>20. CASE FinishNext
  BY <1>20, <1>k
     DEF FinishNext, Finished, shared, iVars, bVars, Feeding, StartOps,
         StopOps, Steps
<1>21. CASE FinishStop
  BY <1>21, <1>k
     DEF FinishStop, Finished, shared, iVars, bVars, Feeding, StartOps,
         StopOps, Steps
<1>22. CASE SnapRd
  BY <1>22, <1>k
     DEF SnapRd, AtRest, shared, iVars, bVars, Feeding, StartOps, StopOps,
         Steps
<1>23. CASE SnapWr
  BY <1>23, <1>k
     DEF SnapWr, shared, iVars, bVars, Feeding, StartOps, StopOps, Steps
<1>24. CASE SnapEof
  BY <1>24, <1>k
     DEF SnapEof, shared, iVars, bVars, Feeding, StartOps, StopOps, Steps
<1>25. CASE DecideError
  BY <1>25, <1>k
     DEF DecideError, StopFor, Deciding, bVars, Feeding, StartOps, StopOps,
         Steps
<1>26. CASE DecideNext
  BY <1>26, <1>k
     DEF DecideNext, Deciding, NewEof, iVars, bVars, Feeding, StartOps,
         StopOps, Steps
<1>27. CASE DecideRestart
  BY <1>27, <1>k
     DEF DecideRestart, StopFor, Deciding, NewEof, bVars, Feeding, StartOps,
         StopOps, Steps
<1>28. CASE DecideReformat
  BY <1>28, <1>k
     DEF DecideReformat, Deciding, NewEof, shared, iVars, bVars, Feeding,
         StartOps, StopOps, Steps
<1>29. CASE DecideEnd
  BY <1>29, <1>k
     DEF DecideEnd, StopFor, Boundary, Deciding, bVars, Feeding, StartOps,
         StopOps, Steps
<1>30. CASE DecideGoOn
  BY <1>30, <1>k
     DEF DecideGoOn, Boundary, Deciding, shared, iVars, bVars, Feeding,
         StartOps, StopOps, Steps
<1>31. CASE IsrFire
  BY <1>31, <1>k
     DEF IsrFire, shared, aVars, bVars, Feeding, StartOps, StopOps, Steps
<1>32. CASE IsrCopy
  BY <1>32, <1>k DEF IsrCopy, aVars, bVars, Feeding, StartOps, StopOps, Steps
<1>33. CASE IsrMask
  BY <1>33, <1>k
     DEF IsrMask, shared, aVars, bVars, Feeding, StartOps, StopOps, Steps
<1>34. CASE BSeq \/ BCmd \/ BOpen \/ BSeek \/ BClose \/ BAck
  BY <1>34, <1>k
     DEF BSeq, BCmd, BOpen, BSeek, BClose, BAck, shared, aVars, iVars, Feeding,
         StartOps, StopOps, Steps
<1>35. CASE BState \/ BLoadRd \/ BLoadWr \/ BDecodeError \/ BDecode \/ BWrite
  BY <1>35, <1>k
     DEF BState, BLoadRd, BLoadWr, BDecodeError, BDecode, BWrite, shared,
         aVars, iVars, Feeding, StartOps, StopOps, Steps
<1>36. CASE BPublish \/ BArm
  BY <1>36, <1>k
     DEF BPublish, BArm, shared, aVars, iVars, Feeding, StartOps, StopOps,
         Steps
<1> QED BY <1>1, <1>2, <1>3, <1>4, <1>5, <1>6, <1>7, <1>8, <1>9, <1>10, <1>11,
      <1>12, <1>13, <1>14, <1>15, <1>16, <1>17, <1>18, <1>19, <1>20, <1>21,
      <1>22, <1>23, <1>24, <1>25, <1>26, <1>27, <1>28, <1>29, <1>30, <1>31,
      <1>32, <1>33, <1>34, <1>35, <1>36
    DEF Next, User, Operation, Process, Interrupt, CoreB, Command, Round

(* No step parks B in the middle of a round, except to ask for a seek.     *)
LEMMA ParkedKept ==
    ASSUME IInv, Patient, Next
    PROVE  Parked'
<1>t. SharedOK /\ AOK /\ FeederOK /\ CoreOK /\ InRange
  BY Parts
<1>k. /\ Steps /\ Outstanding /\ Feeding /\ Parked /\ Opening /\ Going
      /\ Indices /\ Contents /\ Trimmed
  BY Parts
<1>1. CASE \E p \in SeekTargets \cup {0} : Start(p)
  BY <1>1, <1>k
     DEF Start, AtRest, iVars, bVars, Parked, StartOps, StopOps, RoundPcs,
         Asking, Handled, Steps, Feeding, Outstanding
<1>2. CASE Preload
  BY <1>2, <1>k
     DEF Preload, AtRest, shared, iVars, bVars, Parked, StartOps, StopOps,
         RoundPcs, Asking, Handled, Steps, Feeding, Outstanding
<1>3. CASE \E p \in SeekTargets : Seek(p)
  BY <1>3, <1>k
     DEF Seek, AtRest, bVars, Parked, StartOps, StopOps, RoundPcs, Asking,
         Handled, Steps, Feeding, Outstanding
<1>4. CASE Stop
  BY <1>4, <1>k
     DEF Stop, StopFor, AtRest, bVars, Parked, StartOps, StopOps, RoundPcs,
         Asking, Handled, Steps, Feeding, Outstanding
<1>5. CASE \E t \in 1 .. LastTrack : Skip(t)
  BY <1>5, <1>k
     DEF Skip, StopFor, AtRest, bVars, Parked, StartOps, StopOps, RoundPcs,
         Asking, Handled, Steps, Feeding, Outstanding
<1>6. CASE Pause
  BY <1>6, <1>k
     DEF Pause, AtRest, bVars, Parked, StartOps, StopOps, RoundPcs, Asking,
         Handled, Steps, Feeding, Outstanding
<1>7. CASE Resume
  BY <1>7, <1>k
     DEF Resume, AtRest, bVars, Parked, StartOps, StopOps, RoundPcs, Asking,
         Handled, Steps, Feeding, Outstanding
<1>8. CASE PostArg
  BY <1>8, <1>k
     DEF PostArg, iVars, bVars, Parked, StartOps, StopOps, RoundPcs, Asking,
         Handled, Steps, Feeding, Outstanding
<1>9. CASE PostCmd
  BY <1>9, <1>k
     DEF PostCmd, iVars, bVars, Parked, StartOps, StopOps, RoundPcs, Asking,
         Handled, Steps, Feeding, Outstanding
<1>10. CASE PostSeq
  BY <1>10, <1>k
     DEF PostSeq, iVars, bVars, Parked, StartOps, StopOps, RoundPcs, Asking,
         Handled, Steps, Feeding, Outstanding
<1>11. CASE WaitOpen
  BY <1>11, <1>k, Waited
     DEF WaitOpen, Opened, Answered, shared, iVars, bVars, Parked, StartOps,
         StopOps, RoundPcs, Asking, Handled, Steps, Feeding, Outstanding
<1>12. CASE WaitSeek
  BY <1>12, <1>k, Waited
     DEF WaitSeek, shared, iVars, bVars, Parked, StartOps, StopOps, RoundPcs,
         Asking, Handled, Steps, Feeding, Outstanding
<1>13. CASE WaitClose
  BY <1>13, <1>k, <1>t, Waited
     DEF WaitClose, bVars, Parked, StartOps, StopOps, RoundPcs, Asking,
         Handled, Steps, Feeding, Outstanding, Opening, InRange
<1>14. CASE ZeroRd
  BY <1>14, <1>k
     DEF ZeroRd, iVars, bVars, Parked, StartOps, StopOps, RoundPcs, Asking,
         Handled, Steps, Feeding, Outstanding
<1>15. CASE ZeroWr
  BY <1>15, <1>k
     DEF ZeroWr, iVars, bVars, Parked, StartOps, StopOps, RoundPcs, Asking,
         Handled, Steps, Feeding, Outstanding
<1>16. CASE RunB
  BY <1>16, <1>k
     DEF RunB, iVars, bVars, Parked, StartOps, StopOps, RoundPcs, Asking,
         Handled, Steps, Feeding, Outstanding
<1>17. CASE FinishStart
  BY <1>17, <1>k
     DEF FinishStart, Finished, shared, bVars, Parked, StartOps, StopOps,
         RoundPcs, Asking, Handled, Steps, Feeding, Outstanding
<1>18. CASE FinishPreload
  BY <1>18, <1>k
     DEF FinishPreload, Finished, shared, iVars, bVars, Parked, StartOps,
         StopOps, RoundPcs, Asking, Handled, Steps, Feeding, Outstanding
<1>19. CASE FinishSeek
  BY <1>19, <1>k
     DEF FinishSeek, Finished, bVars, Parked, StartOps, StopOps, RoundPcs,
         Asking, Handled, Steps, Feeding, Outstanding
<1>20. CASE FinishNext
  BY <1>20, <1>k
     DEF FinishNext, Finished, shared, iVars, bVars, Parked, StartOps, StopOps,
         RoundPcs, Asking, Handled, Steps, Feeding, Outstanding
<1>21. CASE FinishStop
  BY <1>21, <1>k
     DEF FinishStop, Finished, shared, iVars, bVars, Parked, StartOps, StopOps,
         RoundPcs, Asking, Handled, Steps, Feeding, Outstanding
<1>22. CASE SnapRd
  BY <1>22, <1>k
     DEF SnapRd, AtRest, shared, iVars, bVars, Parked, StartOps, StopOps,
         RoundPcs, Asking, Handled, Steps, Feeding, Outstanding
<1>23. CASE SnapWr
  BY <1>23, <1>k
     DEF SnapWr, shared, iVars, bVars, Parked, StartOps, StopOps, RoundPcs,
         Asking, Handled, Steps, Feeding, Outstanding
<1>24. CASE SnapEof
  BY <1>24, <1>k
     DEF SnapEof, shared, iVars, bVars, Parked, StartOps, StopOps, RoundPcs,
         Asking, Handled, Steps, Feeding, Outstanding
<1>25. CASE DecideError
  BY <1>25, <1>k
     DEF DecideError, StopFor, Deciding, bVars, Parked, StartOps, StopOps,
         RoundPcs, Asking, Handled, Steps, Feeding, Outstanding
<1>26. CASE DecideNext
  BY <1>26, <1>k
     DEF DecideNext, Deciding, NewEof, iVars, bVars, Parked, StartOps, StopOps,
         RoundPcs, Asking, Handled, Steps, Feeding, Outstanding
<1>27. CASE DecideRestart
  BY <1>27, <1>k
     DEF DecideRestart, StopFor, Deciding, NewEof, bVars, Parked, StartOps,
         StopOps, RoundPcs, Asking, Handled, Steps, Feeding, Outstanding
<1>28. CASE DecideReformat
  BY <1>28, <1>k
     DEF DecideReformat, Deciding, NewEof, shared, iVars, bVars, Parked,
         StartOps, StopOps, RoundPcs, Asking, Handled, Steps, Feeding,
         Outstanding
<1>29. CASE DecideEnd
  BY <1>29, <1>k
     DEF DecideEnd, StopFor, Boundary, Deciding, bVars, Parked, StartOps,
         StopOps, RoundPcs, Asking, Handled, Steps, Feeding, Outstanding
<1>30. CASE DecideGoOn
  BY <1>30, <1>k
     DEF DecideGoOn, Boundary, Deciding, shared, iVars, bVars, Parked,
         StartOps, StopOps, RoundPcs, Asking, Handled, Steps, Feeding,
         Outstanding
<1>31. CASE IsrFire \/ IsrCopy \/ IsrMask
  BY <1>31, <1>k
     DEF IsrFire, IsrCopy, IsrMask, shared, aVars, bVars, Parked, StartOps,
         StopOps, RoundPcs, Asking, Handled, Steps, Feeding, Outstanding
<1>32. CASE BSeq
  BY <1>32, <1>k
     DEF BSeq, shared, aVars, iVars, Parked, StartOps, StopOps, RoundPcs,
         Asking, Handled, Steps, Feeding, Outstanding
<1>33. CASE BCmd
  BY <1>33, <1>k
     DEF BCmd, shared, aVars, iVars, Parked, StartOps, StopOps, RoundPcs,
         Asking, Handled, Steps, Feeding, Outstanding
<1>34. CASE BOpen
  BY <1>34, <1>k
     DEF BOpen, aVars, iVars, Parked, StartOps, StopOps, RoundPcs, Asking,
         Handled, Steps, Feeding, Outstanding
<1>35. CASE BSeek
  BY <1>35, <1>k
     DEF BSeek, aVars, iVars, Parked, StartOps, StopOps, RoundPcs, Asking,
         Handled, Steps, Feeding, Outstanding
<1>36. CASE BClose
  BY <1>36, <1>k
     DEF BClose, aVars, iVars, Parked, StartOps, StopOps, RoundPcs, Asking,
         Handled, Steps, Feeding, Outstanding
<1>37. CASE BAck
  BY <1>37, <1>k
     DEF BAck, aVars, iVars, Parked, StartOps, StopOps, RoundPcs, Asking,
         Handled, Steps, Feeding, Outstanding
<1>38. CASE BState
  BY <1>38, <1>k
     DEF BState, shared, aVars, iVars, Parked, StartOps, StopOps, RoundPcs,
         Asking, Handled, Steps, Feeding, Outstanding
<1>39. CASE BLoadRd
  BY <1>39, <1>k
     DEF BLoadRd, shared, aVars, iVars, Parked, StartOps, StopOps, RoundPcs,
         Asking, Handled, Steps, Feeding, Outstanding
<1>40. CASE BLoadWr
  BY <1>40, <1>k
     DEF BLoadWr, shared, aVars, iVars, Parked, StartOps, StopOps, RoundPcs,
         Asking, Handled, Steps, Feeding, Outstanding
<1>41. CASE BDecodeError
  BY <1>41, <1>k
     DEF BDecodeError, aVars, iVars, Parked, StartOps, StopOps, RoundPcs,
         Asking, Handled, Steps, Feeding, Outstanding
<1>42. CASE BDecode
  BY <1>42, <1>k
     DEF BDecode, aVars, iVars, Parked, StartOps, StopOps, RoundPcs, Asking,
         Handled, Steps, Feeding, Outstanding
<1>43. CASE BWrite
  BY <1>43, <1>k
     DEF BWrite, aVars, iVars, Parked, StartOps, StopOps, RoundPcs, Asking,
         Handled, Steps, Feeding, Outstanding
<1>44. CASE BPublish
  BY <1>44, <1>k
     DEF BPublish, aVars, iVars, Parked, StartOps, StopOps, RoundPcs, Asking,
         Handled, Steps, Feeding, Outstanding
<1>45. CASE BArm
  BY <1>45, <1>k
     DEF BArm, shared, aVars, Parked, StartOps, StopOps, RoundPcs, Asking,
         Handled, Steps, Feeding, Outstanding
<1> QED BY <1>1, <1>2, <1>3, <1>4, <1>5, <1>6, <1>7, <1>8, <1>9, <1>10, <1>11,
      <1>12, <1>13, <1>14, <1>15, <1>16, <1>17, <1>18, <1>19, <1>20, <1>21,
      <1>22, <1>23, <1>24, <1>25, <1>26, <1>27, <1>28, <1>29, <1>30, <1>31,
      <1>32, <1>33, <1>34, <1>35, <1>36, <1>37, <1>38, <1>39, <1>40, <1>41,
      <1>42, <1>43, <1>44, <1>45
    DEF Next, User, Operation, Process, Interrupt, CoreB, Command, Round

(* The fields of the streams that are asked for.                           *)
LEMMA StreamIs ==
    ASSUME goal \in Streams, NEW t, NEW p
    PROVE  /\ Stream(t, p).id = goal.id + 1 /\ Stream(t, p).track = t
           /\ Stream(t, p).pos = p
           /\ goal.id \in Nat /\ goal.id + 1 >= 1
<1>1. goal.id \in Nat
  BY PcmConstants DEF Streams
<1> QED BY <1>1 DEF Stream

(* The stream that an OPEN of s starts with.                               *)
LEMMA FirstOf ==
    ASSUME NEW s \in Streams
    PROVE  /\ [s EXCEPT !.pos = 0].id = s.id /\ [s EXCEPT !.pos = 0].track = s.track
           /\ [s EXCEPT !.pos = 0].pos = 0
           /\ s.pos = 0 => [s EXCEPT !.pos = 0] = s
           /\ \A p : [[s EXCEPT !.pos = p] EXCEPT !.pos = 0] = [s EXCEPT !.pos = 0]
           /\ \A p : [s EXCEPT !.pos = p].id = s.id
           /\ [s EXCEPT !.track = s.track] = s
           /\ s.id \in Nat
<1>1. s = [id |-> s.id, track |-> s.track, pos |-> s.pos] /\ s.id \in Nat
  BY PcmConstants DEF Streams
<1>2. /\ \A p : [s EXCEPT !.pos = p] = [id |-> s.id, track |-> s.track, pos |-> p]
      /\ \A t : [s EXCEPT !.track = t] = [id |-> s.id, track |-> t, pos |-> s.pos]
  BY <1>1
<1>3. \A p : [[s EXCEPT !.pos = p] EXCEPT !.pos = 0] = [s EXCEPT !.pos = 0]
  BY <1>2
<1>4. s.pos = 0 => [s EXCEPT !.pos = 0] = s
  BY <1>1, <1>2
<1>5. [s EXCEPT !.track = s.track] = s
  BY <1>1, <1>2
<1> QED BY <1>1, <1>2, <1>3, <1>4, <1>5

(* No stream of a track is None.                                           *)
LEMMA NoneIs == None.id = 0
BY DEF None

(* A round goes on while the player plays, or is about to.                 *)
LEMMA Rounds ==
    ASSUME IInv, bpc \in RoundPcs
    PROVE  /\ codec # None
           /\ \/ player \in {"playing", "paused"}
              \/ aop \in StartOps /\ apc = "finish"
           /\ aop = "seek" => Asking
<1>1. /\ codec # None /\ (aop = "seek" => Asking)
      /\ state # "idle" \/ aop = "seek"
  BY Parts DEF InRange, Parked, Feeding
<1>2. player \in {"playing", "paused"} \/ player \in {"stopped", "error"}
  BY Parts DEF AOK
<1> QED BY <1>1, <1>2, Parts DEF Feeding, Steps

(* SEEK moves the stream that is asked for where it is asked to.           *)
LEMMA Sought ==
    ASSUME IInv, BSeek
    PROVE  /\ codec' = goal /\ btrim' = gap /\ codec.track = goal.track
           /\ beof' = FALSE /\ codec # None
<1>1. aop \in {"seek", "startat"} /\ arg = goal /\ apc = "wait" /\ ack # seq /\ bpc = "exec"
  BY Executing DEF BSeek
<1>2. goal \in Streams /\ codec \in Streams
  BY Parts DEF AOK, CoreOK
<1>3. Asking
  BY <1>1 DEF Asking, Handled
<1>4. codec.track = goal.track /\ codec.id >= 1
  <2>1. CASE aop = "seek"
    BY <1>3, <2>1, Parts DEF Going
  <2>2. CASE aop = "startat"
    <3>1. codec = [goal EXCEPT !.pos = 0] /\ goal.id >= 1
      BY <1>3, <2>2, Parts DEF Opening, AtStart, Going, StartOps
    <3> QED BY <1>2, <3>1, FirstOf
  <2> QED BY <1>1, <2>1, <2>2
<1>5. codec # None
  BY <1>4, NoneIs
<1>6. [goal EXCEPT !.track = goal.track] = goal
  BY <1>2, FirstOf
<1> QED BY <1>1, <1>4, <1>5, <1>6 DEF BSeek

(* Steps keep where the open stream stands while a track is being started. *)
LEMMA OpeningKept ==
    ASSUME IInv, Patient, Next
    PROVE  Opening'
<1>t. SharedOK /\ AOK /\ FeederOK /\ CoreOK /\ InRange
  BY Parts
<1>k. /\ Steps /\ Outstanding /\ Feeding /\ Parked /\ Opening /\ Going
      /\ Indices /\ Contents /\ Trimmed
  BY Parts
<1>1. CASE \E p \in SeekTargets \cup {0} : Start(p)
  <2>1. preload # None => preload = goal /\ codec = goal /\ goal.pos = 0 /\ goal \in Streams
    BY <1>1, <1>t, <1>k DEF Start, AtRest, Opening, AOK, Steps, StopOps
  <2>2. ASSUME bdec' PROVE codec = [goal' EXCEPT !.pos = 0]
    <3>1. PICK p \in SeekTargets \cup {0} : Start(p)
      BY <1>1
    <3>2. Preloaded /\ goal' = [preload EXCEPT !.pos = p]
      BY <2>2, <3>1 DEF Start
    <3>3. codec = goal /\ goal.pos = 0 /\ goal \in Streams /\ preload = goal
      BY <2>1, <3>2 DEF Preloaded
    <3> QED BY <3>2, <3>3, FirstOf
  <2> QED BY <1>1, <1>k, <2>2 DEF Start, AtRest, Opening, AtStart, Steps, StartOps, StopOps, bVars
<1>2. CASE Preload
  <2>1. goal'.pos = 0
    BY <1>2, <1>t, StreamIs DEF Preload, AOK
  <2> QED BY <1>2, <1>k, <2>1 DEF Preload, AtRest, Opening, StartOps, StopOps
<1>3. CASE \E p \in SeekTargets : Seek(p)
  BY <1>3, <1>k
     DEF Seek, AtRest, bVars, Opening, StartOps, StopOps, RoundPcs, CommandPcs,
         Asking, Handled, AtStart, Steps, Outstanding, Feeding, Parked
<1>4. CASE Stop
  BY <1>4, <1>k
     DEF Stop, StopFor, AtRest, bVars, Opening, StartOps, StopOps, RoundPcs,
         CommandPcs, Asking, Handled, AtStart, Steps, Outstanding, Feeding,
         Parked
<1>5. CASE \E t \in 1 .. LastTrack : Skip(t)
  BY <1>5, <1>k
     DEF Skip, StopFor, AtRest, bVars, Opening, StartOps, StopOps, RoundPcs,
         CommandPcs, Asking, Handled, AtStart, Steps, Outstanding, Feeding,
         Parked
<1>6. CASE Pause
  BY <1>6, <1>k
     DEF Pause, AtRest, bVars, Opening, StartOps, StopOps, RoundPcs,
         CommandPcs, Asking, Handled, AtStart, Steps, Outstanding, Feeding,
         Parked
<1>7. CASE Resume
  BY <1>7, <1>k
     DEF Resume, AtRest, bVars, Opening, StartOps, StopOps, RoundPcs,
         CommandPcs, Asking, Handled, AtStart, Steps, Outstanding, Feeding,
         Parked
<1>8. CASE PostArg
  BY <1>8, <1>k
     DEF PostArg, iVars, bVars, Opening, StartOps, StopOps, RoundPcs,
         CommandPcs, Asking, Handled, AtStart, Steps, Outstanding, Feeding,
         Parked
<1>9. CASE PostCmd
  BY <1>9, <1>k
     DEF PostCmd, iVars, bVars, Opening, StartOps, StopOps, RoundPcs,
         CommandPcs, Asking, Handled, AtStart, Steps, Outstanding, Feeding,
         Parked
<1>10. CASE PostSeq
  <2>1. ack = seq /\ ack # seq + 1 /\ bpc # "ack"
    BY <1>10, <1>t, <1>k DEF PostSeq, SharedOK, Outstanding, CommandPcs
  <2> QED BY <1>10, <1>k, <2>1, Steps DEF PostSeq, Opening, Asking, Handled, AtStart, StartOps,
             StopOps, bVars, iVars
<1>11. CASE WaitOpen
  BY <1>11, <1>k, Waited
     DEF WaitOpen, Opened, Answered, shared, iVars, bVars, Opening, StartOps,
         StopOps, RoundPcs, CommandPcs, Asking, Handled, AtStart, Steps,
         Outstanding, Feeding, Parked
<1>12. CASE WaitSeek
  BY <1>12, <1>k, Waited
     DEF WaitSeek, shared, iVars, bVars, Opening, StartOps, StopOps, RoundPcs,
         CommandPcs, Asking, Handled, AtStart, Steps, Outstanding, Feeding,
         Parked
<1>13. CASE WaitClose
  BY <1>13, <1>k, Waited
     DEF WaitClose, bVars, Opening, StartOps, StopOps, RoundPcs, CommandPcs,
         Asking, Handled, AtStart, Steps, Outstanding, Feeding, Parked
<1>14. CASE ZeroRd
  BY <1>14, <1>k
     DEF ZeroRd, iVars, bVars, Opening, StartOps, StopOps, RoundPcs,
         CommandPcs, Asking, Handled, AtStart, Steps, Outstanding, Feeding,
         Parked
<1>15. CASE ZeroWr
  BY <1>15, <1>k
     DEF ZeroWr, iVars, bVars, Opening, StartOps, StopOps, RoundPcs,
         CommandPcs, Asking, Handled, AtStart, Steps, Outstanding, Feeding,
         Parked
<1>16. CASE RunB
  BY <1>16, <1>k
     DEF RunB, iVars, bVars, Opening, StartOps, StopOps, RoundPcs, CommandPcs,
         Asking, Handled, AtStart, Steps, Outstanding, Feeding, Parked
<1>17. CASE FinishStart
  BY <1>17, <1>k
     DEF FinishStart, Finished, shared, bVars, Opening, StartOps, StopOps,
         RoundPcs, CommandPcs, Asking, Handled, AtStart, Steps, Outstanding,
         Feeding, Parked
<1>18. CASE FinishPreload
  <2>1. codec = goal
    BY <1>18, <1>t, <1>k, FirstOf DEF FinishPreload, Opening, AtStart, AOK
  <2> QED BY <1>18, <1>k, <2>1 DEF FinishPreload, Finished, Opening, AtStart, Steps, Feeding,
             StartOps, StopOps, shared, bVars
<1>19. CASE FinishSeek
  BY <1>19, <1>k
     DEF FinishSeek, Finished, bVars, Opening, StartOps, StopOps, RoundPcs,
         CommandPcs, Asking, Handled, AtStart, Steps, Outstanding, Feeding,
         Parked
<1>20. CASE FinishNext
  BY <1>20, <1>k
     DEF FinishNext, Finished, shared, iVars, bVars, Opening, StartOps,
         StopOps, RoundPcs, CommandPcs, Asking, Handled, AtStart, Steps,
         Outstanding, Feeding, Parked
<1>21. CASE FinishStop
  BY <1>21, <1>k
     DEF FinishStop, Finished, shared, iVars, bVars, Opening, StartOps,
         StopOps, RoundPcs, CommandPcs, Asking, Handled, AtStart, Steps,
         Outstanding, Feeding, Parked
<1>22. CASE SnapRd
  BY <1>22, <1>k
     DEF SnapRd, AtRest, shared, iVars, bVars, Opening, StartOps, StopOps,
         RoundPcs, CommandPcs, Asking, Handled, AtStart, Steps, Outstanding,
         Feeding, Parked
<1>23. CASE SnapWr
  BY <1>23, <1>k
     DEF SnapWr, shared, iVars, bVars, Opening, StartOps, StopOps, RoundPcs,
         CommandPcs, Asking, Handled, AtStart, Steps, Outstanding, Feeding,
         Parked
<1>24. CASE SnapEof
  BY <1>24, <1>k
     DEF SnapEof, shared, iVars, bVars, Opening, StartOps, StopOps, RoundPcs,
         CommandPcs, Asking, Handled, AtStart, Steps, Outstanding, Feeding,
         Parked
<1>25. CASE DecideError
  BY <1>25, <1>k
     DEF DecideError, StopFor, Deciding, bVars, Opening, StartOps, StopOps,
         RoundPcs, CommandPcs, Asking, Handled, AtStart, Steps, Outstanding,
         Feeding, Parked
<1>26. CASE DecideNext
  BY <1>26, <1>k
     DEF DecideNext, Deciding, NewEof, iVars, bVars, Opening, StartOps,
         StopOps, RoundPcs, CommandPcs, Asking, Handled, AtStart, Steps,
         Outstanding, Feeding, Parked
<1>27. CASE DecideRestart
  BY <1>27, <1>k
     DEF DecideRestart, StopFor, Deciding, NewEof, bVars, Opening, StartOps,
         StopOps, RoundPcs, CommandPcs, Asking, Handled, AtStart, Steps,
         Outstanding, Feeding, Parked
<1>28. CASE DecideReformat
  BY <1>28, <1>k
     DEF DecideReformat, Deciding, NewEof, shared, iVars, bVars, Opening,
         StartOps, StopOps, RoundPcs, CommandPcs, Asking, Handled, AtStart,
         Steps, Outstanding, Feeding, Parked
<1>29. CASE DecideEnd
  BY <1>29, <1>k
     DEF DecideEnd, StopFor, Boundary, Deciding, bVars, Opening, StartOps,
         StopOps, RoundPcs, CommandPcs, Asking, Handled, AtStart, Steps,
         Outstanding, Feeding, Parked
<1>30. CASE DecideGoOn
  BY <1>30, <1>k
     DEF DecideGoOn, Boundary, Deciding, shared, iVars, bVars, Opening,
         StartOps, StopOps, RoundPcs, CommandPcs, Asking, Handled, AtStart,
         Steps, Outstanding, Feeding, Parked
<1>31. CASE IsrFire \/ IsrCopy \/ IsrMask
  BY <1>31, <1>k
     DEF IsrFire, IsrCopy, IsrMask, shared, aVars, bVars, Opening, StartOps,
         StopOps, RoundPcs, CommandPcs, Asking, Handled, AtStart, Steps,
         Outstanding, Feeding, Parked
<1>32. CASE BSeq
  BY <1>32, <1>k
     DEF BSeq, shared, aVars, iVars, Opening, StartOps, StopOps, RoundPcs,
         CommandPcs, Asking, Handled, AtStart, Steps, Outstanding, Feeding,
         Parked
<1>33. CASE BCmd
  BY <1>33, <1>k
     DEF BCmd, shared, aVars, iVars, Opening, StartOps, StopOps, RoundPcs,
         CommandPcs, Asking, Handled, AtStart, Steps, Outstanding, Feeding,
         Parked
<1>34. CASE BOpen
  BY <1>34, <1>k, Executing
     DEF BOpen, aVars, iVars, Opening, StartOps, StopOps, RoundPcs, CommandPcs,
         Asking, Handled, AtStart, Steps, Outstanding, Feeding, Parked
<1>35. CASE BSeek
  BY <1>35, <1>k, Executing, Sought
     DEF BSeek, aVars, iVars, Opening, StartOps, StopOps, RoundPcs, CommandPcs,
         Asking, Handled, AtStart, Steps, Outstanding, Feeding, Parked
<1>36. CASE BClose
  BY <1>36, <1>k, Executing
     DEF BClose, aVars, iVars, Opening, StartOps, StopOps, RoundPcs,
         CommandPcs, Asking, Handled, AtStart, Steps, Outstanding, Feeding,
         Parked
<1>37. CASE BAck
  BY <1>37, <1>k
     DEF BAck, aVars, iVars, Opening, StartOps, StopOps, RoundPcs, CommandPcs,
         Asking, Handled, AtStart, Steps, Outstanding, Feeding, Parked
<1>38. CASE BState
  BY <1>38, <1>k
     DEF BState, shared, aVars, iVars, Opening, StartOps, StopOps, RoundPcs,
         CommandPcs, Asking, Handled, AtStart, Steps, Outstanding, Feeding,
         Parked
<1>39. CASE BLoadRd
  BY <1>39, <1>k
     DEF BLoadRd, shared, aVars, iVars, Opening, StartOps, StopOps, RoundPcs,
         CommandPcs, Asking, Handled, AtStart, Steps, Outstanding, Feeding,
         Parked
<1>40. CASE BLoadWr
  BY <1>40, <1>k
     DEF BLoadWr, shared, aVars, iVars, Opening, StartOps, StopOps, RoundPcs,
         CommandPcs, Asking, Handled, AtStart, Steps, Outstanding, Feeding,
         Parked
<1>41. CASE BDecodeError
  BY <1>41, <1>k
     DEF BDecodeError, aVars, iVars, Opening, StartOps, StopOps, RoundPcs,
         CommandPcs, Asking, Handled, AtStart, Steps, Outstanding, Feeding,
         Parked
<1>42. CASE BDecode
  <2>1. /\ codec # None
        /\ player \in {"playing", "paused"} \/ (aop \in StartOps /\ apc = "finish")
        /\ aop = "seek" => Asking
    BY <1>42, Rounds DEF BDecode, RoundPcs
  <2>2. codec'.id = codec.id /\ codec'.track = codec.track
    BY <1>42, DecodeIs DEF IInv
  <2> QED BY <1>42, <1>k, <2>1 DEF BDecode, Opening, Asking, Handled, AtStart, Steps,
             StartOps, StopOps, aVars
<1>43. CASE BWrite
  BY <1>43, <1>k
     DEF BWrite, aVars, iVars, Opening, StartOps, StopOps, RoundPcs,
         CommandPcs, Asking, Handled, AtStart, Steps, Outstanding, Feeding,
         Parked
<1>44. CASE BPublish
  BY <1>44, <1>k
     DEF BPublish, aVars, iVars, Opening, StartOps, StopOps, RoundPcs,
         CommandPcs, Asking, Handled, AtStart, Steps, Outstanding, Feeding,
         Parked
<1>45. CASE BArm
  BY <1>45, <1>k
     DEF BArm, shared, aVars, Opening, StartOps, StopOps, RoundPcs, CommandPcs,
         Asking, Handled, AtStart, Steps, Outstanding, Feeding, Parked
<1> QED BY <1>1, <1>2, <1>3, <1>4, <1>5, <1>6, <1>7, <1>8, <1>9, <1>10, <1>11,
      <1>12, <1>13, <1>14, <1>15, <1>16, <1>17, <1>18, <1>19, <1>20, <1>21,
      <1>22, <1>23, <1>24, <1>25, <1>26, <1>27, <1>28, <1>29, <1>30, <1>31,
      <1>32, <1>33, <1>34, <1>35, <1>36, <1>37, <1>38, <1>39, <1>40, <1>41,
      <1>42, <1>43, <1>44, <1>45
    DEF Next, User, Operation, Process, Interrupt, CoreB, Command, Round

(* Steps keep where the open stream stands while one is being played.      *)
LEMMA GoingKept ==
    ASSUME IInv, Patient, Next
    PROVE  Going'
<1>t. SharedOK /\ AOK /\ FeederOK /\ CoreOK /\ InRange
  BY Parts
<1>k. /\ Steps /\ Outstanding /\ Feeding /\ Parked /\ Opening /\ Going
      /\ Indices /\ Contents /\ Trimmed
  BY Parts
<1>1. CASE \E p \in SeekTargets \cup {0} : Start(p)
  <2>1. preload # None => preload = goal /\ codec = goal /\ goal \in Streams /\ goal.id >= 1
    BY <1>1, <1>t, <1>k DEF Start, AtRest, Opening, Going, AOK, Steps, StopOps
  <2>2. goal'.id >= 1
    <3>1. PICK p \in SeekTargets \cup {0} : Start(p)
      BY <1>1
    <3>2. CASE Preloaded /\ goal' = [preload EXCEPT !.pos = p]
      <4>1. preload = goal /\ goal \in Streams /\ goal.id >= 1
        BY <2>1, <3>2 DEF Preloaded
      <4>2. [goal EXCEPT !.pos = p].id = goal.id
        BY <4>1, FirstOf
      <4> QED BY <3>2, <4>1, <4>2
    <3>3. CASE goal' = Stream(track, p)
      BY <1>t, <3>3, StreamIs DEF AOK
    <3> QED BY <3>1, <3>2, <3>3 DEF Start
  <2> QED BY <1>1, <1>k, <2>2 DEF Start, AtRest, Going, StartOps
<1>2. CASE Preload
  <2>1. goal'.id >= 1
    BY <1>2, <1>t, StreamIs DEF Preload, AOK
  <2> QED BY <1>2, <1>k, <2>1 DEF Preload, AtRest, Going, StartOps
<1>3. CASE \E p \in SeekTargets : Seek(p)
  <2> PICK p \in SeekTargets : Seek(p)
    BY <1>3
  <2>1. goal'.id = goal.id + 1 /\ goal'.track = goal.track /\ goal'.id >= 1 /\ Current
    BY <1>t, <1>k, StreamIs DEF Seek, AtRest, Going, Steps, AOK
  <2>2. goal.id >= 1
    BY <1>k DEF Seek, AtRest, Going
  <2> QED BY <1>k, <2>1, <2>2 DEF Seek, AtRest, Going, Current, Asking, StartOps, bVars
<1>4. CASE Stop
  BY <1>4, <1>k
     DEF Stop, StopFor, AtRest, bVars, Going, StartOps, StopOps, RoundPcs,
         CommandPcs, Asking, Handled, AtStart, Current, Steps, Outstanding,
         Feeding, Parked
<1>5. CASE \E t \in 1 .. LastTrack : Skip(t)
  BY <1>5, <1>k
     DEF Skip, StopFor, AtRest, bVars, Going, StartOps, StopOps, RoundPcs,
         CommandPcs, Asking, Handled, AtStart, Current, Steps, Outstanding,
         Feeding, Parked
<1>6. CASE Pause
  BY <1>6, <1>k
     DEF Pause, AtRest, bVars, Going, StartOps, StopOps, RoundPcs, CommandPcs,
         Asking, Handled, AtStart, Current, Steps, Outstanding, Feeding, Parked
<1>7. CASE Resume
  BY <1>7, <1>k
     DEF Resume, AtRest, bVars, Going, StartOps, StopOps, RoundPcs, CommandPcs,
         Asking, Handled, AtStart, Current, Steps, Outstanding, Feeding, Parked
<1>8. CASE PostArg
  BY <1>8, <1>k
     DEF PostArg, iVars, bVars, Going, StartOps, StopOps, RoundPcs, CommandPcs,
         Asking, Handled, AtStart, Current, Steps, Outstanding, Feeding, Parked
<1>9. CASE PostCmd
  BY <1>9, <1>k
     DEF PostCmd, iVars, bVars, Going, StartOps, StopOps, RoundPcs, CommandPcs,
         Asking, Handled, AtStart, Current, Steps, Outstanding, Feeding, Parked
<1>10. CASE PostSeq
  BY <1>10, <1>k
     DEF PostSeq, iVars, bVars, Going, StartOps, StopOps, RoundPcs, CommandPcs,
         Asking, Handled, AtStart, Current, Steps, Outstanding, Feeding, Parked
<1>11. CASE WaitOpen
  BY <1>11, <1>k, Waited
     DEF WaitOpen, Opened, Answered, shared, iVars, bVars, Going, StartOps,
         StopOps, RoundPcs, CommandPcs, Asking, Handled, AtStart, Current,
         Steps, Outstanding, Feeding, Parked
<1>12. CASE WaitSeek
  BY <1>12, <1>k, Waited
     DEF WaitSeek, shared, iVars, bVars, Going, StartOps, StopOps, RoundPcs,
         CommandPcs, Asking, Handled, AtStart, Current, Steps, Outstanding,
         Feeding, Parked
<1>13. CASE WaitClose
  BY <1>13, <1>k, Waited
     DEF WaitClose, bVars, Going, StartOps, StopOps, RoundPcs, CommandPcs,
         Asking, Handled, AtStart, Current, Steps, Outstanding, Feeding, Parked
<1>14. CASE ZeroRd
  BY <1>14, <1>k
     DEF ZeroRd, iVars, bVars, Going, StartOps, StopOps, RoundPcs, CommandPcs,
         Asking, Handled, AtStart, Current, Steps, Outstanding, Feeding, Parked
<1>15. CASE ZeroWr
  BY <1>15, <1>k
     DEF ZeroWr, iVars, bVars, Going, StartOps, StopOps, RoundPcs, CommandPcs,
         Asking, Handled, AtStart, Current, Steps, Outstanding, Feeding, Parked
<1>16. CASE RunB
  <2>1. aop \in StartOps => Current
    <3>1. CASE aop = "start"
      BY <1>16, <1>t, <1>k, <3>1, FirstOf DEF RunB, Opening, AtStart, Current, AOK
    <3>2. CASE aop = "startat"
      BY <1>16, <1>k, <3>2 DEF RunB, Opening, Asking, Current
    <3> QED BY <3>1, <3>2 DEF StartOps
  <2> QED BY <1>16, <1>k, <2>1 DEF RunB, Going, Current, Asking, StartOps, Steps, bVars
<1>17. CASE FinishStart
  BY <1>17, <1>k
     DEF FinishStart, Finished, shared, bVars, Going, StartOps, StopOps,
         RoundPcs, CommandPcs, Asking, Handled, AtStart, Current, Steps,
         Outstanding, Feeding, Parked
<1>18. CASE FinishPreload
  BY <1>18, <1>k
     DEF FinishPreload, Finished, shared, iVars, bVars, Going, StartOps,
         StopOps, RoundPcs, CommandPcs, Asking, Handled, AtStart, Current,
         Steps, Outstanding, Feeding, Parked
<1>19. CASE FinishSeek
  BY <1>19, <1>k
     DEF FinishSeek, Finished, bVars, Going, StartOps, StopOps, RoundPcs,
         CommandPcs, Asking, Handled, AtStart, Current, Steps, Outstanding,
         Feeding, Parked
<1>20. CASE FinishNext
  BY <1>20, <1>k
     DEF FinishNext, Finished, shared, iVars, bVars, Going, StartOps, StopOps,
         RoundPcs, CommandPcs, Asking, Handled, AtStart, Current, Steps,
         Outstanding, Feeding, Parked
<1>21. CASE FinishStop
  <2>1. aop \in {"restart", "change"} => goal'.id >= 1
    BY <1>21, <1>t, StreamIs DEF FinishStop, AOK
  <2>2. preload = None
    BY <1>21, <1>k DEF FinishStop, Opening, StopOps
  <2> QED BY <1>21, <1>k, <2>1, <2>2 DEF FinishStop, Finished, Going, Current, Asking, StartOps
<1>22. CASE SnapRd
  BY <1>22, <1>k
     DEF SnapRd, AtRest, shared, iVars, bVars, Going, StartOps, StopOps,
         RoundPcs, CommandPcs, Asking, Handled, AtStart, Current, Steps,
         Outstanding, Feeding, Parked
<1>23. CASE SnapWr
  BY <1>23, <1>k
     DEF SnapWr, shared, iVars, bVars, Going, StartOps, StopOps, RoundPcs,
         CommandPcs, Asking, Handled, AtStart, Current, Steps, Outstanding,
         Feeding, Parked
<1>24. CASE SnapEof
  BY <1>24, <1>k
     DEF SnapEof, shared, iVars, bVars, Going, StartOps, StopOps, RoundPcs,
         CommandPcs, Asking, Handled, AtStart, Current, Steps, Outstanding,
         Feeding, Parked
<1>25. CASE DecideError
  BY <1>25, <1>k
     DEF DecideError, StopFor, Deciding, bVars, Going, StartOps, StopOps,
         RoundPcs, CommandPcs, Asking, Handled, AtStart, Current, Steps,
         Outstanding, Feeding, Parked
<1>26. CASE DecideNext
  <2>1. goal'.id = goal.id + 1 /\ goal'.track = track + 1 /\ goal'.id >= 1
    BY <1>26, <1>t, StreamIs DEF DecideNext, AOK
  <2>2. Current /\ beof /\ goal.id >= 1
    BY <1>26, <1>k DEF DecideNext, Deciding, NewEof, Steps, Going
  <2> QED BY <1>26, <1>k, <2>1, <2>2 DEF DecideNext, Deciding, Going, Current, Asking, StartOps, bVars
<1>27. CASE DecideRestart
  BY <1>27, <1>k
     DEF DecideRestart, StopFor, Deciding, NewEof, bVars, Going, StartOps,
         StopOps, RoundPcs, CommandPcs, Asking, Handled, AtStart, Current,
         Steps, Outstanding, Feeding, Parked
<1>28. CASE DecideReformat
  BY <1>28, <1>k
     DEF DecideReformat, Deciding, NewEof, shared, iVars, bVars, Going,
         StartOps, StopOps, RoundPcs, CommandPcs, Asking, Handled, AtStart,
         Current, Steps, Outstanding, Feeding, Parked
<1>29. CASE DecideEnd
  BY <1>29, <1>k
     DEF DecideEnd, StopFor, Boundary, Deciding, bVars, Going, StartOps,
         StopOps, RoundPcs, CommandPcs, Asking, Handled, AtStart, Current,
         Steps, Outstanding, Feeding, Parked
<1>30. CASE DecideGoOn
  BY <1>30, <1>k
     DEF DecideGoOn, Boundary, Deciding, shared, iVars, bVars, Going, StartOps,
         StopOps, RoundPcs, CommandPcs, Asking, Handled, AtStart, Current,
         Steps, Outstanding, Feeding, Parked
<1>31. CASE IsrFire \/ IsrCopy \/ IsrMask
  BY <1>31, <1>k
     DEF IsrFire, IsrCopy, IsrMask, shared, aVars, bVars, Going, StartOps,
         StopOps, RoundPcs, CommandPcs, Asking, Handled, AtStart, Current,
         Steps, Outstanding, Feeding, Parked
<1>32. CASE BSeq
  BY <1>32, <1>k
     DEF BSeq, shared, aVars, iVars, Going, StartOps, StopOps, RoundPcs,
         CommandPcs, Asking, Handled, AtStart, Current, Steps, Outstanding,
         Feeding, Parked
<1>33. CASE BCmd
  BY <1>33, <1>k
     DEF BCmd, shared, aVars, iVars, Going, StartOps, StopOps, RoundPcs,
         CommandPcs, Asking, Handled, AtStart, Current, Steps, Outstanding,
         Feeding, Parked
<1>34. CASE BOpen
  <2>1. aop \in {"start", "preload", "next"} /\ arg = goal /\ apc = "wait" /\ bpc' = "ack"
    BY <1>34, Executing DEF BOpen
  <2>2. \/ codec'.id = goal.id /\ codec'.track = goal.track
        \/ codec' = None /\ bstate' = "error"
    BY <1>34, <1>t, <2>1, FirstOf DEF BOpen, AOK
  <2> QED BY <1>34, <1>k, <2>1, <2>2 DEF BOpen, Going, Current, Asking, Handled, StartOps, Steps, aVars
<1>35. CASE BSeek
  <2>1. codec' = goal /\ aop \in {"seek", "startat"} /\ apc = "wait" /\ bpc' = "ack"
    BY <1>35, Sought, Executing DEF BSeek
  <2> QED BY <1>35, <1>k, <2>1 DEF BSeek, Going, Current, Asking, Handled, StartOps, Steps, aVars
<1>36. CASE BClose
  BY <1>36, <1>k, Executing
     DEF BClose, aVars, iVars, Going, StartOps, StopOps, RoundPcs, CommandPcs,
         Asking, Handled, AtStart, Current, Steps, Outstanding, Feeding, Parked
<1>37. CASE BAck
  BY <1>37, <1>k
     DEF BAck, aVars, iVars, Going, StartOps, StopOps, RoundPcs, CommandPcs,
         Asking, Handled, AtStart, Current, Steps, Outstanding, Feeding, Parked
<1>38. CASE BState
  BY <1>38, <1>k
     DEF BState, shared, aVars, iVars, Going, StartOps, StopOps, RoundPcs,
         CommandPcs, Asking, Handled, AtStart, Current, Steps, Outstanding,
         Feeding, Parked
<1>39. CASE BLoadRd
  BY <1>39, <1>k
     DEF BLoadRd, shared, aVars, iVars, Going, StartOps, StopOps, RoundPcs,
         CommandPcs, Asking, Handled, AtStart, Current, Steps, Outstanding,
         Feeding, Parked
<1>40. CASE BLoadWr
  BY <1>40, <1>k
     DEF BLoadWr, shared, aVars, iVars, Going, StartOps, StopOps, RoundPcs,
         CommandPcs, Asking, Handled, AtStart, Current, Steps, Outstanding,
         Feeding, Parked
<1>41. CASE BDecodeError
  BY <1>41, <1>k
     DEF BDecodeError, aVars, iVars, Going, StartOps, StopOps, RoundPcs,
         CommandPcs, Asking, Handled, AtStart, Current, Steps, Outstanding,
         Feeding, Parked
<1>42. CASE BDecode
  <2>1. /\ codec # None
        /\ player \in {"playing", "paused"} \/ (aop \in StartOps /\ apc = "finish")
        /\ aop = "seek" => Asking
    BY <1>42, Rounds DEF BDecode, RoundPcs
  <2>2. codec'.id = codec.id /\ codec'.track = codec.track
    BY <1>42, DecodeIs DEF IInv
  <2>3. ~beof
    BY <1>42, <1>t DEF BDecode, InRange
  <2> QED BY <1>42, <1>k, <2>1, <2>2, <2>3 DEF BDecode, Going, Current, Asking, Handled, Steps, StartOps, aVars
<1>43. CASE BWrite
  BY <1>43, <1>k
     DEF BWrite, aVars, iVars, Going, StartOps, StopOps, RoundPcs, CommandPcs,
         Asking, Handled, AtStart, Current, Steps, Outstanding, Feeding, Parked
<1>44. CASE BPublish
  BY <1>44, <1>k
     DEF BPublish, aVars, iVars, Going, StartOps, StopOps, RoundPcs,
         CommandPcs, Asking, Handled, AtStart, Current, Steps, Outstanding,
         Feeding, Parked
<1>45. CASE BArm
  BY <1>45, <1>k
     DEF BArm, shared, aVars, Going, StartOps, StopOps, RoundPcs, CommandPcs,
         Asking, Handled, AtStart, Current, Steps, Outstanding, Feeding, Parked
<1> QED BY <1>1, <1>2, <1>3, <1>4, <1>5, <1>6, <1>7, <1>8, <1>9, <1>10, <1>11,
      <1>12, <1>13, <1>14, <1>15, <1>16, <1>17, <1>18, <1>19, <1>20, <1>21,
      <1>22, <1>23, <1>24, <1>25, <1>26, <1>27, <1>28, <1>29, <1>30, <1>31,
      <1>32, <1>33, <1>34, <1>35, <1>36, <1>37, <1>38, <1>39, <1>40, <1>41,
      <1>42, <1>43, <1>44, <1>45
    DEF Next, User, Operation, Process, Interrupt, CoreB, Command, Round

(* Steps keep the gapless words those of the track, without preloads.      *)
LEMMA TrimmedKept ==
    ASSUME IInv, Patient, Next
    PROVE  Trimmed'
<1>t. SharedOK /\ AOK /\ FeederOK /\ CoreOK /\ InRange
  BY Parts
<1>k. /\ Steps /\ Outstanding /\ Feeding /\ Parked /\ Opening /\ Going
      /\ Indices /\ Contents /\ Trimmed
  BY Parts
<1>1. CASE \E p \in SeekTargets \cup {0} : Start(p)
  BY <1>1, <1>k
     DEF Start, AtRest, iVars, bVars, Trimmed, StartOps, StopOps, RoundPcs,
         CommandPcs, Asking, Handled, AtStart, Steps, Feeding
<1>2. CASE Preload
  BY <1>2, <1>k
     DEF Preload, AtRest, shared, iVars, bVars, Trimmed, StartOps, StopOps,
         RoundPcs, CommandPcs, Asking, Handled, AtStart, Steps, Feeding
<1>3. CASE \E p \in SeekTargets : Seek(p)
  <2>1. goal'.track = goal.track
    BY <1>3, <1>t, StreamIs DEF Seek, AOK
  <2> QED BY <1>3, <1>k, <2>1 DEF Seek, AtRest, Trimmed, StartOps, Steps, bVars
<1>4. CASE Stop
  BY <1>4, <1>k
     DEF Stop, StopFor, AtRest, bVars, Trimmed, StartOps, StopOps, RoundPcs,
         CommandPcs, Asking, Handled, AtStart, Steps, Feeding
<1>5. CASE \E t \in 1 .. LastTrack : Skip(t)
  BY <1>5, <1>k
     DEF Skip, StopFor, AtRest, bVars, Trimmed, StartOps, StopOps, RoundPcs,
         CommandPcs, Asking, Handled, AtStart, Steps, Feeding
<1>6. CASE Pause
  BY <1>6, <1>k
     DEF Pause, AtRest, bVars, Trimmed, StartOps, StopOps, RoundPcs,
         CommandPcs, Asking, Handled, AtStart, Steps, Feeding
<1>7. CASE Resume
  BY <1>7, <1>k
     DEF Resume, AtRest, bVars, Trimmed, StartOps, StopOps, RoundPcs,
         CommandPcs, Asking, Handled, AtStart, Steps, Feeding
<1>8. CASE PostArg
  BY <1>8, <1>k
     DEF PostArg, iVars, bVars, Trimmed, StartOps, StopOps, RoundPcs,
         CommandPcs, Asking, Handled, AtStart, Steps, Feeding
<1>9. CASE PostCmd
  BY <1>9, <1>k
     DEF PostCmd, iVars, bVars, Trimmed, StartOps, StopOps, RoundPcs,
         CommandPcs, Asking, Handled, AtStart, Steps, Feeding
<1>10. CASE PostSeq
  BY <1>10, <1>k
     DEF PostSeq, iVars, bVars, Trimmed, StartOps, StopOps, RoundPcs,
         CommandPcs, Asking, Handled, AtStart, Steps, Feeding
<1>11. CASE WaitOpen
  BY <1>11, <1>k, Waited
     DEF WaitOpen, Opened, Answered, shared, iVars, bVars, Trimmed, StartOps,
         StopOps, RoundPcs, CommandPcs, Asking, Handled, AtStart, Steps,
         Feeding
<1>12. CASE WaitSeek
  BY <1>12, <1>k, Waited
     DEF WaitSeek, shared, iVars, bVars, Trimmed, StartOps, StopOps, RoundPcs,
         CommandPcs, Asking, Handled, AtStart, Steps, Feeding
<1>13. CASE WaitClose
  BY <1>13, <1>k, Waited
     DEF WaitClose, bVars, Trimmed, StartOps, StopOps, RoundPcs, CommandPcs,
         Asking, Handled, AtStart, Steps, Feeding
<1>14. CASE ZeroRd
  BY <1>14, <1>k
     DEF ZeroRd, iVars, bVars, Trimmed, StartOps, StopOps, RoundPcs,
         CommandPcs, Asking, Handled, AtStart, Steps, Feeding
<1>15. CASE ZeroWr
  BY <1>15, <1>k
     DEF ZeroWr, iVars, bVars, Trimmed, StartOps, StopOps, RoundPcs,
         CommandPcs, Asking, Handled, AtStart, Steps, Feeding
<1>16. CASE RunB
  BY <1>16, <1>k
     DEF RunB, iVars, bVars, Trimmed, StartOps, StopOps, RoundPcs, CommandPcs,
         Asking, Handled, AtStart, Steps, Feeding
<1>17. CASE FinishStart
  BY <1>17, <1>k
     DEF FinishStart, Finished, shared, bVars, Trimmed, StartOps, StopOps,
         RoundPcs, CommandPcs, Asking, Handled, AtStart, Steps, Feeding
<1>18. CASE FinishPreload
  BY <1>18, <1>k
     DEF FinishPreload, Finished, shared, iVars, bVars, Trimmed, StartOps,
         StopOps, RoundPcs, CommandPcs, Asking, Handled, AtStart, Steps,
         Feeding
<1>19. CASE FinishSeek
  BY <1>19, <1>k
     DEF FinishSeek, Finished, bVars, Trimmed, StartOps, StopOps, RoundPcs,
         CommandPcs, Asking, Handled, AtStart, Steps, Feeding
<1>20. CASE FinishNext
  BY <1>20, <1>k
     DEF FinishNext, Finished, shared, iVars, bVars, Trimmed, StartOps,
         StopOps, RoundPcs, CommandPcs, Asking, Handled, AtStart, Steps,
         Feeding
<1>21. CASE FinishStop
  BY <1>21, <1>k
     DEF FinishStop, Finished, shared, iVars, bVars, Trimmed, StartOps,
         StopOps, RoundPcs, CommandPcs, Asking, Handled, AtStart, Steps,
         Feeding
<1>22. CASE SnapRd
  BY <1>22, <1>k
     DEF SnapRd, AtRest, shared, iVars, bVars, Trimmed, StartOps, StopOps,
         RoundPcs, CommandPcs, Asking, Handled, AtStart, Steps, Feeding
<1>23. CASE SnapWr
  BY <1>23, <1>k
     DEF SnapWr, shared, iVars, bVars, Trimmed, StartOps, StopOps, RoundPcs,
         CommandPcs, Asking, Handled, AtStart, Steps, Feeding
<1>24. CASE SnapEof
  BY <1>24, <1>k
     DEF SnapEof, shared, iVars, bVars, Trimmed, StartOps, StopOps, RoundPcs,
         CommandPcs, Asking, Handled, AtStart, Steps, Feeding
<1>25. CASE DecideError
  BY <1>25, <1>k
     DEF DecideError, StopFor, Deciding, bVars, Trimmed, StartOps, StopOps,
         RoundPcs, CommandPcs, Asking, Handled, AtStart, Steps, Feeding
<1>26. CASE DecideNext
  <2>1. goal'.track = track + 1
    BY <1>26, <1>t, StreamIs DEF DecideNext, AOK
  <2> QED BY <1>26, <1>k, <2>1 DEF DecideNext, Trimmed, StartOps, bVars
<1>27. CASE DecideRestart
  BY <1>27, <1>k
     DEF DecideRestart, StopFor, Deciding, NewEof, bVars, Trimmed, StartOps,
         StopOps, RoundPcs, CommandPcs, Asking, Handled, AtStart, Steps,
         Feeding
<1>28. CASE DecideReformat
  BY <1>28, <1>k
     DEF DecideReformat, Deciding, NewEof, shared, iVars, bVars, Trimmed,
         StartOps, StopOps, RoundPcs, CommandPcs, Asking, Handled, AtStart,
         Steps, Feeding
<1>29. CASE DecideEnd
  BY <1>29, <1>k
     DEF DecideEnd, StopFor, Boundary, Deciding, bVars, Trimmed, StartOps,
         StopOps, RoundPcs, CommandPcs, Asking, Handled, AtStart, Steps,
         Feeding
<1>30. CASE DecideGoOn
  BY <1>30, <1>k
     DEF DecideGoOn, Boundary, Deciding, shared, iVars, bVars, Trimmed,
         StartOps, StopOps, RoundPcs, CommandPcs, Asking, Handled, AtStart,
         Steps, Feeding
<1>31. CASE IsrFire \/ IsrCopy \/ IsrMask
  BY <1>31, <1>k
     DEF IsrFire, IsrCopy, IsrMask, shared, aVars, bVars, Trimmed, StartOps,
         StopOps, RoundPcs, CommandPcs, Asking, Handled, AtStart, Steps,
         Feeding
<1>32. CASE BSeq \/ BCmd \/ BAck \/ BState \/ BLoadRd \/ BLoadWr
  BY <1>32, <1>k
     DEF BSeq, BCmd, BAck, BState, BLoadRd, BLoadWr, shared, aVars, iVars,
         Trimmed, StartOps, StopOps, RoundPcs, CommandPcs, Asking, Handled,
         AtStart, Steps, Feeding
<1>33. CASE BOpen
  <2>1. aop \in {"start", "preload", "next"} /\ arg = goal /\ apc = "wait"
    BY <1>33, Executing DEF BOpen
  <2>2. codec' # None => codec'.track = goal.track
    BY <1>33, <1>t, <2>1, FirstOf DEF BOpen, AOK
  <2> QED BY <1>33, <1>k, <2>1, <2>2 DEF BOpen, Trimmed, StartOps, aVars
<1>34. CASE BSeek
  <2>1. codec' = goal /\ btrim' = gap /\ aop \in {"seek", "startat"} /\ apc = "wait"
    BY <1>34, Sought, Executing DEF BSeek
  <2> QED BY <1>34, <1>k, <2>1 DEF BSeek, Trimmed, StartOps, aVars
<1>35. CASE BClose
  BY <1>35, <1>k, Executing
     DEF BClose, aVars, iVars, Trimmed, StartOps, StopOps, RoundPcs,
         CommandPcs, Asking, Handled, AtStart, Steps, Feeding
<1>36. CASE BDecodeError \/ BWrite \/ BPublish \/ BArm
  BY <1>36, <1>k
     DEF BDecodeError, BWrite, BPublish, BArm, shared, aVars, iVars, Trimmed,
         StartOps, StopOps, RoundPcs, CommandPcs, Asking, Handled, AtStart,
         Steps, Feeding
<1>37. CASE BDecode
  <2>1. /\ codec # None
        /\ player \in {"playing", "paused"} \/ (aop \in StartOps /\ apc = "finish")
        /\ aop = "seek" => Asking
    BY <1>37, Rounds DEF BDecode, RoundPcs
  <2>2. codec'.id = codec.id /\ codec'.track = codec.track
    BY <1>37, DecodeIs DEF IInv
  <2> QED BY <1>37, <1>k, <2>1, <2>2 DEF BDecode, Trimmed, aVars
<1> QED BY <1>1, <1>2, <1>3, <1>4, <1>5, <1>6, <1>7, <1>8, <1>9, <1>10, <1>11,
      <1>12, <1>13, <1>14, <1>15, <1>16, <1>17, <1>18, <1>19, <1>20, <1>21,
      <1>22, <1>23, <1>24, <1>25, <1>26, <1>27, <1>28, <1>29, <1>30, <1>31,
      <1>32, <1>33, <1>34, <1>35, <1>36, <1>37
    DEF Next, User, Operation, Process, Interrupt, CoreB, Command, Round


-----------------------------------------------------------------------------
(* Positions in the ring and frames counted through the streams.           *)

(* Going round n once or more is not seen modulo n.                        *)
LEMMA ModPlus ==
    ASSUME NEW a \in Int, NEW k \in Int, NEW n \in Nat \ {0}
    PROVE  (a + n * k) % n = a % n
<1> DEFINE q == a \div n
           m == a % n
<1>1. q \in Int /\ m \in 0 .. n - 1 /\ a = n * q + m
  OBVIOUS
<1> HIDE DEF q, m
<1>2. a + n * k = n * (q + k) + m
  BY <1>1
<1>3. (n * (q + k) + m) % n = m
  BY <1>1
<1> QED BY <1>2, <1>3 DEF m

(* Every position has a slot.                                              *)
LEMMA SlotRange ==
    ASSUME NEW c \in Int
    PROVE  Slot(c) \in 0 .. RingFrames - 1
BY PcmConstants, ModRange DEF Slot

(* The ring size divides the width of the counters.                        *)
LEMMA SlotWraps ==
    ASSUME NEW c \in Int
    PROVE  Slot(c - Modulus) = Slot(c)
<1>1. PICK m \in Nat : Modulus = RingFrames * m /\ RingFrames \in Nat \ {0}
  BY PcmAssumption, PcmConstants
<1>2. c - Modulus = c + RingFrames * (-m)
  BY <1>1
<1>3. -m \in Int
  BY <1>1
<1>4. (c + RingFrames * (-m)) % RingFrames = c % RingFrames
  BY <1>1, <1>3, ModPlus
<1> QED BY <1>2, <1>4 DEF Slot

(* The slot k places after a counter that has moved on.                    *)
LEMMA SlotMoved ==
    ASSUME NEW c \in Counters, NEW n \in 0 .. RingFrames, NEW k \in Int
    PROVE  Slot(((c + n) % Modulus) + k) = Slot(c + n + k)
<1>1. c \in Int /\ n \in Int /\ Modulus \in Int
  BY PcmConstants DEF Counters
<1>2. (c + n) % Modulus = c + n \/ (c + n) % Modulus = c + n - Modulus
  BY MovedIs
<1>3. (c + n - Modulus) + k = (c + n + k) - Modulus /\ c + n + k \in Int
  BY <1>1
<1> QED BY <1>2, <1>3, SlotWraps

(* The slot k places after the newest frame, counted from the oldest.      *)
LEMMA SlotAfter ==
    ASSUME NEW w \in Counters, NEW r \in Counters, NEW k \in Int
    PROVE  Slot(w + k) = Slot(r + (Fill(w, r) + k))
<1>1. w \in Int /\ r \in Int /\ Modulus \in Int
  BY PcmConstants DEF Counters
<1>2. CASE w >= r
  <2>1. r + (Fill(w, r) + k) = w + k
    BY <1>1, <1>2, FillIs
  <2> QED BY <2>1
<1>3. CASE ~(w >= r)
  <2>1. r + (Fill(w, r) + k) = w + k + Modulus
    BY <1>1, <1>3, FillIs
  <2>2. w + k + Modulus \in Int /\ (w + k + Modulus) - Modulus = w + k
    BY <1>1
  <2> QED BY <2>1, <2>2, SlotWraps
<1> QED BY <1>2, <1>3

(* A position that is d places after w, but for turns of the ring.         *)
LEMMA SlotOffset ==
    ASSUME NEW n \in Nat \ {0}, NEW p \in Int, NEW w \in Int, NEW d \in 0 .. n - 1,
           NEW e \in Int, p = w + d + n * e
    PROVE  ((p % n) - w) % n = d
<1> DEFINE q == p \div n
           m == p % n
<1>1. q \in Int /\ m \in 0 .. n - 1 /\ p = n * q + m
  OBVIOUS
<1> HIDE DEF q, m
<1>2. m - w = d + n * (e - q)
  BY <1>1
<1>3. e - q \in Int /\ d \in Int /\ d % n = d
  BY <1>1, ModSmall
<1>4. (d + n * (e - q)) % n = d
  BY <1>3, ModPlus
<1> QED BY <1>2, <1>4 DEF m

(* The slots B writes are those after the newest frame, and no frame still *)
(* to be played is in one of them.                                         *)
LEMMA SlotWritten ==
    ASSUME NEW w \in Counters, NEW k \in 0 .. RingFrames - 1
    PROVE  (Slot(w + k) - w) % RingFrames = k
<1>1. w \in Int /\ k \in Int /\ RingFrames \in Nat \ {0} /\ w + k \in Int
  BY PcmConstants DEF Counters
<1>2. PICK e \in Int : e = 0
  OBVIOUS
<1>3. w + k = w + k + RingFrames * e
  BY <1>1, <1>2
<1> QED BY <1>1, <1>3, SlotOffset DEF Slot

(* The slot of a frame still to be played, seen from where B writes.       *)
LEMMA SlotQueued ==
    ASSUME NEW w \in Counters, NEW r \in Counters, Fill(w, r) <= RingFrames,
           NEW k \in Nat, k < Fill(w, r)
    PROVE  (Slot(r + k) - w) % RingFrames = RingFrames - Fill(w, r) + k
<1> DEFINE f == Fill(w, r)
           d == RingFrames - f + k
<1>1. w \in Int /\ r \in Int /\ f \in Nat /\ RingFrames \in Nat \ {0} /\ Modulus \in Int
  BY PcmConstants, FillIs DEF Counters
<1>2. PICK m \in Nat : Modulus = RingFrames * m
  BY PcmAssumption, PcmConstants
<1>3. f = w - r \/ f = w - r + Modulus
  BY FillIs
<1> HIDE DEF f
<1>4. d \in 0 .. RingFrames - 1 /\ d = RingFrames - f + k
  BY <1>1 DEF f
<1> HIDE DEF d
<1>5. CASE f = w - r
  <2>1. PICK e \in Int : e = -1
    OBVIOUS
  <2>2. r + k = w + d + RingFrames * e /\ r + k \in Int
    BY <1>1, <1>4, <1>5, <2>1
  <2> QED BY <1>1, <1>4, <2>2, SlotOffset DEF Slot, d, f
<1>6. CASE f = w - r + Modulus
  <2>1. RingFrames * (m - 1) = Modulus - RingFrames
    BY <1>1, <1>2
  <2>2. r + k = w + d + RingFrames * (m - 1) /\ r + k \in Int /\ m - 1 \in Int
    BY <1>1, <1>2, <1>4, <1>6, <2>1
  <2> QED BY <1>1, <1>4, <2>2, SlotOffset DEF Slot, d, f
<1> QED BY <1>3, <1>5, <1>6

(* How the number of queued frames changes with the indices.               *)
LEMMA FillTaken ==
    ASSUME NEW w \in Counters, NEW r \in Counters, w # r
    PROVE  Fill(w, (r + 1) % Modulus) = Fill(w, r) - 1
<1>1. 1 \in 0 .. RingFrames /\ Modulus \in Nat /\ Modulus > 1
  BY PcmConstants
<1>2. (r + 1) % Modulus \in Counters
      /\ (r + 1) % Modulus = IF r + 1 < Modulus THEN r + 1 ELSE r + 1 - Modulus
  BY <1>1, MovedIs
<1> DEFINE s == (r + 1) % Modulus
<1>3. Fill(w, s) = IF w >= s THEN w - s ELSE w - s + Modulus
  BY <1>2, FillIs
<1>4. Fill(w, r) = IF w >= r THEN w - r ELSE w - r + Modulus
  BY FillIs
<1> HIDE DEF s
<1>5. w \in 0 .. Modulus - 1 /\ r \in 0 .. Modulus - 1
      /\ s = IF r + 1 < Modulus THEN r + 1 ELSE r + 1 - Modulus
  BY <1>2 DEF Counters, s
<1> QED BY <1>1, <1>3, <1>4, <1>5 DEF s

(* The interrupt takes one, B adds n.                                      *)
LEMMA FillGrown ==
    ASSUME NEW w \in Counters, NEW r \in Counters, NEW n \in 0 .. RingFrames,
           Fill(w, r) + n < Modulus
    PROVE  Fill((w + n) % Modulus, r) = Fill(w, r) + n
<1> DEFINE v == (w + n) % Modulus
<1>2. v \in Counters /\ v = IF w + n < Modulus THEN w + n ELSE w + n - Modulus
  BY MovedIs
<1>3. Fill(v, r) = IF v >= r THEN v - r ELSE v - r + Modulus
  BY <1>2, FillIs
<1>4. Fill(w, r) = IF w >= r THEN w - r ELSE w - r + Modulus
  BY FillIs
<1> HIDE DEF v
<1>5. w \in 0 .. Modulus - 1 /\ r \in 0 .. Modulus - 1 /\ v \in 0 .. Modulus - 1
      /\ Modulus \in Nat /\ n \in Nat
  BY <1>2, PcmConstants DEF Counters
<1> QED BY <1>2, <1>3, <1>4, <1>5 DEF v

(* What is queued after one counter and what was queued before it.         *)
LEMMA FillSum ==
    ASSUME NEW a \in Counters, NEW b \in Counters, NEW c \in Counters,
           Fill(b, a) + Fill(c, b) < Modulus
    PROVE  Fill(c, a) = Fill(b, a) + Fill(c, b)
<1>1. /\ Fill(b, a) = IF b >= a THEN b - a ELSE b - a + Modulus
      /\ Fill(c, b) = IF c >= b THEN c - b ELSE c - b + Modulus
      /\ Fill(c, a) = IF c >= a THEN c - a ELSE c - a + Modulus
  BY FillIs
<1>2. a \in 0 .. Modulus - 1 /\ b \in 0 .. Modulus - 1 /\ c \in 0 .. Modulus - 1
      /\ Modulus \in Nat
  BY PcmConstants DEF Counters
<1> QED BY <1>1, <1>2

(* The last frame of a stream is followed by the first of the next.        *)
LEMMA LinIs ==
    ASSUME NEW id \in Int, NEW pos \in Int
    PROVE  Lin(id, pos) \in Int /\ Lin(id + 1, 0) = Lin(id, TrackFrames)
<1>1. TrackFrames \in Nat /\ id * TrackFrames \in Int
  BY PcmConstants
<1>2. (id + 1) * TrackFrames = id * TrackFrames + TrackFrames
  BY <1>1
<1> QED BY <1>1, <1>2 DEF Lin

(* Numbers go up by one within a stream.                                   *)
LEMMA LinPlus ==
    ASSUME NEW id \in Int, NEW pos \in Int, NEW n \in Int
    PROVE  Lin(id, pos + n) = Lin(id, pos) + n
<1>1. id * TrackFrames \in Int
  BY PcmConstants
<1> QED BY <1>1 DEF Lin

(* Nor does it matter how the first frame of a stream is named.            *)
LEMMA LinFirst ==
    ASSUME NEW s \in Streams
    PROVE  Lin(FirstFrame(s)[1], FirstFrame(s)[2]) = Lin(s.id, s.pos)
<1>1. s.id \in Int /\ s.pos \in 0 .. TrackFrames /\ TrackFrames \in Nat
  BY PcmConstants DEF Streams
<1>2. s.pos < TrackFrames \/ s.pos = TrackFrames
  BY <1>1
<1> QED BY <1>1, <1>2, LinIs DEF FirstFrame

(* Each frame has the number after that of the one before.                 *)
LEMMA LinAfter ==
    ASSUME NEW f \in Nat \X (0 .. TrackFrames - 1)
    PROVE  Lin(FrameAfter(f)[1], FrameAfter(f)[2]) = Lin(f[1], f[2]) + 1
<1>1. f[1] \in Int /\ f[2] \in 0 .. TrackFrames - 1 /\ TrackFrames \in Nat /\ f[2] \in Int
  BY PcmConstants
<1>2. f[2] + 1 < TrackFrames \/ f[2] + 1 = TrackFrames
  BY <1>1
<1>3. Lin(f[1], f[2] + 1) = Lin(f[1], f[2]) + 1
  BY <1>1, LinPlus
<1> QED BY <1>1, <1>2, <1>3, LinIs DEF FrameAfter

(* A frame is known by its number.                                         *)
LEMMA LinInj ==
    ASSUME NEW f \in Nat \X (0 .. TrackFrames - 1), NEW g \in Nat \X (0 .. TrackFrames - 1),
           Lin(f[1], f[2]) = Lin(g[1], g[2])
    PROVE  f = g
<1> DEFINE T == TrackFrames
<1>1. f[1] \in Nat /\ f[2] \in 0 .. T - 1 /\ g[1] \in Nat /\ g[2] \in 0 .. T - 1 /\ T \in Nat
  BY PcmConstants
<1>2. f[1] * T + f[2] = g[1] * T + g[2]
  BY DEF Lin
<1>3. ASSUME NEW i \in Nat, NEW j \in Nat, NEW a \in 0 .. T - 1, NEW b \in 0 .. T - 1,
             i * T + a = j * T + b, i < j
      PROVE  FALSE
  <2>1. j * T = i * T + (j - i) * T
    BY <1>1, <1>3
  <2>2. j - i >= 1 /\ j - i \in Nat
    BY <1>3
  <2>3. (j - i) * T >= T
    BY <2>2, <1>1
  <2>4. i * T \in Int /\ (j - i) * T \in Int
    BY <1>1, <2>2
  <2> QED BY <1>1, <1>3, <2>1, <2>3, <2>4
<1>4. f[1] = g[1]
  BY <1>1, <1>2, <1>3
<1>5. f[2] = g[2]
  <2>1. f[1] * T \in Int
    BY <1>1
  <2> QED BY <1>1, <1>2, <1>4, <2>1
<1>6. f = <<f[1], f[2]>> /\ g = <<g[1], g[2]>>
  OBVIOUS
<1> QED BY <1>4, <1>5, <1>6

-----------------------------------------------------------------------------
(* The indices and what the ring holds.                                    *)

(* While the AP rewrites the indices neither B nor the interrupt runs.      *)
LEMMA Rewriting ==
    ASSUME IInv, apc \in {"rd", "wr"}
    PROVE  bpc \notin RoundPcs /\ isr = "off"
<1>1. aop \in {"start", "seek"} \cup StopOps
  BY Parts DEF Steps
<1>2. CASE aop = "start"
  BY <1>2, Rounds, Parts DEF Steps, Feeding, StartOps
<1>3. CASE aop = "seek"
  BY <1>3, Rounds, Parts DEF Feeding, Asking
<1>4. CASE aop \in StopOps
  BY <1>4, Parts DEF Feeding, Parked, StopOps
<1> QED BY <1>1, <1>2, <1>3, <1>4

(* Nor before a start, or while a seek starts the feeder again.             *)
LEMMA Starting ==
    ASSUME IInv, \/ aop \in StartOps /\ apc # "finish"
                 \/ aop = "seek" /\ apc = "finish"
    PROVE  bpc \notin RoundPcs /\ isr = "off"
<1>1. CASE aop \in StartOps
  BY <1>1, Rounds, Parts DEF Steps, Feeding, StartOps
<1>2. CASE aop = "seek"
  BY <1>2, Rounds, Parts DEF Feeding, Asking, StartOps
<1> QED BY <1>1, <1>2

(* The indices are counters, so B's copies of them are.                    *)
LEMMA IndexTypes ==
    ASSUME IInv
    PROVE  /\ rd \in Counters /\ wr \in Counters /\ brd \in Counters /\ bwr \in Counters
           /\ bgot \in 0 .. Chunk /\ bgot \in 0 .. RingFrames /\ 1 \in 0 .. RingFrames
           /\ Fill(wr, rd) \in Nat /\ Fill(rd, brd) \in Nat
           /\ RingFrames \in Nat /\ Chunk \in Nat /\ RingFrames < Modulus /\ Modulus \in Nat
<1>1. rd \in Counters /\ wr \in Counters /\ brd \in Counters /\ bwr \in Counters
      /\ bgot \in 0 .. Chunk
  BY Parts DEF SharedOK, CoreOK
<1>2. /\ RingFrames \in Nat /\ Chunk \in Nat /\ RingFrames < Modulus /\ Modulus \in Nat
      /\ 1 \in 0 .. RingFrames /\ 0 .. Chunk \subseteq 0 .. RingFrames
  BY PcmConstants
<1> QED BY <1>1, <1>2, FillIs

(* Every rewrite, take and publication keeps the indices in bounds.        *)
LEMMA IndicesKept ==
    ASSUME IInv, Patient, Next
    PROVE  Indices'
<1>t. SharedOK /\ AOK /\ FeederOK /\ CoreOK /\ InRange
  BY Parts
<1>k. /\ Steps /\ Outstanding /\ Feeding /\ Parked /\ Opening /\ Going
      /\ Indices /\ Contents /\ Trimmed
  BY Parts
<1>1. CASE \E p \in SeekTargets \cup {0} : Start(p)
  BY <1>1, <1>k
     DEF Start, AtRest, iVars, bVars, Indices, StartOps, StopOps, Steps
<1>2. CASE Preload
  BY <1>2, <1>k
     DEF Preload, AtRest, shared, iVars, bVars, Indices, StartOps, StopOps,
         Steps
<1>3. CASE \E p \in SeekTargets : Seek(p)
  BY <1>3, <1>k DEF Seek, AtRest, bVars, Indices, StartOps, StopOps, Steps
<1>4. CASE Stop
  BY <1>4, <1>k
     DEF Stop, StopFor, AtRest, bVars, Indices, StartOps, StopOps, Steps
<1>5. CASE \E t \in 1 .. LastTrack : Skip(t)
  BY <1>5, <1>k
     DEF Skip, StopFor, AtRest, bVars, Indices, StartOps, StopOps, Steps
<1>6. CASE Pause \/ Resume
  BY <1>6, <1>k
     DEF Pause, AtRest, Resume, bVars, Indices, StartOps, StopOps, Steps
<1>7. CASE PostArg
  BY <1>7, <1>k DEF PostArg, iVars, bVars, Indices, StartOps, StopOps, Steps
<1>8. CASE PostCmd
  BY <1>8, <1>k DEF PostCmd, iVars, bVars, Indices, StartOps, StopOps, Steps
<1>9. CASE PostSeq
  BY <1>9, <1>k DEF PostSeq, iVars, bVars, Indices, StartOps, StopOps, Steps
<1>10. CASE WaitOpen
  BY <1>10, <1>k, Waited
     DEF WaitOpen, Opened, Answered, shared, iVars, bVars, Indices, StartOps,
         StopOps, Steps
<1>11. CASE WaitSeek
  BY <1>11, <1>k, Waited
     DEF WaitSeek, shared, iVars, bVars, Indices, StartOps, StopOps, Steps
<1>12. CASE WaitClose
  BY <1>12, <1>k, Waited
     DEF WaitClose, bVars, Indices, StartOps, StopOps, Steps
<1>13. CASE ZeroRd
  <2>1. bpc \notin RoundPcs /\ isr = "off"
    BY <1>13, Rewriting DEF ZeroRd
  <2> QED BY <1>13, <1>k, <2>1 DEF ZeroRd, Indices, RoundPcs, Steps, StartOps, bVars, iVars
<1>14. CASE ZeroWr
  <2>1. bpc \notin RoundPcs /\ isr = "off"
    BY <1>14, Rewriting DEF ZeroWr
  <2>2. Fill(0, 0) <= RingFrames
    BY Zeros, FillIs, PcmConstants
  <2> QED BY <1>14, <1>k, <2>1, <2>2 DEF ZeroWr, Indices, RoundPcs, StartOps, bVars, iVars
<1>15. CASE RunB
  BY <1>15, <1>k DEF RunB, iVars, bVars, Indices, StartOps, StopOps, Steps
<1>16. CASE FinishStart
  BY <1>16, <1>k
     DEF FinishStart, Finished, shared, bVars, Indices, StartOps, StopOps,
         Steps
<1>17. CASE FinishPreload
  BY <1>17, <1>k
     DEF FinishPreload, Finished, shared, iVars, bVars, Indices, StartOps,
         StopOps, Steps
<1>18. CASE FinishSeek
  BY <1>18, <1>k
     DEF FinishSeek, Finished, bVars, Indices, StartOps, StopOps, Steps
<1>19. CASE FinishNext
  BY <1>19, <1>k
     DEF FinishNext, Finished, shared, iVars, bVars, Indices, StartOps,
         StopOps, Steps
<1>20. CASE FinishStop
  BY <1>20, <1>k
     DEF FinishStop, Finished, shared, iVars, bVars, Indices, StartOps,
         StopOps, Steps
<1>21. CASE SnapRd
  BY <1>21, <1>k
     DEF SnapRd, AtRest, shared, iVars, bVars, Indices, StartOps, StopOps,
         Steps
<1>22. CASE SnapWr
  BY <1>22, <1>k
     DEF SnapWr, shared, iVars, bVars, Indices, StartOps, StopOps, Steps
<1>23. CASE SnapEof
  BY <1>23, <1>k
     DEF SnapEof, shared, iVars, bVars, Indices, StartOps, StopOps, Steps
<1>24. CASE DecideError
  BY <1>24, <1>k
     DEF DecideError, StopFor, Deciding, bVars, Indices, StartOps, StopOps,
         Steps
<1>25. CASE DecideNext
  BY <1>25, <1>k
     DEF DecideNext, Deciding, NewEof, iVars, bVars, Indices, StartOps,
         StopOps, Steps
<1>26. CASE DecideRestart
  BY <1>26, <1>k
     DEF DecideRestart, StopFor, Deciding, NewEof, bVars, Indices, StartOps,
         StopOps, Steps
<1>27. CASE DecideReformat
  BY <1>27, <1>k
     DEF DecideReformat, Deciding, NewEof, shared, iVars, bVars, Indices,
         StartOps, StopOps, Steps
<1>28. CASE DecideEnd
  BY <1>28, <1>k
     DEF DecideEnd, StopFor, Boundary, Deciding, bVars, Indices, StartOps,
         StopOps, Steps
<1>29. CASE DecideGoOn
  BY <1>29, <1>k
     DEF DecideGoOn, Boundary, Deciding, shared, iVars, bVars, Indices,
         StartOps, StopOps, Steps
<1>30. CASE IsrFire
  BY <1>30, <1>k
     DEF IsrFire, shared, aVars, bVars, Indices, StartOps, StopOps, Steps
<1>31. CASE IsrCopy
  <2>1. apc \notin {"rd", "wr"} /\ ~(aop \in StartOps /\ apc # "finish")
        /\ ~(aop = "seek" /\ apc = "finish")
    BY <1>31, Rewriting, Starting DEF IsrCopy
  <2>2. rd # wr
    BY <1>31, <1>k DEF IsrCopy, Indices
  <2>3. Fill(wr, rd') = Fill(wr, rd) - 1
    BY <1>31, <2>2, IndexTypes, FillTaken DEF IsrCopy
  <2>4. bpc = "wr" => Fill(rd', brd) = Fill(rd, brd) + 1
    <3>1. Fill(wr, rd) # 0
      BY <2>2, IndexTypes, FillIs
    <3>2. bpc = "wr" => Fill(rd, brd) + 1 < Modulus
      BY <1>k, <3>1, IndexTypes DEF Indices
    <3> QED BY <1>31, <3>2, IndexTypes, FillGrown DEF IsrCopy
  <2>5. /\ Fill(wr, rd) \in Int /\ Fill(rd, brd) \in Int /\ Chunk \in Int
        /\ RingFrames \in Int
    BY IndexTypes
  <2>6. /\ Fill(wr, rd') <= RingFrames
        /\ bpc = "wr" => Fill(rd', brd) + Fill(wr, rd') <= RingFrames
        /\ bpc \in {"decode", "write", "publish"} =>
              bwr = wr /\ Fill(wr, rd') + Chunk <= RingFrames
    BY <1>k, <2>1, <2>3, <2>4, <2>5 DEF Indices
  <2> QED BY <1>31, <2>1, <2>6 DEF IsrCopy, Indices, StartOps, aVars, bVars
<1>32. CASE IsrMask
  BY <1>32, <1>k
     DEF IsrMask, shared, aVars, bVars, Indices, StartOps, StopOps, Steps
<1>33. CASE BSeq
  BY <1>33, <1>k
     DEF BSeq, shared, aVars, iVars, Indices, StartOps, StopOps, Steps
<1>34. CASE BCmd
  BY <1>34, <1>k
     DEF BCmd, shared, aVars, iVars, Indices, StartOps, StopOps, Steps
<1>35. CASE BOpen
  BY <1>35, <1>k DEF BOpen, aVars, iVars, Indices, StartOps, StopOps, Steps
<1>36. CASE BSeek
  BY <1>36, <1>k DEF BSeek, aVars, iVars, Indices, StartOps, StopOps, Steps
<1>37. CASE BClose
  BY <1>37, <1>k DEF BClose, aVars, iVars, Indices, StartOps, StopOps, Steps
<1>38. CASE BAck
  BY <1>38, <1>k DEF BAck, aVars, iVars, Indices, StartOps, StopOps, Steps
<1>39. CASE BState
  BY <1>39, <1>k
     DEF BState, shared, aVars, iVars, Indices, StartOps, StopOps, Steps
<1>40. CASE BLoadRd
  <2>1. apc # "wr"
    BY <1>40, Rewriting DEF BLoadRd, RoundPcs
  <2>2. Fill(rd, rd) + Fill(wr, rd) <= RingFrames
    BY <1>k, <2>1, IndexTypes, FillIs DEF Indices
  <2> QED BY <1>40, <1>k, <2>2 DEF BLoadRd, Indices, shared, aVars, iVars
<1>41. CASE BLoadWr
  <2>1. Fill(rd, brd) + Fill(wr, rd) <= RingFrames
    BY <1>41, <1>k DEF BLoadWr, Indices
  <2>2. Fill(wr, brd) = Fill(rd, brd) + Fill(wr, rd)
    BY <2>1, IndexTypes, FillSum
  <2>3. (RingFrames - Fill(wr, brd)) % Modulus = RingFrames - Fill(wr, brd)
    BY <2>1, <2>2, IndexTypes, ModSmall
  <2>4. bpc' = "decode" => Fill(wr, rd) + Chunk <= RingFrames
    BY <1>41, <2>2, <2>3, IndexTypes DEF BLoadWr
  <2>5. bpc' \in {"loop", "decode"} /\ bwr' = wr
    BY <1>41 DEF BLoadWr
  <2> QED BY <1>41, <1>k, <2>4, <2>5 DEF BLoadWr, Indices, shared, aVars, iVars
<1>42. CASE BDecodeError
  BY <1>42, <1>k
     DEF BDecodeError, aVars, iVars, Indices, StartOps, StopOps, Steps
<1>43. CASE BDecode
  <2>1. bpc' \in {"loop", "write"}
    BY <1>43 DEF BDecode
  <2> QED BY <1>43, <1>k, <2>1 DEF BDecode, Indices, aVars, iVars
<1>44. CASE BWrite
  BY <1>44, <1>k DEF BWrite, aVars, iVars, Indices, StartOps, StopOps, Steps
<1>45. CASE BPublish
  <2>1. apc \notin {"rd", "wr"} /\ ~(aop \in StartOps /\ apc # "finish")
        /\ ~(aop = "seek" /\ apc = "finish")
    BY <1>45, Rewriting, Starting DEF BPublish, RoundPcs
  <2>2. bwr = wr /\ Fill(wr, rd) + Chunk <= RingFrames
    BY <1>45, <1>k DEF BPublish, Indices
  <2>3. Fill(wr, rd) + bgot <= RingFrames /\ Fill(wr, rd) + bgot < Modulus
    BY <2>2, IndexTypes
  <2>4. Fill(wr', rd) = Fill(wr, rd) + bgot
    BY <1>45, <2>2, <2>3, IndexTypes, FillGrown DEF BPublish
  <2>5. isr = "copy" => rd # wr'
    <3>1. isr = "copy" => Fill(wr, rd) # 0
      BY <1>k, IndexTypes, FillIs DEF Indices
    <3>2. isr = "copy" => Fill(wr', rd) # 0
      BY <2>4, <3>1, IndexTypes
    <3>3. Fill(rd, rd) = 0
      BY IndexTypes, FillIs
    <3> QED BY <3>2, <3>3
  <2>6. Fill(wr', rd) <= RingFrames
    BY <2>3, <2>4
  <2> QED BY <1>45, <2>1, <2>5, <2>6 DEF BPublish, Indices, StartOps, aVars, iVars
<1>46. CASE BArm
  BY <1>46, <1>k DEF BArm, shared, aVars, Indices, StartOps, StopOps, Steps
<1> QED BY <1>1, <1>2, <1>3, <1>4, <1>5, <1>6, <1>7, <1>8, <1>9, <1>10, <1>11,
      <1>12, <1>13, <1>14, <1>15, <1>16, <1>17, <1>18, <1>19, <1>20, <1>21,
      <1>22, <1>23, <1>24, <1>25, <1>26, <1>27, <1>28, <1>29, <1>30, <1>31,
      <1>32, <1>33, <1>34, <1>35, <1>36, <1>37, <1>38, <1>39, <1>40, <1>41,
      <1>42, <1>43, <1>44, <1>45, <1>46
    DEF Next, User, Operation, Process, Interrupt, CoreB, Command, Round

(* Steps that move no frame keep what the ring holds, if they do not change *)
(* which frame is expected.                                                *)
LEMMA SameContents ==
    ASSUME IInv, UNCHANGED <<rd, wr, ring, codec>>, Pending' = Pending,
           bpc' = "publish" => bpc = "publish" /\ bwr' = bwr /\ bgot' = bgot,
           Live' \/ Ready' => (Live \/ Ready) /\ Expect' = Expect
    PROVE  Contents'
<1>1. Written'
  BY Parts DEF Contents, Written
<1>2. ASSUME Live' \/ Ready' PROVE Queue' /\ Continued'
  <2>1. Queue /\ Continued /\ Expect' = Expect
    BY <1>2, Parts DEF Contents
  <2>2. Fill(wr, rd)' = Fill(wr, rd)
    OBVIOUS
  <2>3. Queue'
    BY <2>1 DEF Queue, LinAt
  <2>4. Continued'
    BY <2>1 DEF Continued
  <2> QED BY <2>3, <2>4
<1> QED BY <1>1, <1>2 DEF Contents

(* A ring that was emptied holds what is expected if B stands there.       *)
LEMMA EmptyContents ==
    ASSUME IInv, rd' = 0, wr' = 0, UNCHANGED bVars, bpc \notin RoundPcs,
           Ready' => codec = goal /\ Expect' = Lin(goal.id, goal.pos), ~Live'
    PROVE  Contents'
<1>1. bpc' \notin {"write", "publish"} /\ codec' = codec
  BY DEF bVars, RoundPcs
<1>2. Fill(0, 0) = 0
  BY Zeros, FillIs
<1>3. Written'
  BY <1>1 DEF Written
<1>4. ASSUME Ready' PROVE Queue' /\ Continued'
  <2>1. Fill(wr, rd)' = 0
    BY <1>2
  <2>2. Queue'
    BY <2>1 DEF Queue
  <2>3. goal.id \in Int /\ goal.pos \in Int
    BY Parts, PcmConstants DEF AOK, Streams
  <2>4. Lin(goal.id, goal.pos) \in Int
    BY <2>3, LinIs
  <2>5. Pending' = 0
    BY <1>1 DEF Pending
  <2>6. Continued'
    BY <1>1, <1>4, <2>1, <2>4, <2>5 DEF Continued
  <2> QED BY <2>2, <2>6
<1> QED BY <1>3, <1>4 DEF Contents

(* The frame expected next is known by a number, and so are those queued.  *)
LEMMA ExpectTypes ==
    ASSUME IInv
    PROVE  /\ Expect \in Int /\ Lin(due[1], due[2]) \in Int
           /\ goal \in Streams /\ codec \in Streams
           /\ codec.id \in Nat /\ codec.pos \in Nat /\ goal.id \in Nat /\ goal.pos \in Nat
           /\ Lin(codec.id, codec.pos) \in Int /\ Pending \in Nat
           /\ due \in Nat \X (0 .. TrackFrames - 1)
<1>1. /\ goal \in Streams /\ codec \in Streams /\ due \in Nat \X (0 .. TrackFrames - 1)
      /\ bgot \in 0 .. Chunk
  BY Parts DEF AOK, CoreOK, FeederOK
<1>2. codec.id \in Nat /\ codec.pos \in Nat /\ goal.id \in Nat /\ goal.pos \in Nat
      /\ due[1] \in Nat /\ due[2] \in Nat /\ Chunk \in Nat
  BY <1>1, PcmConstants DEF Streams
<1>i. \A n \in Nat : n \in Int
  OBVIOUS
<1>a. Lin(goal.id, goal.pos) \in Int
  BY <1>2, <1>i, LinIs
<1>b. Lin(codec.id, codec.pos) \in Int
  BY <1>2, <1>i, LinIs
<1>c. Lin(due[1], due[2]) \in Int
  BY <1>2, <1>i, LinIs
<1>3. /\ Lin(goal.id, goal.pos) \in Int /\ Lin(codec.id, codec.pos) \in Int
      /\ Lin(due[1], due[2]) \in Int
  BY <1>a, <1>b, <1>c
<1>4. Expect \in Int
  BY <1>3 DEF Expect
<1>5. Pending \in Nat
  BY <1>1, <1>2 DEF Pending
<1> QED BY <1>1, <1>2, <1>3, <1>4, <1>5

(* When frames move, the AP is at no start.                                *)
LEMMA Playing ==
    ASSUME IInv, Live
    PROVE  /\ player \in {"playing", "paused"} /\ aop \notin {"seek", "preload"} \cup StartOps
           /\ Expect = Lin(due[1], due[2]) /\ ~Ready
BY Parts DEF Live, Ready, Expect, Feeding, Steps, StartOps

(* Every step keeps the frames of the ring in order and B next to them.    *)
LEMMA ContentsKept ==
    ASSUME IInv, Patient, Next
    PROVE  Contents'
<1>t. SharedOK /\ AOK /\ FeederOK /\ CoreOK /\ InRange
  BY Parts
<1>k. /\ Steps /\ Outstanding /\ Feeding /\ Parked /\ Opening /\ Going
      /\ Indices /\ Contents /\ Trimmed
  BY Parts
<1>1. CASE \E p \in SeekTargets \cup {0} : Start(p)
  <2>1. /\ UNCHANGED <<rd, wr, ring, codec>> /\ Pending' = Pending
        /\ bpc' = "publish" => bpc = "publish" /\ bwr' = bwr /\ bgot' = bgot
    BY <1>1 DEF Start, AtRest, iVars, bVars, Pending
  <2>2. Live' \/ Ready' => (Live \/ Ready) /\ Expect' = Expect
    BY <1>1, <1>k
       DEF Start, AtRest, iVars, bVars, Live, Ready, Expect, Feeding, Steps,
           StartOps, StopOps
  <2> QED BY <2>1, <2>2, SameContents
<1>2. CASE Preload
  <2>1. /\ UNCHANGED <<rd, wr, ring, codec>> /\ Pending' = Pending
        /\ bpc' = "publish" => bpc = "publish" /\ bwr' = bwr /\ bgot' = bgot
    BY <1>2 DEF Preload, AtRest, shared, iVars, bVars, Pending
  <2>2. Live' \/ Ready' => (Live \/ Ready) /\ Expect' = Expect
    BY <1>2, <1>k
       DEF Preload, AtRest, shared, iVars, bVars, Live, Ready, Expect, Feeding,
           Steps, StartOps, StopOps
  <2> QED BY <2>1, <2>2, SameContents
<1>3. CASE \E p \in SeekTargets : Seek(p)
  <2>1. /\ UNCHANGED <<rd, wr, ring, codec>> /\ Pending' = Pending
        /\ bpc' = "publish" => bpc = "publish" /\ bwr' = bwr /\ bgot' = bgot
    BY <1>3 DEF Seek, AtRest, bVars, Pending
  <2>2. Live' \/ Ready' => (Live \/ Ready) /\ Expect' = Expect
    BY <1>3, <1>k
       DEF Seek, AtRest, bVars, Live, Ready, Expect, Feeding, Steps, StartOps,
           StopOps
  <2> QED BY <2>1, <2>2, SameContents
<1>4. CASE Stop
  <2>1. /\ UNCHANGED <<rd, wr, ring, codec>> /\ Pending' = Pending
        /\ bpc' = "publish" => bpc = "publish" /\ bwr' = bwr /\ bgot' = bgot
    BY <1>4 DEF Stop, StopFor, AtRest, bVars, Pending
  <2>2. Live' \/ Ready' => (Live \/ Ready) /\ Expect' = Expect
    BY <1>4, <1>k
       DEF Stop, StopFor, AtRest, bVars, Live, Ready, Expect, Feeding, Steps,
           StartOps, StopOps
  <2> QED BY <2>1, <2>2, SameContents
<1>5. CASE \E t \in 1 .. LastTrack : Skip(t)
  <2>1. /\ UNCHANGED <<rd, wr, ring, codec>> /\ Pending' = Pending
        /\ bpc' = "publish" => bpc = "publish" /\ bwr' = bwr /\ bgot' = bgot
    BY <1>5 DEF Skip, StopFor, AtRest, bVars, Pending
  <2>2. Live' \/ Ready' => (Live \/ Ready) /\ Expect' = Expect
    BY <1>5, <1>k
       DEF Skip, StopFor, AtRest, bVars, Live, Ready, Expect, Feeding, Steps,
           StartOps, StopOps
  <2> QED BY <2>1, <2>2, SameContents
<1>6. CASE Pause \/ Resume
  BY <1>6, <1>k
     DEF Pause, AtRest, Resume, bVars, Contents, Live, Ready, Queue, Continued,
         Written, Expect, Pending, LinAt
<1>7. CASE PostArg
  <2>1. /\ UNCHANGED <<rd, wr, ring, codec>> /\ Pending' = Pending
        /\ bpc' = "publish" => bpc = "publish" /\ bwr' = bwr /\ bgot' = bgot
    BY <1>7 DEF PostArg, iVars, bVars, Pending
  <2>2. Live' \/ Ready' => (Live \/ Ready) /\ Expect' = Expect
    BY <1>7, <1>k
       DEF PostArg, iVars, bVars, Live, Ready, Expect, Feeding, Steps,
           StartOps, StopOps
  <2> QED BY <2>1, <2>2, SameContents
<1>8. CASE PostCmd
  <2>1. /\ UNCHANGED <<rd, wr, ring, codec>> /\ Pending' = Pending
        /\ bpc' = "publish" => bpc = "publish" /\ bwr' = bwr /\ bgot' = bgot
    BY <1>8 DEF PostCmd, iVars, bVars, Pending
  <2>2. Live' \/ Ready' => (Live \/ Ready) /\ Expect' = Expect
    BY <1>8, <1>k
       DEF PostCmd, iVars, bVars, Live, Ready, Expect, Feeding, Steps,
           StartOps, StopOps
  <2> QED BY <2>1, <2>2, SameContents
<1>9. CASE PostSeq
  <2>1. /\ UNCHANGED <<rd, wr, ring, codec>> /\ Pending' = Pending
        /\ bpc' = "publish" => bpc = "publish" /\ bwr' = bwr /\ bgot' = bgot
    BY <1>9 DEF PostSeq, iVars, bVars, Pending
  <2>2. Live' \/ Ready' => (Live \/ Ready) /\ Expect' = Expect
    BY <1>9, <1>k
       DEF PostSeq, iVars, bVars, Live, Ready, Expect, Feeding, Steps,
           StartOps, StopOps
  <2> QED BY <2>1, <2>2, SameContents
<1>10. CASE WaitOpen
  <2>1. UNCHANGED <<rd, wr, ring, codec, goal, due, attached>> /\ UNCHANGED bVars
    BY <1>10 DEF WaitOpen, shared, bVars, iVars
  <2>2. CASE aop = "next"
    <3>1. Live' \/ Ready' => Live /\ Expect' = Expect
      BY <1>10, <1>k, <2>1, <2>2 DEF WaitOpen, Live, Ready, Expect, StartOps
    <3>2. Pending' = Pending /\ bpc' = bpc /\ bwr' = bwr /\ bgot' = bgot
      BY <2>1 DEF Pending, bVars
    <3> QED BY <2>1, <3>1, <3>2, SameContents
  <2>3. CASE aop \in {"start", "preload"}
    <3>1. ~Live'
      BY <1>10, <1>k, <2>1, <2>3 DEF Live, Steps, Feeding, StartOps
    <3>2. CASE aop = "start"
      <4>1. rd' = 0 /\ wr' = 0 /\ bpc \notin RoundPcs
        BY <1>10, <1>k, <2>1, <3>2, Waited, Starting DEF WaitOpen, Indices, StartOps
      <4>2. Ready' => aop' = "start" /\ goal.pos = 0 /\ bstate = "open" /\ ack = seq
        BY <1>10, <3>2, Waited DEF WaitOpen, Opened, Answered, Ready, StartOps
      <4>w. apc = "wait"
        BY <1>10, Waited DEF WaitOpen
      <4>g. goal.pos = 0 => [goal EXCEPT !.pos = 0] = goal
        BY ExpectTypes, FirstOf
      <4>3. Ready' => codec = goal
        BY <1>k, <3>2, <4>2, <4>w, <4>g DEF Opening, Handled, AtStart
      <4>4. Ready' => Expect' = Lin(goal.id, goal.pos)
        BY <2>1, <4>2 DEF Expect, StartOps
      <4> QED BY <2>1, <3>1, <4>1, <4>3, <4>4, EmptyContents
    <3>3. CASE aop = "preload"
      <4>1. ~Ready'
        BY <1>10, <3>3 DEF WaitOpen, Ready, StartOps
      <4>2. Pending' = Pending /\ bpc' = bpc /\ bwr' = bwr /\ bgot' = bgot
        BY <2>1 DEF Pending, bVars
      <4> QED BY <2>1, <3>1, <4>1, <4>2, SameContents
    <3> QED BY <2>3, <3>2, <3>3
  <2> QED BY <1>10, <2>2, <2>3 DEF WaitOpen
<1>11. CASE WaitSeek
  <2>1. UNCHANGED <<rd, wr, ring, codec, goal, due, attached, aop>> /\ UNCHANGED bVars
    BY <1>11 DEF WaitSeek, shared, bVars, iVars
  <2>2. CASE aop = "seek"
    <3>1. ~Live' /\ ~Ready'
      BY <1>11, <2>1, <2>2 DEF WaitSeek, Live, Ready, StartOps
    <3>2. Pending' = Pending /\ bpc' = bpc /\ bwr' = bwr /\ bgot' = bgot
      BY <2>1 DEF Pending, bVars
    <3> QED BY <2>1, <3>1, <3>2, SameContents
  <2>3. CASE aop = "startat"
    <3>1. ~Live'
      BY <1>11, <1>k, <2>1, <2>3 DEF Live, Steps, Feeding, StartOps
    <3>2. rd' = 0 /\ wr' = 0 /\ bpc \notin RoundPcs
      BY <1>11, <1>k, <2>1, <2>3, Waited, Starting DEF WaitSeek, Indices, StartOps
    <3>3. codec = goal
      BY <1>11, <1>k, <2>3, Waited DEF WaitSeek, Opening, Asking, Handled
    <3>4. Expect' = Lin(goal.id, goal.pos)
      BY <2>1, <2>3 DEF Expect, StartOps
    <3> QED BY <2>1, <3>1, <3>2, <3>3, <3>4, EmptyContents
  <2> QED BY <1>11, <2>2, <2>3 DEF WaitSeek
<1>12. CASE WaitClose
  <2>1. /\ UNCHANGED <<rd, wr, ring, codec>> /\ Pending' = Pending
        /\ bpc' = "publish" => bpc = "publish" /\ bwr' = bwr /\ bgot' = bgot
    BY <1>12 DEF WaitClose, bVars, Pending
  <2>2. Live' \/ Ready' => (Live \/ Ready) /\ Expect' = Expect
    BY <1>12, <1>k, Waited
       DEF WaitClose, bVars, Live, Ready, Expect, Feeding, Steps, StartOps,
           StopOps
  <2> QED BY <2>1, <2>2, SameContents
<1>13. CASE ZeroRd
  <2>1. bpc \notin RoundPcs /\ ~Live /\ bpc' = bpc
    BY <1>13, <1>k, Rewriting DEF ZeroRd, Live, Feeding, Steps, StartOps, StopOps, bVars
  <2>2. ~Live' /\ ~Ready'
    BY <1>13, <2>1 DEF ZeroRd, Live, Ready, iVars
  <2> QED BY <2>1, <2>2 DEF Contents, Written, RoundPcs
<1>14. CASE ZeroWr
  <2>1. bpc \notin RoundPcs /\ ~Live /\ rd' = 0 /\ wr' = 0 /\ UNCHANGED <<goal, attached, codec>>
        /\ UNCHANGED bVars
    BY <1>14, <1>k, Rewriting DEF ZeroWr, Live, Feeding, Steps, StartOps, StopOps, Indices, bVars,
       iVars
  <2>2. ~Live'
    BY <1>14, <2>1 DEF ZeroWr, Live, iVars
  <2>3. CASE aop = "start"
    <3>1. Ready' => bdec /\ goal.pos = 0 /\ aop' = "start"
      BY <1>14, <2>3 DEF ZeroWr, Ready, StartOps
    <3>2. Ready' => codec = goal
      BY <1>14, <1>k, <2>3, <3>1, FirstOf, ExpectTypes DEF ZeroWr, Opening, AtStart
    <3>3. Ready' => Expect' = Lin(goal.id, goal.pos)
      BY <2>1, <3>1 DEF Expect, StartOps
    <3> QED BY <2>1, <2>2, <3>2, <3>3, EmptyContents
  <2>4. CASE aop # "start"
    <3>1. aop' = aop /\ (Ready' => aop = "seek")
      BY <1>14, <1>k, <2>4 DEF ZeroWr, Ready, Steps, StartOps, StopOps
    <3>2. Ready' => codec = goal
      BY <1>14, <1>k, <3>1 DEF ZeroWr, Going, Asking
    <3>3. Ready' => Expect' = Lin(goal.id, goal.pos)
      BY <2>1, <3>1 DEF Expect
    <3> QED BY <2>1, <2>2, <3>2, <3>3, EmptyContents
  <2> QED BY <2>3, <2>4
<1>15. CASE RunB
  <2>1. /\ UNCHANGED <<rd, wr, ring, codec>> /\ Pending' = Pending
        /\ bpc' = "publish" => bpc = "publish" /\ bwr' = bwr /\ bgot' = bgot
    BY <1>15 DEF RunB, iVars, bVars, Pending
  <2>2. Live' \/ Ready' => (Live \/ Ready) /\ Expect' = Expect
    BY <1>15, <1>k
       DEF RunB, iVars, bVars, Live, Ready, Expect, Feeding, Steps, StartOps,
           StopOps
  <2> QED BY <2>1, <2>2, SameContents
<1>16. CASE FinishStart
  <2>1. Ready /\ Expect = Lin(goal.id, goal.pos)
    BY <1>16 DEF FinishStart, Ready, Expect, StartOps
  <2>2. Live' => Expect' = Lin(goal.id, goal.pos)
    <3>1. aop' = "none" /\ due' = FirstFrame(goal)
      BY <1>16 DEF FinishStart, Finished
    <3>2. Lin(FirstFrame(goal)[1], FirstFrame(goal)[2]) = Lin(goal.id, goal.pos)
      BY ExpectTypes, LinFirst
    <3> QED BY <3>1, <3>2 DEF Expect, StartOps
  <2>3. ~Ready'
    BY <1>16 DEF FinishStart, Finished, Ready
  <2>4. UNCHANGED <<rd, wr, ring, codec, bpc, bwr, bgot>>
    BY <1>16 DEF FinishStart, shared, bVars
  <2> QED BY <2>1, <2>2, <2>3, <2>4, SameContents DEF Pending
<1>17. CASE FinishPreload
  <2>1. /\ UNCHANGED <<rd, wr, ring, codec>> /\ Pending' = Pending
        /\ bpc' = "publish" => bpc = "publish" /\ bwr' = bwr /\ bgot' = bgot
    BY <1>17 DEF FinishPreload, Finished, shared, iVars, bVars, Pending
  <2>2. Live' \/ Ready' => (Live \/ Ready) /\ Expect' = Expect
    BY <1>17, <1>k
       DEF FinishPreload, Finished, shared, iVars, bVars, Live, Ready, Expect,
           Feeding, Steps, StartOps, StopOps
  <2> QED BY <2>1, <2>2, SameContents
<1>18. CASE FinishSeek
  <2>1. Ready /\ Expect = Lin(goal.id, goal.pos)
    BY <1>18 DEF FinishSeek, Ready, Expect, StartOps
  <2>2. Live' => Expect' = Lin(goal.id, goal.pos)
    <3>1. aop' = "none" /\ due' = FirstFrame(goal)
      BY <1>18 DEF FinishSeek, Finished
    <3>2. Lin(FirstFrame(goal)[1], FirstFrame(goal)[2]) = Lin(goal.id, goal.pos)
      BY ExpectTypes, LinFirst
    <3> QED BY <3>1, <3>2 DEF Expect, StartOps
  <2>3. ~Ready'
    BY <1>18 DEF FinishSeek, Finished, Ready
  <2>4. UNCHANGED <<rd, wr, ring, codec, bpc, bwr, bgot>>
    BY <1>18 DEF FinishSeek, shared, bVars
  <2> QED BY <2>1, <2>2, <2>3, <2>4, SameContents DEF Pending
<1>19. CASE FinishNext
  <2>1. /\ UNCHANGED <<rd, wr, ring, codec>> /\ Pending' = Pending
        /\ bpc' = "publish" => bpc = "publish" /\ bwr' = bwr /\ bgot' = bgot
    BY <1>19 DEF FinishNext, Finished, shared, iVars, bVars, Pending
  <2>2. Live' \/ Ready' => (Live \/ Ready) /\ Expect' = Expect
    BY <1>19, <1>k
       DEF FinishNext, Finished, shared, iVars, bVars, Live, Ready, Expect,
           Feeding, Steps, StartOps, StopOps
  <2> QED BY <2>1, <2>2, SameContents
<1>20. CASE FinishStop
  <2>1. /\ UNCHANGED <<rd, wr, ring, codec>> /\ Pending' = Pending
        /\ bpc' = "publish" => bpc = "publish" /\ bwr' = bwr /\ bgot' = bgot
    BY <1>20 DEF FinishStop, Finished, shared, iVars, bVars, Pending
  <2>2. Live' \/ Ready' => (Live \/ Ready) /\ Expect' = Expect
    BY <1>20, <1>k
       DEF FinishStop, Finished, shared, iVars, bVars, Live, Ready, Expect,
           Feeding, Steps, StartOps, StopOps
  <2> QED BY <2>1, <2>2, SameContents
<1>21. CASE SnapRd
  <2>1. /\ UNCHANGED <<rd, wr, ring, codec>> /\ Pending' = Pending
        /\ bpc' = "publish" => bpc = "publish" /\ bwr' = bwr /\ bgot' = bgot
    BY <1>21 DEF SnapRd, AtRest, shared, iVars, bVars, Pending
  <2>2. Live' \/ Ready' => (Live \/ Ready) /\ Expect' = Expect
    BY <1>21, <1>k
       DEF SnapRd, AtRest, shared, iVars, bVars, Live, Ready, Expect, Feeding,
           Steps, StartOps, StopOps
  <2> QED BY <2>1, <2>2, SameContents
<1>22. CASE SnapWr
  <2>1. /\ UNCHANGED <<rd, wr, ring, codec>> /\ Pending' = Pending
        /\ bpc' = "publish" => bpc = "publish" /\ bwr' = bwr /\ bgot' = bgot
    BY <1>22 DEF SnapWr, shared, iVars, bVars, Pending
  <2>2. Live' \/ Ready' => (Live \/ Ready) /\ Expect' = Expect
    BY <1>22, <1>k
       DEF SnapWr, shared, iVars, bVars, Live, Ready, Expect, Feeding, Steps,
           StartOps, StopOps
  <2> QED BY <2>1, <2>2, SameContents
<1>23. CASE SnapEof
  <2>1. /\ UNCHANGED <<rd, wr, ring, codec>> /\ Pending' = Pending
        /\ bpc' = "publish" => bpc = "publish" /\ bwr' = bwr /\ bgot' = bgot
    BY <1>23 DEF SnapEof, shared, iVars, bVars, Pending
  <2>2. Live' \/ Ready' => (Live \/ Ready) /\ Expect' = Expect
    BY <1>23, <1>k
       DEF SnapEof, shared, iVars, bVars, Live, Ready, Expect, Feeding, Steps,
           StartOps, StopOps
  <2> QED BY <2>1, <2>2, SameContents
<1>24. CASE DecideError
  <2>1. /\ UNCHANGED <<rd, wr, ring, codec>> /\ Pending' = Pending
        /\ bpc' = "publish" => bpc = "publish" /\ bwr' = bwr /\ bgot' = bgot
    BY <1>24 DEF DecideError, StopFor, Deciding, bVars, Pending
  <2>2. Live' \/ Ready' => (Live \/ Ready) /\ Expect' = Expect
    BY <1>24, <1>k
       DEF DecideError, StopFor, Deciding, bVars, Live, Ready, Expect, Feeding,
           Steps, StartOps, StopOps
  <2> QED BY <2>1, <2>2, SameContents
<1>25. CASE DecideNext
  <2>1. /\ UNCHANGED <<rd, wr, ring, codec>> /\ Pending' = Pending
        /\ bpc' = "publish" => bpc = "publish" /\ bwr' = bwr /\ bgot' = bgot
    BY <1>25 DEF DecideNext, Deciding, NewEof, iVars, bVars, Pending
  <2>2. Live' \/ Ready' => (Live \/ Ready) /\ Expect' = Expect
    BY <1>25, <1>k
       DEF DecideNext, Deciding, NewEof, iVars, bVars, Live, Ready, Expect,
           Feeding, Steps, StartOps, StopOps
  <2> QED BY <2>1, <2>2, SameContents
<1>26. CASE DecideRestart
  <2>1. /\ UNCHANGED <<rd, wr, ring, codec>> /\ Pending' = Pending
        /\ bpc' = "publish" => bpc = "publish" /\ bwr' = bwr /\ bgot' = bgot
    BY <1>26 DEF DecideRestart, StopFor, Deciding, NewEof, bVars, Pending
  <2>2. Live' \/ Ready' => (Live \/ Ready) /\ Expect' = Expect
    BY <1>26, <1>k
       DEF DecideRestart, StopFor, Deciding, NewEof, bVars, Live, Ready,
           Expect, Feeding, Steps, StartOps, StopOps
  <2> QED BY <2>1, <2>2, SameContents
<1>27. CASE DecideReformat
  <2>1. /\ UNCHANGED <<rd, wr, ring, codec>> /\ Pending' = Pending
        /\ bpc' = "publish" => bpc = "publish" /\ bwr' = bwr /\ bgot' = bgot
    BY <1>27 DEF DecideReformat, Deciding, NewEof, shared, iVars, bVars, Pending
  <2>2. Live' \/ Ready' => (Live \/ Ready) /\ Expect' = Expect
    BY <1>27, <1>k
       DEF DecideReformat, Deciding, NewEof, shared, iVars, bVars, Live, Ready,
           Expect, Feeding, Steps, StartOps, StopOps
  <2> QED BY <2>1, <2>2, SameContents
<1>28. CASE DecideEnd
  <2>1. /\ UNCHANGED <<rd, wr, ring, codec>> /\ Pending' = Pending
        /\ bpc' = "publish" => bpc = "publish" /\ bwr' = bwr /\ bgot' = bgot
    BY <1>28 DEF DecideEnd, StopFor, Boundary, Deciding, bVars, Pending
  <2>2. Live' \/ Ready' => (Live \/ Ready) /\ Expect' = Expect
    BY <1>28, <1>k
       DEF DecideEnd, StopFor, Boundary, Deciding, bVars, Live, Ready, Expect,
           Feeding, Steps, StartOps, StopOps
  <2> QED BY <2>1, <2>2, SameContents
<1>29. CASE DecideGoOn
  <2>1. /\ UNCHANGED <<rd, wr, ring, codec>> /\ Pending' = Pending
        /\ bpc' = "publish" => bpc = "publish" /\ bwr' = bwr /\ bgot' = bgot
    BY <1>29 DEF DecideGoOn, Boundary, Deciding, shared, iVars, bVars, Pending
  <2>2. Live' \/ Ready' => (Live \/ Ready) /\ Expect' = Expect
    BY <1>29, <1>k
       DEF DecideGoOn, Boundary, Deciding, shared, iVars, bVars, Live, Ready,
           Expect, Feeding, Steps, StartOps, StopOps
  <2> QED BY <2>1, <2>2, SameContents
<1>30. CASE IsrFire \/ IsrMask
  BY <1>30, <1>k
     DEF IsrFire, IsrMask, shared, aVars, bVars, Contents, Live, Ready, Queue,
         Continued, Written, Expect, Pending, LinAt
<1>31. CASE IsrCopy
  <2>1. Live /\ Live' /\ ~Ready' /\ UNCHANGED <<wr, ring, codec, bpc, bwr, bgot>>
    <3>1. attached /\ aop # "seek"
      BY <1>31, <1>k DEF IsrCopy, Feeding
    <3> QED BY <1>31, <3>1, Playing DEF IsrCopy, Live, Ready, aVars, bVars
  <2>2. Expect' = Expect + 1
    <3>1. Expect' = Lin(due'[1], due'[2])
      BY <1>31, <2>1, Playing DEF IsrCopy, Expect, aVars
    <3>2. Expect = Lin(due[1], due[2])
      BY <2>1, Playing
    <3> QED BY <1>31, <3>1, <3>2, ExpectTypes, LinAfter DEF IsrCopy
  <2>3. rd # wr
    BY <1>31, <1>k DEF IsrCopy, Indices
  <2>4. Fill(wr, rd') = Fill(wr, rd) - 1
    BY <1>31, <2>3, IndexTypes, FillTaken DEF IsrCopy
  <2>5. Queue /\ Continued
    BY <1>k, <2>1 DEF Contents
  <2>6. ASSUME NEW k \in 0 .. RingFrames - 1, k < Fill(wr, rd')
        PROVE  LinAt(Slot(rd' + k)) = Expect + 1 + k
    <3>1. rd' = (rd + 1) % Modulus
      BY <1>31 DEF IsrCopy
    <3>2. Slot(rd' + k) = Slot(rd + 1 + k)
      BY <3>1, IndexTypes, SlotMoved
    <3>3. apc # "wr"
      BY <1>31, Rewriting DEF IsrCopy
    <3>4. Fill(wr, rd) <= RingFrames
      BY <1>k, <3>3 DEF Indices
    <3>5. k + 1 \in 0 .. RingFrames - 1 /\ k + 1 < Fill(wr, rd)
      BY <2>4, <2>6, <3>4, IndexTypes
    <3>6. LinAt(Slot(rd + (k + 1))) = Expect + (k + 1)
      BY <2>5, <3>5 DEF Queue
    <3>7. rd + (k + 1) = rd + 1 + k
      BY IndexTypes DEF Counters
    <3> QED BY <3>2, <3>6, <3>7, ExpectTypes
  <2>7. Queue'
    BY <2>1, <2>2, <2>6 DEF Queue, LinAt
  <2>8. Continued'
    <3>1. Pending' = Pending
      BY <2>1 DEF Pending
    <3> QED BY <2>1, <2>2, <2>4, <2>5, <3>1, ExpectTypes, IndexTypes DEF Continued
  <2>9. Written'
    BY <1>k, <2>1 DEF Contents, Written
  <2> QED BY <2>7, <2>8, <2>9 DEF Contents
<1>32. CASE BSeq
  <2>1. /\ UNCHANGED <<rd, wr, ring, codec>> /\ Pending' = Pending
        /\ bpc' = "publish" => bpc = "publish" /\ bwr' = bwr /\ bgot' = bgot
    BY <1>32 DEF BSeq, shared, aVars, iVars, Pending
  <2>2. Live' \/ Ready' => (Live \/ Ready) /\ Expect' = Expect
    BY <1>32, <1>k
       DEF BSeq, shared, aVars, iVars, Live, Ready, Expect, Feeding, Steps,
           StartOps, StopOps
  <2> QED BY <2>1, <2>2, SameContents
<1>33. CASE BCmd
  <2>1. /\ UNCHANGED <<rd, wr, ring, codec>> /\ Pending' = Pending
        /\ bpc' = "publish" => bpc = "publish" /\ bwr' = bwr /\ bgot' = bgot
    BY <1>33 DEF BCmd, shared, aVars, iVars, Pending
  <2>2. Live' \/ Ready' => (Live \/ Ready) /\ Expect' = Expect
    BY <1>33, <1>k
       DEF BCmd, shared, aVars, iVars, Live, Ready, Expect, Feeding, Steps,
           StartOps, StopOps
  <2> QED BY <2>1, <2>2, SameContents
<1>34. CASE BOpen
  <2>1. aop \in {"start", "preload", "next"} /\ arg = goal /\ apc = "wait" /\ bpc = "exec" /\ ack # seq
    BY <1>34, Executing DEF BOpen
  <2>2. /\ UNCHANGED <<rd, wr, ring, aop, apc, goal, due, attached>> /\ bpc' = "ack"
        /\ Pending = 0 /\ Pending' = 0 /\ Expect' = Expect /\ (Live' => Live) /\ ~Ready'
    BY <1>34, <2>1 DEF BOpen, Pending, Expect, Live, Ready, aVars, iVars
  <2>3. ASSUME Live PROVE Queue' /\ Continued'
    <3>1. aop = "next" /\ Queue /\ Continued
      BY <1>k, <2>1, <2>3, Playing DEF Contents, StartOps
    <3>2. Queue'
      BY <2>2, <3>1 DEF Queue, LinAt
    <3>3. codec.id + 1 = goal.id /\ codec.id >= 1 /\ beof
      BY <1>k, <2>1, <3>1 DEF Going, Asking, Handled
    <3>4. codec # None /\ codec.pos = TrackFrames
      BY <1>t, <3>3, NoneIs DEF InRange
    <3>5. codec' # None => codec'.id = codec.id + 1 /\ codec'.pos = 0
      BY <1>34, <2>1, <3>3, FirstOf, ExpectTypes DEF BOpen
    <3>6. Lin(codec.id + 1, 0) = Lin(codec.id, codec.pos)
      <4>1. codec.id \in Int /\ codec.pos \in Int
        BY ExpectTypes
      <4> QED BY <3>4, <4>1, LinIs
    <3>7. Continued'
      BY <2>2, <3>1, <3>4, <3>5, <3>6 DEF Continued
    <3> QED BY <3>2, <3>7
  <2> QED BY <2>2, <2>3 DEF Contents, Written
<1>35. CASE BSeek
  <2>1. aop \in {"seek", "startat"} /\ apc = "wait"
    BY <1>35, Executing DEF BSeek
  <2>2. ~Live /\ ~Ready
    BY <2>1, Playing DEF Live, Ready, StartOps
  <2>3. ~Live' /\ ~Ready' /\ bpc' = "ack"
    BY <1>35, <2>2 DEF BSeek, Live, Ready, aVars, iVars
  <2> QED BY <2>3 DEF Contents, Written
<1>36. CASE BClose
  <2>1. /\ UNCHANGED <<rd, wr, ring, aop, apc, goal, due, attached>> /\ bpc' = "ack"
        /\ codec' = None /\ Expect' = Expect /\ (Live' => Live) /\ (Ready' => Ready)
    BY <1>36 DEF BClose, Expect, Live, Ready, aVars, iVars
  <2>2. Live \/ Ready => Queue'
    BY <1>k, <2>1 DEF Contents, Queue, LinAt
  <2>3. Continued' /\ Written'
    BY <2>1 DEF Continued, Written
  <2> QED BY <2>1, <2>2, <2>3 DEF Contents
<1>37. CASE BAck
  <2>1. /\ UNCHANGED <<rd, wr, ring, codec>> /\ Pending' = Pending
        /\ bpc' = "publish" => bpc = "publish" /\ bwr' = bwr /\ bgot' = bgot
    BY <1>37 DEF BAck, aVars, iVars, Pending
  <2>2. Live' \/ Ready' => (Live \/ Ready) /\ Expect' = Expect
    BY <1>37, <1>k
       DEF BAck, aVars, iVars, Live, Ready, Expect, Feeding, Steps, StartOps,
           StopOps
  <2> QED BY <2>1, <2>2, SameContents
<1>38. CASE BState
  <2>1. /\ UNCHANGED <<rd, wr, ring, codec>> /\ Pending' = Pending
        /\ bpc' = "publish" => bpc = "publish" /\ bwr' = bwr /\ bgot' = bgot
    BY <1>38 DEF BState, shared, aVars, iVars, Pending
  <2>2. Live' \/ Ready' => (Live \/ Ready) /\ Expect' = Expect
    BY <1>38, <1>k
       DEF BState, shared, aVars, iVars, Live, Ready, Expect, Feeding, Steps,
           StartOps, StopOps
  <2> QED BY <2>1, <2>2, SameContents
<1>39. CASE BLoadRd
  <2>1. /\ UNCHANGED <<rd, wr, ring, codec>> /\ Pending' = Pending
        /\ bpc' = "publish" => bpc = "publish" /\ bwr' = bwr /\ bgot' = bgot
    BY <1>39 DEF BLoadRd, shared, aVars, iVars, Pending
  <2>2. Live' \/ Ready' => (Live \/ Ready) /\ Expect' = Expect
    BY <1>39, <1>k
       DEF BLoadRd, shared, aVars, iVars, Live, Ready, Expect, Feeding, Steps,
           StartOps, StopOps
  <2> QED BY <2>1, <2>2, SameContents
<1>40. CASE BLoadWr
  <2>1. /\ UNCHANGED <<rd, wr, ring, codec>> /\ Pending' = Pending
        /\ bpc' = "publish" => bpc = "publish" /\ bwr' = bwr /\ bgot' = bgot
    BY <1>40 DEF BLoadWr, shared, aVars, iVars, Pending
  <2>2. Live' \/ Ready' => (Live \/ Ready) /\ Expect' = Expect
    BY <1>40, <1>k
       DEF BLoadWr, shared, aVars, iVars, Live, Ready, Expect, Feeding, Steps,
           StartOps, StopOps
  <2> QED BY <2>1, <2>2, SameContents
<1>41. CASE BDecodeError
  <2>1. /\ UNCHANGED <<rd, wr, ring, codec>> /\ Pending' = Pending
        /\ bpc' = "publish" => bpc = "publish" /\ bwr' = bwr /\ bgot' = bgot
    BY <1>41 DEF BDecodeError, aVars, iVars, Pending
  <2>2. Live' \/ Ready' => (Live \/ Ready) /\ Expect' = Expect
    BY <1>41, <1>k
       DEF BDecodeError, aVars, iVars, Live, Ready, Expect, Feeding, Steps,
           StartOps, StopOps
  <2> QED BY <2>1, <2>2, SameContents
<1>42. CASE BDecode
  <2>1. /\ UNCHANGED <<rd, wr, ring, aop, apc, goal, due, attached>>
        /\ bpc' \in {"loop", "write"} /\ (bpc' = "loop" => bgot' = 0) /\ bpc = "decode"
    BY <1>42 DEF BDecode, aVars, iVars
  <2>2. Pending = 0 /\ Pending' = bgot' /\ Expect' = Expect /\ (Live' => Live) /\ (Ready' => Ready)
    BY <2>1 DEF Pending, Expect, Live, Ready
  <2>3. Live \/ Ready => Queue'
    BY <1>k, <2>1, <2>2 DEF Contents, Queue, LinAt
  <2>4. codec # None /\ codec'.id = codec.id /\ codec'.pos = codec.pos + bgot' /\ bgot' \in Nat
    BY <1>42, <2>1, Rounds, DecodeIs, IndexTypes DEF IInv, RoundPcs
  <2>5. Lin(codec'.id, codec'.pos) = Lin(codec.id, codec.pos) + bgot'
    <3>1. codec.id \in Int /\ codec.pos \in Int /\ bgot' \in Int
      BY <2>4, ExpectTypes
    <3>2. Lin(codec.id, codec.pos + bgot') = Lin(codec.id, codec.pos) + bgot'
      BY <3>1, LinPlus
    <3> QED BY <2>4, <3>2
  <2>6. Live \/ Ready => Continued'
    BY <1>k, <2>1, <2>2, <2>4, <2>5, ExpectTypes, IndexTypes DEF Contents, Continued
  <2> QED BY <2>1, <2>2, <2>3, <2>6 DEF Contents, Written
<1>43. CASE BWrite
  <2>1. /\ UNCHANGED <<rd, wr, codec, bwr, bgot, aop, apc, goal, due, attached>>
        /\ bpc = "write" /\ bpc' = "publish"
    BY <1>43 DEF BWrite, aVars, iVars
  <2>2. Pending' = Pending /\ Expect' = Expect /\ (Live' => Live) /\ (Ready' => Ready)
    BY <2>1 DEF Pending, Expect, Live, Ready
  <2>3. bwr = wr /\ Fill(wr, rd) + Chunk <= RingFrames
    BY <1>k, <2>1 DEF Indices
  <2>4. ASSUME NEW i \in 0 .. RingFrames - 1
        PROVE  ring'[i] = IF (i - wr) % RingFrames < bgot
                          THEN <<codec.id, codec.pos - bgot + ((i - wr) % RingFrames)>>
                          ELSE ring[i]
    <3>1. DOMAIN ring = 0 .. RingFrames - 1
      BY <1>t DEF SharedOK
    <3> QED BY <1>43, <2>3, <3>1 DEF BWrite
  <2>5. ASSUME NEW k \in 0 .. Chunk - 1, k < bgot
        PROVE  ring'[Slot(bwr + k)] = <<codec.id, codec.pos - bgot + k>>
    <3>1. k \in 0 .. RingFrames - 1 /\ wr + k \in Int
      BY IndexTypes, PcmConstants DEF Counters
    <3>2. (Slot(wr + k) - wr) % RingFrames = k /\ Slot(wr + k) \in 0 .. RingFrames - 1
      BY <3>1, IndexTypes, SlotWritten, SlotRange
    <3> QED BY <2>3, <2>4, <2>5, <3>2
  <2>6. ASSUME NEW k \in 0 .. RingFrames - 1, k < Fill(wr, rd)
        PROVE  ring'[Slot(rd + k)] = ring[Slot(rd + k)]
    <3>1. Fill(wr, rd) <= RingFrames /\ k \in Nat /\ rd + k \in Int
      BY <2>3, IndexTypes DEF Counters
    <3>2. (Slot(rd + k) - wr) % RingFrames = RingFrames - Fill(wr, rd) + k
          /\ Slot(rd + k) \in 0 .. RingFrames - 1
      BY <2>6, <3>1, IndexTypes, SlotQueued, SlotRange
    <3>3. ~(RingFrames - Fill(wr, rd) + k < bgot)
      BY <2>3, <3>1, IndexTypes
    <3> QED BY <2>4, <3>2, <3>3
  <2>7. Live \/ Ready => Queue'
    BY <1>k, <2>1, <2>2, <2>6 DEF Contents, Queue, LinAt
  <2>8. Live \/ Ready => Continued'
    BY <1>k, <2>1, <2>2 DEF Contents, Continued
  <2>9. Written'
    BY <2>1, <2>5 DEF Written
  <2> QED BY <2>2, <2>7, <2>8, <2>9 DEF Contents
<1>44. CASE BPublish
  <2>1. /\ UNCHANGED <<rd, ring, codec, bwr, bgot, aop, apc, goal, due, attached>>
        /\ bpc = "publish" /\ bpc' = "arm" /\ wr' = (wr + bgot) % Modulus
    BY <1>44, <1>k DEF BPublish, Indices, aVars, iVars
  <2>2. /\ Pending = bgot /\ Pending' = 0 /\ Expect' = Expect
        /\ (Live' => Live) /\ (Ready' => Ready)
    BY <2>1 DEF Pending, Expect, Live, Ready
  <2>3. bwr = wr /\ Fill(wr, rd) + Chunk <= RingFrames
    BY <1>k, <2>1 DEF Indices
  <2>4. Fill(wr', rd) = Fill(wr, rd) + bgot
    <3>1. Fill(wr, rd) + bgot < Modulus
      BY <2>3, IndexTypes
    <3> QED BY <2>1, <3>1, IndexTypes, FillGrown
  <2>5. codec # None
    BY <2>1, Rounds DEF RoundPcs
  <2>6. ASSUME Live \/ Ready, NEW k \in 0 .. RingFrames - 1, k < Fill(wr, rd) + bgot
        PROVE  LinAt(Slot(rd + k)) = Expect + k
    <3>1. CASE k < Fill(wr, rd)
      BY <1>k, <2>6, <3>1 DEF Contents, Queue
    <3>2. CASE ~(k < Fill(wr, rd))
      <4> DEFINE j == k - Fill(wr, rd)
      <4>1. j \in 0 .. Chunk - 1 /\ j < bgot /\ Fill(wr, rd) + j = k /\ j \in Int
        BY <2>6, <3>2, IndexTypes
      <4> HIDE DEF j
      <4>2. Slot(rd + k) = Slot(wr + j)
        BY <4>1, IndexTypes, SlotAfter
      <4>3. ring[Slot(wr + j)] = <<codec.id, codec.pos - bgot + j>>
        BY <1>k, <2>1, <2>3, <4>1 DEF Contents, Written
      <4>4. LinAt(Slot(rd + k)) = Lin(codec.id, codec.pos - bgot + j)
        BY <4>2, <4>3 DEF LinAt
      <4>5. codec.pos - bgot + j = codec.pos + (j - bgot) /\ j - bgot \in Int
        BY <4>1, ExpectTypes, IndexTypes
      <4>6. Lin(codec.id, codec.pos + (j - bgot)) = Lin(codec.id, codec.pos) + (j - bgot)
        <5>1. codec.id \in Int /\ codec.pos \in Int
          BY ExpectTypes
        <5> QED BY <4>5, <5>1, LinPlus
      <4>7. Lin(codec.id, codec.pos) = Expect + Fill(wr, rd) + bgot
        BY <1>k, <2>2, <2>5, <2>6 DEF Contents, Continued
      <4> QED BY <4>1, <4>4, <4>5, <4>6, <4>7, ExpectTypes, IndexTypes
    <3> QED BY <3>1, <3>2
  <2>7. Live \/ Ready => Queue'
    BY <2>1, <2>2, <2>4, <2>6 DEF Queue, LinAt
  <2>8. Live \/ Ready => Continued'
    <3>1. Live \/ Ready => Lin(codec.id, codec.pos) = Expect + Fill(wr, rd) + bgot
      BY <1>k, <2>2, <2>5 DEF Contents, Continued
    <3> QED BY <2>1, <2>2, <2>4, <3>1, ExpectTypes, IndexTypes DEF Continued
  <2>9. Written'
    BY <2>1 DEF Written
  <2> QED BY <2>2, <2>7, <2>8, <2>9 DEF Contents
<1>45. CASE BArm
  <2>1. /\ UNCHANGED <<rd, wr, ring, codec>> /\ Pending' = Pending
        /\ bpc' = "publish" => bpc = "publish" /\ bwr' = bwr /\ bgot' = bgot
    BY <1>45 DEF BArm, shared, aVars, Pending
  <2>2. Live' \/ Ready' => (Live \/ Ready) /\ Expect' = Expect
    BY <1>45, <1>k
       DEF BArm, shared, aVars, Live, Ready, Expect, Feeding, Steps, StartOps,
           StopOps
  <2> QED BY <2>1, <2>2, SameContents
<1> QED BY <1>1, <1>2, <1>3, <1>4, <1>5, <1>6, <1>7, <1>8, <1>9, <1>10, <1>11,
      <1>12, <1>13, <1>14, <1>15, <1>16, <1>17, <1>18, <1>19, <1>20, <1>21,
      <1>22, <1>23, <1>24, <1>25, <1>26, <1>27, <1>28, <1>29, <1>30, <1>31,
      <1>32, <1>33, <1>34, <1>35, <1>36, <1>37, <1>38, <1>39, <1>40, <1>41,
      <1>42, <1>43, <1>44, <1>45
    DEF Next, User, Operation, Process, Interrupt, CoreB, Command, Round

-----------------------------------------------------------------------------
(* The theorems.                                                           *)

(* The initial state satisfies the invariant.                              *)
LEMMA InitKept == Init => IInv
<1> SUFFICES ASSUME Init PROVE IInv
  OBVIOUS
<1>1. TInv
  BY InitTypes
<1>2. Steps /\ Outstanding /\ Feeding /\ Parked /\ Trimmed
  BY DEF Init, Steps, Outstanding, Feeding, Parked, Trimmed, StartOps, StopOps, RoundPcs,
         CommandPcs
<1>3. Opening /\ Going
  BY DEF Init, Opening, Going, StartOps, StopOps
<1>4. Indices
  BY Zeros, FillIs, PcmConstants DEF Init, Indices, StartOps
<1>5. Contents
  BY DEF Init, Contents, Written, Live, Ready, StartOps
<1> QED BY <1>1, <1>2, <1>3, <1>4, <1>5 DEF IInv, Kept

(* A step keeps the invariant, if no wait runs out.                        *)
LEMMA StepKept == Patient /\ IInv /\ [Next]_vars => IInv'
<1> SUFFICES ASSUME Patient, IInv, [Next]_vars PROVE IInv'
  OBVIOUS
<1>1. TInv'
  BY TypesKept DEF IInv
<1>2. CASE Next
  BY <1>1, <1>2, StepsKept, OutstandingKept, FeedingKept, ParkedKept, OpeningKept, GoingKept,
     TrimmedKept, IndicesKept, ContentsKept DEF IInv, Kept
<1>3. CASE UNCHANGED vars
  <2> USE <1>3 DEF vars, shared, aVars, iVars, bVars
  <2>1. Steps' /\ Outstanding' /\ Feeding' /\ Parked'
    BY Parts DEF Steps, Outstanding, Feeding, Parked, Asking, Handled
  <2>2. Opening' /\ Going' /\ Trimmed'
    BY Parts DEF Opening, Going, Trimmed, Asking, Handled, AtStart, Current
  <2>3. Indices'
    BY Parts DEF Indices
  <2>4. Contents'
    BY SameContents DEF Pending, Live, Ready, Expect
  <2> QED BY <1>1, <2>1, <2>2, <2>3, <2>4 DEF IInv, Kept
<1> QED BY <1>2, <1>3

(* So the invariant always holds.                                          *)
LEMMA AlwaysKept ==
    ASSUME Patient
    PROVE  Spec => []IInv
BY InitKept, StepKept, PTL DEF Spec

(* If no wait runs out, B executes the command it acknowledges: the AP     *)
(* posts the next one only after the answer to the one before.             *)
THEOREM PcmFetchedRight ==
    ASSUME Patient
    PROVE  Spec => []FetchedRight
<1>1. IInv => FetchedRight
  BY Parts DEF Outstanding, FetchedRight, CommandPcs
<1> QED BY <1>1, AlwaysKept, PTL

(* If no wait runs out, the indices never claim more frames than the ring  *)
(* holds while the feeder may run, whatever B was doing when the AP set    *)
(* them back.                                                              *)
THEOREM PcmStaysBounded ==
    ASSUME Patient
    PROVE  Spec => []PcmBounded
<1>1. IInv => PcmBounded
  <2> SUFFICES ASSUME IInv, attached, ~hold PROVE Fill(wr, rd) <= RingFrames
    BY DEF PcmBounded
  <2>1. apc # "wr"
    BY Parts DEF Steps, Feeding, StartOps, StopOps
  <2> QED BY <2>1, Parts DEF Indices
<1> QED BY <1>1, AlwaysKept, PTL

(* If no wait runs out, every frame played is the next of the stream,      *)
(* across seeks, pauses and gapless and hard boundaries.                   *)
THEOREM PcmHeardInOrder ==
    ASSUME Patient
    PROVE  Spec => HeardInOrder
<1>1. ASSUME IInv, IsrCopy PROVE heard' = due
  <2>1. Live
    BY <1>1, Parts DEF IsrCopy, Feeding, Live
  <2>2. Queue /\ Expect = Lin(due[1], due[2])
    BY <1>1, <2>1, Parts, Playing DEF Contents
  <2>3. 0 < Fill(wr, rd)
    <3>1. rd # wr
      BY <1>1, Parts DEF IsrCopy, Indices
    <3> QED BY <1>1, <3>1, IndexTypes, FillIs
  <2>4. LinAt(Slot(rd)) = Lin(due[1], due[2])
    <3>1. 0 \in 0 .. RingFrames - 1 /\ rd + 0 = rd
      BY <1>1, PcmConstants, IndexTypes DEF Counters
    <3>2. LinAt(Slot(rd + 0)) = Expect + 0
      BY <2>2, <2>3, <3>1 DEF Queue
    <3> QED BY <1>1, <2>2, <3>1, <3>2, ExpectTypes
  <2>5. ring[Slot(rd)] \in Nat \X (0 .. TrackFrames - 1)
    <3>1. Slot(rd) \in 0 .. RingFrames - 1
      BY <1>1, IndexTypes, SlotRange, PcmConstants DEF Counters
    <3>2. ring[Slot(rd)] \in Frames
      BY <1>1, <3>1, Parts DEF SharedOK
    <3> QED BY <3>2, PcmConstants DEF Frames
  <2>6. ring[Slot(rd)] = due
    BY <1>1, <2>4, <2>5, ExpectTypes, LinInj DEF LinAt
  <2> QED BY <1>1, <2>6 DEF IsrCopy, Slot
<1>2. IInv /\ [Next]_vars => [IsrCopy => heard' = due]_vars
  BY <1>1
<1> QED BY <1>2, AlwaysKept, PTL DEF Spec, HeardInOrder

(* If no wait runs out and nothing is preloaded, a round is trimmed with   *)
(* the gapless words of the track it decodes.                              *)
THEOREM PcmTrimOfTrack ==
    ASSUME Patient, ~Preloads
    PROVE  Spec => []TrimOfTrack
<1>1. IInv => TrimOfTrack
  BY Parts DEF Trimmed, TrimOfTrack, InRange, RoundPcs
<1> QED BY <1>1, AlwaysKept, PTL
=============================================================================
