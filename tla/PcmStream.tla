------------------------------ MODULE PcmStream ------------------------------
(***************************************************************************)
(* Playback across the two cores: firmware/player/ipc_b_target.c and       *)
(* player_process() of player.c on the application processor (AP), the     *)
(* command and decode loop of firmware/bb/bb_main.c on Core B (B), and the *)
(* I2S transmit interrupt of drivers/rknano_i2s.c, which runs on the AP    *)
(* and plays the PCM ring.  B produces the ring, the interrupt consumes    *)
(* it, the AP rewrites its indices at a start, a seek and a stop; commands *)
(* go from the AP to B by a sequence number that B echoes.  The AP's steps *)
(* never run inside the interrupt; everything else interleaves, one load   *)
(* or store of a shared word at a time.                                    *)
(*                                                                         *)
(* Every OPEN, NEXT and SEEK starts a new stream; a PCM frame is           *)
(* <<stream, position in the track>>.                                      *)
(***************************************************************************)
EXTENDS Integers

CONSTANTS
    TrackFrames,    \* frames of every track
    Chunk,          \* CHUNK_FRAMES
    RingFrames,     \* frames the PCM ring holds (IPC_RING_BYTES / 8)
    Modulus,        \* the ring counters wrap at this many frames
    LastTrack,      \* the playlist is 1 .. LastTrack
    Reformat,       \* the tracks whose format differs from the one before
    TailTrim,       \* the exact frame count is known (IPC_C_GAP_TOTAL > 0)
    SeekTargets,    \* positions the user seeks to
    MaxStreams,     \* bound on the streams of a behaviour
    Preloads,       \* the application preloads a track before PLAY
    Faults          \* which of the faults below may happen

AllFaults == {"open_fails", "decode_error", "open_timeout", "close_timeout",
              "seek_timeout"}

ASSUME PcmAssumption ==
    /\ TrackFrames \in Nat \ {0} /\ Chunk \in Nat \ {0}
    /\ RingFrames \in Nat /\ RingFrames >= 2 * Chunk
    /\ Modulus \in Nat /\ \E k \in 2 .. Modulus : Modulus = k * RingFrames
    /\ LastTrack \in Nat \ {0} /\ Reformat \subseteq 2 .. LastTrack
    /\ SeekTargets \subseteq 0 .. TrackFrames
    /\ MaxStreams \in Nat
    /\ TailTrim \in BOOLEAN /\ Preloads \in BOOLEAN
    /\ Faults \subseteq AllFaults

VARIABLES
    state,          \* IPC_SH_STATE
    rd, wr,         \* IPC_SH_RD, IPC_SH_WR, in frames
    ring,           \* the PCM ring, slot -> frame
    cmd, arg,       \* IPC_C_CMD and what goes with it, as posted
    seq, ack,       \* IPC_C_SEQ, IPC_C_ACK
    gap,            \* the track whose gapless words are published
    bstate, beof,   \* IPC_C_BSTATE, IPC_C_BEOF
    \* the AP
    player,         \* player.c's state
    apc, aop,       \* program counter, operation in progress
    goal,           \* the stream that operation asks for
    preload,        \* s_preload_valid: the stream B already has open
    bdec,           \* s_b_decodes
    track,          \* the playlist's current track
    geof, pend,     \* g.eof, g.restart_pending
    snap,           \* player_process's snapshot of the ring and of B
    \* the interrupt
    attached, hold, armed,  \* feeder installed, held, TX-empty enabled
    isr,            \* where the interrupt is
    heard, due,     \* the frame last played, the frame to be played next
    \* B
    bpc, bseq, bcmd,    \* program counter, command being handled
    codec,          \* the open stream and its next frame
    btrim,          \* the track whose gapless words B has latched
    bemit,          \* s_emitted: frames since those words were latched
    brd, bwr, bgot  \* a decode round's copies of the indices, its frames

shared == <<state, rd, wr, ring, cmd, arg, seq, ack, gap, bstate, beof>>
aVars == <<player, apc, aop, goal, preload, bdec, track, geof, pend, snap>>
iVars == <<attached, hold, armed, isr, heard, due>>
bVars == <<bpc, bseq, bcmd, codec, btrim, bemit, brd, bwr, bgot>>
vars == <<shared, aVars, iVars, bVars>>

None == [id |-> 0, track |-> 0, pos |-> 0]

(* The frame a stream starts with; an empty one is followed by the stream  *)
(* a gapless NEXT opens, as is the last frame of every track.              *)
FirstFrame(s) == IF s.pos < TrackFrames THEN <<s.id, s.pos>> ELSE <<s.id + 1, 0>>

FrameAfter(f) == IF f[2] + 1 < TrackFrames THEN <<f[1], f[2] + 1>> ELSE <<f[1] + 1, 0>>

(* The frames the unsigned subtraction of two counters says are queued.    *)
Fill(w, r) == (w - r) % Modulus

Least(a, b) == IF a < b THEN a ELSE b

Init ==
    /\ state = "idle" /\ rd = 0 /\ wr = 0
    /\ ring = [i \in 0 .. RingFrames - 1 |-> <<0, 0>>]
    /\ cmd = [op |-> "none", tag |-> 0] /\ arg = None
    /\ seq = 0 /\ ack = 0 /\ gap = 0
    /\ bstate = "idle" /\ beof = FALSE
    /\ player = "stopped" /\ apc = "idle" /\ aop = "none"
    /\ goal = None /\ preload = None /\ bdec = FALSE /\ track = 1
    /\ geof = FALSE /\ pend = FALSE
    /\ snap = [rd |-> 0, wr |-> 0, eof |-> FALSE, error |-> FALSE]
    /\ attached = FALSE /\ hold = FALSE /\ armed = FALSE /\ isr = "off"
    /\ heard = <<0, 0>> /\ due = <<0, 0>>
    /\ bpc = "loop" /\ bseq = 0 /\ bcmd = [op |-> "none", tag |-> 0]
    /\ codec = None /\ btrim = 0 /\ bemit = 0 /\ brd = 0 /\ bwr = 0 /\ bgot = 0

-----------------------------------------------------------------------------
(* The AP.  It runs when the interrupt does not.                           *)

AtRest == apc = "idle" /\ isr = "off"

(* The bound on streams: a behaviour ends where one more is asked for.      *)
Room == goal.id < MaxStreams

Stream(t, p) == [id |-> goal.id + 1, track |-> t, pos |-> p]

(* player_play -> ipc_b_start at position p: stop the feed; a preload of    *)
(* this very track is consumed, any other track is opened by a new stream. *)
Preloaded == preload # None /\ preload.track = track /\ bstate = "open"

Start(p) ==
    /\ AtRest /\ player = "stopped"
    /\ \/ Preloaded /\ goal' = [preload EXCEPT !.pos = p] /\ bdec' = TRUE
       \/ ~Preloaded /\ Room /\ goal' = Stream(track, p) /\ bdec' = FALSE
    /\ preload' = None
    /\ aop' = "start" /\ apc' = "rd"
    /\ state' = "idle"
    /\ UNCHANGED <<rd, wr, ring, cmd, arg, seq, ack, gap, bstate, beof, player,
                   track, geof, pend, snap, iVars, bVars>>

(* ipc_b_preload: OPEN without RUN, while nothing plays.                   *)
Preload ==
    /\ Preloads
    /\ AtRest /\ player = "stopped" /\ preload = None /\ Room
    /\ goal' = Stream(track, 0) /\ bdec' = FALSE
    /\ aop' = "preload" /\ apc' = "arg"
    /\ UNCHANGED <<shared, player, preload, track, geof, pend, snap, iVars, bVars>>

(* Mutant: B is not parked.                                                *)
SeekRunning(p) ==
    /\ AtRest /\ player \in {"playing", "paused"} /\ Room
    /\ goal' = Stream(goal.track, p)
    /\ geof' = FALSE
    /\ aop' = "seek" /\ apc' = "arg"
    /\ hold' = TRUE /\ armed' = FALSE
    /\ UNCHANGED <<state, rd, wr, ring, cmd, arg, seq, ack, gap, bstate, beof, player,
                   preload, bdec, track, pend, snap, attached, isr, heard, due,
                   bVars>>

(* Mutant: the feeder is not held.                                         *)
SeekFeeding(p) ==
    /\ AtRest /\ player \in {"playing", "paused"} /\ Room
    /\ goal' = Stream(goal.track, p)
    /\ geof' = FALSE
    /\ aop' = "seek" /\ apc' = "arg"
    /\ state' = "idle"
    /\ UNCHANGED <<rd, wr, ring, cmd, arg, seq, ack, gap, bstate, beof, player,
                   preload, bdec, track, pend, snap, iVars, bVars>>

(* ipc_b_seek: hold the feeder, park B, then ask it to reposition.         *)
Seek(p) ==
    /\ AtRest /\ player \in {"playing", "paused"} /\ Room
    /\ goal' = Stream(goal.track, p)
    /\ geof' = FALSE
    /\ aop' = "seek" /\ apc' = "arg"
    /\ hold' = TRUE /\ armed' = FALSE
    /\ state' = "idle"
    /\ UNCHANGED <<rd, wr, ring, cmd, arg, seq, ack, gap, bstate, beof, player,
                   preload, bdec, track, pend, snap, attached, isr, heard, due,
                   bVars>>

(* ipc_b_stop, for the user, for an error, at the end of the list or as    *)
(* the first half of a hard restart; it sends CLOSE only if B decodes.     *)
StopFor(op) ==
    /\ aop' = op
    /\ IF bdec
       THEN apc' = "cmd" /\ UNCHANGED <<state, attached, armed, preload>>
       ELSE /\ apc' = IF op = "error" THEN "finish" ELSE "rd"
            /\ state' = "idle" /\ attached' = FALSE /\ armed' = FALSE
            /\ preload' = None
    /\ UNCHANGED <<rd, wr, ring, cmd, arg, seq, ack, gap, bstate, beof, player,
                   goal, bdec, snap, hold, isr, heard, due, bVars>>

Stop ==
    /\ AtRest /\ player \in {"playing", "paused", "error"}
    /\ StopFor("stop")
    /\ UNCHANGED <<track, geof, pend>>

(* player_next and player_prev: a hard boundary, from any state.           *)
Skip(t) ==
    /\ AtRest /\ t \in {track - 1, track + 1}
    /\ track' = t
    /\ geof' = FALSE
    /\ StopFor("restart")
    /\ UNCHANGED pend

(* ipc_b_pause.                                                            *)
Pause ==
    /\ AtRest /\ player = "playing"
    /\ player' = "paused"
    /\ hold' = TRUE /\ armed' = FALSE /\ state' = "pause"
    /\ UNCHANGED <<rd, wr, ring, cmd, arg, seq, ack, gap, bstate, beof, apc, aop,
                   goal, preload, bdec, track, geof, pend, snap, attached, isr,
                   heard, due, bVars>>

Resume ==
    /\ AtRest /\ player = "paused"
    /\ player' = "playing"
    /\ hold' = FALSE /\ armed' = (armed \/ attached) /\ state' = "run"
    /\ UNCHANGED <<rd, wr, ring, cmd, arg, seq, ack, gap, bstate, beof, apc, aop,
                   goal, preload, bdec, track, geof, pend, snap, attached, isr,
                   heard, due, bVars>>

(* cmd_start, one store at a time: the argument, the command, the sequence.*)
CommandOf(op) ==
    CASE op \in {"start", "preload"} -> "open"
      [] op = "next" -> "next"
      [] op \in {"seek", "startat"} -> "seek"
      [] OTHER -> "close"

PostArg ==
    /\ apc = "arg" /\ isr = "off"
    /\ arg' = goal
    /\ apc' = "cmd"
    /\ UNCHANGED <<state, rd, wr, ring, cmd, seq, ack, gap, bstate, beof, player,
                   aop, goal, preload, bdec, track, geof, pend, snap, iVars, bVars>>

PostCmd ==
    /\ apc = "cmd" /\ isr = "off"
    /\ cmd' = [op |-> CommandOf(aop), tag |-> seq + 1]
    /\ apc' = "seq"
    /\ UNCHANGED <<state, rd, wr, ring, arg, seq, ack, gap, bstate, beof, player,
                   aop, goal, preload, bdec, track, geof, pend, snap, iVars, bVars>>

PostSeq ==
    /\ apc = "seq" /\ isr = "off"
    /\ seq' = seq + 1
    /\ apc' = "wait"
    /\ UNCHANGED <<state, rd, wr, ring, cmd, arg, ack, gap, bstate, beof, player,
                   aop, goal, preload, bdec, track, geof, pend, snap, iVars, bVars>>

(* b_wait_ack, and what each caller does with its outcome.                 *)
TimeoutOf(op) ==
    CASE op \in {"start", "preload", "next"} -> "open_timeout"
      [] op \in {"seek", "startat"} -> "seek_timeout"
      [] OTHER -> "close_timeout"

Answered == ack = seq

Opened == Answered /\ bstate = "open"

(* Mutant: nothing is waited for.                                          *)
WaitOverAtOnce ==
    /\ apc = "wait" /\ isr = "off"

WaitOver ==
    /\ apc = "wait" /\ isr = "off"
    /\ Answered \/ TimeoutOf(aop) \in Faults

(* A stream that starts at a position asks for it before B runs.           *)
WaitOpen ==
    /\ WaitOver /\ aop \in {"start", "preload", "next"}
    /\ \/ Opened /\ (aop # "start" \/ goal.pos = 0)
          /\ apc' = "run" /\ UNCHANGED <<aop, player>>
       \/ Opened /\ aop = "start" /\ goal.pos # 0
          /\ apc' = "arg" /\ aop' = "startat" /\ UNCHANGED player
       \/ ~Opened /\ aop = "start"
          /\ apc' = "idle" /\ aop' = "none" /\ player' = "error"
       \/ ~Opened /\ aop = "preload"
          /\ apc' = "idle" /\ aop' = "none" /\ UNCHANGED player
       \/ ~Opened /\ aop = "next"
          /\ apc' = "cmd" /\ aop' = "restart" /\ UNCHANGED player
    /\ UNCHANGED <<shared, goal, preload, bdec, track, geof, pend, snap, iVars, bVars>>

(* A seek, before or during the stream: its outcome is ignored.            *)
WaitSeek ==
    /\ WaitOver /\ aop \in {"seek", "startat"}
    /\ apc' = IF aop = "seek" THEN "rd" ELSE "run"
    /\ UNCHANGED <<shared, player, aop, goal, preload, bdec, track, geof, pend,
                   snap, iVars, bVars>>

(* Mutant: the feeder stays attached.                                      *)
WaitCloseAttached ==
    /\ WaitOver /\ aop \in {"stop", "end", "error", "restart", "change"}
    /\ apc' = IF aop = "error" THEN "finish" ELSE "rd"
    /\ state' = "idle"
    /\ bdec' = FALSE /\ preload' = None
    /\ UNCHANGED <<rd, wr, ring, cmd, arg, seq, ack, gap, bstate, beof, player,
                   aop, goal, track, geof, pend, snap, iVars, bVars>>

(* CLOSE: the outcome is ignored; detach the feeder, then the state.       *)
WaitClose ==
    /\ WaitOver /\ aop \in {"stop", "end", "error", "restart", "change"}
    /\ apc' = IF aop = "error" THEN "finish" ELSE "rd"
    /\ attached' = FALSE /\ armed' = FALSE
    /\ state' = "idle"
    /\ bdec' = FALSE /\ preload' = None
    /\ UNCHANGED <<rd, wr, ring, cmd, arg, seq, ack, gap, bstate, beof, player,
                   aop, goal, track, geof, pend, snap, hold, isr, heard, due, bVars>>

(* The indices are rewritten: ipc_b_start, ipc_b_seek, ipc_b_flush.        *)
ZeroRd ==
    /\ apc = "rd" /\ isr = "off"
    /\ rd' = 0
    /\ apc' = "wr"
    /\ UNCHANGED <<state, wr, ring, cmd, arg, seq, ack, gap, bstate, beof, player,
                   aop, goal, preload, bdec, track, geof, pend, snap, iVars, bVars>>

(* A start publishes the gapless words here and hands the track off.       *)
ZeroWr ==
    /\ apc = "wr" /\ isr = "off"
    /\ wr' = 0
    /\ \/ /\ aop = "start" /\ gap' = goal.track
          /\ \/ ~bdec /\ apc' = "arg" /\ UNCHANGED aop
             \/ bdec /\ goal.pos = 0 /\ apc' = "run" /\ UNCHANGED aop
             \/ bdec /\ goal.pos # 0 /\ apc' = "arg" /\ aop' = "startat"
       \/ aop # "start" /\ apc' = "finish" /\ UNCHANGED <<aop, gap>>
    /\ UNCHANGED <<state, rd, ring, cmd, arg, seq, ack, bstate, beof, player,
                   goal, preload, bdec, track, geof, pend, snap, iVars, bVars>>

(* B may pre-buffer before the feeder is attached.                         *)
RunB ==
    /\ apc = "run" /\ isr = "off"
    /\ bdec' = TRUE
    /\ state' = IF aop \in {"start", "startat"} THEN "run" ELSE state
    /\ apc' = "finish"
    /\ UNCHANGED <<rd, wr, ring, cmd, arg, seq, ack, gap, bstate, beof, player, aop,
                   goal, preload, track, geof, pend, snap, iVars, bVars>>

Finished(next) == apc' = next /\ aop' = IF next = "idle" THEN "none" ELSE "start"

FinishStart ==
    /\ apc = "finish" /\ isr = "off" /\ aop \in {"start", "startat"}
    /\ attached' = TRUE /\ hold' = FALSE /\ armed' = TRUE
    /\ player' = "playing"
    /\ due' = FirstFrame(goal)
    /\ Finished("idle")
    /\ UNCHANGED <<shared, goal, preload, bdec, track, geof, pend, snap, isr, heard,
                   bVars>>

FinishPreload ==
    /\ apc = "finish" /\ isr = "off" /\ aop = "preload"
    /\ preload' = goal
    /\ Finished("idle")
    /\ UNCHANGED <<shared, player, goal, bdec, track, geof, pend, snap, iVars, bVars>>

FinishSeek ==
    /\ apc = "finish" /\ isr = "off" /\ aop = "seek"
    /\ state' = IF player = "paused" THEN "pause" ELSE "run"
    /\ hold' = (player = "paused")
    /\ armed' = (armed \/ (player # "paused" /\ attached))
    /\ due' = FirstFrame(goal)
    /\ Finished("idle")
    /\ UNCHANGED <<rd, wr, ring, cmd, arg, seq, ack, gap, bstate, beof, player, goal,
                   preload, bdec, track, geof, pend, snap, attached, isr, heard,
                   bVars>>

(* The next track runs on the live ring: neither the indices nor the       *)
(* feeder are touched.                                                     *)
FinishNext ==
    /\ apc = "finish" /\ isr = "off" /\ aop = "next"
    /\ Finished("idle")
    /\ UNCHANGED <<shared, player, goal, preload, bdec, track, geof, pend, snap, iVars,
                   bVars>>

(* player_stop, do_error, and the second half of restart_stream.           *)
FinishStop ==
    /\ apc = "finish" /\ isr = "off"
    /\ \/ /\ aop \in {"stop", "end"}
          /\ player' = "stopped" /\ geof' = FALSE
          /\ UNCHANGED <<pend, goal>>
          /\ Finished("idle")
       \/ /\ aop = "error"
          /\ player' = "error" /\ UNCHANGED <<geof, pend, goal>>
          /\ Finished("idle")
       \/ /\ aop \in {"restart", "change"} /\ Room
          /\ player' = "stopped" /\ geof' = FALSE /\ pend' = FALSE
          /\ goal' = Stream(track, 0)
          /\ Finished("rd")
    /\ UNCHANGED <<shared, preload, bdec, track, snap, iVars, bVars>>

-----------------------------------------------------------------------------
(* player_process: the snapshot of ipc_b_poll_state, one load at a time.   *)
SnapRd ==
    /\ AtRest /\ player = "playing"
    /\ snap' = [snap EXCEPT !.rd = rd]
    /\ apc' = "snapWr"
    /\ UNCHANGED <<shared, player, aop, goal, preload, bdec, track, geof, pend, iVars,
                   bVars>>

SnapWr ==
    /\ apc = "snapWr" /\ isr = "off"
    /\ snap' = [snap EXCEPT !.wr = wr]
    /\ apc' = "snapEof"
    /\ UNCHANGED <<shared, player, aop, goal, preload, bdec, track, geof, pend, iVars,
                   bVars>>

SnapEof ==
    /\ apc = "snapEof" /\ isr = "off"
    /\ snap' = [snap EXCEPT !.eof = beof, !.error = (bstate = "error")]
    /\ apc' = "decide"
    /\ UNCHANGED <<shared, player, aop, goal, preload, bdec, track, geof, pend, iVars,
                   bVars>>

Deciding == apc = "decide" /\ isr = "off"

NewEof == snap.eof /\ ~geof /\ ~snap.error

DecideError ==
    /\ Deciding /\ snap.error
    /\ StopFor("error")
    /\ UNCHANGED <<track, geof, pend>>

(* Mutant: the gapless words of the next track are not published.          *)
DecideNextUntrimmed ==
    /\ Deciding /\ NewEof /\ track < LastTrack
    /\ track + 1 \notin Reformat /\ Room
    /\ track' = track + 1
    /\ geof' = FALSE
    /\ goal' = Stream(track + 1, 0)
    /\ aop' = "next" /\ apc' = "arg"
    /\ UNCHANGED <<state, rd, wr, ring, cmd, arg, seq, ack, gap, bstate, beof, player,
                   preload, bdec, pend, snap, iVars, bVars>>

(* B's decoder drained and the list goes on: gapless if the format is the  *)
(* same and the next file was pre-opened, a hard restart at once if it was *)
(* not, and a restart deferred until the ring is empty if it differs.      *)
DecideNext ==
    /\ Deciding /\ NewEof /\ track < LastTrack
    /\ track + 1 \notin Reformat /\ Room
    /\ track' = track + 1
    /\ geof' = FALSE
    /\ goal' = Stream(track + 1, 0)
    /\ gap' = track + 1
    /\ aop' = "next" /\ apc' = "arg"
    /\ UNCHANGED <<state, rd, wr, ring, cmd, arg, seq, ack, bstate, beof, player,
                   preload, bdec, pend, snap, iVars, bVars>>

DecideRestart ==
    /\ Deciding /\ NewEof /\ track < LastTrack
    /\ track + 1 \notin Reformat
    /\ track' = track + 1
    /\ geof' = FALSE
    /\ StopFor("restart")
    /\ UNCHANGED pend

DecideReformat ==
    /\ Deciding /\ NewEof /\ track < LastTrack
    /\ track + 1 \in Reformat
    /\ track' = track + 1
    /\ geof' = TRUE /\ pend' = TRUE
    /\ apc' = "idle"
    /\ UNCHANGED <<shared, player, aop, goal, preload, bdec, snap, iVars, bVars>>

(* No next track, or the end of file was seen before: the stream ends when *)
(* the snapshot shows an empty ring.                                       *)
Boundary ==
    /\ Deciding /\ ~snap.error
    /\ ~NewEof \/ track = LastTrack

DecideEnd ==
    /\ Boundary
    /\ (geof \/ snap.eof) \/ pend
    /\ snap.wr = snap.rd
    /\ geof' = (geof \/ snap.eof)
    /\ IF pend THEN StopFor("change") ELSE StopFor("end")
    /\ UNCHANGED <<track, pend>>

DecideGoOn ==
    /\ Boundary
    /\ ~((geof \/ snap.eof) \/ pend) \/ snap.wr # snap.rd
    /\ geof' = (geof \/ snap.eof)
    /\ apc' = "idle"
    /\ UNCHANGED <<shared, player, aop, goal, preload, bdec, track, pend, snap, iVars,
                   bVars>>

-----------------------------------------------------------------------------
(* The interrupt: rknano_i2s_tx_isr around shared_pull.                    *)

IsrFire ==
    /\ isr = "off" /\ attached /\ armed
    /\ IF hold THEN armed' = FALSE /\ UNCHANGED isr
       ELSE isr' = (IF rd = wr THEN "dry" ELSE "copy") /\ UNCHANGED armed
    /\ UNCHANGED <<shared, aVars, attached, hold, heard, due, bVars>>

IsrCopy ==
    /\ isr = "copy"
    /\ heard' = ring[rd % RingFrames]
    /\ due' = FrameAfter(due)
    /\ rd' = (rd + 1) % Modulus
    /\ isr' = "off"
    /\ UNCHANGED <<state, wr, ring, cmd, arg, seq, ack, gap, bstate, beof, aVars,
                   attached, hold, armed, bVars>>

(* The ring looked dry: mask the source until the producer re-arms it.     *)
IsrMask ==
    /\ isr = "dry"
    /\ armed' = FALSE
    /\ isr' = "off"
    /\ UNCHANGED <<shared, aVars, attached, hold, heard, due, bVars>>

-----------------------------------------------------------------------------
(* B: handle_command, then one decode round if the state is RUN.           *)

BSeq ==
    /\ bpc = "loop"
    /\ IF seq = ack THEN bpc' = "state" /\ UNCHANGED bseq
                    ELSE bpc' = "cmd" /\ bseq' = seq
    /\ UNCHANGED <<shared, aVars, iVars, bcmd, codec, btrim, bemit, brd, bwr, bgot>>

BCmd ==
    /\ bpc = "cmd"
    /\ bcmd' = cmd
    /\ bpc' = "exec"
    /\ UNCHANGED <<shared, aVars, iVars, bseq, codec, btrim, bemit, brd, bwr, bgot>>

BOpen ==
    /\ bpc = "exec" /\ bcmd.op \in {"open", "next"}
    /\ \/ codec' = [arg EXCEPT !.pos = 0] /\ btrim' = gap /\ bemit' = 0
          /\ beof' = FALSE /\ bstate' = "open"
       \/ /\ "open_fails" \in Faults
          /\ codec' = None /\ bstate' = "error" /\ UNCHANGED <<btrim, bemit, beof>>
    /\ bpc' = "ack"
    /\ UNCHANGED <<state, rd, wr, ring, cmd, arg, seq, ack, gap, aVars, iVars, bseq,
                   bcmd, brd, bwr, bgot>>

BSeek ==
    /\ bpc = "exec" /\ bcmd.op = "seek"
    /\ IF codec # None
       THEN codec' = [arg EXCEPT !.track = codec.track] /\ btrim' = gap
            /\ bemit' = 0 /\ beof' = FALSE
       ELSE UNCHANGED <<codec, btrim, bemit, beof>>
    /\ bpc' = "ack"
    /\ UNCHANGED <<state, rd, wr, ring, cmd, arg, seq, ack, gap, bstate, aVars, iVars,
                   bseq, bcmd, brd, bwr, bgot>>

BClose ==
    /\ bpc = "exec" /\ bcmd.op = "close"
    /\ codec' = None /\ bstate' = "idle"
    /\ bpc' = "ack"
    /\ UNCHANGED <<state, rd, wr, ring, cmd, arg, seq, ack, gap, beof, aVars, iVars,
                   bseq, bcmd, btrim, bemit, brd, bwr, bgot>>

(* Mutant: the command is not acknowledged.                                *)
BAckNever ==
    /\ bpc = "ack"
    /\ bpc' = "state"
    /\ UNCHANGED <<shared, aVars, iVars, bseq, bcmd, codec, btrim, bemit, brd, bwr,
                   bgot>>

BAck ==
    /\ bpc = "ack"
    /\ ack' = bseq
    /\ bpc' = "state"
    /\ UNCHANGED <<state, rd, wr, ring, cmd, arg, seq, gap, bstate, beof, aVars, iVars,
                   bseq, bcmd, codec, btrim, bemit, brd, bwr, bgot>>

BState ==
    /\ bpc = "state"
    /\ bpc' = IF state = "run" /\ codec # None /\ ~beof THEN "rd" ELSE "loop"
    /\ UNCHANGED <<shared, aVars, iVars, bseq, bcmd, codec, btrim, bemit, brd, bwr, bgot>>

BLoadRd ==
    /\ bpc = "rd"
    /\ brd' = rd
    /\ bpc' = "wr"
    /\ UNCHANGED <<shared, aVars, iVars, bseq, bcmd, codec, btrim, bemit, bwr, bgot>>

BLoadWr ==
    /\ bpc = "wr"
    /\ bwr' = wr
    /\ bpc' = IF (RingFrames - Fill(wr, brd)) % Modulus < Chunk THEN "loop"
                                                               ELSE "decode"
    /\ UNCHANGED <<shared, aVars, iVars, bseq, bcmd, codec, btrim, bemit, brd, bgot>>

BDecodeError ==
    /\ bpc = "decode" /\ "decode_error" \in Faults
    /\ bstate' = "error"
    /\ bpc' = "loop"
    /\ UNCHANGED <<state, rd, wr, ring, cmd, arg, seq, ack, gap, beof, aVars, iVars,
                   bseq, bcmd, codec, btrim, bemit, brd, bwr, bgot>>

(* The decoder returns a batch.  When the exact length is known, BEOF is    *)
(* raised as soon as that many frames were emitted since the trim words    *)
(* were latched, before the batch is in the ring.                          *)
BDecode ==
    /\ bpc = "decode"
    /\ bgot' = Least(Chunk, TrackFrames - codec.pos)
    /\ codec' = [codec EXCEPT !.pos = @ + bgot']
    /\ bemit' = bemit + bgot'
    /\ IF bgot' = 0 \/ (TailTrim /\ bemit' >= TrackFrames)
       THEN beof' = TRUE /\ bstate' = "eof"
       ELSE UNCHANGED <<beof, bstate>>
    /\ bpc' = IF bgot' = 0 THEN "loop" ELSE "write"
    /\ UNCHANGED <<state, rd, wr, ring, cmd, arg, seq, ack, gap, aVars, iVars, bseq,
                   bcmd, btrim, brd, bwr>>

BWrite ==
    /\ bpc = "write"
    /\ ring' = [i \in DOMAIN ring |->
                  LET k == (i - bwr) % RingFrames
                  IN  IF k < bgot THEN <<codec.id, codec.pos - bgot + k>>
                                  ELSE ring[i]]
    /\ bpc' = "publish"
    /\ UNCHANGED <<state, rd, wr, cmd, arg, seq, ack, gap, bstate, beof, aVars, iVars,
                   bseq, bcmd, codec, btrim, bemit, brd, bwr, bgot>>

(* Mutant: the counter is not wrapped.                                     *)
BPublishUnwrapped ==
    /\ bpc = "publish"
    /\ wr' = bwr + bgot
    /\ bpc' = "arm"
    /\ UNCHANGED <<state, rd, ring, cmd, arg, seq, ack, gap, bstate, beof, aVars, iVars,
                   bseq, bcmd, codec, btrim, bemit, brd, bwr, bgot>>

BPublish ==
    /\ bpc = "publish"
    /\ wr' = (bwr + bgot) % Modulus
    /\ bpc' = "arm"
    /\ UNCHANGED <<state, rd, ring, cmd, arg, seq, ack, gap, bstate, beof, aVars, iVars,
                   bseq, bcmd, codec, btrim, bemit, brd, bwr, bgot>>

BArm ==
    /\ bpc = "arm"
    /\ armed' = TRUE
    /\ bpc' = "loop" /\ brd' = 0 /\ bwr' = 0 /\ bgot' = 0
    /\ UNCHANGED <<shared, aVars, attached, hold, isr, heard, due, bseq, bcmd, codec,
                   btrim, bemit>>

-----------------------------------------------------------------------------
User ==
    \/ Preload \/ Stop \/ Pause \/ Resume
    \/ \E p \in SeekTargets \cup {0} : Start(p)
    \/ \E p \in SeekTargets : Seek(p)
    \/ \E t \in 1 .. LastTrack : Skip(t)

Operation ==
    \/ PostArg \/ PostCmd \/ PostSeq
    \/ WaitOpen \/ WaitSeek \/ WaitClose
    \/ ZeroRd \/ ZeroWr \/ RunB
    \/ FinishStart \/ FinishPreload \/ FinishSeek \/ FinishNext \/ FinishStop

Process ==
    \/ SnapRd \/ SnapWr \/ SnapEof
    \/ DecideError \/ DecideNext \/ DecideRestart \/ DecideReformat
    \/ DecideEnd \/ DecideGoOn

Interrupt == IsrFire \/ IsrCopy \/ IsrMask

Command == BSeq \/ BCmd \/ BOpen \/ BSeek \/ BClose \/ BAck

Round ==
    \/ BState \/ BLoadRd \/ BLoadWr
    \/ BDecodeError \/ BDecode \/ BWrite \/ BPublish \/ BArm

CoreB == Command \/ Round

Next == User \/ Operation \/ Process \/ Interrupt \/ CoreB

Spec == Init /\ [][Next]_vars

(* The interrupt is taken when its source is armed, B's loop never stops,  *)
(* an operation of the AP runs to its end, and the application calls       *)
(* player_process() again and again.  The user owes nothing.               *)
FairSpec ==
    /\ Spec
    /\ WF_vars(Interrupt) /\ WF_vars(CoreB)
    /\ WF_vars(Operation) /\ WF_vars(Process)

-----------------------------------------------------------------------------
(* Every variable keeps its type.                                          *)
Streams == [id : 0 .. MaxStreams, track : 0 .. LastTrack, pos : 0 .. TrackFrames]

Frames == (0 .. MaxStreams) \X (0 .. TrackFrames - 1)

BStates == {"idle", "open", "eof", "error"}

Commands == [op : {"none", "open", "next", "seek", "close"}, tag : Nat]

Counters == 0 .. Modulus - 1

SharedOK ==
    /\ state \in {"idle", "run", "pause"}
    /\ rd \in Counters /\ wr \in Counters
    /\ ring \in [0 .. RingFrames - 1 -> Frames]
    /\ cmd \in Commands /\ arg \in Streams
    /\ seq \in Nat /\ ack \in 0 .. seq
    /\ gap \in 0 .. LastTrack
    /\ bstate \in BStates /\ beof \in BOOLEAN

AOK ==
    /\ player \in {"stopped", "playing", "paused", "error"}
    /\ apc \in {"idle", "arg", "cmd", "seq", "wait", "rd", "wr", "run", "finish",
                "snapWr", "snapEof", "decide"}
    /\ aop \in {"none", "preload", "start", "startat", "seek", "stop", "end", "error",
                "next", "restart", "change"}
    /\ goal \in Streams /\ preload \in Streams
    /\ bdec \in BOOLEAN /\ geof \in BOOLEAN /\ pend \in BOOLEAN
    /\ track \in 1 .. LastTrack
    /\ snap \in [rd : Counters, wr : Counters, eof : BOOLEAN, error : BOOLEAN]

(* What is due is a frame of any stream: after a wait that ran out the     *)
(* interrupt may play more than was ever decoded.                          *)
FeederOK ==
    /\ attached \in BOOLEAN /\ hold \in BOOLEAN /\ armed \in BOOLEAN
    /\ isr \in {"off", "dry", "copy"}
    /\ heard \in Frames /\ due \in Nat \X (0 .. TrackFrames - 1)

CoreOK ==
    /\ bpc \in {"loop", "cmd", "exec", "ack", "state", "rd", "wr", "decode", "write",
                "publish", "arm"}
    /\ bseq \in 0 .. seq /\ bcmd \in Commands
    /\ codec \in Streams /\ btrim \in 0 .. LastTrack
    /\ brd \in Counters /\ bwr \in Counters
    /\ bgot \in 0 .. Chunk /\ bemit \in 0 .. TrackFrames

TypeOK == SharedOK /\ AOK /\ FeederOK /\ CoreOK

(* While the feeder may run, the indices never claim more frames than the  *)
(* ring holds: the rewrites by the AP and a round in flight on B never     *)
(* combine into a count from which B would overwrite unplayed audio        *)
(* (ipc_b_seek, ipc_b_start, decode_round_inner).                          *)
PcmBounded == attached /\ ~hold => Fill(wr, rd) <= RingFrames

(* Every frame the interrupt plays is the next one of the stream: across   *)
(* seeks, pauses and gapless and hard boundaries nothing is skipped,       *)
(* repeated or played from the stream before (shared_pull, ring_write).    *)
HeardInOrder == [][IsrCopy => heard' = due]_vars

(* The command B executes is the one whose sequence number it acknowledges *)
(* (cmd_start, handle_command).                                            *)
FetchedRight == bpc \in {"exec", "ack"} => bcmd.tag = bseq

(* A round is trimmed with the gapless words of the track it decodes       *)
(* (ipc_b_start and ipc_b_next publish them, trim_reset latches them).     *)
TrimOfTrack == bpc = "write" => btrim = codec.track

(* Every operation of the player runs to its end, or to the bound on       *)
(* streams: B answers the command it waits for (b_wait_ack never has to    *)
(* give up, handle_command).                                               *)
OperationsEnd == aop # "none" ~> aop = "none" \/ (apc = "finish" /\ ~Room)

-----------------------------------------------------------------------------
(* What the code's comments say and the code does not keep: the first has  *)
(* a run, the others are checked by hand (see README, "Known deviations"). *)

(* A stream nobody disturbs reaches its end (player_process).              *)
PlaybackEnds == []<>(player # "playing" \/ aop # "none")

(* The player ends a stream, or restarts it for a new format, only when    *)
(* its last frame was played (player_process, the final boundary).         *)
EndComplete == [][aop = "none" /\ aop' \in {"end", "change"} => due[1] > goal.id]_vars

(* A hand-off that B carried out is not taken back: the player falls back  *)
(* to a hard restart only when B did not open the track (b_cmd_wait).      *)
HandoffStands == [][aop = "next" /\ aop' = "restart" => codec.id # goal.id]_vars
=============================================================================
