------------------------------ MODULE PlayQueue ------------------------------
(***************************************************************************)
(* The track list (firmware/player/playlist.c) and what the player does    *)
(* with it (player.c): the codec the AP has open to describe a track, the  *)
(* pre-opening of the next one, the hand-over to Core B at a boundary, the *)
(* deferred restart when the format changes, and the user's calls.  One    *)
(* thread of the AP makes all calls, so a call is one step, but for the    *)
(* loop of advance_playlist: each entry it tries is a step, and no other   *)
(* call comes between.  Core B decodes and the PCM ring fills and drains   *)
(* all the while.  Core B is here what the player knows of it; PcmStream   *)
(* has the rest.  The resolver gives the same answer every time, so the    *)
(* answer the player keeps from its peek (peek_path) is left out; so is    *)
(* the queue of paths (player_enqueue), which has no caller.               *)
(***************************************************************************)
EXTENDS Integers, Sequences, FiniteSets, SequencesExt

CONSTANTS
    PqRecords,      \* media index records, each with a path of its own
    PqMissing,      \* those the resolver does not find
    PqBad,          \* those whose file no codec opens
    PqFormat,       \* record -> format
    PqLists,        \* lists the user plays
    PqSkips,        \* PLAYER_ADVANCE_SKIPS
    PqFaults,       \* a subset of PqFaultKinds
    PqNone          \* no record

PqFaultKinds == {"start",   \* ipc_b_start fails
                 "open",    \* a file that a codec opens does not open this time
                 "dac",     \* the DAC is down when a pause ends
                 "seek",    \* the codec does not seek
                 "preopen", \* the next file cannot be opened for Core B
                 "next",    \* Core B does not acknowledge NEXT
                 "decode"}  \* Core B reports an error

ASSUME PqAssumption ==
    /\ PqMissing \subseteq PqRecords /\ PqBad \subseteq PqRecords
    /\ DOMAIN PqFormat = PqRecords
    /\ \A s \in PqLists : s \in Seq(PqRecords) /\ s # << >>
    /\ PqSkips \in Nat \ {0} /\ PqFaults \subseteq PqFaultKinds
    /\ PqNone \notin PqRecords

VARIABLES
    pqList,         \* g.list: orig, order, pos (0 when empty), repeat, shuffle
    pqState,        \* g.state
    pqAp,           \* g.track, the open codec, pending_*, eof,
                    \* restart_pending, preload_done
    pqB,            \* Core B: the open track, its end reached, the PCM ring
                    \* empty, the track of the pre-opened file ring;
                    \* history: its last start failed
    pqWalk,         \* advance_playlist: under way, tries left, hard
    pqLost,         \* history: the list stands at an entry that did not open
    pqMixed         \* history: a deferred restart was overtaken

pqVars == <<pqList, pqState, pqAp, pqB, pqWalk, pqLost, pqMixed>>

(* Core B stopped.  After an error the ring may hold what it held; that is *)
(* kept where it matters, in PqStart: elsewhere a start or a flush follows.*)
PqClosed == [track |-> PqNone, eof |-> FALSE, empty |-> TRUE, pre |-> PqNone, fell |-> FALSE]

PqNoWalk == [on |-> FALSE, left |-> 0, hard |-> FALSE]

PqInit ==
    /\ pqList = [orig |-> << >>, order |-> << >>, pos |-> 0, repeat |-> "off", shuffle |-> FALSE]
    /\ pqState = "stopped"
    /\ pqAp = [track |-> PqNone, codec |-> PqNone, pending |-> PqNone,
               eof |-> FALSE, restart |-> FALSE, done |-> FALSE]
    /\ pqB = PqClosed
    /\ pqWalk = PqNoWalk /\ pqLost = FALSE /\ pqMixed = FALSE

-----------------------------------------------------------------------------
(* playlist.c                                                              *)

PqCount == Len(pqList.order)

PqPlays(l) == l.order[l.pos]

(* shuffle_range over all but the first.                                   *)
PqShuffled(s) ==
    {[i \in DOMAIN s |-> IF i = 1 THEN s[1] ELSE s[q[i]]] :
        q \in {p \in [2 .. Len(s) -> 2 .. Len(s)] : IsInjective(p)}}

(* The entry at i first, in exchange for the one that was there.           *)
PqToFront(s, i) == [s EXCEPT ![1] = s[i], ![i] = s[1]]

(* Mutant: the first entry is overwritten.                                 *)
PqLoadOverwrites(s, start) ==
    IF pqList.shuffle
    THEN {[pqList EXCEPT !.orig = s, !.order = o, !.pos = 1] : o \in PqShuffled([s EXCEPT ![1] = s[start]])}
    ELSE {[pqList EXCEPT !.orig = s, !.order = s, !.pos = start]}

(* playlist_load *)
PqLoad(s, start) ==
    IF pqList.shuffle
    THEN {[pqList EXCEPT !.orig = s, !.order = o, !.pos = 1] : o \in PqShuffled(PqToFront(s, start))}
    ELSE {[pqList EXCEPT !.orig = s, !.order = s, !.pos = start]}

(* find_val *)
PqFind(s, r) == SelectInSeq(s, LAMBDA x : x = r)

(* playlist_set_shuffle *)
PqToggled ==
    IF PqCount = 0 THEN {[pqList EXCEPT !.shuffle = ~@]}
    ELSE IF pqList.shuffle
    THEN {[pqList EXCEPT !.shuffle = FALSE, !.order = pqList.orig,
                         !.pos = PqFind(pqList.orig, PqPlays(pqList))]}
    ELSE {[pqList EXCEPT !.shuffle = TRUE, !.order = o, !.pos = 1] :
            o \in PqShuffled(PqToFront(pqList.orig, PqFind(pqList.orig, PqPlays(pqList))))}

(* Where playlist_advance, or by hand playlist_next_manual, goes from p;   *)
(* 0 when the list ends.                                                   *)
PqNextPos(p, hard) ==
    IF PqCount = 0 THEN 0
    ELSE IF pqList.repeat = "one" /\ ~hard THEN p
    ELSE IF p < PqCount THEN p + 1
    ELSE IF pqList.repeat = "all" THEN 1 ELSE 0

(* playlist_has_next *)
PqHasNext == PqNextPos(pqList.pos, FALSE) # 0

(* playlist_prev_manual *)
PqPrevPos ==
    IF PqCount = 0 THEN 0
    ELSE IF pqList.pos > 1 THEN pqList.pos - 1
    ELSE IF pqList.repeat = "all" THEN PqCount ELSE 0

-----------------------------------------------------------------------------
(* player.c: opening and closing.                                          *)

(* Whether open_codec_only opens a file that the resolver found.           *)
PqOpens(r) ==
    IF r \in PqBad THEN {FALSE}
    ELSE IF "open" \in PqFaults THEN BOOLEAN ELSE {TRUE}

(* open_codec_only of a file that opens, and of one that does not.         *)
PqOpened(ap, r) ==
    [ap EXCEPT !.track = r, !.codec = r, !.pending = PqNone, !.eof = FALSE, !.done = FALSE]

PqNotOpened(ap) == [ap EXCEPT !.codec = PqNone, !.pending = PqNone]

(* The codec of the playing track is brought back from the pending one's,  *)
(* if its file opens.                                                      *)
PqRestored ==
    IF pqAp.pending = PqNone THEN {pqAp}
    ELSE {IF o THEN PqOpened(pqAp, pqAp.track) ELSE PqNotOpened(pqAp) : o \in PqOpens(pqAp.track)}

PqFresh(r) == [PqClosed EXCEPT !.track = r]

(* ipc_b_start; when it fails, do_error.  The DAC is brought up after Core *)
(* B began to fill the ring, and do_error does not flush it.               *)
PqStart(r) ==
    \/ pqState' = "playing" /\ pqB' = PqFresh(r)
    \/ /\ "start" \in PqFaults /\ pqState' = "error"
       /\ \E e \in BOOLEAN : pqB' = [PqClosed EXCEPT !.empty = e, !.fell = TRUE]

(* restart_stream: it stops, and plays if a codec is open.                 *)
PqRestartStream(ap) ==
    /\ pqAp' = [ap EXCEPT !.eof = FALSE, !.restart = FALSE]
    /\ IF ap.codec = PqNone THEN pqState' = "stopped" /\ pqB' = PqClosed ELSE PqStart(ap.track)
    /\ pqMixed' = FALSE

(* player_stop; the restart that was deferred stays asked for.             *)
PqStop ==
    IF pqState = "stopped" THEN UNCHANGED <<pqState, pqAp, pqB, pqMixed>>
    ELSE /\ \E ap \in PqRestored : pqAp' = [ap EXCEPT !.eof = FALSE]
         /\ pqState' = "stopped" /\ pqB' = PqClosed
         /\ pqMixed' = (pqMixed \/ pqAp.restart)

-----------------------------------------------------------------------------
(* player.c: advance_to and advance_playlist.                              *)

PqSame(r) == PqFormat[r] = PqFormat[pqAp.track]

(* advance_to: r is adopted from the pending codec or opened.              *)
PqTaken(r) == PqOpened(pqAp, r)

(* Mutant: the end of the old track is not kept consumed.                  *)
PqDeferredAgain(r) == [PqTaken(r) EXCEPT !.restart = TRUE]

(* The format changes: the restart waits for the ring to drain.            *)
PqDeferred(r) == [PqTaken(r) EXCEPT !.restart = TRUE, !.eof = TRUE]

(* Mutant: whatever file is pre-opened is handed over.                     *)
PqHandOverAny(r) ==
    IF pqB.pre # PqNone
    THEN /\ pqAp' = PqTaken(r) /\ pqState' = "playing" /\ UNCHANGED pqMixed
         /\ pqB' = [pqB EXCEPT !.track = pqB.pre, !.eof = FALSE, !.pre = PqNone]
    ELSE PqRestartStream(PqTaken(r))

(* ipc_b_next: only with exactly this file pre-opened, otherwise a restart.*)
PqHandOver(r) ==
    \/ /\ pqB.pre = r
       /\ pqAp' = PqTaken(r) /\ pqState' = "playing" /\ UNCHANGED pqMixed
       /\ pqB' = [pqB EXCEPT !.track = r, !.eof = FALSE, !.pre = PqNone]
    \/ (pqB.pre # r \/ "next" \in PqFaults) /\ PqRestartStream(PqTaken(r))

(* ipc_b_track_change: without Core B the AP goes on by itself.            *)
PqJoin(r) == pqAp' = PqTaken(r) /\ pqState' = "playing" /\ UNCHANGED <<pqB, pqMixed>>

(* The track that was opened takes over.                                   *)
PqTurn(r, hard) ==
    IF ~hard /\ pqB.track # PqNone
    THEN IF PqSame(r) THEN PqHandOver(r)
         ELSE pqAp' = PqDeferred(r) /\ UNCHANGED <<pqState, pqB, pqMixed>>
    ELSE IF ~hard /\ PqSame(r) THEN PqJoin(r) ELSE PqRestartStream(PqTaken(r))

(* advance_to; a file that does not open leaves the old stream alone.      *)
PqAdvanceTo(r, hard) ==
    \/ /\ pqAp.pending = r \/ TRUE \in PqOpens(r)
       /\ PqTurn(r, hard) /\ pqLost' = FALSE
    \/ /\ pqAp.pending # r /\ FALSE \in PqOpens(r)
       /\ pqAp' = PqNotOpened(pqAp)
       /\ pqLost' = TRUE /\ UNCHANGED <<pqState, pqB, pqMixed>>

(* advance_playlist is called.                                             *)
PqAdvance(hard) == pqWalk' = [on |-> TRUE, left |-> PqSkips, hard |-> hard]

(* It moves the list on and tries the entry; whatever goes wrong, a start  *)
(* included, the next one is tried.                                        *)
PqTry ==
    /\ pqWalk.left > 0
    /\ LET p == PqNextPos(pqList.pos, pqWalk.hard)
           r == pqList.order[p]
       IN  /\ p # 0
           /\ pqList' = [pqList EXCEPT !.pos = p]
           /\ IF r \in PqMissing
              THEN pqLost' = TRUE /\ UNCHANGED <<pqState, pqAp, pqB, pqMixed>>
              ELSE PqAdvanceTo(r, pqWalk.hard)
    /\ pqWalk' = IF pqLost' \/ pqState' = "error" THEN [pqWalk EXCEPT !.left = @ - 1] ELSE PqNoWalk

(* The list ends, or all tries are used up.                                *)
PqGiveUp ==
    /\ pqWalk.left = 0 \/ PqNextPos(pqList.pos, pqWalk.hard) = 0
    /\ PqStop /\ pqWalk' = PqNoWalk /\ UNCHANGED <<pqList, pqLost>>

PqWalks == pqWalk.on /\ (PqTry \/ PqGiveUp)

-----------------------------------------------------------------------------
(* player_process, while PLAYING.                                          *)

PqPlaying == pqState = "playing"

(* The decoder, Core B's or without it the AP's own, is through with the   *)
(* track, and the player has not noted it yet.                             *)
PqEnds == ~pqAp.eof /\ (pqB.eof \/ pqB.track = PqNone)

PqEofNoted == pqAp' = [pqAp EXCEPT !.eof = TRUE]

(* Core B is through and there is a next track.                            *)
PqBoundary ==
    /\ PqPlaying /\ PqEnds /\ pqB.eof /\ PqHasNext
    /\ PqEofNoted /\ PqAdvance(FALSE)
    /\ UNCHANGED <<pqList, pqState, pqB, pqLost, pqMixed>>

(* preopen_next_codec: the playing track's codec comes back if the next    *)
(* one's file does not open.                                               *)
PqPreopened(r) ==
    (IF TRUE \in PqOpens(r) THEN {[pqAp EXCEPT !.codec = r, !.pending = r]} ELSE {})
    \cup IF FALSE \in PqOpens(r)
         THEN {[pqAp EXCEPT !.codec = IF back THEN pqAp.track ELSE PqNone, !.pending = PqNone] :
                back \in PqOpens(pqAp.track)}
         ELSE {}

(* Near the end: the next file for Core B, and its codec on the AP.        *)
PqPreopen ==
    /\ PqPlaying /\ ~PqEnds /\ ~pqAp.done /\ ~pqAp.eof
    /\ LET p == PqNextPos(pqList.pos, FALSE)
           r == pqList.order[p]
       IN  IF p = 0 \/ (p # 0 /\ r \in PqMissing)
           THEN pqAp' = [pqAp EXCEPT !.done = TRUE] /\ UNCHANGED pqB
           ELSE /\ \E ap \in PqPreopened(r) : pqAp' = [ap EXCEPT !.done = TRUE]
                /\ \/ pqB' = [pqB EXCEPT !.pre = r]
                   \/ "preopen" \in PqFaults /\ pqB.pre # r /\ pqB' = [pqB EXCEPT !.pre = PqNone]
    /\ UNCHANGED <<pqList, pqState, pqWalk, pqLost, pqMixed>>

(* The end is noted while the ring still holds the tail.                   *)
PqLastEnds ==
    /\ PqPlaying /\ PqEnds /\ ~pqB.empty
    /\ pqB.eof => ~PqHasNext
    /\ PqEofNoted
    /\ UNCHANGED <<pqList, pqState, pqB, pqWalk, pqLost, pqMixed>>

(* The ring is empty: the deferred restart, the next track, or the end.    *)
PqDrained ==
    /\ PqPlaying /\ pqB.empty /\ (pqAp.eof \/ pqAp.restart \/ PqEnds)
    /\ PqEnds /\ pqB.eof => ~PqHasNext
    /\ IF pqAp.restart THEN PqRestartStream(pqAp) /\ UNCHANGED <<pqWalk, pqLost>>
       ELSE IF PqCount > 0
       THEN PqEofNoted /\ PqAdvance(FALSE) /\ UNCHANGED <<pqState, pqB, pqLost, pqMixed>>
       ELSE PqStop /\ UNCHANGED <<pqWalk, pqLost>>
    /\ UNCHANGED pqList

(* The decoder reports an error: Core B's, or the AP's own, which in the   *)
(* builds for the target only reads metadata.                              *)
PqFails ==
    /\ PqPlaying
    /\ IF pqB.track = PqNone THEN ~pqAp.eof ELSE "decode" \in PqFaults
    /\ pqState' = "error" /\ pqB' = PqClosed
    /\ UNCHANGED <<pqList, pqAp, pqWalk, pqLost, pqMixed>>

PqProcess ==
    ~pqWalk.on /\ (PqBoundary \/ PqPreopen \/ PqLastEnds \/ PqDrained \/ PqFails)

-----------------------------------------------------------------------------
(* The user's calls.                                                       *)

(* player_play from STOPPED, or from PAUSED when the stream lives on.      *)
PqPlay ==
    /\ pqAp.codec # PqNone
    /\ \/ /\ pqState = "paused" /\ pqB.track # PqNone
          /\ pqState' = "playing" /\ UNCHANGED pqB
       \/ pqState = "stopped" /\ PqStart(pqAp.track)
    /\ UNCHANGED <<pqList, pqAp, pqWalk, pqLost, pqMixed>>

(* player_play from PAUSED when ipc_b_pause(0) fails, Core B being closed  *)
(* or the DAC down: the stream is built again at its position.             *)
PqRebuild ==
    /\ pqAp.codec # PqNone /\ pqState = "paused"
    /\ pqB.track = PqNone \/ "dac" \in PqFaults
    /\ pqAp' = [pqAp EXCEPT !.eof = FALSE] /\ PqStart(pqAp.track)
    /\ pqMixed' = (pqMixed \/ pqAp.restart)
    /\ UNCHANGED <<pqList, pqWalk, pqLost>>

(* player_pause *)
PqPause ==
    /\ PqPlaying /\ pqState' = "paused"
    /\ UNCHANGED <<pqList, pqAp, pqB, pqWalk, pqLost, pqMixed>>

PqUserStop == pqState # "stopped" /\ PqStop /\ UNCHANGED <<pqList, pqWalk, pqLost>>

(* player_seek: Core B repositions whatever it has open, or the ring is    *)
(* flushed, unless the playing track's codec cannot be brought back or     *)
(* does not seek.                                                          *)
PqSeek ==
    /\ pqAp.codec # PqNone /\ pqState # "error"
    /\ \E ap \in PqRestored :
          \/ /\ ap.codec # PqNone
             /\ pqAp' = [ap EXCEPT !.eof = FALSE]
             /\ pqB' = [pqB EXCEPT !.eof = FALSE, !.empty = TRUE]
             /\ pqMixed' = (pqMixed \/ pqAp.restart)
          \/ /\ ap.codec = PqNone \/ "seek" \in PqFaults
             /\ pqAp' = ap /\ UNCHANGED <<pqB, pqMixed>>
    /\ UNCHANGED <<pqList, pqState, pqWalk, pqLost>>

(* player_next *)
PqNext1 ==
    /\ PqCount > 0 /\ PqAdvance(TRUE)
    /\ UNCHANGED <<pqList, pqState, pqAp, pqB, pqLost, pqMixed>>

(* player_prev: the position has moved, whether or not the track opens.    *)
PqPrev ==
    /\ PqPrevPos # 0
    /\ pqList' = [pqList EXCEPT !.pos = PqPrevPos]
    /\ LET r == pqList.order[PqPrevPos]
       IN  IF r \in PqMissing THEN pqLost' = TRUE /\ UNCHANGED <<pqState, pqAp, pqB, pqMixed>>
           ELSE PqAdvanceTo(r, TRUE)
    /\ UNCHANGED pqWalk

(* open_track, once the file opens; the caller plays it.                   *)
PqOpenAndPlay(r) ==
    /\ TRUE \in PqOpens(r)
    /\ pqAp' = PqTaken(r)
    /\ pqMixed' = (pqMixed \/ pqAp.restart) /\ pqLost' = FALSE
    /\ PqStart(r)

(* open_track of a file that does not open: do_error.                      *)
PqOpenFails(r) ==
    /\ FALSE \in PqOpens(r)
    /\ pqAp' = PqNotOpened(pqAp)
    /\ pqState' = "error" /\ pqB' = PqClosed
    /\ pqMixed' = (pqMixed \/ pqAp.restart) /\ pqLost' = TRUE

(* player_play_list *)
PqPlayList(s, start) ==
    /\ s[start] \notin PqMissing
    /\ \/ pqList' \in PqLoad(s, start) /\ PqOpenAndPlay(s[start])
       \/ UNCHANGED pqList /\ PqOpenFails(s[start])
    /\ UNCHANGED pqWalk

(* player_play_at *)
PqPlayAt(i) ==
    /\ i <= PqCount /\ pqList.order[i] \notin PqMissing
    /\ i # pqList.pos \/ pqAp.codec = PqNone
    /\ \/ pqList' = [pqList EXCEPT !.pos = i] /\ PqOpenAndPlay(pqList.order[i])
       \/ UNCHANGED pqList /\ PqOpenFails(pqList.order[i])
    /\ UNCHANGED pqWalk

(* player_open of a file that is not in the index, and player_play.        *)
PqPlayFile(r) ==
    /\ pqList' = [pqList EXCEPT !.orig = << >>, !.order = << >>, !.pos = 0]
    /\ PqOpenAndPlay(r) \/ PqOpenFails(r)
    /\ UNCHANGED pqWalk

(* player_set_shuffle *)
PqSetShuffle ==
    /\ pqList' \in PqToggled
    /\ UNCHANGED <<pqState, pqAp, pqB, pqWalk, pqLost, pqMixed>>

(* player_set_repeat *)
PqSetRepeat(mode) ==
    /\ pqList' = [pqList EXCEPT !.repeat = mode]
    /\ UNCHANGED <<pqState, pqAp, pqB, pqWalk, pqLost, pqMixed>>

PqUser ==
    /\ ~pqWalk.on
    /\ \/ PqPlay \/ PqRebuild \/ PqPause \/ PqUserStop \/ PqSeek \/ PqNext1 \/ PqPrev
       \/ PqSetShuffle
       \/ \E s \in PqLists : \E start \in DOMAIN s : PqPlayList(s, start)
       \/ \E i \in 1 .. PqCount : PqPlayAt(i)
       \/ \E r \in PqRecords : PqPlayFile(r)
       \/ \E mode \in {"off", "all", "one"} : PqSetRepeat(mode)

-----------------------------------------------------------------------------
(* Core B and the PCM ring, while the stream runs.                         *)

PqRuns ==
    /\ PqPlaying /\ pqB.track # PqNone
    /\ UNCHANGED <<pqList, pqState, pqAp, pqWalk, pqLost, pqMixed>>

PqBEnds == PqRuns /\ ~pqB.eof /\ pqB' = [pqB EXCEPT !.eof = TRUE]

PqRingFills == PqRuns /\ ~pqB.eof /\ pqB.empty /\ pqB' = [pqB EXCEPT !.empty = FALSE]

PqRingEmpties == PqRuns /\ ~pqB.empty /\ pqB' = [pqB EXCEPT !.empty = TRUE]

PqNext == PqProcess \/ PqWalks \/ PqUser \/ PqBEnds \/ PqRingFills \/ PqRingEmpties

PqSpec == PqInit /\ [][PqNext]_pqVars

-----------------------------------------------------------------------------
(* Every variable has its type.                                            *)
PqTypeOK ==
    /\ pqState \in {"stopped", "playing", "paused", "error"}
    /\ {pqAp.track, pqAp.codec, pqAp.pending, pqB.track, pqB.pre}
          \subseteq PqRecords \cup {PqNone}
    /\ pqList.pos \in DOMAIN pqList.order \cup {0} /\ (pqList.pos = 0 <=> PqCount = 0)
    /\ pqWalk \in [on : BOOLEAN, left : 0 .. PqSkips, hard : BOOLEAN]

PqTimes(r, s) == Cardinality({i \in DOMAIN s : s[i] = r})

(* Whatever was loaded, shuffled and unshuffled in between, the play order *)
(* has every record as often as the user's order: none is lost, none comes *)
(* twice (playlist_load, playlist_set_shuffle).                            *)
PqOrderWhole == \A r \in PqRecords : PqTimes(r, pqList.order) = PqTimes(r, pqList.orig)

(* The list position, the track on display, the codec the AP has open and  *)
(* the track Core B decodes are the same track, however the list was       *)
(* reordered, whatever was pre-opened and whichever open, start or seek    *)
(* fails: the codec may be ahead by the pending track, or closed; Core B   *)
(* behind while a restart is deferred, or closed when its start failed in  *)
(* the middle of an advance; the position after an entry that did not open.*)
PqAgree ==
    /\ pqState \in {"playing", "paused"} /\ ~pqAp.restart =>
          pqB.track = pqAp.track \/ (pqB.track = PqNone /\ pqB.fell)
    /\ ~pqLost /\ pqAp.codec # PqNone =>
          pqAp.codec = IF pqAp.pending # PqNone THEN pqAp.pending ELSE pqAp.track
    /\ ~pqLost /\ PqCount > 0 => PqPlays(pqList) = pqAp.track

(* The decoder of the track the list stands at has come to its end and the *)
(* player has noted it.                                                    *)
PqEndNoted ==
    /\ pqAp.eof
    /\ PqPlays(pqList) = IF pqB.track # PqNone THEN pqB.track ELSE pqAp.track
    /\ pqB.track # PqNone => pqB.eof

(* The list starts to move by itself only at the end of the track it       *)
(* stands at, and once for that end: player.c:802-805 keeps the end        *)
(* consumed so that the list does not move "a SECOND time".                *)
PqOncePerEnd ==
    [][pqList'.pos # pqList.pos /\ pqWalk.on /\ pqWalk.left = PqSkips
          /\ ~(pqWalk.hard \/ pqMixed \/ pqLost)
         => PqEndNoted]_pqVars

(* player.c:800: "let the tail drain, then stop/start": while a restart is *)
(* deferred Core B is at the end of the track before.                      *)
PqRestartDrains ==
    PqPlaying /\ pqAp.restart => pqAp.eof /\ pqB.eof /\ pqB.track # pqAp.track

(* It is, unless stop, seek, open or a stream built again after a pause    *)
(* came in between.                                                        *)
PqRestartDrainsAtFirst == ~pqMixed => PqRestartDrains

(* ipc_b_target.c:567-573: "the player reports an error instead" of        *)
(* PLAYING with silence when Core B cannot open.  Not so inside an         *)
(* advance, where the next entry of the same format is PLAYING.            *)
PqPlaysOnCoreB == PqPlaying => pqB.track # PqNone
=============================================================================
