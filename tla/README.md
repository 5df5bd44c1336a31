# ReChord: a verification project

ReChord is firmware for a dual-core music player (Rockchip NANO-C).  The
*application processor* (AP, "core A") runs the user interface, owns the file
system and the DAC, and takes the I2S interrupt that plays audio.  *Core B*
runs a small firmware of its own that decodes.  The cores share some memory, a
block of control words and a few rings, and no lock: every protocol between
them is a matter of which core owns which word, in which order words are
stored, and when an index may be rewritten.  That is the program's own core
logic, it is the part the host tests cannot reach (they link a mock of the
other core), and it is what this directory models, model-checks and proves
about.

Paths below are relative to the repository's `firmware/` directory.

## 1. Inventory

### 1.1 The components, their state and operations

| Component | Source | State | Operations |
|---|---|---|---|
| Byte ring | `player/ringbuf.c` | free-running `wr`, `rd`, storage | `rb_write`, `rb_read`, `rb_skip`, `rb_reset` |
| File service, AP side | `player/bfs.c`, `services/fs_target.c` | `s_cur`, `s_pre` (handle, ring, position), `s_pre_path`; words OPEN, BASE, WR, EOF, SEEK_ACK of two rings | `bfs_open`, `bfs_preopen`, `bfs_promote`, `bfs_close`, `bfs_poll` |
| File rings, Core B side | `bb/bcio.c` | `s_w`; words RD, SEEK_TO, SEEK_SEQ | `cio_open`, `bcio_read`, `bcio_seek`, `bcio_tell`, `bcio_close` |
| Command channel and PCM stream, AP side | `player/ipc_b_target.c` | STATE, CMD, SEQ, argument and gapless words; `s_b_decodes`, `s_preload_valid` | `ipc_b_start`, `_preload`, `_seek`, `_pause`, `_stop`, `_next`, `_poll_state`, `_flush` |
| Core B firmware | `bb/bb_main.c` | `s_codec`, trim cursors; ACK, BSTATE, BEOF, BERR, WR of the PCM ring | `handle_command`, `decode_round`, main loop |
| PCM feeder | `drivers/rknano_i2s.c` | callback, hold flag, TX-empty enable; RD of the PCM ring | attach, detach, hold, kick, the TX interrupt |
| Player | `player/player.c` | state, `g.eof`, `restart_pending`, current track | play, pause, stop, seek, next, prev, preload, `player_process` |
| EQ hand-over | `player/eq_ipc.h`, `ipc_b_target.c` | generation word and the words of a curve | `eq_ipc_publish`, `eq_ipc_read`, `b_after_core_start` |
| Playlist | `player/playlist.c` | user's order, play order, position, shuffle, repeat | load, advance, peek, next, previous, shuffle, repeat |
| File system, writing | `services/fs_target.c` | two copies of the FAT, FSInfo, directory entries, data clusters | `fs_ensure_file`, `fs_append`, `fs_truncate`, `fs_patch`, rewrite |
| Record store | `services/store.c` | two slots of raw sectors with sequence numbers | save, load |
| Media index | `services/media_db.c`, `media_scan.c` | two slot files, the handle open for reading | begin, add, end, abort, open, close |
| Firmware update | `services/fw_update.c` | two firmware slots, the image on the user volume | find, install, retire |
| Log | `services/log.c`, the writer in `startup/ap_ui.c` | line ring, drop counter, the log file | put, flush, rotate |
| Bluetooth link | `services/bt_link.c`, `services/bt_proto.c` | link state, device table with indices into it, pending switch, timers | service, scan, connect, forget, disconnect, power |
| Idle power-down | `services/power_save.c`, `drivers/core_b.c` | idle timer, Core B on or off | poll, start and stop of Core B |

The remaining components (codecs and tag parsers, settings, input, drivers of
USB, eMMC and display, DSP arithmetic, user interface) are listed in
`PROJECT.json` with the reason they are left out: sequential code over data,
register-level I/O, or layout.

### 1.2 How they interact

```
 user --> player.c --> ipc_b_target.c ==CMD/SEQ/ACK==> bb_main.c --> codec
             |               |                            |            |
        player_process   bfs.c ====file rings 0, 1====> bcio.c <--- reads, seeks
             |                                            |
             +--- snapshot RD/WR/BEOF     PCM ring (WR) <-+
                                             |
                              rknano_i2s.c interrupt (RD) --> DAC
```

* *Commands.* The AP stores the argument, then the command word, then
  increments SEQ; B polls SEQ against ACK, reads the command word, executes and
  copies SEQ into ACK.  The AP waits for that in `b_wait_ack`, a bounded poll
  that goes on serving the file rings.
* *File rings.* The codec on B reads a byte stream the AP fills; a seek is a
  request of B that the AP serves while B stands still.
* *PCM ring.* B produces, the AP's interrupt consumes, and the AP's main loop
  rewrites both indices at a start, a seek and a stop.
* *Snapshot.* `player_process` looks at RD, WR and BEOF, one load after the
  other, and decides whether a track or the stream is over.
* *List and look-ahead.* Within three seconds of the end `player_process` peeks
  at the next track and opens it twice, for Core B's second file ring and for
  the AP's own codec; at the boundary both must still be what the list says.
* *Device table.* `bt_link.c` keeps a pending switch and `bt_proto.c` the
  connected and the chosen device as indices into a table that is shifted,
  cut and reordered by frames of the module and by the user.
* *Flash.* Settings, Bluetooth list, log and media index go through
  `fs_target.c`; the firmware update and the record store write raw sectors.
  Each has its own order of writes that a power cut or an error may end.
* *EQ curve.* A sequence lock; written by the AP at any time, read by B in a
  decode round.

### 1.3 What is hard, and what makes each component correct

| Component | Hard behaviour | Correct when |
|---|---|---|
| Byte ring | both counters wrap; copies overlap | a bounded FIFO of bytes, slots disjoint |
| File rings | no lock; rings re-based under B; two rings and a hand-over | the codec sees a plain file; every call returns |
| Command channel | bounded waits that run out; three stores against three loads | B executes what it acknowledges; operations end |
| PCM stream | three actors on two indices | what is heard is the stream, in order, at every boundary |
| Feeder | decide-and-mask against publish-and-arm | a stream ends, silence is never final |
| Gapless trim | delay, padding, batch size, seeks | exactly the audible frames are written |
| EQ hand-over | torn reads, restarts of B | only whole curves, never an older one, the last one in the end |
| Player and playlist | reorder between peek and boundary; a restart deferred at a format change; files that do not open | list, display, AP codec and Core B agree; the list moves once per end |
| File system | each call is several sector writes; a full volume | chains apart, nothing lost, an append whole or absent |
| Record store, media index | power loss at any write, damaged sectors | a register: the newest complete record or the one before |
| Firmware update | power loss, errors, retries | one slot always whole, a header never over half an image |
| Log | flushes that fail part way and are repeated | no line missing that is not counted |
| Bluetooth link | late frames, evictions, competing timers | indices stay with their device; commands in the module's order |

The hazards, each at its line, are listed in `PROJECT.json` ("hazards").

## 2. The modules

| Module | What it is |
|---|---|
| `ByteFifo` | abstract: a bounded queue, `Offer`, `Put`, `Get`, `Drop`, `Clear` (the contract of `ringbuf.h`) |
| `RingBuf` | `ringbuf.c`; `RingBufMC` its instance |
| `RingBufProofs` | its invariants, and that it implements `ByteFifo` |
| `FileReader` | abstract: a file read and repositioned (the contract of `codec_io.h`) |
| `FileRing` | composes `bfs.c` on the AP with `bcio.c` on B, both rings; `FileRingMC` its instances, `FileRingProofs` |
| `PcmStream` | composes `player_process` and the player operations, `ipc_b_target.c`, the interrupt and the loop of Core B; `PcmStreamMC` its instances, `PcmStreamProofs` |
| `GaplessTrim` | the trim arithmetic of `decode_round_inner`; `GaplessTrimMC`, `GaplessTrimProofs` |
| `EqSeqlock` | `eq_ipc_publish` against `eq_ipc_read`; `EqSeqlockMC`, `EqSeqlockProofs` |
| `PlayQueue` | `playlist.c` and every call of `player.c` over the list; `PlayQueueMC` its lists |
| `BtLink` | `bt_link.c` composed with `bt_proto.c` |
| `PlaybackProofs` | proofs about `PlayQueue`, `BtLink` and the composition `PlaybackMC` |
| `FwUpdate` | `fw_update.c`; `FwUpdateProofs` |
| `RecordRegister` | abstract: a record replaced at one instant or not at all (the contract of `store.h`) |
| `Store`, `MediaDb` | `store.c`; `media_db.c` under `scan_run` |
| `StorageProofs` | that each of the two implements `RecordRegister`; proofs about `LogFlush`, `FatFile` and the composition `StorageMC` |
| `FatFile` | the writing half of `fs_target.c`, sector write by sector write |
| `LogFlush` | `log.c` and `log_write_file` |
| `PlaybackMC`, `StorageMC` | several of these side by side for TLC |

`PlayQueue` and `PcmStream` overlap in `player.c`: `PcmStream` has two tracks in
order and every load and store of the hand-over, `PlayQueue` has the list, the
files that do not open and the look-ahead, with each call of the player as one
step and Core B as what the player knows of it.

`PlaybackMC` and `StorageMC` run components that share no state as one
specification: a behaviour picks a *focus* in its initial state, only that
component takes steps, and the others rest in one fixed state.  The reachable
states are the sum of those of the parts, not their product, and every property
says of its component exactly what a run of that component alone would.

`FileRing` and `PcmStream` are two views of the same two programs: `FileRing`
has everything below the codec and abstracts the commands to where the AP is
with the codec (`actl`); `PcmStream` has everything above it and abstracts the
codec to a source of `TrackFrames` frames that never waits.  The first shows
that a codec call returns, the second uses it.

In each module the definitions introduced by "Mutant:" are plausible defects of
the definition that follows.  They are in no specification; they are there to
show, one property at a time, that the property would notice.

### 2.1 RingBuf

`rb_write` and `rb_read` are split where the other side can run: the counters
are loaded once (`WriteBegin`, `ReadBegin`), the bytes are copied one at a time
(`WriteByte`, `ReadByte`), the own counter is published last (`WritePublish`,
`ReadPublish`).  `src`/`wdone` and `rlen`/`dst` are the calls' locals.
`rb_reset` is only legal with neither call in progress, as `ringbuf.h` says.
Counters wrap at `Modulus` (2^32 or 2^64 in the code).

### 2.2 FileRing

Each load or store of a word the other core also touches is an action.

| Variables | In the code |
|---|---|
| `open base rd wr eof seekTo seekSeq seekAck` | the IPC_F_* words of ring 0 and of ring 1 |
| `mem` | the ring bytes; a byte of a file is `<<file, offset>>` |
| `svc`, `preFile` | `s_cur`, `s_pre`, `s_pre_path` |
| `apc asvc afree an agot` | `poll_svc`: where it is, its locals |
| `actl`, `ring` | where the AP is with the codec on B; IPC_C_RING |
| `bpc bw bfile blen bbuf brd bwr bseek` | B's calls in progress and their locals |
| `at last outcome` | what `bcio_tell` and `bcio_read` last reported (history) |

| Actions | In the code |
|---|---|
| `Start Preopen PreopenFails Promote Stop Close` | `bfs_open`, `bfs_preopen`, `bfs_promote`, `ipc_b_stop`, `bfs_close` |
| `Poll`, `SeekFile` ... `SeekAck`, `NoSeek` | `poll_svc`, serving a seek: reposition, BASE, RD, WR, EOF, SEEK_ACK |
| `Refill FillDone FillRead FillError Publish FlagEof` | `poll_svc`, reading ahead |
| `OpenCodec Drain CloseCodec` | `cio_open`, the codec's end, CLOSE |
| `ReadBegin ReadLoad ReadCopy ReadConsume ReadFull ReadDry ReadStall` | `bcio_read` |
| `SeekBegin SeekRequest SeekReturn SeekTimeout` | `bcio_seek` |

`Faults` names what the environment may do: `read_error` (a read fails before
its first sector), `partial_error` (behind whole sectors), `seek_past_end`,
`stall` (the bounded wait in `bcio_read` runs out), `seek_timeout` (the one in
`bcio_seek` does).  When a ring is retired its bytes are forgotten (`Retired`),
so that a later use would show.

### 2.3 PcmStream

Every OPEN, NEXT and SEEK starts a new *stream* with a number of its own, and a
PCM frame is `<<stream, position>>`; `due` is the frame a listener is entitled
to hear next.  That is what makes "skipped, repeated or left over" visible.

| Variables | In the code |
|---|---|
| `state rd wr ring cmd arg seq ack gap bstate beof` | the shared words and the PCM ring |
| `player track geof pend snap` | `player.c`: state, list position, `g.eof`, `restart_pending`, the snapshot |
| `apc aop goal preload bdec` | the operation in progress and `ipc_b_target.c`'s statics |
| `attached hold armed isr` | the feeder, and where the interrupt is |
| `bpc bseq bcmd codec btrim bemit brd bwr bgot` | Core B |
| `heard due` | history: the frame played last and the one due |

| Actions | In the code |
|---|---|
| `Start Preload Seek Stop Skip Pause Resume` | what the user asks for: the part before the first wait |
| `PostArg PostCmd PostSeq` | `b_handoff`, `cmd_start`: three stores |
| `WaitOpen WaitSeek WaitClose` | `b_wait_ack`, `b_cmd_wait` and what each caller does with the outcome |
| `ZeroRd ZeroWr RunB Finish...` | the index rewrites, STATE = RUN, attaching and releasing the feeder |
| `SnapRd SnapWr SnapEof`, `Decide...` | `ipc_b_poll_state`, `player_process` |
| `IsrFire IsrCopy IsrMask` | `rknano_i2s_tx_isr`, `shared_pull` |
| `BSeq BCmd BOpen BSeek BClose BAck` | `handle_command` |
| `BState BLoadRd BLoadWr BDecode BDecodeError BWrite BPublish BArm` | the main loop's test of STATE, `decode_round_inner` |

The AP's main loop never runs inside the interrupt (`isr = "off"` guards it); B
interleaves with both at every step.  `Faults` names a codec that refuses a file
or fails in the middle of one, and for each kind of command the bounded wait
running out (`open_timeout`, `seek_timeout`, `close_timeout`).

A skip or a hand-off stands for one in a list in order, `1 .. LastTrack`; a
track in `Reformat` differs in format from the one before and takes the deferred
restart.  Gapless hand-off or hard restart at a boundary of equal formats
depends on whether the next file was pre-opened in time: both are possible.

### 2.4 GaplessTrim and EqSeqlock

`GaplessTrim` takes the decoder's output to be the frame numbers `0 .. Total-1`
and has one action per outcome of a decode round: `Drained`, `Dropped` (the
whole batch is encoder delay), `Written`; `Seek` is the SEEK command with
`trim_reset`.  `out` is what reached the PCM ring since the last seek.

`EqSeqlock` stores and loads one word per action.  `Mark` makes the generation
odd, `Settle` even; the reader checks it before (`Look`) and after
(`Install`, `Torn`).  `CoreStart` is Core B coming back with a zeroed block, and
the cached curve published again (`Republish`).

### 2.5 PlayQueue

The calls of `player.c` and `playlist.c` are made by one thread of the AP, so
each is one step here, but for the loop of `advance_playlist`, in which each
entry it tries is a step (`PqTry`) and no other call comes in between.  All the
while Core B reaches the end of what it decodes (`PqBEnds`) and the ring fills
and empties.

| Variables | In the code |
|---|---|
| `pqList` | `playlist_t`: `orig`, `order`, `pos`, `repeat`, `shuffle` |
| `pqState`, `pqAp` | `g.state`; the open codec, `pending_*`, `g.eof`, `restart_pending`, `preload_done` |
| `pqB` | what Core B has: open track, end reached, ring empty, the pre-opened file; history: whether its last start failed (`fell`) |
| `pqWalk` | `advance_playlist`: under way, tries left, `hard` |
| `pqLost pqMixed` | history: the list stands at an entry that did not open; stop, seek, open or a rebuilt stream met a deferred restart |

| Actions | In the code |
|---|---|
| `PqPlayList PqPlayAt PqPlayFile PqOpenFails` | `player_play_list`, `player_play_at`, `open_and_play` |
| `PqPlay PqPause PqUserStop PqSeek PqNext1 PqPrev` | the user's calls |
| `PqRebuild` | `player_play` when `ipc_b_pause(0)` fails: the stream is built again |
| `PqTry PqGiveUp` | `advance_playlist`: the next entry; the list or the tries are at their end |
| `PqSetShuffle PqSetRepeat` | `playlist_set_shuffle` (any permutation), `playlist_set_repeat` |
| `PqBoundary PqPreopen PqLastEnds PqDrained PqFails` | the parts of `player_process` |

`PqAdvance` begins the walk of `advance_playlist`.  Each of at most `PqSkips`
tries moves the list on and calls `advance_to` (`PqAdvanceTo`): an entry that the
resolver does not find, a file that does not open and a stream that does not
start all lead to the next try.  `advance_to` takes the pending codec or opens
one, and then (`PqTurn`) hands over to Core B (`PqHandOver`: `ipc_b_next`, and a
restart when it refuses), defers a restart at a change of format, restarts, or,
when a start has failed before and Core B is closed, goes on without it
(`PqJoin`, `player.c:827-832`).  In that case the stream is PLAYING on the AP's
own decoder; the model takes its end or its error in `PqEnds` and `PqFails`.

The faults are a start that fails (the DAC, Core B or the file: the ring may or
may not have been filled), a file that does not open although it could, for the
track itself, for the pre-opened one and for the playing one that is brought
back, a codec that does not seek, a DAC that is down when a pause ends, a
pre-open or a hand-over that Core B does not take, and a decode error.

### 2.6 BtLink

`bt_link_service` runs as its parts, in order (`BtService`, `BtReceived`,
`BtPolled`, `BtFollow`, `BtStream`, `BtSwitch`, `BtIdle`), one variable `btPc`
for where it is.  The module's frames (`BtFrame`) arrive in the first part, any
number of them and any of them: the module is external and may be late,
repeat itself or contradict itself.  `btTab` is the device table with the saved
bits and the two indices `bt_proto.c` keeps, `btPend` the one `bt_link.c` keeps;
`BtEvict`, `BtRemove` and `BtPromote` are the three ways entries move.  Delays
are nondeterministic: each comparison of times may come out either way.

### 2.7 FwUpdate

One action per block that is written and read back.  Slot 2 is written from the
image, slot 1 from slot 2 (`FwSource`), each header block blanked first and
written last (`FwBlock`).  `FwPutFails` is a write or verification that fails and
leaves the old block, the new one or neither; `FwPowerCut` may come between any
two steps and damage the block being written.  `FwFind` offers an image again
after every USB session, so an install is repeated as often as `FwInstalls`
says.  `FwRetire` deletes the image, its FAT sectors before its entry.

### 2.8 Store, MediaDb and RecordRegister

`RecordRegister` is the promise: a load returns one record, a save replaces it at
one instant or not at all, and reports OK only when it has.  `Store` gets there
with two slots, a header written last, a serial number that wraps, and a
read-back; `MediaDb` with two files, a truncation, appended chunks and a header.
Both are proved to implement it (`StRegister`, `MdIndex`; section 5).

The promise ends where the medium lets the component down, and `weak` says
when: the newest header stands for damaged records, or a header could not be
read.  The two properties also say what may lead there: for `Store` only a sector
the medium damaged unnoticed or could not read, never a failed write or a power
cut; for `MediaDb` a commit that was torn, or a header that is there and was not
read.

`read_hdr` returns 0 for a header it could not read, just as for none: all four
handles of `fs_open_read` may be taken, or the sector unreadable.  `MdBegin`,
`MdNumber` and the two opens therefore take a set `seen` of the headers that were
read, or their outcome from `MdOpenings`: with the fault `"read"` any of the
headers that are there may be missing from it, and each time anew.  A build may
then choose the slot in use, a new header may get a number below the old one, and
an open may fall back to the older slot.  `MdWeak` covers the first two, and is
over when that build is: the register holds again for the next one.  `mdHurt` is
the history of both causes.

### 2.9 FatFile

A call on a file is the sequence of sector writes it makes, performed one at a
time (`FfWrite`), each of which may fail or be the last (`FfStops`).

| Actions | In the code |
|---|---|
| `FfAppend FfCreate` | `fs_append`, `fs_ensure_file` up to the growth loop (`FfBegins`; the clusters an append sees are `FfSeen`) |
| `FfGrow` | one round of the loop: `alloc_clus` chooses a cluster (`FfAlloc`), which is marked in both copies of the FAT, linked to the last one and zeroed (`FfGrowth`); or the volume is full |
| `FfFill` | the rest of the call (`FfRest`): the hint of FSInfo, the data (`FfRange`), and the directory entry with the new size, which is the commit |
| `FfRewrite FfPatch` | `fs_target_file_rewrite` and `fs_truncate`, `fs_patch`: data in place, and for a rewrite the entry |
| `FfReturn` | the call ends |

`FfRead` is what a reader sees: the units of the chain up to the size.

### 2.10 LogFlush

`LgPrint` appends a line or counts it as dropped; `LgFlush` builds the text and
decides about the rotation, `LgRotate` and `LgWrite` are the two steps the writer
makes, each of which may fail before or after its effect.  Without a writer, as
in the host tools, the lines are written one at a time.  `LgReads` is the
number of the line that a reader of the file is at after each entry, a note of
lost lines counting for as many as it names; `LgTold` is the last it comes to.

## 3. The runs

| Run | Instance | Question |
|---|---|---|
| `Playback` | ring of 4 bytes, counters wrap at 8, requests to 2; 24 frames, delay 3, padding 2, batches of 4, seeks anywhere; three lists of two or three records, among them one of another format, one without a codec and one missing, every fault; three addresses in a table of two | the byte ring, the trim, the list and the player, the Bluetooth link |
| `Storage` | slots of 3 blocks, three installs of two images; two records of 2 sectors from sequence number 6 of 8, three saves; four builds of 2 chunks; two files on 4 clusters of 2 units, four calls; 7 lines through a ring of 2 and a file of 4 | what an error or a power cut at any write leaves |
| `FileRing` | a file of 9 bytes and one of 1, rings of 8 and 4, chunk of 4, sectors of 2; reads of 3, seeks to 3 and 7; read errors and stalls | data, seeks, pre-open and promotion |
| `FileRingFaults` | a file of 2, rings of 1 byte, counters wrap at 3, every fault | every call returns |
| `PcmStream` | two tracks of 6 frames, batches of 2, ring of 4, counters wrap at 8; a seek target, two streams | indices, commands, trim and order of what is heard |
| `PcmFaults` | three tracks of one frame, the second of another format than the first, batches of 1, ring of 2, seeks to the start, preload, unknown length, codec faults | order of what is heard along the error paths; operations end |
| `EqSeqlock` | three bands, three curves, three publications | whole, in order, installed in the end |
| `PcmDrain` | one track, one stream | *violated*: the end of a stream can be missed |
| `QueueRestart` | the lists of `Playback` | *violated*: a deferred restart outlives its reason |
| `GaplessTrimLong` | delay of a whole batch | *violated*: the track is dropped |
| `FwRetry` | the update of `Storage` | *violated*: a retry gives up the only whole slot |
| `FatCut` | one file, a FAT sector that cannot be read once | *violated*: an append cuts the file |

What each property says is in the comment above it.  The ones to start with:

* `RingHoldsFile` (FileRing): a ring in service holds no more than its size, every
  unread byte of it is the byte of its file at BASE plus ring position, and the
  file handle stands where WR says.
* `ReaderSpec` (FileRing): the two cores together implement `FileReader`.
  `SeekLands` and `SeekQuiesced` are what a seek needs for that.
* `HeardInOrder` (PcmStream): each frame the interrupt plays is `due`.  It
  needs the feeder held during a seek and detached before a stop rewrites the
  indices, B parked, and the acknowledgement waited for.
* `PcmBounded`: the indices never claim more than the ring holds while the
  feeder may run.  `FetchedRight`: B executes the command whose number it
  acknowledges.
* `PqAgree` (PlayQueue): list position, display, the AP's codec and Core B's track
  are one track, whatever was reordered after the look-ahead and whichever open,
  start or seek failed; the exceptions it names are the pending codec, the deferred
  restart, an entry that did not open, and Core B closed by a start that failed in
  the middle of an advance (`pqB.fell`).
* `PqOncePerEnd`: the list starts to move by itself only at the end of the track
  it stands at, Core B's or, without Core B, the AP's, and once for that end; the
  further steps of the same advance are entries that failed.
* `PqRestartDrainsAtFirst`: a deferred restart waits for the end of the track
  before, until a stop, a seek, an open or a rebuilt stream mixes with it.
* `BtIndicesRight` (BtLink): the connected, the chosen and the pending index stay
  with their device.  `BtOffFirst`, `BtToldRight`: the module is told off before
  on at every new link, and what it was told is what the player thinks.
* `FwOneSlotWholeAtFirst`, `FwHeaderLast` (FwUpdate): what a power cut may find.
* `StRegister`, `MdIndex`: the refinements of 2.8.  `MdHandleWhole`: a reader's
  open slot is not rebuilt under it.
* `FfChainsApart`, `FfNothingLost`, `FfAppendAtomic` (FatFile): no cluster in two
  chains, none lost but by a call that failed, an append whole or absent.
* `LgNoneMissing` (LogFlush): a line is in the file or the ring, or counted, or
  went with a truncation or the power.

**Focus and symmetry.**  `Playback` and `Storage` follow one component per
behaviour (section 2).  `Playback` takes the Bluetooth addresses as symmetric: no
definition orders them, and no liveness is checked there.

**Bounds, and why they are enough.**  Rings are at least two batches or chunks
and files and tracks longer than a ring, so that both sides wrap, wait and run
dry; the counters of `RingBuf` and `PcmStream` wrap at twice the ring.  Those of
`FileRing` never wrap, as no file reaches their width, but a difference of two
of them loaded apart may, and does in `FileRingFaults`.  In `FileRing` the first
file ends inside a sector and so does a seek target, the second file is shorter
than a chunk, and BASE differs between them after a seek, so every arm of the
size computation and of the hand-over is taken.  `MaxStreams` bounds the streams
of one behaviour: two give every ordered pair of operations (start then seek,
seek then boundary, stop then start) each of which can find the other's
leftovers.  In `PcmFaults` the
question is the boundary and what one operation leaves to the next, so a track
is one frame: two of them fill the ring, and the frame heard tells the stream.
`MaxPublish` of three lets a reader be overtaken by a whole
publication and by part of the next.

A list of three with a record that cannot be played has every position of it
before, at and after the bad one under shuffling.  A table of two addresses with
three devices has an eviction with an index on either side.  Three installs
are one that fails, the retry, and one that finds what the retry left; three
saves wrap the sequence number, four builds use each slot file twice.  Four
clusters hold two files that compete for the last one, and appends of 0, 1 and 3
units start and end inside and on the edge of a cluster.  `LgFileBound` only stops
a log whose size probe fails for ever.

`CHECK_DEADLOCK FALSE` stands in `Playback` and `QueueRestart` and in `Storage`,
`FwRetry` and `FatCut`.  The latter three stop when their bound on calls is
reached; in the former the trim model stops when a track has been decoded to its
end and the player owes nothing.  None of these components waits for another
actor.  It is checked in `FileRing`, `PcmStream` and `EqSeqlock`, where they do.

**Fairness.**  `FileRing!FairSpec`: the AP's main loop polls both services again
and again, and goes on doing so inside `b_wait_ack` and the DAC's delays
(`dac_delay_set_pump(bfs_poll)`); B finishes the call it is in.
`PcmStream!FairSpec`: the interrupt is taken when its source is armed, B's loop
never stops, an operation of the AP runs to its end, and the application calls
`player_process` again and again.  `EqSeqlock!FairSpec`: a publication is
finished, and B goes through its decode rounds.  The user and the codec owe
nothing in any of them.

## 4. Known deviations

What a comment in the source says, and the models show the code not to keep.
Five have a standing run:

* **A stream may never end** (`PcmDrain`, `PlaybackEnds`;
  `drivers/rknano_i2s.c:416`).  The interrupt finds the ring dry; B publishes its
  last batch and arms the source; the interrupt then masks it.  Nobody arms it
  again, the ring never empties, the player stays PLAYING in silence.
* **A deferred restart outlives its reason** (`QueueRestart`, `PqRestartDrains`;
  `player/player.c:1062`).  At a format change the player waits for the tail to
  drain; a seek, a stop, the opening of another file or a stream built again after
  a pause empties the ring without cancelling the wait, and the restart is made in
  the middle of a track.
* **A long encoder delay silences a track** (`GaplessTrimLong`, `TrimExact`;
  `bb/bb_main.c:262`).  With a delay of a whole batch (1024 frames) or more every
  batch is taken for delay, because the count is never reduced.  LAME's usual
  1105 is such a delay.
* **A second attempt may leave no firmware** (`FwRetry`, `FwOneSlotWhole`;
  `services/fw_update.c:305`).  After a failure in slot 1 the new firmware is whole
  in slot 2 only; the retry the screen asks for begins by blanking its header.
* **A read error cuts a file** (`FatCut`, `FfAppendAtomic`;
  `services/fs_target.c:1357`).  `fat_next` answers 0 for the end of a chain and for
  a sector it could not read; an append then takes part of the chain for all of
  it and commits a chain in which the rest is replaced by zeros.

The others are reproduced by changing a standing configuration as shown, and
leaving only the named property in it:

| Change | Violated | What happens |
|---|---|---|
| `FileRing.cfg`: `INVARIANT EndIsEnd` | `EndIsEnd` | `bcio_read` loads WR, finds the ring dry and then tests EOF (`bcio.c:79`, `:94`); bytes and EOF stored in between make it report the end with bytes unread |
| `FileRing.cfg`: `Faults = {"partial_error"}` | `RingHoldsFile` | after a failed read behind whole sectors the file position is ahead of WR, and the next poll goes on from there (`fs_target.c:587`, `bfs.c:188`) |
| `FileRing.cfg`: `SeekTargets = {12}`, `Faults = {"seek_past_end"}` | `RingHoldsFile` | a seek past the end moves the file position and leaves the ring (`bfs.c:143`) |
| `FileRing.cfg`: `Faults = {"seek_timeout"}` | `SeekQuiesced` | B reads on while the AP re-bases the ring for a seek B gave up on (`bcio.c:159`) |
| the same, with `SeqModulus = 4` | `SeekLands` | the acknowledgement re-reads SEEK_SEQ (`bfs.c:152`) and covers a request that was not served |
| `PcmStream.cfg`: `Faults <- SlowSeek` | `PcmBounded` | `ipc_b_seek` rewrites the indices although B did not answer (`ipc_b_target.c:1005`) |
| `PcmStream.cfg`: `Faults <- SlowClose`, `SeekTargets <- NoSeek`, `TrackFrames = 3` | `HeardInOrder` | a stop that was not acknowledged leaves B in a round, and the next stream plays its frames (`ipc_b_target.c:646`) |
| `PcmStream.cfg`: `Faults <- SlowOpen`, `SeekTargets <- NoSeek`, `TrackFrames = 3` | `FetchedRight` | B reads SEQ before CMD (`bb_main.c:151`, `:159`), so a new command can run under the old number |
| `PcmDrain.cfg`: `Preloads = TRUE`, `LastTrack = 2`, `MaxStreams = 2`, `INVARIANT TrimOfTrack` | `TrimOfTrack` | a preloaded track plays with the gapless words of the track before (`ipc_b_target.c:491`) |
| `PcmDrain.cfg`: `MaxStreams = 2`, `PROPERTY EndComplete` | `EndComplete` | BEOF is raised before the last batch is published (`bb_main.c:284`, `:328`) |
| `PcmDrain.cfg`: `LastTrack = 2`, `MaxStreams = 2`, `PROPERTY HandoffStands` | `HandoffStands` | a short track is decoded to its end before the AP looks at BSTATE, and is taken for one B refused (`ipc_b_target.c:339`) |
| `Storage.cfg`: `PROPERTY MdPreviousKept` | `MdPreviousKept` | after a torn or failed commit the newest header has the shape of one but not its records; the next build truncates the only good slot (`media_db.c:113`, against "a failure at any point leaves the previous index untouched" in `media_db.h:82-83`) |
| the same, with `MdFaults = {"read"}` | `MdPreviousKept` | a header that could not be opened or read counts as none (`media_db.c:46-63`; four handles, `fs_target.c:49`): the build truncates the slot in use |
| `Playback.cfg`: `INVARIANT PqPlaysOnCoreB` | `PqPlaysOnCoreB` | at a boundary a start fails, and the next entry of the same format is PLAYING with Core B closed (`player.c:827-832`, against "so the player reports an error instead" in `ipc_b_target.c:572`, where PLAYING with silence is what the failure is surfaced for) |
| `Playback.cfg`: `INVARIANT BtStreamFollows` | `BtStreamFollows` | the link drops and comes back within one pass: `want` has not changed, and the stream is not asked for again (`bt_link.c:240`) |

The standing runs of `FileRing` and `PcmStream` leave those faults out of their
safety questions and so answer "does the protocol work when waits are long
enough and reads fail whole"; the table is the other half of the answer.

Seen while reading and stated here without a run, because the models exclude
them by an exception of a property or do not reach them:

* `player_prev` moves the list before it knows that the track opens
  (`player.c:1087`); `PqAgree` excepts the position then.  If it happens while the
  AP decodes, `player_process` calls the decoder of a codec that is closed
  (`player.c:1443`); the model ends such a track or reports an error.
* Turning shuffle off finds the current track by value (`playlist.c:234`): a list
  with the same record twice goes on at its first occurrence.
* The pending Bluetooth switch is an index that an eviction or a promotion does
  not move (`bt_link.c:254`), nor is `found_mask`; a full table evicts its first
  entry for a scan result, and that is the device connected last
  (`bt_proto.c:110`).
* `store_capacity` counts 32 bytes for a header that takes a sector
  (`store.c:142`), so the largest payload reaches into the next slot.  A save whose
  verification fails may be live already, and the next one may go over the only
  good slot (`StRegister` excepts it: the medium was at fault).
* A read of FSInfo that fails leaves the sector cache under the name of the
  sector it held before (`fs_target.c:752`); a rewrite in place is not atomic.
* The log's retry writes lines twice, a size probe that fails lets the file grow,
  and a truncation followed by a failed append loses the history.
* When the AP decodes (not in the build with `RECHORD_AP_METADATA_ONLY`), free
  space is counted in frames of the track against stereo frames
  (`player.c:1433`), and `ipc_b_flush` zeroes indices under the interrupt
  (`ipc_b_target.c:882`).

One more is documented in the code itself, and so no deviation: after a seek the
trim counts from zero (`player.c:1064`), which plays the padding at the end of
the track.

## 5. What is proved

All proofs are for every value of the constants that meets the module's named
assumption, and are checked by TLAPS.

* **RingBuf** (`RingAssumption`: the capacity divides the width of the counters
  at least twice, as powers of two do).  `IInv == TypeOK /\ Occupancy`.  Type
  correctness alone is not inductive: that a copy in progress fits
  needs the fill level, and the fill level after a publication needs that the
  copy fitted when it began and that the other side can only have made room.
  From it `TypeCorrect`, `OccupancyHolds` and, with the arithmetic of slots
  modulo the capacity, `SlotsDisjoint`.
* **RingBuf implements ByteFifo** (`RefinesFifo`).  The abstract queue is the
  window of the storage between the counters, the chunk offered is the caller's
  buffer.  `CInv` adds `Copied`: the bytes a
  call has copied so far are in their slots, or are those of the window.
  `InitMaps` and `StepMaps`: the start of a write is `Offer`, a publication is one
  `Put`, `Get` or `Drop`, a reset is `Clear`, every other step a stutter.  So the
  bytes appended are the caller's own, not merely as many.
* **EqSeqlock** (`CurveAssumption`).  `IInv` is `TypeOK` with seven named parts:
  `Counting` (the generation counts the publications, odd while one is in
  progress), `Stored` (the words stored so far are those of the curve), `Stable`
  (the block at rest is the curve published last), `Taken`, `Copying` (while the
  generation has not moved, the words loaded so far are those of the curve of
  that generation), `Cleared`, and `InstalledWhole` itself.  From it
  `CurveTypes` and `NeverHalfWritten`.  `Newer` (a reader inside a block holds a
  generation above the one installed last) gives the action property
  `NeverGoesBack`.
* **GaplessTrim** (`TrimAssumption` and, where it matters, `Delay < Chunk`, an
  assumption of the theorems and not of the module, since the code does not
  ensure it: see `GaplessTrimLong`).  `TrimInv == TrimTypeOK /\ Cursor /\ TrimExact`;
  `Cursor` ties the decoder's position to the batches emitted.  From it
  `TrimTypes` and `TrimIsExact`.
* **FwUpdate** (`FwAssumption`).  `FwIInv` is `FwTypeOK`, `FwHeaderLast`,
  `FwOneSlotWholeAtFirst` and `FwPhase`, which says what the slots hold at each
  point of an install: while slot 2 is written, slot 1 is as the install found
  it and the blocks of slot 2 behind the cursor are the image's; while slot 1 is
  written, slot 2 is the image, whole.  `FwHeaderKept` and `FwOtherKept` carry
  the two properties through a block that is written well, badly or not at
  all.  From it `FwTypeCorrect`, `FwHeaderGoesLast`, `FwNeverBricks` (as long as
  every install begins with slot 1 whole: `FwRetry` is why it is not
  unconditional) and `FwRetiresLast`.

* **FileRing** (`FileRingAssumption`).  The types hold whatever faults happen
  (`FileTypes`).  The rest is proved of every set of faults without a partial
  read error, a seek past the end and a seek timeout (`Mild`); the table of section
  4 has a counterexample for each of the three, so the hypothesis is the
  protocol's own limit.  `IInv` is the types with `Kept`: `Roles` (which ring and
  which file is whose through a hand-over), `Seeks` (a request is pending only while
  B waits for it), `Rebase` (how far the AP has got in repositioning), `Contents`
  (the ring holds its file's bytes, those read ahead and not yet published
  included), `Room` (the free space the AP computed is still there: B only
  consumes) and `Reading` (what B copied so far are the file's next bytes).
  `RingHoldsFile` alone is not inductive because a seek rewrites BASE, RD and WR
  one store at a time.  From `IInv`: `RingsHoldFiles`, `SeeksQuiesced`,
  `SeeksLand`, and that **the two cores together implement FileReader**
  (`RingsImplementReader`): the return of `bcio_read` is a `Read` of the bytes the
  file has there, the return of `bcio_seek` a `Seek`, every other step a stutter.
* **Store implements RecordRegister** (`StAssumption`).  `StInv` is `StTypeOK`,
  `StPlaced` (a save goes to the slot not in use, under a number that makes it
  the newest, wrap-around included), `StPayloadFirst` (the header goes last) and
  that a weak store needs a medium at fault.  Every action has one lemma: it keeps
  `StInv` and is a save, a load or a stutter of the register.  From it `StTypes`
  and `StKeepsRegister`, for any payload length, any width of the serial number
  above 2, any number of saves and any faults.
* **MediaDb implements RecordRegister** (`MdAssumption`).  `MdInv` is `MdTypeOK`,
  `MdNumbered` (no header is numbered past the builds begun), `MdBuilding` (once its
  slot is emptied a build is in the one that does not count as the newest, whatever
  was read when it was chosen; its header comes after its records), `MdReading`
  (unless a commit was torn or a header went unread, the open handle reads the
  newest slot, with the records it had when it was opened) and that a weak index
  needs one of the two.
  From it `MdTypes`, `MdHandlesWhole` and `MdKeepsIndex`.
* **PcmStream** (`PcmAssumption`).  `PcmTypes` holds whatever faults happen.  The
  rest is proved while no wait for Core B runs out (`Patient`: OPEN may be refused
  and the decoder may fail, but B's answer is waited for); the rows `SlowOpen`,
  `SlowSeek` and `SlowClose` of the table show what happens otherwise.  `IInv` is
  the types with nine parts, one lemma each and in it one case per action:
  `Steps`, `Outstanding` (one command in flight, read as it was posted), `Feeding`
  (when the feeder is attached and B told to run), `Parked` (B is in no round
  while the AP rewrites indices), `Opening` and `Going` (which stream B has open at
  each point of an operation), `Indices` (what the AP's stores and B's copies of RD
  and WR imply of the fill level), `Contents` and `Trimmed`.  `Contents` is the
  core: frames are numbered through all streams (`Lin`), the ring holds
  consecutive numbers from the one expected next (`Queue`), and B goes on where
  they end (`Continued`), with the batch it has decoded and not published counted
  in (`Written`).  From it `PcmFetchedRight`, `PcmStaysBounded`, `PcmHeardInOrder`,
  and `PcmTrimOfTrack` where nothing is preloaded (the row with `Preloads` shows
  that one needed too).
* **BtLink** (`BtAssumption`: a stored list holds no device twice and fits the
  table).  `BtInv` is the types (`BtTyped`: the table is injective, and every index
  and saved bit inside it), `BtIndicesRight`, `BtAnswered` and `BtTelling`.
  `BtAnswered` is why `BtOffFirst` and `BtToldRight` are kept: a link that is not up
  carries no stream and owes no answer, one that has just come up has been told
  nothing, and it is answered before the pass goes on.  Each operation on the table
  (evict, remember, mark, remove, promote) has a lemma of which entry it carries
  where (`BtMarkKeeps` and its kin); then there is one lemma per action for the
  table and one for the link.  The first entry with an address exists by
  `LeastOf`, the library's well-founded minimum.  From it `BtTypes`,
  `BtIndicesStay`, `BtSavedStays`, `BtAnsweredFirst` and `BtToldWhatIs`, for any
  devices, any size of the table and any frames.
* **PlayQueue** (`PqAssumption`).  `PqInv` is `PqWhole` (the types of the list; the
  play order is the user's order under a bijection of the positions; the list
  stands on an entry unless it is empty), `PqStream` and `PqDisplay` (the second and
  third part of `PqAgree`), the type of the walk, and `PqOnward`.  `PqStream` has
  `PqFollows` (the first part of `PqAgree`, and that a stream without Core B has no
  restart deferred), `PqDeferral` (what `PqRestartDrainsAtFirst` says, also while
  paused, and that nothing is deferred when stopped) and `PqNoted` (an end is kept
  as consumed only while Core B stands at it): without the last, the list could
  move twice for one end.  `PqOnward` is about an advance under way at a boundary:
  it has noted the end as long as Core B is open or nothing was tried, and without
  Core B its start has failed.  That is what lets each try begin from the state
  the last one left, a start that failed included.
  `PqShuffledIs` and `PqToFrontIs` give the bijections, `PqTimesSame` turns one into
  equal counts.  Then one lemma per step, and one per try.
  From it `PqTypes`, `PqStaysWhole`, `PqAgrees`, `PqDrainsAtFirst` and
  `PqMovesOncePerEnd`, for any lists, formats and faults.
* **LogFlush** (`LgAssumption`).  `LgInv` is the types with what makes
  `LgNoneMissing` inductive: the ring holds consecutive lines from the one after
  `LgLow` on and lines are dropped only behind a full ring; a line of the file
  follows one that a reader has come to (`LgOrdered`); and a reader comes as far as
  `LgLow` but not past the lines printed (`LgReaches`, `LgUpTo`).  So a flush that
  failed part way may be repeated, whatever of it is in the file already.  Where a
  reader of a longer file is (`LgReadsIs`, `LgGrown`) needs induction over the file;
  the least entry where the claim would fail takes its place (`LeastNumber`, the
  library's well-founded minimum), and `GreatestOf` gives the maximum in `LgTold`.
  From it `LgTypes` and `LgNeverMissing`, with every fault, with a writer and without.
* **FatFile** (`FfAssumption`), as long as a sector of the FAT can be read
  (`"walk" \notin FfFaults`; `FatCut` is what happens otherwise).  `FfInv` has six
  parts: `FfTypeOK`; `FfFilesOk` (the files' chains end, cover their sizes and are
  apart); `FfHeld` (the clusters a call has linked are a chain, the file's own or one
  that no entry leads to yet, and no other file's); `FfLoose` (the cluster in hand
  is on no chain until it is linked); `FfShape` (what is left of a round of the
  growth loop, and which writes may follow it); `FfAllKept` (while nothing was hurt,
  the copies of the FAT differ in the one entry the second is to get next, and each
  used cluster is on a chain).  The chains alone are not inductive: a link keeps
  them apart because of where the cluster in hand came from, and a call that is cut
  short leaves a chain whose end has been marked before it was linked.  `FfChainIs`
  shows that the recursive function which follows a chain finds the one there is.
  From it `FfTypes`, `FfNeverCross` and `FfNeverLeaks`.  `FfContent` adds the data:
  before the entry is written the file is as the call found it (`FfBefore`), and
  every unit of the call that is not there yet has a write to come (`FfPending`) or,
  in a new file, is blank (`FfBlanked`); afterwards the call is seen whole
  (`FfAfter`).  From both `FfWholeOrNot`, for any files, size of volume and cluster,
  number of calls, and a power cut or failed write at any point.
* **The compositions.**  `PlaybackIsEach` and `StorageIsEach`: a step of several
  components side by side is a step or a stutter of each, so each behaves as it does
  alone.  `PlaybackTypes`, `PlaybackSafe`, `StorageTypes` and `StorageSafe` carry the
  theorems above over to them, and so state every safety property that the runs
  `Playback` and `Storage` check.

Only model-checked: the liveness properties (`CallsReturn` of `FileRing`,
`OperationsEnd` of `PcmStream`, `Installs` of `EqSeqlock`), as fairness and
`ENABLED` are out of the prover's reach, and the five violations, which are
counterexamples.

## 6. What is not modelled, and why

* **Most of the tree.**  The repository holds over 1200 source files; most are a
  vendored SDK (`rockchip/`), codec libraries (`player/codecs/`), the decompiled
  original firmware kept as reading material (`docs/re/decomp/`), fonts and
  tables.  They are not the program: the firmware is `startup`, `player`, `bb`,
  `services`, `drivers`, `dsp` and `app`, and the models cover the parts of it in
  which a step can come at the wrong time.
* The rounds of the AP's own decode loop and `ipc_b_ring_fill`.  In the build with
  `RECHORD_AP_METADATA_ONLY` the loop is reached only by an advance whose start
  failed; `PlayQueue` models that it is entered and how it ends, not what it puts
  into a ring that no feeder drains.
* The answer of the resolver that the player keeps between peek and boundary
  (`peek_path`): the resolver is taken to answer the same each time, so keeping
  it changes nothing.
* The host mock, the legacy queue (`player_enqueue` has no caller in the
  firmware), ReplayGain, volume, event callbacks and telemetry words.
* In `PcmStream`, a DAC that cannot be configured after Core B has acknowledged
  (`ipc_b_target.c:603`): the player closes Core B as after any failed start, and
  the feeder was not attached, so nothing is heard and no index moves.  Likewise a
  resume with the DAC down (`ipc_b_target.c:672`), which is a start at the paused
  position (`player.c:953-966`).  Both are in `PlayQueue` (`PqStart`, `PqRebuild`).
* A second preload over a standing one (`ipc_b_target.c:483`): `player_preload` has
  one caller, once at boot (`startup/ap_ui.c:1667`).
* A status frame of the Bluetooth module too short to hold a device's name: it
  sets CONNECTED with no device (`bt_proto.c:103`, `:246`).  No property depends on
  it: `BtIndicesRight` speaks of a connected device where there is one, and the
  stream and its notices go by the state of the link.
* Memory ordering below the interleaving of loads and stores: the code has a
  `dmb()` wherever two stores are ordered, and the models take it at its word.
* Mounting, directories, long names and the exFAT reader; the queries over the
  media index; tag parsers and bit streams: parsing of data by one actor.
* The buttons of a Bluetooth headphone, the UART framing and the stored device
  list; the stop of Core B by the idle timer.
* Sample arithmetic (gain, EQ filter, upmix), registers, clocks, displays, menus.
* In `PcmStream`, the file rings under the codec (they are `FileRing`), and all
  lists but the one in order (they are `PlayQueue`).

## 7. Plan

Done, in this order: byte ring and its proofs; file rings; PCM stream and player;
EQ hand-over and trim with their proofs; track list and player; firmware update
with its proofs; record store and media index; the writing of files; log;
Bluetooth link; the proofs of the file rings, of the record store and the media
index, of the PCM stream, of the Bluetooth link and of the track list; the proofs
of the log, of the writing of files, of the order of EQ curves and of the
compositions.  Next, most important first:

1. The idle timer that stops Core B under a standing preload (`power_save.c:32`),
   composed with `PcmStream`.
2. `FileRing` with `PcmStream` at the command level, and `PlayQueue` over it.
3. The headphone's buttons and the stored device list in `BtLink`.
