# TLA+ models of pyidotmatrix

`pyidotmatrix` drives iDotMatrix LED panels over Bluetooth LE from one asyncio
event loop. These modules model the parts of it that are hard to test: the
connection lifecycle and reconnect supervision, the write path that heals
itself, the ack-paced uploads, the wait for the ack of a single command, the
panel state the display keeps, how payloads are cut into writes and found again
in a capture, and what the hardware probes leave behind when they fail. Line
numbers below are those of `src/pyidotmatrix/` unless a path says otherwise.

## The system

| component | state | operations | interacts with |
|---|---|---|---|
| `transport/ble.py` `BleTransport` | the client, whether supervision is wanted and armed, the reconnect task, two locks, the cached write size, pending ack waits, listeners, counters | `connect`, `disconnect`, `set_auto_reconnect`, `write`, `write_packets`, `await_device_ack` | bleak (awaits and two callbacks), every feature, the display |
| `client.py` uploads | per upload: queue of acks, chunk index, attempt | `_run_upload_pass`, `_send_chunked_upload`, `_send_gif_upload`, `activate_stored` | `write_packets`, response listeners, the panel |
| `client.py` features | the verification flag | `_send` and one method per command | `write`, `await_device_ack` |
| `display/ble_display.py` | `_diy_mode_enabled`, `_entry_clear` | `show_frame`, `set_entry_clear`, `invalidate_diy_mode`, `set_pixels`, ... | the transport and its `on_disconnected` |
| `protocol/*` | none | split payloads into chunks and packets, lay out commands, adapt GIFs, parse acks | features |
| `btsnoop.py` | two reassemblers | decode a capture | offline |
| `probes/`, `examples/` | what they changed on the panel | scripts over the client | every feature |
| `display/simulator.py`, `backend.py`, `imaging.py`, `validation.py`, `capabilities.py` | a frame buffer; none | draw, check arguments, look up tables | - |

Everything runs on one event loop: a task runs alone from one await that really
suspends to the next. What is hard is what happens at the awaits: several tasks
and the reconnect loop inside `connect()` and the write path at once; bleak's
disconnected callback arriving at any of them, or never; a session that says it
is connected and is dead; a cancelled loop that has not run yet; acks that are
lost, doubled or late, matched only by type.

What makes each component correct:

- transport: at most one live BLE client; no client replaced under a task that
  awaits it; one supervisor at a time, and none once it was switched off; pieces
  of two commands never mix; writes are cut for the link they go out on; no call hangs; an outage that is watched ends.
- uploads: no chunk is sent into a busy panel; a reported success is stored; one
  fault does not fail a GIF; every upload ends.
- acks: a wait displaces no other; its answer is its own command's; a rejection
  raises; a call ends.
- display: the DIY flag is never true over a panel that is not in DIY mode.
- framing: wherever the writes are cut, the panel finds every chunk where it
  begins; the last write, and only it, is acknowledged.
- GIF adaptation: what is uploaded fits the panel in number and in time.
- capture: the analyser finds what the driver wrote.
- probes: what a script disturbs it puts back.

## Modules

| module | models | checked by |
|---|---|---|
| `BleTransport` | `transport/ble.py`, await by await | `MCBleTransport`, `BleTransport_*.cfg` |
| `CommandWire` | abstract: what the wire carries, one command at a time | refined by `BleTransport` |
| `BleTransport_proofs`, `BleLink_proofs` | theorems: types and supervision; links, the cached write size, `reconnect_count` and the refinement of `CommandWire` | TLAPS |
| `ChunkedUpload` | the upload handshake of `client.py` and the panel's side of it | `MCChunkedUpload`, `ChunkedUpload_*.cfg` |
| `ChunkedUpload_proofs` | theorems: types, pacing, success, the GIF retry | TLAPS |
| `BleDisplay` | `display/ble_display.py` over an abstract transport | `MCBleDisplay`, `BleDisplay_*.cfg` |
| `BleDisplay_proofs` | theorems: types, the DIY flag, frames | TLAPS |
| `AckWait` | `_Feature._send`, `await_device_ack()`, the acks of `_handle_notification()` | `MCAckWait`, `AckWait_*.cfg` |
| `AckWait_proofs` | theorems: types, waits are heard, answers are one's own, rejections raise | TLAPS |
| `Framing` | `protocol/bytes_.py`, the headers, the cutting in `write()` and `write_packets()`, the panel's reassembly | through `Capture` |
| `Framing_proofs` | theorems: the panel follows, the ack | TLAPS |
| `Commands` | key, length and declared length of every command; `classify_write()` | through `Capture` |
| `GifFrames` | `adapt_gif()`: count cap, sampling, duration cap | through `Capture` |
| `Capture` | `btsnoop.py` over `Framing`: both reassemblers | `MCCapture`, `Capture_*.cfg` |
| `Capture_proofs` | theorems: `Capture` implements `Framing`, and inherits its theorems; the analyser keeps in step and names what it reads; GIFs fit | TLAPS |
| `ProbeOps`, `ProbeRig` | the words the scripts are written in, and the machine that runs them against faults | through `MCProbeRig` |
| `ProbesSettings`, `ProbesStreams`, `ProbesAlarms`, `ProbesUploads`, `ProbesDrawing` | the scripts under `probes/` and `examples/` | `MCProbeRig`, `ProbeRig_restores.cfg` |
| `ProbeAnalysis` | how each block of a script may end, for one promise and any number of faults | `MCProbeRig` computes it |
| `ProbeRig_proofs` | theorems: scripts whose analysis keeps their promises keep them in every run | TLAPS |

An operator that stands just before another one with the same parameters and is
not used otherwise (`NoLocking` before `LockFree`, `SendWithoutDrain` before
`Send`) is a faulty variant of it: replacing the one by the other must break a
property, and `PROJECT.json` says which.

### BleTransport

`pc[t]` says at which await task `t` is suspended; one action is the code from
there to the next await, with everything it changes. Tasks are `Callers`, each in
one API call at a time, and `Loops`, slots for `_reconnect_loop()` tasks.

| code | model |
|---|---|
| `self._client`, one `BleakClient` per `connect()` | `client`, a generation number; `link[g]` is what bleak says of each |
| `is_connected`, `is_write_ready` | `IsConnected`, `IsWriteReady` over `link`: a client may be up, connected without services, or dead while it says it is connected |
| `_auto_reconnect`, `_reconnect_armed`, `_reconnect_task`, `_reconnect_count` | `auto`, `armed`, `handle`, `count` |
| `asyncio.Lock`s | holder and FIFO queue; a free lock is taken without suspending (`LockFree`), a released one goes to the head of the queue when that task runs (`Granted`) |
| `connect()` 205-221 | `Connect`, `ConnectGranted`, `Discovered`, `Connected`, `Subscribed`, `Notified`; `ConnectFailed` for its exceptions. Who called it (`after[t]`) decides what follows (`Resume`, `Raise`): the caller, a frame, a retry of a piece, or the loop |
| `disconnect()` 223-232 | `Disconnect`, `DisconnectGranted`, `Disconnected` |
| `set_auto_reconnect()` 234-247 | `SetAutoReconnect`: no await |
| `write_packets()` 275-299, `_ensure_connected()` 350-366 | `Write`, `BeginSend`, `WriteGranted`, `PieceWritten` |
| `_write_raw()` 390-442, `_reconnect_for_readiness()` 368-388 | `PieceFailed`, `Healed` |
| `_handle_disconnect()` 550-555 | `HandleDisconnect`: a scheduled callback that does not look at its client |
| `_reconnect_loop()` 557-588, `task.cancel()` | `LoopStarts`, `LoopWakes`, `LoopAgain`; `CancelledErrorThrown` when a cancelled loop next runs |

Abstracted: a frame is `Pieces` BLE writes; the write size is the generation it
was read from; delays between attempts are one await (so sizes are told apart, not
compared: a size is right if it is the link's own); exceptions differ only in
where they go. The outside world (`Drop`, `HostResumes`, failing bleak calls) is
bounded by `MaxFaults` and chosen by `Faults`.

### ChunkedUpload

An uploader is idle, in `write_packets()` (`writing` until the chunk reaches the
panel, `written` after), or in `acks.get()` (`waiting`). The panel digests one
chunk at a time per family; a chunk that lands on a busy panel dooms the transfer
(`client.py` 203-210), a first chunk resets it, the CRC of the stored GIF is
recognized, the last chunk of a clean transfer is stored and acked SAVED. Timer
and Schedule keys behave alike, and one family stands for either. `Overlap` says
whether two uploads of one family may run at once; the code does not prevent it,
and the documentation does not say that the application must.

Notifications arrive in order. Faults: `lose`, `repeat` (twice at once),
`straggle` (once more, later), `reject` (the panel answers FAILED or a status the
driver does not know), `write` (ConnectionLostError). Assumption: an ack that comes at all
comes within the timeout of 5 s (`TimesOut`).

### BleDisplay

The transport is reduced to what the transport model shows of it: one command on
the wire, a lost link brought back, a failed write retried. `ready` is asyncio's
queue of what became runnable, which decides whether `on_disconnected` or the
end of a write comes first. The panel loses its mode with the link and by native
commands of other features, after which the embedder calls
`invalidate_diy_mode()`. An entry that does not clear may fail to take; the
properties speak of the flag set by a clearing entry, which always takes.

### AckWait

A caller is in a connect, a write, or the wait of one call; one action is the
code from one await to the next. `waits`, `future` and `pending` are
`_pending_acks`; the panel works through `inbox` and answers into `air`. An ack
names its command by (type, subtype) only; the field `of`, which says whose it
is, is for the properties. Three commands stand for all of them: an ordinary one, one whose
key is a status key (`timer_close`), and one the facade sends unverified
and `await_device_ack()` refuses (`verify_password`). The
write is what `BleTransport` shows of it: it connects, is carried, is
retried on a new link (whatever the panel had still to answer is gone with the
old one), or raises. Faults: a connect that fails or times out, a write that
fails and is retried or raises, an ack lost or later than the timeout, an ack in the very turn of the loop in which the timeout
fires (`race`), a cancelled caller.

Met on the way, and not findings of a run: `await_device_ack()` refuses every
command with type byte 5 (`ble.py` 324-330), also `verify_password`, although
`client.py` 641 says that a caller can await its ack and `ble.py` 62 that only
graffiti has that byte. `freeze_screen()` has the key of a text upload's ack, so
its ack is a status and a rejection of it never raises (`client.py` 593);
`RejectionRaised` leaves status keys out for that reason. The status ack of
`timer_close` is also heard by a timer upload that is running.

How far the pairing goes: `OwnAnswer` speaks of waits that began, and went on,
with no other answer of their key due (`fresh`), and `RejectionRaised` besides
of a world in which nothing has failed, come late or raced a timeout. More an
ack without an identity cannot promise; what it does not is in `AckWait_stale.cfg`.

### Framing, Commands, GifFrames

Bytes are counted, not carried: `from`, `at` and `packet` say where in the
payload, the chunk and the packet the driver is; one action is one write. The
panel reads the length in a chunk's first bytes and counts down (`need`),
as `ble.py` 282 says it does. `Commands` has every command's key, length and
declared length, so `Framing` runs over all of them. `write()` with response
cuts all its pieces for the larger size of a write with response and sends
all but the last without one (`ble.py` 269-273). On a link that takes less
without a response the pieces are too large (`Capture_oversized.cfg`); graffiti
commands of more than 252 pixels, at 514 bytes and up, are long enough for it.
`GraffitiFeature` has the slices of `set_pixels()` and the builder's refusal of
more than 255 pixels.

`GifFrames` works on frame indices; a duration is a fraction where Python has a
float, and for the ten frame counts where they differ the samples are the same.
The duration is the file's or, as it is, the caller's (`gif.py` 140), also one below
16 ms or not positive. The cap is looser than its docstring: 60 frames of 50 ms
run 3 s, above the 2 s of `gif.py` 137 (`Capture_gif_duration.cfg`; `Bounded`
states the factor of two that does hold), 125
frames are sampled as the first 62 and the last, and 63 frames are kept where
`gif.py` 146 intends 64.

### Capture

Every write of `Framing` passes the HCI log as ACL fragments; `pending` is the
L2CAP slot of the connection, `left` the rest of the frame that the protocol
reassembler expects, `decoded` what the last write was and was taken for. A log
may begin anywhere and end anywhere. `disturbed` marks what the analyser cannot
undo: a log that begins in mid-frame, a notification between two fragments (it takes the
slot, `btsnoop.py` 137-141, 167), another connection's write on the same ATT handle
in the middle of a frame (`btsnoop.py` 912), a first piece shorter than 64 bytes
(786-788). `AnnotationRight` and `AnalyserFollows` promise nothing while it lasts: those
hazards are modelled, not covered. It is over with the next command that begins with nothing left to skip. Some commands share a name
(`time_indicator` and the master switch); the later slices of a sliced effect
are recognized by their sub-header and can be taken for other commands. A link
that cuts a graffiti command at an odd length (writes of 509 bytes) makes a first
part that the analyser does not take for one (`btsnoop.py` 566).

### Probes

A script is a sequence of awaited calls, notes on the host, branches, loops and
try blocks, translated function by function; a call changes no setting, disturbs
one or restores it (`Use`, `Set`, `Reset`). `ProbeRig` unwinds exceptions through `except` and `finally` the way
Python does. A failing call may or may not have reached the panel; a Ctrl-C
is one `CancelledError` at an await, which `except Exception` does not catch. A
sleep after a command counts as part of it. Each script names the settings it is
meant to leave neutral and how strong that promise is, from "whatever
happens" to "if nothing goes wrong", as far as the way it is written can carry it.

What the weaker promises stand for: p6 notes a slot after arming it (p6:420);
P11's preamble power-cycles before the try whose finally neutralizes, and its
neutralize is not guarded step by step; P17b leaves brightness 5 when its
phase 4 fails (p17b:434) and P17 does not turn the panel on again; P10 ignores
a failed restore (p10:542); P7, P9, P10, P12 and P14 clean up outside a finally,
P12 and P14 at another brightness than they found; `timer_image`,
`timer_weekbit` and `content_image` leave a slot armed or the clock wrong after
an exception; `chronograph_clean` and example 06 leave the stopwatch
running; `streaming_benchmark` does not disconnect when a phase raises.

TLC can run a script only against a few faults. `ProbeAnalysis` says what any
number of them may do. It follows one promise about one setting: a state is
whether the setting is left disturbed without an excuse, and what the host has
noted. An analysis (`Ends`) lists, for every block of the script, whether in a
cleanup or not, and for every state it may begin in, with which exception, if
any, and in which states it may end. `Through` is what one item does to such a
state, and `Consistent` that the analysis of a block agrees with its items: an
item's ends are continued by the rest of the block, a loop's by the loop.
`MCProbeRig` computes an analysis for each script by running each body until no
round of a loop ends in a new state; how it does so is not trusted, since TLC
evaluates `BlocksAssumption` and `EndsAssumption` over the result.
`AnalysisKeepsPromises` then says that no block that is a whole script ends
with a promise broken.

## Runs

Passing:

| run | bounds | shows |
|---|---|---|
| `transport_lifecycle` | 2 callers, 2 loop slots, 4 calls, 3 faults | `OneLiveLink`, `ClientNotSwapped`, `OneSupervisor`, `DisabledIsOff`, `QuietDisconnect`, `CountsRealReconnects` |
| `transport_writing` | 2 callers, 1 loop slot, 2 pieces, 2 calls, 2 faults, fairness | the refinement `OneCommandAtATime`, `OneLiveLink` under self-healing, `CachedSizeIsCurrent`, `EveryCallReturns`, `OutageEnds` |
| `upload_paced` | 2 uploaders, contents of 1 and 3 chunks, 2 uploads, 2 faults, fairness | `Paced`, `SuccessMeansStored`, `OneFaultSurvived`, `UploadEnds` |
| `display_frames` | 2 presenters, 1 native task, 4 calls, 3 faults | `FlagHonest`, `UndisturbedFrameLands` |
| `ack_waits` | 2 callers, 3 commands, 2 calls, 2 faults of 8 kinds, fairness | `EachWaitHeard`, `OwnAnswer`, `RejectionRaised`, `CallEnds` |
| `capture` | every command and upload; payloads of 1, 4096 and 4097 bytes; links of 20, 182 and 514; ACL fragments of 251; 2 jobs; 94 animations | `PanelFollows`, `AckedAtTheEnd`, `AnnotationRight`, `AnalyserFollows`, `GifFits`, `GifBounded` |
| `probes` | every script, 2 faults; its analysis, any number of faults | `EachRestoredAlone`, `RestoredByCleanup`, `ErrorsDoNotStopRestoring`, `CleanRunLeavesNothing`, `AnalysisKeepsPromises` |

Each has its module's `TypeOK` where it is cheap. Why the bounds are enough: the
races need two tasks in calls and at most one reconnect loop dying while another
starts, hence two callers and two loop slots; the write race needs a frame of two
pieces, one fault in it and one in its reconnect; the handshake needs a first, a
middle and a last chunk, and a second fault to tell the GIF retry from none; an
ack is mistaken between two commands, and needs one late or lost ack for it. In
`capture` the sizes are those of the code, at both sides of the chunk and of the
fragment boundary, and a second job shows what the first left behind. In `probes` the first
fault is in the script and the second in its cleanup; the analysis has no such bound, and its states are all there are. The proofs cover
other sizes of everything they are about. `MaxClients` (9) is above what the calls and faults
can use up: it cuts nothing off. Callers and presenters are symmetric in the runs
without liveness that say so.

Where the code does not do what the repository says (each run stops at the
counterexample; the line and the words are in `PROJECT.json`, "findings"):

| run | property | in short |
|---|---|---|
| `transport_disconnect_race` | `DisconnectStopsSupervision` | `connect()` in flight re-arms what `disconnect()` disarmed, and the loop reconnects |
| `transport_early_drop` | `DroppedLinkIsWatched` | a drop during `start_notify()` is reported before supervision is armed |
| `upload_straggler` | `NoOffByOne` | a duplicate ack after the drain lets the next chunk go into a busy panel |
| `display_silent_reconnect` | `FlagHonest` | a self-healed session without the disconnected callback leaves the DIY flag set |
| `ack_unsent` | `SilenceMeansSent` | a connect that times out inside the write is returned as the silence of the panel |

### Further counterexamples

Five more sentences of the repository have a property each, and a configuration
that finds it violated within seconds; they are not runs of `PROJECT.json`:
`tlc -config <cfg> <MC module>`.

| cfg | property | the words, and what happens |
|---|---|---|
| `BleTransport_stale_size` | `FrameSizedForItsLink` | `ble.py` 280 "if this connection negotiated a smaller write size, packets are re-split here": a frame takes its size at 290, before it waits for the lock, and keeps it over a reconnect |
| `BleTransport_enable_disarms` | `EnablingNeverDisarms` | `ble.py` 237-238: only disabling disarms; but `set_auto_reconnect(True)` during an outage sets `_reconnect_armed` to FALSE (242), and the loop at work ends |
| `AckWait_stale` | `RejectionNeverHidden` | `client.py` 253-254 "raises CommandRejectedError if the device nacks it": the late ack of a call that timed out is taken for that of the next call of the key (`ble.py` 543), which returns as accepted though the panel rejects it |
| `Capture_oversized` | `NoResponseWritesFit` | `ble.py` 445 "The largest write we may send": a graffiti command of 255 pixels, 518 bytes, begins with a write without response of 512, also on a link that takes 20 |
| `Capture_gif_duration` | `TotalDurationCapped` | `gif.py` 137 "Caps frame count and total duration": 40 frames of 200 ms come out as 12, which run 2.4 s; 60 of 50 ms are all kept, 3 s |

Two more are known and have no configuration: `activate_stored()` of a GIF of one chunk uploads it
(`client.py` 575), and overlapping uploads of one family take each other's SAVED
(`client.py` 139; set `Overlap` to TRUE to see it).

## Fairness

`BleTransport` (`transport_writing`): weak fairness of each task's steps and of the callbacks. The event
loop runs every ready task, locks are FIFO, sleeps end, and every bleak call
returns or raises (bleak has timeouts of its own). Faults are never fair and are
bounded, so an outage that is watched must end once they run out; calls of the
application are not fair either. `ChunkedUpload`: weak fairness of each
uploader, of the panel for the chunk it holds, and of delivery; the panel need
not answer (`lose`), and then the timeout is fair, being a timer. `AckWait`: weak
fairness of each caller, whose timeout is a step of its own, of the panel for what is in its
inbox, and of delivery. The other modules state no fairness and no liveness.

Every module with calls (`BleTransport`, `ChunkedUpload`, `BleDisplay`, `AckWait`) has a `Finished` step for the state in which the application stops
calling, so TLC's deadlock check finds a task that is stuck inside a call. A
`Capture` can always log another notification; a `ProbeRig` stops when its
script has ended, and its run does not check for deadlock.

## Proofs

TLAPS proves, for every value of the constants:

- `BleTransport_proofs!Typing`, `SingleSupervisor`, `DisablingWorks`,
  `QuietDisconnectWorks`. `QuietDisconnect` is about a `disconnect()` that no call races (against a loop
  that is still ending); the race is `DisconnectStopsSupervision`, which the
  code does not keep. The three supervision properties need one inductive
  invariant, `SupervisionInv`: a loop that is not cancelled is the handle;
  unwanted supervision is not armed; after a quiet disconnect nobody is left
  inside `connect()` or a write who could arm it. The last part is what a racing
  `disconnect()` lacks.
- `BleLink_proofs!NoLeakedLink`, `ClientKept`. `LinkInv` says that only the holder of
  the connect lock is past building a client, that its generation is `client`,
  and that every older generation is closed; the self-heal outside the lock only
  ever closes. That is why `connect()` may use `self._client` after an await.
- `BleLink_proofs!CachedSizeKeepsUp`. While the client is ready for writes, the
  size in the cache is that of its link, or there is none. With the types this is
  inductive: only the end of bleak's `connect()` makes a client ready, and the
  same step clears the cache (`ble.py` 215-216, with no await between); a new client is not
  ready; and a frame caches only the size of the current client (`SizeNext`).
  It is not true of the size a frame has already taken (`BleTransport_stale_size.cfg`).
- `BleLink_proofs!ReconnectsAreReal`. That the count is below the number of links is
  not inductive; `CountInv` says why a success is never counted twice. A loop
  starts over only on a lost link, so if it supervises and `client` is connected,
  that link was established since and is not counted yet: the count is two below.
  It needs the single supervisor of `SupervisionInv`, and `LinkInv` for a link that
  comes up only once (`LinkAges`).
- `BleLink_proofs!WireImplemented`: `BleTransport` implements `CommandWire` under the
  mapping sender = holder of the write lock, position = pieces written. The
  invariant: only the holder is in `writing`, `rewriting` or a heal that
  retries, so a reconnect in the middle of a frame cannot let another frame in.
- `ChunkedUpload_proofs!Typing`, `HandshakePaces`, `SuccessIsStored`, the last
  two assuming `~Overlap` and no late duplicates (`"straggle" \notin Faults`),
  the second of which `upload_straggler` shows to be necessary; that the first is, is
  seen by setting `Overlap` to TRUE, for which there is no run. `Paced` alone is not inductive.
  `PaceInv` adds that a family has one listener, that whoever is owed an ack is
  past its write with an empty queue, and that one ack is owed at a time;
  `HonestInv` adds that a SAVED on its way, or in a queue, is about the content of
  whoever hears it.
- `ChunkedUpload_proofs!OneFaultIsSurvived`, under the same two assumptions.
  `FaultInv` accounts for the faults while a GIF upload runs: attempt n has seen
  n - 1 of them, and n once it is off its track (the panel not ready for its chunk, or
  no NEXT or SAVED for it due or heard). So the second attempt can only fail after two.

- `BleDisplay_proofs!Typing`, `FlagIsHonest`, `UndisturbedFramesLand`, the last two
  assuming that bleak reports every disconnection (`"mute" \notin Faults`), which
  `display_silent_reconnect` shows to be necessary. `FlagHonest` speaks of moments
  with nothing left to report; `FlagInv` adds what the queue of reports still
  holds: a DIY entry that has ended with no disconnection queued behind it was on
  a link that stands, and a flag over a link that is down has its disconnection still to come.
- `AckWait_proofs!Typing`, `WaitsAreHeard`, `UndisturbedWaitsGetTheirs`. A registered
  future belongs to a caller inside the call of that key, and nobody else can
  register there; an undisturbed wait has no answer of its key due but its own.
- `AckWait_proofs!RejectionsRaise`, an action property. It relates the panel's verdict
  to the way the call ends, several steps later, so `AllStories` follows each call:
  its command is in the panel's inbox at most once and its answer in one place at a time; while
  nothing has gone wrong a rejection stays on its way until it is in the future,
  and what is there says what the verdict says.
- `Framing_proofs!PanelFollowsTheDriver`, `OneAckAtTheEnd`: for every
  payload, header, chunk, packet and write size. Needed besides the properties
  themselves: where the driver is in its chunk and packet (`Position`), that a
  flat command is one chunk (`Shape`), and what the panel has counted in mid-chunk
  (`Collected`).
- `Capture_proofs!CaptureImplementsFraming`: fragments, bystanders and late logs are
  stutters of `Framing`, so its two theorems hold in the composition
  (`CapturedPanelFollows`, `CapturedAckAtTheEnd`).

- `Capture_proofs!CaptureTyping`, `AnalyserKeepsUp`, `WritesAreRecognized`. The analyser is in step
  with the panel in mid-frame too: what is pending is the write under way as far
  as it is logged (`HalfLogged`), and what is left of the frame is what the panel
  needs, but for that write (`LeftIsNeeded`). `AnalyserKeepsUp` assumes
  `StitchableSizes`: no chunk with its header is above the 8192 bytes the
  analyser believes, a flat command of 64 bytes or more declares its length, and the
  other connection's writes are shorter than that. `WritesAreRecognized` assumes
  `TheCodesOwn` instead, that the commands are those `Commands` lists and the three limits are
  the code's (`CodesSizes` derives the other from it), and `EvenParts`, that no link cuts a
  graffiti command at an odd length; both hold in `Capture_follows.cfg`. Payloads,
  links and fragments may have any size. The table itself is a case for each command
  (`FlatRecognized`, `UploadsRecognized`, `GraffitiRecognized`).
- `Capture_proofs!UploadedGifsFit`, `UploadedGifsAreBounded`: for every set of
  animations, of any number of frames and any duration, the file's or the caller's. Each of
  the two caps returns an excerpt of what it is given (`SampleIsExcerpt`, `CapTimeIsExcerpt`),
  and an excerpt of an excerpt is one; the bound on the time comes from the integer division
  in the step (`Division`, `SamplingFits`).

- `ProbeRig_proofs!ScriptsStayOnTrack` and, from it, `RigTypeCorrect`,
  `RestoresEachAlone`, `RestoresByCleanup`, `RestoresDespiteErrors` and
  `CleanRunsUndoAll`: the five invariants of the rig, for any scripts, any number of
  faults and loops of any number of rounds. The hypothesis is
  `KeepsPromises(n)` of every script, which is what `AnalysisKeepsPromises`
  shows of the scripts of the repository.

  `RigInv` says that, as long as nothing has excused a promise (`Forgiven`), what is
  left to do is `Covered` from the state the rig is in: there is a set of pairs
  of a stack and of how control arrives at it that contains this one, is closed under
  `Through` (`Settled`), and holds at the empty stack only states with
  nothing left disturbed. Such a set stands for an induction over the blocks: it
  is given, not computed. `Push` puts a block before a covered stack and is where the
  analysis is used; `Cons` puts a mark before one, `Pop` takes the first item off,
  and `Jump` follows an exception to the mark that takes it, by the shortest stack
  for which it would fail (`LeastNatural`). Each action of the rig then is one or two of these.

  The excuses are exact: a fault is one of `Unexcused` precisely when it does not
  set the flag that the property speaks of, and a setting's own lost reset excuses it
  only until the next command about it reaches the panel.

The proofs rest on the named assumptions of the modules about their constants
(`TasksAssumption`, `BoundsAssumption`, `ContentsAssumption`, `SizesAssumption`,
`CaptureAssumption`, `EndsAssumption`, ...), on the hypotheses named above, and on nothing else.

Only model-checked: liveness (`EveryCallReturns`, `OutageEnds`, `UploadEnds`,
`CallEnds`), which TLAPS does not prove, and `AnalysisKeepsPromises`, which is
a computation over the scripts there are: that they, and not others, keep their
promises is theirs alone. It stays an invariant and a hypothesis, and is no assumption of
the module, so that a script that breaks its promise shows as a violated property.
Every other invariant and action property of a passing run is a theorem, under the hypotheses
named above.

## Not modelled, and why

- backoff delays, logging, events and snapshots: no property depends on them.
- contents of payloads: rendering text, resizing, palettes and encoding (Pillow),
  parameter bytes of commands; nothing in the library reads them back.
- `btsnoop.py`: the record format of the file, the discovery of handles and its
  heuristics (`HandleMap.apply_heuristics`), the wording of the annotations.
- simulator, imaging, validation, capability table, exceptions: no concurrency
  and no state that outlives a call.
- examples 07 and 08, which never reach a panel, and `tools/`, a command line over
  `btsnoop.py`.
- of the probes: payloads, timings, prompts and what the operator sees.

## Plan

Done: transport, uploads, display, single-command acks, framing, commands,
capture, GIF adaptation, probes, and theorems about every invariant and action
property of all of them. What is left:

1. `ChunkedUpload`: acks later than the timeout (`client.py` 148), and a run of overlapping uploads.
2. A link that cuts graffiti commands at odd lengths in the capture run.
