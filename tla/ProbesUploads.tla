---------------------------- MODULE ProbesUploads ----------------------------
(* The probes of frames, GIF and text uploads: how they are cut, paced,        *)
(* interrupted, cached, and what a native mode does to the frames after it.    *)
EXTENDS ProbeOps

LOCAL INSTANCE SequencesExt

Times(n, body) == FlattenSeq([i \in 1..n |-> body])

-----------------------------------------------------------------------------
(* probe_p8_geometry.py: frames and graffiti, the panel upright and flipped    *)
P8Main ==
  Client(Show \o Show \o Times(5, Show)
         \o Set("flip") \o Show \o Show
         \o Reset("flip") \o Clock)

-----------------------------------------------------------------------------
(* probe_p9_write_boundaries.py: one frame, one GIF and one text per write     *)
(* size.  The size is the client's, set without a call to the panel.           *)

P9Baseline == Shielded(Use \o Clock)
P9ForceWriteSize == Note("size")
P9Size == Shielded(Show) \o P9ForceWriteSize \o Shielded(Show) \o Shielded(Show) \o Maybe(Shielded(Show))
P9ModePair == Forget("size") \o Times(2, Shielded(Show \o Show))
P9Main == Client(P9Baseline \o Use \o Many(P9Size) \o P9ModePair \o Forget("size") \o Clock)

-----------------------------------------------------------------------------
(* probe_p10_interrupted_upload.py: does the stored GIF survive an upload that *)
(* stops half-way.                                                            *)

P10Reconnect == Shielded(Reset("link") \o Set("link"))

(* TRUE is to go on with `then`, FALSE with `else`.                           *)
P10UploadBase(then, else) == Try({"broke"}, Try(Errors, Reset("base"), else \o Raise("broke")) \o then, <<>>)

P10Interruption == OneOf({Use, Use \o Use})
P10ActivateStored == Show

(* One reset and a second attempt when the upload failed for good.            *)
P10Recovery == Shielded(Try({"error"}, Set("base") \o Show, Use \o Set("base") \o Show))

P10Case ==
  Shielded(Show) \o Shielded(P10Interruption)
  \o P10Reconnect \o Shielded(P10ActivateStored)
  \o P10Recovery
  \o P10UploadBase(<<>>, <<>>)

P10HealthCheck == Shielded(Show)
P10Main ==
  Client(Shielded(Use \o Clock) \o Use
         \o P10UploadBase(Many(P10Case) \o P10HealthCheck \o Clock, Clock))

-----------------------------------------------------------------------------
(* probe_p12_mode_state_machine.py: a frame without and with a new entry into  *)
(* the DIY mode, after each native mode.  The power is the only setting it      *)
(* changes besides the screen and the timers.                                 *)

P12StepUnguarded(send) == send
P12Step(send) == Shielded(send)
P12ReclaimPair == P12Step(Show) \o P12Step(Show)
P12Sequences == <<
  Maybe(P12Step(Show)),
  P12Step(Clock) \o P12Step(Show),
  P12Step(Show) \o P12Step(Show),
  P12Step(Set("countdown")) \o P12Step(Use \o Set("chrono")),
  P12Step(Set("power")) \o P12Step(Reset("power"))>>

P12Start == Shielded(Use \o Reset("power") \o Set("bright") \o Clock) \o Shielded(Show) \o P12Step(Show)
P12CleanupLeavesTimers(sequence) == Shielded(Reset("power")) \o Clock
P12Cleanup(sequence) ==
  Shielded((IF sequence = 4 THEN Reset("countdown") \o Reset("chrono") ELSE <<>>) \o Reset("power"))
  \o Clock
P12Main(sequence) ==
  Client(P12Start \o P12Sequences[sequence] \o P12ReclaimPair \o P12Cleanup(sequence))

-----------------------------------------------------------------------------
(* The GIF probes: whole uploads and first chunks alone, the clock at the end. *)

IsolationMain ==
  Client(Clock \o Show \o Clock \o Show \o Clock \o Show \o Clock)

ColorReliabilityMain == Client(Clock \o Times(4, Show) \o Clock)

CrcTimedUpload == Show
CrcCacheMain == Client(Times(3, CrcTimedUpload) \o Clock)
CrcCache2Main == Client(Times(2, Show) \o Clock)
CrcCache3Main == Client(Clock \o Show \o Show \o Clock \o Show \o Clock)

StoredChunk1Main == Client(Clock \o Show \o Clock \o Times(3, Show) \o Clock)

-----------------------------------------------------------------------------
(* probe_streaming_benchmark.py: on a connection of its own, with nothing to   *)
(* close it when a phase raises.                                              *)

BenchSendFrame == Show
BenchConnect == Set("link") \o Use \o Show
BenchEnsureAlive == Maybe(Try({"error"}, Reset("link"), <<>>) \o BenchConnect)
BenchPhaseGap == Try({"error"}, BenchSendFrame, <<>>)
BenchPhase(frames) == BenchEnsureAlive \o frames \o BenchPhaseGap
BenchMain ==
  BenchConnect \o BenchSendFrame \o BenchPhaseGap
  \o BenchPhase(BenchSendFrame)
  \o Many(BenchPhase(Try({"error"}, BenchSendFrame, <<>>)))
  \o BenchEnsureAlive \o Try({"error"}, Use \o Use \o Reset("link"), <<>>)

(* probe_diy_modes.py *)
DiyModesMain == OwnConnection(Show \o Use \o Show \o Use)

UploadScripts == [
  p8 |-> Script(P8Main, Keeps({"flip", "screen"}, "clean")),
  p9 |-> Script(P9Main, Keeps({"screen"}, "clean")),
  p10 |-> Script(P10Main, [Keeps({"screen", "base"}, "clean") EXCEPT !.base = "errors"]),
  p12_text |-> Script(P12Main(1), Keeps({"power", "screen"}, "errors")),
  p12_clock |-> Script(P12Main(2), Keeps({"power", "screen"}, "errors")),
  p12_gif |-> Script(P12Main(3), Keeps({"power", "screen"}, "errors")),
  p12_timers |-> Script(P12Main(4), [Keeps({"power", "screen", "countdown", "chrono"}, "clean")
                                       EXCEPT !.screen = "errors"]),
  p12_power |-> Script(P12Main(5), Keeps({"power", "screen"}, "errors")),
  gif_chunk1_isolation |-> Script(IsolationMain, Keeps({"screen"}, "clean")),
  gif_color_reliability |-> Script(ColorReliabilityMain, Keeps({"screen"}, "clean")),
  gif_crc_cache |-> Script(CrcCacheMain, Keeps({"screen"}, "clean")),
  gif_crc_cache2 |-> Script(CrcCache2Main, Keeps({"screen"}, "clean")),
  gif_crc_cache3 |-> Script(CrcCache3Main, Keeps({"screen"}, "clean")),
  gif_stored_chunk1 |-> Script(StoredChunk1Main, Keeps({"screen"}, "clean")),
  streaming_benchmark |-> Script(BenchMain, Keeps({}, "clean")),
  diy_modes |-> Script(DiyModesMain, Keeps({}, "clean"))]
=============================================================================
