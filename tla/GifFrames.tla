------------------------------ MODULE GifFrames ------------------------------
(***************************************************************************)
(* protocol/gif.py, adapt_gif(): which frames of an animation are uploaded, *)
(* and for how long each is shown.  A frame is its index in the source.      *)
(*                                                                         *)
(* A duration is a fraction of milliseconds, where Python has a float.  For  *)
(* ten frame counts count * (2000 / count) is a little above 2000 there, and *)
(* the frames are sampled with a step of one, which changes nothing.  What   *)
(* may be missing is a set of at most one element.                          *)
(*                                                                         *)
(* An operator defined just before another one with the same parameters,   *)
(* and not used, is a faulty variant of it that the properties detect.     *)
(***************************************************************************)
EXTENDS Integers, Sequences

MAX_FRAME_COUNT == 64
DEFAULT_FRAME_DURATION_MS == 200
TOTAL_DURATION_LIMIT_MS == 2000

Least(m, n) == IF m < n THEN m ELSE n
Ceiling(m, n) == (m + n - 1) \div n
Ms(n) == [ms |-> n, per |-> 1]

Optional == {s \in SUBSET Int : \A m, n \in s : m = n}
Given(optional) == CHOOSE n \in optional : TRUE

(* _frame_duration(): what the file says, if that is a duration.              *)
FrameDuration(info, count) ==
  LET said == IF info = {} THEN DEFAULT_FRAME_DURATION_MS ELSE Given(info)
      shared == [ms |-> TOTAL_DURATION_LIMIT_MS, per |-> Least(count, MAX_FRAME_COUNT)]
  IN  IF said <= 0 THEN shared ELSE IF said < 16 THEN Ms(16) ELSE Ms(said)

Step(count, keep) == (count - 2) \div keep

SampleAll(frames, keep) ==
  IF keep <= 0 THEN <<frames[1], frames[Len(frames)]>> ELSE frames
SampleFrames(frames, keep) ==
  LET step == Step(Len(frames), keep)
      picked == Least(Ceiling(Len(frames) - 2, step), MAX_FRAME_COUNT - 3)
      ends == <<frames[1], frames[Len(frames)]>>
  IN  IF keep <= 0 THEN ends
      ELSE [k \in 1..picked + 2 |->
              IF k = 1 THEN ends[1] ELSE IF k = picked + 2 THEN ends[2] ELSE frames[2 + (k - 2) * step]]

(* _limit_frames(): a duration the caller asks for is used as it is, even one  *)
(* below 16 ms or not above zero; then the cap on the number, then the cap on *)
(* the time.                                                                  *)
Duration(source) ==
  IF source.override = {} THEN FrameDuration(source.info, source.count) ELSE Ms(Given(source.override))

CapCount(frames) ==
  IF Len(frames) > MAX_FRAME_COUNT THEN SampleFrames(frames, MAX_FRAME_COUNT - 2) ELSE frames

TooLong(frames, d) == Len(frames) * d.ms > TOTAL_DURATION_LIMIT_MS * d.per
Budget(d) == Least(MAX_FRAME_COUNT - 2, ((TOTAL_DURATION_LIMIT_MS * d.per) \div d.ms) - 2)
NeverTooLong(frames, d) == frames
CapTime(frames, d) ==
  IF TooLong(frames, d) /\ Budget(d) < Len(frames) THEN SampleFrames(frames, Budget(d)) ELSE frames

LimitFrames(count, d) ==
  LET all == [i \in 1..count |-> i]
  IN  IF count <= 1 THEN all ELSE CapTime(CapCount(all), d)

(* adapt_gif(): the frames it encodes, of a source of so many frames with this *)
(* duration in its metadata, and that duration_per_frame_ms of the caller.    *)
Sources == [count : Nat \ {0}, info : Optional, override : Optional]
AdaptGif(source) ==
  LET d == Duration(source)
  IN  [source |-> source, duration |-> d, frames |-> LimitFrames(source.count, d)]

-----------------------------------------------------------------------------
(* What holds of a GIF that adapt_gif() returned *)

(* Whatever is sampled, and sampled again, the panel never gets more frames     *)
(* than it can hold, and gets the first, the last, and the others in order.    *)
Fits(gif) ==
  LET kept == gif.frames
  IN  /\ Len(kept) <= MAX_FRAME_COUNT
      /\ kept[1] = 1 /\ kept[Len(kept)] = gif.source.count
      /\ \A k \in 1..Len(kept) - 1 : kept[k] < kept[k + 1]

(* However the samples fall, more than the two frames that are always kept run *)
(* less than twice the limit of gif.py:137, whoever chose the duration.       *)
Bounded(gif) ==
  Len(gif.frames) > 2 => Len(gif.frames) * gif.duration.ms < 2 * TOTAL_DURATION_LIMIT_MS * gif.duration.per

-----------------------------------------------------------------------------
(* What the repository says, and this code does not do *)

(* gif.py:137, "Caps frame count and total duration to what the device can     *)
(* handle": what is left of an animation runs no longer than the limit, unless *)
(* only the two frames are left that are always kept.                         *)
Capped(gif) ==
  Len(gif.frames) > 2 => Len(gif.frames) * gif.duration.ms <= TOTAL_DURATION_LIMIT_MS * gif.duration.per
=============================================================================
