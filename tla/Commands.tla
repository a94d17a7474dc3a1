------------------------------ MODULE Commands ------------------------------
(***************************************************************************)
(* The commands of pyidotmatrix/protocol/, as far as the wire can tell them *)
(* apart: the (type, subtype) pair of bytes 2 and 3, the length, and what   *)
(* bytes 0 and 1 declare it to be; and the table by which btsnoop.py        *)
(* recognizes them again.                                                  *)
(*                                                                         *)
(* An operator defined just before another one with the same parameters,   *)
(* and not used, is a faulty variant of it that the properties detect.     *)
(***************************************************************************)
EXTENDS Integers

Command(name, type, subtype, length) ==
  [name |-> name, key |-> <<type, subtype>>, length |-> length, declared |-> length, header |-> 0]

(* protocol/common.py *)
DeviceCommands == {
  Command("brightness", 4, 128, 5), Command("power", 7, 1, 5), Command("flip", 6, 128, 5),
  Command("freeze", 3, 0, 4), Command("speed", 3, 1, 5), Command("joint", 12, 128, 5),
  Command("set_time", 1, 128, 11), Command("set_password", 4, 2, 8),
  Command("verify_password", 5, 2, 7), Command("screen_timeout", 15, 128, 5),
  Command("time_indicator", 7, 128, 5), Command("delete_device_data", 2, 1, 17),
  Command("reset", 3, 128, 4)}

(* The builders of one command each. *)
ShowClock == Command("clock", 6, 1, 8)
Countdown == Command("countdown", 8, 128, 7)
Chronograph == Command("chronograph", 9, 128, 5)
Scoreboard == Command("scoreboard", 10, 128, 8)
EcoMode == Command("eco", 2, 128, 10)
FullscreenColor == Command("color", 2, 2, 7)
DiyMode == Command("diy_mode", 4, 1, 5)
MasterSwitch == Command("master_switch", 7, 128, 5)
TimerClose == Command("timer_close", 0, 128, 12)

MAX_PIXELS_PER_COMMAND == 255
Graffiti(pixels) == Command("graffiti", 5, 1, 8 + 2 * pixels)

(* set_pixels() of any number of pixels: one slice for each start of its loop. *)
Starts(xys) == {start \in 0..xys - 1 : start % MAX_PIXELS_PER_COMMAND = 0}
SliceEnd(start, xys) ==
  IF start + MAX_PIXELS_PER_COMMAND < xys THEN start + MAX_PIXELS_PER_COMMAND ELSE xys
Batches(xys) == {SliceEnd(start, xys) - start : start \in Starts(xys)}

MIN_COLORS == 2
MAX_COLORS == 7
Effect(colors) == Command("effect", 3, 2, 7 + 3 * colors)

(* build_show_packets() wraps slices of at most a budget of bytes in          *)
(* [chunk length + 1, index]: bytes 2 and 3 are then bytes 0 and 1 of the flat *)
(* command.  This is the first slice, the only one that can be recognized.    *)
EffectSlice(colors, budget) ==
  LET flat == Effect(colors).length
      slice == IF flat < budget THEN flat ELSE budget
  IN  [Command("effect_subchunk", flat, 0, slice + 2) EXCEPT !.declared = slice + 1]

(* The music screen; rhythm levels declare 33 bytes and are 21.               *)
MusicCommands == {
  Command("mic_type", 11, 128, 6), Command("image_rhythm", 0, 2, 6), Command("stop_rhythm", 0, 2, 6),
  [Command("rhythm_levels", 1, 2, 21) EXCEPT !.declared = 33]}

(* What the feature namespaces of the client write as flat commands.          *)
ExperimentalFeature == {DiyMode, MasterSwitch, TimerClose}
WidgetFeatures == {Chronograph, Countdown, ShowClock, Scoreboard, EcoMode, FullscreenColor}
EffectFeature ==
  {Effect(n) : n \in MIN_COLORS..MAX_COLORS}
  \cup {EffectSlice(n, budget) : n \in {MIN_COLORS, MAX_COLORS}, budget \in {96, 18}}

(* build_set_pixels() raises for a batch above the limit: nothing is sent.    *)
Sendable == 0..MAX_PIXELS_PER_COMMAND
GraffitiFeature(counts) == {Graffiti(n) : n \in Sendable \cap UNION {Batches(xys) : xys \in counts}}

FlatCommands == DeviceCommands \cup WidgetFeatures \cup MusicCommands \cup EffectFeature \cup ExperimentalFeature

(* The chunked uploads: each chunk begins with a header of this many bytes.   *)
Upload(name, type, subtype, header) ==
  [name |-> name, key |-> <<type, subtype>>, length |-> 0, declared |-> 0, header |-> header]

DiyFrame == Upload("diy_frame_chunk", 0, 0, 9)
Gif == Upload("gif_chunk", 1, 0, 16)
Text == Upload("text_chunk", 3, 0, 16)
ScheduleTheme == Upload("schedule_chunk", 5, 128, 23)
TimerData == Upload("timer_chunk", 0, 128, 24)
Uploads == {DiyFrame, Gif, Text, ScheduleTheme, TimerData}

-----------------------------------------------------------------------------
(* btsnoop.py, classify_write(): _HANDLERS, _LENGTH_OVERRIDES and what each    *)
(* handler requires of the length.                                            *)

Exactly(n) == n..n
AtLeast(n) == n..8192

Handler(type, subtype, lengths, names) ==
  [key |-> <<type, subtype>>, lengths |-> lengths, names |-> names]

SmallHandlers == {
  Handler(0, 2, Exactly(6), {"image_rhythm", "stop_rhythm"}),
  Handler(1, 2, Exactly(21), {"rhythm_levels"}), Handler(1, 128, Exactly(11), {"set_time"}),
  Handler(2, 1, Exactly(17), {"delete_device_data"}), Handler(2, 2, Exactly(7), {"color"}),
  Handler(2, 128, Exactly(10), {"eco"}), Handler(3, 1, Exactly(5), {"speed"}),
  Handler(3, 2, {7 + 3 * n : n \in 0..255}, {"effect"}), Handler(3, 128, Exactly(4), {"reset"}),
  Handler(4, 1, Exactly(5), {"diy_mode"}), Handler(4, 2, Exactly(8), {"set_password"}),
  Handler(4, 128, Exactly(5), {"brightness"}), Handler(5, 2, Exactly(7), {"verify_password"}),
  Handler(6, 1, Exactly(8), {"clock"}), Handler(6, 128, Exactly(5), {"flip"}),
  Handler(7, 1, Exactly(5), {"power"}),
  Handler(7, 128, Exactly(5), {"time_indicator", "master_switch"}),
  Handler(8, 128, Exactly(7), {"countdown"}), Handler(9, 128, Exactly(5), {"chronograph"}),
  Handler(10, 128, Exactly(8), {"scoreboard"}), Handler(11, 128, {5, 6}, {"mic_type"}),
  Handler(12, 128, Exactly(5), {"joint"}), Handler(15, 128, Exactly(5), {"screen_timeout"})}

ChunkHandlers == {
  Handler(0, 0, AtLeast(9), {"diy_frame_chunk"}), Handler(0, 128, AtLeast(24), {"timer_chunk"}),
  Handler(1, 0, AtLeast(16), {"gif_chunk"}), Handler(5, 128, AtLeast(23), {"schedule_chunk"}),
  Handler(5, 1, {8 + 2 * n : n \in 0..255}, {"graffiti"})}

TextHandlers == {Handler(3, 0, AtLeast(16), {"text_chunk"})}
TextOrFreeze == TextHandlers \cup {Handler(3, 0, Exactly(4), {"freeze"})}
Handlers == SmallHandlers \cup ChunkHandlers \cup TextOrFreeze

(* The names classify_write() may give a write of this key and length; the    *)
(* effect's slices are told by their sub-header when no handler takes them.   *)
Classify(key, length, declared) ==
  LET named == UNION {h.names : h \in {g \in Handlers : g.key = key /\ length \in g.lengths}}
  IN  CASE named # {} -> named
        [] named = {} /\ length >= 9 /\ declared = length - 1 -> {"effect_subchunk"}
        [] OTHER -> {"unknown"}
=============================================================================
