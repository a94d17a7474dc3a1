---------------------------- MODULE ProbesDrawing ----------------------------
(* The probes of effects, graffiti, the smaller commands and what the panel     *)
(* commits to its flash, and the examples.                                     *)
EXTENDS ProbeOps

LOCAL INSTANCE SequencesExt

Shows(n) == FlattenSeq([i \in 1..n |-> Show])
GuardedShows(n, body) == FlattenSeq([i \in 1..n |-> Shielded(body)])

-----------------------------------------------------------------------------
(* probe_effect_*.py: the length and speed bytes of an effect                  *)

LengthByteMain == Client(Shielded(Clock) \o GuardedShows(4, Show) \o Clock)
LengthByte2Main ==
  Client(Shielded(Use \o Clock)
         \o FlattenSeq([i \in 1..7 |-> Shielded(Show) \o Shielded(Clock)]) \o Clock)
SpeedSweepMain == Client(Shielded(Use \o Clock) \o Many(Shielded(Show \o Show)) \o Clock)

EffectSetSpeedMain == Client(Show \o Use \o Use \o Use \o Clock)
EffectSpeedMain == Client(Shows(3) \o Clock)
EffectSpeed2Main == Client(Shows(3) \o Clock)

-----------------------------------------------------------------------------
(* probe_capability_sweep*.py: only an answer that says no lets a sweep go on. *)

Guarded(call) == Try({"rejected"}, call, <<>>)

Sweep1Main ==
  Client(Guarded(Set("flip")) \o Guarded(Reset("flip")) \o Guarded(Use) \o Guarded(Show)
         \o Guarded(Set("chrono")) \o Guarded(Use)
         \o Guarded(Set("countdown")) \o Guarded(Reset("countdown"))
         \o Guarded(Show) \o Guarded(Clock))
Sweep2Main ==
  Client(Guarded(Set("flip")) \o Guarded(Reset("flip")) \o Guarded(Set("chrono")) \o Guarded(Clock)
         \o Guarded(Show) \o Guarded(Show) \o Guarded(Use) \o Guarded(Use) \o Guarded(Clock))
Sweep3Main ==
  Client(Clock \o Guarded(Set("eco")) \o Guarded(Reset("eco")) \o Guarded(Use) \o Guarded(Use)
         \o Guarded(Use) \o Many(Guarded(Show)) \o Guarded(Use) \o Guarded(Show) \o Guarded(Show) \o Clock)

ChronographCleanMain == Client(Set("chrono") \o Use \o Set("chrono") \o Clock)

-----------------------------------------------------------------------------
(* probe_graffiti_*.py                                                        *)

Byte3FinalMain == Client(Show \o Shows(5) \o Clock)
Byte3StateMain == Client(Show \o Many(Show) \o Clock)
Byte3State2Main == Client(Show \o Shows(4) \o Clock)
Byte4EraseMain == Client(Shows(6) \o Clock)
MovementMain == Client(Show \o Show \o Many(Show) \o Many(Show) \o Clock)
TransformMain == Client(Many(Show \o Show) \o Clock)
Transform2Main == Client(Many(Show \o Show) \o Clock)

(* On bleak's own connection, and the squares stay.                           *)
MovetypeMain == Client(Use \o Show \o Shows(5) \o Use)
Movetype2Main == Client(Show \o Shows(4))
Movetype3Main == Client(Show \o Shows(4))

(* The first pixels name a parameter that set_pixels() no longer has, and a    *)
(* constant that is gone: the probe ends there.                               *)
MirrorMain == OwnConnection(Show \o Raise("error"))

-----------------------------------------------------------------------------
(* probe_p19_*.py: the clock's styles, the answers to set_time, and when the    *)
(* panel commits what it shows.                                               *)

G3Main == Client(Finally(Many(Shielded(Show)), Shielded(Clock)))

G4Send(send) == Shielded(send)
G4Jumps == G4Send(Set("rtc")) \o G4Send(Set("rtc")) \o G4Send(Set("rtc"))
G4Armed == G4Send(Set("master")) \o G4Send(Set("rtc")) \o G4Send(Set("theme0")) \o G4Jumps
G4Control == G4Send(Reset("theme0")) \o G4Send(Reset("theme1")) \o G4Send(Reset("master")) \o G4Jumps
G4Cleanup ==
  Shielded(Reset("rtc")) \o Shielded(Reset("theme0")) \o Shielded(Reset("theme1"))
  \o Shielded(Reset("master")) \o Shielded(Clock)
G4Main ==
  Client(Finally(G4Send(Clock) \o OneOf({G4Armed \o G4Control, G4Armed, G4Control}), G4Cleanup))

(* The reading is void, and the run over, when the link does not come back.    *)
Reconnect == Reset("link") \o Set("link")
OrVoid == Maybe(Raise("return"))

G5OwnDelayed == Function(Client(Show \o Reconnect \o OrVoid))
G5Main == OneOf({G5OwnDelayed, Function(Client(Reconnect \o OrVoid))})

G7Main == Function(Client(Show \o OrVoid \o Reconnect \o OrVoid \o Show \o Reconnect \o OrVoid \o Clock))

G8Main == Function(OwnConnection(Maybe(Reconnect \o OrVoid) \o Show))
G9Main == OwnConnection(Show)

(* SystemExit is no Exception: it ends the process, through the finally.        *)
Quit == Raise("exit")
WatchAdverts(body) == Set("scanner") \o Finally(body, Reset("scanner"))
G10Main == WatchAdverts(Use \o Maybe(Quit) \o Use \o Maybe(Quit) \o Use \o Maybe(Quit))
G11Main == OwnConnection(Show) \o WatchAdverts(Use \o Maybe(Quit) \o Use \o Maybe(Quit))

G12Baseline == Use \o Maybe(Quit)
G12ShortPost == Function(OwnConnection(Show) \o OrVoid \o Use \o Maybe(Quit))
(* The power cut takes the link; disconnect() is called only when none comes.   *)
G12LiveCut == Set("link") \o Show \o OneOf({Reset("link") \o Quit, Reset("link")})
G12Main == WatchAdverts(G12Baseline \o OneOf({G12ShortPost, G12LiveCut}))

-----------------------------------------------------------------------------
(* examples/*.py                                                              *)

ResolveDevice == Maybe(Use \o Maybe(Quit))
DiscoverMain == ResolveDevice \o Client(Clock)
ShowImageMain == ResolveDevice \o Client(Show \o Show)
AnimationMain == ResolveDevice \o Client(Many(Show))
PixelsMain == ResolveDevice \o Client(Show \o Show \o Show \o Show)
GifUploadMain ==
  ResolveDevice \o Function(Client(Try({"error"}, Show, Raise("return")) \o Clock \o Show))

DemoCountdown == Set("countdown") \o Use \o Reset("countdown")
DemoChronograph == Reset("chrono") \o Set("chrono") \o Use \o Set("chrono")
DemoScoreboard == Show
DemoText == Show
WidgetsMain ==
  ResolveDevice
  \o Client(DemoCountdown \o DemoChronograph \o DemoScoreboard \o Maybe(DemoText) \o Clock)

ClockAtTheEnd(body) == Script(body, Keeps({"screen"}, "clean"))
AsItIs(body) == Script(body, Keeps({}, "clean"))

DrawingScripts == [
  effect_length_byte |-> Script(LengthByteMain, Keeps({"screen"}, "errors")),
  effect_length_byte2 |-> Script(LengthByte2Main, Keeps({"screen"}, "errors")),
  effect_speed_sweep |-> Script(SpeedSweepMain, Keeps({"screen"}, "errors")),
  effect_set_speed |-> ClockAtTheEnd(EffectSetSpeedMain),
  effect_speed |-> ClockAtTheEnd(EffectSpeedMain),
  effect_speed2 |-> ClockAtTheEnd(EffectSpeed2Main),
  capability_sweep1 |-> Script(Sweep1Main, Keeps({"flip", "countdown", "screen"}, "clean")),
  capability_sweep2 |-> Script(Sweep2Main, Keeps({"flip", "screen"}, "clean")),
  capability_sweep3 |-> Script(Sweep3Main, Keeps({"eco", "screen"}, "clean")),
  chronograph_clean |-> ClockAtTheEnd(ChronographCleanMain),
  graffiti_byte3_final |-> ClockAtTheEnd(Byte3FinalMain),
  graffiti_byte3_state |-> ClockAtTheEnd(Byte3StateMain),
  graffiti_byte3_state2 |-> ClockAtTheEnd(Byte3State2Main),
  graffiti_byte4_erase |-> ClockAtTheEnd(Byte4EraseMain),
  graffiti_movement |-> ClockAtTheEnd(MovementMain),
  graffiti_transform |-> ClockAtTheEnd(TransformMain),
  graffiti_transform2 |-> ClockAtTheEnd(Transform2Main),
  graffiti_movetype |-> AsItIs(MovetypeMain),
  graffiti_movetype2 |-> AsItIs(Movetype2Main),
  graffiti_movetype3 |-> AsItIs(Movetype3Main),
  graffiti_mirror |-> AsItIs(MirrorMain),
  p19_g3 |-> Script(G3Main, Keeps({"screen"}, "always")),
  p19_g4 |-> Script(G4Main, Keeps({"rtc", "theme0", "theme1", "master", "screen"}, "always")),
  p19_g5 |-> AsItIs(G5Main),
  p19_g7 |-> AsItIs(G7Main),
  p19_g8 |-> AsItIs(G8Main),
  p19_g9 |-> AsItIs(G9Main),
  p19_g10 |-> Script(G10Main, Keeps({"scanner"}, "clean")),
  p19_g11 |-> Script(G11Main, Keeps({"scanner"}, "clean")),
  p19_g12 |-> Script(G12Main, Keeps({"scanner"}, "clean")),
  example_discover |-> ClockAtTheEnd(DiscoverMain),
  example_image |-> AsItIs(ShowImageMain),
  example_animation |-> AsItIs(AnimationMain),
  example_pixels |-> AsItIs(PixelsMain),
  example_gif |-> AsItIs(GifUploadMain),
  example_widgets |-> Script(WidgetsMain, Keeps({"countdown", "screen"}, "clean"))]
=============================================================================
