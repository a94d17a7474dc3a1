---------------------------- MODULE ProbesStreams ----------------------------
(* The probes of streams, acknowledgements, the timers' screens and links.     *)
EXTENDS ProbeOps

LOCAL INSTANCE SequencesExt

Each(bodies) == FlattenSeq([i \in DOMAIN bodies |-> Shielded(bodies[i])])

-----------------------------------------------------------------------------
(* probe_p4_streaming_endurance.py: steps of paced frames and graffiti         *)

(* A step ends with its time, or at the first write that fails.               *)
P4RunStep == Loop(Try(Errors, Show, Raise("break")))

P4WarmUp == Show

(* The first step that degraded, and one that raised counts as such, is the    *)
(* last.                                                                      *)
P4Phase == Loop(Try(Errors, P4RunStep, Raise("break")) \o Maybe(Raise("break")))
P4Main == Client(Finally(P4WarmUp \o P4Phase, Shielded(Clock)))

(* probe_p4b_post_stream_write.py: the first write after a stream              *)
P4bStream == Many(Show)
P4bProbeWrite(write) == Shielded(write) \o Use
P4bConfirm == P4bStream \o P4bProbeWrite(Clock)
P4bGraffiti == P4bStream \o P4bProbeWrite(Show) \o P4bProbeWrite(Clock)
P4bMain ==
  Client(OneOf({P4bConfirm \o P4bConfirm \o P4bConfirm \o P4bConfirm, P4bGraffiti}) \o Shielded(Clock))

-----------------------------------------------------------------------------
(* probe_p7_odds_and_ends.py, probe_p7b_timer_state_unlabelled.py              *)

P7Label == Show
P7PowerRestore == P7Label \o Show \o Set("power") \o Reset("power")
P7WhileOff == P7Label \o Clock \o Set("power") \o Set("bright") \o Clock \o Show \o Reset("power")

(* Each step in a try of its own, the three resets and the clock too.         *)
P7Step(call) == P7Label \o call
P7TimerStateMachine ==
  Each(<<P7Step(Set("countdown")), P7Step(Use), P7Step(Set("chrono")), P7Step(Use), P7Step(Use),
         P7Step(Reset("chrono"))>>)
  \o Each(<<Reset("countdown"), Reset("chrono"), Use, Clock>>)

P7ColorPersistence == P7Label \o Show \o Reset("link") \o Set("link")

(* The end is not in a finally: a Ctrl-C skips it.                            *)
P7Main ==
  Client(Shielded(Use \o Clock)
         \o Each(<<P7PowerRestore, P7WhileOff, P7TimerStateMachine, P7ColorPersistence>>)
         \o Shielded(Reset("bright") \o Clock))

P7bMain ==
  Client(Set("countdown") \o Use \o Set("chrono") \o Reset("chrono") \o Clock)

-----------------------------------------------------------------------------
(* probe_p14_ack_timing.py: how long the answer of each family takes           *)

P14Measure(send) == send
REPEATS == 5
P14RunFamily(send) == Shielded(Show) \o FlattenSeq([i \in 1..REPEATS |-> Shielded(P14Measure(send))])
P14Families == <<Set("bright"), Use, Show, Show, Clock, Show, Show>>
P14Main ==
  Client(Shielded(Use \o Clock)
         \o FlattenSeq([i \in DOMAIN P14Families |-> P14RunFamily(P14Families[i])])
         \o Clock)

-----------------------------------------------------------------------------
(* probe_p1_followups.py: an effect's speed byte, the music screen's stream    *)

P1StreamRhythm == Many(Show)
P1Effect == Show
P1Main ==
  Client(Each(<<P1Effect, P1Effect, P1Effect, Clock,
                P1StreamRhythm, Show \o P1StreamRhythm, Show>>) \o Clock)

(* probe_p2b_terminal_status.py: the status an upload ends with                *)
P2bUpload == Shielded(Show)
P2bMain == Client(Many(P2bUpload))

(* probe_screen_timeout.py: the connection is made in the script itself        *)
ScreenTimeoutMain == Set("link") \o Finally(Use \o Use, Reset("link"))

(* probe_boundary_sweep.py: values at and past the ends of their ranges        *)
SweepBrightness == Show \o FlattenSeq([i \in 1..5 |-> Shielded(Set("bright"))]) \o Reset("bright")
SweepColors == Show \o Show \o Show \o Show
SweepCountdown == Set("countdown") \o Set("countdown") \o Reset("countdown")
SweepScoreboard == Show \o Show
SweepGraffiti == Show
SweepMain ==
  Client(Each(<<SweepBrightness, SweepColors, SweepCountdown, SweepScoreboard, SweepGraffiti>>) \o Clock)

StreamScripts == [
  p4 |-> Script(P4Main, Keeps({"screen"}, "always")),
  p4b |-> Script(P4bMain, Keeps({"screen"}, "clean")),
  p7 |-> Script(P7Main, [Keeps({"power", "bright", "screen", "countdown", "chrono"}, "clean")
                           EXCEPT !.countdown = "errors", !.chrono = "errors"]),
  p7b |-> Script(P7bMain, Keeps({"chrono", "screen"}, "clean")),
  p14 |-> Script(P14Main, Keeps({"screen"}, "errors")),
  p1 |-> Script(P1Main, Keeps({"screen"}, "errors")),
  p2b |-> Script(P2bMain, Keeps({}, "clean")),
  screen_timeout |-> Script(ScreenTimeoutMain, Keeps({}, "clean")),
  boundary_sweep |-> Script(SweepMain, Keeps({"screen", "bright", "countdown"}, "clean"))]
=============================================================================
