--------------------------- MODULE ProbesSettings ---------------------------
(* The probes of what the panel keeps: power, flip, brightness and eco.        *)
EXTENDS ProbeOps

LOCAL INSTANCE SequencesExt

-----------------------------------------------------------------------------
(* probe_p11_persistence.py: which states survive a disconnect or power cycle *)

P11Setters == [
  clock |-> Clock, diy |-> Show, color |-> Show, gif |-> Show, text |-> Show, effect |-> Show,
  flip |-> Set("flip") \o Clock,
  brightness |-> Show \o Set("bright"),
  eco |-> Show \o Reset("bright") \o Set("eco"),
  power |-> Clock \o Set("power"),
  combo |-> Set("flip") \o Set("bright") \o Show]

P11Rows == DOMAIN P11Setters
P11Automated == P11Rows \ {"combo"}
P11PowerCycled == P11Rows \ {"power"}

P11Neutralize == Reset("power") \o Reset("flip") \o Reset("bright") \o Reset("eco") \o Clock
P11InterruptBle == Reset("link") \o Set("link")
P11InterruptPower == Set("power") \o Reset("power")

P11Row(row) ==
  Shielded(P11Neutralize \o P11Setters[row] \o P11InterruptBle
           \o IF row \in P11PowerCycled THEN P11InterruptPower ELSE <<>>)

P11RunAutomated ==
  OneOf({Shielded(Clock), Shielded(Use)})
  \o Maybe(Shielded(OneOf({P11InterruptBle, P11InterruptPower})))
  \o Finally(Many(OneOf({P11Row(row) : row \in P11Automated})), Shielded(P11Neutralize))

(* The record for the next run is written only when the state was reached.    *)
P11RunSet(row) ==
  Try(Errors, P11Neutralize \o P11Setters[row], Shielded(P11Neutralize) \o Raise("error"))
  \o Note("handoff") \o IF row = "eco" THEN Note("eco_armed") ELSE <<>>

P11RunCheck == IfNoted("eco_armed", Shielded(Reset("eco")))

P11RecoverAtTheEnd == Show \o P11InterruptBle \o Show \o P11InterruptBle \o Shielded(P11Neutralize)
P11ShadowRecover ==
  Finally(Show \o P11InterruptBle \o Show \o P11InterruptBle, Shielded(P11Neutralize))

P11Main(body) == Process(Client(body))

(* One run of the probe, or the runs of a `set`, which leaves its state to the *)
(* two after it: load_handoff() refuses a `check` without a record.           *)
P11Modes == [
  auto |-> P11Main(P11RunAutomated),
  shadow_recover |-> P11Main(P11ShadowRecover),
  set_check |-> P11Main(OneOf({P11RunSet(row) : row \in P11Rows}))
                \o IfNoted("handoff", P11Main(P11RunCheck)),
  set_restore |-> P11Main(OneOf({P11RunSet(row) : row \in P11Rows})) \o P11Main(P11Neutralize)]

P11Neutral == {"power", "flip", "bright", "eco", "screen"}

(* The preamble's power cycle is before the try whose finally neutralizes.    *)
P11AutoKeeps == [Keeps(P11Neutral, "cleanup") EXCEPT !.power = "errors"]

-----------------------------------------------------------------------------
(* probe_p17_brightness_eco.py and probe_p17b_eco_isolation.py                *)

RestoreEach(resets) == FlattenSeq([i \in DOMAIN resets |-> Shielded(resets[i])])

P17Label == Show
P17StepBrightness == OneOf({Set("bright"), Reset("bright")})
P17ModePhase(enter) ==
  P17Label \o Reset("bright") \o enter \o Set("bright") \o Set("bright") \o enter \o Reset("bright")

P17PartA ==
  Shielded(Show)
  \o FlattenSeq([phase \in 1..4 |-> Shielded(P17ModePhase(IF phase = 4 THEN Clock ELSE Show))])

(* No phase of part B is shielded; it stops before it when the eco window      *)
(* would pass midnight.                                                       *)
P17PartB ==
  Maybe(P17Label \o Clock \o Reset("bright")
        \o P17Label \o Clock \o Set("eco")
        \o P17Label \o Clock \o Reset("eco")
        \o P17Label \o Clock \o Set("eco") \o Reset("bright")
        \o P17Label \o Clock \o Reset("link") \o Set("link")
        \o Set("power") \o Reset("power"))

P17Restore == RestoreEach(<<Reset("eco"), Reset("bright"), Clock>>)
P17Main == Client(Finally(Shielded(Use \o Clock) \o P17PartA \o P17PartB, P17Restore))

P17bWhite(bright) == bright \o Show
P17bWhiteWithEco(eco) == Show \o eco
P17bClockWithEco(eco) == eco \o Clock

P17bPhases == <<
  P17bWhite(Reset("bright")), P17bWhite(Set("bright")), P17bWhite(Set("bright")), P17bWhite(Reset("bright")),
  P17bWhiteWithEco(Set("eco")), P17bWhiteWithEco(Reset("eco")),
  P17bWhiteWithEco(Set("eco")), P17bWhiteWithEco(Reset("eco")),
  P17bClockWithEco(Reset("eco")), P17bClockWithEco(Set("eco")),
  P17bClockWithEco(Reset("eco")), P17bClockWithEco(Reset("eco")),
  P17bWhite(Reset("bright")), P17bWhite(Set("bright")), P17bWhite(Set("bright")), P17bWhite(Set("bright"))>>

P17bModes == [full |-> [i \in 1..12 |-> i], colour |-> <<9, 10, 11, 12>>, lowlight |-> <<13, 14, 15, 16>>]

REPIN_AFTER_PHASE == 6
P17bRunPhase(number) ==
  Shielded(Show \o P17bPhases[number])
  \o IF number = REPIN_AFTER_PHASE THEN Shielded(Reset("bright")) ELSE <<>>

P17bRestoreAtOnce == Shielded(Reset("eco") \o Reset("bright") \o Clock)
P17bRestore == RestoreEach(<<Reset("eco"), Reset("bright"), Clock>>)
P17bMain(mode) ==
  LET numbers == P17bModes[mode]
  IN  Client(Finally(Shielded(Use \o Reset("eco") \o Reset("bright") \o Show)
                       \o FlattenSeq([i \in DOMAIN numbers |-> P17bRunPhase(numbers[i])]),
                       P17bRestore))

-----------------------------------------------------------------------------
(* probe_brightness_curve.py: two ladders, told apart by an alarm's buzzer     *)

CurveRung == Show \o OneOf({Set("bright"), Reset("bright")}) \o Show
CurveLadder == Many(Shielded(CurveRung))

(* The alarm is noted before it is sent.                                      *)
NoteAfterArming == Set("slot0") \o Note("slot0") \o Set("rtc") \o Shielded(Reset("slot0"))
CurveBuzz == Note("slot0") \o Set("slot0") \o Set("rtc") \o Shielded(Reset("slot0"))

CurveIntermission ==
  Shielded(CurveBuzz)
  \o Shielded(Set("countdown") \o Reset("countdown"))
  \o Shielded(CurveBuzz)
  \o Shielded(Reset("rtc"))

CurveRestore ==
  Shielded(Reset("rtc")) \o IfNoted("slot0", Shielded(Reset("slot0")))
  \o RestoreEach(<<Reset("countdown"), Reset("bright"), Clock>>)

CurveMain ==
  Client(Finally(Shielded(Use \o Reset("bright") \o Show)
                   \o CurveLadder \o CurveIntermission \o CurveLadder,
                   CurveRestore))

SettingsScripts == [
  p11_auto |-> Script(P11Modes.auto, P11AutoKeeps),
  p11_shadow_recover |-> Script(P11Modes.shadow_recover, Keeps(P11Neutral, "cleanup")),
  p11_set_check |-> Script(P11Modes.set_check, Keeps({"eco"}, "clean")),
  p11_set_restore |-> Script(P11Modes.set_restore, Keeps(P11Neutral, "clean")),
  p17 |-> Script(P17Main, Keeps({"eco", "bright", "screen"}, "always")),
  p17b_full |-> Script(P17bMain("full"), Keeps({"eco", "bright", "screen"}, "always")),
  p17b_colour |-> Script(P17bMain("colour"), Keeps({"eco", "bright", "screen"}, "always")),
  p17b_lowlight |-> Script(P17bMain("lowlight"), Keeps({"eco", "bright", "screen"}, "always")),
  brightness_curve |-> Script(CurveMain, Keeps({"rtc", "slot0", "countdown", "bright", "screen"}, "always"))]
=============================================================================
