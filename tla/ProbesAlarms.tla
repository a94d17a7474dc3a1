---------------------------- MODULE ProbesAlarms ----------------------------
(* The probes of schedules and alarms, which set the panel's clock to times     *)
(* that are not and arm slots that outlast the script.                         *)
EXTENDS ProbeOps

LOCAL INSTANCE SequencesExt

Slots == {"slot0", "slot1"}

-----------------------------------------------------------------------------
(* probe_p5_schedule.py and probe_p5b_window_boundary.py.  A theme is disarmed *)
(* by uploading it with no day.                                               *)

P5Label == Show \o Clock
P5SetDate == Set("date")
P5SetRtc == Set("rtc")

P5Phases == <<
  P5Label \o P5SetRtc \o Set("theme0"),
  P5Label \o P5SetRtc,
  P5Label \o P5SetRtc \o Set("theme0") \o P5SetRtc \o P5SetRtc,
  P5Label \o P5SetRtc \o Set("theme1")>>

P5Setup == Shielded(Use \o Clock) \o Shielded(Set("master"))

(* The clock goes back first, each step in a try of its own.                  *)
P5Cleanup ==
  Shielded(Reset("rtc")) \o Shielded(Reset("theme0")) \o Shielded(Reset("theme1"))
  \o Shielded(Reset("master")) \o Shielded(Clock)

P5Main == Client(Finally(P5Setup \o FlattenSeq([i \in 1..4 |-> Shielded(P5Phases[i])]), P5Cleanup))

P5bCleanup == Shielded(Reset("rtc")) \o Shielded(Reset("theme0")) \o Shielded(Reset("master")) \o Shielded(Clock)
P5bMain ==
  Client(Finally(
    P5Setup \o Shielded(P5Label) \o Shielded(P5SetRtc \o Set("theme0")) \o Shielded(P5SetRtc),
    P5bCleanup))

-----------------------------------------------------------------------------
(* probe_p6_alarms.py: two alarms.  `armed` notes an alarm when arm() returned, *)
(* after its upload and the two seconds its answers have.                     *)

P6Arm(slot) == Set(slot)
P6Append(slot) == Note(slot)
P6ArmAppend(slot) == P6Arm(slot) \o P6Append(slot)
P6Label == Show \o Clock
P6Base == P6Label \o Set("rtc")
P6Setup == Shielded(Use \o Clock)

P6ArmBoth == P6ArmAppend("slot0") \o P6ArmAppend("slot1")
P6Q3 == P6Base \o P6ArmBoth \o Reset("slot0")
P6Default == Shielded(P6Base \o P6ArmBoth) \o Shielded(P6Base \o P6ArmBoth) \o Shielded(P6Q3)

P6CloseArmed == IfNoted("slot0", Shielded(Reset("slot0"))) \o IfNoted("slot1", Shielded(Reset("slot1")))
P6Restored(close) == Shielded(Reset("rtc")) \o close \o Shielded(Clock)

P6Run(body, close) == Client(Finally(body, P6Restored(close)))

(* `check` is run after an `arm`, and makes its own list of what that armed.   *)
P6Check == P6Run(P6Base \o P6Append("slot0") \o P6Append("slot1"), P6CloseArmed)
P6Modes == [
  default |-> P6Run(P6Setup \o P6Default, P6CloseArmed),
  q3 |-> P6Run(P6Setup \o P6Q3, P6CloseArmed),
  collide_colour |-> P6Run(P6Setup \o P6Base \o P6ArmBoth, P6CloseArmed),
  collide_order |-> P6Run(P6Setup \o P6Base \o P6ArmAppend("slot1") \o P6ArmAppend("slot0"), P6CloseArmed),
  arm_check |-> Process(P6Run(P6Setup \o P6Base \o P6ArmBoth, <<>>)) \o Forget("slot0") \o Forget("slot1") \o P6Check]

-----------------------------------------------------------------------------
(* The first probes of alarms and schedules; only those with their own         *)
(* connection disconnect in a finally, and none disarms in one.                *)

(* probe_timer_weekbit.py *)
WeekbitArmAndWait == Set("slot0") \o Reset("slot0")
WeekbitMain ==
  Client(Reset("rtc") \o WeekbitArmAndWait \o Set("rtc") \o WeekbitArmAndWait
         \o Set("rtc") \o WeekbitArmAndWait \o Reset("rtc") \o Clock)

(* probe_timer_image.py: an upload the panel refuses ends the probe.           *)
TimerImageMain ==
  OwnConnection(Function(Try({"rejected"}, Set("slot0"), Raise("return")) \o Reset("slot0")))

(* probe_timer_close.py, probe_schedule_master_switch.py, probe_schedule_gif.py *)
TimerCloseMain == OwnConnection(Reset("slot0"))
MasterSwitchMain == OwnConnection(Reset("master") \o Set("master") \o Reset("master") \o Set("master"))
ScheduleGifMain ==
  OwnConnection(Set("master") \o Function(Try({"rejected"}, Set("theme0"), Raise("return"))))

(* probe_content_image_and_recolor.py *)
ContentImageMain ==
  Client(Reset("rtc") \o Set("slot0") \o Show \o Show \o Show \o Show \o Reset("slot0") \o Clock)

(* probe_verify_password.py: await_device_ack() refuses the command's key      *)
(* before it sends (AckWait).                                                 *)
VerifyPasswordMain == OwnConnection(Raise("error"))

(* _reset_once.py *)
ResetOnceMain == Client(Use)

AlarmScripts == [
  p5 |-> Script(P5Main, Keeps({"rtc", "theme0", "theme1", "master", "screen"}, "always")),
  p5b |-> Script(P5bMain, Keeps({"rtc", "theme0", "master", "screen"}, "always")),
  p6_default |-> Script(P6Modes.default, [Keeps(Slots \cup {"rtc", "screen"}, "always")
                                            EXCEPT !.slot0 = "clean", !.slot1 = "clean"]),
  p6_q3 |-> Script(P6Modes.q3, Keeps({"rtc", "screen"}, "always")),
  p6_collide_colour |-> Script(P6Modes.collide_colour, Keeps({"rtc", "screen"}, "always")),
  p6_collide_order |-> Script(P6Modes.collide_order, Keeps({"rtc", "screen"}, "always")),
  p6_arm_check |-> Script(P6Modes.arm_check, [Keeps(Slots \cup {"rtc", "screen"}, "always")
                                                EXCEPT !.slot0 = "clean", !.slot1 = "clean"]),
  timer_weekbit |-> Script(WeekbitMain, Keeps({"slot0", "rtc", "screen"}, "clean")),
  timer_image |-> Script(TimerImageMain, Keeps({"slot0"}, "clean")),
  timer_close |-> Script(TimerCloseMain, Keeps({"slot0"}, "clean")),
  master_switch |-> Script(MasterSwitchMain, Keeps({}, "clean")),
  schedule_gif |-> Script(ScheduleGifMain, Keeps({}, "clean")),
  content_image |-> Script(ContentImageMain, Keeps({"slot0", "rtc", "screen"}, "clean")),
  verify_password |-> Script(VerifyPasswordMain, Keeps({}, "clean")),
  reset_once |-> Script(ResetOnceMain, Keeps({}, "clean"))]
=============================================================================
