------------------------------ MODULE ProbeOps ------------------------------
(***************************************************************************)
(* The words the scripts under probes/ and examples/ are written in.  Such a *)
(* script connects to a panel, changes its settings to see what happens and  *)
(* is meant to put them back.  A setting is neutral or disturbed; a script    *)
(* is a sequence of items: commands to the panel, notes on the host, and the *)
(* try, finally and loops around them.                                      *)
(*                                                                         *)
(* Settings: "screen" (the clock is neutral), "power", "flip", "bright",    *)
(* "eco", "rtc" (the panel's clock), "slot0" and on (alarms), "theme0" and   *)
(* on (schedules), "master" (the schedules' switch), "countdown", "chrono",  *)
(* "link" (neutral when disconnected), "scanner", "base" (the upload that is  *)
(* to be the stored one).                                                   *)
(***************************************************************************)
EXTENDS Sequences

Item(do, of, body, after) == <<[do |-> do, of |-> of, body |-> body, after |-> after]>>

(* One awaited call: a command that changes no setting, or that changes one.  *)
Use == Item("use", {}, {}, <<>>)
Set(s) == Item("set", {s}, {}, <<>>)
Reset(s) == Item("reset", {s}, {}, <<>>)
Show == Set("screen")
Clock == Reset("screen")

(* What the script remembers on the host: nothing is awaited.                 *)
Note(s) == Item("note", {s}, {}, <<>>)
Forget(s) == Item("forget", {s}, {}, <<>>)
IfNoted(s, body) == Item("if_noted", {s}, {body}, <<>>)

(* "return", "break" and the exceptions a script raises of itself.            *)
Raise(kind) == Item("raise", {kind}, {}, <<>>)

(* One of several ways to go on, and a loop of any number of rounds.          *)
OneOf(bodies) == Item("choose", {}, bodies, <<>>)
Maybe(body) == OneOf({<<>>, body})
Many(body) == Item("many", {}, {body}, <<>>)

(* try: body  except kinds: handler;  try: body  finally: cleanup.            *)
Try(kinds, body, handler) == Item("try", kinds, {body}, handler)
Finally(body, cleanup) == Item("finally", {}, {body}, cleanup)

(* What `except Exception` catches; a Ctrl-C is not among it.                 *)
Errors == {"error", "rejected"}
Shielded(body) == Try(Errors, body, <<>>)

(* The end of a function, of a loop and of the process.                       *)
Function(body) == Try({"return"}, body, <<>>)
Loop(body) == Try({"break"}, Many(body), <<>>)
Process(body) == Try(Errors \cup {"interrupt", "return"}, body, <<>>)

(* async with IDotMatrixClient.connect_to(...): __aenter__() connects outside *)
(* of what __aexit__() disconnects.                                           *)
Client(body) == Set("link") \o Finally(body, Reset("link"))

(* A script that connects itself, and disconnects in a finally.                *)
OwnConnection(body) == Set("link") \o Finally(body, Reset("link"))

(* A script, and what it keeps: how strong its promise is to leave a setting  *)
(* neutral.                                                                   *)
(*   always   unless putting it back failed, or was itself interrupted        *)
(*   cleanup  unless something of its cleanup failed or was interrupted       *)
(*   errors   unless putting it back failed, or the script was interrupted    *)
(*   clean    unless something failed or was interrupted                      *)
Script(body, keeps) == [body |-> body, keeps |-> keeps]

(* A connect() that fails half-way may leave the link to the end of the        *)
(* process (BleTransport): no script promises more of it.                     *)
Keeps(settings, promise) == [s \in settings \cup {"link"} |-> IF s = "link" THEN "clean" ELSE promise]
=============================================================================
