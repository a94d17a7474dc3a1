----------------------------- MODULE BleDisplay -----------------------------
(***************************************************************************)
(* display/ble_display.py: the panel shows full frames only in DIY draw     *)
(* mode, and _diy_mode_enabled is the driver's belief that it is in it.     *)
(*                                                                         *)
(* The transport underneath is what BleTransport establishes of it: one     *)
(* command on the wire at a time, a lost link brought back by whoever       *)
(* writes or by supervision, a failed write retried on the new connection.  *)
(* asyncio runs what became ready in the order it did: ready is that queue. *)
(*                                                                         *)
(* An operator defined just before another one with the same parameters,   *)
(* and not used, is a faulty variant of it that the properties detect.     *)
(***************************************************************************)
EXTENDS Naturals, Sequences, FiniteSets

CONSTANTS Presenters,  \* tasks of the application that show frames
          Others,      \* tasks that send native commands on the same transport
          Nobody,      \* a free wire
          Dropped,     \* the pending on_disconnected notification
          Entries,     \* the entry policies set_entry_clear() is given
          MaxCalls,    \* bound: calls made
          MaxFaults,   \* bound: things that go wrong outside the process
          Faults       \* which of them may

Tasks == Presenters \cup Others

ASSUME TasksAssumption ==
  Presenters \cap Others = {} /\ Nobody \notin Tasks /\ Dropped \notin Tasks
ASSUME BoundsAssumption ==
  Entries \subseteq BOOLEAN /\ MaxCalls \in Nat /\ MaxFaults \in Nat

VARIABLES
  diy,         \* self._diy_mode_enabled
  entryClear,  \* self._entry_clear
  pc,          \* idle, or in the write of the DIY entry, a frame, a native command
  clear,       \* the entry each presenter sends is the clean one
  lock,        \* whose command the wire carries
  link,        \* up, down, or dead: reported up, but every write fails
  mode,        \* panel: does it show frames?
  trusted,     \* was the entry that set diy the one that always takes?
  ready,       \* tasks whose write has ended and notifications, in order
  disturbed,   \* history: presenters whose call saw the panel's mode taken away
  calls,       \* calls made
  faults       \* faults so far

vars == <<diy, entryClear, pc, clear, lock, link, mode, trusted, ready, disturbed, calls, faults>>

IsReady(x) == \E i \in 1..Len(ready) : ready[i] = x

TypeOK ==
  /\ diy \in BOOLEAN /\ entryClear \in BOOLEAN /\ trusted \in BOOLEAN
  /\ pc \in [Tasks -> {"idle", "entering", "showing", "native"}]
  /\ clear \in [Presenters -> BOOLEAN]
  /\ lock \in Tasks \cup {Nobody}
  /\ link \in {"up", "dead", "down"}
  /\ mode \in {"diy", "other"}
  /\ ready \in Seq(Tasks \cup {Dropped})
  /\ disturbed \subseteq Presenters
  /\ calls \in 0..MaxCalls /\ faults \in 0..MaxFaults
  /\ lock # Nobody => pc[lock] # "idle"
  /\ \A t \in Tasks : IsReady(t) => lock = t

Init ==
  /\ diy = FALSE /\ entryClear = TRUE /\ trusted = FALSE
  /\ pc = [t \in Tasks |-> "idle"]
  /\ clear = [t \in Presenters |-> TRUE]
  /\ lock = Nobody /\ link = "down" /\ mode = "other"
  /\ ready = <<>> /\ disturbed = {}
  /\ calls = 0 /\ faults = 0

Fault(kind) == kind \in Faults /\ faults < MaxFaults /\ faults' = faults + 1
Call(t) == pc[t] = "idle" /\ calls < MaxCalls /\ calls' = calls + 1

(* The panel has left DIY mode and the driver has not been told yet. *)
Unreported == IsReady(Dropped) \/ \E t \in Others : IsReady(t)

-----------------------------------------------------------------------------
(* BleDisplay *)

(* show_frame(), as far as the first write: _ensure_diy_mode()'s if needed. *)
FlagBeforeWrite(t) ==
  /\ Call(t)
  /\ disturbed' = IF Unreported THEN disturbed \cup {t} ELSE disturbed \ {t}
  /\ pc' = [pc EXCEPT ![t] = IF diy THEN "showing" ELSE "entering"]
  /\ clear' = [clear EXCEPT ![t] = entryClear]
  /\ diy' = TRUE /\ trusted' = entryClear
  /\ UNCHANGED <<entryClear, lock, link, mode, ready, faults>>
ShowFrame(t) ==
  /\ Call(t)
  /\ disturbed' = IF Unreported THEN disturbed \cup {t} ELSE disturbed \ {t}
  /\ \/ /\ diy
        /\ pc' = [pc EXCEPT ![t] = "showing"]
        /\ UNCHANGED clear
     \/ /\ ~diy
        /\ pc' = [pc EXCEPT ![t] = "entering"]
        /\ clear' = [clear EXCEPT ![t] = entryClear]
  /\ UNCHANGED <<diy, entryClear, lock, link, mode, trusted, ready, faults>>

SetEntryClear(policy) ==
  /\ calls < MaxCalls /\ calls' = calls + 1
  /\ entryClear' = policy
  /\ UNCHANGED <<diy, pc, clear, lock, link, mode, trusted, ready, disturbed, faults>>

(* A native text, clock or effect of another feature of the client. *)
Native(t) ==
  /\ Call(t)
  /\ pc' = [pc EXCEPT ![t] = "native"]
  /\ UNCHANGED <<diy, entryClear, clear, lock, link, mode, trusted, ready, disturbed, faults>>

(* The write of task t has ended: the wire is free, and t goes on. *)
Ends(t) ==
  /\ ready # <<>> /\ Head(ready) = t
  /\ ready' = Tail(ready)
  /\ lock' = Nobody
  /\ UNCHANGED <<entryClear, clear, link, mode, disturbed, calls, faults>>

(* _ensure_diy_mode() is over, and show_frame() goes on to the frame. *)
Entered(t) ==
  /\ pc[t] = "entering" /\ Ends(t)
  /\ diy' = TRUE /\ trusted' = clear[t]
  /\ pc' = [pc EXCEPT ![t] = "showing"]

FrameShown(t) ==
  /\ pc[t] = "showing" /\ Ends(t)
  /\ pc' = [pc EXCEPT ![t] = "idle"]
  /\ UNCHANGED <<diy, trusted>>

(* The embedder calls invalidate_diy_mode() as its native command returns. *)
NativeShown(t) ==
  /\ pc[t] = "native" /\ Ends(t)
  /\ diy' = FALSE
  /\ pc' = [pc EXCEPT ![t] = "idle"]
  /\ UNCHANGED trusted

OnDisconnected ==
  /\ ready # <<>> /\ Head(ready) = Dropped
  /\ ready' = Tail(ready)
  /\ diy' = FALSE
  /\ UNCHANGED <<entryClear, pc, clear, lock, link, mode, trusted, disturbed, calls, faults>>

-----------------------------------------------------------------------------
(* The transport *)

Writes(t) == pc[t] # "idle" /\ ~IsReady(t)

TakesWire(t) ==
  /\ Writes(t) /\ lock = Nobody /\ link # "down"
  /\ lock' = t
  /\ UNCHANGED <<diy, entryClear, pc, clear, link, mode, trusted, ready, disturbed, calls, faults>>

(* The panel takes the command and its response comes back. *)
Written(t) ==
  /\ Writes(t) /\ lock = t /\ link = "up"
  /\ ready' = Append(ready, t)
  /\ \/ /\ pc[t] = "entering"
        /\ mode' \in IF clear[t] THEN {"diy"} ELSE {"diy", mode}
        /\ UNCHANGED disturbed
     \/ pc[t] = "showing" /\ UNCHANGED <<mode, disturbed>>
     \/ pc[t] = "native" /\ mode' = "other" /\ disturbed' = Presenters
  /\ UNCHANGED <<diy, entryClear, pc, clear, lock, link, trusted, calls, faults>>

(* A write on a dead session fails, and the client is closed; whether bleak   *)
(* then calls its disconnected callback is up to the platform.                *)
SelfHeals(t) ==
  /\ Writes(t) /\ lock = t /\ link = "dead"
  /\ link' = "down"
  /\ disturbed' = Presenters
  /\ \/ ready' = Append(ready, Dropped) /\ UNCHANGED faults
     \/ Fault("mute") /\ UNCHANGED ready
  /\ UNCHANGED <<diy, entryClear, pc, clear, lock, mode, trusted, calls>>

(* connect(), by the reconnect loop or by whoever writes. *)
Reconnects ==
  /\ link = "down"
  /\ link' = "up" /\ mode' = "other"
  /\ UNCHANGED <<diy, entryClear, pc, clear, lock, trusted, ready, disturbed, calls, faults>>

(* It fails, and the write of task t raises. *)
RaiseLocked(t) ==
  /\ Writes(t) /\ link = "down" /\ Fault("connect")
  /\ pc' = [pc EXCEPT ![t] = "idle"]
  /\ UNCHANGED <<diy, entryClear, clear, lock, link, mode, trusted, ready, disturbed, calls>>
Raises(t) ==
  /\ Writes(t) /\ link = "down" /\ Fault("connect")
  /\ pc' = [pc EXCEPT ![t] = "idle"]
  /\ lock' = IF lock = t THEN Nobody ELSE lock
  /\ UNCHANGED <<diy, entryClear, clear, link, mode, trusted, ready, disturbed, calls>>

Drop ==
  /\ link # "down" /\ Fault("drop")
  /\ link' = "down"
  /\ ready' = Append(ready, Dropped)
  /\ disturbed' = Presenters
  /\ UNCHANGED <<diy, entryClear, pc, clear, lock, mode, trusted, calls>>

HostResumes ==
  /\ link = "up" /\ Fault("suspend")
  /\ link' = "dead"
  /\ UNCHANGED <<diy, entryClear, pc, clear, lock, mode, trusted, ready, disturbed, calls>>

-----------------------------------------------------------------------------
TaskStep(t) ==
  \/ TakesWire(t) \/ Written(t) \/ SelfHeals(t) \/ Raises(t)
  \/ Entered(t) \/ FrameShown(t) \/ NativeShown(t)

Finished ==
  /\ \A t \in Tasks : pc[t] = "idle"
  /\ ready = <<>> /\ UNCHANGED vars

Next ==
  \/ \E t \in Presenters : ShowFrame(t)
  \/ \E t \in Others : Native(t)
  \/ \E policy \in Entries : SetEntryClear(policy)
  \/ \E t \in Tasks : TaskStep(t)
  \/ OnDisconnected
  \/ Reconnects \/ Drop \/ HostResumes
  \/ Finished

Spec == Init /\ [][Next]_vars

-----------------------------------------------------------------------------
(* Properties *)

(* With the link up and nothing left to report, the driver believes in DIY    *)
(* mode only if the panel is in it: it never swallows frame after frame.      *)
FlagHonest ==
  link = "up" /\ ~Unreported /\ diy /\ trusted => mode = "diy"

(* A frame about to be written on a link that is up finds the panel in DIY    *)
(* mode, unless a drop or a native command came in since show_frame() began,  *)
(* whatever other presenters are doing.                                       *)
UndisturbedFrameLands ==
  \A t \in Presenters :
    pc[t] = "showing" /\ ~IsReady(t) /\ link = "up" /\ trusted /\ t \notin disturbed
      => mode = "diy"
=============================================================================
