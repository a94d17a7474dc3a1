---------------------------- MODULE BleTransport ----------------------------
(***************************************************************************)
(* transport/ble.py: one BleTransport on one asyncio event loop.           *)
(*                                                                         *)
(* A task runs without interruption from one await that really suspends to *)
(* the next, so every action below is one such stretch of code: pc[t] says *)
(* at which await task t is suspended.  asyncio.Lock is a FIFO lock: it is *)
(* taken without suspending when it is free and nobody queues for it.      *)
(*                                                                         *)
(* Each BleakClient that connect() builds is a generation 1, 2, 3, ...;    *)
(* client is the generation self._client holds, 0 for None.                *)
(*                                                                         *)
(* An operator defined just before another one with the same parameters,   *)
(* and not used, is a faulty variant of it that the properties detect.     *)
(***************************************************************************)
EXTENDS Naturals, Sequences, FiniteSets

CONSTANTS Callers,      \* tasks of the application, each in one API call at a time
          Loops,        \* slots for the _reconnect_loop() tasks
          NoTask,       \* an unheld lock, no reconnect task
          Pieces,       \* BLE writes per frame
          Api,          \* the API calls the application makes
          MaxClients,   \* bound: BleakClient objects built
          MaxCalls,     \* bound: API calls made
          MaxFaults,    \* bound: things that go wrong outside the process
          Faults        \* which of them may

Tasks == Callers \cup Loops

ASSUME TasksAssumption ==
  /\ Callers \cap Loops = {}
  /\ NoTask \notin Tasks
ASSUME BoundsAssumption ==
  /\ Pieces \in Nat \ {0}
  /\ MaxClients \in Nat
  /\ MaxCalls \in Nat
  /\ MaxFaults \in Nat

VARIABLES
  client,     \* self._client
  link,       \* what bleak reports of each generation
  sub,        \* whether client was subscribed to notifications
  macKnown,   \* self._mac_address is not None
  auto,       \* self._auto_reconnect
  armed,      \* self._reconnect_armed
  handle,     \* self._reconnect_task
  count,      \* self._reconnect_count
  connLock,   \* who holds self._connect_lock
  connQueue,  \* who waits for it, in order
  writeLock,  \* who holds self._write_lock
  writeQueue, \* who waits for it, in order
  writeSize,  \* self._write_size: the generation it was read from, 0 for None
  pc,         \* where each task is suspended
  gen,        \* the generation its pending bleak call was made on
  after,      \* what it does when connect() returns
  sized,      \* the generation whose write size it splits its frame by
  sent,       \* pieces of its frame the holder of writeLock has written
  cancelled,  \* tasks that will be thrown CancelledError when they next run
  callbacks,  \* _handle_disconnect calls scheduled
  last,       \* the last piece that reached the device
  calls,      \* API calls made
  faults,     \* faults so far
  stop        \* history: was the last word of the application a disconnect()?

linkVars   == <<client, link, sub, macKnown>>
superVars  == <<auto, armed, handle, count>>
connVars   == <<connLock, connQueue>>
writeVars  == <<writeLock, writeQueue, writeSize, sized, sent, last>>
taskVars   == <<pc, gen, after, cancelled>>
boundVars  == <<calls, faults, stop>>
vars == <<linkVars, superVars, connVars, writeVars, taskVars, callbacks, boundVars>>

Generations == 1..MaxClients

(* none: not built; new: connect() in flight; failed: it raised; up; unready: *)
(* connected but services unresolved; stale: reported connected, but dead.    *)
LinkStates == {"none", "new", "failed", "up", "unready", "stale", "down"}
Live == {"up", "unready", "stale"}

PcStates == {"idle",                                            \* in no call, or no such task
             "connWait", "discovering", "connecting", "subscribing", "notifying",
             "discWait", "disconnecting",
             "writeWait", "writing", "rewriting", "healing",
             "starting", "sleeping"}
Continuations == {"return", "send", "retry", "loop"}

Piece == [by : Tasks, n : 1..Pieces, on : 0..MaxClients]
NoPiece == [by |-> NoTask, n |-> 0, on |-> 0]

TypeOK ==
  /\ client \in 0..MaxClients
  /\ link \in [Generations -> LinkStates]
  /\ sub \in {"no", "yes", "refused"}
  /\ macKnown \in BOOLEAN /\ auto \in BOOLEAN /\ armed \in BOOLEAN
  /\ handle \in Loops \cup {NoTask}
  /\ count \in Nat
  /\ connLock \in Tasks \cup {NoTask} /\ connQueue \in Seq(Tasks)
  /\ writeLock \in Tasks \cup {NoTask} /\ writeQueue \in Seq(Tasks)
  /\ writeSize \in 0..MaxClients
  /\ pc \in [Tasks -> PcStates]
  /\ gen \in [Tasks -> 0..MaxClients]
  /\ after \in [Tasks -> Continuations]
  /\ sized \in [Tasks -> 0..MaxClients]
  /\ sent \in 0..(Pieces - 1)
  /\ cancelled \subseteq Loops
  /\ callbacks \in Nat
  /\ last \in Piece \cup {NoPiece}
  /\ calls \in 0..MaxCalls /\ faults \in 0..MaxFaults
  /\ stop \in {"no", "quiet", "raced"}

Init ==
  /\ client = 0
  /\ link = [g \in Generations |-> "none"]
  /\ sub = "no"
  /\ macKnown \in BOOLEAN /\ auto \in BOOLEAN
  /\ armed = FALSE
  /\ handle = NoTask
  /\ count = 0
  /\ connLock = NoTask /\ connQueue = <<>>
  /\ writeLock = NoTask /\ writeQueue = <<>>
  /\ writeSize = 0
  /\ pc = [t \in Tasks |-> "idle"]
  /\ gen = [t \in Tasks |-> 0]
  /\ after = [t \in Tasks |-> "return"]
  /\ sized = [t \in Tasks |-> 0]
  /\ sent = 0
  /\ cancelled = {} /\ callbacks = 0
  /\ last = NoPiece
  /\ calls = 0 /\ faults = 0
  /\ stop = "no"

-----------------------------------------------------------------------------
(* Small pieces of the code. lk is the link function the code sees.           *)

IsConnected(lk) == client # 0 /\ lk[client] \in Live
IsWriteReady(lk) == client # 0 /\ lk[client] \in {"up", "stale"}

(* asyncio.Lock.acquire() does not suspend. A cancelled waiter leaves the     *)
(* queue when it next runs.                                                   *)
NoLocking(holder, queue) == TRUE
LockFree(holder, queue) == holder = NoTask /\ queue = <<>>
Granted(t, holder, queue) == holder = NoTask /\ queue # <<>> /\ Head(queue) = t

(* Task t awaits something: where, on which generation, and what follows.     *)
Suspend(t, where, g, k) ==
  /\ pc' = [pc EXCEPT ![t] = where]
  /\ gen' = [gen EXCEPT ![t] = g]
  /\ after' = [after EXCEPT ![t] = k]

Return(t) == Suspend(t, "idle", 0, "return")

Running(l) == pc[l] # "idle"
NeverAlive == FALSE
LoopAlive == handle \in Loops /\ Running(handle)
Supervising(l) == Running(l) /\ l \notin cancelled

Fault(kind) == kind \in Faults /\ faults < MaxFaults /\ faults' = faults + 1

(* self._reconnect_task.cancel(); self._reconnect_task = None *)
CancelNone == cancelled' = cancelled \cup {handle} /\ handle' = NoTask
ForgetLoop == handle' = NoTask /\ UNCHANGED cancelled
CancelLoop ==
  /\ cancelled' = cancelled \cup {l \in Loops : l = handle /\ Running(l)}
  /\ handle' = NoTask

-----------------------------------------------------------------------------
(* Writing a frame: write_packets() once the link is ensured, _write_raw().   *)

ReleaseWriteLock(t) ==
  /\ writeLock' = NoTask
  /\ sized' = [sized EXCEPT ![t] = 0]
  /\ sent' = 0
  /\ UNCHANGED writeQueue

(* The next piece goes to whatever self._client is now. *)
WritePiece(t, where) == Suspend(t, where, client, "return")

(* _resolve_write_size(), then the write lock. Reading the size of a client   *)
(* whose services are not there raises to the caller.                         *)
BeginSend(t, lk) ==
  LET size == IF writeSize = 0 THEN client ELSE writeSize IN
  \/ /\ writeSize = 0 /\ ~IsWriteReady(lk)
     /\ Return(t)
     /\ UNCHANGED writeVars
  \/ /\ writeSize # 0 \/ IsWriteReady(lk)
     /\ writeSize' = size
     /\ sized' = [sized EXCEPT ![t] = size]
     /\ UNCHANGED last
     /\ \/ /\ LockFree(writeLock, writeQueue)
           /\ writeLock' = t /\ sent' = 0
           /\ WritePiece(t, "writing")
           /\ UNCHANGED writeQueue
        \/ /\ ~LockFree(writeLock, writeQueue)
           /\ writeQueue' = Append(writeQueue, t)
           /\ Suspend(t, "writeWait", 0, "return")
           /\ UNCHANGED <<writeLock, sent>>

-----------------------------------------------------------------------------
(* connect() and what its four callers do when it returns or raises.          *)

(* The while test of _reconnect_loop(). *)
LoopOnce(t, lk) == Return(t)
LoopAgain(t, lk) ==
  \/ armed /\ ~IsConnected(lk) /\ Suspend(t, "sleeping", 0, "loop")
  \/ ~(armed /\ ~IsConnected(lk)) /\ Return(t)

(* connect() returned to task t. *)
Resume(t, k, lk) ==
  \/ k = "return" /\ Return(t) /\ UNCHANGED <<count, writeVars>>
  \/ k = "send" /\ BeginSend(t, lk) /\ UNCHANGED count
  \/ k = "retry" /\ WritePiece(t, "rewriting") /\ UNCHANGED <<count, writeVars>>
  \/ /\ k = "loop"
     /\ count' = count + 1
     /\ LoopAgain(t, lk)
     /\ UNCHANGED writeVars

(* connect() raised in task t. *)
RaiseKeepingLock(t, k, lk) ==
  /\ \/ k \in {"return", "send", "retry"} /\ Return(t)
     \/ k = "loop" /\ LoopAgain(t, lk)
  /\ UNCHANGED <<count, writeVars>>
RaiseCounting(t, k, lk) ==
  /\ \/ k # "loop" /\ Return(t) /\ UNCHANGED count
     \/ k = "loop" /\ LoopAgain(t, lk) /\ count' = count + 1
  /\ UNCHANGED writeVars
Raise(t, k, lk) ==
  /\ \/ k \in {"return", "send"} /\ Return(t) /\ UNCHANGED writeVars
     \/ k = "retry" /\ Return(t) /\ ReleaseWriteLock(t) /\ UNCHANGED <<writeSize, last>>
     \/ k = "loop" /\ LoopAgain(t, lk) /\ UNCHANGED writeVars
  /\ UNCHANGED count

BuildClient(t, k, lk) ==
  /\ client < MaxClients
  /\ client' = client + 1
  /\ link' = [lk EXCEPT ![client + 1] = "new"]
  /\ sub' = "no"
  /\ Suspend(t, "connecting", client + 1, k)

(* The body of connect() from the moment it has the lock. *)
ConnectUnchecked(t, k, lk) ==
  /\ connLock' = t
  /\ BuildClient(t, k, lk)
  /\ UNCHANGED <<count, writeVars>>
LockedConnect(t, k, lk) ==
  \/ /\ IsConnected(lk)
     /\ link' = lk
     /\ Resume(t, k, lk)
     /\ UNCHANGED <<client, sub, connLock>>
  \/ /\ ~IsConnected(lk)
     /\ connLock' = t
     /\ \/ macKnown /\ BuildClient(t, k, lk)
        \/ ~macKnown /\ Suspend(t, "discovering", 0, k) /\ link' = lk /\ UNCHANGED <<client, sub>>
     /\ UNCHANGED <<count, writeVars>>

EnterConnect(t, k, lk) ==
  \/ /\ LockFree(connLock, connQueue)
     /\ LockedConnect(t, k, lk)
     /\ UNCHANGED connQueue
  \/ /\ ~LockFree(connLock, connQueue)
     /\ connQueue' = Append(connQueue, t)
     /\ Suspend(t, "connWait", 0, k)
     /\ link' = lk
     /\ UNCHANGED <<client, sub, connLock, count, writeVars>>

ConnectGranted(t) ==
  /\ pc[t] = "connWait" /\ t \notin cancelled
  /\ Granted(t, connLock, connQueue)
  /\ connQueue' = Tail(connQueue)
  /\ LockedConnect(t, after[t], link)
  /\ UNCHANGED <<macKnown, auto, armed, handle, cancelled, callbacks, boundVars>>

Discovered(t) ==
  /\ pc[t] = "discovering" /\ t \notin cancelled
  /\ macKnown' = TRUE
  /\ BuildClient(t, after[t], link)
  /\ UNCHANGED <<superVars, connVars, writeVars, cancelled, callbacks, boundVars>>

(* No device advertises, or the client's connect() raises: the lock is        *)
(* released and the exception goes to connect()'s caller.                     *)
ConnectFailed(t) ==
  /\ pc[t] \in {"discovering", "connecting"} /\ t \notin cancelled
  /\ Fault("connect")
  /\ LET lk == IF pc[t] = "connecting" THEN [link EXCEPT ![gen[t]] = "failed"] ELSE link
     IN link' = lk /\ Raise(t, after[t], lk)
  /\ connLock' = NoTask
  /\ UNCHANGED <<client, sub, macKnown, auto, armed, handle, connQueue, cancelled,
                 callbacks, calls, stop>>

ConnectedKeepingSize(t) ==
  /\ pc[t] = "connecting" /\ t \notin cancelled
  /\ link' = [link EXCEPT ![gen[t]] = "up"]
  /\ Suspend(t, "subscribing", gen[t], after[t])
  /\ UNCHANGED <<client, sub, macKnown, superVars, connVars, writeVars, cancelled, callbacks,
                 boundVars>>
Connected(t) ==
  /\ pc[t] = "connecting" /\ t \notin cancelled
  /\ link' = [link EXCEPT ![gen[t]] = "up"]
  /\ writeSize' = 0
  /\ Suspend(t, "subscribing", gen[t], after[t])
  /\ UNCHANGED <<client, sub, macKnown, superVars, connVars, writeLock, writeQueue,
                 sized, sent, last, cancelled, callbacks, boundVars>>

(* start_notify() ends, its errors swallowed; supervision is armed and the    *)
(* lock released.                                                             *)
Subscribed(t) ==
  /\ pc[t] = "subscribing" /\ t \notin cancelled
  /\ \/ link[client] = "up" /\ sub' = "yes" /\ UNCHANGED faults
     \/ link[client] # "up" /\ sub' = "refused" /\ UNCHANGED faults
     \/ link[client] = "up" /\ sub' = "refused" /\ Fault("notify")
  /\ armed' = auto
  /\ connLock' = NoTask
  /\ Suspend(t, "notifying", 0, after[t])
  /\ UNCHANGED <<client, link, macKnown, auto, handle, count, connQueue, writeVars,
                 cancelled, callbacks, calls, stop>>

(* The on_connected listeners have run; connect() returns. *)
Notified(t) ==
  /\ pc[t] = "notifying" /\ t \notin cancelled
  /\ Resume(t, after[t], link)
  /\ UNCHANGED <<linkVars, auto, armed, handle, connVars, cancelled, callbacks, boundVars>>

-----------------------------------------------------------------------------
(* What bleak does when a client's disconnect() is awaited: a dead session    *)
(* may close without the disconnected callback, and the call may raise.       *)
Closes(g, lk) ==
  \/ /\ link[g] \notin Live
     /\ lk = link
     /\ UNCHANGED <<callbacks, faults>>
  \/ /\ link[g] \in Live
     /\ lk = [link EXCEPT ![g] = "down"]
     /\ \/ callbacks' = callbacks + 1
        \/ link[g] # "up" /\ UNCHANGED callbacks
     /\ UNCHANGED faults
  \/ /\ link[g] \in Live
     /\ lk = link
     /\ Fault("close")
     /\ UNCHANGED callbacks

ClosedOrNot(g) == {link, [link EXCEPT ![g] = "down"]}

-----------------------------------------------------------------------------
(* disconnect() *)

LockedDisconnect(t) ==
  \/ /\ IsConnected(link)
     /\ connLock' = t
     /\ Suspend(t, "disconnecting", client, "return")
  \/ /\ ~IsConnected(link)
     /\ Return(t)
     /\ UNCHANGED connLock

DisconnectGranted(t) ==
  /\ pc[t] = "discWait"
  /\ Granted(t, connLock, connQueue)
  /\ connQueue' = Tail(connQueue)
  /\ LockedDisconnect(t)
  /\ UNCHANGED <<linkVars, superVars, writeVars, cancelled, callbacks, boundVars>>

Disconnected(t) ==
  /\ pc[t] = "disconnecting"
  /\ \E lk \in ClosedOrNot(gen[t]) : Closes(gen[t], lk) /\ link' = lk
  /\ connLock' = NoTask
  /\ Return(t)
  /\ UNCHANGED <<client, sub, macKnown, superVars, connQueue, writeVars, cancelled, calls, stop>>

-----------------------------------------------------------------------------
(* The write in flight, under the write lock. *)

WriteGranted(t) ==
  /\ pc[t] = "writeWait"
  /\ Granted(t, writeLock, writeQueue)
  /\ writeQueue' = Tail(writeQueue)
  /\ writeLock' = t /\ sent' = 0
  /\ WritePiece(t, "writing")
  /\ UNCHANGED <<linkVars, superVars, connVars, writeSize, sized, last, cancelled,
                 callbacks, boundVars>>

ThisPiece(t) == [by |-> t, n |-> sent + 1, on |-> gen[t]]

PieceWritten(t) ==
  /\ pc[t] \in {"writing", "rewriting"}
  /\ link[gen[t]] = "up"
  /\ last' = ThisPiece(t)
  /\ \/ /\ sent + 1 < Pieces
        /\ sent' = sent + 1
        /\ WritePiece(t, "writing")
        /\ UNCHANGED <<writeLock, writeQueue, sized>>
     \/ /\ sent + 1 = Pieces
        /\ ReleaseWriteLock(t)
        /\ Return(t)
  /\ UNCHANGED <<linkVars, superVars, connVars, writeSize, cancelled, callbacks, boundVars>>

(* The write raises, whether or not the piece got through. The first failure  *)
(* of a piece closes self._client and reconnects; the second gives up.        *)
PieceFailed(t) ==
  /\ pc[t] \in {"writing", "rewriting"}
  /\ \/ link[gen[t]] # "up" /\ UNCHANGED faults
     \/ link[gen[t]] = "up" /\ Fault("write")
  /\ \/ UNCHANGED last
     \/ link[gen[t]] \in {"up", "down"} /\ last' = ThisPiece(t)
  /\ \/ /\ pc[t] = "writing"
        /\ Suspend(t, "healing", client, "retry")
        /\ UNCHANGED <<writeLock, writeQueue, sized, sent>>
     \/ /\ pc[t] = "rewriting"
        /\ ReleaseWriteLock(t)
        /\ Return(t)
  /\ UNCHANGED <<linkVars, superVars, connVars, writeSize, cancelled, callbacks, calls, stop>>

(* _reconnect_for_readiness(): the client it read has closed; now connect().  *)
Healed(t) ==
  /\ pc[t] = "healing"
  /\ \E lk \in ClosedOrNot(gen[t]) :
        Closes(gen[t], lk) /\ EnterConnect(t, after[t], lk)
  /\ UNCHANGED <<macKnown, auto, armed, handle, cancelled, calls, stop>>

-----------------------------------------------------------------------------
(* Reconnect supervision *)

(* bleak's disconnected callback; it does not look at which client it is for. *)
HandleDisconnect ==
  /\ callbacks > 0
  /\ callbacks' = callbacks - 1
  /\ \/ /\ armed /\ ~LoopAlive
        /\ \E l \in Loops : /\ ~Running(l)
                            /\ handle' = l
                            /\ Suspend(l, "starting", 0, "loop")
     \/ /\ ~armed \/ LoopAlive
        /\ UNCHANGED <<handle, pc, gen, after>>
  /\ UNCHANGED <<linkVars, auto, armed, count, connVars, writeVars, cancelled, boundVars>>

LoopStarts(l) ==
  /\ pc[l] = "starting" /\ l \notin cancelled
  /\ LoopAgain(l, link)
  /\ UNCHANGED <<linkVars, superVars, connVars, writeVars, cancelled, callbacks, boundVars>>

LoopWakes(l) ==
  /\ pc[l] = "sleeping" /\ l \notin cancelled
  /\ \/ /\ ~armed
        /\ Return(l)
        /\ UNCHANGED <<client, link, sub, connVars, count, writeVars>>
     \/ armed /\ EnterConnect(l, "loop", link)
  /\ UNCHANGED <<macKnown, auto, armed, handle, cancelled, callbacks, boundVars>>

Without(queue, i) == SubSeq(queue, 1, i - 1) \o SubSeq(queue, i + 1, Len(queue))

(* CancelledError ends the loop wherever it is suspended. A connect it cuts   *)
(* short leaves the client closed, or connected without services.            *)
CancelledErrorThrown(l) ==
  /\ l \in cancelled
  /\ cancelled' = cancelled \ {l}
  /\ Return(l)
  /\ \/ pc[l] = "connecting" /\ \E s \in {"failed", "unready"} : link' = [link EXCEPT ![gen[l]] = s]
     \/ pc[l] # "connecting" /\ UNCHANGED link
  /\ \/ /\ pc[l] = "connWait"
        /\ \E i \in 1..Len(connQueue) :
              connQueue[i] = l /\ connQueue' = Without(connQueue, i)
     \/ pc[l] # "connWait" /\ UNCHANGED connQueue
  /\ connLock' = IF connLock = l THEN NoTask ELSE connLock
  /\ UNCHANGED <<client, sub, macKnown, superVars, writeVars, callbacks, boundVars>>

-----------------------------------------------------------------------------
(* The application *)

Calls(kind) == kind \in Api /\ calls < MaxCalls /\ calls' = calls + 1
Call(t, kind) == ~Running(t) /\ Calls(kind)

Connect(t) ==
  /\ Call(t, "connect")
  /\ stop' = "no"
  /\ EnterConnect(t, "return", link)
  /\ UNCHANGED <<macKnown, auto, armed, handle, cancelled, callbacks, faults>>

Disconnect(t) ==
  /\ Call(t, "disconnect")
  /\ stop' = IF \A u \in Callers : pc[u] \in {"idle", "discWait", "disconnecting"}
             THEN "quiet" ELSE "raced"
  /\ armed' = FALSE
  /\ CancelLoop
  /\ \/ /\ LockFree(connLock, connQueue)
        /\ LockedDisconnect(t)
        /\ UNCHANGED connQueue
     \/ /\ ~LockFree(connLock, connQueue)
        /\ connQueue' = Append(connQueue, t)
        /\ Suspend(t, "discWait", 0, "return")
        /\ UNCHANGED connLock
  /\ UNCHANGED <<linkVars, auto, count, writeVars, callbacks, faults>>

(* write_packets(), starting with _ensure_connected(). *)
Write(t) ==
  /\ Call(t, "write")
  /\ stop' = "no"
  /\ \/ ~IsConnected(link) /\ EnterConnect(t, "send", link)
     \/ /\ IsConnected(link) /\ ~IsWriteReady(link)
        /\ Suspend(t, "healing", client, "send")
        /\ UNCHANGED <<client, link, sub, connVars, count, writeVars>>
     \/ /\ IsWriteReady(link)
        /\ BeginSend(t, link)
        /\ UNCHANGED <<client, link, sub, connVars, count>>
  /\ UNCHANGED <<macKnown, auto, armed, handle, cancelled, callbacks, faults>>

(* set_auto_reconnect() is not async: it runs to its end at once. *)
SetAutoReconnect(enabled) ==
  /\ Calls("auto")
  /\ auto' = enabled
  /\ \/ /\ enabled
        /\ armed' = IsConnected(link)
        /\ stop' = "no"
        /\ UNCHANGED <<handle, cancelled>>
     \/ /\ ~enabled
        /\ armed' = FALSE
        /\ CancelLoop
        /\ UNCHANGED stop
  /\ UNCHANGED <<linkVars, count, connVars, writeVars, pc, gen, after, callbacks, faults>>

-----------------------------------------------------------------------------
(* The world outside *)

Drop(g) ==
  /\ link[g] \in {"up", "unready"}
  /\ Fault("drop")
  /\ link' = [link EXCEPT ![g] = "down"]
  /\ callbacks' = callbacks + 1
  /\ UNCHANGED <<client, sub, macKnown, superVars, connVars, writeVars, taskVars, calls, stop>>

(* The host sleeps and resumes: the client still says it is connected. *)
HostResumes(g) ==
  /\ link[g] = "up"
  /\ Fault("suspend")
  /\ \E s \in {"stale", "unready"} : link' = [link EXCEPT ![g] = s]
  /\ UNCHANGED <<client, sub, macKnown, superVars, connVars, writeVars, taskVars,
                 callbacks, calls, stop>>

-----------------------------------------------------------------------------
(* One step of a task that is inside a call. *)
TaskStep(t) ==
  \/ ConnectGranted(t) \/ Discovered(t) \/ ConnectFailed(t) \/ Connected(t)
  \/ Subscribed(t) \/ Notified(t)

CallerStep(t) ==
  \/ TaskStep(t)
  \/ DisconnectGranted(t) \/ Disconnected(t)
  \/ WriteGranted(t) \/ PieceWritten(t) \/ PieceFailed(t) \/ Healed(t)

LoopStep(l) ==
  \/ TaskStep(l)
  \/ LoopStarts(l) \/ LoopWakes(l) \/ CancelledErrorThrown(l)

Application ==
  \/ \E t \in Callers : Connect(t) \/ Disconnect(t) \/ Write(t)
  \/ \E enabled \in BOOLEAN : SetAutoReconnect(enabled)

World == \E g \in Generations : Drop(g) \/ HostResumes(g)

(* The application may stop calling, and then nothing is left to do. *)
Finished ==
  /\ \A t \in Tasks : ~Running(t)
  /\ callbacks = 0
  /\ UNCHANGED vars

Next ==
  \/ Application
  \/ World
  \/ \E t \in Callers : CallerStep(t)
  \/ \E l \in Loops : LoopStep(l)
  \/ HandleDisconnect
  \/ Finished

Spec == Init /\ [][Next]_vars

(* The event loop runs every ready task and callback, timers fire, and every  *)
(* bleak call ends one way or the other.                                      *)
Fairness ==
  /\ \A t \in Callers : WF_vars(CallerStep(t))
  /\ \A l \in Loops : WF_vars(LoopStep(l))
  /\ WF_vars(HandleDisconnect)

FairSpec == Spec /\ Fairness

-----------------------------------------------------------------------------
(* Safety *)

(* A BleakClient that connect() replaces is never left connected behind       *)
(* self._client, whoever else connects, heals or drops meanwhile.             *)
OneLiveLink == \A g \in Generations : link[g] \in Live => g = client

(* connect() awaits its client's connect() and then subscribes self._client:  *)
(* nobody has put another client there in between.                            *)
ClientNotSwapped ==
  \A t \in Tasks : pc[t] \in {"connecting", "subscribing"} => gen[t] = client

(* At most one _reconnect_loop() works, and it is the one that disconnect()   *)
(* and set_auto_reconnect(False) would cancel.                                *)
OneSupervisor == \A l \in Loops : Supervising(l) => l = handle

(* After set_auto_reconnect(False) nothing is armed and no loop goes on, even *)
(* one that was in the middle of connecting, until it is enabled again.       *)
DisabledIsOff == ~auto => ~armed /\ \A l \in Loops : ~Supervising(l)

(* After a disconnect() made while no other task was inside connect() or      *)
(* write(), nothing is armed and no loop goes on until the next call.         *)
QuietDisconnect == stop = "quiet" => ~armed /\ \A l \in Loops : ~Supervising(l)

(* reconnect_count never exceeds the number of links established after the    *)
(* first one.                                                                 *)
CountsRealReconnects ==
  count > 0 => count < Cardinality({g \in Generations : link[g] \in Live \cup {"down"}})

(* The write size in the cache was read from the very link that is up, by     *)
(* whichever task first wrote on it, or nothing is cached (ble.py:216, 451):  *)
(* a frame that begins is cut for the link it begins on.                      *)
CachedSizeIsCurrent == IsWriteReady(link) => writeSize \in {0, client}

-----------------------------------------------------------------------------
(* Refinement: the write lock makes the wire carry one command at a time.     *)

Wire == INSTANCE CommandWire WITH
  Senders <- Tasks, Nobody <- NoTask, sender <- writeLock, pos <- sent,
  last <- [by |-> last.by, n |-> last.n]

(* The pieces of two commands never mix on the wire, across self-healing      *)
(* reconnects, retries and links replaced under a writer.                     *)
OneCommandAtATime == Wire!Spec

-----------------------------------------------------------------------------
(* Liveness *)

(* No call hangs: connect() and disconnect() take one lock, a write takes it  *)
(* while holding the other when it heals itself.                              *)
EveryCallReturns == \A t \in Callers : Running(t) ~> ~Running(t)

(* A loop that supervises a lost link brings it back, unless disarmed.        *)
OutageEnds ==
  armed /\ ~IsConnected(link) /\ (\E l \in Loops : Supervising(l))
    ~> IsConnected(link) \/ ~armed

-----------------------------------------------------------------------------
(* What the repository says, and this code does not do *)

(* ble.py:224, "Disconnects and stops reconnect supervision until the next    *)
(* connect()": once disconnect() and every call made before it have returned, *)
(* no loop reconnects.                                                        *)
DisconnectStopsSupervision ==
  stop # "no" /\ (\A t \in Callers : ~Running(t)) => \A l \in Loops : ~Supervising(l)

(* ble.py:118, "transparently reconnect after an unexpected drop": when no    *)
(* call or callback is pending, an armed link that is down has a loop at work.*)
DroppedLinkIsWatched ==
  /\ armed /\ ~IsConnected(link)
  /\ callbacks = 0 /\ \A t \in Callers : ~Running(t)
  => \E l \in Loops : Supervising(l)

(* ble.py:237-238, "Enabling while connected arms supervision immediately;    *)
(* disabling disarms it and cancels any in-flight reconnect loop": only       *)
(* disabling and disconnect() disarm a supervision whose loop is at work.     *)
EnablingNeverDisarms ==
  [][armed /\ ~armed' /\ (\E l \in Loops : Supervising(l)) => ~auto' \/ stop' # "no"]_vars

(* ble.py:216, "re-read from the new connection", and ble.py:280-281, "if     *)
(* this connection negotiated a smaller write size, packets are re-split      *)
(* here": a piece written on a link that is up is cut for that link.          *)
FrameSizedForItsLink ==
  \A t \in Tasks : pc[t] \in {"writing", "rewriting"} /\ link[gen[t]] = "up" => sized[t] = gen[t]
=============================================================================
