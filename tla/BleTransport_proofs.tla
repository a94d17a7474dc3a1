------------------------- MODULE BleTransport_proofs ------------------------
(***************************************************************************)
(* Proofs about BleTransport, for any number of callers, loops, calls,     *)
(* faults and clients.                                                     *)
(***************************************************************************)
EXTENDS BleTransport, TLAPS

USE TasksAssumption, BoundsAssumption

-----------------------------------------------------------------------------
(* Types *)

(* What connect() and whatever follows it in the same stretch may assign. *)
TaskTyped ==
  /\ pc' \in [Tasks -> PcStates]
  /\ gen' \in [Tasks -> 0..MaxClients]
  /\ after' \in [Tasks -> Continuations]

WriteTyped ==
  /\ writeLock' \in Tasks \cup {NoTask} /\ writeQueue' \in Seq(Tasks)
  /\ writeSize' \in 0..MaxClients
  /\ sized' \in [Tasks -> 0..MaxClients]
  /\ sent' \in 0..(Pieces - 1)
  /\ last' \in Piece \cup {NoPiece}

ConnectTyped ==
  /\ client' \in 0..MaxClients
  /\ link' \in [Generations -> LinkStates]
  /\ sub' \in {"no", "yes", "refused"}
  /\ count' \in Nat
  /\ connLock' \in Tasks \cup {NoTask}
  /\ TaskTyped /\ WriteTyped

LEMMA SuspendType ==
  ASSUME TypeOK, NEW t \in Tasks, NEW where \in PcStates, NEW g \in 0..MaxClients,
         NEW k \in Continuations, Suspend(t, where, g, k)
  PROVE  TaskTyped
  BY DEF TypeOK, Suspend, TaskTyped

LEMMA ReturnType ==
  ASSUME TypeOK, NEW t \in Tasks, Return(t)
  PROVE  TaskTyped
<1>1. "idle" \in PcStates /\ "return" \in Continuations /\ 0 \in 0..MaxClients
  BY DEF PcStates, Continuations
<1> QED
  BY <1>1, SuspendType DEF Return

LEMMA WritePieceType ==
  ASSUME TypeOK, NEW t \in Tasks, NEW where \in {"writing", "rewriting"}, WritePiece(t, where)
  PROVE  TaskTyped
<1>1. where \in PcStates /\ "return" \in Continuations /\ client \in 0..MaxClients
  BY DEF PcStates, Continuations, TypeOK
<1> QED
  BY <1>1, SuspendType DEF WritePiece

LEMMA UnchangedWriteType ==
  ASSUME TypeOK, UNCHANGED writeVars
  PROVE  WriteTyped
  BY DEF TypeOK, WriteTyped, writeVars

LEMMA LoopAgainType ==
  ASSUME TypeOK, NEW t \in Tasks, NEW lk, LoopAgain(t, lk)
  PROVE  TaskTyped
<1>1. "sleeping" \in PcStates /\ "loop" \in Continuations /\ 0 \in 0..MaxClients
  BY DEF PcStates, Continuations
<1> QED
  BY <1>1, SuspendType, ReturnType DEF LoopAgain

LEMMA BeginSendType ==
  ASSUME TypeOK, NEW t \in Tasks, NEW lk, BeginSend(t, lk)
  PROVE  TaskTyped /\ WriteTyped
<1>1. CASE Return(t) /\ UNCHANGED writeVars
  BY <1>1, ReturnType, UnchangedWriteType
<1>2. CASE ~(Return(t) /\ UNCHANGED writeVars)
  <2>1. PICK size \in 0..MaxClients :
          /\ writeSize' = size /\ sized' = [sized EXCEPT ![t] = size] /\ UNCHANGED last
          /\ \/ /\ writeLock' = t /\ sent' = 0 /\ WritePiece(t, "writing")
                /\ UNCHANGED writeQueue
             \/ /\ writeQueue' = Append(writeQueue, t)
                /\ Suspend(t, "writeWait", 0, "return")
                /\ UNCHANGED <<writeLock, sent>>
    BY <1>2 DEF BeginSend, TypeOK
  <2>2. WriteTyped
    <3>. writeQueue \in Seq(Tasks) /\ writeLock \in Tasks \cup {NoTask}
      BY DEF TypeOK
    <3>1. writeQueue' \in Seq(Tasks) /\ writeLock' \in Tasks \cup {NoTask}
      <4>1. writeQueue' \in {writeQueue, Append(writeQueue, t)} /\ writeLock' \in {writeLock, t}
        BY <2>1
      <4> QED
        BY <4>1
    <3>2. sent' \in 0..(Pieces - 1)
      BY <2>1 DEF TypeOK, BoundsAssumption
    <3> QED
      BY <2>1, <3>1, <3>2 DEF TypeOK, WriteTyped
  <2>3. "writeWait" \in PcStates /\ "return" \in Continuations /\ 0 \in 0..MaxClients
    BY DEF PcStates, Continuations
  <2> QED
    BY <2>1, <2>2, <2>3, WritePieceType, SuspendType
<1> QED
  BY <1>1, <1>2

LEMMA ResumeType ==
  ASSUME TypeOK, NEW t \in Tasks, NEW k, NEW lk, Resume(t, k, lk)
  PROVE  TaskTyped /\ WriteTyped /\ count' \in Nat
<1>1. count' \in Nat
  BY DEF Resume, TypeOK
<1> QED
  BY <1>1, ReturnType, BeginSendType, WritePieceType, LoopAgainType, UnchangedWriteType
  DEF Resume

LEMMA RaiseType ==
  ASSUME TypeOK, NEW t \in Tasks, NEW k, NEW lk, Raise(t, k, lk)
  PROVE  TaskTyped /\ WriteTyped /\ count' \in Nat
<1>1. count' \in Nat
  BY DEF Raise, TypeOK
<1>2. ReleaseWriteLock(t) /\ UNCHANGED <<writeSize, last>> => WriteTyped
  BY DEF ReleaseWriteLock, WriteTyped, TypeOK
<1> QED
  BY <1>1, <1>2, ReturnType, LoopAgainType, UnchangedWriteType DEF Raise

LEMMA BuildClientType ==
  ASSUME TypeOK, NEW t \in Tasks, NEW k \in Continuations,
         NEW lk \in [Generations -> LinkStates], BuildClient(t, k, lk)
  PROVE  /\ client' \in 0..MaxClients /\ link' \in [Generations -> LinkStates]
         /\ sub' \in {"no", "yes", "refused"} /\ TaskTyped
<1>1. client + 1 \in 0..MaxClients
  BY DEF BuildClient, TypeOK
<1>2. "connecting" \in PcStates /\ "new" \in LinkStates
  BY DEF PcStates, LinkStates
<1>3. TaskTyped
  BY <1>1, <1>2, SuspendType DEF BuildClient
<1> QED
  BY <1>1, <1>2, <1>3 DEF BuildClient

LEMMA LockedConnectType ==
  ASSUME TypeOK, NEW t \in Tasks, NEW k \in Continuations,
         NEW lk \in [Generations -> LinkStates], LockedConnect(t, k, lk)
  PROVE  ConnectTyped
<1>1. CASE IsConnected(lk)
  <2>1. link' = lk /\ Resume(t, k, lk) /\ UNCHANGED <<client, sub, connLock>>
    BY <1>1 DEF LockedConnect
  <2> QED
    BY <2>1, ResumeType DEF ConnectTyped, TypeOK
<1>2. CASE ~IsConnected(lk)
  <2>1. /\ connLock' = t /\ UNCHANGED count
        /\ \/ BuildClient(t, k, lk)
           \/ Suspend(t, "discovering", 0, k) /\ link' = lk /\ UNCHANGED <<client, sub>>
    BY <1>2 DEF LockedConnect
  <2>2. WriteTyped
    BY <1>2, UnchangedWriteType DEF LockedConnect
  <2>3. "discovering" \in PcStates /\ 0 \in 0..MaxClients
    BY DEF PcStates
  <2> QED
    BY <2>1, <2>2, <2>3, BuildClientType, SuspendType DEF ConnectTyped, TypeOK
<1> QED
  BY <1>1, <1>2

LEMMA EnterConnectType ==
  ASSUME TypeOK, NEW t \in Tasks, NEW k \in Continuations,
         NEW lk \in [Generations -> LinkStates], EnterConnect(t, k, lk)
  PROVE  ConnectTyped /\ connQueue' \in Seq(Tasks)
<1>1. CASE LockFree(connLock, connQueue)
  BY <1>1, LockedConnectType DEF EnterConnect, TypeOK
<1>2. CASE ~LockFree(connLock, connQueue)
  <2>1. /\ connQueue' = Append(connQueue, t) /\ Suspend(t, "connWait", 0, k)
        /\ link' = lk /\ UNCHANGED <<client, sub, connLock, count, writeVars>>
    BY <1>2 DEF EnterConnect
  <2>2. "connWait" \in PcStates /\ 0 \in 0..MaxClients
    BY DEF PcStates
  <2> QED
    BY <2>1, <2>2, SuspendType, UnchangedWriteType DEF ConnectTyped, TypeOK
<1> QED
  BY <1>1, <1>2

LEMMA ClosesType ==
  ASSUME TypeOK, NEW g \in 0..MaxClients, NEW lk \in ClosedOrNot(g), Closes(g, lk)
  PROVE  /\ lk \in [Generations -> LinkStates]
         /\ callbacks' \in Nat /\ faults' \in 0..MaxFaults
<1>1. "down" \in LinkStates
  BY DEF LinkStates
<1>2. lk \in [Generations -> LinkStates]
  BY <1>1 DEF ClosedOrNot, TypeOK
<1>3. callbacks' \in Nat
  BY DEF Closes, TypeOK
<1>4. faults' \in 0..MaxFaults
  BY DEF Closes, TypeOK, Fault
<1> QED
  BY <1>2, <1>3, <1>4

LEMMA AfterType ==
  ASSUME TypeOK, NEW t \in Tasks
  PROVE  after[t] \in Continuations /\ gen[t] \in 0..MaxClients
  BY DEF TypeOK

LEMMA TypeInit == Init => TypeOK
<1> SUFFICES ASSUME Init PROVE TypeOK
  OBVIOUS
<1>1. "none" \in LinkStates /\ "idle" \in PcStates /\ "return" \in Continuations
  BY DEF LinkStates, PcStates, Continuations
<1>2. 0 \in 0..MaxClients /\ 0 \in 0..(Pieces - 1) /\ 0 \in 0..MaxCalls /\ 0 \in 0..MaxFaults
  BY DEF BoundsAssumption
<1>3. /\ link \in [Generations -> LinkStates]
      /\ pc \in [Tasks -> PcStates]
      /\ after \in [Tasks -> Continuations]
      /\ gen \in [Tasks -> 0..MaxClients] /\ sized \in [Tasks -> 0..MaxClients]
  BY <1>1, <1>2 DEF Init
<1>4. connQueue \in Seq(Tasks) /\ writeQueue \in Seq(Tasks)
  BY DEF Init
<1> QED
  BY <1>2, <1>3, <1>4 DEF Init, TypeOK

(* A task inside connect(), which callers and loops have in common. *)
LEMMA TaskStepType ==
  ASSUME TypeOK, NEW t \in Tasks, TaskStep(t)
  PROVE  TypeOK'
<1> USE AfterType
<1>1. CASE ConnectGranted(t)
  <2>1. connQueue' \in Seq(Tasks)
    BY <1>1 DEF ConnectGranted, Granted, TypeOK
  <2>2. ConnectTyped
    BY <1>1, LockedConnectType DEF ConnectGranted, TypeOK
  <2> QED
    BY <1>1, <2>1, <2>2
    DEF ConnectGranted, TypeOK, ConnectTyped, TaskTyped, WriteTyped, boundVars
<1>2. CASE Discovered(t)
  <2>1. /\ client' \in 0..MaxClients /\ link' \in [Generations -> LinkStates]
        /\ sub' \in {"no", "yes", "refused"} /\ TaskTyped
    BY <1>2, BuildClientType DEF Discovered, TypeOK
  <2>2. /\ macKnown' = TRUE
        /\ UNCHANGED <<superVars, connVars, writeVars, cancelled, callbacks, boundVars>>
    BY <1>2 DEF Discovered
  <2> QED
    BY <2>1, <2>2 DEF TypeOK, TaskTyped, superVars, connVars, writeVars, boundVars
<1>3. CASE ConnectFailed(t)
  <2>1. link' \in [Generations -> LinkStates]
    BY <1>3 DEF ConnectFailed, TypeOK, LinkStates
  <2>2. TaskTyped /\ WriteTyped /\ count' \in Nat
    BY <1>3, RaiseType DEF ConnectFailed
  <2>3. faults' \in 0..MaxFaults
    BY <1>3 DEF ConnectFailed, Fault, TypeOK
  <2>4. /\ connLock' = NoTask
        /\ UNCHANGED <<client, sub, macKnown, auto, armed, handle, connQueue, cancelled, callbacks,
                       calls, stop>>
    BY <1>3 DEF ConnectFailed
  <2> QED
    BY <2>1, <2>2, <2>3, <2>4 DEF TypeOK, TaskTyped, WriteTyped
<1>4. CASE Connected(t)
  <2>1. TaskTyped
    BY <1>4, SuspendType DEF Connected, PcStates
  <2>2. link' \in [Generations -> LinkStates]
    BY <1>4 DEF Connected, TypeOK, LinkStates
  <2>3. /\ writeSize' = 0
        /\ UNCHANGED <<client, sub, macKnown, superVars, connVars, writeLock, writeQueue, sized, sent,
                       last, cancelled, callbacks, boundVars>>
    BY <1>4 DEF Connected
  <2> QED
    BY <2>1, <2>2, <2>3 DEF TypeOK, TaskTyped, superVars, connVars, boundVars
<1>5. CASE Subscribed(t)
  <2>1. TaskTyped
    BY <1>5, SuspendType DEF Subscribed, PcStates
  <2>2. faults' \in 0..MaxFaults
    BY <1>5 DEF Subscribed, Fault, TypeOK
  <2>3. /\ sub' \in {"yes", "refused"} /\ armed' = auto /\ connLock' = NoTask
        /\ UNCHANGED <<client, link, macKnown, auto, handle, count, connQueue, writeVars, cancelled,
                       callbacks, calls, stop>>
    BY <1>5 DEF Subscribed
  <2> QED
    BY <2>1, <2>2, <2>3 DEF TypeOK, TaskTyped, writeVars
<1>6. CASE Notified(t)
  <2>1. TaskTyped /\ WriteTyped /\ count' \in Nat
    BY <1>6, ResumeType DEF Notified
  <2>2. UNCHANGED <<linkVars, auto, armed, handle, connVars, cancelled, callbacks, boundVars>>
    BY <1>6 DEF Notified
  <2> QED
    BY <2>1, <2>2 DEF TypeOK, TaskTyped, WriteTyped, linkVars, connVars, boundVars
<1> QED
  BY <1>1, <1>2, <1>3, <1>4, <1>5, <1>6 DEF TaskStep

LEMMA CallerStepType ==
  ASSUME TypeOK, NEW t \in Callers, CallerStep(t)
  PROVE  TypeOK'
<1> t \in Tasks
  BY DEF Tasks
<1>1. CASE TaskStep(t)
  BY <1>1, TaskStepType
<1>2. CASE DisconnectGranted(t)
  <2>1. connQueue' \in Seq(Tasks)
    BY <1>2 DEF DisconnectGranted, Granted, TypeOK
  <2>2. TaskTyped /\ connLock' \in Tasks \cup {NoTask}
    BY <1>2, SuspendType, ReturnType
    DEF DisconnectGranted, LockedDisconnect, TypeOK, PcStates, Continuations
  <2>3. UNCHANGED <<linkVars, superVars, writeVars, cancelled, callbacks, boundVars>>
    BY <1>2 DEF DisconnectGranted
  <2> QED
    BY <2>1, <2>2, <2>3, ZenonT(40) DEF TypeOK, TaskTyped, linkVars, superVars, writeVars, boundVars
<1>3. CASE Disconnected(t)
  <2>1. /\ link' \in [Generations -> LinkStates]
        /\ callbacks' \in Nat /\ faults' \in 0..MaxFaults
    BY <1>3, AfterType, ClosesType DEF Disconnected
  <2>2. TaskTyped
    BY <1>3, ReturnType DEF Disconnected
  <2>3. connLock' \in Tasks \cup {NoTask}
    BY <1>3 DEF Disconnected
  <2>4. UNCHANGED <<client, sub, macKnown, superVars, connQueue, writeVars, cancelled, calls, stop>>
    BY <1>3 DEF Disconnected
  <2> QED
    BY <2>1, <2>2, <2>3, <2>4, ZenonT(40) DEF TypeOK, TaskTyped, superVars, writeVars
<1>4. CASE WriteGranted(t)
  <2>1. writeQueue' \in Seq(Tasks)
    BY <1>4 DEF WriteGranted, Granted, TypeOK
  <2>2. TaskTyped /\ sent' \in 0..(Pieces - 1)
    BY <1>4, WritePieceType DEF WriteGranted, BoundsAssumption
  <2>3. /\ writeLock' = t
        /\ UNCHANGED <<linkVars, superVars, connVars, writeSize, sized, last, cancelled, callbacks,
                       boundVars>>
    BY <1>4 DEF WriteGranted
  <2> QED
    BY <2>1, <2>2, <2>3, ZenonT(40) DEF TypeOK, TaskTyped, linkVars, superVars, connVars, boundVars
<1>5. ASSUME ReleaseWriteLock(t)
      PROVE  /\ writeLock' \in Tasks \cup {NoTask} /\ writeQueue' \in Seq(Tasks)
             /\ sized' \in [Tasks -> 0..MaxClients] /\ sent' \in 0..(Pieces - 1)
  BY <1>5 DEF ReleaseWriteLock, TypeOK
<1>6. ThisPiece(t) \in Piece
  BY DEF ThisPiece, Piece, TypeOK
<1>7. CASE PieceWritten(t)
  <2>1. TaskTyped
    BY <1>7, WritePieceType, ReturnType DEF PieceWritten
  <2>2. /\ writeLock' \in Tasks \cup {NoTask} /\ writeQueue' \in Seq(Tasks)
        /\ sized' \in [Tasks -> 0..MaxClients] /\ sent' \in 0..(Pieces - 1)
    BY <1>7, <1>5 DEF PieceWritten, TypeOK
  <2>3. /\ last' = ThisPiece(t)
        /\ UNCHANGED <<linkVars, superVars, connVars, writeSize, cancelled, callbacks, boundVars>>
    BY <1>7 DEF PieceWritten
  <2> QED
    BY <1>6, <2>1, <2>2, <2>3 DEF TypeOK, TaskTyped, linkVars, superVars, connVars, boundVars
<1>8. CASE PieceFailed(t)
  <2>1. TaskTyped
    <3>1. "healing" \in PcStates /\ "retry" \in Continuations /\ client \in 0..MaxClients
      BY DEF PcStates, Continuations, TypeOK
    <3> QED
      BY <1>8, <3>1, SuspendType, ReturnType DEF PieceFailed
  <2>2. /\ writeLock' \in Tasks \cup {NoTask} /\ writeQueue' \in Seq(Tasks)
        /\ sized' \in [Tasks -> 0..MaxClients] /\ sent' \in 0..(Pieces - 1)
    BY <1>8, <1>5 DEF PieceFailed, TypeOK
  <2>3. last' \in Piece \cup {NoPiece} /\ faults' \in 0..MaxFaults
    BY <1>6, <1>8 DEF PieceFailed, TypeOK, Fault
  <2>4. UNCHANGED <<linkVars, superVars, connVars, writeSize, cancelled, callbacks, calls, stop>>
    BY <1>8 DEF PieceFailed
  <2> QED
    BY <2>1, <2>2, <2>3, <2>4 DEF TypeOK, TaskTyped, linkVars, superVars, connVars
<1>9. CASE Healed(t)
  <2>1. PICK lk \in ClosedOrNot(gen[t]) :
           Closes(gen[t], lk) /\ EnterConnect(t, after[t], lk)
    BY <1>9 DEF Healed
  <2>2. /\ lk \in [Generations -> LinkStates]
        /\ callbacks' \in Nat /\ faults' \in 0..MaxFaults
    BY <2>1, AfterType, ClosesType
  <2>3. ConnectTyped /\ connQueue' \in Seq(Tasks)
    BY <2>1, <2>2, AfterType, EnterConnectType
  <2>4. UNCHANGED <<macKnown, auto, armed, handle, cancelled, calls, stop>>
    BY <1>9 DEF Healed
  <2> QED
    BY <2>2, <2>3, <2>4 DEF TypeOK, ConnectTyped, TaskTyped, WriteTyped
<1> QED
  BY <1>1, <1>2, <1>3, <1>4, <1>7, <1>8, <1>9 DEF CallerStep

LEMMA LoopStepType ==
  ASSUME TypeOK, NEW l \in Loops, LoopStep(l)
  PROVE  TypeOK'
<1> l \in Tasks
  BY DEF Tasks
<1>1. CASE TaskStep(l)
  BY <1>1, TaskStepType
<1>2. CASE LoopStarts(l)
  <2>1. TaskTyped
    BY <1>2, LoopAgainType DEF LoopStarts
  <2>2. UNCHANGED <<linkVars, superVars, connVars, writeVars, cancelled, callbacks, boundVars>>
    BY <1>2 DEF LoopStarts
  <2> QED
    BY <2>1, <2>2, SMTT(20)
    DEF TypeOK, TaskTyped, linkVars, superVars, connVars, writeVars, boundVars
<1>3. CASE LoopWakes(l)
  <2>1. CASE Return(l) /\ UNCHANGED <<client, link, sub, connVars, count, writeVars>>
    <3>1. TaskTyped
      BY <2>1, ReturnType
    <3>2. UNCHANGED <<macKnown, auto, armed, handle, cancelled, callbacks, boundVars>>
      BY <1>3 DEF LoopWakes
    <3> QED
      BY <2>1, <3>1, <3>2 DEF TypeOK, TaskTyped, connVars, writeVars, boundVars
  <2>2. CASE EnterConnect(l, "loop", link)
    <3>1. ConnectTyped /\ connQueue' \in Seq(Tasks)
      BY <2>2, EnterConnectType DEF TypeOK, Continuations
    <3>2. UNCHANGED <<macKnown, auto, armed, handle, cancelled, callbacks, boundVars>>
      BY <1>3 DEF LoopWakes
    <3> QED
      BY <3>1, <3>2 DEF TypeOK, ConnectTyped, TaskTyped, WriteTyped, boundVars
  <2> QED
    BY <1>3, <2>1, <2>2 DEF LoopWakes
<1>4. CASE CancelledErrorThrown(l)
  <2>1. TaskTyped
    BY <1>4, ReturnType DEF CancelledErrorThrown
  <2>2. link' \in [Generations -> LinkStates]
    BY <1>4 DEF CancelledErrorThrown, TypeOK, LinkStates
  <2>3. connQueue' \in Seq(Tasks)
    <3>1. CASE UNCHANGED connQueue
      BY <3>1 DEF TypeOK
    <3>2. ASSUME NEW i \in 1..Len(connQueue)
          PROVE  Without(connQueue, i) \in Seq(Tasks)
      <4>1. connQueue \in Seq(Tasks)
        BY DEF TypeOK
      <4>2. /\ SubSeq(connQueue, 1, i - 1) \in Seq(Tasks)
            /\ SubSeq(connQueue, i + 1, Len(connQueue)) \in Seq(Tasks)
        BY <4>1
      <4> QED
        BY <4>2 DEF Without
    <3> QED
      BY <1>4, <3>1, <3>2 DEF CancelledErrorThrown
  <2>4. connLock' \in {NoTask, connLock} /\ cancelled' \subseteq cancelled
    BY <1>4 DEF CancelledErrorThrown
  <2>5. UNCHANGED <<client, sub, macKnown, superVars, writeVars, callbacks, boundVars>>
    BY <1>4 DEF CancelledErrorThrown
  <2> QED
    BY <2>1, <2>2, <2>3, <2>4, <2>5, SMTT(20)
    DEF TypeOK, TaskTyped, superVars, writeVars, boundVars
<1> QED
  BY <1>1, <1>2, <1>3, <1>4 DEF LoopStep

LEMMA ApplicationType ==
  ASSUME TypeOK, Application
  PROVE  TypeOK'
<1>1. ASSUME NEW kind, Calls(kind)
      PROVE  calls' \in 0..MaxCalls
  BY <1>1 DEF Calls, TypeOK
<1>2. ASSUME CancelLoop
      PROVE  cancelled' \subseteq Loops /\ handle' \in Loops \cup {NoTask}
  BY <1>2 DEF CancelLoop, TypeOK
<1>3. link \in [Generations -> LinkStates] /\ "return" \in Continuations /\ "send" \in Continuations
  BY DEF TypeOK, Continuations
<1>4. ASSUME NEW t \in Callers, Connect(t)
      PROVE  TypeOK'
  <2>1. t \in Tasks /\ calls' \in 0..MaxCalls
    BY <1>1, <1>4 DEF Connect, Call, Tasks
  <2>2. ConnectTyped /\ connQueue' \in Seq(Tasks)
    BY <1>3, <1>4, <2>1, EnterConnectType DEF Connect
  <2>3. /\ stop' = "no"
        /\ UNCHANGED <<macKnown, auto, armed, handle, cancelled, callbacks, faults>>
    BY <1>4 DEF Connect
  <2> QED
    BY <2>1, <2>2, <2>3 DEF TypeOK, ConnectTyped, TaskTyped, WriteTyped
<1>5. ASSUME NEW t \in Callers, Disconnect(t)
      PROVE  TypeOK'
  <2>1. t \in Tasks /\ calls' \in 0..MaxCalls
    BY <1>1, <1>5 DEF Disconnect, Call, Tasks
  <2>2. TaskTyped
    <3>1. \/ Return(t)
          \/ Suspend(t, "disconnecting", client, "return")
          \/ Suspend(t, "discWait", 0, "return")
      BY <1>5 DEF Disconnect, LockedDisconnect
    <3>2. {"disconnecting", "discWait"} \subseteq PcStates /\ {client, 0} \subseteq 0..MaxClients
      BY DEF PcStates, TypeOK
    <3> QED
      BY <1>3, <2>1, <3>1, <3>2, SuspendType, ReturnType
  <2>3. connLock' \in Tasks \cup {NoTask}
    BY <1>5, <2>1 DEF Disconnect, LockedDisconnect, TypeOK
  <2>4. connQueue' \in Seq(Tasks)
    <3>1. connQueue' \in {connQueue, Append(connQueue, t)} /\ connQueue \in Seq(Tasks)
      BY <1>5 DEF Disconnect, TypeOK
    <3> QED
      BY <2>1, <3>1
  <2>5. cancelled' \subseteq Loops /\ handle' \in Loops \cup {NoTask}
    BY <1>2, <1>5 DEF Disconnect
  <2>6. /\ armed' = FALSE /\ stop' \in {"quiet", "raced"}
        /\ UNCHANGED <<linkVars, auto, count, writeVars, callbacks, faults>>
    BY <1>5 DEF Disconnect
  <2> QED
    BY <2>1, <2>2, <2>3, <2>4, <2>5, <2>6 DEF TypeOK, TaskTyped, linkVars, writeVars
<1>6. ASSUME NEW t \in Callers, Write(t)
      PROVE  TypeOK'
  <2>1. t \in Tasks /\ calls' \in 0..MaxCalls
    BY <1>1, <1>6 DEF Write, Call, Tasks
  <2>2. ConnectTyped /\ connQueue' \in Seq(Tasks)
    <3>1. CASE EnterConnect(t, "send", link)
      BY <3>1, <1>3, <2>1, EnterConnectType
    <3>2. CASE /\ Suspend(t, "healing", client, "send")
               /\ UNCHANGED <<client, link, sub, connVars, count, writeVars>>
      <4>1. TaskTyped /\ WriteTyped
        BY <3>2, <1>3, <2>1, SuspendType, UnchangedWriteType DEF TypeOK, PcStates
      <4> QED
        BY <3>2, <4>1 DEF ConnectTyped, TypeOK, connVars
    <3>3. CASE BeginSend(t, link) /\ UNCHANGED <<client, link, sub, connVars, count>>
      BY <3>3, <2>1, BeginSendType DEF ConnectTyped, TypeOK, connVars
    <3> QED
      BY <1>6, <3>1, <3>2, <3>3 DEF Write
  <2>3. /\ stop' = "no"
        /\ UNCHANGED <<macKnown, auto, armed, handle, cancelled, callbacks, faults>>
    BY <1>6 DEF Write
  <2> QED
    BY <2>1, <2>2, <2>3 DEF TypeOK, ConnectTyped, TaskTyped, WriteTyped
<1>7. ASSUME NEW enabled \in BOOLEAN, SetAutoReconnect(enabled)
      PROVE  TypeOK'
  <2>1. calls' \in 0..MaxCalls
    BY <1>1, <1>7 DEF SetAutoReconnect
  <2>2. cancelled' \subseteq Loops /\ handle' \in Loops \cup {NoTask}
    BY <1>2, <1>7 DEF SetAutoReconnect, TypeOK
  <2>3. armed' \in BOOLEAN
    BY <1>7 DEF SetAutoReconnect, IsConnected
  <2>4. /\ auto' = enabled /\ stop' \in {"no", stop}
        /\ UNCHANGED <<linkVars, count, connVars, writeVars, pc, gen, after, callbacks, faults>>
    BY <1>7 DEF SetAutoReconnect
  <2> QED
    BY <2>1, <2>2, <2>3, <2>4 DEF TypeOK, linkVars, connVars, writeVars
<1> QED
  BY <1>4, <1>5, <1>6, <1>7 DEF Application

LEMMA TypeNext == TypeOK /\ [Next]_vars => TypeOK'
<1> SUFFICES ASSUME TypeOK, [Next]_vars PROVE TypeOK'
  OBVIOUS
<1>1. CASE Application
  BY <1>1, ApplicationType
<1>2. CASE World
  <2>1. PICK g \in Generations : Drop(g) \/ HostResumes(g)
    BY <1>2 DEF World
  <2>2. link' \in [Generations -> LinkStates]
    BY <2>1 DEF Drop, HostResumes, TypeOK, LinkStates
  <2>3. callbacks' \in Nat
    BY <2>1 DEF Drop, HostResumes, TypeOK
  <2>4. faults' \in 0..MaxFaults
    <3>1. faults < MaxFaults /\ faults' = faults + 1
      BY <2>1 DEF Drop, HostResumes, Fault
    <3> QED
      BY <3>1 DEF TypeOK
  <2>5. UNCHANGED <<client, sub, macKnown, superVars, connVars, writeVars, taskVars, calls, stop>>
    BY <2>1 DEF Drop, HostResumes
  <2> QED
    BY <2>2, <2>3, <2>4, <2>5 DEF TypeOK, superVars, connVars, writeVars, taskVars
<1>3. CASE \E t \in Callers : CallerStep(t)
  BY <1>3, CallerStepType
<1>4. CASE \E l \in Loops : LoopStep(l)
  BY <1>4, LoopStepType
<1>5. CASE HandleDisconnect
  <2>1. callbacks' \in Nat
    BY <1>5 DEF HandleDisconnect, TypeOK
  <2>2. TaskTyped /\ handle' \in Loops \cup {NoTask}
    <3>1. CASE UNCHANGED <<handle, pc, gen, after>>
      BY <3>1 DEF TypeOK, TaskTyped
    <3>2. ASSUME NEW l \in Loops, handle' = l, Suspend(l, "starting", 0, "loop")
          PROVE  TaskTyped /\ handle' \in Loops \cup {NoTask}
      BY <3>2, SuspendType DEF PcStates, Continuations, Tasks
    <3> QED
      BY <1>5, <3>1, <3>2 DEF HandleDisconnect
  <2>3. UNCHANGED <<linkVars, auto, armed, count, connVars, writeVars, cancelled, boundVars>>
    BY <1>5 DEF HandleDisconnect
  <2> QED
    BY <2>1, <2>2, <2>3 DEF TypeOK, TaskTyped, linkVars, connVars, writeVars, boundVars
<1>6. CASE UNCHANGED vars
  BY <1>6 DEF TypeOK, vars, linkVars, superVars, connVars, writeVars, taskVars, boundVars
<1> QED
  BY <1>1, <1>2, <1>3, <1>4, <1>5, <1>6 DEF Next, Finished

(* Every variable keeps its type. *)
THEOREM Typing == Spec => []TypeOK
  BY TypeInit, TypeNext, PTL DEF Spec

-----------------------------------------------------------------------------
(* Which tasks a step moves *)

OnlyMoves(t) ==
  \A u \in Tasks \ {t} : pc'[u] = pc[u] /\ gen'[u] = gen[u] /\ after'[u] = after[u]

LEMMA SuspendMoves ==
  ASSUME TypeOK, NEW t \in Tasks, NEW where, NEW g, NEW k, Suspend(t, where, g, k)
  PROVE  /\ OnlyMoves(t)
         /\ pc'[t] = where /\ gen'[t] = g /\ after'[t] = k
  BY DEF TypeOK, Suspend, OnlyMoves

LEMMA ReturnMoves ==
  ASSUME TypeOK, NEW t \in Tasks, Return(t)
  PROVE  OnlyMoves(t) /\ pc'[t] = "idle" /\ after'[t] = "return"
  BY SuspendMoves DEF Return

LEMMA WritePieceMoves ==
  ASSUME TypeOK, NEW t \in Tasks, NEW where, WritePiece(t, where)
  PROVE  OnlyMoves(t) /\ pc'[t] = where /\ after'[t] = "return"
  BY SuspendMoves DEF WritePiece

LEMMA LoopAgainMoves ==
  ASSUME TypeOK, NEW t \in Tasks, NEW lk, LoopAgain(t, lk)
  PROVE  OnlyMoves(t) /\ pc'[t] \in {"idle", "sleeping"} /\ after'[t] # "retry"
  BY SuspendMoves, ReturnMoves DEF LoopAgain

LEMMA BeginSendMoves ==
  ASSUME TypeOK, NEW t \in Tasks, NEW lk, BeginSend(t, lk)
  PROVE  OnlyMoves(t) /\ pc'[t] \in {"idle", "writing", "writeWait"} /\ after'[t] # "retry"
<1>1. \/ Return(t)
      \/ WritePiece(t, "writing")
      \/ Suspend(t, "writeWait", 0, "return")
  BY DEF BeginSend
<1> QED
  BY <1>1, ReturnMoves, WritePieceMoves, SuspendMoves

LEMMA ResumeMoves ==
  ASSUME TypeOK, NEW t \in Tasks, NEW k, NEW lk, Resume(t, k, lk)
  PROVE  /\ OnlyMoves(t)
         /\ pc'[t] \in {"idle", "writing", "writeWait", "rewriting", "sleeping"}
         /\ after'[t] # "retry"
<1>1. \/ Return(t)
      \/ BeginSend(t, lk)
      \/ WritePiece(t, "rewriting")
      \/ LoopAgain(t, lk)
  BY DEF Resume
<1> QED
  BY <1>1, ReturnMoves, BeginSendMoves, WritePieceMoves, LoopAgainMoves

LEMMA RaiseMoves ==
  ASSUME TypeOK, NEW t \in Tasks, NEW k, NEW lk, Raise(t, k, lk)
  PROVE  OnlyMoves(t) /\ pc'[t] \in {"idle", "sleeping"}
  BY ReturnMoves, LoopAgainMoves DEF Raise

LEMMA LockedConnectMoves ==
  ASSUME TypeOK, NEW t \in Tasks, NEW k, NEW lk, LockedConnect(t, k, lk)
  PROVE  OnlyMoves(t) /\ pc'[t] \notin {"subscribing", "disconnecting", "starting"}
<1>1. \/ Resume(t, k, lk)
      \/ BuildClient(t, k, lk)
      \/ Suspend(t, "discovering", 0, k)
  BY DEF LockedConnect
<1> QED
  BY <1>1, ResumeMoves, SuspendMoves DEF BuildClient

LEMMA EnterConnectMoves ==
  ASSUME TypeOK, NEW t \in Tasks, NEW k, NEW lk, EnterConnect(t, k, lk)
  PROVE  OnlyMoves(t) /\ pc'[t] \notin {"subscribing", "disconnecting", "starting"}
<1>1. LockedConnect(t, k, lk) \/ Suspend(t, "connWait", 0, k)
  BY DEF EnterConnect
<1> QED
  BY <1>1, LockedConnectMoves, SuspendMoves

LEMMA TaskStepMoves ==
  ASSUME TypeOK, NEW t \in Tasks, TaskStep(t)
  PROVE  OnlyMoves(t)
<1>1. \/ LockedConnect(t, after[t], link)
      \/ BuildClient(t, after[t], link)
      \/ \E lk : Raise(t, after[t], lk)
      \/ \E where, g, k : Suspend(t, where, g, k)
      \/ Resume(t, after[t], link)
  BY DEF TaskStep, ConnectGranted, Discovered, ConnectFailed, Connected, Subscribed, Notified
<1> QED
  BY <1>1, LockedConnectMoves, RaiseMoves, SuspendMoves, ResumeMoves DEF BuildClient

LEMMA CallerStepMoves ==
  ASSUME TypeOK, NEW t \in Callers, CallerStep(t)
  PROVE  OnlyMoves(t)
<1> t \in Tasks
  BY DEF Tasks
<1>1. \/ TaskStep(t)
      \/ \E where, g, k : Suspend(t, where, g, k)
      \/ Return(t)
      \/ \E where : WritePiece(t, where)
      \/ \E lk : EnterConnect(t, after[t], lk)
  BY DEF CallerStep, DisconnectGranted, LockedDisconnect, Disconnected, WriteGranted,
         PieceWritten, PieceFailed, Healed
<1> QED
  BY <1>1, TaskStepMoves, SuspendMoves, ReturnMoves, WritePieceMoves, EnterConnectMoves

LEMMA LoopStepMoves ==
  ASSUME TypeOK, NEW l \in Loops, LoopStep(l)
  PROVE  OnlyMoves(l)
<1> l \in Tasks
  BY DEF Tasks
<1>1. \/ TaskStep(l)
      \/ LoopAgain(l, link)
      \/ Return(l)
      \/ EnterConnect(l, "loop", link)
  BY DEF LoopStep, LoopStarts, LoopWakes, CancelledErrorThrown
<1> QED
  BY <1>1, TaskStepMoves, LoopAgainMoves, ReturnMoves, EnterConnectMoves

-----------------------------------------------------------------------------
(* Supervision *)

(* QuietDisconnect is inductive once it is known that, while it applies, no   *)
(* caller is at a point from which it could arm supervision.                  *)
SupervisionInv ==
  /\ armed => auto
  /\ OneSupervisor
  /\ DisabledIsOff
  /\ QuietDisconnect
  /\ stop = "quiet" => \A u \in Callers : pc[u] \in {"idle", "discWait", "disconnecting"}

(* A step inside a call or a loop adds no supervisor, and arms supervision    *)
(* only in a connect() that was not cancelled and only if auto is set.        *)
LEMMA SupervisionStep ==
  ASSUME TypeOK, SupervisionInv, NEW t \in Tasks,
         \/ t \in Callers /\ CallerStep(t)
         \/ t \in Loops /\ LoopStep(t)
  PROVE  SupervisionInv'
<1>1. OnlyMoves(t)
  BY CallerStepMoves, LoopStepMoves
<1>2. UNCHANGED <<auto, handle, stop>>
  BY DEF CallerStep, LoopStep, TaskStep, ConnectGranted, Discovered, ConnectFailed,
         Connected, Subscribed, Notified, DisconnectGranted, Disconnected, WriteGranted,
         PieceWritten, PieceFailed, Healed, LoopStarts, LoopWakes, CancelledErrorThrown,
         superVars, boundVars
<1>3. \/ UNCHANGED armed
      \/ armed' = auto /\ pc[t] = "subscribing" /\ t \notin cancelled
  BY DEF CallerStep, LoopStep, TaskStep, ConnectGranted, Discovered, ConnectFailed,
         Connected, Subscribed, Notified, DisconnectGranted, Disconnected, WriteGranted,
         PieceWritten, PieceFailed, Healed, LoopStarts, LoopWakes, CancelledErrorThrown,
         superVars
<1>4. \/ UNCHANGED cancelled /\ pc[t] # "idle" /\ (t \in Loops => t \notin cancelled)
      \/ t \in Loops /\ cancelled' = cancelled \ {t} /\ pc'[t] = "idle"
  <2>1. CASE CancelledErrorThrown(t) /\ t \in Loops
    BY <2>1, ReturnMoves DEF CancelledErrorThrown
  <2>2. CASE ~(CancelledErrorThrown(t) /\ t \in Loops)
    BY <2>2
    DEF CallerStep, LoopStep, TaskStep, ConnectGranted, Discovered, ConnectFailed,
        Connected, Subscribed, Notified, DisconnectGranted, Disconnected, WriteGranted,
        PieceWritten, PieceFailed, Healed, LoopStarts, LoopWakes, TasksAssumption,
        TypeOK, taskVars
  <2> QED
    BY <2>1, <2>2
<1>5. \A l \in Loops : Supervising(l)' => Supervising(l)
  BY <1>1, <1>4 DEF OnlyMoves, Supervising, Running, Tasks
<1>6. OneSupervisor' /\ DisabledIsOff' /\ (armed => auto)'
  BY <1>2, <1>3, <1>5 DEF SupervisionInv, OneSupervisor, DisabledIsOff
<1>7. ASSUME stop' = "quiet"
      PROVE  /\ ~armed' /\ \A l \in Loops : ~Supervising(l)'
             /\ \A u \in Callers : pc'[u] \in {"idle", "discWait", "disconnecting"}
  <2>1. /\ ~armed /\ \A l \in Loops : ~Supervising(l)
        /\ \A u \in Callers : pc[u] \in {"idle", "discWait", "disconnecting"}
    BY <1>2, <1>7 DEF SupervisionInv, QuietDisconnect
  <2>2. CASE t \in Callers
    <3>1. DisconnectGranted(t) \/ Disconnected(t)
      BY <2>1, <2>2, TasksAssumption
      DEF CallerStep, LoopStep, TaskStep, ConnectGranted, Discovered, ConnectFailed,
          Connected, Subscribed, Notified, WriteGranted, PieceWritten, PieceFailed, Healed
    <3>2. pc'[t] \in {"idle", "disconnecting"} /\ UNCHANGED armed
      BY <3>1, ReturnMoves, SuspendMoves
      DEF DisconnectGranted, LockedDisconnect, Disconnected, superVars
    <3> QED
      BY <1>1, <1>5, <2>1, <2>2, <3>2 DEF OnlyMoves, Tasks
  <2>3. CASE t \in Loops
    <3>1. t \in cancelled \/ pc[t] = "idle"
      BY <2>1, <2>3 DEF Supervising, Running
    <3>2. UNCHANGED armed
      BY <1>3, <3>1
    <3> QED
      BY <1>1, <1>5, <2>1, <2>3, <3>2, TasksAssumption DEF OnlyMoves, Tasks
  <2> QED
    BY <2>2, <2>3
<1> QED
  BY <1>6, <1>7 DEF SupervisionInv, QuietDisconnect

LEMMA SupervisionNext == TypeOK /\ SupervisionInv /\ [Next]_vars => SupervisionInv'
<1> SUFFICES ASSUME TypeOK, SupervisionInv, [Next]_vars PROVE SupervisionInv'
  OBVIOUS
<1>1. CASE \E t \in Callers : CallerStep(t)
  BY <1>1, SupervisionStep DEF Tasks
<1>2. CASE \E l \in Loops : LoopStep(l)
  BY <1>2, SupervisionStep DEF Tasks
<1>3. CASE HandleDisconnect
  <2>1. CASE UNCHANGED <<handle, pc, gen, after>>
    BY <1>3, <2>1
    DEF HandleDisconnect, SupervisionInv, OneSupervisor, DisabledIsOff, QuietDisconnect,
        Supervising, Running, boundVars
  <2>2. CASE /\ armed /\ ~LoopAlive
             /\ \E l \in Loops : /\ ~Running(l) /\ handle' = l
                                 /\ Suspend(l, "starting", 0, "loop")
    <3>1. PICK l \in Loops : /\ ~Running(l) /\ handle' = l
                             /\ Suspend(l, "starting", 0, "loop")
      BY <2>2
    <3>2. OnlyMoves(l)
      BY <3>1, SuspendMoves DEF Tasks
    <3>3. UNCHANGED <<auto, armed, cancelled, stop>> /\ auto /\ stop # "quiet"
      BY <1>3, <2>2 DEF HandleDisconnect, SupervisionInv, QuietDisconnect, boundVars
    <3>4. \A m \in Loops : ~Supervising(m)
      BY <2>2 DEF SupervisionInv, OneSupervisor, LoopAlive, Supervising
    <3>5. \A m \in Loops : Supervising(m)' => m = l
      BY <3>2, <3>3, <3>4 DEF OnlyMoves, Supervising, Running, Tasks
    <3> QED
      BY <3>1, <3>3, <3>5
      DEF SupervisionInv, OneSupervisor, DisabledIsOff, QuietDisconnect
  <2> QED
    BY <1>3, <2>1, <2>2 DEF HandleDisconnect
<1>4. CASE World
  BY <1>4
  DEF World, Drop, HostResumes, SupervisionInv, OneSupervisor, DisabledIsOff,
      QuietDisconnect, Supervising, Running, superVars, taskVars
<1>5. CASE UNCHANGED vars
  BY <1>5
  DEF SupervisionInv, OneSupervisor, DisabledIsOff, QuietDisconnect, Supervising, Running,
      vars, superVars, taskVars, boundVars
<1>6. ASSUME CancelLoop, \A l \in Loops : Running(l)' => Running(l)
      PROVE  \A l \in Loops : ~Supervising(l)'
  BY <1>6 DEF CancelLoop, SupervisionInv, OneSupervisor, Supervising, Running
<1>7. ASSUME NEW t \in Callers, OnlyMoves(t)
      PROVE  \A l \in Loops : pc'[l] = pc[l]
  BY <1>7, TasksAssumption DEF OnlyMoves, Tasks
<1>8. ASSUME NEW t \in Callers, Connect(t) \/ Write(t)
      PROVE  SupervisionInv'
  <2>1. OnlyMoves(t)
    BY <1>8, EnterConnectMoves, SuspendMoves, BeginSendMoves DEF Connect, Write, Tasks
  <2>2. stop' = "no" /\ UNCHANGED <<auto, armed, handle, cancelled>>
    BY <1>8 DEF Connect, Write
  <2> QED
    BY <1>7, <2>1, <2>2
    DEF SupervisionInv, OneSupervisor, DisabledIsOff, QuietDisconnect, Supervising, Running
<1>9. ASSUME NEW t \in Callers, Disconnect(t)
      PROVE  SupervisionInv'
  <2>1. OnlyMoves(t) /\ pc'[t] \in {"idle", "discWait", "disconnecting"}
    BY <1>9, SuspendMoves, ReturnMoves DEF Disconnect, LockedDisconnect, Tasks
  <2>2. \A l \in Loops : ~Supervising(l)'
    BY <1>6, <1>7, <1>9, <2>1 DEF Disconnect, Running
  <2>3. stop' = "quiet" => \A u \in Callers : pc'[u] \in {"idle", "discWait", "disconnecting"}
    BY <1>9, <2>1 DEF Disconnect, OnlyMoves, Tasks
  <2> QED
    BY <1>9, <2>2, <2>3
    DEF Disconnect, SupervisionInv, OneSupervisor, DisabledIsOff, QuietDisconnect
<1>10. ASSUME NEW enabled \in BOOLEAN, SetAutoReconnect(enabled)
       PROVE  SupervisionInv'
  <2>1. CASE enabled
    BY <1>10, <2>1
    DEF SetAutoReconnect, SupervisionInv, OneSupervisor, DisabledIsOff, QuietDisconnect,
        Supervising, Running
  <2>2. CASE ~enabled
    <3>1. \A l \in Loops : ~Supervising(l)'
      BY <1>6, <1>10, <2>2 DEF SetAutoReconnect, Running
    <3> QED
      BY <1>10, <2>2, <3>1
      DEF SetAutoReconnect, SupervisionInv, OneSupervisor, DisabledIsOff, QuietDisconnect
  <2> QED
    BY <2>1, <2>2
<1> QED
  BY <1>1, <1>2, <1>3, <1>4, <1>5, <1>8, <1>9, <1>10 DEF Next, Application, Finished

LEMMA SupervisionInit == Init => SupervisionInv
  BY DEF Init, SupervisionInv, OneSupervisor, DisabledIsOff, QuietDisconnect, Supervising,
         Running, Tasks

LEMMA SupervisionAlways == Spec => []SupervisionInv
  BY Typing, SupervisionInit, SupervisionNext, PTL DEF Spec

(* At most one reconnect loop works, and it can be cancelled. *)
THEOREM SingleSupervisor == Spec => []OneSupervisor
  BY SupervisionAlways, PTL DEF SupervisionInv

(* Disabling reconnection stops it, a loop caught in mid-connect included. *)
THEOREM DisablingWorks == Spec => []DisabledIsOff
  BY SupervisionAlways, PTL DEF SupervisionInv

(* A disconnect() that overlaps no other call is final. *)
THEOREM QuietDisconnectWorks == Spec => []QuietDisconnect
  BY SupervisionAlways, PTL DEF SupervisionInv
=============================================================================
