--------------------------- MODULE BleLink_proofs ---------------------------
(***************************************************************************)
(* The connect lock protects the link: no client is swapped under a task    *)
(* that is connecting it, and none is left connected behind self._client.   *)
(* Then how the links relate to the cached write size and to                *)
(* reconnect_count.  The write lock, held across every self-healing         *)
(* reconnect, protects the wire, which carries one command at a time:       *)
(* BleTransport implements CommandWire.                                     *)
(***************************************************************************)
EXTENDS BleTransport_proofs, FiniteSetTheorems

InLinkSection(t) == pc[t] \in {"discovering", "connecting", "subscribing", "disconnecting"}

(* OneLiveLink needs to know that connect() is still disconnected when it     *)
(* builds its client, although it may have awaited the discovery before.      *)
LinkInv ==
  /\ \A t \in Tasks : InLinkSection(t) => connLock = t
  /\ \A t \in Tasks : pc[t] = "discovering" => ~IsConnected(link)
  /\ ClientNotSwapped
  /\ OneLiveLink

(* A link function that shows no link live that was not. *)
NoLiver(lk) ==
  /\ lk \in [Generations -> LinkStates]
  /\ \A g \in Generations : lk[g] \in Live => link[g] \in Live

LEMMA ClosesNoLiver ==
  ASSUME TypeOK, NEW g, NEW lk \in ClosedOrNot(g)
  PROVE  NoLiver(lk)
  BY DEF ClosedOrNot, NoLiver, TypeOK, Live, LinkStates

LEMMA SectionFree ==
  ASSUME TypeOK, LinkInv, connLock = NoTask, NEW t \in Tasks
  PROVE  ~InLinkSection(t)
  BY TasksAssumption DEF LinkInv

LEMMA SectionMine ==
  ASSUME TypeOK, LinkInv, NEW t \in Tasks, InLinkSection(t), NEW u \in Tasks \ {t}
  PROVE  ~InLinkSection(u) /\ connLock = t
  BY DEF LinkInv

(* Task t neither enters, leaves nor is in the protected section. *)
LEMMA OutsideStep ==
  ASSUME TypeOK, LinkInv, NEW t \in Tasks, OnlyMoves(t),
         ~InLinkSection(t), ~InLinkSection(t)',
         UNCHANGED <<client, connLock>>, NoLiver(link')
  PROVE  LinkInv'
<1>1. \A u \in Tasks \ {t} : pc'[u] = pc[u] /\ gen'[u] = gen[u]
  BY DEF OnlyMoves, TypeOK
<1>2. \A u \in Tasks : InLinkSection(u)' => u # t /\ InLinkSection(u) /\ connLock' = u
  BY <1>1 DEF LinkInv, InLinkSection
<1>3. \A u \in Tasks : pc'[u] = "discovering" => ~IsConnected(link)'
  <2>1. IsConnected(link)' => IsConnected(link)
    BY DEF IsConnected, NoLiver, TypeOK, Generations
  <2> QED
    BY <1>1, <1>2, <2>1 DEF LinkInv, InLinkSection
<1>4. ClientNotSwapped'
  BY <1>1, <1>2 DEF LinkInv, ClientNotSwapped, InLinkSection
<1>5. OneLiveLink'
  BY DEF LinkInv, OneLiveLink, NoLiver
<1> QED
  BY <1>2, <1>3, <1>4, <1>5 DEF LinkInv

(* Task t ends its stay in the protected section. *)
LEMMA LeavingStep ==
  ASSUME TypeOK, LinkInv, NEW t \in Tasks, OnlyMoves(t),
         InLinkSection(t), ~InLinkSection(t)',
         UNCHANGED client, OneLiveLink'
  PROVE  LinkInv'
<1>1. \A u \in Tasks : ~InLinkSection(u)'
  BY SectionMine DEF OnlyMoves, InLinkSection
<1> QED
  BY <1>1 DEF LinkInv, ClientNotSwapped, InLinkSection

LEMMA BuildClientLink ==
  ASSUME TypeOK, LinkInv, NEW t \in Tasks, NEW k, NEW lk, NoLiver(lk),
         \A u \in Tasks \ {t} : ~InLinkSection(u),
         ~IsConnected(lk), BuildClient(t, k, lk), connLock' = t
  PROVE  LinkInv'
<1>0. client + 1 \in Generations
  BY BoundsAssumption DEF BuildClient, TypeOK, Generations
<1>01. Suspend(t, "connecting", client + 1, k)
  BY DEF BuildClient
<1>02. OnlyMoves(t) /\ pc'[t] = "connecting" /\ gen'[t] = client + 1
  BY <1>01, SuspendMoves DEF Suspend, TypeOK
<1>1. /\ OnlyMoves(t) /\ pc'[t] = "connecting" /\ gen'[t] = client'
      /\ client' = client + 1 /\ client' \in Generations
      /\ link' = [lk EXCEPT ![client'] = "new"]
  BY <1>0, <1>02 DEF BuildClient
<1>2. \A u \in Tasks \ {t} : ~InLinkSection(u)'
  BY <1>1 DEF OnlyMoves, InLinkSection
<1>3. \A g \in Generations : lk[g] \notin Live
  BY DEF IsConnected, NoLiver, LinkInv, OneLiveLink, TypeOK, Generations
<1>4. OneLiveLink'
  BY <1>1, <1>3 DEF OneLiveLink, NoLiver, Live, LinkStates
<1>5. ClientNotSwapped'
  BY <1>1, <1>2 DEF ClientNotSwapped, InLinkSection
<1> QED
  BY <1>1, <1>2, <1>4, <1>5 DEF LinkInv, InLinkSection

LEMMA LockedConnectLink ==
  ASSUME TypeOK, LinkInv, NEW t \in Tasks, NEW k, NEW lk, NoLiver(lk),
         connLock = NoTask, LockedConnect(t, k, lk)
  PROVE  LinkInv'
<1>1. \A u \in Tasks : ~InLinkSection(u)
  BY SectionFree
<1>2. CASE IsConnected(lk)
  <2>1. /\ OnlyMoves(t) /\ ~InLinkSection(t)'
        /\ link' = lk /\ UNCHANGED <<client, connLock>>
    BY <1>2, ResumeMoves DEF LockedConnect, InLinkSection
  <2> QED
    BY <1>1, <2>1, OutsideStep
<1>3. CASE ~IsConnected(lk) /\ macKnown
  <2>1. BuildClient(t, k, lk) /\ connLock' = t
    BY <1>3 DEF LockedConnect
  <2> QED
    BY <1>1, <1>3, <2>1, BuildClientLink
<1>4. CASE ~IsConnected(lk) /\ ~macKnown
  <2>1. /\ OnlyMoves(t) /\ pc'[t] = "discovering" /\ connLock' = t
        /\ link' = lk /\ UNCHANGED client
    BY <1>4, SuspendMoves DEF LockedConnect
  <2>2. \A u \in Tasks \ {t} : ~InLinkSection(u)'
    BY <1>1, <2>1 DEF OnlyMoves, InLinkSection
  <2>3. ~IsConnected(link)'
    BY <1>4, <2>1 DEF IsConnected
  <2>4. OneLiveLink'
    BY <2>1 DEF LinkInv, OneLiveLink, NoLiver
  <2> QED
    BY <2>1, <2>2, <2>3, <2>4 DEF LinkInv, ClientNotSwapped, InLinkSection
<1> QED
  BY <1>2, <1>3, <1>4

LEMMA EnterConnectLink ==
  ASSUME TypeOK, LinkInv, NEW t \in Tasks, NEW k, NEW lk, NoLiver(lk),
         ~InLinkSection(t), EnterConnect(t, k, lk)
  PROVE  LinkInv'
<1>1. CASE LockFree(connLock, connQueue)
  BY <1>1, LockedConnectLink DEF EnterConnect, LockFree
<1>2. CASE ~LockFree(connLock, connQueue)
  <2>1. /\ OnlyMoves(t) /\ ~InLinkSection(t)'
        /\ link' = lk /\ UNCHANGED <<client, connLock>>
    BY <1>2, SuspendMoves DEF EnterConnect, InLinkSection
  <2> QED
    BY <2>1, OutsideStep
<1> QED
  BY <1>1, <1>2

LEMMA LinkStaysNoLiver ==
  ASSUME TypeOK
  PROVE  NoLiver(link)
  BY DEF NoLiver, TypeOK

LEMMA TaskStepLink ==
  ASSUME TypeOK, LinkInv, NEW t \in Tasks, TaskStep(t)
  PROVE  LinkInv'
<1>1. OnlyMoves(t)
  BY TaskStepMoves
<1>2. CASE ConnectGranted(t)
  BY <1>2, LockedConnectLink, LinkStaysNoLiver DEF ConnectGranted, Granted
<1>3. CASE Discovered(t)
  <2>1. /\ pc[t] = "discovering" /\ BuildClient(t, after[t], link) /\ UNCHANGED connLock
    BY <1>3 DEF Discovered, connVars
  <2>2. \A u \in Tasks \ {t} : ~InLinkSection(u) /\ connLock = t
    BY <2>1, SectionMine DEF InLinkSection
  <2>3. connLock = t /\ ~IsConnected(link)
    BY <2>1 DEF LinkInv, InLinkSection
  <2> QED
    BY <2>1, <2>2, <2>3, BuildClientLink, LinkStaysNoLiver
<1>4. CASE ConnectFailed(t)
  <2>1. InLinkSection(t) /\ ~InLinkSection(t)' /\ UNCHANGED client
    BY <1>4, RaiseMoves DEF ConnectFailed, InLinkSection
  <2>2. OneLiveLink'
    BY <1>4 DEF ConnectFailed, LinkInv, OneLiveLink, TypeOK, Live
  <2> QED
    BY <1>1, <2>1, <2>2, LeavingStep
<1>5. CASE Connected(t)
  <2>1. /\ pc[t] = "connecting" /\ pc'[t] = "subscribing" /\ gen'[t] = gen[t]
        /\ link' = [link EXCEPT ![gen[t]] = "up"] /\ UNCHANGED <<client, connLock>>
    BY <1>5, SuspendMoves DEF Connected, connVars
  <2>2. \A u \in Tasks \ {t} : ~InLinkSection(u)'
    BY <1>1, <2>1, SectionMine DEF InLinkSection, OnlyMoves
  <2>3. gen[t] = client
    BY <2>1 DEF LinkInv, ClientNotSwapped
  <2>4. OneLiveLink'
    BY <2>1, <2>3 DEF LinkInv, OneLiveLink, TypeOK
  <2>5. connLock = t
    BY <2>1 DEF LinkInv, InLinkSection
  <2> QED
    BY <2>1, <2>2, <2>3, <2>4, <2>5 DEF LinkInv, ClientNotSwapped, InLinkSection
<1>6. CASE Subscribed(t)
  <2>1. InLinkSection(t) /\ ~InLinkSection(t)' /\ UNCHANGED <<client, link>>
    BY <1>6, SuspendMoves DEF Subscribed, InLinkSection
  <2> QED
    BY <1>1, <2>1, LeavingStep DEF LinkInv, OneLiveLink
<1>7. CASE Notified(t)
  <2>1. /\ ~InLinkSection(t) /\ ~InLinkSection(t)'
        /\ UNCHANGED <<client, connLock, link>>
    BY <1>7, ResumeMoves DEF Notified, InLinkSection, linkVars, connVars
  <2> QED
    BY <1>1, <2>1, OutsideStep, LinkStaysNoLiver
<1> QED
  BY <1>2, <1>3, <1>4, <1>5, <1>6, <1>7 DEF TaskStep

LEMMA CallerStepLink ==
  ASSUME TypeOK, LinkInv, NEW t \in Callers, CallerStep(t)
  PROVE  LinkInv'
<1> t \in Tasks
  BY DEF Tasks
<1>1. OnlyMoves(t)
  BY CallerStepMoves
<1>2. CASE TaskStep(t)
  BY <1>2, TaskStepLink
<1>3. CASE DisconnectGranted(t)
  <2>1. \A u \in Tasks : ~InLinkSection(u)
    BY <1>3, SectionFree DEF DisconnectGranted, Granted
  <2>2. UNCHANGED <<client, link>>
    BY <1>3 DEF DisconnectGranted, linkVars
  <2>3. \/ connLock' = t /\ pc'[t] = "disconnecting"
        \/ UNCHANGED connLock /\ pc'[t] = "idle"
    BY <1>3, SuspendMoves, ReturnMoves DEF DisconnectGranted, LockedDisconnect
  <2> QED
    BY <1>1, <2>1, <2>2, <2>3
    DEF LinkInv, InLinkSection, OnlyMoves, ClientNotSwapped, OneLiveLink, IsConnected
<1>4. CASE Disconnected(t)
  <2>1. InLinkSection(t) /\ ~InLinkSection(t)' /\ UNCHANGED client
    BY <1>4, ReturnMoves DEF Disconnected, InLinkSection
  <2>2. NoLiver(link')
    BY <1>4, ClosesNoLiver DEF Disconnected
  <2> QED
    BY <1>1, <2>1, <2>2, LeavingStep DEF LinkInv, OneLiveLink, NoLiver
<1>5. CASE WriteGranted(t) \/ PieceWritten(t) \/ PieceFailed(t)
  <2>1. ~InLinkSection(t) /\ UNCHANGED <<client, link, connLock>>
    BY <1>5
    DEF WriteGranted, PieceWritten, PieceFailed, InLinkSection, linkVars, connVars
  <2>2. ~InLinkSection(t)'
    BY <1>5, WritePieceMoves, ReturnMoves, SuspendMoves
    DEF WriteGranted, PieceWritten, PieceFailed, InLinkSection
  <2> QED
    BY <1>1, <2>1, <2>2, OutsideStep, LinkStaysNoLiver
<1>6. CASE Healed(t)
  <2>1. PICK lk \in ClosedOrNot(gen[t]) : EnterConnect(t, after[t], lk)
    BY <1>6 DEF Healed
  <2>2. ~InLinkSection(t)
    BY <1>6 DEF Healed, InLinkSection
  <2> QED
    BY <2>1, <2>2, ClosesNoLiver, EnterConnectLink
<1> QED
  BY <1>2, <1>3, <1>4, <1>5, <1>6 DEF CallerStep

LEMMA LoopStepLink ==
  ASSUME TypeOK, LinkInv, NEW l \in Loops, LoopStep(l)
  PROVE  LinkInv'
<1> l \in Tasks
  BY DEF Tasks
<1>1. OnlyMoves(l)
  BY LoopStepMoves
<1>2. CASE TaskStep(l)
  BY <1>2, TaskStepLink
<1>3. CASE LoopStarts(l)
  <2>1. ~InLinkSection(l) /\ ~InLinkSection(l)' /\ UNCHANGED <<client, link, connLock>>
    BY <1>3, LoopAgainMoves DEF LoopStarts, InLinkSection, linkVars, connVars
  <2> QED
    BY <1>1, <2>1, OutsideStep, LinkStaysNoLiver
<1>4. CASE LoopWakes(l)
  <2>1. ~InLinkSection(l)
    BY <1>4 DEF LoopWakes, InLinkSection
  <2>2. CASE Return(l) /\ UNCHANGED <<client, link, sub, connVars, count, writeVars>>
    BY <1>1, <2>1, <2>2, ReturnMoves, OutsideStep, LinkStaysNoLiver DEF InLinkSection, connVars
  <2>3. CASE EnterConnect(l, "loop", link)
    BY <2>1, <2>3, EnterConnectLink, LinkStaysNoLiver
  <2> QED
    BY <1>4, <2>2, <2>3 DEF LoopWakes
<1>5. CASE CancelledErrorThrown(l)
  <2>1. ~InLinkSection(l)' /\ UNCHANGED client
    BY <1>5, ReturnMoves DEF CancelledErrorThrown, InLinkSection
  <2>2. CASE InLinkSection(l)
    <3>1. OneLiveLink'
      BY <1>5 DEF CancelledErrorThrown, LinkInv, OneLiveLink, ClientNotSwapped, TypeOK
    <3> QED
      BY <1>1, <2>1, <2>2, <3>1, LeavingStep
  <2>3. CASE ~InLinkSection(l)
    <3>1. UNCHANGED link
      BY <1>5, <2>3 DEF CancelledErrorThrown, InLinkSection
    <3>2. CASE connLock # l
      BY <1>1, <1>5, <2>1, <2>3, <3>1, <3>2, OutsideStep, LinkStaysNoLiver
      DEF CancelledErrorThrown
    <3>3. CASE connLock = l
      <4>1. \A u \in Tasks : ~InLinkSection(u)'
        BY <1>1, <2>1, <3>3 DEF LinkInv, OnlyMoves, InLinkSection
      <4> QED
        BY <2>1, <3>1, <4>1 DEF LinkInv, InLinkSection, ClientNotSwapped, OneLiveLink
    <3> QED
      BY <3>2, <3>3
  <2> QED
    BY <2>2, <2>3
<1> QED
  BY <1>2, <1>3, <1>4, <1>5 DEF LoopStep

LEMMA ApplicationLink ==
  ASSUME TypeOK, LinkInv, Application
  PROVE  LinkInv'
<1>1. ASSUME NEW t \in Callers, Connect(t) \/ Write(t)
      PROVE  LinkInv'
  <2>1. t \in Tasks /\ ~InLinkSection(t)
    BY <1>1 DEF Connect, Write, Call, Running, InLinkSection, Tasks
  <2>2. CASE \E k : EnterConnect(t, k, link)
    BY <2>1, <2>2, EnterConnectLink, LinkStaysNoLiver
  <2>3. CASE /\ Suspend(t, "healing", client, "send") \/ BeginSend(t, link)
             /\ UNCHANGED <<client, link, connVars>>
    <3>1. OnlyMoves(t) /\ ~InLinkSection(t)' /\ UNCHANGED <<client, link, connLock>>
      BY <2>1, <2>3, SuspendMoves, BeginSendMoves DEF InLinkSection, connVars
    <3> QED
      BY <2>1, <3>1, OutsideStep, LinkStaysNoLiver
  <2> QED
    BY <1>1, <2>2, <2>3 DEF Connect, Write
<1>2. ASSUME NEW t \in Callers, Disconnect(t)
      PROVE  LinkInv'
  <2>1. t \in Tasks /\ ~InLinkSection(t) /\ UNCHANGED <<client, link>>
    BY <1>2 DEF Disconnect, Call, Running, InLinkSection, Tasks, linkVars
  <2>2. OnlyMoves(t)
    BY <1>2, <2>1, SuspendMoves, ReturnMoves DEF Disconnect, LockedDisconnect
  <2>3. CASE UNCHANGED connLock /\ pc'[t] # "disconnecting"
    <3>1. ~InLinkSection(t)'
      BY <1>2, <2>1, <2>3, SuspendMoves, ReturnMoves
      DEF Disconnect, LockedDisconnect, InLinkSection
    <3> QED
      BY <2>1, <2>2, <2>3, <3>1, OutsideStep, LinkStaysNoLiver
  <2>4. CASE connLock = NoTask /\ connLock' = t /\ pc'[t] = "disconnecting"
    <3>1. \A u \in Tasks : ~InLinkSection(u)
      BY <2>4, SectionFree
    <3> QED
      BY <2>1, <2>2, <2>4, <3>1
      DEF LinkInv, InLinkSection, OnlyMoves, ClientNotSwapped, OneLiveLink, IsConnected
  <2> QED
    BY <1>2, <2>1, <2>3, <2>4, SuspendMoves, ReturnMoves
    DEF Disconnect, LockedDisconnect, LockFree
<1>3. ASSUME NEW enabled \in BOOLEAN, SetAutoReconnect(enabled)
      PROVE  LinkInv'
  BY <1>3
  DEF SetAutoReconnect, linkVars, connVars, LinkInv, InLinkSection, ClientNotSwapped,
      OneLiveLink, IsConnected
<1> QED
  BY <1>1, <1>2, <1>3 DEF Application

LEMMA LinkNext == TypeOK /\ LinkInv /\ [Next]_vars => LinkInv'
<1> SUFFICES ASSUME TypeOK, LinkInv, [Next]_vars PROVE LinkInv'
  OBVIOUS
<1>1. CASE World
  <2>1. PICK g \in Generations : Drop(g) \/ HostResumes(g)
    BY <1>1 DEF World
  <2>2. NoLiver(link') /\ UNCHANGED <<client, connLock, pc, gen>>
    BY <2>1
    DEF Drop, HostResumes, NoLiver, TypeOK, Live, LinkStates, connVars, taskVars
  <2> QED
    BY <2>2
    DEF LinkInv, InLinkSection, ClientNotSwapped, OneLiveLink, NoLiver, IsConnected, TypeOK,
        Generations
<1>2. CASE HandleDisconnect
  <2>1. CASE UNCHANGED <<pc, gen, after>>
    BY <1>2, <2>1
    DEF HandleDisconnect, linkVars, connVars, LinkInv, InLinkSection, ClientNotSwapped,
        OneLiveLink, IsConnected
  <2>2. ASSUME NEW l \in Loops, ~Running(l), Suspend(l, "starting", 0, "loop")
        PROVE  LinkInv'
    <3>1. l \in Tasks /\ OnlyMoves(l) /\ ~InLinkSection(l) /\ ~InLinkSection(l)'
      BY <2>2, SuspendMoves DEF Tasks, Running, InLinkSection
    <3>2. UNCHANGED <<client, link, connLock>>
      BY <1>2 DEF HandleDisconnect, linkVars, connVars
    <3> QED
      BY <3>1, <3>2, OutsideStep, LinkStaysNoLiver
  <2> QED
    BY <1>2, <2>1, <2>2 DEF HandleDisconnect
<1>3. CASE UNCHANGED vars
  BY <1>3
  DEF vars, linkVars, connVars, taskVars, LinkInv, InLinkSection, ClientNotSwapped,
      OneLiveLink, IsConnected
<1> QED
  BY <1>1, <1>2, <1>3, CallerStepLink, LoopStepLink, ApplicationLink DEF Next, Finished

LEMMA LinkInit == Init => LinkInv
  BY DEF Init, LinkInv, InLinkSection, ClientNotSwapped, OneLiveLink, Live

LEMMA LinkAlways == Spec => []LinkInv
  BY Typing, LinkInit, LinkNext, PTL DEF Spec

(* No connected BleakClient is ever left behind self._client. *)
THEOREM NoLeakedLink == Spec => []OneLiveLink
  BY LinkAlways, PTL DEF LinkInv

(* self._client stays the client that connect() is connecting. *)
THEOREM ClientKept == Spec => []ClientNotSwapped
  BY LinkAlways, PTL DEF LinkInv

-----------------------------------------------------------------------------
(* The cached write size *)

(* A link function in which no client is ready for writes that was not. *)
NoReadier(lk) ==
  /\ lk \in [Generations -> LinkStates]
  /\ \A g \in Generations : lk[g] \in {"up", "stale"} => link[g] \in {"up", "stale"}

LEMMA SizeKept ==
  ASSUME TypeOK, CachedSizeIsCurrent, UNCHANGED <<client, writeSize>>, NoReadier(link')
  PROVE  CachedSizeIsCurrent'
<1>1. client # 0 => client \in Generations
  BY BoundsAssumption DEF TypeOK, Generations
<1> QED
  BY <1>1 DEF CachedSizeIsCurrent, IsWriteReady, NoReadier

(* Who begins a frame takes what is cached, or reads what self._client says.  *)
LEMMA SizeRead ==
  ASSUME TypeOK, CachedSizeIsCurrent, NEW t, NEW lk, BeginSend(t, lk),
         UNCHANGED client, link' = lk, NoReadier(lk)
  PROVE  CachedSizeIsCurrent'
<1>1. CASE UNCHANGED writeSize
  BY <1>1, SizeKept
<1>2. CASE writeSize' = client
  BY <1>2 DEF CachedSizeIsCurrent
<1> QED
  BY <1>1, <1>2 DEF BeginSend, writeVars

(* A client that is not connected yet is not written on. *)
LEMMA SizeBuild ==
  ASSUME TypeOK, NEW t, NEW k, NEW lk \in [Generations -> LinkStates], BuildClient(t, k, lk)
  PROVE  CachedSizeIsCurrent'
<1>1. client' \in Generations /\ link' = [lk EXCEPT ![client'] = "new"]
  BY BoundsAssumption DEF BuildClient, TypeOK, Generations
<1>2. link'[client'] = "new"
  BY <1>1
<1> QED
  BY <1>2 DEF CachedSizeIsCurrent, IsWriteReady

LEMMA SizeResume ==
  ASSUME TypeOK, CachedSizeIsCurrent, NEW t, NEW k, NEW lk, Resume(t, k, lk),
         UNCHANGED client, link' = lk, NoReadier(lk)
  PROVE  CachedSizeIsCurrent'
<1>1. CASE BeginSend(t, lk)
  BY <1>1, SizeRead
<1>2. CASE UNCHANGED writeVars
  BY <1>2, SizeKept DEF writeVars
<1> QED
  BY <1>1, <1>2 DEF Resume

LEMMA SizeLockedConnect ==
  ASSUME TypeOK, CachedSizeIsCurrent, NEW t, NEW k, NEW lk, NoReadier(lk), LockedConnect(t, k, lk)
  PROVE  CachedSizeIsCurrent'
<1>1. CASE Resume(t, k, lk) /\ link' = lk /\ UNCHANGED client
  BY <1>1, SizeResume
<1>2. CASE BuildClient(t, k, lk)
  BY <1>2, SizeBuild DEF NoReadier
<1>3. CASE link' = lk /\ UNCHANGED <<client, writeVars>>
  BY <1>3, SizeKept DEF writeVars
<1> QED
  BY <1>1, <1>2, <1>3 DEF LockedConnect

LEMMA SizeEnterConnect ==
  ASSUME TypeOK, CachedSizeIsCurrent, NEW t, NEW k, NEW lk, NoReadier(lk), EnterConnect(t, k, lk)
  PROVE  CachedSizeIsCurrent'
<1>1. CASE LockedConnect(t, k, lk)
  BY <1>1, SizeLockedConnect
<1>2. CASE link' = lk /\ UNCHANGED <<client, writeVars>>
  BY <1>2, SizeKept DEF writeVars
<1> QED
  BY <1>1, <1>2 DEF EnterConnect

LEMMA LinkIsNoReadier == ASSUME TypeOK PROVE NoReadier(link)
  BY DEF TypeOK, NoReadier

LEMMA TaskStepSize ==
  ASSUME TypeOK, CachedSizeIsCurrent, NEW t \in Tasks, TaskStep(t)
  PROVE  CachedSizeIsCurrent'
<1>1. CASE ConnectGranted(t)
  BY <1>1, LinkIsNoReadier, SizeLockedConnect DEF ConnectGranted
<1>2. CASE Discovered(t)
  BY <1>2, SizeBuild DEF Discovered, TypeOK
<1>3. CASE ConnectFailed(t)
  <2>1. NoReadier(link')
    BY <1>3 DEF ConnectFailed, NoReadier, TypeOK, LinkStates
  <2>2. UNCHANGED <<client, writeSize>>
    BY <1>3 DEF ConnectFailed, Raise, writeVars
  <2> QED
    BY <2>1, <2>2, SizeKept
<1>4. CASE Connected(t)
  BY <1>4 DEF Connected, CachedSizeIsCurrent
<1>5. CASE Subscribed(t)
  BY <1>5, LinkIsNoReadier, SizeKept DEF Subscribed, writeVars
<1>6. CASE Notified(t)
  BY <1>6, LinkIsNoReadier, SizeResume DEF Notified, linkVars
<1> QED
  BY <1>1, <1>2, <1>3, <1>4, <1>5, <1>6 DEF TaskStep

LEMMA ClosesNoReadier ==
  ASSUME TypeOK, NEW g, NEW lk \in ClosedOrNot(g)
  PROVE  NoReadier(lk)
  BY DEF ClosedOrNot, NoReadier, TypeOK, LinkStates

LEMMA CallerStepSize ==
  ASSUME TypeOK, CachedSizeIsCurrent, NEW t \in Callers, CallerStep(t)
  PROVE  CachedSizeIsCurrent'
<1>1. CASE TaskStep(t)
  BY <1>1, TaskStepSize DEF Tasks
<1>2. CASE DisconnectGranted(t) \/ WriteGranted(t) \/ PieceWritten(t) \/ PieceFailed(t)
  <2>1. UNCHANGED <<client, link, writeSize>>
    BY <1>2 DEF DisconnectGranted, WriteGranted, PieceWritten, PieceFailed, linkVars, writeVars
  <2> QED
    BY <2>1, LinkIsNoReadier, SizeKept
<1>3. CASE Disconnected(t)
  BY <1>3, ClosesNoReadier, SizeKept DEF Disconnected, writeVars
<1>4. CASE Healed(t)
  BY <1>4, ClosesNoReadier, SizeEnterConnect DEF Healed
<1> QED
  BY <1>1, <1>2, <1>3, <1>4 DEF CallerStep

LEMMA LoopStepSize ==
  ASSUME TypeOK, CachedSizeIsCurrent, NEW l \in Loops, LoopStep(l)
  PROVE  CachedSizeIsCurrent'
<1>1. CASE TaskStep(l)
  BY <1>1, TaskStepSize DEF Tasks
<1>2. CASE LoopStarts(l)
  BY <1>2, LinkIsNoReadier, SizeKept DEF LoopStarts, linkVars, writeVars
<1>3. CASE LoopWakes(l)
  <2>1. CASE UNCHANGED <<client, link, writeVars>>
    BY <2>1, LinkIsNoReadier, SizeKept DEF writeVars
  <2>2. CASE EnterConnect(l, "loop", link)
    BY <2>2, LinkIsNoReadier, SizeEnterConnect
  <2> QED
    BY <1>3, <2>1, <2>2 DEF LoopWakes
<1>4. CASE CancelledErrorThrown(l)
  <2>1. NoReadier(link')
    BY <1>4 DEF CancelledErrorThrown, NoReadier, TypeOK, LinkStates
  <2> QED
    BY <1>4, <2>1, SizeKept DEF CancelledErrorThrown, writeVars
<1> QED
  BY <1>1, <1>2, <1>3, <1>4 DEF LoopStep

LEMMA SizeNext == TypeOK /\ CachedSizeIsCurrent /\ [Next]_vars => CachedSizeIsCurrent'
<1> SUFFICES ASSUME TypeOK, CachedSizeIsCurrent, [Next]_vars PROVE CachedSizeIsCurrent'
  OBVIOUS
<1>1. ASSUME NEW t \in Callers, Connect(t) \/ Write(t)
      PROVE  CachedSizeIsCurrent'
  <2>1. CASE \E k : EnterConnect(t, k, link)
    BY <2>1, LinkIsNoReadier, SizeEnterConnect
  <2>2. CASE UNCHANGED <<client, link, writeVars>>
    BY <2>2, LinkIsNoReadier, SizeKept DEF writeVars
  <2>3. CASE BeginSend(t, link) /\ UNCHANGED <<client, link>>
    BY <2>3, LinkIsNoReadier, SizeRead
  <2> QED
    BY <1>1, <2>1, <2>2, <2>3 DEF Connect, Write
<1>2. CASE (\E t \in Callers : Disconnect(t)) \/ (\E enabled \in BOOLEAN : SetAutoReconnect(enabled))
  BY <1>2, LinkIsNoReadier, SizeKept DEF Disconnect, SetAutoReconnect, linkVars, writeVars
<1>3. CASE World
  <2>1. NoReadier(link')
    BY <1>3 DEF World, Drop, HostResumes, NoReadier, TypeOK, LinkStates
  <2> QED
    BY <1>3, <2>1, SizeKept DEF World, Drop, HostResumes, writeVars
<1>4. CASE HandleDisconnect \/ UNCHANGED vars
  BY <1>4, LinkIsNoReadier, SizeKept DEF HandleDisconnect, vars, linkVars, writeVars
<1> QED
  BY <1>1, <1>2, <1>3, <1>4, CallerStepSize, LoopStepSize DEF Next, Application, Finished

(* The cached write size is that of the link that is up, whichever tasks and   *)
(* loops connected it and whichever wrote on it first (ble.py:216, 451).       *)
THEOREM CachedSizeKeepsUp == Spec => []CachedSizeIsCurrent
<1>1. Init => CachedSizeIsCurrent
  BY DEF Init, CachedSizeIsCurrent
<1> QED
  BY <1>1, SizeNext, Typing, PTL DEF Spec

-----------------------------------------------------------------------------
(* Counting reconnections *)

Established(lk) == {g \in Generations : lk[g] \in Live \cup {"down"}}

(* A loop whose next success counts a link that is established already. *)
Owed(l) ==
  /\ Supervising(l) /\ pc[l] # "starting"
  /\ pc[l] \in {"subscribing", "notifying"} \/ IsConnected(link)

(* A client is new until its connect() ends; those to come are not built.     *)
LinkAges ==
  /\ \A t \in Tasks : pc[t] = "connecting" => gen[t] \in Generations /\ link[gen[t]] = "new"
  /\ \A t \in Tasks : pc[t] = "subscribing" => gen[t] \in Established(link)
  /\ \A g \in Generations : g > client => link[g] = "none"

(* A loop starts over only on a lost link, so while it supervises, a link     *)
(* that is connected has been established since and is not counted yet.       *)
CountBound ==
  /\ armed \/ count > 0 \/ (\E l \in Loops : Running(l))
       => count < Cardinality(Established(link))
  /\ \A l \in Loops : Owed(l) => count + 1 < Cardinality(Established(link))

CountInv == LinkAges /\ CountBound /\ \A t \in Callers : after[t] # "loop"

LEMMA EstablishedFinite ==
  ASSUME NEW lk
  PROVE  IsFiniteSet(Established(lk)) /\ Cardinality(Established(lk)) \in Nat
<1>1. IsFiniteSet(Generations)
  BY FS_Interval, BoundsAssumption DEF Generations
<1>2. Established(lk) \in SUBSET Generations
  BY DEF Established
<1> QED
  BY <1>1, <1>2, FS_Subset, FS_CardinalityType

LEMMA EstablishedGrows ==
  ASSUME NEW lk, NEW lk2, Established(lk) \subseteq Established(lk2)
  PROVE  /\ Cardinality(Established(lk)) <= Cardinality(Established(lk2))
         /\ Established(lk) # Established(lk2) =>
              Cardinality(Established(lk)) < Cardinality(Established(lk2))
<1> DEFINE old == Established(lk)
           new == Established(lk2)
<1>1. /\ IsFiniteSet(new) /\ Cardinality(old) \in Nat /\ Cardinality(new) \in Nat
      /\ old \in SUBSET new
  BY EstablishedFinite
<1> HIDE DEF old, new
<1>2. Cardinality(old) <= Cardinality(new) /\ (Cardinality(new) = Cardinality(old) => new = old)
  BY <1>1, FS_Subset
<1>3. Cardinality(old) <= Cardinality(new) /\ (old # new => Cardinality(old) < Cardinality(new))
  BY <1>1, <1>2
<1> QED
  BY <1>3 DEF old, new

LEMMA CountKept ==
  ASSUME TypeOK, CountBound, UNCHANGED count,
         Established(link) \subseteq Established(link'),
         armed' => armed \/ Established(link') # {},
         \A l \in Loops : Running(l)' => Running(l) \/ armed,
         \A l \in Loops : Owed(l)' =>
           Owed(l) \/ (Running(l) /\ Established(link) # Established(link'))
  PROVE  CountBound'
<1> DEFINE old == Cardinality(Established(link))
           new == Cardinality(Established(link'))
<1>1. /\ old \in Nat /\ new \in Nat /\ old <= new
      /\ Established(link) # Established(link') => old < new
  BY EstablishedFinite, EstablishedGrows
<1>2. Established(link') # {} => new > 0
  BY <1>1, EstablishedFinite, FS_EmptySet
<1>3. /\ count \in Nat
      /\ armed \/ count > 0 \/ (\E l \in Loops : Running(l)) => count < old
      /\ \A l \in Loops : Owed(l) => count + 1 < old
  BY DEF CountBound, TypeOK
<1>4. armed' \/ count' > 0 \/ (\E l \in Loops : Running(l)') => count' < new
  <2> HIDE DEF old, new
  <2>1. CASE count = 0 /\ Established(link') # {}
    BY <1>1, <1>2, <2>1
  <2>2. CASE ~(count = 0 /\ Established(link') # {})
    <3>1. armed' \/ count' > 0 \/ (\E l \in Loops : Running(l)') =>
            armed \/ count > 0 \/ (\E l \in Loops : Running(l))
      BY <1>3, <2>2
    <3>2. count < old => count' < new
      BY <1>1, <1>3
    <3> QED
      BY <1>3, <3>1, <3>2
  <2> QED
    BY <2>1, <2>2
<1>5. ASSUME NEW l \in Loops, Owed(l)'
      PROVE  count' + 1 < new
  <2> HIDE DEF old, new
  <2>1. CASE Owed(l)
    BY <1>1, <1>3, <2>1
  <2>2. CASE Running(l) /\ Established(link) # Established(link')
    BY <1>1, <1>3, <2>2
  <2> QED
    BY <1>5, <2>1, <2>2
<1>6. Established(link)' = Established(link')
  BY DEF Established
<1> QED
  BY <1>4, <1>5, <1>6 DEF CountBound

(* Links that have only been lost or fallen asleep. *)
Aged(lk) ==
  /\ lk \in [Generations -> LinkStates]
  /\ \A g \in Generations : lk[g] = link[g] \/ (link[g] \in Live /\ lk[g] \in Live \cup {"down"})

LEMMA ClosesAged ==
  ASSUME TypeOK, NEW g, NEW lk \in ClosedOrNot(g), Closes(g, lk)
  PROVE  Aged(lk)
  BY DEF ClosedOrNot, Closes, Aged, TypeOK, LinkStates, Live

LEMMA LinkIsAged ==
  ASSUME TypeOK
  PROVE  Aged(link)
  BY DEF Aged, TypeOK

LEMMA AgedGrows ==
  ASSUME TypeOK, NEW lk, Aged(lk)
  PROVE  /\ Established(link) \subseteq Established(lk)
         /\ IsConnected(lk) => IsConnected(link)
         /\ \A g \in Generations : link[g] \in {"none", "new"} => lk[g] = link[g]
<1>1. client # 0 => client \in Generations
  BY BoundsAssumption DEF TypeOK, Generations
<1>2. IsConnected(lk) => IsConnected(link)
  BY <1>1 DEF Aged, IsConnected
<1>3. Established(link) \subseteq Established(lk)
  BY DEF Aged, Established
<1>4. \A g \in Generations : link[g] \in {"none", "new"} => lk[g] = link[g]
  BY DEF Aged, Live
<1> QED
  BY <1>2, <1>3, <1>4

(* What a step of task t leaves alone. *)
Calm(t) ==
  /\ OnlyMoves(t)
  /\ cancelled \subseteq cancelled' \cup {t}
  /\ t \in Callers => after'[t] # "loop"
  /\ t \in Loops => Running(t) \/ armed \/ ~Running(t)'

LEMMA AgeStep ==
  ASSUME TypeOK, CountInv, NEW t \in Tasks, Calm(t), UNCHANGED <<client, count>>, Aged(link'),
         pc'[t] \notin {"connecting", "subscribing"},
         t \in Loops => Owed(t) \/ ~Owed(t)',
         armed' => armed \/ Established(link') # {}
  PROVE  CountInv'
<1> USE DEF Calm, OnlyMoves
<1>1. /\ Established(link) \subseteq Established(link')
      /\ IsConnected(link') => IsConnected(link)
      /\ \A g \in Generations : link[g] \in {"none", "new"} => link'[g] = link[g]
  BY AgedGrows
<1>2. LinkAges'
  BY <1>1 DEF CountInv, LinkAges, Established
<1>3. \A l \in Loops : Running(l)' => Running(l) \/ armed
  BY DEF Running, Tasks
<1>4. \A l \in Loops : Owed(l)' => Owed(l)
  <2>1. IsConnected(link)' => IsConnected(link)
    BY <1>1 DEF IsConnected
  <2> QED
    BY <2>1 DEF Owed, Supervising, Running, Tasks
<1>5. CountBound'
  BY <1>1, <1>3, <1>4, CountKept DEF CountInv
<1>6. \A u \in Callers : after'[u] # "loop"
  BY DEF CountInv, Tasks
<1> QED
  BY <1>2, <1>5, <1>6 DEF CountInv

LEMMA BuildStep ==
  ASSUME TypeOK, CountInv, NEW t \in Tasks, Calm(t), NEW k, NEW lk, Aged(lk),
         BuildClient(t, k, lk), UNCHANGED <<count, armed>>
  PROVE  CountInv'
<1> USE DEF Calm, OnlyMoves
<1>1. /\ Established(link) \subseteq Established(lk)
      /\ \A g \in Generations : link[g] \in {"none", "new"} => lk[g] = link[g]
  BY AgedGrows
<1>2. /\ client' = client + 1 /\ client' \in Generations
      /\ link' = [lk EXCEPT ![client'] = "new"]
      /\ lk \in [Generations -> LinkStates]
  BY BoundsAssumption DEF BuildClient, TypeOK, Generations, Aged
<1>3. pc'[t] = "connecting" /\ gen'[t] = client'
  BY <1>2, SuspendMoves DEF BuildClient
<1>4. link[client'] = "none" /\ lk[client'] = "none"
  BY <1>1, <1>2 DEF CountInv, LinkAges, TypeOK
<1>5. Established(link) \subseteq Established(link')
  BY <1>1, <1>2, <1>4 DEF Established, Live
<1>6. ~IsConnected(link)'
  BY <1>2 DEF IsConnected, Live
<1>7. LinkAges'
  <2>1. ASSUME NEW u \in Tasks, pc'[u] = "connecting"
        PROVE  gen'[u] \in Generations /\ link'[gen'[u]] = "new"
    <3>1. CASE u = t
      BY <1>2, <1>3, <3>1
    <3>2. CASE u # t
      <4>1. gen'[u] = gen[u] /\ gen[u] \in Generations /\ link[gen[u]] = "new"
        BY <2>1, <3>2 DEF CountInv, LinkAges
      <4>2. lk[gen[u]] = "new"
        BY <1>1, <4>1
      <4> QED
        BY <1>2, <4>1, <4>2
    <3> QED
      BY <3>1, <3>2
  <2>2. \A u \in Tasks : pc'[u] = "subscribing" => gen'[u] \in Established(link)'
    BY <1>3, <1>5 DEF CountInv, LinkAges, Established
  <2>3. \A g \in Generations : g > client' => link'[g] = "none"
    BY <1>1, <1>2 DEF CountInv, LinkAges, Generations, TypeOK
  <2> QED
    BY <2>1, <2>2, <2>3 DEF LinkAges
<1>8. \A l \in Loops : Running(l)' => Running(l) \/ armed
  BY DEF Running, Tasks
<1>9. \A l \in Loops : Owed(l)' => Owed(l)
  BY <1>3, <1>6 DEF Owed, Supervising, Running, Tasks
<1>10. CountBound'
  BY <1>5, <1>8, <1>9, CountKept DEF CountInv
<1>11. \A u \in Callers : after'[u] # "loop"
  BY DEF CountInv, Tasks
<1> QED
  BY <1>7, <1>10, <1>11 DEF CountInv

(* The connect() of task t's client ends: up, failed, or cut short. *)
LEMMA EndStep ==
  ASSUME TypeOK, LinkInv, CountInv, NEW t \in Tasks, Calm(t), pc[t] = "connecting",
         NEW s \in {"up", "failed", "unready"}, link' = [link EXCEPT ![gen[t]] = s],
         UNCHANGED <<client, count, armed>>,
         pc'[t] # "connecting",
         pc'[t] = "subscribing" => gen'[t] = gen[t] /\ s = "up",
         t \in Loops => Running(t) /\ (s = "failed" => ~Owed(t)')
  PROVE  CountInv'
<1> USE DEF Calm, OnlyMoves
<1>1. gen[t] \in Generations /\ link[gen[t]] = "new" /\ link \in [Generations -> LinkStates]
  BY DEF CountInv, LinkAges, TypeOK
<1>2. \A u \in Tasks \ {t} : pc[u] # "connecting"
  BY SectionMine DEF InLinkSection
<1>3. Established(link) \subseteq Established(link')
  BY <1>1 DEF Established, Live
<1>4. s # "failed" => gen[t] \in Established(link') \ Established(link)
  BY <1>1 DEF Established, Live
<1>5. LinkAges'
  <2>1. \A u \in Tasks : pc'[u] # "connecting"
    BY <1>2
  <2>2. \A u \in Tasks : pc'[u] = "subscribing" => gen'[u] \in Established(link)'
    BY <1>3, <1>4 DEF CountInv, LinkAges, Established
  <2>3. \A g \in Generations : g > client' => link'[g] = "none"
    BY <1>1 DEF CountInv, LinkAges
  <2> QED
    BY <2>1, <2>2, <2>3 DEF LinkAges
<1>6. \A l \in Loops : Running(l)' => Running(l) \/ armed
  BY DEF Running, Tasks
<1>7. \A l \in Loops : Owed(l)' =>
        Owed(l) \/ (Running(l) /\ Established(link) # Established(link'))
  <2>1. CASE s = "failed"
    <3>1. IsConnected(link)' => IsConnected(link)
      BY <1>1, <2>1 DEF IsConnected, Live
    <3> QED
      BY <2>1, <3>1 DEF Owed, Supervising, Running, Tasks
  <2>2. CASE s # "failed"
    BY <1>4, <2>2 DEF Owed, Supervising, Running, Tasks
  <2> QED
    BY <2>1, <2>2
<1>8. CountBound'
  BY <1>3, <1>6, <1>7, CountKept DEF CountInv
<1>9. \A u \in Callers : after'[u] # "loop"
  BY DEF CountInv, Tasks
<1> QED
  BY <1>5, <1>8, <1>9 DEF CountInv

(* A supervising loop counts a success: there is no other one to be owed it.  *)
LEMMA LoopCounts ==
  ASSUME TypeOK, SupervisionInv, CountInv, NEW l \in Loops, Owed(l),
         count' = count + 1, LoopAgain(l, link), UNCHANGED <<client, link, cancelled>>
  PROVE  CountInv'
<1> l \in Tasks
  BY DEF Tasks
<1>1. /\ OnlyMoves(l) /\ pc'[l] \in {"idle", "sleeping"}
      /\ pc'[l] = "sleeping" => ~IsConnected(link)
  BY ReturnMoves, SuspendMoves DEF LoopAgain
<1>2. LinkAges'
  BY <1>1 DEF OnlyMoves, CountInv, LinkAges, Established
<1>3. \A m \in Loops : ~Owed(m)'
  <2>1. ASSUME NEW m \in Loops \ {l}
        PROVE  ~Supervising(m)
    BY DEF SupervisionInv, OneSupervisor, Owed
  <2>2. ~Owed(l)'
    BY <1>1 DEF Owed, Supervising, Running, IsConnected
  <2> QED
    BY <1>1, <2>1, <2>2 DEF Owed, Supervising, Running, OnlyMoves, Tasks
<1>4. count' < Cardinality(Established(link'))
  <2>1. count + 1 < Cardinality(Established(link))
    BY DEF CountInv, CountBound
  <2> QED
    BY <2>1
<1>5. \A u \in Callers : after'[u] # "loop"
  BY <1>1, TasksAssumption DEF OnlyMoves, CountInv, Tasks
<1> QED
  BY <1>2, <1>3, <1>4, <1>5 DEF CountInv, CountBound, Established

LEMMA AfterKept ==
  ASSUME TypeOK, NEW t \in Tasks, NEW k, NEW lk,
         \/ Resume(t, k, lk) \/ Raise(t, k, lk)
         \/ BuildClient(t, k, lk) \/ LockedConnect(t, k, lk) \/ EnterConnect(t, k, lk)
  PROVE  k # "loop" => after'[t] # "loop"
<1> SUFFICES ASSUME k # "loop" PROVE after'[t] # "loop"
  OBVIOUS
<1>1. CASE BuildClient(t, k, lk)
  BY <1>1, SuspendMoves DEF BuildClient
<1>2. BeginSend(t, lk) => after'[t] = "return"
  <2>1. BeginSend(t, lk) =>
          \/ Return(t) \/ WritePiece(t, "writing") \/ Suspend(t, "writeWait", 0, "return")
    BY DEF BeginSend
  <2> QED
    BY <2>1, ReturnMoves, WritePieceMoves, SuspendMoves
<1>3. CASE Resume(t, k, lk)
  BY <1>2, <1>3, ReturnMoves, WritePieceMoves DEF Resume
<1>4. CASE Raise(t, k, lk)
  BY <1>4, ReturnMoves DEF Raise
<1>5. CASE LockedConnect(t, k, lk)
  BY <1>1, <1>3, <1>5, SuspendMoves DEF LockedConnect
<1>6. CASE EnterConnect(t, k, lk)
  BY <1>5, <1>6, SuspendMoves DEF EnterConnect
<1> QED
  BY <1>1, <1>3, <1>4, <1>5, <1>6

(* connect() returned to task t, which counts it if it is a loop. *)
LEMMA ResumeCount ==
  ASSUME TypeOK, SupervisionInv, CountInv, NEW t \in Tasks, NEW k, NEW lk, Aged(lk),
         Resume(t, k, lk), link' = lk, UNCHANGED <<client, cancelled, armed>>,
         t \in Callers => k # "loop",
         t \in Loops => Owed(t) /\ lk = link
  PROVE  CountInv'
<1>1. CASE k = "loop"
  <2>1. t \in Loops /\ count' = count + 1 /\ LoopAgain(t, link) /\ lk = link
    BY <1>1 DEF Resume, Tasks
  <2> QED
    BY <2>1, LoopCounts
<1>2. CASE k # "loop"
  <2>1. UNCHANGED count
    BY <1>2 DEF Resume
  <2>2. /\ OnlyMoves(t) /\ pc'[t] \notin {"connecting", "subscribing"} /\ after'[t] # "loop"
    BY <1>2, ResumeMoves, AfterKept
  <2>3. Calm(t)
    BY <2>2 DEF Calm, Owed, Supervising
  <2> QED
    BY <2>1, <2>2, <2>3, AgeStep
<1> QED
  BY <1>1, <1>2

(* Task t, which holds no lock yet, asks for a connection. *)
LEMMA LockedConnectCount ==
  ASSUME TypeOK, SupervisionInv, CountInv, NEW t \in Tasks, NEW k, NEW lk, Aged(lk),
         LockedConnect(t, k, lk), UNCHANGED <<cancelled, armed>>,
         t \in Callers => k # "loop",
         t \in Loops => /\ Supervising(t) /\ pc[t] # "starting" /\ lk = link
  PROVE  CountInv'
<1>1. OnlyMoves(t) /\ (k # "loop" => after'[t] # "loop")
  BY LockedConnectMoves, AfterKept
<1>2. Calm(t)
  BY <1>1 DEF Calm, Supervising
<1>3. CASE IsConnected(lk)
  <2>1. link' = lk /\ Resume(t, k, lk) /\ UNCHANGED client
    BY <1>3 DEF LockedConnect
  <2>2. t \in Loops => Owed(t)
    BY <1>3 DEF Owed
  <2> QED
    BY <2>1, <2>2, ResumeCount
<1>4. CASE ~IsConnected(lk) /\ macKnown
  <2>1. BuildClient(t, k, lk) /\ UNCHANGED count
    BY <1>4 DEF LockedConnect
  <2> QED
    BY <1>2, <2>1, BuildStep
<1>5. CASE ~IsConnected(lk) /\ ~macKnown
  <2>1. Suspend(t, "discovering", 0, k) /\ link' = lk /\ UNCHANGED <<client, count>>
    BY <1>5 DEF LockedConnect
  <2>2. pc'[t] = "discovering" /\ ~IsConnected(link)'
    BY <1>5, <2>1, SuspendMoves DEF IsConnected
  <2>3. ~Owed(t)'
    BY <2>2 DEF Owed
  <2> QED
    BY <1>2, <2>1, <2>2, <2>3, AgeStep
<1> QED
  BY <1>3, <1>4, <1>5

LEMMA EnterConnectCount ==
  ASSUME TypeOK, SupervisionInv, CountInv, NEW t \in Tasks, NEW k, NEW lk, Aged(lk),
         EnterConnect(t, k, lk), UNCHANGED <<cancelled, armed>>,
         t \in Callers => k # "loop",
         t \in Loops => /\ Supervising(t) /\ pc[t] # "starting" /\ lk = link
  PROVE  CountInv'
<1>1. CASE LockFree(connLock, connQueue)
  BY <1>1, LockedConnectCount DEF EnterConnect
<1>2. CASE ~LockFree(connLock, connQueue)
  <2>1. /\ Suspend(t, "connWait", 0, k) /\ link' = lk /\ UNCHANGED <<client, count>>
    BY <1>2 DEF EnterConnect
  <2>2. OnlyMoves(t) /\ pc'[t] = "connWait" /\ after'[t] = k
    BY <2>1, SuspendMoves
  <2>3. Calm(t)
    BY <2>2 DEF Calm, Supervising
  <2>4. t \in Loops => Owed(t) \/ ~Owed(t)'
    BY <2>1, <2>2 DEF Owed, Supervising, IsConnected
  <2> QED
    BY <2>1, <2>2, <2>3, <2>4, AgeStep
<1> QED
  BY <1>1, <1>2

LEMMA TaskStepCount ==
  ASSUME TypeOK, SupervisionInv, LinkInv, CountInv, NEW t \in Tasks, TaskStep(t)
  PROVE  CountInv'
<1>1. /\ OnlyMoves(t) /\ UNCHANGED cancelled
      /\ t \in Callers => after[t] # "loop"
      /\ t \in Loops => Supervising(t) /\ Running(t)
  BY TaskStepMoves
  DEF TaskStep, ConnectGranted, Discovered, ConnectFailed, Connected, Subscribed, Notified,
      CountInv, Supervising, Running
<1>2. Aged(link)
  BY LinkIsAged
<1>3. CASE ConnectGranted(t)
  BY <1>1, <1>2, <1>3, LockedConnectCount DEF ConnectGranted
<1>4. CASE Discovered(t)
  <2>1. BuildClient(t, after[t], link) /\ UNCHANGED <<count, armed>>
    BY <1>4 DEF Discovered, superVars
  <2>2. Calm(t)
    BY <1>1, <2>1, AfterKept DEF Calm
  <2> QED
    BY <1>2, <2>1, <2>2, BuildStep
<1>5. CASE ConnectFailed(t)
  <2>1. PICK lk : /\ link' = lk /\ Raise(t, after[t], lk)
                  /\ lk = IF pc[t] = "connecting" THEN [link EXCEPT ![gen[t]] = "failed"] ELSE link
    BY <1>5 DEF ConnectFailed
  <2>2. UNCHANGED <<client, count, armed>>
    BY <1>5, <2>1 DEF ConnectFailed, Raise
  <2>3. pc'[t] \in {"idle", "sleeping"} /\ (after[t] # "loop" => after'[t] # "loop")
    BY <2>1, RaiseMoves, AfterKept
  <2>4. Calm(t)
    BY <1>1, <2>3 DEF Calm
  <2>5. pc'[t] = "sleeping" => ~IsConnected(link)'
    <3>1. Return(t) \/ (~IsConnected(lk) /\ Suspend(t, "sleeping", 0, "loop"))
      BY <2>1 DEF Raise, LoopAgain
    <3>2. Return(t) => pc'[t] = "idle"
      BY ReturnMoves
    <3> QED
      BY <2>1, <2>2, <3>1, <3>2 DEF IsConnected
  <2>6. ~Owed(t)'
    BY <2>3, <2>5 DEF Owed, Supervising, Running
  <2>7. CASE pc[t] = "connecting"
    BY <1>1, <2>1, <2>2, <2>3, <2>4, <2>6, <2>7, EndStep
  <2>8. CASE pc[t] # "connecting"
    BY <1>2, <2>1, <2>2, <2>3, <2>4, <2>6, <2>8, AgeStep
  <2> QED
    BY <2>7, <2>8
<1>6. CASE Connected(t)
  <2>1. /\ pc[t] = "connecting" /\ pc'[t] = "subscribing" /\ gen'[t] = gen[t]
        /\ after'[t] = after[t]
        /\ link' = [link EXCEPT ![gen[t]] = "up"] /\ UNCHANGED <<client, count, armed>>
    BY <1>6, SuspendMoves DEF Connected, superVars
  <2>2. Calm(t)
    BY <1>1, <2>1 DEF Calm
  <2> QED
    BY <1>1, <2>1, <2>2, EndStep
<1>7. CASE Subscribed(t)
  <2>1. /\ pc[t] = "subscribing" /\ pc'[t] = "notifying" /\ after'[t] = after[t]
        /\ UNCHANGED <<client, link, count>>
    BY <1>7, SuspendMoves DEF Subscribed
  <2>2. Calm(t)
    BY <1>1, <2>1 DEF Calm
  <2>3. Established(link') # {}
    BY <2>1 DEF CountInv, LinkAges
  <2>4. t \in Loops => Owed(t)
    BY <1>1, <2>1 DEF Owed
  <2> QED
    BY <1>2, <2>1, <2>2, <2>3, <2>4, AgeStep
<1>8. CASE Notified(t)
  <2>1. Resume(t, after[t], link) /\ pc[t] = "notifying" /\ UNCHANGED <<client, link, armed>>
    BY <1>8 DEF Notified, linkVars
  <2>2. t \in Loops => Owed(t)
    BY <1>1, <2>1 DEF Owed
  <2> QED
    BY <1>1, <1>2, <2>1, <2>2, ResumeCount
<1> QED
  BY <1>3, <1>4, <1>5, <1>6, <1>7, <1>8 DEF TaskStep

LEMMA CallerStepCount ==
  ASSUME TypeOK, SupervisionInv, LinkInv, CountInv, NEW t \in Callers, CallerStep(t)
  PROVE  CountInv'
<1> t \in Tasks /\ t \notin Loops
  BY TasksAssumption DEF Tasks
<1>1. OnlyMoves(t)
  BY CallerStepMoves
<1>2. CASE TaskStep(t)
  BY <1>2, TaskStepCount
<1>3. CASE \/ DisconnectGranted(t) \/ Disconnected(t)
           \/ WriteGranted(t) \/ PieceWritten(t) \/ PieceFailed(t)
  <2>1. /\ pc'[t] \in {"idle", "disconnecting", "writing", "healing"}
        /\ after'[t] # "loop"
    BY <1>3, ReturnMoves, SuspendMoves, WritePieceMoves
    DEF DisconnectGranted, LockedDisconnect, Disconnected, WriteGranted, PieceWritten, PieceFailed
  <2>2. UNCHANGED <<client, count, armed, cancelled>>
    BY <1>3
    DEF DisconnectGranted, Disconnected, WriteGranted, PieceWritten, PieceFailed, linkVars, superVars
  <2>3. Aged(link')
    BY <1>3, LinkIsAged, ClosesAged
    DEF DisconnectGranted, Disconnected, WriteGranted, PieceWritten, PieceFailed, linkVars
  <2>4. Calm(t)
    BY <1>1, <2>1, <2>2 DEF Calm
  <2> QED
    BY <2>1, <2>2, <2>3, <2>4, AgeStep
<1>4. CASE Healed(t)
  <2>1. PICK lk \in ClosedOrNot(gen[t]) :
           Closes(gen[t], lk) /\ EnterConnect(t, after[t], lk)
    BY <1>4 DEF Healed
  <2>2. Aged(lk) /\ after[t] # "loop" /\ UNCHANGED <<cancelled, armed>>
    BY <1>4, <2>1, ClosesAged DEF Healed, CountInv
  <2> QED
    BY <2>1, <2>2, EnterConnectCount
<1> QED
  BY <1>2, <1>3, <1>4 DEF CallerStep

LEMMA LoopStepCount ==
  ASSUME TypeOK, SupervisionInv, LinkInv, CountInv, NEW l \in Loops, LoopStep(l)
  PROVE  CountInv'
<1> l \in Tasks /\ l \notin Callers
  BY TasksAssumption DEF Tasks
<1>1. OnlyMoves(l) /\ Aged(link)
  BY LoopStepMoves, LinkIsAged
<1>2. CASE TaskStep(l)
  BY <1>2, TaskStepCount
<1>3. CASE LoopStarts(l)
  <2>1. /\ pc[l] = "starting" /\ LoopAgain(l, link)
        /\ UNCHANGED <<client, link, count, armed, cancelled>>
    BY <1>3 DEF LoopStarts, linkVars, superVars
  <2>2. /\ pc'[l] \in {"idle", "sleeping"}
        /\ pc'[l] = "sleeping" => ~IsConnected(link)
    BY <2>1, ReturnMoves, SuspendMoves DEF LoopAgain
  <2>3. ~Owed(l)' /\ Calm(l)
    BY <1>1, <2>1, <2>2 DEF Owed, Calm, Supervising, Running, IsConnected
  <2> QED
    BY <1>1, <2>1, <2>2, <2>3, AgeStep
<1>4. CASE LoopWakes(l)
  <2>1. Supervising(l) /\ pc[l] = "sleeping" /\ UNCHANGED <<cancelled, armed>>
    BY <1>4 DEF LoopWakes, Supervising, Running
  <2>2. CASE EnterConnect(l, "loop", link)
    BY <1>1, <2>1, <2>2, EnterConnectCount
  <2>3. CASE Return(l) /\ UNCHANGED <<client, link, sub, connVars, count, writeVars>>
    <3>1. pc'[l] = "idle"
      BY <2>3, ReturnMoves
    <3>2. ~Owed(l)' /\ Calm(l)
      BY <1>1, <2>1, <3>1 DEF Owed, Calm, Supervising, Running
    <3> QED
      BY <1>1, <2>1, <2>3, <3>1, <3>2, AgeStep
  <2> QED
    BY <1>4, <2>2, <2>3 DEF LoopWakes
<1>5. CASE CancelledErrorThrown(l)
  <2>1. /\ pc'[l] = "idle" /\ cancelled' = cancelled \ {l}
        /\ UNCHANGED <<client, count, armed>>
    BY <1>5, ReturnMoves DEF CancelledErrorThrown, superVars
  <2>2. ~Owed(l)' /\ Calm(l)
    BY <1>1, <2>1 DEF Owed, Calm, Supervising, Running
  <2>3. CASE pc[l] = "connecting"
    <3>1. PICK s \in {"failed", "unready"} : link' = [link EXCEPT ![gen[l]] = s]
      BY <1>5, <2>3 DEF CancelledErrorThrown
    <3>2. Running(l)
      BY <2>3 DEF Running
    <3> QED
      BY <2>1, <2>2, <2>3, <3>1, <3>2, EndStep
  <2>4. CASE pc[l] # "connecting"
    <3>1. UNCHANGED link
      BY <1>5, <2>4 DEF CancelledErrorThrown
    <3> QED
      BY <1>1, <2>1, <2>2, <3>1, AgeStep
  <2> QED
    BY <2>3, <2>4
<1> QED
  BY <1>2, <1>3, <1>4, <1>5 DEF LoopStep

LEMMA ApplicationCount ==
  ASSUME TypeOK, SupervisionInv, LinkInv, CountInv, Application
  PROVE  CountInv'
<1>0. Aged(link)
  BY LinkIsAged
<1>1. ASSUME NEW t \in Callers, Connect(t) \/ Write(t)
      PROVE  CountInv'
  <2>1. t \in Tasks /\ t \notin Loops /\ UNCHANGED <<cancelled, armed>>
    BY <1>1, TasksAssumption DEF Connect, Write, Tasks
  <2>2. CASE \E k \in {"return", "send"} : EnterConnect(t, k, link)
    BY <1>0, <2>1, <2>2, EnterConnectCount
  <2>3. CASE /\ Suspend(t, "healing", client, "send") \/ BeginSend(t, link)
             /\ UNCHANGED <<client, link, count>>
    <3>1. BeginSend(t, link) =>
            \/ Return(t) \/ WritePiece(t, "writing") \/ Suspend(t, "writeWait", 0, "return")
      BY DEF BeginSend
    <3>2. /\ OnlyMoves(t) /\ pc'[t] \in {"idle", "healing", "writing", "writeWait"}
          /\ after'[t] # "loop"
      BY <2>1, <2>3, <3>1, SuspendMoves, ReturnMoves, WritePieceMoves
    <3>3. Calm(t)
      BY <2>1, <3>2 DEF Calm
    <3> QED
      BY <1>0, <2>1, <2>3, <3>2, <3>3, AgeStep
  <2> QED
    BY <1>1, <2>2, <2>3 DEF Connect, Write
<1>2. ASSUME NEW t \in Callers, Disconnect(t)
      PROVE  CountInv'
  <2>1. /\ t \in Tasks /\ t \notin Loops /\ armed' = FALSE /\ cancelled \subseteq cancelled'
        /\ UNCHANGED <<client, link, count>>
    BY <1>2, TasksAssumption DEF Disconnect, CancelLoop, Tasks, linkVars
  <2>2. /\ OnlyMoves(t) /\ pc'[t] \in {"idle", "disconnecting", "discWait"}
        /\ after'[t] # "loop"
    BY <1>2, <2>1, SuspendMoves, ReturnMoves DEF Disconnect, LockedDisconnect
  <2>3. Calm(t)
    BY <2>1, <2>2 DEF Calm
  <2> QED
    BY <1>0, <2>1, <2>2, <2>3, AgeStep
<1>3. ASSUME NEW enabled \in BOOLEAN, SetAutoReconnect(enabled)
      PROVE  CountInv'
  <2>1. /\ UNCHANGED <<client, link, count, pc, gen, after>> /\ cancelled \subseteq cancelled'
        /\ armed' => IsConnected(link)
    BY <1>3 DEF SetAutoReconnect, CancelLoop, linkVars
  <2>2. IsConnected(link) => Established(link) # {}
    <3>1. client # 0 => client \in Generations
      BY BoundsAssumption DEF TypeOK, Generations
    <3> QED
      BY <3>1 DEF IsConnected, Established
  <2>3. LinkAges' /\ \A u \in Callers : after'[u] # "loop"
    BY <2>1 DEF CountInv, LinkAges, Established
  <2>4. \A l \in Loops : (Running(l)' => Running(l)) /\ (Owed(l)' => Owed(l))
    BY <2>1 DEF Owed, Supervising, Running, IsConnected
  <2>5. CountBound'
    BY <2>1, <2>2, <2>4, CountKept DEF CountInv
  <2> QED
    BY <2>3, <2>5 DEF CountInv
<1> QED
  BY <1>1, <1>2, <1>3 DEF Application

LEMMA CountNext == TypeOK /\ SupervisionInv /\ LinkInv /\ CountInv /\ [Next]_vars => CountInv'
<1> SUFFICES ASSUME TypeOK, SupervisionInv, LinkInv, CountInv, [Next]_vars PROVE CountInv'
  OBVIOUS
<1>1. ASSUME UNCHANGED <<client, count, armed, pc, gen, after, cancelled>>, Aged(link')
      PROVE  CountInv'
  <2>1. /\ Established(link) \subseteq Established(link')
        /\ IsConnected(link)' => IsConnected(link)
        /\ \A g \in Generations : link[g] \in {"none", "new"} => link'[g] = link[g]
    BY <1>1, AgedGrows DEF IsConnected
  <2>2. LinkAges' /\ \A u \in Callers : after'[u] # "loop"
    BY <1>1, <2>1 DEF CountInv, LinkAges, Established
  <2>3. \A l \in Loops : (Running(l)' => Running(l)) /\ (Owed(l)' => Owed(l))
    BY <1>1, <2>1 DEF Owed, Supervising, Running
  <2>4. CountBound'
    BY <1>1, <2>1, <2>3, CountKept DEF CountInv
  <2> QED
    BY <2>2, <2>4 DEF CountInv
<1>2. CASE World
  <2>1. PICK g \in Generations : Drop(g) \/ HostResumes(g)
    BY <1>2 DEF World
  <2>2. Aged(link')
    BY <2>1 DEF Drop, HostResumes, Aged, TypeOK, LinkStates, Live
  <2>3. UNCHANGED <<client, count, armed, pc, gen, after, cancelled>>
    BY <2>1 DEF Drop, HostResumes, superVars, taskVars
  <2> QED
    BY <1>1, <2>2, <2>3
<1>3. CASE HandleDisconnect
  <2>1. UNCHANGED <<client, link, count, armed, cancelled>> /\ Aged(link)
    BY <1>3, LinkIsAged DEF HandleDisconnect, linkVars
  <2>2. CASE UNCHANGED <<pc, gen, after>>
    BY <1>1, <2>1, <2>2
  <2>3. ASSUME NEW l \in Loops, armed, Suspend(l, "starting", 0, "loop")
        PROVE  CountInv'
    <3>1. l \in Tasks /\ l \notin Callers /\ OnlyMoves(l) /\ pc'[l] = "starting"
      BY <2>3, SuspendMoves, TasksAssumption DEF Tasks
    <3>2. Calm(l) /\ ~Owed(l)'
      BY <2>1, <2>3, <3>1 DEF Calm, Owed
    <3> QED
      BY <2>1, <3>1, <3>2, AgeStep
  <2> QED
    BY <1>3, <2>2, <2>3 DEF HandleDisconnect
<1>4. CASE UNCHANGED vars
  BY <1>1, <1>4, LinkIsAged DEF vars, linkVars, superVars, taskVars
<1> QED
  BY <1>2, <1>3, <1>4, CallerStepCount, LoopStepCount, ApplicationCount DEF Next, Finished

LEMMA CountInit == Init => CountInv
<1> SUFFICES ASSUME Init PROVE CountInv
  OBVIOUS
<1>1. LinkAges /\ \A t \in Callers : after[t] # "loop"
  BY DEF Init, LinkAges, Tasks
<1>2. CountBound
  BY DEF Init, CountBound, Owed, Supervising, Running, Tasks
<1> QED
  BY <1>1, <1>2 DEF CountInv

(* reconnect_count stays below the number of links ever established, whatever *)
(* loops, callers and losses do: no link is counted twice.                    *)
THEOREM ReconnectsAreReal == Spec => []CountsRealReconnects
<1>1. CountInv => CountsRealReconnects
  BY DEF CountInv, CountBound, CountsRealReconnects, Established
<1> QED
  BY <1>1, Typing, SupervisionAlways, LinkAlways, CountInit, CountNext, PTL DEF Spec

-----------------------------------------------------------------------------
(* The write lock and the wire: BleTransport implements CommandWire.           *)

(* The points at which a task is inside "async with self._write_lock": while  *)
(* a piece is written, and all along the reconnect that precedes its retry.   *)
HoldsWrite(t) ==
  \/ pc[t] \in {"writing", "rewriting"}
  \/ /\ pc[t] \in {"healing", "connWait", "discovering", "connecting", "subscribing", "notifying"}
     /\ after[t] = "retry"

WriteInv == \A t \in Tasks : HoldsWrite(t) => writeLock = t

(* What a stretch of task t does to the wire; held: it was in a retry.        *)
WireStep(t, held) ==
  \/ UNCHANGED <<writeLock, sent, last>> /\ (HoldsWrite(t)' => held)
  \/ writeLock = NoTask /\ writeLock' = t /\ sent' = 0 /\ UNCHANGED last
  \/ /\ held /\ writeLock' = NoTask /\ sent' = 0 /\ UNCHANGED last
     /\ ~HoldsWrite(t)'

WireStutters == UNCHANGED <<writeLock, sent, last>>
WireMoves == Wire!Next \/ WireStutters

LEMMA StutterIsStutter ==
  ASSUME WireStutters PROVE UNCHANGED Wire!vars
  BY DEF WireStutters, Wire!vars

LEMMA WireStepGood ==
  ASSUME TypeOK, WriteInv, NEW t \in Tasks, OnlyMoves(t), NEW held \in BOOLEAN,
         WireStep(t, held), held => HoldsWrite(t)
  PROVE  WriteInv' /\ WireMoves
<1>1. \A u \in Tasks \ {t} : HoldsWrite(u)' = HoldsWrite(u)
  BY DEF OnlyMoves, HoldsWrite
<1>2. CASE UNCHANGED <<writeLock, sent, last>> /\ (HoldsWrite(t)' => held)
  BY <1>1, <1>2 DEF WriteInv, WireMoves, WireStutters
<1>3. CASE writeLock = NoTask /\ writeLock' = t /\ sent' = 0 /\ UNCHANGED last
  <2>1. \A u \in Tasks : ~HoldsWrite(u)
    BY <1>3, TasksAssumption DEF WriteInv
  <2>2. Wire!Begin
    BY <1>3 DEF Wire!Begin
  <2> QED
    BY <1>1, <1>3, <2>1, <2>2 DEF WriteInv, WireMoves, Wire!Next
<1>4. CASE /\ held /\ writeLock' = NoTask /\ sent' = 0 /\ UNCHANGED last
           /\ ~HoldsWrite(t)'
  <2>1. writeLock = t /\ t # NoTask
    BY <1>4, TasksAssumption DEF WriteInv
  <2>2. \A u \in Tasks : ~HoldsWrite(u)'
    BY <1>1, <1>4, <2>1 DEF WriteInv
  <2>3. Wire!End
    BY <1>4, <2>1 DEF Wire!End
  <2> QED
    BY <2>2, <2>3 DEF WriteInv, WireMoves, Wire!Next
<1> QED
  BY <1>2, <1>3, <1>4 DEF WireStep

LEMMA BeginSendWire ==
  ASSUME TypeOK, NEW t \in Tasks, NEW lk, BeginSend(t, lk), NEW held
  PROVE  WireStep(t, held)
<1>1. CASE Return(t) /\ UNCHANGED writeVars
  BY <1>1, ReturnMoves DEF WireStep, HoldsWrite, writeVars
<1>2. CASE LockFree(writeLock, writeQueue) /\ writeLock' = t /\ sent' = 0 /\ UNCHANGED last
  BY <1>2 DEF WireStep, LockFree
<1>3. CASE /\ Suspend(t, "writeWait", 0, "return")
           /\ UNCHANGED <<writeLock, sent, last>>
  BY <1>3, SuspendMoves DEF WireStep, HoldsWrite
<1> QED
  BY <1>1, <1>2, <1>3 DEF BeginSend

LEMMA LoopAgainWire ==
  ASSUME TypeOK, NEW t \in Tasks, NEW lk, LoopAgain(t, lk), UNCHANGED writeVars, NEW held
  PROVE  WireStep(t, held)
  BY LoopAgainMoves DEF WireStep, HoldsWrite, writeVars

LEMMA ResumeWire ==
  ASSUME TypeOK, NEW t \in Tasks, NEW k, NEW lk, Resume(t, k, lk)
  PROVE  WireStep(t, k = "retry")
<1>1. CASE k = "return" /\ Return(t) /\ UNCHANGED writeVars
  BY <1>1, ReturnMoves DEF WireStep, HoldsWrite, writeVars
<1>2. CASE k = "send" /\ BeginSend(t, lk)
  BY <1>2, BeginSendWire
<1>3. CASE k = "retry" /\ UNCHANGED writeVars
  BY <1>3 DEF WireStep, writeVars
<1>4. CASE k = "loop" /\ LoopAgain(t, lk) /\ UNCHANGED writeVars
  BY <1>4, LoopAgainWire
<1> QED
  BY <1>1, <1>2, <1>3, <1>4 DEF Resume

LEMMA RaiseWire ==
  ASSUME TypeOK, NEW t \in Tasks, NEW k, NEW lk, Raise(t, k, lk)
  PROVE  WireStep(t, k = "retry")
<1>1. CASE Return(t) /\ UNCHANGED writeVars
  BY <1>1, ReturnMoves DEF WireStep, HoldsWrite, writeVars
<1>2. CASE k = "retry" /\ Return(t) /\ ReleaseWriteLock(t) /\ UNCHANGED <<writeSize, last>>
  BY <1>2, ReturnMoves DEF WireStep, HoldsWrite, ReleaseWriteLock
<1>3. CASE k = "loop" /\ LoopAgain(t, lk) /\ UNCHANGED writeVars
  BY <1>3, LoopAgainWire
<1> QED
  BY <1>1, <1>2, <1>3 DEF Raise

(* Suspending for a continuation that is a retry only if one was under way.   *)
LEMMA SuspendWire ==
  ASSUME TypeOK, NEW t \in Tasks, NEW where, NEW g, NEW k, Suspend(t, where, g, k),
         where \notin {"writing", "rewriting"}, UNCHANGED <<writeLock, sent, last>>
  PROVE  WireStep(t, k = "retry")
  BY SuspendMoves DEF WireStep, HoldsWrite

LEMMA LockedConnectWire ==
  ASSUME TypeOK, NEW t \in Tasks, NEW k, NEW lk, LockedConnect(t, k, lk)
  PROVE  WireStep(t, k = "retry")
<1>1. CASE Resume(t, k, lk)
  BY <1>1, ResumeWire
<1>2. CASE /\ BuildClient(t, k, lk) \/ Suspend(t, "discovering", 0, k)
           /\ UNCHANGED writeVars
  BY <1>2, SuspendWire DEF BuildClient, writeVars
<1> QED
  BY <1>1, <1>2 DEF LockedConnect

LEMMA EnterConnectWire ==
  ASSUME TypeOK, NEW t \in Tasks, NEW k, NEW lk, EnterConnect(t, k, lk)
  PROVE  WireStep(t, k = "retry")
<1>1. CASE Suspend(t, "connWait", 0, k) /\ UNCHANGED writeVars
  BY <1>1, SuspendWire DEF writeVars
<1> QED
  BY <1>1, LockedConnectWire DEF EnterConnect

LEMMA TaskStepWire ==
  ASSUME TypeOK, WriteInv, NEW t \in Tasks, TaskStep(t)
  PROVE  WriteInv' /\ WireMoves
<1>1. OnlyMoves(t)
  BY TaskStepMoves
<1>2. WireStep(t, after[t] = "retry")
  <2>1. CASE ConnectGranted(t)
    BY <2>1, LockedConnectWire DEF ConnectGranted
  <2>2. CASE Discovered(t)
    BY <2>2, SuspendWire DEF Discovered, BuildClient, writeVars
  <2>3. CASE ConnectFailed(t)
    BY <2>3, RaiseWire DEF ConnectFailed
  <2>4. CASE Connected(t)
    BY <2>4, SuspendWire DEF Connected
  <2>5. CASE Subscribed(t)
    BY <2>5, SuspendWire DEF Subscribed, writeVars
  <2>6. CASE Notified(t)
    BY <2>6, ResumeWire DEF Notified
  <2> QED
    BY <2>1, <2>2, <2>3, <2>4, <2>5, <2>6 DEF TaskStep
<1>3. after[t] = "retry" => HoldsWrite(t)
  BY DEF TaskStep, ConnectGranted, Discovered, ConnectFailed, Connected, Subscribed,
         Notified, HoldsWrite
<1> QED
  BY <1>1, <1>2, <1>3, WireStepGood

LEMMA PieceReceived ==
  ASSUME TypeOK, NEW t \in Tasks, writeLock = t, last' = ThisPiece(t)
  PROVE  Wire!Receive
  BY DEF Wire!Receive, ThisPiece

LEMMA LastKept == ASSUME UNCHANGED last PROVE UNCHANGED [by |-> last.by, n |-> last.n]
  OBVIOUS

(* A piece carried, or the last attempt at one: the writer keeps the lock, or *)
(* gives it up.                                                               *)
LEMMA CarryOrEnd ==
  ASSUME TypeOK, WriteInv, NEW t \in Tasks, OnlyMoves(t), pc[t] \in {"writing", "rewriting"},
         last' = ThisPiece(t) \/ UNCHANGED last,
         \/ /\ UNCHANGED writeLock /\ last' = ThisPiece(t) /\ sent' \in {sent, sent + 1}
         \/ /\ UNCHANGED <<writeLock, sent, last>>
         \/ /\ writeLock' = NoTask /\ sent' = 0 /\ ~HoldsWrite(t)'
  PROVE  WriteInv' /\ WireMoves
<1>1. writeLock = t /\ t # NoTask
  BY TasksAssumption DEF WriteInv, HoldsWrite
<1>2. \A u \in Tasks \ {t} : ~HoldsWrite(u)'
  BY <1>1 DEF WriteInv, OnlyMoves, HoldsWrite
<1>3. WriteInv'
  BY <1>1, <1>2 DEF WriteInv
<1>4. sent < Pieces
  BY BoundsAssumption DEF TypeOK
<1>5. CASE UNCHANGED writeLock /\ last' = ThisPiece(t) /\ sent' \in {sent, sent + 1}
  <2>1. Wire!Receive
    BY <1>1, <1>5, PieceReceived
  <2>2. Wire!Carry
    BY <1>1, <1>4, <1>5, <2>1 DEF Wire!Carry
  <2> QED
    BY <1>3, <2>2 DEF WireMoves, Wire!Next
<1>6. CASE UNCHANGED <<writeLock, sent, last>>
  BY <1>3, <1>6 DEF WireMoves, WireStutters
<1>7. CASE writeLock' = NoTask /\ sent' = 0 /\ ~HoldsWrite(t)'
  <2>1. Wire!Receive \/ UNCHANGED [by |-> last.by, n |-> last.n]
    BY <1>1, PieceReceived, LastKept
  <2>2. Wire!End
    BY <1>1, <1>7, <2>1 DEF Wire!End
  <2> QED
    BY <1>3, <2>2 DEF WireMoves, Wire!Next
<1> QED
  BY <1>5, <1>6, <1>7

LEMMA CallerStepWire ==
  ASSUME TypeOK, WriteInv, NEW t \in Callers, CallerStep(t)
  PROVE  WriteInv' /\ WireMoves
<1> t \in Tasks
  BY DEF Tasks
<1>1. OnlyMoves(t)
  BY CallerStepMoves
<1>2. CASE TaskStep(t)
  BY <1>2, TaskStepWire
<1>3. CASE DisconnectGranted(t) \/ Disconnected(t)
  <2>1. UNCHANGED <<writeLock, sent, last>> /\ ~HoldsWrite(t)'
    BY <1>3, SuspendMoves, ReturnMoves
    DEF DisconnectGranted, LockedDisconnect, Disconnected, HoldsWrite, writeVars
  <2> QED
    BY <1>1, <2>1, WireStepGood DEF WireStep
<1>4. CASE WriteGranted(t)
  <2>1. writeLock = NoTask /\ writeLock' = t /\ sent' = 0 /\ UNCHANGED last
    BY <1>4 DEF WriteGranted, Granted
  <2> QED
    BY <1>1, <2>1, WireStepGood DEF WireStep
<1>5. CASE PieceWritten(t)
  <2>1. pc[t] \in {"writing", "rewriting"} /\ last' = ThisPiece(t)
    BY <1>5 DEF PieceWritten
  <2>2. \/ UNCHANGED writeLock /\ sent' = sent + 1
        \/ writeLock' = NoTask /\ sent' = 0 /\ ~HoldsWrite(t)'
    BY <1>5, ReturnMoves DEF PieceWritten, ReleaseWriteLock, HoldsWrite
  <2> QED
    BY <1>1, <2>1, <2>2, CarryOrEnd
<1>6. CASE PieceFailed(t)
  <2>1. pc[t] \in {"writing", "rewriting"} /\ (last' = ThisPiece(t) \/ UNCHANGED last)
    BY <1>6 DEF PieceFailed
  <2>2. \/ UNCHANGED <<writeLock, sent>>
        \/ writeLock' = NoTask /\ sent' = 0 /\ ~HoldsWrite(t)'
    BY <1>6, ReturnMoves DEF PieceFailed, ReleaseWriteLock, HoldsWrite
  <2> QED
    BY <1>1, <2>1, <2>2, CarryOrEnd
<1>7. CASE Healed(t)
  <2>1. PICK lk : EnterConnect(t, after[t], lk)
    BY <1>7 DEF Healed
  <2>2. WireStep(t, after[t] = "retry") /\ (after[t] = "retry" => HoldsWrite(t))
    BY <1>7, <2>1, EnterConnectWire DEF Healed, HoldsWrite
  <2> QED
    BY <1>1, <2>2, WireStepGood
<1> QED
  BY <1>2, <1>3, <1>4, <1>5, <1>6, <1>7 DEF CallerStep

LEMMA LoopStepWire ==
  ASSUME TypeOK, WriteInv, NEW l \in Loops, LoopStep(l)
  PROVE  WriteInv' /\ WireMoves
<1> l \in Tasks
  BY DEF Tasks
<1>1. OnlyMoves(l)
  BY LoopStepMoves
<1>2. CASE TaskStep(l)
  BY <1>2, TaskStepWire
<1>3. CASE ~TaskStep(l)
  <2>1. WireStep(l, FALSE)
    <3>1. CASE LoopStarts(l)
      BY <3>1, LoopAgainWire DEF LoopStarts
    <3>2. CASE LoopWakes(l)
      <4>1. CASE EnterConnect(l, "loop", link)
        BY <4>1, EnterConnectWire DEF WireStep
      <4>2. CASE Return(l) /\ UNCHANGED writeVars
        BY <4>2, ReturnMoves DEF WireStep, HoldsWrite, writeVars
      <4> QED
        BY <3>2, <4>1, <4>2 DEF LoopWakes
    <3>3. CASE CancelledErrorThrown(l)
      BY <3>3, ReturnMoves DEF CancelledErrorThrown, WireStep, HoldsWrite, writeVars
    <3> QED
      BY <1>3, <3>1, <3>2, <3>3 DEF LoopStep
  <2> QED
    BY <1>1, <2>1, WireStepGood
<1> QED
  BY <1>2, <1>3

LEMMA ApplicationWire ==
  ASSUME TypeOK, WriteInv, Application
  PROVE  WriteInv' /\ WireMoves
<1>1. ASSUME NEW t \in Callers, Connect(t) \/ Write(t) \/ Disconnect(t)
      PROVE  WriteInv' /\ WireMoves
  <2>1. t \in Tasks
    BY DEF Tasks
  <2>2. OnlyMoves(t) /\ WireStep(t, FALSE)
    <3>1. CASE EnterConnect(t, "return", link) \/ EnterConnect(t, "send", link)
      BY <2>1, <3>1, EnterConnectMoves, EnterConnectWire DEF WireStep
    <3>2. CASE Suspend(t, "healing", client, "send") /\ UNCHANGED writeVars
      BY <2>1, <3>2, SuspendMoves, SuspendWire DEF WireStep, writeVars
    <3>3. CASE BeginSend(t, link)
      BY <2>1, <3>3, BeginSendMoves, BeginSendWire
    <3>4. CASE Disconnect(t)
      BY <2>1, <3>4, SuspendMoves, ReturnMoves
      DEF Disconnect, LockedDisconnect, WireStep, HoldsWrite, writeVars
    <3> QED
      BY <1>1, <3>1, <3>2, <3>3, <3>4 DEF Connect, Write
  <2> QED
    BY <2>1, <2>2, WireStepGood
<1>2. ASSUME NEW enabled \in BOOLEAN, SetAutoReconnect(enabled)
      PROVE  WriteInv' /\ WireMoves
  BY <1>2 DEF SetAutoReconnect, WriteInv, HoldsWrite, WireMoves, WireStutters, writeVars
<1> QED
  BY <1>1, <1>2 DEF Application

LEMMA WireNext ==
  TypeOK /\ WriteInv /\ [Next]_vars => WriteInv' /\ [Wire!Next]_Wire!vars
<1> SUFFICES ASSUME TypeOK, WriteInv, [Next]_vars
             PROVE  WriteInv' /\ WireMoves
  BY StutterIsStutter DEF WireMoves
<1>1. CASE World
  BY <1>1
  DEF World, Drop, HostResumes, WriteInv, HoldsWrite, WireMoves, WireStutters, taskVars,
      writeVars
<1>2. CASE HandleDisconnect
  <2>1. CASE UNCHANGED <<pc, gen, after>>
    BY <1>2, <2>1
    DEF HandleDisconnect, WriteInv, HoldsWrite, WireMoves, WireStutters, writeVars
  <2>2. ASSUME NEW l \in Loops, Suspend(l, "starting", 0, "loop")
        PROVE  WriteInv' /\ WireMoves
    <3>1. l \in Tasks /\ OnlyMoves(l) /\ WireStep(l, FALSE)
      BY <1>2, <2>2, SuspendMoves, SuspendWire
      DEF HandleDisconnect, WireStep, writeVars, Tasks
    <3> QED
      BY <3>1, WireStepGood
  <2> QED
    BY <1>2, <2>1, <2>2 DEF HandleDisconnect
<1>3. CASE UNCHANGED vars
  BY <1>3
  DEF vars, writeVars, taskVars, WriteInv, HoldsWrite, WireMoves, WireStutters
<1> QED
  BY <1>1, <1>2, <1>3, CallerStepWire, LoopStepWire, ApplicationWire DEF Next, Finished

LEMMA WireInit == Init => WriteInv /\ Wire!Init
  BY DEF Init, WriteInv, HoldsWrite, Wire!Init, NoPiece

(* Whoever writes, heals, retries or gives up, the wire carries the pieces of *)
(* one command at a time: BleTransport implements CommandWire.                *)
THEOREM WireImplemented == Spec => OneCommandAtATime
<1>1. TypeOK /\ WriteInv /\ [Next]_vars => [Wire!Next]_Wire!vars
  BY WireNext
<1>2. Spec => []WriteInv
  BY Typing, WireInit, WireNext, PTL DEF Spec
<1> QED
  BY <1>1, <1>2, Typing, WireInit, PTL DEF Spec, OneCommandAtATime, Wire!Spec
=============================================================================
