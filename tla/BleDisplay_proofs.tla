-------------------------- MODULE BleDisplay_proofs --------------------------
(***************************************************************************)
(* The DIY flag, for any number of presenters, other tasks and faults.      *)
(*                                                                         *)
(* FlagHonest speaks of moments with nothing left to report.  What makes it *)
(* inductive is what the queue of reports still holds: the end of a DIY     *)
(* entry that no disconnection is queued behind was an entry on a link that *)
(* still stands (EntryStands), and a flag over a link that is down has its  *)
(* disconnection still to come (DownIsReported).                            *)
(***************************************************************************)
EXTENDS BleDisplay, TLAPS

Item == Tasks \cup {Dropped}

(* Only the task that holds the wire can have ended a write.                  *)
OneWriter == \A i, j \in 1..Len(ready) : ready[i] \in Tasks /\ ready[j] \in Tasks => i = j

Kinds ==
  /\ \A t \in Others : pc[t] \in {"idle", "native"}
  /\ \A t \in Presenters : pc[t] # "native"

NotLast(i) == \E j \in 1..Len(ready) : j > i /\ ready[j] = Dropped
EntryStands ==
  \A i \in 1..Len(ready) :
    ready[i] \in Tasks /\ pc[ready[i]] = "entering" /\ ~NotLast(i)
      => link # "down" /\ (clear[ready[i]] => mode = "diy")

DownIsReported == link = "down" /\ diy => IsReady(Dropped)
Believed == link # "down" /\ ~Unreported /\ diy /\ trusted => mode = "diy"
Undisturbed ==
  \A t \in Presenters :
    pc[t] # "idle" /\ t \notin disturbed =>
      /\ ~Unreported
      /\ pc[t] = "showing" => link # "down" /\ (trusted => mode = "diy")

TypeInv == TypeOK /\ OneWriter /\ Kinds
FlagInv == EntryStands /\ DownIsReported /\ Believed /\ Undisturbed

-----------------------------------------------------------------------------
(* The queue of what became ready *)

LEMMA QueueAppends ==
  ASSUME NEW x \in Item, ready \in Seq(Item), ready' = Append(ready, x)
  PROVE  /\ ready' \in Seq(Item) /\ Len(ready) \in Nat /\ Len(ready') = Len(ready) + 1
         /\ ready'[Len(ready) + 1] = x
         /\ \A i \in 1..Len(ready) : ready'[i] = ready[i]
         /\ \A y : IsReady(y)' <=> IsReady(y) \/ y = x
<1>1. /\ ready' \in Seq(Item) /\ Len(ready) \in Nat /\ Len(ready') = Len(ready) + 1
      /\ ready'[Len(ready) + 1] = x
      /\ \A i \in 1..Len(ready) : ready'[i] = ready[i]
  OBVIOUS
<1>2. ASSUME NEW y PROVE IsReady(y)' <=> IsReady(y) \/ y = x
  BY <1>1 DEF IsReady
<1> QED
  BY <1>1, <1>2

LEMMA QueueAdvances ==
  ASSUME ready \in Seq(Item), ready # <<>>, ready' = Tail(ready)
  PROVE  /\ ready' \in Seq(Item) /\ Len(ready) \in Nat \ {0} /\ Len(ready') = Len(ready) - 1
         /\ Head(ready) = ready[1] /\ ready[1] \in Item
         /\ \A i \in 1..Len(ready') : ready'[i] = ready[i + 1]
         /\ \A y : IsReady(y)' => IsReady(y)
         /\ \A y : IsReady(y) /\ y # Head(ready) => IsReady(y)'
<1>1. /\ ready' \in Seq(Item) /\ Len(ready) \in Nat \ {0} /\ Len(ready') = Len(ready) - 1
      /\ Head(ready) = ready[1] /\ ready[1] \in Item
      /\ \A i \in 1..Len(ready') : ready'[i] = ready[i + 1]
  OBVIOUS
<1>2. ASSUME NEW y, IsReady(y)' PROVE IsReady(y)
  <2>1. PICK i \in 1..Len(ready') : ready'[i] = y
    BY <1>2 DEF IsReady
  <2>2. i + 1 \in 1..Len(ready) /\ ready[i + 1] = y
    BY <1>1, <2>1
  <2> QED
    BY <2>2 DEF IsReady
<1>3. ASSUME NEW y, IsReady(y), y # Head(ready) PROVE IsReady(y)'
  <2>1. PICK i \in 1..Len(ready) : ready[i] = y
    BY <1>3 DEF IsReady
  <2>2. i - 1 \in 1..Len(ready') /\ ready'[i - 1] = y
    BY <1>1, <1>3, <2>1
  <2> QED
    BY <2>2 DEF IsReady
<1> QED
  BY <1>1, <1>2, <1>3

(* What has ended its write is the only task in the queue. *)
LEMMA WriterLeaves ==
  ASSUME TypeInv, NEW t \in Tasks, Ends(t)
  PROVE  /\ IsReady(t) /\ lock = t /\ pc[t] # "idle"
         /\ \A u \in Tasks : ~IsReady(u)'
         /\ OneWriter'
<1>0. ready \in Seq(Item) /\ t # Dropped
  BY TasksAssumption DEF TypeInv, TypeOK, Item
<1>1. ready # <<>> /\ ready' = Tail(ready) /\ ready[1] = t /\ 1 \in 1..Len(ready)
  BY <1>0, QueueAdvances DEF Ends
<1>2. IsReady(t)
  BY <1>1 DEF IsReady
<1>3. lock = t /\ pc[t] # "idle"
  <2>1. lock = t
    BY <1>2 DEF TypeInv, TypeOK
  <2> QED
    BY <2>1, TasksAssumption DEF TypeInv, TypeOK
<1>4. \A i \in 1..Len(ready') : ready'[i] \notin Tasks
  <2> SUFFICES ASSUME NEW i \in 1..Len(ready'), ready'[i] \in Tasks PROVE FALSE
    OBVIOUS
  <2>1. i + 1 \in 1..Len(ready) /\ ready[i + 1] \in Tasks
    BY <1>0, <1>1, QueueAdvances
  <2>2. i + 1 = 1
    BY <1>1, <2>1 DEF TypeInv, OneWriter
  <2> QED
    BY <2>2
<1> QED
  BY <1>2, <1>3, <1>4 DEF IsReady, OneWriter

-----------------------------------------------------------------------------
(* Types *)

LEMMA Bounded ==
  ASSUME TypeOK
  PROVE  /\ \A kind : Fault(kind) => faults' \in 0..MaxFaults
         /\ \A t : Call(t) => calls' \in 0..MaxCalls
BY BoundsAssumption DEF TypeOK, Fault, Call

(* A call begins, or a setting changes: nothing in the queue, no wire taken.   *)
LEMMA CallType ==
  ASSUME TypeInv,
         \/ \E t \in Presenters : ShowFrame(t)
         \/ \E t \in Others : Native(t)
         \/ \E policy \in Entries : SetEntryClear(policy)
  PROVE  TypeInv'
<1>1. ASSUME NEW t \in Presenters, ShowFrame(t) PROVE TypeInv'
  <2>1. pc[t] = "idle" /\ calls' \in 0..MaxCalls
    BY <1>1, Bounded DEF ShowFrame, Call, TypeInv
  <2>2. PICK to \in {"showing", "entering"} : pc' = [pc EXCEPT ![t] = to]
    BY <1>1 DEF ShowFrame
  <2>3. clear' \in [Presenters -> BOOLEAN]
    BY <1>1 DEF ShowFrame, TypeInv, TypeOK
  <2>4. disturbed' \subseteq Presenters
    BY <1>1 DEF ShowFrame, TypeInv, TypeOK
  <2>5. UNCHANGED <<diy, entryClear, lock, link, mode, trusted, ready, faults>>
    BY <1>1 DEF ShowFrame
  <2>6. TypeOK'
    BY <2>1, <2>2, <2>3, <2>4, <2>5 DEF TypeInv, TypeOK, IsReady, Tasks
  <2>7. Kinds' /\ OneWriter'
    BY <2>2, <2>5, TasksAssumption DEF TypeInv, TypeOK, Kinds, OneWriter, Tasks
  <2> QED
    BY <2>6, <2>7 DEF TypeInv
<1>2. ASSUME NEW t \in Others, Native(t) PROVE TypeInv'
  <2>1. calls' \in 0..MaxCalls
    BY <1>2, Bounded DEF Native, TypeInv
  <2>2. /\ pc' = [pc EXCEPT ![t] = "native"]
        /\ UNCHANGED <<diy, entryClear, clear, lock, link, mode, trusted, ready, disturbed, faults>>
    BY <1>2 DEF Native
  <2>3. TypeOK'
    BY <2>1, <2>2 DEF TypeInv, TypeOK, IsReady, Tasks
  <2>4. Kinds' /\ OneWriter'
    BY <2>2, TasksAssumption DEF TypeInv, TypeOK, Kinds, OneWriter, Tasks
  <2> QED
    BY <2>3, <2>4 DEF TypeInv
<1>3. ASSUME NEW policy \in Entries, SetEntryClear(policy) PROVE TypeInv'
  <2>1. entryClear' \in BOOLEAN /\ calls' \in 0..MaxCalls
    BY <1>3, BoundsAssumption DEF SetEntryClear, TypeInv, TypeOK
  <2>2. UNCHANGED <<diy, pc, clear, lock, link, mode, trusted, ready, disturbed, faults>>
    BY <1>3 DEF SetEntryClear
  <2> QED
    BY <2>1, <2>2 DEF TypeInv, TypeOK, Kinds, OneWriter, IsReady
<1> QED
  BY <1>1, <1>2, <1>3

(* A write that has ended, or a report, leaves the queue. *)
LEMMA LeavesType ==
  ASSUME TypeInv,
         \/ \E t \in Tasks : Entered(t) \/ FrameShown(t) \/ NativeShown(t)
         \/ OnDisconnected
  PROVE  TypeInv'
<1>0. ready \in Seq(Item)
  BY DEF TypeInv, TypeOK, Item
<1>1. ASSUME NEW t \in Tasks, Entered(t) \/ FrameShown(t) \/ NativeShown(t) PROVE TypeInv'
  <2>1. Ends(t)
    BY <1>1 DEF Entered, FrameShown, NativeShown
  <2>2. /\ ready' = Tail(ready) /\ ready # <<>> /\ lock' = Nobody
        /\ UNCHANGED <<entryClear, clear, link, mode, disturbed, calls, faults>>
    BY <2>1 DEF Ends
  <2>3. ready' \in Seq(Item) /\ OneWriter' /\ \A u \in Tasks : ~IsReady(u)'
    BY <1>0, <2>1, <2>2, QueueAdvances, WriterLeaves
  <2>4. /\ \E to \in {"idle", "showing"} : pc' = [pc EXCEPT ![t] = to] /\ (to = "showing" => pc[t] = "entering")
        /\ diy' \in BOOLEAN /\ trusted' \in BOOLEAN
    <3>1. CASE Entered(t)
      <4>1. t \in Presenters
        BY <3>1 DEF Entered, TypeInv, Kinds, Tasks
      <4> QED
        BY <3>1, <4>1 DEF Entered, TypeInv, TypeOK
    <3>2. CASE FrameShown(t) \/ NativeShown(t)
      BY <3>2 DEF FrameShown, NativeShown, TypeInv, TypeOK
    <3> QED
      BY <1>1, <3>1, <3>2
  <2>5. TypeOK'
    BY <2>2, <2>3, <2>4 DEF TypeInv, TypeOK, Item
  <2>6. Kinds'
    BY <2>4, TasksAssumption DEF TypeInv, TypeOK, Kinds, Tasks
  <2> QED
    BY <2>3, <2>5, <2>6 DEF TypeInv
<1>2. CASE OnDisconnected
  <2>1. /\ ready' = Tail(ready) /\ ready # <<>> /\ diy' = FALSE
        /\ UNCHANGED <<entryClear, pc, clear, lock, link, mode, trusted, disturbed, calls, faults>>
    BY <1>2 DEF OnDisconnected
  <2>2. ready' \in Seq(Item) /\ \A u : IsReady(u)' => IsReady(u)
    BY <1>0, <2>1, QueueAdvances
  <2>3. TypeOK'
    BY <2>1, <2>2 DEF TypeInv, TypeOK, Item
  <2>4. OneWriter'
    <3> SUFFICES ASSUME NEW i \in 1..Len(ready'), NEW j \in 1..Len(ready'), ready'[i] \in Tasks, ready'[j] \in Tasks
                 PROVE  i = j
      BY DEF OneWriter
    <3>1. /\ i + 1 \in 1..Len(ready) /\ j + 1 \in 1..Len(ready)
          /\ ready[i + 1] \in Tasks /\ ready[j + 1] \in Tasks
      BY <1>0, <2>1, QueueAdvances
    <3>2. i + 1 = j + 1
      BY <3>1 DEF TypeInv, OneWriter
    <3> QED
      BY <3>2
  <2> QED
    BY <2>1, <2>3, <2>4 DEF TypeInv, Kinds
<1> QED
  BY <1>1, <1>2

(* Something is queued: the end of the wire holder's write, or a report.       *)
LEMMA QueueType ==
  ASSUME TypeInv, NEW x \in Item, ready' = Append(ready, x),
         x \in Tasks => lock = x /\ ~IsReady(x)
  PROVE  /\ ready' \in Seq(Item) /\ OneWriter'
         /\ \A t \in Tasks : IsReady(t)' => lock = t
<1>0. ready \in Seq(Item)
  BY DEF TypeInv, TypeOK, Item
<1>1. \A t \in Tasks : IsReady(t)' => lock = t
  BY <1>0, QueueAppends DEF TypeInv, TypeOK
<1>2. OneWriter'
  <2> SUFFICES ASSUME NEW i \in 1..Len(ready'), NEW j \in 1..Len(ready'), ready'[i] \in Tasks, ready'[j] \in Tasks
               PROVE  i = j
    BY DEF OneWriter
  <2>1. CASE x \notin Tasks
    <3>1. i \in 1..Len(ready) /\ j \in 1..Len(ready) /\ ready[i] \in Tasks /\ ready[j] \in Tasks
      BY <1>0, <2>1, QueueAppends
    <3> QED
      BY <3>1 DEF TypeInv, OneWriter
  <2>2. CASE x \in Tasks
    <3>1. \A k \in 1..Len(ready) : ready[k] \notin Tasks
      BY <2>2 DEF TypeInv, TypeOK, IsReady
    <3> QED
      BY <1>0, <3>1, QueueAppends
  <2> QED
    BY <2>1, <2>2
<1> QED
  BY <1>0, <1>1, <1>2, QueueAppends

LEMMA TransportType ==
  ASSUME TypeInv,
         \/ \E t \in Tasks : TakesWire(t) \/ Written(t) \/ SelfHeals(t) \/ Raises(t)
         \/ Reconnects \/ Drop \/ HostResumes
  PROVE  TypeInv'
<1>0. \A kind : Fault(kind) => faults' \in 0..MaxFaults
  BY Bounded DEF TypeInv
<1>1. ASSUME NEW t \in Tasks, TakesWire(t) PROVE TypeInv'
  <2>1. /\ lock = Nobody /\ lock' = t /\ pc[t] # "idle"
        /\ UNCHANGED <<diy, entryClear, pc, clear, link, mode, trusted, ready, disturbed, calls, faults>>
    BY <1>1 DEF TakesWire, Writes
  <2>2. \A u \in Tasks : ~IsReady(u)
    BY <2>1, TasksAssumption DEF TypeInv, TypeOK
  <2> QED
    BY <2>1, <2>2 DEF TypeInv, TypeOK, Kinds, OneWriter, IsReady
<1>2. ASSUME NEW t \in Tasks, Written(t) PROVE TypeInv'
  <2>1. /\ lock = t /\ ~IsReady(t) /\ ready' = Append(ready, t)
        /\ UNCHANGED <<diy, entryClear, pc, clear, lock, link, trusted, calls, faults>>
    BY <1>2 DEF Written, Writes
  <2>2. ready' \in Seq(Item) /\ OneWriter' /\ \A u \in Tasks : IsReady(u)' => lock = u
    BY <2>1, QueueType DEF Item
  <2>3. mode' \in {"diy", "other"} /\ disturbed' \subseteq Presenters
    BY <1>2 DEF Written, TypeInv, TypeOK
  <2> QED
    BY <2>1, <2>2, <2>3 DEF TypeInv, TypeOK, Kinds, Item
<1>3. ASSUME NEW t \in Tasks, SelfHeals(t) PROVE TypeInv'
  <2>1. /\ link' = "down" /\ disturbed' = Presenters
        /\ UNCHANGED <<diy, entryClear, pc, clear, lock, mode, trusted, calls>>
    BY <1>3 DEF SelfHeals
  <2>2. faults' \in 0..MaxFaults
    BY <1>0, <1>3 DEF SelfHeals, TypeInv, TypeOK
  <2>3. ready' \in Seq(Item) /\ OneWriter' /\ \A u \in Tasks : IsReady(u)' => lock = u
    <3>1. CASE ready' = Append(ready, Dropped)
      BY <3>1, TasksAssumption, QueueType DEF Item
    <3>2. CASE UNCHANGED ready
      BY <3>2 DEF TypeInv, TypeOK, OneWriter, IsReady, Item
    <3> QED
      BY <1>3, <3>1, <3>2 DEF SelfHeals
  <2> QED
    BY <2>1, <2>2, <2>3 DEF TypeInv, TypeOK, Kinds, Item
<1>4. ASSUME NEW t \in Tasks, Raises(t) PROVE TypeInv'
  <2>1. /\ ~IsReady(t) /\ pc' = [pc EXCEPT ![t] = "idle"] /\ lock' = IF lock = t THEN Nobody ELSE lock
        /\ UNCHANGED <<diy, entryClear, clear, link, mode, trusted, ready, disturbed, calls>>
    BY <1>4 DEF Raises, Writes
  <2>2. faults' \in 0..MaxFaults
    BY <1>0, <1>4 DEF Raises
  <2>3. lock' # Nobody => lock' = lock /\ lock # t
    BY <2>1
  <2>4. \A u \in Tasks : IsReady(u)' => lock' = u
    BY <2>1 DEF TypeInv, TypeOK, IsReady
  <2>5. TypeOK'
    BY <2>1, <2>2, <2>3, <2>4 DEF TypeInv, TypeOK
  <2> QED
    BY <2>1, <2>5 DEF TypeInv, TypeOK, Kinds, OneWriter, Tasks
<1>5. CASE Reconnects \/ HostResumes
  <2>1. /\ link' \in {"up", "dead"} /\ mode' \in {"diy", "other"}
        /\ UNCHANGED <<diy, entryClear, pc, clear, lock, trusted, ready, disturbed, calls>>
    BY <1>5 DEF Reconnects, HostResumes, TypeInv, TypeOK
  <2>2. faults' \in 0..MaxFaults
    BY <1>0, <1>5 DEF Reconnects, HostResumes, TypeInv, TypeOK
  <2> QED
    BY <2>1, <2>2 DEF TypeInv, TypeOK, Kinds, OneWriter, IsReady
<1>6. CASE Drop
  <2>1. /\ link' = "down" /\ ready' = Append(ready, Dropped) /\ disturbed' = Presenters
        /\ UNCHANGED <<diy, entryClear, pc, clear, lock, mode, trusted, calls>>
    BY <1>6 DEF Drop
  <2>2. faults' \in 0..MaxFaults
    BY <1>0, <1>6 DEF Drop
  <2>3. ready' \in Seq(Item) /\ OneWriter' /\ \A u \in Tasks : IsReady(u)' => lock = u
    BY <2>1, TasksAssumption, QueueType DEF Item
  <2> QED
    BY <2>1, <2>2, <2>3 DEF TypeInv, TypeOK, Kinds, Item
<1> QED
  BY <1>1, <1>2, <1>3, <1>4, <1>5, <1>6

LEMMA TypeInit == Init => TypeInv
<1> SUFFICES ASSUME Init PROVE TypeInv
  OBVIOUS
<1>1. ready \in Seq(Item) /\ \A x : ~IsReady(x)
  BY DEF Init, IsReady
<1>2. TypeOK
  <2>1. pc \in [Tasks -> {"idle", "entering", "showing", "native"}] /\ clear \in [Presenters -> BOOLEAN]
    BY DEF Init
  <2>2. calls \in 0..MaxCalls /\ faults \in 0..MaxFaults
    BY BoundsAssumption DEF Init
  <2> QED
    BY <1>1, <2>1, <2>2 DEF Init, TypeOK, Item
<1>3. OneWriter /\ Kinds
  BY DEF Init, OneWriter, Kinds, Tasks
<1> QED
  BY <1>2, <1>3 DEF TypeInv

LEMMA TypeNext == TypeInv /\ [Next]_vars => TypeInv'
<1> SUFFICES ASSUME TypeInv, [Next]_vars PROVE TypeInv'
  OBVIOUS
<1>1. CASE UNCHANGED vars
  BY <1>1 DEF vars, TypeInv, TypeOK, Kinds, OneWriter, IsReady
<1> QED
  BY <1>1, CallType, LeavesType, TransportType DEF Next, TaskStep, Finished

(* Every variable keeps its type, the wire is held by a task that writes, and *)
(* only its holder's write can have ended.                                    *)
THEOREM Typing == Spec => []TypeOK
<1>1. TypeInv => TypeOK
  BY DEF TypeInv
<1> QED
  BY <1>1, TypeInit, TypeNext, PTL DEF Spec

-----------------------------------------------------------------------------
(* The flag *)

(* A disconnection queued last is the last word on every entry before it.      *)
LEMMA DropFollows ==
  ASSUME TypeInv, ready' = Append(ready, Dropped)
  PROVE  IsReady(Dropped)' /\ EntryStands'
<1>0. ready \in Seq(Item) /\ Dropped \in Item /\ Dropped \notin Tasks
  BY TasksAssumption DEF TypeInv, TypeOK, Item
<1>1. /\ Len(ready) \in Nat /\ Len(ready') = Len(ready) + 1
      /\ ready'[Len(ready) + 1] = Dropped /\ IsReady(Dropped)'
  BY <1>0, QueueAppends
<1>2. ASSUME NEW i \in 1..Len(ready'), ready'[i] \in Tasks PROVE NotLast(i)'
  <2>1. Len(ready) + 1 \in 1..Len(ready') /\ i # Len(ready) + 1
    BY <1>0, <1>1, <1>2
  <2>2. Len(ready) + 1 > i
    BY <1>1, <2>1
  <2> QED
    BY <1>1, <2>1, <2>2 DEF NotLast
<1> QED
  BY <1>1, <1>2 DEF EntryStands

(* The first word of the queue with no disconnection behind it.                *)
LEMMA HeadStands ==
  ASSUME TypeInv, NEW t \in Tasks, Ends(t), ~IsReady(Dropped)'
  PROVE  1 \in 1..Len(ready) /\ ready[1] = t /\ ~NotLast(1)
<1>0. ready \in Seq(Item)
  BY DEF TypeInv, TypeOK, Item
<1>1. /\ Len(ready) \in Nat \ {0} /\ Len(ready') = Len(ready) - 1 /\ ready[1] = t
      /\ \A i \in 1..Len(ready') : ready'[i] = ready[i + 1]
  BY <1>0, QueueAdvances DEF Ends
<1>2. ASSUME NEW j \in 1..Len(ready), j > 1, ready[j] = Dropped PROVE FALSE
  <2>1. j - 1 \in 1..Len(ready') /\ ready'[j - 1] = Dropped
    BY <1>1, <1>2
  <2> QED
    BY <2>1 DEF IsReady
<1> QED
  BY <1>1, <1>2 DEF NotLast

LEMMA FlagCalls ==
  ASSUME TypeInv, FlagInv,
         \/ \E t \in Presenters : ShowFrame(t)
         \/ \E t \in Others : Native(t)
         \/ \E policy \in Entries : SetEntryClear(policy)
  PROVE  FlagInv'
<1>1. ASSUME NEW t \in Presenters, ShowFrame(t) PROVE FlagInv'
  <2>1. /\ pc[t] = "idle" /\ t \in Tasks
        /\ disturbed' = IF Unreported THEN disturbed \cup {t} ELSE disturbed \ {t}
        /\ UNCHANGED <<diy, entryClear, lock, link, mode, trusted, ready, faults>>
    BY <1>1 DEF ShowFrame, Call, Tasks
  <2>2. PICK to \in {"showing", "entering"} : pc' = [pc EXCEPT ![t] = to] /\ (to = "showing" => diy)
    BY <1>1 DEF ShowFrame
  <2>3. \A u \in Presenters \ {t} : pc'[u] = pc[u] /\ clear'[u] = clear[u]
    BY <1>1, <2>2 DEF ShowFrame, TypeInv, TypeOK
  <2>4. \A u \in Tasks \ {t} : pc'[u] = pc[u]
    BY <2>2 DEF TypeInv, TypeOK
  <2>5. \A i \in 1..Len(ready) : ready[i] \in Tasks => ready[i] # t
    BY <2>1, TasksAssumption DEF TypeInv, TypeOK, IsReady
  <2>6. EntryStands'
    <3> SUFFICES ASSUME NEW i \in 1..Len(ready), ready[i] \in Tasks, pc'[ready[i]] = "entering", ~NotLast(i)
                 PROVE  link # "down" /\ (clear'[ready[i]] => mode = "diy")
      BY <2>1 DEF EntryStands, NotLast
    <3>1. pc[ready[i]] = "entering"
      BY <2>4, <2>5
    <3>2. ready[i] \in Presenters \ {t}
      BY <2>5, <3>1 DEF TypeInv, Kinds, Tasks
    <3> QED
      BY <2>3, <3>1, <3>2 DEF FlagInv, EntryStands
  <2>7. DownIsReported' /\ Believed'
    BY <2>1 DEF FlagInv, DownIsReported, Believed, Unreported, IsReady
  <2>8. Undisturbed'
    <3> SUFFICES ASSUME NEW u \in Presenters, pc'[u] # "idle", u \notin disturbed'
                 PROVE  /\ ~Unreported
                        /\ pc'[u] = "showing" => link # "down" /\ (trusted => mode = "diy")
      BY <2>1 DEF Undisturbed, Unreported, IsReady
    <3>1. CASE u # t
      <4>1. u \notin disturbed /\ pc[u] = pc'[u]
        BY <2>1, <2>3, <3>1
      <4> QED
        BY <4>1 DEF FlagInv, Undisturbed
    <3>2. CASE u = t
      <4>1. ~Unreported
        BY <2>1, <3>2
      <4>2. pc'[u] = to
        BY <2>1, <2>2, <3>2 DEF TypeInv, TypeOK
      <4> QED
        BY <2>2, <4>1, <4>2 DEF FlagInv, DownIsReported, Believed, Unreported
    <3> QED
      BY <3>1, <3>2
  <2> QED
    BY <2>6, <2>7, <2>8 DEF FlagInv
<1>2. ASSUME NEW t \in Others, Native(t) PROVE FlagInv'
  <2>1. /\ pc' = [pc EXCEPT ![t] = "native"] /\ t \in Tasks /\ t \notin Presenters
        /\ UNCHANGED <<diy, entryClear, clear, lock, link, mode, trusted, ready, disturbed, faults>>
    BY <1>2, TasksAssumption DEF Native, Tasks
  <2>2. \A u \in Tasks \ {t} : pc'[u] = pc[u]
    BY <2>1 DEF TypeInv, TypeOK
  <2>3. \A u \in Tasks : pc'[u] = "entering" => pc[u] = "entering"
    BY <2>1, <2>2 DEF TypeInv, TypeOK
  <2>4. EntryStands'
    BY <2>1, <2>3 DEF FlagInv, EntryStands, NotLast
  <2>5. \A u \in Presenters : pc'[u] = pc[u]
    BY <2>1, <2>2 DEF Tasks
  <2> QED
    BY <2>1, <2>4, <2>5 DEF FlagInv, DownIsReported, Believed, Undisturbed, Unreported, IsReady
<1>3. ASSUME NEW policy \in Entries, SetEntryClear(policy) PROVE FlagInv'
  BY <1>3 DEF SetEntryClear, FlagInv, EntryStands, NotLast, DownIsReported, Believed, Undisturbed, Unreported, IsReady
<1> QED
  BY <1>1, <1>2, <1>3

LEMMA FlagLeaves ==
  ASSUME TypeInv, FlagInv,
         \/ \E t \in Tasks : Entered(t) \/ FrameShown(t) \/ NativeShown(t)
         \/ OnDisconnected
  PROVE  FlagInv'
<1>0. ready \in Seq(Item)
  BY DEF TypeInv, TypeOK, Item
<1>1. ASSUME NEW t \in Tasks, Ends(t),
             \A u \in Tasks \ {t} : pc'[u] = pc[u],
             DownIsReported', Believed', Undisturbed'
      PROVE  FlagInv'
  <2>1. \A u \in Tasks : ~IsReady(u)'
    BY <1>1, WriterLeaves
  <2> QED
    BY <1>1, <2>1 DEF FlagInv, EntryStands, IsReady
<1>2. ASSUME NEW t \in Tasks, Ends(t)
      PROVE  /\ UNCHANGED <<clear, link, mode, disturbed>>
             /\ IsReady(Dropped)' <=> IsReady(Dropped)
             /\ \A u \in Tasks : ~IsReady(u)'
             /\ IsReady(t)
             /\ Unreported' <=> IsReady(Dropped)
             /\ ~Unreported => ~Unreported'
  <2>1. UNCHANGED <<clear, link, mode, disturbed>> /\ ready # <<>> /\ ready' = Tail(ready) /\ Head(ready) = t
    BY <1>2 DEF Ends
  <2>2. IsReady(Dropped)' <=> IsReady(Dropped)
    BY <1>0, <2>1, QueueAdvances, TasksAssumption
  <2>3. IsReady(t) /\ \A u \in Tasks : ~IsReady(u)'
    BY <1>2, WriterLeaves
  <2> QED
    BY <2>1, <2>2, <2>3 DEF Unreported, Tasks
<1>3. ASSUME NEW t \in Tasks, Entered(t) PROVE FlagInv'
  <2>1. /\ pc[t] = "entering" /\ Ends(t) /\ diy' = TRUE /\ trusted' = clear[t]
        /\ pc' = [pc EXCEPT ![t] = "showing"]
    BY <1>3 DEF Entered
  <2>2. \A u \in Tasks \ {t} : pc'[u] = pc[u]
    BY <2>1 DEF TypeInv, TypeOK
  <2>3. ~Unreported' => link # "down" /\ (clear[t] => mode = "diy")
    BY <1>2, <2>1, HeadStands DEF FlagInv, EntryStands
  <2>4. DownIsReported' /\ Believed'
    BY <1>2, <2>1, <2>3 DEF DownIsReported, Believed
  <2>5. Undisturbed'
    <3> SUFFICES ASSUME NEW u \in Presenters, pc'[u] # "idle", u \notin disturbed
                 PROVE  ~Unreported' /\ (pc'[u] = "showing" => link # "down" /\ (clear[t] => mode = "diy"))
      BY <1>2, <2>1 DEF Undisturbed
    <3>1. pc[u] # "idle"
      BY <2>1, <2>2 DEF Tasks
    <3>2. ~Unreported
      BY <3>1 DEF FlagInv, Undisturbed
    <3> QED
      BY <1>2, <2>1, <2>3, <3>2
  <2> QED
    BY <1>1, <2>1, <2>2, <2>4, <2>5
<1>4. ASSUME NEW t \in Tasks, FrameShown(t) PROVE FlagInv'
  <2>1. /\ pc[t] = "showing" /\ Ends(t) /\ UNCHANGED <<diy, trusted>>
        /\ pc' = [pc EXCEPT ![t] = "idle"]
    BY <1>4 DEF FrameShown
  <2>2. /\ \A u \in Tasks \ {t} : pc'[u] = pc[u]
        /\ \A u \in Tasks : pc'[u] # "idle" => pc[u] = pc'[u]
    BY <2>1 DEF TypeInv, TypeOK
  <2>3. t \in Presenters /\ t \notin Others
    BY <2>1, TasksAssumption DEF TypeInv, Kinds, Tasks
  <2>4. \A u \in Tasks : IsReady(u) => u = t
    BY <1>2, <2>1 DEF TypeInv, TypeOK
  <2>5. Unreported' <=> Unreported
    BY <1>2, <2>1, <2>3, <2>4 DEF Unreported, Tasks
  <2>6. DownIsReported' /\ Believed'
    BY <1>2, <2>1, <2>5 DEF FlagInv, DownIsReported, Believed
  <2>7. Undisturbed'
    BY <1>2, <2>1, <2>2, <2>5 DEF FlagInv, Undisturbed, Tasks
  <2> QED
    BY <1>1, <2>1, <2>2, <2>6, <2>7
<1>5. ASSUME NEW t \in Tasks, NativeShown(t) PROVE FlagInv'
  <2>1. /\ pc[t] = "native" /\ Ends(t) /\ diy' = FALSE /\ UNCHANGED trusted
        /\ pc' = [pc EXCEPT ![t] = "idle"]
    BY <1>5 DEF NativeShown
  <2>2. /\ \A u \in Tasks \ {t} : pc'[u] = pc[u]
        /\ \A u \in Tasks : pc'[u] # "idle" => pc[u] = pc'[u]
    BY <2>1 DEF TypeInv, TypeOK
  <2>3. DownIsReported' /\ Believed'
    BY <2>1 DEF DownIsReported, Believed
  <2>4. Undisturbed'
    BY <1>2, <2>1, <2>2 DEF FlagInv, Undisturbed, Tasks
  <2> QED
    BY <1>1, <2>1, <2>2, <2>3, <2>4
<1>6. CASE OnDisconnected
  <2>1. /\ ready' = Tail(ready) /\ ready # <<>> /\ Head(ready) = Dropped /\ diy' = FALSE
        /\ UNCHANGED <<entryClear, pc, clear, lock, link, mode, trusted, disturbed, calls, faults>>
    BY <1>6 DEF OnDisconnected
  <2>2. /\ Len(ready) \in Nat \ {0} /\ Len(ready') = Len(ready) - 1 /\ ready[1] = Dropped
        /\ \A i \in 1..Len(ready') : ready'[i] = ready[i + 1]
        /\ \A y : IsReady(y)' => IsReady(y)
    BY <1>0, <2>1, QueueAdvances
  <2>3. EntryStands'
    <3> SUFFICES ASSUME NEW i \in 1..Len(ready'), ready'[i] \in Tasks, pc[ready'[i]] = "entering", ~NotLast(i)'
                 PROVE  link # "down" /\ (clear[ready'[i]] => mode = "diy")
      BY <2>1 DEF EntryStands
    <3>1. i + 1 \in 1..Len(ready) /\ ready[i + 1] = ready'[i]
      BY <2>2
    <3>2. ASSUME NEW j \in 1..Len(ready), j > i + 1, ready[j] = Dropped PROVE FALSE
      <4>1. j - 1 \in 1..Len(ready') /\ j - 1 > i /\ ready'[j - 1] = Dropped
        BY <2>2, <3>2
      <4> QED
        BY <4>1 DEF NotLast
    <3>3. ~NotLast(i + 1)
      BY <3>2 DEF NotLast
    <3> QED
      BY <3>1, <3>3 DEF FlagInv, EntryStands
  <2>4. DownIsReported' /\ Believed'
    BY <2>1 DEF DownIsReported, Believed
  <2>5. Undisturbed'
    <3>1. Unreported' => Unreported
      BY <2>2 DEF Unreported
    <3> QED
      BY <2>1, <3>1 DEF FlagInv, Undisturbed
  <2> QED
    BY <2>3, <2>4, <2>5 DEF FlagInv
<1> QED
  BY <1>3, <1>4, <1>5, <1>6

LEMMA FlagWritten ==
  ASSUME TypeInv, FlagInv, NEW t \in Tasks, Written(t)
  PROVE  FlagInv'
<1>0. ready \in Seq(Item) /\ t \in Item /\ t # Dropped
  BY TasksAssumption DEF TypeInv, TypeOK, Item
<1>1. /\ pc[t] # "idle" /\ ~IsReady(t) /\ lock = t /\ link = "up" /\ ready' = Append(ready, t)
      /\ UNCHANGED <<diy, entryClear, pc, clear, lock, link, trusted, calls, faults>>
  BY DEF Written, Writes
<1>2. /\ Len(ready) \in Nat /\ Len(ready') = Len(ready) + 1 /\ ready'[Len(ready) + 1] = t
      /\ \A i \in 1..Len(ready) : ready'[i] = ready[i]
      /\ \A y : IsReady(y)' <=> IsReady(y) \/ y = t
  BY <1>0, <1>1, QueueAppends
<1>3. \A u \in Tasks : ~IsReady(u)
  BY <1>1 DEF TypeInv, TypeOK
<1>4. \A i \in 1..Len(ready') : ready'[i] \in Tasks => ready'[i] = t
  BY <1>2, <1>3 DEF IsReady
<1>5. EntryStands'
  <2>1. pc[t] = "entering" => (clear[t] => mode' = "diy")
    BY DEF Written
  <2> QED
    BY <1>1, <1>4, <2>1 DEF EntryStands
<1>6. DownIsReported'
  BY <1>1 DEF DownIsReported
<1>7. CASE pc[t] = "native"
  <2>1. t \in Others /\ disturbed' = Presenters
    BY <1>7 DEF Written, TypeInv, Kinds, Tasks
  <2>2. Unreported'
    BY <1>2, <2>1 DEF Unreported
  <2> QED
    BY <1>5, <1>6, <2>1, <2>2 DEF FlagInv, Believed, Undisturbed
<1>8. CASE pc[t] # "native"
  <2>1. t \notin Others /\ UNCHANGED disturbed /\ (mode = "diy" => mode' = "diy")
    BY <1>1, <1>8 DEF Written, TypeInv, TypeOK, Kinds
  <2>2. Unreported' <=> Unreported
    BY <1>0, <1>2, <2>1 DEF Unreported
  <2> QED
    BY <1>1, <1>5, <1>6, <2>1, <2>2 DEF FlagInv, Believed, Undisturbed
<1> QED
  BY <1>7, <1>8

LEMMA FlagTransport ==
  ASSUME TypeInv, FlagInv, "mute" \notin Faults,
         \/ \E t \in Tasks : TakesWire(t) \/ SelfHeals(t) \/ Raises(t)
         \/ Reconnects \/ Drop \/ HostResumes
  PROVE  FlagInv'
<1>1. ASSUME NEW t \in Tasks, TakesWire(t) PROVE FlagInv'
  BY <1>1 DEF TakesWire, FlagInv, EntryStands, NotLast, DownIsReported, Believed, Undisturbed, Unreported, IsReady
<1>2. CASE Drop \/ \E t \in Tasks : SelfHeals(t)
  <2>1. ready' = Append(ready, Dropped) /\ disturbed' = Presenters
    BY <1>2 DEF Drop, SelfHeals, Fault
  <2>2. IsReady(Dropped)' /\ EntryStands'
    BY <2>1, DropFollows
  <2> QED
    BY <2>1, <2>2 DEF FlagInv, DownIsReported, Believed, Undisturbed, Unreported
<1>3. ASSUME NEW t \in Tasks, Raises(t) PROVE FlagInv'
  <2>1. /\ ~IsReady(t) /\ pc' = [pc EXCEPT ![t] = "idle"]
        /\ UNCHANGED <<diy, entryClear, clear, link, mode, trusted, ready, disturbed, calls>>
    BY <1>3 DEF Raises, Writes
  <2>2. \A u \in Tasks : pc'[u] # "idle" => pc[u] = pc'[u]
    BY <2>1 DEF TypeInv, TypeOK
  <2>3. EntryStands'
    BY <2>1, <2>2 DEF FlagInv, EntryStands, NotLast
  <2>4. Undisturbed'
    BY <2>1, <2>2 DEF FlagInv, Undisturbed, Unreported, IsReady, Tasks
  <2> QED
    BY <2>1, <2>3, <2>4 DEF FlagInv, DownIsReported, Believed, Unreported, IsReady
<1>4. CASE Reconnects
  <2>1. /\ link = "down" /\ link' = "up"
        /\ UNCHANGED <<diy, entryClear, pc, clear, lock, trusted, ready, disturbed, calls, faults>>
    BY <1>4 DEF Reconnects
  <2>2. Unreported' <=> Unreported
    BY <2>1 DEF Unreported, IsReady
  <2>3. diy => Unreported
    BY <2>1 DEF FlagInv, DownIsReported, Unreported
  <2>4. EntryStands'
    BY <2>1 DEF FlagInv, EntryStands, NotLast
  <2> QED
    BY <2>1, <2>2, <2>3, <2>4 DEF FlagInv, DownIsReported, Believed, Undisturbed
<1>5. CASE HostResumes
  BY <1>5 DEF HostResumes, FlagInv, EntryStands, NotLast, DownIsReported, Believed, Undisturbed, Unreported, IsReady
<1> QED
  BY <1>1, <1>2, <1>3, <1>4, <1>5

LEMMA FlagInit == Init => FlagInv
<1> SUFFICES ASSUME Init PROVE FlagInv
  OBVIOUS
<1>1. Len(ready) = 0 /\ diy = FALSE /\ \A t \in Presenters : pc[t] = "idle"
  BY DEF Init, Tasks
<1> QED
  BY <1>1 DEF FlagInv, EntryStands, DownIsReported, Believed, Undisturbed

LEMMA FlagNext == "mute" \notin Faults /\ TypeInv /\ FlagInv /\ [Next]_vars => FlagInv'
<1> SUFFICES ASSUME "mute" \notin Faults, TypeInv, FlagInv, [Next]_vars PROVE FlagInv'
  OBVIOUS
<1>1. CASE UNCHANGED vars
  BY <1>1 DEF vars, FlagInv, EntryStands, NotLast, DownIsReported, Believed, Undisturbed, Unreported, IsReady
<1> QED
  BY <1>1, FlagCalls, FlagLeaves, FlagWritten, FlagTransport DEF Next, TaskStep, Finished

LEMMA FlagInvariant ==
  ASSUME "mute" \notin Faults
  PROVE  Spec => []FlagInv
BY TypeInit, TypeNext, FlagInit, FlagNext, PTL DEF Spec

(* When bleak reports every disconnection, the driver never believes in DIY    *)
(* mode on a link that is up while the panel is out of it and nothing that     *)
(* would tell it so is on its way.                                             *)
THEOREM FlagIsHonest ==
  ASSUME "mute" \notin Faults
  PROVE  Spec => []FlagHonest
<1>1. FlagInv => FlagHonest
  BY DEF FlagInv, Believed, FlagHonest
<1> QED
  BY <1>1, FlagInvariant, PTL

(* And a frame that neither a drop nor a native command came across is written *)
(* to a panel in DIY mode, however many presenters share the driver.           *)
THEOREM UndisturbedFramesLand ==
  ASSUME "mute" \notin Faults
  PROVE  Spec => []UndisturbedFrameLands
<1>1. FlagInv => UndisturbedFrameLands
  BY DEF FlagInv, Undisturbed, UndisturbedFrameLands
<1> QED
  BY <1>1, FlagInvariant, PTL
=============================================================================
