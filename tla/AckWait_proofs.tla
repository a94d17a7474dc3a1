--------------------------- MODULE AckWait_proofs ---------------------------
(***************************************************************************)
(* The ack wait of single commands: types, that a wait is heard, and that   *)
(* an undisturbed wait gets the answer to its own command.                  *)
(***************************************************************************)
EXTENDS AckWait, TLAPS

PcValues == {"idle", "connecting", "writing", "written", "waiting"}

LEMMA TypeInit == Init => TypeOK
<1> SUFFICES ASSUME Init PROVE TypeOK
  OBVIOUS
<1>1. inbox \in Seq(Asked) /\ air \in Seq(Ack)
  BY DEF Init
<1> QED
  BY <1>1, BoundsAssumption DEF Init, TypeOK

(* What a call that ends leaves behind. *)
LEMMA LeaveType ==
  ASSUME TypeOK, NEW t \in Callers, NEW how \in {"ok", "rejected", "silent", "raised"}, Leave(t, how)
  PROVE  /\ pc' \in [Callers -> PcValues] /\ pc'[t] = "idle"
         /\ cmd' \in [Callers -> Commands \cup {None}]
         /\ call' \in [Callers -> 0..MaxCalls]
         /\ waits' \in [Callers -> BOOLEAN] /\ waits'[t] = FALSE
         /\ future' \in [Callers -> Ack \cup {NoAck}] /\ future'[t] = NoAck
         /\ outcome' \in [Callers -> {"none", "ok", "rejected", "silent", "raised"}]
         /\ pending' \in [Keys -> Callers \cup {None}]
         /\ verdict' \in [Callers -> {"unsent", "arrived", "accepted", "rejected", "ignored"}]
         /\ fresh' \in [Callers -> BOOLEAN]
         /\ \A u \in Callers \ {t} :
               /\ pc'[u] = pc[u] /\ cmd'[u] = cmd[u] /\ waits'[u] = waits[u]
               /\ call'[u] = call[u] /\ future'[u] = future[u] /\ fresh'[u] = fresh[u]
<1>1. /\ pc' \in [Callers -> PcValues] /\ pc'[t] = "idle"
      /\ cmd' \in [Callers -> Commands \cup {None}]
      /\ waits' \in [Callers -> BOOLEAN] /\ waits'[t] = FALSE
      /\ fresh' \in [Callers -> BOOLEAN]
  BY DEF Leave, Forget, TypeOK, PcValues
<1>2. call' \in [Callers -> 0..MaxCalls]
  BY BoundsAssumption DEF Leave, Forget, TypeOK
<1>3. /\ future' \in [Callers -> Ack \cup {NoAck}] /\ future'[t] = NoAck
      /\ outcome' \in [Callers -> {"none", "ok", "rejected", "silent", "raised"}]
      /\ verdict' \in [Callers -> {"unsent", "arrived", "accepted", "rejected", "ignored"}]
  BY DEF Leave, Forget, TypeOK
<1>4. pending' \in [Keys -> Callers \cup {None}]
  BY DEF Leave, Forget, TypeOK
<1>5. \A u \in Callers \ {t} :
         /\ pc'[u] = pc[u] /\ cmd'[u] = cmd[u] /\ waits'[u] = waits[u]
         /\ call'[u] = call[u] /\ future'[u] = future[u] /\ fresh'[u] = fresh[u]
  BY DEF Leave, Forget, TypeOK
<1> QED
  BY <1>1, <1>2, <1>3, <1>4, <1>5

LEMMA StartsType ==
  ASSUME TypeOK, NEW t \in Callers, NEW c \in Commands, NEW waiting \in BOOLEAN,
         calls < MaxCalls, calls' = calls + 1, Starts(t, c, waiting)
  PROVE  /\ pc' \in [Callers -> PcValues] /\ pc'[t] = "connecting"
         /\ cmd' \in [Callers -> Commands \cup {None}] /\ cmd'[t] = c
         /\ call' \in [Callers -> 0..MaxCalls]
         /\ waits' \in [Callers -> BOOLEAN] /\ waits'[t] = waiting
         /\ future' \in [Callers -> Ack \cup {NoAck}] /\ future'[t] = NoAck
         /\ outcome' \in [Callers -> {"none", "ok", "rejected", "silent", "raised"}]
         /\ pending' \in [Keys -> Callers \cup {None}]
         /\ verdict' \in [Callers -> {"unsent", "arrived", "accepted", "rejected", "ignored"}]
         /\ fresh' \in [Callers -> BOOLEAN]
         /\ \A u \in Callers \ {t} :
               /\ pc'[u] = pc[u] /\ cmd'[u] = cmd[u] /\ waits'[u] = waits[u]
               /\ call'[u] = call[u] /\ future'[u] = future[u]
<1>1. MaxCalls \in Nat /\ calls \in Nat
  BY BoundsAssumption DEF TypeOK
<1>2. calls + 1 \in 0..MaxCalls
  BY <1>1
<1>3. fresh' \in [Callers -> BOOLEAN]
  <2>1. \A u \in Callers :
           (IF u = t THEN ~Due(t, Key[c]) ELSE fresh[u] /\ ~(pc[u] # "idle" /\ Key[cmd[u]] = Key[c])) \in BOOLEAN
    OBVIOUS
  <2> QED
    BY <2>1, Zenon DEF Starts
<1>4. pending' \in [Keys -> Callers \cup {None}]
  BY DEF Starts, TypeOK
<1> QED
  BY <1>2, <1>3, <1>4 DEF Starts, TypeOK, PcValues

(* The two ways in which a call of the application begins. *)
LEMMA CallMoves ==
  ASSUME NEW t \in Callers, Call(t)
  PROVE  /\ calls < MaxCalls /\ calls' = calls + 1
         /\ UNCHANGED <<verify, inbox, air, faults>>
         /\ \/ Refuses(t)
            \/ \E c \in Commands, waiting \in BOOLEAN :
                  Starts(t, c, waiting) /\ (waiting => Free(Key[c]))
BY DEF Call, Calling, SendCommand, AwaitDeviceAck

LEMMA FaultType == ASSUME TypeOK, NEW what, Fault(what) PROVE faults' \in 0..MaxFaults
BY BoundsAssumption DEF Fault, TypeOK

LEMMA CallType == ASSUME TypeOK, NEW t \in Callers, pc[t] = "idle", Call(t) PROVE TypeOK'
<1>0. calls' \in 0..MaxCalls
  BY CallMoves, BoundsAssumption DEF TypeOK
<1>1. CASE Refuses(t)
  BY <1>0, <1>1, CallMoves DEF Refuses, TypeOK, historyVars
<1>2. ASSUME NEW c \in Commands, NEW waiting \in BOOLEAN, Starts(t, c, waiting) PROVE TypeOK'
  <2>0. calls < MaxCalls /\ calls' = calls + 1 /\ UNCHANGED <<verify, inbox, air, faults>>
    BY CallMoves
  <2>1. call'[t] = calls + 1
    BY <1>2 DEF Starts, TypeOK
  <2>2. call'[t] \in Calls
    BY <2>0, <2>1, BoundsAssumption DEF TypeOK, Calls
  <2>3. \A u \in Callers : pc'[u] # "idle" => cmd'[u] \in Commands /\ call'[u] \in Calls
    <3>1. \A u \in Callers : pc[u] # "idle" => cmd[u] \in Commands /\ call[u] \in Calls
      BY DEF TypeOK
    <3>2. /\ cmd'[t] = c
          /\ \A u \in Callers \ {t} : pc'[u] = pc[u] /\ cmd'[u] = cmd[u] /\ call'[u] = call[u]
      BY <1>2, <2>0, StartsType
    <3> QED
      BY <2>2, <3>1, <3>2
  <2>5. /\ verify' \in BOOLEAN /\ inbox' \in Seq(Asked) /\ air' \in Seq(Ack)
        /\ faults' \in 0..MaxFaults
    BY <2>0 DEF TypeOK
  <2> QED
    BY <1>0, <1>2, <2>0, <2>3, <2>5, StartsType DEF TypeOK, PcValues
<1> QED
  BY <1>1, <1>2, CallMoves

(* A caller either moves on, at most past its write, or leaves. *)
LEMMA CallerMoves ==
  ASSUME TypeOK, NEW t \in Callers, CallerStep(t)
  PROVE  /\ pc[t] # "idle"
         /\ UNCHANGED <<verify, calls>> /\ faults' \in 0..MaxFaults
         /\ \/ /\ \E to \in PcValues \ {"idle"} : pc' = [pc EXCEPT ![t] = to]
               /\ UNCHANGED <<cmd, call, waits, future, outcome, pending, fresh>>
               /\ verdict' \in {verdict, [verdict EXCEPT ![t] = "arrived"]}
               /\ \/ inbox' = Append(inbox, [of |-> call[t], key |-> Key[cmd[t]]]) /\ air' = air
                  \/ inbox' = <<>> /\ air' = <<>>
                  \/ UNCHANGED <<inbox, air>>
            \/ /\ \E how \in {"ok", "rejected", "silent", "raised"} : Leave(t, how)
               /\ \/ inbox' = <<>> /\ air' = <<>>
                  \/ UNCHANGED <<inbox, air>>
<1>0. faults \in 0..MaxFaults /\ pc[t] \in PcValues
  BY DEF TypeOK, PcValues
<1>1. CASE Connected(t)
  BY <1>0, <1>1, FaultType DEF Connected, Moves, PcValues
<1>2. CASE Arrives(t)
  BY <1>0, <1>2 DEF Arrives, Moves, PcValues
<1>3. CASE WriteReturns(t)
  BY <1>0, <1>3 DEF WriteReturns, Moves, PcValues
<1>4. CASE WriteFails(t)
  BY <1>0, <1>4, FaultType DEF WriteFails, Moves, PcValues
<1>5. CASE Answered(t)
  BY <1>0, <1>5 DEF Answered
<1>6. CASE TimesOut(t)
  <2>1. faults' \in 0..MaxFaults
    BY <1>0, <1>6, FaultType DEF TimesOut
  <2> QED
    BY <1>6, <2>1 DEF TimesOut
<1>7. CASE Cancelled(t)
  BY <1>0, <1>7, FaultType DEF Cancelled
<1> QED
  BY <1>1, <1>2, <1>3, <1>4, <1>5, <1>6, <1>7 DEF CallerStep

LEMMA CallerType == ASSUME TypeOK, NEW t \in Callers, CallerStep(t) PROVE TypeOK'
<1>1. pc[t] # "idle" /\ call[t] \in Calls /\ cmd[t] \in Commands
  BY CallerMoves DEF TypeOK
<1>2. inbox' \in Seq(Asked) /\ air' \in Seq(Ack)
  <2>1. <<>> \in Seq(Asked) /\ <<>> \in Seq(Ack)
    OBVIOUS
  <2>2. [of |-> call[t], key |-> Key[cmd[t]]] \in Asked
    BY <1>1 DEF Asked, Keys
  <2>3. inbox \in Seq(Asked) /\ air \in Seq(Ack)
    BY DEF TypeOK
  <2>4. Append(inbox, [of |-> call[t], key |-> Key[cmd[t]]]) \in Seq(Asked)
    BY <2>2, <2>3
  <2> QED
    BY <2>1, <2>3, <2>4, CallerMoves
<1>3. ASSUME NEW to \in PcValues \ {"idle"}, pc' = [pc EXCEPT ![t] = to],
             UNCHANGED <<cmd, call, waits, future, outcome, pending, fresh>>,
             verdict' \in {verdict, [verdict EXCEPT ![t] = "arrived"]}
      PROVE  TypeOK'
  BY <1>1, <1>2, <1>3, CallerMoves DEF TypeOK, PcValues
<1>4. ASSUME NEW how \in {"ok", "rejected", "silent", "raised"}, Leave(t, how) PROVE TypeOK'
  <2>1. \A u \in Callers : pc'[u] # "idle" => cmd'[u] \in Commands /\ call'[u] \in Calls
    <3>1. \A u \in Callers : pc[u] # "idle" => cmd[u] \in Commands /\ call[u] \in Calls
      BY DEF TypeOK
    <3>2. /\ pc'[t] = "idle"
          /\ \A u \in Callers \ {t} : pc'[u] = pc[u] /\ cmd'[u] = cmd[u] /\ call'[u] = call[u]
      BY <1>4, LeaveType
    <3> QED
      BY <3>1, <3>2
  <2>3. verify' \in BOOLEAN /\ calls' \in 0..MaxCalls /\ faults' \in 0..MaxFaults
    BY CallerMoves DEF TypeOK
  <2> QED
    BY <1>2, <1>4, <2>1, <2>3, LeaveType DEF TypeOK, PcValues
<1> QED
  BY <1>3, <1>4, CallerMoves

LEMMA PanelType == ASSUME TypeOK, Answers \/ Notified PROVE TypeOK'
<1>1. CASE Answers
  <2>1. /\ verdict' \in [Callers -> {"unsent", "arrived", "accepted", "rejected", "ignored"}]
        /\ UNCHANGED <<callerVars, verify, fresh, calls, faults>>
    BY <1>1 DEF Answers, Decides, TypeOK
  <2>2. Head(inbox) \in Asked /\ inbox' \in Seq(Asked)
    BY <1>1 DEF Answers, TypeOK
  <2>3. \A yes \in BOOLEAN : [of |-> Head(inbox).of, key |-> Head(inbox).key, accepted |-> yes] \in Ack
    BY <2>2 DEF Asked, Ack
  <2>4. air' \in Seq(Ack)
    <3>1. air \in Seq(Ack)
      BY DEF TypeOK
    <3>2. CASE UNCHANGED air
      BY <3>1, <3>2
    <3>3. ASSUME NEW yes \in BOOLEAN,
                 air' = Append(air, [of |-> Head(inbox).of, key |-> Head(inbox).key, accepted |-> yes])
          PROVE  air' \in Seq(Ack)
      BY <2>3, <3>1, <3>3
    <3> QED
      BY <1>1, <3>2, <3>3 DEF Answers
  <2> QED
    BY <2>1, <2>2, <2>4 DEF TypeOK, callerVars
<1>2. CASE Notified
  <2>1. Head(air) \in Ack /\ air' \in Seq(Ack)
    BY <1>2 DEF Notified, TypeOK
  <2>2. faults' \in 0..MaxFaults
    BY <1>2, FaultType DEF Notified, TypeOK
  <2>3. /\ future' \in [Callers -> Ack \cup {NoAck}]
        /\ UNCHANGED <<pc, cmd, call, waits, outcome, pending, verify, inbox, verdict, fresh, calls>>
    BY <1>2, <2>1 DEF Notified, Resolves, TypeOK, historyVars
  <2> QED
    BY <2>1, <2>2, <2>3 DEF TypeOK
<1> QED
  BY <1>1, <1>2

(* Every variable keeps its type, for any callers, commands and bounds.       *)
THEOREM Typing == Spec => []TypeOK
<1>1. TypeOK /\ [Next]_vars => TypeOK'
  <2> SUFFICES ASSUME TypeOK, [Next]_vars PROVE TypeOK'
    OBVIOUS
  <2>1. ASSUME NEW t \in Callers, Call(t) PROVE TypeOK'
    BY <2>1, CallType DEF Call
  <2>2. CASE SetCommandVerification
    BY <2>2 DEF SetCommandVerification, TypeOK, callerVars, historyVars
  <2>3. CASE UNCHANGED vars
    BY <2>3 DEF TypeOK, vars, callerVars, historyVars
  <2> QED
    BY <2>1, <2>2, <2>3, CallerType, PanelType DEF Next, Finished
<1> QED
  BY <1>1, TypeInit, PTL DEF Spec

-----------------------------------------------------------------------------
(* A wait is heard *)

LEMMA HeardCaller ==
  ASSUME TypeOK, EachWaitHeard, NEW t \in Callers, Call(t) \/ CallerStep(t), Call(t) => pc[t] = "idle"
  PROVE  EachWaitHeard'
<1>0. /\ None \notin Callers
      /\ \A c \in Commands : Key[c] \in Keys
  BY CallersAssumption DEF Keys
<1>1. CASE Refuses(t)
  BY <1>1 DEF Refuses, EachWaitHeard
<1>2. ASSUME NEW c \in Commands, NEW waiting \in BOOLEAN, Starts(t, c, waiting), waiting => Free(Key[c]),
             pc[t] = "idle"
      PROVE  EachWaitHeard'
  <2>1. ~waits[t]
    BY <1>2 DEF EachWaitHeard
  <2>2. \A u \in Callers : waits'[u] => pc'[u] # "idle" /\ pending'[Key[cmd'[u]]] = u
    BY <1>0, <1>2, <2>1 DEF Starts, Free, EachWaitHeard, TypeOK
  <2>3. \A k \in Keys : pending'[k] # None => waits'[pending'[k]] /\ Key[cmd'[pending'[k]]] = k
    BY <1>0, <1>2, <2>1 DEF Starts, Free, EachWaitHeard, TypeOK
  <2> QED
    BY <2>2, <2>3 DEF EachWaitHeard
<1>3. ASSUME NEW to \in PcValues \ {"idle"}, pc' = [pc EXCEPT ![t] = to], UNCHANGED <<cmd, waits, pending>>
      PROVE  EachWaitHeard'
  BY <1>3 DEF EachWaitHeard, TypeOK
<1>4. ASSUME NEW how \in {"ok", "rejected", "silent", "raised"}, Leave(t, how), pc[t] # "idle"
      PROVE  EachWaitHeard'
  <2>1. \A u \in Callers : waits'[u] => pc'[u] # "idle" /\ pending'[Key[cmd'[u]]] = u
    BY <1>0, <1>4 DEF Leave, Forget, EachWaitHeard, TypeOK
  <2>2. \A k \in Keys : pending'[k] # None => waits'[pending'[k]] /\ Key[cmd'[pending'[k]]] = k
    BY <1>0, <1>4 DEF Leave, Forget, EachWaitHeard, TypeOK
  <2> QED
    BY <2>1, <2>2 DEF EachWaitHeard
<1>5. CASE Call(t)
  BY <1>1, <1>2, <1>5, CallMoves
<1>6. CASE CallerStep(t)
  BY <1>3, <1>4, <1>6, CallerMoves
<1> QED
  BY <1>5, <1>6

(* EachWaitHeard: the future of every wait is the one its ack will find.      *)
THEOREM WaitsAreHeard == Spec => []EachWaitHeard
<1>1. Init => EachWaitHeard
  BY DEF Init, EachWaitHeard
<1>2. TypeOK /\ EachWaitHeard /\ [Next]_vars => EachWaitHeard'
  <2> SUFFICES ASSUME TypeOK, EachWaitHeard, [Next]_vars PROVE EachWaitHeard'
    OBVIOUS
  <2>1. ASSUME NEW t \in Callers, Call(t) \/ CallerStep(t) PROVE EachWaitHeard'
    BY <2>1, HeardCaller DEF Call
  <2>2. CASE UNCHANGED <<pc, cmd, waits, pending>>
    BY <2>2 DEF EachWaitHeard
  <2> QED
    BY <2>1, <2>2 DEF Next, SetCommandVerification, Answers, Notified, Finished, vars, callerVars
<1> QED
  BY <1>1, <1>2, Typing, PTL DEF Spec

-----------------------------------------------------------------------------
(* An undisturbed wait gets its own answer *)

(* While a call is fresh no other call of its key is under way, and whatever  *)
(* of that key is due answers it: what OwnAnswer needs to be inductive.       *)
Alone(t) ==
  pc[t] # "idle" /\ fresh[t] =>
    /\ \A u \in Callers \ {t} : pc[u] # "idle" => Key[cmd[u]] # Key[cmd[t]]
    /\ \A i \in DOMAIN inbox : inbox[i].key = Key[cmd[t]] => inbox[i].of = call[t]
    /\ \A i \in DOMAIN air : air[i].key = Key[cmd[t]] => air[i].of = call[t]
    /\ future[t] # NoAck => future[t].of = call[t]

AllAlone == \A t \in Callers : Alone(t)

LEMMA AloneCall ==
  ASSUME TypeOK, AllAlone, NEW t \in Callers, pc[t] = "idle", Call(t), NEW u \in Callers
  PROVE  Alone(u)'
<1>0. UNCHANGED <<inbox, air>>
  BY CallMoves
<1>1. CASE Refuses(t)
  BY <1>0, <1>1 DEF Refuses, AllAlone, Alone, historyVars
<1>2. ASSUME NEW c \in Commands, NEW waiting \in BOOLEAN, Starts(t, c, waiting) PROVE Alone(u)'
  <2>1. /\ cmd'[t] = c /\ future'[t] = NoAck
        /\ \A v \in Callers \ {t} :
              pc'[v] = pc[v] /\ cmd'[v] = cmd[v] /\ call'[v] = call[v] /\ future'[v] = future[v]
    BY <1>2 DEF Starts, TypeOK
  <2>2. CASE u = t
    <3>1. SUFFICES ASSUME fresh'[u] PROVE Alone(u)'
      BY DEF Alone
    <3>2. ~Due(t, Key[c])
      BY <1>2, <2>2, <3>1 DEF Starts
    <3> QED
      BY <1>0, <2>1, <2>2, <3>2 DEF Alone, Due, KeyIn
  <2>3. CASE u # t
    <3>1. SUFFICES ASSUME pc'[u] # "idle", fresh'[u] PROVE Alone(u)'
      BY DEF Alone
    <3>2. pc[u] # "idle" /\ fresh[u] /\ Key[cmd[u]] # Key[c]
      BY <1>2, <2>1, <2>3, <3>1 DEF Starts
    <3> QED
      BY <1>0, <2>1, <2>3, <3>2 DEF Alone, AllAlone
  <2> QED
    BY <2>2, <2>3
<1> QED
  BY <1>1, <1>2, CallMoves

LEMMA AloneCaller ==
  ASSUME TypeOK, AllAlone, NEW t \in Callers, CallerStep(t), NEW u \in Callers
  PROVE  Alone(u)'
<1>0. pc[t] # "idle" /\ inbox \in Seq(Asked) /\ air \in Seq(Ack)
  BY CallerMoves DEF TypeOK
<1>1. ASSUME NEW to \in PcValues \ {"idle"}, pc' = [pc EXCEPT ![t] = to],
             UNCHANGED <<cmd, call, future, fresh>>,
             \/ inbox' = Append(inbox, [of |-> call[t], key |-> Key[cmd[t]]]) /\ air' = air
             \/ inbox' = <<>> /\ air' = <<>>
             \/ UNCHANGED <<inbox, air>>
      PROVE  Alone(u)'
  <2>1. SUFFICES ASSUME pc'[u] # "idle", fresh[u] PROVE Alone(u)'
    BY <1>1 DEF Alone
  <2>2. /\ pc[u] # "idle"
        /\ \A v \in Callers : pc'[v] # "idle" => pc[v] # "idle"
    BY <1>0, <1>1, <2>1 DEF TypeOK
  <2>3. \A i \in DOMAIN inbox' : inbox'[i].key = Key[cmd[u]] => inbox'[i].of = call[u]
    <3>1. CASE inbox' = Append(inbox, [of |-> call[t], key |-> Key[cmd[t]]])
      <4>1. \A i \in DOMAIN inbox' : i \in DOMAIN inbox \/ inbox'[i] = [of |-> call[t], key |-> Key[cmd[t]]]
        BY <1>0, <3>1
      <4>2. \A i \in DOMAIN inbox : inbox'[i] = inbox[i]
        BY <1>0, <3>1
      <4>3. Key[cmd[t]] = Key[cmd[u]] => t = u
        BY <1>0, <2>1, <2>2 DEF AllAlone, Alone
      <4> QED
        BY <2>1, <2>2, <4>1, <4>2, <4>3 DEF AllAlone, Alone
    <3>2. CASE inbox' = <<>> \/ inbox' = inbox
      BY <2>1, <2>2, <3>2 DEF AllAlone, Alone
    <3> QED
      BY <1>1, <3>1, <3>2
  <2> QED
    BY <1>1, <2>1, <2>2, <2>3 DEF AllAlone, Alone
<1>2. ASSUME NEW how \in {"ok", "rejected", "silent", "raised"}, Leave(t, how),
             \/ inbox' = <<>> /\ air' = <<>>
             \/ UNCHANGED <<inbox, air>>
      PROVE  Alone(u)'
  <2>1. /\ pc'[t] = "idle"
        /\ \A v \in Callers \ {t} :
              /\ pc'[v] = pc[v] /\ cmd'[v] = cmd[v] /\ call'[v] = call[v]
              /\ future'[v] = future[v] /\ fresh'[v] = fresh[v]
    BY <1>2, LeaveType
  <2>2. Alone(u)
    BY DEF AllAlone
  <2> QED
    BY <1>2, <2>1, <2>2 DEF Alone
<1> QED
  BY <1>1, <1>2, CallerMoves

LEMMA AlonePanel ==
  ASSUME TypeOK, EachWaitHeard, AllAlone, Answers \/ Notified, NEW u \in Callers
  PROVE  Alone(u)'
<1>0. inbox \in Seq(Asked) /\ air \in Seq(Ack)
  BY DEF TypeOK
<1>1. CASE Answers
  <2>1. UNCHANGED <<pc, cmd, call, future, fresh>> /\ inbox # <<>> /\ inbox' = Tail(inbox)
    BY <1>1 DEF Answers, callerVars
  <2>2. \A i \in DOMAIN inbox' : i + 1 \in DOMAIN inbox /\ inbox'[i] = inbox[i + 1]
    BY <1>0, <2>1
  <2>3. ASSUME NEW i \in DOMAIN air', air'[i].key # Key[cmd[u]] \/ i \notin DOMAIN air \/ air'[i] # air[i]
        PROVE  \/ air'[i].key # Key[cmd[u]]
               \/ air'[i].of = inbox[1].of /\ air'[i].key = inbox[1].key
    <3>1. CASE UNCHANGED air
      BY <2>3, <3>1
    <3>2. ASSUME NEW yes \in BOOLEAN,
                 air' = Append(air, [of |-> Head(inbox).of, key |-> Head(inbox).key, accepted |-> yes])
          PROVE  air'[i].key # Key[cmd[u]] \/ (air'[i].of = inbox[1].of /\ air'[i].key = inbox[1].key)
      BY <1>0, <2>1, <2>3, <3>2
    <3> QED
      BY <1>1, <3>1, <3>2 DEF Answers
  <2>4. 1 \in DOMAIN inbox
    BY <1>0, <2>1
  <2> QED
    BY <2>1, <2>2, <2>3, <2>4 DEF AllAlone, Alone
<1>2. CASE Notified
  <2>1. UNCHANGED <<pc, cmd, call, fresh, inbox>> /\ air # <<>> /\ air' = Tail(air)
    BY <1>2 DEF Notified, historyVars
  <2>2. \A i \in DOMAIN air' : i + 1 \in DOMAIN air /\ air'[i] = air[i + 1]
    BY <1>0, <2>1
  <2>3. 1 \in DOMAIN air /\ Head(air) = air[1] /\ Head(air) \in Ack
    BY <1>0, <2>1
  <2>4. future'[u] = future[u] \/ (future'[u] = air[1] /\ pending[air[1].key] = u)
    BY <1>2, <2>3 DEF Notified, Resolves, Waiter, TypeOK
  <2>5. pending[air[1].key] = u => Key[cmd[u]] = air[1].key
    BY <2>3, CallersAssumption DEF EachWaitHeard, Ack
  <2> QED
    BY <2>1, <2>2, <2>3, <2>4, <2>5 DEF AllAlone, Alone
<1> QED
  BY <1>1, <1>2

LEMMA AloneNext == TypeOK /\ EachWaitHeard /\ AllAlone /\ [Next]_vars => AllAlone'
<1> SUFFICES ASSUME TypeOK, EachWaitHeard, AllAlone, [Next]_vars, NEW u \in Callers PROVE Alone(u)'
  BY DEF AllAlone
<1>1. ASSUME NEW t \in Callers, Call(t) PROVE Alone(u)'
  BY <1>1, AloneCall DEF Call
<1>2. CASE UNCHANGED <<pc, cmd, call, future, fresh, inbox, air>>
  BY <1>2 DEF AllAlone, Alone
<1> QED
  BY <1>1, <1>2, AloneCaller, AlonePanel
     DEF Next, SetCommandVerification, Finished, vars, callerVars, historyVars

(* OwnAnswer: an undisturbed wait is resolved by the answer to its command.   *)
THEOREM UndisturbedWaitsGetTheirs == Spec => []OwnAnswer
<1>1. Init => AllAlone
  BY DEF Init, AllAlone, Alone
<1>2. AllAlone => OwnAnswer
  BY DEF AllAlone, Alone, OwnAnswer
<1> QED
  BY <1>1, <1>2, AloneNext, Typing, WaitsAreHeard, PTL DEF Spec
-----------------------------------------------------------------------------
(* A rejected command raises *)

(* Calls have numbers of their own, and nothing on its way is of a later one. *)
Numbered ==
  /\ \A t \in Callers : call[t] <= calls
  /\ \A t, u \in Callers : call[t] = call[u] /\ call[t] # 0 => t = u
  /\ \A i \in DOMAIN inbox : inbox[i].of <= calls
  /\ \A i \in DOMAIN air : air[i].of <= calls

(* Where the answer to a call is.  It is due at one place at a time, and what *)
(* is in the air, or in the future, is the verdict of the panel; and without  *)
(* a fault the rejection of a command that is waited for stays on its way     *)
(* until it is in the future.                                                 *)
Tells(ack, t) == verdict[t] = IF ack.accepted THEN "accepted" ELSE "rejected"
Unarrived(t) ==
  pc[t] \in {"connecting", "writing"} => ~CallIn(inbox, call[t]) /\ ~CallIn(air, call[t])
AskedOnce(t) ==
  \A i \in DOMAIN inbox : inbox[i].of = call[t] =>
    /\ inbox[i].key = Key[cmd[t]] /\ ~CallIn(air, call[t])
    /\ \A j \in DOMAIN inbox : inbox[j].of = call[t] => j = i
AirTells(t) ==
  \A i \in DOMAIN air : air[i].of = call[t] => air[i].key = Key[cmd[t]] /\ Tells(air[i], t)
FutureTells(t) ==
  faults = 0 /\ fresh[t] /\ future[t] # NoAck =>
    /\ pc[t] \in {"written", "waiting"} /\ ~CallIn(inbox, call[t])
    /\ Tells(future[t], t) /\ future[t].key = Key[cmd[t]]
RejectionComes(t) ==
  faults = 0 /\ waits[t] /\ verdict[t] = "rejected" => future[t] # NoAck \/ CallIn(air, call[t])
Story(t) ==
  pc[t] # "idle" =>
    Unarrived(t) /\ AskedOnce(t) /\ AirTells(t) /\ FutureTells(t) /\ RejectionComes(t)
AllStories == \A t \in Callers : Story(t)

LEMMA AppendTo ==
  ASSUME NEW S, NEW q \in Seq(S), NEW e \in S
  PROVE  /\ \A i \in DOMAIN q : i \in DOMAIN Append(q, e) /\ Append(q, e)[i] = q[i]
         /\ Len(q) + 1 \in DOMAIN Append(q, e) /\ Append(q, e)[Len(q) + 1] = e
         /\ \A i \in DOMAIN Append(q, e) : i \in DOMAIN q \/ i = Len(q) + 1
  OBVIOUS

LEMMA TailOf ==
  ASSUME NEW S, NEW q \in Seq(S), q # <<>>
  PROVE  /\ 1 \in DOMAIN q /\ Head(q) = q[1] /\ Head(q) \in S /\ Tail(q) \in Seq(S)
         /\ \A i \in DOMAIN Tail(q) : i + 1 \in DOMAIN q /\ i + 1 # 1 /\ Tail(q)[i] = q[i + 1]
         /\ \A i \in DOMAIN q \ {1} : i - 1 \in DOMAIN Tail(q) /\ Tail(q)[i - 1] = q[i]
  OBVIOUS

LEMMA FaultCounts ==
  ASSUME TypeOK
  PROVE  /\ faults \in Nat /\ calls \in Nat
         /\ \A what : Fault(what) => faults' # 0
         /\ [Next]_vars /\ faults' = 0 => faults = 0
<1>1. faults \in Nat /\ calls \in Nat
  BY BoundsAssumption DEF TypeOK
<1>2. \A what : Fault(what) => faults' # 0
  BY <1>1 DEF Fault
<1>3. [Next]_vars => faults' = faults \/ \E what : Fault(what)
  BY CallMoves DEF Next, CallerStep, Connected, Arrives, WriteReturns, WriteFails, Answered, TimesOut, Cancelled,
                   SetCommandVerification, Answers, Notified, Finished, vars
<1> QED
  BY <1>1, <1>2, <1>3

LEMMA NumberedNext == TypeOK /\ Numbered /\ [Next]_vars => Numbered'
<1> SUFFICES ASSUME TypeOK, Numbered, [Next]_vars PROVE Numbered'
  OBVIOUS
<1>0. /\ inbox \in Seq(Asked) /\ air \in Seq(Ack) /\ calls \in Nat
      /\ call \in [Callers -> Nat]
      /\ \A e \in Asked \cup Ack : e.of \in Nat
  BY FaultCounts, BoundsAssumption DEF TypeOK, Asked, Ack, Calls
<1>1. ASSUME NEW t \in Callers, Call(t) PROVE Numbered'
  <2>1. calls' = calls + 1 /\ UNCHANGED <<inbox, air>>
    BY <1>1, CallMoves
  <2>2. /\ \A i \in DOMAIN inbox : inbox[i] \in Asked /\ inbox[i].of \in Nat
        /\ \A i \in DOMAIN air : air[i] \in Ack /\ air[i].of \in Nat
    BY <1>0
  <2>3. call' = call \/ call' = [call EXCEPT ![t] = calls + 1]
    BY <1>1, CallMoves DEF Refuses, Starts
  <2> QED
    BY <1>0, <2>1, <2>2, <2>3 DEF Numbered
<1>2. ASSUME NEW t \in Callers, CallerStep(t) PROVE Numbered'
  <2>1. calls' = calls /\ pc[t] # "idle" /\ (call' = call \/ call' = [call EXCEPT ![t] = 0])
    BY <1>2, CallerMoves DEF Leave, Forget
  <2>2. /\ \A u \in Callers : call'[u] <= calls'
        /\ \A u, v \in Callers : call'[u] = call'[v] /\ call'[u] # 0 => u = v
    BY <1>0, <2>1 DEF Numbered
  <2>3. [of |-> call[t], key |-> Key[cmd[t]]] \in Asked /\ call[t] <= calls
    BY <2>1 DEF TypeOK, Asked, Keys, Numbered
  <2>4. CASE UNCHANGED <<inbox, air>>
    BY <2>1, <2>2, <2>4 DEF Numbered
  <2>5. CASE inbox' = <<>> /\ air' = <<>>
    BY <2>1, <2>2, <2>5 DEF Numbered
  <2>6. CASE inbox' = Append(inbox, [of |-> call[t], key |-> Key[cmd[t]]]) /\ air' = air
    <3>1. \A i \in DOMAIN inbox' : inbox'[i].of <= calls'
      BY <1>0, <2>1, <2>3, <2>6, AppendTo DEF Numbered
    <3> QED
      BY <2>1, <2>2, <2>6, <3>1 DEF Numbered
  <2> QED
    BY <1>2, <2>4, <2>5, <2>6, CallerMoves
<1>3. CASE Answers
  <2>1. UNCHANGED <<call, calls>> /\ inbox # <<>> /\ inbox' = Tail(inbox)
    BY <1>3 DEF Answers, callerVars
  <2>2. \A i \in DOMAIN inbox' : inbox'[i].of <= calls'
    BY <1>0, <2>1, TailOf DEF Numbered
  <2>3. \A yes \in BOOLEAN : [of |-> Head(inbox).of, key |-> Head(inbox).key, accepted |-> yes] \in Ack
    <3>1. Head(inbox) \in Asked
      BY <1>0, <2>1, TailOf
    <3> QED
      BY <3>1 DEF Asked, Ack
  <2>4. Head(inbox).of <= calls
    BY <1>0, <2>1, TailOf DEF Numbered
  <2>5. \A i \in DOMAIN air' : air'[i].of <= calls'
    <3>1. CASE UNCHANGED air
      BY <2>1, <3>1 DEF Numbered
    <3>2. ASSUME NEW yes \in BOOLEAN,
                 air' = Append(air, [of |-> Head(inbox).of, key |-> Head(inbox).key, accepted |-> yes])
          PROVE  \A i \in DOMAIN air' : air'[i].of <= calls'
      BY <1>0, <2>1, <2>3, <2>4, <3>2, AppendTo DEF Numbered
    <3> QED
      BY <1>3, <3>1, <3>2 DEF Answers
  <2> QED
    BY <2>1, <2>2, <2>5 DEF Numbered
<1>4. CASE Notified
  BY <1>0, <1>4, TailOf DEF Notified, Numbered
<1>5. CASE UNCHANGED <<call, calls, inbox, air>>
  BY <1>5 DEF Numbered
<1> QED
  BY <1>1, <1>2, <1>3, <1>4, <1>5
     DEF Next, SetCommandVerification, Finished, vars, callerVars

(* A call keeps its story through whatever does not concern it. *)
LEMMA StoryElsewhere ==
  ASSUME TypeOK, AllStories, NEW u \in Callers, pc[u] # "idle",
         pc'[u] = pc[u], cmd'[u] = cmd[u], call'[u] = call[u], waits'[u] = waits[u],
         future'[u] = future[u], verdict'[u] = verdict[u], fresh'[u] => fresh[u],
         faults' = 0 => faults = 0,
         \/ UNCHANGED <<inbox, air>>
         \/ inbox' = <<>> /\ air' = <<>> /\ faults' # 0
         \/ /\ \E e \in Asked : inbox' = Append(inbox, e) /\ e.of # call[u]
            /\ air' = air
  PROVE  Story(u)'
<1>0. Story(u) /\ inbox \in Seq(Asked)
  BY DEF AllStories, TypeOK
<1>1. CASE UNCHANGED <<inbox, air>>
  BY <1>0, <1>1
     DEF Story, Unarrived, AskedOnce, AirTells, FutureTells, RejectionComes, Tells, CallIn
<1>2. CASE inbox' = <<>> /\ air' = <<>> /\ faults' # 0
  BY <1>2 DEF Story, Unarrived, AskedOnce, AirTells, FutureTells, RejectionComes, CallIn
<1>3. ASSUME NEW e \in Asked, inbox' = Append(inbox, e), e.of # call[u], air' = air PROVE Story(u)'
  <2>1. /\ \A i \in DOMAIN inbox : i \in DOMAIN inbox' /\ inbox'[i] = inbox[i]
        /\ \A i \in DOMAIN inbox' : inbox'[i].of = call[u] => i \in DOMAIN inbox
    BY <1>0, <1>3, AppendTo
  <2>2. Unarrived(u)' /\ FutureTells(u)'
    BY <1>0, <1>3, <2>1 DEF Story, Unarrived, FutureTells, Tells, CallIn
  <2>3. AskedOnce(u)'
    BY <1>0, <1>3, <2>1 DEF Story, AskedOnce, CallIn
  <2>4. AirTells(u)' /\ RejectionComes(u)'
    BY <1>0, <1>3 DEF Story, AirTells, RejectionComes, Tells, CallIn
  <2> QED
    BY <2>2, <2>3, <2>4 DEF Story
<1> QED
  BY <1>1, <1>2, <1>3

LEMMA StoryCall ==
  ASSUME TypeOK, Numbered, AllStories, NEW t \in Callers, pc[t] = "idle", Call(t), NEW u \in Callers
  PROVE  Story(u)'
<1>0. UNCHANGED <<inbox, air, faults>> /\ calls \in Nat
  BY CallMoves, FaultCounts
<1>1. CASE Refuses(t)
  <2>1. UNCHANGED <<pc, cmd, call, waits, future, verdict, fresh>>
    BY <1>1 DEF Refuses, historyVars
  <2>2. CASE pc[u] # "idle"
    BY <1>0, <2>1, <2>2, StoryElsewhere
  <2> QED
    BY <2>1, <2>2 DEF Story
<1>2. ASSUME NEW c \in Commands, NEW waiting \in BOOLEAN, Starts(t, c, waiting), calls' = calls + 1
      PROVE  Story(u)'
  <2>1. CASE u = t
    <3>1. call'[t] = calls + 1 /\ future'[t] = NoAck /\ verdict'[t] = "unsent"
      BY <1>2 DEF Starts, TypeOK
    <3>2. inbox \in Seq(Asked) /\ air \in Seq(Ack)
      BY DEF TypeOK
    <3>3. ~CallIn(inbox, calls + 1) /\ ~CallIn(air, calls + 1)
      BY <1>0, <3>2, BoundsAssumption DEF CallIn, Numbered, Asked, Ack, Calls
    <3> QED
      BY <1>0, <2>1, <3>1, <3>3
         DEF Story, Unarrived, AskedOnce, AirTells, FutureTells, RejectionComes, CallIn
  <2>2. CASE u # t /\ pc[u] # "idle"
    <3>1. /\ pc'[u] = pc[u] /\ cmd'[u] = cmd[u] /\ call'[u] = call[u] /\ waits'[u] = waits[u]
          /\ future'[u] = future[u] /\ verdict'[u] = verdict[u]
          /\ fresh'[u] => fresh[u]
      BY <1>2, <2>2 DEF Starts, TypeOK
    <3> QED
      BY <1>0, <2>2, <3>1, StoryElsewhere
  <2>3. CASE u # t /\ pc[u] = "idle"
    BY <1>2, <2>3 DEF Starts, TypeOK, Story
  <2> QED
    BY <2>1, <2>2, <2>3
<1> QED
  BY <1>1, <1>2, CallMoves


(* What the step of a caller leaves to another one. *)
LEMMA StoryOfOthers ==
  ASSUME TypeOK, Numbered, AllStories, NEW t \in Callers, CallerStep(t), NEW u \in Callers \ {t},
         faults' = 0 => faults = 0
  PROVE  Story(u)'
<1>1. /\ pc'[u] = pc[u] /\ cmd'[u] = cmd[u] /\ call'[u] = call[u] /\ waits'[u] = waits[u]
      /\ future'[u] = future[u] /\ fresh'[u] = fresh[u] /\ verdict'[u] = verdict[u]
  <2>1. CASE /\ \E to \in PcValues \ {"idle"} : pc' = [pc EXCEPT ![t] = to]
             /\ UNCHANGED <<cmd, call, waits, future, outcome, pending, fresh>>
             /\ verdict' \in {verdict, [verdict EXCEPT ![t] = "arrived"]}
    BY <2>1 DEF TypeOK
  <2>2. CASE \E how \in {"ok", "rejected", "silent", "raised"} : Leave(t, how)
    <3>1. verdict' = [verdict EXCEPT ![t] = "unsent"]
      BY <2>2 DEF Leave, Forget
    <3>2. verdict'[u] = verdict[u]
      BY <3>1 DEF TypeOK
    <3> QED
      BY <2>2, <3>2, LeaveType
  <2> QED
    BY <2>1, <2>2, CallerMoves
<1>2. CASE pc[u] = "idle"
  BY <1>1, <1>2 DEF Story
<1>3. CASE pc[u] # "idle"
  <2>1. call[t] \in Calls /\ cmd[t] \in Commands
    BY CallerMoves DEF TypeOK
  <2>2. call[t] # call[u] /\ [of |-> call[t], key |-> Key[cmd[t]]] \in Asked
    BY <2>1, BoundsAssumption DEF Numbered, Asked, Keys, Calls
  <2>3. CASE inbox' = Append(inbox, [of |-> call[t], key |-> Key[cmd[t]]]) /\ air' = air
    BY <1>1, <1>3, <2>2, <2>3, StoryElsewhere
  <2>4. CASE UNCHANGED <<inbox, air>>
    BY <1>1, <1>3, <2>4, StoryElsewhere
  <2>5. CASE WriteFails(t)
    <3>1. inbox' = <<>> /\ air' = <<>> /\ faults' # 0
      BY <2>5, FaultCounts DEF WriteFails
    <3> QED
      BY <1>1, <1>3, <3>1, StoryElsewhere
  <2> QED
    BY <2>3, <2>4, <2>5
       DEF CallerStep, Connected, Arrives, WriteReturns, Answered, TimesOut, Cancelled
<1> QED
  BY <1>2, <1>3

LEMMA StoryOfCaller ==
  ASSUME TypeOK, AllStories, NEW t \in Callers, CallerStep(t), faults' = 0 => faults = 0
  PROVE  Story(t)'
<1>0. inbox \in Seq(Asked) /\ air \in Seq(Ack) /\ Story(t) /\ pc[t] # "idle"
  BY CallerMoves DEF TypeOK, AllStories
<1>1. CASE \E how \in {"ok", "rejected", "silent", "raised"} : Leave(t, how)
  BY <1>1, LeaveType DEF Story
<1>2. CASE Connected(t) /\ Moves(t, "connecting", "writing") /\ UNCHANGED <<verdict, faults>>
  <2>1. /\ UNCHANGED <<cmd, call, waits, future, fresh, verdict, faults, inbox, air>>
        /\ pc[t] = "connecting" /\ pc'[t] = "writing"
    BY <1>2 DEF Connected, Moves, TypeOK
  <2> QED
    BY <1>0, <2>1 DEF Story, Unarrived, AskedOnce, AirTells, FutureTells, RejectionComes, Tells, CallIn
<1>3. CASE Arrives(t)
  <2> DEFINE asked == [of |-> call[t], key |-> Key[cmd[t]]]
  <2>1. /\ UNCHANGED <<cmd, call, waits, future, fresh, air, faults>>
        /\ pc[t] = "writing" /\ pc'[t] = "written" /\ verdict'[t] = "arrived"
        /\ inbox' = Append(inbox, asked)
    BY <1>3 DEF Arrives, Moves, TypeOK
  <2>2. asked \in Asked
    BY <1>0 DEF Asked, Keys, TypeOK
  <2>3. ~CallIn(inbox, call[t]) /\ ~CallIn(air, call[t])
    BY <1>0, <2>1 DEF Story, Unarrived
  <2>4. AskedOnce(t)'
    <3> HIDE DEF asked
    <3>1. \A i \in DOMAIN inbox' : inbox'[i].of = call[t] => i = Len(inbox) + 1 /\ inbox'[i] = asked
      BY <1>0, <2>1, <2>2, <2>3, AppendTo DEF CallIn
    <3>2. asked.key = Key[cmd[t]]
      BY DEF asked
    <3> QED
      BY <2>1, <2>3, <3>1, <3>2 DEF AskedOnce, CallIn
  <2>5. FutureTells(t)' /\ RejectionComes(t)'
    BY <1>0, <2>1 DEF Story, FutureTells, RejectionComes
  <2>6. Unarrived(t)' /\ AirTells(t)'
    BY <2>1, <2>3 DEF Unarrived, AirTells, CallIn
  <2> QED
    BY <2>4, <2>5, <2>6 DEF Story
<1>4. CASE WriteReturns(t) /\ Moves(t, "written", "waiting") /\ UNCHANGED verdict
  <2>1. /\ UNCHANGED <<cmd, call, waits, future, fresh, verdict, faults, inbox, air>>
        /\ pc[t] = "written" /\ pc'[t] = "waiting"
    BY <1>4 DEF WriteReturns, Moves, TypeOK
  <2> QED
    BY <1>0, <2>1 DEF Story, Unarrived, AskedOnce, AirTells, FutureTells, RejectionComes, Tells, CallIn
<1>5. CASE WriteFails(t)
  <2>1. inbox' = <<>> /\ air' = <<>> /\ faults' # 0
    BY <1>5, FaultCounts DEF WriteFails
  <2> QED
    BY <2>1 DEF Story, Unarrived, AskedOnce, AirTells, FutureTells, RejectionComes, CallIn
<1> QED
  BY <1>1, <1>2, <1>3, <1>4, <1>5
     DEF CallerStep, Connected, WriteReturns, Answered, TimesOut, Cancelled

LEMMA StoryAnswers ==
  ASSUME TypeOK, AllStories, Answers, NEW u \in Callers
  PROVE  Story(u)'
<1> DEFINE asked == inbox[1]
<1>0. /\ UNCHANGED <<pc, cmd, call, waits, future, fresh, faults>>
      /\ inbox \in Seq(Asked) /\ air \in Seq(Ack) /\ inbox # <<>> /\ inbox' = Tail(inbox)
  BY DEF Answers, callerVars, TypeOK
<1>1. /\ 1 \in DOMAIN inbox /\ Head(inbox) = inbox[1] /\ inbox[1] \in Asked
      /\ \A i \in DOMAIN inbox' : i + 1 \in DOMAIN inbox /\ i + 1 # 1 /\ inbox'[i] = inbox[i + 1]
  BY <1>0, TailOf
<1> SUFFICES ASSUME pc[u] # "idle" PROVE Story(u)'
  BY <1>0 DEF Story
<1>2. Story(u)
  BY DEF AllStories
<1>3. PICK what \in {"accepted", "rejected", "ignored"} :
        /\ Decides(asked, what)
        /\ \/ what = "ignored" /\ UNCHANGED air
           \/ \E yes \in BOOLEAN :
                /\ what = IF yes THEN "accepted" ELSE "rejected"
                /\ air' = Append(air, [of |-> asked.of, key |-> asked.key, accepted |-> yes])
  BY <1>1 DEF Answers
<1>4. verdict'[u] = IF call[u] = asked.of THEN what ELSE verdict[u]
  BY <1>3 DEF Decides
<1> DEFINE Kept == \A i \in DOMAIN air : i \in DOMAIN air' /\ air'[i] = air[i]
           Added == \A i \in DOMAIN air' \ DOMAIN air :
                      /\ air'[i].of = asked.of /\ air'[i].key = asked.key
                      /\ what = IF air'[i].accepted THEN "accepted" ELSE "rejected"
<1>5. Kept /\ Added
  <2>1. CASE UNCHANGED air
    BY <2>1
  <2>2. ASSUME NEW yes \in BOOLEAN, what = IF yes THEN "accepted" ELSE "rejected",
               air' = Append(air, [of |-> asked.of, key |-> asked.key, accepted |-> yes])
        PROVE  Kept /\ Added
    <3> DEFINE ack == [of |-> asked.of, key |-> asked.key, accepted |-> yes]
    <3>1. ack \in Ack
      BY <1>1 DEF Asked, Ack
    <3>2. ack.of = asked.of /\ ack.key = asked.key /\ ack.accepted = yes
      OBVIOUS
    <3> HIDE DEF ack, asked
    <3> QED
      BY <1>0, <2>2, <3>1, <3>2, AppendTo DEF ack
  <2> QED
    BY <1>3, <2>1, <2>2
<1>6. CASE call[u] # asked.of
  <2>1. /\ CallIn(inbox, call[u])' => CallIn(inbox, call[u])
        /\ CallIn(air, call[u])' <=> CallIn(air, call[u])
    BY <1>0, <1>1, <1>5, <1>6 DEF CallIn
  <2>2. \A i \in DOMAIN air' : air'[i].of = call[u] => i \in DOMAIN air
    BY <1>5, <1>6
  <2>3. verdict'[u] = verdict[u]
    BY <1>4, <1>6
  <2>4. Unarrived(u)' /\ FutureTells(u)' /\ RejectionComes(u)'
    BY <1>0, <1>2, <2>1, <2>3 DEF Story, Unarrived, FutureTells, RejectionComes, Tells
  <2>5. AskedOnce(u)'
    <3> SUFFICES ASSUME NEW i \in DOMAIN inbox', inbox'[i].of = call[u]
                 PROVE  /\ inbox'[i].key = Key[cmd[u]] /\ ~CallIn(air, call[u])'
                        /\ \A j \in DOMAIN inbox' : inbox'[j].of = call[u] => j = i
      BY <1>0 DEF AskedOnce
    <3>1. /\ inbox[i + 1].key = Key[cmd[u]] /\ ~CallIn(air, call[u])
          /\ \A j \in DOMAIN inbox : inbox[j].of = call[u] => j = i + 1
      BY <1>1, <1>2 DEF Story, AskedOnce
    <3>2. \A j \in DOMAIN inbox' : inbox'[j].of = call[u] => j + 1 = i + 1
      BY <1>1, <3>1
    <3>3. \A j \in DOMAIN inbox' : j \in Nat
      BY <1>0, TailOf
    <3> QED
      BY <1>1, <2>1, <3>1, <3>2, <3>3
  <2>6. AirTells(u)'
    BY <1>0, <1>2, <1>5, <2>2, <2>3 DEF Story, AirTells, Tells
  <2> QED
    BY <2>4, <2>5, <2>6 DEF Story
<1>7. CASE call[u] = asked.of
  <2>1. /\ asked.key = Key[cmd[u]] /\ ~CallIn(air, call[u]) /\ CallIn(inbox, call[u])
        /\ \A j \in DOMAIN inbox : inbox[j].of = call[u] => j = 1
    BY <1>1, <1>2, <1>7 DEF Story, AskedOnce, CallIn
  <2>2. ~CallIn(inbox, call[u])'
    BY <1>0, <1>1, <2>1 DEF CallIn
  <2>3. verdict'[u] = what
    BY <1>4, <1>7
  <2>4. AskedOnce(u)' /\ FutureTells(u)'
    BY <1>0, <1>2, <2>1, <2>2 DEF Story, AskedOnce, FutureTells, CallIn
  <2>5. AirTells(u)'
    BY <1>0, <1>5, <2>1, <2>3 DEF AirTells, Tells, CallIn
  <2>6. RejectionComes(u)'
    <3> SUFFICES ASSUME what = "rejected" PROVE CallIn(air, call[u])'
      BY <2>3 DEF RejectionComes
    <3>1. PICK yes \in BOOLEAN :
             air' = Append(air, [of |-> asked.of, key |-> asked.key, accepted |-> yes])
      BY <1>3
    <3>2. Len(air) + 1 \in DOMAIN air' /\ air'[Len(air) + 1].of = asked.of
      BY <1>0, <3>1
    <3> QED
      BY <1>0, <1>7, <3>2 DEF CallIn
  <2>7. Unarrived(u)'
    BY <1>0, <1>2, <2>1 DEF Story, Unarrived
  <2> QED
    BY <2>4, <2>5, <2>6, <2>7 DEF Story
<1> QED
  BY <1>6, <1>7

LEMMA StoryNotified ==
  ASSUME TypeOK, EachWaitHeard, AllAlone, AllStories, Notified, NEW u \in Callers
  PROVE  Story(u)'
<1>0. /\ UNCHANGED <<pc, cmd, call, waits, verdict, fresh, inbox>>
      /\ air \in Seq(Ack) /\ air # <<>> /\ air' = Tail(air)
  BY DEF Notified, historyVars, TypeOK
<1>1. /\ 1 \in DOMAIN air /\ Head(air) = air[1] /\ air[1] \in Ack
      /\ \A i \in DOMAIN air' : i + 1 \in DOMAIN air /\ air'[i] = air[i + 1]
      /\ \A i \in DOMAIN air \ {1} : i - 1 \in DOMAIN air' /\ air'[i - 1] = air[i]
  BY <1>0, TailOf
<1> SUFFICES ASSUME pc[u] # "idle" PROVE Story(u)'
  BY <1>0 DEF Story
<1>2. Story(u) /\ Alone(u)
  BY DEF AllStories, AllAlone
<1>3. CallIn(air, call[u])' => CallIn(air, call[u])
  BY <1>0, <1>1 DEF CallIn
<1>4. /\ faults' = 0 => faults = 0 /\ Resolves(air[1])
      /\ future'[u] # future[u] => future'[u] = air[1] /\ pending[air[1].key] = u
  <2>1. \/ Resolves(air[1]) /\ faults' = faults
        \/ faults' # 0 /\ future' = future
    BY <1>1, FaultCounts DEF Notified
  <2> QED
    BY <2>1 DEF Resolves, Waiter
<1>5. Unarrived(u)' /\ AskedOnce(u)'
  BY <1>0, <1>2, <1>3 DEF Story, Unarrived, AskedOnce, CallIn
<1>6. AirTells(u)'
  BY <1>0, <1>1, <1>2 DEF Story, AirTells, Tells
<1>7. FutureTells(u)'
  <2> SUFFICES ASSUME faults' = 0, fresh[u], future'[u] # NoAck
               PROVE  /\ pc[u] \in {"written", "waiting"} /\ ~CallIn(inbox, call[u])
                      /\ Tells(future[u], u)' /\ future'[u].key = Key[cmd[u]]
    BY <1>0 DEF FutureTells, CallIn
  <2>1. CASE future'[u] = future[u]
    BY <1>0, <1>2, <1>4, <2>1 DEF Story, FutureTells, Tells
  <2>2. CASE future'[u] # future[u]
    <3>1. future'[u] = air[1] /\ Key[cmd[u]] = air[1].key
      BY <1>1, <1>4, <2>2, CallersAssumption DEF EachWaitHeard, Ack
    <3>2. air[1].of = call[u] /\ CallIn(air, call[u])
      BY <1>1, <1>2, <3>1 DEF Alone, CallIn
    <3>3. Tells(air[1], u)
      BY <1>1, <1>2, <3>2 DEF Story, AirTells
    <3>4. ~CallIn(inbox, call[u])
      BY <1>2, <3>2 DEF Story, AskedOnce, CallIn
    <3>5. pc[u] \in {"written", "waiting"}
      BY <1>2, <3>2 DEF Story, Unarrived, TypeOK
    <3> QED
      BY <1>0, <3>1, <3>3, <3>4, <3>5 DEF Tells
  <2> QED
    BY <2>1, <2>2
<1>8. RejectionComes(u)'
  <2> SUFFICES ASSUME faults' = 0, waits[u], verdict[u] = "rejected", ~CallIn(air, call[u])'
               PROVE  future'[u] # NoAck
    BY <1>0 DEF RejectionComes
  <2>1. future'[u] = IF pending[air[1].key] = u /\ future[u] = NoAck THEN air[1] ELSE future[u]
    BY <1>4 DEF Resolves, Waiter
  <2>2. air[1] # NoAck
    BY <1>1, BoundsAssumption DEF Ack, Calls, NoAck
  <2>3. CASE future[u] # NoAck
    BY <2>1, <2>3
  <2>4. CASE CallIn(air, call[u]) /\ future[u] = NoAck
    <3>1. air[1].of = call[u]
      <4>1. PICK i \in DOMAIN air : air[i].of = call[u]
        BY <2>4 DEF CallIn
      <4>2. i = 1
        <5> SUFFICES ASSUME i # 1 PROVE FALSE
          OBVIOUS
        <5>1. i - 1 \in DOMAIN air' /\ air'[i - 1].of = call'[u]
          BY <1>0, <1>1, <4>1
        <5> QED
          BY <5>1 DEF CallIn
      <4> QED
        BY <4>1, <4>2
    <3>2. air[1].key = Key[cmd[u]]
      BY <1>1, <1>2, <3>1 DEF Story, AirTells
    <3>3. pending[air[1].key] = u
      BY <3>2 DEF EachWaitHeard
    <3> QED
      BY <2>1, <2>2, <2>4, <3>3
  <2> QED
    BY <1>2, <1>4, <2>3, <2>4 DEF Story, RejectionComes
<1> QED
  BY <1>5, <1>6, <1>7, <1>8 DEF Story

LEMMA StoryNext ==
  TypeOK /\ EachWaitHeard /\ AllAlone /\ Numbered /\ AllStories /\ [Next]_vars => AllStories'
<1> SUFFICES ASSUME TypeOK, EachWaitHeard, AllAlone, Numbered, AllStories, [Next]_vars,
                    NEW u \in Callers
             PROVE  Story(u)'
  BY DEF AllStories
<1>1. faults' = 0 => faults = 0
  BY FaultCounts
<1>2. ASSUME NEW t \in Callers, Call(t) PROVE Story(u)'
  BY <1>2, StoryCall DEF Call
<1>3. ASSUME NEW t \in Callers, CallerStep(t) PROVE Story(u)'
  BY <1>1, <1>3, StoryOfOthers, StoryOfCaller
<1>4. CASE UNCHANGED <<pc, cmd, call, waits, future, inbox, air, verdict, fresh, faults>>
  BY <1>4 DEF AllStories, Story, Unarrived, AskedOnce, AirTells, FutureTells, RejectionComes, Tells,
              CallIn
<1> QED
  BY <1>2, <1>3, <1>4, StoryAnswers, StoryNotified
     DEF Next, SetCommandVerification, Finished, vars, callerVars, historyVars

(* A wait that ends without a fault ends in a future, or in silence when its  *)
(* answer is due nowhere.                                                     *)
LEMMA RejectionStep ==
  ASSUME TypeOK, EachWaitHeard, AllStories, Next, NEW t \in Callers,
         waits[t], ~waits'[t], fresh[t], faults' = 0, Key[cmd[t]] \notin StatusKeys
  PROVE  outcome'[t] = "rejected" <=> verdict[t] = "rejected"
<1>0. pc[t] # "idle" /\ Story(t) /\ faults = 0
  BY FaultCounts DEF EachWaitHeard, AllStories
<1>1. CASE UNCHANGED waits
  BY <1>1
<1>2. ASSUME NEW u \in Callers, Call(u) PROVE FALSE
  <2>1. pc[u] = "idle" /\ u # t
    BY <1>0, <1>2 DEF Call
  <2> QED
    BY <1>2, <2>1, CallMoves DEF Refuses, Starts, TypeOK
<1>3. ASSUME NEW u \in Callers \ {t}, CallerStep(u) PROVE FALSE
  <2>1. waits'[t] = waits[t]
    <3>1. CASE \E how \in {"ok", "rejected", "silent", "raised"} : Leave(u, how)
      BY <1>3, <3>1, LeaveType
    <3>2. CASE UNCHANGED waits
      BY <3>2
    <3> QED
      BY <1>3, <3>1, <3>2, CallerMoves
  <2> QED
    BY <2>1
<1>4. CASE Answered(t)
  <2>1. outcome'[t] = IF Rejects(future[t]) THEN "rejected" ELSE "ok"
    BY <1>4 DEF Answered, Leave, TypeOK
  <2>2. future[t] # NoAck /\ Tells(future[t], t) /\ future[t].key = Key[cmd[t]]
    BY <1>0, <1>4 DEF Answered, Story, FutureTells
  <2>3. future[t].accepted \in BOOLEAN
    BY <2>2 DEF TypeOK, Ack
  <2> QED
    BY <2>1, <2>2, <2>3 DEF Tells, Rejects
<1>5. CASE TimesOut(t)
  <2>1. outcome'[t] = "silent"
    BY <1>5 DEF TimesOut, Leave, TypeOK
  <2>2. future[t] = NoAck /\ ~CallIn(air, call[t])
    BY <1>5, FaultCounts DEF TimesOut, OwnAnswerDue
  <2>3. verdict[t] # "rejected"
    BY <1>0, <2>2 DEF Story, RejectionComes
  <2> QED
    BY <2>1, <2>3
<1>6. CASE CallerStep(t) /\ ~Answered(t) /\ ~TimesOut(t)
  BY <1>1, <1>6, FaultCounts
     DEF CallerStep, Connected, Arrives, WriteReturns, WriteFails, Cancelled, Moves
<1> QED
  BY <1>1, <1>2, <1>3, <1>4, <1>5, <1>6
     DEF Next, SetCommandVerification, Answers, Notified, Finished, vars, callerVars

(* RejectionRaised: without a fault, an undisturbed wait for an accept or     *)
(* reject answer raises just when the panel rejected the command.             *)
THEOREM RejectionsRaise == Spec => RejectionRaised
<1>1. Init => Numbered /\ AllStories /\ AllAlone
  BY BoundsAssumption DEF Init, Numbered, AllStories, Story, AllAlone, Alone
<1>2. TypeOK /\ EachWaitHeard /\ AllAlone /\ Numbered /\ AllStories /\ [Next]_vars
      => AllAlone' /\ Numbered' /\ AllStories'
  BY AloneNext, NumberedNext, StoryNext
<1>3. TypeOK /\ EachWaitHeard /\ AllAlone /\ AllStories /\ [Next]_vars =>
        [\A t \in Callers :
           /\ waits[t] /\ ~waits'[t] /\ fresh[t] /\ faults' = 0
           /\ Key[cmd[t]] \notin StatusKeys
           => (outcome'[t] = "rejected" <=> verdict[t] = "rejected")]_vars
  BY RejectionStep
<1> QED
  BY <1>1, <1>2, <1>3, Typing, WaitsAreHeard, PTL DEF Spec, RejectionRaised
=============================================================================
