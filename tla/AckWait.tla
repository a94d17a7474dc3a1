------------------------------- MODULE AckWait -------------------------------
(***************************************************************************)
(* client.py, _Feature._send(), over transport/ble.py, await_device_ack() and *)
(* _handle_notification(): one flat command, and the wait for its ack.      *)
(*                                                                         *)
(* An action of a caller is the code from one await to the next.  An ack    *)
(* names its command by (type, subtype) only; the field "of" is not on the  *)
(* wire, it says which call the panel answered.                             *)
(*                                                                         *)
(* An operator defined just before another one with the same parameters,   *)
(* and not used, is a faulty variant of it that the properties detect.     *)
(***************************************************************************)
EXTENDS Naturals, Sequences

CONSTANTS Callers,     \* tasks of the application
          None,        \* no caller, no command
          Commands,    \* the commands they send
          Key,         \* (type, subtype) of each command
          Unverified,  \* commands the facade sends with verify=False
          Unackable,   \* commands with type byte 5: await_device_ack() refuses them
          StatusKeys,  \* keys whose acks carry a status, not accepted or rejected
          Api,         \* the API calls the application makes
          MaxCalls,    \* bound: commands sent
          MaxFaults,   \* bound: things that go wrong outside the process
          Faults       \* which of them may

Keys == {Key[c] : c \in Commands}
Calls == 1..MaxCalls

ASSUME CallersAssumption == None \notin Callers \cup Commands
ASSUME CommandsAssumption ==
  /\ DOMAIN Key = Commands
  /\ Unverified \subseteq Commands /\ Unackable \subseteq Commands
ASSUME BoundsAssumption == MaxCalls \in Nat /\ MaxFaults \in Nat

VARIABLES
  pc,        \* where each caller is suspended
  cmd,       \* the command it sends
  call,      \* which call that is, 0 for none
  waits,     \* whether it registered a future in _pending_acks
  future,    \* the result of that future
  outcome,   \* how its last call ended
  pending,   \* self._pending_acks: whose future is registered under each key
  verify,    \* _verify_commands of the features
  inbox,     \* panel: commands it has not dealt with, in order
  air,       \* notifications on their way, in order
  verdict,   \* history: what became of each caller's command
  fresh,     \* history: the wait began, and went on, with no other answer of its key due
  calls,     \* commands sent
  faults     \* faults so far

callerVars == <<pc, cmd, call, waits, future, outcome, pending>>
historyVars == <<verdict, fresh>>
vars == <<callerVars, verify, inbox, air, historyVars, calls, faults>>

Asked == [of : Calls, key : Keys]
Ack == [of : Calls, key : Keys, accepted : BOOLEAN]
NoAck == [of |-> 0]

TypeOK ==
  /\ pc \in [Callers -> {"idle", "connecting", "writing", "written", "waiting"}]
  /\ cmd \in [Callers -> Commands \cup {None}]
  /\ \A t \in Callers : pc[t] # "idle" => cmd[t] \in Commands /\ call[t] \in Calls
  /\ call \in [Callers -> 0..MaxCalls]
  /\ waits \in [Callers -> BOOLEAN]
  /\ future \in [Callers -> Ack \cup {NoAck}]
  /\ outcome \in [Callers -> {"none", "ok", "rejected", "silent", "raised"}]
  /\ pending \in [Keys -> Callers \cup {None}]
  /\ verify \in BOOLEAN
  /\ inbox \in Seq(Asked) /\ air \in Seq(Ack)
  /\ verdict \in [Callers -> {"unsent", "arrived", "accepted", "rejected", "ignored"}]
  /\ fresh \in [Callers -> BOOLEAN]
  /\ calls \in 0..MaxCalls /\ faults \in 0..MaxFaults

Init ==
  /\ pc = [t \in Callers |-> "idle"]
  /\ cmd = [t \in Callers |-> None]
  /\ call = [t \in Callers |-> 0]
  /\ waits = [t \in Callers |-> FALSE]
  /\ future = [t \in Callers |-> NoAck]
  /\ outcome = [t \in Callers |-> "none"]
  /\ pending = [k \in Keys |-> None]
  /\ verify \in BOOLEAN
  /\ inbox = <<>> /\ air = <<>>
  /\ verdict = [t \in Callers |-> "unsent"]
  /\ fresh = [t \in Callers |-> TRUE]
  /\ calls = 0 /\ faults = 0

Fault(what) == what \in Faults /\ faults < MaxFaults /\ faults' = faults + 1

-----------------------------------------------------------------------------
(* The calls *)

KeyIn(queue, k) == \E i \in DOMAIN queue : queue[i].key = k
CallIn(queue, n) == \E i \in DOMAIN queue : queue[i].of = n

(* Somebody else's command of this key is on its way, or its answer is.       *)
Due(t, k) ==
  \/ \E u \in Callers \ {t} : pc[u] # "idle" /\ Key[cmd[u]] = k
  \/ KeyIn(inbox, k) \/ KeyIn(air, k)

Starts(t, c, waiting) ==
  /\ pc' = [pc EXCEPT ![t] = "connecting"]
  /\ cmd' = [cmd EXCEPT ![t] = c]
  /\ call' = [call EXCEPT ![t] = calls + 1]
  /\ waits' = [waits EXCEPT ![t] = waiting]
  /\ future' = [future EXCEPT ![t] = NoAck]
  /\ outcome' = [outcome EXCEPT ![t] = "none"]
  /\ fresh' = [u \in Callers |->
                 IF u = t THEN ~Due(t, Key[c])
                 ELSE fresh[u] /\ ~(pc[u] # "idle" /\ Key[cmd[u]] = Key[c])]
  /\ pending' = IF waiting THEN [pending EXCEPT ![Key[c]] = t] ELSE pending
  /\ verdict' = [verdict EXCEPT ![t] = "unsent"]

(* ValueError, before anything is registered or written. *)
Refuses(t) ==
  /\ outcome' = [outcome EXCEPT ![t] = "raised"]
  /\ UNCHANGED <<pc, cmd, call, waits, future, pending, historyVars>>

AlwaysFree(k) == TRUE
Free(k) == pending[k] = None

AwaitDeviceAck(t, c) ==
  \/ c \in Unackable /\ Refuses(t)
  \/ c \notin Unackable /\ ~Free(Key[c]) /\ Refuses(t)
  \/ c \notin Unackable /\ Free(Key[c]) /\ Starts(t, c, TRUE)

(* _Feature._send(): a verified command awaits its ack, any other is written. *)
Verifies(c) == verify /\ c \notin Unverified /\ c \notin Unackable
SendCommand(t, c) ==
  \/ Verifies(c) /\ AwaitDeviceAck(t, c)
  \/ ~Verifies(c) /\ Starts(t, c, FALSE)

Calling(what) == what \in Api /\ calls < MaxCalls /\ calls' = calls + 1

Call(t) ==
  /\ pc[t] = "idle"
  /\ \E c \in Commands :
       \/ Calling("send") /\ SendCommand(t, c)
       \/ Calling("await") /\ AwaitDeviceAck(t, c)
  /\ UNCHANGED <<verify, inbox, air, faults>>

SetCommandVerification ==
  /\ "verification" \in Api
  /\ verify' = ~verify
  /\ UNCHANGED <<callerVars, inbox, air, historyVars, calls, faults>>

-----------------------------------------------------------------------------
(* The write and the wait *)

(* The finally clause takes the future out of _pending_acks.                  *)
Forget(t) ==
  /\ waits' = [waits EXCEPT ![t] = FALSE]
  /\ future' = [future EXCEPT ![t] = NoAck]
  /\ pending' = IF waits[t] THEN [pending EXCEPT ![Key[cmd[t]]] = None] ELSE pending
  /\ cmd' = [cmd EXCEPT ![t] = None]
  /\ call' = [call EXCEPT ![t] = 0]
  /\ verdict' = [verdict EXCEPT ![t] = "unsent"]
  /\ fresh' = [fresh EXCEPT ![t] = TRUE]

LeaveAndRetry(t, how) ==
  /\ outcome' = [outcome EXCEPT ![t] = how]
  /\ pc' = [pc EXCEPT ![t] = IF how = "silent" THEN "connecting" ELSE "idle"]
  /\ Forget(t)
Leave(t, how) ==
  /\ outcome' = [outcome EXCEPT ![t] = how]
  /\ pc' = [pc EXCEPT ![t] = "idle"]
  /\ Forget(t)

Moves(t, from, to) ==
  /\ pc[t] = from
  /\ pc' = [pc EXCEPT ![t] = to]
  /\ UNCHANGED <<cmd, call, waits, future, outcome, pending, fresh>>

(* _ensure_connected() returns, or its connect() raises: a TimeoutError is    *)
(* caught by await_device_ack() like that of its own wait.                    *)
Connected(t) ==
  /\ \/ Moves(t, "connecting", "writing") /\ UNCHANGED <<verdict, faults>>
     \/ pc[t] = "connecting" /\ Fault("connect") /\ Leave(t, "raised")
     \/ pc[t] = "connecting" /\ Fault("connect timeout") /\ Leave(t, IF waits[t] THEN "silent" ELSE "raised")
  /\ UNCHANGED <<verify, inbox, air, calls>>

Arrives(t) ==
  /\ Moves(t, "writing", "written")
  /\ inbox' = Append(inbox, [of |-> call[t], key |-> Key[cmd[t]]])
  /\ verdict' = [verdict EXCEPT ![t] = "arrived"]
  /\ UNCHANGED <<verify, air, calls, faults>>

WriteReturns(t) ==
  /\ \/ waits[t] /\ Moves(t, "written", "waiting") /\ UNCHANGED verdict
     \/ pc[t] = "written" /\ ~waits[t] /\ Leave(t, "ok")
  /\ UNCHANGED <<verify, inbox, air, calls, faults>>

(* The write fails: one reconnect and one more try, or ConnectionLostError.   *)
(* The old link takes with it whatever the panel had still to answer.         *)
WriteFails(t) ==
  /\ pc[t] \in {"writing", "written"}
  /\ \/ Fault("heal") /\ Moves(t, pc[t], "writing") /\ UNCHANGED verdict
     \/ Fault("link") /\ Leave(t, "raised")
  /\ inbox' = <<>> /\ air' = <<>>
  /\ UNCHANGED <<verify, calls>>

RejectsStatus(ack) == ack.key \in StatusKeys /\ ~ack.accepted
Rejects(ack) == ack.key \notin StatusKeys /\ ~ack.accepted

Answered(t) ==
  /\ pc[t] = "waiting" /\ future[t] # NoAck
  /\ Leave(t, IF Rejects(future[t]) THEN "rejected" ELSE "ok")
  /\ UNCHANGED <<verify, inbox, air, calls, faults>>

OwnAnswerDue(t) == CallIn(inbox, call[t]) \/ CallIn(air, call[t])

(* The timeout fires: nothing comes any more, the answer is late, or it came  *)
(* in the same turn of the event loop.                                        *)
TimesOutAfterAnswer(t) ==
  /\ pc[t] = "waiting" /\ future[t] # NoAck
  /\ Fault("race")
  /\ Leave(t, "silent")
  /\ UNCHANGED <<verify, inbox, air, calls>>
TimesOut(t) ==
  /\ pc[t] = "waiting"
  /\ \/ future[t] = NoAck /\ ~OwnAnswerDue(t) /\ UNCHANGED faults
     \/ future[t] = NoAck /\ OwnAnswerDue(t) /\ Fault("late")
     \/ future[t] # NoAck /\ Fault("race")
  /\ Leave(t, "silent")
  /\ UNCHANGED <<verify, inbox, air, calls>>

(* The application cancels the task of the call. *)
Cancelled(t) ==
  /\ pc[t] # "idle" /\ Fault("cancel")
  /\ Leave(t, "raised")
  /\ UNCHANGED <<verify, inbox, air, calls>>

-----------------------------------------------------------------------------
(* The panel and its notifications *)

(* It accepts, rejects, or does not answer what it does not recognize.        *)
Decides(asked, what) ==
  verdict' = [t \in Callers |-> IF call[t] = asked.of THEN what ELSE verdict[t]]
Answers ==
  /\ inbox # <<>>
  /\ LET asked == Head(inbox) IN
     \/ \E yes \in BOOLEAN :
          /\ Decides(asked, IF yes THEN "accepted" ELSE "rejected")
          /\ air' = Append(air, [of |-> asked.of, key |-> asked.key, accepted |-> yes])
     \/ Decides(asked, "ignored") /\ UNCHANGED air
  /\ inbox' = Tail(inbox)
  /\ UNCHANGED <<callerVars, verify, fresh, calls, faults>>

(* _handle_notification(): the future registered under the key, if it is not  *)
(* done.  The vendor app's way is a single slot.                              *)
OnlyWaiter(t, ack) == waits[t]
Waiter(t, ack) == pending[ack.key] = t

Resolves(ack) ==
  future' = [t \in Callers |-> IF Waiter(t, ack) /\ future[t] = NoAck THEN ack ELSE future[t]]

Notified ==
  /\ air # <<>>
  /\ \/ Resolves(Head(air)) /\ UNCHANGED faults
     \/ Fault("lose") /\ UNCHANGED future
  /\ air' = Tail(air)
  /\ UNCHANGED <<pc, cmd, call, waits, outcome, pending, verify, inbox, historyVars, calls>>

-----------------------------------------------------------------------------
CallerStep(t) ==
  Connected(t) \/ Arrives(t) \/ WriteReturns(t) \/ WriteFails(t) \/ Answered(t) \/ TimesOut(t) \/ Cancelled(t)

Finished ==
  /\ calls = MaxCalls /\ \A t \in Callers : pc[t] = "idle"
  /\ inbox = <<>> /\ air = <<>>
  /\ UNCHANGED vars

Next ==
  \/ \E t \in Callers : Call(t)
  \/ \E t \in Callers : CallerStep(t)
  \/ SetCommandVerification
  \/ Answers
  \/ Notified
  \/ Finished

Spec == Init /\ [][Next]_vars

(* The event loop runs what is ready, timeouts fire, writes end; the panel    *)
(* works through its inbox.                                                   *)
Fairness ==
  /\ \A t \in Callers : WF_vars(CallerStep(t))
  /\ WF_vars(Answers) /\ WF_vars(Notified)

FairSpec == Spec /\ Fairness

-----------------------------------------------------------------------------
(* Properties *)

(* ble.py:338-341: whoever awaits an ack is the one an ack of its key will    *)
(* reach, and nobody is registered who has left: no wait displaces or removes *)
(* another one.                                                               *)
EachWaitHeard ==
  /\ \A t \in Callers : waits[t] => pc[t] # "idle" /\ pending[Key[cmd[t]]] = t
  /\ \A k \in Keys : pending[k] # None => waits[pending[k]] /\ Key[cmd[pending[k]]] = k

(* ble.py:543: the ack a wait resolves to answers the very command that was   *)
(* sent, unless another answer of that key was due when it began, or another  *)
(* command of that key was sent meanwhile.                                    *)
OwnAnswer ==
  \A t \in Callers : pc[t] # "idle" /\ fresh[t] /\ future[t] # NoAck => future[t].of = call[t]

(* client.py:264-266: a verified command that the panel rejects raises; only  *)
(* a lost, late or mistaken answer can hide the rejection.                    *)
RejectionRaised ==
  [][\A t \in Callers :
        /\ waits[t] /\ ~waits'[t] /\ fresh[t] /\ faults' = 0
        /\ Key[cmd[t]] \notin StatusKeys
        => (outcome'[t] = "rejected" <=> verdict[t] = "rejected")]_vars

(* Every call returns or raises, whatever the panel does not answer.          *)
CallEnds == \A t \in Callers : pc[t] # "idle" ~> pc[t] = "idle"

-----------------------------------------------------------------------------
(* What the repository says, and this code does not do *)

(* ble.py:306: await_device_ack() "Returns None if no ack arrived within      *)
(* timeout": None is the answer to a command that was sent.                   *)
SilenceMeansSent ==
  [][\A t \in Callers : pc[t] # "idle" /\ outcome'[t] = "silent" => verdict[t] # "unsent"]_vars

(* client.py:253-254: _send() "awaits the device's fa03 ack and raises          *)
(* CommandRejectedError if the device nacks it": a verified call never returns *)
(* with an answer although the panel rejected its command.                    *)
RejectionNeverHidden ==
  [][\A t \in Callers :
        waits[t] /\ ~waits'[t] /\ outcome'[t] = "ok" /\ Key[cmd[t]] \notin StatusKeys
        => verdict[t] # "rejected"]_vars
=============================================================================
