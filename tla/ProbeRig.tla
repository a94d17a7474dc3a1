------------------------------ MODULE ProbeRig ------------------------------
(***************************************************************************)
(* Runs the scripts of probes/ and examples/ against a panel that may fail   *)
(* any command, before or after it took effect, and an operator who may      *)
(* press Ctrl-C, which asyncio.run() turns into one CancelledError at the    *)
(* await the script is in.                                                  *)
(*                                                                         *)
(* An operator defined just before another one with the same parameters,   *)
(* and not used, is a faulty variant of it that the properties detect.     *)
(***************************************************************************)
EXTENDS ProbeOps, Integers

CONSTANTS Scripts,   \* the scripts, by name
          Settings,  \* the panel's settings
          MaxFaults  \* bound: failed commands, and at most one Ctrl-C among them

Promises == {"always", "cleanup", "errors", "clean"}

ASSUME ScriptsAssumption ==
  \A n \in DOMAIN Scripts : /\ DOMAIN Scripts[n].keeps \subseteq Settings
                            /\ \A s \in DOMAIN Scripts[n].keeps : Scripts[n].keeps[s] \in Promises
ASSUME FaultsAssumption == MaxFaults \in Nat

VARIABLES
  script,       \* the script that runs
  todo,         \* what is left of it, and of the blocks around where it is
  disturbed,    \* the panel: settings that are not neutral
  noted,        \* the host: what the script remembers
  faults,       \* history: commands failed, and interrupts
  interrupted,  \* history: the operator pressed Ctrl-C
  hurt,         \* history: something of a cleanup failed or was interrupted
  cut,          \* history: a cleanup was interrupted
  lost          \* history: settings whose last reset failed

history == <<faults, interrupted, hurt, cut, lost>>
vars == <<script, todo, disturbed, noted, history>>

TypeOK ==
  /\ script \in DOMAIN Scripts
  /\ disturbed \subseteq Settings
  /\ lost \subseteq Settings
  /\ faults \in 0..MaxFaults
  /\ \A b \in {interrupted, hurt, cut} : b \in BOOLEAN

Init ==
  /\ script \in DOMAIN Scripts
  /\ todo = Scripts[script].body
  /\ disturbed = {} /\ noted = {}
  /\ faults = 0 /\ interrupted = FALSE /\ hurt = FALSE /\ cut = FALSE /\ lost = {}

Awaited == {"use", "set", "reset"}
At(kinds) == todo # <<>> /\ Head(todo).do \in kinds
Rest == Tail(todo)

-----------------------------------------------------------------------------
(* Blocks *)

Mark(do, of, after) == Item(do, of, {}, after)

(* What is put behind the body of a block, to be found when it ends.          *)
Closing(item) ==
  CASE item.do = "try" -> Mark("except", item.of, item.after)
    [] item.do = "finally" -> Mark("cleanup", {}, item.after)
    [] item.do = "many" -> <<item>>
    [] OTHER -> <<>>

Enter ==
  /\ At({"try", "finally", "choose", "many"})
  /\ \/ \E body \in Head(todo).body : todo' = body \o Closing(Head(todo)) \o Rest
     \/ At({"many"}) /\ todo' = Rest
  /\ UNCHANGED <<script, disturbed, noted, history>>

EnterIfNoted ==
  /\ At({"if_noted"})
  /\ \E body \in Head(todo).body :
       todo' = (IF Head(todo).of \subseteq noted THEN body ELSE <<>>) \o Rest
  /\ UNCHANGED <<script, disturbed, noted, history>>

(* The cleanup of a block that ended well, or because of an exception.        *)
Cleanup(after, pending) == after \o Mark("end_cleanup", pending, <<>>)

EndBlock ==
  /\ At({"except", "cleanup"})
  /\ todo' = (IF At({"cleanup"}) THEN Cleanup(Head(todo).after, {}) ELSE <<>>) \o Rest
  /\ UNCHANGED <<script, disturbed, noted, history>>

(* Where an exception of this kind goes: the handler of the innermost block    *)
(* that takes it, or the cleanup of one on the way there, or out.              *)
Takes(mark, kind) == mark.do = "cleanup" \/ (mark.do = "except" /\ kind \in mark.of)
Unwound(kind, stack) ==
  LET takers == {i \in DOMAIN stack : Takes(stack[i], kind)}
      i == CHOOSE i \in takers : \A j \in takers : i <= j
      behind == SubSeq(stack, i + 1, Len(stack))
  IN  IF takers = {} THEN <<>>
      ELSE (IF stack[i].do = "cleanup" THEN Cleanup(stack[i].after, {kind}) ELSE stack[i].after) \o behind

RaiseAction ==
  /\ At({"raise"})
  /\ \E kind \in Head(todo).of : todo' = Unwound(kind, Rest)
  /\ UNCHANGED <<script, disturbed, noted, history>>

(* The exception goes on when the cleanup is done.                            *)
GoOn == IF Head(todo).of = {} THEN Rest ELSE Unwound(CHOOSE kind \in Head(todo).of : TRUE, Rest)
EndCleanup ==
  /\ At({"end_cleanup"})
  /\ todo' = GoOn
  /\ UNCHANGED <<script, disturbed, noted, history>>

(* The script is in a cleanup when the innermost mark is the end of one.      *)
Marks == {i \in DOMAIN todo : todo[i].do \in {"cleanup", "end_cleanup"}}
Cleaning == \E i \in Marks : todo[i].do = "end_cleanup" /\ \A j \in Marks : i <= j

-----------------------------------------------------------------------------
(* Commands *)

Affected(item) ==
  CASE item.do = "set" -> disturbed \cup item.of
    [] item.do = "reset" -> disturbed \ item.of
    [] OTHER -> disturbed

Works ==
  /\ At(Awaited)
  /\ disturbed' = Affected(Head(todo))
  /\ lost' = lost \ Head(todo).of
  /\ todo' = Rest
  /\ UNCHANGED <<script, noted, faults, interrupted, hurt, cut>>

(* The command raises: a lost link, a timeout, an answer that says no.        *)
Fails(kind, reached) ==
  /\ At(Awaited) /\ faults < MaxFaults
  /\ kind = "interrupt" => ~interrupted
  /\ kind = "rejected" => ~reached
  /\ reached => Head(todo).of # {}
  /\ disturbed' = IF reached THEN Affected(Head(todo)) ELSE disturbed
  /\ lost' = IF At({"reset"}) /\ ~reached THEN lost \cup Head(todo).of ELSE lost
  /\ faults' = faults + 1
  /\ interrupted' = (interrupted \/ kind = "interrupt")
  /\ hurt' = (hurt \/ Cleaning)
  /\ cut' = (cut \/ (Cleaning /\ kind = "interrupt"))
  /\ todo' = Unwound(kind, Rest)
  /\ UNCHANGED <<script, noted>>

Remembers ==
  /\ At({"note", "forget"})
  /\ noted' = IF At({"note"}) THEN noted \cup Head(todo).of ELSE noted \ Head(todo).of
  /\ todo' = Rest
  /\ UNCHANGED <<script, disturbed, history>>

Next ==
  \/ Enter \/ EnterIfNoted \/ EndBlock \/ EndCleanup \/ RaiseAction
  \/ Works \/ Remembers
  \/ \E kind \in Errors \cup {"interrupt"}, reached \in BOOLEAN : Fails(kind, reached)

Spec == Init /\ [][Next]_vars

-----------------------------------------------------------------------------
(* Properties *)

Done == todo = <<>>
Left(promise) == {s \in disturbed \cap DOMAIN Scripts[script].keeps : Scripts[script].keeps[s] = promise}

(* The probes that put their settings back one by one, each in a try of its   *)
(* own, in a finally (probe_p17b_eco_isolation.py:527): a setting is left     *)
(* disturbed only if its own restore failed or a Ctrl-C hit the restoring.    *)
EachRestoredAlone == Done => Left("always") \subseteq lost \/ cut

(* The probes that put them back in one go in a finally: whatever failed      *)
(* before, nothing is left unless the restoring itself failed.                *)
RestoredByCleanup == Done /\ ~hurt => Left("cleanup") = {}

(* The probes that catch what each case raises and restore at the end of the   *)
(* script, with no finally: only a Ctrl-C keeps them from trying.             *)
ErrorsDoNotStopRestoring == Done /\ ~interrupted => Left("errors") \subseteq lost

(* Every other script: it undoes what it did when nothing goes wrong.         *)
CleanRunLeavesNothing == Done /\ faults = 0 => Left("clean") = {}
=============================================================================
