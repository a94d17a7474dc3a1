--------------------------- MODULE ProbeAnalysis ---------------------------
(***************************************************************************)
(* How each block of a script may end, whatever fails and however often.    *)
(*                                                                         *)
(* ProbeRig runs a script with at most MaxFaults failed commands.  Here one  *)
(* goal of a script, the promise it makes about one setting, is followed     *)
(* through each of its blocks alone.  A state is whether the setting is left *)
(* disturbed without an excuse, and what the host has noted; an analysis    *)
(* ("ends") says with which exception, if any, and in which states a block  *)
(* may end.  The instance computes one for every block, and it is assumed    *)
(* to agree, item by item, with what the actions of ProbeRig do;            *)
(* ProbeRig_proofs shows that scripts whose analysis keeps their promises   *)
(* keep them in every run.                                                  *)
(***************************************************************************)
EXTENDS ProbeRig

CONSTANTS
  Blocks,  \* by script: its body, the bodies within it, and the rest of each of them
  Ends     \* by script, goal, whether in a cleanup, block and state: where it may arrive

Goals(sc) == {[of |-> s, promise |-> sc.keeps[s]] : s \in DOMAIN sc.keeps}

Simple == {"use", "set", "reset", "note", "forget", "raise"}
Compound == {"try", "finally", "choose", "many", "if_noted"}
Items(blocks) == UNION {{block[i] : i \in DOMAIN block} : block \in blocks}
ItemsOf(blocks, kinds) == {item \in Items(blocks) : item.do \in kinds}

Kinds(blocks) == Errors \cup {"interrupt"} \cup UNION {item.of : item \in ItemsOf(blocks, {"raise", "try"})}
Notes(blocks) == UNION {item.of : item \in ItemsOf(blocks, {"note"})}
States(blocks) == [left : BOOLEAN, noted : SUBSET Notes(blocks)]

(* Behind a block control arrives with an exception, or at its "end".          *)
Arrivals(blocks) == (Kinds(blocks) \cup {"end"}) \X States(blocks)

-----------------------------------------------------------------------------
(* One item *)

(* The failures that are no excuse.                                           *)
Unexcused(promise, cleaning) ==
  CASE promise = "always" -> IF cleaning THEN Errors ELSE Errors \cup {"interrupt"}
    [] promise = "cleanup" -> IF cleaning THEN {} ELSE Errors \cup {"interrupt"}
    [] promise = "errors" -> Errors
    [] OTHER -> {}

(* The promises that do not hold the script to a setting whose own reset failed. *)
ExcusesLost(promise) == promise \in {"always", "errors"}

LeftIfSent(goal, item, left) == IF goal.of \in item.of THEN item.do = "set" ELSE left
LeftIfLost(goal, item, left) ==
  left /\ ~(item.do = "reset" /\ goal.of \in item.of /\ ExcusesLost(goal.promise))

Commanded(goal, cleaning, item, a) ==
  {<<"end", [a EXCEPT !.left = LeftIfSent(goal, item, a.left)]>>}
  \cup {<<kind, [a EXCEPT !.left = left]>> :
          kind \in Unexcused(goal.promise, cleaning),
          left \in {LeftIfSent(goal, item, a.left), LeftIfLost(goal, item, a.left)}}

(* Behind the mark of a block that is arrived at.                             *)
PastMark(ends, cleaning, mark, e, a) ==
  CASE mark.do = "except" /\ e \in mark.of -> ends[cleaning][mark.after][a]
    [] mark.do = "cleanup" -> {<<IF x[1] = "end" THEN e ELSE x[1], x[2]>> : x \in ends[TRUE][mark.after][a]}
    [] mark.do = "end_cleanup" /\ e = "end" /\ mark.of # {} -> {<<CHOOSE kind \in mark.of : TRUE, a>>}
    [] OTHER -> {<<e, a>>}

BodyEnds(ends, cleaning, item, a) == UNION {ends[cleaning][body][a] : body \in item.body}

ThroughGuard(ends, cleaning, item, a) ==
  UNION {PastMark(ends, cleaning, Head(Closing(item)), x[1], x[2]) :
           x \in BodyEnds(ends, cleaning /\ item.do = "try", item, a)}

Through(ends, goal, cleaning, item, e, a) ==
  IF e # "end" \/ item.do \notin Simple \cup Compound THEN PastMark(ends, cleaning, item, e, a)
  ELSE CASE item.do \in Awaited -> Commanded(goal, cleaning, item, a)
         [] item.do = "note" -> {<<"end", [a EXCEPT !.noted = @ \cup item.of]>>}
         [] item.do = "forget" -> {<<"end", [a EXCEPT !.noted = @ \ item.of]>>}
         [] item.do = "raise" -> {<<kind, a>> : kind \in item.of}
         [] item.do \in {"try", "finally"} -> ThroughGuard(ends, cleaning, item, a)
         [] item.do = "choose" -> BodyEnds(ends, cleaning, item, a)
         [] item.do = "many" -> ends[cleaning][<<item>>][a]
         [] OTHER -> IF item.of \subseteq a.noted THEN BodyEnds(ends, cleaning, item, a) ELSE {<<"end", a>>}

-----------------------------------------------------------------------------
(* The blocks of a script, and their analysis *)

Closed(blocks) ==
  LET items == Items(blocks)
  IN  /\ <<>> \in blocks
      /\ \A block \in blocks : block \in Seq(items) /\ (block # <<>> => Tail(block) \in blocks)
      /\ \A item \in items :
           /\ item.do \in Simple \cup Compound
           /\ item.do = "use" => item.of = {}
           /\ item.body \subseteq blocks /\ item.after \in blocks
           /\ item.do = "many" => <<item>> \in blocks
      /\ "end" \notin Kinds(blocks)

(* A round that ends well is followed by the others, and an item by the rest.  *)
Follows(ends, cleaning, block, a, x, rest) ==
  IF x[1] = "end" THEN ends[cleaning][rest][x[2]] \subseteq ends[cleaning][block][a]
                  ELSE x \in ends[cleaning][block][a]

Consistent(blocks, ends, goal) ==
  LET states == States(blocks)
      arrivals == Arrivals(blocks)
      loops == ItemsOf(blocks, {"many"})
  IN  \A cleaning \in BOOLEAN, a \in states :
        /\ \A block \in blocks :
             /\ ends[cleaning][block][a] \subseteq arrivals
             /\ block = <<>> => <<"end", a>> \in ends[cleaning][block][a]
             /\ block # <<>> => \A x \in Through(ends, goal, cleaning, Head(block), "end", a) :
                                  Follows(ends, cleaning, block, a, x, Tail(block))
        /\ \A loop \in loops :
             /\ <<"end", a>> \in ends[cleaning][<<loop>>][a]
             /\ \A x \in BodyEnds(ends, cleaning, loop, a) : Follows(ends, cleaning, <<loop>>, a, x, <<loop>>)

ASSUME BlocksAssumption == \A n \in DOMAIN Scripts : Closed(Blocks[n]) /\ Scripts[n].body \in Blocks[n]
ASSUME EndsAssumption ==
  \A n \in DOMAIN Scripts : \A goal \in Goals(Scripts[n]) : Consistent(Blocks[n], Ends[n][goal], goal)

-----------------------------------------------------------------------------
(* A script begins with nothing disturbed and nothing noted.                  *)
Fresh == [left |-> FALSE, noted |-> {}]
Kept(n, goal) == \A x \in Ends[n][goal][FALSE][Scripts[n].body][Fresh] : ~x[2].left

(* What the analysis of a script has to say of it.                            *)
KeepsPromises(n) ==
  /\ \A goal \in Goals(Scripts[n]) : Kept(n, goal)
  /\ \A item \in ItemsOf(Blocks[n], Awaited) : item.of \subseteq Settings

(* However many of its commands fail, and wherever the Ctrl-C comes, no script *)
(* of probes/ and examples/ ends with a setting disturbed that it promises to  *)
(* have put back, and none touches a setting the rig does not know            *)
(* (probe_p17b_eco_isolation.py:527, probe_p11_persistence.py:1130).          *)
AnalysisKeepsPromises == KeepsPromises(script)
=============================================================================
