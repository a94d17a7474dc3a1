----------------------------- MODULE MCProbeRig -----------------------------
(* Model-checking instance of ProbeRig: every script, its blocks, and an       *)
(* analysis of each of them.                                                  *)
EXTENDS ProbeAnalysis, ProbesSettings, ProbesStreams, ProbesAlarms, ProbesUploads, ProbesDrawing, TLC

(* TLC computes a definition once, but the one a constant stands for at every   *)
(* use: each of those is only a name for another.                              *)
AllScripts == SettingsScripts @@ StreamScripts @@ AlarmScripts @@ UploadScripts @@ DrawingScripts
MCScripts == AllScripts
MCSettings == {"screen", "power", "flip", "bright", "eco", "rtc", "slot0", "slot1", "theme0", "theme1",
               "master", "countdown", "chrono", "link", "scanner", "base"}

-----------------------------------------------------------------------------
(* A function as the table of its values, which TLC computes once.             *)
Table(f) == f @@ <<>>

(* The blocks of a body.                                                      *)
RECURSIVE BlocksIn(_)
BlocksIn(block) ==
  {SubSeq(block, i, Len(block)) : i \in 1..(Len(block) + 1)}
  \cup UNION {(IF item.do = "many" THEN {<<item>>} ELSE {}) \cup BlocksIn(item.after) \cup UNION {BlocksIn(body) : body \in item.body} :
                item \in {block[i] : i \in DOMAIN block}}

BlocksOfScripts ==
  LET scripts == AllScripts IN Table([n \in DOMAIN scripts |-> BlocksIn(scripts[n].body)])
MCBlocks == BlocksOfScripts

(* Where a block arrives that is begun in one of these states: a simple item   *)
(* does what ProbeAnalysis says, the bodies are run first, and a loop is run   *)
(* again until no round ends in a new state.                                  *)
Continued(arrivals) == {x[2] : x \in {y \in arrivals : y[1] = "end"}}
Raised(arrivals) == {x \in arrivals : x[1] # "end"}
Ended(states) == {<<"end", a>> : a \in states}

RECURSIVE Run(_, _, _, _)
Run(goal, cleaning, block, states) ==
  IF block = <<>> \/ states = {} THEN Ended(states)
  ELSE LET item == Head(block)
           entered == {a \in states : item.do = "if_noted" => item.of \subseteq a.noted}
           inside == UNION {Run(goal, cleaning /\ item.do # "finally", body, entered) : body \in item.body}
           caught == {x \in inside : item.do = "try" /\ x[1] \in item.of}
           here ==
             CASE item.do \in Simple -> UNION {Through(<<>>, goal, cleaning, item, "end", a) : a \in states}
               [] item.do = "try" -> (inside \ caught) \cup Run(goal, cleaning, item.after, {x[2] : x \in caught})
               [] item.do = "finally" ->
                    UNION {{<<IF y[1] = "end" THEN x[1] ELSE y[1], y[2]>> :
                              y \in Run(goal, TRUE, item.after, {x[2]})} : x \in inside}
               [] item.do = "many" -> inside \cup Ended(states)
               [] OTHER -> inside \cup Ended(states \ entered)
       IN  IF item.do = "many" /\ ~(Continued(inside) \subseteq states)
           THEN Run(goal, cleaning, block, states \cup Continued(inside))
           ELSE Raised(here) \cup Run(goal, cleaning, Tail(block), Continued(here))

Analysis(blocks, goal) ==
  LET states == States(blocks)
  IN  Table([cleaning \in BOOLEAN |->
               Table([block \in blocks |-> Table([a \in states |-> Run(goal, cleaning, block, {a})])])])

EndsOfBlocks ==
  LET scripts == AllScripts
  IN  Table([n \in DOMAIN scripts |->
               LET blocks == BlocksIn(scripts[n].body)
               IN  Table([goal \in Goals(scripts[n]) |-> Analysis(blocks, goal)])])
MCEnds == EndsOfBlocks
=============================================================================
