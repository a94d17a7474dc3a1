--------------------------- MODULE ChunkedUpload ----------------------------
(***************************************************************************)
(* client.py: uploads that send one outer chunk, wait for its StatusAck and *)
(* go on, _run_upload_pass(), with its three users: _send_chunked_upload()  *)
(* (Timer and Schedule), _send_gif_upload() and GifFeature.activate_stored().*)
(*                                                                         *)
(* An action of an uploader is the code from one await to the next.  The   *)
(* panel and the order in which its notifications arrive are external: they *)
(* are what the comments of client.py and protocol/response.py report of it.*)
(*                                                                         *)
(* An operator defined just before another one with the same parameters,   *)
(* and not used, is a faulty variant of it that the properties detect.     *)
(***************************************************************************)
EXTENDS Naturals, Sequences, FiniteSets

CONSTANTS Uploaders,   \* tasks of the application that upload
          Contents,    \* what they upload
          Length,      \* outer chunks of each content
          Nothing,     \* no content
          Kinds,       \* the kinds of upload the application makes
          Overlap,     \* may two uploads of the same family overlap?
          MaxUploads,  \* bound: uploads started
          MaxFaults,   \* bound: things that go wrong outside the process
          Faults       \* which of them may

(* Timer and Schedule uploads are fatal, GIF uploads are retried once.  Each  *)
(* listens for acks of its own type and subtype; the two fatal ones never     *)
(* meet each other, and one family stands for either.                         *)
AllKinds == {"fatal", "gif", "activate"}
Families == {"config", "gif"}
Family(kind) == IF kind = "fatal" THEN "config" ELSE "gif"

ASSUME ContentsAssumption ==
  /\ Nothing \notin Contents
  /\ Length \in [Contents -> Nat \ {0}]
ASSUME UsesAssumption ==
  /\ Kinds \subseteq AllKinds /\ Overlap \in BOOLEAN
  /\ MaxUploads \in Nat /\ MaxFaults \in Nat

VARIABLES
  pc,        \* where each uploader is: idle, in write_packets(), or in acks.get()
  kind,      \* the upload it makes
  content,   \* of what
  attempt,   \* 1, or 2 for the whole-upload retry
  index,     \* the chunk it is sending or whose ack it awaits, from 1
  acks,      \* its queue, fed by its response listener
  outcome,   \* how its last upload ended
  transfer,  \* panel: per family, the transfer it is receiving
  digesting, \* panel: the chunk it is working on, per family
  stored,    \* panel: the content it has saved, per family
  air,       \* notifications on their way, in order
  uploads,   \* uploads started
  faults     \* faults so far

taskVars  == <<pc, kind, content, attempt, index, acks, outcome>>
panelVars == <<transfer, digesting, stored>>
vars == <<taskVars, panelVars, air, uploads, faults>>

Statuses == {"failed", "next", "saved", "odd"}
Chunk == [of : Contents, n : Nat \ {0}]
NoChunk == [of |-> Nothing, n |-> 0]
Acks == [family : Families, status : Statuses]

TypeOK ==
  /\ pc \in [Uploaders -> {"idle", "writing", "written", "waiting"}]
  /\ kind \in [Uploaders -> AllKinds]
  /\ content \in [Uploaders -> Contents \cup {Nothing}]
  /\ \A u \in Uploaders : pc[u] # "idle" => content[u] \in Contents
  /\ attempt \in [Uploaders -> 1..2]
  /\ index \in [Uploaders -> Nat \ {0}]
  /\ acks \in [Uploaders -> Seq(Statuses)]
  /\ outcome \in [Uploaders -> {"none", "ok", "failed", "lost"}]
  /\ transfer \in [Families -> [of : Contents \cup {Nothing}, got : Nat, doomed : BOOLEAN]]
  /\ digesting \in [Families -> Chunk \cup {NoChunk}]
  /\ stored \in [Families -> Contents \cup {Nothing}]
  /\ air \in Seq(Acks)
  /\ uploads \in 0..MaxUploads /\ faults \in 0..MaxFaults

Init ==
  /\ pc = [u \in Uploaders |-> "idle"]
  /\ kind \in [Uploaders -> Kinds]
  /\ content = [u \in Uploaders |-> Nothing]
  /\ attempt = [u \in Uploaders |-> 1]
  /\ index = [u \in Uploaders |-> 1]
  /\ acks = [u \in Uploaders |-> <<>>]
  /\ outcome = [u \in Uploaders |-> "none"]
  /\ transfer = [f \in Families |-> [of |-> Nothing, got |-> 0, doomed |-> FALSE]]
  /\ digesting = [f \in Families |-> NoChunk]
  /\ stored = [f \in Families |-> Nothing]
  /\ air = <<>>
  /\ uploads = 0 /\ faults = 0

Fault(what) == what \in Faults /\ faults < MaxFaults /\ faults' = faults + 1

-----------------------------------------------------------------------------
(* One pass of the handshake: _run_upload_pass() *)

ListensTo(u, family) == pc[u] # "idle" /\ Family(kind[u]) = family
ListensToAll(u, family) == pc[u] # "idle"

(* How many outer chunks the pass sends. *)
Limit(u) == IF kind[u] = "activate" THEN 1 ELSE Length[content[u]]

(* _drain_stale_acks(), then write_packets() of chunk n. *)
SendWithoutDrain(u, n) ==
  /\ index' = [index EXCEPT ![u] = n]
  /\ pc' = [pc EXCEPT ![u] = "writing"]
  /\ acks' = [acks EXCEPT ![u] = IF acks[u] = <<>> THEN <<>> ELSE Tail(acks[u])]
Send(u, n) ==
  /\ index' = [index EXCEPT ![u] = n]
  /\ pc' = [pc EXCEPT ![u] = "writing"]
  /\ acks' = [acks EXCEPT ![u] = <<>>]

(* The listener is unsubscribed and its queue goes with it. *)
Finish(u, how) ==
  /\ outcome' = [outcome EXCEPT ![u] = how]
  /\ pc' = [pc EXCEPT ![u] = "idle"]
  /\ acks' = [acks EXCEPT ![u] = <<>>]
  /\ UNCHANGED <<attempt, index>>

(* The pass ended without SAVED: fatal, or the one retry of a GIF upload,     *)
(* which starts again from chunk 1.                                           *)
NeverRetried(u) == Finish(u, "failed")
RetriedUncounted(u) ==
  \/ kind[u] = "gif" /\ attempt' = [attempt EXCEPT ![u] = @ + 1] /\ Send(u, 1) /\ UNCHANGED outcome
  \/ kind[u] # "gif" /\ Finish(u, "failed")
ResumedAtChunk(u) ==
  \/ kind[u] = "gif" /\ Send(u, index[u]) /\ UNCHANGED <<attempt, outcome>>
  \/ kind[u] # "gif" /\ Finish(u, "failed")
Retries(u) == kind[u] = "gif" /\ attempt[u] = 1
PassFailed(u) ==
  \/ /\ Retries(u)
     /\ attempt' = [attempt EXCEPT ![u] = 2]
     /\ Send(u, 1)
     /\ UNCHANGED outcome
  \/ ~Retries(u) /\ Finish(u, "failed")

Upload(u) ==
  /\ pc[u] = "idle" /\ uploads < MaxUploads
  /\ uploads' = uploads + 1
  /\ \E k \in Kinds, c \in Contents :
        /\ Overlap \/ \A v \in Uploaders : ~ListensTo(v, Family(k))
        /\ kind' = [kind EXCEPT ![u] = k]
        /\ content' = [content EXCEPT ![u] = c]
  /\ attempt' = [attempt EXCEPT ![u] = 1]
  /\ outcome' = [outcome EXCEPT ![u] = "none"]
  /\ Send(u, 1)
  /\ UNCHANGED <<panelVars, air, faults>>

WriteReturns(u) ==
  /\ pc[u] = "written"
  /\ pc' = [pc EXCEPT ![u] = "waiting"]
  /\ UNCHANGED <<kind, content, attempt, index, acks, outcome, panelVars, air, uploads, faults>>

(* ConnectionLostError, whether or not the chunk got through, goes straight   *)
(* to the caller of the upload.  The link is gone, and with it every          *)
(* notification of that connection and whatever the panel was working on.     *)
WriteRaises(u) ==
  /\ pc[u] \in {"writing", "written"}
  /\ Fault("write")
  /\ Finish(u, "lost")
  /\ digesting' = [f \in Families |-> NoChunk]
  /\ air' = <<>>
  /\ UNCHANGED <<kind, content, transfer, stored, uploads>>

DoneWithLast(u, status) ==
  \/ (status = "saved" \/ (status = "next" /\ index[u] = Limit(u))) /\ Finish(u, "ok")
  \/ status = "next" /\ index[u] < Limit(u) /\ Send(u, index[u] + 1) /\ UNCHANGED <<attempt, outcome>>
  \/ status \in {"failed", "odd"} /\ PassFailed(u)
Interpret(u, status) ==
  \/ status = "saved" /\ Finish(u, "ok")
  \/ /\ status = "next" /\ index[u] < Limit(u)
     /\ Send(u, index[u] + 1)
     /\ UNCHANGED <<attempt, outcome>>
  \/ /\ status \in {"failed", "odd"} \/ (status = "next" /\ index[u] = Limit(u))
     /\ PassFailed(u)

GotAck(u) ==
  /\ pc[u] = "waiting" /\ acks[u] # <<>>
  /\ Interpret(u, Head(acks[u]))
  /\ UNCHANGED <<kind, content, panelVars, air, uploads, faults>>

(* An ack that comes at all comes within _CHUNK_ACK_TIMEOUT_SECONDS.          *)
TimesOut(u) ==
  /\ pc[u] = "waiting" /\ acks[u] = <<>>
  /\ digesting[Family(kind[u])] = NoChunk
  /\ \A i \in 1..Len(air) : air[i].family # Family(kind[u])
  /\ PassFailed(u)
  /\ UNCHANGED <<kind, content, panelVars, air, uploads, faults>>

-----------------------------------------------------------------------------
(* The panel *)

(* A chunk that lands while the previous one is still being worked on is      *)
(* silently lost, and with it the transfer.                                   *)
ChunkArrives(u) ==
  LET f == Family(kind[u]) IN
  /\ pc[u] = "writing"
  /\ pc' = [pc EXCEPT ![u] = "written"]
  /\ \/ /\ digesting[f] = NoChunk
        /\ digesting' = [digesting EXCEPT ![f] = [of |-> content[u], n |-> index[u]]]
        /\ UNCHANGED transfer
     \/ /\ digesting[f] # NoChunk
        /\ transfer' = [transfer EXCEPT ![f].doomed = TRUE]
        /\ UNCHANGED digesting
  /\ UNCHANGED <<kind, content, attempt, index, acks, outcome, stored, air, uploads, faults>>

(* The first chunk of the stored GIF is recognized by its CRC; any other      *)
(* first chunk starts a transfer.  A doomed one is acked NEXT to its end.     *)
Digested(f) ==
  LET chunk == digesting[f]
      fits == chunk.n = 1 \/ (chunk.of = transfer[f].of /\ chunk.n = transfer[f].got + 1)
      doomed == chunk.n # 1 /\ transfer[f].doomed
      known == f = "gif" /\ chunk.n = 1 /\ chunk.of = stored[f]
      whole == fits /\ ~doomed /\ chunk.n = Length[chunk.of]
      Reply(status, gone, keep) ==
        /\ air' = Append(air, [family |-> f, status |-> status])
        /\ transfer' = [transfer EXCEPT ![f] = [of |-> chunk.of, got |-> chunk.n, doomed |-> gone]]
        /\ stored' = [stored EXCEPT ![f] = IF keep THEN chunk.of ELSE @]
  IN
  /\ chunk # NoChunk
  /\ digesting' = [digesting EXCEPT ![f] = NoChunk]
  /\ \/ /\ known \/ whole
        /\ Reply("saved", FALSE, TRUE)
        /\ UNCHANGED faults
     \/ /\ ~known /\ ~whole
        /\ Reply(IF fits \/ doomed THEN "next" ELSE "failed", doomed \/ ~fits, FALSE)
        /\ UNCHANGED faults
     \/ /\ ~known /\ Fault("reject")
        /\ \E status \in {"failed", "odd"} : Reply(status, TRUE, FALSE)
  /\ UNCHANGED <<taskVars, uploads>>

-----------------------------------------------------------------------------
(* Notifications *)

Heard(family, new) ==
  acks' = [u \in Uploaders |-> IF ListensTo(u, family) THEN acks[u] \o new ELSE acks[u]]

(* A notification may get lost, and the same status may come twice: at once,  *)
(* or with the second one behind the first.                                   *)
Notified ==
  /\ air # <<>>
  /\ LET ack == Head(air) IN
     \/ Heard(ack.family, <<ack.status>>) /\ air' = Tail(air) /\ UNCHANGED faults
     \/ Fault("lose") /\ Heard(ack.family, <<>>) /\ air' = Tail(air)
     \/ Fault("repeat") /\ Heard(ack.family, <<ack.status, ack.status>>) /\ air' = Tail(air)
     \/ Fault("straggle") /\ Heard(ack.family, <<ack.status>>) /\ air' = air
  /\ UNCHANGED <<pc, kind, content, attempt, index, outcome, panelVars, uploads>>

-----------------------------------------------------------------------------
UploaderStep(u) ==
  WriteReturns(u) \/ WriteRaises(u) \/ GotAck(u) \/ TimesOut(u) \/ ChunkArrives(u)

Finished ==
  /\ \A u \in Uploaders : pc[u] = "idle"
  /\ air = <<>> /\ \A f \in Families : digesting[f] = NoChunk
  /\ UNCHANGED vars

Next ==
  \/ \E u \in Uploaders : Upload(u)
  \/ \E u \in Uploaders : UploaderStep(u)
  \/ \E f \in Families : Digested(f)
  \/ Notified
  \/ Finished

Spec == Init /\ [][Next]_vars

(* The event loop runs what is ready, the timeout fires, writes end, and the  *)
(* panel works on what it has.                                                *)
Fairness ==
  /\ \A u \in Uploaders : WF_vars(UploaderStep(u))
  /\ \A f \in Families : WF_vars(Digested(f))
  /\ WF_vars(Notified)

FairSpec == Spec /\ Fairness

-----------------------------------------------------------------------------
(* Properties *)

(* An upload that returns as a success has the panel holding just what it     *)
(* uploaded, or was asked to activate, at that moment.                        *)
SuccessMeansStored ==
  [][\A u \in Uploaders :
        outcome[u] # "ok" /\ outcome'[u] = "ok" => stored[Family(kind[u])] = content[u]]_vars

(* The handshake paces the upload: no chunk is sent while the panel works on  *)
(* the previous one, or owes the ack of it.                                   *)
Paced ==
  \A u \in Uploaders : pc[u] = "writing" =>
    /\ digesting[Family(kind[u])] = NoChunk
    /\ \A i \in 1..Len(air) : air[i].family # Family(kind[u])

(* One lost, odd or repeated ack, or one rejected chunk, does not fail a GIF  *)
(* upload: the whole-upload retry gets it through.                            *)
OneFaultSurvived ==
  \A u \in Uploaders : kind[u] = "gif" /\ outcome[u] = "failed" => faults > 1

(* Every upload ends, whatever is lost on the way. *)
UploadEnds == \A u \in Uploaders : pc[u] # "idle" ~> pc[u] = "idle"

-----------------------------------------------------------------------------
(* What the repository says, and this code does not do *)

(* client.py:128-130: a duplicate StatusAck "never causes a double-send or an *)
(* off-by-one": the next chunk is sent only once the panel is done with this. *)
NoOffByOne ==
  \A u \in Uploaders : pc[u] = "writing" => digesting[Family(kind[u])] = NoChunk
=============================================================================
