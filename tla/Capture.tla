------------------------------- MODULE Capture -------------------------------
(***************************************************************************)
(* btsnoop.py over Framing: the driver's writes pass the host's HCI log as  *)
(* ACL fragments, and the analyser stitches fragments to ATT writes         *)
(* (L2capReassembler) and writes to protocol frames (ProtocolReassembler).  *)
(*                                                                         *)
(* Each action but the application's is one record of the log.  A log may   *)
(* begin anywhere, and every prefix of it may be all there is.              *)
(*                                                                         *)
(* An operator defined just before another one with the same parameters,   *)
(* and not used, is a faulty variant of it that the properties detect.     *)
(***************************************************************************)
EXTENDS Framing, Commands, GifFrames

CONSTANTS None,           \* no write on its way, no PDU pending, nothing decoded
          AclSize,        \* bytes of one ACL fragment
          MIN_FRAGMENT,   \* ProtocolReassembler._MIN_FRAGMENT_BYTES
          MAX_FRAME,      \* ProtocolReassembler._MAX_FRAME
          Bystanders,     \* commands of another connection with the same ATT handle
          Animations,     \* source files that are made into GIFs
          MaxJobs,        \* bound: commands and frames written, by either connection
          DataWords       \* what the first two bytes of a continuation may read as

(* An ATT write, with how much of it is logged, and a PDU being stitched.      *)
Writes == [length : Nat, sent : Nat, declared : Nat,
           key : {c.key : c \in Flat \cup Chunked},
           is : {c.name : c \in Flat \cup Chunked} \cup {"cont"}]
Pdus == [expected : Nat, have : Nat, of : Writes]

ASSUME AnimationsAssumption == Animations \subseteq Sources
ASSUME CaptureAssumption ==
  /\ AclSize \in Nat /\ AclSize > 7
  /\ MIN_FRAGMENT \in Nat /\ MAX_FRAME \in Nat /\ MaxJobs \in Nat /\ DataWords \subseteq Nat
  /\ \A c \in Flat \cup Bystanders : c.length \in Nat \ {0} /\ c.declared \in Nat
ASSUME NoneAssumption == None \notin Writes \cup Pdus

VARIABLES
  gif,        \* what adapt_gif() has returned and is not yet uploaded
  write,      \* the ATT write being logged: its length, what it is, bytes logged
  logged,     \* every fragment of it is in the log
  pending,    \* L2capReassembler._pending of the connection
  left,       \* ProtocolReassembler._remaining of the ATT handle
  decoded,    \* the last write decoded: what it was, and what it was taken for
  disturbed,  \* history: since the last clean start something cut the stream
  logging,    \* the capture has begun
  jobs        \* commands and frames so far

captureVars == <<gif, write, logged, pending, left, decoded, disturbed, logging, jobs>>
vars == <<framingVars, captureVars>>

TypeOK ==
  /\ FramingTypeOK
  /\ left \in 0..MAX_FRAME
  /\ pending \in Pdus \cup {None} /\ (pending # None => pending.have < pending.expected)
  /\ write \in Writes \cup {None} /\ (write # None => write.sent < write.length)
  /\ jobs \in 0..MaxJobs
  /\ \A b \in {logged, disturbed, logging} : b \in BOOLEAN

Init ==
  /\ FramingInit
  /\ gif = None /\ write = None /\ logged = FALSE /\ pending = None
  /\ left = 0 /\ decoded = None /\ disturbed = FALSE
  /\ logging \in BOOLEAN /\ jobs = 0

-----------------------------------------------------------------------------
(* ProtocolReassembler *)

(* annotate(): the rest of a frame, or a write of its own, which may be the    *)
(* first part of one.                                                         *)
AnyLength(length, declared) == length >= MIN_FRAGMENT /\ length < declared
Fragments(length, declared) == length >= MIN_FRAGMENT /\ length < declared /\ declared <= MAX_FRAME

RestForgotten(length) == 0
Rest(length) == left - Smaller(left, length)

Annotate(w) ==
  IF left > 0
  THEN /\ decoded' = [was |-> w.is, as |-> {"cont"}]
       /\ left' = Rest(w.length)
  ELSE \E declared \in IF w.is = "cont" THEN DataWords ELSE {w.declared} :
         /\ decoded' = [was |-> w.is,
                        as |-> IF w.is = "cont" THEN {"unknown"} ELSE Classify(w.key, w.length, declared)]
         /\ left' = IF Fragments(w.length, declared) THEN declared - w.length ELSE 0

-----------------------------------------------------------------------------
(* L2capReassembler *)

PduLength(length) == 3 + length

(* push(): a first fragment replaces whatever is pending under the handle.    *)
AsStart(w) == [expected |-> PduLength(w.length), have |-> 0, of |-> w]

Push(w, isFirst, bytes) ==
  LET slot == IF isFirst THEN AsStart(w) ELSE pending
      have == slot.have + bytes
  IN  IF slot = None
      THEN UNCHANGED <<pending, left, decoded>>
      ELSE IF have < slot.expected
      THEN pending' = [slot EXCEPT !.have = have] /\ UNCHANGED <<left, decoded>>
      ELSE pending' = None /\ Annotate(slot.of)

-----------------------------------------------------------------------------
(* The records of the log *)

(* A clean start: nothing pending, no rest of a frame expected.               *)
Begins == left = 0 /\ pending = None /\ logging
Issue ==
  /\ write = None /\ jobs < MaxJobs /\ jobs' = jobs + 1
  /\ WritePackets \/ Write
  /\ gif # None <=> job'.command.name = "gif_chunk"
  /\ gif' = None
  /\ disturbed' = ~Begins /\ decoded' = None
  /\ UNCHANGED <<write, logged, pending, left, logging>>

(* upload_file(): the GIF is adapted before anything of it is written.         *)
UploadFile ==
  /\ job = NoJob /\ write = None /\ gif = None /\ jobs < MaxJobs
  /\ \E animation \in Animations : gif' = AdaptGif(animation)
  /\ UNCHANGED <<framingVars, write, logged, pending, left, decoded, disturbed, logging, jobs>>

(* A frame whose first piece is shorter than MIN_FRAGMENT is not stitched.    *)
TooShort == at = 0 /\ PieceEnd < ChunkLength /\ PieceEnd < MIN_FRAGMENT

Emit ==
  /\ write = None
  /\ WritePiece
  /\ write' = [length |-> PieceEnd - at, sent |-> 0, declared |-> Declared, key |-> job.command.key,
               is |-> IF at = 0 THEN job.command.name ELSE "cont"]
  /\ logged' = logging
  /\ disturbed' = (disturbed \/ TooShort)
  /\ UNCHANGED <<gif, pending, left, decoded, logging, jobs>>

Release ==
  /\ write = None
  /\ Written
  /\ logged' = FALSE
  /\ UNCHANGED <<gif, write, pending, left, decoded, disturbed, logging, jobs>>

(* One fragment: the first one carries the L2CAP header and the ATT header.    *)
Fragment ==
  /\ write # None
  /\ LET first == write.sent = 0
         bytes == IF first THEN Smaller(AclSize - 7, write.length)
                           ELSE Smaller(AclSize, write.length - write.sent)
     IN  /\ write' = IF write.sent + bytes = write.length THEN None
                                                         ELSE [write EXCEPT !.sent = write.sent + bytes]
         /\ IF logging
            THEN Push([write EXCEPT !.sent = 0], first, IF first THEN bytes + 3 ELSE bytes)
            ELSE UNCHANGED <<pending, left, decoded>>
  /\ UNCHANGED <<framingVars, gif, logged, disturbed, logging, jobs>>

(* A notification: a PDU of its own in the other direction, under the same    *)
(* connection handle.                                                         *)
Notification ==
  /\ logging
  /\ pending' = None
  /\ disturbed' = (disturbed \/ pending # None)
  /\ UNCHANGED <<framingVars, gif, write, logged, left, decoded, logging, jobs>>

(* A short write of another connection to the same ATT handle: it has a slot  *)
(* of its own, but parse_capture() keeps one stream per ATT handle.           *)
BystanderWrites ==
  /\ logging /\ jobs < MaxJobs /\ jobs' = jobs + 1
  /\ \E c \in Bystanders :
       Annotate([length |-> c.length, declared |-> c.declared, key |-> c.key, is |-> c.name])
  /\ disturbed' = (disturbed \/ left > 0)
  /\ UNCHANGED <<framingVars, gif, write, logged, pending, logging>>

CaptureBegins ==
  /\ ~logging /\ logging' = TRUE
  /\ disturbed' = (job # NoJob)
  /\ UNCHANGED <<framingVars, gif, write, logged, pending, left, decoded, jobs>>

Next ==
  \/ UploadFile \/ Issue \/ Emit \/ Release
  \/ Fragment \/ Notification \/ BystanderWrites \/ CaptureBegins

Spec == Init /\ [][Next]_vars

-----------------------------------------------------------------------------
(* Properties *)

(* btsnoop.py:773-782: a write is taken for what it is, a command by its name, *)
(* the first part of a frame by the frame's name, and every other part as a   *)
(* continuation; unless since the last command or frame that began with       *)
(* nothing left to skip the log was cut, another PDU came between the         *)
(* fragments of one, or another stream's write came between those of a frame. *)
(* timer_close, for which there is no handler, is taken for nothing.          *)
AnnotationRight ==
  decoded # None /\ ~disturbed =>
    (IF decoded.was = TimerClose.name THEN "unknown" ELSE decoded.was) \in decoded.as

(* And between writes the analyser waits for exactly the bytes the panel       *)
(* still waits for.                                                           *)
AnalyserFollows == ~disturbed /\ logging /\ write = None => left = need

(* What is uploaded as a GIF is what the panel can hold (GifFrames).           *)
GifFits == gif # None => Fits(gif)
GifBounded == gif # None => Bounded(gif)

-----------------------------------------------------------------------------
(* What the repository says, and this code does not do *)

(* gif.py:137: a GIF that is ready for upload is within the duration cap.       *)
TotalDurationCapped == gif # None => Capped(gif)
=============================================================================
