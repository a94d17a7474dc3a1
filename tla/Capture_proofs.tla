--------------------------- MODULE Capture_proofs ---------------------------
(***************************************************************************)
(* Capture implements Framing: logging and analysing the writes, and the    *)
(* application that issues them, are steps of Framing or leave its          *)
(* variables alone.  So what Framing_proofs proves of the driver and the    *)
(* panel holds of the composition that TLC checks.                          *)
(*                                                                         *)
(* Then the analyser (btsnoop.py): it keeps in step with the panel, and it  *)
(* names the writes it reads.  And adapted animations fit the panel.        *)
(***************************************************************************)
EXTENDS Capture, Framing_proofs

(* Every step is one write, the begin or the end of a job, or none of these.   *)
LEMMA StepIsFraming == [Next]_vars => [FramingNext]_framingVars
<1> SUFFICES ASSUME [Next]_vars PROVE [FramingNext]_framingVars
  OBVIOUS
<1>1. CASE Issue
  BY <1>1 DEF Issue, FramingNext
<1>2. CASE Emit
  BY <1>2 DEF Emit, FramingNext
<1>3. CASE Release
  BY <1>3 DEF Release, FramingNext
<1>4. CASE UploadFile \/ Fragment \/ Notification \/ BystanderWrites \/ CaptureBegins
  BY <1>4 DEF UploadFile, Fragment, Notification, BystanderWrites, CaptureBegins
<1>5. CASE UNCHANGED vars
  BY <1>5 DEF vars
<1> QED
  BY <1>1, <1>2, <1>3, <1>4, <1>5 DEF Next

(* The writes of a captured session are those of Framing, however they are    *)
(* fragmented and whenever the capture begins.                               *)
THEOREM CaptureImplementsFraming == Spec => FramingSpec
<1>1. Init => FramingInit
  BY DEF Init
<1> QED
  BY <1>1, StepIsFraming, PTL DEF Spec, FramingSpec

(* ble.py:282 in the composition: the panel is where the driver is.           *)
THEOREM CapturedPanelFollows == Spec => []PanelFollows
BY CaptureImplementsFraming, PanelFollowsTheDriver, PTL

(* ble.py:276 in the composition: the last write is the acknowledged one.     *)
THEOREM CapturedAckAtTheEnd == Spec => []AckedAtTheEnd
BY CaptureImplementsFraming, OneAckAtTheEnd, PTL

-----------------------------------------------------------------------------
(* The types of what is logged and stitched *)

(* A write is logged only while its job is being written.                      *)
Typed == TypeOK /\ (write # None => job # NoJob)

(* What a write that begins a frame leaves to be skipped.                      *)
FirstLeft(w) == IF Fragments(w.length, w.declared) THEN w.declared - w.length ELSE 0

LEMMA AnnotateLeaves ==
  ASSUME left \in 0..MAX_FRAME, NEW w, w.length \in Nat, w.declared \in Nat, Annotate(w)
  PROVE  /\ left' \in 0..MAX_FRAME
         /\ left > 0 => left' = Rest(w.length) /\ decoded' = [was |-> w.is, as |-> {"cont"}]
         /\ left = 0 /\ w.is # "cont" =>
              left' = FirstLeft(w) /\ decoded' = [was |-> w.is, as |-> Classify(w.key, w.length, w.declared)]
<1>1. MAX_FRAME \in Nat /\ DataWords \subseteq Nat
  BY CaptureAssumption
<1>2. CASE left > 0
  <2>1. left' = Rest(w.length) /\ decoded' = [was |-> w.is, as |-> {"cont"}]
    BY <1>2 DEF Annotate
  <2> QED
    BY <2>1, <1>1, <1>2 DEF Rest, Smaller
<1>3. CASE ~(left > 0)
  <2>1. PICK declared \in IF w.is = "cont" THEN DataWords ELSE {w.declared} :
          /\ decoded' = [was |-> w.is,
                         as |-> IF w.is = "cont" THEN {"unknown"} ELSE Classify(w.key, w.length, declared)]
          /\ left' = IF Fragments(w.length, declared) THEN declared - w.length ELSE 0
    BY <1>3 DEF Annotate
  <2>2. declared \in Nat /\ (w.is # "cont" => declared = w.declared)
    BY <2>1, <1>1
  <2>3. left' \in 0..MAX_FRAME
    BY <2>1, <2>2, <1>1 DEF Fragments
  <2> QED
    BY <2>1, <2>2, <2>3, <1>3 DEF FirstLeft
<1> QED
  BY <1>2, <1>3

(* One fragment carries some of the bytes that are left of the write.          *)
FragmentBytes ==
  IF write.sent = 0 THEN Smaller(AclSize - 7, write.length) ELSE Smaller(AclSize, write.length - write.sent)

Whole(w) == [w EXCEPT !.sent = 0]
Stitches ==
  Push(Whole(write), write.sent = 0, IF write.sent = 0 THEN FragmentBytes + 3 ELSE FragmentBytes)

LEMMA FragmentFits ==
  ASSUME Typed, Fragment
  PROVE  /\ write \in Writes /\ write.length \in Nat \ {0} /\ write.sent \in Nat /\ write.declared \in Nat
         /\ FragmentBytes \in Nat \ {0} /\ write.sent + FragmentBytes <= write.length
<1>1. write \in Writes /\ write.sent < write.length
  BY DEF Typed, TypeOK, Fragment
<1>2. write.length \in Nat \ {0} /\ write.sent \in Nat /\ write.declared \in Nat
  BY <1>1 DEF Writes
<1> QED
  BY <1>1, <1>2, CaptureAssumption DEF FragmentBytes, Smaller

LEMMA FragmentGoesOn ==
  ASSUME Fragment
  PROVE  /\ write' = IF write.sent + FragmentBytes = write.length
                     THEN None ELSE [write EXCEPT !.sent = write.sent + FragmentBytes]
         /\ UNCHANGED <<framingVars, gif, logged, disturbed, logging, jobs>>
BY DEF Fragment, FragmentBytes

LEMMA FragmentIsPushed ==
  ASSUME Fragment, logging
  PROVE  Stitches
<1>1. CASE write.sent = 0
  BY <1>1 DEF Fragment, FragmentBytes, Stitches, Whole
<1>2. CASE write.sent # 0
  BY <1>2 DEF Fragment, FragmentBytes, Stitches, Whole
<1> QED
  BY <1>1, <1>2

LEMMA FragmentUnseen ==
  ASSUME Fragment, ~logging
  PROVE  UNCHANGED <<pending, left, decoded>>
BY DEF Fragment

LEMMA TypedInit == Init => Typed
<1> SUFFICES ASSUME Init PROVE Typed
  OBVIOUS
<1>1. FramingTypeOK
  BY InvInit DEF Init, IInv
<1>2. left \in 0..MAX_FRAME /\ jobs \in 0..MaxJobs
  BY CaptureAssumption DEF Init
<1>3. write = None /\ pending = None /\ (\A b \in {logged, disturbed, logging} : b \in BOOLEAN)
  BY DEF Init
<1> QED
  BY <1>1, <1>2, <1>3 DEF Typed, TypeOK

LEMMA FragmentTyped ==
  ASSUME Typed, Fragment
  PROVE  Typed'
<1> DEFINE whole == Whole(write)
           bytes == IF write.sent = 0 THEN FragmentBytes + 3 ELSE FragmentBytes
           slot == IF write.sent = 0 THEN AsStart(whole) ELSE pending
<1>1. /\ write \in Writes /\ write.length \in Nat \ {0} /\ write.sent \in Nat
      /\ FragmentBytes \in Nat \ {0} /\ write.sent + FragmentBytes <= write.length
  BY FragmentFits
<1>2. whole \in Writes
  BY <1>1 DEF Writes, Whole
<1>3. slot \in Pdus \cup {None}
  BY <1>1, <1>2 DEF Typed, TypeOK, AsStart, PduLength, Pdus, Writes
<1>4. FramingTypeOK' /\ jobs' \in 0..MaxJobs /\ logged' \in BOOLEAN /\ disturbed' \in BOOLEAN /\ logging' \in BOOLEAN
  BY FragmentGoesOn DEF Typed, TypeOK, FramingTypeOK, framingVars, driverVars, panelVars
<1>5. write' \in Writes \cup {None} /\ (write' # None => write'.sent < write'.length /\ job' # NoJob)
  <2>1. CASE write.sent + FragmentBytes = write.length
    BY <2>1, FragmentGoesOn
  <2>2. CASE write.sent + FragmentBytes # write.length
    <3>1. write' = [write EXCEPT !.sent = write.sent + FragmentBytes]
      BY <2>2, FragmentGoesOn
    <3>2. write' \in Writes /\ write'.sent < write'.length
      BY <3>1, <2>2, <1>1 DEF Writes
    <3>3. job' = job /\ job # NoJob
      BY FragmentGoesOn DEF framingVars, driverVars, Typed, Fragment
    <3> QED
      BY <3>2, <3>3
  <2> QED
    BY <2>1, <2>2
<1>6. CASE ~logging
  BY <1>4, <1>5, <1>6, FragmentUnseen DEF Typed, TypeOK
<1>7. CASE logging
  <2>1. Stitches
    BY <1>7, FragmentIsPushed
  <2>2. CASE slot = None
    BY <2>1, <2>2, <1>4, <1>5 DEF Stitches, Push, Typed, TypeOK
  <2>3. CASE slot # None /\ slot.have + bytes < slot.expected
    <3>1. pending' = [slot EXCEPT !.have = slot.have + bytes] /\ left' = left
      BY <2>1, <2>3 DEF Stitches, Push
    <3>2. slot \in Pdus /\ bytes \in Nat
      BY <2>3, <1>1, <1>3
    <3>3. pending' \in Pdus /\ pending'.have < pending'.expected
      BY <3>1, <3>2, <2>3 DEF Pdus
    <3> QED
      BY <3>1, <3>3, <1>4, <1>5 DEF Typed, TypeOK
  <2>4. CASE slot # None /\ ~(slot.have + bytes < slot.expected)
    <3>1. pending' = None /\ Annotate(slot.of)
      BY <2>1, <2>4 DEF Stitches, Push
    <3>2. slot.of \in Writes
      BY <2>4, <1>3 DEF Pdus
    <3>3. left' \in 0..MAX_FRAME
      BY <3>1, <3>2, AnnotateLeaves DEF Writes, Typed, TypeOK
    <3> QED
      BY <3>1, <3>3, <1>4, <1>5 DEF Typed, TypeOK
  <2> QED
    BY <2>2, <2>3, <2>4
<1> QED
  BY <1>6, <1>7

(* What is written next: some bytes of the chunk, which declare its length.    *)
LEMMA EmitWrites ==
  ASSUME IInv, Emit
  PROVE  /\ job # NoJob /\ FramingTypeOK /\ FramingTypeOK' /\ job' = job
         /\ at \in Nat /\ PieceEnd \in Nat /\ at < PieceEnd /\ PieceEnd <= ChunkLength
         /\ ChunkLength \in Nat /\ Declared \in Nat
         /\ write' \in Writes /\ write'.sent = 0 /\ write'.length = PieceEnd - at
<1>1. WritePiece /\ job # NoJob /\ from < job.total /\ FramingTypeOK /\ Shape /\ Position /\ job' = job
  BY DEF Emit, WritePiece, IInv
<1>2. /\ job \in Jobs /\ ChunkLength \in Nat /\ PacketEnd \in Nat /\ PacketEnd <= ChunkLength
      /\ PieceEnd \in Nat /\ at < PieceEnd /\ PieceEnd <= PacketEnd
  BY <1>1, ChunkSizes, PieceGoesOn
<1>3. at \in Nat /\ FramingTypeOK'
  BY <1>1, WritePieceKeeps DEF FramingTypeOK, IInv
<1>4. job.command \in Flat \cup Chunked
  BY <1>2 DEF Jobs
<1>5. Declared \in Nat
  BY <1>1, <1>2, CaptureAssumption DEF Declared, Shape
<1>6. write' = [length |-> PieceEnd - at, sent |-> 0, declared |-> Declared, key |-> job.command.key,
                is |-> IF at = 0 THEN job.command.name ELSE "cont"]
  BY DEF Emit
<1>7. write' \in Writes
  BY <1>2, <1>3, <1>4, <1>5, <1>6 DEF Writes
<1> QED
  BY <1>1, <1>2, <1>3, <1>5, <1>6, <1>7

LEMMA BystanderAnnotates ==
  ASSUME Typed, BystanderWrites
  PROVE  \E c \in Bystanders :
           LET w == [length |-> c.length, declared |-> c.declared, key |-> c.key, is |-> c.name]
           IN  w.length \in Nat /\ w.declared \in Nat /\ left \in 0..MAX_FRAME /\ Annotate(w)
BY CaptureAssumption DEF BystanderWrites, Typed, TypeOK

LEMMA TypedStep == IInv /\ Typed /\ [Next]_vars => Typed'
<1> SUFFICES ASSUME IInv, Typed, [Next]_vars PROVE Typed'
  OBVIOUS
<1>1. IInv'
  BY StepIsFraming, InvStep
<1>2. FramingTypeOK'
  BY <1>1 DEF IInv
<1>3. CASE Issue
  <2>1. jobs \in Nat /\ MaxJobs \in Nat /\ jobs < MaxJobs /\ jobs' = jobs + 1
    BY <1>3, CaptureAssumption DEF Issue, Typed, TypeOK
  <2>2. jobs' \in 0..MaxJobs
    BY <2>1
  <2>3. write' = None /\ pending' = pending /\ left' = left /\ logged' = logged /\ logging' = logging
    BY <1>3 DEF Issue
  <2>4. disturbed' \in BOOLEAN
    BY <1>3 DEF Issue
  <2> QED
    BY <2>2, <2>3, <2>4, <1>2 DEF Typed, TypeOK
<1>4. CASE UploadFile
  BY <1>4, <1>2 DEF UploadFile, Typed, TypeOK, framingVars, driverVars
<1>5. CASE Emit
  <2>1. write' \in Writes /\ write'.sent < write'.length /\ job' # NoJob
    BY <1>5, EmitWrites
  <2>2. /\ left' = left /\ pending' = pending /\ jobs' = jobs /\ logging' = logging
        /\ logged' \in BOOLEAN /\ disturbed' \in BOOLEAN
    BY <1>5 DEF Emit, Typed, TypeOK
  <2> QED
    BY <2>1, <2>2, <1>2 DEF Typed, TypeOK
<1>6. CASE Release
  BY <1>6, <1>2 DEF Release, Typed, TypeOK
<1>7. CASE Fragment
  BY <1>7, FragmentTyped
<1>8. CASE Notification
  BY <1>8, <1>2 DEF Notification, Typed, TypeOK, framingVars, driverVars
<1>9. CASE BystanderWrites
  <2>1. left' \in 0..MAX_FRAME
    BY <1>9, BystanderAnnotates, AnnotateLeaves
  <2>2. jobs \in Nat /\ MaxJobs \in Nat /\ jobs < MaxJobs /\ jobs' = jobs + 1
    BY <1>9, CaptureAssumption DEF BystanderWrites, Typed, TypeOK
  <2>3. jobs' \in 0..MaxJobs
    BY <2>2
  <2>4. /\ write' = write /\ pending' = pending /\ logged' = logged /\ logging' = logging
        /\ disturbed' \in BOOLEAN /\ job' = job
    BY <1>9 DEF BystanderWrites, framingVars, driverVars, Typed, TypeOK
  <2> QED
    BY <2>1, <2>3, <2>4, <1>2 DEF Typed, TypeOK
<1>10. CASE CaptureBegins
  BY <1>10, <1>2 DEF CaptureBegins, Typed, TypeOK, framingVars, driverVars
<1>11. CASE UNCHANGED vars
  BY <1>11, <1>2 DEF vars, captureVars, framingVars, driverVars, Typed, TypeOK
<1> QED
  BY <1>3, <1>4, <1>5, <1>6, <1>7, <1>8, <1>9, <1>10, <1>11 DEF Next

LEMMA FramingHolds == Spec => []IInv
BY CaptureImplementsFraming, Inductive, PTL

LEMMA TypedAlways == Spec => []Typed
BY TypedInit, TypedStep, FramingHolds, PTL DEF Spec

(* Types: what is missing of a PDU and what is left of a frame never runs     *)
(* below zero, nor above the largest frame, whatever is logged.              *)
THEOREM CaptureTyping == Spec => []TypeOK
<1>1. Typed => TypeOK
  BY DEF Typed
<1> QED
  BY <1>1, TypedAlways, PTL

-----------------------------------------------------------------------------
(* The analyser and the panel, side by side *)

(* What the reassemblers are built for: no frame is larger than one may be, a  *)
(* flat command declares its length or is too short to be taken for a part,   *)
(* and the other connection only writes short commands.                      *)
StitchableSizes ==
  /\ \A c \in Chunked : c.header + CHUNK_SIZE <= MAX_FRAME
  /\ \A c \in Flat : c.length <= MAX_FRAME /\ (c.declared = c.length \/ c.length < MIN_FRAGMENT)
  /\ \A c \in Bystanders : c.length < MIN_FRAGMENT
  /\ \A c \in Flat \cup Chunked \cup Bystanders : c.name # "cont"

(* What is pending is the write that is being logged, as far as it is logged.  *)
HalfLogged ==
  pending = IF write = None \/ write.sent = 0
            THEN None
            ELSE [expected |-> 3 + write.length, have |-> 3 + write.sent, of |-> Whole(write)]

(* And what is left is what the panel waits for, but for the write under way.  *)
LeftIsNeeded ==
  /\ write = None => left = need
  /\ write # None /\ write.is = "cont" => left = need + write.length
  /\ write # None /\ write.is # "cont" => left = 0 /\ FirstLeft(write) = need

InStep == ~disturbed /\ logging => HalfLogged /\ LeftIsNeeded
Quiet == ~logging => left = 0 /\ pending = None /\ decoded = None

LEMMA InStepInit == Init => InStep /\ Quiet
BY DEF Init, FramingInit, InStep, Quiet, HalfLogged, LeftIsNeeded

(* A fragment that completes the write annotates it, any other only adds to   *)
(* what is pending.                                                          *)
LEMMA FragmentStitched ==
  ASSUME Typed, HalfLogged, Fragment, logging
  PROVE  /\ write' = None => pending' = None /\ Annotate(Whole(write))
         /\ write' # None => left' = left /\ decoded' = decoded /\ HalfLogged'
                             /\ write'.is = write.is /\ write'.length = write.length
                             /\ write'.declared = write.declared
<1> DEFINE whole == Whole(write)
           bytes == IF write.sent = 0 THEN FragmentBytes + 3 ELSE FragmentBytes
           slot == IF write.sent = 0 THEN AsStart(whole) ELSE pending
<1>1. /\ write \in Writes /\ write.length \in Nat \ {0} /\ write.sent \in Nat /\ write # None
      /\ FragmentBytes \in Nat \ {0} /\ write.sent + FragmentBytes <= write.length
  BY FragmentFits DEF Fragment
<1>2. /\ whole \in Writes /\ whole.length = write.length
  BY <1>1 DEF Writes, Whole
<1>3. slot \in Pdus /\ slot.of = whole /\ slot.expected = 3 + write.length
      /\ slot.have + bytes = 3 + (write.sent + FragmentBytes)
  <2>1. CASE write.sent = 0
    BY <2>1, <1>1, <1>2 DEF AsStart, PduLength, Pdus
  <2>2. CASE write.sent # 0
    <3>1. pending = [expected |-> 3 + write.length, have |-> 3 + write.sent, of |-> whole]
      BY <2>2, <1>1 DEF HalfLogged
    <3>2. slot = pending /\ bytes = FragmentBytes
      BY <2>2
    <3>3. pending \in Pdus
      BY <3>1, <1>1, <1>2 DEF Pdus
    <3>4. pending.of = whole /\ pending.expected = 3 + write.length
      BY <3>1
    <3>5. pending.have + FragmentBytes = 3 + (write.sent + FragmentBytes)
      BY <3>1, <1>1
    <3> QED
      BY <3>2, <3>3, <3>4, <3>5
  <2> QED
    BY <2>1, <2>2
<1>4. slot # None
  BY <1>3, NoneAssumption
<1>5. Stitches
  BY FragmentIsPushed
<1>6. CASE write.sent + FragmentBytes = write.length
  <2>1. write' = None
    BY <1>6, FragmentGoesOn
  <2>2. ~(slot.have + bytes < slot.expected)
    BY <1>1, <1>3, <1>6
  <2>3. pending' = None /\ Annotate(slot.of)
    BY <1>4, <1>5, <2>2 DEF Stitches, Push
  <2>4. slot.of = Whole(write)
    BY <1>3
  <2> QED
    BY <2>1, <2>3, <2>4
<1>7. CASE write.sent + FragmentBytes # write.length
  <2>1. write' = [write EXCEPT !.sent = write.sent + FragmentBytes]
    BY <1>7, FragmentGoesOn
  <2>2. slot.have + bytes < slot.expected
    BY <1>1, <1>3, <1>7
  <2>3. pending' = [slot EXCEPT !.have = slot.have + bytes] /\ left' = left /\ decoded' = decoded
    BY <1>4, <1>5, <2>2 DEF Stitches, Push
  <2>4. /\ write' \in Writes /\ write'.sent = write.sent + FragmentBytes
        /\ write'.length = write.length /\ write'.is = write.is /\ write'.declared = write.declared
    BY <2>1, <1>1 DEF Writes
  <2>5. Whole(write') = whole
    <3>1. [[write EXCEPT !.sent = write.sent + FragmentBytes] EXCEPT !.sent = 0] = [write EXCEPT !.sent = 0]
      BY <1>1 DEF Writes
    <3> QED
      BY <3>1, <2>1 DEF Whole
  <2>6. write' # None /\ write'.sent # 0
    BY <2>4, <1>1, NoneAssumption
  <2>7. pending' = [expected |-> 3 + write.length, have |-> 3 + (write.sent + FragmentBytes), of |-> whole]
    BY <2>3, <1>1, <1>2, <1>3 DEF Pdus
  <2>8. HalfLogged'
    BY <2>4, <2>5, <2>6, <2>7 DEF HalfLogged
  <2> QED
    BY <2>3, <2>4, <2>6, <2>8
<1> QED
  BY <1>6, <1>7

(* A part that is long enough is seen to be one, a whole frame is not.         *)
LEMMA EmitInStep ==
  ASSUME IInv, Typed, InStep, StitchableSizes, Emit
  PROVE  InStep'
<1> SUFFICES ASSUME ~disturbed', logging' PROVE (HalfLogged /\ LeftIsNeeded)'
  BY DEF InStep
<1>1. /\ job # NoJob /\ FramingTypeOK /\ job' = job /\ at \in Nat /\ PieceEnd \in Nat /\ at < PieceEnd
      /\ PieceEnd <= ChunkLength /\ ChunkLength \in Nat /\ Declared \in Nat
      /\ write' \in Writes /\ write'.sent = 0 /\ write'.length = PieceEnd - at
  BY EmitWrites
<1>2. /\ ~disturbed /\ ~TooShort /\ logging /\ write = None /\ left' = left /\ pending' = pending
      /\ write'.declared = Declared /\ write'.is = IF at = 0 THEN job.command.name ELSE "cont"
  BY DEF Emit
<1>3. left = need /\ pending = None
  BY <1>2 DEF InStep, HalfLogged, LeftIsNeeded
<1>4. HalfLogged'
  BY <1>1, <1>2, <1>3 DEF HalfLogged
<1>5. need = (IF at = 0 THEN 0 ELSE ChunkLength - at) /\ need' = ChunkLength - PieceEnd
  <2>1. need = IF at = 0 THEN 0 ELSE ChunkLength - at
    BY <1>1 DEF IInv, PanelFollows
  <2>2. need' = ChunkLength - PieceEnd
    BY PanelReadsOn DEF Emit
  <2> QED
    BY <2>1, <2>2
<1>6. write' # None
  BY <1>1, NoneAssumption
<1>7. job.command.name # "cont"
  <2>1. job.command \in Flat \cup Chunked
    BY <1>1 DEF FramingTypeOK, Jobs
  <2> QED
    BY <2>1 DEF StitchableSizes
<1>8. CASE at # 0
  <2>1. write'.is = "cont" /\ left' = need' + write'.length
    BY <1>1, <1>2, <1>3, <1>5, <1>8
  <2> QED
    BY <2>1, <1>4, <1>6 DEF LeftIsNeeded
<1>9. CASE at = 0
  <2>1. write'.is # "cont" /\ left' = 0 /\ write'.length = PieceEnd
    BY <1>1, <1>2, <1>3, <1>5, <1>7, <1>9
  <2>2. PieceEnd = ChunkLength \/ PieceEnd >= MIN_FRAGMENT
    BY <1>1, <1>2, <1>9, CaptureAssumption DEF TooShort
  <2>3. IF Fragments(PieceEnd, Declared) THEN Declared = ChunkLength ELSE PieceEnd = ChunkLength
    <3>1. job.total \in Nat /\ from \in Nat /\ from < job.total /\ Shape /\ Position
      BY <1>1 DEF FramingTypeOK, Jobs, Emit, WritePiece, IInv
    <3>2. CASE job.chunked
      <4>1. Declared = ChunkLength /\ job.command \in Chunked
        BY <3>1, <3>2, <1>1 DEF Declared, Shape
      <4>2. ChunkData <= CHUNK_SIZE /\ ChunkData \in Nat
        BY <3>1, <3>2, SizesAssumption DEF ChunkData, Smaller
      <4>3. job.command.header + CHUNK_SIZE <= MAX_FRAME /\ job.command.header \in Nat
        BY <4>1, CommandsAssumption DEF StitchableSizes
      <4>4. ChunkLength <= MAX_FRAME
        BY <4>2, <4>3, SizesAssumption, CaptureAssumption DEF ChunkLength
      <4> QED
        BY <4>1, <4>4, <2>2, <1>1, CaptureAssumption DEF Fragments
    <3>3. CASE ~job.chunked
      <4>1. /\ job.command \in Flat /\ ChunkLength = job.command.length /\ Declared = job.command.declared
        <5>1. job.command \in Flat /\ job.total = job.command.length
          BY <3>1, <3>3, <1>1 DEF Shape
        <5>2. job.command.header = 0 /\ job.command.length \in Nat
          BY <5>1, CommandsAssumption
        <5> QED
          BY <5>1, <5>2, <3>3 DEF ChunkLength, ChunkData, Declared
      <4>2. /\ job.command.length <= MAX_FRAME
            /\ job.command.declared = job.command.length \/ job.command.length < MIN_FRAGMENT
        BY <4>1 DEF StitchableSizes
      <4> QED
        BY <4>1, <4>2, <2>2, <1>1, CaptureAssumption DEF Fragments
    <3> QED
      BY <3>2, <3>3
  <2>4. FirstLeft(write') = need'
    BY <2>1, <2>3, <1>1, <1>2, <1>5 DEF FirstLeft, Fragments
  <2> QED
    BY <2>1, <2>4, <1>4, <1>6 DEF LeftIsNeeded
<1> QED
  BY <1>8, <1>9

(* The panel never has more of a chunk than there is of it.                    *)
LEMMA NeverOverfull ==
  ASSUME IInv
  PROVE  need >= 0
<1>1. FramingTypeOK /\ Shape /\ Position /\ need = IF job = NoJob \/ at = 0 THEN 0 ELSE ChunkLength - at
  BY DEF IInv, PanelFollows
<1>2. CASE job = NoJob \/ at = 0
  BY <1>1, <1>2
<1>3. CASE job # NoJob /\ at # 0
  <2>1. from < job.total
    BY <1>1, <1>3 DEF Position, FramingTypeOK, Jobs
  <2>2. ChunkLength \in Nat /\ PacketEnd \in Nat /\ PacketEnd <= ChunkLength
    BY <2>1, <1>1, <1>3, ChunkSizes
  <2>3. at \in Nat /\ at < PacketEnd
    BY <2>1, <1>1, <1>3 DEF Position, FramingTypeOK
  <2> QED
    BY <2>2, <2>3, <1>1, <1>3
<1> QED
  BY <1>2, <1>3

(* A continuation is skipped, anything else leaves what it declares.           *)
LEMMA FragmentInStep ==
  ASSUME IInv, Typed, InStep, Fragment
  PROVE  InStep'
<1> SUFFICES ASSUME ~disturbed', logging' PROVE (HalfLogged /\ LeftIsNeeded)'
  BY DEF InStep
<1>1. /\ ~disturbed /\ logging /\ need' = need /\ write # None
  BY FragmentGoesOn DEF framingVars, panelVars, Fragment
<1>2. HalfLogged /\ LeftIsNeeded
  BY <1>1 DEF InStep
<1>3. CASE write' # None
  <2>1. /\ left' = left /\ HalfLogged' /\ write'.is = write.is
        /\ write'.length = write.length /\ write'.declared = write.declared
    BY <1>1, <1>2, <1>3, FragmentStitched
  <2> QED
    BY <2>1, <1>1, <1>2, <1>3 DEF LeftIsNeeded, FirstLeft
<1>4. CASE write' = None
  <2>1. pending' = None /\ Annotate(Whole(write))
    BY <1>1, <1>2, <1>4, FragmentStitched
  <2>2. write \in Writes /\ write.length \in Nat \ {0} /\ write.declared \in Nat
    BY FragmentFits
  <2>3. /\ Whole(write).length = write.length /\ Whole(write).declared = write.declared
        /\ Whole(write).is = write.is
    BY <2>2 DEF Writes, Whole
  <2>4. left \in 0..MAX_FRAME /\ need \in Int
    BY DEF Typed, TypeOK, FramingTypeOK
  <2>5. left' = need
    <3>1. CASE write.is = "cont"
      <4>1. left = need + write.length
        BY <3>1, <1>1, <1>2 DEF LeftIsNeeded
      <4>2. need >= 0
        BY NeverOverfull
      <4>3. left' = Rest(write.length)
        BY <4>1, <4>2, <2>1, <2>2, <2>3, <2>4, AnnotateLeaves
      <4> QED
        BY <4>1, <4>2, <4>3, <2>2, <2>4 DEF Rest, Smaller
    <3>2. CASE write.is # "cont"
      <4>1. left = 0 /\ FirstLeft(write) = need
        BY <3>2, <1>1, <1>2 DEF LeftIsNeeded
      <4>2. left' = FirstLeft(Whole(write))
        BY <4>1, <3>2, <2>1, <2>2, <2>3, <2>4, AnnotateLeaves
      <4> QED
        BY <4>1, <4>2, <2>3 DEF FirstLeft
    <3> QED
      BY <3>1, <3>2
  <2> QED
    BY <2>1, <2>5, <1>1, <1>4 DEF HalfLogged, LeftIsNeeded
<1> QED
  BY <1>3, <1>4

(* A command begins with nothing under way, so that the panel waits for none.  *)
LEMMA NothingUnderWay ==
  ASSUME IInv, job = NoJob
  PROVE  need = 0
BY DEF IInv, PanelFollows

LEMMA BystanderInStep ==
  ASSUME IInv, Typed, InStep, StitchableSizes, BystanderWrites
  PROVE  InStep'
<1> SUFFICES ASSUME ~disturbed', logging' PROVE (HalfLogged /\ LeftIsNeeded)'
  BY DEF InStep
<1>1. /\ ~disturbed /\ ~(left > 0) /\ logging /\ UNCHANGED <<framingVars, write, pending>>
  BY DEF BystanderWrites
<1>2. HalfLogged /\ LeftIsNeeded
  BY <1>1 DEF InStep
<1>3. left = 0
  BY <1>1, CaptureAssumption DEF Typed, TypeOK
<1>4. PICK c \in Bystanders :
         Annotate([length |-> c.length, declared |-> c.declared, key |-> c.key, is |-> c.name])
  BY DEF BystanderWrites
<1>5. /\ c.length \in Nat /\ c.declared \in Nat /\ c.length < MIN_FRAGMENT /\ c.name # "cont"
  BY CaptureAssumption DEF StitchableSizes
<1>6. left' = 0
  <2> DEFINE w == [length |-> c.length, declared |-> c.declared, key |-> c.key, is |-> c.name]
  <2>1. left' = FirstLeft(w)
    BY <1>3, <1>4, <1>5, AnnotateLeaves DEF Typed, TypeOK
  <2> QED
    BY <2>1, <1>5, CaptureAssumption DEF FirstLeft, Fragments
<1>7. HalfLogged'
  BY <1>1, <1>2 DEF HalfLogged
<1>8. LeftIsNeeded'
  BY <1>1, <1>2, <1>3, <1>6 DEF LeftIsNeeded, FirstLeft, framingVars, panelVars
<1> QED
  BY <1>7, <1>8

LEMMA InStepStep == StitchableSizes /\ IInv /\ Typed /\ InStep /\ Quiet /\ [Next]_vars => InStep' /\ Quiet'
<1> SUFFICES ASSUME StitchableSizes, IInv, Typed, InStep, Quiet, [Next]_vars PROVE InStep' /\ Quiet'
  OBVIOUS
<1>1. CASE Issue
  <2>1. /\ write' = None /\ write = None /\ pending' = pending /\ left' = left /\ decoded' = None
        /\ disturbed' = ~Begins /\ logging' = logging
    BY <1>1 DEF Issue
  <2>2. job = NoJob /\ need' = need
    BY <1>1 DEF Issue, WritePackets, Write, Begin, panelVars
  <2>3. need = 0
    BY <2>2, NothingUnderWay
  <2> QED
    BY <2>1, <2>2, <2>3 DEF InStep, Quiet, HalfLogged, LeftIsNeeded, Begins
<1>2. CASE UploadFile
  BY <1>2 DEF UploadFile, InStep, Quiet, HalfLogged, LeftIsNeeded, framingVars, panelVars
<1>3. CASE Emit
  <2>1. Quiet'
    BY <1>3 DEF Emit, Quiet
  <2> QED
    BY <2>1, <1>3, EmitInStep
<1>4. CASE Release
  BY <1>4 DEF Release, Written, InStep, Quiet, HalfLogged, LeftIsNeeded, panelVars
<1>5. CASE Fragment
  <2>1. Quiet'
    BY <1>5, FragmentGoesOn, FragmentUnseen DEF Quiet
  <2> QED
    BY <2>1, <1>5, FragmentInStep
<1>6. CASE Notification
  BY <1>6 DEF Notification, InStep, Quiet, HalfLogged, LeftIsNeeded, FirstLeft, framingVars, panelVars
<1>7. CASE BystanderWrites
  <2>1. Quiet'
    BY <1>7 DEF BystanderWrites, Quiet
  <2> QED
    BY <2>1, <1>7, BystanderInStep
<1>8. CASE CaptureBegins
  <2>1. /\ ~logging /\ logging' /\ write' = write /\ pending' = pending /\ left' = left /\ need' = need
        /\ disturbed' = (job # NoJob)
    BY <1>8 DEF CaptureBegins, framingVars, panelVars
  <2>2. left = 0 /\ pending = None
    BY <2>1 DEF Quiet
  <2>3. ~disturbed' => write = None /\ need = 0
    BY <2>1, NothingUnderWay DEF Typed
  <2> QED
    BY <2>1, <2>2, <2>3 DEF InStep, Quiet, HalfLogged, LeftIsNeeded
<1>9. CASE UNCHANGED vars
  BY <1>9 DEF vars, captureVars, framingVars, panelVars, InStep, Quiet, HalfLogged, LeftIsNeeded, FirstLeft
<1> QED
  BY <1>1, <1>2, <1>3, <1>4, <1>5, <1>6, <1>7, <1>8, <1>9 DEF Next

LEMMA AlwaysInStep ==
  ASSUME StitchableSizes
  PROVE  Spec => []InStep
<1>1. Init => InStep /\ Quiet
  BY InStepInit
<1>2. IInv /\ Typed /\ InStep /\ Quiet /\ [Next]_vars => InStep' /\ Quiet'
  BY InStepStep
<1> QED
  BY <1>1, <1>2, FramingHolds, TypedAlways, PTL DEF Spec

(* However writes are cut and fragments logged, between writes the analyser    *)
(* waits for exactly the bytes the panel waits for, until something cuts the  *)
(* stream (btsnoop.py, ProtocolReassembler).                                  *)
THEOREM AnalyserKeepsUp ==
  ASSUME StitchableSizes
  PROVE  Spec => []AnalyserFollows
<1>1. InStep => AnalyserFollows
  BY DEF InStep, LeftIsNeeded, AnalyserFollows
<1> QED
  BY <1>1, AlwaysInStep, PTL

-----------------------------------------------------------------------------
(* The table by which btsnoop.py recognizes commands *)

(* A handler that takes a command is enough for its name to be found.          *)
LEMMA TakenIsNamed ==
  ASSUME NEW h \in Handlers, NEW key, NEW length, NEW declared, NEW name \in h.names,
         h.key = key, length \in h.lengths
  PROVE  name \in Classify(key, length, declared)
<1> DEFINE named == UNION {g.names : g \in {f \in Handlers : f.key = key /\ length \in f.lengths}}
<1>1. name \in named
  OBVIOUS
<1>2. Classify(key, length, declared) = named
  BY <1>1 DEF Classify
<1> QED
  BY <1>1, <1>2

LEMMA HandlerTakes ==
  ASSUME NEW type, NEW subtype, NEW lengths, NEW names, Handler(type, subtype, lengths, names) \in Handlers,
         NEW name \in names, NEW length \in lengths
  PROVE  \A declared : name \in Classify(<<type, subtype>>, length, declared)
BY TakenIsNamed DEF Handler

(* Commands are recognized by name, timer_close as unknown.                    *)
NameOf(name) == IF name = TimerClose.name THEN "unknown" ELSE name
Recognized(c) == NameOf(c.name) \in Classify(c.key, c.length, c.declared)

LEMMA CommandRecognized ==
  ASSUME NEW type, NEW subtype, NEW lengths, NEW names, Handler(type, subtype, lengths, names) \in Handlers,
         NEW name \in names, NEW length \in lengths, name # "timer_close"
  PROVE  Recognized(Command(name, type, subtype, length))
BY HandlerTakes DEF Recognized, NameOf, TimerClose, Command

LEMMA FixedLength ==
  ASSUME NEW type, NEW subtype, NEW length \in Nat, NEW name, NEW names,
         Handler(type, subtype, Exactly(length), names) \in Handlers, name \in names, name # "timer_close"
  PROVE  Recognized(Command(name, type, subtype, length))
<1>1. length \in Exactly(length)
  BY DEF Exactly
<1> QED
  BY <1>1, CommandRecognized

(* The handlers of commands of one length.                                    *)
LEMMA FixedHandlers ==
  /\ Handler(0, 2, Exactly(6), {"image_rhythm", "stop_rhythm"}) \in Handlers
  /\ Handler(1, 2, Exactly(21), {"rhythm_levels"}) \in Handlers
  /\ Handler(1, 128, Exactly(11), {"set_time"}) \in Handlers
  /\ Handler(2, 1, Exactly(17), {"delete_device_data"}) \in Handlers
  /\ Handler(2, 2, Exactly(7), {"color"}) \in Handlers
  /\ Handler(2, 128, Exactly(10), {"eco"}) \in Handlers
  /\ Handler(3, 1, Exactly(5), {"speed"}) \in Handlers
  /\ Handler(3, 128, Exactly(4), {"reset"}) \in Handlers
  /\ Handler(4, 1, Exactly(5), {"diy_mode"}) \in Handlers
  /\ Handler(4, 2, Exactly(8), {"set_password"}) \in Handlers
  /\ Handler(4, 128, Exactly(5), {"brightness"}) \in Handlers
  /\ Handler(5, 2, Exactly(7), {"verify_password"}) \in Handlers
  /\ Handler(6, 1, Exactly(8), {"clock"}) \in Handlers
  /\ Handler(6, 128, Exactly(5), {"flip"}) \in Handlers
  /\ Handler(7, 1, Exactly(5), {"power"}) \in Handlers
  /\ Handler(7, 128, Exactly(5), {"time_indicator", "master_switch"}) \in Handlers
  /\ Handler(8, 128, Exactly(7), {"countdown"}) \in Handlers
  /\ Handler(9, 128, Exactly(5), {"chronograph"}) \in Handlers
  /\ Handler(10, 128, Exactly(8), {"scoreboard"}) \in Handlers
  /\ Handler(12, 128, Exactly(5), {"joint"}) \in Handlers
  /\ Handler(15, 128, Exactly(5), {"screen_timeout"}) \in Handlers
  /\ Handler(3, 0, Exactly(4), {"freeze"}) \in Handlers
<1>1. SmallHandlers \subseteq Handlers /\ TextOrFreeze \subseteq Handlers
  BY DEF Handlers
<1>2. Handler(3, 0, Exactly(4), {"freeze"}) \in TextOrFreeze
  BY DEF TextOrFreeze
<1> QED
  BY <1>1, <1>2 DEF SmallHandlers

LEMMA DeviceRecognized == \A c \in DeviceCommands : Recognized(c)
<1>1. Recognized(Command("brightness", 4, 128, 5))
  BY FixedHandlers, FixedLength
<1>2. Recognized(Command("power", 7, 1, 5))
  BY FixedHandlers, FixedLength
<1>3. Recognized(Command("flip", 6, 128, 5))
  BY FixedHandlers, FixedLength
<1>4. Recognized(Command("freeze", 3, 0, 4))
  BY FixedHandlers, FixedLength
<1>5. Recognized(Command("speed", 3, 1, 5))
  BY FixedHandlers, FixedLength
<1>6. Recognized(Command("joint", 12, 128, 5))
  BY FixedHandlers, FixedLength
<1>7. Recognized(Command("set_time", 1, 128, 11))
  BY FixedHandlers, FixedLength
<1>8. Recognized(Command("set_password", 4, 2, 8))
  BY FixedHandlers, FixedLength
<1>9. Recognized(Command("verify_password", 5, 2, 7))
  BY FixedHandlers, FixedLength
<1>10. Recognized(Command("screen_timeout", 15, 128, 5))
  BY FixedHandlers, FixedLength
<1>11. Recognized(Command("time_indicator", 7, 128, 5))
  BY FixedHandlers, FixedLength
<1>12. Recognized(Command("delete_device_data", 2, 1, 17))
  BY FixedHandlers, FixedLength
<1>13. Recognized(Command("reset", 3, 128, 4))
  BY FixedHandlers, FixedLength
<1> QED
  BY <1>1, <1>2, <1>3, <1>4, <1>5, <1>6, <1>7, <1>8, <1>9, <1>10, <1>11, <1>12, <1>13 DEF DeviceCommands

LEMMA WidgetsRecognized == \A c \in WidgetFeatures \cup {DiyMode, MasterSwitch} : Recognized(c)
<1>1. Recognized(Command("chronograph", 9, 128, 5))
  BY FixedHandlers, FixedLength
<1>2. Recognized(Command("countdown", 8, 128, 7))
  BY FixedHandlers, FixedLength
<1>3. Recognized(Command("clock", 6, 1, 8))
  BY FixedHandlers, FixedLength
<1>4. Recognized(Command("scoreboard", 10, 128, 8))
  BY FixedHandlers, FixedLength
<1>5. Recognized(Command("eco", 2, 128, 10))
  BY FixedHandlers, FixedLength
<1>6. Recognized(Command("color", 2, 2, 7))
  BY FixedHandlers, FixedLength
<1>7. Recognized(Command("diy_mode", 4, 1, 5))
  BY FixedHandlers, FixedLength
<1>8. Recognized(Command("master_switch", 7, 128, 5))
  BY FixedHandlers, FixedLength
<1> QED
  BY <1>1, <1>2, <1>3, <1>4, <1>5, <1>6, <1>7, <1>8
     DEF WidgetFeatures, Chronograph, Countdown, ShowClock, Scoreboard, EcoMode, FullscreenColor,
         DiyMode, MasterSwitch

LEMMA MusicRecognized == \A c \in MusicCommands : Recognized(c)
<1>1. Recognized(Command("mic_type", 11, 128, 6))
  <2>1. Handler(11, 128, {5, 6}, {"mic_type"}) \in Handlers
    BY DEF Handlers, SmallHandlers
  <2> QED
    BY <2>1, CommandRecognized
<1>2. Recognized(Command("image_rhythm", 0, 2, 6)) /\ Recognized(Command("stop_rhythm", 0, 2, 6))
  BY FixedHandlers, FixedLength
<1>3. Recognized([Command("rhythm_levels", 1, 2, 21) EXCEPT !.declared = 33])
  <2>1. "rhythm_levels" \in Classify(<<1, 2>>, 21, 33)
    BY FixedHandlers, HandlerTakes DEF Exactly
  <2> QED
    BY <2>1 DEF Recognized, NameOf, TimerClose, Command
<1> QED
  BY <1>1, <1>2, <1>3 DEF MusicCommands

(* No handler is for a first slice of an effect: its type is a length.         *)
LEMMA HandledTypes == \A h \in Handlers : h.key[1] \in (0..12) \cup {15}
<1>1. \A h \in SmallHandlers : h.key[1] \in (0..12) \cup {15}
  BY DEF SmallHandlers, Handler
<1>2. \A h \in ChunkHandlers \cup TextOrFreeze : h.key[1] \in (0..12) \cup {15}
  BY DEF ChunkHandlers, TextOrFreeze, TextHandlers, Handler
<1> QED
  BY <1>1, <1>2 DEF Handlers

LEMMA SlicesRecognized ==
  ASSUME NEW colors \in {MIN_COLORS, MAX_COLORS}, NEW budget \in {96, 18}
  PROVE  Recognized(EffectSlice(colors, budget))
<1> DEFINE flat == 7 + 3 * colors
           slice == IF flat < budget THEN flat ELSE budget
<1>1. flat \in {13, 28} /\ slice \in 13..28
  BY DEF MIN_COLORS, MAX_COLORS
<1>2. EffectSlice(colors, budget) =
        [name |-> "effect_subchunk", key |-> <<flat, 0>>, length |-> slice + 2, declared |-> slice + 1, header |-> 0]
  BY DEF EffectSlice, Effect, Command
<1>3. {g \in Handlers : g.key = <<flat, 0>> /\ slice + 2 \in g.lengths} = {}
  BY <1>1, HandledTypes
<1>4. Classify(<<flat, 0>>, slice + 2, slice + 1) = {"effect_subchunk"}
  BY <1>1, <1>3 DEF Classify
<1> QED
  BY <1>2, <1>4 DEF Recognized, NameOf, TimerClose, Command

LEMMA EffectsRecognized == \A c \in EffectFeature : Recognized(c)
<1>1. ASSUME NEW n \in MIN_COLORS..MAX_COLORS PROVE Recognized(Effect(n))
  <2>1. Handler(3, 2, {7 + 3 * m : m \in 0..255}, {"effect"}) \in Handlers
    BY DEF Handlers, SmallHandlers
  <2>2. 7 + 3 * n \in {7 + 3 * m : m \in 0..255}
    BY DEF MIN_COLORS, MAX_COLORS
  <2>3. Recognized(Command("effect", 3, 2, 7 + 3 * n))
    BY <2>1, <2>2, CommandRecognized
  <2> QED
    BY <2>3 DEF Effect
<1> QED
  BY <1>1, SlicesRecognized DEF EffectFeature

(* timer_close has the type of the timer uploads and is shorter than their     *)
(* header.                                                                   *)
LEMMA TimerCloseUnknown == Recognized(TimerClose)
<1>1. \A h \in SmallHandlers : h.key # <<0, 128>>
  BY DEF SmallHandlers, Handler
<1>2. \A h \in ChunkHandlers \cup TextOrFreeze : h.key = <<0, 128>> => 12 \notin h.lengths
  <2>1. \A type, subtype, lengths, names : Handler(type, subtype, lengths, names).key = <<type, subtype>>
    BY DEF Handler
  <2>2. 12 \notin Handler(0, 128, AtLeast(24), {"timer_chunk"}).lengths
    BY DEF Handler, AtLeast
  <2> QED
    BY <2>1, <2>2 DEF ChunkHandlers, TextOrFreeze, TextHandlers
<1>3. {g \in Handlers : g.key = <<0, 128>> /\ 12 \in g.lengths} = {}
  BY <1>1, <1>2 DEF Handlers
<1>4. Classify(<<0, 128>>, 12, 12) = {"unknown"}
  BY <1>3 DEF Classify
<1> QED
  BY <1>4 DEF Recognized, NameOf, TimerClose, Command

LEMMA FlatRecognized == \A c \in FlatCommands : Recognized(c)
BY DeviceRecognized, WidgetsRecognized, MusicRecognized, EffectsRecognized, TimerCloseUnknown
   DEF FlatCommands, ExperimentalFeature

(* A chunk of an upload is recognized by any part that holds its header.       *)
PartsRecognized(c) ==
  \A length \in c.header..8192 : \A declared : NameOf(c.name) \in Classify(c.key, length, declared)

LEMMA UploadRecognized ==
  ASSUME NEW name, NEW type, NEW subtype, NEW header, name # "timer_close",
         Handler(type, subtype, AtLeast(header), {name}) \in Handlers
  PROVE  PartsRecognized(Upload(name, type, subtype, header))
<1>1. \A length \in AtLeast(header) : \A declared : name \in Classify(<<type, subtype>>, length, declared)
  BY HandlerTakes
<1>2. /\ Upload(name, type, subtype, header).name = name
      /\ Upload(name, type, subtype, header).key = <<type, subtype>>
      /\ Upload(name, type, subtype, header).header = header
  BY DEF Upload
<1>3. NameOf(name) = name
  BY DEF NameOf, TimerClose, Command
<1> QED
  BY <1>1, <1>2, <1>3 DEF PartsRecognized, AtLeast

LEMMA UploadsRecognized == \A c \in Uploads : PartsRecognized(c)
<1>1. /\ Handler(0, 0, AtLeast(9), {"diy_frame_chunk"}) \in Handlers
      /\ Handler(0, 128, AtLeast(24), {"timer_chunk"}) \in Handlers
      /\ Handler(1, 0, AtLeast(16), {"gif_chunk"}) \in Handlers
      /\ Handler(5, 128, AtLeast(23), {"schedule_chunk"}) \in Handlers
      /\ Handler(3, 0, AtLeast(16), {"text_chunk"}) \in Handlers
  BY DEF Handlers, ChunkHandlers, TextOrFreeze, TextHandlers
<1>2. PartsRecognized(DiyFrame)
  BY <1>1, UploadRecognized DEF DiyFrame
<1>3. PartsRecognized(TimerData)
  BY <1>1, UploadRecognized DEF TimerData
<1>4. PartsRecognized(Gif)
  BY <1>1, UploadRecognized DEF Gif
<1>5. PartsRecognized(ScheduleTheme)
  BY <1>1, UploadRecognized DEF ScheduleTheme
<1>6. PartsRecognized(Text)
  BY <1>1, UploadRecognized DEF Text
<1> QED
  BY <1>2, <1>3, <1>4, <1>5, <1>6 DEF Uploads

(* The handler of graffiti commands only asks for an even number of bytes.     *)
LEMMA GraffitiRecognized ==
  ASSUME NEW length \in 8..518, length % 2 = 0, NEW declared
  PROVE  "graffiti" \in Classify(<<5, 1>>, length, declared)
<1>1. Handler(5, 1, {8 + 2 * n : n \in 0..255}, {"graffiti"}) \in Handlers
  BY DEF Handlers, ChunkHandlers
<1>2. length = 8 + 2 * ((length - 8) \div 2) /\ (length - 8) \div 2 \in 0..255
  <2>1. length \in Int /\ 8 <= length /\ length <= 518
    OBVIOUS
  <2>2. PICK half \in Int : half = length \div 2
    BY <2>1
  <2>3. length = 2 * half
    BY <2>1, <2>2, Z3
  <2>4. (length - 8) \div 2 = half - 4
    BY <2>1, <2>3, Z3
  <2> QED
    BY <2>1, <2>2, <2>3, <2>4
<1>3. length \in {8 + 2 * n : n \in 0..255}
  BY <1>2
<1> QED
  BY <1>1, <1>3, HandlerTakes

(* The other flat commands are too short for a part.                          *)
LEMMA FlatAreShort ==
  ASSUME NEW c \in FlatCommands
  PROVE  c.length \in 1..63 /\ c.header = 0 /\ c.name # "cont" /\ c.name # "graffiti"
<1> DEFINE Short(d) == d.length \in 1..63 /\ d.header = 0 /\ d.name # "cont" /\ d.name # "graffiti"
<1>1. \A d \in DeviceCommands : Short(d)
  BY DEF DeviceCommands, Command
<1>2. \A d \in WidgetFeatures \cup ExperimentalFeature : Short(d)
  BY DEF WidgetFeatures, Chronograph, Countdown, ShowClock, Scoreboard, EcoMode, FullscreenColor,
         ExperimentalFeature, DiyMode, MasterSwitch, TimerClose, Command
<1>3. \A d \in MusicCommands : Short(d)
  BY DEF MusicCommands, Command
<1>4. \A n \in MIN_COLORS..MAX_COLORS : Short(Effect(n))
  BY DEF Effect, Command, MIN_COLORS, MAX_COLORS
<1>5. \A n \in {MIN_COLORS, MAX_COLORS}, budget \in {96, 18} : Short(EffectSlice(n, budget))
  BY DEF EffectSlice, Effect, Command, MIN_COLORS, MAX_COLORS
<1> QED
  BY <1>1, <1>2, <1>3, <1>4, <1>5 DEF FlatCommands, EffectFeature

(* The commands and the limits are the code's; the other connection writes    *)
(* flat commands.                                                            *)
TheCodesOwn ==
  /\ Flat \subseteq FlatCommands \cup {Graffiti(n) : n \in 1..MAX_PIXELS_PER_COMMAND}
  /\ Chunked \subseteq Uploads /\ Bystanders \subseteq FlatCommands
  /\ MIN_FRAGMENT = 64 /\ MAX_FRAME = 8192 /\ CHUNK_SIZE = 4096

LEMMA UploadHeaders == \A c \in Uploads : c.header \in 9..24 /\ c.name # "cont" /\ c.name # "graffiti"
BY DEF Uploads, DiyFrame, TimerData, Gif, ScheduleTheme, Text, Upload

LEMMA FlatOrGraffiti ==
  ASSUME TheCodesOwn, NEW c \in Flat
  PROVE  c \in FlatCommands \/ \E n \in 1..255 : c = Graffiti(n)
<1>1. c \in FlatCommands \cup {Graffiti(n) : n \in 1..255}
  BY DEF TheCodesOwn, MAX_PIXELS_PER_COMMAND
<1> QED
  BY <1>1

LEMMA CodesSizes ==
  ASSUME TheCodesOwn
  PROVE  StitchableSizes
<1>1. \A c \in Uploads : c.header \in 9..24 /\ c.name # "cont"
  BY UploadHeaders
<1>2. \A c \in Flat : c.length <= 8192 /\ (c.declared = c.length \/ c.length < 64) /\ c.name # "cont"
  <2> SUFFICES ASSUME NEW c \in Flat
               PROVE  c.length <= 8192 /\ (c.declared = c.length \/ c.length < 64) /\ c.name # "cont"
    OBVIOUS
  <2>1. CASE c \in FlatCommands
    BY <2>1, FlatAreShort
  <2>2. ASSUME NEW n \in 1..255, c = Graffiti(n)
        PROVE  c.length <= 8192 /\ c.declared = c.length /\ c.name # "cont"
    BY <2>2 DEF Graffiti, Command
  <2> QED
    BY <2>1, <2>2, FlatOrGraffiti
<1>3. \A c \in Chunked : c.header + CHUNK_SIZE <= 8192 /\ c.name # "cont"
  BY <1>1 DEF TheCodesOwn
<1>4. \A c \in Bystanders : c.length < 64 /\ c.name # "cont"
  BY FlatAreShort DEF TheCodesOwn
<1> QED
  BY <1>2, <1>3, <1>4 DEF TheCodesOwn, StitchableSizes

(* A link that cuts graffiti commands cuts them at an even length.             *)
EvenParts ==
  \A size \in WriteSizes \cup {ResponseSize} : MIN_FRAGMENT <= size /\ size < Graffiti(255).length => size % 2 = 0

(* The write under way, if it begins a frame, is recognized by what it is.     *)
Known ==
  ~disturbed /\ write # None /\ write.is # "cont" =>
    NameOf(write.is) \in Classify(write.key, write.length, write.declared)

LEMMA EmitKnown ==
  ASSUME IInv, TheCodesOwn, EvenParts, Emit
  PROVE  Known'
<1> SUFFICES ASSUME ~disturbed', write'.is # "cont"
             PROVE  NameOf(write'.is) \in Classify(write'.key, write'.length, write'.declared)
  BY DEF Known
<1>1. /\ job # NoJob /\ FramingTypeOK /\ at \in Nat /\ PieceEnd \in Nat /\ at < PieceEnd
      /\ PieceEnd <= ChunkLength /\ ChunkLength \in Nat
  BY EmitWrites
<1>2. write' = [length |-> PieceEnd - at, sent |-> 0, declared |-> Declared, key |-> job.command.key,
                is |-> IF at = 0 THEN job.command.name ELSE "cont"]
  BY DEF Emit
<1>3. at = 0
  BY <1>2
<1>4. write'.is = job.command.name /\ write'.key = job.command.key /\ write'.length = PieceEnd
      /\ write'.declared = Declared
  BY <1>1, <1>2, <1>3
<1>5. PieceEnd = ChunkLength \/ PieceEnd >= 64
  <2>1. ~TooShort
    BY DEF Emit
  <2> QED
    BY <2>1, <1>1, <1>3 DEF TooShort, TheCodesOwn
<1>6. from < job.total /\ Shape /\ Position /\ job.total \in Nat /\ from \in Nat
  BY <1>1 DEF Emit, WritePiece, IInv, FramingTypeOK, Jobs
<1>7. CASE job.chunked
  <2>1. job.command \in Uploads
    BY <1>1, <1>6, <1>7 DEF Shape, TheCodesOwn
  <2>2. job.command.header \in 9..24
    BY <2>1, UploadHeaders
  <2>3. ChunkData \in Nat \ {0} /\ ChunkData <= 4096
    <3>1. ChunkData = Smaller(4096, job.total - from)
      BY <1>7 DEF ChunkData, TheCodesOwn
    <3>2. job.total - from \in Nat /\ job.total - from > 0
      BY <1>6
    <3> QED
      BY <3>1, <3>2 DEF Smaller
  <2>4. PieceEnd \in job.command.header..8192
    <3>1. ChunkLength = job.command.header + ChunkData
      BY DEF ChunkLength
    <3> QED
      BY <3>1, <2>2, <2>3, <1>1, <1>5
  <2> QED
    BY <2>1, <2>4, <1>4, UploadsRecognized DEF PartsRecognized
<1>8. CASE ~job.chunked
  <2>1. job.command \in Flat /\ Declared = job.command.declared /\ PacketEnd = ChunkLength
    BY <1>1, <1>6, <1>8 DEF Shape, Declared, PacketEnd
  <2>2. ChunkLength = job.command.length
    <3>1. job.command.header = 0 /\ job.command.length \in Nat /\ job.total = job.command.length
      BY <2>1, <1>1, <1>6, <1>8, CommandsAssumption DEF Shape
    <3> QED
      BY <3>1, <1>8 DEF ChunkLength, ChunkData
  <2>3. CASE job.command \in FlatCommands
    <3>1. PieceEnd = job.command.length
      BY <2>2, <2>3, <1>1, <1>5, FlatAreShort
    <3> QED
      BY <3>1, <2>1, <2>3, <1>4, FlatRecognized DEF Recognized
  <2>4. ASSUME NEW n \in 1..255, job.command = Graffiti(n)
        PROVE  NameOf(write'.is) \in Classify(write'.key, write'.length, write'.declared)
    <3>1. /\ job.command.name = "graffiti" /\ job.command.key = <<5, 1>>
          /\ job.command.length = 8 + 2 * n
      BY <2>4 DEF Graffiti, Command
    <3>2. PieceEnd \in 8..518
      BY <3>1, <2>2, <1>1, <1>5
    <3>3. PieceEnd % 2 = 0
      <4>1. CASE PieceEnd = ChunkLength
        BY <4>1, <3>1, <2>2, Z3
      <4>2. CASE PieceEnd # ChunkLength
        <5>1. PieceSize \in Nat /\ PieceSize \in WriteSizes \cup {ResponseSize}
          BY <1>1, SizesAssumption DEF PieceSize, FramingTypeOK, Jobs
        <5>2. PieceEnd = PieceSize
          BY <5>1, <4>2, <2>1, <1>1, <1>3 DEF PieceEnd, Smaller
        <5>3. 64 <= PieceSize /\ PieceSize < 518
          BY <5>2, <4>2, <3>1, <2>2, <1>1, <1>5
        <5> QED
          BY <5>1, <5>2, <5>3 DEF EvenParts, TheCodesOwn, Graffiti, Command
      <4> QED
        BY <4>1, <4>2
    <3>4. "graffiti" \in Classify(<<5, 1>>, PieceEnd, Declared)
      BY <3>2, <3>3, GraffitiRecognized
    <3> QED
      BY <3>1, <3>4, <1>4 DEF NameOf, TimerClose, Command
  <2> QED
    BY <2>1, <2>3, <2>4, FlatOrGraffiti
<1> QED
  BY <1>7, <1>8

LEMMA FragmentNamed ==
  ASSUME IInv, Typed, InStep, Quiet, Known, AnnotationRight, Fragment
  PROVE  Known' /\ AnnotationRight'
<1>1. disturbed' = disturbed /\ logging' = logging /\ write # None
  BY FragmentGoesOn DEF Fragment
<1>2. /\ write \in Writes /\ write.length \in Nat \ {0} /\ write.sent \in Nat /\ write.declared \in Nat
  BY FragmentFits
<1>3. /\ Whole(write).length = write.length /\ Whole(write).declared = write.declared
      /\ Whole(write).is = write.is /\ Whole(write).key = write.key
  BY <1>2 DEF Writes, Whole
<1>4. Known'
  <2>1. CASE write' = None
    BY <2>1 DEF Known
  <2>2. CASE write' # None
    <3>1. write' = [write EXCEPT !.sent = write.sent + FragmentBytes]
      BY <2>2, FragmentGoesOn
    <3>2. /\ write'.length = write.length /\ write'.declared = write.declared
          /\ write'.is = write.is /\ write'.key = write.key
      BY <3>1, <1>2 DEF Writes
    <3> QED
      BY <3>2, <1>1 DEF Known
  <2> QED
    BY <2>1, <2>2
<1>5. CASE disturbed
  BY <1>1, <1>4, <1>5 DEF AnnotationRight
<1>6. CASE ~disturbed /\ ~logging
  <2>1. decoded' = decoded
    BY <1>6, FragmentUnseen
  <2> QED
    BY <2>1, <1>4, <1>6 DEF AnnotationRight, Quiet
<1>7. CASE ~disturbed /\ logging
  <2>1. HalfLogged /\ LeftIsNeeded
    BY <1>7 DEF InStep
  <2>2. CASE write' # None
    <3>1. decoded' = decoded
      BY <1>7, <2>1, <2>2, FragmentStitched
    <3> QED
      BY <3>1, <1>1, <1>4 DEF AnnotationRight
  <2>3. CASE write' = None
    <3>1. Annotate(Whole(write)) /\ left \in 0..MAX_FRAME /\ need \in Int /\ need >= 0
      BY <1>7, <2>1, <2>3, FragmentStitched, NeverOverfull DEF Typed, TypeOK, FramingTypeOK
    <3>2. CASE write.is = "cont"
      <4>1. left > 0
        BY <3>1, <3>2, <2>1, <1>1, <1>2 DEF LeftIsNeeded
      <4>2. decoded' = [was |-> "cont", as |-> {"cont"}]
        BY <4>1, <3>1, <3>2, <1>2, <1>3, AnnotateLeaves
      <4> QED
        BY <4>2, <1>4 DEF AnnotationRight, TimerClose, Command
    <3>3. CASE write.is # "cont"
      <4>1. left = 0
        BY <3>3, <2>1, <1>1 DEF LeftIsNeeded
      <4>2. decoded' = [was |-> write.is, as |-> Classify(write.key, write.length, write.declared)]
        BY <4>1, <3>1, <3>3, <1>2, <1>3, AnnotateLeaves
      <4>3. NameOf(write.is) \in Classify(write.key, write.length, write.declared)
        BY <3>3, <1>1, <1>7 DEF Known
      <4> QED
        BY <4>2, <4>3, <1>4 DEF AnnotationRight, NameOf
    <3> QED
      BY <3>2, <3>3
  <2> QED
    BY <2>2, <2>3
<1> QED
  BY <1>5, <1>6, <1>7

LEMMA BystanderNamed ==
  ASSUME Typed, TheCodesOwn, BystanderWrites
  PROVE  AnnotationRight'
<1> SUFFICES ASSUME ~disturbed' PROVE AnnotationRight'
  BY DEF AnnotationRight
<1>1. left = 0 /\ left \in 0..MAX_FRAME
  <2>1. ~(left > 0)
    BY DEF BystanderWrites
  <2> QED
    BY <2>1, CaptureAssumption DEF Typed, TypeOK
<1>2. PICK c \in Bystanders :
         Annotate([length |-> c.length, declared |-> c.declared, key |-> c.key, is |-> c.name])
  BY DEF BystanderWrites
<1>3. c \in FlatCommands /\ c.length \in Nat /\ c.declared \in Nat /\ c.name # "cont"
  BY CaptureAssumption, FlatAreShort DEF TheCodesOwn
<1>4. decoded' = [was |-> c.name, as |-> Classify(c.key, c.length, c.declared)]
  <2> DEFINE w == [length |-> c.length, declared |-> c.declared, key |-> c.key, is |-> c.name]
  <2>1. w.length \in Nat /\ w.declared \in Nat /\ w.is # "cont" /\ Annotate(w)
    BY <1>2, <1>3
  <2>2. decoded' = [was |-> w.is, as |-> Classify(w.key, w.length, w.declared)]
    BY <2>1, <1>1, AnnotateLeaves
  <2> QED
    BY <2>2
<1>5. NameOf(c.name) \in Classify(c.key, c.length, c.declared)
  BY <1>3, FlatRecognized DEF Recognized
<1> QED
  BY <1>4, <1>5 DEF AnnotationRight, NameOf

LEMMA NamedStep ==
  TheCodesOwn /\ EvenParts /\ IInv /\ Typed /\ InStep /\ Quiet /\ Known /\ AnnotationRight /\ [Next]_vars
    => Known' /\ AnnotationRight'
<1> SUFFICES ASSUME TheCodesOwn, EvenParts, IInv, Typed, InStep, Quiet, Known, AnnotationRight, [Next]_vars
             PROVE  Known' /\ AnnotationRight'
  OBVIOUS
<1>1. CASE Issue
  BY <1>1 DEF Issue, Known, AnnotationRight
<1>2. CASE UploadFile
  BY <1>2 DEF UploadFile, Known, AnnotationRight
<1>3. CASE Emit
  <2>1. decoded' = decoded /\ (~disturbed' => ~disturbed)
    BY <1>3 DEF Emit
  <2>2. AnnotationRight'
    BY <2>1 DEF AnnotationRight
  <2> QED
    BY <2>2, <1>3, EmitKnown
<1>4. CASE Release
  BY <1>4 DEF Release, Known, AnnotationRight
<1>5. CASE Fragment
  BY <1>5, FragmentNamed
<1>6. CASE Notification
  BY <1>6 DEF Notification, Known, AnnotationRight
<1>7. CASE BystanderWrites
  <2>1. Known'
    BY <1>7 DEF BystanderWrites, Known
  <2> QED
    BY <2>1, <1>7, BystanderNamed
<1>8. CASE CaptureBegins
  <2>1. write' = write /\ decoded' = None /\ (~disturbed' => write = None)
    BY <1>8 DEF CaptureBegins, Quiet, Typed
  <2> QED
    BY <2>1 DEF Known, AnnotationRight
<1>9. CASE UNCHANGED vars
  BY <1>9 DEF vars, captureVars, Known, AnnotationRight
<1> QED
  BY <1>1, <1>2, <1>3, <1>4, <1>5, <1>6, <1>7, <1>8, <1>9 DEF Next

(* Every write of the code's own commands is taken for what it is, whatever    *)
(* the sizes of its payloads, of links and of fragments, as long as nothing    *)
(* cuts the stream and no link cuts a graffiti command at an odd length        *)
(* (btsnoop.py:773-782).                                                      *)
THEOREM WritesAreRecognized ==
  ASSUME TheCodesOwn, EvenParts
  PROVE  Spec => []AnnotationRight
<1>1. Init => InStep /\ Quiet /\ Known /\ AnnotationRight
  BY InStepInit DEF Init, Known, AnnotationRight
<1>2. IInv /\ Typed /\ InStep /\ Quiet /\ Known /\ AnnotationRight /\ [Next]_vars
        => InStep' /\ Quiet' /\ Known' /\ AnnotationRight'
  BY CodesSizes, InStepStep, NamedStep
<1> QED
  BY <1>1, <1>2, FramingHolds, TypedAlways, PTL DEF Spec

-----------------------------------------------------------------------------
(* The frames of a GIF *)

(* Some of the frames of a source of this many, the first and the last among   *)
(* them, in order.                                                            *)
Excerpt(f, count) ==
  /\ f \in Seq(Int) /\ Len(f) \in Nat /\ Len(f) >= 2
  /\ f[1] = 1 /\ f[Len(f)] = count
  /\ \A i, j \in 1..Len(f) : i < j => f[i] < f[j]

LEMMA Division ==
  ASSUME NEW a \in Nat, NEW b \in Nat \ {0}
  PROVE  a \div b \in Nat /\ (a \div b) * b <= a /\ a < (a \div b + 1) * b
OBVIOUS

LEMMA TimesLess ==
  ASSUME NEW a \in Int, NEW b \in Int, NEW c \in Nat \ {0}, a < b
  PROVE  a * c < b * c
OBVIOUS

LEMMA QuotientBelow ==
  ASSUME NEW a \in Nat, NEW b \in Nat \ {0}, NEW c \in Nat, a < c * b
  PROVE  a \div b < c
<1>1. (a \div b) * b <= a /\ a \div b \in Nat
  BY Division
<1> QED
  BY <1>1

(* The step is at least one, every sampled frame lies before the last, and     *)
(* fewer than twice the frames to keep, and the two ends, are left.            *)
LEMMA SamplingFits ==
  ASSUME NEW n \in Nat, NEW keep \in Nat \ {0}, keep <= n - 2
  PROVE  LET step == Step(n, keep)
             picked == Ceiling(n - 2, step)
         IN  /\ step \in Nat \ {0} /\ picked \in Nat
             /\ picked <= 2 * keep
             /\ picked > 0 => (picked - 1) * step < n - 2
<1> DEFINE m == n - 2
           step == m \div keep
           picked == (m + step - 1) \div step
<1>1. m \in Nat \ {0} /\ keep <= m
  OBVIOUS
<1>2. step \in Nat /\ step * keep <= m /\ m < (step + 1) * keep
  BY <1>1, Division
<1>3. step \in Nat \ {0}
  BY <1>1, <1>2
<1>4. m + step - 1 \in Nat
  BY <1>1, <1>3
<1> HIDE DEF m, step
<1>5. picked \in Nat /\ picked * step <= m + step - 1
  BY <1>3, <1>4, Division
<1>6. picked > 0 => (picked - 1) * step < m
  <2>1. (picked - 1) * step = picked * step - step
    BY <1>3, <1>5
  <2> HIDE DEF picked
  <2> QED
    BY <2>1, <1>1, <1>3, <1>5
<1>7. picked <= 2 * keep
  <2>1. (step + 1) * keep = step * keep + keep /\ (2 * keep + 1) * step = 2 * (step * keep) + step
    BY <1>3
  <2>2. keep <= step * keep
    BY <1>3
  <2>3. step * keep \in Nat
    BY <1>3
  <2>4. m + step - 1 < (2 * keep + 1) * step
    BY <2>1, <2>2, <2>3, <1>1, <1>2, <1>3
  <2>5. 2 * keep + 1 \in Nat
    OBVIOUS
  <2>6. picked < 2 * keep + 1
    <3> HIDE DEF picked
    <3>1. \A a \in Nat, b \in Nat \ {0}, c \in Nat : a < c * b => a \div b < c
      BY QuotientBelow
    <3>2. (m + step - 1) \div step < 2 * keep + 1
      BY <3>1, <2>4, <2>5, <1>3, <1>4
    <3> QED
      BY <3>2 DEF picked
  <2> QED
    BY <2>6, <1>5
<1> QED
  BY <1>3, <1>5, <1>6, <1>7 DEF Step, Ceiling, m, step

(* Sampling an excerpt gives an excerpt, of at most 63 frames.                 *)
LEMMA SampleIsExcerpt ==
  ASSUME NEW f, NEW count, Excerpt(f, count), NEW keep \in Int, keep <= Len(f) - 2
  PROVE  /\ Excerpt(SampleFrames(f, keep), count)
         /\ Len(SampleFrames(f, keep)) <= 63
         /\ Len(SampleFrames(f, keep)) = 2 \/ Len(SampleFrames(f, keep)) <= 2 * keep + 2
<1> DEFINE n == Len(f)
<1>1. n \in Nat /\ n >= 2 /\ f[1] = 1 /\ f[n] = count
      /\ (\A i \in 1..n : f[i] \in Int) /\ (\A i, j \in 1..n : i < j => f[i] < f[j])
  BY DEF Excerpt
<1>2. CASE keep <= 0
  <2>1. SampleFrames(f, keep) = <<f[1], f[n]>>
    BY <1>2 DEF SampleFrames
  <2>2. f[1] < f[n] /\ f[1] \in Int /\ f[n] \in Int
    BY <1>1
  <2> DEFINE g == <<f[1], f[n]>>
  <2>3. g \in Seq(Int) /\ Len(g) = 2 /\ g[1] = f[1] /\ g[2] = f[n]
    BY <2>2
  <2>4. \A i, j \in 1..Len(g) : i < j => g[i] < g[j]
    BY <2>2, <2>3
  <2> HIDE DEF g
  <2>5. Excerpt(g, count)
    BY <2>3, <2>4, <1>1 DEF Excerpt
  <2> QED
    BY <2>1, <2>3, <2>5, <1>2 DEF g
<1>3. CASE keep > 0
  <2> DEFINE step == Step(n, keep)
             picked == Least(Ceiling(n - 2, step), MAX_FRAME_COUNT - 3)
             place(k) == IF k = 1 THEN 1 ELSE IF k = picked + 2 THEN n ELSE 2 + (k - 2) * step
             g == [k \in 1..picked + 2 |-> f[place(k)]]
  <2>1. /\ step \in Nat \ {0} /\ picked \in Nat /\ picked <= 61 /\ picked <= 2 * keep
        /\ picked > 0 => (picked - 1) * step < n - 2
    <3>1. /\ step \in Nat \ {0} /\ Ceiling(n - 2, step) \in Nat /\ Ceiling(n - 2, step) <= 2 * keep
          /\ Ceiling(n - 2, step) > 0 => (Ceiling(n - 2, step) - 1) * step < n - 2
      BY <1>1, <1>3, SamplingFits
    <3> DEFINE all == Ceiling(n - 2, step)
    <3> HIDE DEF all, step, n
    <3>2. picked = Least(all, 61)
      BY DEF all, MAX_FRAME_COUNT
    <3>3. all \in Nat /\ all <= 2 * keep /\ (all > 0 => (all - 1) * step < n - 2) /\ step \in Nat \ {0}
      BY <3>1 DEF all
    <3>4. picked \in Nat /\ picked <= 61 /\ picked <= all
      BY <3>2, <3>3 DEF Least
    <3> HIDE DEF picked
    <3>5. picked > 0 => (picked - 1) * step <= (all - 1) * step
      BY <3>3, <3>4
    <3>6. picked > 0 => (picked - 1) * step < n - 2
      <4> SUFFICES ASSUME picked > 0 PROVE (picked - 1) * step < n - 2
        OBVIOUS
      <4>1. (picked - 1) * step \in Int /\ (all - 1) * step \in Int /\ all > 0
        BY <3>3, <3>4
      <4> QED
        BY <4>1, <3>3, <3>4, <3>5, <1>1 DEF n
    <3> QED
      BY <3>3, <3>4, <3>6
  <2>2. SampleFrames(f, keep) = g
    <3> DEFINE ends == <<f[1], f[n]>>
               h == [k \in 1..picked + 2 |->
                       IF k = 1 THEN ends[1] ELSE IF k = picked + 2 THEN ends[2] ELSE f[2 + (k - 2) * step]]
    <3>1. SampleFrames(f, keep) = h
      <4>1. ~(keep <= 0)
        BY <1>3
      <4> QED
        BY <4>1, Zenon DEF SampleFrames
    <3>2. ends[1] = f[1] /\ ends[2] = f[n]
      OBVIOUS
    <3> HIDE DEF ends, step, picked
    <3>3. h = g
      BY <3>2
    <3> QED
      BY <3>1, <3>3
  <2> HIDE DEF step, picked, n
  <2>3. ASSUME NEW k \in 2..picked + 1
        PROVE  (k - 2) * step \in Nat /\ 2 + (k - 2) * step < n
    <3>1. (k - 2) * step <= (picked - 1) * step /\ (k - 2) * step \in Nat /\ (picked - 1) * step \in Nat
      BY <2>1
    <3> QED
      BY <3>1, <2>1, <1>1
  <2>4. ASSUME NEW k \in 1..picked + 2
        PROVE  place(k) \in 1..n
    BY <2>1, <2>3, <1>1
  <2>5. ASSUME NEW k \in 1..picked + 2, NEW l \in 1..picked + 2, k < l
        PROVE  place(k) < place(l)
    <3>1. CASE k = 1
      BY <3>1, <2>1, <2>3, <2>5, <1>1
    <3>2. CASE k # 1 /\ l = picked + 2
      BY <3>2, <2>1, <2>3, <2>5, <1>1
    <3>3. CASE k # 1 /\ l # picked + 2
      <4>1. (k - 2) * step < (l - 2) * step
        BY <2>1, <2>5, <3>3
      <4>2. (k - 2) * step \in Nat /\ (l - 2) * step \in Nat /\ k # picked + 2 /\ l # 1
        BY <2>1, <2>3, <2>5, <3>3
      <4> QED
        BY <4>1, <4>2, <3>3
    <3> QED
      BY <3>1, <3>2, <3>3
  <2>6. /\ g \in Seq(Int) /\ Len(g) = picked + 2 /\ \A k \in 1..picked + 2 : g[k] = f[place(k)]
    <3> HIDE DEF place
    <3>1. \A k \in 1..picked + 2 : f[place(k)] \in Int
      BY <2>4, <1>1
    <3> QED
      BY <3>1, <2>1
  <2>7. g[1] = 1 /\ g[picked + 2] = count
    BY <2>1, <2>6, <1>1
  <2>8. \A k, l \in 1..picked + 2 : k < l => g[k] < g[l]
    <3> HIDE DEF place, g
    <3> QED
      BY <2>4, <2>5, <2>6, <1>1
  <2> HIDE DEF g
  <2>9. Excerpt(g, count)
    BY <2>1, <2>6, <2>7, <2>8 DEF Excerpt
  <2> QED
    BY <2>1, <2>2, <2>6, <2>9, <1>3
<1> QED
  BY <1>2, <1>3

LEMMA GivenIsNumber ==
  ASSUME NEW optional \in Optional, optional # {}
  PROVE  Given(optional) \in Int
<1>1. PICK n : n \in optional
  OBVIOUS
<1>2. Given(optional) \in optional
  BY <1>1 DEF Given
<1> QED
  BY <1>2 DEF Optional

(* A duration that is derived is positive; one that is asked for need not be.  *)
LEMMA DurationIsFraction ==
  ASSUME NEW source \in Sources
  PROVE  Duration(source).ms \in Int /\ Duration(source).per \in Nat \ {0}
<1>1. source.count \in Nat \ {0} /\ source.info \in Optional /\ source.override \in Optional
  BY DEF Sources
<1>2. CASE source.override = {}
  <2>1. Duration(source) = FrameDuration(source.info, source.count)
    BY <1>2 DEF Duration
  <2> DEFINE said == IF source.info = {} THEN 200 ELSE Given(source.info)
             shared == [ms |-> 2000, per |-> Least(source.count, 64)]
  <2>2. said \in Int
    BY <1>1, GivenIsNumber
  <2>3. shared.ms \in Int /\ shared.per \in Nat \ {0}
    BY <1>1 DEF Least
  <2>4. FrameDuration(source.info, source.count) =
          IF said <= 0 THEN shared ELSE IF said < 16 THEN Ms(16) ELSE Ms(said)
    BY DEF FrameDuration, DEFAULT_FRAME_DURATION_MS, TOTAL_DURATION_LIMIT_MS, MAX_FRAME_COUNT
  <2> HIDE DEF said, shared
  <2> QED
    BY <2>1, <2>2, <2>3, <2>4 DEF Ms
<1>3. CASE source.override # {}
  <2>1. Given(source.override) \in Int /\ Duration(source) = Ms(Given(source.override))
    BY <1>1, <1>3, GivenIsNumber DEF Duration
  <2> QED
    BY <2>1 DEF Ms
<1> QED
  BY <1>2, <1>3

LEMMA CapCountIsExcerpt ==
  ASSUME NEW f, NEW count, Excerpt(f, count)
  PROVE  Excerpt(CapCount(f), count) /\ Len(CapCount(f)) <= 64
<1>1. Len(f) \in Nat
  BY DEF Excerpt
<1>2. CASE Len(f) > 64
  <2>1. CapCount(f) = SampleFrames(f, 62)
    BY <1>2 DEF CapCount, MAX_FRAME_COUNT
  <2>2. Excerpt(SampleFrames(f, 62), count) /\ Len(SampleFrames(f, 62)) <= 63
    BY <1>1, <1>2, SampleIsExcerpt
  <2>3. Len(SampleFrames(f, 62)) \in Nat
    BY <2>2 DEF Excerpt
  <2> QED
    BY <2>1, <2>2, <2>3
<1>3. CASE ~(Len(f) > 64)
  BY <1>1, <1>3 DEF CapCount, MAX_FRAME_COUNT
<1> QED
  BY <1>2, <1>3

(* The frames that a budget of time lets through run less than twice that time. *)
LEMMA BudgetFits ==
  ASSUME NEW n \in Nat, NEW ms \in Nat \ {0}, NEW limit \in Nat, n * ms > limit,
         NEW budget, budget = Least(62, (limit \div ms) - 2)
  PROVE  /\ budget \in Int /\ budget <= n - 2 /\ budget < n
         /\ \A m \in Nat : m <= 2 * budget + 2 => m * ms < 2 * limit
<1> DEFINE whole == limit \div ms
<1>1. whole \in Nat /\ whole * ms <= limit
  BY Division
<1>2. budget = Least(62, whole - 2)
  OBVIOUS
<1> HIDE DEF whole
<1>3. budget \in Int /\ budget <= whole - 2
  BY <1>1, <1>2 DEF Least
<1>4. whole < n
  <2>1. n * ms \in Nat /\ whole * ms \in Nat
    BY <1>1
  <2>2. whole * ms < n * ms
    BY <2>1, <1>1
  <2> QED
    BY <2>2, <1>1
<1>5. ASSUME NEW m \in Nat, m <= 2 * budget + 2
      PROVE  m * ms < 2 * limit
  <2>1. m < 2 * whole
    BY <1>1, <1>3, <1>5
  <2>2. m * ms < (2 * whole) * ms
    BY <2>1, <1>1, TimesLess
  <2>3. (2 * whole) * ms = 2 * (whole * ms) /\ whole * ms \in Nat /\ m * ms \in Nat
    BY <1>1
  <2> QED
    BY <2>2, <2>3, <1>1
<1> QED
  BY <1>1, <1>3, <1>4, <1>5 DEF whole

(* Frames that run too long are sampled to less than twice the limit.          *)
LEMMA CapTimeIsExcerpt ==
  ASSUME NEW f, NEW count, Excerpt(f, count), Len(f) <= 64,
         NEW d, d.ms \in Int, d.per \in Nat \ {0}
  PROVE  /\ Excerpt(CapTime(f, d), count) /\ Len(CapTime(f, d)) <= 64
         /\ Len(CapTime(f, d)) > 2 => Len(CapTime(f, d)) * d.ms < 4000 * d.per
<1>1. PICK n \in Nat, ms \in Int, per \in Nat \ {0} : n = Len(f) /\ ms = d.ms /\ per = d.per
  BY DEF Excerpt
<1>2. PICK limit \in Nat : limit = 2000 * per
  BY <1>1
<1>3. 4000 * per = 2 * limit /\ limit > 0 /\ n * ms \in Int /\ (ms <= 0 => n * ms <= 0)
  BY <1>1, <1>2
<1>4. TooLong(f, d) <=> n * ms > limit
  BY <1>1, <1>2 DEF TooLong, TOTAL_DURATION_LIMIT_MS
<1>5. PICK budget : budget = Least(62, (limit \div ms) - 2)
  OBVIOUS
<1>6. Budget(d) = budget
  BY <1>1, <1>2, <1>5 DEF Budget, MAX_FRAME_COUNT, TOTAL_DURATION_LIMIT_MS
<1>7. CASE ~(n * ms > limit)
  <2>1. CapTime(f, d) = f
    BY <1>4, <1>7 DEF CapTime
  <2>2. n * ms < 4000 * per
    BY <1>3, <1>7
  <2> QED
    BY <2>1, <2>2, <1>1
<1>8. CASE n * ms > limit
  <2>1. TooLong(f, d) /\ ms \in Nat \ {0}
    BY <1>3, <1>4, <1>8
  <2>2. /\ budget \in Int /\ budget <= n - 2 /\ budget < n
        /\ \A m \in Nat : m <= 2 * budget + 2 => m * ms < 2 * limit
    BY <2>1, <1>5, <1>8, BudgetFits
  <2>3. CapTime(f, d) = SampleFrames(f, budget)
    BY <2>1, <2>2, <1>1, <1>6 DEF CapTime
  <2> DEFINE g == SampleFrames(f, budget)
  <2>4. Excerpt(g, count) /\ Len(g) <= 63 /\ (Len(g) = 2 \/ Len(g) <= 2 * budget + 2)
    BY <2>2, <1>1, SampleIsExcerpt
  <2> HIDE DEF g
  <2>5. PICK m \in Nat : m = Len(g)
    BY <2>4 DEF Excerpt
  <2>6. m <= 63 /\ (m > 2 => m <= 2 * budget + 2)
    <3>1. m <= 63 /\ (m = 2 \/ m <= 2 * budget + 2)
      BY <2>4, <2>5, Zenon
    <3> QED
      BY <3>1
  <2>7. m > 2 => m * ms < 4000 * per
    BY <2>1, <2>2, <2>6, <1>3
  <2> QED
    BY <2>3, <2>4, <2>5, <2>6, <2>7, <1>1 DEF g
<1> QED
  BY <1>7, <1>8

(* What adapt_gif() returns fits the panel and runs less than twice the limit. *)
LEMMA AdaptedGifs ==
  ASSUME NEW source \in Sources
  PROVE  Fits(AdaptGif(source)) /\ Bounded(AdaptGif(source))
<1> DEFINE count == source.count
           d == Duration(source)
           all == [i \in 1..count |-> i]
           kept == LimitFrames(count, d)
<1>1. count \in Nat \ {0}
  BY DEF Sources
<1>2. d.ms \in Int /\ d.per \in Nat \ {0}
  BY DurationIsFraction
<1>3. AdaptGif(source) = [source |-> source, duration |-> d, frames |-> kept]
  BY DEF AdaptGif
<1> HIDE DEF count, d
<1>4. all \in Seq(Int) /\ Len(all) = count /\ \A i \in 1..count : all[i] = i
  BY <1>1
<1>5. CASE count <= 1
  <2>1. count = 1 /\ kept = all
    BY <1>1, <1>5 DEF LimitFrames
  <2> HIDE DEF kept, all
  <2>2. Len(kept) = 1 /\ kept[1] = 1
    BY <2>1, <1>4
  <2>3. PICK made : made = AdaptGif(source)
    OBVIOUS
  <2>4. made.frames = kept /\ made.source.count = 1
    BY <2>1, <2>3, <1>3 DEF count
  <2>5. Len(made.frames) = 1 /\ made.frames[1] = 1
    BY <2>2, <2>4, Zenon
  <2>6. Fits(made)
    <3>1. made.frames[Len(made.frames)] = made.source.count /\ Len(made.frames) <= 64
      BY <2>4, <2>5
    <3>2. 1..Len(made.frames) - 1 = {}
      BY <2>5
    <3> QED
      BY <2>5, <3>1, <3>2, Zenon DEF Fits, MAX_FRAME_COUNT
  <2>7. Bounded(made)
    <3>1. ~(Len(made.frames) > 2)
      BY <2>5
    <3> QED
      BY <3>1, Zenon DEF Bounded
  <2> QED
    BY <2>3, <2>6, <2>7
<1>6. CASE count > 1
  <2>1. kept = CapTime(CapCount(all), d)
    BY <1>1, <1>6 DEF LimitFrames
  <2> HIDE DEF kept, all
  <2>2. Excerpt(all, count)
    BY <1>1, <1>4, <1>6 DEF Excerpt
  <2>3. Excerpt(CapCount(all), count) /\ Len(CapCount(all)) <= 64
    BY <2>2, CapCountIsExcerpt
  <2>4. Excerpt(kept, count) /\ Len(kept) <= 64 /\ (Len(kept) > 2 => Len(kept) * d.ms < 4000 * d.per)
    BY <2>1, <2>3, <1>2, CapTimeIsExcerpt
  <2>5. \A k \in 1..Len(kept) - 1 : kept[k] < kept[k + 1]
    <3>1. Len(kept) \in Nat /\ \A i, j \in 1..Len(kept) : i < j => kept[i] < kept[j]
      BY <2>4 DEF Excerpt
    <3> QED
      BY <3>1
  <2>6. kept[1] = 1 /\ kept[Len(kept)] = count
    BY <2>4 DEF Excerpt
  <2>7. Fits(AdaptGif(source))
    BY <2>4, <2>5, <2>6, <1>3 DEF Fits, MAX_FRAME_COUNT, count
  <2>8. Bounded(AdaptGif(source))
    BY <2>4, <1>3 DEF Bounded, TOTAL_DURATION_LIMIT_MS
  <2> QED
    BY <2>7, <2>8
<1> QED
  BY <1>1, <1>5, <1>6

LEMMA MadeFromSource == Spec => [](gif # None => \E animation \in Animations : gif = AdaptGif(animation))
<1> DEFINE Made == gif # None => \E animation \in Animations : gif = AdaptGif(animation)
<1>1. Init => Made
  BY DEF Init
<1>2. Made /\ [Next]_vars => Made'
  BY DEF Next, UploadFile, Issue, Emit, Release, Fragment, Notification, BystanderWrites, CaptureBegins,
         vars, captureVars
<1> QED
  BY <1>1, <1>2, PTL DEF Spec

(* What is uploaded fits the panel's 64 frames, begins and ends as the         *)
(* animation does and goes forward, whatever the animation (gif.py:137-185).   *)
THEOREM UploadedGifsFit == Spec => []GifFits
<1>1. (gif # None => \E animation \in Animations : gif = AdaptGif(animation)) => GifFits
  BY AdaptedGifs, AnimationsAssumption DEF GifFits
<1> QED
  BY <1>1, MadeFromSource, PTL

(* And more than the two frames that are always kept run less than 4 s.        *)
THEOREM UploadedGifsAreBounded == Spec => []GifBounded
<1>1. (gif # None => \E animation \in Animations : gif = AdaptGif(animation)) => GifBounded
  BY AdaptedGifs, AnimationsAssumption DEF GifBounded
<1> QED
  BY <1>1, MadeFromSource, PTL
=============================================================================
