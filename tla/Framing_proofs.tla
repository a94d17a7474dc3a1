--------------------------- MODULE Framing_proofs ---------------------------
(***************************************************************************)
(* Framing for every chunk, packet and write size, every header and every   *)
(* payload: the panel finds each chunk where it begins, and the last write  *)
(* of a job is the acknowledged one.                                        *)
(*                                                                         *)
(* Neither PanelFollows nor AckedAtTheEnd is inductive: they need where the *)
(* driver is in its chunk and packet (Position), that a flat command is one *)
(* chunk (Shape), and what the panel has put together in mid-chunk          *)
(* (Collected).                                                             *)
(***************************************************************************)
EXTENDS Framing, TLAPS

(* What a job is made of. *)
Shape ==
  job # NoJob =>
    IF job.chunked THEN job.command \in Chunked
                   ELSE job.command \in Flat /\ job.total = job.command.length /\ from \in {0, job.total}

(* The driver stands before the end of the packet it is writing. *)
Position ==
  /\ job = NoJob => from = 0 /\ at = 0 /\ packet = 0 /\ acked = 0
  /\ job # NoJob => from <= job.total /\ job.total > 0
  /\ job # NoJob /\ from = job.total => at = 0 /\ packet = 0
  /\ job # NoJob /\ from < job.total => packet <= at /\ at < PacketEnd

(* The panel counts a chunk as soon as it has read its header. *)
Collected ==
  job # NoJob /\ job.chunked =>
    /\ at = 0 /\ from > 0 => got = from
    /\ at > 0 => got = from + ChunkData

IInv == FramingTypeOK /\ Shape /\ Position /\ Collected /\ PanelFollows /\ AckedAtTheEnd

-----------------------------------------------------------------------------
(* Where one write begins and ends *)

(* Every chunk has data and ends within the payload, every packet ends within  *)
(* its chunk.                                                                 *)
LEMMA ChunkSizes ==
  ASSUME FramingTypeOK, Shape, Position, job # NoJob, from < job.total
  PROVE  /\ job \in Jobs /\ job.total \in Nat /\ job.size \in Nat \ {0} /\ job.command.header \in Nat
         /\ ChunkData \in Nat \ {0} /\ from + ChunkData <= job.total
         /\ ChunkLength \in Nat \ {0} /\ ChunkLength = job.command.header + ChunkData
         /\ PacketEnd \in Nat /\ PacketEnd <= ChunkLength
         /\ PieceSize \in Nat \ {0}
<1>1. job \in Jobs /\ job.total \in Nat /\ job.size \in Nat \ {0} /\ job.command.header \in Nat
  <2>1. job \in Jobs
    BY DEF FramingTypeOK
  <2>2. job.total \in Nat /\ job.size \in WriteSizes /\ job.chunked \in BOOLEAN
    BY <2>1 DEF Jobs
  <2>3. job.size \in Nat \ {0}
    BY <2>2, SizesAssumption
  <2>4. job.command.header \in Nat
    <3>1. CASE job.chunked
      BY <3>1, CommandsAssumption DEF Shape
    <3>2. CASE ~job.chunked
      BY <3>2, CommandsAssumption, Z3 DEF Shape
    <3> QED
      BY <3>1, <3>2
  <2> QED
    BY <2>1, <2>2, <2>3, <2>4
<1>2. ChunkData \in Nat \ {0} /\ from + ChunkData <= job.total
  <2>1. CASE job.chunked
    BY <1>1, <2>1, SizesAssumption DEF ChunkData, Smaller, FramingTypeOK
  <2>2. CASE ~job.chunked
    BY <1>1, <2>2 DEF ChunkData, FramingTypeOK, Shape
  <2> QED
    BY <2>1, <2>2
<1>3. ChunkLength \in Nat \ {0}
  BY <1>1, <1>2 DEF ChunkLength
<1>4. PacketEnd \in Nat /\ PacketEnd <= ChunkLength
  BY <1>3, SizesAssumption DEF PacketEnd, Smaller, FramingTypeOK
<1>5. PieceSize \in Nat \ {0}
  BY <1>1, SizesAssumption DEF PieceSize
<1> QED
  BY <1>1, <1>2, <1>3, <1>4, <1>5 DEF ChunkLength

(* A write goes forward, and not past the packet.                             *)
LEMMA PieceGoesOn ==
  ASSUME FramingTypeOK, Shape, Position, job # NoJob, from < job.total
  PROVE  PieceEnd \in Nat /\ at < PieceEnd /\ PieceEnd <= PacketEnd
BY ChunkSizes DEF PieceEnd, Smaller, FramingTypeOK, Position

-----------------------------------------------------------------------------
(* The invariant *)

LEMMA InvInit == FramingInit => IInv
BY NoJobAssumption DEF FramingInit, IInv, FramingTypeOK, Shape, Position, Collected, PanelFollows, AckedAtTheEnd

(* A new job finds the panel between two chunks. *)
LEMMA BeginKeeps ==
  ASSUME IInv, NEW c \in Flat \cup Chunked, NEW total \in Nat \ {0}, NEW chunked \in BOOLEAN,
         NEW response \in BOOLEAN, Begin(c, total, chunked, response),
         IF chunked THEN c \in Chunked ELSE c \in Flat /\ total = c.length
  PROVE  IInv'
<1>1. PICK size \in WriteSizes :
        job' = [command |-> c, total |-> total, chunked |-> chunked, response |-> response, size |-> size]
  BY DEF Begin
<1>2. /\ job' \in Jobs /\ job' # NoJob /\ job = NoJob
      /\ from' = 0 /\ at' = 0 /\ packet' = 0 /\ acked' = 0 /\ need' = need /\ got' = got
  BY <1>1, NoJobAssumption DEF Begin, Jobs, panelVars
<1>3. FramingTypeOK' /\ Shape'
  BY <1>1, <1>2 DEF IInv, FramingTypeOK, Shape
<1>4. /\ ChunkLength' \in Nat \ {0} /\ PacketEnd' \in Nat \ {0}
  <2>1. ChunkData' \in Nat \ {0} /\ job'.command.header \in Nat
    BY <1>1, <1>2, SizesAssumption, CommandsAssumption DEF ChunkData, Smaller
  <2>2. ChunkLength' \in Nat \ {0}
    BY <2>1 DEF ChunkLength
  <2> QED
    BY <2>2, <1>2, SizesAssumption DEF PacketEnd, Smaller
<1>5. Position'
  BY <1>1, <1>2, <1>4 DEF Position
<1>6. Collected' /\ PanelFollows' /\ AckedAtTheEnd'
  BY <1>1, <1>2 DEF IInv, Collected, PanelFollows, AckedAtTheEnd
<1> QED
  BY <1>3, <1>5, <1>6 DEF IInv

(* Whatever the panel read before, it now waits for the rest of the chunk.     *)
LEMMA PanelReadsOn ==
  ASSUME IInv, WritePiece
  PROVE  need' = ChunkLength - PieceEnd
<1>1. job # NoJob /\ from < job.total /\ FramingTypeOK /\ Shape /\ Position
  BY DEF WritePiece, IInv
<1>2. /\ job.total \in Nat /\ ChunkLength \in Nat /\ PieceEnd \in Nat /\ at < PieceEnd
      /\ PieceEnd <= PacketEnd /\ PacketEnd \in Nat /\ PacketEnd <= ChunkLength
  BY <1>1, ChunkSizes, PieceGoesOn
<1>3. at \in Nat /\ need = IF at = 0 THEN 0 ELSE ChunkLength - at
  BY <1>1 DEF FramingTypeOK, IInv, PanelFollows
<1>4. (need = 0) = (at = 0)
  BY <1>2, <1>3
<1>5. ~job.chunked => ChunkLength = job.total
  BY <1>1, ChunkSizes, CommandsAssumption DEF ChunkLength, ChunkData, Shape
<1>6. CASE need = 0
  BY <1>2, <1>5, <1>6 DEF WritePiece, PanelReads, Declared
<1>7. CASE need # 0
  BY <1>2, <1>3, <1>4, <1>7 DEF WritePiece, PanelReads
<1> QED
  BY <1>6, <1>7

LEMMA WritePieceKeeps ==
  ASSUME IInv, WritePiece
  PROVE  IInv'
<1>1. job # NoJob /\ from < job.total /\ job' = job
  BY DEF WritePiece
<1>2. FramingTypeOK /\ Shape /\ Position
  BY DEF IInv
<1>3. /\ job \in Jobs /\ job.total \in Nat
      /\ ChunkData \in Nat \ {0} /\ from + ChunkData <= job.total
      /\ ChunkLength \in Nat \ {0} /\ ChunkLength = job.command.header + ChunkData
      /\ job.command.header \in Nat
      /\ PacketEnd \in Nat /\ PacketEnd <= ChunkLength
  BY <1>1, <1>2, ChunkSizes
<1>4. PieceEnd \in Nat /\ at < PieceEnd /\ PieceEnd <= PacketEnd
  BY <1>1, <1>2, PieceGoesOn
<1>5. at \in Nat /\ from \in Nat /\ packet \in Nat /\ acked \in Nat /\ need \in Int /\ got \in Nat
  BY <1>2 DEF FramingTypeOK
<1>6. need = IF at = 0 THEN 0 ELSE ChunkLength - at
  BY <1>1 DEF IInv, PanelFollows
<1>7. (need = 0) = (at = 0)
  BY <1>3, <1>4, <1>5, <1>6
<1>8. need' = ChunkLength - PieceEnd
  BY PanelReadsOn
<1>9. job.chunked => got' = from + ChunkData
  <2> SUFFICES ASSUME job.chunked PROVE got' = from + ChunkData
    OBVIOUS
  <2>1. CASE need = 0
    <3>1. got' = (IF from = 0 THEN 0 ELSE got) + ChunkLength - job.command.header
      BY <2>1 DEF WritePiece, PanelReads, Declared, IsFirst
    <3>2. from > 0 => got = from
      BY <1>1, <1>5, <1>7, <2>1 DEF IInv, Collected
    <3> QED
      BY <3>1, <3>2, <1>3, <1>5
  <2>2. CASE need # 0
    BY <2>2, <1>1, <1>5, <1>7 DEF WritePiece, PanelReads, IInv, Collected
  <2> QED
    BY <2>1, <2>2
<1>10. got' \in Nat
  <2>1. CASE job.chunked
    BY <2>1, <1>3, <1>5, <1>9
  <2>2. CASE ~job.chunked
    BY <2>2, <1>5 DEF WritePiece, PanelReads
  <2> QED
    BY <2>1, <2>2
<1>11. acked = 0
  BY <1>1, <1>5, <1>3 DEF IInv, AckedAtTheEnd
<1>12. acked' = IF Asks THEN 1 ELSE 0
  BY <1>11 DEF WritePiece
<1>13. CASE EndsChunk
  <2>1. PieceEnd = ChunkLength /\ from' = from + ChunkData /\ at' = 0 /\ packet' = 0 /\ need' = 0
    BY <1>13, <1>3, <1>8 DEF WritePiece, EndsChunk
  <2>2. FramingTypeOK'
    BY <2>1, <1>1, <1>3, <1>5, <1>10, <1>12 DEF FramingTypeOK
  <2>3. Shape'
    BY <2>1, <1>1, <1>2, <1>3, <1>5 DEF Shape, ChunkData
  <2>4. from' < job.total => PacketEnd' \in Nat \ {0}
    <3> SUFFICES ASSUME from' < job.total PROVE PacketEnd' \in Nat \ {0}
      OBVIOUS
    <3>1. job.chunked
      BY <2>1, <1>1, <1>2, <1>3, <1>5 DEF Shape, ChunkData
    <3>2. ChunkData' \in Nat \ {0}
      BY <3>1, <2>1, <1>1, <1>3, <1>5, SizesAssumption DEF ChunkData, Smaller
    <3>3. ChunkLength' \in Nat \ {0}
      BY <3>2, <1>1, <1>3 DEF ChunkLength
    <3> QED
      BY <3>1, <3>3, <2>1, <1>1, SizesAssumption DEF PacketEnd, Smaller
  <2>5. Position'
    BY <2>1, <2>4, <1>1, <1>2, <1>3, <1>5 DEF Position
  <2>6. Collected' /\ PanelFollows'
    BY <2>1, <1>1, <1>3, <1>5, <1>9 DEF Collected, PanelFollows
  <2>7. AckedAtTheEnd'
    BY <2>1, <1>1, <1>12, <1>13 DEF AckedAtTheEnd, Asks, IsLastChunk
  <2> QED
    BY <2>2, <2>3, <2>5, <2>6, <2>7 DEF IInv
<1>14. CASE ~EndsChunk
  <2>1. /\ from' = from /\ at' = PieceEnd
        /\ packet' = IF PieceEnd = PacketEnd THEN PieceEnd ELSE packet
        /\ PieceEnd < ChunkLength
    BY <1>14, <1>3, <1>4 DEF WritePiece, EndsChunk
  <2>2. ChunkData' = ChunkData /\ ChunkLength' = ChunkLength
    BY <2>1, <1>1 DEF ChunkData, ChunkLength
  <2>3. FramingTypeOK' /\ Shape'
    BY <2>1, <1>1, <1>2, <1>3, <1>4, <1>5, <1>8, <1>10, <1>12 DEF FramingTypeOK, Shape
  <2>4. PacketEnd' \in Nat /\ packet' <= at' /\ at' < PacketEnd'
    <3>1. CASE ~job.chunked
      BY <3>1, <2>1, <2>2, <1>1, <1>2, <1>3, <1>4, <1>5 DEF PacketEnd, Position
    <3>2. CASE job.chunked /\ PieceEnd = PacketEnd
      BY <3>2, <2>1, <2>2, <1>1, <1>3, <1>4, <1>5, SizesAssumption DEF PacketEnd, Smaller
    <3>3. CASE job.chunked /\ PieceEnd # PacketEnd
      BY <3>3, <2>1, <2>2, <1>1, <1>2, <1>3, <1>4, <1>5 DEF PacketEnd, Position
    <3> QED
      BY <3>1, <3>2, <3>3
  <2>5. Position'
    BY <2>1, <2>4, <1>1, <1>2, <1>3, <1>5 DEF Position
  <2>6. Collected' /\ PanelFollows'
    BY <2>1, <2>2, <1>1, <1>3, <1>4, <1>5, <1>8, <1>9 DEF Collected, PanelFollows
  <2>7. AckedAtTheEnd'
    BY <2>1, <1>1, <1>5, <1>12, <1>14, <1>3 DEF AckedAtTheEnd, Asks
  <2> QED
    BY <2>3, <2>5, <2>6, <2>7 DEF IInv
<1> QED
  BY <1>13, <1>14

LEMMA WrittenKeeps ==
  ASSUME IInv, Written
  PROVE  IInv'
<1>1. /\ job # NoJob /\ at = 0 /\ from = job.total /\ job' = NoJob /\ from' = 0 /\ acked' = 0
      /\ at' = 0 /\ packet' = 0 /\ need' = need /\ got' = got
  BY DEF Written, panelVars, IInv, Position
<1> QED
  BY <1>1 DEF IInv, FramingTypeOK, Shape, Position, Collected, PanelFollows, AckedAtTheEnd

LEMMA InvStep == IInv /\ [FramingNext]_framingVars => IInv'
<1> SUFFICES ASSUME IInv, [FramingNext]_framingVars PROVE IInv'
  OBVIOUS
<1>1. CASE WritePackets
  BY <1>1, BeginKeeps, SizesAssumption DEF WritePackets
<1>2. CASE Write
  BY <1>2, BeginKeeps, CommandsAssumption DEF Write
<1>3. CASE WritePiece
  BY <1>3, WritePieceKeeps
<1>4. CASE Written
  BY <1>4, WrittenKeeps
<1>5. CASE UNCHANGED framingVars
  BY <1>5 DEF framingVars, driverVars, panelVars, IInv, FramingTypeOK, Shape, Position, Collected,
              PanelFollows, AckedAtTheEnd, ChunkLength, ChunkData, PacketEnd
<1> QED
  BY <1>1, <1>2, <1>3, <1>4, <1>5 DEF FramingNext

LEMMA Inductive == FramingSpec => []IInv
BY InvInit, InvStep, PTL DEF FramingSpec

-----------------------------------------------------------------------------
(* Types: positions never run below zero, whatever the sizes. *)
THEOREM FramingTyping == FramingSpec => []FramingTypeOK
<1>1. IInv => FramingTypeOK
  BY DEF IInv
<1> QED
  BY <1>1, Inductive, PTL

(* The panel, which only sees writes, is always where the driver is in the    *)
(* chunk, and has all of the payload before each next chunk (ble.py:282).     *)
THEOREM PanelFollowsTheDriver == FramingSpec => []PanelFollows
<1>1. IInv => PanelFollows
  BY DEF IInv
<1> QED
  BY <1>1, Inductive, PTL

(* Exactly one acknowledgement is asked for, with the last write (ble.py:276). *)
THEOREM OneAckAtTheEnd == FramingSpec => []AckedAtTheEnd
<1>1. IInv => AckedAtTheEnd
  BY DEF IInv
<1> QED
  BY <1>1, Inductive, PTL
=============================================================================
