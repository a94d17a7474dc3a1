------------------------------- MODULE Framing -------------------------------
(***************************************************************************)
(* protocol/bytes_.py, build_chunked_packets() and its five headers, under  *)
(* transport/ble.py, write() and write_packets(): how a payload becomes     *)
(* chunks, packets and writes, and how the panel puts it together again.    *)
(*                                                                         *)
(* Bytes are counted, not carried.  An action is one write on the           *)
(* characteristic; the write lock keeps the writes of a job together        *)
(* (BleTransport), so there is one job at a time.                           *)
(*                                                                         *)
(* An operator defined just before another one with the same parameters,   *)
(* and not used, is a faulty variant of it that the properties detect.     *)
(***************************************************************************)
EXTENDS Integers

CONSTANTS NoJob,         \* nothing is being written
          Flat,          \* the commands that are written as they are
          Chunked,       \* the kinds of upload, each with the size of its header
          Totals,        \* payload sizes of uploads
          CHUNK_SIZE,    \* bytes_.CHUNK_SIZE_4096
          PACKET_SIZE,   \* bytes_.MTU_SIZE_IF_ENABLED
          ResponseSize,  \* ble._MAX_WRITE_WITH_RESPONSE
          WriteSizes     \* what the links allow for a write without response

Jobs == [command : Flat \cup Chunked, total : Nat, chunked : BOOLEAN, response : BOOLEAN, size : WriteSizes]

ASSUME SizesAssumption ==
  /\ CHUNK_SIZE \in Nat \ {0} /\ PACKET_SIZE \in Nat \ {0} /\ ResponseSize \in Nat \ {0}
  /\ WriteSizes \subseteq Nat \ {0} /\ Totals \subseteq Nat \ {0}
ASSUME CommandsAssumption ==
  /\ \A c \in Flat : c.length \in Nat \ {0} /\ c.header = 0
  /\ \A c \in Chunked : c.header \in Nat \ {0}
ASSUME NoJobAssumption == NoJob \notin Jobs

VARIABLES
  job,     \* what is being written
  from,    \* payload bytes of the chunks before this one
  at,      \* bytes of this chunk, header included, that are written
  packet,  \* where in the chunk the packet being written begins
  need,    \* panel: bytes missing of the chunk it is reading
  got,     \* panel: payload bytes of the upload up to the end of that chunk
  acked    \* GATT acknowledgements asked for in this job

driverVars == <<job, from, at, packet, acked>>
panelVars == <<need, got>>
framingVars == <<driverVars, panelVars>>

Smaller(m, n) == IF m < n THEN m ELSE n

(* chunk_by_size(), and the header in front of each chunk.                    *)
ChunkData == IF job.chunked THEN Smaller(CHUNK_SIZE, job.total - from) ELSE job.total
ChunkLength == job.command.header + ChunkData

(* What the first two bytes declare: the chunk's length with its header.      *)
Declared == IF job.chunked THEN ChunkLength ELSE job.command.declared

AlwaysFirst == TRUE
IsFirst == from = 0

FramingTypeOK ==
  /\ job \in Jobs \cup {NoJob}
  /\ from \in Nat /\ at \in Nat /\ packet \in Nat
  /\ need \in Int /\ got \in Nat /\ acked \in Nat

FramingInit ==
  /\ job = NoJob
  /\ from = 0 /\ at = 0 /\ packet = 0
  /\ need = 0 /\ got = 0 /\ acked = 0

Begin(c, total, chunked, response) ==
  /\ job = NoJob
  /\ \E size \in WriteSizes :
       job' = [command |-> c, total |-> total, chunked |-> chunked, response |-> response, size |-> size]
  /\ from' = 0 /\ at' = 0 /\ packet' = 0 /\ acked' = 0
  /\ UNCHANGED panelVars

(* write_packets(): the builders of uploads refuse an empty payload, or build  *)
(* no chunk of it.                                                            *)
WritePackets == \E c \in Chunked, total \in Totals, response \in BOOLEAN : Begin(c, total, TRUE, response)
Write == \E c \in Flat, response \in BOOLEAN : Begin(c, c.length, FALSE, response)

-----------------------------------------------------------------------------
(* One write *)

(* _resolve_write_size(): write() asks for the size of a write with response, *)
(* write_packets() never does.                                                *)
PieceSize == IF ~job.chunked /\ job.response THEN ResponseSize ELSE job.size

PacketEnd == IF job.chunked THEN Smaller(packet + PACKET_SIZE, ChunkLength) ELSE ChunkLength
PieceEnd == Smaller(at + PieceSize, PacketEnd)

IsLastChunk == from + ChunkData = job.total
EndsChunk == PieceEnd = ChunkLength

AsksPerChunk == job.response /\ EndsChunk
Asks == job.response /\ EndsChunk /\ IsLastChunk

(* The panel: a chunk's first bytes say how long it is, its marker whether it  *)
(* begins an upload; then it reads until the chunk is complete.  It knows how  *)
(* long a flat command is.                                                    *)
PanelReads ==
  IF need = 0
  THEN /\ need' = (IF job.chunked THEN Declared ELSE job.total) - PieceEnd
       /\ got' = IF job.chunked THEN (IF IsFirst THEN 0 ELSE got) + Declared - job.command.header ELSE got
  ELSE /\ need' = need - (PieceEnd - at)
       /\ UNCHANGED got

WritePiece ==
  /\ job # NoJob /\ from < job.total
  /\ PanelReads
  /\ acked' = IF Asks THEN acked + 1 ELSE acked
  /\ from' = IF EndsChunk THEN from + ChunkData ELSE from
  /\ at' = IF EndsChunk THEN 0 ELSE PieceEnd
  /\ packet' = IF EndsChunk THEN 0 ELSE IF PieceEnd = PacketEnd THEN PieceEnd ELSE packet
  /\ UNCHANGED job

(* The write lock is released. *)
Written ==
  /\ job # NoJob /\ at = 0 /\ from = job.total
  /\ job' = NoJob /\ from' = 0 /\ acked' = 0
  /\ UNCHANGED <<at, packet, panelVars>>

FramingNext == WritePackets \/ Write \/ WritePiece \/ Written
FramingSpec == FramingInit /\ [][FramingNext]_framingVars

-----------------------------------------------------------------------------
(* Properties *)

(* ble.py:282, "the device reassembles by the length header in each chunk":   *)
(* wherever the writes are cut, the panel finds each chunk where it begins,   *)
(* and has the whole payload, once, when the last one is in.                  *)
PanelFollows ==
  /\ need = IF job = NoJob \/ at = 0 THEN 0 ELSE ChunkLength - at
  /\ job # NoJob /\ job.chunked /\ at = 0 /\ from > 0 => got = from

(* ble.py:276: only the very last write of a job is acknowledged, and it is    *)
(* when that was asked for.                                                   *)
AckedAtTheEnd ==
  job # NoJob => acked = IF job.response /\ from = job.total THEN 1 ELSE 0

-----------------------------------------------------------------------------
(* What the repository says, and this code does not do *)

(* ble.py:445-446, "The largest write we may send. [...] no-response writes    *)
(* use the override, else the characteristic's reported size": a write that   *)
(* asks for no response is within what the link allows for one.  write() with *)
(* response cuts all its pieces for a write with response, also those that go *)
(* without (ble.py:269-273).                                                  *)
NoResponseWritesFit == job # NoJob /\ from < job.total /\ ~Asks => PieceEnd - at <= job.size
=============================================================================
