------------------------------ MODULE WireFormat ------------------------------
(***************************************************************************)
(* The bytes on the UART as a frame reader sees them: text, and frames of  *)
(* eight bytes and a payload (include/qos/telemetry.h), some cut short or  *)
(* corrupted.                                                              *)
(*                                                                         *)
(* A wire keeps which of its bytes are the two of the magic and, for every *)
(* offset where the magic stands, what the bytes after it say when they    *)
(* are read as a frame: the claim.  Nothing else about a byte is told      *)
(* apart.                                                                  *)
(***************************************************************************)
EXTENDS Integers, Sequences, FiniteSets

CONSTANTS HeaderV1Size,   \* 20, a version 1 header without placements
          HeaderV2Size,   \* 40, a header of the later versions
          PlacementSize,  \* 20
          RecordSize      \* 32

ASSUME SizesAssumption ==
  /\ HeaderV1Size \in Nat \ {0} /\ HeaderV2Size \in Nat \ {0}
  /\ PlacementSize \in Nat \ {0} /\ RecordSize \in Nat \ {0}

FrameOverhead == 8
HeaderType == 0
BatchType == 1

\* what the frame writer of the board puts into every frame
TelemetryVersion == 3

\* crc: the checksum of the payload is the one in the frame; placements: the
\* payload's placement count; seqs: the sequence numbers of a batch's records
Claim == [version : Nat, type : Nat, len : Nat, crc : BOOLEAN,
          placements : Nat, seqs : Seq(Nat)]

Magic(w, p) == p \in w.first /\ p + 1 \in w.second
End(w, p) == p + FrameOverhead + w.claim[p].len

\* a wire; sent are the offsets of the frames the board wrote and that arrived whole
WellFormed(w) ==
  /\ w.size \in Nat /\ w.first \subseteq Nat /\ w.sent \subseteq Nat
  /\ \A p \in w.first :
       Magic(w, p) => /\ w.claim[p] \in Claim
                      /\ Len(w.claim[p].seqs) = IF w.claim[p].type = BatchType
                                                  THEN w.claim[p].len \div RecordSize ELSE 0

\* versions and types a reader goes on with
AcceptedVersions == {1, 2}
KnownHead(c) == c.version \in AcceptedVersions /\ c.type \in {HeaderType, BatchType}

HeaderSize(version) == IF version = 1 THEN HeaderV1Size ELSE HeaderV2Size
Shaped(c) ==
  IF c.type = HeaderType
    THEN c.len = HeaderSize(c.version) + c.placements * PlacementSize
    ELSE c.len % RecordSize = 0

\* the whole of a frame is on the wire, its checksum holds and its length fits
Intact(w, p) ==
  /\ Magic(w, p)
  /\ End(w, p) <= w.size
  /\ w.claim[p].type \in {HeaderType, BatchType}
  /\ w.claim[p].crc
  /\ Shaped(w.claim[p])

Good(w, p) == Intact(w, p) /\ w.claim[p].version \in AcceptedVersions
Span(w, p) == p .. End(w, p) - 1
===============================================================================
