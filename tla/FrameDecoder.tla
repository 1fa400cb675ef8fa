----------------------------- MODULE FrameDecoder -----------------------------
(***************************************************************************)
(* TelemetryState of crates/laxity-tui/src/telemetry.rs: the parser that   *)
(* the viewer and the characterisation feed with whatever a read returned. *)
(* One call of parse is a run of steps, one for each turn of its loop,     *)
(* between Feed or Finish and the step that returns.                       *)
(*                                                                         *)
(* Offsets count from the beginning of the stream.  The bytes pending are  *)
(* those from pos to received, so draining them when a call returns and    *)
(* extending them when the next one begins need no state.                  *)
(***************************************************************************)
EXTENDS WireFormat, SequencesExt

CONSTANT Wires  \* the streams considered

ASSUME WiresAssumption == \A w \in Wires : WellFormed(w)

\* a frame the board wrote and that arrived whole is intact, and no checksum
\* matches by accident on a claim that reaches over its beginning
ASSUME ChecksumAssumption ==
  \A w \in Wires : \A s \in w.sent :
    /\ Intact(w, s)
    /\ \A p \in w.first : (Good(w, p) /\ p < s) => End(w, p) <= s

VARIABLES
  wire,           \* the stream, of which the reader has seen the first
  received,       \*   this many bytes
  eof,            \* finish has been called
  pc, pos,        \* inside parse or not, and the first byte not consumed
  taken, text,    \* offsets of the frames accepted and of the bytes skipped
  falseSync, crcRejections,            \* stats
  seenHeader, beforeHeader,
  expectSeq, gaps, records             \* expect_seq, with None as NoSeq

vars == <<wire, received, eof, pc, pos, taken, text, falseSync, crcRejections,
          seenHeader, beforeHeader, expectSeq, gaps, records>>
scan == <<pos, taken, text>>
stats == <<falseSync, crcRejections>>
content == <<seenHeader, beforeHeader, expectSeq, gaps, records>>

NoSeq == -1

Init ==
  /\ wire \in Wires
  /\ received = 0 /\ eof = FALSE
  /\ pc = "idle" /\ pos = 0
  /\ taken = <<>> /\ text = {}
  /\ falseSync = 0 /\ crcRejections = 0
  /\ seenHeader = FALSE /\ beforeHeader = 0
  /\ expectSeq = NoSeq /\ gaps = 0 /\ records = <<>>

-----------------------------------------------------------------------------
(* feed and finish *)

Feed ==
  /\ pc = "idle" /\ ~eof
  /\ \E n \in 1 .. wire.size - received : received' = received + n
  /\ pc' = "parse"
  /\ UNCHANGED <<wire, eof, scan, stats, content>>

Finish ==
  /\ pc = "idle" /\ ~eof /\ received = wire.size
  /\ eof' = TRUE
  /\ pc' = "parse"
  /\ UNCHANGED <<wire, received, scan, stats, content>>

-----------------------------------------------------------------------------
(* the turns of the loop *)

Remaining == received - pos
Parsing == pc = "parse" /\ pos < received
Short == Parsing /\ Remaining < FrameOverhead

\* mutant: both bytes of the magic are expected in one read
CouldBeFrameWhole ==
  pos \in wire.first /\ Remaining > 1 /\ pos + 1 \in wire.second

\* could_be_frame: what is left may be the beginning of a frame
CouldBeFrame ==
  pos \in wire.first /\ (Remaining = 1 \/ pos + 1 \in wire.second)

Return ==
  /\ pc' = "idle"
  /\ UNCHANGED <<wire, received, eof, scan, stats, content>>

SkipByte ==
  /\ text' = text \cup {pos}
  /\ pos' = pos + 1
  /\ UNCHANGED <<wire, received, eof, pc, taken, content>>

RejectCandidate == SkipByte /\ falseSync' = falseSync + 1

Done == pc = "parse" /\ pos >= received /\ Return

\* mutant: the tail is consumed and not passed on
SkipTailLost ==
  /\ Short /\ eof
  /\ pos' = received
  /\ UNCHANGED <<wire, received, eof, pc, taken, text, stats, content>>

SkipTail ==
  /\ Short /\ eof
  /\ text' = text \cup (pos .. received - 1)
  /\ pos' = received
  /\ UNCHANGED <<wire, received, eof, pc, taken, stats, content>>

HoldPrefix == Short /\ ~eof /\ CouldBeFrame /\ Return

SkipShort == Short /\ ~eof /\ ~CouldBeFrame /\ SkipByte /\ UNCHANGED stats

Candidate == Parsing /\ Remaining >= FrameOverhead /\ Magic(wire, pos)
claim == wire.claim[pos]
Complete == End(wire, pos) <= received

SkipPlain ==
  /\ Parsing /\ Remaining >= FrameOverhead /\ ~Magic(wire, pos)
  /\ SkipByte
  /\ UNCHANGED stats

RejectHead ==
  /\ Candidate /\ ~KnownHead(claim)
  /\ RejectCandidate
  /\ UNCHANGED crcRejections

HoldBody == Candidate /\ KnownHead(claim) /\ ~Complete /\ ~eof /\ Return

\* mutant: a claim that is not complete is rejected at any time
RejectCutEarly ==
  /\ Candidate /\ KnownHead(claim) /\ ~Complete
  /\ RejectCandidate
  /\ UNCHANGED crcRejections

\* a claim the stream ends inside is rejected too, with no checksum to count
RejectCut ==
  /\ Candidate /\ KnownHead(claim) /\ ~Complete /\ eof
  /\ RejectCandidate
  /\ UNCHANGED crcRejections

\* mutant: a frame with a bad checksum is passed over by the length it claims
RejectCrcWhole ==
  /\ Candidate /\ KnownHead(claim) /\ Complete /\ ~claim.crc
  /\ text' = text \cup Span(wire, pos)
  /\ pos' = End(wire, pos)
  /\ falseSync' = falseSync + 1
  /\ crcRejections' = crcRejections + 1
  /\ UNCHANGED <<wire, received, eof, pc, taken, content>>

RejectCrc ==
  /\ Candidate /\ KnownHead(claim) /\ Complete /\ ~claim.crc
  /\ RejectCandidate
  /\ crcRejections' = crcRejections + 1

Valid == Candidate /\ KnownHead(claim) /\ Complete /\ claim.crc

RejectShape ==
  /\ Valid /\ ~Shaped(claim)
  /\ RejectCandidate
  /\ UNCHANGED crcRejections

AcceptFrame ==
  /\ taken' = Append(taken, pos)
  /\ pos' = End(wire, pos)
  /\ UNCHANGED <<wire, received, eof, pc, text, stats>>

AcceptHeader ==
  /\ Valid /\ claim.type = HeaderType /\ Shaped(claim)
  /\ AcceptFrame
  /\ seenHeader' = TRUE
  /\ UNCHANGED <<beforeHeader, expectSeq, gaps, records>>

Seqs == claim.seqs

\* the records of a batch no header has announced are counted and dropped
DropBatch ==
  /\ Valid /\ claim.type = BatchType /\ Shaped(claim) /\ ~seenHeader
  /\ AcceptFrame
  /\ beforeHeader' = beforeHeader + Len(Seqs)
  /\ UNCHANGED <<seenHeader, expectSeq, gaps, records>>

\* the number the i-th record of a batch should carry
Expected(i) == IF i = 1 THEN expectSeq ELSE Seqs[i - 1] + 1

\* mutant: the sequence is not carried from one batch to the next
JumpsInside == {i \in 2 .. Len(Seqs) : Seqs[i] # Expected(i)}
\* the records of a batch before which the sequence jumps
Jumps == {i \in 1 .. Len(Seqs) : Expected(i) # NoSeq /\ Seqs[i] # Expected(i)}

AcceptBatch ==
  /\ Valid /\ claim.type = BatchType /\ Shaped(claim) /\ seenHeader
  /\ AcceptFrame
  /\ records' = records \o Seqs
  /\ gaps' = gaps + Cardinality(Jumps)
  /\ expectSeq' = IF Seqs = <<>> THEN expectSeq ELSE Seqs[Len(Seqs)] + 1
  /\ UNCHANGED <<seenHeader, beforeHeader>>

-----------------------------------------------------------------------------
Parse ==
  \/ Done \/ SkipTail \/ HoldPrefix \/ SkipShort \/ SkipPlain
  \/ RejectHead \/ HoldBody \/ RejectCut \/ RejectCrc \/ RejectShape
  \/ AcceptHeader \/ DropBatch \/ AcceptBatch

Next == Feed \/ Finish \/ Parse

Spec == Init /\ [][Next]_vars
-----------------------------------------------------------------------------
TypeOK ==
  /\ WellFormed(wire)
  /\ received \in 0 .. wire.size
  /\ eof \in BOOLEAN
  /\ pc \in {"idle", "parse"}
  /\ pos \in 0 .. received
  /\ taken \in Seq(Nat)
  /\ text \subseteq Nat
  /\ falseSync \in Nat /\ crcRejections \in Nat
  /\ seenHeader \in BOOLEAN /\ beforeHeader \in Nat
  /\ expectSeq \in Nat \cup {NoSeq} /\ gaps \in Nat
  /\ records \in Seq(Nat)

TakenSet == {taken[i] : i \in 1 .. Len(taken)}

\* Every byte behind the read position went exactly one way: into the text or
\* into one accepted frame.  A byte is never shown to the operator as text and
\* decoded as well, and none vanishes between two reads (telemetry.rs:186).
EveryByteOnce ==
  /\ 0 .. pos - 1 = text \cup UNION {Span(wire, p) : p \in TakenSet}
  /\ \A p \in TakenSet : Span(wire, p) \cap text = {}
  /\ \A p, q \in TakenSet : p # q => Span(wire, p) \cap Span(wire, q) = {}

Heads == {p \in text : Magic(wire, p) /\ p + FrameOverhead <= received}
BadSums == {p \in Heads : /\ KnownHead(wire.claim[p])
                          /\ End(wire, p) <= received
                          /\ ~wire.claim[p].crc}

\* The counters the operator judges a line by depend on the stream and not on
\* where the reads were cut: a rejected magic is one that had a whole frame
\* head behind it, a checksum rejection one whose payload was complete
\* (telemetry.rs:148-168 and the test at 436).
CountsAreOfTheStream ==
  falseSync = Cardinality(Heads) /\ crcRejections = Cardinality(BadSums)

\* Between two reads, a frame the board wrote and the reader has received whole
\* has been accepted, unless a magic in front of it claims a payload that has
\* not arrived yet.  After the end of the stream there is no such excuse.
IntactFrameIsTaken ==
  (pc = "idle") =>
    \A s \in wire.sent :
      (wire.claim[s].version \in AcceptedVersions /\ End(wire, s) <= received) =>
        \/ s \in TakenSet
        \/ ~eof /\ pos < s /\ Magic(wire, pos) /\ End(wire, pos) > received

\* The frames from the first accepted header on, those before it, and the sequence numbers
\* of the records in some frames.
FirstHeader == SelectInSeq(taken, LAMBDA p : wire.claim[p].type = HeaderType)
Behind == IF FirstHeader = 0 THEN <<>> ELSE SubSeq(taken, FirstHeader, Len(taken))
Before == IF FirstHeader = 0 THEN taken ELSE SubSeq(taken, 1, FirstHeader - 1)
SeqsOf(frames) == FlattenSeq([i \in 1 .. Len(frames) |-> wire.claim[frames[i]].seqs])

\* The records handed on are those of the accepted batches behind the first
\* accepted header, in order and each once, the others are counted, and the gaps
\* are the places where two neighbours among them are not consecutive
\* (telemetry.rs:254-294).
RecordsOfTheBatches ==
  /\ records = SeqsOf(Behind)
  /\ beforeHeader = Len(SeqsOf(Before))
  /\ gaps = Cardinality({i \in 1 .. Len(records) - 1 : records[i + 1] # records[i] + 1})

\* The reader implements the scan of the whole stream: cutting the stream into
\* reads changes nothing about which frames are accepted.
Scan == INSTANCE FrameScan
ImplementsScan == Scan!Spec

\* telemetry.h:3 promises that a new version comes with a matching change of the
\* reader: at the end of a stream every frame the board wrote is accepted.
BoardFramesAreTaken ==
  (pc = "idle" /\ eof) =>
    \A s \in wire.sent : wire.claim[s].version = TelemetryVersion => s \in TakenSet
-----------------------------------------------------------------------------
(* The invariant behind the properties: what a parse that has returned is    *)
(* waiting for, and that nothing was skipped before it could be judged.      *)

ReadInv ==
  /\ wire \in Wires
  /\ eof => received = wire.size
  /\ \A p \in TakenSet : Good(wire, p) /\ End(wire, p) <= pos
  /\ \A p \in text : p < pos

WaitInv ==
  pc = "idle" =>
    \/ pos = received
    \/ ~eof /\ Remaining < FrameOverhead
    \/ ~eof /\ Magic(wire, pos) /\ End(wire, pos) > received

\* until the end of the stream a magic is only skipped with its head read, and a
\* head a reader goes on with only with its payload read
JudgedInv ==
  ~eof => \A p \in text : Magic(wire, p) =>
            /\ p + FrameOverhead <= received
            /\ KnownHead(wire.claim[p]) => End(wire, p) <= received

SentInv ==
  \A s \in wire.sent :
    (s < pos /\ wire.claim[s].version \in AcceptedVersions) => s \in TakenSet

\* the number the next record should carry is that after the last one handed on
ContentInv ==
  /\ seenHeader <=> FirstHeader # 0
  /\ expectSeq = IF records = <<>> THEN NoSeq ELSE records[Len(records)] + 1
  /\ RecordsOfTheBatches

DecoderInv == TypeOK /\ ReadInv /\ WaitInv /\ JudgedInv /\ SentInv
===============================================================================
