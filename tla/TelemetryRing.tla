---------------------------- MODULE TelemetryRing ----------------------------
(***************************************************************************)
(* The telemetry ring of runtime/telemetry.c: one producer, one consumer,  *)
(* free running indices in machine words, a sequence number that advances  *)
(* on refused records too, and a drain that puts a header frame in front   *)
(* of every batch.                                                         *)
(*                                                                         *)
(* Each C11 atomic access and each slot copy of push and drain is a step   *)
(* of its own, so the two sides interleave at every point the code leaves  *)
(* open.  The accesses are interleaved in program order: the release store *)
(* of an index orders everything the same side did before it, the acquire  *)
(* load orders everything after it, and a relaxed access of the other      *)
(* side's counter only ever moves between those two.  A side's relaxed     *)
(* load of its own index is the index itself.                              *)
(*                                                                         *)
(* A record body is the number of the push that carried it, counted from   *)
(* the last reset, which no two records share.                             *)
(***************************************************************************)
EXTENDS Integers, Sequences, FiniteSets

CONSTANTS Capacity,    \* QOS_RING_CAP, 32
          Modulus,     \* 2^32, the width of the indices and the counters
          Placements,  \* entries in the placement table of the header frame
          BufBytes,    \* size of the buffer the exporter drains into
          MaxPush      \* bound of the model on the pushes after one reset

ASSUME CapacityAssumption == Capacity \in Nat \ {0}
\* the index wrap is a mask, so the capacity divides the word and is smaller
ASSUME ModulusAssumption == \E k \in 2 .. Modulus : Modulus = Capacity * k
ASSUME ModulusIsNat == Modulus \in Nat
ASSUME BufferAssumption == Placements \in 0 .. 255 /\ BufBytes \in Nat
ASSUME BoundAssumption == MaxPush \in Nat

VARIABLES
  ring,       \* s_ring
  head, tail, \* s_head and s_tail
  seqNext,    \* s_seq_next
  dropped,    \* s_dropped
  released,   \* the exporter thread has been released
  \* the producer inside qos_telemetry_push: its step, the tail it loaded and
  \* the sequence number it claimed
  ppc, pTail, pSeq,
  \* the consumer inside qos_telemetry_drain: its step, the head it loaded,
  \* the two counters it put into the header frame and the records it copied
  cpc, cHead, cSeqNext, cDropped, cBatch,
  \* history: pushes claimed, accepted pushes in order, refused pushes, and
  \* the records of every batch that drain has returned
  pushed, log, lost, out

shared == <<ring, head, tail, seqNext, dropped>>
prod   == <<ppc, pTail, pSeq>>
cons   == <<cpc, cHead, cSeqNext, cDropped, cBatch>>
hist   == <<pushed, log, lost, out>>
vars   == <<shared, released, prod, cons, hist>>

-----------------------------------------------------------------------------
(* Words, slots and the drain buffer.                                      *)

Word == 0 .. Modulus - 1
Wrap(i) == i % Modulus
Occupancy(h, t) == Wrap(h - t)
Slot(i) == i % Capacity

FrameOverhead == 8
RecordSize    == 32
HeaderLen     == 40 + 20 * Placements

\* mutant: drain insists on room for every record the ring may hold
MinimumWhole == FrameOverhead + HeaderLen + FrameOverhead + Capacity * RecordSize
\* the smallest buffer drain accepts, and the records a batch frame has room for
Minimum == FrameOverhead + HeaderLen + FrameOverhead + RecordSize
Room == (BufBytes - (FrameOverhead + HeaderLen) - FrameOverhead) \div RecordSize

\* a record as the caller hands it over: the seq field is not the caller's to set
CallerSeq == 0
Record == [body : Nat, seq : Word]
Sent(n) == [body |-> n, seq |-> Wrap(n)]

\* mutant: a push that finds exactly Capacity records still writes
FullLate == Occupancy(head, pTail) > Capacity
Full == Occupancy(head, pTail) >= Capacity
Target == Slot(head)            \* the slot the producer writes
Available == Occupancy(cHead, tail)
BatchSize == IF Available > Room THEN Room ELSE Available
\* mutant: the copy loop starts one slot late
SourceLate == Slot(Wrap(tail + 1 + Len(cBatch)))
Source == Slot(Wrap(tail + Len(cBatch)))   \* the slot the consumer copies next

-----------------------------------------------------------------------------
Init ==
  /\ ring = [i \in 0 .. Capacity - 1 |-> [body |-> 0, seq |-> 0]]
  /\ head = 0 /\ tail = 0 /\ seqNext = 0 /\ dropped = 0
  /\ released = FALSE
  /\ ppc = "idle" /\ pTail = 0 /\ pSeq = 0
  /\ cpc = "idle" /\ cHead = 0 /\ cSeqNext = 0 /\ cDropped = 0 /\ cBatch = <<>>
  /\ pushed = 0 /\ log = <<>> /\ lost = {} /\ out = <<>>

\* qos_telemetry_reset, which the producer may call while no consumer can drain
Reset ==
  /\ ~released /\ ppc = "idle"
  /\ head' = 0 /\ tail' = 0 /\ seqNext' = 0 /\ dropped' = 0
  /\ pushed' = 0 /\ log' = <<>> /\ lost' = {} /\ out' = <<>>
  /\ UNCHANGED <<ring, released, prod, cons>>

\* the boot sequence lets the exporter thread run
Release ==
  /\ ~released /\ ppc = "idle"
  /\ released' = TRUE
  /\ UNCHANGED <<shared, prod, cons, hist>>

-----------------------------------------------------------------------------
(* qos_telemetry_push                                                      *)

PushLoad ==
  /\ ppc = "idle" /\ pushed < MaxPush
  /\ pTail' = tail
  /\ ppc' = "claim"
  /\ UNCHANGED <<shared, released, pSeq, cons, hist>>

\* mutant: a refused record takes no sequence number
PushClaimAccepted ==
  /\ ppc = "claim"
  /\ pSeq' = seqNext
  /\ seqNext' = IF Full THEN seqNext ELSE Wrap(seqNext + 1)
  /\ pushed' = pushed + 1
  /\ ppc' = IF Full THEN "drop" ELSE "body"
  /\ UNCHANGED <<ring, head, tail, dropped, released, pTail, cons, log, lost, out>>

\* the sequence number is taken before the full test, so a refused record has one
PushClaim ==
  /\ ppc = "claim"
  /\ pSeq' = seqNext
  /\ seqNext' = Wrap(seqNext + 1)
  /\ pushed' = pushed + 1
  /\ ppc' = IF Full THEN "drop" ELSE "body"
  /\ UNCHANGED <<ring, head, tail, dropped, released, pTail, cons, log, lost, out>>

PushDrop ==
  /\ ppc = "drop"
  /\ dropped' = Wrap(dropped + 1)
  /\ lost' = lost \cup {pushed - 1}
  /\ ppc' = "idle"
  /\ UNCHANGED <<ring, head, tail, seqNext, released, pTail, pSeq, cons, pushed, log, out>>

PushBody ==
  /\ ppc = "body"
  /\ ring' = [ring EXCEPT ![Target] = [body |-> pushed - 1, seq |-> CallerSeq]]
  /\ ppc' = "seq"
  /\ UNCHANGED <<head, tail, seqNext, dropped, released, pTail, pSeq, cons, hist>>

PushSeq ==
  /\ ppc = "seq"
  /\ ring' = [ring EXCEPT ![Target].seq = pSeq]
  /\ ppc' = "publish"
  /\ UNCHANGED <<head, tail, seqNext, dropped, released, pTail, pSeq, cons, hist>>

PushPublish ==
  /\ ppc = "publish"
  /\ head' = Wrap(head + 1)
  /\ log' = Append(log, pushed - 1)
  /\ ppc' = "idle"
  /\ UNCHANGED <<ring, tail, seqNext, dropped, released, pTail, pSeq, cons, pushed, lost, out>>

-----------------------------------------------------------------------------
(* qos_telemetry_drain                                                     *)

\* an empty ring or a buffer below the minimum returns 0 and changes nothing
DrainLoad ==
  /\ released /\ cpc = "idle"
  /\ BufBytes >= Minimum
  /\ head # tail
  /\ cHead' = head
  /\ cBatch' = <<>>
  /\ cpc' = "header"
  /\ UNCHANGED <<shared, released, prod, cSeqNext, cDropped, hist>>

DrainHeader ==
  /\ cpc = "header"
  /\ cSeqNext' = seqNext
  /\ cpc' = "drops"
  /\ UNCHANGED <<shared, released, prod, cHead, cDropped, cBatch, hist>>

\* mutant: the header frame is sent with the drop count of an earlier batch
DrainDropsStale ==
  /\ cpc = "drops"
  /\ cpc' = "copy"
  /\ UNCHANGED <<shared, released, prod, cHead, cSeqNext, cDropped, cBatch, hist>>

DrainDrops ==
  /\ cpc = "drops"
  /\ cDropped' = dropped
  /\ cpc' = "copy"
  /\ UNCHANGED <<shared, released, prod, cHead, cSeqNext, cBatch, hist>>

DrainCopy ==
  /\ cpc = "copy" /\ Len(cBatch) < BatchSize
  /\ cBatch' = Append(cBatch, ring[Source])
  /\ UNCHANGED <<shared, released, prod, cpc, cHead, cSeqNext, cDropped, hist>>

\* the slots go back to the producer only after every one of them is copied
DrainRelease ==
  /\ cpc = "copy" /\ Len(cBatch) >= BatchSize
  /\ tail' = Wrap(tail + BatchSize)
  /\ out' = out \o cBatch
  /\ cpc' = "idle"
  /\ UNCHANGED <<ring, head, seqNext, dropped, released, prod, cHead, cSeqNext, cDropped, cBatch, pushed, log, lost>>

-----------------------------------------------------------------------------
Push == PushLoad \/ PushClaim \/ PushDrop \/ PushBody \/ PushSeq \/ PushPublish
Drain == DrainLoad \/ DrainHeader \/ DrainDrops \/ DrainCopy \/ DrainRelease

Next == Reset \/ Release \/ Push \/ Drain

Spec == Init /\ [][Next]_vars

\* the exporter thread sleeps one tick between drains and is scheduled again as
\* the measurement thread sleeps in every iteration
FairSpec == Spec /\ WF_vars(Drain)

-----------------------------------------------------------------------------
TypeOK ==
  /\ ring \in [0 .. Capacity - 1 -> Record]
  /\ head \in Word /\ tail \in Word /\ seqNext \in Word /\ dropped \in Word
  /\ released \in BOOLEAN
  /\ ppc \in {"idle", "claim", "drop", "body", "seq", "publish"}
  /\ pTail \in Word /\ pSeq \in Word
  /\ cpc \in {"idle", "header", "drops", "copy"}
  /\ cHead \in Word /\ cSeqNext \in Word /\ cDropped \in Word
  /\ cBatch \in Seq(Record)
  /\ pushed \in Nat
  /\ log \in Seq(Nat)
  /\ lost \in SUBSET Nat
  /\ out \in Seq(Record)

\* While the consumer holds a batch open, the slot the producer is writing is
\* never one of the slots of that batch, copied or not yet: the tail is stored
\* only after the copies, so a record cannot change under the reader
\* (telemetry.c:189).
NoSlotConflict ==
  (ppc \in {"body", "seq", "publish"} /\ cpc # "idle") =>
    \A i \in 0 .. Available - 1 : Slot(Wrap(tail + i)) # Target

\* Everything drain has returned is exactly the oldest accepted records, in the
\* order they were pushed, each once, each with the body and the sequence number
\* of one push and never a mixture of two.
DeliveredIsPrefix ==
  /\ Len(out) <= Len(log)
  /\ \A i \in 1 .. Len(out) : out[i] = Sent(log[i])

\* A gap in the sequence numbers a reader sees is as wide as the number of
\* records refused between its two records, and no other gap exists, also where
\* the numbers wrap (telemetry.c:122).
GapsAreDrops ==
  \A i \in 1 .. Len(out) - 1 :
    Wrap(out[i+1].seq - out[i].seq - 1)
      = Wrap(Cardinality({n \in lost : out[i].body < n /\ n < out[i+1].body}))

\* The header frame in front of a batch already accounts for every record of the
\* batch and for every drop before the last of them, so a reader that trusts the
\* header never sees more gaps than the header counts.  Stated for the pushes
\* before the counters wrap, where the words can be compared.  The two counters
\* are two loads and no snapshot: cSeqNext - cDropped may be below the records
\* delivered.
HeaderCoversBatch ==
  (cpc = "copy" /\ cBatch # <<>> /\ pushed < Modulus) =>
    LET last == cBatch[Len(cBatch)].seq
        seen == Len(out) + Len(cBatch)
    IN  /\ cSeqNext > last
        /\ cDropped >= last + 1 - seen

\* A record that was accepted is eventually in a batch that drain returned, as
\* long as the buffer can hold a header frame and one record.
AcceptedIsDelivered ==
  \A n \in 1 .. MaxPush : (released /\ Len(log) >= n) ~> (Len(out) >= n)

-----------------------------------------------------------------------------
(* The ring implements the log.  A push that found the ring full is refused *)
(* at the instant it loaded the tail, and an accepted one is accepted when  *)
(* its index is published.                                                  *)

Offered ==
  IF ppc \in {"body", "seq", "publish"} THEN pushed - 1
  ELSE IF ppc = "claim" /\ Full THEN pushed + 1
  ELSE pushed

Log == INSTANCE BestEffortLog
         WITH Batch <- Room, offered <- Offered, accepted <- log, delivered <- Len(out)

\* The ring drops only when Capacity records are undelivered at the moment the
\* push looks, and delivers in order and once.
ImplementsLog == Log!Spec
-----------------------------------------------------------------------------
(* The inductive invariant behind the safety properties.  It ties the words *)
(* to the positions they stand for: the head is the number of accepted      *)
(* records, the tail the number returned, modulo the word.                  *)

InFlight == IF ppc \in {"drop", "body", "seq", "publish"} THEN {pushed - 1} ELSE {}

PushedInv == InFlight # {} => pushed > 0

IndexInv ==
  /\ head = Wrap(Len(log))
  /\ tail = Wrap(Len(out))
  /\ seqNext = Wrap(pushed)
  /\ Len(out) <= Len(log)
  /\ Len(log) <= Len(out) + Capacity

\* the slots between tail and head hold the accepted records not yet returned
ContentInv ==
  \A k \in Len(out) + 1 .. Len(log) : ring[Slot(k - 1)] = Sent(log[k])

OutInv == \A i \in 1 .. Len(out) : out[i] = Sent(log[i])

\* the tail a push loaded may be old, which can only make the ring look fuller
ProducerInv ==
  /\ ppc = "claim" =>
       \E t \in 0 .. Len(out) : pTail = Wrap(t) /\ Len(log) <= t + Capacity
  /\ ppc \in {"body", "seq", "publish"} =>
       Len(log) < Len(out) + Capacity /\ pSeq = Wrap(pushed - 1)
  /\ ppc = "seq" => ring[Target].body = pushed - 1
  /\ ppc = "publish" => ring[Target] = Sent(pushed - 1)

\* the head a drain loaded may be old, which can only make the ring look emptier
ConsumerInv ==
  cpc # "idle" =>
    /\ released
    /\ BufBytes >= Minimum
    /\ \E h \in Len(out) + 1 .. Len(log) : cHead = Wrap(h)
    /\ Len(cBatch) <= BatchSize
    /\ \A i \in 1 .. Len(cBatch) : cBatch[i] = Sent(log[Len(out) + i])

\* every claimed number is in flight, refused or accepted, and only one of them
LogInv ==
  /\ \A i, j \in 1 .. Len(log) : i < j => log[i] < log[j]
  /\ \A n \in 0 .. pushed - 1 :
       n \in InFlight \/ n \in lost \/ \E k \in 1 .. Len(log) : log[k] = n
  /\ \A n \in lost : n < pushed /\ n \notin InFlight
  /\ \A k \in 1 .. Len(log) :
       log[k] < pushed /\ log[k] \notin InFlight /\ log[k] \notin lost

IInv ==
  TypeOK /\ PushedInv /\ IndexInv /\ ContentInv /\ OutInv /\ ProducerInv /\ ConsumerInv
=============================================================================
