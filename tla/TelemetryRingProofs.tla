------------------------- MODULE TelemetryRingProofs -------------------------
(***************************************************************************)
(* Proofs about TelemetryRing for every capacity, word width and buffer.   *)
(***************************************************************************)
EXTENDS TelemetryRing, DataLemmas, FiniteSetTheorems

-----------------------------------------------------------------------------
(* Constants, words and slots.                                             *)

\* The ring is not empty and a word counts further than the ring holds.
LEMMA Sizes ==
  /\ Capacity \in Nat \ {0}
  /\ Modulus \in Nat \ {0}
  /\ Capacity < Modulus
  /\ \E k \in Nat \ {0} : Modulus = Capacity * k
<1>1. PICK k \in 2 .. Modulus : Modulus = Capacity * k
  BY ModulusAssumption
<1>2. Modulus \in Nat /\ Capacity \in Nat \ {0} /\ k \in Nat /\ k >= 2
  BY ModulusIsNat, CapacityAssumption
<1>3. Capacity * k >= Capacity * 2
  BY <1>2, SMT
<1> QED BY <1>1, <1>2, <1>3, SMT

\* Masking an index with the word width gives a word.
LEMMA WrapWord == ASSUME NEW a \in Int PROVE Wrap(a) \in Word /\ Wrap(a) \in Nat
  BY Sizes, ModDiv DEF Wrap, Word

\* Masking with the ring size gives a slot of the ring.
LEMMA SlotRange == ASSUME NEW a \in Int PROVE Slot(a) \in 0 .. Capacity - 1
  BY Sizes, ModDiv DEF Slot

\* Advancing a word is advancing the position it stands for (head + 1u, tail + n).
LEMMA WrapPlus ==
  ASSUME NEW a \in Int, NEW b \in Int PROVE Wrap(Wrap(a) + b) = Wrap(a + b)
  BY Sizes, ModPlus DEF Wrap

\* The slot of a word is the slot of its position, whatever the word wrapped.
LEMMA SlotWrap == ASSUME NEW a \in Int PROVE Slot(Wrap(a)) = Slot(a)
<1>1. PICK k \in Nat \ {0} : Modulus = Capacity * k
  BY Sizes
<1>2. (a % (Capacity * k)) % Capacity = a % Capacity
  BY Sizes, ModOfMultiple
<1> QED BY <1>1, <1>2 DEF Slot, Wrap

\* The unsigned head - tail is the number of records between the positions.
LEMMA OccupancyDistance ==
  ASSUME NEW a \in Int, NEW b \in Int, a - b \in 0 .. Capacity
  PROVE  Occupancy(Wrap(a), Wrap(b)) = a - b
<1>1. a - b \in 0 .. Modulus - 1
  BY Sizes
<1>2. ((a % Modulus) - (b % Modulus)) % Modulus = a - b
  BY <1>1, Sizes, ModDistance
<1> QED BY <1>2 DEF Occupancy, Wrap

\* Two positions of one ring length share a slot only if they are one position.
LEMMA SlotDistinct ==
  ASSUME NEW a \in Int, NEW b \in Int, a - b \in 1 .. Capacity - 1
  PROVE  Slot(a) # Slot(b)
<1>1. a - b \in 0 .. Capacity - 1 /\ a # b
  BY Sizes
<1> QED BY <1>1, Sizes, ModInjective DEF Slot

\* A record as push leaves it has the type of a slot.
LEMMA SentType == ASSUME NEW n \in Nat PROVE Sent(n) \in Record
  BY WrapWord DEF Sent, Record

-----------------------------------------------------------------------------
(* Type correctness.                                                       *)

TypeInv == TypeOK /\ PushedInv

\* The statics of telemetry.c start with their types.
LEMMA TypeInit == Init => TypeInv
<1> SUFFICES ASSUME Init PROVE TypeInv
  OBVIOUS
<1>1. 0 \in Word /\ 0 \in Nat
  BY Sizes DEF Word
<1>2. ring \in [0 .. Capacity - 1 -> Record]
  BY <1>1 DEF Init, Record
<1>3. <<>> \in Seq(Record) /\ <<>> \in Seq(Nat)
  OBVIOUS
<1>4. TypeOK
  BY <1>1, <1>2, <1>3 DEF Init, TypeOK
<1>5. PushedInv
  BY DEF Init, PushedInv, InFlight
<1> QED BY <1>4, <1>5 DEF TypeInv

\* Every access of push, drain and reset leaves every variable in its type.
LEMMA TypeStep == TypeInv /\ [Next]_vars => TypeInv'
<1> SUFFICES ASSUME TypeInv, [Next]_vars PROVE TypeInv'
  OBVIOUS
<1> USE DEF TypeInv, PushedInv, InFlight, shared, prod, cons, hist
<1>0. 0 \in Word /\ CallerSeq \in Word /\ Word \subseteq Nat
  BY Sizes DEF Word, CallerSeq
<1>1. CASE Reset
  BY <1>0, <1>1 DEF Reset, TypeOK
<1>2. CASE Release
  BY <1>2 DEF Release, TypeOK
<1>3. CASE PushLoad
  BY <1>3 DEF PushLoad, TypeOK
<1>4. CASE PushClaim
  <2>1. Wrap(seqNext + 1) \in Word
    BY <1>0, WrapWord DEF TypeOK
  <2> QED BY <2>1, <1>4 DEF PushClaim, TypeOK
<1>5. CASE PushDrop
  <2>1. Wrap(dropped + 1) \in Word
    BY <1>0, WrapWord DEF TypeOK
  <2> QED BY <2>1, <1>5 DEF PushDrop, TypeOK
<1>6. CASE PushBody
  <2>1. [body |-> pushed - 1, seq |-> CallerSeq] \in Record
    BY <1>0, <1>6 DEF PushBody, TypeOK, Record
  <2>2. ring' \in [0 .. Capacity - 1 -> Record]
    BY <2>1, <1>6 DEF PushBody, TypeOK
  <2> QED BY <2>2, <1>6 DEF PushBody, TypeOK
<1>7. CASE PushSeq
  <2>1. Target \in 0 .. Capacity - 1
    BY <1>0, SlotRange DEF Target, TypeOK
  <2>2. ring[Target] \in Record
    BY <2>1 DEF TypeOK
  <2>3. ring' \in [0 .. Capacity - 1 -> Record]
    BY <2>1, <2>2, <1>7 DEF PushSeq, TypeOK, Record
  <2> QED BY <2>3, <1>7 DEF PushSeq, TypeOK
<1>8. CASE PushPublish
  <2>1. Wrap(head + 1) \in Word
    BY <1>0, WrapWord DEF TypeOK
  <2> QED BY <2>1, <1>8 DEF PushPublish, TypeOK
<1>9. CASE DrainLoad
  BY <1>9 DEF DrainLoad, TypeOK
<1>10. CASE DrainHeader
  BY <1>10 DEF DrainHeader, TypeOK
<1>11. CASE DrainDrops
  BY <1>11 DEF DrainDrops, TypeOK
<1>12. CASE DrainCopy
  <2>1. Len(cBatch) \in Nat
    BY DEF TypeOK
  <2>2. Source \in 0 .. Capacity - 1
    <3>1. tail + Len(cBatch) \in Int
      BY <2>1, <1>0 DEF TypeOK
    <3>2. Wrap(tail + Len(cBatch)) \in Int
      BY <3>1, WrapWord
    <3> QED BY <3>2, SlotRange DEF Source
  <2>3. ring[Source] \in Record
    BY <2>2 DEF TypeOK
  <2> QED BY <2>3, <1>12 DEF DrainCopy, TypeOK
<1>13. CASE DrainRelease
  <2>1. BatchSize \in Int
    BY <1>0, WrapWord, BufferAssumption
    DEF BatchSize, Available, Occupancy, Room, FrameOverhead, HeaderLen, RecordSize, TypeOK
  <2>2. Wrap(tail + BatchSize) \in Word
    BY <2>1, <1>0, WrapWord DEF TypeOK
  <2>3. out \o cBatch \in Seq(Record)
    BY DEF TypeOK
  <2> QED BY <2>2, <2>3, <1>13 DEF DrainRelease, TypeOK
<1>14. CASE UNCHANGED vars
  BY <1>14 DEF vars, TypeOK
<1> QED
  BY <1>1, <1>2, <1>3, <1>4, <1>5, <1>6, <1>7, <1>8, <1>9, <1>10, <1>11, <1>12, <1>13, <1>14
  DEF Next, Push, Drain

\* Every variable keeps its type; a slot always holds a whole record and a word
\* never leaves its width.
THEOREM TypeCorrect == Spec => []TypeOK
<1>1. TypeInv => TypeOK
  BY DEF TypeInv
<1> QED BY <1>1, TypeInit, TypeStep, PTL DEF Spec

-----------------------------------------------------------------------------
(* What the words stand for in a state of the invariant.                   *)

\* The two logs have lengths, which is what the words are compared with.
LEMMA Lengths ==
  ASSUME TypeOK
  PROVE  /\ Len(log) \in Nat /\ Len(out) \in Nat /\ Len(cBatch) \in Nat
         /\ pushed \in Nat
         /\ Word \subseteq Nat
  BY Sizes DEF TypeOK, Word

\* The slot push writes is a slot of the ring.
LEMMA TargetRange == ASSUME TypeOK PROVE Target \in 0 .. Capacity - 1
<1>1. head \in Int
  BY Lengths DEF TypeOK
<1> QED BY <1>1, SlotRange DEF Target

\* the producer writes the slot after the last accepted record
LEMMA TargetSlot ==
  ASSUME TypeOK, IndexInv PROVE Target = Slot(Len(log))
  BY Lengths, SlotWrap DEF Target, IndexInv

\* and that slot holds no record that has not been returned yet
LEMMA TargetFree ==
  ASSUME TypeOK, IndexInv, Len(log) < Len(out) + Capacity,
         NEW k \in Len(out) + 1 .. Len(log)
  PROVE  Slot(k - 1) # Target
<1>1. Len(log) - (k - 1) \in 1 .. Capacity - 1
  BY Lengths, Sizes
<1>2. Slot(Len(log)) # Slot(k - 1)
  BY <1>1, Lengths, SlotDistinct
<1> QED BY <1>2, TargetSlot

\* a head the consumer loaded shows it the records up to that head
LEMMA AvailableRecords ==
  ASSUME TypeOK, IndexInv, NEW h \in Len(out) + 1 .. Len(log), cHead = Wrap(h)
  PROVE  Available = h - Len(out)
<1>1. h - Len(out) \in 0 .. Capacity /\ h \in Int /\ Len(out) \in Int
  BY Lengths, Sizes DEF IndexInv
<1>2. Occupancy(Wrap(h), Wrap(Len(out))) = h - Len(out)
  BY <1>1, OccupancyDistance
<1> QED BY <1>2 DEF Available, IndexInv

\* the buffer has room for at least the one record its minimum is made of
LEMMA RoomForOne == ASSUME BufBytes >= Minimum PROVE Room \in Nat /\ Room >= 1
  BY BufferAssumption DEF Room, Minimum, FrameOverhead, HeaderLen, RecordSize

\* An open batch: the loaded head stands for a position after the tail, and the
\* batch ends at or before it.
LEMMA OpenBatch ==
  ASSUME TypeOK, IndexInv, ConsumerInv, cpc # "idle"
  PROVE  \E h \in Len(out) + 1 .. Len(log) :
           /\ cHead = Wrap(h)
           /\ Available = h - Len(out)
           /\ BatchSize \in 1 .. h - Len(out)
           /\ BatchSize <= Room
<1>1. PICK h \in Len(out) + 1 .. Len(log) : cHead = Wrap(h)
  BY DEF ConsumerInv
<1>2. Available = h - Len(out)
  BY <1>1, AvailableRecords
<1>3. Room \in Nat /\ Room >= 1
  BY RoomForOne DEF ConsumerInv
<1>4. BatchSize \in 1 .. h - Len(out) /\ BatchSize <= Room
  BY <1>2, <1>3, Lengths DEF BatchSize
<1> QED BY <1>1, <1>2, <1>4

\* The slot the next copy reads is that of the next record not returned.
LEMMA SourceSlot ==
  ASSUME TypeOK, IndexInv PROVE Source = Slot(Len(out) + Len(cBatch))
<1>1. Wrap(Wrap(Len(out)) + Len(cBatch)) = Wrap(Len(out) + Len(cBatch))
  BY Lengths, WrapPlus
<1>2. Slot(Wrap(Len(out) + Len(cBatch))) = Slot(Len(out) + Len(cBatch))
  BY Lengths, SlotWrap
<1> QED BY <1>1, <1>2 DEF Source, IndexInv

-----------------------------------------------------------------------------
(* The inductive invariant: its parts besides the types, one lemma for each *)
(* operation that disturbs them.                                           *)

RingInv == IndexInv /\ ContentInv /\ OutInv /\ ProducerInv /\ ConsumerInv

\* The initial state satisfies every part of the invariant.
LEMMA RingInit == Init => RingInv
<1> SUFFICES ASSUME Init PROVE RingInv
  OBVIOUS
<1>1. Wrap(0) = 0
  BY Sizes, ModUnique DEF Wrap
<1> QED
  BY <1>1, Sizes
  DEF Init, RingInv, IndexInv, ContentInv, OutInv, ProducerInv, ConsumerInv

\* Clearing the indices before any consumer runs starts the history afresh.
LEMMA ResetInv == ASSUME TypeOK, RingInv, Reset PROVE RingInv'
<1>1. Wrap(0) = 0
  BY Sizes, ModUnique DEF Wrap
<1>2. cpc = "idle"
  BY DEF RingInv, ConsumerInv, Reset
<1> QED
  BY <1>1, <1>2, Sizes
  DEF Reset, RingInv, IndexInv, ContentInv, OutInv, ProducerInv, ConsumerInv, prod, cons

\* A loaded tail is one the consumer has stored.
LEMMA PushLoadInv == ASSUME TypeOK, RingInv, PushLoad PROVE RingInv'
<1> USE DEF PushLoad, shared, cons, hist
<1>1. IndexInv' /\ ContentInv' /\ OutInv'
  BY DEF RingInv, IndexInv, ContentInv, OutInv
<1>2. ProducerInv'
  <2>1. Len(out) \in 0 .. Len(out) /\ pTail' = Wrap(Len(out)) /\ Len(log) <= Len(out) + Capacity
    BY Lengths DEF RingInv, IndexInv
  <2> QED BY <2>1 DEF ProducerInv
<1>3. ConsumerInv'
  BY DEF RingInv, ConsumerInv, BatchSize, Available
<1> QED BY <1>1, <1>2, <1>3 DEF RingInv

\* The full test on a tail that may be old never admits a record into a full ring.
LEMMA PushClaimInv == ASSUME TypeOK, RingInv, PushClaim PROVE RingInv'
<1> USE DEF PushClaim, cons
<1>1. IndexInv'
  <2>1. Wrap(Wrap(pushed) + 1) = Wrap(pushed + 1)
    BY Lengths, WrapPlus
  <2> QED BY <2>1 DEF RingInv, IndexInv
<1>2. ContentInv' /\ OutInv'
  BY DEF RingInv, ContentInv, OutInv
<1>3. ProducerInv'
  <2>1. PICK t \in 0 .. Len(out) : pTail = Wrap(t) /\ Len(log) <= t + Capacity
    BY DEF RingInv, ProducerInv
  <2>2. Len(log) - t \in 0 .. Capacity /\ t \in Int /\ Len(log) \in Int
    <3>1. Len(out) <= Len(log)
      BY DEF RingInv, IndexInv
    <3> QED BY <2>1, <3>1, Lengths, Sizes
  <2>3. Occupancy(head, pTail) = Len(log) - t
    BY <2>1, <2>2, OccupancyDistance DEF RingInv, IndexInv
  <2>4. ASSUME ~Full PROVE Len(log) < Len(out) + Capacity
    BY <2>2, <2>3, <2>4, Lengths, Sizes DEF Full
  <2>5. pSeq' = Wrap(pushed' - 1)
    BY Lengths DEF RingInv, IndexInv
  <2> QED BY <2>4, <2>5 DEF ProducerInv
<1>4. ConsumerInv'
  BY DEF RingInv, ConsumerInv, BatchSize, Available
<1> QED BY <1>1, <1>2, <1>3, <1>4 DEF RingInv

\* A refusal moves no index.
LEMMA PushDropInv == ASSUME TypeOK, RingInv, PushDrop PROVE RingInv'
  BY DEF PushDrop, RingInv, IndexInv, ContentInv, OutInv, ProducerInv, ConsumerInv,
         BatchSize, Available, cons

\* The body is written to a slot that holds no record still to be returned.
LEMMA PushBodyInv == ASSUME TypeOK, RingInv, PushBody PROVE RingInv'
<1> USE DEF PushBody, cons, hist
<1>1. IndexInv' /\ OutInv'
  BY DEF RingInv, IndexInv, OutInv
<1>2. Len(log) < Len(out) + Capacity
  BY DEF RingInv, ProducerInv
<1>3. ContentInv'
  <2> SUFFICES ASSUME NEW k \in Len(out) + 1 .. Len(log)
               PROVE  ring'[Slot(k - 1)] = Sent(log[k])
    BY DEF ContentInv
  <2>1. Slot(k - 1) # Target
    BY <1>2, TargetFree DEF RingInv
  <2>2. Slot(k - 1) \in 0 .. Capacity - 1
    <3>1. k - 1 \in Int
      BY Lengths
    <3> QED BY <3>1, SlotRange
  <2>3. ring'[Slot(k - 1)] = ring[Slot(k - 1)]
    BY <2>1, <2>2 DEF TypeOK
  <2> QED BY <2>3 DEF RingInv, ContentInv
<1>4. ProducerInv'
  <2>1. Target \in 0 .. Capacity - 1
    BY TargetRange
  <2>2. ring'[Target].body = pushed - 1 /\ Target' = Target
    BY <2>1 DEF TypeOK, Target
  <2> QED BY <2>2 DEF RingInv, ProducerInv
<1>5. ConsumerInv'
  BY DEF RingInv, ConsumerInv, BatchSize, Available
<1> QED BY <1>1, <1>3, <1>4, <1>5 DEF RingInv

\* The sequence number completes the record in that slot.
LEMMA PushSeqInv == ASSUME TypeOK, RingInv, PushSeq PROVE RingInv'
<1> USE DEF PushSeq, cons, hist
<1>1. IndexInv' /\ OutInv'
  BY DEF RingInv, IndexInv, OutInv
<1>2. Len(log) < Len(out) + Capacity
  BY DEF RingInv, ProducerInv
<1>3. ContentInv'
  <2> SUFFICES ASSUME NEW k \in Len(out) + 1 .. Len(log)
               PROVE  ring'[Slot(k - 1)] = Sent(log[k])
    BY DEF ContentInv
  <2>1. Slot(k - 1) # Target
    BY <1>2, TargetFree DEF RingInv
  <2>2. Slot(k - 1) \in 0 .. Capacity - 1
    <3>1. k - 1 \in Int
      BY Lengths
    <3> QED BY <3>1, SlotRange
  <2>3. ring'[Slot(k - 1)] = ring[Slot(k - 1)]
    BY <2>1, <2>2 DEF TypeOK
  <2> QED BY <2>3 DEF RingInv, ContentInv
<1>4. ProducerInv'
  <2>1. Target \in 0 .. Capacity - 1 /\ Target' = Target
    BY TargetRange DEF Target
  <2>2. ring[Target] \in Record /\ ring[Target].body = pushed - 1
    BY <2>1 DEF TypeOK, RingInv, ProducerInv
  <2>3. ring'[Target] = [body |-> pushed - 1, seq |-> pSeq]
    BY <2>1, <2>2 DEF TypeOK, Record
  <2>4. pSeq = Wrap(pushed - 1)
    BY DEF RingInv, ProducerInv
  <2>5. ring'[Target] = Sent(pushed - 1)
    BY <2>3, <2>4 DEF Sent
  <2> QED BY <1>2, <2>1, <2>4, <2>5 DEF ProducerInv
<1>5. ConsumerInv'
  BY DEF RingInv, ConsumerInv, BatchSize, Available
<1> QED BY <1>1, <1>3, <1>4, <1>5 DEF RingInv

\* Storing the head publishes a record that is whole.
LEMMA PushPublishInv ==
  ASSUME TypeOK, PushedInv, RingInv, PushPublish PROVE RingInv'
<1> USE DEF PushPublish, cons
<1>0. pushed - 1 \in Nat
  BY Lengths DEF PushedInv, InFlight
<1>1. /\ Len(log') = Len(log) + 1
      /\ log'[Len(log) + 1] = pushed - 1
      /\ \A i \in 1 .. Len(log) : log'[i] = log[i]
  BY <1>0 DEF TypeOK
<1>2. IndexInv'
  <2>1. Wrap(Wrap(Len(log)) + 1) = Wrap(Len(log) + 1)
    BY Lengths, WrapPlus
  <2>2. Len(log) < Len(out) + Capacity
    BY DEF RingInv, ProducerInv
  <2> QED BY <1>1, <2>1, <2>2, Lengths, Sizes DEF RingInv, IndexInv
<1>3. ContentInv'
  <2> SUFFICES ASSUME NEW k \in Len(out) + 1 .. Len(log) + 1
               PROVE  ring[Slot(k - 1)] = Sent(log'[k])
    BY <1>1 DEF ContentInv
  <2>1. CASE k = Len(log) + 1
    <3>1. ring[Target] = Sent(pushed - 1)
      BY DEF RingInv, ProducerInv
    <3>2. Slot(k - 1) = Target
      BY <2>1, Lengths, TargetSlot DEF RingInv
    <3> QED BY <1>1, <2>1, <3>1, <3>2
  <2>2. CASE k # Len(log) + 1
    <3>1. k \in Len(out) + 1 .. Len(log) /\ k \in 1 .. Len(log)
      BY <2>2, Lengths
    <3> QED BY <1>1, <3>1 DEF RingInv, ContentInv
  <2> QED BY <2>1, <2>2
<1>4. OutInv'
  <2>1. \A i \in 1 .. Len(out) : i \in 1 .. Len(log)
    BY Lengths DEF RingInv, IndexInv
  <2> QED BY <1>1, <2>1 DEF RingInv, OutInv
<1>5. ProducerInv'
  BY DEF ProducerInv
<1>6. ConsumerInv'
  <2> SUFFICES ASSUME cpc # "idle" PROVE ConsumerInv'
    BY DEF ConsumerInv
  <2>1. PICK h \in Len(out) + 1 .. Len(log) :
          cHead = Wrap(h) /\ BatchSize \in 1 .. h - Len(out)
    BY OpenBatch DEF RingInv
  <2>2. h \in Len(out) + 1 .. Len(log)'
    BY <1>1, Lengths
  <2>3. \A i \in 1 .. Len(cBatch) : Len(out) + i \in 1 .. Len(log)
    BY <2>1, Lengths DEF RingInv, ConsumerInv
  <2> QED
    BY <1>1, <2>1, <2>2, <2>3 DEF RingInv, ConsumerInv, BatchSize, Available
<1> QED BY <1>2, <1>3, <1>4, <1>5, <1>6 DEF RingInv

\* A loaded head is one the producer has stored.
LEMMA DrainLoadInv == ASSUME TypeOK, RingInv, DrainLoad PROVE RingInv'
<1> USE DEF DrainLoad, shared, prod, hist
<1>1. IndexInv' /\ ContentInv' /\ OutInv'
  BY DEF RingInv, IndexInv, ContentInv, OutInv
<1>2. ProducerInv'
  BY DEF RingInv, ProducerInv, Target
<1>3. Len(log) \in Len(out) + 1 .. Len(log) /\ cHead' = Wrap(Len(log))
  <2>1. Len(log) # Len(out)
    BY DEF RingInv, IndexInv
  <2> QED BY <2>1, Lengths DEF RingInv, IndexInv
<1>4. BatchSize' >= 0
  <2>1. Available' = Len(log) - Len(out)
    <3>1. Len(log) - Len(out) \in 0 .. Capacity
      BY <1>3, Lengths, Sizes DEF RingInv, IndexInv
    <3>2. Occupancy(Wrap(Len(log)), Wrap(Len(out))) = Len(log) - Len(out)
      BY <3>1, Lengths, OccupancyDistance
    <3> QED BY <1>3, <3>2 DEF Available, RingInv, IndexInv
  <2> QED BY <1>3, <2>1, Lengths, RoomForOne DEF BatchSize
<1>5. ConsumerInv'
  <2>1. Len(cBatch') = 0
    OBVIOUS
  <2> QED BY <1>3, <1>4, <2>1 DEF ConsumerInv
<1> QED BY <1>1, <1>2, <1>5 DEF RingInv

\* Reading the counters for the header frame moves no index.
LEMMA DrainCountersInv ==
  ASSUME TypeOK, RingInv, DrainHeader \/ DrainDrops PROVE RingInv'
<1> USE DEF DrainHeader, DrainDrops, shared, prod, hist
<1>1. IndexInv' /\ ContentInv' /\ OutInv'
  BY DEF RingInv, IndexInv, ContentInv, OutInv
<1>2. ProducerInv'
  BY DEF RingInv, ProducerInv, Target
<1>3. ConsumerInv'
  BY DEF RingInv, ConsumerInv, BatchSize, Available
<1> QED BY <1>1, <1>2, <1>3 DEF RingInv

\* A copy takes the next record that was not returned, whole.
LEMMA DrainCopyInv == ASSUME TypeOK, RingInv, DrainCopy PROVE RingInv'
<1> USE DEF DrainCopy, shared, prod, hist
<1>1. IndexInv' /\ ContentInv' /\ OutInv'
  BY DEF RingInv, IndexInv, ContentInv, OutInv
<1>2. ProducerInv'
  BY DEF RingInv, ProducerInv, Target
<1>3. PICK h \in Len(out) + 1 .. Len(log) :
        cHead = Wrap(h) /\ BatchSize \in 1 .. h - Len(out)
  BY OpenBatch DEF RingInv
<1>4. ring[Source] = Sent(log[Len(out) + Len(cBatch) + 1])
  <2> DEFINE k == Len(out) + Len(cBatch) + 1
  <2>1. k \in Len(out) + 1 .. Len(log) /\ k - 1 = Len(out) + Len(cBatch)
    BY <1>3, Lengths
  <2>2. Source = Slot(k - 1)
    BY <2>1, SourceSlot DEF RingInv
  <2> QED BY <2>1, <2>2 DEF RingInv, ContentInv
<1>5. /\ Len(cBatch') = Len(cBatch) + 1
      /\ cBatch'[Len(cBatch) + 1] = ring[Source]
      /\ \A i \in 1 .. Len(cBatch) : cBatch'[i] = cBatch[i]
  BY DEF TypeOK
<1>6. Len(cBatch') <= BatchSize' /\ BatchSize' = BatchSize
  BY <1>3, <1>5, Lengths DEF BatchSize, Available
<1>7. \A i \in 1 .. Len(cBatch') : cBatch'[i] = Sent(log[Len(out) + i])
  <2> SUFFICES ASSUME NEW i \in 1 .. Len(cBatch) + 1
               PROVE  cBatch'[i] = Sent(log[Len(out) + i])
    BY <1>5
  <2>1. CASE i = Len(cBatch) + 1
    <3>1. Len(out) + i = Len(out) + Len(cBatch) + 1
      BY <2>1, Lengths
    <3> QED BY <1>4, <1>5, <2>1, <3>1
  <2>2. CASE i # Len(cBatch) + 1
    <3>1. i \in 1 .. Len(cBatch)
      BY <2>2, Lengths
    <3> QED BY <1>5, <3>1 DEF RingInv, ConsumerInv
  <2> QED BY <2>1, <2>2
<1>8. ConsumerInv'
  BY <1>6, <1>7 DEF RingInv, ConsumerInv
<1> QED BY <1>1, <1>2, <1>8 DEF RingInv

\* Storing the tail gives back exactly the slots that were copied.
LEMMA DrainReleaseInv == ASSUME TypeOK, RingInv, DrainRelease PROVE RingInv'
<1> USE DEF DrainRelease, prod
<1>1. PICK h \in Len(out) + 1 .. Len(log) :
        cHead = Wrap(h) /\ BatchSize \in 1 .. h - Len(out)
  BY OpenBatch DEF RingInv
<1>2. Len(cBatch) = BatchSize
  BY <1>1, Lengths DEF RingInv, ConsumerInv
<1>3. /\ Len(out') = Len(out) + BatchSize
      /\ \A i \in 1 .. Len(out) : out'[i] = out[i]
      /\ \A i \in 1 .. Len(cBatch) : out'[Len(out) + i] = cBatch[i]
  BY <1>2 DEF TypeOK
<1>4. Len(out') \in Len(out) .. Len(log) /\ Len(out') \in Nat
  BY <1>1, <1>3, Lengths
<1>5. IndexInv'
  <2>1. Wrap(Wrap(Len(out)) + BatchSize) = Wrap(Len(out) + BatchSize)
    <3>1. BatchSize \in Int /\ Len(out) \in Int
      BY <1>1, Lengths
    <3> QED BY <3>1, WrapPlus
  <2>2. tail' = Wrap(Len(out'))
    BY <1>3, <2>1 DEF RingInv, IndexInv
  <2>3. Len(log) <= Len(out') + Capacity
    BY <1>4, Lengths, Sizes DEF RingInv, IndexInv
  <2> QED BY <1>4, <2>2, <2>3, Lengths DEF RingInv, IndexInv
<1>6. ContentInv'
  <2>1. \A k \in Len(out') + 1 .. Len(log) : k \in Len(out) + 1 .. Len(log)
    BY <1>4, Lengths
  <2> QED BY <2>1 DEF RingInv, ContentInv
<1>7. OutInv'
  <2> SUFFICES ASSUME NEW i \in 1 .. Len(out')
               PROVE  out'[i] = Sent(log[i])
    BY DEF OutInv
  <2>1. CASE i \in 1 .. Len(out)
    BY <1>3, <2>1 DEF RingInv, OutInv
  <2>2. CASE i \notin 1 .. Len(out)
    <3> DEFINE j == i - Len(out)
    <3>1. j \in 1 .. Len(cBatch) /\ i = Len(out) + j
      BY <1>2, <1>3, <1>4, <2>2, Lengths
    <3>2. out'[Len(out) + j] = cBatch[j]
      BY <1>3, <3>1
    <3>3. cBatch[j] = Sent(log[Len(out) + j])
      BY <3>1 DEF RingInv, ConsumerInv
    <3> QED BY <3>1, <3>2, <3>3
  <2> QED BY <2>1, <2>2
<1>8. ProducerInv'
  <2>1. ASSUME NEW t \in 0 .. Len(out) PROVE t \in 0 .. Len(out')
    BY <1>4, Lengths
  <2>2. ASSUME Len(log) < Len(out) + Capacity PROVE Len(log) < Len(out') + Capacity
    BY <1>4, <2>2, Lengths, Sizes
  <2> QED BY <2>1, <2>2 DEF RingInv, ProducerInv, Target
<1>9. ConsumerInv'
  BY DEF ConsumerInv
<1> QED BY <1>5, <1>6, <1>7, <1>8, <1>9 DEF RingInv

\* The invariant speaks of these variables only.
LEMMA RingStutter ==
  ASSUME TypeOK, RingInv, Release \/ UNCHANGED vars PROVE RingInv'
<1> USE DEF Release, vars, shared, prod, cons, hist
<1>1. IndexInv' /\ ContentInv' /\ OutInv'
  BY DEF RingInv, IndexInv, ContentInv, OutInv
<1>2. ProducerInv'
  BY DEF RingInv, ProducerInv, Target
<1>3. ConsumerInv'
  BY DEF RingInv, ConsumerInv, BatchSize, Available
<1> QED BY <1>1, <1>2, <1>3 DEF RingInv

-----------------------------------------------------------------------------
\* The conjunction of the types and the parts above is inductive, so it holds in
\* every reachable state of the ring whatever its size.
THEOREM Invariance == Spec => []IInv
<1>1. Init => IInv
  BY TypeInit, RingInit DEF IInv, RingInv, TypeInv
<1>2. IInv /\ [Next]_vars => IInv'
  <2> SUFFICES ASSUME IInv, [Next]_vars PROVE IInv'
    OBVIOUS
  <2>1. TypeOK /\ PushedInv /\ RingInv
    BY DEF IInv, RingInv
  <2>2. TypeInv'
    BY <2>1, TypeStep DEF TypeInv
  <2>3. RingInv'
    BY <2>1, ResetInv, PushLoadInv, PushClaimInv, PushDropInv, PushBodyInv, PushSeqInv,
       PushPublishInv, DrainLoadInv, DrainCountersInv, DrainCopyInv, DrainReleaseInv,
       RingStutter
    DEF Next, Push, Drain
  <2> QED BY <2>2, <2>3 DEF IInv, RingInv, TypeInv
<1> QED BY <1>1, <1>2, PTL DEF Spec

\* A record that drain has returned is an accepted one, whole and in its place:
\* nothing is torn, repeated, lost after acceptance or reordered.
THEOREM DeliveryIsExact == Spec => []DeliveredIsPrefix
<1>1. IInv => DeliveredIsPrefix
  BY DEF IInv, DeliveredIsPrefix, IndexInv, OutInv
<1> QED BY <1>1, Invariance, PTL

\* The producer never writes a slot of a batch the consumer holds open.
THEOREM NoOverwrite == Spec => []NoSlotConflict
<1>1. IInv => NoSlotConflict
  <2> SUFFICES ASSUME IInv, ppc \in {"body", "seq", "publish"}, cpc # "idle",
                      NEW i \in 0 .. Available - 1
               PROVE  Slot(Wrap(tail + i)) # Target
    BY DEF NoSlotConflict
  <2>1. PICK h \in Len(out) + 1 .. Len(log) : Available = h - Len(out)
    BY OpenBatch DEF IInv
  <2>2. Len(log) < Len(out) + Capacity
    BY DEF IInv, ProducerInv
  <2> DEFINE k == Len(out) + i + 1
  <2>3. k \in Len(out) + 1 .. Len(log) /\ k - 1 = Len(out) + i
    BY <2>1, Lengths DEF IInv
  <2>4. Slot(k - 1) # Target
    BY <2>2, <2>3, TargetFree DEF IInv
  <2>5. Slot(Wrap(tail + i)) = Slot(k - 1)
    <3>1. Len(out) \in Int /\ i \in Int /\ Len(out) + i \in Int
      BY Lengths, <2>1 DEF IInv
    <3>2. Wrap(Wrap(Len(out)) + i) = Wrap(Len(out) + i)
      BY <3>1, WrapPlus
    <3>3. Slot(Wrap(Len(out) + i)) = Slot(Len(out) + i)
      BY <3>1, SlotWrap
    <3> QED BY <2>3, <3>2, <3>3 DEF IInv, IndexInv
  <2> QED BY <2>4, <2>5
<1> QED BY <1>1, Invariance, PTL

-----------------------------------------------------------------------------
(* Gaps in the sequence numbers.                                           *)

\* Every claimed number is in flight, refused or accepted after every step too.
LEMMA LogStep ==
  ASSUME TypeOK, PushedInv, LogInv, [Next]_vars PROVE LogInv'
<1> USE DEF LogInv, InFlight, shared, prod, cons, hist
<1>0. pushed \in Nat /\ Len(log) \in Nat /\ lost \subseteq Nat
      /\ \A k \in 1 .. Len(log) : log[k] \in Nat
  BY DEF TypeOK
<1>1. CASE Reset
  BY <1>1, <1>0 DEF Reset
<1>2. CASE PushLoad
  BY <1>2 DEF PushLoad
<1>3. CASE PushClaim
  BY <1>3, <1>0 DEF PushClaim
<1>4. CASE PushDrop
  BY <1>4, <1>0 DEF PushDrop
<1>5. CASE PushBody \/ PushSeq
  BY <1>5 DEF PushBody, PushSeq
<1>6. CASE PushPublish
  <2>1. pushed - 1 \in Nat
    BY <1>0, <1>6 DEF PushPublish, PushedInv
  <2>2. /\ Len(log') = Len(log) + 1
        /\ log'[Len(log) + 1] = pushed - 1
        /\ \A i \in 1 .. Len(log) : log'[i] = log[i]
    BY <2>1, <1>6 DEF PushPublish, TypeOK
  <2>3. \A k \in 1 .. Len(log) : log[k] < pushed - 1
    BY <1>0, <1>6 DEF PushPublish
  <2>4. \A i, j \in 1 .. Len(log') : i < j => log'[i] < log'[j]
    <3> SUFFICES ASSUME NEW i \in 1 .. Len(log) + 1, NEW j \in 1 .. Len(log) + 1, i < j
                 PROVE  log'[i] < log'[j]
      BY <2>2
    <3>1. i \in 1 .. Len(log) /\ log'[i] = log[i]
      BY <1>0, <2>2
    <3>2. CASE j = Len(log) + 1
      BY <2>2, <2>3, <3>1, <3>2
    <3>3. CASE j # Len(log) + 1
      <4>1. j \in 1 .. Len(log)
        <5> HIDE DEF LogInv, InFlight
        <5>1. Len(log) \in Nat
          BY <1>0
        <5> QED BY <3>3, <5>1
      <4>2. log'[j] = log[j]
        BY <2>2, <4>1
      <4> QED BY <3>1, <4>1, <4>2
    <3> QED BY <3>2, <3>3
  <2>5. \A n \in 0 .. pushed - 1 :
          n \in lost \/ \E k \in 1 .. Len(log') : log'[k] = n
    <3> SUFFICES ASSUME NEW n \in 0 .. pushed - 1, n \notin lost
                 PROVE  \E k \in 1 .. Len(log') : log'[k] = n
      OBVIOUS
    <3>1. CASE n = pushed - 1
      <4>1. Len(log) + 1 \in 1 .. Len(log')
        BY <1>0, <2>2
      <4> QED BY <2>2, <3>1, <4>1
    <3>2. CASE n # pushed - 1
      <4>1. PICK k \in 1 .. Len(log) : log[k] = n
        BY <1>6, <3>2 DEF PushPublish
      <4>2. k \in 1 .. Len(log')
        BY <1>0, <2>2
      <4> QED BY <2>2, <4>1, <4>2
    <3> QED BY <3>1, <3>2
  <2>6. \A k \in 1 .. Len(log') : log'[k] < pushed /\ log'[k] \notin lost
    BY <1>0, <2>2, <1>6 DEF PushPublish
  <2>7. \A n \in lost : n < pushed
    OBVIOUS
  <2>8. /\ pushed' = pushed /\ lost' = lost
        /\ ppc' = "idle"
    BY <1>6 DEF PushPublish
  <2> QED BY <2>4, <2>5, <2>6, <2>7, <2>8
<1>7. CASE Release \/ Drain \/ UNCHANGED vars
  BY <1>7 DEF Release, Drain, DrainLoad, DrainHeader, DrainDrops, DrainCopy, DrainRelease, vars
<1> QED BY <1>1, <1>2, <1>3, <1>4, <1>5, <1>6, <1>7 DEF Next, Push

\* Between two records that follow each other in the log, every number was refused.
LEMMA RefusedBetween ==
  ASSUME TypeOK, PushedInv, LogInv, NEW i \in 1 .. Len(log) - 1
  PROVE  {n \in lost : log[i] < n /\ n < log[i + 1]} = log[i] + 1 .. log[i + 1] - 1
<1> DEFINE a == log[i]
           b == log[i + 1]
<1>1. i \in 1 .. Len(log) /\ i + 1 \in 1 .. Len(log) /\ a \in Nat /\ b \in Nat /\ a < b
  <2>1. i \in 1 .. Len(log) /\ i + 1 \in 1 .. Len(log) /\ i < i + 1
    BY Lengths
  <2>2. a \in Nat /\ b \in Nat
    BY <2>1 DEF TypeOK
  <2>3. a < b
    BY <2>1 DEF LogInv
  <2> QED BY <2>1, <2>2, <2>3
<1>2. ASSUME NEW n \in lost, a < n, n < b PROVE n \in a + 1 .. b - 1
  BY <1>1, <1>2 DEF TypeOK
<1>3. ASSUME NEW n \in a + 1 .. b - 1 PROVE n \in lost /\ a < n /\ n < b
  <2>1. b < pushed /\ pushed \in Nat
    BY <1>1 DEF LogInv, TypeOK
  <2>2. n \in 0 .. pushed - 1 /\ n # pushed - 1
    BY <1>1, <2>1
  <2>3. n \notin InFlight
    BY <2>2 DEF InFlight
  <2>4. ASSUME NEW k \in 1 .. Len(log), log[k] = n PROVE FALSE
    <3>1. CASE k < i
      BY <1>1, <2>4, <3>1 DEF LogInv
    <3>2. CASE k = i
      BY <1>1, <2>4, <3>2
    <3>3. CASE k = i + 1
      BY <1>1, <2>4, <3>3
    <3>4. CASE k > i + 1
      BY <1>1, <2>4, <3>4 DEF LogInv
    <3> QED BY <3>1, <3>2, <3>3, <3>4
  <2> QED BY <1>1, <2>2, <2>3, <2>4 DEF LogInv
<1> QED BY <1>2, <1>3

\* The words of two numbers differ by the width of the gap between them.
LEMMA GapWidth ==
  ASSUME NEW a \in Nat, NEW b \in Nat, a < b
  PROVE  Wrap(Wrap(b) - Wrap(a) - 1) = Wrap(Cardinality(a + 1 .. b - 1))
<1>1. PICK x \in Int, y \in Int : x = Wrap(a) /\ y = Wrap(b)
  BY WrapWord
<1>2. Wrap(Wrap(b) + (-x - 1)) = Wrap(b + (-x - 1))
  <2>1. -x - 1 \in Int
    BY <1>1
  <2> QED BY <2>1, WrapPlus
<1>3. Wrap((b - 1) - Wrap(a)) = Wrap((b - 1) - a)
  <2>1. b - 1 \in Int /\ a \in Int
    OBVIOUS
  <2>2. ((b - 1) - (a % Modulus)) % Modulus = ((b - 1) - a) % Modulus
    BY <2>1, Sizes, ModMinus
  <2> QED BY <2>2 DEF Wrap
<1>4. y + (-x - 1) = y - x - 1 /\ b + (-x - 1) = (b - 1) - x /\ (b - 1) - a = b - a - 1
  BY <1>1
<1>5. Cardinality(a + 1 .. b - 1) = b - a - 1
  <2>1. a + 1 \in Int /\ b - 1 \in Int
    OBVIOUS
  <2>2. Cardinality(a + 1 .. b - 1) = IF a + 1 > b - 1 THEN 0 ELSE (b - 1) - (a + 1) + 1
    BY <2>1, FS_Interval
  <2> QED BY <2>2
<1> QED BY <1>1, <1>2, <1>3, <1>4, <1>5

\* What a reader of the stream is told: the width of a gap in the sequence numbers
\* is the number of records refused between its two records, modulo the word.
THEOREM GapsCountDrops == Spec => []GapsAreDrops
<1>1. Init => LogInv
  BY DEF Init, LogInv, InFlight
<1>2. IInv /\ LogInv /\ [Next]_vars => LogInv'
  BY LogStep DEF IInv
<1>3. IInv /\ LogInv => GapsAreDrops
  <2> SUFFICES ASSUME IInv, LogInv, NEW i \in 1 .. Len(out) - 1
               PROVE  Wrap(out[i+1].seq - out[i].seq - 1)
                        = Wrap(Cardinality({n \in lost : out[i].body < n /\ n < out[i+1].body}))
    BY DEF GapsAreDrops
  <2>1. i \in 1 .. Len(log) - 1 /\ i \in 1 .. Len(out) /\ i + 1 \in 1 .. Len(out)
    BY Lengths DEF IInv, IndexInv
  <2>2. PICK a \in Nat, b \in Nat : a = log[i] /\ b = log[i + 1] /\ a < b
    <3>1. i \in 1 .. Len(log) /\ i + 1 \in 1 .. Len(log) /\ i < i + 1
      BY <2>1, Lengths DEF IInv
    <3>2. log[i] \in Nat /\ log[i + 1] \in Nat
      BY <3>1 DEF IInv, TypeOK
    <3>3. log[i] < log[i + 1]
      BY <3>1 DEF LogInv
    <3> QED BY <3>2, <3>3
  <2>3. out[i] = Sent(a) /\ out[i + 1] = Sent(b)
    BY <2>1, <2>2 DEF IInv, OutInv
  <2>4. {n \in lost : a < n /\ n < b} = a + 1 .. b - 1
    BY <2>1, <2>2, RefusedBetween DEF IInv
  <2>5. Wrap(Wrap(b) - Wrap(a) - 1) = Wrap(Cardinality(a + 1 .. b - 1))
    BY <2>2, GapWidth
  <2>6. out[i].body = a /\ out[i].seq = Wrap(a) /\ out[i + 1].body = b /\ out[i + 1].seq = Wrap(b)
    BY <2>3 DEF Sent
  <2>7. {n \in lost : out[i].body < n /\ n < out[i + 1].body} = a + 1 .. b - 1
    BY <2>4, <2>6
  <2> QED BY <2>5, <2>6, <2>7
<1> QED BY <1>1, <1>2, <1>3, Invariance, PTL DEF Spec

-----------------------------------------------------------------------------
(* The header frame covers its batch.                                      *)

\* Every claimed number is in flight, refused or accepted, counted: the drop
\* counter is the number of refusals, and the k-th accepted number is preceded by
\* no more refusals than there have been.
CountInv ==
  /\ IsFiniteSet(lost)
  /\ dropped = Wrap(Cardinality(lost))
  /\ Len(log) + Cardinality(lost)
       + (IF ppc \in {"drop", "body", "seq", "publish"} THEN 1 ELSE 0) = pushed
  /\ \A k \in 1 .. Len(log) : log[k] + 1 - k <= Cardinality(lost)

\* The two counters an open batch was announced with cover every record it may take.
AnnouncedInv ==
  pushed < Modulus =>
    \A k \in 1 .. Len(out) + Available :
      /\ cpc \in {"drops", "copy"} => log[k] < cSeqNext
      /\ cpc = "copy" => log[k] + 1 - k <= cDropped

HeaderInv == CountInv /\ AnnouncedInv

\* A number below the width is its own word.
LEMMA WrapSmall == \A n \in 0 .. Modulus - 1 : Wrap(n) = n
  BY Sizes, ModUnique DEF Wrap

\* Nothing is counted at the start and after a reset.
LEMMA CountStart ==
  ASSUME lost = {}, log = <<>>, dropped = 0, pushed = 0, ppc = "idle" PROVE CountInv
<1>1. Wrap(0) = 0
  BY Sizes, ModUnique DEF Wrap
<1>2. IsFiniteSet({}) /\ Cardinality({}) = 0
  BY FS_EmptySet
<1> QED BY <1>1, <1>2 DEF CountInv

\* A claim takes one number, a refusal and an acceptance give it its place.
LEMMA CountStep ==
  ASSUME TypeOK, PushedInv, LogInv, CountInv, [Next]_vars PROVE CountInv'
<1> USE DEF shared, prod, cons, hist
<1>0. /\ pushed \in Nat /\ Len(log) \in Nat /\ lost \subseteq Nat
      /\ Cardinality(lost) \in Nat
      /\ \A k \in 1 .. Len(log) : log[k] \in Nat
  BY FS_CardinalityType DEF TypeOK, CountInv
<1>1. CASE Reset
  <2>1. /\ lost' = {} /\ log' = <<>> /\ dropped' = 0 /\ pushed' = 0 /\ ppc' = "idle"
    BY <1>1 DEF Reset
  <2>2. Wrap(0) = 0
    BY Sizes, ModUnique DEF Wrap
  <2>3. IsFiniteSet({}) /\ Cardinality({}) = 0
    BY FS_EmptySet
  <2> QED BY <2>1, <2>2, <2>3 DEF CountInv
<1>2. CASE PushClaim
  BY <1>0, <1>2 DEF PushClaim, CountInv
<1>3. CASE PushDrop
  <2>1. pushed - 1 \notin lost
    BY <1>3 DEF PushDrop, LogInv, InFlight
  <2>2. IsFiniteSet(lost') /\ Cardinality(lost') = Cardinality(lost) + 1
    BY <1>3, <2>1, FS_AddElement DEF PushDrop, CountInv
  <2>3. dropped' = Wrap(Cardinality(lost'))
    BY <1>0, <1>3, <2>2, WrapPlus DEF PushDrop, CountInv
  <2>4. \A k \in 1 .. Len(log) : log[k] + 1 - k <= Cardinality(lost')
    <3> SUFFICES ASSUME NEW k \in 1 .. Len(log)
                 PROVE  log[k] + 1 - k <= Cardinality(lost')
      OBVIOUS
    <3>1. log[k] + 1 - k <= Cardinality(lost) /\ log[k] \in Nat
      BY <1>0 DEF CountInv
    <3> QED BY <1>0, <2>2, <3>1
  <2>5. Len(log) + Cardinality(lost) + 1 = pushed /\ ppc' = "idle"
        /\ UNCHANGED <<log, pushed>>
    BY <1>3 DEF PushDrop, CountInv
  <2>6. Len(log) + Cardinality(lost') + 0 = pushed
    BY <1>0, <2>2, <2>5
  <2> QED BY <2>2, <2>3, <2>4, <2>5, <2>6 DEF CountInv
<1>4. CASE PushPublish
  <2>1. /\ Len(log') = Len(log) + 1
        /\ log'[Len(log) + 1] = pushed - 1
        /\ \A i \in 1 .. Len(log) : log'[i] = log[i]
    BY <1>0, <1>4 DEF PushPublish, PushedInv, InFlight, TypeOK
  <2>2. Len(log) + Cardinality(lost) + 1 = pushed
    BY <1>4 DEF PushPublish, CountInv
  <2>3. ASSUME NEW k \in 1 .. Len(log') PROVE log'[k] + 1 - k <= Cardinality(lost)
    <3>1. CASE k = Len(log) + 1
      BY <1>0, <2>1, <2>2, <3>1
    <3>2. CASE k # Len(log) + 1
      <4>1. k \in 1 .. Len(log)
        BY <1>0, <2>1, <3>2
      <4> QED BY <2>1, <4>1 DEF CountInv
    <3> QED BY <3>1, <3>2
  <2> QED BY <1>0, <1>4, <2>1, <2>2, <2>3 DEF PushPublish, CountInv
<1>5. CASE PushLoad \/ PushBody \/ PushSeq
  BY <1>5 DEF PushLoad, PushBody, PushSeq, CountInv
<1>6. CASE Release \/ Drain \/ UNCHANGED vars
  BY <1>6 DEF Release, Drain, DrainLoad, DrainHeader, DrainDrops, DrainCopy, DrainRelease,
              vars, CountInv
<1> QED BY <1>1, <1>2, <1>3, <1>4, <1>5, <1>6 DEF Next, Push

\* The records an open batch may take have all been accepted.
LEMMA AvailableAccepted ==
  ASSUME TypeOK, IndexInv, ConsumerInv, cpc # "idle"
  PROVE  /\ Available \in Nat
         /\ \A k \in 1 .. Len(out) + Available : k \in 1 .. Len(log)
<1>1. PICK h \in Len(out) + 1 .. Len(log) : Available = h - Len(out)
  BY OpenBatch
<1> QED BY <1>1, Lengths

\* What was announced stays above what the batch may take: the counters are loaded
\* after the head, and a push that comes later adds nothing to the batch.
LEMMA AnnouncedStep ==
  ASSUME IInv, LogInv, CountInv, AnnouncedInv, [Next]_vars PROVE AnnouncedInv'
<1> USE DEF shared, prod, cons, hist
<1>0. /\ pushed \in Nat /\ Len(log) \in Nat /\ Len(out) \in Nat
      /\ Cardinality(lost) \in Nat /\ cSeqNext \in Nat /\ cDropped \in Nat
      /\ \A k \in 1 .. Len(log) : log[k] \in Nat
  <2>1. Cardinality(lost) \in Nat
    BY FS_CardinalityType DEF CountInv
  <2>2. cSeqNext \in Nat /\ cDropped \in Nat
    BY Lengths DEF IInv, TypeOK
  <2>3. \A k \in 1 .. Len(log) : log[k] \in Nat
    <3>1. log \in Seq(Nat)
      BY DEF IInv, TypeOK
    <3> QED BY <3>1
  <2>4. pushed \in Nat /\ Len(log) \in Nat /\ Len(out) \in Nat
    BY Lengths DEF IInv
  <2> QED BY <2>1, <2>2, <2>3, <2>4
<1>1. CASE Reset \/ DrainLoad \/ DrainRelease
  <2>1. cpc' \notin {"drops", "copy"}
    BY <1>1 DEF Reset, DrainLoad, DrainRelease, IInv, ConsumerInv
  <2> QED BY <2>1 DEF AnnouncedInv
<1>2. CASE Push
  <2>1. UNCHANGED <<out, tail, cpc, cHead, cSeqNext, cDropped>>
        /\ pushed' >= pushed /\ pushed' \in Nat
    BY <1>0, <1>2
    DEF Push, PushLoad, PushClaim, PushDrop, PushBody, PushSeq, PushPublish
  <2>2. Available' = Available
    BY <2>1 DEF Available, Occupancy
  <2>3. \A k \in 1 .. Len(log) : log'[k] = log[k]
    <3>1. CASE PushPublish
      <4>1. log' = Append(log, pushed - 1) /\ log \in Seq(Nat) /\ pushed - 1 \in Nat
        BY <1>0, <3>1 DEF PushPublish, IInv, TypeOK, PushedInv, InFlight
      <4> QED BY <4>1
    <3>2. CASE ~PushPublish
      BY <1>2, <3>2 DEF Push, PushLoad, PushClaim, PushDrop, PushBody, PushSeq
    <3> QED BY <3>1, <3>2
  <2>4. SUFFICES ASSUME pushed' < Modulus, cpc \in {"drops", "copy"},
                        NEW k \in 1 .. Len(out) + Available
                 PROVE  /\ log'[k] < cSeqNext
                        /\ cpc = "copy" => log'[k] + 1 - k <= cDropped
    BY <2>1, <2>2 DEF AnnouncedInv
  <2>5. k \in 1 .. Len(log) /\ cpc # "idle"
    BY <2>4, AvailableAccepted DEF IInv
  <2>6. pushed < Modulus
    BY <1>0, <2>1, <2>4, Sizes
  <2> QED BY <2>3, <2>4, <2>5, <2>6 DEF AnnouncedInv
<1>3. CASE DrainHeader
  <2>1. cpc # "idle" /\ cpc' = "drops" /\ cSeqNext' = seqNext
        /\ UNCHANGED <<pushed, log, out, tail, cHead>>
    BY <1>3 DEF DrainHeader
  <2>2. Available' = Available
    BY <2>1 DEF Available, Occupancy
  <2>3. SUFFICES ASSUME pushed < Modulus, NEW k \in 1 .. Len(out) + Available
                 PROVE  log[k] < seqNext
    BY <2>1, <2>2 DEF AnnouncedInv
  <2>4. seqNext = pushed
    BY <1>0, WrapSmall, <2>3, Sizes DEF IInv, IndexInv
  <2>5. k \in 1 .. Len(log)
    BY <2>1, AvailableAccepted DEF IInv
  <2> QED BY <2>4, <2>5 DEF LogInv
<1>4. CASE DrainDrops
  <2>1. cpc = "drops" /\ cpc' = "copy" /\ cDropped' = dropped
        /\ UNCHANGED <<pushed, log, out, tail, cHead, cSeqNext>>
    BY <1>4 DEF DrainDrops
  <2>2. Available' = Available
    BY <2>1 DEF Available, Occupancy
  <2>3. SUFFICES ASSUME pushed < Modulus, NEW k \in 1 .. Len(out) + Available
                 PROVE  log[k] < cSeqNext /\ log[k] + 1 - k <= dropped
    BY <2>1, <2>2 DEF AnnouncedInv
  <2>4. Cardinality(lost) <= pushed
    BY <1>0 DEF CountInv
  <2>5. dropped = Cardinality(lost)
    BY <1>0, WrapSmall, <2>3, <2>4, Sizes DEF CountInv
  <2>6. k \in 1 .. Len(log)
    BY <2>1, AvailableAccepted DEF IInv
  <2> QED BY <2>1, <2>3, <2>5, <2>6 DEF AnnouncedInv, CountInv
<1>5. CASE DrainCopy \/ Release \/ UNCHANGED vars
  BY <1>5 DEF DrainCopy, Release, vars, AnnouncedInv, Available, Occupancy
<1> QED BY <1>1, <1>2, <1>3, <1>4, <1>5 DEF Next, Drain

\* Until the words wrap, a reader that trusts the header in front of a batch has been
\* told of every record of the batch and of every drop before the last of them.
THEOREM HeaderIsCover == Spec => []HeaderCoversBatch
<1>1. Init => LogInv /\ HeaderInv
  <2> SUFFICES ASSUME Init PROVE LogInv /\ HeaderInv
    OBVIOUS
  <2>1. CountInv
    BY CountStart DEF Init
  <2> QED BY <2>1 DEF Init, LogInv, InFlight, HeaderInv, AnnouncedInv
<1>2. IInv /\ LogInv /\ HeaderInv /\ [Next]_vars => LogInv' /\ HeaderInv'
  BY LogStep, CountStep, AnnouncedStep DEF IInv, HeaderInv
<1>3. IInv /\ LogInv /\ HeaderInv => HeaderCoversBatch
  <2> SUFFICES ASSUME IInv, LogInv, HeaderInv, cpc = "copy", cBatch # <<>>, pushed < Modulus
               PROVE  /\ cSeqNext > cBatch[Len(cBatch)].seq
                      /\ cDropped >= cBatch[Len(cBatch)].seq + 1 - (Len(out) + Len(cBatch))
    BY DEF HeaderCoversBatch
  <2> DEFINE k == Len(out) + Len(cBatch)
  <2>1. Len(cBatch) \in Nat /\ Len(cBatch) >= 1 /\ Len(out) \in Nat
    BY Lengths DEF IInv, TypeOK
  <2>2. PICK h \in Len(out) + 1 .. Len(log) :
          Available = h - Len(out) /\ BatchSize \in 1 .. h - Len(out)
    BY OpenBatch DEF IInv
  <2>3. k \in 1 .. Len(out) + Available /\ k \in 1 .. Len(log)
    BY <2>1, <2>2, Lengths DEF IInv, ConsumerInv
  <2>4. log[k] < cSeqNext /\ log[k] + 1 - k <= cDropped
    BY <2>3 DEF HeaderInv, AnnouncedInv
  <2>5. log[k] \in Nat /\ log[k] < Modulus /\ cSeqNext \in Nat /\ cDropped \in Nat
    <3>1. log \in Seq(Nat) /\ pushed \in Nat /\ cSeqNext \in Word /\ cDropped \in Word
      BY DEF IInv, TypeOK
    <3>2. log[k] \in Nat /\ log[k] < pushed
      BY <2>3, <3>1 DEF LogInv
    <3>3. cSeqNext \in Nat /\ cDropped \in Nat
      BY <3>1, Lengths DEF IInv
    <3>4. ASSUME NEW n \in Nat, NEW p \in Nat, n < p, p < Modulus PROVE n < Modulus
      BY <3>4, ModulusIsNat
    <3> HIDE DEF k
    <3> QED BY <3>1, <3>2, <3>3, <3>4
  <2>6. cBatch[Len(cBatch)].seq = log[k]
    <3>1. cBatch[Len(cBatch)] = Sent(log[k])
      BY <2>1 DEF IInv, ConsumerInv
    <3>2. Wrap(log[k]) = log[k]
      <4>1. log[k] \in 0 .. Modulus - 1
        BY <2>5, ModulusIsNat
      <4> QED BY <4>1, WrapSmall
    <3> QED BY <3>1, <3>2 DEF Sent
  <2> QED BY <2>1, <2>4, <2>5, <2>6
<1> QED BY <1>1, <1>2, <1>3, Invariance, PTL DEF Spec

-----------------------------------------------------------------------------
(* The ring implements the best effort log.                                *)

\* The occupancy the code computes is the backlog of the log it implements.
LEMMA Backlog == ASSUME IInv PROVE Occupancy(head, tail) = Len(log) - Len(out)
<1>1. Len(log) - Len(out) \in 0 .. Capacity
  BY Lengths, Sizes DEF IInv, IndexInv
<1> QED BY <1>1, Lengths, OccupancyDistance DEF IInv, IndexInv

\* Every step of the ring is a step of the log or none: a refusal happens only at
\* an instant when Capacity records are undelivered, and a batch is a delivery.
THEOREM RingImplementsLog == Spec => ImplementsLog
<1>1. Init => Log!Init
  BY DEF Init, Log!Init, Offered
<1>2. IInv /\ [Next]_vars => [Log!Next]_(Log!vars)
  <2> SUFFICES ASSUME IInv, [Next]_vars PROVE [Log!Next]_(Log!vars)
    OBVIOUS
  <2> USE DEF Offered, shared, prod, cons, hist
  <2>0. pushed \in Nat /\ Len(log) \in Nat /\ Len(out) \in Nat
    BY Lengths DEF IInv
  <2>1. CASE Reset
    BY <2>1 DEF Reset, Log!Next, Log!Clear
  <2>2. CASE PushLoad
    <3>1. CASE Full'
      <4>1. Len(log) - Len(out) = Capacity
        BY <2>0, <2>2, <3>1, Backlog, Sizes DEF PushLoad, Full, IInv, IndexInv
      <4>2. Log!Refuse
        BY <2>2, <3>1, <4>1 DEF PushLoad, Log!Refuse, Log!Backlog
      <4> QED BY <4>2 DEF Log!Next
    <3>2. CASE ~Full'
      BY <2>2, <3>2 DEF PushLoad, Log!vars
    <3> QED BY <3>1, <3>2
  <2>3. CASE PushClaim
    BY <2>0, <2>3 DEF PushClaim, Log!vars
  <2>4. CASE PushDrop
    BY <2>4 DEF PushDrop, Log!vars
  <2>5. CASE PushBody \/ PushSeq
    BY <2>5 DEF PushBody, PushSeq, Log!vars
  <2>6. CASE PushPublish
    <3>1. Len(log) < Len(out) + Capacity
      BY <2>6 DEF PushPublish, IInv, ProducerInv
    <3>2. Log!Accept
      BY <2>0, <2>6, <3>1, Sizes DEF PushPublish, Log!Accept, Log!Backlog
    <3> QED BY <3>2 DEF Log!Next
  <2>7. CASE DrainLoad \/ DrainHeader \/ DrainDrops \/ DrainCopy
    BY <2>7 DEF DrainLoad, DrainHeader, DrainDrops, DrainCopy, Log!vars, Full
  <2>8. CASE DrainRelease
    <3>1. PICK h \in Len(out) + 1 .. Len(log) :
            BatchSize \in 1 .. h - Len(out) /\ BatchSize <= Room
      BY <2>8, OpenBatch DEF DrainRelease, IInv
    <3>2. Room \in Nat
      BY <2>8, RoomForOne DEF DrainRelease, IInv, ConsumerInv
    <3>3. Len(cBatch) = BatchSize
      BY <2>8, <3>1, Lengths DEF DrainRelease, IInv, ConsumerInv
    <3>4. Len(out') = Len(out) + BatchSize
      BY <2>8, <3>3 DEF DrainRelease, IInv, TypeOK
    <3>5. BatchSize \in 1 .. Room /\ BatchSize <= Len(log) - Len(out)
      BY <2>0, <3>1, <3>2
    <3>6. UNCHANGED <<Offered, log>>
      BY <2>8 DEF DrainRelease, Full
    <3>7. Log!Deliver
      BY <3>4, <3>5, <3>6 DEF Log!Deliver, Log!Backlog
    <3> QED BY <3>7 DEF Log!Next
  <2>9. CASE Release \/ UNCHANGED vars
    BY <2>9 DEF Release, vars, Log!vars, Full
  <2> QED
    BY <2>1, <2>2, <2>3, <2>4, <2>5, <2>6, <2>7, <2>8, <2>9 DEF Next, Push, Drain
<1> QED BY <1>1, <1>2, Invariance, PTL DEF Spec, ImplementsLog, Log!Spec
=============================================================================
