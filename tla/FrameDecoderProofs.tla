-------------------------- MODULE FrameDecoderProofs --------------------------
(***************************************************************************)
(* Theorems about FrameDecoder, for every set of streams and every way of  *)
(* cutting them into reads.  Every step of the reader moves the position   *)
(* over a good frame, over bytes that begin none, or not at all: Moves     *)
(* says so once, and the theorems rest on it.                              *)
(***************************************************************************)
EXTENDS FrameDecoder, DataLemmas, SequenceTheorems

\* the three ways a step may change what has been decided
Stays == UNCHANGED <<wire, scan, stats, content>>

Skips(q) ==
  /\ q \in pos + 1 .. received
  /\ \A p \in pos .. q - 1 : ~Good(wire, p)
  /\ text' = text \cup (pos .. q - 1)
  /\ pos' = q
  /\ UNCHANGED <<wire, received, eof, pc, taken, content>>

Takes ==
  /\ Good(wire, pos)
  /\ End(wire, pos) <= received
  /\ taken' = Append(taken, pos)
  /\ pos' = End(wire, pos)
  /\ UNCHANGED <<wire, received, eof, pc, text, stats>>

\* A claim under a magic is a claim: its fields have their types and its end
\* lies behind its head.
LEMMA ClaimType ==
  ASSUME NEW w, WellFormed(w), NEW p \in Nat, Magic(w, p)
  PROVE  /\ w.claim[p].version \in Nat /\ w.claim[p].type \in Nat
         /\ w.claim[p].len \in Nat /\ w.claim[p].crc \in BOOLEAN
         /\ w.claim[p].seqs \in Seq(Nat)
         /\ End(w, p) \in Nat /\ End(w, p) >= p + FrameOverhead
<1>1. w.claim[p] \in Claim
  BY DEF WellFormed, Magic
<1> QED
  BY <1>1 DEF Claim, End, FrameOverhead

\* The types of the position and the stream, as they are used below.
LEMMA Basics ==
  ASSUME TypeOK
  PROVE  /\ WellFormed(wire) /\ wire.size \in Nat
         /\ received \in Nat /\ received <= wire.size
         /\ pos \in Nat /\ pos <= received
BY DEF TypeOK, WellFormed

\* A step that skips one byte has looked at it and found no good frame.
LEMMA OneByte ==
  ASSUME TypeOK, ReadInv,
         SkipShort \/ SkipPlain \/ RejectHead \/ RejectCut \/ RejectCrc \/ RejectShape
  PROVE  Skips(pos + 1)
<1> USE Basics
<1>1. pos < received /\ pos .. pos + 1 - 1 = {pos}
  BY DEF SkipShort, SkipPlain, RejectHead, RejectCut, RejectCrc, RejectShape,
         Short, Parsing, Candidate, Valid
<1>2. SkipByte
  BY DEF SkipShort, SkipPlain, RejectHead, RejectCut, RejectCrc, RejectShape, RejectCandidate
<1>3. ~Good(wire, pos)
  <2>1. CASE SkipShort
    BY <2>1, <1>1 DEF SkipShort, CouldBeFrame, Good, Intact, Magic
  <2>2. CASE SkipPlain
    BY <2>2 DEF SkipPlain, Good, Intact
  <2>3. CASE RejectHead
    BY <2>3 DEF RejectHead, KnownHead, Good, Intact, claim
  <2>4. CASE RejectCut
    <3>1. received = wire.size /\ ~Complete /\ Candidate
      BY <2>4 DEF RejectCut, ReadInv
    <3>2. End(wire, pos) \in Nat
      BY <3>1, ClaimType DEF Candidate
    <3> QED
      BY <3>1, <3>2 DEF Complete, Good, Intact
  <2>5. CASE RejectCrc
    BY <2>5 DEF RejectCrc, Good, Intact, claim
  <2>6. CASE RejectShape
    BY <2>6 DEF RejectShape, Good, Intact, claim
  <2> QED
    BY <2>1, <2>2, <2>3, <2>4, <2>5, <2>6
<1> QED
  BY <1>1, <1>2, <1>3 DEF Skips, SkipByte

\* At the end of the stream too few bytes are left for any frame.
LEMMA TailSkipped ==
  ASSUME TypeOK, ReadInv, SkipTail
  PROVE  Skips(received)
<1> USE Basics
<1>1. pos < received /\ received < pos + FrameOverhead /\ received = wire.size
  BY DEF SkipTail, Short, Parsing, Remaining, ReadInv, FrameOverhead
<1>2. ASSUME NEW p \in pos .. received - 1 PROVE ~Good(wire, p)
  <2>1. SUFFICES ASSUME Magic(wire, p) PROVE End(wire, p) > wire.size
    <3>1. ASSUME Magic(wire, p) PROVE End(wire, p) \in Nat
      BY <3>1, <1>2, ClaimType
    <3> QED
      BY <3>1 DEF Good, Intact
  <2>2. End(wire, p) \in Nat /\ End(wire, p) >= p + FrameOverhead
    BY <1>2, <2>1, ClaimType
  <2> QED
    BY <2>2, <1>1, <1>2 DEF FrameOverhead
<1> QED
  BY <1>1, <1>2 DEF Skips, SkipTail, stats

\* An accepted frame is a good frame of the whole stream, and all of it is here.
LEMMA OneFrame ==
  ASSUME TypeOK, AcceptHeader \/ DropBatch \/ AcceptBatch
  PROVE  Takes
<1> USE Basics
<1>1. Valid /\ Shaped(claim) /\ AcceptFrame
  BY DEF AcceptHeader, DropBatch, AcceptBatch
<1>2. End(wire, pos) \in Nat /\ End(wire, pos) <= received
  BY <1>1, ClaimType DEF Valid, Candidate, Complete
<1>3. Good(wire, pos)
  BY <1>1, <1>2 DEF Valid, Candidate, KnownHead, claim, Good, Intact
<1> QED
  BY <1>1, <1>2, <1>3 DEF Takes, AcceptFrame

\* Every step of the reader is one of the three.
LEMMA Moves ==
  ASSUME TypeOK, ReadInv, [Next]_vars
  PROVE  \/ Stays
         \/ \E q \in pos + 1 .. received : Skips(q)
         \/ Takes
<1>1. CASE UNCHANGED vars
  BY <1>1 DEF vars, Stays, scan, stats, content
<1>2. CASE Feed \/ Finish \/ Done \/ HoldPrefix \/ HoldBody
  BY <1>2 DEF Feed, Finish, Done, HoldPrefix, HoldBody, Return, Stays, scan, stats, content
<1>3. CASE SkipTail
  BY <1>3, TailSkipped DEF Skips
<1>4. CASE SkipShort \/ SkipPlain \/ RejectHead \/ RejectCut \/ RejectCrc \/ RejectShape
  BY <1>4, OneByte DEF Skips
<1>5. CASE AcceptHeader \/ DropBatch \/ AcceptBatch
  BY <1>5, OneFrame
<1> QED
  BY <1>1, <1>2, <1>3, <1>4, <1>5 DEF Next, Parse

-----------------------------------------------------------------------------
(* The inductive invariant. *)

LEMMA InitInv == Init => DecoderInv
<1> SUFFICES ASSUME Init PROVE DecoderInv
  OBVIOUS
<1> USE DEF Init
<1>1. wire \in Wires /\ WellFormed(wire)
  BY WiresAssumption
<1>2. TypeOK
  <2>1. wire.size \in Nat
    BY <1>1 DEF WellFormed
  <2>2. received \in 0 .. wire.size /\ pos \in 0 .. received
    BY <2>1
  <2>3. taken \in Seq(Nat) /\ records \in Seq(Nat)
    OBVIOUS
  <2>4. text \subseteq Nat /\ expectSeq \in Nat \cup {NoSeq}
    OBVIOUS
  <2> QED
    BY <1>1, <2>2, <2>3, <2>4 DEF TypeOK
<1>3. TakenSet = {} /\ text = {}
  BY DEF TakenSet
<1>4. SentInv
  <2>1. wire.sent \subseteq Nat
    BY <1>1 DEF WellFormed
  <2> QED
    BY <2>1 DEF SentInv
<1> QED
  BY <1>2, <1>3, <1>4 DEF DecoderInv, ReadInv, WaitInv, JudgedInv

\* What the three moves do to the set of accepted frames.
LEMMA TakenGrows ==
  ASSUME TypeOK, Takes
  PROVE  TakenSet' = TakenSet \cup {pos}
<1>1. taken \in Seq(Nat) /\ pos \in Nat /\ taken' = Append(taken, pos)
  BY Basics DEF TypeOK, Takes
<1>2. Len(taken') = Len(taken) + 1 /\ Len(taken) \in Nat
  BY <1>1
<1>3. \A i \in 1 .. Len(taken') :
        taken'[i] = IF i = Len(taken) + 1 THEN pos ELSE taken[i]
  BY <1>1
<1> QED
  BY <1>2, <1>3 DEF TakenSet

LEMMA TakenStays ==
  ASSUME taken' = taken
  PROVE  TakenSet' = TakenSet
BY DEF TakenSet

LEMMA TypeNext == TypeOK /\ ReadInv /\ [Next]_vars => TypeOK'
<1> SUFFICES ASSUME TypeOK, ReadInv, [Next]_vars PROVE TypeOK'
  OBVIOUS
<1> USE DEF TypeOK
<1>1. CASE UNCHANGED vars
  BY <1>1 DEF vars
<1>2. CASE Feed
  BY <1>2, Basics DEF Feed, scan, stats, content
<1>3. CASE Finish
  BY <1>3 DEF Finish, scan, stats, content
<1>4. CASE Done \/ HoldPrefix \/ HoldBody
  BY <1>4 DEF Done, HoldPrefix, HoldBody, Return, scan, stats, content
<1>5. CASE SkipTail
  BY <1>5, Basics DEF SkipTail, stats, content
<1>6. CASE SkipShort \/ SkipPlain \/ RejectHead \/ RejectCut \/ RejectCrc \/ RejectShape
  <2>1. Skips(pos + 1)
    BY <1>6, OneByte
  <2>2. falseSync' \in Nat /\ crcRejections' \in Nat
    BY <1>6 DEF SkipShort, SkipPlain, RejectHead, RejectCut, RejectCrc, RejectShape,
                RejectCandidate, stats
  <2>3. pos' = pos + 1 /\ pos' \in 0 .. received /\ text' \subseteq Nat
    BY <2>1, Basics DEF Skips
  <2> QED
    BY <2>1, <2>2, <2>3 DEF Skips, content
<1>7. CASE AcceptHeader \/ DropBatch \/ AcceptBatch
  <2>1. Takes
    BY <1>7, OneFrame
  <2>2. pos \in Nat /\ Magic(wire, pos) /\ WellFormed(wire)
    BY <2>1, Basics DEF Takes, Good, Intact
  <2>3. End(wire, pos) \in Nat /\ Seqs \in Seq(Nat)
    BY <2>2, ClaimType DEF Seqs, claim
  <2>4. taken' \in Seq(Nat) /\ pos' \in 0 .. received'
    BY <2>1, <2>2, <2>3 DEF Takes
  <2>5. UNCHANGED <<wire, received, eof, pc, text, stats>>
    BY <2>1 DEF Takes
  <2>6. CASE AcceptHeader
    BY <2>4, <2>5, <2>6 DEF AcceptHeader, stats
  <2>7. CASE DropBatch
    <3>1. beforeHeader' \in Nat
      BY <2>3, <2>7 DEF DropBatch
    <3> QED
      BY <2>4, <2>5, <2>7, <3>1 DEF DropBatch, stats
  <2>8. CASE AcceptBatch
    <3>1. IsFiniteSet(Jumps) /\ Cardinality(Jumps) \in Nat
      <4>1. Len(Seqs) \in Nat /\ Jumps \subseteq 1 .. Len(Seqs)
        BY <2>3 DEF Jumps
      <4>2. IsFiniteSet(1 .. Len(Seqs))
        BY <4>1, FS_Interval
      <4>3. IsFiniteSet(Jumps)
        BY <4>1, <4>2, FS_Subset
      <4> QED
        BY <4>3, FS_CardinalityType
    <3>2. gaps' \in Nat
      BY <2>8, <3>1 DEF AcceptBatch
    <3>3. records' \in Seq(Nat)
      BY <2>3, <2>8 DEF AcceptBatch
    <3>4. expectSeq' \in Nat \cup {NoSeq}
      <4>1. CASE Seqs = <<>>
        BY <2>8, <4>1 DEF AcceptBatch
      <4>2. CASE Seqs # <<>>
        <5>1. Seqs[Len(Seqs)] \in Nat
          BY <2>3, <4>2
        <5> QED
          BY <2>8, <4>2, <5>1 DEF AcceptBatch
      <4> QED
        BY <4>1, <4>2
    <3> QED
      BY <2>4, <2>5, <2>8, <3>2, <3>3, <3>4 DEF AcceptBatch, stats
  <2> QED
    BY <1>7, <2>6, <2>7, <2>8
<1> QED
  BY <1>1, <1>2, <1>3, <1>4, <1>5, <1>6, <1>7 DEF Next, Parse

LEMMA ReadNext == TypeOK /\ ReadInv /\ [Next]_vars => ReadInv'
<1> SUFFICES ASSUME TypeOK, ReadInv, [Next]_vars PROVE ReadInv'
  OBVIOUS
<1> USE Basics
<1>1. wire' \in Wires /\ (eof' => received' = wire'.size)
  <2>1. wire \in Wires /\ (eof => received = wire.size)
    BY DEF ReadInv
  <2>2. wire' = wire
    BY Moves DEF Stays, Skips, Takes
  <2>3. CASE Feed
    BY <2>1, <2>2, <2>3 DEF Feed
  <2>4. CASE Finish
    BY <2>1, <2>2, <2>4 DEF Finish
  <2>5. CASE Parse \/ UNCHANGED vars
    <3>1. UNCHANGED <<received, eof>>
      BY <2>5 DEF vars, Parse, Done, SkipTail, HoldPrefix, SkipShort, SkipPlain, RejectHead,
                  HoldBody, RejectCut, RejectCrc, RejectShape, AcceptHeader, DropBatch,
                  AcceptBatch, Return, SkipByte, RejectCandidate, AcceptFrame
    <3> QED
      BY <2>1, <2>2, <3>1
  <2> QED
    BY <2>3, <2>4, <2>5 DEF Next
<1>2. CASE Stays
  BY <1>1, <1>2, TakenStays DEF Stays, scan, ReadInv
<1>3. CASE \E q \in pos + 1 .. received : Skips(q)
  <2>1. PICK q \in pos + 1 .. received : Skips(q)
    BY <1>3
  <2>2. TakenSet' = TakenSet
    BY <2>1, TakenStays DEF Skips
  <2>3. \A p \in TakenSet : End(wire, p) <= pos'
    <3>1. ASSUME NEW p \in TakenSet PROVE End(wire, p) <= pos'
      <4>1. p \in Nat /\ Good(wire, p) /\ End(wire, p) <= pos
        BY <3>1 DEF ReadInv, TakenSet, TypeOK
      <4>2. End(wire, p) \in Nat
        BY <4>1, ClaimType DEF Good, Intact
      <4> QED
        BY <2>1, <4>1, <4>2 DEF Skips
    <3> QED
      BY <3>1
  <2>4. \A p \in text' : p < pos'
    <3>1. text \subseteq Nat
      BY DEF TypeOK
    <3> QED
      BY <2>1, <3>1 DEF Skips, ReadInv
  <2>5. wire' = wire
    BY <2>1 DEF Skips
  <2> QED
    BY <1>1, <2>2, <2>3, <2>4, <2>5 DEF ReadInv
<1>4. CASE Takes
  <2>1. TakenSet' = TakenSet \cup {pos}
    BY <1>4, TakenGrows
  <2>2. End(wire, pos) \in Nat /\ End(wire, pos) > pos
    BY <1>4, ClaimType DEF Takes, Good, Intact, FrameOverhead
  <2>3. ASSUME NEW p \in TakenSet PROVE End(wire, p) <= pos'
    <3>1. p \in Nat /\ Good(wire, p) /\ End(wire, p) <= pos
      BY <2>3 DEF ReadInv, TakenSet, TypeOK
    <3>2. End(wire, p) \in Nat
      BY <3>1, ClaimType DEF Good, Intact
    <3> QED
      BY <1>4, <2>2, <3>1, <3>2 DEF Takes
  <2>4. \A p \in text' : p < pos'
    <3>1. text \subseteq Nat
      BY DEF TypeOK
    <3> QED
      BY <1>4, <2>2, <3>1 DEF Takes, ReadInv
  <2>5. wire' = wire /\ pos' = End(wire, pos) /\ Good(wire, pos)
    BY <1>4 DEF Takes
  <2>6. \A p \in TakenSet' : Good(wire, p) /\ End(wire, p) <= pos'
    BY <2>1, <2>2, <2>3, <2>5 DEF ReadInv
  <2> QED
    BY <1>1, <2>4, <2>5, <2>6 DEF ReadInv
<1> QED
  BY <1>2, <1>3, <1>4, Moves

\* A parse returns for one of the three reasons WaitInv names.
LEMMA WaitNext == TypeOK /\ WaitInv /\ [Next]_vars => WaitInv'
<1> SUFFICES ASSUME TypeOK, WaitInv, [Next]_vars PROVE WaitInv'
  OBVIOUS
<1> USE Basics
<1>1. CASE UNCHANGED vars
  BY <1>1 DEF vars, WaitInv, Remaining
<1>2. CASE Feed \/ Finish
  BY <1>2 DEF Feed, Finish, WaitInv
<1>3. CASE Done
  BY <1>3 DEF Done, Return, scan, WaitInv
<1>4. CASE HoldPrefix
  BY <1>4 DEF HoldPrefix, Short, Remaining, Return, scan, WaitInv
<1>5. CASE HoldBody
  <2>1. End(wire, pos) \in Nat /\ Magic(wire, pos)
    BY <1>5, ClaimType DEF HoldBody, Candidate
  <2> QED
    BY <1>5, <2>1 DEF HoldBody, Complete, Return, scan, WaitInv
<1>6. CASE SkipTail \/ SkipShort \/ SkipPlain \/ RejectHead \/ RejectCut \/ RejectCrc \/ RejectShape
  BY <1>6 DEF SkipTail, SkipShort, SkipPlain, RejectHead, RejectCut, RejectCrc, RejectShape,
              Short, Candidate, Valid, Parsing, RejectCandidate, SkipByte, WaitInv
<1>7. CASE AcceptHeader \/ DropBatch \/ AcceptBatch
  BY <1>7 DEF AcceptHeader, DropBatch, AcceptBatch, Valid, Candidate, Parsing, AcceptFrame, WaitInv
<1> QED
  BY <1>1, <1>2, <1>3, <1>4, <1>5, <1>6, <1>7 DEF Next, Parse

\* Whatever is skipped before the end of the stream could be judged.
LEMMA JudgedNext == TypeOK /\ JudgedInv /\ [Next]_vars => JudgedInv'
<1> SUFFICES ASSUME TypeOK, JudgedInv, [Next]_vars PROVE JudgedInv'
  OBVIOUS
<1> USE Basics
<1> DEFINE Judged(p, r) == Magic(wire, p) =>
             /\ p + FrameOverhead <= r
             /\ KnownHead(wire.claim[p]) => End(wire, p) <= r
<1>1. CASE UNCHANGED vars \/ Finish \/ SkipTail \/ RejectCut
  BY <1>1 DEF vars, Finish, SkipTail, RejectCut, RejectCandidate, SkipByte, JudgedInv
<1>2. CASE Feed
  <2>1. received' \in Nat /\ received' >= received /\ wire' = wire /\ text' = text /\ eof' = eof /\ ~eof
    BY <1>2 DEF Feed, scan
  <2>2. ASSUME NEW p \in text PROVE Judged(p, received')
    <3>1. p \in Nat /\ Judged(p, received)
      BY <2>1, <2>2 DEF JudgedInv, TypeOK
    <3>2. Magic(wire, p) => End(wire, p) \in Nat
      BY <3>1, ClaimType
    <3> QED
      BY <2>1, <3>1, <3>2 DEF FrameOverhead
  <2> QED
    BY <2>1, <2>2 DEF JudgedInv
<1>3. CASE Done \/ HoldPrefix \/ HoldBody
  BY <1>3 DEF Done, HoldPrefix, HoldBody, Return, scan, JudgedInv
<1>4. CASE SkipShort \/ SkipPlain \/ RejectHead \/ RejectCrc \/ RejectShape
  <2>1. SkipByte
    BY <1>4 DEF SkipShort, SkipPlain, RejectHead, RejectCrc, RejectShape, RejectCandidate
  <2>2. Judged(pos, received)
    <3>1. CASE SkipShort
      BY <3>1 DEF SkipShort, CouldBeFrame, Magic
    <3>2. CASE SkipPlain
      BY <3>2 DEF SkipPlain
    <3>3. CASE RejectHead
      BY <3>3 DEF RejectHead, Candidate, Remaining, claim, FrameOverhead
    <3>4. CASE RejectCrc \/ RejectShape
      BY <3>4 DEF RejectCrc, RejectShape, Valid, Candidate, Remaining, Complete, FrameOverhead
    <3> QED
      BY <1>4, <3>1, <3>2, <3>3, <3>4
  <2> QED
    BY <2>1, <2>2 DEF SkipByte, JudgedInv
<1>5. CASE AcceptHeader \/ DropBatch \/ AcceptBatch
  BY <1>5 DEF AcceptHeader, DropBatch, AcceptBatch, AcceptFrame, JudgedInv
<1> QED
  BY <1>1, <1>2, <1>3, <1>4, <1>5 DEF Next, Parse

\* The reader passes the beginning of an intact frame only by accepting it.
LEMMA SentNext == TypeOK /\ ReadInv /\ SentInv /\ [Next]_vars => SentInv'
<1> SUFFICES ASSUME TypeOK, ReadInv, SentInv, [Next]_vars,
                    NEW s \in wire'.sent, s < pos', wire'.claim[s].version \in AcceptedVersions
             PROVE  s \in TakenSet'
  BY DEF SentInv
<1> USE Basics
<1>1. wire' = wire
  BY Moves DEF Stays, Skips, Takes
<1>2. s \in Nat /\ Good(wire, s) /\ \A p \in wire.first : (Good(wire, p) /\ p < s) => End(wire, p) <= s
  <2>1. s \in Nat
    BY <1>1 DEF WellFormed
  <2> QED
    BY <1>1, <2>1, ChecksumAssumption DEF ReadInv, Good
<1>3. s < pos => s \in TakenSet
  BY <1>1 DEF SentInv
<1>4. CASE Stays
  BY <1>3, <1>4, TakenStays DEF Stays, scan
<1>5. CASE \E q \in pos + 1 .. received : Skips(q)
  <2>1. PICK q \in pos + 1 .. received : Skips(q)
    BY <1>5
  <2>2. s < pos
    BY <1>2, <2>1 DEF Skips
  <2> QED
    BY <1>3, <2>1, <2>2, TakenStays DEF Skips
<1>6. CASE Takes
  <2>1. TakenSet' = TakenSet \cup {pos} /\ s < End(wire, pos)
    BY <1>6, TakenGrows DEF Takes
  <2>2. End(wire, pos) \in Nat /\ pos \in wire.first
    BY <1>6, ClaimType DEF Takes, Good, Intact, Magic
  <2>3. s <= pos
    BY <1>2, <1>6, <2>1, <2>2 DEF Takes
  <2> QED
    BY <1>2, <1>3, <2>1, <2>3
<1> QED
  BY <1>4, <1>5, <1>6, Moves

\* The reader waits for a reason, judges what it skips and accepts what is
\* intact, however the stream is cut into reads.
THEOREM InvariantHolds == Spec => []DecoderInv
<1>1. DecoderInv /\ [Next]_vars => DecoderInv'
  BY TypeNext, ReadNext, WaitNext, JudgedNext, SentNext DEF DecoderInv
<1> QED
  BY InitInv, <1>1, PTL DEF Spec

-----------------------------------------------------------------------------
(* The properties. *)

\* The reader's variables keep their types for every stream of any length.
THEOREM DecoderTypes == Spec => []TypeOK
<1>1. DecoderInv => TypeOK
  BY DEF DecoderInv
<1> QED
  BY <1>1, InvariantHolds, PTL

\* Between two reads an intact frame that is here has been accepted, or a magic
\* before it claims bytes that are not; after the end it has been accepted.
THEOREM IntactFramesAreTaken == Spec => []IntactFrameIsTaken
<1>1. DecoderInv => IntactFrameIsTaken
  <2> SUFFICES ASSUME DecoderInv, pc = "idle", NEW s \in wire.sent,
                      wire.claim[s].version \in AcceptedVersions, End(wire, s) <= received,
                      s \notin TakenSet
               PROVE  ~eof /\ pos < s /\ Magic(wire, pos) /\ End(wire, pos) > received
    BY DEF IntactFrameIsTaken
  <2>1. TypeOK /\ WellFormed(wire) /\ received \in Nat /\ pos \in Nat /\ s \in Nat
    BY Basics DEF DecoderInv, WellFormed
  <2>2. Magic(wire, s)
    BY ChecksumAssumption DEF DecoderInv, ReadInv, Intact
  <2>3. End(wire, s) \in Nat /\ End(wire, s) >= s + FrameOverhead
    BY <2>1, <2>2, ClaimType
  <2>4. s >= pos
    BY <2>1 DEF DecoderInv, SentInv
  <2>5. pos # received
    BY <2>1, <2>3, <2>4 DEF FrameOverhead
  <2>6. ~(Remaining < FrameOverhead)
    BY <2>1, <2>3, <2>4 DEF FrameOverhead, Remaining
  <2>7. ~eof /\ Magic(wire, pos) /\ End(wire, pos) > received
    BY <2>5, <2>6 DEF DecoderInv, WaitInv
  <2>8. s # pos
    BY <2>3, <2>7, <2>1
  <2> QED
    BY <2>1, <2>4, <2>7, <2>8
<1> QED
  BY <1>1, InvariantHolds, PTL

\* The reader implements the scan of the whole stream, so which frames are
\* accepted and which bytes are text does not depend on the reads.
THEOREM DecoderImplementsScan == Spec => ImplementsScan
<1>1. Init => Scan!Init
  BY DEF Init, Scan!Init
<1> DEFINE SameFrames == \A w, p : Scan!End(w, p) = End(w, p) /\ (Scan!Good(w, p) <=> Good(w, p))
<1>4. SameFrames
  <2>1. \A w, p : Scan!End(w, p) = End(w, p) /\ (Scan!Magic(w, p) <=> Magic(w, p))
    BY DEF Scan!End, End, Scan!FrameOverhead, FrameOverhead, Scan!Magic, Magic
  <2>2. \A c : Scan!Shaped(c) <=> Shaped(c)
    BY DEF Scan!Shaped, Shaped, Scan!HeaderSize, HeaderSize, Scan!HeaderType, HeaderType
  <2> QED
    BY <2>1, <2>2 DEF Scan!Good, Good, Scan!Intact, Intact, Scan!AcceptedVersions, AcceptedVersions,
                      Scan!HeaderType, HeaderType, Scan!BatchType, BatchType
<1> HIDE DEF SameFrames
<1>2. TypeOK /\ ReadInv /\ [Next]_vars => [Scan!Next]_(Scan!vars)
  <2> SUFFICES ASSUME TypeOK, ReadInv, [Next]_vars PROVE [Scan!Next]_(Scan!vars)
    OBVIOUS
  <2>1. CASE Stays
    BY <2>1 DEF Stays, scan, Scan!vars
  <2>2. CASE \E q \in pos + 1 .. received : Skips(q)
    <3>1. PICK q \in pos + 1 .. received : Skips(q)
      BY <2>2
    <3> DEFINE n == q - pos
    <3>2. n \in 1 .. wire.size - pos /\ pos + n = q /\ pos .. q - 1 = pos .. pos + n - 1
      BY Basics
    <3> HIDE DEF n
    <3>3. /\ \A p \in pos .. pos + n - 1 : ~Good(wire, p)
          /\ text' = text \cup (pos .. pos + n - 1)
          /\ pos' = pos + n
          /\ UNCHANGED <<wire, taken>>
      BY <3>1, <3>2 DEF Skips
    <3>4. Scan!Skip
      BY <1>4, <3>2, <3>3 DEF Scan!Skip, SameFrames
    <3> QED
      BY <3>4 DEF Scan!Next
  <2>3. CASE Takes
    BY <1>4, <2>3 DEF Takes, Scan!Next, Scan!Take, SameFrames
  <2> QED
    BY <2>1, <2>2, <2>3, Moves
<1>3. DecoderInv => TypeOK /\ ReadInv
  BY DEF DecoderInv
<1> QED
  BY <1>1, <1>2, <1>3, InvariantHolds, PTL DEF Spec, ImplementsScan, Scan!Spec

\* One more set in a union.
LEMMA UnionOfOneMore ==
  ASSUME NEW A, NEW b
  PROVE  UNION (A \cup {b}) = (UNION A) \cup b
OBVIOUS

\* Every byte behind the position is text or in one accepted frame, not both.
THEOREM BytesGoOneWay == Spec => []EveryByteOnce
<1>1. Init => EveryByteOnce
  <2> SUFFICES ASSUME Init PROVE EveryByteOnce
    OBVIOUS
  <2>1. TakenSet = {} /\ text = {} /\ 0 .. pos - 1 = {}
    BY DEF Init, TakenSet
  <2> QED
    BY <2>1 DEF EveryByteOnce
<1>2. TypeOK /\ ReadInv /\ EveryByteOnce /\ [Next]_vars => EveryByteOnce'
  <2> SUFFICES ASSUME TypeOK, ReadInv, EveryByteOnce, [Next]_vars PROVE EveryByteOnce'
    OBVIOUS
  <2> USE Basics
  <2>0. \A p \in TakenSet : Span(wire, p) \subseteq 0 .. pos - 1
    BY DEF EveryByteOnce
  <2>1. CASE Stays
    BY <2>1, TakenStays DEF Stays, scan, EveryByteOnce
  <2>2. CASE \E q \in pos + 1 .. received : Skips(q)
    <3>1. PICK q \in pos + 1 .. received : Skips(q)
      BY <2>2
    <3>2. TakenSet' = TakenSet /\ wire' = wire /\ text' = text \cup (pos .. q - 1) /\ pos' = q
      BY <3>1, TakenStays DEF Skips
    <3>3. 0 .. q - 1 = (0 .. pos - 1) \cup (pos .. q - 1) /\ (0 .. pos - 1) \cap (pos .. q - 1) = {}
      OBVIOUS
    <3>4. 0 .. pos' - 1 = text' \cup UNION {Span(wire, p) : p \in TakenSet}
      BY <3>2, <3>3 DEF EveryByteOnce
    <3>5. \A p \in TakenSet : Span(wire, p) \cap text' = {}
      BY <2>0, <3>2, <3>3 DEF EveryByteOnce
    <3> QED
      BY <3>2, <3>4, <3>5 DEF EveryByteOnce
  <2>3. CASE Takes
    <3>1. TakenSet' = TakenSet \cup {pos} /\ wire' = wire /\ text' = text /\ pos' = End(wire, pos)
      BY <2>3, TakenGrows DEF Takes
    <3>2. End(wire, pos) \in Nat /\ End(wire, pos) > pos
      BY <2>3, ClaimType DEF Takes, Good, Intact, FrameOverhead
    <3>3. /\ 0 .. End(wire, pos) - 1 = (0 .. pos - 1) \cup Span(wire, pos)
          /\ (0 .. pos - 1) \cap Span(wire, pos) = {}
      BY <3>2 DEF Span
    <3>4. UNION {Span(wire, p) : p \in TakenSet'}
            = (UNION {Span(wire, p) : p \in TakenSet}) \cup Span(wire, pos)
      <4>1. {Span(wire, p) : p \in TakenSet'} = {Span(wire, p) : p \in TakenSet} \cup {Span(wire, pos)}
        BY <3>1
      <4> QED
        BY <4>1, UnionOfOneMore
    <3>5. 0 .. pos' - 1 = text' \cup UNION {Span(wire, p) : p \in TakenSet'}
      BY <3>1, <3>3, <3>4 DEF EveryByteOnce
    <3>6. text \subseteq 0 .. pos - 1
      BY DEF EveryByteOnce
    <3>7. \A p \in TakenSet' : Span(wire, p) \cap text' = {}
      BY <3>1, <3>3, <3>6 DEF EveryByteOnce
    <3>8. \A p, r \in TakenSet' : p # r => Span(wire, p) \cap Span(wire, r) = {}
      BY <2>0, <3>1, <3>3 DEF EveryByteOnce
    <3> QED
      BY <3>1, <3>5, <3>7, <3>8 DEF EveryByteOnce
  <2> QED
    BY <2>1, <2>2, <2>3, Moves
<1>3. DecoderInv => TypeOK /\ ReadInv
  BY DEF DecoderInv
<1> QED
  BY <1>1, <1>2, <1>3, InvariantHolds, PTL DEF Spec

\* The bytes judged so far are finitely many.
LEMMA HeadsFinite ==
  ASSUME TypeOK, ReadInv
  PROVE  IsFiniteSet(Heads) /\ IsFiniteSet(BadSums) /\ pos \notin text
<1>1. text \subseteq 0 .. pos - 1
  BY Basics DEF ReadInv, TypeOK
<1>2. IsFiniteSet(0 .. pos - 1)
  BY Basics, FS_Interval
<1>3. Heads \subseteq 0 .. pos - 1 /\ BadSums \subseteq 0 .. pos - 1
  BY <1>1 DEF Heads, BadSums
<1>4. IsFiniteSet(Heads) /\ IsFiniteSet(BadSums)
  BY <1>2, <1>3, FS_Subset
<1> QED
  BY <1>1, <1>4, Basics

\* The counters of rejections count bytes of the stream, whatever the reads.
THEOREM CountersCountTheStream == Spec => []CountsAreOfTheStream
<1>1. Init => CountsAreOfTheStream
  <2> SUFFICES ASSUME Init PROVE CountsAreOfTheStream
    OBVIOUS
  <2>1. Heads = {} /\ BadSums = {}
    BY DEF Init, Heads, BadSums
  <2> QED
    BY <2>1, FS_EmptySet DEF Init, CountsAreOfTheStream
<1>2. TypeOK /\ ReadInv /\ JudgedInv /\ CountsAreOfTheStream /\ [Next]_vars
        => CountsAreOfTheStream'
  <2> SUFFICES ASSUME TypeOK, ReadInv, JudgedInv, CountsAreOfTheStream, [Next]_vars
               PROVE  CountsAreOfTheStream'
    OBVIOUS
  <2> USE Basics
  <2>1. CASE UNCHANGED stats /\ Heads' = Heads /\ BadSums' = BadSums
    BY <2>1 DEF stats, CountsAreOfTheStream
  <2>2. CASE UNCHANGED vars
    BY <2>1, <2>2 DEF vars, stats, Heads, BadSums
  <2>3. CASE Feed
    <3>1. received' \in Nat /\ received' >= received /\ wire' = wire /\ text' = text /\ ~eof
      BY <2>3 DEF Feed, scan
    <3>2. Heads' = Heads
      <4>1. ASSUME NEW p \in text, Magic(wire, p)
            PROVE  p + FrameOverhead <= received' /\ p + FrameOverhead <= received
        <5>1. p \in Nat /\ p + FrameOverhead <= received
          BY <3>1, <4>1 DEF JudgedInv, TypeOK
        <5> QED
          BY <3>1, <5>1 DEF FrameOverhead
      <4> QED
        BY <3>1, <4>1 DEF Heads
    <3>3. ASSUME NEW p \in Heads, KnownHead(wire.claim[p])
          PROVE  End(wire, p) <= received' <=> End(wire, p) <= received
      <4>1. p \in text /\ p \in Nat /\ Magic(wire, p)
        BY <3>3 DEF Heads, TypeOK
      <4>2. End(wire, p) \in Nat /\ End(wire, p) <= received
        BY <3>1, <3>3, <4>1, ClaimType DEF JudgedInv
      <4> QED
        BY <3>1, <4>2
    <3>4. BadSums' = BadSums
      BY <3>1, <3>2, <3>3 DEF BadSums
    <3> QED
      BY <2>1, <2>3, <3>2, <3>4 DEF Feed
  <2>4. CASE Finish \/ Done \/ HoldPrefix \/ HoldBody \/ AcceptHeader \/ DropBatch \/ AcceptBatch
    <3>1. UNCHANGED <<wire, text, received, stats>>
      BY <2>4 DEF Finish, Done, HoldPrefix, HoldBody, Return, AcceptHeader, DropBatch,
                  AcceptBatch, AcceptFrame, scan
    <3> QED
      BY <2>1, <3>1 DEF Heads, BadSums
  <2>5. CASE SkipTail
    <3>1. /\ UNCHANGED <<wire, received, stats>>
          /\ text' = text \cup (pos .. received - 1)
          /\ received < pos + FrameOverhead
      BY <2>5 DEF SkipTail, Short, Remaining, FrameOverhead
    <3>2. \A p \in pos .. received - 1 : ~(p + FrameOverhead <= received)
      BY <3>1 DEF FrameOverhead
    <3>3. Heads' = Heads
      BY <3>1, <3>2 DEF Heads
    <3>4. BadSums' = BadSums
      BY <3>1, <3>3 DEF BadSums
    <3> QED
      BY <2>1, <3>1, <3>3, <3>4
  <2>6. CASE SkipShort \/ SkipPlain
    <3>1. UNCHANGED <<wire, received, stats>> /\ text' = text \cup {pos} /\ ~Magic(wire, pos)
      BY <2>6 DEF SkipShort, SkipPlain, SkipByte, CouldBeFrame, Magic
    <3>2. Heads' = Heads
      BY <3>1 DEF Heads
    <3>3. BadSums' = BadSums
      BY <3>1, <3>2 DEF BadSums
    <3> QED
      BY <2>1, <3>1, <3>2, <3>3
  <2>7. CASE RejectHead \/ RejectCut \/ RejectCrc \/ RejectShape
    <3>1. /\ UNCHANGED <<wire, received>> /\ text' = text \cup {pos}
          /\ falseSync' = falseSync + 1
          /\ Candidate
      BY <2>7 DEF RejectHead, RejectCut, RejectCrc, RejectShape, RejectCandidate, SkipByte, Valid
    <3>2. Heads' = Heads \cup {pos} /\ pos \notin Heads /\ pos \notin BadSums
      BY <3>1, HeadsFinite DEF Heads, BadSums, Candidate, Remaining, FrameOverhead
    <3>3. falseSync' = Cardinality(Heads')
      BY <3>1, <3>2, HeadsFinite, FS_AddElement DEF CountsAreOfTheStream
    <3>4. crcRejections' = Cardinality(BadSums')
      <4>1. CASE RejectCrc
        <5>1. BadSums' = BadSums \cup {pos} /\ crcRejections' = crcRejections + 1
          BY <3>1, <3>2, <4>1 DEF BadSums, RejectCrc, Complete, claim
        <5> QED
          BY <3>2, <5>1, HeadsFinite, FS_AddElement DEF CountsAreOfTheStream
      <4>2. CASE RejectHead \/ RejectCut \/ RejectShape
        <5>1. crcRejections' = crcRejections
          BY <4>2 DEF RejectHead, RejectCut, RejectShape
        <5>2. ~(KnownHead(wire.claim[pos]) /\ End(wire, pos) <= received /\ ~wire.claim[pos].crc)
          BY <4>2 DEF RejectHead, RejectCut, RejectShape, Valid, Complete, claim
        <5>3. BadSums' = BadSums
          BY <3>1, <3>2, <5>2 DEF BadSums
        <5> QED
          BY <5>1, <5>3 DEF CountsAreOfTheStream
      <4> QED
        BY <2>7, <4>1, <4>2
    <3> QED
      BY <3>3, <3>4 DEF CountsAreOfTheStream
  <2> QED
    BY <2>2, <2>3, <2>4, <2>5, <2>6, <2>7 DEF Next, Parse
<1>3. DecoderInv => TypeOK /\ ReadInv /\ JudgedInv
  BY DEF DecoderInv
<1> QED
  BY <1>1, <1>2, <1>3, InvariantHolds, PTL DEF Spec

-----------------------------------------------------------------------------
(* The records. *)

HeaderPlaces == {i \in 1 .. Len(taken) : wire.claim[taken[i]].type = HeaderType}

\* Where the first header is among the frames.
FirstPlace(places, first) ==
  IF places = {} THEN first = 0 ELSE first \in places /\ \A i \in places : first <= i

LEMMA FirstOfTheHeaders ==
  ASSUME taken \in Seq(Nat)
  PROVE  FirstPlace(HeaderPlaces, FirstHeader)
<1>1. FirstHeader = IF HeaderPlaces # {} THEN Min(HeaderPlaces) ELSE 0
  BY DEF FirstHeader, SelectInSeq, HeaderPlaces
<1>2. HeaderPlaces \in SUBSET Nat
  BY DEF HeaderPlaces
<1> QED
  BY <1>1, <1>2, MinIsLeast DEF FirstPlace

LEMMA FirstOfTheHeadersNext ==
  ASSUME taken' \in Seq(Nat)
  PROVE  FirstPlace(HeaderPlaces', FirstHeader')
<1>1. FirstHeader' = IF HeaderPlaces' # {} THEN Min(HeaderPlaces') ELSE 0
  BY DEF FirstHeader, SelectInSeq, HeaderPlaces
<1>2. HeaderPlaces' \in SUBSET Nat
  BY DEF HeaderPlaces
<1> QED
  BY <1>1, <1>2, MinIsLeast DEF FirstPlace

LEMMA FirstPlaceMoves ==
  ASSUME NEW n \in Nat, NEW places \in SUBSET (1 .. n), NEW first, NEW next,
         FirstPlace(places, first)
  PROVE  /\ first # 0 => first \in 1 .. n
         /\ FirstPlace(places, next) => next = first
         /\ FirstPlace(places \cup {n + 1}, next) => next = IF first # 0 THEN first ELSE n + 1
<1>1. CASE places = {}
  <2>1. first = 0
    BY <1>1 DEF FirstPlace
  <2>2. FirstPlace(places, next) => next = 0
    BY <1>1 DEF FirstPlace
  <2>3. FirstPlace(places \cup {n + 1}, next) => next = n + 1
    BY <1>1 DEF FirstPlace
  <2> QED
    BY <2>1, <2>2, <2>3
<1>2. CASE places # {}
  <2>1. first \in places /\ first \in 1 .. n /\ \A i \in places : first <= i
    BY <1>2 DEF FirstPlace
  <2>2. ASSUME FirstPlace(places, next) PROVE next = first
    <3>1. next \in places /\ next \in 1 .. n /\ next <= first /\ first <= next
      BY <1>2, <2>1, <2>2 DEF FirstPlace
    <3> QED
      BY <2>1, <3>1
  <2>3. ASSUME FirstPlace(places \cup {n + 1}, next) PROVE next = first
    <3>1. next \in places \cup {n + 1} /\ next <= first
      BY <2>1, <2>3 DEF FirstPlace
    <3>2. next \in places
      BY <2>1, <3>1
    <3>3. next \in 1 .. n /\ first <= next
      BY <2>1, <3>2
    <3> QED
      BY <2>1, <3>1, <3>3
  <2> QED
    BY <2>1, <2>2, <2>3
<1> QED
  BY <1>1, <1>2

\* A sequence that is one longer, in parts.
LEMMA PartsOfMore ==
  ASSUME NEW s \in Seq(Nat), NEW x \in Nat
  PROVE  LET t == Append(s, x) n == Len(s) IN
         /\ SubSeq(t, 1, n) = s
         /\ SubSeq(t, n + 1, n + 1) = Append(<<>>, x)
         /\ \A f \in 1 .. n : /\ SubSeq(t, 1, f - 1) = SubSeq(s, 1, f - 1)
                             /\ SubSeq(t, f, n + 1) = Append(SubSeq(s, f, n), x)
<1> DEFINE t == Append(s, x)
           n == Len(s)
<1>1. SubSeq(t, 1, n) = s
  OBVIOUS
<1>2. SubSeq(t, n + 1, n + 1) = Append(<<>>, x)
  <2> DEFINE u == SubSeq(t, n + 1, n + 1)
             v == Append(<<>>, x)
  <2>1. t \in Seq(Nat) /\ Len(t) = n + 1 /\ t[n + 1] = x /\ n \in Nat
    OBVIOUS
  <2>2. u \in Seq(Nat) /\ Len(u) = 1 /\ u[1] = x
    <3> HIDE DEF t, n
    <3> QED
      BY <2>1
  <2>3. v \in Seq(Nat) /\ Len(v) = 1 /\ v[1] = x
    OBVIOUS
  <2> HIDE DEF u, v
  <2>4. Len(u) = Len(v) /\ \A i \in 1 .. Len(u) : u[i] = v[i]
    BY <2>2, <2>3
  <2>5. u = v
    BY <2>2, <2>3, <2>4, SeqEqual
  <2> QED
    BY <2>5 DEF u, v
<1>3. ASSUME NEW f \in 1 .. n
      PROVE  /\ SubSeq(t, 1, f - 1) = SubSeq(s, 1, f - 1)
             /\ SubSeq(t, f, n + 1) = Append(SubSeq(s, f, n), x)
  OBVIOUS
<1> QED
  BY <1>1, <1>2, <1>3

\* One frame more is its records behind the others'.
LEMMA SeqsOfMore ==
  ASSUME NEW F \in Seq(Nat), NEW p \in Nat, wire.claim[p].seqs \in Seq(Nat),
         \A i \in 1 .. Len(F) : wire.claim[F[i]].seqs \in Seq(Nat)
  PROVE  /\ SeqsOf(F) \in Seq(Nat)
         /\ SeqsOf(Append(F, p)) = SeqsOf(F) \o wire.claim[p].seqs
<1> DEFINE Parts(f) == [i \in 1 .. Len(f) |-> wire.claim[f[i]].seqs]
<1>1. Parts(F) \in Seq(Seq(Nat))
  OBVIOUS
<1>2. Parts(Append(F, p)) = Append(Parts(F), wire.claim[p].seqs)
  <2> DEFINE G == Append(F, p)
             x == wire.claim[p].seqs
  <2>1. Len(F) \in Nat /\ Len(G) = Len(F) + 1
        /\ \A i \in 1 .. Len(F) + 1 : G[i] = IF i = Len(F) + 1 THEN p ELSE F[i]
    OBVIOUS
  <2>2. Parts(G) \in Seq(Seq(Nat)) /\ Len(Parts(G)) = Len(F) + 1
    <3> HIDE DEF G
    <3>1. \A i \in 1 .. Len(F) + 1 : wire.claim[G[i]].seqs \in Seq(Nat)
      BY <2>1
    <3> QED
      BY <2>1, <3>1
  <2>3. Append(Parts(F), x) \in Seq(Seq(Nat)) /\ Len(Append(Parts(F), x)) = Len(F) + 1
    BY <1>1
  <2>4. ASSUME NEW i \in 1 .. Len(F) + 1 PROVE Parts(G)[i] = Append(Parts(F), x)[i]
    <3>1. Parts(G)[i] = wire.claim[G[i]].seqs
      <4> HIDE DEF G
      <4> QED
        BY <2>1, <2>4
    <3>2. Append(Parts(F), x)[i] = IF i = Len(F) + 1 THEN x ELSE Parts(F)[i]
      BY <1>1, <2>4
    <3> QED
      BY <2>1, <3>1, <3>2
  <2> DEFINE A == Parts(G)
             B == Append(Parts(F), x)
  <2>5. /\ A \in Seq(Seq(Nat)) /\ B \in Seq(Seq(Nat)) /\ Len(A) = Len(B)
        /\ \A i \in 1 .. Len(A) : A[i] = B[i]
    <3> HIDE DEF Parts, G, x
    <3> QED
      BY <2>2, <2>3, <2>4
  <2> HIDE DEF A, B
  <2>6. A = B
    BY <2>5, SeqEqual
  <2> QED
    BY <2>6 DEF A, B
<1>3. \A f : SeqsOf(f) = FlattenSeq(Parts(f))
  BY DEF SeqsOf
<1> HIDE DEF Parts
<1> QED
  BY <1>1, <1>2, <1>3, FlattenType, FlattenAppend

LEMMA SeqsOfNone == SeqsOf(<<>>) = <<>>
<1>1. [i \in 1 .. Len(<<>>) |-> wire.claim[<<>>[i]].seqs] = <<>>
  OBVIOUS
<1>2. FlattenSeq(<<>>) = <<>>
  BY DEF FlattenSeq
<1> QED
  BY <1>1, <1>2 DEF SeqsOf

\* The first header and what stands around it, when one frame more is taken.
LEMMA FirstHeaderMoves ==
  ASSUME TypeOK, Takes
  PROVE  LET header == wire.claim[pos].type = HeaderType IN
         /\ FirstHeader # 0 =>
              /\ FirstHeader' # 0
              /\ Before' = Before
              /\ Behind' = Append(Behind, pos)
         /\ FirstHeader = 0 /\ header =>
              /\ FirstHeader' # 0
              /\ Before' = Before
              /\ Behind' = Append(Behind, pos)
         /\ FirstHeader = 0 /\ ~header =>
              /\ FirstHeader' = 0
              /\ Before' = Append(Before, pos)
              /\ Behind' = <<>>
<1> DEFINE n == Len(taken)
           header == wire.claim[pos].type = HeaderType
<1>1. /\ taken \in Seq(Nat) /\ pos \in Nat /\ taken' = Append(taken, pos) /\ wire' = wire
      /\ taken' \in Seq(Nat)
  BY Basics DEF TypeOK, Takes
<1>2. n \in Nat /\ Len(taken') = n + 1
  BY <1>1
<1>3. \A i \in 1 .. n + 1 : taken'[i] = IF i = n + 1 THEN pos ELSE taken[i]
  BY <1>1
<1>4. HeaderPlaces' = IF header THEN HeaderPlaces \cup {n + 1} ELSE HeaderPlaces
  BY <1>1, <1>2, <1>3 DEF HeaderPlaces
<1>5. HeaderPlaces \subseteq 1 .. n
  BY DEF HeaderPlaces
<1>6. FirstPlace(HeaderPlaces, FirstHeader) /\ FirstPlace(HeaderPlaces', FirstHeader')
  BY <1>1, FirstOfTheHeaders, FirstOfTheHeadersNext
<1>7. /\ SubSeq(taken', 1, n) = taken
      /\ SubSeq(taken', n + 1, n + 1) = Append(<<>>, pos)
      /\ \A f \in 1 .. n : /\ SubSeq(taken', 1, f - 1) = SubSeq(taken, 1, f - 1)
                          /\ SubSeq(taken', f, n + 1) = Append(SubSeq(taken, f, n), pos)
  BY <1>1, PartsOfMore
<1>8. /\ FirstHeader # 0 => FirstHeader \in 1 .. n
      /\ FirstHeader' = IF FirstHeader = 0 /\ header THEN n + 1 ELSE FirstHeader
  BY <1>2, <1>4, <1>5, <1>6, FirstPlaceMoves
<1>9. Len(taken) = n /\ Len(taken') = n + 1
  BY <1>2
<1> HIDE DEF n
<1>10. CASE FirstHeader # 0
  BY <1>2, <1>7, <1>8, <1>9, <1>10 DEF Before, Behind
<1>11. CASE FirstHeader = 0 /\ header
  <2>1. FirstHeader' = n + 1 /\ n + 1 # 0 /\ n + 1 - 1 = n
    BY <1>2, <1>8, <1>11
  <2> QED
    BY <1>7, <1>9, <1>11, <2>1 DEF Before, Behind
<1>12. CASE FirstHeader = 0 /\ ~header
  BY <1>1, <1>8, <1>12 DEF Before, Behind
<1> QED
  BY <1>10, <1>11, <1>12

\* where a sequence of numbers is not consecutive, and where one breaks that is behind a
\* sequence whose next number is e
Breaks(q) == {i \in 1 .. Len(q) - 1 : q[i + 1] # q[i] + 1}
NextOf(q) == IF q = <<>> THEN NoSeq ELSE q[Len(q)] + 1
Due(e, s, i) == IF i = 1 THEN e ELSE s[i - 1] + 1
JumpsOf(e, s) == {i \in 1 .. Len(s) : Due(e, s, i) # NoSeq /\ s[i] # Due(e, s, i)}

\* The number that follows a concatenation.
LEMMA NextOfMore ==
  ASSUME NEW r \in Seq(Nat), NEW s \in Seq(Nat)
  PROVE  NextOf(r \o s) = IF s = <<>> THEN NextOf(r) ELSE s[Len(s)] + 1
<1>1. CASE s = <<>>
  BY <1>1, ConcatEmptySeq
<1>2. CASE s # <<>>
  <2>1. Len(s) \in Nat \ {0} /\ Len(r) \in Nat
    BY <1>2
  <2>2. r \o s \in Seq(Nat) /\ Len(r \o s) = Len(r) + Len(s)
        /\ \A i \in 1 .. Len(r) + Len(s) : (r \o s)[i] = IF i <= Len(r) THEN r[i] ELSE s[i - Len(r)]
    BY ConcatProperties
  <2>3. (r \o s)[Len(r \o s)] = s[Len(s)]
    <3>1. Len(r) + Len(s) \in 1 .. Len(r) + Len(s) /\ ~(Len(r) + Len(s) <= Len(r))
          /\ (Len(r) + Len(s)) - Len(r) = Len(s)
      BY <2>1
    <3> QED
      BY <2>2, <3>1
  <2>4. r \o s # <<>>
    BY <1>2, ConcatEqualIffEmpty
  <2> QED
    BY <1>2, <2>3, <2>4 DEF NextOf
<1> QED
  BY <1>1, <1>2

\* The breaks of a concatenation are those of its first part and the jumps of the second.
LEMMA BreaksOfMore ==
  ASSUME NEW r \in Seq(Nat), NEW s \in Seq(Nat)
  PROVE  /\ Cardinality(Breaks(r)) \in Nat /\ Cardinality(JumpsOf(NextOf(r), s)) \in Nat
         /\ Cardinality(Breaks(r \o s))
              = Cardinality(Breaks(r)) + Cardinality(JumpsOf(NextOf(r), s))
<1> DEFINE n == Len(r)
           m == Len(s)
           q == r \o s
           J == JumpsOf(NextOf(r), s)
           Moved == {i + n - 1 : i \in J}
<1>1. n \in Nat /\ m \in Nat
  OBVIOUS
<1>2. /\ Len(q) = n + m
      /\ \A i \in 1 .. n + m : q[i] = IF i <= n THEN r[i] ELSE s[i - n]
  BY ConcatProperties
<1>3. J \subseteq 1 .. m /\ Breaks(r) \subseteq 1 .. n - 1
  BY DEF JumpsOf, Breaks
<1>4. IsFiniteSet(J) /\ IsFiniteSet(Breaks(r))
  <2>1. IsFiniteSet(1 .. m) /\ IsFiniteSet(1 .. n - 1)
    BY <1>1, FS_Interval
  <2> QED
    BY <1>3, <2>1, FS_Subset
<1>5. IsFiniteSet(Moved) /\ Cardinality(Moved) = Cardinality(J)
  <2> DEFINE f == [i \in J |-> i + n - 1]
  <2>1. f \in [J -> Moved]
    OBVIOUS
  <2>2. \A a, b \in J : f[a] = f[b] => a = b
    BY <1>1, <1>3
  <2>3. \A t \in Moved : \E a \in J : f[a] = t
    OBVIOUS
  <2> HIDE DEF f, Moved, J
  <2>4. f \in Bijection(J, Moved)
    BY <2>1, <2>2, <2>3 DEF Bijection, Injection, Surjection, IsInjective
  <2> QED
    BY <1>4, <2>4, FS_Bijection DEF ExistsBijection
<1> HIDE DEF q, n, m
<1>6. Breaks(q) = {k \in 1 .. n + m - 1 : q[k + 1] # q[k] + 1}
  <2>1. Len(q) - 1 = n + m - 1
    BY <1>1, <1>2
  <2> QED
    BY <2>1 DEF Breaks
<1>7. ASSUME NEW i \in J PROVE i + n - 1 \in Breaks(q)
  <2>1. i \in 1 .. m /\ Due(NextOf(r), s, i) # NoSeq /\ s[i] # Due(NextOf(r), s, i)
    BY DEF JumpsOf, m
  <2>2. i + n \in 1 .. n + m /\ ~(i + n <= n) /\ (i + n) - n = i
    BY <1>1, <2>1
  <2>3. q[i + n] = s[i]
    BY <1>2, <2>2
  <2>4. i + n - 1 \in 1 .. n + m - 1 /\ q[i + n - 1] + 1 = Due(NextOf(r), s, i)
    <3>1. CASE i = 1
      <4>1. Due(NextOf(r), s, i) = r[n] + 1 /\ r # <<>>
        BY <2>1, <3>1 DEF Due, NextOf, n
      <4>2. n # 0
        BY <4>1 DEF n
      <4>3. n \in 1 .. n + m /\ i + n - 1 = n /\ n <= n + m - 1
        BY <1>1, <2>1, <3>1, <4>2
      <4>4. q[n] = r[n]
        BY <1>1, <1>2, <4>3
      <4> QED
        BY <1>1, <4>1, <4>2, <4>3, <4>4
    <3>2. CASE i # 1
      <4>1. i + n - 1 \in 1 .. n + m - 1 /\ i + n - 1 \in 1 .. n + m /\ ~(i + n - 1 <= n)
            /\ (i + n - 1) - n = i - 1
        BY <1>1, <2>1, <3>2
      <4>2. q[i + n - 1] = s[i - 1]
        BY <1>2, <4>1
      <4> QED
        BY <3>2, <4>1, <4>2 DEF Due
    <3> QED
      BY <3>1, <3>2
  <2>5. (i + n - 1) + 1 = i + n
    BY <1>1, <2>1
  <2>6. q[(i + n - 1) + 1] # q[i + n - 1] + 1
    BY <2>1, <2>3, <2>4, <2>5
  <2> DEFINE k == i + n - 1
  <2>7. k \in 1 .. n + m - 1 /\ q[k + 1] # q[k] + 1
    BY <2>4, <2>6
  <2> HIDE DEF k
  <2>8. k \in Breaks(q)
    BY <1>6, <2>7
  <2> QED
    BY <2>8 DEF k
<1>8. ASSUME NEW k \in Breaks(q) PROVE k \in Breaks(r) \cup Moved
  <2>1. k \in 1 .. n + m - 1 /\ q[k + 1] # q[k] + 1
    BY <1>6
  <2>2. CASE k < n
    <3>1. k \in 1 .. n - 1 /\ k \in 1 .. n + m /\ k + 1 \in 1 .. n + m /\ k <= n /\ k + 1 <= n
      BY <1>1, <2>1, <2>2
    <3>2. q[k] = r[k] /\ q[k + 1] = r[k + 1]
      BY <1>2, <3>1
    <3> QED
      BY <2>1, <3>1, <3>2 DEF Breaks, n
  <2>3. CASE ~(k < n)
    <3> DEFINE i == k + 1 - n
    <3>1. i \in 1 .. m /\ k = i + n - 1 /\ k + 1 \in 1 .. n + m /\ ~(k + 1 <= n) /\ (k + 1) - n = i
      BY <1>1, <2>1, <2>3
    <3> HIDE DEF i
    <3>2. q[k + 1] = s[i]
      BY <1>2, <3>1
    <3>3. Due(NextOf(r), s, i) = q[k] + 1
      <4>1. CASE i = 1
        <5>1. k = n /\ n \in 1 .. n + m /\ n # 0
          BY <1>1, <2>1, <3>1, <4>1
        <5>2. q[k] = r[n] /\ r # <<>>
          BY <1>1, <1>2, <5>1 DEF n
        <5> QED
          BY <4>1, <5>2 DEF Due, NextOf, n
      <4>2. CASE i # 1
        <5>1. k \in 1 .. n + m /\ ~(k <= n) /\ k - n = i - 1
          BY <1>1, <2>1, <3>1, <4>2
        <5>2. q[k] = s[i - 1]
          BY <1>2, <5>1
        <5> QED
          BY <4>2, <5>2 DEF Due
      <4> QED
        BY <4>1, <4>2
    <3>4. q[k] \in Nat
      <4>1. q \in Seq(Nat) /\ k \in 1 .. Len(q)
        BY <1>1, <1>2, <2>1 DEF q
      <4> QED
        BY <4>1
    <3>5. i \in J
      BY <2>1, <3>1, <3>2, <3>3, <3>4 DEF JumpsOf, NoSeq, m
    <3> QED
      BY <3>1, <3>5
  <2> QED
    BY <2>2, <2>3
<1>9. Breaks(r) \subseteq Breaks(q)
  <2> SUFFICES ASSUME NEW k \in Breaks(r) PROVE k \in Breaks(q)
    OBVIOUS
  <2>1. k \in 1 .. n - 1 /\ r[k + 1] # r[k] + 1
    BY DEF Breaks, n
  <2>2. k \in 1 .. n + m - 1 /\ k \in 1 .. n + m /\ k + 1 \in 1 .. n + m /\ k <= n /\ k + 1 <= n
    BY <1>1, <2>1
  <2>3. q[k] = r[k] /\ q[k + 1] = r[k + 1]
    BY <1>2, <2>2
  <2> QED
    BY <1>6, <2>1, <2>2, <2>3
<1>10. Breaks(q) = Breaks(r) \cup Moved
  BY <1>7, <1>8, <1>9
<1>11. Breaks(r) \cap Moved = {}
  <2> SUFFICES ASSUME NEW i \in J, i + n - 1 \in Breaks(r) PROVE FALSE
    OBVIOUS
  <2> QED
    BY <1>1, <1>3
<1> HIDE DEF Moved, J
<1>12. Cardinality(Breaks(q)) = Cardinality(Breaks(r)) + Cardinality(Moved) - Cardinality({})
  BY <1>4, <1>5, <1>10, <1>11, FS_Union
<1>13. Cardinality(Breaks(r)) \in Nat /\ Cardinality(J) \in Nat
  BY <1>4, FS_CardinalityType
<1>14. Cardinality(Breaks(q)) = Cardinality(Breaks(r)) + Cardinality(J)
  BY <1>5, <1>12, <1>13, FS_EmptySet
<1> QED
  BY <1>13, <1>14 DEF J, q

-----------------------------------------------------------------------------
(* What each step does to the records. *)

\* A good frame is a claim with as many records as its length says, a header with none.
LEMMA GoodFrame ==
  ASSUME NEW p \in Nat, WellFormed(wire), Good(wire, p)
  PROVE  /\ wire.claim[p].seqs \in Seq(Nat)
         /\ wire.claim[p].type = HeaderType => wire.claim[p].seqs = <<>>
<1>1. Magic(wire, p) /\ p \in wire.first
  BY DEF Good, Intact, Magic
<1>2. wire.claim[p].seqs \in Seq(Nat)
  BY <1>1, ClaimType
<1>3. wire.claim[p].type = HeaderType => Len(wire.claim[p].seqs) = 0
  BY <1>1 DEF WellFormed, HeaderType, BatchType
<1> QED
  BY <1>2, <1>3

\* The frames on either side of the first header are accepted frames.
LEMMA SidesType ==
  ASSUME TypeOK, ReadInv
  PROVE  /\ Behind \in Seq(Nat) /\ Before \in Seq(Nat)
         /\ \A i \in 1 .. Len(Behind) : wire.claim[Behind[i]].seqs \in Seq(Nat)
         /\ \A i \in 1 .. Len(Before) : wire.claim[Before[i]].seqs \in Seq(Nat)
<1>1. taken \in Seq(Nat) /\ WellFormed(wire)
  BY DEF TypeOK
<1>2. \A i \in 1 .. Len(taken) : wire.claim[taken[i]].seqs \in Seq(Nat)
  <2> SUFFICES ASSUME NEW i \in 1 .. Len(taken) PROVE wire.claim[taken[i]].seqs \in Seq(Nat)
    OBVIOUS
  <2>1. taken[i] \in Nat /\ taken[i] \in TakenSet
    BY <1>1 DEF TakenSet
  <2> QED
    BY <1>1, <2>1, GoodFrame DEF ReadInv
<1>3. FirstHeader = 0 \/ FirstHeader \in 1 .. Len(taken)
  BY <1>1, FirstOfTheHeaders DEF FirstPlace, HeaderPlaces
<1>4. ASSUME NEW a \in Int, NEW b \in Int, 1 <= a, b <= Len(taken)
      PROVE  /\ SubSeq(taken, a, b) \in Seq(Nat)
             /\ \A i \in 1 .. Len(SubSeq(taken, a, b)) :
                  wire.claim[SubSeq(taken, a, b)[i]].seqs \in Seq(Nat)
  <2>1. \A i \in a .. b : taken[i] \in Nat /\ wire.claim[taken[i]].seqs \in Seq(Nat)
    BY <1>1, <1>2, <1>4
  <2>2. /\ SubSeq(taken, a, b) \in Seq(Nat)
        /\ Len(SubSeq(taken, a, b)) = IF a <= b THEN b - a + 1 ELSE 0
        /\ \A i \in 1 .. b - a + 1 : SubSeq(taken, a, b)[i] = taken[a + i - 1]
    BY <2>1, SubSeqProperties
  <2>3. ASSUME NEW i \in 1 .. Len(SubSeq(taken, a, b))
        PROVE  wire.claim[SubSeq(taken, a, b)[i]].seqs \in Seq(Nat)
    <3>1. i \in 1 .. b - a + 1 /\ a + i - 1 \in a .. b
      BY <1>4, <2>2
    <3> QED
      BY <2>1, <2>2, <3>1
  <2> QED
    BY <2>2, <2>3
<1>5. CASE FirstHeader = 0
  BY <1>1, <1>2, <1>5 DEF Behind, Before
<1>6. CASE FirstHeader \in 1 .. Len(taken)
  <2>1. Len(taken) \in Nat
    BY <1>1
  <2>2. /\ Behind = SubSeq(taken, FirstHeader, Len(taken))
        /\ Before = SubSeq(taken, 1, FirstHeader - 1)
    BY <1>6 DEF Behind, Before
  <2>3. /\ Behind \in Seq(Nat)
        /\ \A i \in 1 .. Len(Behind) : wire.claim[Behind[i]].seqs \in Seq(Nat)
    <3>1. FirstHeader \in Int /\ Len(taken) \in Int /\ 1 <= FirstHeader /\ Len(taken) <= Len(taken)
      BY <1>6, <2>1
    <3> QED
      BY <1>4, <2>2, <3>1
  <2>4. /\ Before \in Seq(Nat)
        /\ \A i \in 1 .. Len(Before) : wire.claim[Before[i]].seqs \in Seq(Nat)
    <3>1. 1 \in Int /\ FirstHeader - 1 \in Int /\ 1 <= 1 /\ FirstHeader - 1 <= Len(taken)
      BY <1>6, <2>1
    <3> QED
      BY <1>4, <2>2, <3>1
  <2> QED
    BY <2>3, <2>4
<1> QED
  BY <1>3, <1>5, <1>6

\* As long as no frame is accepted, nothing about them changes.
LEMMA SidesStay ==
  ASSUME taken' = taken, wire' = wire
  PROVE  /\ FirstHeader' = FirstHeader
         /\ SeqsOf(Behind)' = SeqsOf(Behind) /\ SeqsOf(Before)' = SeqsOf(Before)
<1>1. FirstHeader' = FirstHeader
  BY DEF FirstHeader, SelectInSeq
<1>2. Behind' = Behind /\ Before' = Before
  BY <1>1 DEF Behind, Before
<1> QED
  BY <1>1, <1>2 DEF SeqsOf

LEMMA ContentStays ==
  ASSUME ContentInv, taken' = taken, wire' = wire, UNCHANGED content
  PROVE  ContentInv'
BY SidesStay DEF ContentInv, RecordsOfTheBatches, content

\* The records of one frame more, behind the first header or before it.
LEMMA SidesMove ==
  ASSUME TypeOK, ReadInv, Takes
  PROVE  LET header == wire.claim[pos].type = HeaderType
             s == wire.claim[pos].seqs
         IN  /\ s \in Seq(Nat) /\ (header => s = <<>>)
             /\ SeqsOf(Behind) \in Seq(Nat) /\ SeqsOf(Before) \in Seq(Nat)
             /\ FirstHeader # 0 \/ header =>
                  /\ FirstHeader' # 0
                  /\ SeqsOf(Behind)' = SeqsOf(Behind) \o s /\ SeqsOf(Before)' = SeqsOf(Before)
             /\ FirstHeader = 0 /\ ~header =>
                  /\ FirstHeader' = 0
                  /\ SeqsOf(Before)' = SeqsOf(Before) \o s /\ SeqsOf(Behind)' = SeqsOf(Behind)
<1> DEFINE header == wire.claim[pos].type = HeaderType
           s == wire.claim[pos].seqs
<1>1. pos \in Nat /\ WellFormed(wire) /\ Good(wire, pos) /\ wire' = wire
  BY Basics DEF Takes
<1>2. s \in Seq(Nat) /\ (header => s = <<>>)
  BY <1>1, GoodFrame
<1>3. /\ SeqsOf(Behind) \in Seq(Nat) /\ SeqsOf(Append(Behind, pos)) = SeqsOf(Behind) \o s
      /\ SeqsOf(Before) \in Seq(Nat) /\ SeqsOf(Append(Before, pos)) = SeqsOf(Before) \o s
  BY <1>1, <1>2, SidesType, SeqsOfMore
<1>4. \A f, g : f = g => SeqsOf(f)' = SeqsOf(g)
  BY <1>1 DEF SeqsOf
<1>5. CASE FirstHeader # 0 \/ header
  <2>1. FirstHeader' # 0 /\ Before' = Before /\ Behind' = Append(Behind, pos)
    BY <1>5, FirstHeaderMoves
  <2> QED
    BY <1>2, <1>3, <1>4, <1>5, <2>1
<1>6. CASE FirstHeader = 0 /\ ~header
  <2>1. FirstHeader' = 0 /\ Before' = Append(Before, pos) /\ Behind' = <<>> /\ Behind = <<>>
    BY <1>6, FirstHeaderMoves DEF Behind
  <2> QED
    BY <1>2, <1>3, <1>4, <1>6, <2>1
<1> QED
  BY <1>5, <1>6

LEMMA ContentInit == Init => ContentInv
<1> SUFFICES ASSUME Init PROVE ContentInv
  OBVIOUS
<1>1. taken = <<>> /\ records = <<>> /\ beforeHeader = 0 /\ gaps = 0 /\ expectSeq = NoSeq
      /\ seenHeader = FALSE
  BY DEF Init
<1>2. FirstHeader = 0
  <2>1. HeaderPlaces = {} /\ taken \in Seq(Nat)
    BY <1>1 DEF HeaderPlaces
  <2> QED
    BY <2>1, FirstOfTheHeaders DEF FirstPlace
<1>3. Behind = <<>> /\ Before = <<>>
  BY <1>1, <1>2 DEF Behind, Before
<1>4. records = SeqsOf(Behind) /\ beforeHeader = Len(SeqsOf(Before))
  BY <1>1, <1>3, SeqsOfNone
<1>5. {i \in 1 .. Len(records) - 1 : records[i + 1] # records[i] + 1} = {}
  BY <1>1
<1>6. gaps = Cardinality({i \in 1 .. Len(records) - 1 : records[i + 1] # records[i] + 1})
  BY <1>1, <1>5, FS_EmptySet
<1> QED
  BY <1>1, <1>2, <1>4, <1>6 DEF ContentInv, RecordsOfTheBatches

LEMMA ContentNext == TypeOK /\ ReadInv /\ ContentInv /\ [Next]_vars => ContentInv'
<1> SUFFICES ASSUME TypeOK, ReadInv, ContentInv, [Next]_vars PROVE ContentInv'
  OBVIOUS
<1> DEFINE header == wire.claim[pos].type = HeaderType
           s == wire.claim[pos].seqs
<1>1. SUFFICES /\ seenHeader' <=> FirstHeader' # 0
               /\ expectSeq' = NextOf(records') /\ gaps' = Cardinality(Breaks(records'))
               /\ records' = SeqsOf(Behind)' /\ beforeHeader' = Len(SeqsOf(Before)')
  BY DEF ContentInv, RecordsOfTheBatches, NextOf, Breaks
<1>2. CASE \/ UNCHANGED vars \/ Feed \/ Finish \/ Done \/ SkipTail \/ HoldPrefix \/ SkipShort
           \/ SkipPlain \/ RejectHead \/ HoldBody \/ RejectCut \/ RejectCrc \/ RejectShape
  <2>1. taken' = taken /\ wire' = wire /\ UNCHANGED content
    BY <1>2 DEF vars, Feed, Finish, Done, SkipTail, HoldPrefix, SkipShort, SkipPlain, RejectHead,
                HoldBody, RejectCut, RejectCrc, RejectShape, Return, RejectCandidate, SkipByte,
                scan, content
  <2>2. ContentInv'
    BY <2>1, ContentStays
  <2> QED
    BY <2>2 DEF ContentInv, RecordsOfTheBatches, NextOf, Breaks
<1>3. ASSUME AcceptHeader \/ DropBatch \/ AcceptBatch
      PROVE  /\ Takes /\ s \in Seq(Nat) /\ (header => s = <<>>)
             /\ records \in Seq(Nat) /\ SeqsOf(Before) \in Seq(Nat)
             /\ FirstHeader # 0 \/ header =>
                  /\ FirstHeader' # 0
                  /\ SeqsOf(Behind)' = records \o s /\ SeqsOf(Before)' = SeqsOf(Before)
             /\ FirstHeader = 0 /\ ~header =>
                  /\ FirstHeader' = 0
                  /\ SeqsOf(Before)' = SeqsOf(Before) \o s /\ SeqsOf(Behind)' = records
  <2>1. Takes
    BY <1>3, OneFrame
  <2>2. records = SeqsOf(Behind) /\ records \in Seq(Nat)
    BY DEF ContentInv, RecordsOfTheBatches, TypeOK
  <2> QED
    BY <2>1, <2>2, SidesMove
<1>4. /\ seenHeader <=> FirstHeader # 0
      /\ expectSeq = NextOf(records) /\ gaps = Cardinality(Breaks(records))
      /\ beforeHeader = Len(SeqsOf(Before))
  BY DEF ContentInv, RecordsOfTheBatches, NextOf, Breaks
<1> HIDE DEF header, s
<1>5. CASE AcceptHeader
  <2>1. header /\ seenHeader' = TRUE /\ UNCHANGED <<beforeHeader, expectSeq, gaps, records>>
    BY <1>5 DEF AcceptHeader, header, claim
  <2>2. records \o s = records
    BY <1>3, <1>5, <2>1, ConcatEmptySeq
  <2> QED
    BY <1>3, <1>4, <1>5, <2>1, <2>2
<1>6. CASE DropBatch
  <2>1. /\ ~header /\ ~seenHeader /\ beforeHeader' = beforeHeader + Len(s)
        /\ UNCHANGED <<seenHeader, expectSeq, gaps, records>>
    BY <1>6 DEF DropBatch, header, s, claim, Seqs, HeaderType, BatchType
  <2>2. Len(SeqsOf(Before) \o s) = Len(SeqsOf(Before)) + Len(s)
    BY <1>3, <1>6
  <2> QED
    BY <1>3, <1>4, <1>6, <2>1, <2>2
<1>7. CASE AcceptBatch
  <2>1. /\ ~header /\ seenHeader /\ records' = records \o s
        /\ gaps' = gaps + Cardinality(JumpsOf(expectSeq, s))
        /\ expectSeq' = IF s = <<>> THEN expectSeq ELSE s[Len(s)] + 1
        /\ UNCHANGED <<seenHeader, beforeHeader>>
    BY <1>7 DEF AcceptBatch, header, s, claim, Seqs, Jumps, Expected, JumpsOf, Due, HeaderType, BatchType
  <2>2. expectSeq' = NextOf(records')
    BY <1>3, <1>4, <1>7, <2>1, NextOfMore
  <2>3. gaps' = Cardinality(Breaks(records'))
    BY <1>3, <1>4, <1>7, <2>1, BreaksOfMore
  <2> QED
    BY <1>3, <1>4, <1>7, <2>1, <2>2, <2>3
<1> QED
  BY <1>2, <1>5, <1>6, <1>7 DEF Next, Parse

\* What is handed on is the records of the accepted batches behind the first header, in order and
\* each once, for every stream and every way of reading it (telemetry.rs:254-294).
THEOREM RecordsFollowTheStream == Spec => []RecordsOfTheBatches
<1>1. DecoderInv => TypeOK /\ ReadInv
  BY DEF DecoderInv
<1>2. ContentInv => RecordsOfTheBatches
  BY DEF ContentInv
<1> QED
  BY <1>1, <1>2, ContentInit, ContentNext, InvariantHolds, PTL DEF Spec
===============================================================================
