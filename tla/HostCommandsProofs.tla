-------------------------- MODULE HostCommandsProofs --------------------------
(***************************************************************************)
(* What the two commands of the host owe their user, proved for every      *)
(* stream, project, profile and command line: the recording, the exit, the *)
(* audit, and the store and the screen.                                    *)
(***************************************************************************)
EXTENDS HostCommands, PlacementAuditProofs

\* The stream up to its chunk k.
UpTo(k) == [i \in 1..k |-> i]

Mine == capture # Nothing /\ capture.by = "viewer"

InputType == input \in [state : {"closed", "open", "broken", "finished"}, next : Nat \ {0}]

\* What ties the recorder to the file.  RecordingIsWhole alone is not inductive: it does not say
\* that a recorder which is open has a file of its own, nor that one which was never opened has
\* read nothing it should have written.
RecordingInv ==
  /\ InputType
  /\ recorder \in {"none", "open", "failed"}
  /\ capture \in {Nothing} \cup Captures
  /\ recorder = "none" => ~Mine /\ (record_path => input.next = 1)
  /\ recorder = "open" => Mine /\ record_path /\ capture.bytes = UpTo(input.next - 1)
  /\ recorder = "failed" =>
       /\ record_path
       /\ Mine => \E n \in 0..(input.next - 1) :
                    capture.bytes \in {UpTo(n), Append(UpTo(n), 0)}

-----------------------------------------------------------------------------
(* Beginnings of a stream. *)

LEMMA UpToSeq == ASSUME NEW k \in Nat PROVE UpTo(k) \in Seq(Nat) /\ Len(UpTo(k)) = k
  BY DEF UpTo

LEMMA UpToNext == ASSUME NEW k \in Nat PROVE UpTo(k) \o <<k + 1>> = UpTo(k + 1)
  <1> DEFINE longer == UpTo(k) \o <<k + 1>>
  <1>1. longer \in Seq(Nat) /\ Len(longer) = k + 1  BY UpToSeq
  <1>2. ASSUME NEW i \in 1..(k + 1) PROVE longer[i] = UpTo(k + 1)[i]  BY UpToSeq DEF UpTo
  <1> QED  BY <1>1, <1>2, UpToSeq DEF UpTo

LEMMA UpToPrefix ==
  ASSUME NEW k \in Nat, NEW n \in 0..k
  PROVE  SubSeq(UpTo(k), 1, n) = UpTo(n)
  <1>1. SubSeq(UpTo(k), 1, n) \in Seq(Nat) /\ Len(SubSeq(UpTo(k), 1, n)) = n  BY UpToSeq
  <1>2. ASSUME NEW i \in 1..n PROVE SubSeq(UpTo(k), 1, n)[i] = UpTo(n)[i]  BY UpToSeq DEF UpTo
  <1> QED  BY <1>1, <1>2, UpToSeq DEF UpTo

LEMMA Same ==
  ASSUME NEW s \in Seq(Nat) PROVE s \o <<>> = s /\ IsPrefix(s, s)
  <1>1. s \o <<>> = s  OBVIOUS
  <1>2. IsPrefix(s, s)  BY DEF IsPrefix
  <1> QED  BY <1>1, <1>2

LEMMA Parts == ASSUME NEW n \in Nat PROVE <<>> \in Seq(Nat) /\ <<n>> \in Seq(Nat)
  OBVIOUS

LEMMA Longer ==
  ASSUME NEW s \in Seq(Nat), NEW n \in Nat
  PROVE  s \o <<n>> = Append(s, n) /\ IsPrefix(s, Append(s, n))
  <1>1. s \o <<n>> = Append(s, n)  OBVIOUS
  <1>2. SubSeq(s, 1, Len(s)) = SubSeq(Append(s, n), 1, Len(s))  OBVIOUS
  <1> QED  BY <1>1, <1>2 DEF IsPrefix

-----------------------------------------------------------------------------
(* The steps that touch the file. *)

Untouched == UNCHANGED <<options, recorder, capture>> /\ input'.next = input.next

\* Every step of either command reads a chunk, lets another program write, or leaves file and
\* recorder alone.
LEMMA Moves ==
  ASSUME InputType, [HostNext]_hostVars
  PROVE  /\ ReadBytes \/ OtherWrites \/ Untouched
         /\ InputType'
  <1>1. ASSUME NEW s \in {"closed", "open", "broken", "finished"},
               input' = [input EXCEPT !.state = s]
        PROVE  InputType' /\ input'.next = input.next
    BY <1>1 DEF InputType
  <1>2. CASE UNCHANGED viewerVars
    BY <1>2 DEF viewerVars, sourceVars, recording, Untouched, InputType
  <1>3. CASE Start  BY <1>1, <1>3 DEF Start, recording, Untouched, Opened, InputType
  <1>4. CASE Loaded \/ Skip \/ ReadEmpty \/ Show \/ NoKey \/ Quit \/ Top \/ Headless \/ End
    BY <1>4 DEF Loaded, Skip, ReadEmpty, Show, NoKey, Quit, Top, Headless, End, Wait, Turn,
                recording, sourceVars, Untouched, InputType
  <1>5. CASE \E key \in {"m", "Tab", "p", "Up", "Down"} : Key(key)
    BY <1>5 DEF Key, Wait, recording, sourceVars, Untouched, InputType
  <1>6. CASE ReadBytes  BY <1>6 DEF ReadBytes, InputType
  <1>7. CASE ReadEof  BY <1>1, <1>7 DEF ReadEof, Turn, recording, Untouched
  <1>8. CASE ReadError  BY <1>1, <1>8 DEF ReadError, Turn, recording, Untouched
  <1>9. CASE HoldPasses \/ TwoSeconds \/ Expire
    BY <1>9 DEF HoldPasses, TwoSeconds, Expire, Outside, Untouched, InputType
  <1>10. CASE OtherWrites  BY <1>10 DEF OtherWrites, Outside, InputType
  <1>11. \/ UNCHANGED viewerVars \/ Loaded \/ Loop \/ Environment
    BY DEF HostNext, RunAudit, ViewerStep, LoadAudit, AuditLoaded, RunViewer, Beside, hostVars
  <1> QED
    BY <1>2, <1>3, <1>4, <1>5, <1>6, <1>7, <1>8, <1>9, <1>10, <1>11 DEF Loop, Environment

LEMMA PathStays == ASSUME UNCHANGED options PROVE record_path' = record_path
  BY DEF record_path, next_record_path, Live

\* What writing some part of a chunk leaves in the file.
LEMMA WroteGrows ==
  ASSUME RecordingInv, open_recorder = "open", NEW part \in Seq(Nat), Wrote(part)
  PROVE  /\ Mine' /\ capture' \in Captures
         /\ capture'.bytes = UpTo(input.next - 1) \o part
         /\ capture # Nothing => capture.by = "viewer" /\ capture.bytes = UpTo(input.next - 1)
  <1> DEFINE old == IF capture = Nothing THEN <<>> ELSE capture.bytes
  <1>1. input.next \in Nat \ {0}  BY DEF RecordingInv, InputType
  <1>2. UpTo(input.next - 1) \in Seq(Nat)  BY <1>1, UpToSeq
  <1>3. /\ old = UpTo(input.next - 1)
        /\ capture # Nothing => capture.by = "viewer" /\ capture.bytes = UpTo(input.next - 1)
    <2>1. CASE recorder = "open"  BY <2>1 DEF RecordingInv, Mine
    <2>2. CASE recorder = "none"
      <3>1. record_path /\ capture = Nothing  BY <2>2 DEF open_recorder
      <3>2. input.next = 1  BY <2>2, <3>1 DEF RecordingInv
      <3> QED  BY <3>1, <3>2 DEF UpTo
    <2> QED  BY <2>1, <2>2 DEF open_recorder, RecordingInv
  <1>4. capture' = [by |-> "viewer", bytes |-> UpTo(input.next - 1) \o part]
    BY <1>3 DEF Wrote
  <1>5. capture' \in Captures  BY <1>2, <1>4 DEF Captures
  <1> QED  BY <1>3, <1>4, <1>5, NoFileIsNoCapture DEF Mine

\* A recorder that is asked for the first time opens a file that is not there, and no other.
LEMMA Opening ==
  ASSUME RecordingInv
  PROVE  /\ open_recorder \in {"none", "open", "failed"}
         /\ open_recorder = "open" => record_path
         /\ open_recorder = "none" => recorder = "none" /\ ~record_path
         /\ open_recorder = "failed" => recorder = "failed" \/ (recorder = "none" /\ record_path)
  BY DEF open_recorder, RecordingInv

LEMMA ReadKeeps == ASSUME RecordingInv, ReadBytes PROVE RecordingInv'
  <1>1. /\ input \in [state : {"closed", "open", "broken", "finished"}, next : Nat \ {0}]
        /\ UNCHANGED options /\ input' = [input EXCEPT !.next = @ + 1] /\ Record(input.next)
    BY DEF ReadBytes, Turn, RecordingInv, InputType
  <1> DEFINE n == input.next
  <1>2. InputType' /\ input'.next = n + 1 /\ n \in Nat \ {0}  BY <1>1 DEF InputType
  <1>3. record_path' = record_path  BY <1>1, PathStays
  <1>4. CASE open_recorder = "open" /\ recorder' = "open" /\ Wrote(<<n>>)
    <2>1. Mine' /\ capture' \in Captures /\ capture'.bytes = UpTo(n - 1) \o <<n>>
      BY <1>2, <1>4, Parts, WroteGrows
    <2>2. UpTo(n - 1) \o <<n>> = UpTo(n)
      <3>1. n - 1 \in Nat /\ (n - 1) + 1 = n  BY <1>2
      <3> HIDE DEF n
      <3> QED  BY <3>1, UpToNext
    <2> QED  BY <1>2, <1>3, <1>4, <2>1, <2>2, Opening DEF RecordingInv
  <1>5. CASE open_recorder # "open" /\ recorder' = open_recorder /\ UNCHANGED capture
    <2>1. Mine' = Mine  BY <1>5 DEF Mine
    <2>2. CASE open_recorder = "none"
      BY <1>2, <1>3, <1>5, <2>1, <2>2, Opening DEF RecordingInv
    <2>3. CASE open_recorder = "failed" /\ recorder = "none"
      BY <1>2, <1>3, <1>5, <2>1, <2>3, Opening DEF RecordingInv
    <2>4. CASE open_recorder = "failed" /\ recorder = "failed"
      BY <1>2, <1>3, <1>5, <2>1, <2>4, Opening DEF RecordingInv
    <2> QED  BY <1>5, <2>2, <2>3, <2>4, Opening
  <1>6. CASE /\ open_recorder = "open" /\ recorder' = "failed"
             /\ Wrote(<<>>) \/ Wrote(<<0>>)
    <2>1. UpTo(n - 1) \in Seq(Nat)  BY <1>2, UpToSeq
    <2>2. /\ Mine' /\ capture' \in Captures
          /\ capture'.bytes \in {UpTo(n - 1), Append(UpTo(n - 1), 0)}
      <3>1. CASE Wrote(<<>>)  BY <1>2, <1>6, <2>1, <3>1, Parts, WroteGrows, Same
      <3>2. CASE Wrote(<<0>>)  BY <1>2, <1>6, <2>1, <3>2, Parts, WroteGrows, Longer
      <3> QED  BY <1>6, <3>1, <3>2
    <2>3. \E m \in 0..n : capture'.bytes \in {UpTo(m), Append(UpTo(m), 0)}
      <3>1. n - 1 \in 0..n  BY <1>2
      <3> QED  BY <2>2, <3>1
    <2>4. input'.next - 1 = n /\ recorder' = "failed" /\ record_path' /\ InputType'
      BY <1>2, <1>3, <1>6, Opening
    <2> QED  BY <2>2, <2>3, <2>4 DEF RecordingInv
  <1>7. CASE /\ open_recorder = "open" /\ recorder' = "failed"
             /\ recorder = "none" /\ UNCHANGED capture
    <2>1. ~Mine' /\ capture' \in {Nothing} \cup Captures  BY <1>7 DEF RecordingInv, Mine
    <2> QED  BY <1>2, <1>3, <1>7, <2>1, Opening DEF RecordingInv
  <1> QED  BY <1>1, <1>4, <1>5, <1>6, <1>7 DEF Record

LEMMA OtherKeeps == ASSUME RecordingInv, OtherWrites PROVE RecordingInv'
  <1>1. /\ UNCHANGED <<options, input, recorder>> /\ capture = Nothing
        /\ capture' = [by |-> "other", bytes |-> <<>>]
    BY DEF OtherWrites, Outside
  <1>2. capture' \in Captures /\ ~Mine /\ ~Mine'  BY <1>1 DEF Captures, Mine
  <1>3. record_path' = record_path /\ InputType'  BY <1>1, PathStays DEF RecordingInv, InputType
  <1> QED  BY <1>1, <1>2, <1>3 DEF RecordingInv

LEMMA RecordingInit == HostInit => RecordingInv
  <1> SUFFICES ASSUME HostInit PROVE RecordingInv  OBVIOUS
  <1>1. /\ input = [state |-> "closed", next |-> 1] /\ recorder = "none"
        /\ capture = IF options.record = "taken" THEN [by |-> "other", bytes |-> <<>>] ELSE Nothing
    BY DEF HostInit, ViewerInit
  <1>2. capture \in {Nothing} \cup Captures /\ ~Mine  BY <1>1 DEF Captures, Mine
  <1> QED  BY <1>1, <1>2 DEF RecordingInv, InputType

LEMMA RecordingStep == RecordingInv /\ [HostNext]_hostVars => RecordingInv'
  <1> SUFFICES ASSUME RecordingInv, [HostNext]_hostVars PROVE RecordingInv'  OBVIOUS
  <1>1. InputType  BY DEF RecordingInv
  <1>2. CASE Untouched
    <2>1. InputType' /\ record_path' = record_path /\ Mine' = Mine
      BY <1>1, <1>2, Moves, PathStays DEF Untouched, Mine
    <2> QED  BY <1>2, <2>1 DEF RecordingInv, Untouched
  <1> QED  BY <1>1, <1>2, Moves, ReadKeeps, OtherKeeps

\* The invariant holds throughout every run of either command.
THEOREM RecordingInvariant == HostSpec => []RecordingInv
  BY RecordingInit, RecordingStep, PTL DEF HostSpec

\* The capture is the stream, whole for as long as no write has failed and its beginning with at
\* most a torn end from then on (ingest and open_recorder of laxity-tui).
THEOREM RecordingFollowsStream == HostSpec => []RecordingIsWhole
  <1>1. RecordingInv => RecordingIsWhole
    <2> SUFFICES ASSUME RecordingInv PROVE RecordingIsWhole  OBVIOUS
    <2> DEFINE k == input.next - 1
               read == UpTo(k)
    <2>1. k \in Nat  BY DEF RecordingInv, InputType
    <2>2. Len(read) = k  BY <2>1, UpToSeq
    <2>3. ASSUME record_path, recorder # "failed", read # <<>>
          PROVE  Mine /\ capture.bytes = read
      <3>1. recorder # "none"
        <4>1. ASSUME input.next = 1 PROVE FALSE  BY <2>3, <4>1 DEF UpTo
        <4> QED  BY <2>3, <4>1 DEF RecordingInv
      <3> QED  BY <2>3, <3>1 DEF RecordingInv
    <2>4. ASSUME Mine
          PROVE  \E n \in 0..k :
                   capture.bytes \in {SubSeq(read, 1, n), Append(SubSeq(read, 1, n), 0)}
      <3>1. \E n \in 0..k : capture.bytes \in {UpTo(n), Append(UpTo(n), 0)}
        BY <2>1, <2>4 DEF RecordingInv
      <3>2. \A n \in 0..k : SubSeq(read, 1, n) = UpTo(n)  BY <2>1, UpToPrefix
      <3> QED  BY <3>1, <3>2
    <2>5. ASSUME Mine PROVE record_path  BY <2>5 DEF RecordingInv
    <2> QED  BY <2>2, <2>3, <2>4, <2>5 DEF RecordingIsWhole, UpTo, Mine
  <1> QED  BY <1>1, RecordingInvariant, PTL

\* A file that was there is never written to, whoever created it and whenever, and the capture only
\* grows (create_new in open_recorder).
THEOREM OthersAreKept == HostSpec => OthersKept
  <1> DEFINE Kept == capture # Nothing =>
                       /\ capture' # Nothing /\ capture'.by = capture.by
                       /\ IsPrefix(capture.bytes, capture'.bytes)
                       /\ capture.by = "other" => capture' = capture
  <1>1. RecordingInv /\ [HostNext]_hostVars => [Kept]_viewerVars
    <2> SUFFICES ASSUME RecordingInv, [HostNext]_hostVars, capture # Nothing
                 PROVE  /\ capture' # Nothing /\ capture'.by = capture.by
                        /\ IsPrefix(capture.bytes, capture'.bytes)
                        /\ capture.by = "other" => capture' = capture
      OBVIOUS
    <2>1. capture \in Captures /\ capture.bytes \in Seq(Nat)
      BY DEF RecordingInv, Captures
    <2>2. CASE UNCHANGED capture  BY <2>1, <2>2, Same
    <2>3. ASSUME open_recorder = "open", NEW part \in {<<>>, << 0 >>, <<input.next>>}, Wrote(part)
          PROVE  /\ capture' # Nothing /\ capture'.by = capture.by
                 /\ IsPrefix(capture.bytes, capture'.bytes)
                 /\ capture.by = "other" => capture' = capture
      <3>1. input.next \in Nat  BY DEF RecordingInv, InputType
      <3>2. part \in Seq(Nat)  BY <3>1, <2>3, Parts
      <3>3. /\ Mine' /\ capture.by = "viewer" /\ capture'.bytes = capture.bytes \o part
        BY <2>3, <3>2, WroteGrows
      <3>4. IsPrefix(capture.bytes, capture.bytes \o part)
        BY <2>1, <2>3, <3>1, Same, Longer
      <3> QED  BY <3>3, <3>4 DEF Mine
    <2>4. CASE ReadBytes
      BY <2>2, <2>3, <2>4 DEF ReadBytes, Record
    <2>5. CASE OtherWrites  BY <2>5 DEF OtherWrites
    <2> QED  BY <2>2, <2>4, <2>5, Moves DEF RecordingInv, Untouched
  <1> QED  BY <1>1, RecordingInvariant, PTL DEF HostSpec, OthersKept

-----------------------------------------------------------------------------
(* The end of the viewer. *)

HeaderRead == \E delta \in ReadDeltas : \E e \in ToSet(delta.events) : e.kind = "header"

WholeRead == input.next > Len(Chunks)

\* What an exit says is decided on the way to it.  A file has no duration, so that a command
\* without a screen leaves it at its end; the header is one the decoder has seen; and where the
\* command ends, nothing moves any more.
ExitInv ==
  /\ command = "tui" => options \in CommandLines
  /\ decoded.header \in BOOLEAN /\ (decoded.header <=> HeaderRead)
  /\ input.state = "finished" => WholeRead
  /\ phase = "args" => input.state = "closed"
  /\ phase \in {"top", "key"} => ~options.headless
  /\ expired => options.duration
  /\ phase \notin {"args", "over"} => Live \/ ~options.duration
  /\ phase = "ending" /\ options.headless => Live \/ input.state = "finished"
  /\ exit = "ok" =>
       /\ phase = "over" /\ recorder # "failed"
       /\ options.headless => decoded.header /\ (Live \/ WholeRead)
  /\ exit = "no header" => phase = "over" /\ ~decoded.header

LEMMA ExitInit == HostInit => ExitInv
  <1> SUFFICES ASSUME HostInit PROVE ExitInv  OBVIOUS
  <1>1. /\ input = [state |-> "closed", next |-> 1]
        /\ decoded = [accepted |-> FALSE, header |-> FALSE]
        /\ phase = "args" /\ exit = Nothing /\ expired = FALSE
        /\ command = "tui" => options \in CommandLines
    BY DEF HostInit, ViewerInit
  <1>2. ReadDeltas = {}  BY <1>1 DEF ReadDeltas
  <1>3. ~HeaderRead  BY <1>2 DEF HeaderRead
  <1> QED  BY <1>1, <1>3, NoExitIsNoEnd DEF ExitInv

\* A step of the viewer, or one that is none of its.
LEMMA ViewerMoves ==
  ASSUME [HostNext]_hostVars
  PROVE  \/ command = "tui" /\ command' = command /\ (Loaded \/ Loop \/ Environment)
         \/ UNCHANGED <<command, viewerVars>>
  BY DEF HostNext, RunAudit, ViewerStep, LoadAudit, AuditLoaded, RunViewer, Beside, hostVars

\* What the decoder makes of a chunk is what it has made of the stream by then.
LEMMA ReadIsSeen ==
  ASSUME InputType, ExitInv, ReadBytes
  PROVE  decoded'.header \in BOOLEAN /\ (decoded'.header <=> HeaderRead')
  <1> DEFINE n == input.next
             HasHeader(delta) == \E e \in ToSet(delta.events) : e.kind = "header"
  <1>1. /\ UNCHANGED options /\ input' = [input EXCEPT !.next = @ + 1] /\ input.state = "open"
        /\ decoded' = [accepted |-> decoded.accepted \/ Chunks[n].frames > 0,
                       header |-> decoded.header \/ HasHeader(Chunks[n])]
    BY DEF ReadBytes, Turn, accept_delta
  <1>2. n \in Nat \ {0} /\ input'.next = n + 1 /\ input'.state = "open"  BY <1>1 DEF InputType
  <1>3. Chunks' = Chunks  BY <1>1 DEF Chunks
  <1>4. 1..(input'.next - 1) = (1..(n - 1)) \cup {n}  BY <1>2
  <1>5. ReadDeltas' = ReadDeltas \cup {Chunks[n]}
    BY <1>1, <1>2, <1>3, <1>4 DEF ReadDeltas
  <1>6. HeaderRead' <=> HeaderRead \/ HasHeader(Chunks[n])  BY <1>5 DEF HeaderRead
  <1>7. decoded'.header = (decoded.header \/ HasHeader(Chunks[n]))  BY <1>1
  <1> HIDE DEF HasHeader, n
  <1> QED  BY <1>6, <1>7, Zenon DEF ExitInv

LEMMA EndIsSeen ==
  ASSUME InputType, ExitInv, ReadEof
  PROVE  decoded'.header \in BOOLEAN /\ (decoded'.header <=> HeaderRead')
  <1> DEFINE final == options.stream.final
             HasHeader(delta) == \E e \in ToSet(delta.events) : e.kind = "header"
  <1>1. /\ UNCHANGED options /\ input' = [input EXCEPT !.state = "finished"] /\ input.state = "open"
        /\ decoded' = [accepted |-> decoded.accepted \/ final.frames > 0,
                       header |-> decoded.header \/ HasHeader(final)]
    BY DEF ReadEof, Turn, accept_delta
  <1>2. input'.next = input.next /\ input'.state = "finished"  BY <1>1 DEF InputType
  <1>3. ReadDeltas' = ReadDeltas \cup {final}  BY <1>1, <1>2 DEF ReadDeltas, Chunks
  <1>4. HeaderRead' <=> HeaderRead \/ HasHeader(final)  BY <1>3 DEF HeaderRead
  <1>5. decoded'.header = (decoded.header \/ HasHeader(final))  BY <1>1
  <1> HIDE DEF HasHeader, final
  <1> QED  BY <1>4, <1>5, Zenon DEF ExitInv

\* Nothing is read and nothing is decoded by the other steps.
LEMMA SeenStays ==
  ASSUME InputType, ExitInv, UNCHANGED <<options, decoded>>, input'.next = input.next,
         input'.state = input.state \/ (input.state # "finished" /\ input'.state # "finished")
  PROVE  decoded'.header \in BOOLEAN /\ (decoded'.header <=> HeaderRead')
  <1>1. ReadDeltas' = ReadDeltas  BY DEF ReadDeltas, Chunks
  <1>2. HeaderRead' <=> HeaderRead  BY <1>1 DEF HeaderRead
  <1> QED  BY <1>2, Zenon DEF ExitInv

\* Where the viewer stands after a step that neither opens, reads nor ends anything.
LEMMA TurnKeeps ==
  ASSUME InputType, ExitInv, UNCHANGED <<command, options, decoded, exit>>,
         input' = input \/ (input.state = "open" /\ input' = [input EXCEPT !.state = "broken"]),
         phase \notin {"args", "over"}, phase' \notin {"args", "over"},
         phase' \in {"top", "key"} => ~options.headless,
         expired' => options.duration,
         phase' = "ending" /\ options.headless => Live \/ input'.state = "finished"
  PROVE  ExitInv'
  <1>0. /\ input'.next = input.next
        /\ input'.state = input.state \/ (input'.state = "broken" /\ input.state # "finished")
    BY DEF InputType
  <1>1. decoded'.header \in BOOLEAN /\ (decoded'.header <=> HeaderRead')  BY <1>0, SeenStays
  <1>2. Live' = Live /\ WholeRead' = WholeRead  BY <1>0 DEF Live, WholeRead, Chunks
  <1> QED  BY <1>0, <1>1, <1>2 DEF ExitInv

\* Where a command ends.
LEMMA EndKeeps ==
  ASSUME InputType, ExitInv, UNCHANGED <<command, options, input, decoded, recorder, expired>>,
         phase' = "over",
         exit' = "no header" => ~decoded.header,
         exit' = "ok" => recorder # "failed" /\ (options.headless => decoded.header /\ (Live \/ WholeRead))
  PROVE  ExitInv'
  <1>1. decoded'.header \in BOOLEAN /\ (decoded'.header <=> HeaderRead')  BY SeenStays
  <1>2. Live' = Live /\ WholeRead' = WholeRead  BY DEF Live, WholeRead, Chunks
  <1> QED  BY <1>1, <1>2 DEF ExitInv

LEMMA ExitStep ==
  ASSUME InputType, ExitInv, [HostNext]_hostVars
  PROVE  ExitInv'
  <1>1. CASE UNCHANGED <<command, viewerVars>>
    <2>1. /\ UNCHANGED <<command, options, phase, input, decoded, recorder, expired, exit>>
      BY <1>1 DEF viewerVars, sourceVars, recording
    <2>2. decoded'.header \in BOOLEAN /\ (decoded'.header <=> HeaderRead')  BY <2>1, SeenStays
    <2>3. Live' = Live /\ WholeRead' = WholeRead  BY <2>1 DEF Live, WholeRead, Chunks
    <2> QED  BY <2>1, <2>2, <2>3 DEF ExitInv
  <1>2. SUFFICES ASSUME command = "tui", command' = command, Loaded \/ Loop \/ Environment
                 PROVE  ExitInv'
    BY <1>1, ViewerMoves
  <1>3. options \in CommandLines /\ (Live \/ options.source = "file")
    BY <1>2, OneSource DEF ExitInv, Live
  <1>4. CASE Start
    <2>1. /\ phase = "args" /\ UNCHANGED <<options, decoded, recorder, expired>>
          /\ \/ /\ parse_args /\ phase' = "audit" /\ exit' = exit
                /\ input' = [input EXCEPT !.state = Opened]
             \/ phase' = "over" /\ exit' = "refused" /\ input' = input
      BY <1>4 DEF Start, Leave, recording
    <2>2. input'.next = input.next  BY <2>1 DEF InputType
    <2>3. input'.state # "finished"  BY <2>1 DEF InputType, Opened, ExitInv
    <2>4. Live' = Live /\ WholeRead' = WholeRead  BY <2>1, <2>2 DEF Live, WholeRead, Chunks
    <2>5. CASE phase' = "over" /\ exit' = "refused" /\ input' = input
      <3>1. decoded'.header \in BOOLEAN /\ (decoded'.header <=> HeaderRead')  BY <2>1, <2>5, SeenStays
      <3> QED  BY <1>2, <2>1, <2>4, <2>5, <3>1 DEF ExitInv
    <2>6. CASE parse_args /\ phase' = "audit" /\ exit' = exit /\ input'.state # "finished"
      <3>1. Live \/ ~options.duration  BY <1>3, <2>6 DEF parse_args
      <3>2. exit # "ok" /\ exit # "no header"  BY <2>1 DEF ExitInv
      <3>3. decoded'.header \in BOOLEAN /\ (decoded'.header <=> HeaderRead')
        <4>1. input.state # "finished"  BY <2>1 DEF ExitInv
        <4> QED  BY <4>1, <2>1, <2>2, <2>6, SeenStays
      <3> QED  BY <1>2, <2>1, <2>4, <2>6, <3>1, <3>2, <3>3 DEF ExitInv
    <2> QED  BY <2>1, <2>3, <2>5, <2>6
  <1>5. CASE Loaded
    <2>1. /\ phase = "audit" /\ UNCHANGED <<options, input, decoded, recorder, expired>>
          /\ \/ phase' = "over" /\ exit' = "source"
             \/ phase' = (IF options.headless THEN "poll" ELSE "top") /\ exit' = exit
      BY <1>5 DEF Loaded, Leave, sourceVars, recording
    <2>2. CASE phase' = "over" /\ exit' = "source"  BY <1>2, <2>1, <2>2, EndKeeps
    <2>3. CASE phase' = (IF options.headless THEN "poll" ELSE "top") /\ exit' = exit
      <3>1. expired' => options.duration  BY <2>1 DEF ExitInv
      <3>2. phase' \notin {"args", "over", "ending", "key"} /\ (phase' = "top" => ~options.headless)
        BY <2>3
      <3> QED  BY <1>2, <2>1, <2>3, <3>1, <3>2, TurnKeeps
    <2> QED  BY <2>1, <2>2, <2>3
  <1>6. CASE Skip \/ ReadEmpty \/ ReadError
    <2>1. /\ phase = "poll" /\ phase' = "polled" /\ UNCHANGED <<options, decoded, expired, exit>>
          /\ input' = input \/ (input.state = "open" /\ input' = [input EXCEPT !.state = "broken"])
      BY <1>6 DEF Skip, ReadEmpty, ReadError, Polling, Turn, sourceVars
    <2>2. expired' => options.duration  BY <2>1 DEF ExitInv
    <2> QED  BY <1>2, <2>1, <2>2, TurnKeeps
  <1>7. CASE ReadBytes
    <2>1. /\ phase = "poll" /\ phase' \in {"poll", "polled"}
          /\ UNCHANGED <<options, expired, exit>>
          /\ input.state = "open" /\ input' = [input EXCEPT !.next = @ + 1]
      BY <1>7 DEF ReadBytes, Polling, Turn
    <2>2. input'.state = "open" /\ Live' = Live  BY <2>1 DEF InputType, Live
    <2>3. decoded'.header \in BOOLEAN /\ (decoded'.header <=> HeaderRead')  BY <1>7, ReadIsSeen
    <2>4. exit # "ok" /\ exit # "no header" /\ (Live \/ ~options.duration)
          /\ (expired' => options.duration)
      BY <2>1 DEF ExitInv
    <2> QED  BY <1>2, <1>3, <2>1, <2>2, <2>3, <2>4 DEF ExitInv
  <1>8. CASE ReadEof
    <2>1. /\ phase = "poll" /\ phase' = "polled" /\ UNCHANGED <<options, expired, exit>>
          /\ WholeRead /\ input' = [input EXCEPT !.state = "finished"]
      BY <1>8 DEF ReadEof, Polling, Turn, WholeRead
    <2>2. WholeRead' /\ Live' = Live  BY <2>1 DEF InputType, Live, WholeRead, Chunks
    <2>3. decoded'.header \in BOOLEAN /\ (decoded'.header <=> HeaderRead')  BY <1>8, EndIsSeen
    <2>4. exit # "ok" /\ exit # "no header" /\ (Live \/ ~options.duration)
          /\ (expired' => options.duration)
      BY <2>1 DEF ExitInv
    <2> QED  BY <1>2, <1>3, <2>1, <2>2, <2>3, <2>4 DEF ExitInv
  <1>9. CASE Show \/ NoKey \/ Quit \/ Top \/ \E key \in {"m", "Tab", "p", "Up", "Down"} : Key(key)
    <2>1. /\ phase \in {"polled", "key", "top"} /\ phase' \in {"key", "top", "ending", "poll"}
          /\ phase = "polled" => ~options.headless
          /\ UNCHANGED <<options, input, decoded, expired, exit>>
      BY <1>9 DEF Show, NoKey, Quit, Top, Key, Wait, sourceVars
    <2>2. ~options.headless  BY <2>1 DEF ExitInv
    <2>3. expired' => options.duration  BY <2>1 DEF ExitInv
    <2> QED  BY <1>2, <2>1, <2>2, <2>3, TurnKeeps
  <1>10. CASE Headless
    <2>1. /\ phase = "polled" /\ UNCHANGED <<options, input, decoded, recorder, expired>>
          /\ \/ phase' = "over" /\ exit' = "source"
             \/ phase' = "poll" /\ exit' = exit
             \/ phase' = "ending" /\ (input.state = "finished" \/ expired) /\ exit' = exit
      BY <1>10 DEF Headless, Leave, sourceVars, recording
    <2>2. CASE phase' = "over" /\ exit' = "source"  BY <1>2, <2>1, <2>2, EndKeeps
    <2>3. (expired' => options.duration) /\ (expired => Live)  BY <2>1 DEF ExitInv
    <2>4. CASE phase' \in {"poll", "ending"} /\ exit' = exit
      <3>1. phase' = "ending" => Live \/ input'.state = "finished"  BY <2>1, <2>3, <2>4
      <3> QED  BY <1>2, <2>1, <2>3, <2>4, <3>1, TurnKeeps
    <2> QED  BY <2>1, <2>2, <2>4
  <1>11. CASE End
    <2>1. /\ phase = "ending" /\ UNCHANGED <<options, input, decoded, recorder, expired>>
          /\ phase' = "over"
          /\ exit' = IF finish_recording = "ok" /\ options.headless /\ ~decoded.header
                     THEN "no header" ELSE finish_recording
      BY <1>11 DEF End, Leave, sourceVars, recording
    <2>2. exit' = "no header" => ~decoded.header  BY <2>1 DEF finish_recording
    <2>3. exit' = "ok" => recorder # "failed" /\ (options.headless => decoded.header)
      BY <2>1 DEF finish_recording
    <2>4. options.headless => Live \/ WholeRead  BY <2>1 DEF ExitInv
    <2> QED  BY <1>2, <2>1, <2>2, <2>3, <2>4, EndKeeps
  <1>12. CASE Environment
    <2>1. /\ phase \notin {"args", "audit", "over"} /\ phase' = phase
          /\ UNCHANGED <<options, input, decoded, exit>>
          /\ expired' = expired \/ options.duration
      BY <1>12 DEF Environment, HoldPasses, TwoSeconds, Expire, OtherWrites, Running, Outside
    <2>2. expired' => options.duration  BY <2>1 DEF ExitInv
    <2>3. /\ phase' \in {"top", "key"} => ~options.headless
          /\ phase' = "ending" /\ options.headless => Live \/ input'.state = "finished"
      BY <2>1 DEF ExitInv
    <2> QED  BY <1>2, <2>1, <2>2, <2>3, TurnKeeps
  <1> QED
    BY <1>2, <1>4, <1>5, <1>6, <1>7, <1>8, <1>9, <1>10, <1>11, <1>12 DEF Loop

-----------------------------------------------------------------------------
LEMMA ExitInvariant == HostSpec => [](RecordingInv /\ ExitInv)
  <1>1. RecordingInv /\ ExitInv /\ [HostNext]_hostVars => (RecordingInv /\ ExitInv)'
    BY RecordingStep, ExitStep DEF RecordingInv
  <1> QED  BY RecordingInit, ExitInit, <1>1, PTL DEF HostSpec

\* A command that ends well has recorded all it read, has seen a header and, for a file, its
\* end; one that ends for want of a header has seen none; and a replay is called done only when
\* the whole file was read and the recording of it stands (finish_recording, App::health).
THEOREM ExitIsTrue == HostSpec => []ExitTellsTheTruth
  <1>1. RecordingInv /\ ExitInv => ExitTellsTheTruth
    <2> SUFFICES ASSUME RecordingInv, ExitInv PROVE ExitTellsTheTruth  OBVIOUS
    <2> DEFINE recorded == record_path /\ input.next > 1 =>
                             capture = [by |-> "viewer", bytes |-> UpTo(input.next - 1)]
    <2>1. recorder # "failed" => recorded
      <3> SUFFICES ASSUME recorder # "failed", record_path, input.next > 1
                   PROVE  capture = [by |-> "viewer", bytes |-> UpTo(input.next - 1)]
        OBVIOUS
      <3>1. recorder = "open"  BY DEF RecordingInv
      <3>2. Mine /\ capture.bytes = UpTo(input.next - 1) /\ capture \in Captures
        BY <3>1 DEF RecordingInv, Mine
      <3> QED  BY <3>2 DEF Mine, Captures
    <2>2. exit = "ok" => recorded  BY <2>1 DEF ExitInv
    <2>3. exit = "ok" /\ options.headless => HeaderRead /\ (~Live => WholeRead)  BY DEF ExitInv
    <2>4. exit = "no header" => ~HeaderRead  BY DEF ExitInv
    <2>5. health = "replay done" => recorder # "failed" /\ input.state = "finished"
      BY DEF health
    <2>6. health = "replay done" => recorded /\ WholeRead  BY <2>1, <2>5 DEF ExitInv
    <2> HIDE DEF recorded
    <2> QED  BY <2>2, <2>3, <2>4, <2>6 DEF ExitTellsTheTruth, HeaderRead, WholeRead, UpTo, recorded
  <1> QED  BY <1>1, ExitInvariant, PTL

-----------------------------------------------------------------------------
(* The audit. *)

LEMMA ProjectParsed == \A p \in Projects \cup ScreenProjects : Parsed(p)
  BY ProjectsAreParsed, ScreenProjectsAreNamed

\* An audit that is run stands on a project that is parsed; a viewer started without one has none,
\* and never gets past the start of it.
AuditInv ==
  /\ AuditStands /\ AuditCompared
  /\ AuditNumbers \/ (command = "tui" /\ ~options.audit /\ stage = "find")

LEMMA AuditInit0 == HostInit => AuditInv
  <1> SUFFICES ASSUME HostInit PROVE AuditInv  OBVIOUS
  <1>1. PICK projects : AuditInit(projects)
    BY DEF HostInit
  <1>2. /\ stage = "find"
        /\ \/ project \in Projects \cup ScreenProjects
           \/ command = "tui" /\ ~options.audit
    BY DEF HostInit, AuditInit
  <1>3. project \in Projects \cup ScreenProjects => AuditNumbers
    BY <1>1, ProjectParsed, NumbersStart
  <1>4. AuditCompared  BY <1>2 DEF AuditCompared
  <1> QED  BY <1>1, <1>2, <1>3, <1>4, AuditStarts DEF AuditInv

\* A command line is given once.
LEMMA OptionsStay == ASSUME [HostNext]_hostVars PROVE UNCHANGED <<command, options>>
  <1>1. CASE UNCHANGED <<command, viewerVars>>  BY <1>1 DEF viewerVars
  <1>2. CASE command' = command /\ (Loaded \/ Loop \/ Environment)
    BY <1>2 DEF Loaded, Loop, Environment, Start, Skip, ReadBytes, ReadEmpty, ReadEof, ReadError, Show,
                NoKey, Quit, Top, Headless, End, Key, Wait, Turn, HoldPasses, TwoSeconds, Expire,
                OtherWrites, Outside
  <1> QED  BY <1>1, <1>2, ViewerMoves

LEMMA AuditInvStep == AuditInv /\ [HostNext]_hostVars => AuditInv'
  <1> SUFFICES ASSUME AuditInv, [HostNext]_hostVars PROVE AuditInv'  OBVIOUS
  <1>1. \/ UNCHANGED auditVars
        \/ AuditNext /\ (command = "audit" \/ options.audit)
    BY DEF HostNext, RunAudit, ViewerStep, LoadAudit, AuditLoaded, RunViewer, Beside, hostVars,
           AuditNext
  <1>2. CASE UNCHANGED auditVars
    <2>1. stage' = stage  BY <1>2 DEF auditVars
    <2> QED  BY <1>2, <2>1, AuditStaysAsItIs, NumbersStayAsTheyAre, ComparedStaysAsItIs, OptionsStay
            DEF AuditInv
  <1>3. CASE AuditNext /\ (command = "audit" \/ options.audit)
    <2>1. AuditStands /\ AuditNumbers /\ AuditCompared  BY <1>3 DEF AuditInv
    <2>2. Parsed(project)  BY <2>1 DEF AuditNumbers
    <2> QED  BY <1>3, <2>1, <2>2, AuditKeeps, NumbersKeep, ComparedKeeps DEF AuditInv
  <1> QED  BY <1>1, <1>2, <1>3

\* Nothing declared and nothing measured is dropped in silence: every object of the workload is in
\* one of the three lists of a report and every coefficient is charged, stands beside the first
\* object of its name placed at run time, or is reported as unattached (audit_with and
\* narrowed_characterisation of laxity-audit).
THEOREM NothingGetsLost == HostSpec => []NothingIsDropped
  <1>1. AuditInv => NothingIsDropped
    BY DEF AuditInv, AuditStands, NothingIsDropped
  <1> QED  BY AuditInit0, AuditInvStep, <1>1, PTL DEF HostSpec

\* The total of a report is what the bytes say, for every profile, placement, requester and
\* characterisation: one charge for each coefficient that has a byte of its object inside the region
\* its requester touches, and "at least" exactly where one of those has no number (cost of
\* laxity-core, as audit_with calls it).  A build that replaces the image on the way changes what is
\* placed, never what a placement costs.
THEOREM TheTotalIsOfTheBytes == HostSpec => []TotalIsThePlacement
  <1>1. AuditInv => TotalIsThePlacement
    BY DEF AuditInv, AuditNumbers, TotalIsThePlacement
  <1> QED  BY AuditInit0, AuditInvStep, <1>1, PTL DEF HostSpec

\* What an image and a table of it say is the same: the objects that are read for a placement, written
\* as a table against the profile and read back, are those objects in those regions, as many of them,
\* for every image and every profile; and the table is read back wherever no two regions go by one
\* name (parse_elf, write and parse of laxity-elf, read_objects of laxity-audit).
THEOREM TheTableIsTheImage == HostSpec => []TableAgreesWithElf
  <1>1. AuditInv => TableAgreesWithElf
    BY WrittenIsRead DEF AuditInv, TableAgreesWithElf
  <1> QED  BY AuditInit0, AuditInvStep, <1>1, PTL DEF HostSpec

\* A report without a disagreement has compared all that an image can deny, for every declaration,
\* image, table and profile: what is placed is as some declaration of its name says, every candidate
\* of a reservation has a byte of what the reservation moves within, and a table stood in for the
\* image only where nothing is declared that the image could have denied (audit_with and
\* needs_the_binary of laxity-audit).
THEOREM CleanIsCompared == HostSpec => []CleanMeansChecked
  <1>1. AuditInv => CleanMeansChecked
    BY CleanInWords DEF AuditInv, AuditCompared
  <1> QED  BY AuditInit0, AuditInvStep, <1>1, PTL DEF HostSpec

\* What the screen has for an object in the region it is in is what the report charges it, for every
\* profile, placement, requester and characterisation: the price at the base of the region and the
\* terms of the object are one and the same, and where there is no price there is no term
\* (candidates of laxity-audit, what_if_rows and candidate_row of the screen).
THEOREM TheScreenIsOfTheTotal == HostSpec => []WhatIfAgreesWithTotal
  <1>1. AuditInv => WhatIfAgreesWithTotal
    BY WhatIfIsCharged DEF AuditInv, WhatIfAgreesWithTotal
  <1> QED  BY AuditInit0, AuditInvStep, <1>1, PTL DEF HostSpec

-----------------------------------------------------------------------------
(* The store and the screen. *)

\* The records a cell is of, and what is kept of a sample of one.
OfCell(now, key) == Selected(now.records, LAMBDA r : Measures(r, key, now.header))
ExecsOf(samples) == [i \in DOMAIN samples |-> samples[i].exec]

LastHeader(events) == events[Max(Headers(events))].header

\* The device is the one the last header announces, and its placements those of the header that
\* began the section.
DeviceFollows(device, events) ==
  LET header == Sections(events).header IN
  /\ DOMAIN device = DOMAIN NoDevice /\ device.revision \in Nat
  /\ IF Headers(events) = {}
       THEN header = Nothing /\ device.arenas = Nothing /\ device.placements = <<>>
       ELSE /\ header # Nothing /\ device.arenas = header.arenas
            /\ device.placements = placements_of(header)
            /\ device.arenas = LastHeader(events).arenas
            /\ device.models = LastHeader(events).models

KeyOf(revision, key) ==
  [revision |-> revision, workload |-> key.workload, placement |-> key.placement,
   requester |-> key.requester]

\* The order lists the cells, each once.
OrderIsOfCells(store) ==
  /\ IsFiniteSet(DOMAIN store.cells)
  /\ store.order \in Seq(DOMAIN store.cells)
  /\ \A i, j \in DOMAIN store.order : store.order[i] = store.order[j] => i = j
  /\ ToSet(store.order) = DOMAIN store.cells
  /\ Len(store.order) = Cardinality(DOMAIN store.cells)
  /\ Len(store.order) <= CELL_LIMIT

CellIsOfRecords(store, key, now) ==
  /\ key = KeyOf(store.revision, key)
  /\ IsList(store.cells[key])
  /\ Len(store.cells[key]) \in 1..SAMPLE_LIMIT
  /\ IsSuffix(ExecsOf(store.cells[key]), ExecsOf(OfCell(now, key)))

LatestIsNewest(store, now) ==
  IF now.records = <<>> THEN store.latest = Nothing
  ELSE LET newest == Last(now.records)
       IN  /\ store.latest.sequence = newest.seq
           /\ Measures(newest, store.latest, now.header)
           /\ \E key \in DOMAIN store.cells : Measures(newest, key, now.header)

StoreFollows(store, now) ==
  /\ DOMAIN store = DOMAIN EmptyStore
  /\ OrderIsOfCells(store)
  /\ \A key \in DOMAIN store.cells : CellIsOfRecords(store, key, now)
  /\ LatestIsNewest(store, now)

\* What is displayed was measured of a record of this section, and lies where its header says.
DisplayFollows(display, now) ==
  display # Nothing =>
    /\ \E r \in ToSet(now.records) :
         /\ display.measurement.sequence = r.seq
         /\ Measures(r, display.measurement, now.header)
    /\ display.here = RegionIn(now.header, display.measurement.placement)

\* A drawn scene is of the placements of its revision and of the record of its number.
SceneIsOf(drawn, now) ==
  LET shown == drawn.model.regions IN
  /\ now.header # Nothing =>
       \A name \in DOMAIN shown :
         DOMAIN shown[name].placements =
           {id \in DOMAIN now.header.arenas : RegionIn(now.header, id) = name}
  /\ drawn.key[2] # Nothing =>
       \E r \in ToSet(now.records) :
         /\ drawn.key[2] = r.seq
         /\ Measures(r, [workload |-> r.model, placement |-> r.placement,
                         requester |-> drawn.model.flow], now.header)
         /\ \A name \in DOMAIN shown : \A id \in DOMAIN shown[name].placements :
              shown[name].placements[id].active = (id = r.placement)

SceneFollows(drawn, revision, now) ==
  /\ drawn.key[1] \in Nat /\ drawn.key[1] <= revision
  /\ drawn.key[1] = revision => SceneIsOf(drawn, now)

\* Everything the viewer made of the events so far; a scene that was drawn may be of an earlier
\* revision, and is then not drawn again.
Follows(m, drawn, events) ==
  LET now == Sections(events) IN
  /\ DOMAIN m = DOMAIN NoModel
  /\ DeviceFollows(m.device, events)
  /\ m.store.revision = m.device.revision
  /\ StoreFollows(m.store, now)
  /\ DisplayFollows(m.display, now)
  /\ drawn # Nothing => SceneFollows(drawn, m.device.revision, now)
  /\ IsList(now.records) /\ \A r \in ToSet(now.records) : r.seq # Nothing

\* While a key is waited for, the scene is the one of what is displayed.
DrawnIsShown ==
  phase = "key" /\ screen.view = "memory" =>
    /\ SceneFollows(scene, model.device.revision, Sections(Seen))
    /\ scene.key[1] = model.device.revision
    /\ scene.key[2] = IF model.display = Nothing THEN Nothing ELSE model.display.measurement.sequence

ViewInv ==
  /\ command = "tui" => options \in CommandLines /\ input.next <= Len(Chunks) + 1
  /\ Follows(model, scene, Seen)
  /\ DrawnIsShown

\* A header that begins a section, after some events.
Differs(events, e) ==
  Headers(events) # {} => \/ LastHeader(events).arenas # e.header.arenas
                          \/ LastHeader(events).models # e.header.models

Beginnings(events) == {0} \cup {i \in Headers(events) : Changes(events, i)}

LEMMA HeadersGrow ==
  ASSUME NEW E, NEW events \in Seq(E), NEW e \in E
  PROVE  LET longer == Append(events, e)
         IN  /\ Headers(events) \subseteq 1..Len(events)
             /\ Headers(longer) =
                  Headers(events) \cup (IF e.kind = "header" THEN {Len(events) + 1} ELSE {})
             /\ Headers(events) # {} => Max(Headers(events)) \in Headers(events)
                                        /\ \A i \in Headers(events) : i <= Max(Headers(events))
  <1> DEFINE longer == Append(events, e)
             n == Len(events)
  <1>1. /\ n \in Nat /\ DOMAIN events = 1..n /\ DOMAIN longer = 1..(n + 1)
        /\ longer[n + 1] = e /\ \A i \in 1..n : longer[i] = events[i]
    OBVIOUS
  <1>2. Headers(events) \subseteq 1..n  BY <1>1 DEF Headers
  <1> HIDE DEF longer, n
  <1>3. DOMAIN longer = DOMAIN events \cup {n + 1}  BY <1>1
  <1>4. Headers(longer) = Headers(events) \cup (IF e.kind = "header" THEN {n + 1} ELSE {})
    BY <1>1, <1>3 DEF Headers
  <1>5. Headers(events) \in SUBSET (0..n)  BY <1>1, <1>2
  <1>6. Headers(events) # {} => Max(Headers(events)) \in Headers(events)
                                /\ \A i \in Headers(events) : i <= Max(Headers(events))
    BY <1>1, <1>5, MaxIsGreatest
  <1> QED  BY <1>2, <1>4, <1>6 DEF longer, n

LEMMA BeginningsGrow ==
  ASSUME NEW E, NEW events \in Seq(E), NEW e \in E
  PROVE  LET longer == Append(events, e)
         IN  /\ Beginnings(events) \subseteq 0..Len(events)
             /\ Beginnings(longer) =
                  Beginnings(events) \cup (IF e.kind = "header" /\ Differs(events, e)
                                             THEN {Len(events) + 1} ELSE {})
  <1> DEFINE longer == Append(events, e)
             n == Len(events)
             before(i) == {j \in Headers(events) : j < i}
             after(i) == {j \in Headers(longer) : j < i}
  <1>1. /\ n \in Nat /\ longer[n + 1] = e /\ \A i \in 1..n : longer[i] = events[i]
    OBVIOUS
  <1>2. /\ Headers(events) \subseteq 1..n
        /\ Headers(longer) = Headers(events) \cup (IF e.kind = "header" THEN {n + 1} ELSE {})
    BY HeadersGrow
  <1> HIDE DEF longer, n
  <1>3. ASSUME NEW i \in 1..n PROVE after(i) = before(i)  BY <1>1, <1>2
  <1>4. before(n + 1) = Headers(events) /\ after(n + 1) = Headers(events)  BY <1>1, <1>2
  <1>5. ASSUME NEW i \in Headers(events) PROVE Changes(longer, i) <=> Changes(events, i)
    <2>1. i \in 1..n /\ after(i) = before(i) /\ longer[i] = events[i]  BY <1>1, <1>2, <1>3
    <2>2. before(i) # {} => longer[Max(before(i))] = events[Max(before(i))]
      <3>1. before(i) \in SUBSET (0..n)  BY <1>1, <1>2
      <3>2. before(i) \subseteq 1..n  BY <1>2
      <3> HIDE DEF before
      <3>3. before(i) # {} => Max(before(i)) \in before(i)  BY <1>1, <3>1, MaxIsGreatest
      <3> QED  BY <1>1, <3>2, <3>3
    <2>3. Changes(longer, i) <=>
            (after(i) # {} => \/ longer[Max(after(i))].header.arenas # longer[i].header.arenas
                              \/ longer[Max(after(i))].header.models # longer[i].header.models)
      BY DEF Changes
    <2>4. Changes(events, i) <=>
            (before(i) # {} => \/ events[Max(before(i))].header.arenas # events[i].header.arenas
                               \/ events[Max(before(i))].header.models # events[i].header.models)
      BY DEF Changes
    <2> HIDE DEF before, after
    <2> QED  BY <2>1, <2>2, <2>3, <2>4
  <1>6. Changes(longer, n + 1) <=> Differs(events, e)
    <2>1. Changes(longer, n + 1) <=>
            (after(n + 1) # {} =>
               \/ longer[Max(after(n + 1))].header.arenas # longer[n + 1].header.arenas
               \/ longer[Max(after(n + 1))].header.models # longer[n + 1].header.models)
      BY DEF Changes
    <2>2. Headers(events) # {} => longer[Max(Headers(events))] = events[Max(Headers(events))]
      <3>1. Headers(events) # {} => Max(Headers(events)) \in Headers(events)  BY HeadersGrow
      <3> QED  BY <1>1, <1>2, <3>1
    <2> HIDE DEF after
    <2> QED  BY <1>1, <1>4, <2>1, <2>2 DEF Differs, LastHeader
  <1>7. n + 1 \notin Headers(events)  BY <1>1, <1>2
  <1>8. Beginnings(events) \subseteq 0..n  BY <1>1, <1>2 DEF Beginnings
  <1>9. Beginnings(longer) =
          Beginnings(events) \cup (IF e.kind = "header" /\ Differs(events, e) THEN {n + 1} ELSE {})
    BY <1>2, <1>5, <1>6, <1>7 DEF Beginnings
  <1> QED  BY <1>8, <1>9 DEF longer, n

\* What is left of the events from one place on, the records of it, and one event more.
RecordsFrom(events, began) ==
  LET later == Selected(SubSeq(events, began + 1, Len(events)), LAMBDA e : e.kind = "record")
  IN  [i \in DOMAIN later |-> later[i].record]

LEMMA RecordsGrow ==
  ASSUME NEW E, NEW events \in Seq(E), NEW e \in E, NEW b \in 0..Len(events)
  PROVE  RecordsFrom(Append(events, e), b) =
           IF e.kind = "record" THEN Append(RecordsFrom(events, b), e.record)
           ELSE RecordsFrom(events, b)
  <1> DEFINE longer == Append(events, e)
             T == {x \in E : x.kind = "record"}
             rest == SubSeq(events, b + 1, Len(events))
             more == SubSeq(longer, b + 1, Len(longer))
             later == Only(rest, T)
             then == Only(more, T)
             R(s) == [i \in DOMAIN s |-> s[i].record]
  <1>1. rest \in Seq(E) /\ more = Append(rest, e) /\ more \in Seq(E)
    <2>1. /\ Len(events) \in Nat /\ Len(longer) = Len(events) + 1 /\ longer[Len(events) + 1] = e
          /\ \A i \in 1..Len(events) : longer[i] = events[i]
          /\ longer \in Seq(E)
      OBVIOUS
    <2>2. rest \in Seq(E) /\ Len(rest) = Len(events) - b
          /\ \A i \in 1..(Len(events) - b) : rest[i] = events[b + i]
      BY <2>1
    <2> HIDE DEF longer, rest
    <2>3. /\ more \in Seq(E) /\ Len(more) = Len(events) + 1 - b
          /\ \A i \in 1..(Len(events) + 1 - b) : more[i] = longer[b + i]
      BY <2>1
    <2>4. /\ Append(rest, e) \in Seq(E) /\ Len(Append(rest, e)) = Len(events) - b + 1
          /\ Append(rest, e)[Len(events) - b + 1] = e
          /\ \A i \in 1..(Len(events) - b) : Append(rest, e)[i] = rest[i]
      BY <2>2
    <2>5. Len(more) = Len(Append(rest, e))  BY <2>1, <2>3, <2>4
    <2>6. ASSUME NEW i \in 1..Len(more) PROVE more[i] = Append(rest, e)[i]
      <3>1. CASE i = Len(events) - b + 1
        <4>1. b + i = Len(events) + 1  BY <2>1, <3>1
        <4> HIDE DEF more
        <4> QED  BY <2>1, <2>3, <2>4, <2>5, <3>1, <4>1
      <3>2. CASE i # Len(events) - b + 1
        <4>0. Len(more) = Len(events) + 1 - b  BY <2>3
        <4> HIDE DEF more
        <4>1. i \in 1..(Len(events) - b) /\ b + i \in 1..Len(events)  BY <2>1, <3>2, <4>0
        <4> QED  BY <2>1, <2>2, <2>3, <2>4, <4>0, <4>1
      <3> QED  BY <3>1, <3>2
    <2> HIDE DEF more
    <2> DEFINE other == Append(rest, e)
    <2>7. other \in Seq(E) /\ more \in Seq(E) /\ Len(more) = Len(other) /\ \A i \in 1..Len(more) : more[i] = other[i]
      BY <2>3, <2>4, <2>5, <2>6
    <2> HIDE DEF other
    <2>8. more = other  BY <2>7
    <2> QED  BY <2>2, <2>3, <2>8 DEF other
  <1>2. RecordsFrom(events, b) = R(later)
    <2>1. [i \in DOMAIN rest |-> IF rest[i].kind = "record" THEN <<rest[i]>> ELSE <<>>]
            = [i \in DOMAIN rest |-> IF rest[i] \in T THEN <<rest[i]>> ELSE <<>>]
      <3>1. \A i \in DOMAIN rest : rest[i] \in T <=> rest[i].kind = "record"  BY <1>1
      <3> HIDE DEF rest, T
      <3> QED  BY <3>1
    <2> HIDE DEF T
    <2> QED  BY <2>1 DEF RecordsFrom, Selected, Only
  <1>3. RecordsFrom(longer, b) = R(then)
    <2>1. [i \in DOMAIN more |-> IF more[i].kind = "record" THEN <<more[i]>> ELSE <<>>]
            = [i \in DOMAIN more |-> IF more[i] \in T THEN <<more[i]>> ELSE <<>>]
      <3>0. \A i \in DOMAIN more : more[i] \in E
        <4> HIDE DEF more
        <4> QED  BY <1>1
      <3> HIDE DEF more
      <3>1. \A i \in DOMAIN more : more[i] \in T <=> more[i].kind = "record"  BY <3>0
      <3> HIDE DEF T
      <3> QED  BY <3>1
    <2> HIDE DEF T
    <2> QED  BY <2>1 DEF RecordsFrom, Selected, Only
  <1>4. e \in T <=> e.kind = "record"  OBVIOUS
  <1> HIDE DEF rest, more, T
  <1>5. then = IF e \in T THEN Append(later, e) ELSE later  BY <1>1, OnlyAppend
  <1>6. later \in Seq(E)  BY <1>1, OnlyParts
  <1> HIDE DEF later, then
  <1>7. R(Append(later, e)) = Append(R(later), e.record)
    <2>1. /\ Len(later) \in Nat /\ DOMAIN later = 1..Len(later)
          /\ DOMAIN Append(later, e) = 1..(Len(later) + 1)
          /\ Append(later, e)[Len(later) + 1] = e
          /\ \A i \in 1..Len(later) : Append(later, e)[i] = later[i]
      BY <1>6
    <2> DEFINE u == Append(later, e)
    <2> HIDE DEF u
    <2>2. R(later) \in Seq({later[i].record : i \in DOMAIN later}) /\ Len(R(later)) = Len(later)
      BY <2>1
    <2> DEFINE v == R(later)
    <2>3. Append(v, e.record) = [i \in 1..(Len(later) + 1) |-> IF i = Len(later) + 1 THEN e.record ELSE v[i]]
      <3> HIDE DEF v
      <3> QED  BY <2>2 DEF v
    <2>4. \A i \in 1..Len(later) : v[i] = later[i].record  BY <2>1
    <2>5. R(u) = [i \in 1..(Len(later) + 1) |-> IF i = Len(later) + 1 THEN e.record ELSE v[i]]
      <3> HIDE DEF v
      <3> QED  BY <2>1, <2>4 DEF u
    <2> QED  BY <2>3, <2>5 DEF u
  <1> QED  BY <1>2, <1>3, <1>4, <1>5, <1>7 DEF longer

LEMMA NoRecords ==
  ASSUME NEW events, NEW b, SubSeq(events, b + 1, Len(events)) = <<>>
  PROVE  RecordsFrom(events, b) = <<>>
  <1> DEFINE rest == SubSeq(events, b + 1, Len(events))
             later(s) == FlattenSeq([i \in DOMAIN s |->
                           IF s[i].kind = "record" THEN <<s[i]>> ELSE <<>>])
  <1>1. RecordsFrom(events, b) = [i \in DOMAIN later(rest) |-> later(rest)[i].record]
    BY DEF RecordsFrom, Selected
  <1>2. rest = <<>>  OBVIOUS
  <1> HIDE DEF rest
  <1>3. later(rest) = <<>>
    <2>1. [i \in DOMAIN <<>> |-> IF <<>>[i].kind = "record" THEN <<<<>>[i]>> ELSE <<>>] = <<>>
      OBVIOUS
    <2>2. FlattenSeq(<<>>) = <<>>  BY DEF FlattenSeq
    <2> QED  BY <1>2, <2>1, <2>2
  <1> HIDE DEF later
  <1> QED  BY <1>1, <1>3

LEMMA SectionGrows ==
  ASSUME NEW E, NEW events \in Seq(E), NEW e \in E
  PROVE  LET longer == Append(events, e)
             before == Sections(events)
             now == Sections(longer)
         IN  /\ ~(e.kind = "header" /\ Differs(events, e)) =>
                  /\ now.header = before.header
                  /\ now.records = IF e.kind = "record" THEN Append(before.records, e.record)
                                   ELSE before.records
             /\ e.kind = "header" /\ Differs(events, e) =>
                  now.header = e.header /\ now.records = <<>>
  <1> DEFINE longer == Append(events, e)
             n == Len(events)
             began == Began(events)
             new == e.kind = "header" /\ Differs(events, e)
  <1>1. /\ n \in Nat /\ Len(longer) = n + 1 /\ longer[n + 1] = e
        /\ \A i \in 1..n : longer[i] = events[i]
    OBVIOUS
  <1>2. /\ Beginnings(events) \subseteq 0..n
        /\ Beginnings(longer) = Beginnings(events) \cup (IF new THEN {n + 1} ELSE {})
    BY BeginningsGrow
  <1>3. Began(events) = Max(Beginnings(events)) /\ Began(longer) = Max(Beginnings(longer))
    BY DEF Began, Beginnings
  <1>4. Beginnings(events) # {}  BY DEF Beginnings
  <1>5. began \in 0..n  BY <1>1, <1>2, <1>3, <1>4, MaxIsGreatest
  <1>6. /\ Sections(events).header = IF began = 0 THEN Nothing ELSE events[began].header
        /\ Sections(events).records = RecordsFrom(events, began)
    BY DEF Sections, RecordsFrom
  <1>7. /\ Sections(longer).header = IF Began(longer) = 0 THEN Nothing ELSE longer[Began(longer)].header
        /\ Sections(longer).records = RecordsFrom(longer, Began(longer))
    BY DEF Sections, RecordsFrom
  <1>8. CASE ~new
    <2>1. Began(longer) = began  BY <1>2, <1>3, <1>8
    <2>2. RecordsFrom(longer, began) =
            IF e.kind = "record" THEN Append(RecordsFrom(events, began), e.record)
            ELSE RecordsFrom(events, began)
      BY <1>5, RecordsGrow
    <2>3. began # 0 => longer[began] = events[began]  BY <1>1, <1>5
    <2> HIDE DEF longer, began, new, n
    <2> QED  BY <1>6, <1>7, <1>8, <2>1, <2>2, <2>3 DEF longer, new
  <1>9. CASE new
    <2>1. Began(longer) = n + 1
      <3>1. Beginnings(longer) \in SUBSET (0..(n + 1)) /\ n + 1 \in Beginnings(longer)
        BY <1>1, <1>2, <1>9
      <3>2. Began(longer) \in 0..(n + 1) /\ n + 1 <= Began(longer)
        <4>1. n + 1 \in Nat  BY <1>1
        <4> HIDE DEF longer, n
        <4> QED  BY <1>3, <3>1, <4>1, MaxIsGreatest
      <3> QED  BY <1>1, <3>2
    <2>2. RecordsFrom(longer, n + 1) = <<>>
      <3>1. SubSeq(longer, n + 1 + 1, Len(longer)) = <<>>
        <4>1. longer \in Seq(E)  OBVIOUS
        <4> HIDE DEF longer
        <4> QED  BY <1>1, <4>1
      <3> HIDE DEF longer, n
      <3> QED  BY <3>1, NoRecords
    <2>3. n + 1 # 0  BY <1>1
    <2> HIDE DEF longer, began, new, n
    <2> QED  BY <1>1, <1>7, <1>9, <2>1, <2>2, <2>3 DEF longer, new
  <1> QED  BY <1>8, <1>9

\* An event as the decoder hands it on.
IsEvent(e) ==
  \/ e.kind = "header" /\ e.header # Nothing /\ e.header.arenas # Nothing
  \/ e.kind = "record" /\ e.record.seq # Nothing

LEMMA HeaderFollows ==
  ASSUME NEW E, NEW events \in Seq(E), NEW e \in E, IsEvent(e), e.kind = "header",
         NEW device, DeviceFollows(device, events)
  PROVE  LET next == apply_header(device, e.header)
         IN  /\ DeviceFollows(next, Append(events, e))
             /\ Structural(device, e.header) <=> Differs(events, e)
             /\ next.revision =
                  IF Structural(device, e.header) THEN device.revision + 1 ELSE device.revision
  <1> DEFINE longer == Append(events, e)
             header == e.header
             next == apply_header(device, header)
             old == Sections(events).header
             new == Sections(longer).header
             heads == Headers(events)
             more == Headers(longer)
  <1>1. /\ heads \subseteq 1..Len(events) /\ more = heads \cup {Len(events) + 1}
        /\ ~Differs(events, e) => new = old
        /\ Differs(events, e) => new = header
    BY HeadersGrow, SectionGrows
  <1>2. Len(events) \in Nat /\ longer[Len(events) + 1] = e  OBVIOUS
  <1>3. header # Nothing /\ header.arenas # Nothing  BY DEF IsEvent
  <1>4. /\ DOMAIN device = DOMAIN NoDevice /\ device.revision \in Nat
        /\ heads = {} => device.arenas = Nothing
        /\ heads # {} => /\ old # Nothing /\ device.arenas = old.arenas
                         /\ device.placements = placements_of(old)
                         /\ device.arenas = LastHeader(events).arenas
                         /\ device.models = LastHeader(events).models
    BY DEF DeviceFollows
  <1>5. Structural(device, header) <=> Differs(events, e)
    BY <1>3, <1>4 DEF Structural, Differs
  <1>6. LastHeader(longer) = header
    <2>1. more \in SUBSET (0..(Len(events) + 1)) /\ Len(events) + 1 \in more /\ more # {}
      BY <1>1, <1>2
    <2>2. Max(more) \in more /\ Len(events) + 1 <= Max(more)
      <3>1. Len(events) + 1 \in Nat  BY <1>2
      <3> HIDE DEF more
      <3> QED  BY <2>1, <3>1, MaxIsGreatest
    <2>3. Max(more) = Len(events) + 1  BY <1>1, <1>2, <2>2
    <2> HIDE DEF more, longer
    <2> QED  BY <1>2, <2>3 DEF LastHeader, more
  <1>7. more # {}  BY <1>1
  <1> HIDE DEF longer, header, old, new, heads, more
  <1>8. CASE Structural(device, header)
    <2>1. next = [arenas |-> header.arenas, models |-> header.models, stall |-> header.stall,
                  placements |-> placements_of(header), revision |-> device.revision + 1]
      BY <1>8 DEF apply_header
    <2>2. DOMAIN next = DOMAIN NoDevice /\ next.revision \in Nat  BY <1>4, <2>1 DEF NoDevice
    <2>3. new = header  BY <1>1, <1>5, <1>8
    <2>4. DeviceFollows(next, longer)
      <3> HIDE DEF next
      <3> QED  BY <1>3, <1>6, <1>7, <2>1, <2>2, <2>3 DEF DeviceFollows, new, more
    <2> QED  BY <1>5, <1>8, <2>1, <2>4 DEF longer, header
  <1>9. CASE ~Structural(device, header)
    <2>1. next = [device EXCEPT !.stall = header.stall]  BY <1>9 DEF apply_header
    <2>2. /\ DOMAIN next = DOMAIN NoDevice /\ next.revision = device.revision
          /\ next.arenas = device.arenas /\ next.models = device.models
          /\ next.placements = device.placements
      BY <1>4, <2>1 DEF NoDevice
    <2>3. new = old /\ heads # {}  BY <1>1, <1>3, <1>4, <1>5, <1>9 DEF Structural
    <2>4. header.arenas = device.arenas /\ header.models = device.models  BY <1>9 DEF Structural
    <2>5. DeviceFollows(next, longer)
      <3> HIDE DEF next
      <3> QED  BY <1>4, <1>6, <1>7, <2>2, <2>3, <2>4 DEF DeviceFollows, new, more
    <2> QED  BY <1>5, <1>9, <2>2, <2>5 DEF longer, header
  <1> QED  BY <1>8, <1>9

LEMMA RecordFollows ==
  ASSUME NEW E, NEW events \in Seq(E), NEW e \in E, e.kind = "record",
         NEW device, DeviceFollows(device, events)
  PROVE  DeviceFollows(device, Append(events, e))
  <1> DEFINE longer == Append(events, e)
  <1>0. e.kind # "header"  OBVIOUS
  <1>1. /\ Headers(longer) = Headers(events) /\ Headers(events) \subseteq 1..Len(events)
        /\ Headers(events) # {} => Max(Headers(events)) \in Headers(events)
    BY <1>0, HeadersGrow
  <1>2a. Sections(longer).header = Sections(events).header  BY <1>0, SectionGrows
  <1>2. \A i \in 1..Len(events) : longer[i] = events[i]  OBVIOUS
  <1> HIDE DEF longer
  <1>3. Headers(events) # {} => LastHeader(longer) = LastHeader(events)
    BY <1>1, <1>2 DEF LastHeader
  <1> QED  BY <1>1, <1>2a, <1>3 DEF DeviceFollows, longer

LEMMA RegionsAreTheHeaders ==
  ASSUME NEW events, NEW device, DeviceFollows(device, events), NEW id
  PROVE  RegionOfPlacement(device, id) = RegionIn(Sections(events).header, id)
  <1> DEFINE header == Sections(events).header
  <1>1. CASE header = Nothing
    <2>1. device.placements = <<>>  BY <1>1 DEF DeviceFollows
    <2>2. id \notin DOMAIN device.placements  BY <2>1
    <2> QED  BY <1>1, <2>2 DEF RegionOfPlacement, RegionIn
  <1>2. CASE header # Nothing
    <2>1. device.placements = placements_of(header)  BY <1>2 DEF DeviceFollows
    <2> HIDE DEF header
    <2> QED  BY <1>2, <2>1 DEF RegionOfPlacement, RegionIn, placements_of, header
  <1> QED  BY <1>1, <1>2

\* A record as it is kept is measured under the conditions it names.
LEMMA AdaptMeasures ==
  ASSUME NEW events, NEW device, DeviceFollows(device, events), NEW r
  PROVE  LET m == adapt_record(device, r)
         IN  m.sequence = r.seq /\ m.sample.exec = r.exec /\ Measures(r, m, Sections(events).header)
  <1> DEFINE region == RegionOfPlacement(device, r.target)
  <1>1. region = RegionIn(Sections(events).header, r.target)  BY RegionsAreTheHeaders
  <1> HIDE DEF region
  <1> QED  BY <1>1 DEF adapt_record, Measures, region

\* What a cell is of grows by the records of its conditions.
LEMMA CellGrows ==
  ASSUME NEW now, NEW then, NEW r, NEW key, IsList(now.records),
         then.header = now.header, then.records = Append(now.records, r)
  PROVE  /\ IsList(OfCell(now, key))
         /\ OfCell(then, key) = IF Measures(r, key, now.header) THEN Append(OfCell(now, key), r)
                                ELSE OfCell(now, key)
  <1>1. PICK S : now.records \in Seq(S)  BY DEF IsList
  <1> DEFINE R == S \cup {r}
             T == {x \in R : Measures(x, key, now.header)}
             s == now.records
             t == then.records
  <1>2. s \in Seq(R) /\ t = Append(s, r) /\ t \in Seq(R)  BY <1>1
  <1>3. OfCell(now, key) = Only(s, T)
    <2>1. \A i \in DOMAIN s : s[i] \in R
      <3> HIDE DEF R, s
      <3> QED  BY <1>2
    <2> HIDE DEF R, s
    <2>2. \A i \in DOMAIN s : s[i] \in T <=> Measures(s[i], key, now.header)  BY <2>1
    <2> HIDE DEF T
    <2>3. [i \in DOMAIN s |-> IF Measures(s[i], key, now.header) THEN <<s[i]>> ELSE <<>>]
            = [i \in DOMAIN s |-> IF s[i] \in T THEN <<s[i]>> ELSE <<>>]
      BY <2>2
    <2> QED  BY <2>3 DEF OfCell, Selected, Only, s
  <1>4. OfCell(then, key) = Only(t, T)
    <2>1. \A i \in DOMAIN t : t[i] \in R
      <3> HIDE DEF R, t
      <3> QED  BY <1>2
    <2> HIDE DEF R, t
    <2>2. \A i \in DOMAIN t : t[i] \in T <=> Measures(t[i], key, now.header)  BY <2>1
    <2> HIDE DEF T
    <2>3. [i \in DOMAIN t |-> IF Measures(t[i], key, then.header) THEN <<t[i]>> ELSE <<>>]
            = [i \in DOMAIN t |-> IF t[i] \in T THEN <<t[i]>> ELSE <<>>]
      BY <2>2
    <2> QED  BY <2>3 DEF OfCell, Selected, Only, t
  <1>5. r \in R /\ (r \in T <=> Measures(r, key, now.header))  OBVIOUS
  <1> HIDE DEF R, T, s, t
  <1>6. Only(t, T) = IF r \in T THEN Append(Only(s, T), r) ELSE Only(s, T)  BY <1>2, <1>5, OnlyAppend
  <1>7. Only(s, T) \in Seq(R)  BY <1>2, OnlyParts
  <1> QED  BY <1>3, <1>4, <1>5, <1>6, <1>7 DEF IsList

LEMMA ExecsGrow ==
  ASSUME NEW w, IsList(w), NEW x
  PROVE  /\ ExecsOf(w) \in Seq({w[i].exec : i \in DOMAIN w} \cup {x.exec}) /\ Len(ExecsOf(w)) = Len(w)
         /\ ExecsOf(Append(w, x)) = Append(ExecsOf(w), x.exec)
         /\ w # <<>> => ExecsOf(Tail(w)) = Tail(ExecsOf(w))
         /\ w # <<>> => ExecsOf(w) # <<>>
  <1> DEFINE longer == Append(w, x)
             shorter == Tail(w)
             X == {w[i].exec : i \in DOMAIN w} \cup {x.exec}
             e == ExecsOf(w)
  <1>1. PICK S : w \in Seq(S)  BY DEF IsList
  <1>2. w \in Seq(S \cup {x})  BY <1>1
  <1>3. /\ Len(w) \in Nat /\ DOMAIN w = 1..Len(w) /\ DOMAIN longer = 1..(Len(w) + 1)
        /\ longer[Len(w) + 1] = x /\ \A i \in 1..Len(w) : longer[i] = w[i]
    BY <1>2
  <1>4. w # <<>> => /\ Len(w) > 0 /\ DOMAIN shorter = 1..(Len(w) - 1)
                    /\ \A i \in 1..(Len(w) - 1) : shorter[i] = w[i + 1]
    BY <1>1
  <1> HIDE DEF longer, shorter, X
  <1>5. e = [i \in 1..Len(w) |-> w[i].exec]  BY <1>3 DEF ExecsOf
  <1>6. \A i \in 1..Len(w) : w[i].exec \in X  BY <1>3 DEF X
  <1>7. e \in Seq(X) /\ Len(e) = Len(w) /\ x.exec \in X  BY <1>3, <1>5, <1>6 DEF X
  <1>8. ExecsOf(longer) = Append(e, x.exec)
    <2>1. Append(e, x.exec) = [i \in 1..(Len(w) + 1) |-> IF i = Len(w) + 1 THEN x.exec ELSE e[i]]
      <3> HIDE DEF e
      <3> QED  BY <1>7
    <2>2. ExecsOf(longer) = [i \in 1..(Len(w) + 1) |-> IF i = Len(w) + 1 THEN x.exec ELSE w[i].exec]
      BY <1>3 DEF ExecsOf
    <2>3. \A i \in 1..Len(w) : e[i] = w[i].exec  BY <1>5
    <2> HIDE DEF e
    <2> QED  BY <1>3, <2>1, <2>2, <2>3
  <1>9. ASSUME w # <<>> PROVE ExecsOf(shorter) = Tail(e) /\ e # <<>>
    <2>1. Len(e) > 0  BY <1>4, <1>7, <1>9
    <2>2. Tail(e) = [i \in 1..(Len(w) - 1) |-> e[i + 1]]
      <3> DEFINE u == Tail(e)
      <3>1. u \in Seq(X) /\ Len(u) = Len(w) - 1 /\ \A i \in 1..(Len(w) - 1) : u[i] = e[i + 1]
        <4> HIDE DEF e
        <4> QED  BY <1>3, <1>7, <2>1
      <3> HIDE DEF e, u
      <3>2. u = [i \in 1..(Len(w) - 1) |-> u[i]]  BY <1>3, <3>1
      <3> QED  BY <3>1, <3>2 DEF u
    <2>3. \A i \in 1..(Len(w) - 1) : e[i + 1] = w[i + 1].exec  BY <1>3, <1>5
    <2>4. ExecsOf(shorter) = [i \in 1..(Len(w) - 1) |-> w[i + 1].exec]  BY <1>4, <1>9 DEF ExecsOf
    <2>5. e # <<>>
      <3> HIDE DEF e
      <3> QED  BY <2>1
    <2> HIDE DEF e
    <2> QED  BY <2>2, <2>3, <2>4, <2>5
  <1> QED  BY <1>7, <1>8, <1>9 DEF longer, shorter, X

\* One sample more in a window that is the end of what its cell is of.
LEMMA WindowGrows ==
  ASSUME NEW window, IsList(window), Len(window) <= SAMPLE_LIMIT, NEW all, IsList(all),
         NEW sample, NEW r, sample.exec = r.exec,
         window = <<>> \/ IsSuffix(ExecsOf(window), ExecsOf(all))
  PROVE  LET next == Pushed(window, sample)
         IN  /\ IsList(next) /\ Len(next) \in 1..SAMPLE_LIMIT
             /\ IsSuffix(ExecsOf(next), ExecsOf(Append(all, r)))
  <1> DEFINE x == r.exec
             e == ExecsOf(window)
             a == ExecsOf(all)
             X == {window[i].exec : i \in DOMAIN window} \cup {all[i].exec : i \in DOMAIN all} \cup {x}
             next == Pushed(window, sample)
  <1>1. /\ e \in Seq({window[i].exec : i \in DOMAIN window} \cup {sample.exec})
        /\ Len(e) = Len(window)
        /\ \A w : IsList(w) => ExecsOf(Append(w, sample)) = Append(ExecsOf(w), x)
        /\ window # <<>> => ExecsOf(Tail(window)) = Tail(e) /\ e # <<>>
    BY ExecsGrow
  <1>2. /\ a \in Seq({all[i].exec : i \in DOMAIN all} \cup {x})
        /\ ExecsOf(Append(all, r)) = Append(a, x)
    BY ExecsGrow
  <1>3. e \in Seq(X) /\ a \in Seq(X) /\ x \in X
    <2> HIDE DEF e, a
    <2> QED  BY <1>1, <1>2
  <1>4. SAMPLE_LIMIT \in Nat \ {0}  BY LimitsArePositive
  <1>5. PICK S : window \in Seq(S)  BY DEF IsList
  <1>6. Len(window) \in Nat /\ (Len(window) = 0 <=> window = <<>>)  BY <1>5
  <1> HIDE DEF e, a, X
  <1>7. CASE Len(window) = SAMPLE_LIMIT
    <2>1. window # <<>>  BY <1>4, <1>6, <1>7
    <2>2. next = Append(Tail(window), sample)  BY <1>7 DEF Pushed
    <2>3. Tail(window) \in Seq(S) /\ Len(Tail(window)) = Len(window) - 1  BY <1>5, <2>1
    <2>4. IsList(Tail(window))  BY <2>3 DEF IsList
    <2>5. ExecsOf(next) = Append(Tail(e), x)  BY <1>1, <2>1, <2>2, <2>4
    <2>6. IsSuffix(e, a)  BY <2>1 DEF e, a
    <2>7. IsSuffix(Append(Tail(e), x), Append(a, x))  BY <1>1, <1>3, <2>1, <2>6, SuffixGrows
    <2>8. IsList(next) /\ Len(next) = Len(Tail(window)) + 1  BY <2>2, <2>4, ListGrows
    <2>9. Len(next) \in 1..SAMPLE_LIMIT  BY <1>4, <1>6, <1>7, <2>3, <2>8
    <2> QED  BY <1>2, <2>5, <2>7, <2>8, <2>9
  <1>8. CASE Len(window) # SAMPLE_LIMIT
    <2>1. next = Append(window, sample)  BY <1>8 DEF Pushed
    <2>2. ExecsOf(next) = Append(e, x)  BY <1>1, <2>1 DEF e
    <2>3. IsSuffix(Append(e, x), Append(a, x))
      <3>1. CASE window = <<>>
        <4>1. e = <<>>  BY <1>1, <1>3, <1>6, <3>1
        <4>2. Append(e, x) = <<x>>  BY <4>1
        <4> QED  BY <1>3, <4>2, SuffixGrows
      <3>2. CASE window # <<>>
        <4>1. IsSuffix(e, a)  BY <3>2 DEF e, a
        <4> QED  BY <1>3, <4>1, SuffixGrows
      <3> QED  BY <3>1, <3>2
    <2>4. IsList(next) /\ Len(next) = Len(window) + 1  BY <2>1, ListGrows
    <2>5. Len(next) \in 1..SAMPLE_LIMIT  BY <1>4, <1>6, <1>8, <2>4
    <2> QED  BY <1>2, <2>2, <2>3, <2>4, <2>5
  <1> QED  BY <1>7, <1>8

\* One cell more in the order, or none: the order lists the cells, each once, before and after.
LEMMA OrderGrows ==
  ASSUME NEW store, OrderIsOfCells(store), DOMAIN store = DOMAIN EmptyStore, NEW m
  PROVE  LET next == observe(store, m)
             key == CellKey(store.revision, m)
         IN  /\ OrderIsOfCells(next)
             /\ key \in DOMAIN next.cells /\ DOMAIN next.cells \subseteq DOMAIN store.cells \cup {key}
  <1> DEFINE next == observe(store, m)
             key == CellKey(store.revision, m)
             D == DOMAIN store.cells
             o == store.order
             known == key \in D
             full == ~known /\ Cardinality(D) = CELL_LIMIT
             kept == D \ (IF full THEN {Head(o)} ELSE {})
             new == DOMAIN next.cells
  <1>1. /\ new = kept \cup {key}
        /\ next.order = IF known THEN IF full THEN Tail(o) ELSE o
                        ELSE Append(IF full THEN Tail(o) ELSE o, key)
    BY DEF observe, EmptyStore
  <1>2. /\ IsFiniteSet(D) /\ o \in Seq(D) /\ ToSet(o) = D
        /\ \A i, j \in DOMAIN o : o[i] = o[j] => i = j
        /\ Len(o) = Cardinality(D) /\ Len(o) <= CELL_LIMIT
    BY DEF OrderIsOfCells
  <1>3. CELL_LIMIT \in Nat \ {0} /\ Len(o) \in Nat /\ DOMAIN o = 1..Len(o)
    BY <1>2, LimitsArePositive
  <1> DEFINE nextorder == next.order
  <1> HIDE DEF next, key, D, o, new, nextorder
  <1>4. CASE known
    <2>1. new = D /\ nextorder = o  BY <1>1, <1>4 DEF nextorder
    <2>2. OrderIsOfCells(next)
      BY <1>2, <2>1 DEF OrderIsOfCells, D, o, new, nextorder
    <2> QED  BY <1>4, <2>1, <2>2 DEF next, key, D, new
  <1>5. ASSUME NEW p, NEW K, K \subseteq D, p \in Seq(K), ToSet(p) = K, key \notin K,
               \A i, j \in DOMAIN p : p[i] = p[j] => i = j,
               IsFiniteSet(K), Len(p) = Cardinality(K), Len(p) < CELL_LIMIT,
               new = K \cup {key}, nextorder = Append(p, key)
        PROVE  OrderIsOfCells(next)
    <2>1. IsFiniteSet(new) /\ Cardinality(new) = Cardinality(K) + 1  BY <1>5, FS_AddElement
    <2>2. /\ p \in Seq(new) /\ key \in new /\ Len(p) \in Nat  BY <1>5
    <2>3. /\ nextorder \in Seq(new) /\ Len(nextorder) = Len(p) + 1
          /\ DOMAIN nextorder = 1..(Len(p) + 1) /\ nextorder[Len(p) + 1] = key
          /\ \A i \in 1..Len(p) : nextorder[i] = p[i]
      BY <1>5, <2>2
    <2>4. ToSet(nextorder) = new
      <3>1. IsList(p)  BY <2>2 DEF IsList
      <3>2. ToSet(Append(p, key)) = ToSet(p) \cup {key}  BY <3>1, ListGrows
      <3> QED  BY <1>5, <3>2
    <2>5. ASSUME NEW i \in DOMAIN nextorder, NEW j \in DOMAIN nextorder, nextorder[i] = nextorder[j]
          PROVE  i = j
      <3>1. DOMAIN p = 1..Len(p)  BY <2>2
      <3>2. \A k \in 1..Len(p) : p[k] # key  BY <1>5, <3>1
      <3>3. (i \in 1..Len(p) \/ i = Len(p) + 1) /\ (j \in 1..Len(p) \/ j = Len(p) + 1)
        BY <2>2, <2>3
      <3>4. CASE i \in 1..Len(p) /\ j \in 1..Len(p)  BY <1>5, <2>3, <2>5, <3>1, <3>4
      <3>5. CASE i = Len(p) + 1 \/ j = Len(p) + 1  BY <2>3, <2>5, <3>2, <3>3, <3>5
      <3> QED  BY <3>3, <3>4, <3>5
    <2>6. Len(nextorder) = Cardinality(new) /\ Len(nextorder) <= CELL_LIMIT
      BY <1>3, <1>5, <2>1, <2>2, <2>3
    <2> QED  BY <2>1, <2>3, <2>4, <2>5, <2>6 DEF OrderIsOfCells, new, nextorder
  <1>6. CASE ~known /\ ~full
    <2>1. new = D \cup {key} /\ nextorder = Append(o, key)  BY <1>1, <1>6 DEF nextorder
    <2>2. Len(o) < CELL_LIMIT  BY <1>2, <1>3, <1>6
    <2>3. OrderIsOfCells(next)  BY <1>2, <1>5, <1>6, <2>1, <2>2
    <2> QED  BY <2>1, <2>3 DEF next, key, D, new
  <1>7. CASE full
    <2> DEFINE p == Tail(o)
               K == D \ {Head(o)}
    <2>1. new = K \cup {key} /\ nextorder = Append(p, key)  BY <1>1, <1>7 DEF nextorder
    <2>2. Len(o) = CELL_LIMIT /\ Len(o) > 0 /\ o # <<>>  BY <1>2, <1>3, <1>7
    <2>3. Head(o) = o[1] /\ Head(o) \in D  BY <1>2, <2>2
    <2>4. /\ p \in Seq(D) /\ Len(p) = Len(o) - 1 /\ \A i \in 1..(Len(o) - 1) : p[i] = o[i + 1]
          /\ DOMAIN p = 1..(Len(o) - 1)
      BY <1>2, <2>2
    <2> HIDE DEF p
    <2>5. IsFiniteSet(K) /\ Cardinality(K) = Len(o) - 1
      BY <1>2, <2>3, FS_RemoveElement
    <2>6. \A i \in 1..(Len(o) - 1) : i + 1 \in DOMAIN o /\ i + 1 # 1  BY <1>3
    <2>7. \A i \in DOMAIN p : p[i] \in K
      <3> TAKE i \in DOMAIN p
      <3>1. p[i] = o[i + 1] /\ i + 1 \in DOMAIN o /\ i + 1 # 1  BY <2>4, <2>6
      <3>2. 1 \in DOMAIN o  BY <1>3, <2>2
      <3>3. o[i + 1] # o[1]  BY <1>2, <3>1, <3>2
      <3>4. o[i + 1] \in D  BY <1>2, <3>1
      <3> QED  BY <2>3, <3>1, <3>3, <3>4
    <2>8. p \in Seq(K)
      <3>1. p = [i \in 1..(Len(o) - 1) |-> p[i]] /\ Len(o) - 1 \in Nat  BY <1>3, <2>2, <2>4
      <3> HIDE DEF K
      <3>2. \A i \in 1..(Len(o) - 1) : p[i] \in K  BY <2>4, <2>7
      <3> QED  BY <3>1, <3>2
    <2>9. ToSet(p) = K
      <3>1. ToSet(p) \subseteq K  BY <2>7 DEF ToSet
      <3>2. ASSUME NEW k \in K PROVE k \in ToSet(p)
        <4>1. PICK j \in DOMAIN o : o[j] = k  BY <1>2, <3>2 DEF ToSet
        <4>2. j # 1  BY <2>3, <4>1
        <4>3. j - 1 \in 1..(Len(o) - 1) /\ (j - 1) + 1 = j  BY <1>3, <4>1, <4>2
        <4>4. p[j - 1] = k  BY <2>4, <4>1, <4>3
        <4> QED  BY <2>4, <4>3, <4>4 DEF ToSet
      <3> QED  BY <3>1, <3>2
    <2>10. ASSUME NEW i \in DOMAIN p, NEW j \in DOMAIN p, p[i] = p[j] PROVE i = j
      <3>1. o[i + 1] = o[j + 1] /\ i + 1 \in DOMAIN o /\ j + 1 \in DOMAIN o  BY <2>4, <2>6, <2>10
      <3>2. i + 1 = j + 1  BY <1>2, <3>1
      <3> QED  BY <1>3, <2>4, <3>2
    <2>11. Len(p) = Cardinality(K) /\ Len(p) < CELL_LIMIT  BY <1>3, <2>2, <2>4, <2>5
    <2>12. K \subseteq D /\ key \notin K  BY <1>7
    <2> HIDE DEF K
    <2>13. OrderIsOfCells(next)  BY <1>5, <2>1, <2>5, <2>8, <2>9, <2>10, <2>11, <2>12
    <2> QED  BY <2>1, <2>12, <2>13 DEF next, key, D, new
  <1> QED  BY <1>4, <1>6, <1>7

\* One record more.
LEMMA StoreGrows ==
  ASSUME NEW store, NEW now, StoreFollows(store, now), IsList(now.records),
         NEW r, NEW m, m.sequence = r.seq, m.sample.exec = r.exec, Measures(r, m, now.header),
         NEW then, then.header = now.header, then.records = Append(now.records, r)
  PROVE  StoreFollows(observe(store, m), then) /\ observe(store, m).revision = store.revision
  <1> DEFINE next == observe(store, m)
             key == CellKey(store.revision, m)
             was == store.cells
             window == IF key \in DOMAIN was THEN was[key] ELSE <<>>
  <1>1. /\ DOMAIN store = DOMAIN EmptyStore /\ OrderIsOfCells(store)
        /\ \A k \in DOMAIN was : CellIsOfRecords(store, k, now)
    BY DEF StoreFollows
  <1>2. /\ DOMAIN next = DOMAIN EmptyStore /\ next.revision = store.revision /\ next.latest = m
        /\ \A k \in DOMAIN next.cells :
             next.cells[k] = IF k = key THEN Pushed(window, m.sample) ELSE was[k]
    BY <1>1 DEF observe, EmptyStore
  <1>3. /\ OrderIsOfCells(next) /\ key \in DOMAIN next.cells
        /\ DOMAIN next.cells \subseteq DOMAIN was \cup {key}
    BY <1>1, OrderGrows
  <1>4. /\ key.revision = store.revision /\ key.workload = m.workload
        /\ key.placement = m.placement /\ key.requester = m.requester
        /\ key = KeyOf(store.revision, key)
    BY DEF CellKey, KeyOf
  <1>5. Measures(r, key, now.header)  BY <1>4 DEF Measures
  <1>6. ASSUME NEW k, k = KeyOf(store.revision, k), Measures(r, k, now.header)
        PROVE  k = key
    <2>1. /\ k.workload = r.model /\ k.placement = r.placement
          /\ m.workload = r.model /\ m.placement = r.placement /\ k.requester = m.requester
      BY <1>6 DEF Measures
    <2>2. k = [revision |-> store.revision, workload |-> m.workload, placement |-> m.placement,
               requester |-> m.requester]
      BY <1>6, <2>1 DEF KeyOf
    <2> QED  BY <2>2 DEF CellKey
  <1> HIDE DEF next, key
  <1>7. ASSUME NEW k
        PROVE  /\ IsList(OfCell(now, k))
               /\ OfCell(then, k) = IF Measures(r, k, now.header) THEN Append(OfCell(now, k), r)
                                    ELSE OfCell(now, k)
    BY CellGrows
  <1>8. ASSUME NEW k \in DOMAIN next.cells PROVE CellIsOfRecords(next, k, then)
    <2>1. CASE k = key
      <3>1. IsList(window) /\ Len(window) <= SAMPLE_LIMIT
            /\ (window = <<>> \/ IsSuffix(ExecsOf(window), ExecsOf(OfCell(now, k))))
        <4>1. CASE key \in DOMAIN was
          <5>1. CellIsOfRecords(store, key, now) /\ window = was[key]  BY <1>1, <4>1
          <5> QED  BY <2>1, <5>1, LimitsArePositive DEF CellIsOfRecords
        <4>2. CASE key \notin DOMAIN was
          <5>1. window = <<>> /\ <<>> \in Seq({}) /\ Len(<<>>) = 0  BY <4>2
          <5> HIDE DEF window
          <5> QED  BY <5>1, LimitsArePositive DEF IsList
        <4> QED  BY <4>1, <4>2
      <3> HIDE DEF window
      <3> DEFINE pushed == Pushed(window, m.sample)
                 all == OfCell(now, k)
      <3>2. IsList(all) /\ OfCell(then, k) = Append(all, r)  BY <1>5, <1>7, <2>1
      <3> HIDE DEF all
      <3>3. /\ IsList(pushed) /\ Len(pushed) \in 1..SAMPLE_LIMIT
            /\ IsSuffix(ExecsOf(pushed), ExecsOf(Append(all, r)))
        BY <3>1, <3>2, WindowGrows DEF all
      <3>4. next.cells[k] = pushed  BY <1>2, <2>1
      <3> HIDE DEF pushed
      <3> QED  BY <1>2, <1>4, <2>1, <3>2, <3>3, <3>4 DEF CellIsOfRecords
    <2>2. CASE k # key
      <3>1. k \in DOMAIN was /\ next.cells[k] = was[k]  BY <1>2, <1>3, <2>2
      <3>2. CellIsOfRecords(store, k, now)  BY <1>1, <3>1
      <3>3. ~Measures(r, k, now.header)  BY <1>6, <2>2, <3>2 DEF CellIsOfRecords
      <3>4. OfCell(then, k) = OfCell(now, k)  BY <1>7, <3>3
      <3> QED  BY <1>2, <3>1, <3>2, <3>4 DEF CellIsOfRecords
    <2> QED  BY <2>1, <2>2
  <1>9. LatestIsNewest(next, then)
    <2>1. then.records # <<>> /\ Last(then.records) = r
      <3>1. PICK S : now.records \in Seq(S)  BY DEF IsList
      <3>2. now.records \in Seq(S \cup {r})  BY <3>1
      <3> QED  BY <3>2 DEF Last
    <2> QED  BY <1>2, <1>3, <1>5, <2>1 DEF LatestIsNewest
  <1> QED  BY <1>2, <1>3, <1>8, <1>9 DEF StoreFollows, next

\* A section begins with an empty store.
LEMMA StoreBegins ==
  ASSUME NEW revision, NEW now, now.records = <<>>
  PROVE  StoreFollows([EmptyStore EXCEPT !.revision = revision], now)
  <1> DEFINE s == [EmptyStore EXCEPT !.revision = revision]
  <1>1. /\ DOMAIN s = DOMAIN EmptyStore /\ s.cells = <<>> /\ s.order = <<>> /\ s.latest = Nothing
    BY DEF EmptyStore
  <1>2. DOMAIN <<>> = {} /\ <<>> \in Seq({}) /\ Len(<<>>) = 0  OBVIOUS
  <1>3. IsFiniteSet({}) /\ Cardinality({}) = 0  BY FS_EmptySet
  <1> HIDE DEF s
  <1>4. DOMAIN s.cells = {}  BY <1>1, <1>2
  <1>5. ToSet(<<>>) = {}  BY <1>2 DEF ToSet
  <1>6. 0 <= CELL_LIMIT  BY LimitsArePositive
  <1>7. OrderIsOfCells(s)  BY <1>1, <1>2, <1>3, <1>4, <1>5, <1>6 DEF OrderIsOfCells
  <1>8. LatestIsNewest(s, now)  BY <1>1 DEF LatestIsNewest
  <1> QED  BY <1>1, <1>4, <1>7, <1>8 DEF StoreFollows, s

-----------------------------------------------------------------------------
(* Events and chunks, one after the other. *)

LEMMA SectionsIs ==
  ASSUME NEW events, NEW more,
         Sections(more).header = Sections(events).header,
         Sections(more).records = Sections(events).records
  PROVE  Sections(more) = Sections(events)
  <1>1. \A x : Sections(x) = [header |-> Sections(x).header, records |-> Sections(x).records]
    BY DEF Sections
  <1> QED  BY <1>1

\* What is shown of a section goes on being of it while the section grows.
LEMMA ShownStays ==
  ASSUME NEW now, NEW then, then.header = now.header, ToSet(now.records) \subseteq ToSet(then.records)
  PROVE  /\ \A display : DisplayFollows(display, now) => DisplayFollows(display, then)
         /\ \A drawn, n : SceneFollows(drawn, n, now) => SceneFollows(drawn, n, then)
  <1>1. \A display : DisplayFollows(display, now) => DisplayFollows(display, then)
    BY DEF DisplayFollows
  <1>2. ASSUME NEW drawn, SceneIsOf(drawn, now) PROVE SceneIsOf(drawn, then)
    <2>1. ASSUME drawn.key[2] # Nothing
          PROVE  \E r \in ToSet(then.records) :
                   /\ drawn.key[2] = r.seq
                   /\ Measures(r, [workload |-> r.model, placement |-> r.placement,
                                   requester |-> drawn.model.flow], then.header)
                   /\ \A name \in DOMAIN drawn.model.regions :
                        \A id \in DOMAIN drawn.model.regions[name].placements :
                          drawn.model.regions[name].placements[id].active = (id = r.placement)
      BY <1>2, <2>1 DEF SceneIsOf
    <2>2. then.header # Nothing =>
            \A name \in DOMAIN drawn.model.regions :
              DOMAIN drawn.model.regions[name].placements =
                {id \in DOMAIN then.header.arenas : RegionIn(then.header, id) = name}
      BY <1>2 DEF SceneIsOf
    <2> QED  BY <2>1, <2>2 DEF SceneIsOf
  <1> QED  BY <1>1, <1>2 DEF SceneFollows

LEMMA EventFollows ==
  ASSUME NEW E, NEW events \in Seq(E), NEW e \in E, IsEvent(e),
         NEW m, NEW drawn, Follows(m, drawn, events)
  PROVE  Follows(Event(m, e), drawn, Append(events, e))
  <1> DEFINE now == Sections(events)
             then == Sections(Append(events, e))
             next == Event(m, e)
  <1>1. /\ DOMAIN m = DOMAIN NoModel /\ DeviceFollows(m.device, events)
        /\ m.store.revision = m.device.revision /\ StoreFollows(m.store, now)
        /\ DisplayFollows(m.display, now)
        /\ drawn # Nothing => SceneFollows(drawn, m.device.revision, now)
        /\ IsList(now.records) /\ \A r \in ToSet(now.records) : r.seq # Nothing
    BY DEF Follows
  <1>2. CASE e.kind = "record"
    <2> DEFINE r == e.record
               kept == adapt_record(m.device, r)
    <2>1. e.kind # "header" /\ r.seq # Nothing  BY <1>2 DEF IsEvent
    <2>2. then.header = now.header /\ then.records = Append(now.records, r)
      BY <1>2, <2>1, SectionGrows
    <2>3. DeviceFollows(m.device, Append(events, e))  BY <1>1, <1>2, RecordFollows
    <2>4. kept.sequence = r.seq /\ kept.sample.exec = r.exec /\ Measures(r, kept, now.header)
      BY <1>1, AdaptMeasures
    <2>5. /\ DOMAIN next = DOMAIN NoModel /\ next.device = m.device /\ next.display = m.display
          /\ next.store = observe(m.store, kept)
      BY <1>1, <1>2 DEF Event, NoModel
    <2> HIDE DEF now, then, next, kept, r
    <2>6. StoreFollows(next.store, then) /\ next.store.revision = m.store.revision
      BY <1>1, <2>2, <2>4, <2>5, StoreGrows
    <2>7. IsList(then.records) /\ ToSet(then.records) = ToSet(now.records) \cup {r}
      BY <1>1, <2>2, ListGrows
    <2>8. /\ DisplayFollows(next.display, then)
          /\ drawn # Nothing => SceneFollows(drawn, m.device.revision, then)
      BY <1>1, <2>2, <2>5, <2>7, ShownStays
    <2> QED  BY <1>1, <2>1, <2>3, <2>5, <2>6, <2>7, <2>8 DEF Follows, then, next
  <1>3. CASE e.kind = "header"
    <2> DEFINE device == apply_header(m.device, e.header)
    <2>1. /\ DeviceFollows(device, Append(events, e))
          /\ Structural(m.device, e.header) <=> Differs(events, e)
          /\ device.revision = IF Structural(m.device, e.header) THEN m.device.revision + 1
                               ELSE m.device.revision
      BY <1>1, <1>3, HeaderFollows
    <2>2. e.kind # "record" /\ m.device.revision \in Nat  BY <1>1, <1>3 DEF DeviceFollows
    <2>3. CASE ~Structural(m.device, e.header)
      <3>1. then = now
        <4>1. then.header = now.header /\ then.records = now.records
          BY <2>1, <2>2, <2>3, SectionGrows
        <4> QED  BY <4>1, SectionsIs
      <3>2. /\ DOMAIN next = DOMAIN NoModel /\ next.device = device /\ next.display = m.display
            /\ next.store = m.store
        BY <1>1, <2>2, <2>3 DEF Event, NoModel
      <3>3. device.revision = m.device.revision  BY <2>1, <2>3
      <3> HIDE DEF now, then, next, device
      <3> QED  BY <1>1, <2>1, <3>1, <3>2, <3>3 DEF Follows, then, next, now
    <2>4. CASE Structural(m.device, e.header)
      <3>1. then.header = e.header /\ then.records = <<>>
        BY <1>3, <2>1, <2>4, SectionGrows
      <3>2. device.revision = m.device.revision + 1 /\ device.revision \in Nat
            /\ m.device.revision < device.revision
        BY <2>1, <2>2, <2>4
      <3>3. begin_revision(m.store, device.revision) = [EmptyStore EXCEPT !.revision = device.revision]
        BY <1>1, <3>2 DEF begin_revision
      <3>4. /\ DOMAIN next = DOMAIN NoModel /\ next.device = device /\ next.display = Nothing
            /\ next.store = [EmptyStore EXCEPT !.revision = device.revision]
        BY <1>1, <2>2, <2>4, <3>3 DEF Event, NoModel
      <3>5. next.store.revision = device.revision  BY <3>4 DEF EmptyStore
      <3> HIDE DEF now, then, next, device
      <3>6. StoreFollows(next.store, then)
        <4>1. then.records = <<>>  BY <3>1
        <4>2. StoreFollows([EmptyStore EXCEPT !.revision = device.revision], then)
          BY <4>1, StoreBegins, Zenon
        <4> QED  BY <3>4, <4>2, Zenon
      <3>7. DisplayFollows(next.display, then)  BY <3>4 DEF DisplayFollows
      <3>8. ASSUME drawn # Nothing PROVE SceneFollows(drawn, device.revision, then)
        <4>1. drawn.key[1] \in Nat /\ drawn.key[1] <= m.device.revision  BY <1>1, <3>8 DEF SceneFollows
        <4>2. drawn.key[1] <= device.revision /\ drawn.key[1] # device.revision
          BY <2>2, <3>2, <4>1
        <4> QED  BY <4>1, <4>2 DEF SceneFollows
      <3>9. IsList(then.records) /\ ToSet(then.records) = {}
        <4>1. <<>> \in Seq({}) /\ DOMAIN <<>> = {}  OBVIOUS
        <4> QED  BY <3>1, <4>1 DEF IsList, ToSet
      <3> QED  BY <2>1, <3>4, <3>5, <3>6, <3>7, <3>8, <3>9 DEF Follows, then, next
    <2> QED  BY <2>3, <2>4
  <1> QED  BY <1>2, <1>3 DEF IsEvent

\* The fold of the events, at each of them.
Folded(m, events, after) ==
  after = [i \in 0..Len(events) |-> IF i = 0 THEN m ELSE Event(after[i - 1], events[i])]

LEMMA FoldedAt ==
  ASSUME NEW m, NEW events, Len(events) \in Nat, NEW f, Folded(m, events, f), NEW i \in 0..Len(events)
  PROVE  f[i] = IF i = 0 THEN m ELSE Event(f[i - 1], events[i])
  <1> DEFINE g == [k \in 0..Len(events) |-> IF k = 0 THEN m ELSE Event(f[k - 1], events[k])]
  <1>1. f = g  BY DEF Folded
  <1>2. g[i] = IF i = 0 THEN m ELSE Event(f[i - 1], events[i])  OBVIOUS
  <1> HIDE DEF g
  <1> QED  BY <1>1, <1>2

\* There is such a function: the shortest beginning without one would have one.
LEMMA FoldedExists ==
  ASSUME NEW m, NEW events, Len(events) \in Nat
  PROVE  \E f : Folded(m, events, f)
  <1> DEFINE Up(k, f) == f = [i \in 0..k |-> IF i = 0 THEN m ELSE Event(f[i - 1], events[i])]
             Bad == {k \in 0..Len(events) : ~ \E f : Up(k, f)}
  <1> HIDE DEF Up
  <1>1. Bad \in SUBSET Nat  OBVIOUS
  <1>2. ASSUME Bad # {} PROVE FALSE
    <2>1. PICK k \in Bad : \A j \in Bad : k <= j
      <3> HIDE DEF Bad
      <3> QED  BY <1>1, <1>2, Least
    <2>2. k # 0
      <3> DEFINE f == [i \in 0..0 |-> m]
                 G(i) == IF i = 0 THEN m ELSE Event(f[i - 1], events[i])
      <3>1. \A i \in 0..0 : f[i] = G(i)  OBVIOUS
      <3>2. f = [i \in 0..0 |-> G(i)]  OBVIOUS
      <3>3. Up(0, f)  BY <3>2 DEF Up
      <3> QED  BY <2>1, <3>3
    <2>3. k \in Nat \ {0} /\ k - 1 \notin Bad /\ k - 1 \in 0..Len(events)
      <3>1. k \in 0..Len(events) /\ k # 0  BY <2>1, <2>2
      <3>2. k \in Nat \ {0} /\ k - 1 \in 0..Len(events) /\ ~(k <= k - 1)  BY <3>1
      <3> HIDE DEF Bad
      <3> QED  BY <2>1, <3>2
    <2>4. PICK g : Up(k - 1, g)  BY <2>3
    <2> DEFINE h == [i \in 0..k |-> IF i < k THEN g[i] ELSE Event(g[k - 1], events[k])]
               H(i) == IF i = 0 THEN m ELSE Event(h[i - 1], events[i])
    <2>5. ASSUME NEW i \in 0..k PROVE h[i] = H(i)
      <3>1. CASE i < k
        <4>1. i \in 0..(k - 1)  BY <2>3, <2>5, <3>1
        <4> DEFINE G(j) == IF j = 0 THEN m ELSE Event(g[j - 1], events[j])
        <4>2. g[i] = G(i)
          <5>1. g = [j \in 0..(k - 1) |-> G(j)]  BY <2>4 DEF Up
          <5> HIDE DEF G
          <5> QED  BY <4>1, <5>1
        <4>3. i # 0 => i - 1 \in 0..k /\ i - 1 < k  BY <2>3, <4>1
        <4> QED  BY <3>1, <4>2, <4>3
      <3>2. CASE ~(i < k)
        <4>1. i = k  BY <2>3, <2>5, <3>2
        <4>2. k # 0 /\ k - 1 \in 0..k /\ k - 1 < k  BY <2>3
        <4> QED  BY <4>1, <4>2
      <3> QED  BY <3>1, <3>2
    <2>6. Up(k, h)
      <3>1. h = [i \in 0..k |-> H(i)]
        <4> HIDE DEF H
        <4> QED  BY <2>5
      <3> QED  BY <3>1 DEF Up
    <2> QED  BY <2>1, <2>6
  <1>3. PICK f : Up(Len(events), f)
    <2>1. Len(events) \in 0..Len(events)  OBVIOUS
    <2> QED  BY <1>2, <2>1
  <1> QED  BY <1>3 DEF Folded, Up

LEMMA AfterIsFolded ==
  ASSUME NEW m, NEW events, Len(events) \in Nat
  PROVE  \E f : Folded(m, events, f) /\ After(m, events) = f[Len(events)]
  <1> DEFINE f == CHOOSE g : Folded(m, events, g)
  <1>1. Folded(m, events, f)  BY FoldedExists
  <1>2. After(m, events) = f[Len(events)]  BY DEF After, Folded
  <1> QED  BY <1>1, <1>2

LEMMA BeginningGrows ==
  ASSUME NEW E, NEW old \in Seq(E), NEW new \in Seq(E)
  PROVE  /\ old \o SubSeq(new, 1, 0) = old
         /\ old \o SubSeq(new, 1, Len(new)) = old \o new
         /\ \A k \in 1..Len(new) :
              /\ old \o SubSeq(new, 1, k - 1) \in Seq(E)
              /\ old \o SubSeq(new, 1, k) = Append(old \o SubSeq(new, 1, k - 1), new[k])
  <1>1. SubSeq(new, 1, 0) = <<>> /\ old \o <<>> = old  OBVIOUS
  <1>2. SubSeq(new, 1, Len(new)) = new  OBVIOUS
  <1>3. ASSUME NEW k \in 1..Len(new)
        PROVE  /\ old \o SubSeq(new, 1, k - 1) \in Seq(E)
               /\ old \o SubSeq(new, 1, k) = Append(old \o SubSeq(new, 1, k - 1), new[k])
    <2>1. SubSeq(new, 1, k - 1) \in Seq(E) /\ new[k] \in E  OBVIOUS
    <2>2. SubSeq(new, 1, k) = Append(SubSeq(new, 1, k - 1), new[k])  OBVIOUS
    <2> DEFINE s == SubSeq(new, 1, k - 1)
               x == new[k]
    <2>3. s \in Seq(E) /\ x \in E  BY <2>1
    <2> HIDE DEF s, x
    <2>4. old \o s \in Seq(E) /\ old \o Append(s, x) = Append(old \o s, x)  BY <2>3
    <2> QED  BY <2>2, <2>4 DEF s, x
  <1> QED  BY <1>1, <1>2, <1>3

\* The events of a chunk are followed one after the other.
LEMMA AfterFollows ==
  ASSUME NEW E, NEW events \in Seq(E), NEW new \in Seq(E), \A i \in DOMAIN new : IsEvent(new[i]),
         NEW m, NEW drawn, Follows(m, drawn, events)
  PROVE  Follows(After(m, new), drawn, events \o new)
  <1>1. Len(new) \in Nat /\ DOMAIN new = 1..Len(new)  OBVIOUS
  <1>2. PICK f : Folded(m, new, f) /\ After(m, new) = f[Len(new)]  BY <1>1, AfterIsFolded
  <1> DEFINE By(k) == events \o SubSeq(new, 1, k)
             Bad == {k \in 0..Len(new) : ~Follows(f[k], drawn, By(k))}
  <1>3. By(0) = events /\ By(Len(new)) = events \o new
        /\ \A k \in 1..Len(new) : By(k - 1) \in Seq(E) /\ By(k) = Append(By(k - 1), new[k])
    BY BeginningGrows
  <1> HIDE DEF By
  <1>4. ASSUME Bad # {} PROVE FALSE
    <2>1. Bad \in SUBSET Nat  BY <1>1
    <2>2. PICK k \in Bad : \A j \in Bad : k <= j
      <3> HIDE DEF Bad
      <3> QED  BY <1>4, <2>1, Least
    <2>3. k \in 0..Len(new) /\ ~Follows(f[k], drawn, By(k))  BY <2>2
    <2>4. f[k] = IF k = 0 THEN m ELSE Event(f[k - 1], new[k])  BY <1>1, <1>2, <2>3, FoldedAt
    <2>5. k # 0  BY <1>3, <2>3, <2>4
    <2>6. k - 1 \in 0..Len(new) /\ ~(k <= k - 1) /\ k \in 1..Len(new)  BY <1>1, <2>3, <2>5
    <2>7. Follows(f[k - 1], drawn, By(k - 1))  BY <2>2, <2>6
    <2>8. IsEvent(new[k]) /\ new[k] \in E  BY <1>1, <2>6
    <2>9. Follows(Event(f[k - 1], new[k]), drawn, Append(By(k - 1), new[k]))
      BY <1>3, <2>6, <2>7, <2>8, EventFollows
    <2> QED  BY <1>3, <2>3, <2>4, <2>5, <2>6, <2>9
  <1>5. Len(new) \in 0..Len(new)  BY <1>1
  <1> QED  BY <1>2, <1>3, <1>4, <1>5

-----------------------------------------------------------------------------
(* What is read, and what is shown of it. *)

AllEvents ==
  UNION {ToSet(delta.events) : delta \in ToSet(Chunks) \cup {options.stream.final}}

LEMMA AllAreEvents ==
  ASSUME options \in CommandLines
  PROVE  /\ Chunks \in Seq(ToSet(Chunks))
         /\ \A delta \in ToSet(Chunks) \cup {options.stream.final} :
              /\ delta.events \in Seq(AllEvents)
              /\ \A i \in DOMAIN delta.events : IsEvent(delta.events[i])
  <1>1. /\ Chunks \in Seq(ToSet(Chunks))
        /\ \A delta \in ToSet(Chunks) \cup {options.stream.final} : Decoded(delta)
    BY StreamsAreDecoded DEF Chunks
  <1>2. ASSUME NEW delta \in ToSet(Chunks) \cup {options.stream.final}
        PROVE  /\ delta.events \in Seq(AllEvents)
               /\ \A i \in DOMAIN delta.events : IsEvent(delta.events[i])
    <2>1. delta.events \in Seq(ToSet(delta.events)) /\ \A e \in ToSet(delta.events) : IsEvent(e)
      BY <1>1 DEF Decoded, IsEvent
    <2>2. ToSet(delta.events) \subseteq AllEvents  BY DEF AllEvents
    <2>3. delta.events \in Seq(AllEvents)
      <3> DEFINE s == delta.events
                 S == ToSet(delta.events)
      <3>1. s \in Seq(S) /\ S \subseteq AllEvents  BY <2>1, <2>2
      <3> HIDE DEF s, S
      <3>2. s \in Seq(AllEvents)  BY <3>1
      <3> QED  BY <3>2 DEF s
    <2>4. \A i \in DOMAIN delta.events : delta.events[i] \in ToSet(delta.events)  BY DEF ToSet
    <2> QED  BY <2>1, <2>3, <2>4
  <1> QED  BY <1>1, <1>2

\* The parts of what was read.
ReadParts(n) == [i \in 1..n |-> Chunks[i].events]

LEMMA PartsRead ==
  ASSUME options \in CommandLines, NEW n \in 0..Len(Chunks)
  PROVE  /\ ReadParts(n) \in Seq(Seq(AllEvents))
         /\ n < Len(Chunks) => ReadParts(n + 1) = Append(ReadParts(n), Chunks[n + 1].events)
  <1>1. Chunks \in Seq(ToSet(Chunks)) /\ Len(Chunks) \in Nat /\ n \in Nat
    BY AllAreEvents
  <1>2. \A i \in 1..Len(Chunks) : Chunks[i] \in ToSet(Chunks)  BY <1>1
  <1>3. \A i \in 1..Len(Chunks) : Chunks[i].events \in Seq(AllEvents)  BY <1>2, AllAreEvents
  <1>4. ReadParts(n) \in Seq(Seq(AllEvents))  BY <1>1, <1>3 DEF ReadParts
  <1>5. ASSUME n < Len(Chunks)
        PROVE  ReadParts(n + 1) = Append(ReadParts(n), Chunks[n + 1].events)
    <2> DEFINE x(i) == Chunks[i].events
    <2>1. n + 1 \in 1..Len(Chunks)  BY <1>1, <1>5
    <2>2. x(n + 1) \in Seq(AllEvents)  BY <1>3, <2>1
    <2>3. Len(ReadParts(n)) = n  BY <1>1 DEF ReadParts
    <2>4. Append(ReadParts(n), x(n + 1)) = [i \in 1..(n + 1) |-> IF i = n + 1 THEN x(n + 1) ELSE ReadParts(n)[i]]
      <3> HIDE DEF x
      <3> QED  BY <1>1, <1>4, <2>2, <2>3
    <2>5. \A i \in 1..(n + 1) : i # n + 1 => ReadParts(n)[i] = x(i)
      BY <1>1 DEF ReadParts
    <2> HIDE DEF x
    <2>6. Append(ReadParts(n), x(n + 1)) = [i \in 1..(n + 1) |-> x(i)]  BY <2>4, <2>5
    <2> QED  BY <2>6 DEF ReadParts, x
  <1> QED  BY <1>4, <1>5

LEMMA SeenIs ==
  ASSUME options \in CommandLines, input.next \in 1..(Len(Chunks) + 1)
  PROVE  /\ input.state # "finished" => Seen = FlattenSeq(ReadParts(input.next - 1))
         /\ input.state = "finished" =>
              Seen = FlattenSeq(ReadParts(input.next - 1)) \o options.stream.final.events
         /\ FlattenSeq(ReadParts(input.next - 1)) \in Seq(AllEvents)
         /\ options.stream.final.events \in Seq(AllEvents)
  <1> DEFINE parts == ReadParts(input.next - 1)
             final == options.stream.final.events
  <1>1. Len(Chunks) \in Nat  BY AllAreEvents
  <1>2. input.next - 1 \in 0..Len(Chunks)  BY <1>1
  <1>3. parts \in Seq(Seq(AllEvents))  BY <1>2, PartsRead
  <1>4. final \in Seq(AllEvents)  BY AllAreEvents
  <1> HIDE DEF parts, final
  <1>5. parts \o <<>> = parts /\ parts \o <<final>> = Append(parts, final)  BY <1>3, <1>4
  <1>6. FlattenSeq(Append(parts, final)) = FlattenSeq(parts) \o final  BY <1>3, <1>4, FlattenAppend
  <1>7. FlattenSeq(parts) \in Seq(AllEvents)  BY <1>3, FlattenType
  <1> QED  BY <1>4, <1>5, <1>6, <1>7 DEF Seen, ReadParts, parts, final

\* A chunk that is read adds its events to what was seen.
LEMMA SeenGrows ==
  ASSUME InputType, options \in CommandLines, input.next <= Len(Chunks) + 1, UNCHANGED options
  PROVE  /\ Seen \in Seq(AllEvents)
         /\ ReadBytes => /\ Seen' = Seen \o Chunks[input.next].events
                         /\ input'.next <= Len(Chunks') + 1
         /\ ReadEof => Seen' = Seen \o options.stream.final.events
  <1> DEFINE n == input.next
  <1>1. /\ input \in [state : {"closed", "open", "broken", "finished"}, next : Nat \ {0}]
        /\ n \in 1..(Len(Chunks) + 1) /\ Len(Chunks) \in Nat /\ n - 1 \in 0..Len(Chunks)
    <2>1. Len(Chunks) \in Nat  BY AllAreEvents
    <2>2. input.next \in Nat \ {0}  BY DEF InputType
    <2> QED  BY <2>1, <2>2 DEF InputType
  <1>2. Chunks' = Chunks /\ \A k : ReadParts(k)' = ReadParts(k)  BY DEF Chunks, ReadParts
  <1>3. Seen \in Seq(AllEvents)
    <2> DEFINE s == FlattenSeq(ReadParts(n - 1))
               final == options.stream.final.events
    <2>1. s \in Seq(AllEvents) /\ final \in Seq(AllEvents) /\ (Seen = s \/ Seen = s \o final)
      BY <1>1, SeenIs
    <2> HIDE DEF s, final
    <2>2. s \o final \in Seq(AllEvents)  BY <2>1
    <2> QED  BY <2>1, <2>2
  <1>4. ASSUME ReadBytes
        PROVE  Seen' = Seen \o Chunks[n].events /\ input'.next <= Len(Chunks') + 1
    <2>1. /\ input.state = "open" /\ n <= Len(Chunks) /\ input' = [input EXCEPT !.next = @ + 1]
      BY <1>4 DEF ReadBytes
    <2>2. input'.next = n + 1 /\ input'.state = "open"  BY <1>1, <2>1
    <2>3. n - 1 < Len(Chunks) /\ (n - 1) + 1 = n  BY <1>1, <2>1
    <2>4. ReadParts(n) = Append(ReadParts(n - 1), Chunks[n].events)
      <3>1. ReadParts((n - 1) + 1) = Append(ReadParts(n - 1), Chunks[(n - 1) + 1].events)
        BY <1>1, <2>3, PartsRead
      <3> QED  BY <2>3, <3>1
    <2>5. Chunks[n].events \in Seq(AllEvents) /\ ReadParts(n - 1) \in Seq(Seq(AllEvents))
          /\ ReadParts(n) \in Seq(Seq(AllEvents))
      <3>1. n \in 1..Len(Chunks) /\ n \in 0..Len(Chunks)  BY <1>1, <2>1
      <3>2. Chunks[n] \in ToSet(Chunks)  BY <3>1, AllAreEvents
      <3> QED  BY <1>1, <3>1, <3>2, AllAreEvents, PartsRead
    <2>6. FlattenSeq(ReadParts(n)) = FlattenSeq(ReadParts(n - 1)) \o Chunks[n].events
      BY <2>4, <2>5, FlattenAppend
    <2>7. Seen = FlattenSeq(ReadParts(n - 1))  BY <1>1, <2>1, SeenIs
    <2>8. Seen' = FlattenSeq(ReadParts(n))
      <3>1. Seen' = FlattenSeq([i \in 1..(input'.next - 1) |-> Chunks'[i].events] \o <<>>)
        BY <2>2 DEF Seen
      <3>2. input'.next - 1 = n  BY <1>1, <2>2
      <3>3. ReadParts(n) \o <<>> = ReadParts(n)  BY <2>5
      <3> QED  BY <1>2, <3>1, <3>2, <3>3 DEF ReadParts
    <2>9. n + 1 <= Len(Chunks) + 1  BY <1>1, <2>1
    <2> QED  BY <1>2, <2>2, <2>6, <2>7, <2>8, <2>9
  <1>5. ASSUME ReadEof PROVE Seen' = Seen \o options.stream.final.events
    <2>1. input.state = "open" /\ input' = [input EXCEPT !.state = "finished"]
      BY <1>5 DEF ReadEof
    <2>2. input'.next = n /\ input'.state = "finished"  BY <1>1, <2>1
    <2>3. Seen = FlattenSeq(ReadParts(n - 1)) /\ options.stream.final.events \in Seq(AllEvents)
      BY <1>1, <2>1, SeenIs
    <2>4. ReadParts(n - 1) \in Seq(Seq(AllEvents))  BY <1>1, PartsRead
    <2> DEFINE parts == ReadParts(n - 1)
               final == options.stream.final.events
    <2>5. Seen' = FlattenSeq(parts \o <<final>>)
      BY <1>2, <2>2 DEF Seen, ReadParts
    <2> HIDE DEF parts, final
    <2>6. parts \in Seq(Seq(AllEvents)) /\ final \in Seq(AllEvents)  BY <2>3, <2>4 DEF parts, final
    <2>7. parts \o <<final>> = Append(parts, final)  BY <2>6
    <2>8. FlattenSeq(Append(parts, final)) = FlattenSeq(parts) \o final  BY <2>6, FlattenAppend
    <2> QED  BY <2>3, <2>5, <2>7, <2>8 DEF parts, final
  <1> QED  BY <1>3, <1>4, <1>5

LEMMA SeenRests ==
  ASSUME UNCHANGED options, input'.next = input.next,
         input'.state = input.state \/ (input.state # "finished" /\ input'.state # "finished")
  PROVE  Seen' = Seen
  BY DEF Seen, Chunks

LEMMA SeenNothing == ASSUME input = [state |-> "closed", next |-> 1] PROVE Seen = <<>>
  <1> DEFINE parts == [i \in 1..(input.next - 1) |-> Chunks[i].events]
  <1>1. input.next = 1 /\ input.state = "closed"  OBVIOUS
  <1>2. parts = <<>>  BY <1>1
  <1>3. <<>> \o <<>> = <<>> /\ FlattenSeq(<<>>) = <<>>  BY DEF FlattenSeq
  <1> HIDE DEF parts
  <1>4. Seen = FlattenSeq(parts \o <<>>)  BY <1>1 DEF Seen, parts
  <1> QED  BY <1>2, <1>3, <1>4

\* What becomes the display was measured of the newest record.
LEMMA DisplayedFollows ==
  ASSUME NEW events, NEW m, NEW drawn, Follows(m, drawn, events), NEW force
  PROVE  Follows(Displayed(m, force), drawn, events)
  <1> DEFINE now == Sections(events)
             latest == m.store.latest
             next == Displayed(m, force)
  <1>1. \/ next = m
        \/ /\ latest # Nothing
           /\ next = [m EXCEPT !.display = from_model(m.device, m.store, latest),
                               !.revision = m.device.revision]
    BY DEF Displayed
  <1>2. CASE next = m  BY <1>2
  <1>3. CASE /\ latest # Nothing
             /\ next = [m EXCEPT !.display = from_model(m.device, m.store, latest),
                                 !.revision = m.device.revision]
    <2>1. /\ DOMAIN m = DOMAIN NoModel /\ DeviceFollows(m.device, events)
          /\ m.store.revision = m.device.revision /\ StoreFollows(m.store, now)
          /\ drawn # Nothing => SceneFollows(drawn, m.device.revision, now)
          /\ IsList(now.records) /\ \A r \in ToSet(now.records) : r.seq # Nothing
      BY DEF Follows
    <2>2. /\ DOMAIN next = DOMAIN NoModel /\ next.device = m.device /\ next.store = m.store
          /\ next.display = from_model(m.device, m.store, latest)
      BY <1>3, <2>1 DEF NoModel
    <2>3. /\ next.display.measurement = latest
          /\ next.display.here = RegionOfPlacement(m.device, latest.placement)
      <3> DEFINE device == m.device
                 store == m.store
                 shown == next.display
      <3>1. shown = from_model(device, store, latest)  BY <2>2
      <3> HIDE DEF next, latest, device, store, shown
      <3>2. /\ from_model(device, store, latest).measurement = latest
            /\ from_model(device, store, latest).here = RegionOfPlacement(device, latest.placement)
        BY DEF from_model
      <3>3. shown.measurement = latest /\ shown.here = RegionOfPlacement(device, latest.placement)
        BY <3>1, <3>2, Zenon
      <3> QED  BY <3>3 DEF shown, device
    <2>4. next.display.here = RegionIn(now.header, latest.placement)
      BY <2>1, <2>3, RegionsAreTheHeaders
    <2>5. /\ now.records # <<>> /\ latest.sequence = Last(now.records).seq
          /\ Measures(Last(now.records), latest, now.header)
      BY <1>3, <2>1 DEF StoreFollows, LatestIsNewest
    <2>6. Last(now.records) \in ToSet(now.records)
      <3>1. PICK S : now.records \in Seq(S)  BY <2>1 DEF IsList
      <3> HIDE DEF now
      <3> QED  BY <2>5, <3>1 DEF Last, ToSet
    <2> HIDE DEF now, next, latest
    <2>7. DisplayFollows(next.display, now)  BY <2>3, <2>4, <2>5, <2>6 DEF DisplayFollows
    <2> QED  BY <2>1, <2>2, <2>7 DEF Follows, now, next
  <1> QED  BY <1>1, <1>2, <1>3

\* What is built of the model is of its device and of what it displays.
LEMMA BuiltFollows ==
  ASSUME NEW events, NEW m, NEW drawn, Follows(m, drawn, events), NEW metric, NEW selected
  PROVE  SceneIsOf([key |-> scene_key(m.device, m.display, metric, selected),
                    model |-> build(m.device, m.store, m.display, metric, selected)],
                   Sections(events))
  <1> DEFINE now == Sections(events)
             state == m.display
             device == m.device
             built == build(device, m.store, state, metric, selected)
             made == [key |-> scene_key(device, state, metric, selected), model |-> built]
             shown == built.regions
             In(name) == {id \in DOMAIN device.placements : device.placements[id].region = name}
  <1>1. DeviceFollows(device, events) /\ DisplayFollows(state, now)  BY DEF Follows
  <1>2. ASSUME NEW name \in DOMAIN shown
        PROVE  /\ DOMAIN shown[name].placements = In(name)
               /\ \A id \in In(name) : shown[name].placements[id].active =
                                         (state # Nothing /\ state.measurement.placement = id)
    BY <1>2 DEF build
  <1>3. built.flow = IF state = Nothing THEN Nothing ELSE state.measurement.requester
    BY DEF build
  <1>4. made.key[2] = IF state = Nothing THEN Nothing ELSE state.measurement.sequence
    BY DEF scene_key
  <1>5. made.model = built  OBVIOUS
  <1>6. ASSUME now.header # Nothing
        PROVE  device.placements = placements_of(now.header)
    BY <1>1, <1>6 DEF DeviceFollows
  <1> HIDE DEF made, built, now, state, device
  <1>7. ASSUME now.header # Nothing, NEW name
        PROVE  In(name) = {id \in DOMAIN now.header.arenas : RegionIn(now.header, id) = name}
    BY <1>6, <1>7 DEF placements_of, RegionIn
  <1>8. ASSUME made.key[2] # Nothing
        PROVE  \E r \in ToSet(now.records) :
                 /\ made.key[2] = r.seq
                 /\ Measures(r, [workload |-> r.model, placement |-> r.placement,
                                 requester |-> built.flow], now.header)
                 /\ \A name \in DOMAIN shown : \A id \in DOMAIN shown[name].placements :
                      shown[name].placements[id].active = (id = r.placement)
    <2>1. state # Nothing /\ made.key[2] = state.measurement.sequence
          /\ built.flow = state.measurement.requester
      BY <1>3, <1>4, <1>8
    <2>2. PICK r \in ToSet(now.records) :
            state.measurement.sequence = r.seq /\ Measures(r, state.measurement, now.header)
      BY <1>1, <2>1 DEF DisplayFollows
    <2>3. state.measurement.placement = r.placement  BY <2>2 DEF Measures
    <2>4. Measures(r, [workload |-> r.model, placement |-> r.placement,
                       requester |-> built.flow], now.header)
      BY <2>1, <2>2 DEF Measures
    <2>5. ASSUME NEW name \in DOMAIN shown, NEW id \in DOMAIN shown[name].placements
          PROVE  shown[name].placements[id].active = (id = r.placement)
      <3>1. shown[name].placements[id].active =
              (state # Nothing /\ state.measurement.placement = id)
        BY <1>2, <2>5
      <3>2. (state # Nothing /\ state.measurement.placement = id) = (id = r.placement)
        BY <2>1, <2>3
      <3> QED  BY <3>1, <3>2
    <2> QED  BY <2>1, <2>2, <2>4, <2>5
  <1>9. SceneIsOf(made, now)
    <2>1. made.model.regions = shown /\ made.model.flow = built.flow  BY <1>5
    <2>2. now.header # Nothing =>
            \A name \in DOMAIN shown :
              DOMAIN shown[name].placements =
                {id \in DOMAIN now.header.arenas : RegionIn(now.header, id) = name}
      BY <1>2, <1>7
    <2> HIDE DEF In, shown
    <2> QED  BY <1>8, <2>1, <2>2 DEF SceneIsOf
  <1> QED  BY <1>9 DEF made, now, built, state, device

-----------------------------------------------------------------------------
(* Every step of the viewer. *)

LEMMA ViewInit == HostInit => ViewInv
  <1> SUFFICES ASSUME HostInit PROVE ViewInv  OBVIOUS
  <1>1. /\ input = [state |-> "closed", next |-> 1] /\ model = NoModel /\ scene = Nothing
        /\ phase = "args" /\ command = "tui" => options \in CommandLines
    BY DEF HostInit, ViewerInit
  <1>2. Seen = <<>>  BY <1>1, SeenNothing
  <1>3. phase = "args" /\ (command = "tui" => options \in CommandLines)
    BY DEF HostInit, ViewerInit
  <1>4. command = "tui" => input.next <= Len(Chunks) + 1
    <2>1. input.next = 1  BY <1>1
    <2>2. ASSUME command = "tui" PROVE Len(Chunks) \in Nat  BY <1>3, <2>2, AllAreEvents
    <2> QED  BY <2>1, <2>2
  <1> DEFINE now == Sections(<<>>)
  <1>5. Headers(<<>>) = {} /\ now.header = Nothing /\ now.records = <<>>
    <2>1. DOMAIN <<>> = {} /\ <<>> \in Seq({}) /\ Len(<<>>) = 0  OBVIOUS
    <2>2. Headers(<<>>) = {}  BY <2>1 DEF Headers
    <2>3. Began(<<>>) = 0
      <3>1. {i \in Headers(<<>>) : Changes(<<>>, i)} = {}  BY <2>2
      <3>2. {0} \cup {i \in Headers(<<>>) : Changes(<<>>, i)} = {0}  BY <3>1
      <3>3. Max({0}) = 0
        <4>1. {0} \in SUBSET (0..0) /\ {0} # {} /\ 0 \in Nat  OBVIOUS
        <4>2. Max({0}) \in {0}  BY <4>1, MaxIsGreatest
        <4> QED  BY <4>2
      <3> QED  BY <3>2, <3>3 DEF Began
    <2>4. SubSeq(<<>>, 0 + 1, Len(<<>>)) = <<>>  OBVIOUS
    <2>5. RecordsFrom(<<>>, 0) = <<>>  BY <2>4, NoRecords
    <2>6. now.records = RecordsFrom(<<>>, 0) /\ now.header = Nothing
      BY <2>3 DEF Sections, RecordsFrom
    <2> HIDE DEF now
    <2> QED  BY <2>2, <2>5, <2>6
  <1>6. IsList(now.records) /\ ToSet(now.records) = {}
    <2>1. <<>> \in Seq({}) /\ DOMAIN <<>> = {}  OBVIOUS
    <2> QED  BY <1>5, <2>1 DEF IsList, ToSet
  <1>7. DeviceFollows(NoDevice, <<>>)
    <2>1. /\ NoDevice.arenas = Nothing /\ NoDevice.placements = <<>> /\ NoDevice.revision = 0
      BY DEF NoDevice
    <2> QED  BY <1>5, <2>1 DEF DeviceFollows
  <1>8. StoreFollows(EmptyStore, now)
    <2>1. [EmptyStore EXCEPT !.revision = 0] = EmptyStore  BY DEF EmptyStore
    <2>2. StoreFollows([EmptyStore EXCEPT !.revision = 0], now)  BY <1>5, StoreBegins, Zenon
    <2> QED  BY <2>1, <2>2
  <1>9. /\ model.device = NoDevice /\ model.store = EmptyStore /\ model.display = Nothing
        /\ model.store.revision = model.device.revision
    BY <1>1 DEF NoModel, NoDevice, EmptyStore
  <1>10. DisplayFollows(Nothing, now)  BY DEF DisplayFollows
  <1> HIDE DEF now
  <1>11. Follows(model, scene, <<>>)
    BY <1>1, <1>6, <1>7, <1>8, <1>9, <1>10 DEF Follows, now
  <1> QED  BY <1>2, <1>3, <1>4, <1>11 DEF ViewInv, DrawnIsShown

\* Steps that neither read nor draw.
LEMMA ViewRests ==
  ASSUME ViewInv, UNCHANGED <<command, options, model, scene>>, input'.next = input.next,
         input'.state = input.state \/ (input.state # "finished" /\ input'.state # "finished"),
         phase' # "key" \/ UNCHANGED <<phase, screen>>
  PROVE  ViewInv'
  <1>1. Seen' = Seen /\ Chunks' = Chunks  BY SeenRests DEF Chunks
  <1>2. Follows(model', scene', Seen')  BY <1>1 DEF ViewInv
  <1>3. DrawnIsShown'
    <2>1. CASE phase' # "key"  BY <2>1 DEF DrawnIsShown
    <2>2. CASE UNCHANGED <<phase, screen>>  BY <1>1, <2>2 DEF DrawnIsShown, ViewInv
    <2> QED  BY <2>1, <2>2
  <1> QED  BY <1>1, <1>2, <1>3 DEF ViewInv

LEMMA ReadFollows ==
  ASSUME InputType, ViewInv, command = "tui", command' = command, ReadBytes \/ ReadEof
  PROVE  ViewInv'
  <1>1. /\ options \in CommandLines /\ input.next <= Len(Chunks) + 1
        /\ Follows(model, scene, Seen)
    BY DEF ViewInv
  <1>2. UNCHANGED <<options, scene>> /\ phase' # "key"
    BY DEF ReadBytes, ReadEof, Turn, screenVars
  <1>3. Seen \in Seq(AllEvents)  BY <1>1, <1>2, SeenGrows
  <1>4. CASE ReadBytes
    <2> DEFINE new == Chunks[input.next].events
    <2>1. model' = After(model, new)  BY <1>4 DEF ReadBytes, Accepted
    <2>2. new \in Seq(AllEvents) /\ \A i \in DOMAIN new : IsEvent(new[i])
      <3>1. input.next \in 1..Len(Chunks)  BY <1>4 DEF ReadBytes, InputType
      <3>2. Chunks[input.next] \in ToSet(Chunks)  BY <1>1, <3>1, AllAreEvents
      <3> QED  BY <1>1, <3>2, AllAreEvents
    <2>3. Seen' = Seen \o new /\ input'.next <= Len(Chunks') + 1  BY <1>1, <1>2, <1>4, SeenGrows
    <2> HIDE DEF new
    <2>4. Follows(After(model, new), scene, Seen \o new)  BY <1>1, <1>3, <2>2, AfterFollows
    <2> QED  BY <1>1, <1>2, <2>1, <2>3, <2>4 DEF ViewInv, DrawnIsShown
  <1>5. CASE ReadEof
    <2> DEFINE new == options.stream.final.events
    <2>1. model' = Displayed(After(model, new), TRUE)
      BY <1>5 DEF ReadEof, Accepted, update_display_record
    <2>2. new \in Seq(AllEvents) /\ \A i \in DOMAIN new : IsEvent(new[i])
      BY <1>1, AllAreEvents
    <2>3. Seen' = Seen \o new  BY <1>1, <1>2, <1>5, SeenGrows
    <2>4. input'.next = input.next /\ Chunks' = Chunks
      BY <1>2, <1>5 DEF ReadEof, InputType, Chunks
    <2> HIDE DEF new
    <2>5. Follows(After(model, new), scene, Seen \o new)  BY <1>1, <1>3, <2>2, AfterFollows
    <2>6. Follows(Displayed(After(model, new), TRUE), scene, Seen \o new)
      BY <2>5, DisplayedFollows
    <2> QED  BY <1>1, <1>2, <2>1, <2>3, <2>4, <2>6 DEF ViewInv, DrawnIsShown
  <1> QED  BY <1>4, <1>5

\* A scene that is drawn again has the key of what is displayed.
LEMMA ShowFollows ==
  ASSUME ViewInv, Show, UNCHANGED command
  PROVE  ViewInv'
  <1> DEFINE m == Displayed(model, FALSE)
             key == scene_key(m.device, m.display, screen.metric, SelectedRegion)
             now == Sections(Seen)
             drawn == Drawn(m)
  <1>1. /\ UNCHANGED <<options, input, screen>> /\ phase' = "key"
        /\ model' = m /\ scene' = drawn
    BY DEF Show, update_display_record, sourceVars
  <1>2. Seen' = Seen /\ Chunks' = Chunks  BY <1>1, SeenRests DEF Chunks
  <1>3. Follows(m, scene, Seen)  BY DisplayedFollows DEF ViewInv
  <1>5. key[1] = m.device.revision
        /\ key[2] = IF m.display = Nothing THEN Nothing ELSE m.display.measurement.sequence
    <2> HIDE DEF m
    <2> QED  BY DEF scene_key
  <1> HIDE DEF m, now
  <1>4. m.device.revision \in Nat  BY <1>3 DEF Follows, DeviceFollows
  <1>6. ASSUME screen.view = "memory"
        PROVE  drawn.key = key /\ SceneFollows(drawn, m.device.revision, now)
    <2>1. CASE scene # Nothing /\ scene.key = key
      <3>1. drawn = scene  BY <1>6, <2>1 DEF Drawn
      <3> QED  BY <1>3, <2>1, <3>1 DEF Follows, now
    <2>2. CASE ~(scene # Nothing /\ scene.key = key)
      <3>1. drawn = [key |-> key, model |-> build(m.device, m.store, m.display, screen.metric, SelectedRegion)]
        BY <1>6, <2>2 DEF Drawn
      <3> HIDE DEF key
      <3>2. drawn.key = key  BY <3>1
      <3>3. SceneIsOf(drawn, now)  BY <1>3, <3>1, BuiltFollows DEF now, key
      <3> HIDE DEF drawn
      <3>4. drawn.key[1] = m.device.revision  BY <1>5, <3>2
      <3> QED  BY <1>4, <3>2, <3>3, <3>4 DEF SceneFollows
    <2> QED  BY <2>1, <2>2
  <1>7. Follows(m, drawn, Seen)
    <2>1. CASE screen.view = "memory"
      <3>1. SceneFollows(drawn, m.device.revision, now)  BY <1>6, <2>1
      <3> HIDE DEF drawn
      <3> QED  BY <1>3, <3>1 DEF Follows, now
    <2>2. CASE screen.view # "memory"
      <3>1. drawn = scene  BY <2>2 DEF Drawn
      <3> QED  BY <1>3, <3>1
    <2> QED  BY <2>1, <2>2
  <1>8. ASSUME screen.view = "memory"
        PROVE  /\ SceneFollows(drawn, m.device.revision, now)
               /\ drawn.key[1] = m.device.revision
               /\ drawn.key[2] = IF m.display = Nothing THEN Nothing ELSE m.display.measurement.sequence
    <2>1. drawn.key = key /\ SceneFollows(drawn, m.device.revision, now)  BY <1>6, <1>8
    <2> HIDE DEF drawn, key
    <2> QED  BY <1>5, <2>1
  <1> HIDE DEF drawn
  <1>9. Sections(Seen') = now  BY <1>2 DEF now
  <1>10. DrawnIsShown'  BY <1>1, <1>8, <1>9 DEF DrawnIsShown
  <1>11. Follows(model', scene', Seen')  BY <1>1, <1>2, <1>7
  <1>12. command' = "tui" => options' \in CommandLines /\ input'.next <= Len(Chunks') + 1
    BY <1>1, <1>2 DEF ViewInv
  <1> QED  BY <1>10, <1>11, <1>12 DEF ViewInv

LEMMA ViewStep ==
  ASSUME InputType, ExitInv, ViewInv, [HostNext]_hostVars
  PROVE  ViewInv'
  <1>1. CASE UNCHANGED <<command, viewerVars>>
    <2>1. UNCHANGED <<command, options, phase, input, model, scene, screen>>
      BY <1>1 DEF viewerVars, sourceVars, screenVars
    <2> QED  BY <2>1, ViewRests
  <1>2. SUFFICES ASSUME command = "tui", command' = command, Loaded \/ Loop \/ Environment
                 PROVE  ViewInv'
    BY <1>1, ViewerMoves
  <1>3. ASSUME NEW s \in {"closed", "open", "broken", "finished"},
               input' = [input EXCEPT !.state = s], input.state # "finished", s # "finished"
        PROVE  /\ input'.next = input.next
               /\ input.state # "finished" /\ input'.state # "finished"
    BY <1>3 DEF InputType
  <1>4. CASE Start
    <2>1. /\ UNCHANGED <<options, model, scene, screen>> /\ phase' # "key"
          /\ input' = input \/ input' = [input EXCEPT !.state = Opened]
      BY <1>4 DEF Start, Leave, screenVars
    <2>2. input.state # "finished" /\ Opened \in {"open", "broken"}
      BY <1>4 DEF Start, ExitInv, Opened
    <2> QED  BY <1>2, <1>3, <2>1, <2>2, ViewRests
  <1>5. CASE Loaded \/ Skip \/ ReadEmpty \/ Headless \/ End \/ Top
    <2>1. /\ UNCHANGED <<options, input, model, scene, screen>>
          /\ phase' # "key" \/ UNCHANGED phase
      BY <1>5 DEF Loaded, Skip, ReadEmpty, Headless, End, Top, Leave, Turn, sourceVars, screenVars
    <2> QED  BY <1>2, <2>1, ViewRests
  <1>6. CASE NoKey \/ Quit \/ \E key \in {"m", "Tab", "p", "Up", "Down"} : Key(key)
    <2>1. UNCHANGED <<options, input, model, scene>> /\ phase' # "key"
      BY <1>6 DEF NoKey, Quit, Key, Wait, sourceVars
    <2> QED  BY <1>2, <2>1, ViewRests
  <1>7. CASE ReadError
    <2>1. /\ UNCHANGED <<options, model, scene>> /\ phase' # "key" /\ input.state = "open"
          /\ input' = [input EXCEPT !.state = "broken"]
      BY <1>7 DEF ReadError, Turn, screenVars
    <2> QED  BY <1>2, <1>3, <2>1, ViewRests
  <1>8. CASE ReadBytes \/ ReadEof  BY <1>2, <1>8, ReadFollows
  <1>9. CASE Show  BY <1>2, <1>9, ShowFollows
  <1>10. CASE Environment
    <2>1. UNCHANGED <<options, phase, input, model, scene, screen>>
      BY <1>10 DEF Environment, HoldPasses, TwoSeconds, Expire, OtherWrites, Outside, screenVars
    <2> QED  BY <1>2, <2>1, ViewRests
  <1> QED  BY <1>2, <1>4, <1>5, <1>6, <1>7, <1>8, <1>9, <1>10 DEF Loop

LEMMA ViewInvariant == HostSpec => []ViewInv
  <1>1. RecordingInv /\ ExitInv /\ ViewInv /\ [HostNext]_hostVars => ViewInv'
    BY ViewStep DEF RecordingInv
  <1> QED  BY ViewInit, <1>1, ExitInvariant, PTL DEF HostSpec

\* A record of a section is in the cell of its conditions.
LEMMA CellHolds ==
  ASSUME NEW now, IsList(now.records), NEW key, NEW r \in ToSet(now.records),
         Measures(r, key, now.header)
  PROVE  r \in ToSet(OfCell(now, key))
  <1> DEFINE s == now.records
  <1>1. PICK S : s \in Seq(S)  BY DEF IsList
  <1> DEFINE T == {x \in S : Measures(x, key, now.header)}
             parts == [i \in DOMAIN s |-> IF s[i] \in T THEN <<s[i]>> ELSE <<>>]
  <1>2. \A i \in DOMAIN s : s[i] \in S
    <2> HIDE DEF s
    <2> QED  BY <1>1
  <1>3. r \in ToSet(s) \cap T  BY <1>2 DEF ToSet
  <1> HIDE DEF s
  <1>4. \A i \in DOMAIN s : s[i] \in T <=> Measures(s[i], key, now.header)  BY <1>2
  <1> HIDE DEF T
  <1>5. [i \in DOMAIN s |-> IF Measures(s[i], key, now.header) THEN <<s[i]>> ELSE <<>>] = parts
    BY <1>4
  <1>6. ToSet(FlattenSeq(parts)) = ToSet(s) \cap T  BY <1>1, SelectedFrom
  <1> HIDE DEF parts
  <1>7. OfCell(now, key) = FlattenSeq(parts)  BY <1>5 DEF OfCell, Selected, s
  <1> QED  BY <1>3, <1>6, <1>7

\* Every sample was measured under the placements the stream last announced, in the cell of its own
\* conditions, newest last and within the window, and the newest record has its cell, whatever was
\* given up for it (Measurements::observe, begin_revision, DeviceState::apply_header).
THEOREM CellsAreOfTheHeader == HostSpec => []CellsFollowTheHeader
  <1>1. ViewInv => CellsFollowTheHeader
    <2> SUFFICES ASSUME ViewInv PROVE CellsFollowTheHeader  OBVIOUS
    <2> DEFINE store == model.store
               now == Sections(Seen)
               newest == Last(now.records)
    <2>1. StoreFollows(store, now) /\ IsList(now.records)  BY DEF ViewInv, Follows
    <2> HIDE DEF store, now
    <2>2. \A key \in DOMAIN store.cells :
            /\ Len(store.cells[key]) \in 1..SAMPLE_LIMIT
            /\ IsSuffix(ExecsOf(store.cells[key]), ExecsOf(OfCell(now, key)))
      BY <2>1 DEF StoreFollows, CellIsOfRecords
    <2>3. /\ ToSet(store.order) = DOMAIN store.cells
          /\ Len(store.order) = Cardinality(DOMAIN store.cells)
          /\ Len(store.order) <= CELL_LIMIT
      BY <2>1 DEF StoreFollows, OrderIsOfCells
    <2>4. CASE now.records = <<>>
      <3>1. store.latest = Nothing  BY <2>1, <2>4 DEF StoreFollows, LatestIsNewest
      <3> QED  BY <2>2, <2>3, <2>4, <3>1 DEF CellsFollowTheHeader, store, now, ExecsOf, OfCell
    <2>5. CASE now.records # <<>>
      <3>1. /\ store.latest.sequence = newest.seq
            /\ \E key \in DOMAIN store.cells : Measures(newest, key, now.header)
        BY <2>1, <2>5 DEF StoreFollows, LatestIsNewest
      <3>2. newest \in ToSet(now.records)
        <4>1. PICK S : now.records \in Seq(S)  BY <2>1 DEF IsList
        <4> QED  BY <2>5, <4>1 DEF Last, ToSet
      <3>3. \E key \in DOMAIN store.cells : newest \in ToSet(OfCell(now, key))
        BY <2>1, <3>1, <3>2, CellHolds
      <3> QED
        BY <2>2, <2>3, <2>5, <3>1, <3>3 DEF CellsFollowTheHeader, store, now, ExecsOf, OfCell
    <2> QED  BY <2>4, <2>5
  <1> QED  BY <1>1, ViewInvariant, PTL

\* What is on the screen belongs to the placements the stream last announced: what is displayed and,
\* while a key is waited for, the memory view that was drawn of it (update_display_record, SceneKey,
\* build).
THEOREM TheScreenIsOfTheHeader == HostSpec => []ScreenIsOfThisHeader
  <1>1. ViewInv => ScreenIsOfThisHeader
    <2> SUFFICES ASSUME ViewInv PROVE ScreenIsOfThisHeader  OBVIOUS
    <2> DEFINE display == model.display
               now == Sections(Seen)
               records == now.records
               header == now.header
               repeats == \E i, j \in DOMAIN records : i # j /\ records[i].seq = records[j].seq
               shown == scene.model.regions
    <2>1. /\ DisplayFollows(display, now) /\ \A r \in ToSet(records) : r.seq # Nothing
      BY DEF ViewInv, Follows
    <2>2. ASSUME phase = "key", screen.view = "memory"
          PROVE  /\ SceneIsOf(scene, now)
                 /\ scene.key[2] = IF display = Nothing THEN Nothing ELSE display.measurement.sequence
      BY <2>2 DEF ViewInv, DrawnIsShown, SceneFollows
    <2> HIDE DEF now, display
    <2>3. display # Nothing =>
            /\ \E r \in ToSet(records) : r.seq = display.measurement.sequence
            /\ display.here = RegionIn(header, display.measurement.placement)
      BY <2>1 DEF DisplayFollows
    <2>4. ASSUME phase = "key", screen.view = "memory", header # Nothing
          PROVE  \A name \in DOMAIN shown :
                   DOMAIN shown[name].placements =
                     {id \in DOMAIN header.arenas : RegionIn(header, id) = name}
      BY <2>2, <2>4 DEF SceneIsOf
    <2>5. ASSUME phase = "key", screen.view = "memory", header # Nothing, display # Nothing, ~repeats
          PROVE  /\ scene.model.flow = display.measurement.requester
                 /\ \A name \in DOMAIN shown, id \in DOMAIN header.arenas :
                      id \in DOMAIN shown[name].placements =>
                        shown[name].placements[id].active = (id = display.measurement.placement)
      <3>1. PICK d \in ToSet(records) :
              display.measurement.sequence = d.seq /\ Measures(d, display.measurement, header)
        BY <2>1, <2>5 DEF DisplayFollows
      <3>2. scene.key[2] = d.seq /\ d.seq # Nothing  BY <2>1, <2>2, <2>5, <3>1
      <3>3. PICK r \in ToSet(records) :
              /\ scene.key[2] = r.seq
              /\ Measures(r, [workload |-> r.model, placement |-> r.placement,
                              requester |-> scene.model.flow], header)
              /\ \A name \in DOMAIN shown : \A id \in DOMAIN shown[name].placements :
                   shown[name].placements[id].active = (id = r.placement)
        BY <2>2, <2>5, <3>2 DEF SceneIsOf
      <3>4. r = d
        <4>1. PICK i \in DOMAIN records : records[i] = r  BY DEF ToSet
        <4>2. PICK j \in DOMAIN records : records[j] = d  BY DEF ToSet
        <4>3. records[i].seq = records[j].seq  BY <3>2, <3>3, <4>1, <4>2
        <4> QED  BY <2>5, <4>1, <4>2, <4>3
      <3>5. display.measurement.placement = r.placement
        BY <3>1, <3>4 DEF Measures
      <3>6. scene.model.flow = display.measurement.requester
        <4> DEFINE flow == scene.model.flow
        <4>1. IF r.target = 0 THEN flow = Nothing
              ELSE flow = [id |-> requester_id, target |-> r.target,
                           region |-> RegionIn(header, r.target), working_set |-> r.footprint]
          BY <3>3 DEF Measures
        <4>2. IF r.target = 0 THEN display.measurement.requester = Nothing
              ELSE display.measurement.requester =
                     [id |-> requester_id, target |-> r.target,
                      region |-> RegionIn(header, r.target), working_set |-> r.footprint]
          BY <3>1, <3>4 DEF Measures
        <4> QED  BY <4>1, <4>2
      <3> QED  BY <3>3, <3>5, <3>6
    <2> HIDE DEF shown, repeats
    <2> QED  BY <2>3, <2>4, <2>5 DEF ScreenIsOfThisHeader, now, display, shown, repeats
  <1> QED  BY <1>1, ViewInvariant, PTL
=============================================================================
