--------------------------- MODULE AcquisitionProofs ---------------------------
(***************************************************************************)
(* The microphone, the window of the live input and the completions of the *)
(* stress channels, proved for a buffer that is filled for ever, windows   *)
(* of any shape and any number of channels.                                *)
(***************************************************************************)
EXTENDS Acquisition, DataLemmas, FiniteSetTheorems

-----------------------------------------------------------------------------
(* The microphone.                                                          *)

MicType ==
  /\ filled \in Nat /\ buffers \in Nat /\ overwritten \in Nat /\ since \in Nat /\ late \in BOOLEAN
  /\ halfFlag \in SUBSET Mic!Flag
  /\ audioAt \in [step : {"asleep", "test", "clear", "fold"}, of : Mic!Flag]
  /\ audioAt.step = "clear" => audioAt.of \in halfFlag

AllCounted ==
  /\ buffers + overwritten + Cardinality(halfFlag) + (IF audioAt.step = "fold" THEN 1 ELSE 0) = filled
  /\ overwritten > 0 => late

\* The poll under way is behind the flag f: it has found it clear or has cleared it.
Behind(f) ==
  \/ audioAt.step = "asleep"
  \/ f = "HT" /\ audioAt.of = "TC"
  \/ f = audioAt.of /\ audioAt.step = "fold"

\* While no poll was late, the flag of the half that is filled next is set only when a
\* half has been filled since the poll began: of the flags the poll has left behind it
\* only that of the half filled since is set, and the halves alternate.
MicOnTime ==
  ~late =>
    /\ since <= 1
    /\ \A f \in halfFlag : Behind(f) => since = 1 /\ f = Mic!HalfOf(filled)
    /\ since = 0 => \A f \in halfFlag : f = Mic!HalfOf(filled)

MicInv == MicType /\ AllCounted /\ MicOnTime

-----------------------------------------------------------------------------
(* The live input.                                                          *)

LiveType ==
  /\ samples \in Nat /\ oldest \in Live!Slot /\ during \in Nat
  /\ win \in [Live!Slot -> Nat]
  /\ dst \in [Live!Slot -> [Live!Axis -> Nat]]
  /\ inferAt \in [step : {"asleep", "locate", "load", "run"},
                  i : Live!Slot, src : Live!Slot, axis : Live!Axis]

\* the slot the i-th oldest sample is in
SlotOf(i) == (oldest + i) % STEPS

\* The ring holds the newest samples, the oldest of them where the next one goes.
RingInv ==
  \A i \in Live!Slot :
    win[SlotOf(i)] = IF samples + i >= STEPS THEN samples - STEPS + 1 + i ELSE 0

\* The value i, a is of the window that ended with the sample c or came since; when
\* none came it is the i-th of that window.
OfWindow(i, a, c) ==
  /\ c - STEPS < dst[i][a] /\ dst[i][a] <= c + during
  /\ during = 0 => dst[i][a] = c - STEPS + 1 + i

\* the copy has stored the value i, a
Stored(i, a) ==
  \/ i < inferAt.i
  \/ i = inferAt.i /\ inferAt.step = "load" /\ a < inferAt.axis

CopyInv ==
  Live!Copying =>
    /\ during <= SamplesPerCopy /\ samples - during >= STEPS
    /\ inferAt.step = "load" /\ during = 0 => inferAt.src = SlotOf(inferAt.i)
    /\ \A i \in Live!Slot, a \in Live!Axis : Stored(i, a) => OfWindow(i, a, samples - during)

\* What the model is given is of the window that was complete when its copy began.
FedInv ==
  inferAt.step = "run" /\ fed = "live" =>
    /\ during <= SamplesPerCopy
    /\ \E c \in Nat : /\ c >= STEPS
                      /\ \A i \in Live!Slot, a \in Live!Axis : OfWindow(i, a, c)

LiveInv == LiveType /\ RingInv /\ CopyInv /\ FedInv

-----------------------------------------------------------------------------
(* The completions.                                                         *)

StressType ==
  /\ channelFlag \in SUBSET Stress!Channel /\ completions \in Nat
  /\ completed \in Nat /\ coalesced \in Nat /\ met \in Nat
  /\ exporterAt \in [step : {"out", "test", "clear", "load", "store"}, i : Nat, loaded : Nat]

\* the record counted the flag the exporter has found set and is about to clear
Doubled == IF exporterAt.step = "clear" /\ exporterAt.i \notin channelFlag THEN 1 ELSE 0

Counted ==
  /\ completions + Cardinality(channelFlag) + Stress!Pending + Doubled + coalesced <= completed + met
  /\ completed <= completions + Cardinality(channelFlag) + Stress!Pending + coalesced + Channels * met
  /\ exporterAt.step = "store" =>
       /\ exporterAt.loaded <= completions
       /\ completed <= exporterAt.loaded + 1 + Cardinality(channelFlag) + coalesced + Channels * met

StressInv == StressType /\ Counted

-----------------------------------------------------------------------------
(* Proof for the microphone.                                                *)

\* The instances count as the module does.
LEMMA MicCounts == ASSUME NEW S PROVE Mic!Cardinality(S) = Cardinality(S)
  BY DEF Mic!Cardinality, Cardinality

LEMMA StressCounts == ASSUME NEW S PROVE Stress!Cardinality(S) = Cardinality(S)
  BY DEF Stress!Cardinality, Cardinality

\* The flags are few.
LEMMA FlagsFinite ==
  ASSUME NEW F \in SUBSET Mic!Flag
  PROVE  IsFiniteSet(F) /\ Cardinality(F) \in Nat
  <1>1. IsFiniteSet({"HT", "TC"})
    <2>1. IsFiniteSet({}) /\ IsFiniteSet({} \cup {"HT"})  BY FS_EmptySet, FS_AddElement
    <2>2. IsFiniteSet(({} \cup {"HT"}) \cup {"TC"})  BY <2>1, FS_AddElement
    <2>3. ({} \cup {"HT"}) \cup {"TC"} = {"HT", "TC"}  OBVIOUS
    <2> QED  BY <2>2, <2>3
  <1>2. IsFiniteSet(F)  BY <1>1, FS_Subset DEF Mic!Flag
  <1> QED  BY <1>2, FS_CardinalityType

\* The halves alternate.
LEMMA HalvesAlternate ==
  ASSUME NEW n \in Nat
  PROVE  /\ Mic!HalfOf(n) \in Mic!Flag
         /\ Mic!HalfOf(n + 1) # Mic!HalfOf(n)
  BY DEF Mic!HalfOf, Mic!Flag

LEMMA MicInit == Mic!Init => MicInv
  <1> SUFFICES ASSUME Mic!Init PROVE MicInv  OBVIOUS
  <1>1. MicType  BY DEF Mic!Init, MicType, Mic!Asleep, Mic!Flag
  <1>2. AllCounted
    BY FS_EmptySet DEF Mic!Init, AllCounted, Mic!Asleep
  <1>3. MicOnTime  BY DEF Mic!Init, MicOnTime
  <1> QED  BY <1>1, <1>2, <1>3 DEF MicInv

LEMMA MicFill == ASSUME MicInv, Mic!Fill PROVE MicInv'
  <1> DEFINE h == Mic!HalfOf(filled + 1)
  <1>1. /\ filled' = filled + 1 /\ halfFlag' = halfFlag \cup {h}
        /\ overwritten' = overwritten + (IF h \in halfFlag THEN 1 ELSE 0)
        /\ since' = since + 1 /\ late' = (late \/ since' >= 2)
        /\ audioAt' = audioAt /\ buffers' = buffers /\ h = Mic!HalfOf(filled')
    BY DEF Mic!Fill, Mic!HalfOf
  <1>2. h \in Mic!Flag /\ h # Mic!HalfOf(filled)  BY HalvesAlternate DEF MicInv, MicType
  <1> HIDE DEF h
  <1>3. MicType'  BY <1>1, <1>2 DEF MicInv, MicType
  <1>4. Cardinality(halfFlag') = Cardinality(halfFlag) + (IF h \in halfFlag THEN 0 ELSE 1)
    BY <1>1, FlagsFinite, FS_AddElement DEF MicInv, MicType
  <1>5. h \in halfFlag => late'
    \* a flag that is set again shows that another half was filled since the poll began
    <2> SUFFICES ASSUME h \in halfFlag, ~late PROVE since' >= 2  BY <1>1, Zenon
    <2>1. since # 0  BY <1>2, Zenon DEF MicInv, MicOnTime
    <2> QED  BY <1>1, <2>1 DEF MicInv, MicType
  <1>6. AllCounted'
    <2>1. overwritten' > 0 => overwritten > 0 \/ h \in halfFlag  BY <1>1 DEF MicInv, MicType
    <2>2. late => late'  BY <1>1, Zenon
    <2>3. overwritten' > 0 => late'
      BY <2>1, <2>2, <1>5, Zenon DEF MicInv, AllCounted
    <2>4. Cardinality(halfFlag) \in Nat  BY FlagsFinite DEF MicInv, MicType
    <2>5. buffers' + overwritten' + Cardinality(halfFlag') + (IF audioAt'.step = "fold" THEN 1 ELSE 0)
          = filled'
      BY <1>1, <1>4, <2>4 DEF MicInv, MicType, AllCounted
    <2> QED  BY <2>3, <2>5 DEF AllCounted
  <1>7. MicOnTime'
    <2> SUFFICES ASSUME ~late' PROVE MicOnTime'  BY DEF MicOnTime
    <2>1. ~late /\ ~(since' >= 2)  BY <1>1, Zenon
    <2>2. since = 0 /\ since' = 1  BY <1>1, <2>1 DEF MicInv, MicType
    <2>3. \A f \in halfFlag : f = Mic!HalfOf(filled) /\ ~Behind(f)
      BY <2>1, <2>2 DEF MicInv, MicOnTime
    <2>4. \A f \in halfFlag' : Behind(f)' => f = h
      BY <2>3, <1>1 DEF Behind
    <2> QED  BY <2>2, <2>4, <1>1 DEF MicOnTime
  <1> QED  BY <1>3, <1>6, <1>7 DEF MicInv

\* A step of the poll fills no half and changes no history but since.
LEMMA MicPoll ==
  ASSUME MicInv, Mic!Poll
  PROVE  MicInv'
  <1> USE DEF Mic!Flag
  <1>1. CASE Mic!Wake
    <2>1. MicType'  BY <1>1 DEF MicInv, MicType, Mic!Wake, Mic!At
    <2>2. AllCounted'
      BY <1>1 DEF MicInv, AllCounted, Mic!Wake, Mic!At, Mic!Asleep
    <2>3. MicOnTime'
      \* the poll before has left every flag behind it
      <3> SUFFICES ASSUME ~late' PROVE MicOnTime'  BY DEF MicOnTime
      <3>1. ~late  BY <1>1, Zenon DEF Mic!Wake
      <3>2. \A f \in halfFlag : f = Mic!HalfOf(filled)
        BY <1>1, <3>1 DEF MicInv, MicOnTime, Behind, Mic!Wake, Mic!Asleep
      <3>3. \A f \in Mic!Flag : ~Behind(f)'  BY <1>1 DEF Behind, Mic!Wake, Mic!At
      <3>4. halfFlag' = halfFlag /\ filled' = filled /\ since' = 0 /\ halfFlag \subseteq Mic!Flag
        BY <1>1 DEF Mic!Wake, MicInv, MicType
      <3> QED  BY <3>2, <3>3, <3>4 DEF MicOnTime, Mic!HalfOf
    <2> QED  BY <2>1, <2>2, <2>3 DEF MicInv
  <1>2. CASE Mic!Test
    <2>1. MicType'  BY <1>2 DEF MicInv, MicType, Mic!Test, Mic!At, Mic!After, Mic!Asleep
    <2>2. AllCounted'
      BY <1>2 DEF MicInv, AllCounted, Mic!Test, Mic!At, Mic!After, Mic!Asleep
    <2>3. \A f \in halfFlag : Behind(f)' => Behind(f)
      BY <1>2 DEF Behind, MicInv, MicType, Mic!Test, Mic!At, Mic!After, Mic!Asleep
    <2>4. halfFlag' = halfFlag /\ filled' = filled /\ since' = since /\ late' = late
      BY <1>2 DEF Mic!Test
    <2>5. MicOnTime'  BY <2>3, <2>4 DEF MicInv, MicOnTime, Mic!HalfOf
    <2> QED  BY <2>1, <2>2, <2>5 DEF MicInv
  <1>3. CASE Mic!Clear
    <2>1. MicType'  BY <1>3 DEF MicInv, MicType, Mic!Clear, Mic!At
    <2>2. Cardinality(halfFlag') = Cardinality(halfFlag) - 1
      BY <1>3, FlagsFinite, FS_RemoveElement DEF MicInv, MicType, Mic!Clear
    <2>3. Cardinality(halfFlag) \in Nat  BY FlagsFinite DEF MicInv, MicType
    <2>4. AllCounted'
      BY <1>3, <2>2, <2>3 DEF MicInv, MicType, AllCounted, Mic!Clear, Mic!At
    <2>5. \A f \in halfFlag' : f \in halfFlag /\ (Behind(f)' => Behind(f))
      BY <1>3 DEF Behind, MicInv, MicType, Mic!Clear, Mic!At
    <2>6. filled' = filled /\ since' = since /\ late' = late  BY <1>3 DEF Mic!Clear
    <2>7. MicOnTime'  BY <2>5, <2>6 DEF MicInv, MicOnTime, Mic!HalfOf
    <2> QED  BY <2>1, <2>4, <2>7 DEF MicInv
  <1>4. CASE Mic!Fold
    <2>1. MicType'  BY <1>4 DEF MicInv, MicType, Mic!Fold, Mic!At, Mic!After, Mic!Asleep
    <2>2. Cardinality(halfFlag) \in Nat  BY FlagsFinite DEF MicInv, MicType
    <2>3. audioAt'.step # "fold"  BY <1>4 DEF Mic!Fold, Mic!After, Mic!At, Mic!Asleep
    <2>4. AllCounted'
      BY <1>4, <2>2, <2>3 DEF MicInv, MicType, AllCounted, Mic!Fold
    <2>5. \A f \in halfFlag : Behind(f)' => Behind(f)
      BY <1>4 DEF Behind, MicInv, MicType, Mic!Fold, Mic!At, Mic!After, Mic!Asleep
    <2>6. halfFlag' = halfFlag /\ filled' = filled /\ since' = since /\ late' = late
      BY <1>4 DEF Mic!Fold
    <2>7. MicOnTime'  BY <2>5, <2>6 DEF MicInv, MicOnTime, Mic!HalfOf
    <2> QED  BY <2>1, <2>4, <2>7 DEF MicInv
  <1> QED  BY <1>1, <1>2, <1>3, <1>4 DEF Mic!Poll

LEMMA MicStutter == ASSUME MicInv, UNCHANGED micVars PROVE MicInv'
  BY DEF micVars, MicInv, MicType, MicOnTime, AllCounted, Behind, Mic!HalfOf

LEMMA MicStep == ASSUME MicInv, Mic!Next PROVE MicInv'
  <1>1. CASE Mic!MeasuredWindow
    BY <1>1 DEF Mic!MeasuredWindow, MicInv, MicType, MicOnTime, AllCounted, Behind, Mic!HalfOf
  <1> QED  BY <1>1, MicFill, MicPoll DEF Mic!Next

-----------------------------------------------------------------------------
(* Proof for the live input.                                                *)

\* A sum of two slots goes round the ring at most once.
LEMMA ModOnce ==
  ASSUME NEW M \in Nat \ {0}, NEW a \in Nat, NEW b \in Nat, a + b < M + M
  PROVE  (a + b) % M = IF a + b < M THEN a + b ELSE a + b - M
  <1>1. CASE a + b < M
    <2>1. a + b \in 0 .. M-1 /\ M * 0 + (a + b) = a + b  BY <1>1
    <2>2. (M * 0 + (a + b)) % M = a + b  BY <2>1, ModUnique
    <2> QED  BY <2>1, <2>2, <1>1
  <1>2. CASE ~(a + b < M)
    <2>1. a + b - M \in 0 .. M-1 /\ M * 1 + (a + b - M) = a + b  BY <1>2
    <2>2. (M * 1 + (a + b - M)) % M = a + b - M  BY <2>1, ModUnique
    <2> QED  BY <2>1, <2>2, <1>2
  <1> QED  BY <1>1, <1>2

LEMMA SlotOfIs ==
  ASSUME oldest \in Live!Slot, NEW i \in Live!Slot
  PROVE  /\ SlotOf(i) = IF oldest + i < STEPS THEN oldest + i ELSE oldest + i - STEPS
         /\ SlotOf(i) \in Live!Slot
  <1>1. oldest + i \in Nat /\ oldest + i < STEPS + STEPS  BY WindowAssumption DEF Live!Slot
  <1>2. SlotOf(i) = IF oldest + i < STEPS THEN oldest + i ELSE oldest + i - STEPS
    <2>1. oldest \in Nat /\ i \in Nat /\ STEPS \in Nat \ {0}  BY WindowAssumption DEF Live!Slot
    <2> QED  BY <2>1, <1>1, ModOnce, Zenon DEF SlotOf
  <1> QED  BY <1>2, WindowAssumption DEF Live!Slot

\* Every slot is that of one sample of the window.
LEMMA SlotIsOf ==
  ASSUME oldest \in Live!Slot, NEW s \in Live!Slot
  PROVE  \E i \in Live!Slot : s = SlotOf(i)
  <1> DEFINE i == IF s >= oldest THEN s - oldest ELSE s - oldest + STEPS
  <1>1. i \in Live!Slot  BY WindowAssumption DEF Live!Slot
  <1>2. SlotOf(i) = IF oldest + i < STEPS THEN oldest + i ELSE oldest + i - STEPS  BY <1>1, SlotOfIs
  <1>3. s = SlotOf(i)  BY <1>2, WindowAssumption DEF Live!Slot
  <1> QED  BY <1>1, <1>3

\* A full ring holds the last samples only.
LEMMA FullRing ==
  ASSUME LiveType, RingInv, samples >= STEPS, NEW s \in Live!Slot
  PROVE  samples - STEPS < win[s] /\ win[s] <= samples
  <1>1. PICK i \in Live!Slot : s = SlotOf(i)  BY SlotIsOf DEF LiveType
  <1>2. win[s] = IF samples + i >= STEPS THEN samples - STEPS + 1 + i ELSE 0  BY <1>1 DEF RingInv
  <1>3. win[s] = samples - STEPS + 1 + i /\ i \in 0 .. STEPS - 1
    BY <1>2, WindowAssumption DEF Live!Slot, LiveType
  <1> QED  BY <1>3, WindowAssumption DEF LiveType

LEMMA LiveInit == Live!Init => LiveInv
  <1> SUFFICES ASSUME Live!Init PROVE LiveInv  OBVIOUS
  <1> USE WindowAssumption
  <1>1. 0 \in Live!Slot /\ 0 \in Live!Axis  BY DEF Live!Slot, Live!Axis
  <1>2. LiveType
    <2>1. dst = [i \in Live!Slot |-> [a \in Live!Axis |-> 0]]  BY DEF Live!Init
    <2> QED  BY <1>1, <2>1 DEF Live!Init, LiveType, Live!Asleep
  <1>3. RingInv
    <2> SUFFICES ASSUME NEW i \in Live!Slot PROVE win[SlotOf(i)] = 0 /\ ~(samples + i >= STEPS)
      BY DEF RingInv
    <2>1. SlotOf(i) \in Live!Slot  BY <1>2, SlotOfIs DEF LiveType
    <2> QED  BY <2>1 DEF Live!Init, Live!Slot
  <1>4. CopyInv /\ FedInv  BY DEF Live!Init, CopyInv, FedInv, Live!Copying, Live!Asleep
  <1> QED  BY <1>2, <1>3, <1>4 DEF LiveInv

-----------------------------------------------------------------------------
\* A sample goes where the oldest one is, and the next oldest is the oldest then.
LEMMA SampleRing == ASSUME LiveInv, Live!Sample PROVE RingInv'
  <1> USE WindowAssumption
  <1>1. /\ win' = [win EXCEPT ![oldest] = samples + 1] /\ oldest' = (oldest + 1) % STEPS
        /\ samples' = samples + 1
    BY DEF Live!Sample
  <1>2. oldest \in 0 .. STEPS - 1 /\ samples \in Nat /\ win \in [Live!Slot -> Nat] /\ oldest \in Live!Slot
    BY DEF LiveInv, LiveType, Live!Slot
  <1>3. oldest' = IF oldest + 1 < STEPS THEN oldest + 1 ELSE 0
    <2>1. oldest + 1 \in Nat /\ oldest + 1 < STEPS + STEPS /\ oldest + 1 <= STEPS  BY <1>2
    <2>2. (oldest + 1) % STEPS = IF oldest + 1 < STEPS THEN oldest + 1 ELSE oldest + 1 - STEPS
      <3>1. oldest \in Nat /\ 1 \in Nat /\ STEPS \in Nat \ {0}  BY <1>2
      <3> QED  BY <3>1, <2>1, ModOnce, Zenon
    <2> QED  BY <1>1, <2>1, <2>2
  <1>4. ASSUME NEW i \in 0 .. STEPS - 1
        PROVE  win'[SlotOf(i)'] = IF samples' + i >= STEPS THEN samples' - STEPS + 1 + i ELSE 0
    <2>1. SlotOf(i)' = IF oldest' + i < STEPS THEN oldest' + i ELSE oldest' + i - STEPS
      <3>1. oldest' + i \in Nat /\ oldest' + i < STEPS + STEPS  BY <1>2, <1>3
      <3>2. oldest' \in Nat /\ i \in Nat /\ STEPS \in Nat \ {0}  BY <1>2, <1>3
      <3> QED  BY <3>1, <3>2, ModOnce, Zenon DEF SlotOf
    <2>2. CASE i + 1 < STEPS
      <3>1. i + 1 \in Live!Slot  BY <2>2 DEF Live!Slot
      <3>2. /\ SlotOf(i + 1) = IF oldest + (i + 1) < STEPS THEN oldest + (i + 1)
                               ELSE oldest + (i + 1) - STEPS
            /\ SlotOf(i + 1) \in Live!Slot
        BY <3>1, <1>2, SlotOfIs
      <3>3. SlotOf(i)' = SlotOf(i + 1)  BY <2>1, <2>2, <3>2, <1>2, <1>3
      <3>4. SlotOf(i + 1) # oldest  BY <3>2, <1>2, <2>2
      <3>5. win'[SlotOf(i)'] = win[SlotOf(i + 1)]  BY <3>2, <3>3, <3>4, <1>1, <1>2
      <3>6. win[SlotOf(i + 1)] =
              IF samples + (i + 1) >= STEPS THEN samples - STEPS + 1 + (i + 1) ELSE 0
        BY <3>1 DEF LiveInv, RingInv
      <3> QED  BY <3>5, <3>6, <1>1, <1>2
    <2>3. CASE ~(i + 1 < STEPS)
      <3>1. i = STEPS - 1 /\ SlotOf(i)' = oldest  BY <2>1, <2>3, <1>2, <1>3
      <3>2. win'[SlotOf(i)'] = samples + 1  BY <3>1, <1>1, <1>2
      <3> QED  BY <3>1, <3>2, <1>1, <1>2
    <2> QED  BY <2>2, <2>3
  <1> QED  BY <1>4 DEF RingInv, Live!Slot

LEMMA SampleStep == ASSUME LiveInv, Live!Sample PROVE LiveInv'
  <1> USE WindowAssumption
  <1>1. /\ win' = [win EXCEPT ![oldest] = samples + 1] /\ oldest' = (oldest + 1) % STEPS
        /\ samples' = samples + 1
        /\ during' = IF Live!Copying THEN during + 1 ELSE during
        /\ Live!Copying => during < SamplesPerCopy
        /\ inferAt' = inferAt /\ dst' = dst /\ fed' = fed
    BY DEF Live!Sample, Live!infers
  <1>2. LiveType'
    <2>1. oldest' \in Live!Slot
      <3>1. oldest + 1 \in Int  BY DEF LiveInv, LiveType, Live!Slot
      <3> QED  BY <3>1, <1>1, ModDiv DEF Live!Slot
    <2>2. win' \in [Live!Slot -> Nat] /\ samples' \in Nat /\ during' \in Nat
      BY <1>1 DEF LiveInv, LiveType
    <2> QED  BY <2>1, <2>2, <1>1 DEF LiveInv, LiveType
  <1>3. CopyInv'
    <2> SUFFICES ASSUME Live!Copying' PROVE CopyInv'  BY DEF CopyInv
    <2>1. Live!Copying /\ during' = during + 1 /\ during < SamplesPerCopy
      BY <1>1 DEF Live!Copying
    <2>2. during' <= SamplesPerCopy /\ samples' - during' = samples - during /\ during' # 0
      BY <1>1, <2>1 DEF LiveInv, LiveType
    <2>3. samples - during >= STEPS  BY <2>1 DEF LiveInv, CopyInv
    <2>4. ASSUME NEW i \in Live!Slot, NEW a \in Live!Axis, Stored(i, a)'
          PROVE  OfWindow(i, a, samples - during)'
      <3>1. Stored(i, a)  BY <2>4, <1>1 DEF Stored
      <3>2. OfWindow(i, a, samples - during)  BY <3>1, <2>1 DEF LiveInv, CopyInv
      <3>3. dst[i][a] \in Nat  BY DEF LiveInv, LiveType
      <3>4. dst'[i][a] = dst[i][a]  BY <1>1
      <3>5. /\ (samples' - during') - STEPS < dst'[i][a]
            /\ dst'[i][a] <= (samples' - during') + during'
        BY <3>2, <3>3, <3>4, <2>1, <1>1 DEF OfWindow, LiveInv, LiveType
      <3> QED  BY <3>5, <2>2 DEF OfWindow
    <2> QED  BY <2>2, <2>3, <2>4 DEF CopyInv
  <1>4. FedInv'
    <2> SUFFICES ASSUME inferAt.step = "run" PROVE FedInv'  BY <1>1 DEF FedInv
    <2>1. during' = during  BY <1>1 DEF Live!Copying
    <2> QED  BY <1>1, <2>1 DEF LiveInv, FedInv, OfWindow
  <1> QED  BY <1>2, <1>3, <1>4, SampleRing DEF LiveInv

-----------------------------------------------------------------------------
\* The button, the exporter and an inference touch neither the ring nor the window.
LEMMA RingStands ==
  ASSUME LiveInv, UNCHANGED <<win, oldest, samples>>
  PROVE  RingInv'
  BY DEF LiveInv, RingInv, SlotOf

LEMMA BeginStep == ASSUME LiveInv, Live!BeginInfer PROVE LiveInv'
  <1> USE WindowAssumption
  <1>1. UNCHANGED <<win, oldest, samples, dst>>  BY DEF Live!BeginInfer
  <1>2. \/ /\ samples >= STEPS /\ during' = 0 /\ UNCHANGED fed
           /\ inferAt' = [step |-> "locate", i |-> 0, src |-> 0, axis |-> 0]
        \/ /\ inferAt' = [step |-> "run", i |-> 0, src |-> 0, axis |-> 0]
           /\ fed' = "golden" /\ UNCHANGED during
    BY DEF Live!BeginInfer, Live!Ready, Live!Asleep
  <1>3. 0 \in Live!Slot /\ 0 \in Live!Axis  BY DEF Live!Slot, Live!Axis
  <1>4. LiveType'  BY <1>1, <1>2, <1>3 DEF LiveInv, LiveType
  <1>5. CopyInv'
    <2> SUFFICES ASSUME Live!Copying' PROVE CopyInv'  BY DEF CopyInv
    <2>1. /\ samples >= STEPS /\ during' = 0
          /\ inferAt' = [step |-> "locate", i |-> 0, src |-> 0, axis |-> 0]
      BY <1>2 DEF Live!Copying
    <2>2. \A i \in Live!Slot, a \in Live!Axis : ~Stored(i, a)'  BY <2>1 DEF Stored, Live!Slot
    <2> QED  BY <1>1, <2>1, <2>2 DEF CopyInv, LiveInv, LiveType
  <1>6. FedInv'  BY <1>2 DEF FedInv
  <1> QED  BY <1>1, <1>4, <1>5, <1>6, RingStands DEF LiveInv

LEMMA LocateStep == ASSUME LiveInv, Live!Locate PROVE LiveInv'
  <1> USE WindowAssumption
  <1>1. /\ UNCHANGED <<win, oldest, samples, dst, during, fed>> /\ inferAt.step = "locate"
        /\ inferAt' = [inferAt EXCEPT !.step = "load", !.src = (oldest + inferAt.i) % STEPS,
                                      !.axis = 0]
    BY DEF Live!Locate, Live!sensor
  <1>2. SlotOf(inferAt.i) \in Live!Slot /\ 0 \in Live!Axis
    BY SlotOfIs DEF LiveInv, LiveType, Live!Axis
  <1>3. /\ inferAt'.step = "load" /\ inferAt'.i = inferAt.i /\ inferAt'.axis = 0
        /\ inferAt'.src = SlotOf(inferAt.i)
        /\ inferAt' \in [step : {"asleep", "locate", "load", "run"},
                         i : Live!Slot, src : Live!Slot, axis : Live!Axis]
    BY <1>1, <1>2 DEF LiveInv, LiveType, SlotOf
  <1>4. LiveType'  BY <1>1, <1>3 DEF LiveInv, LiveType
  <1>5. CopyInv'
    <2>1. Live!Copying  BY <1>1 DEF Live!Copying
    <2>2. (inferAt.src = SlotOf(inferAt.i))'  BY <1>1, <1>3 DEF SlotOf
    <2>3. \A i \in Live!Slot, a \in Live!Axis : Stored(i, a)' => Stored(i, a)
      BY <1>3 DEF Stored, Live!Axis
    <2> QED  BY <1>1, <2>1, <2>2, <2>3 DEF LiveInv, CopyInv, OfWindow
  <1>6. FedInv'  BY <1>3 DEF FedInv
  <1> QED  BY <1>1, <1>4, <1>5, <1>6, RingStands DEF LiveInv

\* A value that is loaded is of the window, as the ring is full.
LEMMA LoadedIsOfWindow ==
  ASSUME LiveInv, Live!Load
  PROVE  /\ inferAt.i \in Live!Slot /\ inferAt.axis \in Live!Axis
         /\ \A i \in Live!Slot, a \in Live!Axis :
              Stored(i, a) \/ (i = inferAt.i /\ a = inferAt.axis)
                => OfWindow(i, a, samples - during)'
  <1> USE WindowAssumption
  <1>1. /\ inferAt.step = "load" /\ UNCHANGED <<samples, during>>
        /\ dst' = [dst EXCEPT ![inferAt.i][inferAt.axis] = win[inferAt.src]]
    BY DEF Live!Load, Live!sensor
  <1>2. Live!Copying  BY <1>1 DEF Live!Copying
  <1>3. samples - during >= STEPS /\ samples \in Nat /\ during \in Nat
    BY <1>2 DEF LiveInv, CopyInv, LiveType
  <1>4. inferAt.i \in Live!Slot /\ inferAt.axis \in Live!Axis /\ inferAt.src \in Live!Slot
    BY DEF LiveInv, LiveType
  <1>5. samples - STEPS < win[inferAt.src] /\ win[inferAt.src] <= samples
    BY <1>3, <1>4, FullRing DEF LiveInv
  <1>6. during = 0 => win[inferAt.src] = samples - STEPS + 1 + inferAt.i
    <2> SUFFICES ASSUME during = 0 PROVE win[SlotOf(inferAt.i)] = samples - STEPS + 1 + inferAt.i
      BY <1>1, <1>2 DEF LiveInv, CopyInv
    <2>1. samples + inferAt.i >= STEPS  BY <1>3, <1>4 DEF Live!Slot
    <2> QED  BY <2>1, <1>4 DEF LiveInv, RingInv
  <1>7. win[inferAt.src] \in Nat  BY <1>4 DEF LiveInv, LiveType
  <1>8. ASSUME NEW i \in Live!Slot, NEW a \in Live!Axis, i = inferAt.i /\ a = inferAt.axis
        PROVE  OfWindow(i, a, samples - during)'
    <2>1. dst'[i][a] = win[inferAt.src]  BY <1>1, <1>4, <1>8 DEF LiveInv, LiveType
    <2>2. (samples - during) - STEPS < win[inferAt.src]  BY <1>3, <1>5, <1>7
    <2>3. win[inferAt.src] <= (samples - during) + during  BY <1>3, <1>5, <1>7
    <2>4. during = 0 => win[inferAt.src] = (samples - during) - STEPS + 1 + i
      BY <1>3, <1>6, <1>8
    <2> QED  BY <2>1, <2>2, <2>3, <2>4, <1>1 DEF OfWindow
  <1>9. ASSUME NEW i \in Live!Slot, NEW a \in Live!Axis, Stored(i, a),
               ~(i = inferAt.i /\ a = inferAt.axis)
        PROVE  OfWindow(i, a, samples - during)'
    <2>1. dst'[i][a] = dst[i][a]  BY <1>1, <1>4, <1>9 DEF LiveInv, LiveType
    <2>2. OfWindow(i, a, samples - during)  BY <1>2, <1>9 DEF LiveInv, CopyInv
    <2> QED  BY <2>1, <2>2, <1>1 DEF OfWindow
  <1> QED  BY <1>4, <1>8, <1>9

LEMMA LoadStep == ASSUME LiveInv, Live!Load PROVE LiveInv'
  <1> USE WindowAssumption
  <1> DEFINE at == inferAt
  <1>1. /\ UNCHANGED <<win, oldest, samples, during>> /\ at.step = "load"
        /\ dst' = [dst EXCEPT ![at.i][at.axis] = win[at.src]]
    BY DEF Live!Load, Live!sensor
  <1>2. \/ /\ at.axis + 1 < AXES /\ at' = [at EXCEPT !.axis = at.axis + 1] /\ UNCHANGED fed
        \/ /\ ~(at.axis + 1 < AXES) /\ at.i + 1 < STEPS /\ UNCHANGED fed
           /\ at' = [step |-> "locate", i |-> at.i + 1, src |-> 0, axis |-> 0]
        \/ /\ ~(at.axis + 1 < AXES) /\ ~(at.i + 1 < STEPS) /\ fed' = "live"
           /\ at' = [step |-> "run", i |-> 0, src |-> 0, axis |-> 0]
    BY DEF Live!Load, Live!Asleep
  <1>3. /\ at \in [step : {"asleep", "locate", "load", "run"},
                   i : Live!Slot, src : Live!Slot, axis : Live!Axis]
        /\ at.i \in 0 .. STEPS - 1 /\ at.axis \in 0 .. AXES - 1
    BY DEF LiveInv, LiveType, Live!Slot, Live!Axis
  <1>4. Live!Copying  BY <1>1 DEF Live!Copying
  <1>5. during <= SamplesPerCopy /\ samples - during >= STEPS  BY <1>4 DEF LiveInv, CopyInv
  <1>6. ASSUME NEW i \in Live!Slot, NEW a \in Live!Axis, Stored(i, a) \/ (i = at.i /\ a = at.axis)
        PROVE  OfWindow(i, a, samples - during)'
    BY <1>6, LoadedIsOfWindow
  <1>7. LiveType'
    <2>1. dst' \in [Live!Slot -> [Live!Axis -> Nat]]
      <3>1. win[at.src] \in Nat /\ at.i \in Live!Slot /\ at.axis \in Live!Axis
        BY DEF LiveInv, LiveType
      <3> QED  BY <3>1, <1>1 DEF LiveInv, LiveType
    <2>2. at' \in [step : {"asleep", "locate", "load", "run"},
                   i : Live!Slot, src : Live!Slot, axis : Live!Axis]
      <3>1. at.axis + 1 < AXES => at.axis + 1 \in Live!Axis  BY <1>3 DEF Live!Axis
      <3>2. at.i + 1 < STEPS => at.i + 1 \in Live!Slot  BY <1>3 DEF Live!Slot
      <3>3. 0 \in Live!Slot /\ 0 \in Live!Axis  BY DEF Live!Slot, Live!Axis
      <3> QED  BY <1>2, <1>3, <3>1, <3>2, <3>3
    <2> QED  BY <2>1, <2>2, <1>1 DEF LiveInv, LiveType
  <1>8. CopyInv'
    <2> SUFFICES ASSUME Live!Copying' PROVE CopyInv'  BY DEF CopyInv
    <2>1. at'.step = "load" => at'.src = at.src /\ at'.i = at.i  BY <1>2, <1>3
    <2>2. at'.step = "load" /\ during' = 0 => (at.src = SlotOf(at.i))'
      BY <2>1, <1>1, <1>4 DEF LiveInv, CopyInv, SlotOf
    <2>3. \A i \in Live!Slot, a \in Live!Axis :
            Stored(i, a)' => Stored(i, a) \/ (i = at.i /\ a = at.axis)
      <3> SUFFICES ASSUME NEW i \in 0 .. STEPS - 1, NEW a \in 0 .. AXES - 1, Stored(i, a)'
                   PROVE  Stored(i, a) \/ (i = at.i /\ a = at.axis)
        BY DEF Live!Slot, Live!Axis
      <3>1. CASE at.axis + 1 < AXES /\ at' = [at EXCEPT !.axis = at.axis + 1]
        <4>1. at'.i = at.i /\ at'.axis = at.axis + 1 /\ at'.step = "load"  BY <3>1, <1>1, <1>3
        <4>2. i < at.i \/ (i = at.i /\ a < at.axis + 1)  BY <4>1 DEF Stored
        <4> QED  BY <4>2, <1>1, <1>3 DEF Stored
      <3>2. CASE ~(at.axis + 1 < AXES) /\ at' = [step |-> "locate", i |-> at.i + 1,
                                                 src |-> 0, axis |-> 0]
        <4>1. i < at.i + 1  BY <3>2 DEF Stored
        <4>2. a <= at.axis  BY <3>2, <1>3
        <4>3. i < at.i \/ (i = at.i /\ (a < at.axis \/ a = at.axis))  BY <4>1, <4>2, <1>3
        <4> QED  BY <4>3, <1>1 DEF Stored
      <3>3. CASE at'.step = "run"  BY <3>3 DEF Live!Copying
      <3> QED  BY <3>1, <3>2, <3>3, <1>2
    <2> QED  BY <1>1, <1>5, <1>6, <2>2, <2>3 DEF CopyInv
  <1>9. FedInv'
    <2> SUFFICES ASSUME at'.step = "run" PROVE FedInv'  BY DEF FedInv
    <2>1. ~(at.axis + 1 < AXES) /\ ~(at.i + 1 < STEPS)  BY <1>1, <1>2, <1>3
    <2>2. ASSUME NEW i \in 0 .. STEPS - 1, NEW a \in 0 .. AXES - 1
          PROVE  Stored(i, a) \/ (i = at.i /\ a = at.axis)
      <3>1. i < at.i \/ (i = at.i /\ (a < at.axis \/ a = at.axis))  BY <2>1, <1>3
      <3> QED  BY <3>1, <1>1 DEF Stored
    <2>3. \A i \in Live!Slot, a \in Live!Axis : OfWindow(i, a, samples - during)'
      BY <2>2, <1>6 DEF Live!Slot, Live!Axis
    <2>4. samples - during \in Nat  BY <1>5 DEF LiveInv, LiveType
    <2>5. (samples - during)' = samples - during  BY <1>1
    <2>6. \A i \in Live!Slot, a \in Live!Axis :
            /\ (samples - during) - STEPS < dst'[i][a]
            /\ dst'[i][a] <= (samples - during) + during'
            /\ during' = 0 => dst'[i][a] = (samples - during) - STEPS + 1 + i
      BY <2>3, <2>5 DEF OfWindow
    <2> QED  BY <2>4, <2>6, <1>1, <1>5 DEF FedInv, OfWindow
  <1> QED  BY <1>1, <1>7, <1>8, <1>9, RingStands DEF LiveInv

LEMMA LiveStands ==
  ASSUME LiveInv, UNCHANGED <<win, oldest, samples, during, dst, fed>>,
         inferAt' = inferAt \/ inferAt' = Live!Asleep
  PROVE  LiveInv'
  <1> USE WindowAssumption
  <1>1. CASE inferAt' = inferAt
    BY <1>1 DEF LiveInv, LiveType, RingInv, SlotOf, CopyInv, Live!Copying, Stored, OfWindow, FedInv
  <1>2. CASE inferAt' = Live!Asleep
    <2>1. 0 \in Live!Slot /\ 0 \in Live!Axis  BY DEF Live!Slot, Live!Axis
    <2>2. LiveType'  BY <1>2, <2>1 DEF LiveInv, LiveType, Live!Asleep
    <2>3. CopyInv' /\ FedInv'  BY <1>2 DEF CopyInv, FedInv, Live!Copying, Live!Asleep
    <2> QED  BY <2>2, <2>3, RingStands DEF LiveInv
  <1> QED  BY <1>1, <1>2

LEMMA LiveStep == ASSUME LiveInv, Live!Next PROVE LiveInv'
  <1>1. CASE Live!OtherVictim \/ Live!Run \/ Live!ReadClass \/ Live!PrintLine
    <2>1. UNCHANGED <<win, oldest, samples, during, dst, fed>>
      BY <1>1 DEF Live!OtherVictim, Live!Run, Live!ReadClass, Live!PrintLine, Live!sensor, Live!infers
    <2>2. inferAt' = inferAt \/ inferAt' = Live!Asleep
      BY <1>1 DEF Live!OtherVictim, Live!Run, Live!ReadClass, Live!PrintLine, Live!sensor, Live!infers
    <2> QED  BY <2>1, <2>2, LiveStands
  <1> QED  BY <1>1, SampleStep, BeginStep, LocateStep, LoadStep DEF Live!Next

\* What the invariant says of the window that is given to the model.
LEMMA FedIsSamples == ASSUME LiveInv PROVE WindowIsSamples
  <1> USE WindowAssumption
  <1> SUFFICES ASSUME inferAt.step = "run" /\ fed = "live" PROVE WindowIsSamples
    BY DEF WindowIsSamples, Live!WindowIsSamples
  <1>1. PICK c \in Nat : /\ c >= STEPS
                         /\ \A i \in Live!Slot, a \in Live!Axis : OfWindow(i, a, c)
    BY DEF LiveInv, FedInv
  <1>2. during <= SamplesPerCopy /\ during \in Nat  BY DEF LiveInv, FedInv, LiveType
  <1>3. ASSUME NEW i \in Live!Slot, NEW j \in Live!Slot, NEW a \in Live!Axis, NEW b \in Live!Axis
        PROVE  dst[i][a] > 0 /\ dst[i][a] - dst[j][b] < STEPS + SamplesPerCopy
    <2>1. dst[i][a] \in Nat /\ dst[j][b] \in Nat  BY DEF LiveInv, LiveType
    <2>2. c - STEPS < dst[i][a] /\ dst[i][a] <= c + during /\ c - STEPS < dst[j][b]
      BY <1>1 DEF OfWindow
    <2> QED  BY <1>1, <1>2, <2>1, <2>2
  <1>4. ASSUME during = 0, NEW i \in Live!Slot, NEW a \in Live!Axis
        PROVE  dst[i][a] = dst[0][0] + i
    <2>1. 0 \in Live!Slot /\ 0 \in Live!Axis  BY DEF Live!Slot, Live!Axis
    <2>2. dst[i][a] = c - STEPS + 1 + i /\ dst[0][0] = c - STEPS + 1 + 0
      BY <1>1, <1>4, <2>1 DEF OfWindow
    <2> QED  BY <2>2, <1>1 DEF Live!Slot
  <1> QED  BY <1>3, <1>4 DEF WindowIsSamples, Live!WindowIsSamples

-----------------------------------------------------------------------------
(* Proof for the completions.                                               *)

LEMMA ChannelsFinite ==
  ASSUME NEW F \in SUBSET Stress!Channel
  PROVE  IsFiniteSet(F) /\ Cardinality(F) \in Nat /\ Cardinality(F) <= Channels
  <1>1. IsFiniteSet(1 .. Channels) /\ Cardinality(1 .. Channels) = Channels
    BY ChannelsAssumption, FS_Interval
  <1>2. IsFiniteSet(F) /\ Cardinality(F) <= Cardinality(1 .. Channels)
    BY <1>1, FS_Subset DEF Stress!Channel
  <1> QED  BY <1>1, <1>2, FS_CardinalityType

\* A record that meets the call is good for one more of every channel.
LEMMA OneMoreMeeting ==
  ASSUME NEW m \in Nat
  PROVE  /\ Channels * m \in Nat /\ Channels * 0 = 0
         /\ Channels * (m + 1) = Channels * m + Channels
  BY ChannelsAssumption

LEMMA StressInit == Stress!Init => StressInv
  <1> SUFFICES ASSUME Stress!Init PROVE StressInv  OBVIOUS
  <1>1. StressType  BY DEF Stress!Init, StressType, Stress!Out
  <1>2. Counted
    <2>1. Cardinality(channelFlag) = 0  BY FS_EmptySet DEF Stress!Init
    <2>2. /\ completions = 0 /\ completed = 0 /\ coalesced = 0 /\ met = 0
          /\ exporterAt.step = "out"
      BY DEF Stress!Init, Stress!Out
    <2>3. Channels * met = 0  BY <2>2, OneMoreMeeting
    <2> QED  BY <2>1, <2>2, <2>3 DEF Counted, Stress!Pending, Doubled
  <1> QED  BY <1>1, <1>2 DEF StressInv

\* A completion raises a flag, or finds it raised.
LEMMA CompleteStep ==
  ASSUME StressInv, NEW i \in Stress!Channel, Stress!Complete(i)
  PROVE  StressInv'
  <1>1. /\ completed' = completed + 1 /\ channelFlag' = channelFlag \cup {i}
        /\ coalesced' = coalesced + (IF i \in channelFlag THEN 1 ELSE 0)
        /\ UNCHANGED <<completions, exporterAt, met>>
    BY DEF Stress!Complete
  <1>2. StressType'  BY <1>1 DEF StressInv, StressType
  <1>3. Cardinality(channelFlag') + coalesced' = Cardinality(channelFlag) + coalesced + 1
    <2>1. /\ IsFiniteSet(channelFlag) /\ Cardinality(channelFlag) \in Nat /\ coalesced \in Nat
      BY ChannelsFinite DEF StressInv, StressType
    <2>2. Cardinality(channelFlag')
            = IF i \in channelFlag THEN Cardinality(channelFlag) ELSE Cardinality(channelFlag) + 1
      BY <1>1, <2>1, FS_AddElement
    <2> QED  BY <1>1, <2>1, <2>2
  <1>4. Cardinality(channelFlag) \in Nat /\ Cardinality(channelFlag') \in Nat
    BY <1>2, ChannelsFinite DEF StressInv, StressType
  <1>5. Doubled' <= Doubled /\ Doubled \in {0, 1} /\ Doubled' \in {0, 1}
    BY <1>1 DEF Doubled
  <1>6. Channels * met' = Channels * met /\ Channels * met \in Nat
    BY <1>1, OneMoreMeeting DEF StressInv, StressType
  <1>7. Stress!Pending' = Stress!Pending /\ Stress!Pending \in {0, 1}  BY <1>1 DEF Stress!Pending
  <1>8. Counted'
    BY <1>1, <1>2, <1>3, <1>4, <1>5, <1>6, <1>7 DEF StressInv, StressType, Counted
  <1> QED  BY <1>2, <1>8 DEF StressInv

\* A record takes every flag there is.  If it meets the exporter's call, the exporter has
\* seen one of them already, or forgets what the record adds.
LEMMA RecordStep == ASSUME StressInv, Stress!TakeRecord PROVE StressInv'
  <1> DEFINE n == Cardinality(channelFlag)
             c == Channels * met
  <1>1. /\ completions' = completions + n /\ channelFlag' = {}
        /\ met' = met + (IF exporterAt # Stress!Out /\ channelFlag # {} THEN 1 ELSE 0)
        /\ UNCHANGED <<exporterAt, completed, coalesced>>
    BY StressCounts DEF Stress!TakeRecord
  <1>2. n \in Nat /\ n <= Channels /\ Channels \in Nat /\ (channelFlag = {} => n = 0)
    BY ChannelsFinite, ChannelsAssumption, FS_EmptySet DEF StressInv, StressType
  <1>3. StressType'  BY <1>1, <1>2 DEF StressInv, StressType
  <1>4. Cardinality(channelFlag') = 0  BY <1>1, FS_EmptySet
  <1>5. Stress!Pending' = Stress!Pending /\ Stress!Pending \in {0, 1}  BY <1>1 DEF Stress!Pending
  <1>6. c \in Nat /\ Channels * (met + 1) = c + Channels
    BY OneMoreMeeting DEF StressInv, StressType
  <1>7. \/ channelFlag = {} /\ met' = met
        \/ exporterAt = Stress!Out /\ met' = met
        \/ met' = met + 1
    BY <1>1 DEF StressInv, StressType
  <1>8. CASE channelFlag = {} /\ met' = met
    <2>1. Doubled' = Doubled  BY <1>1, <1>8 DEF Doubled
    <2>2. completions' = completions /\ Cardinality(channelFlag') = n
      BY <1>1, <1>2, <1>4, <1>8 DEF StressInv, StressType
    <2> HIDE DEF n
    <2> QED  BY <1>1, <1>3, <1>5, <1>8, <2>1, <2>2 DEF StressInv, Counted, n
  <1>9. CASE exporterAt = Stress!Out /\ met' = met
    <2>1. exporterAt.step = "out"  BY <1>9 DEF Stress!Out
    <2>2. Doubled' = 0 /\ Doubled = 0  BY <1>1, <2>1 DEF Doubled
    <2>3. Channels * met' = c /\ completions \in Nat /\ completed \in Nat /\ coalesced \in Nat
      BY <1>9 DEF StressInv, StressType
    <2>4. /\ completions + n + Stress!Pending + coalesced <= completed + met
          /\ completed <= completions + n + Stress!Pending + coalesced + c
      BY <2>2, <2>3, <1>2, <1>5 DEF StressInv, StressType, Counted
    <2> HIDE DEF n, c
    <2>5. Counted'
      BY <1>1, <1>2, <1>4, <1>5, <1>6, <1>9, <2>1, <2>2, <2>3, <2>4 DEF Counted
    <2> QED  BY <1>3, <2>5 DEF StressInv
  <1>10. CASE met' = met + 1
    <2>1. Channels * met' = c + Channels  BY <1>6, <1>10
    <2>2. /\ completions \in Nat /\ completed \in Nat /\ coalesced \in Nat /\ met \in Nat
          /\ exporterAt.loaded \in Nat
      BY DEF StressInv, StressType
    <2>3. Doubled' \in {0, 1} /\ Doubled \in {0, 1}  BY DEF Doubled
    <2>4. /\ completions + n + Stress!Pending + Doubled + coalesced <= completed + met
          /\ completed <= completions + n + Stress!Pending + coalesced + c
          /\ exporterAt.step = "store" =>
               /\ exporterAt.loaded <= completions
               /\ completed <= exporterAt.loaded + 1 + n + coalesced + c
      BY DEF StressInv, Counted
    <2> HIDE DEF n, c
    <2>5. /\ completions' + 0 + Stress!Pending + Doubled' + coalesced <= completed + met'
          /\ completed <= completions' + 0 + Stress!Pending + coalesced + Channels * met'
      <3>1. completions' = completions + n  BY <1>1
      <3> DEFINE p == Stress!Pending
                 d == Doubled
                 e == Doubled'
      <3>2. p \in {0, 1} /\ d \in {0, 1} /\ e \in {0, 1}  BY <1>5, <2>3
      <3>3. /\ completions + n + p + d + coalesced <= completed + met
            /\ completed <= completions + n + p + coalesced + c
        BY <2>4
      <3> HIDE DEF p, d, e
      <3>4. /\ (completions + n) + 0 + p + e + coalesced <= completed + (met + 1)
            /\ completed <= (completions + n) + 0 + p + coalesced + (c + Channels)
        BY <1>2, <1>6, <2>2, <3>2, <3>3
      <3> QED  BY <1>10, <2>1, <3>1, <3>4 DEF p, e
    <2>6. exporterAt.step = "store" =>
            /\ exporterAt.loaded <= completions'
            /\ completed <= exporterAt.loaded + 1 + 0 + coalesced + Channels * met'
      BY <1>1, <1>2, <1>6, <2>1, <2>2, <2>4
    <2>7. Counted'  BY <1>1, <1>4, <1>5, <2>5, <2>6 DEF Counted
    <2> QED  BY <1>3, <2>7 DEF StressInv
  <1> QED  BY <1>7, <1>8, <1>9, <1>10

LEMMA ExporterStep ==
  ASSUME StressInv, Stress!Enter \/ Stress!Test \/ Stress!Clear \/ Stress!Load \/ Stress!Store
  PROVE  StressInv'
  <1> DEFINE n == Cardinality(channelFlag)
             c == Channels * met
  <1>1. n \in Nat /\ c \in Nat /\ IsFiniteSet(channelFlag)
    BY ChannelsFinite, OneMoreMeeting DEF StressInv, StressType
  <1>2. UNCHANGED <<completed, coalesced, met>> /\ Channels * met' = c
    BY DEF Stress!Enter, Stress!Test, Stress!Clear, Stress!Load, Stress!Store
  <1>3. Stress!Behind \in [step : {"out", "test"}, i : Nat, loaded : Nat]
    <2>1. exporterAt.i + 1 \in Nat  BY DEF StressInv, StressType
    <2>2. \/ Stress!Behind = [step |-> "test", i |-> exporterAt.i + 1, loaded |-> 0]
          \/ Stress!Behind = [step |-> "out", i |-> 1, loaded |-> 0]
      BY DEF Stress!Behind, Stress!Out
    <2> QED  BY <2>1, <2>2
  <1>4. /\ completions \in Nat /\ completed \in Nat /\ coalesced \in Nat /\ met \in Nat
        /\ exporterAt.loaded \in Nat
    BY DEF StressInv, StressType
  <1>5. /\ completions + n + Stress!Pending + Doubled + coalesced <= completed + met
        /\ completed <= completions + n + Stress!Pending + coalesced + c
        /\ exporterAt.step = "store" =>
             /\ exporterAt.loaded <= completions
             /\ completed <= exporterAt.loaded + 1 + n + coalesced + c
    BY DEF StressInv, Counted
  <1>6. CASE Stress!Enter \/ Stress!Test
    <2>1. UNCHANGED <<channelFlag, completions>>  BY <1>6 DEF Stress!Enter, Stress!Test
    <2>2. exporterAt' \in [step : {"out", "test", "clear"}, i : Nat, loaded : Nat]
      BY <1>3, <1>6 DEF Stress!Enter, Stress!Test, Stress!Out, StressInv, StressType
    <2>3. exporterAt'.step = "clear" => exporterAt'.i \in channelFlag
      BY <1>3, <1>6 DEF Stress!Enter, Stress!Test, Stress!Out, StressInv, StressType
    <2>4. exporterAt.step \in {"out", "test"}
      BY <1>6 DEF Stress!Enter, Stress!Test, Stress!Out
    <2>5. StressType'  BY <1>2, <2>1, <2>2 DEF StressInv, StressType
    <2>6. Stress!Pending' = 0 /\ Stress!Pending = 0 /\ Doubled' = 0 /\ Doubled = 0
      BY <2>1, <2>2, <2>3, <2>4 DEF Stress!Pending, Doubled
    <2>7. Counted'  BY <1>2, <1>5, <2>1, <2>2, <2>6 DEF Counted
    <2> QED  BY <2>5, <2>7 DEF StressInv
  <1>7. CASE Stress!Clear
    <2>1. /\ channelFlag' = channelFlag \ {exporterAt.i} /\ completions' = completions
          /\ exporterAt.step = "clear" /\ exporterAt' = [exporterAt EXCEPT !.step = "load"]
      BY <1>7 DEF Stress!Clear
    <2>2. StressType'  BY <1>2, <2>1 DEF StressInv, StressType
    <2>3. exporterAt'.step = "load"  BY <2>1 DEF StressInv, StressType
    <2>4. Cardinality(channelFlag') = IF exporterAt.i \in channelFlag THEN n - 1 ELSE n
      BY <1>1, <2>1, FS_RemoveElement
    <2>5. Stress!Pending = 0 /\ Stress!Pending' = 1 /\ Doubled' = 0
          /\ Doubled = IF exporterAt.i \in channelFlag THEN 0 ELSE 1
      BY <2>1, <2>3 DEF Stress!Pending, Doubled
    <2> HIDE DEF n, c
    <2>6. Counted'
      BY <1>1, <1>2, <1>4, <1>5, <2>1, <2>3, <2>4, <2>5 DEF Counted
    <2> QED  BY <2>2, <2>6 DEF StressInv
  <1>8. CASE Stress!Load
    <2>1. /\ UNCHANGED <<channelFlag, completions>> /\ exporterAt.step = "load"
          /\ exporterAt' = [exporterAt EXCEPT !.step = "store", !.loaded = completions]
      BY <1>8 DEF Stress!Load
    <2>2. exporterAt'.step = "store" /\ exporterAt'.loaded = completions
      BY <2>1 DEF StressInv, StressType
    <2>3. StressType'  BY <1>2, <2>1 DEF StressInv, StressType
    <2>4. Stress!Pending = 1 /\ Stress!Pending' = 1 /\ Doubled = 0 /\ Doubled' = 0
      BY <2>1, <2>2 DEF Stress!Pending, Doubled
    <2>5. Cardinality(channelFlag') = n  BY <2>1
    <2> HIDE DEF n, c
    <2>6. Counted'
      BY <1>1, <1>2, <1>4, <1>5, <2>1, <2>2, <2>4, <2>5 DEF Counted
    <2> QED  BY <2>3, <2>6 DEF StressInv
  <1>9. CASE Stress!Store
    <2>1. /\ exporterAt.step = "store" /\ channelFlag' = channelFlag
          /\ completions' = exporterAt.loaded + 1 /\ exporterAt' = Stress!Behind
      BY <1>9 DEF Stress!Store
    <2>2. StressType'  BY <1>2, <1>3, <2>1 DEF StressInv, StressType
    <2>3. exporterAt'.step \in {"out", "test"}  BY <1>3, <2>1
    <2>4. Stress!Pending = 1 /\ Stress!Pending' = 0 /\ Doubled = 0 /\ Doubled' = 0
      BY <2>1, <2>3 DEF Stress!Pending, Doubled
    <2>5. Cardinality(channelFlag') = n  BY <2>1
    <2> HIDE DEF n, c
    <2>6. Counted'
      BY <1>1, <1>2, <1>4, <1>5, <2>1, <2>3, <2>4, <2>5 DEF Counted
    <2> QED  BY <2>2, <2>6 DEF StressInv
  <1> QED  BY <1>6, <1>7, <1>8, <1>9

LEMMA StressStep == ASSUME StressInv, Stress!Next PROVE StressInv'
  BY CompleteStep, RecordStep, ExporterStep DEF Stress!Next

\* What the invariant says of the count.
LEMMA CountedIsNear == ASSUME StressInv PROVE OffByMeetings
  <1> DEFINE n == Cardinality(channelFlag)
             c == Channels * met
             counted == completions + n + Stress!Pending
  <1>1. /\ completions \in Nat /\ completed \in Nat /\ coalesced \in Nat /\ met \in Nat
        /\ n \in Nat /\ c \in Nat /\ Stress!Pending \in Nat /\ Doubled \in Nat
    BY ChannelsFinite, OneMoreMeeting DEF StressInv, StressType, Stress!Pending, Doubled
  <1>2. /\ counted + Doubled + coalesced <= completed + met
        /\ completed <= counted + coalesced + c
    BY DEF StressInv, Counted
  <1> HIDE DEF n, c
  <1>3. counted - met <= completed - coalesced /\ completed - coalesced <= counted + c
    BY <1>1, <1>2
  <1> QED  BY <1>3, StressCounts DEF OffByMeetings, Stress!OffByMeetings, n, c

-----------------------------------------------------------------------------
(* The theorems.                                                            *)

AcquisitionInv == MicInv /\ LiveInv /\ StressInv

LEMMA AcquisitionInit == AcqInit => AcquisitionInv
  BY MicInit, LiveInit, StressInit DEF AcqInit, AcquisitionInv

LEMMA AcquisitionStep == ASSUME AcquisitionInv, [AcqNext]_acqVars PROVE AcquisitionInv'
  <1> USE DEF AcquisitionInv
  <1>1. ASSUME UNCHANGED micVars PROVE MicInv'  BY <1>1, MicStutter
  <1>2. ASSUME UNCHANGED liveVars PROVE LiveInv'
    <2>1. UNCHANGED <<win, oldest, samples, during, dst, fed, inferAt>>  BY <1>2 DEF liveVars
    <2> QED  BY <2>1, LiveStands
  <1>3. ASSUME UNCHANGED stressVars PROVE StressInv'
    BY <1>3 DEF stressVars, StressInv, StressType, Counted, Stress!Pending, Doubled
  <1>4. CASE Mic!Next /\ UNCHANGED <<part, liveVars, stressVars>>
    BY <1>2, <1>3, <1>4, MicStep
  <1>5. CASE Live!Next /\ UNCHANGED <<part, micVars, stressVars>>
    BY <1>1, <1>3, <1>5, LiveStep
  <1>6. CASE Stress!Next /\ UNCHANGED <<part, micVars, liveVars>>
    BY <1>1, <1>2, <1>6, StressStep
  <1>7. CASE UNCHANGED acqVars  BY <1>1, <1>2, <1>3, <1>7 DEF acqVars
  <1> QED  BY <1>4, <1>5, <1>6, <1>7 DEF AcqNext

LEMMA AcquisitionHolds == AcqSpec => []AcquisitionInv
  BY AcquisitionInit, AcquisitionStep, PTL DEF AcqSpec

\* The halves the poll counts, those whose flag is set and those overwritten are all
\* that were filled, and none is overwritten unless a poll was late (audio.c:53-76).
THEOREM EveryHalfIsAccountedFor == AcqSpec => []FoldsAreHalves
  <1>1. AcquisitionInv => FoldsAreHalves
    BY MicCounts DEF AcquisitionInv, MicInv, AllCounted, FoldsAreHalves, Mic!FoldsAreHalves
  <1> QED  BY <1>1, AcquisitionHolds, PTL

\* What the model is given in live mode is samples of one stretch, for a window of any
\* shape and however many samples come during its copy (sensors.c:95-110).
THEOREM TheModelIsGivenSamples == AcqSpec => []WindowIsSamples
  <1>1. AcquisitionInv => WindowIsSamples  BY FedIsSamples DEF AcquisitionInv
  <1> QED  BY <1>1, AcquisitionHolds, PTL

\* The count of completions is off by at most one completion too many and one for each
\* channel too few, for every record that took a flag in the middle of the exporter's
\* call, and by nothing when there was none, for any number of channels
\* (gpdma_stress.c:290-299).
THEOREM TheCountIsNear == AcqSpec => []OffByMeetings
  <1>1. AcquisitionInv => OffByMeetings  BY CountedIsNear DEF AcquisitionInv
  <1> QED  BY <1>1, AcquisitionHolds, PTL
=============================================================================
