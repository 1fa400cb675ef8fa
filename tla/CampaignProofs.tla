--------------------------- MODULE CampaignProofs ---------------------------
(***************************************************************************)
(* Proofs about Campaign for every set of console bytes, every number of   *)
(* them and every length of a pass.  First come the functions of the       *)
(* stress driver: what they preserve and establish for every configuration *)
(* the table of sweeps holds.                                              *)
(***************************************************************************)
EXTENDS Campaign, TLAPS

\* a sweep as laxity_sweeps holds it
GoodSweep(q) == q \in Seq(ConfigType) /\ Len(q) \in 0 .. 6 /\ \A p \in 1 .. Len(q) : Startable(q[p])

\* Every point of a sweep is a configuration that qos_stress_start does not turn
\* away.
LEMMA TableEntries == \A s \in SweepId : GoodSweep(SweepTable[s + 1])
<1> USE DEF Config, ConfigType, Ungated, ArmedTrigger, Startable, WellFormed, GoodSweep
<1>1. GoodSweep(BandwidthSweep)
  BY DEF BandwidthSweep
<1>2. GoodSweep(TransactionSweep)
  BY DEF TransactionSweep
<1>3. GoodSweep(ChannelSweep)
  BY DEF ChannelSweep
<1>4. GoodSweep(StrideSweep)
  BY DEF StrideSweep
<1>5. GoodSweep(SaturationSweep)
  BY DEF SaturationSweep
<1>6. GoodSweep(LowSweep)
  BY DEF LowSweep
<1>7. GoodSweep(TransferSweep)
  BY DEF TransferSweep
<1>8. GoodSweep(<< >>)
  OBVIOUS
<1>9. ASSUME NEW s \in SweepId PROVE GoodSweep(SweepTable[s + 1])
  <2> HIDE DEF GoodSweep
  <2>1. s \in {0, 1, 2, 3, 4, 5, 6, 7}
    BY DEF SweepId, NoSweep
  <2> QED BY <2>1, <1>1, <1>2, <1>3, <1>4, <1>5, <1>6, <1>7, <1>8 DEF SweepTable
<1> QED BY <1>9

\* The configuration of any point, also of one past the end of its sweep.
LEMMA PointType ==
  ASSUME NEW s \in SweepId, NEW p \in PointId
  PROVE  /\ PointConfig(s, p) \in ConfigType
         /\ p <= Points(s) => Startable(PointConfig(s, p))
<1>1. ZeroConfig \in ConfigType
  BY DEF ZeroConfig, Config, ConfigType
<1> QED BY <1>1, TableEntries DEF PointConfig, Points, GoodSweep, PointId

-----------------------------------------------------------------------------
(* A driver that has counted the channels that loop, and none of whose      *)
(* channels is dead; and one whose running flag and timer agree with that,  *)
(* which is not so in the middle of a start.                                *)

Counted(d) ==
  /\ d \in DriverType
  /\ \A i \in Channel : d.chan[i].state = "loop" <=> i <= d.active
  /\ \A i \in Channel : d.chan[i].state # "dead"

Sound(d) ==
  /\ Counted(d)
  /\ d.running <=> d.active > 0
  /\ d.timer # 0 => d.running

\* the channels run one configuration in one region and the timer paces it
Runs(d, c, r, nodes) ==
  /\ d.active = c.channels
  /\ d.timer = IF Gated(c) THEN c.hz ELSE 0
  /\ \A i \in Channel : i <= d.active => d.chan[i].job = Job(c, r, nodes)

\* The driver starts out sound.
LEMMA NewDriverSound == Sound(NewDriver) /\ NewDriver.active = 0
BY DEF Sound, Counted, NewDriver, DriverType, Channel, Ready, ChannelState, JobType

\* Stop leaves no channel looping, whichever aborts were acknowledged, and aborts only
\* channels that loop.
LEMMA StopSound ==
  ASSUME NEW d, Counted(d), NEW e \in Stop(d)
  PROVE  Sound(e) /\ e.active = 0 /\ e.timer = 0 /\ e.mode = d.mode
<1>1. PICK acked \in SUBSET (1 .. d.active) :
        e = [chan |-> [i \in Channel |-> IF i <= d.active THEN Abort(d.chan[i], i \in acked)
                                                         ELSE d.chan[i]],
             active |-> 0, running |-> FALSE, mode |-> d.mode, timer |-> 0]
  BY DEF Stop
<1> DEFINE chan == [i \in Channel |-> IF i <= d.active THEN Abort(d.chan[i], i \in acked)
                                                      ELSE d.chan[i]]
<1>2. ASSUME NEW i \in Channel
      PROVE  /\ chan[i] \in [state : ChannelState, job : JobType]
             /\ chan[i].state \notin {"loop", "dead"}
  BY DEF Counted, DriverType, Channel, Abort, Ready, Stuck, ChannelState, JobType
<1>3. chan \in [Channel -> [state : ChannelState, job : JobType]]
  BY <1>2
<1>4. /\ e = [chan |-> chan, active |-> 0, running |-> FALSE, mode |-> d.mode, timer |-> 0]
      /\ d \in DriverType
  BY <1>1 DEF Counted
<1>5. /\ e.chan = chan /\ e.active = 0 /\ e.running = FALSE
      /\ e.timer = 0 /\ e.mode = d.mode /\ e \in DriverType
  <2> HIDE DEF chan
  <2> QED BY <1>3, <1>4 DEF DriverType
<1> QED BY <1>2, <1>5 DEF Sound, Counted, Channel

\* Reinitialising idle channels, for whatever linked list mode, keeps them idle.
LEMMA ReinitialisedSound ==
  ASSUME NEW d, Sound(d), d.active = 0, NEW k \in 0 .. 4, NEW mode \in {"circular", "normal"}
  PROVE  Sound(Reinitialised(d, k, mode)) /\ Reinitialised(d, k, mode).active = 0
<1> DEFINE chan == [i \in Channel |-> IF i <= k THEN Ready ELSE d.chan[i]]
<1>1. /\ d \in DriverType
      /\ \A i \in Channel : d.chan[i].state \notin {"loop", "dead"}
  BY DEF Sound, Counted, Channel
<1>2. chan \in [Channel -> [state : ChannelState, job : JobType]]
  BY <1>1 DEF Ready, ChannelState, JobType, DriverType
<1>3. \A i \in Channel : chan[i].state \notin {"loop", "dead"}
  BY <1>1 DEF Ready
<1>4. Reinitialised(d, k, mode) = [d EXCEPT !.mode = mode, !.chan = chan]
  BY DEF Reinitialised
<1>5. /\ Reinitialised(d, k, mode).chan = chan /\ Reinitialised(d, k, mode).active = 0
      /\ Reinitialised(d, k, mode).running = d.running
      /\ Reinitialised(d, k, mode).timer = d.timer
      /\ Reinitialised(d, k, mode) \in DriverType
  <2> HIDE DEF chan
  <2> QED BY <1>1, <1>2, <1>4 DEF DriverType
<1> QED BY <1>3, <1>5 DEF Sound, Counted, Channel

\* Changing the linked list mode of idle channels keeps them idle, also where one of
\* them refuses.
LEMMA ModeSound ==
  ASSUME NEW d, Sound(d), d.active = 0, NEW mode \in {"circular", "normal"},
         NEW e \in InModeRefused(d, mode) \cup {InMode(d, mode)}
  PROVE  Sound(e) /\ e.active = 0
<1>1. d.mode \in {"circular", "normal"}
  BY DEF Sound, Counted, DriverType
<1>2. CASE e = InMode(d, mode)
  BY <1>2, ReinitialisedSound DEF InMode
<1>3. CASE e \in InModeRefused(d, mode)
  <2>1. PICK k \in 0 .. 3 : e = Reinitialised(d, k, d.mode)
    BY <1>3 DEF InModeRefused
  <2> QED BY <1>1, <2>1, ReinitialisedSound
<1> QED BY <1>2, <1>3

\* The loop of a start has counted what it started.
LEMMA LoopingCounted ==
  ASSUME NEW d, Sound(d), d.active = 0, NEW k \in 0 .. 4, NEW c \in ConfigType, NEW job \in JobType
  PROVE  LET e == Looping(d, k, c, job)
         IN  /\ Counted(e) /\ e.active = k /\ e.mode = d.mode
             /\ e.timer = IF Gated(c) THEN c.hz ELSE 0
             /\ \A i \in Channel : i <= k => e.chan[i].job = job
<1> DEFINE chan == [i \in Channel |-> IF i <= k THEN [state |-> "loop", job |-> job] ELSE d.chan[i]]
           timer == IF Gated(c) THEN c.hz ELSE 0
           e == Looping(d, k, c, job)
<1>1. d \in DriverType /\ \A i \in Channel : d.chan[i].state \notin {"loop", "dead"}
  BY DEF Sound, Counted, Channel
<1>2. timer \in Int
  BY DEF ConfigType
<1>3. chan \in [Channel -> [state : ChannelState, job : JobType]]
  BY <1>1 DEF ChannelState, DriverType
<1>4. \A i \in Channel : /\ chan[i].state = "loop" <=> i <= k
                         /\ chan[i].state # "dead"
                         /\ i <= k => chan[i].job = job
  BY <1>1
<1>5. e = [d EXCEPT !.chan = chan, !.active = k, !.timer = timer]
  BY DEF Looping
<1>6. e.chan = chan /\ e.active = k /\ e.timer = timer /\ e.mode = d.mode /\ e \in DriverType
  <2> HIDE DEF chan, timer, e
  <2> QED BY <1>1, <1>2, <1>3, <1>5 DEF DriverType
<1> HIDE DEF chan, e
<1>7. Counted(e)
  BY <1>4, <1>6 DEF Counted
<1> QED BY <1>4, <1>6, <1>7 DEF e

\* What the loop of a start returns: all its channels running, or none.
LEMMA StartedSound ==
  ASSUME NEW d, Sound(d), d.active = 0, NEW c \in ConfigType, Startable(c),
         NEW job \in JobType, NEW e \in Started(d, c, job)
  PROVE  /\ Sound(e)
         /\ \/ e.active = 0
            \/ /\ e.active = c.channels
               /\ e.timer = IF Gated(c) THEN c.hz ELSE 0
               /\ \A i \in Channel : i <= e.active => e.chan[i].job = job
<1>1. c.channels \in 1 .. 4
  BY DEF Startable
<1>2. \/ \E k \in 0 .. c.channels - 1 : e \in Stop(Looping(d, k, c, job))
      \/ e = [Looping(d, c.channels, c, job) EXCEPT !.running = TRUE]
  <2> DEFINE able == {k \in 0 .. c.channels : \A i \in 1 .. k : d.chan[i].state = "ready"}
             stopped(k) == Stop(Looping(d, k, c, job))
             going(k) == [Looping(d, k, c, job) EXCEPT !.running = TRUE]
  <2>1. e \in (UNION {stopped(k) : k \in able \ {c.channels}}) \cup
             {going(k) : k \in able \cap {c.channels}}
    BY DEF Started
  <2>2. able \ {c.channels} \subseteq 0 .. c.channels - 1
    BY <1>1
  <2> HIDE DEF able, stopped, going
  <2>3. \/ \E k \in 0 .. c.channels - 1 : e \in stopped(k)
        \/ e = going(c.channels)
    <3>1. CASE \E k \in able \ {c.channels} : e \in stopped(k)
      BY <2>2, <3>1
    <3>2. CASE \E k \in able \cap {c.channels} : e = going(k)
      <4>1. PICK k \in able \cap {c.channels} : e = going(k)
        BY <3>2
      <4>2. k = c.channels
        OBVIOUS
      <4>3. e = going(c.channels)
        BY <4>1, <4>2
      <4> QED BY <4>3
    <3>3. \/ e \in UNION {stopped(k) : k \in able \ {c.channels}}
          \/ e \in {going(k) : k \in able \cap {c.channels}}
      BY <2>1
    <3>4. CASE e \in UNION {stopped(k) : k \in able \ {c.channels}}
      BY <3>1, <3>4, Zenon
    <3>5. CASE e \in {going(k) : k \in able \cap {c.channels}}
      BY <3>2, <3>5, Zenon
    <3> QED BY <3>3, <3>4, <3>5
  <2> QED BY <2>3 DEF stopped, going
<1>3. CASE \E k \in 0 .. c.channels - 1 : e \in Stop(Looping(d, k, c, job))
  <2>1. PICK k \in 0 .. c.channels - 1 : e \in Stop(Looping(d, k, c, job))
    BY <1>3
  <2>2. k \in 0 .. 4
    BY <1>1
  <2>3. Counted(Looping(d, k, c, job))
    BY <2>2, LoopingCounted
  <2> QED BY <2>1, <2>3, StopSound
<1>4. CASE e = [Looping(d, c.channels, c, job) EXCEPT !.running = TRUE]
  <2> DEFINE l == Looping(d, c.channels, c, job)
  <2>1. /\ Counted(l) /\ l.active = c.channels
        /\ l.timer = IF Gated(c) THEN c.hz ELSE 0
        /\ \A i \in Channel : i <= c.channels => l.chan[i].job = job
    <3>1. c.channels \in 0 .. 4
      BY <1>1
    <3> QED BY <3>1, LoopingCounted
  <2> HIDE DEF l
  <2>2. e = [l EXCEPT !.running = TRUE] /\ l \in DriverType
    BY <1>4, <2>1 DEF l, Counted
  <2>3. /\ e.chan = l.chan /\ e.active = l.active /\ e.timer = l.timer /\ e.running = TRUE
        /\ e \in DriverType
    BY <2>2 DEF DriverType
  <2> QED BY <1>1, <2>1, <2>3 DEF Sound, Counted
<1> QED BY <1>2, <1>3, <1>4

\* A start that is not turned away leaves its own configuration running on as many
\* channels as it asks for, or nothing.
LEMMA StartSound ==
  ASSUME NEW d, Sound(d), NEW c \in ConfigType, NEW r \in StressRegion,
         NEW nodes \in {StaticNodes} \cup StressRegion, NEW e \in Start(d, c, r, nodes)
  PROVE  /\ Sound(e)
         /\ Startable(c) => e.active = 0 \/ Runs(e, c, r, nodes)
         /\ ~Startable(c) => e = d
<1>1. CASE ~Startable(c)
  BY <1>1 DEF Start
<1>2. CASE Startable(c)
  <2>1. PICK s \in Stop(d) :
          \/ e \in InModeRefused(s, "circular") \cup {InMode(s, "circular")}
          \/ e \in Started(InMode(s, "circular"), c, Job(c, r, nodes))
    BY <1>2, Zenon DEF Start
  <2>2. Sound(s) /\ s.active = 0
    BY StopSound DEF Sound
  <2>3. CASE e \in InModeRefused(s, "circular") \cup {InMode(s, "circular")}
    BY <1>2, <2>2, <2>3, ModeSound
  <2>4. CASE e \in Started(InMode(s, "circular"), c, Job(c, r, nodes))
    <3>1. Sound(InMode(s, "circular")) /\ InMode(s, "circular").active = 0
      BY <2>2, ModeSound
    <3>2. Job(c, r, nodes) \in JobType
      BY DEF Job, JobType
    <3> QED BY <1>2, <2>4, <3>1, <3>2, StartedSound DEF Runs
  <2> QED BY <2>1, <2>3, <2>4
<1> QED BY <1>1, <1>2

\* What a fired block leaves in the first channel is not a sweep.
LEMMA FiredSound ==
  ASSUME NEW d, Sound(d), d.active = 0, NEW job \in JobType, NEW e \in Fired(d, job)
  PROVE  Sound(e) /\ e.active = 0
<1>1. PICK state \in {"block", "finished"} : e = Left(d, state, job)
  BY DEF Fired
<1> DEFINE chan == [d.chan EXCEPT ![1] = [state |-> state, job |-> job]]
<1>2. e = [d EXCEPT !.chan = chan]
  BY <1>1 DEF Left
<1>3. /\ d \in DriverType /\ 1 \in Channel
      /\ \A i \in Channel : d.chan[i].state \notin {"loop", "dead"}
  BY DEF Sound, Counted, Channel
<1>4. /\ chan \in [Channel -> [state : ChannelState, job : JobType]]
      /\ \A i \in Channel : chan[i].state \notin {"loop", "dead"}
  BY <1>3 DEF DriverType, ChannelState
<1>5. /\ e.chan = chan /\ e.active = 0 /\ e.running = d.running /\ e.timer = d.timer
      /\ e \in DriverType
  <2> HIDE DEF chan
  <2> QED BY <1>2, <1>3, <1>4 DEF DriverType
<1> HIDE DEF chan
<1> QED BY <1>4, <1>5 DEF Sound, Counted, Channel

\* A single block never counts as a running channel, and a well formed request for
\* one leaves no sweep channel running beside it.
LEMMA OnceSound ==
  ASSUME NEW d, Sound(d), NEW c \in ConfigType, NEW r \in StressRegion,
         NEW nodes \in {StaticNodes} \cup StressRegion, NEW e \in Once(d, c, r, nodes)
  PROVE  Sound(e) /\ (WellFormed(c) => e.active = 0) /\ (~WellFormed(c) => e = d)
<1>1. CASE ~WellFormed(c)
  BY <1>1 DEF Once
<1>2. CASE WellFormed(c)
  <2>1. PICK s \in IF d.running THEN Stop(d) ELSE {d} :
          \/ e \in InModeRefused(s, "normal") \cup {InMode(s, "normal")}
          \/ e \in Fired(InMode(s, "normal"), Job(c, r, nodes))
    BY <1>2, Zenon DEF Once
  <2>2. Sound(s) /\ s.active = 0
    <3>1. CASE d.running
      BY <2>1, <3>1, StopSound DEF Sound
    <3>2. CASE ~d.running
      BY <2>1, <3>2 DEF Sound, Counted, DriverType
    <3> QED BY <3>1, <3>2
  <2>3. CASE e \in InModeRefused(s, "normal") \cup {InMode(s, "normal")}
    BY <1>2, <2>2, <2>3, ModeSound
  <2>4. CASE e \in Fired(InMode(s, "normal"), Job(c, r, nodes))
    <3>1. Sound(InMode(s, "normal")) /\ InMode(s, "normal").active = 0
      BY <2>2, ModeSound
    <3>2. Job(c, r, nodes) \in JobType
      BY DEF Job, JobType
    <3> QED BY <1>2, <2>4, <3>1, <3>2, FiredSound
  <2> QED BY <2>1, <2>3, <2>4
<1> QED BY <1>1, <1>2

-----------------------------------------------------------------------------

(* The inductive invariant, in three parts: the driver behind the point the *)
(* thread believes in, the labels of the last record, and the mem2mem       *)
(* channel behind the request the thread remembers.                         *)

\* what the channels run under one choice, whatever page their nodes are in
RunsFor(c, r) == \E nodes \in {StaticNodes} \cup StressRegion : Runs(dma, c, r, nodes)

DriverInv ==
  /\ Sound(dma)
  /\ ~stressOk \/ stressPoint = 0 => dma.active = 0
  /\ stressPoint \in PointId /\ stressPoint <= Points(choice.sweep) /\ ~invalidating =>
       IF granted /\ ~torn
       THEN dma.active > 0 /\ RunsFor(PointConfig(choice.sweep, stressPoint), choice.region)
       ELSE dma.active = 0

LabelInv ==
  /\ rec # NoRecord => rec.victim = pass.victim /\ ~awake
  /\ rec.victim \in {"read", "istress"} /\ rec.point = 0 => dma.active = 0
  /\ settled => ~invalidating /\ (pass.victim # "infer" => pass.sweep = choice.sweep)
  /\ settled /\ rec.victim \in {"read", "istress"} =>
       /\ rec.point = stressPoint /\ rec.point <= Points(choice.sweep)
       /\ rec.sweep = choice.sweep
       /\ rec.point # 0 => rec.region = choice.region
  /\ settled /\ rec.victim = "dma" => dma.active = 0

MemToMemInv ==
  /\ m2m.region = 0 \/ m2m = curAggr \/ curAggr.region = 4
  /\ curAggr.region = 0 => m2m.region = 0
  /\ pass.victim # "infer" /\ ~pass.held => m2m.region = 0
  /\ rec.victim = "infer" => m2m.region = 0 \/ m2m = [region |-> rec.region, foot |-> rec.foot]

CampaignInv == TypeOK /\ DriverInv /\ LabelInv /\ MemToMemInv

-----------------------------------------------------------------------------
(* Inputs and cells.                                                        *)

\* A console byte replaces one field of the choice with a value of its kind, and
\* only a byte that invalidates the point changes the sweep, the region or the page.
LEMMA ChosenType ==
  ASSUME choice \in ChoiceType, NEW k \in Keys
  PROVE  /\ Chosen(k) \in ChoiceType
         /\ ~Invalidates(k) => /\ Chosen(k).sweep = choice.sweep
                               /\ Chosen(k).region = choice.region
<1> USE DEF Chosen, ChoiceType, VictimKey, SweepKey, RegionKey, NodesKey, HoldKey,
            Victim, SweepId, NoSweep, StressRegion, Invalidates
<1>1. CASE k \in {"v", "r", "i", "t"}
  BY <1>1
<1>2. CASE k \in {"0", "1", "2", "3", "4", "5", "6", "o"}
  <2>1. k \in DOMAIN SweepKey /\ SweepKey[k] \in 0 .. 7
    BY <1>2
  <2>2. /\ k \notin DOMAIN VictimKey /\ k \notin DOMAIN RegionKey
        /\ k \notin DOMAIN NodesKey /\ k \notin HoldKey
    BY <1>2
  <2>3. Chosen(k) = [choice EXCEPT !.sweep = SweepKey[k]]
    <3> HIDE DEF SweepKey, VictimKey, RegionKey, NodesKey, HoldKey
    <3> QED BY <2>1, <2>2
  <2>4. Invalidates(k)
    BY <1>2
  <2> HIDE DEF Chosen, SweepKey, VictimKey, RegionKey, NodesKey, HoldKey, Invalidates
  <2>5. [choice EXCEPT !.sweep = SweepKey[k]] \in ChoiceType
    BY <2>1
  <2> QED BY <2>3, <2>4, <2>5
<1>3. CASE k \in {"a", "b", "c", "d"}
  BY <1>3
<1>4. CASE k \in {"P", "Q", "R", "S"}
  BY <1>4
<1>5. CASE k \in {"M", "N"}
  <2>1. k \in HoldKey /\ ~Invalidates(k)
    BY <1>5
  <2>2. /\ k \notin DOMAIN VictimKey /\ k \notin DOMAIN SweepKey
        /\ k \notin DOMAIN RegionKey /\ k \notin DOMAIN NodesKey
    BY <1>5
  <2>3. Chosen(k) = [choice EXCEPT !.hold = (k = "M")]
    <3> HIDE DEF SweepKey, VictimKey, RegionKey, NodesKey, HoldKey
    <3> QED BY <2>1, <2>2
  <2> HIDE DEF Chosen, SweepKey, VictimKey, RegionKey, NodesKey, HoldKey, Invalidates
  <2>4. /\ [choice EXCEPT !.hold = (k = "M")] \in ChoiceType
        /\ [choice EXCEPT !.hold = (k = "M")].sweep = choice.sweep
        /\ [choice EXCEPT !.hold = (k = "M")].region = choice.region
    BY <2>1
  <2> QED BY <2>3, <2>4
<1> QED BY KeysAssumption, <1>1, <1>2, <1>3, <1>4, <1>5

\* A cell of the cross names no point; a cell of a stress pass names a point of the
\* sweep its schedule was drawn from, and only the timing mode has no cell 0.
LEMMA CellType ==
  ASSUME TypeOK, NEW cell \in Cells
  PROVE  /\ cell \in [point : 0 .. 6, region : 0 .. 3, foot : 0 .. 3]
         /\ pass.victim = "infer" => cell.point = 0
         /\ pass.victim # "infer" => /\ cell.point <= Points(pass.sweep)
                                     /\ cell.foot = 0
         /\ pass.victim = "dma" => cell.point \in PointId
<1>1. CASE pass.victim = "infer"
  BY <1>1, FootprintsAssumption DEF Cells, CrossCells, Cell, Off, AggrRegion
<1>2. CASE pass.victim # "infer"
  <2>1. pass.sweep \in SweepId /\ Points(pass.sweep) \in 0 .. 6
    BY TableEntries DEF TypeOK, Points, GoodSweep
  <2>2. PICK p \in (IF pass.victim = "dma" THEN 1 ELSE 0) .. Points(pass.sweep) :
          cell = [point |-> p, region |-> 0, foot |-> 0]
    BY <1>2 DEF Cells, StressCells, Cell
  <2> QED BY <1>2, <2>1, <2>2 DEF PointId
<1> QED BY <1>1, <1>2

\* The records before and after the window have the types of the wire format.
LEMMA NoRecordType == NoRecord.victim = "none" /\ NoRecord \notin RecordType
BY DEF NoRecord, RecordType, Victim
-----------------------------------------------------------------------------
(* The two switches.                                                        *)

\* A switch of the mem2mem aggressor leaves what it was asked for or nothing.
LEMMA SetAggressorInv ==
  ASSUME TypeOK, MemToMemInv, NEW region \in 0 .. 4, NEW foot \in 0 .. 3,
         SetAggressor(region, foot)
  PROVE  /\ curAggr' = [region |-> region, foot |-> foot]
         /\ curAggr' \in [region : 0 .. 4, foot : 0 .. 3]
         /\ m2m' \in M2mType
         /\ m2m'.region = 0 \/ m2m' = curAggr' \/ curAggr'.region = 4
         /\ region = 0 => m2m'.region = 0
<1> DEFINE want == [region |-> region, foot |-> foot]
<1>1. curAggr' = want /\ want \in [region : 0 .. 4, foot : 0 .. 3]
  BY DEF SetAggressor
<1>2. CASE want = curAggr
  BY <1>1, <1>2 DEF SetAggressor, TypeOK, MemToMemInv
<1>3. CASE want # curAggr
  <2>1. m2m \in M2mType
    BY DEF TypeOK
  <2>2. /\ StopM2m \subseteq {Stopped, Unstoppable}
        /\ \A m \in {Stopped, Unstoppable} : m \in M2mType /\ m.region = 0
    BY <2>1 DEF StopM2m, M2mType, AggrRegion, Astray, Stopped, Unstoppable
  <2>3. CASE m2m' \in StopM2m
    BY <1>1, <2>2, <2>3
  <2>4. CASE m2m' \notin StopM2m
    <3>1. region # 0 /\ m2m' \in StartM2m(region, foot)
      BY <1>3, <2>4 DEF SetAggressor
    <3>2. m2m' = [region |-> IF region \in AggrRegion THEN region ELSE Astray, foot |-> foot]
      BY <2>4, <3>1 DEF StartM2m
    <3> QED BY <1>1, <3>1, <3>2 DEF M2mType, AggrRegion, Astray
  <2> QED BY <2>3, <2>4
<1> QED BY <1>2, <1>3

\* A switch of the stress aggressor leaves the driver sound, stopped for the off
\* cell, and otherwise running the point it was given under the present choice or
\* nothing, provided the point is one of the active sweep.
LEMMA SetStressInv ==
  ASSUME TypeOK, DriverInv, NEW point \in 0 .. 6, SetStress(point)
  PROVE  /\ stressPoint' = point /\ stressPoint' \in {0} \cup PointId
         /\ Sound(dma')
         /\ granted' \in BOOLEAN /\ torn' \in BOOLEAN
         /\ ~stressOk \/ point = 0 => dma'.active = 0
         /\ point \in PointId /\ point <= Points(choice.sweep) /\ ~invalidating =>
              IF granted' /\ ~torn'
              THEN /\ dma'.active > 0
                   /\ \E nodes \in {StaticNodes} \cup StressRegion :
                        Runs(dma', PointConfig(choice.sweep, point), choice.region, nodes)
              ELSE dma'.active = 0
<1>0. point = 0 \/ point \in PointId
  BY DEF PointId
<1>1. CASE point = stressPoint
  BY <1>0, <1>1 DEF SetStress, DriverInv, RunsFor, TypeOK, request
<1>2. CASE point # stressPoint /\ (point = 0 \/ ~stressOk)
  <2>1. /\ dma' \in Stop(dma) /\ granted' = FALSE /\ torn' = FALSE
        /\ stressPoint' = point /\ Sound(dma)
    BY <1>2 DEF SetStress, DriverInv
  <2>2. Sound(dma') /\ dma'.active = 0
    BY <2>1, StopSound DEF Sound
  <2> QED BY <1>0, <2>1, <2>2
<1>3. CASE point # stressPoint /\ point # 0 /\ stressOk
  <2> DEFINE c == PointConfig(choice.sweep, point)
  <2>1. /\ choice.sweep \in SweepId /\ choice.region \in StressRegion
        /\ nodePage \in {StaticNodes} \cup StressRegion
    BY DEF TypeOK, ChoiceType
  <2>2. c \in ConfigType /\ (point <= Points(choice.sweep) => Startable(c))
    BY <1>0, <1>3, <2>1, PointType
  <2>3. /\ dma' \in Start(dma, c, choice.region, nodePage)
        /\ granted' = (Startable(c) /\ dma'.running)
        /\ stressPoint' = point /\ torn' = FALSE
    BY <1>3 DEF SetStress
  <2>4. /\ Sound(dma')
        /\ Startable(c) => dma'.active = 0 \/ Runs(dma', c, choice.region, nodePage)
    <3> HIDE DEF c
    <3> QED BY <2>1, <2>2, <2>3, StartSound DEF DriverInv
  <2>5. granted' \in BOOLEAN /\ torn' \in BOOLEAN
    BY <2>3, <2>4 DEF Sound, Counted, DriverType
  <2> HIDE DEF c
  <2>6. dma'.active \in 0 .. 4 /\ (dma'.running <=> dma'.active > 0)
    BY <2>4 DEF Sound, Counted, DriverType
  <2>7. CASE granted'
    <3>1. Startable(c) /\ dma'.active > 0
      BY <2>3, <2>6, <2>7
    <3>2. Runs(dma', c, choice.region, nodePage)
      BY <2>4, <3>1
    <3>3. \E nodes \in {StaticNodes} \cup StressRegion : Runs(dma', c, choice.region, nodes)
      BY <2>1, <3>2
    <3>4. stressPoint' = point /\ torn' = FALSE /\ stressOk /\ point # 0
      BY <1>3, <2>3
    <3>5. IF granted' /\ ~torn'
          THEN /\ dma'.active > 0
               /\ \E nodes \in {StaticNodes} \cup StressRegion :
                    Runs(dma', PointConfig(choice.sweep, point), choice.region, nodes)
          ELSE dma'.active = 0
      BY <2>7, <3>1, <3>3, <3>4 DEF c
    <3>6. /\ Sound(dma') /\ granted' \in BOOLEAN /\ torn' \in BOOLEAN
          /\ stressPoint' \in {0} \cup PointId
          /\ ~stressOk \/ point = 0 => dma'.active = 0
      BY <1>0, <2>4, <2>5, <3>4
    <3> QED BY <3>4, <3>5, <3>6, Zenon
  <2>8. CASE ~granted'
    <3>1. Startable(c) => dma'.active = 0
      <4>1. ~(Startable(c) /\ dma'.running)
        BY <2>3, <2>8, Zenon
      <4> QED BY <2>6, <4>1
    <3>2. /\ stressPoint' = point /\ stressPoint' \in {0} \cup PointId
          /\ ~stressOk \/ point = 0 => dma'.active = 0
      BY <1>0, <1>3, <2>3
    <3>3. point <= Points(choice.sweep) => dma'.active = 0
      BY <2>2, <3>1
    <3>4. Sound(dma') /\ granted' \in BOOLEAN /\ torn' \in BOOLEAN
      BY <2>4, <2>5
    <3>5. ~(granted' /\ ~torn')
      BY <2>8
    <3>6. point \in PointId /\ point <= Points(choice.sweep) /\ ~invalidating =>
            IF granted' /\ ~torn'
            THEN /\ dma'.active > 0
                 /\ \E nodes \in {StaticNodes} \cup StressRegion :
                      Runs(dma', PointConfig(choice.sweep, point), choice.region, nodes)
            ELSE dma'.active = 0
      BY <3>3, <3>5, Zenon
    <3> QED BY <3>2, <3>4, <3>6
  <2> QED BY <2>7, <2>8
<1> QED BY <1>1, <1>2, <1>3
-----------------------------------------------------------------------------
(* Every action preserves the invariant.                                    *)

\* The invariant holds at boot, with no channel programmed.
LEMMA InitInv == Init => CampaignInv
<1> SUFFICES ASSUME Init PROVE CampaignInv
  OBVIOUS
<1>0. m2m \in M2mType /\ m2m.region = 0
  BY DEF Init, M2mType, Stopped
<1>1. TypeOK
  <2>1. choice \in ChoiceType
    BY DEF Init, ChoiceType, Victim, SweepId, NoSweep, StressRegion
  <2>2. pass \in [victim : Victim, sweep : SweepId, held : BOOLEAN]
    BY DEF Init, Victim, SweepId, NoSweep
  <2>3. dma \in DriverType
    BY NewDriverSound DEF Init, Sound, Counted
  <2>4. left \in 0 .. PassLength /\ keys \in 0 .. MaxKeys
    BY BoundsAssumption DEF Init
  <2> QED BY <1>0, <2>1, <2>2, <2>3, <2>4 DEF Init, TypeOK
<1>2. DriverInv
  BY NewDriverSound DEF Init, DriverInv, PointId, Invalid
<1>3. LabelInv
  BY DEF Init, LabelInv, NoRecord
<1>4. MemToMemInv
  BY <1>0 DEF Init, MemToMemInv, NoRecord, Unset, Invalid
<1> QED BY <1>1, <1>2, <1>3, <1>4 DEF CampaignInv

\* Beginning a pass of the cross touches no channel.
LEMMA BeginCrossInv ==
  ASSUME CampaignInv, BeginCrossPass
  PROVE  CampaignInv'
<1> USE DEF CampaignInv, BeginCrossPass, console, devices, request
<1>1. TypeOK'
  BY BoundsAssumption DEF TypeOK, Victim, SweepId, NoSweep
<1>2. DriverInv'
  BY DEF DriverInv, RunsFor
<1>3. LabelInv'
  BY DEF LabelInv, NoRecord
<1>4. MemToMemInv'
  BY DEF MemToMemInv, NoRecord
<1> QED BY <1>1, <1>2, <1>3, <1>4

\* Beginning a stress pass puts the mem2mem channel where the pass wants it.
LEMMA BeginStressInv ==
  ASSUME CampaignInv, BeginStressPass
  PROVE  CampaignInv'
<1>1. choice \in ChoiceType /\ TypeOK /\ MemToMemInv
  BY DEF CampaignInv, TypeOK
<1>2. /\ curAggr' \in [region : 0 .. 4, foot : 0 .. 3]
      /\ m2m' \in M2mType
      /\ m2m'.region = 0 \/ m2m' = curAggr' \/ curAggr'.region = 4
      /\ curAggr'.region = 0 => m2m'.region = 0
      /\ ~choice.hold => m2m'.region = 0
  <2>1. CASE choice.hold
    <3>1. SetAggressor(choice.region, 3) /\ choice.region \in 0 .. 4
      BY <1>1, <2>1 DEF BeginStressPass, MemToMemForStress, ChoiceType, StressRegion
    <3> QED BY <1>1, <2>1, <3>1, SetAggressorInv
  <2>2. CASE ~choice.hold
    <3>1. SetAggressor(0, 0)
      BY <2>2 DEF BeginStressPass, MemToMemForStress
    <3> QED BY <1>1, <3>1, SetAggressorInv
  <2> QED BY <2>1, <2>2
<1>3. TypeOK'
  BY <1>1, <1>2, BoundsAssumption DEF TypeOK, BeginStressPass, ChoiceType, console, request
<1>4. DriverInv'
  BY DEF CampaignInv, DriverInv, RunsFor, BeginStressPass, console, request
<1>5. LabelInv'
  BY DEF CampaignInv, LabelInv, NoRecord, BeginStressPass, console
<1>6. MemToMemInv'
  BY <1>2 DEF MemToMemInv, NoRecord, BeginStressPass
<1> QED BY <1>3, <1>4, <1>5, <1>6 DEF CampaignInv

\* What an iteration leaves alone, and the type of what it pushes.
LEMMA PushedType ==
  ASSUME TypeOK, left > 0, NEW cell \in [point : 0 .. 6, region : 0 .. 3, foot : 0 .. 3],
         NEW region \in 0 .. 4, Pushed(cell, region), UNCHANGED <<choice, pass>>
  PROVE  /\ left' \in 0 .. PassLength
         /\ awake' = FALSE
         /\ rec' \in RecordType
         /\ rec'.victim = pass.victim /\ rec'.point = cell.point /\ rec'.region = region
         /\ rec'.foot = cell.foot /\ rec'.sweep = choice.sweep
BY BoundsAssumption DEF TypeOK, Pushed, RecordType, ChoiceType

\* A cell of the cross.
LEMMA CrossInv ==
  ASSUME CampaignInv, left > 0, NEW cell \in Cells, MeasureCross(cell),
         UNCHANGED <<console, stressOk, aggrOk, nodePage, pass, settled>>
  PROVE  CampaignInv'
<1>1. TypeOK /\ MemToMemInv /\ pass.victim = "infer"
  BY DEF CampaignInv, MeasureCross
<1>2. /\ cell \in [point : 0 .. 6, region : 0 .. 3, foot : 0 .. 3]
      /\ cell.region \in 0 .. 4 /\ cell.foot \in 0 .. 3
  BY <1>1, CellType
<1>3. SetAggressor(cell.region, cell.foot) /\ Pushed(cell, cell.region)
  BY DEF MeasureCross
<1>4. /\ left' \in 0 .. PassLength
      /\ awake' = FALSE
      /\ rec' \in RecordType
      /\ rec'.victim = "infer" /\ rec'.region = cell.region /\ rec'.foot = cell.foot
  BY <1>1, <1>2, <1>3, PushedType DEF console
<1>5. /\ curAggr' = [region |-> cell.region, foot |-> cell.foot]
      /\ curAggr' \in [region : 0 .. 4, foot : 0 .. 3]
      /\ m2m' \in M2mType
      /\ m2m'.region = 0 \/ m2m' = curAggr' \/ curAggr'.region = 4
      /\ cell.region = 0 => m2m'.region = 0
  BY <1>1, <1>2, <1>3, SetAggressorInv
<1>6. curAggr'.region = cell.region /\ cell.region # 4
  BY <1>2, <1>5
<1>7. TypeOK'
  BY <1>1, <1>4, <1>5 DEF TypeOK, MeasureCross, console, request
<1>8. DriverInv'
  BY DEF CampaignInv, DriverInv, RunsFor, MeasureCross, console, request
<1>9. LabelInv'
  BY <1>1, <1>4 DEF CampaignInv, LabelInv, console
<1>10. MemToMemInv'
  BY <1>1, <1>4, <1>5, <1>6 DEF MemToMemInv
<1> QED BY <1>7, <1>8, <1>9, <1>10 DEF CampaignInv

\* A cell of a victim under the stress aggressor.
LEMMA UnderStressInv ==
  ASSUME CampaignInv, left > 0, NEW cell \in Cells, MeasureUnderStress(cell),
         UNCHANGED <<console, stressOk, aggrOk, nodePage, pass, settled>>
  PROVE  CampaignInv'
<1> DEFINE region == IF cell.point = 0 THEN 0 ELSE choice.region
<1>1. /\ TypeOK /\ DriverInv /\ pass.victim \in {"read", "istress"}
      /\ choice \in ChoiceType
  BY DEF CampaignInv, MeasureUnderStress, TypeOK
<1>2. /\ cell \in [point : 0 .. 6, region : 0 .. 3, foot : 0 .. 3]
      /\ cell.point \in 0 .. 6 /\ region \in 0 .. 4
      /\ cell.point <= Points(pass.sweep)
  BY <1>1, CellType DEF ChoiceType, StressRegion
<1>3. SetStress(cell.point) /\ Pushed(cell, region)
  BY DEF MeasureUnderStress
<1>4. /\ left' \in 0 .. PassLength
      /\ awake' = FALSE
      /\ rec' \in RecordType
      /\ rec'.victim = pass.victim /\ rec'.point = cell.point
      /\ rec'.region = region /\ rec'.sweep = choice.sweep
  <2> HIDE DEF region
  <2> QED BY <1>1, <1>2, <1>3, PushedType DEF console
<1>5. /\ stressPoint' = cell.point /\ stressPoint' \in {0} \cup PointId
      /\ Sound(dma')
      /\ granted' \in BOOLEAN /\ torn' \in BOOLEAN
      /\ ~stressOk \/ cell.point = 0 => dma'.active = 0
      /\ cell.point \in PointId /\ cell.point <= Points(choice.sweep) /\ ~invalidating =>
           IF granted' /\ ~torn'
           THEN /\ dma'.active > 0
                /\ \E nodes \in {StaticNodes} \cup StressRegion :
                     Runs(dma', PointConfig(choice.sweep, cell.point), choice.region, nodes)
           ELSE dma'.active = 0
  BY <1>1, <1>2, <1>3, SetStressInv
<1>6. TypeOK'
  BY <1>1, <1>4, <1>5 DEF TypeOK, Sound, Counted, MeasureUnderStress, console
<1>7. DriverInv'
  BY <1>5 DEF DriverInv, RunsFor, console
<1>8. LabelInv'
  BY <1>1, <1>2, <1>4, <1>5 DEF CampaignInv, LabelInv, console
<1>9. MemToMemInv'
  BY <1>1, <1>4 DEF CampaignInv, MemToMemInv, MeasureUnderStress
<1> QED BY <1>6, <1>7, <1>8, <1>9 DEF CampaignInv

\* A cell of the timing mode: a request past the end of the active sweep is turned
\* away, and any other leaves no sweep channel running.
LEMMA TransferInv ==
  ASSUME CampaignInv, left > 0, NEW cell \in Cells, MeasureTransfer(cell),
         UNCHANGED <<console, stressOk, aggrOk, nodePage, pass, settled>>
  PROVE  CampaignInv'
<1> DEFINE region == IF cell.point = 0 THEN 0 ELSE choice.region
           c == PointConfig(choice.sweep, cell.point)
<1>1. /\ TypeOK /\ DriverInv /\ pass.victim = "dma"
      /\ choice \in ChoiceType /\ nodePage \in {StaticNodes} \cup StressRegion
  BY DEF CampaignInv, MeasureTransfer, TypeOK
<1>2. /\ cell \in [point : 0 .. 6, region : 0 .. 3, foot : 0 .. 3]
      /\ cell.point \in PointId /\ region \in 0 .. 4
      /\ cell.point <= Points(pass.sweep)
  BY <1>1, CellType DEF ChoiceType, StressRegion
<1>3. Pushed(cell, region) /\ (dma' = dma \/ dma' \in Once(dma, c, choice.region, nodePage))
      /\ (~stressOk => dma' = dma)
      /\ (stressOk => dma' \in Once(dma, c, choice.region, nodePage))
  BY DEF MeasureTransfer
<1>4. /\ left' \in 0 .. PassLength
      /\ awake' = FALSE
      /\ rec' \in RecordType
      /\ rec'.victim = "dma" /\ rec'.point = cell.point
  <2> HIDE DEF region
  <2> QED BY <1>1, <1>2, <1>3, PushedType DEF console
<1>5. c \in ConfigType /\ choice.sweep \in SweepId /\ choice.region \in StressRegion
      /\ (cell.point <= Points(choice.sweep) => WellFormed(c))
  BY <1>1, <1>2, PointType DEF ChoiceType, Startable
<1>6. /\ Sound(dma')
      /\ dma' = dma \/ dma'.active = 0
      /\ stressOk /\ cell.point <= Points(choice.sweep) => dma'.active = 0
      /\ ~stressOk => dma'.active = 0
  <2> HIDE DEF c
  <2>1. CASE stressOk
    BY <2>1, <1>1, <1>3, <1>5, OnceSound DEF DriverInv
  <2>2. CASE ~stressOk
    BY <2>2, <1>1, <1>3 DEF DriverInv
  <2> QED BY <2>1, <2>2
<1>7. /\ UNCHANGED <<stressPoint, choice, invalidating, stressOk, granted>>
      /\ torn' = (torn \/ (dma.running /\ ~dma'.running))
  BY DEF MeasureTransfer, console
<1>8. TypeOK'
  BY <1>1, <1>4, <1>6, <1>7 DEF TypeOK, Sound, Counted, MeasureTransfer, console
<1>9. DriverInv'
  <2>1. CASE dma' = dma
    <3>1. torn' <=> torn
      BY <1>7, <2>1
    <3> QED BY <1>1, <1>7, <2>1, <3>1 DEF DriverInv, RunsFor
  <2>2. CASE dma'.active = 0
    <3>1. /\ ~dma'.running
          /\ dma.running <=> dma.active > 0
      BY <1>1, <1>6, <2>2 DEF DriverInv, Sound
    <3>2. granted' /\ ~torn' => granted /\ ~torn /\ ~(dma.active > 0)
      BY <1>7, <3>1
    <3> QED BY <1>1, <1>6, <1>7, <2>2, <3>2 DEF DriverInv
  <2> QED BY <1>6, <2>1, <2>2
<1>10. LabelInv'
  <2> HIDE DEF c, region
  <2> QED BY <1>1, <1>2, <1>4, <1>6 DEF CampaignInv, LabelInv, console
<1>11. MemToMemInv'
  BY <1>1, <1>4 DEF CampaignInv, MemToMemInv, MeasureTransfer
<1> QED BY <1>8, <1>9, <1>10, <1>11 DEF CampaignInv

\* The first store of a console byte: a byte that changes the sweep or the region
\* leaves the exporter about to invalidate the point.
LEMMA ConsoleByteInv ==
  ASSUME CampaignInv, ConsoleByte
  PROVE  CampaignInv'
<1>1. PICK k \in Keys : choice' = Chosen(k) /\ invalidating' = Invalidates(k)
  BY DEF ConsoleByte
<1>2. choice \in ChoiceType
  BY DEF CampaignInv, TypeOK
<1>3. /\ choice' \in ChoiceType
      /\ invalidating' \in BOOLEAN
      /\ ~invalidating' => choice'.sweep = choice.sweep /\ choice'.region = choice.region
  BY <1>1, <1>2, ChosenType DEF Invalidates
<1>4. TypeOK'
  <2>1. /\ keys' = keys + 1 /\ keys < MaxKeys /\ settled' = FALSE
        /\ UNCHANGED <<stressPoint, devices, infer, request>>
    BY DEF ConsoleByte
  <2>2. choice' \in ChoiceType /\ invalidating' \in BOOLEAN
    BY <1>3
  <2>3. keys' \in 0 .. MaxKeys
    BY <2>1, BoundsAssumption DEF CampaignInv, TypeOK
  <2> QED BY <2>1, <2>2, <2>3 DEF CampaignInv, TypeOK, devices, infer, request
<1> USE DEF CampaignInv, ConsoleByte, devices, infer, request
<1>5. DriverInv'
  BY <1>3 DEF DriverInv, RunsFor
<1>6. LabelInv'
  BY DEF LabelInv
<1>7. MemToMemInv'
  BY DEF MemToMemInv
<1> QED BY <1>4, <1>5, <1>6, <1>7

\* The second store, of a point that no cell names.
LEMMA InvalidateInv ==
  ASSUME CampaignInv, ConsoleInvalidate
  PROVE  CampaignInv'
<1> USE DEF CampaignInv, ConsoleInvalidate, devices, infer, request
<1>1. TypeOK'
  BY DEF TypeOK
<1>2. DriverInv'
  BY DEF DriverInv, PointId, Invalid
<1>3. LabelInv'
  BY DEF LabelInv
<1>4. MemToMemInv'
  BY DEF MemToMemInv
<1> QED BY <1>1, <1>2, <1>3, <1>4

\* A step that changes nothing.
LEMMA StutterInv ==
  ASSUME CampaignInv, UNCHANGED vars
  PROVE  CampaignInv'
BY DEF vars, CampaignInv, TypeOK, DriverInv, RunsFor, LabelInv, MemToMemInv

\* The invariant is inductive.
LEMMA NextInv ==
  ASSUME CampaignInv, [Next]_vars
  PROVE  CampaignInv'
<1>1. CASE BeginCrossPass
  BY <1>1, BeginCrossInv
<1>2. CASE BeginStressPass
  BY <1>2, BeginStressInv
<1>3. CASE Iterate
  <2>1. PICK cell \in Cells :
          MeasureCross(cell) \/ MeasureUnderStress(cell) \/ MeasureTransfer(cell)
    BY <1>3 DEF Iterate
  <2>2. left > 0 /\ UNCHANGED <<console, stressOk, aggrOk, nodePage, pass, settled>>
    BY <1>3 DEF Iterate
  <2> QED BY <2>1, <2>2, CrossInv, UnderStressInv, TransferInv
<1>4. CASE ConsoleByte
  BY <1>4, ConsoleByteInv
<1>5. CASE ConsoleInvalidate
  BY <1>5, InvalidateInv
<1>6. CASE UNCHANGED vars
  BY <1>6, StutterInv
<1> QED BY <1>1, <1>2, <1>3, <1>4, <1>5, <1>6 DEF Next

-----------------------------------------------------------------------------
(* The properties.                                                          *)

\* The invariant holds in every reachable state.
LEMMA InvariantHolds == Spec => []CampaignInv
<1>1. Init => CampaignInv
  BY InitInv
<1>2. CampaignInv /\ [Next]_vars => CampaignInv'
  BY NextInv
<1> QED BY <1>1, <1>2, PTL DEF Spec

\* Every variable has its type: the point the thread has passed on, the sweep it is
\* looked up in and the region of its window are entries of the tables the firmware
\* keeps of them, and a pass ends at the end of its schedule.  The tables of the
\* mem2mem buffers are not among them: what their index reaches past the end is a
\* value of the type (app_threadx.c:962-969).
THEOREM CampaignTypes == Spec => []TypeOK
<1>1. CampaignInv => TypeOK
  BY DEF CampaignInv
<1> QED BY <1>1, InvariantHolds, PTL

\* The driver's count, flag and timer agree with the channels in every reachable
\* state, whatever the HAL refused.
THEOREM DriverAlwaysAgrees == Spec => []DriverAgrees
<1>1. CampaignInv => DriverAgrees
  <2> SUFFICES ASSUME CampaignInv PROVE DriverAgrees
    OBVIOUS
  <2>1. Sound(dma) /\ dma.active \in 0 .. 4
    BY DEF CampaignInv, DriverInv, Sound, Counted, DriverType
  <2>2. Traffic(dma) = 1 .. dma.active
    BY <2>1 DEF Sound, Counted, Traffic, Channel
  <2> QED BY <2>1, <2>2 DEF DriverAgrees, Sound, Counted
<1> QED BY <1>1, InvariantHolds, PTL

\* No order of sweep cells, timed blocks, console bytes and refusals leaves a
\* channel in the state that nothing starts again.
THEOREM ChannelsStayUsable == Spec => []NoDeadChannel
<1>1. CampaignInv => NoDeadChannel
  BY DEF CampaignInv, DriverInv, Sound, Counted, NoDeadChannel
<1> QED BY <1>1, InvariantHolds, PTL

\* What an idle driver has on the bus.
LEMMA IdleIsQuiet ==
  ASSUME CampaignInv, dma.active = 0
  PROVE  Traffic(dma) = {} /\ dma.timer = 0
BY DEF CampaignInv, DriverInv, Sound, Counted, Traffic, Channel

\* The off cell of a stress pass is quiet, also in the middle of a reconfiguration.
THEOREM OffCellAlwaysQuiet == Spec => []OffCellIsQuiet
<1>1. CampaignInv => OffCellIsQuiet
  <2> SUFFICES ASSUME CampaignInv, UnderStress, rec.point = 0
               PROVE  Traffic(dma) = {} /\ dma.timer = 0
    BY DEF OffCellIsQuiet
  <2>1. dma.active = 0
    BY DEF UnderStress, CampaignInv, LabelInv
  <2> QED BY <2>1, IdleIsQuiet
<1> QED BY <1>1, InvariantHolds, PTL

\* A timed block of an undisturbed pass is alone on the bus.
THEOREM TransferAlwaysAlone == Spec => []TransferAlone
<1>1. CampaignInv => TransferAlone
  <2> SUFFICES ASSUME CampaignInv, rec.victim = "dma", settled
               PROVE  Traffic(dma) = {} /\ dma.timer = 0
    BY DEF TransferAlone
  <2>1. dma.active = 0
    BY DEF CampaignInv, LabelInv
  <2> QED BY <2>1, IdleIsQuiet
<1> QED BY <1>1, InvariantHolds, PTL

\* In an undisturbed pass the labels of a record of a granted point name what ran
\* during its window, and during the window of any other record nothing ran.
THEOREM LabelsNameTheTraffic == Spec => []SettledLabels
<1>1. CampaignInv => SettledLabels
  <2> SUFFICES ASSUME CampaignInv, UnderStress, settled
               PROVE  IF rec.point # 0 /\ granted /\ ~torn
                      THEN LET c == PointConfig(rec.sweep, rec.point)
                           IN  /\ Traffic(dma) = 1 .. c.channels /\ dma.running
                               /\ \A i \in Traffic(dma) : /\ dma.chan[i].job.config = c
                                                        /\ dma.chan[i].job.region = rec.region
                               /\ dma.timer = IF Gated(c) THEN c.hz ELSE 0
                      ELSE Traffic(dma) = {} /\ dma.timer = 0
    BY DEF SettledLabels
  <2> DEFINE c == PointConfig(rec.sweep, rec.point)
  <2>1. /\ rec.point = stressPoint /\ rec.point <= Points(choice.sweep)
        /\ rec.sweep = choice.sweep /\ ~invalidating
        /\ rec.point # 0 => rec.region = choice.region
        /\ rec.point = 0 => dma.active = 0
    BY DEF CampaignInv, LabelInv, UnderStress
  <2>2. rec.point \in 0 .. 6
    BY NoRecordType DEF CampaignInv, TypeOK, UnderStress, RecordType
  <2>3. CASE rec.point # 0 /\ granted /\ ~torn
    <3>1. rec.point \in PointId
      BY <2>2, <2>3 DEF PointId
    <3>2. dma.active > 0 /\ RunsFor(c, rec.region)
      BY <2>1, <2>3, <3>1 DEF CampaignInv, DriverInv
    <3>3. PICK nodes \in {StaticNodes} \cup StressRegion : Runs(dma, c, rec.region, nodes)
      BY <3>2 DEF RunsFor
    <3> HIDE DEF c
    <3>4. Sound(dma) /\ dma.active \in 0 .. 4 /\ dma.running
      BY <3>2 DEF CampaignInv, DriverInv, Sound, Counted, DriverType
    <3>5. Traffic(dma) = 1 .. c.channels
      BY <3>3, <3>4 DEF Sound, Counted, Traffic, Channel, Runs
    <3>6. \A i \in Traffic(dma) : dma.chan[i].job = Job(c, rec.region, nodes)
      BY <3>3, <3>4 DEF Sound, Counted, Traffic, Runs
    <3>7. Job(c, rec.region, nodes).config = c /\ Job(c, rec.region, nodes).region = rec.region
      BY DEF Job
    <3>8. dma.timer = IF Gated(c) THEN c.hz ELSE 0
      BY <3>3 DEF Runs
    <3> QED BY <2>3, <3>4, <3>5, <3>6, <3>7, <3>8 DEF c
  <2>4. CASE ~(rec.point # 0 /\ granted /\ ~torn)
    <3>1. dma.active = 0
      <4>1. CASE rec.point = 0
        BY <2>1, <4>1
      <4>2. CASE rec.point # 0
        <5>1. rec.point \in PointId /\ ~(granted /\ ~torn)
          BY <2>2, <2>4, <4>2 DEF PointId
        <5> QED BY <2>1, <5>1 DEF CampaignInv, DriverInv
      <4> QED BY <4>1, <4>2
    <3> QED BY <2>4, <3>1, IdleIsQuiet
  <2> QED BY <2>3, <2>4
<1> QED BY <1>1, InvariantHolds, PTL

\* The mem2mem channel runs what the cross labels say and stays out of a stress
\* pass that was not told to hold it.
THEOREM MemToMemStaysInItsPass == Spec => []OneMemToMem
<1>1. CampaignInv => OneMemToMem
  <2> SUFFICES ASSUME CampaignInv, rec.victim \in {"infer", "read", "istress", "dma"}
               PROVE  /\ rec.victim = "infer" /\ m2m.region # 0 =>
                           m2m = [region |-> rec.region, foot |-> rec.foot]
                      /\ rec.victim # "infer" /\ ~pass.held => m2m.region = 0
    BY DEF OneMemToMem
  <2>1. rec.victim = pass.victim
    BY NoRecordType DEF CampaignInv, LabelInv
  <2> QED BY <2>1 DEF CampaignInv, MemToMemInv
<1> QED BY <1>1, InvariantHolds, PTL
=============================================================================
