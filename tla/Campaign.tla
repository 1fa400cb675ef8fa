------------------------------- MODULE Campaign -------------------------------
(***************************************************************************)
(* A measurement campaign on the board: the measurement thread of          *)
(* app_threadx.c running pass after pass over a shuffled schedule, the     *)
(* exporter thread changing the configuration from console bytes, and the  *)
(* two aggressors they steer, GPDMA channels that are programmed once and  *)
(* then run by themselves.                                                 *)
(*                                                                         *)
(* The measurement thread has the higher priority and blocks only where it *)
(* sleeps after a record, so the exporter runs only while it is asleep,    *)
(* and may be preempted by it between any two of its own stores.           *)
(*                                                                         *)
(* Left to other modules: the ring the records go to, and the console      *)
(* bytes that steer neither an aggressor nor the kind of victim.           *)
(***************************************************************************)
EXTENDS StressChannels

CONSTANTS Keys,        \* the console bytes that may arrive
          Footprints,  \* indices of laxity_footprints
          PassLength,  \* bound of the model on the iterations of a pass
          MaxKeys      \* bound of the model on the console bytes

AggrRegion == 1 .. 3   \* LAXITY_AGGR_REGIONS, the regions with mem2mem buffers
Invalid == 255         \* 0xFF, no point
Unset == [region |-> Invalid, foot |-> Invalid]

ASSUME KeysAssumption ==
  Keys \subseteq {"v", "r", "i", "t", "o", "0", "1", "2", "3", "4", "5", "6",
                  "a", "b", "c", "d", "P", "Q", "R", "S", "M", "N"}
ASSUME FootprintsAssumption == Footprints \subseteq 0 .. 3 /\ 3 \in Footprints
ASSUME BoundsAssumption == PassLength \in Nat \ {0} /\ MaxKeys \in Nat

VARIABLES
  \* what the console has chosen: laxity_victim, laxity_sweep,
  \* laxity_stress_region, laxity_desc_region and laxity_m2m_hold
  choice,
  stressPoint,     \* laxity_stress_point
  curAggr,         \* laxity_cur_aggr
  stressOk, aggrOk,\* laxity_stress_ok and laxity_aggr_ok, from boot
  dma,             \* the stress driver and its channels
  nodePage,        \* s_node, where the driver builds its nodes
  m2m,             \* what channel 1 of the mem2mem driver is running
  \* the pass of the measurement thread: the victim it latched, the sweep its
  \* schedule was drawn from, whether it holds the mem2mem aggressor, and how
  \* many iterations are left of it
  pass, left, awake,
  rec,             \* the record the last iteration pushed
  invalidating,    \* the exporter is between the two stores of a console byte
  \* history: bytes handled, whether the pass has run under one choice, whether
  \* laxity_set_stress was granted the point it last passed on, and whether a timed
  \* block has stopped the channels since
  keys, settled, granted, torn

vars == <<choice, stressPoint, curAggr, stressOk, aggrOk, dma, nodePage, m2m,
          pass, left, awake, rec, invalidating, keys, settled, granted, torn>>

infer   == <<pass, left, awake, rec>>
console == <<choice, invalidating, keys>>
request == <<granted, torn>>
devices == <<stressOk, aggrOk, dma, nodePage, m2m, curAggr>>

-----------------------------------------------------------------------------
(* Cells of the two kinds of schedule.  A cell of the arena cross names a   *)
(* mem2mem region and footprint, a cell of a stress pass names a point.     *)

Cell(point, region, foot) == [point |-> point, region |-> region, foot |-> foot]
Off == Cell(0, 0, 0)

CrossCells == {Off} \cup {Cell(0, r, f) : r \in AggrRegion, f \in Footprints}

\* laxity_stress_shuffle: the timing mode has no aggressor off cell
StressCells(victim, sweep) ==
  {Cell(p, 0, 0) : p \in (IF victim = "dma" THEN 1 ELSE 0) .. Points(sweep)}

\* The cells of the pass.  The schedule lists each of them eight times in random
\* order; here any of them may come up in any iteration.
Cells == IF pass.victim = "infer" THEN CrossCells ELSE StressCells(pass.victim, pass.sweep)

NoRecord == [victim |-> "none", point |-> 0, region |-> 0, foot |-> 0, sweep |-> 0]

-----------------------------------------------------------------------------
(* The two aggressor switches.                                              *)

Stopped == [region |-> 0, foot |-> 0]
Unstoppable  == [region |-> 0, foot |-> Invalid]
Astray == 5            \* where a buffer address read past the end of its table points

\* qos_gpdma_m2m_stop, which does not look at the result of the abort either
StopM2m == IF m2m.region = 0 THEN {m2m} ELSE {Stopped, Unstoppable}

\* qos_gpdma_m2m_start of a channel that is not stuck may be refused by the HAL; a
\* region that has no buffers of its own indexes past the tables of them
StartM2m(region, foot) ==
  StopM2m \cup
  (IF Stopped \in StopM2m
   THEN {[region |-> IF region \in AggrRegion THEN region ELSE Astray, foot |-> foot]}
   ELSE {})

\* laxity_set_aggressor, which acts only on a change
SetAggressor(region, foot) ==
  LET want == [region |-> region, foot |-> foot]
  IN  /\ curAggr' = want
      /\ IF want = curAggr THEN m2m' = m2m
         ELSE m2m' \in IF region = 0 \/ ~aggrOk THEN StopM2m ELSE StartM2m(region, foot)

\* laxity_set_stress, which acts only on a change of the point and takes the
\* region and the sweep as they are now
SetStress(point) ==
  IF point = stressPoint THEN UNCHANGED <<stressPoint, dma, request>>
  ELSE /\ stressPoint' = point
       /\ torn' = FALSE
       /\ IF point = 0 \/ ~stressOk
          THEN dma' \in Stop(dma) /\ granted' = FALSE
          ELSE LET c == PointConfig(choice.sweep, point) IN
               /\ dma' \in Start(dma, c, choice.region, nodePage)
               /\ granted' = (Startable(c) /\ dma'.running)

-----------------------------------------------------------------------------
(* The measurement thread.                                                  *)

Init ==
  /\ choice = [victim |-> "infer", sweep |-> 0, region |-> 3, nodes |-> 3, hold |-> FALSE]
  /\ stressPoint = Invalid
  /\ curAggr = Unset
  /\ stressOk \in BOOLEAN /\ aggrOk \in BOOLEAN
  /\ dma = NewDriver
  /\ nodePage = StaticNodes
  /\ m2m = Stopped
  /\ pass = [victim |-> "infer", sweep |-> 0, held |-> FALSE]
  /\ left = 0
  /\ awake = FALSE
  /\ rec = NoRecord
  /\ invalidating = FALSE
  /\ keys = 0
  /\ settled = FALSE /\ granted = FALSE /\ torn = FALSE

\* mutant: a stress pass inherits what the last cell of the cross left running
MemToMemInherited ==
  IF choice.hold THEN SetAggressor(choice.region, 3) ELSE UNCHANGED <<curAggr, m2m>>

\* the mem2mem aggressor belongs to the cross: a stress pass stops it, or holds it
\* in the region of the stress aggressor with the largest footprint
MemToMemForStress ==
  IF choice.hold THEN SetAggressor(choice.region, 3) ELSE SetAggressor(0, 0)

\* The victim is latched, the mem2mem aggressor is put where a stress pass wants
\* it, the node page is chosen and the schedule is drawn up.  A timing pass over a
\* sweep with no points has no cell: its shuffle runs off the schedule, and the
\* thread does not come back from it.
BeginCrossPass ==
  /\ ~awake /\ left = 0 /\ choice.victim = "infer"
  /\ pass' = [victim |-> "infer", sweep |-> 0, held |-> FALSE]
  /\ left' = PassLength
  /\ awake' = TRUE
  /\ rec' = NoRecord
  /\ settled' = ~invalidating
  /\ UNCHANGED <<console, stressPoint, devices, request>>

\* mutant: the page of the nodes stays the one of the pass before
BeginStressPassOldPage ==
  /\ ~awake /\ left = 0 /\ choice.victim # "infer"
  /\ pass' = [victim |-> choice.victim, sweep |-> choice.sweep, held |-> choice.hold]
  /\ left' = PassLength
  /\ MemToMemForStress
  /\ awake' = TRUE
  /\ rec' = NoRecord
  /\ settled' = ~invalidating
  /\ UNCHANGED <<console, stressPoint, stressOk, aggrOk, dma, nodePage, request>>

BeginStressPass ==
  /\ ~awake /\ left = 0 /\ choice.victim # "infer"
  /\ pass' = [victim |-> choice.victim, sweep |-> choice.sweep, held |-> choice.hold]
  /\ left' = PassLength
  /\ MemToMemForStress
  /\ nodePage' = choice.nodes
  /\ awake' = TRUE
  /\ rec' = NoRecord
  /\ settled' = ~invalidating
  /\ UNCHANGED <<console, stressPoint, stressOk, aggrOk, dma, request>>

\* one iteration: the cell is set up, the window is measured, the record is pushed
\* with the labels as they are after the window, and the thread sleeps
Pushed(cell, region) ==
  /\ left' = left - 1
  /\ rec' = [victim |-> pass.victim, point |-> cell.point, region |-> region,
             foot |-> cell.foot, sweep |-> choice.sweep]
  /\ awake' = FALSE

MeasureCross(cell) ==
  /\ pass.victim = "infer"
  /\ SetAggressor(cell.region, cell.foot)
  /\ Pushed(cell, cell.region)
  /\ UNCHANGED <<stressPoint, dma, request>>

MeasureUnderStress(cell) ==
  /\ pass.victim \in {"read", "istress"}
  /\ SetStress(cell.point)
  /\ Pushed(cell, IF cell.point = 0 THEN 0 ELSE choice.region)
  /\ UNCHANGED <<curAggr, m2m>>

\* the timing mode programs the first channel itself, past laxity_set_stress
MeasureTransfer(cell) ==
  /\ pass.victim = "dma"
  /\ dma' \in IF stressOk
             THEN Once(dma, PointConfig(choice.sweep, cell.point), choice.region, nodePage)
             ELSE {dma}
  /\ Pushed(cell, IF cell.point = 0 THEN 0 ELSE choice.region)
  /\ torn' = (torn \/ (dma.running /\ ~dma'.running))
  /\ UNCHANGED <<curAggr, m2m, stressPoint, granted>>

Iterate ==
  /\ left > 0
  /\ \E cell \in Cells : MeasureCross(cell) \/ MeasureUnderStress(cell) \/ MeasureTransfer(cell)
  /\ UNCHANGED <<console, stressOk, aggrOk, nodePage, pass, settled>>

-----------------------------------------------------------------------------
(* The exporter thread handling one console byte.                           *)

VictimKey == [v |-> "infer", r |-> "read", i |-> "istress", t |-> "dma"]
SweepKey  == [k \in {"0", "1", "2", "3", "4", "5", "6", "o"} |->
                CASE k = "0" -> 0 [] k = "1" -> 1 [] k = "2" -> 2 [] k = "3" -> 3
                  [] k = "4" -> 4 [] k = "5" -> 5 [] k = "6" -> 6 [] k = "o" -> NoSweep]
RegionKey == [a |-> 1, b |-> 2, c |-> 3, d |-> 4]
NodesKey  == [P |-> 1, Q |-> 2, R |-> 3, S |-> 4]
HoldKey   == {"M", "N"}

\* mutant: choosing a region does not reprogram the channels
InvalidatesSweeps(k) == k \notin {"v", "r", "i", "M", "N", "a", "b", "c", "d"}

\* the bytes whose case stores 0xFF into laxity_stress_point after the choice
Invalidates(k) == k \notin {"v", "r", "i", "M", "N"}

Chosen(k) ==
  CASE k \in DOMAIN VictimKey -> [choice EXCEPT !.victim = VictimKey[k]]
    [] k \in DOMAIN SweepKey  -> [choice EXCEPT !.sweep  = SweepKey[k]]
    [] k \in DOMAIN RegionKey -> [choice EXCEPT !.region = RegionKey[k]]
    [] k \in DOMAIN NodesKey  -> [choice EXCEPT !.nodes  = NodesKey[k]]
    [] k \in HoldKey          -> [choice EXCEPT !.hold   = (k = "M")]

ConsoleByte ==
  /\ ~awake /\ ~invalidating /\ keys < MaxKeys
  /\ \E k \in Keys :
       /\ choice' = Chosen(k)
       /\ invalidating' = Invalidates(k)
  /\ keys' = keys + 1
  /\ settled' = FALSE
  /\ UNCHANGED <<stressPoint, devices, infer, request>>

ConsoleInvalidate ==
  /\ ~awake /\ invalidating
  /\ stressPoint' = Invalid
  /\ invalidating' = FALSE
  /\ settled' = FALSE
  /\ UNCHANGED <<choice, keys, devices, infer, request>>

-----------------------------------------------------------------------------
Next ==
  \/ BeginCrossPass \/ BeginStressPass \/ Iterate
  \/ ConsoleByte \/ ConsoleInvalidate

Spec == Init /\ [][Next]_vars

\* The measurement thread wakes from every sleep and goes on.  It sleeps two
\* ticks after every record and nothing it calls takes as long, so the exporter
\* keeps getting the processor between its iterations, which is more than one
\* iteration leaves it at any given moment.
FairSpec ==
  /\ Spec
  /\ WF_vars(BeginCrossPass \/ BeginStressPass)
  /\ WF_vars(Iterate)
  /\ SF_vars(ConsoleInvalidate)

-----------------------------------------------------------------------------
Victim == {"infer", "read", "istress", "dma"}

ChoiceType == [victim : Victim, sweep : SweepId, region : StressRegion, nodes : StressRegion,
               hold : BOOLEAN]
RecordType == [victim : Victim, point : 0 .. 6, region : 0 .. 4, foot : 0 .. 3, sweep : SweepId]

M2mType == {Stopped, Unstoppable} \cup [region : AggrRegion \cup {Astray}, foot : 0 .. 3]

TypeOK ==
  /\ choice \in ChoiceType
  /\ stressPoint \in {0, Invalid} \cup PointId
  /\ curAggr \in {Unset} \cup [region : 0 .. 4, foot : 0 .. 3]
  /\ stressOk \in BOOLEAN /\ aggrOk \in BOOLEAN
  /\ dma \in DriverType
  /\ nodePage \in {StaticNodes} \cup StressRegion
  /\ m2m \in M2mType
  /\ pass \in [victim : Victim, sweep : SweepId, held : BOOLEAN]
  /\ left \in 0 .. PassLength
  /\ awake \in BOOLEAN /\ invalidating \in BOOLEAN
  /\ rec \in {NoRecord} \cup RecordType
  /\ keys \in 0 .. MaxKeys
  /\ settled \in BOOLEAN /\ granted \in BOOLEAN /\ torn \in BOOLEAN

\* The last record is of a victim under the stress aggressor, and the channels
\* are still as they were during its window.
UnderStress == ~awake /\ rec.victim \in {"read", "istress"}

\* In a pass that no console byte disturbs, a record that names a point the driver
\* granted, and whose channels no timed block has stopped since, is of a window in
\* which the configuration of that point in the active sweep ran, in the region the
\* record names, on exactly as many channels as it asks for and at its rate.  The
\* record of any other window, of the off cell, of a refused point or of one whose
\* channels were taken down, is of a window in which nothing ran, never of what an
\* earlier request had left.  A change of sweep, region or node page has to reach the
\* channels although laxity_set_stress skips a point that looks unchanged
\* (app_threadx.c:907-925, 1464-1479).
SettledLabels ==
  UnderStress /\ settled =>
    IF rec.point # 0 /\ granted /\ ~torn
    THEN LET c == PointConfig(rec.sweep, rec.point)
         IN  /\ Traffic(dma) = 1 .. c.channels /\ dma.running
             /\ \A i \in Traffic(dma) :
                  dma.chan[i].job.config = c /\ dma.chan[i].job.region = rec.region
             /\ dma.timer = IF Gated(c) THEN c.hz ELSE 0
    ELSE Traffic(dma) = {} /\ dma.timer = 0

\* An aggressor off cell of a stress pass is measured with no channel looping and the
\* trigger timer stopped, whatever was typed in the middle of the pass and whatever
\* the HAL refused half way through a start.  It is what the rest of the sweep is read
\* against (app_threadx.c:234-240).  Whether a stuck channel is quiet, nobody knows.
OffCellIsQuiet ==
  UnderStress /\ rec.point = 0 => Traffic(dma) = {} /\ dma.timer = 0

\* The mem2mem channel runs what a record of the arena cross says or is stopped,
\* and in a stress pass that was not told to hold it, it is stopped for the whole
\* pass, also when the pass before was cut from the cross (app_threadx.c:1166-1176);
\* stopped, or stuck after an abort that was not acknowledged.
OneMemToMem ==
  ~awake =>
    /\ rec.victim = "infer" /\ m2m.region # 0 =>
         m2m = [region |-> rec.region, foot |-> rec.foot]
    /\ rec.victim \in {"read", "istress", "dma"} /\ ~pass.held => m2m.region = 0

\* The count that stop and the completion poll walk, the running flag that arming
\* a single block looks at, and the channels that really run agree after every
\* refusal, also one in the middle of a start, and every change of mode, so neither
\* leaves a channel behind (gpdma_stress.c:264-287, 320, 362-364).
DriverAgrees ==
  /\ Traffic(dma) = 1 .. dma.active
  /\ dma.running <=> dma.active > 0
  /\ dma.timer # 0 => dma.running

\* No channel is ever aborted after it has finished its block, which would leave
\* it in a state that nothing starts again (gpdma_stress.c:315-319).
NoDeadChannel == \A i \in Channel : dma.chan[i].state # "dead"


\* A single timed block never shares the bus with sweep channels left over from
\* an earlier pass, in a pass that no console byte disturbs
\* (gpdma_stress.c:315-320).
TransferAlone ==
  ~awake /\ rec.victim = "dma" /\ settled => Traffic(dma) = {} /\ dma.timer = 0

\* What the console chose last eventually is what every record is measured under:
\* the victim, the sweep and the region of the labels, and the node page.
ChoicesTakeEffect ==
  <>[](/\ settled /\ ~invalidating
       /\ pass.victim = choice.victim
       /\ rec # NoRecord =>
            /\ rec.victim = choice.victim
            /\ rec.victim # "infer" => rec.sweep = choice.sweep /\ nodePage = choice.nodes
            /\ rec.victim # "infer" /\ rec.point # 0 => rec.region = choice.region)

-----------------------------------------------------------------------------
(* What comments of the code say of the program, and the program does not do. *)

\* "zero means no aggressor" (include/qos/telemetry.h:64-66): while a record names
\* no aggressor, no channel of either aggressor moves data.
ZeroMeansNoAggressor ==
  ~awake /\ rec # NoRecord /\ rec.region = 0 /\ ~pass.held =>
    Traffic(dma) = {} /\ m2m.region = 0

\* laxity_stress_point is "the point the channels are currently set to"
\* (app_threadx.c:340): in an undisturbed pass, a cell whose point the driver has
\* granted is measured with the channels running.
PointIsCurrent ==
  UnderStress /\ settled /\ stressPoint \in PointId /\ granted => dma.running

\* "The descriptor page is chosen before any channel is started, because the nodes
\* are built into it and a channel already running would keep reading the old
\* ones" (app_threadx.c:1178-1179): in an undisturbed pass, running channels fetch
\* their nodes from the page of the pass.
NodesInPage ==
  UnderStress /\ settled => \A i \in Traffic(dma) : dma.chan[i].job.nodes = nodePage

\* "A console command never lands between the shuffle and the schedule it
\* produced" (app_threadx.c:1143-1145): every cell measured is a cell of the sweep
\* it is measured under.
CellOfItsSweep ==
  ~awake /\ rec.victim \in {"read", "istress", "dma"} => rec.point <= Points(rec.sweep)

\* laxity_set_stress is to "put the channels into the configuration the cell asks for,
\* or stop them for the off cell" (app_threadx.c:902), and "a point with run=0 is a
\* channel that did not start" (1644-1645): while the driver has refused the point of
\* a record, its running flag is down.
RefusedIsStopped ==
  UnderStress /\ stressPoint \in PointId /\ ~granted => ~dma.running

\* "one source and one destination per aggressor region, both inside that region, so
\* the traffic is region local" (app_threadx.c:225): the mem2mem channel never moves
\* data anywhere but between the buffers of a region that has them.
MemToMemInPlace == m2m.region # Astray

\* Over the sweep with no points "the schedule is the aggressor off cell and nothing
\* else" (app_threadx.c:326): every pass has a cell to measure.
PassHasACell == left > 0 => Cells # {}
=============================================================================
