--------------------------- MODULE MeasurementStore ---------------------------
(***************************************************************************)
(* What the terminal viewer keeps of the records it is shown (measurement,  *)
(* lx_v2 and experiment of laxity-tui): the placements the last structural  *)
(* header announced, a bounded window of samples per cell, and the          *)
(* comparison drawn from them.  A sample is [exec, stall, progress] and a   *)
(* cell key [revision, workload, placement, requester].                     *)
(***************************************************************************)
EXTENDS PlacementGeometry

CONSTANTS SAMPLE_LIMIT, CELL_LIMIT,
          DeviceRegions,      \* the device profile's memory regions, a sequence
          DmaRequesters,      \* the DMA requesters the profile names
          StallCounted        \* the profile's stall_cycles capability

ASSUME LimitsArePositive ==
  SAMPLE_LIMIT \in Nat \ {0} /\ CELL_LIMIT \in Nat \ {0}

contains(region, arena) ==
  /\ arena.bytes # 0
  /\ region.base <= arena.addr /\ arena.addr + arena.bytes <= region.base + region.bytes

\* an arena belongs to a region only when one region, and no other, holds all of it
containing_region(arena) ==
  LET holds == {r \in ToSet(DeviceRegions) : contains(r, arena)}
  IN  IF Cardinality(holds) = 1 THEN (CHOOSE r \in holds : TRUE).name ELSE Nothing

NoDevice == [arenas |-> Nothing, models |-> Nothing, stall |-> FALSE,
             placements |-> <<>>, revision |-> 0]

\* mutant: the number of models alone tells two headers apart
StructuralByModels(device, header) == device.models # header.models

\* a header with the arenas and the number of models in force changes nothing else
Structural(device, header) ==
  device.arenas # header.arenas \/ device.models # header.models

placements_of(header) ==
  [id \in DOMAIN header.arenas |->
     [region |-> containing_region(header.arenas[id]),
      eligible |-> ~(header.arenas[id].control \/ header.arenas[id].alternative)]]

apply_header(device, header) ==
  IF ~Structural(device, header) THEN [device EXCEPT !.stall = header.stall]
  ELSE [arenas |-> header.arenas, models |-> header.models, stall |-> header.stall,
        placements |-> placements_of(header), revision |-> device.revision + 1]

RegionOfPlacement(device, id) ==
  IF id \in DOMAIN device.placements THEN device.placements[id].region ELSE Nothing

\* the one DMA requester of the device, where the profile names exactly one
requester_id ==
  IF Cardinality(DmaRequesters) = 1 THEN CHOOSE r \in DmaRequesters : TRUE ELSE "lx-requester"

adapt_record(device, raw) ==
  [sequence |-> raw.seq, workload |-> raw.model, placement |-> raw.placement,
   requester |->
     IF raw.target = 0 THEN Nothing
     ELSE [id |-> requester_id, target |-> raw.target,
           region |-> RegionOfPlacement(device, raw.target), working_set |-> raw.footprint],
   sample |-> [exec |-> raw.exec,
               stall |-> IF device.stall THEN raw.stall ELSE Nothing,
               progress |-> IF raw.target = 0 THEN Nothing ELSE raw.progress]]

CellKey(revision, m) ==
  [revision |-> revision, workload |-> m.workload, placement |-> m.placement,
   requester |-> m.requester]

baseline_for(key) == [key EXCEPT !.requester = Nothing]

EmptyStore == [revision |-> 0, cells |-> <<>>, order |-> <<>>, latest |-> Nothing]

begin_revision(store, revision) ==
  IF store.revision = revision THEN store
  ELSE [EmptyStore EXCEPT !.revision = revision]

\* a window at its limit gives up its oldest sample
Pushed(window, sample) ==
  Append(IF Len(window) = SAMPLE_LIMIT THEN Tail(window) ELSE window, sample)

\* a store at its limit gives up the cell it opened first
observe(store, m) ==
  LET key == CellKey(store.revision, m)
      known == key \in DOMAIN store.cells
      full == ~known /\ Cardinality(DOMAIN store.cells) = CELL_LIMIT
      order == IF full THEN Tail(store.order) ELSE store.order
      kept == DOMAIN store.cells \ (IF full THEN {Head(store.order)} ELSE {})
      window == IF known THEN store.cells[key] ELSE <<>>
  IN  [store EXCEPT
         !.cells = [k \in kept \cup {key} |-> IF k = key THEN Pushed(window, m.sample) ELSE @[k]],
         !.order = IF known THEN order ELSE Append(order, key),
         !.latest = m]

-----------------------------------------------------------------------------
(* Readings of a cell. *)

percentile(values, percent) ==
  LET sorted == SortSeq(values, <)
  IN  sorted[1 + Smaller((Len(sorted) * percent) \div 100, Len(sorted) - 1)]

\* the values a window carries for one metric, where it carries any
Samples(store, key, metric) ==
  IF key \notin DOMAIN store.cells THEN <<>>
  ELSE LET window == store.cells[key]
       IN  Selected([i \in DOMAIN window |-> window[i][metric]], LAMBDA v : v # Nothing)

statistics(store, key, metric) ==
  LET values == Samples(store, key, metric)
  IN  IF values = <<>> THEN Nothing
      ELSE [count |-> Len(values), latest |-> Last(values),
            mean |-> <<MapThenSumSet(LAMBDA i : values[i], DOMAIN values), Len(values)>>,
            p50 |-> percentile(values, 50), p95 |-> percentile(values, 95),
            p99 |-> percentile(values, 99)]

requester_advanced(store, key) ==
  LET seen == Samples(store, key, "progress")
  IN  seen # <<>> /\ Last(seen) > Head(seen)

Between(measured, baseline) ==
  IF measured = Nothing \/ baseline = Nothing THEN Nothing ELSE measured.p50 - baseline.p50

relation(here, there, m) ==
  CASE m.requester = Nothing -> "off"
    [] m.requester # Nothing /\ (here = Nothing \/ there = Nothing) -> "unknown"
    [] OTHER -> IF here = there THEN "same" ELSE "cross"

activity(region, here, there) ==
  CASE region = here /\ region = there -> "collision"
    [] region = here /\ region # there -> "workload"
    [] region # here /\ region = there -> "requester"
    [] OTHER -> "inactive"

\* one reading of the store for the screen, with the comparison across eligible placements
from_model(device, store, m) ==
  LET key == CellKey(store.revision, m)
      here == RegionOfPlacement(device, m.placement)
      there == IF m.requester = Nothing THEN Nothing ELSE m.requester.region
      compared == {id \in DOMAIN device.placements : device.placements[id].eligible}
      Of(k) == statistics(store, k, "exec")
      At(id) == Of([key EXCEPT !.placement = id])
      complete == compared # {} /\ \A id \in compared : At(id) # Nothing
      p50s == {At(id).p50 : id \in compared}
  IN  [measurement |-> m, here |-> here, relation |-> relation(here, there, m),
       current |-> Of(key), baseline |-> Of(baseline_for(key)),
       penalty |-> Between(Of(key), Of(baseline_for(key))),
       penalties |-> [id \in compared |->
                        Between(At(id), Of(baseline_for([key EXCEPT !.placement = id])))],
       best |-> IF complete THEN {id \in compared : At(id).p50 = Min(p50s)} ELSE {},
       spread |-> IF complete THEN Max(p50s) - Min(p50s) ELSE Nothing,
       advanced |-> m.requester # Nothing /\ requester_advanced(store, key),
       regions |-> [r \in {device.placements[id].region : id \in compared} \ {Nothing} |->
                      activity(r, here, there)]]
=============================================================================
