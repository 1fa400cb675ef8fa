----------------------------- MODULE MemoryScene -----------------------------
(***************************************************************************)
(* The memory view of the terminal viewer (scene.rs): every region of the   *)
(* device, the placements announced in it with the chosen metric of each,   *)
(* and the path of the requester of the measurement on the screen.  A scene *)
(* is built once for a key and drawn from then on for as long as the key    *)
(* is the same.                                                             *)
(***************************************************************************)
EXTENDS MeasurementStore

MetricCycle == <<"latest", "mean", "p50", "p95", "p99", "penalty", "stall", "slack">>
next_metric(metric) ==
  LET i == CHOOSE j \in DOMAIN MetricCycle : MetricCycle[j] = metric
  IN  MetricCycle[(i % Len(MetricCycle)) + 1]

\* no workload the adapter makes has a deadline, so there is no slack to show
placement_metric(device, store, state, id, metric) ==
  LET key == [CellKey(store.revision, state.measurement) EXCEPT !.placement = id]
      exec == statistics(store, key, "exec")
      stall == statistics(store, key, "stall")
  IN  CASE state = Nothing \/ metric = "slack" -> Nothing
        [] state # Nothing /\ metric = "penalty" ->
             Between(exec, statistics(store, baseline_for(key), "exec"))
        [] state # Nothing /\ metric = "stall" ->
             IF ~StallCounted \/ stall = Nothing THEN Nothing ELSE stall.p50
        [] OTHER -> IF exec = Nothing THEN Nothing ELSE exec[metric]

\* a region shows the metric of its active placement, or of the first it compares
region_metric(shown) ==
  LET Pick(Test(_)) == {id \in DOMAIN shown : Test(shown[id])}
      active == Pick(LAMBDA p : p.active /\ p.value # Nothing)
      eligible == Pick(LAMBDA p : p.eligible)
  IN  CASE active # {} -> shown[CHOOSE id \in active : TRUE].value
        [] active = {} /\ eligible # {} ->
             shown[CHOOSE id \in eligible : \A o \in eligible : shown[id].start <= shown[o].start].value
        [] OTHER -> Nothing

build(device, store, state, metric, selected) ==
  LET In(name) == {id \in DOMAIN device.placements : device.placements[id].region = name}
      Shown(id) == [start |-> device.arenas[id].addr,
                    active |-> state # Nothing /\ state.measurement.placement = id,
                    eligible |-> device.placements[id].eligible,
                    value |-> placement_metric(device, store, state, id, metric)]
      Activity(name) == IF state # Nothing /\ name \in DOMAIN state.regions
                        THEN state.regions[name] ELSE "inactive"
      Scene(name) == LET shown == [id \in In(name) |-> Shown(id)]
                     IN  [placements |-> shown, activity |-> Activity(name),
                          value |-> region_metric(shown), selected |-> name = selected]
  IN  [regions |-> [name \in {r.name : r \in ToSet(DeviceRegions)} |-> Scene(name)],
       flow |-> IF state = Nothing THEN Nothing ELSE state.measurement.requester]

\* mutant: the number of the displayed record alone tells two scenes apart
KeyOfRecord(device, state, metric, selected) ==
  <<IF state = Nothing THEN Nothing ELSE state.measurement.sequence, metric, selected>>

scene_key(device, state, metric, selected) ==
  <<device.revision, IF state = Nothing THEN Nothing ELSE state.measurement.sequence,
    metric, selected>>
=============================================================================
