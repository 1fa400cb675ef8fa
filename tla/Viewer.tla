-------------------------------- MODULE Viewer --------------------------------
(***************************************************************************)
(* laxity tui: a source that is read in bounded turns, a capture that is    *)
(* created by the first byte, the measurements the records become, a screen *)
(* that holds each of them for a while, and the end of the command.  A read *)
(* returns a chunk, which is what the frame decoder made of its bytes:      *)
(* [frames, rejected, events], an event being a header or a record.         *)
(***************************************************************************)
EXTENDS AuditScreen, MemoryScene

CONSTANTS MAX_READS_PER_TICK,
          CommandLines   \* the command lines considered

\* what may stand in the file of a recording, and the absence of a file, which is none of it
Captures == [by : {"viewer", "other"}, bytes : Seq(Nat)]
ASSUME NoFileIsNoCapture == Nothing \notin Captures

\* a command that goes on has no exit, and one reads a file or a port
ASSUME NoExitIsNoEnd == Nothing \notin {"ok", "no header"}
ASSUME OneSource == \A line \in CommandLines : line.source \in {"file", "live"}

\* the decoder hands on lists of events, a header with its arenas and a record with its number
Decoded(delta) ==
  /\ delta.events \in Seq(ToSet(delta.events))
  /\ \A e \in ToSet(delta.events) :
       \/ e.kind = "header" /\ e.header # Nothing /\ e.header.arenas # Nothing
       \/ e.kind = "record" /\ e.record.seq # Nothing
ASSUME StreamsAreDecoded ==
  \A line \in CommandLines :
    /\ line.stream.chunks \in Seq(ToSet(line.stream.chunks))
    /\ \A delta \in ToSet(line.stream.chunks) \cup {line.stream.final} : Decoded(delta)

VARIABLES options, phase, reads, input, fresh, decoded, model, held,
          recorder, capture, screen, scene, expired, exit, faults, keys

sourceVars == <<input, fresh, decoded>>
recording == <<recorder, capture>>
screenVars == <<screen, scene, keys>>
viewerVars == <<options, phase, reads, sourceVars, model, held, recording, screenVars,
                expired, exit, faults>>

Phases == {"args", "audit", "top", "poll", "polled", "key", "ending", "over"}

NoModel == [device |-> NoDevice, store |-> EmptyStore, display |-> Nothing, revision |-> 0]
FirstScreen ==
  [view |-> "telemetry", metric |-> "p50", region |-> 0, object |-> 0,
   what_if |-> FALSE, provenance |-> FALSE]

ViewerInit(lines) ==
  /\ options \in lines
  /\ phase = "args" /\ reads = 0
  /\ input = [state |-> "closed", next |-> 1] /\ fresh = {}
  /\ decoded = [accepted |-> FALSE, header |-> FALSE]
  /\ model = NoModel /\ held = FALSE
  /\ recorder = "none"
  /\ capture = IF options.record = "taken" THEN [by |-> "other", bytes |-> <<>>] ELSE Nothing
  /\ screen = FirstScreen /\ scene = Nothing /\ keys = options.keys
  /\ expired = FALSE /\ exit = Nothing /\ faults = options.faults

Chunks == options.stream.chunks
Live == options.source = "live"

\* a live source that is given no file is recorded under a name no file has at that moment
next_record_path == options.record = "none" /\ Live
record_path == options.record # "none" \/ next_record_path

\* the file a recording is asked to be may be the one that is replayed
same_path == options.record = "input"

Leave(why) == phase' = "over" /\ exit' = why

-----------------------------------------------------------------------------
(* The command line and the opening of the source.  The audit of the third *)
(* view is loaded between the two, once, before anything is read.           *)

parse_args ==
  /\ options.sources = 1
  /\ ~(options.source = "file" /\ same_path)
  /\ ~(options.source = "file" /\ options.duration)

\* a source that does not open is a source from the beginning, a broken one
Opened == IF options.opens THEN "open" ELSE "broken"

Start ==
  /\ phase = "args"
  /\ IF parse_args /\ options.profile_loads /\ (options.headless /\ Live => options.duration)
       THEN /\ phase' = "audit" /\ UNCHANGED exit
            /\ input' = [input EXCEPT !.state = Opened]
       ELSE Leave("refused") /\ UNCHANGED input
  /\ UNCHANGED <<options, reads, fresh, decoded, model, held, recording, screenVars, expired, faults>>

\* the audit screen's model is there, or there is none and the screen says why
Loaded ==
  /\ phase = "audit"
  /\ IF options.headless /\ input.state = "broken" THEN Leave("source")
     ELSE /\ phase' = IF options.headless THEN "poll" ELSE "top"
          /\ UNCHANGED exit
  /\ reads' = MAX_READS_PER_TICK
  /\ UNCHANGED <<options, sourceVars, model, held, recording, screenVars, expired, faults>>

-----------------------------------------------------------------------------
(* Reading: poll_source, ingest and accept_delta. *)

\* a header that changes the placements begins a revision, and the screen shows nothing of the last
Event(m, event) ==
  IF event.kind = "record"
    THEN [m EXCEPT !.store = observe(@, adapt_record(m.device, event.record))]
  ELSE LET device == apply_header(m.device, event.header)
           store == begin_revision(m.store, device.revision)
       IN  IF ~Structural(m.device, event.header) THEN [m EXCEPT !.device = device]
           ELSE [m EXCEPT !.device = device, !.store = store, !.display = Nothing]

accept_delta(delta, arrived) ==
  /\ fresh' = fresh \cup arrived \cup (IF delta.frames > 0 THEN {"frame"} ELSE {})
                    \cup (IF delta.rejected > 0 THEN {"reject"} ELSE {})
  /\ decoded' = [accepted |-> decoded.accepted \/ delta.frames > 0,
                 header |-> \/ decoded.header
                            \/ \E e \in ToSet(delta.events) : e.kind = "header"]

\* the events one after the other
After(m, events) ==
  LET after[i \in 0..Len(events)] == IF i = 0 THEN m ELSE Event(after[i - 1], events[i])
  IN  after[Len(events)]
Accepted(delta) == After(model, delta.events)

\* mutant: what is shown stays for the whole revision
DisplayedOnce(m, force) ==
  IF m.store.latest = Nothing \/ (m.display # Nothing /\ m.revision = m.device.revision) THEN m
  ELSE [m EXCEPT !.display = from_model(m.device, m.store, m.store.latest),
                 !.revision = m.device.revision]

\* what the display becomes, forced or once it has been held long enough
Displayed(m, force) ==
  LET latest == m.store.latest
      same == /\ m.display # Nothing
              /\ m.display.measurement.sequence = latest.sequence
              /\ m.revision = m.device.revision
  IN  IF latest = Nothing THEN m
      ELSE IF same \/ (held /\ ~force) THEN m
      ELSE [m EXCEPT !.display = from_model(m.device, m.store, latest),
                     !.revision = m.device.revision]

update_display_record(m, force) ==
  /\ model' = Displayed(m, force)
  /\ held' = (held \/ Displayed(m, force) # m)

Fault == faults > 0 /\ faults' = faults - 1
NoFault == UNCHANGED faults

\* mutant: a recording that failed is tried again
OpenAgain ==
  IF recorder = "open" \/ ~record_path THEN recorder
  ELSE IF capture = Nothing THEN "open" ELSE "failed"
\* mutant: the file is created whether it is there or not
OpenOver == IF recorder # "none" \/ ~record_path THEN recorder ELSE "open"

\* the first byte creates the capture, and never over a file that is there
open_recorder ==
  IF recorder # "none" \/ ~record_path THEN recorder
  ELSE IF capture = Nothing THEN "open" ELSE "failed"

\* what a write adds: the chunk, or some part of it, which is written as 0
Wrote(part) ==
  capture' = [by |-> "viewer",
              bytes |-> (IF capture = Nothing THEN <<>> ELSE capture.bytes) \o part]

Record(n) ==
  \/ /\ open_recorder = "open" /\ NoFault
     /\ recorder' = "open" /\ Wrote(<<n>>)
  \/ /\ open_recorder # "open" /\ NoFault
     /\ recorder' = open_recorder /\ UNCHANGED capture
  \/ /\ open_recorder = "open" /\ Fault
     /\ recorder' = "failed"
     /\ \/ Wrote(<<>>) \/ Wrote(<<0>>)
        \/ recorder = "none" /\ UNCHANGED capture

Polling == phase = "poll" /\ reads > 0
Turn(next) == phase' = next /\ UNCHANGED <<options, screenVars, expired, exit>>

Skip ==
  /\ phase = "poll" /\ (input.state # "open" \/ reads = 0)
  /\ Turn("polled")
  /\ UNCHANGED <<reads, sourceVars, model, held, recording, faults>>

\* one chunk; a replay takes one for each turn of the loop
ReadBytes ==
  /\ Polling /\ input.state = "open" /\ input.next <= Len(Chunks)
  /\ Record(input.next)
  /\ accept_delta(Chunks[input.next], {"byte"})
  /\ model' = Accepted(Chunks[input.next])
  /\ input' = [input EXCEPT !.next = @ + 1]
  /\ reads' = reads - 1
  /\ Turn(IF Live THEN "poll" ELSE "polled")
  /\ UNCHANGED held

\* a live source with nothing to read yet
ReadEmpty ==
  /\ Polling /\ input.state = "open" /\ Live
  /\ Turn("polled")
  /\ UNCHANGED <<reads, sourceVars, model, held, recording, faults>>

\* mutant: the end of the file does not end the replay
ReadEofAgain ==
  /\ Polling /\ input.state = "open" /\ ~Live /\ input.next > Len(Chunks)
  /\ accept_delta(options.stream.final, {})
  /\ update_display_record(Accepted(options.stream.final), TRUE)
  /\ Turn("polled")
  /\ UNCHANGED <<reads, input, recording, faults>>

\* the end of a file: what the decoder still held is resolved, and the last record is shown
ReadEof ==
  /\ Polling /\ input.state = "open" /\ ~Live /\ input.next > Len(Chunks)
  /\ accept_delta(options.stream.final, {})
  /\ update_display_record(Accepted(options.stream.final), TRUE)
  /\ input' = [input EXCEPT !.state = "finished"]
  /\ Turn("polled")
  /\ UNCHANGED <<reads, recording, faults>>

ReadError ==
  /\ Polling /\ input.state = "open" /\ Fault
  /\ input' = [input EXCEPT !.state = "broken"]
  /\ Turn("polled")
  /\ UNCHANGED <<reads, fresh, decoded, model, held, recording>>

-----------------------------------------------------------------------------
(* The turn of the screen and its keys. *)

RegionCount == Len(DeviceRegions)
SelectedRegion == DeviceRegions[screen.region + 1].name

\* the memory view is built for a key and drawn again for as long as the key stands
Drawn(m) ==
  LET key == scene_key(m.device, m.display, screen.metric, SelectedRegion)
  IN  CASE screen.view # "memory" -> scene
        [] screen.view = "memory" /\ scene # Nothing /\ scene.key = key -> scene
        [] OTHER -> [key |-> key,
                     model |-> build(m.device, m.store, m.display, screen.metric, SelectedRegion)]

Show ==
  /\ phase = "polled" /\ ~options.headless
  /\ phase' = "key"
  /\ update_display_record(model, FALSE)
  /\ scene' = Drawn(Displayed(model, FALSE))
  /\ UNCHANGED <<options, reads, sourceVars, recording, screen, keys, expired, exit, faults>>

NextView(view) ==
  CASE view = "telemetry" -> "memory" [] view = "memory" -> "audit" [] view = "audit" -> "telemetry"

\* what a key changes depends on the view it is pressed in
Pressed(key) ==
  CASE key = "m" -> [screen EXCEPT !.view = NextView(@)]
    [] key = "Tab" /\ screen.view = "memory" -> [screen EXCEPT !.metric = next_metric(@)]
    [] key = "Tab" /\ screen.view = "audit" -> [screen EXCEPT !.what_if = ~@]
    [] key = "p" /\ screen.view = "audit" -> [screen EXCEPT !.provenance = ~@]
    [] key \in {"Up", "Down"} /\ screen.view = "audit" ->
         [screen EXCEPT !.object = select_object(@, IF key = "Up" THEN -1 ELSE 1)]
    [] key \in {"Up", "Down"} /\ screen.view = "memory" ->
         [screen EXCEPT !.region =
            (@ + (IF key = "Up" THEN RegionCount - 1 ELSE 1)) % RegionCount]
    [] OTHER -> screen

Wait(next) ==
  /\ phase = "key" /\ phase' = next
  /\ UNCHANGED <<options, reads, sourceVars, model, held, recording, scene, expired, exit, faults>>

NoKey == Wait("top") /\ UNCHANGED <<screen, keys>>
Key(key) == Wait("top") /\ keys > 0 /\ keys' = keys - 1 /\ screen' = Pressed(key)
Quit == Wait("ending") /\ keys > 0 /\ keys' = keys - 1 /\ UNCHANGED screen

\* the duration is looked at before each turn of the screen
Top ==
  /\ phase = "top"
  /\ phase' = IF expired THEN "ending" ELSE "poll"
  /\ reads' = MAX_READS_PER_TICK
  /\ UNCHANGED <<options, sourceVars, model, held, recording, screenVars, expired, exit, faults>>

\* without a screen the command ends with the source, with the file or with the duration
Headless ==
  /\ phase = "polled" /\ options.headless
  /\ IF input.state = "broken" THEN Leave("source")
     ELSE /\ phase' = IF input.state = "finished" \/ expired THEN "ending" ELSE "poll"
          /\ UNCHANGED exit
  /\ reads' = MAX_READS_PER_TICK
  /\ UNCHANGED <<options, sourceVars, model, held, recording, screenVars, expired, faults>>

\* mutant: a recording that failed is not reported
FinishQuietly == "ok"
finish_recording == IF recorder = "failed" THEN "recording" ELSE "ok"

End ==
  /\ phase = "ending"
  /\ Leave(IF finish_recording = "ok" /\ options.headless /\ ~decoded.header
             THEN "no header" ELSE finish_recording)
  /\ UNCHANGED <<options, reads, sourceVars, model, held, recording, screenVars, expired, faults>>

health ==
  CASE input.state = "broken" -> "source error"
    [] input.state # "broken" /\ recorder = "failed" -> "record error"
    [] input.state = "finished" /\ recorder # "failed" ->
         IF decoded.accepted THEN "replay done" ELSE "replay invalid"
    [] OTHER ->
         CASE input.next = 1 -> "waiting"
           [] input.next > 1 /\ "byte" \notin fresh -> "stale"
           [] input.next > 1 /\ {"byte", "frame"} \subseteq fresh ->
                IF Live THEN "live" ELSE "replay running"
           [] OTHER -> IF "reject" \in fresh THEN "rejecting" ELSE "text only"

-----------------------------------------------------------------------------
(* Time, and another program that writes where this one is about to. *)

Running == phase \notin {"args", "audit", "over"}
Outside == UNCHANGED <<options, phase, reads, input, decoded, model, recorder, screenVars, exit, faults>>

HoldPasses == Running /\ held /\ held' = FALSE /\ Outside /\ UNCHANGED <<fresh, capture, expired>>
TwoSeconds == Running /\ fresh # {} /\ fresh' = {} /\ Outside /\ UNCHANGED <<held, capture, expired>>
Expire ==
  /\ Running /\ options.duration /\ ~expired /\ expired' = TRUE
  /\ Outside /\ UNCHANGED <<held, fresh, capture>>
OtherWrites ==
  /\ Running /\ options.rival /\ record_path /\ capture = Nothing
  /\ capture' = [by |-> "other", bytes |-> <<>>]
  /\ Outside /\ UNCHANGED <<held, fresh, expired>>

Loop ==
  \/ Start \/ Skip \/ ReadBytes \/ ReadEmpty \/ ReadEof \/ ReadError
  \/ Show \/ NoKey \/ Quit \/ Top \/ Headless \/ End
  \/ \E key \in {"m", "Tab", "p", "Up", "Down"} : Key(key)

Environment == HoldPasses \/ TwoSeconds \/ Expire \/ OtherWrites
-----------------------------------------------------------------------------
(* What the viewer promises. *)

ViewerType ==
  /\ phase \in Phases
  /\ reads \in 0..MAX_READS_PER_TICK
  /\ input.state \in {"closed", "open", "broken", "finished"}
  /\ input.next \in 1..(Len(Chunks) + 1)
  /\ recorder \in {"none", "open", "failed"}
  /\ screen.region \in 0..(RegionCount - 1)
  /\ screen.object \in 0..Larger(0, Len(objects_shown) - 1)
  /\ exit \in {Nothing, "refused", "source", "recording", "no header", "ok"}
  /\ exit # Nothing <=> phase = "over"

\* The capture is the stream: every byte that was read is in it, in order, from the first byte on,
\* for as long as no write has failed; and after one has, what is there is still the beginning of
\* the stream with at most a torn end (ingest, open_recorder).
RecordingIsWhole ==
  LET read == [i \in 1..(input.next - 1) |-> i]
      mine == capture # Nothing /\ capture.by = "viewer"
  IN  /\ record_path /\ recorder # "failed" /\ read # <<>> => mine /\ capture.bytes = read
      /\ mine => \E n \in 0..Len(read) :
                   capture.bytes \in {SubSeq(read, 1, n), Append(SubSeq(read, 1, n), 0)}
      /\ mine => record_path

\* A file that is there when the first byte arrives is never written to, whoever created it and
\* however long after its name was chosen; and a capture only grows (create_new in open_recorder).
OthersKept ==
  [][capture # Nothing =>
       /\ capture' # Nothing /\ capture'.by = capture.by
       /\ IsPrefix(capture.bytes, capture'.bytes)
       /\ capture.by = "other" => capture' = capture]_viewerVars

\* the stream so far: [header] is the one that last changed the arenas or the number of models,
\* or Nothing, and [records] are those that came after it
Seen == FlattenSeq([i \in 1..(input.next - 1) |-> Chunks[i].events]
                     \o (IF input.state = "finished" THEN <<options.stream.final.events>> ELSE <<>>))
Headers(events) == {i \in DOMAIN events : events[i].kind = "header"}
Changes(events, i) ==
  LET before == {j \in Headers(events) : j < i}
      last == events[Max(before)].header
  IN  before # {} => \/ last.arenas # events[i].header.arenas
                     \/ last.models # events[i].header.models
Began(events) == Max({0} \cup {i \in Headers(events) : Changes(events, i)})
Sections(events) ==
  LET began == Began(events)
      later == Selected(SubSeq(events, began + 1, Len(events)), LAMBDA e : e.kind = "record")
  IN  [header |-> IF began = 0 THEN Nothing ELSE events[began].header,
       records |-> [i \in DOMAIN later |-> later[i].record]]

RegionIn(header, id) ==
  IF header # Nothing /\ id \in DOMAIN header.arenas THEN containing_region(header.arenas[id])
  ELSE Nothing

\* a record that was measured under the conditions of a cell
Measures(record, key, header) ==
  /\ key.workload = record.model /\ key.placement = record.placement
  /\ IF record.target = 0 THEN key.requester = Nothing
     ELSE key.requester = [id |-> requester_id, target |-> record.target,
                           region |-> RegionIn(header, record.target),
                           working_set |-> record.footprint]

\* Every sample in the store was measured under the placements the stream last announced, in the
\* cell of its own conditions, newest last and within the window; the store lists each cell once,
\* and the newest record is the latest one and has its cell, whatever had to be given up for it.
CellsFollowTheHeader ==
  LET store == model.store
      now == Sections(Seen)
      Mine(key) == Selected(now.records, LAMBDA r : Measures(r, key, now.header))
      Execs(samples) == [i \in DOMAIN samples |-> samples[i].exec]
      newest == Last(now.records)
  IN  /\ \A key \in DOMAIN store.cells :
           /\ Len(store.cells[key]) \in 1..SAMPLE_LIMIT
           /\ IsSuffix(Execs(store.cells[key]), Execs(Mine(key)))
      /\ ToSet(store.order) = DOMAIN store.cells
      /\ Len(store.order) = Cardinality(DOMAIN store.cells)
      /\ Len(store.order) <= CELL_LIMIT
      /\ IF now.records = <<>> THEN store.latest = Nothing
         ELSE /\ store.latest.sequence = newest.seq
              /\ \E key \in DOMAIN store.cells : newest \in ToSet(Mine(key))

\* What is on the screen belongs to the placements the stream last announced: the displayed record
\* came after them and lies where they say, and the memory view shows those placements in their
\* regions, with the path and the place of the displayed record.  (A board that restarts under the
\* same header repeats its numbers, and the view then may be of the record that had the number first.)
ScreenIsOfThisHeader ==
  LET display == model.display
      now == Sections(Seen)
      records == now.records
      ids == DOMAIN now.header.arenas
      repeats == \E i, j \in DOMAIN records : i # j /\ records[i].seq = records[j].seq
      shown == scene.model.regions
  IN  /\ display # Nothing =>
           /\ \E r \in ToSet(records) : r.seq = display.measurement.sequence
           /\ display.here = RegionIn(now.header, display.measurement.placement)
      /\ phase = "key" /\ screen.view = "memory" /\ now.header # Nothing =>
           /\ \A name \in DOMAIN shown :
                DOMAIN shown[name].placements = {id \in ids : RegionIn(now.header, id) = name}
           /\ display # Nothing /\ ~repeats =>
                /\ scene.model.flow = display.measurement.requester
                /\ \A name \in DOMAIN shown, id \in ids :
                     id \in DOMAIN shown[name].placements =>
                       shown[name].placements[id].active = (id = display.measurement.placement)

\* what the decoder has made of what was read
ReadDeltas ==
  {Chunks[i] : i \in 1..(input.next - 1)}
    \cup (IF input.state = "finished" THEN {options.stream.final} ELSE {})

\* A command that ends well did what it was asked: what it read is recorded whole, and without a
\* screen it saw a header and, for a file, the end of it.  A replay is called done only when the
\* whole file was read and the recording of it stands.
ExitTellsTheTruth ==
  LET recorded == record_path /\ input.next > 1 =>
                    capture = [by |-> "viewer", bytes |-> [i \in 1..(input.next - 1) |-> i]]
      whole == input.next > Len(Chunks)
      header == \E delta \in ReadDeltas : \E e \in ToSet(delta.events) : e.kind = "header"
  IN  /\ exit = "ok" => recorded
      /\ exit = "ok" /\ options.headless => header /\ (~Live => whole)
      /\ exit = "no header" => ~header
      /\ health = "replay done" => recorded /\ whole

\* A command without a screen ends, and a replay on a screen comes to its end or breaks.
ReplayEnds ==
  /\ phase # "args" /\ options.headless ~> phase = "over"
  /\ phase = "top" /\ ~Live ~> phase = "over" \/ input.state \in {"finished", "broken"}

\* On a screen, the newest record does not wait for ever behind the one being held.
LatestIsShown ==
  (phase = "top" /\ model.store.latest # Nothing) ~>
    \/ phase = "over" \/ model.store.latest = Nothing
    \/ /\ model.display # Nothing
       /\ model.display.measurement.sequence = model.store.latest.sequence
===============================================================================
