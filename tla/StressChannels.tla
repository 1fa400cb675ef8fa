--------------------------- MODULE StressChannels ---------------------------
(***************************************************************************)
(* The driver of the stress aggressor, bench/aggressors/gpdma_stress.c.    *)
(*                                                                         *)
(* A driver d is a record of the statics of the file and of the state of   *)
(* the four GPDMA channels behind the HAL.  The measurement thread calls   *)
(* several functions of the driver in one step, so each function is an     *)
(* operator from a driver to the set of drivers it may return: one for     *)
(* every HAL call of it that the hardware may refuse.                      *)
(***************************************************************************)
EXTENDS StressSweeps

Channel == 1 .. 4          \* QOS_STRESS_MAX_CHANNELS, GPDMA1 channels 12 to 15
StaticNodes == 0           \* s_node_static; a region is the page in that region

NoJob == [config |-> ZeroConfig, region |-> 0, nodes |-> StaticNodes]
Job(c, r, nodes) == [config |-> c, region |-> r, nodes |-> nodes]

(* The handle of a channel as the HAL keeps it: ready; looping over its     *)
(* circular node; executing one block; finished with that block and not yet *)
(* settled; stuck, after an abort that was not acknowledged in time; or     *)
(* dead, after an abort of a finished block.  Nothing starts either of the  *)
(* last two, and whether a stuck channel still moves data is not known.     *)
ChannelState == {"ready", "loop", "block", "finished", "stuck", "dead"}
Ready == [state |-> "ready", job |-> NoJob]
Stuck == [state |-> "stuck", job |-> NoJob]

NewDriver ==
  [chan |-> [i \in Channel |-> Ready], active |-> 0, running |-> FALSE,
   mode |-> "circular", timer |-> 0]

Traffic(d) == {i \in Channel : d.chan[i].state = "loop"}

-----------------------------------------------------------------------------
(* The HAL, as the comments of the driver describe it.                      *)

\* Aborting suspends the channel and waits for the acknowledge, which may be late;
\* one that has finished never sends it.
Abort(ch, acknowledged) ==
  IF ch.state = "finished" THEN [ch EXCEPT !.state = "dead"]
  ELSE IF acknowledged THEN Ready ELSE Stuck

\* HAL_DMAEx_List_Init of the first k channels, which disables and reinitialises them
Reinitialised(d, k, mode) ==
  [d EXCEPT !.mode = mode, !.chan = [i \in Channel |-> IF i <= k THEN Ready ELSE d.chan[i]]]

-----------------------------------------------------------------------------
\* mutant: the last channel that was counted is left running
StopShort(d) ==
  {[chan |-> [i \in Channel |-> IF i < d.active THEN Abort(d.chan[i], i \in acked)
                                                ELSE d.chan[i]],
    active |-> 0, running |-> FALSE, mode |-> d.mode, timer |-> 0] :
     acked \in SUBSET (1 .. d.active)}

(* qos_stress_stop: the channels that were counted, their queues, the timer. *)
(* The result of an abort is not looked at: the count goes to zero also when *)
(* some of the channels did not acknowledge theirs.                          *)
Stop(d) ==
  {[chan |-> [i \in Channel |-> IF i <= d.active THEN Abort(d.chan[i], i \in acked)
                                                ELSE d.chan[i]],
    active |-> 0, running |-> FALSE, mode |-> d.mode, timer |-> 0] :
     acked \in SUBSET (1 .. d.active)}

\* mutant: the first channel keeps what the timing mode left in it
ReinitialisedButFirst(d, mode) ==
  [d EXCEPT !.mode = mode, !.chan = [i \in Channel |-> IF i = 1 THEN d.chan[i] ELSE Ready]]

(* ensure_ll_mode: every channel in the mode that was asked for, or, when    *)
(* one of them is refused, only those before it and the mode as it was.      *)
(* Such a channel may refuse the queue of the mode the driver still has,     *)
(* which is among the refusals of a start.                                   *)
InMode(d, mode) == IF d.mode = mode THEN d ELSE Reinitialised(d, 4, mode)
InModeRefused(d, mode) == IF d.mode = mode THEN {} ELSE {Reinitialised(d, k, d.mode) : k \in 0 .. 3}

\* the timer started, and after it the first k channels, each counted as it goes
Looping(d, k, c, job) ==
  [d EXCEPT !.chan = [i \in Channel |-> IF i <= k THEN [state |-> "loop", job |-> job]
                                                  ELSE d.chan[i]],
            !.active = k, !.timer = IF Gated(c) THEN c.hz ELSE 0]

\* mutant: a channel that is refused ends the start and stops none of those before it
StartedNoFail(d, c, job) ==
  LET able == {k \in 0 .. c.channels : \A i \in 1 .. k : d.chan[i].state = "ready"}
  IN  {Looping(d, k, c, job) : k \in able \ {c.channels}} \cup
      {[Looping(d, k, c, job) EXCEPT !.running = TRUE] : k \in able \cap {c.channels}}

\* The loop of qos_stress_start over the channels.  Any HAL call for a channel may be
\* refused, and those of a channel that is not ready are; the channels before it are
\* stopped then, and their aborts may fail in turn.
Started(d, c, job) ==
  LET able == {k \in 0 .. c.channels : \A i \in 1 .. k : d.chan[i].state = "ready"}
  IN  (UNION {Stop(Looping(d, k, c, job)) : k \in able \ {c.channels}}) \cup
      {[Looping(d, k, c, job) EXCEPT !.running = TRUE] : k \in able \cap {c.channels}}

(* qos_stress_start.  A malformed request is turned away before the stop and *)
(* leaves the channels as they are.                                          *)
Start(d, c, r, nodes) ==
  IF ~Startable(c) THEN {d}
  ELSE UNION {InModeRefused(s, "circular") \cup {InMode(s, "circular")} \cup
              (IF FitsSweep(c, r) THEN Started(InMode(s, "circular"), c, Job(c, r, nodes)) ELSE {}) :
                s \in Stop(d)}

\* what a block that was fired leaves in the first channel: its flag never rose
\* within the poll, or rose and did not settle
Left(d, state, job) == [d EXCEPT !.chan[1] = [state |-> state, job |-> job]]
Fired(d, job) == {Left(d, "block", job), Left(d, "finished", job)}

\* mutant: the single block is counted as a running channel
OnceCounted(d, c, r, nodes) ==
  IF ~WellFormed(c) THEN {d}
  ELSE UNION {LET normal == InMode(s, "normal")
                  Counted == {[e EXCEPT !.active = 1] : e \in Fired(normal, Job(c, r, nodes))}
              IN  InModeRefused(s, "normal") \cup {normal} \cup
                  (IF FitsOnce(c, r) /\ normal.chan[1].state = "ready" THEN Counted ELSE {}) :
                s \in IF d.running THEN Stop(d) ELSE {d}}

\* mutant: the channels a sweep left running are not torn down
OnceBeside(d, c, r, nodes) ==
  IF ~WellFormed(c) \/ ~FitsOnce(c, r) THEN {d}
  ELSE {d, [d EXCEPT !.mode = "normal"]}

(* qos_stress_once_arm, fire, the poll of pending, and settle.  Running     *)
(* sweep channels are stopped first, and the channel count stays zero.  A   *)
(* block that was refused or settled leaves the channel as it was.          *)
Once(d, c, r, nodes) ==
  IF ~WellFormed(c) THEN {d}
  ELSE UNION {LET normal == InMode(s, "normal")
              IN  InModeRefused(s, "normal") \cup {normal} \cup
                  (IF FitsOnce(c, r) /\ normal.chan[1].state = "ready"
                   THEN Fired(normal, Job(c, r, nodes)) ELSE {}) :
                s \in IF d.running THEN Stop(d) ELSE {d}}

-----------------------------------------------------------------------------
JobType ==
  {NoJob} \cup [config : ConfigType, region : StressRegion, nodes : {StaticNodes} \cup StressRegion]

DriverType ==
  [chan : [Channel -> [state : ChannelState, job : JobType]],
   active : 0 .. 4, running : BOOLEAN, mode : {"circular", "normal"}, timer : Int]
=============================================================================
