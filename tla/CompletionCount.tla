---------------------------- MODULE CompletionCount ----------------------------
(***************************************************************************)
(* qos_stress_completions: the completions of the stress channels, counted *)
(* by whoever asks.  The measurement thread asks once per record and the   *)
(* exporter once per status line.  The measurement thread runs above the   *)
(* exporter: its call interrupts the exporter's at any step of it, and is  *)
(* never interrupted by it.                                                *)
(***************************************************************************)
EXTENDS Integers, FiniteSets

CONSTANTS
  Channels,         \* s_active, the channels that are running
  MaxCompletions    \* bound of the model on the blocks the channels complete

Channel == 1 .. Channels

VARIABLES
  flag,        \* the channels whose transfer complete flag is set
  count,       \* s_completions
  at,          \* the exporter: out of the function, or at a step of its loop
  record,      \* the count the last record carries, and the one before
  completed,   \* history: blocks completed
  coalesced,   \* history: those among them that found their flag set still
  moved,       \* history: a channel had completed when the last record was taken
  met          \* history: records that took a flag while the exporter was in the function

vars == <<flag, count, at, record, completed, coalesced, moved, met>>

Out == [step |-> "out", i |-> 1, loaded |-> 0]

\* a channel comes to the end of its node and starts it again
Complete(i) ==
  /\ completed < MaxCompletions
  /\ completed' = completed + 1
  /\ flag' = flag \cup {i}
  /\ coalesced' = coalesced + (IF i \in flag THEN 1 ELSE 0)
  /\ UNCHANGED <<count, at, record, moved, met>>

-----------------------------------------------------------------------------
\* The measurement thread takes a record.  Its call is one step: what completes
\* during it might as well have completed before it or after it.
TakeRecord ==
  /\ count' = count + Cardinality(flag)
  /\ flag' = {}
  /\ record' = [last |-> count', before |-> record.last]
  /\ moved' = (flag # {})
  /\ met' = met + (IF at # Out /\ flag # {} THEN 1 ELSE 0)
  /\ UNCHANGED <<at, completed, coalesced>>

-----------------------------------------------------------------------------
(* The exporter, one access to the flag or the counter at a time.           *)

Enter ==
  /\ at = Out
  /\ at' = [Out EXCEPT !.step = "test"]
  /\ UNCHANGED <<flag, count, record, completed, coalesced, moved, met>>

\* behind the channel at i
Behind == IF at.i < Channels THEN [Out EXCEPT !.step = "test", !.i = at.i + 1] ELSE Out

Test ==
  /\ at.step = "test"
  /\ at' = IF at.i \in flag THEN [at EXCEPT !.step = "clear"] ELSE Behind
  /\ UNCHANGED <<flag, count, record, completed, coalesced, moved, met>>

\* mutant: all the flags are cleared and one is counted
ClearAll ==
  /\ at.step = "clear"
  /\ flag' = {}
  /\ at' = [at EXCEPT !.step = "load"]
  /\ UNCHANGED <<count, record, completed, coalesced, moved, met>>

Clear ==
  /\ at.step = "clear"
  /\ flag' = flag \ {at.i}
  /\ at' = [at EXCEPT !.step = "load"]
  /\ UNCHANGED <<count, record, completed, coalesced, moved, met>>

Load ==
  /\ at.step = "load"
  /\ at' = [at EXCEPT !.step = "store", !.loaded = count]
  /\ UNCHANGED <<flag, count, record, completed, coalesced, moved, met>>

Store ==
  /\ at.step = "store"
  /\ count' = at.loaded + 1
  /\ at' = Behind
  /\ UNCHANGED <<flag, record, completed, coalesced, moved, met>>

Init ==
  /\ flag = {} /\ count = 0 /\ at = Out /\ record = [last |-> 0, before |-> 0]
  /\ completed = 0 /\ coalesced = 0 /\ moved = FALSE /\ met = 0

Next == (\E i \in Channel : Complete(i)) \/ TakeRecord \/ Enter \/ Test \/ Clear \/ Load \/ Store

Spec == Init /\ [][Next]_vars

-----------------------------------------------------------------------------
\* a completion whose flag is cleared and that is not in the count yet
Pending == IF at.step \in {"load", "store"} THEN 1 ELSE 0

\* The count is not exact, since nothing keeps the two calls apart, but a record that
\* takes a flag in the middle of the exporter's call is all that can put it off, and
\* not by much: such a record makes it too high by at most the one completion the
\* exporter had seen and counts as well, or too low by at most what it added itself,
\* one for each channel.  With no such record every completion that set a flag is in
\* the count, or its flag is set, or the exporter is about to add it (gpdma_stress.c:290-299).
OffByMeetings ==
  LET counted == count + Cardinality(flag) + Pending
      visible == completed - coalesced
  IN  counted - met <= visible /\ visible <= counted + Channels * met

-----------------------------------------------------------------------------
(* What a comment of the code says, and a call that is interrupted does not do.  *)

\* A count that does not advance between two records is of channels that never
\* started (gpdma_stress.h:72-73).
AdvancesWhileRunning == moved => record.last > record.before
=============================================================================
