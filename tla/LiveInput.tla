------------------------------- MODULE LiveInput -------------------------------
(***************************************************************************)
(* The accelerometer as the input of the classifier.  The IMU thread       *)
(* stores a sample in a ring, the measurement thread copies the ring out   *)
(* when the button has chosen the live input, and the exporter prints what *)
(* the last inference said.  The IMU thread runs above the measurement     *)
(* thread, and that above the exporter; each preempts the one below it     *)
(* between any two of its steps and is done before that goes on.           *)
(***************************************************************************)
EXTENDS Integers, FiniteSets

CONSTANTS
  STEPS,           \* LAXITY_SENSOR_STEPS
  AXES,            \* LAXITY_SENSOR_AXES
  MaxSamples,      \* bound of the model on the samples taken
  MaxPresses,      \* bound of the model on the presses of the button
  SamplesPerCopy   \* the samples that may come during one copy: a copy takes microseconds

Slot == 0 .. STEPS - 1
Axis == 0 .. AXES - 1

VARIABLES
  win,        \* s_win: the number of the sample in each slot, 0 before the first
  head,       \* s_head
  count,      \* s_count
  mode,       \* laxity_input_mode
  presses,    \* how often the button has been pressed
  at,         \* where the measurement thread is in laxity_infer
  dst,        \* laxity_live_window: the sample each value is of
  during,     \* samples taken since the copy under way began
  fed,        \* what the model was last given
  live,       \* laxity_live: rc and whether the class is the golden one; history: of which input
  mismatches, \* laxity_live.mismatches
  seen,       \* the exporter: the class it has read for its line, or none
  printed     \* the verdict of its last line; history: the input the class was of

sensor == <<win, head, count, during>>
infers == <<mode, presses, at, dst, fed, live, mismatches>>
exporter == <<seen, printed>>
vars == <<sensor, infers, exporter>>

-----------------------------------------------------------------------------
(* The IMU thread.                                                          *)

Copying == at.step \in {"locate", "load"}

\* qos_sensors_sample, when the part has a sample and the rate allows it
Sample ==
  /\ count < MaxSamples
  /\ Copying => during < SamplesPerCopy
  /\ win' = [win EXCEPT ![head] = count + 1]
  /\ head' = (head + 1) % STEPS
  /\ count' = count + 1
  /\ during' = IF Copying THEN during + 1 ELSE during
  /\ UNCHANGED <<infers, exporter>>

\* mutant: the last slot is taken for filled
ReadyEarly == count >= STEPS - 1

\* qos_sensors_ready
Ready == count >= STEPS

-----------------------------------------------------------------------------
(* The measurement thread: laxity_poll_button and one inference.            *)

Asleep == [step |-> "asleep", i |-> 0, src |-> 0, axis |-> 0]
Toggled == IF mode = "golden" THEN "live" ELSE "golden"

Button ==
  \/ UNCHANGED <<mode, presses>>
  \/ presses < MaxPresses /\ presses' = presses + 1 /\ mode' = Toggled

\* an iteration whose victim is not the model leaves the class as it is
OtherVictim ==
  /\ at = Asleep /\ Button
  /\ live' = [live EXCEPT !.rc = 0]
  /\ UNCHANGED <<sensor, at, dst, fed, mismatches, exporter>>

\* live mode reaches the model once a whole window is there
BeginInfer ==
  /\ at = Asleep /\ Button
  /\ IF mode' = "live" /\ Ready
     THEN at' = [Asleep EXCEPT !.step = "locate"] /\ during' = 0 /\ UNCHANGED fed
     ELSE at' = [Asleep EXCEPT !.step = "run"] /\ fed' = "golden" /\ UNCHANGED during
  /\ UNCHANGED <<win, head, count, dst, live, mismatches, exporter>>

\* qos_sensors_window: the oldest slot first, as the ring is at this step of the loop
Locate ==
  /\ at.step = "locate"
  /\ at' = [at EXCEPT !.step = "load", !.src = (head + at.i) % STEPS, !.axis = 0]
  /\ UNCHANGED <<sensor, mode, presses, dst, fed, live, mismatches, exporter>>

Load ==
  /\ at.step = "load"
  /\ dst' = [dst EXCEPT ![at.i][at.axis] = win[at.src]]
  /\ IF at.axis + 1 < AXES
     THEN at' = [at EXCEPT !.axis = at.axis + 1] /\ UNCHANGED fed
     ELSE IF at.i + 1 < STEPS
     THEN at' = [Asleep EXCEPT !.step = "locate", !.i = at.i + 1] /\ UNCHANGED fed
     ELSE at' = [Asleep EXCEPT !.step = "run"] /\ fed' = "live"
  /\ UNCHANGED <<sensor, mode, presses, live, mismatches, exporter>>

\* the inference may fail; a class is counted against the golden one in golden mode only
Run ==
  /\ at.step = "run"
  /\ at' = Asleep
  /\ \/ live' = [live EXCEPT !.rc = -4] /\ UNCHANGED mismatches
     \/ \E right \in BOOLEAN :
          /\ live' = [rc |-> 0, right |-> right, from |-> fed]
          /\ mismatches' = IF mode = "golden" /\ ~right THEN 1 ELSE mismatches
  /\ UNCHANGED <<sensor, mode, presses, dst, fed, exporter>>

-----------------------------------------------------------------------------
(* The exporter, which runs while the measurement thread sleeps.            *)

ReadClass ==
  /\ at = Asleep /\ seen.from = "nothing"
  /\ seen' = [right |-> live.right, from |-> live.from]
  /\ UNCHANGED <<sensor, infers, printed>>

Verdict == IF mode = "golden" \/ ~Ready
           THEN IF live.rc = 0 /\ seen.right THEN "MATCH" ELSE "MISMATCH"
           ELSE "live-no-verdict"

NotRead == [right |-> FALSE, from |-> "nothing"]

PrintLine ==
  /\ at = Asleep /\ seen.from # "nothing"
  /\ printed' = [verdict |-> Verdict, from |-> seen.from]
  /\ seen' = NotRead
  /\ UNCHANGED <<sensor, infers>>

Init ==
  /\ win = [s \in Slot |-> 0] /\ head = 0 /\ count = 0 /\ during = 0
  /\ mode = "golden" /\ presses = 0 /\ at = Asleep
  /\ dst = [i \in Slot |-> [a \in Axis |-> 0]] /\ fed = "none"
  /\ live = [rc |-> 0, right |-> FALSE, from |-> "none"] /\ mismatches = 0
  /\ seen = NotRead /\ printed = [verdict |-> "none", from |-> "none"]

Next == Sample \/ OtherVictim \/ BeginInfer \/ Locate \/ Load \/ Run \/ ReadClass \/ PrintLine

Spec == Init /\ [][Next]_vars

-----------------------------------------------------------------------------
\* What the model is given in live mode is samples, never the zeros of a window that
\* has not filled: consecutive samples, the oldest first, when no sample came during
\* the copy, and otherwise all of one stretch no longer than a window and the samples
\* that came (app_threadx.c:1043-1048, sensors.c:95-110).
WindowIsSamples ==
  at.step = "run" /\ fed = "live" =>
    /\ \A i, j \in Slot, a, b \in Axis :
         dst[i][a] > 0 /\ dst[i][a] - dst[j][b] < STEPS + SamplesPerCopy
    /\ during = 0 => \A i \in Slot, a \in Axis : dst[i][a] = dst[0][0] + i

-----------------------------------------------------------------------------
(* What comments of the code say, and threads that preempt each other do not do. *)

\* "The newest window, oldest sample first" (sensors.h:24), also when a sample came
\* during the copy.
WindowInOrder ==
  at.step = "run" /\ fed = "live" => \A i \in Slot, a \in Axis : dst[i][a] = dst[0][0] + i

\* The exporter says MATCH of the golden window only (app_threadx.c:1582-1583).
MatchIsOfGolden == printed.verdict = "MATCH" => printed.from = "golden"
=============================================================================
