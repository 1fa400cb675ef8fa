------------------------------- MODULE Microphone -------------------------------
(***************************************************************************)
(* The microphone: the DMA fills the two halves of a buffer for ever and   *)
(* marks each with a sticky flag, and the audio thread polls the flags     *)
(* every tick.  Nothing interrupts on a half.  The thread runs above the   *)
(* measurement thread and below those of the network, so it preempts a     *)
(* measured window and may itself be kept off the core at any step.        *)
(***************************************************************************)
EXTENDS Integers, FiniteSets

CONSTANT MaxHalves   \* bound of the model on the halves that are filled

Flag == {"HT", "TC"}   \* half transfer: the first half is full; transfer complete: the second

VARIABLES
  filled,   \* halves the DMA has filled
  flag,     \* the flags that are set
  at,       \* where the audio thread is: asleep, or before a test, a clear or a fold
  buffers,  \* s_buffers, the halves folded
  peakOf,   \* the half s_peak was computed from, 0 before the first
  window,   \* the measurement thread is inside a measured window
  since,    \* history: halves filled since the poll under way, or the last one, began
  late,     \* history: two halves were filled between the beginnings of two polls
  lost      \* history: halves whose flag was still set from the one before

vars == <<filled, flag, at, buffers, peakOf, window, since, late, lost>>

Asleep == [step |-> "asleep", of |-> "HT"]
At(step, of) == [step |-> step, of |-> of]

HalfOf(n) == IF n % 2 = 1 THEN "HT" ELSE "TC"

\* the last half that was filled and is marked by f
LatestOf(f) == IF HalfOf(filled) = f THEN filled ELSE filled - 1

-----------------------------------------------------------------------------
(* The hardware, and the thread below.                                      *)

Fill ==
  /\ filled < MaxHalves
  /\ filled' = filled + 1
  /\ flag' = flag \cup {HalfOf(filled')}
  /\ lost' = lost + (IF HalfOf(filled') \in flag THEN 1 ELSE 0)
  /\ since' = since + 1
  /\ late' = (late \/ since' >= 2)
  /\ UNCHANGED <<at, buffers, peakOf, window>>

\* the cycle counter is read before the victim and after it; it runs when no thread above it does
MeasuredWindow ==
  /\ at = Asleep
  /\ window' = ~window
  /\ UNCHANGED <<filled, flag, at, buffers, peakOf, since, late, lost>>

-----------------------------------------------------------------------------
(* qos_audio_poll.                                                          *)

Wake ==
  /\ at = Asleep
  /\ at' = At("test", "HT")
  /\ since' = 0
  /\ UNCHANGED <<filled, flag, buffers, peakOf, window, late, lost>>

\* where the poll goes on behind the test of f
After(f) == IF f = "HT" THEN At("test", "TC") ELSE Asleep

Test ==
  /\ at.step = "test"
  /\ at' = IF at.of \in flag THEN At("clear", at.of) ELSE After(at.of)
  /\ UNCHANGED <<filled, flag, buffers, peakOf, window, since, late, lost>>

\* mutant: the flag stays set
ClearNothing ==
  /\ at.step = "clear"
  /\ at' = At("fold", at.of)
  /\ UNCHANGED <<filled, flag, buffers, peakOf, window, since, late, lost>>

Clear ==
  /\ at.step = "clear"
  /\ flag' = flag \ {at.of}
  /\ at' = At("fold", at.of)
  /\ UNCHANGED <<filled, buffers, peakOf, window, since, late, lost>>

\* laxity_audio_level
Fold ==
  /\ at.step = "fold"
  /\ peakOf' = LatestOf(at.of)
  /\ buffers' = buffers + 1
  /\ at' = After(at.of)
  /\ UNCHANGED <<filled, flag, window, since, late, lost>>

Init ==
  /\ filled = 0 /\ flag = {} /\ at = Asleep
  /\ buffers = 0 /\ peakOf = 0 /\ window = FALSE
  /\ since = 0 /\ late = FALSE /\ lost = 0

Poll == Wake \/ Test \/ Clear \/ Fold

Next == Fill \/ MeasuredWindow \/ Poll

Spec == Init /\ [][Next]_vars

-----------------------------------------------------------------------------
\* Every half is counted once, is still to be counted, or was overwritten before
\* anybody looked: what the record carries as audio_halves can be held against the
\* elapsed time.  A half is overwritten only if two were filled between the beginnings
\* of two polls, wherever a poll is kept off the core (app_threadx.c:74, 1293, 1512).
FoldsAreHalves ==
  /\ buffers + lost + Cardinality(flag) + (IF at.step = "fold" THEN 1 ELSE 0) = filled
  /\ lost > 0 => late

-----------------------------------------------------------------------------
(* What comments of the code say, and a thread that is preempted, or preempts,   *)
(* does not do.                                                                  *)

\* The peak is the "largest absolute sample in the last completed half"
\* (audio.h:41): a poll that finds both flags folds the first half before the second,
\* whichever of them was the last.
PeakIsOfLastHalf == at = Asleep /\ flag = {} => peakOf = filled

\* The poll is "safe to call from outside a measured window only" (audio.h:33, and
\* audio.c:62): the audio thread preempts the measurement thread.
OutsideWindows == at.step = "fold" => ~window
=============================================================================
