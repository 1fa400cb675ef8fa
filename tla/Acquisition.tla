------------------------------ MODULE Acquisition ------------------------------
(***************************************************************************)
(* What a record carries of the threads around the measurement thread: the *)
(* halves of the microphone and its level, the window of the live input,   *)
(* and the completions of the stress channels.  The three share no state,  *)
(* so a behaviour is of one of them, the part it begins with, and the      *)
(* others stand still.                                                     *)
(***************************************************************************)
EXTENDS Integers

CONSTANTS MaxHalves, STEPS, AXES, MaxSamples, MaxPresses, SamplesPerCopy,
          Channels, MaxCompletions

\* the window has a step of at least one value; samples and channels are numbers of things
ASSUME WindowAssumption == STEPS \in Nat \ {0} /\ AXES \in Nat \ {0} /\ SamplesPerCopy \in Nat
ASSUME ChannelsAssumption == Channels \in Nat

VARIABLES
  part,
  filled, halfFlag, audioAt, buffers, peakOf, window, since, late, overwritten,
  win, oldest, samples, mode, presses, inferAt, dst, during, fed, live, mismatches, seen, printed,
  channelFlag, completions, exporterAt, record, completed, coalesced, moved, met

Mic == INSTANCE Microphone WITH flag <- halfFlag, at <- audioAt, lost <- overwritten
Live == INSTANCE LiveInput WITH head <- oldest, count <- samples, at <- inferAt
Stress == INSTANCE CompletionCount WITH
            flag <- channelFlag, count <- completions, at <- exporterAt

micVars == <<filled, halfFlag, audioAt, buffers, peakOf, window, since, late, overwritten>>
liveVars == <<win, oldest, samples, mode, presses, inferAt, dst, during, fed, live, mismatches,
              seen, printed>>
stressVars == <<channelFlag, completions, exporterAt, record, completed, coalesced, moved, met>>
acqVars == <<part, micVars, liveVars, stressVars>>

AcqInit == /\ part \in {"microphone", "live input", "completions"}
           /\ Mic!Init /\ Live!Init /\ Stress!Init

AcqNext ==
  \/ part = "microphone" /\ Mic!Next /\ UNCHANGED <<part, liveVars, stressVars>>
  \/ part = "live input" /\ Live!Next /\ UNCHANGED <<part, micVars, stressVars>>
  \/ part = "completions" /\ Stress!Next /\ UNCHANGED <<part, micVars, liveVars>>

AcqSpec == AcqInit /\ [][AcqNext]_acqVars

-----------------------------------------------------------------------------
\* Every half the microphone fills is counted once, waits, or was overwritten while
\* the poll was late (app_threadx.c:74, 1293, 1512).
FoldsAreHalves == Mic!FoldsAreHalves

\* The model is given samples of one stretch, in order when none came during the
\* copy (app_threadx.c:1043-1048, sensors.c:95-110).
WindowIsSamples == Live!WindowIsSamples

\* The count of completions is off by no more than the records that met the exporter's
\* call account for (gpdma_stress.c:290-299).
OffByMeetings == Stress!OffByMeetings

\* A count that does not advance is of channels that never started (gpdma_stress.h:72-73).
AdvancesWhileRunning == Stress!AdvancesWhileRunning

\* The window the model is given is the newest there was, oldest sample first
\* (sensors.h:24).
WindowInOrder == Live!WindowInOrder

\* MATCH is said of the golden window only (app_threadx.c:1582-1583).
MatchIsOfGolden == Live!MatchIsOfGolden
=============================================================================
