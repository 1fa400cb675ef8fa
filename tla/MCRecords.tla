------------------------------- MODULE MCRecords -------------------------------
(***************************************************************************)
(* The two ends of a record on the board: what the threads around the      *)
(* measurement thread put into it, and the ring that carries it to the     *)
(* exporter.  The ring has four slots and three bit words, so that indices *)
(* and sequence numbers wrap within the bound on the pushes, and a drain   *)
(* buffer for two records, so that a full ring takes two batches and a     *)
(* batch leaves records behind.  Ring and threads share no state either: a *)
(* behaviour is of one end, and the other stands still.                    *)
(***************************************************************************)
EXTENDS TelemetryRing, Acquisition

VARIABLE end

MCInit == /\ Init /\ AcqInit
          /\ end \in {"ring", "threads"}
          /\ end = "ring" => part = "microphone"

MCNext ==
  \/ end = "ring" /\ Next /\ UNCHANGED <<end, acqVars>>
  \/ end = "threads" /\ AcqNext /\ UNCHANGED <<end, vars>>

\* the fairness of the ring's FairSpec: the exporter drains
MCSpec == /\ MCInit /\ [][MCNext]_<<end, vars, acqVars>>
          /\ WF_vars(end = "ring" /\ Drain /\ UNCHANGED <<end, acqVars>>)
=============================================================================
