---------------------------- MODULE BestEffortLog ----------------------------
(***************************************************************************)
(* What runtime/telemetry.c promises, with no ring in it: a log of the     *)
(* records that were offered in order, of which some were refused because  *)
(* the log already held Capacity undelivered records, and of which the     *)
(* accepted ones are delivered in order, once each, at most Batch at a     *)
(* time.  A record is the number of the offer that carried it.             *)
(***************************************************************************)
EXTENDS Integers, Sequences

CONSTANTS Capacity,  \* undelivered records the log holds
          Batch      \* records one delivery can carry

VARIABLES offered,   \* how many records have been offered since the last clear
          accepted,  \* the offers that were accepted, oldest first
          delivered  \* how many of the accepted ones have been delivered

vars == <<offered, accepted, delivered>>

Init ==
  /\ offered = 0
  /\ accepted = <<>>
  /\ delivered = 0

Backlog == Len(accepted) - delivered

\* the log may refuse a record only when it is full
Accept ==
  /\ Backlog < Capacity
  /\ accepted' = Append(accepted, offered)
  /\ offered' = offered + 1
  /\ UNCHANGED delivered

Refuse ==
  /\ Backlog = Capacity
  /\ offered' = offered + 1
  /\ UNCHANGED <<accepted, delivered>>

Deliver ==
  \E n \in 1 .. Batch :
    /\ n <= Backlog
    /\ delivered' = delivered + n
    /\ UNCHANGED <<offered, accepted>>

Clear ==
  /\ offered' = 0
  /\ accepted' = <<>>
  /\ delivered' = 0

Next == Accept \/ Refuse \/ Deliver \/ Clear

Spec == Init /\ [][Next]_vars
=============================================================================
