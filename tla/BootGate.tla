-------------------------------- MODULE BootGate --------------------------------
(***************************************************************************)
(* The boot of the firmware: the measurement thread brings everything up   *)
(* and puts the semaphore laxity_boot_done once, and the threads that wait *)
(* on it each take it and put it back before they run.                     *)
(***************************************************************************)
EXTENDS Naturals, FiniteSets

CONSTANT Priority   \* the priority of each thread behind the gate, 0 the most urgent

Waiters == DOMAIN Priority

ASSUME PriorityAssumption ==
  IsFiniteSet(Waiters) /\ "export" \in Waiters /\ \A t \in Waiters : Priority[t] \in Nat

VARIABLES
  count,    \* laxity_boot_done
  ready,    \* the measurement thread has put it
  thread    \* where each thread is: waiting, holding the count, or running

gate == <<count, ready, thread>>

AtReset == /\ count = 0
           /\ ready = FALSE
           /\ thread = [t \in Waiters |-> "waiting"]

\* the gate once every thread is through
AllRunning == /\ count = 1
              /\ ready = TRUE
              /\ thread = [t \in Waiters |-> "running"]

\* what a reset of the board does to the gate
GateReset == /\ count' = 0
             /\ ready' = FALSE
             /\ thread' = [t \in Waiters |-> "waiting"]

\* the measurement thread, at the end of its bring up
Release == /\ ~ready
           /\ ready' = TRUE
           /\ count' = count + 1
           /\ UNCHANGED thread

Running(t) == thread[t] = "running"

\* a thread takes the count when no more urgent one still wants it: that one was
\* waiting first, and would have preempted this one
TakeCount(t) == /\ thread[t] = "waiting" /\ count > 0
                /\ \A u \in Waiters : Priority[u] < Priority[t] => thread[u] # "waiting"
                /\ count' = count - 1
                /\ thread' = [thread EXCEPT ![t] = "holding"]
                /\ UNCHANGED ready

\* mutant: a thread keeps what it took
KeepCount(t) == /\ thread[t] = "holding"
                /\ thread' = [thread EXCEPT ![t] = "running"]
                /\ UNCHANGED <<count, ready>>

PutBack(t) == /\ thread[t] = "holding"
              /\ count' = count + 1
              /\ thread' = [thread EXCEPT ![t] = "running"]
              /\ UNCHANGED ready

GateStep == Release \/ \E t \in Waiters : TakeCount(t) \/ PutBack(t)

GateType == /\ count \in Nat
            /\ ready \in BOOLEAN
            /\ thread \in [Waiters -> {"waiting", "holding", "running"}]

\* The one count the measurement thread puts is somewhere: in the semaphore, or
\* with exactly one thread that is about to put it back, so no thread is locked out
\* by another and none gets through before the release (app_threadx.c:1123-1126).
OneCount ==
  LET holding == {t \in Waiters : thread[t] = "holding"}
  IN  /\ count + Cardinality(holding) = IF ready THEN 1 ELSE 0
      /\ ~ready => \A t \in Waiters : thread[t] = "waiting"
=============================================================================
