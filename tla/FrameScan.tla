------------------------------- MODULE FrameScan -------------------------------
(***************************************************************************)
(* What a frame reader promises about a stream, however the stream reaches *)
(* it: going from left to right over the whole of it, a good frame is      *)
(* taken and the bytes that begin none are text.  Which frames are taken   *)
(* depends on the stream alone.                                            *)
(***************************************************************************)
EXTENDS WireFormat

VARIABLES wire,   \* the whole stream
          pos,    \* the first byte not decided yet
          taken,  \* the offsets of the frames taken, in order
          text    \* the offsets of the bytes passed on as text

vars == <<wire, pos, taken, text>>

Init == pos = 0 /\ taken = <<>> /\ text = {}

Take ==
  /\ Good(wire, pos)
  /\ taken' = Append(taken, pos)
  /\ pos' = End(wire, pos)
  /\ UNCHANGED <<wire, text>>

Skip ==
  \E n \in 1 .. wire.size - pos :
    /\ \A p \in pos .. pos + n - 1 : ~Good(wire, p)
    /\ text' = text \cup (pos .. pos + n - 1)
    /\ pos' = pos + n
    /\ UNCHANGED <<wire, taken>>

Next == Take \/ Skip

Spec == Init /\ [][Next]_vars
================================================================================
