---------------------------- MODULE ConsoleAlphabet ----------------------------
(***************************************************************************)
(* The console alphabet of console.rs, which is the switch of              *)
(* laxity_poll_console seen from the host: the field each key selects, the *)
(* value it selects, and the status line that answers for it.              *)
(***************************************************************************)
EXTENDS Integers, TLC

\* the fields of the stress line
VictimKeys  == [v |-> "infer", r |-> "read", i |-> "infer-stress", t |-> "dma"]
SweepKeys   == "0" :> "bw" @@ "1" :> "xact" @@ "2" :> "chan" @@ "3" :> "stride" @@
               "4" :> "sat" @@ "5" :> "low" @@ "6" :> "dmat" @@ "o" :> "none"
RegionKeys  == [a |-> 1, b |-> 2, c |-> 3, d |-> 4]
DescKeys    == [P |-> 1, Q |-> 2, R |-> 3, S |-> 4]
ArenaKeys   == "7" :> 1 @@ "8" :> 2 @@ "9" :> 3
WindowKeys  == [X |-> 1, Y |-> 2, Z |-> 3]
HoldKeys    == [M |-> 1, N |-> 0]

\* the fields of the placement line, which the board keeps across a warm reset
StackKeys   == [j |-> 1, k |-> 2, n |-> 3, p |-> 15]
BallastKeys == [f |-> 0, g |-> 64, h |-> 256, m |-> 1024, q |-> 4096]

\* the fields of the net line
StartKeys   == [W |-> 1]
ExportKeys  == [e |-> 1]

\* what no status line reports: the victim's footprint in words and its loads
FootKeys    == [A |-> 256, B |-> 512, C |-> 1024, D |-> 2048,
                E |-> 4096, F |-> 8192, G |-> 16384, H |-> 32768]
LoadKeys    == [l |-> 4096, L |-> 8192]

Selecting(line, field, values) ==
  [key \in DOMAIN values |-> [line |-> line, field |-> field, value |-> values[key]]]

OnPlacement == Selecting("placement", "stack_src", StackKeys) @@
               Selecting("placement", "ballast", BallastKeys)

OnStress == Selecting("stress", "victim", VictimKeys) @@
            Selecting("stress", "sweep", SweepKeys) @@
            Selecting("stress", "region", RegionKeys) @@
            Selecting("stress", "desc", DescKeys) @@
            Selecting("stress", "arena", ArenaKeys) @@
            Selecting("stress", "vregion", WindowKeys) @@
            Selecting("stress", "m2m", HoldKeys)

OnNet == Selecting("net", "started", StartKeys) @@ Selecting("net", "export", ExportKeys)

OnNoLine == Selecting("none", "foot", FootKeys) @@ Selecting("none", "loads", LoadKeys)

ALPHABET == OnPlacement @@ OnStress @@ OnNet @@ OnNoLine

-----------------------------------------------------------------------------
Resets(key) == key \in DOMAIN OnPlacement

\* whether any status line answers for the key
Confirmable(key) == ALPHABET[key].line # "none"

\* the fields the board keeps across a warm reset, and those it forgets
KeptField == {"stack_src", "ballast"}
VolatileField == {ALPHABET[key].field : key \in DOMAIN ALPHABET} \ KeptField
=============================================================================
