---------------------------- MODULE StressSweeps ----------------------------
(***************************************************************************)
(* The sweeps of the stress experiment: what each point of a sweep asks of *)
(* the GPDMA channels, and whether a request fits the window of a region.  *)
(***************************************************************************)
EXTENDS Integers, Sequences

\* a trigger rate of 0 lets the channels run flat out, and an armed trigger, all
\* ones in the code, is one whose timer is never started
Ungated == 0
ArmedTrigger == -1

Config(channels, width, block, stride, hz) ==
  [channels |-> channels, width |-> width, block |-> block, stride |-> stride, hz |-> hz]

\* what the table holds past the last point of a sweep
ZeroConfig == Config(0, 0, 0, 0, 0)

NoSweep == 7
SweepId == 0 .. NoSweep
PointId == 1 .. 6      \* a sweep has at most LAXITY_SWEEP_MAX_PTS points

\* laxity_sweeps: bandwidth at a fixed transaction size, transactions at a fixed
\* bandwidth, channel count at a fixed bandwidth, address stride, past the top of
\* the bandwidth sweep, below it, and one block timed on the DMA side
BandwidthSweep ==
  << Config(1, 4, 256, 0, 50000), Config(1, 4, 256, 0, 100000), Config(1, 4, 256, 0, 200000),
     Config(1, 4, 256, 0, 400000), Config(1, 4, 256, 0, 800000) >>
TransactionSweep ==
  << Config(1, 4, 256, 0, 200000), Config(1, 2, 256, 0, 200000), Config(1, 1, 256, 0, 200000) >>
ChannelSweep ==
  << Config(1, 4, 512, 0, 200000), Config(2, 4, 256, 0, 200000), Config(4, 4, 128, 0, 200000) >>
StrideSweep ==
  << Config(1, 4, 256, 0, 200000), Config(1, 4, 256, 4, 200000), Config(1, 4, 256, 12, 200000),
     Config(1, 4, 256, 28, 200000), Config(1, 4, 256, 60, 200000), Config(1, 4, 256, 124, 200000) >>
SaturationSweep ==
  << Config(1, 2, 256, 0, 800000), Config(1, 1, 256, 0, 800000), Config(1, 4, 256, 0, Ungated),
     Config(1, 1, 256, 0, Ungated), Config(1, 4, 256, 0, ArmedTrigger) >>
LowSweep ==
  << Config(1, 4, 256, 0, 6250), Config(1, 4, 256, 0, 12500), Config(1, 4, 256, 0, 25000),
     Config(1, 4, 256, 0, 50000) >>
TransferSweep ==
  << Config(1, 4, 4096, 0, Ungated), Config(1, 2, 4096, 0, Ungated), Config(1, 1, 4096, 0, Ungated),
     Config(1, 4, 2048, 0, Ungated) >>

\* in the order of the digits the console selects them by; the last has no points,
\* so its schedule is the aggressor off cell and nothing else
SweepTable == << BandwidthSweep, TransactionSweep, ChannelSweep, StrideSweep,
                 SaturationSweep, LowSweep, TransferSweep, << >> >>

Points(s) == Len(SweepTable[s + 1])
PointConfig(s, p) == IF p <= Points(s) THEN SweepTable[s + 1][p] ELSE ZeroConfig

-----------------------------------------------------------------------------
(* The regions 1 .. 4 are SRAM1 .. SRAM4, and 0 is none of them.            *)

StressRegion == 1 .. 4
Span == <<12 * 1024, 12 * 1024, 20 * 1024, 12 * 1024>>   \* laxity_stress_span

WellFormed(c) ==
  /\ c.width \in {1, 2, 4}
  /\ c.block # 0 /\ c.block % c.width = 0

Startable(c) == WellFormed(c) /\ c.channels \in 1 .. 4 /\ c.stride <= 8191

\* the address range one block covers, in a source and a destination buffer each
BlockReach(c) == (c.block \div c.width) * (c.width + c.stride)
FitsSweep(c, r) == 2 * BlockReach(c) * c.channels <= Span[r]
FitsOnce(c, r) == 2 * c.block <= Span[r]

ConfigType ==
  [channels : 0 .. 4, width : {0, 1, 2, 4}, block : Nat, stride : Nat, hz : Int]

Gated(c) == c.hz \notin {Ungated, ArmedTrigger}
=============================================================================
