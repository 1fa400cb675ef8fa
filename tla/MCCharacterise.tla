----------------------------- MODULE MCCharacterise -----------------------------
EXTENDS Characterise, CampaignCells

MCPowerOn == [victim |-> "infer", sweep |-> "bw", region |-> 3, desc |-> 3, arena |-> 1,
              vregion |-> 1, m2m |-> 0, foot |-> 1024, loads |-> 8192, started |-> 0, export |-> 0,
              stack_src |-> 1, ballast |-> 0]
MCPriority == [audio |-> 13, imu |-> 14, export |-> 20]
MCWindow == <<32768, 8192, 16384>>

\* a board an earlier cell has left armed, with a page and a footprint typed since that no
\* pass has taken up
MCEarlier == {
  [kept |-> [stack_src |-> 2, ballast |-> 0],
   choice |-> [victim |-> "infer-stress", sweep |-> "bw", region |-> 2, desc |-> 1, arena |-> 1,
               vregion |-> 1, m2m |-> 0, foot |-> 256, loads |-> 8192, started |-> 0, export |-> 0],
   pass |-> "infer-stress",
   applied |-> [desc |-> 4, words |-> 1024, passes |-> 8]]}

Text(keys) == [kind |-> "text", keys |-> keys]
Allow == [kind |-> "allow"]

\* a reset before the rest, a page and the victim that takes it up, keys no line answers
\* for, a page by itself, and what is refused
MCCommands == {
  <<Text(<<"k", "1", "g">>), Allow>>,
  <<Text(<<"S", "k", "i">>), Allow>>,
  <<Text(<<"e">>)>>,
  <<Text(<<"C", "l">>)>>,
  <<Text(<<"S">>)>>,
  <<Text(<<"r", "k">>)>>,
  <<Text(<<>>)>>}

MCRequests == {
  [target |-> "arena x gpdma1.data", name |-> "df-a1-s2-ag1"],
  [target |-> "arena x gpdma1.data", name |-> NoName]}
=============================================================================
