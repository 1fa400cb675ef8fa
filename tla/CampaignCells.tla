------------------------------ MODULE CampaignCells ------------------------------
(***************************************************************************)
(* The cells laxity characterise can arm, the rows of CELLS in             *)
(* characterise.rs, and the rates of the bandwidth sweep they are fitted   *)
(* against.                                                                *)
(***************************************************************************)
EXTENDS ConsoleAlphabet, Sequences

\* a row: its keys, the aggressor region, the victim fields the keys come to, and
\* the regions it is filed under
CellRow(name, keys, region, arena, stack) ==
  [name |-> name, target |-> "arena x gpdma1.data", keys |-> keys, region |-> region,
   words |-> 1024, passes |-> 8, loads |-> 8192,
   filing |-> [victim |-> "infer-stress", vregion |-> 1, sweep |-> "bw", region |-> region,
               arena |-> arena, stack_src |-> stack, desc |-> 4, m2m |-> 0]]

CELLS == {
  CellRow("df-a1-s2-ag1", <<"k","i","0","a","X","C","L","7","N","S">>, 1, 1, 2),
  CellRow("df-a1-s3-ag1", <<"n","i","0","a","X","C","L","7","N","S">>, 1, 1, 3),
  CellRow("df-a2-s1-ag2", <<"j","i","0","b","X","C","L","8","N","S">>, 2, 2, 1),
  CellRow("df-a2-s3-ag2", <<"n","i","0","b","X","C","L","8","N","S">>, 2, 2, 3),
  CellRow("df-a3-s1-ag3", <<"j","i","0","c","X","C","L","9","N","S">>, 3, 3, 1),
  CellRow("df-a3-s2-ag3", <<"k","i","0","c","X","C","L","9","N","S">>, 3, 3, 2)}

\* every cell's keys select what it is filed under
ASSUME KeysAgreeWithFiling ==
  \A c \in CELLS : \A i \in DOMAIN c.keys :
    Confirmable(c.keys[i]) =>
      c.filing[ALPHABET[c.keys[i]].field] = ALPHABET[c.keys[i]].value

\* BW_XACTS in units of 3.2 million transactions per second, and FIT_MAX_XACT
BW_XACTS == 0 :> 0 @@ 1 :> 1 @@ 2 :> 2 @@ 3 :> 4 @@ 4 :> 8 @@ 5 :> 16
FIT_MAX_XACT == 4
=============================================================================
