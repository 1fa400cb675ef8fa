------------------------------ MODULE MCCampaign ------------------------------
(* Campaign with a handful of console bytes: enough of them to leave and     *)
(* re-enter every kind of pass, to change the sweep, the region and the node *)
(* page in the middle of one, and to hold the mem2mem aggressor.             *)
EXTENDS Campaign

MCKeys == {"v", "r", "t", "2", "4", "d", "Q", "M"}
MCFootprints == {3}

=============================================================================
