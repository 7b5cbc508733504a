------------------------- MODULE MCBacktestAccount -------------------------
(* A stock account small enough to explore: three sale lots let the tiers and *)
(* reductions sell different numbers of them.                                 *)
EXTENDS BacktestAccount

MCRooms == {1, 3}
MCTiers == {35, 65}
MCRisks == {"gap", "volume"}
=============================================================================
