------------------------- MODULE MCWatchlistRefresh -------------------------
(* Constants for the model-checking runs of the watchlist refresh. *)
EXTENDS WatchlistRefresh, TLC

CONSTANTS s1, u1, sh, sz, person

MCSymbolOf == (s1 :> sh) @@ (u1 :> sz)
\* More identities than the thread has jobs.
MCIds == {person} \cup 1..9
=============================================================================
