--------------------------- MODULE MCBacktestJobs ---------------------------
(* Constants for the model-checking run of the registry on its own. *)
EXTENDS BacktestJobs, TLC

CONSTANTS s1, s2, u1, v1, sh, sz, bj, i1, i2, i3

\* Two calculations of one stock with different parameters, and one each of two other stocks.
MCSymbolOf == (s1 :> sh) @@ (s2 :> sh) @@ (u1 :> sz) @@ (v1 :> bj)
\* Job identities are only compared.
Interchangeable == Permutations(Ids)
=============================================================================
