--------------------------- MODULE MCStructureScan ---------------------------
(* Two stocks, either of them possibly not yet downloaded, two writes of the  *)
(* files, one change of the code, one foreign call or death of the process,   *)
(* and room for two jobs.                                                     *)
EXTENDS StructureScan

MCSymbols == 1 .. 2
=============================================================================
