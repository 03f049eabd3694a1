----------------------------- MODULE MCMemoryMap -----------------------------
(***************************************************************************)
(* Every image of up to five 2-byte chunks, with and without a partial     *)
(* chunk behind them: enough for two regions with a gap inside each.  The  *)
(* entropies stand at the edges of the bands.                              *)
(***************************************************************************)
EXTENDS MemoryMap

BandEdges == {4, 5, 60, 90}
=============================================================================
