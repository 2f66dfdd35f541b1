--------------------------- MODULE MCChainIndexer ---------------------------
(***************************************************************************)
(* Model values of ChainIndexer.tla.                                       *)
(***************************************************************************)
EXTENDS ChainIndexer

Careful == {}

Overlapping == {"overlap"}
=============================================================================
