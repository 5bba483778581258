--------------------------- MODULE MCHistoryPoller ---------------------------
(***************************************************************************)
(* Instances of HistoryPoller: the ring holds two samples, so that a boot  *)
(* of four evicts samples before they are read.                            *)
(***************************************************************************)
EXTENDS HistoryPoller
==============================================================================
