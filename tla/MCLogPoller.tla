----------------------------- MODULE MCLogPoller -----------------------------
(***************************************************************************)
(* Instances of LogPoller: batches of one record, so that a backlog takes  *)
(* several reads, and a ring of two, so that it overflows meanwhile.  It   *)
(* leaves a slot larger than the one answer it is read with.               *)
(***************************************************************************)
EXTENDS LogPoller
==============================================================================
