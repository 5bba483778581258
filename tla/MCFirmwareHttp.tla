--------------------------- MODULE MCFirmwareHttp ----------------------------
(***************************************************************************)
(* Instances of FirmwareHttp: three clients on a backlog of two, so that   *)
(* one can stall ahead of another and a third finds the backlog full.      *)
(***************************************************************************)
EXTENDS FirmwareHttp
==============================================================================
