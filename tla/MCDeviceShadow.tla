--------------------------- MODULE MCDeviceShadow ----------------------------
(***************************************************************************)
(* Instances of DeviceShadow.                                              *)
(***************************************************************************)
EXTENDS DeviceShadow
==============================================================================
