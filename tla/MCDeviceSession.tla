--------------------------- MODULE MCDeviceSession ---------------------------
(***************************************************************************)
(* Two callers and three requests: a call can time out and its caller make *)
(* another one while the first answer is still under way.                  *)
(***************************************************************************)
EXTENDS DeviceSession

CONSTANTS r1, r2

MCCallers == {r1, r2}
==============================================================================
