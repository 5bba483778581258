--------------------------- MODULE MCIdleWatchdog ----------------------------
(***************************************************************************)
(* The default windows of the code in ticks of 5 s: 20 s, 150 s, 15 s and  *)
(* 5 s against reports every 10 s or 60 s.  The device may miss one report *)
(* in a row; the two of the comment at app.py:39 are more than it may.     *)
(***************************************************************************)
EXTENDS IdleWatchdog

CONSTANTS System_Power_Mode, Net_Link_State

MCModePoints == {System_Power_Mode, Net_Link_State}
==============================================================================
