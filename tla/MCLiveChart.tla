----------------------------- MODULE MCLiveChart -----------------------------
(***************************************************************************)
(* Instances of LiveChart: two overlapping fetches, a history that is cut  *)
(* before all samples have been fetched, and a reboot of the device; or    *)
(* one fetch, with another device to pick, a reboot and a restart of the   *)
(* server.                                                                 *)
(***************************************************************************)
EXTENDS LiveChart

CONSTANTS d1, d2, f1, f2

MCDevice == {d1}
MCDevices == {d1, d2}
MCFetch == {f1}
MCFetches == {f1, f2}
==============================================================================
