-------------------------- MODULE MCFountainServer ---------------------------
(***************************************************************************)
(* One device reconnects twice while older handlers are still about, the   *)
(* other never connects and is there to be left alone.                     *)
(***************************************************************************)
EXTENDS FountainServer

CONSTANTS d1, d2, c1, c2, c3

MCDevices == {d1, d2}
MCConns == {c1, c2, c3}
MCDeviceOf == [c \in MCConns |-> d1]

\* A smaller instance: one reconnect.
MCTwoConns == {c1, c2}
MCTwoDeviceOf == [c \in MCTwoConns |-> d1]
==============================================================================
