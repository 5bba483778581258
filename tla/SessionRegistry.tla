--------------------------- MODULE SessionRegistry ---------------------------
(***************************************************************************)
(* What FountainServer promises about `self.sessions`: for every device    *)
(* the newest connection wins.  A connection is fresh, then current (it is *)
(* the one `session(device_id)` returns), then possibly replaced by a      *)
(* newer one of the same device, and in the end its handler has ended.  A  *)
(* replaced connection never becomes current again, the end of a           *)
(* connection never touches another one, and a replaced connection does    *)
(* not linger.                                                             *)
(***************************************************************************)
CONSTANTS
  Devices,    \* device ids of the registry
  Conns,      \* WebSocket connections, one per upgrade
  DeviceOf    \* [Conns -> Devices]: the device each connection authenticates as

VARIABLE status     \* what the registry thinks of each connection

Status == {"fresh", "current", "replaced", "ended"}

Init == status = [c \in Conns |-> "fresh"]

(***************************************************************************)
(* A new connection takes the device over, whatever held it before.        *)
(***************************************************************************)
Register(c) ==
  /\ status[c] = "fresh"
  /\ status' = [x \in Conns |->
                  CASE x = c -> "current"
                    [] x # c /\ DeviceOf[x] = DeviceOf[c] /\ status[x] = "current" -> "replaced"
                    [] OTHER -> status[x]]

(***************************************************************************)
(* The handler of a connection ends: nothing else changes.                 *)
(***************************************************************************)
End(c) ==
  /\ status[c] \in {"current", "replaced"}
  /\ status' = [status EXCEPT ![c] = "ended"]

EndReplaced(c) == status[c] = "replaced" /\ End(c)

Next == \E c \in Conns : Register(c) \/ End(c)

Safety == Init /\ [][Next]_status

Spec == Safety /\ \A c \in Conns : WF_status(EndReplaced(c))
==============================================================================
