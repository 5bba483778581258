--------------------------- MODULE FountainServer ----------------------------
(***************************************************************************)
(* The connection life cycle of fountain_proto/server.py: one task per     *)
(* upgraded WebSocket runs `_handler`, which takes the device's slot in    *)
(* `self.sessions`, performs DeviceSession.handshake, runs the connect     *)
(* hook, then the receive loop and the watchdog, and cleans up in its      *)
(* `finally`.  Tasks interleave at awaits only, so an action is what a     *)
(* task does between two awaits.                                           *)
(*                                                                         *)
(* A reply may be written at once or, when the peer does not drain its     *)
(* socket, suspend its task: phases "ack", "refusing" and "answer" are     *)
(* those suspended sends.  Time is left out: a timeout may happen at any   *)
(* moment its await is pending (IdleWatchdog has the watchdog's clock).    *)
(***************************************************************************)
CONSTANTS
  Devices,    \* device ids of the registry
  Conns,      \* connections whose upgrade _process_request let through
  DeviceOf,   \* the device_id in the query string of each connection
  NoConn      \* no session: the device is not in self.sessions

ASSUME ConnAssumption ==
  /\ DeviceOf \in [Conns -> Devices]
  /\ NoConn \notin Conns

VARIABLES
  phase,      \* where the task of each connection stands in _handler
  ws,         \* state of its WebSocket, as the server side sees it
  closeTask,  \* the old session each upgrade has scheduled a _close_quietly task for
  sessions,   \* self.sessions
  negotiated, \* DeviceSession.negotiated
  online      \* device_state[device_id]["online"] of the application

vars == <<phase, ws, closeTask, sessions, negotiated, online>>

Sending == {"ack", "refusing", "answer"}
Phases == {"none", "hello", "proof", "leaving", "run", "stopping", "gone"} \cup Sending

(***************************************************************************)
(* A connection whose connect hook has run and whose handler is not over.  *)
(***************************************************************************)
Connected == {"run", "stopping"}

IsCurrent(c) == sessions[DeviceOf[c]] = c

(***************************************************************************)
(* The hello of a new connection is read from the network after the task   *)
(* its upgrade scheduled has begun: that task is already in the ready      *)
(* queue, ahead of the next poll for input.                                *)
(***************************************************************************)
AwaitsHello(c) == phase[c] = "hello" /\ closeTask[c] = NoConn

TypeOK ==
  /\ phase \in [Conns -> Phases]
  /\ ws \in [Conns -> {"none", "open", "closing", "closed"}]
  /\ closeTask \in [Conns -> Conns \cup {NoConn}]
  /\ sessions \in [Devices -> Conns \cup {NoConn}]
  /\ negotiated \in [Conns -> BOOLEAN]
  /\ online \in [Devices -> BOOLEAN]

Init ==
  /\ phase = [c \in Conns |-> "none"]
  /\ ws = [c \in Conns |-> "none"]
  /\ closeTask = [c \in Conns |-> NoConn]
  /\ sessions = [d \in Devices |-> NoConn]
  /\ negotiated = [c \in Conns |-> FALSE]
  /\ online = [d \in Devices |-> FALSE]

(***************************************************************************)
(* Steps shared by several actions.                                        *)
(***************************************************************************)
Goto(c, p) == phase' = [phase EXCEPT ![c] = p]

\* ws.close() puts an open socket into CLOSING before its first await.
StartClosing(c) == ws' = [ws EXCEPT ![c] = IF @ = "open" THEN "closing" ELSE @]

\* close(...), then `return False`: the task waits for the socket to be closed.
Leave(c) ==
  /\ Goto(c, "leaving")
  /\ StartClosing(c)
  /\ UNCHANGED <<closeTask, sessions, online>>

\* Mutant: the hook stores the session itself as a truthy "online".
ConnectStoresSession(c) ==
  /\ Goto(c, "run")
  /\ online' = [online EXCEPT ![DeviceOf[c]] = c]
  /\ UNCHANGED <<ws, closeTask, sessions>>

\* Handshake done: the connect hook marks the device online, then the loops start.
Connect(c) ==
  /\ Goto(c, "run")
  /\ online' = [online EXCEPT ![DeviceOf[c]] = TRUE]
  /\ UNCHANGED <<ws, closeTask, sessions>>

\* Mutant: the `finally` without its test `self.sessions.get(device_id) is session`.
CleanupUnguarded(c) ==
  /\ Goto(c, "gone")
  /\ StartClosing(c)
  /\ sessions' = [sessions EXCEPT ![DeviceOf[c]] = NoConn]
  /\ online' = [online EXCEPT ![DeviceOf[c]] = FALSE]
  /\ UNCHANGED closeTask

\* Mutant: only the pop is under the test, every end of a handler reports offline.
CleanupReportsAlways(c) ==
  /\ Goto(c, "gone")
  /\ StartClosing(c)
  /\ sessions' = [sessions EXCEPT ![DeviceOf[c]] = IF @ = c THEN NoConn ELSE @]
  /\ online' = [online EXCEPT ![DeviceOf[c]] = FALSE]
  /\ UNCHANGED closeTask

\* Mutant: the `finally` reports offline and forgets to pop the session.
CleanupKeepsSlot(c) ==
  /\ Goto(c, "gone")
  /\ StartClosing(c)
  /\ online' = [online EXCEPT ![DeviceOf[c]] = IF IsCurrent(c) THEN FALSE ELSE @]
  /\ UNCHANGED <<closeTask, sessions>>

\* The `finally` of _handler; the library then closes what is still open.
Cleanup(c) ==
  /\ Goto(c, "gone")
  /\ StartClosing(c)
  /\ sessions' = [sessions EXCEPT ![DeviceOf[c]] = IF @ = c THEN NoConn ELSE @]
  /\ online' = [online EXCEPT ![DeviceOf[c]] = IF IsCurrent(c) THEN FALSE ELSE @]
  /\ UNCHANGED closeTask

\* Mutant: the old session is popped but nobody closes its socket.
UpgradeWithoutClose(c) ==
  /\ phase[c] = "none"
  /\ Goto(c, "hello")
  /\ ws' = [ws EXCEPT ![c] = "open"]
  /\ sessions' = [sessions EXCEPT ![DeviceOf[c]] = c]
  /\ UNCHANGED <<closeTask, negotiated, online>>

(***************************************************************************)
(* A new connection: pop and close the old session, register the new one.  *)
(***************************************************************************)
Upgrade(c) ==
  /\ phase[c] = "none"
  /\ Goto(c, "hello")
  /\ ws' = [ws EXCEPT ![c] = "open"]
  /\ closeTask' = [closeTask EXCEPT ![c] = sessions[DeviceOf[c]]]
  /\ sessions' = [sessions EXCEPT ![DeviceOf[c]] = c]
  /\ UNCHANGED <<negotiated, online>>

(***************************************************************************)
(* The handshake.  A message queued before the close still reaches recv(), *)
(* but a send on a closing socket waits for the close and then raises.     *)
(***************************************************************************)
HelloAccepted(c) ==
  /\ AwaitsHello(c)
  /\ ws[c] = "open"
  /\ \E p \in {"proof", "ack"} : Goto(c, p)
  /\ UNCHANGED <<ws, closeTask, sessions, negotiated, online>>

\* The refusal is sent, or the message is no hello at all and there is no reply.
HelloRefused(c) ==
  /\ AwaitsHello(c)
  /\ UNCHANGED negotiated
  /\ \/ Leave(c)
     \/ /\ ws[c] = "open"
        /\ Goto(c, "refusing")
        /\ UNCHANGED <<ws, closeTask, sessions, online>>

\* Mutant: only the recv() of the hello has a deadline.
HandshakeTimeoutHelloOnly(c) ==
  /\ AwaitsHello(c)
  /\ Leave(c)
  /\ UNCHANGED negotiated

HandshakeTimeout(c) ==
  /\ AwaitsHello(c) \/ phase[c] = "proof"
  /\ Leave(c)
  /\ UNCHANGED negotiated

ProofRefused(c) ==
  /\ phase[c] = "proof"
  /\ Leave(c)
  /\ UNCHANGED negotiated

\* A valid ota_check is answered by the OTA hook before handshake() returns.
ProofAccepted(c) ==
  /\ phase[c] = "proof"
  /\ negotiated' = [negotiated EXCEPT ![c] = TRUE]
  /\ \/ ws[c] = "open" /\ Connect(c)
     \/ ws[c] = "open" /\ Goto(c, "answer") /\ UNCHANGED <<ws, closeTask, sessions, online>>
     \/ ws[c] = "closing" /\ Leave(c)
     \/ ws[c] = "closed" /\ Cleanup(c)

\* Any other validly signed first message is dispatched, which sends nothing.
ProofDispatched(c) ==
  /\ phase[c] = "proof"
  /\ negotiated' = [negotiated EXCEPT ![c] = TRUE]
  /\ Connect(c)

\* recv() raises ConnectionClosed, or the message is not what the code indexes.
HandshakeAborts(c) ==
  /\ AwaitsHello(c) \/ phase[c] = "proof"
  /\ Cleanup(c)
  /\ UNCHANGED negotiated

(***************************************************************************)
(* A suspended send resumes: drained, or released by the transport's end.  *)
(***************************************************************************)
AckSent(c) ==
  /\ phase[c] = "ack"
  /\ Goto(c, "proof")
  /\ UNCHANGED <<ws, closeTask, sessions, negotiated, online>>

RefusalSent(c) ==
  /\ phase[c] = "refusing"
  /\ Leave(c)
  /\ UNCHANGED negotiated

AnswerSent(c) ==
  /\ phase[c] = "answer"
  /\ Connect(c)
  /\ UNCHANGED negotiated

SendFails(c) ==
  /\ phase[c] \in Sending
  /\ ws[c] = "closed"
  /\ Cleanup(c)
  /\ UNCHANGED negotiated

LeaveDone(c) ==
  /\ phase[c] = "leaving"
  /\ ws[c] = "closed"
  /\ Cleanup(c)
  /\ UNCHANGED negotiated

(***************************************************************************)
(* Receive loop and watchdog: whoever ends first wins.                     *)
(***************************************************************************)
RecvEnds(c) ==
  /\ phase[c] = "run"
  /\ ws[c] = "closed"
  /\ Goto(c, "stopping")
  /\ UNCHANGED <<ws, closeTask, sessions, negotiated, online>>

\* The window has passed in silence, or dispatching a malformed message raised.
LoopFails(c) ==
  /\ phase[c] = "run"
  /\ Goto(c, "stopping")
  /\ UNCHANGED <<ws, closeTask, sessions, negotiated, online>>

\* Mutant: the cleanup sits in the except branch, a normal end skips it.
HandlerEndsSilently(c) ==
  /\ phase[c] = "stopping"
  /\ Goto(c, "gone")
  /\ StartClosing(c)
  /\ UNCHANGED <<closeTask, sessions, negotiated, online>>

HandlerEnds(c) ==
  /\ phase[c] = "stopping"
  /\ Cleanup(c)
  /\ UNCHANGED negotiated

(***************************************************************************)
(* The sockets: the close an upgrade scheduled for the session it replaced,*)
(* the end of a closing handshake (bounded by the library's close          *)
(* timeout), the peer.                                                     *)
(***************************************************************************)
CloseQuietly(c) ==
  /\ closeTask[c] # NoConn
  /\ closeTask' = [closeTask EXCEPT ![c] = NoConn]
  /\ StartClosing(closeTask[c])
  /\ UNCHANGED <<phase, sessions, negotiated, online>>

CloseDone(c) ==
  /\ ws[c] = "closing"
  /\ ws' = [ws EXCEPT ![c] = "closed"]
  /\ UNCHANGED <<phase, closeTask, sessions, negotiated, online>>

PeerCloses(c) ==
  /\ ws[c] = "open"
  /\ \E s \in {"closing", "closed"} : ws' = [ws EXCEPT ![c] = s]
  /\ UNCHANGED <<phase, closeTask, sessions, negotiated, online>>

Handshake(c) ==
  \/ HelloAccepted(c)
  \/ HelloRefused(c)
  \/ ProofAccepted(c)
  \/ ProofRefused(c)
  \/ ProofDispatched(c)
  \/ HandshakeTimeout(c)
  \/ HandshakeAborts(c)

Resume(c) ==
  \/ AckSent(c)
  \/ RefusalSent(c)
  \/ AnswerSent(c)
  \/ SendFails(c)
  \/ LeaveDone(c)

Next ==
  \E c \in Conns :
    \/ Upgrade(c)
    \/ Handshake(c)
    \/ Resume(c)
    \/ RecvEnds(c)
    \/ LoopFails(c)
    \/ HandlerEnds(c)
    \/ CloseQuietly(c)
    \/ CloseDone(c)
    \/ PeerCloses(c)

(***************************************************************************)
(* What the event loop, the timers and the library guarantee: a pending    *)
(* recv of the handshake times out, a closing socket ends up closed, and a *)
(* task that can resume does.  Nothing is assumed of the peer, of the      *)
(* watchdog, nor of a suspended send while its socket is not closed.       *)
(***************************************************************************)
Fairness ==
  \A c \in Conns :
    /\ WF_vars(HandshakeTimeout(c))
    /\ WF_vars(SendFails(c))
    /\ WF_vars(LeaveDone(c))
    /\ WF_vars(RecvEnds(c))
    /\ WF_vars(HandlerEnds(c))
    /\ WF_vars(CloseQuietly(c))
    /\ WF_vars(CloseDone(c))

Safety == Init /\ [][Next]_vars

Spec == Safety /\ Fairness
-----------------------------------------------------------------------------
(***************************************************************************)
(* Properties.                                                             *)
(***************************************************************************)

\* The slot of a device always holds a connection of that device whose handler
\* still runs: `session(device_id)` never returns a session nobody serves.
RegisteredIsServed ==
  \A d \in Devices : sessions[d] # NoConn =>
    /\ DeviceOf[sessions[d]] = d
    /\ phase[sessions[d]] \notin {"none", "gone"}

\* A device whose current session has been through the connect hook is shown
\* online: the late end of a replaced session cannot report it offline.
CurrentIsOnline ==
  \A c \in Conns : IsCurrent(c) /\ phase[c] \in Connected => online[DeviceOf[c]]

\* A session that lost its slot to a newer one is being closed: two live
\* sessions of one device never serve side by side.
ReplacedIsClosing ==
  \A c \in Conns :
    phase[c] \notin {"none", "gone"} /\ ~IsCurrent(c) =>
      ws[c] # "open" \/ \E x \in Conns : closeTask[x] = c

\* A silent peer cannot park the handler in one of the handshake's two recv():
\* session.py's reason for HANDSHAKE_TIMEOUT_S.
HandshakeEnds ==
  \A c \in Conns : phase[c] \in {"hello", "proof"} ~> phase[c] \notin {"hello", "proof"}

\* A connection that is closed loses its slot, wherever its task was suspended.
DeadIsDropped ==
  \A c \in Conns : IsCurrent(c) /\ ws[c] = "closed" ~> ~IsCurrent(c)

\* What the registry shows of a connection.
Shown(c) ==
  CASE phase[c] = "none" -> "fresh"
    [] phase[c] = "gone" -> "ended"
    [] phase[c] \notin {"none", "gone"} /\ IsCurrent(c) -> "current"
    [] OTHER -> "replaced"

Registry == INSTANCE SessionRegistry WITH status <- [c \in Conns |-> Shown(c)]

\* The registry the server promises: the newest connection of a device wins, an
\* end touches its own session only, and replaced sessions do end.
RefinesRegistry == Registry!Spec

\* tests/test_integration.py:109: a device that is gone is reported offline AND
\* its session object is removed, so online without a session is a wrong report.
OnlineHasSession ==
  \A d \in Devices : online[d] => sessions[d] # NoConn
==============================================================================
