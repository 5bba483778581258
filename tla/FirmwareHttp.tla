---------------------------- MODULE FirmwareHttp -----------------------------
(***************************************************************************)
(* The firmware download server (server/http_firmware.py) and the life     *)
(* cycle around it, FountainAppServer.serve().  One listener thread takes  *)
(* connections from the kernel's backlog, oldest first, and starts a       *)
(* thread for each; the TLS handshake is deferred to that thread.  Every   *)
(* wait of a handler thread for its client ends after `timeout` seconds.   *)
(*                                                                         *)
(* stop() runs on the event loop: while it waits for the listener thread,  *)
(* the whole server stands still.                                          *)
(***************************************************************************)
EXTENDS Integers, Sequences

CONSTANTS
  Client,     \* connections of devices that download
  Queue       \* request_queue_size of the listening socket (5)

ASSUME QueueAssumption == Queue \in Nat \ {0}

VARIABLES
  phase,      \* where serve() stands
  httpd,      \* the socket is listening
  listener,   \* the thread in serve_forever: "none", "starting", "select"
  shutdown,   \* shutdown() has asked it to end
  web, ws,    \* the admin page and the WebSocket server are up
  backlog,    \* connections the kernel has set up and the listener not yet taken
  handler,    \* the thread of each connection
  client      \* how far the client has got: what it has sent

httpVars == <<phase, httpd, listener, shutdown, web, ws, backlog, handler, client>>
server == <<phase, httpd, web, ws>>
thread == <<listener, shutdown>>

Phases == {"off", "http", "web", "ready", "web_stop", "http_stop", "over", "web_failed"}
Active == {"handshake", "request", "respond"}

\* A server that serve() has left has nothing running, unless its web page failed to start.
OverIsDown ==
  phase \in {"off", "over"} => ~httpd /\ ~web /\ ~ws /\ listener = "none" /\ backlog = <<>>

HttpTypeOK ==
  /\ phase \in Phases
  /\ httpd \in BOOLEAN /\ shutdown \in BOOLEAN /\ web \in BOOLEAN /\ ws \in BOOLEAN
  /\ listener \in {"none", "starting", "select"}
  /\ backlog \in Seq(Client) /\ Len(backlog) <= Queue
  /\ handler \in [Client -> {"none", "over"} \cup Active]
  /\ client \in [Client -> {"away", "silent", "greeted", "asked", "left"}]
  /\ OverIsDown

HttpInit ==
  /\ phase = "off" /\ httpd = FALSE /\ web = FALSE /\ ws = FALSE
  /\ listener = "none" /\ shutdown = FALSE
  /\ backlog = <<>>
  /\ handler = [c \in Client |-> "none"]
  /\ client = [c \in Client |-> "away"]

(***************************************************************************)
(* FountainAppServer.serve().                                              *)
(***************************************************************************)
\* http.start(): bind, wrap the socket, start the thread.  A failure to bind ends it.
HttpStart ==
  /\ phase = "off"
  /\ \/ /\ phase' = "http" /\ httpd' = TRUE /\ listener' = "starting"
     \/ phase' = "over" /\ UNCHANGED <<httpd, listener>>
  /\ UNCHANGED <<web, ws, shutdown, backlog, handler, client>>

\* web.start() stands outside the try: if it fails, the download server stays up.
WebStart ==
  /\ phase = "http"
  /\ \/ phase' = "web" /\ web' = TRUE
     \/ phase' = "web_failed" /\ UNCHANGED web
  /\ UNCHANGED <<httpd, ws, thread, backlog, handler, client>>

\* Mutant: the WebSocket server is started ahead of the try.
WsStartOutsideTry ==
  /\ phase = "web"
  /\ \/ phase' = "ready" /\ ws' = TRUE
     \/ phase' = "over" /\ UNCHANGED ws
  /\ UNCHANGED <<httpd, web, thread, backlog, handler, client>>

\* The WebSocket server comes up, or its failure runs the finally clause.
WsStart ==
  /\ phase = "web"
  /\ \/ phase' = "ready" /\ ws' = TRUE
     \/ phase' = "web_stop" /\ UNCHANGED ws
  /\ UNCHANGED <<httpd, web, thread, backlog, handler, client>>

\* run_forever is cancelled: the WebSocket server closes first.
Cancelled ==
  /\ phase = "ready"
  /\ phase' = "web_stop" /\ ws' = FALSE
  /\ UNCHANGED <<httpd, web, thread, backlog, handler, client>>

\* web.stop(), then http.stop() up to the wait of shutdown().
WebStop ==
  /\ phase = "web_stop"
  /\ phase' = "http_stop" /\ web' = FALSE /\ shutdown' = TRUE
  /\ UNCHANGED <<httpd, ws, listener, backlog, handler, client>>

\* server_close() resets what is in the backlog; the handler threads are daemons
\* that nobody waits for.
HttpStop ==
  /\ phase = "http_stop" /\ listener = "none"
  /\ phase' = "over" /\ httpd' = FALSE
  /\ backlog' = <<>>
  /\ client' = [c \in Client |->
                  IF \E k \in DOMAIN backlog : backlog[k] = c THEN "left" ELSE client[c]]
  /\ UNCHANGED <<web, ws, thread, handler>>

(***************************************************************************)
(* The listener thread.                                                    *)
(***************************************************************************)
ServeForever ==
  /\ listener = "starting" /\ ~shutdown
  /\ listener' = "select"
  /\ UNCHANGED <<server, shutdown, backlog, handler, client>>

\* Mutant: accept() does the handshake, the default of wrap_socket.
AcceptWithHandshake ==
  /\ listener = "select" /\ ~shutdown /\ backlog # <<>>
  /\ client[Head(backlog)] # "silent"
  /\ backlog' = Tail(backlog)
  /\ handler' = [handler EXCEPT ![Head(backlog)] = "request"]
  /\ UNCHANGED <<server, thread, client>>

\* The oldest connection gets a thread of its own, before its TLS handshake.
Accept ==
  /\ listener = "select" /\ ~shutdown /\ backlog # <<>>
  /\ backlog' = Tail(backlog)
  /\ handler' = [handler EXCEPT ![Head(backlog)] = "handshake"]
  /\ UNCHANGED <<server, thread, client>>

\* Mutant: a request to end that comes before the loop has begun is not noticed.
ListenerExitsIdle ==
  /\ listener = "select" /\ shutdown
  /\ listener' = "none" /\ shutdown' = FALSE
  /\ UNCHANGED <<server, backlog, handler, client>>

\* The loop looks at the request at its head, also when it has never run.
ListenerExits ==
  /\ listener # "none" /\ shutdown
  /\ listener' = "none" /\ shutdown' = FALSE
  /\ UNCHANGED <<server, backlog, handler, client>>

(***************************************************************************)
(* The handler threads.                                                    *)
(***************************************************************************)
\* The deferred handshake, the request line, and the one response of HTTP/1.0.
Handle(c) ==
  /\ \/ /\ handler[c] = "handshake" /\ client[c] \in {"greeted", "asked"}
        /\ handler' = [handler EXCEPT ![c] = "request"]
     \/ /\ handler[c] = "request" /\ client[c] = "asked"
        /\ handler' = [handler EXCEPT ![c] = "respond"]
     \/ /\ handler[c] = "respond" /\ client[c] = "asked"
        /\ handler' = [handler EXCEPT ![c] = "over"]
  /\ UNCHANGED <<server, thread, backlog, client>>

\* Mutant: the timeout is set when the handshake is done.
HandlerTimeoutLate(c) ==
  /\ handler[c] \in {"request", "respond"}
  /\ handler' = [handler EXCEPT ![c] = "over"]
  /\ UNCHANGED <<server, thread, backlog, client>>

\* 30 s without a byte from the client, or without room for one.
HandlerTimeout(c) ==
  /\ handler[c] \in Active
  /\ handler' = [handler EXCEPT ![c] = "over"]
  /\ UNCHANGED <<server, thread, backlog, client>>

HandlerFails(c) ==
  /\ handler[c] \in Active /\ client[c] = "left"
  /\ handler' = [handler EXCEPT ![c] = "over"]
  /\ UNCHANGED <<server, thread, backlog, client>>

(***************************************************************************)
(* The clients: each may stop for good anywhere.                           *)
(***************************************************************************)
ClientConnects(c) ==
  /\ httpd /\ client[c] = "away" /\ Len(backlog) < Queue
  /\ client' = [client EXCEPT ![c] = "silent"]
  /\ backlog' = Append(backlog, c)
  /\ UNCHANGED <<server, thread, handler>>

ClientProceeds(c) ==
  /\ client[c] \in {"silent", "greeted"}
  /\ client' = [client EXCEPT ![c] = IF @ = "silent" THEN "greeted" ELSE "asked"]
  /\ UNCHANGED <<server, thread, backlog, handler>>

ClientLeaves(c) ==
  /\ client[c] \in {"silent", "greeted", "asked"}
  /\ client' = [client EXCEPT ![c] = "left"]
  /\ UNCHANGED <<server, thread, backlog, handler>>

Listener == ServeForever \/ Accept \/ ListenerExits
Handler(c) == Handle(c) \/ HandlerTimeout(c) \/ HandlerFails(c)

HttpNext ==
  \/ HttpStart
  \/ WebStart
  \/ WsStart
  \/ Cancelled
  \/ WebStop
  \/ HttpStop
  \/ Listener
  \/ \E c \in Client :
       Handler(c) \/ ClientConnects(c) \/ ClientProceeds(c) \/ ClientLeaves(c)

\* Threads that can run do, and so does the clean-up of serve(); clients need not.
HttpFairness ==
  /\ WF_httpVars(WebStop \/ HttpStop)
  /\ WF_httpVars(Listener)
  /\ \A c \in Client : WF_httpVars(Handler(c))

HttpSafety == HttpInit /\ [][HttpNext]_httpVars

HttpSpec == HttpSafety /\ HttpFairness
-----------------------------------------------------------------------------
(***************************************************************************)
(* Properties.                                                             *)
(***************************************************************************)

Waits(c) == \E k \in DOMAIN backlog : backlog[k] = c

\* Whatever the other clients do or fail to do, a connection gets out of the backlog
\* and its thread ends (http_firmware.py:72-79), and a server that is stopping stops.
NothingHangs ==
  /\ \A c \in Client : /\ Waits(c) ~> ~Waits(c)
                       /\ handler[c] \in Active ~> handler[c] = "over"
  /\ phase = "web_stop" ~> phase = "over"
==============================================================================
