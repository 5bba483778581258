---------------------------- MODULE DeviceSession ----------------------------
(***************************************************************************)
(* One DeviceSession of fountain_proto/session.py: concurrent `request`    *)
(* tasks correlated by msg_id over one WebSocket, signed messages numbered *)
(* by `_s2c_seq`, the handshake, and the device at the other end (as       *)
(* esp_client_simulator.py has it).  The session can be used from the      *)
(* moment it is created: FountainServer registers it before the handshake. *)
(*                                                                         *)
(* An action is what a task does between two awaits.  `await ws.send`      *)
(* writes the frame before it can suspend, so signing and writing are one  *)
(* step; a caller may then be suspended in the send ("sending").           *)
(***************************************************************************)
EXTENDS Naturals, Sequences

CONSTANTS
  Callers,    \* tasks that call request(), one call at a time each
  MaxMsgs     \* bound on _msg_seq: how many requests are made in all

ASSUME MaxMsgsAssumption == MaxMsgs \in Nat

VARIABLES
  stage,      \* of the handler: "hello", "proof", "ready" (receive loop), "over"
  ws,         \* the WebSocket: "open", "closing", "closed"
  keyed,      \* kid and auth_key are set
  msgSeq,     \* _msg_seq
  s2cSeq,     \* _s2c_seq
  call,       \* each caller's request: where it stands, its msg_id, what it returned
  pending,    \* _pending: the state of the future registered under each msg_id
  result,     \* the result set on that future
  s2c, c2s,   \* messages in flight, in order
  device,     \* "greeting" (hello sent), "up", or "failed" (no hello_ack came first)
  devLast,    \* the device's AntiReplay._last
  refused     \* signed messages the device has refused as replays

vars == <<stage, ws, keyed, msgSeq, s2cSeq, call, pending, result, s2c, c2s,
          device, devLast, refused>>

server == <<stage, ws, keyed, msgSeq, s2cSeq, call, pending, result>>
peer == <<device, devLast, refused>>

Ids == 1..MaxMsgs

\* A request is identified by its caller and by how many messages preceded it:
\* this is what a reply is about, whatever msg_id it bears.
Tags == Callers \X (0..MaxMsgs)
NoTag == <<>>

HelloAck == [type |-> "hello_ack", seq |-> 0]
OtaNone == [type |-> "ota_none", seq |-> 0]
OtaAvailable(q) == [type |-> "ota_available", seq |-> q]
Request(id, tag, q) == [type |-> "request", id |-> id, tag |-> tag, seq |-> q]
Hello == [type |-> "hello"]
Proof == [type |-> "ota_check"]
Reply(m) == [type |-> "reply", irt |-> m.id, tag |-> m.tag]

\* Without a control request unsigned messages have seq 0: no auth field.
Seqs == 0..(MaxMsgs + 1)
ToDevice ==
  [type : {"hello_ack", "ota_none"}, seq : {0}]
    \cup [type : {"ota_available"}, seq : Seqs]
    \cup [type : {"request"}, id : Ids, tag : Tags, seq : Seqs]
ToServer == {Hello, Proof} \cup [type : {"reply"}, irt : Ids, tag : Tags]

\* "blocked": in a send that found the socket closing and raises when it is closed.
InFlight == {"sending", "blocked", "waiting", "expired"}

TypeOK ==
  /\ stage \in {"hello", "proof", "ready", "over"}
  /\ ws \in {"open", "closing", "closed"}
  /\ keyed \in BOOLEAN
  /\ msgSeq \in 0..MaxMsgs
  /\ s2cSeq \in Seqs
  /\ call \in [Callers -> [at : {"idle", "ok", "timeout", "failed"} \cup InFlight,
                           id : 0..MaxMsgs, tag : Tags \cup {NoTag},
                           value : Tags \cup {NoTag}]]
  /\ pending \in [Ids -> {"absent", "wait", "result", "cancelled"}]
  /\ result \in [Ids -> Tags \cup {NoTag}]
  /\ s2c \in Seq(ToDevice)
  /\ c2s \in Seq(ToServer)
  /\ device \in {"greeting", "up", "failed"}
  /\ devLast \in Seqs
  /\ refused \subseteq Seqs

Init ==
  /\ stage = "hello" /\ ws = "open" /\ keyed = FALSE
  /\ msgSeq = 0 /\ s2cSeq = 0
  /\ call = [r \in Callers |-> [at |-> "idle", id |-> 0, tag |-> NoTag, value |-> NoTag]]
  /\ pending = [i \in Ids |-> "absent"]
  /\ result = [i \in Ids |-> NoTag]
  /\ s2c = <<>> /\ c2s = <<Hello>>
  /\ device = "greeting" /\ devLast = 0 /\ refused = {}

(***************************************************************************)
(* request(): take a msg_id, sign, register the future, write the frame.   *)
(***************************************************************************)
\* Mutant: the first msg_id not in use, so that a late answer finds a newer future.
NextMsgIdReused ==
  CHOOSE i \in Ids : pending[i] = "absent" /\ \A j \in 1..(i - 1) : pending[j] # "absent"

NextMsgId == msgSeq + 1

\* Mutant: the message is signed with the counter, which nobody increments.
NextSeqStale(signed) == IF signed /\ s2cSeq = 0 THEN 1 ELSE s2cSeq

\* Mutant: request() and the signing it calls both count the message.
NextSeqTwice(signed) == IF signed THEN s2cSeq + 2 ELSE s2cSeq

\* Signing a control message increments the counter, even when it then raises.
NextSeq(signed) == IF signed THEN s2cSeq + 1 ELSE s2cSeq

NewCall(r, at, tag) ==
  call' = [call EXCEPT ![r] = [at |-> at, id |-> NextMsgId, tag |-> tag, value |-> NoTag]]

Idle(r) == call[r].at \notin InFlight /\ msgSeq < MaxMsgs

\* `negotiated` is not looked at: any stage may send, unsigned or signed.
Issue(r, signed) ==
  /\ Idle(r)
  /\ signed => keyed
  /\ msgSeq' = msgSeq + 1
  /\ s2cSeq' = NextSeq(signed)
  /\ pending' = [pending EXCEPT ![NextMsgId] = "wait"]
  /\ LET tag == <<r, msgSeq>>
         seq == IF signed THEN NextSeq(signed) ELSE 0
     IN  \/ /\ ws = "open"
            /\ s2c' = Append(s2c, Request(NextMsgId, tag, seq))
            /\ \E at \in {"waiting", "sending"} : NewCall(r, at, tag)
         \/ /\ ws # "open"           \* ensure_open() waits for the close, then raises
            /\ NewCall(r, "blocked", tag)
            /\ UNCHANGED s2c
  /\ UNCHANGED <<stage, ws, keyed, result, c2s, peer>>

\* Before the hello there is no kid and no key: auth.sign raises.
IssueUnkeyed(r) ==
  /\ Idle(r)
  /\ ~keyed
  /\ msgSeq' = msgSeq + 1
  /\ s2cSeq' = NextSeq(TRUE)
  /\ NewCall(r, "failed", <<r, msgSeq>>)
  /\ UNCHANGED <<stage, ws, keyed, pending, result, s2c, c2s, peer>>

(***************************************************************************)
(* A suspended send goes on once the socket drains (or its transport is    *)
(* gone); one that found the socket closing raises when it is closed.      *)
(***************************************************************************)
SendResumes(r) ==
  /\ call[r].at = "sending"
  /\ call' = [call EXCEPT ![r].at = "waiting"]
  /\ UNCHANGED <<stage, ws, keyed, msgSeq, s2cSeq, pending, result, s2c, c2s, peer>>

\* Mutant: only a future that has its result is popped.
PopAnswered(r) ==
  pending' = [pending EXCEPT ![call[r].id] = IF @ = "result" THEN "absent" ELSE @]

\* The `finally` of request(), with what it returns or raises.
Pop(r) == pending' = [pending EXCEPT ![call[r].id] = "absent"]

\* Mutant: the exception of the send is only seen by a call that found the socket closing.
SendFailsBlockedOnly(r) ==
  /\ call[r].at = "blocked"
  /\ ws = "closed"
  /\ call' = [call EXCEPT ![r].at = "failed"]
  /\ Pop(r)
  /\ UNCHANGED <<stage, ws, keyed, msgSeq, s2cSeq, result, s2c, c2s, peer>>

SendFails(r) ==
  /\ call[r].at \in {"sending", "blocked"}
  /\ ws = "closed"
  /\ call' = [call EXCEPT ![r].at = "failed"]
  /\ Pop(r)
  /\ UNCHANGED <<stage, ws, keyed, msgSeq, s2cSeq, result, s2c, c2s, peer>>

\* Mutant: the wait ends with the receive loop's help only, there is no timer after it.
TimerFiresWhileServed(r) ==
  /\ call[r].at = "waiting"
  /\ stage = "ready"
  /\ call' = [call EXCEPT ![r].at = "expired"]
  /\ pending' = [pending EXCEPT ![call[r].id] = IF @ = "wait" THEN "cancelled" ELSE @]
  /\ UNCHANGED <<stage, ws, keyed, msgSeq, s2cSeq, result, s2c, c2s, peer>>

\* The timer of wait_for cancels the future, unless the reply has just been set on
\* it: then the caller's task is cancelled instead, and the reply is lost with it.
TimerFires(r) ==
  /\ call[r].at = "waiting"
  /\ call' = [call EXCEPT ![r].at = "expired"]
  /\ pending' = [pending EXCEPT ![call[r].id] = IF @ = "wait" THEN "cancelled" ELSE @]
  /\ UNCHANGED <<stage, ws, keyed, msgSeq, s2cSeq, result, s2c, c2s, peer>>

ReturnReply(r) ==
  /\ call[r].at = "waiting"
  /\ pending[call[r].id] = "result"
  /\ call' = [call EXCEPT ![r].at = "ok", ![r].value = result[call[r].id]]
  /\ Pop(r)
  /\ UNCHANGED <<stage, ws, keyed, msgSeq, s2cSeq, result, s2c, c2s, peer>>

RaiseTimeout(r) ==
  /\ call[r].at = "expired"
  /\ call' = [call EXCEPT ![r].at = "timeout"]
  /\ Pop(r)
  /\ UNCHANGED <<stage, ws, keyed, msgSeq, s2cSeq, result, s2c, c2s, peer>>

(***************************************************************************)
(* The handler: handshake, then _dispatch for every message received.      *)
(***************************************************************************)
Received(m) == c2s # <<>> /\ Head(c2s) = m /\ c2s' = Tail(c2s)

HelloReceived ==
  /\ stage = "hello" /\ ws = "open"
  /\ Received(Hello)
  /\ stage' = "proof"
  /\ keyed' = TRUE
  /\ s2c' = Append(s2c, HelloAck)
  /\ UNCHANGED <<ws, msgSeq, s2cSeq, call, pending, result, peer>>

\* The OTA hook answers the proof, signed when there is an update to offer.
ProofReceived(offer) ==
  /\ stage = "proof" /\ ws = "open"
  /\ Received(Proof)
  /\ stage' = "ready"
  /\ s2cSeq' = NextSeq(offer)
  /\ s2c' = Append(s2c, IF offer THEN OtaAvailable(NextSeq(TRUE)) ELSE OtaNone)
  /\ UNCHANGED <<ws, keyed, msgSeq, call, pending, result, peer>>

\* Mutant: set_result without the test `not fut.done()`.
SetResultAgain(id, tag) ==
  /\ pending' = [pending EXCEPT ![id] = IF @ # "absent" THEN "result" ELSE @]
  /\ result' = [result EXCEPT ![id] = IF pending[id] # "absent" THEN tag ELSE @]

\* A future that is done (timed out, or answered already) swallows the message; a
\* reply nobody waits for any more goes to the callbacks, outside this module.
SetResult(id, tag) ==
  /\ pending' = [pending EXCEPT ![id] = IF @ = "wait" THEN "result" ELSE @]
  /\ result' = [result EXCEPT ![id] = IF pending[id] = "wait" THEN tag ELSE @]

Dispatch ==
  /\ stage = "ready"
  /\ c2s # <<>>
  /\ LET m == Head(c2s) IN Received(m) /\ SetResult(m.irt, m.tag)
  /\ UNCHANGED <<stage, ws, keyed, msgSeq, s2cSeq, call, s2c, peer>>

\* The handshake is refused or times out, the watchdog or the receive loop ends.
HandlerEnds ==
  /\ stage # "over"
  /\ stage' = "over"
  /\ ws' = IF ws = "open" THEN "closing" ELSE ws
  /\ UNCHANGED <<keyed, msgSeq, s2cSeq, call, pending, result, s2c, c2s, peer>>

Close ==
  /\ ws # "closed"
  /\ ws' = IF ws = "open" THEN "closing" ELSE "closed"
  /\ UNCHANGED <<stage, keyed, msgSeq, s2cSeq, call, pending, result, s2c, c2s, peer>>

(***************************************************************************)
(* The device: it takes the first message for the hello_ack, sends the     *)
(* signed ota_check, then answers requests, or loses them.  It verifies    *)
(* signed messages against a strictly increasing sequence number.          *)
(***************************************************************************)
DeviceGreeted ==
  /\ device = "greeting" /\ ws # "closed"
  /\ s2c # <<>>
  /\ s2c' = Tail(s2c)
  /\ IF Head(s2c) = HelloAck THEN device' = "up" /\ c2s' = Append(c2s, Proof)
                             ELSE device' = "failed" /\ UNCHANGED c2s
  /\ UNCHANGED <<server, devLast, refused>>

DeviceReceives(answers) ==
  /\ device = "up" /\ ws # "closed"
  /\ s2c # <<>>
  /\ s2c' = Tail(s2c)
  /\ LET m == Head(s2c) IN
       /\ devLast' = IF m.seq > devLast THEN m.seq ELSE devLast
       /\ refused' = IF m.seq # 0 /\ m.seq <= devLast THEN refused \cup {m.seq} ELSE refused
       /\ c2s' = IF answers /\ m.type = "request" THEN Append(c2s, Reply(m)) ELSE c2s
  /\ UNCHANGED <<server, device>>

Next ==
  \/ \E r \in Callers :
       \/ \E signed \in BOOLEAN : Issue(r, signed)
       \/ IssueUnkeyed(r)
       \/ SendResumes(r)
       \/ SendFails(r)
       \/ TimerFires(r)
       \/ ReturnReply(r)
       \/ RaiseTimeout(r)
  \/ HelloReceived
  \/ \E offer \in BOOLEAN : ProofReceived(offer)
  \/ Dispatch
  \/ HandlerEnds
  \/ Close
  \/ DeviceGreeted
  \/ \E answers \in BOOLEAN : DeviceReceives(answers)

Safety == Init /\ [][Next]_vars

(***************************************************************************)
(* Timers fire, runnable tasks run, and a closing socket ends up closed.   *)
(* Nothing is assumed of the device nor of a suspended send.               *)
(***************************************************************************)
Fairness ==
  /\ WF_vars(ws = "closing" /\ Close)
  /\ \A r \in Callers :
       /\ WF_vars(SendFails(r))
       /\ WF_vars(TimerFires(r))
       /\ WF_vars(ReturnReply(r) \/ RaiseTimeout(r))

Spec == Safety /\ Fairness
-----------------------------------------------------------------------------
(***************************************************************************)
(* Properties.                                                             *)
(***************************************************************************)

\* A call returns the answer to its own request: a late answer to a call that has
\* timed out never becomes the result of a later or of a concurrent one.
ReplyIsOwn ==
  \A r \in Callers : call[r].at = "ok" => call[r].value = call[r].tag

\* The device never refuses a signed message as a replay, however the concurrent
\* requests and the OTA offer are interleaved.
NeverRefused == refused = {}

\* _pending holds exactly the futures of the calls in flight, one each: no call
\* leaves one behind whatever way it ends.
PendingIsInFlight ==
  /\ \A i \in Ids : pending[i] # "absent" <=>
       \E r \in Callers : call[r].at \in InFlight /\ call[r].id = i
  /\ \A r, q \in Callers :
       call[r].at \in InFlight /\ call[q].at \in InFlight /\ call[r].id = call[q].id => r = q

\* A future that is done stays as it is: _dispatch never resolves it again
\* (set_result would raise and end the receive loop).
DoneStaysDone ==
  [][\A i \in Ids : pending[i] \in {"result", "cancelled"} =>
       pending'[i] = "absent" \/ (pending'[i] = pending[i] /\ result'[i] = result[i])]_vars

\* A call that waits for its reply returns or raises, whatever the device and the
\* connection do, and one caught in its send gets away when the connection closes.
CallsEnd ==
  \A r \in Callers :
    \/ call[r].at \in {"waiting", "expired"}
    \/ call[r].at \in {"sending", "blocked"} /\ ws # "open"
    ~> call[r].at \notin InFlight
==============================================================================
