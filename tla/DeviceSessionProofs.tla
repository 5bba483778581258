------------------------- MODULE DeviceSessionProofs -------------------------
(***************************************************************************)
(* Proofs about DeviceSession, for any number of callers and requests: the *)
(* futures in _pending, the replies returned, the numbers of signed        *)
(* messages.                                                               *)
(***************************************************************************)
EXTENDS DeviceSession, SequenceTheorems, TLAPS

(***************************************************************************)
(* The inductive invariant, in parts.                                      *)
(***************************************************************************)
\* Every signed message of a caller is one of its requests; the offer is one more.
Counted == s2cSeq <= msgSeq + (IF stage \in {"hello", "proof"} THEN 0 ELSE 1)

\* The device speaks in turn: hello, the proof once it has the hello_ack, then replies.
Turns ==
  /\ stage = "hello" =>
       /\ c2s = <<Hello>> /\ device # "up"
       /\ \A k \in DOMAIN s2c : s2c[k] # HelloAck
  /\ stage = "proof" =>
       IF device = "up"
         THEN /\ c2s # <<>> /\ c2s[1] = Proof
              /\ \A k \in DOMAIN c2s : k # 1 => c2s[k].type = "reply"
         ELSE c2s = <<>>
  /\ stage = "ready" =>
       /\ device = "up"
       /\ \A k \in DOMAIN c2s : c2s[k].type = "reply"

\* What is signed is numbered in the order of the wire, above all the device has seen.
Ordered ==
  /\ devLast <= s2cSeq
  /\ \A k \in DOMAIN s2c : s2c[k].seq # 0 => devLast < s2c[k].seq /\ s2c[k].seq <= s2cSeq
  /\ \A j, k \in DOMAIN s2c :
       j < k /\ s2c[j].seq # 0 /\ s2c[k].seq # 0 => s2c[j].seq < s2c[k].seq

\* No msg_id is in use that has not been given out.
Issued ==
  /\ \A r \in Callers : call[r].id <= msgSeq /\ (call[r].at \in InFlight => call[r].id # 0)
  /\ \A k \in DOMAIN s2c : s2c[k].type = "request" => s2c[k].id <= msgSeq
  /\ \A k \in DOMAIN c2s : c2s[k].type = "reply" => c2s[k].irt <= msgSeq

\* Whatever bears this msg_id is about the request with this tag.
Belongs(id, tag) ==
  /\ \A k \in DOMAIN s2c : s2c[k].type = "request" /\ s2c[k].id = id => s2c[k].tag = tag
  /\ \A k \in DOMAIN c2s : c2s[k].type = "reply" /\ c2s[k].irt = id => c2s[k].tag = tag

\* No message is mistaken for the answer to a call in flight.
Owned ==
  \A r \in Callers : call[r].at \in InFlight =>
    /\ Belongs(call[r].id, call[r].tag)
    /\ pending[call[r].id] = "result" => result[call[r].id] = call[r].tag

Inv ==
  /\ TypeOK /\ Counted /\ Turns
  /\ Ordered /\ NeverRefused
  /\ Issued /\ Owned /\ PendingIsInFlight /\ ReplyIsOwn

(***************************************************************************)
(* Types.                                                                  *)
(***************************************************************************)
LEMMA MessageTypes ==
  /\ HelloAck \in ToDevice /\ OtaNone \in ToDevice /\ Hello \in ToServer /\ Proof \in ToServer
  /\ \A q \in Seqs : OtaAvailable(q) \in ToDevice
  /\ \A id \in Ids, tag \in Tags, q \in Seqs : Request(id, tag, q) \in ToDevice
  /\ \A m \in ToDevice :
       /\ m.seq \in Seqs
       /\ m.type = "request" => m.id \in Ids /\ m.tag \in Tags /\ Reply(m) \in ToServer
  /\ \A m \in ToServer : m.type = "reply" => m.irt \in Ids /\ m.tag \in Tags
BY MaxMsgsAssumption
   DEF MaxMsgsAssumption, ToDevice, ToServer, HelloAck, OtaNone, OtaAvailable, Request,
       Hello, Proof, Reply, Seqs

\* A message put on the wire.
LEMMA PutType ==
  ASSUME TypeOK
  PROVE  /\ \A m \in ToDevice : Append(s2c, m) \in Seq(ToDevice)
         /\ \A m \in ToServer : Append(c2s, m) \in Seq(ToServer)
BY DEF TypeOK

\* The first message taken from it.
LEMMA TakeType ==
  ASSUME TypeOK
  PROVE  /\ s2c # <<>> => Head(s2c) \in ToDevice /\ Tail(s2c) \in Seq(ToDevice)
         /\ c2s # <<>> => Head(c2s) \in ToServer /\ Tail(c2s) \in Seq(ToServer)
BY DEF TypeOK

LEMMA InitInv == Init => Inv
<1> SUFFICES ASSUME Init
             PROVE  Inv
  OBVIOUS
<1>1. TypeOK
  <2>1. s2c \in Seq(ToDevice) /\ c2s \in Seq(ToServer)
    BY MessageTypes DEF Init
  <2>2. call \in [Callers -> [at : {"idle", "ok", "timeout", "failed"} \cup InFlight,
                             id : 0..MaxMsgs, tag : Tags \cup {NoTag},
                             value : Tags \cup {NoTag}]]
    BY MaxMsgsAssumption DEF MaxMsgsAssumption, Init
  <2>3. /\ msgSeq \in 0..MaxMsgs /\ s2cSeq \in Seqs /\ devLast \in Seqs
        /\ refused \subseteq Seqs
    BY MaxMsgsAssumption DEF MaxMsgsAssumption, Init, Seqs
  <2> QED
    BY <2>1, <2>2, <2>3 DEF Init, TypeOK
<1>2. Counted /\ Turns /\ Ordered /\ NeverRefused
  BY DEF Init, Counted, Turns, Ordered, NeverRefused, HelloAck
<1>3. Issued /\ Owned /\ PendingIsInFlight /\ ReplyIsOwn
  BY DEF Init, Issued, Owned, Belongs, PendingIsInFlight, ReplyIsOwn, InFlight, Hello
<1> QED
  BY <1>1, <1>2, <1>3 DEF Inv

(***************************************************************************)
(* The steps: one lemma per part of the invariant.                         *)
(***************************************************************************)
Places == {"idle", "ok", "timeout", "failed"} \cup InFlight
CallTypes == [Callers -> [at : Places, id : 0..MaxMsgs, tag : Tags \cup {NoTag},
                          value : Tags \cup {NoTag}]]

\* A call that goes on to another place.
LEMMA MovedCall ==
  ASSUME TypeOK, NEW r \in Callers, NEW a \in Places
  PROVE  [call EXCEPT ![r].at = a] \in CallTypes
BY DEF TypeOK, CallTypes, Places

\* A new call, and the message it writes.
LEMMA NewCallType ==
  ASSUME TypeOK, NEW r \in Callers, Idle(r)
  PROVE  /\ NextMsgId \in Ids /\ <<r, msgSeq>> \in Tags
         /\ \A at \in Places : NewCall(r, at, <<r, msgSeq>>) => call' \in CallTypes
<1>1. NextMsgId \in Ids /\ <<r, msgSeq>> \in Tags
  BY MaxMsgsAssumption DEF MaxMsgsAssumption, TypeOK, Idle, NextMsgId, Ids, Tags
<1>2. NextMsgId \in 0..MaxMsgs
  BY <1>1, MaxMsgsAssumption DEF MaxMsgsAssumption, Ids
<1>3. ASSUME NEW at \in Places, NewCall(r, at, <<r, msgSeq>>)
      PROVE  call' \in CallTypes
  <2> DEFINE rec == [at |-> at, id |-> NextMsgId, tag |-> <<r, msgSeq>>, value |-> NoTag]
  <2>1. rec \in [at : Places, id : 0..MaxMsgs, tag : Tags \cup {NoTag},
                 value : Tags \cup {NoTag}]
    BY <1>1, <1>2
  <2>2. call' = [call EXCEPT ![r] = rec]
    BY <1>3 DEF NewCall
  <2> HIDE DEF rec
  <2> QED
    BY <2>1, <2>2 DEF TypeOK, CallTypes, Places
<1> QED
  BY <1>1, <1>3

\* Signing stays within the bound: it is done once per request and once for the offer.
LEMMA CountedStep ==
  ASSUME TypeOK, Counted, [Next]_vars
  PROVE  s2cSeq' \in Seqs /\ Counted' /\ msgSeq' \in 0..MaxMsgs
<1> USE MaxMsgsAssumption DEF MaxMsgsAssumption, TypeOK, Counted, Seqs, NextSeq
<1>1. ASSUME NEW r \in Callers, NEW signed \in BOOLEAN, Issue(r, signed)
      PROVE  s2cSeq' \in Seqs /\ Counted' /\ msgSeq' \in 0..MaxMsgs
  BY <1>1 DEF Issue, Idle
<1>2. ASSUME NEW r \in Callers, IssueUnkeyed(r)
      PROVE  s2cSeq' \in Seqs /\ Counted' /\ msgSeq' \in 0..MaxMsgs
  BY <1>2 DEF IssueUnkeyed, Idle
<1>3. CASE HelloReceived
  BY <1>3 DEF HelloReceived
<1>4. ASSUME NEW offer \in BOOLEAN, ProofReceived(offer)
      PROVE  s2cSeq' \in Seqs /\ Counted' /\ msgSeq' \in 0..MaxMsgs
  BY <1>4 DEF ProofReceived
<1>5. CASE HandlerEnds
  BY <1>5 DEF HandlerEnds
<1>6. CASE UNCHANGED <<stage, msgSeq, s2cSeq>>
  BY <1>6
<1>7. ASSUME NEW r \in Callers,
             SendResumes(r) \/ SendFails(r) \/ TimerFires(r) \/ ReturnReply(r) \/ RaiseTimeout(r)
      PROVE  UNCHANGED <<stage, msgSeq, s2cSeq>>
  BY <1>7 DEF SendResumes, SendFails, TimerFires, ReturnReply, RaiseTimeout
<1>8. ASSUME Dispatch \/ Close \/ DeviceGreeted \/ UNCHANGED vars
             \/ \E answers \in BOOLEAN : DeviceReceives(answers)
      PROVE  UNCHANGED <<stage, msgSeq, s2cSeq>>
  BY <1>8 DEF Dispatch, Close, DeviceGreeted, DeviceReceives, server, vars
<1> QED
  BY <1>1, <1>2, <1>3, <1>4, <1>5, <1>6, <1>7, <1>8 DEF Next

LEMMA TypeStep == TypeOK /\ Counted /\ Turns /\ Issued /\ [Next]_vars => TypeOK'
<1> SUFFICES ASSUME TypeOK, Counted, Turns, Issued, [Next]_vars
             PROVE  TypeOK'
  OBVIOUS
<1>a. s2cSeq' \in Seqs /\ msgSeq' \in 0..MaxMsgs
  BY CountedStep
<1>b. call \in CallTypes
  BY DEF TypeOK, CallTypes, Places
<1> USE DEF server, peer
<1>1. ASSUME NEW r \in Callers, NEW signed \in BOOLEAN, Issue(r, signed)
      PROVE  TypeOK'
  <2>1. PICK at \in Places : NewCall(r, at, <<r, msgSeq>>)
    BY <1>1 DEF Issue, Places, InFlight
  <2>2. call' \in CallTypes /\ NextMsgId \in Ids /\ <<r, msgSeq>> \in Tags
    BY <1>1, <2>1, NewCallType DEF Issue
  <2>3. pending' \in [Ids -> {"absent", "wait", "result", "cancelled"}]
    BY <1>1, <2>2 DEF Issue, TypeOK
  <2>4. s2c' \in Seq(ToDevice)
    <3>1. NextSeq(signed) \in Seqs /\ 0 \in Seqs
      BY <1>1, <1>a, MaxMsgsAssumption DEF Issue, MaxMsgsAssumption, Seqs
    <3>2. \A q \in Seqs : Append(s2c, Request(NextMsgId, <<r, msgSeq>>, q)) \in Seq(ToDevice)
      BY <2>2, MessageTypes, PutType
    <3> QED
      BY <1>1, <3>1, <3>2 DEF Issue, TypeOK
  <2> QED
    BY <1>1, <1>a, <2>2, <2>3, <2>4 DEF Issue, TypeOK, CallTypes, Places
<1>2. ASSUME NEW r \in Callers, IssueUnkeyed(r)
      PROVE  TypeOK'
  <2>1. call' \in CallTypes
    BY <1>2, NewCallType DEF IssueUnkeyed, Places
  <2> QED
    BY <1>2, <1>a, <2>1 DEF IssueUnkeyed, TypeOK, CallTypes, Places
<1>3. ASSUME NEW r \in Callers,
             \/ SendResumes(r) \/ SendFails(r)
             \/ TimerFires(r) \/ ReturnReply(r) \/ RaiseTimeout(r)
      PROVE  TypeOK'
  <2>1. call' \in CallTypes
    <3>1. CASE ReturnReply(r)
      <4>1. call[r].id \in Ids
        BY <3>1, MaxMsgsAssumption
           DEF ReturnReply, Issued, InFlight, TypeOK, MaxMsgsAssumption, Ids
      <4>2. "ok" \in Places
        BY DEF Places
      <4> QED
        BY <1>b, <3>1, <4>1, <4>2, ZenonT(30) DEF ReturnReply, CallTypes, TypeOK
    <3>2. CASE SendResumes(r) \/ TimerFires(r)
      <4>1. "waiting" \in Places /\ "expired" \in Places
        BY DEF Places, InFlight
      <4> QED
        BY <3>2, <4>1, MovedCall DEF SendResumes, TimerFires
    <3>3. CASE SendFails(r) \/ RaiseTimeout(r)
      <4>1. "failed" \in Places /\ "timeout" \in Places
        BY DEF Places
      <4> QED
        BY <3>3, <4>1, MovedCall DEF SendFails, RaiseTimeout
    <3> QED
      BY <1>3, <3>1, <3>2, <3>3
  <2>2. pending' \in [Ids -> {"absent", "wait", "result", "cancelled"}]
    <3>1. CASE SendResumes(r)
      BY <3>1 DEF SendResumes, TypeOK
    <3>2. CASE TimerFires(r)
      BY <3>2 DEF TimerFires, TypeOK
    <3>3. CASE Pop(r)
      BY <3>3 DEF Pop, TypeOK
    <3> QED
      BY <1>3, <3>1, <3>2, <3>3 DEF SendFails, ReturnReply, RaiseTimeout
  <2>3. UNCHANGED <<stage, ws, keyed, msgSeq, s2cSeq, result, s2c, c2s, peer>>
    BY <1>3 DEF SendResumes, SendFails, TimerFires, ReturnReply, RaiseTimeout
  <2> QED
    BY <2>1, <2>2, <2>3 DEF TypeOK, CallTypes, Places
<1>4. CASE HelloReceived
  <2>1. s2c' \in Seq(ToDevice) /\ c2s' \in Seq(ToServer)
    BY <1>4, MessageTypes, PutType, TakeType DEF HelloReceived, Received
  <2> QED
    BY <1>4, <2>1 DEF HelloReceived, TypeOK
<1>5. ASSUME NEW offer \in BOOLEAN, ProofReceived(offer)
      PROVE  TypeOK'
  <2>1. (IF offer THEN OtaAvailable(NextSeq(TRUE)) ELSE OtaNone) \in ToDevice
    BY <1>5, <1>a, MessageTypes DEF ProofReceived, NextSeq
  <2>2. s2c' \in Seq(ToDevice) /\ c2s' \in Seq(ToServer)
    BY <1>5, <2>1, PutType, TakeType DEF ProofReceived, Received
  <2> QED
    BY <1>5, <1>a, <2>2 DEF ProofReceived, TypeOK
<1>6. CASE Dispatch
  <2>1. Head(c2s).type = "reply"
    BY <1>6 DEF Dispatch, Turns, TypeOK
  <2>2. Head(c2s).irt \in Ids /\ Head(c2s).tag \in Tags /\ c2s' \in Seq(ToServer)
    BY <1>6, <2>1, MessageTypes, TakeType DEF Dispatch, Received
  <2>3. pending' \in [Ids -> {"absent", "wait", "result", "cancelled"}]
    BY <1>6, <2>2 DEF Dispatch, SetResult, TypeOK
  <2>4. result' \in [Ids -> Tags \cup {NoTag}]
    BY <1>6, <2>2 DEF Dispatch, SetResult, TypeOK
  <2> QED
    BY <1>6, <2>2, <2>3, <2>4 DEF Dispatch, TypeOK
<1>7. CASE HandlerEnds \/ Close
  BY <1>7 DEF HandlerEnds, Close, TypeOK
<1>8. CASE DeviceGreeted
  <2>1. s2c' \in Seq(ToDevice) /\ c2s' \in Seq(ToServer)
    BY <1>8, MessageTypes, PutType, TakeType DEF DeviceGreeted, TypeOK
  <2> QED
    BY <1>8, <2>1 DEF DeviceGreeted, TypeOK
<1>9. ASSUME NEW answers \in BOOLEAN, DeviceReceives(answers)
      PROVE  TypeOK'
  <2>1. Head(s2c) \in ToDevice /\ s2c' \in Seq(ToDevice)
    BY <1>9, TakeType DEF DeviceReceives
  <2>2. Head(s2c).seq \in Seqs /\ (Head(s2c).type = "request" => Reply(Head(s2c)) \in ToServer)
    BY <2>1, MessageTypes
  <2>3. c2s' \in Seq(ToServer)
    BY <1>9, <2>2, PutType DEF DeviceReceives, TypeOK
  <2>4. devLast' \in Seqs /\ refused' \subseteq Seqs
    BY <1>9, <2>2 DEF DeviceReceives, TypeOK
  <2> QED
    BY <1>9, <2>1, <2>3, <2>4 DEF DeviceReceives, TypeOK
<1>10. CASE UNCHANGED vars
  BY <1>10 DEF vars, TypeOK
<1> QED
  BY <1>1, <1>2, <1>3, <1>4, <1>5, <1>6, <1>7, <1>8, <1>9, <1>10 DEF Next

\* The device's hello, proof and replies reach the handler in this order.
LEMMA TurnsStep == TypeOK /\ Turns /\ [Next]_vars => Turns'
<1> SUFFICES ASSUME TypeOK, Turns, [Next]_vars
             PROVE  Turns'
  OBVIOUS
<1> USE DEF server, peer
<1>1. ASSUME NEW r \in Callers, NEW signed \in BOOLEAN, Issue(r, signed)
      PROVE  Turns'
  <2>1. CASE s2c' = s2c
    BY <1>1, <2>1 DEF Issue, Turns
  <2>2. ASSUME NEW q, s2c' = Append(s2c, Request(NextMsgId, <<r, msgSeq>>, q))
        PROVE  Turns'
    <3>1. s2c \in Seq(ToDevice)
      BY DEF TypeOK
    <3>2. \A k \in DOMAIN s2c' :
            \/ k \in DOMAIN s2c /\ s2c'[k] = s2c[k]
            \/ s2c'[k] = Request(NextMsgId, <<r, msgSeq>>, q)
      BY <2>2, <3>1
    <3>3. Request(NextMsgId, <<r, msgSeq>>, q) # HelloAck
      BY DEF Request, HelloAck
    <3> QED
      BY <1>1, <3>2, <3>3 DEF Issue, Turns
  <2> QED
    BY <1>1, <2>1, <2>2 DEF Issue
<1>2. CASE HelloReceived
  <2>1. device' # "up" /\ stage' = "proof" /\ c2s' = Tail(<<Hello>>)
    BY <1>2 DEF HelloReceived, Received, Turns
  <2>2. Tail(<<Hello>>) = <<>>
    OBVIOUS
  <2> QED
    BY <2>1, <2>2 DEF Turns
<1>3. ASSUME NEW offer \in BOOLEAN, ProofReceived(offer)
      PROVE  Turns'
  <2>1. device = "up" /\ c2s # <<>>
    BY <1>3 DEF ProofReceived, Received, Turns
  <2>2. \A k \in DOMAIN c2s' : k + 1 \in DOMAIN c2s /\ c2s'[k] = c2s[k + 1] /\ k + 1 # 1
    BY <1>3, <2>1 DEF ProofReceived, Received, TypeOK
  <2> QED
    BY <1>3, <2>1, <2>2 DEF ProofReceived, Turns
<1>4. CASE Dispatch
  <2>1. \A k \in DOMAIN c2s' : k + 1 \in DOMAIN c2s /\ c2s'[k] = c2s[k + 1]
    BY <1>4 DEF Dispatch, Received, TypeOK
  <2> QED
    BY <1>4, <2>1 DEF Dispatch, Turns
<1>5. CASE HandlerEnds
  BY <1>5 DEF HandlerEnds, Turns
<1>6. CASE DeviceGreeted
  <2>1. stage # "hello" \/ Head(s2c) # HelloAck
    BY <1>6 DEF DeviceGreeted, Turns, TypeOK
  <2>2. \A k \in DOMAIN s2c' : k + 1 \in DOMAIN s2c /\ s2c'[k] = s2c[k + 1]
    BY <1>6 DEF DeviceGreeted, TypeOK
  <2>3. CASE Head(s2c) = HelloAck
    BY <1>6, <2>1, <2>3 DEF DeviceGreeted, Turns
  <2>4. CASE Head(s2c) # HelloAck
    BY <1>6, <2>2, <2>4 DEF DeviceGreeted, Turns
  <2> QED
    BY <2>3, <2>4
<1>7. ASSUME NEW answers \in BOOLEAN, DeviceReceives(answers)
      PROVE  Turns'
  <2>1. \A k \in DOMAIN s2c' : k + 1 \in DOMAIN s2c /\ s2c'[k] = s2c[k + 1]
    BY <1>7 DEF DeviceReceives, TypeOK
  <2>2. \A k \in DOMAIN c2s' :
          (k \in DOMAIN c2s /\ c2s'[k] = c2s[k]) \/ (k > Len(c2s) /\ c2s'[k].type = "reply")
    <3>1. CASE c2s' = c2s
      BY <3>1
    <3>2. CASE c2s' = Append(c2s, Reply(Head(s2c)))
      <4>1. Reply(Head(s2c)).type = "reply"
        BY DEF Reply
      <4> QED
        BY <3>2, <4>1 DEF TypeOK
    <3> QED
      BY <1>7, <3>1, <3>2 DEF DeviceReceives
  <2>3. c2s # <<>> => c2s' # <<>> /\ c2s'[1] = c2s[1]
    BY <1>7, SMTT(30) DEF DeviceReceives, TypeOK
  <2>4. c2s = <<>> => stage # "proof"
    BY <1>7 DEF DeviceReceives, Turns
  <2> QED
    BY <1>7, <2>1, <2>2, <2>3, <2>4 DEF DeviceReceives, Turns
<1>8. CASE UNCHANGED <<stage, s2c, c2s, device>>
  BY <1>8 DEF Turns
<1>9. ASSUME NEW r \in Callers,
             \/ IssueUnkeyed(r) \/ SendResumes(r) \/ SendFails(r)
             \/ TimerFires(r) \/ ReturnReply(r) \/ RaiseTimeout(r)
      PROVE  UNCHANGED <<stage, s2c, c2s, device>>
  BY <1>9 DEF IssueUnkeyed, SendResumes, SendFails, TimerFires, ReturnReply, RaiseTimeout
<1>10. ASSUME Close \/ UNCHANGED vars
       PROVE  UNCHANGED <<stage, s2c, c2s, device>>
  BY <1>10 DEF Close, vars
<1> QED
  BY <1>1, <1>2, <1>3, <1>4, <1>5, <1>6, <1>7, <1>8, <1>9, <1>10 DEF Next

\* Signing and writing are one step, so the wire carries the numbers in their order.
LEMMA OrderedStep ==
  TypeOK /\ Counted /\ Ordered /\ NeverRefused /\ [Next]_vars => Ordered' /\ NeverRefused'
<1> SUFFICES ASSUME TypeOK, Counted, Ordered, NeverRefused, [Next]_vars
             PROVE  Ordered' /\ NeverRefused'
  OBVIOUS
<1> USE DEF server, peer
<1>n. /\ s2cSeq \in Nat /\ s2cSeq' \in Nat /\ devLast \in Nat
      /\ \A k \in DOMAIN s2c : s2c[k].seq \in Nat
  BY CountedStep, MessageTypes, MaxMsgsAssumption DEF TypeOK, Seqs, MaxMsgsAssumption
\* The counter goes up, and a message may be written with its new value or unsigned.
<1>a. ASSUME NEW m \in ToDevice, s2c' = s2c \/ s2c' = Append(s2c, m),
             m.seq \in {0, s2cSeq + 1}, s2cSeq' >= s2cSeq, s2cSeq' >= m.seq, UNCHANGED peer
      PROVE  Ordered' /\ NeverRefused'
  <2>1. \A k \in DOMAIN s2c' :
          \/ k \in 1..Len(s2c) /\ k \in DOMAIN s2c /\ s2c'[k] = s2c[k]
          \/ k = Len(s2c) + 1 /\ s2c'[k] = m
    BY <1>a DEF TypeOK
  <2>2. Len(s2c) \in Nat
    BY DEF TypeOK
  <2>3. devLast' <= s2cSeq' /\ NeverRefused'
    BY <1>n, <1>a DEF Ordered, NeverRefused
  <2>4. \A k \in DOMAIN s2c' : s2c'[k].seq # 0 =>
          devLast < s2c'[k].seq /\ s2c'[k].seq <= s2cSeq'
    BY <1>n, <1>a, <2>1 DEF Ordered
  <2>5. \A j, k \in DOMAIN s2c' :
          j < k /\ s2c'[j].seq # 0 /\ s2c'[k].seq # 0 => s2c'[j].seq < s2c'[k].seq
    BY <1>n, <1>a, <2>1, <2>2, SMTT(30) DEF Ordered
  <2> QED
    BY <1>a, <2>3, <2>4, <2>5 DEF Ordered
\* The head is taken off, and the device remembers its number.
<1>b. ASSUME s2c # <<>>, s2c' = Tail(s2c), UNCHANGED <<s2cSeq, refused>>,
             devLast' = devLast \/ (devLast' = s2c[1].seq /\ s2c[1].seq # 0)
      PROVE  Ordered' /\ NeverRefused'
  <2>1. \A k \in DOMAIN s2c' :
          /\ k \in 1..Len(s2c') /\ k + 1 \in DOMAIN s2c
          /\ s2c'[k] = s2c[k + 1]
    BY <1>b DEF TypeOK
  <2>2. 1 \in DOMAIN s2c
    BY <1>b DEF TypeOK
  <2>3. devLast' <= s2cSeq' /\ NeverRefused'
    BY <1>n, <1>b, <2>2 DEF Ordered, NeverRefused
  <2>4. \A k \in DOMAIN s2c' : s2c'[k].seq # 0 =>
          devLast' < s2c'[k].seq /\ s2c'[k].seq <= s2cSeq'
    BY <1>n, <1>b, <2>1, <2>2 DEF Ordered
  <2>5. \A j, k \in DOMAIN s2c' :
          j < k /\ s2c'[j].seq # 0 /\ s2c'[k].seq # 0 => s2c'[j].seq < s2c'[k].seq
    BY <2>1 DEF Ordered
  <2> QED
    BY <2>3, <2>4, <2>5 DEF Ordered
<1>1. ASSUME NEW r \in Callers, NEW signed \in BOOLEAN, Issue(r, signed)
      PROVE  Ordered' /\ NeverRefused'
  <2> DEFINE q == IF signed THEN NextSeq(signed) ELSE 0
             m == Request(NextMsgId, <<r, msgSeq>>, q)
  <2>1. NextMsgId \in Ids /\ <<r, msgSeq>> \in Tags
    BY <1>1, NewCallType DEF Issue
  <2>2. s2cSeq' = NextSeq(signed) /\ s2cSeq' \in Seqs /\ 0 \in Seqs
    BY <1>1, CountedStep, MaxMsgsAssumption DEF Issue, Seqs, MaxMsgsAssumption
  <2>3. m \in ToDevice /\ m.seq = q
    BY <2>1, <2>2, MessageTypes DEF Request
  <2>4. q \in {0, s2cSeq + 1} /\ s2cSeq' >= s2cSeq /\ s2cSeq' >= q
    BY <1>n, <2>2 DEF NextSeq
  <2>5. (s2c' = s2c \/ s2c' = Append(s2c, m)) /\ UNCHANGED peer
    BY <1>1 DEF Issue
  <2> HIDE DEF m, q
  <2> QED
    BY <1>a, <2>3, <2>4, <2>5
<1>2. ASSUME NEW r \in Callers, IssueUnkeyed(r)
      PROVE  Ordered' /\ NeverRefused'
  <2>1. HelloAck \in ToDevice /\ HelloAck.seq = 0
    BY MessageTypes DEF HelloAck
  <2> QED
    BY <1>2, <1>a, <1>n, <2>1 DEF IssueUnkeyed, NextSeq
<1>3. CASE HelloReceived
  <2>1. HelloAck \in ToDevice /\ HelloAck.seq = 0
    BY MessageTypes DEF HelloAck
  <2> QED
    BY <1>3, <1>a, <1>n, <2>1 DEF HelloReceived
<1>4. ASSUME NEW offer \in BOOLEAN, ProofReceived(offer)
      PROVE  Ordered' /\ NeverRefused'
  <2>1. s2cSeq' = NextSeq(offer) /\ s2cSeq' \in Seqs /\ UNCHANGED peer
    BY <1>4, CountedStep DEF ProofReceived
  <2>2. CASE offer
    <3>1. OtaAvailable(s2cSeq') \in ToDevice /\ OtaAvailable(s2cSeq').seq = s2cSeq'
      BY <2>1, MessageTypes DEF OtaAvailable
    <3>2. s2c' = Append(s2c, OtaAvailable(s2cSeq')) /\ s2cSeq' = s2cSeq + 1
      BY <1>4, <2>2 DEF ProofReceived, NextSeq
    <3> QED
      BY <1>a, <1>n, <2>1, <3>1, <3>2
  <2>3. CASE ~offer
    <3>1. OtaNone \in ToDevice /\ OtaNone.seq = 0
      BY MessageTypes DEF OtaNone
    <3>2. s2c' = Append(s2c, OtaNone) /\ s2cSeq' = s2cSeq
      BY <1>4, <2>3 DEF ProofReceived, NextSeq
    <3> QED
      BY <1>a, <1>n, <2>1, <3>1, <3>2
  <2> QED
    BY <2>2, <2>3
<1>5. CASE DeviceGreeted
  BY <1>5, <1>b DEF DeviceGreeted
<1>6. ASSUME NEW answers \in BOOLEAN, DeviceReceives(answers)
      PROVE  Ordered' /\ NeverRefused'
  <2>1. s2c # <<>> /\ s2c' = Tail(s2c) /\ s2cSeq' = s2cSeq /\ Head(s2c) = s2c[1]
    BY <1>6 DEF DeviceReceives, TypeOK
  <2>2. 1 \in DOMAIN s2c
    BY <2>1 DEF TypeOK
  <2>3. ~(s2c[1].seq # 0 /\ s2c[1].seq <= devLast)
    BY <1>n, <2>2 DEF Ordered
  <2>4. refused' = refused
    BY <1>6, <2>1, <2>3 DEF DeviceReceives
  <2>5. devLast' = devLast \/ (devLast' = s2c[1].seq /\ s2c[1].seq # 0)
    BY <1>6, <1>n, <2>1, <2>2 DEF DeviceReceives
  <2> QED
    BY <1>b, <2>1, <2>4, <2>5
<1>7. CASE UNCHANGED <<s2cSeq, s2c, devLast, refused>>
  BY <1>7 DEF Ordered, NeverRefused
<1>8. ASSUME NEW r \in Callers,
             SendResumes(r) \/ SendFails(r) \/ TimerFires(r) \/ ReturnReply(r) \/ RaiseTimeout(r)
      PROVE  UNCHANGED <<s2cSeq, s2c, devLast, refused>>
  BY <1>8 DEF SendResumes, SendFails, TimerFires, ReturnReply, RaiseTimeout
<1>9. ASSUME Dispatch \/ HandlerEnds \/ Close \/ UNCHANGED vars
      PROVE  UNCHANGED <<s2cSeq, s2c, devLast, refused>>
  BY <1>9 DEF Dispatch, HandlerEnds, Close, vars
<1> QED
  BY <1>1, <1>2, <1>3, <1>4, <1>5, <1>6, <1>7, <1>8, <1>9 DEF Next

\* What is on the wire was there before, or is new: a request with a fresh msg_id, or
\* the reply to a request.
LEMMA MessagesStep ==
  ASSUME TypeOK, [Next]_vars
  PROVE  /\ \A k \in DOMAIN s2c' : s2c'[k].type = "request" =>
              \/ \E j \in DOMAIN s2c : s2c'[k] = s2c[j]
              \/ /\ msgSeq' = msgSeq + 1
                 /\ s2c'[k].id = msgSeq + 1
                 /\ \E r \in Callers : /\ NewCall(r, call'[r].at, <<r, msgSeq>>)
                                       /\ s2c'[k].tag = <<r, msgSeq>>
         /\ \A k \in DOMAIN c2s' : c2s'[k].type = "reply" =>
              \/ \E j \in DOMAIN c2s : c2s'[k] = c2s[j]
              \/ \E j \in DOMAIN s2c : s2c[j].type = "request" /\ c2s'[k] = Reply(s2c[j])
<1> DEFINE Requests == \A k \in DOMAIN s2c' : s2c'[k].type = "request" =>
              \/ \E j \in DOMAIN s2c : s2c'[k] = s2c[j]
              \/ /\ msgSeq' = msgSeq + 1
                 /\ s2c'[k].id = msgSeq + 1
                 /\ \E r \in Callers : /\ NewCall(r, call'[r].at, <<r, msgSeq>>)
                                       /\ s2c'[k].tag = <<r, msgSeq>>
           Replies == \A k \in DOMAIN c2s' : c2s'[k].type = "reply" =>
              \/ \E j \in DOMAIN c2s : c2s'[k] = c2s[j]
              \/ \E j \in DOMAIN s2c : s2c[j].type = "request" /\ c2s'[k] = Reply(s2c[j])
<1> SUFFICES Requests /\ Replies
  OBVIOUS
<1> USE DEF server, peer
<1>a. (s2c' = s2c => Requests) /\ (c2s' = c2s => Replies)
  OBVIOUS
<1>b. /\ s2c # <<>> /\ s2c' = Tail(s2c) => Requests
      /\ c2s # <<>> /\ c2s' = Tail(c2s) => Replies
  <2>1. s2c # <<>> /\ s2c' = Tail(s2c) =>
          \A k \in DOMAIN s2c' : k + 1 \in DOMAIN s2c /\ s2c'[k] = s2c[k + 1]
    BY DEF TypeOK
  <2>2. c2s # <<>> /\ c2s' = Tail(c2s) =>
          \A k \in DOMAIN c2s' : k + 1 \in DOMAIN c2s /\ c2s'[k] = c2s[k + 1]
    BY DEF TypeOK
  <2> QED
    BY <2>1, <2>2
<1>c. ASSUME NEW m \in ToDevice, m.type # "request", s2c' = Append(s2c, m)
      PROVE  Requests
  <2>1. \A k \in DOMAIN s2c' : (k \in DOMAIN s2c /\ s2c'[k] = s2c[k]) \/ s2c'[k] = m
    BY <1>c DEF TypeOK
  <2> QED
    BY <1>c, <2>1
<1>d. ASSUME NEW m \in ToServer, c2s' = Append(c2s, m),
             m = Proof \/ \E j \in DOMAIN s2c : s2c[j].type = "request" /\ m = Reply(s2c[j])
      PROVE  Replies
  <2>1. \A k \in DOMAIN c2s' : (k \in DOMAIN c2s /\ c2s'[k] = c2s[k]) \/ c2s'[k] = m
    BY <1>d DEF TypeOK
  <2>2. Proof.type # "reply"
    BY DEF Proof
  <2> QED
    BY <1>d, <2>1, <2>2
<1>1. ASSUME NEW r \in Callers, NEW signed \in BOOLEAN, Issue(r, signed)
      PROVE  Requests /\ Replies
  <2>1. CASE s2c' = s2c
    BY <1>1, <1>a, <2>1 DEF Issue
  <2>2. CASE s2c' # s2c
    <3> DEFINE q == IF signed THEN NextSeq(signed) ELSE 0
    <3>1. s2c' = Append(s2c, Request(NextMsgId, <<r, msgSeq>>, q))
      BY <1>1, <2>2 DEF Issue
    <3> HIDE DEF q
    <3>2. PICK at : NewCall(r, at, <<r, msgSeq>>)
      BY <1>1 DEF Issue
    <3>3. NewCall(r, call'[r].at, <<r, msgSeq>>)
      BY <3>2 DEF NewCall, TypeOK
    <3>4. \A k \in DOMAIN s2c' :
            \/ k \in DOMAIN s2c /\ s2c'[k] = s2c[k]
            \/ s2c'[k] = Request(NextMsgId, <<r, msgSeq>>, q)
      BY <3>1 DEF TypeOK
    <3>5. /\ Request(NextMsgId, <<r, msgSeq>>, q).id = msgSeq + 1
          /\ Request(NextMsgId, <<r, msgSeq>>, q).tag = <<r, msgSeq>>
      BY DEF Request, NextMsgId
    <3>6. Requests
      BY <1>1, <3>3, <3>4, <3>5 DEF Issue
    <3> QED
      BY <1>1, <1>a, <3>6 DEF Issue
  <2> QED
    BY <2>1, <2>2
<1>2. CASE HelloReceived
  <2>1. HelloAck.type # "request"
    BY DEF HelloAck
  <2> QED
    BY <1>2, <1>b, <1>c, <2>1, MessageTypes DEF HelloReceived, Received
<1>3. ASSUME NEW offer \in BOOLEAN, ProofReceived(offer)
      PROVE  Requests /\ Replies
  <2> DEFINE m == IF offer THEN OtaAvailable(NextSeq(TRUE)) ELSE OtaNone
  <2>1. s2c' = Append(s2c, m)
    BY <1>3 DEF ProofReceived
  <2>2. m.type # "request"
    <3>1. OtaNone.type = "ota_none" /\ \A q : OtaAvailable(q).type = "ota_available"
      BY DEF OtaNone, OtaAvailable
    <3> QED
      BY <3>1
  <2> HIDE DEF m
  <2>3. \A k \in DOMAIN s2c' : (k \in DOMAIN s2c /\ s2c'[k] = s2c[k]) \/ s2c'[k] = m
    BY <2>1 DEF TypeOK
  <2>4. Requests
    BY <2>2, <2>3
  <2> QED
    BY <1>3, <1>b, <2>4 DEF ProofReceived, Received
<1>4. CASE Dispatch
  BY <1>4, <1>a, <1>b DEF Dispatch, Received
<1>5. CASE DeviceGreeted
  <2>1. Requests
    BY <1>5, <1>b DEF DeviceGreeted
  <2>2. Proof \in ToServer
    BY MessageTypes
  <2> HIDE DEF Requests, Replies
  <2> QED
    BY <1>5, <1>a, <1>d, <2>1, <2>2 DEF DeviceGreeted
<1>6. ASSUME NEW answers \in BOOLEAN, DeviceReceives(answers)
      PROVE  Requests /\ Replies
  <2>1. 1 \in DOMAIN s2c /\ Head(s2c) = s2c[1] /\ s2c[1] \in ToDevice
    BY <1>6 DEF DeviceReceives, TypeOK
  <2>2. CASE c2s' = c2s
    BY <1>6, <1>a, <1>b, <2>2 DEF DeviceReceives
  <2>3. CASE c2s' = Append(c2s, Reply(s2c[1])) /\ s2c[1].type = "request"
    <3>1. Reply(s2c[1]) \in ToServer
      BY <2>1, <2>3, MessageTypes
    <3> QED
      BY <1>6, <1>b, <1>d, <2>1, <2>3, <3>1 DEF DeviceReceives
  <2> QED
    BY <1>6, <2>1, <2>2, <2>3 DEF DeviceReceives
<1>7. ASSUME NEW r \in Callers,
             \/ IssueUnkeyed(r) \/ SendResumes(r) \/ SendFails(r)
             \/ TimerFires(r) \/ ReturnReply(r) \/ RaiseTimeout(r)
      PROVE  Requests /\ Replies
  <2>1. s2c' = s2c /\ c2s' = c2s
    BY <1>7 DEF IssueUnkeyed, SendResumes, SendFails, TimerFires, ReturnReply, RaiseTimeout
  <2> QED
    BY <1>a, <2>1
<1>8. CASE HandlerEnds \/ Close \/ UNCHANGED vars
  BY <1>8, <1>a DEF HandlerEnds, Close, vars
<1> HIDE DEF Requests, Replies
<1> QED
  BY <1>1, <1>2, <1>3, <1>4, <1>5, <1>6, <1>7, <1>8 DEF Next

\* What belongs to a request goes on belonging to it.
LEMMA BelongsStep ==
  ASSUME TypeOK, Issued, [Next]_vars, NEW id \in 1..msgSeq, NEW tag, Belongs(id, tag)
  PROVE  Belongs(id, tag)'
<1> USE DEF TypeOK
<1>1. ASSUME NEW k \in DOMAIN s2c', s2c'[k].type = "request", s2c'[k].id = id
      PROVE  s2c'[k].tag = tag
  BY <1>1, MessagesStep DEF Belongs
<1>2. ASSUME NEW k \in DOMAIN c2s', c2s'[k].type = "reply", c2s'[k].irt = id
      PROVE  c2s'[k].tag = tag
  <2>1. CASE \E j \in DOMAIN c2s : c2s'[k] = c2s[j]
    BY <1>2, <2>1 DEF Belongs
  <2>2. CASE \E j \in DOMAIN s2c : s2c[j].type = "request" /\ c2s'[k] = Reply(s2c[j])
    BY <1>2, <2>2 DEF Belongs, Reply
  <2> QED
    BY <1>2, <2>1, <2>2, MessagesStep
<1> QED
  BY <1>1, <1>2 DEF Belongs

\* A new request owns its msg_id.
LEMMA NewBelongs ==
  ASSUME TypeOK, Issued, [Next]_vars, msgSeq' = msgSeq + 1,
         NEW r \in Callers, NEW at, NewCall(r, at, <<r, msgSeq>>),
         NEW id, id = msgSeq + 1, NEW tag, tag = <<r, msgSeq>>
  PROVE  Belongs(id, tag)'
<1>a. ASSUME NEW q \in Callers, NewCall(q, call'[q].at, <<q, msgSeq>>)
      PROVE  q = r
  <2>1. call'[q].id = msgSeq + 1 /\ call[q].id # msgSeq + 1
    BY <1>a DEF NewCall, NextMsgId, Issued, TypeOK
  <2> QED
    BY <2>1 DEF NewCall, TypeOK
<1>b. /\ \A j \in DOMAIN s2c : s2c[j].type = "request" => s2c[j].id # msgSeq + 1
      /\ \A j \in DOMAIN c2s : c2s[j].type = "reply" => c2s[j].irt # msgSeq + 1
  BY MessageTypes DEF Issued, TypeOK, Ids
<1>1. ASSUME NEW k \in DOMAIN s2c', s2c'[k].type = "request", s2c'[k].id = id
      PROVE  s2c'[k].tag = tag
  BY <1>a, <1>b, <1>1, MessagesStep
<1>2. ASSUME NEW k \in DOMAIN c2s', c2s'[k].type = "reply", c2s'[k].irt = id
      PROVE  c2s'[k].tag = tag
  <2>1. \A m : Reply(m).irt = m.id
    BY DEF Reply
  <2> QED
    BY <1>b, <1>2, <2>1, MessagesStep
<1> QED
  BY <1>1, <1>2 DEF Belongs

Correlated == Issued /\ Owned /\ PendingIsInFlight /\ ReplyIsOwn

\* msg_ids are given out in order, and nothing bears one before.
LEMMA IssuedStep ==
  ASSUME TypeOK, Issued, [Next]_vars, msgSeq' \in {msgSeq, msgSeq + 1},
         \A r \in Callers :
           call'[r].id <= msgSeq' /\ (call'[r].at \in InFlight => call'[r].id # 0)
  PROVE  Issued'
<1>1. ASSUME NEW k \in DOMAIN s2c', s2c'[k].type = "request"
      PROVE  s2c'[k].id <= msgSeq'
  <2>1. \A j \in DOMAIN s2c : s2c[j].type = "request" => s2c[j].id \in Nat
    BY MessageTypes DEF TypeOK, Ids
  <2> QED
    BY <1>1, <2>1, MessagesStep DEF Issued, TypeOK
<1>2. ASSUME NEW k \in DOMAIN c2s', c2s'[k].type = "reply"
      PROVE  c2s'[k].irt <= msgSeq'
  <2>1. /\ \A j \in DOMAIN s2c : s2c[j].type = "request" => s2c[j].id \in Nat
        /\ \A j \in DOMAIN c2s : c2s[j].type = "reply" => c2s[j].irt \in Nat
    BY MessageTypes DEF TypeOK, Ids
  <2>2. CASE \E j \in DOMAIN c2s : c2s'[k] = c2s[j]
    BY <1>2, <2>1, <2>2 DEF Issued, TypeOK
  <2>3. CASE \E j \in DOMAIN s2c : s2c[j].type = "request" /\ c2s'[k] = Reply(s2c[j])
    BY <1>2, <2>1, <2>3 DEF Issued, TypeOK, Reply
  <2> QED
    BY <1>2, <2>2, <2>3, MessagesStep
<1> QED
  BY <1>1, <1>2 DEF Issued

\* A call that starts gets a future of its own.
LEMMA StartStep ==
  ASSUME TypeOK, Correlated, [Next]_vars, NEW r \in Callers, NEW signed \in BOOLEAN,
         Issue(r, signed)
  PROVE  Correlated'
<1> DEFINE tag == <<r, msgSeq>>
<1>1. PICK at \in InFlight : NewCall(r, at, tag)
  BY DEF Issue, InFlight
<1>2. /\ \A q \in Callers : q # r => call'[q] = call[q]
      /\ call'[r] = [at |-> at, id |-> msgSeq + 1, tag |-> tag, value |-> NoTag]
  BY <1>1 DEF NewCall, NextMsgId, TypeOK
<1>3. call[r].at \notin InFlight /\ msgSeq' = msgSeq + 1 /\ msgSeq + 1 \in Ids /\ result' = result
  BY NewCallType DEF Issue, Idle, NextMsgId
<1>4. /\ pending'[msgSeq + 1] = "wait"
      /\ \A i \in Ids : i # msgSeq + 1 => pending'[i] = pending[i]
  BY <1>3 DEF Issue, NextMsgId, TypeOK
<1>5. \A q \in Callers : call[q].id # msgSeq + 1 /\ call[q].id \in Nat
  BY DEF Correlated, Issued, TypeOK
<1>6. Issued'
  BY <1>2, <1>3, <1>5, IssuedStep, SMTT(30) DEF Correlated, Issued, TypeOK
<1>7. Owned'
  <2>1. ASSUME NEW q \in Callers, call'[q].at \in InFlight
        PROVE  /\ Belongs(call[q].id, call[q].tag)'
               /\ pending'[call'[q].id] = "result" => result'[call'[q].id] = call'[q].tag
    <3>1. CASE q = r
      <4>1. call'[q].id = msgSeq + 1 /\ call'[q].tag = tag
        BY <1>2, <3>1
      <4>2. Belongs(call[q].id, call[q].tag)'
        BY <1>1, <1>3, <4>1, NewBelongs DEF Correlated
      <4> QED
        BY <1>4, <4>1, <4>2
    <3>2. CASE q # r
      <4>1. call'[q] = call[q] /\ call[q].id \in 1..msgSeq
        BY <1>2, <2>1, <3>2 DEF Correlated, Issued, TypeOK
      <4>2. Belongs(call[q].id, call[q].tag)'
        BY <2>1, <4>1, BelongsStep DEF Correlated, Owned
      <4>3. pending'[call[q].id] = pending[call[q].id]
        BY <1>4, <1>5, <4>1 DEF Issue, TypeOK, NextMsgId
      <4> QED
        BY <1>3, <2>1, <4>1, <4>2, <4>3 DEF Correlated, Owned
    <3> QED
      BY <3>1, <3>2
  <2> QED
    BY <2>1 DEF Owned
<1>8. PendingIsInFlight'
  <2>1. ASSUME NEW i \in Ids
        PROVE  pending'[i] # "absent" <=>
                 \E q \in Callers : call'[q].at \in InFlight /\ call'[q].id = i
    BY <1>2, <1>3, <1>4, <1>5 DEF Correlated, PendingIsInFlight
  <2>2. ASSUME NEW p \in Callers, NEW q \in Callers,
               call'[p].at \in InFlight, call'[q].at \in InFlight, call'[p].id = call'[q].id
        PROVE  p = q
    BY <1>2, <1>5, <2>2 DEF Correlated, PendingIsInFlight
  <2> QED
    BY <2>1, <2>2 DEF PendingIsInFlight
<1>9. ReplyIsOwn'
  BY <1>2 DEF Correlated, ReplyIsOwn, InFlight
<1> QED
  BY <1>6, <1>7, <1>8, <1>9 DEF Correlated

\* A call that stays in flight keeps its future, its tag and its msg_id; the timer may
\* have cancelled the future, or the handler resolved it.
LEMMA StayStep ==
  ASSUME TypeOK, Correlated, [Next]_vars, msgSeq' = msgSeq,
         \A q \in Callers :
           \/ call'[q] = call[q]
           \/ /\ call[q].at \in InFlight /\ call'[q].at \in InFlight
              /\ call'[q].id = call[q].id /\ call'[q].tag = call[q].tag,
         \A i \in Ids :
           /\ pending'[i] = "absent" <=> pending[i] = "absent"
           /\ pending'[i] = "result" =>
                \/ pending[i] = "result" /\ result'[i] = result[i]
                \/ \A tag : Belongs(i, tag) => result'[i] = tag
  PROVE  Correlated'
<1>1. \A q \in Callers :
        /\ call'[q].at \in InFlight <=> call[q].at \in InFlight
        /\ call'[q].id = call[q].id /\ call'[q].tag = call[q].tag
  OBVIOUS
<1>2. \A q \in Callers : call[q].at \in InFlight => call[q].id \in 1..msgSeq /\ call[q].id \in Ids
  BY MaxMsgsAssumption DEF Correlated, Issued, TypeOK, MaxMsgsAssumption, Ids
<1>3. Issued'
  BY <1>1, IssuedStep DEF Correlated, Issued
<1>4. Owned'
  <2>1. ASSUME NEW q \in Callers, call'[q].at \in InFlight
        PROVE  /\ Belongs(call[q].id, call[q].tag)'
               /\ pending'[call'[q].id] = "result" => result'[call'[q].id] = call'[q].tag
    <3>1. call[q].id \in 1..msgSeq /\ call[q].id \in Ids /\ Belongs(call[q].id, call[q].tag)
      BY <1>1, <1>2, <2>1 DEF Correlated, Owned
    <3>2. Belongs(call[q].id, call[q].tag)'
      BY <1>1, <3>1, BelongsStep DEF Correlated
    <3> QED
      BY <1>1, <2>1, <3>1, <3>2 DEF Correlated, Owned
  <2> QED
    BY <2>1 DEF Owned
<1>5. PendingIsInFlight'
  BY <1>1 DEF Correlated, PendingIsInFlight
<1>6. ReplyIsOwn'
  BY DEF Correlated, ReplyIsOwn, InFlight
<1> QED
  BY <1>3, <1>4, <1>5, <1>6 DEF Correlated

\* A call that ends takes its future with it, and returns what belongs to it.
LEMMA EndStep ==
  ASSUME TypeOK, Correlated, [Next]_vars, NEW r \in Callers, Pop(r), UNCHANGED <<msgSeq, result>>,
         call[r].at \in InFlight, call'[r].at \notin InFlight,
         \A q \in Callers : q # r => call'[q] = call[q],
         call'[r].id = call[r].id,
         call'[r].at = "ok" => call'[r].tag = call[r].tag /\ call'[r].value = call[r].tag
  PROVE  Correlated'
<1>1. Issued'
  BY IssuedStep DEF Correlated, Issued
<1>2. \A q \in Callers : call[q].at \in InFlight => call[q].id \in 1..msgSeq /\ call[q].id \in Ids
  BY MaxMsgsAssumption DEF Correlated, Issued, TypeOK, MaxMsgsAssumption, Ids
<1>3. /\ pending'[call[r].id] = "absent"
      /\ \A i \in Ids : i # call[r].id => pending'[i] = pending[i]
  BY <1>2 DEF Pop, TypeOK
<1>4. Owned'
  <2>1. ASSUME NEW q \in Callers, call'[q].at \in InFlight
        PROVE  /\ Belongs(call[q].id, call[q].tag)'
               /\ pending'[call'[q].id] = "result" => result'[call'[q].id] = call'[q].tag
    <3>1. call'[q] = call[q] /\ q # r
      BY <2>1
    <3>2. Belongs(call[q].id, call[q].tag)'
      BY <1>2, <2>1, <3>1, BelongsStep DEF Correlated, Owned
    <3> QED
      BY <1>2, <1>3, <2>1, <3>1, <3>2 DEF Correlated, Owned
  <2> QED
    BY <2>1 DEF Owned
<1>5. PendingIsInFlight'
  BY <1>2, <1>3 DEF Correlated, PendingIsInFlight
<1>6. ReplyIsOwn'
  BY DEF Correlated, ReplyIsOwn
<1> QED
  BY <1>1, <1>4, <1>5, <1>6 DEF Correlated

LEMMA CorrelatedStep == TypeOK /\ Turns /\ Correlated /\ [Next]_vars => Correlated'
<1> SUFFICES ASSUME TypeOK, Turns, Correlated, [Next]_vars
             PROVE  Correlated'
  OBVIOUS
<1> USE DEF server
<1>a. \A q \in Callers : call[q].at \in InFlight => call[q].id \in Ids
  BY MaxMsgsAssumption DEF Correlated, Issued, TypeOK, MaxMsgsAssumption, Ids
<1>b. ASSUME UNCHANGED <<msgSeq, call, pending, result>>
      PROVE  Correlated'
  <2>1. \A q \in Callers : call'[q] = call[q]
    BY <1>b
  <2>2. \A i \in Ids : pending'[i] = pending[i] /\ result'[i] = result[i]
    BY <1>b
  <2> QED
    BY <1>b, <2>1, <2>2, StayStep
<1>1. ASSUME NEW r \in Callers, NEW signed \in BOOLEAN, Issue(r, signed)
      PROVE  Correlated'
  BY <1>1, StartStep
\* A call that fails at once has no future.
<1>2. ASSUME NEW r \in Callers, IssueUnkeyed(r)
      PROVE  Correlated'
  <2>1. /\ \A q \in Callers : q # r => call'[q] = call[q]
        /\ call'[r].at = "failed" /\ call'[r].id = msgSeq + 1 /\ "failed" \notin InFlight
    BY <1>2 DEF IssueUnkeyed, NewCall, NextMsgId, TypeOK, InFlight
  <2>2. call[r].at \notin InFlight /\ msgSeq' = msgSeq + 1 /\ UNCHANGED <<pending, result>>
    BY <1>2 DEF IssueUnkeyed, Idle
  <2>3. Issued'
    <3>1. \A q \in Callers : call'[q].id <= msgSeq'
      BY <2>1, <2>2 DEF Correlated, Issued, TypeOK
    <3>2. \A q \in Callers : call'[q].at \in InFlight => call'[q].id # 0
      BY <2>1 DEF Correlated, Issued
    <3> QED
      BY <2>2, <3>1, <3>2, IssuedStep DEF Correlated
  <2>4. Owned'
    <3>1. ASSUME NEW q \in Callers, call'[q].at \in InFlight
          PROVE  /\ Belongs(call[q].id, call[q].tag)'
                 /\ pending'[call'[q].id] = "result" => result'[call'[q].id] = call'[q].tag
      <4>1. call'[q] = call[q] /\ call[q].id \in 1..msgSeq
        BY <2>1, <3>1 DEF Correlated, Issued, TypeOK
      <4>2. Belongs(call[q].id, call[q].tag)'
        BY <3>1, <4>1, BelongsStep DEF Correlated, Owned
      <4> QED
        BY <2>2, <3>1, <4>1, <4>2 DEF Correlated, Owned
    <3> QED
      BY <3>1 DEF Owned
  <2>5. PendingIsInFlight'
    BY <2>1, <2>2 DEF Correlated, PendingIsInFlight
  <2>6. ReplyIsOwn'
    BY <2>1 DEF Correlated, ReplyIsOwn
  <2> QED
    BY <2>3, <2>4, <2>5, <2>6 DEF Correlated
<1>3. ASSUME NEW r \in Callers, SendResumes(r)
      PROVE  Correlated'
  <2>1. \A q \in Callers :
          \/ call'[q] = call[q]
          \/ /\ call[q].at \in InFlight /\ call'[q].at \in InFlight
             /\ call'[q].id = call[q].id /\ call'[q].tag = call[q].tag
    BY <1>3 DEF SendResumes, TypeOK, InFlight
  <2>2. \A i \in Ids : pending'[i] = pending[i] /\ result'[i] = result[i]
    BY <1>3 DEF SendResumes
  <2> QED
    BY <1>3, <2>1, <2>2, StayStep DEF SendResumes
<1>4. ASSUME NEW r \in Callers, TimerFires(r)
      PROVE  Correlated'
  <2>1. \A q \in Callers :
          \/ call'[q] = call[q]
          \/ /\ call[q].at \in InFlight /\ call'[q].at \in InFlight
             /\ call'[q].id = call[q].id /\ call'[q].tag = call[q].tag
    BY <1>4 DEF TimerFires, TypeOK, InFlight
  <2>2. \A i \in Ids : /\ pending'[i] = "absent" <=> pending[i] = "absent"
                       /\ pending'[i] = "result" => pending[i] = "result"
                       /\ result'[i] = result[i]
    BY <1>4 DEF TimerFires, TypeOK
  <2> QED
    BY <1>4, <2>1, <2>2, StayStep DEF TimerFires
<1>5. ASSUME NEW r \in Callers, SendFails(r) \/ RaiseTimeout(r)
      PROVE  Correlated'
  <2>1. call[r].at \in InFlight /\ call'[r].at \in {"failed", "timeout"}
    BY <1>5 DEF SendFails, RaiseTimeout, TypeOK, InFlight
  <2>2. /\ \A q \in Callers : q # r => call'[q] = call[q]
        /\ call'[r].id = call[r].id
    BY <1>5 DEF SendFails, RaiseTimeout, TypeOK
  <2> QED
    BY <1>5, <2>1, <2>2, EndStep DEF SendFails, RaiseTimeout, InFlight
<1>6. ASSUME NEW r \in Callers, ReturnReply(r)
      PROVE  Correlated'
  <2>1. call[r].at \in InFlight /\ call'[r].at = "ok" /\ "ok" \notin InFlight
    BY <1>6 DEF ReturnReply, TypeOK, InFlight
  <2>2. /\ \A q \in Callers : q # r => call'[q] = call[q]
        /\ call'[r].id = call[r].id /\ call'[r].tag = call[r].tag
        /\ call'[r].value = result[call[r].id]
    BY <1>6 DEF ReturnReply, TypeOK
  <2>3. result[call[r].id] = call[r].tag
    BY <1>6, <2>1 DEF ReturnReply, Correlated, Owned
  <2> QED
    BY <1>6, <2>1, <2>2, <2>3, EndStep DEF ReturnReply
<1>7. CASE Dispatch
  <2> DEFINE m == Head(c2s)
  <2>1. m = c2s[1] /\ 1 \in DOMAIN c2s /\ m.type = "reply"
    BY <1>7 DEF Dispatch, Turns, TypeOK
  <2>2. m.irt \in Ids
    BY <2>1, MessageTypes DEF TypeOK
  <2>3. /\ UNCHANGED <<msgSeq, call>> /\ SetResult(m.irt, m.tag)
    BY <1>7 DEF Dispatch
  <2>4. \A tag : Belongs(m.irt, tag) => m.tag = tag
    BY <2>1 DEF Belongs
  <2> HIDE DEF m
  <2>5. \A i \in Ids :
          /\ pending'[i] = "absent" <=> pending[i] = "absent"
          /\ pending'[i] = "result" =>
               \/ pending[i] = "result" /\ result'[i] = result[i]
               \/ \A tag : Belongs(i, tag) => result'[i] = tag
    BY <2>2, <2>3, <2>4 DEF SetResult, TypeOK
  <2> QED
    BY <2>3, <2>5, StayStep
<1>8. CASE HelloReceived \/ HandlerEnds \/ Close \/ DeviceGreeted
  BY <1>8, <1>b DEF HelloReceived, HandlerEnds, Close, DeviceGreeted
<1>9. ASSUME NEW b \in BOOLEAN, ProofReceived(b) \/ DeviceReceives(b)
      PROVE  Correlated'
  BY <1>9, <1>b DEF ProofReceived, DeviceReceives
<1>10. CASE UNCHANGED vars
  BY <1>10, <1>b DEF vars
<1> QED
  BY <1>1, <1>2, <1>3, <1>4, <1>5, <1>6, <1>7, <1>8, <1>9, <1>10 DEF Next

\* The invariant is inductive.
LEMMA StepInv == Inv /\ [Next]_vars => Inv'
<1> SUFFICES ASSUME Inv, [Next]_vars
             PROVE  Inv'
  OBVIOUS
<1>1. Correlated
  BY DEF Inv, Correlated
<1> QED
  BY <1>1, TypeStep, CountedStep, TurnsStep, OrderedStep, CorrelatedStep DEF Inv, Correlated

LEMMA Invariance == Safety => []Inv
  BY InitInv, StepInv, PTL DEF Safety

(***************************************************************************)
(* The theorems.                                                           *)
(***************************************************************************)
\* The types are right for any number of callers and requests: in particular a reply
\* always finds the slot of a msg_id that has been given out.
THEOREM TypeCorrect == Safety => []TypeOK
<1>1. Inv => TypeOK
  BY DEF Inv
<1> QED
  BY Invariance, <1>1, PTL

\* No call ever returns the answer to another one, however many time out and are
\* answered late.
THEOREM OwnReplies == Safety => []ReplyIsOwn
<1>1. Inv => ReplyIsOwn
  BY DEF Inv
<1> QED
  BY Invariance, <1>1, PTL

\* The device accepts every signed message, for concurrent requests before, during and
\* after the handshake share one counter with the OTA offer.
THEOREM NothingRefused == Safety => []NeverRefused
<1>1. Inv => NeverRefused
  BY DEF Inv
<1> QED
  BY Invariance, <1>1, PTL

\* _pending and the calls in flight correspond one to one: no future leaks.
THEOREM NoFutureLeaks == Safety => []PendingIsInFlight
<1>1. Inv => PendingIsInFlight
  BY DEF Inv
<1> QED
  BY Invariance, <1>1, PTL

\* A future that has its result or is cancelled is never resolved again: a step leaves
\* it as it is, or its call pops it.
THEOREM DoneFuturesStay == Safety => DoneStaysDone
<1>1. ASSUME Inv, [Next]_vars
      PROVE  [\A i \in Ids : pending[i] \in {"result", "cancelled"} =>
                pending'[i] = "absent" \/ (pending'[i] = pending[i] /\ result'[i] = result[i])]_vars
  <2> SUFFICES ASSUME NEW i \in Ids, pending[i] \in {"result", "cancelled"}
               PROVE  pending'[i] = "absent" \/ (pending'[i] = pending[i] /\ result'[i] = result[i])
    OBVIOUS
  <2>a. TypeOK
    BY <1>1 DEF Inv
  <2>b. CASE UNCHANGED <<pending, result>>
    BY <2>b
  <2>1. ASSUME NEW r \in Callers, NEW signed \in BOOLEAN, Issue(r, signed)
        PROVE  pending'[i] = pending[i] /\ result'[i] = result[i]
    <3>1. PICK q \in Callers : call[q].at \in InFlight /\ call[q].id = i
      BY <1>1 DEF Inv, PendingIsInFlight
    <3>2. i # NextMsgId
      BY <1>1, <3>1 DEF Inv, Issued, TypeOK, NextMsgId, Ids
    <3> QED
      BY <2>a, <2>1, <3>2 DEF Issue, TypeOK
  <2>2. ASSUME NEW r \in Callers, SendFails(r) \/ ReturnReply(r) \/ RaiseTimeout(r)
        PROVE  pending'[i] = "absent" \/ (pending'[i] = pending[i] /\ result'[i] = result[i])
    BY <2>a, <2>2 DEF SendFails, ReturnReply, RaiseTimeout, Pop, TypeOK
  <2>3. ASSUME NEW r \in Callers, TimerFires(r)
        PROVE  pending'[i] = pending[i] /\ result'[i] = result[i]
    BY <2>a, <2>3 DEF TimerFires, TypeOK
  <2>4. CASE Dispatch
    <3>1. PICK m : SetResult(m.irt, m.tag)
      BY <2>4 DEF Dispatch
    <3> QED
      BY <2>a, <3>1 DEF SetResult, TypeOK
  <2>5. ASSUME NEW r \in Callers, IssueUnkeyed(r) \/ SendResumes(r)
        PROVE  UNCHANGED <<pending, result>>
    BY <2>5 DEF IssueUnkeyed, SendResumes
  <2>6. ASSUME \/ HelloReceived \/ HandlerEnds \/ Close \/ DeviceGreeted \/ UNCHANGED vars
               \/ \E b \in BOOLEAN : ProofReceived(b) \/ DeviceReceives(b)
        PROVE  UNCHANGED <<pending, result>>
    BY <2>6 DEF HelloReceived, HandlerEnds, Close, DeviceGreeted, ProofReceived, DeviceReceives,
       server, vars
  <2> QED
    BY <1>1, <2>b, <2>1, <2>2, <2>3, <2>4, <2>5, <2>6 DEF Next
<1> QED
  BY Invariance, <1>1, PTL DEF Safety, DoneStaysDone
==============================================================================
