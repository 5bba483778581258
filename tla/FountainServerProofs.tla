------------------------ MODULE FountainServerProofs -------------------------
(***************************************************************************)
(* The invariants of FountainServer for any number of devices and          *)
(* connections, and its refinement of SessionRegistry.                     *)
(***************************************************************************)
EXTENDS FountainServer, TLAPS

USE ConnAssumption

(***************************************************************************)
(* Whatever _handler does between two awaits has one of six effects on the *)
(* state the invariants speak of.                                          *)
(***************************************************************************)
Live(c) == phase[c] \in Phases \ {"none", "gone"}

\* The task goes on, perhaps starting to close, without running the connect hook.
Proceed(c) ==
  /\ Live(c)
  /\ \E p \in Phases \ {"none", "gone"} :
       /\ p \in Connected => phase[c] \in Connected
       /\ Goto(c, p)
  /\ ws' = ws \/ StartClosing(c)
  /\ UNCHANGED <<closeTask, sessions, online>>

SocketCloses(c) ==
  /\ ws[c] # "none"
  /\ \E s \in {"closing", "closed"} : ws' = [ws EXCEPT ![c] = s]
  /\ UNCHANGED <<phase, closeTask, sessions, online>>

Effect(c) ==
  \/ Upgrade(c)
  \/ Proceed(c)
  \/ Live(c) /\ Connect(c)
  \/ Live(c) /\ Cleanup(c)
  \/ CloseQuietly(c)
  \/ SocketCloses(c)

\* Every action of the server is one of the effects and keeps `negotiated` Boolean.
LEMMA StepEffect ==
  ASSUME TypeOK, NEW c \in Conns,
         \/ Upgrade(c)  \/ Handshake(c)    \/ Resume(c)
         \/ RecvEnds(c) \/ LoopFails(c)    \/ HandlerEnds(c)
         \/ CloseQuietly(c) \/ CloseDone(c) \/ PeerCloses(c)
  PROVE  Effect(c) /\ negotiated' \in [Conns -> BOOLEAN]
<1> USE DEF TypeOK
<1>a. ASSUME NEW p \in Phases \ {"none", "gone"}, p \notin Connected, Live(c), Goto(c, p),
             ws' = ws \/ StartClosing(c), UNCHANGED <<closeTask, sessions, online>>
      PROVE  Effect(c)
  BY <1>a DEF Effect, Proceed
<1>b. ASSUME Live(c), Leave(c)
      PROVE  Effect(c)
  BY <1>a, <1>b DEF Leave, Phases, Connected
<1>1. CASE Upgrade(c)
  BY <1>1 DEF Effect, Upgrade
<1>2. CASE Handshake(c)
  <2>l. Live(c)
    BY <1>2 DEF Handshake, Live, Phases, AwaitsHello, HelloAccepted, HelloRefused, ProofAccepted,
                ProofRefused, ProofDispatched, HandshakeTimeout, HandshakeAborts
  <2>1. CASE HelloAccepted(c)
    BY <2>1, <2>l, <1>a DEF HelloAccepted, Phases, Sending, Connected
  <2>2. CASE HelloRefused(c)
    BY <2>2, <2>l, <1>a, <1>b DEF HelloRefused, Phases, Sending, Connected
  <2>3. CASE ProofAccepted(c)
    <3>1. negotiated' \in [Conns -> BOOLEAN]
      BY <2>3 DEF ProofAccepted
    <3>2. CASE Connect(c) \/ Cleanup(c)
      BY <2>l, <3>1, <3>2 DEF Effect
    <3>3. CASE Leave(c)
      BY <2>l, <3>1, <3>3, <1>b
    <3>4. CASE Goto(c, "answer") /\ UNCHANGED <<ws, closeTask, sessions, online>>
      BY <2>l, <3>1, <3>4, <1>a DEF Phases, Sending, Connected
    <3> QED
      BY <2>3, <3>2, <3>3, <3>4 DEF ProofAccepted
  <2>4. CASE ProofRefused(c)
    BY <2>4, <2>l, <1>b DEF ProofRefused
  <2>5. CASE ProofDispatched(c)
    BY <2>5, <2>l DEF ProofDispatched, Effect
  <2>6. CASE HandshakeTimeout(c)
    BY <2>6, <2>l, <1>b DEF HandshakeTimeout
  <2>7. CASE HandshakeAborts(c)
    BY <2>7, <2>l DEF HandshakeAborts, Effect
  <2> QED
    BY <1>2, <2>1, <2>2, <2>3, <2>4, <2>5, <2>6, <2>7 DEF Handshake
<1>3. CASE Resume(c)
  <2>l. Live(c)
    BY <1>3 DEF Resume, Live, Phases, Sending, AckSent, RefusalSent, AnswerSent, SendFails, LeaveDone
  <2>1. CASE AckSent(c)
    BY <2>1, <2>l, <1>a DEF AckSent, Phases, Connected
  <2>2. CASE RefusalSent(c)
    BY <2>2, <2>l, <1>b DEF RefusalSent
  <2>3. CASE AnswerSent(c)
    BY <2>3, <2>l DEF AnswerSent, Effect
  <2>4. CASE SendFails(c) \/ LeaveDone(c)
    BY <2>4, <2>l DEF SendFails, LeaveDone, Effect
  <2> QED
    BY <1>3, <2>1, <2>2, <2>3, <2>4 DEF Resume
<1>4. CASE RecvEnds(c) \/ LoopFails(c)
  BY <1>4 DEF RecvEnds, LoopFails, Effect, Proceed, Live, Phases, Connected
<1>5. CASE HandlerEnds(c)
  BY <1>5 DEF HandlerEnds, Effect, Live, Phases
<1>6. CASE CloseQuietly(c)
  BY <1>6 DEF CloseQuietly, Effect
<1>7. CASE CloseDone(c) \/ PeerCloses(c)
  BY <1>7 DEF CloseDone, PeerCloses, Effect, SocketCloses
<1> QED
  BY <1>1, <1>2, <1>3, <1>4, <1>5, <1>6, <1>7

(***************************************************************************)
(* The inductive invariant: what the runs check, and that a connection     *)
(* that has not been accepted yet has scheduled no close (so that its      *)
(* upgrade forgets none).                                                  *)
(***************************************************************************)
FreshSchedulesNothing == \A c \in Conns : phase[c] = "none" => closeTask[c] = NoConn

IInv ==
  /\ TypeOK
  /\ RegisteredIsServed
  /\ CurrentIsOnline
  /\ ReplacedIsClosing
  /\ FreshSchedulesNothing

LEMMA InitIInv == Init => IInv
  BY DEF Init, IInv, TypeOK, RegisteredIsServed, CurrentIsOnline, ReplacedIsClosing,
         FreshSchedulesNothing, IsCurrent, Phases, Connected

\* Each effect preserves each conjunct of the invariant.
LEMMA EffectIInv ==
  ASSUME IInv, NEW c \in Conns, Effect(c), negotiated' \in [Conns -> BOOLEAN]
  PROVE  IInv'
<1> USE DEF IInv, TypeOK
<1>1. CASE Upgrade(c)
  <2> USE <1>1 DEF Upgrade, Goto
  <2>1. TypeOK'
    BY DEF Phases
  <2>2. RegisteredIsServed'
    BY DEF RegisteredIsServed
  <2>3. CurrentIsOnline'
    BY DEF CurrentIsOnline, IsCurrent, Connected
  <2>4. ReplacedIsClosing'
    BY DEF ReplacedIsClosing, IsCurrent, FreshSchedulesNothing
  <2>5. FreshSchedulesNothing'
    BY DEF FreshSchedulesNothing
  <2> QED
    BY <2>1, <2>2, <2>3, <2>4, <2>5
<1>2. CASE Proceed(c)
  <2> USE <1>2 DEF Proceed, Goto, StartClosing, Live
  <2>1. TypeOK'
    OBVIOUS
  <2>2. RegisteredIsServed'
    BY DEF RegisteredIsServed
  <2>3. CurrentIsOnline'
    BY DEF CurrentIsOnline, IsCurrent
  <2>4. ReplacedIsClosing'
    BY DEF ReplacedIsClosing, IsCurrent
  <2>5. FreshSchedulesNothing'
    BY DEF FreshSchedulesNothing
  <2> QED
    BY <2>1, <2>2, <2>3, <2>4, <2>5
<1>3. CASE Live(c) /\ Connect(c)
  <2> USE <1>3 DEF Connect, Goto, Live
  <2>1. TypeOK'
    BY DEF Phases
  <2>2. RegisteredIsServed'
    BY DEF RegisteredIsServed
  <2>3. CurrentIsOnline'
    BY DEF CurrentIsOnline, IsCurrent
  <2>4. ReplacedIsClosing'
    BY DEF ReplacedIsClosing, IsCurrent
  <2>5. FreshSchedulesNothing'
    BY DEF FreshSchedulesNothing
  <2> QED
    BY <2>1, <2>2, <2>3, <2>4, <2>5
<1>4. CASE Live(c) /\ Cleanup(c)
  <2> USE <1>4 DEF Cleanup, Goto, StartClosing, Live
  <2>1. TypeOK'
    BY DEF Phases
  <2>2. RegisteredIsServed'
    BY DEF RegisteredIsServed
  <2>3. CurrentIsOnline'
    BY DEF CurrentIsOnline, IsCurrent, Connected
  <2>4. ReplacedIsClosing'
    BY DEF ReplacedIsClosing, IsCurrent
  <2>5. FreshSchedulesNothing'
    BY DEF FreshSchedulesNothing
  <2> QED
    BY <2>1, <2>2, <2>3, <2>4, <2>5
<1>5. CASE CloseQuietly(c)
  <2> USE <1>5 DEF CloseQuietly, StartClosing
  <2>1. TypeOK'
    OBVIOUS
  <2>2. RegisteredIsServed'
    BY DEF RegisteredIsServed
  <2>3. CurrentIsOnline'
    BY DEF CurrentIsOnline, IsCurrent
  <2>4. ReplacedIsClosing'
    BY DEF ReplacedIsClosing, IsCurrent
  <2>5. FreshSchedulesNothing'
    BY DEF FreshSchedulesNothing
  <2> QED
    BY <2>1, <2>2, <2>3, <2>4, <2>5
<1>6. CASE SocketCloses(c)
  BY <1>6 DEF SocketCloses, RegisteredIsServed, CurrentIsOnline, ReplacedIsClosing,
              FreshSchedulesNothing, IsCurrent
<1> QED
  BY <1>1, <1>2, <1>3, <1>4, <1>5, <1>6 DEF Effect

LEMMA NextIInv == IInv /\ [Next]_vars => IInv'
<1> SUFFICES ASSUME IInv, [Next]_vars
             PROVE  IInv'
  OBVIOUS
<1>1. CASE UNCHANGED vars
  BY <1>1 DEF vars, IInv, TypeOK, RegisteredIsServed, CurrentIsOnline, ReplacedIsClosing,
              FreshSchedulesNothing, IsCurrent
<1>2. CASE Next
  <2>1. PICK c \in Conns :
          \/ Upgrade(c)  \/ Handshake(c)    \/ Resume(c)
          \/ RecvEnds(c) \/ LoopFails(c)    \/ HandlerEnds(c)
          \/ CloseQuietly(c) \/ CloseDone(c) \/ PeerCloses(c)
    BY <1>2 DEF Next
  <2>2. Effect(c) /\ negotiated' \in [Conns -> BOOLEAN]
    BY <2>1, StepEffect DEF IInv
  <2> QED
    BY <2>2, EffectIInv
<1> QED
  BY <1>1, <1>2

\* The inductive invariant holds in every reachable state, whatever the number of
\* devices and connections.
THEOREM Invariance == Safety => []IInv
  BY InitIInv, NextIInv, PTL DEF Safety

\* TypeOK is an invariant.
THEOREM TypeCorrect == Safety => []TypeOK
<1>1. IInv => TypeOK
  BY DEF IInv
<1> QED
  BY <1>1, Invariance, PTL

\* `session(device_id)` only ever returns a session of that device whose handler runs.
THEOREM RegisteredServed == Safety => []RegisteredIsServed
<1>1. IInv => RegisteredIsServed
  BY DEF IInv
<1> QED
  BY <1>1, Invariance, PTL

\* The late end of a replaced session never reports its device offline.
THEOREM CurrentOnline == Safety => []CurrentIsOnline
<1>1. IInv => CurrentIsOnline
  BY DEF IInv
<1> QED
  BY <1>1, Invariance, PTL

\* A replaced session is always on its way out.
THEOREM ReplacedClosing == Safety => []ReplacedIsClosing
<1>1. IInv => ReplacedIsClosing
  BY DEF IInv
<1> QED
  BY <1>1, Invariance, PTL

(***************************************************************************)
(* Refinement.  Under the mapping an upgrade is Register, the `finally` is *)
(* End, and every other step leaves what the registry shows unchanged.     *)
(***************************************************************************)
LEMMA ShownCases ==
  ASSUME NEW c \in Conns
  PROVE  /\ phase[c] = "none" => Shown(c) = "fresh"
         /\ phase[c] = "gone" => Shown(c) = "ended"
         /\ phase[c] \notin {"none", "gone"} /\ IsCurrent(c) => Shown(c) = "current"
         /\ phase[c] \notin {"none", "gone"} /\ ~IsCurrent(c) => Shown(c) = "replaced"
  BY DEF Shown

LEMMA ShownCasesPrimed ==
  ASSUME NEW c \in Conns
  PROVE  /\ phase'[c] = "none" => Shown(c)' = "fresh"
         /\ phase'[c] = "gone" => Shown(c)' = "ended"
         /\ phase'[c] \notin {"none", "gone"} /\ IsCurrent(c)' => Shown(c)' = "current"
         /\ phase'[c] \notin {"none", "gone"} /\ ~IsCurrent(c)' => Shown(c)' = "replaced"
  BY DEF Shown

LEMMA InitRegistry == Init => Registry!Init
  BY DEF Init, Registry!Init, Shown

LEMMA EffectRegistry ==
  ASSUME IInv, NEW c \in Conns, Effect(c)
  PROVE  Registry!Register(c) \/ Registry!End(c) \/ \A x \in Conns : Shown(x)' = Shown(x)
<1> USE DEF IInv, TypeOK
<1>1. CASE Upgrade(c)
  <2>1. Shown(c) = "fresh" /\ Shown(c)' = "current"
    BY <1>1, ShownCases, ShownCasesPrimed DEF Upgrade, Goto, IsCurrent
  <2>2. ASSUME NEW x \in Conns, x # c
        PROVE  Shown(x)' = IF DeviceOf[x] = DeviceOf[c] /\ Shown(x) = "current"
                           THEN "replaced" ELSE Shown(x)
    <3>1. phase'[x] = phase[x]
      BY <1>1, <2>2 DEF Upgrade, Goto
    <3>2. DeviceOf[x] = DeviceOf[c] => ~IsCurrent(x)'
      BY <1>1, <2>2 DEF Upgrade, IsCurrent
    <3>3. DeviceOf[x] # DeviceOf[c] => IsCurrent(x)' = IsCurrent(x)
      BY <1>1, <2>2 DEF Upgrade, IsCurrent
    <3> QED
      BY <2>2, <3>1, <3>2, <3>3, ShownCases, ShownCasesPrimed
  <2> QED
    BY <2>1, <2>2 DEF Registry!Register
<1>2. CASE Proceed(c) \/ (Live(c) /\ Connect(c))
  <2>1. \A x \in Conns : Shown(x)' = Shown(x)
    <3> TAKE x \in Conns
    <3>1. IsCurrent(x)' = IsCurrent(x)
      BY <1>2 DEF Proceed, Connect, IsCurrent
    <3>2. /\ phase'[x] = phase[x] \/ phase'[x] \notin {"none", "gone"}
          /\ phase'[x] # phase[x] => phase[x] \notin {"none", "gone"}
      BY <1>2 DEF Proceed, Connect, Goto, Live
    <3> QED
      BY <3>1, <3>2, ShownCases, ShownCasesPrimed
  <2> QED
    BY <2>1
<1>3. CASE Live(c) /\ Cleanup(c)
  <2>1. Shown(c) \in {"current", "replaced"} /\ Shown(c)' = "ended"
    BY <1>3, ShownCases, ShownCasesPrimed DEF Live, Cleanup, Goto
  <2>2. ASSUME NEW x \in Conns, x # c
        PROVE  Shown(x)' = Shown(x)
    <3>1. phase'[x] = phase[x]
      BY <1>3, <2>2 DEF Cleanup, Goto
    <3>2. IsCurrent(x)' = IsCurrent(x)
      BY <1>3, <2>2 DEF Cleanup, IsCurrent
    <3> QED
      BY <3>1, <3>2, ShownCases, ShownCasesPrimed
  <2> QED
    BY <2>1, <2>2 DEF Registry!End
<1>4. CASE CloseQuietly(c) \/ SocketCloses(c)
  BY <1>4 DEF CloseQuietly, SocketCloses, Shown, IsCurrent
<1> QED
  BY <1>1, <1>2, <1>3, <1>4 DEF Effect

LEMMA NextRegistry ==
  ASSUME IInv, [Next]_vars
  PROVE  Registry!Next \/ UNCHANGED [c \in Conns |-> Shown(c)]
<1>1. CASE UNCHANGED vars
  BY <1>1 DEF vars, Shown, IsCurrent
<1>2. CASE Next
  <2>1. PICK c \in Conns :
          \/ Upgrade(c)  \/ Handshake(c)    \/ Resume(c)
          \/ RecvEnds(c) \/ LoopFails(c)    \/ HandlerEnds(c)
          \/ CloseQuietly(c) \/ CloseDone(c) \/ PeerCloses(c)
    BY <1>2 DEF Next
  <2>2. Effect(c)
    BY <2>1, StepEffect DEF IInv
  <2> QED
    BY <2>2, EffectRegistry DEF Registry!Next
<1> QED
  BY <1>1, <1>2

\* The handler tasks implement the registry: the newest connection of a device
\* wins, a replaced one never comes back, and an end touches its own session only.
THEOREM Refinement == Safety => Registry!Safety
<1>1. IInv /\ [Next]_vars => [Registry!Next]_([c \in Conns |-> Shown(c)])
  BY NextRegistry
<1> QED
  BY <1>1, InitRegistry, Invariance, PTL DEF Safety, Registry!Safety
==============================================================================
