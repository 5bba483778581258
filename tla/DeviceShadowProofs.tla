------------------------- MODULE DeviceShadowProofs --------------------------
(***************************************************************************)
(* Proofs about DeviceShadow, for any datapoints and any bounds: the types,*)
(* and that a value in the shadow is only ever older than the connection,  *)
(* or than one that was shown, if it was overtaken on its way into it.     *)
(***************************************************************************)
EXTENDS DeviceShadow, TLAPS

Frame == [call : {0} \cup Calls, dp : Values]
Reading == [at : {"idle", "asked", "answered", "due", "over"},
            session : 0..MaxSession, names : SUBSET Names, dp : Values]

(***************************************************************************)
(* The inductive invariant.  Of the session of now, every value that is    *)
(* still under way is at least as new as what has been merged, and the     *)
(* later it will be merged the newer it is; the exception are the calls    *)
(* that are due, which a report may pass.  That an answer is found in the  *)
(* connection its call was made on keeps old sessions out of this.         *)
(***************************************************************************)
\* d carries no value older than e does.
NoOlder(d, e) == \A n \in Names : d[n] # 0 /\ e[n] # 0 => e[n] <= d[n]

\* d carries values the device has had on this connection.
OfNow(d) == \A n \in Names : d[n] # 0 => floor[n] <= d[n] /\ d[n] <= value[n]

QuietAhead == \A s \in Sessions : s > session => frames[s] = <<>>
ReadsSoFar == \A r \in Calls : read[r].session <= session
MergedSoFar == \A n \in Names : floor[n] <= value[n] /\ seen[n] <= value[n]

AnswersAtHome ==
  \A s \in Sessions : \A i \in DOMAIN frames[s] : \A r \in Calls :
    frames[s][i].call = r => /\ read[r].at \in {"answered", "due", "over"}
                             /\ read[r].at = "answered" => read[r].session = s

DueOnce ==
  \A k \in DOMAIN due : /\ read[due[k]].at = "due"
                        /\ \A j \in DOMAIN due : j < k => due[j] # due[k]

FramesInOrder ==
  \A s \in Sessions : s = session =>
    \A i \in DOMAIN frames[s] :
      /\ OfNow(frames[s][i].dp) /\ NoOlder(frames[s][i].dp, seen)
      /\ \A j \in DOMAIN frames[s] : i < j => NoOlder(frames[s][j].dp, frames[s][i].dp)

Current(k) == read[due[k]].session = session

DueInOrder ==
  \A k \in DOMAIN due : Current(k) =>
    LET d == read[due[k]].dp
    IN  /\ OfNow(d)
        /\ \A n \in Names \ passed[due[k]] : d[n] # 0 => seen[n] <= d[n]
        /\ \A s \in Sessions : s = session =>
             \A i \in DOMAIN frames[s] : NoOlder(frames[s][i].dp, d)
        /\ \A j \in DOMAIN due : k < j /\ Current(j) => NoOlder(read[due[j]].dp, d)

Order == FramesInOrder /\ DueInOrder
Queues == QuietAhead /\ ReadsSoFar /\ MergedSoFar /\ AnswersAtHome /\ DueOnce

Inv == ShadowIsSound /\ Queues /\ Order

LEMMA Basics ==
  /\ 0 \notin Calls /\ Calls \subseteq Nat /\ Sessions \subseteq Calls /\ Sessions \subseteq Nat
  /\ Empty \in Values /\ \A n \in Names : Empty[n] = 0
  /\ 0 \in 0..MaxValue /\ 0 \in 0..MaxSession /\ 0 \in {0} \cup Calls
BY ShadowAssumption DEF Calls, Sessions, Empty, Values

LEMMA AppendCases ==
  ASSUME NEW S, NEW q \in Seq(S), NEW f \in S, NEW i \in DOMAIN Append(q, f)
  PROVE  \/ i \in DOMAIN q /\ Append(q, f)[i] = q[i]
         \/ i = Len(q) + 1 /\ Append(q, f)[i] = f /\ \A j \in DOMAIN q : j < i
OBVIOUS

LEMMA TailElements ==
  ASSUME NEW S, NEW q \in Seq(S), q # <<>>, NEW i \in DOMAIN Tail(q)
  PROVE  i + 1 \in DOMAIN q /\ Tail(q)[i] = q[i + 1] /\ i \in Nat /\ 1 \in DOMAIN q /\ Head(q) = q[1]
OBVIOUS

\* The parts of TypeOK, with the names used here.
LEMMA Types ==
  TypeOK <=> /\ value \in [Names -> 1..MaxValue]
             /\ session \in 0..MaxSession /\ link \in {0, session}
             /\ frames \in [Sessions -> Seq(Frame)]
             /\ read \in [Calls -> Reading]
             /\ due \in Seq(Calls)
             /\ dp \in Values /\ config \in Values /\ floor \in Values /\ seen \in Values
             /\ passed \in [Calls -> SUBSET Names] /\ outrun \subseteq Names
BY DEF TypeOK, Frame, Reading

\* What is sent has the type of a frame.
LEMMA ReportType ==
  ASSUME TypeOK, NEW S \in SUBSET Names, NEW c \in {0} \cup Calls
  PROVE  /\ Report(S) \in Frame /\ [Report(S) EXCEPT !.call = c] \in Frame
         /\ [Report(S) EXCEPT !.call = c].call = c
         /\ [Report(S) EXCEPT !.call = c].dp = Report(S).dp
         /\ Report(S).call = 0
         /\ \A n \in Names : Report(S).dp[n] # 0 => Report(S).dp[n] = value[n]
<1> DEFINE d == [n \in Names |-> IF n \in S THEN value[n] ELSE 0]
<1>1. d \in Values
  <2>1. \A n \in Names : value[n] \in 0..MaxValue
    BY DEF TypeOK
  <2> QED
    BY <2>1, Basics DEF Values
<1>2. \A n \in Names : d[n] # 0 => d[n] = value[n]
  OBVIOUS
<1>3. Report(S) = [call |-> 0, dp |-> d]
  BY DEF Report
<1> HIDE DEF d
<1>4. [Report(S) EXCEPT !.call = c] = [call |-> c, dp |-> d]
  BY <1>3
<1> QED
  BY <1>1, <1>2, <1>3, <1>4, Basics DEF Frame

LEMMA InitTypes == Init => TypeOK
<1> SUFFICES ASSUME Init
             PROVE  TypeOK
  OBVIOUS
<1>1. value \in [Names -> 1..MaxValue]
  BY ShadowAssumption DEF Init
<1>2. session \in 0..MaxSession /\ link \in {0, session}
  BY Basics DEF Init
<1>3. <<>> \in Seq(Frame) /\ <<>> \in Seq(Calls)
  OBVIOUS
<1>4. frames \in [Sessions -> Seq(Frame)] /\ due \in Seq(Calls)
  BY <1>3 DEF Init
<1>5. Idle \in Reading
  BY Basics DEF Idle, Reading
<1>6. read \in [Calls -> Reading]
  BY <1>5 DEF Init
<1>7. dp \in Values /\ config \in Values /\ floor \in Values /\ seen \in Values
  BY Basics DEF Init
<1>8. passed \in [Calls -> SUBSET Names] /\ outrun \subseteq Names
  BY DEF Init
<1> QED
  BY <1>1, <1>2, <1>4, <1>6, <1>7, <1>8 DEF TypeOK, Frame, Reading

LEMMA SendTypes ==
  ASSUME TypeOK, NEW f \in Frame, link # 0, Send(f)
  PROVE  /\ frames' \in [Sessions -> Seq(Frame)]
         /\ link = session /\ session \in Sessions
         /\ frames'[session] = Append(frames[session], f)
         /\ \A s \in Sessions : s # session => frames'[s] = frames[s]
<1>1. frames \in [Sessions -> Seq(Frame)]
  BY Types
<1>2. link = session
  BY DEF TypeOK
<1>3. session \in Sessions
  <2>1. session \in 0..MaxSession /\ session # 0
    BY <1>2 DEF TypeOK
  <2> QED
    BY <2>1, ShadowAssumption DEF Sessions
<1>4. Append(frames[session], f) \in Seq(Frame)
  BY <1>1, <1>3
<1> QED
  BY <1>1, <1>2, <1>3, <1>4 DEF Send

\* The types a step of the shadow keeps.
LEMMA MergeTypes ==
  ASSUME TypeOK, NEW d \in Values, NEW s, NEW stale \in SUBSET Names, DpMerge(d, s, stale)
  PROVE  dp' \in Values /\ seen' \in Values /\ outrun' \subseteq Names
<1>1. \A n \in Names : /\ d[n] \in 0..MaxValue /\ dp[n] \in 0..MaxValue
                       /\ seen[n] \in 0..MaxValue
  BY DEF TypeOK, Values
<1>2. dp' \in Values
  BY <1>1 DEF DpMerge, Update, Values
<1>3. seen' \in Values
  BY <1>1 DEF DpMerge, Values
<1>4. outrun' \subseteq Names
  BY DEF DpMerge, Carried, TypeOK
<1> QED
  BY <1>2, <1>3, <1>4

\* The sends: values, reads and the frames of the newest session change.
LEMMA ChangeTypes ==
  ASSUME TypeOK, NEW n \in Names, Change(n)
  PROVE  TypeOK'
<1>1. value' \in [Names -> 1..MaxValue]
  <2>1. value[n] \in Nat /\ value[n] < MaxValue /\ value \in [Names -> 1..MaxValue]
    BY ShadowAssumption DEF TypeOK, Change
  <2>2. value[n] + 1 \in 1..MaxValue
    BY <2>1, ShadowAssumption
  <2> QED
    BY <2>1, <2>2 DEF Change
<1>2. frames' \in [Sessions -> Seq(Frame)]
  <2>1. CASE UNCHANGED frames
    BY <2>1, Types
  <2>2. CASE CanSend /\ Send([call |-> 0, dp |-> [Empty EXCEPT ![n] = value[n] + 1]])
    <3>1. [Empty EXCEPT ![n] = value[n] + 1] \in Values
      <4>1. value[n] + 1 \in 0..MaxValue
        BY ShadowAssumption DEF TypeOK, Change
      <4> QED
        BY <4>1, Basics DEF Values
    <3>2. [call |-> 0, dp |-> [Empty EXCEPT ![n] = value[n] + 1]] \in Frame
      BY <3>1, Basics DEF Frame
    <3> QED
      BY <2>2, <3>2, SendTypes DEF CanSend
  <2> QED
    BY <2>1, <2>2 DEF Change
<1> QED
  BY <1>1, <1>2, Types DEF Change, shadow, TypeOK, Frame

LEMMA SendingTypes ==
  ASSUME TypeOK, PeriodicReport \/ \E r \in Calls : AnswerRead(r)
  PROVE  TypeOK'
<1>1. CASE PeriodicReport
  <2>1. Report(Measured) \in Frame /\ link # 0 /\ Send(Report(Measured))
    BY <1>1, ReportType, Basics DEF PeriodicReport, CanSend, Names
  <2>2. frames' \in [Sessions -> Seq(Frame)]
    BY <2>1, SendTypes
  <2> QED
    BY <1>1, <2>2 DEF PeriodicReport, shadow, TypeOK, Frame
<1>2. ASSUME NEW r \in Calls, AnswerRead(r)
      PROVE  TypeOK'
  <2>1. read \in [Calls -> Reading]
    BY Types
  <2>2. read[r].names \in SUBSET Names
    BY <2>1 DEF Reading
  <2>3. frames' \in [Sessions -> Seq(Frame)]
    <3>1. [Report(read[r].names) EXCEPT !.call = r] \in Frame
      BY <2>2, ReportType
    <3> QED
      BY <1>2, <3>1, SendTypes DEF AnswerRead, CanSend
  <2>4. read' \in [Calls -> Reading]
    <3>1. [read[r] EXCEPT !.at = "answered"] \in Reading
      BY <2>1 DEF Reading
    <3> QED
      BY <1>2, <2>1, <3>1 DEF AnswerRead
  <2> QED
    BY <1>2, <2>3, <2>4 DEF AnswerRead, shadow, TypeOK, Frame, Reading
<1> QED
  BY <1>1, <1>2

LEMMA QuietTypes ==
  ASSUME TypeOK
  PROVE  /\ LinkLost => TypeOK'
         /\ Connect => TypeOK'
         /\ \A s \in Sessions : Closes(s) => TypeOK'
         /\ \A r \in Calls : ReadFails(r) => TypeOK'
         /\ \A r \in Calls, S \in {ConfigPoint, Measured} : Ask(r, S) => TypeOK'
<1>1. ASSUME LinkLost PROVE TypeOK'
  BY <1>1 DEF LinkLost, shadow, TypeOK
<1>2. ASSUME Connect PROVE TypeOK'
  <2>1. session' \in 0..MaxSession /\ link' \in {0, session'}
    BY <1>2, ShadowAssumption DEF Connect, TypeOK
  <2>2. value \in Values
    BY ShadowAssumption DEF TypeOK, Values
  <2>3. dp' \in Values /\ config' \in Values /\ floor' \in Values /\ seen' \in Values /\ outrun' \subseteq Names
    BY <1>2, <2>2, Basics DEF Connect, OnConnect
  <2>4. passed' \in [Calls -> SUBSET Names]
    BY <1>2 DEF Connect
  <2>5. UNCHANGED <<value, frames, read, due>>
    BY <1>2 DEF Connect
  <2> QED
    BY <2>1, <2>3, <2>4, <2>5 DEF TypeOK
<1>3. ASSUME NEW s \in Sessions, Closes(s) PROVE TypeOK'
  <2>1. frames' \in [Sessions -> Seq(Frame)]
    <3>1. <<>> \in Seq(Frame) /\ frames \in [Sessions -> Seq(Frame)]
      BY Types
    <3> QED
      BY <1>3, <3>1 DEF Closes
  <2> QED
    BY <1>3, <2>1 DEF Closes, shadow, TypeOK, Frame
<1>4. Idle \in Reading /\ Over \in Reading
  BY Basics DEF Idle, Over, Reading
<1>5. read \in [Calls -> Reading]
  BY Types
<1>6. ASSUME NEW r \in Calls, ReadFails(r) PROVE TypeOK'
  <2>1. read' \in [Calls -> Reading]
    BY <1>4, <1>5, <1>6 DEF ReadFails
  <2> QED
    BY <1>6, <2>1 DEF ReadFails, shadow, TypeOK, Reading
<1>7. ASSUME NEW r \in Calls, NEW S \in {ConfigPoint, Measured}, Ask(r, S) PROVE TypeOK'
  <2> DEFINE q == [at |-> "asked", names |-> S, dp |-> Empty,
                   session |-> IF r \in Sessions THEN r ELSE session]
  <2>1. q.session \in 0..MaxSession
    BY ShadowAssumption DEF Sessions, TypeOK
  <2>2. S \in SUBSET Names
    BY DEF Names
  <2>3. q \in Reading
    BY <2>1, <2>2, Basics DEF Reading
  <2>4. read' = [read EXCEPT ![r] = q]
    BY <1>7 DEF Ask
  <2> HIDE DEF q
  <2>5. read' \in [Calls -> Reading]
    BY <1>5, <2>3, <2>4
  <2> QED
    BY <1>7, <2>5 DEF Ask, shadow, TypeOK, Reading
<1> QED
  BY <1>1, <1>2, <1>3, <1>6, <1>7

LEMMA ReceiveTypes ==
  ASSUME TypeOK, NEW s \in Sessions, Receive(s)
  PROVE  TypeOK'
<1> DEFINE f == Head(frames[s])
<1>1. frames[s] \in Seq(Frame) /\ frames[s] # <<>> /\ f \in Frame /\ Tail(frames[s]) \in Seq(Frame)
  BY Types DEF Receive
<1>2. f.dp \in Values /\ f.call \in {0} \cup Calls
  BY <1>1 DEF Frame
<1>3. frames' \in [Sessions -> Seq(Frame)]
  BY <1>1, Types DEF Receive
<1>4. UNCHANGED <<value, link, session, floor>>
  BY DEF Receive
<1>5. CASE OnDpReport(s)
  <2>1. DpMerge(f.dp, s, {})
    BY <1>5 DEF OnDpReport
  <2>2. dp' \in Values /\ seen' \in Values /\ outrun' \subseteq Names
    BY <1>2, <2>1, MergeTypes
  <2>3. passed' \in [Calls -> SUBSET Names]
    BY <1>5, Types DEF OnDpReport, Carried
  <2>4. UNCHANGED <<read, due, config>>
    BY <1>5 DEF OnDpReport
  <2> QED
    BY <1>3, <1>4, <2>2, <2>3, <2>4 DEF TypeOK, Frame
<1>6. CASE f.call # 0 /\ OnReply(s)
  <2>1. f.call \in Calls
    BY <1>2, <1>6
  <2>2. read' \in [Calls -> Reading]
    <3>1. read \in [Calls -> Reading]
      BY Types
    <3>2. [read[f.call] EXCEPT !.at = "due", !.dp = f.dp] \in Reading
      BY <1>2, <2>1, <3>1 DEF Reading
    <3>3. read' = [read EXCEPT ![f.call] = [read[f.call] EXCEPT !.at = "due", !.dp = f.dp]]
      BY <1>6, <2>1, <3>1 DEF OnReply
    <3> HIDE DEF f
    <3> QED
      BY <2>1, <3>1, <3>2, <3>3
  <2>3. due' \in Seq(Calls)
    BY <1>6, <2>1, Types DEF OnReply
  <2>4. UNCHANGED <<dp, config, seen, outrun, passed>>
    BY <1>6 DEF OnReply, shadow
  <2> QED
    BY <1>3, <1>4, <2>2, <2>3, <2>4 DEF TypeOK, Frame, Reading
<1>7. CASE UNCHANGED <<shadow, passed, read, due>>
  BY <1>3, <1>4, <1>7 DEF TypeOK, shadow, Frame
<1> QED
  BY <1>5, <1>6, <1>7 DEF Receive, OnLateReply

LEMMA ResumeTypes ==
  ASSUME TypeOK, Resume
  PROVE  TypeOK'
<1> DEFINE r == Head(due)
<1>1. r \in Calls /\ due' \in Seq(Calls)
  BY Types DEF Resume
<1>2. read \in [Calls -> Reading] /\ read[r].dp \in Values /\ passed[r] \in SUBSET Names
  BY <1>1, Types DEF Reading
<1>3. dp' \in Values /\ seen' \in Values /\ outrun' \subseteq Names
  <2>1. DpMerge(read[r].dp, read[r].session, passed[r])
    BY DEF Resume
  <2> QED
    BY <1>2, <2>1, MergeTypes
<1>4. config' \in Values
  <2>1. \A n \in Names : read[r].dp[n] \in 0..MaxValue /\ config[n] \in 0..MaxValue
    BY <1>2 DEF TypeOK, Values
  <2>2. config' = ConfigOf(r)
    BY DEF Resume
  <2> HIDE DEF r
  <2> QED
    BY <1>2, <2>1, <2>2 DEF ConfigOf, Values
<1>5. read' \in [Calls -> Reading]
  <2>1. Over \in Reading
    BY Basics DEF Idle, Over, Reading
  <2> QED
    BY <1>1, <1>2, <2>1 DEF Resume
<1>6. passed' \in [Calls -> SUBSET Names]
  BY Types DEF Resume
<1>7. UNCHANGED <<value, link, session, frames, floor>>
  BY DEF Resume
<1> QED
  BY <1>1, <1>3, <1>4, <1>5, <1>6, <1>7 DEF TypeOK, Reading

\* Every step keeps every variable in its type.
LEMMA NextTypes == TypeOK /\ [Next]_vars => TypeOK'
<1> SUFFICES ASSUME TypeOK, [Next]_vars
             PROVE  TypeOK'
  OBVIOUS
<1>1. CASE UNCHANGED vars
  BY <1>1 DEF vars, TypeOK
<1>2. CASE Next
  BY <1>2, ChangeTypes, SendingTypes, QuietTypes, ReceiveTypes, ResumeTypes DEF Next
<1> QED
  BY <1>1, <1>2

(***************************************************************************)
(* What the configuration lists is in the shadow.                          *)
(***************************************************************************)
LEMMA NextConfig == TypeOK /\ ConfigIsShown /\ [Next]_vars => ConfigIsShown'
<1> SUFFICES ASSUME TypeOK, ConfigIsShown, [Next]_vars
             PROVE  ConfigIsShown'
  OBVIOUS
<1>1. ASSUME NEW d, NEW s, NEW stale, DpMerge(d, s, stale)
      PROVE  \A n \in Names : (dp[n] # 0 \/ d[n] # 0) => dp'[n] # 0
  BY <1>1 DEF DpMerge, Update
<1>2. CASE Connect
  BY <1>2, Basics DEF Connect, OnConnect, ConfigIsShown
<1>3. CASE Resume
  <2> DEFINE r == Head(due)
  <2>1. DpMerge(read[r].dp, read[r].session, passed[r]) /\ config' = ConfigOf(r)
    BY <1>3 DEF Resume
  <2>2. \A n \in Names : config'[n] # 0 => config[n] # 0 \/ read[r].dp[n] # 0
    <3>1. CASE r \in Sessions
      BY <2>1, <3>1 DEF ConfigOf
    <3>2. CASE r \notin Sessions
      BY <2>1, <3>2 DEF ConfigOf
    <3> QED
      BY <3>1, <3>2
  <2> HIDE DEF r
  <2> QED
    BY <1>1, <2>1, <2>2 DEF ConfigIsShown
<1>4. ASSUME NEW s \in Sessions, Receive(s)
      PROVE  ConfigIsShown'
  <2>1. CASE OnDpReport(s)
    <3>1. DpMerge(Head(frames[s]).dp, s, {}) /\ config' = config
      BY <2>1 DEF OnDpReport
    <3> QED
      BY <1>1, <3>1 DEF ConfigIsShown
  <2>2. CASE UNCHANGED shadow
    BY <2>2 DEF shadow, ConfigIsShown
  <2> QED
    BY <1>4, <2>1, <2>2 DEF Receive, OnReply, OnLateReply, shadow
<1>5. CASE UNCHANGED shadow
  BY <1>5 DEF shadow, ConfigIsShown
<1> QED
  BY <1>2, <1>3, <1>4, <1>5 DEF Next, vars, Change, PeriodicReport, LinkLost, Closes, Ask,
     AnswerRead, ReadFails, shadow

(***************************************************************************)
(* The bookkeeping: sessions, answers and due calls.                       *)
(***************************************************************************)
LEMMA InitQueues == Init => Queues
<1> SUFFICES ASSUME Init
             PROVE  Queues
  OBVIOUS
<1>1. \A s \in Sessions : frames[s] = <<>>
  BY DEF Init
<1>2. \A r \in Calls : read[r].session = 0
  BY DEF Init, Idle
<1>3. \A n \in Names : floor[n] = 0 /\ seen[n] = 0 /\ value[n] = 1
  BY Basics DEF Init
<1>4. session = 0 /\ due = <<>>
  BY DEF Init
<1> QED
  BY <1>1, <1>2, <1>3, <1>4 DEF Queues, QuietAhead, ReadsSoFar, MergedSoFar, AnswersAtHome, DueOnce

\* A frame sent is at home: it is a report, or the answer to a call of this connection.
LEMMA SendHome ==
  ASSUME TypeOK, Queues, NEW f \in Frame, link # 0, Send(f),
         \A r \in Calls : f.call = r => read'[r].at = "answered" /\ read'[r].session = link,
         \A r \in Calls : read'[r] = read[r] \/ (read[r].at = "asked" /\ f.call = r)
  PROVE  AnswersAtHome' /\ QuietAhead
<1>1. /\ link = session /\ session \in Sessions
      /\ frames'[session] = Append(frames[session], f)
      /\ \A s \in Sessions : s # session => frames'[s] = frames[s]
      /\ frames \in [Sessions -> Seq(Frame)]
  BY SendTypes, Types
<1>2. ASSUME NEW s \in Sessions, NEW i \in DOMAIN frames'[s], NEW r \in Calls, frames'[s][i].call = r
      PROVE  /\ read'[r].at \in {"answered", "due", "over"}
             /\ read'[r].at = "answered" => read'[r].session = s
  <2>1. CASE i \in DOMAIN frames[s] /\ frames'[s][i] = frames[s][i]
    <3>1. /\ read[r].at \in {"answered", "due", "over"}
          /\ read[r].at = "answered" => read[r].session = s
      BY <1>2, <2>1 DEF Queues, AnswersAtHome
    <3>2. read'[r] = read[r]
      BY <3>1
    <3> QED
      BY <3>1, <3>2
  <2>2. CASE s = session /\ frames'[s][i] = f
    BY <1>1, <1>2, <2>2
  <2>3. (i \in DOMAIN frames[s] /\ frames'[s][i] = frames[s][i]) \/ (s = session /\ frames'[s][i] = f)
    <3>1. CASE s # session
      BY <1>1, <3>1
    <3>2. CASE s = session
      <4>1. frames[s] \in Seq(Frame) /\ frames'[s] = Append(frames[s], f)
        BY <1>1, <3>2
      <4>2. \A k \in DOMAIN Append(frames[s], f) :
              \/ k \in DOMAIN frames[s] /\ Append(frames[s], f)[k] = frames[s][k]
              \/ Append(frames[s], f)[k] = f
        BY <4>1, AppendCases
      <4> QED
        BY <1>2, <3>2, <4>1, <4>2, Zenon
    <3> QED
      BY <3>1, <3>2
  <2> QED
    BY <2>1, <2>2, <2>3
<1> QED
  BY <1>2 DEF AnswersAtHome, Queues

\* What is merged is no newer than the device's values.
LEMMA MergeSoFar ==
  ASSUME TypeOK, MergedSoFar, NEW d \in Values, NEW s, NEW stale, DpMerge(d, s, stale),
         s = session => OfNow(d), UNCHANGED <<value, floor>>
  PROVE  MergedSoFar'
<1> SUFFICES ASSUME NEW n \in Names
             PROVE  floor[n] <= value[n] /\ seen'[n] <= value[n]
  BY DEF MergedSoFar
<1>1. floor[n] <= value[n] /\ seen[n] <= value[n]
  BY DEF MergedSoFar
<1>2. seen'[n] = IF s = session /\ d[n] > seen[n] THEN d[n] ELSE seen[n]
  BY DEF DpMerge
<1>3. s = session /\ d[n] # 0 => d[n] <= value[n]
  BY DEF OfNow
<1>4. d[n] \in Nat /\ seen[n] \in Nat /\ value[n] \in Nat
  BY Types, ShadowAssumption DEF Values
<1>5. CASE s = session /\ d[n] > seen[n]
  BY <1>1, <1>2, <1>3, <1>4, <1>5
<1>6. CASE ~(s = session /\ d[n] > seen[n])
  BY <1>1, <1>2, <1>6
<1> QED
  BY <1>5, <1>6

\* Every step keeps them, given that what is under way is in order.
LEMMA NextQueues == TypeOK /\ Queues /\ Order /\ [Next]_vars => Queues'
<1> SUFFICES ASSUME TypeOK, Queues, Order, [Next]_vars
             PROVE  Queues'
  OBVIOUS
<1>1. /\ frames \in [Sessions -> Seq(Frame)] /\ read \in [Calls -> Reading] /\ due \in Seq(Calls)
      /\ session \in 0..MaxSession /\ link \in {0, session}
      /\ value \in [Names -> 1..MaxValue] /\ seen \in Values /\ floor \in Values
  BY Types
<1>2. /\ QuietAhead /\ ReadsSoFar /\ MergedSoFar /\ AnswersAtHome /\ DueOnce
  BY DEF Queues
<1>3. ASSUME NEW n \in Names, Change(n)
      PROVE  Queues'
  <2>1. \A m \in Names : value'[m] \in Int /\ value[m] \in Int /\ value[m] <= value'[m]
                          /\ floor[m] \in Int /\ seen[m] \in Int
    <3>1. \A m \in Names : value[m] \in Nat /\ floor[m] \in Int /\ seen[m] \in Int
      BY <1>1, ShadowAssumption DEF Values
    <3>2. \A m \in Names : value'[m] = IF m = n THEN value[n] + 1 ELSE value[m]
      BY <1>1, <1>3 DEF Change
    <3> QED
      BY <3>1, <3>2
  <2>2. UNCHANGED <<session, read, due, floor, seen>>
    BY <1>3 DEF Change, shadow
  <2>3. MergedSoFar'
    <3> SUFFICES ASSUME NEW m \in Names
                 PROVE  floor[m] <= value'[m] /\ seen[m] <= value'[m]
      BY <2>2 DEF MergedSoFar
    <3>1. floor[m] <= value[m] /\ seen[m] <= value[m]
      BY <1>2 DEF MergedSoFar
    <3> QED
      BY <2>1, <3>1
  <2>4. AnswersAtHome' /\ QuietAhead'
    <3>1. CASE UNCHANGED frames
      BY <1>2, <2>2, <3>1 DEF AnswersAtHome, QuietAhead
    <3>2. CASE CanSend /\ Send([call |-> 0, dp |-> [Empty EXCEPT ![n] = value[n] + 1]])
      <4> DEFINE f == [call |-> 0, dp |-> [Empty EXCEPT ![n] = value[n] + 1]]
      <4>1. f \in Frame
        <5>1. value[n] + 1 \in 0..MaxValue
          BY <1>1, <1>3, ShadowAssumption DEF Change
        <5>2. [Empty EXCEPT ![n] = value[n] + 1] \in Values
          BY <5>1, Basics DEF Values
        <5> QED
          BY <5>2, Basics DEF Frame
      <4>2. f.call = 0
        OBVIOUS
      <4>3. link # 0 /\ Send(f)
        BY <3>2 DEF CanSend
      <4> HIDE DEF f
      <4>4. \A r \in Calls : f.call # r
        BY <4>2, Basics
      <4>5. AnswersAtHome'
        BY <2>2, <4>1, <4>3, <4>4, SendHome
      <4>6. QuietAhead'
        BY <1>2, <2>2, <4>1, <4>3, SendTypes, <1>1 DEF QuietAhead
      <4> QED
        BY <4>5, <4>6
    <3> QED
      BY <1>3, <3>1, <3>2 DEF Change
  <2> QED
    BY <1>2, <2>2, <2>3, <2>4 DEF Queues, ReadsSoFar, DueOnce
<1>4. CASE PeriodicReport
  <2> DEFINE f == Report(Measured)
  <2>1. f \in Frame /\ f.call = 0
    BY ReportType, Basics DEF Names
  <2>2. link # 0 /\ Send(f) /\ UNCHANGED <<value, session, read, due, floor, seen>>
    BY <1>4 DEF PeriodicReport, CanSend, shadow
  <2> HIDE DEF f
  <2>3. \A r \in Calls : f.call # r
    BY <2>1, Basics
  <2>4. AnswersAtHome'
    BY <2>1, <2>2, <2>3, SendHome
  <2>5. QuietAhead'
    BY <1>1, <1>2, <2>1, <2>2, SendTypes DEF QuietAhead
  <2> QED
    BY <1>2, <2>2, <2>4, <2>5 DEF Queues, ReadsSoFar, MergedSoFar, DueOnce
<1>5. ASSUME NEW r \in Calls, AnswerRead(r)
      PROVE  Queues'
  <2> DEFINE f == [Report(read[r].names) EXCEPT !.call = r]
  <2>1. f \in Frame /\ f.call = r
    <3>1. read[r].names \in SUBSET Names
      BY <1>1 DEF Reading
    <3> QED
      BY <3>1, ReportType
  <2>2. link # 0 /\ Send(f) /\ UNCHANGED <<value, session, due, floor, seen>>
    BY <1>5 DEF AnswerRead, CanSend, shadow
  <2>3. /\ read'[r].at = "answered" /\ read'[r].session = read[r].session /\ read[r].session = link
        /\ read[r].at = "asked" /\ \A q \in Calls : q # r => read'[q] = read[q]
    BY <1>1, <1>5 DEF AnswerRead, Reading
  <2> HIDE DEF f
  <2>4. AnswersAtHome'
    BY <2>1, <2>2, <2>3, SendHome
  <2>5. QuietAhead'
    BY <1>1, <1>2, <2>1, <2>2, SendTypes DEF QuietAhead
  <2>6. ReadsSoFar'
    BY <1>2, <2>2, <2>3 DEF ReadsSoFar
  <2>7. DueOnce'
    BY <1>1, <1>2, <2>2, <2>3 DEF DueOnce
  <2> QED
    BY <1>2, <2>2, <2>4, <2>5, <2>6, <2>7 DEF Queues, MergedSoFar
<1>6. CASE LinkLost
  BY <1>2, <1>6 DEF LinkLost, shadow, Queues, QuietAhead, ReadsSoFar, MergedSoFar, AnswersAtHome, DueOnce
<1>7. CASE Connect
  <2>1. session' = session + 1 /\ session' \in Nat /\ session \in Nat /\ UNCHANGED <<value, frames, read, due>>
        /\ floor' = value /\ seen' = Empty
    BY <1>1, <1>7, ShadowAssumption DEF Connect
  <2>2. QuietAhead'
    <3>1. \A s \in Sessions : s > session' => s > session
      BY <2>1, Basics
    <3> QED
      BY <1>2, <2>1, <3>1 DEF QuietAhead
  <2>3. ReadsSoFar'
    <3>1. \A r \in Calls : read[r].session \in Int
      BY <1>1 DEF Reading
    <3> QED
      BY <1>2, <2>1, <3>1 DEF ReadsSoFar
  <2>4. MergedSoFar'
    <3>1. \A n \in Names : value[n] \in Nat
      BY <1>1, ShadowAssumption
    <3> QED
      BY <2>1, <3>1, Basics DEF MergedSoFar
  <2> QED
    BY <1>2, <2>1, <2>2, <2>3, <2>4 DEF Queues, AnswersAtHome, DueOnce
<1>8. ASSUME NEW s \in Sessions, Closes(s)
      PROVE  Queues'
  <2>1. frames'[s] = <<>> /\ \A t \in Sessions : t # s => frames'[t] = frames[t]
    BY <1>1, <1>8 DEF Closes
  <2>2. UNCHANGED <<value, session, read, due, floor, seen>>
    BY <1>8 DEF Closes, shadow
  <2>3. AnswersAtHome' /\ QuietAhead'
    BY <1>2, <2>1, <2>2 DEF AnswersAtHome, QuietAhead
  <2> QED
    BY <1>2, <2>2, <2>3 DEF Queues, ReadsSoFar, MergedSoFar, DueOnce
<1>9. ASSUME NEW r \in Calls, ReadFails(r)
      PROVE  Queues'
  <2>1. /\ read'[r].at = "over" /\ read'[r].session = 0 /\ read[r].at # "due"
        /\ \A q \in Calls : q # r => read'[q] = read[q]
    BY <1>1, <1>9 DEF ReadFails, Over, Idle
  <2>2. UNCHANGED <<value, session, frames, due, floor, seen>>
    BY <1>9 DEF ReadFails, shadow
  <2>3. ReadsSoFar'
    <3>1. 0 <= session
      BY <1>1, ShadowAssumption
    <3> QED
      BY <1>2, <2>1, <2>2, <3>1 DEF ReadsSoFar
  <2>4. AnswersAtHome'
    BY <1>2, <2>1, <2>2 DEF AnswersAtHome
  <2>5. DueOnce'
    BY <1>1, <1>2, <2>1, <2>2 DEF DueOnce
  <2> QED
    BY <1>2, <2>2, <2>3, <2>4, <2>5 DEF Queues, MergedSoFar, QuietAhead
<1>10. ASSUME NEW r \in Calls, NEW S \in {ConfigPoint, Measured}, Ask(r, S)
       PROVE  Queues'
  <2>1. /\ read'[r].session = (IF r \in Sessions THEN r ELSE session) /\ read[r].at = "idle"
        /\ r \in Sessions => r <= session
        /\ \A q \in Calls : q # r => read'[q] = read[q]
    BY <1>1, <1>10 DEF Ask
  <2>2. UNCHANGED <<value, session, frames, due, floor, seen>>
    BY <1>10 DEF Ask, shadow
  <2>3. ReadsSoFar'
    BY <1>1, <1>2, <2>1, <2>2, SMTT(30) DEF ReadsSoFar
  <2>4. AnswersAtHome'
    BY <1>2, <2>1, <2>2 DEF AnswersAtHome
  <2>5. DueOnce'
    BY <1>1, <1>2, <2>1, <2>2 DEF DueOnce
  <2> QED
    BY <1>2, <2>2, <2>3, <2>4, <2>5 DEF Queues, MergedSoFar, QuietAhead
<1>11. ASSUME NEW s \in Sessions, Receive(s)
       PROVE  Queues'
  <2> DEFINE f == Head(frames[s])
  <2>1. /\ frames[s] \in Seq(Frame) /\ frames[s] # <<>> /\ f = frames[s][1] /\ 1 \in DOMAIN frames[s]
        /\ frames'[s] = Tail(frames[s]) /\ \A t \in Sessions : t # s => frames'[t] = frames[t]
    BY <1>1, <1>11 DEF Receive
  <2>2. UNCHANGED <<value, session, floor>> /\ f \in Frame
    BY <1>11, <2>1 DEF Receive
  <2>3. f.dp \in Values /\ f.call \in {0} \cup Calls
    BY <2>2 DEF Frame
  <2>4. QuietAhead'
    BY <1>2, <2>1, <2>2 DEF QuietAhead
  <2>5. \A t \in Sessions : \A i \in DOMAIN frames'[t] : \E j \in DOMAIN frames[t] : frames'[t][i] = frames[t][j]
    <3>1. \A i \in DOMAIN Tail(frames[s]) : \E j \in DOMAIN frames[s] : Tail(frames[s])[i] = frames[s][j]
      BY <2>1, TailElements
    <3>2. ASSUME NEW t \in Sessions, NEW i \in DOMAIN frames'[t]
          PROVE  \E j \in DOMAIN frames[t] : frames'[t][i] = frames[t][j]
      <4>1. CASE t = s
        BY <2>1, <3>1, <3>2, <4>1, Zenon
      <4>2. CASE t # s
        <5>1. frames'[t] = frames[t]
          BY <2>1, <4>2
        <5> QED
          BY <3>2, <5>1, Zenon
      <4> QED
        BY <4>1, <4>2
    <3> QED
      BY <3>2
  <2>6. AnswersAtHome' <=> \A t \in Sessions : \A i \in DOMAIN frames'[t] : \A r \in Calls :
          frames'[t][i].call = r => /\ read'[r].at \in {"answered", "due", "over"}
                                    /\ read'[r].at = "answered" => read'[r].session = t
    BY DEF AnswersAtHome
  <2>7. CASE OnReply(s) /\ f.call # 0 /\ read[f.call].at = "answered"
    <3>1. f.call \in Calls
      BY <2>3, <2>7
    <3>2. /\ read'[f.call].at = "due" /\ read'[f.call].session = read[f.call].session
          /\ \A q \in Calls : q # f.call => read'[q] = read[q]
      BY <1>1, <2>7, <3>1 DEF OnReply, Reading
    <3>3. seen' = seen /\ due' = Append(due, f.call)
      BY <2>7 DEF OnReply, shadow
    <3> HIDE DEF f
    <3>4. ReadsSoFar'
      BY <1>2, <2>2, <3>1, <3>2 DEF ReadsSoFar
    <3>5. AnswersAtHome'
      BY <1>2, <2>5, <2>6, <3>2 DEF AnswersAtHome
    <3>6. \A k \in DOMAIN due : due[k] \in Calls /\ due[k] # f.call
      BY <1>1, <1>2, <2>7, <3>1 DEF DueOnce
    <3>7. DueOnce'
      <4>1. /\ Len(due') = Len(due) + 1 /\ due'[Len(due) + 1] = f.call /\ Len(due) \in Nat
            /\ \A k \in DOMAIN due : due'[k] = due[k]
            /\ DOMAIN due = 1..Len(due) /\ DOMAIN due' = 1..(Len(due) + 1)
        BY <1>1, <3>1, <3>3
      <4>2. ASSUME NEW k \in DOMAIN due'
            PROVE  read'[due'[k]].at = "due" /\ \A j \in DOMAIN due' : j < k => due'[j] # due'[k]
        <5>1. CASE k \in DOMAIN due
          <6>1. \A j \in DOMAIN due' : j < k => j \in DOMAIN due
            BY <4>1, <5>1
          <6>2. read[due[k]].at = "due" /\ \A j \in DOMAIN due : j < k => due[j] # due[k]
            BY <1>2, <5>1 DEF DueOnce
          <6> QED
            BY <3>2, <3>6, <4>1, <5>1, <6>1, <6>2
        <5>2. CASE k = Len(due) + 1
          <6>1. \A j \in DOMAIN due' : j < k => j \in DOMAIN due
            BY <4>1, <5>2
          <6> QED
            BY <3>2, <3>6, <4>1, <5>2, <6>1
        <5> QED
          BY <4>1, <5>1, <5>2
      <4> QED
        BY <4>2 DEF DueOnce
    <3> QED
      BY <1>2, <2>2, <2>4, <3>3, <3>4, <3>5, <3>7 DEF Queues, MergedSoFar
  <2>8. CASE UNCHANGED <<read, due, seen>>
    <3>1. AnswersAtHome'
      BY <1>2, <2>5, <2>6, <2>8 DEF AnswersAtHome
    <3> QED
      BY <1>2, <2>2, <2>4, <2>8, <3>1 DEF Queues, MergedSoFar, ReadsSoFar, DueOnce
  <2>9. CASE OnDpReport(s)
    <3>1. DpMerge(f.dp, s, {}) /\ UNCHANGED <<read, due>>
      BY <2>9 DEF OnDpReport
    <3>2. s = session => OfNow(f.dp)
      BY <2>1 DEF Order, FramesInOrder
    <3>3. MergedSoFar'
      BY <1>2, <2>2, <2>3, <3>1, <3>2, MergeSoFar
    <3>4. AnswersAtHome'
      BY <1>2, <2>5, <2>6, <3>1 DEF AnswersAtHome
    <3> QED
      BY <1>2, <2>2, <2>4, <3>1, <3>3, <3>4 DEF Queues, ReadsSoFar, DueOnce
  <2> QED
    BY <1>11, <2>7, <2>8, <2>9 DEF Receive, OnLateReply, shadow
<1>12. CASE Resume
  <2> DEFINE r == Head(due)
  <2>1. /\ r = due[1] /\ due # <<>> /\ due' = Tail(due) /\ r \in Calls /\ 1 \in DOMAIN due
        /\ \A k \in DOMAIN due' : k + 1 \in DOMAIN due /\ due'[k] = due[k + 1] /\ k \in Nat /\ 1 < k + 1
    BY <1>1, <1>12 DEF Resume
  <2>2. /\ DpMerge(read[r].dp, read[r].session, passed[r]) /\ read' = [read EXCEPT ![r] = Over]
        /\ UNCHANGED <<value, session, frames, floor>>
    BY <1>12 DEF Resume
  <2> HIDE DEF r
  <2>3. read'[r].at = "over" /\ read'[r].session = 0 /\ \A q \in Calls : q # r => read'[q] = read[q]
    BY <1>1, <2>1, <2>2 DEF Over, Idle
  <2>4. read[r].dp \in Values
    BY <1>1, <2>1 DEF Reading
  <2>5. read[r].session = session => OfNow(read[r].dp)
    BY <2>1 DEF Order, DueInOrder, Current
  <2>6. MergedSoFar'
    BY <1>2, <2>2, <2>4, <2>5, MergeSoFar
  <2>7. ReadsSoFar'
    BY <1>1, <1>2, <2>2, <2>3 DEF ReadsSoFar
  <2>8. AnswersAtHome'
    BY <1>2, <2>2, <2>3 DEF AnswersAtHome
  <2>9. DueOnce'
    <3>1. \A k \in DOMAIN due' : due'[k] # r /\ due'[k] \in Calls /\ read[due'[k]].at = "due"
      BY <1>1, <1>2, <2>1 DEF DueOnce
    <3>2. \A j, k \in DOMAIN due' : j < k => due'[j] # due'[k]
      <4>1. \A j, k \in DOMAIN due' : j < k => j + 1 < k + 1
        BY <2>1
      <4>2. \A j, k \in DOMAIN due : j < k => due[j] # due[k]
        BY <1>2 DEF DueOnce
      <4> QED
        BY <2>1, <4>1, <4>2
    <3> QED
      BY <2>3, <3>1, <3>2 DEF DueOnce
  <2> QED
    BY <1>2, <2>2, <2>6, <2>7, <2>8, <2>9 DEF Queues, QuietAhead
<1>13. CASE UNCHANGED vars
  BY <1>2, <1>13 DEF vars, shadow, Queues, QuietAhead, ReadsSoFar, MergedSoFar, AnswersAtHome, DueOnce
<1> QED
  BY <1>3, <1>4, <1>5, <1>6, <1>7, <1>8, <1>9, <1>10, <1>11, <1>12, <1>13 DEF Next

(***************************************************************************)
(* What is under way is in order.                                          *)
(***************************************************************************)
LEMMA ValuesAreNat == \A d \in Values : \A n \in Names : d[n] \in Nat
BY ShadowAssumption DEF Values

LEMMA UnderWayTypes ==
  ASSUME TypeOK
  PROVE  /\ \A s \in Sessions : frames[s] \in Seq(Frame)
         /\ \A s \in Sessions : \A i \in DOMAIN frames[s] : frames[s][i].dp \in Values /\ i \in Nat
         /\ \A k \in DOMAIN due : due[k] \in Calls /\ read[due[k]].dp \in Values /\ k \in Nat
         /\ \A n \in Names : value[n] \in Nat /\ floor[n] \in Nat /\ seen[n] \in Nat
<1>1. \A s \in Sessions : frames[s] \in Seq(Frame)
  BY Types
<1>2. \A s \in Sessions : \A i \in DOMAIN frames[s] : frames[s][i] \in Frame /\ i \in Nat
  BY <1>1
<1>3. \A k \in DOMAIN due : due[k] \in Calls /\ k \in Nat
  BY Types
<1>4. \A r \in Calls : read[r].dp \in Values
  BY Types DEF Reading
<1>5. \A n \in Names : value[n] \in Nat /\ floor[n] \in Nat /\ seen[n] \in Nat
  BY Types, ValuesAreNat, ShadowAssumption
<1> QED
  BY <1>1, <1>2, <1>3, <1>4, <1>5 DEF Frame

\* What a device sends carries its values of now, and is the newest under way.
LEMMA SendOrder ==
  ASSUME TypeOK, Queues, Order, NEW f \in Frame, link # 0, Send(f),
         \A n \in Names : value'[n] \in Nat /\ value[n] <= value'[n],
         \A n \in Names : f.dp[n] # 0 => f.dp[n] = value'[n],
         UNCHANGED <<session, due, floor, seen, passed>>,
         \A k \in DOMAIN due : read'[due[k]] = read[due[k]]
  PROVE  Order'
<1>1. /\ session \in Sessions /\ frames[session] \in Seq(Frame)
      /\ frames'[session] = Append(frames[session], f)
  BY SendTypes, UnderWayTypes
<1>2. f.dp \in Values /\ \A n \in Names : f.dp[n] \in Nat /\ seen[n] <= value[n] /\ floor[n] <= value[n]
  BY ValuesAreNat DEF Frame, Queues, MergedSoFar
<1>3. \A d \in Values : OfNow(d) => \A n \in Names : d[n] # 0 => floor[n] <= d[n] /\ d[n] <= value'[n]
  BY UnderWayTypes, ValuesAreNat DEF OfNow
<1>4. \A n \in Names : f.dp[n] # 0 => floor[n] <= f.dp[n] /\ f.dp[n] <= value'[n]
  BY <1>2, UnderWayTypes
<1>5. \A d \in Values : OfNow(d) => NoOlder(f.dp, d)
  <2>1. ASSUME NEW d \in Values, OfNow(d), NEW n \in Names, f.dp[n] # 0, d[n] # 0
        PROVE  d[n] <= f.dp[n]
    <3>1. d[n] <= value[n] /\ value[n] <= value'[n] /\ f.dp[n] = value'[n]
      BY <2>1 DEF OfNow
    <3>2. d[n] \in Nat /\ value[n] \in Nat /\ value'[n] \in Nat
      BY UnderWayTypes, ValuesAreNat
    <3> QED
      BY <3>1, <3>2
  <2> QED
    BY <2>1 DEF NoOlder
<1>6. NoOlder(f.dp, seen)
  <2>1. ASSUME NEW n \in Names, f.dp[n] # 0
        PROVE  seen[n] <= f.dp[n]
    <3>1. seen[n] <= value[n] /\ value[n] <= value'[n] /\ f.dp[n] = value'[n]
      BY <1>2, <2>1
    <3>2. seen[n] \in Nat /\ value[n] \in Nat /\ value'[n] \in Nat
      BY UnderWayTypes
    <3> QED
      BY <3>1, <3>2
  <2> QED
    BY <2>1 DEF NoOlder
<1>7. \A i \in DOMAIN Append(frames[session], f) :
        \/ i \in DOMAIN frames[session] /\ Append(frames[session], f)[i] = frames[session][i]
        \/ Append(frames[session], f)[i] = f /\ \A j \in DOMAIN Append(frames[session], f) : ~(i < j)
  BY <1>1
<1>8. \A i \in DOMAIN frames[session] :
        /\ frames[session][i].dp \in Values
        /\ OfNow(frames[session][i].dp) /\ NoOlder(frames[session][i].dp, seen)
        /\ \A j \in DOMAIN frames[session] :
             i < j => NoOlder(frames[session][j].dp, frames[session][i].dp)
  BY <1>1, UnderWayTypes DEF Order, FramesInOrder
<1>9. FramesInOrder'
  <2> SUFFICES ASSUME NEW i \in DOMAIN Append(frames[session], f), NEW d, d = Append(frames[session], f)[i].dp
               PROVE  /\ \A n \in Names : d[n] # 0 => floor[n] <= d[n] /\ d[n] <= value'[n]
                      /\ NoOlder(d, seen)
                      /\ \A j \in DOMAIN Append(frames[session], f) :
                           i < j => NoOlder(Append(frames[session], f)[j].dp, d)
    BY <1>1 DEF FramesInOrder, OfNow
  <2>1. CASE i \in DOMAIN frames[session] /\ Append(frames[session], f)[i] = frames[session][i]
    <3>1. /\ d \in Values /\ OfNow(d) /\ NoOlder(d, seen)
          /\ \A j \in DOMAIN frames[session] : i < j => NoOlder(frames[session][j].dp, d)
      BY <1>8, <2>1
    <3>2. \A j \in DOMAIN Append(frames[session], f) : i < j => NoOlder(Append(frames[session], f)[j].dp, d)
      BY <1>5, <1>7, <3>1
    <3> QED
      BY <1>3, <3>1, <3>2
  <2>2. CASE Append(frames[session], f)[i] = f /\ \A j \in DOMAIN Append(frames[session], f) : ~(i < j)
    BY <1>4, <1>6, <2>2
  <2> QED
    BY <1>7, <2>1, <2>2
<1>10. DueInOrder'
  <2> SUFFICES ASSUME NEW k \in DOMAIN due, Current(k), NEW d, d = read[due[k]].dp
               PROVE  /\ \A n \in Names : d[n] # 0 => floor[n] <= d[n] /\ d[n] <= value'[n]
                      /\ \A n \in Names \ passed[due[k]] : d[n] # 0 => seen[n] <= d[n]
                      /\ \A s \in Sessions : s = session =>
                           \A i \in DOMAIN frames'[s] : NoOlder(frames'[s][i].dp, d)
                      /\ \A j \in DOMAIN due : k < j /\ Current(j) => NoOlder(read[due[j]].dp, d)
    BY DEF DueInOrder, OfNow, Current
  <2>1. /\ d \in Values /\ OfNow(d)
        /\ \A n \in Names \ passed[due[k]] : d[n] # 0 => seen[n] <= d[n]
        /\ \A i \in DOMAIN frames[session] : NoOlder(frames[session][i].dp, d)
        /\ \A j \in DOMAIN due : k < j /\ Current(j) => NoOlder(read[due[j]].dp, d)
    BY <1>1, UnderWayTypes DEF Order, DueInOrder
  <2>2. \A i \in DOMAIN Append(frames[session], f) : NoOlder(Append(frames[session], f)[i].dp, d)
    BY <1>5, <1>7, <2>1
  <2>3. \A s \in Sessions : s = session =>
          \A i \in DOMAIN frames'[s] : NoOlder(frames'[s][i].dp, d)
    BY <1>1, <2>2
  <2> QED
    BY <1>3, <2>1, <2>3
<1> QED
  BY <1>9, <1>10 DEF Order

\* Frames taken away at the head, or all of them, leave the rest in order.
Shifted(o) ==
  \A s \in Sessions : s = session =>
    \A i \in DOMAIN frames'[s] : i + o \in DOMAIN frames[s] /\ frames'[s][i] = frames[s][i + o]

LEMMA FramesShift ==
  ASSUME TypeOK, frames' \in [Sessions -> Seq(Frame)], FramesInOrder, NEW o \in Nat, Shifted(o),
         session' = session, \A d \in Values : OfNow(d) => OfNow(d)',
         \A s \in Sessions : s = session =>
           \A i \in DOMAIN frames'[s] : NoOlder(frames'[s][i].dp, seen')
  PROVE  FramesInOrder'
<1> SUFFICES ASSUME NEW s \in Sessions, s = session, NEW i \in DOMAIN frames'[s],
                    NEW d, d = frames[s][i + o].dp
             PROVE  /\ OfNow(d)'
                    /\ \A j \in DOMAIN frames'[s] : i < j => NoOlder(frames'[s][j].dp, d)
  BY SMTT(30) DEF FramesInOrder, OfNow, Shifted
<1>1. /\ i \in Nat /\ i + o \in DOMAIN frames[s]
      /\ \A j \in DOMAIN frames'[s] : j \in Nat /\ j + o \in DOMAIN frames[s] /\ frames'[s][j] = frames[s][j + o]
  <2>1. \A j \in DOMAIN frames'[s] : j \in Nat
    <3>1. frames'[s] \in Seq(Frame)
      OBVIOUS
    <3> QED
      BY <3>1
  <2> QED
    BY <2>1 DEF Shifted
<1>2. /\ d \in Values /\ OfNow(d)
      /\ \A j \in DOMAIN frames[s] : i + o < j => NoOlder(frames[s][j].dp, d)
  BY <1>1, UnderWayTypes DEF FramesInOrder
<1>3. \A j \in DOMAIN frames'[s] : i < j => i + o < j + o
  BY <1>1
<1> QED
  BY <1>1, <1>2, <1>3

LEMMA DueShift ==
  ASSUME TypeOK, DueInOrder, NEW o \in Nat, Shifted(o),
         UNCHANGED <<session, due>>, \A d \in Values : OfNow(d) => OfNow(d)',
         \A k \in DOMAIN due : read'[due[k]] = read[due[k]],
         \A k \in DOMAIN due : Current(k) =>
           \A n \in Names \ passed'[due[k]] : read[due[k]].dp[n] # 0 => seen'[n] <= read[due[k]].dp[n]
  PROVE  DueInOrder'
<1> SUFFICES ASSUME NEW k \in DOMAIN due, Current(k), NEW d, d = read[due[k]].dp
             PROVE  /\ OfNow(d)'
                    /\ \A n \in Names \ passed'[due[k]] : d[n] # 0 => seen'[n] <= d[n]
                    /\ \A s \in Sessions : s = session =>
                         \A i \in DOMAIN frames'[s] : NoOlder(frames'[s][i].dp, d)
                    /\ \A j \in DOMAIN due : k < j /\ Current(j) => NoOlder(read[due[j]].dp, d)
  BY DEF DueInOrder, OfNow, Current
<1>1. /\ d \in Values /\ OfNow(d)
      /\ \A s \in Sessions : s = session => \A i \in DOMAIN frames[s] : NoOlder(frames[s][i].dp, d)
      /\ \A j \in DOMAIN due : k < j /\ Current(j) => NoOlder(read[due[j]].dp, d)
  BY UnderWayTypes DEF DueInOrder
<1>2. \A s \in Sessions : s = session => \A i \in DOMAIN frames'[s] : NoOlder(frames'[s][i].dp, d)
  BY <1>1 DEF Shifted
<1> QED
  BY <1>1, <1>2

\* Every step keeps it in order, and a value only gets stale by being overtaken.
LEMMA MergeStale ==
  ASSUME TypeOK, StaleOnlyIfOutrun, NEW d \in Values, NEW s, NEW stale \in SUBSET Names,
         DpMerge(d, s, stale), floor' = floor,
         s = session => OfNow(d) /\ \A n \in Names \ stale : d[n] # 0 => seen[n] <= d[n]
  PROVE  StaleOnlyIfOutrun'
<1> SUFFICES ASSUME NEW n \in Names, dp'[n] # 0, dp'[n] < floor[n] \/ dp'[n] < seen'[n], n \notin outrun'
             PROVE  FALSE
  BY DEF StaleOnlyIfOutrun
<1>1. /\ dp'[n] = IF d[n] # 0 THEN d[n] ELSE dp[n]
      /\ seen'[n] = IF s = session /\ d[n] > seen[n] THEN d[n] ELSE seen[n]
      /\ s = session => outrun' = (outrun \ Carried(d)) \cup (stale \cap Carried(d))
      /\ s # session => outrun' = outrun \cup Carried(d)
  BY DEF DpMerge, Update
<1>2. d[n] \in Nat /\ dp[n] \in Nat /\ seen[n] \in Nat /\ floor[n] \in Nat
  BY Types, ValuesAreNat
<1>3. n \in Carried(d) <=> d[n] # 0
  BY DEF Carried
<1>4. CASE d[n] # 0
  <2>1. s = session /\ n \notin stale /\ dp'[n] = d[n]
    BY <1>1, <1>3, <1>4
  <2>2. floor[n] <= d[n] /\ seen[n] <= d[n]
    BY <1>4, <2>1 DEF OfNow
  <2>3. seen'[n] <= d[n]
    BY <1>1, <1>2, <2>2
  <2>4. seen'[n] \in Nat
    BY <1>1, <1>2
  <2> QED
    BY <1>2, <2>1, <2>2, <2>3, <2>4
<1>5. CASE d[n] = 0
  <2>1. dp'[n] = dp[n] /\ n \notin outrun
    BY <1>1, <1>3, <1>5
  <2>2. seen'[n] = seen[n]
    BY <1>1, <1>2, <1>5
  <2> QED
    BY <2>1, <2>2 DEF StaleOnlyIfOutrun
<1> QED
  BY <1>4, <1>5

LEMMA InitOrder == Init => Order /\ StaleOnlyIfOutrun
<1> SUFFICES ASSUME Init
             PROVE  Order /\ StaleOnlyIfOutrun
  OBVIOUS
<1>1. session = 0 /\ due = <<>> /\ \A n \in Names : dp[n] = 0
  BY Basics DEF Init
<1>2. \A s \in Sessions : s # session
  BY <1>1 DEF Sessions
<1> QED
  BY <1>1, <1>2 DEF Order, FramesInOrder, DueInOrder, StaleOnlyIfOutrun

Sound == TypeOK /\ Queues /\ Order /\ StaleOnlyIfOutrun

LEMMA SendingOrder ==
  ASSUME Sound
  PROVE  /\ \A n \in Names : Change(n) => Order'
         /\ PeriodicReport => Order'
         /\ \A r \in Calls : AnswerRead(r) => Order'
<1>1. TypeOK /\ Queues /\ Order /\ read \in [Calls -> Reading] /\ \A n \in Names : value[n] \in Nat
  BY Types, UnderWayTypes DEF Sound
<1>2. ASSUME NEW n \in Names, Change(n)
      PROVE  Order'
  <2>1. /\ UNCHANGED <<session, read, due, floor, seen, passed>>
        /\ \A m \in Names : value'[m] = IF m = n THEN value[n] + 1 ELSE value[m]
    BY <1>1, <1>2, Types DEF Change, shadow
  <2>2. \A m \in Names : value'[m] \in Nat /\ value[m] <= value'[m]
    BY <1>1, <2>1
  <2>3. CASE UNCHANGED frames
    <3>1. \A d \in Values : OfNow(d) => OfNow(d)'
      <4> SUFFICES ASSUME NEW d \in Values, OfNow(d), NEW m \in Names, d[m] # 0
                   PROVE  floor[m] <= d[m] /\ d[m] <= value'[m]
        BY <2>1 DEF OfNow
      <4>1. floor[m] <= d[m] /\ d[m] <= value[m]
        BY DEF OfNow
      <4>2. d[m] \in Nat /\ value[m] \in Nat /\ value'[m] \in Nat /\ value[m] <= value'[m]
        BY <1>1, <2>2, ValuesAreNat
      <4> QED
        BY <4>1, <4>2
    <3>2. Shifted(0) /\ frames' \in [Sessions -> Seq(Frame)]
      BY <1>1, <2>3, UnderWayTypes, Types DEF Shifted
    <3>3. FramesInOrder'
      BY <1>1, <2>1, <2>3, <3>1, <3>2, FramesShift DEF Order, FramesInOrder
    <3>4. DueInOrder'
      BY <1>1, <2>1, <3>1, <3>2, DueShift DEF Order, DueInOrder
    <3> QED
      BY <3>3, <3>4 DEF Order
  <2>4. CASE CanSend /\ Send([call |-> 0, dp |-> [Empty EXCEPT ![n] = value[n] + 1]])
    <3> DEFINE f == [call |-> 0, dp |-> [Empty EXCEPT ![n] = value[n] + 1]]
    <3>1. value[n] + 1 \in 0..MaxValue
      BY <1>1, <1>2, ShadowAssumption DEF Change
    <3>2. [Empty EXCEPT ![n] = value[n] + 1] \in Values
      BY <3>1, Basics DEF Values
    <3>3. f \in Frame
      BY <3>2, Basics DEF Frame
    <3>4. \A m \in Names : f.dp[m] # 0 => f.dp[m] = value'[m]
      BY <2>1, Basics DEF Values
    <3>5. link # 0 /\ Send(f)
      BY <2>4 DEF CanSend
    <3> HIDE DEF f
    <3> QED
      BY <1>1, <2>1, <2>2, <3>3, <3>4, <3>5, SendOrder
  <2> QED
    BY <1>2, <2>3, <2>4 DEF Change
<1>3. ASSUME PeriodicReport
      PROVE  Order'
  <2> DEFINE f == Report(Measured)
  <2>1. f \in Frame /\ \A n \in Names : f.dp[n] # 0 => f.dp[n] = value[n]
    BY <1>1, ReportType, Basics DEF Names
  <2>2. link # 0 /\ Send(f) /\ UNCHANGED <<value, session, read, due, floor, seen, passed>>
    BY <1>3 DEF PeriodicReport, CanSend, shadow
  <2> HIDE DEF f
  <2>3. \A n \in Names : value'[n] \in Nat /\ value[n] <= value'[n]
    BY <1>1, <2>2
  <2> QED
    BY <1>1, <2>1, <2>2, <2>3, SendOrder
<1>4. ASSUME NEW r \in Calls, AnswerRead(r)
      PROVE  Order'
  <2> DEFINE f == [Report(read[r].names) EXCEPT !.call = r]
  <2>1. f \in Frame /\ \A n \in Names : f.dp[n] # 0 => f.dp[n] = value[n]
    <3>1. read[r].names \in SUBSET Names
      BY <1>1 DEF Reading
    <3> QED
      BY <1>1, <3>1, ReportType
  <2>2. link # 0 /\ Send(f) /\ UNCHANGED <<value, session, due, floor, seen, passed>>
    BY <1>4 DEF AnswerRead, CanSend, shadow
  <2>3. read[r].at = "asked" /\ \A q \in Calls : q # r => read'[q] = read[q]
    BY <1>1, <1>4 DEF AnswerRead
  <2>4. \A k \in DOMAIN due : read'[due[k]] = read[due[k]]
    <3>1. \A k \in DOMAIN due : due[k] \in Calls /\ read[due[k]].at = "due"
      BY <1>1, UnderWayTypes DEF Queues, DueOnce
    <3> QED
      BY <2>3, <3>1
  <2> HIDE DEF f
  <2>5. \A n \in Names : value'[n] \in Nat /\ value[n] <= value'[n]
    BY <1>1, <2>2
  <2> QED
    BY <1>1, <2>1, <2>2, <2>4, <2>5, SendOrder
<1> QED
  BY <1>2, <1>3, <1>4

\* What takes nothing from the queues but whole connections, and merges nothing.
LEMMA QuietOrder ==
  ASSUME Sound, UNCHANGED <<value, session, due, floor, seen, passed>>,
         \A s \in Sessions : frames'[s] = frames[s] \/ frames'[s] = <<>>,
         frames' \in [Sessions -> Seq(Frame)],
         \A k \in DOMAIN due : read'[due[k]] = read[due[k]]
  PROVE  Order'
<1>1. Shifted(0)
  <2> SUFFICES ASSUME NEW s \in Sessions, NEW i \in DOMAIN frames'[s]
               PROVE  i + 0 \in DOMAIN frames[s] /\ frames'[s][i] = frames[s][i + 0]
    BY DEF Shifted
  <2>1. frames'[s] = frames[s] /\ i \in Nat
    BY UnderWayTypes DEF Sound
  <2> QED
    BY <2>1
<1>2. \A d \in Values : OfNow(d) => OfNow(d)'
  BY DEF OfNow
<1>3. \A s \in Sessions : s = session => \A i \in DOMAIN frames'[s] : NoOlder(frames'[s][i].dp, seen)
  BY DEF Sound, Order, FramesInOrder
<1>4. FramesInOrder'
  BY <1>1, <1>2, <1>3, FramesShift DEF Sound, Order
<1>5. DueInOrder'
  BY <1>1, <1>2, DueShift DEF Sound, Order, DueInOrder
<1> QED
  BY <1>4, <1>5 DEF Order

\* A new session has an empty connection, and what is due is of an older one.
LEMMA ConnectOrder ==
  ASSUME Sound, Connect
  PROVE  Order'
<1>1. /\ session' = session + 1 /\ UNCHANGED <<frames, read, due>>
  BY DEF Connect
<1>2. session \in Nat /\ \A r \in Calls : read[r].session \in Nat /\ read[r].session <= session
  BY Types, ShadowAssumption DEF Sound, Queues, ReadsSoFar, Reading
<1>3. \A s \in Sessions : s = session' => frames'[s] = <<>>
  BY <1>1, <1>2 DEF Sound, Queues, QuietAhead
<1>4. \A k \in DOMAIN due : read[due[k]].session # session'
  BY <1>1, <1>2, UnderWayTypes DEF Sound
<1> QED
  BY <1>1, <1>3, <1>4 DEF Order, FramesInOrder, DueInOrder, Current

\* The head of a connection is received: a report is merged, an answer queues up.
LEMMA ReceiveOrder ==
  ASSUME Sound, NEW s \in Sessions, Receive(s), TypeOK'
  PROVE  Order' /\ StaleOnlyIfOutrun'
<1> DEFINE f == Head(frames[s])
<1>1. TypeOK /\ Queues /\ FramesInOrder /\ DueInOrder /\ StaleOnlyIfOutrun
  BY DEF Sound, Order
<1>2. /\ frames[s] \in Seq(Frame) /\ frames[s] # <<>> /\ frames'[s] = Tail(frames[s])
      /\ \A t \in Sessions : t # s => frames'[t] = frames[t]
      /\ UNCHANGED <<value, session, floor>>
  BY <1>1, UnderWayTypes, Types DEF Receive
<1>3. /\ f \in Frame /\ f.dp \in Values /\ f.call \in {0} \cup Calls
      /\ 1 \in DOMAIN frames[s] /\ f = frames[s][1]
  <2>1. f \in Frame /\ 1 \in DOMAIN frames[s] /\ f = frames[s][1]
    BY <1>2
  <2> QED
    BY <2>1 DEF Frame
<1>4. frames' \in [Sessions -> Seq(Frame)]
  BY Types DEF TypeOK, Frame
<1>5. PICK o \in {0, 1} : (o = 1) <=> (s = session)
  <2>1. CASE s = session
    BY <2>1
  <2>2. CASE s # session
    BY <2>2
  <2> QED
    BY <2>1, <2>2
<1>6. Shifted(o) /\ \A i \in DOMAIN frames'[s] : i + 1 \in DOMAIN frames[s]
                      /\ frames'[s][i] = frames[s][i + 1] /\ 1 < i + 1
  <2>1. \A i \in DOMAIN Tail(frames[s]) : /\ i + 1 \in DOMAIN frames[s] /\ i \in Nat /\ 1 < i + 1
                                          /\ Tail(frames[s])[i] = frames[s][i + 1]
    BY <1>2
  <2>2. CASE s = session
    BY <1>2, <1>5, <2>1, <2>2 DEF Shifted
  <2>3. CASE s # session
    <3>1. \A i \in DOMAIN frames[session] : session \in Sessions => i + 0 = i
      BY <1>1, UnderWayTypes
    <3> QED
      BY <1>2, <1>5, <2>1, <2>3, <3>1 DEF Shifted
  <2> QED
    BY <2>2, <2>3
<1>7. \A d \in Values : OfNow(d) => OfNow(d)'
  BY <1>2 DEF OfNow
<1>8. \A t \in Sessions : t = session =>
        \A i \in DOMAIN frames'[t] : NoOlder(frames'[t][i].dp, seen) /\ frames'[t][i].dp \in Values
  BY <1>1, <1>6, UnderWayTypes DEF FramesInOrder, Shifted
<1>9. s = session => OfNow(f.dp) /\ NoOlder(f.dp, seen)
                     /\ \A i \in DOMAIN frames'[s] : NoOlder(frames'[s][i].dp, f.dp)
  BY <1>1, <1>3, <1>6 DEF FramesInOrder
<1>10. \A n \in Names : f.dp[n] \in Nat /\ seen[n] \in Nat
  BY <1>1, <1>3, UnderWayTypes, ValuesAreNat
<1>11. s = session => \A n \in Names : f.dp[n] # 0 => seen[n] <= f.dp[n]
  <2>1. \A n \in Names : seen[n] = 0 => seen[n] <= f.dp[n]
    BY <1>10
  <2> QED
    BY <1>9, <2>1 DEF NoOlder
<1>12. CASE OnDpReport(s)
  <2>1. DpMerge(f.dp, s, {}) /\ UNCHANGED <<read, due>>
    BY <1>12 DEF OnDpReport
  <2>2. \A n \in Names : seen'[n] = IF s = session /\ f.dp[n] > seen[n] THEN f.dp[n] ELSE seen[n]
    BY <2>1 DEF DpMerge
  <2>3. StaleOnlyIfOutrun'
    <3>1. s = session => OfNow(f.dp) /\ \A n \in Names \ {} : f.dp[n] # 0 => seen[n] <= f.dp[n]
      BY <1>9, <1>11
    <3> HIDE DEF f
    <3> QED
      BY <1>1, <1>2, <1>3, <2>1, <3>1, MergeStale
  <2> HIDE DEF f
  <2>4. \A t \in Sessions : t = session =>
          \A i \in DOMAIN frames'[t] : NoOlder(frames'[t][i].dp, seen')
    <3> SUFFICES ASSUME NEW t \in Sessions, t = session, NEW i \in DOMAIN frames'[t], NEW d, d = frames'[t][i].dp,
                        NEW n \in Names, d[n] # 0, seen'[n] # 0
                 PROVE  seen'[n] <= d[n]
      BY DEF NoOlder
    <3>1. NoOlder(d, seen) /\ (s = session => NoOlder(d, f.dp))
      BY <1>8, <1>9
    <3>2. CASE s = session /\ f.dp[n] > seen[n]
      BY <1>10, <2>2, <3>1, <3>2 DEF NoOlder
    <3>3. CASE ~(s = session /\ f.dp[n] > seen[n])
      BY <2>2, <3>1, <3>3 DEF NoOlder
    <3> QED
      BY <3>2, <3>3
  <2>5. FramesInOrder'
    BY <1>1, <1>2, <1>4, <1>5, <1>6, <1>7, <2>4, FramesShift
  <2>6. \A k \in DOMAIN due : Current(k) =>
          \A n \in Names \ passed'[due[k]] : read[due[k]].dp[n] # 0 => seen'[n] <= read[due[k]].dp[n]
    <3> SUFFICES ASSUME NEW k \in DOMAIN due, Current(k), NEW n \in Names, n \notin passed'[due[k]],
                        read[due[k]].dp[n] # 0
                 PROVE  seen'[n] <= read[due[k]].dp[n]
      OBVIOUS
    <3>1. due[k] \in Calls /\ read[due[k]].at = "due"
      BY <1>1, UnderWayTypes DEF Queues, DueOnce
    <3>2. passed'[due[k]] = passed[due[k]] \cup Carried(f.dp)
      BY <1>12, <3>1 DEF OnDpReport, f
    <3>3. n \notin passed[due[k]] /\ f.dp[n] = 0
      BY <3>2 DEF Carried
    <3>4. seen'[n] = seen[n]
      BY <1>10, <2>2, <3>3
    <3> QED
      BY <1>1, <3>3, <3>4 DEF DueInOrder
  <2>7. DueInOrder'
    BY <1>1, <1>2, <1>5, <1>6, <1>7, <2>1, <2>6, DueShift
  <2> QED
    BY <2>3, <2>5, <2>7 DEF Order
<1>13. CASE UNCHANGED <<shadow, passed, read, due>>
  <2>1. UNCHANGED <<dp, seen, outrun, passed, read, due>>
    BY <1>13 DEF shadow
  <2>2. StaleOnlyIfOutrun'
    BY <1>1, <1>2, <2>1 DEF StaleOnlyIfOutrun
  <2>3. FramesInOrder'
    BY <1>1, <1>2, <1>4, <1>5, <1>6, <1>7, <1>8, <2>1, FramesShift
  <2>4. DueInOrder'
    BY <1>1, <1>2, <1>5, <1>6, <1>7, <2>1, DueShift DEF DueInOrder
  <2> QED
    BY <2>2, <2>3, <2>4 DEF Order
<1>14. CASE f.call # 0 /\ read[f.call].at = "answered" /\ OnReply(s)
  <2>1. /\ UNCHANGED <<dp, seen, outrun, passed>> /\ due' = Append(due, f.call)
        /\ f.call \in Calls
    BY <1>3, <1>14 DEF OnReply, shadow
  <2>2. /\ read'[f.call].dp = f.dp /\ read'[f.call].session = read[f.call].session
        /\ \A q \in Calls : q # f.call => read'[q] = read[q]
    <3>1. read \in [Calls -> Reading]
      BY <1>1, Types
    <3> QED
      BY <1>14, <2>1, <3>1 DEF OnReply, Reading
  <2>3. read[f.call].session = s
    BY <1>1, <1>3, <1>14, <2>1 DEF Queues, AnswersAtHome
  <2> HIDE DEF f
  <2>4. StaleOnlyIfOutrun'
    BY <1>1, <1>2, <2>1 DEF StaleOnlyIfOutrun
  <2>5. FramesInOrder'
    BY <1>1, <1>2, <1>4, <1>5, <1>6, <1>7, <1>8, <2>1, FramesShift
  <2>6. DueInOrder'
    <3>1. /\ Len(due) \in Nat /\ due \in Seq(Calls) /\ due'[Len(due) + 1] = f.call
          /\ \A k \in DOMAIN due' : (k \in DOMAIN due /\ due'[k] = due[k]) \/ k = Len(due) + 1
          /\ \A k \in DOMAIN due : ~(Len(due) + 1 < k)
      BY <1>1, <2>1, Types
    <3>2. \A k \in DOMAIN due : read'[due[k]] = read[due[k]] /\ due[k] \in Calls
      BY <1>1, <1>14, <2>2, UnderWayTypes DEF Queues, DueOnce
    <3>3. ASSUME NEW k \in DOMAIN due', NEW d, d = read'[due'[k]].dp, read'[due'[k]].session = session
          PROVE  /\ OfNow(d)'
                 /\ \A n \in Names \ passed[due'[k]] : d[n] # 0 => seen[n] <= d[n]
                 /\ \A t \in Sessions : t = session =>
                      \A i \in DOMAIN frames'[t] : NoOlder(frames'[t][i].dp, d)
                 /\ \A j \in DOMAIN due' :
                      k < j /\ read'[due'[j]].session = session => NoOlder(read'[due'[j]].dp, d)
      <4>1. CASE k \in DOMAIN due /\ due'[k] = due[k]
        <5>1. d = read[due[k]].dp /\ d \in Values /\ Current(k)
          BY <1>1, <3>2, <3>3, <4>1, UnderWayTypes DEF Current
        <5>2. /\ OfNow(d)
              /\ \A n \in Names \ passed[due[k]] : d[n] # 0 => seen[n] <= d[n]
              /\ \A t \in Sessions : t = session =>
                   \A i \in DOMAIN frames[t] : NoOlder(frames[t][i].dp, d)
              /\ \A j \in DOMAIN due : k < j /\ Current(j) => NoOlder(read[due[j]].dp, d)
          BY <1>1, <4>1, <5>1 DEF DueInOrder
        <5>3. \A t \in Sessions : t = session =>
                \A i \in DOMAIN frames'[t] : NoOlder(frames'[t][i].dp, d)
          BY <1>6, <5>2 DEF Shifted
        <5>4. ASSUME NEW j \in DOMAIN due', k < j, read'[due'[j]].session = session
              PROVE  NoOlder(read'[due'[j]].dp, d)
          <6>1. CASE j \in DOMAIN due /\ due'[j] = due[j]
            BY <3>2, <5>2, <5>4, <6>1 DEF Current
          <6>2. CASE j = Len(due) + 1
            <7>1. due'[j] = f.call /\ s = session
              BY <2>2, <2>3, <3>1, <5>4, <6>2
            <7> QED
              BY <1>3, <2>2, <5>2, <7>1
          <6> QED
            BY <3>1, <6>1, <6>2
        <5> QED
          BY <1>7, <4>1, <5>1, <5>2, <5>3, <5>4
      <4>2. CASE k = Len(due) + 1
        <5>1. due'[k] = f.call /\ d = f.dp /\ s = session
          BY <2>2, <2>3, <3>1, <3>3, <4>2
        <5>2. \A j \in DOMAIN due' : ~(k < j)
          BY <3>1, <4>2
        <5>3. \A t \in Sessions : t = session =>
                \A i \in DOMAIN frames'[t] : NoOlder(frames'[t][i].dp, d)
          BY <1>9, <5>1
        <5> QED
          BY <1>3, <1>7, <1>9, <1>11, <5>1, <5>2, <5>3
      <4> QED
        BY <3>1, <4>1, <4>2
    <3>4. \A d : OfNow(d)' <=> \A n \in Names : d[n] # 0 => floor'[n] <= d[n] /\ d[n] <= value'[n]
      BY DEF OfNow
    <3> QED
      BY <1>2, <2>1, <3>3, <3>4 DEF DueInOrder, Current, OfNow
  <2> QED
    BY <2>4, <2>5, <2>6 DEF Order
<1> QED
  BY <1>12, <1>13, <1>14 DEF Receive, OnLateReply

\* A call resumes: what it merges is the oldest that is due.
LEMMA ResumeOrder ==
  ASSUME Sound, Resume, TypeOK'
  PROVE  Order' /\ StaleOnlyIfOutrun'
<1> DEFINE r == Head(due)
           d == read[r].dp
<1>1. TypeOK /\ Queues /\ FramesInOrder /\ DueInOrder /\ StaleOnlyIfOutrun
  BY DEF Sound, Order
<1>2. /\ due \in Seq(Calls) /\ due # <<>> /\ due' = Tail(due) /\ r = due[1] /\ 1 \in DOMAIN due
      /\ UNCHANGED <<value, session, frames, floor>>
      /\ DpMerge(d, read[r].session, passed[r])
      /\ read' = [read EXCEPT ![r] = Over]
      /\ passed' = [q \in Calls |-> IF q = r THEN {} ELSE passed[q]]
  BY <1>1, Types DEF Resume
<1>3. r \in Calls /\ d \in Values /\ passed[r] \in SUBSET Names
      /\ read \in [Calls -> Reading]
  BY <1>1, <1>2, UnderWayTypes, Types
<1>4. \A k \in DOMAIN due' : /\ k + 1 \in DOMAIN due /\ due'[k] = due[k + 1] /\ k \in Nat /\ 1 < k + 1
                             /\ due'[k] \in Calls /\ due'[k] # r
                             /\ \A j \in DOMAIN due' : k < j => k + 1 < j + 1
  <2>1. \A k \in DOMAIN Tail(due) : /\ k + 1 \in DOMAIN due /\ Tail(due)[k] = due[k + 1]
                                    /\ k \in Nat /\ 1 < k + 1
                                    /\ \A j \in DOMAIN Tail(due) : k < j => k + 1 < j + 1
    BY <1>2
  <2>2. \A k \in DOMAIN due : 1 < k => due[k] # r /\ due[k] \in Calls
    BY <1>1, <1>2, UnderWayTypes DEF Queues, DueOnce
  <2> HIDE DEF r
  <2> QED
    BY <1>2, <2>1, <2>2
<1>5. /\ read[r].session = session => OfNow(d)
      /\ read[r].session = session => \A n \in Names \ passed[r] : d[n] # 0 => seen[n] <= d[n]
      /\ read[r].session = session =>
           \A s \in Sessions : s = session => \A i \in DOMAIN frames[s] : NoOlder(frames[s][i].dp, d)
      /\ read[r].session = session =>
           \A k \in DOMAIN due' : read[due'[k]].session = session => NoOlder(read[due'[k]].dp, d)
  <2> SUFFICES ASSUME read[r].session = session
               PROVE  /\ OfNow(d)
                      /\ \A n \in Names \ passed[r] : d[n] # 0 => seen[n] <= d[n]
                      /\ \A s \in Sessions : s = session => \A i \in DOMAIN frames[s] : NoOlder(frames[s][i].dp, d)
                      /\ \A k \in DOMAIN due' : read[due'[k]].session = session => NoOlder(read[due'[k]].dp, d)
    OBVIOUS
  <2>1. Current(1)
    BY <1>2 DEF Current
  <2>2. /\ OfNow(d)
        /\ \A n \in Names \ passed[r] : d[n] # 0 => seen[n] <= d[n]
        /\ \A s \in Sessions : s = session => \A i \in DOMAIN frames[s] : NoOlder(frames[s][i].dp, d)
        /\ \A j \in DOMAIN due : 1 < j /\ Current(j) => NoOlder(read[due[j]].dp, d)
    BY <1>1, <1>2, <2>1 DEF DueInOrder
  <2> HIDE DEF r, d
  <2> QED
    BY <1>4, <2>2 DEF Current
<1> HIDE DEF r, d
<1>6. StaleOnlyIfOutrun'
  BY <1>1, <1>2, <1>3, <1>5, MergeStale
<1>7. \A n \in Names : /\ seen'[n] = IF read[r].session = session /\ d[n] > seen[n] THEN d[n] ELSE seen[n]
                       /\ d[n] \in Nat /\ seen[n] \in Nat
  BY <1>1, <1>2, <1>3, UnderWayTypes, ValuesAreNat DEF DpMerge
\* Whatever is no older than what has been merged and than d is so after the merge.
<1>8. \A e : \A n \in Names :
        /\ e[n] # 0 /\ seen[n] <= e[n]
        /\ read[r].session = session => (d[n] # 0 => d[n] <= e[n])
        => seen'[n] <= e[n]
  <2> SUFFICES ASSUME NEW e, NEW n \in Names, seen[n] <= e[n],
                      read[r].session = session => (d[n] # 0 => d[n] <= e[n])
               PROVE  seen'[n] <= e[n]
    OBVIOUS
  <2>1. CASE read[r].session = session /\ d[n] > seen[n]
    BY <1>7, <2>1
  <2>2. CASE ~(read[r].session = session /\ d[n] > seen[n])
    BY <1>7, <2>2
  <2> QED
    BY <2>1, <2>2
<1>9. \A s \in Sessions : s = session => \A i \in DOMAIN frames'[s] : NoOlder(frames'[s][i].dp, seen')
  <2> SUFFICES ASSUME NEW s \in Sessions, s = session, NEW i \in DOMAIN frames[s], NEW e, e = frames[s][i].dp,
                      NEW n \in Names, e[n] # 0, seen'[n] # 0
               PROVE  seen'[n] <= e[n]
    BY <1>2 DEF NoOlder
  <2>1. NoOlder(e, seen) /\ (read[r].session = session => NoOlder(e, d)) /\ e \in Values
    BY <1>1, <1>5, UnderWayTypes DEF FramesInOrder
  <2>2. CASE seen[n] # 0
    BY <1>8, <2>1, <2>2 DEF NoOlder
  <2>3. CASE seen[n] = 0
    <3>1. seen[n] <= e[n]
      BY <2>1, <2>3, ValuesAreNat
    <3> QED
      BY <1>8, <2>1, <3>1 DEF NoOlder
  <2> QED
    BY <2>2, <2>3
<1>10. Shifted(0)
  <2>1. \A s \in Sessions : \A i \in DOMAIN frames[s] : i + 0 = i
    BY <1>1, UnderWayTypes
  <2> QED
    BY <1>2, <2>1 DEF Shifted
<1>11. \A e \in Values : OfNow(e) => OfNow(e)'
  BY <1>2 DEF OfNow
<1>12. FramesInOrder'
  <2>1. frames' \in [Sessions -> Seq(Frame)]
    BY Types DEF TypeOK, Frame
  <2> QED
    BY <1>1, <1>2, <1>9, <1>10, <1>11, <2>1, FramesShift
<1>13. DueInOrder'
  <2>1. \A k \in DOMAIN due' : read'[due'[k]] = read[due'[k]] /\ passed'[due'[k]] = passed[due'[k]]
    BY <1>2, <1>3, <1>4
  <2>2. ASSUME NEW k \in DOMAIN due', NEW e, e = read[due'[k]].dp, read[due'[k]].session = session
        PROVE  /\ OfNow(e)'
               /\ \A n \in Names \ passed[due'[k]] : e[n] # 0 => seen'[n] <= e[n]
               /\ \A s \in Sessions : s = session => \A i \in DOMAIN frames[s] : NoOlder(frames[s][i].dp, e)
               /\ \A j \in DOMAIN due' :
                    k < j /\ read[due'[j]].session = session => NoOlder(read[due'[j]].dp, e)
    <3>1. k + 1 \in DOMAIN due /\ Current(k + 1) /\ due'[k] = due[k + 1] /\ e = read[due[k + 1]].dp
      BY <1>4, <2>2 DEF Current
    <3>2. /\ e \in Values /\ OfNow(e)
          /\ \A n \in Names \ passed[due[k + 1]] : e[n] # 0 => seen[n] <= e[n]
          /\ \A s \in Sessions : s = session => \A i \in DOMAIN frames[s] : NoOlder(frames[s][i].dp, e)
          /\ \A j \in DOMAIN due : k + 1 < j /\ Current(j) => NoOlder(read[due[j]].dp, e)
      BY <1>1, <3>1, UnderWayTypes DEF DueInOrder
    <3>3. \A j \in DOMAIN due' :
            k < j /\ read[due'[j]].session = session => NoOlder(read[due'[j]].dp, e)
      BY <1>4, <3>2 DEF Current
    <3>4. read[r].session = session => NoOlder(e, d)
      BY <1>5, <2>2
    <3>5. \A n \in Names \ passed[due'[k]] : e[n] # 0 => seen'[n] <= e[n]
      BY <1>8, <3>1, <3>2, <3>4 DEF NoOlder
    <3> QED
      BY <1>11, <3>2, <3>3, <3>5
  <2>3. \A e : OfNow(e)' <=> \A n \in Names : e[n] # 0 => floor'[n] <= e[n] /\ e[n] <= value'[n]
    BY DEF OfNow
  <2> QED
    BY <1>2, <2>1, <2>2, <2>3 DEF DueInOrder, Current, OfNow
<1> QED
  BY <1>6, <1>12, <1>13 DEF Order

LEMMA NextOrder == Sound /\ [Next]_vars => Order' /\ StaleOnlyIfOutrun'
<1> SUFFICES ASSUME Sound, [Next]_vars
             PROVE  Order' /\ StaleOnlyIfOutrun'
  OBVIOUS
<1>1. TypeOK /\ StaleOnlyIfOutrun /\ TypeOK' /\ read \in [Calls -> Reading]
  BY NextTypes, Types DEF Sound
<1>2. \A k \in DOMAIN due : due[k] \in Calls /\ read[due[k]].at = "due"
  BY UnderWayTypes DEF Sound, Queues, DueOnce
<1>3. frames' \in [Sessions -> Seq(Frame)]
  BY <1>1, Types DEF TypeOK, Frame
<1>4. ASSUME UNCHANGED <<dp, floor, seen, outrun>>
      PROVE  StaleOnlyIfOutrun'
  BY <1>1, <1>4 DEF StaleOnlyIfOutrun
<1>5. ASSUME (\E n \in Names : Change(n)) \/ PeriodicReport \/ (\E r \in Calls : AnswerRead(r))
      PROVE  Order' /\ StaleOnlyIfOutrun'
  <2>1. StaleOnlyIfOutrun'
    BY <1>4, <1>5 DEF Change, PeriodicReport, AnswerRead, shadow
  <2> QED
    BY <1>5, <2>1, SendingOrder
<1>6. ASSUME LinkLost \/ (\E s \in Sessions : Closes(s)) \/ (\E r \in Calls : ReadFails(r))
             \/ (\E r \in Calls : \E S \in {ConfigPoint, Measured} : Ask(r, S)) \/ UNCHANGED vars
      PROVE  Order' /\ StaleOnlyIfOutrun'
  <2>1. UNCHANGED <<value, session, due, floor, seen, passed, dp, outrun>>
    BY <1>6 DEF LinkLost, Closes, ReadFails, Ask, vars, shadow
  <2>2. \A s \in Sessions : frames'[s] = frames[s] \/ frames'[s] = <<>>
    <3>1. CASE \E s \in Sessions : Closes(s)
      <4>1. PICK s \in Sessions : frames' = [frames EXCEPT ![s] = <<>>]
        BY <3>1 DEF Closes
      <4> QED
        BY <1>1, <4>1, Types
    <3> QED
      BY <1>6, <3>1 DEF LinkLost, ReadFails, Ask, vars, shadow
  <2>3. \A k \in DOMAIN due : read'[due[k]] = read[due[k]]
    <3>1. CASE UNCHANGED read
      BY <3>1
    <3>2. ASSUME NEW r \in Calls, read[r].at # "due", \A q \in Calls : q # r => read'[q] = read[q]
          PROVE  \A k \in DOMAIN due : read'[due[k]] = read[due[k]]
      BY <1>2, <3>2
    <3>3. ASSUME NEW r \in Calls, ReadFails(r)
          PROVE  read[r].at # "due" /\ \A q \in Calls : q # r => read'[q] = read[q]
      BY <1>1, <3>3 DEF ReadFails
    <3>4. ASSUME NEW r \in Calls, NEW S, Ask(r, S)
          PROVE  read[r].at # "due" /\ \A q \in Calls : q # r => read'[q] = read[q]
      BY <1>1, <3>4 DEF Ask
    <3> QED
      BY <1>6, <3>1, <3>2, <3>3, <3>4 DEF LinkLost, Closes, vars
  <2> QED
    BY <1>3, <1>4, <2>1, <2>2, <2>3, QuietOrder
<1>7. CASE Connect
  <2>1. StaleOnlyIfOutrun'
    BY <1>7, Basics DEF Connect, OnConnect, StaleOnlyIfOutrun
  <2> QED
    BY <1>7, <2>1, ConnectOrder
<1> QED
  BY <1>1, <1>5, <1>6, <1>7, ReceiveOrder, ResumeOrder DEF Next

\* However reports, answers, give-ups and resuming callers of the sessions of a device
\* interleave: the shadow holds a value older than the connection (app.py:161), or than
\* one it has held, only for a datapoint that was overtaken on its way into it; and what
\* the configuration lists, the full table has.
THEOREM ShadowSound == Init /\ [][Next]_vars => []ShadowIsSound
<1>1. Init => Inv
  BY InitTypes, InitQueues, InitOrder, Basics DEF Inv, ShadowIsSound, ConfigIsShown, Init
<1>2. Inv /\ [Next]_vars => Inv'
  <2> SUFFICES ASSUME Inv, [Next]_vars
               PROVE  Inv'
    OBVIOUS
  <2>1. Sound /\ ConfigIsShown
    BY DEF Inv, ShadowIsSound, Sound
  <2>2. TypeOK' /\ ConfigIsShown' /\ Queues'
    BY <2>1, NextTypes, NextConfig, NextQueues DEF Sound
  <2>3. Order' /\ StaleOnlyIfOutrun'
    BY <2>1, NextOrder
  <2> QED
    BY <2>2, <2>3 DEF Inv, ShadowIsSound
<1>3. Inv => ShadowIsSound
  BY DEF Inv
<1> QED
  BY <1>1, <1>2, <1>3, PTL
==============================================================================
