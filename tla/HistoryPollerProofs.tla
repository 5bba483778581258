------------------------- MODULE HistoryPollerProofs -------------------------
(***************************************************************************)
(* Proofs about HistoryPoller, for any size of the ring and any number of  *)
(* samples, boots and connections: that the history is the log that        *)
(* HistoryLog specifies, late answers of replaced connections included.    *)
(***************************************************************************)
EXTENDS HistoryPoller, SequenceTheorems, TLAPS

Larger(a, b) == IF a > b THEN a ELSE b

(***************************************************************************)
(* The inductive invariant, in parts.                                      *)
(***************************************************************************)
\* Only the newest session has a link.  A request or an answer is under way for a poller
\* that waits, and a replaced session whose answer was read does not wait again.
Asks ==
  /\ link \in {0, session}
  /\ \A s \in Sessions : wire[s] # Nothing => s <= session /\ poller[s] = "wait"
  /\ \A s \in late : s < session /\ poller[s] # "wait"

\* A number that a cursor has had: a request carries one, whatever became of the cursor.
Known(n) == n = 0 \/ \E k \in DOMAIN hist : hist[k][2] = n

Message(s) ==
  /\ wire[s].kind = "read" => Known(wire[s].since)
  /\ wire[s].kind = "batch" =>
       /\ wire[s].boot <= boot
       /\ wire[s].boot = boot => wire[s].next <= newest + 1
       /\ wire[s].first < wire[s].next \/ (wire[s].next = 1 /\ wire[s].first = 1)
       /\ wire[s].low >= wire[s].first
       /\ wire[s].low > wire[s].first => Known(wire[s].low - 1)

\* Answers were made in the order of the connections.
NotOlder(m, q) == m.boot < q.boot \/ (m.boot = q.boot /\ m.next <= q.next)

InOrder ==
  \A s, t \in Sessions :
    s < t /\ wire[s].kind = "batch" /\ wire[t].kind = "batch" => NotOlder(wire[s], wire[t])

\* The answer to the current connection has not been overtaken, and neither has the device.
Ahead(m) == histBoot < m.boot \/ (histBoot = m.boot /\ histSeq < m.next)

CursorIsBehind ==
  /\ histBoot < boot \/ (histBoot = boot /\ histSeq <= newest)
  /\ \A s \in Sessions : s = session /\ wire[s].kind = "batch" => Ahead(wire[s])

\* As long as no late answer was read, the current connection asks from the cursor on.
AsksFromCursor ==
  late = {} =>
    /\ start = 0
    /\ \A s \in Sessions : s = session =>
         /\ wire[s].kind = "read" => wire[s].since = histSeq
         /\ wire[s].kind = "batch" => wire[s].low \in {wire[s].first, histSeq + 1}

\* The cursor is the last sample of the log, or nothing of its boot has been taken since
\* the log was started anew.
CursorIsLast ==
  IF Len(hist) = start
    THEN histSeq = 0
    ELSE \/ hist[Len(hist)] = <<histBoot, histSeq>>
         \/ histSeq = 0 /\ hist[Len(hist)][1] < histBoot

\* Since then the log is ascending.
Before(x, y) == x[1] < y[1] \/ (x[1] = y[1] /\ x[2] < y[2])

Ascending ==
  \A j, k \in DOMAIN hist : start < j /\ j < k => Before(hist[j], hist[k])

Inv ==
  /\ TypeOK
  /\ Asks
  /\ \A s \in Sessions : Message(s)
  /\ InOrder
  /\ CursorIsBehind
  /\ AsksFromCursor
  /\ CursorIsLast
  /\ Ascending

LEMMA BoundTypes ==
  /\ Ring \in Nat \ {0} /\ MaxSeq \in Nat \ {0} /\ MaxBoot \in Nat \ {0} /\ MaxSession \in Nat
BY BoundAssumption DEF BoundAssumption

(***************************************************************************)
(* The answer of the device, and what the poller makes of it.              *)
(***************************************************************************)
LEMMA FirstInRing ==
  ASSUME TypeOK
  PROVE  /\ First \in 1..MaxSeq
         /\ First < newest + 1 \/ newest = 0
         /\ newest = 0 => First = 1
BY BoundTypes DEF First, TypeOK, Seqs

\* The batches the poller can receive.
Batches == [kind : {"batch"}, boot : 1..MaxBoot, first : 1..MaxSeq,
            next : 1..(MaxSeq + 1), low : 1..(MaxSeq + 1)]

LEMMA BatchProperties ==
  ASSUME TypeOK, NEW since \in Seqs
  PROVE  /\ HistoryBatch(since) \in Batches
         /\ HistoryBatch(since).boot = boot
         /\ HistoryBatch(since).first = First
         /\ HistoryBatch(since).next = newest + 1
         /\ HistoryBatch(since).low = Larger(since + 1, First)
<1> DEFINE low == IF since + 1 > First THEN since + 1 ELSE First
<1>1. low \in 1..(MaxSeq + 1) /\ newest + 1 \in 1..(MaxSeq + 1) /\ boot \in 1..MaxBoot
  <2>1. since + 1 \in 1..(MaxSeq + 1) /\ newest + 1 \in 1..(MaxSeq + 1)
    BY BoundTypes DEF TypeOK, Seqs
  <2>2. First \in 1..(MaxSeq + 1)
    BY FirstInRing, BoundTypes
  <2> QED
    BY <2>1, <2>2 DEF TypeOK
<1>2. HistoryBatch(since) =
        [kind |-> "batch", boot |-> boot, first |-> First, next |-> newest + 1, low |-> low]
  BY DEF HistoryBatch
<1>3. low = Larger(since + 1, First)
  BY DEF Larger
<1> HIDE DEF low
<1>4. HistoryBatch(since) \in Batches
  BY <1>1, <1>2, FirstInRing DEF Batches
<1> QED
  BY <1>2, <1>3, <1>4

LEMMA MessageKinds ==
  /\ \A m \in Batches : m \in Messages /\ m.kind = "batch"
  /\ \A m \in Messages : /\ m.kind = "batch" => m \in Batches
                         /\ m.kind = "read" => m.since \in Seqs
                         /\ m.kind = "nothing" => m = Nothing
                         /\ m.kind \in {"nothing", "read", "batch"}
  /\ Nothing \in Messages /\ Nothing.kind = "nothing"
  /\ \A q \in Seqs : HistoryRead(q) \in Messages /\ HistoryRead(q).kind = "read"
                      /\ HistoryRead(q).since = q
BY DEF Messages, Batches, Nothing, HistoryRead

LEMMA CursorType ==
  ASSUME TypeOK, NEW m \in Batches
  PROVE  Cursor(m) \in Seqs /\ Cursor(m) \in {0, histSeq}
BY BoundTypes DEF Cursor, TypeOK, Seqs, Batches

LEMMA FromType ==
  ASSUME TypeOK, NEW m \in Batches
  PROVE  From(m) \in 1..(MaxSeq + 1) /\ From(m) = Larger(Cursor(m) + 1, m.low)
BY CursorType, BoundTypes DEF From, Batches, Larger, Seqs

\* The samples taken from a batch: From(m), From(m) + 1, ... up to its last one.
LEMMA TakenProperties ==
  ASSUME TypeOK, NEW m \in Batches
  PROVE  /\ Taken(m) \in Seq(Samples)
         /\ Len(Taken(m)) = IF From(m) < m.next THEN m.next - From(m) ELSE 0
         /\ \A k \in 1..Len(Taken(m)) : Taken(m)[k] = <<m.boot, From(m) + k - 1>>
         /\ Taken(m) = <<>> <=> m.next <= From(m)
<1> DEFINE n == IF From(m) < m.next THEN m.next - From(m) ELSE 0
<1>1. From(m) \in Nat /\ From(m) >= 1 /\ m.next \in Nat /\ m.next <= MaxSeq + 1 /\ n \in Nat
  BY FromType, BoundTypes DEF Batches
<1>2. 1..(m.next - From(m)) = 1..n
  BY <1>1
<1>3. Taken(m) = [k \in 1..n |-> <<m.boot, From(m) + k - 1>>]
  BY <1>2 DEF Taken
<1>4. \A k \in 1..n : <<m.boot, From(m) + k - 1>> \in Samples
  BY <1>1, BoundTypes DEF Samples, Batches
<1>5. Taken(m) \in [1..n -> Samples]
  BY <1>3, <1>4
<1>6. Taken(m) \in Seq(Samples)
  BY <1>1, <1>5, SeqDef
<1>7. Len(Taken(m)) = n
  BY <1>1, <1>5, <1>6
<1>8. Taken(m) = <<>> <=> n = 0
  BY <1>1, <1>6, <1>7, EmptySeq
<1> QED
  BY <1>1, <1>3, <1>6, <1>7, <1>8

(***************************************************************************)
(* Init, and the steps that leave the history alone.                       *)
(***************************************************************************)
LEMMA Types ==
  ASSUME TypeOK
  PROVE  /\ boot \in Nat /\ newest \in Nat /\ histBoot \in Nat /\ histSeq \in Nat
         /\ session \in Nat /\ start \in Nat /\ Len(hist) \in Nat /\ start <= Len(hist)
         /\ DOMAIN hist = 1..Len(hist)
         /\ \A k \in DOMAIN hist : hist[k] \in Samples /\ hist[k][1] \in Nat /\ hist[k][2] \in Nat
         /\ Sessions \subseteq Nat
<1>1. hist \in Seq(Samples)
  BY DEF TypeOK
<1>2. DOMAIN hist = 1..Len(hist) /\ Len(hist) \in Nat /\ \A k \in DOMAIN hist : hist[k] \in Samples
  BY <1>1
<1>3. \A x \in Samples : x[1] \in Nat /\ x[2] \in Nat
  BY DEF Samples
<1> QED
  BY <1>2, <1>3, BoundTypes DEF TypeOK, Seqs, Sessions

LEMMA BatchTypes ==
  ASSUME NEW m \in Batches
  PROVE  /\ m.boot \in Nat /\ m.boot >= 1 /\ m.next \in Nat /\ m.next >= 1
         /\ m.next <= MaxSeq + 1
         /\ m.first \in Nat /\ m.first >= 1 /\ m.low \in Nat /\ m.low >= 1
BY BoundTypes DEF Batches

LEMMA InitInv == Init => Inv
<1> SUFFICES ASSUME Init
             PROVE  Inv
  OBVIOUS
<1>1. TypeOK
  <2>1. wire \in [Sessions -> Messages]
    BY MessageKinds DEF Init
  <2>2. 0 \in Seqs /\ 1 \in 1..MaxSeq /\ 1 \in 1..MaxBoot /\ 0 \in 0..MaxBoot /\ 0 \in 0..MaxSession
    BY BoundTypes DEF Seqs
  <2>3. hist \in Seq(Samples) /\ gaps \subseteq Samples /\ link \in 0..session
    BY DEF Init
  <2>4. late \subseteq Sessions /\ start \in 0..Len(hist)
    BY DEF Init
  <2>5. poller \in [Sessions -> {"none", "sleep", "wait", "over"}]
    BY DEF Init
  <2> QED
    BY <2>1, <2>2, <2>3, <2>4, <2>5 DEF Init, TypeOK
<1>2. \A s \in Sessions : wire[s] = Nothing
  BY DEF Init
<1>3. Asks /\ InOrder /\ AsksFromCursor /\ \A s \in Sessions : Message(s)
  BY <1>2, MessageKinds DEF Init, Asks, InOrder, AsksFromCursor, Message
<1>4. CursorIsBehind /\ CursorIsLast /\ Ascending
  BY <1>2, MessageKinds DEF Init, CursorIsBehind, CursorIsLast, Ascending
<1> QED
  BY <1>1, <1>3, <1>4 DEF Inv

\* What is under way is lost or stays; the history stays, and the device goes on.
LEMMA QuietStep ==
  ASSUME Inv, TypeOK', UNCHANGED history,
         boot' > boot \/ (boot' = boot /\ newest' >= newest),
         session' >= session, link' \in {0, session'},
         \A s \in Sessions :
           /\ wire'[s] = Nothing \/ (wire'[s] = wire[s] /\ poller'[s] = poller[s])
           /\ s <= session => (poller'[s] = "wait" => poller[s] = "wait")
  PROVE  Inv'
<1> USE DEF history
<1>1. /\ boot \in Nat /\ boot' \in Nat /\ newest \in Nat /\ newest' \in Nat
      /\ session \in Nat /\ session' \in Nat /\ histBoot \in Nat /\ histSeq \in Nat
      /\ Sessions \subseteq Nat /\ late \subseteq Sessions
  <2>1. boot \in Nat /\ newest \in Nat /\ session \in Nat /\ histBoot \in Nat /\ histSeq \in Nat
    BY Types DEF Inv
  <2>2. boot' \in Nat /\ newest' \in Nat /\ session' \in Nat
    BY BoundTypes DEF TypeOK, Seqs
  <2> QED
    BY <2>1, <2>2, Types DEF Inv, TypeOK
<1>2. Asks'
  BY <1>1 DEF Inv, Asks
<1>3. ASSUME NEW s \in Sessions
      PROVE  Message(s)'
  <2>1. CASE wire'[s] = Nothing
    BY <2>1, MessageKinds DEF Message
  <2>2. CASE wire'[s] = wire[s] /\ wire[s].kind # "batch"
    BY <2>2 DEF Inv, Message, Known
  <2>3. CASE wire'[s] = wire[s] /\ wire[s].kind = "batch"
    <3>1. wire[s].boot \in Nat /\ wire[s].next \in Nat
      BY <2>3, MessageKinds, BatchTypes DEF Inv, TypeOK
    <3> QED
      BY <1>1, <2>3, <3>1 DEF Inv, Message, Known
  <2> QED
    BY <2>1, <2>2, <2>3
<1>4. InOrder'
  BY MessageKinds DEF Inv, InOrder, NotOlder
<1>5. CursorIsBehind'
  <2>1. ASSUME NEW s \in Sessions, s = session', wire'[s].kind = "batch"
        PROVE  Ahead(wire[s])' /\ wire'[s] = wire[s]
    <3>1. wire'[s] = wire[s] /\ wire[s] # Nothing
      BY <2>1, MessageKinds
    <3>2. s = session
      BY <1>1, <2>1, <3>1 DEF Inv, Asks
    <3> QED
      BY <2>1, <3>1, <3>2 DEF Inv, CursorIsBehind, Ahead
  <2>2. histBoot < boot' \/ (histBoot = boot' /\ histSeq <= newest')
    BY <1>1 DEF Inv, CursorIsBehind
  <2> QED
    BY <2>1, <2>2 DEF CursorIsBehind, Ahead
<1>6. AsksFromCursor'
  <2>1. ASSUME NEW s \in Sessions, s = session', wire'[s] # Nothing
        PROVE  wire'[s] = wire[s] /\ s = session
    BY <1>1, <2>1 DEF Inv, Asks
  <2> QED
    BY <2>1, MessageKinds DEF Inv, AsksFromCursor
<1>7. CursorIsLast' /\ Ascending'
  BY DEF Inv, CursorIsLast, Ascending, Before
<1> QED
  BY <1>2, <1>3, <1>4, <1>5, <1>6, <1>7 DEF Inv

LEMMA LoseRequestType ==
  ASSUME TypeOK, LoseRequest
  PROVE  /\ wire' \in [Sessions -> Messages]
         /\ \A s \in Sessions : wire'[s] = Nothing \/ wire'[s] = wire[s]
BY MessageKinds DEF LoseRequest, TypeOK

LEMMA DeviceStep ==
  ASSUME Inv, Sample \/ Reboot \/ LinkLost
  PROVE  Inv'
<1> USE BoundTypes
<1>0. session \in Nat /\ link \in {0, session}
  BY DEF Inv, TypeOK, Asks
<1>1. CASE Sample
  <2>1. TypeOK'
    BY <1>1 DEF Inv, TypeOK, Sample, history, Seqs
  <2>2. boot' = boot /\ newest' >= newest
    BY <1>1 DEF Inv, TypeOK, Sample, Seqs
  <2> QED
    BY <1>0, <1>1, <2>1, <2>2, QuietStep DEF Sample, Inv, TypeOK
<1>2. CASE Reboot
  <2>1. TypeOK'
    BY <1>2, LoseRequestType DEF Inv, TypeOK, Reboot, history, Seqs
  <2>2. boot' > boot
    BY <1>2 DEF Inv, TypeOK, Reboot
  <2> QED
    BY <1>0, <1>2, <2>1, <2>2, QuietStep, LoseRequestType DEF Reboot, Inv, TypeOK
<1>3. CASE LinkLost
  <2>1. TypeOK'
    BY <1>3, LoseRequestType DEF Inv, TypeOK, LinkLost, history, device
  <2>2. boot' = boot /\ newest' >= newest
    BY <1>3 DEF Inv, TypeOK, LinkLost, Seqs, device
  <2> QED
    BY <1>0, <1>3, <2>1, <2>2, QuietStep, LoseRequestType DEF LinkLost, Inv, TypeOK
<1> QED
  BY <1>1, <1>2, <1>3

LEMMA ServerStep ==
  ASSUME Inv, Connect \/ Disconnect \/ \E s \in Sessions : Timeout(s)
  PROVE  Inv'
<1> USE BoundTypes
<1>0. session \in Nat /\ link \in {0, session} /\ Sessions \subseteq Nat
  BY DEF Inv, TypeOK, Asks, Sessions
<1>1. boot' = boot /\ newest' >= newest /\ UNCHANGED history
  BY DEF Inv, TypeOK, Connect, Disconnect, Timeout, device, Seqs
<1>2. CASE Connect
  <2>1. session' = session + 1 /\ link' = session'
    BY <1>2 DEF Connect
  <2>2. session' \in Sessions /\ link' \in 0..session' /\ session' \in 0..MaxSession
    BY <1>2 DEF Connect, Inv, TypeOK, Sessions
  <2>3. poller' \in [Sessions -> {"none", "sleep", "wait", "over"}]
    BY <1>2, <2>2 DEF Connect, Inv, TypeOK
  <2>4. TypeOK'
    BY <1>2, <2>2, <2>3 DEF Connect, Inv, TypeOK, history, device
  <2>5. ASSUME NEW s \in Sessions
        PROVE  /\ wire'[s] = Nothing \/ (wire'[s] = wire[s] /\ poller'[s] = poller[s])
               /\ s <= session => (poller'[s] = "wait" => poller[s] = "wait")
    <3>1. CASE s = session'
      <4>1. wire[s] = Nothing
        BY <1>0, <2>1, <3>1 DEF Inv, Asks
      <4> QED
        BY <1>0, <1>2, <2>1, <3>1, <4>1 DEF Connect
    <3>2. CASE s # session'
      BY <1>2, <3>2 DEF Connect, Inv, TypeOK
    <3> QED
      BY <3>1, <3>2
  <2> QED
    BY <1>0, <1>1, <2>1, <2>4, <2>5, QuietStep DEF Inv, TypeOK
<1>3. CASE Disconnect
  <2>1. wire' \in [Sessions -> Messages]
    BY <1>3, MessageKinds DEF Disconnect, Inv, TypeOK
  <2>2. TypeOK'
    BY <1>3, <2>1 DEF Inv, TypeOK, Disconnect, history, device
  <2>3. \A s \in Sessions : wire'[s] = Nothing \/ wire'[s] = wire[s]
    BY <1>3 DEF Disconnect, Inv, TypeOK
  <2> QED
    BY <1>0, <1>1, <1>3, <2>2, <2>3, QuietStep DEF Disconnect, Inv, TypeOK
<1>4. CASE \E s \in Sessions : Timeout(s)
  <2>1. PICK s \in Sessions : Timeout(s)
    BY <1>4
  <2>2. poller' \in [Sessions -> {"none", "sleep", "wait", "over"}]
    BY <2>1 DEF Timeout, Inv, TypeOK
  <2>3. wire' \in [Sessions -> Messages]
    BY <2>1, MessageKinds DEF Timeout, Inv, TypeOK
  <2>4. TypeOK'
    BY <2>1, <2>2, <2>3 DEF Timeout, Inv, TypeOK, history, device
  <2>5. \A q \in Sessions :
          /\ wire'[q] = Nothing \/ (wire'[q] = wire[q] /\ poller'[q] = poller[q])
          /\ poller'[q] = "wait" => poller[q] = "wait"
    BY <2>1 DEF Timeout, Inv, TypeOK
  <2>6. session' = session /\ link' = link
    BY <2>1 DEF Timeout
  <2> QED
    BY <1>0, <1>1, <2>4, <2>5, <2>6, QuietStep DEF Inv, TypeOK
<1> QED
  BY <1>2, <1>3, <1>4

\* The number at which the cursor stands is that of a sample in the history.
LEMMA CursorKnown ==
  ASSUME Inv
  PROVE  Known(histSeq)
<1>1. CASE Len(hist) = start
  BY <1>1 DEF Inv, CursorIsLast, Known
<1>2. CASE Len(hist) # start
  <2>1. Len(hist) \in DOMAIN hist
    BY <1>2, Types DEF Inv
  <2> QED
    BY <1>2, <2>1 DEF Inv, CursorIsLast, Known
<1> QED
  BY <1>1, <1>2

\* The request bears the cursor of the moment.
LEMMA PollStep ==
  ASSUME Inv, NEW s \in Sessions, Poll(s)
  PROVE  Inv'
<1> USE BoundTypes
<1>1. UNCHANGED <<history, device, session, link>>
  BY DEF Poll
<1>2. histSeq \in Seqs
  BY DEF Inv, TypeOK
<1>3. /\ \A q \in Sessions : q # s => wire'[q] = wire[q] /\ poller'[q] = poller[q]
      /\ \/ wire'[s] \in {Nothing, HistoryRead(histSeq)} /\ s = session /\ poller'[s] = "wait"
         \/ wire'[s] = wire[s] /\ poller'[s] = "over"
      /\ wire[s] = Nothing
  BY DEF Poll, Inv, TypeOK, Asks
<1>4. TypeOK'
  <2>1. HistoryRead(histSeq) \in Messages /\ Nothing \in Messages
    BY <1>2, MessageKinds
  <2>2. wire' \in [Sessions -> Messages]
    BY <2>1 DEF Poll, Inv, TypeOK
  <2>3. poller' \in [Sessions -> {"none", "sleep", "wait", "over"}]
    BY DEF Poll, Inv, TypeOK
  <2> QED
    BY <2>2, <2>3 DEF Poll, Inv, TypeOK, history, device
<1>5. wire'[s] \in {Nothing, HistoryRead(histSeq)} /\ wire'[s].kind \in {"nothing", "read"}
      /\ (wire'[s].kind = "read" => wire'[s].since = histSeq)
  BY <1>2, <1>3, MessageKinds
<1>6. \A q \in Sessions : wire'[q].kind = "batch" => q # s /\ wire'[q] = wire[q]
  BY <1>3, <1>5
<1>7. session \in Nat /\ Sessions \subseteq Nat /\ late \subseteq Sessions
  BY Types DEF Inv, TypeOK
<1>8. Asks'
  BY <1>1, <1>3, <1>7 DEF Inv, Asks, history
<1>9. ASSUME NEW q \in Sessions
      PROVE  Message(q)'
  <2>1. CASE q = s
    BY <1>1, <1>5, <2>1, CursorKnown DEF Message, Known, history
  <2>2. CASE q # s
    BY <1>1, <1>3, <2>2 DEF Inv, Message, Known, history, device
  <2> QED
    BY <2>1, <2>2
<1>10. InOrder'
  BY <1>6 DEF Inv, InOrder, NotOlder
<1>11. CursorIsBehind'
  BY <1>1, <1>6 DEF Inv, CursorIsBehind, Ahead, history, device
<1>12. AsksFromCursor'
  <2>1. ASSUME late = {}, NEW q \in Sessions, q = session
        PROVE  /\ wire'[q].kind = "read" => wire'[q].since = histSeq
               /\ wire'[q].kind = "batch" => wire'[q].low \in {wire'[q].first, histSeq + 1}
    <3>1. CASE q = s
      BY <1>5, <3>1
    <3>2. CASE q # s
      BY <1>3, <2>1, <3>2 DEF Inv, AsksFromCursor
    <3> QED
      BY <3>1, <3>2
  <2> QED
    BY <1>1, <2>1 DEF Inv, AsksFromCursor, history
<1>13. CursorIsLast' /\ Ascending'
  BY <1>1 DEF Inv, CursorIsLast, Ascending, Before, history
<1> QED
  BY <1>4, <1>8, <1>9, <1>10, <1>11, <1>12, <1>13 DEF Inv

\* The answer is made from the ring as it stands; only the current connection has one made.
LEMMA AnswerStep ==
  ASSUME Inv, NEW s \in Sessions, DeviceAnswers(s)
  PROVE  Inv'
<1> USE BoundTypes
<1> DEFINE m == HistoryBatch(wire[s].since)
<1>1. UNCHANGED <<history, device, session, link, poller, online>>
  BY DEF DeviceAnswers
<1>2. wire[s] \in Messages /\ wire[s].kind = "read" /\ wire[s].since \in Seqs
  BY MessageKinds DEF DeviceAnswers, Inv, TypeOK
<1>3. s = session
  BY Types DEF DeviceAnswers, Inv, Asks, Sessions
<1>4. /\ m \in Batches /\ m.boot = boot /\ m.first = First
      /\ m.next = newest + 1 /\ m.low = Larger(wire[s].since + 1, First)
  BY <1>2, BatchProperties DEF Inv
<1>5. wire' = [wire EXCEPT ![s] = m]
  BY DEF DeviceAnswers
<1> HIDE DEF m
<1>6. m \in Messages /\ m.kind = "batch"
  BY <1>4, MessageKinds
<1>7. wire' \in [Sessions -> Messages] /\ wire'[s] = m
  BY <1>5, <1>6 DEF Inv, TypeOK
<1>8. \A q \in Sessions : q # s => wire'[q] = wire[q]
  BY <1>5 DEF Inv, TypeOK
<1>9. TypeOK'
  BY <1>1, <1>7 DEF Inv, TypeOK, history, device
<1>10. Asks'
  BY <1>1, <1>2, <1>8, MessageKinds DEF Inv, Asks, history
<1>11. /\ boot \in Nat /\ newest \in Nat /\ histBoot \in Nat /\ histSeq \in Nat /\ First \in Nat
       /\ wire[s].since \in Nat /\ Sessions \subseteq Nat
  BY <1>2, FirstInRing, Types DEF Inv, Seqs
<1>12. ASSUME NEW q \in Sessions
       PROVE  Message(q)'
  <2>1. CASE q # s
    BY <1>1, <1>8, <2>1 DEF Inv, Message, Known, history, device
  <2>2. CASE q = s
    <3>1. First < newest + 1 \/ (newest = 0 /\ First = 1)
      BY FirstInRing DEF Inv
    <3>2. Known(wire[s].since)
      BY <1>2 DEF Inv, Message
    <3>3. m.low >= m.first /\ (m.low > m.first => m.low - 1 = wire[s].since)
      BY <1>4, <1>11 DEF Larger
    <3>4. m.low > m.first => Known(m.low - 1)
      BY <3>2, <3>3
    <3>5. /\ m.boot <= boot
          /\ m.boot = boot => m.next <= newest + 1
          /\ m.first < m.next \/ (m.next = 1 /\ m.first = 1)
      BY <1>4, <1>11, <3>1
    <3> QED
      BY <1>1, <1>6, <1>7, <2>2, <3>3, <3>4, <3>5 DEF Message, Known, history, device
  <2> QED
    BY <2>1, <2>2
<1>13. InOrder'
  <2>1. SUFFICES ASSUME NEW p \in Sessions, NEW t \in Sessions, p < t,
                        wire'[p].kind = "batch", wire'[t].kind = "batch"
                 PROVE  NotOlder(wire'[p], wire'[t])
    BY DEF InOrder, NotOlder
  <2>2. CASE p # s /\ t # s
    BY <1>8, <2>1, <2>2 DEF Inv, InOrder
  <2>3. CASE t = s
    <3>1. p # s /\ wire'[p] = wire[p]
      BY <1>8, <1>11, <2>1, <2>3
    <3>2. wire[p].boot \in Nat /\ wire[p].next \in Nat
      BY <2>1, <3>1, MessageKinds, BatchTypes DEF Inv, TypeOK
    <3>3. wire[p].boot <= boot /\ (wire[p].boot = boot => wire[p].next <= newest + 1)
      BY <2>1, <3>1 DEF Inv, Message
    <3> QED
      BY <1>4, <1>7, <1>11, <2>3, <3>1, <3>2, <3>3 DEF NotOlder
  <2>4. CASE p = s /\ t # s
    <3>1. wire[t] # Nothing
      BY <1>8, <2>1, <2>4, MessageKinds
    <3>2. t <= session
      BY <3>1 DEF Inv, Asks
    <3> QED
      BY <1>3, <1>11, <2>1, <2>4, <3>2
  <2> QED
    BY <2>2, <2>3, <2>4
<1>14. CursorIsBehind'
  <2>1. Ahead(m)
    BY <1>4, <1>11 DEF Inv, CursorIsBehind, Ahead
  <2> QED
    BY <1>1, <1>3, <1>7, <2>1 DEF Inv, CursorIsBehind, Ahead, history, device
<1>15. AsksFromCursor'
  <2>1. late = {} => m.low \in {m.first, histSeq + 1}
    BY <1>2, <1>3, <1>4 DEF Inv, AsksFromCursor, Larger
  <2> QED
    BY <1>1, <1>3, <1>6, <1>7, <2>1 DEF Inv, AsksFromCursor, history
<1>16. CursorIsLast' /\ Ascending'
  BY <1>1 DEF Inv, CursorIsLast, Ascending, Before, history
<1> QED
  BY <1>9, <1>10, <1>12, <1>13, <1>14, <1>15, <1>16 DEF Inv

(***************************************************************************)
(* A batch is processed.  It continues the history, begins the record of a *)
(* boot, or has been overtaken and starts the log anew.                    *)
(***************************************************************************)
LEMMA HistGrows ==
  ASSUME TypeOK, NEW m \in Batches, hist' = hist \o Taken(m)
  PROVE  /\ hist' \in Seq(Samples)
         /\ Len(hist') = Len(hist) + (IF From(m) < m.next THEN m.next - From(m) ELSE 0)
         /\ DOMAIN hist' = 1..Len(hist') /\ Len(hist') \in Nat /\ Len(hist') >= Len(hist)
         /\ \A k \in 1..Len(hist) : k \in DOMAIN hist' /\ hist'[k] = hist[k]
         /\ \A k \in DOMAIN hist' : k > Len(hist) =>
              /\ hist'[k][1] = m.boot
              /\ hist'[k][2] = From(m) + (k - Len(hist)) - 1
              /\ hist'[k] = <<m.boot, From(m) + (k - Len(hist)) - 1>>
<1> DEFINE t == Taken(m)
           f == From(m)
<1>1. /\ t \in Seq(Samples)
      /\ Len(t) = IF f < m.next THEN m.next - f ELSE 0
      /\ \A k \in 1..Len(t) : t[k] = <<m.boot, f + k - 1>>
  BY TakenProperties
<1>2. hist \in Seq(Samples) /\ f \in Nat /\ m.next \in Nat
  BY FromType, BoundTypes DEF TypeOK, Batches
<1>3. hist' = hist \o t
  OBVIOUS
<1> HIDE DEF t
<1>4. /\ hist \o t \in Seq(Samples) /\ Len(hist \o t) = Len(hist) + Len(t)
      /\ \A i \in 1..(Len(hist) + Len(t)) :
           (hist \o t)[i] = IF i <= Len(hist) THEN hist[i] ELSE t[i - Len(hist)]
  BY <1>1, <1>2, ConcatProperties
<1>5. /\ Len(hist) \in Nat /\ Len(t) \in Nat
      /\ hist' \in Seq(Samples) /\ Len(hist') = Len(hist) + Len(t)
      /\ DOMAIN hist' = 1..Len(hist') /\ Len(hist') \in Nat /\ Len(hist') >= Len(hist)
  BY <1>1, <1>2, <1>3, <1>4
<1>6. \A k \in 1..Len(hist) : k \in DOMAIN hist' /\ hist'[k] = hist[k]
  BY <1>3, <1>4, <1>5
<1>7. ASSUME NEW k \in DOMAIN hist', k > Len(hist)
      PROVE  /\ hist'[k][1] = m.boot
             /\ hist'[k][2] = f + (k - Len(hist)) - 1
             /\ hist'[k] = <<m.boot, f + (k - Len(hist)) - 1>>
  <2>1. k - Len(hist) \in 1..Len(t) /\ k \in 1..(Len(hist) + Len(t)) /\ ~(k <= Len(hist))
    BY <1>5, <1>7
  <2>2. hist'[k] = t[k - Len(hist)]
    BY <1>3, <1>4, <2>1
  <2>3. hist'[k] = <<m.boot, f + (k - Len(hist)) - 1>>
    BY <1>1, <2>1, <2>2
  <2> QED
    BY <2>3
<1> QED
  BY <1>1, <1>5, <1>6, <1>7

\* What is known of the answer that a poller reads.
LEMMA AnswerKnown ==
  ASSUME Inv, NEW s \in Sessions, ProcessBatch(s)
  PROVE  /\ wire[s] \in Batches /\ Message(s) /\ wire[s].kind = "batch"
         /\ s \in Nat /\ session \in Nat /\ s <= session /\ s \notin late
         /\ s = session => Ahead(wire[s])
<1>1. wire[s] \in Batches /\ wire[s].kind = "batch" /\ wire[s] # Nothing
  BY MessageKinds DEF ProcessBatch, Inv, TypeOK
<1>2. s <= session /\ s \notin late
  BY <1>1 DEF ProcessBatch, Inv, Asks
<1> QED
  BY <1>1, <1>2, Types DEF Inv, CursorIsBehind

\* The three ways in which a batch can meet the cursor.
Continues(m) == m.boot = histBoot /\ histSeq < m.next /\ Cursor(m) = histSeq
Begins(m) == histBoot < m.boot /\ Cursor(m) = 0

LEMMA ThreeWays ==
  ASSUME TypeOK, NEW m \in Batches
  PROVE  /\ Continues(m) \/ Begins(m) \/ Overtaken(m)
         /\ Overtaken(m) => Cursor(m) = 0 /\ ~Continues(m) /\ ~Begins(m) /\ ~Ahead(m)
         /\ Cursor(m) = 0 => Missed(m) = {}
         /\ Cursor(m) # 0 => Missed(m) = (Cursor(m) + 1)..(m.first - 1)
BY Types, BatchTypes DEF Continues, Begins, Overtaken, Cursor, Ahead, Missed

LEMMA BatchStepTypes ==
  ASSUME Inv, NEW s \in Sessions, ProcessBatch(s)
  PROVE  TypeOK'
<1> USE BoundTypes
<1> DEFINE m == wire[s]
<1>1. Cursor(m) \in Seqs /\ m \in Batches
  BY AnswerKnown, CursorType DEF Inv
<1>2. histBoot' \in 0..MaxBoot /\ m.next - 1 \in Seqs /\ m.first \in 1..MaxSeq /\ m.boot \in 1..MaxBoot
  BY <1>1, SMTT(30) DEF ProcessBatch, Batches, Seqs
<1>3. histSeq' \in Seqs
  BY <1>1, <1>2 DEF ProcessBatch, NewCursor
<1>4. hist' \in Seq(Samples) /\ start' \in 0..Len(hist')
  <2>1. hist' \in Seq(Samples) /\ Len(hist') \in Nat /\ Len(hist') >= Len(hist)
    BY <1>1, HistGrows DEF ProcessBatch, Inv
  <2>2. start' \in {start, Len(hist)}
    BY DEF ProcessBatch
  <2> QED
    BY <2>1, <2>2, Types DEF Inv
<1>5. late' \subseteq Sessions
  BY DEF ProcessBatch, Inv, TypeOK
<1>6. \A n \in Missed(m) : <<m.boot, n>> \in Samples
  <2>1. Missed(m) \subseteq 1..MaxSeq
    <3>1. Missed(m) = {} \/ Missed(m) = (Cursor(m) + 1)..(m.first - 1)
      BY <1>1, ThreeWays DEF Inv
    <3> QED
      BY <1>1, <1>2, <3>1 DEF Seqs
  <2> QED
    BY <1>2, <2>1 DEF Samples
<1>7. gaps' \subseteq Samples
  <2>1. gaps' = gaps \cup {<<m.boot, n>> : n \in Missed(m)}
    BY DEF ProcessBatch
  <2> HIDE DEF m
  <2> QED
    BY <1>6, <2>1 DEF Inv, TypeOK
<1>8. wire' \in [Sessions -> Messages]
  BY MessageKinds DEF ProcessBatch, Inv, TypeOK
<1>9. poller' \in [Sessions -> {"none", "sleep", "wait", "over"}]
  BY DEF ProcessBatch, Inv, TypeOK
<1>10. UNCHANGED <<device, link, session, online>>
  BY DEF ProcessBatch
<1> QED
  BY <1>2, <1>3, <1>4, <1>5, <1>7, <1>8, <1>9, <1>10 DEF Inv, TypeOK, device

LEMMA BatchIsLast ==
  ASSUME Inv, NEW s \in Sessions, ProcessBatch(s)
  PROVE  CursorIsLast'
<1> DEFINE m == wire[s]
           f == From(m)
<1>1. /\ histBoot' = m.boot /\ hist' = hist \o Taken(m) /\ histSeq' = NewCursor(m)
      /\ start' = IF Overtaken(m) THEN Len(hist) ELSE start
  BY DEF ProcessBatch
<1>2. TypeOK /\ m \in Batches
  BY AnswerKnown DEF Inv
<1>3. m.next \in Nat /\ f \in Nat /\ f >= 1 /\ m.boot \in Nat
  BY <1>2, FromType, BatchTypes, BoundTypes
<1>4. Taken(m) = <<>> <=> m.next <= f
  BY <1>2, TakenProperties
<1>5. /\ Len(hist') = Len(hist) + (IF f < m.next THEN m.next - f ELSE 0)
      /\ DOMAIN hist' = 1..Len(hist')
      /\ \A k \in DOMAIN hist' : k > Len(hist) => hist'[k] = <<m.boot, f + (k - Len(hist)) - 1>>
  BY <1>1, <1>2, HistGrows
<1>6. Continues(m) \/ Begins(m) \/ Overtaken(m)
  BY <1>2, ThreeWays
<1>7. Overtaken(m) => Cursor(m) = 0 /\ ~Continues(m) /\ ~Begins(m)
  BY <1>2, ThreeWays
<1> HIDE DEF m, f
<1>8. CASE f < m.next
  <2>1. Len(hist') \in DOMAIN hist' /\ Len(hist') > Len(hist)
    BY <1>2, <1>3, <1>5, <1>8, Types
  <2>2. hist'[Len(hist')] = <<m.boot, m.next - 1>>
    <3>1. f + (Len(hist') - Len(hist)) - 1 = m.next - 1
      <4>1. Len(hist) \in Nat /\ Len(hist') = Len(hist) + (m.next - f)
        BY <1>2, <1>5, <1>8, Types
      <4> QED
        BY <1>3, <4>1
    <3> QED
      BY <1>5, <2>1, <3>1
  <2>3. histSeq' = m.next - 1
    BY <1>1, <1>3, <1>4, <1>8 DEF NewCursor
  <2>4. Len(hist') # start'
    BY <1>1, <1>2, <2>1, Types
  <2> QED
    BY <1>1, <2>2, <2>3, <2>4 DEF CursorIsLast
<1>9. CASE m.next <= f
  <2>1. hist' = hist /\ histSeq' = Cursor(m)
    BY <1>1, <1>2, <1>4, <1>9, ConcatEmptySeq DEF NewCursor, TypeOK
  <2>2. CASE Continues(m)
    BY <1>1, <1>7, <2>1, <2>2 DEF Continues, CursorIsLast, Inv
  <2>3. CASE Begins(m)
    <3>1. start' = start /\ histSeq' = 0 /\ histBoot < m.boot
      BY <1>1, <1>7, <2>1, <2>3 DEF Begins
    <3>2. Len(hist) # start => hist[Len(hist)][1] < m.boot
      <4>1. ASSUME Len(hist) # start
            PROVE  hist[Len(hist)][1] \in Nat /\ hist[Len(hist)][1] <= histBoot
        <5>1. Len(hist) \in DOMAIN hist
          BY <1>2, <4>1, Types
        <5>2. hist[Len(hist)][1] \in Nat /\ histBoot \in Nat
          BY <1>2, <5>1, Types
        <5> QED
          BY <4>1, <5>2 DEF Inv, CursorIsLast
      <4>2. histBoot \in Nat
        BY <1>2, Types
      <4> QED
        BY <1>3, <3>1, <4>1, <4>2
    <3> QED
      BY <1>1, <2>1, <3>1, <3>2 DEF CursorIsLast
  <2>4. CASE Overtaken(m)
    BY <1>1, <1>7, <2>1, <2>4 DEF CursorIsLast
  <2> QED
    BY <1>6, <2>2, <2>3, <2>4
<1> QED
  BY <1>3, <1>8, <1>9

\* Unless the log is started anew, what is taken comes after its last sample.
LEMMA TakenAfter ==
  ASSUME Inv, NEW m \in Batches, ~Overtaken(m), Len(hist) # start, NEW n \in Nat, n >= From(m)
  PROVE  Before(hist[Len(hist)], <<m.boot, n>>)
<1> DEFINE x == hist[Len(hist)]
<1>1. Continues(m) \/ Begins(m)
  BY ThreeWays DEF Inv
<1>2. x = <<histBoot, histSeq>> \/ (histSeq = 0 /\ x[1] < histBoot)
  BY DEF Inv, CursorIsLast
<1>3. /\ From(m) = Larger(Cursor(m) + 1, m.low) /\ Cursor(m) \in Nat /\ m.low \in Nat
      /\ m.boot \in Nat /\ histBoot \in Nat /\ histSeq \in Nat
  BY FromType, CursorType, BatchTypes, Types, BoundTypes DEF Inv, Seqs
<1>4. n > Cursor(m)
  BY <1>3 DEF Larger
<1>5. x[1] \in Nat
  <2>1. Len(hist) \in DOMAIN hist
    BY Types DEF Inv
  <2> QED
    BY <2>1, Types DEF Inv
<1> HIDE DEF x
<1>6. CASE x = <<histBoot, histSeq>>
  <2>1. histBoot < m.boot \/ (histBoot = m.boot /\ histSeq < n)
    BY <1>1, <1>4 DEF Continues, Begins
  <2>2. x[1] = histBoot /\ x[2] = histSeq
    BY <1>6
  <2>3. Before(x, <<m.boot, n>>)
    BY <2>1, <2>2 DEF Before
  <2> QED
    BY <2>3 DEF x
<1>7. CASE histSeq = 0 /\ x[1] < histBoot
  <2>1. x[1] < m.boot
    BY <1>1, <1>3, <1>5, <1>7 DEF Continues, Begins
  <2>2. Before(x, <<m.boot, n>>)
    BY <2>1 DEF Before
  <2> QED
    BY <2>2 DEF x
<1> QED
  BY <1>2, <1>6, <1>7

LEMMA BatchAscends ==
  ASSUME Inv, NEW s \in Sessions, ProcessBatch(s)
  PROVE  Ascending'
<1> DEFINE m == wire[s]
           f == From(m)
<1>1. hist' = hist \o Taken(m) /\ start' = IF Overtaken(m) THEN Len(hist) ELSE start
  BY DEF ProcessBatch
<1>2. TypeOK /\ m \in Batches /\ f \in Nat
  BY AnswerKnown, FromType, BoundTypes DEF Inv
<1>3. /\ DOMAIN hist' = 1..Len(hist') /\ Len(hist') \in Nat
      /\ \A k \in 1..Len(hist) : hist'[k] = hist[k]
      /\ \A k \in DOMAIN hist' : k > Len(hist) =>
           /\ hist'[k][1] = m.boot
           /\ hist'[k][2] = f + (k - Len(hist)) - 1
           /\ hist'[k] = <<m.boot, f + (k - Len(hist)) - 1>>
  BY <1>1, <1>2, HistGrows
<1>4. SUFFICES ASSUME NEW j \in DOMAIN hist', NEW k \in DOMAIN hist', start' < j, j < k
               PROVE  Before(hist'[j], hist'[k])
  BY DEF Ascending, Before
<1>5. j \in Nat /\ k \in Nat /\ j >= 1 /\ Len(hist) \in Nat /\ start \in Nat /\ start <= Len(hist)
  BY <1>2, <1>3, Types
<1>6. ASSUME NEW n \in Nat, n >= f, ~Overtaken(m), Len(hist) # start
      PROVE  Before(hist[Len(hist)], <<m.boot, n>>)
  BY <1>2, <1>6, TakenAfter
<1> HIDE DEF m, f
<1>7. CASE k <= Len(hist)
  <2>1. j \in DOMAIN hist /\ k \in DOMAIN hist /\ hist'[j] = hist[j] /\ hist'[k] = hist[k]
    BY <1>2, <1>3, <1>4, <1>5, <1>7, Types
  <2>2. start < j
    BY <1>1, <1>4, <1>5, <1>7
  <2> QED
    BY <1>4, <2>1, <2>2 DEF Inv, Ascending
<1>8. CASE k > Len(hist) /\ j > Len(hist)
  BY <1>2, <1>3, <1>4, <1>5, <1>8 DEF Before
<1>9. CASE k > Len(hist) /\ j <= Len(hist)
  <2> DEFINE n == f + (k - Len(hist)) - 1
  <2>1. ~Overtaken(m) /\ start' = start /\ Len(hist) # start
    BY <1>1, <1>4, <1>5, <1>9
  <2>2. n \in Nat /\ n >= f /\ hist'[k] = <<m.boot, n>>
    BY <1>2, <1>3, <1>5, <1>9
  <2> HIDE DEF n
  <2>3. Before(hist[Len(hist)], hist'[k])
    BY <1>6, <2>1, <2>2
  <2>4. hist'[j] = hist[j] /\ j \in DOMAIN hist /\ Len(hist) \in DOMAIN hist
    BY <1>2, <1>3, <1>5, <1>9, Types
  <2>5. CASE j = Len(hist)
    BY <2>3, <2>4, <2>5
  <2>6. CASE j < Len(hist)
    <3>1. Before(hist[j], hist[Len(hist)])
      BY <1>4, <2>1, <2>4, <2>6 DEF Inv, Ascending
    <3>2. /\ hist[j][1] \in Nat /\ hist[j][2] \in Nat
          /\ hist[Len(hist)][1] \in Nat /\ hist[Len(hist)][2] \in Nat
      BY <1>2, <2>4, Types
    <3>3. hist'[k][1] \in Nat /\ hist'[k][2] \in Nat
      BY <1>2, <2>2, BatchTypes DEF m
    <3> QED
      BY <2>3, <2>4, <3>1, <3>2, <3>3 DEF Before
  <2> QED
    BY <1>5, <1>9, <2>5, <2>6
<1> QED
  BY <1>5, <1>7, <1>8, <1>9

LEMMA BatchStep ==
  ASSUME Inv, NEW s \in Sessions, ProcessBatch(s)
  PROVE  Inv'
<1> DEFINE m == wire[s]
<1>1. /\ histBoot' = m.boot /\ hist' = hist \o Taken(m) /\ histSeq' = NewCursor(m)
      /\ start' = (IF Overtaken(m) THEN Len(hist) ELSE start)
      /\ late' = (IF s = session THEN late ELSE late \cup {s})
      /\ UNCHANGED <<boot, newest, link, session, online>>
      /\ \A q \in Sessions : q # s => wire'[q] = wire[q] /\ poller'[q] = poller[q]
      /\ wire'[s] = Nothing /\ poller'[s] = "sleep"
  BY DEF ProcessBatch, device, Inv, TypeOK
<1>2. /\ m \in Batches /\ m.kind = "batch" /\ TypeOK
      /\ s \in Nat /\ session \in Nat /\ s <= session /\ s \notin late
      /\ s = session => Ahead(m)
      /\ m.boot <= boot /\ (m.boot = boot => m.next <= newest + 1)
  BY AnswerKnown DEF Inv, Message
<1>3. /\ m.boot \in Nat /\ m.next \in Nat /\ m.next >= 1 /\ boot \in Nat /\ newest \in Nat
      /\ histBoot \in Nat /\ histSeq \in Nat /\ Sessions \subseteq Nat
  BY <1>2, BatchTypes, Types
<1>4. \A q \in Sessions : wire'[q].kind \in {"read", "batch"} => q # s /\ wire'[q] = wire[q]
  BY <1>1, MessageKinds
<1>5. Continues(m) \/ Begins(m) \/ Overtaken(m)
  BY <1>2, ThreeWays
<1>6. Overtaken(m) => Cursor(m) = 0 /\ ~Ahead(m)
  BY <1>2, ThreeWays
<1>7. NewCursor(m) \in {Cursor(m), m.next - 1}
  BY DEF NewCursor
<1>8. \A n : Known(n) => Known(n)'
  <2>1. \A k \in DOMAIN hist : k \in DOMAIN hist' /\ hist'[k] = hist[k]
    BY <1>1, <1>2, HistGrows, Types
  <2> QED
    BY <2>1 DEF Known
<1>9. Asks'
  BY <1>1, <1>2 DEF Inv, Asks, TypeOK
<1>10. ASSUME NEW q \in Sessions
       PROVE  Message(q)'
  BY <1>1, <1>4, <1>8 DEF Inv, Message
<1>11. InOrder'
  BY <1>4 DEF Inv, InOrder, NotOlder
<1>12. CursorIsBehind'
  <2>1. m.boot < boot \/ (m.boot = boot /\ NewCursor(m) <= newest)
    <3>1. CASE NewCursor(m) = m.next - 1
      BY <1>2, <1>3, <3>1
    <3>2. CASE NewCursor(m) = Cursor(m)
      BY <1>2, <1>3, <1>5, <1>6, <3>2 DEF Continues, Begins, Inv, CursorIsBehind
    <3> QED
      BY <1>7, <3>1, <3>2
  <2>2. ASSUME NEW q \in Sessions, q = session', wire'[q].kind = "batch"
        PROVE  Ahead(wire[q])'
    <3>1. q # s /\ wire'[q] = wire[q] /\ q = session /\ s < q
      BY <1>1, <1>2, <1>4, <2>2
    <3>2. wire[q].boot \in Nat /\ wire[q].next \in Nat /\ wire[q].next >= 1
      <4>1. wire[q] \in Batches
        BY <2>2, <3>1, MessageKinds DEF Inv, TypeOK
      <4> QED
        BY <4>1, BatchTypes
    <3>3. NotOlder(m, wire[q]) /\ Ahead(wire[q])
      BY <1>2, <2>2, <3>1 DEF Inv, InOrder, CursorIsBehind
    <3>4. m.boot < wire[q].boot \/ (m.boot = wire[q].boot /\ NewCursor(m) < wire[q].next)
      <4>1. CASE NewCursor(m) = m.next - 1
        BY <1>3, <3>2, <3>3, <4>1 DEF NotOlder
      <4>2. CASE NewCursor(m) = Cursor(m)
        BY <1>3, <1>5, <1>6, <3>2, <3>3, <4>2 DEF NotOlder, Ahead, Continues, Begins
      <4> QED
        BY <1>7, <4>1, <4>2
    <3> QED
      BY <1>1, <3>1, <3>4 DEF Ahead
  <2> QED
    BY <1>1, <2>1, <2>2 DEF CursorIsBehind, Ahead
<1>13. AsksFromCursor'
  <2>1. SUFFICES ASSUME late' = {}
                 PROVE  /\ start' = 0
                        /\ \A q \in Sessions : q = session' => q = s
    BY <1>1, <1>4 DEF AsksFromCursor
  <2>2. s = session /\ late = {}
    BY <1>1, <2>1
  <2>3. start' = start
    BY <1>1, <1>2, <1>6, <2>2
  <2> QED
    BY <1>1, <2>2, <2>3 DEF Inv, AsksFromCursor
<1> QED
  BY <1>9, <1>10, <1>11, <1>12, <1>13, BatchStepTypes, BatchIsLast, BatchAscends DEF Inv

LEMMA StepInv ==
  ASSUME Inv, [Next]_vars
  PROVE  Inv'
<1>1. CASE Sample \/ Reboot \/ LinkLost
  BY <1>1, DeviceStep
<1>2. CASE Connect \/ Disconnect \/ \E s \in Sessions : Timeout(s)
  BY <1>2, ServerStep
<1>3. CASE \E s \in Sessions : DeviceAnswers(s) \/ Poll(s) \/ ProcessBatch(s)
  BY <1>3, AnswerStep, PollStep, BatchStep
<1>4. CASE UNCHANGED vars
  BY <1>4 DEF vars, Inv, TypeOK, Asks, Message, Known, InOrder, NotOlder, CursorIsBehind, Ahead,
              AsksFromCursor, CursorIsLast, Ascending, Before
<1> QED
  BY <1>1, <1>2, <1>3, <1>4 DEF Next

LEMMA Invariance == Safety => []Inv
BY InitInv, StepInv, PTL DEF Safety

\* Every variable keeps its type, for any size of the ring and any bounds.
THEOREM TypeCorrect == Safety => []TypeOK
BY Invariance, PTL DEF Inv

\* As long as no answer of a replaced connection was read, no sample is stored twice,
\* over any reconnects, reboots and evictions.
THEOREM OnceUnlessLate == Safety => [](late = {} => StoredOnce)
<1>1. Inv => (late = {} => StoredOnce)
  <2>1. SUFFICES ASSUME Inv, late = {}, NEW j \in DOMAIN hist, NEW k \in DOMAIN hist,
                        hist[j] = hist[k], j # k
                 PROVE  FALSE
    BY DEF StoredOnce
  <2>2. start = 0 /\ j \in Nat /\ k \in Nat /\ j >= 1 /\ k >= 1
    BY <2>1, Types DEF Inv, AsksFromCursor
  <2>3. Before(hist[j], hist[k]) \/ Before(hist[k], hist[j])
    BY <2>1, <2>2 DEF Inv, Ascending
  <2>4. hist[j][1] \in Nat /\ hist[j][2] \in Nat
    BY <2>1, Types DEF Inv
  <2> QED
    BY <2>1, <2>3, <2>4 DEF Before
<1> QED
  BY <1>1, Invariance, PTL

(***************************************************************************)
(* The refinement: a batch is one step of HistoryLog or none, a connection *)
(* is one, every other step leaves the log alone.                          *)
(***************************************************************************)
\* The last number taken, lo - 1 when there is none.
High(m) == Larger(m.next - 1, From(m) - 1)

LEMMA TakenIsRun ==
  ASSUME TypeOK, NEW m \in Batches
  PROVE  /\ Taken(m) = Log!Run(m.boot, From(m), High(m))
         /\ From(m) \in 1..(MaxSeq + 1) /\ High(m) \in (From(m) - 1)..MaxSeq
         /\ m.boot \in 1..MaxBoot
<1>1. From(m) \in Nat /\ From(m) \in 1..(MaxSeq + 1)
  BY FromType, BoundTypes
<1>2. m.next \in Nat /\ m.next <= MaxSeq + 1
  BY BatchTypes
<1>3. 1..(m.next - From(m)) = 1..(High(m) - From(m) + 1) /\ High(m) \in (From(m) - 1)..MaxSeq
  BY <1>1, <1>2, BoundTypes DEF High, Larger
<1>4. m.boot \in 1..MaxBoot
  BY DEF Batches
<1> QED
  BY <1>1, <1>3, <1>4 DEF Taken, Log!Run

\* A batch that begins the record of a boot, or the first one taken since the log was
\* started anew.
LEMMA BeginRefines ==
  ASSUME Inv, NEW m \in Batches, ~Overtaken(m), Cursor(m) = 0,
         hist' = hist \o Taken(m), gaps' = gaps, start' = start
  PROVE  Log!Begin(m.boot, From(m), High(m))
<1>1. Len(hist) > start => hist[Len(hist)][1] < m.boot
  <2>1. SUFFICES ASSUME Len(hist) > start
                 PROVE  hist[Len(hist)][1] < m.boot
    OBVIOUS
  <2>2. Len(hist) \in DOMAIN hist /\ Len(hist) # start
    BY <2>1, Types DEF Inv
  <2>3. hist[Len(hist)] \in Samples /\ hist[Len(hist)][1] \in Nat /\ hist[Len(hist)][2] # 0
    BY <2>2, Types DEF Inv, Samples
  <2>4. Continues(m) \/ Begins(m)
    BY ThreeWays DEF Inv
  <2>5. m.boot \in Nat /\ histBoot \in Nat /\ histSeq \in Nat
    BY BatchTypes, Types DEF Inv
  <2>6. CASE hist[Len(hist)] = <<histBoot, histSeq>>
    <3>1. histSeq # 0 /\ hist[Len(hist)][1] = histBoot
      BY <2>3, <2>6
    <3> QED
      BY <2>4, <3>1 DEF Continues, Begins
  <2>7. CASE hist[Len(hist)][1] < histBoot
    BY <2>3, <2>4, <2>5, <2>7 DEF Continues, Begins
  <2> QED
    BY <2>2, <2>6, <2>7 DEF Inv, CursorIsLast
<1>2. hist' = hist \o Log!Run(m.boot, From(m), High(m))
  BY TakenIsRun DEF Inv
<1> QED
  BY <1>1, <1>2 DEF Log!Begin, Log!Last

\* A batch that is read from the cursor on.
LEMMA ContinueRefines ==
  ASSUME Inv, NEW m \in Batches, ~Overtaken(m), Cursor(m) # 0,
         hist' = hist \o Taken(m), gaps' = gaps \cup {<<m.boot, n>> : n \in Missed(m)},
         start' = start,
         m.low >= m.first, m.low > m.first => Known(m.low - 1),
         late' = {} => m.low \in {m.first, histSeq + 1}
  PROVE  Log!Continue(From(m), High(m))
<1> DEFINE lo == From(m)
           jumped == (histSeq + 1)..(lo - 1)
           asked == IF m.low > m.first /\ m.low - 1 > histSeq THEN m.low - 1 ELSE histSeq
<1>1. m.boot = histBoot /\ Cursor(m) = histSeq /\ histSeq # 0
  BY DEF Cursor
<1>2. /\ histSeq \in Nat /\ lo = Larger(histSeq + 1, m.low) /\ lo \in Nat
      /\ m.low \in Nat /\ m.first \in Nat
  BY <1>1, FromType, BatchTypes, Types, BoundTypes DEF Inv
<1>3. Len(hist) > start /\ Len(hist) \in DOMAIN hist /\ hist[Len(hist)] = <<m.boot, histSeq>>
  BY <1>1, Types DEF Inv, CursorIsLast
<1>4. Missed(m) = (histSeq + 1)..(m.first - 1)
  BY <1>1, ThreeWays DEF Inv
<1>5. Missed(m) \subseteq jumped
  BY <1>2, <1>4 DEF Larger
<1>6. \A k \in jumped : k > asked => k \in Missed(m)
  BY <1>2, <1>4 DEF Larger
<1>7. asked \in Log!Cursors
  <2>1. Known(asked)
    BY CursorKnown
  <2> QED
    BY <2>1 DEF Known, Log!Cursors
<1>8. late' = {} => asked = histSeq
  BY <1>2
<1>9. histSeq < lo
  BY <1>2 DEF Larger
<1>10. hist' = hist \o Log!Run(m.boot, lo, High(m))
  BY TakenIsRun DEF Inv
<1> HIDE DEF lo, asked
<1>11. gaps' \subseteq gaps \cup {<<m.boot, k>> : k \in jumped}
  BY <1>5
<1>12. gaps \cup {<<m.boot, k>> : k \in {n \in jumped : n > asked}} \subseteq gaps'
  BY <1>6
<1> DEFINE hi == High(m)
<1> HIDE DEF hi
<1>13. Log!Continue(lo, hi)
  <2>1. Log!Last(hist) = <<m.boot, histSeq>>
    BY <1>3 DEF Log!Last
  <2>2. Log!Last(hist)[1] = m.boot /\ Log!Last(hist)[2] = histSeq
    BY <2>1
  <2> QED
    BY <1>3, <1>7, <1>8, <1>9, <1>10, <1>11, <1>12, <2>2 DEF Log!Continue, hi
<1> QED
  BY <1>13 DEF lo, hi

LEMMA BatchRefines ==
  ASSUME Inv, NEW s \in Sessions, ProcessBatch(s)
  PROVE  Log!Next \/ UNCHANGED Log!vars
<1> DEFINE m == wire[s]
           lo == From(m)
           hi == High(m)
<1>1. /\ hist' = hist \o Taken(m) /\ gaps' = gaps \cup {<<m.boot, n>> : n \in Missed(m)}
      /\ start' = (IF Overtaken(m) THEN Len(hist) ELSE start)
      /\ late' = (IF s = session THEN late ELSE late \cup {s})
      /\ session' = session
  BY DEF ProcessBatch
<1>2. /\ m \in Batches /\ TypeOK /\ Message(s) /\ m.kind = "batch"
      /\ s \in Nat /\ session \in Nat /\ s <= session /\ s \notin late
      /\ s = session => Ahead(m)
  BY AnswerKnown DEF Inv
<1>3. /\ Overtaken(m) => Cursor(m) = 0 /\ ~Ahead(m)
      /\ Cursor(m) = 0 => Missed(m) = {}
  BY <1>2, ThreeWays
<1>4. m.low >= m.first /\ (m.low > m.first => Known(m.low - 1))
  BY <1>2 DEF Message
<1>5. late' = {} => m.low \in {m.first, histSeq + 1}
  BY <1>1, <1>2 DEF Inv, AsksFromCursor
<1>6. /\ lo \in 1..(MaxSeq + 1) /\ hi \in (lo - 1)..MaxSeq /\ m.boot \in 1..MaxBoot
      /\ Taken(m) = Log!Run(m.boot, lo, hi)
  BY <1>2, TakenIsRun
<1>7. s \in 1..session /\ (s < session <=> s # session)
  <2>1. s >= 1
    BY DEF Sessions
  <2> QED
    BY <1>2, <2>1
<1> HIDE DEF m, lo, hi
<1>8. \/ Log!Begin(m.boot, lo, hi)
      \/ Log!Continue(lo, hi)
      \/ s < session /\ Log!Rewind(m.boot, lo, hi)
  <2>1. CASE Overtaken(m)
    <3>1. gaps' = gaps /\ s < session
      BY <1>1, <1>2, <1>3, <1>7, <2>1
    <3> QED
      BY <1>1, <1>6, <2>1, <3>1 DEF Log!Rewind
  <2>2. CASE ~Overtaken(m) /\ Cursor(m) = 0
    <3>1. gaps' = gaps
      BY <1>1, <1>3, <2>2
    <3> QED
      BY <1>1, <1>2, <2>2, <3>1, BeginRefines DEF lo, hi
  <2>3. CASE ~Overtaken(m) /\ Cursor(m) # 0
    BY <1>1, <1>2, <1>4, <1>5, <2>3, ContinueRefines DEF lo, hi
  <2> QED
    BY <2>1, <2>2, <2>3
<1>9. Log!Read(s, m.boot, lo, hi)
  BY <1>1, <1>2, <1>7, <1>8 DEF Log!Read
<1>10. CASE <<hist, gaps, late>>' = <<hist, gaps, late>>
  <2>1. s = session
    BY <1>1, <1>2, <1>10
  <2>2. start' = start
    BY <1>1, <1>2, <1>3, <2>1
  <2> QED
    BY <1>1, <1>10, <2>2 DEF Log!vars
<1>11. CASE <<hist, gaps, late>>' # <<hist, gaps, late>>
  BY <1>6, <1>7, <1>9, <1>11 DEF Log!Next
<1> QED
  BY <1>10, <1>11

LEMMA NextRefines ==
  ASSUME Inv, [Next]_vars
  PROVE  Log!Next \/ UNCHANGED Log!vars
<1> USE DEF Log!vars
<1>1. CASE Sample \/ Reboot \/ LinkLost \/ Disconnect
  BY <1>1 DEF Sample, Reboot, LinkLost, Disconnect, history
<1>2. CASE Connect
  <2>1. Log!Connect
    BY <1>2 DEF Connect, Log!Connect, history
  <2> QED
    BY <2>1 DEF Log!Next
<1>3. CASE \E s \in Sessions : DeviceAnswers(s) \/ Poll(s) \/ Timeout(s)
  BY <1>3 DEF DeviceAnswers, Poll, Timeout, history
<1>4. CASE \E s \in Sessions : ProcessBatch(s)
  BY <1>4, BatchRefines
<1>5. CASE UNCHANGED vars
  BY <1>5 DEF vars
<1> QED
  BY <1>1, <1>2, <1>3, <1>4, <1>5 DEF Next

\* The pollers of all sessions, together, write the log that HistoryLog specifies: boot
\* after boot, ascending, every hole announced, no sample twice; only an answer that
\* outlives its connection starts it anew, and each connection has at most one of them.
THEOREM Refinement == Safety => RefinesLog
<1>1. Init => Log!Init
  BY DEF Init, Log!Init
<1>2. Inv /\ [Next]_vars => [Log!Next]_(Log!vars)
  BY NextRefines
<1> QED
  BY <1>1, <1>2, Invariance, PTL DEF Safety, RefinesLog, Log!Spec
==============================================================================
