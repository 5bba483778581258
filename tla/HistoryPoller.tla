---------------------------- MODULE HistoryPoller ----------------------------
(***************************************************************************)
(* FountainAppServer._poll_history: every session of a device starts a     *)
(* poller task, and all of them work on the device state, `hist_boot`,     *)
(* `hist_seq` and `hist`.  The device keeps its newest samples in a ring   *)
(* that a reboot empties; it numbers the samples of each boot from 1.      *)
(*                                                                         *)
(* A poller sleeps, sends history_read with the cursor, and processes the  *)
(* answer in one step (there is no await between the two).  Its pause      *)
(* while an OTA download is active is a longer sleep.  Insertion ids are   *)
(* positions in `hist`; the order by time and the cap of the list belong   *)
(* to LiveChart.                                                           *)
(***************************************************************************)
EXTENDS Integers, Sequences

CONSTANTS
  Ring,        \* capacity of the device's ring
  MaxSeq,      \* bound on the samples of one boot
  MaxBoot,     \* bound on the device's boots
  MaxSession   \* bound on its connections

ASSUME BoundAssumption ==
  /\ {Ring, MaxSeq, MaxBoot} \subseteq Nat \ {0}
  /\ MaxSession \in Nat

VARIABLES
  boot,        \* the device's boot_id
  newest,      \* its newest sample; 0: none in this boot
  link,        \* the connection the device has, 0: none
  session,     \* the newest connection, which is the registered session
  online,      \* st["online"]
  poller,      \* the poller of each session: "none", "sleep", "wait", "over"
  wire,        \* its request or the device's answer, in flight
  histBoot,    \* st["hist_boot"], 0: not set
  histSeq,     \* st["hist_seq"]
  hist,        \* the samples added, <<boot, seq>>, in order of insertion
  gaps,        \* the samples that gap events have named
  late,        \* history: the sessions whose answer was read after they were replaced
  start        \* history: the length of `hist` when the cursor last fell back

vars == <<boot, newest, link, session, online, poller, wire, histBoot, histSeq, hist, gaps,
          late, start>>
device == <<boot, newest>>
history == <<histBoot, histSeq, hist, gaps, late, start>>

Sessions == 1..MaxSession
Seqs == 0..MaxSeq
Samples == (1..MaxBoot) \X (1..MaxSeq)

Nothing == [kind |-> "nothing"]
HistoryRead(since) == [kind |-> "read", since |-> since]

First == IF newest > Ring THEN newest - Ring + 1 ELSE 1
InRing(s) == First <= s /\ s <= newest

\* The answer, built from the ring: samples above since_seq, and the ring's bounds.
HistoryBatch(since) ==
  [kind |-> "batch", boot |-> boot, first |-> First, next |-> newest + 1,
   low |-> IF since + 1 > First THEN since + 1 ELSE First]

Messages ==
  {Nothing} \cup [kind : {"read"}, since : Seqs]
    \cup [kind : {"batch"}, boot : 1..MaxBoot, first : 1..MaxSeq,
          next : 1..(MaxSeq + 1), low : 1..(MaxSeq + 1)]

TypeOK ==
  /\ boot \in 1..MaxBoot /\ newest \in Seqs
  /\ link \in 0..session /\ session \in 0..MaxSession
  /\ online \in BOOLEAN
  /\ poller \in [Sessions -> {"none", "sleep", "wait", "over"}]
  /\ wire \in [Sessions -> Messages]
  /\ histBoot \in 0..MaxBoot /\ histSeq \in Seqs
  /\ hist \in Seq(Samples)
  /\ gaps \subseteq Samples
  /\ late \subseteq Sessions /\ start \in 0..Len(hist)

Init ==
  /\ boot = 1 /\ newest = 0 /\ link = 0 /\ session = 0
  /\ online = FALSE
  /\ poller = [s \in Sessions |-> "none"]
  /\ wire = [s \in Sessions |-> Nothing]
  /\ histBoot = 0 /\ histSeq = 0 /\ hist = <<>> /\ gaps = {}
  /\ late = {} /\ start = 0

(***************************************************************************)
(* The device: a sample a second, a reboot, the loss of its connection.    *)
(***************************************************************************)
\* A request the device has not read is lost with the connection.
LoseRequest ==
  wire' = [s \in Sessions |-> IF wire[s].kind = "read" THEN Nothing ELSE wire[s]]

Sample ==
  /\ newest < MaxSeq
  /\ newest' = newest + 1
  /\ UNCHANGED <<boot, link, session, online, poller, wire, history>>

Reboot ==
  /\ boot < MaxBoot
  /\ boot' = boot + 1 /\ newest' = 0
  /\ link' = 0
  /\ LoseRequest
  /\ UNCHANGED <<session, online, poller, history>>

LinkLost ==
  /\ link # 0
  /\ link' = 0
  /\ LoseRequest
  /\ UNCHANGED <<device, session, online, poller, history>>

DeviceAnswers(s) ==
  /\ link = s
  /\ wire[s].kind = "read"
  /\ wire' = [wire EXCEPT ![s] = HistoryBatch(wire[s].since)]
  /\ UNCHANGED <<device, link, session, online, poller, history>>

(***************************************************************************)
(* The server: connect and disconnect hooks, and the poller.               *)
(***************************************************************************)
\* An answer in flight on the connection that is replaced may still arrive: its handler
\* receives until the socket is closed.
Connect ==
  /\ link = 0 /\ session < MaxSession
  /\ session' = session + 1
  /\ link' = session'
  /\ online' = TRUE
  /\ poller' = [poller EXCEPT ![session'] = "sleep"]
  /\ UNCHANGED <<device, wire, history>>

\* The registered session ends: receive loop or watchdog, then the disconnect hook.
\* Nobody receives an answer that is still on its way.
Disconnect ==
  /\ link = 0 /\ online
  /\ online' = FALSE
  /\ wire' = [wire EXCEPT ![session] = Nothing]
  /\ UNCHANGED <<device, link, session, poller, history>>

\* history_read on a socket that is closing raises, and that ends the poller.
Poll(s) ==
  /\ poller[s] = "sleep"
  /\ IF online /\ s = session
       THEN /\ poller' = [poller EXCEPT ![s] = "wait"]
            /\ wire' = [wire EXCEPT ![s] = IF link = s THEN HistoryRead(histSeq) ELSE Nothing]
       ELSE /\ poller' = [poller EXCEPT ![s] = "over"]
            /\ UNCHANGED wire
  /\ UNCHANGED <<device, link, session, online, history>>

\* No answer within 10 s: the poller is over, the session is not.
Timeout(s) ==
  /\ poller[s] = "wait"
  /\ poller' = [poller EXCEPT ![s] = "over"]
  /\ wire' = [wire EXCEPT ![s] = Nothing]
  /\ UNCHANGED <<device, link, session, online, history>>

\* Mutant: only another boot_id is a reboot, and it keeps the cursor.
CursorKept(m) == histSeq

\* The cursor the batch is read against: a reboot sets it back.
Cursor(m) == IF m.boot # histBoot \/ m.next <= histSeq THEN 0 ELSE histSeq

\* Mutant: the gap test forgets that the cursor has been taken already.
MissedOffByOne(m) ==
  IF Cursor(m) # 0 /\ m.first > Cursor(m) + 2 THEN (Cursor(m) + 1)..(m.first - 1) ELSE {}

\* What the gap event names: evicted before it was read.
Missed(m) == IF Cursor(m) # 0 THEN (Cursor(m) + 1)..(m.first - 1) ELSE {}

\* Rows at or below the cursor are skipped, the others are taken in their order.
From(m) == IF Cursor(m) + 1 > m.low THEN Cursor(m) + 1 ELSE m.low
Taken(m) == [k \in 1..(m.next - From(m)) |-> <<m.boot, From(m) + k - 1>>]

\* Mutant: the cursor becomes the next_seq of the batch.
NewCursorNext(m) == IF Taken(m) = <<>> THEN Cursor(m) ELSE m.next

NewCursor(m) == IF Taken(m) = <<>> THEN Cursor(m) ELSE m.next - 1

\* Newer samples have been read since the batch was made.
Overtaken(m) == m.boot < histBoot \/ (m.boot = histBoot /\ m.next <= histSeq)

ProcessBatch(s) ==
  /\ poller[s] = "wait"
  /\ wire[s].kind = "batch"
  /\ LET m == wire[s] IN
       /\ histBoot' = m.boot
       /\ gaps' = gaps \cup {<<m.boot, n>> : n \in Missed(m)}
       /\ hist' = hist \o Taken(m)
       /\ histSeq' = NewCursor(m)
       /\ start' = IF Overtaken(m) THEN Len(hist) ELSE start
       /\ late' = IF s = session THEN late ELSE late \cup {s}
  /\ poller' = [poller EXCEPT ![s] = "sleep"]
  /\ wire' = [wire EXCEPT ![s] = Nothing]
  /\ UNCHANGED <<device, link, session, online>>

Next ==
  \/ Sample
  \/ Reboot
  \/ LinkLost
  \/ Connect
  \/ Disconnect
  \/ \E s \in Sessions : DeviceAnswers(s) \/ Poll(s) \/ Timeout(s) \/ ProcessBatch(s)

Safety == Init /\ [][Next]_vars

\* The poller's task runs, and its wait ends: with an answer, or by the time-out.
Fairness ==
  \A s \in Sessions :
    /\ WF_vars(Poll(s))
    /\ WF_vars(Timeout(s) \/ ProcessBatch(s))

Spec == Safety /\ Fairness
-----------------------------------------------------------------------------
(***************************************************************************)
(* Properties.                                                             *)
(***************************************************************************)

\* Whatever sessions, their pollers and reboots do, the history is an ascending log of
\* each boot whose holes are announced, with no sample twice, until an answer is read
\* after its connection was replaced.  Only such an answer makes the cursor fall back,
\* once per connection, and from there on the log is ascending again.
Log == INSTANCE HistoryLog WITH log <- hist, holes <- gaps, connections <- session
RefinesLog == Log!Spec

\* Sample n of the current boot is in the history.
Stored(n) == \E k \in DOMAIN hist : hist[k] = <<boot, n>>

\* Where the history of the current boot begins: nothing is promised before it, and
\* nothing between its samples once a late answer has moved the cursor.
Precedes(n) ==
  /\ \E k \in DOMAIN hist : hist[k][1] = boot
  /\ \A k \in DOMAIN hist : hist[k][1] = boot => n < hist[k][2]

PassedOver(n) == late # {} /\ \E k \in DOMAIN hist : hist[k][1] = boot /\ n < hist[k][2]

\* A device that stays connected has each of its samples taken, unless its ring has
\* evicted it or the poller has ended.
SamplesAreTaken ==
  \A n \in 1..MaxSeq :
    newest >= n ~> \/ Stored(n)
                   \/ ~InRing(n) \/ Precedes(n) \/ PassedOver(n)
                   \/ link = 0 \/ poller[link] = "over"

(***************************************************************************)
(* What docs and comments say, and the code does not keep (README).        *)
(***************************************************************************)
\* "dedup against earlier polls" (app.py:352), "the cursor lives in the device state
\* and survives reconnects" (app.py:306): no sample is stored twice.
StoredOnce == \A j, k \in DOMAIN hist : hist[j] = hist[k] => j = k

\* "a boot_id change resets it" (app.py:307), "the chart fills connection gaps of up to
\* ~100 s without holes" (README.md:82): what the ring still holds of the boot, up to
\* the cursor, has been stored.  (No late answer is to blame where it has not.)
BootIsReadWhole ==
  histBoot = boot /\ late = {} => \A n \in 1..histSeq : InRing(n) => Stored(n)
==============================================================================
