------------------------------ MODULE LogPoller ------------------------------
(***************************************************************************)
(* FountainAppServer._poll_logs and _log_store: the poller of a session    *)
(* pulls the device's log ring with a cursor of its own and appends the    *)
(* records to one file per boot.  When it first learns the boot_id it asks *)
(* for the log of the previous boot, which the device keeps in flash,      *)
(* stores it, and then acknowledges it, which frees the flash slot.        *)
(*                                                                         *)
(* A poller sends a request and processes its answer in one step each.     *)
(* Its adaptive cadence and its pause during an OTA download only change   *)
(* how long it sleeps.  The list of the last 200 records is left out.      *)
(***************************************************************************)
EXTENDS Integers, Sequences, FiniteSets

CONSTANTS
  Ring,        \* capacity of the device's log ring
  Batch,       \* max_records of log_read (64)
  PrevMax,     \* max_records of log_read_prev (128)
  MaxSeq,      \* bound on the records of one boot
  MaxBoot,     \* bound on the device's boots
  MaxSession   \* bound on its connections

ASSUME BoundAssumption ==
  /\ Ring \in Nat \ {0} /\ Batch \in Nat \ {0} /\ PrevMax \in Nat /\ MaxSeq \in Nat
  /\ MaxBoot \in Nat \ {0} /\ MaxSession \in Nat

VARIABLES
  boot, newest,  \* the device's boot_id and its newest record, 0 for none
  slot,          \* its flash slot: the boot and the records lo..hi, boot 0 when free
  released,      \* the slots that acknowledgements have made it drop
  link,          \* the connection it has, 0: none
  session,       \* the newest connection: the registered session
  online,        \* st["online"]
  at,            \* where each poller stands
  cursor,        \* its last_seq
  bootId,        \* its boot_id, 0: None
  wire,          \* its request or the device's answer, in flight
  file,          \* each boot's JSONL file: the records in order, with the session that
                 \* appended them
  overflow       \* records that overflow events have announced as lost

vars == <<boot, newest, slot, released, link, session, online, at, cursor, bootId,
          wire, file, overflow>>
device == <<boot, newest, slot, released>>
connection == <<link, session, online>>
store == <<file, overflow>>

Sessions == 1..MaxSession
Boots == 1..MaxBoot
Seqs == 0..MaxSeq
Waiting == {"log", "prev", "ack"}   \* for log_batch, for the previous boot's, for the ack

Nothing == [kind |-> "nothing"]
FreeSlot == [boot |-> 0, lo |-> 1, hi |-> 0]
Slots == [boot : 0..MaxBoot, lo : 1..(MaxSeq + 1), hi : Seqs]
Records(s, r) == [k \in 1..(r.hi - r.lo + 1) |-> <<s, r.lo + k - 1>>]

First == IF newest > Ring THEN newest - Ring + 1 ELSE 1
Least(a, b) == IF a < b THEN a ELSE b

\* Records above since_seq, at most Batch of them, the oldest first.
LogBatch(since) ==
  LET lo == IF since + 1 > First THEN since + 1 ELSE First
  IN  [kind |-> "log", boot |-> boot, first |-> First, overflow |-> First > since + 1,
       lo |-> lo, hi |-> Least(newest, lo + Batch - 1), next |-> newest + 1]

TypeOK ==
  /\ boot \in Boots /\ newest \in Seqs
  /\ slot.boot \in 0..(boot - 1) /\ released \subseteq {r \in Slots : r.boot # 0}
  /\ session \in 0..MaxSession /\ link \in 0..session /\ online \in BOOLEAN
  /\ at \in [Sessions -> {"none", "sleep", "over"} \cup Waiting]
  /\ cursor \in [Sessions -> Seqs] /\ bootId \in [Sessions -> 0..MaxBoot]
  /\ file \in [Boots -> Seq(Sessions \X (1..MaxSeq))]
  /\ overflow \subseteq Boots \X Seqs

Init ==
  /\ boot = 1 /\ newest = 0 /\ slot = FreeSlot /\ released = {}
  /\ link = 0 /\ session = 0 /\ online = FALSE
  /\ at = [s \in Sessions |-> "none"]
  /\ cursor = [s \in Sessions |-> 0] /\ bootId = [s \in Sessions |-> 0]
  /\ wire = [s \in Sessions |-> Nothing]
  /\ file = [b \in Boots |-> <<>>] /\ overflow = {}

(***************************************************************************)
(* The device.                                                             *)
(***************************************************************************)
Log ==
  /\ newest < MaxSeq
  /\ newest' = newest + 1
  /\ UNCHANGED <<boot, slot, released, connection, at, cursor, bootId, wire, store>>

\* A request the device has not read is lost, an answer on its way may yet arrive.
Cut ==
  /\ link' = 0
  /\ wire' = [s \in Sessions |->
                IF wire[s].kind \in {"read", "read_prev", "ack_prev"} THEN Nothing ELSE wire[s]]

\* A crash saves the ring to flash; a power loss leaves the slot as it was.
Reboot ==
  /\ boot < MaxBoot
  /\ \E saved \in BOOLEAN :
       slot' = IF saved /\ newest > 0 THEN [boot |-> boot, lo |-> First, hi |-> newest] ELSE slot
  /\ boot' = boot + 1 /\ newest' = 0
  /\ Cut
  /\ UNCHANGED <<released, session, online, at, cursor, bootId, store>>

LinkLost ==
  /\ link # 0
  /\ Cut
  /\ UNCHANGED <<device, session, online, at, cursor, bootId, store>>

AnswerRead(s) ==
  /\ wire[s].kind = "read"
  /\ wire' = [wire EXCEPT ![s] = LogBatch(wire[s].since)]
  /\ UNCHANGED <<slot, released>>

\* What an answer holds of a slot: its oldest PrevMax records.
Prev(r) == [r EXCEPT !.hi = Least(@, r.lo + PrevMax - 1)]

AnswerPrev(s) ==
  /\ wire[s].kind = "read_prev"
  /\ wire' = [wire EXCEPT ![s] = [kind |-> "prev", slot |-> Prev(slot)]]
  /\ UNCHANGED <<slot, released>>

\* Only the boot that is in the slot is released, and with all of its records.
AnswerAck(s) ==
  /\ wire[s].kind = "ack_prev"
  /\ wire' = [wire EXCEPT ![s] = [kind |-> "acked"]]
  /\ IF wire[s].boot = slot.boot
       THEN /\ slot' = FreeSlot
            /\ released' = released \cup {slot}
       ELSE UNCHANGED <<slot, released>>

DeviceAnswers(s) ==
  /\ link = s
  /\ AnswerRead(s) \/ AnswerPrev(s) \/ AnswerAck(s)
  /\ UNCHANGED <<boot, newest, connection, at, cursor, bootId, store>>

(***************************************************************************)
(* The server.                                                             *)
(***************************************************************************)
Connect ==
  /\ link = 0 /\ session < MaxSession
  /\ session' = session + 1 /\ link' = session' /\ online' = TRUE
  /\ at' = [at EXCEPT ![session'] = "sleep"]
  /\ UNCHANGED <<device, cursor, bootId, wire, store>>

Disconnect ==
  /\ link = 0 /\ online
  /\ online' = FALSE
  /\ UNCHANGED <<device, link, session, at, cursor, bootId, wire, store>>

\* What a request puts on the wire; it is lost when the device is not there.
Send(s, m) == wire' = [wire EXCEPT ![s] = IF link = s THEN m ELSE Nothing]

\* log_read on a closing socket raises, and that ends the poller.
Poll(s) ==
  /\ at[s] = "sleep"
  /\ IF online /\ s = session
       THEN /\ at' = [at EXCEPT ![s] = "log"]
            /\ Send(s, [kind |-> "read", since |-> cursor[s]])
       ELSE /\ at' = [at EXCEPT ![s] = "over"]
            /\ UNCHANGED wire
  /\ UNCHANGED <<device, connection, cursor, bootId, store>>

\* A log_read without an answer ends the poller; the rest is best effort.
Timeout(s) ==
  /\ at[s] \in Waiting
  /\ at' = [at EXCEPT ![s] = IF @ = "log" THEN "over" ELSE "sleep"]
  /\ wire' = [wire EXCEPT ![s] = Nothing]
  /\ UNCHANGED <<device, connection, cursor, bootId, store>>

LogStore(s, b, r) == file' = [file EXCEPT ![b] = @ \o Records(s, r)]

\* The disk fails: some of the records have been written.
LogStoreFails(s, b, r) ==
  /\ r.lo <= r.hi
  /\ \E n \in (r.lo - 1)..(r.hi - 1) : LogStore(s, b, [lo |-> r.lo, hi |-> n])

\* The first batch only tells the boot; it is read again, from 0.
NewBoot(s) ==
  /\ at[s] = "log" /\ wire[s].kind = "log"
  /\ wire[s].boot # bootId[s]
  /\ bootId' = [bootId EXCEPT ![s] = wire[s].boot]
  /\ cursor' = [cursor EXCEPT ![s] = 0]
  /\ at' = [at EXCEPT ![s] = "prev"]
  /\ Send(s, [kind |-> "read_prev"])
  /\ UNCHANGED <<device, connection, store>>

\* Mutant: the cursor is taken from next_seq, as if the batch held all there is.
NewCursorAll(m) == m.next - 1

\* Mutant: the cursor becomes the first record to ask for, not the last one stored.
NewCursorPast(m) == m.hi + 1

\* The highest record of the batch.
NewCursor(m) == m.hi

StoreBatch(s) ==
  /\ at[s] = "log" /\ wire[s].kind = "log"
  /\ wire[s].boot = bootId[s]
  /\ LET m == wire[s] IN
       /\ overflow' = IF m.overflow
                        THEN overflow \cup {<<m.boot, n>> : n \in (cursor[s] + 1)..(m.first - 1)}
                        ELSE overflow
       /\ LogStore(s, m.boot, m)
       /\ cursor' = [cursor EXCEPT ![s] = IF m.lo <= m.hi THEN NewCursor(m) ELSE @]
  /\ at' = [at EXCEPT ![s] = "sleep"]
  /\ wire' = [wire EXCEPT ![s] = Nothing]
  /\ UNCHANGED <<device, connection, bootId>>

\* Storing a batch is outside the try: an OSError ends the task, the session goes on.
StoreBatchFails(s) ==
  /\ at[s] = "log" /\ wire[s].kind = "log"
  /\ wire[s].boot = bootId[s]
  /\ LogStoreFails(s, wire[s].boot, wire[s])
  /\ at' = [at EXCEPT ![s] = "over"]
  /\ wire' = [wire EXCEPT ![s] = Nothing]
  /\ UNCHANGED <<device, connection, cursor, bootId, overflow>>

\* Mutant: the slot is acknowledged although its records are not stored.
StorePrevUnstored(s) ==
  /\ at[s] = "prev" /\ wire[s].kind = "prev"
  /\ at' = [at EXCEPT ![s] = IF wire[s].slot.boot = 0 THEN "sleep" ELSE "ack"]
  /\ Send(s, IF wire[s].slot.boot = 0 THEN Nothing
                                      ELSE [kind |-> "ack_prev", boot |-> wire[s].slot.boot])
  /\ UNCHANGED <<device, connection, cursor, bootId, store>>

StorePrev(s) ==
  /\ at[s] = "prev" /\ wire[s].kind = "prev"
  /\ LET r == wire[s].slot IN
       IF r.boot = 0
         THEN /\ at' = [at EXCEPT ![s] = "sleep"]
              /\ wire' = [wire EXCEPT ![s] = Nothing]
              /\ UNCHANGED file
         ELSE /\ LogStore(s, r.boot, r)
              /\ at' = [at EXCEPT ![s] = "ack"]
              /\ Send(s, [kind |-> "ack_prev", boot |-> r.boot])
  /\ UNCHANGED <<device, connection, cursor, bootId, overflow>>

\* Storing the previous boot's records is best effort: no acknowledgement, but the
\* poller goes on.
StorePrevFails(s) ==
  /\ at[s] = "prev" /\ wire[s].kind = "prev"
  /\ wire[s].slot.boot # 0
  /\ LogStoreFails(s, wire[s].slot.boot, wire[s].slot)
  /\ at' = [at EXCEPT ![s] = "sleep"]
  /\ wire' = [wire EXCEPT ![s] = Nothing]
  /\ UNCHANGED <<device, connection, cursor, bootId, overflow>>

PrevAcked(s) ==
  /\ at[s] = "ack" /\ wire[s].kind = "acked"
  /\ at' = [at EXCEPT ![s] = "sleep"]
  /\ wire' = [wire EXCEPT ![s] = Nothing]
  /\ UNCHANGED <<device, connection, cursor, bootId, store>>

Process(s) ==
  \/ NewBoot(s)
  \/ StoreBatch(s) \/ StoreBatchFails(s)
  \/ StorePrev(s) \/ StorePrevFails(s)
  \/ PrevAcked(s)

Next ==
  \/ Log
  \/ Reboot
  \/ LinkLost
  \/ Connect
  \/ Disconnect
  \/ \E s \in Sessions : DeviceAnswers(s) \/ Poll(s) \/ Timeout(s) \/ Process(s)

Safety == Init /\ [][Next]_vars

\* The poller's task runs, and a device that is connected answers.
Fairness ==
  \A s \in Sessions :
    /\ WF_vars(Poll(s))
    /\ WF_vars(DeviceAnswers(s))
    /\ WF_vars(Process(s))

Spec == Safety /\ Fairness
-----------------------------------------------------------------------------
(***************************************************************************)
(* Properties.                                                             *)
(***************************************************************************)

Copies(s, b, n) == Cardinality({k \in DOMAIN file[b] : file[b][k] = <<s, n>>})
InFile(b, n) == \E s \in Sessions : Copies(s, b, n) > 0

\* A poller takes each record of its boot exactly once: what lies at or below its cursor
\* is in the file with one copy of its own, or an overflow event says that it is lost,
\* and it has stored nothing above.  (The next session starts at 0: it appends again
\* what the ring still holds.)
StoredOncePerSession ==
  \A s \in Sessions, n \in 1..MaxSeq :
    bootId[s] # 0 /\ at[s] # "over" =>
      IF n <= cursor[s]
        THEN Copies(s, bootId[s], n) = 1
               \/ (Copies(s, bootId[s], n) = 0 /\ <<bootId[s], n>> \in overflow)
        ELSE Copies(s, bootId[s], n) = 0

\* The device drops its previous-boot log only after the server has on file what one
\* answer holds of it, wherever time-outs, lost connections and disk errors strike.
ReleasedIsStored == \A r \in released : \A n \in r.lo..Prev(r).hi : InFile(r.boot, n)

\* While the device stays connected and the poller lives, each record gets into the
\* file or is evicted.
RecordsArrive ==
  \A n \in 1..MaxSeq :
    newest >= n ~> InFile(boot, n) \/ n < First \/ newest < n
                     \/ link = 0 \/ at[link] = "over"

(***************************************************************************)
(* What docs and comments say, and the code does not keep (README).        *)
(***************************************************************************)
\* "After a crash/watchdog reboot, the log of the previous boot is recovered via
\* log_read_prev/log_ack_prev" (README.md:73): what the device has dropped is on file.
ReleasedIsWhole == \A r \in released : \A n \in r.lo..r.hi : InFile(r.boot, n)
==============================================================================
