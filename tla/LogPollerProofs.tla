--------------------------- MODULE LogPollerProofs ---------------------------
(***************************************************************************)
(* Proofs about LogPoller, for any ring, any size of a batch and any       *)
(* number of records, boots and connections: what a poller appends to the  *)
(* files, and what the device may drop.                                    *)
(***************************************************************************)
EXTENDS LogPoller, SequenceTheorems, FiniteSetTheorems, TLAPS

(***************************************************************************)
(* The inductive invariant, in parts.                                      *)
(***************************************************************************)
Batches == [kind : {"log"}, boot : Boots, first : 1..(MaxSeq + 1), overflow : BOOLEAN,
            lo : 1..(MaxSeq + 1), hi : Seqs, next : Nat]

Messages ==
  {Nothing} \cup [kind : {"read"}, since : Seqs] \cup Batches
    \cup [kind : {"read_prev", "acked"}] \cup [kind : {"prev"}, slot : Slots]
    \cup [kind : {"ack_prev"}, boot : 1..MaxBoot]

\* What TypeOK leaves open: the slot and the messages.
DetailOK ==
  /\ slot \in Slots
  /\ wire \in [Sessions -> Messages]

\* Which answers a poller can be waiting for.
Stage(m) ==
  CASE m.kind \in {"read", "log"}       -> "log"
    [] m.kind \in {"read_prev", "prev"} -> "prev"
    [] OTHER                            -> "ack"

\* A session that has not begun has done nothing; one that has waits for what it asked.
Standing(s) ==
  /\ s > session => at[s] = "none" /\ wire[s] = Nothing /\ bootId[s] = 0
  /\ wire[s] # Nothing => at[s] = Stage(wire[s])
  /\ at[s] \in {"prev", "ack"} => bootId[s] # 0

\* A connection ends with the boot it began in, so a session sees one boot only.
OneBoot(s) ==
  /\ bootId[s] <= boot
  /\ link = s => bootId[s] \in {0, boot}
  /\ wire[s].kind = "log" =>
       /\ link = s => wire[s].boot = boot
       /\ wire[s].boot <= boot
       /\ bootId[s] # 0 => wire[s].boot = bootId[s]
  /\ wire[s].kind = "prev" => wire[s].slot.boot < bootId[s]

\* A batch begins at the cursor or at the first record the ring still has.
FromCursor(s) ==
  /\ wire[s].kind = "read" => wire[s].since = cursor[s]
  /\ wire[s].kind = "log" =>
       /\ wire[s].lo = IF cursor[s] + 1 > wire[s].first THEN cursor[s] + 1 ELSE wire[s].first
       /\ wire[s].overflow = (wire[s].first > cursor[s] + 1)

\* A request is with the device that is connected, or lost.  The slot does not change
\* between the reading of it and its release, and by then what was read is on file.
SlotKept(s) ==
  /\ wire[s].kind \in {"read", "read_prev", "ack_prev"} => link = s
  /\ link = s /\ wire[s].kind = "prev" => wire[s].slot = Prev(slot)
  /\ wire[s].kind = "ack_prev" =>
       /\ wire[s].boot = slot.boot
       /\ \A b \in Boots, n \in 1..MaxSeq :
            b = slot.boot /\ n \in slot.lo..Prev(slot).hi => InFile(b, n)

\* A poller that has not learned its boot has stored nothing.
NoCopies(s) == bootId[s] = 0 => \A b \in Boots, n \in 1..MaxSeq : Copies(s, b, n) = 0

\* One copy of each record up to the cursor, or its loss announced; none above.
OnceIn(s, b, n) ==
  IF n <= cursor[s]
    THEN Copies(s, b, n) = 1 \/ (Copies(s, b, n) = 0 /\ <<b, n>> \in overflow)
    ELSE Copies(s, b, n) = 0

StoredOnce(s) ==
  at[s] # "over" => \A b \in Boots, n \in 1..MaxSeq : b = bootId[s] => OnceIn(s, b, n)

Poller(s) ==
  Standing(s) /\ OneBoot(s) /\ FromCursor(s) /\ SlotKept(s) /\ NoCopies(s) /\ StoredOnce(s)

Inv ==
  /\ TypeOK /\ DetailOK
  /\ ReleasedIsStored
  /\ \A s \in Sessions : Poller(s)

LEMMA BoundTypes ==
  /\ Ring \in Nat \ {0} /\ Batch \in Nat \ {0} /\ MaxSeq \in Nat
  /\ MaxBoot \in Nat \ {0} /\ MaxSession \in Nat
  /\ PrevMax \in Nat
BY BoundAssumption DEF BoundAssumption

(***************************************************************************)
(* The records of a file, and what storing some more does to them.         *)
(***************************************************************************)
Record == Sessions \X (1..MaxSeq)

\* Where a file has this record.
Places(f, x) == {k \in DOMAIN f : f[k] = x}

LEMMA PlacesFinite ==
  ASSUME NEW f \in Seq(Record), NEW x
  PROVE  /\ IsFiniteSet(Places(f, x)) /\ Cardinality(Places(f, x)) \in Nat
         /\ Cardinality(Places(f, x)) = 0 <=> Places(f, x) = {}
<1>1. Places(f, x) \subseteq 1..Len(f) /\ Len(f) \in Nat
  BY DEF Places
<1>2. IsFiniteSet(1..Len(f))
  BY <1>1, FS_Interval
<1>3. IsFiniteSet(Places(f, x))
  BY <1>1, <1>2, FS_Subset
<1> QED
  BY <1>3, FS_EmptySet, FS_CardinalityType

LEMMA RecordsType ==
  ASSUME NEW s \in Sessions, NEW r, r.lo \in 1..(MaxSeq + 1), r.hi \in Seqs
  PROVE  /\ Records(s, r) \in Seq(Record)
         /\ Len(Records(s, r)) = IF r.lo <= r.hi THEN r.hi - r.lo + 1 ELSE 0
         /\ \A k \in 1..Len(Records(s, r)) : Records(s, r)[k] = <<s, r.lo + k - 1>>
<1> DEFINE n == IF r.lo <= r.hi THEN r.hi - r.lo + 1 ELSE 0
<1>1. r.lo \in Nat /\ r.lo >= 1 /\ r.hi \in Nat /\ r.hi <= MaxSeq /\ n \in Nat /\ MaxSeq \in Nat
  BY BoundTypes DEF Seqs
<1>2. 1..(r.hi - r.lo + 1) = 1..n
  BY <1>1
<1>3. Records(s, r) = [k \in 1..n |-> <<s, r.lo + k - 1>>]
  BY <1>2 DEF Records
<1>4. \A k \in 1..n : <<s, r.lo + k - 1>> \in Record
  <2>1. \A k \in 1..n : r.lo + k - 1 \in 1..MaxSeq
    BY <1>1
  <2> QED
    BY <2>1 DEF Record
<1>5. Records(s, r) \in [1..n -> Record]
  BY <1>3, <1>4
<1>6. Records(s, r) \in Seq(Record)
  BY <1>1, <1>5, SeqDef
<1>7. Len(Records(s, r)) = n
  BY <1>1, <1>5, <1>6
<1> QED
  BY <1>3, <1>6, <1>7

LEMMA PlacesAfter ==
  ASSUME NEW f \in Seq(Record), NEW s \in Sessions, NEW r, r.lo \in 1..(MaxSeq + 1), r.hi \in Seqs,
         NEW q \in Sessions, NEW n \in 1..MaxSeq
  PROVE  /\ f \o Records(s, r) \in Seq(Record)
         /\ Places(f, <<q, n>>) \subseteq Places(f \o Records(s, r), <<q, n>>)
         /\ q # s \/ n \notin r.lo..r.hi =>
              Places(f \o Records(s, r), <<q, n>>) = Places(f, <<q, n>>)
         /\ q = s /\ n \in r.lo..r.hi =>
              Places(f \o Records(s, r), <<q, n>>) = Places(f, <<q, n>>) \cup {Len(f) + (n - r.lo + 1)}
<1> DEFINE t == Records(s, r)
           g == f \o t
<1>1. /\ t \in Seq(Record) /\ Len(t) = IF r.lo <= r.hi THEN r.hi - r.lo + 1 ELSE 0
      /\ \A k \in 1..Len(t) : t[k] = <<s, r.lo + k - 1>>
  BY RecordsType
<1>2. r.lo \in Nat /\ r.hi \in Nat /\ n \in Nat
  BY DEF Seqs
<1> HIDE DEF t
<1>3. /\ g \in Seq(Record) /\ Len(g) = Len(f) + Len(t)
      /\ \A i \in 1..(Len(f) + Len(t)) : g[i] = IF i <= Len(f) THEN f[i] ELSE t[i - Len(f)]
  <2>1. t \in Seq(Record)
    BY <1>1
  <2> QED
    BY <2>1, ConcatProperties
<1> HIDE DEF g
<1>4. Len(f) \in Nat /\ Len(t) \in Nat /\ DOMAIN f = 1..Len(f) /\ DOMAIN g = 1..(Len(f) + Len(t))
  BY <1>1, <1>3
<1>5. \A k \in DOMAIN f : k \in DOMAIN g /\ g[k] = f[k]
  BY <1>3, <1>4
<1>6. ASSUME NEW i \in DOMAIN g, i \notin DOMAIN f
      PROVE  i - Len(f) \in 1..Len(t) /\ g[i] = <<s, r.lo + (i - Len(f)) - 1>>
  <2>1. i - Len(f) \in 1..Len(t) /\ i \in 1..(Len(f) + Len(t)) /\ ~(i <= Len(f))
    BY <1>4, <1>6
  <2>2. g[i] = t[i - Len(f)]
    BY <1>3, <2>1
  <2> QED
    BY <1>1, <2>1, <2>2
<1>7. Places(f, <<q, n>>) \subseteq Places(g, <<q, n>>)
  BY <1>5 DEF Places
<1>8. ASSUME q # s \/ n \notin r.lo..r.hi
      PROVE  Places(g, <<q, n>>) \subseteq Places(f, <<q, n>>)
  <2>1. SUFFICES ASSUME NEW i \in DOMAIN g, g[i] = <<q, n>>
                 PROVE  i \in DOMAIN f /\ f[i] = <<q, n>>
    BY DEF Places
  <2>2. CASE i \in DOMAIN f
    BY <1>5, <2>1, <2>2
  <2>3. CASE i \notin DOMAIN f
    <3>1. q = s /\ n = r.lo + (i - Len(f)) - 1 /\ i - Len(f) \in 1..Len(t)
      BY <1>6, <2>1, <2>3
    <3>2. n \in r.lo..r.hi
      BY <1>1, <1>2, <1>4, <3>1, SMTT(30)
    <3> QED
      BY <1>8, <3>1, <3>2
  <2> QED
    BY <2>2, <2>3
<1>9. ASSUME q = s, n \in r.lo..r.hi
      PROVE  Places(g, <<q, n>>) = Places(f, <<q, n>>) \cup {Len(f) + (n - r.lo + 1)}
  <2> DEFINE j == Len(f) + (n - r.lo + 1)
  <2>1. j \in DOMAIN g /\ j \notin DOMAIN f /\ r.lo + (j - Len(f)) - 1 = n
    BY <1>1, <1>2, <1>4, <1>9, SMTT(30)
  <2>2. \A i \in DOMAIN g : i \notin DOMAIN f /\ r.lo + (i - Len(f)) - 1 = n => i = j
    BY <1>2, <1>4
  <2> HIDE DEF j
  <2>3. g[j] = <<q, n>>
    BY <1>6, <1>9, <2>1
  <2>4. ASSUME NEW i \in DOMAIN g, g[i] = <<q, n>>
        PROVE  (i \in DOMAIN f /\ f[i] = <<q, n>>) \/ i = j
    <3>1. CASE i \in DOMAIN f
      BY <1>5, <2>4, <3>1
    <3>2. CASE i \notin DOMAIN f
      <4>1. n = r.lo + (i - Len(f)) - 1
        BY <1>6, <2>4, <3>2
      <4> QED
        BY <2>2, <3>2, <4>1
    <3> QED
      BY <3>1, <3>2
  <2>5. Places(g, <<q, n>>) = Places(f, <<q, n>>) \cup {j}
    BY <1>7, <2>1, <2>3, <2>4 DEF Places
  <2> QED
    BY <2>5 DEF j
<1>10. g = f \o Records(s, r)
  BY DEF g, t
<1> QED
  BY <1>3, <1>7, <1>8, <1>9, <1>10

Files == [Boots -> Seq(Record)]

LEMMA CopiesType ==
  ASSUME TypeOK, NEW s \in Sessions, NEW b \in Boots, NEW n
  PROVE  Copies(s, b, n) \in Nat /\ Copies(s, b, n) = Cardinality(Places(file[b], <<s, n>>))
<1>1. file[b] \in Seq(Record)
  BY DEF TypeOK, Record
<1>2. Copies(s, b, n) = Cardinality(Places(file[b], <<s, n>>))
  BY DEF Copies, Places
<1> QED
  BY <1>1, <1>2, PlacesFinite

\* What storing records changes: one more copy of each of them, by this session.
LEMMA Stored ==
  ASSUME TypeOK, NEW s \in Sessions, NEW b \in Boots, NEW r, r.lo \in 1..(MaxSeq + 1), r.hi \in Seqs,
         LogStore(s, b, r)
  PROVE  /\ file' \in Files
         /\ \A q \in Sessions, c \in Boots, n \in 1..MaxSeq :
              q # s \/ c # b \/ n \notin r.lo..r.hi => Copies(q, c, n)' = Copies(q, c, n)
         /\ \A n \in r.lo..r.hi : Copies(s, b, n) = 0 => Copies(s, b, n)' = 1
         /\ \A c \in Boots, n \in 1..MaxSeq : InFile(c, n) => InFile(c, n)'
         /\ \A n \in r.lo..r.hi : InFile(b, n)'
<1>1. file \in Files
  BY DEF TypeOK, Files, Record
<1>2. \A c \in Boots : file'[c] = IF c = b THEN file[b] \o Records(s, r) ELSE file[c]
  BY <1>1 DEF LogStore, Files
<1>3. file' \in Files
  <2>1. file[b] \in Seq(Record) /\ Records(s, r) \in Seq(Record)
    BY <1>1, RecordsType DEF Files
  <2>2. file[b] \o Records(s, r) \in Seq(Record)
    BY <2>1, ConcatProperties
  <2> QED
    BY <1>1, <2>2 DEF LogStore, Files
<1>4. ASSUME NEW q \in Sessions, NEW c \in Boots, NEW n \in 1..MaxSeq
      PROVE  /\ Copies(q, c, n) = Cardinality(Places(file[c], <<q, n>>)) /\ Copies(q, c, n) \in Nat
             /\ Copies(q, c, n)' = Cardinality(Places(file'[c], <<q, n>>))
             /\ IsFiniteSet(Places(file'[c], <<q, n>>)) /\ Copies(q, c, n)' \in Nat
             /\ Copies(q, c, n) = 0 <=> Places(file[c], <<q, n>>) = {}
             /\ Copies(q, c, n)' = 0 <=> Places(file'[c], <<q, n>>) = {}
  <2>1. file[c] \in Seq(Record) /\ file'[c] \in Seq(Record)
    BY <1>1, <1>3 DEF Files
  <2>2. Copies(q, c, n) = Cardinality(Places(file[c], <<q, n>>))
        /\ Copies(q, c, n)' = Cardinality(Places(file'[c], <<q, n>>))
    BY DEF Copies, Places
  <2> QED
    BY <2>1, <2>2, PlacesFinite
<1>5. ASSUME NEW q \in Sessions, NEW c \in Boots, NEW n \in 1..MaxSeq
      PROVE  /\ Places(file[c], <<q, n>>) \subseteq Places(file'[c], <<q, n>>)
             /\ q # s \/ c # b \/ n \notin r.lo..r.hi =>
                  Places(file'[c], <<q, n>>) = Places(file[c], <<q, n>>)
             /\ q = s /\ c = b /\ n \in r.lo..r.hi =>
                  Places(file'[c], <<q, n>>) = Places(file[c], <<q, n>>) \cup {Len(file[b]) + (n - r.lo + 1)}
  <2>1. file[b] \in Seq(Record)
    BY <1>1 DEF Files
  <2>2. CASE c = b
    <3> DEFINE g == file[b] \o Records(s, r)
    <3>1. /\ Places(file[b], <<q, n>>) \subseteq Places(g, <<q, n>>)
          /\ q # s \/ n \notin r.lo..r.hi => Places(g, <<q, n>>) = Places(file[b], <<q, n>>)
          /\ q = s /\ n \in r.lo..r.hi =>
               Places(g, <<q, n>>) = Places(file[b], <<q, n>>) \cup {Len(file[b]) + (n - r.lo + 1)}
      BY <2>1, PlacesAfter
    <3>2. file'[c] = g /\ file[c] = file[b]
      BY <1>2, <2>2
    <3> HIDE DEF g
    <3> QED
      BY <2>2, <3>1, <3>2, Zenon
  <2>3. CASE c # b
    BY <1>2, <2>3
  <2> QED
    BY <2>2, <2>3
<1>6. r.lo..r.hi \subseteq 1..MaxSeq
  BY BoundTypes DEF Seqs
<1>7. ASSUME NEW n \in r.lo..r.hi, Copies(s, b, n) = 0
      PROVE  Copies(s, b, n)' = 1
  <2>1. n \in 1..MaxSeq
    BY <1>6
  <2>2. Places(file[b], <<s, n>>) = {}
    BY <1>4, <1>7, <2>1
  <2>3. Places(file'[b], <<s, n>>) = {Len(file[b]) + (n - r.lo + 1)}
    BY <1>5, <1>7, <2>1, <2>2
  <2>4. Copies(s, b, n)' = Cardinality(Places(file'[b], <<s, n>>))
    BY <1>4, <2>1
  <2>5. \A x : Cardinality({x}) = 1
    BY FS_Singleton
  <2> QED
    BY <2>3, <2>4, <2>5
<1>8. ASSUME NEW c \in Boots, NEW n \in 1..MaxSeq, InFile(c, n)
      PROVE  InFile(c, n)'
  <2>1. PICK q \in Sessions : Copies(q, c, n) > 0
    BY <1>8 DEF InFile
  <2>2. Places(file[c], <<q, n>>) # {}
    <3>1. Copies(q, c, n) # 0
      BY <2>1
    <3> QED
      BY <1>4, <3>1, Zenon
  <2>3. Places(file[c], <<q, n>>) \subseteq Places(file'[c], <<q, n>>)
    BY <1>5, Zenon
  <2>4. Places(file'[c], <<q, n>>) # {}
    BY <2>2, <2>3
  <2>5. Copies(q, c, n)' \in Nat /\ Copies(q, c, n)' # 0
    BY <1>4, <2>4, Zenon
  <2>6. Copies(q, c, n)' > 0
    BY <2>5
  <2> QED
    BY <2>6 DEF InFile
<1>9. ASSUME NEW n \in r.lo..r.hi
      PROVE  InFile(b, n)'
  <2>1. n \in 1..MaxSeq
    BY <1>6
  <2>2. Places(file'[b], <<s, n>>) # {}
    BY <1>5, <1>9, <2>1
  <2>3. Copies(s, b, n)' > 0
    BY <1>4, <2>1, <2>2
  <2> QED
    BY <2>3 DEF InFile
<1>10. ASSUME NEW q \in Sessions, NEW c \in Boots, NEW n \in 1..MaxSeq,
              q # s \/ c # b \/ n \notin r.lo..r.hi
       PROVE  Copies(q, c, n)' = Copies(q, c, n)
  <2>1. Places(file'[c], <<q, n>>) = Places(file[c], <<q, n>>)
    BY <1>5, <1>10
  <2> QED
    BY <1>4, <2>1
<1> QED
  BY <1>3, <1>7, <1>8, <1>9, <1>10

(***************************************************************************)
(* Messages.                                                               *)
(***************************************************************************)
Requests == {"read", "read_prev", "ack_prev"}

LEMMA MessageKinds ==
  /\ \A m \in Messages :
       /\ m.kind \in {"nothing", "read", "log", "read_prev", "acked", "prev", "ack_prev"}
       /\ m.kind = "nothing" => m = Nothing
       /\ m.kind = "read" => m.since \in Seqs
       /\ m.kind = "log" => m \in Batches
       /\ m.kind = "prev" => m.slot \in Slots
       /\ m.kind = "ack_prev" => m.boot \in Boots
  /\ Nothing \in Messages /\ Nothing.kind = "nothing"
BY DEF Messages, Nothing, Batches, Boots

LEMMA RequestKinds ==
  /\ \A n \in Seqs : LET m == [kind |-> "read", since |-> n]
                     IN  m \in Messages /\ m.kind = "read" /\ m.since = n
  /\ LET m == [kind |-> "read_prev"] IN m \in Messages /\ m.kind = "read_prev"
  /\ LET m == [kind |-> "acked"] IN m \in Messages /\ m.kind = "acked"
  /\ \A b \in Boots : LET m == [kind |-> "ack_prev", boot |-> b]
                      IN  m \in Messages /\ m.kind = "ack_prev" /\ m.boot = b
  /\ \A r \in Slots : LET m == [kind |-> "prev", slot |-> r]
                      IN  m \in Messages /\ m.kind = "prev" /\ m.slot = r
BY DEF Messages, Boots

LEMMA FirstType ==
  ASSUME TypeOK
  PROVE  First \in 1..(MaxSeq + 1) /\ (newest > 0 => First <= newest)
         /\ newest - First + 1 <= Ring
BY BoundTypes DEF First, TypeOK, Seqs

LEMMA LogBatchProperties ==
  ASSUME TypeOK, NEW since \in Seqs
  PROVE  /\ LogBatch(since) \in Batches /\ LogBatch(since) \in Messages
         /\ LogBatch(since).kind = "log" /\ LogBatch(since).boot = boot
         /\ LogBatch(since).overflow = (LogBatch(since).first > since + 1)
         /\ LogBatch(since).lo = IF since + 1 > LogBatch(since).first THEN since + 1
                                                                      ELSE LogBatch(since).first
<1> DEFINE lo == IF since + 1 > First THEN since + 1 ELSE First
           hi == Least(newest, lo + Batch - 1)
<1>1. lo \in 1..(MaxSeq + 1)
  <2>1. since + 1 \in 1..(MaxSeq + 1)
    BY BoundTypes DEF Seqs
  <2>2. First \in 1..(MaxSeq + 1)
    BY FirstType
  <2> QED
    BY <2>1, <2>2
<1>2. hi \in Seqs
  <2>1. newest \in 0..MaxSeq
    BY DEF TypeOK, Seqs
  <2>2. lo + Batch - 1 \in Nat
    <3> HIDE DEF lo
    <3> QED
      BY <1>1, BoundTypes
  <2> HIDE DEF lo
  <2> QED
    BY <2>1, <2>2, BoundTypes DEF Least, Seqs
<1>3. newest + 1 \in Nat /\ boot \in Boots /\ First \in 1..(MaxSeq + 1) /\ (First > since + 1) \in BOOLEAN
  BY FirstType, BoundTypes DEF TypeOK, Seqs
<1>4. LogBatch(since) = [kind |-> "log", boot |-> boot, first |-> First,
                         overflow |-> First > since + 1, lo |-> lo, hi |-> hi, next |-> newest + 1]
  BY DEF LogBatch
<1>5. lo = IF since + 1 > First THEN since + 1 ELSE First
  OBVIOUS
<1> HIDE DEF lo, hi
<1>6. LogBatch(since) \in Batches
  BY <1>1, <1>2, <1>3, <1>4 DEF Batches
<1> QED
  BY <1>4, <1>5, <1>6 DEF Messages

\* An answer holds the beginning of the slot.
LEMMA PrevType ==
  ASSUME NEW r \in Slots
  PROVE  /\ Prev(r) \in Slots /\ Prev(r).boot = r.boot /\ Prev(r).lo = r.lo
         /\ Prev(r).hi \in Seqs /\ Prev(r).hi <= r.hi
<1>1. r.hi \in Nat /\ r.lo \in Nat /\ r.lo >= 1 /\ r.hi <= MaxSeq
  BY BoundTypes DEF Slots, Seqs
<1>2. Least(r.hi, r.lo + PrevMax - 1) \in Seqs /\ Least(r.hi, r.lo + PrevMax - 1) <= r.hi
  BY <1>1, BoundTypes DEF Least, Seqs
<1> QED
  BY <1>1, <1>2 DEF Prev, Slots

LEMMA RecordOfSlot ==
  ASSUME NEW r \in Slots, NEW n \in r.lo..Prev(r).hi
  PROVE  n \in 1..MaxSeq
<1>1. r.lo \in Nat /\ r.lo >= 1 /\ Prev(r).hi \in Nat /\ Prev(r).hi <= MaxSeq
  BY PrevType, BoundTypes DEF Slots, Seqs
<1> QED
  BY <1>1, BoundTypes

LEMMA SlotType ==
  ASSUME Inv
  PROVE  /\ slot \in Slots /\ Prev(slot) \in Slots /\ Prev(slot).boot = slot.boot
         /\ slot.boot < boot
<1>1. slot \in Slots /\ slot.boot < boot
  BY DEF Inv, DetailOK, TypeOK, Boots
<1> QED
  BY <1>1, PrevType

(***************************************************************************)
(* What a step leaves alone.                                               *)
(***************************************************************************)
\* A poller whose cursor, boot and copies are unchanged has kept its account.
LEMMA AccountKept ==
  ASSUME Inv, TypeOK', NEW s \in Sessions, cursor'[s] = cursor[s], bootId'[s] = bootId[s],
         at'[s] # "over" => at[s] # "over",
         \A b \in Boots, n \in 1..MaxSeq :
           bootId[s] \in {0, b} => Copies(s, b, n)' = Copies(s, b, n),
         overflow \subseteq overflow'
  PROVE  NoCopies(s)' /\ StoredOnce(s)'
<1>1. NoCopies(s)'
  <2>1. NoCopies(s)
    BY DEF Inv, Poller
  <2> QED
    BY <2>1 DEF NoCopies
<1>2. StoredOnce(s)'
  <2>1. SUFFICES ASSUME NEW b \in Boots, NEW n \in 1..MaxSeq, b = bootId[s], at'[s] # "over"
                 PROVE  OnceIn(s, b, n)'
    BY DEF StoredOnce
  <2>2. OnceIn(s, b, n)
    BY <2>1 DEF Inv, Poller, StoredOnce
  <2>3. Copies(s, b, n)' = Copies(s, b, n)
    BY <2>1
  <2> QED
    BY <2>2, <2>3 DEF OnceIn
<1> QED
  BY <1>1, <1>2

\* A poller that does not move, and whose session does not begin, stands as before:
\* its request or its answer may get lost.
LEMMA PollerKept ==
  ASSUME Inv, TypeOK', NEW q \in Sessions,
         at'[q] = at[q], cursor'[q] = cursor[q], bootId'[q] = bootId[q],
         wire'[q] = wire[q] \/ wire'[q] = Nothing,
         wire'[q].kind \in Requests => link' = link,
         link' = q => link = q /\ boot' = boot /\ slot' = slot,
         boot' >= boot, q > session' => q > session,
         \A b \in Boots, n \in 1..MaxSeq :
           /\ Copies(q, b, n)' = Copies(q, b, n)
           /\ InFile(b, n) => InFile(b, n)',
         overflow \subseteq overflow'
  PROVE  Poller(q)'
<1> USE DEF Inv
<1>1. Poller(q) /\ wire[q] \in Messages /\ bootId[q] \in 0..MaxBoot /\ boot \in Nat /\ boot' \in Nat
      /\ slot \in Slots
  BY BoundTypes DEF DetailOK, TypeOK, Boots
<1>2. NoCopies(q)' /\ StoredOnce(q)'
  BY AccountKept
<1>3. Standing(q)'
  BY <1>1 DEF Poller, Standing, Nothing
<1>4. OneBoot(q)'
  <2>1. CASE wire'[q] = Nothing
    BY <1>1, <2>1, MessageKinds DEF Poller, OneBoot
  <2>2. CASE wire'[q] = wire[q]
    <3>1. wire[q].kind = "log" => wire[q].boot \in Nat
      BY <1>1, MessageKinds DEF Batches, Boots
    <3> QED
      BY <1>1, <2>2, <3>1 DEF Poller, OneBoot
  <2> QED
    BY <2>1, <2>2
<1>5. FromCursor(q)'
  BY <1>1, MessageKinds DEF Poller, FromCursor
<1>6. SlotKept(q)'
  <2>1. CASE wire'[q] = Nothing
    BY <2>1, MessageKinds DEF SlotKept
  <2>2. CASE wire'[q] = wire[q] /\ wire[q].kind \notin Requests
    BY <1>1, <2>2 DEF Poller, SlotKept, Requests
  <2>3. CASE wire'[q] = wire[q] /\ wire[q].kind \in {"read", "read_prev"}
    BY <1>1, <2>3 DEF Poller, SlotKept, Requests
  <2>4. CASE wire'[q] = wire[q] /\ wire[q].kind = "ack_prev"
    <3>1. link = q /\ link' = q /\ slot' = slot
      BY <1>1, <2>4 DEF Poller, SlotKept, Requests
    <3>2. wire'[q].boot = slot'.boot
      BY <1>1, <2>4, <3>1 DEF Poller, SlotKept
    <3>3. ASSUME NEW b \in Boots, NEW n \in 1..MaxSeq, b = slot'.boot, n \in slot'.lo..Prev(slot').hi
          PROVE  InFile(b, n)'
      BY <1>1, <2>4, <3>1, <3>3 DEF Poller, SlotKept
    <3> QED
      BY <2>4, <3>1, <3>2, <3>3 DEF SlotKept
  <2> QED
    BY <2>1, <2>2, <2>3, <2>4 DEF Requests
<1> QED
  BY <1>2, <1>3, <1>4, <1>5, <1>6 DEF Poller

LEMMA FilesKept ==
  ASSUME UNCHANGED file
  PROVE  \A b \in Boots, n \in 1..MaxSeq :
           /\ \A q \in Sessions : Copies(q, b, n)' = Copies(q, b, n)
           /\ InFile(b, n) => InFile(b, n)'
BY DEF Copies, InFile

\* When one poller moves, the others stand as before.
LEMMA OthersKept ==
  ASSUME Inv, TypeOK', NEW s \in Sessions, NEW q \in Sessions, q # s,
         UNCHANGED <<boot, link, session>>, slot' = slot \/ link = s,
         at'[q] = at[q], cursor'[q] = cursor[q], bootId'[q] = bootId[q], wire'[q] = wire[q],
         \A b \in Boots, n \in 1..MaxSeq :
           /\ Copies(q, b, n)' = Copies(q, b, n)
           /\ InFile(b, n) => InFile(b, n)',
         overflow \subseteq overflow'
  PROVE  Poller(q)'
<1>1. boot' >= boot
  BY BoundTypes DEF Inv, TypeOK, Boots
<1>2. link' = q => link = q /\ boot' = boot /\ slot' = slot
  OBVIOUS
<1> QED
  BY <1>1, <1>2, PollerKept

(***************************************************************************)
(* The steps.  First those that no poller takes.                           *)
(***************************************************************************)
LEMMA InitInv == Init => Inv
<1> SUFFICES ASSUME Init
             PROVE  Inv
  OBVIOUS
<1> USE BoundTypes
<1>1. slot \in Slots /\ slot.boot = 0
  BY DEF Init, FreeSlot, Slots, Seqs
<1>2. wire \in [Sessions -> Messages]
  BY MessageKinds DEF Init
<1>3. TypeOK
  <2>1. 0 \in Seqs /\ 1 \in Boots /\ 0 \in 0..MaxSession /\ 0 \in 0..MaxBoot
    BY DEF Seqs, Boots
  <2>2. /\ at \in [Sessions -> {"none", "sleep", "over"} \cup Waiting]
        /\ cursor \in [Sessions -> Seqs] /\ bootId \in [Sessions -> 0..MaxBoot]
    BY <2>1 DEF Init
  <2>3. file \in [Boots -> Seq(Record)]
    BY DEF Init
  <2>4. slot.boot \in 0..(boot - 1) /\ link \in 0..session
    BY <1>1 DEF Init
  <2> QED
    BY <2>1, <2>2, <2>3, <2>4 DEF Init, TypeOK, Record
<1>4. ASSUME NEW s \in Sessions
      PROVE  Poller(s)
  <2>1. ASSUME NEW b \in Boots, NEW n \in 1..MaxSeq
        PROVE  Copies(s, b, n) = 0
    <3>1. file[b] = <<>>
      BY DEF Init
    <3>2. {k \in DOMAIN file[b] : file[b][k] = <<s, n>>} = {}
      BY <3>1
    <3> QED
      BY <3>2, FS_EmptySet DEF Copies
  <2>2. wire[s] = Nothing /\ bootId[s] = 0 /\ at[s] = "none" /\ boot = 1 /\ link = 0
    BY DEF Init
  <2>3. NoCopies(s) /\ StoredOnce(s)
    BY <2>1, <2>2 DEF NoCopies, StoredOnce, Boots
  <2> QED
    BY <2>2, <2>3, MessageKinds DEF Poller, Standing, OneBoot, FromCursor, SlotKept, Sessions
<1>5. ReleasedIsStored /\ released = {}
  BY DEF Init, ReleasedIsStored
<1> QED
  BY <1>1, <1>2, <1>3, <1>4, <1>5 DEF Inv, DetailOK

LEMMA ReleasedKept ==
  ASSUME Inv, UNCHANGED released,
         \A b \in Boots, n \in 1..MaxSeq : InFile(b, n) => InFile(b, n)'
  PROVE  ReleasedIsStored'
<1>1. \A r \in released : r \in Slots /\ r.boot \in Boots
  BY BoundTypes DEF Inv, TypeOK, Slots, Boots
<1>2. ASSUME NEW r \in released, NEW n \in r.lo..Prev(r).hi
      PROVE  InFile(r.boot, n)'
  BY <1>1, <1>2, RecordOfSlot DEF Inv, ReleasedIsStored
<1> QED
  BY <1>2 DEF ReleasedIsStored

\* The request or the answer of a session that is cut off.
LEMMA CutWire ==
  ASSUME Inv, Cut
  PROVE  /\ link' = 0 /\ wire' \in [Sessions -> Messages]
         /\ \A q \in Sessions : /\ wire'[q] = wire[q] \/ wire'[q] = Nothing
                                /\ wire'[q].kind \notin Requests
BY MessageKinds DEF Cut, Inv, DetailOK, Requests

LEMMA LogStep ==
  ASSUME Inv, Log \/ Disconnect
  PROVE  Inv'
<1>1. TypeOK' /\ DetailOK'
  <2>1. newest' \in Seqs /\ online' \in BOOLEAN
    <3>1. newest \in Seqs /\ online \in BOOLEAN
      BY DEF Inv, TypeOK
    <3>2. CASE Log
      BY <3>1, <3>2, BoundTypes DEF Log, connection, Seqs
    <3>3. CASE Disconnect
      BY <3>1, <3>3 DEF Disconnect, device
    <3> QED
      BY <3>2, <3>3
  <2>2. UNCHANGED <<boot, slot, released, link, session, at, cursor, bootId, wire, file, overflow>>
    BY DEF Log, Disconnect, device, connection, store
  <2> QED
    BY <2>1, <2>2 DEF Inv, TypeOK, DetailOK
<1>2. UNCHANGED <<boot, slot, released, link, session, at, cursor, bootId, wire, file, overflow>>
  BY DEF Log, Disconnect, device, connection, store
<1>3. \A q \in Sessions : Poller(q)'
  <2>1. boot' >= boot
    BY <1>2, BoundTypes DEF Inv, TypeOK, Boots
  <2> QED
    BY <1>1, <1>2, <2>1, FilesKept, PollerKept
<1>4. ReleasedIsStored'
  BY <1>2, FilesKept, ReleasedKept
<1> QED
  BY <1>1, <1>3, <1>4 DEF Inv

LEMMA CutStep ==
  ASSUME Inv, Reboot \/ LinkLost
  PROVE  Inv'
<1> USE BoundTypes
<1>1. Cut /\ UNCHANGED <<released, session, online, at, cursor, bootId, file, overflow>>
  BY DEF Reboot, LinkLost, device, store
<1>2. boot' \in Boots /\ boot' >= boot /\ newest' \in Seqs
  BY SMTT(30) DEF Reboot, LinkLost, device, Inv, TypeOK, Boots, Seqs
<1>3. slot' \in Slots /\ slot'.boot \in 0..(boot' - 1)
  <2>1. CASE slot' = slot
    <3>1. slot.boot \in 0..(boot - 1) /\ boot \in Nat
      BY DEF Inv, TypeOK, Boots
    <3>2. slot.boot \in 0..(boot' - 1)
      BY <1>2, <3>1 DEF Boots
    <3> QED
      BY <2>1, <3>2 DEF Inv, DetailOK
  <2>2. CASE slot' # slot
    <3>1. Reboot /\ newest > 0 /\ slot' = [boot |-> boot, lo |-> First, hi |-> newest]
      BY <2>2 DEF Reboot, LinkLost, device
    <3>2. First \in 1..(MaxSeq + 1) /\ newest \in Seqs /\ boot \in 0..MaxBoot
      BY FirstType DEF Inv, TypeOK, Boots
    <3>3. slot' \in Slots /\ slot'.hi = newest /\ slot'.lo = First /\ slot'.boot = boot
      BY <3>1, <3>2 DEF Slots
    <3>4. boot' = boot + 1
      BY <3>1 DEF Reboot
    <3> QED
      BY <3>2, <3>3, <3>4
  <2> QED
    BY <2>1, <2>2
<1>4. TypeOK' /\ DetailOK'
  <2>1. link' \in 0..session'
    BY <1>1, CutWire DEF Inv, TypeOK
  <2> QED
    BY <1>1, <1>2, <1>3, <2>1, CutWire DEF Inv, TypeOK, DetailOK
<1>5. \A q \in Sessions : Poller(q)'
  <2> TAKE q \in Sessions
  <2>1. link' # q
    BY <1>1 DEF Cut, Sessions
  <2> QED
    BY <1>1, <1>2, <1>4, <2>1, CutWire, FilesKept, PollerKept
<1>6. ReleasedIsStored'
  BY <1>1, FilesKept, ReleasedKept
<1> QED
  BY <1>4, <1>5, <1>6 DEF Inv

LEMMA ConnectStep ==
  ASSUME Inv, Connect
  PROVE  Inv'
<1> USE BoundTypes
<1>1. /\ session \in 0..MaxSession /\ link = 0
      /\ session' = session + 1 /\ link' = session' /\ session' \in Sessions
      /\ UNCHANGED <<device, cursor, bootId, wire, file, overflow>>
  BY DEF Connect, Inv, TypeOK, Sessions, store
<1>2. TypeOK' /\ DetailOK'
  <2>1. at' \in [Sessions -> {"none", "sleep", "over"} \cup Waiting]
    BY <1>1 DEF Connect, Inv, TypeOK
  <2>2. session' \in 0..MaxSession /\ link' \in 0..session' /\ online' \in BOOLEAN
    BY <1>1 DEF Connect, Sessions
  <2> QED
    BY <1>1, <2>1, <2>2 DEF device, Inv, TypeOK, DetailOK
<1>3. ASSUME NEW q \in Sessions, q # session'
      PROVE  Poller(q)'
  <2>1. at'[q] = at[q]
    BY <1>3 DEF Connect, Inv, TypeOK
  <2>2. wire'[q].kind \notin Requests
    <3>1. link # q
      BY <1>1 DEF Sessions
    <3> QED
      BY <1>1, <3>1 DEF Inv, Poller, SlotKept, Requests
  <2>3. boot' >= boot /\ (q > session' => q > session)
    BY <1>1 DEF device, Inv, TypeOK, Boots, Sessions
  <2> QED
    BY <1>1, <1>2, <1>3, <2>1, <2>2, <2>3, FilesKept, PollerKept DEF device
<1>4. ASSUME NEW s \in Sessions, s = session'
      PROVE  Poller(s)'
  <2>1. s > session /\ link' = s /\ session' = s
    BY <1>1, <1>4
  <2>2. wire[s] = Nothing /\ bootId[s] = 0 /\ at[s] = "none"
    BY <2>1 DEF Inv, Poller, Standing
  <2>3. wire'[s] = Nothing /\ bootId'[s] = 0 /\ at'[s] = "sleep"
    BY <1>1, <2>1, <2>2 DEF Connect, Inv, TypeOK
  <2>4. NoCopies(s)' /\ StoredOnce(s)'
    BY <1>1, <1>2, <2>1, <2>2, <2>3, FilesKept, AccountKept
  <2>5. Standing(s)'
    BY <2>1, <2>3 DEF Standing, Sessions
  <2>6. OneBoot(s)' /\ FromCursor(s)' /\ SlotKept(s)'
    BY <1>2, <2>3, MessageKinds DEF OneBoot, FromCursor, SlotKept, TypeOK, Boots
  <2> QED
    BY <2>4, <2>5, <2>6 DEF Poller
<1>5. ReleasedIsStored'
  BY <1>1, FilesKept, ReleasedKept DEF device
<1> QED
  BY <1>2, <1>3, <1>4, <1>5 DEF Inv

(***************************************************************************)
(* The steps of one poller, and the answers it is given.                   *)
(***************************************************************************)
\* The step of the poller of session s: it touches nothing of the others.
Moves(s) ==
  /\ \E a \in {"sleep", "over"} \cup Waiting : at' = [at EXCEPT ![s] = a]
  /\ \E m \in Messages : wire' = [wire EXCEPT ![s] = m]
  /\ \E c \in Seqs : cursor' = [cursor EXCEPT ![s] = c]
  /\ \E b \in 0..MaxBoot : bootId' = [bootId EXCEPT ![s] = b]
  /\ UNCHANGED <<device, connection>>
  /\ file' \in Files
  /\ overflow \subseteq overflow' /\ overflow' \subseteq Boots \X Seqs
  /\ \A b \in Boots, n \in 1..MaxSeq :
       /\ \A q \in Sessions : q # s => Copies(q, b, n)' = Copies(q, b, n)
       /\ InFile(b, n) => InFile(b, n)'

LEMMA MoveTypes ==
  ASSUME Inv, NEW s \in Sessions, Moves(s)
  PROVE  /\ TypeOK' /\ DetailOK'
         /\ UNCHANGED <<boot, newest, slot, released, link, session, online>>
<1>1. UNCHANGED <<boot, newest, slot, released, link, session, online>>
  BY DEF Moves, device, connection
<1>2. /\ at' \in [Sessions -> {"none", "sleep", "over"} \cup Waiting]
      /\ cursor' \in [Sessions -> Seqs] /\ bootId' \in [Sessions -> 0..MaxBoot]
  BY DEF Moves, Inv, TypeOK
<1>3. wire' \in [Sessions -> Messages]
  BY DEF Moves, Inv, DetailOK
<1>4. file' \in [Boots -> Seq(Sessions \X (1..MaxSeq))] /\ overflow' \subseteq Boots \X Seqs
  BY DEF Moves, Files, Record
<1> QED
  BY <1>1, <1>2, <1>3, <1>4 DEF Inv, TypeOK, DetailOK

LEMMA MoveInv ==
  ASSUME Inv, NEW s \in Sessions, Moves(s), Poller(s)'
  PROVE  Inv'
<1>1. /\ TypeOK' /\ DetailOK'
      /\ UNCHANGED <<boot, slot, released, link, session>>
  BY MoveTypes
<1>2. ASSUME NEW q \in Sessions, q # s
      PROVE  Poller(q)'
  <2>1. at'[q] = at[q] /\ cursor'[q] = cursor[q] /\ bootId'[q] = bootId[q]
    BY <1>2 DEF Moves, Inv, TypeOK
  <2>2. wire'[q] = wire[q]
    BY <1>2 DEF Moves, Inv, DetailOK
  <2>3. \A b \in Boots, n \in 1..MaxSeq :
          /\ Copies(q, b, n)' = Copies(q, b, n)
          /\ InFile(b, n) => InFile(b, n)'
    BY <1>2 DEF Moves
  <2>4. overflow \subseteq overflow'
    BY DEF Moves
  <2> QED
    BY <1>1, <1>2, <2>1, <2>2, <2>3, <2>4, OthersKept
<1>3. ReleasedIsStored'
  <2>1. \A b \in Boots, n \in 1..MaxSeq : InFile(b, n) => InFile(b, n)'
    BY DEF Moves
  <2> QED
    BY <1>1, <2>1, ReleasedKept
<1> QED
  BY <1>1, <1>2, <1>3 DEF Inv

\* The poller asks for the log, waits no more, or sleeps: nothing is stored.
LEMMA RestStep ==
  ASSUME Inv, NEW s \in Sessions, NEW a \in {"sleep", "over", "log"}, NEW m \in Messages,
         at' = [at EXCEPT ![s] = a], wire' = [wire EXCEPT ![s] = m],
         UNCHANGED <<device, connection, cursor, bootId, store>>,
         at[s] # "none", a # "over" => at[s] # "over",
         \/ m = Nothing
         \/ m = [kind |-> "read", since |-> cursor[s]] /\ link = s /\ a = "log"
  PROVE  Inv'
<1>1. cursor[s] \in Seqs /\ bootId[s] \in 0..MaxBoot /\ boot \in Nat
  BY BoundTypes DEF Inv, TypeOK, Boots
<1>2. Moves(s)
  <2>1. cursor' = [cursor EXCEPT ![s] = cursor[s]] /\ bootId' = [bootId EXCEPT ![s] = bootId[s]]
    BY DEF Inv, TypeOK
  <2>2. file' \in Files /\ overflow' \subseteq Boots \X Seqs /\ overflow \subseteq overflow'
    BY DEF store, Inv, TypeOK, Files, Record
  <2>3. a \in {"sleep", "over"} \cup Waiting
    BY DEF Waiting
  <2> QED
    BY <1>1, <2>1, <2>2, <2>3, FilesKept DEF Moves, store
<1>3. at'[s] = a /\ wire'[s] = m /\ UNCHANGED <<link, session, boot, slot>>
  BY DEF device, connection, Inv, TypeOK, DetailOK
<1>4. NoCopies(s)' /\ StoredOnce(s)'
  BY <1>2, <1>3, FilesKept, AccountKept, MoveTypes DEF store
<1>5. Standing(s)'
  <2>1. ~(s > session)
    BY DEF Inv, Poller, Standing
  <2>2. m # Nothing => Stage(m) = a
    BY DEF Stage
  <2> QED
    BY <1>3, <2>1, <2>2 DEF Standing
<1>6. OneBoot(s)' /\ FromCursor(s)' /\ SlotKept(s)'
  <2>1. m.kind \in {"nothing", "read"} /\ (m.kind = "read" => m.since = cursor[s] /\ link = s)
    BY <1>1, MessageKinds, RequestKinds
  <2>2. bootId[s] <= boot /\ (link = s => bootId[s] \in {0, boot})
    BY DEF Inv, Poller, OneBoot
  <2> QED
    BY <1>3, <2>1, <2>2 DEF OneBoot, FromCursor, SlotKept
<1> QED
  BY <1>2, <1>4, <1>5, <1>6, MoveInv DEF Poller

LEMMA PollStep ==
  ASSUME Inv, NEW s \in Sessions, Poll(s)
  PROVE  Inv'
<1>1. at[s] = "sleep" /\ UNCHANGED <<device, connection, cursor, bootId, store>>
  BY DEF Poll
<1>2. CASE online /\ s = session
  <2> DEFINE m == IF link = s THEN [kind |-> "read", since |-> cursor[s]] ELSE Nothing
  <2>1. at' = [at EXCEPT ![s] = "log"] /\ wire' = [wire EXCEPT ![s] = m]
    BY <1>2 DEF Poll, Send
  <2>2. m = Nothing \/ (m = [kind |-> "read", since |-> cursor[s]] /\ link = s)
    OBVIOUS
  <2>3. m \in Messages
    <3>1. cursor[s] \in Seqs
      BY DEF Inv, TypeOK
    <3> QED
      BY <3>1, RequestKinds, MessageKinds
  <2> HIDE DEF m
  <2> QED
    BY <1>1, <2>1, <2>2, <2>3, RestStep
<1>3. CASE ~(online /\ s = session)
  <2>1. at' = [at EXCEPT ![s] = "over"] /\ wire' = wire
    BY <1>3 DEF Poll
  <2>2. wire[s] = Nothing
    BY <1>1 DEF Inv, Poller, Standing, Stage
  <2>3. wire' = [wire EXCEPT ![s] = Nothing]
    BY <2>1, <2>2 DEF Inv, DetailOK
  <2> QED
    BY <1>1, <2>1, <2>3, RestStep, MessageKinds
<1> QED
  BY <1>2, <1>3

LEMMA TimeoutStep ==
  ASSUME Inv, NEW s \in Sessions, Timeout(s)
  PROVE  Inv'
<1> DEFINE a == IF at[s] = "log" THEN "over" ELSE "sleep"
<1>1. at' = [at EXCEPT ![s] = a] /\ wire' = [wire EXCEPT ![s] = Nothing]
      /\ at[s] \in Waiting /\ UNCHANGED <<device, connection, cursor, bootId, store>>
  BY DEF Timeout
<1>2. a \in {"sleep", "over", "log"} /\ at[s] \notin {"none", "over"}
  BY <1>1 DEF Waiting
<1> HIDE DEF a
<1> QED
  BY <1>1, <1>2, RestStep, MessageKinds

LEMMA AckedStep ==
  ASSUME Inv, NEW s \in Sessions, PrevAcked(s)
  PROVE  Inv'
BY RestStep, MessageKinds DEF PrevAcked

\* The device answers, and keeps what it has.
LEMMA AnswerStep ==
  ASSUME Inv, NEW s \in Sessions, DeviceAnswers(s), AnswerRead(s) \/ AnswerPrev(s)
  PROVE  Inv'
<1>1. /\ link = s /\ UNCHANGED <<device, connection, at, cursor, bootId, file, overflow>>
      /\ UNCHANGED <<link, session, boot, slot>>
  BY DEF DeviceAnswers, AnswerRead, AnswerPrev, device, connection, store
<1>2. wire[s] \in Messages /\ cursor[s] \in Seqs /\ bootId[s] \in 0..MaxBoot /\ wire[s] # Nothing
  BY MessageKinds DEF AnswerRead, AnswerPrev, Inv, TypeOK, DetailOK
<1>3. at[s] = Stage(wire[s]) /\ at[s] \in Waiting
  BY <1>2 DEF AnswerRead, AnswerPrev, Inv, Poller, Standing, Stage, Waiting
<1>4. ~(s > session)
  BY <1>2 DEF Inv, Poller, Standing
<1>5. ASSUME NEW m \in Messages, wire' = [wire EXCEPT ![s] = m]
      PROVE  Moves(s) /\ wire'[s] = m
  <2>1. /\ at' = [at EXCEPT ![s] = at[s]] /\ cursor' = [cursor EXCEPT ![s] = cursor[s]]
        /\ bootId' = [bootId EXCEPT ![s] = bootId[s]]
    BY <1>1 DEF Inv, TypeOK
  <2>2. file' \in Files /\ overflow' \subseteq Boots \X Seqs /\ overflow \subseteq overflow'
    BY <1>1 DEF Inv, TypeOK, Files, Record
  <2>3. wire'[s] = m
    BY <1>5 DEF Inv, DetailOK
  <2> QED
    BY <1>1, <1>2, <1>3, <1>5, <2>1, <2>2, <2>3, FilesKept DEF Moves
<1>6. NoCopies(s)' /\ StoredOnce(s)'
  <2>1. TypeOK'
    <3>1. PICK m \in Messages : wire' = [wire EXCEPT ![s] = m]
      <4>1. CASE AnswerRead(s)
        BY <1>2, <4>1, LogBatchProperties, MessageKinds DEF AnswerRead, Inv
      <4>2. CASE AnswerPrev(s)
        BY <4>2, SlotType, RequestKinds DEF AnswerPrev
      <4> QED
        BY <4>1, <4>2
    <3> QED
      BY <1>5, <3>1, MoveTypes
  <2> QED
    BY <1>1, <2>1, FilesKept, AccountKept
<1>7. bootId[s] <= boot /\ bootId[s] \in {0, boot} /\ boot \in Nat
  BY <1>1, BoundTypes DEF Inv, Poller, OneBoot, TypeOK, Boots
<1>8. CASE AnswerRead(s)
  <2> DEFINE m == LogBatch(wire[s].since)
  <2>1. wire[s].kind = "read" /\ wire[s].since = cursor[s] /\ wire' = [wire EXCEPT ![s] = m]
    BY <1>8 DEF AnswerRead, Inv, Poller, FromCursor
  <2>2. /\ m \in Messages /\ m.kind = "log" /\ m.boot = boot
        /\ m.overflow = (m.first > cursor[s] + 1)
        /\ m.lo = IF cursor[s] + 1 > m.first THEN cursor[s] + 1 ELSE m.first
    BY <1>2, <2>1, LogBatchProperties DEF Inv
  <2> HIDE DEF m
  <2>3. Moves(s) /\ wire'[s] = m
    BY <1>5, <2>1, <2>2
  <2>4. Standing(s)'
    <3>1. at[s] = "log"
      BY <1>3, <2>1 DEF Stage
    <3> QED
      BY <1>1, <1>4, <2>2, <2>3, <3>1 DEF Standing, Stage
  <2>5. OneBoot(s)' /\ FromCursor(s)' /\ SlotKept(s)'
    BY <1>1, <1>7, <2>2, <2>3 DEF OneBoot, FromCursor, SlotKept
  <2> QED
    BY <1>6, <2>3, <2>4, <2>5, MoveInv DEF Poller
<1>9. CASE AnswerPrev(s)
  <2> DEFINE m == [kind |-> "prev", slot |-> Prev(slot)]
  <2>1. wire[s].kind = "read_prev" /\ wire' = [wire EXCEPT ![s] = m]
    BY <1>9 DEF AnswerPrev
  <2>2. m \in Messages /\ m.kind = "prev" /\ m.slot = Prev(slot)
    BY SlotType, RequestKinds
  <2> HIDE DEF m
  <2>3. Moves(s) /\ wire'[s] = m
    BY <1>5, <2>1, <2>2
  <2>4. at[s] = "prev"
    BY <1>3, <2>1 DEF Stage
  <2>5. bootId[s] # 0
    BY <2>4 DEF Inv, Poller, Standing
  <2>6. Standing(s)'
    BY <1>1, <1>4, <2>2, <2>3, <2>4, <2>5 DEF Standing, Stage
  <2>7. slot.boot < bootId[s]
    BY <1>7, <2>5, SlotType
  <2>8. OneBoot(s)' /\ FromCursor(s)' /\ SlotKept(s)'
    <3>1. m.slot.boot = slot.boot /\ Prev(slot)' = Prev(slot)
      BY <1>1, <2>2, SlotType DEF Prev
    <3> QED
      BY <1>1, <1>7, <2>2, <2>3, <2>7, <3>1 DEF OneBoot, FromCursor, SlotKept
  <2> QED
    BY <1>6, <2>3, <2>6, <2>8, MoveInv DEF Poller
<1> QED
  BY <1>8, <1>9

\* The device frees its slot: what was in it is in the file of its boot.
LEMMA ReleaseStep ==
  ASSUME Inv, NEW s \in Sessions, DeviceAnswers(s), AnswerAck(s)
  PROVE  Inv'
<1> DEFINE m == [kind |-> "acked"]
<1>1. /\ link = s /\ UNCHANGED <<boot, newest, link, session, online, at, cursor, bootId, file, overflow>>
      /\ wire[s].kind = "ack_prev" /\ wire' = [wire EXCEPT ![s] = m]
  BY DEF DeviceAnswers, AnswerAck, connection, store
<1>2. m \in Messages /\ m.kind = "acked"
  BY RequestKinds
<1> HIDE DEF m
<1>3. wire[s] \in Messages /\ wire[s] # Nothing /\ wire[s].boot = slot.boot /\ slot.boot \in Boots
  BY <1>1, MessageKinds DEF Inv, DetailOK, Poller, SlotKept
<1>4. slot' = FreeSlot /\ released' = released \cup {slot}
  BY <1>3 DEF DeviceAnswers, AnswerAck
<1>5. slot' \in Slots /\ slot'.boot = 0
  BY <1>4, BoundTypes DEF FreeSlot, Slots, Seqs
<1>6. slot \in Slots /\ slot.boot # 0
  BY <1>3, BoundTypes DEF Inv, DetailOK, Boots
<1>7. wire' \in [Sessions -> Messages] /\ wire'[s] = m
      /\ \A q \in Sessions : q # s => wire'[q] = wire[q]
  BY <1>1, <1>2 DEF Inv, DetailOK
<1>8. released' \subseteq {r \in Slots : r.boot # 0}
  BY <1>4, <1>6 DEF Inv, TypeOK
<1>9. TypeOK' /\ DetailOK'
  <2>1. slot'.boot \in 0..(boot - 1)
    BY <1>5, BoundTypes DEF Inv, TypeOK, Boots
  <2> QED
    BY <1>1, <1>5, <1>7, <1>8, <2>1 DEF Inv, TypeOK, DetailOK
<1>10. ASSUME NEW q \in Sessions, q # s
       PROVE  Poller(q)'
  BY <1>1, <1>7, <1>9, <1>10, FilesKept, OthersKept
<1>11. Poller(s)'
  <2>1. NoCopies(s)' /\ StoredOnce(s)'
    BY <1>1, <1>9, FilesKept, AccountKept
  <2>2. Poller(s) /\ at[s] = "ack" /\ ~(s > session)
    BY <1>1, <1>3 DEF Inv, Poller, Standing, Stage
  <2>3. Standing(s)'
    BY <1>1, <1>2, <1>7, <2>2 DEF Poller, Standing, Stage
  <2>4. OneBoot(s)' /\ FromCursor(s)' /\ SlotKept(s)'
    BY <1>1, <1>2, <1>7, <2>2 DEF Poller, OneBoot, FromCursor, SlotKept
  <2> QED
    BY <2>1, <2>3, <2>4 DEF Poller
<1>12. ReleasedIsStored'
  <2>1. \A b \in Boots, n \in 1..MaxSeq : InFile(b, n)' = InFile(b, n)
    BY <1>1 DEF InFile, Copies
  <2>2. ASSUME NEW r \in released', NEW n \in r.lo..Prev(r).hi
        PROVE  InFile(r.boot, n)'
    <3>1. r \in Slots /\ r.boot \in Boots /\ n \in 1..MaxSeq
      BY <1>8, <2>2, RecordOfSlot, BoundTypes DEF Slots, Boots
    <3>2. InFile(r.boot, n)
      <4>1. CASE r \in released
        BY <2>2, <4>1 DEF Inv, ReleasedIsStored
      <4>2. CASE r = slot
        BY <1>1, <2>2, <3>1, <4>2 DEF Inv, Poller, SlotKept
      <4> QED
        BY <1>4, <2>2, <4>1, <4>2
    <3> QED
      BY <2>1, <3>1, <3>2
  <2> QED
    BY <2>2 DEF ReleasedIsStored
<1> QED
  BY <1>9, <1>10, <1>11, <1>12 DEF Inv

\* The poller learns its boot: it starts at 0, with nothing stored.
LEMMA NewBootStep ==
  ASSUME Inv, NEW s \in Sessions, NewBoot(s)
  PROVE  Inv'
<1> DEFINE b == wire[s].boot
           m == IF link = s THEN [kind |-> "read_prev"] ELSE Nothing
<1>1. /\ at[s] = "log" /\ wire[s].kind = "log" /\ b # bootId[s]
      /\ bootId' = [bootId EXCEPT ![s] = b] /\ cursor' = [cursor EXCEPT ![s] = 0]
      /\ at' = [at EXCEPT ![s] = "prev"] /\ wire' = [wire EXCEPT ![s] = m]
      /\ UNCHANGED <<device, connection, store>>
  BY DEF NewBoot, Send
<1>2. b \in Boots /\ bootId[s] = 0 /\ b <= boot /\ (link = s => b = boot)
  BY <1>1, MessageKinds DEF Inv, DetailOK, Poller, OneBoot, Batches
<1>3. m \in Messages /\ m.kind \in {"nothing", "read_prev"} /\ (m.kind = "read_prev" => link = s)
      /\ (m # Nothing => m.kind = "read_prev")
  BY RequestKinds, MessageKinds
<1> HIDE DEF b, m
<1>4. Moves(s)
  <2>1. file' \in Files /\ overflow' \subseteq Boots \X Seqs /\ overflow \subseteq overflow'
    BY <1>1 DEF store, Inv, TypeOK, Files, Record
  <2>2. "prev" \in {"sleep", "over"} \cup Waiting /\ 0 \in Seqs /\ b \in 0..MaxBoot
    BY <1>2, BoundTypes DEF Waiting, Seqs, Boots
  <2> QED
    BY <1>1, <1>3, <2>1, <2>2, FilesKept DEF Moves, store
<1>5. /\ at'[s] = "prev" /\ wire'[s] = m /\ cursor'[s] = 0 /\ bootId'[s] = b
      /\ UNCHANGED <<link, session, boot, slot>>
  BY <1>1 DEF device, connection, Inv, TypeOK, DetailOK
<1>6. Poller(s) /\ ~(s > session) /\ b # 0
  BY <1>1, <1>2 DEF Inv, Poller, Standing, Boots
<1>7. NoCopies(s)' /\ StoredOnce(s)'
  <2>1. NoCopies(s)'
    BY <1>5, <1>6 DEF NoCopies
  <2>2. ASSUME NEW c \in Boots, NEW n \in 1..MaxSeq, c = b
        PROVE  OnceIn(s, c, n)'
    <3>1. Copies(s, c, n) = 0
      BY <1>2, <1>6 DEF Poller, NoCopies
    <3>2. Copies(s, c, n)' = 0
      BY <1>1, <3>1, FilesKept DEF store
    <3>3. ~(n <= 0)
      OBVIOUS
    <3> QED
      BY <1>5, <3>2, <3>3 DEF OnceIn
  <2>3. StoredOnce(s)'
    BY <1>5, <2>2 DEF StoredOnce
  <2> QED
    BY <2>1, <2>3
<1>8. Standing(s)'
  BY <1>3, <1>5, <1>6 DEF Standing, Stage
<1>9. OneBoot(s)' /\ FromCursor(s)' /\ SlotKept(s)'
  BY <1>2, <1>3, <1>5 DEF OneBoot, FromCursor, SlotKept
<1> QED
  BY <1>4, <1>7, <1>8, <1>9, MoveInv DEF Poller

\* A poller that is over, or back at sleep with its cursor, and has asked for nothing.
LEMMA IdlePoller ==
  ASSUME Inv, NEW s \in Sessions, at[s] # "none", at'[s] \in {"sleep", "over"}, wire'[s] = Nothing,
         bootId'[s] = bootId[s], UNCHANGED <<link, session, boot, slot>>
  PROVE  Standing(s)' /\ OneBoot(s)' /\ FromCursor(s)' /\ SlotKept(s)'
<1>1. Poller(s)
  BY DEF Inv
<1>2. Standing(s)'
  BY <1>1 DEF Poller, Standing
<1> QED
  BY <1>1, <1>2, MessageKinds DEF Poller, OneBoot, FromCursor, SlotKept

\* What a batch adds lies above the cursor; what it jumps over is announced.
LEMMA StoreBatchStep ==
  ASSUME Inv, NEW s \in Sessions, StoreBatch(s)
  PROVE  Inv'
<1> USE BoundTypes
<1>1. PICK m \in Batches : m = wire[s]
  BY MessageKinds DEF StoreBatch, Inv, DetailOK
<1>2. PICK c : c = IF m.lo <= m.hi THEN m.hi ELSE cursor[s]
  OBVIOUS
<1>3. /\ at[s] = "log" /\ wire[s].kind = "log" /\ m.boot = bootId[s]
      /\ overflow' = IF m.overflow
                       THEN overflow \cup {<<m.boot, n>> : n \in (cursor[s] + 1)..(m.first - 1)}
                       ELSE overflow
      /\ LogStore(s, m.boot, m)
      /\ cursor' = [cursor EXCEPT ![s] = c]
      /\ at' = [at EXCEPT ![s] = "sleep"] /\ wire' = [wire EXCEPT ![s] = Nothing]
      /\ UNCHANGED <<device, connection, bootId>>
  BY <1>1, <1>2 DEF StoreBatch, NewCursor
<1>4. m.boot \in Boots /\ m.lo \in 1..(MaxSeq + 1) /\ m.hi \in Seqs /\ m.first \in 1..(MaxSeq + 1)
  BY DEF Batches
<1>5. /\ m.lo = IF cursor[s] + 1 > m.first THEN cursor[s] + 1 ELSE m.first
      /\ m.overflow = (m.first > cursor[s] + 1)
  BY <1>1, <1>3 DEF Inv, Poller, FromCursor
<1>6. cursor[s] \in Seqs /\ bootId[s] \in 0..MaxBoot
  BY DEF Inv, TypeOK
<1>7. c \in Seqs
  BY <1>2, <1>4, <1>6
<1>8. overflow \subseteq overflow' /\ overflow' \subseteq Boots \X Seqs
  <2>1. (cursor[s] + 1)..(m.first - 1) \subseteq Seqs
    BY <1>4, <1>6 DEF Seqs
  <2> QED
    BY <1>3, <1>4, <2>1 DEF Inv, TypeOK
<1>9. /\ file' \in Files
      /\ \A q \in Sessions, b \in Boots, n \in 1..MaxSeq :
           q # s \/ b # m.boot \/ n \notin m.lo..m.hi => Copies(q, b, n)' = Copies(q, b, n)
      /\ \A n \in m.lo..m.hi : Copies(s, m.boot, n) = 0 => Copies(s, m.boot, n)' = 1
      /\ \A b \in Boots, n \in 1..MaxSeq : InFile(b, n) => InFile(b, n)'
  BY <1>3, <1>4, Stored DEF Inv
<1>10. Moves(s)
  <2>1. bootId' = [bootId EXCEPT ![s] = bootId[s]]
    BY <1>3 DEF Inv, TypeOK
  <2>2. \A b \in Boots, n \in 1..MaxSeq :
          /\ \A q \in Sessions : q # s => Copies(q, b, n)' = Copies(q, b, n)
          /\ InFile(b, n) => InFile(b, n)'
    BY <1>9
  <2>3. "sleep" \in {"sleep", "over"} \cup Waiting /\ Nothing \in Messages
    BY MessageKinds
  <2> QED
    BY <1>3, <1>6, <1>7, <1>8, <1>9, <2>1, <2>2, <2>3 DEF Moves
<1>11. /\ at'[s] = "sleep" /\ wire'[s] = Nothing /\ cursor'[s] = c /\ bootId'[s] = bootId[s]
       /\ UNCHANGED <<link, session, boot, slot>>
  BY <1>3 DEF device, connection, Inv, TypeOK, DetailOK
<1>12. Standing(s)' /\ OneBoot(s)' /\ FromCursor(s)' /\ SlotKept(s)'
  BY <1>3, <1>11, IdlePoller
<1>13. NoCopies(s)'
  BY <1>3, <1>4, <1>11 DEF NoCopies, Boots
<1>14. StoredOnce(s)'
  <2>1. SUFFICES ASSUME NEW n \in 1..MaxSeq
                 PROVE  OnceIn(s, m.boot, n)'
    BY <1>3, <1>11 DEF StoredOnce
  <2>2. OnceIn(s, m.boot, n)
    BY <1>3, <1>4 DEF Inv, Poller, StoredOnce
  <2>3. cursor[s] \in Nat /\ m.lo \in Nat /\ m.hi \in Nat /\ m.first \in Nat /\ n \in Nat
        /\ m.lo > cursor[s]
    BY <1>4, <1>5, <1>6 DEF Seqs
  <2>4. CASE n \in m.lo..m.hi
    <3>1. c = m.hi /\ n <= c /\ ~(n <= cursor[s])
      BY <1>2, <2>3, <2>4
    <3>2. Copies(s, m.boot, n) = 0
      BY <2>2, <3>1 DEF OnceIn
    <3>3. Copies(s, m.boot, n)' = 1
      BY <1>9, <2>4, <3>2
    <3> QED
      BY <1>11, <3>1, <3>3 DEF OnceIn
  <2>5. CASE n \notin m.lo..m.hi
    <3>1. Copies(s, m.boot, n)' = Copies(s, m.boot, n)
      BY <1>4, <1>9, <2>5
    <3>2. CASE n <= cursor[s]
      <4>1. n <= c
        BY <1>2, <2>3, <3>2
      <4> QED
        BY <1>8, <1>11, <2>2, <3>1, <3>2, <4>1 DEF OnceIn
    <3>3. CASE n > cursor[s] /\ n <= c
      <4>1. m.lo <= m.hi /\ n < m.lo
        <5>1. m.lo <= m.hi
          BY <1>2, <2>3, <3>3
        <5>2. n <= m.hi
          BY <1>2, <3>3, <5>1
        <5> QED
          BY <2>3, <2>5, <5>1, <5>2
      <4>2. m.overflow /\ n \in (cursor[s] + 1)..(m.first - 1)
        <5>1. m.lo = m.first /\ m.first > cursor[s] + 1
          BY <1>5, <2>3, <3>3, <4>1
        <5>2. m.overflow
          BY <1>5, <5>1
        <5> QED
          BY <2>3, <3>3, <4>1, <5>1, <5>2
      <4>3. <<m.boot, n>> \in overflow'
        BY <1>3, <4>2
      <4>4. Copies(s, m.boot, n) = 0
        BY <2>2, <2>3, <3>3 DEF OnceIn
      <4> QED
        BY <1>11, <3>1, <3>3, <4>3, <4>4 DEF OnceIn
    <3>4. CASE n > cursor[s] /\ n > c
      <4>1. Copies(s, m.boot, n) = 0
        BY <2>2, <2>3, <3>4 DEF OnceIn
      <4>2. ~(n <= c)
        BY <1>7, <2>3, <3>4 DEF Seqs
      <4> QED
        BY <1>11, <3>1, <4>1, <4>2 DEF OnceIn
    <3> QED
      BY <1>7, <2>3, <3>2, <3>3, <3>4 DEF Seqs
  <2> QED
    BY <2>4, <2>5
<1> QED
  BY <1>10, <1>12, <1>13, <1>14, MoveInv DEF Poller

\* The disk fails: the task is over, and answers for nothing any more.
LEMMA StoreBatchFailsStep ==
  ASSUME Inv, NEW s \in Sessions, StoreBatchFails(s)
  PROVE  Inv'
<1> USE BoundTypes
<1>1. PICK m \in Batches : m = wire[s]
  BY MessageKinds DEF StoreBatchFails, Inv, DetailOK
<1>2. /\ at[s] = "log" /\ m.boot = bootId[s]
      /\ LogStoreFails(s, m.boot, m)
      /\ at' = [at EXCEPT ![s] = "over"] /\ wire' = [wire EXCEPT ![s] = Nothing]
      /\ UNCHANGED <<device, connection, cursor, bootId, overflow>>
  BY <1>1 DEF StoreBatchFails
<1>3. m.boot \in Boots /\ m.lo \in 1..(MaxSeq + 1) /\ m.hi \in Seqs
  BY DEF Batches
<1>4. PICK r : /\ r.lo \in 1..(MaxSeq + 1) /\ r.hi \in Seqs /\ LogStore(s, m.boot, r)
  <2>1. PICK n \in (m.lo - 1)..(m.hi - 1) : LogStore(s, m.boot, [lo |-> m.lo, hi |-> n])
    BY <1>2 DEF LogStoreFails
  <2>2. n \in Seqs
    BY <1>3 DEF Seqs
  <2> QED
    BY <1>3, <2>1, <2>2
<1>5. /\ file' \in Files
      /\ \A q \in Sessions, b \in Boots, n \in 1..MaxSeq :
           q # s \/ b # m.boot => Copies(q, b, n)' = Copies(q, b, n)
      /\ \A b \in Boots, n \in 1..MaxSeq : InFile(b, n) => InFile(b, n)'
  BY <1>3, <1>4, Stored DEF Inv
<1>6. Moves(s)
  <2>1. bootId' = [bootId EXCEPT ![s] = bootId[s]] /\ cursor' = [cursor EXCEPT ![s] = cursor[s]]
        /\ cursor[s] \in Seqs /\ bootId[s] \in 0..MaxBoot
    BY <1>2 DEF Inv, TypeOK
  <2>2. overflow' \subseteq Boots \X Seqs /\ overflow \subseteq overflow'
    BY <1>2 DEF Inv, TypeOK
  <2>3. Nothing \in Messages
    BY MessageKinds
  <2> QED
    BY <1>2, <1>5, <2>1, <2>2, <2>3 DEF Moves
<1>7. /\ at'[s] = "over" /\ wire'[s] = Nothing /\ bootId'[s] = bootId[s]
      /\ UNCHANGED <<link, session, boot, slot>>
  BY <1>2 DEF device, connection, Inv, TypeOK, DetailOK
<1>8. Standing(s)' /\ OneBoot(s)' /\ FromCursor(s)' /\ SlotKept(s)'
  BY <1>2, <1>7, IdlePoller
<1>9. NoCopies(s)' /\ StoredOnce(s)'
  BY <1>2, <1>3, <1>7 DEF NoCopies, StoredOnce, Boots
<1> QED
  BY <1>6, <1>8, <1>9, MoveInv DEF Poller

\* The previous boot's records go to another file than the poller's own; the slot is
\* acknowledged with all of it on file.
LEMMA StorePrevStep ==
  ASSUME Inv, NEW s \in Sessions, StorePrev(s)
  PROVE  Inv'
<1> USE BoundTypes
<1>1. PICK r \in Slots : r = wire[s].slot
  BY MessageKinds DEF StorePrev, Inv, DetailOK
<1>2. /\ at[s] = "prev" /\ wire[s].kind = "prev" /\ UNCHANGED <<device, connection, cursor, bootId, overflow>>
      /\ bootId[s] # 0 /\ r.boot < bootId[s] /\ (link = s => r = Prev(slot))
  BY <1>1 DEF StorePrev, Inv, Poller, Standing, OneBoot, SlotKept
<1>3. CASE r.boot = 0
  <2>1. at' = [at EXCEPT ![s] = "sleep"] /\ wire' = [wire EXCEPT ![s] = Nothing] /\ UNCHANGED file
    BY <1>1, <1>3 DEF StorePrev
  <2> QED
    BY <1>2, <2>1, RestStep, MessageKinds DEF store
<1>4. CASE r.boot # 0
  <2>1. PICK m : m = IF link = s THEN [kind |-> "ack_prev", boot |-> r.boot] ELSE Nothing
    OBVIOUS
  <2>2. /\ LogStore(s, r.boot, r) /\ at' = [at EXCEPT ![s] = "ack"]
        /\ wire' = [wire EXCEPT ![s] = m]
    BY <1>1, <1>4, <2>1 DEF StorePrev, Send
  <2>3. r.boot \in Boots /\ r.lo \in 1..(MaxSeq + 1) /\ r.hi \in Seqs
    BY <1>4 DEF Slots, Boots
  <2>4. /\ m \in Messages /\ m.kind \in {"nothing", "ack_prev"} /\ (m # Nothing => m.kind = "ack_prev")
        /\ m.kind = "ack_prev" => link = s /\ m.boot = r.boot
    BY <2>1, <2>3, RequestKinds, MessageKinds
  <2>5. /\ file' \in Files
        /\ \A q \in Sessions, b \in Boots, n \in 1..MaxSeq :
             q # s \/ b # r.boot => Copies(q, b, n)' = Copies(q, b, n)
        /\ \A b \in Boots, n \in 1..MaxSeq : InFile(b, n) => InFile(b, n)'
        /\ \A n \in r.lo..r.hi : InFile(r.boot, n)'
    BY <2>2, <2>3, Stored DEF Inv
  <2>6. Moves(s)
    <3>1. bootId' = [bootId EXCEPT ![s] = bootId[s]] /\ cursor' = [cursor EXCEPT ![s] = cursor[s]]
          /\ cursor[s] \in Seqs /\ bootId[s] \in 0..MaxBoot
      BY <1>2 DEF Inv, TypeOK
    <3>2. overflow' \subseteq Boots \X Seqs /\ overflow \subseteq overflow'
      BY <1>2 DEF Inv, TypeOK
    <3>3. "ack" \in {"sleep", "over"} \cup Waiting
      BY DEF Waiting
    <3> QED
      BY <1>2, <2>2, <2>4, <2>5, <3>1, <3>2, <3>3, ZenonT(30) DEF Moves
  <2>7. /\ at'[s] = "ack" /\ wire'[s] = m /\ bootId'[s] = bootId[s] /\ cursor'[s] = cursor[s]
        /\ UNCHANGED <<link, session, boot, slot>>
    BY <1>2, <2>2 DEF device, connection, Inv, TypeOK, DetailOK
  <2>8. NoCopies(s)' /\ StoredOnce(s)'
    <3>1. \A b \in Boots, n \in 1..MaxSeq :
            bootId[s] \in {0, b} => Copies(s, b, n)' = Copies(s, b, n)
      BY <1>2, <2>3, <2>5 DEF Boots
    <3> QED
      BY <1>2, <2>6, <2>7, <3>1, AccountKept, MoveTypes
  <2>9. Poller(s) /\ ~(s > session)
    BY <1>2 DEF Inv, Poller, Standing
  <2>10. Standing(s)'
    BY <1>2, <2>4, <2>7, <2>9 DEF Standing, Stage
  <2>11. OneBoot(s)' /\ FromCursor(s)'
    BY <2>4, <2>7, <2>9 DEF Poller, OneBoot, FromCursor
  <2>12. SlotKept(s)'
    <3>1. CASE m = Nothing
      BY <2>7, <3>1, MessageKinds DEF SlotKept
    <3>2. CASE m.kind = "ack_prev"
      <4>1. link = s /\ m.boot = r.boot /\ r = Prev(slot)
        BY <1>2, <2>4, <3>2
      <4>2. r.boot = slot.boot /\ r.lo = slot.lo /\ Prev(slot)' = Prev(slot)
        BY <2>7, <4>1, SlotType, PrevType DEF Prev
      <4>3. ASSUME NEW b \in Boots, NEW n \in 1..MaxSeq, b = slot'.boot, n \in slot'.lo..Prev(slot)'.hi
            PROVE  InFile(b, n)'
        <5>1. n \in r.lo..r.hi /\ b = r.boot
          BY <2>7, <4>1, <4>2, <4>3
        <5> QED
          BY <2>5, <5>1
      <4>4. wire'[s].kind = "ack_prev" /\ wire'[s].boot = slot'.boot /\ link' = s
        BY <2>7, <3>2, <4>1, <4>2
      <4> QED
        BY <4>3, <4>4 DEF SlotKept
    <3> QED
      BY <2>4, <3>1, <3>2
  <2> QED
    BY <2>6, <2>8, <2>10, <2>11, <2>12, MoveInv DEF Poller
<1> QED
  BY <1>3, <1>4

\* Some of the previous boot's records are on file; the slot stays with the device.
LEMMA StorePrevFailsStep ==
  ASSUME Inv, NEW s \in Sessions, StorePrevFails(s)
  PROVE  Inv'
<1> USE BoundTypes
<1>1. PICK m \in Slots : m = wire[s].slot
  BY MessageKinds DEF StorePrevFails, Inv, DetailOK
<1>2. /\ at[s] = "prev" /\ m.boot # 0 /\ LogStoreFails(s, m.boot, m)
      /\ at' = [at EXCEPT ![s] = "sleep"] /\ wire' = [wire EXCEPT ![s] = Nothing]
      /\ UNCHANGED <<device, connection, cursor, bootId, overflow>>
      /\ bootId[s] # 0 /\ m.boot < bootId[s]
  BY <1>1 DEF StorePrevFails, Inv, Poller, Standing, OneBoot
<1>3. m.boot \in Boots /\ m.lo \in 1..(MaxSeq + 1) /\ m.hi \in Seqs
  BY <1>2 DEF Slots, Boots
<1>4. PICK r : /\ r.lo \in 1..(MaxSeq + 1) /\ r.hi \in Seqs /\ LogStore(s, m.boot, r)
  <2>1. PICK n \in (m.lo - 1)..(m.hi - 1) : LogStore(s, m.boot, [lo |-> m.lo, hi |-> n])
    BY <1>2 DEF LogStoreFails
  <2>2. n \in Seqs
    BY <1>3 DEF Seqs
  <2> QED
    BY <1>3, <2>1, <2>2
<1>5. /\ file' \in Files
      /\ \A q \in Sessions, b \in Boots, n \in 1..MaxSeq :
           q # s \/ b # m.boot => Copies(q, b, n)' = Copies(q, b, n)
      /\ \A b \in Boots, n \in 1..MaxSeq : InFile(b, n) => InFile(b, n)'
  BY <1>3, <1>4, Stored DEF Inv
<1>6. Moves(s)
  <2>1. bootId' = [bootId EXCEPT ![s] = bootId[s]] /\ cursor' = [cursor EXCEPT ![s] = cursor[s]]
        /\ cursor[s] \in Seqs /\ bootId[s] \in 0..MaxBoot
    BY <1>2 DEF Inv, TypeOK
  <2>2. overflow' \subseteq Boots \X Seqs /\ overflow \subseteq overflow'
    BY <1>2 DEF Inv, TypeOK
  <2>3. Nothing \in Messages
    BY MessageKinds
  <2> QED
    BY <1>2, <1>5, <2>1, <2>2, <2>3 DEF Moves
<1>7. /\ at'[s] = "sleep" /\ wire'[s] = Nothing /\ bootId'[s] = bootId[s] /\ cursor'[s] = cursor[s]
      /\ UNCHANGED <<link, session, boot, slot>>
  BY <1>2 DEF device, connection, Inv, TypeOK, DetailOK
<1>8. Standing(s)' /\ OneBoot(s)' /\ FromCursor(s)' /\ SlotKept(s)'
  BY <1>2, <1>7, IdlePoller
<1>9. NoCopies(s)' /\ StoredOnce(s)'
  <2>1. \A b \in Boots, n \in 1..MaxSeq :
          bootId[s] \in {0, b} => Copies(s, b, n)' = Copies(s, b, n)
    BY <1>2, <1>3, <1>5 DEF Boots
  <2> QED
    BY <1>2, <1>6, <1>7, <2>1, AccountKept, MoveTypes
<1> QED
  BY <1>6, <1>8, <1>9, MoveInv DEF Poller

LEMMA StepInv ==
  ASSUME Inv, [Next]_vars
  PROVE  Inv'
<1>1. CASE Log \/ Disconnect
  BY <1>1, LogStep
<1>2. CASE Reboot \/ LinkLost
  BY <1>2, CutStep
<1>3. CASE Connect
  BY <1>3, ConnectStep
<1>4. ASSUME NEW s \in Sessions, DeviceAnswers(s) \/ Poll(s) \/ Timeout(s) \/ Process(s)
      PROVE  Inv'
  <2>1. CASE DeviceAnswers(s)
    <3>1. AnswerRead(s) \/ AnswerPrev(s) \/ AnswerAck(s)
      BY <2>1 DEF DeviceAnswers
    <3> QED
      BY <2>1, <3>1, AnswerStep, ReleaseStep
  <2>2. CASE Poll(s) \/ Timeout(s)
    BY <2>2, PollStep, TimeoutStep
  <2>3. CASE Process(s)
    BY <2>3, NewBootStep, StoreBatchStep, StoreBatchFailsStep, StorePrevStep, StorePrevFailsStep,
       AckedStep DEF Process
  <2> QED
    BY <1>4, <2>1, <2>2, <2>3
<1>5. CASE UNCHANGED vars
  <2>1. TypeOK' /\ DetailOK'
    BY <1>5 DEF vars, device, connection, store, Inv, TypeOK, DetailOK
  <2>2. UNCHANGED <<boot, slot, released, link, session, at, cursor, bootId, wire, file, overflow>>
    BY <1>5 DEF vars, device, connection, store
  <2>3. \A q \in Sessions : Poller(q)'
    <3>1. boot' >= boot
      BY <2>2, BoundTypes DEF Inv, TypeOK, Boots
    <3> QED
      BY <2>1, <2>2, <3>1, FilesKept, PollerKept
  <2>4. ReleasedIsStored'
    BY <2>2, FilesKept, ReleasedKept
  <2> QED
    BY <2>1, <2>3, <2>4 DEF Inv
<1> QED
  BY <1>1, <1>2, <1>3, <1>4, <1>5 DEF Next

LEMMA Invariance == Safety => []Inv
BY InitInv, StepInv, PTL DEF Safety

(***************************************************************************)
(* What follows.                                                           *)
(***************************************************************************)
\* Every variable keeps its type, for any ring, any batches and any bounds.
THEOREM TypeCorrect == Safety => []TypeOK
BY Invariance, PTL DEF Inv

\* A session's poller appends each record once: those up to its cursor are in the file
\* of the boot with one copy of its own, or announced as lost, and none is above it.
THEOREM RecordsOnce == Safety => []StoredOncePerSession
<1>1. Inv => StoredOncePerSession
  <2>1. SUFFICES ASSUME Inv, NEW s \in Sessions, NEW n \in 1..MaxSeq,
                        bootId[s] # 0, at[s] # "over"
                 PROVE  OnceIn(s, bootId[s], n)
    BY DEF StoredOncePerSession, OnceIn
  <2>2. bootId[s] \in Boots
    BY <2>1, BoundTypes DEF Inv, TypeOK, Boots
  <2> QED
    BY <2>1, <2>2 DEF Inv, Poller, StoredOnce
<1> QED
  BY <1>1, Invariance, PTL

\* The device drops its log of the previous boot only when what one answer holds of it is on file:
\* all of it, if it fits into one.
THEOREM NothingDropped == Safety => []ReleasedIsStored
BY Invariance, PTL DEF Inv
==============================================================================
