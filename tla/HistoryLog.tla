----------------------------- MODULE HistoryLog ------------------------------
(***************************************************************************)
(* What the pressure history promises (README, "Server Pull"): the samples *)
(* of a device are taken boot after boot, each boot's in ascending order,  *)
(* no sample twice, and a hole between two samples of a boot is announced. *)
(*                                                                         *)
(* The promise is bent by one thing: an answer that is read after a newer  *)
(* connection has replaced the one it was asked on.  Each replaced         *)
(* connection has at most one.  It may start the log anew at an older      *)
(* sample (Rewind), and the numbers it has asked past may be passed over   *)
(* without a word.                                                         *)
(***************************************************************************)
EXTENDS Integers, SequencesExt

CONSTANTS
  MaxBoot,    \* bound on the device's reboots
  MaxSeq      \* bound on the sequence numbers of one boot

VARIABLES
  log,          \* samples <<boot, seq>> in the order in which they were taken
  holes,        \* samples announced as lost
  connections,  \* how many connections the device has made; the last is the current one
  late,         \* the replaced connections whose last answer was read nevertheless
  start         \* the log was started anew after this many samples

vars == <<log, holes, connections, late, start>>

\* Samples lo..hi of boot b.
Run(b, lo, hi) == [k \in 1..(hi - lo + 1) |-> <<b, lo + k - 1>>]

\* The positions a cursor can have had.
Cursors == {0} \cup {log[k][2] : k \in DOMAIN log}

Init == log = <<>> /\ holes = {} /\ connections = 0 /\ late = {} /\ start = 0

Connect ==
  /\ connections' = connections + 1
  /\ UNCHANGED <<log, holes, late, start>>

\* The first samples taken of a boot: where the boot's record begins is free.
Begin(b, lo, hi) ==
  /\ log' = log \o Run(b, lo, hi)
  /\ Len(log) > start => Last(log)[1] < b
  /\ UNCHANGED <<holes, start>>

\* More samples of the boot taken last; those jumped over are announced, as far as the
\* request had asked for them: it asked from the last sample on, unless a late answer
\* has moved the cursor.
Continue(lo, hi) ==
  /\ Len(log) > start
  /\ LET b == Last(log)[1]
         n == Last(log)[2]
     IN  /\ n < lo
         /\ log' = log \o Run(b, lo, hi)
         /\ holes' \subseteq holes \cup {<<b, m>> : m \in (n + 1)..(lo - 1)}
         /\ \E asked \in Cursors :
              /\ late' = {} => asked = n
              /\ holes \cup {<<b, m>> : m \in {k \in (n + 1)..(lo - 1) : k > asked}} \subseteq holes'
  /\ UNCHANGED start

\* Samples that are behind the log are taken again.
Rewind(b, lo, hi) ==
  /\ start' = Len(log)
  /\ log' = log \o Run(b, lo, hi)
  /\ UNCHANGED holes

\* What connection c's poller reads, if it is news; a replaced connection's is read once.
Read(c, b, lo, hi) ==
  /\ \/ Begin(b, lo, hi)
     \/ Continue(lo, hi)
     \/ c < connections /\ Rewind(b, lo, hi)
  /\ c < connections => c \notin late
  /\ late' = IF c < connections THEN late \cup {c} ELSE late
  /\ UNCHANGED connections

Next ==
  \/ Connect
  \/ /\ <<log, holes, late>>' # <<log, holes, late>>
     /\ \E c \in 1..connections, b \in 1..MaxBoot, lo \in 1..(MaxSeq + 1) :
          \E hi \in (lo - 1)..MaxSeq : Read(c, b, lo, hi)

Spec == Init /\ [][Next]_vars
==============================================================================
