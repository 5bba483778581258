----------------------------- MODULE LiveChart -------------------------------
(***************************************************************************)
(* The pressure chart of the admin page: the server's history of a device, *)
(* sorted by time and numbered by insertion (FountainAppServer._hist_add), *)
(* the answers of /api/history, and the page that polls them every 3 s,    *)
(* whether or not its last fetch has come back.                            *)
(*                                                                         *)
(* A sample is live (taken from a dp_report, no seq) or read back from the *)
(* device (with the device's seq).  `boot` and `run` are not in the code:  *)
(* they tell apart samples the code numbers alike.  Time is the position   *)
(* in the sorted list.  The page's own cap of 6000 samples is left out.    *)
(***************************************************************************)
EXTENDS Naturals, FiniteSets, SequencesExt

CONSTANTS
  Devices,    \* device ids of the registry
  HistMax,    \* HIST_MAX_SAMPLES
  MaxI,       \* bound on the samples inserted for a device in one run
  MaxBoot,    \* bound on a device's boots
  MaxRun,     \* bound on the server's runs
  Fetches     \* bounds the fetches of the page that are under way at once

ASSUME BoundAssumption == {HistMax, MaxI, MaxBoot, MaxRun} \subseteq Nat \ {0}

VARIABLES
  run,        \* which run of the server this is
  boot,       \* the current boot of each device
  devSeq,     \* the last seq read back from it
  histI,      \* st["hist_i"]
  hist,       \* st["hist"]
  cur,        \* CUR, the device picked
  chart,      \* HIST, histLastI and HIST_SEQS
  fetch       \* each fetch under way: since_i, and the samples once it is answered

chartVars == <<run, boot, devSeq, histI, hist, cur, chart, fetch>>
history == <<run, boot, devSeq, histI, hist>>

NoFetch == [at |-> "none"]
EmptyChart == [shown |-> <<>>, last |-> 0, seqs |-> {}]

Samples == [dev : Devices, run : 1..MaxRun, boot : 1..MaxBoot, i : 1..MaxI, seq : 0..MaxI]

FetchStates ==
  {NoFetch} \cup [at : {"sent"}, dev : Devices, since : 0..MaxI]
            \cup [at : {"answered"}, dev : Devices, samples : Seq(Samples)]

Charts == [shown : Seq(Samples), last : 0..MaxI, seqs : SUBSET (1..MaxI)]

ChartTypeOK ==
  /\ run \in 1..MaxRun
  /\ boot \in [Devices -> 1..MaxBoot]
  /\ devSeq \in [Devices -> 0..MaxI] /\ histI \in [Devices -> 0..MaxI]
  /\ hist \in [Devices -> Seq(Samples)]
  /\ \A d \in Devices : Len(hist[d]) <= HistMax
  /\ cur \in Devices
  /\ chart \in Charts
  /\ fetch \in [Fetches -> FetchStates]

ChartInit ==
  /\ run = 1
  /\ boot = [d \in Devices |-> 1]
  /\ devSeq = [d \in Devices |-> 0] /\ histI = [d \in Devices |-> 0]
  /\ hist = [d \in Devices |-> <<>>]
  /\ cur \in Devices
  /\ chart = EmptyChart
  /\ fetch = [f \in Fetches |-> NoFetch]

(***************************************************************************)
(* The server.                                                             *)
(***************************************************************************)
\* Mutant: the list is sorted but never cut.
TrimNot(h) == h

\* Only the newest HistMax samples are picked.
Trim(h) == IF Len(h) > HistMax THEN SubSeq(h, Len(h) - HistMax + 1, Len(h)) ELSE h

HistAdd(d, seq, pos) ==
  /\ histI[d] < MaxI
  /\ histI' = [histI EXCEPT ![d] = @ + 1]
  /\ LET x == [dev |-> d, run |-> run, boot |-> boot[d], i |-> histI'[d], seq |-> seq]
     IN  hist' = [hist EXCEPT ![d] = Trim(InsertAt(@, pos, x))]

\* A dp_report with pressure or relay: the newest sample.
LiveSample(d) ==
  /\ HistAdd(d, 0, Len(hist[d]) + 1)
  /\ UNCHANGED <<run, boot, devSeq, cur, chart, fetch>>

\* A sample read back is newer than those read back before, not than the live ones.
BackfillSample(d) ==
  /\ \E pos \in 1..(Len(hist[d]) + 1) :
       /\ \A k \in pos..Len(hist[d]) : hist[d][k].seq = 0
       /\ HistAdd(d, devSeq[d] + 1, pos)
  /\ devSeq' = [devSeq EXCEPT ![d] = @ + 1]
  /\ UNCHANGED <<run, boot, cur, chart, fetch>>

\* The device numbers its samples from 1 again.
Reboot(d) ==
  /\ boot[d] < MaxBoot
  /\ boot' = [boot EXCEPT ![d] = @ + 1]
  /\ devSeq' = [devSeq EXCEPT ![d] = 0]
  /\ UNCHANGED <<run, histI, hist, cur, chart, fetch>>

\* The device state is in memory only; the ring of each device is then read afresh.
ServerRestart ==
  /\ run < MaxRun
  /\ run' = run + 1
  /\ devSeq' = [d \in Devices |-> 0] /\ histI' = [d \in Devices |-> 0]
  /\ hist' = [d \in Devices |-> <<>>]
  /\ UNCHANGED <<boot, cur, chart, fetch>>

\* Mutant: the filter by time, which hides a sample that lands in the past.
FilterByTime(h, since) ==
  LET known == {k \in DOMAIN h : h[k].i <= since}
  IN  SubSeq(h, IF known = {} THEN 1 ELSE Max(known) + 1, Len(h))

\* Mutant: since_i is taken for the next id, not for the last one the page has.
FilterPastNext(h, since) == SelectSeq(h, LAMBDA x : since = 0 \/ x.i > since + 1)

\* since_i = 0 asks for everything.  The list comprehension, sample by sample.
Filter(h, since) ==
  LET picked[n \in 0..Len(h)] ==
        IF n = 0 THEN <<>>
        ELSE IF since = 0 \/ h[n].i > since THEN Append(picked[n - 1], h[n]) ELSE picked[n - 1]
  IN  picked[Len(h)]

ApiHistory(f) ==
  /\ fetch[f].at = "sent"
  /\ fetch' = [fetch EXCEPT ![f] = [at |-> "answered", dev |-> @.dev,
                                    samples |-> Filter(hist[fetch[f].dev], fetch[f].since)]]
  /\ UNCHANGED <<history, cur, chart>>

(***************************************************************************)
(* The page.                                                               *)
(***************************************************************************)
Sent(d, since) == [at |-> "sent", dev |-> d, since |-> since]

PollHistory(f) ==
  /\ fetch[f].at = "none"
  /\ fetch' = [fetch EXCEPT ![f] = Sent(cur, chart.last)]
  /\ UNCHANGED <<history, cur, chart>>

\* Mutant: no test of HIST_SEQS.
AddSampleAgain(c, x) ==
  [shown |-> Append(c.shown, x), last |-> IF x.i > c.last THEN x.i ELSE c.last,
   seqs |-> IF x.seq = 0 THEN c.seqs ELSE c.seqs \cup {x.seq}]

\* The body of pollHistory's loop.
AddSample(c, x) ==
  LET moved == [c EXCEPT !.last = IF x.i > @ THEN x.i ELSE @]
  IN  IF x.seq \in c.seqs
        THEN moved
        ELSE [moved EXCEPT !.shown = Append(@, x),
                           !.seqs = IF x.seq = 0 THEN @ ELSE @ \cup {x.seq}]

\* The loop over the samples of an answer.
AddSamples(c, xs) ==
  LET added[n \in 0..Len(xs)] == IF n = 0 THEN c ELSE AddSample(added[n - 1], xs[n])
  IN  added[Len(xs)]

\* The answer is added whatever device is picked by then.
FetchDone(f) ==
  /\ fetch[f].at = "answered"
  /\ chart' = AddSamples(chart, fetch[f].samples)
  /\ fetch' = [fetch EXCEPT ![f] = NoFetch]
  /\ UNCHANGED <<history, cur>>

\* A network error, or an answer that is not ok: the next poll asks again.
FetchFails(f) ==
  /\ fetch[f].at # "none"
  /\ fetch' = [fetch EXCEPT ![f] = NoFetch]
  /\ UNCHANGED <<history, cur, chart>>

\* Picking another device empties the chart and polls at once.
PickDevice(d, f) ==
  /\ d # cur
  /\ cur' = d
  /\ chart' = EmptyChart
  /\ fetch[f].at = "none"
  /\ fetch' = [fetch EXCEPT ![f] = Sent(d, 0)]
  /\ UNCHANGED history

ChartNext ==
  \/ \E d \in Devices : LiveSample(d) \/ BackfillSample(d) \/ Reboot(d)
  \/ ServerRestart
  \/ \E f \in Fetches :
       \/ PollHistory(f) \/ ApiHistory(f) \/ FetchDone(f) \/ FetchFails(f)
       \/ \E d \in Devices : PickDevice(d, f)

ChartSafety == ChartInit /\ [][ChartNext]_chartVars

\* The page keeps polling, and fetches succeed again and again.
ChartFairness ==
  \A f \in Fetches :
    /\ WF_chartVars(PollHistory(f))
    /\ SF_chartVars(ApiHistory(f))
    /\ SF_chartVars(FetchDone(f))

ChartSpec == ChartSafety /\ ChartFairness
-----------------------------------------------------------------------------
(***************************************************************************)
(* Properties.                                                             *)
(***************************************************************************)

\* The same measurement: a sample read back may be inserted again by a later run.
SameSample(x, y) ==
  IF x.seq = 0 THEN x = y ELSE x.dev = y.dev /\ x.boot = y.boot /\ x.seq = y.seq

Shown(x) == \E k \in DOMAIN chart.shown : SameSample(chart.shown[k], x)

\* Overlapping fetches, restarts and device changes never draw a sample read back twice.
BackfillDrawnOnce ==
  \A j, k \in DOMAIN chart.shown :
    SameSample(chart.shown[j], chart.shown[k]) /\ chart.shown[j].seq # 0 => j = k

\* The page takes a sample read back for one it has if it knows the number, which after
\* a reboot of the device may be another sample's: HIST_SEQS is emptied by pickDevice only.
Known(x) == x.seq # 0 /\ x.seq \in chart.seqs

\* README.md:82-86: all samples are plotted and backfilled older ones arrive as well.
\* The page asks for ids above histLastI, so what lies below must be in the chart:
\* nothing is ever missing from it but samples of a new boot whose number is known.
BelowLastIsShown ==
  \A k \in DOMAIN hist[cur] :
    hist[cur][k].i <= chart.last => Shown(hist[cur][k]) \/ Known(hist[cur][k])

\* What holds in every state, though fetches overlap and the device reboots.
ChartIsSound == ChartTypeOK /\ BelowLastIsShown /\ BackfillDrawnOnce

\* A sample of the picked device gets into the chart, or is cut from the history, or is
\* dropped because its number is known.
SamplesArrive ==
  \A d \in Devices, n \in 1..MaxI :
    (\E k \in DOMAIN hist[d] : hist[d][k].i = n) ~>
      (\A k \in DOMAIN hist[d] : hist[d][k].i = n => Shown(hist[d][k]) \/ Known(hist[d][k]))
==============================================================================
