------------------------- MODULE IdleWatchdogProofs --------------------------
(***************************************************************************)
(* What the watchdog does for every choice of its windows: types, the      *)
(* bound on silence, and that the fast window never decides anything when  *)
(* its evidence has to be younger than the window itself.                  *)
(***************************************************************************)
EXTENDS IdleWatchdog, TLAPS

LEMMA WindowTypes ==
  /\ Fast \in Nat /\ Slow \in Nat /\ Fresh \in Nat /\ Jitter \in Nat /\ MaxMissed \in Nat
  /\ Check \in Nat \ {0} /\ Report \in Nat \ {0} /\ Grid \in Nat \ {0}
  /\ Report <= Grid /\ TooOld \in Nat
  BY WindowAssumption DEF WindowAssumption, TooOld

LEMMA PeriodInGrid == ASSUME NEW p PROVE Period(p) \in 1..Grid
  BY WindowTypes DEF Period

(***************************************************************************)
(* Types.                                                                  *)
(***************************************************************************)
LEMMA EmptyShadowType ==
  /\ EmptyShadow \in [ModePoints -> Values \cup {"none"}]
  /\ [k \in ModePoints |-> TooOld] \in [ModePoints -> 0..TooOld]
  BY WindowTypes DEF EmptyShadow

LEMMA DueType == ASSUME NEW p, NEW d \in 1..Period(p) PROVE d \in (-Jitter)..Grid
  BY WindowTypes, PeriodInGrid

LEMMA InitType == Init => TypeOK
<1> SUFFICES ASSUME Init
             PROVE  TypeOK
  OBVIOUS
<1>1. due \in (-Jitter)..Grid
  BY DueType DEF Init
<1>2. timer \in 0..Check /\ missed \in 0..MaxMissed /\ rxAge \in Nat
  BY WindowTypes DEF Init
<1> QED
  BY <1>1, <1>2, EmptyShadowType DEF Init, TypeOK

LEMMA ReceiveType ==
  ASSUME TypeOK, NEW known \in SUBSET ModePoints, Receive(known)
  PROVE  /\ served' \in BOOLEAN /\ rxAge' \in Nat /\ timer' \in 0..Check
         /\ shadow' \in [ModePoints -> Values \cup {"none"}]
         /\ age' \in [ModePoints -> 0..TooOld]
         /\ alive' \in BOOLEAN /\ points' \in [ModePoints -> Values]
  BY WindowTypes DEF TypeOK, Receive

LEMMA NextType == TypeOK /\ [Next]_vars => TypeOK'
<1> SUFFICES ASSUME TypeOK, [Next]_vars
             PROVE  TypeOK'
  OBVIOUS
<1> USE WindowTypes
<1>1. CASE WatchdogCheck
  <2>1. served' \in BOOLEAN /\ timer' \in 0..Check
    <3>1. (served' = FALSE /\ timer' = timer) \/ (timer' = Check /\ served' = served)
      BY <1>1, Zenon DEF WatchdogCheck
    <3>2. Check \in 0..Check
      OBVIOUS
    <3> QED
      BY <3>1, <3>2, Zenon DEF TypeOK
  <2>2. UNCHANGED <<rxAge, shadow, age, alive, points, due, missed, switched>>
    BY <1>1 DEF WatchdogCheck, device
  <2> QED
    BY <2>1, <2>2 DEF TypeOK
<1>2. CASE Reconnect
  <2>1. due' \in (-Jitter)..Grid
    BY <1>2, DueType DEF Reconnect
  <2>2. timer' \in 0..Check /\ missed' \in 0..MaxMissed /\ rxAge' \in Nat
    BY <1>2 DEF Reconnect
  <2> QED
    BY <1>2, <2>1, <2>2, EmptyShadowType DEF Reconnect, TypeOK
<1>3. CASE SendReport
  <2>1. Receive(ModePoints) /\ missed' = 0 /\ switched' = FALSE
    BY <1>3 DEF SendReport
  <2>2. due' \in (-Jitter)..Grid
    BY <1>3, PeriodInGrid DEF SendReport
  <2>3. missed' \in 0..MaxMissed
    BY <2>1
  <2> QED
    BY <2>1, <2>2, <2>3, ReceiveType DEF TypeOK
<1>4. CASE MissReport
  BY <1>4, PeriodInGrid DEF MissReport, TypeOK
<1>5. ASSUME NEW known \in SUBSET ModePoints, SendOther(known)
      PROVE  TypeOK'
  BY <1>5, ReceiveType DEF SendOther, TypeOK
<1>6. CASE SwitchMode
  BY <1>6, PeriodInGrid DEF SwitchMode, TypeOK
<1>7. CASE Die
  BY <1>7 DEF Die, TypeOK
<1>8. CASE Tick
  <2>1. age' \in [ModePoints -> 0..TooOld]
    BY <1>8 DEF Tick, TypeOK
  <2>2. due' \in (-Jitter)..Grid
    BY <1>8 DEF Tick, TypeOK
  <2> QED
    BY <1>8, <2>1, <2>2 DEF Tick, TypeOK
<1>9. CASE UNCHANGED vars
  BY <1>9 DEF vars, device, TypeOK
<1> QED
  BY <1>1, <1>2, <1>3, <1>4, <1>5, <1>6, <1>7, <1>8, <1>9 DEF Next

\* TypeOK is an invariant, for all windows, cadences and mode points.
THEOREM TypeCorrect == Safety => []TypeOK
  BY InitType, NextType, PTL DEF Safety

(***************************************************************************)
(* The evidence of normal operation has arrived in a message, so it is at  *)
(* least as old as the silence (as long as its age has not saturated).     *)
(***************************************************************************)
EvidenceIsRx == \A k \in ModePoints : age[k] <= Fresh => rxAge <= age[k]

\* Only a silence longer than the slow window ends a session: the evidence for the fast
\* window is itself a message, so it is never younger than the silence.
KickedAfterSlow == ~served => rxAge > Slow

KickInv == TypeOK /\ EvidenceIsRx /\ KickedAfterSlow

LEMMA InitKick == Init => KickInv
  BY InitType, WindowTypes DEF Init, KickInv, EvidenceIsRx, KickedAfterSlow, TooOld

LEMMA NextKick ==
  ASSUME Fresh <= Fast
  PROVE  KickInv /\ [Next]_vars => KickInv'
<1> SUFFICES ASSUME KickInv, [Next]_vars
             PROVE  EvidenceIsRx' /\ KickedAfterSlow'
  BY NextType DEF KickInv
<1> USE WindowTypes DEF KickInv, TypeOK
<1>1. CASE WatchdogCheck
  <2>1. EvidenceIsRx'
    BY <1>1 DEF WatchdogCheck, EvidenceIsRx
  <2>2. (\A k \in ModePoints : FreshNormal(k)) => rxAge <= Fast
    <3>1. PICK k \in ModePoints : TRUE
      BY WindowAssumption DEF WindowAssumption
    <3>2. FreshNormal(k) => rxAge <= Fresh
      BY <3>1 DEF FreshNormal, EvidenceIsRx
    <3> QED
      BY <3>1, <3>2
  <2>3. rxAge > IdleTimeout => rxAge > Slow
    BY <2>2 DEF IdleTimeout
  <2>4. KickedAfterSlow'
    BY <1>1, <2>3 DEF WatchdogCheck, KickedAfterSlow
  <2> QED
    BY <2>1, <2>4
<1>2. CASE Reconnect
  BY <1>2 DEF Reconnect, EvidenceIsRx, KickedAfterSlow, TooOld
<1>3. ASSUME NEW known \in SUBSET ModePoints, Receive(known), served
      PROVE  EvidenceIsRx' /\ KickedAfterSlow'
  BY <1>3 DEF Receive, EvidenceIsRx, KickedAfterSlow
<1>4. CASE SendReport
  BY <1>3, <1>4 DEF SendReport
<1>5. ASSUME NEW known \in SUBSET ModePoints, SendOther(known)
      PROVE  EvidenceIsRx' /\ KickedAfterSlow'
  BY <1>3, <1>5 DEF SendOther
<1>6. CASE MissReport \/ SwitchMode \/ Die
  BY <1>6 DEF MissReport, SwitchMode, Die, EvidenceIsRx, KickedAfterSlow
<1>7. CASE Tick
  <2>1. ASSUME NEW k \in ModePoints, age'[k] <= Fresh
        PROVE  rxAge' <= age'[k]
    <3>1. age[k] # TooOld /\ age'[k] = age[k] + 1
      BY <1>7, <2>1 DEF Tick, TooOld
    <3>2. rxAge <= age[k]
      BY <2>1, <3>1 DEF EvidenceIsRx
    <3> QED
      BY <1>7, <3>1, <3>2 DEF Tick
  <2> QED
    BY <1>7, <2>1 DEF Tick, EvidenceIsRx, KickedAfterSlow
<1>8. CASE UNCHANGED vars
  BY <1>8 DEF vars, device, EvidenceIsRx, KickedAfterSlow
<1> QED
  BY <1>1, <1>2, <1>4, <1>5, <1>6, <1>7, <1>8 DEF Next

\* As long as evidence expires no later than the fast window (15 s and 20 s by
\* default), the watchdog ends a session after a silence longer than Slow only.  This is
\* why FastWindowDetects is violated; it would take Fresh > Fast + Check to keep it.
THEOREM OnlySlowKicks ==
  ASSUME Fresh <= Fast
  PROVE  Safety => []KickedAfterSlow
<1>1. KickInv => KickedAfterSlow
  BY DEF KickInv
<1>2. KickInv /\ [Next]_vars => KickInv'
  BY NextKick
<1> QED
  BY InitKick, <1>1, <1>2, PTL DEF Safety

(***************************************************************************)
(* The other bound: the silence left before the next check is due.         *)
(***************************************************************************)
SilenceInv == TypeOK /\ (served => rxAge + timer <= Slow + Check)

LEMMA NextSilence ==
  ASSUME Fast <= Slow
  PROVE  SilenceInv /\ [Next]_vars => SilenceInv'
<1> SUFFICES ASSUME SilenceInv, [Next]_vars, served'
             PROVE  rxAge' + timer' <= Slow + Check
  BY NextType DEF SilenceInv
<1> USE WindowTypes DEF SilenceInv, TypeOK
<1>1. CASE WatchdogCheck
  <2>1. IdleTimeout \in Nat /\ IdleTimeout <= Slow
    BY DEF IdleTimeout
  <2> QED
    BY <1>1, <2>1 DEF WatchdogCheck
<1>2. CASE Reconnect
  BY <1>2 DEF Reconnect
<1>3. CASE SendReport \/ \E known \in SUBSET ModePoints : SendOther(known)
  <2>1. PICK known : Receive(known)
    BY <1>3 DEF SendReport, SendOther
  <2>2. served /\ rxAge' = 0 /\ timer' = timer
    BY <2>1 DEF Receive
  <2> QED
    BY <2>2
<1>4. CASE MissReport \/ SwitchMode \/ Die
  BY <1>4 DEF MissReport, SwitchMode, Die
<1>5. CASE Tick
  BY <1>5 DEF Tick
<1>6. CASE UNCHANGED vars
  BY <1>6 DEF vars, device
<1> QED
  BY <1>1, <1>2, <1>3, <1>4, <1>5, <1>6 DEF Next

\* A session is never silent for longer than the larger window and one check.
THEOREM SilenceBounded ==
  ASSUME Fast <= Slow
  PROVE  Safety => []SilenceIsBounded
<1>1. Init => SilenceInv
  BY InitType, WindowTypes DEF Init, SilenceInv
<1>2. SilenceInv => SilenceIsBounded
  BY WindowTypes DEF SilenceInv, SilenceIsBounded, TypeOK
<1>3. SilenceInv /\ [Next]_vars => SilenceInv'
  BY NextSilence
<1> QED
  BY <1>1, <1>2, <1>3, PTL DEF Safety

(***************************************************************************)
(* A device that works.  Since the last message it has counted down to a   *)
(* report, at most one period per report missed; a change of mode in       *)
(* between has cost it less than one period of the mode before.            *)
(***************************************************************************)
\* Silence and the time left to the next report, together.
Owed(m) ==
  IF switched THEN (1 + m) * Grid + Report - 1 ELSE (1 + m) * Period(points)

HealthInv ==
  /\ KickInv /\ HealthyNeverKicked
  /\ served /\ alive => rxAge + due <= Owed(missed)

\* The longest silence of a device that misses MaxMissed reports and changes its mode.
LongestSilence == (1 + MaxMissed) * Grid + Report - 1 + Jitter

LEMMA Multiples ==
  /\ \A m, p \in Nat : m * p \in Nat /\ (1 + m) * p \in Nat
  /\ \A p \in Nat : (1 + 0) * p = p
  /\ \A m, p \in Nat : (1 + (m + 1)) * p = (1 + m) * p + p
  /\ \A m, n, p \in Nat : m <= n => (1 + m) * p <= (1 + n) * p
  /\ \A m, p, q \in Nat : p <= q => (1 + m) * p + q <= (1 + m) * q + p
<1>1. \A m, p \in Nat : m * p \in Nat /\ (1 + m) * p \in Nat
  OBVIOUS
<1>2. \A p \in Nat : (1 + 0) * p = p
  OBVIOUS
<1>3. \A m, p \in Nat : (1 + (m + 1)) * p = (1 + m) * p + p
  OBVIOUS
<1>4. \A m, n, p \in Nat : m <= n => (1 + m) * p <= (1 + n) * p
  OBVIOUS
<1>5. \A m, p, q \in Nat : p <= q => (1 + m) * p + q <= (1 + m) * q + p
  OBVIOUS
<1> QED
  BY <1>1, <1>2, <1>3, <1>4, <1>5

LEMMA PeriodCases == \A p : Period(p) = (IF Normal(p) THEN Report ELSE Grid) /\ Period(p) \in 1..Grid
BY PeriodInGrid DEF Period

\* The arithmetic of a change of mode: of a silence so far and what was left of it (t),
\* at least one tick was left, and what is left now is at most the new period p.
LEMMA SwitchSlack ==
  ASSUME NEW t \in Int, NEW p \in Int, NEW y \in Int, NEW r \in Int, t + p <= y + r
  PROVE  \A a, d, e \in Int : a + d <= t /\ d >= 1 /\ e <= p => a + e <= y + r - 1
<1> SUFFICES ASSUME NEW a \in Int, NEW d \in Int, NEW e \in Int, a + d <= t, d >= 1, e <= p
             PROVE  a + e <= y + r - 1
  OBVIOUS
<1> QED
  OBVIOUS

LEMMA NextHealth ==
  ASSUME Fresh <= Fast, LongestSilence <= Slow
  PROVE  HealthInv /\ [Next]_vars => HealthInv'
<1> SUFFICES ASSUME HealthInv, [Next]_vars
             PROVE  HealthyNeverKicked' /\ (served' /\ alive' => rxAge' + due' <= Owed(missed)')
  BY NextKick DEF HealthInv
<1> USE WindowTypes
<1>1. /\ served \in BOOLEAN /\ alive \in BOOLEAN /\ switched \in BOOLEAN
      /\ rxAge \in Nat /\ due \in Int /\ missed \in Nat /\ missed <= MaxMissed /\ due >= -Jitter
      /\ Period(points) \in Nat /\ Period(points) <= Grid
  BY PeriodCases DEF HealthInv, KickInv, TypeOK
<1>2. served /\ alive => rxAge + due <= Owed(missed)
  BY DEF HealthInv
<1>3. CASE WatchdogCheck
  <2>1. UNCHANGED <<rxAge, alive, due, missed, switched, points>>
    BY <1>3 DEF WatchdogCheck, device
  <2>2. rxAge' + due' <= Owed(missed)' \/ ~(served /\ alive)
    BY <1>2, <2>1 DEF Owed, Period, Normal
  <2>3. ~served' => ~alive
    <3>1. SUFFICES ASSUME ~served', alive
                   PROVE  FALSE
      OBVIOUS
    <3>2. rxAge' > Slow
      BY <3>1, NextKick DEF HealthInv, KickInv, KickedAfterSlow
    <3>3. Owed(missed) <= LongestSilence - Jitter
      <4>1. (1 + missed) * Grid <= (1 + MaxMissed) * Grid
        BY <1>1, Multiples
      <4>2. (1 + missed) * Period(points) <= (1 + missed) * Grid
        BY <1>1, Multiples
      <4>3. /\ (1 + missed) * Grid \in Nat /\ (1 + MaxMissed) * Grid \in Nat
            /\ (1 + missed) * Period(points) \in Nat
        BY <1>1, Multiples
      <4>4. Owed(missed) <= (1 + missed) * Grid + Report - 1
        BY <1>1, <4>2, <4>3 DEF Owed
      <4>5. LongestSilence - Jitter = (1 + MaxMissed) * Grid + Report - 1
        BY <4>3 DEF LongestSilence
      <4>6. Owed(missed) \in Int
        BY <4>3 DEF Owed
      <4> QED
        BY <4>1, <4>3, <4>4, <4>5, <4>6
    <3>4. Owed(missed) \in Int /\ LongestSilence \in Int
      BY <1>1, Multiples DEF Owed, LongestSilence
    <3> QED
      BY <1>1, <1>2, <1>3, <2>1, <3>1, <3>2, <3>3, <3>4 DEF WatchdogCheck
  <2> QED
    BY <1>3, <2>1, <2>2, <2>3 DEF WatchdogCheck, HealthyNeverKicked
<1>4. CASE Reconnect
  <2>1. served' /\ rxAge' = 0 /\ due' \in 1..Period(points) /\ missed' = 0 /\ ~switched' /\ points' = points
    BY <1>4 DEF Reconnect
  <2>2. Owed(missed)' = Period(points)
    <3>1. Owed(missed)' = (1 + 0) * Period(points)
      BY <2>1 DEF Owed, Period, Normal
    <3> QED
      BY <1>1, <3>1, Multiples
  <2> QED
    BY <1>1, <2>1, <2>2 DEF HealthyNeverKicked
<1>5. CASE SendReport
  <2>1. /\ served' = served /\ served /\ rxAge' = 0 /\ due' = Period(points)
        /\ missed' = 0 /\ ~switched' /\ points' = points
    BY <1>5 DEF SendReport, Receive
  <2>2. Owed(missed)' = Period(points)
    BY <1>1, <2>1, Multiples DEF Owed, Period, Normal
  <2> QED
    BY <1>1, <2>1, <2>2 DEF HealthyNeverKicked
<1>6. CASE MissReport
  <2>1. /\ UNCHANGED <<served, rxAge, alive, points, switched>> /\ served /\ alive
        /\ missed' = missed + 1 /\ due' = due + Period(points)
    BY <1>6 DEF MissReport
  <2>2. Owed(missed)' = Owed(missed) + (IF switched THEN Grid ELSE Period(points))
    <3>1. Owed(missed)' = IF switched THEN (1 + (missed + 1)) * Grid + Report - 1
                                      ELSE (1 + (missed + 1)) * Period(points)
      BY <2>1 DEF Owed, Period, Normal
    <3>2. /\ (1 + (missed + 1)) * Grid = (1 + missed) * Grid + Grid
          /\ (1 + (missed + 1)) * Period(points) = (1 + missed) * Period(points) + Period(points)
          /\ (1 + missed) * Grid \in Nat /\ (1 + missed) * Period(points) \in Nat
      BY <1>1, Multiples
    <3> QED
      BY <1>1, <3>1, <3>2 DEF Owed
  <2>3. Owed(missed) \in Int
    BY <1>1, Multiples DEF Owed
  <2> QED
    BY <1>1, <1>2, <2>1, <2>2, <2>3 DEF HealthyNeverKicked
<1>7. CASE SwitchMode
  <2>1. /\ UNCHANGED <<served, rxAge, alive, missed>> /\ served /\ alive /\ due > 0
        /\ ~switched /\ switched' /\ due' \in 1..Period(points') /\ Normal(points') # Normal(points)
    BY <1>7 DEF SwitchMode
  <2>2. Owed(missed) = (1 + missed) * Period(points)
        /\ Owed(missed)' = (1 + missed) * Grid + Report - 1
    BY <2>1 DEF Owed
  <2> DEFINE x == (1 + missed) * Report
             y == (1 + missed) * Grid
  <2>3. x \in Nat /\ y \in Nat /\ x + Grid <= y + Report
    BY <1>1, Multiples
  <2>4. /\ Normal(points) => Owed(missed) = x /\ Period(points') = Grid
        /\ ~Normal(points) => Owed(missed) = y /\ Period(points') = Report
    <3>1. Normal(points') <=> ~Normal(points)
      BY <2>1 DEF Normal
    <3>2. Normal(points) => Period(points) = Report /\ Period(points') = Grid
      BY <3>1, PeriodCases
    <3>3. ~Normal(points) => Period(points) = Grid /\ Period(points') = Report
      BY <3>1, PeriodCases
    <3> QED
      BY <2>2, <3>2, <3>3, Zenon
  <2>5. Owed(missed)' = y + Report - 1
    BY <2>2
  <2> HIDE DEF x, y
  <2>6. rxAge + due <= Owed(missed) /\ due \in Int /\ due >= 1 /\ due' <= Period(points') /\ due' \in Int
    BY <1>1, <1>2, <2>1, PeriodCases
  <2>7. /\ rxAge \in Int /\ due' \in Int /\ x \in Int /\ y \in Int /\ Grid \in Int /\ Report \in Int
        /\ x + Grid <= y + Report
    BY <1>1, <2>3, <2>6
  <2>8. ASSUME NEW t \in Int, NEW p \in Int, Owed(missed) = t, Period(points') = p, t + p <= y + Report
        PROVE  rxAge + due' <= y + Report - 1
    <3>1. rxAge + due <= t /\ due >= 1 /\ due' <= p
      BY <2>6, <2>8, Zenon
    <3>2. t + p <= y + Report /\ t \in Int /\ p \in Int /\ due \in Int
      BY <2>6, <2>8
    <3>3. \A a, d, e \in Int : a + d <= t /\ d >= 1 /\ e <= p => a + e <= y + Report - 1
      BY <2>7, <3>2, SwitchSlack
    <3> QED
      BY <2>6, <2>7, <3>1, <3>2, <3>3, Zenon
  <2>9. rxAge + due' <= y + Report - 1
    <3>1. y + Report <= y + Report
      BY <2>7
    <3> QED
      BY <2>4, <2>7, <2>8, <3>1
  <2> QED
    BY <2>1, <2>5, <2>9 DEF HealthyNeverKicked
<1>8. CASE Die
  BY <1>8 DEF Die, HealthyNeverKicked
<1>9. CASE Tick
  <2>1. /\ UNCHANGED <<served, alive, missed, points, switched>> /\ served
        /\ rxAge' = rxAge + 1 /\ (alive => due' = due - 1)
    BY <1>9 DEF Tick
  <2>2. Owed(missed)' = Owed(missed)
    BY <2>1 DEF Owed, Period, Normal
  <2> QED
    BY <1>1, <1>2, <2>1, <2>2 DEF HealthyNeverKicked
<1>10. ASSUME NEW known \in SUBSET ModePoints, SendOther(known)
       PROVE  HealthyNeverKicked' /\ (served' /\ alive' => rxAge' + due' <= Owed(missed)')
  <2>1. /\ UNCHANGED <<served, alive, points, due, missed, switched>> /\ served /\ alive /\ rxAge' = 0
    BY <1>10 DEF SendOther, Receive
  <2>2. Owed(missed)' = Owed(missed) /\ Owed(missed) \in Int
    BY <1>1, <2>1, Multiples DEF Owed, Period, Normal
  <2> QED
    BY <1>1, <1>2, <2>1, <2>2 DEF HealthyNeverKicked
<1>11. CASE UNCHANGED vars
  BY <1>2, <1>11 DEF vars, device, Owed, Period, Normal, HealthInv, HealthyNeverKicked
<1> QED
  BY <1>3, <1>4, <1>5, <1>6, <1>7, <1>8, <1>9, <1>10, <1>11 DEF Next

\* A device that works is never reported offline, if the slow window covers the longest
\* silence it can have: its slow periods, one for each report it may miss and one more,
\* less than one normal period for a change of mode in between, and the jitter.  (The
\* instance checked has 26 ticks for it, and 30 for the window.)
THEOREM HealthyStays ==
  ASSUME Fresh <= Fast, LongestSilence <= Slow
  PROVE  Safety => []HealthyNeverKicked
<1>1. Init => HealthInv
  <2>1. SUFFICES ASSUME Init
                 PROVE  rxAge + due <= Owed(missed) /\ served
    BY InitKick DEF HealthInv, HealthyNeverKicked
  <2>2. rxAge = 0 /\ due \in 1..Period(points) /\ missed = 0 /\ ~switched /\ served
    BY <2>1 DEF Init
  <2>3. Owed(missed) = Period(points)
    BY <2>2, WindowTypes, PeriodCases, Multiples DEF Owed
  <2> QED
    BY <2>2, <2>3, WindowTypes, PeriodCases
<1>2. HealthInv => HealthyNeverKicked
  BY DEF HealthInv
<1>3. HealthInv /\ [Next]_vars => HealthInv'
  BY NextHealth
<1> QED
  BY <1>1, <1>2, <1>3, PTL DEF Safety
==============================================================================
