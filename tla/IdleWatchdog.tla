---------------------------- MODULE IdleWatchdog -----------------------------
(***************************************************************************)
(* The heartbeat watchdog of one session against a clock: _heartbeat_      *)
(* watchdog of fountain_proto/server.py with the per-device window that    *)
(* FountainAppServer._idle_timeout_ms computes from the datapoint shadow.  *)
(* Time advances in ticks; ages are counted instead of timestamps, and an  *)
(* age of a datapoint saturates once it is too old to matter.              *)
(*                                                                         *)
(* The device reports on the cadence of its mode: every Report ticks in    *)
(* normal operation, every Grid ticks when its power or link is bad.  It   *)
(* announces a change of mode only with its next report.                   *)
(***************************************************************************)
EXTENDS Integers

CONSTANTS
  ModePoints,  \* datapoints that tell the mode: System_Power_Mode, Net_Link_State
  Fast,        \* HEARTBEAT_TIMEOUT_MS
  Slow,        \* IDLE_TIMEOUT_SLOW_MS
  Fresh,       \* how old the evidence of normal operation may be
  Check,       \* WATCHDOG_INTERVAL_S
  Report,      \* the device's reporting interval in normal operation
  Grid,        \* the same in slow mode
  Jitter,      \* how late a report may come
  MaxMissed    \* how many reports in a row a healthy device may miss

ASSUME WindowAssumption ==
  /\ {Fast, Slow, Fresh, Jitter, MaxMissed} \subseteq Nat
  /\ {Check, Report, Grid} \subseteq Nat \ {0}
  /\ Report <= Grid
  /\ ModePoints # {}

VARIABLES
  served,   \* the session is served: the watchdog has not returned
  rxAge,    \* now - session.last_rx_ms
  shadow,   \* device_state[...]["dp"] at the mode points, "none" when missing
  age,      \* now - device_state[...]["dp_ts"] at the mode points
  timer,    \* ticks until the watchdog wakes up
  alive,    \* the device works and its connection carries what it sends
  points,   \* the device's own mode points
  due,      \* ticks until its next report, negative when it is late
  missed,   \* reports it has missed in a row
  switched  \* its mode has changed since its last report

device == <<alive, points, due, missed, switched>>
vars == <<served, rxAge, shadow, age, timer, device>>

Values == {"normal", "slow"}
TooOld == Fresh + 1

\* Normal operation: power HIGH and link GOOD.
Normal(p) == \A k \in ModePoints : p[k] = "normal"

Period(p) == IF Normal(p) THEN Report ELSE Grid

TypeOK ==
  /\ served \in BOOLEAN
  /\ rxAge \in Nat
  /\ shadow \in [ModePoints -> Values \cup {"none"}]
  /\ age \in [ModePoints -> 0..TooOld]
  /\ timer \in 0..Check
  /\ alive \in BOOLEAN
  /\ points \in [ModePoints -> Values]
  /\ due \in (-Jitter)..Grid
  /\ missed \in 0..MaxMissed
  /\ switched \in BOOLEAN

\* Mutant: the points are marked missing instead of being removed.
EmptyShadowMarked == [k \in ModePoints |-> "missing"]

\* _on_connect clears the shadow; the handshake has just set last_rx_ms.
EmptyShadow == [k \in ModePoints |-> "none"]

Init ==
  /\ served = TRUE /\ rxAge = 0 /\ timer = Check
  /\ shadow = EmptyShadow /\ age = [k \in ModePoints |-> TooOld]
  /\ alive = TRUE
  /\ points \in [ModePoints -> Values]
  /\ due \in 1..Period(points)
  /\ missed = 0 /\ switched = FALSE

(***************************************************************************)
(* The server side.                                                        *)
(***************************************************************************)
\* Mutant: the last known mode counts, however old it is.
NormalHoweverOld(k) == shadow[k] = "normal"

FreshNormal(k) == shadow[k] = "normal" /\ age[k] <= Fresh

\* Mutant: no window while the shadow is still empty after a reconnect.
IdleTimeoutUnlessEmpty ==
  IF \E k \in ModePoints : shadow[k] = "none" THEN rxAge
  ELSE IF \A k \in ModePoints : FreshNormal(k) THEN Fast ELSE Slow

IdleTimeout == IF \A k \in ModePoints : FreshNormal(k) THEN Fast ELSE Slow

WatchdogCheck ==
  /\ served /\ timer = 0
  /\ IF rxAge > IdleTimeout THEN served' = FALSE /\ UNCHANGED timer
                            ELSE timer' = Check /\ UNCHANGED served
  /\ UNCHANGED <<rxAge, shadow, age, device>>

\* _dispatch stamps last_rx_ms, _dp_merge stores and stamps the points received.
Receive(known) ==
  /\ rxAge' = 0
  /\ shadow' = [k \in ModePoints |-> IF k \in known THEN points[k] ELSE shadow[k]]
  /\ age' = [k \in ModePoints |-> IF k \in known THEN 0 ELSE age[k]]
  /\ UNCHANGED <<served, timer, alive, points>>

\* A new session of the device, after a kick or at any other moment.
Reconnect ==
  /\ served' = TRUE /\ rxAge' = 0 /\ timer' = Check
  /\ shadow' = EmptyShadow /\ age' = [k \in ModePoints |-> TooOld]
  /\ alive' = TRUE
  /\ due' \in 1..Period(points)
  /\ missed' = 0 /\ switched' = FALSE
  /\ UNCHANGED points

(***************************************************************************)
(* The device.                                                             *)
(***************************************************************************)
SendReport ==
  /\ served /\ alive /\ due <= 0
  /\ Receive(ModePoints)
  /\ due' = Period(points)
  /\ missed' = 0 /\ switched' = FALSE

\* The next slot counts from the missed one, not from now.
MissReport ==
  /\ served /\ alive /\ due <= 0
  /\ missed < MaxMissed
  /\ missed' = missed + 1
  /\ due' = due + Period(points)
  /\ UNCHANGED <<served, rxAge, shadow, age, timer, alive, points, switched>>

\* A heartbeat, an alert, a delta report or the answer to a dp_read: a message with
\* some of the mode points, or with none.
SendOther(known) ==
  /\ served /\ alive
  /\ Receive(known)
  /\ UNCHANGED <<due, missed, switched>>

\* Between two reports the mode changes at most once.
SwitchMode ==
  /\ served /\ alive /\ due > 0
  /\ ~switched /\ switched' = TRUE
  /\ points' \in [ModePoints -> Values]
  /\ due' \in 1..Period(points')
  /\ Normal(points') # Normal(points)
  /\ UNCHANGED <<served, rxAge, shadow, age, timer, alive, missed>>

\* Power loss, or a half-open connection: nothing arrives any more.
Die ==
  /\ alive
  /\ alive' = FALSE
  /\ UNCHANGED <<served, rxAge, shadow, age, timer, points, due, missed, switched>>

(***************************************************************************)
(* Time passes unless the watchdog is due to run, or a healthy device has  *)
(* used up its jitter.                                                     *)
(***************************************************************************)
Tick ==
  /\ served /\ timer > 0
  /\ alive => due > -Jitter
  /\ rxAge' = rxAge + 1
  /\ age' = [k \in ModePoints |-> IF age[k] = TooOld THEN TooOld ELSE age[k] + 1]
  /\ timer' = timer - 1
  /\ due' = IF alive THEN due - 1 ELSE due
  /\ UNCHANGED <<served, shadow, alive, points, missed, switched>>

Next ==
  \/ WatchdogCheck
  \/ Reconnect
  \/ SendReport
  \/ MissReport
  \/ \E known \in SUBSET ModePoints : SendOther(known)
  \/ SwitchMode
  \/ Die
  \/ Tick

Safety == Init /\ [][Next]_vars
-----------------------------------------------------------------------------
(***************************************************************************)
(* Properties.                                                             *)
(***************************************************************************)

\* A device that works is never reported offline: not between two slots of the
\* slow grid, not when it has just gone slow without having announced it.
HealthyNeverKicked == ~served => ~alive

\* No session stays silent for longer than the slow window and one check.
SilenceIsBounded == served => rxAge <= Slow + Check

(***************************************************************************)
(* What docs and comments say, and the code does not keep (README).        *)
(***************************************************************************)
\* server.py:42 "Detection in ~20 s": a device that fell silent in normal operation, which
\* it had announced, is disconnected after the fast window and one check.
FastWindowDetects ==
  served /\ ~alive /\ Normal(points) /\ Normal(shadow) => rxAge <= Fast + Check
==============================================================================
