---------------------------- MODULE DeviceShadow -----------------------------
(***************************************************************************)
(* The value shadow of a device (server/app.py): `dp` holds the last value *)
(* of each datapoint, `config` what has been read by name.  A dp_report is *)
(* merged by the receive loop as it is read.  The answer to a dp_read only *)
(* sets a future: its caller resumes later and merges it then, so what the *)
(* receive loop reads in between is merged first.  A new session clears    *)
(* the shadow and reads the configuration; frames of its predecessor may   *)
(* still be read while that one's socket is closing.                       *)
(*                                                                         *)
(* The value of a datapoint is the number of its changes, so that `newer'  *)
(* is `greater'.  The receive stamps dp_ts are in IdleWatchdog.            *)
(***************************************************************************)
EXTENDS Integers, Sequences

CONSTANTS
  Measured,    \* datapoints every periodic dp_report carries
  ConfigPoint, \* config_names: only reported when they change
  MaxValue,    \* bound on the changes of a datapoint
  MaxSession,  \* bound on the device's connections
  MaxRead,     \* bound on the dp_read calls of the admin page
  MaxFrames    \* bound on the frames in flight on a connection

ASSUME ShadowAssumption ==
  /\ Measured \cap ConfigPoint = {} /\ ConfigPoint # {}
  /\ MaxValue \in Nat \ {0} /\ MaxSession \in Nat /\ MaxRead \in Nat /\ MaxFrames \in Nat

VARIABLES
  value,       \* the device's values
  link,        \* the connection it has, 0: none
  session,     \* the newest session
  frames,      \* what each session's connection holds for the receive loop
  read,        \* the dp_read calls; call s <= MaxSession is session s's _fetch_config
  due,         \* calls whose future is set, in the order in which they resume
  dp, config,  \* the shadow; 0: no value
  floor,       \* the device's values when the session connected
  seen,        \* the newest value of each datapoint merged in this session
  passed,      \* datapoints merged or cleared while a call is due
  outrun       \* datapoints last written by an old session or by such a call

vars == <<value, link, session, frames, read, due, dp, config, floor, seen, passed, outrun>>
shadow == <<dp, config, seen, outrun>>

Names == Measured \cup ConfigPoint
Sessions == 1..MaxSession
Calls == 1..(MaxSession + MaxRead)
Values == [Names -> 0..MaxValue]
Empty == [n \in Names |-> 0]
Carried(d) == {n \in Names : d[n] # 0}

Report(S) == [call |-> 0, dp |-> [n \in Names |-> IF n \in S THEN value[n] ELSE 0]]
Idle == [at |-> "idle", session |-> 0, names |-> {}, dp |-> Empty]
Over == [Idle EXCEPT !.at = "over"]

TypeOK ==
  /\ value \in [Names -> 1..MaxValue]
  /\ session \in 0..MaxSession /\ link \in {0, session}
  /\ frames \in [Sessions -> Seq([call : {0} \cup Calls, dp : Values])]
  /\ read \in [Calls -> [at : {"idle", "asked", "answered", "due", "over"},
                         session : 0..MaxSession, names : SUBSET Names, dp : Values]]
  /\ due \in Seq(Calls)
  /\ dp \in Values /\ config \in Values /\ floor \in Values /\ seen \in Values
  /\ passed \in [Calls -> SUBSET Names] /\ outrun \subseteq Names

Init ==
  /\ value = [n \in Names |-> 1]
  /\ link = 0 /\ session = 0
  /\ frames = [s \in Sessions |-> <<>>]
  /\ read = [r \in Calls |-> Idle]
  /\ due = <<>>
  /\ dp = Empty /\ config = Empty /\ floor = Empty /\ seen = Empty
  /\ passed = [r \in Calls |-> {}] /\ outrun = {}

(***************************************************************************)
(* The device.                                                             *)
(***************************************************************************)
Send(f) == frames' = [frames EXCEPT ![link] = Append(@, f)]

CanSend == link # 0 /\ Len(frames[link]) < MaxFrames

\* A value changes; a connected device may report the change at once.
Change(n) ==
  /\ value[n] < MaxValue
  /\ value' = [value EXCEPT ![n] = @ + 1]
  /\ \/ UNCHANGED frames
     \/ CanSend /\ Send([call |-> 0, dp |-> [Empty EXCEPT ![n] = value[n] + 1]])
  /\ UNCHANGED <<link, session, read, due, shadow, floor, passed>>

PeriodicReport ==
  /\ CanSend
  /\ Send(Report(Measured))
  /\ UNCHANGED <<value, link, session, read, due, shadow, floor, passed>>

AnswerRead(r) ==
  /\ CanSend
  /\ read[r].at = "asked" /\ read[r].session = link
  /\ read' = [read EXCEPT ![r].at = "answered"]
  /\ Send([Report(read[r].names) EXCEPT !.call = r])
  /\ UNCHANGED <<value, link, session, due, shadow, floor, passed>>

LinkLost ==
  /\ link # 0
  /\ link' = 0
  /\ UNCHANGED <<value, session, frames, read, due, shadow, floor, passed>>

\* A connection that is gone closes with what it still holds.
Closes(s) ==
  /\ s # link /\ frames[s] # <<>>
  /\ frames' = [frames EXCEPT ![s] = <<>>]
  /\ UNCHANGED <<value, link, session, read, due, shadow, floor, passed>>

(***************************************************************************)
(* The server.                                                             *)
(***************************************************************************)
\* Mutant: a new session leaves the shadow as it is.
OnConnectKeeps ==
  /\ config' = Empty
  /\ UNCHANGED <<dp, outrun>>

\* app.py:161: no stale values after a restart of the device.
OnConnect == dp' = Empty /\ config' = Empty /\ outrun' = {}

Connect ==
  /\ link = 0 /\ session < MaxSession
  /\ session' = session + 1 /\ link' = session'
  /\ OnConnect
  /\ floor' = value /\ seen' = Empty
  /\ passed' = [r \in Calls |-> IF read[r].at = "due" THEN Names ELSE {}]
  /\ UNCHANGED <<value, frames, read, due>>

\* _fetch_config asks on the session it was started for, whatever has become of it; a
\* call of the page asks the registered one.
Ask(r, S) ==
  /\ session # 0 /\ read[r].at = "idle"
  /\ IF r \in Sessions THEN r <= session /\ S = ConfigPoint ELSE TRUE
  /\ read' = [read EXCEPT ![r] = [at |-> "asked", names |-> S, dp |-> Empty,
                                  session |-> IF r \in Sessions THEN r ELSE session]]
  /\ UNCHANGED <<value, link, session, frames, due, shadow, floor, passed>>

\* No answer in 5 s, or a closing socket.
ReadFails(r) ==
  /\ read[r].at \in {"asked", "answered"}
  /\ read' = [read EXCEPT ![r] = Over]
  /\ UNCHANGED <<value, link, session, frames, due, shadow, floor, passed>>

\* Mutant: a datapoint that has a value keeps it.
UpdateKeepsOld(d) == dp' = [n \in Names |-> IF dp[n] # 0 THEN dp[n] ELSE d[n]]

Update(d) == dp' = [n \in Names |-> IF d[n] # 0 THEN d[n] ELSE dp[n]]

\* _dp_merge of values from session s; stale: what has been passed on the way.
DpMerge(d, s, stale) ==
  /\ Update(d)
  /\ seen' = [n \in Names |-> IF s = session /\ d[n] > seen[n] THEN d[n] ELSE seen[n]]
  /\ outrun' = IF s = session THEN (outrun \ Carried(d)) \cup (stale \cap Carried(d))
                              ELSE outrun \cup Carried(d)

OnDpReport(s) ==
  LET d == Head(frames[s]).dp
  IN  /\ DpMerge(d, s, {})
      /\ passed' = [r \in Calls |-> IF read[r].at = "due" THEN passed[r] \cup Carried(d)
                                                          ELSE passed[r]]
      /\ UNCHANGED <<read, due, config>>

\* Mutant: the callers resume in the opposite order.
OnReplyFirst(s) ==
  LET f == Head(frames[s])
  IN  /\ read' = [read EXCEPT ![f.call].at = "due", ![f.call].dp = f.dp]
      /\ due' = <<f.call>> \o due
      /\ UNCHANGED <<shadow, passed>>

\* _dispatch: the call still waits, and its future is set; tasks resume in the order of that.
OnReply(s) ==
  LET f == Head(frames[s])
  IN  /\ read' = [read EXCEPT ![f.call].at = "due", ![f.call].dp = f.dp]
      /\ due' = Append(due, f.call)
      /\ UNCHANGED <<shadow, passed>>

\* The answer to a call that has given up is one more dp_report; only between the timer
\* and the end of the call it is dropped.
OnLateReply(s) ==
  \/ OnDpReport(s)
  \/ UNCHANGED <<shadow, passed, read, due>>

Receive(s) ==
  /\ frames[s] # <<>>
  /\ frames' = [frames EXCEPT ![s] = Tail(@)]
  /\ LET r == Head(frames[s]).call
     IN  \/ r = 0 /\ OnDpReport(s)
         \/ r # 0 /\ read[r].at = "answered" /\ OnReply(s)
         \/ r # 0 /\ read[r].at # "answered" /\ OnLateReply(s)
  /\ UNCHANGED <<value, link, session, floor>>

ConfigOf(r) ==
  IF r \in Sessions THEN read[r].dp
  ELSE [n \in Names |-> IF read[r].dp[n] # 0 THEN read[r].dp[n] ELSE config[n]]

\* The caller resumes: the snapshot replaces `config`, a read updates it; both merge.
Resume ==
  /\ due # <<>>
  /\ LET r == Head(due)
     IN  /\ config' = ConfigOf(r)
         /\ DpMerge(read[r].dp, read[r].session, passed[r])
         /\ read' = [read EXCEPT ![r] = Over]
         /\ due' = Tail(due)
         /\ passed' = [q \in Calls |-> IF q = r THEN {} ELSE passed[q]]
  /\ UNCHANGED <<value, link, session, frames, floor>>

Next ==
  \/ \E n \in Names : Change(n)
  \/ PeriodicReport
  \/ LinkLost
  \/ Connect
  \/ \E s \in Sessions : Closes(s) \/ Receive(s)
  \/ \E r \in Calls : \/ \E S \in {ConfigPoint, Measured} : Ask(r, S)
                      \/ AnswerRead(r)
                      \/ ReadFails(r)
  \/ Resume

\* The receive loops and the callers run, and the device reports on and on.
Fairness ==
  /\ WF_vars(PeriodicReport)
  /\ \A s \in Sessions : WF_vars(Receive(s))
  /\ WF_vars(Resume)

Spec == Init /\ [][Next]_vars /\ Fairness
-----------------------------------------------------------------------------
(***************************************************************************)
(* Properties.                                                             *)
(***************************************************************************)

\* The page shows no value older than the connection (app.py:161), and none older than
\* one it has shown, unless that value was overtaken on its way into the shadow: by a
\* report merged while its caller was due, or by the session that follows its own.
StaleOnlyIfOutrun ==
  \A n \in Names : dp[n] # 0 /\ (dp[n] < floor[n] \/ dp[n] < seen[n]) => n \in outrun

\* What the configuration lists is in the full table as well.
ConfigIsShown == \A n \in Names : config[n] # 0 => dp[n] # 0

ShadowIsSound == TypeOK /\ StaleOnlyIfOutrun /\ ConfigIsShown

\* While the device stays connected, a measured value that no longer changes gets into
\* the shadow and stays there: overtaken values heal.
ShadowCatchesUp ==
  \A s \in Sessions : <>[](link = s) => <>[](\A n \in Measured : dp[n] = value[n])
==============================================================================
