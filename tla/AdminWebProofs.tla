--------------------------- MODULE AdminWebProofs ----------------------------
(***************************************************************************)
(* Proofs about the admin web interface.                                   *)
(*                                                                         *)
(* AdminSessions, for any tokens, term and bound on the clock: no restart  *)
(* prolongs a session, a refused token stays refused, and an answered      *)
(* login lasts its term.                                                   *)
(*                                                                         *)
(* LiveChart, for any devices, reboots, restarts, length of the history    *)
(* and number of overlapping fetches: no sample read back is drawn twice;  *)
(* and as long as the server runs and devices are picked while no fetch is *)
(* under way, what lies below histLastI is in the chart.                   *)
(***************************************************************************)
EXTENDS AdminSessions, LiveChart, SequenceTheorems, FiniteSetTheorems,
        WellFoundedInduction, TLAPS


(***************************************************************************)
(* What the operators compute.                                             *)
(***************************************************************************)
\* A save leaves one of three contents.
LEMMA WrittenCases ==
  ASSUME NEW o \in Outcomes, NEW m
  PROVE  \/ o = "new" /\ Written(o, m) = [whole |-> TRUE, entries |-> m]
         \/ o = "torn" /\ Written(o, m) = Torn
         \/ o = "old" /\ Written(o, m) = file
BY DEF Written, Outcomes

\* The maps a save writes or a start reads are expiries.
LEMMA MapsAreTyped ==
  ASSUME TypeOK, NEW t \in Token
  PROVE  /\ clock + Ttl \in Times /\ clock + Ttl > clock /\ clock + Ttl # 0
         /\ WithNew(t) \in Entries /\ Without(t) \in Entries
         /\ LoadSessions \in Entries /\ NoEntries \in Entries
         /\ [granted EXCEPT ![t] = clock + Ttl] \in Entries
<1>1. clock \in Nat /\ clock <= MaxTime /\ Ttl \in Nat /\ Ttl > 0 /\ MaxTime \in Nat
  BY AdminAssumption DEF TypeOK
<1>2. clock + Ttl \in Times /\ 0 \in Times /\ clock + Ttl > clock /\ clock + Ttl # 0
  BY <1>1 DEF Times
<1> QED
  BY <1>2 DEF TypeOK, Entries, WithNew, Without, LoadSessions, NoEntries

\* The initial state satisfies the type invariant.
LEMMA TypeInit == Init => TypeOK
<1> SUFFICES ASSUME Init PROVE TypeOK
  OBVIOUS
<1>1. 0 \in 0..MaxTime /\ 0 \in Times
  BY AdminAssumption DEF Times
<1> QED
  BY <1>1 DEF Init, TypeOK, TermIsKept, Entries, NoEntries

\* What a completed, torn or failed save leaves keeps the type and the terms.
LEMMA SaveIsTyped ==
  ASSUME TypeOK, NEW o \in Outcomes, NEW m \in Entries, NEW g \in Entries,
         \A t \in Token : m[t] \in {0, g[t]},
         \A t \in Token : granted[t] \in {0, g[t]}
  PROVE  /\ Written(o, m) \in [whole : BOOLEAN, entries : Entries]
         /\ \A t \in Token : Written(o, m).entries[t] \in {0, g[t]}
<1>1. NoEntries \in Entries
  BY AdminAssumption DEF NoEntries, Entries, Times
<1>2. CASE Written(o, m) = [whole |-> TRUE, entries |-> m]
  BY <1>2
<1>3. CASE Written(o, m) = Torn
  BY <1>1, <1>3 DEF Torn, NoEntries
<1>4. CASE Written(o, m) = file
  BY <1>4 DEF TypeOK, TermIsKept
<1> QED
  BY <1>2, <1>3, <1>4, WrittenCases

\* Every step of the server and the clock preserves the type invariant.
LEMMA TypeStep == TypeOK /\ [Next]_vars => TypeOK'
<1> SUFFICES ASSUME TypeOK, [Next]_vars PROVE TypeOK'
  OBVIOUS
<1>1. ASSUME NEW t \in Token, PostLogin(t) PROVE TypeOK'
  <2>1. PICK o \in Outcomes : /\ file' = Written(o, WithNew(t)) /\ saved' = (o = "new")
                              /\ kept' = IF o = "old" THEN kept ELSE {u \in kept : WithNew(t)[u] # 0}
    BY <1>1 DEF PostLogin, SaveSessions
  <2>2. \A u \in Token : WithNew(t)[u] \in {0, granted'[u]} /\ granted[u] \in {0, granted'[u]}
    BY <1>1, MapsAreTyped DEF PostLogin, WithNew, Created, TypeOK, TermIsKept, Entries
  <2>3. granted' \in Entries /\ WithNew(t) \in Entries
    BY <1>1, MapsAreTyped DEF PostLogin
  <2>4. /\ file' \in [whole : BOOLEAN, entries : Entries]
        /\ \A u \in Token : file'.entries[u] \in {0, granted'[u]}
    BY <2>1, <2>2, <2>3, SaveIsTyped
  <2>5. kept' \subseteq Token /\ held' \subseteq Token /\ saved' \in BOOLEAN
    BY <1>1, <2>1 DEF PostLogin, TypeOK
  <2> QED
    BY <1>1, <2>2, <2>3, <2>4, <2>5 DEF PostLogin, TypeOK, TermIsKept
<1>2. ASSUME NEW t \in Token, CrashInLogin(t) PROVE TypeOK'
  <2>1. PICK o \in Outcomes : file' = Written(o, WithNew(t)) /\ saved' \in BOOLEAN
    BY <1>2 DEF CrashInLogin, CrashInSave, TypeOK
  <2>2. \A u \in Token : WithNew(t)[u] \in {0, granted'[u]} /\ granted[u] \in {0, granted'[u]}
    BY <1>2, MapsAreTyped DEF CrashInLogin, WithNew, Created, TypeOK, TermIsKept, Entries
  <2>3. granted' \in Entries /\ WithNew(t) \in Entries /\ NoEntries \in Entries
    BY <1>2, MapsAreTyped DEF CrashInLogin
  <2>4. /\ file' \in [whole : BOOLEAN, entries : Entries]
        /\ \A u \in Token : file'.entries[u] \in {0, granted'[u]}
    BY <2>1, <2>2, <2>3, SaveIsTyped
  <2>5. sessions' = NoEntries /\ up' \in BOOLEAN /\ lost' \subseteq Token
    BY <1>2 DEF CrashInLogin, CrashInSave, GoDown, TypeOK
  <2> QED
    BY <1>2, <2>1, <2>3, <2>4, <2>5 DEF CrashInLogin, TypeOK, TermIsKept, NoEntries
<1>3. ASSUME NEW t \in Token, GetLogout(t) PROVE TypeOK'
  <2>1. PICK o \in Outcomes :
          /\ file' = Written(o, Without(t)) /\ saved' = (o = "new")
          /\ kept' = IF o = "old" THEN kept \cup {t} ELSE {u \in kept \cup {t} : Without(t)[u] # 0}
    BY <1>3 DEF GetLogout, SaveSessions
  <2>2. \A u \in Token : Without(t)[u] \in {0, granted[u]}
    BY DEF Without, TypeOK, TermIsKept, Entries
  <2>3. granted \in Entries /\ Without(t) \in Entries
    BY MapsAreTyped DEF TypeOK
  <2>4. /\ file' \in [whole : BOOLEAN, entries : Entries]
        /\ \A u \in Token : file'.entries[u] \in {0, granted[u]}
    BY <2>1, <2>2, <2>3, SaveIsTyped
  <2>5. kept' \subseteq Token /\ dead' \subseteq Token /\ out' \subseteq Token /\ saved' \in BOOLEAN
    BY <1>3, <2>1 DEF GetLogout, TypeOK
  <2> QED
    BY <1>3, <2>2, <2>3, <2>4, <2>5 DEF GetLogout, TypeOK, TermIsKept
<1>4. ASSUME NEW t \in Token, CrashInLogout(t) PROVE TypeOK'
  <2>1. PICK o \in Outcomes : file' = Written(o, Without(t)) /\ saved' \in BOOLEAN
    BY <1>4 DEF CrashInLogout, CrashInSave, TypeOK
  <2>2. \A u \in Token : Without(t)[u] \in {0, granted[u]}
    BY DEF Without, TypeOK, TermIsKept, Entries
  <2>3. granted \in Entries /\ Without(t) \in Entries /\ NoEntries \in Entries
    BY MapsAreTyped DEF TypeOK
  <2>4. /\ file' \in [whole : BOOLEAN, entries : Entries]
        /\ \A u \in Token : file'.entries[u] \in {0, granted[u]}
    BY <2>1, <2>2, <2>3, SaveIsTyped
  <2>5. sessions' = NoEntries /\ up' \in BOOLEAN /\ lost' \subseteq Token /\ out' \subseteq Token
    BY <1>4 DEF CrashInLogout, CrashInSave, GoDown, TypeOK
  <2> QED
    BY <1>4, <2>1, <2>3, <2>4, <2>5 DEF CrashInLogout, TypeOK, TermIsKept, NoEntries
<1>5. ASSUME NEW t \in Token, Expire(t) PROVE TypeOK'
  <2>1. Without(t) \in Entries /\ \A u \in Token : Without(t)[u] \in {0, granted[u]}
    BY MapsAreTyped DEF Without, TypeOK, TermIsKept, Entries
  <2> QED
    BY <1>5, <2>1 DEF Expire, TypeOK, TermIsKept
<1>6. CASE Stop
  <2>1. NoEntries \in Entries
    BY AdminAssumption DEF NoEntries, Entries, Times
  <2>2. sessions' = NoEntries /\ up' \in BOOLEAN /\ lost' \subseteq Token
    BY <1>6 DEF Stop, GoDown, TypeOK
  <2> QED
    BY <1>6, <2>1, <2>2 DEF Stop, TypeOK, TermIsKept, NoEntries
<1>7. CASE Start
  <2>1. LoadSessions \in Entries
    <3>1. 0 \in Times
      BY AdminAssumption DEF Times
    <3> QED
      BY <3>1 DEF LoadSessions, TypeOK, Entries
  <2>2. \A u \in Token : LoadSessions[u] \in {0, granted[u]}
    BY DEF LoadSessions, TypeOK, TermIsKept
  <2>3. dead' \subseteq Token
    BY <1>7 DEF Start, TypeOK, Refused
  <2> QED
    BY <1>7, <2>1, <2>2, <2>3 DEF Start, TypeOK, TermIsKept
<1>8. CASE Tick
  <2>1. dead' \subseteq Token
    BY <1>8 DEF Tick, TypeOK, Refused
  <2>2. clock' \in 0..MaxTime
    BY <1>8, AdminAssumption DEF Tick, TypeOK
  <2> QED
    BY <1>8, <2>1, <2>2 DEF Tick, TypeOK, TermIsKept
<1>9. CASE UNCHANGED vars
  BY <1>9 DEF vars, TypeOK, TermIsKept
<1> QED
  BY <1>1, <1>2, <1>3, <1>4, <1>5, <1>6, <1>7, <1>8, <1>9 DEF Next

\* No restart prolongs a session: memory and file only ever hold the expiry of a login.
THEOREM TypeCorrect == Spec => []TypeOK
BY TypeInit, TypeStep, PTL DEF Spec
(***************************************************************************)
(* A refused token stays refused.  That a token is dead does not say yet   *)
(* that it stays out: a restart reads the file.  So the invariant also     *)
(* says that the file holds no live entry of it (unless a failed save left *)
(* the old one), and, for the clock's steps, that a running server counts  *)
(* every token as dead that it would refuse.                               *)
(***************************************************************************)
Gone(e) == e = 0 \/ clock > e

DeadAreGone ==
  \A t \in Token : t \in dead /\ t \notin kept => Gone(sessions[t]) /\ file.entries[t] <= clock

RefusedAreDead == up => Refused(sessions, clock) \subseteq dead

TornIsEmpty == ~file.whole => file.entries = NoEntries

DeadAreCreated == \A t \in dead : Created(t)

Refusal == TornIsEmpty /\ DeadAreCreated /\ DeadAreGone /\ RefusedAreDead
RefusedInv == TypeOK /\ Refusal

\* After any save the file holds no live entry of a token that was out of the map that
\* was saved, or whose entry the file did not have before.
LEMMA SaveKeepsGone ==
  ASSUME TypeOK, TornIsEmpty, NEW o \in Outcomes, NEW m \in Entries
  PROVE  /\ ~Written(o, m).whole => Written(o, m).entries = NoEntries
         /\ \A t \in Token :
              Gone(m[t]) /\ (o = "old" => file.entries[t] <= clock)
                => Written(o, m).entries[t] <= clock
<1>1. CASE o = "new" /\ Written(o, m) = [whole |-> TRUE, entries |-> m]
  BY <1>1 DEF Gone, TypeOK, Entries, Times
<1>2. CASE Written(o, m) = Torn
  BY <1>2 DEF Torn, NoEntries, TypeOK
<1>3. CASE o = "old" /\ Written(o, m) = file
  BY <1>3 DEF TornIsEmpty
<1> QED
  BY <1>1, <1>2, <1>3, WrittenCases

\* Nothing has been refused at first.
LEMMA RefusedInit == Init => RefusedInv
<1> SUFFICES ASSUME Init PROVE RefusedInv
  OBVIOUS
<1>1. TornIsEmpty /\ DeadAreGone /\ DeadAreCreated
  BY DEF Init, TornIsEmpty, DeadAreGone, DeadAreCreated
<1>2. RefusedAreDead
  BY DEF Init, RefusedAreDead, Refused, Created, NoEntries
<1> QED
  BY <1>1, <1>2, TypeInit DEF RefusedInv, Refusal

\* Logins, logouts, requests, saves that fail and restarts preserve it.
LEMMA RefusedStep == RefusedInv /\ [Next]_vars => RefusedInv'
<1> SUFFICES ASSUME RefusedInv, [Next]_vars PROVE Refusal'
  BY TypeStep DEF RefusedInv
<1>a. TypeOK /\ TypeOK' /\ TornIsEmpty /\ DeadAreCreated /\ DeadAreGone /\ RefusedAreDead
  BY TypeStep DEF RefusedInv, Refusal
<1>b. /\ clock \in Nat /\ sessions \in Entries /\ file.entries \in Entries /\ granted \in Entries
      /\ \A u \in Token : sessions[u] \in Nat /\ file.entries[u] \in Nat /\ granted[u] \in Nat
  BY <1>a DEF TypeOK, Entries, Times
<1>1. ASSUME NEW t \in Token, PostLogin(t) PROVE Refusal'
  <2>1. PICK o \in Outcomes : /\ file' = Written(o, WithNew(t))
                              /\ kept' = IF o = "old" THEN kept ELSE {u \in kept : WithNew(t)[u] # 0}
    BY <1>1 DEF PostLogin, SaveSessions
  <2>2. /\ up /\ ~Created(t) /\ UNCHANGED <<clock, up, dead>>
        /\ sessions' = WithNew(t) /\ granted' = [granted EXCEPT ![t] = clock + Ttl]
    BY <1>1 DEF PostLogin
  <2>3. WithNew(t) \in Entries /\ clock + Ttl > clock /\ clock + Ttl # 0
    BY <1>a, MapsAreTyped
  <2>4. WithNew(t)[t] = clock + Ttl /\ \A u \in Token : u # t => WithNew(t)[u] = sessions[u]
    BY <1>b DEF WithNew, Entries
  <2>5. TornIsEmpty'
    BY <1>a, <2>1, <2>3, SaveKeepsGone DEF TornIsEmpty
  <2>6. DeadAreCreated'
    BY <1>a, <1>b, <2>2, <2>3 DEF DeadAreCreated, Created, Entries
  <2>7. ASSUME NEW u \in Token, u \in dead', u \notin kept'
        PROVE  (Gone(sessions[u]) /\ file.entries[u] <= clock)'
    <3>1. u # t
      BY <1>a, <2>2, <2>7 DEF DeadAreCreated
    <3>2. WithNew(t)[u] = sessions[u]
      BY <2>4, <3>1
    <3>3. CASE u \in kept
      BY <1>a, <2>1, <2>2, <2>3, <2>7, <3>3, SaveKeepsGone DEF Gone
    <3>4. CASE u \notin kept
      BY <1>a, <2>1, <2>2, <2>3, <2>7, <3>2, <3>4, SaveKeepsGone DEF Gone, DeadAreGone
    <3> QED
      BY <3>3, <3>4
  <2>8. RefusedAreDead'
    <3>1. ASSUME NEW u \in Token, u \in Refused(sessions, clock)' PROVE u \in Refused(sessions, clock)
      <4>1. u # t
        BY AdminAssumption, <1>b, <2>2, <2>3, <2>4, <3>1 DEF Refused
      <4>2. granted'[u] = granted[u] /\ sessions'[u] = sessions[u]
        BY <1>b, <2>2, <2>4, <4>1 DEF Entries
      <4> QED
        BY <2>2, <3>1, <4>2 DEF Refused, Created
    <3>2. Refused(sessions, clock) \subseteq dead /\ dead' = dead
      BY <1>a, <2>2 DEF RefusedAreDead
    <3> QED
      BY <3>1, <3>2 DEF RefusedAreDead, Refused
  <2> QED
    BY <2>5, <2>6, <2>7, <2>8 DEF Refusal, DeadAreGone
<1>2. ASSUME NEW t \in Token, CrashInLogin(t) PROVE Refusal'
  <2>1. PICK o \in Outcomes : file' = Written(o, WithNew(t))
    BY <1>2 DEF CrashInLogin, CrashInSave
  <2>2. /\ ~Created(t) /\ UNCHANGED <<clock, dead, kept>>
        /\ up' = FALSE /\ sessions' = NoEntries
        /\ granted' = [granted EXCEPT ![t] = clock + Ttl]
    BY <1>2 DEF CrashInLogin, CrashInSave, GoDown
  <2>3. WithNew(t) \in Entries /\ clock + Ttl # 0
    BY <1>a, MapsAreTyped
  <2>4. \A u \in Token : u # t => WithNew(t)[u] = sessions[u]
    BY <1>b DEF WithNew, Entries
  <2>5. TornIsEmpty'
    BY <1>a, <2>1, <2>3, SaveKeepsGone DEF TornIsEmpty
  <2>6. DeadAreCreated'
    BY <1>a, <1>b, <2>2, <2>3 DEF DeadAreCreated, Created, Entries
  <2>7. ASSUME NEW u \in Token, u \in dead', u \notin kept'
        PROVE  (Gone(sessions[u]) /\ file.entries[u] <= clock)'
    <3>1. WithNew(t)[u] = sessions[u] /\ Gone(sessions[u]) /\ file.entries[u] <= clock
      BY <1>a, <2>2, <2>4, <2>7 DEF DeadAreCreated, DeadAreGone
    <3> QED
      BY <1>a, <2>1, <2>2, <2>3, <3>1, SaveKeepsGone DEF Gone, NoEntries
  <2> QED
    BY <2>2, <2>5, <2>6, <2>7 DEF Refusal, DeadAreGone, RefusedAreDead
<1>3. ASSUME NEW t \in Token, GetLogout(t) PROVE Refusal'
  <2>1. PICK o \in Outcomes :
          /\ file' = Written(o, Without(t))
          /\ kept' = IF o = "old" THEN kept \cup {t} ELSE {u \in kept \cup {t} : Without(t)[u] # 0}
    BY <1>3 DEF GetLogout, SaveSessions
  <2>2. /\ Accepted(t) /\ UNCHANGED <<clock, up, granted>>
        /\ sessions' = Without(t) /\ dead' = dead \cup {t}
    BY <1>3 DEF GetLogout
  <2>3. Without(t) \in Entries
    BY <1>a, MapsAreTyped
  <2>4. Without(t)[t] = 0 /\ \A u \in Token : u # t => Without(t)[u] = sessions[u]
    BY <1>b DEF Without, Entries
  <2>5. TornIsEmpty'
    BY <1>a, <2>1, <2>3, SaveKeepsGone DEF TornIsEmpty
  <2>6. DeadAreCreated'
    BY <1>a, <2>2 DEF DeadAreCreated, Created, Accepted, TypeOK, TermIsKept
  <2>7. ASSUME NEW u \in Token, u \in dead', u \notin kept'
        PROVE  (Gone(sessions[u]) /\ file.entries[u] <= clock)'
    <3>1. CASE o = "old"
      <4>1. u # t /\ u \in dead /\ u \notin kept
        BY <2>1, <2>2, <2>7, <3>1
      <4> QED
        BY <1>a, <2>1, <2>2, <2>3, <2>4, <4>1, SaveKeepsGone DEF Gone, DeadAreGone
    <3>2. CASE o # "old"
      <4>1. Gone(Without(t)[u])
        BY <1>a, <2>1, <2>2, <2>4, <2>7, <3>2 DEF Gone, DeadAreGone
      <4> QED
        BY <1>a, <2>1, <2>2, <2>3, <3>2, <4>1, SaveKeepsGone DEF Gone
    <3> QED
      BY <3>1, <3>2
  <2>8. RefusedAreDead'
    BY <1>a, <2>2, <2>4 DEF RefusedAreDead, Refused, Created
  <2> QED
    BY <2>5, <2>6, <2>7, <2>8 DEF Refusal, DeadAreGone
<1>4. ASSUME NEW t \in Token, CrashInLogout(t) PROVE Refusal'
  <2>1. PICK o \in Outcomes : file' = Written(o, Without(t))
    BY <1>4 DEF CrashInLogout, CrashInSave
  <2>2. UNCHANGED <<clock, dead, kept, granted>> /\ up' = FALSE /\ sessions' = NoEntries
    BY <1>4 DEF CrashInLogout, CrashInSave, GoDown
  <2>3. Without(t) \in Entries
    BY <1>a, MapsAreTyped
  <2>4. TornIsEmpty'
    BY <1>a, <2>1, <2>3, SaveKeepsGone DEF TornIsEmpty
  <2>5. ASSUME NEW u \in Token, u \in dead', u \notin kept'
        PROVE  (Gone(sessions[u]) /\ file.entries[u] <= clock)'
    <3>1. Gone(Without(t)[u]) /\ file.entries[u] <= clock
      BY <1>a, <1>b, <2>2, <2>5 DEF DeadAreGone, Without, Entries, Gone
    <3> QED
      BY <1>a, <2>1, <2>2, <2>3, <3>1, SaveKeepsGone DEF Gone, NoEntries
  <2> QED
    BY <1>a, <2>2, <2>4, <2>5 DEF Refusal, DeadAreGone, RefusedAreDead, DeadAreCreated, Created
<1>5. ASSUME NEW t \in Token, Expire(t) PROVE Refusal'
  <2>1. /\ UNCHANGED <<clock, up, file, granted, dead, kept>>
        /\ sessions' = Without(t) /\ up /\ sessions[t] # 0 /\ Expired(t)
    BY <1>5 DEF Expire
  <2>2. \A u \in Token : Without(t)[u] = IF u = t THEN 0 ELSE sessions[u]
    BY <1>b DEF Without, Entries
  <2>3. Created(t)
    BY <1>a, <2>1 DEF Created, TypeOK, TermIsKept
  <2>4. t \in dead
    BY <1>a, <2>1, <2>3 DEF RefusedAreDead, Refused, Expired
  <2>5. RefusedAreDead'
    BY <1>a, <2>1, <2>2, <2>4 DEF RefusedAreDead, Refused, Created
  <2>6. DeadAreGone'
    BY <1>a, <2>1, <2>2 DEF DeadAreGone, Gone
  <2> QED
    BY <1>a, <2>1, <2>5, <2>6 DEF Refusal, TornIsEmpty, DeadAreCreated, Created
<1>6. CASE Stop
  <2>1. /\ UNCHANGED <<clock, file, granted, dead, kept>>
        /\ up' = FALSE /\ sessions' = NoEntries
    BY <1>6 DEF Stop, GoDown
  <2> QED
    BY <1>a, <2>1 DEF Refusal, TornIsEmpty, DeadAreCreated, Created, DeadAreGone, Gone,
                      RefusedAreDead, NoEntries
<1>7. CASE Start
  <2>1. /\ UNCHANGED <<clock, file, granted, kept>>
        /\ up' = TRUE /\ sessions' = LoadSessions /\ dead' = dead \cup Refused(LoadSessions, clock)
    BY <1>7 DEF Start
  <2>2. \A u \in Token : /\ file.entries[u] <= clock => LoadSessions[u] = 0
                         /\ Gone(LoadSessions[u]) => file.entries[u] <= clock
    BY <1>a, <1>b DEF LoadSessions, Gone, TornIsEmpty, NoEntries
  <2>3. DeadAreCreated'
    BY <1>a, <2>1 DEF DeadAreCreated, Refused, Created
  <2>4. DeadAreGone'
    BY <1>a, <2>1, <2>2 DEF DeadAreGone, Refused, Gone
  <2>5. RefusedAreDead'
    BY <2>1 DEF RefusedAreDead, Refused, Created
  <2> QED
    BY <1>a, <2>1, <2>3, <2>4, <2>5 DEF Refusal, TornIsEmpty
<1>8. CASE Tick
  <2>1. /\ UNCHANGED <<up, sessions, file, granted, kept>> /\ clock' = clock + 1
        /\ dead' = IF up THEN dead \cup Refused(sessions, clock + 1) ELSE dead
    BY <1>8 DEF Tick
  <2>2. DeadAreCreated'
    BY <1>a, <2>1 DEF DeadAreCreated, Refused, Created
  <2>3. ASSUME NEW u \in Token, u \in dead', u \notin kept'
        PROVE  (Gone(sessions[u]) /\ file.entries[u] <= clock)'
    <3>1. CASE u \in dead
      BY <1>a, <1>b, <2>1, <2>3, <3>1 DEF DeadAreGone, Gone
    <3>2. CASE u \notin dead
      <4>1. up /\ u \in Refused(sessions, clock + 1) /\ u \notin Refused(sessions, clock)
        BY <1>a, <2>1, <2>3, <3>2 DEF RefusedAreDead
      <4>2. sessions[u] # 0 /\ clock + 1 > sessions[u]
        BY <4>1 DEF Refused
      <4>3. file.entries[u] \in {0, sessions[u]}
        BY <1>a, <4>2 DEF TypeOK, TermIsKept
      <4> QED
        BY <1>b, <2>1, <4>2, <4>3 DEF Gone
    <3> QED
      BY <3>1, <3>2
  <2>4. RefusedAreDead'
    BY <2>1 DEF RefusedAreDead, Refused, Created
  <2> QED
    BY <1>a, <2>1, <2>2, <2>3, <2>4 DEF Refusal, TornIsEmpty, DeadAreGone
<1>9. CASE UNCHANGED vars
  BY <1>a, <1>9 DEF vars, Refusal, TornIsEmpty, DeadAreGone, DeadAreCreated, RefusedAreDead,
                    Gone, Refused, Created
<1> QED
  BY <1>1, <1>2, <1>3, <1>4, <1>5, <1>6, <1>7, <1>8, <1>9 DEF Next

\* A token the server has refused - logged out, expired, or lost with the file - is not
\* let in again, except for a logout that a failed save left in the file.
THEOREM Refusals == Spec => []RefusedStaysRefused
<1>1. RefusedInv => RefusedStaysRefused
  <2> SUFFICES ASSUME RefusedInv, NEW t \in dead, Accepted(t) PROVE t \in kept
    BY DEF RefusedStaysRefused
  <2>1. t \in Token /\ sessions[t] # 0 /\ ~(clock > sessions[t])
    BY DEF RefusedInv, TypeOK, Accepted, Expired
  <2> QED
    BY <2>1 DEF RefusedInv, Refusal, DeadAreGone, Gone
<1> QED
  BY <1>1, RefusedInit, RefusedStep, PTL DEF Spec

(***************************************************************************)
(* An answered login lasts its term.  While the server runs, memory has    *)
(* it; the file has it while the last save is complete or the server is    *)
(* down, for whoever is held when it goes down without that is in `lost`.  *)
(***************************************************************************)
Lasts(t) == t \in held /\ t \notin out /\ t \notin lost /\ clock < granted[t]

HeldAreCreated == \A t \in held : Created(t)

InMemory == up => \A t \in Token : Lasts(t) => sessions[t] = granted[t]

OnFile ==
  saved \/ ~up => \A t \in Token : Lasts(t) => file.whole /\ file.entries[t] = granted[t]

Survival == HeldAreCreated /\ InMemory /\ OnFile
SurvivalInv == TypeOK /\ Survival

\* Nobody holds a session at first.
LEMMA SurvivalInit == Init => SurvivalInv
BY TypeInit DEF Init, SurvivalInv, Survival, HeldAreCreated, InMemory, OnFile, Lasts

\* Every step preserves it.
LEMMA SurvivalStep == SurvivalInv /\ [Next]_vars => SurvivalInv'
<1> SUFFICES ASSUME SurvivalInv, [Next]_vars PROVE Survival'
  BY TypeStep DEF SurvivalInv
<1>a. TypeOK /\ HeldAreCreated /\ InMemory /\ OnFile
  BY DEF SurvivalInv, Survival
<1>b. /\ clock \in Nat /\ sessions \in Entries /\ granted \in Entries
      /\ \A u \in Token : granted[u] \in Nat
  BY <1>a DEF TypeOK, Entries, Times
<1>1. ASSUME NEW t \in Token, PostLogin(t) PROVE Survival'
  <2>1. PICK o \in Outcomes : file' = Written(o, WithNew(t)) /\ saved' = (o = "new")
    BY <1>1 DEF PostLogin, SaveSessions
  <2>2. /\ up /\ up' = up /\ UNCHANGED <<clock, out, lost>> /\ ~Created(t) /\ held' = held \cup {t}
        /\ sessions' = WithNew(t) /\ granted' = [granted EXCEPT ![t] = clock + Ttl]
    BY <1>1 DEF PostLogin
  <2>3. /\ clock + Ttl # 0 /\ granted'[t] = clock + Ttl /\ WithNew(t)[t] = clock + Ttl
        /\ \A u \in Token : u # t => granted'[u] = granted[u] /\ WithNew(t)[u] = sessions[u]
    BY <1>a, <1>b, <2>2, MapsAreTyped DEF WithNew, Entries
  <2>4. HeldAreCreated'
    BY <1>a, <2>2, <2>3 DEF HeldAreCreated, Created, TypeOK
  <2>5. \A u \in Token : Lasts(u)' => WithNew(t)[u] = granted'[u]
    BY <1>a, <2>2, <2>3 DEF InMemory, Lasts
  <2>6. ASSUME saved' PROVE file'.whole /\ file'.entries = WithNew(t)
    <3>1. o = "new"
      BY <2>1, <2>6, Zenon
    <3> QED
      BY <2>1, <3>1, WrittenCases
  <2> QED
    BY <2>2, <2>4, <2>5, <2>6 DEF Survival, InMemory, OnFile
<1>2. ASSUME NEW t \in Token, CrashInLogin(t) PROVE Survival'
  <2>1. PICK o \in Outcomes :
          /\ file' = Written(o, WithNew(t))
          /\ saved' = (o = "new" \/ (o = "old" /\ saved))
          /\ GoDown(saved')
    BY <1>2 DEF CrashInLogin, CrashInSave
  <2>2. /\ up /\ UNCHANGED <<clock, out, held>> /\ ~Created(t)
        /\ granted' = [granted EXCEPT ![t] = clock + Ttl]
    BY <1>2 DEF CrashInLogin
  <2>3. /\ clock + Ttl # 0 /\ granted'[t] = clock + Ttl
        /\ \A u \in Token : u # t => granted'[u] = granted[u] /\ WithNew(t)[u] = sessions[u]
    BY <1>a, <1>b, <2>2, MapsAreTyped DEF WithNew, Entries
  <2>4. HeldAreCreated'
    BY <1>a, <2>2, <2>3 DEF HeldAreCreated, Created, TypeOK
  <2>5. ASSUME NEW u \in Token, Lasts(u)' PROVE file'.whole /\ file'.entries[u] = granted'[u]
    <3>1. u # t /\ u \in held
      BY <1>a, <2>2, <2>5 DEF HeldAreCreated, Lasts
    <3>2. saved' /\ lost' = lost
      BY <2>1, <2>2, <2>5, <3>1 DEF GoDown, Lasts
    <3>3. Lasts(u) /\ sessions[u] = granted[u]
      BY <1>a, <2>2, <2>3, <2>5, <3>1, <3>2 DEF Lasts, InMemory
    <3>4. CASE o = "new"
      BY <2>1, <2>3, <3>1, <3>3, <3>4, WrittenCases
    <3>5. CASE o = "old" /\ saved
      BY <1>a, <2>1, <2>3, <3>1, <3>3, <3>5, WrittenCases DEF OnFile
    <3> QED
      BY <2>1, <3>2, <3>4, <3>5
  <2> QED
    BY <2>1, <2>4, <2>5 DEF Survival, InMemory, OnFile, GoDown
<1>3. ASSUME NEW t \in Token, GetLogout(t) PROVE Survival'
  <2>1. PICK o \in Outcomes : file' = Written(o, Without(t)) /\ saved' = (o = "new")
    BY <1>3 DEF GetLogout, SaveSessions
  <2>2. /\ up /\ up' = up /\ UNCHANGED <<clock, lost, held, granted>> /\ out' = out \cup {t}
        /\ sessions' = Without(t)
    BY <1>3 DEF GetLogout, Accepted
  <2>3. \A u \in Token : u # t => Without(t)[u] = sessions[u]
    BY <1>b DEF Without, Entries
  <2>4. \A u \in Token : Lasts(u)' => Without(t)[u] = granted'[u]
    BY <1>a, <2>2, <2>3 DEF InMemory, Lasts
  <2>5. ASSUME saved' PROVE file'.whole /\ file'.entries = Without(t)
    <3>1. o = "new"
      BY <2>1, <2>5, Zenon
    <3> QED
      BY <2>1, <3>1, WrittenCases
  <2> QED
    BY <1>a, <2>2, <2>4, <2>5 DEF Survival, InMemory, OnFile, HeldAreCreated, Created
<1>4. ASSUME NEW t \in Token, CrashInLogout(t) PROVE Survival'
  <2>1. PICK o \in Outcomes :
          /\ file' = Written(o, Without(t))
          /\ saved' = (o = "new" \/ (o = "old" /\ saved))
          /\ GoDown(saved')
    BY <1>4 DEF CrashInLogout, CrashInSave
  <2>2. up /\ UNCHANGED <<clock, held, granted>> /\ out' = out \cup {t}
    BY <1>4 DEF CrashInLogout, Accepted
  <2>3. \A u \in Token : u # t => Without(t)[u] = sessions[u]
    BY <1>b DEF Without, Entries
  <2>4. ASSUME NEW u \in Token, Lasts(u)' PROVE file'.whole /\ file'.entries[u] = granted'[u]
    <3>1. u # t /\ u \in held
      BY <2>2, <2>4 DEF Lasts
    <3>2. saved' /\ lost' = lost
      BY <2>1, <2>2, <2>4, <3>1 DEF GoDown, Lasts
    <3>3. Lasts(u) /\ sessions[u] = granted[u]
      BY <1>a, <2>2, <2>4, <3>1, <3>2 DEF Lasts, InMemory
    <3>4. CASE o = "new"
      BY <2>1, <2>2, <2>3, <3>1, <3>3, <3>4, WrittenCases
    <3>5. CASE o = "old" /\ saved
      BY <1>a, <2>1, <2>2, <3>1, <3>3, <3>5, WrittenCases DEF OnFile
    <3> QED
      BY <2>1, <3>2, <3>4, <3>5
  <2> QED
    BY <1>a, <2>1, <2>2, <2>4 DEF Survival, InMemory, OnFile, GoDown, HeldAreCreated, Created
<1>5. ASSUME NEW t \in Token, Expire(t) PROVE Survival'
  <2>1. /\ UNCHANGED <<clock, up, file, granted, held, out, saved, lost>>
        /\ sessions' = Without(t) /\ up /\ Expired(t)
    BY <1>5 DEF Expire
  <2>2. \A u \in Token : u # t => Without(t)[u] = sessions[u]
    BY <1>b DEF Without, Entries
  <2>3. ~Lasts(t)
    BY <1>a, <1>b, <2>1 DEF InMemory, Lasts, Expired
  <2> QED
    BY <1>a, <2>1, <2>2, <2>3 DEF Survival, InMemory, OnFile, HeldAreCreated, Created, Lasts
<1>6. CASE Stop
  <2>1. /\ UNCHANGED <<clock, file, granted, held, out, saved>> /\ up' = FALSE /\ up
        /\ lost' = IF saved THEN lost ELSE lost \cup held
    BY <1>6 DEF Stop, GoDown
  <2> QED
    BY <1>a, <2>1 DEF Survival, InMemory, OnFile, HeldAreCreated, Created, Lasts
<1>7. CASE Start
  <2>1. /\ UNCHANGED <<clock, file, granted, held, out, saved, lost>>
        /\ ~up /\ up' = TRUE /\ sessions' = LoadSessions
    BY <1>7 DEF Start
  <2>2. \A u \in Token : Lasts(u) => file.whole /\ file.entries[u] = granted[u]
    BY <1>a, <2>1 DEF OnFile
  <2>3. \A u \in Token : Lasts(u) => LoadSessions[u] = granted[u]
    BY <1>b, <2>2 DEF LoadSessions, Lasts
  <2> QED
    BY <1>a, <2>1, <2>2, <2>3 DEF Survival, InMemory, OnFile, HeldAreCreated, Created, Lasts
<1>8. CASE Tick
  <2>1. /\ UNCHANGED <<up, sessions, file, granted, held, out, saved, lost>>
        /\ clock' = clock + 1
    BY <1>8 DEF Tick
  <2>2. \A u \in Token : Lasts(u)' => Lasts(u)
    BY <1>b, <2>1 DEF Lasts
  <2> QED
    BY <1>a, <2>1, <2>2 DEF Survival, InMemory, OnFile, HeldAreCreated, Created
<1>9. CASE UNCHANGED vars
  BY <1>a, <1>9 DEF vars, Survival, InMemory, OnFile, HeldAreCreated, Created, Lasts
<1> QED
  BY <1>1, <1>2, <1>3, <1>4, <1>5, <1>6, <1>7, <1>8, <1>9 DEF Next

\* A login that was answered is good for its term, unless a logout was asked for or the
\* server went down while its last save was incomplete.
THEOREM LoginsLast == Spec => []LoginsSurvive
<1>1. SurvivalInv => LoginsSurvive
  <2> SUFFICES ASSUME SurvivalInv, NEW t \in held, up, clock < granted[t], t \notin out, t \notin lost
               PROVE  Accepted(t)
    BY DEF LoginsSurvive
  <2>1. t \in Token /\ sessions[t] = granted[t] /\ granted[t] # 0
    BY DEF SurvivalInv, Survival, InMemory, HeldAreCreated, Created, Lasts, TypeOK
  <2>2. clock \in Nat /\ granted[t] \in Nat
    BY <2>1 DEF SurvivalInv, TypeOK, Entries, Times
  <2> QED
    BY <2>1, <2>2 DEF Accepted, Expired
<1> QED
  BY <1>1, SurvivalInit, SurvivalStep, PTL DEF Spec
-----------------------------------------------------------------------------
Among(x, s) == \E k \in DOMAIN s : s[k] = x

\* The device's samples are numbered by insertion, and what has been read back was inserted.
Numbered ==
  \A d \in Devices : /\ devSeq[d] <= histI[d]
                     /\ \A k \in DOMAIN hist[d] : hist[d][k].i <= histI[d]

\* HIST_SEQS has the number of every sample read back that is drawn, and none is drawn twice.
DrawnOnce(c) ==
  /\ \A k \in DOMAIN c.shown : c.shown[k].seq # 0 => c.shown[k].seq \in c.seqs
  /\ \A j, k \in DOMAIN c.shown : c.shown[j].seq # 0 /\ c.shown[j].seq = c.shown[k].seq => j = k

DrawnInv == ChartTypeOK /\ Numbered /\ DrawnOnce(chart)

\* Nobody asks above what the page has, nor for another device.
AsksForNew ==
  \A f \in Fetches : /\ fetch[f].at # "none" => fetch[f].dev = cur
                     /\ fetch[f].at = "sent" => fetch[f].since <= chart.last

\* An answer has all the samples up to its newest one that the page has not.
AnswersAll ==
  \A f \in Fetches : fetch[f].at = "answered" =>
    \A m \in DOMAIN fetch[f].samples :
      /\ fetch[f].samples[m].i <= histI[cur]
      /\ \A k \in DOMAIN hist[cur] :
           hist[cur][k].i <= fetch[f].samples[m].i =>
             hist[cur][k].i <= chart.last \/ Among(hist[cur][k], fetch[f].samples)

ShownInv ==
  DrawnInv /\ chart.last <= histI[cur] /\ AsksForNew /\ AnswersAll /\ BelowLastIsShown

-----------------------------------------------------------------------------
(***************************************************************************)
(* Induction over the positions of a list, as a set.                       *)
(***************************************************************************)

\* What holds of 0, and of k whenever it holds of k - 1, holds of all of 0..n: a least
\* interval 0..k that reaches out of T would have a smaller one inside it.
LEMMA SetInduction ==
  ASSUME NEW n \in Nat, NEW T, 0 \in T,
         \A k \in 1..n : k - 1 \in T => k \in T
  PROVE  \A k \in 0..n : k \in T
<1> DEFINE U == {k \in 0..n : k \notin T}
           D == {0..k : k \in U}
           O == StrictSubsetOrdering(0..n)
<1> SUFFICES ASSUME U # {}
             PROVE  FALSE
  OBVIOUS
<1>1. D \subseteq SUBSET (0..n) /\ D # {}
  OBVIOUS
<1>2. IsWellFoundedOn(O, SUBSET (0..n))
  <2>1. IsFiniteSet(0..n)
    BY FS_Interval
  <2> QED
    BY <2>1, FS_FiniteSubsetsOfFinite, FS_StrictSubsetOrderingWellFounded, ZenonT(30)
<1>3. PICK A \in D : \A B \in D : <<B, A>> \notin O
  <2> HIDE DEF D, O
  <2> QED
    BY <1>1, <1>2, WFMin, Zenon
<1>4. PICK m \in U : A = 0..m
  OBVIOUS
<1>5. m \in 1..n
  OBVIOUS
<1>6. m - 1 \in U
  BY <1>5
<1>7. <<0..(m - 1), 0..m>> \in O
  <2>1. 0..(m - 1) \in SUBSET (0..n) /\ 0..m \in SUBSET (0..n)
    BY <1>5
  <2>2. 0..(m - 1) \subseteq 0..m /\ m \in 0..m /\ m \notin 0..(m - 1)
    BY <1>5
  <2> QED
    BY <2>1, <2>2 DEF StrictSubsetOrdering
<1>8. 0..(m - 1) \in D
  BY <1>6
<1> QED
  BY <1>3, <1>4, <1>7, <1>8

IsRun(S, b, n, F, g) ==
  /\ g \in [0..n -> S] /\ g[0] = b
  /\ \A k \in 1..n : g[k] = F[k][g[k - 1]]

\* Steps that map S into S can be taken n times from an element of S.
LEMMA Iterates ==
  ASSUME NEW S, NEW b \in S, NEW n \in Nat, NEW F \in [1..n -> [S -> S]]
  PROVE  \E g : IsRun(S, b, n, F, g)
<1> DEFINE Run(g, m) == g[0] = b /\ \A k \in 1..m : g[k] = F[k][g[k - 1]]
           T == {m \in 0..n : \E g \in [0..m -> S] : Run(g, m)}
<1>1. 0 \in T
  <2> DEFINE g == [k \in 0..0 |-> b]
  <2>1. g \in [0..0 -> S] /\ Run(g, 0)
    OBVIOUS
  <2>2. 0 \in 0..n
    OBVIOUS
  <2> HIDE DEF g, Run
  <2> QED
    BY <2>1, <2>2
<1>2. ASSUME NEW m \in 1..n, m - 1 \in T
      PROVE  m \in T
  <2>1. PICK g \in [0..(m - 1) -> S] : Run(g, m - 1)
    BY <1>2
  <2> DEFINE h == [k \in 0..m |-> IF k = m THEN F[m][g[m - 1]] ELSE g[k]]
  <2>2. m - 1 \in 0..(m - 1) /\ 0 \in 0..(m - 1) /\ m \in 0..m /\ 0 \in 0..m /\ m # 0
    OBVIOUS
  <2>3. F[m][g[m - 1]] \in S
    BY <2>2
  <2>4. h \in [0..m -> S]
    BY <2>3
  <2>5. h[0] = b
    BY <2>1, <2>2
  <2>6. ASSUME NEW k \in 1..m
        PROVE  h[k] = F[k][h[k - 1]]
    <3>1. CASE k = m
      <4>1. h[k - 1] = g[m - 1] /\ h[k] = F[m][g[m - 1]]
        BY <3>1
      <4> QED
        BY <3>1, <4>1
    <3>2. CASE k # m
      <4>1. k \in 1..(m - 1) /\ h[k] = g[k] /\ h[k - 1] = g[k - 1]
        BY <3>2
      <4> QED
        BY <2>1, <4>1
    <3> QED
      BY <3>1, <3>2
  <2>7. Run(h, m)
    BY <2>5, <2>6
  <2>8. m \in 0..n
    OBVIOUS
  <2> HIDE DEF h, Run
  <2> QED
    BY <2>4, <2>7, <2>8
<1>3. n \in T
  <2> HIDE DEF T
  <2>1. \A k \in 0..n : k \in T
    BY <1>1, <1>2, SetInduction
  <2> QED
    BY <2>1
<1> QED
  BY <1>3 DEF IsRun


-----------------------------------------------------------------------------
(***************************************************************************)
(* The operators.                                                          *)
(***************************************************************************)

\* The bounds are positive numbers.
LEMMA Bounds ==
  /\ HistMax \in Nat \ {0} /\ MaxI \in Nat \ {0}
  /\ MaxBoot \in Nat \ {0} /\ MaxRun \in Nat \ {0}
BY BoundAssumption

\* InsertAt puts one element into a list and moves the later ones up.
LEMMA InsertAtEffect ==
  ASSUME NEW S, NEW s \in Seq(S), NEW e \in S, NEW i \in 1..(Len(s) + 1)
  PROVE  /\ InsertAt(s, i, e) \in Seq(S)
         /\ \A k \in DOMAIN InsertAt(s, i, e) :
              InsertAt(s, i, e)[k] = e \/ Among(InsertAt(s, i, e)[k], s)
<1>1. InsertAt(s, i, e) = SubSeq(s, 1, i - 1) \o <<e>> \o SubSeq(s, i, Len(s))
  BY DEF InsertAt
<1>2. SubSeq(s, 1, i - 1) \in Seq(S) /\ SubSeq(s, i, Len(s)) \in Seq(S) /\ <<e>> \in Seq(S)
  BY SMTT(30)
<1>3. ASSUME NEW p \in Seq(S), NEW q \in Seq(S),
             \A k \in DOMAIN p : Among(p[k], s), \A k \in DOMAIN q : Among(q[k], s)
      PROVE  \A k \in DOMAIN (p \o <<e>> \o q) :
               (p \o <<e>> \o q)[k] = e \/ Among((p \o <<e>> \o q)[k], s)
  BY <1>3, SMTT(30)
<1>4. \A k \in DOMAIN SubSeq(s, 1, i - 1) : Among(SubSeq(s, 1, i - 1)[k], s)
  BY SMTT(30) DEF Among
<1>5. \A k \in DOMAIN SubSeq(s, i, Len(s)) : Among(SubSeq(s, i, Len(s))[k], s)
  BY SMTT(30) DEF Among
<1>6. InsertAt(s, i, e) \in Seq(S)
  <2> DEFINE p == SubSeq(s, 1, i - 1)
             q == SubSeq(s, i, Len(s))
  <2> HIDE DEF p, q
  <2>1. p \in Seq(S) /\ q \in Seq(S) => p \o <<e>> \o q \in Seq(S)
    OBVIOUS
  <2> QED
    BY <1>1, <1>2, <2>1 DEF p, q
<1> QED
  BY <1>1, <1>2, <1>3, <1>4, <1>5, <1>6, Zenon

\* Trim keeps the end of the list, HistMax samples of it.
LEMMA TrimEffect ==
  ASSUME NEW S, NEW s \in Seq(S)
  PROVE  /\ Trim(s) \in Seq(S) /\ Len(Trim(s)) <= HistMax
         /\ \A k \in DOMAIN Trim(s) : Among(Trim(s)[k], s)
<1>1. CASE Len(s) > HistMax
  <2>1. Trim(s) = SubSeq(s, Len(s) - HistMax + 1, Len(s))
    BY <1>1 DEF Trim
  <2>2. Len(s) \in Nat /\ Len(s) - HistMax + 1 \in 1..Len(s)
    BY <1>1, Bounds
  <2>3. \A a \in 1..Len(s) :
          /\ SubSeq(s, a, Len(s)) \in Seq(S) /\ Len(SubSeq(s, a, Len(s))) = Len(s) - a + 1
          /\ \A k \in 1..(Len(s) - a + 1) : SubSeq(s, a, Len(s))[k] = s[a + k - 1] /\ a + k - 1 \in DOMAIN s
    BY SMTT(30)
  <2> QED
    BY <2>1, <2>2, <2>3, Bounds DEF Among
<1>2. CASE ~(Len(s) > HistMax)
  <2>1. Trim(s) = s
    BY <1>2 DEF Trim
  <2> QED
    BY <1>2, <2>1, Bounds DEF Among
<1> QED
  BY <1>1, <1>2

\* A sample put into the history has a number no other has had; the rest was there before.
LEMMA HistAddEffect ==
  ASSUME ChartTypeOK, NEW d \in Devices, NEW seq \in 0..MaxI,
         NEW pos \in 1..(Len(hist[d]) + 1), HistAdd(d, seq, pos)
  PROVE  /\ histI[d] \in 0..(MaxI - 1)
         /\ histI' \in [Devices -> 0..MaxI] /\ histI'[d] = histI[d] + 1
         /\ \A b \in Devices : b # d => histI'[b] = histI[b] /\ hist'[b] = hist[b]
         /\ hist' \in [Devices -> Seq(Samples)]
         /\ \A b \in Devices : Len(hist'[b]) <= HistMax
         /\ \A k \in DOMAIN hist'[d] : hist'[d][k].i = histI[d] + 1 \/ Among(hist'[d][k], hist[d])
<1> DEFINE x == [dev |-> d, run |-> run, boot |-> boot[d], i |-> histI'[d], seq |-> seq]
           h == InsertAt(hist[d], pos, x)
<1>1. /\ histI \in [Devices -> 0..MaxI] /\ hist \in [Devices -> Seq(Samples)]
      /\ \A b \in Devices : Len(hist[b]) <= HistMax
      /\ run \in 1..MaxRun /\ boot[d] \in 1..MaxBoot
  BY DEF ChartTypeOK
<1>2. histI[d] \in 0..(MaxI - 1) /\ histI' = [histI EXCEPT ![d] = histI[d] + 1]
  BY <1>1, Bounds DEF HistAdd
<1>3. histI' \in [Devices -> 0..MaxI] /\ histI'[d] = histI[d] + 1 /\ histI'[d] \in 1..MaxI
  BY <1>1, <1>2, Bounds
<1>4. x \in Samples
  BY <1>1, <1>3 DEF Samples
<1>5. hist' = [hist EXCEPT ![d] = Trim(h)]
  BY <1>1 DEF HistAdd
<1>6. x.i = histI[d] + 1
  BY <1>3
<1> HIDE DEF x
<1>7. /\ h \in Seq(Samples)
      /\ \A k \in DOMAIN h : h[k] = x \/ Among(h[k], hist[d])
  BY <1>1, <1>4, InsertAtEffect, Zenon
<1> HIDE DEF h
<1>8. /\ Trim(h) \in Seq(Samples) /\ Len(Trim(h)) <= HistMax
      /\ \A k \in DOMAIN Trim(h) : Among(Trim(h)[k], h)
  BY <1>7, TrimEffect, Zenon
<1>9. \A k \in DOMAIN Trim(h) : Trim(h)[k] = x \/ Among(Trim(h)[k], hist[d])
  <2> TAKE k \in DOMAIN Trim(h)
  <2>1. PICK j \in DOMAIN h : h[j] = Trim(h)[k]
    BY <1>8, Zenon DEF Among
  <2> QED
    BY <1>7, <2>1, Zenon
<1>10. hist'[d] = Trim(h) /\ hist' \in [Devices -> Seq(Samples)]
  BY <1>1, <1>5, <1>8, Zenon
<1>11. \A b \in Devices : b # d => histI'[b] = histI[b] /\ hist'[b] = hist[b]
  BY <1>1, <1>2, <1>5
<1>12. \A b \in Devices : Len(hist'[b]) <= HistMax
  BY <1>1, <1>8, <1>10, <1>11, Zenon
<1>13. \A k \in DOMAIN hist'[d] : hist'[d][k].i = histI[d] + 1 \/ Among(hist'[d][k], hist[d])
  BY <1>6, <1>9, <1>10, Zenon
<1> QED
  BY <1>2, <1>3, <1>10, <1>11, <1>12, <1>13, Zenon

\* What the answer to a fetch has of the first k samples of a history.
Wanted(x, since) == since = 0 \/ x.i > since

Answers(s, h, since, k) ==
  /\ \A m \in DOMAIN s : Among(s[m], h)
  /\ \A j \in 1..k : Wanted(h[j], since) => Among(h[j], s)

\* Looking at one more sample.
LEMMA AnswersAppend ==
  ASSUME NEW h \in Seq(Samples), NEW since \in Nat, NEW k \in 1..Len(h), NEW s \in Seq(Samples),
         Answers(s, h, since, k - 1)
  PROVE  /\ Wanted(h[k], since) => Answers(Append(s, h[k]), h, since, k)
         /\ ~Wanted(h[k], since) => Answers(s, h, since, k)
<1>1. \A j \in 1..k : j = k \/ j \in 1..(k - 1)
  OBVIOUS
<1>2. k \in DOMAIN h /\ h[k] \in Samples
  OBVIOUS
<1>3. /\ \A m \in DOMAIN s : m \in DOMAIN Append(s, h[k]) /\ Append(s, h[k])[m] = s[m]
      /\ \A m \in DOMAIN Append(s, h[k]) : m \in DOMAIN s \/ Append(s, h[k])[m] = h[k]
      /\ \E m \in DOMAIN Append(s, h[k]) : Append(s, h[k])[m] = h[k]
  <2>1. Len(s) \in Nat /\ DOMAIN s = 1..Len(s) /\ Len(Append(s, h[k])) = Len(s) + 1
    OBVIOUS
  <2>2. DOMAIN Append(s, h[k]) = 1..(Len(s) + 1) /\ Append(s, h[k])[Len(s) + 1] = h[k]
    BY <1>2
  <2>3. \A m \in 1..Len(s) : Append(s, h[k])[m] = s[m]
    BY <1>2
  <2> QED
    BY <2>1, <2>2, <2>3
<1> DEFINE t == Append(s, h[k])
<1> HIDE DEF t
<1>4. ASSUME Wanted(h[k], since)
      PROVE  Answers(t, h, since, k)
  <2>1. \A m \in DOMAIN t : Among(t[m], h)
    BY <1>2, <1>3, Zenon DEF Answers, Among, t
  <2>2. \A j \in 1..k : Wanted(h[j], since) => Among(h[j], t)
    BY <1>1, <1>3, Zenon DEF Answers, Among, t
  <2> QED
    BY <2>1, <2>2, Zenon DEF Answers
<1>5. ASSUME ~Wanted(h[k], since)
      PROVE  Answers(s, h, since, k)
  BY <1>1, <1>5, Zenon DEF Answers
<1> QED
  BY <1>4, <1>5, Zenon DEF t

\* The list after a sample of the history has been looked at.
Kept(s, x, since) == IF since = 0 \/ x.i > since THEN Append(s, x) ELSE s

\* The answer to a fetch has the samples asked for, and they are samples of the history.
LEMMA FilterEffect ==
  ASSUME NEW h \in Seq(Samples), NEW since \in Nat
  PROVE  Filter(h, since) \in Seq(Samples) /\ Answers(Filter(h, since), h, since, Len(h))
<1> DEFINE S == Seq(Samples)
           n == Len(h)
           picked[k \in 0..n] == IF k = 0 THEN <<>> ELSE Kept(picked[k - 1], h[k], since)
           F == [k \in 1..n |-> [s \in S |-> Kept(s, h[k], since)]]
<1>1. n \in Nat /\ (\A k \in 1..n : h[k] \in Samples) /\ <<>> \in S
  OBVIOUS
<1>2. \A k \in 1..n, s \in S : Kept(s, h[k], since) \in S
  BY <1>1 DEF Kept
<1>3. F \in [1..n -> [S -> S]] /\ \A s \in S, k \in 1..n : F[k][s] = Kept(s, h[k], since)
  <2> HIDE DEF S, n
  <2> QED
    BY <1>2
<1>4. picked[n] = Filter(h, since)
  BY DEF Filter, Kept
<1>5. PICK g : IsRun(S, <<>>, n, F, g)
  <2> HIDE DEF F, n, S, picked
  <2> QED
    BY <1>1, <1>3, Iterates
<1>6. /\ g \in [0..n -> S] /\ g[0] = <<>>
      /\ \A k \in 1..n : k - 1 \in 0..n /\ g[k] = Kept(g[k - 1], h[k], since)
  <2> HIDE DEF F, n, S, picked
  <2>1. \A k \in 1..n : k - 1 \in 0..n
    BY <1>1
  <2> QED
    BY <1>3, <1>5, <2>1 DEF IsRun
<1>7. g = [k \in 0..n |-> IF k = 0 THEN <<>> ELSE Kept(g[k - 1], h[k], since)]
  <2> HIDE DEF F, n, S, picked
  <2>1. \A k \in 0..n : k # 0 => k \in 1..n
    BY <1>1
  <2> QED
    BY <1>6, <2>1
<1>8. picked = [k \in 0..n |-> IF k = 0 THEN <<>> ELSE Kept(picked[k - 1], h[k], since)]
  <2> HIDE DEF F, n, S
  <2> QED
    BY <1>7
<1> HIDE DEF picked, F, S
<1> DEFINE E == {k \in 0..n : picked[k] \in S /\ Answers(picked[k], h, since, k)}
<1>9. 0 \in E
  <2>1. picked[0] = <<>> /\ 0 \in 0..n
    BY <1>1, <1>8
  <2>2. Answers(<<>>, h, since, 0)
    BY DEF Answers
  <2> QED
    BY <1>1, <2>1, <2>2
<1>10. ASSUME NEW k \in 1..n, k - 1 \in E
       PROVE  k \in E
  <2>1. k \in 0..n /\ k # 0 /\ k \in 1..Len(h) /\ h[k] \in Samples
    BY <1>1
  <2>2. picked[k] = Kept(picked[k - 1], h[k], since)
    BY <1>8, <2>1
  <2>3. picked[k - 1] \in S /\ Answers(picked[k - 1], h, since, k - 1)
    BY <1>10
  <2>4. picked[k] = IF Wanted(h[k], since) THEN Append(picked[k - 1], h[k]) ELSE picked[k - 1]
    BY <2>2 DEF Kept, Wanted
  <2>5. /\ Wanted(h[k], since) => Answers(Append(picked[k - 1], h[k]), h, since, k)
        /\ ~Wanted(h[k], since) => Answers(picked[k - 1], h, since, k)
    BY <2>1, <2>3, AnswersAppend, Zenon DEF S
  <2>6. picked[k] \in S
    BY <1>2, <2>1, <2>2, <2>3
  <2>7. Answers(picked[k], h, since, k)
    BY <2>4, <2>5, Zenon
  <2> QED
    BY <2>1, <2>6, <2>7
<1>11. n \in E
  <2> HIDE DEF E, n
  <2>1. \A k \in 0..n : k \in E
    BY <1>1, <1>9, <1>10, SetInduction
  <2> QED
    BY <1>1, <2>1
<1> QED
  BY <1>4, <1>11 DEF S

\* What is drawn stays drawn, and numbers that are known stay known.
Grows(c, e) ==
  /\ \A k \in DOMAIN c.shown : Among(c.shown[k], e.shown)
  /\ c.seqs \subseteq e.seqs
  /\ c.last <= e.last

\* A sample is in a chart, or its number is.
Taken(x, c) == Among(x, c.shown) \/ x.seq \in c.seqs

\* Growing twice is growing.
LEMMA GrowsOn ==
  ASSUME NEW c \in Charts, NEW d \in Charts, NEW e \in Charts, Grows(c, d), Grows(d, e)
  PROVE  Grows(c, e) /\ \A x : Taken(x, d) => Taken(x, e)
<1>1. c.last \in 0..MaxI /\ d.last \in 0..MaxI /\ e.last \in 0..MaxI
  BY DEF Charts
<1>2. c.last <= e.last
  BY <1>1, Bounds DEF Grows
<1>3. \A x : Among(x, d.shown) => Among(x, e.shown)
  BY Zenon DEF Grows, Among
<1>4. \A k \in DOMAIN c.shown : Among(c.shown[k], e.shown)
  BY <1>3, Zenon DEF Grows
<1>5. c.seqs \subseteq e.seqs /\ d.seqs \subseteq e.seqs
  BY DEF Grows
<1>6. \A x : Taken(x, d) => Taken(x, e)
  BY <1>3, <1>5, Zenon DEF Taken
<1> QED
  BY <1>2, <1>4, <1>5, <1>6, Zenon DEF Grows

\* One turn of the page's loop.
LEMMA AddSampleEffect ==
  ASSUME NEW c \in Charts, NEW x \in Samples
  PROVE  /\ AddSample(c, x) \in Charts
         /\ Grows(c, AddSample(c, x))
         /\ Taken(x, AddSample(c, x))
         /\ AddSample(c, x).last \in {c.last, x.i}
         /\ DrawnOnce(c) => DrawnOnce(AddSample(c, x))
<1> DEFINE e == AddSample(c, x)
           last == IF x.i > c.last THEN x.i ELSE c.last
           seqs == IF x.seq = 0 THEN c.seqs ELSE c.seqs \cup {x.seq}
<1>1. /\ c = [shown |-> c.shown, last |-> c.last, seqs |-> c.seqs]
      /\ c.shown \in Seq(Samples) /\ c.last \in 0..MaxI /\ c.seqs \in SUBSET (1..MaxI)
      /\ x.i \in 1..MaxI /\ x.seq \in 0..MaxI /\ MaxI \in Nat
  BY Bounds DEF Charts, Samples
<1>2. last \in 0..MaxI /\ c.last <= last /\ last \in {c.last, x.i} /\ seqs \in SUBSET (1..MaxI)
  BY <1>1
<1>3. CASE x.seq \in c.seqs
  <2>1. e = [shown |-> c.shown, last |-> last, seqs |-> c.seqs]
    BY <1>1, <1>3 DEF AddSample
  <2> HIDE DEF e, last
  <2>2. e.shown = c.shown /\ e.last = last /\ e.seqs = c.seqs
    BY <2>1
  <2>3. e \in Charts
    BY <1>1, <1>2, <2>1 DEF Charts
  <2>4. Grows(c, e)
    BY <1>2, <2>2 DEF Grows, Among
  <2>5. Taken(x, e)
    BY <1>3, <2>2 DEF Taken
  <2>6. DrawnOnce(c) => DrawnOnce(e)
    BY <2>2, Zenon DEF DrawnOnce
  <2> QED
    BY <1>2, <2>2, <2>3, <2>4, <2>5, <2>6 DEF e
<1>4. CASE x.seq \notin c.seqs
  <2> DEFINE s == c.shown
             t == Append(s, x)
  <2>1. e = [shown |-> t, last |-> last, seqs |-> seqs]
    BY <1>1, <1>4 DEF AddSample
  <2>2. /\ t \in Seq(Samples) /\ DOMAIN s = 1..Len(s) /\ Len(s) \in Nat
        /\ DOMAIN t = 1..(Len(s) + 1) /\ t[Len(s) + 1] = x
        /\ \A k \in 1..Len(s) : t[k] = s[k]
    <3> HIDE DEF s
    <3>1. s \in Seq(Samples)
      BY <1>1 DEF s
    <3> QED
      BY <3>1
  <2> HIDE DEF e, last, seqs, t, s
  <2>3. e.shown = t /\ e.last = last /\ e.seqs = seqs
    BY <2>1
  <2>4. e \in Charts
    BY <1>2, <2>1, <2>2 DEF Charts
  <2>5. c.seqs \subseteq seqs /\ (x.seq # 0 => x.seq \in seqs)
    BY DEF seqs
  <2>6. \A k \in DOMAIN s : Among(s[k], t)
    BY <2>2 DEF Among
  <2>7. Grows(c, e)
    BY <1>2, <2>3, <2>5, <2>6, Zenon DEF Grows, s
  <2>8. Taken(x, e)
    BY <2>2, <2>3 DEF Taken, Among
  <2>9. ASSUME DrawnOnce(c)
        PROVE  DrawnOnce(e)
    <3>1. /\ \A k \in DOMAIN s : s[k].seq # 0 => s[k].seq \in c.seqs
          /\ \A j, k \in DOMAIN s : s[j].seq # 0 /\ s[j].seq = s[k].seq => j = k
      BY <2>9, Zenon DEF DrawnOnce, s
    <3>2. \A k \in DOMAIN t : (k \in DOMAIN s /\ t[k] = s[k]) \/ (k = Len(s) + 1 /\ t[k] = x)
      BY <2>2
    <3>3. \A k \in DOMAIN t : t[k].seq # 0 => t[k].seq \in seqs
      BY <2>5, <3>1, <3>2, Zenon
    <3>4. \A j, k \in DOMAIN t : t[j].seq # 0 /\ t[j].seq = t[k].seq => j = k
      BY <1>4, <3>1, <3>2, Zenon
    <3> QED
      BY <2>3, <3>3, <3>4, Zenon DEF DrawnOnce
  <2> QED
    BY <1>2, <2>3, <2>4, <2>7, <2>8, <2>9, Zenon DEF e
<1> QED
  BY <1>3, <1>4

\* The page's loop over the first k samples of an answer makes e of the chart c.
Absorbs(c, e, xs, k) ==
  /\ Grows(c, e)
  /\ \A j \in 1..k : Taken(xs[j], e)
  /\ e.last = c.last \/ \E j \in 1..k : e.last = xs[j].i
  /\ DrawnOnce(c) => DrawnOnce(e)

\* The page's loop takes every sample of an answer, and loses none it had.
LEMMA AddSamplesEffect ==
  ASSUME NEW c \in Charts, NEW xs \in Seq(Samples)
  PROVE  AddSamples(c, xs) \in Charts /\ Absorbs(c, AddSamples(c, xs), xs, Len(xs))
<1> DEFINE n == Len(xs)
           added[k \in 0..n] == IF k = 0 THEN c ELSE AddSample(added[k - 1], xs[k])
           F == [k \in 1..n |-> [e \in Charts |-> AddSample(e, xs[k])]]
<1>1. n \in Nat /\ \A k \in 1..n : xs[k] \in Samples
  OBVIOUS
<1>2. \A k \in 1..n, e \in Charts : AddSample(e, xs[k]) \in Charts
  BY <1>1, AddSampleEffect
<1>3. F \in [1..n -> [Charts -> Charts]] /\ \A e \in Charts, k \in 1..n : F[k][e] = AddSample(e, xs[k])
  <2> HIDE DEF n
  <2> QED
    BY <1>2
<1>4. added[n] = AddSamples(c, xs)
  BY DEF AddSamples
<1>5. PICK g : IsRun(Charts, c, n, F, g)
  <2> HIDE DEF F, n, added
  <2> QED
    BY <1>1, <1>3, Iterates
<1>6. /\ g \in [0..n -> Charts] /\ g[0] = c
      /\ \A k \in 1..n : k - 1 \in 0..n /\ g[k] = AddSample(g[k - 1], xs[k])
  <2> HIDE DEF F, n, added
  <2>1. \A k \in 1..n : k - 1 \in 0..n
    BY <1>1
  <2> QED
    BY <1>3, <1>5, <2>1 DEF IsRun
<1>7. g = [k \in 0..n |-> IF k = 0 THEN c ELSE AddSample(g[k - 1], xs[k])]
  <2> HIDE DEF F, n, added
  <2>1. \A k \in 0..n : k # 0 => k \in 1..n
    BY <1>1
  <2> QED
    BY <1>6, <2>1
<1>8. added = [k \in 0..n |-> IF k = 0 THEN c ELSE AddSample(added[k - 1], xs[k])]
  <2> HIDE DEF F, n
  <2> QED
    BY <1>7
<1> HIDE DEF added, F
<1> DEFINE E == {k \in 0..n : added[k] \in Charts /\ Absorbs(c, added[k], xs, k)}
<1>9. 0 \in E
  <2>1. added[0] = c /\ 0 \in 0..n
    BY <1>1, <1>8
  <2>2. c.last \in 0..MaxI /\ MaxI \in Nat
    BY Bounds DEF Charts
  <2>3. Absorbs(c, c, xs, 0)
    BY <2>2 DEF Absorbs, Grows, Among
  <2> QED
    BY <2>1, <2>3
<1>10. ASSUME NEW k \in 1..n, k - 1 \in E
       PROVE  k \in E
  <2> DEFINE d == added[k - 1]
             e == AddSample(d, xs[k])
  <2>1. k \in 0..n /\ k # 0 /\ xs[k] \in Samples
    BY <1>1
  <2>2. added[k] = e
    BY <1>8, <2>1
  <2>3. d \in Charts /\ Absorbs(c, d, xs, k - 1)
    BY <1>10
  <2>4. \A j \in 1..k : j = k \/ j \in 1..(k - 1)
    BY <1>1
  <2>5. \A j \in 1..(k - 1) : j \in 1..k
    BY <1>1
  <2>6. k \in 1..k
    BY <1>1
  <2> HIDE DEF d, E, n
  <2>7. /\ e \in Charts /\ Grows(d, e) /\ Taken(xs[k], e)
        /\ e.last \in {d.last, xs[k].i}
        /\ DrawnOnce(d) => DrawnOnce(e)
    BY <2>1, <2>3, AddSampleEffect, Zenon
  <2> HIDE DEF e
  <2>8. Grows(c, e) /\ \A x : Taken(x, d) => Taken(x, e)
    BY <2>3, <2>7, GrowsOn, Zenon DEF Absorbs
  <2>9. \A j \in 1..k : Taken(xs[j], e)
    BY <2>3, <2>4, <2>7, <2>8, Zenon DEF Absorbs
  <2>10. e.last = c.last \/ \E j \in 1..k : e.last = xs[j].i
    <3>1. CASE e.last = d.last
      BY <2>3, <2>5, <3>1, Zenon DEF Absorbs
    <3>2. CASE e.last = xs[k].i
      BY <2>6, <3>2, Zenon
    <3> QED
      BY <2>7, <3>1, <3>2
  <2>11. DrawnOnce(c) => DrawnOnce(e)
    BY <2>3, <2>7, Zenon DEF Absorbs
  <2>12. Absorbs(c, e, xs, k)
    BY <2>8, <2>9, <2>10, <2>11, Zenon DEF Absorbs
  <2> QED
    BY <2>1, <2>2, <2>7, <2>12 DEF E
<1>11. n \in E
  <2> HIDE DEF E, n
  <2>1. \A k \in 0..n : k \in E
    BY <1>1, <1>9, <1>10, SetInduction
  <2> QED
    BY <1>1, <2>1
<1> QED
  BY <1>4, <1>11

-----------------------------------------------------------------------------
(***************************************************************************)
(* What holds in every state: the steps.                                   *)
(***************************************************************************)

\* An empty chart, an empty history.
LEMMA InitDrawn == ASSUME ChartInit PROVE DrawnInv
<1>1. ChartTypeOK
  <2>1. chart \in Charts
    BY Bounds DEF ChartInit, EmptyChart, Charts
  <2>2. fetch \in [Fetches -> FetchStates]
    BY DEF ChartInit, FetchStates
  <2>3. hist \in [Devices -> Seq(Samples)] /\ \A d \in Devices : Len(hist[d]) <= HistMax
    BY Bounds DEF ChartInit
  <2>4. /\ run \in 1..MaxRun /\ boot \in [Devices -> 1..MaxBoot]
        /\ devSeq \in [Devices -> 0..MaxI] /\ histI \in [Devices -> 0..MaxI] /\ cur \in Devices
    BY Bounds DEF ChartInit
  <2> QED
    BY <2>1, <2>2, <2>3, <2>4 DEF ChartTypeOK
<1>2. Numbered
  BY DEF ChartInit, Numbered
<1>3. DrawnOnce(chart)
  BY DEF ChartInit, EmptyChart, DrawnOnce
<1> QED
  BY <1>1, <1>2, <1>3 DEF DrawnInv

\* Adding a sample to the history, whatever its number on the device.
LEMMA HistoryStep ==
  ASSUME DrawnInv, NEW d \in Devices, NEW seq \in 0..MaxI,
         NEW pos \in 1..(Len(hist[d]) + 1), HistAdd(d, seq, pos),
         UNCHANGED <<run, boot, cur, chart, fetch>>,
         devSeq' \in [Devices -> 0..MaxI], devSeq'[d] <= histI[d] + 1,
         \A b \in Devices : b # d => devSeq'[b] = devSeq[b]
  PROVE  DrawnInv'
<1>1. ChartTypeOK /\ Numbered /\ DrawnOnce(chart)
  BY DEF DrawnInv
<1>2. /\ histI[d] \in 0..(MaxI - 1)
      /\ histI' \in [Devices -> 0..MaxI] /\ histI'[d] = histI[d] + 1
      /\ \A b \in Devices : b # d => histI'[b] = histI[b] /\ hist'[b] = hist[b]
      /\ hist' \in [Devices -> Seq(Samples)]
      /\ \A b \in Devices : Len(hist'[b]) <= HistMax
      /\ \A k \in DOMAIN hist'[d] : hist'[d][k].i = histI[d] + 1 \/ Among(hist'[d][k], hist[d])
  BY <1>1, HistAddEffect, Zenon
<1>3. ChartTypeOK'
  BY <1>1, <1>2, Zenon DEF ChartTypeOK
<1>4. ASSUME NEW b \in Devices
      PROVE  /\ devSeq'[b] <= histI'[b]
             /\ \A k \in DOMAIN hist'[b] : hist'[b][k].i <= histI'[b]
  <2>1. CASE b # d
    BY <1>1, <1>2, <2>1, Zenon DEF Numbered
  <2>2. CASE b = d
    <3>1. devSeq'[b] <= histI'[b]
      BY <1>2, <2>2
    <3>2. \A k \in DOMAIN hist[d] : hist[d][k].i <= histI[d] /\ hist[d][k].i \in Nat
      <4>1. hist[d] \in Seq(Samples)
        BY <1>1 DEF ChartTypeOK
      <4>2. \A k \in DOMAIN hist[d] : hist[d][k] \in Samples
        BY <4>1
      <4>3. \A x \in Samples : x.i \in Nat
        BY Bounds DEF Samples
      <4> QED
        BY <1>1, <4>2, <4>3, Zenon DEF Numbered
    <3>3. \A k \in DOMAIN hist'[d] :
            \/ hist'[d][k].i = histI[d] + 1
            \/ hist'[d][k].i <= histI[d] /\ hist'[d][k].i \in Nat
      BY <1>2, <3>2, Zenon DEF Among
    <3>4. \A n \in Nat : n <= histI[d] => n <= histI'[d]
      BY <1>2
    <3>5. histI[d] + 1 <= histI'[d]
      BY <1>2
    <3>6. \A k \in DOMAIN hist'[d] : hist'[d][k].i <= histI'[d]
      BY <3>3, <3>4, <3>5, Zenon
    <3> QED
      BY <2>2, <3>1, <3>6, Zenon
  <2> QED
    BY <2>1, <2>2
<1>5. Numbered'
  BY <1>4 DEF Numbered
<1>6. DrawnOnce(chart)'
  BY <1>1 DEF DrawnOnce
<1> QED
  BY <1>3, <1>5, <1>6 DEF DrawnInv

\* A live sample has no number of the device.
LEMMA LiveSampleDrawn == ASSUME DrawnInv, NEW d \in Devices, LiveSample(d) PROVE DrawnInv'
<1>1. ChartTypeOK /\ Numbered
  BY DEF DrawnInv
<1>2. hist[d] \in Seq(Samples) /\ Len(hist[d]) + 1 \in 1..(Len(hist[d]) + 1)
  BY <1>1 DEF ChartTypeOK
<1>3. devSeq \in [Devices -> 0..MaxI] /\ histI \in [Devices -> 0..MaxI] /\ devSeq[d] <= histI[d]
  BY <1>1 DEF ChartTypeOK, Numbered
<1>4. devSeq[d] <= histI[d] + 1 /\ 0 \in 0..MaxI
  BY <1>3, Bounds
<1>5. UNCHANGED <<run, boot, devSeq, cur, chart, fetch>> /\ HistAdd(d, 0, Len(hist[d]) + 1)
  BY DEF LiveSample
<1> QED
  BY <1>2, <1>3, <1>4, <1>5, HistoryStep

\* A sample read back has the next number of the device, which has been read as many times at most
\* as samples were inserted.
LEMMA BackfillSampleDrawn == ASSUME DrawnInv, NEW d \in Devices, BackfillSample(d) PROVE DrawnInv'
<1>1. ChartTypeOK /\ Numbered
  BY DEF DrawnInv
<1>2. PICK pos \in 1..(Len(hist[d]) + 1) : HistAdd(d, devSeq[d] + 1, pos)
  BY DEF BackfillSample
<1>3. devSeq \in [Devices -> 0..MaxI] /\ histI \in [Devices -> 0..MaxI] /\ devSeq[d] <= histI[d]
  BY <1>1 DEF ChartTypeOK, Numbered
<1>4. histI[d] < MaxI
  BY <1>2 DEF HistAdd
<1>5. devSeq[d] + 1 \in 0..MaxI /\ devSeq[d] + 1 <= histI[d] + 1
  BY <1>3, <1>4, Bounds
<1>6. devSeq' = [devSeq EXCEPT ![d] = devSeq[d] + 1] /\ UNCHANGED <<run, boot, cur, chart, fetch>>
  BY <1>3 DEF BackfillSample
<1>7. /\ devSeq' \in [Devices -> 0..MaxI] /\ devSeq'[d] <= histI[d] + 1
      /\ \A b \in Devices : b # d => devSeq'[b] = devSeq[b]
  BY <1>3, <1>5, <1>6
<1> QED
  BY <1>2, <1>5, <1>6, <1>7, HistoryStep

\* A reboot starts the numbers of the device again, and leaves the chart what it is.
LEMMA RebootDrawn == ASSUME DrawnInv, NEW d \in Devices, Reboot(d) PROVE DrawnInv'
<1>1. ChartTypeOK /\ Numbered /\ DrawnOnce(chart)
  BY DEF DrawnInv
<1>2. /\ boot \in [Devices -> 1..MaxBoot] /\ devSeq \in [Devices -> 0..MaxI]
      /\ histI \in [Devices -> 0..MaxI]
  BY <1>1 DEF ChartTypeOK
<1>3. /\ boot[d] < MaxBoot /\ boot' = [boot EXCEPT ![d] = boot[d] + 1]
      /\ devSeq' = [devSeq EXCEPT ![d] = 0]
      /\ UNCHANGED <<run, histI, hist, cur, chart, fetch>>
  BY <1>2 DEF Reboot
<1>4. boot' \in [Devices -> 1..MaxBoot]
  BY <1>2, <1>3, Bounds
<1>5. devSeq' \in [Devices -> 0..MaxI] /\ \A b \in Devices : devSeq'[b] \in {0, devSeq[b]}
  BY <1>2, <1>3, Bounds
<1>6. \A b \in Devices : devSeq'[b] <= histI[b]
  BY <1>1, <1>2, <1>5, Bounds DEF Numbered
<1>7. ChartTypeOK'
  BY <1>1, <1>3, <1>4, <1>5, Zenon DEF ChartTypeOK
<1>8. Numbered'
  BY <1>1, <1>3, <1>6, Zenon DEF Numbered
<1>9. DrawnOnce(chart)'
  BY <1>1, <1>3 DEF DrawnOnce
<1> QED
  BY <1>7, <1>8, <1>9 DEF DrawnInv

\* A restart empties the history only.
LEMMA ServerRestartDrawn == ASSUME DrawnInv, ServerRestart PROVE DrawnInv'
<1>1. ChartTypeOK /\ DrawnOnce(chart)
  BY DEF DrawnInv
<1>2. /\ run < MaxRun /\ run' = run + 1
      /\ devSeq' = [d \in Devices |-> 0] /\ histI' = [d \in Devices |-> 0]
      /\ hist' = [d \in Devices |-> <<>>]
      /\ UNCHANGED <<boot, cur, chart, fetch>>
  BY DEF ServerRestart
<1>3. run' \in 1..MaxRun
  BY <1>1, <1>2, Bounds DEF ChartTypeOK
<1>4. /\ devSeq' \in [Devices -> 0..MaxI] /\ histI' \in [Devices -> 0..MaxI]
      /\ hist' \in [Devices -> Seq(Samples)] /\ \A d \in Devices : Len(hist'[d]) <= HistMax
  BY <1>2, Bounds
<1>5. ChartTypeOK'
  BY <1>1, <1>2, <1>3, <1>4, Zenon DEF ChartTypeOK
<1>6. Numbered'
  BY <1>2 DEF Numbered
<1>7. DrawnOnce(chart)'
  BY <1>1, <1>2 DEF DrawnOnce
<1> QED
  BY <1>5, <1>6, <1>7 DEF DrawnInv

\* A step of the page: the history is unchanged, the chart stays sound.
LEMMA PageStep ==
  ASSUME DrawnInv, UNCHANGED history, cur' \in Devices, chart' \in Charts, DrawnOnce(chart'),
         fetch' \in [Fetches -> FetchStates]
  PROVE  DrawnInv'
<1>1. UNCHANGED <<run, boot, devSeq, histI, hist>>
  BY DEF history
<1>2. ChartTypeOK' /\ Numbered'
  BY <1>1 DEF DrawnInv, ChartTypeOK, Numbered
<1>3. DrawnOnce(chart)'
  BY DEF DrawnOnce
<1> QED
  BY <1>2, <1>3 DEF DrawnInv

\* The kinds of fetch.
LEMMA FetchKinds ==
  ASSUME ChartTypeOK, NEW f \in Fetches
  PROVE  /\ fetch[f].at = "none" => fetch[f] = NoFetch
         /\ fetch[f].at = "sent" => fetch[f].dev \in Devices /\ fetch[f].since \in 0..MaxI
         /\ fetch[f].at = "answered" => fetch[f].dev \in Devices /\ fetch[f].samples \in Seq(Samples)
         /\ fetch[f].at \in {"none", "sent", "answered"}
<1>1. fetch[f] \in FetchStates
  BY DEF ChartTypeOK
<1> QED
  BY <1>1 DEF FetchStates, NoFetch

\* A request of the page.
LEMMA SentIsFetch ==
  ASSUME NEW d \in Devices, NEW n \in 0..MaxI
  PROVE  Sent(d, n) \in FetchStates
BY DEF Sent, FetchStates

\* A poll reads the chart only.
LEMMA PollHistoryDrawn == ASSUME DrawnInv, NEW f \in Fetches, PollHistory(f) PROVE DrawnInv'
<1>1. ChartTypeOK /\ DrawnOnce(chart)
  BY DEF DrawnInv
<1>2. chart \in Charts /\ cur \in Devices /\ chart.last \in 0..MaxI /\ fetch \in [Fetches -> FetchStates]
  BY <1>1 DEF ChartTypeOK, Charts
<1>3. UNCHANGED history /\ UNCHANGED <<cur, chart>>
      /\ fetch' = [fetch EXCEPT ![f] = Sent(cur, chart.last)]
  BY DEF PollHistory
<1>4. fetch' \in [Fetches -> FetchStates]
  BY <1>2, <1>3, SentIsFetch
<1> QED
  BY <1>1, <1>2, <1>3, <1>4, PageStep

\* What the answer to a fetch is.
LEMMA ApiHistoryEffect ==
  ASSUME ChartTypeOK, NEW f \in Fetches, ApiHistory(f)
  PROVE  /\ fetch[f].at = "sent" /\ fetch[f].dev \in Devices /\ fetch[f].since \in Nat
         /\ fetch'[f].at = "answered" /\ fetch'[f].dev = fetch[f].dev
         /\ fetch'[f].samples \in Seq(Samples)
         /\ Answers(fetch'[f].samples, hist[fetch[f].dev], fetch[f].since, Len(hist[fetch[f].dev]))
         /\ \A g \in Fetches : g # f => fetch'[g] = fetch[g]
         /\ fetch' \in [Fetches -> FetchStates]
<1> DEFINE h == hist[fetch[f].dev]
           s == Filter(h, fetch[f].since)
           new == [at |-> "answered", dev |-> fetch[f].dev, samples |-> s]
<1>1. fetch[f].at = "sent" /\ fetch' = [fetch EXCEPT ![f] = new] /\ fetch \in [Fetches -> FetchStates]
  BY DEF ApiHistory, ChartTypeOK
<1>2. fetch[f].dev \in Devices /\ fetch[f].since \in Nat
  BY <1>1, FetchKinds, Bounds
<1>3. h \in Seq(Samples)
  BY <1>2 DEF ChartTypeOK
<1>4. s \in Seq(Samples) /\ Answers(s, h, fetch[f].since, Len(h))
  BY <1>2, <1>3, FilterEffect
<1> HIDE DEF s, h
<1>5. new \in FetchStates
  BY <1>2, <1>4 DEF FetchStates
<1>6. new.at = "answered" /\ new.dev = fetch[f].dev /\ new.samples = s
  OBVIOUS
<1> HIDE DEF new
<1>7. fetch'[f] = new /\ (\A g \in Fetches : g # f => fetch'[g] = fetch[g])
      /\ fetch' \in [Fetches -> FetchStates]
  BY <1>1, <1>5
<1> QED
  BY <1>1, <1>2, <1>4, <1>6, <1>7, Zenon DEF h

\* So does an answer; its samples are samples of the history.
LEMMA ApiHistoryDrawn == ASSUME DrawnInv, NEW f \in Fetches, ApiHistory(f) PROVE DrawnInv'
<1>1. ChartTypeOK /\ DrawnOnce(chart)
  BY DEF DrawnInv
<1>2. chart \in Charts /\ cur \in Devices
  BY <1>1 DEF ChartTypeOK
<1>3. UNCHANGED history /\ UNCHANGED <<cur, chart>>
  BY DEF ApiHistory
<1>4. fetch' \in [Fetches -> FetchStates]
  BY <1>1, ApiHistoryEffect, Zenon
<1> QED
  BY <1>1, <1>2, <1>3, <1>4, PageStep

\* What the page makes of an answer.
LEMMA FetchDoneEffect ==
  ASSUME ChartTypeOK, NEW f \in Fetches, FetchDone(f)
  PROVE  /\ fetch[f].at = "answered" /\ fetch[f].samples \in Seq(Samples)
         /\ chart' \in Charts
         /\ Absorbs(chart, chart', fetch[f].samples, Len(fetch[f].samples))
<1>1. fetch[f].at = "answered" /\ chart' = AddSamples(chart, fetch[f].samples)
  BY DEF FetchDone
<1>2. fetch[f].samples \in Seq(Samples) /\ chart \in Charts
  BY <1>1, FetchKinds DEF ChartTypeOK
<1> QED
  BY <1>1, <1>2, AddSamplesEffect

\* A fetch that ends, well or not.
LEMMA FetchEnds ==
  ASSUME ChartTypeOK, NEW f \in Fetches, fetch' = [fetch EXCEPT ![f] = NoFetch]
  PROVE  /\ fetch' \in [Fetches -> FetchStates] /\ fetch'[f] = NoFetch
         /\ \A g \in Fetches : g # f => fetch'[g] = fetch[g]
<1>1. fetch \in [Fetches -> FetchStates] /\ NoFetch \in FetchStates
  BY DEF ChartTypeOK, FetchStates
<1> QED
  BY <1>1

\* An answer, however late and of whatever device, draws nothing that is drawn.
LEMMA FetchDoneDrawn == ASSUME DrawnInv, NEW f \in Fetches, FetchDone(f) PROVE DrawnInv'
<1>1. ChartTypeOK /\ DrawnOnce(chart) /\ cur \in Devices
  BY DEF DrawnInv, ChartTypeOK
<1>2. UNCHANGED history /\ cur' = cur /\ fetch' = [fetch EXCEPT ![f] = NoFetch]
  BY DEF FetchDone
<1>3. fetch' \in [Fetches -> FetchStates]
  BY <1>1, <1>2, FetchEnds, Zenon
<1>4. chart' \in Charts /\ DrawnOnce(chart')
  BY <1>1, FetchDoneEffect, Zenon DEF Absorbs
<1> QED
  BY <1>1, <1>2, <1>3, <1>4, PageStep

\* A fetch that fails changes nothing.
LEMMA FetchFailsDrawn == ASSUME DrawnInv, NEW f \in Fetches, FetchFails(f) PROVE DrawnInv'
<1>1. ChartTypeOK /\ DrawnOnce(chart) /\ cur \in Devices /\ chart \in Charts
  BY DEF DrawnInv, ChartTypeOK
<1>2. UNCHANGED history /\ UNCHANGED <<cur, chart>> /\ fetch' = [fetch EXCEPT ![f] = NoFetch]
  BY DEF FetchFails
<1>3. fetch' \in [Fetches -> FetchStates]
  BY <1>1, <1>2, FetchEnds, Zenon
<1> QED
  BY <1>1, <1>2, <1>3, PageStep

\* Picking another device empties HIST and HIST_SEQS together.
LEMMA PickDeviceDrawn ==
  ASSUME DrawnInv, NEW d \in Devices, NEW f \in Fetches, PickDevice(d, f) PROVE DrawnInv'
<1>1. fetch \in [Fetches -> FetchStates]
  BY DEF DrawnInv, ChartTypeOK
<1>2. UNCHANGED history /\ cur' = d /\ chart' = EmptyChart /\ fetch' = [fetch EXCEPT ![f] = Sent(d, 0)]
  BY DEF PickDevice
<1>3. fetch' \in [Fetches -> FetchStates]
  BY <1>1, <1>2, SentIsFetch, Bounds
<1>4. EmptyChart \in Charts /\ DrawnOnce(EmptyChart)
  BY Bounds DEF EmptyChart, Charts, DrawnOnce
<1> QED
  BY <1>2, <1>3, <1>4, PageStep

\* One step per action.
LEMMA NextDrawn == ASSUME DrawnInv, [ChartNext]_chartVars PROVE DrawnInv'
<1>1. CASE UNCHANGED chartVars
  <2>1. UNCHANGED <<run, boot, devSeq, histI, hist, cur, chart, fetch>>
    BY <1>1 DEF chartVars
  <2> QED
    BY <2>1 DEF DrawnInv, ChartTypeOK, Numbered, DrawnOnce
<1>2. ASSUME NEW d \in Devices, LiveSample(d) \/ BackfillSample(d) \/ Reboot(d)
      PROVE  DrawnInv'
  BY <1>2, LiveSampleDrawn, BackfillSampleDrawn, RebootDrawn
<1>3. CASE ServerRestart
  BY <1>3, ServerRestartDrawn
<1>4. ASSUME NEW f \in Fetches, PollHistory(f) \/ ApiHistory(f) \/ FetchDone(f) \/ FetchFails(f)
      PROVE  DrawnInv'
  BY <1>4, PollHistoryDrawn, ApiHistoryDrawn, FetchDoneDrawn, FetchFailsDrawn
<1>5. ASSUME NEW f \in Fetches, NEW d \in Devices, PickDevice(d, f)
      PROVE  DrawnInv'
  BY <1>5, PickDeviceDrawn
<1> QED
  BY <1>1, <1>2, <1>3, <1>4, <1>5, Zenon DEF ChartNext

\* The invariant, for the whole behaviour.
LEMMA AlwaysDrawn == ChartSafety => []DrawnInv
<1>1. ChartInit => DrawnInv
  BY InitDrawn
<1>2. DrawnInv /\ [ChartNext]_chartVars => DrawnInv'
  BY NextDrawn
<1> QED
  BY <1>1, <1>2, PTL DEF ChartSafety

\* HIST_SEQS: the number of a sample read back is in it once the sample is drawn.
LEMMA DrawnOnceMeans == DrawnInv => BackfillDrawnOnce
<1> SUFFICES ASSUME DrawnInv, NEW j \in DOMAIN chart.shown, NEW k \in DOMAIN chart.shown,
                    SameSample(chart.shown[j], chart.shown[k]), chart.shown[j].seq # 0
             PROVE  j = k
  BY DEF BackfillDrawnOnce
<1>1. chart.shown[j].seq = chart.shown[k].seq
  BY DEF SameSample
<1> QED
  BY <1>1, Zenon DEF DrawnInv, DrawnOnce

\* Types of the history, the chart and the fetches, for any devices, reboots, restarts
\* and overlapping fetches.
THEOREM ChartTypes == ChartSpec => []ChartTypeOK
<1>1. DrawnInv => ChartTypeOK
  BY DEF DrawnInv
<1> QED
  BY <1>1, AlwaysDrawn, PTL DEF ChartSpec

\* Overlapping fetches, restarts of the server, reboots and changes of the device never
\* make the page draw a sample read back twice (static/index.html:394-405, HIST_SEQS).
THEOREM DrawnOnceOnly == ChartSafety => []BackfillDrawnOnce
BY DrawnOnceMeans, AlwaysDrawn, PTL

-----------------------------------------------------------------------------
(***************************************************************************)
(* What holds while the server runs and devices are picked quietly: the    *)
(* steps.                                                                  *)
(***************************************************************************)

\* The numbers compared are naturals.
LEMMA Numbers ==
  ASSUME ChartTypeOK
  PROVE  /\ histI[cur] \in Nat /\ chart.last \in Nat
         /\ \A k \in DOMAIN hist[cur] : hist[cur][k] \in Samples /\ hist[cur][k].i \in Nat
         /\ \A f \in Fetches : fetch[f].at = "sent" => fetch[f].since \in Nat
         /\ \A f \in Fetches : fetch[f].at = "answered" =>
              \A m \in DOMAIN fetch[f].samples :
                fetch[f].samples[m] \in Samples /\ fetch[f].samples[m].i \in Nat
<1>1. \A x \in Samples : x.i \in Nat
  BY Bounds DEF Samples
<1>2. \A s \in Seq(Samples) : \A k \in DOMAIN s : s[k] \in Samples
  OBVIOUS
<1>3. hist[cur] \in Seq(Samples)
  BY DEF ChartTypeOK
<1>4. histI[cur] \in Nat /\ chart.last \in Nat
  BY Bounds DEF ChartTypeOK, Charts
<1>5. \A f \in Fetches : /\ fetch[f].at = "sent" => fetch[f].since \in Nat
                         /\ fetch[f].at = "answered" => fetch[f].samples \in Seq(Samples)
  BY FetchKinds, Bounds
<1> QED
  BY <1>1, <1>2, <1>3, <1>4, <1>5, Zenon

\* A sample is the same as itself.
LEMMA SameAsItself == \A x : SameSample(x, x)
BY DEF SameSample

\* Nothing is below histLastI = 0.
LEMMA InitShown == ASSUME ChartInit PROVE ShownInv
<1>1. DrawnInv /\ ChartTypeOK
  BY InitDrawn DEF DrawnInv
<1>2. chart.last = 0 /\ histI[cur] = 0 /\ hist[cur] = <<>> /\ \A f \in Fetches : fetch[f].at = "none"
  BY DEF ChartInit, EmptyChart, NoFetch
<1>3. AsksForNew /\ AnswersAll
  BY <1>1, <1>2, FetchKinds DEF AsksForNew, AnswersAll, ChartInit, NoFetch
<1>4. BelowLastIsShown
  BY <1>2 DEF BelowLastIsShown
<1> QED
  BY <1>1, <1>2, <1>3, <1>4 DEF ShownInv

\* A sample that comes late has a number above all the page has or has been answered.
LEMMA HistoryStepShown ==
  ASSUME ShownInv, DrawnInv', NEW d \in Devices, NEW seq \in 0..MaxI,
         NEW pos \in 1..(Len(hist[d]) + 1), HistAdd(d, seq, pos),
         UNCHANGED <<cur, chart, fetch>>
  PROVE  ShownInv'
<1>1. ChartTypeOK /\ chart.last <= histI[cur] /\ AsksForNew /\ AnswersAll /\ BelowLastIsShown
  BY DEF ShownInv, DrawnInv
<1>2. CASE d # cur
  <2>1. histI'[cur] = histI[cur] /\ hist'[cur] = hist[cur]
    BY <1>1, <1>2, HistAddEffect, Zenon DEF ChartTypeOK
  <2>2. (chart.last <= histI[cur])' /\ AsksForNew' /\ AnswersAll' /\ BelowLastIsShown'
    BY <1>1, <2>1 DEF AsksForNew, AnswersAll, BelowLastIsShown, Shown, Known
  <2> QED
    BY <2>2 DEF ShownInv
<1>3. CASE d = cur
  <2>1. /\ histI'[cur] = histI[cur] + 1
        /\ \A k \in DOMAIN hist'[cur] :
             hist'[cur][k].i = histI[cur] + 1 \/ Among(hist'[cur][k], hist[cur])
    BY <1>1, <1>3, HistAddEffect, Zenon
  <2>2. /\ histI[cur] \in Nat /\ chart.last \in Nat
        /\ \A f \in Fetches : fetch[f].at = "answered" =>
              \A m \in DOMAIN fetch[f].samples : fetch[f].samples[m].i \in Nat
    BY <1>1, Numbers, Zenon
  <2>3. \A n \in Nat : n <= histI[cur] => n <= histI[cur] + 1 /\ ~(histI[cur] + 1 <= n)
    BY <2>2
  <2>4. chart.last <= histI'[cur]
    BY <1>1, <2>1, <2>2, <2>3
  <2>5. ASSUME NEW n \in Nat, n <= histI[cur], NEW k \in DOMAIN hist'[cur], hist'[cur][k].i <= n
        PROVE  Among(hist'[cur][k], hist[cur])
    BY <2>1, <2>3, <2>5, Zenon
  <2>6. AsksForNew'
    BY <1>1 DEF AsksForNew
  <2>7. ASSUME NEW f \in Fetches, fetch[f].at = "answered", NEW m \in DOMAIN fetch[f].samples
        PROVE  /\ fetch[f].samples[m].i <= histI'[cur]
               /\ \A k \in DOMAIN hist'[cur] :
                    hist'[cur][k].i <= fetch[f].samples[m].i =>
                      hist'[cur][k].i <= chart.last \/ Among(hist'[cur][k], fetch[f].samples)
    <3>1. fetch[f].samples[m].i \in Nat /\ fetch[f].samples[m].i <= histI[cur]
      BY <1>1, <2>2, <2>7, Zenon DEF AnswersAll
    <3>2. fetch[f].samples[m].i <= histI'[cur]
      BY <2>1, <2>3, <3>1, Zenon
    <3>3. ASSUME NEW k \in DOMAIN hist'[cur], hist'[cur][k].i <= fetch[f].samples[m].i
          PROVE  hist'[cur][k].i <= chart.last \/ Among(hist'[cur][k], fetch[f].samples)
      <4>1. PICK j \in DOMAIN hist[cur] : hist[cur][j] = hist'[cur][k]
        BY <2>5, <3>1, <3>3, Zenon DEF Among
      <4> QED
        BY <1>1, <2>7, <3>3, <4>1, Zenon DEF AnswersAll
    <3> QED
      BY <3>2, <3>3, Zenon
  <2>8. AnswersAll'
    BY <2>7, Zenon DEF AnswersAll
  <2>9. ASSUME NEW k \in DOMAIN hist'[cur], hist'[cur][k].i <= chart.last
        PROVE  Shown(hist'[cur][k]) \/ Known(hist'[cur][k])
    <3>1. PICK j \in DOMAIN hist[cur] : hist[cur][j] = hist'[cur][k]
      BY <1>1, <2>2, <2>5, <2>9, Zenon DEF Among
    <3> QED
      BY <1>1, <2>9, <3>1, Zenon DEF BelowLastIsShown
  <2>10. BelowLastIsShown'
    BY <2>9, Zenon DEF BelowLastIsShown, Shown, Known
  <2> QED
    BY <2>4, <2>6, <2>8, <2>10 DEF ShownInv
<1> QED
  BY <1>2, <1>3

\* A live sample.
LEMMA LiveSampleShown ==
  ASSUME ShownInv, DrawnInv', NEW d \in Devices, LiveSample(d) PROVE ShownInv'
<1>1. hist[d] \in Seq(Samples) /\ Len(hist[d]) + 1 \in 1..(Len(hist[d]) + 1) /\ 0 \in 0..MaxI
  BY Bounds DEF ShownInv, DrawnInv, ChartTypeOK
<1>2. UNCHANGED <<cur, chart, fetch>> /\ HistAdd(d, 0, Len(hist[d]) + 1)
  BY DEF LiveSample
<1> QED
  BY <1>1, <1>2, HistoryStepShown

\* A sample read back, wherever it lands in the history.
LEMMA BackfillSampleShown ==
  ASSUME ShownInv, DrawnInv', NEW d \in Devices, BackfillSample(d) PROVE ShownInv'
<1>1. PICK pos \in 1..(Len(hist[d]) + 1) : HistAdd(d, devSeq[d] + 1, pos)
  BY DEF BackfillSample
<1>2. devSeq[d] \in 0..MaxI /\ histI[d] \in 0..MaxI /\ devSeq[d] <= histI[d] /\ histI[d] < MaxI
  BY <1>1 DEF ShownInv, DrawnInv, ChartTypeOK, Numbered, HistAdd
<1>3. devSeq[d] + 1 \in 0..MaxI
  BY <1>2, Bounds
<1>4. UNCHANGED <<cur, chart, fetch>>
  BY DEF BackfillSample
<1> QED
  BY <1>1, <1>3, <1>4, HistoryStepShown

\* Steps that leave the picked device's history and the chart alone.
LEMMA FetchStep ==
  ASSUME ShownInv, DrawnInv', histI'[cur] = histI[cur], hist'[cur] = hist[cur], UNCHANGED <<cur, chart>>,
         AsksForNew', AnswersAll'
  PROVE  ShownInv'
<1>1. chart.last <= histI[cur] /\ BelowLastIsShown
  BY DEF ShownInv
<1>2. BelowLastIsShown'
  BY <1>1 DEF BelowLastIsShown, Shown, Known
<1> QED
  BY <1>1, <1>2 DEF ShownInv

\* A reboot changes neither the history nor the page.
LEMMA RebootShown == ASSUME ShownInv, DrawnInv', NEW d \in Devices, Reboot(d) PROVE ShownInv'
<1>1. UNCHANGED <<histI, hist, cur, chart, fetch>>
  BY DEF Reboot
<1>2. AsksForNew' /\ AnswersAll'
  BY <1>1 DEF ShownInv, AsksForNew, AnswersAll
<1> QED
  BY <1>1, <1>2, FetchStep

\* A poll asks for what lies above histLastI.
LEMMA PollHistoryShown == ASSUME ShownInv, DrawnInv', NEW f \in Fetches, PollHistory(f) PROVE ShownInv'
<1>1. ChartTypeOK /\ AsksForNew /\ AnswersAll
  BY DEF ShownInv, DrawnInv
<1>2. /\ UNCHANGED history /\ UNCHANGED <<cur, chart>> /\ fetch[f].at = "none"
      /\ fetch' = [fetch EXCEPT ![f] = Sent(cur, chart.last)]
  BY DEF PollHistory
<1>3. fetch'[f] = Sent(cur, chart.last) /\ \A g \in Fetches : g # f => fetch'[g] = fetch[g]
  BY <1>1, <1>2 DEF ChartTypeOK
<1>4. fetch'[f].at = "sent" /\ fetch'[f].dev = cur /\ fetch'[f].since = chart.last
  BY <1>3 DEF Sent
<1>5. chart.last <= chart.last
  BY <1>1, Numbers
<1>6. AsksForNew'
  BY <1>1, <1>2, <1>3, <1>4, <1>5, Zenon DEF AsksForNew
<1>7. UNCHANGED <<histI, hist>>
  BY <1>2 DEF history
<1>8. AnswersAll'
  BY <1>1, <1>2, <1>3, <1>4, <1>7 DEF AnswersAll
<1> QED
  BY <1>2, <1>6, <1>7, <1>8, FetchStep

\* The answer leaves out only what the page had when it asked.
LEMMA ApiHistoryShown == ASSUME ShownInv, DrawnInv', NEW f \in Fetches, ApiHistory(f) PROVE ShownInv'
<1> DEFINE xs == fetch'[f].samples
<1>1. ChartTypeOK /\ AsksForNew /\ AnswersAll /\ Numbered
  BY DEF ShownInv, DrawnInv
<1>2. UNCHANGED history /\ UNCHANGED <<cur, chart>>
  BY DEF ApiHistory
<1>3. UNCHANGED <<histI, hist>>
  BY <1>2 DEF history
<1>4. /\ fetch[f].at = "sent" /\ fetch'[f].at = "answered" /\ fetch'[f].dev = fetch[f].dev
      /\ fetch[f].since \in Nat /\ xs \in Seq(Samples)
      /\ Answers(xs, hist[fetch[f].dev], fetch[f].since, Len(hist[fetch[f].dev]))
      /\ \A g \in Fetches : g # f => fetch'[g] = fetch[g]
  BY <1>1, ApiHistoryEffect, Zenon
<1>5. fetch[f].dev = cur /\ fetch[f].since <= chart.last
  BY <1>1, <1>4 DEF AsksForNew
<1>6. AsksForNew'
  BY <1>1, <1>2, <1>4, <1>5 DEF AsksForNew
<1>7. ASSUME NEW m \in DOMAIN xs
      PROVE  xs[m].i <= histI[cur]
  <2>1. PICK k \in DOMAIN hist[cur] : hist[cur][k] = xs[m]
    BY <1>4, <1>5, Zenon DEF Answers, Among
  <2> QED
    BY <1>1, <2>1, Zenon DEF Numbered, ChartTypeOK
<1>8. ASSUME NEW k \in DOMAIN hist[cur]
      PROVE  hist[cur][k].i <= chart.last \/ Among(hist[cur][k], xs)
  <2>1. k \in 1..Len(hist[cur])
    BY <1>1 DEF ChartTypeOK
  <2>2. Wanted(hist[cur][k], fetch[f].since) => Among(hist[cur][k], xs)
    BY <1>4, <1>5, <2>1, Zenon DEF Answers
  <2>3. hist[cur][k].i \in Nat /\ chart.last \in Nat
    BY <1>1, Numbers, Zenon
  <2>4. \A n \in Nat : ~(n > fetch[f].since) => n <= chart.last
    BY <1>4, <1>5, <2>3
  <2>5. ~Wanted(hist[cur][k], fetch[f].since) => hist[cur][k].i <= chart.last
    BY <2>3, <2>4, Zenon DEF Wanted
  <2> QED
    BY <2>2, <2>5
<1>9. AnswersAll'
  <2> SUFFICES ASSUME NEW g \in Fetches, fetch'[g].at = "answered", NEW m \in DOMAIN fetch'[g].samples
               PROVE  /\ fetch'[g].samples[m].i <= histI[cur]
                      /\ \A k \in DOMAIN hist[cur] :
                           hist[cur][k].i <= fetch'[g].samples[m].i =>
                             hist[cur][k].i <= chart.last \/ Among(hist[cur][k], fetch'[g].samples)
    BY <1>2, <1>3 DEF AnswersAll
  <2>1. CASE g = f
    BY <1>7, <1>8, <2>1, Zenon
  <2>2. CASE g # f
    BY <1>1, <1>4, <2>2, Zenon DEF AnswersAll
  <2> QED
    BY <2>1, <2>2
<1> QED
  BY <1>2, <1>3, <1>6, <1>9, FetchStep

\* The answer that moves histLastI has all that lies below it.
LEMMA FetchDoneShown == ASSUME ShownInv, DrawnInv', NEW f \in Fetches, FetchDone(f) PROVE ShownInv'
<1> DEFINE xs == fetch[f].samples
           n == Len(xs)
<1>1. /\ ChartTypeOK /\ AsksForNew /\ AnswersAll /\ BelowLastIsShown /\ chart.last <= histI[cur]
      /\ ChartTypeOK'
  BY DEF ShownInv, DrawnInv
<1>2. UNCHANGED history /\ cur' = cur /\ fetch' = [fetch EXCEPT ![f] = NoFetch]
  BY DEF FetchDone
<1>3. UNCHANGED <<histI, hist>>
  BY <1>2 DEF history
<1>4. fetch[f].at = "answered" /\ xs \in Seq(Samples) /\ chart' \in Charts /\ Absorbs(chart, chart', xs, n)
  BY <1>1, FetchDoneEffect, Zenon
<1>5. fetch'[f] = NoFetch /\ \A g \in Fetches : g # f => fetch'[g] = fetch[g]
  BY <1>1, <1>2, FetchEnds, Zenon
<1>6. fetch'[f].at = "none" \/ FALSE
  BY <1>5 DEF NoFetch
<1>7. chart.last \in Nat /\ chart'.last \in Nat /\ chart.last <= chart'.last
  BY <1>1, <1>4, Numbers, Bounds DEF Absorbs, Grows, Charts
<1>8. \A m \in Nat : m <= chart.last => m <= chart'.last
  BY <1>7
<1>9. /\ DOMAIN xs = 1..n /\ \A m \in DOMAIN xs : xs[m] \in Samples
      /\ \A m \in DOMAIN xs : xs[m].i <= histI[cur]
      /\ \A m \in DOMAIN xs : \A k \in DOMAIN hist[cur] :
           hist[cur][k].i <= xs[m].i => hist[cur][k].i <= chart.last \/ Among(hist[cur][k], xs)
  BY <1>1, <1>4 DEF AnswersAll
<1>10. chart'.last = chart.last \/ \E j \in DOMAIN xs : chart'.last = xs[j].i
  BY <1>4, <1>9, Zenon DEF Absorbs
<1>11. chart'.last <= histI[cur]
  BY <1>1, <1>9, <1>10, Zenon
<1>12. /\ \A k \in DOMAIN hist[cur] : hist[cur][k] \in Samples /\ hist[cur][k].i \in Nat
       /\ \A g \in Fetches : fetch[g].at = "sent" => fetch[g].since \in Nat
  BY <1>1, Numbers, Zenon
<1>13. AsksForNew'
  <2> SUFFICES ASSUME NEW g \in Fetches
               PROVE  /\ fetch'[g].at # "none" => fetch'[g].dev = cur
                      /\ fetch'[g].at = "sent" => fetch'[g].since <= chart'.last
    BY <1>2 DEF AsksForNew
  <2>1. CASE g = f
    BY <1>6, <2>1
  <2>2. CASE g # f
    BY <1>1, <1>5, <1>8, <1>12, <2>2, Zenon DEF AsksForNew
  <2> QED
    BY <2>1, <2>2
<1>14. AnswersAll'
  <2> SUFFICES ASSUME NEW g \in Fetches, fetch'[g].at = "answered", NEW m \in DOMAIN fetch'[g].samples
               PROVE  /\ fetch'[g].samples[m].i <= histI[cur]
                      /\ \A k \in DOMAIN hist[cur] :
                           hist[cur][k].i <= fetch'[g].samples[m].i =>
                             hist[cur][k].i <= chart'.last \/ Among(hist[cur][k], fetch'[g].samples)
    BY <1>2, <1>3 DEF AnswersAll
  <2>1. g # f
    BY <1>6
  <2> QED
    BY <1>1, <1>5, <1>8, <1>12, <2>1, Zenon DEF AnswersAll
<1>15. ASSUME NEW k \in DOMAIN hist[cur], hist[cur][k].i <= chart'.last
       PROVE  Taken(hist[cur][k], chart') \/ (Shown(hist[cur][k]) \/ Known(hist[cur][k]))'
  <2>1. CASE hist[cur][k].i <= chart.last
    <3>1. Shown(hist[cur][k]) \/ Known(hist[cur][k])
      BY <1>1, <2>1 DEF BelowLastIsShown
    <3>2. CASE Shown(hist[cur][k])
      <4>1. PICK j \in DOMAIN chart.shown : SameSample(chart.shown[j], hist[cur][k])
        BY <3>2 DEF Shown
      <4>2. PICK l \in DOMAIN chart'.shown : chart'.shown[l] = chart.shown[j]
        BY <1>4, Zenon DEF Absorbs, Grows, Among
      <4>3. \E l2 \in DOMAIN chart'.shown : SameSample(chart'.shown[l2], hist[cur][k])
        BY <4>1, <4>2, Zenon
      <4> QED
        BY <1>2, <1>3, <4>3 DEF Shown
    <3>3. CASE Known(hist[cur][k])
      <4>1. hist[cur][k].seq \in chart'.seqs
        BY <1>4, <3>3 DEF Absorbs, Grows, Known
      <4> QED
        BY <4>1 DEF Taken
    <3> QED
      BY <3>1, <3>2, <3>3
  <2>2. CASE ~(hist[cur][k].i <= chart.last)
    <3>1. PICK m \in DOMAIN xs : chart'.last = xs[m].i
      BY <1>10, <1>15, <2>2, Zenon
    <3>2. PICK j \in DOMAIN xs : xs[j] = hist[cur][k]
      BY <1>9, <1>15, <2>2, <3>1, Zenon DEF Among
    <3> QED
      BY <1>4, <1>9, <3>2, Zenon DEF Absorbs
  <2> QED
    BY <2>1, <2>2
<1>16. ASSUME NEW x \in Samples, Taken(x, chart')
       PROVE  (\E k \in DOMAIN chart'.shown : SameSample(chart'.shown[k], x))
                \/ (x.seq # 0 /\ x.seq \in chart'.seqs)
  <2>1. \A n2 \in chart'.seqs : n2 # 0
    BY <1>4, Bounds DEF Charts
  <2> QED
    BY <1>16, <2>1, SameAsItself, Zenon DEF Taken, Among
<1>17. BelowLastIsShown'
  <2> SUFFICES ASSUME NEW k \in DOMAIN hist[cur], hist[cur][k].i <= chart'.last
               PROVE  \/ \E j \in DOMAIN chart'.shown : SameSample(chart'.shown[j], hist[cur][k])
                      \/ hist[cur][k].seq # 0 /\ hist[cur][k].seq \in chart'.seqs
    BY <1>2, <1>3 DEF BelowLastIsShown, Shown, Known
  <2>1. Taken(hist[cur][k], chart') \/ (Shown(hist[cur][k]) \/ Known(hist[cur][k]))'
    BY <1>15
  <2>2. CASE Taken(hist[cur][k], chart')
    BY <1>12, <1>16, <2>2, Zenon
  <2>3. CASE (Shown(hist[cur][k]) \/ Known(hist[cur][k]))'
    BY <1>2, <1>3, <2>3 DEF Shown, Known
  <2> QED
    BY <2>1, <2>2, <2>3
<1> QED
  BY <1>2, <1>3, <1>11, <1>13, <1>14, <1>17 DEF ShownInv

\* A fetch that fails takes nothing away.
LEMMA FetchFailsShown == ASSUME ShownInv, DrawnInv', NEW f \in Fetches, FetchFails(f) PROVE ShownInv'
<1>1. ChartTypeOK /\ AsksForNew /\ AnswersAll
  BY DEF ShownInv, DrawnInv
<1>2. UNCHANGED history /\ UNCHANGED <<cur, chart>> /\ fetch' = [fetch EXCEPT ![f] = NoFetch]
  BY DEF FetchFails
<1>3. UNCHANGED <<histI, hist>>
  BY <1>2 DEF history
<1>4. fetch'[f].at = "none" /\ \A g \in Fetches : g # f => fetch'[g] = fetch[g]
  BY <1>1, <1>2, FetchEnds DEF NoFetch
<1>5. AsksForNew'
  BY <1>1, <1>2, <1>4 DEF AsksForNew
<1>6. AnswersAll'
  BY <1>1, <1>2, <1>3, <1>4 DEF AnswersAll
<1> QED
  BY <1>2, <1>3, <1>5, <1>6, FetchStep

\* Picking another device while nothing is under way: the empty chart is asked for whole.
LEMMA PickDeviceShown ==
  ASSUME ShownInv, DrawnInv', NEW d \in Devices, NEW f \in Fetches, PickDevice(d, f),
         \A g \in Fetches : fetch[g].at = "none"
  PROVE  ShownInv'
<1>1. ChartTypeOK /\ ChartTypeOK'
  BY DEF ShownInv, DrawnInv
<1>2. /\ cur' = d /\ chart' = EmptyChart /\ UNCHANGED history
      /\ fetch' = [fetch EXCEPT ![f] = Sent(d, 0)]
  BY DEF PickDevice
<1>3. UNCHANGED <<histI, hist>> /\ chart'.last = 0
  BY <1>2 DEF history, EmptyChart
<1>4. fetch'[f] = Sent(d, 0) /\ \A g \in Fetches : g # f => fetch'[g] = fetch[g]
  BY <1>1, <1>2 DEF ChartTypeOK
<1>5. fetch'[f].at = "sent" /\ fetch'[f].dev = d /\ fetch'[f].since = 0
  BY <1>4 DEF Sent
<1>6. AsksForNew'
  <2>1. 0 <= 0
    OBVIOUS
  <2> QED
    BY <1>2, <1>3, <1>4, <1>5, <2>1, Zenon DEF AsksForNew
<1>7. AnswersAll'
  <2>1. \A g \in Fetches : fetch'[g].at # "answered"
    BY <1>4, <1>5
  <2> QED
    BY <2>1 DEF AnswersAll
<1>8. (chart.last <= histI[cur])'
  BY <1>1, <1>2, <1>3, Bounds DEF ChartTypeOK
<1>9. BelowLastIsShown'
  <2>1. hist[d] \in Seq(Samples)
    BY <1>1 DEF ChartTypeOK
  <2>2. \A k \in DOMAIN hist[d] : hist[d][k] \in Samples
    BY <2>1
  <2>3. \A x \in Samples : ~(x.i <= 0)
    BY Bounds DEF Samples
  <2>4. \A k \in DOMAIN hist[d] : ~(hist[d][k].i <= 0)
    BY <2>2, <2>3, Zenon
  <2> QED
    BY <1>2, <1>3, <2>4 DEF BelowLastIsShown
<1> QED
  BY <1>6, <1>7, <1>8, <1>9 DEF ShownInv

\* The server keeps running, and another device is picked only while no fetch is under way.
PicksQuietly ==
  /\ run' = run
  /\ cur' # cur => \A f \in Fetches : fetch[f].at = "none"

\* One step per action; a restart of the server is excluded.
LEMMA NextShown ==
  ASSUME ShownInv, DrawnInv', [ChartNext]_chartVars, [PicksQuietly]_chartVars
  PROVE  ShownInv'
<1>1. CASE UNCHANGED chartVars
  <2>1. UNCHANGED <<histI, hist, cur, chart, fetch>>
    BY <1>1 DEF chartVars
  <2>2. AsksForNew' /\ AnswersAll'
    BY <2>1 DEF ShownInv, AsksForNew, AnswersAll
  <2> QED
    BY <2>1, <2>2, FetchStep
<1>2. ASSUME NEW d \in Devices, LiveSample(d) \/ BackfillSample(d) \/ Reboot(d)
      PROVE  ShownInv'
  BY <1>2, LiveSampleShown, BackfillSampleShown, RebootShown
<1>3. ASSUME ServerRestart
      PROVE  ShownInv'
  <2>1. run' # run
    BY <1>3, Bounds DEF ServerRestart, ShownInv, DrawnInv, ChartTypeOK
  <2> QED
    BY <2>1 DEF PicksQuietly, chartVars
<1>4. ASSUME NEW f \in Fetches, PollHistory(f) \/ ApiHistory(f) \/ FetchDone(f) \/ FetchFails(f)
      PROVE  ShownInv'
  BY <1>4, PollHistoryShown, ApiHistoryShown, FetchDoneShown, FetchFailsShown
<1>5. ASSUME NEW f \in Fetches, NEW d \in Devices, PickDevice(d, f)
      PROVE  ShownInv'
  <2>1. cur' # cur
    BY <1>5 DEF PickDevice
  <2>2. \A g \in Fetches : fetch[g].at = "none"
    BY <2>1 DEF PicksQuietly, chartVars
  <2> QED
    BY <1>5, <2>2, PickDeviceShown
<1> QED
  BY <1>1, <1>2, <1>3, <1>4, <1>5, Zenon DEF ChartNext

\* While the server is not restarted, and another device is picked only when no fetch is
\* under way, every sample of the history with an id up to histLastI is drawn, or its
\* number is known: though the page never asks for those again (since_i), backfill that
\* lands in the past, history that is cut and fetches that overtake one another lose
\* nothing (README.md:82-86).
THEOREM ChartSound == ChartSafety /\ [][PicksQuietly]_chartVars => []ChartIsSound
<1>1. ChartInit => ShownInv
  BY InitShown
<1>2. ShownInv /\ DrawnInv' /\ [ChartNext]_chartVars /\ [PicksQuietly]_chartVars => ShownInv'
  BY NextShown
<1>3. ShownInv => ChartIsSound
  BY DrawnOnceMeans DEF ShownInv, DrawnInv, ChartIsSound
<1> QED
  BY <1>1, <1>2, <1>3, AlwaysDrawn, PTL DEF ChartSafety

\* One device in the registry and one run of the server: there is nothing else to pick.
THEOREM ChartSoundAlone ==
  ASSUME \E d : Devices = {d}, MaxRun = 1
  PROVE  ChartSafety => []ChartIsSound
<1>1. DrawnInv /\ DrawnInv' => [PicksQuietly]_chartVars
  <2> SUFFICES ASSUME DrawnInv, DrawnInv' PROVE run' = run /\ cur' = cur
    BY DEF PicksQuietly
  <2>1. run \in 1..1 /\ run' \in 1..1 /\ cur \in Devices /\ cur' \in Devices
    BY DEF DrawnInv, ChartTypeOK
  <2> QED
    BY <2>1
<1> QED
  BY <1>1, AlwaysDrawn, ChartSound, PTL
==============================================================================
