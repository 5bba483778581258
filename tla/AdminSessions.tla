---------------------------- MODULE AdminSessions ----------------------------
(***************************************************************************)
(* The login sessions of AdminWeb (server/web.py): tokens with an expiry   *)
(* in memory, written to a JSON file at each login and logout and read     *)
(* back when the server starts.  The file is overwritten in place, so a    *)
(* save that fails or is cut short leaves the old content, a torn one,     *)
(* which reads as no session at all, or the new one.                       *)
(*                                                                         *)
(* A request is handled without an await between its look at the token     *)
(* and the save.  A request that is let in changes nothing here.           *)
(***************************************************************************)
EXTENDS Naturals

CONSTANTS
  Token,      \* the random tokens, no two of them alike
  Ttl,        \* session_ttl
  MaxTime     \* bound on the clock

ASSUME AdminAssumption == Ttl \in Nat \ {0} /\ MaxTime \in Nat

VARIABLES
  clock,      \* time.time(); it does not run backwards
  up,         \* the server is running
  sessions,   \* _sessions: the expiry of each token, 0 for none
  file,       \* the session file; one that does not exist reads as an empty one
  granted,    \* the expiry each token was created with, 0: not created
  held,       \* tokens whose cookie was sent: the login was answered
  dead,       \* tokens the running server has refused since they were created
  out,        \* tokens a logout was asked for
  kept,       \* tokens logged out whose removal a failed save left out of the file
  saved,      \* the last save completed
  lost        \* tokens held when the server went down without having completed it

vars == <<clock, up, sessions, file, granted, held, dead, out, kept, saved, lost>>

Times == 0..(MaxTime + Ttl)
Entries == [Token -> Times]
NoEntries == [t \in Token |-> 0]
Torn == [whole |-> FALSE, entries |-> NoEntries]
Outcomes == {"new", "torn", "old"}

\* No restart prolongs a session: memory and file hold the expiry of the login.
TermIsKept ==
  \A t \in Token : /\ sessions[t] \in {0, granted[t]}
                   /\ file.entries[t] \in {0, granted[t]}

TypeOK ==
  /\ clock \in 0..MaxTime /\ up \in BOOLEAN /\ saved \in BOOLEAN
  /\ sessions \in Entries /\ granted \in Entries
  /\ file \in [whole : BOOLEAN, entries : Entries]
  /\ held \subseteq Token /\ dead \subseteq Token /\ out \subseteq Token
  /\ kept \subseteq Token /\ lost \subseteq Token
  /\ TermIsKept

Init ==
  /\ clock = 0 /\ up = TRUE /\ saved = TRUE
  /\ sessions = NoEntries /\ granted = NoEntries
  /\ file = [whole |-> TRUE, entries |-> NoEntries]
  /\ held = {} /\ dead = {} /\ out = {} /\ kept = {} /\ lost = {}

Created(t) == granted[t] # 0
Expired(t) == clock > sessions[t]

\* _authed lets a request in, and with it _auth_mw.
Accepted(t) == up /\ sessions[t] # 0 /\ ~Expired(t)

\* Mutant: a session that is read back starts a new term.
LoadSessionsAnew ==
  [t \in Token |-> IF file.whole /\ file.entries[t] > clock THEN clock + Ttl ELSE 0]

\* Entries that have not expired; none from a file that cannot be parsed.
LoadSessions ==
  [t \in Token |-> IF file.whole /\ file.entries[t] > clock THEN file.entries[t] ELSE 0]

\* What a save that ends in o leaves in the file.
Written(o, m) ==
  IF o = "old" THEN file ELSE IF o = "torn" THEN Torn ELSE [whole |-> TRUE, entries |-> m]

\* _save_sessions swallows an OSError: the server goes on with what it has in memory.
SaveSessions(m, gone) ==
  \E o \in Outcomes :
    /\ file' = Written(o, m)
    /\ saved' = (o = "new")
    /\ kept' = IF o = "old" THEN kept \cup gone ELSE {t \in kept \cup gone : m[t] # 0}

\* The server goes down, by stop() or by a crash.
GoDown(complete) ==
  /\ up' = FALSE
  /\ sessions' = NoEntries
  /\ lost' = IF complete THEN lost ELSE lost \cup held

\* A crash in the middle of a save: the request is never answered.
CrashInSave(m) ==
  \E o \in Outcomes :
    /\ file' = Written(o, m)
    /\ saved' = (o = "new" \/ (o = "old" /\ saved))
    /\ GoDown(saved')

\* The tokens that are refused with the sessions m at time c.
Refused(m, c) == {t \in Token : Created(t) /\ (m[t] = 0 \/ c > m[t])}

WithNew(t) == [sessions EXCEPT ![t] = clock + Ttl]

\* User and password are right: a new token, saved before the cookie is sent.
PostLogin(t) ==
  /\ up /\ ~Created(t)
  /\ sessions' = WithNew(t)
  /\ granted' = [granted EXCEPT ![t] = clock + Ttl]
  /\ SaveSessions(WithNew(t), {})
  /\ held' = held \cup {t}
  /\ UNCHANGED <<clock, up, dead, out, lost>>

CrashInLogin(t) ==
  /\ up /\ ~Created(t)
  /\ granted' = [granted EXCEPT ![t] = clock + Ttl]
  /\ CrashInSave(WithNew(t))
  /\ UNCHANGED <<clock, held, dead, out, kept>>

Without(t) == [sessions EXCEPT ![t] = 0]

\* Mutant: the file is written before the token is removed.
GetLogoutSavesFirst(t) ==
  /\ Accepted(t)
  /\ sessions' = Without(t)
  /\ SaveSessions(sessions, {})
  /\ dead' = dead \cup {t} /\ out' = out \cup {t}
  /\ UNCHANGED <<clock, up, granted, held, lost>>

\* /logout is behind the login: only a token that is let in can be removed.
GetLogout(t) ==
  /\ Accepted(t)
  /\ sessions' = Without(t)
  /\ SaveSessions(Without(t), {t})
  /\ dead' = dead \cup {t} /\ out' = out \cup {t}
  /\ UNCHANGED <<clock, up, granted, held, lost>>

CrashInLogout(t) ==
  /\ Accepted(t)
  /\ CrashInSave(Without(t))
  /\ out' = out \cup {t}
  /\ UNCHANGED <<clock, granted, held, dead, kept>>

\* A request with a token past its expiry removes it from memory, not from the file.
Expire(t) ==
  /\ up /\ sessions[t] # 0 /\ Expired(t)
  /\ sessions' = Without(t)
  /\ UNCHANGED <<clock, up, file, granted, held, dead, out, kept, saved, lost>>

Stop ==
  /\ up
  /\ GoDown(saved)
  /\ UNCHANGED <<clock, file, granted, held, dead, out, kept, saved>>

Start ==
  /\ ~up
  /\ up' = TRUE
  /\ sessions' = LoadSessions
  /\ dead' = dead \cup Refused(LoadSessions, clock)
  /\ UNCHANGED <<clock, file, granted, held, out, kept, saved, lost>>

Tick ==
  /\ clock < MaxTime
  /\ clock' = clock + 1
  /\ dead' = IF up THEN dead \cup Refused(sessions, clock + 1) ELSE dead
  /\ UNCHANGED <<up, sessions, file, granted, held, out, kept, saved, lost>>

Next ==
  \/ \E t \in Token : \/ PostLogin(t) \/ CrashInLogin(t)
                      \/ GetLogout(t) \/ CrashInLogout(t)
                      \/ Expire(t)
  \/ Stop
  \/ Start
  \/ Tick

Spec == Init /\ [][Next]_vars
-----------------------------------------------------------------------------
(***************************************************************************)
(* Properties.                                                             *)
(***************************************************************************)

\* A token the server has once refused - logged out, expired, or lost with a torn
\* file - is not let in again, whatever restarts and saves follow; the one exception
\* is a logout that a failed save left in the file, which a restart undoes.
RefusedStaysRefused == \A t \in dead : Accepted(t) => t \in kept

(***************************************************************************)
(* What docs and comments say, and the code does not keep (README).        *)
(***************************************************************************)
\* web.py:16 "in-memory; expired on restart": no login answered by an earlier run of the server
\* is good for the next one.
RestartEndsSessions == [][~up /\ up' => \A t \in held : ~Accepted(t)']_vars

\* web.py:52 "Sessions survive server restarts" is what the code does: an answered login is
\* good for its whole term, unless a logout was asked for or the server went down
\* while its last save was incomplete.
LoginsSurvive ==
  \A t \in held : up /\ clock < granted[t] => Accepted(t) \/ t \in out \/ t \in lost
==============================================================================
