------------------------------- MODULE Sessions -------------------------------
(***************************************************************************)
(* What the running process promises about the settings it works with, to  *)
(* a user who changes them on the page and does not know of versions,      *)
(* goroutines and locks.  A change is made, and a little later announced.  *)
(* The process holds one session at a time.  A session that was not made   *)
(* stale by an announcement runs on the settings in force; it ends for no  *)
(* other reason than a stale session or a signal, and after the signal     *)
(* there is no other one.  The log level follows the changes by itself.    *)
(***************************************************************************)
EXTENDS Settings

VARIABLES
  current,    \* the settings in force
  changing,   \* a change was made and is not announced yet
  stale,      \* a change was announced since the session was begun
  phase,      \* "closed", "opening", "open" or "ended"
  session,    \* the settings the open session runs on, or NoSession
  shown,      \* the page shows a connection
  stopping,   \* the process was told to stop
  level,      \* the log level
  levelStale  \* a change was announced that the log level does not yet follow

sessionVars == <<stale, phase, session, shown>>
levelVars   == <<level, levelStale>>
vars        == <<current, changing, stopping, sessionVars, levelVars>>

NoSession == <<>>

Init ==
  /\ current \in Config
  /\ changing = FALSE /\ stale = FALSE
  /\ phase = "closed" /\ session = NoSession
  /\ shown = FALSE /\ stopping = FALSE
  /\ level = current.level /\ levelStale = FALSE

Change ==
  /\ current' \in Config
  /\ changing' = TRUE
  /\ UNCHANGED <<stopping, sessionVars, levelVars>>

\* One of the changes is announced; others may still have to be.
Announce ==
  /\ changing /\ changing' \in BOOLEAN
  /\ stale' = TRUE /\ levelStale' = TRUE
  /\ UNCHANGED <<current, stopping, phase, session, shown, level>>

Begin ==
  /\ phase = "closed" /\ ~stopping
  /\ phase' = "opening"
  /\ stale' = FALSE
  /\ UNCHANGED <<current, changing, stopping, session, shown, levelVars>>

\* The client is built from the settings in force; what the serial port is
\* opened with was read before, and may be older only if a change says so.
Open ==
  /\ phase = "opening" /\ phase' = "open"
  /\ \E dev \in Config :
       /\ ~stale /\ ~changing => dev = current
       /\ session' = [dev |-> dev, mqtt |-> current]
  /\ UNCHANGED <<current, changing, stopping, stale, shown, levelVars>>

Show ==
  /\ phase = "open"
  /\ shown' \in BOOLEAN
  /\ UNCHANGED <<current, changing, stopping, stale, phase, session, levelVars>>

Close ==
  /\ phase = "open" /\ (stale \/ stopping)
  /\ phase' = "closed" /\ session' = NoSession
  /\ shown' = FALSE
  /\ UNCHANGED <<current, changing, stopping, stale, levelVars>>

\* A change announced while the level is taken over leaves it stale.
FollowLevel ==
  /\ levelStale /\ levelStale' \in BOOLEAN
  /\ level' = current.level
  /\ UNCHANGED <<current, changing, stopping, sessionVars>>

Signal ==
  /\ stopping' = TRUE
  /\ UNCHANGED <<current, changing, sessionVars, levelVars>>

Stop ==
  /\ phase = "closed" /\ stopping
  /\ phase' = "ended"
  /\ UNCHANGED <<current, changing, stopping, stale, session, shown, levelVars>>

Next ==
  /\ phase # "ended"
  /\ Change \/ Announce \/ Begin \/ Open \/ Show \/ Close \/ FollowLevel \/ Signal \/ Stop

Spec == Init /\ [][Next]_vars

\* Nothing the process uses is out of date without the process being about to
\* notice.
UpToDate ==
  ~changing => /\ phase = "open" /\ ~stale => session = [dev |-> current, mqtt |-> current]
               /\ ~levelStale => level = current.level
===============================================================================
