---------------------------- MODULE SessionsProofs ----------------------------
(***************************************************************************)
(* What a user may conclude from the promise of Sessions.                  *)
(***************************************************************************)
EXTENDS Sessions, TLAPS

LEMMA UpToDatePreserved == UpToDate /\ [Next]_vars => UpToDate'
<1> SUFFICES ASSUME UpToDate, [Next]_vars PROVE UpToDate'
  OBVIOUS
<1> USE DEF UpToDate, sessionVars, levelVars
<1>1. CASE Change \/ Announce \/ Begin
  BY <1>1 DEF Change, Announce, Begin
<1>2. CASE Open
  BY <1>2 DEF Open
<1>3. CASE Show \/ Close \/ Signal \/ Stop
  BY <1>3 DEF Show, Close, Signal, Stop
<1>4. CASE FollowLevel
  BY <1>4 DEF FollowLevel
<1>5. CASE UNCHANGED vars
  BY <1>5 DEF vars
<1> QED
  BY <1>1, <1>2, <1>3, <1>4, <1>5 DEF Next

\* The promise is worth having: whenever no change is on its way, a session that
\* is not stale runs on the settings in force, in the serial port and in the
\* MQTT client, and so does the log level unless it is about to follow (the
\* bridge loop and watchLogLevel).
THEOREM PromiseUpToDate == Spec => []UpToDate
<1>1. Init => UpToDate
  BY DEF Init, UpToDate
<1> QED
  BY <1>1, UpToDatePreserved, PTL DEF Spec
===============================================================================
