----------------------------- MODULE BridgeProofs -----------------------------
(***************************************************************************)
(* Proofs about Bridge, for any number of PUT handlers and of VBus sources *)
(* and with or without a configuration file.                               *)
(***************************************************************************)
EXTENDS Bridge, ConfigStoreProofs

\* A step of the process is a step of the store or leaves it alone.
LEMMA StoreStep == [BridgeNext]_vars => [Next]_storeVars
BY DEF BridgeNext, vars, MainStep, WatchStep, PutStarts, PutContinues, PutRefused,
       IntervalElapses, LinkChanges, Cancel, Next, Put

LEMMA BridgeTypeInit == BridgeInit => TypeOK /\ BridgeTypeOK /\ RoundInv
<1> SUFFICES ASSUME BridgeInit PROVE TypeOK /\ BridgeTypeOK /\ RoundInv
  OBVIOUS
<1>1. TypeOK
  BY TypeInit DEF BridgeInit
<1>2. cfg.level \in Levels
  BY <1>1 DEF TypeOK, Config
<1> QED
  BY <1>1, <1>2 DEF BridgeInit, BridgeTypeOK, RoundInv, TypeOK

LEMMA BridgeTypePreserved ==
  TypeOK /\ BridgeTypeOK /\ RoundInv /\ [BridgeNext]_vars
    => TypeOK' /\ BridgeTypeOK' /\ RoundInv'
<1> SUFFICES ASSUME TypeOK, BridgeTypeOK, RoundInv, [BridgeNext]_vars
             PROVE  BridgeTypeOK' /\ RoundInv'
  BY StoreStep, TypePreserved
<1>a. version \in Nat /\ cfg \in Config /\ cfg.level \in Levels
  BY DEF TypeOK, Config
<1> USE DEF BridgeTypeOK, RoundInv, InSession, Reading, Goto, statusVars, mainVars
<1>1. CASE MainStep
  <2> USE <1>1 DEF MainStep, watchVars
  <2>1. CASE OuterLoop
    BY <1>a, <2>1 DEF OuterLoop
  <2>2. CASE GetConfig
    BY <1>a, <2>2 DEF GetConfig
  <2>3. CASE NewClient
    BY <1>a, <2>3 DEF NewClient
  <2>4. CASE ConnectReturns
    BY <2>4 DEF ConnectReturns, IsConnected
  <2>5. CASE InnerLoop
    BY <2>5 DEF InnerLoop
  <2>6. CASE AfterReadLoop
    BY <2>6 DEF AfterReadLoop
  <2>7. CASE Retry
    BY <2>7 DEF Retry
  <2>8. CASE Teardown
    BY <2>8 DEF Teardown
  <2>9. CASE LoopHead
    BY <2>9 DEF LoopHead, Return, Continue
  <2>10. CASE SerialRead
    BY <2>10 DEF SerialRead, Return
  <2>11. CASE CheckDue
    BY <2>11 DEF CheckDue
  <2>12. CASE PublishOne
    BY <2>12 DEF PublishOne
  <2>13. CASE FinishRound
    <3>1. mqttShown' \in BOOLEAN
      BY <2>13 DEF FinishRound, IsConnected
    <3> QED
      BY <2>13, <3>1 DEF FinishRound
  <2> QED
    BY <2>1, <2>2, <2>3, <2>4, <2>5, <2>6, <2>7, <2>8, <2>9, <2>10, <2>11, <2>12, <2>13
<1>2. CASE WatchStep
  BY <1>a, <1>2 DEF WatchStep, WatchTick, WatchApply, WatchStop
<1>3. ASSUME NEW h \in Handlers, PutStarts(h) PROVE BridgeTypeOK' /\ RoundInv'
  BY <1>3 DEF PutStarts, watchVars
<1>4. ASSUME NEW h \in Handlers, PutContinues(h) \/ PutRefused(h) PROVE BridgeTypeOK' /\ RoundInv'
  BY <1>4 DEF PutContinues, PutRefused, bridgeVars, watchVars
<1>5. CASE IntervalElapses
  BY <1>5 DEF IntervalElapses, watchVars
<1>6. CASE LinkChanges
  BY <1>6 DEF LinkChanges, watchVars
<1>7. CASE Cancel
  BY <1>7 DEF Cancel, watchVars
<1>8. CASE UNCHANGED vars
  BY <1>8 DEF vars, bridgeVars, watchVars
<1> QED
  BY <1>1, <1>2, <1>3, <1>4, <1>5, <1>6, <1>7, <1>8 DEF BridgeNext

\* Every reachable state of the process is well typed, and a publish round
\* never leaves sources behind for the next (readLoop).
THEOREM BridgeTypeCorrect == BridgeSafetySpec => [](TypeOK /\ BridgeTypeOK /\ RoundInv)
BY BridgeTypeInit, BridgeTypePreserved, PTL DEF BridgeSafetySpec
-------------------------------------------------------------------------------
(***************************************************************************)
(* Settings and version.                                                   *)
(***************************************************************************)

LEMMA SyncInit == BridgeInit => SyncInv
BY DEF BridgeInit, Init, SyncInv, LevelSound, InSession, Reading

\* What the store's steps do to the version and to the settings: cfg changes
\* only in a step after which an Update is pending, and the version only grows,
\* by a pending Update.
LEMMA StoreEffect ==
  ASSUME TypeOK, NEW h \in Handlers,
         UpdateApply(h) \/ UpdateBump(h) \/ Save(h) \/ PutRejected(h)
  PROVE  \/ cfg' = cfg /\ version' = version /\ Pending' = Pending
         \/ version' = version /\ Pending'
         \/ cfg' = cfg /\ version' = version + 1 /\ Pending
<1>1. CASE UpdateApply(h)
  <2>1. pc'[h] = "bump"
    BY <1>1 DEF UpdateApply, Step, TypeOK
  <2> QED
    BY <1>1, <2>1 DEF UpdateApply, Pending
<1>2. CASE UpdateBump(h)
  BY <1>2 DEF UpdateBump, Step, Pending
<1>3. CASE Save(h)
  <2>1. \A g \in Handlers : pc'[g] = "bump" <=> pc[g] = "bump"
    BY <1>3 DEF Save, SaveSnapshot, SaveOpen, SaveWrite, SaveRename, SaveFails, Step, TypeOK
  <2>2. Pending' = Pending
    BY <2>1 DEF Pending
  <2> QED
    BY <1>3, <2>2 DEF Save, SaveSnapshot, SaveOpen, SaveWrite, SaveRename, SaveFails
<1>4. CASE PutRejected(h)
  BY <1>4 DEF PutRejected, Pending
<1> QED
  BY <1>1, <1>2, <1>3, <1>4

LEMMA SyncPreserved ==
  TypeOK /\ BridgeTypeOK /\ SyncInv /\ [BridgeNext]_vars => SyncInv'
<1> SUFFICES ASSUME TypeOK, BridgeTypeOK, SyncInv, [BridgeNext]_vars
             PROVE  SyncInv'
  OBVIOUS
<1>a. version \in Nat /\ ver \in Nat /\ lastVer \in Nat
  BY DEF TypeOK, BridgeTypeOK
<1> USE DEF SyncInv, LevelSound, InSession, Reading, Goto, statusVars, mainVars
<1>1. CASE MainStep
  <2>0. Pending' = Pending /\ UNCHANGED <<storeVars, ctxDone, watchVars>>
    BY <1>1 DEF MainStep, Pending, storeVars
  <2> USE <1>1, <1>a, <2>0 DEF MainStep, watchVars, storeVars
  <2>1. CASE OuterLoop
    BY <2>1 DEF OuterLoop
  <2>2. CASE GetConfig
    BY <2>2 DEF GetConfig
  <2>3. CASE NewClient
    BY <2>3 DEF NewClient
  <2>4. CASE ConnectReturns
    BY <2>4 DEF ConnectReturns
  <2>5. CASE InnerLoop \/ AfterReadLoop \/ Retry
    BY <2>5 DEF InnerLoop, AfterReadLoop, Retry
  <2>6. CASE Teardown
    BY <2>6 DEF Teardown
  <2>7. CASE LoopHead \/ SerialRead
    BY <2>7 DEF LoopHead, SerialRead, Return, Continue
  <2>8. CASE CheckDue \/ PublishOne \/ FinishRound
    BY <2>8 DEF CheckDue, PublishOne, FinishRound
  <2> QED
    BY <2>1, <2>2, <2>3, <2>4, <2>5, <2>6, <2>7, <2>8
<1>2. CASE WatchStep
  <2>0. Pending' = Pending
    BY <1>2 DEF WatchStep, Pending, storeVars
  <2> QED
    BY <1>a, <1>2, <2>0 DEF WatchStep, WatchTick, WatchApply, WatchStop, storeVars
<1>3. ASSUME NEW h \in Handlers, PutStarts(h) \/ PutContinues(h) \/ PutRefused(h)
      PROVE  SyncInv'
  <2>1. UNCHANGED <<main, ver, devCfg, mqttCfg, watchVars>>
    BY <1>3 DEF PutStarts, PutContinues, PutRefused, bridgeVars
  <2>2. \/ cfg' = cfg /\ version' = version /\ Pending' = Pending
        \/ version' = version /\ Pending'
        \/ cfg' = cfg /\ version' = version + 1
    BY <1>3, StoreEffect DEF PutStarts, PutContinues, PutRefused
  <2> QED
    BY <1>a, <2>1, <2>2 DEF watchVars
<1>4. CASE IntervalElapses \/ LinkChanges \/ Cancel \/ UNCHANGED vars
  <2>1. /\ UNCHANGED <<cfg, version, main, ver, devCfg, mqttCfg, watch, lastVer, level>>
        /\ Pending' = Pending
    BY <1>4 DEF IntervalElapses, LinkChanges, Cancel, vars, bridgeVars, watchVars, storeVars, Pending
  <2> QED
    BY <2>1
<1> QED
  BY <1>1, <1>2, <1>3, <1>4 DEF BridgeNext

LEMMA SyncCorrect == BridgeSafetySpec => []SyncInv
BY SyncInit, SyncPreserved, BridgeTypeCorrect, PTL DEF BridgeSafetySpec

\* main reads the version before the settings and Update bumps it after it has
\* replaced them, so a session never takes old settings for current, however
\* many requests overlap the reload.
THEOREM ReloadIsSound == BridgeSafetySpec => []ReloadSound
<1>1. SyncInv => ReloadSound
  BY DEF SyncInv, ReloadSound
<1> QED
  BY <1>1, SyncCorrect, PTL

\* watchLogLevel remembers the version before it reads the level: no level
\* change is lost.
THEOREM LevelIsSound == BridgeSafetySpec => []LevelSound
<1>1. SyncInv => LevelSound
  BY DEF SyncInv
<1> QED
  BY <1>1, SyncCorrect, PTL

\* The status shows a connection only while there is a client (main, readLoop).
THEOREM ShownIsBacked == BridgeSafetySpec => []ShownOnlyWithClient
<1>1. BridgeInit => ShownOnlyWithClient
  BY DEF BridgeInit, ShownOnlyWithClient
<1>2. ShownOnlyWithClient /\ [BridgeNext]_vars => ShownOnlyWithClient'
  <2> SUFFICES ASSUME ShownOnlyWithClient, [BridgeNext]_vars PROVE ShownOnlyWithClient'
    OBVIOUS
  <2> USE DEF ShownOnlyWithClient, statusVars
  <2>1. CASE MainStep
    BY <2>1 DEF MainStep, OuterLoop, GetConfig, NewClient, ConnectReturns, InnerLoop,
                AfterReadLoop, Retry, Teardown, LoopHead, SerialRead, CheckDue, PublishOne,
                FinishRound, IsConnected
  <2>2. CASE WatchStep \/ IntervalElapses \/ LinkChanges \/ Cancel \/ UNCHANGED vars
    BY <2>2 DEF WatchStep, IntervalElapses, LinkChanges, Cancel, vars, bridgeVars
  <2>3. ASSUME NEW h \in Handlers, PutStarts(h) \/ PutContinues(h) \/ PutRefused(h)
        PROVE  ShownOnlyWithClient'
    BY <2>3 DEF PutStarts, PutContinues, PutRefused, bridgeVars
  <2> QED
    BY <2>1, <2>2, <2>3 DEF BridgeNext
<1> QED
  BY <1>1, <1>2, PTL DEF BridgeSafetySpec
-------------------------------------------------------------------------------
(***************************************************************************)
(* The store in the running process.                                       *)
(***************************************************************************)

\* Whatever the bridge loop, the watcher, paho and signals do, the store in the
\* process behaves as ConfigStore says: what is proved of ConfigStore holds of
\* the store of the running process (Get and Version are the only other calls).
THEOREM BridgeRunsStore == BridgeSafetySpec => Spec
<1>1. BridgeInit => Init
  BY DEF BridgeInit
<1> QED
  BY <1>1, StoreStep, PTL DEF BridgeSafetySpec, Spec

\* With requests that do not overlap, a PUT that is cut short anywhere by main's
\* return leaves the old or the new document, and an answered one is on disk and
\* in what the next process loads (main, Update, saveFile).
THEOREM ShutdownIsCrashSafe ==
  ASSUME PersistencePath, SerialHandlers
  PROVE  BridgeSafetySpec => /\ []ConfigFileIntact
                             /\ []SettledOnDisk
                             /\ []RestartKeepsNonEmpty
                             /\ ImplementsDurable
BY BridgeRunsStore, CrashSafe, AcknowledgedIsSaved, AcknowledgedSurvivesRestart, StoreIsDurable, PTL
-------------------------------------------------------------------------------
(***************************************************************************)
(* Leaving a session.                                                      *)
(***************************************************************************)

\* Main's settings and its session are the business of main alone.
LEMMA OthersLeaveMain ==
  ASSUME [BridgeNext]_vars, ~MainStep
  PROVE  UNCHANGED <<main, ver, devCfg, mqttCfg, todo, mqttShown>>
BY DEF BridgeNext, WatchStep, PutStarts, PutContinues, PutRefused, IntervalElapses,
       LinkChanges, Cancel, vars, bridgeVars, mainVars, statusVars

\* A signal is never taken back, and the version only grows.
LEMMA LeavingStays ==
  ASSUME TypeOK, BridgeTypeOK, ver <= version, [BridgeNext]_vars,
         ver' = ver, ctxDone \/ version # ver
  PROVE  ctxDone' \/ version' # ver'
<1>a. version \in Nat /\ ver \in Nat
  BY DEF TypeOK, BridgeTypeOK
<1>1. CASE ctxDone
  BY <1>1 DEF BridgeNext, MainStep, WatchStep, PutStarts, PutContinues, PutRefused,
              IntervalElapses, LinkChanges, Cancel, vars, bridgeVars
<1>2. CASE ver < version
  <2>1. version' >= version
    <3>1. ASSUME NEW h \in Handlers, PutStarts(h) \/ PutContinues(h) \/ PutRefused(h)
          PROVE  version' >= version
      BY <1>a, <3>1, StoreEffect DEF PutStarts, PutContinues, PutRefused
    <3> QED
      BY <1>a, <3>1 DEF BridgeNext, MainStep, WatchStep, IntervalElapses, LinkChanges,
                        Cancel, vars, storeVars
  <2> QED
    BY <1>a, <1>2, <2>1
<1> QED
  BY <1>a, <1>1, <1>2

LEMMA TeardownPreserved ==
  TypeOK /\ BridgeTypeOK /\ SyncInv /\ TeardownInv /\ [BridgeNext]_vars => TeardownInv'
<1> SUFFICES ASSUME TypeOK, BridgeTypeOK, SyncInv, TeardownInv, [BridgeNext]_vars,
                    main' = "teardown"
             PROVE  ctxDone' \/ version' # ver'
  BY DEF TeardownInv
<1>1. ver' = ver /\ (ctxDone \/ version # ver)
  <2>1. CASE MainStep
    BY <2>1 DEF MainStep, OuterLoop, GetConfig, NewClient, ConnectReturns, InnerLoop,
                AfterReadLoop, Retry, Teardown, LoopHead, SerialRead, CheckDue, PublishOne,
                FinishRound, Goto, Return, Continue, TeardownInv
  <2>2. CASE ~MainStep
    BY <2>2, OthersLeaveMain DEF TeardownInv
  <2> QED
    BY <2>1, <2>2
<1> QED
  BY <1>1, LeavingStays DEF SyncInv

\* The sub-loop is left, and the client disconnected, for a signal or a new
\* version only, never for a port that fails or a broker that is away (main).
THEOREM TeardownIsDue == BridgeSafetySpec => []TeardownInv
<1>1. BridgeInit => TeardownInv
  BY DEF BridgeInit, TeardownInv
<1> QED
  BY <1>1, TeardownPreserved, BridgeTypeCorrect, SyncCorrect, PTL DEF BridgeSafetySpec

\* Once there was a signal or an Update, every step of main brings it closer to
\* the end of its session: it is out after at most the eight waits and checks of
\* Ahead and one publish per source of the round it is in (main, readLoop).
THEOREM LeavingUnwinds == BridgeSafetySpec => Unwinds
<1>1. ASSUME BridgeTypeOK, Leaving, MainStep
      PROVE  \/ Ahead[main'] < Ahead[main]
             \/ main' = main /\ todo' \subseteq todo /\ todo' # todo
  <2> USE DEF Ahead, Leaving, Goto
  <2>1. CASE OuterLoop \/ GetConfig \/ NewClient \/ ConnectReturns
    BY <1>1, <2>1 DEF OuterLoop, GetConfig, NewClient, ConnectReturns
  <2>2. CASE InnerLoop \/ AfterReadLoop \/ Retry \/ Teardown
    BY <1>1, <2>2 DEF InnerLoop, AfterReadLoop, Retry, Teardown
  <2>3. CASE LoopHead \/ SerialRead
    BY <1>1, <2>3 DEF LoopHead, SerialRead, Return, Continue
  <2>4. CASE CheckDue \/ FinishRound
    BY <1>1, <2>4 DEF CheckDue, FinishRound
  <2>5. CASE PublishOne
    BY <1>1, <2>5 DEF PublishOne
  <2> QED
    BY <1>1, <2>1, <2>2, <2>3, <2>4, <2>5 DEF MainStep
<1> QED
  BY <1>1, BridgeTypeCorrect, PTL DEF BridgeSafetySpec, Unwinds
-------------------------------------------------------------------------------
(***************************************************************************)
(* The process keeps the promise of Sessions.                              *)
(***************************************************************************)

LEMMA SameSettings == Process!Config = Config
BY DEF Process!Config, Process!Empty, Config, Empty

LEMMA ProcessInit == BridgeInit => Process!Init
<1> SUFFICES ASSUME BridgeInit PROVE Process!Init
  OBVIOUS
<1>1. cfg \in Config /\ version = 0 /\ ~Pending
  BY TypeInit DEF BridgeInit, Init, TypeOK, Pending
<1> QED
  BY <1>1, SameSettings DEF BridgeInit, Process!Init, Process!NoSession, InSession, Reading

\* A step of the bridge loop begins, opens, shows or closes a session, ends the
\* process, or is of no consequence for the promise.
LEMMA MainKeepsPromise ==
  ASSUME TypeOK, BridgeTypeOK, SyncInv, TeardownInv, MainStep
  PROVE  [Process!Next]_(Process!vars)
<1>0. /\ Pending' = Pending
      /\ UNCHANGED <<cfg, version, ctxDone, watch, lastVer, level>>
  BY DEF MainStep, Pending, storeVars, watchVars
<1> USE DEF Goto, statusVars, InSession, Reading, Process!vars, Process!sessionVars,
            Process!levelVars
<1>1. CASE OuterLoop
  <2>1. CASE ctxDone
    <3>1. Process!Stop
      BY <1>0, <1>1, <2>1 DEF OuterLoop, Process!Stop
    <3> QED
      BY <1>1, <3>1 DEF OuterLoop, Process!Next
  <2>2. CASE ~ctxDone
    <3>1. Process!Begin
      BY <1>0, <1>1, <2>2 DEF OuterLoop, Process!Begin
    <3> QED
      BY <1>1, <3>1 DEF OuterLoop, Process!Next
  <2> QED
    BY <2>1, <2>2
<1>2. CASE GetConfig
  BY <1>0, <1>2 DEF GetConfig
<1>3. CASE NewClient
  <2>1. devCfg \in Config /\ devCfg' = devCfg /\ mqttCfg' = cfg
    BY <1>3 DEF NewClient, BridgeTypeOK
  <2>2. ~(ver # version) /\ ~Pending => devCfg = cfg
    BY <1>3 DEF NewClient, SyncInv
  <2>3. Process!Open
    BY <1>0, <1>3, <2>1, <2>2, SameSettings DEF NewClient, Process!Open
  <2> QED
    BY <1>3, <2>3 DEF NewClient, Process!Next
<1>4. CASE ConnectReturns
  <2>1. Process!Show
    BY <1>0, <1>4 DEF ConnectReturns, IsConnected, Process!Show
  <2> QED
    BY <1>4, <2>1 DEF ConnectReturns, Process!Next
<1>5. CASE InnerLoop \/ AfterReadLoop \/ Retry
  BY <1>0, <1>5 DEF InnerLoop, AfterReadLoop, Retry
<1>6. CASE Teardown
  <2>1. ver # version \/ ctxDone
    BY <1>6 DEF Teardown, TeardownInv
  <2>2. Process!Close
    BY <1>0, <1>6, <2>1 DEF Teardown, Process!Close, Process!NoSession
  <2> QED
    BY <1>6, <2>2 DEF Teardown, Process!Next
<1>7. CASE LoopHead \/ SerialRead \/ CheckDue \/ PublishOne
  BY <1>0, <1>7 DEF LoopHead, SerialRead, CheckDue, PublishOne, Return, Continue
<1>8. CASE FinishRound
  <2>1. Process!Show
    BY <1>0, <1>8 DEF FinishRound, IsConnected, Process!Show
  <2> QED
    BY <1>8, <2>1 DEF FinishRound, Process!Next
<1> QED
  BY <1>1, <1>2, <1>3, <1>4, <1>5, <1>6, <1>7, <1>8 DEF MainStep

\* A step of a PUT handler makes a change, announces one, or does not touch the
\* settings in force.
LEMMA PutKeepsPromise ==
  ASSUME TypeOK, BridgeTypeOK, SyncInv, NEW h \in Handlers,
         PutStarts(h) \/ PutContinues(h) \/ PutRefused(h), TypeOK'
  PROVE  [Process!Next]_(Process!vars)
<1>0. /\ main # "stopped"
      /\ UNCHANGED <<ctxDone, main, ver, devCfg, mqttCfg, mqttShown, watch, lastVer, level>>
  BY DEF PutStarts, PutContinues, PutRefused, Running, bridgeVars, mainVars, statusVars,
         watchVars
<1>a. version \in Nat /\ ver \in Nat /\ lastVer \in Nat /\ ver <= version
      /\ lastVer <= version /\ cfg' \in Config /\ main \in InSession \cup {"outer", "getcfg", "new"}
  BY <1>0 DEF TypeOK, BridgeTypeOK, SyncInv
<1>1. \/ cfg' = cfg /\ version' = version /\ Pending' = Pending
      \/ version' = version /\ Pending'
      \/ cfg' = cfg /\ version' = version + 1 /\ Pending
  BY StoreEffect DEF PutStarts, PutContinues, PutRefused
<1>2. Pending \in BOOLEAN /\ Pending' \in BOOLEAN
  BY DEF Pending
<1> USE DEF Process!vars, Process!sessionVars, Process!levelVars
<1>3. CASE cfg' = cfg /\ version' = version /\ Pending' = Pending
  BY <1>0, <1>3
<1>4. CASE version' = version /\ Pending'
  <2>1. Process!Change
    BY <1>0, <1>a, <1>2, <1>4, SameSettings DEF Process!Change
  <2> QED
    BY <1>0, <1>a, <2>1 DEF Process!Next, InSession, Reading
<1>5. CASE cfg' = cfg /\ version' = version + 1 /\ Pending
  <2>1. ver' # version' /\ lastVer' # version'
    BY <1>0, <1>a, <1>5
  <2>2. Process!Announce
    BY <1>0, <1>a, <1>2, <1>5, <2>1 DEF Process!Announce
  <2> QED
    BY <1>0, <1>a, <2>2 DEF Process!Next, InSession, Reading
<1> QED
  BY <1>1, <1>3, <1>4, <1>5

LEMMA ProcessStep ==
  TypeOK /\ TypeOK' /\ BridgeTypeOK /\ SyncInv /\ TeardownInv /\ [BridgeNext]_vars
    => [Process!Next]_(Process!vars)
<1> SUFFICES ASSUME TypeOK, TypeOK', BridgeTypeOK, SyncInv, TeardownInv, [BridgeNext]_vars
             PROVE  [Process!Next]_(Process!vars)
  OBVIOUS
<1>a. main # "stopped" => main \in InSession \cup {"outer", "getcfg", "new"}
  BY DEF BridgeTypeOK
<1> USE DEF Process!vars, Process!sessionVars, Process!levelVars
<1>1. CASE MainStep
  BY <1>1, MainKeepsPromise
<1>2. CASE WatchStep
  <2>0. /\ Pending' = Pending /\ main # "stopped"
        /\ UNCHANGED <<cfg, version, ctxDone, main, ver, devCfg, mqttCfg, mqttShown>>
    BY <1>2 DEF WatchStep, Running, Pending, storeVars, mainVars, statusVars
  <2>1. CASE WatchTick
    BY <2>0, <2>1 DEF WatchTick
  <2>2. CASE WatchApply
    <3>1. Process!FollowLevel
      BY <2>0, <2>2 DEF WatchApply, Process!FollowLevel
    <3> QED
      BY <1>a, <2>0, <3>1 DEF Process!Next, InSession, Reading
  <2>3. CASE WatchStop
    BY <2>0, <2>3 DEF WatchStop
  <2> QED
    BY <1>2, <2>1, <2>2, <2>3 DEF WatchStep
<1>3. ASSUME NEW h \in Handlers, PutStarts(h) \/ PutContinues(h) \/ PutRefused(h)
      PROVE  [Process!Next]_(Process!vars)
  BY <1>3, PutKeepsPromise
<1>4. CASE Cancel
  <2>0. /\ Pending' = Pending /\ main # "stopped" /\ ctxDone'
        /\ UNCHANGED <<cfg, version, main, ver, devCfg, mqttCfg, mqttShown, watch, lastVer, level>>
    BY <1>4 DEF Cancel, Running, Pending, storeVars, mainVars, statusVars, watchVars
  <2>1. Process!Signal
    BY <2>0 DEF Process!Signal
  <2> QED
    BY <1>a, <2>0, <2>1 DEF Process!Next, InSession, Reading
<1>5. CASE IntervalElapses \/ LinkChanges \/ UNCHANGED vars
  <2>0. /\ Pending' = Pending
        /\ UNCHANGED <<cfg, version, ctxDone, main, ver, devCfg, mqttCfg, mqttShown,
                       watch, lastVer, level>>
    BY <1>5 DEF IntervalElapses, LinkChanges, Pending, vars, storeVars, bridgeVars, mainVars,
                statusVars, watchVars
  <2> QED
    BY <2>0
<1> QED
  BY <1>1, <1>2, <1>3, <1>4, <1>5 DEF BridgeNext

\* Update's two steps, main's and the watcher's two reads and the handlers that
\* overlap them do, step by step, what Sessions promises (main, watchLogLevel,
\* Update).
THEOREM ProcessKeepsPromise == BridgeSafetySpec => ImplementsSessions
<1>1. BridgeInit => Process!Init
  BY ProcessInit
<1>2. TypeOK /\ TypeOK' /\ BridgeTypeOK /\ SyncInv /\ TeardownInv /\ [BridgeNext]_vars
        => [Process!Next]_(Process!vars)
  BY ProcessStep
<1> QED
  BY <1>1, <1>2, BridgeTypeCorrect, SyncCorrect, TeardownIsDue, PTL
     DEF BridgeSafetySpec, ImplementsSessions, Process!Spec
===============================================================================
