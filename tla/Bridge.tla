-------------------------------- MODULE Bridge --------------------------------
(***************************************************************************)
(* The running process: the bridge loop of cmd/vbus2mqtt/main.go, the      *)
(* log-level watcher and the runtime status, next to the PUT handlers of   *)
(* ConfigStore, over one process lifetime.                                 *)
(*                                                                         *)
(* The goroutines share the store only through Version() and Get(), two    *)
(* separate reads.  Update replaces cfg first and bumps the version later, *)
(* so a reader may see the new settings with the old version; it must not  *)
(* end up with the old settings and the new version.                       *)
(*                                                                         *)
(* A step of the main goroutine ends where it next reads what others write *)
(* (the context, the version, cfg) or waits for the serial port or paho.   *)
(* External are the serial port (its reads return data, nothing after one  *)
(* second, or an error) and paho's connection (client.go configures it to  *)
(* retry forever, if it has a broker to try).                              *)
(***************************************************************************)
EXTENDS ConfigStore

CONSTANTS
  Sources,          \* the VBus source addresses of known devices on the bus
  UnparsableBroker  \* may the settings name a broker whose URL AddBroker refuses?

VARIABLES
  ctxDone,   \* SIGTERM or SIGINT arrived
  main,      \* where the main goroutine is
  ver,       \* main's ver: the version its settings were read under
  devCfg,    \* main's cfg: the settings the serial port is opened with
  mqttCfg,   \* the settings the MQTT client was built from
  link,      \* paho's connection to the broker
  due,       \* time.Since(lastPublish) >= PublishInterval
  accum,     \* readLoop's accum: sources with decoded telemetry
  todo,      \* sources the publish round still has to publish
  mqttShown, \* Status.mqttConnected
  devices,   \* Status.devices
  watch,     \* where watchLogLevel is
  lastVer,   \* watchLogLevel's lastVer
  level      \* the slog.LevelVar

mainVars   == <<main, ver, devCfg, mqttCfg, due, accum, todo>>
statusVars == <<mqttShown, devices>>
watchVars  == <<watch, lastVer, level>>
bridgeVars == <<ctxDone, mainVars, link, statusVars, watchVars>>
vars       == <<storeVars, bridgeVars>>

\* Inside readLoop, from its loop head to the end of a publish round.
Reading == {"head", "serial", "check", "send"}

\* Between the construction of the MQTT client and its Disconnect.
InSession == Reading \cup {"connect", "inner", "after", "retry", "teardown"}

BridgeTypeOK ==
  /\ ctxDone \in BOOLEAN
  /\ main \in InSession \cup {"outer", "getcfg", "new", "stopped"}
  /\ ver \in Nat
  /\ devCfg \in Config /\ mqttCfg \in Config
  /\ link \in {"none", "connecting", "connected", "reconnecting", "given_up"}
  /\ due \in BOOLEAN
  /\ accum \subseteq Sources /\ todo \subseteq accum
  /\ mqttShown \in BOOLEAN /\ devices \subseteq Sources
  /\ watch \in {"idle", "apply", "done"}
  /\ lastVer \in Nat
  /\ level \in Levels

BridgeInit ==
  /\ Init
  /\ ctxDone = FALSE
  /\ main = "outer" /\ ver = 0 /\ devCfg = cfg /\ mqttCfg = cfg
  /\ link = "none"
  /\ due = FALSE /\ accum = {} /\ todo = {}
  /\ mqttShown = FALSE /\ devices = {}
  /\ watch = "idle" /\ lastVer = 0
  /\ level = cfg.level   \* buildLogger

Goto(from, to) == main = from /\ main' = to

-------------------------------------------------------------------------------
(***************************************************************************)
(* main: one MQTT session per version of the settings.                     *)
(***************************************************************************)

\* The outer loop's condition, then ver := store.Version().
OuterLoop ==
  /\ \/ ~ctxDone /\ Goto("outer", "getcfg") /\ ver' = version
     \/ ctxDone /\ Goto("outer", "stopped") /\ UNCHANGED ver
  /\ UNCHANGED <<devCfg, mqttCfg, due, accum, todo, link, statusVars>>

\* cfg = store.Get()
GetConfig ==
  /\ Goto("getcfg", "new")
  /\ devCfg' = cfg
  /\ UNCHANGED <<ver, mqttCfg, due, accum, todo, link, statusVars>>

\* Mutant of NewClient: the version is read after the settings.
NewClient_LateVersion ==
  /\ Goto("new", "connect")
  /\ mqttCfg' = cfg
  /\ ver' = version
  /\ link' = "connecting"
  /\ UNCHANGED <<devCfg, due, accum, todo, statusVars>>

\* mqttclient.New reads the settings for itself; Connect starts paho.
NewClient ==
  /\ Goto("new", "connect")
  /\ mqttCfg' = cfg
  /\ link' = "connecting"
  /\ UNCHANGED <<ver, devCfg, due, accum, todo, statusVars>>

\* paho's IsConnected: with AutoReconnect and ConnectRetry it is true while
\* paho is still trying, which it gives up without a broker to try.
IsConnected == link \in {"connecting", "connected", "reconnecting"}

\* Connect returns, at the latest after ten seconds, whatever became of it.
ConnectReturns ==
  /\ Goto("connect", "inner")
  /\ mqttShown' = IsConnected
  /\ UNCHANGED <<ver, devCfg, mqttCfg, due, accum, todo, link, devices>>

\* Mutant of InnerLoop: a port that cannot be opened ends the session.
InnerLoop_GivesUp ==
  /\ \/ (ctxDone \/ version # ver) /\ Goto("inner", "teardown")
     \/ ~ctxDone /\ version = ver /\ (Goto("inner", "head") \/ Goto("inner", "teardown"))
  /\ UNCHANGED <<ver, devCfg, mqttCfg, due, accum, todo, link, statusVars>>

\* The sub-loop's condition, then device.Open, which succeeds or fails.
InnerLoop ==
  /\ \/ (ctxDone \/ version # ver) /\ Goto("inner", "teardown")
     \/ ~ctxDone /\ version = ver /\ (Goto("inner", "head") \/ Goto("inner", "retry"))
  /\ UNCHANGED <<ver, devCfg, mqttCfg, due, accum, todo, link, statusVars>>

\* readLoop returned: wait before the port is opened again, unless the
\* context or the version says otherwise.
AfterReadLoop ==
  /\ IF ctxDone \/ version # ver THEN Goto("after", "inner") ELSE Goto("after", "retry")
  /\ UNCHANGED <<ver, devCfg, mqttCfg, due, accum, todo, link, statusVars>>

\* waitOrDone returns.
Retry ==
  /\ Goto("retry", "inner")
  /\ UNCHANGED <<ver, devCfg, mqttCfg, due, accum, todo, link, statusVars>>

\* Mutant of Teardown: the status is left as it was.
Teardown_StatusKept ==
  /\ Goto("teardown", "outer")
  /\ link' = "none"
  /\ UNCHANGED <<ver, devCfg, mqttCfg, due, accum, todo, statusVars>>

\* SetMQTTConnected(false), Disconnect.
Teardown ==
  /\ Goto("teardown", "outer")
  /\ mqttShown' = FALSE
  /\ link' = "none"
  /\ UNCHANGED <<ver, devCfg, mqttCfg, due, accum, todo, devices>>

-------------------------------------------------------------------------------
(***************************************************************************)
(* readLoop.  Its accumulator and lastPublish are locals: every call starts*)
(* without telemetry and with a full interval to wait.                     *)
(***************************************************************************)

Return(from, to) == Goto(from, to) /\ accum' = {} /\ due' = FALSE
Continue(from, to) == Goto(from, to) /\ UNCHANGED <<accum, due>>

\* Mutant of LoopHead: only the context ends the loop.
LoopHead_VersionIgnored ==
  /\ \/ ctxDone /\ Return("head", "after")
     \/ ~ctxDone /\ Continue("head", "serial")
  /\ UNCHANGED <<ver, devCfg, mqttCfg, todo, link, statusVars>>

\* Mutant of LoopHead: only the version ends the loop.
LoopHead_ContextIgnored ==
  /\ \/ version # ver /\ Return("head", "teardown")
     \/ version = ver /\ Continue("head", "serial")
  /\ UNCHANGED <<ver, devCfg, mqttCfg, todo, link, statusVars>>

\* The loop condition, then the version check: a done context returns nil to
\* the sub-loop, errConfigChanged leaves it.
LoopHead ==
  /\ \/ ctxDone /\ Return("head", "after")
     \/ ~ctxDone /\ version # ver /\ Return("head", "teardown")
     \/ ~ctxDone /\ version = ver /\ Continue("head", "serial")
  /\ UNCHANGED <<ver, devCfg, mqttCfg, todo, link, statusVars>>

\* dev.Read: an error ends the loop; otherwise the telegrams completed by the
\* data, none on a timeout, replace the telemetry of their sources.
SerialRead ==
  /\ \/ Return("serial", "after")
     \/ /\ Goto("serial", "check")
        /\ \E S \in SUBSET Sources : accum' = accum \cup S
        /\ UNCHANGED due
  /\ UNCHANGED <<ver, devCfg, mqttCfg, todo, link, statusVars>>

\* Mutant of CheckDue: a round waits for every device on the bus.
CheckDue_AllDevices ==
  /\ IF due /\ accum = Sources
     THEN Goto("check", "send") /\ todo' = accum
     ELSE Goto("check", "head") /\ UNCHANGED todo
  /\ UNCHANGED <<ver, devCfg, mqttCfg, due, accum, link, statusVars>>

\* The interval has passed and there is telemetry: a publish round begins.
CheckDue ==
  /\ IF due /\ accum # {}
     THEN Goto("check", "send") /\ todo' = accum
     ELSE Goto("check", "head") /\ UNCHANGED todo
  /\ UNCHANGED <<ver, devCfg, mqttCfg, due, accum, link, statusVars>>

\* mqtt.Publish for one source, in map order; delivered or not, the loop goes on.
PublishOne ==
  /\ main = "send"
  /\ \E src \in todo : todo' = todo \ {src}
  /\ UNCHANGED <<main, ver, devCfg, mqttCfg, due, accum, link, statusVars>>

\* Mutant of FinishRound: the round may end before every source was published.
FinishRound_Early ==
  /\ Goto("send", "head")
  /\ devices' = accum
  /\ mqttShown' = IsConnected
  /\ due' = FALSE
  /\ UNCHANGED <<ver, devCfg, mqttCfg, accum, todo, link>>

\* The end of the round: last publish, devices and connection are shown.
FinishRound ==
  /\ todo = {}
  /\ Goto("send", "head")
  /\ devices' = accum
  /\ mqttShown' = IsConnected
  /\ due' = FALSE
  /\ UNCHANGED <<ver, devCfg, mqttCfg, accum, todo, link>>

\* main returns when the outer loop ends, and with it the process and every
\* other goroutine, a PUT handler in the middle of saveFile included.
Running == main # "stopped"

MainStep ==
  /\ \/ OuterLoop \/ GetConfig \/ NewClient \/ ConnectReturns
     \/ InnerLoop \/ AfterReadLoop \/ Retry \/ Teardown
     \/ LoopHead \/ SerialRead \/ CheckDue \/ PublishOne \/ FinishRound
  /\ UNCHANGED <<storeVars, ctxDone, watchVars>>
-------------------------------------------------------------------------------
(***************************************************************************)
(* watchLogLevel.                                                          *)
(***************************************************************************)

\* A tick: the version is compared and remembered before the level is read.
WatchTick ==
  /\ watch = "idle" /\ version # lastVer
  /\ lastVer' = version
  /\ watch' = "apply"
  /\ UNCHANGED level

\* setLogLevel with the level then in the store.
WatchApply ==
  /\ watch = "apply"
  /\ level' = cfg.level
  /\ watch' = "idle"
  /\ UNCHANGED lastVer

WatchStop ==
  /\ watch = "idle" /\ ctxDone
  /\ watch' = "done"
  /\ UNCHANGED <<lastVer, level>>

WatchStep ==
  /\ Running
  /\ WatchTick \/ WatchApply \/ WatchStop
  /\ UNCHANGED <<storeVars, ctxDone, mainVars, link, statusVars>>
-------------------------------------------------------------------------------
(***************************************************************************)
(* The PUT handlers of ConfigStore, and the environment.                   *)
(***************************************************************************)

\* A new PublishInterval may make a publish due, or no longer due, at once:
\* readLoop reads it live.
PutStarts(h) ==
  /\ Running
  /\ UpdateApply(h)
  /\ due' \in IF main \in Reading THEN BOOLEAN ELSE {due}
  /\ UNCHANGED <<ctxDone, main, ver, devCfg, mqttCfg, accum, todo,
                 link, statusVars, watchVars>>

PutContinues(h) ==
  /\ Running
  /\ UpdateBump(h) \/ Save(h)
  /\ UNCHANGED bridgeVars

PutRefused(h) == Running /\ PutRejected(h) /\ UNCHANGED bridgeVars

\* PublishInterval has passed since lastPublish.
IntervalElapses ==
  /\ main \in Reading /\ ~due
  /\ due' = TRUE
  /\ UNCHANGED <<storeVars, ctxDone, main, ver, devCfg, mqttCfg, accum, todo,
                 link, statusVars, watchVars>>

\* paho's own goroutines: (re)connected, connection lost, or no broker to connect to.
LinkChanges ==
  /\ Running
  /\ \/ link \in {"connecting", "reconnecting"} /\ link' = "connected"
     \/ link = "connected" /\ link' = "reconnecting"
     \/ UnparsableBroker /\ link = "connecting" /\ link' = "given_up"
  /\ UNCHANGED <<storeVars, ctxDone, mainVars, statusVars, watchVars>>

\* SIGTERM or SIGINT.
Cancel ==
  /\ Running /\ ~ctxDone
  /\ ctxDone' = TRUE
  /\ UNCHANGED <<storeVars, mainVars, link, statusVars, watchVars>>

BridgeNext ==
  \/ MainStep \/ WatchStep
  \/ \E h \in Handlers : PutStarts(h) \/ PutContinues(h) \/ PutRefused(h)
  \/ IntervalElapses \/ LinkChanges \/ Cancel

\* Every wait of main is bounded: a second in Read, five in a publish and after
\* a failed open, three between reads, ten in Connect.  The ticker drives the
\* watcher, net/http the handlers, and time passes.  Nothing is assumed of the
\* broker, the bus, the users or signals.
Fairness ==
  /\ WF_vars(MainStep)
  /\ WF_vars(WatchStep)
  /\ WF_vars(IntervalElapses)
  /\ \A h \in Handlers : WF_vars(PutContinues(h))

BridgeSafetySpec == BridgeInit /\ [][BridgeNext]_vars

BridgeSpec == BridgeSafetySpec /\ Fairness

-------------------------------------------------------------------------------
(***************************************************************************)
(* Properties.                                                             *)
(***************************************************************************)

\* An Update has replaced cfg and not yet bumped the version.
Pending == \E h \in Handlers : pc[h] = "bump"

\* Main never runs a session on old settings that it takes for current: while
\* its version is the store's and no Update is between its lock and its
\* version.Add, both copies of the settings, main's and the client's, are cfg.
ReloadSound ==
  main \in InSession /\ ver = version /\ ~Pending => devCfg = cfg /\ mqttCfg = cfg

\* The same for watchLogLevel: a level change is never skipped for good.
LevelSound ==
  watch = "idle" /\ lastVer = version /\ ~Pending => level = cfg.level

\* The page never shows a connection when there is no client: SetMQTTConnected
\* and Disconnect at the end of the session, IsConnected at every other update.
ShownOnlyWithClient == mqttShown => link # "none"

\* A client is disconnected only when its session is over: at the end of the
\* sub-loop the context is done or the version has moved on, whatever became of
\* the serial port and of the broker in between.
TeardownInv == main = "teardown" => ctxDone \/ version # ver

\* What makes the two inductive: a version that was read is never ahead, and
\* settings read after it are at least as new.
SyncInv ==
  /\ ver <= version /\ lastVer <= version
  /\ main \in InSession \cup {"new"} /\ ver = version /\ ~Pending => devCfg = cfg
  /\ main \in InSession /\ ver = version /\ ~Pending => mqttCfg = cfg
  /\ LevelSound

\* Outside a publish round nothing is left of one.
RoundInv == main # "send" => todo = {}

\* How far main is from the end of its session: the waits and checks it has at
\* most ahead of it once nothing keeps it there.
Ahead == [stopped |-> 0, outer |-> 1, teardown |-> 2, inner |-> 3, after |-> 4, retry |-> 4,
          connect |-> 4, new |-> 5, head |-> 5, getcfg |-> 6, send |-> 6, check |-> 7,
          serial |-> 8]

\* main is to leave its session: there was a signal or an Update.
Leaving == ctxDone \/ (main # "outer" /\ version # ver)

\* Then each of its steps brings it closer to that end, or shortens the round it is
\* in.  It opens no port and begins no read and no wait for a retry; what it has decided
\* on before it still does, once each: it makes the client it is about to make, and
\* goes through the publish round that is due after its last read.
Unwinds ==
  [][Leaving /\ MainStep =>
       \/ Ahead[main'] < Ahead[main]
       \/ main' = main /\ todo' \subseteq todo /\ todo' # todo]_vars

\* The loop, the watcher and the handlers together keep the promise of Sessions:
\* a session is closed from Disconnect to the next New, and stale once its
\* version is not the store's.
Process == INSTANCE Sessions
             WITH current    <- cfg,
                  changing   <- Pending,
                  stale      <- ver # version,
                  phase      <- CASE main = "stopped" -> "ended"
                                  [] main = "outer" -> "closed"
                                  [] main \in {"getcfg", "new"} -> "opening"
                                  [] OTHER -> "open",
                  session    <- IF main \in InSession
                                THEN [dev |-> devCfg, mqtt |-> mqttCfg] ELSE <<>>,
                  shown      <- mqttShown,
                  stopping   <- ctxDone,
                  levelStale <- lastVer # version \/ watch = "apply"
ImplementsSessions == Process!Spec

\* After the last PUT the process ends up on its settings, in the serial port,
\* the MQTT client and the log level (unless it is being stopped).
InSync == ver = version /\ devCfg = cfg /\ mqttCfg = cfg /\ level = cfg.level
Converges == <>[](ctxDone \/ InSync)

\* A signal ends the process from wherever its goroutines are.
ShutdownStops == ctxDone ~> main = "stopped"

\* Telemetry a source has sent is handed to Publish, unless readLoop ends first.
TelemetryFlows ==
  \A src \in Sources :
    main \in Reading /\ src \in accum
      ~> (main = "send" /\ src \in todo) \/ main \notin Reading

\* README.md: a log level change needs no reconnect.  So when readLoop ends a session
\* over settings that differ from its own, they differ in more than the level.
LevelChangeKeepsConnection ==
  [][main = "head" /\ main' = "teardown" /\ cfg # devCfg =>
       \E f \in Fields \ {"level"} : cfg[f] # devCfg[f]]_vars

\* A broker that is out of reach for good shows as not connected, again and again.
OutageShown == <>[](link # "connected") => []<>(~mqttShown)
===============================================================================
