------------------------------ MODULE MqttClient ------------------------------
(***************************************************************************)
(* internal/mqtt/client.go with MQTT_HA_DISCOVERY set: the publish rounds  *)
(* of the main goroutine announce every field to Home Assistant once per   *)
(* connection.  Which fields were announced is kept in the cache           *)
(* discovered, which paho's OnConnect handler clears: it runs in a         *)
(* goroutine of its own, some time after the connection is up again.       *)
(*                                                                         *)
(* One client, from Connect to Disconnect.  Every waiting publish of paho  *)
(* ends after at most five seconds, delivered or not.                      *)
(***************************************************************************)
EXTENDS Naturals

CONSTANTS
  Sources,         \* the VBus sources in the accumulator
  Fields,          \* the telemetry fields of each
  MaxConnections,  \* bound: times the connection comes up
  MaxFailures      \* bound: publishes that fail although the connection is up

ASSUME ClientAssumption == MaxConnections \in Nat /\ MaxFailures \in Nat

VARIABLES
  discovered,   \* Client.discovered
  pc,           \* where Publish and publishDiscovery are
  todo,         \* sources the publish round still has to publish
  src, field,   \* the source and the field being published
  rest,         \* fields publishDiscovery still has to look at
  link,         \* paho's connection
  clearing,     \* OnConnect handlers that were started and have not run
  announced,    \* history: discovery configs the broker got in this connection
  failed,       \* history: fields whose publish failed in this connection
  wiped,        \* history: an OnConnect handler ran during the current Publish
  connections, failures   \* for the bounds

linkVars  == <<link, connections>>
roundVars == <<todo, src, rest>>
vars == <<discovered, pc, roundVars, field, linkVars, clearing, announced, failed, wiped, failures>>

Pairs == Sources \X Fields

ClientTypeOK ==
  /\ discovered \subseteq Pairs /\ announced \subseteq Pairs /\ failed \subseteq Pairs
  /\ pc \in {"idle", "discover", "send"}
  /\ todo \subseteq Sources /\ rest \subseteq Fields
  /\ pc # "idle" => src \in Sources
  /\ pc = "send" => field \in Fields \ rest
  /\ link \in {"connecting", "connected", "reconnecting"}
  /\ wiped \in BOOLEAN
  /\ clearing \in 0..connections /\ connections \in 0..MaxConnections
  /\ failures \in 0..MaxFailures

Init ==
  /\ discovered = {} /\ announced = {} /\ failed = {} /\ wiped = FALSE
  /\ pc = "idle" /\ todo = {} /\ rest = {}
  /\ src \in Sources /\ field \in Fields
  /\ link = "connecting" /\ connections = 0 /\ clearing = 0
  /\ failures = 0

-------------------------------------------------------------------------------
(***************************************************************************)
(* The main goroutine: round after round, source after source.             *)
(***************************************************************************)

\* Publish: IsConnected does not hold it up, paho answers true from Connect on.
BeginPublish ==
  /\ pc = "idle" /\ pc' = "discover"
  /\ \E s \in IF todo = {} THEN Sources ELSE todo :
       /\ src' = s
       /\ todo' = (IF todo = {} THEN Sources ELSE todo) \ {s}
  /\ rest' = Fields
  /\ wiped' = FALSE
  /\ UNCHANGED <<discovered, field, linkVars, clearing, announced, failed, failures>>

\* Mutant of MarkField: the cache key lacks the field, one per source is announced.
MarkField_KeyLacksField ==
  /\ pc = "discover"
  /\ \E f \in rest :
       /\ rest' = rest \ {f}
       /\ IF \E g \in Fields : <<src, g>> \in discovered
          THEN UNCHANGED <<discovered, field, pc>>
          ELSE /\ discovered' = discovered \cup {<<src, f>>}
               /\ field' = f
               /\ pc' = "send"
  /\ UNCHANGED <<todo, src, linkVars, clearing, announced, failed, wiped, failures>>

\* Mutant of MarkField: after a field was marked the loop starts over.
MarkField_StartsOver ==
  /\ pc = "discover"
  /\ \E f \in rest :
       IF <<src, f>> \in discovered
       THEN rest' = rest \ {f} /\ UNCHANGED <<discovered, field, pc>>
       ELSE /\ discovered' = discovered \cup {<<src, f>>}
            /\ field' = f
            /\ pc' = "send"
            /\ UNCHANGED rest
  /\ UNCHANGED <<todo, src, linkVars, clearing, announced, failed, wiped, failures>>

\* publishDiscovery looks a field up and marks it, under the mutex.
MarkField ==
  /\ pc = "discover"
  /\ \E f \in rest :
       /\ rest' = rest \ {f}
       /\ IF <<src, f>> \in discovered
          THEN UNCHANGED <<discovered, field, pc>>
          ELSE /\ discovered' = discovered \cup {<<src, f>>}
               /\ field' = f
               /\ pc' = "send"
  /\ UNCHANGED <<todo, src, linkVars, clearing, announced, failed, wiped, failures>>

\* The config message of the marked field: delivered, lost because there is no
\* connection, or failed over an open one.  The next field follows in any case.
SendDiscovery ==
  /\ pc = "send" /\ pc' = "discover"
  /\ \/ /\ link = "connected"
        /\ announced' = announced \cup {<<src, field>>}
        /\ UNCHANGED <<failed, failures>>
     \/ link # "connected" /\ UNCHANGED <<announced, failed, failures>>
     \/ /\ link = "connected" /\ failures < MaxFailures
        /\ failed' = failed \cup {<<src, field>>} /\ failures' = failures + 1
        /\ UNCHANGED announced
  /\ UNCHANGED <<discovered, roundVars, field, linkVars, clearing, wiped>>

\* The telemetry of the source, after its discovery.
SendTelemetry ==
  /\ pc = "discover" /\ rest = {}
  /\ pc' = "idle"
  /\ UNCHANGED <<discovered, roundVars, field, linkVars, clearing, announced, failed, wiped, failures>>

PublishStep == BeginPublish \/ MarkField \/ SendDiscovery \/ SendTelemetry

-------------------------------------------------------------------------------
(***************************************************************************)
(* paho.                                                                   *)
(***************************************************************************)

\* The connection is up, first or again; the handler is started, not awaited.
LinkUp ==
  /\ link # "connected" /\ connections < MaxConnections
  /\ link' = "connected" /\ connections' = connections + 1
  /\ clearing' = clearing + 1
  /\ announced' = {} /\ failed' = {}
  /\ UNCHANGED <<discovered, pc, roundVars, field, wiped, failures>>

LinkLost ==
  /\ link = "connected" /\ link' = "reconnecting"
  /\ UNCHANGED <<discovered, pc, roundVars, field, connections, clearing, announced, failed, wiped,
                 failures>>

\* Mutant of OnConnect: the cache is not cleared.
OnConnect_CacheKept ==
  /\ clearing > 0 /\ clearing' = clearing - 1
  /\ wiped' = TRUE
  /\ UNCHANGED <<discovered, pc, roundVars, field, linkVars, announced, failed, failures>>

\* The OnConnect handler clears the cache, under the mutex.
OnConnect ==
  /\ clearing > 0 /\ clearing' = clearing - 1
  /\ discovered' = {} /\ wiped' = TRUE
  /\ UNCHANGED <<pc, roundVars, field, linkVars, announced, failed, failures>>

Next == PublishStep \/ LinkUp \/ LinkLost \/ OnConnect

\* Publish rounds go on (each wait in them is bounded, and telemetry keeps
\* coming: the accumulator is not emptied), and the handler's goroutine runs.
Spec == Init /\ [][Next]_vars /\ WF_vars(PublishStep) /\ WF_vars(OnConnect)

-------------------------------------------------------------------------------
(***************************************************************************)
(* Properties.                                                             *)
(***************************************************************************)

\* Once the OnConnect handlers have run, a field that is marked, and not just
\* being sent, was announced in this connection unless its publish failed in it: a
\* mark set before or during the reconnect does not survive it.
InFlight == IF pc = "send" THEN {<<src, field>>} ELSE {}
CacheSound ==
  link = "connected" /\ clearing = 0 => discovered \ InFlight \subseteq announced \cup failed

\* Telemetry does not run ahead of the discovery configs it needs: when it is sent
\* over a connection whose OnConnect handlers have run, before this Publish began,
\* every field of the source was announced in this connection, or failed in it.
DiscoveryFirst ==
  pc = "discover" /\ rest = {} /\ link = "connected" /\ clearing = 0 /\ ~wiped
    => {src} \X Fields \subseteq announced \cup failed

\* What makes it inductive: unless a handler wiped them meanwhile, the fields the
\* loop has looked at are marked.
LookedAtMarked == pc # "idle" /\ ~wiped => {src} \X (Fields \ rest) \subseteq discovered

\* README.md: a discovery config for each field, and again after every
\* reconnect.  In a connection that lasts every field gets there, unless its
\* publish fails, whenever the OnConnect handler ran between the marks of publishDiscovery.
Reannounced ==
  <>[](link = "connected") => <>[](announced \cup failed = Pairs)
===============================================================================
