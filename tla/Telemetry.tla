------------------------------- MODULE Telemetry -------------------------------
(***************************************************************************)
(* The way of a measured value: the device registry is put together by two *)
(* init functions before main starts; readLoop decodes the telegrams of    *)
(* each source and keeps the latest; a publish round sends what is kept to *)
(* the source's MQTT topic, where the broker retains the last message.     *)
(*                                                                         *)
(* Before a message goes out, Home Assistant is told of each of its fields *)
(* once per connection: the broker retains a config for it, with its topic *)
(* and unit.  The topic begins with a prefix of the settings, which a PUT  *)
(* may change at any time.  (MqttClient has the steps of publishDiscovery; *)
(* here are its contents.)                                                 *)
(*                                                                         *)
(* The controllers on the bus are external: which they are and what        *)
(* telegrams they send are constants.                                      *)
(***************************************************************************)
EXTENDS Generator, FiniteSetsExt

CONSTANTS
  Custom,        \* customRegistry
  Packets,       \* the packets of the VBus specification file
  Buses,         \* the sets of sources that may share a bus
  Telegrams,     \* by source, the telegrams it may send
  TopicPrefixes, \* by bus, the topic prefixes the settings may have
  Losses         \* the sets of names whose discovery configs may fail in one round

GeneratedRegistry == Generate(Packets)

Sources == UNION Buses

\* A telegram carries the address of its sender.
ASSUME TelegramsAssumption ==
  /\ Sources \subseteq DOMAIN Telegrams
  /\ \A s \in Sources : Telegrams[s] \subseteq [src : {s}, dst : STRING, cmd : STRING, payload : Payload]

\* Like the generated table, the custom one has entries for broadcasts only.
ASSUME CustomAssumption ==
  \A k \in DOMAIN Custom : /\ Custom[k] \in Seq(FieldDef)
                          /\ k = pkey(k[1], "0010", "0100")

\* The packets that get an entry differ in their addresses: the Go compiler
\* refuses a map literal with a key twice.
ASSUME PacketsAssumption ==
  /\ Packets \subseteq VsPacket
  /\ \A pk, qk \in Packets : Generated(pk) /\ Generated(qk) /\ KeyOf(pk) = KeyOf(qk) => pk = qk
  /\ \A pk \in Packets : \A i \in DOMAIN pk.fields :
       /\ GoName(pk.fields[i].text) \in Names
       /\ Mapped(pk.fields[i]) => WellFormed(pk.fields[i])

\* Of fields that share a name in the tables, all have a unit or none has.
UnitsAgree(def) ==
  \A i, j \in DOMAIN def : def[i].name = def[j].name => (def[i].unit = "" <=> def[j].unit = "")

ASSUME UnitsAssumption ==
  /\ \A k \in DOMAIN Custom : UnitsAgree(Custom[k])
  /\ \A k \in DOMAIN GeneratedRegistry : UnitsAgree(GeneratedRegistry[k])

VARIABLES
  inits,     \* init functions that have not run
  registry,  \* DefaultRegistry
  bus,       \* the sources on the bus
  prefix,    \* MQTTTopicPrefix of the settings
  moved,     \* history: prefix has changed since the client was made
  accum,     \* readLoop's accumulator: a map from sources to decoded telemetry
  latest,    \* history: by source, the telegram accum was decoded from
  topic,     \* by topic, the message the broker retains
  origin,    \* history: by topic, the telegram the message was made from
  discovered,\* Client.discovered
  configs,   \* by key of discovered, the discovery config the broker retains
  failed     \* history: keys whose last config did not reach the broker

settings == <<prefix, moved>>
haVars == <<discovered, configs, failed>>
vars == <<inits, registry, bus, settings, accum, latest, topic, origin, haVars>>

EmptyMap == [x \in {} |-> {}]

\* m[x] = v, for Go's maps.
Put(m, x, v) == [y \in DOMAIN m \cup {x} |-> IF y = x THEN v ELSE m[y]]

Init ==
  /\ inits = {"custom", "generated"}
  /\ registry = EmptyMap
  /\ bus \in Buses
  /\ prefix \in TopicPrefixes[bus] /\ moved = FALSE
  /\ accum = EmptyMap /\ latest = EmptyMap
  /\ topic = EmptyMap /\ origin = EmptyMap
  /\ discovered = {} /\ configs = EmptyMap /\ failed = {}

-------------------------------------------------------------------------------
(***************************************************************************)
(* The init functions: the language runs both before main, and does not    *)
(* promise an order.                                                       *)
(***************************************************************************)

\* The entries of table for some of its keys are set.
SetEntries(table, ks) ==
  registry' = [k \in DOMAIN registry \cup ks |-> IF k \in ks THEN table[k] ELSE registry[k]]

\* registry_custom.go: every entry is set.
InitCustom ==
  /\ "custom" \in inits /\ inits' = inits \ {"custom"}
  /\ SetEntries(Custom, DOMAIN Custom)
  /\ UNCHANGED <<bus, settings, accum, latest, topic, origin, haVars>>

\* Mutant of InitGenerated: entries are set whether or not the key is there.
InitGenerated_Overwrites ==
  /\ "generated" \in inits /\ inits' = inits \ {"generated"}
  /\ SetEntries(GeneratedRegistry, DOMAIN GeneratedRegistry)
  /\ UNCHANGED <<bus, settings, accum, latest, topic, origin, haVars>>

\* registry_gen.go: only keys that are not there yet.
InitGenerated ==
  /\ "generated" \in inits /\ inits' = inits \ {"generated"}
  /\ SetEntries(GeneratedRegistry, DOMAIN GeneratedRegistry \ DOMAIN registry)
  /\ UNCHANGED <<bus, settings, accum, latest, topic, origin, haVars>>

-------------------------------------------------------------------------------
(***************************************************************************)
(* readLoop and Publish.                                                   *)
(***************************************************************************)

Running == inits = {}

\* Mutant of Receive: fields of earlier telegrams stay until they are replaced.
Receive_Merges(frame) ==
  /\ Running /\ frame.src \in bus
  /\ IF Known(registry, frame)
     THEN LET new == Decode(frame.payload, Lookup(registry, frame))
              old == IF frame.src \in DOMAIN accum THEN accum[frame.src] ELSE EmptyMap
          IN /\ accum' = Put(accum, frame.src,
                             [i \in DOMAIN new \cup DOMAIN old |->
                                IF i \in DOMAIN new THEN new[i] ELSE old[i]])
             /\ latest' = Put(latest, frame.src, frame)
     ELSE UNCHANGED <<accum, latest>>
  /\ UNCHANGED <<inits, registry, bus, settings, topic, origin, haVars>>

\* A telegram the parser delivered: the telemetry of a known one replaces what
\* the source had, an unknown one is logged and dropped.
Receive(frame) ==
  /\ Running /\ frame.src \in bus
  /\ IF Known(registry, frame)
     THEN /\ accum' = Put(accum, frame.src, Decode(frame.payload, Lookup(registry, frame)))
          /\ latest' = Put(latest, frame.src, frame)
     ELSE UNCHANGED <<accum, latest>>
  /\ UNCHANGED <<inits, registry, bus, settings, topic, origin, haVars>>

\* The positions of the fields with a name, and of those that have a unit.
At(fields, n) == {i \in DOMAIN fields : fields[i].name = n}
UnitAt(fields, n) == {i \in At(fields, n) : fields[i].unit # ""}

\* The payload Publish sends.  Its maps are filled in order, so that of fields
\* that share a name the last one wins; one without a unit does not touch Units.
Message(fields) ==
  LET names == {fields[i].name : i \in DOMAIN fields}
  IN [fields |-> [n \in names |-> fields[Max(At(fields, n))].value],
      units  |-> [n \in {m \in names : UnitAt(fields, m) # {}} |-> fields[Max(UnitAt(fields, n))].unit]]

\* haClassFromUnit: what Home Assistant is told the quantity is.
ClassOf(unit) ==
  CASE unit \in {"degC", "K"} -> "temperature"
    [] unit \in {"W", "kW"} -> "power"
    [] unit \in {"Wh", "kWh"} -> "energy"
    [] unit = "V" -> "voltage"
    [] unit = "bar" -> "pressure"
    [] unit = "l/h" -> "volume_flow_rate"
    [] OTHER -> ""

\* Mutant of SensorKey: fields of different sources fall together.
SensorKey_NameOnly(src, n) == n

\* The cache key, the unique id and the config topic of a field.  (fieldSlug, which
\* the latter two pass the name through, changes no name of the tables.)
SensorKey(src, n) == <<src, n>>

\* The topic of a source: <prefix>/<source>, the prefix read from the settings now.
Topic(src) == <<prefix, src>>

\* The config that announces a name: of fields that share it, the first one's.
Config(src, fields, n) ==
  LET unit == fields[Min(At(fields, n))].unit
  IN [topic |-> Topic(src), name |-> n, unit |-> unit, class |-> ClassOf(unit)]

\* publishDiscovery: names not announced in this connection are marked and their
\* configs sent; each may time out or fail and stays marked.
PublishDiscovery(src, fields) ==
  LET names == {fields[i].name : i \in DOMAIN fields}
      new == {n \in names : SensorKey(src, n) \notin discovered}
      keys(ns) == {SensorKey(src, n) : n \in ns}
  IN /\ discovered' = discovered \cup keys(new)
     /\ \E lost \in Losses :
          LET sent == keys(new \ lost)
          IN /\ configs' = [k \in DOMAIN configs \cup sent |->
                              IF k \in sent
                              THEN Config(src, fields, CHOOSE n \in new \ lost : SensorKey(src, n) = k)
                              ELSE configs[k]]
             /\ failed' = (failed \ sent) \cup keys(new \cap lost)

\* The message reaches the broker, which keeps it, or times out or fails.
PublishTelemetry(src) ==
  \/ /\ topic' = Put(topic, Topic(src), Message(accum[src]))
     /\ origin' = Put(origin, Topic(src), latest[src])
  \/ UNCHANGED <<topic, origin>>

\* A publish round reaches the source: discovery, when it is on, then the message.
\* Either may fail without the other; the round goes on.  (Without a connection
\* nothing is sent, and nothing here changes.)
Publish(src) ==
  /\ Running /\ src \in DOMAIN accum
  /\ PublishDiscovery(src, accum[src]) \/ UNCHANGED haVars
  /\ PublishTelemetry(src)
  /\ UNCHANGED <<inits, registry, bus, settings, accum, latest>>

\* A PUT changes the prefix: the next Publish uses it, while what is announced stays.
ChangePrefix ==
  /\ Running
  /\ prefix' \in TopicPrefixes[bus] \ {prefix} /\ moved' = TRUE
  /\ UNCHANGED <<inits, registry, bus, accum, latest, topic, origin, haVars>>

\* The OnConnect handler after a reconnect: everything is announced again.
Reconnect ==
  /\ Running
  /\ discovered' = {} /\ failed' = {}
  /\ UNCHANGED <<inits, registry, bus, settings, accum, latest, topic, origin, configs>>

\* readLoop returns and is called again: it starts with an empty accumulator.
RestartLoop ==
  /\ Running
  /\ accum' = EmptyMap /\ latest' = EmptyMap
  /\ UNCHANGED <<inits, registry, bus, settings, topic, origin, haVars>>

\* Mutant of NewSession: the marks outlive the client they were made for.
NewSession_KeepsMarks ==
  /\ Running
  /\ accum' = EmptyMap /\ latest' = EmptyMap
  /\ moved' = FALSE
  /\ UNCHANGED <<inits, registry, bus, prefix, topic, origin, haVars>>

\* The settings have a new version: readLoop returns, and main makes a new client.
NewSession ==
  /\ Running
  /\ accum' = EmptyMap /\ latest' = EmptyMap
  /\ discovered' = {} /\ failed' = {} /\ moved' = FALSE
  /\ UNCHANGED <<inits, registry, bus, prefix, topic, origin, configs>>

Next ==
  \/ InitCustom \/ InitGenerated
  \/ \E s \in Sources : (\E frame \in Telegrams[s] : Receive(frame)) \/ Publish(s)
  \/ ChangePrefix \/ NewSession \/ RestartLoop \/ Reconnect

Spec == Init /\ [][Next]_vars

-------------------------------------------------------------------------------
(***************************************************************************)
(* Properties.                                                             *)
(***************************************************************************)

TelemetryTypeOK ==
  /\ inits \subseteq {"custom", "generated"}
  /\ DOMAIN registry \subseteq DOMAIN Custom \cup DOMAIN GeneratedRegistry
  /\ \A k \in DOMAIN registry : \A i \in DOMAIN registry[k] : registry[k][i] \in FieldDef
  /\ bus \in Buses /\ prefix \in TopicPrefixes[bus] /\ moved \in BOOLEAN
  /\ DOMAIN accum = DOMAIN latest /\ \A s \in DOMAIN latest : s \in bus /\ latest[s] \in Telegrams[s]
  /\ DOMAIN topic = DOMAIN origin /\ DOMAIN origin \subseteq TopicPrefixes[bus] \X bus
  /\ \A t \in DOMAIN origin : origin[t] \in Telegrams[t[2]]
  /\ \A k \in DOMAIN configs : configs[k].topic \in TopicPrefixes[bus] \X bus /\ configs[k].name \in Names

\* registry.go: custom entries always take precedence over generated ones,
\* whichever init function ran first, and no entry of either is lost.
CustomPrecedence ==
  Running =>
    /\ DOMAIN registry = DOMAIN Custom \cup DOMAIN GeneratedRegistry
    /\ \A k \in DOMAIN registry :
         registry[k] = IF k \in DOMAIN Custom THEN Custom[k] ELSE GeneratedRegistry[k]

\* A field of the definition, read from the telegram, gives this value and unit.
Explains(fd, payload, n, value, units) ==
  /\ fd.name = n /\ InRange(payload, fd) /\ value = ExtractValue(payload, fd)
  /\ IF n \in DOMAIN units THEN units[n] = fd.unit ELSE fd.unit = ""

\* A message never mixes telegrams, sources or fields: each value on a topic, with
\* its unit, is one field of one telegram of that source, the latest when it was
\* published, also where several fields share a name.
MessageTruthful ==
  \A t \in DOMAIN topic :
    /\ origin[t].src = t[2]
    /\ \A n \in DOMAIN topic[t].fields :
         LET def == Lookup(registry, origin[t])
         IN \E i \in DOMAIN def :
              Explains(def[i], origin[t].payload, n, topic[t].fields[n], topic[t].units)

\* The entry of a source: tables have entries for broadcasts only, so one at most.
BroadcastKey(src) == pkey(src, "0010", "0100")
EntryOf(src) == registry[BroadcastKey(src)]

\* The fields of the registry that go by a name have one unit.
OneUnit(def, n) == \A i, j \in DOMAIN def : def[i].name = n /\ def[j].name = n => def[i].unit = def[j].unit

\* The config Home Assistant holds for a field of a source names a topic of that
\* source and the unit of a field of that name in its entry, whatever telegrams,
\* lost configs and reconnects lie between.  When all fields of the name have one
\* unit, it is the unit of the value on the topic the config names.  (When they have
\* several, the config has the one of the first field of the name in an earlier
\* telegram, the value is that of the last one in the latest, and the two may differ.)
AnnouncedUnit ==
  \A s \in {b \in bus : BroadcastKey(b) \in DOMAIN registry} : \A i \in DOMAIN EntryOf(s) :
    LET n == EntryOf(s)[i].name
        config == configs[SensorKey(s, n)]
        message == topic[config.topic]
    IN SensorKey(s, n) \in DOMAIN configs =>
         /\ config.topic \in TopicPrefixes[bus] \X {s} /\ config.name = n
         /\ \E j \in DOMAIN EntryOf(s) : EntryOf(s)[j].name = n /\ EntryOf(s)[j].unit = config.unit
         /\ OneUnit(EntryOf(s), n) /\ config.topic \in DOMAIN topic /\ n \in DOMAIN message.fields =>
              config.unit = IF n \in DOMAIN message.units THEN message.units[n] ELSE ""

\* What is announced is where Home Assistant looks for it: as long as the prefix
\* is the one the client was made under, the config of every marked field names the
\* topic Publish sends the source's values to, unless it failed.  So a change of the
\* prefix, though nothing announces it, is over with the next client.
AnnouncedTopic ==
  ~moved =>
    \A s \in bus : \A n \in Names :
      SensorKey(s, n) \in discovered \ failed =>
        SensorKey(s, n) \in DOMAIN configs /\ configs[SensorKey(s, n)].topic = Topic(s)

\* The packet of the specification a telegram was decoded with, if it was.
PacketsOf(frame) ==
  {pk \in Packets : /\ KeyOf(pk) = pkey(frame.src, frame.dst, frame.cmd)
                    /\ Generated(pk)
                    /\ KeyOf(pk) \notin DOMAIN Custom}

\* The fields of a packet that mapField keeps and whose bytes a payload has, but for
\* a signed single byte at its end: the Int16 it is taken for wants one more.
Readable(payload, pk) ==
  {j \in DOMAIN pk.fields :
     LET f == pk.fields[j]
     IN /\ Mapped(f) /\ Carried(payload, f)
        /\ SignedByte(f) => f.parts[1].offset + 1 < Len(payload)}

\* Generator and decoder agree with the specification: what is published under a
\* generated name is, to the nearest hundredth, what the specification means by the
\* last readable field of that name, sign, width and all.  Two kinds of field have no
\* registry type, and ReadRaw says what is read for them: a signed single byte brings
\* the byte behind it along, a signed four-byte number below zero is 2^32 too high.
PublishedMeansSpec ==
  \A t \in DOMAIN topic : \A pk \in PacketsOf(origin[t]) : \A n \in DOMAIN topic[t].fields :
    LET payload == origin[t].payload
        named == {j \in Readable(payload, pk) : GoName(pk.fields[j].text) = n}
        f == pk.fields[Max(named)]
    IN Reads(topic[t].fields[n], ReadRaw(payload, f), f.precision)

\* A telegram that is shorter than the definition costs only the fields it does
\* not carry, and a signed single byte at its end: what is published has the names
\* of the readable fields, all of them and no other.
PublishedComplete ==
  \A t \in DOMAIN topic : \A pk \in PacketsOf(origin[t]) :
    DOMAIN topic[t].fields = {GoName(pk.fields[j].text) : j \in Readable(origin[t].payload, pk)}

\* main.go: a signed single byte is treated as Int16, which sign-extends it.  So
\* what is published of one would be its value.
SignedByteSignExtends ==
  \A t \in DOMAIN topic : \A pk \in PacketsOf(origin[t]) : \A j \in DOMAIN pk.fields :
    LET f == pk.fields[j] IN
    Mapped(f) /\ SignedByte(f) /\ GoName(f.text) \in DOMAIN topic[t].fields =>
      Reads(topic[t].fields[GoName(f.text)], SpecRaw(origin[t].payload, f), f.precision)
===============================================================================
