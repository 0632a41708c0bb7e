# vbus2mqtt in TLA+

TLA+ models of vbus2mqtt, the bridge that reads RESOL VBus telegrams from a USB
serial adapter and publishes them to MQTT, with the TLC runs that check them and
the proofs that TLAPS checks. Source references are relative to the repository.

## The system

One process. Its parts, the state each keeps, and who touches it:

| Part | Source | State | Operations |
|------|--------|-------|------------|
| Settings | `internal/config/config.go` | – | `Load`: environment over defaults |
| Store | `internal/config/store.go` | `cfg` (under a mutex), `version` (atomic), the file | `Get`, `Version`, `Update`, `saveFile`, `NewStore`/`loadFile` |
| Web server | `internal/web/server.go` | – (one goroutine per request) | GET and PUT `/api/config`, GET `/api/status`, `/health`, the page |
| Bridge loop | `cmd/vbus2mqtt/main.go` (`main`, `readLoop`) | its copy of the settings and their version, the accumulator, `lastPublish` | session per version, serial sub-loop, read, publish round |
| Log-level watcher | `main.go` (`watchLogLevel`) | `lastVer`, the `slog.LevelVar` | poll every second |
| MQTT client | `internal/mqtt/client.go` | paho's connection, the discovery cache | `New`, `Connect`, `Publish`, `publishDiscovery`, `Disconnect`, `OnConnect` callback |
| Status | `internal/status/status.go` | connected, last publish, devices | setters by the bridge loop, `Snapshot` by the web server |
| Serial device | `internal/device/device.go` | the open port | `Detect`, `Open`, `Read` (one second timeout) |
| Parser | `internal/vbus/parser.go` | the unconsumed bytes | `Feed` |
| Registry | `internal/vbus/registry*.go` | `DefaultRegistry`, filled by two init functions, constant afterwards | `Lookup`, `Decode`, `extractValue` |
| Generator | `cmd/gen-registry/main.go` | – | VSF file to Go table |
| Log handler | `cmd/vbus2mqtt/dynamic_log.go` | – | reads `LogFormat` for every record |

How they interact. A PUT handler calls `Store.Update`; the bridge loop and the
watcher notice by comparing `Version()` with the version they remember and then
read `Get()`. These are separate reads, and `Update` itself replaces `cfg` inside the
mutex but bumps the version, takes the snapshot it saves and writes the file
after it. The bridge loop owns the serial port and the MQTT client; paho connects,
loses and regains the connection in goroutines of its own. The status is written
by the bridge loop only.

What is hard to get right, and hard to test:

- overlapping PUTs, in memory (version against settings) and on disk (one
  temporary file name, snapshots taken after the unlock);
- the end of the process at any point of a save, and the next start;
- a change that arrives while the previous one is being applied;
- shutdown from every wait of the bridge loop, and from the middle of a PUT;
- a broker that comes and goes while the loop publishes, and what the status
  page says of it;
- discovery configs that stay at the broker while prefix, telegrams and connections change;
- a byte stream cut anywhere, with damaged and truncated telegrams in it;
- the discovery cache shared with paho's callback;
- the numbers: sign, width and rounding of a field, from the specification through
  the generated table to the payload, and telegrams shorter than their definition.

What makes each part correct:

- Store: the file is absent or complete at every moment; an answered PUT is the
  one on disk; a restart gives the saved settings back.
- Bridge loop and watcher: nobody works on stale settings that it takes for
  current; after the last PUT everyone ends up on its settings; a signal ends the process;
  telemetry keeps flowing to the client.
- Status: it says what is the case.
- Parser: the frames do not depend on how the bytes are cut; damage costs the
  damaged telegram only; the buffer stays bounded.
- Discovery: a mark in the cache stands for an announcement in this connection;
  every field is announced again after a reconnect; what is announced fits the
  values that follow.
- Registry and generator: a custom entry hides the generated one; what is
  published is what the specification says of the bytes; a message is one telegram of
  its source.

## The modules

| Module | Models |
|--------|--------|
| `Settings` | configurations as data: PUT body, validation, merge, JSON document, overlay on the environment |
| `DurableSettings` | abstract: a store whose saved document changes in one step, an acknowledged change is saved, a restart resumes from it |
| `ConfigStore` | `Store`, `NewStore` and PUT step by step, with any number of handlers, I/O errors and restarts |
| `ConfigStoreProofs` | theorems about `ConfigStore` |
| `Bridge` | extends `ConfigStore` with the bridge loop, the watcher, the status, paho's connection and signals |
| `BridgeProofs` | theorems about `Bridge` |
| `Sessions` | abstract: what the process promises about the settings it works with: one session at a time, begun on the settings in force, ended by a change or a signal |
| `SessionsProofs` | what follows from that promise |
| `MqttClient` | the discovery cache: publish rounds against paho's connection and its `OnConnect` goroutine |
| `MqttClientProofs` | theorems about `MqttClient` |
| `VBusParser` | the parser over real bytes, and the sender's side of the protocol |
| `VBusParserProofs` | theorems about `VBusParser` |
| `Registry` | `registry.go`: what an entry is, `Lookup`, `Decode` and `extractValue` over bytes |
| `Generator` | `gen-registry`: from a packet of the specification to an entry, and what the specification means by a field |
| `RegistryTables` | 48 of the 238 devices of `registry_gen.go`, and `registry_custom.go`, as data |
| `Telemetry` | from the init functions over `Decode` and the accumulator to the retained message and the discovery configs |
| `TelemetryProofs` | theorems about `Telemetry`, and with it about `Registry` and `Generator` |
| `MC...` | instances for TLC; one `.cfg` per run |

### Settings

A `Config` keeps three of the eleven settings PUT can change, one for each way a
setting can behave: `port` may be empty, `pass` is kept when PUT sends it empty or
masked, `level` is validated and never empty. The eight others behave like one of
these on the way through PUT, file and restart (`BaudRate` 0 like an empty `port`).
`Persisted` drops empty strings, as `omitempty` does, so a document is a
function on the fields it contains and `Overlay` takes the others from the
environment. The environment is assumed to hold a level PUT would accept.

### ConfigStore

One action per step between which another goroutine or the end of the process can be observed:

| Action | Code |
|--------|------|
| `PutRejected` | `handlePutConfig` answers 400 |
| `UpdateApply` | `Update` from lock to unlock |
| `UpdateBump` | `version.Add(1)`; without a path `Update` returns |
| `SaveSnapshot` | `saveFile` copies `cfg` under the read lock and marshals it |
| `SaveOpen` | `os.WriteFile` opens and truncates `path+".tmp"` |
| `SaveWrite` | it writes and closes |
| `SaveRename` | `os.Rename` and the answer 200 |
| `SaveFails` | any of the three returns an error, answer 500 |
| `NewStore` | the process ends, a new one loads the file |

`file` is what the two names hold. A handler that has a file open keeps it when
another handler renames it, so `fd` says by which name it is reached now; a
document written over another one may leave its tail (`Torn`). `PersistencePath` is
FALSE for a store without a path. `updates` and `boots` count only for the
bounds `MaxUpdates` and `MaxBoots`.

The operating system survives: data that was written is there after a restart
of the process. The loss of power is not modelled (the code does not call
`fsync`).

### Bridge

`main` is the program counter of the main goroutine:

    outer -> getcfg -> new -> connect -> inner -> head -> serial -> check -> send
                                           |        \________________________/
                                           +-> retry, after, teardown -> outer, stopped

A step ends where main next reads what others write. `Reading` is `readLoop`,
`InSession` the time between `mqttclient.New` and `Disconnect`. `accum` is the set of sources
with decoded telemetry (the values are abstracted), `due` says that the publish interval
has passed; it becomes true by `IntervalElapses`, and either way by a PUT, which may change
the interval that `readLoop` reads live. A round publishes the sources in `todo` one by
one in any order; whether a message reaches the broker makes no difference to the loop. `link` is paho's connection, external to this repository: `connecting`
after `New`, since `ConnectRetry` is set, then `connected`, and `reconnecting` after a loss;
`IsConnected` is true in all three because `AutoReconnect` and
`ConnectRetry` are set. With `UnparsableBroker` the broker's URL may be one paho makes no
server of; then it has nothing to try (`given_up`), and `IsConnected` is false. A PUT handler that is still at work when main returns
stops with the process (`Running`). The restart itself is in `ConfigStore`.

`Unwinds` is an action property about the end of a session. Once there is a signal or a new
version (`Leaving`), every step of main brings it nearer to the end by `Ahead`, the distance in the
diagram above, or makes the publish round it is in shorter. So no port is opened, and no read and no wait
for a retry begun. What main had decided on before, it still does, once: it makes the client it is about to make
(`new` is ahead of `teardown`), and it goes through the publish round that is due after its last read.

`ImplementsSessions` says what all these comparisons of versions are for, without versions.
`Sessions` has settings in force (`current`), changed by `Change` and a little later announced
(`Announce`), and a phase: `closed`, `opening`, `open`, `ended`. A session is begun, opened on the settings in
force, perhaps shown, and closed only if an announcement made it stale or the process is
stopping; after a signal none is begun. The log level follows the announcements by itself. The mapping:

| `Sessions` | `Bridge` |
|------------|----------|
| `current`, `stopping`, `shown` | `cfg`, `ctxDone`, `mqttShown` |
| `changing` | some `Update` is between its unlock and its `version.Add` (`Pending`) |
| `stale` | the version main remembers is not the store's |
| `phase` | `closed` at the head of the outer loop, `opening` until `mqttclient.New` has returned, `open` until `Disconnect` |
| `session` | `devCfg` for the port and `mqttCfg` for the client, while it is open |
| `levelStale` | the watcher's version is not the store's, or it has still to apply the level |

`OuterLoop` is `Begin` or `Stop`, `NewClient` is `Open`, `ConnectReturns` and `FinishRound` are `Show`,
`Teardown` is `Close`, `WatchApply` is `FollowLevel`, `UpdateApply` and `UpdateBump` are `Change` and
`Announce`; every other step stutters. In particular what a failing serial port, a broker that comes
and goes and a retry do is a stutter: they do not end a session.

### MqttClient

One client with discovery enabled, from `Connect` to `Disconnect`. `pc` says where main is in
`Publish`: `BeginPublish`, then for every field `MarkField` (lookup and mark under
the mutex) and, if it was not marked, `SendDiscovery`, then `SendTelemetry`. `discovered`
is the cache. A config message reaches the broker, is dropped because
there is no connection, or fails over an open one; the code goes on with the next
field in all three cases, and the mark stays: a field whose publish failed is not announced
again in its connection. `CacheSound` and `Reannounced` except those fields
(`failed`); what `Reannounced` says of them is that a failure does not outlive its connection, since `LinkUp`
empties `failed`. `LinkUp` starts an `OnConnect` handler without waiting for it
(`clearing` counts those that have not run), `OnConnect` clears the cache. `announced`
and `failed` record, for the properties only, what the broker got and what failed in this
connection. `DiscoveryFirst` adds the order: when telemetry goes out in a connection whose handlers have run,
every field of its source was announced in it, or failed. It excludes a `Publish` a handler interrupted
(`wiped`, a history too): the fields the loop had then passed are announced by the next one. `Bridge` covers the same `Publish` from the side of the loop; the two
are not composed, because the loop reads nothing of the cache.

### VBusParser

`Scan` is the loop of `drain` as a recursive function over positions: the next SYNC,
then wait, skip one byte, or emit a frame; `Drain` is its value at the first. `Feed` is one `dev.Read` of any size
and the `Feed` of its bytes. `SentSubFrame` encodes four bytes as the header of `parser.go` describes, `Carries`
says that a telegram stands in the stream as it was sent, `FrameOf` what should come of it. `Inputs` are
streams paired with the telegrams that were sent in them and where. What is returned is compared with three things:

- `Starts`, a reference that knows neither a buffer nor an order of work. It says of every position of the
  bytes seen whether a frame starts there: a valid telegram does, outside every earlier frame, with
  no incomplete telegram before it. `ParsesStream` says that the frames returned are these,
  `DamageIsLocal` what a valid telegram can be lost to. Returned means returned in its place (`Returned`): an
  equal telegram before or after it does not count.
- `Drain` of all the bytes at once: `ReadsDoNotMatter`.
- The telegrams that were sent: `IntactDelivered`. It speaks of streams that are `Clean`: the telegrams stand one behind
  the other, with any noise and damage between them that does not happen to make another valid
  telegram. An `ASSUME` in `MCVBusParser` shows that every stream of the run is one.

A valid telegram that an earlier header overlaps is indeed lost, or held back until that header is
complete: bytes of noise that happen to be a header with a right checksum announce up to 255 sub-frames.
The code cannot know better, and `DamageIsLocal` says that there is no other loss.

### Registry, Generator, RegistryTables

`Registry` has `extractValue` for the five types: the bounds check (`InRange`), the bytes (`Raw`, with the
sign `int16(...)` gives), and the rounding to hundredths, in which values are
counted. With three or four decimals an exact half may go either way, because the
program multiplies floats (`HalfUp`). `Decode` keeps the position of a field in the
definition, so that two fields of one name stay apart.

`Generator` has `generate` and `mapField`: the type is chosen from number, mask, sign and
multiplier of a field's parts. `GoName` stands for `toGoFieldName`, of which only
matters that different texts may become one name. `PartValue` and `SpecRaw` say what a field
means by the specification alone, without looking at a type. For two kinds of field mapField has no type that fits,
and `ReadRaw` says what comes of them: a signed single byte takes the byte behind it along as its
high byte (and is dropped at the end of the payload, so it is not `Readable` there), a signed four-byte
number below zero comes out 2^32 too high.

`RegistryTables` writes an entry as the packet it was generated from, by runs of equal fields;
the model's generator turns it into the entry. A field has the size, sign, precision,
unit and offset of the specification file, and its entry those of `registry_gen.go`.
The names are the fields' own shapes: no property depends on their wording. `Field`, `Run` and `Device` are the notation
of these tables, not code: reading the specification file is not modelled.

### Telemetry

| Action | Code |
|--------|------|
| `InitCustom`, `InitGenerated` | the two init functions, in either order |
| `Receive` | `readLoop` decodes a frame and replaces what it holds of the source, or drops an unknown one |
| `Publish` | a round reaches the source: `publishDiscovery`, then the message (`PublishTelemetry`); either may fail without the other |
| `ChangePrefix` | a PUT changes the topic prefix, which `Publish` reads live |
| `Reconnect` | `OnConnect` clears the cache |
| `RestartLoop` | `readLoop` is called again with an empty accumulator |
| `NewSession` | the version has changed: `readLoop` returns, main makes a new client with an empty cache |

`topic` and `configs` are what the broker retains, the one by topic (prefix and source), the other by
source and name. `latest` and `origin` are
histories: the telegram the accumulator of a source was decoded from, and the one the message on a topic
was made from. So are `failed`, the fields whose config did not get through in this connection, and `moved`, that the
prefix has changed since the client was made. `Losses` are the sets of names whose config may be lost in one round.
`Publish` is one step: it copies the settings once, and telemetry is local to the
main goroutine. A PUT in the middle of it takes effect after it; what paho's callback does in the middle of it is
`MqttClient`. QoS and retain are not told apart: a broker that does not retain has
delivered the same message. The discovery prefix is left out, as PUT cannot change it, and the
broker starts without retained messages of an earlier process.

A config is sent once per connection, so it ages. Two properties say how far:

- `AnnouncedTopic`: as long as the prefix is the one the client was made under, every marked field whose config
  did not fail is announced for the very topic its values go to. After a change of the prefix the messages go to
  the new topic under the old configs until the loop has made a new client, and a config that
  fails again then keeps the old topic.
- `AnnouncedUnit`: whatever fails, a config names a topic of its source and the unit of one of the
  fields of its name in the device's entry. Of a name with one unit (`OneUnit`; all but those of eight devices)
  that is the unit of the value on the topic the config names. Of one with several it is that of
  the first field of the name in an earlier telegram, and the value may have another.

`PublishedComplete` says what names a message has: those of the fields that are `Readable` in its telegram. `PublishedMeansSpec`
says what the values are, for every field, by `ReadRaw`.

The tables satisfy assumptions that TLC evaluates on those that are instantiated and the
proofs use: keys of generated packets differ (`PacketsAssumption`; Go refuses a map literal
with a key twice), mapped fields are bytes in a row and signed only in the
highest (`WellFormed`), custom entries are broadcasts (`CustomAssumption`), and of fields that share a
name all have a unit or none (`UnitsAssumption`).

## The runs

| Run | Bounds | Shows |
|-----|--------|-------|
| `store_serial` | 1 handler, 3 updates, 2 restarts, 3 x 3 x 2 configurations, any initial file | `TypeOK`, `ConfigFileIntact`, `SettledOnDisk`, `RestartKeepsNonEmpty`, `ImplementsDurable` hold |
| `store_torn` | 2 handlers, 2 updates | `ConfigFileIntact` is violated when PUTs overlap |
| `store_lostsave` | 2 handlers, 2 updates | `SettledOnDisk` is violated when PUTs overlap |
| `store_cleared` | 1 handler, 2 updates, 1 restart | `RestartKeepsSettings` is violated: cleared settings come back |
| `bridge_safety` | 2 handlers (symmetric), 2 updates, 1 source, also with an unparsable broker | `BridgeTypeOK`, `ReloadSound`, `LevelSound`, `ShownOnlyWithClient`, `Unwinds`, `ImplementsSessions` hold |
| `bridge_live` | 1 handler, 2 updates, 2 sources | `Converges`, `ShutdownStops` and `TelemetryFlows` hold |
| `bridge_level` | 1 handler, 1 update | `LevelChangeKeepsConnection` is violated |
| `bridge_outage` | 1 handler, 1 update | `OutageShown` is violated |
| `mqtt_discovery` | 2 sources, 2 fields, 3 connections, 1 failure | `ClientTypeOK`, `CacheSound`, `DiscoveryFirst`, `Reannounced` hold |
| `parser` | 512 streams of three pieces of eight kinds, reads of up to 48 bytes | `ParserTypeOK`, `ParsesStream`, `ReadsDoNotMatter`, `HoldsOneTelegram`, `DamageIsLocal`, `IntactDelivered` hold |
| `telemetry` | bytes of 4 values, 48 table devices and three made-up ones, one controller at a time or two that share a name; two prefixes for one of them | `TelemetryTypeOK`, `CustomPrecedence`, `MessageTruthful`, `PublishedMeansSpec`, `PublishedComplete`, `AnnouncedUnit`, `AnnouncedTopic` hold |
| `telemetry_signed` | the device 0x1001 | `SignedByteSignExtends` is violated |

Why the bounds are enough. Two handlers and two updates are all it takes for two
updates to overlap in every step of `Update` and `saveFile`; a third update with one handler
lets a save follow a failed one that followed a good one. Two restarts let a process
inherit the leftovers of a crash and crash itself. In the Bridge runs one update may
arrive while the previous is being applied, which takes two; the bridge keeps no
count of anything else, so its loops run unbounded and the state space is finite.
The store has no path there (`PersistencePath = FALSE`): nothing reads the
file while the process runs. One source is enough for the session, two for
telemetry to arrive piecemeal. Three connections let a handler of the first be
outstanding while the third is up; with two fields a handler can run between two
marks of one `publishDiscovery`. The parser's pieces are: a telegram without and one with a
sub-frame (whose data need bit 7, the SYNC byte among them), two bytes of
noise, a lone SYNC, a telegram with a damaged header checksum, with a damaged data byte, cut
after twelve bytes, and of protocol version 2; three of them put damage before,
between and after intact telegrams, and reads of up to the whole stream cut it everywhere.

A byte has `Base` values, four in the telemetry runs instead of 256: two with the
sign bit and two without, and every multiplier is a power of `Base`, as it is of 256 in
the program. No operator depends on the number otherwise; the proofs are for
every even `Base`. A table device sends a telegram in which neighbouring
bytes differ, one in which all are at their maximum (every sign set), and one of half the
length. The made-up devices have what the tables lack together: eight pairs of bytes,
in both orders and with every sign, values at an exact half of a hundredth in both directions, a signed
byte at the end, a bit field, fields that fall together by name with and without the same unit, and
packets the generator must ignore. Sources do not read each other's state, so two at a
time, of which one has a custom entry, show that nothing mixes. The prefix changes between two values, for the
made-up device with a handful of telegrams: the old one and another are all a config can name, and one of its two names may
lose its config.

The bridge runs are checked without deadlock detection because the process stops
after a signal, the parser run because a stream ends.

### Fairness

`BridgeSpec` assumes weak fairness of four things. Main's steps: each of its waits ends
(one second in `Read`, five in a publish and after a failed open, three between
reads, ten in `Connect`). The watcher: its ticker. The continuation of a PUT
that has begun: net/http runs the handler. The passing of the interval. Nothing is
assumed of the broker, the bus, the serial port, users or signals: the broker
may be away for ever, the port may fail at every read.

`MqttClient!Spec` assumes that publish rounds go on (each wait in them is bounded,
and a source once heard stays in the accumulator) and that the `OnConnect`
goroutine runs. Nothing is assumed of the connection: `Reannounced` speaks of the one
that lasts.

### What the violated properties mean

- `ConfigFileIntact`, two handlers: `saveFile` uses one temporary name outside the
  mutex. Handler 1 has written it and is about to rename; handler 2
  truncates it; the rename makes the empty file the configuration.
- `SettledOnDisk`, two handlers: the snapshot of the older update is renamed last.
  Both PUTs are answered 200, and the next start finds the older settings.
- `RestartKeepsSettings`: a cleared `port` is omitted from the document, and the
  environment variable fills it in at the next start. `RestartKeepsNonEmpty` is what holds.
- `LevelChangeKeepsConnection`: any new version ends the session, also for the
  log level, of which the documentation says that it needs no reconnect.
- `OutageShown`: paho's `IsConnected` is true while it is reconnecting.
- `SignedByteSignExtends`: `mapField` gives a signed single byte the type `Int16`, "which
  sign-extends it". `extractValue` reads two bytes for an `Int16`, so the byte behind it becomes the
  high one; at the end of the payload the field is dropped. 275 fields of 71 devices
  are concerned. `PublishedMeansSpec` is what holds, of these and of all others.

## The proofs

For every set of settings, every environment, every number of sources, every byte stream and
any bounds. The assumptions on constants (`SettingsAssumption`, `EnvAssumption`,
`StoreAssumption`) say that the sentinels are distinct from the data and that the environment
gives a configuration.

`ConfigStoreProofs`

- `TypeCorrect`: `TypeOK`, for any number of handlers. It rests on lemmas about
  the data: `Merge`, `Overlay` and `Loaded` yield configurations.
- `CrashSafe`, `AcknowledgedIsSaved`, `AcknowledgedSurvivesRestart`: the safety
  properties of `store_serial`, under the hypotheses that requests do not overlap
  (`SerialHandlers`) and the store has a path. Neither property is inductive: that the
  rename installs the right document depends on what the save did before.
  `SerialInv` adds `SaveInv`: from the snapshot on, the handler's copy is still
  `cfg`; while it writes, it alone has the temporary file open and that is
  truncated; when it renames, that holds the document of `cfg`. Without
  `SerialHandlers` every conjunct of `SaveInv` fails, as the violation runs show.
  `AcknowledgedSurvivesRestart` adds `LoadOfSave`: loading a saved
  document gives back every setting that is not empty.
- `StoreIsDurable`: under the same hypotheses `ConfigStore` implements
  `DurableSettings` (`ImplementsDurable`). `SaveRename` is `Save`,
  `NewStore` is `Restart`, `UpdateApply` and `PutRejected` are `Change`, all other steps
  stutter.

`BridgeProofs`

- `BridgeTypeCorrect`: type correctness. `RoundInv` (outside a round `todo` is
  empty) makes it inductive, because `readLoop` drops its accumulator when it returns.
- `ReloadIsSound`, `LevelIsSound`: `ReloadSound` and `LevelSound` for any number of
  overlapping handlers, with or without a file. `SyncInv` makes them inductive: a version that was
  read is never ahead of the store's, and settings that were read after it are `cfg` unless the version has
  moved on or an Update is between its unlock and its `version.Add`. `StoreEffect` is the
  lemma that carries it: a store step either leaves settings and version alone, or
  leaves an Update pending, or bumps the version.
- `ShownIsBacked`: `ShownOnlyWithClient`, inductive as it stands.
- `TeardownIsDue`: at `Disconnect` there was a signal or a new version (`TeardownInv`), whatever became of the
  port and the broker before. It is inductive because neither a signal nor a version is taken back
  (`LeavingStays`); only main assigns the version it remembers (`OthersLeaveMain`).
- `LeavingUnwinds`: `Unwinds`, by the actions of main, with `BridgeTypeOK` for the values of `main`.
- `ProcessKeepsPromise`: `ImplementsSessions`, for any number of overlapping handlers, with or without a file.
  The invariant is `TypeOK`, `BridgeTypeOK`, `SyncInv` and `TeardownInv`: `SyncInv` gives what
  `Open` requires of the settings, and `TeardownInv` the guard of `Close`. `ProcessInit`, `MainKeepsPromise` and `PutKeepsPromise` are the initial states and the steps. With several
  handlers one `version.Add` may leave other changes to be announced, for which `Announce` allows.
- `BridgeRunsStore`: every behaviour of the process is a behaviour of `ConfigStore`, because each of its
  steps is one of the store or leaves the store alone (`StoreStep`). `ShutdownIsCrashSafe` carries the
  four results about the file over to the process, in which a signal may end main, and with it
  a PUT, between any two steps; the hypotheses stay `PersistencePath` and `SerialHandlers`. The Bridge runs
  have no path, so TLC does not check this composition; the proof does.

`SessionsProofs`

- `PromiseUpToDate`: in every behaviour of `Sessions`, with no change about to be announced, an open session that is
  not stale runs on the settings in force, and so does a level that is not (`UpToDate`). With
  `ProcessKeepsPromise` this holds of the process.

`MqttClientProofs`

- `ClientTypeCorrect`: type correctness, and the field in flight is one that
  the loop has left behind.
- `CacheIsSound`: `CacheSound` for any number of sources, fields and reconnects. It is inductive
  because it speaks only of states without an outstanding handler: `LinkUp` starts
  one, and the last to run leaves the cache empty.
- `DiscoveryComesFirst`: `DiscoveryFirst`. `LookedAtMarked` is the strengthening: unless a handler ran meanwhile,
  the fields the loop has passed are in the cache. At the end of the loop these are all fields of the source,
  and none is in flight, so that `CacheSound` says that they were announced.

`TelemetryProofs`: the properties of the run `telemetry`, for every table, bus, telegram and even
`Base` that satisfy the assumptions named above (`BaseAssumption`, `TelegramsAssumption` and
those of the tables).

- `CustomTakesPrecedence` and `TelemetryTypeCorrect`. `RegistryInv` makes precedence inductive: what is in
  the registry before both init functions have run.
- `MessagesAreTruthful`. `AccumInv` says that the accumulator of a source is `Decode` of
  its latest telegram, `TopicInv` that the retained message is `Message` of `Decode` of its
  origin. Both refer to the registry, which must therefore be shown constant
  while the program runs. That the last field of a name explains
  its value and unit needs `UnitsAssumption`.
- `UnitsAreAnnounced`. `ConfigInv` says that a config stems from the definition of a
  packet its source sends; as a source has one broadcast entry (`BroadcastKeys`), it is
  the one the latest message was decoded with. `FlowInv` is the conjunction of all of these. That neither invariant relates
  the two makes it hold when a config gets through and the message does not, or the other way round.
- `TopicsAreAnnounced`: `AnnouncedTopic`, inductive as it stands (`AnnouncedTopicPreserved`): a mark is set for the prefix in force,
  `moved` stays set until the next client, and that starts without marks.
- `TelegramsAreComplete`, `PublishedValuesMeanSpec`: of every payload, with `Readable` and `ReadRaw` for the
  fields no type fits. From `TopicInv`, and the lemmas
  about `MapType` and `ExtractValue`: `GeneratedEntry` (an entry has the packet's fields at their positions),
  `ReadableInRange` (what is readable is what `InRange` lets through), `SignOfPair` (two's complement over `Base * Base` is the sign of the high byte),
  `RawMeansSpec` (the raw value of a type `mapField` chose is the one `ReadRaw`
  gives), `HundredthsRead` (rounding is to the nearest, on whichever side a half falls).

`VBusParserProofs`, for every stream, reads of any size and at any cuts. The one assumption
(`StreamAssumption`) is that streams consist of bytes.

- `ParserInvariant`: `ParserInv`. The frames returned are those of a `Parse` of the bytes seen up to a position where
  the scan must stop, and the buffer is what follows. A parse is a list of valid telegrams, none inside
  another, such that each byte between them is `Dead`: no telegram starts there, whatever follows. None of the
  properties is inductive alone, as none relates frames and buffer to
  the stream. The step rests on three lemmas. What a scan of a buffer finds is a parse (`ScanParses`).
  `Dead` and valid positions stay so when bytes follow, and mean the same in the stream and in its end that the buffer is
  (`ParseExtends`, by `Stable`, `SameTelegram`, `SameEnd`). Two parses, one behind the other, are one (`ParseJoins`).
- `BufferIsOneTelegram`, `BufferIsBounded`: `HoldsOneTelegram`, and from it that the buffer stays
  below 10 + 255 * 6 bytes.
- `StreamIsParsed`: `ParsesStream`. `ParseIsReference` shows that a parse that ends where the scan must wait has its frames
  exactly where the reference has them, and `CountIncreasing` gives their numbers.
- `CutsDoNotMatter`: `ReadsDoNotMatter`. One Feed of all bytes gives a parse too, and there is only one
  that ends where the scan must stop (`ParseStops`, `OneParse`).
- `OnlyOverlapLosesTelegrams`: `DamageIsLocal`. `ParseRanks` shows that the frames of a parse are the frames of the reference, each with its
  number, so that a lost telegram is not excused by an equal one.
- `IntactTelegramsArrive`: the same in terms of the sender: of a telegram that stands in the stream as it was sent
  what is returned, in its place, is what was sent, bit 7 of every byte included (`Bit7Restored`, `IntactTelegram`).
- `IntactAreDelivered`: `IntactDelivered`, for clean streams of any length. When the buffer is empty, the parse of `ParserInv` reaches
  the end of the stream. `WholeParse` shows that its telegrams are those that were sent: each valid one lies within one
  that was sent, none can start inside another (`NotApart`, `NotBefore`), so by induction the i-th is the i-th.
- `ParserTypeCorrect`: `ParserTypeOK`.

`Scan`, `Start` and `FlattenSeq` are recursive functions. That such a definition satisfies its equation,
and what it then computes, needs induction. The library's theorems for it take operators,
which the provers cannot instantiate, so `Induction` and `Recursion` state both with
sets and functions and are proved from the least element of a set of natural numbers. `ScanUnfolds`,
`StartUnfolds` and `FlattenType` apply them.

Model-checked only: the liveness properties (`Converges`, `ShutdownStops`,
`TelemetryFlows`, `Reannounced`), which need fairness. Every other property of the passing runs is
a theorem. For `ShutdownStops` and `Converges`, `LeavingUnwinds` proves the measure: what
is left to fairness is that main takes its next step.

## Not modelled

- Parsing of environment variables and of JSON, log format, HTTP routing and
  basic auth, the page: presentation and I/O. Of the web server, what changes
  state is the PUT handler, which is.
- `parseVSF`'s file offsets, the text of the generated file, the characters of `toGoFieldName` and
  `fieldSlug`: byte and text handling without state. `Registry.Register` has no caller.
- The devices of `registry_gen.go` that `RegistryTables` does not list: 48 of its 238 tables, among
  them the longest, are checked one by one. The proofs hold of all of them that satisfy the assumptions.
- The wrap-around of the version (2^64 updates), the loss of power.
- Timestamps and the age of telemetry: what a source that fell silent leaves in the accumulator
  is published for as long as `readLoop` runs, and `readLoop` sets the last publish after every round, also
  when every `Publish` in it failed. The code promises neither an age nor an outcome.

Divergences met while modelling that no run shows:

- The units of the generated table begin with a blank (`" °C"`), and no case of
  `haClassFromUnit` (`client.go:228`) matches them, so generated sensors have no
  `device_class`, unlike the table at `README.md:233` says.
- 518 signed four-byte fields become `Uint32` (`gen-registry/main.go:332`); below zero they are published 2^32 too high.
- Eight devices have fields of one name and several units (0x2232: `heat` in Wh, kWh and MWh): one
  sensor, announced with the first unit and fed with the last value.
- Until the `OnConnect` goroutine has cleared the cache after a connect, and in the `Publish` it interrupts,
  telemetry can go out before the discovery of its fields (`client.go:71` against `client.go:116`);
  `DiscoveryFirst` is what holds otherwise.
- `Detect` sorts all ports together (`device.go:33`), so `ttyACM` comes before
  `ttyUSB`, unlike its comment at `device.go:22` says.

## Plan

1. Done: `Settings`, `ConfigStore`, `DurableSettings`, `Bridge`, `MqttClient`, `VBusParser`,
   with proofs for the store, the bridge, the client and the parser.
2. Done: `Registry`, `Generator`, `RegistryTables` and `Telemetry` with their proofs, and the
   liveness of the bridge in one run.
3. Done: `Sessions`, which `Bridge` implements, and a theorem for every safety property of the runs.
4. Open: a codec of the settings (the numeric ranges of PUT and of the environment,
   `BaudRate` 0).
