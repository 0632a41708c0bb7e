------------------------------- MODULE Settings -------------------------------
(***************************************************************************)
(* The runtime settings of vbus2mqtt as data: what a configuration is, how *)
(* PUT /api/config changes it, and how it is written to and read back from *)
(* the JSON file.                                                          *)
(*                                                                         *)
(* A Config has seventeen fields; they fall into three kinds that behave   *)
(* differently, and one field of each kind is kept:                        *)
(*   port  - a string that may legitimately be empty (SerialPort; MQTTUser,*)
(*           MQTTBroker and MQTTTopicPrefix behave the same);              *)
(*   pass  - MQTTPass, which PUT keeps when it is sent empty or masked;    *)
(*   level - LogLevel, which PUT validates and which is never empty        *)
(*           (PublishInterval, MQTTQOS and LogFormat behave the same).     *)
(***************************************************************************)
EXTENDS Naturals

CONSTANTS
  Ports,      \* the non-empty serial ports a user may enter
  Passwords,  \* the non-empty MQTT passwords a user may enter
  Levels,     \* the log levels the handler accepts
  Env         \* the configuration the environment variables give (config.Load)

Empty    == ""            \* the empty string, "not set"
Masked   == "****"        \* what GET /api/config shows instead of a password
BadLevel == "bad"         \* any value the handler's validation refuses

ASSUME SettingsAssumption ==
  /\ Empty \notin Ports \cup Passwords \cup Levels
  /\ Masked \notin Passwords
  /\ BadLevel \notin Levels

Fields == {"port", "pass", "level"}

Config == [port : Ports \cup {Empty}, pass : Passwords \cup {Empty}, level : Levels]

ASSUME EnvAssumption == Env \in Config

(***************************************************************************)
(* PUT /api/config: the decoded body, its validation, and the function the *)
(* handler passes to Store.Update.                                         *)
(***************************************************************************)
ConfigDTO == [port  : Ports \cup {Empty},
              pass  : Passwords \cup {Empty, Masked},
              level : Levels \cup {BadLevel}]

Valid(dto) == dto.level \in Levels

\* Mutant of Merge: the mask GET shows is taken for a password.
Merge_MaskStored(c, dto) ==
  [port  |-> dto.port,
   pass  |-> IF dto.pass = Empty THEN c.pass ELSE dto.pass,
   level |-> dto.level]

Merge(c, dto) == [port  |-> dto.port,
                  pass  |-> IF dto.pass \in {Empty, Masked} THEN c.pass ELSE dto.pass,
                  level |-> dto.level]

(***************************************************************************)
(* The JSON document: the type persisted drops every empty string          *)
(* (omitempty), so a document is a function on the fields it contains.     *)
(* Loading it overlays those fields on the environment's configuration.    *)
(***************************************************************************)
Persisted(c) == [f \in {g \in Fields : c[g] # Empty} |-> c[f]]

Docs == {Persisted(c) : c \in Config}

\* Mutant of Overlay: an environment variable wins over the file.
Overlay_EnvWins(doc) ==
  [port  |-> IF Env.port # Empty \/ "port" \notin DOMAIN doc THEN Env.port ELSE doc["port"],
   pass  |-> IF "pass" \in DOMAIN doc THEN doc["pass"] ELSE Env.pass,
   level |-> IF "level" \in DOMAIN doc THEN doc["level"] ELSE Env.level]

Overlay(doc) ==
  [port  |-> IF "port" \in DOMAIN doc THEN doc["port"] ELSE Env.port,
   pass  |-> IF "pass" \in DOMAIN doc THEN doc["pass"] ELSE Env.pass,
   level |-> IF "level" \in DOMAIN doc THEN doc["level"] ELSE Env.level]
===============================================================================
