---------------------------- MODULE MCConfigStore ----------------------------
(* Small instances of ConfigStore for TLC. *)
EXTENDS ConfigStore

MCPorts     == {"usb0", "usb1"}
MCPasswords == {"pw0", "pw1"}
MCLevels    == {"info", "debug"}

\* Two settings are enough for two requests that overlap.
MCOnePort     == {"usb0"}
MCNoPasswords == {}

\* SERIAL_PORT and LOG_LEVEL are set in the environment, MQTT_PASS is not.
MCEnv == [port |-> "usb0", pass |-> Empty, level |-> "info"]
===============================================================================
