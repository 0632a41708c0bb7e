------------------------------- MODULE MCBridge -------------------------------
(* Small instances of Bridge for TLC. *)
EXTENDS Bridge, TLC

\* One setting that a reconnect is for, and the level.
MCPorts     == {"usb0"}
MCPasswords == {}
MCLevels    == {"info", "debug"}

MCEnv == [port |-> "usb0", pass |-> Empty, level |-> "info"]

\* Only the level varies: an update that arrives during the reload for another stays small.
MCNoPorts  == {}
MCLevelEnv == [port |-> Empty, pass |-> Empty, level |-> "info"]

\* Handlers do the same things.
MCHandlerSymmetry == Permutations(Handlers)
===============================================================================
