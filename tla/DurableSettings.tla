--------------------------- MODULE DurableSettings ---------------------------
(***************************************************************************)
(* What the configuration store promises when PUT requests do not overlap: *)
(* the saved document changes in one atomic step, to the settings then in  *)
(* use; an acknowledged change is the one that is saved; and a new process *)
(* resumes from the saved document over the environment.                   *)
(***************************************************************************)
EXTENDS Settings

CONSTANT NoFile

VARIABLES
  running,       \* the settings in use
  saved,         \* the document a new process would find, or NoFile
  acknowledged,  \* the last request was answered "ok"
  boots          \* how many times the process was restarted

vars == <<running, saved, acknowledged, boots>>

Resume(doc) == IF doc = NoFile THEN Env ELSE Overlay(doc)

Init ==
  /\ saved \in Docs \cup {NoFile}
  /\ running = Resume(saved)
  /\ acknowledged = FALSE
  /\ boots = 0

Change ==
  /\ running' \in Config
  /\ acknowledged' = FALSE
  /\ UNCHANGED <<saved, boots>>

Save ==
  /\ saved' = Persisted(running)
  /\ acknowledged' = TRUE
  /\ UNCHANGED <<running, boots>>

Restart ==
  /\ running' = Resume(saved)
  /\ acknowledged' = FALSE
  /\ boots' = boots + 1
  /\ UNCHANGED saved

Next == Change \/ Save \/ Restart

Spec == Init /\ [][Next]_vars
===============================================================================
