-------------------------- MODULE ConfigStoreProofs --------------------------
(***************************************************************************)
(* Proofs about ConfigStore, for every set of settings, every environment  *)
(* and any bounds: type correctness for any number of handlers, and for    *)
(* requests that do not overlap the crash safety of the file, the          *)
(* durability of an acknowledged update and the refinement of              *)
(* DurableSettings.                                                        *)
(***************************************************************************)
EXTENDS ConfigStore, TLAPS

\* The document of a configuration is a document.
LEMMA PersistedIsDoc ==
  ASSUME NEW c \in Config
  PROVE  Persisted(c) \in Docs
BY DEF Docs

\* loadFile over the environment yields a configuration.
LEMMA OverlayIsConfig ==
  ASSUME NEW doc \in Docs
  PROVE  Overlay(doc) \in Config
<1>1. PICK c \in Config : doc = Persisted(c)
  BY DEF Docs
<1>2. \A f \in DOMAIN doc : f \in Fields /\ doc[f] = c[f]
  BY <1>1 DEF Persisted
<1>3. /\ "port" \in DOMAIN doc => doc["port"] \in Ports \cup {Empty}
      /\ "pass" \in DOMAIN doc => doc["pass"] \in Passwords \cup {Empty}
      /\ "level" \in DOMAIN doc => doc["level"] \in Levels
  BY <1>2 DEF Config
<1> QED
  BY <1>3, EnvAssumption DEF Overlay, Config

\* NewStore yields a configuration whatever the file holds.
LEMMA LoadedIsConfig ==
  ASSUME NEW content
  PROVE  Loaded(content) \in Config
BY OverlayIsConfig, EnvAssumption DEF Loaded

\* The function PUT passes to Update keeps a configuration one.
LEMMA MergeIsConfig ==
  ASSUME NEW c \in Config, NEW dto \in ConfigDTO, Valid(dto)
  PROVE  Merge(c, dto) \in Config
BY DEF Config, ConfigDTO, Valid, Merge

\* Saving and loading gives back every setting that is not empty.
LEMMA LoadOfSave ==
  ASSUME NEW c \in Config, NEW f \in Fields, c[f] # Empty
  PROVE  Loaded(Persisted(c))[f] = c[f]
<1>1. Loaded(Persisted(c)) = Overlay(Persisted(c))
  BY PersistedIsDoc DEF Loaded
<1>2. f \in DOMAIN Persisted(c) /\ Persisted(c)[f] = c[f]
  BY DEF Persisted
<1>3. CASE f = "port"
  BY <1>1, <1>2, <1>3 DEF Overlay
<1>4. CASE f = "pass"
  BY <1>1, <1>2, <1>4 DEF Overlay
<1>5. CASE f = "level"
  BY <1>1, <1>2, <1>5 DEF Overlay
<1> QED
  BY <1>3, <1>4, <1>5 DEF Fields
-------------------------------------------------------------------------------
LEMMA TypeInit == Init => TypeOK
<1> SUFFICES ASSUME Init PROVE TypeOK
  OBVIOUS
<1>1. file.config \in Contents /\ file.tmp \in Contents /\ file \in [tmp : Contents, config : Contents]
  BY DEF Init, Contents
<1>2. cfg \in Config
  BY LoadedIsConfig DEF Init
<1> QED
  BY <1>1, <1>2, EnvAssumption DEF Init, TypeOK

LEMMA TypePreserved == TypeOK /\ [Next]_storeVars => TypeOK'
<1> SUFFICES ASSUME TypeOK, [Next]_storeVars PROVE TypeOK'
  OBVIOUS
<1> USE DEF TypeOK, Contents
<1>1. ASSUME NEW h \in Handlers, PutRejected(h) PROVE TypeOK'
  BY <1>1 DEF PutRejected, Answer
<1>2. ASSUME NEW h \in Handlers, UpdateApply(h) PROVE TypeOK'
  <2>1. cfg' \in Config
    BY <1>2, MergeIsConfig DEF UpdateApply
  <2> QED
    BY <1>2, <2>1, StoreAssumption DEF UpdateApply, Step, Answer
<1>3. ASSUME NEW h \in Handlers, UpdateBump(h) PROVE TypeOK'
  BY <1>3 DEF UpdateBump, Step, Answer
<1>4. ASSUME NEW h \in Handlers, SaveSnapshot(h) PROVE TypeOK'
  BY <1>4 DEF SaveSnapshot, Step
<1>5. ASSUME NEW h \in Handlers, SaveOpen(h) PROVE TypeOK'
  BY <1>5 DEF SaveOpen, Step
<1>6. ASSUME NEW h \in Handlers, SaveWrite(h) PROVE TypeOK'
  <2>1. Persisted(snap[h]) \in Docs
    BY PersistedIsDoc
  <2>2. \A old : Overwritten(old, Persisted(snap[h])) \subseteq Contents
    BY <2>1 DEF Overwritten
  <2>3. file' \in [tmp : Contents, config : Contents]
    BY <1>6, <2>2 DEF SaveWrite
  <2> QED
    BY <1>6, <2>3 DEF SaveWrite, Step
<1>7. ASSUME NEW h \in Handlers, SaveRename(h) PROVE TypeOK'
  BY <1>7 DEF SaveRename, Step, Answer, Renamed
<1>8. ASSUME NEW h \in Handlers, SaveFails(h) PROVE TypeOK'
  BY <1>8 DEF SaveFails, Step, Answer
<1>9. CASE NewStore
  BY <1>9, LoadedIsConfig, EnvAssumption, StoreAssumption DEF NewStore
<1>10. CASE UNCHANGED storeVars
  BY <1>10 DEF storeVars
<1> QED
  BY <1>1, <1>2, <1>3, <1>4, <1>5, <1>6, <1>7, <1>8, <1>9, <1>10
  DEF Next, Put, Save

\* Every reachable state of the store, its file and its handlers is well typed,
\* however many PUT handlers of server.go overlap.
THEOREM TypeCorrect == Spec => []TypeOK
BY TypeInit, TypePreserved, PTL DEF Spec
-------------------------------------------------------------------------------
(***************************************************************************)
(* Requests that do not overlap.                                           *)
(***************************************************************************)

LEMMA SerialInit == PersistencePath /\ SerialHandlers /\ Init => SerialInv
<1> SUFFICES ASSUME PersistencePath, SerialHandlers, Init PROVE SerialInv
  OBVIOUS
<1>1. TypeOK
  BY TypeInit
<1>2. file.config \in Docs \cup {NoFile}
  BY DEF Init
<1> QED
  BY <1>1, <1>2 DEF Init, SerialInv, ConfigFileIntact, SettledOnDisk, Settled, SaveInv, SerialHandlers

LEMMA SerialPreserved ==
  PersistencePath /\ SerialHandlers /\ SerialInv /\ [Next]_storeVars => SerialInv'
<1> SUFFICES ASSUME PersistencePath, SerialHandlers, SerialInv, [Next]_storeVars
             PROVE  (ConfigFileIntact /\ SettledOnDisk /\ SaveInv)'
  BY TypePreserved DEF SerialInv
<1> USE DEF SerialInv, ConfigFileIntact, SettledOnDisk, Settled, SaveInv, TypeOK
<1>0. \A g, h \in Handlers : g = h
  BY DEF SerialHandlers
<1> DEFINE Goal == (ConfigFileIntact /\ SettledOnDisk /\ SaveInv)'
<1>1. ASSUME NEW h \in Handlers, PutRejected(h) PROVE Goal
  BY <1>0, <1>1 DEF PutRejected, Answer
<1>2. ASSUME NEW h \in Handlers, UpdateApply(h) PROVE Goal
  BY <1>0, <1>2 DEF UpdateApply, Step, Answer
<1>3. ASSUME NEW h \in Handlers, UpdateBump(h) PROVE Goal
  BY <1>0, <1>3 DEF UpdateBump, Step, Answer
<1>4. ASSUME NEW h \in Handlers, SaveSnapshot(h) PROVE Goal
  BY <1>0, <1>4 DEF SaveSnapshot, Step
<1>5. ASSUME NEW h \in Handlers, SaveOpen(h) PROVE Goal
  BY <1>0, <1>5 DEF SaveOpen, Step
<1>6. ASSUME NEW h \in Handlers, SaveWrite(h) PROVE Goal
  <2>1. /\ pc[h] = "write" /\ fd[h] = "tmp" /\ snap[h] = cfg
        /\ file["tmp"] = Truncated
    BY <1>6 DEF SaveWrite, Step
  <2>2. Overwritten(Truncated, Persisted(cfg)) = {Persisted(cfg)}
    BY StoreAssumption DEF Overwritten
  <2>3. file' = [file EXCEPT !.tmp = Persisted(cfg)]
    BY <1>6, <2>1, <2>2 DEF SaveWrite
  <2> QED
    BY <1>0, <1>6, <2>1, <2>3 DEF SaveWrite, Step
<1>7. ASSUME NEW h \in Handlers, SaveRename(h) PROVE Goal
  <2>1. file.tmp = Persisted(cfg) /\ Persisted(cfg) \in Docs /\ file.tmp # NoFile
    BY <1>7, PersistedIsDoc, StoreAssumption DEF SaveRename, Step
  <2> QED
    BY <1>0, <1>7, <2>1 DEF SaveRename, Step, Answer, Renamed
<1>8. ASSUME NEW h \in Handlers, SaveFails(h) PROVE Goal
  BY <1>0, <1>8 DEF SaveFails, Step, Answer
<1>9. CASE NewStore
  BY <1>0, <1>9 DEF NewStore, SerialHandlers
<1>10. CASE UNCHANGED storeVars
  BY <1>10 DEF storeVars
<1> QED
  BY <1>1, <1>2, <1>3, <1>4, <1>5, <1>6, <1>7, <1>8, <1>9, <1>10
  DEF Next, Put, Save

\* The inductive invariant of a store with a path whose requests do not overlap.
THEOREM SerialCorrect ==
  ASSUME PersistencePath, SerialHandlers
  PROVE  Spec => []SerialInv
<1>1. Init => SerialInv
  BY SerialInit
<1>2. SerialInv /\ [Next]_storeVars => SerialInv'
  BY SerialPreserved
<1> QED
  BY <1>1, <1>2, PTL DEF Spec

\* saveFile's write-then-rename: whenever the process is killed, the file is
\* absent or a complete document.
THEOREM CrashSafe ==
  ASSUME PersistencePath, SerialHandlers
  PROVE  Spec => []ConfigFileIntact
<1>1. SerialInv => ConfigFileIntact
  BY DEF SerialInv
<1> QED
  BY <1>1, SerialCorrect, PTL

\* An answer 200 of PUT /api/config means that the file holds the settings in use.
THEOREM AcknowledgedIsSaved ==
  ASSUME PersistencePath, SerialHandlers
  PROVE  Spec => []SettledOnDisk
<1>1. SerialInv => SettledOnDisk
  BY DEF SerialInv
<1> QED
  BY <1>1, SerialCorrect, PTL

\* And a process started then has every setting that is not empty.
THEOREM AcknowledgedSurvivesRestart ==
  ASSUME PersistencePath, SerialHandlers
  PROVE  Spec => []RestartKeepsNonEmpty
<1>1. SerialInv => RestartKeepsNonEmpty
  BY LoadOfSave DEF SerialInv, TypeOK, SettledOnDisk, RestartKeepsNonEmpty
<1> QED
  BY <1>1, SerialCorrect, PTL
-------------------------------------------------------------------------------
(***************************************************************************)
(* The refinement.                                                         *)
(***************************************************************************)

\* DurableSettings, instantiated, speaks of the same data.
LEMMA SameData ==
  /\ Durable!Config = Config
  /\ Durable!Docs = Docs
  /\ \A c : Durable!Persisted(c) = Persisted(c)
  /\ \A doc : Durable!Overlay(doc) = Overlay(doc)
<1>1. Durable!Config = Config
  BY DEF Durable!Config, Config, Durable!Empty, Empty
<1>2. \A c : Durable!Persisted(c) = Persisted(c)
  BY DEF Durable!Persisted, Persisted, Durable!Fields, Fields, Durable!Empty, Empty
<1>3. Durable!Docs = Docs
  BY <1>1, <1>2 DEF Durable!Docs, Docs
<1>4. \A doc : Durable!Overlay(doc) = Overlay(doc)
  BY DEF Durable!Overlay, Overlay
<1> QED
  BY <1>1, <1>2, <1>3, <1>4

LEMMA ResumeIsLoaded ==
  ASSUME ConfigFileIntact
  PROVE  Durable!Resume(file.config) = Loaded(file.config)
BY StoreAssumption, SameData DEF Durable!Resume, Loaded, ConfigFileIntact

LEMMA DurableInit == SerialHandlers /\ PersistencePath /\ Init => Durable!Init
<1> SUFFICES ASSUME SerialHandlers, PersistencePath, Init PROVE Durable!Init
  OBVIOUS
<1>1. ConfigFileIntact
  BY DEF Init, ConfigFileIntact
<1>2. Settled = FALSE
  BY DEF Init, Settled, SerialHandlers
<1> QED
  BY <1>1, <1>2, ResumeIsLoaded, SameData DEF Init, Durable!Init, ConfigFileIntact

LEMMA DurableStep ==
  PersistencePath /\ SerialHandlers /\ SerialInv /\ [Next]_storeVars
    => [Durable!Next]_Durable!vars
<1> SUFFICES ASSUME PersistencePath, SerialHandlers, SerialInv, [Next]_storeVars
             PROVE  [Durable!Next]_Durable!vars
  OBVIOUS
<1>0. PICK h \in Handlers : Handlers = {h}
  BY DEF SerialHandlers
<1>a. SerialInv'
  BY SerialPreserved
<1> DEFINE Saved(g) == pc[g] = "idle" /\ reply[g] = "ok"
<1>b. Settled \in BOOLEAN /\ Settled' \in BOOLEAN /\ (Settled <=> Saved(h)) /\ (Settled' <=> Saved(h)')
  BY <1>0 DEF Settled
<1> USE DEF Durable!Next, Durable!vars
<1>1. CASE PutRejected(h)
  <2>1. Settled' = FALSE
    BY <1>1, <1>b DEF PutRejected, Answer, SerialInv, TypeOK
  <2> QED
    BY <1>1, <2>1, <1>a, SameData DEF PutRejected, Durable!Change, SerialInv, TypeOK
<1>2. CASE UpdateApply(h)
  <2>1. Settled' = FALSE
    BY <1>2, <1>b DEF UpdateApply, Step, SerialInv, TypeOK
  <2> QED
    BY <1>2, <2>1, <1>a, SameData DEF UpdateApply, Durable!Change, SerialInv, TypeOK
<1>3. CASE UpdateBump(h) \/ SaveSnapshot(h) \/ SaveOpen(h) \/ SaveWrite(h)
  <2>1. Settled = FALSE /\ Settled' = FALSE
    BY <1>3, <1>b DEF UpdateBump, SaveSnapshot, SaveOpen, SaveWrite, Step, SerialInv, TypeOK
  <2>2. file'.config = file.config
    BY <1>3 DEF UpdateBump, SaveSnapshot, SaveOpen, SaveWrite, Step, SerialInv, TypeOK, SaveInv
  <2> QED
    BY <1>3, <2>1, <2>2 DEF UpdateBump, SaveSnapshot, SaveOpen, SaveWrite
<1>4. CASE SaveRename(h)
  <2>1. file.tmp = Persisted(cfg) /\ file.tmp # NoFile
    BY <1>4, PersistedIsDoc, StoreAssumption DEF SaveRename, Step, SerialInv, TypeOK, SaveInv
  <2>2. Settled' = TRUE
    BY <1>4, <1>b, <2>1 DEF SaveRename, Step, Answer, SerialInv, TypeOK
  <2>3. Durable!Save
    BY <1>4, <2>1, <2>2, SameData DEF SaveRename, Durable!Save
  <2> QED
    BY <2>3
<1>5. CASE SaveFails(h)
  <2>1. Settled = FALSE /\ Settled' = FALSE
    BY <1>5, <1>b DEF SaveFails, Step, Answer, SerialInv, TypeOK
  <2>2. file'.config = file.config
    BY <1>5 DEF SaveFails, SerialInv, TypeOK, SaveInv
  <2> QED
    BY <1>5, <2>1, <2>2 DEF SaveFails
<1>6. CASE NewStore
  <2>1. Settled' = FALSE
    BY <1>6, <1>b DEF NewStore
  <2>2. cfg' = Durable!Resume(file.config)
    BY <1>6, ResumeIsLoaded DEF NewStore, SerialInv
  <2>3. Durable!Restart
    BY <1>6, <2>1, <2>2 DEF NewStore, Durable!Restart
  <2> QED
    BY <2>3
<1>7. CASE UNCHANGED storeVars
  BY <1>7 DEF storeVars, Settled
<1> QED
  BY <1>0, <1>1, <1>2, <1>3, <1>4, <1>5, <1>6, <1>7 DEF Next, Put, Save

\* Update and saveFile, step by step and with crashes, do what the one-step
\* durable store does.
THEOREM StoreIsDurable ==
  ASSUME PersistencePath, SerialHandlers
  PROVE  Spec => ImplementsDurable
<1>1. Init => Durable!Init
  BY DurableInit
<1>2. SerialInv /\ [Next]_storeVars => [Durable!Next]_Durable!vars
  BY DurableStep
<1> QED
  BY <1>1, <1>2, SerialCorrect, PTL DEF Spec, ImplementsDurable, Durable!Spec
===============================================================================
