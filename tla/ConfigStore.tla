----------------------------- MODULE ConfigStore -----------------------------
(***************************************************************************)
(* internal/config/store.go: the configuration every goroutine shares, its *)
(* version counter and its file, together with PUT /api/config, the only   *)
(* caller of Update (internal/web/server.go).                              *)
(*                                                                         *)
(* net/http serves each request in a goroutine of its own, so several PUT  *)
(* handlers run Update at once.  Update holds the mutex only while it      *)
(* replaces cfg; the version, the snapshot saveFile takes and every file   *)
(* operation come after the unlock.  The steps between which another       *)
(* goroutine, or the end of the process, can be observed are the actions.  *)
(***************************************************************************)
EXTENDS Settings

CONSTANTS
  Handlers,        \* the goroutines that may serve PUT at the same time
  PersistencePath, \* TRUE iff the store has a path (s.path # "")
  MaxUpdates,      \* bound: updates applied over all process lifetimes
  MaxBoots,        \* bound: restarts of the process
  NoFile,          \* content of a name that does not exist
  Truncated,       \* content of a file opened with O_TRUNC, nothing written
  Torn             \* content that is no complete document

ASSUME StoreAssumption ==
  /\ PersistencePath \in BOOLEAN
  /\ MaxUpdates \in Nat /\ MaxBoots \in Nat
  /\ NoFile \notin Docs /\ Truncated \notin Docs /\ Torn \notin Docs
  /\ NoFile # Truncated /\ NoFile # Torn /\ Truncated # Torn

VARIABLES
  cfg,      \* Store.cfg
  version,  \* Store.version
  pc,       \* where each handler is in Update and saveFile
  snap,     \* saveFile's copy of the configuration, per handler
  fd,       \* the file each handler has open: which name it is now reached by
  file,     \* what the names path ("config") and path+".tmp" ("tmp") hold
  reply,    \* the last HTTP answer of each handler
  updates,  \* updates applied so far, for the bound
  boots     \* restarts so far

storeVars == <<cfg, version, pc, snap, fd, file, reply, updates, boots>>

Contents == Docs \cup {NoFile, Truncated, Torn}

TypeOK ==
  /\ cfg \in Config
  /\ version \in Nat
  /\ pc \in [Handlers -> {"idle", "bump", "snapshot", "open", "write", "rename"}]
  /\ snap \in [Handlers -> Config]
  /\ fd \in [Handlers -> {"none", "tmp", "config", "gone"}]
  /\ file \in [tmp : Contents, config : Contents]
  /\ reply \in [Handlers -> {"none", "ok", "rejected", "failed"}]
  /\ updates \in Nat
  /\ boots \in Nat

-------------------------------------------------------------------------------
\* NewStore: environment first, then the file if it is there and parses (an
\* error of loadFile is dropped).
Loaded(content) == IF content \in Docs THEN Overlay(content) ELSE Env

Init ==
  /\ file \in [tmp : {NoFile},
               config : IF PersistencePath THEN Docs \cup {NoFile} ELSE {NoFile}]
  /\ cfg = Loaded(file.config)
  /\ version = 0
  /\ pc = [h \in Handlers |-> "idle"]
  /\ snap = [h \in Handlers |-> Env]
  /\ fd = [h \in Handlers |-> "none"]
  /\ reply = [h \in Handlers |-> "none"]
  /\ updates = 0
  /\ boots = 0

Step(h, from, to) == pc[h] = from /\ pc' = [pc EXCEPT ![h] = to]

Answer(h, r) == reply' = [reply EXCEPT ![h] = r]

-------------------------------------------------------------------------------
(***************************************************************************)
(* PUT /api/config and Store.Update.                                       *)
(***************************************************************************)

\* A body the validation refuses is answered 400 and changes nothing.
PutRejected(h) ==
  /\ pc[h] = "idle"
  /\ \E dto \in ConfigDTO : ~Valid(dto)
  /\ Answer(h, "rejected")
  /\ UNCHANGED <<cfg, version, pc, snap, fd, file, updates, boots>>

\* Update's critical section: lock, fn applied to a copy of cfg, cfg replaced, unlock.
UpdateApply(h) ==
  /\ updates < MaxUpdates
  /\ Step(h, "idle", "bump")
  /\ \E dto \in ConfigDTO : Valid(dto) /\ cfg' = Merge(cfg, dto)
  /\ updates' = updates + 1
  /\ Answer(h, "none")
  /\ UNCHANGED <<version, snap, fd, file, boots>>

\* Mutant of UpdateBump: the version is not incremented.
UpdateBump_Forgotten(h) ==
  /\ \/ PersistencePath /\ Step(h, "bump", "snapshot") /\ UNCHANGED reply
     \/ ~PersistencePath /\ Step(h, "bump", "idle") /\ Answer(h, "ok")
  /\ UNCHANGED <<cfg, version, snap, fd, file, updates, boots>>

\* version.Add(1), and the end of Update when the store has no path.
UpdateBump(h) ==
  /\ version' = version + 1
  /\ \/ PersistencePath /\ Step(h, "bump", "snapshot") /\ UNCHANGED reply
     \/ ~PersistencePath /\ Step(h, "bump", "idle") /\ Answer(h, "ok")
  /\ UNCHANGED <<cfg, snap, fd, file, updates, boots>>

-------------------------------------------------------------------------------
(***************************************************************************)
(* saveFile.                                                               *)
(***************************************************************************)

\* The copy of cfg under the read lock, and its marshalling.
SaveSnapshot(h) ==
  /\ Step(h, "snapshot", "open")
  /\ snap' = [snap EXCEPT ![h] = cfg]
  /\ UNCHANGED <<cfg, version, fd, file, reply, updates, boots>>

\* Mutant of SaveOpen: the document is written straight to path.
SaveOpen_InPlace(h) ==
  /\ Step(h, "open", "write")
  /\ file' = [file EXCEPT !.config = Truncated]
  /\ fd' = [fd EXCEPT ![h] = "config"]
  /\ UNCHANGED <<cfg, version, snap, reply, updates, boots>>

\* os.WriteFile opens path+".tmp" with O_CREATE and O_TRUNC.  All handlers use
\* the one name, so a file another handler is still writing is truncated.
SaveOpen(h) ==
  /\ Step(h, "open", "write")
  /\ file' = [file EXCEPT !.tmp = Truncated]
  /\ fd' = [fd EXCEPT ![h] = "tmp"]
  /\ UNCHANGED <<cfg, version, snap, reply, updates, boots>>

\* What a file holding old can hold once doc is written from its start: a
\* longer document's tail stays behind.
Overwritten(old, doc) ==
  IF old \in (Docs \ {doc}) \cup {Torn} THEN {doc, Torn} ELSE {doc}

\* The write and close of os.WriteFile, to the file h has open whatever its
\* name has become.
SaveWrite(h) ==
  /\ Step(h, "write", "rename")
  /\ IF fd[h] \in {"tmp", "config"}
     THEN \E c \in Overwritten(file[fd[h]], Persisted(snap[h])) :
            file' = [file EXCEPT ![fd[h]] = c]
     ELSE UNCHANGED file
  /\ fd' = [fd EXCEPT ![h] = "none"]
  /\ UNCHANGED <<cfg, version, snap, reply, updates, boots>>

\* Who has which file open once path+".tmp" has become path.
Renamed(f) == CASE f = "tmp" -> "config"
                [] f = "config" -> "gone"
                [] OTHER -> f

\* os.Rename(tmp, path); without a tmp file it is an error.
SaveRename(h) ==
  /\ Step(h, "rename", "idle")
  /\ IF file.tmp # NoFile
     THEN /\ file' = [tmp |-> NoFile, config |-> file.tmp]
          /\ fd' = [g \in Handlers |-> Renamed(fd[g])]
          /\ Answer(h, "ok")
     ELSE /\ Answer(h, "failed")
          /\ UNCHANGED <<file, fd>>
  /\ UNCHANGED <<cfg, version, snap, updates, boots>>

\* Mutant of SaveFails: the error of a failed save is dropped.
SaveFails_Ignored(h) ==
  /\ \E from \in {"open", "write", "rename"} : Step(h, from, "idle")
  /\ fd' = [fd EXCEPT ![h] = "none"]
  /\ Answer(h, "ok")
  /\ UNCHANGED <<cfg, version, snap, file, updates, boots>>

\* MkdirAll, WriteFile or Rename returns an error: saveFile gives up and the
\* handler answers 500.  A failed write may leave part of the document behind.
SaveFails(h) ==
  /\ \E from \in {"open", "write", "rename"} : Step(h, from, "idle")
  /\ \/ UNCHANGED file
     \/ /\ pc[h] = "write" /\ fd[h] \in {"tmp", "config"}
        /\ file' = [file EXCEPT ![fd[h]] = Torn]
  /\ fd' = [fd EXCEPT ![h] = "none"]
  /\ Answer(h, "failed")
  /\ UNCHANGED <<cfg, version, snap, updates, boots>>

-------------------------------------------------------------------------------
\* Mutant of NewStore: a leftover path+".tmp" is preferred to path.
NewStore_FromTmp ==
  /\ boots < MaxBoots
  /\ boots' = boots + 1
  /\ cfg' = Loaded(IF file.tmp # NoFile THEN file.tmp ELSE file.config)
  /\ version' = 0
  /\ pc' = [h \in Handlers |-> "idle"]
  /\ snap' = [h \in Handlers |-> Env]
  /\ fd' = [h \in Handlers |-> "none"]
  /\ reply' = [h \in Handlers |-> "none"]
  /\ UNCHANGED <<file, updates>>

\* The process ends at any point and a new one runs NewStore: the memory and
\* the open files are gone, the names and their contents are what they were.
NewStore ==
  /\ boots < MaxBoots
  /\ boots' = boots + 1
  /\ cfg' = Loaded(file.config)
  /\ version' = 0
  /\ pc' = [h \in Handlers |-> "idle"]
  /\ snap' = [h \in Handlers |-> Env]
  /\ fd' = [h \in Handlers |-> "none"]
  /\ reply' = [h \in Handlers |-> "none"]
  /\ UNCHANGED <<file, updates>>

Save(h) == SaveSnapshot(h) \/ SaveOpen(h) \/ SaveWrite(h) \/ SaveRename(h) \/ SaveFails(h)

Put(h) == PutRejected(h) \/ UpdateApply(h) \/ UpdateBump(h) \/ Save(h)

Next == NewStore \/ \E h \in Handlers : Put(h)

Spec == Init /\ [][Next]_storeVars

-------------------------------------------------------------------------------
(***************************************************************************)
(* Properties.                                                             *)
(***************************************************************************)

\* Requests never overlap: one handler at a time, as when one client waits for
\* each answer.
SerialHandlers == \E h : Handlers = {h}

\* Every handler has answered, and its last answer was 200.
Settled == \A h \in Handlers : pc[h] = "idle" /\ reply[h] = "ok"

\* The configuration file is absent or one complete document at every moment,
\* so also whenever the process is killed in Update: saveFile's write-then-rename.
ConfigFileIntact == file.config \in Docs \cup {NoFile}

\* Once every PUT is answered 200, the file is the document of the settings in
\* use: the save of an older update never ends up as the file (saveFile, Update).
SettledOnDisk == Settled => file.config = Persisted(cfg)

\* A process started after that has every non-empty setting the old one had,
\* whatever the environment says: saveFile followed by loadFile.
RestartKeepsNonEmpty ==
  Settled => \A f \in Fields : cfg[f] # Empty => Loaded(file.config)[f] = cfg[f]

\* The same for every setting, those the user has cleared included.  README.md
\* promises it ("survive container restarts"); omitempty in persisted breaks it.
RestartKeepsSettings == Settled => Loaded(file.config) = cfg

\* Why the three hold when requests do not overlap: what a save has done so far.
SaveInv ==
  \A h \in Handlers :
    /\ fd[h] = IF pc[h] = "write" THEN "tmp" ELSE "none"
    /\ pc[h] \in {"open", "write", "rename"} => snap[h] = cfg
    /\ pc[h] = "write" => file.tmp = Truncated
    /\ pc[h] = "rename" => file.tmp = Persisted(cfg)

SerialInv == TypeOK /\ ConfigFileIntact /\ SettledOnDisk /\ SaveInv

\* Update and saveFile as a whole replace the saved settings in one step, and a
\* new process resumes from them.
Durable == INSTANCE DurableSettings
             WITH running <- cfg, saved <- file.config, acknowledged <- Settled
ImplementsDurable == Durable!Spec
===============================================================================
