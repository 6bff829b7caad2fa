----------------------------- MODULE StateStore -----------------------------
(***************************************************************************)
(* JsonStateStore (storage/store.rs, snapshot.rs, migration.rs) and the    *)
(* callers that reach it through StateAccessGate (application/             *)
(* state_access.rs): load and save as the sequences of file replacements   *)
(* they are, cut by I/O errors and by the death of the process at every    *)
(* point, over a disk that may lose a file at rest.                        *)
(*                                                                         *)
(* A caller enters the gate, loads, and either leaves with what it read or *)
(* saves.  A change computed from an earlier read (an activation, a        *)
(* document save) is committed only if the load in the committing section  *)
(* returns what the change was computed from.                              *)
(***************************************************************************)
CONSTANTS
  Callers,      \* application threads that use the gate
  Values,       \* valid application states
  None          \* no state, no caller

ASSUME NoneAssumption == None \notin Values /\ None \notin Callers

VARIABLES
  file,         \* the content of state.json and its siblings
  tmp,          \* the content of the temporary file being written
  stage,        \* how far atomic_replace is
  pc,           \* control point inside the gate
  holder,       \* the caller inside the gate
  mode,         \* what the holder came for: to read or to commit
  writing,      \* the state the store is writing
  loaded,       \* what the load of this section returned
  basis         \* per caller: the state its pending change was computed from

vars == <<file, tmp, stage, pc, holder, mode, writing, loaded, basis>>

-----------------------------------------------------------------------------
(* Files *)

Files == {"state", "bak", "pre-migration", "corrupt"}

\* What decode() makes of a file: "older" migrates to the value, "foreign" is
\* an error that is not recoverable (another version, a failed migration),
\* "damaged" one that is.
Schemas == {"absent", "current", "older", "foreign", "damaged"}
Content == [schema: Schemas, value: Values \cup {None}]

Absent     == [schema |-> "absent", value |-> None]
Damaged    == [schema |-> "damaged", value |-> None]
Foreign    == [schema |-> "foreign", value |-> None]
Current(v) == [schema |-> "current", value |-> v]
Older(v)   == [schema |-> "older", value |-> v]

Exists(f)    == file[f].schema # "absent"
Decodable(c) == c.schema \in {"current", "older"}

\* The state a file holds, None if it does not decode.
Decode(c) == IF Decodable(c) THEN c.value ELSE None

\* What a load would return now.
Loadable == IF file["state"].schema \in {"absent", "damaged"}
            THEN Decode(file["bak"]) ELSE Decode(file["state"])

-----------------------------------------------------------------------------
(* Control points: one per atomic_replace, and the two where nothing is written *)

Writes == {"preserve_old", "backup_old", "write_migrated", "preserve_damaged",
           "write_recovered", "backup", "write"}
PCs == Writes \cup {"idle", "entered", "loaded"}

Target(p) ==
  CASE p = "preserve_old"     -> "pre-migration"
    [] p = "preserve_damaged" -> "corrupt"
    [] p \in {"backup_old", "backup"} -> "bak"
    [] p \in {"write_migrated", "write_recovered", "write"} -> "state"

\* copy_for_backup copies state.json as it is; the others write the value.
Written(p) == IF Target(p) = "state" THEN Current(writing) ELSE file["state"]

TypeOK ==
  /\ file \in [Files -> Content]
  /\ tmp \in Content
  /\ stage \in {"create", "sync", "rename"}
  /\ pc \in PCs
  /\ holder \in Callers \cup {None}
  /\ mode \in {"read", "commit"}
  /\ writing \in Values \cup {None}
  /\ loaded \in Values \cup {None}
  /\ basis \in [Callers -> Values \cup {None}]

-----------------------------------------------------------------------------
(* The gate *)

\* try_lock succeeds only when nobody is inside; otherwise the caller gets Busy
\* at once and nothing changes.
Enter(c, m) ==
  /\ holder = None
  /\ holder' = c
  /\ mode' = m
  /\ pc' = "entered"
  /\ UNCHANGED <<file, tmp, stage, writing, loaded, basis>>

\* The caller leaves; its pending change is based on b from now on.
Leave(b) ==
  /\ pc' = "idle"
  /\ stage' = "create"
  /\ holder' = None
  /\ writing' = None
  /\ loaded' = None
  /\ basis' = [basis EXCEPT ![holder] = b]
  /\ UNCHANGED mode

-----------------------------------------------------------------------------
(* load *)

\* Neither the state nor a backup exists: a caller that may start from an empty
\* state goes on, the others fail (LoadFails).
LoadNothing ==
  /\ pc = "entered"
  /\ ~Exists("state") /\ ~Exists("bak")
  /\ pc' = "loaded"
  /\ loaded' = None
  /\ UNCHANGED <<file, tmp, stage, holder, mode, writing, basis>>

LoadCurrent ==
  /\ pc = "entered"
  /\ file["state"].schema = "current"
  /\ pc' = "loaded"
  /\ loaded' = file["state"].value
  /\ UNCHANGED <<file, tmp, stage, holder, mode, writing, basis>>

\* Mutant: the migrated state is written without the pre-migration copy.
LoadMigrates_NoCopy ==
  /\ pc = "entered"
  /\ file["state"].schema = "older"
  /\ pc' = "backup_old"
  /\ writing' = file["state"].value
  /\ UNCHANGED <<file, tmp, stage, holder, mode, loaded, basis>>

\* An older schema: keep a copy, back it up, write the migrated state.
LoadMigrates ==
  /\ pc = "entered"
  /\ file["state"].schema = "older"
  /\ pc' = "preserve_old"
  /\ writing' = file["state"].value
  /\ UNCHANGED <<file, tmp, stage, holder, mode, loaded, basis>>

\* A damaged file: keep a copy of it, then recover from the backup.
LoadRecovers ==
  /\ pc = "entered"
  /\ file["state"].schema = "damaged"
  /\ pc' = "preserve_damaged"
  /\ UNCHANGED <<file, tmp, stage, holder, mode, writing, loaded, basis>>

\* The file is missing but a backup exists.
LoadRestores ==
  /\ pc = "entered"
  /\ ~Exists("state")
  /\ Decodable(file["bak"])
  /\ pc' = "write_recovered"
  /\ writing' = file["bak"].value
  /\ UNCHANGED <<file, tmp, stage, holder, mode, loaded, basis>>

\* No valid backup, another version, a read error: an error, and no change.
LoadFails ==
  /\ pc = "entered"
  /\ Leave(None)
  /\ UNCHANGED <<file, tmp>>

-----------------------------------------------------------------------------
(* atomic_replace *)

CreateTemporary ==
  /\ pc \in Writes
  /\ stage = "create"
  /\ tmp' = Damaged
  /\ stage' = "sync"
  /\ UNCHANGED <<file, pc, holder, mode, writing, loaded, basis>>

\* write_all and sync_all
SyncTemporary ==
  /\ pc \in Writes
  /\ stage = "sync"
  /\ tmp' = Written(pc)
  /\ stage' = "rename"
  /\ UNCHANGED <<file, pc, holder, mode, writing, loaded, basis>>

\* Where the store goes after a replacement: to the next one, or back to the
\* caller with the loaded state, or out of the gate.
AfterRename ==
  \/ /\ pc \in {"preserve_old", "backup_old", "backup"}
     /\ pc' = CASE pc = "preserve_old" -> "backup_old"
                [] pc = "backup_old"   -> "write_migrated"
                [] pc = "backup"       -> "write"
     /\ UNCHANGED <<holder, mode, writing, loaded, basis>>
  \/ /\ pc = "preserve_damaged"
     /\ Decodable(file["bak"])
     /\ pc' = "write_recovered"
     /\ writing' = file["bak"].value
     /\ UNCHANGED <<holder, mode, loaded, basis>>
  \/ /\ pc = "preserve_damaged"
     /\ ~Decodable(file["bak"])
     /\ Leave(None)
  \/ /\ pc \in {"write_migrated", "write_recovered"}
     /\ pc' = "loaded"
     /\ loaded' = writing
     /\ writing' = None
     /\ UNCHANGED <<holder, mode, basis>>
  \/ /\ pc = "write"
     /\ Leave(None)

\* Mutant: the temporary file is renamed before it is written and synced.
Rename_Unsynced ==
  /\ pc \in Writes
  /\ stage \in {"sync", "rename"}
  /\ file' = [file EXCEPT ![Target(pc)] = tmp]
  /\ tmp' = Absent
  /\ stage' = "create"
  /\ AfterRename

Rename ==
  /\ pc \in Writes
  /\ stage = "rename"
  /\ file' = [file EXCEPT ![Target(pc)] = tmp]
  /\ tmp' = Absent
  /\ stage' = "create"
  /\ AfterRename

\* Mutant: a replacement that fails leaves a torn target.
ReplaceFails_Torn ==
  /\ pc \in Writes
  /\ stage # "create"
  /\ file' = [file EXCEPT ![Target(pc)] = Damaged]
  /\ tmp' = Absent
  /\ Leave(None)

\* Creating, writing, syncing or renaming fails: an error to the caller.
ReplaceFails ==
  /\ pc \in Writes
  /\ \/ stage \in {"create", "sync"} /\ UNCHANGED tmp
     \/ stage = "rename" /\ tmp' = Absent
  /\ Leave(None)
  /\ UNCHANGED file

-----------------------------------------------------------------------------
(* What a caller does with the loaded state *)

\* It only wanted to read, or to compute a change to commit later.
Read ==
  /\ pc = "loaded"
  /\ mode = "read"
  /\ Leave(loaded)
  /\ UNCHANGED <<file, tmp>>

\* The state is no longer the one the change was computed from.
Conflict ==
  /\ pc = "loaded"
  /\ mode = "commit"
  /\ basis[holder] \notin {None, loaded}
  /\ Leave(None)
  /\ UNCHANGED <<file, tmp>>

\* Mutant: the committing section does not compare what it loaded.
Save_Blind(v) ==
  /\ pc = "loaded"
  /\ mode = "commit"
  /\ writing' = v
  /\ basis' = [basis EXCEPT ![holder] = IF @ = None THEN loaded ELSE @]
  /\ pc' = IF Exists("state") THEN "backup" ELSE "write"
  /\ UNCHANGED <<file, tmp, stage, holder, mode, loaded>>

\* Mutant: the current file is overwritten without a backup.
Save_NoBackup(v) ==
  /\ pc = "loaded"
  /\ mode = "commit"
  /\ basis[holder] \in {None, loaded}
  /\ writing' = v
  /\ basis' = [basis EXCEPT ![holder] = loaded]
  /\ pc' = "write"
  /\ UNCHANGED <<file, tmp, stage, holder, mode, loaded>>

\* save of a valid state.  A change computed in this section has no older basis.
Save(v) ==
  /\ pc = "loaded"
  /\ mode = "commit"
  /\ basis[holder] \in {None, loaded}
  /\ writing' = v
  /\ basis' = [basis EXCEPT ![holder] = loaded]
  /\ pc' = IF Exists("state") THEN "backup" ELSE "write"
  /\ UNCHANGED <<file, tmp, stage, holder, mode, loaded>>

\* Nothing to change, a rejected mutation, an exit that was requested meanwhile.
GiveUp ==
  /\ pc = "loaded"
  /\ mode = "commit"
  /\ Leave(None)
  /\ UNCHANGED <<file, tmp>>

-----------------------------------------------------------------------------
(* The environment *)

\* The process dies: the gate and every pending change are gone, the files stay.
Crash ==
  /\ pc' = "idle"
  /\ stage' = "create"
  /\ holder' = None
  /\ writing' = None
  /\ loaded' = None
  /\ basis' = [c \in Callers |-> None]
  /\ UNCHANGED <<file, tmp, mode>>

\* A file is lost or damaged at rest.  One at a time: the backup only while
\* the state is readable, the state only while the backup is not damaged.
LoseFile(f, c) ==
  /\ pc = "idle"
  /\ Exists(f)
  /\ IF f = "state" THEN file["bak"].schema # "damaged"
                    ELSE f = "bak" /\ Decodable(file["state"])
  /\ file' = [file EXCEPT ![f] = c]
  /\ UNCHANGED <<tmp, stage, pc, holder, mode, writing, loaded, basis>>

-----------------------------------------------------------------------------
\* Any files an earlier run, an earlier or a later version may have left.
Init ==
  /\ \E s, b \in {Absent, Foreign} \cup {Current(v) : v \in Values}
                                   \cup {Older(v) : v \in Values} :
       file = [f \in Files |-> CASE f = "state" -> s [] f = "bak" -> b [] OTHER -> Absent]
  /\ tmp = Absent
  /\ stage = "create"
  /\ pc = "idle"
  /\ holder = None
  /\ mode = "read"
  /\ writing = None
  /\ loaded = None
  /\ basis = [c \in Callers |-> None]

Load == LoadNothing \/ LoadCurrent \/ LoadMigrates \/ LoadRecovers \/ LoadRestores \/ LoadFails

AtomicReplace == CreateTemporary \/ SyncTemporary \/ Rename \/ ReplaceFails

Use == Read \/ Conflict \/ GiveUp \/ \E v \in Values : Save(v)

Next ==
  \/ \E c \in Callers, m \in {"read", "commit"} : Enter(c, m)
  \/ Load
  \/ AtomicReplace
  \/ Use
  \/ Crash
  \/ \E f \in {"state", "bak"}, c \in {Absent, Damaged} : LoseFile(f, c)

Spec == Init /\ [][Next]_vars

-----------------------------------------------------------------------------
(* What the store promises *)

\* Inside the gate, what the next load returns changes in one step only, the
\* last rename of a save, and then to the saved state.  An I/O error or a crash
\* anywhere in a save, a migration or a recovery leaves the last valid state.
LastValidStateSurvives ==
  [][ pc # "idle" =>
        IF pc = "write" /\ file' # file THEN Loadable' = writing
                                       ELSE Loadable' = Loadable ]_vars

\* A change is never saved over a state other than the one it was computed from,
\* even when the two sections of its caller were interleaved with others.
NoLostUpdate ==
  [][ (pc = "write" /\ file' # file) => basis[holder] = Loadable ]_vars

\* state.json of an older schema, or a damaged one, is replaced only after its
\* original content has been copied aside.
OriginalIsKept ==
  [][ (pc # "idle" /\ file'["state"] # file["state"]) =>
        /\ file["state"].schema = "older"   => file["pre-migration"] = file["state"]
        /\ file["state"].schema = "damaged" => file["corrupt"] = file["state"] ]_vars

\* No failure, no crash and no other caller takes away what was stored: the last valid
\* state, an update, or the original of a file that is replaced.
NothingStoredIsLost == LastValidStateSurvives /\ NoLostUpdate /\ OriginalIsKept

Durable == INSTANCE DurableState WITH
  value    <- Loadable,
  previous <- Decode(file["bak"])

\* To its callers the store is one durable value: it is replaced only after it
\* has been copied, and a lost file costs at most the last save.
ImplementsDurableState == Durable!Spec

-----------------------------------------------------------------------------
(* The inductive invariant *)

GateFacts ==
  /\ pc = "idle" <=> holder = None
  /\ pc \notin Writes => stage = "create"
  /\ stage = "rename" => tmp = Written(pc)

\* A file has a value exactly if it decodes.
FileFacts ==
  \A f \in Files : file[f].value # None <=> Decodable(file[f])

LoadFacts ==
  /\ pc \in {"preserve_old", "backup_old", "write_migrated"} =>
       /\ file["state"] = Older(writing) /\ writing # None
       /\ pc # "preserve_old" => file["pre-migration"] = file["state"]
       /\ pc = "write_migrated" => file["bak"] = file["state"]
  /\ pc = "preserve_damaged" => file["state"].schema = "damaged"
  /\ pc = "write_recovered" =>
       /\ file["state"].schema \in {"absent", "damaged"}
       /\ Decode(file["bak"]) = writing /\ writing # None
       /\ file["state"].schema = "damaged" => file["corrupt"].schema = "damaged"
  /\ pc = "loaded" =>
       IF loaded = None THEN ~Exists("state") /\ ~Exists("bak")
                        ELSE file["state"] = Current(loaded)

SaveFacts ==
  /\ pc \in {"backup", "write"} => basis[holder] = loaded /\ writing # None
  /\ pc = "backup" => file["state"] = Current(loaded) /\ loaded # None
  /\ pc = "write" =>
       IF loaded = None THEN ~Exists("state") /\ ~Exists("bak")
                        ELSE file["state"] = Current(loaded) /\ file["bak"] = file["state"]

IInv ==
  /\ TypeOK
  /\ GateFacts
  /\ FileFacts
  /\ LoadFacts
  /\ SaveFacts
=============================================================================
