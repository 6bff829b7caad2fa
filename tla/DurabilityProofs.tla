-------------------------- MODULE DurabilityProofs --------------------------
(***************************************************************************)
(* TLAPS proofs about the two things outside the process that its death    *)
(* must not damage: state.json (StateStore: IInv is inductive, the         *)
(* promises of the store follow from it, and the store implements          *)
(* DurableState) and the user's proxy setting (SystemProxy: ProxyIInv is   *)
(* inductive, the setting is kept and the core is not stopped under the    *)
(* managed one).                                                           *)
(***************************************************************************)
EXTENDS StateStore, SystemProxy, TLAPS

-----------------------------------------------------------------------------
(* state.json *)

USE NoneAssumption

\* The file each replacement goes to.
LEMMA TargetFacts ==
  /\ Target("preserve_old") = "pre-migration"
  /\ Target("preserve_damaged") = "corrupt"
  /\ Target("backup_old") = "bak" /\ Target("backup") = "bak"
  /\ Target("write_migrated") = "state" /\ Target("write_recovered") = "state"
  /\ Target("write") = "state"
BY DEF Target

\* Every content written is a content, and has a value exactly if it decodes.
LEMMA ContentFacts ==
  /\ Absent \in Content /\ Damaged \in Content /\ Foreign \in Content
  /\ Absent.schema = "absent" /\ Damaged.schema = "damaged" /\ Foreign.schema = "foreign"
  /\ Absent.value = None /\ Damaged.value = None /\ Foreign.value = None
  /\ \A v \in Values :
       /\ Current(v) \in Content /\ Older(v) \in Content
       /\ Current(v).schema = "current" /\ Current(v).value = v
       /\ Older(v).schema = "older" /\ Older(v).value = v
BY DEF Content, Schemas, Absent, Damaged, Foreign, Current, Older

\* Leaving the gate keeps the files and forgets the section.
LEMMA LeaveStep ==
  ASSUME IInv, holder # None, NEW b \in Values \cup {None}, Leave(b),
         file' \in [Files -> Content], FileFacts', tmp' \in Content
  PROVE  IInv'
<1>1. TypeOK' BY DEF IInv, TypeOK, Leave, PCs
<1>2. GateFacts' BY DEF IInv, TypeOK, GateFacts, Leave, Writes
<1>3. LoadFacts' /\ SaveFacts' BY DEF Leave, LoadFacts, SaveFacts
<1> QED BY <1>1, <1>2, <1>3 DEF IInv

LEMMA InitIInv == Init => IInv
<1> SUFFICES ASSUME Init PROVE IInv
  OBVIOUS
<1>1. PICK s, b \in {Absent, Foreign} \cup {Current(v) : v \in Values}
                                      \cup {Older(v) : v \in Values} :
        file = [f \in Files |-> CASE f = "state" -> s [] f = "bak" -> b [] OTHER -> Absent]
  BY DEF Init
<1>2. ASSUME NEW x \in {Absent, Foreign} \cup {Current(v) : v \in Values}
                                         \cup {Older(v) : v \in Values}
      PROVE  x \in Content /\ (x.value # None <=> Decodable(x))
  BY ContentFacts DEF Decodable
<1>3. Absent \in Content /\ (Absent.value # None <=> Decodable(Absent))
  BY <1>2
<1>4. file \in [Files -> Content]
  BY <1>1, <1>2, <1>3 DEF Files
<1>5. FileFacts
  BY <1>1, <1>2, <1>3 DEF FileFacts, Files
<1>6. TypeOK
  BY <1>3, <1>4 DEF Init, TypeOK, PCs
<1>7. GateFacts /\ LoadFacts /\ SaveFacts
  BY DEF Init, GateFacts, LoadFacts, SaveFacts, Writes
<1> QED BY <1>5, <1>6, <1>7 DEF IInv

LEMMA EnterStep ==
  ASSUME IInv, NEW c \in Callers, NEW m \in {"read", "commit"}, Enter(c, m)
  PROVE  IInv'
BY DEF IInv, TypeOK, GateFacts, FileFacts, LoadFacts, SaveFacts, Enter, PCs, Writes, Written,
       Exists, Decode, Decodable

LEMMA LoadStep == ASSUME IInv, Load PROVE IInv'
<1> USE DEF IInv
<1>1. holder # None /\ holder \in Callers /\ pc = "entered"
  BY DEF Load, LoadNothing, LoadCurrent, LoadMigrates, LoadRecovers, LoadRestores, LoadFails,
         GateFacts, TypeOK
<1>2. CASE LoadNothing
  BY <1>2 DEF LoadNothing, TypeOK, GateFacts, FileFacts, LoadFacts, SaveFacts, PCs, Writes,
         Exists, Decodable
<1>3. CASE LoadCurrent
  <2>1. file["state"] \in Content BY DEF TypeOK, Files
  <2>2. file["state"].value \in Values
    BY <1>3, <2>1 DEF LoadCurrent, FileFacts, Files, Decodable, Content
  <2>3. file["state"] = Current(file["state"].value)
    BY <1>3, <2>1 DEF LoadCurrent, Content, Current
  <2> QED BY <1>3, <2>2, <2>3 DEF LoadCurrent, TypeOK, GateFacts, FileFacts, LoadFacts,
         SaveFacts, PCs, Writes, Exists, Decodable
<1>4. CASE LoadMigrates
  <2>1. file["state"] \in Content BY DEF TypeOK, Files
  <2>2. file["state"].value \in Values
    BY <1>4, <2>1 DEF LoadMigrates, FileFacts, Files, Decodable, Content
  <2>3. file["state"] = Older(file["state"].value)
    BY <1>4, <2>1 DEF LoadMigrates, Content, Older
  <2> QED BY <1>4, <2>2, <2>3 DEF LoadMigrates, TypeOK, GateFacts, FileFacts, LoadFacts,
         SaveFacts, PCs, Writes, Exists, Decodable
<1>5. CASE LoadRecovers
  BY <1>5 DEF LoadRecovers, TypeOK, GateFacts, FileFacts, LoadFacts, SaveFacts, PCs, Writes,
         Exists, Decodable
<1>6. CASE LoadRestores
  <2>1. file["bak"] \in Content /\ file["bak"].value \in Values
    BY <1>6 DEF LoadRestores, TypeOK, FileFacts, Files, Content
  <2> QED BY <1>6, <2>1 DEF LoadRestores, TypeOK, GateFacts, FileFacts, LoadFacts, SaveFacts,
         PCs, Writes, Exists, Decodable, Decode
<1>7. CASE LoadFails
  <2>1. FileFacts' BY <1>7 DEF LoadFails, FileFacts, Decodable
  <2> QED BY <1>1, <1>7, <2>1, LeaveStep DEF LoadFails, TypeOK
<1> QED BY <1>2, <1>3, <1>4, <1>5, <1>6, <1>7 DEF Load

LEMMA UseStep == ASSUME IInv, Use PROVE IInv'
<1> USE DEF IInv
<1>1. holder # None /\ holder \in Callers /\ pc = "loaded"
  BY DEF Use, Read, Conflict, GiveUp, Save, GateFacts, TypeOK
<1>2. CASE Read \/ Conflict \/ GiveUp
  <2>1. FileFacts' BY <1>2 DEF Read, Conflict, GiveUp, FileFacts, Decodable
  <2> QED BY <1>1, <1>2, <2>1, LeaveStep DEF Read, Conflict, GiveUp, TypeOK
<1>3. ASSUME NEW v \in Values, Save(v) PROVE IInv'
  BY <1>1, <1>3, ContentFacts DEF Save, TypeOK, GateFacts, FileFacts, LoadFacts, SaveFacts,
     PCs, Writes, Exists, Decodable
<1> QED BY <1>2, <1>3 DEF Use

LEMMA ReplaceStep == ASSUME IInv, CreateTemporary \/ SyncTemporary \/ ReplaceFails PROVE IInv'
<1> USE DEF IInv
<1>1. holder # None /\ holder \in Callers /\ pc \in Writes
  BY DEF CreateTemporary, SyncTemporary, ReplaceFails, GateFacts, TypeOK, Writes
<1>2. CASE CreateTemporary
  BY <1>1, <1>2, ContentFacts DEF CreateTemporary, TypeOK, GateFacts, FileFacts, LoadFacts,
     SaveFacts, Exists, Decodable, Decode
<1>3. CASE SyncTemporary
  <2>1. Written(pc) \in Content
    <3>1. Target(pc) = "state" => writing \in Values
      BY <1>1, TargetFacts DEF TypeOK, LoadFacts, SaveFacts, Writes
    <3>2. file["state"] \in Content BY DEF TypeOK, Files
    <3> QED BY <3>1, <3>2, ContentFacts DEF Written
  <2>2. Written(pc)' = Written(pc)
    BY <1>3 DEF SyncTemporary, Written
  <2> QED BY <1>1, <1>3, <2>1, <2>2 DEF SyncTemporary, TypeOK, GateFacts, FileFacts,
     LoadFacts, SaveFacts, Exists, Decodable, Decode
<1>4. CASE ReplaceFails
  <2>1. FileFacts' BY <1>4 DEF ReplaceFails, FileFacts, Decodable
  <2>2. tmp' \in Content BY <1>4, ContentFacts DEF ReplaceFails, TypeOK
  <2> QED BY <1>1, <1>4, <2>1, <2>2, LeaveStep DEF ReplaceFails, TypeOK
<1> QED BY <1>2, <1>3, <1>4

\* The rename puts exactly the written content in its place.
LEMMA RenameEffect ==
  ASSUME IInv, Rename
  PROVE  /\ pc \in Writes /\ holder # None /\ holder \in Callers
         /\ Target(pc) \in Files /\ tmp = Written(pc) /\ tmp \in Content
         /\ (tmp.value # None <=> Decodable(tmp))
         /\ file' \in [Files -> Content]
         /\ file'[Target(pc)] = Written(pc)
         /\ \A f \in Files : f # Target(pc) => file'[f] = file[f]
         /\ FileFacts'
<1> USE DEF IInv
<1>1. pc \in Writes /\ holder # None /\ holder \in Callers
  BY DEF Rename, GateFacts, TypeOK, Writes
<1>2. Target(pc) \in Files
  BY <1>1, TargetFacts DEF Writes, Files
<1>3. tmp = Written(pc) /\ tmp \in Content
  BY DEF Rename, GateFacts, TypeOK
<1>4. tmp.value # None <=> Decodable(tmp)
  <2>1. Target(pc) = "state" => writing \in Values
    BY <1>1, TargetFacts DEF TypeOK, LoadFacts, SaveFacts, Writes
  <2>2. CASE Target(pc) = "state"
    BY <2>1, <2>2, <1>3, ContentFacts DEF Written, Decodable
  <2>3. CASE Target(pc) # "state"
    <3>1. tmp = file["state"] BY <2>3, <1>3 DEF Written
    <3> QED BY <3>1 DEF FileFacts, Files
  <2> QED BY <2>2, <2>3
<1>5. file' = [file EXCEPT ![Target(pc)] = tmp]
  BY DEF Rename
<1>6. /\ file' \in [Files -> Content]
      /\ file'[Target(pc)] = tmp
      /\ \A f \in Files : f # Target(pc) => file'[f] = file[f]
  BY <1>2, <1>3, <1>5 DEF TypeOK
<1>7. FileFacts'
  <2> SUFFICES ASSUME NEW f \in Files PROVE file'[f].value # None <=> Decodable(file'[f])
    BY DEF FileFacts, Decodable
  <2>1. CASE f = Target(pc) BY <2>1, <1>4, <1>6
  <2>2. CASE f # Target(pc)
    <3>1. file'[f] = file[f] BY <2>2, <1>6
    <3> QED BY <3>1 DEF FileFacts
  <2> QED BY <2>1, <2>2
<1> QED BY <1>1, <1>2, <1>3, <1>4, <1>6, <1>7

LEMMA RenameStep == ASSUME IInv, Rename PROVE IInv'
<1> USE DEF IInv
<1>0. /\ pc \in Writes /\ holder # None /\ holder \in Callers
      /\ file' \in [Files -> Content]
      /\ file'[Target(pc)] = Written(pc)
      /\ \A f \in Files : f # Target(pc) => file'[f] = file[f]
      /\ FileFacts'
      /\ tmp' = Absent /\ tmp' \in Content /\ stage' = "create" /\ AfterRename
  BY RenameEffect, ContentFacts DEF Rename
<1>1. CASE pc \in {"write", "preserve_damaged"} /\ Leave(None)
  BY <1>0, <1>1, LeaveStep
<1>2. CASE pc \in {"preserve_old", "backup_old", "backup"}
  <2>1. UNCHANGED <<holder, mode, writing, loaded, basis>>
    BY <1>0, <1>2 DEF AfterRename
  <2>2. CASE pc = "preserve_old"
    <3>1. pc' = "backup_old" BY <1>0, <2>2 DEF AfterRename
    <3>2. /\ file'["pre-migration"] = file["state"] /\ file'["state"] = file["state"]
          /\ file'["bak"] = file["bak"]
      BY <1>0, <2>2, TargetFacts DEF Written, Files
    <3> QED BY <1>0, <2>1, <2>2, <3>1, <3>2 DEF TypeOK, GateFacts, LoadFacts, SaveFacts,
         PCs, Writes
  <2>3. CASE pc = "backup_old"
    <3>1. pc' = "write_migrated" BY <1>0, <2>3 DEF AfterRename
    <3>2. /\ file'["bak"] = file["state"] /\ file'["state"] = file["state"]
          /\ file'["pre-migration"] = file["pre-migration"]
      BY <1>0, <2>3, TargetFacts DEF Written, Files
    <3> QED BY <1>0, <2>1, <2>3, <3>1, <3>2 DEF TypeOK, GateFacts, LoadFacts, SaveFacts,
         PCs, Writes
  <2>4. CASE pc = "backup"
    <3>1. pc' = "write" BY <1>0, <2>4 DEF AfterRename
    <3>2. file'["bak"] = file["state"] /\ file'["state"] = file["state"]
      BY <1>0, <2>4, TargetFacts DEF Written, Files
    <3> QED BY <1>0, <2>1, <2>4, <3>1, <3>2 DEF TypeOK, GateFacts, LoadFacts, SaveFacts,
         PCs, Writes
  <2> QED BY <1>2, <2>2, <2>3, <2>4
<1>3. CASE pc = "preserve_damaged" /\ ~Leave(None)
  <2>1. /\ Decodable(file["bak"]) /\ pc' = "write_recovered" /\ writing' = file["bak"].value
        /\ UNCHANGED <<holder, mode, loaded, basis>>
    BY <1>0, <1>3 DEF AfterRename
  <2>2. /\ file'["corrupt"] = file["state"] /\ file'["state"] = file["state"]
        /\ file'["bak"] = file["bak"]
    BY <1>0, <1>3, TargetFacts DEF Written, Files
  <2>3. file["bak"].value \in Values
    BY <2>1 DEF TypeOK, FileFacts, Files, Content
  <2> QED BY <1>0, <1>3, <2>1, <2>2, <2>3 DEF TypeOK, GateFacts, LoadFacts, SaveFacts,
         PCs, Writes, Decode, Decodable
<1>4. CASE pc \in {"write_migrated", "write_recovered"}
  <2>1. /\ pc' = "loaded" /\ loaded' = writing /\ writing' = None
        /\ UNCHANGED <<holder, mode, basis>>
    BY <1>0, <1>4 DEF AfterRename
  <2>2. file'["state"] = Current(writing)
    BY <1>0, <1>4, TargetFacts DEF Written, Files
  <2>3. writing # None BY <1>4 DEF LoadFacts
  <2> QED BY <1>0, <1>4, <2>1, <2>2, <2>3 DEF TypeOK, GateFacts, LoadFacts, SaveFacts,
         PCs, Writes, Current
<1>5. pc = "write" => Leave(None)
  BY <1>0 DEF AfterRename
<1> QED BY <1>0, <1>1, <1>2, <1>3, <1>4, <1>5 DEF Writes

LEMMA CrashStep == ASSUME IInv, Crash PROVE IInv'
BY DEF IInv, TypeOK, GateFacts, FileFacts, LoadFacts, SaveFacts, Crash, PCs, Writes, Decodable

LEMMA LoseFileStep ==
  ASSUME IInv, NEW f \in {"state", "bak"}, NEW c \in {Absent, Damaged}, LoseFile(f, c)
  PROVE  IInv'
<1>1. c \in Content /\ (c.value # None <=> Decodable(c))
  BY ContentFacts DEF Decodable
<1>2. FileFacts' /\ file' \in [Files -> Content]
  BY <1>1 DEF IInv, TypeOK, FileFacts, LoseFile, Files, Decodable
<1>3. pc = "idle" /\ pc' = "idle" /\ stage = "create" /\ stage' = "create"
  BY DEF IInv, GateFacts, LoseFile, Writes
<1>4. TypeOK' BY <1>2 DEF IInv, TypeOK, LoseFile
<1>5. GateFacts' BY <1>3 DEF IInv, GateFacts, LoseFile, Writes
<1>6. LoadFacts' /\ SaveFacts' BY <1>3 DEF LoadFacts, SaveFacts
<1> QED BY <1>2, <1>4, <1>5, <1>6 DEF IInv

LEMMA NextIInv == ASSUME IInv, [Next]_vars PROVE IInv'
<1>1. CASE UNCHANGED vars
  BY <1>1 DEF vars, IInv, TypeOK, GateFacts, FileFacts, LoadFacts, SaveFacts, Written, Exists,
              Decode, Decodable
<1> QED BY <1>1, EnterStep, LoadStep, UseStep, ReplaceStep, RenameStep, CrashStep, LoseFileStep
           DEF Next, AtomicReplace

\* The invariant that relates the files, the section under way and what its
\* caller read holds in every reachable state.
THEOREM Consistency == Spec => []IInv
BY InitIInv, NextIInv, PTL DEF Spec

\* Type correctness of the store.
THEOREM TypeCorrect == Spec => []TypeOK
BY Consistency, PTL DEF IInv

-----------------------------------------------------------------------------
\* What a rename changes for the next load: nothing, or to the saved state
\* after the replaced one is in the backup.
LEMMA RenameIsDurable ==
  ASSUME IInv, Rename
  PROVE  IF pc = "write"
         THEN Loadable' = writing /\ Decode(file["bak"]) = Loadable
              /\ file'["bak"] = file["bak"] /\ writing \in Values
         ELSE Loadable' = Loadable
<1> USE DEF IInv
<1>0. /\ pc \in Writes
      /\ file'[Target(pc)] = Written(pc)
      /\ \A f \in Files : f # Target(pc) => file'[f] = file[f]
  BY RenameEffect
<1>1. CASE pc \in {"preserve_old", "preserve_damaged"}
  <2>1. file'["state"] = file["state"] /\ file'["bak"] = file["bak"]
    BY <1>0, <1>1, TargetFacts DEF Files
  <2> QED BY <1>1, <2>1 DEF Loadable, Decode, Decodable
<1>2. CASE pc \in {"backup_old", "backup"}
  <2>1. file'["state"] = file["state"] BY <1>0, <1>2, TargetFacts DEF Files
  <2>2. file["state"].schema \in {"current", "older"}
    BY <1>2, ContentFacts DEF LoadFacts, SaveFacts, TypeOK
  <2> QED BY <1>2, <2>1, <2>2 DEF Loadable, Decode, Decodable
<1>3. CASE pc \in {"write_migrated", "write_recovered"}
  <2>1. file'["state"] = Current(writing)
    BY <1>0, <1>3, TargetFacts DEF Written
  <2>2. writing \in Values BY <1>3 DEF LoadFacts, TypeOK
  <2>3. Loadable' = writing
    BY <2>1, <2>2, ContentFacts DEF Loadable, Decode, Decodable
  <2>4. Loadable = writing
    BY <1>3, <2>2, ContentFacts DEF Loadable, LoadFacts, Decode, Decodable
  <2> QED BY <1>3, <2>3, <2>4
<1>4. CASE pc = "write"
  <2>1. file'["state"] = Current(writing) /\ file'["bak"] = file["bak"]
    BY <1>0, <1>4, TargetFacts DEF Written, Files
  <2>2. writing \in Values BY <1>4 DEF SaveFacts, TypeOK
  <2>3. Loadable' = writing
    BY <2>1, <2>2, ContentFacts DEF Loadable, Decode, Decodable
  <2>4. Decode(file["bak"]) = Loadable
    BY <1>4, ContentFacts DEF SaveFacts, TypeOK, Loadable, Decode, Decodable, Exists
  <2> QED BY <1>4, <2>1, <2>2, <2>3, <2>4
<1> QED BY <1>0, <1>1, <1>2, <1>3, <1>4 DEF Writes

\* Only a rename and the loss of a file change a file.
LEMMA OthersKeepFiles ==
  ASSUME IInv, [Next]_vars, ~Rename,
         ~\E f \in {"state", "bak"}, c \in {Absent, Damaged} : LoseFile(f, c)
  PROVE  file' = file
BY DEF Next, Enter, Load, LoadNothing, LoadCurrent, LoadMigrates, LoadRecovers, LoadRestores,
       LoadFails, AtomicReplace, CreateTemporary, SyncTemporary, ReplaceFails, Use, Read,
       Conflict, GiveUp, Save, Crash, vars

\* An error or a crash anywhere leaves the last valid state; a save that ends
\* well is what the next load returns.
THEOREM Survival == Spec => LastValidStateSurvives
<1>1. ASSUME IInv, [Next]_vars, pc # "idle"
      PROVE  IF pc = "write" /\ file' # file THEN Loadable' = writing
                                             ELSE Loadable' = Loadable
  <2>1. CASE Rename
    <3>1. CASE file' = file BY <3>1 DEF Loadable, Decode, Decodable
    <3> QED BY <1>1, <2>1, <3>1, RenameIsDurable
  <2>2. CASE ~Rename
    <3>1. file' = file BY <1>1, <2>2, OthersKeepFiles DEF LoseFile
    <3> QED BY <3>1 DEF Loadable, Decode, Decodable
  <2> QED BY <2>1, <2>2
<1>2. IInv /\ [Next]_vars =>
        [pc # "idle" => IF pc = "write" /\ file' # file THEN Loadable' = writing
                                                      ELSE Loadable' = Loadable]_vars
  BY <1>1
<1> QED BY <1>2, Consistency, PTL DEF Spec, LastValidStateSurvives

\* A save replaces the state its change was computed from.
THEOREM UpdatesAreNotLost == Spec => NoLostUpdate
<1>1. ASSUME IInv, [Next]_vars, pc = "write", file' # file
      PROVE  basis[holder] = Loadable
  BY <1>1, ContentFacts DEF IInv, TypeOK, SaveFacts, Loadable, Decode, Decodable, Exists
<1>2. IInv /\ [Next]_vars =>
        [(pc = "write" /\ file' # file) => basis[holder] = Loadable]_vars
  BY <1>1
<1> QED BY <1>2, Consistency, PTL DEF Spec, NoLostUpdate

\* An older or damaged state.json is replaced only after it was copied aside.
THEOREM OriginalsAreKept == Spec => OriginalIsKept
<1>1. ASSUME IInv, [Next]_vars, pc # "idle", file'["state"] # file["state"]
      PROVE  /\ file["state"].schema = "older"   => file["pre-migration"] = file["state"]
             /\ file["state"].schema = "damaged" => file["corrupt"] = file["state"]
  <2>1. Rename BY <1>1, OthersKeepFiles DEF LoseFile
  <2>2. pc \in {"write_migrated", "write_recovered", "write"}
    BY <1>1, <2>1, RenameEffect, TargetFacts DEF Files, Writes
  <2>3. CASE pc = "write_migrated"
    BY <1>1, <2>3, ContentFacts DEF IInv, LoadFacts, TypeOK
  <2>4. CASE pc = "write_recovered"
    <3>1. /\ file["state"].schema \in {"absent", "damaged"}
          /\ file["state"].schema = "damaged" => file["corrupt"].schema = "damaged"
      BY <1>1, <2>4 DEF IInv, LoadFacts
    <3>2. ASSUME NEW f \in Files, file[f].schema = "damaged" PROVE file[f] = Damaged
      <4>1. file[f] \in Content BY <1>1 DEF IInv, TypeOK
      <4>2. file[f].value = None BY <1>1, <3>2 DEF IInv, FileFacts, Decodable
      <4> QED BY <3>2, <4>1, <4>2 DEF Content, Damaged
    <3> QED BY <3>1, <3>2 DEF Files
  <2>5. CASE pc = "write"
    BY <1>1, <2>5, ContentFacts DEF IInv, SaveFacts, TypeOK, Exists
  <2> QED BY <2>2, <2>3, <2>4, <2>5
<1>2. IInv /\ [Next]_vars =>
        [(pc # "idle" /\ file'["state"] # file["state"]) =>
           /\ file["state"].schema = "older"   => file["pre-migration"] = file["state"]
           /\ file["state"].schema = "damaged" => file["corrupt"] = file["state"]]_vars
  BY <1>1
<1> QED BY <1>2, Consistency, PTL DEF Spec, OriginalIsKept

\* All that the store promises about what was stored, together.
THEOREM StoredIsKept == Spec => NothingStoredIsLost
BY Survival, UpdatesAreNotLost, OriginalsAreKept DEF NothingStoredIsLost

-----------------------------------------------------------------------------
\* A step of the store is a step of the durable value, or none.
LEMMA StepSimulation ==
  ASSUME IInv, [Next]_vars
  PROVE  [Durable!Next]_(Durable!vars)
<1> USE DEF Durable!Next, Durable!vars, Durable!BackUp, Durable!Commit, Durable!FallBack,
            Durable!LoseCopy
<1>1. CASE Rename
  <2>0. /\ pc \in Writes
        /\ file'[Target(pc)] = Written(pc)
        /\ \A f \in Files : f # Target(pc) => file'[f] = file[f]
    BY <1>1, RenameEffect
  <2>1. CASE pc = "write"
    <3>1. /\ Loadable' = writing /\ Decode(file["bak"]) = Loadable
          /\ file'["bak"] = file["bak"] /\ writing \in Values
      BY <1>1, <2>1, RenameIsDurable
    <3>2. Decode(file["bak"])' = Decode(file["bak"])
      BY <3>1 DEF Decode, Decodable
    <3> QED BY <3>1, <3>2
  <2>2. CASE pc \in {"backup_old", "backup"}
    <3>1. Loadable' = Loadable BY <1>1, <2>2, RenameIsDurable
    <3>2. file'["bak"] = file["state"]
      BY <2>0, <2>2, TargetFacts DEF Written
    <3>3. /\ file["state"].schema \in {"current", "older"} /\ file["state"].value # None
      BY <2>2, ContentFacts DEF IInv, LoadFacts, SaveFacts, TypeOK
    <3>4. Decode(file["bak"])' = Loadable /\ Loadable # None
      BY <3>2, <3>3 DEF Loadable, Decode, Decodable
    <3> QED BY <3>1, <3>4
  <2>3. CASE pc \in {"preserve_old", "preserve_damaged", "write_migrated", "write_recovered"}
    <3>1. Loadable' = Loadable BY <1>1, <2>3, RenameIsDurable
    <3>2. file'["bak"] = file["bak"]
      BY <2>0, <2>3, TargetFacts DEF Files
    <3>3. Decode(file["bak"])' = Decode(file["bak"])
      BY <3>2 DEF Decode, Decodable
    <3> QED BY <3>1, <3>3
  <2> QED BY <2>0, <2>1, <2>2, <2>3 DEF Writes
<1>2. ASSUME NEW f \in {"state", "bak"}, NEW c \in {Absent, Damaged}, LoseFile(f, c)
      PROVE  [Durable!Next]_(Durable!vars)
  <2>0. file \in [Files -> Content] BY DEF IInv, TypeOK
  <2>1. CASE f = "state"
    <3>1. file'["bak"] = file["bak"] /\ file'["state"] = c
      BY <1>2, <2>0, <2>1 DEF LoseFile, Files
    <3>2. Loadable' = Decode(file["bak"]) /\ Decode(file["bak"])' = Decode(file["bak"])
      BY <3>1, ContentFacts DEF Loadable, Decode, Decodable
    <3> QED BY <3>2
  <2>2. CASE f = "bak"
    <3>1. file'["bak"] = c /\ file'["state"] = file["state"] /\ Decodable(file["state"])
      BY <1>2, <2>0, <2>2 DEF LoseFile, Files
    <3>2. Loadable' = Loadable /\ Decode(file["bak"])' = None
      BY <3>1, ContentFacts DEF Loadable, Decode, Decodable
    <3> QED BY <3>2
  <2> QED BY <2>1, <2>2
<1>3. CASE ~Rename /\ ~\E f \in {"state", "bak"}, c \in {Absent, Damaged} : LoseFile(f, c)
  <2>1. file' = file BY <1>3, OthersKeepFiles
  <2>2. Loadable' = Loadable /\ Decode(file["bak"])' = Decode(file["bak"])
    BY <2>1 DEF Loadable, Decode, Decodable
  <2> QED BY <2>2
<1> QED BY <1>1, <1>2, <1>3

\* The store implements the durable value.
THEOREM Refinement == Spec => ImplementsDurableState
<1>1. IInv => Durable!Init
  <2> SUFFICES ASSUME IInv
               PROVE  Loadable \in Values \cup {None} /\ Decode(file["bak"]) \in Values \cup {None}
    BY DEF Durable!Init
  <2>1. file["state"] \in Content /\ file["bak"] \in Content
    BY DEF IInv, TypeOK, Files
  <2> QED BY <2>1 DEF Content, Loadable, Decode, Decodable
<1>2. IInv /\ [Next]_vars => [Durable!Next]_(Durable!vars)
  BY StepSimulation
<1> QED BY <1>1, <1>2, InitIInv, Consistency, PTL DEF Spec, Durable!Spec, ImplementsDurableState

-----------------------------------------------------------------------------
(* The user's proxy setting *)

USE SettingsAssumption, NothingAssumption, RestartAssumption

\* The records the adapter stores.
LEMMA RecordFacts ==
  /\ NoRecord \in Records /\ NoRecord.snapshot = Nothing /\ NoRecord.phase = "None"
  /\ \A s \in Observable :
       /\ Transitioning(s) \in Records /\ Transitioning(s).snapshot = s
       /\ Stable(s) \in Records /\ Stable(s).snapshot = s /\ Stable(s).phase = "Stable"
       /\ s # Nothing
BY DEF NoRecord, Transitioning, Stable, Records, Observable

LEMMA ProxyInitIInv == ProxyInit => ProxyIInv
<1> SUFFICES ASSUME ProxyInit PROVE ProxyIInv
  OBVIOUS
<1>1. ProxyTypeOK
  <2>1. record \in Records /\ restarts \in 0..MaxRestarts BY RecordFacts DEF ProxyInit
  <2>2. proxy \in Observable /\ own \in Settings /\ seen \in Observable \cup {Nothing}
    BY DEF ProxyInit, Observable
  <2> QED BY <2>1, <2>2 DEF ProxyInit, ProxyTypeOK, Points, Modes
<1>2. UserSettingKept /\ NoOlderChoice /\ CommittedIsStable
  BY DEF ProxyInit, UserSettingKept, NoOlderChoice, CommittedIsStable
<1>3. PointFacts /\ ManagedFacts
  BY RecordFacts DEF ProxyInit, PointFacts, ManagedFacts, Enabling
<1> QED BY <1>1, <1>2, <1>3 DEF ProxyIInv

\* Every step keeps the types.
LEMMA TypeStep == ProxyIInv /\ [ProxyNext]_proxyVars => ProxyTypeOK'
<1> SUFFICES ASSUME ProxyIInv, [ProxyNext]_proxyVars PROVE ProxyTypeOK'
  OBVIOUS
<1> USE DEF ProxyTypeOK, Modes, Points, osVars, historyVars
<1>0. ProxyTypeOK /\ PointFacts BY DEF ProxyIInv
<1>1. CASE ActivateFromOff BY <1>0, <1>1 DEF ActivateFromOff, Go
<1>2. CASE Reconfigure BY <1>0, <1>2 DEF Reconfigure
<1>3. CASE Capture BY <1>0, <1>3 DEF Capture, Go
<1>4. CASE Arm
  <2>1. seen \in Observable BY <1>0, <1>4 DEF Arm, PointFacts
  <2> QED BY <1>0, <1>4, <2>1, RecordFacts DEF Arm, Go, Saved, NotSaved
<1>5. CASE Apply BY <1>0, <1>5 DEF Apply, Go, SettingWritten, Rejected, NoteRace, Observable
<1>6. CASE Verify BY <1>0, <1>6 DEF Verify, Go, Fail
<1>7. CASE Commit
  <2>1. record.snapshot \in Observable BY <1>0, <1>7 DEF Commit, PointFacts, Records
  <2> QED BY <1>0, <1>7, <2>1, RecordFacts DEF Commit, Fail, Saved, NotSaved
<1>8. CASE Prove BY <1>0, <1>8 DEF Prove, Go, Fail
<1>9. CASE Deactivate BY <1>0, <1>9 DEF Deactivate
<1>10. CASE Check BY <1>0, <1>10 DEF Check, Go, Fail
<1>11. CASE WriteBack
  <2>1. record.snapshot \in Observable BY <1>0, <1>11 DEF WriteBack, PointFacts, Records
  <2> QED BY <1>0, <1>11, <2>1
    DEF WriteBack, Go, Fail, SettingWritten, Rejected, NoteRace, Observable
<1>12. CASE VerifyBack BY <1>0, <1>12 DEF VerifyBack, Go, Fail
<1>13. CASE Clear BY <1>0, <1>13, RecordFacts DEF Clear, Go, Fail, Saved, NotSaved
<1>14. CASE StopCore BY <1>0, <1>14 DEF StopCore
<1>15. CASE \E s \in Settings : UserSets(s) BY <1>0, <1>15 DEF UserSets, Observable
<1>16. CASE Restart BY <1>0, <1>16 DEF Restart
<1>17. CASE UNCHANGED proxyVars BY <1>0, <1>17 DEF proxyVars
<1> QED BY <1>1, <1>2, <1>3, <1>4, <1>5, <1>6, <1>7, <1>8, <1>9, <1>10, <1>11, <1>12,
           <1>13, <1>14, <1>15, <1>16, <1>17 DEF ProxyNext

\* Every step keeps the rest of IInv.
LEMMA FactsStep ==
  ProxyIInv /\ [ProxyNext]_proxyVars =>
    (UserSettingKept /\ NoOlderChoice /\ CommittedIsStable /\ PointFacts /\ ManagedFacts)'
<1> SUFFICES ASSUME ProxyIInv, [ProxyNext]_proxyVars
             PROVE  (UserSettingKept /\ NoOlderChoice /\ CommittedIsStable
                       /\ PointFacts /\ ManagedFacts)'
  OBVIOUS
<1> USE DEF UserSettingKept, NoOlderChoice, CommittedIsStable, PointFacts, ManagedFacts,
            Excused, Enabling, osVars, historyVars
<1>0. /\ ProxyTypeOK /\ UserSettingKept /\ NoOlderChoice /\ CommittedIsStable
      /\ PointFacts /\ ManagedFacts
  BY DEF ProxyIInv
<1>a. own \in Settings /\ seen \in Observable \cup {Nothing} BY <1>0 DEF ProxyTypeOK
<1>b. record.snapshot \in Observable \cup {Nothing} BY <1>0 DEF ProxyTypeOK, Records
<1>1. CASE ActivateFromOff BY <1>0, <1>1 DEF ActivateFromOff, Go
<1>2. CASE Reconfigure BY <1>0, <1>2 DEF Reconfigure
<1>3. CASE Capture BY <1>0, <1>3 DEF Capture, Go, ProxyTypeOK, Observable
<1>4. CASE Arm
  <2>1. seen \in Observable BY <1>0, <1>4 DEF Arm, ProxyTypeOK
  <2>2. record' # record => record'.snapshot = seen /\ (seen \notin Settings => mistaken')
    BY <1>4, <2>1, RecordFacts DEF Arm, Saved, NotSaved
  <2>3. call' = "apply" => record'.snapshot = seen /\ (seen \notin Settings => mistaken')
    BY <1>4, <2>1, RecordFacts DEF Arm, Saved, Go
  <2>4. UNCHANGED <<proxy, own, captureMode, raced, leftover>> /\ (mistaken => mistaken')
    BY <1>4 DEF Arm, Go
  <2>5. (UserSettingKept /\ NoOlderChoice)'
    BY <1>0, <1>4, <2>2, <2>4 DEF Arm
  <2>6. (CommittedIsStable /\ PointFacts /\ ManagedFacts)'
    BY <1>0, <1>4, <2>1, <2>2, <2>3, <2>4, RecordFacts DEF Arm, Go, Saved, NotSaved
  <2> QED BY <2>5, <2>6
<1>5. CASE Apply
  BY <1>0, <1>5 DEF Apply, Go, SettingWritten, Rejected, NoteRace, ProxyTypeOK
<1>6. CASE Verify BY <1>0, <1>6 DEF Verify, Go, Fail
<1>7. CASE Commit
  <2>1. record.snapshot \in Observable BY <1>0, <1>b, <1>7 DEF Commit
  <2> QED BY <1>0, <1>7, <2>1, RecordFacts DEF Commit, Fail, Saved, NotSaved
<1>8. CASE Prove BY <1>0, <1>8 DEF Prove, Go, Fail
<1>9. CASE Deactivate
  <2>1. UNCHANGED <<proxy, own, record, captureMode, seen, raced, mistaken, leftover>>
    BY <1>9 DEF Deactivate
  <2>2. \/ call' = "stop" /\ record.snapshot = Nothing
        \/ call' = "check" /\ record.snapshot # Nothing
    BY <1>0, <1>9 DEF Deactivate
  <2>3. CASE call' = "check" BY <1>0, <1>9, <2>1, <2>2, <2>3 DEF Deactivate
  <2>4. CASE call' = "stop" BY <1>0, <1>9, <2>1, <2>2, <2>4 DEF Deactivate
  <2> QED BY <2>2, <2>3, <2>4
<1>10. CASE Check BY <1>0, <1>10 DEF Check, Go, Fail
<1>11. CASE WriteBack
  <2>1. \/ proxy' = proxy /\ raced' = raced
        \/ proxy = Managed /\ proxy' \in {record.snapshot, Torn} /\ raced' = raced
        \/ raced' = TRUE
    BY <1>0, <1>11 DEF WriteBack, SettingWritten, Rejected, NoteRace, ProxyTypeOK
  <2>2. UNCHANGED <<own, record, mistaken, leftover>> BY <1>11 DEF WriteBack
  <2>3. (UserSettingKept /\ NoOlderChoice)'
    BY <1>0, <1>a, <2>1, <2>2
  <2>4. (CommittedIsStable /\ PointFacts /\ ManagedFacts)'
    BY <1>0, <1>b, <1>11, <2>2 DEF WriteBack, Go, Fail, SettingWritten, ProxyTypeOK, Modes
  <2> QED BY <2>3, <2>4
<1>12. CASE VerifyBack BY <1>0, <1>12 DEF VerifyBack, Go, Fail
<1>13. CASE Clear BY <1>0, <1>13, RecordFacts DEF Clear, Go, Fail, Saved, NotSaved
<1>14. CASE StopCore BY <1>0, <1>14 DEF StopCore
<1>15. CASE \E s \in Settings : UserSets(s) BY <1>0, <1>15 DEF UserSets
<1>16. CASE Restart BY <1>0, <1>16 DEF Restart
<1>17. CASE UNCHANGED proxyVars BY <1>0, <1>17 DEF proxyVars
<1> QED BY <1>1, <1>2, <1>3, <1>4, <1>5, <1>6, <1>7, <1>8, <1>9, <1>10, <1>11, <1>12,
           <1>13, <1>14, <1>15, <1>16, <1>17 DEF ProxyNext

\* IInv is an invariant of the transaction, whatever call fails and whenever
\* the user or the end of the application comes between two calls.
THEOREM ProxyConsistency == ProxySpec => []ProxyIInv
<1>1. ProxyIInv /\ [ProxyNext]_proxyVars => ProxyIInv' BY TypeStep, FactsStep DEF ProxyIInv
<1> QED BY <1>1, ProxyInitIInv, PTL DEF ProxySpec

\* The user's last choice is in WinINet or in the recovery record.
THEOREM SettingKept == ProxySpec => []UserSettingKept
<1>1. ProxyIInv => UserSettingKept BY DEF ProxyIInv
<1> QED BY <1>1, ProxyConsistency, PTL

\* The supervisor reports SystemProxy only over a stable record.
THEOREM ModeIsCommitted == ProxySpec => []CommittedIsStable
<1>1. ProxyIInv => CommittedIsStable BY DEF ProxyIInv
<1> QED BY <1>1, ProxyConsistency, PTL

\* What the supervisor promises the user, together.
THEOREM SafetyHolds == ProxySpec => []Safety
<1>1. ProxyIInv => Safety BY DEF ProxyIInv, Safety
<1> QED BY <1>1, ProxyConsistency, PTL

\* The supervisor does not stop the core while WinINet points at it.
THEOREM CoreIsNotPulled == ProxySpec => CoreOutlivesProxy
<1>1. ASSUME ProxyIInv, [ProxyNext]_proxyVars, core # "Stopped", core' = "Stopped",
             proxy = Managed, restarts' = restarts
      PROVE  leftover \/ (captureMode = "SystemProxy" /\ captureMode' = "RecoveryRequired")
  <2>1. call = "stop" => leftover BY <1>1 DEF ProxyIInv, ManagedFacts
  <2>2. CASE Restart BY <1>1, <2>2 DEF Restart, ProxyIInv, ProxyTypeOK
  <2>3. CASE ActivateFromOff BY <1>1, <2>3 DEF ActivateFromOff, ProxyIInv, ManagedFacts
  <2>4. CASE Reconfigure BY <1>1, <2>4 DEF Reconfigure
  <2>5. CASE StopCore BY <1>1, <2>1, <2>5 DEF StopCore
  <2> QED
    BY <1>1, <2>2, <2>3, <2>4, <2>5
    DEF ProxyNext, proxyVars, Deactivate, Capture, Arm, Apply, Verify, Commit, Prove, Check,
        WriteBack, VerifyBack, Clear, UserSets
<1>2. ProxyIInv /\ [ProxyNext]_proxyVars =>
        [core # "Stopped" /\ core' = "Stopped" /\ proxy = Managed /\ restarts' = restarts
           => \/ leftover
              \/ captureMode = "SystemProxy" /\ captureMode' = "RecoveryRequired"]_proxyVars
  BY <1>1
<1> QED BY <1>2, ProxyConsistency, PTL DEF ProxySpec, CoreOutlivesProxy
=============================================================================
