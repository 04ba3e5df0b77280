-------------------------- MODULE KeyStorageProofs --------------------------
(***************************************************************************)
(* Proofs about KeyStorage for any set of key paths, any set of key        *)
(* directories and any number of power losses, and, at the end, about the  *)
(* seed of StorageBinding, which the application ids of its keys have.     *)
(***************************************************************************)
EXTENDS KeyStorage, StorageBinding, TLAPS

Building == {"version", "secdiscardable", "generate", "keymaster_key_blob", "encrypt",
             "encrypted_key", "fsync", "rename"}
Destroying == {"delete", "secdiscard", "rm"}

(* Every name space a power loss can leave names only directories made, the *)
(* leftover under TmpPath is nobody's key, now or after a power loss.       *)
NamesOK ==
    /\ \A n \in onDisk, p \in Paths : n[p] \in made \cup {None}
    /\ \A n \in onDisk, p \in KeyPaths :
         /\ ns[TmpPath] # None => n[p] # ns[TmpPath]
         /\ n[TmpPath] # None => n[p] # n[TmpPath]
    /\ stored \subseteq made /\ doomed \subseteq made /\ destroyed \subseteq doomed

(* What storeKey has put into the directory when it gets to each step. *)
ProgressOK ==
    /\ auth[cur] = "keystore" /\ pc \in {"keymaster_key_blob", "encrypt"} => cur \in live
    /\ pc \in {"secdiscardable", "generate", "keymaster_key_blob", "encrypt"} =>
         auth[cur] = "keystore" /\ "version" \in files[cur]
    /\ pc \in {"generate", "keymaster_key_blob", "encrypt"} => "secdiscardable" \in files[cur]
    /\ pc = "encrypt" => "keymaster_key_blob" \in files[cur]
    /\ pc = "encrypted_key" =>
         /\ Required(auth[cur]) \ {"encrypted_key"} \subseteq files[cur]
         /\ auth[cur] = "keystore" => cur \in live
    /\ pc = "fsync" => Openable(cur, files[cur])
    /\ pc = "rename" => Openable(cur, files[cur] \cap kept[cur])

StoreOK ==
    /\ pc \in StoreSteps => cur \in Inodes /\ path \in KeyPaths
    /\ pc = "mkdir" => cur \notin made
    /\ pc \in Building =>
         cur \in made /\ ns[TmpPath] = cur /\ cur \notin doomed /\ ProgressOK
    /\ pc = "fsyncparent" => cur \in made /\ ns[path] = cur

DestroyOK ==
    pc \in Destroying =>
      /\ ns[target] # None
      /\ cur = None => target \in KeyPaths /\ ns[target] \in doomed
      /\ cur # None => target = TmpPath /\ cur \notin made /\ path \in KeyPaths
      /\ pc = "rm" /\ ok =>
           "encrypted_key" \notin files[ns[target]] \cup kept[ns[target]]

DestroyedOK == \A i \in destroyed : "encrypted_key" \notin files[i] \cup kept[i]

(* The inductive invariant. *)
IInv ==
    /\ TypeOK /\ NamesOK /\ StoreOK /\ DestroyOK /\ DestroyedOK
    /\ KeysComplete /\ StoredSurvives
-----------------------------------------------------------------------------
LEMMA InitInv == Init => IInv
  <1> SUFFICES ASSUME Init PROVE IInv
    OBVIOUS
  <1> USE PathAssumption, InodeAssumption, CrashAssumption
  <1>1. TypeOK
    BY DEF Init, TypeOK, Paths, FileNames, Auths, Required, StoreSteps
  <1>2. NamesOK /\ StoreOK /\ DestroyOK /\ DestroyedOK
    BY DEF Init, NamesOK, StoreOK, DestroyOK, DestroyedOK, Paths, StoreSteps, Building,
           Destroying
  <1>3. KeysComplete
    BY DEF Init, KeysComplete, Openable, Paths
  <1>4. StoredSurvives
    BY DEF Init, StoredSurvives, Paths
  <1>5. QED
    BY <1>1, <1>2, <1>3, <1>4 DEF IInv

LEMMA StutterStep ==
  ASSUME IInv, UNCHANGED vars
  PROVE  IInv'
  BY DEF IInv, vars, fsVars, locals, history, TypeOK, NamesOK, StoreOK, ProgressOK,
         Required, Openable, DestroyOK, DestroyedOK, KeysComplete, StoredSurvives

LEMMA StoreBeginStep ==
  ASSUME NEW p \in KeyPaths, NEW a \in Auths, IInv, StoreBegin(p, a)
  PROVE  IInv'
  <1> USE PathAssumption, InodeAssumption, CrashAssumption DEF IInv
  <1>1. TypeOK'
    BY DEF StoreBegin, TypeOK, Paths, FileNames, Auths, Required, StoreSteps,
           fsVars, locals, history
  <1>2. NamesOK'
    BY DEF StoreBegin, TypeOK, NamesOK, StoreOK, DestroyOK, Paths, StoreSteps,
           Building, Destroying, fsVars, locals, history
  <1>3. StoreOK'
    BY DEF StoreBegin, TypeOK, NamesOK, StoreOK, ProgressOK, Required, Openable,
           Auths, Paths, StoreSteps, Building, Destroying, fsVars, locals, history
  <1>4. DestroyOK'
    BY DEF StoreBegin, TypeOK, NamesOK, StoreOK, DestroyOK, Paths, StoreSteps,
           Building, Destroying, fsVars, locals, history
  <1>5. DestroyedOK'
    BY DEF StoreBegin, TypeOK, NamesOK, StoreOK, DestroyOK, DestroyedOK, Paths,
           StoreSteps, Building, Destroying, fsVars, locals, history
  <1>6. KeysComplete'
    BY DEF StoreBegin, TypeOK, NamesOK, StoreOK, DestroyOK, ProgressOK,
           KeysComplete, Openable, Paths, StoreSteps, Building, Destroying, fsVars,
           locals, history
  <1>7. StoredSurvives'
    BY DEF StoreBegin, TypeOK, NamesOK, StoreOK, DestroyOK, StoredSurvives, Paths,
           StoreSteps, Building, Destroying, fsVars, locals, history
  <1>8. QED
    BY <1>1, <1>2, <1>3, <1>4, <1>5, <1>6, <1>7

LEMMA MkdirStep ==
  ASSUME IInv, Mkdir
  PROVE  IInv'
  <1> USE PathAssumption, InodeAssumption, CrashAssumption DEF IInv
  <1>1. TypeOK'
    BY DEF Mkdir, Enter, TypeOK, StoreOK, Paths, FileNames, Auths, Required,
           StoreSteps, fsVars, locals, history
  <1>2. NamesOK'
    BY DEF Mkdir, Enter, TypeOK, NamesOK, StoreOK, DestroyOK, Paths, StoreSteps,
           Building, Destroying, fsVars, locals, history
  <1>3. StoreOK'
    BY DEF Mkdir, Enter, TypeOK, NamesOK, StoreOK, ProgressOK, Required, Openable,
           Auths, Paths, StoreSteps, Building, Destroying, fsVars, locals, history
  <1>4. DestroyOK'
    BY DEF Mkdir, Enter, TypeOK, NamesOK, StoreOK, DestroyOK, Paths, StoreSteps,
           Building, Destroying, fsVars, locals, history
  <1>5. DestroyedOK'
    BY DEF Mkdir, Enter, TypeOK, NamesOK, StoreOK, DestroyOK, DestroyedOK, Paths,
           StoreSteps, Building, Destroying, fsVars, locals, history
  <1>6. KeysComplete'
    BY DEF Mkdir, Enter, TypeOK, NamesOK, StoreOK, DestroyOK, ProgressOK,
           KeysComplete, Openable, Paths, StoreSteps, Building, Destroying, fsVars,
           locals, history
  <1>7. StoredSurvives'
    BY DEF Mkdir, Enter, TypeOK, NamesOK, StoreOK, DestroyOK, StoredSurvives, Paths,
           StoreSteps, Building, Destroying, fsVars, locals, history
  <1>8. QED
    BY <1>1, <1>2, <1>3, <1>4, <1>5, <1>6, <1>7

LEMMA WriteFileStep ==
  ASSUME NEW f \in FileNames, IInv, WriteFile(f)
  PROVE  IInv'
  <1> USE PathAssumption, InodeAssumption, CrashAssumption DEF IInv
  <1>1. TypeOK'
    BY DEF WriteFile, AfterWrite, TypeOK, StoreOK, Paths, FileNames, Auths,
           Required, StoreSteps, fsVars, locals, history
  <1>2. NamesOK'
    BY DEF WriteFile, AfterWrite, TypeOK, NamesOK, StoreOK, DestroyOK, Paths,
           StoreSteps, Building, Destroying, fsVars, locals, history
  <1>3. StoreOK'
    <2>1. CASE f = "version"
      BY <2>1 DEF WriteFile, AfterWrite, TypeOK, NamesOK, StoreOK, ProgressOK,
             Required, Openable, Auths, FileNames, Paths, StoreSteps, Building,
             Destroying, fsVars, locals, history
    <2>2. CASE f = "secdiscardable"
      BY <2>2 DEF WriteFile, AfterWrite, TypeOK, NamesOK, StoreOK, ProgressOK,
             Required, Openable, Auths, FileNames, Paths, StoreSteps, Building,
             Destroying, fsVars, locals, history
    <2>3. CASE f = "keymaster_key_blob"
      BY <2>3 DEF WriteFile, AfterWrite, TypeOK, NamesOK, StoreOK, ProgressOK,
             Required, Openable, Auths, FileNames, Paths, StoreSteps, Building,
             Destroying, fsVars, locals, history
    <2>4. CASE f = "encrypted_key"
      BY <2>4 DEF WriteFile, AfterWrite, TypeOK, NamesOK, StoreOK, ProgressOK,
             Required, Openable, Auths, FileNames, Paths, StoreSteps, Building,
             Destroying, fsVars, locals, history
    <2>5. QED
      BY <2>1, <2>2, <2>3, <2>4 DEF FileNames
  <1>4. DestroyOK'
    <2>1. pc' \notin Destroying
      BY DEF WriteFile, AfterWrite, FileNames, Destroying
    <2>2. QED
      BY <2>1 DEF DestroyOK
  <1>5. DestroyedOK'
    BY DEF WriteFile, AfterWrite, TypeOK, NamesOK, StoreOK, DestroyOK, DestroyedOK,
           Paths, StoreSteps, Building, Destroying, fsVars, locals, history
  <1>6. KeysComplete'
    BY DEF WriteFile, AfterWrite, TypeOK, NamesOK, StoreOK, DestroyOK, ProgressOK,
           KeysComplete, Openable, Paths, StoreSteps, Building, Destroying, fsVars,
           locals, history
  <1>7. StoredSurvives'
    BY DEF WriteFile, AfterWrite, TypeOK, NamesOK, StoreOK, DestroyOK,
           StoredSurvives, Paths, StoreSteps, Building, Destroying, fsVars, locals,
           history
  <1>8. QED
    BY <1>1, <1>2, <1>3, <1>4, <1>5, <1>6, <1>7

LEMMA GenerateStep ==
  ASSUME IInv, generateKeyStorageKey
  PROVE  IInv'
  <1> USE PathAssumption, InodeAssumption, CrashAssumption DEF IInv
  <1>1. TypeOK'
    BY DEF generateKeyStorageKey, TypeOK, StoreOK, Paths, FileNames, Auths,
           Required, StoreSteps, fsVars, locals, history
  <1>2. NamesOK'
    BY DEF generateKeyStorageKey, TypeOK, NamesOK, StoreOK, DestroyOK, Paths,
           StoreSteps, Building, Destroying, fsVars, locals, history
  <1>3. StoreOK'
    BY DEF generateKeyStorageKey, TypeOK, NamesOK, StoreOK, ProgressOK, Required,
           Openable, Auths, Paths, StoreSteps, Building, Destroying, fsVars, locals,
           history
  <1>4. DestroyOK'
    BY DEF generateKeyStorageKey, TypeOK, NamesOK, StoreOK, DestroyOK, Paths,
           StoreSteps, Building, Destroying, fsVars, locals, history
  <1>5. DestroyedOK'
    BY DEF generateKeyStorageKey, TypeOK, NamesOK, StoreOK, DestroyOK, DestroyedOK,
           Paths, StoreSteps, Building, Destroying, fsVars, locals, history
  <1>6. KeysComplete'
    BY DEF generateKeyStorageKey, TypeOK, NamesOK, StoreOK, DestroyOK, ProgressOK,
           KeysComplete, Openable, Paths, StoreSteps, Building, Destroying, fsVars,
           locals, history
  <1>7. StoredSurvives'
    BY DEF generateKeyStorageKey, TypeOK, NamesOK, StoreOK, DestroyOK,
           StoredSurvives, Paths, StoreSteps, Building, Destroying, fsVars, locals,
           history
  <1>8. QED
    BY <1>1, <1>2, <1>3, <1>4, <1>5, <1>6, <1>7

LEMMA EncryptStep ==
  ASSUME IInv, encryptWithKeystoreKey
  PROVE  IInv'
  <1> USE PathAssumption, InodeAssumption, CrashAssumption DEF IInv
  <1>1. TypeOK'
    BY DEF encryptWithKeystoreKey, BeginKeystoreOp, TypeOK, Paths, FileNames, Auths,
           Required, StoreSteps, fsVars, locals, history
  <1>2. NamesOK'
    BY DEF encryptWithKeystoreKey, BeginKeystoreOp, TypeOK, NamesOK, StoreOK,
           DestroyOK, Paths, StoreSteps, Building, Destroying, fsVars, locals,
           history
  <1>3. StoreOK'
    BY DEF encryptWithKeystoreKey, BeginKeystoreOp, TypeOK, NamesOK, StoreOK,
           ProgressOK, Required, Openable, Auths, Paths, StoreSteps, Building,
           Destroying, fsVars, locals, history
  <1>4. DestroyOK'
    BY DEF encryptWithKeystoreKey, BeginKeystoreOp, TypeOK, NamesOK, StoreOK,
           DestroyOK, Paths, StoreSteps, Building, Destroying, fsVars, locals,
           history
  <1>5. DestroyedOK'
    BY DEF encryptWithKeystoreKey, BeginKeystoreOp, TypeOK, NamesOK, StoreOK,
           DestroyOK, DestroyedOK, Paths, StoreSteps, Building, Destroying, fsVars,
           locals, history
  <1>6. KeysComplete'
    BY DEF encryptWithKeystoreKey, BeginKeystoreOp, TypeOK, NamesOK, StoreOK,
           DestroyOK, ProgressOK, KeysComplete, Openable, Paths, StoreSteps,
           Building, Destroying, fsVars, locals, history
  <1>7. StoredSurvives'
    BY DEF encryptWithKeystoreKey, BeginKeystoreOp, TypeOK, NamesOK, StoreOK,
           DestroyOK, StoredSurvives, Paths, StoreSteps, Building, Destroying,
           fsVars, locals, history
  <1>8. QED
    BY <1>1, <1>2, <1>3, <1>4, <1>5, <1>6, <1>7

LEMMA FsyncStep ==
  ASSUME IInv, FsyncDirectory
  PROVE  IInv'
  <1> USE PathAssumption, InodeAssumption, CrashAssumption DEF IInv
  <1>1. TypeOK'
    BY DEF FsyncDirectory, TypeOK, Paths, FileNames, Auths, Required, StoreSteps,
           fsVars, locals, history
  <1>2. NamesOK'
    BY DEF FsyncDirectory, TypeOK, NamesOK, StoreOK, DestroyOK, Paths, StoreSteps,
           Building, Destroying, fsVars, locals, history
  <1>3. StoreOK'
    BY DEF FsyncDirectory, TypeOK, NamesOK, StoreOK, ProgressOK, Required, Openable,
           Auths, Paths, StoreSteps, Building, Destroying, fsVars, locals, history
  <1>4. DestroyOK'
    BY DEF FsyncDirectory, TypeOK, NamesOK, StoreOK, DestroyOK, Paths, StoreSteps,
           Building, Destroying, fsVars, locals, history
  <1>5. DestroyedOK'
    BY DEF FsyncDirectory, TypeOK, NamesOK, StoreOK, DestroyOK, DestroyedOK, Paths,
           StoreSteps, Building, Destroying, fsVars, locals, history
  <1>6. KeysComplete'
    BY DEF FsyncDirectory, TypeOK, NamesOK, StoreOK, DestroyOK, ProgressOK,
           KeysComplete, Openable, Paths, StoreSteps, Building, Destroying, fsVars,
           locals, history
  <1>7. StoredSurvives'
    BY DEF FsyncDirectory, TypeOK, NamesOK, StoreOK, DestroyOK, StoredSurvives,
           Paths, StoreSteps, Building, Destroying, fsVars, locals, history
  <1>8. QED
    BY <1>1, <1>2, <1>3, <1>4, <1>5, <1>6, <1>7

LEMMA RenameStep ==
  ASSUME IInv, RenameKeyDir
  PROVE  IInv'
  <1> USE PathAssumption, InodeAssumption, CrashAssumption DEF IInv
  <1>1. TypeOK'
    BY DEF RenameKeyDir, Enter, TypeOK, Paths, FileNames, Auths, Required,
           StoreSteps, fsVars, locals, history
  <1>2. NamesOK'
    BY DEF RenameKeyDir, Enter, TypeOK, NamesOK, StoreOK, DestroyOK, Paths,
           StoreSteps, Building, Destroying, fsVars, locals, history
  <1>3. StoreOK'
    BY DEF RenameKeyDir, Enter, TypeOK, NamesOK, StoreOK, ProgressOK, Required,
           Openable, Auths, Paths, StoreSteps, Building, Destroying, fsVars, locals,
           history
  <1>4. DestroyOK'
    BY DEF RenameKeyDir, Enter, TypeOK, NamesOK, StoreOK, DestroyOK, Paths,
           StoreSteps, Building, Destroying, fsVars, locals, history
  <1>5. DestroyedOK'
    BY DEF RenameKeyDir, Enter, TypeOK, NamesOK, StoreOK, DestroyOK, DestroyedOK,
           Paths, StoreSteps, Building, Destroying, fsVars, locals, history
  <1>6. KeysComplete'
    BY DEF RenameKeyDir, Enter, TypeOK, NamesOK, StoreOK, DestroyOK, ProgressOK,
           KeysComplete, Openable, Paths, StoreSteps, Building, Destroying, fsVars,
           locals, history
  <1>7. StoredSurvives'
    BY DEF RenameKeyDir, Enter, TypeOK, NamesOK, StoreOK, DestroyOK, StoredSurvives,
           Paths, StoreSteps, Building, Destroying, fsVars, locals, history
  <1>8. QED
    BY <1>1, <1>2, <1>3, <1>4, <1>5, <1>6, <1>7

LEMMA FsyncParentStep ==
  ASSUME IInv, FsyncParentDirectory
  PROVE  IInv'
  <1> USE PathAssumption, InodeAssumption, CrashAssumption DEF IInv
  <1>1. TypeOK'
    BY DEF FsyncParentDirectory, Return, TypeOK, StoreOK, Paths, FileNames, Auths,
           Required, StoreSteps, fsVars, locals, history
  <1>2. NamesOK'
    BY DEF FsyncParentDirectory, Return, TypeOK, NamesOK, StoreOK, DestroyOK, Paths,
           StoreSteps, Building, Destroying, fsVars, locals, history
  <1>3. StoreOK'
    BY DEF FsyncParentDirectory, Return, TypeOK, NamesOK, StoreOK, ProgressOK,
           Required, Openable, Auths, Paths, StoreSteps, Building, Destroying,
           fsVars, locals, history
  <1>4. DestroyOK'
    BY DEF FsyncParentDirectory, Return, TypeOK, NamesOK, StoreOK, DestroyOK, Paths,
           StoreSteps, Building, Destroying, fsVars, locals, history
  <1>5. DestroyedOK'
    BY DEF FsyncParentDirectory, Return, TypeOK, NamesOK, StoreOK, DestroyOK,
           DestroyedOK, Paths, StoreSteps, Building, Destroying, fsVars, locals,
           history
  <1>6. KeysComplete'
    BY DEF FsyncParentDirectory, Return, TypeOK, NamesOK, StoreOK, DestroyOK,
           ProgressOK, KeysComplete, Openable, Paths, StoreSteps, Building,
           Destroying, fsVars, locals, history
  <1>7. StoredSurvives'
    BY DEF FsyncParentDirectory, Return, TypeOK, NamesOK, StoreOK, DestroyOK,
           StoredSurvives, Paths, StoreSteps, Building, Destroying, fsVars, locals,
           history
  <1>8. QED
    BY <1>1, <1>2, <1>3, <1>4, <1>5, <1>6, <1>7

LEMMA FailsStep ==
  ASSUME IInv, StoreFails
  PROVE  IInv'
  <1> USE PathAssumption, InodeAssumption, CrashAssumption DEF IInv
  <1>1. TypeOK'
    BY DEF StoreFails, Return, TypeOK, Paths, FileNames, Auths, Required,
           StoreSteps, fsVars, locals, history
  <1>2. NamesOK'
    BY DEF StoreFails, Return, TypeOK, NamesOK, StoreOK, DestroyOK, Paths,
           StoreSteps, Building, Destroying, fsVars, locals, history
  <1>3. StoreOK'
    BY DEF StoreFails, Return, TypeOK, NamesOK, StoreOK, ProgressOK, Required,
           Openable, Auths, Paths, StoreSteps, Building, Destroying, fsVars, locals,
           history
  <1>4. DestroyOK'
    BY DEF StoreFails, Return, TypeOK, NamesOK, StoreOK, DestroyOK, Paths,
           StoreSteps, Building, Destroying, fsVars, locals, history
  <1>5. DestroyedOK'
    BY DEF StoreFails, Return, TypeOK, NamesOK, StoreOK, DestroyOK, DestroyedOK,
           Paths, StoreSteps, Building, Destroying, fsVars, locals, history
  <1>6. KeysComplete'
    BY DEF StoreFails, Return, TypeOK, NamesOK, StoreOK, DestroyOK, ProgressOK,
           KeysComplete, Openable, Paths, StoreSteps, Building, Destroying, fsVars,
           locals, history
  <1>7. StoredSurvives'
    BY DEF StoreFails, Return, TypeOK, NamesOK, StoreOK, DestroyOK, StoredSurvives,
           Paths, StoreSteps, Building, Destroying, fsVars, locals, history
  <1>8. QED
    BY <1>1, <1>2, <1>3, <1>4, <1>5, <1>6, <1>7

LEMMA RetrieveStep ==
  ASSUME NEW i \in Inodes, IInv, retrieveKey(i)
  PROVE  IInv'
  <1>1. UNCHANGED vars
    BY DEF retrieveKey, BeginKeystoreOp, vars, fsVars, locals, history
  <1>2. QED
    BY <1>1, StutterStep

LEMMA DestroyBeginStep ==
  ASSUME NEW p \in KeyPaths, IInv, DestroyBegin(p)
  PROVE  IInv'
  <1> USE PathAssumption, InodeAssumption, CrashAssumption DEF IInv
  <1>1. TypeOK'
    BY DEF DestroyBegin, TypeOK, Paths, FileNames, Auths, Required, StoreSteps,
           fsVars, locals, history
  <1>2. NamesOK'
    BY DEF DestroyBegin, TypeOK, NamesOK, StoreOK, DestroyOK, Paths, StoreSteps,
           Building, Destroying, fsVars, locals, history
  <1>3. StoreOK'
    BY DEF DestroyBegin, TypeOK, NamesOK, StoreOK, ProgressOK, Required, Openable,
           Auths, Paths, StoreSteps, Building, Destroying, fsVars, locals, history
  <1>4. DestroyOK'
    BY DEF DestroyBegin, TypeOK, NamesOK, StoreOK, DestroyOK, Paths, StoreSteps,
           Building, Destroying, fsVars, locals, history
  <1>5. DestroyedOK'
    BY DEF DestroyBegin, TypeOK, NamesOK, StoreOK, DestroyOK, DestroyedOK, Paths,
           StoreSteps, Building, Destroying, fsVars, locals, history
  <1>6. KeysComplete'
    BY DEF DestroyBegin, TypeOK, NamesOK, StoreOK, DestroyOK, ProgressOK,
           KeysComplete, Openable, Paths, StoreSteps, Building, Destroying, fsVars,
           locals, history
  <1>7. StoredSurvives'
    BY DEF DestroyBegin, TypeOK, NamesOK, StoreOK, DestroyOK, StoredSurvives, Paths,
           StoreSteps, Building, Destroying, fsVars, locals, history
  <1>8. QED
    BY <1>1, <1>2, <1>3, <1>4, <1>5, <1>6, <1>7

LEMMA DeleteKeyStep ==
  ASSUME IInv, DeleteKeystoreKey
  PROVE  IInv'
  <1> USE PathAssumption, InodeAssumption, CrashAssumption DEF IInv
  <1>1. TypeOK'
    BY DEF DeleteKeystoreKey, Victim, TypeOK, Paths, FileNames, Auths, Required,
           StoreSteps, fsVars, locals, history
  <1>2. NamesOK'
    BY DEF DeleteKeystoreKey, Victim, TypeOK, NamesOK, StoreOK, DestroyOK, Paths,
           StoreSteps, Building, Destroying, fsVars, locals, history
  <1>3. StoreOK'
    BY DEF DeleteKeystoreKey, Victim, TypeOK, NamesOK, StoreOK, ProgressOK,
           Required, Openable, Auths, Paths, StoreSteps, Building, Destroying,
           fsVars, locals, history
  <1>4. DestroyOK'
    BY DEF DeleteKeystoreKey, Victim, TypeOK, NamesOK, StoreOK, DestroyOK, Paths,
           StoreSteps, Building, Destroying, fsVars, locals, history
  <1>5. DestroyedOK'
    BY DEF DeleteKeystoreKey, Victim, TypeOK, NamesOK, StoreOK, DestroyOK,
           DestroyedOK, Paths, StoreSteps, Building, Destroying, fsVars, locals,
           history
  <1>6. KeysComplete'
    BY DEF DeleteKeystoreKey, Victim, TypeOK, NamesOK, StoreOK, DestroyOK,
           ProgressOK, KeysComplete, Openable, Paths, StoreSteps, Building,
           Destroying, fsVars, locals, history
  <1>7. StoredSurvives'
    BY DEF DeleteKeystoreKey, Victim, TypeOK, NamesOK, StoreOK, DestroyOK,
           StoredSurvives, Paths, StoreSteps, Building, Destroying, fsVars, locals,
           history
  <1>8. QED
    BY <1>1, <1>2, <1>3, <1>4, <1>5, <1>6, <1>7

LEMMA SecdiscardStep ==
  ASSUME IInv, Secdiscard
  PROVE  IInv'
  <1> USE PathAssumption, InodeAssumption, CrashAssumption DEF IInv
  <1> DEFINE named == {"encrypted_key"} \cup
                      (files[Victim] \cap {"secdiscardable", "keymaster_key_blob"})
  <1> PICK gone \in SUBSET (named \cap files[Victim]) :
             /\ files' = [files EXCEPT ![Victim] = @ \ gone]
             /\ kept' = [kept EXCEPT ![Victim] = @ \ gone]
             /\ ok' = (ok /\ gone = named)
    BY DEF Secdiscard
  <1> HIDE DEF named
  <1>v. Victim \in Inodes
    BY DEF Secdiscard, Victim, TypeOK, DestroyOK, Destroying
  <1>1. TypeOK'
    <2>1. ok' \in BOOLEAN
      OBVIOUS
    <2>2. files' \in [Inodes -> SUBSET FileNames] /\ kept' \in [Inodes -> SUBSET FileNames]
      BY DEF TypeOK
    <2>3. QED
    BY <2>1, <2>2 DEF Secdiscard, Victim, TypeOK, Paths, FileNames, Auths, Required,
           StoreSteps, fsVars, locals, history
  <1>2. NamesOK'
    BY DEF Secdiscard, Victim, TypeOK, NamesOK, StoreOK, DestroyOK, Paths,
           StoreSteps, Building, Destroying, fsVars, locals, history
  <1>3. StoreOK'
    BY DEF Secdiscard, Victim, TypeOK, NamesOK, StoreOK, ProgressOK, Required,
           Openable, Auths, Paths, StoreSteps, Building, Destroying, fsVars, locals,
           history
  <1>4. DestroyOK'
    <2>1. UNCHANGED <<ns, made, target, cur, path, doomed>> /\ pc = "secdiscard" /\ pc' = "rm"
      BY DEF Secdiscard, history
    <2>2. ok' => "encrypted_key" \in gone
      BY DEF named
    <2>3. ok' => "encrypted_key" \notin files'[Victim] \cup kept'[Victim]
      BY <1>v, <2>2 DEF TypeOK
    <2>4. QED
      BY <2>1, <2>3 DEF DestroyOK, Destroying, Victim
  <1>5. DestroyedOK'
    BY DEF Secdiscard, Victim, TypeOK, NamesOK, StoreOK, DestroyOK, DestroyedOK,
           Paths, StoreSteps, Building, Destroying, fsVars, locals, history
  <1>6. KeysComplete'
    BY DEF Secdiscard, Victim, TypeOK, NamesOK, StoreOK, DestroyOK, ProgressOK,
           KeysComplete, Openable, Paths, StoreSteps, Building, Destroying, fsVars,
           locals, history
  <1>7. StoredSurvives'
    BY DEF Secdiscard, Victim, TypeOK, NamesOK, StoreOK, DestroyOK, StoredSurvives,
           Paths, StoreSteps, Building, Destroying, fsVars, locals, history
  <1>8. QED
    BY <1>1, <1>2, <1>3, <1>4, <1>5, <1>6, <1>7

LEMMA RmStep ==
  ASSUME IInv, recursiveDeleteKey
  PROVE  IInv'
  <1> USE PathAssumption, InodeAssumption, CrashAssumption DEF IInv
  <1> DEFINE Removed == /\ files' = [files EXCEPT ![Victim] = {}]
                        /\ Enter([ns EXCEPT ![target] = None])
                        /\ AfterDestroy(ok)
             Failed == /\ \E rest \in {{}, files[Victim]} :
                            files' = [files EXCEPT ![Victim] = rest]
                       /\ AfterDestroy(FALSE)
                       /\ UNCHANGED <<ns, onDisk>>
  <1>a. Removed \/ Failed
    BY DEF recursiveDeleteKey
  <1>v. Victim \in Inodes
    BY DEF recursiveDeleteKey, Victim, TypeOK, DestroyOK, Destroying
  <1>1. TypeOK'
    <2>1. CASE cur = None /\ Removed
      BY <2>1, <1>v DEF recursiveDeleteKey, Victim, Enter, AfterDestroy, Return,
             TypeOK, StoreOK, DestroyOK, Destroying, Paths, FileNames, Auths,
             Required, StoreSteps, fsVars, locals, history
    <2>2. CASE cur = None /\ Failed
      BY <2>2, <1>v DEF recursiveDeleteKey, Victim, Enter, AfterDestroy, Return,
             TypeOK, StoreOK, DestroyOK, Destroying, Paths, FileNames, Auths,
             Required, StoreSteps, fsVars, locals, history
    <2>3. CASE cur # None /\ Removed
      BY <2>3, <1>v DEF recursiveDeleteKey, Victim, Enter, AfterDestroy, Return,
             TypeOK, StoreOK, DestroyOK, Destroying, Paths, FileNames, Auths,
             Required, StoreSteps, fsVars, locals, history
    <2>4. CASE cur # None /\ Failed
      BY <2>4, <1>v DEF recursiveDeleteKey, Victim, Enter, AfterDestroy, Return,
             TypeOK, StoreOK, DestroyOK, Destroying, Paths, FileNames, Auths,
             Required, StoreSteps, fsVars, locals, history
    <2>5. QED
      BY <1>a, <2>1, <2>2, <2>3, <2>4
  <1>2. NamesOK'
    BY DEF recursiveDeleteKey, Victim, Enter, AfterDestroy, Return, TypeOK, NamesOK,
           StoreOK, DestroyOK, Paths, StoreSteps, Building, Destroying, fsVars,
           locals, history
  <1>3. StoreOK'
    <2>1. CASE cur = None /\ Removed
      BY <2>1, <1>v DEF recursiveDeleteKey, Victim, Enter, AfterDestroy, Return,
             TypeOK, DestroyOK, NamesOK, StoreOK, ProgressOK, Required, Openable,
             Auths, Paths, StoreSteps, Building, Destroying, fsVars, locals,
             history
    <2>2. CASE cur = None /\ Failed
      BY <2>2, <1>v DEF recursiveDeleteKey, Victim, Enter, AfterDestroy, Return,
             TypeOK, DestroyOK, NamesOK, StoreOK, ProgressOK, Required, Openable,
             Auths, Paths, StoreSteps, Building, Destroying, fsVars, locals,
             history
    <2>3. CASE cur # None /\ Removed
      BY <2>3, <1>v DEF recursiveDeleteKey, Victim, Enter, AfterDestroy, Return,
             TypeOK, DestroyOK, NamesOK, StoreOK, ProgressOK, Required, Openable,
             Auths, Paths, StoreSteps, Building, Destroying, fsVars, locals,
             history
    <2>4. CASE cur # None /\ Failed
      BY <2>4, <1>v DEF recursiveDeleteKey, Victim, Enter, AfterDestroy, Return,
             TypeOK, DestroyOK, NamesOK, StoreOK, ProgressOK, Required, Openable,
             Auths, Paths, StoreSteps, Building, Destroying, fsVars, locals,
             history
    <2>5. QED
      BY <1>a, <2>1, <2>2, <2>3, <2>4
  <1>4. DestroyOK'
    BY DEF recursiveDeleteKey, Victim, Enter, AfterDestroy, Return, TypeOK, NamesOK,
           StoreOK, DestroyOK, Paths, StoreSteps, Building, Destroying, fsVars,
           locals, history
  <1>5. DestroyedOK'
    BY DEF recursiveDeleteKey, Victim, Enter, AfterDestroy, Return, TypeOK, NamesOK,
           StoreOK, DestroyOK, DestroyedOK, Paths, StoreSteps, Building, Destroying,
           fsVars, locals, history
  <1>6. KeysComplete'
    BY DEF recursiveDeleteKey, Victim, Enter, AfterDestroy, Return, TypeOK, NamesOK,
           StoreOK, DestroyOK, ProgressOK, KeysComplete, Openable, Paths,
           StoreSteps, Building, Destroying, fsVars, locals, history
  <1>7. StoredSurvives'
    BY DEF recursiveDeleteKey, Victim, Enter, AfterDestroy, Return, TypeOK, NamesOK,
           StoreOK, DestroyOK, StoredSurvives, Paths, StoreSteps, Building,
           Destroying, fsVars, locals, history
  <1>8. QED
    BY <1>1, <1>2, <1>3, <1>4, <1>5, <1>6, <1>7

LEMMA CrashStep ==
  ASSUME IInv, Crash
  PROVE  IInv'
  <1> USE PathAssumption, InodeAssumption, CrashAssumption DEF IInv
  <1>1. TypeOK'
    BY DEF Crash, Return, TypeOK, Paths, FileNames, Auths, Required, StoreSteps,
           fsVars, locals, history
  <1>2. NamesOK'
    BY DEF Crash, Return, TypeOK, NamesOK, StoreOK, DestroyOK, Paths, StoreSteps,
           Building, Destroying, fsVars, locals, history
  <1>3. StoreOK'
    BY DEF Crash, Return, TypeOK, NamesOK, StoreOK, ProgressOK, Required, Openable,
           Auths, Paths, StoreSteps, Building, Destroying, fsVars, locals, history
  <1>4. DestroyOK'
    BY DEF Crash, Return, TypeOK, NamesOK, StoreOK, DestroyOK, Paths, StoreSteps,
           Building, Destroying, fsVars, locals, history
  <1>5. DestroyedOK'
    BY DEF Crash, Return, TypeOK, NamesOK, StoreOK, DestroyOK, DestroyedOK, Paths,
           StoreSteps, Building, Destroying, fsVars, locals, history
  <1>6. KeysComplete'
    BY DEF Crash, Return, TypeOK, NamesOK, StoreOK, DestroyOK, ProgressOK,
           KeysComplete, Openable, Paths, StoreSteps, Building, Destroying, fsVars,
           locals, history
  <1>7. StoredSurvives'
    BY DEF Crash, Return, TypeOK, NamesOK, StoreOK, DestroyOK, StoredSurvives,
           Paths, StoreSteps, Building, Destroying, fsVars, locals, history
  <1>8. QED
    BY <1>1, <1>2, <1>3, <1>4, <1>5, <1>6, <1>7

-----------------------------------------------------------------------------
LEMMA NextInv ==
  ASSUME IInv, [Next]_vars
  PROVE  IInv'
  <1>1. CASE StoreNext
    <2>1. CASE \E p \in KeyPaths, a \in Auths : StoreBegin(p, a)
      BY <2>1, StoreBeginStep
    <2>2. CASE \E f \in FileNames : WriteFile(f)
      BY <2>2, WriteFileStep
    <2>3. QED
      BY <1>1, <2>1, <2>2, MkdirStep, GenerateStep, EncryptStep, FsyncStep, RenameStep,
         FsyncParentStep, FailsStep DEF StoreNext
  <1>2. CASE DestroyNext
    <2>1. CASE \E p \in KeyPaths : DestroyBegin(p)
      BY <2>1, DestroyBeginStep
    <2>2. QED
      BY <1>2, <2>1, DeleteKeyStep, SecdiscardStep, RmStep DEF DestroyNext
  <1>3. CASE RetrieveNext
    <2>1. PICK p \in KeyPaths : ns[p] # None /\ retrieveKey(ns[p])
      BY <1>3 DEF RetrieveNext
    <2>2. ns[p] \in Inodes
      BY <2>1 DEF IInv, TypeOK, Paths
    <2>3. QED
      BY <2>1, <2>2, RetrieveStep
  <1>4. CASE Crash
    BY <1>4, CrashStep
  <1>5. CASE UNCHANGED vars
    BY <1>5, StutterStep
  <1>6. QED
    BY <1>1, <1>2, <1>3, <1>4, <1>5 DEF Next

(* The inductive invariant holds whatever the callers do and whenever power *)
(* is lost.                                                                 *)
THEOREM Invariance == Spec => []IInv
  BY InitInv, NextInv, PTL DEF Spec

(* Every variable of KeyStorage keeps its type. *)
THEOREM TypeCorrect == Spec => []TypeOK
  BY Invariance, PTL DEF IInv

(* storeKeyAtomically never leaves a broken key under a key_path, wherever  *)
(* power is lost.                                                           *)
THEOREM CompleteKeys == Spec => []KeysComplete
  BY Invariance, PTL DEF IInv

(* An acknowledged key is found under its path after any power loss, until  *)
(* a caller destroys it.                                                    *)
THEOREM StoredKeysSurvive == Spec => []StoredSurvives
  BY Invariance, PTL DEF IInv

LEMMA DestroyedNotOpenable == IInv => DestroyedStaysDestroyed
  BY DEF IInv, DestroyedOK, DestroyedStaysDestroyed, Openable, Required

(* A key destroyKey reported destroyed can never be opened again. *)
THEOREM DestroyedKeysStayDestroyed == Spec => []DestroyedStaysDestroyed
  BY Invariance, DestroyedNotOpenable, PTL
-----------------------------------------------------------------------------
(* The refinement.  A step that a caller does not see leaves the key under  *)
(* each path, what was acknowledged and what was asked to be destroyed.     *)

(* No directory has two names under key paths; what an older name space has *)
(* under a path, and nobody asked to destroy, is still there; and the key   *)
(* of a call that waits for the parent's sync is nobody's to destroy.       *)
OneName ==
    /\ \A n \in onDisk, p, q \in KeyPaths : n[p] = n[q] /\ n[p] # None => p = q
    /\ \A n \in onDisk, p \in KeyPaths : n[p] \notin doomed \cup {None} => ns[p] = n[p]
    /\ pc = "fsyncparent" => cur \notin doomed

KeyOf == [p \in KeyPaths |-> IF ns[p] \in doomed THEN None ELSE ns[p]]

LEMMA OneNameInit == Init => OneName
  BY PathAssumption, InodeAssumption DEF Init, OneName, Paths

LEMMA OneNameNext == IInv /\ OneName /\ [Next]_vars => OneName'
  <1>. SUFFICES ASSUME IInv, OneName, [Next]_vars PROVE OneName'
    OBVIOUS
  <1>. USE PathAssumption, InodeAssumption DEF IInv
  <1>1. CASE UNCHANGED <<ns, onDisk, doomed>> /\ pc' # "fsyncparent"
    BY <1>1 DEF OneName
  <1>2. CASE Mkdir
    BY <1>2 DEF Mkdir, Enter, OneName, TypeOK, Paths, locals, history
  <1>3. CASE RenameKeyDir
    BY <1>3 DEF RenameKeyDir, Enter, OneName, TypeOK, NamesOK, StoreOK, Building, Paths, locals, history
  <1>4. CASE FsyncParentDirectory
    BY <1>4 DEF FsyncParentDirectory, Return, OneName, TypeOK
  <1>5. ASSUME NEW p \in KeyPaths, DestroyBegin(p) PROVE OneName'
    BY <1>5 DEF DestroyBegin, OneName, fsVars
  <1>6. CASE recursiveDeleteKey
    BY <1>6 DEF recursiveDeleteKey, Victim, Enter, AfterDestroy, Return, OneName, TypeOK, DestroyOK,
                Destroying, Paths, locals
  <1>7. CASE Crash
    BY <1>7 DEF Crash, Return, OneName, TypeOK, history
  <1>8. CASE (\E p \in KeyPaths, a \in Auths : StoreBegin(p, a)) \/ (\E f \in FileNames : WriteFile(f))
             \/ generateKeyStorageKey \/ encryptWithKeystoreKey \/ FsyncDirectory \/ StoreFails
             \/ DeleteKeystoreKey \/ Secdiscard \/ RetrieveNext \/ UNCHANGED vars
    BY <1>8 DEF StoreBegin, WriteFile, AfterWrite, generateKeyStorageKey, encryptWithKeystoreKey,
                BeginKeystoreOp, FsyncDirectory, StoreFails, DeleteKeystoreKey, Secdiscard,
                RetrieveNext, retrieveKey, Return, FileNames, OneName, vars, fsVars, locals, history
  <1>. QED
    BY <1>2, <1>3, <1>4, <1>5, <1>6, <1>7, <1>8 DEF Next, StoreNext, DestroyNext

(* A key directory appears under its path by the rename.                    *)
LEMMA RenamePublishes ==
    ASSUME IInv, OneName, RenameKeyDir PROVE Abstract!Publish(path, cur)
  <1>. USE PathAssumption, InodeAssumption DEF IInv
  <1>1. /\ path \in KeyPaths /\ cur \in Inodes /\ cur # None /\ ns[TmpPath] = cur /\ ns[path] = None
        /\ cur \notin doomed /\ TmpPath \in Paths /\ UNCHANGED <<stored, doomed>>
    BY DEF RenameKeyDir, StoreOK, StoreSteps, Building, Paths, history
  <1>2. \A q \in KeyPaths : ns[q] # cur
    BY <1>1 DEF NamesOK, TypeOK
  <1>3. cur \notin stored
    BY <1>1, <1>2 DEF StoredSurvives, TypeOK
  <1>4. \A q \in KeyPaths : ns'[q] = IF q = path THEN cur ELSE ns[q]
    BY <1>1 DEF RenameKeyDir, Enter, TypeOK, Paths
  <1>. QED
    BY <1>1, <1>2, <1>3, <1>4 DEF Abstract!Publish

LEMMA SyncAcknowledges ==
    ASSUME IInv, OneName, FsyncParentDirectory PROVE Abstract!Acknowledge(path)
  <1>. USE InodeAssumption DEF IInv
  <1>1. path \in KeyPaths /\ ns[path] = cur /\ cur \notin doomed /\ cur # None
    BY DEF FsyncParentDirectory, StoreOK, StoreSteps, OneName
  <1>. QED
    BY <1>1 DEF FsyncParentDirectory, Abstract!Acknowledge

LEMMA CallDestroys ==
    ASSUME IInv, OneName, NEW p \in KeyPaths, DestroyBegin(p)
    PROVE  Abstract!Destroy(p) \/ UNCHANGED Abstract!vars
  <1>. USE InodeAssumption DEF IInv
  <1>1. CASE ns[p] \in doomed
    BY <1>1 DEF DestroyBegin, fsVars, Abstract!vars
  <1>2. CASE ns[p] \notin doomed
    <2>1. \A q \in KeyPaths : q # p => ns[q] # ns[p]
      BY DEF DestroyBegin, OneName, TypeOK
    <2>. QED
      BY <1>2, <2>1 DEF DestroyBegin, fsVars, Abstract!Destroy
  <1>. QED
    BY <1>1, <1>2

(* What a power loss takes away was not acknowledged.                       *)
LEMMA CrashLoses ==
    ASSUME IInv, OneName, Crash PROVE \E lost \in SUBSET KeyPaths : Abstract!Lose(lost)
  <1>. USE InodeAssumption DEF IInv
  <1>. DEFINE lost == {p \in KeyPaths : ns'[p] # ns[p]}
  <1>1. ns' \in onDisk /\ UNCHANGED <<stored, doomed>>
    BY DEF Crash, history
  <1>2. \A p \in lost : ns'[p] \in doomed \cup {None}
    BY <1>1 DEF OneName
  <1>3. ASSUME NEW p \in lost PROVE KeyOf[p] \notin stored
    <2>1. SUFFICES ASSUME ns[p] \in stored \ doomed PROVE FALSE
      BY DEF KeyOf, TypeOK
    <2>2. PICK q \in KeyPaths : ns'[q] = ns[p]
      BY <1>1, <2>1 DEF StoredSurvives
    <2>3. ns[q] = ns[p] /\ ns[p] # None
      BY <1>1, <2>1, <2>2 DEF OneName, TypeOK
    <2>. QED
      BY <2>2, <2>3 DEF OneName, TypeOK
  <1>4. KeyOf' = [p \in KeyPaths |-> IF p \in lost THEN None ELSE KeyOf[p]]
    BY <1>1, <1>2 DEF KeyOf
  <1>5. Abstract!Lose(lost)
    BY <1>1, <1>3, <1>4 DEF Abstract!Lose, KeyOf
  <1>6. lost \in SUBSET KeyPaths
    OBVIOUS
  <1>. HIDE DEF lost
  <1>. QED
    BY <1>5, <1>6 DEF Abstract!Lose

(* Every step of KeyStorage is one of the abstract store, or none.          *)
LEMMA StepImplements ==
    ASSUME IInv, OneName, [Next]_vars PROVE [Abstract!Next]_(Abstract!vars)
  <1>. USE InodeAssumption, PathAssumption DEF IInv
  <1>1. CASE RenameKeyDir
    <2>1. path \in KeyPaths /\ cur \in Inodes
      BY <1>1 DEF RenameKeyDir, StoreOK, StoreSteps
    <2>2. \E p \in KeyPaths, i \in Inodes : Abstract!Publish(p, i)
      BY <1>1, <2>1, RenamePublishes DEF Abstract!Publish
    <2>. QED
      BY <2>2 DEF Abstract!Next
  <1>2. CASE FsyncParentDirectory
    BY <1>2, SyncAcknowledges DEF Abstract!Next, FsyncParentDirectory, StoreOK, StoreSteps
  <1>3. ASSUME NEW p \in KeyPaths, DestroyBegin(p) PROVE [Abstract!Next]_(Abstract!vars)
    BY <1>3, CallDestroys DEF Abstract!Next
  <1>4. CASE Crash
    BY <1>4, CrashLoses DEF Abstract!Next
  <1>5. CASE Mkdir \/ recursiveDeleteKey
    <2>1. UNCHANGED <<stored, doomed>>
      BY <1>5 DEF Mkdir, recursiveDeleteKey, history
    <2>2. \A p \in KeyPaths : ns'[p] = ns[p] \/ (ns[p] \in doomed /\ ns'[p] = None)
      BY <1>5 DEF Mkdir, recursiveDeleteKey, Enter, Victim, TypeOK, DestroyOK, Destroying, Paths
    <2>. QED
      BY <2>1, <2>2 DEF Abstract!vars
  <1>6. CASE (\E p \in KeyPaths, a \in Auths : StoreBegin(p, a)) \/ (\E f \in FileNames : WriteFile(f))
             \/ generateKeyStorageKey \/ encryptWithKeystoreKey \/ FsyncDirectory \/ StoreFails
             \/ DeleteKeystoreKey \/ Secdiscard \/ RetrieveNext \/ UNCHANGED vars
    <2>1. UNCHANGED <<ns, stored, doomed>>
      BY <1>6 DEF StoreBegin, WriteFile, generateKeyStorageKey, encryptWithKeystoreKey,
                  BeginKeystoreOp, FsyncDirectory, StoreFails, DeleteKeystoreKey, Secdiscard,
                  RetrieveNext, retrieveKey, vars, fsVars, history
    <2>. QED
      BY <2>1 DEF Abstract!vars
  <1>. QED
    BY <1>1, <1>2, <1>3, <1>4, <1>5, <1>6 DEF Next, StoreNext, DestroyNext

(* Stores and destructions that power losses may cut anywhere look to their *)
(* callers like those of a store whose keys come and go in one step.        *)
THEOREM Refinement == Spec => ImplementsAtomicStore
  <1>1. Init => Abstract!Init
    BY PathAssumption, InodeAssumption DEF Init, Abstract!Init, Paths
  <1>2. Spec => []OneName
    BY Invariance, OneNameInit, OneNameNext, PTL DEF Spec
  <1>. QED
    BY <1>1, <1>2, Invariance, StepImplements, PTL DEF Spec, ImplementsAtomicStore, Abstract!Spec

-----------------------------------------------------------------------------
(* The storage binding, for any threads, keys and seeds.                   *)

(* The two properties are inductive together: a key is used only by a call  *)
(* whose application id is not stale.                                       *)
BindingInv == BindingTypeOK /\ SeedRequired /\ AppIdNotStale

LEMMA BindingInitInv == BindingInit => BindingInv
  BY SeedAssumption, BootAssumption DEF BindingInit, BindingInv, BindingTypeOK, SeedRequired, AppIdNotStale, Calls

LEMMA BindingNextInv ==
  ASSUME BindingInv, [BindingNext]_bindingVars
  PROVE  BindingInv'
  <1> USE SeedAssumption, BootAssumption
          DEF BindingInv, BindingTypeOK, SeedRequired, AppIdNotStale, Binding, Calls
  <1>1. ASSUME NEW t \in Threads, NEW c \in Calls, NEW k \in Keys, Begin(t, c, k)
        PROVE  BindingInv'
    BY <1>1 DEF Begin
  <1>2. ASSUME NEW t \in Threads, generateAppId(t)
        PROVE  BindingInv'
    BY <1>2 DEF generateAppId
  <1>3. ASSUME NEW t \in Threads, StoreUnderId(t)
        PROVE  BindingInv'
    BY <1>3 DEF StoreUnderId, Finish
  <1>4. ASSUME NEW t \in Threads, OpenUnderId(t)
        PROVE  BindingInv'
    BY <1>4 DEF OpenUnderId, Finish
  <1>5. ASSUME NEW t \in Threads, Fail(t)
        PROVE  BindingInv'
    BY <1>5 DEF Fail, Finish
  <1>6. ASSUME NEW s \in Seeds, setKeyStorageBindingSeed(s)
        PROVE  BindingInv'
    BY <1>6 DEF setKeyStorageBindingSeed
  <1>7. CASE Reboot
    BY <1>7 DEF Reboot
  <1>8. CASE UNCHANGED bindingVars
    BY <1>8 DEF bindingVars
  <1>9. QED
    BY <1>1, <1>2, <1>3, <1>4, <1>5, <1>6, <1>7, <1>8 DEF BindingNext

LEMMA BindingInvariance == BindingSpec => []BindingInv
  BY BindingInitInv, BindingNextInv, PTL DEF BindingSpec

(* Whatever the interleaving of threads and seed, every key used in a boot  *)
(* is bound to what the boot settled on.                                    *)
THEOREM SeedIsRequired == BindingSpec => []SeedRequired
  <1>1. BindingInv => SeedRequired
    BY DEF BindingInv
  <1>2. QED
    BY <1>1, BindingInvariance, PTL

(* Every variable keeps its type, and no application id a call holds while  *)
(* it goes on is one the boot has not settled on (storeKey, retrieveKey).   *)
THEOREM AppIdsStayValid == BindingSpec => [](BindingTypeOK /\ AppIdNotStale)
  <1>1. BindingInv => BindingTypeOK /\ AppIdNotStale
    BY DEF BindingInv
  <1>2. QED
    BY <1>1, BindingInvariance, PTL
=============================================================================
