----------------------------- MODULE KeyStorage -----------------------------
(***************************************************************************)
(* The key directories of system/vold/KeyStorage.cpp: storing a key        *)
(* atomically, opening it, destroying it (StorageBinding has the seed).    *)
(*                                                                         *)
(* A key directory is an inode; the name space maps a path to an inode.    *)
(* Power may fail between any two steps.  What survives then:              *)
(*   - the name space is one of those in onDisk: journaled, so a past name *)
(*     space, and no older than the last fsync of a parent directory;      *)
(*   - of an inode's files, those both visible and kept, or with luck all  *)
(*     those visible or kept (fsync of the directory keeps the visible     *)
(*     ones, secdiscard forgets a file for good, rm does not).             *)
(* A file is in a directory only once it is completely written: a file cut *)
(* short is as useless to this code as a missing one.                      *)
(*                                                                         *)
(* One thread stores and destroys at a time: its callers hold a lock.      *)
(***************************************************************************)
EXTENDS Naturals, FiniteSets

CONSTANTS
    KeyPaths,   \* final paths of keys (key_path)
    TmpPath,    \* the one temporary path keys are built under (tmp_path)
    Inodes,     \* identities of key directories
    OsKey,      \* the inode of a key Android stored before this boot
    None,       \* no directory
    MaxCrashes  \* bound on power losses

ASSUME PathAssumption == TmpPath \notin KeyPaths
ASSUME InodeAssumption == OsKey \in Inodes /\ None \notin Inodes
ASSUME CrashAssumption == MaxCrashes \in Nat

Paths == KeyPaths \cup {TmpPath}
FileNames == {"version", "secdiscardable", "keymaster_key_blob", "encrypted_key"}
Auths == {"keystore", "secret"}

VARIABLES
    ns,         \* the name space: path -> inode or None
    onDisk,     \* the name spaces a power loss can leave
    files,      \* inode -> its visible files
    kept,       \* inode -> its files that are on disk
    live,       \* inodes with a Keystore key that is not deleted
    auth,       \* inode -> how its key is protected
    made,       \* the inodes made so far
    pc,         \* where the storing or destroying thread is
    path,       \* the key_path of its call
    target,     \* the directory it destroys: key_path or TmpPath
    cur,        \* the inode it builds, None when it only destroys
    ok,         \* destroyKey's success
    stored,     \* inodes for which storeKeyAtomically returned true
    doomed,     \* inodes a caller asked destroyKey to destroy
    destroyed,  \* inodes for which destroyKey returned true
    crashes

fsVars == <<ns, onDisk, files, kept, made, auth>>
locals == <<path, target, cur, ok>>
history == <<stored, doomed, destroyed>>
vars == <<fsVars, live, pc, locals, history, crashes>>

(* The files retrieveKey needs from a directory. *)
Required(a) ==
    {"version", "encrypted_key"} \cup
    (IF a = "keystore" THEN {"secdiscardable", "keymaster_key_blob"} ELSE {})

(* Everything needed is there, and its Keystore key was not deleted. *)
Openable(i, fileSet) ==
    /\ Required(auth[i]) \subseteq fileSet
    /\ auth[i] = "keystore" => i \in live

-----------------------------------------------------------------------------
(* A name space change becomes one more state a power loss can leave. *)
Enter(n) == ns' = n /\ onDisk' = onDisk \cup {n}

(* The call returns; its locals die. *)
Return == pc' = "idle" /\ path' = None /\ target' = TmpPath /\ cur' = None /\ ok' = TRUE

(* storeKeyAtomically: refuses an existing key_path, destroys a leftover. *)
StoreBegin(p, a) ==
    /\ pc = "idle" /\ ns[p] = None
    /\ \E i \in Inodes \ made : cur' = i /\ auth' = [auth EXCEPT ![i] = a]
    /\ path' = p /\ target' = TmpPath /\ ok' = TRUE
    /\ pc' = IF ns[TmpPath] = None THEN "mkdir" ELSE "delete"
    /\ UNCHANGED <<ns, onDisk, files, kept, made, live, history, crashes>>

(* storeKey: mkdir fails on a directory that could not be destroyed. *)
Mkdir ==
    /\ pc = "mkdir" /\ ns[TmpPath] = None
    /\ Enter([ns EXCEPT ![TmpPath] = cur])
    /\ made' = made \cup {cur}
    /\ pc' = "version"
    /\ UNCHANGED <<files, kept, auth, live, locals, history, crashes>>

AfterWrite(f) ==
    CASE f = "version" -> IF auth[cur] = "keystore" THEN "secdiscardable" ELSE "encrypted_key"
      [] f = "secdiscardable" -> "generate"
      [] f = "keymaster_key_blob" -> "encrypt"
      [] f = "encrypted_key" -> "fsync"

(* One writeStringToFile of storeKey or of createSecdiscardable. *)
WriteFile(f) ==
    /\ pc = f
    /\ files' = [files EXCEPT ![cur] = @ \cup {f}]
    /\ pc' = AfterWrite(f)
    /\ UNCHANGED <<ns, onDisk, kept, made, auth, live, locals, history, crashes>>

(* generateKeyStorageKey, rollback-resistant or not. *)
generateKeyStorageKey ==
    /\ pc = "generate"
    /\ live' = live \cup {cur}
    /\ pc' = "keymaster_key_blob"
    /\ UNCHANGED <<fsVars, locals, history, crashes>>

(* Mutant: an upgraded blob is committed and the original key deleted. *)
BeginAndCommitUpgrade(i) ==
    /\ "keymaster_key_blob" \in files[i] /\ i \in live
    /\ live' = live \ {i}
    /\ UNCHANGED fsVars

(* The blob is read and used.  One that KeyMint upgrades serves this        *)
(* operation only: neither the file nor the Keystore key changes.           *)
BeginKeystoreOp(i) ==
    /\ "keymaster_key_blob" \in files[i] /\ i \in live
    /\ UNCHANGED <<fsVars, live>>

encryptWithKeystoreKey ==
    /\ pc = "encrypt"
    /\ BeginKeystoreOp(cur)
    /\ pc' = "encrypted_key"
    /\ UNCHANGED <<locals, history, crashes>>

(* Mutant: the directory is renamed without having been synced. *)
NoFsyncDirectory ==
    /\ pc = "fsync" /\ pc' = "rename"
    /\ UNCHANGED <<fsVars, live, locals, history, crashes>>

FsyncDirectory ==
    /\ pc = "fsync"
    /\ kept' = [kept EXCEPT ![cur] = files[cur]]
    /\ pc' = "rename"
    /\ UNCHANGED <<ns, onDisk, files, made, auth, live, locals, history, crashes>>

RenameKeyDir ==
    /\ pc = "rename" /\ ns[path] = None
    /\ Enter([ns EXCEPT ![path] = ns[TmpPath], ![TmpPath] = None])
    /\ pc' = "fsyncparent"
    /\ UNCHANGED <<files, kept, made, auth, live, locals, history, crashes>>

(* Mutant: the store is acknowledged without a sync of the parent. *)
NoFsyncParentDirectory ==
    /\ pc = "fsyncparent"
    /\ stored' = stored \cup {cur}
    /\ Return
    /\ UNCHANGED <<fsVars, live, doomed, destroyed, crashes>>

FsyncParentDirectory ==
    /\ pc = "fsyncparent"
    /\ onDisk' = {ns}
    /\ stored' = stored \cup {cur}
    /\ Return
    /\ UNCHANGED <<ns, files, kept, made, auth, live, doomed, destroyed, crashes>>

(* Any step of the call returns false: what was done so far stays. *)
StoreSteps == {"mkdir", "version", "secdiscardable", "generate", "keymaster_key_blob",
               "encrypt", "encrypted_key", "fsync", "rename", "fsyncparent"}
StoreFails ==
    /\ pc \in StoreSteps
    /\ Return
    /\ UNCHANGED <<fsVars, live, history, crashes>>

(* retrieveKey, by any thread: it may open a key and changes nothing.       *)
retrieveKey(i) ==
    /\ Openable(i, files[i])
    /\ IF auth[i] = "keystore" THEN BeginKeystoreOp(i) ELSE UNCHANGED <<fsVars, live>>
    /\ UNCHANGED <<pc, locals, history, crashes>>

-----------------------------------------------------------------------------
(* destroyKey, called on a key or, from storeKeyAtomically, on a leftover.  *)
DestroyBegin(p) ==
    /\ pc = "idle" /\ ns[p] # None
    /\ path' = p /\ target' = p /\ cur' = None /\ ok' = TRUE
    /\ doomed' = doomed \cup {ns[p]}
    /\ pc' = "delete"
    /\ UNCHANGED <<fsVars, live, stored, destroyed, crashes>>

Victim == ns[target]

(* DeleteKeystoreKey, if there is a blob; its failure does not stop the     *)
(* rest.  A leftover keymaster_key_blob_upgraded is treated alike.          *)
DeleteKeystoreKey ==
    /\ pc = "delete"
    /\ \/ /\ "keymaster_key_blob" \in files[Victim]
          /\ live' = live \ {Victim} /\ UNCHANGED ok
       \/ UNCHANGED live /\ ok' = (ok /\ "keymaster_key_blob" \notin files[Victim])
    /\ pc' = "secdiscard"
    /\ UNCHANGED <<fsVars, path, target, cur, history, crashes>>

(* secdiscard of encrypted_key, secdiscardable and the blob: it may fail    *)
(* on some; encrypted_key is named whether or not it is there.              *)
Secdiscard ==
    /\ pc = "secdiscard"
    /\ LET named == {"encrypted_key"} \cup
                    (files[Victim] \cap {"secdiscardable", "keymaster_key_blob"})
       IN \E gone \in SUBSET (named \cap files[Victim]) :
            /\ files' = [files EXCEPT ![Victim] = @ \ gone]
            /\ kept' = [kept EXCEPT ![Victim] = @ \ gone]
            /\ ok' = (ok /\ gone = named)
    /\ pc' = "rm"
    /\ UNCHANGED <<ns, onDisk, made, auth, live, path, target, cur, history, crashes>>

(* Mutant: destroyKey reports what rm did and forgets earlier failures. *)
AfterDestroyUnchecked(success) ==
    IF cur = None
    THEN Return /\ destroyed' = destroyed \cup {Victim}
    ELSE pc' = "mkdir" /\ UNCHANGED <<locals, destroyed>>

AfterDestroy(success) ==
    IF cur = None
    THEN /\ Return
         /\ destroyed' = IF success THEN destroyed \cup {Victim} ELSE destroyed
    ELSE pc' = "mkdir" /\ UNCHANGED <<locals, destroyed>>

(* recursiveDeleteKey removes everything, or fails with the files removed   *)
(* or not: a directory that lost some is as useless as one that lost all.   *)
recursiveDeleteKey ==
    /\ pc = "rm"
    /\ \/ /\ files' = [files EXCEPT ![Victim] = {}]
          /\ Enter([ns EXCEPT ![target] = None])
          /\ AfterDestroy(ok)
       \/ /\ \E rest \in {{}, files[Victim]} : files' = [files EXCEPT ![Victim] = rest]
          /\ AfterDestroy(FALSE)
          /\ UNCHANGED <<ns, onDisk>>
    /\ UNCHANGED <<kept, made, auth, live, stored, doomed, crashes>>

-----------------------------------------------------------------------------
(* Power is lost; the next boot starts with a fresh process.  A directory   *)
(* without a path is gone.                                                  *)
Crash ==
    /\ crashes < MaxCrashes /\ crashes' = crashes + 1
    /\ ns' \in onDisk /\ onDisk' = {ns'}
    /\ LET reachable == {ns'[p] : p \in Paths} \ {None}
       IN \E lucky \in SUBSET reachable :
            files' = [i \in Inodes |-> IF i \in lucky THEN files[i] \cup kept[i]
                                       ELSE IF i \in reachable THEN files[i] \cap kept[i]
                                       ELSE {}]
    /\ kept' = files'
    /\ Return
    /\ UNCHANGED <<made, auth, live, history>>

(* Android left one key. *)
Init ==
    \E p \in KeyPaths, a \in Auths :
      /\ ns = [q \in Paths |-> IF q = p THEN OsKey ELSE None]
      /\ onDisk = {ns}
      /\ files = [i \in Inodes |-> IF i = OsKey THEN Required(a) ELSE {}]
      /\ kept = files
      /\ live = IF a = "keystore" THEN {OsKey} ELSE {}
      /\ auth = [i \in Inodes |-> a]
      /\ made = {OsKey}
      /\ pc = "idle" /\ path = None /\ target = TmpPath /\ cur = None /\ ok = TRUE
      /\ stored = {OsKey} /\ doomed = {} /\ destroyed = {}
      /\ crashes = 0

StoreNext ==
    \/ \E p \in KeyPaths, a \in Auths : StoreBegin(p, a)
    \/ Mkdir
    \/ \E f \in FileNames : WriteFile(f)
    \/ generateKeyStorageKey
    \/ encryptWithKeystoreKey
    \/ FsyncDirectory
    \/ RenameKeyDir
    \/ FsyncParentDirectory
    \/ StoreFails

DestroyNext ==
    \/ \E p \in KeyPaths : DestroyBegin(p)
    \/ DeleteKeystoreKey
    \/ Secdiscard
    \/ recursiveDeleteKey

RetrieveNext == \E p \in KeyPaths : ns[p] # None /\ retrieveKey(ns[p])

Next == StoreNext \/ DestroyNext \/ RetrieveNext \/ Crash

Spec == Init /\ [][Next]_vars

-----------------------------------------------------------------------------
TypeOK ==
    /\ ns \in [Paths -> Inodes \cup {None}]
    /\ ns \in onDisk /\ onDisk \subseteq [Paths -> Inodes \cup {None}]
    /\ files \in [Inodes -> SUBSET FileNames]
    /\ kept \in [Inodes -> SUBSET FileNames]
    /\ live \subseteq Inodes
    /\ auth \in [Inodes -> Auths]
    /\ made \subseteq Inodes
    /\ pc \in StoreSteps \cup {"idle", "delete", "secdiscard", "rm"}
    /\ path \in KeyPaths \cup {None} /\ target \in Paths
    /\ cur \in Inodes \cup {None} /\ ok \in BOOLEAN
    /\ stored \subseteq Inodes /\ doomed \subseteq Inodes /\ destroyed \subseteq Inodes
    /\ crashes \in 0..MaxCrashes

(* storeKeyAtomically: whenever power fails, a directory found under a      *)
(* key_path nobody asked to destroy is complete and opens its key; this is  *)
(* what building under tmp_path, FsyncDirectory and rename are for.         *)
KeysComplete ==
    \A n \in onDisk, p \in KeyPaths :
      n[p] \notin doomed \cup {None} =>
        Openable(n[p], files[n[p]] \cap kept[n[p]])

(* FsyncParentDirectory: a key storeKeyAtomically acknowledged, or Android  *)
(* left, stays under its path through any power loss until it is destroyed. *)
StoredSurvives ==
    \A i \in stored \ doomed, n \in onDisk : \E p \in KeyPaths : n[p] = i

(* destroyKey: a key it reported destroyed cannot be opened again, not even *)
(* when a power loss brings back what rm removed.                           *)
DestroyedStaysDestroyed ==
    \A i \in destroyed : ~Openable(i, files[i] \cup kept[i])

(* The detailed steps implement a store whose keys come and go atomically   *)
(* (storeKeyAtomically's name for what it does).                            *)
Abstract == INSTANCE KeyStoreAbs WITH
    key <- [p \in KeyPaths |-> IF ns[p] \in doomed THEN None ELSE ns[p]],
    acked <- stored,
    gone <- doomed
ImplementsAtomicStore == Abstract!Spec
=============================================================================
