----------------------------- MODULE KeyMintEnv -----------------------------
(***************************************************************************)
(* The KeyMint environment a key of the installed system is opened in.     *)
(*                                                                         *)
(* Recovery announces an OS version and patch levels of its own.  Before a *)
(* user's key is used, setRecoveryKeyMintEnvironment stops keystore2 and   *)
(* KeyMint, sets the version properties and starts both again;             *)
(* syncKeystore2DbForDecrypt restarts keystore2 on a fresh copy of the     *)
(* system's key database.  Decrypt_Data (metadata key) and                 *)
(* Decrypt_User_Synth_Pass (a user's secret) call them, retry once, and    *)
(* switch back.  One thread of recovery runs all of it; init stops, starts *)
(* and restarts the two services at its own pace.                          *)
(***************************************************************************)
EXTENDS Naturals

CONSTANTS
    StopPolls, StartPolls, \* polls for a service to stop, to be up
    AllowStockRetry,       \* twrp.keymint.allow_stock_retry
    MaxCrashes             \* bound on crashes of services

ASSUME EnvAssumption ==
    /\ StopPolls \in Nat /\ StartPolls \in Nat
    /\ AllowStockRetry \in BOOLEAN /\ MaxCrashes \in Nat

Service == {"km", "ks"}
(* The version properties, ro.build.version.release (and _or_codename),    *)
(* ro.build.version.security_patch, ro.vendor.build.security_patch: from   *)
(* the recovery image, from the installed system, or unset.                *)
Origin == {"recovery", "stock", "none"}
Level == [os : Origin, patch : Origin, vendor : Origin]

VARIABLES
    at,         \* where recovery's thread is
    sub,        \* where it is in the function it called, or what that returned
    arg,        \* stock_environment of that call
    polls,
    second,     \* the unwrap was retried
    svc,        \* init.svc of KeyMint and keystore2, "running" once registered
    props,      \* the version properties
    chosen,     \* the values the last switch chose
    kmLevel,    \* the properties KeyMint came up with
    label,      \* twrp.keymint.request
    ready,      \* twrp.keymint.ready
    metaEnv,    \* twrp.keymint.metadata_env
    sys, ven,   \* /system_root and /vendor can be read
    data,       \* /data is mounted
    db, ksDb,   \* recovery's copy of the key database; the one keystore2 opened
    crashes

callVars == <<sub, arg, polls>>
envVars == <<props, chosen, kmLevel, label, ready>>
diskVars == <<metaEnv, sys, ven, data>>
dbVars == <<db, ksDb>>
vars == <<at, callVars, second, svc, envVars, diskVars, dbVars, crashes>>

-----------------------------------------------------------------------------
(* init.  A stopped service takes its time to die; started meanwhile, it    *)
(* comes back as a new process.                                             *)
Stopped(s) == IF s \in {"running", "starting", "reviving"} THEN "stopping" ELSE s
Started(s) == CASE s = "stopped" -> "starting" [] s = "stopping" -> "reviving" [] OTHER -> s

Died(s) ==
    /\ svc[s] \in {"stopping", "reviving"}
    /\ svc' = [svc EXCEPT ![s] = IF @ = "stopping" THEN "stopped" ELSE "starting"]
    /\ UNCHANGED <<at, callVars, second, envVars, diskVars, dbVars, crashes>>

Up(s) ==
    /\ svc[s] = "starting"
    /\ svc' = [svc EXCEPT ![s] = "running"]
    /\ IF s = "km" THEN kmLevel' = props /\ UNCHANGED ksDb
                   ELSE ksDb' = db /\ UNCHANGED kmLevel
    /\ UNCHANGED <<at, callVars, second, props, chosen, label, ready, diskVars, db, crashes>>

Crash(s) ==
    /\ svc[s] = "running" /\ crashes < MaxCrashes
    /\ svc' = [svc EXCEPT ![s] = "starting"]
    /\ crashes' = crashes + 1
    /\ UNCHANGED <<at, callVars, second, envVars, diskVars, dbVars>>

-----------------------------------------------------------------------------
(* setRecoveryKeyMintEnvironment(arg) *)

Return(v) == sub' = v /\ polls' = 0 /\ UNCHANGED arg
Poll == polls' = polls + 1 /\ UNCHANGED <<sub, arg>>

(* The installed system's value if it can be read, else recovery's own.  *)
ChosenOs == IF sys THEN "stock" ELSE props.os
ChosenPatch == IF sys THEN "stock" ELSE props.patch
ChosenVendor ==
    IF ven THEN "stock" ELSE IF props.vendor # "none" THEN props.vendor ELSE ChosenPatch

EnvRead ==
    /\ sub = "env"
    /\ IF ChosenPatch = "none"
       THEN Return("failed") /\ UNCHANGED <<chosen, label, ready>>
       ELSE /\ chosen' = [os |-> ChosenOs, patch |-> ChosenPatch, vendor |-> ChosenVendor]
            /\ label' = IF arg THEN "stock_user_key" ELSE "metadata_ce"
            /\ ready' = FALSE
            /\ Return("env_stop")
    /\ UNCHANGED <<at, second, svc, props, kmLevel, diskVars, dbVars, crashes>>

EnvStop ==
    /\ sub = "env_stop"
    /\ svc' = [s \in Service |-> Stopped(svc[s])]
    /\ Return("env_wait")
    /\ UNCHANGED <<at, second, envVars, diskVars, dbVars, crashes>>

EnvStopPoll ==
    /\ sub = "env_wait" /\ svc["km"] # "stopped" /\ polls < StopPolls
    /\ Poll
    /\ UNCHANGED <<at, second, svc, envVars, diskVars, dbVars, crashes>>

EnvWaited ==
    /\ sub = "env_wait" /\ (svc["km"] = "stopped" \/ polls = StopPolls)
    /\ Return("env_props")
    /\ UNCHANGED <<at, second, svc, envVars, diskVars, dbVars, crashes>>

(* The calls of resetprop: the first to fail ends the function.           *)
EnvReset ==
    /\ sub = "env_props"
    /\ \E done \in {{}, {"os"}, {"os", "patch"}} :
          props' = [p \in {"os", "patch", "vendor"} |-> IF p \in done THEN chosen[p] ELSE props[p]]
    /\ Return("failed")
    /\ UNCHANGED <<at, second, svc, chosen, kmLevel, label, ready, diskVars, dbVars, crashes>>

(* Mutant: KeyMint is started before the properties are set. *)
EnvStartKmEarly ==
    /\ sub = "env_props"
    /\ svc' = [svc EXCEPT !["km"] = Started(@)]
    /\ Return("env_km")
    /\ UNCHANGED <<at, second, envVars, diskVars, dbVars, crashes>>

EnvStartKm ==
    /\ sub = "env_props"
    /\ props' = chosen
    /\ svc' = [svc EXCEPT !["km"] = Started(@)]
    /\ Return("env_km")
    /\ UNCHANGED <<at, second, chosen, kmLevel, label, ready, diskVars, dbVars, crashes>>

EnvStartKs ==
    /\ sub = "env_km" /\ svc["km"] = "running" /\ polls < StartPolls
    /\ svc' = [svc EXCEPT !["ks"] = Started(@)]
    /\ Return("env_ks")
    /\ UNCHANGED <<at, second, envVars, diskVars, dbVars, crashes>>

EnvDone ==
    /\ sub = "env_ks" /\ svc["ks"] = "running" /\ polls < StartPolls
    /\ ready' = TRUE
    /\ Return("ok")
    /\ UNCHANGED <<at, second, svc, props, chosen, kmLevel, label, diskVars, dbVars, crashes>>

(* Mutant: a service is waited for until it is up. *)
PollOn ==
    /\ \/ sub = "env_km" /\ svc["km"] # "running"
       \/ sub \in {"env_ks", "sync_ks"} /\ svc["ks"] # "running"
    /\ polls' = (polls + 1) % (StartPolls + 1) /\ UNCHANGED <<sub, arg>>
    /\ UNCHANGED <<at, second, svc, envVars, diskVars, dbVars, crashes>>

StartPoll ==
    /\ polls < StartPolls
    /\ \/ sub = "env_km" /\ svc["km"] # "running"
       \/ sub \in {"env_ks", "sync_ks"} /\ svc["ks"] # "running"
    /\ Poll
    /\ UNCHANGED <<at, second, svc, envVars, diskVars, dbVars, crashes>>

StartTimeout ==
    /\ sub \in {"env_km", "env_ks", "sync_ks"} /\ polls = StartPolls
    /\ Return("failed")
    /\ UNCHANGED <<at, second, svc, envVars, diskVars, dbVars, crashes>>

-----------------------------------------------------------------------------
(* syncKeystore2DbForDecrypt *)

Aged(d) == IF d = "fresh" THEN "old" ELSE d

(* Mutant: keystore2 keeps running on the database that is replaced. *)
SyncBeginRunning ==
    /\ sub = "sync"
    /\ db' = Aged(db) /\ ksDb' = Aged(ksDb)
    /\ Return("sync_wait")
    /\ UNCHANGED <<at, second, svc, envVars, diskVars, crashes>>

SyncBegin ==
    /\ sub = "sync"
    /\ db' = Aged(db) /\ ksDb' = Aged(ksDb)
    /\ \/ Return("failed") /\ UNCHANGED svc
       \/ svc' = [svc EXCEPT !["ks"] = Stopped(@)] /\ Return("sync_wait")
    /\ UNCHANGED <<at, second, envVars, diskVars, crashes>>

SyncStopPoll ==
    /\ sub = "sync_wait" /\ svc["ks"] # "stopped" /\ polls < StopPolls
    /\ Poll
    /\ UNCHANGED <<at, second, svc, envVars, diskVars, dbVars, crashes>>

(* The copy replaces the last one, if the backup succeeds.                *)
SyncCopy ==
    /\ sub = "sync_wait" /\ (svc["ks"] = "stopped" \/ polls = StopPolls)
    /\ db' \in {"fresh", "none"}
    /\ svc' = [svc EXCEPT !["ks"] = Started(@)]
    /\ Return("sync_ks")
    /\ UNCHANGED <<at, second, envVars, diskVars, ksDb, crashes>>

SyncDone ==
    /\ sub = "sync_ks" /\ svc["ks"] = "running" /\ polls < StartPolls
    /\ Return(IF db = "fresh" THEN "ok" ELSE "failed")
    /\ UNCHANGED <<at, second, svc, envVars, diskVars, dbVars, crashes>>

-----------------------------------------------------------------------------
CallEnv(site, stock) ==
    /\ at' = site /\ sub' = "env" /\ arg' = stock /\ polls' = 0
    /\ UNCHANGED second
Goto(site) == at' = site /\ UNCHANGED <<callVars, second>>
Back(site) == at' = site /\ sub' = "none" /\ UNCHANGED <<arg, polls, second>>
Idle == at' = "idle" /\ sub' = "none" /\ second' = FALSE /\ UNCHANGED <<arg, polls>>
Returned(site, v) == at = site /\ sub = v
Rest == UNCHANGED <<svc, envVars, dbVars, crashes>>

(* Decrypt_Data *)

DecryptData ==
    /\ at = "idle" /\ ~data
    /\ Goto("md")
    /\ Rest /\ UNCHANGED diskVars

(* try_metadata_environment; KeyMint must be there.                       *)
MetadataMounted ==
    /\ at \in {"md", "md_again"} /\ svc["km"] = "running"
    /\ data' = TRUE
    /\ metaEnv' = IF at = "md_again" THEN "stock" ELSE metaEnv
    /\ Idle
    /\ Rest /\ UNCHANGED <<sys, ven>>

(* The other environment is tried, with the stock partitions if they can  *)
(* be mounted.                                                            *)
MetadataStockRetry ==
    /\ at = "md" /\ metaEnv # "stock" /\ AllowStockRetry
    /\ sys' \in {sys, TRUE} /\ ven' \in {ven, TRUE}
    /\ CallEnv("md_env", TRUE)
    /\ Rest /\ UNCHANGED <<metaEnv, data>>

MetadataAgain ==
    /\ Returned("md_env", "ok")
    /\ Back("md_again")
    /\ Rest /\ UNCHANGED diskVars

MetadataRestore ==
    /\ at = "md_again" \/ (at = "md" /\ metaEnv = "stock")
    /\ CallEnv("md_restore", FALSE)
    /\ Rest /\ UNCHANGED diskVars

MetadataGiveUp ==
    /\ \/ at = "md" /\ metaEnv # "stock" /\ ~AllowStockRetry
       \/ Returned("md_env", "failed")
    /\ Idle
    /\ Rest /\ UNCHANGED diskVars

MetadataRestored ==
    /\ at = "md_restore" /\ sub \in {"ok", "failed"}
    /\ metaEnv' = "recovery"
    /\ Idle
    /\ Rest /\ UNCHANGED <<sys, ven, data>>

-----------------------------------------------------------------------------
(* Decrypt_User_Synth_Pass *)
MetadataUsesStock == metaEnv = "stock"

(* The credential was verified; the environment of the user's key.  For the *)
(* default password copySqliteDb has replaced the copy keystore2 has open.  *)
SynthPass ==
    /\ at = "idle" /\ data
    /\ db' \in {db, "old"} /\ ksDb' = Aged(ksDb)
    /\ CallEnv("sp_env", TRUE)
    /\ UNCHANGED <<svc, envVars, diskVars, crashes>>

(* Nothing was unwrapped: the metadata environment comes back, if the     *)
(* stock one is thought to be there.                                      *)
SynthUndo ==
    /\ ~MetadataUsesStock
    /\ at = "sp_failed" \/ Returned("sp_env", "failed") \/ Returned("sp_leave", "failed")
    /\ CallEnv("sp_undo", FALSE)
    /\ Rest /\ UNCHANGED diskVars

SynthFail ==
    /\ \/ MetadataUsesStock /\ (at = "sp_failed" \/ Returned("sp_env", "failed"))
       \/ Returned("sp_retry", "failed") \/ Returned("sp_restore", "failed")
       \/ at = "sp_undo" /\ sub \in {"ok", "failed"}
    /\ Idle
    /\ Rest /\ UNCHANGED diskVars

(* unwrapSyntheticPasswordBlob, first and second time *)
Unwrap ==
    /\ Returned("sp_env", "ok") \/ Returned("sp_retry", "ok")
    /\ at' = "unwrap" /\ sub' = "sync" /\ polls' = 0 /\ second' = (at = "sp_retry")
    /\ UNCHANGED arg
    /\ Rest /\ UNCHANGED diskVars

UseKey ==
    /\ Returned("unwrap", "ok")
    /\ Back("use_key")
    /\ Rest /\ UNCHANGED diskVars

Unwrapped ==
    /\ at = "use_key" /\ svc["ks"] = "running" /\ svc["km"] = "running"
    /\ Goto("unwrapped")
    /\ Rest /\ UNCHANGED diskVars

(* keystore2 may be gone again: getKeyEntry is called on a null pointer.   *)
NoKeystore ==
    /\ at = "use_key" /\ svc["ks"] # "running"
    /\ Goto("crashed")
    /\ Rest /\ UNCHANGED diskVars

NotUnwrapped ==
    /\ Returned("unwrap", "failed") \/ (at = "use_key" /\ svc["ks"] = "running")
    /\ Back(IF second THEN "sp_failed" ELSE "sp_again")
    /\ Rest /\ UNCHANGED diskVars

(* One retry, after leaving the stock environment if metadata has its own. *)
SynthAgain ==
    /\ \/ at = "sp_again" /\ ~MetadataUsesStock /\ CallEnv("sp_leave", FALSE)
       \/ at = "sp_again" /\ MetadataUsesStock /\ CallEnv("sp_retry", TRUE)
       \/ Returned("sp_leave", "ok") /\ CallEnv("sp_retry", TRUE)
    /\ Rest /\ UNCHANGED diskVars

(* Mutant: the stock environment stays for the CE key. *)
SynthKeep ==
    /\ at = "unwrapped" /\ Goto("ce")
    /\ Rest /\ UNCHANGED diskVars

SynthRestore ==
    /\ at = "unwrapped"
    /\ IF MetadataUsesStock THEN Goto("ce") ELSE CallEnv("sp_restore", FALSE)
    /\ Rest /\ UNCHANGED diskVars

SynthRestored ==
    /\ Returned("sp_restore", "ok")
    /\ Back("ce")
    /\ Rest /\ UNCHANGED diskVars

(* Decrypt_CE_storage, whatever comes of it *)
UnlockCe ==
    /\ at = "ce"
    /\ Idle
    /\ Rest /\ UNCHANGED diskVars

(* The user mounts and unmounts partitions between two requests.          *)
UserMounts ==
    /\ at = "idle"
    /\ sys' \in BOOLEAN /\ ven' \in BOOLEAN /\ data' \in {data, FALSE}
    /\ Rest /\ UNCHANGED <<at, callVars, second, metaEnv>>

-----------------------------------------------------------------------------
Recovery == [os |-> "recovery", patch |-> "recovery", vendor |-> "recovery"]
NoPatch == [os |-> "recovery", patch |-> "none", vendor |-> "none"]

Init ==
    /\ at = "idle" /\ sub = "none" /\ arg = FALSE /\ polls = 0 /\ second = FALSE
    /\ svc = [s \in Service |-> "running"]
    /\ props \in {Recovery, NoPatch}
    /\ chosen = props /\ kmLevel = props
    /\ label = "none" /\ ready = FALSE /\ metaEnv = "recovery"
    /\ sys = FALSE /\ ven = FALSE /\ data = FALSE
    /\ db = "old" /\ ksDb = "old" /\ crashes = 0

InitNext == \E s \in Service : Died(s) \/ Up(s)

EnvNext ==
    \/ EnvRead \/ EnvStop \/ EnvStopPoll \/ EnvWaited \/ EnvReset \/ EnvStartKm
    \/ EnvStartKs \/ EnvDone \/ StartPoll \/ StartTimeout
    \/ SyncBegin \/ SyncStopPoll \/ SyncCopy \/ SyncDone

RequestNext ==
    \/ MetadataMounted \/ MetadataStockRetry \/ MetadataAgain \/ MetadataRestore
    \/ MetadataGiveUp \/ MetadataRestored
    \/ SynthUndo \/ SynthFail \/ Unwrap \/ UseKey \/ Unwrapped \/ NoKeystore
    \/ NotUnwrapped \/ SynthAgain \/ SynthRestore \/ SynthRestored \/ UnlockCe

Next ==
    \/ InitNext \/ EnvNext \/ RequestNext
    \/ DecryptData \/ SynthPass \/ UserMounts
    \/ \E s \in Service : Crash(s)

Spec == Init /\ [][Next]_vars

(* Recovery's thread runs; of init and the user nothing is assumed.        *)
FairSpec == Spec /\ WF_vars(EnvNext) /\ WF_vars(RequestNext)

-----------------------------------------------------------------------------
Sites == {"md_env", "md_restore", "sp_env", "sp_undo", "sp_leave", "sp_retry", "sp_restore"}
ThreadOK ==
    /\ at \in Sites \cup {"idle", "md", "md_again", "sp_again", "sp_failed", "unwrap",
                          "use_key", "unwrapped", "ce", "crashed"}
    /\ sub \in {"none", "env", "env_stop", "env_wait", "env_props", "env_km", "env_ks",
                "sync", "sync_wait", "sync_ks", "ok", "failed"}
    /\ arg \in BOOLEAN /\ second \in BOOLEAN
PollsOK ==
    /\ polls \in Nat
    /\ IF sub \in {"env_wait", "sync_wait"} THEN polls <= StopPolls ELSE polls <= StartPolls
ServicesOK ==
    /\ svc \in [Service -> {"running", "stopping", "stopped", "starting", "reviving"}]
    /\ crashes \in 0..MaxCrashes
ValuesOK ==
    /\ props \in Level /\ chosen \in Level /\ kmLevel \in Level
    /\ label \in {"none", "stock_user_key", "metadata_ce"} /\ ready \in BOOLEAN
DisksOK ==
    /\ metaEnv \in {"recovery", "stock"}
    /\ sys \in BOOLEAN /\ ven \in BOOLEAN /\ data \in BOOLEAN
    /\ db \in {"old", "fresh", "none"} /\ ksDb \in {"old", "fresh", "none"}

TypeOK == ThreadOK /\ PollsOK /\ ServicesOK /\ ValuesOK /\ DisksOK

(* setRecoveryKeyMintEnvironment: twrp.keymint.ready says that the KeyMint  *)
(* that answers runs with exactly the values that were announced, across    *)
(* slow stops, partial failures and restarts by init.                       *)
EnvApplied == ready /\ svc["km"] = "running" => kmLevel = chosen

(* Decrypt_User_Synth_Pass: CE storage is opened only in the environment    *)
(* the metadata key was opened in, with the switch back complete.           *)
CeInMetadataEnv ==
    at = "ce" => ready /\ (MetadataUsesStock \/ label = "metadata_ce")

(* However a request ends, the environment is that of the metadata key, or  *)
(* is marked as not ready.                                                  *)
SettledWhenIdle ==
    at = "idle" /\ ready => label = IF MetadataUsesStock THEN "stock_user_key" ELSE "metadata_ce"

(* unwrapSyntheticPasswordBlob: the user's key is looked up by a keystore2  *)
(* that opened the copy made for this attempt, never the one before it.     *)
UnwrapOnFreshCopy == at = "use_key" /\ svc["ks"] = "running" => ksDb = "fresh"

(* Every wait is bounded: a request ends, whatever the services do.         *)
RequestReturns == at # "idle" ~> at \in {"idle", "crashed"}

=============================================================================
