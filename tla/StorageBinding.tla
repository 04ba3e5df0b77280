--------------------------- MODULE StorageBinding ---------------------------
(***************************************************************************)
(* The storage binding of system/vold/KeyStorage.cpp: a seed the platform  *)
(* may provide once per boot is mixed into the application id of every key *)
(* stored or retrieved.  Any thread may store or retrieve, and the seed    *)
(* may arrive at any time; only generateAppId and setKeyStorageBindingSeed *)
(* hold storage_binding_info.guard, the rest of a call runs without it.  *)
(***************************************************************************)
EXTENDS Naturals

CONSTANTS
    Threads,    \* threads that store and retrieve
    Keys,       \* keys
    Seeds,      \* seeds the platform may provide
    Unbound,    \* an application id without a seed
    Absent,     \* a key not stored
    MaxBoots    \* bound on reboots

ASSUME SeedAssumption == Unbound \notin Seeds /\ Absent \notin Seeds \cup {Unbound}
ASSUME BootAssumption == MaxBoots \in Nat

VARIABLES
    state,      \* storage_binding_info.state
    seed,       \* storage_binding_info.seed
    boundTo,    \* key -> what its application id was mixed with, or Absent
    call,       \* thread -> idle, or the call it is in
    key,        \* thread -> the key of its call
    appId,      \* thread -> what the application id it generated is mixed with
    used,       \* keys stored or opened in this boot
    boots

bindingVars == <<state, seed, boundTo, call, key, appId, used, boots>>

Calls == {"storeKey", "retrieveKey"}

(* The call starts; its files are written or read (module KeyStorage). *)
Begin(t, c, k) ==
    /\ call[t] = "idle"
    /\ call' = [call EXCEPT ![t] = c]
    /\ key' = [key EXCEPT ![t] = k]
    /\ UNCHANGED <<state, seed, boundTo, appId, used, boots>>

generateAppId(t) ==
    /\ call[t] \in Calls /\ appId[t] = Absent
    /\ appId' = [appId EXCEPT ![t] = IF state = "IN_USE" THEN seed ELSE Unbound]
    /\ state' = IF state = "UNINITIALIZED" THEN "NOT_USED" ELSE state
    /\ UNCHANGED <<seed, boundTo, call, key, used, boots>>

Finish(t) ==
    /\ call' = [call EXCEPT ![t] = "idle"]
    /\ appId' = [appId EXCEPT ![t] = Absent]

(* The key is encrypted under the application id generated before. *)
StoreUnderId(t) ==
    /\ call[t] = "storeKey" /\ appId[t] # Absent /\ boundTo[key[t]] = Absent
    /\ boundTo' = [boundTo EXCEPT ![key[t]] = appId[t]]
    /\ used' = used \cup {key[t]}
    /\ Finish(t)
    /\ UNCHANGED <<state, seed, key, boots>>

(* The key opens if it was stored under the same application id. *)
OpenUnderId(t) ==
    /\ call[t] = "retrieveKey" /\ appId[t] # Absent /\ boundTo[key[t]] = appId[t]
    /\ used' = used \cup {key[t]}
    /\ Finish(t)
    /\ UNCHANGED <<state, seed, boundTo, key, boots>>

(* Either call fails, before or after it generated the application id. *)
Fail(t) ==
    /\ call[t] \in Calls
    /\ Finish(t)
    /\ UNCHANGED <<state, seed, boundTo, key, used, boots>>

(* Mutant: a seed that comes late, or a second one, is taken. *)
setSeedAnyTime(s) ==
    /\ state' = "IN_USE" /\ seed' = s
    /\ UNCHANGED <<boundTo, call, key, appId, used, boots>>

setKeyStorageBindingSeed(s) ==
    /\ state = "UNINITIALIZED"
    /\ state' = "IN_USE" /\ seed' = s
    /\ UNCHANGED <<boundTo, call, key, appId, used, boots>>

(* The process starts anew; what was stored stays. *)
Reboot ==
    /\ boots < MaxBoots /\ boots' = boots + 1
    /\ state' = "UNINITIALIZED" /\ seed' = Unbound
    /\ call' = [t \in Threads |-> "idle"] /\ appId' = [t \in Threads |-> Absent]
    /\ used' = {}
    /\ UNCHANGED <<boundTo, key>>

BindingInit ==
    /\ state = "UNINITIALIZED" /\ seed = Unbound
    /\ boundTo \in [Keys -> Seeds \cup {Unbound, Absent}]
    /\ call = [t \in Threads |-> "idle"] /\ appId = [t \in Threads |-> Absent]
    /\ key \in {[t \in Threads |-> k] : k \in Keys}
    /\ used = {} /\ boots = 0

BindingNext ==
    \/ \E t \in Threads, c \in Calls, k \in Keys : Begin(t, c, k)
    \/ \E t \in Threads : generateAppId(t) \/ StoreUnderId(t) \/ OpenUnderId(t) \/ Fail(t)
    \/ \E s \in Seeds : setKeyStorageBindingSeed(s)
    \/ Reboot

BindingSpec == BindingInit /\ [][BindingNext]_bindingVars

-----------------------------------------------------------------------------
BindingTypeOK ==
    /\ state \in {"UNINITIALIZED", "IN_USE", "NOT_USED"}
    /\ seed \in Seeds \cup {Unbound}
    /\ boundTo \in [Keys -> Seeds \cup {Unbound, Absent}]
    /\ call \in [Threads -> Calls \cup {"idle"}]
    /\ key \in [Threads -> Keys]
    /\ appId \in [Threads -> Seeds \cup {Unbound, Absent}]
    /\ used \subseteq Keys
    /\ boots \in 0..MaxBoots

Binding == IF state = "IN_USE" THEN seed ELSE Unbound

(* storeKey's comment: if a storage binding seed has been set, it is        *)
(* required to retrieve the key.  Every key stored or opened in this boot   *)
(* is bound to exactly what this boot settled on, whoever came first.       *)
SeedRequired ==
    \A k \in used : state # "UNINITIALIZED" /\ boundTo[k] = Binding

(* setKeyStorageBindingSeed: a call that has its application id is never    *)
(* overtaken by a seed, so nothing is stored under a stale binding.         *)
AppIdNotStale ==
    \A t \in Threads : appId[t] # Absent => state # "UNINITIALIZED" /\ appId[t] = Binding
=============================================================================
