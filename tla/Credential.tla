----------------------------- MODULE Credential -----------------------------
(***************************************************************************)
(* What becomes of a credential that was entered for a user: Decrypt_User  *)
(* and Decrypt_User_Synth_Pass (vold, Decrypt.cpp of the neo8) ask the     *)
(* Weaver of the secure element or Gatekeeper to verify it, and open the   *)
(* user's CE storage with the key it protects.                             *)
(*                                                                         *)
(* The secure element counts the failures of each user.  The Weaver        *)
(* service is restarted by its first client, by init when it dies, and by  *)
(* the retry hook of the nezha.  The switch of the KeyMint environment     *)
(* around the unwrap is in KeyMintEnv; here it succeeds or fails.          *)
(***************************************************************************)
EXTENDS Naturals, FiniteSets

CONSTANTS
    Users,
    Owner,        \* user 0
    Passwords,    \* what may be typed; "!" stands for the default password
    Credential,   \* what each user has set, "!" for nothing
    Keeper,       \* who verifies it: "weaver", or "gatekeeper" beside a secdis file
    Devices,      \* which of "neo8", "nezha"
    Layouts,      \* where the files are: "spblob", "direct" under system_de, "legacy"
    Warmup,       \* polls until a Weaver that was started answers
    MaxPolls,     \* getConfig is tried that often
    MaxFailures,  \* a user is throttled after so many failures
    MaxEntries,   \* bound: credentials entered
    MaxCrashes    \* bound: services that die

ASSUME CredentialAssumption ==
    /\ "!" \notin Passwords /\ Owner \in Users
    /\ Credential \in [Users -> Passwords \cup {"!"}]
    /\ Keeper \in [Users -> {"weaver", "gatekeeper"}]
    /\ Devices \subseteq {"neo8", "nezha"} /\ Layouts \subseteq {"spblob", "direct", "legacy"}
    /\ {Warmup, MaxPolls, MaxFailures, MaxEntries, MaxCrashes} \subseteq Nat
    /\ Warmup < MaxPolls /\ MaxFailures > 0

VARIABLES
    device, layout,
    deReady,     \* /data/system_de can be read
    pc, user, password,
    retried,     \* the retry hook has run for this entry
    prepared, persist, \* Prepare_Neo8_Weaver_Backend ran; what it mounts is there
    restart,     \* ctl.restart is set and init has not acted
    weaver,      \* the service: its instance, whether it is up, since when, with persist
    binder,      \* the instance that the client holds
    polls,
    keeperUp,    \* Gatekeeper is registered
    token,       \* what was derived from the password: "right" or "wrong"
    verified,    \* "no", "yes", or "empty": an answer without an auth token
    failures, throttled, \* of each user, in the secure element
    open,        \* users whose CE key is in the kernel
    decrypted,   \* users reported as decrypted
    entries, crashes,
    spent,       \* history: failures that the secure element counted for this entry
    clean        \* history: the right credential, and nothing that it needs failed

service == <<restart, weaver, keeperUp>>
element == <<failures, throttled, spent>>
attempt == <<binder, polls, token, verified>>
entry == <<user, password, retried, entries>>
vars == <<device, layout, deReady, pc, user, password, retried, prepared, persist, restart,
          weaver, binder, polls, keeperUp, token, verified, failures, throttled, open,
          decrypted, entries, crashes, spent, clean>>
fixed == <<device, layout>>

-----------------------------------------------------------------------------
(* Files                                                                   *)

(* Only the neo8 looks for them directly in system_de; .pwd is always one  *)
(* of them (Get_Password_Data). *)
HasFiles == deReady /\ (layout = "spblob" \/ (layout = "direct" /\ device = "neo8"))
(* Get_Password_Type, 0 or not *)
HasType(u) ==
    /\ Credential[u] /= "!"
    /\ HasFiles \/ layout = "legacy"

(* A .weaver, or else a .secdis file, named for the user's handle. *)
IsWeaver(u) == HasFiles /\ Keeper[u] = "weaver"
HasSecdis(u) == HasFiles /\ Keeper[u] = "gatekeeper"

Right == password = Credential[user]

-----------------------------------------------------------------------------
(* An entry and its end (TWPartitionManager::Decrypt_Device)               *)
DecryptDE ==
    /\ pc = "idle" /\ ~deReady /\ deReady' = TRUE
    /\ UNCHANGED <<fixed, pc, entry, prepared, persist, service, attempt, element, open, decrypted,
                   crashes, clean>>

(* The owner is decrypted again when /data/media/0 is not there. *)
Enter(u, pw) ==
    /\ pc = "idle" /\ (u \notin decrypted \/ u = Owner)
    /\ entries < MaxEntries /\ entries' = entries + 1
    /\ user' = u /\ password' = pw /\ retried' = FALSE /\ pc' = "type"
    /\ spent' = 0
    /\ clean' = /\ pw /= "!" /\ pw = Credential[u]
                /\ deReady /\ ~throttled[u] /\ (prepared => persist) /\ ~restart
    /\ UNCHANGED <<fixed, deReady, prepared, persist, service, attempt, failures, throttled, open,
                   decrypted, crashes>>

Succeed ==
    /\ pc' = "idle" /\ decrypted' = decrypted \cup {user}
    /\ binder' = 0 /\ UNCHANGED <<user, password, retried, polls, token, verified>>

(* Mutant: the hook runs again and again. *)
FailOnAndOn ==
    /\ pc' = IF device = "nezha" THEN "hook" ELSE "idle"
    /\ binder' = 0 /\ UNCHANGED <<decrypted, user, password, retried, polls, token, verified>>

(* A failure runs the retry hook once, on the device that has one. *)
Fail ==
    /\ pc' = IF device = "nezha" /\ ~retried THEN "hook" ELSE "idle"
    /\ binder' = 0 /\ UNCHANGED <<decrypted, user, password, retried, polls, token, verified>>

(* The hook starts the services anew and waits for the gate. *)
Hook ==
    /\ pc = "hook" /\ retried' = TRUE
    /\ \/ /\ pc' = "type"
          /\ weaver' = [inst |-> weaver.inst + 1, up |-> TRUE, age |-> Warmup, backed |-> TRUE]
          /\ UNCHANGED clean
       \/ pc' = "idle" /\ clean' = FALSE /\ UNCHANGED weaver
    /\ UNCHANGED <<fixed, deReady, user, password, entries, prepared, persist, restart, keeperUp,
                   attempt, element, open, decrypted, crashes>>

-----------------------------------------------------------------------------
(* Decrypt_User                                                            *)
NoService == UNCHANGED <<fixed, deReady, entries, prepared, persist, service, crashes>>
GoTo(place) ==
    /\ pc' = place
    /\ UNCHANGED <<decrypted, user, password, retried, binder, polls, token, verified>>

(* The directory of user 0 decides for every user. *)
Dispatch ==
    /\ pc = "type"
    /\ IF password = "!" THEN GoTo("default")
       ELSE IF ~HasType(user) THEN Fail
       ELSE IF layout = "spblob" /\ deReady THEN GoTo("token")
       ELSE IF layout = "legacy" THEN GoTo("legacy")
       ELSE Fail
    /\ NoService /\ UNCHANGED <<element, open, clean>>

(* Decrypt_CE_storage: the unlock is tried twice, then the storage is      *)
(* prepared, which may fail when the key is there.                         *)
CeStorage(fits, otherwise) ==
    \/ fits /\ open' = open \cup {user} /\ Succeed /\ UNCHANGED clean
    \/ fits /\ open' = open \cup {user} /\ otherwise /\ clean' = FALSE
    \/ otherwise /\ UNCHANGED open /\ clean' = (clean /\ ~fits)

(* A CE key of old opens with "!". *)
DefaultPassword ==
    /\ pc = "default"
    /\ CeStorage(Credential[user] = "!" /\ layout = "legacy", GoTo("token"))
    /\ NoService /\ UNCHANGED element

(* What the secure element makes of the password of a user. *)
Counted(right) ==
    IF throttled[user] THEN UNCHANGED element
    ELSE IF right
    THEN failures' = [failures EXCEPT ![user] = 0] /\ UNCHANGED <<throttled, spent>>
    ELSE /\ failures' = [failures EXCEPT ![user] = @ + 1]
         /\ throttled' = [throttled EXCEPT ![user] = failures[user] + 1 >= MaxFailures]
         /\ spent' = spent + 1
Accepts(right) == right /\ ~throttled[user]

(* Gatekeeper's answer is not looked at, only whether there is one: what   *)
(* opens the storage is the hash of the password.                          *)
Legacy ==
    /\ pc = "legacy" /\ keeperUp
    /\ \/ Fail /\ UNCHANGED <<open, element>> /\ clean' = FALSE
       \/ Counted(Right) /\ CeStorage(Right, Fail)
    /\ NoService

-----------------------------------------------------------------------------
(* Decrypt_User_Synth_Pass                                                 *)
Deriving(derived, checked, place) ==
    /\ token' = derived /\ verified' = checked /\ pc' = place
    /\ UNCHANGED <<decrypted, user, password, retried, binder, polls>>

(* Of the 32 bytes of the default password only 16 are set. *)
Derivable ==
    IF ~Right THEN {"wrong"} ELSE IF password = "!" THEN {"right", "wrong"} ELSE {"right"}

Token ==
    /\ pc = "token"
    /\ IF password /= "!" /\ ~HasFiles THEN Fail
       ELSE \E derived \in Derivable :
              IF IsWeaver(user) THEN Deriving(derived, "no", "prepare")
              ELSE IF ~HasSecdis(user) THEN Fail
              ELSE IF password /= "!" THEN Deriving(derived, "no", "gatekeeper")
              ELSE Deriving(derived, "yes", "unwrap")
    /\ NoService /\ UNCHANGED <<element, open, clean>>

(* Once, and whether or not what it mounts is there. *)
Prepare ==
    /\ pc = "prepare"
    /\ IF device = "neo8" /\ ~prepared
       THEN /\ prepared' = TRUE /\ restart' = TRUE /\ persist' \in BOOLEAN
            /\ GoTo("sleep") /\ clean' = (clean /\ persist')
       ELSE GoTo("service") /\ UNCHANGED <<prepared, restart, persist, clean>>
    /\ UNCHANGED <<fixed, deReady, entries, weaver, keeperUp, element, open, crashes>>

(* One second is all the time that init is given to act on ctl.restart. *)
Sleep ==
    /\ pc = "sleep" /\ GoTo("service")
    /\ clean' = (clean /\ ~restart)
    /\ NoService /\ UNCHANGED <<element, open>>

(* Mutant: a service that is not there is not waited for. *)
GetServiceNow ==
    /\ pc = "service"
    /\ IF weaver.up
       THEN /\ binder' = weaver.inst /\ polls' = 0 /\ pc' = "config"
            /\ UNCHANGED <<decrypted, user, password, retried, token, verified>>
       ELSE Fail
    /\ NoService /\ UNCHANGED <<element, open, clean>>

GetService ==
    /\ pc = "service" /\ weaver.up
    /\ binder' = weaver.inst /\ polls' = 0 /\ pc' = "config"
    /\ UNCHANGED <<decrypted, user, password, retried, token, verified>>
    /\ NoService /\ UNCHANGED <<element, open, clean>>

Alive == weaver.up /\ binder = weaver.inst
Passing(more) ==
    /\ weaver' = [weaver EXCEPT !.age = IF @ < Warmup THEN @ + 1 ELSE @]
    /\ UNCHANGED <<fixed, deReady, entries, prepared, persist, restart, keeperUp, element, open, crashes, clean>>
    /\ IF more THEN polls' = polls + 1 /\ UNCHANGED <<pc, decrypted, user, password, retried, binder, token, verified>>
       ELSE Fail

(* Mutant: the service is asked for its sizes until it knows them. *)
GetConfigOn ==
    /\ pc = "config"
    /\ IF Alive /\ weaver.age >= Warmup /\ weaver.backed
       THEN GoTo("verify") /\ NoService /\ UNCHANGED <<element, open, clean>>
       ELSE /\ weaver' = [weaver EXCEPT !.age = IF @ < Warmup THEN @ + 1 ELSE @]
            /\ UNCHANGED <<fixed, deReady, entries, prepared, persist, restart, keeperUp, element, open,
                           crashes, clean, pc, decrypted, user, password, retried, attempt>>

(* A quarter of a second lies between two polls. *)
GetConfig ==
    /\ pc = "config"
    /\ IF Alive /\ weaver.age >= Warmup /\ weaver.backed
       THEN GoTo("verify") /\ NoService /\ UNCHANGED <<element, open, clean>>
       ELSE Passing(polls + 1 < MaxPolls)

(* WeaverVerify: a dead service and a throttled user are failures alike. *)
Verify ==
    /\ pc = "verify"
    /\ IF Alive THEN Counted(token = "right") ELSE UNCHANGED element
    /\ IF Alive /\ Accepts(token = "right") THEN Deriving(token, "yes", "unwrap") ELSE Fail
    /\ NoService /\ UNCHANGED <<open, clean>>

(* The service dies with the answer. *)
VerifyLost ==
    /\ pc = "verify" /\ Alive
    /\ crashes < MaxCrashes /\ crashes' = crashes + 1
    /\ weaver' = [weaver EXCEPT !.up = FALSE] /\ clean' = FALSE
    /\ Counted(token = "right") /\ Fail
    /\ UNCHANGED <<fixed, deReady, entries, prepared, persist, restart, keeperUp, open>>

(* A call that fails, with the password or with its answer, leaves the     *)
(* status at 0, which is taken for success. *)
Gatekeeper ==
    /\ pc = "gatekeeper" /\ keeperUp
    /\ \/ /\ Deriving(token, "empty", "unwrap") /\ clean' = FALSE
          /\ Counted(token = "right") \/ UNCHANGED element
       \/ /\ Counted(token = "right") /\ UNCHANGED clean
          /\ IF Accepts(token = "right") THEN Deriving(token, "yes", "unwrap") ELSE Fail
    /\ NoService /\ UNCHANGED open

(* The environment is switched, the blob unwrapped, and switched back. *)
Unwrap ==
    /\ pc = "unwrap"
    /\ LET fits == token = "right" /\ verified = "yes"
       IN \/ fits /\ GoTo("ce") /\ UNCHANGED clean
          \/ Fail /\ clean' = (clean /\ ~fits)
    /\ NoService /\ UNCHANGED <<element, open>>

UnlockCe ==
    /\ pc = "ce" /\ CeStorage(TRUE, Fail)
    /\ NoService /\ UNCHANGED element

-----------------------------------------------------------------------------
(* init, the services and the secure element                               *)
client == <<fixed, deReady, pc, entry, prepared, persist, attempt, open, decrypted>>

InitRestart ==
    /\ restart /\ restart' = FALSE
    /\ weaver' = [weaver EXCEPT !.up = FALSE]
    /\ UNCHANGED <<client, keeperUp, element, crashes, clean>>

InitStart ==
    /\ \/ /\ ~weaver.up /\ UNCHANGED keeperUp
          /\ weaver' = [inst |-> weaver.inst + 1, up |-> TRUE, age |-> 0,
                         backed |-> device = "nezha" \/ persist]
       \/ ~keeperUp /\ keeperUp' = TRUE /\ UNCHANGED weaver
    /\ UNCHANGED <<client, restart, element, crashes, clean>>

Crash ==
    /\ crashes < MaxCrashes /\ crashes' = crashes + 1
    /\ \/ weaver.up /\ weaver' = [weaver EXCEPT !.up = FALSE] /\ UNCHANGED keeperUp
       \/ keeperUp /\ keeperUp' = FALSE /\ UNCHANGED weaver
    /\ clean' = FALSE
    /\ UNCHANGED <<client, restart, element>>

Expire ==
    /\ \E u \in Users : throttled[u] /\ throttled' = [throttled EXCEPT ![u] = FALSE]
    /\ UNCHANGED <<client, service, failures, spent, crashes, clean>>

-----------------------------------------------------------------------------
Init ==
    /\ device \in Devices /\ layout \in Layouts /\ deReady \in BOOLEAN
    /\ pc = "idle" /\ user \in Users /\ password = "!" /\ retried = FALSE
    /\ prepared = FALSE /\ persist = FALSE /\ restart = FALSE
    /\ weaver \in [inst : {1}, up : BOOLEAN, age : {Warmup}, backed : {device = "nezha"}]
    /\ keeperUp = TRUE /\ binder = 0 /\ polls = 0 /\ token = "wrong" /\ verified = "no"
    /\ failures = [u \in Users |-> 0] /\ throttled = [u \in Users |-> FALSE]
    /\ open = {} /\ decrypted = {}
    /\ entries = 0 /\ crashes = 0 /\ spent = 0 /\ clean = FALSE

DecryptUser ==
    \/ Dispatch \/ DefaultPassword \/ Legacy \/ Token \/ Prepare \/ Sleep \/ GetService
    \/ GetConfig \/ Verify \/ VerifyLost \/ Gatekeeper \/ Unwrap \/ UnlockCe \/ Hook
Start == InitRestart \/ InitStart

Next ==
    \/ DecryptDE \/ (\E u \in Users, pw \in Passwords \cup {"!"} : Enter(u, pw))
    \/ DecryptUser \/ Start \/ Crash \/ Expire

Spec == Init /\ [][Next]_vars

(* init starts what is down, and the thread that decrypts goes on. *)
Fairness == WF_vars(DecryptUser) /\ WF_vars(Start)
FairSpec == Spec /\ Fairness

-----------------------------------------------------------------------------
TypeOK ==
    /\ device \in Devices /\ layout \in Layouts
    /\ pc \in {"idle", "type", "hook", "default", "legacy", "token", "prepare", "sleep", "service",
               "config", "verify", "gatekeeper", "unwrap", "ce"}
    /\ user \in Users /\ password \in Passwords \cup {"!"}
    /\ {deReady, retried, prepared, persist, restart, keeperUp, clean} \subseteq BOOLEAN
    /\ weaver \in [inst : Nat, up : BOOLEAN, age : 0..Warmup, backed : BOOLEAN]
    /\ binder \in Nat /\ polls \in 0..MaxPolls
    /\ token \in {"right", "wrong"} /\ verified \in {"no", "yes", "empty"}
    /\ failures \in [Users -> Nat] /\ throttled \in [Users -> BOOLEAN]
    /\ open \subseteq Users /\ decrypted \subseteq Users
    /\ entries \in 0..MaxEntries /\ crashes \in 0..MaxCrashes /\ spent \in Nat

Typed == password /= "!" /\ Right

(* An entry costs the user one failure in the secure element, two where    *)
(* the retry hook sends it again, and the right credential costs none: the *)
(* restarts, the polls and the retry never send a wrong key for a right    *)
(* one (Decrypt_User_Synth_Pass, WeaverVerify, Decrypt_Device).            *)
OnlyWrongCounts == spent <= (IF device = "nezha" THEN 2 ELSE 1) /\ (Typed => spent = 0)

(* The right credential opens a user whose files are in spblob, unless     *)
(* something that it needs failed.  A Weaver that init restarted within    *)
(* the second and that is down or warming up does not make it fail; one    *)
(* that init restarts later, which may be while the client holds it, does, *)
(* and is a failure here (Prepare_Neo8_Weaver_Backend, Weaver).            *)
RightOpens ==
    [][pc /= "idle" /\ pc' = "idle" /\ layout = "spblob" /\ clean' => user \in decrypted']_vars

(* An entry gets its answer, also from services that die or never become   *)
(* ready (Weaver::GetConfig, Decrypt_Device).                              *)
EntryEnds == pc /= "idle" ~> pc = "idle"
=============================================================================
