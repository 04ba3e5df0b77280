------------------------------ MODULE DataUnlock ------------------------------
(***************************************************************************)
(* How /data is decrypted, and what recovery believes of it.               *)
(*                                                                         *)
(* Decrypt_Data sets up metadata encryption, mounts /data, loads the DE    *)
(* keys and lists the users.  Decrypt_Device opens the CE storage of one   *)
(* user.  They call each other: Decrypt_Data tries the default password    *)
(* with Decrypt_Device, and Decrypt_Device calls Decrypt_Data when /data   *)
(* is not mounted.  Startup, the decrypt page and the decrypt action call  *)
(* one or the other.  One thread at a time runs all this; what makes it    *)
(* hard is how many flags tell the same story: the kernel's keys and       *)
(* mounts, the partition's Is_Decrypted and Decrypted_Block_Device, the    *)
(* DataManager's values, Users_List and the properties, which outlive a    *)
(* crash of recovery.                                                      *)
(*                                                                         *)
(* The devices have metadata encryption: Key_Directory is set, Is_Encrypted*)
(* and Is_FBE hold, and the raw block device cannot be mounted.  Outside   *)
(* the source: the metadata key opens or not; an unmount succeeds, and the *)
(* kernel forgets the keys of a file system that is unmounted; the DE keys *)
(* come with every user's twrp.user.N.decrypt set to 0.                    *)
(***************************************************************************)
EXTENDS Naturals, Sequences

CONSTANTS
    LastUser,    \* the users are 0..LastUser, 0 the owner
    Devices,     \* the configurations of the devices
    MaxList,     \* bound: length of Users_List
    MaxNest,     \* bound: nested calls that return one by one
    MaxRestarts  \* bound: crashes of recovery

Configurations == [prepare : BOOLEAN,   \* twrp.recovery.prepare_fbe
                   stock : BOOLEAN,     \* twrp.keymint.allow_stock_retry, and the hook exists
                   hook : BOOLEAN,      \* twrp-pre-decrypt.sh and twrp-decrypt-retry.sh exist
                   secondary : BOOLEAN] \* not TW_SKIP_SECONDARY_FBE_USERS

ASSUME DataUnlockAssumption ==
    /\ LastUser \in Nat /\ Devices \subseteq Configurations /\ Devices # {}
    /\ MaxList \in Nat /\ MaxNest \in Nat \ {0, 1} /\ MaxRestarts \in Nat

Users == 0..LastUser
Owner == 0

VARIABLES
    conf,     \* the device
    cred,     \* the owner's credential: default (none was set) or password
    mapper,   \* dm-default-key maps userdata
    mounted,  \* /data is mounted
    de, open, \* the keys the kernel has: the DE keys, the users' CE keys
    blkProp, doneProp, \* ro.crypto.fs_crypto_blkdev and twrp.decrypt.done are set
    dec, blk, \* /data's Is_Decrypted, Decrypted_Block_Device is not empty
    excl,     \* users in its backup_exclusions
    fbe, isEnc, isDec, pw, all, \* TW_IS_FBE, TW_IS_ENCRYPTED, TW_IS_DECRYPTED,
              \* TW_CRYPTO_PWTYPE, tw_all_users_decrypted
    list,     \* Users_List
    at,       \* where the thread is
    root,     \* who called the outermost function: startup, page, or the page the user is on
    depth,    \* how many calls of the two functions are nested in it
    req,      \* the user the GUI asked for
    restarts

device == <<conf, cred>>
kernel == <<mapper, mounted, de, open>>
props == <<blkProp, doneProp>>
part == <<dec, blk>>
flags == <<fbe, isEnc, isDec, pw, all>>
control == <<at, root, depth, req>>
vars == <<device, kernel, props, part, excl, flags, list, control, restarts>>

-----------------------------------------------------------------------------
(* The two functions alternate on the stack, so its depth is all there is  *)
(* to remember.  A call at MaxNest is counted as one at MaxNest - 1, and   *)
(* the returns of calls nested deeper are taken as one.                    *)
Goto(where) == at' = where /\ UNCHANGED <<root, depth, req>>
Call(where) ==
    /\ at' = where /\ UNCHANGED <<root, req>>
    /\ depth' = IF depth = MaxNest THEN MaxNest - 1 ELSE depth + 1
Back(where) == at' = where /\ depth' = depth - 1 /\ UNCHANGED <<root, req>>

Unmounted == mounted' = FALSE /\ de' = FALSE /\ open' = {}
Mountable == mounted \/ (dec /\ blk /\ mapper)

(* mutant: the last entry decides *)
LastEntryDecides(users) == IF users = <<>> \/ users[Len(users)].dec THEN "yes" ELSE "no"

Check_Users_Decryption_Status(users) ==
    IF \A n \in DOMAIN users : users[n].dec THEN "yes" ELSE "no"

-----------------------------------------------------------------------------
(* Startup: Setup_Data_Partition unmounts /data and finds it decrypted by  *)
(* an earlier recovery or cannot mount it; Recreate_Media_Folder mounts it *)
(* again.                                                                  *)
Setup_Data_Partition ==
    /\ at = "boot" /\ Goto("data")
    /\ mounted' = (blkProp /\ mapper) /\ de' = FALSE /\ open' = {}
    /\ dec' = blkProp /\ blk' = blkProp /\ isDec' = blkProp
    /\ fbe' = TRUE /\ isEnc' = TRUE
    /\ UNCHANGED <<device, mapper, props, excl, pw, all, list, restarts>>

(* The page that asks for the owner's password comes first if there is one *)
(* to be asked for, unless recovery was started to skip it.                *)
Prompt(enc) == IF enc /\ pw = "password" THEN "prompt" ELSE "scripts"

Decrypt_Page ==
    /\ at = "page"
    /\ fbe' = (fbe \/ conf.prepare) /\ isEnc' = (isEnc \/ conf.prepare)
    /\ \/ Goto("scripts")   \* SkipDecryption
       \/ conf.prepare /\ pw = "default" /\ Goto("data")
       \/ ~(conf.prepare /\ pw = "default") /\ Goto(Prompt(isEnc'))
    /\ UNCHANGED <<device, kernel, props, part, excl, isDec, pw, all, list, restarts>>

LeavePrompt ==
    /\ at = "prompt" /\ Goto("scripts")
    /\ UNCHANGED <<device, kernel, props, part, excl, flags, list, restarts>>

(* Waiting scripts run if TW_IS_ENCRYPTED is 0; then the GUI is up. *)
Started ==
    /\ at = "scripts" /\ at' = "idle" /\ UNCHANGED <<root, depth, req>>
    /\ UNCHANGED <<device, kernel, props, part, excl, flags, list, restarts>>

-----------------------------------------------------------------------------
(* Decrypt_Data *)
Forced == fbe /\ (~blk \/ ~mounted)

DataSkip ==
    /\ at = "data" /\ dec /\ ~Forced /\ Goto("data_end")
    /\ UNCHANGED <<device, kernel, props, part, excl, flags, list, restarts>>

DataBegin ==
    /\ at = "data" /\ (~dec \/ Forced) /\ Goto("metadata")
    /\ dec' = FALSE /\ blk' = (blk /\ ~Forced)
    /\ UNCHANGED <<device, kernel, props, excl, flags, list, restarts>>

(* fscrypt_mount_metadata_encrypted cannot map userdata a second time. *)
MetadataOpens ==
    /\ at \in {"metadata", "stock"} /\ ~mapper /\ Goto("de")
    /\ mapper' = TRUE /\ mounted' = TRUE /\ blkProp' = TRUE
    /\ dec' = TRUE /\ blk' = TRUE
    /\ UNCHANGED <<device, de, open, doneProp, excl, flags, list, restarts>>

(* Mutant: the flags of the cleanup are forgotten. *)
CleanupKeepsFlags ==
    /\ at \in {"metadata", "stock"}
    /\ Goto(IF at = "metadata" /\ conf.stock THEN "stock" ELSE "default")
    /\ Unmounted /\ mapper' = FALSE /\ dec' = TRUE /\ blk' = TRUE
    /\ UNCHANGED <<device, props, excl, flags, list, restarts>>

(* It fails, or what it mapped cannot be mounted: cleanup_metadata_attempt *)
(* and, once, another attempt with the stock values.                       *)
MetadataFails ==
    /\ at \in {"metadata", "stock"}
    /\ Goto(IF at = "metadata" /\ conf.stock THEN "stock" ELSE "default")
    /\ Unmounted /\ mapper' = FALSE /\ dec' = FALSE /\ blk' = FALSE
    /\ blkProp' \in {blkProp, blkProp \/ ~mapper}
    /\ UNCHANGED <<device, doneProp, excl, flags, list, restarts>>

(* Parse_Users appends to Users_List whatever it holds already. *)
Parsed ==
    [i \in 1..(IF conf.secondary THEN LastUser + 1 ELSE 1) |->
        [id |-> i - 1, dec |-> FALSE]]

DeOpens ==
    /\ at = "de" /\ Len(list) + Len(Parsed) <= MaxList /\ Goto("default")
    /\ de' = TRUE /\ dec' = FALSE
    /\ fbe' = TRUE /\ isEnc' = TRUE /\ pw' = cred
    /\ list' = list \o Parsed /\ all' = Check_Users_Decryption_Status(list')
    /\ UNCHANGED <<device, mapper, mounted, open, props, blk, excl, isDec, restarts>>

(* Decrypt_FBE_DE sets TW_IS_FBE to 0; its caller logs and goes on. *)
DeFails ==
    /\ at = "de" /\ Goto("default") /\ fbe' = FALSE
    /\ UNCHANGED <<device, kernel, props, part, excl, isEnc, isDec, pw, all, list, restarts>>

(* mutant: the default password is tried whatever the credential is *)
DefaultAlways ==
    /\ at = "default" /\ Call("device")
    /\ UNCHANGED <<device, kernel, props, part, excl, flags, list, restarts>>

Default ==
    /\ at = "default" /\ IF pw = "default" THEN Call("device") ELSE Goto("data_end")
    /\ UNCHANGED <<device, kernel, props, part, excl, flags, list, restarts>>

DataReturn ==
    /\ at = "data_end"
    /\ \/ depth > 0 /\ Back("remount")
       \/ /\ depth = 0 /\ root' = "page" /\ UNCHANGED <<depth, req>>
          /\ at' = IF root = "startup" THEN "page" ELSE Prompt(isEnc)
    /\ UNCHANGED <<device, kernel, props, part, excl, flags, list, restarts>>

-----------------------------------------------------------------------------
(* Decrypt_Device, for the owner with the password "!" when Decrypt_Data   *)
(* calls it, and for the user asked for when the GUI does.                 *)
user == IF depth = 0 THEN req ELSE Owner

(* mutant: any user's success clears TW_IS_ENCRYPTED *)
DeviceReturnAnyUser(ok) ==
    /\ isEnc' = (isEnc /\ ~ok) /\ UNCHANGED <<fbe, pw>>
    /\ IF depth > 0 THEN Back("data_end") ELSE at' = root /\ UNCHANGED <<root, depth, req>>

(* It returns to the decrypt action, or to Decrypt_Data. *)
DeviceReturn(ok) ==
    /\ isEnc' = (isEnc /\ ~(ok /\ user = Owner))
    /\ UNCHANGED <<fbe, pw>>
    /\ IF depth > 0 THEN Back("data_end")
       ELSE at' = root /\ UNCHANGED <<root, depth, req>>

DeviceMounts ==
    /\ at = "device" /\ fbe
    /\ IF Mountable THEN Goto("check") ELSE Call("data")
    /\ mounted' = Mountable
    /\ UNCHANGED <<device, mapper, de, open, props, part, excl, flags, list, restarts>>

DeviceRemounts ==
    /\ at = "remount" /\ mounted' = Mountable
    /\ IF Mountable THEN Goto("check") /\ UNCHANGED flags
       ELSE DeviceReturn(FALSE) /\ UNCHANGED <<isDec, all>>
    /\ UNCHANGED <<device, mapper, de, open, props, part, excl, list, restarts>>

(* Without the owner's keys /data/media/0 is there or not. *)
DeviceCheck(media) ==
    LET entries == {i \in DOMAIN list : list[i].id = user}
        needed == \/ \E i \in entries : ~list[i].dec
                  \/ user = Owner /\ (entries = {} \/ ~media)
    IN  /\ at = "check" /\ (Owner \in open => media)
        /\ IF needed THEN Goto("hook") /\ UNCHANGED flags
           ELSE DeviceReturn(TRUE) /\ UNCHANGED <<isDec, all>>
        /\ UNCHANGED <<device, kernel, props, part, excl, list, restarts>>

PreDecryptHook ==
    /\ at = "hook"
    /\ \/ Goto("verify") /\ UNCHANGED flags
       \/ conf.hook /\ DeviceReturn(FALSE) /\ UNCHANGED <<isDec, all>>
    /\ UNCHANGED <<device, kernel, props, part, excl, list, restarts>>

(* Decrypt_User: nothing is found without the DE keys, "!" opens the       *)
(* storage of an owner without a credential, and nothing else opens that.  *)
CanVerify == de /\ (user = Owner => (depth > 0) = (cred = "default"))

Mark_User_Decrypted ==
    LET first == {i \in DOMAIN list : list[i].id = user /\ \A j \in 1..(i - 1) : list[j].id # user}
    IN  /\ list' = [i \in DOMAIN list |-> IF i \in first THEN [list[i] EXCEPT !.dec = TRUE] ELSE list[i]]
        /\ all' = Check_Users_Decryption_Status(list')

Post_Decrypt(device_found) ==
    /\ isDec' = TRUE /\ dec' = TRUE /\ doneProp' = TRUE
    /\ blk' = (blk \/ device_found)
    /\ mounted' = (mounted \/ (blk' /\ mapper))
Undecrypted == UNCHANGED <<isDec, part, doneProp, mounted>>

Verified ==
    /\ at \in {"verify", "retry"} /\ CanVerify
    /\ open' = open \cup {user} /\ Mark_User_Decrypted /\ DeviceReturn(TRUE)
    /\ IF user = Owner THEN Post_Decrypt(FALSE) ELSE Undecrypted
    /\ UNCHANGED <<device, mapper, de, blkProp, excl, restarts>>

(* twrp-decrypt-retry.sh restarts the service, and the password is tried once more. *)
NotVerified ==
    /\ \/ at = "verify" /\ conf.hook /\ Goto("retry") /\ UNCHANGED flags
       \/ at \in {"verify", "retry"} /\ DeviceReturn(FALSE) /\ UNCHANGED <<isDec, all>>
    /\ UNCHANGED <<device, kernel, props, part, excl, list, restarts>>

(* Without TW_IS_FBE: what was full disk encryption, whose child does nothing. *)
FdeBranch ==
    /\ at = "device" /\ ~fbe /\ UNCHANGED all
    /\ \/ ~doneProp /\ DeviceReturn(FALSE)      \* fork failed, or the child was killed
          /\ Undecrypted
       \/ /\ DeviceReturn(TRUE)
          /\ IF ~doneProp /\ blkProp THEN Post_Decrypt(TRUE)
             ELSE Undecrypted
    /\ UNCHANGED <<device, mapper, de, open, blkProp, excl, list, restarts>>

-----------------------------------------------------------------------------
(* What the user does *)
DecryptUser(u) ==
    /\ at \in {"idle", "prompt"} /\ at' = "device" /\ root' = at /\ UNCHANGED depth
    /\ u \in {Owner} \cup {list[i].id : i \in DOMAIN list}
    /\ req' = (IF fbe THEN u ELSE Owner) /\ fbe' = TRUE
    /\ UNCHANGED <<device, kernel, props, part, excl, isEnc, isDec, pw, all, list, restarts>>

UnmountData ==
    /\ at = "idle" /\ mounted /\ Unmounted
    /\ UNCHANGED <<device, mapper, props, part, excl, flags, list, control, restarts>>

MountData ==
    /\ at = "idle" /\ ~mounted /\ Mountable /\ mounted' = TRUE
    /\ UNCHANGED <<device, mapper, de, open, props, part, excl, flags, list, control, restarts>>

(* Backup_Tar warns of a user who is not decrypted and adds the user's     *)
(* folders to the exclusions of the partition.                             *)
BackupData ==
    LET warned == IF fbe THEN {list[i].id : i \in {j \in DOMAIN list : ~list[j].dec}} \ {Owner}
                  ELSE {}
    IN  /\ at = "idle" /\ Mountable /\ mounted' = TRUE
        /\ excl' = excl \cup warned
        /\ UNCHANGED <<device, mapper, de, open, props, part, flags, list, control, restarts>>

(* init starts recovery again: the kernel and the properties remember. *)
Crash ==
    /\ at # "boot" /\ restarts < MaxRestarts /\ restarts' = restarts + 1
    /\ dec' = FALSE /\ blk' = FALSE /\ excl' = {}
    /\ fbe' = FALSE /\ isEnc' = FALSE /\ isDec' = FALSE /\ pw' = "default" /\ all' = "no"
    /\ list' = <<>> /\ at' = "boot" /\ root' = "startup" /\ depth' = 0 /\ req' = Owner
    /\ UNCHANGED <<device, kernel, props>>

Init ==
    /\ conf \in Devices /\ cred \in {"default", "password"}
    /\ mapper = FALSE /\ mounted = FALSE /\ de = FALSE /\ open = {}
    /\ blkProp = FALSE /\ doneProp = FALSE
    /\ dec = FALSE /\ blk = FALSE /\ excl = {}
    /\ fbe = FALSE /\ isEnc = FALSE /\ isDec = FALSE /\ pw = "default" /\ all = "no"
    /\ list = <<>> /\ at = "boot" /\ root = "startup" /\ depth = 0 /\ req = Owner
    /\ restarts = 0

Thread ==
    \/ Setup_Data_Partition \/ Decrypt_Page \/ Started
    \/ DataSkip \/ DataBegin \/ MetadataOpens \/ MetadataFails
    \/ DeOpens \/ DeFails \/ Default \/ DataReturn
    \/ DeviceMounts \/ DeviceRemounts \/ \E media \in BOOLEAN : DeviceCheck(media)
    \/ PreDecryptHook \/ Verified \/ NotVerified \/ FdeBranch

Next ==
    \/ Thread
    \/ \E u \in Users : DecryptUser(u)
    \/ LeavePrompt \/ UnmountData \/ MountData \/ BackupData
    \/ Crash

Spec == Init /\ [][Next]_vars

(* The thread that decrypts goes on; what the user does is the user's.     *)
FairSpec == Spec /\ WF_vars(Thread)

-----------------------------------------------------------------------------
ListOK == list \in Seq([id : Users, dec : BOOLEAN]) /\ Len(list) <= MaxList
ControlOK ==
    /\ at \in {"boot", "data", "metadata", "stock", "de", "default", "data_end", "device", "remount",
             "check", "hook", "verify", "retry", "page", "prompt", "scripts", "idle"}
    /\ root \in {"startup", "page", "prompt", "idle"}
    /\ depth \in 0..MaxNest /\ req \in Users /\ restarts \in 0..MaxRestarts
(* Keys need the mount, and the mount the mapping. *)
KernelOK ==
    /\ open # {} => de
    /\ de => mounted
    /\ mounted => mapper
ValuesOK ==
    /\ conf \in Devices /\ cred \in {"default", "password"} /\ pw \in {"default", "password"}
    /\ {mapper, mounted, de, blkProp, doneProp, dec, blk, fbe, isEnc, isDec} \subseteq BOOLEAN
    /\ open \subseteq Users /\ excl \subseteq Users \ {Owner}
    /\ all \in {"yes", "no"}

TypeOK == ValuesOK /\ KernelOK /\ ControlOK /\ ListOK

(* A waiting script runs without a question only when TW_IS_ENCRYPTED says *)
(* that the owner's storage can be read: as long as recovery still takes   *)
(* /data for file based encryption, it is open by then.                    *)
ScriptsOnOpenData == at = "scripts" /\ ~isEnc /\ fbe => Owner \in open

(* tw_all_users_decrypted becomes 1, or stays 1 for a new list, only when  *)
(* the keys of every listed user are in the kernel, each user's own.       *)
AllDecryptedIsTrue ==
    [][all' = "yes" /\ (all = "no" \/ list' # list) /\ list' # <<>>
        => {list[i].id : i \in DOMAIN list}' \subseteq open']_vars

(* Between two actions a Decrypted_Block_Device exists and the flag that   *)
(* makes Mount use it is never set without it: a cleaned up attempt leaves *)
(* no trace that would have /data mounted from a device that is gone.      *)
DeviceBehindFlag == at \in {"idle", "prompt"} => (blk => mapper) /\ (dec => blk)

(* Whatever path opened the owner's storage, through however many nested   *)
(* calls: partition and DataManager say it is decrypted, and the next      *)
(* mount of /data will find its device.                                    *)
OpenOwnerIsDecrypted ==
    at \in {"idle", "prompt"} /\ Owner \in open => dec /\ blk /\ isDec

(* Both: between two actions the flags tell what the kernel holds.         *)
FlagsTrue == DeviceBehindFlag /\ OpenOwnerIsDecrypted

(* Once the credential is known to be one to ask for, a decryption the     *)
(* user starts comes to an end, whatever fails on the way.                 *)
KnownCredentialReturns ==
    depth = 0 /\ at = "device" /\ pw = "password" ~> at \in {"idle", "prompt", "boot"}
=============================================================================
