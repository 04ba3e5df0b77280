----------------------------- MODULE VolumeOps -----------------------------
(***************************************************************************)
(* What the operations of a partition do to the device: mounting,          *)
(* unmounting, wiping, formatting and repairing, with the messages they    *)
(* send to the MTP server.                                                 *)
(*                                                                         *)
(* Each operation is a function from a state s of the device to the set of *)
(* its outcomes [s |-> the state after it, ok |-> what it returns], so     *)
(* that a caller composes the operations it calls in the code's order.     *)
(* Where a system call or a tool may fail, the outcomes have both ends.    *)
(***************************************************************************)
EXTENDS Naturals, Sequences

CONSTANTS
    Vols,        \* the partitions of the list, by mount point
    Storage,     \* those with Is_Storage, which have an MTP_Storage_ID
    Removable,   \* those found by an uevent
    Super,       \* those with Is_Super, on logical devices
    Device,      \* Primary_Block_Device
    Fstab,       \* Fstab_File_System
    Tools,       \* the file systems whose mkfs is in the ramdisk
    IsFbe,       \* Is_FBE of /data
    KeepSystem   \* TW_DONT_UNMOUNT_SYSTEM

Data == "data"
Metadata == "metadata"
System == "system_root"
FileSystems == {"f2fs", "mifs", "ext4", "vfat", "exfat", "ntfs", "erofs"}

ASSUME VolumeAssumption ==
    /\ Data \in Storage \ Removable /\ Metadata \in Vols \ Storage
    /\ Storage \subseteq Vols /\ Removable \subseteq Vols /\ Super \subseteq Vols \ Storage
    /\ Device \in [Vols -> Vols] /\ Fstab \in [Vols -> FileSystems]
    /\ \A v \in Vols, d \in {Data, Metadata} : Device[v] = d <=> v = d
    /\ Tools \subseteq FileSystems /\ IsFbe \in BOOLEAN /\ KeepSystem \in BOOLEAN
    /\ KeepSystem => System \notin Vols \ Super

(* disk: what blkid would find on a device, "noise" on an encrypted one.   *)
(* inner: the same on the mapper of /data.  media: what /data/media holds, *)
(* where "new" is a folder the recovery made.                              *)
Store == [mnt : SUBSET Vols,       \* mount points that are mounted
          bind : BOOLEAN,          \* Symlink_Mount_Point of /data is mounted
          cur : [Vols -> FileSystems],             \* Current_File_System
          disk : [Vols -> FileSystems \cup {"noise"}],
          inner : FileSystems, mapper : BOOLEAN,
          media : {"none", "users", "new"},
          keys : BOOLEAN,          \* the key directory in /metadata holds the keys
          hasMedia : BOOLEAN,      \* Has_Data_Media
          decrypted : BOOLEAN,     \* Is_Decrypted, with Decrypted_Block_Device
          encrypted : BOOLEAN,     \* Is_Encrypted
          present : SUBSET Vols,   \* Is_Present
          plugged : SUBSET Removable, list : SUBSET Vols, mapped : SUBSET Super,
          server : BOOLEAN, served : SUBSET Storage, \* mtppid; what the server was told
          lun : SUBSET Vols,       \* devices written to a lun file
          rmrf : BOOLEAN,          \* TW_RM_RF_VAR
          unsafe : BOOLEAN]        \* history: an mkfs ran on a mounted file system

Ok(s) == {[s |-> s, ok |-> TRUE]}
Fail(s) == {[s |-> s, ok |-> FALSE]}
Either(s) == Ok(s) \cup Fail(s)

-----------------------------------------------------------------------------
(* Messages to the MTP server: the pipe keeps their order, and the server  *)
(* handles every one.                                                      *)
Is_Mounted(s, v) == v \in s.mnt \/ (v = Data /\ s.bind)

Add_MTP_Storage(s, v) ==
    IF s.server /\ v \in Storage /\ Is_Mounted(s, v)
    THEN [s EXCEPT !.served = @ \cup {v}] ELSE s

Remove_MTP_Storage(s, v) ==
    IF s.server THEN [s EXCEPT !.served = @ \ {v}] ELSE s

-----------------------------------------------------------------------------
(* Mounting                                                                *)
OnMapper(s, v) == v = Data /\ s.decrypted

Find_Actual_Block_Device(s, v) ==
    LET there == \/ OnMapper(s, v) /\ s.mapper
                 \/ ~OnMapper(s, v) /\ v \notin Removable \cup Super
                 \/ v \in s.plugged \cup s.mapped
    IN [s EXCEPT !.present = IF there THEN @ \cup {v} ELSE @ \ {v}]

Probe(s, v) == IF OnMapper(s, v) /\ s.mapper THEN s.inner ELSE s.disk[Device[v]]

(* A probe that finds nothing leaves the last file system it knew. *)
Check_FS_Type(s, v) ==
    LET t == Find_Actual_Block_Device(s, v)
    IN IF v \in t.present /\ Probe(t, v) /= "noise" THEN [t EXCEPT !.cur[v] = Probe(t, v)] ELSE t

(* mount(2): the raw device under a live mapper is busy. *)
CanMount(s, v) ==
    /\ v \in s.present /\ Probe(s, v) /= "noise"
    /\ v = Data => (s.mapper => s.decrypted)

(* A mount without its bind returns false and stays. *)
Bind_Mount(s) ==
    IF s.media = "none" THEN Fail(s) ELSE Fail(s) \cup Ok([s EXCEPT !.bind = TRUE])

Mount(s, v) ==
    IF Is_Mounted(s, v) THEN Ok(s)
    ELSE LET t == Check_FS_Type(s, v)
             u == [t EXCEPT !.mnt = @ \cup {v}]
         IN Fail(t) \cup (IF ~CanMount(t, v) THEN {}
                          ELSE IF v = Data THEN Bind_Mount(u) ELSE Ok(u))

(* Mutant: the server is not told. *)
UnMountUnannounced(s, v) ==
    {[s |-> u, ok |-> v \notin u.mnt /\ (v = Data => ~u.bind)] :
       u \in {[s EXCEPT !.mnt = @ \ {v}, !.bind = IF v = Data THEN FALSE ELSE @], s}}

NeverUnmounted(v) == v = System /\ KeepSystem

(* The bind mount and the mount point can each be busy. *)
Detached(s, v) ==
    {[s EXCEPT !.mnt = m, !.bind = b] :
       m \in {s.mnt, s.mnt \ {v}}, b \in {s.bind, s.bind /\ v /= Data}}

UnMount(s, v) ==
    IF ~Is_Mounted(s, v) \/ NeverUnmounted(v) THEN Ok(s)
    ELSE {[s |-> u, ok |-> ~Is_Mounted(u, v)] :
            u \in Detached(IF v \in Storage THEN Remove_MTP_Storage(s, v) ELSE s, v)}

(* Unmounts what it had to mount. *)
Update_Size(s, v) ==
    IF Is_Mounted(s, v) THEN Ok(s)
    ELSE UNION {IF o.ok THEN UnMount(o.s, v) ELSE {o} : o \in Mount(s, v)}

-----------------------------------------------------------------------------
(* The ways to wipe                                                        *)
Erased(s, v) == [s EXCEPT !.media = IF v = Data THEN "none" ELSE @,
                          !.keys = IF v = Metadata THEN FALSE ELSE @]

Wipe_RMRF(s, v) ==
    UNION {IF o.ok THEN Ok(Erased(IF v \in Storage THEN Remove_MTP_Storage(o.s, v) ELSE o.s, v))
                   ELSE {o} : o \in Mount(s, v)}

(* A tool that fails may have written before. *)
Mkfs(s, v, fs, raw) ==
    LET t == [Erased(s, v) EXCEPT !.unsafe = @ \/ Is_Mounted(s, v)]
    IN Fail(s) \cup Either(IF OnMapper(s, v) /\ s.mapper /\ ~raw
                           THEN [t EXCEPT !.inner = fs] ELSE [t EXCEPT !.disk[Device[v]] = fs])

Noted(o, v, fs) == IF o.ok THEN [s |-> [o.s EXCEPT !.cur[v] = fs], ok |-> TRUE] ELSE o

(* The tools other than make_f2fs: whether the code falls back to rm when  *)
(* the tool is missing, and whether it notes the new file system.  Only    *)
(* that for ext looks for the device first; the others' tools fail without *)
(* one, which is the same.                                                 *)
Format(s, v, fs, falls, notes) ==
    UNION {IF ~o.ok THEN {o}
           ELSE IF fs \notin Tools THEN (IF falls THEN Wipe_RMRF(o.s, v) ELSE Fail(o.s))
           ELSE LET t == Find_Actual_Block_Device(o.s, v)
                IN IF v \notin t.present THEN Fail(t)
                   ELSE {IF notes THEN Noted(p, v, fs) ELSE p : p \in Mkfs(t, v, fs, FALSE)} :
           o \in UnMount(s, v)}

Wipe_EXTFS(s, v) == Format(s, v, "ext4", TRUE, TRUE)
Wipe_FAT(s, v) == Format(s, v, "vfat", TRUE, TRUE)
Wipe_EXFAT(s, v) == Format(s, v, "exfat", FALSE, FALSE)
Wipe_NTFS(s, v) == Format(s, v, "ntfs", FALSE, FALSE)

(* Mutant: goes on when the partition could not be unmounted. *)
WipeMountedF2FS(s, v) ==
    UNION {Mkfs([Find_Actual_Block_Device(o.s, v) EXCEPT !.mapper = @ /\ v /= Data], v, "f2fs", TRUE) :
             o \in UnMount(s, v)}

(* A decrypted /data is formatted on its raw device.  Its mapper is        *)
(* deleted first; when that fails the code goes on.                        *)
Wipe_F2FS(s, v) ==
    UNION {IF ~o.ok THEN {o}
           ELSE IF "f2fs" \notin Tools THEN Wipe_RMRF(o.s, v)
           ELSE LET t == Find_Actual_Block_Device(o.s, v)
                    Ends == UNION {Mkfs([t EXCEPT !.mapper = m], v, "f2fs", TRUE) :
                                     m \in {t.mapper, t.mapper /\ v /= Data}}
                IN IF v \notin t.present THEN Fail(t) ELSE {Noted(p, v, "f2fs") : p \in Ends} :
           o \in UnMount(s, v)}

Wipe_Data_Without_Wiping_Media(s) ==
    UNION {IF o.ok THEN Either(o.s) ELSE {o} : o \in Mount(s, Data)}

(* Mutant: Has_Data_Media is not asked. *)
WipeAsAnyVolume(s, v, fs) ==
    IF s.rmrf THEN Wipe_RMRF(s, v)
    ELSE IF fs = "f2fs" THEN Wipe_F2FS(s, v) ELSE Wipe_EXTFS(s, v)

(* How Wipe chooses, by the file system asked for and the one it knows. *)
WipeAs(s, v, fs) ==
    IF v = Data /\ s.hasMedia /\ s.cur[v] = fs THEN Wipe_Data_Without_Wiping_Media(s)
    ELSE IF s.rmrf THEN Wipe_RMRF(s, v)
    ELSE IF fs = "ext4" THEN Wipe_EXTFS(s, v)
    ELSE IF fs = "exfat" THEN Wipe_EXFAT(s, v)
    ELSE IF fs = "ntfs" THEN Wipe_NTFS(s, v)
    ELSE IF fs = "f2fs" \/ s.cur[v] = "mifs" THEN Wipe_F2FS(s, v)
    ELSE IF fs = "vfat" THEN Wipe_FAT(s, v)
    ELSE Fail(s)

Wipe(s, v, fs) ==
    IF v \in Super THEN Fail(s)  \* Prepare_Super_Volume clears Can_Be_Wiped
    ELSE UNION {IF ~o.ok \/ v \notin Storage THEN {o}
                ELSE {[s |-> IF p.ok /\ ~(v = Data /\ IsFbe) THEN Add_MTP_Storage(p.s, v)
                                                              ELSE p.s,
                       ok |-> TRUE] : p \in Mount(o.s, v)} :
                o \in WipeAs(s, v, IF fs = "mifs" THEN "f2fs" ELSE fs)}

(* By path, in the file system it has: the other partitions on the same    *)
(* device are unmounted first, as far as that goes.                        *)
Twins(v) == {w \in Vols \ {v} : Device[w] = Device[v]}

Wipe_By_Path(s, v) ==
    IF v \notin s.list THEN Fail(s)
    ELSE LET t == Find_Actual_Block_Device(s, v)
             Left == IF Twins(v) \cap s.list = {} THEN {t}
                     ELSE {o.s : o \in UNION {UnMount(t, w) : w \in Twins(v) \cap s.list}}
         IN UNION {Wipe(u, v, u.cur[v]) : u \in Left}

-----------------------------------------------------------------------------
(* Formatting /data                                                        *)

(* The folder of the user is made again; the toggle of the mount in the    *)
(* code without FBE ends with the bind mount as well.                      *)
Recreate_Media_Folder(s) ==
    UNION {IF ~o.ok THEN {o}
           ELSE LET t == [o.s EXCEPT !.media = IF @ = "none" THEN "new" ELSE @]
                IN IF IsFbe
                   THEN {[s |-> Add_MTP_Storage([t EXCEPT !.bind = b], Data), ok |-> TRUE] :
                           b \in BOOLEAN}
                   ELSE IF o.s.media /= "none" THEN {o}
                   ELSE UNION {Mount(p.s, Data) : p \in UnMount(t, Data)} :
           o \in Mount(s, Data)}

(* Mutant: the result is not looked at. *)
Wipe_KeysUnchecked(s) == {[o EXCEPT !.ok = TRUE] : o \in Wipe_By_Path(s, Metadata)}

(* After a wipe of /data that worked, the key directory goes. *)
Wipe_Keys(s) == IF Metadata \in s.list THEN Wipe_By_Path(s, Metadata) ELSE Fail(s)

Wipe_Encryption(s) ==
    UNION {LET t == [o.s EXCEPT !.hasMedia = FALSE, !.decrypted = FALSE, !.encrypted = FALSE]
               Back(u) == [u EXCEPT !.hasMedia = s.hasMedia]
           IN IF ~o.ok THEN {o}
              ELSE UNION {IF w.ok
                          THEN UNION {Wipe_Keys(r.s) :
                                        r \in IF ~s.hasMedia THEN Ok(Back(w.s))
                                              ELSE IF IsFbe THEN Recreate_Media_Folder(Back(w.s))
                                              ELSE {[m EXCEPT !.s = IF m.ok THEN Add_MTP_Storage(@, Data) ELSE @] :
                                                      m \in Mount(Back(w.s), Data)}}
                          ELSE IF ~s.hasMedia THEN {w}
                          ELSE {[s |-> IF m.ok THEN Add_MTP_Storage(m.s, Data) ELSE m.s, ok |-> FALSE] :
                                  m \in Mount(Back(w.s), Data)} :
                          w \in Wipe(t, Data, Fstab[Data])} :
           o \in IF Data \in Find_Actual_Block_Device(s, Data).present
                 THEN UnMount(Find_Actual_Block_Device(s, Data), Data)
                 ELSE Fail(Find_Actual_Block_Device(s, Data))}

Wipe_Media_From_Data(s) ==
    IF ~s.hasMedia THEN Fail(s)
    ELSE UNION {IF ~o.ok THEN {o}
                ELSE {[s |-> Add_MTP_Storage(r.s, Data), ok |-> TRUE] :
                        r \in Recreate_Media_Folder([Remove_MTP_Storage(o.s, Data) EXCEPT
                                                      !.media = "none"])} :
                o \in Mount(s, Data)}

(* fsck, and resize2fs after it, run on what could be unmounted. *)
Repair(s, v) ==
    UNION {IF o.ok THEN Either(Find_Actual_Block_Device(o.s, v)) ELSE {o} : o \in UnMount(s, v)}

Resize(s, v) ==
    UNION {IF o.ok THEN {[s |-> z.s, ok |-> r.ok] : z \in Update_Size(o.s, v), r \in Either(o.s)}
                   ELSE {o} : o \in Repair(s, v)}
=============================================================================
