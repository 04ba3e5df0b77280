--------------------------- MODULE PartitionTable ---------------------------
(***************************************************************************)
(* How the recovery builds its list of partitions when it starts.          *)
(*                                                                         *)
(* The list comes from recovery.fstab, with what twrp.flags adds to its    *)
(* lines, then from the lines of twrp.flags that are left, then from the   *)
(* fstab of the installed system, which decides about /data and /metadata. *)
(* A logical partition enters the list when ueventd has made its device.   *)
(* After that the storages get their MTP ids and one of them the settings. *)
(***************************************************************************)
EXTENDS Naturals, Sequences, SequencesExt

CONSTANTS
    Words,          \* what names a mount point, a file system or a device
    RecoveryFstab,  \* the lines of /etc/recovery.fstab
    FlagsFile,      \* the lines of /etc/twrp.flags, in the order of their keys
    VendorFstabs,   \* what the fstab of the installed system may hold
    Uncertain,      \* devices and bare names that Path_Exists may find or not
    FstabIn,        \* the partitions that hold an fstab
    Profiles        \* builds and modes of the recovery

Data == "data"
Metadata == "metadata"
Root == "system_root"   \* Get_Android_Root_Path
Vendor == "vendor"
Odm == "odm"
FileSystems == {"f2fs", "mifs", "ext4", "erofs", "vfat", "auto"}
Images == {"emmc"}
TwFlags == {"logical", "storage", "settingsstorage", "backup", "wipeingui"}

(* text: which of /data and /metadata the text of the line mentions.       *)
(* sysfs: the device is a path of sysfs.  A flag that is given says yes.   *)
Lines == [at : Words, fs : Words, dev : Words, flags : SUBSET TwFlags,
          text : SUBSET {Data, Metadata}, sysfs : BOOLEAN]

ASSUME TableAssumption ==
    /\ {"none", "system", Root, "super", "emmc"} \subseteq Words
    /\ RecoveryFstab \in Seq(Lines) /\ FlagsFile \in Seq(Lines)
    /\ \A f \in VendorFstabs : f \in Seq(Lines)
    /\ \A f \in VendorFstabs \cup {RecoveryFstab} : \A i \in DOMAIN f :
          /\ f[i].at \in {Data, Metadata} => f[i].at \in f[i].text /\ "logical" \notin f[i].flags
          /\ f[i].at = Metadata => f[i].text = {Metadata}
    /\ \A i \in DOMAIN FlagsFile : FlagsFile[i].at \in {Data, Metadata} =>
          /\ "logical" \notin FlagsFile[i].flags
          /\ \E j \in DOMAIN RecoveryFstab : RecoveryFstab[j].at = FlagsFile[i].at
                                             /\ RecoveryFstab[j].fs \in FileSystems
    /\ \A i, j \in DOMAIN FlagsFile : FlagsFile[i].at = FlagsFile[j].at => i = j
    /\ Profiles \subseteq
         [recovery : BOOLEAN,   \* not fastboot mode
          super : BOOLEAN,      \* Get_Super_Status
          skipFstab : BOOLEAN,  \* TW_SKIP_ADDITIONAL_FSTAB
          skipSetup : BOOLEAN,  \* TW_SKIP_POST_GUI_FSTAB_SETUP
          keep : BOOLEAN,       \* twrp.recovery.keep_runtime_partitions
          datamedia : BOOLEAN,  \* RECOVERY_SDCARD_ON_DATA
          mediaBind : BOOLEAN]  \* twrp.recovery.post_decrypt_media_bind
    /\ \A p \in Profiles : (p.keep => p.skipSetup) /\ (p.mediaBind => p.datamedia)

VARIABLES
    profile, vendorFstab, nodes, \* what this start finds
    mapped,   \* the logical partitions device-mapper has
    dms,      \* those whose device ueventd has made
    mnt,      \* mounted partitions
    phase,    \* where the start is
    next,     \* the next line or entry of that phase
    table,    \* Partitions
    waiting,  \* the partition Prepare_Super_Volume waits for
    data, meta, \* Process_Fstab's pointers to entries, by id; 0 is NULL
    made,     \* ids given to entries
    settings, \* settings_partition, by id
    storageid

found == <<profile, vendorFstab, nodes>>
vars == <<found, mapped, dms, mnt, phase, next, table, waiting, data, meta, made, settings, storageid>>

-----------------------------------------------------------------------------
(* One line                                                                *)

(* at, from: Mount_Point, and where the entry comes from.  opts: fs_flags. *)
Files == {"none", "recovery", "flags", "vendor", "super"}
Entries == [id : Nat, at : Words, fs : Words, from : Files, opts : SUBSET Words,
            super : BOOLEAN, dm : BOOLEAN, present : BOOLEAN, mount : BOOLEAN, backup : BOOLEAN,
            wipe : BOOLEAN, gui : BOOLEAN, storage : BOOLEAN, settings : BOOLEAN, mtp : Nat]
Entry(id, l, from) ==
    [id |-> id, at |-> l.at, fs |-> l.fs, from |-> from, opts |-> {}, super |-> FALSE, dm |-> FALSE,
     present |-> FALSE, mount |-> FALSE, backup |-> FALSE, wipe |-> FALSE, gui |-> FALSE,
     storage |-> FALSE, settings |-> FALSE, mtp |-> 0]
NoLine == [at |-> "none", fs |-> "none", dev |-> "none", flags |-> {}, text |-> {}, sysfs |-> FALSE]
NoEntry == Entry(0, NoLine, "none")

(* 0 when there is none. *)
Find_Partition_By_Path(t, path) ==
    SelectInSeq(t, LAMBDA e : e.at = IF path = "system" THEN Root ELSE path)

Flagged(e, flags) ==
    [e EXCEPT !.super = @ \/ "logical" \in flags,
              !.storage = @ \/ flags \cap {"storage", "settingsstorage"} # {},
              !.settings = @ \/ "settingsstorage" \in flags,
              !.backup = @ \/ "backup" \in flags,
              !.gui = @ \/ "wipeingui" \in flags, !.wipe = @ \/ "wipeingui" \in flags]

(* What a mount point is known for, before any flag is read; "system" is / *)
(* as well. *)
Known(e) ==
    CASE e.at \in {"system", Root} -> [e EXCEPT !.at = Root, !.wipe = FALSE]
      [] e.at \in {Data, "cache", "sd-ext", "system_ext", "product", Odm} -> [e EXCEPT !.gui = TRUE, !.backup = TRUE]
      [] e.at \in {"datadata", "boot"} -> [e EXCEPT !.backup = TRUE]
      [] e.at \in {"sdcard", "external_sd", "external_sdcard"} -> [e EXCEPT !.storage = TRUE, !.gui = TRUE]
      [] e.at \in {"emmc", "internal_sd", "internal_sdcard"} ->
           [e EXCEPT !.storage = TRUE, !.settings = TRUE, !.gui = TRUE]
      [] OTHER -> e

ByFileSystem(e) ==
    IF e.fs \in Images THEN [e EXCEPT !.backup = e.at \in {"boot", "init_boot"}]
    ELSE Known([e EXCEPT !.mount = TRUE, !.wipe = TRUE])

FlagLines(path) == {FlagsFile[i] : i \in {j \in DOMAIN FlagsFile : FlagsFile[j].at = path}}

(* A line of twrp.flags replaces the device of a line of the fstab, and    *)
(* its flags come after those of that line. *)
Described(e, l, overlay) ==
    LET dev == IF overlay /\ FlagLines(l.at) # {} THEN (CHOOSE f \in FlagLines(l.at) : TRUE).dev ELSE l.dev
        known == ByFileSystem([e EXCEPT !.present = ~l.sysfs /\ dev \in nodes])
        plain == Flagged([known EXCEPT !.storage = @ \/ l.sysfs, !.gui = @ \/ l.sysfs], l.flags)
    IN Flagged([plain EXCEPT !.opts = {l.fs}],
               UNION {f.flags : f \in IF overlay THEN FlagLines(plain.at) ELSE {}})

(* keep: what it returns.  A second line of an fstab for a mount point     *)
(* only leaves its flags with the first. *)
Process_Fstab_Line(t, l, overlay, from) ==
    LET i == IF from = "flags" THEN 0 ELSE Find_Partition_By_Path(t, l.at)
    IN CASE i # 0 -> [keep |-> FALSE, e |-> NoEntry, table |-> [t EXCEPT ![i].opts = @ \cup {l.fs}]]
         [] i = 0 /\ l.fs \notin FileSystems \cup Images -> [keep |-> FALSE, e |-> NoEntry, table |-> t]
         [] OTHER -> [keep |-> TRUE, e |-> Described(Entry(made + 1, l, from), l, overlay), table |-> t]

-----------------------------------------------------------------------------
(* Logical partitions                                                      *)

(* Mutant: a logical partition that cannot be found is waited for. *)
UpdatableAlways(e) == TRUE

(* fs_mgr_update_logical_partition: it knows the device once it is mapped. *)
Updatable(e) == e.at \in mapped

(* Mutant: the line is processed as any other one. *)
PreparedUnguarded(e) == [e EXCEPT !.dm = TRUE, !.present = TRUE]

Prepared(e) == [e EXCEPT !.dm = TRUE, !.present = TRUE, !.backup = FALSE, !.wipe = FALSE]

Ueventd ==
    \E v \in mapped \ dms :
       /\ dms' = dms \cup {v}
       /\ UNCHANGED <<found, mapped, mnt, phase, next, table, waiting, data, meta, made, settings, storageid>>

(* Prepare_Super_Volume looks for the device until it is there; in         *)
(* fastboot mode the entry is in the list already. *)
PrepareSuperVolume ==
    /\ waiting # NoEntry /\ waiting.at \in dms
    /\ waiting' = NoEntry
    /\ table' = IF phase = "fastboot"
                THEN [i \in DOMAIN table |-> IF table[i].id = waiting.id THEN Prepared(table[i]) ELSE table[i]]
                ELSE Append(table, Prepared(waiting))
    /\ UNCHANGED <<found, mapped, dms, mnt, phase, next, data, meta, made, settings, storageid>>

-----------------------------------------------------------------------------
(* Process_Fstab                                                           *)

lines == IF phase = "recovery" THEN RecoveryFstab ELSE vendorFstab

(* Setup_Super_Devices maps what it can. *)
Begin ==
    /\ phase = "begin"
    /\ mapped' \in IF profile.super
                   THEN SUBSET {IF RecoveryFstab[i].at = "system" THEN Root ELSE RecoveryFstab[i].at :
                                i \in {j \in DOMAIN RecoveryFstab : "logical" \in RecoveryFstab[j].flags}}
                   ELSE {{}}
    /\ phase' \in {"recovery", "failed"}   \* the fstab cannot be opened
    /\ UNCHANGED <<found, dms, mnt, next, table, waiting, data, meta, made, settings, storageid>>

Erase(t, id) ==
    LET i == SelectInSeq(t, LAMBDA e : e.id = id) IN IF i = 0 THEN t ELSE RemoveAt(t, i)

(* Mutant: the pointer to the entry that is deleted stays. *)
ForgottenNot(l) ==
    IF Data \in l.text THEN [table |-> Erase(table, data), data |-> data, meta |-> meta]
    ELSE [table |-> Erase(table, meta), data |-> data, meta |-> 0]

(* The old entry of /data or /metadata goes before the line is read. *)
Forgotten(l) ==
    IF Data \in l.text THEN [table |-> Erase(table, data), data |-> 0, meta |-> meta]
    ELSE [table |-> Erase(table, meta), data |-> data, meta |-> 0]

Before(l) ==
    IF phase = "vendor" THEN Forgotten(l) ELSE [table |-> table, data |-> data, meta |-> meta]

(* Mutant: only the first file tells which entry is /data. *)
PointFirst(old, e, at) == IF e.at = at /\ phase = "recovery" THEN e.id ELSE old

Point(old, e, at) == IF e.at = at THEN e.id ELSE old

ReadLine(l) ==
    \E b \in {Before(l)} : \E r \in {Process_Fstab_Line(b.table, l, phase = "recovery", phase)} :
       LET super == r.keep /\ r.e.super
       IN /\ data' = Point(b.data, r.e, Data) /\ meta' = Point(b.meta, r.e, Metadata)
          /\ table' = IF r.keep /\ ~super THEN Append(r.table, r.e) ELSE r.table
          /\ waiting' = IF super /\ Updatable(r.e) THEN r.e ELSE NoEntry
          /\ made' = made + 1

Read ==
    /\ phase \in {"recovery", "vendor"} /\ waiting = NoEntry /\ next <= Len(lines)
    /\ next' = next + 1
    /\ IF phase = "vendor" /\ lines[next].text = {}
       THEN UNCHANGED <<table, waiting, data, meta, made>>
       ELSE ReadLine(lines[next])
    /\ UNCHANGED <<found, mapped, dms, mnt, phase, settings, storageid>>

EndOfFile ==
    /\ phase \in {"recovery", "vendor"} /\ waiting = NoEntry /\ next > Len(lines)
    /\ phase' = IF phase = "recovery" THEN "flags" ELSE "release"
    /\ next' = 1
    /\ UNCHANGED <<found, mapped, dms, mnt, table, waiting, data, meta, made, settings, storageid>>

(* The lines of twrp.flags whose mount point is not in the list. *)
ReadFlags ==
    /\ phase = "flags" /\ next <= Len(FlagsFile)
    /\ LET l == FlagsFile[next]
           r == Process_Fstab_Line(table, l, FALSE, "flags")
       IN table' = IF Find_Partition_By_Path(table, l.at) = 0 /\ r.keep THEN Append(table, r.e) ELSE table
    /\ next' = next + 1 /\ made' = made + 1
    /\ UNCHANGED <<found, mapped, dms, mnt, phase, waiting, data, meta, settings, storageid>>

InTable(S) == {v \in S : Find_Partition_By_Path(table, v) # 0}
Mountable(S) == {v \in InTable(S) : LET e == table[Find_Partition_By_Path(table, v)] IN e.mount /\ e.present}
Find_Fstab == FstabIn \cap mnt' # {}

EndOfFlags ==
    /\ phase = "flags" /\ next > Len(FlagsFile)
    /\ \E S \in SUBSET Mountable({Vendor, Odm}) :
          mnt' = IF profile.recovery THEN mnt \cup S ELSE mnt
    /\ phase' = IF profile.recovery /\ ~profile.skipFstab /\ Find_Fstab THEN "vendor" ELSE "release"
    /\ next' = 1
    /\ UNCHANGED <<found, mapped, dms, table, waiting, data, meta, made, settings, storageid>>

Process_Keymaster_Version(m) == IF profile.keep THEN m ELSE m \ {Vendor}

Release ==
    /\ phase = "release"
    /\ mnt' = LET m == IF profile.keep THEN mnt ELSE mnt \ {Odm}
                  k == IF profile.recovery THEN Process_Keymaster_Version(m) ELSE m
              IN IF profile.keep THEN k ELSE k \ {Vendor}
    /\ phase' = IF ~profile.recovery THEN "fastboot" ELSE IF profile.skipSetup THEN "ready" ELSE "setup"
    /\ UNCHANGED <<found, mapped, dms, next, table, waiting, data, meta, made, settings, storageid>>

-----------------------------------------------------------------------------
(* In fastboot mode some partitions are prepared once more, logical or     *)
(* not, whatever comes of it. *)
prepareParts == <<Root, Vendor, "vendor_dlkm", Odm>>

PrepareParts ==
    /\ phase = "fastboot" /\ waiting = NoEntry
    /\ IF next > Len(prepareParts) THEN phase' = "ready" /\ UNCHANGED <<next, waiting>>
       ELSE LET i == Find_Partition_By_Path(table, prepareParts[next])
            IN /\ waiting' = IF i # 0 /\ Updatable(table[i]) THEN table[i] ELSE NoEntry
               /\ next' = next + 1 /\ UNCHANGED phase
    /\ UNCHANGED <<found, mapped, dms, mnt, table, data, meta, made, settings, storageid>>

-----------------------------------------------------------------------------
(* Setup_Fstab_Partitions                                                  *)

Setup_Data_Media(e) == [e EXCEPT !.storage = TRUE, !.settings = TRUE]

(* Setup_Data_Partition: whether /data can be opened or not. *)
Partition_Post_Processing(e) ==
    IF e.at = Data /\ profile.datamedia THEN Setup_Data_Media(e) ELSE e

Claim(e) == e.settings /\ settings = 0 /\ e.present

SetupEntry ==
    /\ phase = "setup" /\ next <= Len(table)
    /\ LET e == Partition_Post_Processing(table[next])
           id == IF e.storage THEN storageid + 1 ELSE storageid
       IN /\ storageid' = id
          /\ settings' = IF Claim(e) /\ settings = 0 THEN e.id ELSE settings
          /\ table' = [table EXCEPT ![next] =
                         [e EXCEPT !.mtp = IF e.storage THEN id ELSE @, !.settings = Claim(e)]]
    /\ next' = next + 1
    /\ UNCHANGED <<found, mapped, dms, mnt, phase, waiting, data, meta, made>>

Internal == {"sdcard", "internal_sd", "internal_sdcard", "emmc"}

(* /data becomes the storage of a device that has no other one for the     *)
(* settings; failing that any storage gets them. *)
AutomaticDataMedia ==
    LET d == Find_Partition_By_Path(table, Data)
        auto == ~profile.datamedia /\ settings = 0 /\ InTable(Internal) = {} /\ d # 0
        first == SelectInSeq(table, LAMBDA e : e.storage)
    IN /\ table' = IF auto THEN [table EXCEPT ![d] = [Setup_Data_Media(@) EXCEPT !.mtp = storageid + 1]]
                   ELSE table
       /\ storageid' = IF auto THEN storageid + 1 ELSE storageid
       /\ settings' = CASE auto -> table[d].id
                        [] ~auto /\ settings = 0 /\ first # 0 -> table[first].id
                        [] OTHER -> settings

(* The system and /vendor were mounted in between, for their APEX files. *)
EndOfSetup ==
    /\ phase = "setup" /\ next > Len(table)
    /\ AutomaticDataMedia
    /\ mnt' = mnt \ {Root, Vendor}
    /\ phase' = IF profile.super THEN "super" ELSE "ready"
    /\ UNCHANGED <<found, mapped, dms, next, waiting, data, meta, made>>

SuperEntry == [Entry(made + 1, [NoLine EXCEPT !.at = "super", !.fs = "emmc"], "super")
                 EXCEPT !.backup = TRUE, !.present = TRUE]

Setup_Super_Partition ==
    /\ phase = "super" /\ phase' = "ready"
    /\ table' = Append(table, SuperEntry) /\ made' = made + 1
    /\ UNCHANGED <<found, mapped, dms, mnt, next, waiting, data, meta, settings, storageid>>

FirstId == 65536

(* Mutant: the id is assigned whether /data has one or not. *)
MediaIdAgain(e) == FirstId + 1

MediaId(e) == IF e.mtp = 0 THEN FirstId + 1 ELSE e.mtp

(* After the decrypt, where the media folder is bound. *)
Post_Decrypt ==
    /\ phase = "ready" /\ profile.recovery /\ profile.mediaBind
    /\ LET d == Find_Partition_By_Path(table, Data)
       IN /\ d # 0
          /\ table' = [table EXCEPT ![d] = [@ EXCEPT !.storage = TRUE, !.mtp = MediaId(table[d])]]
    /\ phase' = "unlocked"
    /\ UNCHANGED <<found, mapped, dms, mnt, next, waiting, data, meta, made, settings, storageid>>

-----------------------------------------------------------------------------
Named == {RecoveryFstab[i].dev : i \in DOMAIN RecoveryFstab} \cup {FlagsFile[i].dev : i \in DOMAIN FlagsFile}

Init ==
    /\ profile \in Profiles /\ vendorFstab \in VendorFstabs
    /\ \E S \in SUBSET Uncertain : nodes = (Named \ Uncertain) \cup S
    /\ mapped = {} /\ dms = {} /\ mnt = {}
    /\ phase = "begin" /\ next = 1 /\ table = <<>> /\ waiting = NoEntry
    /\ data = 0 /\ meta = 0 /\ made = 0
    /\ settings = 0 /\ storageid = FirstId

Startup ==
    \/ Begin \/ Read \/ EndOfFile \/ ReadFlags \/ EndOfFlags \/ Release \/ PrepareSuperVolume
    \/ PrepareParts \/ SetupEntry \/ EndOfSetup \/ Setup_Super_Partition

Next == Startup \/ Post_Decrypt \/ Ueventd

Spec == Init /\ [][Next]_vars

(* One thread that goes on, and a ueventd that does its work. *)
FairSpec == Spec /\ WF_vars(Startup) /\ WF_vars(Ueventd)

-----------------------------------------------------------------------------
TypeOK ==
    /\ profile \in Profiles /\ vendorFstab \in VendorFstabs
    /\ dms \subseteq mapped /\ mnt \subseteq {Vendor, Odm, Root}
    /\ table \in Seq(Entries) /\ waiting \in Entries
    /\ next \in Nat \ {0} /\ made \in Nat /\ {data, meta, settings} \subseteq 0..made
    /\ storageid \in FirstId..(FirstId + Len(table) + 1)
    /\ phase \in {"begin", "failed", "recovery", "flags", "vendor", "release", "fastboot",
                  "setup", "super", "ready", "unlocked"}

(* The pointers Process_Fstab keeps from one file to the next are to the   *)
(* only entry of their mount point: erase is never called with the end of  *)
(* the list, and every look-up by path has one answer. *)
PointersLive ==
    \A p \in {<<data, Data>>, <<meta, Metadata>>} :
       p[1] # 0 => {table[i].id : i \in {j \in DOMAIN table : table[j].at = p[2]}} = {p[1]}

IsLastFor(v, k) == vendorFstab[k].at = v /\ \A j \in DOMAIN vendorFstab : j > k => vendorFstab[j].at # v

(* A line that mentions /data or /metadata is for it, and can be used. *)
Clear(l) == l.text # {} => l.at \in l.text /\ l.fs \in FileSystems
VendorIsClear == \A i \in DOMAIN vendorFstab : Clear(vendorFstab[i])
VendorRead == phase \in {"setup", "super", "ready", "unlocked"} /\ profile.recovery
                /\ \E i \in DOMAIN table : table[i].from = "vendor"

(* Once the fstab of the installed system was read, /data and /metadata    *)
(* are in the list with the file system and the options of its last line   *)
(* for them, and of no other line (Process_Fstab, the second pass). *)
VendorDecides ==
    VendorRead /\ VendorIsClear =>
       \A v \in {Data, Metadata} : \A k \in DOMAIN vendorFstab : IsLastFor(v, k) =>
          \E i \in DOMAIN table : /\ table[i].at = v /\ table[i].fs = vendorFstab[k].fs
                                  /\ table[i].opts = {table[i].fs}

(* A logical partition of the fstab is only in the list with the device    *)
(* that was made for it, and the recovery neither wipes it nor offers a    *)
(* backup of it (Process_Fstab, Prepare_Super_Volume). *)
LogicalIsMapped ==
    \A i \in DOMAIN table : table[i].super /\ table[i].from = "recovery" =>
       table[i].dm /\ table[i].at \in dms /\ ~table[i].wipe /\ ~table[i].backup

(* No two storages have one MTP id, with ids given out in a loop, after it *)
(* and after the decrypt: a message to the server is about one of them.    *)
(* After the set-up one of them has the settings, if there is any, and no  *)
(* other claims to (Setup_Fstab_Partitions, Post_Decrypt).                 *)
UniqueMtpIds ==
    \A i, j \in DOMAIN table : table[i].mtp # 0 /\ table[i].mtp = table[j].mtp => i = j
OneSettings ==
    phase = "ready" /\ profile.recovery /\ ~profile.skipSetup =>
       /\ \A i \in DOMAIN table : table[i].settings => table[i].id = settings
       /\ (\E i \in DOMAIN table : table[i].storage) =>
             \E i \in DOMAIN table : table[i].id = settings /\ table[i].storage
StoragesApart == UniqueMtpIds /\ OneSettings

(* The start gets to its end whatever can be mapped and opened: no device  *)
(* is waited for that nobody will make (Prepare_Super_Volume). *)
StartupEnds == <>(phase \in {"ready", "unlocked", "failed"})

=============================================================================
