------------------------------ MODULE Volumes ------------------------------
(***************************************************************************)
(* The partitions of the recovery while the user mounts, wipes, formats,   *)
(* repairs and shares them.                                                *)
(*                                                                         *)
(* The action thread runs one operation at a time, as a list of tasks with *)
(* one partition each; devices come and go between the tasks, when the GUI *)
(* thread reads an uevent.  The actions that run in the GUI thread itself  *)
(* are on pages that the theme leaves while an operation is busy.          *)
(***************************************************************************)
EXTENDS VolumeOps

CONSTANTS
    Order,        \* the partition list, in order
    FactoryVols,  \* Wipe_During_Factory_Reset
    GuiVols,      \* Wipe_Available_in_GUI
    VirtualAb,    \* ro.virtual_ab.enabled
    ChangeTo,     \* the file systems the user may change to
    MaxOps        \* bound: operations after the decrypt

ASSUME VolumesAssumption ==
    /\ Order \in Seq(Vols) /\ FactoryVols \subseteq Vols \ (Super \cup {Metadata})
    /\ GuiVols \subseteq Vols \ (Super \cup {Metadata})
    /\ VirtualAb \in BOOLEAN /\ ChangeTo \subseteq FileSystems /\ MaxOps \in Nat

VARIABLES
    st,      \* the device, a Store
    format,  \* the operation that runs, or ran last, is Format Data
    todo,    \* its tasks
    ok,      \* its result so far
    ums,     \* USB storage mode
    mtpWas,  \* mtp_was_enabled
    current, \* the partition of GetCurrentStoragePath
    ops      \* how many operations were started

vars == <<st, format, todo, ok, ums, mtpWas, current, ops>>
modes == <<ums, mtpWas, current>>

(* on: what a failure does.  "all" is noted and the rest goes on, "stop"   *)
(* goes to the refresh at once, "free" is not noted, and "skip" is not     *)
(* noted either but ends the loop the task belongs to.                     *)
Whats == {"pass", "factory", "wipe", "dalvik", "internal", "change", "unmount", "mount", "unmap",
          "encryption", "repair", "resize", "size", "share", "add", "usbconfig"}
Tasks == [do : Whats, v : Vols, fs : FileSystems, on : {"all", "stop", "free", "skip"}]
Task(what, v, on) == [do |-> what, v |-> v, fs |-> Fstab[v], on |-> on]

(* A loop over the list; what it is not about is passed over. *)
ForEach(what, S, on) ==
    [i \in 1..Len(Order) |-> Task(IF Order[i] \in S THEN what ELSE "pass", Order[i], on)]

(* What is left of a list when tasks at its front are passed over. *)
Left(list, Over(_)) ==
    {SubSeq(list, n, Len(list)) :
       n \in {k \in 1..(Len(list) + 1) :
                /\ \A i \in 1..(k - 1) : Over(list[i])
                /\ k <= Len(list) => ~Over(list[k])}}
Passes(u) == u.do = "pass"

Update_System_Details == ForEach("size", Vols, "free") \o <<Task("mount", current, "free")>>

(* With the merge state of a virtual A/B device to settle, the logical     *)
(* partitions are unmapped first. *)
Format_Data ==
    <<Task("unmount", Metadata, "free")>>
    \o (IF VirtualAb THEN <<Task("mount", Metadata, "free")>> \o ForEach("unmap", Super, "skip")
                     ELSE <<>>)
    \o <<Task("encryption", Data, "all")>>

UnMount_Main_Partitions ==
    ForEach("unmount", {System} \cup (IF st.hasMedia THEN {} ELSE {Data}), "free")

(* Every storage, then the switch of the USB gadget. *)
Add_All_MTP_Storage == ForEach("share", Storage, "free")
StartServer == Add_All_MTP_Storage \o <<Task("usbconfig", Data, "all")>>

-----------------------------------------------------------------------------
(* One task                                                                *)

(* Every mount under the logical partitions is detached.  A device that   *)
(* something else holds stays and nobody hears of it, its entry goes in   *)
(* any case; only a copy-on-write device that stays is a failure.         *)
Unmap_Super_Device(s, v) ==
    {[s |-> [s EXCEPT !.mnt = @ \ Super, !.list = @ \ {v}, !.present = @ \ {v},
                      !.mapped = m],
      ok |-> noCow] : m \in {s.mapped \ {v}, s.mapped}, noCow \in BOOLEAN}

Perform(s, t) ==
    CASE t.do = "factory" -> IF t.v \in s.present THEN Wipe(s, t.v, s.cur[t.v]) ELSE Ok(s)
      [] t.do = "wipe" -> Wipe_By_Path(s, t.v)
      [] t.do = "dalvik" -> Mount(s, Data)
      [] t.do = "internal" -> Wipe_Media_From_Data(s)
      [] t.do = "change" -> IF t.v \in s.list THEN Wipe(s, t.v, t.fs) ELSE Fail(s)
      [] t.do = "unmount" -> UnMount(s, t.v)
      [] t.do = "mount" -> Mount(s, t.v)
      [] t.do = "unmap" -> Unmap_Super_Device(s, t.v)
      [] t.do = "encryption" -> Wipe_Encryption(s)
      [] t.do = "repair" -> Repair(s, t.v)
      [] t.do = "resize" -> Resize(s, t.v)
      [] t.do = "size" -> Update_Size(s, t.v)
      [] t.do = "share" ->
            {IF o.ok THEN [o EXCEPT !.s = Add_MTP_Storage(@, t.v)] ELSE o :
               o \in IF t.v \in s.present THEN Mount(s, t.v) ELSE Fail(s)}
      [] t.do = "add" -> Ok(Add_MTP_Storage(s, t.v))
      [] t.do = "usbconfig" ->  \* the switch to the composite, or Disable_MTP
            Ok(s) \cup Fail([s EXCEPT !.server = FALSE, !.served = {}])

(* A loop that stops goes to what is done in any case, or to what follows  *)
(* the loop. *)
Rest(t, done) ==
    LET Over(u) == \/ Passes(u)
                   \/ ~done /\ t.on = "stop" /\ u.on /= "free"
                   \/ ~done /\ t.on = "skip" /\ u.do = t.do
    IN Left(Tail(todo), Over)

RunTask ==
    /\ todo /= <<>>
    /\ \E o \in Perform(st, Head(todo)) :
         /\ st' = o.s
         /\ ok' = (ok /\ (o.ok \/ Head(todo).on \in {"free", "skip"}))
         /\ todo' \in Rest(Head(todo), o.ok)
    /\ UNCHANGED <<format, modes, ops>>

-----------------------------------------------------------------------------
(* What the user starts                                                    *)
Idle == todo = <<>> /\ ~ums /\ ops < MaxOps

Begins(tasks, formats) ==
    /\ Idle
    /\ format' = formats /\ todo' \in Left(tasks, Passes) /\ ok' = TRUE /\ ops' = ops + 1
    /\ UNCHANGED <<st, modes>>

Start(tasks) == Begins(tasks, FALSE)

Factory_Reset == Start(ForEach("factory", FactoryVols, "all") \o Update_System_Details)

(* tw_wipe_list: the first failure ends the list. *)
WipeList ==
    \E S \in SUBSET GuiVols, d, i \in BOOLEAN :
        Start(ForEach("wipe", S, "stop")
              \o (IF d THEN <<Task("dalvik", Data, "stop")>> ELSE <<>>)
              \o (IF i THEN <<Task("internal", Data, "stop")>> ELSE <<>>)
              \o Update_System_Details)

WipeDataMedia == Begins(Format_Data \o Update_System_Details, TRUE)

ChangeFileSystem ==
    \E v \in GuiVols, fs \in ChangeTo :
        Start(<<[Task("change", v, "all") EXCEPT !.fs = fs]>> \o Update_System_Details)

RepairOrResize ==
    \E v \in GuiVols, what \in {"repair", "resize"} : Start(<<Task(what, v, "all")>>)

MountVolume ==
    \E v \in st.list : Start(<<Task("mount", v, "all"), Task("add", v, "free")>>)

UnMountVolume == \E v \in st.list : Start(<<Task("unmount", v, "all")>>)

Unmap_Super_Devices == Start(ForEach("unmap", Super, "stop"))

Enable_MTP ==
    /\ Idle
    /\ format' = FALSE /\ ok' = TRUE /\ ops' = ops + 1
    /\ IF st.server THEN UNCHANGED <<st, todo>>
       ELSE /\ st' = [st EXCEPT !.server = TRUE, !.served = {}]
            /\ todo' \in Left(StartServer, Passes)
    /\ UNCHANGED modes

Disable_MTP(s) == [s EXCEPT !.server = FALSE, !.served = {}]

StopMtp == Idle /\ st' = Disable_MTP(st) /\ UNCHANGED <<format, todo, ok, modes, ops>>

-----------------------------------------------------------------------------
(* Mutant: exports what could not be unmounted. *)
Open_Lun_FileMounted(s, v) == UNION {Ok([o.s EXCEPT !.lun = {v}]) : o \in UnMount(s, v)}

(* USB mass storage: MTP goes first; the volumes to export are unmounted.  *)
(* A failure brings MTP back.                                              *)
Open_Lun_File(s, v) ==
    UNION {IF o.ok /\ v \in o.s.present THEN Ok([o.s EXCEPT !.lun = {v}]) \cup Fail(o.s)
           ELSE Fail(o.s) : o \in UnMount(s, v)}

(* There is one lun file: the current storage, or the first one that is no *)
(* /data/media.                                                            *)
Find_Next_Storage ==
    LET Fits(v) == v \in Storage \cap st.present \cap st.list /\ ~(v = Data /\ st.hasMedia)
        First(i) == Fits(Order[i]) /\ \A j \in 1..(i - 1) : ~Fits(Order[j])
    IN {Order[i] : i \in {n \in 1..Len(Order) : First(n)}}

Exported(s) ==
    IF current /= Data THEN Open_Lun_File(s, current)
    ELSE IF Find_Next_Storage = {} THEN Fail(s)
    ELSE UNION {Open_Lun_File(s, v) : v \in Find_Next_Storage}

usb_storage_enable ==
    /\ Idle
    /\ \E o \in Exported(Disable_MTP(st)) :
         IF o.ok
         THEN st' = o.s /\ ums' = TRUE /\ todo' = <<>>
         ELSE /\ st' = [o.s EXCEPT !.server = st.server]
              /\ todo' \in IF st.server THEN Left(StartServer, Passes) ELSE {<<>>}
              /\ UNCHANGED ums
    /\ format' = FALSE /\ ok' = TRUE /\ mtpWas' = st.server /\ ops' = ops + 1
    /\ UNCHANGED current

(* The first lun file that cannot be cleared ends the loop, unnoticed. *)
usb_storage_disable ==
    /\ ums /\ todo = <<>>
    /\ ums' = FALSE
    /\ \E cleared \in BOOLEAN :
         st' = [st EXCEPT !.lun = IF cleared THEN {} ELSE @, !.server = mtpWas, !.served = {}]
    /\ todo' \in Left(ForEach("mount", Storage, "free") \o Update_System_Details
                     \o UnMount_Main_Partitions \o (IF mtpWas THEN StartServer ELSE <<>>), Passes)
    /\ format' = FALSE /\ ok' = TRUE
    /\ UNCHANGED <<mtpWas, current, ops>>

-----------------------------------------------------------------------------
(* A stick that is removed stays mounted. *)
Handle_Uevent ==
    \E v \in Removable :
        /\ st' = IF v \in st.plugged
                 THEN [st EXCEPT !.plugged = @ \ {v}, !.present = @ \ {v}]
                 ELSE [st EXCEPT !.plugged = @ \cup {v}, !.present = @ \cup {v}]
        /\ UNCHANGED <<format, todo, ok, modes, ops>>

(* After the credential: DataUnlock has how it is found.  Mount finds no   *)
(* path to bind to; the bind mount follows, without regard to its result.  *)
Post_Decrypt ==
    /\ Idle /\ st.disk[Data] = "noise" /\ ~st.mapper
    /\ LET s == [st EXCEPT !.mapper = TRUE, !.decrypted = TRUE, !.cur[Data] = Fstab[Data]]
           Mounted == {o.s : o \in Mount([s EXCEPT !.media = "none"], Data)}
       IN \E m \in Mounted, b \in BOOLEAN :
            st' = Add_MTP_Storage(Remove_MTP_Storage(
                      [m EXCEPT !.media = st.media,
                                !.bind = b /\ st.media /= "none" /\ Data \in m.mnt], Data), Data)
    /\ todo' = <<Task("size", Data, "free")>> /\ format' = FALSE /\ ok' = TRUE
    /\ UNCHANGED <<modes, ops>>

SetStorage == Idle /\ current' \in Storage \cap st.present /\ UNCHANGED <<st, format, todo, ok, ums, mtpWas, ops>>

-----------------------------------------------------------------------------
Init ==
    /\ st \in [mnt : {{}}, bind : {FALSE}, cur : {Fstab},
               disk : {[v \in Vols |-> IF v = Data THEN "noise" ELSE Fstab[v]],
                       [v \in Vols |-> IF v = Data THEN "f2fs" ELSE Fstab[v]]},
               inner : {"f2fs"}, mapper : {FALSE}, media : {"users"}, keys : {TRUE},
               hasMedia : {TRUE}, decrypted : {FALSE}, encrypted : {TRUE},
               present : {Vols \ Removable}, plugged : {{}}, list : {Vols}, mapped : {Super},
               server : {FALSE}, served : {{}}, lun : {{}}, rmrf : BOOLEAN, unsafe : {FALSE}]
    /\ format = FALSE /\ todo = <<>> /\ ok = TRUE
    /\ ums = FALSE /\ mtpWas = FALSE /\ current = Data /\ ops = 0

Begin ==
    \/ Factory_Reset \/ WipeList \/ WipeDataMedia \/ ChangeFileSystem \/ RepairOrResize
    \/ MountVolume \/ UnMountVolume \/ Unmap_Super_Devices \/ Enable_MTP \/ StopMtp
    \/ usb_storage_enable \/ usb_storage_disable \/ Post_Decrypt \/ SetStorage

Next == RunTask \/ Begin \/ Handle_Uevent

Spec == Init /\ [][Next]_vars

-----------------------------------------------------------------------------
TypeOK ==
    /\ st \in Store /\ format \in BOOLEAN /\ todo \in Seq(Tasks) /\ ok \in BOOLEAN
    /\ ums \in BOOLEAN /\ mtpWas \in BOOLEAN /\ current \in Storage /\ ops \in 0..MaxOps

(* The MTP server offers the host no storage whose volume is unmounted. *)
ServedIsMounted == \A v \in st.served : Is_Mounted(st, v)

(* No mkfs runs on a volume that is mounted, by its mount point or by the  *)
(* bind mount of its media folder.                                         *)
NeverFormatsMounted == ~st.unsafe

(* The metadata keys do not go before the data they encrypt; and a format  *)
(* of /data that succeeded has left neither the keys nor the user's files. *)
KeysGoWithData ==
    /\ ~st.keys => st.disk[Data] /= "noise"
    /\ format /\ ok /\ todo = <<>> => ~st.keys /\ st.media /= "users"

(* Only what says so erases the user's files in /data/media. *)
MediaKept ==
    [][st.media = "users" /\ st'.media /= "users" =>
         todo /= <<>> /\ Head(todo).do \in {"encryption", "internal", "change"}]_vars

(* What USB mass storage exports is mounted here by nobody, and MTP is off. *)
UsbExclusive == ums => ~st.server /\ \A v \in st.lun : ~Is_Mounted(st, v)
=============================================================================
