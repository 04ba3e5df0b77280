------------------------------- MODULE Flash -------------------------------
(***************************************************************************)
(* Flashing: the queue of zips, the install of each with the backup of the *)
(* recovery before it and the reflash after it, the slot it asks for; and  *)
(* the actions that write recovery images, to one slot or to both.         *)
(*                                                                         *)
(* The action thread runs one action at a time.  The GUI thread goes on    *)
(* handling the queue until the flash page has replaced its buttons.       *)
(***************************************************************************)
EXTENDS Naturals, Sequences

CONSTANTS
    Zips,       \* the zips on the storage
    Kind,       \* what TWinstall_zip finds in each
    Ozip,       \* those that are encrypted
    Asks,       \* the slot its updater asks for by the bootctl wrapper
    QueueSize,  \* the length of zip_queue
    Booted,     \* ro.boot.slot_suffix
    Repacks,    \* the types of repack the user asks for
    MaxOps,     \* bound: actions the user starts
    MaxCrashes  \* bound: crashes of the recovery

Slots == {"A", "B"}
Other(s) == IF s = "A" THEN "B" ELSE "A"

ASSUME FlashAssumption ==
    /\ Kind \in [Zips -> {"update", "ab", "theme", "junk"}]
    /\ Zips /= {} /\ Ozip \subseteq Zips
    /\ Asks \in [Zips -> Slots \cup {"none"}]
    /\ QueueSize \in Nat /\ Booted \in Slots /\ MaxOps \in Nat /\ MaxCrashes \in Nat
    /\ Repacks \subseteq {"kernel", "ramdisk"}

VARIABLES
    queue,     \* zip_queue, with what it holds beyond the index
    index,     \* zip_queue_index
    flashPage, \* the flash page is shown
    op,        \* the action in the action thread
    pc,        \* its next step
    i,         \* the loop of flash
    ret,       \* ret_val: the last zip was installed
    shown,     \* Active_Slot_Display
    boot,      \* the active slot of the boot control
    recovery,  \* the recovery partitions
    backup,    \* /tmp/recovery_backup.img
    request,   \* /tmp/twrp_requested_slot
    auto,      \* TW_AUTO_REFLASHTWRP_VAR
    status,    \* tw_operation_status
    ops, crashes,
    seen,      \* history: the queue when the flash page came up
    log,       \* history: the zips tried since, with their results
    was        \* history: slot and recovery images when the action, or its zip, began

gui == <<queue, index>>
slots == <<shown, boot>>
tmp == <<backup, request>>
history == <<seen, log>>
vars == <<queue, index, flashPage, op, pc, i, ret, shown, boot, recovery, backup, request,
          auto, status, ops, crashes, seen, log, was>>

(* An image is a kernel and a ramdisk; each slot has a kernel of its own. *)
Torn == [kernel |-> "torn", ramdisk |-> "torn"]
Images == [kernel : {"A", "B", "new", "torn"}, ramdisk : {"twrp", "stock", "new", "torn"}]
NoImage == [kernel |-> "none", ramdisk |-> "none"]

(* dd or the write of a raw image: what is on the partition after it. *)
Written(image) == {[image |-> image, ok |-> TRUE], [image |-> Torn, ok |-> FALSE]}

-----------------------------------------------------------------------------
(* The GUI thread                                                          *)
QueueZip ==
    /\ ~flashPage /\ index < QueueSize
    /\ \E z \in Zips : queue' = [queue EXCEPT ![index + 1] = z]
    /\ index' = index + 1
    /\ UNCHANGED <<flashPage, op, pc, i, ret, slots, recovery, tmp, auto, status, ops,
                   crashes, history, was>>

CancelZip ==
    /\ ~flashPage /\ index > 0
    /\ index' \in {index - 1, 0}  \* cancelzip, queueclear
    /\ UNCHANGED <<queue, flashPage, op, pc, i, ret, slots, recovery, tmp, auto, status,
                   ops, crashes, history, was>>

(* While another action runs threadActions drops the new one. *)
ThreadActions ==
    /\ op = "none" /\ ops < MaxOps
    /\ \E new \in {"flash", "setslot", "image", "images", "reflash"} \cup Repacks :
         /\ new = "flash" => index > 0
         /\ op' = new
    /\ pc' = "start" /\ ops' = ops + 1
    /\ was' = [shown |-> shown, recovery |-> recovery]
    /\ UNCHANGED <<gui, flashPage, i, ret, slots, recovery, tmp, auto, status, crashes, history>>

-----------------------------------------------------------------------------
(* flash                                                                   *)
FlashStart ==
    /\ op = "flash" /\ pc = "start"
    /\ pc' = "loop" /\ flashPage' = TRUE /\ i' = 0 /\ ret' = TRUE
    /\ seen' = SubSeq(queue, 1, index) /\ log' = <<>>
    /\ UNCHANGED <<gui, op, slots, recovery, tmp, auto, status, ops, crashes, was>>

(* An ozip that cannot be decrypted ends the loop, with what ret_val was. *)
NextZip ==
    /\ op = "flash" /\ pc = "loop" /\ i < index
    /\ \/ pc' = "backup"
       \/ queue[i + 1] \in Ozip /\ pc' = "finish"
    /\ was' = [shown |-> shown, recovery |-> recovery]
    /\ UNCHANGED <<gui, flashPage, op, i, ret, slots, recovery, tmp, auto, status, ops,
                   crashes, history>>

(* flash_zip begins: the zip is not found, or the recovery of the slot     *)
(* that is shown is saved when it is to be flashed again.                  *)
NotFound ==
    /\ op = "flash" /\ pc = "backup"
    /\ ret' = FALSE /\ pc' = "next"
    /\ UNCHANGED <<gui, flashPage, op, i, slots, recovery, tmp, auto, status, ops, crashes,
                   history, was>>

(* Mutant: a backup that is left is not removed. *)
BackupRecoveryOver ==
    /\ op = "flash" /\ pc = "backup"
    /\ backup' \in IF auto THEN {recovery[shown], backup} ELSE {backup}
    /\ pc' = "install"
    /\ UNCHANGED <<gui, flashPage, op, i, ret, slots, recovery, request, auto, status, ops,
                   crashes, history, was>>

BackupRecovery ==
    /\ op = "flash" /\ pc = "backup"
    /\ backup' \in IF auto THEN {recovery[shown], NoImage} ELSE {NoImage}
    /\ pc' = "install"
    /\ UNCHANGED <<gui, flashPage, op, i, ret, slots, recovery, request, auto, status, ops,
                   crashes, history, was>>

(* What an updater may leave on the recovery partitions: a ROM writes its  *)
(* own.  An A/B package writes the other slot and makes it active.         *)
Stock(s) == [kernel |-> s, ramdisk |-> "stock"]
Updated(z) ==
    IF Kind[z] = "update"
    THEN {[s \in Slots |-> IF s \in S THEN Stock(s) ELSE recovery[s]] : S \in SUBSET Slots}
    ELSE {recovery} \cup IF Kind[z] = "ab"
                         THEN {[recovery EXCEPT ![Other(Booted)] = Stock(Other(Booted))]} ELSE {}

(* Flash_Current_Twrp: from the slot the recovery was booted from. *)
Reflashed(r) ==
    {[s \in Slots |-> IF s = Booted THEN r[s] ELSE w.image] : w \in Written(r[Booted])}

(* TWinstall_zip.  Until the updater runs any check may end it. *)
Refused ==
    /\ op = "flash" /\ pc = "install"
    /\ ret' = FALSE /\ pc' = "slot"
    /\ UNCHANGED <<gui, flashPage, op, i, slots, recovery, tmp, auto, status, ops, crashes,
                   history, was>>

Install ==
    /\ op = "flash" /\ pc = "install"
    /\ LET z == queue[i + 1]
           runs == Kind[z] \in {"update", "ab"}
       IN /\ Kind[z] /= "junk"
          /\ ret' \in BOOLEAN
          /\ request' \in {request} \cup IF runs /\ Asks[z] /= "none" THEN {Asks[z]} ELSE {}
          /\ \E r \in Updated(z) :
               recovery' \in IF Kind[z] = "ab" /\ auto THEN Reflashed(r) ELSE {r}
          /\ boot' \in IF Kind[z] = "ab" /\ ret' THEN {Other(Booted)} ELSE {boot}
    /\ pc' = "slot"
    /\ UNCHANGED <<gui, flashPage, op, i, shown, backup, auto, status, ops, crashes, seen, log,
                   was>>

(* Set_Active_Slot: what is shown changes also when the boot control       *)
(* refuses.                                                                *)
SetActiveSlot(s) == shown' = s /\ boot' \in {s, boot}

SwitchSlot ==
    /\ op = "flash" /\ pc = "slot"
    /\ request' = "none" /\ pc' = "again"
    /\ IF request \in Slots \ {shown} THEN SetActiveSlot(request) ELSE UNCHANGED slots
    /\ UNCHANGED <<gui, flashPage, op, i, ret, recovery, backup, auto, status, ops, crashes,
                   history, was>>

(* The backup is written to both slots after an install that worked or     *)
(* switched the slot.                                                      *)
ReflashAfterZip ==
    /\ op = "flash" /\ pc = "again"
    /\ IF auto /\ backup /= NoImage /\ (ret \/ shown /= was.shown)
       THEN \E a, b \in Written(backup) : recovery' = [s \in Slots |-> IF s = "A" THEN a.image ELSE b.image]
       ELSE UNCHANGED recovery
    /\ backup' = NoImage /\ pc' = "next"
    /\ log' = Append(log, [zip |-> queue[i + 1], ok |-> ret])
    /\ UNCHANGED <<gui, flashPage, op, i, ret, slots, request, auto, status, ops, crashes,
                   seen, was>>

(* Mutant: a zip that failed does not end the loop. *)
EndZipGoesOn ==
    /\ op = "flash" /\ pc = "next"
    /\ pc' = "loop" /\ i' = i + 1
    /\ UNCHANGED <<gui, flashPage, op, ret, slots, recovery, tmp, auto, status, ops, crashes,
                   history, was>>

EndZip ==
    /\ op = "flash" /\ pc = "next"
    /\ pc' = IF ret THEN "loop" ELSE "finish"
    /\ i' = IF ret THEN i + 1 ELSE i
    /\ UNCHANGED <<gui, flashPage, op, ret, slots, recovery, tmp, auto, status, ops, crashes,
                   history, was>>

(* The refresh and operation_end; the theme then offers its buttons again. *)
Finish ==
    /\ op = "flash" /\ (pc = "finish" \/ (pc = "loop" /\ i >= index))
    /\ index' = 0 /\ status' = ret
    /\ op' = "none" /\ pc' = "done" /\ flashPage' = FALSE
    /\ UNCHANGED <<queue, i, ret, slots, recovery, tmp, auto, ops, crashes, seen, log,
                   was>>

-----------------------------------------------------------------------------
(* The other actions                                                       *)
End(ok) == op' = "none" /\ pc' = "done" /\ status' = ok
quiet == <<gui, flashPage, i, ret, tmp, auto, ops, crashes, history, was>>

SetBootSlot ==
    /\ op = "setslot" /\ pc = "start"
    /\ \E s \in Slots : IF s = shown THEN UNCHANGED slots ELSE SetActiveSlot(s)
    /\ End(TRUE) /\ UNCHANGED <<recovery, quiet>>

(* flashimage, to the slot that is shown: the image may be missing or too  *)
(* large, or the write may fail.                                           *)
New == [kernel |-> "new", ramdisk |-> "new"]
FlashOne(image) ==
    \/ recovery' = recovery /\ End(FALSE)
    \/ \E w \in Written(image) : recovery' = [recovery EXCEPT ![shown] = w.image] /\ End(w.ok)

FlashImage == op = "image" /\ pc = "start" /\ FlashOne(New) /\ UNCHANGED <<slots, quiet>>

(* The image of the slot that is shown is read, unpacked and one part of   *)
(* it replaced.                                                            *)
NewKernel(image) == [kernel |-> "new", ramdisk |-> image.ramdisk]
NewRamdisk(image) == [kernel |-> image.kernel, ramdisk |-> "new"]

(* Both slots: the first, with Override_Active_Slot to the other, ...      *)
FlashFirst ==
    /\ op \in {"images", "ramdisk"} /\ pc = "start"
    /\ LET image == IF op = "images" THEN New ELSE NewRamdisk(recovery[shown])
       IN \/ recovery' = recovery /\ status' = FALSE
          \/ \E w \in Written(image) :
               recovery' = [recovery EXCEPT ![shown] = w.image] /\ status' = w.ok
    /\ IF op = "images" \/ status'
       THEN shown' = Other(shown) /\ pc' = "second" /\ UNCHANGED op
       ELSE pc' = "done" /\ op' = "none" /\ UNCHANGED shown
    /\ UNCHANGED <<boot, quiet>>

(* Mutant: the ramdisk goes into the image of the first slot. *)
FlashSecondOfFirst ==
    /\ op \in {"images", "ramdisk"} /\ pc = "second"
    /\ recovery' = [recovery EXCEPT ![shown] = recovery[Other(shown)]]
    /\ End(status) /\ shown' = Other(shown)
    /\ UNCHANGED <<boot, quiet>>

(* ... then the second, and back.  flashimage does not try it after a      *)
(* failure and always goes back; a repack that fails here does not.        *)
FlashSecond ==
    /\ op \in {"images", "ramdisk"} /\ pc = "second"
    /\ LET image == IF op = "images" THEN New ELSE NewRamdisk(recovery[shown])
       IN \/ recovery' = recovery /\ End(FALSE)
          \/ /\ status
             /\ \E w \in Written(image) : recovery' = [recovery EXCEPT ![shown] = w.image] /\ End(w.ok)
    /\ shown' = IF op = "images" \/ status' THEN Other(shown) ELSE shown
    /\ UNCHANGED <<boot, quiet>>

(* A kernel is written to one slot.  The change of the slot at the end of  *)
(* Repack_Image_And_Flash is for the ramdisk, but made for both.           *)
RepackKernel ==
    /\ op = "kernel" /\ pc = "start"
    /\ FlashOne(NewKernel(recovery[shown]))
    /\ shown' = IF status' THEN Other(shown) ELSE shown
    /\ UNCHANGED <<boot, quiet>>

ReflashTwrp ==
    /\ op = "reflash" /\ pc = "start"
    /\ \E w \in Written(recovery[Booted]) :
         recovery' = [recovery EXCEPT ![Other(Booted)] = w.image] /\ End(w.ok)
    /\ UNCHANGED <<slots, quiet>>

-----------------------------------------------------------------------------
(* init restarts the recovery, and /tmp stays. *)
Crash ==
    /\ crashes < MaxCrashes /\ crashes' = crashes + 1
    /\ index' = 0 /\ flashPage' = FALSE /\ op' = "none" /\ pc' = "done" /\ shown' = Booted
    /\ seen' = <<>> /\ log' = <<>> /\ status' = FALSE
    /\ UNCHANGED <<queue, i, ret, boot, recovery, tmp, auto, ops, was>>

Init ==
    /\ queue \in [1..QueueSize -> {CHOOSE z \in Zips : TRUE}] /\ index = 0 /\ flashPage = FALSE
    /\ op = "none" /\ pc = "done" /\ i = 0 /\ ret = TRUE
    /\ shown = Booted /\ boot = Booted /\ auto \in BOOLEAN
    /\ \E r \in {"twrp", "stock"} :
         recovery = [s \in Slots |-> [kernel |-> s, ramdisk |-> IF s = Booted THEN "twrp" ELSE r]]
    /\ backup = NoImage /\ request = "none" /\ status = TRUE /\ ops = 0 /\ crashes = 0
    /\ seen = <<>> /\ log = <<>>
    /\ was = [shown |-> shown, recovery |-> recovery]

Thread ==
    \/ FlashStart \/ NextZip \/ NotFound \/ BackupRecovery \/ Refused \/ Install \/ SwitchSlot
    \/ ReflashAfterZip \/ EndZip \/ Finish \/ SetBootSlot \/ FlashImage \/ FlashFirst
    \/ FlashSecond \/ RepackKernel \/ ReflashTwrp

Next == QueueZip \/ CancelZip \/ ThreadActions \/ Thread \/ Crash

Spec == Init /\ [][Next]_vars

-----------------------------------------------------------------------------
TypeOK ==
    /\ queue \in [1..QueueSize -> Zips] /\ index \in 0..QueueSize /\ i \in 0..QueueSize
    /\ op \in {"none", "flash", "setslot", "image", "images", "reflash", "kernel", "ramdisk"}
    /\ pc \in {"start", "loop", "backup", "install", "slot", "again", "next", "finish", "second", "done"}
    /\ {flashPage, ret, auto, status} \subseteq BOOLEAN
    /\ {shown, boot} \subseteq Slots /\ recovery \in [Slots -> Images]
    /\ backup \in Images \cup {NoImage} /\ request \in Slots \cup {"none"}
    /\ ops \in 0..MaxOps /\ crashes \in 0..MaxCrashes
    /\ seen \in Seq(Zips) /\ log \in Seq([zip : Zips, ok : BOOLEAN])
    /\ was \in [shown : Slots, recovery : [Slots -> Images]]

(* The automatic reflash after a zip writes the recovery that was on the   *)
(* slot shown before that zip, on both slots, and nothing that an earlier  *)
(* zip, a failed dd or a crash of the recovery left in /tmp: after it a    *)
(* slot holds that image or what a dd that failed made of it (flash_zip).  *)
ReflashedIsBackup ==
    [][op = "flash" /\ pc = "again" /\ recovery' /= recovery =>
         \A s \in Slots : recovery'[s] \in {was.recovery[was.shown], Torn}]_vars

(* The zips installed are those the page showed, in their order, and none  *)
(* after one that failed: what is queued or cancelled meanwhile, and a     *)
(* queue left by an earlier flash, change nothing (flash, queuezip,        *)
(* cancelzip).                                                             *)
InstalledAsQueued ==
    /\ Len(log) <= Len(seen)
    /\ \A k \in 1..Len(log) : log[k].zip = seen[k] /\ (k < Len(log) => log[k].ok)

(* An image, or the ramdisk of one, flashed to both slots without an error *)
(* is on both, next to the kernel that was there, and the slot that is     *)
(* shown is what it was (flashimage, Repack_Image_And_Flash).              *)
BothSlotsFlashed ==
    [][op' = "none" /\ op \in {"images", "ramdisk"} /\ status' =>
         LET Asked(s) == IF op = "images" THEN New ELSE NewRamdisk(was.recovery[s])
         IN shown' = was.shown /\ \A s \in Slots : recovery'[s] = Asked(s)]_vars
=============================================================================
