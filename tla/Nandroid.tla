------------------------------ MODULE Nandroid ------------------------------
(***************************************************************************)
(* A backup and the button that cancels it.                                *)
(*                                                                         *)
(* Three parties run concurrently:                                         *)
(*   - the action thread: GUIAction::nandroid and, under it, Run_Backup or *)
(*     Run_Restore; GUIAction::flash of an image ends in Flash_Image;      *)
(*   - the child createTarFork forks for each file system it archives;     *)
(*   - the GUI thread, in which cancelbackup runs: it is in the list of    *)
(*     the actions run in the caller's thread, so no other action starts   *)
(*     before it returns.                                                  *)
(* They share stop_backup, tar_fork_pid, the name of the backup and its    *)
(* folder, and the action thread checks stop_backup where it thinks fit.   *)
(*                                                                         *)
(* A pid is what it stands for: none (0), failed (-1), child (the child    *)
(* that runs or waits to be reaped) or stale (a child already reaped; the  *)
(* kernel gives its number to nobody else).  folder and files are those of *)
(* the current backup: its name is new, and earlier ones are not tracked.  *)
(***************************************************************************)
EXTENDS Naturals, Sequences

CONSTANTS
    List,        \* tw_backup_list: per partition, the methods of it and of its subpartitions
    Blocks,      \* size of an image, in blocks of Raw_Read_Write
    ForkMayFail  \* whether fork can fail

Methods == {"files", "dd", "flash_utils"}
ASSUME NandroidAssumption ==
    /\ List \in Seq(Seq(Methods)) /\ Len(List) > 0
    /\ \A g \in DOMAIN List : Len(List[g]) > 0
    /\ Blocks \in Nat \ {0} /\ ForkMayFail \in BOOLEAN

VARIABLES
    at,       \* where the action thread is
    kind,     \* what it runs
    group, item, blk, \* the place in the list, and in the image
    digest,   \* generate_digest
    result,   \* what Run_Backup or Run_Restore returned, as a truth value
    report,   \* what the user is told
    stop,     \* stop_backup
    pid,      \* tar_fork_pid
    child,    \* the forked child
    named,    \* TW_BACKUP_NAME is the name of the folder
    folder, files,    \* the folder, and the archives in it
    cancel, path,     \* where Cancel_Backup is; Full_Backup_Path is the folder
    asked     \* history: whether a cancel of this backup began, early or late

place == <<group, item, blk>>
disk == <<folder, files>>
cancelVars == <<cancel, path, asked>>
vars == <<at, kind, place, digest, result, report, stop, pid, child, named, disk, cancelVars>>

Archives == UNION {{<<g, i>> : i \in 1..Len(List[g])} : g \in 1..Len(List)}
Method == List[group][item]
Here == <<group, item>>

-----------------------------------------------------------------------------
(* The action thread.  One action runs at a time, and none starts while    *)
(* the GUI thread is busy with a cancel.                                   *)
Begin(k, first) ==
    /\ at = "idle" /\ cancel = "none"
    /\ at' = first /\ kind' = k
    /\ group' = 1 /\ item' = 1 /\ blk' = 0
    /\ result' = FALSE /\ report' = "none"
    /\ asked' = "no"
    /\ UNCHANGED <<stop, pid, child, cancel, path>>

BackupBegin ==
    /\ Begin("backup", "reset")
    /\ named' \in BOOLEAN /\ digest' \in BOOLEAN
    /\ folder' = FALSE /\ files' = {}

GoTo(where) ==
    /\ at' = where
    /\ UNCHANGED <<kind, digest, report, stop, cancelVars>>

Return(where, r) == GoTo(where) /\ result' = r

(* The first statements of Run_Backup: a cancel before them is forgotten. *)
Reset ==
    /\ at = "reset" /\ at' = "prepare" /\ stop' = FALSE
    /\ UNCHANGED <<kind, place, digest, result, report, pid, child, named, disk, cancelVars>>

(* A slip: stop_backup is reset when the folder is made. *)
PrepareResets ==
    /\ at = "prepare" /\ at' = "loop" /\ stop' = FALSE
    /\ named' \in {named, TRUE} /\ folder' = TRUE
    /\ UNCHANGED <<kind, place, digest, result, report, pid, child, files, cancelVars>>

(* The name is generated and stored, or taken from the date and not stored. *)
Prepare ==
    /\ at = "prepare" /\ GoTo("loop")
    /\ named' \in {named, TRUE} /\ folder' = TRUE
    /\ UNCHANGED <<place, result, pid, child, files>>

PrepareFails ==
    /\ at = "prepare" /\ Return("report", FALSE)
    /\ named' \in {named, TRUE}
    /\ UNCHANGED <<place, pid, child, disk>>

(* `return -1`, which is not false. *)
StopSeen ==
    /\ at = "loop" /\ group <= Len(List) /\ stop
    /\ Return("report", TRUE)
    /\ UNCHANGED <<place, pid, child, named, disk>>

NextPartition ==
    /\ at = "loop" /\ group <= Len(List) /\ ~stop
    /\ GoTo("part")
    /\ UNCHANGED <<place, result, pid, child, named, disk>>

Completed ==
    /\ at = "loop" /\ group > Len(List)
    /\ Return("report", TRUE)
    /\ UNCHANGED <<place, pid, child, named, disk>>

(* Of a partition with subpartitions each is saved without a look at stop. *)
Advance ==
    IF item < Len(List[group])
    THEN item' = item + 1 /\ group' = group
    ELSE item' = 1 /\ group' = group + 1

-----------------------------------------------------------------------------
(* Backup_Tar and createTarFork. *)
PartFails ==
    /\ at = "part" /\ GoTo("error")
    /\ UNCHANGED <<place, result, pid, child, named, disk>>

ForkFails ==
    /\ ForkMayFail /\ at = "part" /\ Method = "files"
    /\ GoTo("error") /\ pid' = "failed"
    /\ UNCHANGED <<place, result, child, named, disk>>

Fork ==
    /\ at = "part" /\ Method = "files"
    /\ GoTo("assign") /\ child' = "started"
    /\ UNCHANGED <<place, result, pid, named, disk>>

Assign ==
    /\ at = "assign" /\ GoTo("pipe") /\ pid' = "child"
    /\ UNCHANGED <<place, result, child, named, disk>>

(* A slip: the parent's own end of the pipe stays open, and its read       *)
(* returns only when a signal interrupts it.                               *)
PipeKeptOpen ==
    /\ at = "pipe" /\ child = "failed"
    /\ GoTo("wait")
    /\ UNCHANGED <<place, result, pid, child, named, disk>>

PipeEof ==
    /\ at = "pipe" /\ child \in {"ok", "failed"}
    /\ GoTo("wait")
    /\ UNCHANGED <<place, result, pid, child, named, disk>>

(* A slip: the exit status of the child is not looked at. *)
WaitAnyStatus ==
    /\ at = "wait" /\ pid \in {"child", "none"} /\ child \in {"ok", "failed"}
    /\ GoTo("digest")
    /\ child' = "none"
    /\ pid' = IF pid = "child" THEN "stale" ELSE pid
    /\ UNCHANGED <<place, result, named, disk>>

(* waitpid of the child's pid, or of 0, any child, when a cancel reset it. *)
WaitChild ==
    /\ at = "wait" /\ pid \in {"child", "none"} /\ child \in {"ok", "failed"}
    /\ GoTo(IF child = "ok" THEN "digest" ELSE "error")
    /\ child' = "none"
    /\ pid' = IF pid = "child" THEN "stale" ELSE pid
    /\ UNCHANGED <<place, result, named, disk>>

-----------------------------------------------------------------------------
(* The child: it writes into the folder if that is still there. *)
ChildStep(from, to) ==
    /\ child = from /\ child' = to
    /\ UNCHANGED <<at, kind, place, digest, result, report, stop, pid, named, folder, cancelVars>>

ChildOpens == ChildStep("started", "writing") /\ folder /\ files' = files \cup {Here}
ChildEnds == ChildStep("writing", "ok") /\ UNCHANGED files
ChildFails == \E c \in {"started", "writing"} : ChildStep(c, "failed") /\ UNCHANGED files

-----------------------------------------------------------------------------
(* Backup_Image, and Backup_Dump_Image as one step. *)
ImageOpen ==
    /\ at = "part" /\ Method = "dd" /\ folder
    /\ GoTo("image")
    /\ files' = files \cup {Here} /\ blk' = 0
    /\ UNCHANGED <<group, item, result, pid, child, named, folder>>

(* stop is looked at after every block, the last one too. *)
ImageBlock ==
    /\ at = "image" /\ blk < Blocks
    /\ GoTo(IF stop THEN "error" ELSE "image")
    /\ blk' = blk + 1
    /\ UNCHANGED <<group, item, result, pid, child, named, disk>>

ImageFails ==
    /\ at = "image" /\ blk < Blocks
    /\ GoTo("error")
    /\ UNCHANGED <<place, result, pid, child, named, disk>>

ImageDone ==
    /\ at = "image" /\ blk = Blocks
    /\ GoTo("digest")
    /\ UNCHANGED <<place, result, pid, child, named, disk>>

Dump ==
    /\ at = "part" /\ Method = "flash_utils" /\ folder
    /\ GoTo("digest") /\ files' = files \cup {Here}
    /\ UNCHANGED <<place, result, pid, child, named, folder>>

-----------------------------------------------------------------------------
(* The end of Backup_Partition, of Run_Backup and of nandroid. *)
Digest ==
    /\ at = "digest" /\ (digest => Here \in files)
    /\ GoTo(IF item < Len(List[group]) THEN "part" ELSE "loop")
    /\ Advance
    /\ UNCHANGED <<blk, result, pid, child, named, disk>>

DigestFails ==
    /\ at = "digest" /\ digest
    /\ GoTo("error")
    /\ UNCHANGED <<place, result, pid, child, named, disk>>

(* A slip: a failed partition's folder is kept. *)
KeepFolder ==
    /\ at = "error" /\ Return("report", FALSE)
    /\ UNCHANGED <<place, pid, child, named, disk>>

CleanBackupFolder ==
    /\ at = "error" /\ Return("report", FALSE)
    /\ files' = {}
    /\ UNCHANGED <<place, pid, child, named, folder>>

Report ==
    /\ at = "report" /\ at' = "named"
    /\ report' = IF stop THEN "cancelled" ELSE IF result THEN "success" ELSE "failure"
    /\ UNCHANGED <<kind, place, digest, result, stop, pid, child, named, disk, cancelVars>>

Rename ==
    /\ at = "named" /\ GoTo("idle") /\ named' = FALSE
    /\ UNCHANGED <<place, result, pid, child, disk>>

-----------------------------------------------------------------------------
(* Run_Restore and Flash_Image.  Raw_Read_Write is the same code as for a  *)
(* backup, and looks at stop as well.                                      *)
WriteBegin(k) ==
    /\ Begin(k, "write")
    /\ UNCHANGED <<digest, named, disk>>

RestoreBegin == WriteBegin("restore")
FlashBegin == WriteBegin("flash")

Writing == at = "write" /\ group <= Len(List)
ByBlocks == kind = "flash" \/ Method = "dd"

Written(r) ==
    /\ at' = "idle" /\ report' = r
    /\ UNCHANGED <<kind, place, digest, result, stop, pid, child, named, disk, cancelVars>>

WriteBlock ==
    /\ Writing /\ ByBlocks /\ blk < Blocks /\ ~stop
    /\ GoTo("write") /\ blk' = blk + 1
    /\ UNCHANGED <<group, item, result, pid, child, named, disk>>

(* "cut": it fails because of stop and for no other reason. *)
WriteCut == Writing /\ ByBlocks /\ blk < Blocks /\ stop /\ Written("cut")
WriteFails == at = "write" /\ Written("failure")

RestoreNext ==
    /\ Writing /\ kind = "restore" /\ (ByBlocks => blk = Blocks)
    /\ GoTo("write") /\ Advance /\ blk' = 0
    /\ UNCHANGED <<result, pid, child, named, disk>>

WriteDone ==
    /\ at = "write"
    /\ IF kind = "flash" THEN blk = Blocks ELSE group > Len(List)
    /\ Written("success")

-----------------------------------------------------------------------------
(* Cancel_Backup, in the GUI thread. *)
CancelStep(from, to) ==
    /\ cancel = from /\ cancel' = to
    /\ UNCHANGED <<at, kind, place, digest, result, report, named>>

CancelBegin ==
    /\ kind = "backup" /\ at # "idle"
    /\ CancelStep("none", "check") /\ stop' = TRUE
    /\ asked' = IF at = "reset" THEN "early" ELSE "late"
    /\ UNCHANGED <<pid, child, disk, path>>

CancelNothing ==
    /\ pid = "none" /\ CancelStep("check", "none")
    /\ UNCHANGED <<stop, pid, child, disk, path, asked>>

(* The signal ends a child that still runs; -1 is everyone. *)
CancelKill ==
    /\ pid # "none" /\ CancelStep("check", "poll")
    /\ path' = named
    /\ child' = IF pid # "stale" /\ child \in {"started", "writing"} THEN "failed" ELSE child
    /\ UNCHANGED <<stop, pid, disk, asked>>

(* kill(tar_fork_pid, 0): a child not yet reaped is there, and so is -1. *)
Alive == pid = "failed" \/ (pid = "child" /\ child # "none")

CancelPolled ==
    /\ ~Alive /\ CancelStep("poll", "remove")
    /\ UNCHANGED <<stop, pid, child, disk, path, asked>>

CancelRemove ==
    /\ CancelStep("remove", "zero")
    /\ IF path THEN folder' = FALSE /\ files' = {} ELSE UNCHANGED disk
    /\ UNCHANGED <<stop, pid, child, path, asked>>

CancelZero ==
    /\ CancelStep("zero", "none") /\ pid' = "none"
    /\ UNCHANGED <<stop, child, disk, path, asked>>

-----------------------------------------------------------------------------
Init ==
    /\ at = "idle" /\ kind = "none" /\ group = 1 /\ item = 1 /\ blk = 0
    /\ digest = FALSE /\ result = FALSE /\ report = "none"
    /\ stop = FALSE /\ pid = "none" /\ child = "none"
    /\ named = FALSE /\ folder = FALSE /\ files = {}
    /\ cancel = "none" /\ path = FALSE /\ asked = "no"

BackupStep ==
    \/ Reset \/ Prepare \/ PrepareFails \/ StopSeen \/ NextPartition \/ Completed
    \/ PartFails \/ ForkFails \/ Fork \/ Assign \/ PipeEof \/ WaitChild
    \/ ImageOpen \/ ImageBlock \/ ImageFails \/ ImageDone \/ Dump
    \/ Digest \/ DigestFails \/ CleanBackupFolder \/ Report \/ Rename
WriteStep == WriteBlock \/ WriteCut \/ WriteFails \/ RestoreNext \/ WriteDone
ThreadStep == BackupStep \/ WriteStep
Child == ChildOpens \/ ChildEnds \/ ChildFails
Cancel == CancelNothing \/ CancelKill \/ CancelPolled \/ CancelRemove \/ CancelZero

Next ==
    \/ BackupBegin \/ RestoreBegin \/ FlashBegin \/ CancelBegin
    \/ ThreadStep \/ Child \/ Cancel

Spec == Init /\ [][Next]_vars

(* The scheduler runs every thread and process; commands on files end. *)
FairSpec == Spec /\ WF_vars(ThreadStep) /\ WF_vars(Child) /\ WF_vars(Cancel)
-----------------------------------------------------------------------------
(* Types. *)
TypeOK ==
    /\ at \in {"idle", "reset", "prepare", "loop", "part", "assign", "pipe", "wait",
              "image", "digest", "error", "report", "named", "write"}
    /\ kind \in {"none", "backup", "restore", "flash"}
    /\ group \in 1..Len(List) + 1
    /\ item \in IF group <= Len(List) THEN 1..Len(List[group]) ELSE {1}
    /\ blk \in 0..Blocks
    /\ digest \in BOOLEAN /\ result \in BOOLEAN /\ stop \in BOOLEAN
    /\ report \in {"none", "success", "failure", "cancelled", "cut"}
    /\ pid \in {"none", "failed", "stale", "child"}
    /\ child \in {"none", "started", "writing", "ok", "failed"}
    /\ named \in BOOLEAN /\ folder \in BOOLEAN /\ files \subseteq Archives
    /\ cancel \in {"none", "check", "poll", "remove", "zero"} /\ path \in BOOLEAN
    /\ asked \in {"no", "early", "late"}

(* A child lives, or waits to be reaped, only while createTarFork runs:    *)
(* whatever a cancel did to tar_fork_pid, no backup leaves a tar at work   *)
(* or a zombie behind, which the next cancel would poll for ever.          *)
NoChildLeft == child # "none" => at \in {"assign", "pipe", "wait"}

(* A backup reported as made, of which no cancel was asked, has its folder *)
(* and the archive of every partition and subpartition of the list,        *)
(* whatever earlier cancels left in stop_backup and tar_fork_pid.          *)
SuccessIsComplete ==
    at = "named" /\ report = "success" /\ asked = "no" => folder /\ files = Archives

(* A cancel asked once Run_Backup has begun is what the user is told of,   *)
(* also when the backup ran to its end, or failed, in spite of it.         *)
CancelHeeded ==
    [][at = "report" /\ at' = "named" /\ asked = "late" => report' = "cancelled"]_vars

(* When Run_Backup returned false no archive is left in the folder, by     *)
(* Clean_Backup_Folder or by the cancel's removeDir, in whatever order     *)
(* these two and the child's last writes came.                             *)
FailureLeavesNoArchive ==
    at \in {"report", "named"} /\ ~result => files = {}

(* The cancel in the GUI thread ends, so that the screen is not frozen;    *)
(* but for a fork that failed, whose -1 the code does not take back: then  *)
(* kill(-1, 0) succeeds for ever.                                          *)
CancelReturns == cancel # "none" ~> cancel = "none" \/ pid = "failed"

(* Every action ends: the pipe is closed, the child reaped, the list done. *)
ActionReturns == at # "idle" ~> at = "idle"

(* Whatever is cancelled when, neither thread is left waiting. *)
Returns == CancelReturns /\ ActionReturns

=============================================================================
