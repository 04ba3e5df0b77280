---------------------------- MODULE BackupProofs ----------------------------
(***************************************************************************)
(* Proofs about the backup: of Nandroid, for any list of partitions and    *)
(* any size of an image, and of SplitArchive, for any sizes, cores and     *)
(* archives.                                                               *)
(***************************************************************************)
EXTENDS Nandroid, SplitArchive, Integers, FiniteSetTheorems, TLAPS

-----------------------------------------------------------------------------
(* Nandroid.  Of its properties only NoChildLeft is inductive.  The        *)
(* strengthening says what a cancel has left in stop_backup (Heeded), that *)
(* the folder is empty until the first partition is saved (Fresh), and     *)
(* that a backup nobody asked to cancel has saved everything up to where   *)
(* it is (Saved, Kept).                                                    *)

AtPartition == at \in {"part", "assign", "pipe", "wait", "image", "digest"}

(* A cancel that came after the reset has stop_backup set for good.        *)
Heeded ==
    /\ asked = "late" => stop /\ at /= "reset"
    /\ cancel /= "none" => asked /= "no"
    /\ at \in {"prepare", "loop", "error", "report"} \/ AtPartition => (asked = "no" => ~stop)

Fresh ==
    /\ at \in {"reset", "prepare"} => files = {} /\ group = 1 /\ item = 1
    /\ at \in {"report", "named"} /\ ~result => files = {}
    /\ AtPartition => group <= Len(List)

(* Every archive of the list before this place is in the folder.           *)
Saved(g, i) ==
    \A p \in 1..Len(List) : \A q \in 1..Len(List[p]) :
        p < g \/ (p = g /\ q < i) => <<p, q>> \in files

Kept ==
    asked = "no" =>
        /\ at = "loop" \/ AtPartition => folder /\ Saved(group, item)
        /\ at = "loop" => item = 1
        /\ child \in {"writing", "ok"} \/ at \in {"image", "digest"} => Here \in files
        /\ at = "report" /\ result => folder /\ files = Archives
        /\ at = "named" /\ report = "success" => folder /\ files = Archives

IInv == TypeOK /\ NoChildLeft /\ Heeded /\ Fresh /\ Kept

(* The variables that are truth values.                                    *)
Flags ==
    /\ digest \in BOOLEAN /\ result \in BOOLEAN /\ stop \in BOOLEAN
    /\ named \in BOOLEAN /\ folder \in BOOLEAN /\ path \in BOOLEAN

-----------------------------------------------------------------------------
(* The list is a list of lists, and Archives its places.                   *)
LEMMA Lists ==
    /\ Len(List) \in Nat \ {0}
    /\ \A g \in 1..Len(List) : Len(List[g]) \in Nat \ {0}
  BY NandroidAssumption

LEMMA Places ==
    /\ \A g \in 1..Len(List) : \A i \in 1..Len(List[g]) : <<g, i>> \in Archives
    /\ \A a \in Archives : \E g \in 1..Len(List) : \E i \in 1..Len(List[g]) : a = <<g, i>>
  BY DEF Archives

LEMMA HereIsPlace == TypeOK /\ group <= Len(List) => Here \in Archives
  BY Lists, Places DEF TypeOK, Here

(* The place after this one, of the same partition or the next.            *)
LEMMA Advanced ==
    ASSUME TypeOK, group <= Len(List), Advance
    PROVE  /\ group' \in 1..Len(List) + 1
           /\ item' \in IF group' <= Len(List) THEN 1..Len(List[group']) ELSE {1}
           /\ item < Len(List[group]) => group' = group /\ item' = item + 1
           /\ item >= Len(List[group]) => group' = group + 1 /\ item' = 1
  BY Lists DEF TypeOK, Advance

LEMMA SavedAll ==
    ASSUME files \subseteq Archives, group \in Nat, group > Len(List), Saved(group, item)
    PROVE  files = Archives
  <1>1. ASSUME NEW a \in Archives PROVE a \in files
    <2>1. PICK g \in 1..Len(List) : \E i \in 1..Len(List[g]) : a = <<g, i>>
      BY Places
    <2>2. PICK i \in 1..Len(List[g]) : a = <<g, i>>
      BY <2>1
    <2>. QED
      BY <2>2, Lists DEF Saved
  <1>. QED
    BY <1>1

-----------------------------------------------------------------------------
(* The actions begin and end, and write over partitions.                   *)
LEMMA BeginSteps ==
    IInv /\ (BackupBegin \/ RestoreBegin \/ FlashBegin \/ WriteStep \/ Rename \/ Report \/ Reset) => IInv'
  <1>. SUFFICES ASSUME IInv, BackupBegin \/ RestoreBegin \/ FlashBegin \/ WriteStep \/ Rename \/ Report
                             \/ Reset
                PROVE  IInv'
    OBVIOUS
  <1>. USE Lists, NandroidAssumption DEF IInv, place, disk, cancelVars, AtPartition
  <1>1. CASE BackupBegin
    <2>1. TypeOK'
      <3>1. Flags'
        BY <1>1, Zenon DEF BackupBegin, Begin, TypeOK, Flags
      <3>. QED
        BY <1>1, <3>1 DEF BackupBegin, Begin, TypeOK, Flags
    <2>. QED
      BY <1>1, <2>1 DEF BackupBegin, Begin, NoChildLeft, Heeded, Fresh, Kept
  <1>2. CASE RestoreBegin \/ FlashBegin
    <2>1. TypeOK'
      <3>1. Flags'
        BY <1>2, Zenon DEF RestoreBegin, FlashBegin, WriteBegin, Begin, TypeOK, Flags
      <3>. QED
        BY <1>2, <3>1 DEF RestoreBegin, FlashBegin, WriteBegin, Begin, TypeOK, Flags
    <2>. QED
      BY <1>2, <2>1 DEF RestoreBegin, FlashBegin, WriteBegin, Begin, NoChildLeft, Heeded, Fresh, Kept
  <1>3. CASE WriteBlock \/ WriteCut \/ WriteFails \/ WriteDone
    <2>1. TypeOK'
      BY <1>3 DEF WriteBlock, WriteCut, WriteFails, WriteDone, Written, Writing, GoTo, TypeOK
    <2>. QED
      BY <1>3, <2>1
      DEF WriteBlock, WriteCut, WriteFails, WriteDone, Written, Writing, GoTo, NoChildLeft, Heeded, Fresh,
          Kept
  <1>4. CASE RestoreNext
    <2>1. TypeOK'
      BY <1>4, Advanced DEF RestoreNext, Writing, GoTo, TypeOK
    <2>. QED
      BY <1>4, <2>1 DEF RestoreNext, Writing, GoTo, NoChildLeft, Heeded, Fresh, Kept
  <1>5. CASE Rename
    <2>1. TypeOK'
      <3>1. Flags'
        BY <1>5, Zenon DEF Rename, GoTo, TypeOK, Flags
      <3>. QED
        BY <1>5, <3>1 DEF Rename, GoTo, TypeOK, Flags
    <2>. QED
      BY <1>5, <2>1 DEF Rename, GoTo, NoChildLeft, Heeded, Fresh, Kept
  <1>6. CASE Report
    <2>1. TypeOK'
      BY <1>6 DEF Report, TypeOK
    <2>. QED
      BY <1>6, <2>1 DEF Report, NoChildLeft, Heeded, Fresh, Kept
  <1>7. CASE Reset
    <2>1. TypeOK'
      <3>1. Flags'
        BY <1>7, Zenon DEF Reset, TypeOK, Flags
      <3>. QED
        BY <1>7, <3>1 DEF Reset, TypeOK, Flags
    <2>. QED
      BY <1>7, <2>1 DEF Reset, NoChildLeft, Heeded, Fresh, Kept
  <1>. QED
    BY <1>1, <1>2, <1>3, <1>4, <1>5, <1>6, <1>7 DEF WriteStep

(* Run_Backup.                                                             *)
LEMMA RunSteps ==
    IInv /\ (Prepare \/ PrepareFails \/ StopSeen \/ NextPartition \/ Completed \/ CleanBackupFolder) => IInv'
  <1>. SUFFICES ASSUME IInv, Prepare \/ PrepareFails \/ StopSeen \/ NextPartition \/ Completed
                             \/ CleanBackupFolder
                PROVE  IInv'
    OBVIOUS
  <1>. USE Lists DEF IInv, place, disk, cancelVars, AtPartition, GoTo, Return
  <1>1. CASE Prepare
    <2>1. named' \in BOOLEAN
      BY <1>1, Zenon DEF Prepare, TypeOK
    <2>2. TypeOK'
      BY <1>1, <2>1 DEF Prepare, TypeOK
    <2>. QED
      BY <1>1, <2>2 DEF Prepare, NoChildLeft, Heeded, Fresh, Kept, Saved
  <1>2. CASE PrepareFails
    <2>1. named' \in BOOLEAN
      BY <1>2, Zenon DEF PrepareFails, TypeOK
    <2>2. TypeOK'
      <3>1. Flags'
        BY <1>2, <2>1, Zenon DEF PrepareFails, TypeOK, Flags
      <3>. QED
        BY <1>2, <2>1, <3>1 DEF PrepareFails, TypeOK, Flags
    <2>. QED
      BY <1>2, <2>2 DEF PrepareFails, NoChildLeft, Heeded, Fresh, Kept
  <1>3. CASE StopSeen
    <2>1. TypeOK'
      BY <1>3 DEF StopSeen, TypeOK
    <2>. QED
      BY <1>3, <2>1 DEF StopSeen, NoChildLeft, Heeded, Fresh, Kept
  <1>4. CASE NextPartition
    <2>1. TypeOK'
      BY <1>4 DEF NextPartition, TypeOK
    <2>. QED
      BY <1>4, <2>1 DEF NextPartition, NoChildLeft, Heeded, Fresh, Kept, Saved
  <1>5. CASE Completed
    <2>1. TypeOK'
      BY <1>5 DEF Completed, TypeOK
    <2>2. asked = "no" => folder /\ files = Archives
      BY <1>5, SavedAll DEF Completed, Kept, TypeOK
    <2>. QED
      BY <1>5, <2>1, <2>2 DEF Completed, NoChildLeft, Heeded, Fresh, Kept
  <1>6. CASE CleanBackupFolder
    <2>1. TypeOK'
      <3>1. Flags'
        BY <1>6, Zenon DEF CleanBackupFolder, TypeOK, Flags
      <3>. QED
        BY <1>6, <3>1 DEF CleanBackupFolder, TypeOK, Flags
    <2>2. ~result'
      BY <1>6, Zenon DEF CleanBackupFolder
    <2>3. NoChildLeft' /\ Heeded'
      BY <1>6 DEF CleanBackupFolder, NoChildLeft, Heeded
    <2>4. Fresh'
      BY <1>6 DEF CleanBackupFolder, Fresh
    <2>5. Kept'
      BY <1>6, <2>2 DEF CleanBackupFolder, NoChildLeft, Kept
    <2>. QED
      BY <2>1, <2>3, <2>4, <2>5
  <1>. QED
    BY <1>1, <1>2, <1>3, <1>4, <1>5, <1>6

(* Backup_Partition, and under it the three methods.                       *)
LEMMA PartitionSteps ==
    IInv /\ (\/ PartFails \/ ForkFails \/ DigestFails \/ ImageFails \/ Fork \/ Assign \/ PipeEof
             \/ WaitChild \/ ImageOpen \/ Dump \/ ImageBlock \/ ImageDone \/ Digest)
        => IInv'
  <1>. SUFFICES ASSUME IInv, \/ PartFails \/ ForkFails \/ DigestFails \/ ImageFails \/ Fork \/ Assign
                             \/ PipeEof \/ WaitChild \/ ImageOpen \/ Dump \/ ImageBlock \/ ImageDone
                             \/ Digest
                PROVE  IInv'
    OBVIOUS
  <1>. USE Lists, NandroidAssumption DEF IInv, place, disk, cancelVars, AtPartition, GoTo
  <1>1. CASE PartFails \/ ForkFails \/ DigestFails \/ ImageFails
    <2>1. TypeOK'
      BY <1>1 DEF PartFails, ForkFails, DigestFails, ImageFails, TypeOK
    <2>. QED
      BY <1>1, <2>1 DEF PartFails, ForkFails, DigestFails, ImageFails, NoChildLeft, Heeded, Fresh, Kept
  <1>2. CASE Fork \/ Assign \/ PipeEof
    <2>1. TypeOK'
      BY <1>2 DEF Fork, Assign, PipeEof, TypeOK
    <2>2. NoChildLeft' /\ Heeded' /\ Fresh'
      BY <1>2 DEF Fork, Assign, PipeEof, NoChildLeft, Heeded, Fresh
    <2>3. Saved(group, item)' <=> Saved(group, item)
      BY <1>2 DEF Fork, Assign, PipeEof, Saved
    <2>4. Kept'
      BY <1>2, <2>3 DEF Fork, Assign, PipeEof, NoChildLeft, Kept, Here
    <2>. QED
      BY <2>1, <2>2, <2>4
  <1>3. CASE WaitChild
    <2>1. TypeOK'
      BY <1>3 DEF WaitChild, TypeOK
    <2>. QED
      BY <1>3, <2>1 DEF WaitChild, NoChildLeft, Heeded, Fresh, Kept, Saved, Here
  <1>4. CASE ImageOpen \/ Dump
    <2>0. Here \in Archives
      BY <1>4, HereIsPlace DEF ImageOpen, Dump, Fresh
    <2>1. TypeOK'
      BY <1>4, <2>0 DEF ImageOpen, Dump, TypeOK
    <2>. QED
      BY <1>4, <2>1, HereIsPlace DEF ImageOpen, Dump, NoChildLeft, Heeded, Fresh, Kept, Saved, Here
  <1>5. CASE ImageBlock
    <2>1. TypeOK'
      BY <1>5 DEF ImageBlock, TypeOK
    <2>. QED
      BY <1>5, <2>1 DEF ImageBlock, NoChildLeft, Heeded, Fresh, Kept, Saved, Here
  <1>6. CASE ImageDone
    <2>1. TypeOK'
      BY <1>6 DEF ImageDone, TypeOK
    <2>. QED
      BY <1>6, <2>1 DEF ImageDone, NoChildLeft, Heeded, Fresh, Kept, Saved, Here
  <1>7. CASE Digest
    <2>1. group <= Len(List) /\ Advance
      BY <1>7 DEF Digest, Fresh
    <2>2. TypeOK'
      BY <1>7, <2>1, Advanced DEF Digest, TypeOK
    <2>3. ASSUME asked = "no" PROVE folder /\ Saved(group, item) /\ <<group, item>> \in files
      BY <1>7, <2>3 DEF Digest, Kept, Here
    <2>4. asked = "no" => Saved(group, item)'
      <3>. SUFFICES ASSUME asked = "no", NEW p \in 1..Len(List), NEW q \in 1..Len(List[p]),
                           p < group' \/ (p = group' /\ q < item')
                    PROVE  <<p, q>> \in files
        BY <1>7 DEF Saved, Digest
      <3>1. CASE item < Len(List[group])
        <4>1. group' = group /\ item' = item + 1
          BY <2>1, <3>1, Advanced
        <4>2. p < group \/ (p = group /\ (q < item \/ q = item))
          BY <4>1, <2>1 DEF TypeOK
        <4>. QED
          BY <2>3, <4>2 DEF Saved
      <3>2. CASE ~(item < Len(List[group]))
        <4>1. group' = group + 1 /\ item' = 1 /\ item = Len(List[group])
          BY <2>1, <3>2, Advanced DEF TypeOK
        <4>2. p < group \/ (p = group /\ (q < item \/ q = item))
          BY <4>1, <2>1 DEF TypeOK
        <4>. QED
          BY <2>3, <4>2 DEF Saved
      <3>. QED
        BY <3>1, <3>2
    <2>5. CASE item < Len(List[group])
      <3>1. at = "digest" /\ at' = "part" /\ group' = group
        BY <1>7, <2>1, <2>5, Advanced DEF Digest
      <3>. QED
        BY <1>7, <2>1, <2>2, <2>3, <2>4, <3>1 DEF Digest, NoChildLeft, Heeded, Fresh, Kept
    <2>6. CASE ~(item < Len(List[group]))
      <3>1. at = "digest" /\ at' = "loop" /\ item' = 1
        BY <1>7, <2>1, <2>6, Advanced DEF Digest, TypeOK
      <3>. QED
        BY <1>7, <2>1, <2>2, <2>3, <2>4, <3>1 DEF Digest, NoChildLeft, Heeded, Fresh, Kept
    <2>. QED
      BY <2>5, <2>6
  <1>. QED
    BY <1>1, <1>2, <1>3, <1>4, <1>5, <1>6, <1>7

(* The child.                                                              *)
LEMMA ChildSteps == IInv /\ Child => IInv'
  <1>. SUFFICES ASSUME IInv, Child PROVE IInv'
    OBVIOUS
  <1>. USE Lists DEF IInv, place, cancelVars, AtPartition, ChildStep
  <1>1. CASE ChildOpens
    <2>1. at \in {"assign", "pipe", "wait"}
      BY <1>1 DEF ChildOpens, NoChildLeft
    <2>2. Here \in Archives
      BY <2>1, HereIsPlace DEF Fresh
    <2>3. TypeOK'
      BY <1>1, <2>2 DEF ChildOpens, TypeOK
    <2>4. NoChildLeft' /\ Heeded' /\ Fresh'
      BY <1>1, <2>1 DEF ChildOpens, NoChildLeft, Heeded, Fresh
    <2>5. Kept'
      BY <1>1, <2>1 DEF ChildOpens, Kept, Saved, Here
    <2>. QED
      BY <2>3, <2>4, <2>5
  <1>2. CASE ChildEnds \/ ChildFails
    <2>1. TypeOK'
      BY <1>2 DEF ChildEnds, ChildFails, TypeOK
    <2>. QED
      BY <1>2, <2>1 DEF ChildEnds, ChildFails, NoChildLeft, Heeded, Fresh, Kept, Saved, Here
  <1>. QED
    BY <1>1, <1>2 DEF Child

(* The cancel.                                                             *)
LEMMA CancelSteps == IInv /\ (CancelBegin \/ Cancel) => IInv'
  <1>. SUFFICES ASSUME IInv, CancelBegin \/ Cancel PROVE IInv'
    OBVIOUS
  <1>. USE DEF IInv, place, disk, AtPartition, CancelStep
  <1>1. CASE CancelBegin
    <2>1. TypeOK'
      <3>1. Flags'
        BY <1>1, Zenon DEF CancelBegin, TypeOK, Flags
      <3>. QED
        BY <1>1, <3>1 DEF CancelBegin, TypeOK, Flags
    <2>2. stop'
      BY <1>1, Zenon DEF CancelBegin
    <2>. QED
      BY <1>1, <2>1, <2>2 DEF CancelBegin, NoChildLeft, Heeded, Fresh, Kept
  <1>2. CASE CancelNothing \/ CancelPolled \/ CancelZero
    <2>1. TypeOK'
      BY <1>2 DEF CancelNothing, CancelPolled, CancelZero, TypeOK
    <2>. QED
      BY <1>2, <2>1 DEF CancelNothing, CancelPolled, CancelZero, NoChildLeft, Heeded, Fresh, Kept, Saved, Here
  <1>3. CASE CancelKill
    <2>1. TypeOK'
      <3>1. Flags'
        BY <1>3, Zenon DEF CancelKill, TypeOK, Flags
      <3>. QED
        BY <1>3, <3>1 DEF CancelKill, TypeOK, Flags
    <2>. QED
      BY <1>3, <2>1 DEF CancelKill, NoChildLeft, Heeded, Fresh, Kept
  <1>4. CASE CancelRemove
    <2>1. TypeOK'
      <3>1. CASE path
        <4>1. folder' = FALSE /\ files' = {}
          BY <1>4, <3>1, Zenon DEF CancelRemove
        <4>2. Flags'
          BY <1>4, <4>1, Zenon DEF CancelRemove, TypeOK, Flags
        <4>. QED
          BY <1>4, <4>1, <4>2 DEF CancelRemove, TypeOK, Flags
      <3>2. CASE ~path
        BY <1>4, <3>2 DEF CancelRemove, TypeOK
      <3>. QED
        BY <3>1, <3>2
    <2>. QED
      BY <1>4, <2>1 DEF CancelRemove, NoChildLeft, Heeded, Fresh, Kept
  <1>. QED
    BY <1>1, <1>2, <1>3, <1>4 DEF Cancel

LEMMA Initial == Init => IInv
  <1>. SUFFICES ASSUME Init PROVE IInv
    OBVIOUS
  <1>. USE Lists, NandroidAssumption DEF Init
  <1>1. Flags
    BY Zenon DEF Flags
  <1>2. TypeOK
    BY <1>1 DEF TypeOK, Flags
  <1>. QED
    BY <1>2 DEF IInv, NoChildLeft, Heeded, Fresh, Kept, AtPartition

LEMMA Inductive == IInv /\ [Next]_vars => IInv'
  <1>1. ASSUME IInv, UNCHANGED vars PROVE IInv'
    BY <1>1
    DEF vars, place, disk, cancelVars, IInv, TypeOK, NoChildLeft, Heeded, Fresh, Kept, Saved, Here, AtPartition
  <1>. QED
    BY <1>1, BeginSteps, RunSteps, PartitionSteps, ChildSteps, CancelSteps
    DEF Next, ThreadStep, BackupStep

LEMMA Invariance == Spec => []IInv
  BY Initial, Inductive, PTL DEF Spec

-----------------------------------------------------------------------------
(* Every variable keeps its type: the place is one of the list, and the    *)
(* folder holds nothing but its archives.                                  *)
THEOREM TypeCorrect == Spec => []TypeOK
  <1>1. IInv => TypeOK
    BY DEF IInv
  <1>. QED
    BY <1>1, Invariance, PTL

(* No backup leaves a child at work or unreaped (createTarFork).           *)
THEOREM ChildIsReaped == Spec => []NoChildLeft
  <1>1. IInv => NoChildLeft
    BY DEF IInv
  <1>. QED
    BY <1>1, Invariance, PTL

(* A backup reported as made, of which no cancel was asked, is complete    *)
(* (Run_Backup, GUIAction::nandroid).                                      *)
THEOREM CompleteWhenReported == Spec => []SuccessIsComplete
  <1>1. IInv => SuccessIsComplete
    BY DEF IInv, Kept, SuccessIsComplete
  <1>. QED
    BY <1>1, Invariance, PTL

(* Once Run_Backup returned false the folder is empty (Clean_Backup_Folder,*)
(* Cancel_Backup).                                                         *)
THEOREM NothingLeftOfFailure == Spec => []FailureLeavesNoArchive
  <1>1. IInv => FailureLeavesNoArchive
    BY DEF IInv, Fresh, FailureLeavesNoArchive
  <1>. QED
    BY <1>1, Invariance, PTL

(* A cancel asked after Run_Backup began is what the user is told of       *)
(* (GUIAction::nandroid).                                                  *)
THEOREM CancelIsReported == Spec => CancelHeeded
  <1>1. ASSUME IInv, [Next]_vars, at = "report", at' = "named", asked = "late"
        PROVE  report' = "cancelled"
    <2>1. stop
      BY <1>1 DEF IInv, Heeded
    <2>2. ~UNCHANGED vars /\ ~BackupBegin /\ ~RestoreBegin /\ ~FlashBegin /\ ~CancelBegin
      BY <1>1 DEF vars, BackupBegin, RestoreBegin, FlashBegin, WriteBegin, Begin, CancelBegin, CancelStep
    <2>3. ~Child /\ ~Cancel /\ ~WriteStep
      BY <1>1
      DEF Child, ChildOpens, ChildEnds, ChildFails, ChildStep, Cancel, CancelNothing, CancelKill,
          CancelPolled, CancelRemove, CancelZero, CancelStep, WriteStep, WriteBlock, WriteCut, WriteFails,
          RestoreNext, WriteDone, Writing, GoTo
    <2>4. Report
      BY <1>1, <2>2, <2>3
      DEF Next, ThreadStep, BackupStep, Reset, Prepare, PrepareFails, StopSeen, NextPartition, Completed,
          PartFails, ForkFails, Fork, Assign, PipeEof, WaitChild, ImageOpen, ImageBlock, ImageFails,
          ImageDone, Dump, Digest, DigestFails, CleanBackupFolder, Rename, GoTo, Return
    <2>. QED
      BY <2>1, <2>4 DEF Report
  <1>. QED
    BY <1>1, Invariance, PTL DEF Spec, CancelHeeded

-----------------------------------------------------------------------------
(* SplitArchive: the division never uses more threads than are started,    *)
(* the child never ends before its threads, no two archives have one name, *)
(* every item is saved once, and all that was saved is extracted.          *)

(* The sizes of what is listed: every share closed held more than Target,  *)
(* so that the shares closed, the open one and what is to come are at most *)
(* the whole.                                                              *)
Sizes ==
    /\ mode \in Modes /\ cores \in Nat \ {0} /\ total \in Nat
    /\ left \in Nat /\ segment \in Nat /\ tid \in Nat
    /\ First(mode) <= tid
Shares ==
    /\ Encrypted => (tid - First(mode)) * Target + segment + left <= total
    /\ ~Encrypted => tid = 0
DivInv == Sizes /\ Shares

(* A share is a positive size, and the cores have together more of them    *)
(* than there is.                                                          *)
LEMMA TargetCovers ==
    ASSUME NEW c \in Nat \ {0}, NEW n \in Nat
    PROVE  n \div c + 1 \in Nat \ {0} /\ n < c * (n \div c + 1)
  OBVIOUS

LEMMA FewShares ==
    ASSUME NEW k \in Nat, NEW c \in Nat, NEW s \in Nat, NEW n \in Nat,
           k * s <= n, n < c * s
    PROVE  k < c
<1>1. SUFFICES ASSUME c <= k PROVE FALSE
  OBVIOUS
<1>2. c * s <= k * s
  BY <1>1
<1> QED
  BY <1>2

LEMMA ShareClosed ==
    ASSUME NEW k \in Nat, NEW s \in Nat, NEW a \in Nat, s <= a
    PROVE  (k + 1) * s <= k * s + a
  OBVIOUS

LEMMA TargetType ==
    ASSUME Sizes PROVE Target \in Nat /\ (Encrypted => Target # 0)
  BY TargetCovers DEF Sizes, Target

LEMMA InvFits == DivInv => DivisionFits
<1> SUFFICES ASSUME DivInv PROVE DivisionFits
  OBVIOUS
<1> DEFINE k == tid - First(mode)
<1>0. k \in Nat /\ tid = k + First(mode) /\ First(mode) \in {0, 1}
  BY DEF DivInv, Sizes, First
<1>1. CASE Encrypted
  <2>1. Target \in Nat /\ k * Target <= total
    <3>1. k * Target \in Nat
      BY <1>0, TargetType DEF DivInv
    <3> QED
      BY <1>0, <1>1, <3>1, TargetType DEF DivInv, Sizes, Shares
  <2>2. total < cores * Target
    BY <1>1, TargetCovers DEF DivInv, Sizes, Target
  <2>3. k < cores
    BY <1>0, <2>1, <2>2, FewShares DEF DivInv, Sizes
  <2> QED
    BY <1>0, <1>1, <2>3 DEF DivInv, Sizes, Encrypted, DivisionFits, LastThread, First
<1>2. CASE ~Encrypted
  BY <1>2 DEF DivInv, Sizes, Shares, DivisionFits, LastThread, Encrypted, Modes
<1> QED
  BY <1>1, <1>2

LEMMA DivInit == ArchiveInit => DivInv
<1> SUFFICES ASSUME ArchiveInit PROVE DivInv
  OBVIOUS
<1>1. Sizes
  BY SplitAssumption DEF ArchiveInit, Sizes, First
<1>2. 0 * Target = 0
  BY <1>1, TargetType
<1>3. tid - First(mode) = 0 /\ segment = 0 /\ left = total
  BY <1>1 DEF ArchiveInit, Sizes, First
<1>4. Encrypted => (tid - First(mode)) * Target + segment + left <= total
  BY <1>1, <1>2, <1>3 DEF Sizes
<1>5. ~Encrypted => tid = 0
  BY DEF ArchiveInit, First, Encrypted
<1> QED
  BY <1>1, <1>4, <1>5 DEF DivInv, Shares

LEMMA DivStep == DivInv /\ [ArchiveNext]_archiveVars => DivInv'
<1> SUFFICES ASSUME DivInv, [ArchiveNext]_archiveVars PROVE DivInv'
  OBVIOUS
<1>1. CASE \E size \in 0..MaxTotal : ListFile(size)
  <2> PICK size \in 0..MaxTotal : ListFile(size)
    BY <1>1
  <2> DEFINE k == tid - First(mode)
  <2>0. /\ size \in Nat /\ size <= left /\ left' = left - size /\ left' \in Nat
        /\ mode' = mode /\ cores' = cores /\ total' = total /\ Target' = Target
        /\ k \in Nat /\ First(mode) \in Nat /\ First(mode') = First(mode)
        /\ Encrypted' = Encrypted
    BY DEF ListFile, Listed, DivInv, Sizes, First, Target, Encrypted
  <2>1. CASE Full(segment + size)
    <3>1. tid' = tid + 1 /\ segment' = 0 /\ Target < segment + size /\ Encrypted
      BY <2>1 DEF ListFile, Full, Target
    <3>2. (k + 1) * Target <= k * Target + (segment + size)
      BY <2>0, <3>1, TargetType, ShareClosed DEF DivInv, Sizes
    <3>3. k * Target \in Nat /\ (k + 1) * Target \in Nat
      BY <2>0, TargetType DEF DivInv
    <3>4. k * Target + segment + left <= total
      BY <3>1 DEF DivInv, Shares
    <3>5. tid' - First(mode') = k + 1
      BY <2>0, <3>1 DEF DivInv, Sizes
    <3>6. (tid' - First(mode')) * Target' + segment' + left' <= total'
      <4>1. (k + 1) * Target + 0 + (left - size) <= total
        <5> DEFINE a == k * Target  b == (k + 1) * Target
        <5>1. b <= a + (segment + size) /\ a + segment + left <= total /\ a \in Nat /\ b \in Nat
          BY <3>2, <3>3, <3>4
        <5> HIDE DEF a, b
        <5>2. b + 0 + (left - size) <= total
          BY <5>1, <2>0 DEF DivInv, Sizes
        <5> QED
          BY <5>2 DEF b
      <4> QED
        BY <4>1, <3>5, <2>0, <3>1
    <3> QED
      BY <2>0, <3>1, <3>6 DEF DivInv, Sizes, Shares
  <2>2. CASE ~Full(segment + size)
    <3>1. tid' = tid /\ segment' = segment + size
      BY <2>2 DEF ListFile
    <3> DEFINE a == k * Target
    <3>2. a \in Nat
      BY <2>0, TargetType DEF DivInv
    <3>3. Encrypted => a + segment' + left' <= total
      <4>1. Encrypted => a + segment + left <= total
        BY DEF DivInv, Shares
      <4> HIDE DEF a
      <4> QED
        BY <4>1, <3>1, <3>2, <2>0 DEF DivInv, Sizes
    <3> QED
      BY <2>0, <3>1, <3>3 DEF DivInv, Sizes, Shares
  <2> QED
    BY <2>1, <2>2
<1>2. CASE \E size \in 0..MaxTotal : ListTopFile(size)
  <2> PICK size \in 0..MaxTotal : ListTopFile(size)
    BY <1>2
  <2> DEFINE a == (tid - First(mode)) * Target
  <2>0. /\ size \in Nat /\ size <= left /\ left' = left - size /\ left' \in Nat
        /\ mode' = mode /\ cores' = cores /\ total' = total /\ Target' = Target
        /\ First(mode') = First(mode) /\ Encrypted' = Encrypted /\ Encrypted
        /\ tid' = tid /\ segment' = segment + size
    BY DEF ListTopFile, Listed, DivInv, Sizes, First, Target, Encrypted
  <2>1. a \in Nat
    BY TargetType DEF DivInv, Sizes, First
  <2>2. a + segment' + left' <= total
    <3>1. a + segment + left <= total
      BY <2>0 DEF DivInv, Shares
    <3> HIDE DEF a
    <3> QED
      BY <3>1, <2>0, <2>1 DEF DivInv, Sizes
  <2> QED
    BY <2>0, <2>2 DEF DivInv, Sizes, Shares
<1>3. CASE \E size \in 0..MaxTotal : ListApp(size)
  BY <1>3 DEF ListApp, Listed, DivInv, Sizes, Shares, First, Target, Encrypted
<1>4. CASE UNCHANGED divideVars
  BY <1>4 DEF divideVars, DivInv, Sizes, Shares, First, Target, Encrypted
<1>5. CASE DivisionDone \/ Main \/ ExtractBegin \/ \E t \in Threads : Thread(t) \/ ThreadFails(t)
  <2>1. UNCHANGED divideVars
    BY <1>5 DEF DivisionDone, Main, StartThread, RanItself, FailedItself, Fail, NoMoreThreads,
         Join, JoinError, AllJoined, ExtractBegin, Thread, ThreadFails, TarItem, TarDone, TooMany,
         TarFails, End, Extract, ExtractDone, ExtractFails
  <2> QED
    BY <2>1, <1>4
<1>6. CASE UNCHANGED archiveVars
  BY <1>6, <1>4 DEF archiveVars
<1> QED
  BY <1>1, <1>2, <1>3, <1>5, <1>6 DEF ArchiveNext, Divide

(* The division into shares never asks for a thread that is not started:   *)
(* twrpTar.cpp:159-390 does not come to "Error dividing up threads" with   *)
(* more threads than cores.                                                *)
THEOREM DivisionAlwaysFits == ArchiveSpec => []DivisionFits
<1>1. ArchiveSpec => []DivInv
  BY DivInit, DivStep, PTL DEF ArchiveSpec
<1> QED
  BY <1>1, InvFits, PTL

-----------------------------------------------------------------------------
(* The main thread: who may still run, and who was joined. *)
CrewType ==
    /\ mode \in Modes /\ cores \in 1..MaxCores
    /\ start \in Nat /\ last \in Int /\ last <= MaxCores /\ join \in Nat
    /\ run \in [Threads -> {"no", "running", "done", "error"}]
    /\ busy \in BOOLEAN /\ marked \subseteq Threads

(* Before the work and after it nobody runs. *)
Quiet ==
    /\ phase \in {"divide", "saved", "restored"} => \A t \in Threads : run[t] # "running"
    /\ phase = "divide" => ~busy /\ marked = {}

(* During it those run that were started; those marked are done, and those *)
(* joined do not run.                                                      *)
Started == Working => \A t \in Threads :
    run[t] = "running" => t < start \/ (busy /\ t = start)
Marked == Working => \A t \in marked : run[t] = "done" /\ t < start
Joined == Working => \A t \in Threads : t < join /\ t < start => run[t] # "running"

(* The main thread starts up to last, and joins only afterwards. *)
Bounds == Working => start <= last + 1 /\ (busy => start <= last)
JoinAfter == Working /\ start <= last => join \in {0, 1} /\ (join = 1 => mode # "encrypted")

CrewInv == CrewType /\ Quiet /\ Started /\ Marked /\ Joined /\ Bounds /\ JoinAfter

LEMMA CrewInit == ArchiveInit => CrewInv
<1> SUFFICES ASSUME ArchiveInit PROVE CrewInv
  OBVIOUS
<1>1. CrewType
  <2>1. /\ mode \in Modes /\ cores \in 1..MaxCores /\ start = 0 /\ last = 0 /\ join = 0
        /\ busy = FALSE /\ marked = {} /\ run = [t \in Threads |-> "no"]
    BY DEF ArchiveInit
  <2>2. run \in [Threads -> {"no", "running", "done", "error"}]
    BY <2>1
  <2>3. busy \in BOOLEAN /\ marked \subseteq Threads
    BY <2>1
  <2> QED
    BY <2>1, <2>2, <2>3, SplitAssumption DEF CrewType
<1>2. ~Working
  BY DEF ArchiveInit, Working
<1>3. Quiet
  BY DEF ArchiveInit, Quiet
<1> QED
  BY <1>1, <1>2, <1>3 DEF CrewInv, Started, Marked, Joined, Bounds, JoinAfter

(* What no step of a thread, and no step of the division but its last,     *)
(* changes: their proof is about run alone.                                *)
LEMMA CrewThread ==
    ASSUME CrewInv, Working, UNCHANGED <<phase, divideVars, mainVars>>,
           NEW t \in Threads, run[t] = "running",
           \/ run' = run
           \/ run' = [run EXCEPT ![t] = "done"]
           \/ run' = [run EXCEPT ![t] = "error"]
    PROVE  CrewInv'
<1>0. /\ run' \in [Threads -> {"no", "running", "done", "error"}]
      /\ \A u \in Threads : run'[u] = "running" => run[u] = "running"
      /\ \A u \in Threads : u # t => run'[u] = run[u]
  BY DEF CrewInv, CrewType
<1>1. CrewType' /\ Bounds' /\ JoinAfter'
  BY <1>0 DEF CrewInv, CrewType, Bounds, JoinAfter, Working, divideVars, mainVars
<1>2. Quiet'
  BY DEF CrewInv, Quiet, Working, mainVars
<1>3. Started' /\ Joined'
  BY <1>0 DEF CrewInv, Started, Joined, Working, mainVars
<1>4. Marked'
  <2>1. t \notin marked
    BY DEF CrewInv, Marked
  <2> QED
    BY <1>0, <2>1 DEF CrewInv, CrewType, Marked, Working, mainVars
<1> QED
  BY <1>1, <1>2, <1>3, <1>4 DEF CrewInv

LEMMA CrewStep == CrewInv /\ [ArchiveNext]_archiveVars => CrewInv'
<1> SUFFICES ASSUME CrewInv, [ArchiveNext]_archiveVars PROVE CrewInv'
  OBVIOUS
<1> USE SplitAssumption
<1>1. ASSUME NEW size \in 0..MaxTotal, ListFile(size) \/ ListTopFile(size) \/ ListApp(size)
      PROVE  CrewInv'
  <2>1. UNCHANGED <<phase, mode, cores, mainVars, run>>
    BY <1>1 DEF ListFile, ListTopFile, ListApp, Listed, workVars
  <2> QED
    BY <2>1 DEF CrewInv, CrewType, Quiet, Started, Marked, Joined, Bounds, JoinAfter, Working, mainVars
<1>2. CASE DivisionDone
  <2>0. /\ phase = "divide" /\ phase' \in {"failed", "backup"}
        /\ start' = 0 /\ last' = LastThread(mode, cores) /\ join' = First(mode)
        /\ UNCHANGED <<mode, cores, busy, marked, run>>
    BY <1>2 DEF DivisionDone, divideVars, workVars
  <2>1. last' \in 0..MaxCores /\ join' \in {0, 1} /\ (join' = 1 => mode # "encrypted")
    BY <2>0 DEF CrewInv, CrewType, LastThread, First, Modes
  <2>2. CrewType'
    BY <2>0, <2>1 DEF CrewInv, CrewType
  <2>3. Quiet' /\ Started' /\ Marked' /\ Joined'
    BY <2>0 DEF CrewInv, Quiet, Started, Marked, Joined, Working
  <2>4. Bounds' /\ JoinAfter'
    BY <2>0, <2>1 DEF CrewInv, Quiet, Bounds, JoinAfter, Working
  <2> QED
    BY <2>2, <2>3, <2>4 DEF CrewInv
<1>3. CASE StartThread
  <2>0. /\ Working /\ Working' /\ ~busy /\ start <= last
        /\ UNCHANGED <<phase, mode, cores, last, join, marked>>
        /\ run' = [run EXCEPT ![start] = "running"]
        /\ \/ ~Alone(start) /\ start' = start + 1 /\ busy' = FALSE
           \/ busy' = TRUE /\ start' = start
    BY <1>3 DEF StartThread, divideVars, Working
  <2>1. start \in Threads
    BY <2>0 DEF CrewInv, CrewType, Threads
  <2>2. CrewType'
    <3>1. run' \in [Threads -> {"no", "running", "done", "error"}] /\ marked' \subseteq Threads
      BY <2>0, <2>1 DEF CrewInv, CrewType
    <3>2. busy' \in BOOLEAN
      BY <2>0, Zenon
    <3>3. start' \in Nat
      BY <2>0 DEF CrewInv, CrewType
    <3> QED
      BY <2>0, <3>1, <3>2, <3>3 DEF CrewInv, CrewType
  <2>3. Quiet'
    BY <2>0 DEF CrewInv, Quiet, Working
  <2>4. Started'
    BY <2>0, <2>1, <2>2 DEF CrewInv, CrewType, Started, Threads
  <2>5. Marked'
    BY <2>0, <2>1, <2>2 DEF CrewInv, CrewType, Marked, Threads
  <2>6. Joined'
    <3>1. ~Alone(start) => ~(start < join)
      BY <2>0 DEF CrewInv, CrewType, JoinAfter, Alone
    <3> QED
      BY <2>0, <2>1, <2>2, <3>1 DEF CrewInv, CrewType, Joined, Threads
  <2>7. Bounds' /\ JoinAfter'
    BY <2>0 DEF CrewInv, CrewType, Bounds, JoinAfter
  <2> QED
    BY <2>2, <2>3, <2>4, <2>5, <2>6, <2>7 DEF CrewInv
<1>4. CASE RanItself
  <2>0. /\ Working /\ Working' /\ busy /\ run[start] = "done"
        /\ busy' = FALSE /\ start' = start + 1 /\ marked' = marked \cup {start}
        /\ UNCHANGED <<phase, mode, cores, last, join, run>>
    BY <1>4 DEF RanItself, divideVars, workVars, Working
  <2>1. start \in Threads /\ start <= last
    BY <2>0 DEF CrewInv, CrewType, Bounds, Threads
  <2>2. CrewType'
    <3>1. run' \in [Threads -> {"no", "running", "done", "error"}] /\ marked' \subseteq Threads
      BY <2>0, <2>1 DEF CrewInv, CrewType
    <3>2. busy' \in BOOLEAN
      BY <2>0, Zenon
    <3>3. start' \in Nat
      BY <2>0 DEF CrewInv, CrewType
    <3> QED
      BY <2>0, <3>1, <3>2, <3>3 DEF CrewInv, CrewType
  <2>3. Quiet'
    BY <2>0 DEF CrewInv, Quiet, Working
  <2>4. Started' /\ Marked' /\ Joined'
    BY <2>0, <2>1, <2>2 DEF CrewInv, CrewType, Started, Marked, Joined, Threads
  <2>5. Bounds' /\ JoinAfter'
    BY <2>0, <2>1 DEF CrewInv, CrewType, Bounds, JoinAfter
  <2> QED
    BY <2>2, <2>3, <2>4, <2>5 DEF CrewInv
<1>5. CASE FailedItself \/ JoinError
  <2>0. phase' = "failed" /\ UNCHANGED <<mode, cores, mainVars, run>>
    BY <1>5 DEF FailedItself, JoinError, Fail, divideVars, workVars
  <2>1. ~Working' /\ phase' \notin {"divide", "saved", "restored"}
    BY <2>0 DEF Working
  <2>2. CrewType'
    BY <2>0 DEF CrewInv, CrewType, mainVars
  <2>3. Quiet'
    BY <2>1 DEF Quiet
  <2> QED
    BY <2>1, <2>2, <2>3 DEF CrewInv, Started, Marked, Joined, Bounds, JoinAfter
<1>6. CASE NoMoreThreads
  <2>0. /\ Working /\ Working' /\ ~busy /\ start <= last /\ last' = start - 1
        /\ UNCHANGED <<phase, mode, cores, start, join, busy, marked, run>>
    BY <1>6 DEF NoMoreThreads, divideVars, workVars, Working
  <2>1. CrewType' /\ Bounds' /\ JoinAfter'
    BY <2>0 DEF CrewInv, CrewType, Bounds, JoinAfter
  <2>2. Quiet' /\ Started' /\ Marked' /\ Joined'
    BY <2>0 DEF CrewInv, Quiet, Started, Marked, Joined, Working
  <2> QED
    BY <2>1, <2>2 DEF CrewInv
<1>7. CASE Join
  <2>0. /\ Working /\ Working' /\ start > last /\ join' = join + 1
        /\ join \in marked \/ run[join] = "done"
        /\ UNCHANGED <<phase, mode, cores, start, last, busy, marked, run>>
    BY <1>7 DEF Join, Joining, divideVars, workVars, Working
  <2>1. CrewType' /\ Bounds' /\ JoinAfter'
    BY <2>0 DEF CrewInv, CrewType, Bounds, JoinAfter
  <2>2. Quiet' /\ Started' /\ Marked'
    BY <2>0 DEF CrewInv, Quiet, Started, Marked, Working
  <2>3. Joined'
    BY <2>0 DEF CrewInv, CrewType, Marked, Joined, Threads
  <2> QED
    BY <2>1, <2>2, <2>3 DEF CrewInv
<1>8. CASE AllJoined
  <2>0. /\ Working /\ ~busy /\ start > last /\ join > last
        /\ phase' \in {"saved", "restored"} /\ UNCHANGED <<mode, cores, mainVars, run>>
    BY <1>8 DEF AllJoined, divideVars, workVars
  <2>1. \A t \in Threads : run[t] # "running"
    BY <2>0 DEF CrewInv, CrewType, Started, Joined, Bounds, Threads
  <2> QED
    BY <2>0, <2>1 DEF CrewInv, CrewType, Quiet, Started, Marked, Joined, Bounds, JoinAfter, Working, mainVars
<1>9. CASE ExtractBegin
  <2>0. /\ phase' = "restore" /\ start' = 0 /\ last' = MaxCores
        /\ join' = IF mode = "encrypted" THEN 0 ELSE 1
        /\ busy' = FALSE /\ marked' = {} /\ run' = [t \in Threads |-> "no"]
        /\ UNCHANGED <<mode, cores>>
    BY <1>9 DEF ExtractBegin, divideVars
  <2>1. CrewType'
    <3>1. run' \in [Threads -> {"no", "running", "done", "error"}] /\ marked' \subseteq Threads
      BY <2>0
    <3>2. busy' \in BOOLEAN
      BY <2>0, Zenon
    <3>3. start' \in Nat /\ join' \in {0, 1} /\ last' \in Int /\ last' <= MaxCores
      BY <2>0
    <3> QED
      BY <2>0, <3>1, <3>2, <3>3 DEF CrewInv, CrewType
  <2>2. Quiet'
    BY <2>0 DEF Quiet
  <2>3. Started' /\ Marked' /\ Joined'
    BY <2>0 DEF Started, Marked, Joined
  <2>4. Bounds' /\ JoinAfter'
    BY <2>0 DEF Bounds, JoinAfter
  <2> QED
    BY <2>1, <2>2, <2>3, <2>4 DEF CrewInv
<1>10. ASSUME NEW t \in Threads, Thread(t) \/ ThreadFails(t)
       PROVE  CrewInv'
  <2>1. /\ Working /\ UNCHANGED <<phase, divideVars, mainVars>> /\ run[t] = "running"
        /\ \/ run' = run
           \/ run' = [run EXCEPT ![t] = "done"]
           \/ run' = [run EXCEPT ![t] = "error"]
    BY <1>10 DEF Thread, ThreadFails, TarItem, TarDone, TooMany, TarFails, Tar, End, Extract,
       ExtractDone, ExtractFails, Extracting, Working
  <2> QED
    BY <2>1, CrewThread
<1>11. CASE UNCHANGED archiveVars
  BY <1>11 DEF archiveVars, divideVars, mainVars, workVars, CrewInv, CrewType, Quiet, Started, Marked,
     Joined, Bounds, JoinAfter, Working
<1>12. CASE Divide
  BY <1>1, <1>2, <1>12 DEF Divide
<1>13. CASE Main
  BY <1>3, <1>4, <1>5, <1>6, <1>7, <1>8, <1>13 DEF Main
<1> QED
  BY <1>9, <1>10, <1>11, <1>12, <1>13 DEF ArchiveNext

(* The child of a backup or a restore ends with success only when all of   *)
(* its threads have ended, those it could not create and ran in place too. *)
THEOREM EndsAfterItsThreads == ArchiveSpec => []AllEnded
<1>1. ArchiveSpec => []CrewInv
  BY CrewInit, CrewStep, PTL DEF ArchiveSpec
<1>2. CrewInv => AllEnded
  BY DEF CrewInv, Quiet, AllEnded
<1> QED
  BY <1>1, <1>2, PTL

-----------------------------------------------------------------------------
(* "%i%02i" of a thread and a number tells both: a restore that looks for  *)
(* an archive by its name finds no other thread's.                         *)
THEOREM NamesTell ==
    ASSUME NEW t \in 0..8, NEW u \in 0..8, NEW k \in 0..999, NEW l \in 0..999,
           Name(t, k) = Name(u, l)
    PROVE  t = u /\ k = l
<1>1. CASE k < 100 /\ l < 100
  BY <1>1 DEF Name
<1>2. CASE k >= 100 /\ l >= 100
  <2>1. t = u /\ k \div 100 = l \div 100 /\ (k \div 10) % 10 = (l \div 10) % 10 /\ k % 10 = l % 10
    BY <1>2 DEF Name
  <2> QED
    BY <2>1
<1>3. CASE (k < 100) # (l < 100)
  BY <1>3 DEF Name
<1> QED
  BY <1>1, <1>2, <1>3

-----------------------------------------------------------------------------
(* What is saved and what is restored.                                     *)

(* The archives a hold the items S, each of them in one archive.           *)
Holds(a, S) ==
    /\ \A k \in 1..Len(a) : a[k] \subseteq S
    /\ \A n \in S : \E k \in 1..Len(a) : n \in a[k]
    /\ \A j, k \in 1..Len(a) : j # k => a[j] \cap a[k] = {}

LEMMA HoldsNext ==
    ASSUME NEW a \in Seq(SUBSET Nat), NEW S \in SUBSET Nat, NEW n \in Nat, n \notin S, Holds(a, S)
    PROVE  Holds(Append(a, {n}), S \cup {n})
  BY DEF Holds

LEMMA OneMore ==
    ASSUME NEW a \in Seq(SUBSET Nat), a # <<>>, NEW n \in Nat
    PROVE  /\ [a EXCEPT ![Len(a)] = a[Len(a)] \cup {n}] \in [1..Len(a) -> SUBSET Nat]
           /\ Len(a) \in 1..Len(a)
           /\ \A k \in 1..Len(a) : [a EXCEPT ![Len(a)] = a[Len(a)] \cup {n}][k]
                                     = IF k = Len(a) THEN a[k] \cup {n} ELSE a[k]
  <1>1. Len(a) \in 1..Len(a) /\ a \in [1..Len(a) -> SUBSET Nat]
    OBVIOUS
  <1>2. a[Len(a)] \cup {n} \in SUBSET Nat
    BY <1>1
  <1>3. [a EXCEPT ![Len(a)] = a[Len(a)] \cup {n}] \in [1..Len(a) -> SUBSET Nat]
    BY <1>1, <1>2, Zenon
  <1>4. \A k \in 1..Len(a) : [a EXCEPT ![Len(a)] = a[Len(a)] \cup {n}][k]
                               = IF k = Len(a) THEN a[k] \cup {n} ELSE a[k]
    BY <1>1, Zenon
  <1>. QED
    BY <1>1, <1>3, <1>4, Zenon

LEMMA HoldsMore ==
    ASSUME NEW a \in Seq(SUBSET Nat), NEW S \in SUBSET Nat, NEW n \in Nat, n \notin S, Holds(a, S),
           NEW b \in [1..Len(a) -> SUBSET Nat], Len(a) \in 1..Len(a),
           \A k \in 1..Len(a) : b[k] = IF k = Len(a) THEN a[k] \cup {n} ELSE a[k]
    PROVE  b \in Seq(SUBSET Nat) /\ Len(b) = Len(a) /\ Holds(b, S \cup {n})
  <1>1. b \in Seq(SUBSET Nat) /\ Len(b) = Len(a)
    OBVIOUS
  <1>2. \A k \in 1..Len(b) : b[k] \subseteq S \cup {n}
    BY <1>1 DEF Holds
  <1>3. \A m \in S \cup {n} : \E k \in 1..Len(b) : m \in b[k]
    BY <1>1 DEF Holds
  <1>4. \A j, k \in 1..Len(b) : j # k => b[j] \cap b[k] = {}
    <2>. SUFFICES ASSUME NEW j \in 1..Len(b), NEW k \in 1..Len(b), j # k,
                         NEW x, x \in b[j], x \in b[k]
                  PROVE FALSE
      OBVIOUS
    <2>1. /\ j \in 1..Len(a) /\ k \in 1..Len(a) /\ a[j] \cap a[k] = {}
          /\ a[j] \subseteq S /\ a[k] \subseteq S
      BY <1>1 DEF Holds
    <2>2. x \in a[j] \/ (j = Len(a) /\ x = n)
      BY <2>1
    <2>3. x \in a[k] \/ (k = Len(a) /\ x = n)
      BY <2>1
    <2>. QED
      BY <2>1, <2>2, <2>3
  <1>. QED
    BY <1>1, <1>2, <1>3, <1>4 DEF Holds

(* The items of thread t up to m.                                          *)
Upto(t, m) == {n \in 1..Len(items) : items[n].thread = t /\ n <= m}
All(t) == {n \in 1..Len(items) : items[n].thread = t}

LastOne == LastThread(mode, cores)

DataType ==
    /\ items \in Seq([size : Nat, thread : Threads])
    /\ pos \in [Threads -> Nat] /\ fill \in [Threads -> Nat]
    /\ archive \in [Threads -> Seq(SUBSET Nat)] /\ got \subseteq 1..Len(items)
    /\ \A n \in 1..Len(items) : items[n].thread <= LastOne

(* Whoever was not started is idle, and whoever was joined is done.        *)
Passed == Working => \A t \in Threads :
    /\ t >= start /\ ~(busy /\ t = start) => run[t] = "no"
    /\ t < start => run[t] # "no" /\ (t < join => run[t] = "done")

(* A backup starts every thread, and a restore no fewer.                   *)
Reach ==
    /\ phase = "divide" => \A t \in Threads : run[t] = "no" /\ archive[t] = <<>>
    /\ phase = "backup" => last = LastOne
    /\ phase = "restore" => last >= LastOne

(* A thread of a backup has in its archives what it went through.          *)
PackingBy(t) ==
    /\ run[t] = "no" => archive[t] = <<>>
    /\ run[t] # "no" =>
         /\ archive[t] # <<>> /\ Len(archive[t]) <= pos[t] + 1 /\ pos[t] <= Len(items)
         /\ Holds(archive[t], Upto(t, pos[t]))
    /\ run[t] = "done" => Holds(archive[t], All(t))
Packing == phase = "backup" => \A t \in Threads : PackingBy(t)

PackedBy(t) ==
    /\ t <= LastOne =>
         archive[t] # <<>> /\ Len(archive[t]) <= Len(items) + 1 /\ Holds(archive[t], All(t))
    /\ t > LastOne => archive[t] = <<>>
Packed == phase \in {"saved", "restore", "restored"} => \A t \in Threads : PackedBy(t)

(* A thread of a restore has extracted the archives it went through, and   *)
(* ends with its last one or the last it looks for.                        *)
Taken(t) == pos[t] <= Len(archive[t]) /\ \A k \in 1..pos[t] : archive[t][k] \subseteq got
Ended(t) == pos[t] = Len(archive[t]) \/ pos[t] > RestoreLast
TakingBy(t) == run[t] # "no" => Taken(t) /\ (run[t] = "done" => Ended(t))
Taking ==
    /\ phase = "restore" => \A t \in Threads : TakingBy(t)
    /\ phase = "restored" => \A t \in Threads : t <= LastOne => Taken(t) /\ Ended(t)

DataInv == DataType /\ Passed /\ Reach /\ Packing /\ Packed /\ Taking

LEMMA LastIsThread == CrewType => LastOne \in 0..MaxCores
  BY SplitAssumption DEF CrewType, LastOne, LastThread, Modes

LEMMA DataInit == ArchiveInit => DataInv
  <1>. SUFFICES ASSUME ArchiveInit PROVE DataInv
    OBVIOUS
  <1>1. DataType /\ ~Working /\ Reach
    BY DEF ArchiveInit, DataType, Working, Reach
  <1>. QED
    BY <1>1 DEF ArchiveInit, DataInv, Passed, Packing, Packed, Taking, Working

(* The division: no item goes to a thread that is not started.             *)
LEMMA DataList ==
    ASSUME DataInv, CrewInv, DivInv, NEW size \in 0..MaxTotal,
           ListFile(size) \/ ListTopFile(size) \/ ListApp(size)
    PROVE  DataInv'
  <1>1. /\ phase = "divide" /\ phase' = phase
        /\ UNCHANGED <<mode, cores, run, pos, fill, archive, got>>
    BY DEF ListFile, ListTopFile, ListApp, Listed, workVars
  <1>2. PICK t \in {0, tid} : items' = Append(items, [size |-> size, thread |-> t])
    BY DEF ListFile, ListTopFile, ListApp, Listed
  <1>3. t \in Threads /\ t <= LastOne /\ size \in Nat
    <2>1. tid \in Nat /\ tid <= LastOne
      BY InvFits DEF DivisionFits, LastOne, DivInv, Sizes
    <2>2. LastOne \in 0..MaxCores
      BY LastIsThread DEF CrewInv
    <2>. QED
      BY <1>2, <2>1, <2>2, SplitAssumption DEF Threads
  <1>4. items' \in Seq([size : Nat, thread : Threads]) /\ Len(items') = Len(items) + 1
    BY <1>2, <1>3 DEF DataInv, DataType
  <1>5. LastOne' = LastOne
    BY <1>1 DEF LastOne, LastThread
  <1>6. \A n \in 1..Len(items') : items'[n].thread <= LastOne
    BY <1>2, <1>3, <1>4 DEF DataInv, DataType
  <1>7. DataType'
    BY <1>1, <1>4, <1>5, <1>6 DEF DataInv, DataType
  <1>8. Reach'
    BY <1>1 DEF DataInv, Reach
  <1>. QED
    BY <1>1, <1>7, <1>8 DEF DataInv, Passed, Packing, Packed, Taking, Working

LEMMA DataFailed ==
    ASSUME DataInv, phase' = "failed", UNCHANGED <<divideVars, pos, fill, archive, got>>
    PROVE  DataInv'
  <1>1. DataType'
    BY DEF DataInv, DataType, LastOne, LastThread, divideVars
  <1>. QED
    BY <1>1 DEF DataInv, Passed, Reach, Packing, Packed, Taking, Working

LEMMA DataDivided == ASSUME DataInv, CrewInv, DivisionDone PROVE DataInv'
  <1>1. /\ phase = "divide" /\ start' = 0 /\ last' = LastOne
        /\ UNCHANGED <<divideVars, busy, run, pos, fill, archive, got>>
    BY DEF DivisionDone, workVars, LastOne
  <1>2. CASE phase' = "failed"
    BY <1>1, <1>2, DataFailed
  <1>3. CASE phase' = "backup"
    <2>1. DataType' /\ LastOne' = LastOne
      BY <1>1 DEF DataInv, DataType, LastOne, LastThread, divideVars
    <2>2. Passed'
      BY <1>1, <1>3 DEF DataInv, Reach, CrewInv, Quiet, Passed, Threads
    <2>3. Reach' /\ Packing' /\ Packed' /\ Taking'
      BY <1>1, <1>3, <2>1 DEF DataInv, Reach, Packing, PackingBy, Packed, Taking
    <2>. QED
      BY <2>1, <2>2, <2>3 DEF DataInv
  <1>. QED
    BY <1>2, <1>3 DEF DivisionDone

(* The main thread.  What a step leaves alone for a thread stays true of it. *)
LEMMA SameThread ==
    ASSUME UNCHANGED <<divideVars, archive, fill>>, got \subseteq got',
           NEW t \in Threads, run'[t] = run[t], pos'[t] = pos[t]
    PROVE  /\ LastOne' = LastOne /\ (PackingBy(t) => PackingBy(t)') /\ (PackedBy(t) => PackedBy(t)')
           /\ (TakingBy(t) => TakingBy(t)')
           /\ (Taken(t) /\ Ended(t) => Taken(t)' /\ Ended(t)')
  <1>1. LastOne' = LastOne /\ items' = items /\ archive' = archive
    BY DEF LastOne, LastThread, divideVars
  <1>2. Upto(t, pos[t])' = Upto(t, pos[t]) /\ All(t)' = All(t)
    BY <1>1 DEF Upto, All
  <1>3. (Taken(t) => Taken(t)') /\ (Ended(t) => Ended(t)')
    BY <1>1 DEF Taken, Ended
  <1>. QED
    BY <1>1, <1>2, <1>3 DEF PackingBy, PackedBy, TakingBy

LEMMA DataStart == ASSUME DataInv, CrewInv, StartThread PROVE DataInv'
  <1>1. /\ Working /\ ~busy /\ start <= last /\ There(start) /\ start \in Threads
        /\ UNCHANGED <<phase, divideVars, last, join, got>>
        /\ run' = [run EXCEPT ![start] = "running"]
        /\ pos' = [pos EXCEPT ![start] = 0] /\ fill' = [fill EXCEPT ![start] = 0]
        /\ archive' = IF phase = "backup" THEN [archive EXCEPT ![start] = <<{}>>] ELSE archive
        /\ \/ ~Alone(start) /\ start' = start + 1 /\ busy' = FALSE
           \/ busy' = TRUE /\ start' = start
    BY SplitAssumption DEF StartThread, CrewInv, CrewType, Threads
  <1>2. LastOne' = LastOne /\ items' = items
    BY <1>1 DEF LastOne, LastThread, divideVars
  <1>3. DataType'
    <2>1. <<{}>> \in Seq(SUBSET Nat)
      OBVIOUS
    <2>2. archive' \in [Threads -> Seq(SUBSET Nat)]
      BY <1>1, <2>1 DEF DataInv, DataType
    <2>. QED
      BY <1>1, <1>2, <2>2 DEF DataInv, DataType
  <1>4. /\ run'[start] = "running"
        /\ \A u \in Threads : u # start => run'[u] = run[u] /\ pos'[u] = pos[u]
    BY <1>1 DEF DataInv, DataType, CrewInv, CrewType
  <1>5. Passed'
    <2>1. ~Alone(start) => ~(start < join)
      BY <1>1 DEF CrewInv, CrewType, JoinAfter, Alone
    <2>2. start' \in Nat /\ join \in Nat
      BY <1>1 DEF CrewInv, CrewType
    <2>. QED
      BY <1>1, <1>4, <2>1, <2>2 DEF DataInv, Passed, Working, CrewInv, CrewType, Threads
  <1>6. Reach'
    BY <1>1, <1>2 DEF DataInv, Reach, Working
  <1>7. CASE phase = "backup"
    <2>1. ASSUME NEW u \in Threads PROVE PackingBy(u)'
      <3>1. CASE u = start
        <4>1. archive'[u] = <<{}>> /\ pos'[u] = 0 /\ run'[u] = "running"
          BY <1>1, <1>4, <1>7, <3>1 DEF DataInv, DataType
        <4>2. Upto(u, pos[u])' = {}
          BY <1>2, <4>1 DEF Upto
        <4>3. Holds(archive'[u], Upto(u, pos[u])')
          BY <4>1, <4>2 DEF Holds
        <4>4. Len(items) \in Nat
          BY DEF DataInv, DataType
        <4>. QED
          BY <1>2, <4>1, <4>3, <4>4 DEF PackingBy
      <3>2. CASE u # start
        <4>1. archive'[u] = archive[u] /\ run'[u] = run[u] /\ pos'[u] = pos[u]
          BY <1>1, <1>4, <1>7, <3>2 DEF DataInv, DataType
        <4>2. Upto(u, pos[u])' = Upto(u, pos[u]) /\ All(u)' = All(u)
          BY <1>2, <4>1 DEF Upto, All
        <4>. QED
          BY <1>2, <1>7, <4>1, <4>2 DEF PackingBy, DataInv, Packing
      <3>. QED
        BY <3>1, <3>2
    <2>. QED
      BY <1>1, <1>3, <1>5, <1>6, <1>7, <2>1 DEF DataInv, Packing, Packed, Taking
  <1>8. CASE phase = "restore"
    <2>1. ASSUME NEW u \in Threads PROVE PackedBy(u)' /\ TakingBy(u)'
      <3>1. archive' = archive
        BY <1>1, <1>8
      <3>2. All(u)' = All(u)
        BY <1>2 DEF All
      <3>3. PackedBy(u)'
        BY <1>2, <1>8, <3>1, <3>2 DEF PackedBy, DataInv, Packed
      <3>4. CASE u = start
        <4>1. pos'[u] = 0 /\ run'[u] = "running" /\ Len(archive[u]) \in Nat
          BY <1>1, <1>4, <3>4 DEF DataInv, DataType
        <4>. QED
          BY <3>1, <3>3, <4>1 DEF TakingBy, Taken
      <3>5. CASE u # start
        BY <1>1, <1>4, <1>8, <3>1, <3>3, <3>5 DEF TakingBy, Taken, Ended, DataInv, Taking
      <3>. QED
        BY <3>4, <3>5
    <2>. QED
      BY <1>1, <1>3, <1>5, <1>6, <1>8, <2>1 DEF DataInv, Packing, Packed, Taking
  <1>. QED
    BY <1>1, <1>7, <1>8 DEF Working

LEMMA DataMain ==
    ASSUME DataInv, CrewInv, RanItself \/ NoMoreThreads \/ Join PROVE DataInv'
  <1>1. Working /\ UNCHANGED <<phase, divideVars, run, pos, fill, archive, got>>
    BY DEF RanItself, NoMoreThreads, Join, Joining, Working, workVars
  <1>2. \A u \in Threads :
          /\ PackingBy(u) => PackingBy(u)'
          /\ PackedBy(u) => PackedBy(u)'
          /\ TakingBy(u) => TakingBy(u)'
    BY <1>1, SameThread
  <1>3. LastOne' = LastOne /\ DataType'
    BY <1>1 DEF DataInv, DataType, LastOne, LastThread, divideVars
  <1>4. Packing' /\ Packed' /\ Taking'
    BY <1>1, <1>2 DEF DataInv, Packing, Packed, Taking, Working
  <1>5. Passed'
    <2>1. CASE RanItself
      BY <1>1, <2>1 DEF RanItself, DataInv, Passed, CrewInv, CrewType, Threads
    <2>2. CASE NoMoreThreads
      BY <1>1, <2>2 DEF NoMoreThreads, DataInv, Passed, Working
    <2>3. CASE Join
      <3>1. join \in Threads => run[join] = "done"
        BY <1>1, <2>3 DEF Join, CrewInv, Marked
      <3>2. join' = join + 1 /\ start' = start /\ busy' = busy
        BY <2>3 DEF Join
      <3>. QED
        BY <1>1, <3>1, <3>2 DEF DataInv, Passed, Working, CrewInv, CrewType, Threads
    <2>. QED
      BY <2>1, <2>2, <2>3
  <1>6. Reach'
    <2>1. CASE NoMoreThreads
      <3>1. /\ phase = "restore" /\ start \in Threads /\ archive[start] = <<>> /\ last' = start - 1
        BY <2>1, SplitAssumption DEF NoMoreThreads, There, CrewInv, CrewType, Threads
      <3>2. start > LastOne
        BY <3>1, LastIsThread DEF DataInv, Packed, PackedBy, CrewInv, Threads
      <3>. QED
        BY <1>1, <1>3, <3>1, <3>2, LastIsThread DEF Reach, CrewInv, Threads
    <2>2. CASE RanItself \/ Join
      BY <1>1, <1>3, <2>2 DEF RanItself, Join, DataInv, Reach, Working
    <2>. QED
      BY <2>1, <2>2
  <1>. QED
    BY <1>3, <1>4, <1>5, <1>6 DEF DataInv

LEMMA DataAllJoined == ASSUME DataInv, CrewInv, AllJoined PROVE DataInv'
  <1>1. /\ Working /\ ~busy /\ start > last /\ join > last
        /\ phase' = IF phase = "backup" THEN "saved" ELSE "restored"
        /\ UNCHANGED <<divideVars, mainVars, run, pos, fill, archive, got>>
    BY DEF AllJoined, workVars
  <1>2. \A u \in Threads :
          /\ LastOne' = LastOne /\ (PackedBy(u) => PackedBy(u)')
          /\ Taken(u) /\ Ended(u) => Taken(u)' /\ Ended(u)'
    BY <1>1, SameThread
  <1>3. LastOne' = LastOne /\ DataType'
    BY <1>1 DEF DataInv, DataType, LastOne, LastThread, divideVars
  <1>4. ~Working' /\ Passed' /\ Reach' /\ Packing'
    BY <1>1 DEF Working, Passed, Reach, Packing
  <1>5. LastOne \in 0..MaxCores /\ \A u \in Threads :
          /\ u <= last => run[u] = "done"
          /\ u > last => run[u] = "no"
    BY <1>1, LastIsThread DEF DataInv, Passed, CrewInv, CrewType, Bounds, Threads
  <1>6. CASE phase = "backup"
    <2>1. last = LastOne
      BY <1>6 DEF DataInv, Reach
    <2>2. ASSUME NEW u \in Threads PROVE PackedBy(u)
      <3>1. PackingBy(u) /\ Len(archive[u]) \in Nat /\ pos[u] \in Nat /\ Len(items) \in Nat
        BY <1>6 DEF DataInv, Packing, DataType
      <3>. QED
        BY <1>5, <2>1, <3>1, SplitAssumption DEF PackingBy, PackedBy, Threads
    <2>3. phase' = "saved"
      BY <1>1, <1>6
    <2>. QED
      BY <1>2, <1>3, <1>4, <2>2, <2>3 DEF DataInv, Packed, Taking
  <1>7. CASE phase = "restore"
    <2>1. \A u \in Threads : u <= LastOne => Taken(u) /\ Ended(u)
      BY <1>5, <1>7, SplitAssumption DEF DataInv, Reach, Taking, TakingBy, CrewInv, CrewType, Threads
    <2>2. phase' = "restored"
      BY <1>1, <1>7
    <2>. QED
      BY <1>2, <1>3, <1>4, <1>7, <2>1, <2>2 DEF DataInv, Packed, Taking
  <1>. QED
    BY <1>1, <1>6, <1>7 DEF Working

LEMMA DataRestoreBegin == ASSUME DataInv, CrewInv, ExtractBegin PROVE DataInv'
  <1>1. /\ phase = "saved" /\ phase' = "restore" /\ start' = 0 /\ last' = MaxCores /\ busy' = FALSE
        /\ run' = [t \in Threads |-> "no"]
        /\ UNCHANGED <<divideVars, pos, fill, archive, got>>
    BY DEF ExtractBegin
  <1>2. LastOne' = LastOne /\ items' = items /\ DataType'
    BY <1>1 DEF DataInv, DataType, LastOne, LastThread, divideVars
  <1>3. Passed' /\ Reach' /\ Packing' /\ Taking'
    BY <1>1, <1>2, LastIsThread, SplitAssumption
       DEF Passed, Reach, Packing, Taking, TakingBy, CrewInv, Threads
  <1>4. ASSUME NEW u \in Threads PROVE PackedBy(u)'
    <2>1. All(u)' = All(u) /\ archive' = archive
      BY <1>1, <1>2 DEF All
    <2>. QED
      BY <1>1, <1>2, <2>1 DEF DataInv, Packed, PackedBy
  <1>. QED
    BY <1>2, <1>3, <1>4 DEF DataInv, Packed

LEMMA ItemType ==
    ASSUME DataType, NEW n \in 1..Len(items)
    PROVE  items[n] \in [size : Nat, thread : Threads]
  <1>1. ASSUME NEW R, NEW s \in Seq(R), NEW m \in 1..Len(s) PROVE s[m] \in R
    BY <1>1
  <1>2. items \in Seq([size : Nat, thread : Threads])
    BY DEF DataType
  <1>. QED
    BY <1>1, <1>2, Zenon

(* A thread's step changes run, pos, fill and archive of the thread alone. *)
LEMMA DataThread ==
    ASSUME DataInv, CrewInv, Working, NEW t \in Threads, run[t] = "running",
           UNCHANGED <<phase, divideVars, mainVars>>, DataType',
           run' \in [Threads -> {"no", "running", "done", "error"}], run'[t] # "no",
           \A u \in Threads : u # t => run'[u] = run[u]
    PROVE  Passed' /\ Reach' /\ LastOne' = LastOne /\ items' = items
  <1>1. LastOne' = LastOne /\ items' = items
    BY DEF LastOne, LastThread, divideVars
  <1>2. t < start => ~(t < join)
    BY DEF CrewInv, Joined
  <1>3. Passed'
    BY <1>2 DEF DataInv, Passed, Working, mainVars
  <1>4. Reach'
    BY <1>1 DEF DataInv, Reach, Working, mainVars
  <1>. QED
    BY <1>1, <1>3, <1>4

LEMMA DataTarItem == ASSUME DataInv, CrewInv, NEW t \in Threads, TarItem(t) PROVE DataInv'
  <1>1. PICK n \in Mine(t) : /\ IsNext(t, n) /\ (TarNext(t, n) \/ TarAdd(t, n))
                             /\ pos' = [pos EXCEPT ![t] = n]
    BY DEF TarItem
  <1>2. /\ phase = "backup" /\ run[t] = "running"
        /\ UNCHANGED <<phase, divideVars, mainVars, run, got>>
    BY DEF TarItem, Tar
  <1>. DEFINE S == Upto(t, pos[t])
              a == archive[t]
              b == archive'[t]
  <1>3. /\ n \in 1..Len(items) /\ n > pos[t] /\ items[n].thread = t /\ pos[t] \in Nat
        /\ items[n].size \in Nat /\ Len(items) \in Nat
        /\ a \in Seq(SUBSET Nat) /\ a # <<>> /\ Len(a) \in Nat /\ Len(a) <= pos[t] + 1
        /\ Holds(a, S)
    <2>1. pos[t] \in Nat /\ Len(items) \in Nat /\ PackingBy(t)
      BY <1>2 DEF DataInv, DataType, Packing
    <2>2. n \in 1..Len(items) /\ n > pos[t] /\ items[n].thread = t
      BY <1>1, <2>1 DEF Mine
    <2>3. items[n] \in [size : Nat, thread : Threads]
      BY <2>2, ItemType DEF DataInv
    <2>4. a \in Seq(SUBSET Nat) /\ Len(a) \in Nat
      BY DEF DataInv, DataType
    <2>5. a # <<>> /\ Len(a) <= pos[t] + 1 /\ Holds(a, S)
      BY <1>2, <2>1 DEF PackingBy
    <2>. QED
      BY <2>1, <2>2, <2>3, <2>4, <2>5
  <1>4. S \in SUBSET Nat /\ n \in Nat /\ n \notin S
    BY <1>3 DEF Upto
  <1>5. Upto(t, n) = S \cup {n}
    <2>1. ASSUME NEW m \in 1..Len(items), items[m].thread = t, m <= n, m > pos[t] PROVE m = n
      <3>1. m \in Mine(t)
        BY <1>3, <2>1 DEF Mine
      <3>. QED
        BY <1>1, <1>3, <2>1, <3>1 DEF IsNext
    <2>. QED
      BY <1>3, <2>1 DEF Upto
  <1>6. /\ b \in Seq(SUBSET Nat) /\ b # <<>> /\ Len(b) <= n + 1 /\ Holds(b, S \cup {n})
        /\ archive' = [archive EXCEPT ![t] = b]
        /\ fill' \in [Threads -> Nat]
    <2>1. CASE TarNext(t, n)
      <3>1. /\ archive' = [archive EXCEPT ![t] = Append(a, {n})]
            /\ fill' = [fill EXCEPT ![t] = items[n].size]
        BY <2>1 DEF TarNext
      <3>2. b = Append(a, {n})
        BY <3>1 DEF DataInv, DataType
      <3>3. b \in Seq(SUBSET Nat) /\ b # <<>> /\ Len(b) = Len(a) + 1
        BY <1>3, <1>4, <3>2
      <3>4. Holds(b, S \cup {n})
        BY <1>3, <1>4, <3>2, HoldsNext
      <3>. HIDE DEF a, b, S
      <3>5. archive' = [archive EXCEPT ![t] = b] /\ b # <<>> /\ Len(b) <= n + 1
        BY <1>3, <3>1, <3>2, <3>3
      <3>6. fill \in [Threads -> Nat]
        BY DEF DataInv, DataType
      <3>7. fill' \in [Threads -> Nat]
        BY <1>3, <3>1, <3>6
      <3>. QED
        BY <3>3, <3>4, <3>5, <3>7
    <2>2. CASE TarAdd(t, n)
      <3>1. /\ archive' = [archive EXCEPT ![t][Len(archive[t])] = @ \cup {n}]
            /\ fill' = [fill EXCEPT ![t] = @ + items[n].size]
        BY <2>2 DEF TarAdd
      <3>2. b = [a EXCEPT ![Len(a)] = @ \cup {n}] /\ archive' = [archive EXCEPT ![t] = b]
        BY <3>1 DEF DataInv, DataType
      <3>. HIDE DEF a, b, S
      <3>3. b \in Seq(SUBSET Nat) /\ Len(b) = Len(a) /\ Holds(b, S \cup {n})
        <4>1. /\ b \in [1..Len(a) -> SUBSET Nat] /\ Len(a) \in 1..Len(a)
              /\ \A k \in 1..Len(a) : b[k] = IF k = Len(a) THEN a[k] \cup {n} ELSE a[k]
          <5>1. a \in Seq(SUBSET Nat) /\ a # <<>> /\ n \in Nat
            BY <1>3, <1>4
          <5>2. b = [a EXCEPT ![Len(a)] = a[Len(a)] \cup {n}]
            BY <3>2
          <5>3. /\ [a EXCEPT ![Len(a)] = a[Len(a)] \cup {n}] \in [1..Len(a) -> SUBSET Nat]
                /\ Len(a) \in 1..Len(a)
                /\ \A k \in 1..Len(a) : [a EXCEPT ![Len(a)] = a[Len(a)] \cup {n}][k]
                                          = IF k = Len(a) THEN a[k] \cup {n} ELSE a[k]
            BY <5>1, OneMore, Zenon
          <5>. QED
            BY <5>2, <5>3, Zenon
        <4>. QED
          BY <1>3, <1>4, <4>1, HoldsMore
      <3>4. b # <<>> /\ Len(b) <= n + 1
        BY <1>3, <3>3
      <3>5. fill \in [Threads -> Nat]
        BY DEF DataInv, DataType
      <3>6. fill' \in [Threads -> Nat]
        <4>1. fill[t] + items[n].size \in Nat
          BY <1>3, <3>5
        <4>. QED
          BY <3>1, <3>5, <4>1
      <3>. QED
        BY <3>2, <3>3, <3>4, <3>6
    <2>. QED
      BY <1>1, <2>1, <2>2
  <1>. HIDE DEF a, b, S
  <1>7. DataType'
    <2>1. items' = items /\ LastOne' = LastOne
      BY <1>2 DEF divideVars, LastOne, LastThread
    <2>2. archive' \in [Threads -> Seq(SUBSET Nat)] /\ pos' \in [Threads -> Nat]
      BY <1>1, <1>4, <1>6 DEF DataInv, DataType
    <2>. QED
      BY <1>2, <1>6, <2>1, <2>2 DEF DataInv, DataType
  <1>8. Passed' /\ Reach' /\ LastOne' = LastOne /\ items' = items
    BY <1>2, <1>7, DataThread DEF Working, CrewInv, CrewType
  <1>9. ASSUME NEW u \in Threads PROVE PackingBy(u)'
    <2>1. CASE u = t
      <3>1. pos'[u] = n /\ run'[u] = "running" /\ archive'[u] = b
        BY <1>1, <1>2, <2>1 DEF DataInv, DataType, b
      <3>2. Upto(u, pos[u])' = S \cup {n}
        BY <1>5, <1>8, <2>1, <3>1 DEF Upto
      <3>. QED
        BY <1>3, <1>6, <1>8, <3>1, <3>2 DEF PackingBy
    <2>2. CASE u # t
      <3>1. pos'[u] = pos[u] /\ run'[u] = run[u] /\ archive'[u] = archive[u]
        BY <1>1, <1>2, <1>6, <2>2 DEF DataInv, DataType
      <3>2. Upto(u, pos[u])' = Upto(u, pos[u]) /\ All(u)' = All(u)
        BY <1>8, <3>1 DEF Upto, All
      <3>. QED
        BY <1>2, <1>8, <3>1, <3>2 DEF PackingBy, DataInv, Packing
    <2>. QED
      BY <2>1, <2>2
  <1>. QED
    BY <1>2, <1>7, <1>8, <1>9 DEF DataInv, Packing, Packed, Taking

LEMMA DataEnd ==
    ASSUME DataInv, CrewInv, NEW t \in Threads, NEW how \in {"done", "error"}, End(t, how),
           run[t] = "running",
           \/ phase = "backup" /\ (how = "done" => Mine(t) = {})
           \/ phase = "restore" /\ (how = "done" => Over(t))
    PROVE  DataInv'
  <1>1. /\ run' = [run EXCEPT ![t] = how]
        /\ UNCHANGED <<phase, divideVars, mainVars, pos, fill, archive, got>>
    BY DEF End
  <1>2. DataType'
    BY <1>1 DEF DataInv, DataType, LastOne, LastThread, divideVars
  <1>3. /\ run' \in [Threads -> {"no", "running", "done", "error"}] /\ run'[t] = how
        /\ \A u \in Threads : u # t => run'[u] = run[u]
    BY <1>1 DEF CrewInv, CrewType
  <1>4. Passed' /\ Reach' /\ LastOne' = LastOne /\ items' = items
    BY <1>1, <1>2, <1>3, DataThread DEF Working
  <1>5. ASSUME NEW u \in Threads, u # t
        PROVE  /\ PackingBy(u) => PackingBy(u)'
               /\ TakingBy(u) => TakingBy(u)'
    BY <1>1, <1>3, <1>5, SameThread
  <1>6. ASSUME NEW u \in Threads PROVE PackedBy(u) => PackedBy(u)'
    <2>1. All(u)' = All(u)
      BY <1>4 DEF All
    <2>. QED
      BY <1>1, <1>4, <2>1 DEF PackedBy
  <1>7. CASE phase = "backup"
    <2>1. PackingBy(t) /\ pos[t] \in Nat /\ Len(items) \in Nat
      BY <1>7 DEF DataInv, Packing, DataType
    <2>2. how = "done" => Upto(t, pos[t]) = All(t)
      BY <1>7, <2>1 DEF Upto, All, Mine
    <2>3. Upto(t, pos[t])' = Upto(t, pos[t]) /\ All(t)' = All(t)
      BY <1>1, <1>4 DEF Upto, All
    <2>4. PackingBy(t)'
      BY <1>1, <1>3, <1>4, <2>1, <2>2, <2>3 DEF PackingBy
    <2>5. \A u \in Threads : PackingBy(u)'
      BY <1>5, <1>7, <2>4 DEF DataInv, Packing
    <2>. QED
      BY <1>1, <1>2, <1>4, <1>7, <2>5 DEF DataInv, Packing, Packed, Taking
  <1>8. CASE phase = "restore"
    <2>1. TakingBy(t)
      BY <1>8 DEF DataInv, Taking
    <2>2. TakingBy(t)'
      BY <1>1, <1>3, <1>8, <2>1 DEF TakingBy, Taken, Ended, Over
    <2>3. \A u \in Threads : TakingBy(u)' /\ PackedBy(u)'
      BY <1>5, <1>6, <1>8, <2>2 DEF DataInv, Taking, Packed
    <2>. QED
      BY <1>1, <1>2, <1>4, <1>8, <2>3 DEF DataInv, Packing, Packed, Taking
  <1>. QED
    BY <1>7, <1>8

LEMMA DataExtract == ASSUME DataInv, CrewInv, NEW t \in Threads, Extract(t) PROVE DataInv'
  <1>1. /\ phase = "restore" /\ run[t] = "running" /\ ~Over(t)
        /\ got' = got \cup archive[t][pos[t] + 1] /\ pos' = [pos EXCEPT ![t] = @ + 1]
        /\ UNCHANGED <<phase, divideVars, mainVars, run, fill, archive>>
    BY DEF Extract, Extracting
  <1>2. /\ PackedBy(t) /\ Taken(t) /\ pos[t] \in Nat /\ Len(archive[t]) \in Nat
        /\ pos'[t] = pos[t] + 1
    BY <1>1 DEF DataInv, DataType, Packed, Taking, TakingBy
  <1>3. pos[t] + 1 \in 1..Len(archive[t])
    BY <1>1, <1>2 DEF Over, Taken
  <1>4. archive[t][pos[t] + 1] \subseteq 1..Len(items)
    <2>1. archive[t] # <<>>
      BY <1>3
    <2>2. LastOne \in 0..MaxCores
      BY LastIsThread DEF CrewInv
    <2>3. Holds(archive[t], All(t))
      BY <1>2, <2>1, <2>2, SplitAssumption DEF PackedBy, Threads
    <2>4. archive[t][pos[t] + 1] \subseteq All(t)
      BY <1>3, <2>3 DEF Holds
    <2>. QED
      BY <2>4 DEF All
  <1>5. DataType'
    <2>1. items' = items /\ LastOne' = LastOne
      BY <1>1 DEF divideVars, LastOne, LastThread
    <2>2. pos' \in [Threads -> Nat]
      BY <1>1 DEF DataInv, DataType
    <2>. QED
      BY <1>1, <1>4, <2>1, <2>2 DEF DataInv, DataType
  <1>6. Passed' /\ Reach' /\ LastOne' = LastOne /\ items' = items
    BY <1>1, <1>5, DataThread DEF Working, CrewInv, CrewType
  <1>7. ASSUME NEW u \in Threads PROVE PackedBy(u)' /\ TakingBy(u)'
    <2>1. All(u)' = All(u) /\ PackedBy(u) /\ TakingBy(u)
      BY <1>1, <1>6 DEF All, DataInv, Packed, Taking
    <2>2. PackedBy(u)'
      BY <1>1, <1>6, <2>1 DEF PackedBy
    <2>3. CASE u = t
      <3>1. \A k \in 1..pos[t] + 1 : archive[t][k] \subseteq got'
        <4>1. ASSUME NEW k \in 1..pos[t] + 1 PROVE k \in 1..pos[t] \/ k = pos[t] + 1
          BY <1>2
        <4>. QED
          BY <1>1, <1>2, <4>1 DEF Taken
      <3>. QED
        BY <1>1, <1>2, <1>3, <2>2, <2>3, <3>1 DEF TakingBy, Taken
    <2>4. CASE u # t
      <3>1. pos'[u] = pos[u] /\ run'[u] = run[u] /\ got \subseteq got' /\ archive' = archive
        BY <1>1, <2>4 DEF DataInv, DataType
      <3>. QED
        BY <2>1, <2>2, <3>1 DEF TakingBy, Taken, Ended
    <2>. QED
      BY <2>2, <2>3, <2>4
  <1>. QED
    BY <1>1, <1>5, <1>6, <1>7 DEF DataInv, Packing, Packed, Taking

LEMMA DataStep == DataInv /\ CrewInv /\ DivInv /\ [ArchiveNext]_archiveVars => DataInv'
  <1>. SUFFICES ASSUME DataInv, CrewInv, DivInv, [ArchiveNext]_archiveVars PROVE DataInv'
    OBVIOUS
  <1>1. CASE Divide
    BY <1>1, DataList, DataDivided DEF Divide
  <1>2. CASE Main
    <2>1. CASE FailedItself \/ JoinError
      BY <2>1, DataFailed DEF FailedItself, JoinError, Fail, workVars
    <2>. QED
      BY <1>2, <2>1, DataStart, DataMain, DataAllJoined DEF Main
  <1>3. CASE ExtractBegin
    BY <1>3, DataRestoreBegin
  <1>4. ASSUME NEW t \in Threads, Thread(t) \/ ThreadFails(t) PROVE DataInv'
    <2>1. CASE TarDone(t) \/ TooMany(t) \/ TarFails(t)
      BY <2>1, DataEnd DEF TarDone, TooMany, TarFails, Tar
    <2>2. CASE ExtractDone(t) \/ ExtractFails(t)
      BY <2>2, DataEnd DEF ExtractDone, ExtractFails, Extracting
    <2>. QED
      BY <1>4, <2>1, <2>2, DataTarItem, DataExtract DEF Thread, ThreadFails
  <1>5. CASE UNCHANGED archiveVars
    <2>1. UNCHANGED <<phase, divideVars, mainVars, run, pos, fill, archive, got>>
      BY <1>5 DEF archiveVars, workVars
    <2>2. DataType' /\ LastOne' = LastOne /\ Passed' /\ Reach'
      BY <2>1 DEF DataInv, DataType, Passed, Reach, LastOne, LastThread, Working, divideVars,
         mainVars
    <2>3. \A u \in Threads :
            /\ PackingBy(u) => PackingBy(u)'
            /\ PackedBy(u) => PackedBy(u)'
            /\ TakingBy(u) => TakingBy(u)'
            /\ Taken(u) /\ Ended(u) => Taken(u)' /\ Ended(u)'
      BY <2>1, SameThread
    <2>. QED
      BY <2>1, <2>2, <2>3 DEF DataInv, Packing, Packed, Taking
  <1>. QED
    BY <1>1, <1>2, <1>3, <1>4, <1>5 DEF ArchiveNext

LEMMA DataAlways == ArchiveSpec => [](DataInv /\ CrewInv)
  <1>1. ArchiveInit => DivInv /\ CrewInv /\ DataInv
    BY DivInit, CrewInit, DataInit
  <1>2. DivInv /\ CrewInv /\ DataInv /\ [ArchiveNext]_archiveVars => (DivInv /\ CrewInv /\ DataInv)'
    BY DivStep, CrewStep, DataStep
  <1>. QED
    BY <1>1, <1>2, PTL DEF ArchiveSpec

(* A saved item is in the archives of its own thread.                      *)
LEMMA InOneArchive ==
    ASSUME DataInv, CrewInv, phase \in {"saved", "restore", "restored"}, NEW n \in 1..Len(items)
    PROVE  \E t \in Threads : t <= LastOne /\ \E k \in 1..Len(archive[t]) :
              Held(n) = {<<t, k>>} /\ n \in archive[t][k]
  <1>1. /\ LastOne \in 0..MaxCores /\ Len(items) \in Nat
        /\ items[n].thread \in Threads /\ items[n].thread <= LastOne
        /\ \A t \in Threads : PackedBy(t) /\ Len(archive[t]) \in Nat
    <2>1. LastOne \in 0..MaxCores
      BY LastIsThread DEF CrewInv
    <2>2. items[n] \in [size : Nat, thread : Threads]
      BY ItemType DEF DataInv
    <2>3. Len(items) \in Nat /\ items[n].thread <= LastOne
      BY DEF DataInv, DataType
    <2>4. \A t \in Threads : Len(archive[t]) \in Nat
      BY DEF DataInv, DataType
    <2>5. \A t \in Threads : PackedBy(t)
      BY DEF DataInv, Packed
    <2>. QED
      BY <2>1, <2>2, <2>3, <2>4, <2>5
  <1>. DEFINE t == items[n].thread
  <1>2. Len(archive[t]) <= Len(items) + 1 /\ Holds(archive[t], All(t)) /\ n \in All(t)
    BY <1>1 DEF PackedBy, All
  <1>3. PICK k \in 1..Len(archive[t]) : n \in archive[t][k]
    BY <1>2 DEF Holds
  <1>4. k \in 1..Len(items) + 1
    BY <1>1, <1>2
  <1>5. ASSUME NEW u \in Threads, NEW j \in 1..Len(items) + 1, j <= Len(archive[u]),
               n \in archive[u][j]
        PROVE  u = t /\ j = k
    <2>1. j \in 1..Len(archive[u]) /\ archive[u] # <<>>
      BY <1>1, <1>5
    <2>2. Holds(archive[u], All(u))
      BY <1>1, <2>1, SplitAssumption DEF PackedBy, Threads
    <2>3. n \in All(u)
      BY <1>5, <2>1, <2>2 DEF Holds
    <2>4. u = t
      BY <2>3 DEF All
    <2>. QED
      BY <1>3, <1>5, <2>1, <2>2, <2>4 DEF Holds
  <1>6. Held(n) = {<<t, k>>}
    BY <1>1, <1>3, <1>4, <1>5 DEF Held
  <1>. QED
    BY <1>1, <1>3, <1>6

(* A backup that ended with success has every item in exactly one archive, *)
(* whatever the sizes, cores and threads that could not be created.        *)
THEOREM EveryItemOnce == ArchiveSpec => []SavedOnce
  <1>1. DataInv /\ CrewInv => SavedOnce
    <2>. SUFFICES ASSUME DataInv, CrewInv, phase = "saved", NEW n \in 1..Len(items)
                  PROVE  Cardinality(Held(n)) = 1
      BY DEF SavedOnce
    <2>1. PICK t, k : Held(n) = {<<t, k>>}
      BY InOneArchive
    <2>. QED
      BY <2>1, FS_Singleton
  <1>. QED
    BY <1>1, DataAlways, PTL

(* A restore that ended with success has extracted every item saved, when  *)
(* no thread went beyond the last number a restore looks for.              *)
THEOREM EverythingComesBack == ArchiveSpec => []RestoredIsSaved
  <1>1. DataInv /\ CrewInv => RestoredIsSaved
    <2>. SUFFICES ASSUME DataInv, CrewInv, phase = "restored",
                         \A t \in Threads : Len(archive[t]) <= RestoreLast + 1,
                         NEW n \in 1..Len(items)
                  PROVE  n \in got
      BY DEF RestoredIsSaved, DataInv, DataType
    <2>1. PICK t \in Threads : t <= LastOne /\ \E k \in 1..Len(archive[t]) : n \in archive[t][k]
      BY InOneArchive
    <2>2. PICK k \in 1..Len(archive[t]) : n \in archive[t][k]
      BY <2>1
    <2>3. Taken(t) /\ Ended(t) /\ pos[t] \in Nat /\ Len(archive[t]) \in Nat
      BY <2>1 DEF DataInv, DataType, Taking
    <2>4. k \in 1..pos[t]
      BY <2>2, <2>3, SplitAssumption DEF Taken, Ended
    <2>. QED
      BY <2>2, <2>3, <2>4 DEF Taken
  <1>. QED
    BY <1>1, DataAlways, PTL
=============================================================================
