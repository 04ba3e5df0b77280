---------------------------- MODULE FlashProofs ----------------------------
(***************************************************************************)
(* The properties of Flash, for any zips, any length of the queue and any  *)
(* number of actions and crashes.                                          *)
(*                                                                         *)
(* None is inductive.  The strengthening says, for each point an action    *)
(* may be at, what its history has to do with the queue, the slots and the *)
(* partitions: in the loop of flash (Looping), from the backup to the      *)
(* reflash (BackedUp) and between the two slots (Halfway).                 *)
(***************************************************************************)
EXTENDS Flash, SequenceTheorems, TLAPS

AllOk == \A k \in 1..Len(log) : log[k].ok

(* The queue is what the page showed, and the zips so far are its first.   *)
Looping ==
    op = "flash" /\ pc /= "start" =>
        /\ flashPage /\ index = Len(seen)
        /\ \A k \in 1..index : seen[k] = queue[k]
        /\ pc \in {"loop", "backup", "install", "slot", "again"} => i = Len(log) /\ AllOk
        /\ pc \in {"backup", "install", "slot", "again", "next"} => i < index
        /\ pc = "next" /\ ret => Len(log) = i + 1 /\ AllOk

(* The backup is none or the recovery of the slot shown when the zip was   *)
(* begun.                                                                  *)
BackedUp ==
    op = "flash" =>
        /\ pc = "backup" => was = [shown |-> shown, recovery |-> recovery]
        /\ pc \in {"install", "slot", "again"} => backup \in {was.recovery[was.shown], NoImage}

(* The first slot has what it should, unless the write of it failed.       *)
Asked(s) == IF op = "images" THEN New ELSE NewRamdisk(was.recovery[s])
Halfway ==
    /\ op \in {"images", "ramdisk"} /\ pc = "start" => was = [shown |-> shown, recovery |-> recovery]
    /\ op \in {"images", "ramdisk"} /\ pc = "second" =>
          /\ shown = Other(was.shown)
          /\ status => recovery = [was.recovery EXCEPT ![was.shown] = Asked(was.shown)]

Places ==
    /\ op = "none" => pc = "done"
    /\ op = "flash" => pc \in {"start", "loop", "backup", "install", "slot", "again", "next", "finish"}
    /\ op \in {"images", "ramdisk"} => pc \in {"start", "second"}

IInv == TypeOK /\ Places /\ InstalledAsQueued /\ Looping /\ BackedUp /\ Halfway

-----------------------------------------------------------------------------
(* What the tools write are images (dd, twrpRepacker).                     *)
LEMMA Writes ==
    ASSUME NEW image \in Images, NEW w \in Written(image)
    PROVE  /\ w.image \in Images /\ w.image \in {image, Torn}
           /\ w.ok \in BOOLEAN /\ (w.ok => w.image = image)
  <1>1. CASE w = [image |-> image, ok |-> TRUE]
    <2>1. w.image = image /\ w.ok = TRUE
      BY <1>1
    <2>. QED
      BY <2>1
  <1>2. CASE w = [image |-> Torn, ok |-> FALSE]
    <2>1. w.image = Torn /\ w.ok = FALSE
      BY <1>2
    <2>2. Torn \in Images
      BY DEF Torn, Images
    <2>. QED
      BY <2>1, <2>2
  <1>. QED
    BY <1>1, <1>2 DEF Written

LEMMA ImagesOK ==
    /\ New \in Images /\ Torn \in Images /\ NoImage \notin Images
    /\ \A s \in Slots : Stock(s) \in Images /\ Other(s) \in Slots /\ Other(Other(s)) = s /\ Other(s) /= s
    /\ \A x \in Images : NewKernel(x) \in Images /\ NewRamdisk(x) \in Images
  BY DEF New, NewKernel, NewRamdisk, Torn, NoImage, Images, Stock, Slots, Other

(* An updater leaves images on both slots (Run_Update_Binary).             *)
LEMMA UpdatedOK ==
    ASSUME TypeOK, NEW z \in Zips, NEW r \in Updated(z)
    PROVE  r \in [Slots -> Images] /\ Reflashed(r) \subseteq [Slots -> Images]
  <1>1. recovery \in [Slots -> Images]
    BY DEF TypeOK
  <1>2. r \in [Slots -> Images]
    <2>1. CASE Kind[z] = "update"
      <3>1. PICK S \in SUBSET Slots : r = [s \in Slots |-> IF s \in S THEN Stock(s) ELSE recovery[s]]
        BY <2>1 DEF Updated
      <3>. QED
        BY <1>1, <3>1, ImagesOK
    <2>2. CASE Kind[z] = "ab"
      <3>1. Other(Booted) \in Slots /\ Stock(Other(Booted)) \in Images
        BY FlashAssumption, ImagesOK
      <3>2. r \in {recovery, [recovery EXCEPT ![Other(Booted)] = Stock(Other(Booted))]}
        BY <2>2 DEF Updated
      <3>. QED
        BY <1>1, <3>1, <3>2
    <2>3. CASE Kind[z] \notin {"update", "ab"}
      BY <2>3, <1>1 DEF Updated
    <2>. QED
      BY <2>1, <2>2, <2>3
  <1>3. ASSUME NEW q \in Reflashed(r) PROVE q \in [Slots -> Images]
    <2>1. PICK w \in Written(r[Booted]) : q = [s \in Slots |-> IF s = Booted THEN r[s] ELSE w.image]
      BY <1>3 DEF Reflashed
    <2>2. r[Booted] \in Images
      BY <1>2, FlashAssumption
    <2>. QED
      BY <1>2, <2>1, <2>2, Writes
  <1>. QED
    BY <1>2, <1>3

-----------------------------------------------------------------------------
(* The GUI thread and the start of an action.                              *)
LEMMA GuiSteps == IInv /\ (QueueZip \/ CancelZip \/ ThreadActions \/ Crash) => IInv'
  <1>. SUFFICES ASSUME IInv, QueueZip \/ CancelZip \/ ThreadActions \/ Crash PROVE IInv'
    OBVIOUS
  <1>. USE FlashAssumption DEF IInv, slots, tmp, history, gui
  <1>1. ASSUME QueueZip PROVE IInv'
    <2>1. TypeOK'
      BY <1>1 DEF QueueZip, TypeOK
    <2>. QED
      BY <1>1, <2>1 DEF QueueZip, Places, InstalledAsQueued, Looping, AllOk, BackedUp, Halfway, Asked
  <1>2. ASSUME CancelZip PROVE IInv'
    <2>1. TypeOK'
      BY <1>2 DEF CancelZip, TypeOK
    <2>. QED
      BY <1>2, <2>1 DEF CancelZip, Places, InstalledAsQueued, Looping, AllOk, BackedUp, Halfway, Asked
  <1>3. ASSUME ThreadActions PROVE IInv'
    <2>1. TypeOK'
      BY <1>3 DEF ThreadActions, TypeOK
    <2>. QED
      BY <1>3, <2>1 DEF ThreadActions, Places, InstalledAsQueued, Looping, AllOk, BackedUp, Halfway, Asked
  <1>4. ASSUME Crash PROVE IInv'
    <2>1. TypeOK'
      <3>1. {flashPage, ret, auto, status}' \subseteq BOOLEAN
        BY <1>4, Zenon DEF Crash, TypeOK
      <3>2. seen' \in Seq(Zips) /\ log' \in Seq([zip : Zips, ok : BOOLEAN])
        BY <1>4 DEF Crash
      <3>. QED
        BY <1>4, <3>1, <3>2 DEF Crash, TypeOK
    <2>. QED
      BY <1>4, <2>1 DEF Crash, Places, InstalledAsQueued, Looping, AllOk, BackedUp, Halfway, Asked
  <1>. QED
    BY <1>1, <1>2, <1>3, <1>4

(* The loop of flash.                                                      *)
LEMMA FlashSteps ==
    IInv /\ (FlashStart \/ NextZip \/ EndZip \/ Finish) => IInv'
  <1>. SUFFICES ASSUME IInv, FlashStart \/ NextZip \/ EndZip \/ Finish PROVE IInv'
    OBVIOUS
  <1>. USE FlashAssumption DEF IInv, slots, tmp, history, gui
  <1>1. ASSUME FlashStart PROVE IInv'
    <2>1. seen' \in Seq(Zips) /\ Len(seen') = index /\ \A k \in 1..index : seen'[k] = queue[k]
      <3>1. queue \in Seq(Zips) /\ Len(queue) = QueueSize
        <4>1. queue \in [1..QueueSize -> Zips] /\ QueueSize \in Nat
          BY DEF TypeOK
        <4>2. queue \in UNION {[1..n -> Zips] : n \in Nat}
          BY <4>1, Zenon
        <4>3. queue \in Seq(Zips)
          BY <4>2, SeqDef, Zenon
        <4>4. Len(queue) \in Nat /\ DOMAIN queue = 1..Len(queue)
          BY <4>3, LenProperties, Zenon
        <4>5. DOMAIN queue = 1..QueueSize
          BY <4>1
        <4>. QED
          BY <4>1, <4>3, <4>4, <4>5
      <3>. QED
        BY <1>1, <3>1 DEF FlashStart, TypeOK
    <2>2. TypeOK'
      BY <1>1, <2>1 DEF FlashStart, TypeOK
    <2>. QED
      BY <1>1, <2>1, <2>2
      DEF FlashStart, TypeOK, Places, InstalledAsQueued, Looping, AllOk, BackedUp, Halfway, Asked
  <1>2. ASSUME NextZip PROVE IInv'
    <2>1. TypeOK'
      BY <1>2 DEF NextZip, TypeOK
    <2>. QED
      BY <1>2, <2>1
      DEF NextZip, TypeOK, Places, InstalledAsQueued, Looping, AllOk, BackedUp, Halfway, Asked
  <1>3. ASSUME EndZip PROVE IInv'
    <2>1. TypeOK'
      BY <1>3 DEF EndZip, TypeOK, Looping
    <2>. QED
      BY <1>3, <2>1
      DEF EndZip, TypeOK, Places, InstalledAsQueued, Looping, AllOk, BackedUp, Halfway, Asked
  <1>4. ASSUME Finish PROVE IInv'
    <2>1. TypeOK'
      <3>1. {flashPage, ret, auto, status}' \subseteq BOOLEAN
        BY <1>4, Zenon DEF Finish, TypeOK
      <3>. QED
        BY <1>4, <3>1 DEF Finish, TypeOK
    <2>. QED
      BY <1>4, <2>1
      DEF Finish, TypeOK, Places, InstalledAsQueued, Looping, AllOk, BackedUp, Halfway, Asked
  <1>. QED
    BY <1>1, <1>2, <1>3, <1>4

(* flash_zip.                                                              *)
LEMMA ZipSteps ==
    IInv /\ (NotFound \/ BackupRecovery \/ Refused \/ Install \/ SwitchSlot \/ ReflashAfterZip) => IInv'
  <1>. SUFFICES ASSUME IInv, NotFound \/ BackupRecovery \/ Refused \/ Install \/ SwitchSlot
                             \/ ReflashAfterZip
                PROVE  IInv'
    OBVIOUS
  <1>. USE FlashAssumption DEF IInv, slots, tmp, history, gui
  <1>1. ASSUME NotFound \/ Refused PROVE IInv'
    <2>1. TypeOK'
      BY <1>1 DEF NotFound, Refused, TypeOK
    <2>. QED
      BY <1>1, <2>1
      DEF NotFound, Refused, Places, InstalledAsQueued, Looping, AllOk, BackedUp, Halfway, Asked
  <1>2. ASSUME BackupRecovery PROVE IInv'
    <2>1. TypeOK'
      BY <1>2 DEF BackupRecovery, TypeOK
    <2>2. was = [shown |-> shown, recovery |-> recovery]
      BY <1>2 DEF BackupRecovery, BackedUp
    <2>3. backup' \in {was.recovery[was.shown], NoImage}
      BY <1>2, <2>2 DEF BackupRecovery
    <2>. QED
      BY <1>2, <2>1, <2>3
      DEF BackupRecovery, Places, InstalledAsQueued, Looping, AllOk, BackedUp, Halfway, Asked
  <1>3. ASSUME Install PROVE IInv'
    <2>1. recovery' \in [Slots -> Images]
      <3>. DEFINE z == queue[i + 1]
      <3>1. z \in Zips
        BY <1>3 DEF Install, Looping, TypeOK
      <3>2. PICK r \in Updated(z) :
              recovery' \in IF Kind[z] = "ab" /\ auto THEN Reflashed(r) ELSE {r}
        BY <1>3 DEF Install
      <3>. HIDE DEF z
      <3>. QED
        BY <3>1, <3>2, UpdatedOK
    <2>2. boot' \in Slots /\ request' \in Slots \cup {"none"}
      <3>1. queue[i + 1] \in Zips
        BY <1>3 DEF Install, Looping, TypeOK
      <3>. QED
        BY <1>3, <3>1, ImagesOK DEF Install, TypeOK
    <2>3. ret' \in BOOLEAN
      BY <1>3 DEF Install
    <2>4. op = "flash" /\ pc = "install" /\ pc' = "slot"
          /\ UNCHANGED <<gui, flashPage, op, i, shown, backup, auto, status, ops, crashes, seen, log, was>>
      BY <1>3 DEF Install
    <2>5. TypeOK'
      BY <2>1, <2>2, <2>3, <2>4 DEF TypeOK
    <2>. QED
      BY <2>4, <2>5 DEF Places, InstalledAsQueued, Looping, AllOk, BackedUp, Halfway, Asked
  <1>4. ASSUME SwitchSlot PROVE IInv'
    <2>1. TypeOK'
      BY <1>4 DEF SwitchSlot, SetActiveSlot, TypeOK
    <2>. QED
      BY <1>4, <2>1
      DEF SwitchSlot, Places, InstalledAsQueued, Looping, AllOk, BackedUp, Halfway, Asked
  <1>5. ASSUME ReflashAfterZip PROVE IInv'
    <2>1. recovery' \in [Slots -> Images]
      <3>1. CASE auto /\ backup /= NoImage /\ (ret \/ shown /= was.shown)
        <4>1. PICK a \in Written(backup), b \in Written(backup) :
                recovery' = [s \in Slots |-> IF s = "A" THEN a.image ELSE b.image]
          BY <1>5, <3>1 DEF ReflashAfterZip
        <4>2. backup \in Images
          BY <3>1 DEF TypeOK
        <4>. QED
          BY <4>1, <4>2, Writes
      <3>2. CASE ~(auto /\ backup /= NoImage /\ (ret \/ shown /= was.shown))
        BY <1>5, <3>2 DEF ReflashAfterZip, TypeOK
      <3>. QED
        BY <3>1, <3>2
    <2>. DEFINE e == [zip |-> queue[i + 1], ok |-> ret]
    <2>2. e \in [zip : Zips, ok : BOOLEAN] /\ e.zip = queue[i + 1] /\ e.ok = ret
      BY <1>5 DEF ReflashAfterZip, Looping, TypeOK
    <2>3. op = "flash" /\ pc = "again" /\ pc' = "next" /\ backup' = NoImage /\ log' = Append(log, e)
          /\ UNCHANGED <<gui, flashPage, op, i, ret, slots, request, auto, status, ops, crashes, seen, was>>
      BY <1>5 DEF ReflashAfterZip
    <2>. HIDE DEF e
    <2>4. log' \in Seq([zip : Zips, ok : BOOLEAN]) /\ Len(log') = i + 1 /\ log'[i + 1] = e
          /\ \A k \in 1..i : log'[k] = log[k]
      BY <2>2, <2>3 DEF TypeOK, Looping
    <2>5. TypeOK'
      BY <2>1, <2>3, <2>4 DEF TypeOK
    <2>6. i < Len(seen) /\ i \in Nat /\ Len(log) = i /\ AllOk /\ seen[i + 1] = queue[i + 1]
      BY <2>3 DEF Looping, TypeOK
    <2>7. InstalledAsQueued'
      BY <2>2, <2>3, <2>4, <2>6 DEF InstalledAsQueued, AllOk
    <2>8. Looping'
      BY <2>2, <2>3, <2>4, <2>6 DEF Looping, AllOk
    <2>. QED
      BY <2>3, <2>5, <2>7, <2>8 DEF Places, BackedUp, Halfway, Asked
  <1>. QED
    BY <1>1, <1>2, <1>3, <1>4, <1>5

(* The actions without a queue.  Of flashing both slots two facts are kept *)
(* apart, which the action property needs too.                             *)
LEMMA WriteOne ==
    ASSUME TypeOK, NEW image \in Images, FlashOne(image)
    PROVE  /\ op' = "none" /\ pc' = "done" /\ status' \in BOOLEAN
           /\ recovery' \in [Slots -> Images]
  <1>1. CASE recovery' = recovery /\ End(FALSE)
    BY <1>1 DEF End, TypeOK
  <1>2. CASE \E w \in Written(image) : recovery' = [recovery EXCEPT ![shown] = w.image] /\ End(w.ok)
    <2>1. PICK w \in Written(image) : recovery' = [recovery EXCEPT ![shown] = w.image] /\ End(w.ok)
      BY <1>2
    <2>2. w.image \in Images /\ w.ok \in BOOLEAN
      BY Writes, <2>1, Zenon
    <2>3. op' = "none" /\ pc' = "done" /\ status' = w.ok
      BY <2>1 DEF End
    <2>4. status' \in BOOLEAN
      BY <2>2, <2>3, Zenon
    <2>5. recovery' \in [Slots -> Images]
      BY <2>1, <2>2 DEF TypeOK
    <2>. QED
      BY <2>3, <2>4, <2>5
  <1>. QED
    BY <1>1, <1>2 DEF FlashOne

LEMMA FirstWritten ==
    ASSUME IInv, FlashFirst
    PROVE  /\ recovery' \in [Slots -> Images] /\ status' \in BOOLEAN /\ shown' \in Slots
           /\ status' => recovery' = [was.recovery EXCEPT ![was.shown] = Asked(was.shown)]
           /\ was.shown = shown
  <1>. DEFINE image == IF op = "images" THEN New ELSE NewRamdisk(recovery[shown])
  <1>1. was.shown = shown /\ was.recovery = recovery
    BY DEF FlashFirst, IInv, Halfway
  <1>2. image \in Images /\ image = Asked(was.shown)
    BY <1>1, ImagesOK DEF Asked, IInv, TypeOK
  <1>3. shown' \in Slots
    BY ImagesOK DEF FlashFirst, IInv, TypeOK
  <1>4. \/ recovery' = recovery /\ status' = FALSE
        \/ \E w \in Written(image) : recovery' = [recovery EXCEPT ![shown] = w.image] /\ status' = w.ok
    BY DEF FlashFirst
  <1>. HIDE DEF image
  <1>5. CASE recovery' = recovery /\ status' = FALSE
    BY <1>1, <1>3, <1>5 DEF IInv, TypeOK
  <1>6. CASE \E w \in Written(image) : recovery' = [recovery EXCEPT ![shown] = w.image] /\ status' = w.ok
    <2>1. PICK w \in Written(image) : recovery' = [recovery EXCEPT ![shown] = w.image] /\ status' = w.ok
      BY <1>6
    <2>2. w.image \in Images /\ (w.ok => w.image = image) /\ w.ok \in BOOLEAN
      BY <1>2, Writes, <2>1, Zenon
    <2>3. status' \in BOOLEAN
      BY <2>1, <2>2, Zenon
    <2>4. recovery' \in [Slots -> Images]
      BY <2>1, <2>2 DEF IInv, TypeOK
    <2>5. ASSUME status' PROVE recovery' = [was.recovery EXCEPT ![was.shown] = Asked(was.shown)]
      <3>1. w.ok
        BY <2>1, <2>5, Zenon
      <3>. QED
        BY <1>1, <1>2, <2>1, <2>2, <3>1
    <2>. QED
      BY <1>1, <1>3, <2>3, <2>4, <2>5
  <1>. QED
    BY <1>4, <1>5, <1>6

LEMMA SecondWritten ==
    ASSUME IInv, FlashSecond
    PROVE  /\ recovery' \in [Slots -> Images] /\ status' \in BOOLEAN /\ shown' \in Slots
           /\ op' = "none" /\ pc' = "done"
           /\ status' => /\ shown' = was.shown
                         /\ \A s \in Slots : recovery'[s] = Asked(s)
  <1>. DEFINE image == IF op = "images" THEN New ELSE NewRamdisk(recovery[shown])
  <1>1. shown = Other(was.shown) /\ was.shown \in Slots /\ shown \in Slots
    BY ImagesOK DEF FlashSecond, IInv, Halfway, TypeOK
  <1>2. image \in Images
    BY ImagesOK DEF IInv, TypeOK
  <1>3. shown' \in Slots /\ (status' => shown' = was.shown)
    BY <1>1, ImagesOK DEF FlashSecond
  <1>4. \/ recovery' = recovery /\ End(FALSE)
        \/ status /\ \E w \in Written(image) : recovery' = [recovery EXCEPT ![shown] = w.image] /\ End(w.ok)
    BY DEF FlashSecond
  <1>5. CASE recovery' = recovery /\ End(FALSE)
    BY <1>3, <1>5 DEF IInv, TypeOK, End
  <1>6. CASE status /\ \E w \in Written(image) : recovery' = [recovery EXCEPT ![shown] = w.image] /\ End(w.ok)
    <2>1. recovery = [was.recovery EXCEPT ![was.shown] = Asked(was.shown)] /\ was.recovery \in [Slots -> Images]
      BY <1>6 DEF FlashSecond, IInv, Halfway, TypeOK
    <2>2. image = Asked(shown)
      BY <1>1, <2>1, ImagesOK DEF Asked
    <2>. HIDE DEF image
    <2>3. PICK w \in Written(image) : recovery' = [recovery EXCEPT ![shown] = w.image] /\ End(w.ok)
      BY <1>6
    <2>4. w.image \in Images /\ (w.ok => w.image = image) /\ w.ok \in BOOLEAN
      BY <1>2, <2>3, Writes, Zenon
    <2>5. op' = "none" /\ pc' = "done" /\ status' = w.ok
      BY <2>3 DEF End
    <2>6. status' \in BOOLEAN
      BY <2>4, <2>5, Zenon
    <2>7. recovery' \in [Slots -> Images]
      BY <2>3, <2>4 DEF IInv, TypeOK
    <2>8. ASSUME status' PROVE \A s \in Slots : recovery'[s] = Asked(s)
      <3>1. w.ok
        BY <2>5, <2>8, Zenon
      <3>2. recovery'[shown] = Asked(shown) /\ recovery'[was.shown] = Asked(was.shown)
        BY <1>1, <2>1, <2>2, <2>3, <2>4, <3>1, ImagesOK DEF IInv, TypeOK
      <3>3. \A s \in Slots : s = shown \/ s = was.shown
        BY <1>1 DEF Slots, Other
      <3>. QED
        BY <3>2, <3>3
    <2>. QED
      BY <1>3, <2>5, <2>6, <2>7, <2>8
  <1>. QED
    BY <1>4, <1>5, <1>6

LEMMA OtherSteps ==
    IInv /\ (SetBootSlot \/ FlashImage \/ FlashFirst \/ FlashSecond \/ RepackKernel \/ ReflashTwrp) => IInv'
  <1>. SUFFICES ASSUME IInv, SetBootSlot \/ FlashImage \/ FlashFirst \/ FlashSecond \/ RepackKernel
                             \/ ReflashTwrp
                PROVE  IInv'
    OBVIOUS
  <1>. USE FlashAssumption DEF slots, tmp, history, gui, quiet
  <1>0. TypeOK /\ InstalledAsQueued
    BY DEF IInv
  <1>1. ASSUME op' = "none", pc' = "done", status' \in BOOLEAN, recovery' \in [Slots -> Images],
               shown' \in Slots, boot' \in Slots, UNCHANGED quiet
        PROVE  IInv'
    <2>1. TypeOK'
      BY <1>0, <1>1 DEF TypeOK
    <2>. QED
      BY <1>0, <1>1, <2>1
      DEF IInv, Places, InstalledAsQueued, Looping, AllOk, BackedUp, Halfway, Asked
  <1>2. CASE SetBootSlot
    <2>1. shown' \in Slots /\ boot' \in Slots
      BY <1>0, <1>2 DEF SetBootSlot, SetActiveSlot, TypeOK
    <2>2. status' \in BOOLEAN /\ op' = "none" /\ pc' = "done"
      BY <1>2 DEF SetBootSlot, End
    <2>. QED
      BY <1>0, <1>1, <1>2, <2>1, <2>2 DEF SetBootSlot, TypeOK
  <1>3. CASE FlashImage
    BY <1>0, <1>1, <1>3, WriteOne, ImagesOK DEF FlashImage, TypeOK
  <1>4. CASE FlashFirst
    <2>1. recovery' \in [Slots -> Images] /\ status' \in BOOLEAN /\ shown' \in Slots
          /\ (status' => recovery' = [was.recovery EXCEPT ![was.shown] = Asked(was.shown)])
          /\ was.shown = shown
      BY <1>4, FirstWritten
    <2>2. CASE op = "images" \/ status'
      <3>1. op \in {"images", "ramdisk"} /\ op' = op /\ pc' = "second" /\ shown' = Other(shown)
            /\ UNCHANGED <<boot, quiet>>
        BY <1>4, <2>2 DEF FlashFirst
      <3>2. TypeOK'
        BY <1>0, <2>1, <3>1 DEF TypeOK
      <3>3. Halfway'
        BY <2>1, <3>1 DEF Halfway, Asked
      <3>. QED
        BY <1>0, <3>1, <3>2, <3>3 DEF IInv, Places, InstalledAsQueued, Looping, BackedUp
    <2>3. CASE ~(op = "images" \/ status')
      BY <1>0, <1>1, <1>4, <2>1, <2>3 DEF FlashFirst, TypeOK
    <2>. QED
      BY <2>2, <2>3
  <1>5. CASE FlashSecond
    BY <1>0, <1>1, <1>5, SecondWritten DEF FlashSecond, TypeOK
  <1>6. CASE RepackKernel
    <2>1. NewKernel(recovery[shown]) \in Images
      BY <1>0, ImagesOK DEF TypeOK
    <2>2. shown' \in Slots
      BY <1>0, <1>6, ImagesOK DEF RepackKernel, TypeOK
    <2>. QED
      BY <1>0, <1>1, <1>6, <2>1, <2>2, WriteOne DEF RepackKernel, TypeOK
  <1>7. CASE ReflashTwrp
    <2>1. PICK w \in Written(recovery[Booted]) :
            recovery' = [recovery EXCEPT ![Other(Booted)] = w.image] /\ End(w.ok)
      BY <1>7 DEF ReflashTwrp
    <2>2. w.image \in Images /\ w.ok \in BOOLEAN
      <3>1. recovery[Booted] \in Images
        BY <1>0 DEF TypeOK
      <3>. QED
        BY <2>1, <3>1, Writes, Zenon
    <2>3. op' = "none" /\ pc' = "done" /\ status' = w.ok
      BY <2>1 DEF End
    <2>4. status' \in BOOLEAN
      BY <2>2, <2>3, Zenon
    <2>5. recovery' \in [Slots -> Images]
      BY <1>0, <2>1, <2>2 DEF TypeOK
    <2>. QED
      BY <1>0, <1>1, <1>7, <2>3, <2>4, <2>5 DEF ReflashTwrp, TypeOK
  <1>. QED
    BY <1>2, <1>3, <1>4, <1>5, <1>6, <1>7

LEMMA Initial == Init => IInv
  <1>. SUFFICES ASSUME Init PROVE IInv
    OBVIOUS
  <1>. USE FlashAssumption DEF Init
  <1>1. queue \in [1..QueueSize -> Zips]
    OBVIOUS
  <1>2. recovery \in [Slots -> Images]
    BY DEF Slots, Images
  <1>3. was = [shown |-> shown, recovery |-> recovery] /\ was \in [shown : Slots, recovery : [Slots -> Images]]
    BY <1>2
  <1>4. {flashPage, ret, auto, status} \subseteq BOOLEAN
    OBVIOUS
  <1>5. seen \in Seq(Zips) /\ log \in Seq([zip : Zips, ok : BOOLEAN])
    OBVIOUS
  <1>6. TypeOK
    BY <1>1, <1>2, <1>3, <1>4, <1>5 DEF TypeOK
  <1>. QED
    BY <1>6 DEF IInv, Places, InstalledAsQueued, Looping, BackedUp, Halfway

LEMMA Inductive == IInv /\ [Next]_vars => IInv'
  <1>1. ASSUME IInv, UNCHANGED vars PROVE IInv'
    BY <1>1
    DEF vars, IInv, TypeOK, Places, InstalledAsQueued, Looping, AllOk, BackedUp, Halfway, Asked
  <1>. QED
    BY <1>1, GuiSteps, FlashSteps, ZipSteps, OtherSteps DEF Next, Thread

LEMMA Invariance == Spec => []IInv
  BY Initial, Inductive, PTL DEF Spec

-----------------------------------------------------------------------------
(* Every variable keeps its type: zip_queue_index stays within zip_queue,  *)
(* and a partition holds an image or what a failed write made of it.       *)
THEOREM TypeCorrect == Spec => []TypeOK
  <1>1. IInv => TypeOK
    BY DEF IInv
  <1>. QED
    BY <1>1, Invariance, PTL

(* The zips installed are those the flash page showed, in their order, and *)
(* none after one that failed (GUIAction::flash, queuezip, cancelzip).     *)
THEOREM QueueIsInstalled == Spec => []InstalledAsQueued
  <1>1. IInv => InstalledAsQueued
    BY DEF IInv
  <1>. QED
    BY <1>1, Invariance, PTL

(* Nobody but the thread writes a recovery partition.                      *)
LEMMA Writers ==
    ASSUME IInv, [Next]_vars, op = "flash", pc = "again", recovery' /= recovery
    PROVE  ReflashAfterZip
  <1>1. ~UNCHANGED vars /\ ~QueueZip /\ ~CancelZip /\ ~ThreadActions /\ ~Crash
    BY DEF vars, QueueZip, CancelZip, ThreadActions, Crash
  <1>. QED
    BY <1>1
    DEF Next, Thread, FlashStart, NextZip, NotFound, BackupRecovery, Refused, Install, SwitchSlot, EndZip,
        Finish, SetBootSlot, FlashImage, FlashFirst, FlashSecond, RepackKernel, ReflashTwrp

(* The automatic reflash after a zip writes nothing but the recovery of    *)
(* the slot that was shown before that zip (GUIAction::flash_zip).         *)
THEOREM BackupIsReflashed == Spec => ReflashedIsBackup
  <1>1. ASSUME IInv, [Next]_vars, op = "flash", pc = "again", recovery' /= recovery
        PROVE  \A s \in Slots : recovery'[s] \in {was.recovery[was.shown], Torn}
    <2>1. ReflashAfterZip
      BY <1>1, Writers
    <2>2. backup /= NoImage /\ \E a, b \in Written(backup) :
            recovery' = [s \in Slots |-> IF s = "A" THEN a.image ELSE b.image]
      BY <1>1, <2>1 DEF ReflashAfterZip
    <2>3. backup = was.recovery[was.shown] /\ backup \in Images
      BY <1>1, <2>2 DEF IInv, BackedUp, TypeOK
    <2>4. PICK a \in Written(backup), b \in Written(backup) :
            recovery' = [s \in Slots |-> IF s = "A" THEN a.image ELSE b.image]
      BY <2>2
    <2>. QED
      BY <2>3, <2>4, Writes
  <1>. QED
    BY <1>1, Invariance, PTL DEF Spec, ReflashedIsBackup

(* An action on both slots that reports success has put what was asked for *)
(* on both, and shows the slot it began with (flashimage,                  *)
(* Repack_Image_And_Flash).                                                *)
THEOREM BothFlashed == Spec => BothSlotsFlashed
  <1>1. ASSUME IInv, [Next]_vars, op' = "none", op \in {"images", "ramdisk"}, status'
        PROVE  shown' = was.shown /\ \A s \in Slots : recovery'[s] = Asked(s)
    <2>1. ~UNCHANGED vars /\ ~QueueZip /\ ~CancelZip /\ ~ThreadActions /\ ~Crash
      BY <1>1 DEF vars, QueueZip, CancelZip, ThreadActions, Crash
    <2>2. FlashFirst \/ FlashSecond
      BY <1>1, <2>1
      DEF Next, Thread, FlashStart, NextZip, NotFound, BackupRecovery, Refused, Install, SwitchSlot,
          ReflashAfterZip, EndZip, Finish, SetBootSlot, FlashImage, RepackKernel, ReflashTwrp
    <2>3. ~FlashFirst
      BY <1>1 DEF FlashFirst
    <2>. QED
      BY <1>1, <2>2, <2>3, SecondWritten
  <1>2. IInv /\ [Next]_vars => [op' = "none" /\ op \in {"images", "ramdisk"} /\ status'
          => shown' = was.shown /\ \A s \in Slots : recovery'[s] = Asked(s)]_vars
    BY <1>1
  <1>. QED
    BY <1>2, Invariance, PTL DEF Spec, BothSlotsFlashed, Asked
=============================================================================
