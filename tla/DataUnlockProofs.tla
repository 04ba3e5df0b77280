-------------------------- MODULE DataUnlockProofs --------------------------
(***************************************************************************)
(* The flags agree with the kernel, for any number of users, devices,      *)
(* nested calls and restarts.                                              *)
(*                                                                         *)
(* The strengthening says where on the stack the thread can be (Places),   *)
(* how the flags can differ from the kernel inside a call (Flags), what    *)
(* holds while recovery still starts (Starting), and why an entry of       *)
(* Users_List can say more than the kernel has keys for (Marked).          *)
(***************************************************************************)
EXTENDS DataUnlock, SequenceTheorems, TLAPS

DataPlaces == {"data", "metadata", "stock", "de", "default", "data_end"}
DevicePlaces == {"device", "remount", "check", "hook", "verify", "retry"}

(* Which of the two functions runs is the parity of the stack's depth, and *)
(* which of them is at its bottom is where the call came from.             *)
Places ==
    /\ at \notin DataPlaces \cup DevicePlaces => depth = 0
    /\ at = "boot" => root = "startup" /\ list = <<>> /\ pw = "default"
    /\ at = "page" => root = "page"
    /\ at \in {"prompt", "scripts"} => root \in {"page", "prompt"}
    /\ at \in DataPlaces => (depth % 2 = 0 <=> root \in {"startup", "page"})
    /\ at \in DevicePlaces => (depth % 2 = 0 <=> root \in {"prompt", "idle"})

(* Decrypt_Data may start with a flag whose device is gone only to drop it *)
(* at once; while the DE keys load, the attempt's own flags are up.        *)
Flags ==
    /\ dec => blk
    /\ at # "boot" => (de => blk)
    /\ at \notin {"boot", "data"} => (blk => mapper)
    /\ at = "data" => (blk => mapper) \/ (fbe /\ ~mounted)
    /\ at = "de" => mounted /\ mapper /\ blk /\ ~de
    /\ ~fbe /\ at # "boot" => mapper /\ blk /\ at \notin {"data", "metadata", "stock", "de"}
    /\ at # "boot" /\ Owner \in open => dec /\ isDec
    /\ at \in {"metadata", "stock"} => Owner \notin open

(* Until the user's first own call, TW_IS_ENCRYPTED and the owner's marks  *)
(* say what the kernel holds: no unmount can have come in between.         *)
Starting ==
    /\ pw = "password" => cred = "password"
    /\ root = "prompt" \/ at = "prompt" => pw = "password"
    /\ root = "prompt" /\ at = "device" => fbe
    /\ at \notin {"idle", "boot"} /\ root # "idle" =>
         /\ \A i \in DOMAIN list : list[i].id = Owner /\ list[i].dec => Owner \in open
         /\ ~isEnc /\ (fbe \/ root = "prompt" \/ at = "prompt") => Owner \in open

(* A later entry of the same user is not marked. *)
Superseded(l, i) ==
    \E j \in DOMAIN l : j > i /\ l[j].id = l[i].id /\ ~l[j].dec
MarkedIn(l, keys) == \A i \in DOMAIN l : l[i].dec => l[i].id \in keys \/ Superseded(l, i)
Marked ==
    /\ \A i \in DOMAIN list : conf.secondary \/ list[i].id = Owner
    /\ de => MarkedIn(list, open)

IInv == TypeOK /\ Places /\ Flags /\ Starting /\ Marked

-----------------------------------------------------------------------------
(* The stack: a call and a return change the parity of its depth. *)
LEMMA Parity ==
    ASSUME NEW n \in Nat
    PROVE  /\ (n + 1) % 2 = 0 <=> n % 2 # 0
           /\ n > 0 => ((n - 1) % 2 = 0 <=> n % 2 # 0)
           /\ 0 % 2 = 0
  OBVIOUS

LEMMA Called ==
    ASSUME NEW where, Call(where), ControlOK
    PROVE  /\ at' = where /\ root' = root /\ req' = req
           /\ depth' \in 0..MaxNest /\ depth' > 0
           /\ depth' % 2 = 0 <=> depth % 2 # 0
  <1>1. depth \in Nat /\ MaxNest \in Nat \ {0, 1}
    BY DataUnlockAssumption DEF ControlOK
  <1>2. CASE depth = MaxNest
    BY <1>1, <1>2 DEF Call
  <1>3. CASE depth # MaxNest
    BY <1>1 DEF Call, ControlOK
  <1>. QED
    BY <1>2, <1>3

LEMMA WentBack ==
    ASSUME NEW where, Back(where), ControlOK, depth > 0
    PROVE  /\ at' = where /\ root' = root /\ req' = req /\ depth' \in 0..MaxNest
           /\ depth' % 2 = 0 <=> depth % 2 # 0
  <1>1. depth \in Nat /\ MaxNest \in Nat
    BY DataUnlockAssumption DEF ControlOK
  <1>. QED
    BY <1>1 DEF Back, ControlOK

(* Decrypt_Device returns to where it was called from. *)
LEMMA Returned ==
    ASSUME NEW ok \in BOOLEAN, DeviceReturn(ok), TypeOK, Places, at \in DevicePlaces
    PROVE  /\ isEnc' \in BOOLEAN
           /\ ~isEnc' => ~isEnc \/ (ok /\ user = Owner)
           /\ fbe' = fbe /\ pw' = pw
           /\ root' = root /\ req' = req /\ depth' \in 0..MaxNest
           /\ \/ at' = "data_end" /\ (depth' % 2 = 0 <=> root \in {"startup", "page"})
              \/ at' = root /\ root \in {"prompt", "idle"} /\ depth' = 0
  <1>1. isEnc' \in BOOLEAN
    BY DEF DeviceReturn
  <1>2. ~isEnc' => ~isEnc \/ (ok /\ user = Owner)
    BY DEF DeviceReturn
  <1>3. fbe' = fbe /\ pw' = pw
    BY DEF DeviceReturn
  <1>4. ControlOK /\ depth \in 0..MaxNest /\ root \in {"startup", "page", "prompt", "idle"}
    BY DEF TypeOK, ControlOK
  <1>5. CASE depth > 0
    <2>1. Back("data_end")
      BY <1>5 DEF DeviceReturn
    <2>2. /\ at' = "data_end" /\ root' = root /\ req' = req /\ depth' \in 0..MaxNest
          /\ depth' % 2 = 0 <=> depth % 2 # 0
      BY <2>1, <1>4, <1>5, WentBack
    <2>3. depth % 2 = 0 <=> root \in {"prompt", "idle"}
      BY DEF Places
    <2>. QED
      BY <1>1, <1>2, <1>3, <1>4, <2>2, <2>3
  <1>6. CASE ~(depth > 0)
    <2>1. at' = root /\ root' = root /\ depth' = depth /\ req' = req
      BY <1>6 DEF DeviceReturn
    <2>2. depth = 0
      BY <1>4, <1>6, DataUnlockAssumption
    <2>3. root \in {"prompt", "idle"}
      BY <2>2 DEF Places
    <2>. QED
      BY <1>1, <1>2, <1>3, <1>4, <2>1, <2>2, <2>3
  <1>. QED
    BY <1>5, <1>6

-----------------------------------------------------------------------------
(* Users_List *)
LEMMA Entries ==
    ASSUME ListOK
    PROVE  \A i \in DOMAIN list : list[i].id \in Users /\ list[i].dec \in BOOLEAN
  <1>1. SUFFICES ASSUME NEW i \in DOMAIN list
                 PROVE  list[i] \in [id : Users, dec : BOOLEAN]
    OBVIOUS
  <1>2. i \in 1..Len(list) /\ list \in Seq([id : Users, dec : BOOLEAN])
    BY DEF ListOK
  <1>. QED
    BY <1>2, ElementOfSeq

LEMMA MarkedKept ==
    ASSUME Marked, UNCHANGED <<conf, list>>, de' => de /\ open \subseteq open'
    PROVE  Marked'
  BY DEF Marked, MarkedIn

(* Parse_Users lists every user that is used, none of them marked. *)
LEMMA ParsedUsers ==
    ASSUME ValuesOK
    PROVE  /\ Parsed \in Seq([id : Users, dec : BOOLEAN]) /\ Len(Parsed) \in Nat \ {0}
           /\ \A i \in 1..Len(Parsed) : ~Parsed[i].dec /\ (conf.secondary \/ Parsed[i].id = Owner)
           /\ \E i \in 1..Len(Parsed) : Parsed[i].id = Owner
           /\ conf.secondary => \A u \in Users : \E i \in 1..Len(Parsed) : Parsed[i].id = u
  <1>. DEFINE n == IF conf.secondary THEN LastUser + 1 ELSE 1
  <1>1. n \in Nat \ {0} /\ n <= LastUser + 1 /\ LastUser \in Nat
    BY DataUnlockAssumption
  <1>2. Parsed = [i \in 1..n |-> [id |-> i - 1, dec |-> FALSE]]
    BY DEF Parsed
  <1>3. \A i \in 1..n : i - 1 \in Users
    BY <1>1 DEF Users
  <1>. HIDE DEF n
  <1>4. Parsed \in Seq([id : Users, dec : BOOLEAN]) /\ Len(Parsed) = n
    BY <1>1, <1>2, <1>3
  <1>5. \A i \in 1..n : Parsed[i].id = i - 1 /\ Parsed[i].dec = FALSE
    BY <1>2
  <1>6. ~conf.secondary => n = 1
    BY DEF n
  <1>7. conf.secondary => n = LastUser + 1
    BY DEF n
  <1>8. \A i \in 1..Len(Parsed) : ~Parsed[i].dec /\ (conf.secondary \/ Parsed[i].id = Owner)
    BY <1>4, <1>5, <1>6 DEF Owner
  <1>9. 1 \in 1..Len(Parsed) /\ Parsed[1].id = Owner
    BY <1>1, <1>4, <1>5 DEF Owner
  <1>10. ASSUME conf.secondary, NEW u \in Users
         PROVE  u + 1 \in 1..Len(Parsed) /\ Parsed[u + 1].id = u
    BY <1>1, <1>4, <1>5, <1>7, <1>10 DEF Users
  <1>. QED
    BY <1>1, <1>4, <1>8, <1>9, <1>10

(* What DeOpens appends. *)
LEMMA Appended ==
    ASSUME ValuesOK, ListOK, list' = list \o Parsed
    PROVE  /\ list' \in Seq([id : Users, dec : BOOLEAN])
           /\ Len(list') = Len(list) + Len(Parsed) /\ Len(list) \in Nat
           /\ \A i \in 1..Len(list) : i \in 1..Len(list') /\ list'[i] = list[i]
           /\ \A i \in 1..Len(list') : i > Len(list) =>
                i - Len(list) \in 1..Len(Parsed) /\ list'[i] = Parsed[i - Len(list)]
           /\ \A j \in 1..Len(Parsed) :
                Len(list) + j \in 1..Len(list') /\ list'[Len(list) + j] = Parsed[j]
  BY ParsedUsers DEF ListOK

(* Mark_User_Decrypted marks entries of the user only, and unmarks none. *)
LEMMA Mark ==
    ASSUME ListOK, Mark_User_Decrypted
    PROVE  /\ list' \in Seq([id : Users, dec : BOOLEAN]) /\ Len(list') = Len(list)
           /\ \A i \in 1..Len(list) :
                /\ list'[i].id = list[i].id
                /\ list[i].dec => list'[i].dec
                /\ list'[i].dec => list[i].dec \/ list[i].id = user
           /\ all' \in {"yes", "no"}
  <1>1. list \in Seq([id : Users, dec : BOOLEAN]) /\ Len(list) \in Nat /\ DOMAIN list = 1..Len(list)
    BY DEF ListOK
  <1>2. PICK first \in SUBSET (DOMAIN list) :
          /\ \A i \in first : list[i].id = user
          /\ list' = [i \in DOMAIN list |->
                        IF i \in first THEN [list[i] EXCEPT !.dec = TRUE] ELSE list[i]]
    BY DEF Mark_User_Decrypted
  <1>3. \A i \in 1..Len(list) : list[i] \in [id : Users, dec : BOOLEAN]
    BY <1>1, ElementOfSeq
  <1>4. \A i \in 1..Len(list) :
          /\ list'[i] \in [id : Users, dec : BOOLEAN]
          /\ list'[i].id = list[i].id
          /\ list[i].dec => list'[i].dec
          /\ list'[i].dec => list[i].dec \/ list[i].id = user
    BY <1>1, <1>2, <1>3
  <1>5. list' \in Seq([id : Users, dec : BOOLEAN]) /\ Len(list') = Len(list)
    BY <1>1, <1>2, <1>4
  <1>6. all' \in {"yes", "no"}
    BY DEF Mark_User_Decrypted, Check_Users_Decryption_Status
  <1>. QED
    BY <1>4, <1>5, <1>6

LEMMA Inductive == IInv /\ [Next]_vars => IInv'
  <1>. SUFFICES ASSUME IInv, [Next]_vars PROVE IInv'
    OBVIOUS
  <1>. USE DEF device, kernel, props, part, flags, control
  <1>0. TypeOK /\ ControlOK /\ ListOK /\ Places /\ Flags /\ Starting /\ Marked
    BY DEF IInv, TypeOK
  <1>1. ASSUME Setup_Data_Partition PROVE IInv'
    <2>1. TypeOK'
      BY <1>1, <1>0 DEF Setup_Data_Partition, TypeOK, ValuesOK, KernelOK, ControlOK, ListOK, Goto
    <2>2. Places'
      BY <1>1, <1>0 DEF Setup_Data_Partition, Places, DataPlaces, DevicePlaces, Goto
    <2>3. Flags'
      BY <1>1 DEF Setup_Data_Partition, Flags, Goto
    <2>4. Starting'
      BY <1>1, <1>0 DEF Setup_Data_Partition, Starting, Places, Goto
    <2>5. Marked'
      BY <1>1, <1>0, MarkedKept DEF Setup_Data_Partition
    <2>. QED
      BY <2>1, <2>2, <2>3, <2>4, <2>5 DEF IInv
  <1>2. ASSUME Decrypt_Page PROVE IInv'
    <2>1. TypeOK'
      BY <1>2, <1>0 DEF Decrypt_Page, TypeOK, ValuesOK, KernelOK, ControlOK, ListOK, Goto, Prompt
    <2>2. Places'
      BY <1>2, <1>0 DEF Decrypt_Page, Places, DataPlaces, DevicePlaces, Goto, Prompt
    <2>3. Flags'
      BY <1>2, <1>0 DEF Decrypt_Page, Flags, Goto, Prompt
    <2>4. Starting'
      BY <1>2, <1>0 DEF Decrypt_Page, Starting, Goto, Prompt
    <2>5. Marked'
      BY <1>2, <1>0, MarkedKept DEF Decrypt_Page
    <2>. QED
      BY <2>1, <2>2, <2>3, <2>4, <2>5 DEF IInv
  <1>3. ASSUME LeavePrompt PROVE IInv'
    <2>1. TypeOK'
      BY <1>3, <1>0 DEF LeavePrompt, TypeOK, ValuesOK, KernelOK, ControlOK, ListOK, Goto
    <2>2. Places'
      BY <1>3, <1>0 DEF LeavePrompt, Places, DataPlaces, DevicePlaces, Goto
    <2>3. Flags'
      BY <1>3, <1>0 DEF LeavePrompt, Flags, Goto
    <2>4. Starting'
      BY <1>3, <1>0 DEF LeavePrompt, Starting, Goto
    <2>5. Marked'
      BY <1>3, <1>0, MarkedKept DEF LeavePrompt
    <2>. QED
      BY <2>1, <2>2, <2>3, <2>4, <2>5 DEF IInv
  <1>4. ASSUME Started PROVE IInv'
    <2>1. TypeOK'
      BY <1>4, <1>0 DEF Started, TypeOK, ValuesOK, KernelOK, ControlOK, ListOK
    <2>2. Places'
      BY <1>4, <1>0 DEF Started, Places, DataPlaces, DevicePlaces
    <2>3. Flags'
      BY <1>4, <1>0 DEF Started, Flags
    <2>4. Starting'
      BY <1>4, <1>0 DEF Started, Starting
    <2>5. Marked'
      BY <1>4, <1>0, MarkedKept DEF Started
    <2>. QED
      BY <2>1, <2>2, <2>3, <2>4, <2>5 DEF IInv
  <1>5. ASSUME DataSkip PROVE IInv'
    <2>1. TypeOK'
      BY <1>5, <1>0 DEF DataSkip, TypeOK, ValuesOK, KernelOK, ControlOK, ListOK, Goto
    <2>2. Places'
      BY <1>5, <1>0 DEF DataSkip, Places, DataPlaces, DevicePlaces, Goto
    <2>3. Flags'
      BY <1>5, <1>0 DEF DataSkip, Flags, Goto, Forced
    <2>4. Starting'
      BY <1>5, <1>0 DEF DataSkip, Starting, Goto
    <2>5. Marked'
      BY <1>5, <1>0, MarkedKept DEF DataSkip
    <2>. QED
      BY <2>1, <2>2, <2>3, <2>4, <2>5 DEF IInv
  <1>6. ASSUME DataBegin PROVE IInv'
    <2>1. TypeOK'
      BY <1>6, <1>0 DEF DataBegin, TypeOK, ValuesOK, KernelOK, ControlOK, ListOK, Goto
    <2>2. Places'
      BY <1>6, <1>0 DEF DataBegin, Places, DataPlaces, DevicePlaces, Goto
    <2>3. Flags'
      BY <1>6, <1>0 DEF DataBegin, Flags, TypeOK, KernelOK, Goto, Forced
    <2>4. Starting'
      BY <1>6, <1>0 DEF DataBegin, Starting, Goto
    <2>5. Marked'
      BY <1>6, <1>0, MarkedKept DEF DataBegin
    <2>. QED
      BY <2>1, <2>2, <2>3, <2>4, <2>5 DEF IInv
  <1>7. ASSUME MetadataOpens PROVE IInv'
    <2>1. TypeOK'
      BY <1>7, <1>0 DEF MetadataOpens, TypeOK, ValuesOK, KernelOK, ControlOK, ListOK, Goto
    <2>2. Places'
      BY <1>7, <1>0 DEF MetadataOpens, Places, DataPlaces, DevicePlaces, Goto
    <2>3. Flags'
      BY <1>7, <1>0 DEF MetadataOpens, Flags
    <2>4. Starting'
      BY <1>7, <1>0 DEF MetadataOpens, Starting, Goto
    <2>5. Marked'
      BY <1>7, <1>0, MarkedKept DEF MetadataOpens
    <2>. QED
      BY <2>1, <2>2, <2>3, <2>4, <2>5 DEF IInv
  <1>8. ASSUME MetadataFails PROVE IInv'
    <2>1. TypeOK'
      BY <1>8, <1>0
      DEF MetadataFails, TypeOK, ValuesOK, KernelOK, ControlOK, ListOK, Goto, Unmounted
    <2>2. Places'
      BY <1>8, <1>0 DEF MetadataFails, Places, DataPlaces, DevicePlaces, Goto
    <2>3. Flags'
      BY <1>8, <1>0 DEF MetadataFails, Flags, Goto, Unmounted
    <2>4. Starting'
      BY <1>8, <1>0 DEF MetadataFails, Starting, Flags, Goto
    <2>5. Marked'
      BY <1>8, <1>0, MarkedKept DEF MetadataFails, Unmounted
    <2>. QED
      BY <2>1, <2>2, <2>3, <2>4, <2>5 DEF IInv
  <1>9. ASSUME DeOpens PROVE IInv'
    <2>. ValuesOK
      BY <1>0 DEF TypeOK
    <2>1. TypeOK'
      <3>1. ListOK'
        BY <1>9, <1>0, Appended DEF DeOpens, ListOK
      <3>2. all' \in {"yes", "no"}
        BY <1>9 DEF DeOpens, Check_Users_Decryption_Status
      <3>3. ValuesOK' /\ KernelOK' /\ ControlOK'
        <4>1. ValuesOK'
          BY <1>9, <3>2 DEF DeOpens, ValuesOK
        <4>2. KernelOK'
          BY <1>9, <1>0 DEF DeOpens, KernelOK, Flags
        <4>3. ControlOK'
          BY <1>9, <1>0 DEF DeOpens, ControlOK, Goto
        <4>. QED
          BY <4>1, <4>2, <4>3
      <3>. QED
        BY <3>1, <3>3 DEF TypeOK
    <2>2. Places'
      BY <1>9, <1>0 DEF DeOpens, Places, DataPlaces, DevicePlaces, Goto
    <2>3. Flags'
      BY <1>9, <1>0 DEF DeOpens, Flags, TypeOK, KernelOK, Goto
    <2>4. Starting'
      BY <1>9, <1>0, ParsedUsers DEF DeOpens, Starting, Goto
    <2>5. Marked'
      <3>1. conf' = conf /\ list' = list \o Parsed
        BY <1>9 DEF DeOpens
      <3>2. \A i \in DOMAIN list' : conf'.secondary \/ list'[i].id = Owner
        <4>1. \A i \in 1..Len(list) : conf.secondary \/ list[i].id = Owner
          BY <1>0 DEF Marked
        <4>2. DOMAIN list' = 1..Len(list')
          BY <1>0, <3>1, Appended
        <4>3. SUFFICES ASSUME NEW i \in 1..Len(list') PROVE conf.secondary \/ list'[i].id = Owner
          BY <3>1, <4>2
        <4>4. CASE i > Len(list)
          BY <1>0, <3>1, <4>4, Appended, ParsedUsers
        <4>5. CASE ~(i > Len(list))
          <5>1. i \in 1..Len(list)
            BY <1>0, <3>1, <4>5, Appended
          <5>. QED
            BY <1>0, <3>1, <4>1, <5>1, Appended
        <4>. QED
          BY <4>4, <4>5
      <3>3. ASSUME NEW i \in DOMAIN list', list'[i].dec PROVE Superseded(list', i)
        <4>1. i \in 1..Len(list) /\ list'[i] = list[i]
          BY <1>0, <3>1, <3>3, Appended, ParsedUsers
        <4>2. PICK j \in 1..Len(Parsed) : Parsed[j].id = list[i].id /\ ~Parsed[j].dec
          <5>1. conf.secondary \/ list[i].id = Owner
            BY <1>0, <4>1 DEF Marked
          <5>2. list[i].id \in Users
            BY <1>0, <4>1, Entries
          <5>. QED
            BY <5>1, <5>2, ParsedUsers
        <4>3. Len(list) + j > i /\ Len(list) + j \in DOMAIN list' /\ list'[Len(list) + j] = Parsed[j]
          BY <1>0, <3>1, <4>1, <4>2, Appended, ParsedUsers
        <4>. QED
          BY <4>1, <4>2, <4>3 DEF Superseded
      <3>. QED
        BY <3>2, <3>3 DEF Marked, MarkedIn
    <2>. QED
      BY <2>1, <2>2, <2>3, <2>4, <2>5 DEF IInv
  <1>10. ASSUME DeFails PROVE IInv'
    <2>1. TypeOK'
      BY <1>10, <1>0 DEF DeFails, TypeOK, ValuesOK, KernelOK, ControlOK, ListOK, Goto
    <2>2. Places'
      BY <1>10, <1>0 DEF DeFails, Places, DataPlaces, DevicePlaces, Goto
    <2>3. Flags'
      BY <1>10, <1>0 DEF DeFails, Flags, Goto
    <2>4. Starting'
      BY <1>10, <1>0 DEF DeFails, Starting, Goto
    <2>5. Marked'
      BY <1>10, <1>0, MarkedKept DEF DeFails
    <2>. QED
      BY <2>1, <2>2, <2>3, <2>4, <2>5 DEF IInv
  <1>11. ASSUME Default PROVE IInv'
    <2>1. TypeOK'
      BY <1>11, <1>0, Called DEF Default, TypeOK, ValuesOK, KernelOK, ControlOK, ListOK, Goto
    <2>2. Places'
      BY <1>11, <1>0, Called DEF Default, Places, ControlOK, DataPlaces, DevicePlaces, Goto
    <2>3. Flags'
      BY <1>11, <1>0, Called DEF Default, Flags, Goto
    <2>4. Starting'
      BY <1>11, <1>0, Called DEF Default, Starting, Goto
    <2>5. Marked'
      BY <1>11, <1>0, MarkedKept DEF Default
    <2>. QED
      BY <2>1, <2>2, <2>3, <2>4, <2>5 DEF IInv
  <1>12. ASSUME DataReturn PROVE IInv'
    <2>1. TypeOK'
      BY <1>12, <1>0, DataUnlockAssumption
      DEF DataReturn, TypeOK, ValuesOK, KernelOK, ControlOK, ListOK, Back, Prompt
    <2>2. Places'
      BY <1>12, <1>0, WentBack DEF DataReturn, Places, ControlOK, DataPlaces, DevicePlaces, Prompt
    <2>3. Flags'
      BY <1>12, <1>0, WentBack DEF DataReturn, Flags, Prompt
    <2>4. Starting'
      BY <1>12, <1>0, WentBack DEF DataReturn, Starting, Places, DataPlaces, Prompt
    <2>5. Marked'
      BY <1>12, <1>0, MarkedKept DEF DataReturn
    <2>. QED
      BY <2>1, <2>2, <2>3, <2>4, <2>5 DEF IInv
  <1>13. ASSUME DeviceMounts PROVE IInv'
    <2>1. TypeOK'
      BY <1>13, <1>0, Called
      DEF DeviceMounts, TypeOK, ValuesOK, KernelOK, ControlOK, ListOK, Goto, Mountable
    <2>2. Places'
      BY <1>13, <1>0, Called DEF DeviceMounts, Places, ControlOK, DataPlaces, DevicePlaces, Goto
    <2>3. Flags'
      BY <1>13, <1>0, Called DEF DeviceMounts, Flags, Goto
    <2>4. Starting'
      BY <1>13, <1>0, Called DEF DeviceMounts, Starting, Goto
    <2>5. Marked'
      BY <1>13, <1>0, MarkedKept DEF DeviceMounts
    <2>. QED
      BY <2>1, <2>2, <2>3, <2>4, <2>5 DEF IInv
  <1>14. ASSUME DeviceRemounts PROVE IInv'
    <2>1. TypeOK'
      <3>1. ControlOK'
        BY <1>14, <1>0, Returned DEF DeviceRemounts, ControlOK, DevicePlaces, Goto
      <3>2. ValuesOK' /\ KernelOK'
        BY <1>14, <1>0, Returned DEF DeviceRemounts, TypeOK, ValuesOK, KernelOK, DevicePlaces, Mountable
      <3>3. ListOK'
        BY <1>14, <1>0 DEF DeviceRemounts, ListOK
      <3>. QED
        BY <3>1, <3>2, <3>3 DEF TypeOK
    <2>2. Places'
      BY <1>14, <1>0, Returned DEF DeviceRemounts, Places, DataPlaces, DevicePlaces, Goto
    <2>3. Flags'
      BY <1>14, <1>0, Returned DEF DeviceRemounts, Flags, DevicePlaces, Goto
    <2>4. Starting'
      BY <1>14, <1>0, Returned DEF DeviceRemounts, Starting, DevicePlaces, Goto
    <2>5. Marked'
      BY <1>14, <1>0, MarkedKept DEF DeviceRemounts
    <2>. QED
      BY <2>1, <2>2, <2>3, <2>4, <2>5 DEF IInv
  <1>15. ASSUME NEW media \in BOOLEAN, DeviceCheck(media) PROVE IInv'
    <2>1. TypeOK'
      <3>1. ControlOK'
        BY <1>15, <1>0, Returned DEF DeviceCheck, ControlOK, DevicePlaces, Goto
      <3>2. ValuesOK' /\ KernelOK'
        BY <1>15, <1>0, Returned DEF DeviceCheck, TypeOK, ValuesOK, KernelOK, DevicePlaces
      <3>3. ListOK'
        BY <1>15, <1>0 DEF DeviceCheck, ListOK
      <3>. QED
        BY <3>1, <3>2, <3>3 DEF TypeOK
    <2>2. Places'
      BY <1>15, <1>0, Returned DEF DeviceCheck, Places, DataPlaces, DevicePlaces, Goto
    <2>3. Flags'
      BY <1>15, <1>0, Returned DEF DeviceCheck, Flags, DevicePlaces, Goto
    <2>4. Starting'
      BY <1>15, <1>0, Returned DEF DeviceCheck, Starting, DevicePlaces, Goto
    <2>5. Marked'
      BY <1>15, <1>0, MarkedKept DEF DeviceCheck
    <2>. QED
      BY <2>1, <2>2, <2>3, <2>4, <2>5 DEF IInv
  <1>16. ASSUME PreDecryptHook PROVE IInv'
    <2>1. TypeOK'
      <3>1. ControlOK'
        BY <1>16, <1>0, Returned DEF PreDecryptHook, ControlOK, DevicePlaces, Goto
      <3>2. ValuesOK' /\ KernelOK'
        BY <1>16, <1>0, Returned DEF PreDecryptHook, TypeOK, ValuesOK, KernelOK, DevicePlaces
      <3>3. ListOK'
        BY <1>16, <1>0 DEF PreDecryptHook, ListOK
      <3>. QED
        BY <3>1, <3>2, <3>3 DEF TypeOK
    <2>2. Places'
      BY <1>16, <1>0, Returned DEF PreDecryptHook, Places, DataPlaces, DevicePlaces, Goto
    <2>3. Flags'
      BY <1>16, <1>0, Returned DEF PreDecryptHook, Flags, DevicePlaces, Goto
    <2>4. Starting'
      BY <1>16, <1>0, Returned DEF PreDecryptHook, Starting, DevicePlaces, Goto
    <2>5. Marked'
      BY <1>16, <1>0, MarkedKept DEF PreDecryptHook
    <2>. QED
      BY <2>1, <2>2, <2>3, <2>4, <2>5 DEF IInv
  <1>17. ASSUME Verified PROVE IInv'
    <2>0. /\ Mark_User_Decrypted /\ DeviceReturn(TRUE) /\ at \in DevicePlaces /\ de
          /\ at \in {"verify", "retry"} /\ open' = open \cup {user} /\ UNCHANGED <<conf, de, mapper>>
          /\ IF user = Owner THEN Post_Decrypt(FALSE) ELSE Undecrypted
      BY <1>17 DEF Verified, CanVerify, DevicePlaces
    <2>1. user \in Users
      BY <1>0, DataUnlockAssumption DEF user, ControlOK, Owner, Users
    <2>2. blk /\ fbe' = fbe /\ UNCHANGED blk
      BY <1>0, <2>0, Returned DEF Flags, Post_Decrypt, Undecrypted
    <2>3. TypeOK'
      <3>1. ListOK'
        BY <1>0, <2>0, Mark DEF ListOK
      <3>2. ControlOK'
        BY <1>17, <1>0, <2>0, Returned DEF Verified, ControlOK
      <3>3. /\ conf' \in Devices /\ cred' \in {"default", "password"} /\ pw' \in {"default", "password"}
            /\ open' \subseteq Users /\ excl' \subseteq Users \ {Owner}
            /\ all' \in {"yes", "no"}
        BY <1>17, <1>0, <2>0, <2>1, Mark, Returned DEF Verified, TypeOK, ValuesOK
      <3>4. {mapper, mounted, de, blkProp, doneProp, dec, blk, fbe, isEnc, isDec}' \subseteq BOOLEAN
        BY <1>17, <1>0, <2>0, Returned DEF Verified, TypeOK, ValuesOK, Post_Decrypt, Undecrypted
      <3>5. KernelOK'
        BY <1>0, <2>0 DEF TypeOK, KernelOK, Post_Decrypt, Undecrypted
      <3>. QED
        BY <3>1, <3>2, <3>3, <3>4, <3>5 DEF TypeOK, ValuesOK
    <2>4. Places'
      BY <1>0, <2>0, Returned DEF Places, DataPlaces, DevicePlaces
    <2>5. Flags'
      BY <1>0, <2>0, Returned DEF Flags, Post_Decrypt, Undecrypted
    <2>6. Starting'
      <3>1. \A i \in DOMAIN list' : list'[i].id = Owner /\ list'[i].dec /\ root # "idle" => Owner \in open'
        BY <1>0, <2>0, Mark DEF Starting
      <3>2. ~isEnc' /\ (fbe \/ root = "prompt") /\ root # "idle" => Owner \in open'
        BY <1>0, <2>0, Returned DEF Starting
      <3>3. pw' = pw /\ cred' = cred /\ root' = root /\ at' \in {"data_end", "prompt", "idle"}
        BY <1>17, <1>0, <2>0, Returned DEF Verified
      <3>4. at' = "prompt" => root = "prompt"
        BY <1>0, <2>0, Returned
      <3>. QED
        BY <1>0, <2>2, <3>1, <3>2, <3>3, <3>4 DEF Starting
    <2>7. Marked'
      <3>1. \A i \in DOMAIN list' : conf'.secondary \/ list'[i].id = Owner
        BY <1>0, <2>0, Mark DEF Marked
      <3>2. ASSUME NEW i \in DOMAIN list', list'[i].dec, list'[i].id \notin open'
            PROVE  Superseded(list', i)
        <4>1. i \in 1..Len(list) /\ list'[i].id = list[i].id /\ list[i].dec /\ list[i].id # user
          BY <1>0, <2>0, <3>2, Mark
        <4>2. PICK j \in 1..Len(list) : j > i /\ list[j].id = list[i].id /\ ~list[j].dec
          BY <1>0, <2>0, <3>2, <4>1 DEF Marked, MarkedIn, Superseded
        <4>3. j \in DOMAIN list' /\ list'[j].id = list[i].id /\ ~list'[j].dec
          BY <1>0, <2>0, <4>1, <4>2, Mark
        <4>. QED
          BY <4>1, <4>2, <4>3 DEF Superseded
      <3>. QED
        BY <3>1, <3>2 DEF Marked, MarkedIn
    <2>. QED
      BY <2>3, <2>4, <2>5, <2>6, <2>7 DEF IInv
  <1>18. ASSUME NotVerified PROVE IInv'
    <2>1. TypeOK'
      <3>1. ControlOK'
        BY <1>18, <1>0, Returned DEF NotVerified, ControlOK, DevicePlaces, Goto
      <3>2. ValuesOK' /\ KernelOK'
        BY <1>18, <1>0, Returned DEF NotVerified, TypeOK, ValuesOK, KernelOK, DevicePlaces
      <3>3. ListOK'
        BY <1>18, <1>0 DEF NotVerified, ListOK
      <3>. QED
        BY <3>1, <3>2, <3>3 DEF TypeOK
    <2>2. Places'
      BY <1>18, <1>0, Returned DEF NotVerified, Places, DataPlaces, DevicePlaces, Goto
    <2>3. Flags'
      BY <1>18, <1>0, Returned DEF NotVerified, Flags, DevicePlaces, Goto
    <2>4. Starting'
      BY <1>18, <1>0, Returned DEF NotVerified, Starting, DevicePlaces, Goto
    <2>5. Marked'
      BY <1>18, <1>0, MarkedKept DEF NotVerified
    <2>. QED
      BY <2>1, <2>2, <2>3, <2>4, <2>5 DEF IInv
  <1>19. ASSUME FdeBranch PROVE IInv'
    <2>1. TypeOK'
      <3>1. ControlOK'
        BY <1>19, <1>0, Returned DEF FdeBranch, ControlOK, DevicePlaces
      <3>2. ValuesOK' /\ KernelOK'
        BY <1>19, <1>0, Returned DEF FdeBranch, TypeOK, ValuesOK, KernelOK, DevicePlaces, Undecrypted, Post_Decrypt
      <3>3. ListOK'
        BY <1>19, <1>0 DEF FdeBranch, ListOK
      <3>. QED
        BY <3>1, <3>2, <3>3 DEF TypeOK
    <2>2. Places'
      BY <1>19, <1>0, Returned DEF FdeBranch, Places, DataPlaces, DevicePlaces
    <2>3. Flags'
      BY <1>19, <1>0, Returned DEF FdeBranch, Flags, DevicePlaces, Undecrypted, Post_Decrypt
    <2>4. Starting'
      BY <1>19, <1>0, Returned DEF FdeBranch, Starting, DevicePlaces
    <2>5. Marked'
      BY <1>19, <1>0, MarkedKept DEF FdeBranch
    <2>. QED
      BY <2>1, <2>2, <2>3, <2>4, <2>5 DEF IInv
  <1>20. ASSUME NEW u \in Users, DecryptUser(u) PROVE IInv'
    <2>1. TypeOK'
      BY <1>20, <1>0, DataUnlockAssumption
      DEF DecryptUser, TypeOK, ValuesOK, KernelOK, ControlOK, ListOK, Owner, Users
    <2>2. Places'
      BY <1>20, <1>0 DEF DecryptUser, Places, DataPlaces, DevicePlaces
    <2>3. Flags'
      BY <1>20, <1>0 DEF DecryptUser, Flags
    <2>4. Starting'
      BY <1>20, <1>0 DEF DecryptUser, Starting, Places
    <2>5. Marked'
      BY <1>20, <1>0, MarkedKept DEF DecryptUser
    <2>. QED
      BY <2>1, <2>2, <2>3, <2>4, <2>5 DEF IInv
  <1>21. ASSUME UnmountData PROVE IInv'
    <2>1. TypeOK'
      BY <1>21, <1>0 DEF UnmountData, TypeOK, ValuesOK, KernelOK, ControlOK, ListOK, Unmounted
    <2>2. Places'
      BY <1>21, <1>0 DEF UnmountData, Places
    <2>3. Flags'
      BY <1>21, <1>0 DEF UnmountData, Flags, Unmounted
    <2>4. Starting'
      BY <1>21, <1>0 DEF UnmountData, Starting
    <2>5. Marked'
      BY <1>21, <1>0, MarkedKept DEF UnmountData, Unmounted
    <2>. QED
      BY <2>1, <2>2, <2>3, <2>4, <2>5 DEF IInv
  <1>22. ASSUME MountData PROVE IInv'
    <2>1. TypeOK'
      BY <1>22, <1>0 DEF MountData, TypeOK, ValuesOK, KernelOK, ControlOK, ListOK, Mountable
    <2>2. Places'
      BY <1>22, <1>0 DEF MountData, Places
    <2>3. Flags'
      BY <1>22, <1>0 DEF MountData, Flags
    <2>4. Starting'
      BY <1>22, <1>0 DEF MountData, Starting
    <2>5. Marked'
      BY <1>22, <1>0, MarkedKept DEF MountData
    <2>. QED
      BY <2>1, <2>2, <2>3, <2>4, <2>5 DEF IInv
  <1>23. ASSUME BackupData PROVE IInv'
    <2>1. TypeOK'
      <3>. DEFINE warned == IF fbe THEN {list[i].id : i \in {j \in DOMAIN list : ~list[j].dec}} \ {Owner}
                            ELSE {}
      <3>1. warned \subseteq Users \ {Owner}
        BY <1>0, Entries
      <3>2. excl' = excl \cup warned
        BY <1>23 DEF BackupData
      <3>. HIDE DEF warned
      <3>3. mounted' = TRUE /\ mapper
        BY <1>23, <1>0 DEF BackupData, Mountable, TypeOK, KernelOK
      <3>. QED
        BY <1>23, <1>0, <3>1, <3>2, <3>3
        DEF BackupData, TypeOK, ValuesOK, KernelOK, ControlOK, ListOK
    <2>2. Places'
      BY <1>23, <1>0 DEF BackupData, Places
    <2>3. Flags'
      BY <1>23, <1>0 DEF BackupData, Flags
    <2>4. Starting'
      BY <1>23, <1>0 DEF BackupData, Starting
    <2>5. Marked'
      BY <1>23, <1>0, MarkedKept DEF BackupData
    <2>. QED
      BY <2>1, <2>2, <2>3, <2>4, <2>5 DEF IInv
  <1>24. ASSUME Crash PROVE IInv'
    <2>1. TypeOK'
      <3>1. ListOK'
        BY <1>24, DataUnlockAssumption DEF Crash, ListOK
      <3>2. ValuesOK' /\ KernelOK'
        BY <1>24, <1>0 DEF Crash, TypeOK, ValuesOK, KernelOK
      <3>3. ControlOK'
        BY <1>24, <1>0, DataUnlockAssumption DEF Crash, ControlOK, Owner, Users
      <3>. QED
        BY <3>1, <3>2, <3>3 DEF TypeOK
    <2>2. Places'
      BY <1>24 DEF Crash, Places, DevicePlaces
    <2>3. Flags'
      BY <1>24 DEF Crash, Flags
    <2>4. Starting'
      BY <1>24 DEF Crash, Starting
    <2>5. Marked'
      BY <1>24 DEF Crash, Marked, MarkedIn
    <2>. QED
      BY <2>1, <2>2, <2>3, <2>4, <2>5 DEF IInv
  <1>25. ASSUME UNCHANGED vars PROVE IInv'
    <2>1. TypeOK'
      BY <1>25, <1>0 DEF vars, TypeOK, ValuesOK, KernelOK, ControlOK, ListOK
    <2>2. Places'
      BY <1>25, <1>0 DEF vars, Places
    <2>3. Flags'
      BY <1>25, <1>0 DEF vars, Flags
    <2>4. Starting'
      BY <1>25, <1>0 DEF vars, Starting
    <2>5. Marked'
      BY <1>25, <1>0, MarkedKept DEF vars
    <2>. QED
      BY <2>1, <2>2, <2>3, <2>4, <2>5 DEF IInv
  <1>. QED
    BY <1>1, <1>2, <1>3, <1>4, <1>5, <1>6, <1>7, <1>8, <1>9, <1>10, <1>11, <1>12, <1>13, <1>14,
       <1>15, <1>16, <1>17, <1>18, <1>19, <1>20, <1>21, <1>22, <1>23, <1>24, <1>25
    DEF Next, Thread

LEMMA Initial == Init => IInv
  <1>. SUFFICES ASSUME Init PROVE IInv
    OBVIOUS
  <1>1. TypeOK
    <2>1. ListOK
      BY DataUnlockAssumption DEF Init, ListOK
    <2>2. ValuesOK /\ KernelOK
      BY DEF Init, ValuesOK, KernelOK
    <2>3. ControlOK
      BY DataUnlockAssumption DEF Init, ControlOK, Owner, Users
    <2>. QED
      BY <2>1, <2>2, <2>3 DEF TypeOK
  <1>2. Places
    BY DEF Init, Places, DevicePlaces
  <1>3. Flags
    BY DEF Init, Flags
  <1>4. Starting
    BY DEF Init, Starting
  <1>5. Marked
    BY DEF Init, Marked
  <1>. QED
    BY <1>1, <1>2, <1>3, <1>4, <1>5 DEF IInv

LEMMA Invariance == Spec => []IInv
  BY Initial, Inductive, PTL DEF Spec

-----------------------------------------------------------------------------
(* Every variable keeps its type, Users_List its bound, and the kernel no  *)
(* key without a mount and no mount without a mapping.                     *)
THEOREM TypeCorrect == Spec => []TypeOK
  <1>1. IInv => TypeOK
    BY DEF IInv
  <1>. QED
    BY <1>1, Invariance, PTL

(* Whatever path the calls took, between two actions of the user the flag  *)
(* that makes Mount use the decrypted device is not set without it, and an *)
(* owner whose storage is open is one the partition and the DataManager    *)
(* call decrypted.                                                         *)
THEOREM FlagsAgree == Spec => []FlagsTrue
  <1>1. IInv => FlagsTrue
    BY DEF IInv, Flags, FlagsTrue, DeviceBehindFlag, OpenOwnerIsDecrypted
  <1>. QED
    BY <1>1, Invariance, PTL

(* The scripts that wait for decryption find the owner's storage open if   *)
(* TW_IS_ENCRYPTED says so and /data is still taken for file based         *)
(* encryption.                                                             *)
THEOREM ScriptsWait == Spec => []ScriptsOnOpenData
  <1>1. IInv => ScriptsOnOpenData
    BY DEF IInv, Places, Starting, ScriptsOnOpenData
  <1>. QED
    BY <1>1, Invariance, PTL

(* Four kinds of steps change what the list says: a parse, a mark, a crash *)
(* and those that do not.                                                  *)
LEMMA ListChanges ==
    [Next]_vars => DeOpens \/ Verified \/ Crash \/ UNCHANGED <<all, list>>
  <1>. SUFFICES ASSUME [Next]_vars PROVE DeOpens \/ Verified \/ Crash \/ UNCHANGED <<all, list>>
    OBVIOUS
  <1>. USE DEF flags
  <1>1. CASE Thread
    BY <1>1
    DEF Thread, Setup_Data_Partition, Decrypt_Page, Started, DataSkip, DataBegin, MetadataOpens,
        MetadataFails, DeFails, Default, DataReturn, DeviceMounts, DeviceRemounts, DeviceCheck,
        PreDecryptHook, NotVerified, FdeBranch
  <1>2. CASE ~Thread
    BY <1>2 DEF Next, DecryptUser, LeavePrompt, UnmountData, MountData, BackupData, vars
  <1>. QED
    BY <1>1, <1>2

(* tw_all_users_decrypted turns 1 only when the kernel has the keys of     *)
(* every user in the list, each user's own.                                *)
THEOREM AllDecrypted == Spec => AllDecryptedIsTrue
  <1>1. ASSUME IInv, [Next]_vars, all' = "yes", all = "no" \/ list' # list, list' # <<>>
        PROVE  {list[i].id : i \in DOMAIN list}' \subseteq open'
    <2>1. IInv' /\ ValuesOK /\ ListOK /\ ValuesOK' /\ ListOK'
      BY <1>1, Inductive DEF IInv, TypeOK
    <2>2. DeOpens \/ Verified
      <3>1. ~Crash
        BY <1>1 DEF Crash
      <3>2. ~UNCHANGED <<all, list>>
        BY <1>1
      <3>. QED
        BY <1>1, <3>1, <3>2, ListChanges
    <2>3. \A i \in DOMAIN list' : list'[i].dec
      <3>1. all' = Check_Users_Decryption_Status(list')
        BY <2>2 DEF DeOpens, Verified, Mark_User_Decrypted
      <3>. QED
        BY <1>1, <3>1 DEF Check_Users_Decryption_Status
    <2>4. ~DeOpens
      <3>. SUFFICES ASSUME DeOpens PROVE FALSE
        OBVIOUS
      <3>1. list' = list \o Parsed
        BY DEF DeOpens
      <3>2. PICK j \in 1..Len(Parsed) : Parsed[j].id = Owner
        BY <2>1, ParsedUsers
      <3>3. Len(list) + j \in DOMAIN list' /\ list'[Len(list) + j] = Parsed[j]
        BY <2>1, <3>1, Appended, ParsedUsers
      <3>. QED
        BY <2>1, <2>3, <3>3, ParsedUsers
    <2>5. de'
      <3>1. Verified
        BY <2>2, <2>4
      <3>2. de /\ de' = de
        BY <3>1 DEF Verified, CanVerify
      <3>. QED
        BY <3>2
    <2>6. MarkedIn(list', open')
      BY <2>1, <2>5 DEF IInv, Marked
    <2>. QED
      BY <2>3, <2>6 DEF MarkedIn, Superseded
  <1>. QED
    BY <1>1, Invariance, PTL DEF Spec, AllDecryptedIsTrue
=============================================================================
