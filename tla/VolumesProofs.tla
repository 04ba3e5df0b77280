--------------------------- MODULE VolumesProofs ---------------------------
(***************************************************************************)
(* Proofs about Volumes, for any partitions, file systems, tools and       *)
(* storages, any tasks in any number, and any failures.                    *)
(***************************************************************************)
EXTENDS Volumes, SequenceTheorems, TLAPS

-----------------------------------------------------------------------------
(* What the MTP server was told is mounted, and without a server nothing   *)
(* is told: a server that starts is told everything anew.                  *)
Served(s) ==
    /\ \A v \in s.served : Is_Mounted(s, v)
    /\ ~s.server => s.served = {}

(* "mifs" is only a name in an fstab: nothing finds or makes it. *)
NoMifs(s) == s.cur[Data] # "mifs" /\ s.disk[Data] # "mifs" /\ s.inner # "mifs"

(* What an operation on v leaves alone, and what it may lose. *)
Same(s, u) ==
    /\ u.hasMedia = s.hasMedia /\ u.decrypted = s.decrypted /\ u.encrypted = s.encrypted
    /\ u.plugged = s.plugged /\ u.list = s.list /\ u.mapped = s.mapped
    /\ u.server = s.server /\ u.lun = s.lun /\ u.rmrf = s.rmrf /\ u.unsafe = s.unsafe
Erases(s, u, v) ==
    /\ u.keys = s.keys \/ (v = Metadata /\ ~u.keys)
    /\ u.media = s.media \/ (v = Data /\ u.media = "none")
    /\ u.disk[Data] = s.disk[Data] \/ (v = Data /\ u.disk[Data] # "noise")
Kept(s, u) == u.keys = s.keys /\ u.media = s.media /\ u.disk = s.disk

(* An operation that erases nothing. *)
Steady(s, u) ==
    /\ u \in Store /\ Same(s, u) /\ Kept(s, u)
    /\ u.inner = s.inner /\ u.mapper = s.mapper
    /\ u.served \subseteq s.served
    /\ Served(s) => Served(u)
    /\ NoMifs(s) => NoMifs(u)

LEMMA SteadyTrans ==
  ASSUME NEW s, NEW t, NEW u, Steady(s, t), Steady(t, u)
  PROVE  Steady(s, u)
  BY DEF Steady, Same, Kept

LEMMA SteadyItself == ASSUME NEW s \in Store PROVE Steady(s, s)
  BY DEF Steady, Same, Kept

LEMMA FindSteady ==
  ASSUME NEW s \in Store, NEW v \in Vols
  PROVE  /\ Steady(s, Find_Actual_Block_Device(s, v))
         /\ Find_Actual_Block_Device(s, v).mnt = s.mnt
         /\ Find_Actual_Block_Device(s, v).bind = s.bind
         /\ Find_Actual_Block_Device(s, v).cur = s.cur
  <1> DEFINE u == Find_Actual_Block_Device(s, v)
  <1>1. u \in Store
    BY DEF Find_Actual_Block_Device, Store
  <1>2. \A f \in {"mnt", "bind", "cur", "disk", "inner", "mapper", "media", "keys", "hasMedia", "decrypted",
                  "encrypted", "plugged", "list", "mapped", "server", "served", "lun", "rmrf", "unsafe"} :
              u[f] = s[f]
    BY DEF Find_Actual_Block_Device, Store
  <1> HIDE DEF u
  <1>3. QED
    BY <1>1, <1>2 DEF u, Steady, Same, Kept, Served, Is_Mounted, NoMifs

LEMMA CheckSteady ==
  ASSUME NEW s \in Store, NEW v \in Vols
  PROVE  /\ Steady(s, Check_FS_Type(s, v))
         /\ Check_FS_Type(s, v).mnt = s.mnt
         /\ Check_FS_Type(s, v).bind = s.bind
  <1> DEFINE t == Find_Actual_Block_Device(s, v)
             u == Check_FS_Type(s, v)
  <1>1. Steady(s, t) /\ t \in Store /\ t.mnt = s.mnt /\ t.bind = s.bind
    BY FindSteady DEF Steady
  <1> HIDE DEF t
  <1>2. CASE ~(v \in t.present /\ Probe(t, v) /= "noise")
    BY <1>1, <1>2 DEF Check_FS_Type, t
  <1>3. CASE v \in t.present /\ Probe(t, v) /= "noise"
    <2>1. u = [t EXCEPT !.cur[v] = Probe(t, v)]
      BY <1>3 DEF Check_FS_Type, t
    <2>2. Probe(t, v) \in FileSystems /\ (v = Data /\ NoMifs(t) => Probe(t, v) # "mifs")
      BY <1>1, <1>3, VolumeAssumption DEF Probe, Store, NoMifs
    <2>3. u \in Store
      BY <1>1, <2>1, <2>2 DEF Store
    <2>4. \A f \in {"mnt", "bind", "disk", "inner", "mapper", "media", "keys", "hasMedia", "decrypted",
                  "encrypted", "plugged", "list", "mapped", "server", "served", "lun", "rmrf", "unsafe"} :
              u[f] = t[f]
      BY <1>1, <2>1 DEF Store
    <2>5. u.cur[Data] = IF v = Data THEN Probe(t, v) ELSE t.cur[Data]
      BY <1>1, <2>1, VolumeAssumption DEF Store
    <2> HIDE DEF u
    <2>6. Steady(t, u) /\ u.mnt = s.mnt /\ u.bind = s.bind
      BY <1>1, <2>2, <2>3, <2>4, <2>5 DEF Steady, Same, Kept, Served, Is_Mounted, NoMifs
    <2>7. QED
      BY <1>1, <2>6, SteadyTrans DEF u
  <1>4. QED
    BY <1>2, <1>3

LEMMA MountSteady ==
  ASSUME NEW s \in Store, NEW v \in Vols
  PROVE  \A o \in Mount(s, v) :
            /\ o.ok \in BOOLEAN /\ Steady(s, o.s) /\ o.s.served = s.served
            /\ o.ok => Is_Mounted(o.s, v)
            /\ o.ok /\ v = Data /\ ~Is_Mounted(s, Data) /\ ~s.decrypted => s.disk[Data] # "noise"
  <1> SUFFICES ASSUME NEW o \in Mount(s, v)
               PROVE  /\ o.ok \in BOOLEAN /\ Steady(s, o.s) /\ o.s.served = s.served
                      /\ o.ok => Is_Mounted(o.s, v)
                      /\ o.ok /\ v = Data /\ ~Is_Mounted(s, Data) /\ ~s.decrypted => s.disk[Data] # "noise"
    OBVIOUS
  <1> DEFINE t == Check_FS_Type(s, v)
             u == [t EXCEPT !.mnt = @ \cup {v}]
             b == [u EXCEPT !.bind = TRUE]
  <1>1. Steady(s, t) /\ t \in Store /\ t.mnt = s.mnt /\ t.bind = s.bind
    BY CheckSteady DEF Steady
  <1>2. \/ Is_Mounted(s, v) /\ o = [s |-> s, ok |-> TRUE]
        \/ ~Is_Mounted(s, v) /\ o = [s |-> t, ok |-> FALSE]
        \/ /\ ~Is_Mounted(s, v) /\ CanMount(t, v)
           /\ \/ v = Data /\ o = [s |-> u, ok |-> FALSE]
              \/ v = Data /\ o = [s |-> b, ok |-> TRUE]
              \/ v # Data /\ o = [s |-> u, ok |-> TRUE]
    BY DEF Mount, Ok, Fail, Bind_Mount
  <1> HIDE DEF t
  <1>3. u \in Store /\ b \in Store
    BY <1>1 DEF Store
  <1>4. u.served = t.served /\ b.served = t.served
    BY <1>1 DEF Store
  <1>5. Steady(t, u) /\ Steady(t, b)
    <2>1. \A f \in {"cur", "disk", "inner", "mapper", "media", "keys", "hasMedia", "decrypted",
                  "encrypted", "plugged", "list", "mapped", "server", "served", "lun", "rmrf", "unsafe"} :
            u[f] = t[f] /\ b[f] = t[f]
      BY <1>1 DEF Store
    <2>2. u.mnt = t.mnt \cup {v} /\ b.mnt = t.mnt \cup {v} /\ u.bind = t.bind /\ b.bind = TRUE
      BY <1>1 DEF Store
    <2> HIDE DEF u, b
    <2>3. QED
      BY <1>3, <2>1, <2>2 DEF Steady, Same, Kept, Served, Is_Mounted, NoMifs
  <1>6. Is_Mounted(u, v) /\ Is_Mounted(b, v)
    BY <1>1 DEF Store, Is_Mounted
  <1>7. CanMount(t, Data) /\ v = Data /\ ~s.decrypted => s.disk[Data] # "noise"
    BY <1>1, VolumeAssumption DEF CanMount, Probe, OnMapper, Steady, Same, Kept
  <1>8. t.served = s.served
    <2>1. t.served = Find_Actual_Block_Device(s, v).served
      BY DEF Check_FS_Type, Find_Actual_Block_Device, Store, t
    <2>2. QED
      BY <2>1 DEF Find_Actual_Block_Device, Store
  <1> HIDE DEF u, b
  <1>9. Steady(s, s) /\ Steady(s, u) /\ Steady(s, b)
    BY <1>1, <1>5, SteadyTrans, SteadyItself
  <1>10. CASE Is_Mounted(s, v) /\ o = [s |-> s, ok |-> TRUE]
    BY <1>9, <1>10
  <1>11. CASE ~Is_Mounted(s, v) /\ o = [s |-> t, ok |-> FALSE]
    BY <1>1, <1>8, <1>11
  <1>12. CASE v = Data /\ o = [s |-> u, ok |-> FALSE]
    BY <1>4, <1>8, <1>9, <1>12
  <1>13. CASE v = Data /\ CanMount(t, v) /\ o = [s |-> b, ok |-> TRUE]
    BY <1>4, <1>6, <1>7, <1>8, <1>9, <1>13
  <1>14. CASE v # Data /\ o = [s |-> u, ok |-> TRUE]
    BY <1>4, <1>6, <1>8, <1>9, <1>14
  <1>15. QED
    BY <1>2, <1>10, <1>11, <1>12, <1>13, <1>14, Zenon

(* What is unmounted is taken from the server before. *)
LEMMA UnMountSteady ==
  ASSUME NEW s \in Store, Served(s), NEW v \in Vols
  PROVE  \A o \in UnMount(s, v) :
            /\ o.ok \in BOOLEAN /\ Steady(s, o.s)
            /\ ~NeverUnmounted(v) => v \notin o.s.served /\ (o.ok => ~Is_Mounted(o.s, v))
  <1> SUFFICES ASSUME NEW o \in UnMount(s, v)
               PROVE  /\ o.ok \in BOOLEAN /\ Steady(s, o.s)
                      /\ ~NeverUnmounted(v) => v \notin o.s.served /\ (o.ok => ~Is_Mounted(o.s, v))
    OBVIOUS
  <1>1. CASE ~Is_Mounted(s, v) \/ NeverUnmounted(v)
    <2>0. UnMount(s, v) = Ok(s)
      <3>1. CASE ~Is_Mounted(s, v)
        BY <3>1 DEF UnMount
      <3>2. CASE NeverUnmounted(v)
        BY <3>2 DEF UnMount
      <3>3. QED
        BY <1>1, <3>1, <3>2
    <2>1. o = [s |-> s, ok |-> TRUE]
      BY <2>0, Zenon DEF Ok
    <2>2. QED
      BY <1>1, <2>1, SteadyItself DEF Served
  <1>2. CASE Is_Mounted(s, v) /\ ~NeverUnmounted(v)
    <2> DEFINE t == IF v \in Storage THEN Remove_MTP_Storage(s, v) ELSE s
    <2>1. PICK u \in Detached(t, v) : o = [s |-> u, ok |-> ~Is_Mounted(u, v)]
      <3>1. Is_Mounted(s, v)
        BY <1>2
      <3>2. ~NeverUnmounted(v)
        BY <1>2
      <3>3. QED
        BY <3>1, <3>2 DEF UnMount
    <2>2. t \in Store /\ t.served = s.served \ {v} /\ t.mnt = s.mnt /\ t.bind = s.bind
      BY DEF Remove_MTP_Storage, Store, Served
    <2>3. Steady(s, t)
      <3>1. \A f \in {"mnt", "bind", "cur", "disk", "inner", "mapper", "media", "keys", "hasMedia", "decrypted",
                  "encrypted", "plugged", "list", "mapped", "server", "lun", "rmrf", "unsafe"} :
              t[f] = s[f]
        BY DEF Remove_MTP_Storage, Store
      <3> HIDE DEF t
      <3>2. QED
        BY <2>2, <3>1 DEF Steady, Same, Kept, Served, Is_Mounted, NoMifs
    <2> HIDE DEF t
    <2>4. PICK m \in {t.mnt, t.mnt \ {v}}, b \in {t.bind, t.bind /\ v # Data} :
             u = [t EXCEPT !.mnt = m, !.bind = b]
      BY <2>1 DEF Detached
    <2>5. u \in Store /\ u.served = s.served \ {v} /\ u.mnt = m /\ u.bind = b
      BY <2>4, <2>2 DEF Store
    <2>6. \A f \in {"cur", "disk", "inner", "mapper", "media", "keys", "hasMedia", "decrypted",
                  "encrypted", "plugged", "list", "mapped", "server", "served", "lun", "rmrf", "unsafe"} :
              u[f] = t[f]
      BY <2>4, <2>2 DEF Store
    <2>7. Served(u)
      BY <2>4, <2>2, <2>3, <2>5, <2>6 DEF Served, Is_Mounted, Steady
    <2>8. Steady(t, u)
      BY <2>2, <2>5, <2>6, <2>7 DEF Steady, Same, Kept, NoMifs
    <2>9. Is_Mounted(u, v) \in BOOLEAN
      BY <2>5 DEF Is_Mounted, Store
    <2>10. QED
      BY <1>2, <2>1, <2>3, <2>5, <2>8, <2>9, SteadyTrans
  <1>3. QED
    BY <1>1, <1>2

LEMMA SizeSteady ==
  ASSUME NEW s \in Store, Served(s), NEW v \in Vols
  PROVE  \A o \in Update_Size(s, v) : o.ok \in BOOLEAN /\ Steady(s, o.s)
  <1> SUFFICES ASSUME NEW o \in Update_Size(s, v) PROVE o.ok \in BOOLEAN /\ Steady(s, o.s)
    OBVIOUS
  <1>1. CASE Is_Mounted(s, v)
    <2>1. o = [s |-> s, ok |-> TRUE]
      BY <1>1, Zenon DEF Update_Size, Ok
    <2>2. QED
      BY <2>1, SteadyItself
  <1>2. CASE ~Is_Mounted(s, v)
    <2>1. PICK p \in Mount(s, v) : o \in IF p.ok THEN UnMount(p.s, v) ELSE {p}
      BY <1>2 DEF Update_Size
    <2>2. p.ok \in BOOLEAN /\ Steady(s, p.s) /\ p.s \in Store /\ Served(p.s)
      BY MountSteady DEF Steady
    <2>3. QED
      BY <2>1, <2>2, UnMountSteady, SteadyTrans
  <1>3. QED
    BY <1>1, <1>2

-----------------------------------------------------------------------------
(* Operations that erase                                                   *)

(* What an operation that may erase v leaves of s. *)
Wiping(s, u, v) ==
    /\ u \in Store /\ Same(s, u) /\ Erases(s, u, v)
    /\ Served(s) => Served(u)
    /\ NoMifs(s) => NoMifs(u)

(* What a wipe that worked has done. *)
Gone(u, v) == (v = Metadata => ~u.keys) /\ (v = Data => u.media = "none")

Wipes(s, o, v) ==
    /\ o.ok \in BOOLEAN /\ Wiping(s, o.s, v) /\ o.s.served \subseteq s.served
    /\ o.ok => Gone(o.s, v)
    /\ o.ok /\ v = Data /\ ~Is_Mounted(s, Data) /\ ~s.decrypted => o.s.disk[Data] # "noise"

LEMMA SteadyWiping == ASSUME NEW s, NEW u, NEW v, Steady(s, u) PROVE Wiping(s, u, v)
  BY DEF Steady, Wiping, Kept, Erases

LEMMA WipingTrans ==
  ASSUME NEW s, NEW t, NEW u, NEW v, Wiping(s, t, v), Wiping(t, u, v)
  PROVE  Wiping(s, u, v)
  <1>1. Same(s, u)
    BY DEF Wiping, Same
  <1>2. Erases(s, u, v)
    BY DEF Wiping, Erases
  <1>3. QED
    BY <1>1, <1>2 DEF Wiping

LEMMA OutcomesAre ==
  ASSUME NEW s
  PROVE  /\ \A o \in Ok(s) : o.s = s /\ o.ok = TRUE
         /\ \A o \in Fail(s) : o.s = s /\ o.ok = FALSE
         /\ \A o \in Either(s) : o.s = s /\ o.ok \in BOOLEAN
  BY DEF Ok, Fail, Either

LEMMA ErasedWiping ==
  ASSUME NEW s \in Store, NEW v \in Vols
  PROVE  /\ Wiping(s, Erased(s, v), v) /\ Gone(Erased(s, v), v)
         /\ Erased(s, v).served = s.served /\ Erased(s, v).disk = s.disk
         /\ Erased(s, v).mnt = s.mnt /\ Erased(s, v).bind = s.bind /\ Erased(s, v).unsafe = s.unsafe
         /\ Erased(s, v).mapper = s.mapper
  <1> DEFINE u == Erased(s, v)
  <1>1. u \in Store
    BY DEF Erased, Store
  <1>2. \A f \in {"mnt", "bind", "cur", "disk", "inner", "mapper", "hasMedia", "decrypted",
                  "encrypted", "plugged", "list", "mapped", "server", "served", "lun", "rmrf", "unsafe"} :
              u[f] = s[f]
    BY DEF Erased, Store
  <1>3. /\ u.media = IF v = Data THEN "none" ELSE s.media
        /\ u.keys = IF v = Metadata THEN FALSE ELSE s.keys
    BY DEF Erased, Store
  <1> HIDE DEF u
  <1>4. QED
    BY <1>1, <1>2, <1>3 DEF u, Wiping, Same, Erases, Gone, Served, Is_Mounted, NoMifs

LEMMA RemoveSteady ==
  ASSUME NEW s \in Store, NEW v \in Vols, Served(s)
  PROVE  /\ Steady(s, Remove_MTP_Storage(s, v)) /\ Remove_MTP_Storage(s, v).served = s.served \ {v}
         /\ Remove_MTP_Storage(s, v).mnt = s.mnt /\ Remove_MTP_Storage(s, v).bind = s.bind
  <1> DEFINE t == Remove_MTP_Storage(s, v)
  <1>1. t \in Store /\ t.served = s.served \ {v} /\ t.mnt = s.mnt /\ t.bind = s.bind
    BY DEF Remove_MTP_Storage, Store, Served
  <1>2. \A f \in {"mnt", "bind", "cur", "disk", "inner", "mapper", "media", "keys", "hasMedia", "decrypted",
              "encrypted", "plugged", "list", "mapped", "server", "lun", "rmrf", "unsafe"} :
          t[f] = s[f]
    BY DEF Remove_MTP_Storage, Store
  <1> HIDE DEF t
  <1>3. Steady(s, t)
    BY <1>1, <1>2 DEF Steady, Same, Kept, Served, Is_Mounted, NoMifs
  <1>4. QED
    BY <1>1, <1>3 DEF t

LEMMA AddServed ==
  ASSUME NEW s \in Store, NEW v \in Vols
  PROVE  LET u == Add_MTP_Storage(s, v)
         IN /\ u \in Store /\ Same(s, u) /\ Kept(s, u)
            /\ u.inner = s.inner /\ u.cur = s.cur
            /\ Served(s) => Served(u)
  <1> DEFINE u == Add_MTP_Storage(s, v)
  <1>1. CASE s.server /\ v \in Storage /\ Is_Mounted(s, v)
    <2>1. u = [s EXCEPT !.served = @ \cup {v}]
      BY <1>1 DEF Add_MTP_Storage
    <2>2. u \in Store /\ u.served = s.served \cup {v} /\ u.mnt = s.mnt /\ u.bind = s.bind
      BY <1>1, <2>1 DEF Store
    <2>3. \A f \in {"cur", "disk", "inner", "mapper", "media", "keys", "hasMedia", "decrypted",
              "encrypted", "plugged", "list", "mapped", "server", "lun", "rmrf", "unsafe"} :
          u[f] = s[f]
      BY <2>1 DEF Store
    <2> HIDE DEF u
    <2>4. Served(s) => Served(u)
      BY <1>1, <2>2, <2>3 DEF Served, Is_Mounted
    <2>5. QED
      BY <2>2, <2>3, <2>4 DEF u, Same, Kept
  <1>2. CASE ~(s.server /\ v \in Storage /\ Is_Mounted(s, v))
    <2>1. u = s
      BY <1>2, Zenon DEF Add_MTP_Storage
    <2>2. QED
      BY <2>1 DEF Same, Kept
  <1>3. QED
    BY <1>1, <1>2

LEMMA RmrfWiping ==
  ASSUME NEW s \in Store, Served(s), NEW v \in Vols
  PROVE  \A o \in Wipe_RMRF(s, v) : Wipes(s, o, v)
  <1> SUFFICES ASSUME NEW o \in Wipe_RMRF(s, v) PROVE Wipes(s, o, v)
    OBVIOUS
  <1> USE DEF Wipes
  <1>1. PICK p \in Mount(s, v) :
           o \in IF p.ok THEN Ok(Erased(IF v \in Storage THEN Remove_MTP_Storage(p.s, v) ELSE p.s, v))
                         ELSE {p}
    BY DEF Wipe_RMRF
  <1>2. p.ok \in BOOLEAN /\ Steady(s, p.s) /\ p.s.served = s.served /\ p.s \in Store /\ Served(p.s)
    BY MountSteady DEF Steady
  <1>3. CASE ~p.ok
    BY <1>1, <1>2, <1>3, SteadyWiping
  <1>4. CASE p.ok
    <2> DEFINE t == IF v \in Storage THEN Remove_MTP_Storage(p.s, v) ELSE p.s
    <2>1. Steady(p.s, t) /\ t \in Store
      BY <1>2, RemoveSteady, SteadyItself DEF Steady
    <2>2. o \in Ok(Erased(t, v))
      BY <1>1, <1>4
    <2> HIDE DEF t
    <2>3. o.s = Erased(t, v) /\ o.ok = TRUE
      BY <2>2, OutcomesAre
    <2>4. Wiping(s, t, v) /\ t.disk = s.disk /\ t.served \subseteq s.served
      BY <1>2, <2>1, SteadyTrans, SteadyWiping DEF Steady, Kept
    <2>5. p.ok /\ v = Data /\ ~Is_Mounted(s, Data) /\ ~s.decrypted => s.disk[Data] # "noise"
      BY MountSteady
    <2>6. Wiping(t, o.s, v) /\ Gone(o.s, v) /\ o.s.served = t.served /\ o.s.disk = t.disk
      BY <2>1, <2>3, ErasedWiping
    <2>7. Wiping(s, o.s, v)
      BY <2>4, <2>6, WipingTrans
    <2>8. QED
      BY <1>4, <2>3, <2>4, <2>5, <2>6, <2>7
  <1>5. QED
    BY <1>2, <1>3, <1>4

Real(fs) == fs \in FileSystems /\ fs # "mifs"

LEMMA MkfsWiping ==
  ASSUME NEW s \in Store, Served(s), NEW v \in Vols, ~Is_Mounted(s, v), NEW fs, Real(fs),
         NEW raw \in BOOLEAN
  PROVE  \A o \in Mkfs(s, v, fs, raw) : Wipes(s, o, v)
  <1> SUFFICES ASSUME NEW o \in Mkfs(s, v, fs, raw) PROVE Wipes(s, o, v)
    OBVIOUS
  <1> USE DEF Wipes
  <1> DEFINE e == Erased(s, v)
             t == [e EXCEPT !.unsafe = @ \/ Is_Mounted(s, v)]
             a == [t EXCEPT !.inner = fs]
             b == [t EXCEPT !.disk[Device[v]] = fs]
  <1>1. /\ Wiping(s, e, v) /\ e \in Store /\ Gone(e, v) /\ e.served = s.served /\ e.disk = s.disk
        /\ e.mnt = s.mnt /\ e.bind = s.bind /\ e.unsafe = s.unsafe /\ e.mapper = s.mapper
    BY ErasedWiping DEF Wiping
  <1>2. \/ o \in Fail(s)
        \/ OnMapper(s, v) /\ o \in Either(a)
        \/ o \in Either(b)
    BY DEF Mkfs
  <1> HIDE DEF e
  <1>3. t = e
    BY <1>1 DEF Store
  <1> HIDE DEF t
  <1>4. a \in Store /\ b \in Store
    BY <1>1, <1>3, VolumeAssumption DEF Store, Real
  <1>5. /\ a.inner = fs /\ a.disk = s.disk /\ b.inner = e.inner
        /\ b.disk[Data] = IF v = Data THEN fs ELSE s.disk[Data]
    BY <1>1, <1>3, VolumeAssumption DEF Store
  <1>6. \A f \in {"mnt", "bind", "cur", "mapper", "media", "keys", "hasMedia", "decrypted",
              "encrypted", "plugged", "list", "mapped", "server", "served", "lun", "rmrf", "unsafe"} :
           a[f] = e[f] /\ b[f] = e[f]
    BY <1>1, <1>3 DEF Store
  <1> HIDE DEF a, b
  <1>7. Wiping(e, a, v) /\ Wiping(e, b, v)
    BY <1>1, <1>4, <1>5, <1>6 DEF Wiping, Same, Erases, Served, Is_Mounted, NoMifs, Real, FileSystems
  <1>8. Gone(a, v) /\ Gone(b, v)
    BY <1>1, <1>6 DEF Gone
  <1>9. CASE o \in Fail(s)
    BY <1>9, OutcomesAre, SteadyItself, SteadyWiping
  <1>10. CASE OnMapper(s, v) /\ o \in Either(a)
    <2>1. o.s = a /\ o.ok \in BOOLEAN
      BY <1>10, OutcomesAre
    <2>2. Wiping(s, a, v) /\ a.served \subseteq s.served
      BY <1>1, <1>6, <1>7, WipingTrans
    <2>3. ~(v = Data /\ ~s.decrypted)
      BY <1>10 DEF OnMapper
    <2>4. QED
      BY <1>8, <2>1, <2>2, <2>3
  <1>11. CASE o \in Either(b)
    <2>1. o.s = b /\ o.ok \in BOOLEAN
      BY <1>11, OutcomesAre
    <2>2. Wiping(s, b, v) /\ b.served \subseteq s.served
      BY <1>1, <1>6, <1>7, WipingTrans
    <2>3. v = Data => b.disk[Data] # "noise"
      BY <1>5 DEF Real, FileSystems
    <2>4. QED
      BY <1>8, <2>1, <2>2, <2>3
  <1>12. QED
    BY <1>2, <1>9, <1>10, <1>11

LEMMA NotedWipes ==
  ASSUME NEW s \in Store, NEW v \in Vols, NEW o, Wipes(s, o, v), NEW fs, Real(fs)
  PROVE  Wipes(s, Noted(o, v, fs), v)
  <1>1. o.ok \in BOOLEAN /\ Wiping(s, o.s, v) /\ o.s \in Store
    BY DEF Wipes, Wiping
  <1>2. CASE ~o.ok
    BY <1>2 DEF Noted
  <1>3. CASE o.ok
    <2> DEFINE u == [o.s EXCEPT !.cur[v] = fs]
    <2>1. Noted(o, v, fs) = [s |-> u, ok |-> TRUE]
      BY <1>3 DEF Noted
    <2>2. u \in Store
      BY <1>1 DEF Store, Real
    <2>3. \A f \in {"mnt", "bind", "mapper", "media", "keys", "hasMedia", "decrypted", "disk", "inner",
              "encrypted", "plugged", "list", "mapped", "server", "served", "lun", "rmrf", "unsafe"} :
          u[f] = o.s[f]
      BY <1>1 DEF Store
    <2>4. u.cur[Data] = IF v = Data THEN fs ELSE o.s.cur[Data]
      BY <1>1, VolumeAssumption DEF Store
    <2> HIDE DEF u
    <2>5. Wiping(o.s, u, v)
      BY <1>1, <2>2, <2>3, <2>4 DEF Wiping, Same, Erases, Served, Is_Mounted, NoMifs, Real
    <2>6. Wiping(s, u, v)
      BY <1>1, <2>5, WipingTrans
    <2>7. QED
      BY <1>3, <2>1, <2>3, <2>6 DEF Wipes, Gone
  <1>4. QED
    BY <1>1, <1>2, <1>3

LEMMA SteadyThenWipes ==
  ASSUME NEW s \in Store, NEW t, NEW v, Steady(s, t), NEW o, Wipes(t, o, v),
         v = Data => ~Is_Mounted(t, Data)
  PROVE  Wipes(s, o, v)
  <1>1. Wiping(s, o.s, v)
    BY SteadyWiping, WipingTrans DEF Wipes
  <1>2. t.decrypted = s.decrypted /\ t.served \subseteq s.served
    BY DEF Steady, Same
  <1>3. QED
    BY <1>1, <1>2 DEF Wipes

LEMMA SteadyFails ==
  ASSUME NEW s \in Store, NEW v, NEW o, Steady(s, o.s), o.ok = FALSE
  PROVE  Wipes(s, o, v)
  BY SteadyWiping DEF Wipes, Steady

LEMMA FormatWipes ==
  ASSUME NEW s \in Store, Served(s), NEW v \in Vols, ~NeverUnmounted(v), NEW fs, Real(fs),
         NEW falls \in BOOLEAN, NEW notes \in BOOLEAN
  PROVE  \A o \in Format(s, v, fs, falls, notes) : Wipes(s, o, v)
  <1> SUFFICES ASSUME NEW o \in Format(s, v, fs, falls, notes) PROVE Wipes(s, o, v)
    OBVIOUS
  <1> DEFINE Made(t) == IF v \notin t.present THEN Fail(t)
                        ELSE {IF notes THEN Noted(p, v, fs) ELSE p : p \in Mkfs(t, v, fs, FALSE)}
  <1>1. PICK q \in UnMount(s, v) :
           o \in IF ~q.ok THEN {q}
                 ELSE IF fs \notin Tools THEN (IF falls THEN Wipe_RMRF(q.s, v) ELSE Fail(q.s))
                 ELSE Made(Find_Actual_Block_Device(q.s, v))
    BY DEF Format
  <1>2. /\ q.ok \in BOOLEAN /\ Steady(s, q.s) /\ q.s \in Store /\ Served(q.s)
        /\ q.ok => ~Is_Mounted(q.s, v)
    BY UnMountSteady DEF Steady
  <1> HIDE DEF Made
  <1>3. CASE ~q.ok
    BY <1>1, <1>2, <1>3, SteadyFails
  <1>4. CASE q.ok /\ fs \notin Tools /\ falls
    <2>1. o \in Wipe_RMRF(q.s, v)
      BY <1>1, <1>4
    <2>2. QED
      BY <1>2, <1>4, <2>1, RmrfWiping, SteadyThenWipes
  <1>5. CASE q.ok /\ fs \notin Tools /\ ~falls
    <2>1. o \in Fail(q.s)
      BY <1>1, <1>5
    <2>2. QED
      BY <1>2, <2>1, OutcomesAre, SteadyFails
  <1>6. CASE q.ok /\ fs \in Tools
    <2> DEFINE t == Find_Actual_Block_Device(q.s, v)
    <2>1. Steady(s, t) /\ t \in Store /\ Served(t) /\ ~Is_Mounted(t, v)
      BY <1>2, <1>6, FindSteady, SteadyTrans DEF Steady, Is_Mounted
    <2>2. o \in Made(t)
      BY <1>1, <1>6
    <2> HIDE DEF t
    <2>3. CASE v \notin t.present
      BY <2>1, <2>2, <2>3, OutcomesAre, SteadyFails DEF Made
    <2>4. CASE v \in t.present
      <3>1. PICK p \in Mkfs(t, v, fs, FALSE) : o = IF notes THEN Noted(p, v, fs) ELSE p
        BY <2>2, <2>4 DEF Made
      <3>2. Wipes(t, p, v)
        BY <2>1, MkfsWiping
      <3>3. Wipes(t, o, v)
        BY <2>1, <3>1, <3>2, NotedWipes
      <3>4. QED
        BY <2>1, <3>3, SteadyThenWipes
    <2>5. QED
      BY <2>3, <2>4
  <1>7. QED
    BY <1>2, <1>3, <1>4, <1>5, <1>6

LEMMA WipingThenWipes ==
  ASSUME NEW s \in Store, NEW t, NEW v, Wiping(s, t, v), t.served \subseteq s.served,
         NEW o, Wipes(t, o, v), v = Data => ~Is_Mounted(t, Data)
  PROVE  Wipes(s, o, v)
  <1>1. Wiping(s, o.s, v)
    BY WipingTrans DEF Wipes
  <1>2. t.decrypted = s.decrypted
    BY DEF Wiping, Same
  <1>3. QED
    BY <1>1, <1>2 DEF Wipes

LEMMA F2fsWipes ==
  ASSUME NEW s \in Store, Served(s), NEW v \in Vols, ~NeverUnmounted(v)
  PROVE  \A o \in Wipe_F2FS(s, v) : Wipes(s, o, v)
  <1> SUFFICES ASSUME NEW o \in Wipe_F2FS(s, v) PROVE Wipes(s, o, v)
    OBVIOUS
  <1> DEFINE Ends(t) == UNION {Mkfs([t EXCEPT !.mapper = m], v, "f2fs", TRUE) :
                                 m \in {t.mapper, t.mapper /\ v /= Data}}
             Made(t) == IF v \notin t.present THEN Fail(t) ELSE {Noted(p, v, "f2fs") : p \in Ends(t)}
  <1>1. PICK q \in UnMount(s, v) :
           o \in IF ~q.ok THEN {q}
                 ELSE IF "f2fs" \notin Tools THEN Wipe_RMRF(q.s, v)
                 ELSE Made(Find_Actual_Block_Device(q.s, v))
    BY DEF Wipe_F2FS
  <1>2. /\ q.ok \in BOOLEAN /\ Steady(s, q.s) /\ q.s \in Store /\ Served(q.s)
        /\ q.ok => ~Is_Mounted(q.s, v)
    BY UnMountSteady DEF Steady
  <1> HIDE DEF Made
  <1>3. CASE ~q.ok
    BY <1>1, <1>2, <1>3, SteadyFails
  <1>4. CASE q.ok /\ "f2fs" \notin Tools
    <2>1. o \in Wipe_RMRF(q.s, v)
      BY <1>1, <1>4
    <2>2. QED
      BY <1>2, <1>4, <2>1, RmrfWiping, SteadyThenWipes
  <1>5. CASE q.ok /\ "f2fs" \in Tools
    <2> DEFINE t == Find_Actual_Block_Device(q.s, v)
    <2>1. Steady(s, t) /\ t \in Store /\ Served(t) /\ ~Is_Mounted(t, v)
      BY <1>2, <1>5, FindSteady, SteadyTrans DEF Steady, Is_Mounted
    <2>2. o \in Made(t)
      BY <1>1, <1>5
    <2> HIDE DEF t
    <2>3. CASE v \notin t.present
      BY <2>1, <2>2, <2>3, OutcomesAre, SteadyFails DEF Made
    <2>4. CASE v \in t.present
      <3>1. PICK p \in Ends(t) : o = Noted(p, v, "f2fs")
        BY <2>2, <2>4 DEF Made
      <3>2. PICK m \in {t.mapper, t.mapper /\ v /= Data} : p \in Mkfs([t EXCEPT !.mapper = m], v, "f2fs", TRUE)
        BY <3>1
      <3> DEFINE u == [t EXCEPT !.mapper = m]
      <3>3. u \in Store
        BY <2>1, <3>2 DEF Store
      <3>4. \A f \in {"mnt", "bind", "cur", "media", "keys", "hasMedia", "decrypted", "disk", "inner",
              "encrypted", "plugged", "list", "mapped", "server", "served", "lun", "rmrf", "unsafe"} :
          u[f] = t[f]
        BY <2>1 DEF Store
      <3> HIDE DEF u
      <3>5. Wiping(t, u, v) /\ Served(u) /\ ~Is_Mounted(u, v)
        BY <2>1, <3>3, <3>4 DEF Wiping, Same, Erases, Served, Is_Mounted, NoMifs
      <3>6. Real("f2fs")
        BY DEF Real, FileSystems
      <3>7. Wipes(u, p, v)
        BY <3>2, <3>3, <3>5, <3>6, MkfsWiping DEF u
      <3>8. Wipes(u, o, v)
        BY <3>1, <3>3, <3>6, <3>7, NotedWipes
      <3>9. Wipes(t, o, v)
        BY <2>1, <3>4, <3>5, <3>8, WipingThenWipes
      <3>10. QED
        BY <2>1, <3>9, SteadyThenWipes
    <2>5. QED
      BY <2>3, <2>4
  <1>6. QED
    BY <1>2, <1>3, <1>4, <1>5

(* A factory reset of a /data with data/media leaves it the file system. *)
LEMMA DataSteady ==
  ASSUME NEW s \in Store
  PROVE  \A o \in Wipe_Data_Without_Wiping_Media(s) : o.ok \in BOOLEAN /\ Steady(s, o.s)
  <1> SUFFICES ASSUME NEW o \in Wipe_Data_Without_Wiping_Media(s) PROVE o.ok \in BOOLEAN /\ Steady(s, o.s)
    OBVIOUS
  <1>1. PICK p \in Mount(s, Data) : o \in IF p.ok THEN Either(p.s) ELSE {p}
    BY DEF Wipe_Data_Without_Wiping_Media
  <1>2. p.ok \in BOOLEAN /\ Steady(s, p.s)
    BY MountSteady, VolumeAssumption
  <1>3. QED
    BY <1>1, <1>2, OutcomesAre

(* With data/media in the file system asked for a wipe spares the media.   *)
Spares(s, v, fs) == v = Data /\ s.hasMedia /\ s.cur[v] = fs

LEMMA WipeAsWipes ==
  ASSUME NEW s \in Store, Served(s), NEW v \in Vols, ~NeverUnmounted(v), NEW fs, Real(fs)
  PROVE  \A o \in WipeAs(s, v, fs) :
            IF Spares(s, v, fs) THEN o.ok \in BOOLEAN /\ Steady(s, o.s) ELSE Wipes(s, o, v)
  <1> SUFFICES ASSUME NEW o \in WipeAs(s, v, fs)
               PROVE  IF Spares(s, v, fs) THEN o.ok \in BOOLEAN /\ Steady(s, o.s) ELSE Wipes(s, o, v)
    OBVIOUS
  <1>1. CASE Spares(s, v, fs)
    <2>1. o \in Wipe_Data_Without_Wiping_Media(s)
      BY <1>1 DEF WipeAs, Spares
    <2>2. QED
      BY <1>1, <2>1, DataSteady
  <1>2. CASE ~Spares(s, v, fs)
    <2>1. \/ o \in Wipe_RMRF(s, v) \/ o \in Wipe_F2FS(s, v) \/ o \in Fail(s)
          \/ o \in Format(s, v, "ext4", TRUE, TRUE) \/ o \in Format(s, v, "vfat", TRUE, TRUE)
          \/ o \in Format(s, v, "exfat", FALSE, FALSE) \/ o \in Format(s, v, "ntfs", FALSE, FALSE)
      BY <1>2 DEF WipeAs, Spares, Wipe_EXTFS, Wipe_FAT, Wipe_EXFAT, Wipe_NTFS
    <2>2. Real("ext4") /\ Real("vfat") /\ Real("exfat") /\ Real("ntfs")
      BY DEF Real, FileSystems
    <2>3. CASE o \in Fail(s)
      BY <2>3, OutcomesAre, SteadyItself, SteadyFails
    <2>4. CASE o \in Wipe_RMRF(s, v) \/ o \in Wipe_F2FS(s, v)
      BY <1>2, <2>4, RmrfWiping, F2fsWipes
    <2>5. CASE \/ o \in Format(s, v, "ext4", TRUE, TRUE) \/ o \in Format(s, v, "vfat", TRUE, TRUE)
               \/ o \in Format(s, v, "exfat", FALSE, FALSE) \/ o \in Format(s, v, "ntfs", FALSE, FALSE)
      BY <1>2, <2>2, <2>5, FormatWipes
    <2>6. QED
      BY <1>2, <2>1, <2>3, <2>4, <2>5
  <1>3. QED
    BY <1>1, <1>2

(* Wipe(fs) asks for f2fs where mifs is named. *)
Asked(fs) == IF fs = "mifs" THEN "f2fs" ELSE fs

LEMMA WipeWipes ==
  ASSUME NEW s \in Store, Served(s), NEW v \in Vols, NEW fs \in FileSystems
  PROVE  \A o \in Wipe(s, v, fs) :
            /\ o.ok \in BOOLEAN /\ Wiping(s, o.s, v)
            /\ v = Data /\ IsFbe => o.s.served \subseteq s.served
            /\ Spares(s, v, Asked(fs)) => Kept(s, o.s)
            /\ o.ok /\ ~Spares(s, v, Asked(fs)) => Gone(o.s, v)
            /\ o.ok /\ ~Spares(s, v, Asked(fs)) /\ v = Data /\ ~Is_Mounted(s, Data) /\ ~s.decrypted
                 => o.s.disk[Data] # "noise"
  <1> SUFFICES ASSUME NEW o \in Wipe(s, v, fs)
               PROVE  /\ o.ok \in BOOLEAN /\ Wiping(s, o.s, v)
                      /\ v = Data /\ IsFbe => o.s.served \subseteq s.served
                      /\ Spares(s, v, Asked(fs)) => Kept(s, o.s)
                      /\ o.ok /\ ~Spares(s, v, Asked(fs)) => Gone(o.s, v)
                      /\ o.ok /\ ~Spares(s, v, Asked(fs)) /\ v = Data /\ ~Is_Mounted(s, Data) /\ ~s.decrypted
                           => o.s.disk[Data] # "noise"
    OBVIOUS
  <1>1. CASE v \in Super
    <2>1. o.s = s /\ o.ok = FALSE
      BY <1>1, OutcomesAre DEF Wipe
    <2>2. QED
      BY <2>1, SteadyItself, SteadyWiping DEF Kept
  <1>2. CASE v \notin Super
    <2>1. ~NeverUnmounted(v) /\ Real(Asked(fs))
      BY <1>2, VolumeAssumption DEF NeverUnmounted, Real, Asked, FileSystems
    <2> DEFINE After(q) == {[s |-> IF p.ok /\ ~(v = Data /\ IsFbe) THEN Add_MTP_Storage(p.s, v) ELSE p.s,
                             ok |-> TRUE] : p \in Mount(q.s, v)}
    <2>2. PICK q \in WipeAs(s, v, Asked(fs)) : o \in IF ~q.ok \/ v \notin Storage THEN {q} ELSE After(q)
      BY <1>2 DEF Wipe, Asked
    <2> HIDE DEF After
    <2>3. /\ q.ok \in BOOLEAN /\ Wiping(s, q.s, v) /\ q.s.served \subseteq s.served
          /\ Spares(s, v, Asked(fs)) => Kept(s, q.s)
          /\ ~Spares(s, v, Asked(fs)) => Wipes(s, q, v)
      BY <2>1, WipeAsWipes, SteadyWiping DEF Steady, Wipes
    <2>4. CASE ~q.ok \/ v \notin Storage
      BY <2>2, <2>3, <2>4 DEF Wipes
    <2>5. CASE q.ok /\ v \in Storage
      <3>1. PICK p \in Mount(q.s, v) :
               o = [s |-> IF p.ok /\ ~(v = Data /\ IsFbe) THEN Add_MTP_Storage(p.s, v) ELSE p.s, ok |-> TRUE]
        BY <2>2, <2>5 DEF After
      <3>2. q.s \in Store /\ Served(q.s)
        BY <2>3 DEF Wiping
      <3>3. Steady(q.s, p.s) /\ p.s \in Store /\ p.s.served = q.s.served
        BY <3>2, MountSteady DEF Steady
      <3>4. /\ o.ok = TRUE /\ Wiping(p.s, o.s, v) /\ Kept(p.s, o.s)
            /\ v = Data /\ IsFbe => o.s = p.s
        <4>1. CASE p.ok /\ ~(v = Data /\ IsFbe)
          <5>1. o.ok = TRUE /\ o.s = Add_MTP_Storage(p.s, v)
            BY <3>1, <4>1
          <5>2. QED
            BY <3>3, <4>1, <5>1, AddServed DEF Wiping, Erases, Kept, NoMifs
        <4>2. CASE ~(p.ok /\ ~(v = Data /\ IsFbe))
          <5>1. o.ok = TRUE /\ o.s = p.s
            BY <3>1, <4>2
          <5>2. QED
            BY <3>3, <5>1, SteadyItself, SteadyWiping DEF Kept
        <4>3. QED
          BY <4>1, <4>2
      <3>5. Wiping(s, p.s, v) /\ Kept(q.s, p.s)
        BY <2>3, <3>3, SteadyWiping, WipingTrans DEF Steady
      <3>6. Wiping(s, o.s, v) /\ Kept(q.s, o.s)
        BY <3>4, <3>5, WipingTrans DEF Kept
      <3>7. QED
        BY <2>3, <2>5, <3>3, <3>4, <3>6 DEF Kept, Gone, Wipes
    <2>6. QED
      BY <2>4, <2>5, <2>3
  <1>3. QED
    BY <1>1, <1>2

LEMMA WipeByPathWipes ==
  ASSUME NEW s \in Store, Served(s), NEW v \in Vols
  PROVE  \A o \in Wipe_By_Path(s, v) :
            /\ o.ok \in BOOLEAN /\ Wiping(s, o.s, v)
            /\ o.ok /\ v # Data => Gone(o.s, v)
            /\ v = Data /\ s.hasMedia /\ NoMifs(s) => Kept(s, o.s)
  <1> SUFFICES ASSUME NEW o \in Wipe_By_Path(s, v)
               PROVE  /\ o.ok \in BOOLEAN /\ Wiping(s, o.s, v)
                      /\ o.ok /\ v # Data => Gone(o.s, v)
                      /\ v = Data /\ s.hasMedia /\ NoMifs(s) => Kept(s, o.s)
    OBVIOUS
  <1>1. CASE v \notin s.list
    <2>1. o.s = s /\ o.ok = FALSE
      BY <1>1, OutcomesAre DEF Wipe_By_Path
    <2>2. QED
      BY <2>1, SteadyItself, SteadyWiping DEF Kept
  <1>2. CASE v \in s.list
    <2> DEFINE t == Find_Actual_Block_Device(s, v)
               Left0 == IF Twins(v) \cap s.list = {} THEN {t}
                        ELSE {q.s : q \in UNION {UnMount(t, w) : w \in Twins(v) \cap s.list}}
    <2>1. PICK u \in Left0 : o \in Wipe(u, v, u.cur[v])
      BY <1>2 DEF Wipe_By_Path
    <2>2. Steady(s, t) /\ t \in Store /\ Served(t)
      BY FindSteady DEF Steady
    <2> HIDE DEF t
    <2>3. Steady(s, u)
      <3>1. CASE u = t
        BY <2>2, <3>1
      <3>2. CASE u # t
        <4>1. PICK w \in Twins(v) : \E q \in UnMount(t, w) : u = q.s
          BY <2>1, <3>2
        <4>2. w \in Vols
          BY <4>1 DEF Twins
        <4>3. QED
          BY <2>2, <4>1, <4>2, UnMountSteady, SteadyTrans
      <3>3. QED
        BY <3>1, <3>2
    <2>4. u \in Store /\ Served(u) /\ u.cur[v] \in FileSystems /\ u.hasMedia = s.hasMedia
      BY <2>3 DEF Steady, Store, Same
    <2>5. /\ o.ok \in BOOLEAN /\ Wiping(u, o.s, v)
          /\ Spares(u, v, Asked(u.cur[v])) => Kept(u, o.s)
          /\ o.ok /\ ~Spares(u, v, Asked(u.cur[v])) => Gone(o.s, v)
      BY <2>1, <2>4, WipeWipes
    <2>6. v = Data /\ s.hasMedia /\ NoMifs(s) => Spares(u, v, Asked(u.cur[v]))
      BY <2>3, <2>4 DEF Steady, NoMifs, Spares, Asked
    <2>7. v # Data => ~Spares(u, v, Asked(u.cur[v]))
      BY DEF Spares
    <2>8. Wiping(s, o.s, v)
      BY <2>3, <2>5, SteadyWiping, WipingTrans
    <2>9. QED
      BY <2>3, <2>5, <2>6, <2>7, <2>8 DEF Kept, Steady
  <1>3. QED
    BY <1>1, <1>2

-----------------------------------------------------------------------------
(* The media folder, and formatting /data                                  *)

(* An operation that may make the media folder again. *)
Remade(s, u) ==
    /\ u \in Store /\ Same(s, u) /\ u.keys = s.keys /\ u.disk = s.disk
    /\ s.media # "users" => u.media # "users"
    /\ Served(u)
    /\ NoMifs(s) => NoMifs(u)

LEMMA RemadeTrans ==
  ASSUME NEW s, NEW t, NEW u, Remade(s, t), Remade(t, u)
  PROVE  Remade(s, u)
  BY DEF Remade, Same

LEMMA SteadyRemade == ASSUME NEW s, NEW u, Steady(s, u), Served(s) PROVE Remade(s, u)
  BY DEF Steady, Remade, Kept

LEMMA AddRemade ==
  ASSUME NEW s \in Store, NEW v \in Vols, Served(s)
  PROVE  Remade(s, Add_MTP_Storage(s, v))
  BY AddServed DEF Remade, Kept, NoMifs

LEMMA DataIs == Data \in Vols /\ Data \in Storage /\ Metadata \in Vols /\ ~NeverUnmounted(Data) /\ Data # Metadata
  <1>1. Data \in Vols \ Super
    BY VolumeAssumption
  <1>2. QED
    BY <1>1, VolumeAssumption DEF NeverUnmounted

(* The folder is bound again in any case, so the server must not yet have  *)
(* been told of it. *)
LEMMA RecreateRemade ==
  ASSUME NEW s \in Store, Served(s), IsFbe => Data \notin s.served
  PROVE  \A o \in Recreate_Media_Folder(s) : o.ok \in BOOLEAN /\ Remade(s, o.s)
  <1> SUFFICES ASSUME NEW o \in Recreate_Media_Folder(s) PROVE o.ok \in BOOLEAN /\ Remade(s, o.s)
    OBVIOUS
  <1> DEFINE T(x) == [x EXCEPT !.media = IF @ = "none" THEN "new" ELSE @]
             Bound(x) == {[s |-> Add_MTP_Storage([T(x) EXCEPT !.bind = b], Data), ok |-> TRUE] : b \in BOOLEAN}
             Again(x) == UNION {Mount(p.s, Data) : p \in UnMount(T(x), Data)}
  <1>1. PICK q \in Mount(s, Data) :
           o \in IF ~q.ok THEN {q}
                 ELSE IF IsFbe THEN Bound(q.s)
                 ELSE IF q.s.media /= "none" THEN {q} ELSE Again(q.s)
    BY DEF Recreate_Media_Folder
  <1> HIDE DEF Bound, Again
  <1>2. /\ q.ok \in BOOLEAN /\ Steady(s, q.s) /\ q.s \in Store /\ Served(q.s)
        /\ q.s.served = s.served /\ Remade(s, q.s)
    BY DataIs, MountSteady, SteadyRemade DEF Steady
  <1> DEFINE t == T(q.s)
  <1>3. t \in Store
    BY <1>2 DEF Store
  <1>4. \A f \in {"mnt", "bind", "cur", "keys", "hasMedia", "decrypted", "disk", "inner", "mapper",
              "encrypted", "plugged", "list", "mapped", "server", "served", "lun", "rmrf", "unsafe"} :
          t[f] = q.s[f]
    BY <1>2 DEF Store
  <1>5. t.media = IF q.s.media = "none" THEN "new" ELSE q.s.media
    BY <1>2 DEF Store
  <1> HIDE DEF T
  <1>6. Served(t) /\ Remade(q.s, t)
    BY <1>2, <1>3, <1>4, <1>5 DEF Remade, Same, Served, Is_Mounted, NoMifs
  <1>7. CASE ~q.ok \/ o = q
    BY <1>1, <1>2, <1>7
  <1>8. CASE q.ok /\ IsFbe /\ o # q
    <2>1. PICK b \in BOOLEAN : o = [s |-> Add_MTP_Storage([t EXCEPT !.bind = b], Data), ok |-> TRUE]
      BY <1>1, <1>8 DEF Bound
    <2> DEFINE u == [t EXCEPT !.bind = b]
    <2>2. u \in Store
      BY <1>3 DEF Store
    <2>3. \A f \in {"mnt", "media", "cur", "keys", "hasMedia", "decrypted", "disk", "inner", "mapper",
              "encrypted", "plugged", "list", "mapped", "server", "served", "lun", "rmrf", "unsafe"} :
          u[f] = t[f]
      BY <1>3 DEF Store
    <2> HIDE DEF u
    <2>4. Data \notin u.served
      BY <1>2, <1>4, <1>8, <2>3
    <2>5. Served(u)
      BY <1>6, <2>3, <2>4 DEF Served, Is_Mounted
    <2>6. Remade(t, u)
      BY <2>2, <2>3, <2>5 DEF Remade, Same, NoMifs
    <2>7. Remade(u, o.s) /\ o.ok = TRUE
      BY <2>1, <2>2, <2>5, DataIs, AddRemade DEF u
    <2>8. QED
      BY <1>2, <1>6, <2>6, <2>7, RemadeTrans
  <1>9. CASE q.ok /\ ~IsFbe /\ o # q
    <2>1. PICK p \in UnMount(t, Data) : o \in Mount(p.s, Data)
      BY <1>1, <1>9 DEF Again
    <2>2. Remade(t, p.s) /\ p.s \in Store /\ Served(p.s)
      BY <1>3, <1>6, <2>1, DataIs, UnMountSteady, SteadyRemade DEF Steady
    <2>3. o.ok \in BOOLEAN /\ Remade(p.s, o.s)
      BY <2>1, <2>2, DataIs, MountSteady, SteadyRemade
    <2>4. QED
      BY <1>2, <1>6, <2>2, <2>3, RemadeTrans
  <1>10. QED
    BY <1>2, <1>7, <1>8, <1>9

LEMMA WipeMediaRemade ==
  ASSUME NEW s \in Store, Served(s)
  PROVE  \A o \in Wipe_Media_From_Data(s) : o.ok \in BOOLEAN /\ Remade(s, o.s)
  <1> SUFFICES ASSUME NEW o \in Wipe_Media_From_Data(s) PROVE o.ok \in BOOLEAN /\ Remade(s, o.s)
    OBVIOUS
  <1> DEFINE E(x) == [Remove_MTP_Storage(x, Data) EXCEPT !.media = "none"]
             Made(x) == {[s |-> Add_MTP_Storage(r.s, Data), ok |-> TRUE] : r \in Recreate_Media_Folder(E(x))}
  <1>1. CASE ~s.hasMedia
    <2>1. o \in Fail(s)
      BY <1>1 DEF Wipe_Media_From_Data
    <2>2. QED
      BY <2>1, OutcomesAre, SteadyItself, SteadyRemade
  <1>2. CASE s.hasMedia
    <2>1. PICK q \in Mount(s, Data) : o \in IF ~q.ok THEN {q} ELSE Made(q.s)
      BY <1>2 DEF Wipe_Media_From_Data
    <2>2. q.ok \in BOOLEAN /\ q.s \in Store /\ Served(q.s) /\ Remade(s, q.s)
      BY DataIs, MountSteady, SteadyRemade DEF Steady
    <2> DEFINE t == Remove_MTP_Storage(q.s, Data)
               u == [t EXCEPT !.media = "none"]
    <2>3. t \in Store /\ Served(t) /\ Data \notin t.served /\ Remade(q.s, t)
      BY <2>2, DataIs, RemoveSteady, SteadyRemade DEF Steady
    <2> HIDE DEF t
    <2>4. u \in Store /\ u.media = "none"
      BY <2>3 DEF Store
    <2>5. \A f \in {"mnt", "bind", "cur", "keys", "hasMedia", "decrypted", "disk", "inner", "mapper",
              "encrypted", "plugged", "list", "mapped", "server", "served", "lun", "rmrf", "unsafe"} :
          u[f] = t[f]
      BY <2>3 DEF Store
    <2>6. u = E(q.s)
      BY DEF t
    <2> HIDE DEF u, E
    <2>7. Served(u) /\ Remade(t, u) /\ Data \notin u.served
      BY <2>3, <2>4, <2>5 DEF Remade, Same, Served, Is_Mounted, NoMifs
    <2>8. CASE ~q.ok
      BY <2>1, <2>2, <2>8
    <2>9. CASE q.ok
      <3>1. PICK r \in Recreate_Media_Folder(u) : o = [s |-> Add_MTP_Storage(r.s, Data), ok |-> TRUE]
        BY <2>1, <2>6, <2>9
      <3>2. Remade(u, r.s) /\ r.s \in Store /\ Served(r.s)
        BY <2>4, <2>7, RecreateRemade DEF Remade
      <3>3. Remade(r.s, o.s) /\ o.ok = TRUE
        BY <3>1, <3>2, DataIs, AddRemade
      <3>4. QED
        BY <2>2, <2>3, <2>7, <3>2, <3>3, RemadeTrans
    <2>10. QED
      BY <2>2, <2>8, <2>9
  <1>3. QED
    BY <1>1, <1>2

(* The keys do not go before the data they encrypt. *)
KeysLast(s) == ~s.keys => s.disk[Data] # "noise"

(* What every task leaves of s. *)
Works(s, u) ==
    /\ u \in Store /\ Served(u)
    /\ KeysLast(s) => KeysLast(u)
    /\ ~s.keys => ~u.keys
    /\ s.media # "users" => u.media # "users"
    /\ u.unsafe = s.unsafe /\ u.hasMedia = s.hasMedia
    /\ Fstab[Data] # "mifs" /\ NoMifs(s) => NoMifs(u)

LEMMA WorksTrans ==
  ASSUME NEW s, NEW t, NEW u, Works(s, t), Works(t, u)
  PROVE  Works(s, u)
  BY DEF Works

LEMMA SteadyWorks == ASSUME NEW s, NEW u, Steady(s, u), Served(s) PROVE Works(s, u)
  BY DEF Steady, Works, Kept, Same, KeysLast

LEMMA RemadeWorks == ASSUME NEW s, NEW u, Remade(s, u) PROVE Works(s, u)
  BY DEF Remade, Works, Same, KeysLast

LEMMA WipingWorks ==
  ASSUME NEW s, NEW u, NEW v, Wiping(s, u, v), Served(s), v = Metadata => s.disk[Data] # "noise"
  PROVE  Works(s, u)
  BY DataIs DEF Wiping, Works, Same, Erases, KeysLast

LEMMA KeysGo ==
  ASSUME NEW s \in Store, Served(s), s.disk[Data] # "noise"
  PROVE  \A o \in Wipe_Keys(s) : o.ok \in BOOLEAN /\ Works(s, o.s) /\ (o.ok => ~o.s.keys)
  <1> SUFFICES ASSUME NEW o \in Wipe_Keys(s)
               PROVE  o.ok \in BOOLEAN /\ Works(s, o.s) /\ (o.ok => ~o.s.keys)
    OBVIOUS
  <1>1. CASE Metadata \in s.list
    <2>1. o \in Wipe_By_Path(s, Metadata)
      BY <1>1 DEF Wipe_Keys
    <2>2. o.ok \in BOOLEAN /\ Wiping(s, o.s, Metadata) /\ (o.ok => Gone(o.s, Metadata))
      BY <2>1, DataIs, WipeByPathWipes
    <2>3. QED
      BY <2>2, WipingWorks DEF Gone
  <1>2. CASE Metadata \notin s.list
    <2>1. o.s = s /\ o.ok = FALSE
      BY <1>2, OutcomesAre DEF Wipe_Keys
    <2>2. QED
      BY <2>1, SteadyItself, SteadyWorks
  <1>3. QED
    BY <1>1, <1>2

(* Format Data: /data goes, then its folder comes back, then the keys go.  *)
LEMMA EncryptionGoes ==
  ASSUME NEW s \in Store, Served(s)
  PROVE  \A o \in Wipe_Encryption(s) :
            /\ o.ok \in BOOLEAN /\ Works(s, o.s)
            /\ o.ok => ~o.s.keys /\ o.s.media # "users"
  <1> SUFFICES ASSUME NEW o \in Wipe_Encryption(s)
               PROVE  /\ o.ok \in BOOLEAN /\ Works(s, o.s)
                      /\ o.ok => ~o.s.keys /\ o.s.media # "users"
    OBVIOUS
  <1> DEFINE f == Find_Actual_Block_Device(s, Data)
             Open == IF Data \in f.present THEN UnMount(f, Data) ELSE Fail(f)
             Bare(x) == [x EXCEPT !.hasMedia = FALSE, !.decrypted = FALSE, !.encrypted = FALSE]
             Back(x) == [x EXCEPT !.hasMedia = s.hasMedia]
             Folder(x) == IF ~s.hasMedia THEN Ok(Back(x))
                          ELSE IF IsFbe THEN Recreate_Media_Folder(Back(x))
                          ELSE {[m EXCEPT !.s = IF m.ok THEN Add_MTP_Storage(@, Data) ELSE @] :
                                  m \in Mount(Back(x), Data)}
             Failed(x) == {[s |-> IF m.ok THEN Add_MTP_Storage(m.s, Data) ELSE m.s, ok |-> FALSE] :
                             m \in Mount(Back(x), Data)}
             Wiped(w) == IF w.ok THEN UNION {Wipe_Keys(r.s) : r \in Folder(w.s)}
                         ELSE IF ~s.hasMedia THEN {w} ELSE Failed(w.s)
  <1>1. PICK q \in Open : o \in IF ~q.ok THEN {q} ELSE UNION {Wiped(w) : w \in Wipe(Bare(q.s), Data, Fstab[Data])}
    BY DEF Wipe_Encryption
  <1>2. Steady(s, f) /\ f \in Store /\ Served(f)
    BY FindSteady, DataIs DEF Steady
  <1> HIDE DEF f, Folder, Failed
  <1>3. /\ q.ok \in BOOLEAN /\ Steady(s, q.s) /\ q.s \in Store /\ Served(q.s)
        /\ q.ok => Data \notin q.s.served /\ ~Is_Mounted(q.s, Data)
    <2>1. CASE Data \in f.present
      BY <1>2, <2>1, DataIs, UnMountSteady, SteadyTrans DEF Steady
    <2>2. CASE Data \notin f.present
      BY <1>2, <2>2, OutcomesAre
    <2>3. QED
      BY <2>1, <2>2
  <1>4. CASE ~q.ok
    BY <1>1, <1>3, <1>4, SteadyWorks
  <1>5. CASE q.ok
    <2> DEFINE t == Bare(q.s)
    <2>1. t \in Store /\ t.hasMedia = FALSE /\ t.decrypted = FALSE
      BY <1>3 DEF Store
    <2>2. \A g \in {"mnt", "bind", "cur", "keys", "media", "disk", "inner", "mapper", "present",
              "plugged", "list", "mapped", "server", "served", "lun", "rmrf", "unsafe"} :
          t[g] = q.s[g]
      BY <1>3 DEF Store
    <2>3. PICK w \in Wipe(t, Data, Fstab[Data]) : o \in Wiped(w)
      BY <1>1, <1>5
    <2> HIDE DEF t, Wiped
    <2>4. Served(t) /\ Data \notin t.served /\ ~Is_Mounted(t, Data)
      BY <1>3, <1>5, <2>2 DEF Served, Is_Mounted
    <2>5. ~Spares(t, Data, Asked(Fstab[Data])) /\ Fstab[Data] \in FileSystems
      BY <2>1, DataIs, VolumeAssumption DEF Spares
    <2>6. /\ w.ok \in BOOLEAN /\ Wiping(t, w.s, Data)
          /\ IsFbe => w.s.served \subseteq t.served
          /\ w.ok => w.s.media = "none" /\ w.s.disk[Data] # "noise"
      BY <2>1, <2>3, <2>4, <2>5, DataIs, WipeWipes DEF Gone
    <2> DEFINE u == Back(w.s)
    <2>7. u \in Store /\ u.hasMedia = s.hasMedia
      BY <2>6 DEF Store, Wiping
    <2>8. \A g \in {"mnt", "bind", "cur", "keys", "media", "disk", "inner", "mapper", "present", "decrypted",
              "encrypted", "plugged", "list", "mapped", "server", "served", "lun", "rmrf", "unsafe"} :
          u[g] = w.s[g]
      BY <2>6 DEF Store, Wiping
    <2>9. /\ w.s.keys = s.keys /\ (s.media # "users" => w.s.media # "users")
          /\ w.s.disk[Data] = s.disk[Data] \/ w.s.disk[Data] # "noise"
          /\ w.s.unsafe = s.unsafe /\ (NoMifs(s) => NoMifs(w.s)) /\ Served(w.s) /\ w.s \in Store
      BY <1>3, <2>2, <2>4, <2>6, DataIs DEF Steady, Wiping, Same, Kept, Erases, NoMifs
    <2> HIDE DEF Bare
    <2>10. Works(s, u) /\ Served(u)
      BY <2>7, <2>8, <2>9 DEF Works, Served, Is_Mounted, KeysLast, NoMifs
    <2>11. IsFbe => Data \notin u.served
      BY <2>4, <2>6, <2>8
    <2>12. CASE w.ok
      <3>1. PICK r \in Folder(w.s) : o \in Wipe_Keys(r.s)
        BY <2>3, <2>12 DEF Wiped
      <3>2. u.media = "none" /\ u.disk[Data] # "noise"
        BY <2>6, <2>8, <2>12
      <3>3. Remade(u, r.s)
        <4>1. CASE ~s.hasMedia
          <5>1. r \in Ok(u)
            BY <3>1, <4>1 DEF Folder
          <5> HIDE DEF u
          <5>2. r.s = u
            BY <5>1, OutcomesAre
          <5>3. Steady(u, u)
            BY <2>7, SteadyItself
          <5>4. QED
            BY <2>10, <5>2, <5>3, SteadyRemade
        <4>2. CASE s.hasMedia /\ IsFbe
          <5>1. r \in Recreate_Media_Folder(u)
            BY <3>1, <4>2 DEF Folder
          <5> HIDE DEF u
          <5>2. QED
            BY <2>7, <2>10, <2>11, <4>2, <5>1, RecreateRemade
        <4>3. CASE s.hasMedia /\ ~IsFbe
          <5>1. PICK m \in Mount(u, Data) : r = [m EXCEPT !.s = IF m.ok THEN Add_MTP_Storage(@, Data) ELSE @]
            BY <3>1, <4>3 DEF Folder
          <5> HIDE DEF u
          <5>2. r.s = IF m.ok THEN Add_MTP_Storage(m.s, Data) ELSE m.s
            BY <5>1
          <5>3. Remade(u, m.s) /\ m.s \in Store /\ Served(m.s)
            BY <2>7, <2>10, DataIs, MountSteady, SteadyRemade DEF Remade
          <5>4. QED
            BY <5>2, <5>3, DataIs, AddRemade, RemadeTrans
        <4>4. QED
          BY <4>1, <4>2, <4>3
      <3> HIDE DEF u
      <3>4. r.s \in Store /\ Served(r.s) /\ r.s.disk[Data] # "noise" /\ r.s.media # "users" /\ Works(u, r.s)
        BY <3>2, <3>3, RemadeWorks DEF Remade
      <3>5. o.ok \in BOOLEAN /\ Works(r.s, o.s) /\ (o.ok => ~o.s.keys)
        BY <3>1, <3>4, KeysGo
      <3>6. QED
        BY <2>10, <3>4, <3>5, WorksTrans DEF Works
    <2>13. CASE ~w.ok /\ ~s.hasMedia
      <3>1. o = w
        BY <2>3, <2>13 DEF Wiped
      <3>2. w.s.hasMedia = s.hasMedia
        BY <2>1, <2>6, <2>13 DEF Wiping, Same, Store
      <3>3. Works(s, w.s)
        BY <2>9, <3>2 DEF Works, KeysLast
      <3>4. QED
        BY <2>6, <2>13, <3>1, <3>3
    <2>14. CASE ~w.ok /\ s.hasMedia
      <3>1. o \in Failed(w.s)
        BY <2>3, <2>14 DEF Wiped
      <3>2. PICK m \in Mount(u, Data) : o = [s |-> IF m.ok THEN Add_MTP_Storage(m.s, Data) ELSE m.s, ok |-> FALSE]
        BY <3>1 DEF Failed
      <3> HIDE DEF u
      <3>3. Remade(u, m.s) /\ m.s \in Store /\ Served(m.s)
        BY <2>7, <2>10, DataIs, MountSteady, SteadyRemade DEF Remade
      <3>4. Remade(u, o.s) /\ o.ok = FALSE
        BY <3>2, <3>3, DataIs, AddRemade, RemadeTrans
      <3>5. QED
        BY <2>10, <3>4, RemadeWorks, WorksTrans
    <2>15. QED
      BY <2>6, <2>12, <2>13, <2>14
  <1>6. QED
    BY <1>3, <1>4, <1>5
-----------------------------------------------------------------------------
(* The other tasks                                                         *)

LEMMA RepairSteady ==
  ASSUME NEW s \in Store, Served(s), NEW v \in Vols
  PROVE  \A o \in Repair(s, v) : o.ok \in BOOLEAN /\ Steady(s, o.s)
  <1> SUFFICES ASSUME NEW o \in Repair(s, v) PROVE o.ok \in BOOLEAN /\ Steady(s, o.s)
    OBVIOUS
  <1>1. PICK p \in UnMount(s, v) : o \in IF p.ok THEN Either(Find_Actual_Block_Device(p.s, v)) ELSE {p}
    BY DEF Repair
  <1>2. p.ok \in BOOLEAN /\ Steady(s, p.s) /\ p.s \in Store
    BY UnMountSteady DEF Steady
  <1>3. Steady(s, Find_Actual_Block_Device(p.s, v))
    BY <1>2, FindSteady, SteadyTrans
  <1>4. QED
    BY <1>1, <1>2, <1>3, OutcomesAre

LEMMA ResizeSteady ==
  ASSUME NEW s \in Store, Served(s), NEW v \in Vols
  PROVE  \A o \in Resize(s, v) : o.ok \in BOOLEAN /\ Steady(s, o.s)
  <1> SUFFICES ASSUME NEW o \in Resize(s, v) PROVE o.ok \in BOOLEAN /\ Steady(s, o.s)
    OBVIOUS
  <1> DEFINE Sized(p) == {[s |-> z.s, ok |-> r.ok] : z \in Update_Size(p.s, v), r \in Either(p.s)}
  <1>1. PICK p \in Repair(s, v) : o \in IF p.ok THEN Sized(p) ELSE {p}
    BY DEF Resize
  <1>2. p.ok \in BOOLEAN /\ Steady(s, p.s) /\ p.s \in Store /\ Served(p.s)
    BY RepairSteady DEF Steady
  <1>3. CASE ~p.ok
    BY <1>1, <1>2, <1>3
  <1>4. CASE p.ok
    <2>1. PICK z \in Update_Size(p.s, v), r \in Either(p.s) : o = [s |-> z.s, ok |-> r.ok]
      BY <1>1, <1>4
    <2>2. Steady(p.s, z.s) /\ r.ok \in BOOLEAN
      BY <1>2, SizeSteady, OutcomesAre
    <2>3. QED
      BY <1>2, <2>1, <2>2, SteadyTrans
  <1>5. QED
    BY <1>2, <1>3, <1>4

(* No storage is on a logical device. *)
LEMMA UnmapWorks ==
  ASSUME NEW s \in Store, Served(s), NEW v \in Vols
  PROVE  \A o \in Unmap_Super_Device(s, v) :
            o.ok \in BOOLEAN /\ Works(s, o.s) /\ o.s.media = s.media
  <1> SUFFICES ASSUME NEW o \in Unmap_Super_Device(s, v)
               PROVE  o.ok \in BOOLEAN /\ Works(s, o.s) /\ o.s.media = s.media
    OBVIOUS
  <1>1. PICK m \in {s.mapped \ {v}, s.mapped}, noCow \in BOOLEAN :
           o = [s |-> [s EXCEPT !.mnt = @ \ Super, !.list = @ \ {v}, !.present = @ \ {v}, !.mapped = m],
                ok |-> noCow]
    BY DEF Unmap_Super_Device
  <1> DEFINE u == o.s
  <1>2. u \in Store /\ u.mnt = s.mnt \ Super
    BY <1>1 DEF Store
  <1>3. \A f \in {"bind", "cur", "disk", "inner", "mapper", "media", "keys", "hasMedia", "decrypted",
              "encrypted", "plugged", "server", "served", "lun", "rmrf", "unsafe"} : u[f] = s[f]
    BY <1>1 DEF Store
  <1>4. o.ok \in BOOLEAN
    BY <1>1
  <1>5. s.served \subseteq Storage
    BY DEF Store
  <1> HIDE DEF u
  <1>6. Works(s, u)
    BY <1>2, <1>3, <1>5, VolumeAssumption DEF Works, Served, Is_Mounted, KeysLast, NoMifs
  <1>7. QED
    BY <1>3, <1>4, <1>6 DEF u

(* The server that starts, or is gone, has been told nothing. *)
LEMMA ServerWorks ==
  ASSUME NEW s \in Store, NEW on \in BOOLEAN
  PROVE  LET u == [s EXCEPT !.server = on, !.served = {}]
         IN u \in Store /\ Works(s, u) /\ u.media = s.media /\ u.served = {}
  <1> DEFINE u == [s EXCEPT !.server = on, !.served = {}]
  <1>1. u \in Store /\ u.served = {}
    BY DEF Store
  <1>2. \A f \in {"mnt", "bind", "cur", "disk", "inner", "media", "keys", "hasMedia", "unsafe"} : u[f] = s[f]
    BY DEF Store
  <1> HIDE DEF u
  <1>3. Works(s, u)
    BY <1>1, <1>2 DEF Works, Served, KeysLast, NoMifs
  <1>4. QED
    BY <1>1, <1>2, <1>3 DEF u

-----------------------------------------------------------------------------
(* A task                                                                  *)
Erasers == {"encryption", "internal", "change"}
Wipers == {"factory", "wipe", "change"}

(* What performing task t makes of s. *)
Done(s, t, o) ==
    /\ o.ok \in BOOLEAN /\ Works(s, o.s)
    /\ t.do = "encryption" /\ o.ok => ~o.s.keys /\ o.s.media # "users"
    /\ t.do \notin Erasers /\ s.hasMedia /\ NoMifs(s) => o.s.media = s.media

LEMMA SteadyDone ==
  ASSUME NEW s, NEW t, NEW o, Served(s), o.ok \in BOOLEAN, Steady(s, o.s), t.do # "encryption"
  PROVE  Done(s, t, o)
  BY SteadyWorks DEF Done, Steady, Kept

LEMMA Performs ==
  ASSUME NEW s \in Store, Served(s), NEW t \in Tasks, t.do # "pass",
         t.do \in Wipers => t.v # Metadata
  PROVE  \A o \in Perform(s, t) : Done(s, t, o)
  <1> SUFFICES ASSUME NEW o \in Perform(s, t) PROVE Done(s, t, o)
    OBVIOUS
  <1>1. t.do \in Whats \ {"pass"} /\ t.v \in Vols /\ t.fs \in FileSystems
    BY DEF Tasks
  <1> DEFINE v == t.v
  <1>2. CASE t.do = "factory"
    <2>1. o \in IF v \in s.present THEN Wipe(s, v, s.cur[v]) ELSE Ok(s)
      BY <1>2 DEF Perform
    <2>2. CASE v \in s.present
      <3>1. o \in Wipe(s, v, s.cur[v]) /\ s.cur[v] \in FileSystems
        BY <1>1, <2>1, <2>2 DEF Store
      <3>2. /\ o.ok \in BOOLEAN /\ Wiping(s, o.s, v)
            /\ Spares(s, v, Asked(s.cur[v])) => Kept(s, o.s)
        BY <1>1, <3>1, WipeWipes
      <3>3. v = Data /\ s.hasMedia /\ NoMifs(s) => Spares(s, v, Asked(s.cur[v]))
        BY DEF NoMifs, Spares, Asked
      <3>4. Works(s, o.s)
        BY <1>2, <3>2, WipingWorks DEF Wipers
      <3>5. QED
        BY <1>2, <3>2, <3>3, <3>4 DEF Done, Erasers, Wiping, Erases, Kept
    <2>3. CASE v \notin s.present
      <3>1. o \in Ok(s)
        BY <2>1, <2>3
      <3>2. o.s = s /\ o.ok = TRUE
        BY <3>1, OutcomesAre
      <3>3. QED
        BY <1>2, <3>2, SteadyItself, SteadyDone
    <2>4. QED
      BY <2>2, <2>3
  <1>3. CASE t.do = "wipe"
    <2>1. o \in Wipe_By_Path(s, v)
      BY <1>3 DEF Perform
    <2>2. /\ o.ok \in BOOLEAN /\ Wiping(s, o.s, v)
          /\ v = Data /\ s.hasMedia /\ NoMifs(s) => Kept(s, o.s)
      BY <1>1, <2>1, WipeByPathWipes
    <2>3. Works(s, o.s)
      BY <1>3, <2>2, WipingWorks DEF Wipers
    <2>4. QED
      BY <1>3, <2>2, <2>3 DEF Done, Erasers, Wiping, Erases, Kept
  <1>4. CASE t.do = "dalvik" \/ t.do = "mount"
    <2>1. PICK w \in Vols : o \in Mount(s, w)
      BY <1>1, <1>4, DataIs DEF Perform
    <2>2. QED
      BY <1>4, <2>1, MountSteady, SteadyDone
  <1>5. CASE t.do = "internal"
    <2>1. o \in Wipe_Media_From_Data(s)
      BY <1>5 DEF Perform
    <2>2. QED
      BY <1>5, <2>1, WipeMediaRemade, RemadeWorks DEF Done, Erasers
  <1>6. CASE t.do = "change"
    <2>1. o \in IF v \in s.list THEN Wipe(s, v, t.fs) ELSE Fail(s)
      BY <1>6 DEF Perform
    <2>2. o.ok \in BOOLEAN /\ Works(s, o.s)
      <3>1. CASE v \in s.list
        BY <1>1, <1>6, <2>1, <3>1, WipeWipes, WipingWorks DEF Wipers
      <3>2. CASE v \notin s.list
        <4>1. o \in Fail(s)
          BY <2>1, <3>2
        <4>2. o.s = s /\ o.ok = FALSE
          BY <4>1, OutcomesAre
        <4>3. QED
          BY <4>2, SteadyItself, SteadyWorks
      <3>3. QED
        BY <3>1, <3>2
    <2>3. QED
      BY <1>6, <2>2 DEF Done, Erasers
  <1>7. CASE t.do = "unmount"
    <2>1. o \in UnMount(s, v)
      BY <1>7 DEF Perform
    <2>2. QED
      BY <1>1, <1>7, <2>1, UnMountSteady, SteadyDone
  <1>8. CASE t.do = "unmap"
    <2>1. o \in Unmap_Super_Device(s, v)
      BY <1>8 DEF Perform
    <2>2. QED
      BY <1>1, <1>8, <2>1, UnmapWorks DEF Done
  <1>9. CASE t.do = "encryption"
    <2>1. o \in Wipe_Encryption(s)
      BY <1>9 DEF Perform
    <2>2. QED
      BY <1>9, <2>1, EncryptionGoes DEF Done, Erasers
  <1>10. CASE t.do = "repair"
    <2>1. o \in Repair(s, v)
      BY <1>10 DEF Perform
    <2>2. QED
      BY <1>1, <1>10, <2>1, RepairSteady, SteadyDone
  <1>11. CASE t.do = "resize"
    <2>1. o \in Resize(s, v)
      BY <1>11 DEF Perform
    <2>2. QED
      BY <1>1, <1>11, <2>1, ResizeSteady, SteadyDone
  <1>12. CASE t.do = "size"
    <2>1. o \in Update_Size(s, v)
      BY <1>12 DEF Perform
    <2>2. QED
      BY <1>1, <1>12, <2>1, SizeSteady, SteadyDone
  <1>13. CASE t.do = "share"
    <2>1. PICK q \in IF v \in s.present THEN Mount(s, v) ELSE Fail(s) :
             o = IF q.ok THEN [q EXCEPT !.s = Add_MTP_Storage(@, v)] ELSE q
      BY <1>13 DEF Perform
    <2>2. q.ok \in BOOLEAN /\ Steady(s, q.s) /\ q.s \in Store /\ Served(q.s)
      <3>1. CASE v \in s.present
        BY <1>1, <2>1, <3>1, MountSteady DEF Steady
      <3>2. CASE v \notin s.present
        <4>1. q \in Fail(s)
          BY <2>1, <3>2
        <4>2. q.s = s /\ q.ok = FALSE
          BY <4>1, OutcomesAre
        <4>3. QED
          BY <4>2, SteadyItself
      <3>3. QED
        BY <3>1, <3>2
    <2>3. CASE ~q.ok
      BY <1>13, <2>1, <2>2, <2>3, SteadyDone
    <2>4. CASE q.ok
      <3>1. q \in [s : {q.s}, ok : BOOLEAN]
        <4>1. CASE v \in s.present
          <5>1. q \in Mount(s, v)
            BY <2>1, <4>1
          <5>2. QED
            BY <2>2, <5>1 DEF Mount, Ok, Fail, Bind_Mount
        <4>2. CASE v \notin s.present
          <5>1. q \in Fail(s)
            BY <2>1, <4>2
          <5>2. q = [s |-> s, ok |-> FALSE]
            BY <5>1, Zenon DEF Fail
          <5>3. QED
            BY <5>2
        <4>3. QED
          BY <4>1, <4>2
      <3>2. o.s = Add_MTP_Storage(q.s, v) /\ o.ok = TRUE
        BY <2>1, <2>4, <3>1
      <3>3. Remade(q.s, o.s) /\ Kept(q.s, o.s)
        BY <1>1, <2>2, <3>2, AddRemade, AddServed
      <3>4. Works(s, o.s)
        BY <2>2, <3>3, SteadyWorks, RemadeWorks, WorksTrans
      <3>5. QED
        BY <1>13, <2>2, <3>2, <3>3, <3>4 DEF Done, Steady, Kept
    <2>5. QED
      BY <2>2, <2>3, <2>4
  <1>14. CASE t.do = "add"
    <2>1. o \in Ok(Add_MTP_Storage(s, v))
      BY <1>14 DEF Perform
    <2>2. o.s = Add_MTP_Storage(s, v) /\ o.ok = TRUE
      BY <2>1, OutcomesAre
    <2>3. Remade(s, o.s) /\ Kept(s, o.s)
      BY <1>1, <2>2, AddRemade, AddServed
    <2>4. Works(s, o.s)
      BY <2>3, RemadeWorks
    <2>5. QED
      BY <1>14, <2>2, <2>3, <2>4 DEF Done, Kept
  <1>15. CASE t.do = "usbconfig"
    <2>1. o \in Ok(s) \cup Fail([s EXCEPT !.server = FALSE, !.served = {}])
      BY <1>15 DEF Perform
    <2>2. CASE o \in Ok(s)
      <3>1. o.s = s /\ o.ok = TRUE
        BY <2>2, OutcomesAre
      <3>2. QED
        BY <1>15, <3>1, SteadyItself, SteadyDone
    <2>3. CASE o \in Fail([s EXCEPT !.server = FALSE, !.served = {}])
      <3>1. o.s = [s EXCEPT !.server = FALSE, !.served = {}] /\ o.ok = FALSE
        BY <2>3, OutcomesAre
      <3>2. Works(s, o.s) /\ o.s.media = s.media
        BY <3>1, ServerWorks
      <3>3. QED
        BY <1>15, <3>1, <3>2 DEF Done
    <2>4. QED
      BY <2>1, <2>2, <2>3
  <1>16. QED
    BY <1>1, <1>2, <1>3, <1>4, <1>5, <1>6, <1>7, <1>8, <1>9, <1>10, <1>11, <1>12, <1>13, <1>14,
       <1>15 DEF Whats

-----------------------------------------------------------------------------
(* The lists of tasks                                                      *)
Ons == {"all", "stop", "free", "skip"}

(* No wipe of a list is about /metadata: only Format Data erases it. *)
Proper(list) ==
    /\ list \in Seq(Tasks)
    /\ \A i \in 1..Len(list) : list[i].do \in Wipers => list[i].v # Metadata

(* Nothing in a list can end it before its "encryption" was tried ... *)
Gentle(list) ==
    \A i \in 1..Len(list) :
        list[i].on # "stop" /\ (list[i].on = "skip" => list[i].do \in {"unmap", "pass"})

(* ... whose failure is noted. *)
Formatter(t) == t.do = "encryption" /\ t.on = "all"
Formats(list) == \E i \in 1..Len(list) : Formatter(list[i])

LEMMA TaskIs ==
  ASSUME NEW what \in Whats, NEW v \in Vols, NEW on \in Ons
  PROVE  /\ Task(what, v, on) \in Tasks
         /\ Task(what, v, on).do = what /\ Task(what, v, on).v = v /\ Task(what, v, on).on = on
  BY VolumeAssumption DEF Task, Tasks, Ons

LEMMA OneProper ==
  ASSUME NEW t \in Tasks, t.do \in Wipers => t.v # Metadata
  PROVE  /\ Proper(<<t>>)
         /\ t.on \in {"all", "free"} => Gentle(<<t>>)
         /\ Formatter(t) => Formats(<<t>>)
  BY DEF Proper, Gentle, Formats

LEMMA NoneProper == Proper(<<>>) /\ Gentle(<<>>)
  BY DEF Proper, Gentle

LEMMA ForEachProper ==
  ASSUME NEW what \in Whats, NEW S, NEW on \in Ons, what \in Wipers => Metadata \notin S
  PROVE  /\ Proper(ForEach(what, S, on))
         /\ on \in {"all", "free"} \/ (on = "skip" /\ what = "unmap") => Gentle(ForEach(what, S, on))
  <1> DEFINE list == ForEach(what, S, on)
             E(i) == Task(IF Order[i] \in S THEN what ELSE "pass", Order[i], on)
  <1>1. Len(Order) \in Nat /\ \A i \in 1..Len(Order) : Order[i] \in Vols
    BY VolumesAssumption
  <1>2. list = [i \in 1..Len(Order) |-> E(i)]
    BY DEF ForEach
  <1>3. \A i \in 1..Len(Order) :
           /\ E(i) \in Tasks /\ E(i).on = on
           /\ E(i).do \in {what, "pass"} /\ (E(i).do \in Wipers => E(i).v # Metadata)
    <2> SUFFICES ASSUME NEW i \in 1..Len(Order)
                 PROVE  /\ E(i) \in Tasks /\ E(i).on = on
                        /\ E(i).do \in {what, "pass"} /\ (E(i).do \in Wipers => E(i).v # Metadata)
      OBVIOUS
    <2>1. Order[i] \in Vols
      BY <1>1
    <2>2. CASE Order[i] \in S
      <3>1. E(i) = Task(what, Order[i], on)
        BY <2>2
      <3>2. QED
        BY <2>1, <2>2, <3>1, TaskIs
    <2>3. CASE Order[i] \notin S
      <3>1. E(i) = Task("pass", Order[i], on)
        BY <2>3
      <3>2. "pass" \in Whats /\ "pass" \notin Wipers
        BY DEF Whats, Wipers
      <3>3. QED
        BY <2>1, <3>1, <3>2, TaskIs
    <2>4. QED
      BY <2>2, <2>3
  <1> HIDE DEF E
  <1>4. list \in Seq(Tasks) /\ Len(list) = Len(Order) /\ \A i \in 1..Len(Order) : list[i] = E(i)
    BY <1>1, <1>2, <1>3
  <1> HIDE DEF list
  <1>5. QED
    BY <1>3, <1>4 DEF list, Proper, Gentle

LEMMA ConcatProper ==
  ASSUME NEW a, NEW b, Proper(a), Proper(b)
  PROVE  /\ Proper(a \o b)
         /\ Gentle(a) /\ Gentle(b) => Gentle(a \o b)
         /\ Formats(a) \/ Formats(b) => Formats(a \o b)
  <1>1. a \in Seq(Tasks) /\ b \in Seq(Tasks)
    BY DEF Proper
  <1>2. /\ a \o b \in Seq(Tasks) /\ Len(a \o b) = Len(a) + Len(b)
        /\ Len(a) \in Nat /\ Len(b) \in Nat
        /\ \A i \in 1..Len(a) : (a \o b)[i] = a[i]
        /\ \A i \in 1..Len(b) : (a \o b)[Len(a) + i] = b[i]
    BY <1>1
  <1>3. \A i \in 1..Len(a \o b) :
          \/ i \in 1..Len(a)
          \/ i - Len(a) \in 1..Len(b) /\ (a \o b)[i] = b[i - Len(a)]
    BY <1>2
  <1>4. Proper(a \o b)
    BY <1>2, <1>3 DEF Proper
  <1>5. Gentle(a) /\ Gentle(b) => Gentle(a \o b)
    BY <1>2, <1>3 DEF Gentle
  <1>6. ASSUME NEW i \in 1..Len(a), Formatter(a[i])
        PROVE  Formats(a \o b)
    BY <1>2, <1>6 DEF Formats
  <1>7. ASSUME NEW i \in 1..Len(b), Formatter(b[i])
        PROVE  Formats(a \o b)
    <2>1. Len(a) + i \in 1..Len(a \o b) /\ Formatter((a \o b)[Len(a) + i])
      BY <1>2, <1>7
    <2>2. QED
      BY <2>1 DEF Formats
  <1>8. QED
    BY <1>4, <1>5, <1>6, <1>7 DEF Formats

(* What is left of a list from its k-th task on. *)
LEMMA DropProper ==
  ASSUME NEW list, Proper(list), NEW k \in 1..(Len(list) + 1)
  PROVE  LET l == SubSeq(list, k, Len(list))
         IN /\ Proper(l)
            /\ Gentle(list) => Gentle(l)
            /\ \A i \in k..Len(list) : Formatter(list[i]) => Formats(l)
            /\ l # <<>> => k \in 1..Len(list) /\ Head(l) = list[k]
  <1> DEFINE l == SubSeq(list, k, Len(list))
  <1>1. list \in Seq(Tasks) /\ Len(list) \in Nat
    BY DEF Proper
  <1>2. /\ l \in Seq(Tasks) /\ Len(l) = Len(list) - k + 1
        /\ \A i \in 1..Len(l) : l[i] = list[i + k - 1] /\ i + k - 1 \in 1..Len(list)
    BY <1>1
  <1> HIDE DEF l
  <1>3. Proper(l)
    BY <1>2 DEF Proper
  <1>4. Gentle(list) => Gentle(l)
    BY <1>2 DEF Gentle
  <1>5. ASSUME NEW i \in k..Len(list), Formatter(list[i])
        PROVE  Formats(l)
    <2>1. i - k + 1 \in 1..Len(l) /\ (i - k + 1) + k - 1 = i
      BY <1>1, <1>2
    <2>2. l[i - k + 1] = list[i]
      BY <1>2, <2>1
    <2>3. QED
      BY <1>5, <2>1, <2>2 DEF Formats
  <1>6. l # <<>> => k \in 1..Len(list) /\ Head(l) = list[k]
    <2>1. l # <<>> => Len(l) # 0 /\ Head(l) = l[1]
      BY <1>2
    <2>2. QED
      BY <1>1, <1>2, <2>1
  <1>7. QED
    BY <1>3, <1>4, <1>5, <1>6 DEF l

LEMMA LeftProper ==
  ASSUME NEW list, Proper(list)
  PROVE  \A l \in Left(list, Passes) :
            /\ Proper(l) /\ (l # <<>> => Head(l).do # "pass")
            /\ Gentle(list) => Gentle(l)
            /\ Formats(list) => Formats(l)
  <1> SUFFICES ASSUME NEW l \in Left(list, Passes)
               PROVE  /\ Proper(l) /\ (l # <<>> => Head(l).do # "pass")
                      /\ Gentle(list) => Gentle(l)
                      /\ Formats(list) => Formats(l)
    OBVIOUS
  <1>1. PICK k \in 1..(Len(list) + 1) :
           /\ l = SubSeq(list, k, Len(list))
           /\ \A i \in 1..(k - 1) : list[i].do = "pass"
           /\ k <= Len(list) => list[k].do # "pass"
    BY DEF Left, Passes
  <1>2. /\ Proper(l) /\ (Gentle(list) => Gentle(l))
        /\ \A i \in k..Len(list) : Formatter(list[i]) => Formats(l)
        /\ l # <<>> => k \in 1..Len(list) /\ Head(l) = list[k]
    BY <1>1, DropProper
  <1>3. Formats(list) => Formats(l)
    <2>1. SUFFICES ASSUME NEW i \in 1..Len(list), Formatter(list[i])
                   PROVE  Formats(l)
      BY DEF Formats
    <2>2. i \notin 1..(k - 1)
      BY <1>1, <2>1 DEF Formatter
    <2>3. Len(list) \in Nat
      BY DEF Proper
    <2>4. i \in k..Len(list)
      BY <2>2, <2>3
    <2>5. QED
      BY <1>2, <2>1, <2>4
  <1>4. QED
    BY <1>1, <1>2, <1>3

(* The rest of a list that began with a task of its own. *)
LEMMA RestProper ==
  ASSUME Proper(todo), todo # <<>>, NEW done \in BOOLEAN
  PROVE  \A l \in Rest(Head(todo), done) :
            /\ Proper(l) /\ (l # <<>> => Head(l).do # "pass")
            /\ Gentle(todo) => Gentle(l)
            /\ Gentle(todo) /\ Head(todo).do # "pass" /\ Formats(todo) /\ ~Formatter(Head(todo)) => Formats(l)
  <1> SUFFICES ASSUME NEW l \in Rest(Head(todo), done)
               PROVE  /\ Proper(l) /\ (l # <<>> => Head(l).do # "pass")
                      /\ Gentle(todo) => Gentle(l)
                      /\ Gentle(todo) /\ Head(todo).do # "pass" /\ Formats(todo) /\ ~Formatter(Head(todo)) => Formats(l)
    OBVIOUS
  <1> DEFINE t == Head(todo)
             list == Tail(todo)
             Over(u) == \/ Passes(u)
                        \/ ~done /\ t.on = "stop" /\ u.on # "free"
                        \/ ~done /\ t.on = "skip" /\ u.do = t.do
  <1>1. /\ todo \in Seq(Tasks) /\ Len(todo) \in Nat \ {0} /\ t = todo[1]
        /\ list \in Seq(Tasks) /\ Len(list) = Len(todo) - 1
        /\ \A i \in 1..Len(list) : list[i] = todo[i + 1] /\ i + 1 \in 1..Len(todo)
    BY DEF Proper
  <1>2. PICK k \in 1..(Len(list) + 1) :
           /\ l = SubSeq(list, k, Len(list))
           /\ \A i \in 1..(k - 1) : Over(list[i])
           /\ k <= Len(list) => ~Over(list[k])
    BY DEF Rest, Left
  <1> HIDE DEF t, list, Over
  <1>3. Proper(list) /\ (Gentle(todo) => Gentle(list))
    BY <1>1 DEF Proper, Gentle
  <1>4. /\ Proper(l) /\ (Gentle(list) => Gentle(l))
        /\ \A i \in k..Len(list) : Formatter(list[i]) => Formats(l)
        /\ l # <<>> => k \in 1..Len(list) /\ Head(l) = list[k]
    BY <1>2, <1>3, DropProper
  <1>5. l # <<>> => Head(l).do # "pass"
    BY <1>1, <1>2, <1>4 DEF Over, Passes
  <1>6. ASSUME Gentle(todo), t.do # "pass", Formats(todo), ~Formatter(t)
        PROVE  Formats(l)
    <2>1. PICK j \in 1..Len(todo) : Formatter(todo[j])
      BY <1>6 DEF Formats
    <2>2. j # 1
      BY <1>1, <1>6, <2>1
    <2>3. j - 1 \in 1..Len(list) /\ list[j - 1] = todo[j]
      BY <1>1, <2>2
    <2>4. t.on # "stop" /\ (t.on = "skip" => t.do = "unmap")
      BY <1>1, <1>6 DEF Gentle
    <2>5. ~Over(list[j - 1])
      BY <2>1, <2>3, <2>4 DEF Over, Passes, Formatter
    <2>6. j - 1 \notin 1..(k - 1)
      BY <1>2, <2>5
    <2>7. j - 1 \in k..Len(list)
      BY <1>1, <2>3, <2>6
    <2>8. QED
      BY <1>4, <2>1, <2>3, <2>7
  <1>7. QED
    BY <1>3, <1>4, <1>5, <1>6 DEF t

-----------------------------------------------------------------------------
(* The inductive invariant                                                 *)

Sound(s) == Served(s) /\ KeysLast(s) /\ ~s.unsafe /\ s.hasMedia

Formatted(s) == ~s.keys /\ s.media # "users"

(* A list that runs is proper, and shows the task that is next. *)
Listed == Proper(todo) /\ (todo # <<>> => Head(todo).do # "pass")

(* What is exported is unmounted, and nothing runs that could mount it. *)
Sharing == ums => todo = <<>> /\ UsbExclusive

(* A format that has not failed has worked, or is yet to be tried. *)
Formatting ==
    format => Gentle(todo) /\ (ok => Formatted(st) \/ Formats(todo))

(* No f2fs named mifs comes up where /data is none. *)
Named == Fstab[Data] # "mifs" => NoMifs(st)

VolumesInv == TypeOK /\ Sound(st) /\ Listed /\ Sharing /\ Formatting /\ Named

(* What a step other than a task leaves of the user's files. *)
Spared == st'.media = st.media

LEMMA InitInv == Init => VolumesInv
  <1> SUFFICES ASSUME Init PROVE VolumesInv
    OBVIOUS
  <1> DEFINE D(first) == [v \in Vols |-> IF v = Data THEN first ELSE Fstab[v]]
  <1>1. /\ format = FALSE /\ todo = <<>> /\ ok = TRUE
        /\ ums = FALSE /\ mtpWas = FALSE /\ current = Data /\ ops = 0
    BY DEF Init
  <1>2. \A first \in {"noise", "f2fs"} :
          D(first) \in [Vols -> FileSystems \cup {"noise"}] /\ D(first)[Data] = first
    BY VolumeAssumption DEF FileSystems
  <1>3. /\ st \in [mnt : {{}}, bind : {FALSE}, cur : {Fstab}, disk : {D("noise"), D("f2fs")},
                   inner : {"f2fs"}, mapper : {FALSE}, media : {"users"}, keys : {TRUE},
                   hasMedia : {TRUE}, decrypted : {FALSE}, encrypted : {TRUE},
                   present : {Vols \ Removable}, plugged : {{}}, list : {Vols}, mapped : {Super},
                   server : {FALSE}, served : {{}}, lun : {{}}, rmrf : BOOLEAN, unsafe : {FALSE}]
    BY DEF Init
  <1> HIDE DEF D
  <1>4. st \in Store
    <2>1. /\ Fstab \in [Vols -> FileSystems] /\ "f2fs" \in FileSystems
          /\ {D("noise"), D("f2fs")} \subseteq [Vols -> FileSystems \cup {"noise"}]
      BY <1>2, VolumeAssumption DEF FileSystems
    <2>2. QED
      BY <1>3, <2>1 DEF Store
  <1>5. TypeOK
    <2>1. todo \in Seq(Tasks) /\ 0 \in 0..MaxOps
      BY <1>1, NoneProper, VolumesAssumption DEF Proper
    <2>2. QED
      BY <1>1, <1>4, <2>1, DataIs DEF TypeOK
  <1>6. Sound(st)
    BY <1>3 DEF Sound, Served, KeysLast
  <1>7. Named
    BY <1>2, <1>3 DEF Named, NoMifs
  <1>8. QED
    BY <1>1, <1>5, <1>6, <1>7, NoneProper DEF VolumesInv, Listed, Sharing, Formatting

(* What the device may become between the lists. *)
LEMMA WorksSound ==
  ASSUME NEW s, NEW u, Sound(s), Works(s, u)
  PROVE  Sound(u) /\ (Formatted(s) => Formatted(u))
  BY DEF Sound, Works, Formatted

LEMMA RunTaskInv ==
  ASSUME VolumesInv, RunTask
  PROVE  VolumesInv' /\ (Fstab[Data] # "mifs" /\ Head(todo).do \notin Erasers => Spared)
  <1> DEFINE t == Head(todo)
  <1>1. PICK o \in Perform(st, t) :
          /\ st' = o.s
          /\ ok' = (ok /\ (o.ok \/ t.on \in {"free", "skip"}))
          /\ todo' \in Rest(t, o.ok)
    BY DEF RunTask
  <1>2. /\ todo \in Seq(Tasks) /\ todo # <<>> /\ t.do # "pass" /\ Proper(todo)
        /\ st \in Store /\ Served(st) /\ Sound(st)
    BY DEF RunTask, VolumesInv, TypeOK, Sound, Listed
  <1>3. t \in Tasks /\ (t.do \in Wipers => t.v # Metadata) /\ t = todo[1] /\ 1 \in 1..Len(todo)
    BY <1>2 DEF Proper
  <1> HIDE DEF t
  <1>4. o.ok \in BOOLEAN /\ Works(st, o.s) /\ Done(st, t, o)
    BY <1>1, <1>2, <1>3, Performs DEF t, Done
  <1>5. Sound(st') /\ (Formatted(st) => Formatted(st')) /\ st' \in Store
    BY <1>1, <1>2, <1>4, WorksSound DEF Works
  <1>6. /\ Proper(todo') /\ (todo' # <<>> => Head(todo').do # "pass")
        /\ Gentle(todo) => Gentle(todo')
        /\ Gentle(todo) /\ Formats(todo) /\ ~Formatter(t) => Formats(todo')
    BY <1>1, <1>2, <1>4, RestProper DEF t
  <1>7. UNCHANGED <<format, ums, mtpWas, current, ops>>
    BY DEF RunTask, modes
  <1>8. ~ums
    BY <1>2 DEF VolumesInv, Sharing
  <1>9. TypeOK'
    BY <1>1, <1>4, <1>5, <1>6, <1>7 DEF VolumesInv, TypeOK, Proper
  <1>10. Formatting'
    <2> SUFFICES ASSUME format' PROVE Gentle(todo') /\ (ok' => Formatted(st') \/ Formats(todo'))
      BY DEF Formatting
    <2>1. Gentle(todo) /\ (ok => Formatted(st) \/ Formats(todo))
      BY <1>7 DEF VolumesInv, Formatting
    <2>2. CASE ~Formatter(t)
      BY <1>1, <1>4, <1>5, <1>6, <2>1, <2>2 DEF VolumesInv, TypeOK
    <2>3. CASE Formatter(t)
      <3>1. ok' => o.ok
        BY <1>1, <1>4, <2>3 DEF Formatter
      <3>2. o.ok => Formatted(st')
        BY <1>1, <1>4, <2>3 DEF Done, Formatter, Formatted
      <3>3. QED
        BY <1>6, <2>1, <3>1, <3>2
    <2>4. QED
      BY <2>2, <2>3
  <1>11. Named'
    BY <1>1, <1>4 DEF VolumesInv, Named, Works
  <1>12. Fstab[Data] # "mifs" /\ t.do \notin Erasers => Spared
    BY <1>1, <1>2, <1>4 DEF VolumesInv, Named, Done, Sound, Spared
  <1>13. QED
    BY <1>5, <1>6, <1>7, <1>8, <1>9, <1>10, <1>11, <1>12 DEF VolumesInv, Listed, Sharing, t

(* An operation that starts with a list. *)
LEMMA BeginsInv ==
  ASSUME VolumesInv, NEW tasks, Proper(tasks), NEW formats \in BOOLEAN,
         formats => Gentle(tasks) /\ Formats(tasks), Begins(tasks, formats)
  PROVE  VolumesInv' /\ Spared
  <1>1. /\ ~ums /\ ops < MaxOps /\ format' = formats /\ todo' \in Left(tasks, Passes)
        /\ ok' = TRUE /\ ops' = ops + 1 /\ UNCHANGED <<st, ums, mtpWas, current>>
    BY DEF Begins, Idle, modes
  <1>2. /\ Proper(todo') /\ (todo' # <<>> => Head(todo').do # "pass")
        /\ Gentle(tasks) => Gentle(todo')
        /\ Formats(tasks) => Formats(todo')
    BY <1>1, LeftProper
  <1>3. TypeOK'
    BY <1>1, <1>2, VolumesAssumption DEF VolumesInv, TypeOK, Proper
  <1>4. QED
    BY <1>1, <1>2, <1>3 DEF VolumesInv, Sound, Listed, Sharing, Formatting, Named, Spared

LEMMA UpdateProper ==
  ASSUME TypeOK
  PROVE  Proper(Update_System_Details) /\ Gentle(Update_System_Details)
  <1>1. "size" \in Whats \ Wipers /\ "mount" \in Whats \ Wipers /\ "free" \in Ons
    BY DEF Whats, Wipers, Ons
  <1>2. current \in Vols
    BY VolumeAssumption DEF TypeOK
  <1>3. Proper(ForEach("size", Vols, "free")) /\ Gentle(ForEach("size", Vols, "free"))
    BY <1>1, ForEachProper
  <1>4. Proper(<<Task("mount", current, "free")>>) /\ Gentle(<<Task("mount", current, "free")>>)
    BY <1>1, <1>2, TaskIs, OneProper
  <1>5. QED
    BY <1>3, <1>4, ConcatProper DEF Update_System_Details

(* One task that wipes nothing. *)
LEMMA PlainProper ==
  ASSUME NEW what \in Whats \ Wipers, NEW v \in Vols, NEW on \in Ons
  PROVE  Proper(<<Task(what, v, on)>>) /\ (on \in {"all", "free"} => Gentle(<<Task(what, v, on)>>))
  BY TaskIs, OneProper

LEMMA FormatProper ==
  Proper(Format_Data) /\ Gentle(Format_Data) /\ Formats(Format_Data)
  <1> DEFINE a == <<Task("unmount", Metadata, "free")>>
             m == <<Task("mount", Metadata, "free")>>
             u == ForEach("unmap", Super, "skip")
             b == IF VirtualAb THEN m \o u ELSE <<>>
             e == <<Task("encryption", Data, "all")>>
  <1>1. /\ {"unmount", "mount", "unmap", "encryption"} \subseteq Whats \ Wipers
        /\ "free" \in Ons /\ "skip" \in Ons /\ "all" \in Ons
    BY DEF Whats, Wipers, Ons
  <1>2. Proper(a) /\ Gentle(a) /\ Proper(m) /\ Gentle(m)
    BY <1>1, DataIs, PlainProper
  <1>3. Proper(u) /\ Gentle(u)
    BY <1>1, ForEachProper
  <1>4. Proper(e) /\ Gentle(e) /\ Formats(e)
    BY <1>1, DataIs, TaskIs, OneProper DEF Formatter
  <1> HIDE DEF a, m, u, e
  <1>5. Proper(b) /\ Gentle(b)
    BY <1>2, <1>3, NoneProper, ConcatProper
  <1>6. Format_Data = (a \o b) \o e
    BY DEF Format_Data, a, m, u, e
  <1> HIDE DEF b
  <1>7. Proper(a \o b) /\ Gentle(a \o b)
    BY <1>2, <1>5, ConcatProper
  <1>8. QED
    BY <1>4, <1>6, <1>7, ConcatProper

LEMMA ServerProper == Proper(StartServer)
  <1>1. "share" \in Whats \ Wipers /\ "usbconfig" \in Whats \ Wipers /\ "free" \in Ons /\ "all" \in Ons
    BY DEF Whats, Wipers, Ons
  <1>2. Proper(ForEach("share", Storage, "free"))
    BY <1>1, ForEachProper
  <1>3. Proper(<<Task("usbconfig", Data, "all")>>)
    BY <1>1, DataIs, PlainProper
  <1>4. QED
    BY <1>2, <1>3, ConcatProper DEF StartServer, Add_All_MTP_Storage

-----------------------------------------------------------------------------
(* What the user starts: lists                                             *)

LEMMA FactoryResetInv == ASSUME VolumesInv, Factory_Reset PROVE VolumesInv' /\ Spared
  <1>1. "factory" \in Whats /\ "all" \in Ons /\ Metadata \notin FactoryVols
    BY VolumesAssumption DEF Whats, Ons
  <1>2. Proper(ForEach("factory", FactoryVols, "all"))
    BY <1>1, ForEachProper
  <1>3. Proper(ForEach("factory", FactoryVols, "all") \o Update_System_Details)
    BY <1>2, UpdateProper, ConcatProper DEF VolumesInv
  <1>4. QED
    BY <1>3, BeginsInv DEF Factory_Reset, Start

LEMMA WipeListInv == ASSUME VolumesInv, WipeList PROVE VolumesInv' /\ Spared
  <1> DEFINE a(S) == ForEach("wipe", S, "stop")
             b(d) == IF d THEN <<Task("dalvik", Data, "stop")>> ELSE <<>>
             c(i) == IF i THEN <<Task("internal", Data, "stop")>> ELSE <<>>
  <1>1. PICK S \in SUBSET GuiVols, d \in BOOLEAN, i \in BOOLEAN :
           Begins(((a(S) \o b(d)) \o c(i)) \o Update_System_Details, FALSE)
    BY DEF WipeList, Start
  <1>2. /\ "wipe" \in Whats /\ {"dalvik", "internal"} \subseteq Whats \ Wipers /\ "stop" \in Ons
        /\ Metadata \notin S
    BY VolumesAssumption DEF Whats, Wipers, Ons
  <1>3. Proper(a(S))
    BY <1>2, ForEachProper
  <1>4. Proper(b(d)) /\ Proper(c(i))
    BY <1>2, DataIs, PlainProper, NoneProper
  <1> HIDE DEF a, b, c
  <1>5. Proper(((a(S) \o b(d)) \o c(i)) \o Update_System_Details)
    BY <1>3, <1>4, UpdateProper, ConcatProper DEF VolumesInv
  <1>6. QED
    BY <1>1, <1>5, BeginsInv

LEMMA FormatDataInv == ASSUME VolumesInv, WipeDataMedia PROVE VolumesInv' /\ Spared
  <1>1. LET tasks == Format_Data \o Update_System_Details
        IN Proper(tasks) /\ Gentle(tasks) /\ Formats(tasks)
    BY FormatProper, UpdateProper, ConcatProper DEF VolumesInv
  <1>2. QED
    BY <1>1, BeginsInv DEF WipeDataMedia

LEMMA ChangeInv == ASSUME VolumesInv, ChangeFileSystem PROVE VolumesInv' /\ Spared
  <1>1. PICK v \in GuiVols, fs \in ChangeTo :
           Begins(<<[Task("change", v, "all") EXCEPT !.fs = fs]>> \o Update_System_Details, FALSE)
    BY DEF ChangeFileSystem, Start
  <1> DEFINE t == [Task("change", v, "all") EXCEPT !.fs = fs]
  <1>2. v \in Vols /\ v # Metadata /\ fs \in FileSystems
    BY VolumesAssumption
  <1>3. t \in Tasks /\ t.v = v
    BY <1>2 DEF Task, Tasks, Whats
  <1> HIDE DEF t
  <1>4. Proper(<<t>>)
    BY <1>2, <1>3, OneProper
  <1>5. Proper(<<t>> \o Update_System_Details)
    BY <1>4, UpdateProper, ConcatProper DEF VolumesInv
  <1>6. QED
    BY <1>1, <1>5, BeginsInv DEF t

LEMMA RepairInv == ASSUME VolumesInv, RepairOrResize PROVE VolumesInv' /\ Spared
  <1>1. PICK v \in GuiVols, what \in {"repair", "resize"} : Begins(<<Task(what, v, "all")>>, FALSE)
    BY DEF RepairOrResize, Start
  <1>2. v \in Vols /\ what \in Whats \ Wipers /\ "all" \in Ons
    BY VolumesAssumption DEF Whats, Wipers, Ons
  <1>3. Proper(<<Task(what, v, "all")>>)
    BY <1>2, PlainProper
  <1>4. QED
    BY <1>1, <1>3, BeginsInv

LEMMA MountVolumeInv == ASSUME VolumesInv, MountVolume PROVE VolumesInv' /\ Spared
  <1>1. PICK v \in st.list : Begins(<<Task("mount", v, "all"), Task("add", v, "free")>>, FALSE)
    BY DEF MountVolume, Start
  <1>2. v \in Vols /\ {"mount", "add"} \subseteq Whats \ Wipers /\ "all" \in Ons /\ "free" \in Ons
    BY DEF VolumesInv, TypeOK, Store, Whats, Wipers, Ons
  <1> DEFINE a == Task("mount", v, "all")
             b == Task("add", v, "free")
  <1>3. a \in Tasks /\ a.do \notin Wipers /\ b \in Tasks /\ b.do \notin Wipers
    BY <1>2, TaskIs
  <1> HIDE DEF a, b
  <1>4. Proper(<<a, b>>)
    BY <1>3 DEF Proper
  <1>5. QED
    BY <1>1, <1>4, BeginsInv DEF a, b

LEMMA UnMountVolumeInv == ASSUME VolumesInv, UnMountVolume PROVE VolumesInv' /\ Spared
  <1>1. PICK v \in st.list : Begins(<<Task("unmount", v, "all")>>, FALSE)
    BY DEF UnMountVolume, Start
  <1>2. v \in Vols /\ "unmount" \in Whats \ Wipers /\ "all" \in Ons
    BY DEF VolumesInv, TypeOK, Store, Whats, Wipers, Ons
  <1>3. Proper(<<Task("unmount", v, "all")>>)
    BY <1>2, PlainProper
  <1>4. QED
    BY <1>1, <1>3, BeginsInv

LEMMA UnmapInv == ASSUME VolumesInv, Unmap_Super_Devices PROVE VolumesInv' /\ Spared
  <1>1. "unmap" \in Whats \ Wipers /\ "stop" \in Ons
    BY DEF Whats, Wipers, Ons
  <1>2. Proper(ForEach("unmap", Super, "stop"))
    BY <1>1, ForEachProper
  <1>3. QED
    BY <1>2, BeginsInv DEF Unmap_Super_Devices, Start

-----------------------------------------------------------------------------
(* What the user starts: the MTP server and USB storage                    *)

(* An action on the device that leaves a list to run, or none. *)
LEMMA DeviceInv ==
  ASSUME VolumesInv, Works(st, st'), st'.media = st.media,
         Proper(todo'), todo' # <<>> => Head(todo').do # "pass",
         format' = FALSE, ok' \in BOOLEAN, ums' \in BOOLEAN, Sharing', mtpWas' \in BOOLEAN,
         current' \in Storage, ops' \in 0..MaxOps
  PROVE  VolumesInv' /\ Spared
  <1>1. st' \in Store /\ Sound(st')
    BY WorksSound DEF VolumesInv, Works
  <1>2. TypeOK'
    BY <1>1 DEF TypeOK, Proper
  <1>3. Named'
    BY DEF VolumesInv, Named, Works
  <1>4. QED
    BY <1>1, <1>2, <1>3 DEF VolumesInv, Listed, Formatting, Spared

LEMMA WorksItself == ASSUME VolumesInv PROVE Works(st, st)
  BY SteadyItself, SteadyWorks DEF VolumesInv, TypeOK, Sound

LEMMA OpsType == ASSUME VolumesInv PROVE ops \in 0..MaxOps /\ (Idle => ops + 1 \in 0..MaxOps)
  BY VolumesAssumption DEF VolumesInv, TypeOK, Idle

LEMMA EnableMtpInv == ASSUME VolumesInv, Enable_MTP PROVE VolumesInv' /\ Spared
  <1>1. /\ todo = <<>> /\ ~ums /\ format' = FALSE /\ ok' = TRUE /\ ops' \in 0..MaxOps
        /\ UNCHANGED <<ums, mtpWas, current>>
    BY OpsType DEF Enable_MTP, modes, Idle
  <1>2. ums' \in BOOLEAN /\ Sharing' /\ mtpWas' \in BOOLEAN /\ current' \in Storage
    BY <1>1 DEF VolumesInv, TypeOK, Sharing
  <1>3. CASE st.server
    <2>1. UNCHANGED <<st, todo>>
      BY <1>3 DEF Enable_MTP
    <2>2. Works(st, st') /\ st'.media = st.media
      BY <2>1, WorksItself
    <2>3. QED
      BY <1>1, <1>2, <2>1, <2>2, NoneProper, DeviceInv
  <1>4. CASE ~st.server
    <2>1. st' = [st EXCEPT !.server = TRUE, !.served = {}] /\ todo' \in Left(StartServer, Passes)
      BY <1>4 DEF Enable_MTP
    <2>2. Works(st, st') /\ st'.media = st.media
      BY <2>1, ServerWorks DEF VolumesInv, TypeOK
    <2>3. Proper(todo') /\ (todo' # <<>> => Head(todo').do # "pass")
      BY <2>1, ServerProper, LeftProper
    <2>4. QED
      BY <1>1, <1>2, <2>2, <2>3, DeviceInv
  <1>5. QED
    BY <1>3, <1>4

LEMMA StopMtpInv == ASSUME VolumesInv, StopMtp PROVE VolumesInv' /\ Spared
  <1>1. /\ st' = [st EXCEPT !.server = FALSE, !.served = {}] /\ todo = <<>> /\ ~ums
        /\ UNCHANGED <<format, todo, ok, ums, mtpWas, current, ops>>
    BY DEF StopMtp, Disable_MTP, modes, Idle
  <1>2. st' \in Store /\ Works(st, st') /\ st'.media = st.media
    BY <1>1, ServerWorks DEF VolumesInv, TypeOK
  <1>3. Sound(st') /\ (Formatted(st) => Formatted(st'))
    BY <1>2, WorksSound DEF VolumesInv
  <1>4. Named'
    BY <1>2 DEF VolumesInv, Named, Works
  <1>5. QED
    BY <1>1, <1>2, <1>3, <1>4 DEF VolumesInv, TypeOK, Listed, Sharing, Formatting, Spared

(* A storage is on no logical device, so that the build unmounts it. *)
LEMMA OpenLunSteady ==
  ASSUME NEW s \in Store, Served(s), NEW v \in Storage
  PROVE  \A o \in Open_Lun_File(s, v) :
            /\ o.ok \in BOOLEAN /\ o.s \in Store /\ Works(s, o.s) /\ o.s.media = s.media
            /\ o.s.server = s.server /\ o.s.served \subseteq s.served
            /\ o.ok => \A w \in o.s.lun : ~Is_Mounted(o.s, w)
  <1> SUFFICES ASSUME NEW o \in Open_Lun_File(s, v)
               PROVE  /\ o.ok \in BOOLEAN /\ o.s \in Store /\ Works(s, o.s) /\ o.s.media = s.media
                      /\ o.s.server = s.server /\ o.s.served \subseteq s.served
                      /\ o.ok => \A w \in o.s.lun : ~Is_Mounted(o.s, w)
    OBVIOUS
  <1>1. PICK q \in UnMount(s, v) :
           o \in IF q.ok /\ v \in q.s.present THEN Ok([q.s EXCEPT !.lun = {v}]) \cup Fail(q.s) ELSE Fail(q.s)
    BY DEF Open_Lun_File
  <1>2. v \in Vols /\ ~NeverUnmounted(v)
    BY VolumeAssumption DEF NeverUnmounted
  <1>3. /\ q.ok \in BOOLEAN /\ Steady(s, q.s) /\ q.s \in Store /\ Served(q.s)
        /\ q.ok => ~Is_Mounted(q.s, v)
    BY <1>2, UnMountSteady DEF Steady
  <1> DEFINE u == [q.s EXCEPT !.lun = {v}]
  <1>4. u \in Store /\ u.lun = {v}
    BY <1>2, <1>3 DEF Store
  <1>5. \A f \in {"mnt", "bind", "cur", "disk", "inner", "media", "keys", "hasMedia", "server", "served", "unsafe"} :
           u[f] = q.s[f]
    BY <1>3 DEF Store
  <1>6. \/ q.ok /\ o \in Ok(u)
        \/ o \in Fail(q.s)
    BY <1>1
  <1> HIDE DEF u
  <1>7. Works(q.s, u) /\ (q.ok => ~Is_Mounted(u, v))
    BY <1>3, <1>4, <1>5 DEF Works, Served, Is_Mounted, KeysLast, NoMifs
  <1>8. Works(s, q.s) /\ Works(s, u)
    BY <1>3, <1>7, SteadyWorks, WorksTrans
  <1>9. CASE q.ok /\ o \in Ok(u)
    <2>1. o.s = u /\ o.ok = TRUE
      BY <1>9, OutcomesAre
    <2>2. QED
      BY <1>3, <1>4, <1>5, <1>7, <1>8, <1>9, <2>1 DEF Steady, Same, Kept
  <1>10. CASE o \in Fail(q.s)
    <2>1. o.s = q.s /\ o.ok = FALSE
      BY <1>10, OutcomesAre
    <2>2. QED
      BY <1>3, <1>8, <2>1 DEF Steady, Same, Kept
  <1>11. QED
    BY <1>6, <1>9, <1>10

LEMMA UsbEnableInv == ASSUME VolumesInv, usb_storage_enable PROVE VolumesInv' /\ Spared
  <1> DEFINE d == [st EXCEPT !.server = FALSE, !.served = {}]
  <1>1. /\ todo = <<>> /\ ~ums /\ format' = FALSE /\ ok' = TRUE /\ mtpWas' = st.server
        /\ ops' \in 0..MaxOps /\ current' = current
    BY OpsType DEF usb_storage_enable, Idle
  <1>2. PICK o \in Exported(d) :
          IF o.ok
          THEN st' = o.s /\ ums' = TRUE /\ todo' = <<>>
          ELSE /\ st' = [o.s EXCEPT !.server = st.server]
               /\ todo' \in IF st.server THEN Left(StartServer, Passes) ELSE {<<>>}
               /\ UNCHANGED ums
    BY DEF usb_storage_enable, Disable_MTP
  <1>3. /\ st \in Store /\ st.server \in BOOLEAN /\ Sound(st) /\ current \in Storage
        /\ mtpWas' \in BOOLEAN /\ ums = FALSE
    BY <1>1 DEF VolumesInv, TypeOK, Store
  <1>4. d \in Store /\ Works(st, d) /\ d.media = st.media /\ d.served = {} /\ d.server = FALSE
    BY <1>3, ServerWorks DEF Store
  <1> HIDE DEF d
  <1>5. Served(d)
    BY <1>4 DEF Works
  <1>6. \/ \E v \in Storage : o \in Open_Lun_File(d, v)
        \/ o \in Fail(d)
    <2>1. CASE current # Data
      BY <1>2, <1>3, <2>1 DEF Exported
    <2>2. CASE current = Data /\ Find_Next_Storage = {}
      BY <1>2, <2>2 DEF Exported
    <2>3. CASE current = Data /\ Find_Next_Storage # {}
      <3>1. Find_Next_Storage \subseteq Storage
        BY DEF Find_Next_Storage
      <3>2. PICK v \in Find_Next_Storage : o \in Open_Lun_File(d, v)
        BY <1>2, <2>3 DEF Exported
      <3>3. QED
        BY <3>1, <3>2
    <2>4. QED
      BY <2>1, <2>2, <2>3
  <1>7. /\ o.ok \in BOOLEAN /\ o.s \in Store /\ Works(st, o.s) /\ o.s.media = st.media
        /\ o.s.server = FALSE /\ o.s.served = {}
        /\ o.ok => \A w \in o.s.lun : ~Is_Mounted(o.s, w)
    <2>1. CASE \E v \in Storage : o \in Open_Lun_File(d, v)
      BY <1>4, <1>5, <2>1, OpenLunSteady, WorksTrans
    <2>2. CASE o \in Fail(d)
      <3>1. o.s = d /\ o.ok = FALSE
        BY <2>2, OutcomesAre
      <3>2. QED
        BY <1>4, <3>1
    <2>3. QED
      BY <1>6, <2>1, <2>2
  <1>8. CASE o.ok
    <2>1. st' = o.s /\ ums' = TRUE /\ todo' = <<>>
      BY <1>2, <1>8
    <2>2. Sharing'
      BY <1>7, <1>8, <2>1 DEF Sharing, UsbExclusive
    <2>3. QED
      BY <1>1, <1>3, <1>7, <2>1, <2>2, NoneProper, DeviceInv
  <1>9. CASE ~o.ok
    <2> DEFINE u == [o.s EXCEPT !.server = st.server]
    <2>1. st' = u /\ todo' \in (IF st.server THEN Left(StartServer, Passes) ELSE {<<>>}) /\ ums' = ums
      BY <1>2, <1>9
    <2>2. u = [o.s EXCEPT !.server = st.server, !.served = {}]
      <3>1. o.s = [o.s EXCEPT !.served = {}]
        BY <1>7 DEF Store
      <3>2. QED
        BY <1>7, <3>1 DEF Store
    <2>3. Works(st, u) /\ u.media = st.media
      <3>1. Works(o.s, u) /\ u.media = o.s.media
        BY <1>3, <1>7, <2>2, ServerWorks
      <3> HIDE DEF u
      <3>2. QED
        BY <1>7, <3>1, WorksTrans
    <2>4. Proper(todo') /\ (todo' # <<>> => Head(todo').do # "pass")
      BY <2>1, ServerProper, NoneProper, LeftProper
    <2>5. Sharing' /\ ums' \in BOOLEAN
      BY <1>3, <2>1 DEF Sharing
    <2>6. QED
      BY <1>1, <1>3, <2>1, <2>3, <2>4, <2>5, DeviceInv
  <1>10. QED
    BY <1>7, <1>8, <1>9

LEMMA UsbDisableInv == ASSUME VolumesInv, usb_storage_disable PROVE VolumesInv' /\ Spared
  <1> DEFINE m == ForEach("mount", Storage, "free")
             n == IF mtpWas THEN StartServer ELSE <<>>
  <1>1. /\ ums' = FALSE /\ format' = FALSE /\ ok' = TRUE
        /\ UNCHANGED <<mtpWas, current, ops>>
        /\ todo' \in Left(((m \o Update_System_Details) \o UnMount_Main_Partitions) \o n, Passes)
    BY DEF usb_storage_disable
  <1>2. PICK cleared \in BOOLEAN :
           st' = [st EXCEPT !.lun = IF cleared THEN {} ELSE @, !.server = mtpWas, !.served = {}]
    BY DEF usb_storage_disable
  <1>3. st \in Store /\ mtpWas \in BOOLEAN
    BY DEF VolumesInv, TypeOK
  <1>4. Works(st, st') /\ st'.media = st.media
    <2> DEFINE l == IF cleared THEN {} ELSE st.lun
               s == [st EXCEPT !.lun = l]
    <2>1. l \in SUBSET Vols
      BY <1>3 DEF Store
    <2>2. st' = [s EXCEPT !.server = mtpWas, !.served = {}]
      BY <1>2, <1>3 DEF Store
    <2> HIDE DEF l
    <2>3. s \in Store
      BY <1>3, <2>1 DEF Store
    <2>4. \A f \in {"mnt", "bind", "cur", "disk", "inner", "media", "keys", "hasMedia", "server", "served", "unsafe"} :
             s[f] = st[f]
      BY <1>3 DEF Store
    <2> HIDE DEF s
    <2>5. Works(st, s)
      <3>1. Served(st)
        BY DEF VolumesInv, Sound
      <3>2. QED
        BY <2>3, <2>4, <3>1 DEF Works, Served, Is_Mounted, KeysLast, NoMifs
    <2>6. Works(s, st') /\ st'.media = s.media
      BY <1>3, <2>2, <2>3, ServerWorks
    <2>7. QED
      BY <2>4, <2>5, <2>6, WorksTrans
  <1>5. "mount" \in Whats \ Wipers /\ "unmount" \in Whats \ Wipers /\ "free" \in Ons
    BY DEF Whats, Wipers, Ons
  <1>6. Proper(m) /\ Proper(UnMount_Main_Partitions)
    BY <1>5, ForEachProper DEF UnMount_Main_Partitions
  <1>7. Proper(n)
    BY <1>3, ServerProper, NoneProper
  <1> HIDE DEF m, n
  <1>8. Proper(((m \o Update_System_Details) \o UnMount_Main_Partitions) \o n)
    BY <1>6, <1>7, UpdateProper, ConcatProper DEF VolumesInv
  <1>9. Proper(todo') /\ (todo' # <<>> => Head(todo').do # "pass")
    BY <1>1, <1>8, LeftProper
  <1>10. Sharing' /\ mtpWas' \in BOOLEAN /\ current' \in Storage /\ ops' \in 0..MaxOps
    BY <1>1 DEF VolumesInv, TypeOK, Sharing
  <1>11. QED
    BY <1>1, <1>4, <1>9, <1>10, DeviceInv

-----------------------------------------------------------------------------
(* What comes from elsewhere                                               *)

LEMMA UeventInv == ASSUME VolumesInv, Handle_Uevent PROVE VolumesInv' /\ Spared
  <1>1. PICK v \in Removable :
           st' = IF v \in st.plugged
                 THEN [st EXCEPT !.plugged = @ \ {v}, !.present = @ \ {v}]
                 ELSE [st EXCEPT !.plugged = @ \cup {v}, !.present = @ \cup {v}]
    BY DEF Handle_Uevent
  <1>2. st \in Store /\ Sound(st) /\ Served(st) /\ v \in Vols
    BY VolumeAssumption DEF VolumesInv, TypeOK, Sound
  <1>3. st' \in Store
    BY <1>1, <1>2 DEF Store
  <1>4. \A f \in {"mnt", "bind", "cur", "disk", "inner", "media", "keys", "hasMedia", "server", "served",
              "lun", "unsafe"} : st'[f] = st[f]
    BY <1>1, <1>2 DEF Store
  <1>5. Works(st, st') /\ st'.media = st.media
    BY <1>2, <1>3, <1>4 DEF Works, Served, Is_Mounted, KeysLast, NoMifs
  <1>6. Sound(st') /\ (Formatted(st) => Formatted(st'))
    BY <1>2, <1>5, WorksSound
  <1>7. UNCHANGED <<format, todo, ok, ums, mtpWas, current, ops>>
    BY DEF Handle_Uevent, modes
  <1>8. UsbExclusive => UsbExclusive'
    <2>1. /\ st'.server = st.server /\ st'.lun = st.lun
          /\ st'.mnt = st.mnt /\ st'.bind = st.bind
      BY <1>4
    <2>2. QED
      BY <1>7, <2>1 DEF UsbExclusive, Is_Mounted
  <1>9. Named'
    BY <1>5 DEF VolumesInv, Named, Works
  <1>10. QED
    BY <1>3, <1>5, <1>6, <1>7, <1>8, <1>9 DEF VolumesInv, TypeOK, Listed, Sharing, Formatting, Spared

(* The server is told of /data anew, when it is seen how it is mounted.    *)
LEMMA DecryptInv == ASSUME VolumesInv, Post_Decrypt PROVE VolumesInv' /\ Spared
  <1> DEFINE s == [st EXCEPT !.mapper = TRUE, !.decrypted = TRUE, !.cur[Data] = Fstab[Data]]
             e == [s EXCEPT !.media = "none"]
             X(m, b) == [m EXCEPT !.media = st.media,
                                  !.bind = b /\ st.media /= "none" /\ Data \in m.mnt]
  <1>1. PICK o \in Mount(e, Data), b \in BOOLEAN :
           st' = Add_MTP_Storage(Remove_MTP_Storage(X(o.s, b), Data), Data)
    BY DEF Post_Decrypt
  <1>2. /\ todo = <<>> /\ ~ums /\ todo' = <<Task("size", Data, "free")>>
        /\ format' = FALSE /\ ok' = TRUE /\ UNCHANGED <<ums, mtpWas, current, ops>>
    BY DEF Post_Decrypt, Idle, modes
  <1>3. st \in Store /\ Sound(st) /\ Served(st)
    BY DEF VolumesInv, TypeOK, Sound
  <1>4. e \in Store /\ e.media = "none" /\ (Fstab[Data] # "mifs" => e.cur[Data] # "mifs")
    BY <1>3, DataIs, VolumeAssumption DEF Store
  <1>5. \A f \in {"mnt", "bind", "disk", "inner", "keys", "hasMedia", "server", "served", "lun", "unsafe"} :
           e[f] = st[f]
    BY <1>3 DEF Store
  <1> DEFINE x == X(o.s, b)
  <1> HIDE DEF s, e
  <1>6. Steady(e, o.s) /\ o.s \in Store
    BY <1>4, DataIs, MountSteady DEF Steady
  <1>7. Served(e)
    BY <1>3, <1>5 DEF Served, Is_Mounted
  <1>8. x \in Store /\ x.media = st.media
    BY <1>1, <1>3, <1>6 DEF Store
  <1>9. \A f \in {"mnt", "cur", "disk", "inner", "keys", "hasMedia", "server", "served", "lun", "unsafe"} :
           x[f] = o.s[f]
    BY <1>6 DEF Store
  <1> HIDE DEF X, x
  <1> DEFINE y == Remove_MTP_Storage(x, Data)
  <1>10. /\ y \in Store /\ y.media = st.media
         /\ y.served = IF x.server THEN x.served \ {Data} ELSE x.served
    BY <1>8 DEF Remove_MTP_Storage, Store
  <1>11. \A f \in {"mnt", "bind", "cur", "disk", "inner", "keys", "hasMedia", "server", "lun", "unsafe"} :
            y[f] = x[f]
    BY <1>8 DEF Remove_MTP_Storage, Store
  <1> HIDE DEF y
  <1>12. Served(y)
    <2>1. Served(o.s)
      BY <1>6, <1>7 DEF Steady
    <2>2. \A v \in y.served : v # Data /\ v \in o.s.served /\ y.server
      <3>1. x.served = o.s.served /\ x.server = o.s.server /\ y.server = x.server
        BY <1>9, <1>11
      <3>2. ~x.server => x.served = {}
        BY <2>1, <3>1 DEF Served
      <3>3. QED
        BY <1>10, <3>1, <3>2
    <2>3. QED
      BY <1>9, <1>10, <1>11, <2>1, <2>2 DEF Served, Is_Mounted
  <1>13. Works(st, y)
    <2>1. /\ y.disk = st.disk /\ y.keys = st.keys /\ y.unsafe = st.unsafe /\ y.hasMedia = st.hasMedia
      BY <1>5, <1>6, <1>9, <1>11 DEF Steady, Same, Kept
    <2>2. NoMifs(st) /\ Fstab[Data] # "mifs" => NoMifs(y)
      BY <1>4, <1>5, <1>6, <1>9, <1>11 DEF Steady, NoMifs
    <2>3. QED
      BY <1>10, <1>12, <2>1, <2>2 DEF Works, KeysLast
  <1>14. st' = Add_MTP_Storage(y, Data)
    BY <1>1 DEF x, y
  <1>15. Works(st, st') /\ st'.media = st.media
    <2>1. Remade(y, st') /\ Kept(y, st')
      BY <1>10, <1>12, <1>14, DataIs, AddRemade, AddServed
    <2>2. QED
      BY <1>10, <1>13, <2>1, RemadeWorks, WorksTrans DEF Kept
  <1>16. Proper(todo') /\ (todo' # <<>> => Head(todo').do # "pass")
    <2>1. "size" \in Whats \ Wipers /\ "free" \in Ons
      BY DEF Whats, Wipers, Ons
    <2>2. Task("size", Data, "free") \in Tasks /\ Task("size", Data, "free").do = "size"
      BY <2>1, DataIs, TaskIs
    <2>3. QED
      BY <1>2, <2>1, <2>2, DataIs, PlainProper
  <1>17. /\ ums' \in BOOLEAN /\ Sharing' /\ mtpWas' \in BOOLEAN /\ current' \in Storage
         /\ ops' \in 0..MaxOps
    BY <1>2 DEF VolumesInv, TypeOK, Sharing
  <1>18. QED
    BY <1>2, <1>15, <1>16, <1>17, DeviceInv

LEMMA SetStorageInv == ASSUME VolumesInv, SetStorage PROVE VolumesInv' /\ Spared
  BY DEF SetStorage, VolumesInv, TypeOK, Listed, Sharing, UsbExclusive, Formatting, Named, Spared

LEMMA BeginInv == ASSUME VolumesInv, Begin PROVE VolumesInv' /\ Spared
  BY FactoryResetInv, WipeListInv, FormatDataInv, ChangeInv, RepairInv, MountVolumeInv,
     UnMountVolumeInv, UnmapInv, EnableMtpInv, StopMtpInv, UsbEnableInv, UsbDisableInv,
     DecryptInv, SetStorageInv DEF Begin

LEMMA StutterInv == ASSUME VolumesInv, UNCHANGED vars PROVE VolumesInv'
  BY DEF VolumesInv, TypeOK, Sound, Served, KeysLast, Listed, Sharing, UsbExclusive, Is_Mounted,
         Formatting, Formatted, Named, NoMifs, vars, modes

LEMMA NextInv == VolumesInv /\ [Next]_vars => VolumesInv'
  BY RunTaskInv, BeginInv, UeventInv, StutterInv DEF Next

-----------------------------------------------------------------------------
(* Every variable keeps its type: a Store, a list of tasks, a mode. *)
THEOREM VolumesType == Spec => []TypeOK
  <1>1. VolumesInv => TypeOK
    BY DEF VolumesInv
  <1>2. QED
    BY <1>1, InitInv, NextInv, PTL DEF Spec

(* Whatever is unmounted, unmapped, wiped or unplugged, in whatever order  *)
(* and whichever step fails: the MTP server offers no storage that is not  *)
(* mounted. *)
THEOREM StorageServed == Spec => []ServedIsMounted
  <1>1. VolumesInv => ServedIsMounted
    BY DEF VolumesInv, Sound, Served, ServedIsMounted
  <1>2. QED
    BY <1>1, InitInv, NextInv, PTL DEF Spec

(* No tool makes a file system on a volume that is mounted. *)
THEOREM FormatsUnmounted == Spec => []NeverFormatsMounted
  <1>1. VolumesInv => NeverFormatsMounted
    BY DEF VolumesInv, Sound, NeverFormatsMounted
  <1>2. QED
    BY <1>1, InitInv, NextInv, PTL DEF Spec

(* The metadata keys go after the data they encrypt, and are gone, with    *)
(* the user's files, when Format Data has succeeded. *)
THEOREM KeysAndData == Spec => []KeysGoWithData
  <1>1. VolumesInv => KeysGoWithData
    <2>1. todo = <<>> => ~Formats(todo)
      BY DEF Formats
    <2>2. QED
      BY <2>1 DEF VolumesInv, Sound, KeysLast, Formatting, Formatted, KeysGoWithData
  <1>2. QED
    BY <1>1, InitInv, NextInv, PTL DEF Spec

(* What USB mass storage exports is mounted by nobody, without MTP. *)
THEOREM SharedOnce == Spec => []UsbExclusive
  <1>1. VolumesInv => UsbExclusive
    BY DEF VolumesInv, Sharing, UsbExclusive
  <1>2. QED
    BY <1>1, InitInv, NextInv, PTL DEF Spec

(* A factory reset, a wipe and whatever else is not meant to erase them    *)
(* leave the user's files alone, where the fstab does not name mifs: then  *)
(* the first Wipe would take the f2fs it asks for as a change of format.   *)
THEOREM MediaIsKept == ASSUME Fstab[Data] # "mifs" PROVE Spec => MediaKept
  <1> DEFINE Keeps == st.media = "users" /\ st'.media /= "users" =>
                        todo /= <<>> /\ Head(todo).do \in {"encryption", "internal", "change"}
  <1>1. VolumesInv /\ [Next]_vars => [Keeps]_vars
    <2> SUFFICES ASSUME VolumesInv, Next PROVE Keeps
      OBVIOUS
    <2>1. CASE RunTask
      BY <2>1, RunTaskInv DEF RunTask, Spared, Erasers
    <2>2. CASE Begin
      BY <2>2, BeginInv DEF Spared
    <2>3. CASE Handle_Uevent
      BY <2>3, UeventInv DEF Spared
    <2>4. QED
      BY <2>1, <2>2, <2>3 DEF Next
  <1>2. QED
    BY <1>1, InitInv, NextInv, PTL DEF Spec, MediaKept
=============================================================================
