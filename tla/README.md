# TWRP for SM8850: TLA+ models, runs and proofs

The repository holds TWRP device trees for phones on the SM8850 (Xiaomi myron,
annibale and nezha, realme RE6402L1 or "neo8") and, under `src/patches`, the
source files of `bootable/recovery` and `system/vold` they replace. The rest of
the tree is configuration, documentation and vendor binaries. This project
models the code the repository itself carries: how recovery unlocks `/data`,
how it builds its list of partitions, how it saves, restores, wipes, formats,
shares and flashes them, and how it reads its input devices. A line number below names the file in
`src/patches/common/files/bootable/recovery` unless a directory is given.

## 1. Inventory

For every part: its state, its operations, what it talks to, what is hard, and
what makes it correct. "M" modelled, "P" partly, "-" planned or out of reach.

| Part | State | Operations | Talks to | Hard | Correct when |
|---|---|---|---|---|---|
| M Key storage, `system/vold/KeyStorage.cpp` | key directories on disk, Keystore keys | store atomically, retrieve, destroy | KeyMint, the file system | power loss between any two file operations | a key directory is whole or absent; acknowledged keys survive; destroyed keys stay destroyed |
| M Storage binding, same file | `storage_binding_info` | set the seed, generate an application id | every thread that stores or retrieves | the guard covers less than the call | all keys used in a boot are bound alike |
| M KeyMint environment, `system/vold/Decrypt.cpp` | version properties, KeyMint and keystore2 as init runs them, the copied key database | switch to stock values and back, copy the database, unwrap a user's key | init, `Decrypt_Data` | services that die late, crash, or start with old properties; a retry inside a switch | what answers was started with what was chosen, and the switch is undone |
| M Goodix gate (nezha), `device/xiaomi/nezha/recovery/root/system/bin` | init's services, two properties | gate, pre-decrypt hook, retry hook, reboot cleanup | `Decrypt_Device`, `tw_reboot`, init | four concurrent scripts that share two properties | a credential is verified only on a service that was ready; every wait ends |
| M Unlocking `/data`, `partitionmanager.cpp`, `partition.cpp`, `twrp.cpp`, `gui/action.cpp` | flags of the partition, DataManager values, `Users_List`, properties, kernel keys and mounts | `Decrypt_Data`, `Decrypt_Device`, decrypt page and action | the three parts above | mutual recursion, six flags for one fact, restarts of recovery | the flags say what the kernel holds; what the user starts ends |
| P Nandroid, `partitionmanager.cpp`, `partition.cpp`, `twrpTar.cpp`, `gui/action.cpp` | `stop_backup`, `tar_fork_pid`, the backup's folder | backup, cancel; restore and flash of images | a forked child, the GUI thread | a cancel in another thread at any point | what is reported is in the folder; no child is left; a cancel ends |
| P Split archives, `twrpTar.cpp` | `TarList`, thread ids, archive numbers | list, divide, write, find, extract | Nandroid's child | rounding, threads that cannot be created | every file is saved and restored once |
| M Credential, Weaver and Gatekeeper, neo8's and nezha's `Decrypt.cpp`, `Weaver1.cpp` | the services, the secure element's counts, the CE keys in the kernel | enter a credential, prepare the Weaver, poll, verify, unwrap, retry hook | init, the secure element | a service restarted by its own client, deaths in the middle of a verification | a right credential is never counted as a failure and opens the user; an entry ends |
| M Mount, wipe, format, `partition.cpp`, `partitionmanager.cpp`, `gui/action.cpp` | mounts, the bind of the media folder, file system types, metadata keys | `Mount`, `UnMount`, `Wipe` of every type, Format Data, `Repair`, `Resize` | unlocking, MTP | one step of several fails; two names for one file system | nothing mounted is formatted; keys go with the data |
| M MTP, USB storage, uevents, `partitionmanager.cpp`, `partition.cpp` | MTP's process and what it was told, the lun file, sticks | enable, disable, add, remove, export | every mount and wipe | a stick that comes or goes between two steps | what is offered is mounted; what is exported is not |
| P Partition table, `partitionmanager.cpp`, `partition.cpp`, `twrp.cpp` | `Partitions`, two pointers into it, MTP ids, the settings storage | `Process_Fstab`, `Process_Fstab_Line`, `Setup_Fstab_Partitions` | every other part reads the list | three files about one mount point, entries deleted between passes | one entry for each mount point; the installed system decides about `/data` |
| P Super partitions, `partitionmanager.cpp` | mapped logical partitions | map and wait at the start, prepare again in fastboot mode, unmap before Format Data; snapshots | the table, flash, mount | some map and some do not; ueventd's own time | in the list only with its device; none left mapped while its metadata goes |
| P Flash of zips and images, slots, `gui/action.cpp`, `twrpinstall/twinstall.cpp` | zip queue, active slot, boot slot, recovery images, `/tmp` | queue, cancel, flash, backup and reflash of the recovery, both slots | the repacker | a zip that fails or crashes the recovery in the middle of a queue; the queue of the GUI thread | what is installed is what was queued; what is reflashed is what was there |
| P Repacker, `twrpRepacker.cpp` | kernel and ramdisk of both slots | unpack, replace, write | flash | one slot of two fails | success means both |
| P Input, `minuitwrp/events.cpp`, `gui/gui.cpp` | `evs`, positions, the state all devices share, hold and repeat | scan, translate, hold, repeat | the pages | several devices in one state machine, hot plug, lost events | nothing stays held; a release is a lift |
| P GUI and action thread, `gui/action.cpp`, `gui/gui.cpp` | the action thread's flag, `tw_operation_status` | actions run in either thread | everything | two threads, one set of values | one action at a time |
| P Early mount and decrypt of the neo8, `neo8-early-mount.sh`, `prepdecrypt.sh`, `Decrypt.cpp` | mounts, properties | mount, copy properties, prepare the Weaver | init, unlocking | order at boot | |
| - DataManager, `data.cpp` | values, a recursive lock | set, get, load, flush | everything | two threads | no lost value |
| - OpenRecoveryScript, `gui/gui.cpp`, `gui/action.cpp` | the script, the command pipe | its commands | everything | its parser is in no file of the repository | commands in order |
| - Graphics, neo8's `graphics_drm.cpp` | frames | draw, flip | the display driver | flips in flight | |
| - Wi-Fi, `gui/action.cpp`, `neo8_wifi_hal_client.cpp` | connection state | scan, connect, DHCP | HAL, `wpa_supplicant` | timeouts | |
| - NXP gates (myron, annibale) | services, properties | start a chain, wait, reset it | init | services that never settle | every wait ends |
| - Patch and build scripts | a checkout | apply, build, check | git | a patch applied in part | |
| - Device trees, prebuilt files | none | none | | | their values are constants here |

The parts interact along one call: the decrypt page calls `Decrypt_Device`,
which may call `Decrypt_Data` to map and mount `/data`; both reach
`Decrypt.cpp`, which switches the KeyMint environment and retrieves keys with
`KeyStorage.cpp`. On the nezha hooks around the verification start the gate.
A backup reads the same flags and users the unlocking left. The action thread
runs one operation at a time for flashes, backups, wipes and shares; beside it
the GUI thread queues zips, cancels a backup, handles uevents and reads input.

## 2. Modules

| Module | Models | EXTENDS / INSTANCE |
|---|---|---|
| `KeyStorage`, `MCKeyStorage`, `KeyStorageProofs` | `KeyStorage.cpp`, key directories | INSTANCE `KeyStoreAbs` |
| `KeyStoreAbs` | what a key store promises: one step stores, one destroys | |
| `StorageBinding`, `MCStorageBinding` | `KeyStorage.cpp`, the seed; proofs in `KeyStorageProofs` | |
| `KeyMintEnv`, `MCKeyMintEnv`, `KeyMintEnvProofs` | `setRecoveryKeyMintEnvironment`, `syncKeystore2DbForDecrypt` and the control of their callers | |
| `GoodixGate`, `MCGoodixGate` | the four scripts of the nezha; proofs in `StartupProofs` | |
| `DataUnlock`, `MCDataUnlock`, `DataUnlockProofs` | startup, `Decrypt_Data`, `Decrypt_Device`, decrypt page and action | |
| `Credential`, `MCCredential`, `EntryProofs` | `Decrypt_User`, `Decrypt_User_Synth_Pass`, `Prepare_Neo8_Weaver_Backend`, `Weaver1.cpp`, the retry hook as a step | |
| `VolumeOps` | the operations of a partition, each a function from a state to its outcomes | |
| `Volumes`, `MCVolumes`, `VolumesProofs` | the actions that call them, MTP, USB storage, uevents | EXTENDS `VolumeOps` |
| `PartitionTable`, `MCPartitionTable` | `Process_Fstab`, `Process_Fstab_Line`, `Prepare_Super_Volume`, `Setup_Fstab_Partitions`; proofs in `StartupProofs` | |
| `Flash`, `MCFlash`, `FlashProofs` | `flash`, `flash_zip`, `TWinstall_zip`, `flashimage`, the repacker, the slots | |
| `Input`, `MCInput`, `EntryProofs` | `events.cpp`, `InputHandler` | |
| `Nandroid`, `MCNandroid` | `Run_Backup`, `Cancel_Backup`, `createTarFork`, the stop checks of restore and flash; proofs in `BackupProofs` | |
| `SplitArchive`, `MCSplitArchive` | the division of files among threads, writing and finding archives; proofs in `BackupProofs` | |

**KeyStorage.** An inode is a key directory, `ns` the name space in memory,
`onDisk` every name space a power loss could leave. `StoreBegin` to
`FsyncParentDirectory` are the steps of `storeKeyAtomically` in order, with
`StoreFails` for an error at any of them; `DestroyBegin` to `recursiveDeleteKey`
those of `destroyKey`; `Crash` (external) picks a name space of `onDisk` and
the files that survive. The refinement maps a key to the path under which a
whole directory lies.

**StorageBinding.** Its specification is `BindingSpec`. Threads begin a call, generate the application id under
the guard, and end the call without it, while the seed may arrive.

**KeyMintEnv.** `at` is where recovery is in its request, `sub` where it is
inside the called function; `Died`, `Up` and `Crash` are init's. `kmLevel` is
what KeyMint read when it came up, `props` what it would read now: the gap
between the two is the point of the model. The restore of
`Decrypt.cpp:626` ignores its argument (both directions set stock values);
the model does what the code does, and `label` is only what the code writes.

**GoodixGate.** Its specifications are `ChainSpec` and `ChainFairSpec`. One
process per script, init's services between them. Sleeps
are steps, so no script is assumed faster than another.

**DataUnlock.** `at` is where the thread is; the two functions alternate on
the stack, so `depth` is the stack. `mapper`, `mounted`, `de`, `open` are the
kernel's, `blkProp` and `doneProp` the properties that outlive a crash, and
the rest dies with the process. `Crash` may come between any two steps.
`conf` is one of the device configurations of `system.prop`, `BoardConfig.mk`
and the hooks a device installs. Assumed, for lack of the code: an unmount
succeeds and takes the keys with it, a metadata key opens or does not, nothing
can be mapped twice under one name, and `/data` on these devices is data/media.

**Nandroid.** Three actors: the action thread, the child, the GUI thread in
`Cancel_Backup`. `pid` tells a live child, a reaped one, a failed fork and 0
apart.

**SplitArchive.** Its specification is `ArchiveFairSpec`. Items have a size; `segment` and `tid` divide them;
`Thread(t)` writes or extracts the archives of thread t; the main thread
starts, runs in place, and joins. That the sizes the division sums agree with
the total asked for before (`Get_Folder_Size` is outside the repository) is
assumed, and `DivisionFits` depends on it.

**Credential.** One entry goes through `type` (the dispatch on the files of
user 0), the default password, the Weaver or Gatekeeper, the unwrap and the CE
storage. `weaver` is the running instance with the time since its start and
whether its persist files were mounted then; `binder` is the instance the
client holds, so a call to a dead one fails. The secure element counts and
throttles; a throttle may run out at any moment. The environment switch around
the unwrap is `KeyMintEnv`'s and succeeds or fails here. `spent` and `clean`
are history: what the entry cost, and whether anything it needs failed. 16 of
the 32 bytes of the default password are not initialised, so what is derived
from them is a choice, and `OnlyWrongCounts` and `RightOpens` are of credentials
that were typed. Files directly in `system_de` are looked for by the neo8
only. The owner may be entered again once decrypted, which the code does when
`/data/media/0` is not there; whether it is there is not in the model.

**VolumeOps and Volumes.** A device is one record; an operation is a function
from it to the set of its outcomes, so a caller composes the operations it calls
in their order, and a failing call leaves what was done before. An action of the
user is a list of tasks, one per partition; the marks `all`, `stop`, `free` and
`skip` say what a failure does to the rest of the list. A loop over the
partitions has a task for each of them, those it is not about being `pass`, and
`Left` is the list without what is passed over at its front. Between two tasks a
stick may come or go. `media` tells the user's files from a folder recovery
made; `served` is what MTP was told, right or wrong. The theme leaves the pages
with the direct actions while the action thread is busy, so those need an empty
list. How `/data` is decrypted is `DataUnlock`'s; `Post_Decrypt` is what it
leaves here. Assumed: no partition shares a block device with `/data` or the
metadata under another name, no factory reset or wipe list has the metadata
(only Format Data erases it), and where the system must not be unmounted it is a
logical partition, as in the fstabs and flags of these devices.

**PartitionTable.** `phase` is the file or loop the start is in, `next` its
line; an entry of `table` has the fields other parts ask for. An entry's number
stands for its address, so `data` and `meta` can be pointers to what was
deleted. A line is a record: its text is only known by whether it mentions
`/data` or `/metadata`, which is what the second pass looks for. The files of
the model are lines of the repository's fstabs and flags, cut down to one of
each kind; what the vendor's fstab holds, which nodes are there and what
device-mapper could map are choices. `Words` is what a name can be: TLC has it
as `STRING`, the proofs need of it only the names the code writes itself.
Assumed, and true of every device tree in the repository: a line for `/data` or
the metadata is not logical, its text names it, and where `twrp.flags` has one
`recovery.fstab` has one too, with a file system the code knows; and a build
that binds the media folder after decryption has `/data/media` (only the realme
neo8 sets `post_decrypt_media_bind`, every build sets `RECOVERY_SDCARD_ON_DATA`).
Assumed besides: `/vendor` and `/odm` unmount.

**Flash.** `queue` and `index` are written by the GUI thread until the page with
the buttons is gone; the action thread goes through the zips one call at a time.
What an updater writes is a choice, and so is whether it asks for a slot. An
image is a kernel and a ramdisk, so that a repack of the ramdisk alone shows.
`Crash` restarts recovery alone: `/tmp` and the slots stay as they were. `seen`,
`log` and `was` are history. The index of `zip_queue` is guarded by the page's
condition; that it stays within the array is part of `TypeCorrect`. The change
of the page and the loop's first look at the queue are one step (`FlashStart`),
so a press that is being handled while the page changes (`gui/action.cpp:1251`)
is not modelled: it would still change the queue behind the shown one.

**Input.** A device queues a packet at once; the GUI thread reads one event of
some device per step, changes the shared state as `vk_modify` does and tells
the page. A mouse button's touch is at the cursor and is the same touch as the
finger's. `lost` is history: a queue ran over, a device went or the list was
read anew; it ends when all is up and read and nothing is held. Each keyboard
and mouse has its own keys, and a touch screen has none.

Operators named as mutants in a comment are faulty variants of the definition
that follows them: each shows that a property breaks when the code does.

## 3. Runs

| Run | Bounds | Shows |
|---|---|---|
| `key_storage` | one path, two keys besides Android's, one power loss | whole keys, destruction, and the refinement of `KeyStoreAbs` |
| `storage_binding` | 2 threads, 2 keys, 2 seeds, a reboot | all keys of a boot are bound alike; no stale application id |
| `keymint_env` | polls 1 and 2, one crash | what answers is what was chosen; CE storage opens in the metadata environment; the copy is fresh; requests end |
| `goodix_gate` | 2 stable polls of 3, limits 3 to 5, 2 attempts, 2 crashes | order of the chain; verification begins on a ready service; hooks end |
| `data_unlock` | 2 users, lists of 6, 3 nested calls, 2 restarts, 3 configurations | flags agree with the kernel; scripts do not start on locked data; a known credential ends |
| `credential` | 3 users, 2 passwords, 3 entries, 4 polls of which 2 warm up, 1 death, throttled after 3 | a right credential costs nothing and opens the user; a wrong one costs one failure, two on the nezha; entries end |
| `volumes` | `/data`, `/metadata`, a stick, a logical partition; 3 operations | MTP offers what is mounted; nothing mounted is formatted; keys go with the data; USB storage is exclusive; the media folder survives what does not name it |
| `partition_table` | 7 lines of `recovery.fstab`, 4 of `twrp.flags`, 4 vendor fstabs, 4 profiles of build and mode | live pointers to single entries, the last word of the vendor fstab, no unprepared logical partition, storages told apart, a start that ends |
| `flash` | 3 zips, a queue of 2, 2 actions, 1 restart | what is installed was queued; what is reflashed was there; success on both slots is on both |
| `input` | a touch screen, a keyboard with a mouse that may be plugged, an accelerometer; 5 packets, queues of 4 | nothing stays held once all is up; an object is told of a release only once the finger is up, or by the left mouse button |
| `nandroid` | 2 partitions, 4 archives, images of 2 blocks, forks may fail | success is complete, failure leaves nothing, a cancel is reported, cancels and actions end |
| `split_archive` | 3 items, total size 4, archives of 1, 2 cores, numbers to 2 and 1 | shares fit, restored is saved, the work ends |

*Why the bounds are enough.* Key storage: one temporary path with a second
store over the leftover of the first is the smallest case in which a directory
is reused; more paths and power losses are covered by the proofs. The polls of
the scripts and of `Decrypt.cpp` are counts against a limit: a limit of at least
2 has a wait that succeeds late, one that times out, and the boundary. Two
users are an owner and another; a list of 6 holds every user three times, and
`Users_List` only grows when `/data` was lost, so longer lists repeat. Calls
nested deeper than 3 are counted as 2 or 3 by parity, and their returns as one.
Two restarts have a crash of a recovery that itself found `/data` mapped. Two
partitions are a first and a last one, two blocks a middle and an end. Three
items have a middle one, and with archives of size 1 each can overflow, fill
or exceed one.

Three operations on volumes are the least in which one sets a flag, the second
fails half way and the third meets what both left; the stick may come and go
within each. A queue of two has a first zip whose failure or crash meets a
second, and a queue left by an earlier flash; a third zip makes a queue that is
full while another is pressed. Three credentials reach the throttle, or a wrong
one between two right ones. A queue of four events holds one packet and a part
of the next, so it can run over.

The lines of the table's files have a mount point in each pair of files, one
under two names, one logical partition of each kind, and one that the vendor's
fstab gives twice; the second pass reads lines one by one, so a longer file
repeats a case. One profile has no data media, as no device of the repository
does: there the settings storage is chosen in a second way. With a vendor fstab
such a build would give an MTP id twice, which is why it has none in this run.


*Symmetry* permutes keys, threads and seeds where no definition chooses among
them, and never in a run with liveness.

*Deadlock* is not checked where a bounded environment may stop: no crash left,
the archive finished, the user idle, or a full list.

*Fairness.* Weak fairness of each thread, script or child as a whole: the
kernel schedules a runnable process, and none of these block for ever on a
lock. Never of the user, of crashes, of init's starts and restarts, or of one
outcome of an operation: in `KeyMintEnv` and `GoodixGate` a service may never
come up, and a request ends because its polls run out. `PartitionTable` has it of the start's
only thread and of ueventd, which makes the node of every device that was
mapped. The one exception is
`Credential`: the client waits for the Weaver with `waitForService`, which has
no timeout, so an entry ends only if init starts what is down (weak fairness of
`Start`). `FairSpec` (or its like) is
in each module that has a liveness property.

## 4. Proofs

TLAPS proves, for all values of the constants under the named assumptions:

* `KeyStorageProofs`: `TypeCorrect`, `CompleteKeys`, `StoredKeysSurvive`,
  `DestroyedKeysStayDestroyed` and `Refinement` (every behaviour is one of
  `KeyStoreAbs`), for any paths, directories and power losses.
  The invariant adds to the properties where a name space on disk can differ
  from that in memory (`NamesOK`), what a half-built directory holds at each
  step and that no name on disk has it under a key path before its files are
  kept (`StoreOK`), what destruction has done so far (`DestroyOK`) and why a
  destroyed directory stays closed whatever comes back (`DestroyedOK`). The
  properties are not inductive alone: a crash may go back to an old name space.
  The refinement needs `OneName` besides: no directory has two names under key
  paths, and an old name space agrees with the present one on every key nobody
  asked to destroy, so a power loss takes back only what was not acknowledged.
* `KeyStorageProofs`, of `StorageBinding`: `SeedIsRequired` and
  `AppIdsStayValid`. The invariant is the type, the property, and that an
  application id in a thread's hands is that of the boot.
* `StartupProofs`, of `GoodixGate`: `VerificationBeginsUp` (`VerifyBeginsUp`),
  `DependenciesStayUp` (`ChainOrder`), `ChainTypeCorrect`, for any polls, limits, attempts and crashes. `ChainInv`
  adds that waits stay below their limits (`Counted`), that a retry stops
  services only while no gate runs and that `weaver_ready` is never up beside a
  gate at work (`GateApart`), and that `weaver_ready` without a gate means that
  every service is up (`ReadyIsUp`): the order of the chain is not inductive,
  since what a finished gate left must hold when the next one begins.
* `StartupProofs`, of `PartitionTable`: `TableTypeCorrect`, `PointersStayLive`
  (`PointersLive`), `VendorFstabDecides` (`VendorDecides`),
  `LogicalPartitionsAreMapped` (`LogicalIsMapped`) and `StoragesStayApart`
  (`StoragesApart`), for any fstabs and flags of any length, any devices that
  are there or not, and any build. `TableInv` says that ids are given once and
  to whom (`Numbered`, `Waits`: the partition that waits for its device is in
  the list only in fastboot mode), that `/data` and the metadata have the entry
  their pointer names and no other (`Pointers`; `PointersLive` alone would let
  the vendor's line add a second entry), that for each name the list says what
  the last line read so far says (`VendorSays`), what each phase has behind it
  (`Course`), which entries have an MTP id already, each above the last one
  given (`Mtp`, `UniqueMtpIds`), and who can still become the settings storage
  (`Settings`).
* `BackupProofs`, of `Nandroid`: `TypeCorrect`, `ChildIsReaped`, `CompleteWhenReported`,
  `NothingLeftOfFailure`, `CancelIsReported`, for any list of partitions and any
  length of an image. That a success is complete is not inductive: the
  invariant says that everything before the place the thread is at is in the
  folder (`Saved`, `Kept`), that the folder is empty until the first partition
  is saved and again once a failure was reported (`Fresh`), and what a cancel
  has left in `stop_backup` (`Heeded`).
* `FlashProofs`: `TypeCorrect`, `QueueIsInstalled`, `BackupIsReflashed`,
  `BothFlashed`, for any zips, queue, slots asked for and restarts. The
  invariant relates the loop's index to what was logged and to the queue the
  page showed, and says which image the backup in `/tmp` holds at each step of
  `flash_zip`, and what the first slot holds while the second is written.
* `KeyMintEnvProofs`: `Invariance`, `TypeCorrect`, `ReadyMeansApplied`,
  `CeOpenedInMetadataEnv`, `SettledBetweenRequests`, `KeyFromFreshCopy`. The
  invariant says where the thread can be (`Shape`), which services are already
  down or fresh there (`Applied`, `Copied`), and the label in force (`Labelled`).
* `EntryProofs`, of `Credential`: `RightCostsNothing` and `RightCredentialOpens`, for any
  users, layouts of files, deaths of services, and a Weaver that warms up in
  fewer polls than are made. The invariant says what an entry may have cost at
  each place and that a right credential gives the right key (`Cost`), that a
  Weaver which came up after the mount has its files (`Backed`), and which
  conditions bring an entry of the right credential to the storage, with the
  age of the Weaver never behind the polls (`OnTheWay`).
* `EntryProofs`, of `Input`: `InputType`, `NothingStaysHeld` (`NothingStuck`) and
  `ReleasesAreLifts` (`ReleaseIsLift`), for any devices, blacklist, slots,
  packets and hot plug. First, what a queue may hold (`Sent`: its last event is
  a report, and a report follows each end of a touch). `NothingStuck` is far
  from inductive; `Causes` gives everything that is held its reason while
  nothing was lost: a finger or key that is down on a device that is not
  ignored, an unread event that ends it, or `touchReleaseOnNextSynReport` with a
  report still to be read, of whatever device. It is proved for screens that all
  report a tracking id of -1 or all a pressure of 0 (`OneStyle`): on a device
  with one of each, the pressure is no end any more once an id of -1 was seen,
  and the touch stays. `ReleaseIsLift` is of every step and rests on `Lifts`: between
  the id of -1 and the report after it nothing of the screen is read, and of all
  other events only the left button's end tells of a release. It is proved for one
  screen (`OneScreen`), since with two the shared flag ends either's touch.
* `BackupProofs`, of `SplitArchive`: `DivisionAlwaysFits` for any sizes in any order (closed
  shares times the share's size, plus the open share, plus what is left, is at
  most the total; a share is more than total / cores), `EndsAfterItsThreads`
  for any number of threads (`CrewInv`: who was started, marked, joined),
  `NamesTell`: an archive's name tells its thread and number, `EveryItemOnce`
  (`SavedOnce`) and `EverythingComesBack` (`RestoredIsSaved`). The last two
  rest on `DataInv`: a thread's archives hold, each item once, what the thread
  went through of the list (`Packing`); an item's thread is one that is started,
  which is where the division's theorem is needed; whoever was joined is done;
  and a thread of the restore has extracted the archives it went through
  (`Taking`).
* `DataUnlockProofs`: `TypeCorrect`, `FlagsAgree` (`FlagsTrue`), `ScriptsWait`,
  `AllDecrypted`, for any users, devices, depth of calls that is told apart and
  restarts. None of the properties is inductive: inside a call the flags are ahead of the kernel or
  behind it. The invariant says where on the stack the thread can be, by the
  parity of its depth (`Places`), which differences between flags and kernel
  occur at which of these places (`Flags`), what holds until the user's first
  own call (`Starting`), and that an entry of `Users_List` marked without keys
  has an unmarked one of the same user after it (`Marked`): the parse that
  follows every new metadata setup appended it.

* `VolumesProofs`: `VolumesType`, `StorageServed` (`ServedIsMounted`),
  `FormatsUnmounted` (`NeverFormatsMounted`), `KeysAndData` (`KeysGoWithData`),
  `SharedOnce` (`UsbExclusive`) and `MediaIsKept` (`MediaKept`), for any
  partitions, file systems, tools, lists of tasks and failures. Each operation
  of `VolumeOps` has a lemma on all its outcomes, in one of four classes:
  `Steady` erases nothing, `Wiping` erases what it is told to, `Remade` may make
  the media folder again, `Works` is what every task leaves. What the server was
  told is not inductive alone: the invariant adds that a server that is not
  there was told nothing, that keys which are gone left no encrypted data behind
  them, and, since a format is a list of tasks, that the task which erases is
  still to come as long as the format has neither failed nor worked, and that
  nothing before it can end the list (`Gentle`, `Formats`). `MediaIsKept` is for
  an fstab that does not name `mifs` (section 5).

Of these, `StoredKeysSurvive`, `SettledBetweenRequests`, `ChildIsReaped`,
`EndsAfterItsThreads` and `EveryItemOnce` are proved for every instance and
checked by no run.

Only model-checked: everything of liveness. Liveness under fairness, ENABLED and
induction over data are out of this prover's reach. Every invariant and every
action property that a run checks is stated by a theorem.

## 5. Disagreements between the code and what it says

Seen while modelling; the runs check what holds, and none is kept for these:

* When the DE keys do not open, `TW_IS_FBE` is 0 in the rest of `Decrypt_Data`,
  the path of full disk encryption is taken, whose child exits with 0, and the
  user reads "Successfully decrypted with default password."
  (`partitionmanager.cpp:901`). `ScriptsOnOpenData` is therefore of attempts that
  still take `/data` for file based encryption. TLC finds this in `data_unlock`'s model in a few
  steps as a violation of `at = "page" /\ ~isEnc => Owner \in open`.
* "Add any items from twrp.flags that did not exist in the recovery.fstab"
  (`partitionmanager.cpp:581`): a logical partition of `recovery.fstab` that could
  not be mapped was dropped from the list and is added again, without its device
  and with what its flags allow. `PartitionTable!LogicalIsMapped` is therefore
  of the entries of `recovery.fstab` only.
* The index that names "separate mount points for each partition found"
  (`partition.cpp:3280`) starts again in each scan, while the entries of earlier
  scans stay: a second disk, or a node that came late, gets a mount point that
  another entry has.
* A metadata key that does not open makes `Decrypt_Data` and `Decrypt_Device`
  call each other without end while the credential type is unknown, which it is
  in every startup (`partitionmanager.cpp:900`, `:2480`). `data_unlock`'s
  liveness is therefore of a known credential.
* Exclusions of a locked user outlive the backup and leave the user out of the
  next one without the warning (`partition.cpp:2890-2893`).
* `stop_backup` of a cancelled backup cuts the restore or flash of an image that
  follows (`partition.cpp:3022`).
* A restore looks for archives up to number 99, a backup writes up to 999
  (`twrpTar.cpp:816`, `:875`).
* Where the files of users are directly in `system_de`, no typed credential ever
  decrypts: neo8's `Decrypt.cpp:1399` requires `system_de/0/spblob`, the comment
  at `:1297` and the fallback at `:1010` do not.
* A Gatekeeper call that fails in transport leaves the status at 0, which reads
  as success without a token; the old HIDL path ignores the answer and uses an
  uninitialised length. `prepared` stays set when the persist mount failed, so it
  is never tried again. On the nezha the retry hook makes one wrong credential
  two failures in the secure element.
* A kernel repack ends with the shown slot toggled (`twrpRepacker.cpp`), and
  `Set_Active_Slot` shows the slot asked for also when the boot control refused.
* `tw_zip_is_update_package` is only ever set to 0 (`gui/action.cpp:457`, read at
  `:479`); an ozip that cannot be decrypted ends with the result of the zip
  before it; a slot asked for by an earlier updater stays in `/tmp` for the next.
* A later updater resets the wipe of the cache that an earlier one asked for
  (`twinstall.cpp:284`), while the message at `gui/action.cpp:1287` is the same.
* A press between `operation_end` and the end of the action thread is dropped;
  `installapp` and `uninstalltwrpsystemapp` always end with success, and
  `mergesnapshots` ends an operation it did not start.
* `Prepare_All_Super_Volumes` erases through an iterator it then uses; it and
  `Super_Partition_List` have no users.
* Of several lines for `/data` in the vendor's fstab the last one stays
  (the annibale has f2fs, then mifs); a line for another mount point that
  mentions `/data`, or one with an unknown file system, takes `/data` out of the
  list. `PartitionTable!Clear` states the premise.
* A `/data` that the fstab calls `mifs` (`additional.fstab:18` of the annibale)
  is `mifs` until a probe finds it. `Wipe` asks for f2fs instead
  (`partition.cpp:1910-1913`) and compares with what it knows (`:1929`), so that
  the factory reset of such a `/data`, locked or not yet probed, formats it with
  the user's files, where one called `f2fs` keeps them. With `Fstab[Data]` set to
  `mifs` TLC finds `MediaKept` violated.
* `Is_Super ? false : true` (`partition.cpp:488`, `:494`, `:500`) is read before the flags
  that set `Is_Super`, so a logical `/odm`, `/product` or `/system_ext` still
  says it may be wiped in the GUI.
* A rescan that finds nothing new makes the whole disk the device of the entry
  though its partitions are listed (`partition.cpp:3359-3365`), and the removal of
  one disk takes the entries of every disk on the port (`partitionmanager.cpp:3831`);
  those that are still there come back only with an uevent of theirs.
* Entries are appended to `Partitions` inside the loop of `Update_System_Details`
  (`partitionmanager.cpp:2128`), and erased by the GUI thread beside it.
* The nezha names `/usbotg` in `recovery.fstab` and `/usb_otg` in `twrp.flags`, so
  the collapse of small partitions (`partition.cpp:3282`) does not apply there.
* The second pass of `Process_Fstab` goes on with a NULL file when its fstab
  cannot be opened (`partitionmanager.cpp:526`).
* `ors_command_read` closes the output of a refused command without clearing its
  pointer (`gui/gui.cpp:500-503`), so later commands are not served.
* The left mouse button and the finger share one touch: a button that goes up
  while the finger is down releases the object under it
  (`gui/gui.cpp:346-357`), and a volume key ends the finger's touch without
  telling the object (`:376-389`), so that the next report starts it anew.
  `ReleaseIsLift` names the first case as its exception (`LeftUp`); without it
  TLC finds the violation after a touch that was lifted, one that was not, and
  a press and release of the button. The second is no release.
* Init is given one second to act on `ctl.restart` (neo8's `Decrypt.cpp:480-481`).
  When it acts later, the client may hold the Weaver that is killed, and the
  right credential fails. `Credential!RightOpens` takes a restart that is late
  for a failure of something the credential needs (`Sleep`), as it does a death
  of a service, an unmounted persist and a throttled user.
* An `evs` slot blacklisted at one scan stays ignored for the device that takes
  its place; before the first tracking id of -1 two reports count as a lift;
  SYN_DROPPED is not handled; an unplug while something is down leaves it held.
* `nezha-reboot-cleanup.sh:38` does not stop the gate, which can start services
  after the cleanup stopped them; lines 45-46 promise a fresh session.
* `twrp-pre-decrypt.sh:26` and `:38`: a gate that becomes ready and exits
  between the two reads is started again, and the verification runs on the old
  `weaver_ready` while the chain is torn down. `VerifyBeginsUp` is therefore of
  verifications that begin with no gate at work.
* `Decrypt.cpp:590` says KeyMint is always configured with values of the
  installed system; with no readable `build.prop` the fallback at `:596` is
  recovery's own.
* `Decrypt.cpp:626`: the argument that asks for recovery's values is ignored.
* `partitionmanager.cpp:1311` logs that the backup stopped when the pid it
  waited for was that of a child already reaped; a failed fork leaves -1
  (`twrpTar.cpp:144`), which a cancel polls for ever.
* `TW_NO_AUTO_DECRYPT` is set in every `BoardConfig.mk` and documented, but
  `Android.mk` does not pass it on, so startup does decrypt.
* After `/data` was unmounted and mounted again, `Decrypt_Device` answers that
  the user "does not require decryption", though the kernel lost the keys.
* On the neo8 without a password, `Decrypt_Page` sets `TW_IS_ENCRYPTED` again
  after startup cleared it, so a waiting script is not run.

Numeric and other hazards that the models abstract from: `free_space - 32 MiB`
is unsigned (`partitionmanager.cpp:1435`); the digest of a subpartition is
looked up under its parent's file name (`:1642`); keystore2 may be gone between
the poll and the lookup (`Decrypt.cpp:772`, the result is not tested).

## 6. What is left

Worth doing next, in this order: screens without an end of a touch in the proofs of
`Input`; snapshots; the NXP gates as a second chain of services.

Not modelled, and why:

* `DataManager`: each call holds the lock for one access to a map; the models
  take the values as variables of whoever uses them. The settings file is
  rewritten in place without a promise about power loss.
* OpenRecoveryScript: its parser is not in the repository; the operations it
  runs are those above, one after another.
* In `PartitionTable`: display names and paths, adopted storage, Android secure,
  MTD, slots in names, flags that only set a value. In `Flash`: sparse images,
  AVB, the wipe of the cache, the repack of the running ramdisk on devices
  without a recovery partition. In `Volumes`: snapshots, ADB backup, SELinux contexts. In `Input`: haptics, chords, relative
  wheels. In `Nandroid`: the adb stream and what a restore does to a file system.
* NXP gates, `neo8-early-mount.sh`, `prepdecrypt.sh`: single scripts whose
  results no other code of the repository reads while they run.
* Wi-Fi, graphics: their state is the HAL's, `wpa_supplicant`'s and the display
  driver's, all outside the repository.
* Tar and encryption formats, XML and themes, fonts, vendor binaries, patch and
  build scripts: no state a run of the recovery depends on in an order.
