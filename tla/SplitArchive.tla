---------------------------- MODULE SplitArchive ----------------------------
(***************************************************************************)
(* The archives of one file system: twrpTar.cpp.                           *)
(*                                                                         *)
(* createTarFork's child lists the files, divides them up among threads by *)
(* size, and starts a thread per part; tarList writes a thread's files to  *)
(* archives of at most MAX_ARCHIVE_SIZE, named by thread and number.       *)
(* extractTarFork's child finds the archives by their names, and extracts  *)
(* them in as many threads.  A thread that cannot be created is run by the *)
(* main thread itself, which then does not join it.                        *)
(*                                                                         *)
(* An item is a file, directory or link; only its size and thread matter,  *)
(* and its number stands for its contents.  Archive k of thread t is       *)
(* archive[t][k + 1], the set of items in it.  Thread ids have one digit,  *)
(* so that no two archives share a name "%i%02i" (Name, below).            *)
(***************************************************************************)
EXTENDS Naturals, Sequences, FiniteSets

CONSTANTS
    MaxArchive,   \* MAX_ARCHIVE_SIZE
    BackupLast,   \* 999, the last number tarList gives to an archive
    RestoreLast,  \* 99, the last number extractMulti looks for
    MaxCores,     \* 8, the cores used at most
    MaxItems,     \* bound on the files listed
    MaxTotal      \* bound on their size

ASSUME SplitAssumption ==
    /\ MaxArchive \in Nat /\ MaxCores \in 1..8
    /\ BackupLast \in 0..999 /\ RestoreLast \in 0..999
    /\ MaxItems \in Nat /\ MaxTotal \in Nat

Modes == {"single", "split", "encrypted", "userdata"}
Threads == 0..MaxCores

VARIABLES
    phase,    \* divide, backup, saved, restore, restored or failed
    mode,     \* one archive, several, encrypted, encrypted but for the apps
    cores,    \* core_count as sysconf gives it, at most MaxCores
    total,    \* encrypt_size, the size of what is to be divided up
    left,     \* what the second pass has not seen of it
    items,    \* TarList: sequence of [size, thread]
    tid,      \* enc_thread_id
    segment,  \* Archive_Current_Size while dividing
    start, last, join, \* the main thread: the next thread to start, the last, the next to join
    busy,     \* the main thread runs thread start's work itself
    marked,   \* threads whose thread_id was changed: not to be joined
    run,      \* per thread: no, running, done or error
    pos,      \* per thread: items or archives gone through
    fill,     \* per thread: Archive_Current_Size of its archive
    archive,  \* per thread: its archives
    got       \* items extracted

divideVars == <<mode, cores, total, left, items, tid, segment>>
mainVars == <<start, last, join, busy, marked>>
workVars == <<run, pos, fill, archive, got>>
archiveVars == <<phase, divideVars, mainVars, workVars>>

First(m) == IF m = "userdata" THEN 1 ELSE 0
LastThread(m, c) ==
    CASE m = "userdata" -> c
      [] m = "encrypted" -> c - 1
      [] OTHER -> 0

(* The name of an archive, as digits. *)
Name(t, k) ==
    IF k < 100 THEN <<t, k \div 10, k % 10>>
    ELSE <<t, k \div 100, (k \div 10) % 10, k % 10>>

-----------------------------------------------------------------------------
(* The division.  Files in directories come through Generate_TarList, which *)
(* goes on to the next thread once its share is full; files at the top are *)
(* only counted; the applications' files are all thread 0's.               *)
Encrypted == mode \in {"encrypted", "userdata"}
Target == IF Encrypted THEN total \div cores + 1 ELSE 0
Full(size) == size # 0 /\ Target # 0 /\ size > Target

Listed(size, t) ==
    /\ phase = "divide" /\ Len(items) < MaxItems
    /\ items' = Append(items, [size |-> size, thread |-> t])
    /\ UNCHANGED <<phase, mode, cores, total, mainVars, workVars>>

(* A slip: the next thread's share begins with what the last one had. *)
ListFileNoReset(size) ==
    /\ size <= left /\ Listed(size, tid)
    /\ left' = left - size
    /\ segment' = segment + size
    /\ tid' = IF Full(segment + size) THEN tid + 1 ELSE tid

ListFile(size) ==
    /\ size <= left /\ Listed(size, tid)
    /\ left' = left - size
    /\ IF Full(segment + size)
       THEN tid' = tid + 1 /\ segment' = 0
       ELSE tid' = tid /\ segment' = segment + size

ListTopFile(size) ==
    /\ Encrypted /\ size <= left /\ Listed(size, tid)
    /\ left' = left - size
    /\ segment' = segment + size /\ tid' = tid

ListApp(size) ==
    /\ mode = "userdata" /\ Listed(size, 0)
    /\ UNCHANGED <<left, tid, segment>>

DivisionDone ==
    /\ phase = "divide" /\ left = 0
    /\ phase' = IF tid > LastThread(mode, cores) THEN "failed" ELSE "backup"
    /\ start' = 0 /\ last' = LastThread(mode, cores) /\ join' = First(mode)
    /\ UNCHANGED <<divideVars, busy, marked, workVars>>

-----------------------------------------------------------------------------
(* The main thread, in a backup and in a restore.  Thread 0 is run by the  *)
(* main thread unless it is one of several with encrypted parts.           *)
Working == phase \in {"backup", "restore"}
Alone(t) == t = 0 /\ mode # "encrypted"
There(t) == phase = "backup" \/ archive[t] # <<>>
Fail == phase' = "failed" /\ UNCHANGED <<divideVars, mainVars, workVars>>

StartThread ==
    /\ Working /\ ~busy /\ start <= last /\ There(start)
    /\ run' = [run EXCEPT ![start] = "running"]
    /\ pos' = [pos EXCEPT ![start] = 0]
    /\ fill' = [fill EXCEPT ![start] = 0]
    /\ archive' = IF phase = "backup" THEN [archive EXCEPT ![start] = <<{}>>] ELSE archive
    /\ \/ ~Alone(start) /\ start' = start + 1 /\ busy' = FALSE
       \/ busy' = TRUE /\ start' = start
    /\ UNCHANGED <<phase, divideVars, last, join, marked, got>>

RanItself ==
    /\ Working /\ busy /\ run[start] = "done"
    /\ busy' = FALSE /\ start' = start + 1
    /\ marked' = marked \cup {start}
    /\ UNCHANGED <<phase, divideVars, last, join, workVars>>

FailedItself == Working /\ busy /\ run[start] = "error" /\ Fail

(* A restore has as many threads as there are names with a first archive. *)
NoMoreThreads ==
    /\ phase = "restore" /\ ~busy /\ start <= last /\ ~There(start)
    /\ last' = start - 1
    /\ UNCHANGED <<phase, divideVars, start, join, busy, marked, workVars>>

Joining == Working /\ ~busy /\ start > last /\ join <= last

Join ==
    /\ Joining /\ (join \in marked \/ run[join] = "done")
    /\ join' = join + 1
    /\ UNCHANGED <<phase, divideVars, start, last, busy, marked, workVars>>

JoinError == Joining /\ join \notin marked /\ run[join] = "error" /\ Fail

AllJoined ==
    /\ Working /\ ~busy /\ start > last /\ join > last
    /\ phase' = IF phase = "backup" THEN "saved" ELSE "restored"
    /\ UNCHANGED <<divideVars, mainVars, workVars>>

-----------------------------------------------------------------------------
(* tarList, in each thread. *)
Mine(t) == {n \in pos[t] + 1..Len(items) : items[n].thread = t}
Splits(t, size) == mode # "single" /\ fill[t] + size > MaxArchive

Tar(t) == phase = "backup" /\ run[t] = "running"

(* The item that no longer fits begins the next archive. *)
TarNext(t, n) ==
    /\ Splits(t, items[n].size)
    /\ Len(archive[t]) <= BackupLast
    /\ archive' = [archive EXCEPT ![t] = Append(@, {n})]
    /\ fill' = [fill EXCEPT ![t] = items[n].size]

(* Of the items of size 0 only the regular files may split an archive. *)
TarAdd(t, n) ==
    /\ Splits(t, items[n].size) => items[n].size = 0
    /\ archive' = [archive EXCEPT ![t][Len(archive[t])] = @ \cup {n}]
    /\ fill' = [fill EXCEPT ![t] = @ + items[n].size]

IsNext(t, n) == n \in Mine(t) /\ \A m \in Mine(t) : n <= m

TarItem(t) ==
    /\ Tar(t)
    /\ \E n \in Mine(t) :
        /\ IsNext(t, n)
        /\ TarNext(t, n) \/ TarAdd(t, n)
        /\ pos' = [pos EXCEPT ![t] = n]
    /\ UNCHANGED <<phase, divideVars, mainVars, run, got>>

End(t, how) ==
    /\ run' = [run EXCEPT ![t] = how]
    /\ UNCHANGED <<phase, divideVars, mainVars, pos, fill, archive, got>>

TarDone(t) == Tar(t) /\ Mine(t) = {} /\ End(t, "done")

TooMany(t) ==
    /\ Tar(t) /\ Len(archive[t]) > BackupLast
    /\ \E n \in Mine(t) : IsNext(t, n) /\ Splits(t, items[n].size)
    /\ End(t, "error")

(* A failed write. *)
TarFails(t) == Tar(t) /\ End(t, "error")

-----------------------------------------------------------------------------
(* extractTarFork and extractMulti. *)
ExtractBegin ==
    /\ phase = "saved" /\ phase' = "restore"
    /\ start' = 0 /\ last' = MaxCores /\ join' = IF mode = "encrypted" THEN 0 ELSE 1
    /\ busy' = FALSE /\ marked' = {}
    /\ run' = [t \in Threads |-> "no"]
    /\ UNCHANGED <<divideVars, pos, fill, archive, got>>

Extracting(t) == phase = "restore" /\ run[t] = "running"
(* A slip: archive_count >= 99. *)
OverEarly(t) == pos[t] = Len(archive[t]) \/ pos[t] >= RestoreLast

Over(t) == pos[t] = Len(archive[t]) \/ pos[t] > RestoreLast

(* A slip: archive_count is not counted up. *)
ExtractAgain(t) ==
    /\ Extracting(t) /\ ~Over(t)
    /\ got' = got \cup archive[t][pos[t] + 1]
    /\ UNCHANGED <<phase, divideVars, mainVars, run, pos, fill, archive>>

Extract(t) ==
    /\ Extracting(t) /\ ~Over(t)
    /\ got' = got \cup archive[t][pos[t] + 1]
    /\ pos' = [pos EXCEPT ![t] = @ + 1]
    /\ UNCHANGED <<phase, divideVars, mainVars, run, fill, archive>>

ExtractDone(t) == Extracting(t) /\ Over(t) /\ End(t, "done")
ExtractFails(t) == Extracting(t) /\ End(t, "error")

-----------------------------------------------------------------------------
ArchiveInit ==
    /\ phase = "divide" /\ mode \in Modes /\ cores \in 1..MaxCores
    /\ total \in 0..MaxTotal /\ left = total
    /\ mode = "single" => total <= MaxArchive
    /\ mode = "split" => total > MaxArchive
    /\ items = <<>> /\ tid = First(mode) /\ segment = 0
    /\ start = 0 /\ last = 0 /\ join = 0 /\ busy = FALSE /\ marked = {}
    /\ run = [t \in Threads |-> "no"]
    /\ pos = [t \in Threads |-> 0] /\ fill = [t \in Threads |-> 0]
    /\ archive = [t \in Threads |-> <<>>] /\ got = {}

Divide ==
    \/ \E size \in 0..MaxTotal : ListFile(size) \/ ListTopFile(size) \/ ListApp(size)
    \/ DivisionDone
Main ==
    \/ StartThread \/ RanItself \/ FailedItself \/ NoMoreThreads
    \/ Join \/ JoinError \/ AllJoined
Thread(t) ==
    \/ TarItem(t) \/ TarDone(t) \/ TooMany(t)
    \/ Extract(t) \/ ExtractDone(t)
ThreadFails(t) == TarFails(t) \/ ExtractFails(t)

ArchiveNext == Divide \/ Main \/ ExtractBegin \/ \E t \in Threads : Thread(t) \/ ThreadFails(t)
ArchiveSpec == ArchiveInit /\ [][ArchiveNext]_archiveVars

(* The scheduler runs every thread; none has to fail. *)
ArchiveFairSpec ==
    ArchiveSpec /\ WF_archiveVars(Main) /\ \A t \in Threads : WF_archiveVars(Thread(t))

-----------------------------------------------------------------------------
ArchiveTypeOK ==
    /\ phase \in {"divide", "backup", "saved", "restore", "restored", "failed"}
    /\ mode \in Modes /\ cores \in 1..MaxCores
    /\ total \in 0..MaxTotal /\ left \in 0..total
    /\ items \in Seq([size : 0..MaxTotal, thread : Threads])
    /\ tid \in Threads /\ segment \in 0..total
    /\ start \in 0..MaxCores + 1 /\ last \in Threads /\ join \in 0..MaxCores + 1
    /\ busy \in BOOLEAN /\ marked \subseteq Threads
    /\ run \in [Threads -> {"no", "running", "done", "error"}]
    /\ pos \in [Threads -> Nat] /\ fill \in [Threads -> Nat]
    /\ archive \in [Threads -> Seq(SUBSET (1..Len(items)))]
    /\ got \subseteq 1..Len(items)

(* However the sizes fall, no more threads are given files than are        *)
(* started: the shares, of a thread's part of the size and a byte, are     *)
(* used up before the threads are.                                         *)
DivisionFits == tid <= LastThread(mode, cores)

(* A backup that ended with success has every item in exactly one archive, *)
(* of whatever threads, started or run in place.                           *)
Held(n) == {p \in Threads \X (1..Len(items) + 1) :
                p[2] <= Len(archive[p[1]]) /\ n \in archive[p[1]][p[2]]}
SavedOnce ==
    phase = "saved" => \A n \in 1..Len(items) : Cardinality(Held(n)) = 1

(* No thread works on when the child says success and exits. *)
AllEnded == phase \in {"saved", "restored"} => \A t \in Threads : run[t] # "running"

(* A restore that ended with success has extracted everything that was     *)
(* saved, if no thread of the backup went beyond the number extractMulti   *)
(* looks for last.                                                         *)
RestoredIsSaved ==
    phase = "restored" /\ (\A t \in Threads : Len(archive[t]) <= RestoreLast + 1)
        => got = 1..Len(items)

(* The child of a backup and of a restore comes to an end. *)
WorkEnds == Working ~> ~Working

=============================================================================
