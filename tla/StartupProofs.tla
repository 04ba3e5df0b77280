--------------------------- MODULE StartupProofs ---------------------------
(***************************************************************************)
(* Proofs about what the recovery has to bring up before it can unlock     *)
(* anything: the chain of security services, for any waits, limits and     *)
(* crashes of services, and the list of partitions, for any fstabs and     *)
(* flags, any devices that are there or not, and any build.                *)
(***************************************************************************)
EXTENDS GoodixGate, PartitionTable, SequenceTheorems, WellFoundedInduction, TLAPS

-----------------------------------------------------------------------------
(* The chain of GoodixGate                                                 *)

(* A wait is counted and a gate is started again only below the limits.    *)
Counted ==
    /\ script \in {"wait_more", "restart"} => second < limit
    /\ script = "restart" => MayRestart
    /\ gate \in {"start", "poll"} => attempt <= WeaverAttempts

(* The retry stops services only while no gate runs, and weaver_ready is   *)
(* up beside a gate only when that gate has yet to begin; nobody stops a   *)
(* gate that has not begun before weaver_ready is cleared.                 *)
GateApart ==
    /\ script \in {"retry_stop", "retry_start"} => gate = "off"
    /\ gate \in {"reset", "start", "poll"} => ~ready
    /\ script = "retry_stop_gate" /\ gate = "init" => ~ready

AllUp == \A s \in Services : svc[s] # "stopped"

(* Without a gate at work weaver_ready says that the chain is up, but for  *)
(* the end of a retry, where a gate is about to be started, and the        *)
(* clean-up.                                                               *)
ReadyIsUp ==
    ready /\ gate \in {"off", "exit"} /\ script # "retry_start" /\ ~Cleaning => AllUp

ChainInv == ChainTypeOK /\ ChainOrder /\ Counted /\ GateApart /\ ReadyIsUp

LEMMA ChainIs ==
  /\ Len(Chain) = 4
  /\ Chain[1] = "qseecomd" /\ Chain[2] = "minkdaemon"
  /\ Chain[3] = "secure_element" /\ Chain[4] = "weaver"
  /\ Services = {"qseecomd", "minkdaemon", "secure_element", "weaver"}
  BY DEF Chain, Services

LEMMA ChainInitInv == ChainInit => ChainInv
  <1> SUFFICES ASSUME ChainInit PROVE ChainInv
    OBVIOUS
  <1> USE GateAssumption DEF ChainInit
  <1>1. "fallback" \in Routes /\ Limit["fallback"] \in Nat
    BY DEF Routes
  <1>2. ChainTypeOK
    <2>1. limit \in {Limit[r] : r \in Routes} /\ second \in 0..limit
      BY <1>1
    <2>2. svc \in [Services -> {"stopped", "running", "restarting"}]
      OBVIOUS
    <2>3. link \in 1..Len(Chain)
      BY ChainIs
    <2>4. /\ stable \in 0..StableNeeded /\ polls \in 0..PollLimit
          /\ attempt \in 1..(WeaverAttempts + 1) /\ restarts \in 0..MaxRestarts
          /\ crashes \in 0..MaxCrashes
      OBVIOUS
    <2>5. /\ gate \in {"off", "init", "reset", "start", "poll", "exit"} /\ script \in Scripts
          /\ route \in Routes /\ ready \in BOOLEAN /\ error \in BOOLEAN /\ again \in BOOLEAN
      BY <1>1 DEF Scripts
    <2>6. QED
      BY <2>1, <2>2, <2>3, <2>4, <2>5 DEF ChainTypeOK
  <1>3. ChainOrder /\ Counted /\ GateApart /\ ReadyIsUp
    BY DEF ChainOrder, Counted, GateApart, ReadyIsUp
  <1>4. QED
    BY <1>2, <1>3 DEF ChainInv

LEMMA ChainNextInv ==
  ASSUME ChainInv, [ChainNext]_chainVars
  PROVE  ChainInv'
  <1> USE GateAssumption, ChainIs
          DEF ChainInv, ChainTypeOK, ChainOrder, Counted, GateApart, ReadyIsUp, AllUp,
              Cleaning, Scripts, Routes, MayRestart, gateVars, scriptVars
  <1>1. CASE GateInit
    BY <1>1 DEF GateInit
  <1>2. CASE GateReset
    BY <1>2 DEF GateReset, Stop
  <1>3. CASE GateStart
    BY <1>3 DEF GateStart, Start
  <1>4. CASE GatePoll
    BY <1>4 DEF GatePoll, SeesRunning
  <1>5. CASE GateStable
    <2>1. CASE link < 4
      BY <1>5, <2>1 DEF GateStable, SeesRunning
    <2>2. CASE link = 4
      <3>1. ChainTypeOK' /\ ChainOrder' /\ Counted' /\ GateApart'
        BY <1>5, <2>2 DEF GateStable, SeesRunning
      <3>2. ~Cleaning => AllUp'
        <4>1. SUFFICES ASSUME ~Cleaning PROVE \A n \in 1..4 : svc[Chain[n]] # "stopped"
          BY <1>5 DEF GateStable
        <4>2. \A n \in 1..3 : svc[Chain[n]] # "stopped"
          BY <1>5, <2>2, <4>1 DEF GateStable
        <4>3. svc[Chain[4]] # "stopped"
          BY <1>5, <2>2 DEF GateStable, SeesRunning
        <4>4. QED
          BY <4>2, <4>3
      <3>3. QED
        BY <1>5, <3>1, <3>2 DEF GateStable
    <2>3. QED
      BY <2>1, <2>2
  <1>6. CASE GateError
    BY <1>6 DEF GateError, PollsOver, SeesRunning
  <1>7. CASE GateRetryWeaver
    <2>1. link = 4 /\ gate = "poll" /\ svc' = [s \in Services |-> IF s = "weaver" THEN "stopped" ELSE svc[s]]
      BY <1>7 DEF GateRetryWeaver, PollsOver, Stop
    <2>2. \A n \in 1..3 : Chain[n] # "weaver" /\ Chain[n] \in Services
      OBVIOUS
    <2>3. ChainTypeOK'
      <3>1. svc' \in [Services -> {"stopped", "running", "restarting"}]
        BY <2>1
      <3>2. attempt' \in 1..(WeaverAttempts + 1)
        BY <1>7, <2>1 DEF GateRetryWeaver
      <3>3. QED
        BY <1>7, <3>1, <3>2 DEF GateRetryWeaver
    <2>4. ChainOrder'
      BY <1>7, <2>1, <2>2 DEF GateRetryWeaver
    <2>5. Counted' /\ GateApart' /\ ReadyIsUp'
      BY <1>7, <2>1 DEF GateRetryWeaver
    <2>6. QED
      BY <2>3, <2>4, <2>5
  <1>8. CASE GateExit
    BY <1>8 DEF GateExit
  <1>9. CASE PreCheck
    BY <1>9 DEF PreCheck, Goto
  <1>10. CASE PreClear
    BY <1>10 DEF PreClear, Goto
  <1>11. CASE PreStart
    BY <1>11 DEF PreStart, Goto, StartGate
  <1>12. CASE PreLimit
    BY <1>12 DEF PreLimit
  <1>13. CASE WaitReady
    BY <1>13 DEF WaitReady, Goto
  <1>14. CASE WaitError
    BY <1>14 DEF WaitError, Goto
  <1>15. CASE WaitStopped
    BY <1>15 DEF WaitStopped, Goto
  <1>16. CASE Restart
    BY <1>16 DEF Restart, StartGate
  <1>17. CASE WaitSleep
    BY <1>17 DEF WaitSleep
  <1>18. CASE WaitTimeout
    BY <1>18 DEF WaitTimeout, Goto
  <1>19. CASE RetryClear
    BY <1>19 DEF RetryClear, Goto
  <1>20. CASE RetryStopGate
    BY <1>20 DEF RetryStopGate, Goto, StopGate
  <1>21. CASE RetryStop
    BY <1>21 DEF RetryStop, Goto, Stop
  <1>22. CASE RetryStart
    BY <1>22 DEF RetryStart, Goto, StartGate
  <1>23. CASE CleanupBegin
    BY <1>23 DEF CleanupBegin, Goto
  <1>24. CASE CleanupGoodix
    BY <1>24 DEF CleanupGoodix, Goto, Stop
  <1>25. CASE CleanupQsee
    BY <1>25 DEF CleanupQsee, Goto, Stop
  <1>26. CASE DecryptRequest
    BY <1>26 DEF DecryptRequest
  <1>27. CASE HookFailed
    BY <1>27 DEF HookFailed, Goto
  <1>28. CASE Verify
    BY <1>28 DEF Verify
  <1>29. CASE Reboot
    BY <1>29 DEF Reboot, Goto
  <1>30. ASSUME NEW s \in Services, ServiceCrash(s)
        PROVE  ChainInv'
    BY <1>30 DEF ServiceCrash
  <1>31. ASSUME NEW s \in Services, ServiceRestart(s)
        PROVE  ChainInv'
    BY <1>31 DEF ServiceRestart
  <1>32. CASE UNCHANGED chainVars
    BY <1>32 DEF chainVars
  <1>33. QED
    BY <1>1, <1>2, <1>3, <1>4, <1>5, <1>6, <1>7, <1>8, <1>9, <1>10, <1>11, <1>12, <1>13, <1>14, <1>15, <1>16, <1>17, <1>18, <1>19, <1>20, <1>21, <1>22, <1>23, <1>24, <1>25, <1>26, <1>27, <1>28, <1>29, <1>30, <1>31, <1>32
       DEF ChainNext, GateNext, HookNext

LEMMA ChainInvariance == ChainSpec => []ChainInv
  BY ChainInitInv, ChainNextInv, PTL DEF ChainSpec

(* Every variable of the chain keeps its type: the limits of the waits, the *)
(* starts of the gate and the attempts at the Weaver are never exceeded     *)
(* (twrp-pre-decrypt.sh, wait_stable_running).                              *)
THEOREM ChainTypeCorrect == ChainSpec => []ChainTypeOK
  <1>1. ChainInv => ChainTypeOK
    BY DEF ChainInv
  <1>2. QED
    BY <1>1, ChainInvariance, PTL

(* While nezha-goodix-gate.sh starts or watches a service nobody has        *)
(* stopped one below it, however the hooks of recovery interleave with it   *)
(* and whichever services crash.                                            *)
THEOREM DependenciesStayUp == ChainSpec => []ChainOrder
  <1>1. ChainInv => ChainOrder
    BY DEF ChainInv
  <1>2. QED
    BY <1>1, ChainInvariance, PTL

(* Both ways to a verification look at weaver_ready.                        *)
LEMMA VerifyAfterReady ==
  ASSUME ChainInv, [ChainNext]_chainVars, script # "verify", script' = "verify"
  PROVE  ready /\ UNCHANGED <<svc, gate>> /\ script \in {"pre", "wait"}
  <1> USE DEF Goto, gateVars, scriptVars
  <1>1. GateNext => UNCHANGED script
    BY DEF GateNext, GateInit, GateReset, GateStart, GatePoll, GateStable, GateError,
           GateRetryWeaver, GateExit
  <1>2. HookNext => ready /\ UNCHANGED <<svc, gate>> /\ script \in {"pre", "wait"}
    BY DEF HookNext, PreCheck, PreClear, PreStart, PreLimit, WaitReady, WaitError, WaitStopped,
           Restart, WaitSleep, WaitTimeout, RetryClear, RetryStopGate, RetryStop, RetryStart,
           CleanupBegin, CleanupGoodix, CleanupQsee
  <1>3. ~(DecryptRequest \/ HookFailed \/ Verify \/ Reboot)
    BY DEF DecryptRequest, HookFailed, Verify, Reboot
  <1>4. (\E s \in Services : ServiceCrash(s) \/ ServiceRestart(s)) \/ UNCHANGED chainVars =>
          UNCHANGED script
    BY DEF ServiceCrash, ServiceRestart, chainVars
  <1>5. QED
    BY <1>1, <1>2, <1>3, <1>4 DEF ChainNext

(* Decrypt_Device begins a verification only with the whole chain up,       *)
(* unless a gate is at work on it: weaver_ready outlives no chain that a    *)
(* retry or a failing gate took down.                                       *)
THEOREM VerificationBeginsUp == ChainSpec => VerifyBeginsUp
  <1>1. ChainInv /\ [ChainNext]_chainVars =>
          [script # "verify" /\ script' = "verify" /\ gate \in {"off", "exit"} =>
             \A s \in Services : svc[s] # "stopped"]_chainVars
    BY VerifyAfterReady DEF ChainInv, ReadyIsUp, AllUp, Cleaning
  <1>2. QED
    BY <1>1, ChainInvariance, PTL DEF ChainSpec, VerifyBeginsUp

-----------------------------------------------------------------------------
(* The list of PartitionTable: what the look-ups and the erasing return    *)

(* Any set of natural numbers that is not empty has a least element: Nat is *)
(* well-founded under some relation that includes <.                        *)
LEMMA Founded ==
  \E R : IsWellFoundedOn(R, Nat) /\ \A x, y \in Nat : x < y => <<x, y>> \in R
  <1>1. ASSUME NEW x \in Nat, NEW y \in Nat, x < y
        PROVE  <<x, y>> \in OpToRel(<, Nat)
    <2>1. <<x, y>> \in {ss \in Nat \X Nat : ss[1] < ss[2]}
      BY <1>1
    <2>2. QED
      BY <2>1, Zenon DEF OpToRel
  <1>2. QED
    BY <1>1, NatLessThanWellFounded, Zenon

LEMMA Least ==
  ASSUME NEW S, S \subseteq Nat, S # {}
  PROVE  Min(S) \in S /\ \A y \in S : Min(S) <= y
  <1>1. PICK R : IsWellFoundedOn(R, Nat) /\ \A x, y \in Nat : x < y => <<x, y>> \in R
    BY Founded, Zenon
  <1>2. IsWellFoundedOn(R, Nat)
    BY <1>1, Zenon
  <1>3. \A x, y \in Nat : x < y => <<x, y>> \in R
    BY <1>1, Zenon
  <1>4. PICK x \in S : \A y \in S : <<y, x>> \notin R
    BY <1>2, WFMin, Zenon
  <1>5. ASSUME NEW y \in S, y < x PROVE FALSE
    BY <1>3, <1>4, <1>5
  <1>6. \A y \in S : x <= y
    BY <1>5
  <1>7. QED
    BY <1>6 DEF Min

Canonical(path) == IF path = "system" THEN Root ELSE path

(* The look-up by path: the first entry with that mount point, if any.      *)
LEMMA Find ==
  ASSUME NEW S, NEW t \in Seq(S), NEW path
  PROVE  /\ Find_Partition_By_Path(t, path) \in 0..Len(t)
         /\ Find_Partition_By_Path(t, path) # 0 => t[Find_Partition_By_Path(t, path)].at = Canonical(path)
         /\ Find_Partition_By_Path(t, path) = 0 => \A i \in DOMAIN t : t[i].at # Canonical(path)
  <1> DEFINE I == {i \in 1..Len(t) : t[i].at = Canonical(path)}
  <1>1. I \subseteq Nat
    OBVIOUS
  <1>2. I # {} => Min(I) \in I
    BY <1>1, Least
  <1>3. Find_Partition_By_Path(t, path) = IF I # {} THEN Min(I) ELSE 0
    BY DEF Find_Partition_By_Path, SelectInSeq, Canonical
  <1>4. QED
    BY <1>2, <1>3

(* The first storage of the list, if any.                                   *)
LEMMA FirstStorage ==
  ASSUME NEW S, NEW t \in Seq(S)
  PROVE  LET first == SelectInSeq(t, LAMBDA e : e.storage)
         IN /\ first \in 0..Len(t)
            /\ first # 0 => t[first].storage
            /\ first = 0 => \A i \in DOMAIN t : ~t[i].storage
  <1> DEFINE I == {i \in 1..Len(t) : t[i].storage}
  <1>1. I \subseteq Nat
    OBVIOUS
  <1>2. I # {} => Min(I) \in I
    BY <1>1, Least
  <1>3. SelectInSeq(t, LAMBDA e : e.storage) = IF I # {} THEN Min(I) ELSE 0
    BY DEF SelectInSeq
  <1>4. QED
    BY <1>2, <1>3

Distinct(t) == \A i, j \in DOMAIN t : t[i].id = t[j].id => i = j

(* Erasing takes the entry with that id out and leaves the others.          *)
LEMMA Erased ==
  ASSUME NEW t \in Seq(Entries), NEW id, Distinct(t)
  PROVE  /\ Erase(t, id) \in Seq(Entries) /\ Distinct(Erase(t, id))
         /\ Range(Erase(t, id)) = {e \in Range(t) : e.id # id}
         /\ Len(Erase(t, id)) <= Len(t)
  <1> DEFINE I == {i \in 1..Len(t) : t[i].id = id}
             k == SelectInSeq(t, LAMBDA e : e.id = id)
  <1>1. I \subseteq Nat
    OBVIOUS
  <1>2. I # {} => Min(I) \in I
    BY <1>1, Least
  <1>3. k = IF I # {} THEN Min(I) ELSE 0
    BY DEF SelectInSeq
  <1>4. CASE k = 0
    <2>1. I = {}
      BY <1>2, <1>3, <1>4
    <2>2. Erase(t, id) = t
      BY <1>4 DEF Erase
    <2>3. QED
      BY <2>1, <2>2 DEF Range
  <1>5. CASE k # 0
    <2>1. k \in 1..Len(t) /\ t[k].id = id
      BY <1>2, <1>3, <1>5
    <2> DEFINE u == SubSeq(t, 1, k - 1) \o SubSeq(t, k + 1, Len(t))
    <2>2. Erase(t, id) = u
      BY <1>5 DEF Erase, RemoveAt
    <2> HIDE DEF k, I, u
    <2>3. /\ u \in Seq(Entries) /\ Len(u) = Len(t) - 1
          /\ \A j \in 1..Len(u) : u[j] = IF j < k THEN t[j] ELSE t[j + 1]
      <3>1. /\ SubSeq(t, 1, k - 1) \in Seq(Entries) /\ Len(SubSeq(t, 1, k - 1)) = k - 1
            /\ \A j \in 1..(k - 1) : SubSeq(t, 1, k - 1)[j] = t[j]
        BY <2>1
      <3>2. /\ SubSeq(t, k + 1, Len(t)) \in Seq(Entries) /\ Len(SubSeq(t, k + 1, Len(t))) = Len(t) - k
            /\ \A j \in 1..(Len(t) - k) : SubSeq(t, k + 1, Len(t))[j] = t[k + j]
        BY <2>1
      <3> DEFINE a == SubSeq(t, 1, k - 1)
                 b == SubSeq(t, k + 1, Len(t))
      <3> HIDE DEF a, b
      <3>4. a \in Seq(Entries) /\ b \in Seq(Entries) /\ Len(a) = k - 1 /\ Len(b) = Len(t) - k
        BY <3>1, <3>2 DEF a, b
      <3>5. u = a \o b
        BY DEF a, b, u
      <3>3. /\ u \in Seq(Entries) /\ Len(u) = Len(a) + Len(b)
            /\ \A j \in 1..(Len(a) + Len(b)) : u[j] = IF j <= Len(a) THEN a[j] ELSE b[j - Len(a)]
        BY <3>4, <3>5, ConcatProperties, Zenon
      <3>6. Len(u) = Len(t) - 1 /\ u \in Seq(Entries)
        BY <2>1, <3>3, <3>4
      <3>7. ASSUME NEW j \in 1..Len(u) PROVE u[j] = IF j < k THEN t[j] ELSE t[j + 1]
        <4>1. j \in 1..(Len(a) + Len(b))
          BY <2>1, <3>4, <3>6, <3>7
        <4>2. u[j] = IF j <= Len(a) THEN a[j] ELSE b[j - Len(a)]
          BY <3>3, <4>1
        <4>3. CASE j < k
          <5>1. j \in 1..(k - 1)
            BY <2>1, <4>3
          <5>2. a[j] = t[j]
            BY <3>1, <5>1 DEF a
          <5>3. QED
            BY <2>1, <3>4, <4>2, <4>3, <5>2
        <4>4. CASE j >= k
          <5>1. j - (k - 1) \in 1..(Len(t) - k) /\ k + (j - (k - 1)) = j + 1
            BY <2>1, <3>4, <4>1, <4>4
          <5>2. b[j - (k - 1)] = t[j + 1]
            BY <3>2, <5>1 DEF b
          <5>3. QED
            BY <2>1, <3>4, <4>2, <4>4, <5>2
        <4>5. QED
          BY <2>1, <4>3, <4>4
      <3>8. QED
        BY <3>6, <3>7
    <2>4. Distinct(u)
      <3> SUFFICES ASSUME NEW i \in 1..Len(u), NEW j \in 1..Len(u), u[i].id = u[j].id PROVE i = j
        BY <2>3 DEF Distinct
      <3> DEFINE at(m) == IF m < k THEN m ELSE m + 1
      <3>1. at(i) \in DOMAIN t /\ at(j) \in DOMAIN t /\ u[i] = t[at(i)] /\ u[j] = t[at(j)]
        BY <2>1, <2>3
      <3>2. at(i) = at(j)
        BY <3>1 DEF Distinct
      <3>3. QED
        BY <2>1, <3>2
    <2>5. ASSUME NEW e \in Range(u) PROVE e \in Range(t) /\ e.id # id
      <3>1. PICK j \in 1..Len(u) : e = u[j]
        BY <2>3 DEF Range
      <3> DEFINE at == IF j < k THEN j ELSE j + 1
      <3>2. at \in DOMAIN t /\ at # k /\ e = t[at]
        BY <2>1, <2>3, <3>1
      <3>3. e.id # id
        BY <2>1, <3>2 DEF Distinct
      <3>4. QED
        BY <3>2, <3>3 DEF Range
    <2>6. ASSUME NEW e \in Range(t), e.id # id PROVE e \in Range(u)
      <3>1. PICK j \in 1..Len(t) : e = t[j]
        BY DEF Range
      <3>2. j # k
        BY <2>1, <2>6, <3>1
      <3>3. CASE j < k
        BY <2>1, <2>3, <3>1, <3>3 DEF Range
      <3>4. CASE j > k
        <4>1. j - 1 \in 1..Len(u) /\ u[j - 1] = t[j]
          BY <2>1, <2>3, <3>4
        <4>2. QED
          BY <4>1, <2>3, <3>1 DEF Range
      <3>5. QED
        BY <2>1, <3>2, <3>3, <3>4
    <2>7. QED
      BY <2>2, <2>3, <2>4, <2>5, <2>6
  <1>6. QED
    BY <1>4, <1>5

-----------------------------------------------------------------------------
(* What the code makes of one line                                         *)

LEMMA EntryFacts ==
  ASSUME NEW e \in Entries
  PROVE  /\ Prepared(e) \in Entries /\ Prepared(e).id = e.id /\ Prepared(e).at = e.at
         /\ Prepared(e).fs = e.fs /\ Prepared(e).opts = e.opts /\ Prepared(e).from = e.from
         /\ Prepared(e).mtp = e.mtp /\ Prepared(e).super = e.super
         /\ Prepared(e).storage = e.storage /\ Prepared(e).settings = e.settings
         /\ Prepared(e).dm /\ ~Prepared(e).wipe /\ ~Prepared(e).backup
  BY DEF Prepared, Entries

LEMMA NewEntry ==
  ASSUME NEW id \in Nat, NEW l \in Lines, NEW from \in Files
  PROVE  /\ Entry(id, l, from) \in Entries /\ Entry(id, l, from).id = id
         /\ Entry(id, l, from).at = l.at /\ Entry(id, l, from).fs = l.fs
         /\ Entry(id, l, from).from = from /\ Entry(id, l, from).mtp = 0
         /\ ~Entry(id, l, from).settings /\ ~Entry(id, l, from).super /\ ~Entry(id, l, from).storage
  BY DEF Entry, Entries, Lines

LEMMA NoEntryIs == NoEntry \in Entries /\ NoEntry.id = 0 /\ NoEntry.at \notin {Data, Metadata}
                   /\ NoEntry.at = "none" /\ NoEntry.mtp = 0
  <1>1. NoLine \in Lines /\ NoLine.at = "none"
    BY TableAssumption DEF NoLine, Lines
  <1>2. "none" \in Files
    BY DEF Files
  <1>3. NoEntry \in Entries /\ NoEntry.id = 0 /\ NoEntry.at = "none" /\ NoEntry.mtp = 0
    BY <1>1, <1>2, NewEntry DEF NoEntry
  <1>4. QED
    BY <1>3 DEF Data, Metadata

(* What reading flags and what a mount point is known for leave alone.     *)
LEMMA FlaggedFacts ==
  ASSUME NEW e \in Entries, NEW flags
  PROVE  LET f == Flagged(e, flags)
         IN /\ f \in Entries /\ f.id = e.id /\ f.at = e.at /\ f.fs = e.fs /\ f.from = e.from
            /\ f.mtp = e.mtp /\ f.opts = e.opts
            /\ (e.settings => e.storage) => (f.settings => f.storage)
            /\ f.super => e.super \/ "logical" \in flags
  <1> DEFINE su == e.super \/ "logical" \in flags
             st == e.storage \/ flags \cap {"storage", "settingsstorage"} # {}
             se == e.settings \/ "settingsstorage" \in flags
             ba == e.backup \/ "backup" \in flags
             gu == e.gui \/ "wipeingui" \in flags
             wi == e.wipe \/ "wipeingui" \in flags
  <1>1. /\ su \in BOOLEAN /\ st \in BOOLEAN /\ se \in BOOLEAN
        /\ ba \in BOOLEAN /\ gu \in BOOLEAN /\ wi \in BOOLEAN
    OBVIOUS
  <1>2. Flagged(e, flags) =
          [e EXCEPT !.super = su, !.storage = st, !.settings = se, !.backup = ba, !.gui = gu, !.wipe = wi]
    BY DEF Flagged
  <1>3. (e.settings => e.storage) => (se => st)
    OBVIOUS
  <1>4. su => e.super \/ "logical" \in flags
    OBVIOUS
  <1> HIDE DEF su, st, se, ba, gu, wi
  <1>5. \A f \in Entries, b \in BOOLEAN :
           /\ [f EXCEPT !.super = b] \in Entries /\ [f EXCEPT !.storage = b] \in Entries
           /\ [f EXCEPT !.settings = b] \in Entries /\ [f EXCEPT !.backup = b] \in Entries
           /\ [f EXCEPT !.gui = b] \in Entries /\ [f EXCEPT !.wipe = b] \in Entries
    BY DEF Entries
  <1>6. [e EXCEPT !.super = su, !.storage = st, !.settings = se, !.backup = ba, !.gui = gu, !.wipe = wi] \in Entries
    BY <1>1, <1>5
  <1>7. QED
    BY <1>2, <1>3, <1>4, <1>6 DEF Entries

Same(f, e) == /\ f \in Entries /\ f.id = e.id /\ f.fs = e.fs /\ f.from = e.from
              /\ f.mtp = e.mtp /\ f.opts = e.opts /\ f.super = e.super

LEMMA KnownFacts ==
  ASSUME NEW e \in Entries, e.settings => e.storage
  PROVE  /\ Same(Known(e), e) /\ (Known(e).settings => Known(e).storage)
         /\ Known(e).at = e.at \/ (Known(e).at = Root /\ e.at = "system")
  <1>1. CASE e.at \in {"system", Root}
    <2>1. Known(e) = [e EXCEPT !.at = Root, !.wipe = FALSE]
      BY <1>1 DEF Known, Root, Data, Odm
    <2>2. Root \in Words
      BY TableAssumption
    <2>3. QED
      BY <1>1, <2>1, <2>2 DEF Same, Entries
  <1>2. CASE e.at \in {Data, "cache", "sd-ext", "system_ext", "product", Odm} /\ e.at \notin {"system", Root}
    <2>1. Known(e) = [e EXCEPT !.gui = TRUE, !.backup = TRUE]
      BY <1>2 DEF Known, Root, Data, Odm
    <2>2. QED
      BY <1>2, <2>1 DEF Same, Entries
  <1>7. CASE e.at \in {"datadata", "boot"}
    <2>1. Known(e) = [e EXCEPT !.backup = TRUE]
      BY <1>7 DEF Known, Root, Data, Odm
    <2>2. QED
      BY <1>7, <2>1 DEF Same, Entries
  <1>3. CASE e.at \in {"sdcard", "external_sd", "external_sdcard"}
    <2>1. Known(e) = [e EXCEPT !.storage = TRUE, !.gui = TRUE]
      BY <1>3 DEF Known, Root, Data, Odm
    <2>2. QED
      BY <1>3, <2>1 DEF Same, Entries
  <1>4. CASE e.at \in {"emmc", "internal_sd", "internal_sdcard"}
    <2>1. Known(e) = [e EXCEPT !.storage = TRUE, !.settings = TRUE, !.gui = TRUE]
      BY <1>4 DEF Known, Root, Data, Odm
    <2>2. QED
      BY <1>4, <2>1 DEF Same, Entries
  <1>5. CASE e.at \notin {"system", Root, Data, "cache", "sd-ext", "system_ext", "product", Odm, "datadata",
                          "boot", "sdcard", "external_sd", "external_sdcard", "emmc", "internal_sd",
                          "internal_sdcard"}
    <2>1. Known(e) = e
      BY <1>5 DEF Known
    <2>2. QED
      BY <2>1 DEF Same
  <1>6. QED
    BY <1>1, <1>2, <1>3, <1>4, <1>5, <1>7

LEMMA ByFileSystemFacts ==
  ASSUME NEW e \in Entries, e.settings => e.storage
  PROVE  /\ Same(ByFileSystem(e), e)
         /\ ByFileSystem(e).settings => ByFileSystem(e).storage
         /\ ByFileSystem(e).at = e.at \/ (ByFileSystem(e).at = Root /\ e.at = "system")
  <1>1. CASE e.fs \in Images
    <2> DEFINE b == e.at \in {"boot", "init_boot"}
    <2>1. b \in BOOLEAN
      OBVIOUS
    <2>2. ByFileSystem(e) = [e EXCEPT !.backup = b]
      BY <1>1 DEF ByFileSystem
    <2> HIDE DEF b
    <2>3. QED
      BY <2>1, <2>2 DEF Same, Entries
  <1>2. CASE e.fs \notin Images
    <2> DEFINE m == [e EXCEPT !.mount = TRUE, !.wipe = TRUE]
    <2>1. Same(m, e) /\ m \in Entries /\ m.at = e.at /\ m.settings = e.settings /\ m.storage = e.storage
      BY DEF Same, Entries
    <2>2. ByFileSystem(e) = Known(m)
      BY <1>2 DEF ByFileSystem
    <2> HIDE DEF m
    <2>3. QED
      BY <2>1, <2>2, KnownFacts DEF Same
  <1>3. QED
    BY <1>1, <1>2

LEMMA DescribedFacts ==
  ASSUME NEW id \in Nat, NEW l \in Lines, NEW from \in Files, NEW overlay \in BOOLEAN
  PROVE  LET d == Described(Entry(id, l, from), l, overlay)
         IN /\ d \in Entries /\ d.id = id /\ d.from = from /\ d.mtp = 0
            /\ d.fs = l.fs /\ d.opts = {l.fs}
            /\ d.settings => d.storage
            /\ d.at = l.at \/ (d.at = Root /\ l.at = "system")
            /\ d.super => \/ "logical" \in l.flags
                          \/ overlay /\ \E f \in FlagLines(d.at) : "logical" \in f.flags
  <1> DEFINE e == Entry(id, l, from)
             p == ~l.sysfs /\ (IF overlay /\ FlagLines(l.at) # {} THEN (CHOOSE f \in FlagLines(l.at) : TRUE).dev
                               ELSE l.dev) \in nodes
             e0 == [e EXCEPT !.present = p]
             known == ByFileSystem(e0)
             k1 == [known EXCEPT !.storage = @ \/ l.sysfs, !.gui = @ \/ l.sysfs]
             plain == Flagged(k1, l.flags)
             p1 == [plain EXCEPT !.opts = {l.fs}]
             more == UNION {f.flags : f \in IF overlay THEN FlagLines(plain.at) ELSE {}}
             d == Flagged(p1, more)
  <1>1. Described(e, l, overlay) = d
    BY Zenon DEF Described
  <1>2. e \in Entries /\ e.id = id /\ e.at = l.at /\ e.fs = l.fs /\ e.from = from /\ e.mtp = 0
        /\ ~e.settings /\ ~e.super
    BY NewEntry
  <1>3. l.fs \in Words /\ l.sysfs \in BOOLEAN
    BY DEF Lines
  <1> HIDE DEF e
  <1>4. p \in BOOLEAN
    BY <1>3
  <1> HIDE DEF p
  <1>5. e0 \in Entries /\ Same(e0, e) /\ e0.at = e.at /\ (e0.settings => e0.storage)
    BY <1>2, <1>4 DEF Same, Entries
  <1> HIDE DEF e0
  <1>6. Same(known, e0) /\ (known.settings => known.storage)
        /\ (known.at = e0.at \/ (known.at = Root /\ e0.at = "system"))
    BY <1>5, ByFileSystemFacts
  <1> HIDE DEF known
  <1>7. Same(k1, known) /\ k1.at = known.at /\ (k1.settings => k1.storage)
    <2>1. known \in Entries
      BY <1>6 DEF Same
    <2>2. PICK x \in BOOLEAN, y \in BOOLEAN : x = (known.storage \/ l.sysfs) /\ y = (known.gui \/ l.sysfs)
      BY <1>3, <2>1 DEF Entries
    <2>3. k1 = [known EXCEPT !.storage = x, !.gui = y]
      BY <2>2
    <2>4. QED
      BY <1>6, <2>1, <2>2, <2>3 DEF Same, Entries
  <1> HIDE DEF k1
  <1>8. plain \in Entries /\ plain.id = k1.id /\ plain.at = k1.at /\ plain.fs = k1.fs
        /\ plain.from = k1.from /\ plain.mtp = k1.mtp /\ (plain.settings => plain.storage)
        /\ (plain.super => k1.super \/ "logical" \in l.flags)
    BY <1>7, FlaggedFacts DEF Same
  <1> HIDE DEF plain
  <1>9. p1 \in Entries /\ p1.id = plain.id /\ p1.at = plain.at /\ p1.fs = plain.fs
        /\ p1.from = plain.from /\ p1.mtp = plain.mtp /\ p1.opts = {l.fs}
        /\ p1.settings = plain.settings /\ p1.storage = plain.storage /\ p1.super = plain.super
    BY <1>3, <1>8 DEF Entries
  <1> HIDE DEF p1
  <1>10. d \in Entries /\ d.id = p1.id /\ d.at = p1.at /\ d.fs = p1.fs
         /\ d.from = p1.from /\ d.mtp = p1.mtp /\ d.opts = p1.opts /\ (d.settings => d.storage)
         /\ (d.super => p1.super \/ "logical" \in more)
    BY <1>8, <1>9, FlaggedFacts
  <1>11. "logical" \in more => overlay /\ \E f \in FlagLines(plain.at) : "logical" \in f.flags
    OBVIOUS
  <1> HIDE DEF d, more
  <1>12. QED
    <2>1. d.at = plain.at /\ plain.at = k1.at
      BY <1>8, <1>9, <1>10
    <2>2. d.super => \/ "logical" \in l.flags
                     \/ overlay /\ \E f \in FlagLines(d.at) : "logical" \in f.flags
      BY <1>2, <1>5, <1>6, <1>7, <1>8, <1>9, <1>10, <1>11, <2>1 DEF Same
    <2>3. d \in Entries /\ d.id = id /\ d.from = from /\ d.mtp = 0
            /\ d.fs = l.fs /\ d.opts = {l.fs} /\ (d.settings => d.storage)
            /\ (d.at = l.at \/ (d.at = Root /\ l.at = "system"))
      BY <1>2, <1>5, <1>6, <1>7, <1>8, <1>9, <1>10 DEF Same
    <2>4. QED
      BY <1>1, <2>2, <2>3 DEF e

Names == {Data, Metadata}

LEMMA NamesAre ==
  /\ Data # Metadata /\ Root \notin Names /\ "system" \notin Names /\ "super" \notin Names
  /\ "none" \notin Names /\ Vendor \notin Names /\ "vendor_dlkm" \notin Names /\ Odm \notin Names
  /\ Canonical(Data) = Data /\ Canonical(Metadata) = Metadata
  BY DEF Names, Data, Metadata, Root, Vendor, Odm, Canonical

(* What the code makes of a line: an entry of its own for a mount point     *)
(* that is not in the list, or more options for the first one that is.      *)
Kept(r, t, l, overlay, from) ==
  /\ r.keep /\ r.table = t /\ l.fs \in FileSystems \cup Images
  /\ r.e \in Entries /\ r.e.id = made + 1 /\ r.e.from = from /\ r.e.mtp = 0
  /\ r.e.fs = l.fs /\ r.e.opts = {l.fs} /\ (r.e.settings => r.e.storage)
  /\ r.e.at = l.at \/ (r.e.at = Root /\ l.at = "system")
  /\ r.e.super => \/ "logical" \in l.flags
                  \/ overlay /\ \E f \in FlagLines(r.e.at) : "logical" \in f.flags
  /\ from # "flags" => \A i \in DOMAIN t : t[i].at # Canonical(l.at)
Left(r, t, l, from) ==
  /\ ~r.keep /\ r.e = NoEntry
  /\ \/ /\ r.table = t /\ l.fs \notin FileSystems \cup Images
        /\ from # "flags" => \A i \in DOMAIN t : t[i].at # Canonical(l.at)
     \/ \E i \in DOMAIN t : /\ t[i].at = Canonical(l.at)
                            /\ r.table = [t EXCEPT ![i].opts = @ \cup {l.fs}]

LEMMA LineFacts ==
  ASSUME NEW t \in Seq(Entries), NEW l \in Lines, NEW overlay \in BOOLEAN, NEW from \in Files,
         made \in Nat
  PROVE  LET r == Process_Fstab_Line(t, l, overlay, from)
         IN Kept(r, t, l, overlay, from) \/ Left(r, t, l, from)
  <1> DEFINE i == IF from = "flags" THEN 0 ELSE Find_Partition_By_Path(t, l.at)
             r == Process_Fstab_Line(t, l, overlay, from)
             d == Described(Entry(made + 1, l, from), l, overlay)
  <1>1. /\ i \in 0..Len(t)
        /\ i # 0 => t[i].at = Canonical(l.at)
        /\ i = 0 /\ from # "flags" => \A j \in DOMAIN t : t[j].at # Canonical(l.at)
    BY Find
  <1>2. r = CASE i # 0 -> [keep |-> FALSE, e |-> NoEntry, table |-> [t EXCEPT ![i].opts = @ \cup {l.fs}]]
              [] i = 0 /\ l.fs \notin FileSystems \cup Images -> [keep |-> FALSE, e |-> NoEntry, table |-> t]
              [] OTHER -> [keep |-> TRUE, e |-> d, table |-> t]
    BY DEF Process_Fstab_Line
  <1> HIDE DEF i, r
  <1>3. CASE i # 0
    <2>1. r = [keep |-> FALSE, e |-> NoEntry, table |-> [t EXCEPT ![i].opts = @ \cup {l.fs}]]
      BY <1>2, <1>3
    <2>2. i \in DOMAIN t
      BY <1>1, <1>3
    <2>3. Left(r, t, l, from)
      BY <1>1, <1>3, <2>1, <2>2 DEF Left
    <2>4. QED
      BY <2>3 DEF r
  <1>4. CASE i = 0 /\ l.fs \notin FileSystems \cup Images
    <2>1. r = [keep |-> FALSE, e |-> NoEntry, table |-> t]
      BY <1>2, <1>4
    <2>2. Left(r, t, l, from)
      BY <1>1, <1>4, <2>1 DEF Left
    <2>3. QED
      BY <2>2 DEF r
  <1>5. CASE i = 0 /\ l.fs \in FileSystems \cup Images
    <2>1. r = [keep |-> TRUE, e |-> d, table |-> t]
      BY <1>2, <1>5
    <2>2. /\ d \in Entries /\ d.id = made + 1 /\ d.from = from /\ d.mtp = 0
          /\ d.fs = l.fs /\ d.opts = {l.fs} /\ (d.settings => d.storage)
          /\ d.at = l.at \/ (d.at = Root /\ l.at = "system")
          /\ d.super => \/ "logical" \in l.flags
                        \/ overlay /\ \E f \in FlagLines(d.at) : "logical" \in f.flags
      BY DescribedFacts
    <2> HIDE DEF d
    <2>3. Kept(r, t, l, overlay, from)
      BY <1>1, <1>5, <2>1, <2>2 DEF Kept
    <2>4. QED
      BY <2>3 DEF r
  <1>6. QED
    BY <1>3, <1>4, <1>5

-----------------------------------------------------------------------------
(* The invariant of the list.  Every state the start goes through has it;  *)
(* TLC checks it on the instance as well.                                  *)

(* The entries: every one has an id of its own, and so has the one that     *)
(* waits for its device.                                                    *)
Numbered(t, n) == Distinct(t) /\ \A i \in DOMAIN t : t[i].id \in 1..n

Waits ==
    waiting # NoEntry =>
       /\ waiting.id \in 1..made /\ waiting.at \notin Names /\ waiting.mtp = 0
       /\ waiting.settings => waiting.storage
       /\ phase \in {"recovery", "vendor", "fastboot"}
       /\ phase = "recovery" => waiting.from # "vendor"
       /\ IF phase = "fastboot"
          THEN \A i \in DOMAIN table : table[i].id = waiting.id => table[i].at = waiting.at
          ELSE \A i \in DOMAIN table : table[i].id # waiting.id

(* A pointer is to an entry for its name, and an entry for it has one,      *)
(* which the lines read so far are enough to tell.                          *)
One(t, v, p) ==
    /\ p # 0 => \E i \in DOMAIN t : t[i].id = p /\ t[i].at = v
    /\ \A i \in DOMAIN t : t[i].at = v => t[i].id = p

Usable(v, k) == RecoveryFstab[k].at = v /\ RecoveryFstab[k].fs \in FileSystems
Listed(v, p) ==
    /\ phase = "recovery" => \A k \in DOMAIN RecoveryFstab : k < next /\ Usable(v, k) => p # 0
    /\ phase = "flags" => \A k \in DOMAIN RecoveryFstab : Usable(v, k) => p # 0
Pointers ==
    /\ One(table, Data, data) /\ One(table, Metadata, meta)
    /\ Listed(Data, data) /\ Listed(Metadata, meta)

(* What the lines of the installed system's fstab read so far say.          *)
Says(t, v, k) == \E i \in DOMAIN t : /\ t[i].at = v /\ t[i].fs = vendorFstab[k].fs
                                     /\ t[i].opts = {t[i].fs}
LastBefore(v, k, n) == vendorFstab[k].at = v /\ \A j \in DOMAIN vendorFstab : k < j /\ j < n => vendorFstab[j].at # v
FromVendor(t) == \E i \in DOMAIN t : t[i].from = "vendor"
VendorSays ==
    /\ phase \in {"begin", "failed", "recovery", "flags"} => ~FromVendor(table)
    /\ phase = "vendor" /\ VendorIsClear =>
         \A v \in Names, k \in DOMAIN vendorFstab : k < next /\ LastBefore(v, k, next) => Says(table, v, k)
    /\ phase \in {"release", "fastboot", "setup", "super", "ready", "unlocked"} /\ VendorIsClear
         /\ FromVendor(table) =>
            \A v \in Names, k \in DOMAIN vendorFstab : IsLastFor(v, k) => Says(table, v, k)

Early == phase \in {"begin", "failed", "recovery", "flags", "vendor", "release", "fastboot"}
SetUp == phase = "super" \/ (phase = "ready" /\ profile.recovery /\ ~profile.skipSetup)
Course ==
    /\ phase \in {"begin", "release"} => next = 1
    /\ phase = "begin" => mapped = {}
    /\ phase = "fastboot" => ~profile.recovery
    /\ phase \in {"setup", "super"} => profile.recovery /\ ~profile.skipSetup

(* Ids for MTP are given in the order of the list.                          *)
Mtp ==
    /\ Early => storageid = FirstId /\ \A i \in DOMAIN table : table[i].mtp = 0
    /\ phase = "ready" /\ profile.skipSetup => \A i \in DOMAIN table : table[i].mtp = 0
    /\ phase # "unlocked" => \A i \in DOMAIN table : table[i].mtp # 0 => table[i].mtp \in FirstId + 1..storageid
    /\ phase = "setup" => /\ next <= Len(table) + 1 /\ storageid < FirstId + next
                          /\ \A i \in DOMAIN table : i >= next => table[i].mtp = 0
    /\ profile.datamedia => \A i \in DOMAIN table :
         table[i].at = Data /\ (SetUp \/ (phase = "setup" /\ i < next)) => table[i].mtp # 0

SettingsKept(t, s) ==
    /\ \A i \in DOMAIN t : t[i].settings => t[i].id = s
    /\ (\E i \in DOMAIN t : t[i].storage) => \E i \in DOMAIN t : t[i].id = s /\ t[i].storage
Settings ==
    /\ \A i \in DOMAIN table : table[i].settings => table[i].storage
    /\ Early => settings = 0
    /\ phase = "setup" =>
         /\ \A i \in DOMAIN table : i < next /\ table[i].settings => table[i].id = settings
         /\ settings # 0 => \E i \in DOMAIN table : table[i].id = settings /\ table[i].storage
    /\ SetUp => SettingsKept(table, settings)

LEMMA FilesAre ==
  /\ RecoveryFstab \in Seq(Lines) /\ FlagsFile \in Seq(Lines)
  /\ \A f \in VendorFstabs : f \in Seq(Lines)
  /\ DOMAIN RecoveryFstab = 1..Len(RecoveryFstab) /\ Len(RecoveryFstab) \in Nat
  BY TableAssumption

(* The type, the entries, what waits, the pointers, what the lines read so *)
(* far decide, the course of the start, and what the set-up gives out: the *)
(* next line or entry needs each of them.                                  *)
TableInv ==
    /\ TypeOK /\ Numbered(table, made) /\ Waits /\ Pointers /\ VendorSays /\ LogicalIsMapped
    /\ Course /\ Mtp /\ UniqueMtpIds /\ Settings

-----------------------------------------------------------------------------
(* The steps that leave the list alone                                     *)

LEMMA BeginInv == TableInv /\ Begin => TableInv'
  <1> SUFFICES ASSUME TableInv, Begin PROVE TableInv'
    OBVIOUS
  <1> USE DEF TableInv, Begin, found
  <1>1. TypeOK'
    BY DEF TypeOK, Course
  <1>2. Numbered(table', made')
    BY DEF Numbered, Distinct
  <1>3. Waits'
    BY DEF Waits
  <1>4. Pointers'
    BY FilesAre DEF Pointers, One, Listed, Course
  <1>5. VendorSays'
    <2>1. VendorIsClear' = VendorIsClear /\ FromVendor(table)' = FromVendor(table)
      BY DEF VendorIsClear, Clear, FromVendor
    <2>2. \A v \in Names, k \in DOMAIN vendorFstab : /\ Says(table, v, k)' = Says(table, v, k)
                                                       /\ IsLastFor(v, k)' = IsLastFor(v, k)
                                                       /\ LastBefore(v, k, next)' = LastBefore(v, k, next)
      BY DEF Says, IsLastFor, LastBefore
    <2>3. QED
      BY <2>1, <2>2 DEF VendorSays
  <1>6. LogicalIsMapped'
    BY DEF LogicalIsMapped
  <1>7. Course'
    BY DEF Course
  <1>8. Mtp'
    BY DEF Mtp, Early, SetUp
  <1>9. UniqueMtpIds'
    BY DEF UniqueMtpIds
  <1>10. Settings'
    BY DEF Settings, SettingsKept, Early, SetUp
  <1>11. QED
    BY <1>1, <1>2, <1>3, <1>4, <1>5, <1>6, <1>7, <1>8, <1>9, <1>10

LEMMA EndOfFileInv == TableInv /\ EndOfFile => TableInv'
  <1> SUFFICES ASSUME TableInv, EndOfFile PROVE TableInv'
    OBVIOUS
  <1> USE DEF TableInv, EndOfFile, found, lines
  <1>1. TypeOK'
    BY DEF TypeOK
  <1>2. Numbered(table', made')
    BY DEF Numbered, Distinct
  <1>3. Waits'
    BY DEF Waits
  <1>4. Pointers'
    <2>1. One(table, Data, data)' /\ One(table, Metadata, meta)'
      BY DEF Pointers, One
    <2>2. ASSUME NEW v \in Names, NEW p, Listed(v, p), phase = "recovery",
                 NEW k \in DOMAIN RecoveryFstab, Usable(v, k)
          PROVE  p # 0
      <3>1. k < next
        BY <2>2, FilesAre DEF TypeOK
      <3>2. QED
        BY <2>2, <3>1 DEF Listed
    <2>3. phase' = "flags" => phase = "recovery"
      OBVIOUS
    <2>4. phase' # "recovery" /\ UNCHANGED <<data, meta>>
      OBVIOUS
    <2>5. Listed(Data, data) /\ Listed(Metadata, meta)
      BY DEF Pointers
    <2>6. Listed(Data, data)' /\ Listed(Metadata, meta)'
      BY <2>2, <2>3, <2>4, <2>5 DEF Listed, Usable, Names
    <2>7. QED
      BY <2>1, <2>6 DEF Pointers
  <1>5. VendorSays'
    <2>1. VendorIsClear' = VendorIsClear /\ FromVendor(table') = FromVendor(table)
          /\ FromVendor(table)' = FromVendor(table)
      BY DEF VendorIsClear, Clear, FromVendor
    <2>2. \A v \in Names, k \in DOMAIN vendorFstab : /\ Says(table, v, k)' = Says(table, v, k)
                                                       /\ IsLastFor(v, k)' = IsLastFor(v, k)
      BY DEF Says, IsLastFor
    <2>3. CASE phase = "vendor"
      <3>1. DOMAIN vendorFstab = 1..Len(vendorFstab) /\ next > Len(vendorFstab) /\ Len(vendorFstab) \in Nat
        BY <2>3, FilesAre DEF TypeOK
      <3>2. \A v \in Names, k \in DOMAIN vendorFstab : IsLastFor(v, k) => k < next /\ LastBefore(v, k, next)
        BY <3>1 DEF IsLastFor, LastBefore, TypeOK
      <3>3. QED
        BY <2>1, <2>2, <2>3, <3>2 DEF VendorSays
    <2>4. CASE phase # "vendor"
      BY <2>1, <2>2, <2>4 DEF VendorSays
    <2>5. QED
      BY <2>3, <2>4
  <1>6. LogicalIsMapped'
    BY DEF LogicalIsMapped
  <1>7. Course'
    BY DEF Course
  <1>8. Mtp'
    BY DEF Mtp, Early, SetUp
  <1>9. UniqueMtpIds'
    BY DEF UniqueMtpIds
  <1>10. Settings'
    BY DEF Settings, SettingsKept, Early, SetUp
  <1>11. QED
    BY <1>1, <1>2, <1>3, <1>4, <1>5, <1>6, <1>7, <1>8, <1>9, <1>10

LEMMA EndOfFlagsInv == TableInv /\ EndOfFlags => TableInv'
  <1> SUFFICES ASSUME TableInv, EndOfFlags PROVE TableInv'
    OBVIOUS
  <1> USE DEF TableInv, EndOfFlags, found
  <1>1. TypeOK'
    <2>1. mnt' \subseteq {Vendor, Odm, Root}
      BY DEF TypeOK, Mountable, InTable
    <2>2. QED
      BY <2>1 DEF TypeOK
  <1>2. Numbered(table', made')
    BY DEF Numbered, Distinct
  <1>3. Waits'
    BY DEF Waits
  <1>4. Pointers'
    BY DEF Pointers, One, Listed
  <1>5. VendorSays'
    <2>1. VendorIsClear' = VendorIsClear /\ FromVendor(table)' = FromVendor(table)
      BY DEF VendorIsClear, Clear, FromVendor
    <2>2. \A v \in Names, k \in DOMAIN vendorFstab : /\ Says(table, v, k)' = Says(table, v, k)
                                                       /\ IsLastFor(v, k)' = IsLastFor(v, k)
      BY DEF Says, IsLastFor
    <2>3. ~FromVendor(table)
      BY DEF VendorSays
    <2>4. phase' = "vendor" => \A k \in DOMAIN vendorFstab' : ~(k < next')
      BY FilesAre DEF TypeOK
    <2>5. QED
      BY <2>1, <2>2, <2>3, <2>4 DEF VendorSays
  <1>6. LogicalIsMapped'
    BY DEF LogicalIsMapped
  <1>7. Course'
    BY DEF Course
  <1>8. Mtp'
    BY DEF Mtp, Early, SetUp
  <1>9. UniqueMtpIds'
    BY DEF UniqueMtpIds
  <1>10. Settings'
    BY DEF Settings, SettingsKept, Early, SetUp
  <1>11. QED
    BY <1>1, <1>2, <1>3, <1>4, <1>5, <1>6, <1>7, <1>8, <1>9, <1>10

LEMMA ReleaseInv == TableInv /\ Release => TableInv'
  <1> SUFFICES ASSUME TableInv, Release PROVE TableInv'
    OBVIOUS
  <1> USE DEF TableInv, Release, found, Process_Keymaster_Version
  <1>1. TypeOK'
    BY DEF TypeOK
  <1>2. Numbered(table', made')
    BY DEF Numbered, Distinct
  <1>3. Waits'
    BY DEF Waits
  <1>4. Pointers'
    BY DEF Pointers, One, Listed
  <1>5. VendorSays'
    <2>1. VendorIsClear' = VendorIsClear /\ FromVendor(table') = FromVendor(table) /\ phase' # "vendor"
      BY DEF VendorIsClear, Clear, FromVendor
    <2>2. \A v \in Names, k \in DOMAIN vendorFstab : /\ Says(table, v, k)' = Says(table, v, k)
                                                       /\ IsLastFor(v, k)' = IsLastFor(v, k)
      BY DEF Says, IsLastFor
    <2>3. QED
      BY <2>1, <2>2 DEF VendorSays
  <1>6. LogicalIsMapped'
    BY DEF LogicalIsMapped
  <1>7. Course'
    BY DEF Course
  <1>8. Mtp'
    <2>1. phase' \in {"fastboot", "ready", "setup"} /\ next' = 1 /\ storageid' = FirstId
          /\ (phase' = "ready" => profile.skipSetup) /\ \A i \in DOMAIN table' : table'[i].mtp = 0
      BY DEF Course, Mtp, Early
    <2>2. Len(table') \in Nat /\ FirstId \in Nat
      BY DEF TypeOK, FirstId
    <2>3. profile' = profile
      OBVIOUS
    <2> HIDE DEF Release, TableInv
    <2>4. QED
      BY <2>1, <2>2, <2>3 DEF Mtp, Early, SetUp
  <1>9. UniqueMtpIds'
    BY DEF UniqueMtpIds
  <1>10. Settings'
    <2>1. phase' \in {"fastboot", "ready", "setup"} /\ next' = 1 /\ settings' = 0
          /\ (phase' = "ready" => profile'.skipSetup) /\ table' = table
      BY DEF Course, Settings, Early
    <2>2. \A i \in DOMAIN table : i \in Nat /\ i >= 1
      BY DEF TypeOK
    <2>3. \A i \in DOMAIN table : table[i].settings => table[i].storage
      BY DEF Settings
    <2> HIDE DEF Release, TableInv
    <2>4. QED
      BY <2>1, <2>2, <2>3 DEF Settings, Early, SetUp
  <1>11. QED
    BY <1>1, <1>2, <1>3, <1>4, <1>5, <1>6, <1>7, <1>8, <1>9, <1>10

LEMMA StutterInv == TableInv /\ UNCHANGED vars => TableInv'
  <1> SUFFICES ASSUME TableInv, UNCHANGED vars PROVE TableInv'
    OBVIOUS
  <1> USE DEF TableInv, vars, found
  <1>1. TypeOK'
    BY DEF TypeOK
  <1>2. Numbered(table', made')
    BY DEF Numbered, Distinct
  <1>3. Waits'
    BY DEF Waits
  <1>4. Pointers'
    BY DEF Pointers, One, Listed
  <1>5. VendorSays'
    <2>1. VendorIsClear' = VendorIsClear /\ FromVendor(table)' = FromVendor(table)
      BY DEF VendorIsClear, Clear, FromVendor
    <2>2. \A v \in Names, k \in DOMAIN vendorFstab : /\ Says(table, v, k)' = Says(table, v, k)
                                                       /\ IsLastFor(v, k)' = IsLastFor(v, k)
                                                       /\ LastBefore(v, k, next)' = LastBefore(v, k, next)
      BY DEF Says, IsLastFor, LastBefore
    <2>3. QED
      BY <2>1, <2>2 DEF VendorSays
  <1>6. LogicalIsMapped'
    BY DEF LogicalIsMapped
  <1>7. Course'
    BY DEF Course
  <1>8. Mtp'
    BY DEF Mtp, Early, SetUp
  <1>9. UniqueMtpIds'
    BY DEF UniqueMtpIds
  <1>10. Settings'
    BY DEF Settings, SettingsKept, Early, SetUp
  <1>11. QED
    BY <1>1, <1>2, <1>3, <1>4, <1>5, <1>6, <1>7, <1>8, <1>9, <1>10

LEMMA UeventdInv == TableInv /\ Ueventd => TableInv'
  <1> SUFFICES ASSUME TableInv, Ueventd PROVE TableInv'
    OBVIOUS
  <1> USE DEF TableInv, Ueventd, found
  <1>1. TypeOK'
    BY DEF TypeOK
  <1>2. Numbered(table', made')
    BY DEF Numbered, Distinct
  <1>3. Waits'
    BY DEF Waits
  <1>4. Pointers'
    BY DEF Pointers, One, Listed
  <1>5. VendorSays'
    <2>1. VendorIsClear' = VendorIsClear /\ FromVendor(table)' = FromVendor(table)
      BY DEF VendorIsClear, Clear, FromVendor
    <2>2. \A v \in Names, k \in DOMAIN vendorFstab : /\ Says(table, v, k)' = Says(table, v, k)
                                                       /\ IsLastFor(v, k)' = IsLastFor(v, k)
                                                       /\ LastBefore(v, k, next)' = LastBefore(v, k, next)
      BY DEF Says, IsLastFor, LastBefore
    <2>3. QED
      BY <2>1, <2>2 DEF VendorSays
  <1>6. LogicalIsMapped'
    BY DEF LogicalIsMapped
  <1>7. Course'
    BY DEF Course
  <1>8. Mtp'
    BY DEF Mtp, Early, SetUp
  <1>9. UniqueMtpIds'
    BY DEF UniqueMtpIds
  <1>10. Settings'
    BY DEF Settings, SettingsKept, Early, SetUp
  <1>11. QED
    BY <1>1, <1>2, <1>3, <1>4, <1>5, <1>6, <1>7, <1>8, <1>9, <1>10

(* The start begins with an empty list. *)
LEMMA TableInitInv == Init => TableInv
  <1> SUFFICES ASSUME Init PROVE TableInv
    OBVIOUS
  <1> USE DEF Init
  <1>1. table \in Seq(Entries) /\ DOMAIN table = {} /\ Len(table) = 0
    OBVIOUS
  <1>2. TypeOK
    BY <1>1, NoEntryIs DEF TypeOK, FirstId
  <1>3. Numbered(table, made) /\ Waits /\ LogicalIsMapped /\ Course /\ UniqueMtpIds
    BY <1>1 DEF Numbered, Distinct, Waits, LogicalIsMapped, Course, UniqueMtpIds
  <1>4. Pointers
    BY <1>1 DEF Pointers, One, Listed
  <1>5. VendorSays
    BY <1>1 DEF VendorSays, FromVendor
  <1>6. Mtp
    BY <1>1 DEF Mtp, Early, SetUp
  <1>7. Settings
    BY <1>1 DEF Settings, Early, SetUp
  <1>8. QED
    BY <1>2, <1>3, <1>4, <1>5, <1>6, <1>7 DEF TableInv

LEMMA PreparePartsInv == TableInv /\ PrepareParts => TableInv'
  <1> SUFFICES ASSUME TableInv, PrepareParts PROVE TableInv'
    OBVIOUS
  <1> USE DEF TableInv, PrepareParts, found
  <1> DEFINE i == Find_Partition_By_Path(table, prepareParts[next])
  <1>1. \/ waiting' = NoEntry
        \/ i \in DOMAIN table /\ waiting' = table[i] /\ waiting'.at \notin Names /\ phase' = "fastboot"
    <2>1. CASE next > Len(prepareParts)
      BY <2>1
    <2>2. CASE next <= Len(prepareParts)
      <3>1. next \in 1..4
        BY <2>2 DEF TypeOK, prepareParts
      <3>2. Canonical(prepareParts[next]) \notin Names
        BY <3>1, NamesAre DEF prepareParts, Canonical
      <3>3. i \in 0..Len(table) /\ (i # 0 => table[i].at = Canonical(prepareParts[next]))
        BY Find DEF TypeOK
      <3> HIDE DEF i
      <3>4. waiting' = NoEntry \/ (i # 0 /\ waiting' = table[i])
        BY <2>2 DEF i
      <3>5. phase' = "fastboot"
        BY <2>2, <3>1 DEF prepareParts
      <3>6. i # 0 => i \in DOMAIN table
        BY <3>3 DEF TypeOK
      <3>7. QED
        BY <3>2, <3>3, <3>4, <3>5, <3>6 DEF i
    <2>3. next \in Nat /\ Len(prepareParts) = 4
      BY DEF TypeOK, prepareParts
    <2>4. QED
      BY <2>1, <2>2, <2>3
  <1>2. phase' \in {"fastboot", "ready"} /\ next' \in Nat \ {0} /\ table' = table
    BY DEF TypeOK
  <1>3. waiting' \in Entries
    BY <1>1, NoEntryIs DEF TypeOK
  <1>4. TypeOK'
    BY <1>2, <1>3 DEF TypeOK
  <1>5. Numbered(table', made')
    BY DEF Numbered, Distinct
  <1>6. Waits'
    <2>1. SUFFICES ASSUME i \in DOMAIN table, waiting' = table[i], waiting'.at \notin Names, phase' = "fastboot"
                   PROVE  Waits'
      BY <1>1 DEF Waits
    <2> HIDE DEF i
    <2>2. waiting'.id \in 1..made /\ (\A j \in DOMAIN table : table[j].id = waiting'.id => j = i)
      BY <2>1 DEF Numbered, Distinct
    <2>3. waiting'.mtp = 0 /\ (waiting'.settings => waiting'.storage)
      BY <2>1 DEF Mtp, Settings, Early
    <2>4. QED
      BY <1>2, <2>1, <2>2, <2>3 DEF Waits
  <1>7. Pointers'
    BY DEF Pointers, One, Listed
  <1>8. VendorSays'
    <2>1. VendorIsClear' = VendorIsClear /\ FromVendor(table)' = FromVendor(table)
      BY DEF VendorIsClear, Clear, FromVendor
    <2>2. \A v \in Names, k \in DOMAIN vendorFstab : /\ Says(table, v, k)' = Says(table, v, k)
                                                       /\ IsLastFor(v, k)' = IsLastFor(v, k)
      BY DEF Says, IsLastFor
    <2>3. QED
      BY <1>2, <2>1, <2>2 DEF VendorSays
  <1>9. LogicalIsMapped' /\ UniqueMtpIds'
    BY DEF LogicalIsMapped, UniqueMtpIds
  <1>10. Course'
    BY DEF Course
  <1>11. Mtp'
    <2>1. storageid' = FirstId /\ \A j \in DOMAIN table' : table'[j].mtp = 0
      BY DEF Mtp, Early
    <2>2. ~SetUp'
      BY DEF Course, SetUp
    <2> HIDE DEF PrepareParts, TableInv
    <2>3. QED
      BY <1>2, <2>1, <2>2 DEF Mtp
  <1>12. Settings'
    BY DEF Settings, Early, SetUp, Course
  <1>13. QED
    BY <1>4, <1>5, <1>6, <1>7, <1>8, <1>9, <1>10, <1>11, <1>12

-----------------------------------------------------------------------------
(* The steps that add an entry to the list or rewrite some                 *)

(* One more entry at the end of the list.                                   *)
More(u, t, e) ==
  /\ t \in Seq(Entries) /\ u \in Seq(Entries) /\ Len(u) = Len(t) + 1 /\ Len(t) \in Nat
  /\ DOMAIN t = 1..Len(t) /\ DOMAIN u = 1..(Len(t) + 1)
  /\ \A i \in DOMAIN t : i \in DOMAIN u /\ u[i] = t[i]
  /\ \A i \in DOMAIN u : i \in DOMAIN t \/ (i = Len(u) /\ u[i] = e)
  /\ Len(u) \in DOMAIN u /\ u[Len(u)] = e /\ Len(u) \notin DOMAIN t

LEMMA Appended ==
  ASSUME NEW t \in Seq(Entries), NEW e \in Entries
  PROVE  More(Append(t, e), t, e)
  BY DEF More

LEMMA MoreFacts ==
  ASSUME NEW u, NEW t, NEW e, More(u, t, e)
  PROVE  /\ \A n, m \in Nat : Numbered(t, n) /\ n <= m /\ e.id \in 1..m /\ (\A i \in DOMAIN t : t[i].id # e.id)
                                 => Numbered(u, m)
         /\ \A v, p : One(t, v, p) /\ e.at # v => One(u, v, p)
         /\ \A v, k : Says(t, v, k) => Says(u, v, k)
         /\ FromVendor(u) <=> FromVendor(t) \/ e.from = "vendor"
  <1>1. \A n, m \in Nat : Numbered(t, n) /\ n <= m /\ e.id \in 1..m /\ (\A i \in DOMAIN t : t[i].id # e.id)
                            => Numbered(u, m)
    BY DEF More, Numbered, Distinct
  <1>2. \A v, p : One(t, v, p) /\ e.at # v => One(u, v, p)
    BY DEF More, One
  <1>3. \A v, k : Says(t, v, k) => Says(u, v, k)
    BY DEF More, Says
  <1>4. FromVendor(u) <=> FromVendor(t) \/ e.from = "vendor"
    BY DEF More, FromVendor
  <1>5. QED
    BY <1>1, <1>2, <1>3, <1>4

(* A list with other entries of the same ids, names and origins.            *)
Kin(u, t) ==
  /\ t \in Seq(Entries) /\ u \in Seq(Entries) /\ Len(u) = Len(t) /\ DOMAIN u = DOMAIN t
  /\ \A i \in DOMAIN t : /\ u[i].id = t[i].id /\ u[i].at = t[i].at /\ u[i].fs = t[i].fs
                         /\ u[i].from = t[i].from /\ u[i].super = t[i].super

LEMMA KinFacts ==
  ASSUME NEW u, NEW t, Kin(u, t)
  PROVE  /\ \A n : Numbered(t, n) => Numbered(u, n)
         /\ \A v, p : One(t, v, p) => One(u, v, p)
         /\ FromVendor(u) <=> FromVendor(t)
         /\ (\A i \in DOMAIN t : u[i].opts = t[i].opts) => \A v, k : Says(t, v, k) => Says(u, v, k)
  <1>1. \A n : Numbered(t, n) => Numbered(u, n)
    BY DEF Kin, Numbered, Distinct
  <1>2. \A v, p : One(t, v, p) => One(u, v, p)
    BY DEF Kin, One
  <1>3. FromVendor(u) <=> FromVendor(t)
    BY DEF Kin, FromVendor
  <1>4. (\A i \in DOMAIN t : u[i].opts = t[i].opts) => \A v, k : Says(t, v, k) => Says(u, v, k)
    BY DEF Kin, Says
  <1>5. QED
    BY <1>1, <1>2, <1>3, <1>4

LEMMA Rewritten ==
  ASSUME NEW t \in Seq(Entries), NEW u, DOMAIN u = DOMAIN t, u = [i \in DOMAIN t |-> u[i]],
         \A i \in DOMAIN t : u[i] \in Entries
  PROVE  u \in Seq(Entries) /\ Len(u) = Len(t)
  OBVIOUS

(* What VendorSays needs of a step that reads no line of that fstab.        *)
LEMMA VendorKept ==
  ASSUME VendorSays, vendorFstab' = vendorFstab, phase' = phase, next' = next,
         NEW u, u = table',
         phase \in {"begin", "failed", "recovery", "flags"} => ~FromVendor(u),
         \A v, k : Says(table, v, k) => Says(u, v, k),
         phase # "vendor" => (FromVendor(u) => FromVendor(table))
  PROVE  VendorSays'
  <1>1. VendorIsClear' = VendorIsClear
    BY DEF VendorIsClear, Clear
  <1>2. \A v \in Names, k \in DOMAIN vendorFstab : /\ Says(table, v, k)' = Says(u, v, k)
                                                     /\ IsLastFor(v, k)' = IsLastFor(v, k)
                                                     /\ LastBefore(v, k, next)' = LastBefore(v, k, next)
    BY DEF Says, IsLastFor, LastBefore
  <1>3. FromVendor(table)' = FromVendor(u)
    BY DEF FromVendor
  <1>4. QED
    BY <1>1, <1>2, <1>3 DEF VendorSays

LEMMA PrepareSuperVolumeInv == TableInv /\ PrepareSuperVolume => TableInv'
  <1> SUFFICES ASSUME TableInv, PrepareSuperVolume PROVE TableInv'
    OBVIOUS
  <1> USE DEF TableInv
  <1>0. /\ waiting # NoEntry /\ waiting \in Entries /\ waiting.at \in dms /\ waiting' = NoEntry
        /\ UNCHANGED <<found, mapped, dms, mnt, phase, next, data, meta, made, settings, storageid>>
        /\ table \in Seq(Entries) /\ made \in Nat /\ DOMAIN table = 1..Len(table) /\ Len(table) \in Nat
        /\ Early /\ phase \in {"recovery", "vendor", "fastboot"}
    BY DEF PrepareSuperVolume, TypeOK, Waits, Early
  <1>1. CASE phase = "fastboot"
    <2> DEFINE u == [i \in DOMAIN table |-> IF table[i].id = waiting.id THEN Prepared(table[i]) ELSE table[i]]
    <2>1. table' = u
      BY <1>1 DEF PrepareSuperVolume
    <2>2. \A i \in DOMAIN table : /\ u[i] \in Entries
                                  /\ u[i].id = table[i].id /\ u[i].at = table[i].at /\ u[i].fs = table[i].fs
                                  /\ u[i].opts = table[i].opts /\ u[i].from = table[i].from
                                  /\ u[i].super = table[i].super /\ u[i].mtp = table[i].mtp
                                  /\ u[i].storage = table[i].storage /\ u[i].settings = table[i].settings
      BY <1>0, EntryFacts
    <2>3. \A i \in DOMAIN table : table[i].id = waiting.id =>
            u[i].dm /\ ~u[i].wipe /\ ~u[i].backup /\ u[i].at \in dms
      <3> SUFFICES ASSUME NEW i \in DOMAIN table, table[i].id = waiting.id
                   PROVE  u[i].dm /\ ~u[i].wipe /\ ~u[i].backup /\ u[i].at \in dms
        OBVIOUS
      <3>1. table[i].at = waiting.at
        BY <1>0, <1>1 DEF Waits
      <3>2. u[i] = Prepared(table[i]) /\ table[i] \in Entries
        BY <1>0
      <3>3. QED
        BY <1>0, <3>1, <3>2, EntryFacts
    <2>4. \A i \in DOMAIN table : table[i].id # waiting.id => u[i] = table[i]
      OBVIOUS
    <2>5. DOMAIN u = DOMAIN table /\ u = [i \in DOMAIN table |-> u[i]]
      OBVIOUS
    <2> HIDE DEF u
    <2>6. u \in Seq(Entries) /\ Len(u) = Len(table)
      BY <1>0, <2>2, <2>5, Rewritten
    <2>7. Kin(u, table)
      BY <1>0, <2>2, <2>5, <2>6 DEF Kin
    <2>8. TypeOK'
      BY <1>0, <2>1, <2>6, NoEntryIs DEF TypeOK, found
    <2>9. Numbered(table', made')
      BY <1>0, <2>1, <2>7, KinFacts
    <2>10. Waits'
      BY <1>0 DEF Waits
    <2>11. Pointers'
      <3>1. One(u, Data, data) /\ One(u, Metadata, meta)
        BY <2>7, KinFacts DEF Pointers
      <3>2. Listed(Data, data)' /\ Listed(Metadata, meta)'
        BY <1>0, <1>1 DEF Listed
      <3>3. QED
        BY <1>0, <2>1, <3>1, <3>2 DEF Pointers
    <2>12. VendorSays'
      <3>1. \A v, k : Says(table, v, k) => Says(u, v, k)
        BY <2>2, <2>7, KinFacts
      <3>2. FromVendor(u) => FromVendor(table)
        BY <2>7, KinFacts
      <3>3. VendorSays /\ vendorFstab' = vendorFstab /\ phase' = phase /\ next' = next
        BY <1>0 DEF found
      <3>4. QED
        BY <1>1, <2>1, <3>1, <3>2, <3>3, VendorKept
    <2>13. LogicalIsMapped'
      <3> SUFFICES ASSUME NEW i \in DOMAIN table, u[i].super, u[i].from = "recovery"
                   PROVE  u[i].dm /\ u[i].at \in dms /\ ~u[i].wipe /\ ~u[i].backup
        BY <1>0, <2>1, <2>5 DEF LogicalIsMapped
      <3>1. CASE table[i].id = waiting.id
        BY <2>3, <3>1
      <3>2. CASE table[i].id # waiting.id
        BY <2>4, <3>2 DEF LogicalIsMapped
      <3>3. QED
        BY <3>1, <3>2
    <2>14. Course'
      BY <1>0 DEF Course, found
    <2>15. Mtp'
      <3>1. ~SetUp' /\ phase' # "setup" /\ phase' # "ready"
        BY <1>0, <1>1 DEF SetUp
      <3>2. storageid' = FirstId /\ \A i \in DOMAIN table' : table'[i].mtp = 0
        BY <1>0, <2>1, <2>2, <2>5 DEF Mtp
      <3>3. QED
        BY <3>1, <3>2 DEF Mtp
    <2>16. UniqueMtpIds'
      BY <1>0, <2>1, <2>2, <2>5 DEF UniqueMtpIds
    <2>17. Settings'
      <3>1. ~SetUp' /\ phase' # "setup" /\ settings' = 0
        BY <1>0, <1>1 DEF SetUp, Settings
      <3>2. \A i \in DOMAIN table' : table'[i].settings => table'[i].storage
        BY <2>1, <2>2, <2>5 DEF Settings
      <3>3. QED
        BY <3>1, <3>2 DEF Settings
    <2>18. QED
      BY <2>8, <2>9, <2>10, <2>11, <2>12, <2>13, <2>14, <2>15, <2>16, <2>17
  <1>2. CASE phase \in {"recovery", "vendor"}
    <2> DEFINE e == Prepared(waiting)
               u == Append(table, e)
    <2>1. table' = u
      BY <1>2 DEF PrepareSuperVolume
    <2>2. /\ e \in Entries /\ e.id = waiting.id /\ e.at = waiting.at /\ e.from = waiting.from /\ e.mtp = waiting.mtp
          /\ e.storage = waiting.storage /\ e.settings = waiting.settings /\ e.dm /\ ~e.wipe /\ ~e.backup
      BY <1>0, EntryFacts
    <2> HIDE DEF e
    <2>3. More(u, table, e)
      BY <1>0, <2>2, Appended
    <2> HIDE DEF u
    <2>4. /\ e.id \in 1..made /\ e.at \notin Names /\ e.mtp = 0 /\ (e.settings => e.storage)
          /\ (phase = "recovery" => e.from # "vendor")
          /\ \A i \in DOMAIN table : table[i].id # e.id
      BY <1>0, <1>2, <2>2 DEF Waits
    <2>5. TypeOK'
      <3>1. u \in Seq(Entries) /\ Len(u) = Len(table) + 1
        BY <2>3 DEF More
      <3>2. QED
        BY <1>0, <2>1, <3>1, NoEntryIs DEF TypeOK, found, FirstId
    <2>6. Numbered(table', made')
      BY <1>0, <2>1, <2>3, <2>4, MoreFacts
    <2>7. Waits'
      BY <1>0 DEF Waits
    <2>8. Pointers'
      <3>1. One(u, Data, data) /\ One(u, Metadata, meta)
        BY <2>3, <2>4, MoreFacts DEF Pointers, Names
      <3>2. Listed(Data, data)' /\ Listed(Metadata, meta)'
        BY <1>0 DEF Listed, Pointers, Usable
      <3>3. QED
        BY <1>0, <2>1, <3>1, <3>2 DEF Pointers
    <2>9. VendorSays'
      <3>1. \A v, k : Says(table, v, k) => Says(u, v, k)
        BY <2>3, MoreFacts
      <3>2. FromVendor(u) <=> FromVendor(table) \/ e.from = "vendor"
        BY <2>3, MoreFacts
      <3>3. VendorSays /\ vendorFstab' = vendorFstab /\ phase' = phase /\ next' = next
        BY <1>0 DEF found
      <3>4. phase = "recovery" => ~FromVendor(u)
        BY <2>4, <3>2 DEF VendorSays
      <3>5. QED
        BY <1>2, <2>1, <3>1, <3>2, <3>3, <3>4, VendorKept
    <2>10. LogicalIsMapped'
      <3> SUFFICES ASSUME NEW i \in DOMAIN u, u[i].super, u[i].from = "recovery"
                   PROVE  u[i].dm /\ u[i].at \in dms /\ ~u[i].wipe /\ ~u[i].backup
        BY <1>0, <2>1 DEF LogicalIsMapped
      <3>1. CASE i \in DOMAIN table
        BY <2>3, <3>1 DEF LogicalIsMapped, More
      <3>2. CASE u[i] = e
        BY <1>0, <2>2, <3>2
      <3>3. QED
        BY <2>3, <3>1, <3>2 DEF More
    <2>11. Course'
      BY <1>0 DEF Course, found
    <2>12. \A i \in DOMAIN u : u[i].mtp = 0 /\ (u[i].settings => u[i].storage)
      BY <1>0, <2>3, <2>4 DEF More, Mtp, Settings
    <2>13. ~SetUp' /\ phase' # "setup" /\ phase' # "ready" /\ storageid' = FirstId /\ settings' = 0
      BY <1>0, <1>2 DEF SetUp, Mtp, Settings
    <2>14. Mtp' /\ UniqueMtpIds' /\ Settings'
      BY <2>1, <2>12, <2>13 DEF Mtp, UniqueMtpIds, Settings
    <2>15. QED
      BY <2>5, <2>6, <2>7, <2>8, <2>9, <2>10, <2>11, <2>14
  <1>3. QED
    BY <1>0, <1>1, <1>2

(* A step that adds an entry with a new id before the set-up.               *)
LEMMA AddedEarly ==
  ASSUME TableInv, NEW u, NEW e, More(u, table, e), u = table',
         phase \in {"recovery", "flags", "vendor"}, phase' = phase, next' \in Nat \ {0},
         e \in Entries, e.id = made + 1, made' = made + 1, e.mtp = 0, e.settings => e.storage,
         waiting' = NoEntry,
         UNCHANGED <<found, mapped, dms, mnt, settings, storageid>>,
         e.super => e.from # "recovery"
  PROVE  Numbered(table', made') /\ Waits' /\ LogicalIsMapped' /\ Course' /\ Mtp' /\ UniqueMtpIds' /\ Settings'
  <1> USE DEF TableInv
  <1>1. made \in Nat
    BY DEF TypeOK
  <1>2. Numbered(table', made')
    <2>1. \A i \in DOMAIN table : table[i].id # e.id
      BY <1>1 DEF Numbered
    <2>2. QED
      BY <1>1, <2>1, MoreFacts
  <1>3. Waits'
    BY DEF Waits
  <1>4. LogicalIsMapped'
    BY DEF LogicalIsMapped, More
  <1>5. Course'
    BY DEF Course
  <1>6. \A i \in DOMAIN u : u[i].mtp = 0 /\ (u[i].settings => u[i].storage)
    BY DEF More, Mtp, Settings, Early
  <1>7. ~SetUp' /\ phase' # "setup" /\ phase' # "ready" /\ storageid' = FirstId /\ settings' = 0
    BY DEF SetUp, Mtp, Settings, Early
  <1>8. Mtp' /\ UniqueMtpIds' /\ Settings'
    BY <1>6, <1>7 DEF Mtp, UniqueMtpIds, Settings
  <1>9. QED
    BY <1>2, <1>3, <1>4, <1>5, <1>8

LEMMA ReadFlagsInv == TableInv /\ ReadFlags => TableInv'
  <1> SUFFICES ASSUME TableInv, ReadFlags PROVE TableInv'
    OBVIOUS
  <1> USE DEF TableInv
  <1> DEFINE l == FlagsFile[next]
             r == Process_Fstab_Line(table, l, FALSE, "flags")
             i == Find_Partition_By_Path(table, l.at)
  <1>0. /\ phase = "flags" /\ next <= Len(FlagsFile) /\ next' = next + 1 /\ made' = made + 1
        /\ UNCHANGED <<found, mapped, dms, mnt, phase, waiting, data, meta, settings, storageid>>
        /\ table \in Seq(Entries) /\ made \in Nat /\ waiting = NoEntry /\ next \in Nat \ {0}
        /\ DOMAIN table = 1..Len(table) /\ Len(table) \in Nat
        /\ table' = IF i = 0 /\ r.keep THEN Append(table, r.e) ELSE table
    BY DEF ReadFlags, TypeOK, Waits
  <1>1. next \in DOMAIN FlagsFile /\ l \in Lines
    BY <1>0, FilesAre
  <1>2. "flags" \in Files /\ FALSE \in BOOLEAN
    BY DEF Files
  <1>3. Kept(r, table, l, FALSE, "flags") \/ Left(r, table, l, "flags")
    BY <1>0, <1>1, <1>2, LineFacts
  <1>4. i = 0 => \A j \in DOMAIN table : table[j].at # Canonical(l.at)
    BY <1>0, Find
  <1> HIDE DEF r, i, l
  <1>5. i = 0 => l.at \notin Names
    <2> SUFFICES ASSUME i = 0, l.at \in Names PROVE FALSE
      OBVIOUS
    <2>1. PICK k \in DOMAIN RecoveryFstab : RecoveryFstab[k].at = l.at /\ RecoveryFstab[k].fs \in FileSystems
      BY <1>1, TableAssumption DEF Names, l
    <2>2. Usable(l.at, k)
      BY <2>1 DEF Usable
    <2>3. \E p : p # 0 /\ One(table, l.at, p)
      BY <1>0, <2>2 DEF Pointers, Listed, Names
    <2>4. \E j \in DOMAIN table : table[j].at = l.at
      BY <2>3 DEF One
    <2>5. QED
      BY <1>4, <2>4, NamesAre DEF Names
  <1>6. Listed(Data, data)' /\ Listed(Metadata, meta)'
    BY <1>0 DEF Listed, Pointers, Usable
  <1>7. CASE i = 0 /\ r.keep
    <2> DEFINE e == r.e
               u == Append(table, e)
    <2>1. table' = u
      BY <1>0, <1>7
    <2>2. /\ e \in Entries /\ e.id = made + 1 /\ e.from = "flags" /\ e.mtp = 0 /\ (e.settings => e.storage)
          /\ (e.at = l.at \/ (e.at = Root /\ l.at = "system"))
      BY <1>3, <1>7 DEF Kept, Left
    <2>3. e.at \notin Names
      BY <1>5, <1>7, <2>2, NamesAre
    <2> HIDE DEF e
    <2>4. More(u, table, e)
      BY <1>0, <2>2, Appended
    <2> HIDE DEF u
    <2>5. TypeOK'
      <3>1. u \in Seq(Entries) /\ Len(u) = Len(table) + 1
        BY <2>4 DEF More
      <3>2. QED
        BY <1>0, <2>1, <3>1, NoEntryIs DEF TypeOK, found, FirstId
    <2>6. Numbered(table', made') /\ Waits' /\ LogicalIsMapped' /\ Course' /\ Mtp' /\ UniqueMtpIds' /\ Settings'
      BY <1>0, <2>1, <2>2, <2>4, AddedEarly
    <2>7. Pointers'
      <3>1. One(u, Data, data) /\ One(u, Metadata, meta)
        BY <2>3, <2>4, MoreFacts DEF Pointers, Names
      <3>2. QED
        BY <1>0, <1>6, <2>1, <3>1 DEF Pointers
    <2>8. VendorSays'
      <3>1. FromVendor(u) <=> FromVendor(table) \/ e.from = "vendor"
        BY <2>4, MoreFacts
      <3>2. ~FromVendor(u)
        BY <1>0, <2>2, <3>1 DEF VendorSays
      <3>3. ~FromVendor(table)'
        BY <2>1, <3>2 DEF FromVendor
      <3>4. QED
        BY <1>0, <3>3 DEF VendorSays
    <2>9. QED
      BY <2>5, <2>6, <2>7, <2>8
  <1>8. CASE ~(i = 0 /\ r.keep)
    <2>1. table' = table
      BY <1>0, <1>8
    <2>2. TypeOK'
      <3>1. {data', meta', settings'} \subseteq 0..made'
        BY <1>0 DEF TypeOK
      <3>2. storageid' \in FirstId..(FirstId + Len(table') + 1) /\ table' \in Seq(Entries)
        BY <1>0, <2>1 DEF TypeOK
      <3>3. profile' \in Profiles /\ vendorFstab' \in VendorFstabs /\ dms' \subseteq mapped'
            /\ mnt' \subseteq {Vendor, Odm, Root} /\ waiting' \in Entries
        BY <1>0 DEF TypeOK, found
      <3>4. next' \in Nat \ {0} /\ made' \in Nat /\ phase' = "flags"
        BY <1>0
      <3>5. QED
        BY <3>1, <3>2, <3>3, <3>4 DEF TypeOK
    <2>3. Numbered(table', made') /\ Waits' /\ LogicalIsMapped' /\ Course'
      <3>1. Distinct(table) /\ \A j \in DOMAIN table : table[j].id \in 1..made'
        BY <1>0 DEF Numbered
      <3>0. Numbered(table', made')
        BY <2>1, <3>1 DEF Numbered
      <3>2. Waits' /\ Course'
        BY <1>0 DEF Waits, Course, found
      <3>3. LogicalIsMapped'
        BY <1>0, <2>1 DEF LogicalIsMapped
      <3>4. QED
        BY <3>0, <3>2, <3>3
    <2>4. Pointers'
      BY <1>0, <1>6, <2>1 DEF Pointers, One
    <2>5. VendorSays'
      <3>1. ~FromVendor(table)'
        BY <1>0, <2>1 DEF VendorSays, FromVendor
      <3>2. QED
        BY <1>0, <3>1 DEF VendorSays
    <2>6. Mtp' /\ UniqueMtpIds' /\ Settings'
      <3>1. ~SetUp' /\ Early /\ Early' /\ phase' # "setup" /\ phase' # "ready"
        BY <1>0 DEF SetUp, Early
      <3>2. QED
        BY <1>0, <2>1, <3>1 DEF Mtp, UniqueMtpIds, Settings
    <2>7. QED
      BY <2>2, <2>3, <2>4, <2>5, <2>6
  <1>9. QED
    BY <1>7, <1>8

-----------------------------------------------------------------------------
(* The steps that read a line of an fstab                                  *)

(* What reading a line may leave of the list: entries that were in it, with *)
(* more options perhaps, and a new one.                                     *)
Descends(e, f) ==
  /\ e.id = f.id /\ e.at = f.at /\ e.from = f.from /\ e.super = f.super /\ e.mtp = f.mtp
  /\ e.storage = f.storage /\ e.settings = f.settings /\ e.dm = f.dm /\ e.wipe = f.wipe /\ e.backup = f.backup
Old(e) == \E j \in DOMAIN table : Descends(e, table[j])
New(e) == e.id = made + 1 /\ e.mtp = 0 /\ (e.settings => e.storage) /\ (e.super => e.from # "recovery")

LEMMA GrownEarly ==
  ASSUME TableInv, phase \in {"recovery", "flags", "vendor"}, phase' = phase,
         made' = made + 1, UNCHANGED <<found, mapped, dms, mnt, settings, storageid>>,
         NEW u \in Seq(Entries), u = table', Distinct(u), \A i \in DOMAIN u : Old(u[i]) \/ New(u[i])
  PROVE  Numbered(table', made') /\ LogicalIsMapped' /\ Course' /\ Mtp' /\ UniqueMtpIds' /\ Settings'
  <1> USE DEF TableInv
  <1>1. made \in Nat
    BY DEF TypeOK
  <1>2. Numbered(table', made')
    BY <1>1 DEF Numbered, Old, New, Descends
  <1>4. LogicalIsMapped'
    <2> SUFFICES ASSUME NEW i \in DOMAIN u, u[i].super, u[i].from = "recovery"
                   PROVE  u[i].dm /\ u[i].at \in dms /\ ~u[i].wipe /\ ~u[i].backup
      BY DEF LogicalIsMapped
    <2>1. PICK j \in DOMAIN table : Descends(u[i], table[j])
      BY DEF Old, New
    <2>2. table[j].dm /\ table[j].at \in dms /\ ~table[j].wipe /\ ~table[j].backup
      BY <2>1 DEF LogicalIsMapped, Descends
    <2>3. QED
      BY <2>1, <2>2 DEF Descends
  <1>5. Course'
    BY DEF Course
  <1>6. \A i \in DOMAIN u : u[i].mtp = 0 /\ (u[i].settings => u[i].storage)
    <2> SUFFICES ASSUME NEW i \in DOMAIN u PROVE u[i].mtp = 0 /\ (u[i].settings => u[i].storage)
      OBVIOUS
    <2>1. CASE New(u[i])
      BY <2>1 DEF New
    <2>2. CASE Old(u[i])
      <3>1. PICK j \in DOMAIN table : Descends(u[i], table[j])
        BY <2>2 DEF Old
      <3>2. table[j].mtp = 0 /\ (table[j].settings => table[j].storage)
        BY DEF Mtp, Settings, Early
      <3>3. QED
        BY <3>1, <3>2 DEF Descends
    <2>3. QED
      BY <2>1, <2>2
  <1>7. ~SetUp' /\ phase' # "setup" /\ phase' # "ready" /\ storageid' = FirstId /\ settings' = 0
    BY DEF SetUp, Mtp, Settings, Early
  <1>8. Mtp' /\ UniqueMtpIds' /\ Settings'
    BY <1>6, <1>7 DEF Mtp, UniqueMtpIds, Settings
  <1>9. QED
    BY <1>2, <1>4, <1>5, <1>8

Gone(l) == IF Data \in l.text THEN Data ELSE Metadata

(* Of a list where every id and each of the two names is there once,        *)
(* nothing of that name is left, and what has the other name is.            *)
LEMMA Taken ==
  ASSUME NEW t \in Seq(Entries), NEW v, NEW w, v # w, NEW p, NEW q,
         Distinct(t), \A i \in DOMAIN t : t[i].id # 0, One(t, v, p), One(t, w, q)
  PROVE  /\ \A i \in DOMAIN Erase(t, p) : Erase(t, p)[i].at # v
         /\ One(Erase(t, p), v, 0) /\ One(Erase(t, p), w, q)
         /\ {e \in Range(t) : e.at = w} \subseteq Range(Erase(t, p))
  <1> DEFINE u == Erase(t, p)
  <1>1. /\ u \in Seq(Entries) /\ Distinct(u) /\ Range(u) = {e \in Range(t) : e.id # p}
    BY Erased
  <1> HIDE DEF u
  <1>2. \A i \in DOMAIN u : \E j \in DOMAIN t : u[i] = t[j] /\ t[j].id # p
    BY <1>1 DEF Range
  <1>3. \A i \in DOMAIN t : t[i].id # p => \E j \in DOMAIN u : u[j] = t[i]
    BY <1>1 DEF Range
  <1>4. \A i \in DOMAIN u : u[i].at # v
    BY <1>2 DEF One
  <1>5. One(u, v, 0)
    BY <1>4 DEF One
  <1>6. \A i \in DOMAIN t : t[i].at = w => t[i].id # p
    <2> SUFFICES ASSUME NEW i \in DOMAIN t, t[i].at = w, t[i].id = p PROVE FALSE
      OBVIOUS
    <2>1. p # 0
      OBVIOUS
    <2>2. PICK j \in DOMAIN t : t[j].id = p /\ t[j].at = v
      BY <2>1 DEF One
    <2>3. QED
      BY <2>2 DEF Distinct
  <1>7. \A i \in DOMAIN t : t[i].at = w => \E j \in DOMAIN u : u[j] = t[i]
    BY <1>3, <1>6
  <1>8. One(u, w, q)
    BY <1>2, <1>7 DEF One
  <1>9. {e \in Range(t) : e.at = w} \subseteq Range(u)
    BY <1>7 DEF Range
  <1>10. QED
    BY <1>4, <1>5, <1>8, <1>9 DEF u

LEMMA BeforeFacts ==
  ASSUME TableInv, phase \in {"recovery", "vendor"}, NEW l \in Lines,
         l.at \in Names => l.at \in l.text, l.at = Metadata => l.text = {Metadata}
  PROVE  LET b == Before(l)
         IN /\ b.table \in Seq(Entries) /\ Distinct(b.table)
            /\ \A i \in DOMAIN b.table : \E j \in DOMAIN table : b.table[i] = table[j]
            /\ One(b.table, Data, b.data) /\ One(b.table, Metadata, b.meta)
            /\ b.data \in {0, data} /\ b.meta \in {0, meta}
            /\ phase = "recovery" => b.data = data /\ b.meta = meta
            /\ phase = "vendor" =>
                  /\ l.at \in Names => \A i \in DOMAIN b.table : b.table[i].at # l.at
                  /\ \A v \in Names \ {Gone(l)} : \A i \in DOMAIN table :
                        table[i].at = v => \E j \in DOMAIN b.table : b.table[j] = table[i]
  <1> USE DEF TableInv
  <1> DEFINE b == Before(l)
  <1>1. /\ table \in Seq(Entries) /\ made \in Nat /\ data \in Nat /\ meta \in Nat /\ Numbered(table, made)
        /\ Distinct(table) /\ One(table, Data, data) /\ One(table, Metadata, meta)
        /\ \A i \in DOMAIN table : table[i].id # 0
    BY DEF TypeOK, Pointers, Numbered
  <1>2. CASE phase = "recovery"
    <2>1. b = [table |-> table, data |-> data, meta |-> meta]
      BY <1>2 DEF Before
    <2>2. QED
      BY <1>1, <1>2, <2>1
  <1>3. CASE phase = "vendor" /\ Data \in l.text
    <2> DEFINE u == Erase(table, data)
    <2>1. b = [table |-> u, data |-> 0, meta |-> meta]
      BY <1>3 DEF Before, Forgotten
    <2>2. /\ u \in Seq(Entries) /\ Distinct(u)
          /\ \A i \in DOMAIN u : \E j \in DOMAIN table : u[i] = table[j]
      <3>1. u \in Seq(Entries) /\ Distinct(u) /\ Range(u) = {e \in Range(table) : e.id # data}
        BY <1>1, Erased
      <3> HIDE DEF u
      <3>2. QED
        BY <3>1 DEF Range
    <2>3. /\ \A i \in DOMAIN u : u[i].at # Data
          /\ One(u, Data, 0) /\ One(u, Metadata, meta)
          /\ \A i \in DOMAIN table : table[i].at = Metadata => \E j \in DOMAIN u : u[j] = table[i]
      <3>1. Data # Metadata
        BY NamesAre
      <3>2. /\ \A i \in DOMAIN u : u[i].at # Data
            /\ One(u, Data, 0) /\ One(u, Metadata, meta)
            /\ {e \in Range(table) : e.at = Metadata} \subseteq Range(u)
        BY <1>1, <3>1, Taken
      <3> HIDE DEF u
      <3>3. QED
        BY <3>2 DEF Range
    <2> HIDE DEF u
    <2>4. l.at \in Names => l.at = Data
      BY <1>3, NamesAre DEF Names
    <2>5. Names \ {Gone(l)} = {Metadata}
      BY <1>3, NamesAre DEF Names, Gone
    <2> HIDE DEF b
    <2>6. QED
      BY <1>3, <2>1, <2>2, <2>3, <2>4, <2>5 DEF b
  <1>4. CASE phase = "vendor" /\ Data \notin l.text
    <2> DEFINE u == Erase(table, meta)
    <2>1. b = [table |-> u, data |-> data, meta |-> 0]
      BY <1>4 DEF Before, Forgotten
    <2>2. /\ u \in Seq(Entries) /\ Distinct(u)
          /\ \A i \in DOMAIN u : \E j \in DOMAIN table : u[i] = table[j]
      <3>1. u \in Seq(Entries) /\ Distinct(u) /\ Range(u) = {e \in Range(table) : e.id # meta}
        BY <1>1, Erased
      <3> HIDE DEF u
      <3>2. QED
        BY <3>1 DEF Range
    <2>3. /\ \A i \in DOMAIN u : u[i].at # Metadata
          /\ One(u, Metadata, 0) /\ One(u, Data, data)
          /\ \A i \in DOMAIN table : table[i].at = Data => \E j \in DOMAIN u : u[j] = table[i]
      <3>1. Data # Metadata
        BY NamesAre
      <3>2. /\ \A i \in DOMAIN u : u[i].at # Metadata
            /\ One(u, Metadata, 0) /\ One(u, Data, data)
            /\ {e \in Range(table) : e.at = Data} \subseteq Range(u)
        BY <1>1, <3>1, Taken
      <3> HIDE DEF u
      <3>3. QED
        BY <3>2 DEF Range
    <2> HIDE DEF u
    <2>4. l.at \in Names => l.at = Metadata
      BY <1>4, NamesAre DEF Names
    <2>5. Names \ {Gone(l)} = {Data}
      BY <1>4, NamesAre DEF Names, Gone
    <2> HIDE DEF b
    <2>6. QED
      BY <1>4, <2>1, <2>2, <2>3, <2>4, <2>5 DEF b
  <1>5. QED
    BY <1>2, <1>3, <1>4

(* What the files say of the two names: their lines are about themselves    *)
(* and not logical, and no flag of twrp.flags makes them so.                *)
LEMMA LinesOfNames ==
  ASSUME NEW f \in VendorFstabs \cup {RecoveryFstab}, NEW n \in DOMAIN f
  PROVE  /\ f[n] \in Lines
         /\ f[n].at \in Names => f[n].at \in f[n].text /\ "logical" \notin f[n].flags
         /\ f[n].at = Metadata => f[n].text = {Metadata}
  <1>1. f \in Seq(Lines)
    BY TableAssumption
  <1>2. f[n] \in Lines
    BY <1>1
  <1>3. QED
    BY <1>2, TableAssumption DEF Names

LEMMA FlagsOfNames ==
  ASSUME NEW v \in Names, NEW f \in FlagLines(v)
  PROVE  "logical" \notin f.flags
  BY TableAssumption DEF FlagLines, Names

(* The pointer to the entry of a name after a line was read.                *)
LEMMA Pointed ==
  ASSUME NEW t, NEW e, NEW v, NEW p, NEW u, One(t, v, p), e.id # 0,
         \/ u = t /\ e.at # v
         \/ More(u, t, e) /\ (e.at = v => \A i \in DOMAIN t : t[i].at # v)
  PROVE  One(u, v, Point(p, e, v))
  <1>1. CASE u = t /\ e.at # v
    BY <1>1 DEF Point
  <1>2. CASE More(u, t, e) /\ e.at # v
    BY <1>2, MoreFacts DEF Point
  <1>3. CASE More(u, t, e) /\ e.at = v /\ \A i \in DOMAIN t : t[i].at # v
    BY <1>3 DEF Point, One, More
  <1>4. QED
    BY <1>1, <1>2, <1>3

LEMMA ReadLineInv ==
  ASSUME TableInv, NEW l, ReadLine(l), waiting = NoEntry, next \in DOMAIN lines, l = lines[next],
         phase \in {"recovery", "vendor"}, phase' = phase, next' = next + 1,
         phase = "vendor" => l.text # {},
         UNCHANGED <<found, mapped, dms, mnt, settings, storageid>>
  PROVE  TableInv'
  <1> USE DEF TableInv
  <1> DEFINE b == Before(l)
             t == b.table
             overlay == phase = "recovery"
             r == Process_Fstab_Line(t, l, overlay, phase)
             e == r.e
             u == table'
  <1>1. /\ table \in Seq(Entries) /\ made \in Nat /\ data \in 0..made /\ meta \in 0..made
        /\ next \in Nat \ {0} /\ next \in DOMAIN lines /\ vendorFstab \in VendorFstabs
    BY DEF TypeOK
  <1>2. \E f \in VendorFstabs \cup {RecoveryFstab} : lines = f /\ next \in DOMAIN f
    BY <1>1 DEF lines
  <1>3. /\ l \in Lines /\ (l.at \in Names => l.at \in l.text /\ "logical" \notin l.flags)
        /\ (l.at = Metadata => l.text = {Metadata})
    BY <1>2, LinesOfNames
  <1>4. /\ t \in Seq(Entries) /\ Distinct(t)
        /\ \A i \in DOMAIN t : \E j \in DOMAIN table : t[i] = table[j]
        /\ One(t, Data, b.data) /\ One(t, Metadata, b.meta)
        /\ b.data \in {0, data} /\ b.meta \in {0, meta}
        /\ phase = "recovery" => b.data = data /\ b.meta = meta
        /\ phase = "vendor" =>
              /\ l.at \in Names => \A i \in DOMAIN t : t[i].at # l.at
              /\ \A v \in Names \ {Gone(l)} : \A i \in DOMAIN table :
                    table[i].at = v => \E j \in DOMAIN t : t[j] = table[i]
    BY <1>3, BeforeFacts
  <1>5. Kept(r, t, l, overlay, phase) \/ Left(r, t, l, phase)
    <2>1. phase \in Files /\ overlay \in BOOLEAN
      BY DEF Files
    <2>2. QED
      BY <1>1, <1>3, <1>4, <2>1, LineFacts
  <1>6. /\ data' = Point(b.data, e, Data) /\ meta' = Point(b.meta, e, Metadata)
        /\ table' = IF r.keep /\ ~(r.keep /\ e.super) THEN Append(r.table, e) ELSE r.table
        /\ waiting' = IF r.keep /\ e.super /\ Updatable(e) THEN e ELSE NoEntry
        /\ made' = made + 1
    BY DEF ReadLine
  <1> HIDE DEF b, r
  <1>7. \A i \in DOMAIN t : t[i].id \in 1..made
    BY <1>4 DEF Numbered
  <1>8. Kept(r, t, l, overlay, phase) =>
          /\ e.at \in Names => e.at = l.at /\ ~e.super
          /\ \A v \in Names : e.at = v => \A i \in DOMAIN t : t[i].at # v
    <2> SUFFICES ASSUME Kept(r, t, l, overlay, phase), e.at \in Names
                 PROVE  e.at = l.at /\ ~e.super /\ \A i \in DOMAIN t : t[i].at # e.at
      OBVIOUS
    <2>1. e.at = l.at
      BY NamesAre DEF Kept
    <2>2. ~e.super
      BY <1>3, <2>1, FlagsOfNames DEF Kept
    <2>3. Canonical(l.at) = l.at
      BY <2>1, NamesAre DEF Names
    <2>4. QED
      BY <2>1, <2>2, <2>3 DEF Kept
  <1> DEFINE Outcome ==
               \/ /\ Kept(r, t, l, overlay, phase) /\ ~e.super /\ More(u, t, e) /\ waiting' = NoEntry
               \/ /\ Kept(r, t, l, overlay, phase) /\ e.super /\ e.at \notin Names /\ u = t
                  /\ waiting' \in {NoEntry, e}
               \/ /\ Left(r, t, l, phase) /\ Kin(u, t) /\ waiting' = NoEntry
                  /\ \A i \in DOMAIN t : Descends(u[i], t[i])
  <1>9. Outcome
    <2>1. CASE Kept(r, t, l, overlay, phase) /\ ~e.super
      <3>1. u = Append(t, e) /\ waiting' = NoEntry /\ e \in Entries
        BY <1>6, <2>1 DEF Kept
      <3>2. More(u, t, e)
        BY <1>4, <3>1, Appended
      <3>3. QED
        BY <2>1, <3>1, <3>2
    <2>2. CASE Kept(r, t, l, overlay, phase) /\ e.super
      BY <1>6, <1>8, <2>2 DEF Kept
    <2>3. CASE Left(r, t, l, phase)
      <3>1. u = r.table /\ waiting' = NoEntry
        BY <1>6, <2>3 DEF Left
      <3>2. CASE r.table = t
        BY <1>4, <2>3, <3>1, <3>2 DEF Kin, Descends
      <3>3. CASE \E i \in DOMAIN t : r.table = [t EXCEPT ![i].opts = @ \cup {l.fs}]
        <4>1. PICK i \in DOMAIN t : r.table = [t EXCEPT ![i].opts = @ \cup {l.fs}]
          BY <3>3
        <4> DEFINE f == [t[i] EXCEPT !.opts = @ \cup {l.fs}]
        <4>2. t[i] \in Entries /\ l.fs \in Words
          BY <1>3, <1>4 DEF Lines
        <4>3. f \in Entries /\ Descends(f, t[i]) /\ f.fs = t[i].fs
          BY <4>2 DEF Entries, Descends
        <4>4. u = [t EXCEPT ![i] = f]
          BY <3>1, <4>1
        <4> HIDE DEF f
        <4>5. u \in Seq(Entries) /\ Len(u) = Len(t) /\ DOMAIN u = DOMAIN t
          BY <1>4, <4>3, <4>4
        <4>6. \A j \in DOMAIN t : Descends(u[j], t[j]) /\ u[j].fs = t[j].fs
          BY <4>3, <4>4 DEF Descends
        <4>7. Kin(u, t)
          BY <1>4, <4>5, <4>6 DEF Kin, Descends
        <4>8. QED
          BY <2>3, <3>1, <4>6, <4>7
      <3>4. QED
        BY <2>3, <3>2, <3>3 DEF Left
    <2>4. QED
      BY <1>5, <2>1, <2>2, <2>3
  <1> HIDE DEF u
  <1>10. u \in Seq(Entries) /\ Distinct(u) /\ \A i \in DOMAIN u : Old(u[i]) \/ New(u[i])
    <2>1. \A i \in DOMAIN t : Old(t[i])
      BY <1>4 DEF Old, Descends
    <2>2. CASE Kept(r, t, l, overlay, phase) /\ ~e.super /\ More(u, t, e)
      <3>1. New(e)
        BY <2>2 DEF New, Kept
      <3>2. Distinct(u)
        <4>1. Numbered(t, made) /\ e.id \in 1..(made + 1) /\ made + 1 \in Nat /\ made <= made + 1
          BY <1>1, <1>4, <1>7, <2>2 DEF Numbered, Kept
        <4>2. \A i \in DOMAIN t : t[i].id # e.id
          BY <1>1, <1>7, <2>2 DEF Kept
        <4>3. Numbered(u, made + 1)
          BY <1>1, <2>2, <4>1, <4>2, MoreFacts
        <4>4. QED
          BY <4>3 DEF Numbered
      <3>3. u \in Seq(Entries) /\ \A i \in DOMAIN u : (i \in DOMAIN t /\ u[i] = t[i]) \/ u[i] = e
        BY <2>2 DEF More
      <3>4. QED
        BY <2>1, <3>1, <3>2, <3>3
    <2>3. CASE u = t
      BY <1>4, <2>1, <2>3
    <2>4. CASE Kin(u, t) /\ \A i \in DOMAIN t : Descends(u[i], t[i])
      <3>1. u \in Seq(Entries) /\ Distinct(u) /\ DOMAIN u = DOMAIN t
        BY <1>4, <2>4 DEF Kin, Distinct
      <3>2. \A i \in DOMAIN u : Old(u[i])
        BY <2>1, <2>4, <3>1 DEF Old, Descends
      <3>3. QED
        BY <3>1, <3>2
    <2>5. QED
      BY <1>9, <2>2, <2>3, <2>4
  <1>11. Numbered(table', made') /\ LogicalIsMapped' /\ Course' /\ Mtp' /\ UniqueMtpIds' /\ Settings'
    BY <1>6, <1>10, GrownEarly DEF u
  <1>12. (Kept(r, t, l, overlay, phase) => e \in Entries /\ e.id = made + 1)
         /\ (Left(r, t, l, phase) => e = NoEntry)
    BY DEF Kept, Left
  <1>13. TypeOK'
    <2>1. data' \in 0..made' /\ meta' \in 0..made'
      <3>1. e.at \in Names => e.id = made + 1
        BY <1>5, <1>12, NoEntryIs DEF Names
      <3>2. QED
        BY <1>1, <1>4, <1>6, <3>1 DEF Point, Names
    <2>2. waiting' \in Entries
      BY <1>9, <1>12, NoEntryIs
    <2>3. storageid' \in FirstId..(FirstId + Len(u) + 1) /\ settings' \in 0..made' /\ Len(u) \in Nat
      BY <1>1, <1>6, <1>10 DEF Mtp, Settings, Early, FirstId
    <2>4. profile' \in Profiles /\ vendorFstab' \in VendorFstabs /\ dms' \subseteq mapped'
            /\ mnt' \subseteq {Vendor, Odm, Root}
      BY DEF TypeOK, found
    <2>5. next' \in Nat \ {0} /\ made' \in Nat /\ phase' \in {"recovery", "vendor"}
      BY <1>1, <1>6
    <2>6. QED
      BY <1>10, <2>1, <2>2, <2>3, <2>4, <2>5 DEF TypeOK, u
  <1>14. Waits'
    <2> SUFFICES ASSUME waiting' # NoEntry PROVE Waits'
      BY DEF Waits
    <2>1. Kept(r, t, l, overlay, phase) /\ e.super /\ e.at \notin Names /\ u = t /\ waiting' = e
      BY <1>9
    <2>2. /\ e.id = made + 1 /\ e.mtp = 0 /\ (e.settings => e.storage) /\ e.from = phase
      BY <2>1 DEF Kept
    <2>3. \A i \in DOMAIN u : u[i].id # e.id
      BY <1>1, <1>7, <2>1, <2>2
    <2>4. QED
      BY <1>1, <1>6, <2>1, <2>2, <2>3 DEF Waits, u
  <1>15. One(u, Data, data') /\ One(u, Metadata, meta')
    <2>1. ASSUME NEW v \in Names, NEW p, One(t, v, p) PROVE One(u, v, Point(p, e, v))
      <3>1. CASE Kept(r, t, l, overlay, phase)
        <4>1. e.id # 0 /\ (e.at = v => \A i \in DOMAIN t : t[i].at # v)
          BY <1>1, <1>8, <1>12, <3>1
        <4>2. (u = t /\ e.at # v) \/ More(u, t, e)
          BY <1>9, <3>1 DEF Kept, Left
        <4>3. QED
          BY <2>1, <4>1, <4>2, Pointed
      <3>2. CASE Left(r, t, l, phase)
        <4>1. Kin(u, t) /\ e.at # v
          BY <1>9, <1>12, <3>2, NoEntryIs DEF Kept, Left, Names
        <4>2. QED
          BY <2>1, <4>1, KinFacts DEF Point
      <3>3. QED
        BY <1>5, <3>1, <3>2
    <2>2. QED
      BY <1>4, <1>6, <2>1 DEF Names
  <1>16. Listed(Data, data)' /\ Listed(Metadata, meta)'
    <2>1. ASSUME NEW v \in Names, NEW p, NEW q, One(t, v, p), q = Point(p, e, v), Listed(v, p),
                 phase = "recovery", NEW k \in DOMAIN RecoveryFstab, k < next + 1, Usable(v, k)
          PROVE  q # 0
      <3>1. e.at = v => e.id # 0
        BY <1>1, <1>5, <1>12, NoEntryIs DEF Names
      <3>2. CASE k < next
        BY <2>1, <3>1, <3>2 DEF Listed, Point
      <3>3. CASE k = next
        <4>1. l.at = v /\ l.fs \in FileSystems
          BY <2>1, <3>3 DEF Usable, lines
        <4>2. CASE Kept(r, t, l, overlay, phase)
          <5>1. e.at = v
            BY <4>1, <4>2, NamesAre DEF Kept, Names
          <5>2. QED
            BY <2>1, <3>1, <5>1 DEF Point
        <4>3. CASE Left(r, t, l, phase)
          <5>1. PICK i \in DOMAIN t : t[i].at = Canonical(l.at)
            BY <4>1, <4>3 DEF Left
          <5>2. t[i].at = v /\ t[i].id # 0
            BY <1>7, <4>1, <5>1, NamesAre DEF Names
          <5>3. p # 0
            BY <2>1, <5>2 DEF One
          <5>4. QED
            BY <2>1, <3>1, <5>3 DEF Point
        <4>4. QED
          BY <1>5, <4>2, <4>3
      <3>4. QED
        BY <1>1, <2>1, <3>2, <3>3, FilesAre
    <2>2. CASE phase = "recovery"
      <3>1. Listed(Data, b.data) /\ Listed(Metadata, b.meta)
        BY <1>4, <2>2 DEF Pointers
      <3>2. \A k \in DOMAIN RecoveryFstab : k < next + 1 =>
               (Usable(Data, k) => data' # 0) /\ (Usable(Metadata, k) => meta' # 0)
        BY <1>4, <1>6, <2>1, <2>2, <3>1 DEF Names
      <3>3. QED
        BY <2>2, <3>2 DEF Listed, Usable
    <2>3. CASE phase = "vendor"
      BY <2>3 DEF Listed
    <2>4. QED
      BY <2>2, <2>3
  <1>17. Pointers'
    BY <1>15, <1>16 DEF Pointers, u
  <1>18. VendorSays'
    <2>1. CASE phase = "recovery"
      <3>1. ~FromVendor(table)
        BY <2>1 DEF VendorSays
      <3>2. \A i \in DOMAIN t : t[i].from # "vendor"
        BY <1>4, <3>1 DEF FromVendor
      <3>3. Kept(r, t, l, overlay, phase) => e.from # "vendor"
        BY <2>1 DEF Kept
      <3>4. \A i \in DOMAIN u : u[i].from # "vendor"
        BY <1>9, <3>2, <3>3 DEF More, Kin
      <3>5. ~FromVendor(table)'
        BY <3>4 DEF FromVendor, u
      <3>6. QED
        BY <2>1, <3>5 DEF VendorSays
    <2>2. CASE phase = "vendor"
      <3> SUFFICES ASSUME VendorIsClear, NEW v \in Names, NEW k \in DOMAIN vendorFstab, k < next + 1,
                          LastBefore(v, k, next + 1)
                   PROVE  Says(u, v, k)
        <4>1. vendorFstab' = vendorFstab /\ VendorIsClear' = VendorIsClear
          BY DEF found, VendorIsClear, Clear
        <4>2. \A v \in Names, k \in DOMAIN vendorFstab : /\ Says(table, v, k)' = Says(u, v, k)
                                                         /\ LastBefore(v, k, next)' = LastBefore(v, k, next + 1)
          BY <4>1 DEF Says, LastBefore, u
        <4>3. QED
          BY <2>2, <4>1, <4>2 DEF VendorSays
      <3>1. l = vendorFstab[next] /\ next \in DOMAIN vendorFstab /\ DOMAIN vendorFstab \subseteq Nat
        BY <1>1, <2>2, FilesAre DEF lines
      <3>2. l.at \in l.text /\ l.fs \in FileSystems
        BY <2>2, <3>1 DEF VendorIsClear, Clear
      <3>3. l.at \in Names /\ Gone(l) = l.at
        BY <1>3, <3>2, NamesAre DEF Lines, Names, Gone
      <3>4. \A i \in DOMAIN t : t[i].at # l.at
        BY <1>4, <2>2, <3>3
      <3>5. Kept(r, t, l, overlay, phase)
        BY <1>5, <3>2, <3>3, <3>4, NamesAre DEF Left, Names
      <3>6. e.at = l.at /\ e.fs = l.fs /\ e.opts = {l.fs}
        BY <3>3, <3>5, NamesAre DEF Kept, Names
      <3>7. More(u, t, e)
        BY <1>9, <3>3, <3>5, <3>6 DEF Kept, Left
      <3>8. CASE k = next
        BY <3>1, <3>6, <3>7, <3>8 DEF Says, More, LastBefore
      <3>9. CASE k < next
        <4>1. LastBefore(v, k, next) /\ l.at # v
          BY <1>1, <3>1, <3>9 DEF LastBefore
        <4>2. PICK i \in DOMAIN table : table[i].at = v /\ table[i].fs = vendorFstab[k].fs
                                        /\ table[i].opts = {table[i].fs}
          BY <2>2, <3>9, <4>1 DEF VendorSays, Says
        <4>3. Says(t, v, k)
          BY <1>4, <2>2, <3>3, <4>1, <4>2 DEF Says
        <4>4. QED
          BY <3>7, <4>3, MoreFacts
      <3>10. QED
        BY <1>1, <3>1, <3>8, <3>9
    <2>3. QED
      BY <2>1, <2>2
  <1>19. QED
    BY <1>11, <1>13, <1>14, <1>17, <1>18

LEMMA ReadInv == TableInv /\ Read => TableInv'
  <1> SUFFICES ASSUME TableInv, Read PROVE TableInv'
    OBVIOUS
  <1> USE DEF TableInv
  <1>1. /\ phase \in {"recovery", "vendor"} /\ waiting = NoEntry /\ next <= Len(lines) /\ next' = next + 1
        /\ UNCHANGED <<found, mapped, dms, mnt, phase, settings, storageid>>
        /\ next \in Nat \ {0} /\ vendorFstab \in VendorFstabs
    BY DEF Read, TypeOK
  <1>2. lines \in Seq(Lines)
    BY <1>1, FilesAre DEF lines
  <1>3. next \in DOMAIN lines
    BY <1>1, <1>2
  <1>4. CASE phase = "vendor" /\ lines[next].text = {}
    <2>1. UNCHANGED <<table, waiting, data, meta, made>>
      BY <1>4 DEF Read
    <2>2. TypeOK'
      BY <1>1, <2>1 DEF TypeOK, found
    <2>3. Numbered(table', made') /\ Waits' /\ LogicalIsMapped' /\ UniqueMtpIds'
      BY <1>1, <2>1 DEF Numbered, Distinct, Waits, LogicalIsMapped, UniqueMtpIds
    <2>4. Pointers'
      BY <1>1, <1>4, <2>1 DEF Pointers, One, Listed
    <2>5. Course' /\ Mtp' /\ Settings'
      <3>1. ~SetUp /\ ~SetUp' /\ Early /\ Early' /\ phase' = "vendor"
        BY <1>1, <1>4 DEF SetUp, Early
      <3>2. QED
        BY <1>1, <2>1, <3>1 DEF Mtp, Settings, Course
    <2>6. VendorSays'
      <3>1. lines = vendorFstab /\ next \in DOMAIN vendorFstab /\ DOMAIN vendorFstab \subseteq Nat
        BY <1>1, <1>2, <1>3, <1>4 DEF lines
      <3>2. vendorFstab[next].at \notin Names
        BY <1>1, <1>4, <3>1, LinesOfNames
      <3>3. \A v \in Names, k \in DOMAIN vendorFstab :
               k < next + 1 /\ LastBefore(v, k, next + 1) => k < next /\ LastBefore(v, k, next)
        BY <1>1, <3>1, <3>2 DEF LastBefore
      <3>4. vendorFstab' = vendorFstab /\ VendorIsClear' = VendorIsClear
        BY <1>1 DEF found, VendorIsClear, Clear
      <3>5. \A v \in Names, k \in DOMAIN vendorFstab : /\ Says(table, v, k)' = Says(table, v, k)
                                                       /\ LastBefore(v, k, next)' = LastBefore(v, k, next + 1)
        BY <1>1, <2>1, <3>4 DEF Says, LastBefore
      <3>6. QED
        BY <1>1, <1>4, <3>3, <3>4, <3>5 DEF VendorSays
    <2>7. QED
      BY <2>2, <2>3, <2>4, <2>5, <2>6
  <1>5. CASE ~(phase = "vendor" /\ lines[next].text = {})
    <2>1. ReadLine(lines[next])
      BY <1>5 DEF Read
    <2>2. QED
      BY <1>1, <1>3, <1>5, <2>1, ReadLineInv
  <1>6. QED
    BY <1>4, <1>5

-----------------------------------------------------------------------------
(* The set-up of the entries and what comes after it                       *)

(* What VendorSays needs of a step after the files.                         *)
LEMMA VendorKeptLater ==
  ASSUME VendorSays, vendorFstab' = vendorFstab,
         phase \in {"setup", "super", "ready"}, phase' \in {"setup", "super", "ready", "unlocked"},
         NEW u, u = table', \A v, k : Says(table, v, k) => Says(u, v, k), FromVendor(u) => FromVendor(table)
  PROVE  VendorSays'
  <1>1. VendorIsClear' = VendorIsClear
    BY DEF VendorIsClear, Clear
  <1>2. \A v \in Names, k \in DOMAIN vendorFstab : /\ Says(table, v, k)' = Says(u, v, k)
                                                     /\ IsLastFor(v, k)' = IsLastFor(v, k)
    BY DEF Says, IsLastFor
  <1>3. FromVendor(table)' = FromVendor(u)
    BY DEF FromVendor
  <1>4. QED
    BY <1>1, <1>2, <1>3 DEF VendorSays

(* A step of the set-up and after: it rewrites one entry, d, and only what  *)
(* it is as a storage.                                                      *)
Restored(e, f) == e = [f EXCEPT !.storage = e.storage, !.settings = e.settings, !.mtp = e.mtp]

LEMMA SetupEntryKeeps ==
  ASSUME TableInv, NEW d \in DOMAIN table, NEW e \in Entries, Restored(e, table[d]),
         table' = [table EXCEPT ![d] = e],
         phase \in {"setup", "ready"}, phase' \in {"setup", "super", "ready", "unlocked"},
         vendorFstab' = vendorFstab, waiting' = waiting, dms' = dms, data' = data, meta' = meta, made' = made
  PROVE  /\ table' \in Seq(Entries) /\ DOMAIN table' = DOMAIN table /\ Len(table') = Len(table)
         /\ table'[d] = e /\ \A i \in DOMAIN table \ {d} : table'[i] = table[i]
         /\ Numbered(table', made') /\ Waits' /\ Pointers' /\ VendorSays' /\ LogicalIsMapped'
  <1> USE DEF TableInv
  <1> DEFINE u == table'
  <1>1. table \in Seq(Entries) /\ table[d] \in Entries
    BY DEF TypeOK
  <1>2. /\ e.id = table[d].id /\ e.at = table[d].at /\ e.fs = table[d].fs /\ e.from = table[d].from
        /\ e.super = table[d].super /\ e.opts = table[d].opts /\ e.dm = table[d].dm
        /\ e.wipe = table[d].wipe /\ e.backup = table[d].backup
    BY <1>1 DEF Restored, Entries
  <1>3. /\ u \in Seq(Entries) /\ DOMAIN u = DOMAIN table /\ Len(u) = Len(table)
        /\ u[d] = e /\ \A i \in DOMAIN table \ {d} : u[i] = table[i]
    BY <1>1
  <1>4. \A i \in DOMAIN table :
          /\ u[i].id = table[i].id /\ u[i].at = table[i].at /\ u[i].fs = table[i].fs /\ u[i].from = table[i].from
          /\ u[i].super = table[i].super /\ u[i].opts = table[i].opts /\ u[i].dm = table[i].dm
          /\ u[i].wipe = table[i].wipe /\ u[i].backup = table[i].backup
    BY <1>2, <1>3
  <1>5. Kin(u, table)
    BY <1>1, <1>3, <1>4 DEF Kin
  <1>6. Numbered(table', made')
    BY <1>5, KinFacts
  <1>7. Waits'
    BY DEF Waits
  <1>8. Pointers'
    <2>1. One(u, Data, data) /\ One(u, Metadata, meta)
      BY <1>5, KinFacts DEF Pointers
    <2>2. Listed(Data, data)' /\ Listed(Metadata, meta)'
      BY DEF Listed
    <2>3. QED
      BY <2>1, <2>2 DEF Pointers
  <1>9. VendorSays'
    <2>1. \A v, k : Says(table, v, k) => Says(u, v, k)
      BY <1>4, <1>5, KinFacts
    <2>2. FromVendor(u) => FromVendor(table)
      BY <1>5, KinFacts
    <2>3. QED
      BY <2>1, <2>2, VendorKeptLater
  <1>10. LogicalIsMapped'
    BY <1>3, <1>4 DEF LogicalIsMapped
  <1>11. QED
    BY <1>3, <1>5, <1>6, <1>7, <1>8, <1>9, <1>10

LEMMA SetupEntryInv == TableInv /\ SetupEntry => TableInv'
  <1> SUFFICES ASSUME TableInv, SetupEntry PROVE TableInv'
    OBVIOUS
  <1> USE DEF TableInv
  <1> DEFINE e0 == table[next]
             e == Partition_Post_Processing(e0)
             id == IF e.storage THEN storageid + 1 ELSE storageid
             f == [e EXCEPT !.mtp = IF e.storage THEN id ELSE @, !.settings = Claim(e)]
             u == [table EXCEPT ![next] = f]
  <1>1. /\ phase = "setup" /\ phase' = phase /\ next <= Len(table) /\ next' = next + 1
        /\ UNCHANGED <<found, mapped, dms, mnt, phase, waiting, data, meta, made>>
        /\ storageid' = id /\ table' = u
        /\ settings' = IF Claim(e) /\ settings = 0 THEN e.id ELSE settings
        /\ next \in Nat \ {0} /\ table \in Seq(Entries) /\ storageid \in Nat
        /\ DOMAIN table = 1..Len(table) /\ Len(table) \in Nat /\ made \in Nat /\ settings \in 0..made
    BY DEF SetupEntry, TypeOK, FirstId
  <1>2. next \in DOMAIN table /\ e0 \in Entries
    BY <1>1
  <1>3. /\ e \in Entries /\ e.id = e0.id /\ e.at = e0.at /\ e.mtp = e0.mtp /\ Restored(e, e0)
        /\ (e0.storage => e.storage) /\ (e.settings => e.storage)
        /\ (e.at = Data /\ profile.datamedia => e.storage)
    <2>1. e0.settings => e0.storage
      BY <1>2 DEF Settings
    <2> HIDE DEF e0
    <2>2. QED
      BY <1>2, <2>1 DEF Partition_Post_Processing, Setup_Data_Media, Entries, Restored
  <1>4. e0.mtp = 0
    BY <1>1, <1>2 DEF Mtp
  <1>5. Claim(e) \in BOOLEAN /\ (Claim(e) => e.settings /\ settings = 0)
    BY DEF Claim
  <1> HIDE DEF e0, e
  <1>6. id \in Nat /\ id <= storageid + 1 /\ storageid <= id /\ (e.storage => id = storageid + 1)
    <2>1. e.storage \in BOOLEAN
      BY <1>3 DEF Entries
    <2>2. QED
      BY <1>1, <2>1
  <1> HIDE DEF id
  <1>7. /\ f \in Entries /\ f.id = e.id /\ f.at = e.at /\ f.storage = e.storage /\ f.settings = Claim(e)
        /\ (e.storage => f.mtp = id) /\ (~e.storage => f.mtp = 0) /\ Restored(f, e0)
    BY <1>2, <1>3, <1>4, <1>5, <1>6 DEF Entries, Restored
  <1> HIDE DEF f
  <1>8. /\ u \in Seq(Entries) /\ DOMAIN u = DOMAIN table /\ Len(u) = Len(table)
        /\ u[next] = f /\ \A i \in DOMAIN table \ {next} : u[i] = table[i]
        /\ Numbered(table', made') /\ Waits' /\ Pointers' /\ VendorSays' /\ LogicalIsMapped'
    <2>1. Restored(f, table[next])
      BY <1>7 DEF e0
    <2>2. vendorFstab' = vendorFstab
      BY <1>1 DEF found
    <2>3. /\ table' = [table EXCEPT ![next] = f] /\ table' = u
          /\ phase \in {"setup", "ready"} /\ phase' \in {"setup", "super", "ready", "unlocked"}
          /\ waiting' = waiting /\ dms' = dms /\ data' = data /\ meta' = meta /\ made' = made
      BY <1>1
    <2> HIDE DEF u
    <2>4. QED
      BY <1>2, <1>7, <2>1, <2>2, <2>3, SetupEntryKeeps
  <1> HIDE DEF u
  <1>9. \A i \in DOMAIN table : table[i].id \in 1..made
    BY DEF Numbered
  <1>10. e.id \in 1..made /\ e.id = table[next].id
    BY <1>2, <1>3, <1>9 DEF e0
  <1>11. settings' \in 0..made
    BY <1>1, <1>10
  <1>12. storageid < FirstId + next /\ FirstId \in Nat /\ FirstId <= storageid
    BY <1>1 DEF Mtp, FirstId, TypeOK
  <1>13. TypeOK'
    <2>1. storageid' \in FirstId..(FirstId + Len(u) + 1)
      BY <1>1, <1>6, <1>8, <1>12
    <2>2. profile' \in Profiles /\ vendorFstab' \in VendorFstabs /\ dms' \subseteq mapped'
            /\ mnt' \subseteq {Vendor, Odm, Root} /\ waiting' \in Entries /\ {data', meta'} \subseteq 0..made'
      BY <1>1 DEF TypeOK, found
    <2>3. QED
      BY <1>1, <1>8, <1>11, <2>1, <2>2 DEF TypeOK
  <1>14. Course'
    BY <1>1 DEF Course, found
  <1>15. \A i \in DOMAIN u : i # next => u[i] = table[i]
    BY <1>8
  <1>16. \A i \in DOMAIN u : u[i].mtp # 0 =>
           \/ i # next /\ table[i].mtp = u[i].mtp /\ u[i].mtp \in FirstId + 1..storageid
           \/ i = next /\ u[i].mtp = storageid + 1 /\ storageid' = storageid + 1
    BY <1>1, <1>6, <1>7, <1>8, <1>15 DEF Mtp
  <1>17. Mtp'
    <2>1. ~Early' /\ phase' = "setup" /\ ~SetUp'
      BY <1>1 DEF Early, SetUp
    <2>2. \A i \in DOMAIN u : u[i].mtp # 0 => u[i].mtp \in FirstId + 1..storageid'
      BY <1>1, <1>6, <1>12, <1>16
    <2>3. next' <= Len(u) + 1 /\ storageid' < FirstId + next'
      BY <1>1, <1>6, <1>8, <1>12
    <2>4. \A i \in DOMAIN u : i >= next' => u[i].mtp = 0
      BY <1>1, <1>8, <1>15 DEF Mtp
    <2>5. profile'.datamedia => \A i \in DOMAIN u : u[i].at = Data /\ i < next' => u[i].mtp # 0
      <3> SUFFICES ASSUME profile.datamedia, NEW i \in DOMAIN u, u[i].at = Data, i < next + 1 PROVE u[i].mtp # 0
        BY <1>1 DEF found
      <3>1. CASE i = next
        BY <1>3, <1>1, <1>6, <1>7, <1>8, <3>1
      <3>2. CASE i < next
        BY <1>1, <1>8, <1>15, <3>2 DEF Mtp
      <3>3. QED
        BY <1>1, <1>8, <3>1, <3>2
    <2>6. QED
      BY <1>1, <2>1, <2>2, <2>3, <2>4, <2>5 DEF Mtp
  <1>18. UniqueMtpIds'
    <2> SUFFICES ASSUME NEW i \in DOMAIN u, NEW j \in DOMAIN u, u[i].mtp # 0, u[i].mtp = u[j].mtp PROVE i = j
      BY <1>1 DEF UniqueMtpIds
    <2>1. CASE i = next \/ j = next
      BY <1>1, <1>12, <1>16, <2>1
    <2>2. CASE i # next /\ j # next
      BY <1>8, <1>15, <2>2 DEF UniqueMtpIds
    <2>3. QED
      BY <2>1, <2>2
  <1>19. Settings'
    <2>1. ~Early' /\ phase' = "setup" /\ ~SetUp'
      BY <1>1 DEF Early, SetUp
    <2>2. \A i \in DOMAIN u : u[i].settings => u[i].storage
      <3> SUFFICES ASSUME NEW i \in DOMAIN u, u[i].settings PROVE u[i].storage
        OBVIOUS
      <3>1. CASE i = next
        BY <1>3, <1>5, <1>7, <1>8, <3>1
      <3>2. CASE i # next
        BY <1>8, <1>15, <3>2 DEF Settings
      <3>3. QED
        BY <3>1, <3>2
    <2>3. CASE Claim(e)
      <3>1. settings = 0 /\ settings' = f.id /\ f.storage
        BY <1>1, <1>3, <1>5, <1>7, <2>3
      <3>2. \A i \in DOMAIN table : i < next => ~table[i].settings
        BY <1>1, <1>9, <3>1 DEF Settings
      <3>3. \A i \in DOMAIN u : i < next' /\ u[i].settings => u[i].id = settings'
        BY <1>1, <1>8, <1>15, <3>1, <3>2
      <3>4. \E i \in DOMAIN u : u[i].id = settings' /\ u[i].storage
        BY <1>2, <1>8, <3>1
      <3>5. QED
        BY <1>1, <2>1, <2>2, <3>3, <3>4 DEF Settings
    <2>4. CASE ~Claim(e)
      <3>1. settings' = settings /\ ~f.settings
        BY <1>1, <1>7, <2>4
      <3>2. \A i \in DOMAIN u : i < next' /\ u[i].settings => u[i].id = settings'
        BY <1>1, <1>8, <1>15, <3>1 DEF Settings
      <3>3. settings' # 0 => \E i \in DOMAIN u : u[i].id = settings' /\ u[i].storage
        <4> SUFFICES ASSUME settings # 0 PROVE \E i \in DOMAIN u : u[i].id = settings /\ u[i].storage
          BY <3>1
        <4>1. PICK i \in DOMAIN table : table[i].id = settings /\ table[i].storage
          BY <1>1 DEF Settings
        <4>2. CASE i = next
          BY <1>2, <1>3, <1>7, <1>8, <4>1, <4>2 DEF e0
        <4>3. CASE i # next
          BY <1>8, <4>1, <4>3
        <4>4. QED
          BY <4>2, <4>3
      <3>4. QED
        BY <1>1, <2>1, <2>2, <3>2, <3>3 DEF Settings
    <2>5. QED
      BY <2>3, <2>4
  <1>20. QED
    BY <1>8, <1>13, <1>14, <1>17, <1>18, <1>19

LEMMA MediaFacts ==
  ASSUME NEW f \in Entries, NEW m \in Nat
  PROVE  LET e == [Setup_Data_Media(f) EXCEPT !.mtp = m]
         IN e \in Entries /\ Restored(e, f) /\ e.storage /\ e.settings /\ e.mtp = m /\ e.id = f.id
  BY DEF Setup_Data_Media, Entries, Restored

LEMMA EndOfSetupInv == TableInv /\ EndOfSetup => TableInv'
  <1> SUFFICES ASSUME TableInv, EndOfSetup PROVE TableInv'
    OBVIOUS
  <1> USE DEF TableInv
  <1> DEFINE d == Find_Partition_By_Path(table, Data)
             auto == ~profile.datamedia /\ settings = 0 /\ InTable(Internal) = {} /\ d # 0
             first == SelectInSeq(table, LAMBDA e : e.storage)
             e == [Setup_Data_Media(table[d]) EXCEPT !.mtp = storageid + 1]
  <1>1. /\ phase = "setup" /\ next > Len(table)
        /\ phase' = IF profile.super THEN "super" ELSE "ready"
        /\ mnt' = mnt \ {Root, Vendor}
        /\ UNCHANGED <<found, mapped, dms, next, waiting, data, meta, made>>
        /\ next \in Nat \ {0} /\ table \in Seq(Entries) /\ storageid \in Nat
        /\ DOMAIN table = 1..Len(table) /\ Len(table) \in Nat /\ made \in Nat /\ settings \in 0..made
    BY DEF EndOfSetup, TypeOK, FirstId
  <1>2. /\ table' = IF auto THEN [table EXCEPT ![d] = e] ELSE table
        /\ storageid' = IF auto THEN storageid + 1 ELSE storageid
        /\ settings' = CASE auto -> table[d].id
                         [] ~auto /\ settings = 0 /\ first # 0 -> table[first].id
                         [] OTHER -> settings
    BY DEF EndOfSetup, AutomaticDataMedia
  <1>3. d \in 0..Len(table) /\ (d # 0 => d \in DOMAIN table)
    BY <1>1, Find
  <1>4. first \in 0..Len(table) /\ (first # 0 => first \in DOMAIN table /\ table[first].storage)
        /\ (first = 0 => \A i \in DOMAIN table : ~table[i].storage)
    BY <1>1, FirstStorage
  <1> HIDE DEF d, first
  <1>5. \A i \in DOMAIN table : table[i].id \in 1..made
    BY DEF Numbered
  <1>6. /\ \A i \in DOMAIN table : table[i].settings => table[i].id = settings
        /\ settings # 0 => \E i \in DOMAIN table : table[i].id = settings /\ table[i].storage
        /\ next = Len(table) + 1 /\ storageid < FirstId + next /\ FirstId <= storageid /\ FirstId \in Nat
        /\ \A i \in DOMAIN table : table[i].mtp # 0 => table[i].mtp \in FirstId + 1..storageid
        /\ \A i \in DOMAIN table : table[i].settings => table[i].storage
        /\ profile.datamedia => \A i \in DOMAIN table : table[i].at = Data => table[i].mtp # 0
        /\ profile.recovery /\ ~profile.skipSetup
    BY <1>1 DEF Settings, Mtp, Course, TypeOK, FirstId
  <1>7. phase' \in {"super", "ready"} /\ profile' = profile
    BY <1>1 DEF found
  <1>8. Course'
    BY <1>6, <1>7 DEF Course
  <1>9. /\ profile' \in Profiles /\ vendorFstab' \in VendorFstabs /\ dms' \subseteq mapped'
        /\ mnt' \subseteq {Vendor, Odm, Root} /\ waiting' \in Entries /\ {data', meta'} \subseteq 0..made'
        /\ next' \in Nat \ {0} /\ made' = made
    BY <1>1 DEF TypeOK, found
  <1>10. ~Early' /\ SetUp' /\ phase' # "setup" /\ ~(phase' = "ready" /\ profile'.skipSetup)
    BY <1>6, <1>7 DEF Early, SetUp
  <1>11. CASE auto
    <2> DEFINE u == [table EXCEPT ![d] = e]
    <2>1. d \in DOMAIN table /\ table[d] \in Entries /\ settings = 0
      BY <1>1, <1>3, <1>11
    <2>2. /\ e \in Entries /\ Restored(e, table[d]) /\ e.storage /\ e.settings /\ e.mtp = storageid + 1
          /\ e.id = table[d].id
      <3>1. storageid + 1 \in Nat
        BY <1>1
      <3>2. QED
        BY <2>1, <3>1, MediaFacts
    <2> HIDE DEF e
    <2>3. /\ table' = [table EXCEPT ![d] = e] /\ table' = u
          /\ phase \in {"setup", "ready"} /\ phase' \in {"setup", "super", "ready", "unlocked"}
          /\ waiting' = waiting /\ dms' = dms /\ data' = data /\ meta' = meta /\ made' = made
          /\ vendorFstab' = vendorFstab
      BY <1>1, <1>2, <1>7, <1>11 DEF found
    <2> HIDE DEF u
    <2>4. /\ u \in Seq(Entries) /\ DOMAIN u = DOMAIN table /\ Len(u) = Len(table)
          /\ u[d] = e /\ \A i \in DOMAIN table \ {d} : u[i] = table[i]
          /\ Numbered(table', made') /\ Waits' /\ Pointers' /\ VendorSays' /\ LogicalIsMapped'
      <3> HIDE DEF TableInv
      <3>1. QED
        BY <2>1, <2>2, <2>3, SetupEntryKeeps
    <2>5. storageid' = storageid + 1 /\ settings' = table[d].id
      BY <1>2, <1>11
    <2>6. \A i \in DOMAIN u : i # d => u[i] = table[i]
      BY <2>4
    <2>7. TypeOK'
      <3>1. storageid' \in FirstId..(FirstId + Len(u) + 1) /\ settings' \in 0..made
        BY <1>1, <1>5, <1>6, <2>1, <2>4, <2>5
      <3>2. QED
        BY <1>1, <1>7, <1>9, <2>3, <2>4, <3>1 DEF TypeOK
    <2>8. Mtp'
      <3>1. \A i \in DOMAIN u : u[i].mtp # 0 => u[i].mtp \in FirstId + 1..storageid'
        BY <1>1, <1>6, <2>2, <2>4, <2>5, <2>6
      <3>2. ~profile'.datamedia
        BY <1>7, <1>11
      <3>3. QED
        BY <1>10, <2>3, <3>1, <3>2 DEF Mtp
    <2>9. UniqueMtpIds'
      <3> SUFFICES ASSUME NEW i \in DOMAIN u, NEW j \in DOMAIN u, u[i].mtp # 0, u[i].mtp = u[j].mtp PROVE i = j
        BY <2>3 DEF UniqueMtpIds
      <3>1. CASE i = d \/ j = d
        BY <1>1, <1>6, <2>2, <2>4, <2>6, <3>1
      <3>2. CASE i # d /\ j # d
        BY <2>4, <2>6, <3>2 DEF UniqueMtpIds
      <3>3. QED
        BY <3>1, <3>2
    <2>10. \A i \in DOMAIN table : ~table[i].settings
      BY <1>1, <1>5, <1>6, <2>1
    <2>11. Settings'
      <3>1. \A i \in DOMAIN u : u[i].settings => u[i].storage /\ u[i].id = settings'
        BY <2>2, <2>4, <2>5, <2>6, <2>10
      <3>2. \E i \in DOMAIN u : u[i].id = settings' /\ u[i].storage
        BY <2>1, <2>2, <2>4, <2>5
      <3>3. SettingsKept(u, settings')
        BY <3>1, <3>2 DEF SettingsKept
      <3>4. QED
        BY <1>10, <2>3, <3>1, <3>3 DEF Settings
    <2>12. QED
      BY <1>8, <2>4, <2>7, <2>8, <2>9, <2>11
  <1>12. CASE ~auto
    <2>1. table' = table /\ storageid' = storageid
      BY <1>2, <1>12
    <2>2. settings' = IF settings = 0 /\ first # 0 THEN table[first].id ELSE settings
      BY <1>2, <1>12
    <2> HIDE DEF auto
    <2>3. TypeOK'
      <3>1. storageid' \in FirstId..(FirstId + Len(table') + 1) /\ table' \in Seq(Entries)
        BY <2>1 DEF TypeOK
      <3>2. settings' \in 0..made'
        BY <1>1, <1>4, <1>5, <1>9, <2>2
      <3>3. QED
        BY <1>1, <1>7, <1>9, <3>1, <3>2 DEF TypeOK
    <2>4. Numbered(table', made') /\ Waits' /\ LogicalIsMapped' /\ UniqueMtpIds'
      BY <1>1, <2>1 DEF Numbered, Distinct, Waits, LogicalIsMapped, UniqueMtpIds
    <2>5. Pointers'
      BY <1>1, <1>7, <2>1 DEF Pointers, One, Listed
    <2>6. VendorSays'
      <3>1. vendorFstab' = vendorFstab /\ VendorSays
        BY <1>1 DEF found
      <3>2. QED
        BY <1>1, <1>7, <2>1, <3>1, VendorKeptLater
    <2>7. Mtp'
      BY <1>6, <1>7, <1>10, <2>1 DEF Mtp
    <2>8. SettingsKept(table, settings')
      <3>1. CASE settings = 0 /\ first # 0
        <4>1. \A i \in DOMAIN table : ~table[i].settings
          BY <1>1, <1>5, <1>6, <3>1
        <4>2. QED
          BY <1>4, <2>2, <3>1, <4>1 DEF SettingsKept
      <3>2. CASE settings = 0 /\ first = 0
        BY <1>4, <1>6, <2>2, <3>2 DEF SettingsKept
      <3>3. CASE settings # 0
        BY <1>6, <2>2, <3>3 DEF SettingsKept
      <3>4. QED
        BY <3>1, <3>2, <3>3
    <2>9. Settings'
      BY <1>6, <1>10, <2>1, <2>8 DEF Settings
    <2>10. QED
      BY <1>8, <2>3, <2>4, <2>5, <2>6, <2>7, <2>9
  <1>13. QED
    BY <1>11, <1>12

LEMMA SuperPartitionInv == TableInv /\ Setup_Super_Partition => TableInv'
  <1> SUFFICES ASSUME TableInv, Setup_Super_Partition PROVE TableInv'
    OBVIOUS
  <1> USE DEF TableInv
  <1> DEFINE e == SuperEntry
             u == Append(table, e)
  <1>1. /\ phase = "super" /\ phase' = "ready" /\ table' = u /\ made' = made + 1
        /\ UNCHANGED <<found, mapped, dms, mnt, next, waiting, data, meta, settings, storageid>>
        /\ table \in Seq(Entries) /\ made \in Nat
    BY DEF Setup_Super_Partition, TypeOK
  <1>2. /\ e \in Entries /\ e.id = made + 1 /\ e.at = "super" /\ e.from = "super" /\ e.mtp = 0
        /\ ~e.settings /\ ~e.storage /\ ~e.super
    <2> DEFINE l == [NoLine EXCEPT !.at = "super", !.fs = "emmc"]
               n == Entry(made + 1, l, "super")
    <2>1. l \in Lines /\ l.at = "super"
      BY TableAssumption DEF NoLine, Lines
    <2>2. "super" \in Files
      BY DEF Files
    <2> HIDE DEF l
    <2>3. /\ n \in Entries /\ n.id = made + 1 /\ n.at = "super" /\ n.from = "super" /\ n.mtp = 0
          /\ ~n.settings /\ ~n.super /\ ~n.storage
      <3>1. made + 1 \in Nat
        BY <1>1
      <3>2. QED
        BY <2>1, <2>2, <3>1, NewEntry
    <2>4. e = [n EXCEPT !.backup = TRUE, !.present = TRUE]
      BY DEF SuperEntry, l
    <2> HIDE DEF n
    <2>5. QED
      BY <2>3, <2>4 DEF Entries
  <1> HIDE DEF e
  <1>3. More(u, table, e)
    BY <1>1, <1>2, Appended
  <1> HIDE DEF u
  <1>4. TypeOK'
    <2>1. u \in Seq(Entries) /\ Len(u) = Len(table) + 1 /\ Len(table) \in Nat
      BY <1>3 DEF More
    <2>2. storageid' \in FirstId..(FirstId + Len(u) + 1) /\ {data', meta', settings'} \subseteq 0..made'
      BY <1>1, <2>1 DEF TypeOK, FirstId
    <2>3. profile' \in Profiles /\ vendorFstab' \in VendorFstabs /\ dms' \subseteq mapped'
            /\ mnt' \subseteq {Vendor, Odm, Root} /\ waiting' \in Entries /\ next' \in Nat \ {0} /\ made' \in Nat
      BY <1>1 DEF TypeOK, found
    <2>4. QED
      BY <1>1, <2>1, <2>2, <2>3 DEF TypeOK
  <1>5. Numbered(table', made')
    <2>1. made + 1 \in Nat /\ made <= made + 1 /\ e.id \in 1..(made + 1) /\ \A i \in DOMAIN table : table[i].id # e.id
      BY <1>1, <1>2 DEF Numbered
    <2>2. QED
      BY <1>1, <1>3, <2>1, MoreFacts
  <1>6. Waits'
    BY <1>1 DEF Waits
  <1>7. Pointers'
    <2>1. One(u, Data, data) /\ One(u, Metadata, meta)
      BY <1>2, <1>3, MoreFacts, NamesAre DEF Pointers, Names
    <2>2. Listed(Data, data)' /\ Listed(Metadata, meta)'
      BY <1>1 DEF Listed
    <2>3. QED
      BY <1>1, <2>1, <2>2 DEF Pointers
  <1>8. VendorSays'
    <2>1. \A v, k : Says(table, v, k) => Says(u, v, k)
      BY <1>3, MoreFacts
    <2>2. FromVendor(u) => FromVendor(table)
      BY <1>2, <1>3, MoreFacts
    <2>3. vendorFstab' = vendorFstab /\ VendorSays
      BY <1>1 DEF found
    <2>4. QED
      BY <1>1, <2>1, <2>2, <2>3, VendorKeptLater
  <1>9. LogicalIsMapped'
    BY <1>1, <1>2, <1>3 DEF LogicalIsMapped, More
  <1>10. profile.recovery /\ ~profile.skipSetup /\ profile' = profile
    BY <1>1 DEF Course, found
  <1>11. Course'
    BY <1>1 DEF Course
  <1>12. SetUp /\ SetUp' /\ ~Early' /\ phase' # "setup" /\ ~profile'.skipSetup
    BY <1>1, <1>10 DEF SetUp, Early
  <1>13. Mtp' /\ UniqueMtpIds'
    <2>1. \A i \in DOMAIN u : u[i].mtp # 0 => i \in DOMAIN table /\ u[i] = table[i]
      BY <1>2, <1>3 DEF More
    <2>2. UniqueMtpIds'
      BY <1>1, <2>1 DEF UniqueMtpIds
    <2>3. \A i \in DOMAIN u : u[i].mtp # 0 => u[i].mtp \in FirstId + 1..storageid'
      BY <1>1, <2>1 DEF Mtp
    <2>4. profile.datamedia => \A i \in DOMAIN u : u[i].at = Data => u[i].mtp # 0
      <3>1. "super" # Data
        BY NamesAre DEF Names
      <3>2. \A i \in DOMAIN u : u[i].at = Data => i \in DOMAIN table /\ u[i] = table[i]
        BY <1>2, <1>3, <3>1 DEF More
      <3>3. QED
        BY <1>12, <3>2 DEF Mtp
    <2>5. QED
      BY <1>1, <1>10, <1>12, <2>2, <2>3, <2>4 DEF Mtp
  <1>14. Settings'
    <2>1. \A i \in DOMAIN u : u[i].settings \/ u[i].storage => i \in DOMAIN table /\ u[i] = table[i]
      BY <1>2, <1>3 DEF More
    <2>2. \A i \in DOMAIN table : i \in DOMAIN u /\ u[i] = table[i]
      BY <1>3 DEF More
    <2>3. SettingsKept(table, settings)
      BY <1>12 DEF Settings
    <2>4. SettingsKept(u, settings)
      BY <2>1, <2>2, <2>3 DEF SettingsKept
    <2>5. \A i \in DOMAIN u : u[i].settings => u[i].storage
      BY <2>1 DEF Settings
    <2>6. QED
      BY <1>1, <1>12, <2>4, <2>5 DEF Settings
  <1>15. QED
    BY <1>4, <1>5, <1>6, <1>7, <1>8, <1>9, <1>11, <1>13, <1>14

LEMMA PostDecryptInv == TableInv /\ Post_Decrypt => TableInv'
  <1> SUFFICES ASSUME TableInv, Post_Decrypt PROVE TableInv'
    OBVIOUS
  <1> USE DEF TableInv
  <1> DEFINE d == Find_Partition_By_Path(table, Data)
             e == [table[d] EXCEPT !.storage = TRUE, !.mtp = MediaId(table[d])]
             u == [table EXCEPT ![d] = e]
  <1>1. /\ phase = "ready" /\ phase' = "unlocked" /\ profile.recovery /\ profile.mediaBind
        /\ d # 0 /\ table' = u
        /\ UNCHANGED <<found, mapped, dms, mnt, next, waiting, data, meta, made, settings, storageid>>
        /\ table \in Seq(Entries)
    BY DEF Post_Decrypt, TypeOK
  <1>2. d \in DOMAIN table /\ table[d] \in Entries /\ table[d].at = Data
    BY <1>1, Find, NamesAre
  <1>3. profile.datamedia
    BY <1>1, TableAssumption DEF TypeOK
  <1> HIDE DEF d
  <1>4. /\ MediaId(table[d]) \in Nat /\ MediaId(table[d]) # 0
        /\ table[d].mtp # 0 => MediaId(table[d]) = table[d].mtp
        /\ table[d].mtp = 0 => profile.skipSetup
    <2>1. table[d].mtp \in Nat
      BY <1>2 DEF Entries
    <2>2. table[d].mtp = 0 => profile.skipSetup
      <3>1. profile.skipSetup \in BOOLEAN
        BY TableAssumption DEF TypeOK
      <3>2. ~profile.skipSetup => SetUp
        BY <1>1 DEF SetUp
      <3>3. QED
        BY <1>2, <1>3, <3>1, <3>2 DEF Mtp
    <2>3. QED
      BY <2>1, <2>2 DEF MediaId, FirstId
  <1>5. /\ e \in Entries /\ Restored(e, table[d]) /\ e.mtp = MediaId(table[d])
        /\ e.storage /\ e.settings = table[d].settings
    BY <1>2, <1>4 DEF Entries, Restored
  <1> HIDE DEF e
  <1>6. /\ table' = [table EXCEPT ![d] = e] /\ table' = u
        /\ phase \in {"setup", "ready"} /\ phase' \in {"setup", "super", "ready", "unlocked"}
        /\ waiting' = waiting /\ dms' = dms /\ data' = data /\ meta' = meta /\ made' = made
        /\ vendorFstab' = vendorFstab
    BY <1>1 DEF found
  <1> HIDE DEF u
  <1>7. /\ u \in Seq(Entries) /\ DOMAIN u = DOMAIN table /\ Len(u) = Len(table)
        /\ u[d] = e /\ \A i \in DOMAIN table \ {d} : u[i] = table[i]
        /\ Numbered(table', made') /\ Waits' /\ Pointers' /\ VendorSays' /\ LogicalIsMapped'
    <2> HIDE DEF TableInv
    <2>1. QED
      BY <1>2, <1>5, <1>6, SetupEntryKeeps
  <1>8. TypeOK'
    <2>1. profile' \in Profiles /\ vendorFstab' \in VendorFstabs /\ dms' \subseteq mapped'
            /\ mnt' \subseteq {Vendor, Odm, Root} /\ waiting' \in Entries /\ next' \in Nat \ {0} /\ made' \in Nat
            /\ {data', meta', settings'} \subseteq 0..made'
            /\ storageid' \in FirstId..(FirstId + Len(u) + 1)
      BY <1>1, <1>7 DEF TypeOK, found
    <2>2. QED
      BY <1>1, <1>7, <2>1 DEF TypeOK
  <1>9. Course' /\ Mtp'
    BY <1>1 DEF Course, Mtp, Early, SetUp
  <1>10. UniqueMtpIds'
    <2> SUFFICES ASSUME NEW i \in DOMAIN u, NEW j \in DOMAIN u, u[i].mtp # 0, u[i].mtp = u[j].mtp PROVE i = j
      BY <1>6 DEF UniqueMtpIds
    <2>1. \A k \in DOMAIN u : k # d => u[k] = table[k]
      BY <1>7
    <2>2. CASE table[d].mtp # 0
      <3>1. \A k \in DOMAIN u : u[k].mtp = table[k].mtp
        BY <1>4, <1>5, <1>7, <2>1, <2>2
      <3>2. QED
        BY <1>7, <3>1 DEF UniqueMtpIds
    <2>3. CASE table[d].mtp = 0
      <3>1. \A k \in DOMAIN table : table[k].mtp = 0
        BY <1>1, <1>4, <2>3 DEF Mtp
      <3>2. QED
        BY <1>7, <2>1, <3>1
    <2>4. QED
      BY <2>2, <2>3
  <1>11. Settings'
    <2>1. \A i \in DOMAIN u : u[i].settings => u[i].storage
      BY <1>5, <1>7 DEF Settings
    <2>2. QED
      BY <1>1, <1>6, <2>1 DEF Settings, Early, SetUp
  <1>12. QED
    BY <1>7, <1>8, <1>9, <1>10, <1>11

-----------------------------------------------------------------------------
(* The theorems                                                            *)

LEMMA TableNextInv == TableInv /\ [Next]_vars => TableInv'
  <1> SUFFICES ASSUME TableInv, [Next]_vars PROVE TableInv'
    OBVIOUS
  <1>1. CASE Begin
    BY <1>1, BeginInv
  <1>2. CASE Read
    BY <1>2, ReadInv
  <1>3. CASE EndOfFile
    BY <1>3, EndOfFileInv
  <1>4. CASE ReadFlags
    BY <1>4, ReadFlagsInv
  <1>5. CASE EndOfFlags
    BY <1>5, EndOfFlagsInv
  <1>6. CASE Release
    BY <1>6, ReleaseInv
  <1>7. CASE PrepareSuperVolume
    BY <1>7, PrepareSuperVolumeInv
  <1>8. CASE PrepareParts
    BY <1>8, PreparePartsInv
  <1>9. CASE SetupEntry
    BY <1>9, SetupEntryInv
  <1>10. CASE EndOfSetup
    BY <1>10, EndOfSetupInv
  <1>11. CASE Setup_Super_Partition
    BY <1>11, SuperPartitionInv
  <1>12. CASE Post_Decrypt
    BY <1>12, PostDecryptInv
  <1>13. CASE Ueventd
    BY <1>13, UeventdInv
  <1>14. CASE UNCHANGED vars
    BY <1>14, StutterInv
  <1>15. QED
    BY <1>1, <1>2, <1>3, <1>4, <1>5, <1>6, <1>7, <1>8, <1>9, <1>10, <1>11, <1>12, <1>13, <1>14 DEF Next, Startup

(* The invariant holds of every state of every start. *)
THEOREM TableInvariance == Spec => []TableInv
  BY TableInitInv, TableNextInv, PTL DEF Spec

(* Every variable has its type: entries are entries, pointers and settings *)
(* are ids that were given, and the ids for MTP never run past the list.   *)
THEOREM TableTypeCorrect == Spec => []TypeOK
  <1>1. TableInv => TypeOK
    BY DEF TableInv
  <1>2. QED
    BY <1>1, TableInvariance, PTL

(* The pointers that Process_Fstab keeps from one file to the next are to  *)
(* the only entry of their mount point, whatever the files hold: erase     *)
(* always finds what it is called with (Process_Fstab). *)
THEOREM PointersStayLive == Spec => []PointersLive
  <1>1. TableInv => PointersLive
    <2> SUFFICES ASSUME TableInv, NEW p \in {<<data, Data>>, <<meta, Metadata>>}, p[1] # 0
                 PROVE  {table[i].id : i \in {j \in DOMAIN table : table[j].at = p[2]}} = {p[1]}
      BY DEF PointersLive
    <2>1. One(table, p[2], p[1])
      BY DEF TableInv, Pointers
    <2>2. QED
      BY <2>1 DEF One
  <1>2. QED
    BY <1>1, TableInvariance, PTL

(* The last line of the installed system's fstab for /data or /metadata    *)
(* decides their file system and options, whatever stood before it in any  *)
(* file (Process_Fstab, the second pass). *)
THEOREM VendorFstabDecides == Spec => []VendorDecides
  <1>1. TableInv => VendorDecides
    BY DEF TableInv, VendorSays, VendorDecides, VendorRead, FromVendor, Says, Names
  <1>2. QED
    BY <1>1, TableInvariance, PTL

(* No logical partition of the fstab is listed without its device, or can  *)
(* be wiped or backed up (Process_Fstab, Prepare_Super_Volume). *)
THEOREM LogicalPartitionsAreMapped == Spec => []LogicalIsMapped
  <1>1. TableInv => LogicalIsMapped
    BY DEF TableInv
  <1>2. QED
    BY <1>1, TableInvariance, PTL

(* No two storages ever have one MTP id, and after the set-up exactly one  *)
(* storage has the settings, if there is any (Setup_Fstab_Partitions,      *)
(* Post_Decrypt). *)
THEOREM StoragesStayApart == Spec => []StoragesApart
  <1>1. TableInv => StoragesApart
    BY DEF TableInv, StoragesApart, OneSettings, Settings, SettingsKept, SetUp
  <1>2. QED
    BY <1>1, TableInvariance, PTL

=============================================================================
