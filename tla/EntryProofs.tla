----------------------------- MODULE EntryProofs -----------------------------
(***************************************************************************)
(* Proofs about what a user enters: Credential, for any users,             *)
(* credentials, services that die and lengths of the waits; and Input, for *)
(* any devices that come and go, slots, lengths of the queues and areas.   *)
(*                                                                         *)
(* The invariant of Credential has three parts: what an entry may have     *)
(* cost so far (Cost), when a running Weaver has its files (Backed), and   *)
(* why an entry of the right credential that nothing has failed is on its  *)
(* way to the storage (OnTheWay).                                          *)
(*                                                                         *)
(* That of Input says what a queue may hold (Sent), and gives each thing   *)
(* that is held a cause, while nothing was lost (Causes).                  *)
(***************************************************************************)
EXTENDS Credential, Input, TLAPS

(* Decrypt_User has sent something, or may.                                *)
Running == {"type", "default", "legacy", "token", "prepare", "sleep", "service", "config", "verify",
            "gatekeeper", "unwrap", "ce"}

(* The key is derived and not yet sent.                                    *)
Derived == {"prepare", "sleep", "service", "config", "verify", "gatekeeper"}

(* Gatekeeper counted a failure and its answer was lost: nothing opens.    *)
Lost == pc = "unwrap" /\ verified = "empty" /\ spent <= (IF retried THEN 2 ELSE 1)

(* An entry costs nothing before its one verification, the retry adds one. *)
Cost ==
    /\ spent \in Nat /\ pc \in Running \cup {"idle", "hook"}
    /\ retried => device = "nezha"
    /\ pc \in Running => \/ spent <= 1 /\ (~retried => spent = 0)
                         \/ Lost
    /\ pc = "hook" => ~retried /\ device = "nezha" /\ spent <= 1
    /\ spent <= (IF device = "nezha" THEN 2 ELSE 1)
    /\ Typed => spent = 0
    /\ pc \in Derived /\ Typed => token = "right"

Weavers == [inst : Nat, up : BOOLEAN, age : 0..Warmup, backed : BOOLEAN]

(* A Weaver that came up after the mount that its restart followed.        *)
Backed ==
    /\ weaver \in Weavers /\ user \in Users /\ device \in {"neo8", "nezha"} /\ polls \in Nat
    /\ device = "nezha" => weaver.backed
    /\ prepared /\ persist /\ ~restart /\ weaver.up => weaver.backed

OnTheWay ==
    clean /\ layout = "spblob" /\ pc /= "idle" =>
        /\ Typed /\ deReady /\ ~throttled[user] /\ (prepared => persist)
        /\ pc \in {"type", "token", "unwrap", "ce"} \cup Derived
        /\ pc = "sleep" => prepared
        /\ pc /= "sleep" => ~restart
        /\ pc \in {"service", "config", "verify"} /\ device = "neo8" => prepared
        /\ pc \in {"config", "verify"} => Alive
        /\ pc = "config" => polls <= weaver.age \/ weaver.age = Warmup
        /\ pc = "unwrap" => token = "right" /\ verified = "yes"

IInv == Cost /\ Backed /\ OnTheWay

-----------------------------------------------------------------------------
(* The polls outlast the time a Weaver takes to answer.                    *)
LEMMA Bounds == Warmup \in Nat /\ MaxPolls \in Nat /\ Warmup < MaxPolls
  BY CredentialAssumption

(* A service that was started.                                             *)
LEMMA Started ==
    ASSUME NEW n \in Nat, NEW age \in 0..Warmup, NEW backed \in BOOLEAN
    PROVE  LET w == [inst |-> n, up |-> TRUE, age |-> age, backed |-> backed]
           IN w \in Weavers /\ w.backed = backed
  BY DEF Weavers

(* Recovery comes up with nothing entered.                                 *)
LEMMA InitInv == Init => IInv
  <1>. SUFFICES ASSUME Init PROVE IInv
    OBVIOUS
  <1>. USE CredentialAssumption
  <1>1. ~retried /\ ~clean /\ ~prepared
    BY Zenon DEF Init
  <1>2. Cost
    BY <1>1 DEF Init, Cost, Lost, Running, Derived
  <1>3. weaver \in Weavers
    <2>1. (device = "nezha") \in BOOLEAN
      BY Zenon
    <2>2. \E up \in BOOLEAN :
            weaver = [inst |-> 1, up |-> up, age |-> Warmup, backed |-> device = "nezha"]
      BY DEF Init
    <2>. QED
      BY <2>1, <2>2, Bounds DEF Weavers
  <1>4. weaver.backed = (device = "nezha")
    BY DEF Init
  <1>5. Backed
    BY <1>1, <1>3, <1>4 DEF Init, Backed
  <1>. QED
    BY <1>1, <1>2, <1>5 DEF IInv, OnTheWay

-----------------------------------------------------------------------------
(* The thread that decrypts.                                               *)
LEMMA DecryptUserSteps == IInv /\ DecryptUser => IInv'
  <1>. SUFFICES ASSUME IInv, DecryptUser PROVE IInv'
    OBVIOUS
  <1>. USE Bounds DEF IInv, GoTo, NoService, service, element, fixed, attempt, entry
  <1>1. CASE Dispatch
    <2>1. Cost'
      BY <1>1 DEF Dispatch, Fail, Right, Cost, Lost, Running, Derived, Typed
    <2>2. Backed'
      BY <1>1 DEF Dispatch, Fail, HasType, HasFiles, Right, Backed, Weavers
    <2>3. OnTheWay'
      BY <1>1 DEF Dispatch, HasType, HasFiles, Right, OnTheWay, Typed
    <2>. QED
      BY <2>1, <2>2, <2>3
  <1>2. CASE DefaultPassword
    <2>1. Cost'
      BY <1>2 DEF DefaultPassword, CeStorage, Succeed, Cost, Lost, Running, Derived, Typed, Right
    <2>2. Backed'
      BY <1>2 DEF DefaultPassword, CeStorage, Succeed, Backed, Weavers
    <2>3. OnTheWay'
      BY <1>2 DEF DefaultPassword, CeStorage, OnTheWay, Typed, Right
    <2>. QED
      BY <2>1, <2>2, <2>3
  <1>3. CASE Legacy
    <2>1. Cost'
      BY <1>3 DEF Legacy, CeStorage, Succeed, Fail, Counted, Cost, Lost, Running, Derived, Typed, Right
    <2>2. Backed'
      BY <1>3 DEF Legacy, CeStorage, Succeed, Fail, Counted, Backed, Weavers
    <2>3. OnTheWay'
      BY <1>3 DEF Legacy, CeStorage, OnTheWay, Derived
    <2>. QED
      BY <2>1, <2>2, <2>3
  <1>4. CASE Token
    <2>1. Cost'
      BY <1>4 DEF Token, Fail, Deriving, Derivable, Right, Cost, Lost, Running, Derived, Typed
    <2>2. Backed'
      BY <1>4 DEF Token, Fail, Deriving, Backed
    <2>3. OnTheWay'
      BY <1>4, CredentialAssumption
      DEF Token, Deriving, HasFiles, IsWeaver, HasSecdis, Right, OnTheWay, Backed, Derived, Typed
    <2>. QED
      BY <2>1, <2>2, <2>3
  <1>5. CASE Prepare
    <2>1. Cost'
      BY <1>5 DEF Prepare, Cost, Lost, Running, Derived, Typed, Right
    <2>2. Backed'
      BY <1>5 DEF Prepare, Backed, Weavers
    <2>3. OnTheWay'
      BY <1>5 DEF Prepare, OnTheWay, Derived, Typed, Right
    <2>. QED
      BY <2>1, <2>2, <2>3
  <1>6. CASE Sleep
    <2>1. Cost'
      BY <1>6 DEF Sleep, Cost, Lost, Running, Derived, Typed, Right
    <2>2. Backed'
      BY <1>6 DEF Sleep, Backed, Weavers
    <2>3. OnTheWay'
      BY <1>6 DEF Sleep, OnTheWay, Derived, Typed, Right
    <2>. QED
      BY <2>1, <2>2, <2>3
  <1>7. CASE GetService
    <2>1. Cost'
      BY <1>7 DEF GetService, Alive, Cost, Lost, Running, Derived, Typed, Right
    <2>2. Backed'
      BY <1>7 DEF GetService, Alive, Backed, Weavers
    <2>3. OnTheWay'
      BY <1>7 DEF GetService, Alive, OnTheWay, Backed, Weavers, Derived, Typed, Right
    <2>. QED
      BY <2>1, <2>2, <2>3
  <1>8. CASE GetConfig
    <2>1. Cost'
      BY <1>8 DEF GetConfig, Passing, Fail, Cost, Lost, Running, Derived, Typed, Right
    <2>2. Backed'
      BY <1>8 DEF GetConfig, Alive, Passing, Fail, Backed, Weavers
    <2>0. ASSUME clean, layout = "spblob", pc = "config"
          PROVE  /\ Alive /\ weaver.backed /\ weaver.age \in 0..Warmup
                 /\ polls <= weaver.age \/ weaver.age = Warmup
      BY <2>0 DEF OnTheWay, Backed, Weavers, Alive
    <2>4. ASSUME clean, layout = "spblob", pc = "config", weaver.age /= Warmup
          PROVE  polls + 1 < MaxPolls
      BY <2>0, <2>4 DEF Backed
    <2>3. OnTheWay'
      <3>1. CASE Alive /\ weaver.age >= Warmup /\ weaver.backed
        BY <1>8, <3>1 DEF GetConfig, OnTheWay, Alive, Derived, Typed, Right
      <3>2. CASE ~(Alive /\ weaver.age >= Warmup /\ weaver.backed)
        <4>1. SUFFICES ASSUME clean, layout = "spblob", pc = "config" PROVE OnTheWay'
          BY <1>8, <3>2 DEF GetConfig, Passing, OnTheWay
        <4>2. /\ weaver.age \in 0..Warmup /\ weaver.age < Warmup
              /\ polls + 1 < MaxPolls /\ polls <= weaver.age
          BY <2>0, <2>4, <3>2, <4>1
        <4>3. weaver' = [weaver EXCEPT !.age = weaver.age + 1] /\ polls' = polls + 1 /\ pc' = pc
          BY <1>8, <3>2, <4>1, <4>2 DEF GetConfig, Passing
        <4>4. /\ weaver'.age = weaver.age + 1 /\ weaver'.up = weaver.up /\ weaver'.inst = weaver.inst
          BY <4>3 DEF Backed, Weavers
        <4>5. UNCHANGED <<clean, device, layout, user, password, deReady, throttled, prepared, persist,
                          restart, binder, token, verified>>
          BY <1>8, <3>2, <4>1, <4>2 DEF GetConfig, Passing
        <4>6. polls' <= weaver'.age /\ (Alive => Alive') /\ pc' = "config"
          BY <4>1, <4>2, <4>3, <4>4, <4>5 DEF Alive, Backed
        <4>. QED
          BY <2>0, <4>1, <4>5, <4>6 DEF OnTheWay, Derived, Typed, Right
      <3>. QED
        BY <3>1, <3>2
    <2>. QED
      BY <2>1, <2>2, <2>3
  <1>9. CASE Verify
    <2>1. Cost'
      BY <1>9 DEF Verify, Accepts, Counted, Deriving, Fail, Cost, Lost, Running, Derived, Typed, Right
    <2>2. Backed'
      BY <1>9 DEF Verify, Deriving, Fail, Backed
    <2>3. OnTheWay'
      BY <1>9 DEF Verify, Accepts, Counted, Deriving, OnTheWay, Cost, Lost, Typed, Right
    <2>. QED
      BY <2>1, <2>2, <2>3
  <1>10. CASE VerifyLost
    <2>1. Cost'
      BY <1>10 DEF VerifyLost, Counted, Fail, Cost, Lost, Running, Derived, Typed, Right
    <2>2. Backed'
      BY <1>10 DEF VerifyLost, Alive, Counted, Fail, Backed, Weavers
    <2>3. OnTheWay'
      BY <1>10 DEF VerifyLost, OnTheWay
    <2>. QED
      BY <2>1, <2>2, <2>3
  <1>11. CASE Gatekeeper
    <2>1. Cost'
      BY <1>11
      DEF Gatekeeper, Accepts, Counted, Deriving, Fail, Cost, Lost, Running, Derived, Typed, Right
    <2>2. Backed'
      BY <1>11 DEF Gatekeeper, Deriving, Fail, Backed
    <2>3. OnTheWay'
      BY <1>11 DEF Gatekeeper, Accepts, Counted, Deriving, OnTheWay, Cost, Lost, Typed, Right
    <2>. QED
      BY <2>1, <2>2, <2>3
  <1>12. CASE Unwrap
    <2>1. Cost'
      BY <1>12 DEF Unwrap, Fail, Cost, Lost, Running, Derived, Typed, Right
    <2>2. Backed'
      BY <1>12 DEF Unwrap, Fail, Backed, Weavers
    <2>3. OnTheWay'
      BY <1>12 DEF Unwrap, OnTheWay, Typed, Right
    <2>. QED
      BY <2>1, <2>2, <2>3
  <1>13. CASE UnlockCe
    <2>1. Cost'
      BY <1>13 DEF UnlockCe, CeStorage, Succeed, Fail, Cost, Lost, Derived, Typed, Right
    <2>2. Backed'
      BY <1>13 DEF UnlockCe, CeStorage, Succeed, Fail, Backed, Weavers
    <2>3. OnTheWay'
      BY <1>13 DEF UnlockCe, CeStorage, Succeed, OnTheWay
    <2>. QED
      BY <2>1, <2>2, <2>3
  <1>14. CASE Hook
    <2>1. Cost'
      BY <1>14 DEF Hook, Cost, Lost, Running, Derived, Typed, Right
    <2>4. weaver' \in Weavers /\ (weaver'.backed \/ weaver' = weaver)
      <3>1. weaver.inst + 1 \in Nat /\ Warmup \in 0..Warmup
        BY DEF Backed, Weavers
      <3>2. \/ weaver' = [inst |-> weaver.inst + 1, up |-> TRUE, age |-> Warmup, backed |-> TRUE]
            \/ weaver' = weaver
        BY <1>14 DEF Hook
      <3>. QED
        BY <3>1, <3>2, Started DEF Backed
    <2>2. Backed'
      BY <1>14, <2>4 DEF Hook, Backed, Cost
    <2>3. OnTheWay'
      BY <1>14 DEF Hook, OnTheWay, Typed, Right
    <2>. QED
      BY <2>1, <2>2, <2>3
  <1>. QED
    BY <1>1, <1>2, <1>3, <1>4, <1>5, <1>6, <1>7, <1>8, <1>9, <1>10, <1>11, <1>12, <1>13, <1>14
    DEF DecryptUser

(* init, the services, the secure element and the user.                    *)
LEMMA OtherSteps ==
    /\ IInv
    /\ \/ DecryptDE \/ Start \/ Crash \/ Expire \/ UNCHANGED vars
       \/ \E u \in Users, pw \in Passwords \cup {"!"} : Enter(u, pw)
    => IInv'
  <1>. USE Bounds DEF IInv, GoTo, service, element, fixed, attempt, entry, client
  <1>1. ASSUME IInv, DecryptDE PROVE IInv'
    <2>1. Cost'
      BY <1>1 DEF DecryptDE, Cost, Lost, Running, Derived, Typed, Right
    <2>2. Backed'
      BY <1>1 DEF DecryptDE, Backed, Weavers
    <2>3. OnTheWay'
      BY <1>1 DEF DecryptDE, OnTheWay
    <2>. QED
      BY <2>1, <2>2, <2>3
  <1>2. ASSUME IInv, InitRestart PROVE IInv'
    <2>1. Cost'
      BY <1>2 DEF InitRestart, Cost, Lost, Running, Derived, Typed, Right
    <2>2. Backed'
      BY <1>2 DEF InitRestart, Backed, Weavers
    <2>3. OnTheWay'
      BY <1>2 DEF InitRestart, OnTheWay, Typed, Right
    <2>. QED
      BY <2>1, <2>2, <2>3
  <1>3. ASSUME IInv, InitStart PROVE IInv'
    <2>1. Cost'
      BY <1>3 DEF InitStart, Cost, Lost, Running, Derived, Typed, Right
    <2>4. ASSUME weaver' /= weaver
          PROVE  /\ weaver' \in Weavers /\ (device = "nezha" \/ persist => weaver'.backed)
      <3>1. (device = "nezha" \/ persist) \in BOOLEAN
        BY Zenon
      <3>2. weaver' = [inst |-> weaver.inst + 1, up |-> TRUE, age |-> 0,
                       backed |-> device = "nezha" \/ persist]
        BY <1>3, <2>4 DEF InitStart
      <3>3. weaver.inst + 1 \in Nat /\ 0 \in 0..Warmup
        BY <1>3 DEF Backed, Weavers
      <3>. QED
        BY <3>1, <3>2, <3>3, Started
    <2>2. Backed'
      BY <1>3, <2>4 DEF InitStart, Backed
    <2>3. OnTheWay'
      BY <1>3 DEF InitStart, OnTheWay, Typed, Right, Alive
    <2>. QED
      BY <2>1, <2>2, <2>3
  <1>4. ASSUME IInv, Crash PROVE IInv'
    <2>1. Cost'
      BY <1>4 DEF Crash, Cost, Lost, Running, Derived, Typed, Right
    <2>2. Backed'
      BY <1>4 DEF Crash, Backed, Weavers
    <2>3. OnTheWay'
      BY <1>4 DEF Crash, OnTheWay
    <2>. QED
      BY <2>1, <2>2, <2>3
  <1>5. ASSUME IInv, Expire PROVE IInv'
    <2>1. Cost'
      BY <1>5 DEF Expire, Cost, Lost, Running, Derived, Typed, Right
    <2>2. Backed'
      BY <1>5 DEF Expire, Backed, Weavers
    <2>3. OnTheWay'
      BY <1>5 DEF Expire, OnTheWay, Backed, Running, Derived, Typed, Right, Alive
    <2>. QED
      BY <2>1, <2>2, <2>3
  <1>6. ASSUME IInv, UNCHANGED vars PROVE IInv'
    <2>1. Cost'
      BY <1>6 DEF vars, Cost, Lost, Running, Derived, Typed, Right
    <2>2. Backed'
      BY <1>6 DEF vars, Backed, Weavers
    <2>3. OnTheWay'
      BY <1>6 DEF vars, OnTheWay, Cost, Lost, Backed, Running, Derived, Typed, Right, Alive
    <2>. QED
      BY <2>1, <2>2, <2>3
  <1>7. ASSUME IInv, NEW u \in Users, NEW pw \in Passwords \cup {"!"}, Enter(u, pw) PROVE IInv'
    <2>1. ~retried'
      BY <1>7, Zenon DEF Enter
    <2>2. clean' => /\ pw /= "!" /\ pw = Credential[u]
                    /\ deReady /\ ~throttled[u] /\ (prepared => persist) /\ ~restart
      BY <1>7, Zenon DEF Enter
    <2>3. Cost'
      BY <1>7, <2>1 DEF Enter, Cost, Lost, Running, Derived, Typed, Right
    <2>4. Backed'
      BY <1>7 DEF Enter, Backed, Weavers
    <2>5. OnTheWay'
      BY <1>7, <2>2 DEF Enter, OnTheWay, Derived, Typed, Right
    <2>. QED
      BY <2>3, <2>4, <2>5
  <1>. QED
    BY <1>1, <1>2, <1>3, <1>4, <1>5, <1>6, <1>7 DEF Start

(* The strengthening holds in every reachable state.                       *)
THEOREM Invariance == Spec => []IInv
  <1>1. IInv /\ [Next]_vars => IInv'
    BY DecryptUserSteps, OtherSteps DEF Next
  <1>. QED
    BY <1>1, InitInv, PTL DEF Spec

(* An entry costs the user one failure, two where the retry hook sends it  *)
(* again, and the right credential none (Decrypt_User_Synth_Pass,          *)
(* Decrypt_Device).                                                        *)
THEOREM RightCostsNothing == Spec => []OnlyWrongCounts
  <1>1. IInv => OnlyWrongCounts
    BY DEF IInv, Cost, OnlyWrongCounts
  <1>. QED
    BY <1>1, Invariance, PTL

(* Only a step that fails something else, or opens the storage, ends an    *)
(* entry of the right credential.                                          *)
LEMMA EndsOpen ==
    ASSUME IInv, DecryptUser, clean', layout = "spblob", pc /= "idle", pc' = "idle"
    PROVE  user \in decrypted'
  <1>. USE Bounds DEF IInv, GoTo
  <1>1. CASE Dispatch
    BY <1>1 DEF Dispatch, Fail, HasType, HasFiles, OnTheWay, Typed, Right
  <1>2. CASE DefaultPassword \/ Legacy \/ Hook
    BY <1>2, Zenon DEF DefaultPassword, Legacy, Hook, CeStorage, Succeed, OnTheWay, Derived
  <1>3. CASE Token
    BY <1>3, CredentialAssumption
    DEF Token, Fail, Deriving, HasFiles, IsWeaver, HasSecdis, OnTheWay, Typed, Backed
  <1>4. CASE Prepare \/ Sleep \/ GetService
    BY <1>4 DEF Prepare, Sleep, GetService
  <1>5. CASE GetConfig
    <2>1. clean
      BY <1>5, Zenon DEF GetConfig, Passing
    <2>2. Alive /\ weaver.backed /\ (weaver.age >= Warmup \/ polls + 1 < MaxPolls)
      BY <1>5, <2>1 DEF GetConfig, OnTheWay, Backed, Weavers, Alive
    <2>. QED
      BY <1>5, <2>2 DEF GetConfig, Passing
  <1>6. CASE Verify
    BY <1>6 DEF Verify, Accepts, Deriving, OnTheWay, Cost, Derived
  <1>7. CASE VerifyLost
    BY <1>7, Zenon DEF VerifyLost
  <1>8. CASE Gatekeeper
    BY <1>8 DEF Gatekeeper, Accepts, Deriving, OnTheWay, Cost, Derived
  <1>9. CASE Unwrap
    <2>1. clean /\ ~(token = "right" /\ verified = "yes")
      BY <1>9, Zenon DEF Unwrap
    <2>. QED
      BY <1>9, <2>1 DEF Unwrap, OnTheWay
  <1>10. CASE UnlockCe
    BY <1>10, Zenon DEF UnlockCe, CeStorage, Succeed
  <1>. QED
    BY <1>1, <1>2, <1>3, <1>4, <1>5, <1>6, <1>7, <1>8, <1>9, <1>10 DEF DecryptUser

(* The right credential opens a user whose files are in spblob unless      *)
(* something that it needs has failed; that the Weaver is being restarted, *)
(* or is warming up, is no failure (Prepare_Neo8_Weaver_Backend, Weaver).  *)
THEOREM RightCredentialOpens == Spec => RightOpens
  <1>1. ASSUME IInv, [Next]_vars, pc /= "idle", pc' = "idle", layout = "spblob", clean'
        PROVE  user \in decrypted'
    <2>1. DecryptUser
      BY <1>1 DEF Next, vars, Start, InitRestart, InitStart, Crash, Expire, DecryptDE, Enter, client
    <2>. QED
      BY <1>1, <2>1, EndsOpen
  <1>2. IInv /\ [Next]_vars
            => [pc /= "idle" /\ pc' = "idle" /\ layout = "spblob" /\ clean' => user \in decrypted']_vars
    BY <1>1
  <1>. QED
    BY <1>2, Invariance, PTL DEF Spec, RightOpens
-----------------------------------------------------------------------------
(***************************************************************************)
(* Input                                                                   *)
(***************************************************************************)
(* What a device may have in its queue.                                    *)
EndOf(s) == Ends(IF Style[s] = "tracking" THEN "tracking-1" ELSE "pressure0")
OfKey(d, e) == \E k \in {"left", "volume"}, v \in {"down", "up"} : e = Key(k, v) /\ <<d, k>> \in Keys
OfTouch(d, e) ==
    /\ d \in Screens
    /\ \/ e.type = "abs" /\ e.at \in Areas
       \/ e = EndOf(d) /\ Style[d] # "legacy"
OfReport(e) == e \in {Syn("report"), Syn("mt"), Syn("dropped")}

(* A report is the last of a packet, and the next event after the end of a *)
(* touch.                                                                  *)
Sent(d, q) ==
    /\ q \in Seq(Event)
    /\ q # <<>> => q[Len(q)] = Syn("report")
    /\ \A i \in 1..Len(q) :
         /\ q[i].type = "key" => OfKey(d, q[i])
         /\ q[i].type = "syn" => OfReport(q[i])
         /\ q[i].type \in {"abs", "end"} /\ d \notin Unwanted => OfTouch(d, q[i])
         /\ q[i].type = "end" => i + 1 \in 1..Len(q) /\ q[i + 1] = Syn("report")

(* e comes after the event at i. *)
Later(q, i, e) == \E j \in 1..Len(q) : j > i /\ q[j] = e

(* What begins with one of downs is still on, or ends with an up that has  *)
(* not been read.                                                          *)
Owes(q, downs, up, on) == \A i \in 1..Len(q) : q[i] \in downs => on \/ Later(q, i, up)

Touches == {e \in Event : e.type = "abs"}

LEMMA EventFields ==
  /\ \A a \in Areas \cup {"idle"} : Move("abs", a) \in Event /\ Move("abs", a).type = "abs" /\ Move("abs", a).at = a
  /\ Move("rel", "none") \in Event /\ Move("rel", "none").type = "rel"
  /\ \A c \in {"tracking-1", "pressure0"} : Ends(c) \in Event /\ Ends(c).type = "end" /\ Ends(c).code = c
  /\ \A k \in {"left", "volume"}, v \in {"down", "up"} :
        Key(k, v) \in Event /\ Key(k, v).type = "key" /\ Key(k, v).code = k /\ Key(k, v).at = v
  /\ \A c \in {"report", "mt", "dropped"} : Syn(c) \in Event /\ Syn(c).type = "syn" /\ Syn(c).code = c
  BY DEF Event, Move, Ends, Key, Syn

LEMMA TailFacts ==
  ASSUME NEW S, NEW q \in Seq(S), q # <<>>
  PROVE  /\ Len(q) \in Nat /\ Len(q) > 0
         /\ Head(q) = q[1] /\ Head(q) \in S
         /\ Tail(q) \in Seq(S) /\ Len(Tail(q)) = Len(q) - 1
         /\ \A i \in 1..Len(Tail(q)) : Tail(q)[i] = q[i + 1]
         /\ Tail(q) # <<>> <=> Len(q) > 1
  <1>1. /\ Len(q) \in Nat /\ Len(q) > 0
        /\ Head(q) = q[1] /\ Head(q) \in S
        /\ Tail(q) \in Seq(S) /\ Len(Tail(q)) = Len(q) - 1
        /\ \A i \in 1..Len(Tail(q)) : Tail(q)[i] = q[i + 1]
    OBVIOUS
  <1>2. \A t \in Seq(S) : t = <<>> <=> Len(t) = 0
    OBVIOUS
  <1>3. Tail(q) = <<>> <=> Len(Tail(q)) = 0
    BY <1>1, <1>2
  <1>4. QED
    BY <1>1, <1>3

LEMMA AppendFacts ==
  ASSUME NEW S, NEW q \in Seq(S), NEW p \in Seq(S)
  PROVE  /\ q \o p \in Seq(S) /\ Len(q) \in Nat /\ Len(p) \in Nat
         /\ Len(q \o p) = Len(q) + Len(p)
         /\ \A i \in 1..Len(q) : (q \o p)[i] = q[i]
         /\ \A i \in 1..Len(p) : (q \o p)[Len(q) + i] = p[i]
         /\ \A i \in 1..Len(q \o p) : i \in 1..Len(q) \/ \E k \in 1..Len(p) : i = Len(q) + k
  <1>1. /\ q \o p \in Seq(S) /\ Len(q) \in Nat /\ Len(p) \in Nat
        /\ Len(q \o p) = Len(q) + Len(p)
        /\ \A i \in 1..Len(q) : (q \o p)[i] = q[i]
        /\ \A i \in 1..Len(p) : (q \o p)[Len(q) + i] = p[i]
    OBVIOUS
  <1>2. ASSUME NEW i \in 1..(Len(q) + Len(p)), i \notin 1..Len(q)
        PROVE  \E k \in 1..Len(p) : i = Len(q) + k
    <2>1. i - Len(q) \in 1..Len(p) /\ i = Len(q) + (i - Len(q))
      BY <1>1, <1>2
    <2>2. QED
      BY <2>1
  <1>3. QED
    BY <1>1, <1>2

LEMMA PairFacts ==
  ASSUME NEW a \in Event, NEW b \in Event
  PROVE  /\ <<a, b>> \in Seq(Event) /\ Len(<<a, b>>) = 2
         /\ <<a, b>>[1] = a /\ <<a, b>>[2] = b
  OBVIOUS

LEMMA TripleFacts ==
  ASSUME NEW a \in Event, NEW b \in Event, NEW c \in Event
  PROVE  /\ <<a, b, c>> \in Seq(Event) /\ Len(<<a, b, c>>) = 3
         /\ <<a, b, c>>[1] = a /\ <<a, b, c>>[2] = b /\ <<a, b, c>>[3] = c
  OBVIOUS

LEMMA SentTail ==
  ASSUME NEW d, NEW q, Sent(d, q), q # <<>>
  PROVE  /\ Sent(d, Tail(q)) /\ q[1] \in Event /\ Head(q) = q[1]
         /\ q[1] # Syn("report") => Tail(q) # <<>>
         /\ q[1].type = "end" => Tail(q) # <<>> /\ Head(Tail(q)) = Syn("report")
  <1>1. q \in Seq(Event)
    BY DEF Sent
  <1> DEFINE t == Tail(q)
  <1>2. /\ Len(q) \in Nat /\ Len(q) > 0 /\ Head(q) = q[1] /\ Head(q) \in Event
        /\ t \in Seq(Event) /\ Len(t) = Len(q) - 1
        /\ \A i \in 1..Len(t) : i + 1 \in 1..Len(q) /\ t[i] = q[i + 1]
        /\ t # <<>> <=> Len(q) > 1
    BY <1>1, TailFacts
  <1>2a. t # <<>> => Head(t) = t[1]
    BY <1>2
  <1> HIDE DEF t
  <1>3. t # <<>> => t[Len(t)] = Syn("report")
    BY <1>2 DEF Sent
  <1>4. ASSUME NEW i \in 1..Len(t)
        PROVE  /\ t[i].type = "key" => OfKey(d, t[i])
               /\ t[i].type = "syn" => OfReport(t[i])
               /\ t[i].type \in {"abs", "end"} /\ d \notin Unwanted => OfTouch(d, t[i])
               /\ t[i].type = "end" => i + 1 \in 1..Len(t) /\ t[i + 1] = Syn("report")
    <2>1. i + 1 \in 1..Len(q) /\ t[i] = q[i + 1]
      BY <1>2
    <2>2. q[i + 1].type = "end" => i + 2 \in 1..Len(q) /\ q[i + 2] = Syn("report")
      BY <2>1 DEF Sent
    <2>3. q[i + 1].type = "end" => i + 1 \in 1..Len(t) /\ t[i + 1] = Syn("report")
      BY <2>2, <1>2
    <2>4. QED
      BY <2>1, <2>3 DEF Sent
  <1>5. q[1] # Syn("report") => t # <<>>
    BY <1>2 DEF Sent
  <1>6. q[1].type = "end" => t # <<>> /\ t[1] = Syn("report")
    <2>1. q[1].type = "end" => 2 \in 1..Len(q) /\ q[2] = Syn("report")
      BY <1>2 DEF Sent
    <2>2. QED
      BY <2>1, <1>2
  <1>7. Sent(d, t)
    BY <1>2, <1>3, <1>4 DEF Sent
  <1>8. QED
    BY <1>2, <1>2a, <1>5, <1>6, <1>7 DEF t

LEMMA SentAppend ==
  ASSUME NEW d, NEW q, NEW p, Sent(d, q), Sent(d, p), p # <<>>
  PROVE  Sent(d, q \o p)
  <1> DEFINE r == q \o p
  <1>1. q \in Seq(Event) /\ p \in Seq(Event) /\ Len(p) > 0
    BY DEF Sent
  <1>2. /\ r \in Seq(Event) /\ Len(q) \in Nat /\ Len(p) \in Nat
        /\ Len(r) = Len(q) + Len(p)
        /\ \A i \in 1..Len(q) : r[i] = q[i]
        /\ \A i \in 1..Len(p) : r[Len(q) + i] = p[i]
        /\ \A i \in 1..Len(r) : i \in 1..Len(q) \/ \E k \in 1..Len(p) : i = Len(q) + k
    BY <1>1, AppendFacts
  <1> HIDE DEF r
  <1>3. r[Len(r)] = Syn("report")
    BY <1>1, <1>2 DEF Sent
  <1>4. ASSUME NEW i \in 1..Len(r)
        PROVE  /\ r[i].type = "key" => OfKey(d, r[i])
               /\ r[i].type = "syn" => OfReport(r[i])
               /\ r[i].type \in {"abs", "end"} /\ d \notin Unwanted => OfTouch(d, r[i])
               /\ r[i].type = "end" => i + 1 \in 1..Len(r) /\ r[i + 1] = Syn("report")
    <2>1. CASE i \in 1..Len(q)
      <3>1. q[i].type = "end" => i + 1 \in 1..Len(q) /\ q[i + 1] = Syn("report")
        BY <2>1 DEF Sent
      <3>2. QED
        BY <1>2, <2>1, <3>1 DEF Sent
    <2>2. CASE \E k \in 1..Len(p) : i = Len(q) + k
      <3>1. PICK k \in 1..Len(p) : i = Len(q) + k
        BY <2>2
      <3>2. p[k].type = "end" => k + 1 \in 1..Len(p) /\ p[k + 1] = Syn("report")
        BY DEF Sent
      <3>3. r[i] = p[k] /\ (k + 1 \in 1..Len(p) => i + 1 \in 1..Len(r) /\ r[i + 1] = p[k + 1])
        <4>1. i + 1 = Len(q) + (k + 1)
          BY <3>1, <1>2
        <4>2. QED
          BY <3>1, <4>1, <1>2
      <3>4. QED
        BY <3>2, <3>3 DEF Sent
    <2>3. QED
      BY <1>2, <2>1, <2>2
  <1>5. QED
    BY <1>2, <1>3, <1>4 DEF Sent, r

LEMMA LaterTail ==
  ASSUME NEW q \in Seq(Event), q # <<>>, NEW e
  PROVE  /\ \A i \in Nat : Later(q, i + 1, e) => Later(Tail(q), i, e)
         /\ Later(q, 0, e) /\ q[1] # e => Later(Tail(q), 0, e)
         /\ Later(Tail(q), 0, e) => Later(q, 0, e)
  <1> DEFINE t == Tail(q)
  <1>1. /\ Len(q) \in Nat /\ Len(t) = Len(q) - 1
        /\ \A i \in 1..Len(t) : t[i] = q[i + 1]
    BY TailFacts
  <1> HIDE DEF t
  <1>2. ASSUME NEW j \in 1..Len(q), j > 1 PROVE j - 1 \in 1..Len(t) /\ t[j - 1] = q[j]
    BY <1>1, <1>2
  <1>3. ASSUME NEW i \in Nat, Later(q, i + 1, e) PROVE Later(t, i, e)
    <2>1. PICK j \in 1..Len(q) : j > i + 1 /\ q[j] = e
      BY <1>3 DEF Later
    <2>2. j - 1 \in 1..Len(t) /\ t[j - 1] = e /\ j - 1 > i
      BY <1>1, <1>2, <2>1
    <2>3. QED
      BY <2>2 DEF Later
  <1>4. ASSUME Later(q, 0, e), q[1] # e PROVE Later(t, 0, e)
    <2>1. PICK j \in 1..Len(q) : q[j] = e
      BY <1>4 DEF Later
    <2>2. j - 1 \in 1..Len(t) /\ t[j - 1] = e /\ j - 1 > 0
      BY <1>1, <1>2, <1>4, <2>1
    <2>3. QED
      BY <2>2 DEF Later
  <1>5. ASSUME Later(t, 0, e) PROVE Later(q, 0, e)
    <2>1. PICK j \in 1..Len(t) : t[j] = e
      BY <1>5 DEF Later
    <2>2. j + 1 \in 1..Len(q) /\ q[j + 1] = e /\ j + 1 > 0
      BY <1>1, <2>1
    <2>3. QED
      BY <2>2 DEF Later
  <1>6. QED
    BY <1>3, <1>4, <1>5 DEF t

LEMMA LaterAppend ==
  ASSUME NEW q \in Seq(Event), NEW p \in Seq(Event), NEW e
  PROVE  /\ \A i \in Nat : Later(q, i, e) => Later(q \o p, i, e)
         /\ \A i \in 0..Len(q), k \in 1..Len(p) : p[k] = e => Later(q \o p, i, e)
  <1> DEFINE r == q \o p
  <1>1. /\ Len(q) \in Nat /\ Len(p) \in Nat /\ Len(r) = Len(q) + Len(p)
        /\ \A i \in 1..Len(q) : r[i] = q[i]
        /\ \A i \in 1..Len(p) : r[Len(q) + i] = p[i]
    BY AppendFacts
  <1> HIDE DEF r
  <1>2. ASSUME NEW i \in Nat, Later(q, i, e) PROVE Later(r, i, e)
    <2>1. PICK j \in 1..Len(q) : j > i /\ q[j] = e
      BY <1>2 DEF Later
    <2>2. j \in 1..Len(r) /\ r[j] = e
      BY <1>1, <2>1
    <2>3. QED
      BY <2>1, <2>2 DEF Later
  <1>3. ASSUME NEW i \in 0..Len(q), NEW k \in 1..Len(p), p[k] = e PROVE Later(r, i, e)
    <2>1. Len(q) + k \in 1..Len(r) /\ r[Len(q) + k] = e /\ Len(q) + k > i
      BY <1>1, <1>3
    <2>2. QED
      BY <2>1 DEF Later
  <1>4. QED
    BY <1>2, <1>3 DEF r

LEMMA OwesTail ==
  ASSUME NEW q \in Seq(Event), q # <<>>, NEW downs, NEW up, NEW on, Owes(q, downs, up, on)
  PROVE  /\ Owes(Tail(q), downs, up, on)
         /\ q[1] \in downs => on \/ Later(Tail(q), 0, up)
  <1> DEFINE t == Tail(q)
  <1>1. /\ Len(q) \in Nat /\ Len(q) > 0 /\ Len(t) = Len(q) - 1
        /\ \A i \in 1..Len(t) : i + 1 \in 1..Len(q) /\ t[i] = q[i + 1]
    BY TailFacts
  <1>2. \A i \in Nat : Later(q, i + 1, up) => Later(t, i, up)
    BY LaterTail
  <1> HIDE DEF t
  <1>3. ASSUME NEW i \in 1..Len(t), t[i] \in downs PROVE on \/ Later(t, i, up)
    <2>1. i + 1 \in 1..Len(q) /\ q[i + 1] \in downs
      BY <1>1, <1>3
    <2>2. on \/ Later(q, i + 1, up)
      BY <2>1 DEF Owes
    <2>3. QED
      BY <1>2, <2>2
  <1>4. q[1] \in downs => on \/ Later(q, 0 + 1, up)
    BY <1>1 DEF Owes
  <1>5. QED
    BY <1>2, <1>3, <1>4 DEF Owes, t

LEMMA OwesAppend ==
  ASSUME NEW q \in Seq(Event), NEW p \in Seq(Event), NEW downs, NEW up, NEW on, NEW on2,
         Owes(q, downs, up, on),
         on => on2 \/ \E k \in 1..Len(p) : p[k] = up,
         \A k \in 1..Len(p) : p[k] \in downs => on2
  PROVE  Owes(q \o p, downs, up, on2)
  <1> DEFINE r == q \o p
  <1>1. /\ Len(r) = Len(q) + Len(p) /\ Len(q) \in Nat
        /\ \A i \in 1..Len(q) : r[i] = q[i]
        /\ \A i \in 1..Len(p) : r[Len(q) + i] = p[i]
        /\ \A i \in 1..Len(r) : i \in 1..Len(q) \/ \E k \in 1..Len(p) : i = Len(q) + k
    BY AppendFacts
  <1>2. /\ \A i \in Nat : Later(q, i, up) => Later(r, i, up)
        /\ \A i \in 0..Len(q), k \in 1..Len(p) : p[k] = up => Later(r, i, up)
    BY LaterAppend
  <1> HIDE DEF r
  <1>3. ASSUME NEW i \in 1..Len(r), r[i] \in downs PROVE on2 \/ Later(r, i, up)
    <2>1. CASE i \in 1..Len(q)
      <3>1. on \/ Later(q, i, up)
        BY <1>1, <1>3, <2>1 DEF Owes
      <3>2. i \in Nat /\ i \in 0..Len(q)
        BY <2>1, <1>1
      <3>3. QED
        BY <1>2, <3>1, <3>2
    <2>2. CASE \E k \in 1..Len(p) : i = Len(q) + k
      BY <1>1, <1>3, <2>2
    <2>3. QED
      BY <1>1, <2>1, <2>2
  <1>4. QED
    BY <1>3 DEF Owes, r

-----------------------------------------------------------------------------
(* What holds whatever is lost.                                            *)
Wired ==
    /\ \A m, n \in 1..Len(fds) : fds[m] = fds[n] => m = n
    /\ \A n \in 1..Len(fds) : fds[n] \in Unwanted => ignored[n]
    /\ \A n \in 1..Len(fds) : fds[n] \notin Screens /\ ~ignored[n] => ~synced[n]
Queued == \A d \in Inputs : Sent(d, queue[d])
KeysHeld == (key # "none" => kbDown # {}) /\ ("vkey" \in kbDown => discard)
Ended ==
    /\ releaseOnSyn = 2 => useTracking
    /\ useTracking => \E s \in Screens : Style[s] = "tracking"
    /\ releaseOnSyn = 1 => \E s \in Screens : Style[s] = "pressure"
Base == InputTypeOK /\ Wired /\ Queued /\ KeysHeld /\ Ended

Handled ==
    /\ touch \in {"none", "hold", "repeat"} /\ key \in {"none", "pressed", "repeat"}
    /\ state \in {"in_action", "no_action"} /\ at \in Areas \cup {"origin"}
    /\ kbDown \subseteq {"volume", "vkey"}

LEMMA Slots ==
  ASSUME InputTypeOK, NEW n \in 1..Len(fds)
  PROVE  n \in 1..MaxDevices /\ fds[n] \in Inputs /\ Len(fds) \in Nat
  <1>1. fds \in Seq(Inputs) /\ Len(fds) <= MaxDevices /\ MaxDevices \in Nat
    BY InputAssumption DEF InputTypeOK
  <1>2. QED
    BY <1>1

LEMMA ListingsTyped ==
  ASSUME plugged \subseteq Inputs, NEW f \in Listings
  PROVE  /\ f \in Seq(Inputs) /\ Len(f) <= MaxDevices /\ Len(f) \in Nat
         /\ \A m, n \in 1..Len(f) : f[m] = f[n] => m = n
  <1>1. PICK k \in 0..MaxDevices : f \in [1..k -> plugged]
    BY DEF Listings
  <1>2. k \in Nat /\ k <= MaxDevices
    BY InputAssumption
  <1>3. f \in Seq(Inputs) /\ Len(f) = k
    BY <1>1, <1>2
  <1>4. DOMAIN f = 1..Len(f) /\ \A a, b \in DOMAIN f : f[a] = f[b] => a = b
    BY <1>1, <1>2, <1>3 DEF Listings
  <1>5. QED
    BY <1>2, <1>3, <1>4

LEMMA EmptySent == \A d : Sent(d, <<>>)
  BY DEF Sent

LEMMA InitBase == InputInit => Base
  <1> SUFFICES ASSUME InputInit PROVE Base
    OBVIOUS
  <1>1. plugged \subseteq Inputs /\ fds \in Listings
    BY DEF InputInit
  <1>2. /\ fds \in Seq(Inputs) /\ Len(fds) <= MaxDevices /\ Len(fds) \in Nat
        /\ \A m, n \in 1..Len(fds) : fds[m] = fds[n] => m = n
    BY <1>1, ListingsTyped
  <1>3. \A d \in Inputs : queue[d] = <<>> /\ Len(queue[d]) = 0
    BY DEF InputInit
  <1>4. queue \in [Inputs -> Seq(Event)]
    BY DEF InputInit
  <1>5. /\ ignored \in [1..MaxDevices -> BOOLEAN] /\ synced \in [1..MaxDevices -> BOOLEAN]
        /\ pos \in [1..MaxDevices -> Areas \cup {"origin"}]
    BY DEF InputInit
  <1>6. MaxPackets \in Nat /\ MaxPlugs \in Nat /\ QueueSize \in Nat /\ MaxDevices \in Nat
    BY InputAssumption
  <1>7. InputTypeOK
    <2>1. {changed, downX, discard, lastWasSyn, useTracking, sensed, lost} \subseteq BOOLEAN
      BY DEF InputInit
    <2>2. /\ contact \subseteq Screens /\ pressed \subseteq Keys
          /\ \A d \in Inputs : Len(queue[d]) <= QueueSize
          /\ packets \in 0..MaxPackets /\ plugs \in 0..MaxPlugs
      BY <1>3, <1>6 DEF InputInit
    <2>3. /\ releaseOnSyn \in 0..2
          /\ touch \in {"none", "hold", "repeat"} /\ key \in {"none", "pressed", "repeat"}
          /\ state \in {"in_action", "no_action"} /\ at \in Areas \cup {"origin"}
          /\ kbDown \subseteq {"volume", "vkey"}
      BY DEF InputInit
    <2>4. QED
      BY <1>1, <1>2, <1>4, <1>5, <2>1, <2>2, <2>3 DEF InputTypeOK
  <1>8. Wired
    <2>1. \A n \in 1..Len(fds) : n \in 1..MaxDevices
      BY <1>2, <1>6
    <2>2. \A n \in 1..Len(fds) : ~synced[n] /\ (fds[n] \in Unwanted => ignored[n])
      <3>1. SUFFICES ASSUME NEW n \in 1..Len(fds) PROVE ~synced[n] /\ (fds[n] \in Unwanted => ignored[n])
        OBVIOUS
      <3>2. n \in 1..MaxDevices /\ n <= Len(fds)
        BY <1>2, <2>1
      <3>3. synced[n] = FALSE /\ ignored[n] = (n <= Len(fds) /\ fds[n] \in Unwanted)
        BY <3>2 DEF InputInit
      <3>4. QED
        BY <3>2, <3>3
    <2>3. QED
      BY <1>2, <2>2 DEF Wired
  <1>9. Queued
    BY <1>3, EmptySent DEF Queued
  <1>10. KeysHeld /\ Ended
    BY DEF InputInit, KeysHeld, Ended
  <1>11. QED
    BY <1>7, <1>8, <1>9, <1>10 DEF Base

-----------------------------------------------------------------------------
(* The packets.                                                            *)
LEMMA PairSent ==
  ASSUME NEW d, NEW e \in Event, e.type # "end",
         e.type = "key" => OfKey(d, e),
         e.type = "syn" => OfReport(e),
         e.type = "abs" /\ d \notin Unwanted => OfTouch(d, e)
  PROVE  Sent(d, <<e, Syn("report")>>) /\ <<e, Syn("report")>> # <<>>
  <1> DEFINE p == <<e, Syn("report")>>
  <1>1. /\ p \in Seq(Event) /\ Len(p) = 2 /\ p[1] = e /\ p[2] = Syn("report") /\ p # <<>>
        /\ Syn("report").type = "syn"
    BY EventFields, PairFacts
  <1> HIDE DEF p
  <1>2. OfReport(Syn("report"))
    BY DEF OfReport
  <1>3. ASSUME NEW i \in 1..2 PROVE i = 1 \/ i = 2
    OBVIOUS
  <1>4. Sent(d, p)
    BY <1>1, <1>2, <1>3 DEF Sent
  <1>5. QED
    BY <1>1, <1>4 DEF p

LEMMA TouchSent ==
  ASSUME NEW s \in Screens, NEW a \in Areas
  PROVE  Sent(s, TouchPacket(s, a)) /\ TouchPacket(s, a) # <<>>
  <1>1. Move("abs", a) \in Event /\ Move("abs", a).type = "abs" /\ OfTouch(s, Move("abs", a))
    BY EventFields DEF OfTouch
  <1>2. CASE Style[s] # "legacy"
    BY <1>1, <1>2, PairSent DEF TouchPacket
  <1>3. CASE Style[s] = "legacy"
    <2> DEFINE p == <<Move("abs", a), Syn("mt"), Syn("report")>>
    <2>1. /\ p \in Seq(Event) /\ Len(p) = 3 /\ p[1] = Move("abs", a) /\ p[2] = Syn("mt") /\ p[3] = Syn("report")
          /\ p # <<>> /\ Syn("report").type = "syn" /\ Syn("mt").type = "syn"
      BY EventFields, TripleFacts
    <2> HIDE DEF p
    <2>2. OfReport(Syn("report")) /\ OfReport(Syn("mt"))
      BY DEF OfReport
    <2>3. ASSUME NEW i \in 1..3 PROVE i = 1 \/ i = 2 \/ i = 3
      OBVIOUS
    <2>4. Sent(s, p)
      BY <1>1, <2>1, <2>2, <2>3 DEF Sent
    <2>5. QED
      BY <1>3, <2>1, <2>4 DEF TouchPacket, p
  <1>4. QED
    BY <1>2, <1>3

LEMMA LiftSent ==
  ASSUME NEW s \in Screens
  PROVE  /\ Sent(s, LiftPacket(s)) /\ LiftPacket(s) # <<>>
         /\ Style[s] # "legacy" => LiftPacket(s) = <<EndOf(s), Syn("report")>>
  <1>1. Style[s] \in {"tracking", "pressure", "legacy"}
    BY InputAssumption
  <1>2. CASE Style[s] # "legacy"
    <2> DEFINE p == <<EndOf(s), Syn("report")>>
    <2>1. EndOf(s) \in Event /\ EndOf(s).type = "end" /\ OfTouch(s, EndOf(s))
      BY <1>2, EventFields DEF EndOf, OfTouch
    <2>2. p \in Seq(Event) /\ Len(p) = 2 /\ p[1] = EndOf(s) /\ p[2] = Syn("report") /\ p # <<>>
      BY <2>1, EventFields, PairFacts
    <2>3. LiftPacket(s) = p
      BY <1>1, <1>2 DEF LiftPacket, EndOf
    <2> HIDE DEF p
    <2>4. Syn("report").type = "syn" /\ OfReport(Syn("report"))
      BY EventFields DEF OfReport
    <2>5. ASSUME NEW i \in 1..2 PROVE i = 1 \/ i = 2
      OBVIOUS
    <2>6. Sent(s, p)
      BY <2>1, <2>2, <2>4, <2>5 DEF Sent
    <2>7. QED
      BY <2>2, <2>3, <2>6 DEF p
  <1>3. CASE Style[s] = "legacy"
    <2>1. LiftPacket(s) = <<Syn("mt"), Syn("report")>>
      BY <1>3 DEF LiftPacket
    <2>2. Syn("mt") \in Event /\ Syn("mt").type = "syn" /\ OfReport(Syn("mt"))
      BY EventFields DEF OfReport
    <2>3. QED
      BY <1>3, <2>1, <2>2, PairSent
  <1>4. QED
    BY <1>2, <1>3

LEMMA KeySent ==
  ASSUME NEW p \in Keys, NEW v \in {"down", "up"}
  PROVE  /\ p[1] \in Inputs /\ p[2] \in {"left", "volume"} /\ p = <<p[1], p[2]>>
         /\ p[1] \notin Screens
         /\ Sent(p[1], <<Key(p[2], v), Syn("report")>>) /\ <<Key(p[2], v), Syn("report")>> # <<>>
  <1>1. /\ p[1] \in Inputs /\ p[2] \in {"left", "volume"} /\ p = <<p[1], p[2]>>
        /\ p[1] \notin Screens
    BY InputAssumption DEF Keys, Inputs
  <1>2. Key(p[2], v) \in Event /\ Key(p[2], v).type = "key" /\ OfKey(p[1], Key(p[2], v))
    BY <1>1, EventFields DEF OfKey
  <1>3. QED
    BY <1>1, <1>2, PairSent

(* Either nothing is lost, and the packet is at the end of its queue, or   *)
(* something is.                                                           *)
LEMMA Sending ==
  ASSUME Base, NEW d \in Inputs, NEW p, Send(d, p), Sent(d, p), p # <<>>,
         contact' \subseteq Screens, pressed' \subseteq Keys
  PROVE  /\ Base'
         /\ ~lost' => /\ ~lost
                      /\ queue' = [queue EXCEPT ![d] = queue[d] \o p]
         /\ lost' \in BOOLEAN /\ told' = "none"
         /\ UNCHANGED <<plugged, changed, fds, ignored, synced, pos, shared, handler, plugs, sensed>>
  <1>1. /\ InputTypeOK /\ Queued /\ queue \in [Inputs -> Seq(Event)] /\ p \in Seq(Event) /\ Sent(d, queue[d])
        /\ QueueSize \in Nat /\ QueueSize > 1 /\ MaxPackets \in Nat
    BY InputAssumption DEF Base, InputTypeOK, Queued, Sent
  <1>2. /\ UNCHANGED <<plugged, changed, fds, ignored, synced, pos, shared, handler, plugs, sensed>>
        /\ told' = "none" /\ packets' \in 0..MaxPackets
    BY <1>1 DEF Send, InputTypeOK
  <1>3. lost' \in BOOLEAN /\ (~lost' => ~lost /\ queue'[d] = queue[d] \o p)
    BY <1>1 DEF Send, InputTypeOK
  <1> DEFINE dropped == <<Syn("dropped"), Syn("report")>>
  <1>4. Sent(d, dropped) /\ dropped # <<>> /\ Len(dropped) = 2
    <2>1. Syn("dropped") \in Event /\ Syn("dropped").type = "syn" /\ OfReport(Syn("dropped")) /\ Syn("report") \in Event
      BY EventFields DEF OfReport
    <2>2. QED
      BY <2>1, PairSent, PairFacts
  <1>5. Sent(d, queue[d] \o p) /\ Len(queue[d] \o p) = Len(queue[d]) + Len(p) /\ Len(p) \in Nat /\ Len(queue[d]) \in Nat
    BY <1>1, SentAppend, AppendFacts
  <1> HIDE DEF dropped
  <1>6. \/ queue' = queue
        \/ Fits(d, p) /\ queue' = [queue EXCEPT ![d] = queue[d] \o p]
        \/ queue' = [queue EXCEPT ![d] = dropped] /\ ~Fits(d, p)
    BY DEF Send, dropped
  <1>7. /\ queue' \in [Inputs -> Seq(Event)]
        /\ \A c \in Inputs : Sent(c, queue'[c]) /\ Len(queue'[c]) <= QueueSize
    <2>1. CASE queue' = queue
      BY <1>1, <2>1 DEF Queued, InputTypeOK
    <2>2. CASE Fits(d, p) /\ queue' = [queue EXCEPT ![d] = queue[d] \o p]
      <3>1. Len(queue[d] \o p) <= QueueSize /\ queue[d] \o p \in Seq(Event)
        BY <1>5, <2>2 DEF Fits, Sent
      <3>2. QED
        BY <1>1, <1>5, <2>2, <3>1 DEF Queued, InputTypeOK
    <2>3. CASE queue' = [queue EXCEPT ![d] = dropped]
      <3>1. dropped \in Seq(Event) /\ Len(dropped) <= QueueSize
        BY <1>1, <1>4 DEF Sent
      <3>2. QED
        BY <1>1, <1>4, <2>3, <3>1 DEF Queued, InputTypeOK
    <2>4. QED
      BY <1>6, <2>1, <2>2, <2>3
  <1>8. ~lost' => queue' = [queue EXCEPT ![d] = queue[d] \o p]
    <2>0. SUFFICES ASSUME queue'[d] = queue[d] \o p PROVE queue' = [queue EXCEPT ![d] = queue[d] \o p]
      BY <1>3
    <2>1. Len(p) > 0
      BY <1>1
    <2>2. queue'[d] # queue[d]
      BY <1>5, <2>0, <2>1
    <2>3. CASE queue' = [queue EXCEPT ![d] = dropped] /\ ~Fits(d, p)
      <3>1. queue'[d] = dropped
        BY <1>1, <2>3
      <3>2. Len(queue[d]) + Len(p) > QueueSize
        BY <1>1, <1>5, <2>3 DEF Fits
      <3>3. Len(queue[d]) + Len(p) = 2
        BY <1>4, <1>5, <2>0, <3>1
      <3>4. QED
        BY <1>1, <3>2, <3>3
    <2>4. QED
      BY <1>6, <2>2, <2>3
  <1>9. InputTypeOK'
    BY <1>1, <1>2, <1>3, <1>7 DEF InputTypeOK, shared, handler
  <1>10. Wired' /\ KeysHeld' /\ Ended'
    BY <1>2 DEF Base, Wired, KeysHeld, Ended, shared, handler
  <1>11. Queued'
    BY <1>7 DEF Queued
  <1>12. QED
    BY <1>2, <1>3, <1>8, <1>9, <1>10, <1>11 DEF Base

-----------------------------------------------------------------------------
(* Every screen tells of the end of a touch, and all in the same way: once *)
(* a tracking id of -1 was seen a pressure of 0 is no end any more.        *)
OneStyle == (\A s \in Screens : Style[s] = "tracking") \/ (\A s \in Screens : Style[s] = "pressure")

(* What a packet leaves to be read of what begins and ends with it.        *)
Announced(d, p) ==
    /\ \A s \in contact : s \in contact' \/ (s = d /\ \E i \in 1..Len(p) : p[i] = EndOf(s))
    /\ \A c \in Inputs, k \in {"left", "volume"} : <<c, k>> \in pressed =>
          <<c, k>> \in pressed' \/ (c = d /\ \E i \in 1..Len(p) : p[i] = Key(k, "up"))
    /\ d \notin Unwanted => \A i \in 1..Len(p) :
          /\ p[i] \in Touches => d \in contact'
          /\ \A k \in {"left", "volume"} : p[i] = Key(k, "down") => <<d, k>> \in pressed'
    /\ d \in Screens \ Unwanted => d \in contact' \/ \E i \in 1..Len(p) : p[i] = EndOf(d)

Packet(d, p) ==
    /\ d \in Inputs /\ Send(d, p) /\ Sent(d, p) /\ p # <<>>
    /\ contact' \subseteq Screens /\ pressed' \subseteq Keys
    /\ OneStyle => Announced(d, p)

LEMMA Types ==
  /\ \A k \in {"left", "volume"}, v \in {"down", "up"} : Key(k, v) \notin Touches /\ Key(k, v) # Syn("report")
  /\ \A c \in {"report", "mt", "dropped"} : Syn(c) \notin Touches
  /\ \A s \in Screens : EndOf(s) \notin Touches /\ EndOf(s) \in Event /\ EndOf(s).type = "end"
  /\ \A k, l \in {"left", "volume"} : Key(k, "up") # Key(l, "down") /\ (k # l => Key(k, "down") # Key(l, "down"))
  /\ \A c \in {"report", "mt", "dropped"}, k \in {"left", "volume"} : Syn(c) # Key(k, "down")
  /\ \A s \in Screens, k \in {"left", "volume"} : EndOf(s) # Key(k, "down")
  /\ \A e \in Touches, k \in {"left", "volume"} : e # Key(k, "down")
  /\ Move("rel", "none") \notin Touches
  /\ \A k \in {"left", "volume"} : Move("rel", "none") # Key(k, "down")
  BY DEF Touches, Event, Key, Syn, Move, Ends, EndOf

LEMMA TouchPackets ==
  ASSUME Base, Touch
  PROVE  \E d \in Inputs : \E p : Packet(d, p)
  <1>1. PICK s \in Screens, a \in Areas :
             Send(s, TouchPacket(s, a)) /\ contact' = contact \cup {s} /\ UNCHANGED pressed
    BY DEF Touch
  <1>2. contact \subseteq Screens /\ pressed \subseteq Keys /\ s \in Inputs
    BY DEF Base, InputTypeOK, Inputs
  <1>3. Sent(s, TouchPacket(s, a)) /\ TouchPacket(s, a) # <<>>
    BY TouchSent
  <1>4. OneStyle => Announced(s, TouchPacket(s, a))
    <2>1. SUFFICES ASSUME OneStyle PROVE Announced(s, TouchPacket(s, a))
      OBVIOUS
    <2>2. TouchPacket(s, a) = <<Move("abs", a), Syn("report")>>
      BY <2>1 DEF TouchPacket, OneStyle
    <2>3. /\ Move("abs", a) \in Touches /\ Move("abs", a) \in Event /\ Syn("report") \in Event
      BY EventFields DEF Touches
    <2>4. /\ Len(TouchPacket(s, a)) = 2 /\ TouchPacket(s, a)[1] = Move("abs", a)
          /\ TouchPacket(s, a)[2] = Syn("report")
      BY <2>2, <2>3, PairFacts
    <2>5. ASSUME NEW i \in 1..2, NEW k \in {"left", "volume"} PROVE TouchPacket(s, a)[i] # Key(k, "down")
      <3>1. i = 1 \/ i = 2
        OBVIOUS
      <3>2. QED
        BY <2>3, <2>4, <3>1, Types
    <2>6. QED
      BY <1>1, <2>4, <2>5 DEF Announced
  <1>5. Packet(s, TouchPacket(s, a))
    BY <1>1, <1>2, <1>3, <1>4 DEF Packet
  <1>6. QED
    BY <1>2, <1>5

LEMMA LiftPackets ==
  ASSUME Base, Lift
  PROVE  \E d \in Inputs : \E p : Packet(d, p)
  <1>1. PICK s \in contact : Send(s, LiftPacket(s)) /\ contact' = contact \ {s} /\ UNCHANGED pressed
    BY DEF Lift
  <1>2. contact \subseteq Screens /\ pressed \subseteq Keys /\ s \in Inputs /\ s \in Screens
    BY DEF Base, InputTypeOK, Inputs
  <1>3. Sent(s, LiftPacket(s)) /\ LiftPacket(s) # <<>>
    BY <1>2, LiftSent
  <1>4. OneStyle => Announced(s, LiftPacket(s))
    <2>1. SUFFICES ASSUME OneStyle PROVE Announced(s, LiftPacket(s))
      OBVIOUS
    <2>2. LiftPacket(s) = <<EndOf(s), Syn("report")>>
      BY <1>2, <2>1, LiftSent DEF OneStyle
    <2>3. EndOf(s) \in Event /\ Syn("report") \in Event
      BY <1>2, EventFields, Types
    <2>4. Len(LiftPacket(s)) = 2 /\ LiftPacket(s)[1] = EndOf(s) /\ LiftPacket(s)[2] = Syn("report")
      BY <2>2, <2>3, PairFacts
    <2>5. \A i \in 1..2 : LiftPacket(s)[i] \notin Touches /\ \A k \in {"left", "volume"} : LiftPacket(s)[i] # Key(k, "down")
      <3>1. \A i \in 1..2 : i = 1 \/ i = 2
        OBVIOUS
      <3>2. QED
        BY <1>2, <2>4, <3>1, Types
    <2>6. \E i \in 1..Len(LiftPacket(s)) : LiftPacket(s)[i] = EndOf(s)
      BY <2>4
    <2>7. QED
      BY <1>1, <1>2, <2>4, <2>5, <2>6 DEF Announced
  <1>5. Packet(s, LiftPacket(s))
    BY <1>1, <1>2, <1>3, <1>4 DEF Packet
  <1>6. QED
    BY <1>2, <1>5

LEMMA PressPackets ==
  ASSUME Base, Press
  PROVE  \E d \in Inputs : \E p : Packet(d, p)
  <1>1. PICK x \in Keys : /\ Send(x[1], <<Key(x[2], "down"), Syn("report")>>)
                          /\ pressed' = pressed \cup {x} /\ UNCHANGED contact
    BY DEF Press
  <1> DEFINE d == x[1]
             p == <<Key(x[2], "down"), Syn("report")>>
  <1>2. /\ d \in Inputs /\ d \notin Screens /\ x[2] \in {"left", "volume"} /\ x = <<x[1], x[2]>>
        /\ Sent(d, p) /\ p # <<>>
    BY KeySent
  <1>3. contact \subseteq Screens /\ pressed \subseteq Keys
    BY DEF Base, InputTypeOK
  <1>4. Len(p) = 2 /\ p[1] = Key(x[2], "down") /\ p[2] = Syn("report")
    BY <1>2, EventFields, PairFacts
  <1>5. \A i \in 1..2 : i = 1 \/ i = 2
    OBVIOUS
  <1> HIDE DEF p
  <1>6. \A i \in 1..Len(p) : /\ p[i] \notin Touches
                             /\ \A k \in {"left", "volume"} : p[i] = Key(k, "down") => k = x[2]
    BY <1>2, <1>4, <1>5, Types
  <1>7. Announced(d, p)
    BY <1>1, <1>2, <1>6 DEF Announced
  <1>8. Packet(d, p)
    BY <1>1, <1>2, <1>3, <1>7 DEF Packet, p
  <1>9. QED
    BY <1>2, <1>8

LEMMA ReleasePackets ==
  ASSUME Base, Release
  PROVE  \E d \in Inputs : \E p : Packet(d, p)
  <1>1. PICK x \in pressed : /\ Send(x[1], <<Key(x[2], "up"), Syn("report")>>)
                             /\ pressed' = pressed \ {x} /\ UNCHANGED contact
    BY DEF Release
  <1>2. contact \subseteq Screens /\ pressed \subseteq Keys /\ x \in Keys
    BY DEF Base, InputTypeOK
  <1> DEFINE d == x[1]
             p == <<Key(x[2], "up"), Syn("report")>>
  <1>3. /\ d \in Inputs /\ d \notin Screens /\ x[2] \in {"left", "volume"} /\ x = <<x[1], x[2]>>
        /\ Sent(d, p) /\ p # <<>>
    BY <1>2, KeySent
  <1>4. Len(p) = 2 /\ p[1] = Key(x[2], "up") /\ p[2] = Syn("report")
    BY <1>3, EventFields, PairFacts
  <1>5. \A i \in 1..2 : i = 1 \/ i = 2
    OBVIOUS
  <1> HIDE DEF p
  <1>6. \A i \in 1..Len(p) : p[i] \notin Touches /\ \A k \in {"left", "volume"} : p[i] # Key(k, "down")
    BY <1>3, <1>4, <1>5, Types
  <1>7. \E i \in 1..Len(p) : p[i] = Key(x[2], "up")
    BY <1>4
  <1>8. \A c \in Inputs, k \in {"left", "volume"} : <<c, k>> \in pressed =>
          <<c, k>> \in pressed' \/ (c = d /\ \E i \in 1..Len(p) : p[i] = Key(k, "up"))
    <2>1. SUFFICES ASSUME NEW c \in Inputs, NEW k \in {"left", "volume"}, <<c, k>> \in pressed, <<c, k>> \notin pressed'
                   PROVE  c = d /\ k = x[2]
      BY <1>7
    <2>2. <<c, k>> = x
      BY <1>1, <2>1
    <2>3. QED
      BY <2>2
  <1>9. Announced(d, p)
    BY <1>1, <1>3, <1>6, <1>8 DEF Announced
  <1>10. Packet(d, p)
    BY <1>1, <1>2, <1>3, <1>9 DEF Packet, p
  <1>11. QED
    BY <1>3, <1>10

LEMMA OtherPackets ==
  ASSUME Base, MoveMouse \/ Shake
  PROVE  \E d \in Inputs : \E p : Packet(d, p)
  <1>1. contact \subseteq Screens /\ pressed \subseteq Keys
    BY DEF Base, InputTypeOK
  <1>2. CASE MoveMouse
    <2>1. PICK d \in Mice : Send(d, <<Move("rel", "none"), Syn("report")>>) /\ UNCHANGED <<contact, pressed>>
      BY <1>2 DEF MoveMouse
    <2> DEFINE p == <<Move("rel", "none"), Syn("report")>>
    <2>2. d \in Inputs /\ d \notin Screens /\ Move("rel", "none") \in Event /\ Move("rel", "none").type = "rel"
      BY EventFields, InputAssumption DEF Inputs
    <2>3. Sent(d, p) /\ p # <<>> /\ Len(p) = 2 /\ p[1] = Move("rel", "none") /\ p[2] = Syn("report")
      BY <2>2, EventFields, PairSent, PairFacts
    <2>4. \A i \in 1..2 : i = 1 \/ i = 2
      OBVIOUS
    <2> HIDE DEF p
    <2>5. \A i \in 1..Len(p) : p[i] \notin Touches /\ \A k \in {"left", "volume"} : p[i] # Key(k, "down")
      BY <2>3, <2>4, Types
    <2>6. Announced(d, p)
      BY <2>1, <2>2, <2>5 DEF Announced
    <2>7. Packet(d, p)
      BY <1>1, <2>1, <2>2, <2>3, <2>6 DEF Packet, p
    <2>8. QED
      BY <2>2, <2>7
  <1>3. CASE Shake
    <2>1. PICK d \in Unwanted : Send(d, <<Move("abs", "idle"), Syn("report")>>) /\ UNCHANGED <<contact, pressed>>
      BY <1>3 DEF Shake
    <2> DEFINE p == <<Move("abs", "idle"), Syn("report")>>
    <2>2. d \in Inputs /\ Move("abs", "idle") \in Event /\ Move("abs", "idle").type = "abs"
      BY EventFields DEF Inputs
    <2>3. Sent(d, p) /\ p # <<>>
      BY <2>2, PairSent
    <2>4. Announced(d, p)
      BY <2>1 DEF Announced
    <2>5. Packet(d, p)
      BY <1>1, <2>1, <2>2, <2>3, <2>4 DEF Packet
    <2>6. QED
      BY <2>2, <2>5
  <1>4. QED
    BY <1>2, <1>3

LEMMA PlugBase ==
  ASSUME Base, Plug
  PROVE  /\ Base' /\ told' = "none"
         /\ UNCHANGED <<fds, ignored, synced, pos, shared, handler, sensed>>
         /\ ~lost' => ~lost /\ UNCHANGED <<contact, pressed, queue>>
  <1>1. InputTypeOK /\ MaxPlugs \in Nat /\ QueueSize \in Nat /\ Pluggable \subseteq Inputs
    BY InputAssumption DEF Base
  <1>2. PICK d \in Pluggable :
         IF d \in plugged
         THEN /\ plugged' = plugged \ {d} /\ contact' = contact \ {d}
              /\ pressed' = {p \in pressed : p[1] # d}
              /\ queue' = [queue EXCEPT ![d] = <<>>] /\ lost' = TRUE
         ELSE /\ plugged' = plugged \cup {d}
              /\ UNCHANGED <<contact, pressed, queue, lost>>
    BY DEF Plug
  <1>3. /\ UNCHANGED <<fds, ignored, synced, pos, shared, handler, packets, sensed>>
        /\ told' = "none" /\ changed' \in BOOLEAN /\ plugs' \in 0..MaxPlugs
    <2>1. UNCHANGED <<fds, ignored, synced, pos, shared, handler, packets, sensed>> /\ told' = "none"
      BY DEF Plug
    <2>2. plugs \in 0..MaxPlugs /\ plugs < MaxPlugs /\ plugs' = plugs + 1
      BY <1>1 DEF Plug, InputTypeOK
    <2>3. changed \in BOOLEAN /\ changed' \in {TRUE, changed}
      BY <1>1 DEF Plug, InputTypeOK
    <2>4. changed' \in BOOLEAN
      BY <2>3, Zenon
    <2>5. plugs' \in 0..MaxPlugs
      BY <1>1, <2>2
    <2>6. QED
      BY <2>1, <2>4, <2>5, Zenon
  <1>4. /\ plugged' \subseteq Inputs /\ contact' \subseteq Screens /\ pressed' \subseteq Keys
        /\ lost' \in BOOLEAN /\ (~lost' => ~lost /\ UNCHANGED <<contact, pressed, queue>>)
    BY <1>1, <1>2 DEF InputTypeOK
  <1>5. /\ queue' \in [Inputs -> Seq(Event)]
        /\ \A c \in Inputs : Sent(c, queue'[c]) /\ Len(queue'[c]) <= QueueSize
    <2>1. Sent(d, <<>>) /\ <<>> \in Seq(Event) /\ Len(<<>>) <= QueueSize
      BY <1>1, EmptySent
    <2>2. CASE queue' = queue
      BY <2>2 DEF Base, Queued, InputTypeOK
    <2>3. CASE queue' = [queue EXCEPT ![d] = <<>>]
      BY <1>1, <2>1, <2>3 DEF Base, Queued, InputTypeOK
    <2>4. QED
      BY <1>2, <2>2, <2>3
  <1>6. InputTypeOK'
    BY <1>1, <1>3, <1>4, <1>5 DEF InputTypeOK, shared, handler
  <1>7. Wired' /\ KeysHeld' /\ Ended' /\ Queued'
    BY <1>3, <1>5 DEF Base, Wired, KeysHeld, Ended, Queued, shared, handler
  <1>8. QED
    BY <1>3, <1>4, <1>6, <1>7 DEF Base

LEMMA ReloadBase ==
  ASSUME Base, Reload
  PROVE  Base' /\ lost' = TRUE /\ told' = "none"
  <1>1. InputTypeOK /\ QueueSize \in Nat /\ MaxDevices \in Nat
    BY InputAssumption DEF Base
  <1>2. /\ EvInit /\ queue' = [d \in Inputs |-> <<>>] /\ lost' = TRUE /\ told' = "none"
        /\ UNCHANGED <<plugged, contact, pressed, pos, shared, handler, packets, plugs, sensed>>
    BY DEF Reload
  <1>3. fds' \in Listings /\ plugged \subseteq Inputs
    BY <1>1, <1>2 DEF EvInit, InputTypeOK
  <1>4. /\ fds' \in Seq(Inputs) /\ Len(fds') <= MaxDevices /\ Len(fds') \in Nat
        /\ \A m, n \in 1..Len(fds') : fds'[m] = fds'[n] => m = n
    BY <1>3, ListingsTyped
  <1>5. /\ ignored' \in [1..MaxDevices -> BOOLEAN] /\ synced' \in [1..MaxDevices -> BOOLEAN]
        /\ changed' \in BOOLEAN
    BY <1>1, <1>2 DEF EvInit, InputTypeOK
  <1>6. \A n \in 1..Len(fds') : ~synced'[n] /\ (fds'[n] \in Unwanted => ignored'[n])
    <2>1. SUFFICES ASSUME NEW n \in 1..Len(fds') PROVE ~synced'[n] /\ (fds'[n] \in Unwanted => ignored'[n])
      OBVIOUS
    <2>2. n \in 1..MaxDevices /\ n <= Len(fds')
      BY <1>1, <1>4
    <2>3. /\ ignored' = [m \in DOMAIN ignored |-> ignored[m] \/ (m <= Len(fds') /\ fds'[m] \in Unwanted)]
          /\ synced' = [m \in DOMAIN synced |-> IF m <= Len(fds') THEN FALSE ELSE synced[m]]
      BY <1>2 DEF EvInit
    <2>4. DOMAIN ignored = 1..MaxDevices /\ DOMAIN synced = 1..MaxDevices
      BY <1>1 DEF InputTypeOK
    <2>5. synced'[n] = FALSE /\ ignored'[n] = (ignored[n] \/ (n <= Len(fds') /\ fds'[n] \in Unwanted))
      BY <2>2, <2>3, <2>4
    <2>6. QED
      BY <2>2, <2>5
  <1>7. Wired'
    BY <1>4, <1>6 DEF Wired
  <1>8. /\ queue' \in [Inputs -> Seq(Event)]
        /\ \A c \in Inputs : Sent(c, queue'[c]) /\ Len(queue'[c]) <= QueueSize
    BY <1>1, <1>2, EmptySent
  <1>9. InputTypeOK'
    BY <1>1, <1>2, <1>4, <1>5, <1>8 DEF InputTypeOK, shared, handler
  <1>10. KeysHeld' /\ Ended' /\ Queued'
    BY <1>2, <1>8 DEF Base, KeysHeld, Ended, Queued, shared, handler
  <1>11. QED
    BY <1>2, <1>7, <1>9, <1>10 DEF Base

-----------------------------------------------------------------------------
(* The events that may be read, and what each does.                        *)
At(n) == queue[fds[n]]

IgnoredRead(n) == ignored[n] /\ NoEvent /\ UNCHANGED <<synced, pos, shared>>

KeyRead(n, k, v) ==
    /\ ~ignored[n] /\ At(n)[1] = Key(k, v) /\ <<fds[n], k>> \in Keys
    /\ process_EV_KEY(k, v) /\ UNCHANGED <<synced, pos, shared>>

AbsRead(n) ==
    /\ ~ignored[n] /\ fds[n] \in Screens /\ At(n)[1] \in Touches /\ At(n)[1].at \in Areas
    /\ Position(n, At(n)[1].at)
    /\ NoEvent /\ lastWasSyn' = FALSE /\ UNCHANGED <<downX, discard>>

EndRead(n) ==
    /\ ~ignored[n] /\ fds[n] \in Screens /\ Style[fds[n]] # "legacy" /\ At(n)[1] = EndOf(fds[n])
    /\ EndOfTouch(n, IF Style[fds[n]] = "tracking" THEN "tracking-1" ELSE "pressure0")
    /\ NoEvent /\ lastWasSyn' = FALSE /\ UNCHANGED <<downX, discard>>

RelRead(n) ==
    /\ ~ignored[n] /\ At(n)[1].type = "rel"
    /\ process_EV_REL /\ lastWasSyn' = FALSE
    /\ UNCHANGED <<synced, pos, downX, discard, releaseOnSyn, useTracking>>

LiftRead(n) == ~ignored[n] /\ At(n)[1] = Syn("report") /\ Lifted /\ ReportLift /\ UNCHANGED pos
TouchRead(n) == ~ignored[n] /\ At(n)[1] = Syn("report") /\ ~Lifted /\ ReportTouch(n) /\ UNCHANGED pos

SynRead(n) ==
    /\ ~ignored[n] /\ At(n)[1] \in {Syn("mt"), Syn("dropped")}
    /\ NoEvent /\ lastWasSyn' \in {lastWasSyn, FALSE}
    /\ UNCHANGED <<synced, pos, downX, discard, releaseOnSyn, useTracking>>

Read(n) ==
    \/ IgnoredRead(n)
    \/ \E k \in {"left", "volume"}, v \in {"down", "up"} : KeyRead(n, k, v)
    \/ AbsRead(n) \/ EndRead(n) \/ RelRead(n) \/ LiftRead(n) \/ TouchRead(n) \/ SynRead(n)

(* What ProcessInput does to the queues, of the device at n.               *)
Taken(n) ==
    /\ n \in 1..Len(fds) /\ At(n) # <<>>
    /\ queue' = [queue EXCEPT ![fds[n]] = Tail(At(n))]
    /\ UNCHANGED <<kernel, fds, ignored>>
    /\ sensed' = Sense(n, At(n)[1])
    /\ lost' = (lost /\ (Held' \/ ~AllUp'))

LEMMA Reading ==
  ASSUME Base, ProcessInput
  PROVE  \E n \in 1..Len(fds) : Taken(n) /\ Read(n)
  <1>1. PICK n \in 1..Len(fds) :
       /\ queue[fds[n]] /= <<>>
       /\ vk_modify(n, Head(queue[fds[n]]))
       /\ sensed' = Sense(n, Head(queue[fds[n]]))
       /\ queue' = [queue EXCEPT ![fds[n]] = Tail(@)]
       /\ UNCHANGED <<kernel, fds, ignored>>
       /\ lost' = (lost /\ (Held' \/ ~AllUp'))
    BY DEF ProcessInput
  <1> DEFINE d == fds[n]
             e == At(n)[1]
  <1>2. d \in Inputs /\ queue \in [Inputs -> Seq(Event)]
    BY Slots DEF Base, InputTypeOK
  <1>3. /\ Sent(d, queue[d]) /\ e \in Event /\ Head(queue[d]) = e
        /\ queue[d] \in Seq(Event) /\ Len(queue[d]) \in Nat /\ Len(queue[d]) > 0
    BY <1>1, <1>2, SentTail, TailFacts DEF Base, Queued, At
  <1>4. vk_modify(n, e) /\ sensed' = Sense(n, e)
    BY <1>1, <1>3
  <1>5. Taken(n)
    BY <1>1, <1>2, <1>4 DEF Taken, At
  <1>6. /\ e.type = "key" => OfKey(d, e)
        /\ e.type = "syn" => OfReport(e)
        /\ e.type \in {"abs", "end"} /\ d \notin Unwanted => OfTouch(d, e)
    BY <1>3 DEF Sent, At
  <1>7. ~ignored[n] => d \notin Unwanted
    BY DEF Base, Wired
  <1>8. e.type \in {"abs", "end", "rel", "key", "syn"}
    BY <1>3 DEF Event
  <1> HIDE DEF d, e
  <1> SUFFICES Read(n)
    BY <1>5
  <1>9. CASE ignored[n]
    BY <1>4, <1>9 DEF vk_modify, Read, IgnoredRead
  <1>10. CASE ~ignored[n] /\ e.type = "key"
    <2>1. process_EV_KEY(e.code, e.at) /\ UNCHANGED <<synced, pos, shared>>
      BY <1>4, <1>10 DEF vk_modify
    <2>2. PICK k \in {"left", "volume"}, v \in {"down", "up"} : e = Key(k, v) /\ <<d, k>> \in Keys
      BY <1>6, <1>10 DEF OfKey
    <2>3. e.code = k /\ e.at = v
      BY <2>2, EventFields
    <2>4. process_EV_KEY(k, v)
      BY <2>1, <2>3
    <2>5. KeyRead(n, k, v)
      BY <1>10, <2>1, <2>2, <2>4 DEF KeyRead, d, e
    <2>6. QED
      BY <2>5 DEF Read
  <1>11. CASE ~ignored[n] /\ e.type = "abs"
    <2>1. Axis(n, e) /\ OfTouch(d, e)
      BY <1>4, <1>6, <1>7, <1>11 DEF vk_modify
    <2>2. d \in Screens /\ e \in Touches /\ e.at \in Areas
      BY <1>3, <1>11, <2>1, Types DEF OfTouch, Touches, e
    <2>3. AbsRead(n)
      BY <1>11, <2>1, <2>2 DEF Axis, AbsRead, d, e
    <2>4. QED
      BY <2>3 DEF Read
  <1>12. CASE ~ignored[n] /\ e.type = "end"
    <2>1. Axis(n, e) /\ OfTouch(d, e)
      BY <1>4, <1>6, <1>7, <1>12 DEF vk_modify
    <2>2. d \in Screens /\ e = EndOf(d) /\ Style[d] # "legacy"
      BY <1>12, <2>1 DEF OfTouch
    <2>3. e.code = IF Style[d] = "tracking" THEN "tracking-1" ELSE "pressure0"
      BY <2>2, EventFields DEF EndOf
    <2>4. /\ EndOfTouch(n, e.code) /\ NoEvent /\ lastWasSyn' = FALSE /\ UNCHANGED <<downX, discard>>
      BY <1>12, <2>1 DEF Axis
    <2>5. EndRead(n)
      BY <1>12, <2>2, <2>3, <2>4 DEF EndRead, d, e
    <2>6. QED
      BY <2>5 DEF Read
  <1>13. CASE ~ignored[n] /\ e.type = "rel"
    BY <1>4, <1>13 DEF vk_modify, Read, RelRead, e
  <1>14. CASE ~ignored[n] /\ e.type = "syn"
    <2>1. e \in {Syn("report"), Syn("mt"), Syn("dropped")}
      BY <1>6, <1>14 DEF OfReport
    <2>2. CASE e = Syn("report")
      <3>1. e.code = "report"
        BY <2>2, EventFields
      <3>2. Report(n)
        BY <1>4, <1>14, <3>1 DEF vk_modify
      <3>3. LiftRead(n) \/ TouchRead(n)
        BY <1>14, <2>2, <3>2 DEF Report, LiftRead, TouchRead, e
      <3>4. QED
        BY <3>3 DEF Read
    <2>3. CASE e = Syn("mt")
      <3>1. e.code = "mt"
        BY <2>3, EventFields
      <3>2. NoEvent /\ UNCHANGED <<synced, pos, shared>>
        BY <1>4, <1>14, <3>1 DEF vk_modify
      <3>3. SynRead(n)
        BY <1>14, <2>3, <3>2 DEF SynRead, shared, e
      <3>4. QED
        BY <3>3 DEF Read
    <2>4. CASE e = Syn("dropped")
      <3>1. e.code = "dropped"
        BY <2>4, EventFields
      <3>2. /\ NoEvent /\ lastWasSyn' = FALSE
            /\ UNCHANGED <<synced, pos, downX, discard, releaseOnSyn, useTracking>>
        BY <1>4, <1>14, <3>1 DEF vk_modify
      <3>3. SynRead(n)
        BY <1>14, <2>4, <3>2 DEF SynRead, e
      <3>4. QED
        BY <3>3 DEF Read
    <2>5. QED
      BY <2>1, <2>2, <2>3, <2>4
  <1>15. QED
    BY <1>8, <1>9, <1>10, <1>11, <1>12, <1>13, <1>14

(* What the handler and the state of vk_modify are after an event.         *)
Translated ==
    /\ Handled /\ KeysHeld /\ Ended
    /\ synced \in [1..MaxDevices -> BOOLEAN]
    /\ \A n \in 1..Len(fds) : fds[n] \notin Screens /\ ~ignored[n] => ~synced[n]
    /\ pos \in [1..MaxDevices -> Areas \cup {"origin"}]
    /\ downX \in BOOLEAN /\ discard \in BOOLEAN /\ lastWasSyn \in BOOLEAN /\ useTracking \in BOOLEAN
    /\ releaseOnSyn \in 0..2

LEMMA KeyTyped ==
  ASSUME Handled, NEW k \in {"left", "volume", "vkey"}, NEW v \in {"down", "up"}, process_EV_KEY(k, v), k # "left"
  PROVE  /\ Handled' /\ touch' = "none" /\ (key' # "none" => v = "down" /\ kbDown' # {})
         /\ kbDown' = (IF v = "down" THEN kbDown \cup {k} ELSE kbDown \ {k})
         /\ told' = "none" /\ UNCHANGED <<state, at>>
  BY DEF process_EV_KEY, Handled, Quiet

LEMMA LeftTyped ==
  ASSUME Handled, NEW v \in {"down", "up"}, process_EV_KEY("left", v)
  PROVE  /\ Handled' /\ UNCHANGED <<key, kbDown>>
         /\ touch' = IF v = "down" THEN "hold" ELSE "none"
         /\ v = "down" => told' = "none"
  BY DEF process_EV_KEY, LeftButton, doTouchStart, Handled, Quiet

LEMMA ReadBase ==
  ASSUME Base, NEW n, Taken(n), Read(n)
  PROVE  Base'
  <1>1. /\ InputTypeOK /\ Wired /\ Queued /\ n \in 1..MaxDevices /\ fds[n] \in Inputs
        /\ n \in 1..Len(fds) /\ At(n) # <<>>
    BY Slots DEF Base, Taken
  <1>2. Translated
    BY DEF Base, InputTypeOK, Wired, Translated, Handled
  <1>3. /\ UNCHANGED <<plugged, changed, contact, pressed, packets, plugs, fds, ignored>>
    BY DEF Taken, kernel
  <1>4. Translated'
    <2>1. CASE IgnoredRead(n)
      BY <1>2, <1>3, <2>1 DEF IgnoredRead, NoEvent, Translated, Handled, KeysHeld, Ended, shared, handler
    <2>2. ASSUME NEW k \in {"left", "volume"}, NEW v \in {"down", "up"}, KeyRead(n, k, v) PROVE Translated'
      <3>1. process_EV_KEY(k, v) /\ UNCHANGED <<synced, pos, shared>>
        BY <2>2 DEF KeyRead
      <3>2. Handled' /\ KeysHeld'
        <4>1. CASE k = "left"
          BY <1>2, <3>1, <4>1, LeftTyped DEF Translated, KeysHeld, shared
        <4>2. CASE k = "volume"
          BY <1>2, <3>1, <4>2, KeyTyped DEF Translated, KeysHeld, shared
        <4>3. QED
          BY <4>1, <4>2
      <3>3. QED
        BY <1>2, <1>3, <3>1, <3>2 DEF Translated, Ended, shared
    <2>3. CASE AbsRead(n)
      <3>1. /\ UNCHANGED <<handler, downX, discard, releaseOnSyn, useTracking>> /\ lastWasSyn' = FALSE
            /\ synced' = [synced EXCEPT ![n] = TRUE] /\ pos' = [pos EXCEPT ![n] = At(n)[1].at]
            /\ fds[n] \in Screens /\ At(n)[1].at \in Areas
        BY <2>3 DEF AbsRead, Position, NoEvent
      <3>2. lastWasSyn' \in BOOLEAN
        BY <3>1, Zenon
      <3>3. /\ synced' \in [1..MaxDevices -> BOOLEAN] /\ pos' \in [1..MaxDevices -> Areas \cup {"origin"}]
            /\ \A m \in 1..Len(fds) : fds[m] \notin Screens /\ ~ignored[m] => ~synced'[m]
        BY <1>1, <1>2, <3>1 DEF Translated
      <3>4. QED
        BY <1>2, <1>3, <3>1, <3>2, <3>3 DEF Translated, Handled, KeysHeld, Ended, handler
    <2>4. CASE EndRead(n)
      <3>1. /\ UNCHANGED <<handler, synced, downX, discard>> /\ lastWasSyn' = FALSE
            /\ pos' = [pos EXCEPT ![n] = "origin"]
        BY <2>4 DEF EndRead, EndOfTouch, NoEvent
      <3>1a. lastWasSyn' \in BOOLEAN
        BY <3>1, Zenon
      <3>2. CASE Style[fds[n]] = "tracking"
        <4>1. releaseOnSyn' = 2 /\ useTracking' /\ fds[n] \in Screens
          BY <2>4, <3>2 DEF EndRead, EndOfTouch
        <4>1a. useTracking' \in BOOLEAN
          <5>1. useTracking' = (useTracking \/ "tracking-1" = "tracking-1")
            BY <2>4, <3>2 DEF EndRead, EndOfTouch
          <5>2. QED
            BY <5>1, Zenon
        <4>2. Ended'
          BY <3>2, <4>1 DEF Ended
        <4>3. QED
          BY <1>1, <1>2, <1>3, <3>1, <3>1a, <4>1, <4>1a, <4>2 DEF Translated, Handled, KeysHeld, handler
      <3>3. CASE Style[fds[n]] # "tracking"
        <4>1. releaseOnSyn' = 1 /\ useTracking' = useTracking /\ fds[n] \in Screens /\ Style[fds[n]] = "pressure"
          BY <1>2, <2>4, <3>3, InputAssumption DEF EndRead, EndOfTouch, Translated
        <4>1a. useTracking' \in BOOLEAN
          BY <1>2, <4>1 DEF Translated
        <4>2. Ended'
          BY <1>2, <4>1 DEF Ended, Translated
        <4>3. QED
          BY <1>1, <1>2, <1>3, <3>1, <3>1a, <4>1, <4>1a, <4>2 DEF Translated, Handled, KeysHeld, handler
      <3>4. QED
        BY <3>2, <3>3
    <2>5. CASE RelRead(n)
      BY <1>2, <1>3, <2>5 DEF RelRead, process_EV_REL, Translated, Handled, KeysHeld, Ended
    <2>6. CASE LiftRead(n)
      <3>1. /\ releaseOnSyn' = 0 /\ downX' = FALSE /\ discard' = FALSE
            /\ IF discard THEN process_EV_KEY("vkey", "up") ELSE process_EV_ABS_up
            /\ UNCHANGED <<lastWasSyn, useTracking, synced, pos>>
        BY <2>6 DEF LiftRead, ReportLift
      <3>2. Handled' /\ KeysHeld'
        <4>1. CASE discard
          BY <1>2, <3>1, <4>1, KeyTyped DEF Translated, KeysHeld, Handled
        <4>2. CASE ~discard
          BY <1>2, <3>1, <4>2 DEF process_EV_ABS_up, Translated, KeysHeld, Handled
        <4>3. QED
          BY <4>1, <4>2
      <3>3. Ended'
        BY <1>2, <3>1 DEF Translated, Ended
      <3>4. downX' \in BOOLEAN /\ discard' \in BOOLEAN
        BY <3>1, Zenon
      <3>5. lastWasSyn' \in BOOLEAN /\ useTracking' \in BOOLEAN
        BY <1>2, <3>1 DEF Translated
      <3>6. QED
        BY <1>2, <1>3, <3>1, <3>2, <3>3, <3>4, <3>5 DEF Translated
    <2>7. CASE TouchRead(n)
      <3>1. /\ lastWasSyn' = TRUE /\ synced' = [synced EXCEPT ![n] = FALSE]
            /\ UNCHANGED <<releaseOnSyn, useTracking, pos>>
        BY <2>7 DEF TouchRead, ReportTouch
      <3>2. \/ NoEvent /\ UNCHANGED <<downX, discard>>
            \/ process_EV_KEY("vkey", "down") /\ downX' = TRUE /\ discard' = TRUE
            \/ pos[n] # "origin" /\ process_EV_ABS(pos[n]) /\ downX' = TRUE /\ UNCHANGED discard
        BY <2>7 DEF TouchRead, ReportTouch
      <3>3. Handled' /\ KeysHeld' /\ downX' \in BOOLEAN /\ discard' \in BOOLEAN
        <4>1. CASE NoEvent /\ UNCHANGED <<downX, discard>>
          BY <1>2, <4>1 DEF NoEvent, Translated, KeysHeld, Handled, handler
        <4>2. CASE process_EV_KEY("vkey", "down") /\ downX' = TRUE /\ discard' = TRUE
          BY <1>2, <4>2, KeyTyped DEF Translated, KeysHeld
        <4>3. CASE pos[n] # "origin" /\ process_EV_ABS(pos[n]) /\ downX' = TRUE /\ UNCHANGED discard
          <5>1. pos[n] \in Areas
            BY <1>1, <1>2, <4>3 DEF Translated
          <5>2. QED
            BY <1>2, <4>3, <5>1 DEF process_EV_ABS, doTouchStart, Translated, KeysHeld, Handled
        <4>4. QED
          BY <3>2, <4>1, <4>2, <4>3
      <3>4. QED
        BY <1>1, <1>2, <1>3, <3>1, <3>3 DEF Translated, Ended
    <2>8. CASE SynRead(n)
      <3>1. lastWasSyn' \in BOOLEAN
        <4>1. lastWasSyn \in BOOLEAN /\ lastWasSyn' \in {lastWasSyn, FALSE}
          BY <1>2, <2>8 DEF SynRead, Translated
        <4>2. QED
          BY <4>1, Zenon
      <3>2. UNCHANGED <<handler, synced, pos, downX, discard, releaseOnSyn, useTracking>>
        BY <2>8 DEF SynRead, NoEvent
      <3>3. QED
        BY <1>2, <1>3, <3>1, <3>2 DEF Translated, Handled, KeysHeld, Ended, handler
    <2>9. QED
      BY <2>1, <2>2, <2>3, <2>4, <2>5, <2>6, <2>7, <2>8 DEF Read
  <1>5. /\ queue' \in [Inputs -> Seq(Event)]
        /\ \A c \in Inputs : Sent(c, queue'[c]) /\ Len(queue'[c]) <= QueueSize
    <2>1. /\ Sent(fds[n], Tail(At(n))) /\ Tail(At(n)) \in Seq(Event)
          /\ Len(Tail(At(n))) = Len(At(n)) - 1 /\ Len(At(n)) \in Nat /\ Len(At(n)) <= QueueSize
      BY <1>1, SentTail, TailFacts DEF Queued, InputTypeOK, At
    <2>2. Len(Tail(At(n))) <= QueueSize
      BY <2>1, InputAssumption
    <2>3. queue' = [queue EXCEPT ![fds[n]] = Tail(At(n))]
      BY DEF Taken
    <2>4. QED
      BY <1>1, <2>1, <2>2, <2>3 DEF Queued, InputTypeOK
  <1>6. lost' \in BOOLEAN /\ sensed' \in BOOLEAN
    <2>1. lost' \in BOOLEAN
      BY <1>1 DEF Taken, InputTypeOK
    <2>2. sensed' \in BOOLEAN
      BY <1>1 DEF Taken, Sense, InputTypeOK
    <2>3. QED
      BY <2>1, <2>2
  <1>7. InputTypeOK'
    BY <1>1, <1>3, <1>4, <1>5, <1>6 DEF InputTypeOK, Translated, Handled
  <1>8. Wired'
    BY <1>1, <1>3, <1>4 DEF Wired, Translated
  <1>9. QED
    BY <1>4, <1>5, <1>7, <1>8 DEF Base, Queued, Translated

LEMMA HoldBase ==
  ASSUME Base, processHoldAndRepeat \/ handleDrag
  PROVE  Base' /\ UNCHANGED <<kernel, fds, queue, ignored, synced, pos, shared, kbDown, sensed, lost>>
         /\ told' = "none" /\ (touch' # "none" => touch # "none") /\ (key' # "none" => key # "none")
  <1>1. /\ UNCHANGED <<kernel, fds, queue, ignored, synced, pos, shared, kbDown, sensed, lost, at>>
        /\ told' = "none"
    BY DEF processHoldAndRepeat, handleDrag, Quiet
  <1>2. /\ touch' \in {"none", "hold", "repeat"} /\ key' \in {"none", "pressed", "repeat"}
        /\ state' \in {"in_action", "no_action"}
        /\ touch' # "none" => touch # "none"
        /\ key' # "none" => key # "none"
    BY DEF processHoldAndRepeat, handleDrag, Quiet, Base, InputTypeOK
  <1>3. InputTypeOK'
    BY <1>1, <1>2 DEF Base, InputTypeOK, kernel, shared
  <1>4. Wired' /\ Queued' /\ KeysHeld' /\ Ended'
    BY <1>1, <1>2 DEF Base, Wired, Queued, KeysHeld, Ended, kernel, shared
  <1>5. QED
    BY <1>1, <1>2, <1>3, <1>4 DEF Base

LEMMA PacketsOf ==
  ASSUME Base, Touch \/ Lift \/ Press \/ Release \/ MoveMouse \/ Shake
  PROVE  \E d \in Inputs : \E p : Packet(d, p)
  BY TouchPackets, LiftPackets, PressPackets, ReleasePackets, OtherPackets

LEMMA NextBase == Base /\ [InputNext]_inputVars => Base'
  <1> SUFFICES ASSUME Base, [InputNext]_inputVars PROVE Base'
    OBVIOUS
  <1>1. CASE Touch \/ Lift \/ Press \/ Release \/ MoveMouse \/ Shake
    BY <1>1, PacketsOf, Sending DEF Packet
  <1>2. CASE Plug
    BY <1>2, PlugBase
  <1>3. CASE Reload
    BY <1>3, ReloadBase
  <1>4. CASE ProcessInput
    BY <1>4, Reading, ReadBase
  <1>5. CASE processHoldAndRepeat \/ handleDrag
    BY <1>5, HoldBase
  <1>6. CASE UNCHANGED inputVars
    BY <1>6 DEF inputVars, Base, InputTypeOK, Wired, Queued, KeysHeld, Ended, shared, handler
  <1>7. QED
    BY <1>1, <1>2, <1>3, <1>4, <1>5, <1>6 DEF InputNext

LEMMA BaseInvariance == InputSpec => []Base
  BY InitBase, NextBase, PTL DEF InputSpec

(* The variables keep their types, whatever comes and goes: no queue is    *)
(* longer than what evdev keeps, and no slot is used that vk_init has not  *)
(* seen.                                                                   *)
THEOREM InputType == InputSpec => []InputTypeOK
  <1>1. Base => InputTypeOK
    BY DEF Base
  <1>2. QED
    BY <1>1, BaseInvariance, PTL

-----------------------------------------------------------------------------
(* Why something is held, as long as nothing was lost: a finger or a key   *)
(* is still down, or the event that ends it has not been read, or it was   *)
(* read and a report is to come.                                           *)
Live(n) ==
    /\ ~ignored[n] /\ fds[n] \in Screens
    /\ fds[n] \in contact \/ Later(At(n), 0, EndOf(fds[n]))
Down(n, k) == ~ignored[n] /\ (<<fds[n], k>> \in pressed \/ Later(At(n), 0, Key(k, "up")))
Pending(n) == ~ignored[n] /\ At(n) # <<>>

Owed ==
    \A d \in Inputs \ Unwanted :
       /\ d \in Screens => Owes(queue[d], Touches, EndOf(d), d \in contact)
       /\ \A k \in {"left", "volume"} : Owes(queue[d], {Key(k, "down")}, Key(k, "up"), <<d, k>> \in pressed)
Positions ==
    \A n \in 1..Len(fds) : Pending(n) /\ fds[n] \in Screens /\ pos[n] # "origin" => Live(n)
Lifting == releaseOnSyn # 0 => \E n \in 1..Len(fds) : Pending(n)
Touched == touch # "none" => releaseOnSyn # 0 \/ \E n \in 1..Len(fds) : Live(n) \/ Down(n, "left")
Discarded == discard => releaseOnSyn # 0 \/ \E n \in 1..Len(fds) : Live(n)
Volume == "volume" \in kbDown => \E n \in 1..Len(fds) : Down(n, "volume")
Causes == Owed /\ Positions /\ Lifting /\ Touched /\ Discarded /\ Volume

LEMMA InitCauses == InputInit => Causes
  <1> SUFFICES ASSUME InputInit PROVE Causes
    OBVIOUS
  <1>1. Base
    BY InitBase
  <1>2. \A n \in 1..Len(fds) : fds[n] \in Inputs /\ At(n) = <<>>
    BY <1>1, Slots DEF InputInit, Base, At
  <1>3. \A d \in Inputs : queue[d] = <<>> /\ Len(queue[d]) = 0
    BY DEF InputInit
  <1>4. Owed
    BY <1>3 DEF Owed, Owes
  <1>5. QED
    BY <1>2, <1>4 DEF InputInit, Causes, Positions, Pending, Lifting, Touched, Discarded, Volume

(* The screens agree, so the end of a touch is one: the next report lifts. *)
LEMMA OneEnd ==
  ASSUME Base, OneStyle, releaseOnSyn # 0
  PROVE  Lifted
  BY DEF Base, InputTypeOK, Ended, OneStyle, Lifted

LEMMA PacketCauses ==
  ASSUME Base, OneStyle, Causes, NEW d, NEW p, Packet(d, p), ~lost'
  PROVE  Causes'
  <1>1. /\ d \in Inputs /\ Announced(d, p) /\ p \in Seq(Event)
        /\ queue' = [queue EXCEPT ![d] = queue[d] \o p]
        /\ UNCHANGED <<fds, ignored, pos, shared, handler>>
    BY Sending DEF Packet, Sent
  <1>2. /\ queue \in [Inputs -> Seq(Event)]
        /\ \A n \in 1..Len(fds) : fds[n] \in Inputs
        /\ contact \subseteq Screens /\ Screens \subseteq Inputs
        /\ \A n \in 1..Len(fds) : ~ignored[n] => fds[n] \notin Unwanted
    BY Slots DEF Base, InputTypeOK, Wired, Inputs
  <1>3. /\ queue'[d] = queue[d] \o p /\ queue[d] \in Seq(Event) /\ Len(queue[d]) \in Nat
        /\ \A c \in Inputs : c # d => queue'[c] = queue[c]
    BY <1>1, <1>2
  <1>4. \A e : /\ Later(queue[d], 0, e) => Later(queue'[d], 0, e)
               /\ (\E i \in 1..Len(p) : p[i] = e) => Later(queue'[d], 0, e)
    BY <1>1, <1>3, LaterAppend
  <1>5. ASSUME NEW n \in 1..Len(fds), Live(n) PROVE Live(n)'
    <2>1. CASE fds[n] = d
      BY <1>1, <1>2, <1>4, <1>5, <2>1 DEF Live, At, Announced
    <2>2. CASE fds[n] # d
      BY <1>1, <1>2, <1>3, <1>5, <2>2 DEF Live, At, Announced
    <2>3. QED
      BY <2>1, <2>2
  <1>6. ASSUME NEW n \in 1..Len(fds), NEW k \in {"left", "volume"}, Down(n, k) PROVE Down(n, k)'
    <2>1. CASE fds[n] = d
      BY <1>1, <1>2, <1>4, <1>6, <2>1 DEF Down, At, Announced
    <2>2. CASE fds[n] # d
      BY <1>1, <1>2, <1>3, <1>6, <2>2 DEF Down, At, Announced
    <2>3. QED
      BY <2>1, <2>2
  <1>7. ASSUME NEW n \in 1..Len(fds), Pending(n) PROVE Pending(n)'
    <2>1. CASE fds[n] = d
      <3>1. queue[d] # <<>> /\ Len(queue'[d]) = Len(queue[d]) + Len(p) /\ Len(p) \in Nat
        BY <1>1, <1>3, <1>7, <2>1, AppendFacts DEF Pending, At
      <3>2. Len(queue[d]) > 0
        BY <1>3, <3>1
      <3>3. Len(queue'[d]) # 0
        BY <1>3, <3>1, <3>2
      <3>4. queue'[d] # <<>>
        BY <3>3
      <3>5. QED
        BY <1>1, <1>7, <2>1, <3>4 DEF Pending, At
    <2>2. CASE fds[n] # d
      BY <1>1, <1>2, <1>3, <1>7, <2>2 DEF Pending, At
    <2>3. QED
      BY <2>1, <2>2
  <1>8. Owed'
    <2>1. SUFFICES ASSUME NEW c \in Inputs \ Unwanted
                   PROVE  /\ c \in Screens => Owes(queue'[c], Touches, EndOf(c), c \in contact')
                          /\ \A k \in {"left", "volume"} :
                                Owes(queue'[c], {Key(k, "down")}, Key(k, "up"), <<c, k>> \in pressed')
      BY DEF Owed
    <2>2. /\ c \in Screens => Owes(queue[c], Touches, EndOf(c), c \in contact)
          /\ \A k \in {"left", "volume"} : Owes(queue[c], {Key(k, "down")}, Key(k, "up"), <<c, k>> \in pressed)
      BY DEF Causes, Owed
    <2>3. CASE c = d
      <3>1. ASSUME c \in Screens PROVE Owes(queue[d] \o p, Touches, EndOf(c), c \in contact')
        <4>1. c \in contact => c \in contact' \/ \E i \in 1..Len(p) : p[i] = EndOf(c)
          BY <1>1, <2>3 DEF Announced
        <4>2. \A i \in 1..Len(p) : p[i] \in Touches => c \in contact'
          BY <1>1, <2>1, <2>3 DEF Announced
        <4>3. QED
          BY <1>1, <1>3, <2>2, <2>3, <3>1, <4>1, <4>2, OwesAppend
      <3>2. ASSUME NEW k \in {"left", "volume"}
            PROVE  Owes(queue[d] \o p, {Key(k, "down")}, Key(k, "up"), <<c, k>> \in pressed')
        <4>1. <<c, k>> \in pressed => <<c, k>> \in pressed' \/ \E i \in 1..Len(p) : p[i] = Key(k, "up")
          BY <1>1, <2>3 DEF Announced
        <4>2. \A i \in 1..Len(p) : p[i] \in {Key(k, "down")} => <<c, k>> \in pressed'
          BY <1>1, <2>1, <2>3 DEF Announced
        <4>3. QED
          BY <1>1, <1>3, <2>2, <2>3, <4>1, <4>2, OwesAppend
      <3>3. QED
        BY <1>3, <2>3, <3>1, <3>2
    <2>4. CASE c # d
      <3>1. queue'[c] = queue[c]
        BY <1>3, <2>4
      <3>2. c \in contact => c \in contact'
        BY <1>1, <2>4 DEF Announced
      <3>3. \A k \in {"left", "volume"} : <<c, k>> \in pressed => <<c, k>> \in pressed'
        BY <1>1, <2>4 DEF Announced
      <3>4. QED
        BY <2>2, <3>1, <3>2, <3>3 DEF Owes
    <2>5. QED
      BY <2>3, <2>4
  <1>9. Positions'
    <2>1. SUFFICES ASSUME NEW n \in 1..Len(fds), Pending(n)', fds[n] \in Screens, pos[n] # "origin"
                   PROVE  Live(n)'
      BY <1>1 DEF Positions
    <2>2. CASE fds[n] = d
      <3>1. d \notin Unwanted /\ ~ignored[n]
        BY <1>1, <1>2, <2>1, <2>2 DEF Pending
      <3>2. d \in contact' \/ \E i \in 1..Len(p) : p[i] = EndOf(d)
        BY <1>1, <2>1, <2>2, <3>1 DEF Announced
      <3>3. QED
        BY <1>1, <1>4, <2>1, <2>2, <3>1, <3>2 DEF Live, At
    <2>3. CASE fds[n] # d
      <3>1. Pending(n)
        BY <1>1, <1>2, <1>3, <2>1, <2>3 DEF Pending, At
      <3>2. QED
        BY <1>5, <2>1, <3>1 DEF Causes, Positions
    <2>4. QED
      BY <2>2, <2>3
  <1>10. Lifting' /\ Touched' /\ Discarded' /\ Volume'
    <2>1. Lifting'
      BY <1>1, <1>7 DEF Causes, Lifting, shared
    <2>2. Touched'
      BY <1>1, <1>5, <1>6 DEF Causes, Touched, shared, handler
    <2>3. Discarded' /\ Volume'
      BY <1>1, <1>5, <1>6 DEF Causes, Discarded, Volume, shared, handler
    <2>4. QED
      BY <2>1, <2>2, <2>3
  <1>11. QED
    BY <1>8, <1>9, <1>10 DEF Causes

(* Nothing is held and nothing to be read: what was lost does not matter.  *)
LEMMA CleanCauses ==
  ASSUME Base, Base', NEW n, Taken(n), lost, ~lost'
  PROVE  Causes'
  <1>1. ~Held' /\ AllUp'
    BY DEF Taken
  <1>2. /\ \A d \in Inputs : queue'[d] = <<>> /\ Len(queue'[d]) = 0
        /\ touch' = "none" /\ ~discard' /\ kbDown' = {} /\ releaseOnSyn' = 0
    BY <1>1 DEF Held, AllUp
  <1>3. InputTypeOK'
    BY DEF Base
  <1>4. \A m \in 1..Len(fds') : fds'[m] \in Inputs
    <2>1. fds' = fds
      BY DEF Taken
    <2>2. QED
      BY <2>1, Slots DEF Base
  <1>5. \A m \in 1..Len(fds') : ~Pending(m)'
    BY <1>2, <1>4 DEF Pending, At
  <1>6. Owed'
    BY <1>2 DEF Owed, Owes
  <1>7. QED
    BY <1>2, <1>5, <1>6 DEF Causes, Positions, Lifting, Touched, Discarded, Volume

LEMMA ReadCauses ==
  ASSUME Base, OneStyle, Causes, NEW n, Taken(n), Read(n)
  PROVE  Causes'
  <1> DEFINE d == fds[n]
             q == At(n)
             e == At(n)[1]
  <1>1. /\ n \in 1..Len(fds) /\ q # <<>> /\ UNCHANGED <<contact, pressed, fds, ignored>>
        /\ queue' = [queue EXCEPT ![d] = Tail(q)]
    BY DEF Taken, kernel
  <1>2. /\ queue \in [Inputs -> Seq(Event)] /\ d \in Inputs
        /\ \A m \in 1..Len(fds) : fds[m] \in Inputs
        /\ \A m \in 1..Len(fds) : fds[m] = d => m = n
        /\ \A m \in 1..Len(fds) : ~ignored[m] => fds[m] \notin Unwanted
    BY <1>1, Slots DEF Base, InputTypeOK, Wired
  <1>3. /\ q = queue[d] /\ q \in Seq(Event) /\ Sent(d, q) /\ e \in Event
        /\ e # Syn("report") => Tail(q) # <<>>
        /\ e.type = "end" => Tail(q) # <<>>
    BY <1>1, <1>2, SentTail DEF Base, Queued, At
  <1>4. /\ queue'[d] = Tail(q) /\ At(n)' = Tail(q)
        /\ \A c \in Inputs : c # d => queue'[c] = queue[c]
        /\ \A m \in 1..Len(fds) : m # n => At(m)' = At(m)
    BY <1>1, <1>2 DEF At
  <1>5. \A x : Later(q, 0, x) /\ e # x => Later(Tail(q), 0, x)
    BY <1>1, <1>3, LaterTail
  <1>5a. /\ 1 \in 1..Len(q) /\ q[1] = e
         /\ \A x : Later(q, 1, x) => Later(Tail(q), 0, x)
    <2>1. Len(q) \in Nat /\ Len(q) > 0
      BY <1>1, <1>3, TailFacts
    <2>2. \A x : Later(q, 0 + 1, x) => Later(Tail(q), 0, x)
      BY <1>1, <1>3, LaterTail
    <2>3. QED
      BY <2>1, <2>2
  <1> HIDE DEF d, q, e
  <1>6. ASSUME NEW m \in 1..Len(fds), Live(m), ignored[n] \/ e # EndOf(d) PROVE Live(m)'
    <2>1. CASE m = n
      BY <1>1, <1>3, <1>4, <1>5, <1>6, <2>1 DEF Live, d, q
    <2>2. CASE m # n
      BY <1>1, <1>4, <1>6, <2>2 DEF Live
    <2>3. QED
      BY <2>1, <2>2
  <1>7. ASSUME NEW m \in 1..Len(fds), NEW k \in {"left", "volume"}, Down(m, k), ignored[n] \/ e # Key(k, "up")
        PROVE  Down(m, k)'
    <2>1. CASE m = n
      BY <1>1, <1>3, <1>4, <1>5, <1>7, <2>1 DEF Down, d, q
    <2>2. CASE m # n
      BY <1>1, <1>4, <1>7, <2>2 DEF Down
    <2>3. QED
      BY <2>1, <2>2
  <1>8. ASSUME NEW m \in 1..Len(fds), Pending(m), ignored[n] \/ e # Syn("report") PROVE Pending(m)'
    <2>1. CASE m = n
      BY <1>1, <1>3, <1>4, <1>8, <2>1 DEF Pending
    <2>2. CASE m # n
      BY <1>1, <1>4, <1>8, <2>2 DEF Pending
    <2>3. QED
      BY <2>1, <2>2
  <1>9. ASSUME NEW m \in 1..Len(fds), Pending(m)', ~ignored[n] \/ m # n PROVE Pending(m)
    <2>1. CASE m = n
      BY <1>1, <1>9, <2>1 DEF Pending, q
    <2>2. CASE m # n
      BY <1>1, <1>4, <1>9, <2>2 DEF Pending
    <2>3. QED
      BY <2>1, <2>2
  <1>10. Owed'
    <2>1. SUFFICES ASSUME NEW c \in Inputs \ Unwanted
                   PROVE  /\ c \in Screens => Owes(queue'[c], Touches, EndOf(c), c \in contact)
                          /\ \A k \in {"left", "volume"} :
                                Owes(queue'[c], {Key(k, "down")}, Key(k, "up"), <<c, k>> \in pressed)
      BY <1>1 DEF Owed
    <2>2. /\ c \in Screens => Owes(queue[c], Touches, EndOf(c), c \in contact)
          /\ \A k \in {"left", "volume"} : Owes(queue[c], {Key(k, "down")}, Key(k, "up"), <<c, k>> \in pressed)
      BY DEF Causes, Owed
    <2>3. CASE c = d
      BY <1>1, <1>3, <1>4, <2>2, <2>3, OwesTail
    <2>4. CASE c # d
      BY <1>4, <2>2, <2>4
    <2>5. QED
      BY <2>3, <2>4
  (* What begins with this event has a cause now.                          *)
  <1>11. ~ignored[n] /\ d \in Screens /\ e \in Touches => Live(n)'
    <2>1. SUFFICES ASSUME ~ignored[n], d \in Screens, e \in Touches PROVE Live(n)'
      OBVIOUS
    <2>2. Owes(q, Touches, EndOf(d), d \in contact)
      BY <1>1, <1>2, <1>3, <2>1 DEF Causes, Owed, d
    <2>3. d \in contact \/ Later(Tail(q), 0, EndOf(d))
      BY <1>3, <1>5a, <2>1, <2>2 DEF Owes
    <2>4. QED
      BY <1>1, <1>4, <2>1, <2>3 DEF Live, d
  <1>12. ASSUME NEW k \in {"left", "volume"}, ~ignored[n], e = Key(k, "down") PROVE Down(n, k)'
    <2>1. Owes(q, {Key(k, "down")}, Key(k, "up"), <<d, k>> \in pressed)
      BY <1>1, <1>2, <1>3, <1>12 DEF Causes, Owed, d
    <2>2. <<d, k>> \in pressed \/ Later(Tail(q), 0, Key(k, "up"))
      BY <1>3, <1>5a, <1>12, <2>1 DEF Owes
    <2>3. QED
      BY <1>1, <1>4, <1>12, <2>2 DEF Down, d
  <1>13. ASSUME pos' = pos, ignored[n] \/ e # EndOf(d) PROVE Positions'
    <2>1. SUFFICES ASSUME NEW m \in 1..Len(fds), Pending(m)', fds[m] \in Screens, pos[m] # "origin"
                   PROVE  Live(m)'
      BY <1>1, <1>13 DEF Positions
    <2>2. ~(ignored[n] /\ m = n)
      BY <1>1, <2>1 DEF Pending
    <2>3. Pending(m)
      BY <1>9, <2>1, <2>2
    <2>4. QED
      BY <1>6, <1>13, <2>1, <2>3 DEF Causes, Positions
  <1>14. ASSUME releaseOnSyn' = releaseOnSyn, ignored[n] \/ e # Syn("report") PROVE Lifting'
    BY <1>1, <1>8, <1>14 DEF Causes, Lifting
  <1>15. ASSUME discard' = discard, releaseOnSyn' = releaseOnSyn, ignored[n] \/ e # EndOf(d) PROVE Discarded'
    BY <1>1, <1>6, <1>15 DEF Causes, Discarded
  <1>16. ASSUME touch' # "none" => touch # "none", releaseOnSyn' = releaseOnSyn,
                ignored[n] \/ e # EndOf(d), ignored[n] \/ e # Key("left", "up") PROVE Touched'
    BY <1>1, <1>6, <1>7, <1>16 DEF Causes, Touched
  <1>17. ASSUME "volume" \in kbDown' => "volume" \in kbDown, ignored[n] \/ e # Key("volume", "up") PROVE Volume'
    BY <1>1, <1>7, <1>17 DEF Causes, Volume
  <1>18. CASE IgnoredRead(n)
    <2>1. ignored[n] /\ UNCHANGED <<pos, releaseOnSyn, discard, touch, kbDown>>
      BY <1>18 DEF IgnoredRead, NoEvent, shared, handler
    <2>2. QED
      BY <1>10, <1>13, <1>14, <1>15, <1>16, <1>17, <2>1 DEF Causes
  <1>19. ASSUME NEW k \in {"left", "volume"}, NEW v \in {"down", "up"}, KeyRead(n, k, v) PROVE Causes'
    <2>1. /\ ~ignored[n] /\ e = Key(k, v) /\ process_EV_KEY(k, v)
          /\ UNCHANGED <<pos, releaseOnSyn, discard>>
      BY <1>19 DEF KeyRead, shared, e
    <2>2. e.type = "key" /\ e.code = k /\ e.at = v
      BY <2>1, EventFields
    <2>3. e # Syn("report") /\ (d \in Screens => e # EndOf(d))
      BY <2>1, <2>2, Types
    <2>4. d \notin Screens \/ e # EndOf(d)
      BY <2>3
    <2>5. Handled
      BY DEF Base, InputTypeOK, Handled
    <2>6. e # EndOf(d)
      BY <2>2, EventFields DEF EndOf
    <2>7. Positions' /\ Lifting' /\ Discarded'
      BY <1>13, <1>14, <1>15, <2>1, <2>3, <2>6
    <2>8. Touched' /\ Volume'
      <3>1. CASE k = "left" /\ v = "down"
        <4>1. Down(n, "left")' /\ e # Key("volume", "up") /\ kbDown' = kbDown
          BY <1>12, <2>1, <2>2, <2>5, <3>1, EventFields, LeftTyped
        <4>2. Touched'
          BY <1>1, <4>1 DEF Touched
        <4>3. QED
          BY <1>17, <4>1, <4>2
      <3>2. CASE k = "left" /\ v = "up"
        <4>1. touch' = "none" /\ e # Key("volume", "up") /\ kbDown' = kbDown
          BY <2>1, <2>2, <2>5, <3>2, EventFields, LeftTyped
        <4>2. QED
          BY <1>17, <4>1 DEF Touched
      <3>3. CASE k = "volume" /\ v = "down"
        <4>1. touch' = "none" /\ Down(n, "volume")'
          BY <1>12, <2>1, <2>5, <3>3, KeyTyped
        <4>2. QED
          BY <1>1, <4>1 DEF Touched, Volume
      <3>4. CASE k = "volume" /\ v = "up"
        <4>1. touch' = "none" /\ "volume" \notin kbDown'
          BY <2>1, <2>5, <3>4, KeyTyped
        <4>2. QED
          BY <4>1 DEF Touched, Volume
      <3>5. QED
        BY <3>1, <3>2, <3>3, <3>4
    <2>9. QED
      BY <1>10, <2>7, <2>8 DEF Causes
  <1>20. CASE AbsRead(n)
    <2>1. /\ ~ignored[n] /\ d \in Screens /\ e \in Touches
          /\ pos' = [pos EXCEPT ![n] = e.at] /\ UNCHANGED <<releaseOnSyn, discard, touch, kbDown>>
      BY <1>20 DEF AbsRead, Position, NoEvent, handler, d, e
    <2>2. e # Syn("report") /\ e # EndOf(d) /\ \A k \in {"left", "volume"} : e # Key(k, "up")
      BY <2>1, Types
    <2>3. Positions'
      <3>1. SUFFICES ASSUME NEW m \in 1..Len(fds), Pending(m)', fds[m] \in Screens, pos'[m] # "origin"
                     PROVE  Live(m)'
        BY <1>1 DEF Positions
      <3>2. CASE m = n
        BY <1>11, <2>1, <3>2
      <3>3. CASE m # n
        <4>1. pos'[m] = pos[m] /\ Pending(m)
          BY <1>1, <1>9, <2>1, <3>1, <3>3, Slots DEF Base, InputTypeOK
        <4>2. QED
          BY <1>6, <2>2, <3>1, <4>1 DEF Causes, Positions
      <3>4. QED
        BY <3>2, <3>3
    <2>4. QED
      BY <1>10, <1>14, <1>15, <1>16, <1>17, <2>1, <2>2, <2>3 DEF Causes
  <1>21. CASE EndRead(n)
    <2>1. /\ ~ignored[n] /\ d \in Screens /\ e = EndOf(d)
          /\ pos' = [pos EXCEPT ![n] = "origin"] /\ releaseOnSyn' \in {1, 2}
          /\ UNCHANGED <<discard, touch, kbDown>>
      BY <1>21 DEF EndRead, EndOfTouch, NoEvent, handler, d, e
    <2>2. e.type = "end" /\ releaseOnSyn' # 0 /\ \A k \in {"left", "volume"} : e # Key(k, "up")
      BY <2>1, Types, EventFields
    <2>3. Pending(n)'
      BY <1>1, <1>3, <1>4, <2>1, <2>2 DEF Pending
    <2>4. Positions'
      <3>1. SUFFICES ASSUME NEW m \in 1..Len(fds), Pending(m)', fds[m] \in Screens, pos'[m] # "origin"
                     PROVE  Live(m)'
        BY <1>1 DEF Positions
      <3>2. m # n
        <4>1. n \in DOMAIN pos
          BY <1>1, Slots DEF Base, InputTypeOK
        <4>2. QED
          BY <2>1, <3>1, <4>1
      <3>3. pos'[m] = pos[m] /\ Pending(m)
        BY <1>1, <1>9, <2>1, <3>1, <3>2, Slots DEF Base, InputTypeOK
      <3>4. Live(m)
        BY <3>1, <3>3 DEF Causes, Positions
      <3>5. QED
        BY <1>1, <1>4, <3>2, <3>4 DEF Live
    <2>5. Lifting' /\ Touched' /\ Discarded'
      BY <1>1, <2>2, <2>3 DEF Lifting, Touched, Discarded
    <2>6. QED
      BY <1>10, <1>17, <2>1, <2>2, <2>4, <2>5 DEF Causes
  <1>22. CASE RelRead(n)
    <2>1. /\ ~ignored[n] /\ e.type = "rel" /\ UNCHANGED <<pos, releaseOnSyn, discard, touch, kbDown>>
      BY <1>22 DEF RelRead, process_EV_REL, e
    <2>2. e # Syn("report") /\ e # EndOf(d) /\ \A k \in {"left", "volume"} : e # Key(k, "up")
      BY <2>1, EventFields DEF EndOf
    <2>3. QED
      BY <1>10, <1>13, <1>14, <1>15, <1>16, <1>17, <2>1, <2>2 DEF Causes
  <1>23. CASE LiftRead(n)
    <2>1. /\ e = Syn("report") /\ releaseOnSyn' = 0 /\ ~discard' /\ pos' = pos
          /\ IF discard THEN process_EV_KEY("vkey", "up") ELSE process_EV_ABS_up
      BY <1>23 DEF LiftRead, ReportLift, e
    <2>2. touch' = "none" /\ ("volume" \in kbDown' => "volume" \in kbDown)
      <3>1. CASE discard
        BY <2>1, <3>1, KeyTyped DEF Base, InputTypeOK, Handled
      <3>2. CASE ~discard
        BY <2>1, <3>2 DEF process_EV_ABS_up
      <3>3. QED
        BY <3>1, <3>2
    <2>3. e.type = "syn" /\ e # EndOf(d) /\ e # Key("volume", "up")
      BY <2>1, EventFields DEF EndOf
    <2>4. QED
      BY <1>10, <1>13, <1>17, <2>1, <2>2, <2>3 DEF Causes, Lifting, Touched, Discarded
  <1>24. CASE TouchRead(n)
    <2>1. /\ ~ignored[n] /\ e = Syn("report") /\ ~Lifted /\ pos' = pos /\ releaseOnSyn' = releaseOnSyn
          /\ IF ~synced[n] \/ pos[n] = "origin" THEN NoEvent /\ UNCHANGED <<downX, discard>>
             ELSE IF ~downX /\ pos[n] = "vkey"
             THEN process_EV_KEY("vkey", "down") /\ downX' = TRUE /\ discard' = TRUE
             ELSE IF discard THEN NoEvent /\ UNCHANGED <<downX, discard>>
             ELSE process_EV_ABS(pos[n]) /\ downX' = TRUE /\ UNCHANGED discard
      BY <1>24 DEF TouchRead, ReportTouch, e
    <2>2. releaseOnSyn = 0
      BY <2>1, OneEnd
    <2>3. e.type = "syn" /\ e # EndOf(d) /\ \A k \in {"left", "volume"} : e # Key(k, "up")
      BY <2>1, EventFields DEF EndOf
    <2>4. CASE ~synced[n] \/ pos[n] = "origin"
      <3>1. UNCHANGED <<touch, kbDown, discard>>
        BY <2>1, <2>4 DEF NoEvent, handler
      <3>2. QED
        BY <1>10, <1>13, <1>15, <1>16, <1>17, <2>1, <2>2, <2>3, <3>1 DEF Causes, Lifting
    <2>5. CASE ~(~synced[n] \/ pos[n] = "origin")
      <3>1. d \in Screens
        BY <1>1, <2>1, <2>5 DEF Base, Wired, d
      <3>2. Live(n)
        BY <1>1, <2>1, <2>5, <3>1 DEF Causes, Positions, Pending, d, q
      <3>3. Live(n)' /\ n \in 1..Len(fds')
        BY <1>1, <1>6, <2>3, <3>2
      <3>4. "volume" \in kbDown' => "volume" \in kbDown
        BY <2>1, <2>5 DEF process_EV_KEY, NoEvent, process_EV_ABS, handler
      <3>5. Touched' /\ Discarded'
        BY <3>3 DEF Touched, Discarded
      <3>6. QED
        BY <1>10, <1>13, <1>17, <2>1, <2>2, <2>3, <3>4, <3>5 DEF Causes, Lifting
    <2>6. QED
      BY <2>4, <2>5
  <1>25. CASE SynRead(n)
    <2>1. /\ ~ignored[n] /\ e \in {Syn("mt"), Syn("dropped")}
          /\ UNCHANGED <<pos, releaseOnSyn, discard, touch, kbDown>>
      BY <1>25 DEF SynRead, NoEvent, handler, e
    <2>2. /\ e.type = "syn" /\ e # Syn("report") /\ e # EndOf(d)
          /\ \A k \in {"left", "volume"} : e # Key(k, "up")
      BY <2>1, EventFields DEF EndOf
    <2>3. QED
      BY <1>10, <1>13, <1>14, <1>15, <1>16, <1>17, <2>1, <2>2 DEF Causes
  <1>26. QED
    BY <1>18, <1>19, <1>20, <1>21, <1>22, <1>23, <1>24, <1>25 DEF Read

NoLoss == ~lost => Causes

LEMMA NextCauses ==
  ASSUME OneStyle, Base, Base', NoLoss, [InputNext]_inputVars
  PROVE  NoLoss'
  <1> SUFFICES ASSUME ~lost' PROVE Causes'
    BY DEF NoLoss
  <1>1. CASE Touch \/ Lift \/ Press \/ Release \/ MoveMouse \/ Shake
    <2>1. PICK d \in Inputs : \E p : Packet(d, p)
      BY <1>1, PacketsOf
    <2>2. PICK p : Packet(d, p)
      BY <2>1
    <2>3. ~lost
      BY <2>2, Sending DEF Packet
    <2>4. QED
      BY <2>2, <2>3, PacketCauses DEF NoLoss
  <1>2. CASE Plug
    <2>1. UNCHANGED <<fds, ignored, synced, pos, shared, handler, contact, pressed, queue>> /\ Causes
      BY <1>2, PlugBase DEF NoLoss
    <2>2. QED
      BY <2>1 DEF Causes, Owed, Positions, Lifting, Touched, Discarded, Volume, Live, Down, Pending, At, shared, handler
  <1>3. CASE Reload
    BY <1>3, ReloadBase
  <1>4. CASE ProcessInput
    <2>1. PICK n \in 1..Len(fds) : Taken(n) /\ Read(n)
      BY <1>4, Reading
    <2>2. QED
      BY <2>1, CleanCauses, ReadCauses DEF NoLoss
  <1>5. CASE processHoldAndRepeat \/ handleDrag
    <2>1. /\ UNCHANGED <<fds, ignored, pos, shared, kbDown, contact, pressed, queue>> /\ Causes
          /\ touch' # "none" => touch # "none"
      BY <1>5, HoldBase DEF NoLoss, kernel
    <2>2. QED
      BY <2>1 DEF Causes, Owed, Positions, Lifting, Touched, Discarded, Volume, Live, Down, Pending, At, shared
  <1>6. CASE UNCHANGED inputVars
    BY <1>6 DEF inputVars, NoLoss, Causes, Owed, Positions, Lifting, Touched, Discarded, Volume, Live, Down, Pending,
                At, shared, handler
  <1>7. QED
    BY <1>1, <1>2, <1>3, <1>4, <1>5, <1>6 DEF InputNext

LEMMA NothingHeld ==
  ASSUME Base, NoLoss
  PROVE  NothingStuck
  <1> SUFFICES ASSUME AllUp, ~lost PROVE ~Held
    BY DEF NothingStuck
  <1>1. Causes /\ contact = {} /\ pressed = {} /\ \A d \in Inputs : queue[d] = <<>> /\ Len(queue[d]) = 0
    BY DEF AllUp, NoLoss
  <1>2. \A n \in 1..Len(fds) : At(n) = <<>> /\ Len(At(n)) = 0
    BY <1>1, Slots DEF Base, At
  <1>3. ASSUME NEW n \in 1..Len(fds) PROVE ~Pending(n) /\ ~Live(n) /\ \A k : ~Down(n, k)
    BY <1>1, <1>2 DEF Pending, Live, Down, Later
  <1>4. releaseOnSyn = 0
    BY <1>1, <1>3 DEF Causes, Lifting
  <1>5. touch = "none" /\ ~discard /\ "volume" \notin kbDown
    BY <1>1, <1>3, <1>4 DEF Causes, Touched, Discarded, Volume
  <1>6. kbDown = {} /\ key = "none"
    BY <1>5 DEF Base, KeysHeld, InputTypeOK
  <1>7. QED
    BY <1>4, <1>5, <1>6 DEF Held

(* Whatever is pressed, touched and moved on however many devices, nothing *)
(* stays held when all is up and read, if the screens report the end of a  *)
(* touch in one way.                                                       *)
THEOREM NothingStaysHeld == ASSUME OneStyle PROVE InputSpec => []NothingStuck
  <1>1. InputInit => NoLoss
    BY InitCauses DEF NoLoss
  <1>2. Base /\ Base' /\ NoLoss /\ [InputNext]_inputVars => NoLoss'
    BY NextCauses
  <1>3. Base /\ NoLoss => NothingStuck
    BY NothingHeld
  <1>4. QED
    BY <1>1, <1>2, <1>3, BaseInvariance, PTL DEF InputSpec

-----------------------------------------------------------------------------
(* With one screen: a tracking id of -1 was read, nothing of the finger    *)
(* since, and the report that tells of it is next.                         *)
OneScreen == \A a, b \in Screens : a = b

AtReport(n) == ~ignored[n] /\ fds[n] \in Screens /\ At(n) # <<>> /\ At(n)[1] = Syn("report")
Lifts == ~lost /\ releaseOnSyn = 2 => ~sensed /\ \E n \in 1..Len(fds) : AtReport(n)

LEMMA NextLifts ==
  ASSUME OneScreen, Base, Base', Lifts, [InputNext]_inputVars
  PROVE  Lifts'
  <1> SUFFICES ASSUME ~lost', releaseOnSyn' = 2
               PROVE  ~sensed' /\ \E n \in 1..Len(fds') : AtReport(n)'
    BY DEF Lifts
  <1>0. queue \in [Inputs -> Seq(Event)] /\ \A n \in 1..Len(fds) : fds[n] \in Inputs
    BY Slots DEF Base, InputTypeOK
  <1>1. CASE Touch \/ Lift \/ Press \/ Release \/ MoveMouse \/ Shake
    <2>1. PICK d \in Inputs : \E p : Packet(d, p)
      BY <1>1, PacketsOf
    <2>2. PICK p : Packet(d, p)
      BY <2>1
    <2>3. /\ ~lost /\ UNCHANGED <<fds, ignored, shared, sensed>> /\ p \in Seq(Event)
          /\ queue' = [queue EXCEPT ![d] = queue[d] \o p]
      BY <2>2, Sending DEF Packet, Sent
    <2>4. PICK n \in 1..Len(fds) : AtReport(n)
      BY <2>3 DEF Lifts, shared
    <2>5. queue'[fds[n]] # <<>> /\ queue'[fds[n]][1] = Syn("report")
      <3>1. CASE fds[n] = d
        <4>1. /\ queue[d] \in Seq(Event) /\ queue[d] # <<>> /\ queue[d][1] = Syn("report")
              /\ queue'[d] = queue[d] \o p
          BY <1>0, <2>3, <2>4, <3>1 DEF AtReport, At
        <4>2. Len(queue[d]) > 0 /\ Len(queue[d]) \in Nat
          BY <4>1, TailFacts
        <4>3. /\ (queue[d] \o p)[1] = queue[d][1] /\ Len(queue[d] \o p) = Len(queue[d]) + Len(p) /\ Len(p) \in Nat
          BY <2>3, <4>1, <4>2, AppendFacts
        <4>4. Len(queue[d] \o p) # 0
          BY <4>2, <4>3
        <4>5. queue[d] \o p # <<>>
          BY <4>4
        <4>6. QED
          BY <3>1, <4>1, <4>3, <4>5
      <3>2. CASE fds[n] # d
        BY <1>0, <2>3, <2>4, <3>2 DEF AtReport, At
      <3>3. QED
        BY <3>1, <3>2
    <2>6. AtReport(n)'
      BY <2>3, <2>4, <2>5 DEF AtReport, At
    <2>7. QED
      BY <2>3, <2>4, <2>6 DEF Lifts, shared
  <1>2. CASE Plug
    <2>1. ~lost /\ UNCHANGED <<fds, ignored, shared, queue, sensed>>
      BY <1>2, PlugBase
    <2>2. QED
      BY <2>1 DEF Lifts, AtReport, At, shared
  <1>3. CASE Reload
    BY <1>3, ReloadBase
  <1>4. CASE ProcessInput
    <2>1. PICK n \in 1..Len(fds) : Taken(n) /\ Read(n)
      BY <1>4, Reading
    <2>2. ~lost
      <3>1. Held'
        BY DEF Held
      <3>2. lost' = (lost /\ (Held' \/ ~AllUp'))
        BY <2>1 DEF Taken
      <3>3. QED
        BY <3>1, <3>2
    <2> DEFINE d == fds[n]
               e == At(n)[1]
    <2>3. /\ At(n) # <<>> /\ UNCHANGED <<fds, ignored>> /\ sensed' = Sense(n, e)
          /\ queue' = [queue EXCEPT ![d] = Tail(At(n))] /\ d \in Inputs
          /\ \A m \in 1..Len(fds) : fds[m] = d => m = n
      BY <1>0, <2>1 DEF Taken, Base, Wired
    <2>4. \A m \in 1..Len(fds) : m # n => At(m)' = At(m)
      BY <1>0, <2>3 DEF At
    (* The screen is at a report: what is read before it is of others.     *)
    <2>5. ASSUME releaseOnSyn = 2, ignored[n] \/ e # Syn("report"), ignored[n] \/ e.type \notin {"abs", "end"}
          PROVE  ~sensed' /\ \E m \in 1..Len(fds') : AtReport(m)'
      <3>1. PICK m \in 1..Len(fds) : AtReport(m)
        BY <2>2, <2>5 DEF Lifts
      <3>2. m # n
        BY <2>5, <3>1 DEF AtReport
      <3>3. AtReport(m)'
        BY <2>3, <2>4, <3>1, <3>2 DEF AtReport
      <3>4. sensed' = sensed
        BY <2>3, <2>5 DEF Sense
      <3>5. QED
        BY <2>2, <2>3, <2>5, <3>3, <3>4 DEF Lifts
    <2> HIDE DEF d, e
    <2>6. CASE IgnoredRead(n)
      BY <2>5, <2>6 DEF IgnoredRead, shared
    <2>7. ASSUME NEW k \in {"left", "volume"}, NEW v \in {"down", "up"}, KeyRead(n, k, v)
          PROVE  ~sensed' /\ \E m \in 1..Len(fds') : AtReport(m)'
      <3>1. e = Key(k, v) /\ releaseOnSyn = 2
        BY <2>7 DEF KeyRead, shared, e
      <3>2. e.type = "key" /\ e # Syn("report")
        BY <3>1, EventFields
      <3>3. QED
        BY <2>5, <3>1, <3>2
    <2>8. CASE AbsRead(n)
      <3>1. ~ignored[n] /\ d \in Screens /\ e \in Touches /\ releaseOnSyn = 2
        BY <2>8 DEF AbsRead, Position, d, e
      <3>2. PICK m \in 1..Len(fds) : AtReport(m)
        BY <2>2, <3>1 DEF Lifts
      <3>3. m = n
        BY <2>3, <3>1, <3>2 DEF AtReport, OneScreen
      <3>4. QED
        BY <3>1, <3>2, <3>3, Types DEF AtReport, e
    <2>9. CASE EndRead(n)
      <3>1. ~ignored[n] /\ d \in Screens /\ e = EndOf(d)
        BY <2>9 DEF EndRead, d, e
      <3>2. e.type = "end"
        BY <3>1, Types
      <3>3. Sent(d, At(n))
        BY <2>3 DEF Base, Queued, At, d
      <3>4. Tail(At(n)) # <<>> /\ Head(Tail(At(n))) = Syn("report") /\ Tail(At(n)) \in Seq(Event)
        BY <2>3, <3>2, <3>3, SentTail DEF Sent, e
      <3>5. Tail(At(n))[1] = Syn("report")
        BY <3>4, TailFacts
      <3>6. At(n)' = Tail(At(n))
        BY <1>0, <2>3 DEF At, d
      <3>7. AtReport(n)' /\ n \in 1..Len(fds')
        BY <2>1, <2>3, <3>1, <3>4, <3>5, <3>6 DEF AtReport, d
      <3>8. ~sensed'
        BY <2>3, <3>1, <3>2 DEF Sense
      <3>9. QED
        BY <3>7, <3>8
    <2>10. CASE RelRead(n)
      <3>1. e.type = "rel" /\ releaseOnSyn = 2
        BY <2>10 DEF RelRead, e
      <3>2. e # Syn("report")
        BY <3>1, EventFields
      <3>3. QED
        BY <2>5, <3>1, <3>2
    <2>11. CASE LiftRead(n)
      BY <2>11 DEF LiftRead, ReportLift
    <2>12. CASE TouchRead(n)
      BY <2>12 DEF TouchRead, ReportTouch, Lifted, Base, Ended
    <2>13. CASE SynRead(n)
      <3>1. e \in {Syn("mt"), Syn("dropped")} /\ releaseOnSyn = 2
        BY <2>13 DEF SynRead, e
      <3>2. e # Syn("report") /\ e.type = "syn"
        BY <3>1, EventFields
      <3>3. QED
        BY <2>5, <3>1, <3>2
    <2>14. QED
      BY <2>1, <2>6, <2>7, <2>8, <2>9, <2>10, <2>11, <2>12, <2>13 DEF Read
  <1>5. CASE processHoldAndRepeat \/ handleDrag
    <2>1. UNCHANGED <<fds, ignored, shared, queue, sensed, lost>>
      BY <1>5, HoldBase
    <2>2. QED
      BY <2>1 DEF Lifts, AtReport, At, shared
  <1>6. CASE UNCHANGED inputVars
    BY <1>6 DEF inputVars, Lifts, AtReport, At, shared
  <1>7. QED
    BY <1>1, <1>2, <1>3, <1>4, <1>5, <1>6 DEF InputNext

LEMMA LiftStep ==
  ASSUME Base, Lifts, InputNext, useTracking, ~lost, told' = "release"
  PROVE  ~sensed \/ LeftUp
  <1>1. CASE Touch \/ Lift \/ Press \/ Release \/ MoveMouse \/ Shake
    BY <1>1, PacketsOf, Sending DEF Packet
  <1>2. CASE Plug
    BY <1>2, PlugBase
  <1>3. CASE Reload
    BY <1>3, ReloadBase
  <1>4. CASE ProcessInput
    <2>1. PICK m \in 1..Len(fds) : Taken(m) /\ Read(m)
      BY <1>4, Reading
    <2>2. /\ queue \in [Inputs -> Seq(Event)] /\ \A k \in 1..Len(fds) : fds[k] \in Inputs
      BY Slots DEF Base, InputTypeOK
    <2>5. CASE IgnoredRead(m)
      BY <2>5 DEF IgnoredRead, NoEvent, Quiet
    <2>6. ASSUME NEW k \in {"left", "volume"}, NEW v \in {"down", "up"}, KeyRead(m, k, v) PROVE LeftUp
      <3>1. At(m)[1] = Key(k, v) /\ process_EV_KEY(k, v)
        BY <2>6 DEF KeyRead
      <3>2. k = "left" /\ v = "up"
        BY <3>1 DEF process_EV_KEY, LeftButton, doTouchStart, Quiet
      <3>3. /\ At(m) # <<>> /\ At(m) \in Seq(Event) /\ At(m) = queue[fds[m]]
            /\ queue' = [queue EXCEPT ![fds[m]] = Tail(At(m))]
        BY <2>1, <2>2 DEF Taken, At
      <3>4. Head(At(m)) = Key("left", "up") /\ Tail(At(m)) # At(m)
        <4>1. Head(At(m)) = At(m)[1] /\ Len(Tail(At(m))) # Len(At(m))
          BY <3>3, TailFacts
        <4>2. QED
          BY <3>1, <3>2, <4>1
      <3>5. QED
        BY <2>2, <3>3, <3>4 DEF LeftUp
    <2>7. CASE AbsRead(m)
      BY <2>7 DEF AbsRead, NoEvent, Quiet
    <2>8. CASE EndRead(m)
      BY <2>8 DEF EndRead, NoEvent, Quiet
    <2>9. CASE RelRead(m)
      BY <2>9 DEF RelRead, process_EV_REL, Quiet
    <2>10. CASE LiftRead(m)
      BY <2>10 DEF LiftRead, Lifted, Lifts
    <2>11. CASE TouchRead(m)
      BY <2>11 DEF TouchRead, ReportTouch, NoEvent, process_EV_KEY, process_EV_ABS, doTouchStart, Quiet
    <2>12. CASE SynRead(m)
      BY <2>12 DEF SynRead, NoEvent, Quiet
    <2>13. QED
      BY <2>1, <2>5, <2>6, <2>7, <2>8, <2>9, <2>10, <2>11, <2>12 DEF Read
  <1>5. CASE processHoldAndRepeat \/ handleDrag
    BY <1>5, HoldBase
  <1>6. QED
    BY <1>1, <1>2, <1>3, <1>4, <1>5 DEF InputNext

(* With one screen that has shown tracking ids no object under the finger  *)
(* is told of a release before it is up but by the left mouse button: the  *)
(* touch is shared, and the other devices, the keys and the hot plug leave *)
(* it alone or end it without telling (vk_modify, InputHandler).           *)
THEOREM ReleasesAreLifts == ASSUME OneScreen PROVE InputSpec => ReleaseIsLift
  <1>1. InputInit => Lifts
    BY DEF InputInit, Lifts
  <1>2. Base /\ Base' /\ Lifts /\ [InputNext]_inputVars => Lifts'
    BY NextLifts
  <1>3. Base /\ Lifts /\ [InputNext]_inputVars
          => [told' = "release" /\ useTracking /\ ~lost => ~sensed \/ LeftUp]_inputVars
    BY LiftStep
  <1>4. QED
    BY <1>1, <1>2, <1>3, BaseInvariance, PTL DEF InputSpec, ReleaseIsLift
=============================================================================
