-------------------------- MODULE KeyMintEnvProofs --------------------------
(***************************************************************************)
(* The invariants of KeyMintEnv, for any number of polls and crashes.      *)
(*                                                                         *)
(* None of them is inductive.  The strengthening says where the thread can *)
(* be inside a call (Shape), that the properties are those chosen, and     *)
(* KeyMint came up with them, from the moment they are set (Applied), what *)
(* the call sites mean for the label (Labelled), and which copy of the     *)
(* database keystore2 has open (Copied).                                   *)
(***************************************************************************)
EXTENDS KeyMintEnv, TLAPS

EnvSub == {"env", "env_stop", "env_wait", "env_props", "env_km", "env_ks"}
SyncSub == {"sync", "sync_wait", "sync_ks"}
Switching == sub \in EnvSub \ {"env"}
Label(stock) == IF stock THEN "stock_user_key" ELSE "metadata_ce"
StockSites == {"md_env", "sp_env", "sp_retry"}
InStock == {"md_again", "unwrap", "use_key", "unwrapped", "sp_again", "sp_failed"}

Shape ==
    /\ at \notin Sites \cup {"unwrap"} => sub = "none"
    /\ at \in Sites => sub \in EnvSub \cup {"ok", "failed"}
    /\ at \in StockSites => arg = TRUE
    /\ at \in Sites \ StockSites => arg = FALSE
    /\ at = "unwrap" => sub \in SyncSub \cup {"ok", "failed"}
    /\ at \in {"md_env", "md_again", "sp_undo", "sp_leave", "sp_restore"} => metaEnv # "stock"

Applied ==
    /\ Switching => ~ready
    /\ ready \/ sub \in {"env_km", "env_ks"} => props = chosen
    /\ svc["km"] = "running" /\ (ready \/ sub \in {"env_km", "env_ks"}) => kmLevel = chosen
    /\ sub \in {"env_wait", "env_props"} => svc["km"] \in {"stopping", "stopped"}
    /\ ready \/ Switching => chosen.patch # "none"

Labelled ==
    /\ Switching => label = Label(arg)
    /\ at \in Sites /\ sub = "ok" => ready /\ label = Label(arg)
    /\ at \in Sites /\ sub = "failed" => ~ready
    /\ at \in InStock => ready /\ label = Label(TRUE)
    /\ at \in {"idle", "md"} /\ ready => label = Label(MetadataUsesStock)
    /\ at = "ce" => ready /\ label = Label(MetadataUsesStock)

Copied ==
    /\ sub = "sync_wait" => svc["ks"] \in {"stopping", "stopped"}
    /\ sub = "sync_ks" /\ svc["ks"] = "running" => ksDb = db
    /\ at = "use_key" \/ (at = "unwrap" /\ sub = "ok") =>
         db = "fresh" /\ (svc["ks"] = "running" => ksDb = "fresh")

IInv == TypeOK /\ Shape /\ Applied /\ Labelled /\ Copied

-----------------------------------------------------------------------------
(* The initial states of recovery satisfy the strengthening. *)
LEMMA InitIInv == Init => IInv
<1> SUFFICES ASSUME Init PROVE IInv
  OBVIOUS
<1>1. props \in Level /\ chosen \in Level /\ kmLevel \in Level
  BY DEF Init, Recovery, NoPatch, Level, Origin
<1>2. ThreadOK
  BY DEF Init, ThreadOK
<1>3. PollsOK /\ ServicesOK
  BY EnvAssumption DEF Init, PollsOK, ServicesOK, Service
<1>4. ValuesOK /\ DisksOK
  BY <1>1 DEF Init, ValuesOK, DisksOK
<1>5. Shape /\ Applied /\ Labelled /\ Copied
  BY DEF Init, Shape, Applied, Labelled, Copied, Switching, EnvSub, SyncSub, Sites, StockSites, InStock
<1> QED
  BY <1>2, <1>3, <1>4, <1>5 DEF IInv, TypeOK

(* Every step of recovery's thread, of init and of the user preserves it. *)
LEMMA NextIInv == IInv /\ [Next]_vars => IInv'
<1> SUFFICES ASSUME IInv, [Next]_vars PROVE IInv'
  OBVIOUS
<1> USE EnvAssumption DEF IInv, TypeOK, ThreadOK, PollsOK, ServicesOK, ValuesOK, DisksOK,
      Shape, Applied, Labelled, Copied, Switching, EnvSub, SyncSub, Sites, StockSites, InStock,
      Label, MetadataUsesStock, Service, Rest, callVars, envVars, diskVars, dbVars
<1>1. CASE \E s \in Service : Died(s)
  BY <1>1 DEF Died
<1>2. CASE \E s \in Service : Up(s)
  BY <1>2 DEF Up
<1>3. CASE \E s \in Service : Crash(s)
  BY <1>3 DEF Crash
<1>4. CASE EnvRead
  <2>1. chosen' \in Level
    <3>1. ChosenOs \in Origin /\ ChosenPatch \in Origin /\ ChosenVendor \in Origin
      BY DEF ChosenOs, ChosenPatch, ChosenVendor, Level, Origin
    <3>2. \/ chosen' = chosen
          \/ chosen' = [os |-> ChosenOs, patch |-> ChosenPatch, vendor |-> ChosenVendor]
      BY <1>4 DEF EnvRead
    <3> QED
      BY <3>1, <3>2 DEF Level
  <2>2. label' \in {"none", "stock_user_key", "metadata_ce"} /\ ready' \in BOOLEAN
    BY <1>4 DEF EnvRead
  <2>3. ValuesOK' /\ DisksOK'
    BY <2>1, <2>2, <1>4 DEF EnvRead
  <2>4. ThreadOK'
    BY <1>4 DEF EnvRead, Return, ChosenOs, ChosenPatch, ChosenVendor, Level, Origin
  <2>5. PollsOK' /\ ServicesOK'
    BY <1>4 DEF EnvRead, Return, ChosenOs, ChosenPatch, ChosenVendor, Level, Origin
  <2>6. Shape'
    BY <1>4 DEF EnvRead, Return, ChosenOs, ChosenPatch, ChosenVendor, Level, Origin
  <2>7. Applied' /\ Copied'
    BY <1>4 DEF EnvRead, Return, ChosenOs, ChosenPatch, ChosenVendor, Level, Origin
  <2>8. Labelled'
    BY <1>4 DEF EnvRead, Return, ChosenOs, ChosenPatch, ChosenVendor, Level, Origin
  <2> QED
    BY <2>3, <2>4, <2>5, <2>6, <2>7, <2>8
<1>5. CASE EnvStop
  BY <1>5 DEF EnvStop, Return, Stopped
<1>6. CASE EnvStopPoll
  BY <1>6 DEF EnvStopPoll, Poll
<1>7. CASE EnvWaited
  BY <1>7 DEF EnvWaited, Return
<1>8. CASE EnvReset
  BY <1>8 DEF EnvReset, Return, Level, Origin
<1>9. CASE EnvStartKm
  BY <1>9 DEF EnvStartKm, Return, Started
<1>10. CASE EnvStartKs
  BY <1>10 DEF EnvStartKs, Return, Started
<1>11. CASE EnvDone
  BY <1>11 DEF EnvDone, Return
<1>12. CASE StartPoll
  BY <1>12 DEF StartPoll, Poll
<1>13. CASE StartTimeout
  BY <1>13 DEF StartTimeout, Return
<1>14. CASE SyncBegin
  BY <1>14 DEF SyncBegin, Return, Stopped, Aged
<1>15. CASE SyncStopPoll
  BY <1>15 DEF SyncStopPoll, Poll
<1>16. CASE SyncCopy
  BY <1>16 DEF SyncCopy, Return, Started
<1>17. CASE SyncDone
  BY <1>17 DEF SyncDone, Return
<1>18. CASE MetadataMounted
  <2>1. ThreadOK'
    BY <1>18 DEF MetadataMounted, Idle
  <2>2. PollsOK' /\ ServicesOK'
    BY <1>18 DEF MetadataMounted, Idle
  <2>3. ValuesOK' /\ DisksOK'
    BY <1>18 DEF MetadataMounted, Idle
  <2>4. Shape'
    BY <1>18 DEF MetadataMounted, Idle
  <2>5. Applied' /\ Copied'
    BY <1>18 DEF MetadataMounted, Idle
  <2>6. Labelled'
    BY <1>18 DEF MetadataMounted, Idle
  <2> QED
    BY <2>1, <2>2, <2>3, <2>4, <2>5, <2>6
<1>19. CASE MetadataStockRetry
  <2>1. ThreadOK'
    BY <1>19 DEF MetadataStockRetry, CallEnv
  <2>2. PollsOK' /\ ServicesOK'
    BY <1>19 DEF MetadataStockRetry, CallEnv
  <2>3. ValuesOK' /\ DisksOK'
    BY <1>19 DEF MetadataStockRetry, CallEnv
  <2>4. Shape'
    BY <1>19 DEF MetadataStockRetry, CallEnv
  <2>5. Applied' /\ Copied'
    BY <1>19 DEF MetadataStockRetry, CallEnv
  <2>6. Labelled'
    BY <1>19 DEF MetadataStockRetry, CallEnv
  <2> QED
    BY <2>1, <2>2, <2>3, <2>4, <2>5, <2>6
<1>20. CASE MetadataAgain
  BY <1>20 DEF MetadataAgain, Back, Returned
<1>21. CASE MetadataRestore
  <2>1. ThreadOK'
    BY <1>21 DEF MetadataRestore, CallEnv
  <2>2. PollsOK' /\ ServicesOK'
    BY <1>21 DEF MetadataRestore, CallEnv
  <2>3. ValuesOK' /\ DisksOK'
    BY <1>21 DEF MetadataRestore, CallEnv
  <2>4. Shape'
    BY <1>21 DEF MetadataRestore, CallEnv
  <2>5. Applied' /\ Copied'
    BY <1>21 DEF MetadataRestore, CallEnv
  <2>6. Labelled'
    BY <1>21 DEF MetadataRestore, CallEnv
  <2> QED
    BY <2>1, <2>2, <2>3, <2>4, <2>5, <2>6
<1>22. CASE MetadataGiveUp
  <2>1. ThreadOK'
    BY <1>22 DEF MetadataGiveUp, Idle, Returned
  <2>2. PollsOK' /\ ServicesOK'
    BY <1>22 DEF MetadataGiveUp, Idle, Returned
  <2>3. ValuesOK' /\ DisksOK'
    BY <1>22 DEF MetadataGiveUp, Idle, Returned
  <2>4. Shape'
    BY <1>22 DEF MetadataGiveUp, Idle, Returned
  <2>5. Applied' /\ Copied'
    BY <1>22 DEF MetadataGiveUp, Idle, Returned
  <2>6. Labelled'
    BY <1>22 DEF MetadataGiveUp, Idle, Returned
  <2> QED
    BY <2>1, <2>2, <2>3, <2>4, <2>5, <2>6
<1>23. CASE MetadataRestored
  <2>1. ThreadOK'
    BY <1>23 DEF MetadataRestored, Idle
  <2>2. PollsOK' /\ ServicesOK'
    BY <1>23 DEF MetadataRestored, Idle
  <2>3. ValuesOK' /\ DisksOK'
    BY <1>23 DEF MetadataRestored, Idle
  <2>4. Shape'
    BY <1>23 DEF MetadataRestored, Idle
  <2>5. Applied' /\ Copied'
    BY <1>23 DEF MetadataRestored, Idle
  <2>6. Labelled'
    BY <1>23 DEF MetadataRestored, Idle
  <2> QED
    BY <2>1, <2>2, <2>3, <2>4, <2>5, <2>6
<1>24. CASE SynthUndo
  <2>1. ThreadOK'
    BY <1>24 DEF SynthUndo, CallEnv, Returned
  <2>2. PollsOK' /\ ServicesOK'
    BY <1>24 DEF SynthUndo, CallEnv, Returned
  <2>3. ValuesOK' /\ DisksOK'
    BY <1>24 DEF SynthUndo, CallEnv, Returned
  <2>4. Shape'
    BY <1>24 DEF SynthUndo, CallEnv, Returned
  <2>5. Applied' /\ Copied'
    BY <1>24 DEF SynthUndo, CallEnv, Returned
  <2>6. Labelled'
    BY <1>24 DEF SynthUndo, CallEnv, Returned
  <2> QED
    BY <2>1, <2>2, <2>3, <2>4, <2>5, <2>6
<1>25. CASE SynthFail
  <2>1. ThreadOK'
    BY <1>25 DEF SynthFail, Idle, Returned
  <2>2. PollsOK' /\ ServicesOK'
    BY <1>25 DEF SynthFail, Idle, Returned
  <2>3. ValuesOK' /\ DisksOK'
    BY <1>25 DEF SynthFail, Idle, Returned
  <2>4. Shape'
    BY <1>25 DEF SynthFail, Idle, Returned
  <2>5. Applied' /\ Copied'
    BY <1>25 DEF SynthFail, Idle, Returned
  <2>6. Labelled'
    BY <1>25 DEF SynthFail, Idle, Returned
  <2> QED
    BY <2>1, <2>2, <2>3, <2>4, <2>5, <2>6
<1>26. CASE Unwrap
  BY <1>26 DEF Unwrap, Returned
<1>27. CASE UseKey
  BY <1>27 DEF UseKey, Returned, Back
<1>28. CASE Unwrapped
  BY <1>28 DEF Unwrapped, Goto
<1>29. CASE NoKeystore
  BY <1>29 DEF NoKeystore, Goto
<1>30. CASE NotUnwrapped
  BY <1>30 DEF NotUnwrapped, Returned, Back
<1>31. CASE SynthAgain
  <2>1. ThreadOK'
    BY <1>31 DEF SynthAgain, Returned, CallEnv
  <2>2. PollsOK' /\ ServicesOK'
    BY <1>31 DEF SynthAgain, Returned, CallEnv
  <2>3. ValuesOK' /\ DisksOK'
    BY <1>31 DEF SynthAgain, Returned, CallEnv
  <2>4. Shape'
    BY <1>31 DEF SynthAgain, Returned, CallEnv
  <2>5. Applied' /\ Copied'
    BY <1>31 DEF SynthAgain, Returned, CallEnv
  <2>6. Labelled'
    BY <1>31 DEF SynthAgain, Returned, CallEnv
  <2> QED
    BY <2>1, <2>2, <2>3, <2>4, <2>5, <2>6
<1>32. CASE SynthRestore
  <2>1. ThreadOK'
    BY <1>32 DEF SynthRestore, Goto, CallEnv
  <2>2. PollsOK' /\ ServicesOK'
    BY <1>32 DEF SynthRestore, Goto, CallEnv
  <2>3. ValuesOK' /\ DisksOK'
    BY <1>32 DEF SynthRestore, Goto, CallEnv
  <2>4. Shape'
    BY <1>32 DEF SynthRestore, Goto, CallEnv
  <2>5. Applied' /\ Copied'
    BY <1>32 DEF SynthRestore, Goto, CallEnv
  <2>6. Labelled'
    BY <1>32 DEF SynthRestore, Goto, CallEnv
  <2> QED
    BY <2>1, <2>2, <2>3, <2>4, <2>5, <2>6
<1>33. CASE SynthRestored
  BY <1>33 DEF SynthRestored, Returned, Back
<1>34. CASE UnlockCe
  <2>1. ThreadOK'
    BY <1>34 DEF UnlockCe, Idle
  <2>2. PollsOK' /\ ServicesOK'
    BY <1>34 DEF UnlockCe, Idle
  <2>3. ValuesOK' /\ DisksOK'
    BY <1>34 DEF UnlockCe, Idle
  <2>4. Shape'
    BY <1>34 DEF UnlockCe, Idle
  <2>5. Applied' /\ Copied'
    BY <1>34 DEF UnlockCe, Idle
  <2>6. Labelled'
    BY <1>34 DEF UnlockCe, Idle
  <2> QED
    BY <2>1, <2>2, <2>3, <2>4, <2>5, <2>6
<1>35. CASE DecryptData
  BY <1>35 DEF DecryptData, Goto
<1>36. CASE SynthPass
  BY <1>36 DEF SynthPass, CallEnv, Aged
<1>37. CASE UserMounts
  <2>1. ThreadOK'
    BY <1>37 DEF UserMounts
  <2>2. PollsOK' /\ ServicesOK'
    BY <1>37 DEF UserMounts
  <2>3. ValuesOK' /\ DisksOK'
    BY <1>37 DEF UserMounts
  <2>4. Shape'
    BY <1>37 DEF UserMounts
  <2>5. Applied' /\ Copied'
    BY <1>37 DEF UserMounts
  <2>6. Labelled'
    BY <1>37 DEF UserMounts
  <2> QED
    BY <2>1, <2>2, <2>3, <2>4, <2>5, <2>6
<1>38. CASE UNCHANGED vars
  BY <1>38 DEF vars
<1> QED
  BY <1>1, <1>2, <1>3, <1>4, <1>5, <1>6, <1>7, <1>8, <1>9, <1>10, <1>11, <1>12, <1>13, <1>14,
     <1>15, <1>16, <1>17, <1>18, <1>19, <1>20, <1>21, <1>22, <1>23, <1>24, <1>25, <1>26, <1>27,
     <1>28, <1>29, <1>30, <1>31, <1>32, <1>33, <1>34, <1>35, <1>36, <1>37, <1>38
  DEF Next, InitNext, EnvNext, RequestNext

(* The strengthening holds in every reachable state. *)
THEOREM Invariance == Spec => []IInv
<1>1. Init => IInv
  BY InitIInv
<1>2. IInv /\ [Next]_vars => IInv'
  BY NextIInv
<1> QED
  BY <1>1, <1>2, PTL DEF Spec

(* Every variable of KeyMintEnv keeps its type, no wait polls too often. *)
THEOREM TypeCorrect == Spec => []TypeOK
  BY Invariance, PTL DEF IInv

LEMMA IInvApplied == IInv => EnvApplied
  BY DEF IInv, Applied, EnvApplied

(* While twrp.keymint.ready is set, the KeyMint that answers came up with   *)
(* the announced values.                                                    *)
THEOREM ReadyMeansApplied == Spec => []EnvApplied
  BY Invariance, IInvApplied, PTL

LEMMA IInvLabelled == IInv => CeInMetadataEnv /\ SettledWhenIdle
  BY DEF IInv, Labelled, Label, MetadataUsesStock, CeInMetadataEnv, SettledWhenIdle

(* CE storage is opened in the environment of the metadata key. *)
THEOREM CeOpenedInMetadataEnv == Spec => []CeInMetadataEnv
  BY Invariance, IInvLabelled, PTL

(* Between requests the environment is the metadata key's or marked as not  *)
(* ready.                                                                   *)
THEOREM SettledBetweenRequests == Spec => []SettledWhenIdle
  BY Invariance, IInvLabelled, PTL

LEMMA IInvCopied == IInv => UnwrapOnFreshCopy
  BY DEF IInv, Copied, UnwrapOnFreshCopy

(* The user's key is looked up in the copy made for this attempt, for any   *)
(* number of polls and crashes.                                             *)
THEOREM KeyFromFreshCopy == Spec => []UnwrapOnFreshCopy
  BY Invariance, IInvCopied, PTL
=============================================================================
