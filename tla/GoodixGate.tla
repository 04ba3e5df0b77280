----------------------------- MODULE GoodixGate -----------------------------
(***************************************************************************)
(* The start of the eSE/Weaver chain a credential needs (device nezha).    *)
(*                                                                         *)
(* Three parties run concurrently:                                         *)
(*   - recovery's decrypting thread: Decrypt_Device runs the hook          *)
(*     twrp-pre-decrypt.sh, verifies the credential, on failure runs       *)
(*     twrp-decrypt-retry.sh and verifies again; tw_reboot runs            *)
(*     nezha-reboot-cleanup.sh;                                            *)
(*   - the gate, nezha-goodix-gate.sh, a oneshot init service the hooks    *)
(*     start: starting it while it runs does nothing;                      *)
(*   - init, which runs the services of the chain and restarts one that    *)
(*     crashed.                                                            *)
(* The properties twrp.nezha.weaver_ready and goodix_gate_error are all    *)
(* they share.  Every script runs at its own speed: its sleeps are steps.  *)
(***************************************************************************)
EXTENDS Naturals, Sequences

CONSTANTS
    StableNeeded,   \* consecutive polls that must see a service running
    PollLimit,      \* polls of wait_stable_running
    WeaverAttempts, \* weaver_attempts
    Limit,          \* polls of twrp-pre-decrypt.sh: route -> Nat
    Grace,          \* polls before a stopped gate is started again
    MaxRestarts,    \* starts of the gate twrp-pre-decrypt.sh adds
    MaxCrashes      \* bound on crashes of services

Routes == {"normal_590", "leica_597", "fallback"}
ASSUME GateAssumption ==
    /\ StableNeeded \in Nat \ {0} /\ PollLimit \in Nat \ {0}
    /\ WeaverAttempts \in Nat \ {0} /\ Limit \in [Routes -> Nat \ {0}]
    /\ Grace \in Nat /\ MaxRestarts \in Nat /\ MaxCrashes \in Nat

Chain == <<"qseecomd", "minkdaemon", "secure_element", "weaver">>
Services == {Chain[n] : n \in 1..4}

VARIABLES
    svc,        \* init.svc of each service
    gate,       \* where the gate is
    link,       \* the service of the chain the gate starts or polls
    stable, polls, attempt,
    route,      \* twrp.nezha.crypto_route, "fallback" until the gate set it
    ready,      \* twrp.nezha.weaver_ready
    error,      \* twrp.nezha.goodix_gate_error is not empty
    script,     \* what recovery's thread runs, and where it is in it
    again,      \* the credential was refused once in this request
    second, restarts, limit,
    crashes

gateVars == <<gate, link, stable, polls, attempt, route>>
scriptVars == <<script, again, second, restarts, limit>>
chainVars == <<svc, gateVars, ready, error, scriptVars, crashes>>

-----------------------------------------------------------------------------
(* init: start, stop, and the restart of a service that is not oneshot. *)
Start(s) == svc' = [svc EXCEPT ![s] = IF @ = "stopped" THEN "running" ELSE @]
Stop(S) == svc' = [s \in Services |-> IF s \in S THEN "stopped" ELSE svc[s]]

ServiceCrash(s) ==
    /\ crashes < MaxCrashes /\ svc[s] = "running"
    /\ svc' = [svc EXCEPT ![s] = "restarting"]
    /\ crashes' = crashes + 1
    /\ UNCHANGED <<gateVars, ready, error, scriptVars>>

ServiceRestart(s) ==
    /\ svc[s] = "restarting"
    /\ svc' = [svc EXCEPT ![s] = "running"]
    /\ UNCHANGED <<gateVars, ready, error, scriptVars, crashes>>

StartGate == gate' = IF gate = "off" THEN "init" ELSE gate
StopGate == gate' = "off"

-----------------------------------------------------------------------------
(* nezha-goodix-gate.sh *)

(* Mutant: weaver_ready of the last gate is kept. *)
GateInitKeepReady ==
    /\ gate = "init"
    /\ error' = FALSE
    /\ route' \in IF route = "fallback" THEN Routes ELSE {route}
    /\ gate' = "reset"
    /\ UNCHANGED <<svc, link, stable, polls, attempt, ready, scriptVars, crashes>>

GateInit ==
    /\ gate = "init"
    /\ error' = FALSE /\ ready' = FALSE
    /\ route' \in IF route = "fallback" THEN Routes ELSE {route}
    /\ gate' = "reset"
    /\ UNCHANGED <<svc, link, stable, polls, attempt, scriptVars, crashes>>

(* reset_goodix_services, then the stops of qseecomd and minkdaemon. *)
GateReset ==
    /\ gate = "reset"
    /\ Stop(Services)
    /\ gate' = "start" /\ link' = 1 /\ attempt' = 1
    /\ UNCHANGED <<stable, polls, route, ready, error, scriptVars, crashes>>

GateStart ==
    /\ gate = "start"
    /\ Start(Chain[link])
    /\ stable' = 0 /\ polls' = 0 /\ gate' = "poll"
    /\ UNCHANGED <<link, attempt, route, ready, error, scriptVars, crashes>>

(* wait_stable_running: one poll that does not settle it. *)
SeesRunning == svc[Chain[link]] = "running"
GatePoll ==
    /\ gate = "poll"
    /\ stable' = IF SeesRunning THEN stable + 1 ELSE 0
    /\ stable' < StableNeeded /\ polls + 1 < PollLimit
    /\ polls' = polls + 1
    /\ UNCHANGED <<svc, gate, link, attempt, route, ready, error, scriptVars, crashes>>

(* The service stayed up: the next one, or the chain is ready. *)
GateStable ==
    /\ gate = "poll" /\ SeesRunning /\ stable + 1 >= StableNeeded
    /\ IF link < Len(Chain)
       THEN /\ link' = link + 1 /\ gate' = "start"
            /\ UNCHANGED ready
       ELSE /\ ready' = TRUE
            /\ gate' = "exit" /\ UNCHANGED link
    /\ UNCHANGED <<svc, stable, polls, attempt, route, error, scriptVars, crashes>>

PollsOver ==
    /\ gate = "poll" /\ polls + 1 >= PollLimit
    /\ ~(SeesRunning /\ stable + 1 >= StableNeeded)

(* A service below the Weaver did not stay up: the gate gives up. *)
GateError ==
    /\ PollsOver /\ link < Len(Chain)
    /\ error' = TRUE /\ gate' = "exit"
    /\ UNCHANGED <<svc, link, stable, polls, attempt, route, ready, scriptVars, crashes>>

(* The Weaver did: it is stopped and started again, for a number of times. *)
GateRetryWeaver ==
    /\ PollsOver /\ link = Len(Chain)
    /\ Stop({"weaver"})
    /\ attempt' = attempt + 1
    /\ IF attempt < WeaverAttempts
       THEN gate' = "start" /\ UNCHANGED error
       ELSE gate' = "exit" /\ error' = TRUE
    /\ UNCHANGED <<link, stable, polls, route, ready, scriptVars, crashes>>

GateExit ==
    /\ gate = "exit"
    /\ gate' = "off" /\ link' = 1 /\ stable' = 0 /\ polls' = 0 /\ attempt' = 1
    /\ UNCHANGED <<svc, route, ready, error, scriptVars, crashes>>

-----------------------------------------------------------------------------
(* Decrypt_Device and tw_reboot, in recovery's thread. *)

Goto(s) == script' = s /\ UNCHANGED <<again, second, restarts, limit>>

DecryptRequest ==
    /\ script = "idle"
    /\ script' = "pre" /\ again' = FALSE
    /\ UNCHANGED <<svc, gateVars, ready, error, second, restarts, limit, crashes>>

(* The hook did not find the chain ready: nothing is verified. *)
HookFailed ==
    /\ script = "hook_failed"
    /\ Goto("idle")
    /\ UNCHANGED <<svc, gateVars, ready, error, crashes>>

(* Decrypt_User succeeds or is refused; only the first refusal is retried. *)
Verify ==
    /\ script = "verify"
    /\ \/ script' = "idle" /\ again' = FALSE
       \/ ~again /\ script' = "retry" /\ again' = TRUE
    /\ UNCHANGED <<svc, gateVars, ready, error, second, restarts, limit, crashes>>

Reboot ==
    /\ script = "idle"
    /\ Goto("cleanup")
    /\ UNCHANGED <<svc, gateVars, ready, error, crashes>>

-----------------------------------------------------------------------------
(* twrp-pre-decrypt.sh *)

(* The first test, before the gate is asked for. *)
PreCheck ==
    /\ script = "pre"
    /\ IF ready THEN Goto("verify") ELSE Goto("clear")
    /\ UNCHANGED <<svc, gateVars, ready, error, crashes>>

PreClear ==
    /\ script = "clear"
    /\ error' = FALSE /\ Goto("start")
    /\ UNCHANGED <<svc, gateVars, ready, crashes>>

PreStart ==
    /\ script = "start"
    /\ StartGate
    /\ Goto("limit")
    /\ UNCHANGED <<svc, link, stable, polls, attempt, route, ready, error, crashes>>

(* The limit follows the route: on the first request the gate may not have *)
(* set it yet.                                                             *)
PreLimit ==
    /\ script = "limit"
    /\ script' = "wait" /\ second' = 0 /\ restarts' = 0 /\ limit' = Limit[route]
    /\ UNCHANGED <<svc, gateVars, ready, error, again, crashes>>

(* One round: weaver_ready is read first, the gate and its error after it.  *)
WaitReady ==
    /\ script = "wait" /\ second < limit
    /\ IF ready THEN Goto("verify") ELSE Goto("wait_more")
    /\ UNCHANGED <<svc, gateVars, ready, error, crashes>>

MayRestart == restarts < MaxRestarts

(* The gate reported an error: it is cleared, and the gate started again,   *)
(* which does nothing if the gate has not exited yet.                       *)
WaitError ==
    /\ script = "wait_more" /\ error /\ MayRestart
    /\ error' = FALSE
    /\ Goto("restart")
    /\ UNCHANGED <<svc, gateVars, ready, crashes>>

(* The gate stopped without a word. *)
WaitStopped ==
    /\ script = "wait_more" /\ ~error /\ second > Grace /\ gate = "off" /\ MayRestart
    /\ Goto("restart")
    /\ UNCHANGED <<svc, gateVars, ready, error, crashes>>

(* Mutant: a gate that reports errors is started again without a bound. *)
RestartFree ==
    /\ script = "restart"
    /\ StartGate
    /\ Goto("wait")
    /\ UNCHANGED <<svc, link, stable, polls, attempt, route, ready, error, crashes>>

Restart ==
    /\ script = "restart"
    /\ StartGate
    /\ script' = "wait" /\ second' = second + 1 /\ restarts' = restarts + 1
    /\ UNCHANGED <<svc, link, stable, polls, attempt, route, ready, error, again,
                   limit, crashes>>

WaitSleep ==
    /\ script = "wait_more"
    /\ ~(MayRestart /\ (error \/ (second > Grace /\ gate = "off")))
    /\ script' = "wait" /\ second' = second + 1
    /\ UNCHANGED <<svc, gateVars, ready, error, again, restarts, limit, crashes>>

WaitTimeout ==
    /\ script = "wait" /\ second >= limit
    /\ Goto("hook_failed")
    /\ UNCHANGED <<svc, gateVars, ready, error, crashes>>

-----------------------------------------------------------------------------
(* twrp-decrypt-retry.sh *)

RetryClear ==
    /\ script = "retry"
    /\ ready' = FALSE /\ error' = FALSE
    /\ Goto("retry_stop_gate")
    /\ UNCHANGED <<svc, gateVars, crashes>>

(* Mutant: the gate is left running while its services are stopped. *)
RetryKeepGate ==
    /\ script = "retry_stop_gate"
    /\ Goto("retry_stop")
    /\ UNCHANGED <<svc, gateVars, ready, error, crashes>>

RetryStopGate ==
    /\ script = "retry_stop_gate"
    /\ StopGate
    /\ Goto("retry_stop")
    /\ UNCHANGED <<svc, link, stable, polls, attempt, route, ready, error, crashes>>

RetryStop ==
    /\ script = "retry_stop"
    /\ Stop({"weaver", "secure_element"})
    /\ Goto("retry_start")
    /\ UNCHANGED <<gateVars, ready, error, crashes>>

RetryStart ==
    /\ script = "retry_start"
    /\ StartGate
    /\ Goto("pre")
    /\ UNCHANGED <<svc, link, stable, polls, attempt, route, ready, error, crashes>>

-----------------------------------------------------------------------------
(* nezha-reboot-cleanup.sh; the gate is not stopped. *)

CleanupBegin ==
    /\ script = "cleanup"
    /\ ready' = FALSE
    /\ Goto("cleanup_goodix")
    /\ UNCHANGED <<svc, gateVars, error, crashes>>

CleanupGoodix ==
    /\ script = "cleanup_goodix"
    /\ Stop({"weaver", "secure_element"})
    /\ Goto("cleanup_qsee")
    /\ UNCHANGED <<gateVars, ready, error, crashes>>

CleanupQsee ==
    /\ script = "cleanup_qsee"
    /\ Stop({"minkdaemon", "qseecomd"})
    /\ Goto("cleanup_done")
    /\ UNCHANGED <<gateVars, ready, error, crashes>>

Cleaning == script \in {"cleanup_goodix", "cleanup_qsee", "cleanup_done"}

-----------------------------------------------------------------------------
ChainInit ==
    /\ svc = [s \in Services |-> "stopped"]
    /\ gate = "off" /\ link = 1 /\ stable = 0 /\ polls = 0 /\ attempt = 1
    /\ route = "fallback"
    /\ ready = FALSE /\ error = FALSE
    /\ script = "idle" /\ again = FALSE
    /\ second = 0 /\ restarts = 0 /\ limit = Limit["fallback"]
    /\ crashes = 0

GateNext ==
    \/ GateInit \/ GateReset \/ GateStart \/ GatePoll \/ GateStable \/ GateError
    \/ GateRetryWeaver \/ GateExit

HookNext ==
    \/ PreCheck \/ PreClear \/ PreStart \/ PreLimit
    \/ WaitReady \/ WaitError \/ WaitStopped \/ Restart \/ WaitSleep \/ WaitTimeout
    \/ RetryClear \/ RetryStopGate \/ RetryStop \/ RetryStart
    \/ CleanupBegin \/ CleanupGoodix \/ CleanupQsee

ChainNext ==
    \/ GateNext \/ HookNext
    \/ DecryptRequest \/ HookFailed \/ Verify \/ Reboot
    \/ \E s \in Services : ServiceCrash(s) \/ ServiceRestart(s)

ChainSpec == ChainInit /\ [][ChainNext]_chainVars

(* The scripts are scheduled; nothing is assumed of the user or of crashes. *)
ChainFairSpec == ChainSpec /\ WF_chainVars(GateNext) /\ WF_chainVars(HookNext)

-----------------------------------------------------------------------------
Scripts == {"idle", "pre", "clear", "start", "limit", "wait", "wait_more", "restart",
            "verify",
            "hook_failed", "retry", "retry_stop_gate", "retry_stop", "retry_start",
            "cleanup", "cleanup_goodix", "cleanup_qsee", "cleanup_done"}
ChainTypeOK ==
    /\ svc \in [Services -> {"stopped", "running", "restarting"}]
    /\ gate \in {"off", "init", "reset", "start", "poll", "exit"}
    /\ link \in 1..Len(Chain)
    /\ stable \in 0..StableNeeded /\ polls \in 0..PollLimit
    /\ attempt \in 1..(WeaverAttempts + 1)
    /\ route \in Routes /\ ready \in BOOLEAN /\ error \in BOOLEAN
    /\ script \in Scripts /\ again \in BOOLEAN
    /\ restarts \in 0..MaxRestarts
    /\ limit \in {Limit[r] : r \in Routes} /\ second \in 0..limit
    /\ crashes \in 0..MaxCrashes

(* nezha-goodix-gate.sh keeps the dependencies explicit: while it brings up *)
(* or watches a service, everything below it has been started and stopped   *)
(* by nobody, whatever the hooks do; only the cleanup before a reboot may   *)
(* take the chain away under the gate.                                      *)
ChainOrder ==
    gate \in {"start", "poll"} /\ ~Cleaning =>
      \A n \in 1..(link - 1) : svc[Chain[n]] # "stopped"

(* Decrypt_Device: unless the gate is at work, a verification begins only   *)
(* with the whole chain up: weaver_ready never outlives a chain that the    *)
(* hooks or a failing gate took down.                                       *)
VerifyBeginsUp ==
    [][script # "verify" /\ script' = "verify" /\ gate \in {"off", "exit"} =>
         \A s \in Services : svc[s] # "stopped"]_chainVars

(* Run_Pre_Decrypt_Hook: recovery never waits for the security service for  *)
(* ever, even if the gate dies or keeps failing.                            *)
HookReturns == script = "start" ~> script \in {"verify", "hook_failed"}

=============================================================================
