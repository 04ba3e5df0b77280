---------------------------- MODULE KeyStoreAbs ----------------------------
(***************************************************************************)
(* What system/vold/KeyStorage.cpp promises of the keys under its paths: a *)
(* key appears whole, stays once its storing was acknowledged, leaves only *)
(* when a caller asks for that, and never comes back after it.             *)
(***************************************************************************)
CONSTANTS KeyPaths, Inodes, None

VARIABLES
    key,    \* path -> the key found under it, or None
    acked,  \* keys whose storing was acknowledged
    gone    \* keys a caller asked to destroy

vars == <<key, acked, gone>>

Init ==
    /\ \E p \in KeyPaths, i \in Inodes :
         /\ key = [q \in KeyPaths |-> IF q = p THEN i ELSE None]
         /\ acked = {i}
    /\ gone = {}

Publish(p, i) ==
    /\ key[p] = None /\ i \notin acked \cup gone
    /\ \A q \in KeyPaths : key[q] # i
    /\ key' = [key EXCEPT ![p] = i]
    /\ UNCHANGED <<acked, gone>>

Acknowledge(p) ==
    /\ key[p] # None
    /\ acked' = acked \cup {key[p]}
    /\ UNCHANGED <<key, gone>>

Destroy(p) ==
    /\ key[p] # None
    /\ key' = [key EXCEPT ![p] = None]
    /\ gone' = gone \cup {key[p]}
    /\ UNCHANGED acked

(* A power loss takes back only keys not acknowledged yet. *)
Lose(lost) ==
    /\ \A p \in lost : key[p] \notin acked
    /\ key' = [p \in KeyPaths |-> IF p \in lost THEN None ELSE key[p]]
    /\ UNCHANGED <<acked, gone>>

Next ==
    \/ \E p \in KeyPaths, i \in Inodes : Publish(p, i)
    \/ \E p \in KeyPaths : Acknowledge(p) \/ Destroy(p)
    \/ \E lost \in SUBSET KeyPaths : Lose(lost)

Spec == Init /\ [][Next]_vars
=============================================================================
