---------------------------- MODULE MCDataUnlock ----------------------------
(* The device configurations of system.prop, BoardConfig.mk and the hooks  *)
(* each device installs.                                                   *)
EXTENDS DataUnlock

Nezha == [prepare |-> FALSE, stock |-> TRUE, hook |-> TRUE, secondary |-> FALSE]
Neo8 == [prepare |-> TRUE, stock |-> TRUE, hook |-> FALSE, secondary |-> TRUE]
Myron == [prepare |-> FALSE, stock |-> FALSE, hook |-> FALSE, secondary |-> TRUE]

MCDevices == {Nezha, Neo8, Myron}
MCMyron == {Myron}
MCNeo8 == {Neo8}
=============================================================================
