---------------------------- MODULE MCGoodixGate ----------------------------
(* GoodixGate with shorter waits: a hook shorter and one longer than a     *)
(* gate that struggles, as the limits of the scripts allow.                *)
EXTENDS GoodixGate

MCLimit == [normal_590 |-> 5, leica_597 |-> 3, fallback |-> 4]
=============================================================================
