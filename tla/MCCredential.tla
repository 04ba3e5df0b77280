---------------------------- MODULE MCCredential ----------------------------
(* The owner, whose credential the Weaver keeps, another user whose        *)
(* credential Gatekeeper verifies, and one who has set none.               *)
EXTENDS Credential

MCCredentialOf == [owner |-> "pin", second |-> "pattern", guest |-> "!"]
MCKeeper == [owner |-> "weaver", second |-> "gatekeeper", guest |-> "weaver"]
=============================================================================
