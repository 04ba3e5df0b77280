---------------------------- MODULE MCKeyMintEnv ----------------------------
(* KeyMintEnv with short waits: every wait can both succeed and time out.  *)
EXTENDS KeyMintEnv
=============================================================================
