--------------------------- MODULE MCKeyStorage ---------------------------
(* One key path and two keys to store there next to Android's, so that a   *)
(* store cut short is tried again over what it left.                       *)
EXTENDS KeyStorage, TLC

CONSTANTS p1, i1, i2
OnePath == {p1}
TwoStores == {OsKey, i1, i2}
TwoStoresSymmetry == Permutations({i1, i2})
=============================================================================
