------------------------------ MODULE MCFlash ------------------------------
(* An update that may ask for the other slot, an A/B package in an ozip    *)
(* and a theme.  A file that is no zip is refused as any zip may be.       *)
EXTENDS Flash

MCKind == [z \in Zips |-> CASE z = "rom" -> "update" [] z = "ota" -> "ab" [] OTHER -> "theme"]
MCAsks == [z \in Zips |-> IF z = "rom" THEN "B" ELSE "none"]
=============================================================================
