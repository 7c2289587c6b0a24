--------------------------- MODULE MCDualOnchipBoot ---------------------------
(* Instances of DualOnchipBoot: the factory image in slot A, a newer one for   *)
(* slot B and a third for slot A.                                              *)
EXTENDS DualOnchipBoot

MCSecVer == [i \in Img |-> CASE i = "old" -> 1 [] i = "new" -> 2 [] i = "newer" -> 3]
MCHomeSlot == [i \in Img |-> IF i = "new" THEN "B" ELSE "A"]
=============================================================================
