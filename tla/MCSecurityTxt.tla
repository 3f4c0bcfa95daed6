--------------------------- MODULE MCSecurityTxt ---------------------------
(* Two zones of different accounts and one whose id is pending; dates that  *)
(* have passed, are near, are far, and are too far ahead.                   *)
EXTENDS SecurityTxt, TLC
CONSTANTS runA, runB
MCAccount == [z \in Zones |-> IF z = 2 THEN "two" ELSE "one"]
MCSymmetry == Permutations(Runs)
=============================================================================
