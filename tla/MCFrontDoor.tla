---------------------------- MODULE MCFrontDoor ----------------------------
EXTENDS FrontDoor

Symmetry == Permutations(Pems) \cup Permutations(Appliers)
=============================================================================
