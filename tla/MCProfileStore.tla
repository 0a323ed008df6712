---------------------------- MODULE MCProfileStore ----------------------------
(* Model values for ProfileStore: two profile ids, up to two requests.     *)
EXTENDS ProfileStore, TLC

CONSTANTS p1, p2, w1, w2

MCProfiles == {p1, p2}

MCWorkers == {w1, w2}

MCSymmetry == Permutations(MCProfiles) \cup Permutations(MCWorkers)
=============================================================================
