---------------------------- MODULE MCUserAccount ----------------------------
(* Model values for UserAccount: two ids, two names, up to two requests.   *)
EXTENDS UserAccount, TLC

CONSTANTS i1, i2, n1, n2, w1, w2

MCIds == {i1, i2}

MCNames == {n1, n2}

MCWorkers == {w1, w2}

MCSymmetry == Permutations(MCIds) \cup Permutations(MCNames)
                                  \cup Permutations(MCWorkers)
=============================================================================
