----------------------------- MODULE MCCasStore -----------------------------
(* Instances of CasStore.                                                  *)
EXTENDS CasStore, TLC

CONSTANTS c1, c2, c3, w1, w2

ThreeChunks == {c1, c2, c3}
TwoWorkers == {w1, w2}

Symmetry == Permutations({w1, w2}) \cup Permutations({c1, c2, c3})
=============================================================================
