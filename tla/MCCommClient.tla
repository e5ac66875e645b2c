---------------------------- MODULE MCCommClient ----------------------------
(***************************************************************************)
(* CommClient for TLC.                                                     *)
(***************************************************************************)
EXTENDS CommClient, TLC

CONSTANTS t1, t2, k1, k2

MCOneThread == {t1}
MCTwoThreads == {t1, t2}
MCKinds == {k1, k2}

Symmetry == Permutations(MCTwoThreads) \cup Permutations(MCKinds)
=============================================================================
