----------------------------- MODULE MCHopperKV -----------------------------
(* Model-checking instance of HopperKV: small sets of keys, values and     *)
(* clients as model values, and the symmetry that is sound for them.      *)
EXTENDS HopperKV, TLC

CONSTANTS k1, k2, v1, v2, c1, c2, c3

MCKeys1 == {k1}
MCKeys2 == {k1, k2}
MCVals == {v1, v2}
MCVals1 == {v1}
MCClients == {c1, c2, c3}

\* clients and written values are interchangeable; keys are not permuted
\* because AnyKey (the idle record's key) is a CHOOSE over Keys
MCSymmetry == Permutations(MCClients) \cup Permutations(MCVals)
=============================================================================
