------------------------- MODULE MCForwardHandler --------------------------
(* Small instances of ForwardHandler for TLC.                              *)
EXTENDS ForwardHandler, TLC

CONSTANTS s1, s2, k1, k2

\* Two sessions race on SETDB and data commands; epochs 1..3 let a SETDB
\* overtake another and a third be rejected.
MCSessions == {s1, s2}

MCSlotsOne == {k1}

MCSlotsTwo == {k1, k2}

SessionSymmetry == Permutations(MCSessions)

=============================================================================
