------------------------- MODULE MCRespExecution ---------------------------
(* Small instances of RespExecution for TLC.                               *)
EXTENDS RespExecution, TLC

CONSTANTS t1, t2

\* Two threads stop the retriever (an explicit stop() and the Drop).
MCStoppers == {t1, t2}

MCOneStopper == {t1}

StopperSymmetry == Permutations(MCStoppers)

=============================================================================
