--------------------------- MODULE StoppableTask ---------------------------
(***************************************************************************)
(* What the I64 retriever promises to the threads that stop it (spec 4.A  *)
(* item 3, 4.B, 7 "Cancellation", 8.5): the driven task runs until it     *)
(* resolves, once; the single-use stop handle lets at most one stop call  *)
(* return true, and only while the task still runs, since a stop that     *)
(* returns true is one the task will see; the task resolves Ok only after *)
(* such a stop, and otherwise resolves with Done.  RespExecution          *)
(* implements it.                                                          *)
(***************************************************************************)
CONSTANT Stoppers   \* the threads that may call stop

VARIABLES
    running,    \* the driven task has not resolved yet
    outcome,    \* "Pending", or what the task resolved to: "Ok" or "Done"
    winners     \* the stoppers whose stop call returned true

Init ==
    /\ running = TRUE
    /\ outcome = "Pending"
    /\ winners = {}

\* A stop call returns true: the first, and only while the task runs.
Stop(t) ==
    /\ running
    /\ winners = {}
    /\ winners' = {t}
    /\ UNCHANGED << running, outcome >>

\* The task resolves; with Ok only once a stop has returned true.
End(o) ==
    /\ running
    /\ o = "Ok" => winners # {}
    /\ running' = FALSE
    /\ outcome' = o
    /\ UNCHANGED winners

Next ==
    \/ \E t \in Stoppers : Stop(t)
    \/ \E o \in {"Ok", "Done"} : End(o)

Spec == Init /\ [][Next]_<< running, outcome, winners >>

=============================================================================
