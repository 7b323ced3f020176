--------------------------- MODULE DetectorRound ---------------------------
(***************************************************************************)
(* What one round of the sequential failure detector promises (spec 4.F, *)
(* 8.6): it takes the addresses the broker lists one at a time, in their  *)
(* order.  Each position is a retrieval error, which is skipped, or an    *)
(* address, which is taken and checked before the next position is: a     *)
(* live proxy may pass, a dead one never does, and a failed check is      *)
(* handed to the reporter.  The round ends when the list does.            *)
(* FailureDetector, the composition of the proxy retriever, the ping      *)
(* checker and the reporter, implements it.                                *)
(***************************************************************************)
EXTENDS Naturals, Sequences

CONSTANTS
    Proxies,        \* proxy addresses
    HostAddresses   \* the order the broker lists them in

VARIABLES
    status,     \* each proxy is "Alive" or "Dead" during the round
    pos,        \* the position of the list the round is at
    checking,   \* the address at pos has been taken and is being checked
    taken,      \* the addresses taken from the list
    handled,    \* the addresses handed to the reporter
    finished    \* the round has ended

vars == << status, pos, checking, taken, handled, finished >>

\* The round is between positions, with one left to take.
AtListed == ~finished /\ ~checking /\ pos <= Len(HostAddresses)

Init ==
    /\ status \in [Proxies -> {"Alive", "Dead"}]
    /\ pos = 1
    /\ checking = FALSE
    /\ taken = {}
    /\ handled = {}
    /\ finished = FALSE

\* The element at pos is a retrieval error: logged and skipped.
Skip ==
    /\ AtListed
    /\ pos' = pos + 1
    /\ UNCHANGED << status, checking, taken, handled, finished >>

\* The element at pos is an address: it is taken to be checked.
Take ==
    /\ AtListed
    /\ checking' = TRUE
    /\ taken' = taken \cup {HostAddresses[pos]}
    /\ UNCHANGED << status, pos, handled, finished >>

\* The address at pos passes its check; only a live proxy can.
Pass ==
    /\ checking
    /\ status[HostAddresses[pos]] = "Alive"
    /\ pos' = pos + 1
    /\ checking' = FALSE
    /\ UNCHANGED << status, taken, handled, finished >>

\* The address at pos fails its check and is handed to the reporter.
Handle ==
    /\ checking
    /\ pos' = pos + 1
    /\ checking' = FALSE
    /\ handled' = handled \cup {HostAddresses[pos]}
    /\ UNCHANGED << status, taken, finished >>

\* The list has ended.
Finish ==
    /\ ~finished
    /\ ~checking
    /\ pos > Len(HostAddresses)
    /\ finished' = TRUE
    /\ UNCHANGED << status, pos, checking, taken, handled >>

Next == Skip \/ Take \/ Pass \/ Handle \/ Finish

Spec == Init /\ [][Next]_vars

=============================================================================
