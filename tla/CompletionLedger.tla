--------------------------- MODULE CompletionLedger ---------------------------
(***************************************************************************)
(* What the broker promises its producer about completions (spec sections  *)
(* 4.2, 4.4 and 8.1), with the workers, queues and sockets left out: the   *)
(* producer issues the ids 0, 1, 2, ... in order, and in one step the      *)
(* broker may issue the next id and report a set of ids back, each of them *)
(* already issued and none of them reported before.                        *)
(***************************************************************************)
EXTENDS Naturals

CONSTANT NItems     \* the producer issues the ids 0 .. NItems-1

VARIABLES
    issued,     \* the number of ids issued so far
    reported    \* reported[i]: how often i was reported to the producer

Items == 0 .. NItems - 1

\* the issued ids among the first n that were not reported yet
Unreported(n) == {i \in Items : i < n /\ reported[i] = 0}

\* one more report for each id in R
Report(R) == reported' = [i \in Items |-> IF i \in R THEN reported[i] + 1 ELSE reported[i]]

Init ==
    /\ issued = 0
    /\ reported = [i \in Items |-> 0]

Next ==
    \E n \in {issued, issued + 1} \cap 0 .. NItems :
        \E R \in SUBSET Unreported(n) :
            /\ issued' = n
            /\ Report(R)

Spec == Init /\ [][Next]_<<issued, reported>>

\* Every id is reported at most once, and only after it was issued.
LedgerTypeOK ==
    /\ issued \in 0 .. NItems
    /\ reported \in [Items -> {0, 1}]
    /\ \A i \in Items : reported[i] = 1 => i < issued

=============================================================================
