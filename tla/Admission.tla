------------------------------ MODULE Admission ------------------------------
(***************************************************************************)
(* What a TaskRanker promises to the rest of the program: jobs are         *)
(* admitted lane by lane (a lane is a cron runner) through a gate that,    *)
(* once closed, stays closed; no lane ever has more than Capacity jobs     *)
(* admitted and every admitted job settles.  Ranker implements this.       *)
(***************************************************************************)
EXTENDS Naturals, FiniteSets

CONSTANTS Lanes, Jobs, Capacity

VARIABLES open, admitted

Init == open = TRUE /\ admitted = [c \in Lanes |-> {}]

Close == open /\ open' = FALSE /\ UNCHANGED admitted

Admit(c, j) ==
    /\ open
    /\ \A d \in Lanes : j \notin admitted[d]
    /\ Cardinality(admitted[c]) < Capacity
    /\ admitted' = [admitted EXCEPT ![c] = @ \cup {j}]
    /\ UNCHANGED open

Settle(c, j) ==
    /\ j \in admitted[c]
    /\ admitted' = [admitted EXCEPT ![c] = @ \ {j}]
    /\ UNCHANGED open

Next == \/ Close
        \/ \E c \in Lanes, j \in Jobs : Admit(c, j) \/ Settle(c, j)

\* Every admitted job settles, because every step towards it is taken.
Fairness == \A c \in Lanes, j \in Jobs : WF_<<open, admitted>>(Settle(c, j))

Safety == Init /\ [][Next]_<<open, admitted>>
Spec == Safety /\ Fairness
=============================================================================
