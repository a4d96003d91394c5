------------------------------- MODULE UtilFeed -------------------------------
(***************************************************************************)
(* What the cpu utilization strategy promises to its receiver, when one    *)
(* run ends before the next begins.  A query observes some of the tasks;   *)
(* each task observed before is ranked, by its utilization since the last  *)
(* observation of it, among its colocated tasks, under the metric of the   *)
(* first one; a task observed for the first time is only remembered.       *)
(* Nothing is fed if nothing is ranked.                                    *)
(***************************************************************************)
EXTENDS Utilization

CONSTANTS Hosts, Tasks   \* a task is a pair of its host and its ID

VARIABLES last,  \* task -> its last observation (at = 0 if there is none), and
                 \* the metric of the first
          feed   \* host -> its ranked tasks, as last received

vars == <<last, feed>>

Init ==
    /\ last = [p \in Tasks |-> [used |-> 0, at |-> 0, metric |-> 0]]
    /\ feed = [h \in Hosts |-> <<>>]

\* s ranks the given tasks, each once, by its utilization since last, under its metric.
Ranks(s, tasks) ==
    /\ {s[i].task : i \in DOMAIN s} = tasks
    /\ \A i, j \in DOMAIN s : i # j => s[i].task # s[j].task
    /\ \A i \in DOMAIN s :
           /\ s[i].weight = Weight(last[s[i].task], last'[s[i].task])
           /\ s[i].metric = last[s[i].task].metric
    /\ NonIncreasing(s)

\* A later query observes the tasks of S, and those known are ranked.
Observe(S) ==
    LET known == {p \in S : last[p].at # 0}
    IN  /\ last' \in [Tasks -> [used : Nat, at : Nat, metric : Nat]]
        /\ \A p \in Tasks \ S : last'[p] = last[p]
        /\ \A p \in S : /\ \A q \in S : last'[p].at = last'[q].at
                        /\ \A q \in Tasks : last'[p].at > last[q].at
                        /\ p \in known => last'[p].metric = last[p].metric
        /\ IF known = {} THEN UNCHANGED feed
           ELSE /\ DOMAIN feed' = Hosts
                /\ \A h \in Hosts : Ranks(feed'[h], {p \in known : p[1] = h})

\* The strategy is built again and has observed nothing.
Forget ==
    /\ last' = [p \in Tasks |-> [used |-> 0, at |-> 0, metric |-> 0]]
    /\ UNCHANGED feed

Next == Forget \/ \E S \in SUBSET Tasks : Observe(S)

Spec == Init /\ [][Next]_vars
=============================================================================
