------------------------------ MODULE CpuShares ------------------------------
(***************************************************************************)
(* Execute of TaskRankCpuSharesStrategy                                    *)
(* (src/strategies/taskRankCpuSharesStrategy.go): the series of a query,   *)
(* each with one sample (a vector) or with those of a range (a matrix),    *)
(* are ranked, among those of their host, by their average cpu shares.     *)
(* Runs share nothing but the configuration: one run is modelled.          *)
(*                                                                         *)
(* A series is known by its position in the result; the query returns no   *)
(* series without samples.                                                 *)
(***************************************************************************)
EXTENDS Integers, Sequences, FiniteSets

CONSTANTS
    Hosts,      \* values of the label of the host
    Tasks,      \* values of the label of the task
    NoLabel,    \* in place of the value of a label the series does not have
    Values,     \* possible sequences of the samples of a series
    MaxSeries   \* bound on the series of a result

ASSUME ValuesAssumption == Values \subseteq Seq(Nat) \ {<<>>}
ASSUME MaxSeriesAssumption == MaxSeries \in Nat
ASSUME LabelsAssumption == NoLabel \notin Hosts \cup Tasks

Series == [host : Hosts \cup {NoLabel}, task : Tasks \cup {NoLabel}, values : Values]

\* A query returns up to MaxSeries series.
Results == UNION {[1 .. n -> Series] : n \in 0 .. MaxSeries}

VARIABLES
    result,   \* the series of the query
    next,     \* the position of the one to be parsed next
    tasks,    \* host -> the tasks of it parsed so far; the local map of Execute
    received  \* what the receiver got: FALSE, or TRUE and the ranked tasks

vars == <<result, next, tasks, received>>

-----------------------------------------------------------------------------

NoTasks == [h \in {} |-> <<>>]

\* A result of another type than vector or matrix leaves both nil: like <<>>.
Init ==
    /\ result \in Results
    /\ next = 1
    /\ tasks = NoTasks
    /\ received = [done |-> FALSE, tasks |-> NoTasks]

\* The sum of the samples of a series.
Total(values) ==
    LET upTo[k \in 0 .. Len(values)] == IF k = 0 THEN 0 ELSE upTo[k - 1] + values[k]
    IN  upTo[Len(values)]

\* Mutant of AvgCpuShare: the shares are summed up.
SumCpuShare(values) == [sum |-> Total(values), count |-> 1]

\* avgCpuShare: a quotient, left as it is.
AvgCpuShare(values) == [sum |-> Total(values), count |-> Len(values)]

\* Mutant of Entry: the host in the place of the task.
EntryOfHost(i, x) == [metric |-> i, task |-> x.host, weight |-> AvgCpuShare(x.values)]

\* The task of the i-th series, x.
Entry(i, x) == [metric |-> i, task |-> x.task, weight |-> AvgCpuShare(x.values)]

\* addEntryForTask: a series without host or without task adds no task, but one
\* with a host adds the host.
AddEntry ==
    /\ next <= Len(result)
    /\ next' = next + 1
    /\ LET h   == result[next].host
           old == IF h \in DOMAIN tasks THEN tasks[h] ELSE <<>>
           new == IF result[next].task = NoLabel THEN old ELSE Append(old, Entry(next, result[next]))
       IN  tasks' = IF h = NoLabel THEN tasks
                    ELSE [k \in DOMAIN tasks \cup {h} |-> IF k = h THEN new ELSE tasks[k]]
    /\ UNCHANGED <<result, received>>

\* Mutant of Heavier: the order of the cpu utilization strategy.
HeavierOrEqual(a, b) == a.weight.sum * b.weight.count >= b.weight.sum * a.weight.count

\* The order handed to sort.SliceStable.
Heavier(a, b) == a.weight.sum * b.weight.count > b.weight.sum * a.weight.count

Sort == INSTANCE Ranking WITH Less <- Heavier

\* Every host's tasks are sorted, and the receiver gets them, be there any.
Receive ==
    /\ next > Len(result)
    /\ ~received.done
    /\ tasks' = [h \in DOMAIN tasks |-> Sort!SliceStable(tasks[h])]
    /\ received' = [done |-> TRUE, tasks |-> tasks']
    /\ UNCHANGED <<result, next>>

\* Execute has returned.
Returned == received.done /\ UNCHANGED vars

Next == AddEntry \/ Receive \/ Returned

Spec == Init /\ [][Next]_vars

-----------------------------------------------------------------------------

Ranked == [metric : 1 .. MaxSeries, task : Tasks, weight : [sum : Nat, count : Nat]]

\* Types: whatever addEntryForTask adds is a labelled task of a host.
TypeOK ==
    /\ next \in 1 .. MaxSeries + 1
    /\ DOMAIN tasks \subseteq Hosts
    /\ \A h \in DOMAIN tasks : tasks[h] \in Seq(Ranked)
    /\ received.done \in BOOLEAN

\* Of the series x, the i-th is ranked before the j-th: by the averages of their
\* samples, and those of the same average in the order of the result.
Before(x, i, j) ==
    LET s(k) == Total(x[k].values)
        n(k) == Len(x[k].values)
    IN  \/ s(i) * n(j) > s(j) * n(i)
        \/ s(i) * n(j) = s(j) * n(i) /\ i < j

\* Those of host h among the first n of the series x that name a task.
SeriesOf(x, h, n) == {i \in 1 .. n : x[i].host = h /\ x[i].task # NoLabel}

\* s ranks every one of the series x that is of host h, once.
Ranks(s, x, h) ==
    LET of == SeriesOf(x, h, Len(x))
    IN  /\ Len(s) = Cardinality(of)
        /\ {s[k].metric : k \in DOMAIN s} = of
        /\ \A k \in DOMAIN s : s[k].task = x[s[k].metric].task
        /\ \A k, l \in DOMAIN s : k < l => Before(x, s[k].metric, s[l].metric)

\* The receiver gets, for every host that occurs in the result, exactly the
\* series that name it and a task, each with its own metric, heaviest first and
\* ties in the order of the result.
RanksEverySeries ==
    received.done =>
        /\ DOMAIN received.tasks = {result[i].host : i \in DOMAIN result} \ {NoLabel}
        /\ \A h \in DOMAIN received.tasks : Ranks(received.tasks[h], result, h)

-----------------------------------------------------------------------------

\* s lists those of host h among the first n of the series x, in their order.
Lists(s, x, h, n) ==
    /\ {s[k].metric : k \in DOMAIN s} = SeriesOf(x, h, n)
    /\ \A k \in DOMAIN s : s[k] = Entry(s[k].metric, x[s[k].metric])
    /\ \A k, l \in DOMAIN s : k < l => s[k].metric < s[l].metric

\* Before they are sorted the tasks of a host are in the order of the result.
InOrder ==
    /\ DOMAIN tasks = {result[i].host : i \in 1 .. next - 1} \ {NoLabel}
    /\ \A h \in DOMAIN tasks : Lists(tasks[h], result, h, next - 1)

\* The inductive invariant of Execute.
IInv ==
    /\ result \in Results
    /\ TypeOK /\ next \in 1 .. Len(result) + 1
    /\ IF received.done THEN next > Len(result) ELSE InOrder
    /\ RanksEverySeries
=============================================================================
