----------------------------- MODULE Utilization -----------------------------
(***************************************************************************)
(* The arithmetic of a ranking by cpu utilization: cpuUtil and round of    *)
(* src/strategies/taskRankCpuUtilStrategy.go.  A data point is a counter   *)
(* of cpu seconds and the time, in seconds, of the query that read it.     *)
(***************************************************************************)
EXTENDS Integers, Sequences

CONSTANT
    Scale  \* weights are utilizations times Scale (10000 in the code: a
           \* percentage with two digits); a small one makes rounding collide

ASSUME ScaleAssumption == Scale \in Nat \ {0}

\* math.Round of n / d: to the nearest integer, halves away from zero.
RoundDiv(n, d) ==
    LET m == IF d < 0 THEN -n ELSE n
        e == IF d < 0 THEN -d ELSE d
    IN  IF m >= 0 THEN (2 * m + e) \div (2 * e) ELSE -((e - 2 * m) \div (2 * e))

\* What Go makes of a quotient of floats: no number, an infinity of either sign,
\* or a finite value.
Weights == [nan : BOOLEAN, inf : -1 .. 1, value : Int]

\* The utilization over the window from data point base to data point now.  Over
\* an empty window it is infinite, or no number if the counters are equal.
Weight(base, now) ==
    LET used == now.used - base.used
        time == now.at - base.at
    IN  IF time # 0
        THEN [nan |-> FALSE, inf |-> 0, value |-> RoundDiv(Scale * used, time)]
        ELSE [nan |-> used = 0, value |-> 0,
              inf |-> IF used > 0 THEN 1 ELSE IF used < 0 THEN -1 ELSE 0]

\* v >= w, as floats compare: never true of what is no number.
AtLeast(v, w) ==
    /\ ~v.nan /\ ~w.nan
    /\ v.inf > w.inf \/ (v.inf = w.inf /\ v.value >= w.value)

\* s is ordered as TaskRanksReceiver wants it: heaviest first.
NonIncreasing(s) == \A i, j \in DOMAIN s : i < j => AtLeast(s[i].weight, s[j].weight)
=============================================================================
