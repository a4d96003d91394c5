------------------------------- MODULE MCSetup -------------------------------
(* Instances of Setup for TLC: the lists of options. *)
EXTENDS Setup, TLC

CONSTANTS r1, r2, f1, f2, to1, to2

Matcher(type, label) == [type |-> type, label |-> label, operator |-> 1]
Good(i) == <<Matcher("TaskID", "task" \o i), Matcher("TaskHostname", "host" \o i)>>

\* The second matcher has no valid type; no matcher is for the host.
BadType == <<Matcher("TaskID", "bad"), Matcher("invalid", "x")>>
NoHost == <<Matcher("TaskID", "bad"), Matcher("Other", "x")>>

Labels(ms) == [op |-> "labels", matchers |-> ms]
Receiver(to) == [op |-> "receiver", to |-> to]
Window(unit, qty) == [op |-> "range", unit |-> unit, qty |-> qty]

\* The options of New, in the order of README.md:69-75, and an interval.
List(f, ms, marks, n, opts) ==
    << [op |-> "fetcher", fetcher |-> f],
       [op |-> "interval", ms |-> ms],
       [op |-> "schedule", marks |-> marks],
       [op |-> "strategy", name |-> n, opts |-> opts] >>

\* A schedule that is a multiple of the interval and one that is not, given
\* after the strategy has been built; option lists that fail half way and that
\* succeed, with a range and without.
Goods(i, to) == {<<Labels(Good(i)), Receiver(to)>>,
                 <<Receiver(to), Labels(Good("other")), Window("s", 5)>>}
Lists(n, f, i, to) ==
    LET bad  == {<<Labels(BadType), Receiver(to)>>, <<Labels(NoHost), Receiver(to)>>,
                 <<Receiver(to1), Labels(Good(i)), Receiver(Nil)>>,
                 <<Labels(Good(i)), Window("s", 5), Receiver(to2), Window("none", 5)>>,
                 <<Labels(Nil), Receiver(to)>>}
    IN  {List(f, 5000, Every(5), n, o) : o \in Goods(i, to) \cup bad}
        \cup {Append(List(f, 5000, Every(5), n, <<Labels(Good(i)), Receiver(to)>>),
                     [op |-> "schedule", marks |-> marks]) : marks \in {Every(7), Once(0), Nil}}

\* The fetcher of another ranker, in a call that succeeds and one that fails late.
Borrowed(n, f, i, to) ==
    {List(f, 5000, marks, n, <<Labels(Good(i)), Receiver(to)>>) : marks \in {Every(5), Every(7)}}

\* Lists that lack something: options of a complete list left out or reordered, an
\* interval of no or less than a second, or a negative one, labels, receiver or an
\* operator left out, a second fetcher too late, an unknown name.
Lacking(n, f, i, to, late) ==
    LET full == <<Labels(Good(i)), Receiver(to)>>
        bare == <<[Matcher("TaskID", "t") EXCEPT !.operator = 0], Matcher("TaskHostname", "h")>>
    IN  UNION {
          UNION {SetToSeqs(S) : S \in SUBSET ToSet(List(f, 5000, Every(5), n, full))},
          {List(f, ms, Every(5), n, full) : ms \in {0, 500, -500, -5000}},
          {List(f, 5000, Every(5), n, o) : o \in {<<Labels(Good(i))>>, <<Receiver(to)>>,
                                           <<Labels(bare), Receiver(to)>>}},
          {Append(List(f, 5000, Every(5), n, full), [op |-> "fetcher", fetcher |-> late]),
           List(f, 5000, Every(5), "unknown", full)}}

\* Each ranker has its strategy; one may lack anything, the other at most
\* its labels.
Distinct ==
    (r1 :> Lists("cpuutil", f1, "1", to1) \cup Lacking("cpuutil", f1, "1", to1, f2)
           \cup Borrowed("cpuutil", f2, "1", to1))
    @@ (r2 :> Lists("cpushares", f2, "2", to2) \cup Borrowed("cpushares", f1, "2", to2)
           \cup {List(f2, 5000, Every(5), "cpushares", <<Receiver(to2)>>)})

ASSUME DistinctAssumption == Rankers = {r1, r2} => OwnStrategies(Distinct)

\* Both rankers use the cpu utilization.
Same == (r1 :> Lists("cpuutil", f1, "1", to1)) @@ (r2 :> Lists("cpuutil", f2, "2", to2))

\* Schedules and intervals that are fit for each other, or seem to be.
Timed ==
    LET full == <<Labels(Good("1")), Receiver(to1)>>
    IN  r1 :> {List(f1, ms, marks, "cpuutil", full) :
                   ms \in {5000, 7000}, marks \in {Every(5), Every(7), Every(10), Once(0)}}

\* A list like that of README.md:69-75, without an interval, and one with an interval in
\* milliseconds.
Unsettled ==
    LET full == List(f1, 500, Every(5), "cpushares", <<Labels(Good("1")), Receiver(to1)>>)
    IN  r1 :> {full, <<full[1], full[3], full[4]>>}

\* No endpoint, none that is named, one.
Addresses == {<<>>, <<"">>, <<"server">>}
=============================================================================
