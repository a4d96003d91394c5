-------------------------------- MODULE Setup --------------------------------
(***************************************************************************)
(* How task rankers are put together (New and its options in               *)
(* src/ranker.go, Build and its options in src/strategies/strategy.go,     *)
(* src/strategies/factory/factory.go, SetStrategy and Fetch in             *)
(* src/datafetcher/prometheus/dataFetcher.go, src/query) and whom their    *)
(* runs then serve.  The factory hands out one object per strategy name,   *)
(* and a data fetcher copies what it queries from the strategy, so what    *)
(* one New does is seen by rankers built before.                           *)
(*                                                                         *)
(* New is called by one goroutine; runs of rankers already built go on     *)
(* meanwhile.  What the strategies compute is the subject of CpuUtil and   *)
(* CpuShares; here a result is only who asked, how, and who gets it.       *)
(***************************************************************************)
EXTENDS Schedule, Sequences, SequencesExt

CONSTANTS
    Rankers,    \* the variables the caller keeps its rankers in
    Fetchers,   \* the variables it keeps its data fetchers in
    Receivers,  \* the receivers of task ranks it has
    Calls,      \* ranker -> the lists of options New may be called with for it
    Endpoints,  \* the lists of endpoints NewDataFetcher may be called with
    Nil         \* the nil of every type

Names == {"cpushares", "cpuutil"}

VARIABLES
    strategies,  \* availableStrategies of the factory
    fetchers,    \* fetcher -> the fields of the one NewDataFetcher returned, or Nil
    rankers,     \* ranker -> the fields of the one New returned, or Nil
    options,     \* ranker -> the options of the New that returned it, or panicked
    flight,      \* ranker -> the query a run of it has sent, or Nil
    delivered,   \* ranker -> how its last run delivered, or Nil
    crashed      \* the ranker whose New or run has ended the process, or Nil

vars == <<strategies, fetchers, rankers, options, flight, delivered, crashed>>

\* The label matchers of a strategy; the operators there are count from 1 to 4.
Matchers == [type : STRING, label : STRING, operator : Int]

\* What Build and New may be called with.  A unit, a type or a name is any string.
StrategyOptions ==
    [op : {"labels"}, matchers : Seq(Matchers) \cup {Nil}]
        \cup [op : {"receiver"}, to : Receivers \cup {Nil}]
        \cup [op : {"range"}, unit : STRING, qty : Nat]
Options ==
    [op : {"fetcher"}, fetcher : Fetchers]
        \cup [op : {"interval"}, ms : Int]
        \cup [op : {"schedule"}, marks : Schedules \cup {Nil}]
        \cup [op : {"strategy"}, name : STRING, opts : Seq(StrategyOptions)]

ASSUME CallsAssumption == \A r \in Rankers : Calls[r] \subseteq Seq(Options)

\* The options of one kind in a list of them, and the one that counts.
Given(s, op) == {i \in DOMAIN s : s[i].op = op}
LastOption(s, op) == s[Max(Given(s, op))]

\* query.None stands for the absence of a range.
Instant == [unit |-> "none", qty |-> 0]

-----------------------------------------------------------------------------
(* Strategies.                                                             *)

\* A strategy nobody has built yet: the zero values of its fields.
Unbuilt == [task |-> "", host |-> "", matchers |-> <<>>, receiver |-> Nil,
            interval |-> 0, range |-> [unit |-> "", qty |-> 0]]

\* Mutant of Reset: nothing is reset.
ResetNot(s) == s

\* Init of both strategies (previousTotalCpuUsage is left to CpuUtil).  The
\* labels and the receiver stay those of the last build.
Reset(s) == [s EXCEPT !.range = Instant]

\* The label of the last matcher of type t, or the one there was.
LabelOf(ms, t, old) ==
    LET S == {i \in DOMAIN ms : ms[i].type = t} IN IF S = {} THEN old ELSE ms[Max(S)].label

\* SetLabelMatchers of both strategies: the dedicated labels are overwritten as
\* they are met, the list itself only if it is valid.
SetLabelMatchers(s, ms) ==
    LET invalid == {i \in DOMAIN ms : ms[i].type = "invalid"}
        met == IF invalid = {} THEN ms ELSE SubSeq(ms, 1, Min(invalid) - 1)
        err == \/ invalid # {}
               \/ \E t \in {"TaskID", "TaskHostname"} : \A i \in DOMAIN ms : ms[i].type # t
    IN  [err |-> err,
         strategy |-> [s EXCEPT !.task = LabelOf(met, "TaskID", @),
                                !.host = LabelOf(met, "TaskHostname", @),
                                !.matchers = IF err THEN @ ELSE ms]]

\* Mutants of SetReceiver: the first one stays; it is forgotten.
SetReceiverOnce(s, to) == [s EXCEPT !.receiver = IF @ = Nil THEN to ELSE @]
SetReceiverNot(s, to) == s

\* SetTaskRanksReceiver of both strategies.
SetReceiver(s, to) == [s EXCEPT !.receiver = to]

\* SetRange: a NO-OP of the cpu utilization strategy.
SetRange(n, s, unit, qty) ==
    IF n = "cpuutil" THEN s ELSE [s EXCEPT !.range = [unit |-> unit, qty |-> qty]]

\* query.TimeUnit.IsValid.
ValidUnits == {"s", "m", "h", "d", "w", "y"}

\* An option of Build applied to what has been built, unless one has failed.
StrategyOption(b, o) ==
    CASE b.err -> b
      [] ~b.err /\ o.op = "labels" ->
            IF o.matchers = Nil THEN [b EXCEPT !.err = TRUE]
            ELSE LET l == SetLabelMatchers(b.strategy, o.matchers)
                 IN  [b EXCEPT !.err = l.err, !.strategy = l.strategy]
      [] ~b.err /\ o.op = "receiver" ->
            IF o.to = Nil THEN [b EXCEPT !.err = TRUE]
            ELSE [b EXCEPT !.strategy = SetReceiver(@, o.to)]
      [] ~b.err /\ o.op = "range" ->
            IF o.unit \notin ValidUnits \/ o.qty = 0 THEN [b EXCEPT !.err = TRUE]
            ELSE [b EXCEPT !.strategy = SetRange(b.name, @, o.unit, o.qty)]

\* strategies.Build of the strategy of name n: Init, then the options up to the
\* first that fails; what was done before stays.
Build(n, s, opts) ==
    FoldLeft(StrategyOption, [name |-> n, err |-> FALSE, strategy |-> Reset(s)], opts)

-----------------------------------------------------------------------------
(* Data fetchers.                                                          *)

Metric(n) == IF n = "cpuutil" THEN "container_cpu_usage_seconds_total"
                              ELSE "container_spec_cpu_shares"

\* The query the strategy of name n asks for, as query.NewBuilder copies it.
QueryOf(n, s) == [metric |-> Metric(n), matchers |-> s.matchers, range |-> s.range]

\* NewDataFetcher: an endpoint must be named and answer a probe, and the last one
\* counts.  Without options a data fetcher has no endpoint, and nobody minds.
Fetcher(es, answers) ==
    IF \E i \in DOMAIN es : es[i] = "" \/ ~answers THEN Nil
    ELSE [endpoint |-> IF es = <<>> THEN "" ELSE Last(es), strategy |-> Nil, query |-> Nil]

\* Mutant of SetStrategy: the strategy is remembered by its metric.
SetStrategyByMetric(f, n, s) ==
    [f EXCEPT !.strategy = Metric(n), !.query = QueryOf(n, s)]

\* SetStrategy of fetcher f.
SetStrategy(f, n, s) == [f EXCEPT !.strategy = n, !.query = QueryOf(n, s)]

\* BuildQuery panics on a nil builder, and on the operator of a matcher that
\* has none: operators count from 1 and their names from 0.
LacksOperator(ms) == \E i \in DOMAIN ms : ms[i].operator \notin 1 .. 4
BuildPanics(q) == q = Nil \/ LacksOperator(q.matchers)

-----------------------------------------------------------------------------
(* Rankers.                                                                *)

\* int(d.Seconds()) of a duration in milliseconds.
InSeconds(ms) == IF ms < 0 THEN -((-ms) \div 1000) ELSE ms \div 1000

Length(secs) == IF secs < 0 THEN -secs ELSE secs

\* Mutant of Rejects: the first activation needs only be late enough.
RejectsSooner(k) ==
    \/ k.schedule = Nil
    \/ Activation(k.schedule, 0) < InSeconds(k.interval)

\* New rejects a ranker without a schedule, and one whose first activation after
\* the epoch is no multiple of the scrape interval (by whose opposite Go's
\* remainder is zero too) ...
Rejects(k) ==
    LET secs  == InSeconds(k.interval)
        first == Activation(k.schedule, 0)
    IN  \/ k.schedule = Nil
        \/ first < secs
        \/ secs # 0 /\ first % Length(secs) # 0

\* ... and panics on an interval of less than a second, which it divides by, and
\* on a missing strategy, whose interval it sets.
NewPanics(k) == ~Rejects(k) /\ (InSeconds(k.interval) = 0 \/ k.strategy = Nil)

\* What New has done so far: its ranker, the objects it shares, how it fares.
Begin ==
    [ranker |-> [fetcher |-> Nil, strategy |-> Nil, interval |-> 0, schedule |-> Nil],
     strategies |-> strategies, fetchers |-> fetchers, ends |-> "no"]

\* WithStrategy and WithStrategyOptions: the former passes two options.
WithStrategyOptions(w, n, opts) ==
    IF n \notin Names THEN [w EXCEPT !.ends = "error"]
    ELSE LET b == Build(n, w.strategies[n], opts)
             v == [w EXCEPT !.ranker.strategy = n, !.strategies[n] = b.strategy]
         IN  CASE b.err -> [v EXCEPT !.ends = "error"]
               [] ~b.err /\ w.ranker.fetcher = Nil -> [v EXCEPT !.ends = "panic"]
               [] OTHER -> [v EXCEPT !.fetchers[w.ranker.fetcher] =
                                         SetStrategy(@, n, b.strategy)]

\* An option of New, unless one has failed; one whose argument is nil, zero or does
\* not parse fails.
Option(w, o) ==
    CASE w.ends # "no" -> w
      [] w.ends = "no" /\ o.op = "fetcher"  ->
            IF w.fetchers[o.fetcher] = Nil THEN [w EXCEPT !.ends = "error"]
            ELSE [w EXCEPT !.ranker.fetcher = o.fetcher]
      [] w.ends = "no" /\ o.op = "interval" ->
            IF o.ms = 0 THEN [w EXCEPT !.ends = "error"]
            ELSE [w EXCEPT !.ranker.interval = o.ms]
      [] w.ends = "no" /\ o.op = "schedule" ->
            IF o.marks = Nil THEN [w EXCEPT !.ends = "error"]
            ELSE [w EXCEPT !.ranker.schedule = o.marks]
      [] w.ends = "no" /\ o.op = "strategy" -> WithStrategyOptions(w, o.name, o.opts)

\* The rest of New: the schedule is validated, the strategy gets the interval, which
\* only that of the cpu utilization keeps.
Complete(w) ==
    CASE w.ends # "no" -> w
      [] w.ends = "no" /\ Rejects(w.ranker) -> [w EXCEPT !.ends = "error"]
      [] w.ends = "no" /\ NewPanics(w.ranker) -> [w EXCEPT !.ends = "panic"]
      [] OTHER -> [w EXCEPT !.strategies[w.ranker.strategy].interval =
                      IF w.ranker.strategy = "cpuutil" THEN w.ranker.interval ELSE @]

\* New: the options up to the first that fails, then the rest.
Construct(opts) == Complete(FoldLeft(Option, Begin, opts))

-----------------------------------------------------------------------------

Init ==
    /\ strategies = [n \in Names |-> Unbuilt]
    /\ fetchers = [f \in Fetchers |-> Nil]
    /\ rankers = [r \in Rankers |-> Nil]
    /\ options = [r \in Rankers |-> <<>>]
    /\ flight = [r \in Rankers |-> Nil]
    /\ delivered = [r \in Rankers |-> Nil]
    /\ crashed = Nil

\* The caller makes a data fetcher, again if NewDataFetcher has returned an error.
NewDataFetcher(f) ==
    /\ fetchers[f] = Nil
    /\ \E es \in Endpoints, answers \in BOOLEAN :
          fetchers' = [fetchers EXCEPT ![f] = Fetcher(es, answers)]
    /\ UNCHANGED <<strategies, rankers, options, flight, delivered, crashed>>

\* The caller makes a ranker, again if New has returned an error.
New(r) ==
    /\ rankers[r] = Nil
    /\ \E opts \in Calls[r] :
          LET w == Construct(opts)
          IN  /\ strategies' = w.strategies
              /\ fetchers' = w.fetchers
              /\ rankers' = [rankers EXCEPT ![r] = IF w.ends = "no" THEN w.ranker ELSE Nil]
              /\ options' = [options EXCEPT ![r] = IF w.ends = "error" THEN <<>> ELSE opts]
              /\ crashed' = IF w.ends = "panic" THEN r ELSE Nil
    /\ UNCHANGED <<flight, delivered>>

\* A run of r sends the query of the fetcher of r.  Without an endpoint there is
\* no server to send it to: Fetch returns an error and nothing changes.
Fetch(r) ==
    /\ rankers[r] # Nil
    /\ flight[r] = Nil
    /\ LET f == fetchers[rankers[r].fetcher]
       IN  IF BuildPanics(f.query) THEN crashed' = r /\ UNCHANGED flight
           ELSE /\ flight' = [flight EXCEPT ![r] =
                                 IF f.endpoint = "" THEN Nil ELSE f.query]
                /\ UNCHANGED crashed
    /\ UNCHANGED <<strategies, fetchers, rankers, options, delivered>>

\* No data, or nothing to rank.
Idle(r) ==
    /\ flight[r] # Nil
    /\ flight' = [flight EXCEPT ![r] = Nil]
    /\ UNCHANGED <<strategies, fetchers, rankers, options, delivered, crashed>>

\* Execute finds host and task of the samples by the labels the strategy now
\* has, and the receiver it now has gets what it ranks.  Samples have no label
\* of the empty name: without its labels the cpu utilization ranks nothing, nor
\* does it of the result of a range query.
Execute(r) ==
    /\ flight[r] # Nil
    /\ LET s == strategies[rankers[r].strategy]
       IN  /\ rankers[r].strategy = "cpuutil" =>
                  s.task # "" /\ s.host # "" /\ flight[r].range = Instant
           /\ IF s.receiver = Nil
              THEN crashed' = r /\ UNCHANGED delivered
              ELSE /\ delivered' = [delivered EXCEPT ![r] =
                          [to |-> s.receiver, task |-> s.task, host |-> s.host,
                           query |-> flight[r]]]
                   /\ UNCHANGED crashed
    /\ flight' = [flight EXCEPT ![r] = Nil]
    /\ UNCHANGED <<strategies, fetchers, rankers, options>>

\* The process has panicked.
Halted == crashed # Nil /\ UNCHANGED vars

Next ==
    \/ /\ crashed = Nil
       /\ \/ \E f \in Fetchers : NewDataFetcher(f)
          \/ \E r \in Rankers : New(r) \/ Fetch(r) \/ Idle(r) \/ Execute(r)
    \/ Halted

Spec == Init /\ [][Next]_vars

-----------------------------------------------------------------------------

\* A field of a string is empty before it is set.
Ranges == [unit : ValidUnits \cup {"", "none"}, qty : Nat]
Strategies == [task : STRING \cup {""}, host : STRING \cup {""}, matchers : Seq(Matchers),
               receiver : Receivers \cup {Nil}, interval : Int, range : Ranges]
Queries == [metric : {Metric(n) : n \in Names}, matchers : Seq(Matchers), range : Ranges]
DataFetchers ==
    [endpoint : STRING \cup {""}, strategy : {Nil}, query : {Nil}]
        \cup [endpoint : STRING \cup {""}, strategy : Names, query : Queries]
TaskRankers == [fetcher : Fetchers, strategy : Names, interval : Int, schedule : Schedules]
Deliveries == [to : Receivers, task : STRING \cup {""}, host : STRING \cup {""},
               query : Queries]

ASSUME EndpointsAssumption == Endpoints \subseteq Seq(STRING)
ASSUME NilAssumption ==
    Nil \notin Names \cup Fetchers /\ Nil \notin Queries /\ Nil \notin DataFetchers

\* An option list of New that leaves out what nothing in the code can do without, or
\* its order: a fetcher that comes before the strategy, and no other after it; a
\* strategy with label matchers and a receiver.
Lacks(s, ops) == \E op \in ops : Given(s, op) = {}
FetcherLate(s) == \E i \in Given(s, "fetcher"), j \in Given(s, "strategy") : i > j
Careless(s) ==
    \/ Lacks(s, {"fetcher", "strategy"})
    \/ FetcherLate(s)
    \/ Lacks(LastOption(s, "strategy").opts, {"labels", "receiver"})

\* The rankers made with care, and what their caller has asked for.
Made == {r \in Rankers : rankers[r] # Nil /\ ~Careless(options[r])}
AskedStrategy(r) == LastOption(options[r], "strategy")
Asked(r, op) == LastOption(AskedStrategy(r).opts, op)
AskedRange(r) ==
    IF AskedStrategy(r).name = "cpuutil" \/ Given(AskedStrategy(r).opts, "range") = {}
    THEN Instant
    ELSE [unit |-> Asked(r, "range").unit, qty |-> Asked(r, "range").qty]
AskedLabel(r, t) == LabelOf(Asked(r, "labels").matchers, t, Nil)

\* The fetcher of r has gone to another call of New, be it one that failed.
FetcherTaken(r) == fetchers[rankers[r].fetcher].strategy # rankers[r].strategy

\* Types: a ranker New has returned has a fetcher and a strategy, and only such a
\* ranker runs.
TypeOK ==
    /\ strategies \in [Names -> Strategies]
    /\ fetchers \in [Fetchers -> DataFetchers \cup {Nil}]
    /\ rankers \in [Rankers -> TaskRankers \cup {Nil}]
    /\ options \in [Rankers -> Seq(Options)]
    /\ flight \in [Rankers -> Queries \cup {Nil}]
    /\ delivered \in [Rankers -> Deliveries \cup {Nil}]
    /\ crashed \in Rankers \cup {Nil}
    /\ \A r \in Rankers :
          /\ rankers[r] # Nil => options[r] \in Calls[r]
          /\ rankers[r] = Nil => flight[r] = Nil /\ delivered[r] = Nil

\* A ranker queries what it was configured to, although its fetcher copied the
\* query from an object that earlier calls of New, failed ones too, have left
\* half configured.
QueryAsConfigured ==
    \A r \in Made : ~FetcherTaken(r) =>
        fetchers[rankers[r].fetcher].query =
            [metric |-> Metric(AskedStrategy(r).name),
             matchers |-> Asked(r, "labels").matchers,
             range |-> AskedRange(r)]

\* ranker.go:32-33 "feeds the results back to the caller": what a run of r ranks
\* goes to the receiver r was made with, and is told apart by its labels.
FeedsTheCaller ==
    \A r \in Made : delivered[r] # Nil =>
        /\ delivered[r].to = Asked(r, "receiver").to
        /\ delivered[r].task = AskedLabel(r, "TaskID")
        /\ delivered[r].host = AskedLabel(r, "TaskHostname")

\* A run of a ranker that was made with care finds a query to send and a receiver to
\* deliver to, whatever calls of New have failed half way before or after, on the same
\* strategy, and whoever has taken its fetcher since: nothing ends the process but a
\* query one of whose matchers has no operator.
RunsSurvive ==
    crashed # Nil /\ rankers[crashed] # Nil =>
        \/ Careless(options[crashed])
        \/ LacksOperator(fetchers[rankers[crashed].fetcher].query.matchers)

\* logger.go:29 "prometheus scrape interval can be in milliseconds", and README.md:69-75
\* makes a ranker without the option for it: New of a list that lacks nothing else
\* returns a ranker or an error.
NewNeverPanics ==
    crashed # Nil /\ rankers[crashed] = Nil => Careless(options[crashed])

\* ranker.go:66 "validate task ranker schedule to be a multiple of prometheus
\* scrape interval": the times between its activations are.
Regular(r) ==
    \A gap \in GapsOf(rankers[r].schedule) :
        gap % Length(InSeconds(rankers[r].interval)) = 0

EveryGapIsMultiple == \A r \in Made : Regular(r)

\* Although New looks at one activation only: if the interval divides a minute
\* and the schedule fires every so many seconds, whatever they are, no ranker that
\* New returns ever fires at a distance that is not a multiple of the interval.
SteppedGapsAreMultiples ==
    \A r \in Made :
        /\ Minute % Length(InSeconds(rankers[r].interval)) = 0
        /\ \E k \in rankers[r].schedule \ {0} : rankers[r].schedule = Every(k)
        => Regular(r)

\* What New has seen to when it returns a ranker stays so, whatever is built later:
\* its fetcher exists, its schedule has passed the test, and its interval has been
\* divided by.
Validated ==
    \A r \in Rankers : rankers[r] # Nil =>
        /\ fetchers[rankers[r].fetcher] \in DataFetchers
        /\ ~Rejects(rankers[r])
        /\ InSeconds(rankers[r].interval) # 0

\* So does the strategy of a ranker made with care: it is the one asked for, with the
\* labels and the receiver asked for.
BuiltAsAsked ==
    /\ Validated
    /\ \A r \in Made :
          LET s == strategies[rankers[r].strategy]
          IN  /\ rankers[r].strategy = AskedStrategy(r).name
              /\ s.task = AskedLabel(r, "TaskID")
              /\ s.host = AskedLabel(r, "TaskHostname")
              /\ s.receiver = Asked(r, "receiver").to
              /\ s.receiver # Nil

SetupIInv ==
    /\ TypeOK
    /\ BuiltAsAsked
    /\ QueryAsConfigured
    /\ FeedsTheCaller
    /\ RunsSurvive

\* No two rankers are ever made with the same strategy: what the properties need
\* of the caller.
OwnStrategies(calls) ==
    \A r, q \in Rankers : r # q =>
        \A s \in calls[r], t \in calls[q] :
            \A i \in Given(s, "strategy"), j \in Given(t, "strategy") : s[i].name # t[j].name
=============================================================================
