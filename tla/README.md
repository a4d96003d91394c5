# Task ranker: a TLA+ model

This directory holds TLA+ specifications of the task ranker of this repository,
the TLC instances that check them and the TLAPS proofs about them. Paths are
relative to the root of the source tree (`ranker.go` is `src/ranker.go` in
`PROJECT.json`); line numbers refer to the code the modules were written from.

A task ranker is a cron job in a library: on a schedule it queries Prometheus
for a metric of the containers of a cluster, hands the result to a strategy
that weighs and ranks the tasks of each host, and calls a receiver back with
the ranked tasks. The program is small. Its difficulties are that cron starts
every run in a goroutine of its own, that nothing is locked, that strategy
objects and the logger are shared by all rankers of a process, and that `Stop`
waits for nobody.

## 1. Inventory

| Part | State | Operations | Hard behaviours | Correct when |
|---|---|---|---|---|
| Task ranker (`ranker.go:176-209`) | `runner` (the last cron runner), `termCh` | `Start`, `Run` (by cron), `Stop` | overlapping runs; `Stop` during a run; a second `Start`; a deadline that passes while the answer comes | runs in flight are bounded; nothing is admitted after `Stop`; the ranker falls quiet after it and fetches on before it |
| Termination channel (`util/signalChannel.go`) | a channel, a `sync.Once` | `Close`, `IsClosed`, `WaitTillClosed` (unused) | closing twice | closed once, seen by every later run |
| Strategy cpuutil (`strategies/taskRankCpuUtilStrategy.go`) | `previousTotalCpuUsage`: host -> task -> first metric and last data point | `Init`, setters, `Execute` | unsynchronised map and data points under overlapping runs; results out of order, or of the same millisecond; containers restarted, not scraped, unlabelled, cpus missing; rounding and ties | each task is ranked by its utilization since it was last seen, among its host's tasks; no nil pointer is reached |
| Strategy cpushares (`strategies/taskRankCpuSharesStrategy.go`) | configuration only | the same | series of different lengths, missing labels, ties | every labelled series is ranked once, by average |
| Construction (`ranker.go:53-174`, `strategies/strategy.go`, `strategies/factory/factory.go`) | the two strategy objects of the process; the fields of rankers and fetchers | `New` and its options, `Build` and its options, `GetTaskRankStrategy` | an option fails half way and what was set stays; objects shared by rankers; order of options; missing options | a ranker queries and delivers as it was configured; errors rather than panics |
| Data fetcher (`datafetcher/prometheus`) | endpoint, strategy, query builder | `NewDataFetcher`, `SetStrategy`, `Fetch` | the query is copied when the strategy is set; 10 s deadline | queries what its ranker was configured with |
| Query (`query`) | fields of a builder | `NewBuilder`, `BuildQuery`, `String` | a matcher without operator panics | - |
| Logging (`logger`, `logger/topic`) | one logger with its hooks, the two files created last | `Configure`, `Done`, `Fire` | hooks and files accumulate over calls of `New`; a hook changes the entry for the next; the first hook that fails (a closed file, a weight JSON cannot hold) silences the others | the two kinds of logs stay apart and no line is lost |
| Ranked tasks (`entities`) | plain records | accessors, `String` | - | - |

How they interact: `New` applies options that build the strategy (an object of
the factory) and let the fetcher copy the query, then configures the logger.
`Start` gives the ranker to a new cron runner; each activation calls `Run` in a
goroutine, which calls the fetcher, and with its result the strategy, which
reads and writes its own maps, logs, and calls the receiver. `Stop` closes the
channel, stops the last runner and closes the two log files created last.
External to the repository, and modelled only as the code uses them: cron
(`robfig/cron` v3), Prometheus with cAdvisor, logrus, `sort.SliceStable`.

The hazards these parts are exposed to are listed, each at its line and with
the properties that watch it, under `hazards` in `PROJECT.json`.

## 2. Modules

| Module | Models | Extends / composes |
|---|---|---|
| `Ranker` | `Start`, `Run`, `Stop` in discrete time, with the stages of each goroutine | refines `Admission` |
| `Admission` | abstract: a gate that closes for good, with a capacity per cron runner | - |
| `MCRanker` | the assumption that the goroutines suffice to break the bound | `Ranker` |
| `RankerProofs` | theorems about `Ranker` | `Ranker` |
| `Ranking` | `sort.SliceStable` (an insertion sort up to 20 elements), for the order `Less` it is handed | - |
| `RankingProofs` | what that sort returns | `Ranking` |
| `Utilization` | `cpuUtil` and `round`, quotients of floats that are infinite or no number included, and what a list in order is | - |
| `CpuUtil` | queries and `Execute` of cpuutil, statement by statement | `Utilization`; `Ranking` as `Sort`; refines `UtilFeed` |
| `UtilFeed` | abstract: one observation of some tasks, their ranking since the last | `Utilization` |
| `MCCpuUtil` | sets of containers and their symmetry | `CpuUtil` |
| `CpuUtilProofs` | theorems about `CpuUtil`, one run at a time and whatever overlaps | `CpuUtil`, `RankingProofs` |
| `CpuUtilFeedProofs` | that `CpuUtil` implements `UtilFeed`, one run at a time | `CpuUtilProofs` |
| `CpuShares`, `MCCpuShares` | `Execute` of cpushares | `Ranking` as `Sort` |
| `CpuSharesProofs` | theorems about `CpuShares` | `CpuShares`, `RankingProofs` |
| `Schedule` | `Schedule.Next` of cron, for the field of the seconds | - |
| `Setup`, `MCSetup` | `NewDataFetcher`, `New`, `Build`, the factory, `SetStrategy`, and what later runs query and whom they serve | `Schedule` |
| `FoldProofs` | what `FoldLeft` of the community modules returns, step by step | - |
| `SetupProofs` | theorems about `Setup` | `Setup`; `FoldProofs` for the options of `Build` and of `New` |
| `Logging` | `Configure`, `Done`, hooks and topics | - |
| `Process` | the steps of a ranker together with the lines they log and the files they close | composes `Ranker` and `Logging` |
| `ProcessProofs` | theorems about `Logging` and `Process` | `Process` |

### Ranker

Time is discrete, a step of `Tick` being a second, the grain of the schedule.
A run goes `idle -> spawned -> fetching -> executing -> receiving -> idle`,
with an exit at the check of the channel (`Check`), at an error (`Fail`), at the
deadline (`Expire`) and when there is nothing to rank (`Execute`). `Stop` is
three actions, because runs go on between its statements. `Start` does not stop
the runner it replaces, so `Runners` are numbered, and `Stop` stops the last.
`Stop` before `Start` calls a method of a nil pointer: the model ends the
owner in `"panicked"`.

Assumed about time: a goroutine that is spawned looks at the channel, and
`Execute` computes, within a second; the context's deadline is kept; the
receiver's callback takes at most `ReceiveTime`. Without these nothing bounds
how many runs overlap, since the code does not. The model starts where `New` has
succeeded and the logger is configured; `Process` adds the logger.

### CpuUtil

A run is the sequence query, answer, parsing loop, ranking loop, delivery. The
actions are cut where another goroutine can make a difference:

- the look for the map of a host (`FindHost` if it is there, `MissHost` if not)
  and the creation of one (`CreateHost`), which overwrites what another run has
  stored meanwhile;
- the look for the entry of a task (`FindEntry`) and the storing of a new one
  (`StoreEntry`), over what another run has stored, or, where the map was
  replaced and the host is missing again, into a nil map, which panics;
- the read of the data point, the weight and the first field of the new data
  point (`Calibrate`), and its second field (`Stamp`), which goes into the entry
  that was read even if it is no longer in the map, hence its identity `born`;
- `Rebuild`: the strategy object is the factory's, so the `New` of another ranker
  replaces the whole map (`Init`, line 87), `BuildsInRuns` saying whether it may
  come in the middle of an execution.

Nothing is assumed of what a query returns: which containers, with which sum of
their counters and with which metric is chosen anew for each. So a container may
be started again, not be scraped, or lose a cpu, as in
`taskRankCpuUtilStrategy_test.go:252-331`, where the sum of a container that runs
falls from one query to the next. A query may be sent in the same millisecond as
the one before (`Intervals` may have 0): rankers that share the strategy fire at the
same seconds, and `Fetch` takes its time in milliseconds.
`crashed` stands for a nil dereference, a store into a nil map, and for the fault
the Go runtime may raise at concurrent map access (`MapFault`), a
nondeterministic choice.

Abstractions: one sample per container carries the sum of its samples per cpu,
and the metric of the first; samples without the label of the host are skipped by
the code and left out; a map access is one step; the weight, kept by the code in
the shared entry, is read in the step that writes it; usages are small integers.
A weight is a utilization times `Scale`, rounded as the code rounds; over an empty
window it is what Go makes of the division by zero, an infinity or no number
(`Weights`), and compares as floats do.

`UtilFeed` says what this is for: a query observes some tasks, every one of
them that was observed before is ranked by its utilization since, heaviest
first and under the metric it was first observed with, and nothing else changes. Under the refinement mapping the last
observation of a task is the data point of its entry or, while a run is ranking
and has saved the new one, the base of the weight it has computed, so that the
whole loop takes effect when the receiver is called.

### CpuShares, Setup, Logging, Process

`CpuShares` has no state between runs: `Init` chooses any result up to
`MaxSeries` series, the steps are the parsing and the delivery. An average is a
sum and a count, compared by cross multiplication.

In `Setup` the options of `New` and of `Build` are data, a call of `New` is the
fold of its options over what it shares (`Construct`), and it ends in a
ranker, an error or a panic. A run is two steps, so that a `New` can come
between its query and the delivery, and shows only who asked, how, and who gets
the result. `New` is one step, as rankers are made by one goroutine; runs of
other rankers see what it leaves behind, not its middle. A cron expression is the
set of the seconds at which it fires, whose first activation after the epoch
`New` validates (`Rejects`). A data fetcher belongs to the caller, who makes it
with an endpoint, one that fails, or none, and may hand the same one to two
rankers: the later `SetStrategy` then decides what both query (`FetcherTaken`).
A label matcher is never a nil pointer, which the code does not look for.
`NewPanics` is the remainder by an interval of no whole second. What properties
excuse in a caller (`Careless`) is a list without what nothing can do without: a
fetcher that comes before the strategy and is the only one, label matchers and a
receiver. An interval is not among it.

In `Logging` a line is the set of its topics and whether JSON can hold it (`fits`; a
weight may be infinite or no number), and hooks fire in order until one fails, as
logrus does, for either of the reasons `Fire` has: the line cannot be formatted, or
the file is closed. `NewUnlogged` is a `New` whose `Configure` could not
create a file: `New` then calls `Done`, and returns the ranker without error if
`Done` returns none.

`Process` conjoins each step of `Ranker` with what it does to `Logging`: `Start`,
`StopClose`, `Answer`, `Fail` and `Expire` log a line, `StopLogger` is `Done`. Where a
ranking is delivered, logging it (`Rank`) and calling the receiver (`Execute`) are
two steps, as others log and stop in between; `logged` remembers what became of the
line. The first `New` makes the ranker at hand; others come, log and go at any
time (`Make`, `Others`), which is all that concerns it, as the logger is the one
of the process. A line is logged at once: hooks fire under the caller's stack,
and two lines in the same moment differ from two in a row only in their order.

## 3. Runs

| Run | Question | Bounds, and why they are enough |
|---|---|---|
| `ranker_live` | How many runs overlap? Does the ranker fall quiet after `Stop`, and fetch before it? Does it implement the gate? | Gaps of 2 and 3 s; a query of up to 1 s and a callback of as much together last as long as the shortest, so two runs of a runner overlap, the bound, which is reached. Two `Start`s, so that one runner is left behind, and a goroutine for each run there may be (`PoolSuffices`), so that one runner could exceed its bound. |
| `ranker_stop` (violation) | Is nothing delivered after `Stop`? | Two goroutines and one `Start` suffice. |
| `cpu_serial` | Is the strategy right when runs do not overlap? | Two colocated tasks, so that there is an order; an unlabelled container on another host; three queries, the first to enter a task, the second to rank it, the third to rank it after a gap, a restart or a missed scrape, so that windows of different lengths meet in a list; two metrics; a rebuild between two runs. |
| `cpu_overlap` | What holds whatever two runs do to the shared map? | Two tasks of one host, so that creating its map can drop an entry; a usage of 1, so that weights differ; queries in one millisecond or apart; a rebuild at any moment. With two queries every interleaving of two executions is there, and a second visit of an entry by the other run, the base of every weight. |
| `cpu_order` (violation) | Does every window go forward? | One task, three queries. |
| `cpu_shares` | Is every result ranked completely and in order? | Up to three series on two hosts; samples whose sums and averages order them differently; ties. |
| `setup_distinct` | Do rankers query and deliver as configured, and do their runs survive? | A ranker per strategy; every order and subset of the options of `New` (`Careless` ones among them), options that fail at each position of `Build`, retries; schedules that are a multiple of the interval and that are not; fetchers without endpoint, and one that is shared. |
| `setup_readme` (violation) | Does `New` return an error where it cannot return a ranker? | The option list of README.md:69-75, which has no interval, and an interval of 500 ms. |
| `setup_same` (violation) | The same, with one strategy. | Two rankers. |
| `setup_schedule` (violation) | Are all gaps of an accepted schedule multiples of the interval? | Intervals of 5 and 7 s; schedules every 5, 7 and 10 s and once a minute. |
| `process` | Do logs stay apart, is every line kept until a logger is closed, is a ranking in the log when it is delivered, and are the logs open to the runs that begin before `Stop`? | A ranker with two goroutines, a query that lasts until the next activation, a `Start` and a `Stop`; another `New`, which fails to create its files or not, logs and is stopped; a topic disabled, and names that are no topic; lines that JSON can hold and that it cannot. |
| `logging_restart` (violation) | Is every line kept after a restart? | Two `New`s. |

The inductive invariants of the proofs are checked by the runs too: `IInv` and
`ObservedIInv` of `CpuUtil` in `cpu_serial`, `FeedIInv` in `cpu_overlap`, `IInv` of
`CpuShares` in `cpu_shares`, `ProcessIInv` in `process`, and the parts of `SetupIInv`
one by one in `setup_distinct`, where TLC also evaluates that the two rankers have
strategies of their own (`DistinctAssumption`). `cpu_serial` and `cpu_overlap`
are taken up to an exchange of the two tasks (`Alike`), which no definition tells apart;
what they check has no fairness. Deadlock is checked in all runs; the steps `Halted` and `Returned` mark the
ends a program really has (panicked, bound of the time reached, `Execute`
returned). Each property has a mutant in `PROJECT.json`: a change of one
definition, of the kind a slip in the code would be, that the run must notice.

### What the code does not keep

1. `NoDeliveryAfterStop`: a run that is under way when `Stop` returns still
   calls the receiver (README.md:119 of the repository).
2. `SuccessiveQueries` with overlapping runs: answers out of order make windows
   that run backward (README.md:77-78). It holds one run at a time, and that is
   a theorem.
3. `NewNeverPanics`: with an interval of less than a second, which logger.go:29
   speaks of, or with none, as README.md:69-75 has it, `New` divides by zero
   (ranker.go:71).
4. `FeedsTheCaller` with two rankers of one strategy: the later `New`, even one
   that fails, takes over the receiver and labels (ranker.go:32-33).
5. `EveryGapIsMultiple`: `New` accepts `?/7` with an interval of 7 s, which fires
   again 4 s after the last activation of a minute (ranker.go:66). What does hold
   is `SteppedGapsAreMultiples`: a schedule of even steps is safe if the interval
   divides a minute.
6. `EveryLineIsKept`: after a `Stop`, hooks of the closed files keep the ones
   of a later ranker from firing (README.md:160-162).

Other things the models show that no run is spent on, since the repository is silent
about them or of two minds:

- When runs of two rankers that share the strategy query in the same millisecond a
  weight can be no number, and the list it is in be out of order
  (taskRanksReceiver.go:22). `WellFormedFeed` claims order of the other lists only.
- After a restart a task keeps the metric of its first sample. entities/task.go:57
  says otherwise, `taskRankCpuUtilStrategy_test.go:285-331` expects it, and `UtilFeed`
  follows the test.
- A weight is negative when the sum of a container falls, be it by a restart or by
  a missing cpu.
- A matcher without operator passes `New` and ends the process at the first query,
  though label.go:41-43 can tell it; `RunsSurvive` names it as its exception.
- Overlapping runs may use a map at once, drop each other's entries and reach one
  that is missing; the ranking of a run that `Stop` did not wait for is not in the
  log.

### Fairness

`Ranker`: time passes; cron fires on time; `Stop`'s statements and the stages
of a run follow one another; a deadline passes. Nothing obliges the caller to
call `Start` or `Stop`, nor the server to answer: `Answer` and `Fail` have no
fairness, and a run whose query is never answered ends by `Expire`. `CpuUtil`,
`CpuShares`, `Setup`, `Logging` and `Process` claim no liveness and assume no
fairness.

## 4. Proofs

`RankerProofs` proves, for every set of gaps, deadline, receiver time, number
of goroutines and of starts (with the assumptions `GapsAssumption`,
`TimesAssumption`, `StartsAssumption`, `RunsAssumption`):

- `Inductive`, `TypeCorrect`: `IInv` is an invariant. The bound on overlapping
  runs is not inductive, as nothing in the state counts them. What a step
  preserves is the spacing: two runs of a runner differ in age by at least the
  shortest gap (`Spaced`), the next activation comes at least that gap after the
  start of each run (`Recent`), and no stage outlives its deadline (`Punctual`).
- `OverlapBounded`: the ages of the runs in flight of a runner lie in
  `0 .. Longest` and each in another multiple of the shortest gap, so there are
  at most `Longest \div MinGap + 1`: `age \div MinGap` is an injection.
- `SlowScheduleNeverOverlaps`: if the shortest gap exceeds `Longest`, two runs
  of a runner are never in flight together. This is when what is shown of
  `CpuUtil` with one run applies.
- `ImplementsGateSafety`: initial states and steps of `Ranker` are those of
  `Admission`, or stutter. The capacity is `OverlapBounded` again.

`CpuUtilProofs` proves, for every cluster, history of restarts and missed
scrapes, whatever the sums of the counters do, but one run at a time, no rebuild in
its middle and no two queries in one millisecond (`Serial`):

- `Inductive`: `IInv` is an invariant. Its parts say that an entry lies in the
  map of a known host, so that creating a map drops none (`Sheltered`); that a
  sample once parsed has an entry until the run ends (`Entered`); and that the query
  in flight is the last and younger than the data points not yet calibrated
  (`Latest`).
- From it `SerialNeverCrashes` and `WindowsGoForward`, which also says that no window
  is empty.

Its second part has no such hypothesis: any number of runs interleave, at whatever
times they query, and the map is replaced at any time. Nothing can be said of which
entry a run finds, so it says what other runs cannot disturb:

- `FeedInductive`, `TypesHold`, `FeedIsWellFormed`: `FeedIInv` is an invariant. A run
  handles tasks only, in the ranking loop (`Placed`), and what it has ranked of a host
  are tasks of that host which it has visited, each once (`Listed`); the sort then
  keeps them and puts them in order, unless a weight is no number, for which the
  comparison is not an order.

`RankingProofs` is about the sort, for every list and every `Less`. The sort is a
recursive function, so that it is what its equation says needs that such a
function exists, and what it returns needs an induction over the list. Both are
done with sets: `NatInSet`, from the well-foundedness of the numbers, says that a
set with 0 and with the successor of each of its members has all numbers, and is
applied to the set of the lengths for which the claim holds. `SliceStableArranges`:
the result is an arrangement of the list, and two elements change places only if
`Less` says so. `SliceStableSorts`: it is in the order that `Less` tests, even
though the one that cpuutil hands over (`>=`) holds both ways between equals. The
theorems are about the insertion sort; for more than 20 tasks of a host Go merges
blocks that were sorted so.

`CpuUtilFeedProofs`, again for `Serial`, proves that the strategy is the abstract
feed, `UtilFeed`, which has no fairness:

- `ObservedInductive`: `ObservedIInv` says how the data points relate to the
  queries between any two statements: the visited tasks have the one of the query
  (up to the half that is still to be saved), all others an older one, and each
  weight is the utilization between the two, under the metric of the entry.
- `StrategyIsFeed`: `ImplementsFeed`. The mapping `Last` is restated without its
  choices (`MappingHolds`); the steps of parsing and ranking leave it as it is
  (`ParsingKeeps`, `CalibrateKeeps`, `StampKeeps`), a rebuild is `Forget`, and the
  delivery is `Observe` of the queried tasks (`DeliverIsObserve`): the lists hold
  exactly the tasks known before (`DeliverRanked`), the sort keeps them
  (`SortedElements`), and no earlier observation is as late (`DeliverObserves`).

`CpuSharesProofs` proves, for every result of a query of any length,
`SharesInductive`, `SharesTypes` and `EverySeriesIsRanked`. The invariant says
that the lists are those of the series parsed so far, in their order (`InOrder`),
which what is delivered is an arrangement of.

`ProcessProofs` proves of the logger, for any number of calls of `New`, `Done` and
of the loggers in any order, `LoggerInductive`, `LoggerTypes`, `LogsNeverMix` and
`LinesAreKept`. What is written follows from the hooks: each takes the topics of
the kind of its file (`HooksByKind`), none has a closed file until a logger is
closed (`HooksOpen`), and the newest files have one each (`HooksNewest`). Of a whole
process it proves that it is a logger (`ProcessLogs`) and a ranker
(`ProcessRanks`), so that all that is proved of the two holds in it but what needs
fairness; and, from `ProcessIInv`, which follows the line of each run from `Rank` to
`Execute`, that no run begins a query with closed logs (`AdmittedLogged`) and that a
ranking that JSON can hold is in the log when the receiver is called with it
(`DeliveredLogs`), of a ranker alone in its process and until `Stop` closes the
channel.

`SetupProofs` proves all that `setup_distinct` checks, for any number of rankers,
fetchers and receivers, and lists of options of any length. A call of `New` is a
fold of its options over what it shares, each `WithStrategyOptions` a fold of the
options of `Build`. `FoldProofs` shows that `FoldLeft`, which the community modules
define by a choice of indices, is the last of a sequence of values each of which is
the operation applied to the one before (`FoldLeftSteps`); it is instantiated for
`StrategyOption` and for `Option`, and an induction over that sequence (`NatInSet`)
says what each prefix of a list leaves:

- `BuildConfigures`: unless an option fails, of each kind the newest counts, and
  the labels are those of the last list of matchers, whatever half of an earlier
  build was there before. `OptionsApplied`: `New` so far has touched no strategy
  but those its list names (`Shared`), has given no fetcher to another, and has
  the fetcher, interval, schedule and strategy named last (`Assembled`).
- `SetupTypes`, `SetupTypesHold` (no condition): types hold, and what `New` has
  validated stays so (`Validated`): the schedule has passed the test, the fetcher
  exists, the interval is not zero in seconds.
- `SetupInductive`, under `OwnStrategies`: no two rankers are ever made with the same
  strategy. `QueryAsConfigured` and `FeedsTheCaller` are not inductive, since they
  say nothing of the object the next run reads. `BuiltAsAsked` does: the factory's
  object of a ranker made with care has its labels and its receiver, which is not
  nil. A `New` of another ranker leaves that object alone because it does not name
  it (`NewKeepsOthers`), and may take the fetcher, which the properties allow for. The
  condition is what the code needs: `setup_same` shows `FeedsTheCaller` broken
  without it.
- From it `StrategiesStayAsAsked`, `QueriesAsConfigured`, `ResultsReachTheCaller` and
  `RunsOfCareSurvive`. The last says that a run of a ranker made with care ends the
  process for want of nothing but an operator, whatever failed calls came before
  and whoever has taken its fetcher since.
- `SteppedSchedulesAreRegular` (no condition): `SteppedGapsAreMultiples`. The first
  activation of `?/k` after the epoch is `k`; a distance between activations
  is `k` or what remains of the minute (`ActivationEvery`), and a number that
  divides the first and the minute divides both (`DivisorDivides`).

Only model-checked: what needs fairness, as `ENABLED` and leads-to are beyond the
prover (`StopQuiesces`, `KeepsFetching`, and the half of
`ImplementsGate` that is not `ImplementsGateSafety`).

## 5. Not modelled

- The text of queries, logs and rankings.
- `WaitTillClosed`: nothing calls it.
- The parsing of cron expressions, and their fields above the seconds:
  `Schedule` has sets of seconds, `Ranker` the gaps.
- When Prometheus scrapes: a sum may change by any amount between two queries,
  so what `CpuUtil` shows of weights is relative to the samples it is given.
- What `Stop` before `Start` should do (it panics, `Ranker` has the step), that
  `previousTotalCpuUsage` is never drained (a TODO of the code), and the error of
  `Done` that is overwritten by a later one: nothing says what would be right.
- Docker files, scripts and test fixtures.

## 6. Plan

Done: the modules, runs and theorems above. Every invariant and safety property
that a run checks is stated by a theorem; what is left of the properties is
liveness. What could be added:

1. That the times between activations (`Gaps` of `Ranker`) are those of a schedule
   of `Schedule` which `New` accepts, so that a bound on overlapping runs follows from
   a cron expression.
2. Liveness of `CpuUtil`: that every query that is answered is executed to its end,
   unless the process does, when runs overlap.
