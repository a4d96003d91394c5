------------------------------- MODULE CpuUtil -------------------------------
(***************************************************************************)
(* TaskRankCpuUtilStrategy (src/strategies/taskRankCpuUtilStrategy.go) as  *)
(* the goroutines of Run drive it: each queries the cluster, parses the    *)
(* samples, compares them with previousTotalCpuUsage, which all goroutines *)
(* share without a lock, and feeds the receiver.                           *)
(*                                                                         *)
(* A sample stands for all the samples of a container, one per cpu, that   *)
(* one query returns, and carries their sum.  As the tests have it, a cpu  *)
(* may be missing from a query, so that the sum of a container that runs   *)
(* need not grow.  A query is evaluated at the time it is sent, which is   *)
(* also the timestamp of its samples, whenever its answer arrives; several *)
(* may be sent within one millisecond, by the runs of different rankers.   *)
(***************************************************************************)
EXTENDS Utilization, FiniteSets

CONSTANTS
    Containers,   \* pairs <<host, task ID>>
    NoTask,       \* the task ID of a container without that label
    Runs,         \* the goroutines that may be in flight at once
    Intervals,    \* possible times between a query and the next, of any run
    MaxQueries,   \* bound on the queries sent
    MaxUsage,     \* bound on a sum of counters of cpu seconds
    MaxMetric,    \* metrics (the labels of samples) are numbered from 1 to this
    MaxBuilds,    \* bound on the times the strategy is built again
    BuildsInRuns  \* whether it may be while a run executes

ASSUME IntervalsAssumption == Intervals \subseteq Nat
ASSUME ContainersAssumption == <<NoTask, NoTask>> \notin Containers
ASSUME BoundsAssumption == {MaxQueries, MaxUsage, MaxMetric, MaxBuilds} \subseteq Nat
ASSUME BuildsAssumption == BuildsInRuns \in BOOLEAN

Hosts == {p[1] : p \in Containers}
Tasks == {p \in Containers : p[2] # NoTask}
None == [metric |-> 0, used |-> 0]   \* a container the query does not see

\* Where a goroutine is in Execute, and where it may be at all.
Executing == {"parsing", "creating", "entering", "storing", "ranking"}
Stages == {"idle", "fetching"} \cup Executing

VARIABLES
    clock,     \* the time of the last query
    sent,      \* the number of queries sent so far
    builds,    \* how often the strategy was built again
    hosts,     \* the keys of previousTotalCpuUsage
    prev,      \* task -> its entry in previousTotalCpuUsage, or NoEntry
    stage,     \* run -> where the goroutine is
    nth,       \* run -> the number of its query
    at,        \* run -> the time of its query
    vec,       \* run -> the result of its query
    todo,      \* run -> containers the current loop has still to visit
    half,      \* run -> the container whose host, entry or timestamp is being set
    ranked,    \* run -> host -> the tasks ranked so far
    received,  \* host -> the ranked tasks last passed to the receiver
    crashed    \* the process has panicked

vars == <<clock, sent, builds, hosts, prev, stage, nth, at, vec, todo, half,
          ranked, received, crashed>>
local == <<stage, nth, at, vec, todo, half, ranked>>

\* An entry: the metric of the first sample of the task, whether dataPoint is
\* not nil, its two fields, and the query it was made for (its identity).
NoEntry == [born |-> 0, metric |-> 0, seen |-> FALSE, used |-> 0, at |-> 0]
Nobody == <<NoTask, NoTask>>

\* What a sample says of its container: its metric and the sum of its counters.
Readings == [metric : 0 .. MaxMetric, used : 0 .. MaxUsage]

-----------------------------------------------------------------------------

Init ==
    /\ clock = 1
    /\ sent = 0
    /\ builds = 0
    /\ hosts = {}
    /\ prev = [p \in Tasks |-> NoEntry]
    /\ stage = [r \in Runs |-> "idle"]
    /\ nth = [r \in Runs |-> 0]
    /\ at = [r \in Runs |-> 0]
    /\ vec = [r \in Runs |-> [p \in Containers |-> None]]
    /\ todo = [r \in Runs |-> {}]
    /\ half = [r \in Runs |-> [task |-> Nobody, born |-> 0]]
    /\ ranked = [r \in Runs |-> [h \in Hosts |-> <<>>]]
    /\ received = [h \in Hosts |-> <<>>]
    /\ crashed = FALSE

\* Fetch sends the query.  It sees some of the containers, with what their cpus
\* report; a container that was started again has another metric.
Query(r) ==
    /\ stage[r] = "idle"
    /\ sent < MaxQueries
    /\ sent' = sent + 1
    /\ \E d \in Intervals : clock' = clock + d
    /\ \E S \in SUBSET Containers :
       \E seen \in [S -> [metric : 1 .. MaxMetric, used : 0 .. MaxUsage]] :
          vec' = [vec EXCEPT ![r] =
                     [p \in Containers |-> IF p \in S THEN seen[p] ELSE None]]
    /\ nth' = [nth EXCEPT ![r] = sent']
    /\ at' = [at EXCEPT ![r] = clock']
    /\ stage' = [stage EXCEPT ![r] = "fetching"]
    /\ UNCHANGED <<builds, hosts, prev, todo, half, ranked, received, crashed>>

Samples(r) == {p \in Containers : vec[r][p] # None}

\* Mutant of Done: the ranked tasks are kept for the next run.
DoneAndKeep(r) ==
    /\ stage' = [stage EXCEPT ![r] = "idle"]
    /\ nth' = [nth EXCEPT ![r] = 0]
    /\ at' = [at EXCEPT ![r] = 0]
    /\ vec' = [vec EXCEPT ![r] = [p \in Containers |-> None]]
    /\ UNCHANGED ranked

\* The run is over.
Done(r) ==
    /\ stage' = [stage EXCEPT ![r] = "idle"]
    /\ nth' = [nth EXCEPT ![r] = 0]
    /\ at' = [at EXCEPT ![r] = 0]
    /\ vec' = [vec EXCEPT ![r] = [p \in Containers |-> None]]
    /\ ranked' = [ranked EXCEPT ![r] = [h \in Hosts |-> <<>>]]

\* Fetch returns an error, or Execute gets a value that is not a vector.
FetchFails(r) ==
    /\ stage[r] = "fetching"
    /\ Done(r)
    /\ UNCHANGED <<clock, sent, builds, hosts, prev, todo, half, received,
                   crashed>>

\* Fetch returns the vector and Execute starts to parse it.
Answer(r) ==
    /\ stage[r] = "fetching"
    /\ stage' = [stage EXCEPT ![r] = "parsing"]
    /\ todo' = [todo EXCEPT ![r] = Samples(r)]
    /\ UNCHANGED <<clock, sent, builds, hosts, prev, nth, at, vec, half,
                   ranked, received, crashed>>

-----------------------------------------------------------------------------

\* Another ranker of this strategy is made: New builds the object that all of
\* them share again, and everything it has recorded is gone.
Rebuild ==
    /\ builds < MaxBuilds
    /\ BuildsInRuns \/ \A r \in Runs : stage[r] \in {"idle", "fetching"}
    /\ builds' = builds + 1
    /\ hosts' = {}
    /\ prev' = [p \in Tasks |-> NoEntry]
    /\ UNCHANGED <<clock, sent, local, received, crashed>>

-----------------------------------------------------------------------------

\* The parsing loop has done with sample p.
Parsed(r, p) ==
    /\ stage' = [stage EXCEPT ![r] = "parsing"]
    /\ todo' = [todo EXCEPT ![r] = @ \ {p}]
    /\ half' = [half EXCEPT ![r].task = Nobody]

\* The host of sample p is one of the keys: if the sample is labelled, the
\* entry of its task is looked up next.
HostFound(r, p) ==
    IF p \in Tasks
    THEN /\ stage' = [stage EXCEPT ![r] = "entering"]
         /\ half' = [half EXCEPT ![r].task = p]
         /\ UNCHANGED todo
    ELSE Parsed(r, p)

\* The parsing loop: the host of a sample is found ...
FindHost(r, p) ==
    /\ stage[r] = "parsing"
    /\ p \in todo[r]
    /\ p[1] \in hosts
    /\ HostFound(r, p)
    /\ UNCHANGED <<clock, sent, builds, hosts, prev, nth, at, vec, ranked,
                   received, crashed>>

\* ... or is not found ...
MissHost(r, p) ==
    /\ stage[r] = "parsing"
    /\ p \in todo[r]
    /\ p[1] \notin hosts
    /\ stage' = [stage EXCEPT ![r] = "creating"]
    /\ half' = [half EXCEPT ![r].task = p]
    /\ UNCHANGED <<clock, sent, builds, hosts, prev, nth, at, vec, todo,
                   ranked, received, crashed>>

\* Mutant of WithHost: the map is stored under the task.
WithHostAsTask(p) == hosts \cup {p}

\* The keys of previousTotalCpuUsage once the host of p is one of them.
WithHost(p) == hosts \cup {p[1]}

\* ... and an empty map is stored for it, over one that another goroutine may
\* have stored and filled meanwhile.
CreateHost(r) ==
    /\ stage[r] = "creating"
    /\ hosts' = WithHost(half[r].task)
    /\ prev' = [p \in Tasks |-> IF p[1] = half[r].task[1] THEN NoEntry ELSE prev[p]]
    /\ HostFound(r, half[r].task)
    /\ UNCHANGED <<clock, sent, builds, nth, at, vec, ranked, received, crashed>>

\* The entry of the task is looked up ...
FindEntry(r) ==
    /\ stage[r] = "entering"
    /\ IF prev[half[r].task] = NoEntry
       THEN stage' = [stage EXCEPT ![r] = "storing"] /\ UNCHANGED <<todo, half>>
       ELSE Parsed(r, half[r].task)
    /\ UNCHANGED <<clock, sent, builds, hosts, prev, nth, at, vec, ranked,
                   received, crashed>>

\* Mutants of Recorded: no entry is made; a new one has a data point of the time
\* it is made.
RecordedNot(r, p) == prev[p]
RecordedNow(r, p) ==
    [born |-> nth[r], metric |-> vec[r][p].metric,
     seen |-> TRUE, used |-> vec[r][p].used, at |-> at[r] + 1]

\* The first entry of a task: it has no data point.
Recorded(r, p) ==
    [born |-> nth[r], metric |-> vec[r][p].metric, seen |-> FALSE, used |-> 0, at |-> 0]

\* ... and, as it was missing, stored, over one that another goroutine may have
\* stored meanwhile.  If the map of the host is gone the assignment panics.
StoreEntry(r) ==
    /\ stage[r] = "storing"
    /\ LET p == half[r].task
       IN  IF p[1] \in hosts
           THEN /\ prev' = [prev EXCEPT ![p] = Recorded(r, p)]
                /\ Parsed(r, p)
                /\ UNCHANGED crashed
           ELSE crashed' = TRUE /\ UNCHANGED <<prev, stage, todo, half>>
    /\ UNCHANGED <<clock, sent, builds, hosts, nth, at, vec, ranked, received>>

\* All samples are parsed: the ranking loop visits their tasks.
ParsingDone(r) ==
    /\ stage[r] = "parsing"
    /\ todo[r] = {}
    /\ stage' = [stage EXCEPT ![r] = "ranking"]
    /\ todo' = [todo EXCEPT ![r] = Samples(r) \cap Tasks]
    /\ UNCHANGED <<clock, sent, builds, hosts, prev, nth, at, vec, half,
                   ranked, received, crashed>>

\* The data point of a task's entry, and the metric of the entry.
DataPoint(p) == [used |-> prev[p].used, at |-> prev[p].at, metric |-> prev[p].metric]

\* The ranked form of a task: its entry's metric and the weight over the window
\* from the data point of the entry to that of the query.
Rank(r, p) ==
    [task |-> p, metric |-> prev[p].metric,
     weight |-> Weight(prev[p], [used |-> vec[r][p].used, at |-> at[r]]),
     base |-> DataPoint(p)]

\* The ranking loop: a task with a data point is calibrated and appended to the
\* tasks of its host; then the first field of the data point is saved.  Without
\* an entry the access to its data point panics.
Calibrate(r, p) ==
    /\ stage[r] = "ranking"
    /\ p \in todo[r]
    /\ half[r].task = Nobody
    /\ IF prev[p] = NoEntry
       THEN crashed' = TRUE /\ UNCHANGED <<prev, todo, half, ranked>>
       ELSE /\ ranked' = IF prev[p].seen
                         THEN [ranked EXCEPT ![r][p[1]] = Append(@, Rank(r, p))]
                         ELSE ranked
            /\ prev' = [prev EXCEPT ![p].seen = TRUE, ![p].used = vec[r][p].used]
            /\ half' = [half EXCEPT ![r] = [task |-> p, born |-> prev[p].born]]
            /\ todo' = [todo EXCEPT ![r] = @ \ {p}]
            /\ UNCHANGED crashed
    /\ UNCHANGED <<clock, sent, builds, hosts, stage, nth, at, vec, received>>

\* Mutant of Stamped: only a new data point is stamped.
StampedOnce(r, p) == [prev[p] EXCEPT !.at = IF @ = 0 THEN at[r] ELSE @]

\* The entry of a task with the time of the query of r.
Stamped(r, p) == [prev[p] EXCEPT !.at = at[r]]

\* The second field of the data point is saved, in the entry that was read, be
\* it still in the map or not.
Stamp(r) ==
    /\ stage[r] = "ranking"
    /\ half[r].task # Nobody
    /\ LET p == half[r].task
       IN  prev' = IF prev[p].born = half[r].born
                   THEN [prev EXCEPT ![p] = Stamped(r, p)] ELSE prev
    /\ half' = [half EXCEPT ![r] = [task |-> Nobody, born |-> 0]]
    /\ UNCHANGED <<clock, sent, builds, hosts, stage, nth, at, vec, todo,
                   ranked, received, crashed>>

\* Mutant of HeavierOrEqual: lighter tasks first.
LighterOrEqual(a, b) == AtLeast(b.weight, a.weight)

\* The order handed to sort.SliceStable.
HeavierOrEqual(a, b) == AtLeast(a.weight, b.weight)

Sort == INSTANCE Ranking WITH Less <- HeavierOrEqual

\* Every host's tasks are sorted; unless there are none the receiver gets them.
Deliver(r) ==
    /\ stage[r] = "ranking"
    /\ todo[r] = {}
    /\ half[r].task = Nobody
    /\ received' = IF \E h \in Hosts : ranked[r][h] # <<>>
                   THEN [h \in Hosts |-> Sort!SliceStable(ranked[r][h])]
                   ELSE received
    /\ Done(r)
    /\ UNCHANGED <<clock, sent, builds, hosts, prev, todo, half, crashed>>

\* Go maps are not safe for concurrent use: while one goroutine is about to
\* write previousTotalCpuUsage and another is in a loop that uses it, the
\* runtime may end the process.
MapFault(r, q) ==
    /\ r # q
    /\ stage[r] \in {"creating", "storing"}
    /\ stage[q] \in Executing
    /\ crashed' = TRUE
    /\ UNCHANGED <<clock, sent, builds, hosts, prev, local, received>>

\* The process has died, or the bound on the queries is reached.
Halted ==
    /\ \/ crashed
       \/ /\ \A r \in Runs : stage[r] = "idle"
          /\ sent = MaxQueries
    /\ UNCHANGED vars

Execute(r) ==
    \/ CreateHost(r) \/ FindEntry(r) \/ StoreEntry(r)
    \/ ParsingDone(r) \/ Stamp(r) \/ Deliver(r)
    \/ \E p \in Containers : FindHost(r, p) \/ MissHost(r, p) \/ Calibrate(r, p)

Next ==
    \/ /\ ~crashed
       /\ \/ \E r \in Runs : Query(r) \/ FetchFails(r) \/ Answer(r) \/ Execute(r)
          \/ \E r, q \in Runs : MapFault(r, q)
          \/ Rebuild
    \/ Halted

Spec == Init /\ [][Next]_vars

-----------------------------------------------------------------------------

Entries == [born : Nat, metric : 0 .. MaxMetric, seen : BOOLEAN,
            used : 0 .. MaxUsage, at : Nat]
Rankings == [task : Tasks, metric : 0 .. MaxMetric, weight : Weights,
             base : [used : 0 .. MaxUsage, at : Nat, metric : 0 .. MaxMetric]]

Types ==
    /\ clock \in Nat
    /\ sent \in 0 .. MaxQueries
    /\ builds \in 0 .. MaxBuilds
    /\ hosts \subseteq Hosts
    /\ prev \in [Tasks -> Entries]
    /\ stage \in [Runs -> Stages]
    /\ nth \in [Runs -> Nat]
    /\ at \in [Runs -> Nat]
    /\ vec \in [Runs -> [Containers -> Readings]]
    /\ todo \in [Runs -> SUBSET Containers]
    /\ half \in [Runs -> [task : Containers \cup {Nobody}, born : Nat]]
    /\ ranked \in [Runs -> [Hosts -> Seq(Rankings)]]
    /\ crashed \in BOOLEAN

\* Types; whatever Execute ranks and delivers is a list of tasks per host.
TypeOK == Types /\ received \in [Hosts -> Seq(Rankings)]

\* Without overlap no order of the loops reaches a missing map or entry.
NeverCrashes == ~crashed

\* Whatever the goroutines do to the map they share, a host's list names each task
\* once and only tasks of that host, and is ordered unless a weight is no number.
WellFormedFeed ==
    \A h \in Hosts :
        /\ (\A i \in DOMAIN received[h] : ~received[h][i].weight.nan) =>
               NonIncreasing(received[h])
        /\ \A i, j \in DOMAIN received[h] :
               /\ received[h][i].task[1] = h
               /\ i # j => received[h][i].task # received[h][j].task

\* README.md:77-78 "the time difference between data points fetched from
\* successive query executions": the base of a weight was fetched by an earlier
\* query than the one the weight is for.
SuccessiveQueries ==
    \A r \in Runs : \A h \in Hosts : \A i \in DOMAIN ranked[r][h] :
        ranked[r][h][i].base.at < at[r]

-----------------------------------------------------------------------------

\* What one run after the other keeps, and the properties above rest on.

\* An entry lies in the map of a known host: storing an empty map for a host
\* that was missing drops no entry.
Sheltered ==
    \A p \in Tasks : /\ prev[p] # NoEntry => prev[p].born > 0
                     /\ prev[p].born > 0 => p[1] \in hosts

\* Every sample has its entry once it is parsed, and keeps it.
Entered(r) ==
    /\ stage[r] \in {"idle", "fetching", "parsing"} => half[r].task = Nobody
    /\ stage[r] # "ranking" => \A h \in Hosts : ranked[r][h] = <<>>
    /\ stage[r] \in {"parsing", "creating", "entering", "storing"} =>
           /\ todo[r] \subseteq Samples(r)
           /\ \A p \in (Samples(r) \cap Tasks) \ todo[r] : prev[p].born > 0
    /\ stage[r] = "creating" => half[r].task \in todo[r] /\ half[r].task[1] \notin hosts
    /\ stage[r] \in {"entering", "storing"} =>
           half[r].task \in todo[r] \cap Tasks /\ half[r].task[1] \in hosts
    /\ stage[r] = "storing" => prev[half[r].task] = NoEntry
    /\ stage[r] = "ranking" =>
           /\ todo[r] \subseteq Samples(r) \cap Tasks
           /\ half[r].task \in ((Samples(r) \cap Tasks) \ todo[r]) \cup {Nobody}
           /\ \A p \in Samples(r) \cap Tasks : prev[p].born > 0

\* The query in flight is the last one, and no data point of an entry it has
\* not calibrated yet is as young.
Latest ==
    /\ \A p \in Tasks : prev[p].at <= clock
    /\ \A r \in Runs : stage[r] # "idle" =>
           /\ at[r] = clock /\ clock > 0 /\ nth[r] > 0
           /\ \A p \in Tasks : stage[r] # "ranking" \/ p \in todo[r] => prev[p].at < clock

\* The inductive invariant of Execute, one run after the other.
IInv ==
    /\ Types /\ NeverCrashes /\ Sheltered /\ Latest
    /\ \A r \in Runs : Entered(r)
    /\ SuccessiveQueries

\* What the entries and the ranked tasks have to do with the observations of the
\* tasks: an entry without a data point is blank, the queried tasks visited so far
\* have that of the query, and the others an older one; a task is ranked by its
\* utilization since the data point it had, under the metric of its entry.
Observed(r) ==
    /\ \A p \in Tasks :
           /\ ~prev[p].seen => prev[p].used = 0
           /\ stage[r] # "ranking" \/ p # half[r].task => (prev[p].seen <=> prev[p].at # 0)
    /\ stage[r] # "idle" => \A p \in Tasks \ Samples(r) : prev[p].at < at[r]
    /\ stage[r] = "ranking" =>
           /\ half[r].task # Nobody =>
                  /\ half[r].born = prev[half[r].task].born
                  /\ prev[half[r].task].seen
           /\ \A p \in (Samples(r) \cap Tasks) \ todo[r] :
                  /\ prev[p].used = vec[r][p].used
                  /\ p # half[r].task => prev[p].at = at[r]
           /\ \A h \in Hosts : \A i \in DOMAIN ranked[r][h] :
                  LET k == ranked[r][h][i]
                  IN  /\ k.task \in Samples(r)
                      /\ k.base.at # 0
                      /\ k.metric = k.base.metric /\ k.metric = prev[k.task].metric
                      /\ k.weight = Weight(k.base, [used |-> vec[r][k.task].used, at |-> at[r]])

\* The inductive invariant of the refinement, one run after the other.
ObservedIInv == IInv /\ \A r \in Runs : Observed(r)

\* Where a run is in its loops, whatever overlaps: it ranks tasks, in the ranking
\* loop only.
Placed(r) ==
    /\ stage[r] \in {"idle", "fetching", "parsing"} => half[r].task = Nobody
    /\ stage[r] \in {"entering", "storing"} => half[r].task \in Tasks
    /\ stage[r] = "creating" => half[r].task \in Containers
    /\ stage[r] = "ranking" => /\ todo[r] \subseteq Tasks
                              /\ half[r].task \in (Tasks \ todo[r]) \cup {Nobody}
    /\ stage[r] # "ranking" => \A h \in Hosts : ranked[r][h] = <<>>

\* What a run has ranked of a host so far are tasks of that host which it has
\* visited, each of them once.
Listed(r) ==
    \A h \in Hosts : \A i, j \in DOMAIN ranked[r][h] :
        /\ ranked[r][h][i].task[1] = h
        /\ ranked[r][h][i].task \notin todo[r]
        /\ i # j => ranked[r][h][i].task # ranked[r][h][j].task

\* The inductive invariant of what is delivered, whatever overlaps.
FeedIInv == TypeOK /\ WellFormedFeed /\ \A r \in Runs : Placed(r) /\ Listed(r)

-----------------------------------------------------------------------------

\* The run r has visited the task p in its ranking loop.
Visited(r, p) == stage[r] = "ranking" /\ p \in Samples(r) \ todo[r]

\* The positions at which it has ranked the task: one or none.
Positions(r, p) == {i \in DOMAIN ranked[r][p[1]] : ranked[r][p[1]][i].task = p}

Unobserved == [used |-> 0, at |-> 0, metric |-> 0]

\* The data point the task had when the run visited it.
Base(r, p) ==
    IF Positions(r, p) = {} THEN Unobserved
    ELSE ranked[r][p[1]][CHOOSE i \in Positions(r, p) : TRUE].base

\* The data point of a task, if it has one.
Saved(p) == IF prev[p].at = 0 THEN Unobserved ELSE DataPoint(p)

\* The last observation of a task, as of the last run that ended.
LastObservation(p) ==
    IF \E r \in Runs : Visited(r, p) THEN Base(CHOOSE r \in Runs : Visited(r, p), p)
    ELSE Saved(p)

Last == [p \in Tasks |-> LastObservation(p)]

Feed == INSTANCE UtilFeed WITH last <- Last, feed <- received

\* One run after the other, the strategy implements the feed: maps created per
\* host, entries and data points add up to one observation per query, and every
\* weight is taken over the window since the previous observation of the task.
ImplementsFeed == Feed!Spec
=============================================================================
