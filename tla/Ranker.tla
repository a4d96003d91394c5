------------------------------- MODULE Ranker -------------------------------
(***************************************************************************)
(* The life cycle of a TaskRanker (src/ranker.go): Start creates a cron    *)
(* runner, the runner starts Run in a goroutine of its own each time the   *)
(* schedule fires, Run fetches under a deadline and hands the result to    *)
(* the strategy, Stop closes the termination channel, stops the last       *)
(* runner and closes the logs, without waiting for the goroutines.         *)
(*                                                                         *)
(* Time is discrete, in the seconds of the cron schedule.  Goroutines are  *)
(* scheduled, and Execute computes, within a second; a query may take up   *)
(* to the deadline of its context and the receiver's callback up to        *)
(* ReceiveTime.  What Execute computes is the subject of CpuUtil.          *)
(***************************************************************************)
EXTENDS Integers, FiniteSets

CONSTANTS
    Runs,          \* goroutines running Run; a finished one may be used again
    Gaps,          \* possible seconds between two activations of the schedule
    MinGap,        \* the shortest of them
    FetchTimeout,  \* the deadline of the context of a query (10 s in the code)
    ReceiveTime,   \* the longest the receiver's callback takes
    MaxStarts      \* bound on the calls of Start

ASSUME GapsAssumption == /\ Gaps \subseteq Nat \ {0}
                         /\ MinGap \in Gaps
                         /\ \A g \in Gaps : MinGap <= g
ASSUME TimesAssumption == FetchTimeout \in Nat \ {0} /\ ReceiveTime \in Nat
ASSUME StartsAssumption == MaxStarts \in Nat \ {0}
ASSUME RunsAssumption == IsFiniteSet(Runs)

\* The cron runners, in the order Start creates them.
Runners == 1 .. MaxStarts

Stages == {"idle", "spawned", "fetching", "executing", "receiving"}

VARIABLES
    started,  \* how many runners Start has created; tRanker.runner is the last
    live,     \* the runners whose loop is running
    due,      \* runner -> seconds until its next activation
    owner,    \* where the caller of Start and Stop is
    closed,   \* termCh.IsClosed()
    logOpen,  \* the log files are open
    stage,    \* run -> where the goroutine is
    by,       \* run -> the runner that started it
    age,      \* run -> seconds since it was started
    left      \* run -> seconds it may remain in its stage

caller == <<started, live, owner, closed, logOpen>>
vars == <<started, live, due, owner, closed, logOpen, stage, by, age, left>>

-----------------------------------------------------------------------------

Init ==
    /\ started = 0
    /\ live = {}
    /\ due = [c \in Runners |-> 0]
    /\ owner = "free"
    /\ closed = FALSE
    /\ logOpen = TRUE
    /\ stage = [r \in Runs |-> "idle"]
    /\ by = [r \in Runs |-> 1]
    /\ age = [r \in Runs |-> 0]
    /\ left = [r \in Runs |-> 0]

\* Start: a new cron runner replaces the last one, which is not stopped.  Its
\* first activation is at most a whole gap of the schedule away.
Start ==
    /\ owner = "free"
    /\ started < MaxStarts
    /\ started' = started + 1
    /\ live' = live \cup {started'}
    /\ \E g \in Gaps : \E wait \in 1 .. g : due' = [due EXCEPT ![started'] = wait]
    /\ UNCHANGED <<owner, closed, logOpen, stage, by, age, left>>

\* Stop, first statement: close the termination channel (once).
StopClose ==
    /\ owner = "free"
    /\ owner' = "closing"
    /\ closed' = TRUE
    /\ UNCHANGED <<started, live, due, logOpen, stage, by, age, left>>

\* Stop, second statement: stop the loop of the last runner.  The context it
\* returns, which would tell when the runs have ended, is ignored.  Without an
\* earlier Start the runner is a nil pointer and the call panics.
StopRunner ==
    /\ owner = "closing"
    /\ IF started = 0
       THEN owner' = "panicked" /\ UNCHANGED <<live, due>>
       ELSE /\ owner' = "flushing"
            /\ live' = live \ {started}
            /\ due' = [due EXCEPT ![started] = 0]
    /\ UNCHANGED <<started, closed, logOpen, stage, by, age, left>>

\* Stop, last statement: logger.Done closes the log files.
StopLogger ==
    /\ owner = "flushing"
    /\ owner' = "free"
    /\ logOpen' = FALSE
    /\ UNCHANGED <<started, live, due, closed, stage, by, age, left>>

-----------------------------------------------------------------------------

\* The runner c is set to its next activation.
Rearm(c) == \E g \in Gaps : due' = [due EXCEPT ![c] = g]

\* Mutants of Terminated: it is never seen; the cases of the select are swapped;
\* it is seen while Stop lasts.
TerminatedNever == FALSE
TerminatedInverted == ~closed
TerminatedBriefly == closed /\ owner # "free"

\* termCh.IsClosed().
Terminated == closed

\* Mutants of Deadline: there is none; it is counted from a second after the
\* start; a failed query is tried again, twice, under deadlines of its own.
DeadlineNone == -1
DeadlineLate == FetchTimeout + 1
DeadlineThrice == 3 * FetchTimeout

\* The deadline Fetch gives the query.
Deadline == FetchTimeout

\* The goroutine of r ends.
Finish(r) ==
    /\ stage' = [stage EXCEPT ![r] = "idle"]
    /\ by' = [by EXCEPT ![r] = 1]
    /\ age' = [age EXCEPT ![r] = 0]
    /\ left' = [left EXCEPT ![r] = 0]

\* The loop of a cron runner: the schedule is due, Run is started in a new
\* goroutine whatever became of the earlier ones, the next activation is set.
Fire(c) ==
    /\ c \in live
    /\ due[c] = 0
    /\ \E r \in Runs : /\ stage[r] = "idle"
                       /\ stage' = [stage EXCEPT ![r] = "spawned"]
                       /\ by' = [by EXCEPT ![r] = c]
    /\ Rearm(c)
    /\ UNCHANGED <<caller, age, left>>

\* Run: the only look at the termination channel, then the query is sent.
Check(r) ==
    /\ stage[r] = "spawned"
    /\ IF Terminated
       THEN Finish(r)
       ELSE /\ stage' = [stage EXCEPT ![r] = "fetching"]
            /\ left' = [left EXCEPT ![r] = Deadline]
            /\ UNCHANGED <<by, age>>
    /\ UNCHANGED <<caller, due>>

\* Fetch returns data, at the last moment of the deadline too.
Answer(r) ==
    /\ stage[r] = "fetching"
    /\ stage' = [stage EXCEPT ![r] = "executing"]
    /\ left' = [left EXCEPT ![r] = 0]
    /\ UNCHANGED <<caller, due, by, age>>

\* Fetch returns an error of the server or of the connection: Run logs it.
Fail(r) ==
    /\ stage[r] = "fetching"
    /\ Finish(r)
    /\ UNCHANGED <<caller, due>>

\* The context's deadline passes: Fetch returns an error, Run logs it.
Expire(r) ==
    /\ stage[r] = "fetching"
    /\ left[r] = 0
    /\ Finish(r)
    /\ UNCHANGED <<caller, due>>

\* Execute logs the ranking and calls the receiver, or has nothing to rank.
Execute(r) ==
    /\ stage[r] = "executing"
    /\ \/ /\ stage' = [stage EXCEPT ![r] = "receiving"]
          /\ left' = [left EXCEPT ![r] = ReceiveTime]
          /\ UNCHANGED <<by, age>>
       \/ Finish(r)
    /\ UNCHANGED <<caller, due>>

\* The receiver's callback returns, and with it Execute and Run.
Return(r) ==
    /\ stage[r] = "receiving"
    /\ Finish(r)
    /\ UNCHANGED <<caller, due>>

\* A second passes.  None does while the schedule is due, a goroutine is about
\* to look at the channel or computes, or a deadline has been reached.
Tick ==
    /\ \A c \in live : due[c] > 0
    /\ \A r \in Runs : \/ stage[r] = "idle"
                       \/ stage[r] \in {"fetching", "receiving"} /\ left[r] > 0
    /\ due' = [c \in Runners |-> IF c \in live THEN due[c] - 1 ELSE 0]
    /\ age' = [r \in Runs |-> IF stage[r] = "idle" THEN 0 ELSE age[r] + 1]
    /\ left' = [r \in Runs |-> IF stage[r] = "idle" THEN 0 ELSE left[r] - 1]
    /\ UNCHANGED <<caller, stage, by>>

RunStep(r) ==
    Check(r) \/ Answer(r) \/ Fail(r) \/ Expire(r) \/ Execute(r) \/ Return(r)

Next ==
    \/ Start \/ StopClose \/ StopRunner \/ StopLogger
    \/ \E c \in Runners : Fire(c)
    \/ \E r \in Runs : RunStep(r)
    \/ Tick

\* Time passes, cron fires on time, goroutines are scheduled, deadlines are
\* kept and the receiver returns.  Nothing obliges the caller to call Start or
\* Stop, nor the server to answer.
Fairness ==
    /\ WF_vars(Tick)
    /\ WF_vars(StopRunner) /\ WF_vars(StopLogger)
    /\ \A c \in Runners : WF_vars(Fire(c))
    /\ \A r \in Runs : /\ WF_vars(Check(r)) /\ WF_vars(Expire(r))
                       /\ WF_vars(Execute(r)) /\ WF_vars(Return(r))

Spec == Init /\ [][Next]_vars /\ Fairness

-----------------------------------------------------------------------------

\* Types: only runners that Start has created are live, and no time is negative.
TypeOK ==
    /\ started \in 0 .. MaxStarts
    /\ live \subseteq 1 .. started
    /\ due \in [Runners -> Nat]
    /\ owner \in {"free", "closing", "flushing", "panicked"}
    /\ closed \in BOOLEAN
    /\ logOpen \in BOOLEAN
    /\ stage \in [Runs -> Stages]
    /\ by \in [Runs -> Runners]
    /\ age \in [Runs -> Nat]
    /\ left \in [Runs -> Nat]

\* The runs that passed the look at the termination channel.
AdmittedBy(c) ==
    {r \in Runs : stage[r] \in {"fetching", "executing", "receiving"} /\ by[r] = c}

\* The goroutines of a runner that have not ended.
InFlight(c) == {r \in Runs : stage[r] # "idle" /\ by[r] = c}

\* The longest a run takes, and how many activations fit in it.
Longest == FetchTimeout + ReceiveTime
Capacity == Longest \div MinGap + 1

\* cron starts a run whatever became of the earlier ones: nothing in the code
\* limits how many overlap.  The deadline of the query is the only limit: at
\* most one run per shortest gap of the schedule within the longest a run takes.
OverlapBound == \A c \in Runners : Cardinality(InFlight(c)) <= Capacity

-----------------------------------------------------------------------------

\* Runs belong to a runner that Start has created.
Owned == \A r \in Runs : stage[r] # "idle" => by[r] <= started

\* No stage outlives its deadline, so no run outlives Longest.
Punctual ==
    \A r \in Runs :
        /\ stage[r] \in {"idle", "spawned"} => age[r] = 0
        /\ stage[r] = "fetching" => age[r] + left[r] <= FetchTimeout
        /\ stage[r] = "executing" => age[r] <= FetchTimeout
        /\ stage[r] = "receiving" => age[r] + left[r] <= Longest

\* Two runs of one runner were started at least the shortest gap apart.
Apart(m, n) == m - n >= MinGap \/ n - m >= MinGap
Spaced ==
    \A r, s \in Runs :
        r # s /\ stage[r] # "idle" /\ stage[s] # "idle" /\ by[r] = by[s]
            => Apart(age[r], age[s])

\* The next activation of a runner is at least the shortest gap after the
\* start of each of its runs.
Recent ==
    \A r \in Runs :
        stage[r] # "idle" /\ by[r] \in live => age[r] + due[by[r]] >= MinGap

\* The invariant that carries OverlapBound through every step: it is the spacing
\* of the ages, not their number, that a step preserves.
IInv == TypeOK /\ Owned /\ Punctual /\ Spaced /\ Recent

-----------------------------------------------------------------------------

\* Seen from outside the ranker is a gate of limited capacity per runner that
\* closes for good: see Admission.
Gate == INSTANCE Admission WITH
            Lanes <- Runners,
            Jobs <- Runs,
            open <- ~closed,
            admitted <- [c \in Runners |-> AdmittedBy(c)]

\* The ranker implements the gate: a second Start opens nothing, runners that
\* Stop does not stop admit nothing, and every admitted run ends.
ImplementsGate == Gate!Spec

\* Stop quiesces: although it waits for nobody, from some time after the
\* channel is closed no run fetches, executes or delivers, for good, whatever
\* runners Start has left behind or creates later.
StopQuiesces == closed ~> [](\A c \in Runners : AdmittedBy(c) = {})

\* While it is not stopped a started ranker fetches again and again: neither
\* overlapping, failing nor expiring runs end the cron job.
KeepsFetching ==
    []((live # {}) => <>(closed \/ \E r \in Runs : stage[r] = "fetching"))

-----------------------------------------------------------------------------

Delivers(r) == stage[r] = "executing" /\ stage'[r] = "receiving"

\* README.md:119 "Call tRanker.Stop() to stop the task ranker": once Stop has
\* returned the receiver is not called any more.
NoDeliveryAfterStop ==
    [][\A r \in Runs : Delivers(r) => ~(closed /\ owner = "free")]_vars
=============================================================================
