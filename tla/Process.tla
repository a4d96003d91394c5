------------------------------- MODULE Process -------------------------------
(***************************************************************************)
(* A task ranker in its process: the life cycle of Ranker, step by step,   *)
(* together with the one logger all rankers of the process share, Logging. *)
(* The ranker at hand is the first that New makes; others may be made,     *)
(* log and be stopped at any time, each of which concerns its logs too.    *)
(* A call that logs fires the hooks before it goes on.                     *)
(***************************************************************************)
EXTENDS Logging

\* The constants and variables of Ranker: see there.
CONSTANTS Runs, Gaps, MinGap, FetchTimeout, ReceiveTime, MaxStarts
VARIABLES started, live, due, owner, closed, logOpen, stage, by, age, left

\* run -> whether it has logged its ranking, and whether the newest results log has
\* of it what it should
VARIABLE logged

R == INSTANCE Ranker

rankerVars == <<started, live, due, owner, closed, logOpen, stage, by, age, left>>
processVars == <<vars, rankerVars, logged>>

ProcessInit == Init /\ R!Init /\ logged = [r \in Runs |-> "no"]

\* The lines of these topics that can be formatted.
Plain(topics) == [topics |-> topics, fits |-> TRUE]

-----------------------------------------------------------------------------

\* New makes the ranker, or another one, with the logger configured or not.
Make == (New \/ NewUnlogged) /\ UNCHANGED <<rankerVars, logged>>

\* Another ranker logs a line, or is stopped.
Others ==
    /\ news > 1
    /\ Done \/ \E l \in Lines : Log(l)
    /\ UNCHANGED <<rankerVars, logged>>

\* Start logs that it does, then starts a runner.
Start == news > 0 /\ R!Start /\ Log(Plain({"stage"})) /\ UNCHANGED logged

\* Stop logs that it does, closes the channel, stops the runner and closes the
\* logs that were created last.
StopClose == news > 0 /\ R!StopClose /\ Log(Plain({"stage"})) /\ UNCHANGED logged
StopRunner == R!StopRunner /\ UNCHANGED <<vars, logged>>
StopLogger == R!StopLogger /\ Done /\ UNCHANGED logged

\* A run is started and looks at the channel; it logs the data, or the error it
\* gets instead.
Fires == (\E c \in R!Runners : R!Fire(c)) /\ UNCHANGED <<vars, logged>>
Check(r) == R!Check(r) /\ UNCHANGED <<vars, logged>>
Answer(r) == R!Answer(r) /\ Log(Plain(RankerTopics)) /\ UNCHANGED logged
FetchFails(r) ==
    (R!Fail(r) \/ R!Expire(r)) /\ Log(Plain({"stage"})) /\ UNCHANGED logged

\* A run that has something to rank logs the ranking ...
Rank(r) ==
    /\ stage[r] = "executing"
    /\ logged[r] = "no"
    /\ \E l \in Lines : l.topics = ResultTopics /\ Log(l)
    /\ logged' = [logged EXCEPT ![r] = IF Kept' THEN "kept" ELSE "lost"]
    /\ UNCHANGED rankerVars

\* Mutant of Execute: the receiver is called before the ranking is logged.
ExecuteAtOnce(r) ==
    /\ R!Execute(r)
    /\ logged' = [logged EXCEPT ![r] = "no"]
    /\ UNCHANGED vars

\* ... and then calls the receiver with it; others call no receiver.
Execute(r) ==
    /\ R!Execute(r)
    /\ stage'[r] = "receiving" <=> logged[r] # "no"
    /\ logged' = [logged EXCEPT ![r] = "no"]
    /\ UNCHANGED vars

Return(r) == R!Return(r) /\ UNCHANGED <<vars, logged>>
Tick == R!Tick /\ UNCHANGED <<vars, logged>>

ProcessNext ==
    \/ Make \/ Others
    \/ Start \/ StopClose \/ StopRunner \/ StopLogger
    \/ Fires \/ Tick
    \/ \E r \in Runs :
          \/ Check(r) \/ Answer(r) \/ FetchFails(r)
          \/ Rank(r) \/ Execute(r) \/ Return(r)

ProcessSpec == ProcessInit /\ [][ProcessNext]_processVars

-----------------------------------------------------------------------------

\* A ranker alone in its process, for which the logger could be configured.
Alone == news = 1 /\ hooks # <<>>

\* Before the channel is closed nothing closes the logs of a ranker that is alone, so
\* that no ranking is lost; with the invariant of the logger this is inductive.
ProcessIInv ==
    /\ IInv
    /\ news = 0 => /\ hooks = <<>> /\ live = {} /\ ~closed /\ ~done
                   /\ \A r \in Runs : stage[r] = "idle" /\ logged[r] = "no"
    /\ stage \in [Runs -> R!Stages]
    /\ logged \in [Runs -> {"no", "kept", "lost"}]
    /\ owner \in {"closing", "flushing"} => closed
    /\ Alone /\ ~closed => /\ up /\ ~done /\ {rankerLog, resultsLog} \subseteq open
                           /\ \A r \in Runs : logged[r] # "lost"

\* The three statements of Stop are in an order that keeps what is logged: of a
\* ranker alone in its process no run begins a query once the logs are closed.
\* Only the runs that Stop does not wait for are left without.
AdmittedWithLogs ==
    [][\A r \in Runs :
           Alone /\ stage[r] = "spawned" /\ stage'[r] = "fetching"
               => {rankerLog, resultsLog} \subseteq open]_processVars

\* A run logs its ranking before it calls the receiver, and Stop closes the channel
\* before the logs: until then the receiver of a ranker that is alone is called with
\* no ranking that its results log lacks.
DeliveredWithLogs ==
    [][\A r \in Runs :
           Alone /\ ~closed /\ stage[r] = "executing" /\ stage'[r] = "receiving"
               => logged[r] = "kept"]_processVars
=============================================================================
