------------------------------- MODULE Logging -------------------------------
(***************************************************************************)
(* The logs of the task rankers of a process (src/logger): each New of a   *)
(* ranker configures one global logger anew, with two more files and a     *)
(* hook for each; each Stop closes the two files created last.  Hooks are  *)
(* never removed, and logrus stops firing hooks at the first that fails.   *)
(***************************************************************************)
EXTENDS Integers, Sequences

CONSTANTS
    Requested,  \* the names in TASK_RANKER_LOGS_DISABLE_TOPICS
    MaxNews     \* bound on the calls of New

ASSUME MaxNewsAssumption == MaxNews \in Nat

RankerTopics == {"stage", "query", "query_result"}
ResultTopics == {"task_ranking_strategy", "task_ranking_result"}
Topics == RankerTopics \cup ResultTopics

\* FromString makes a name that is unknown, or "other", a topic that is not valid.
Disabled == Requested \cap Topics

\* The lines the rankers log: their topics, and whether JSON can hold them, which it
\* cannot if a weight is no number or infinite.
Lines == [topics : {{"stage"}, RankerTopics}, fits : {TRUE}]
            \cup [topics : {ResultTopics}, fits : BOOLEAN]
NoLine == [topics |-> {}, fits |-> TRUE]

Kinds == {"ranker", "results"}
None == [id |-> 0, kind |-> "none"]   \* a nil *os.File

VARIABLES
    news,        \* the calls of New, which number the files
    hooks,       \* the hooks of the logger, oldest first
    rankerLog,   \* taskRankerLogFile
    resultsLog,  \* taskRankingResultsLogFile
    open,        \* the files that are open
    done,        \* Done was called
    up,          \* the last New has configured the logger, and no Done followed
    line,        \* the line logged just now, or NoLine, and
    written      \* the files it was written to, with what was left of the topics

vars == <<news, hooks, rankerLog, resultsLog, open, done, up, line, written>>

-----------------------------------------------------------------------------

Init ==
    /\ news = 0
    /\ hooks = <<>>
    /\ rankerLog = None /\ resultsLog = None
    /\ open = {}
    /\ done = FALSE
    /\ up = FALSE
    /\ line = NoLine /\ written = {}

File(n, k) == [id |-> n, kind |-> k]

\* Mutants of NewHooks: they are added by the first New only; the results hook
\* takes the queries; they are added before the files are created.
NewHooksOnce(n) ==
    IF n > 1 THEN <<>>
    ELSE <<[file |-> File(n, "ranker"), topics |-> RankerTopics],
           [file |-> File(n, "results"), topics |-> ResultTopics]>>
NewHooksMixed(n) ==
    <<[file |-> File(n, "ranker"), topics |-> RankerTopics],
      [file |-> File(n, "results"), topics |-> ResultTopics \cup {"query"}]>>

NewHooksStale(n) ==
    <<[file |-> File(n - 1, "ranker"), topics |-> RankerTopics],
      [file |-> File(n - 1, "results"), topics |-> ResultTopics]>>

\* The hooks Configure adds.
NewHooks(n) ==
    <<[file |-> File(n, "ranker"), topics |-> RankerTopics],
      [file |-> File(n, "results"), topics |-> ResultTopics]>>

\* New configures the logger.
New ==
    /\ news < MaxNews
    /\ news' = news + 1
    /\ rankerLog' = File(news', "ranker")
    /\ resultsLog' = File(news', "results")
    /\ open' = open \cup {rankerLog', resultsLog'}
    /\ hooks' = hooks \o NewHooks(news')
    /\ up' = TRUE
    /\ line' = NoLine /\ written' = {}
    /\ UNCHANGED done

\* A file is not created: Configure returns the error, for which New calls Done.
\* That closes what the variables refer to, be it of an earlier New, and
\* replaces the error by its own, which is none unless that was closed before;
\* the ranker is returned in either case.
NewUnlogged ==
    /\ news < MaxNews
    /\ news' = news + 1
    /\ \/ rankerLog' = None /\ UNCHANGED resultsLog
       \/ rankerLog' = File(news', "ranker") /\ resultsLog' = None
    /\ open' = open \ {resultsLog'}
    /\ done' = TRUE
    /\ up' = FALSE
    /\ line' = NoLine /\ written' = {}
    /\ UNCHANGED hooks

\* Done, as Stop calls it.
Done ==
    /\ open' = open \ {rankerLog, resultsLog}
    /\ done' = TRUE
    /\ up' = FALSE
    /\ line' = NoLine /\ written' = {}
    /\ UNCHANGED <<news, hooks, rankerLog, resultsLog>>

\* Fire removes the disabled topics of its hook from the entry ...
Strip(data, topics) == data \ (topics \cap Disabled)

\* ... for good: what the k-th hook leaves is what the first k have left.
Remains(data, k) == Strip(data, UNION {hooks[i].topics : i \in 1 .. k})

\* It writes what is left of an entry that still has a topic of the hook ...
Takes(data, k) == Remains(data, k) \cap hooks[k].topics # {}

\* JSON holds what is left of a line.
Formats(l, data) == l.fits \/ "task_ranking_result" \notin data

\* ... and fails if that cannot be formatted, or the file is closed.
Fails(l, k) ==
    /\ Takes(l.topics, k)
    /\ hooks[k].file \in open => ~Formats(l, Remains(l.topics, k))

\* A line is logged: logrus fires the hooks in turn, as long as none fails.
Log(l) ==
    /\ line' = l
    /\ written' = {[file |-> hooks[k].file, topics |-> Remains(l.topics, k)] :
                       k \in {k \in DOMAIN hooks : /\ Takes(l.topics, k)
                                                   /\ \A i \in 1 .. k : ~Fails(l, i)}}
    /\ UNCHANGED <<news, hooks, rankerLog, resultsLog, open, done, up>>

Next == New \/ NewUnlogged \/ Done \/ \E l \in Lines : Log(l)

Spec == Init /\ [][Next]_vars

-----------------------------------------------------------------------------

Files == [id : 1 .. MaxNews, kind : Kinds]

\* Types: hooks and lines refer to files that a New has created.
TypeOK ==
    /\ news \in 0 .. MaxNews
    /\ hooks \in Seq([file : Files, topics : SUBSET Topics])
    /\ {rankerLog, resultsLog} \subseteq Files \cup {None}
    /\ open \subseteq Files
    /\ done \in BOOLEAN
    /\ up \in BOOLEAN
    /\ line \in Lines \cup {NoLine}
    /\ written \subseteq [file : Files, topics : SUBSET Topics]

\* README.md:158-162 "two types of logs": however many loggers were configured,
\* the results logs hold ranking results only and the others none of them, and
\* no disabled topic is in either.
LogsAreSeparate ==
    \A w \in written :
        w.topics \subseteq (IF w.file.kind = "results" THEN ResultTopics ELSE RankerTopics)
                           \ Disabled

\* The line has reached the newest file of its type, unless it is disabled or JSON
\* cannot hold it.
Kept ==
    LET rest == line.topics \ Disabled
    IN  rest # {} /\ Formats(line, rest) =>
            \E w \in written :
                w.file = File(news, IF line.topics = ResultTopics THEN "results" ELSE "ranker")

\* As long as no logger was closed, in any order of New and logging, a line of
\* any ranker reaches the newest file of its type.
KeptUntilDone == up /\ ~done => Kept

-----------------------------------------------------------------------------

\* Every hook takes the topics of the kind of its file.
HooksByKind ==
    \A i \in DOMAIN hooks :
        hooks[i].topics = IF hooks[i].file.kind = "results" THEN ResultTopics ELSE RankerTopics

\* Until a logger is closed no hook has a closed file ...
HooksOpen == ~done => \A i \in DOMAIN hooks : hooks[i].file \in open

\* ... and the newest files have hooks.
HooksNewest ==
    up => \A kind \in Kinds : \E i \in DOMAIN hooks : hooks[i].file = File(news, kind)

\* The inductive invariant of the logger: what is written follows from the hooks.
IInv ==
    /\ TypeOK
    /\ HooksByKind /\ HooksOpen /\ HooksNewest
    /\ LogsAreSeparate /\ KeptUntilDone

-----------------------------------------------------------------------------

\* README.md:160-162 "These logs are written to a file": a line that is logged
\* between a New and the next Done is kept.
EveryLineIsKept == up => Kept
=============================================================================
