---------------------------- MODULE ProcessProofs ----------------------------
(***************************************************************************)
(* Proofs about Logging and Process, for every set of disabled topics, any *)
(* number of rankers and every schedule: the invariant of the logger, that *)
(* a process drives the ranker and the logger by steps of their own, and   *)
(* what the order of the statements of Stop makes of the logs.             *)
(***************************************************************************)
EXTENDS Process, TLAPS

-----------------------------------------------------------------------------
(* The logger *)

\* The two kinds of lines: those of the ranker, and the rankings.
LEMMA LinesByKind ==
    /\ \A l \in Lines : l.topics \subseteq RankerTopics \/ l.topics = ResultTopics
    /\ \A l \in Lines : l.topics = ResultTopics \/ l.fits
    /\ RankerTopics \cap ResultTopics = {}
    /\ {"stage"} # ResultTopics /\ RankerTopics # ResultTopics
    /\ RankerTopics \subseteq Topics /\ ResultTopics \subseteq Topics
BY DEF Lines, RankerTopics, ResultTopics, Topics

\* A hook that still finds one of its topics in a line has those of all of it,
\* and what it writes is what is not disabled.
LEMMA WhatAHookTakes ==
    ASSUME TypeOK, HooksByKind, NEW l \in Lines, NEW topics, topics = l.topics,
           NEW k \in DOMAIN hooks, Takes(topics, k)
    PROVE  /\ topics \subseteq hooks[k].topics
           /\ Remains(topics, k) = topics \ Disabled
<1>1. topics \subseteq hooks[k].topics
  <2>1. \E t \in topics : t \in hooks[k].topics
    BY DEF Takes, Remains, Strip
  <2>2. hooks[k].topics \in {ResultTopics, RankerTopics}
    BY DEF HooksByKind
  <2> QED BY <2>1, <2>2, LinesByKind
<1>2. k \in 1 .. k
  BY DEF TypeOK
<1> QED BY <1>1, <1>2 DEF Remains, Strip

\* A hook with the topics of a line takes the line, unless all of it is disabled.
LEMMA WhoTakes ==
    ASSUME NEW topics, NEW k \in DOMAIN hooks,
           topics \subseteq hooks[k].topics, topics \ Disabled # {}
    PROVE  Takes(topics, k)
BY DEF Takes, Remains, Strip

\* What the invariant of the logger says of the hooks.
Hooked == TypeOK /\ HooksByKind /\ HooksOpen /\ HooksNewest

\* An element of a sequence is of the type of the elements.
LEMMA ElementOfSeq ==
    ASSUME NEW S, NEW s \in Seq(S), NEW i \in DOMAIN s
    PROVE  s[i] \in S
OBVIOUS

\* The hooks write to files that a New has created.
LEMMA FilesOfHooks == ASSUME TypeOK PROVE \A k \in DOMAIN hooks : hooks[k].file \in Files
<1> DEFINE Hook == [file : Files, topics : SUBSET Topics]
<1>1. \A x \in Hook : x.file \in Files
  OBVIOUS
<1>2. hooks \in Seq(Hook)
  BY DEF TypeOK
<1> HIDE DEF Hook
<1> QED BY <1>1, <1>2, ElementOfSeq

\* No step of New, Done or logging makes a state that is not of the types.
LEMMA TypesKept == ASSUME TypeOK, HooksByKind, Next PROVE TypeOK'
<1> USE MaxNewsAssumption DEF TypeOK, Files, Kinds, File, None
<1>1. ASSUME news < MaxNews
      PROVE  news + 1 \in 0 .. MaxNews /\ \A kind \in Kinds : File(news + 1, kind) \in Files
  BY <1>1
<1>2. CASE New
  <2>1. NewHooks(news') \in Seq([file : Files, topics : SUBSET Topics])
    BY <1>1, <1>2, LinesByKind DEF New, NewHooks
  <2>2. hooks' \in Seq([file : Files, topics : SUBSET Topics])
    BY <1>2, <2>1 DEF New
  <2> QED BY <1>1, <1>2, <2>2 DEF New
<1>3. CASE NewUnlogged
  BY <1>1, <1>3 DEF NewUnlogged
<1>4. CASE Done
  BY <1>4 DEF Done
<1>5. ASSUME NEW l \in Lines, Log(l) PROVE TypeOK'
  <2>1. l.topics \subseteq Topics
    BY LinesByKind
  <2>2. \A k \in DOMAIN hooks : /\ hooks[k].file \in Files
                                /\ Remains(l.topics, k) \subseteq Topics
    <3>1. \A k : Remains(l.topics, k) \subseteq Topics
      BY <2>1 DEF Remains, Strip
    <3> QED BY <3>1, FilesOfHooks
  <2>3. written' \subseteq [file : Files, topics : SUBSET Topics]
    BY <1>5, <2>2 DEF Log
  <2> QED BY <1>5, <2>3 DEF Log
<1> QED BY <1>2, <1>3, <1>4, <1>5 DEF Next

\* The hooks New adds come behind the others and belong to its files.
LEMMA HooksAdded ==
    ASSUME TypeOK, New
    PROVE  /\ \A i \in DOMAIN hooks' :
                  IF i \in DOMAIN hooks THEN hooks'[i] = hooks[i]
                  ELSE \/ hooks'[i] = [file |-> rankerLog', topics |-> RankerTopics]
                       \/ hooks'[i] = [file |-> resultsLog', topics |-> ResultTopics]
           /\ \E i \in DOMAIN hooks' : hooks'[i].file = rankerLog'
           /\ \E i \in DOMAIN hooks' : hooks'[i].file = resultsLog'
<1> DEFINE n == Len(hooks)
           a == [file |-> rankerLog', topics |-> RankerTopics]
           b == [file |-> resultsLog', topics |-> ResultTopics]
<1>1. hooks' = hooks \o <<a, b>>
  BY DEF New, NewHooks
<1>2. n \in Nat /\ DOMAIN hooks = 1 .. n /\ DOMAIN hooks' = 1 .. n + 2
  BY <1>1 DEF TypeOK
<1>3. /\ \A i \in 1 .. n : hooks'[i] = hooks[i]
      /\ hooks'[n + 1] = a /\ hooks'[n + 2] = b
  BY <1>1, <1>2 DEF TypeOK
<1>4. /\ \A i \in 1 .. n + 2 : i \in 1 .. n \/ i = n + 1 \/ i = n + 2
      /\ n + 1 \in 1 .. n + 2 /\ n + 2 \in 1 .. n + 2
  BY <1>2
<1> HIDE DEF n
<1> QED BY <1>2, <1>3, <1>4

\* Every step leaves the hooks with files that are open until a logger is closed,
\* of their own kind, and the newest among them.
LEMMA HooksKept ==
    ASSUME Hooked, Next
    PROVE  HooksByKind' /\ HooksOpen' /\ HooksNewest'
<1> USE DEF Hooked
<1>1. CASE New
  <2>1. rankerLog' = File(news', "ranker") /\ resultsLog' = File(news', "results")
    BY <1>1 DEF New
  <2>2. HooksByKind'
    BY <1>1, <2>1, HooksAdded DEF HooksByKind, File
  <2>3. HooksOpen'
    BY <1>1, HooksAdded DEF HooksOpen, New
  <2>4. HooksNewest'
    BY <1>1, <2>1, HooksAdded DEF HooksNewest, Kinds
  <2> QED BY <2>2, <2>3, <2>4
<1>2. CASE NewUnlogged
  BY <1>2 DEF NewUnlogged, HooksByKind, HooksOpen, HooksNewest
<1>3. CASE Done
  BY <1>3 DEF Done, HooksByKind, HooksOpen, HooksNewest
<1>4. ASSUME NEW l \in Lines, Log(l)
      PROVE  HooksByKind' /\ HooksOpen' /\ HooksNewest'
  BY <1>4 DEF Log, HooksByKind, HooksOpen, HooksNewest
<1> QED BY <1>1, <1>2, <1>3, <1>4 DEF Next

\* A line that is logged goes to files of its kind, without what is disabled.
LEMMA LineSeparate ==
    ASSUME Hooked, NEW l \in Lines, Log(l)
    PROVE  LogsAreSeparate'
<1> SUFFICES ASSUME NEW w \in written'
             PROVE  w.topics \subseteq
                        (IF w.file.kind = "results" THEN ResultTopics ELSE RankerTopics) \ Disabled
  BY DEF LogsAreSeparate
<1>1. PICK k \in DOMAIN hooks : /\ Takes(l.topics, k)
                                /\ w = [file |-> hooks[k].file, topics |-> Remains(l.topics, k)]
  BY DEF Log
<1>2. l.topics \subseteq hooks[k].topics /\ Remains(l.topics, k) = l.topics \ Disabled
  BY <1>1, WhatAHookTakes DEF Hooked
<1> QED BY <1>1, <1>2 DEF Hooked, HooksByKind

\* A line that is logged before a logger is closed, and that JSON can hold, is in the
\* newest file of its kind.
LEMMA LineKept ==
    ASSUME Hooked, NEW l \in Lines, Log(l), up, ~done, l.topics \ Disabled # {},
           Formats(l, l.topics \ Disabled)
    PROVE  Kept'
<1> DEFINE kind == IF l.topics = ResultTopics THEN "results" ELSE "ranker"
<1>1. PICK i \in DOMAIN hooks : hooks[i].file = File(news, kind)
  BY DEF Hooked, HooksNewest, Kinds
<1>2. l.topics \subseteq hooks[i].topics
  <2>1. hooks[i].topics = IF kind = "results" THEN ResultTopics ELSE RankerTopics
    BY <1>1 DEF Hooked, HooksByKind, File
  <2> QED BY <2>1, LinesByKind
<1>3. Takes(l.topics, i)
  BY <1>2, WhoTakes
<1>4. ASSUME NEW j \in 1 .. i PROVE ~Fails(l, j)
  <2>1. j \in DOMAIN hooks
    BY DEF Hooked, TypeOK
  <2>2. ASSUME Takes(l.topics, j) PROVE Formats(l, Remains(l.topics, j))
    BY <2>1, <2>2, WhatAHookTakes DEF Hooked
  <2> QED BY <2>1, <2>2 DEF Hooked, HooksOpen, Fails
<1>5. [file |-> hooks[i].file, topics |-> Remains(l.topics, i)] \in written'
  BY <1>3, <1>4 DEF Log
<1>6. \E w \in written' : w.file = File(news, kind)
  BY <1>1, <1>5
<1>7. line' = l /\ news' = news
  BY DEF Log
<1> QED BY <1>6, <1>7 DEF Kept

\* Initially there are no hooks.
LEMMA LoggerInit == ASSUME Init PROVE IInv
<1>1. TypeOK
  <2>1. news \in 0 .. MaxNews
    BY MaxNewsAssumption DEF Init
  <2>2. \A S : <<>> \in Seq(S)
    OBVIOUS
  <2> QED BY <2>1, <2>2, Zenon DEF Init, TypeOK
<1>2. DOMAIN hooks = {}
  BY DEF Init
<1>3. HooksByKind /\ HooksOpen /\ HooksNewest
  BY <1>2 DEF Init, HooksByKind, HooksOpen, HooksNewest
<1>4. LogsAreSeparate /\ KeptUntilDone
  BY DEF Init, LogsAreSeparate, KeptUntilDone
<1> QED BY <1>1, <1>3, <1>4 DEF IInv

\* Every step keeps the invariant of the logger.
LEMMA LoggerNext == ASSUME IInv, Next PROVE IInv'
<1>1. Hooked
  BY DEF IInv, Hooked
<1>2. TypeOK' /\ HooksByKind' /\ HooksOpen' /\ HooksNewest'
  BY <1>1, TypesKept, HooksKept DEF Hooked
<1>3. LogsAreSeparate' /\ KeptUntilDone'
  <2>1. CASE New \/ NewUnlogged \/ Done
    <3>1. line' = NoLine /\ written' = {}
      BY <2>1 DEF New, NewUnlogged, Done
    <3> QED BY <3>1 DEF LogsAreSeparate, KeptUntilDone, Kept, NoLine
  <2>2. ASSUME NEW l \in Lines, Log(l)
        PROVE  LogsAreSeparate' /\ KeptUntilDone'
    <3>1. LogsAreSeparate'
      BY <1>1, <2>2, LineSeparate
    <3>2. line' = l /\ up' = up /\ done' = done
      BY <2>2 DEF Log
    <3>3. KeptUntilDone'
      <4> DEFINE rest == l.topics \ Disabled
      <4>1. CASE up /\ ~done /\ rest # {} /\ Formats(l, rest)
        BY <1>1, <2>2, <4>1, LineKept DEF KeptUntilDone
      <4>2. CASE ~(up /\ ~done /\ rest # {} /\ Formats(l, rest))
        BY <3>2, <4>2 DEF KeptUntilDone, Kept
      <4> QED BY <4>1, <4>2
    <3> QED BY <3>1, <3>3
  <2> QED BY <2>1, <2>2 DEF Next
<1> QED BY <1>2, <1>3 DEF IInv

\* Nor does it depend on anything but the variables of the logger.
LEMMA LoggerStutters == ASSUME IInv, UNCHANGED vars PROVE IInv'
BY DEF vars, IInv, TypeOK, HooksByKind, HooksOpen, HooksNewest, LogsAreSeparate,
       KeptUntilDone, Kept

\* In any order of New, logging and Done the logger keeps its invariant: the
\* hooks of all the files belong to their kind, none has a closed file until a
\* logger is closed, and so the lines are where they belong.
THEOREM LoggerInductive == Spec => []IInv
BY LoggerInit, LoggerNext, LoggerStutters, PTL DEF Spec

\* The hooks and the logs are of files that were created.
THEOREM LoggerTypes == Spec => []TypeOK
<1>1. IInv => TypeOK
  BY DEF IInv
<1> QED BY <1>1, LoggerInductive, PTL

\* README.md:158-162: rankings and other lines never mix, however often the
\* logger is configured, and no disabled topic is written.
THEOREM LogsNeverMix == Spec => []LogsAreSeparate
<1>1. IInv => LogsAreSeparate
  BY DEF IInv
<1> QED BY <1>1, LoggerInductive, PTL

\* Until a logger is closed every line reaches the newest file of its kind.
THEOREM LinesAreKept == Spec => []KeptUntilDone
<1>1. IInv => KeptUntilDone
  BY DEF IInv
<1> QED BY <1>1, LoggerInductive, PTL

-----------------------------------------------------------------------------
(* The process *)

\* The lines a ranker logs are lines of the logger.
LEMMA RankerLines == \A topics \in {{"stage"}, RankerTopics} : Plain(topics) \in Lines
BY DEF Lines, Plain

\* A step of the process is one of the logger or leaves the logger alone, ...
LEMMA LoggerSteps == ASSUME ProcessNext PROVE Next \/ UNCHANGED vars
BY RankerLines
DEF ProcessNext, Next, Make, Others, Start, StopClose, StopRunner, StopLogger, Fires, Tick,
    Check, Answer, FetchFails, Rank, Execute, Return

\* ... and one of the ranker or leaves the ranker alone.
LEMMA RankerSteps == ASSUME ProcessNext PROVE R!Next \/ UNCHANGED rankerVars
BY DEF ProcessNext, R!Next, R!RunStep, Make, Others, Start, StopClose, StopRunner, StopLogger,
       Fires, Tick, Check, Answer, FetchFails, Rank, Execute, Return

\* In a process the logger is driven as Logging says, ...
THEOREM ProcessLogs == ProcessSpec => Spec
<1>1. ProcessInit => Init
  BY DEF ProcessInit
<1>2. [ProcessNext]_processVars => [Next]_vars
  BY LoggerSteps DEF processVars
<1> QED BY <1>1, <1>2, PTL DEF ProcessSpec, Spec

\* ... and the ranker as Ranker says: that its calls log, and wait for the hooks,
\* adds nothing to what it does.
THEOREM ProcessRanks == ProcessSpec => R!Init /\ [][R!Next]_R!vars
<1>1. ProcessInit => R!Init
  BY DEF ProcessInit
<1>2. [ProcessNext]_processVars => [R!Next]_R!vars
  BY RankerSteps DEF processVars, rankerVars, R!vars
<1> QED BY <1>1, <1>2, PTL DEF ProcessSpec

\* The types of the ranker that the logs depend on.
RankerTypes == stage \in [Runs -> R!Stages]

\* What is known of the rankings that were logged.
LoggedTypes == logged \in [Runs -> {"no", "kept", "lost"}]

\* Every step of the ranker keeps the stages.
LEMMA StagesKept == ASSUME RankerTypes, R!Next \/ UNCHANGED rankerVars PROVE RankerTypes'
<1> USE DEF RankerTypes, R!Stages
<1>1. CASE R!Start \/ R!StopClose \/ R!StopRunner \/ R!StopLogger \/ R!Tick
  BY <1>1 DEF R!Start, R!StopClose, R!StopRunner, R!StopLogger, R!Tick
<1>2. ASSUME NEW c \in R!Runners, R!Fire(c) PROVE RankerTypes'
  BY <1>2 DEF R!Fire
<1>3. ASSUME NEW r \in Runs, R!RunStep(r) PROVE RankerTypes'
  BY <1>3 DEF R!RunStep, R!Check, R!Answer, R!Fail, R!Expire, R!Execute, R!Return, R!Finish
<1>4. CASE UNCHANGED rankerVars
  BY <1>4 DEF rankerVars
<1> QED BY <1>1, <1>2, <1>3, <1>4 DEF R!Next

\* Whatever else runs, only the first statement of Stop closes the channel, and
\* the caller passes it before the others.
LEMMA ClosedFirst ==
    ASSUME owner \in {"closing", "flushing"} => closed, R!Next \/ UNCHANGED rankerVars
    PROVE  /\ owner' \in {"closing", "flushing"} => closed'
           /\ closed => closed'
<1>1. CASE R!Start \/ R!StopClose \/ R!StopRunner \/ R!StopLogger \/ R!Tick
  BY <1>1 DEF R!Start, R!StopClose, R!StopRunner, R!StopLogger, R!Tick, R!caller
<1>2. ASSUME NEW c \in R!Runners, R!Fire(c) PROVE UNCHANGED R!caller
  BY <1>2 DEF R!Fire
<1>3. ASSUME NEW r \in Runs, R!RunStep(r) PROVE UNCHANGED R!caller
  BY <1>3 DEF R!RunStep, R!Check, R!Answer, R!Fail, R!Expire, R!Execute, R!Return
<1>4. CASE UNCHANGED rankerVars
  BY <1>4 DEF rankerVars
<1> QED BY <1>1, <1>2, <1>3, <1>4 DEF R!Next, R!caller

\* Before the first New there is nothing to log for; a ranker that is alone and not
\* being stopped has its logs, and has lost no ranking.
BeforeNew == news = 0 => /\ hooks = <<>> /\ live = {} /\ ~closed /\ ~done
                         /\ \A r \in Runs : stage[r] = "idle" /\ logged[r] = "no"
LogsWhileAlone ==
    Alone /\ ~closed => /\ up /\ ~done /\ {rankerLog, resultsLog} \subseteq open
                        /\ \A r \in Runs : logged[r] # "lost"

\* The first New begins with no hooks, no runs and no rankings.
LEMMA BeforeNewKept ==
    ASSUME TypeOK, BeforeNew, owner \in {"closing", "flushing"} => closed, ProcessNext
    PROVE  BeforeNew'
<1>1. news \in Nat
  BY MaxNewsAssumption DEF TypeOK
<1>2. CASE Make
  <2>1. news' = news + 1
    BY <1>2 DEF Make, New, NewUnlogged
  <2> QED BY <1>1, <2>1 DEF BeforeNew
<1>3. CASE news # 0 /\ ~Make
  <2>1. news' = news
    BY <1>3 DEF ProcessNext, Others, Start, StopClose, StopRunner, StopLogger, Fires, Tick, Check,
                Answer, FetchFails, Rank, Execute, Return, Done, Log, vars
  <2> QED BY <1>3, <2>1 DEF BeforeNew
<1>4. CASE news = 0 /\ ~Make
  <2>1. \A r \in Runs : stage[r] = "idle"
    BY <1>4 DEF BeforeNew
  <2>2. ~Others /\ ~Start /\ ~StopClose
    BY <1>4, <1>1 DEF Others, Start, StopClose
  <2>3. ~Fires
    BY <1>4 DEF Fires, R!Fire, BeforeNew
  <2>4. ASSUME NEW r \in Runs
        PROVE  ~Check(r) /\ ~Answer(r) /\ ~FetchFails(r) /\ ~Rank(r) /\ ~Execute(r) /\ ~Return(r)
    BY <2>1 DEF Check, Answer, FetchFails, Rank, Execute, Return, R!Check, R!Answer, R!Fail,
                R!Expire, R!Execute, R!Return
  <2>5. ~StopRunner /\ ~StopLogger
    BY <1>4 DEF StopRunner, StopLogger, R!StopRunner, R!StopLogger, BeforeNew
  <2>6. CASE Tick
    BY <1>4, <2>6 DEF Tick, R!Tick, R!caller, vars, BeforeNew
  <2> QED BY <1>4, <2>2, <2>3, <2>4, <2>5, <2>6 DEF ProcessNext
<1> QED BY <1>2, <1>3, <1>4

\* No step but the last of Stop closes the logs of a ranker that is alone.
LEMMA LogsWhileAloneKept ==
    ASSUME IInv, BeforeNew, LogsWhileAlone, owner \in {"closing", "flushing"} => closed,
           logged \in [Runs -> {"no", "kept", "lost"}], ProcessNext
    PROVE  LogsWhileAlone'
<1>1. news \in Nat
  BY MaxNewsAssumption DEF IInv, TypeOK
<1>2. closed => closed'
  BY RankerSteps, ClosedFirst
<1>3. CASE Make
  <2>1. news' = news + 1 /\ logged' = logged
    BY <1>3 DEF Make, New, NewUnlogged
  <2>2. news' # 0 /\ (news' = 1 => news = 0)
    BY <1>1, <2>1
  <2>3. CASE New
    <3> SUFFICES ASSUME news = 0 PROVE LogsWhileAlone'
      BY <2>2 DEF LogsWhileAlone, Alone
    <3> QED BY <2>1, <2>3 DEF New, LogsWhileAlone, BeforeNew
  <2>4. CASE NewUnlogged
    BY <2>2, <2>4 DEF NewUnlogged, BeforeNew, LogsWhileAlone, Alone
  <2> QED BY <1>3, <2>3, <2>4 DEF Make
<1>4. CASE Others
  <2>1. news' = news /\ news > 1
    BY <1>4 DEF Others, Done, Log
  <2>2. news' # 1
    BY <1>1, <2>1
  <2> QED BY <2>2 DEF LogsWhileAlone, Alone
<1>5. CASE StopLogger
  <2>1. closed
    BY <1>5 DEF StopLogger, R!StopLogger
  <2> QED BY <1>2, <2>1 DEF LogsWhileAlone
<1>6. ASSUME NEW r \in Runs, Rank(r) PROVE LogsWhileAlone'
  <2> SUFFICES ASSUME Alone', ~closed'
               PROVE  /\ (up /\ ~done /\ {rankerLog, resultsLog} \subseteq open)'
                      /\ \A s \in Runs : logged'[s] # "lost"
    BY DEF LogsWhileAlone
  <2>1. UNCHANGED <<news, hooks, rankerLog, resultsLog, open, done, up, closed>>
    BY <1>6 DEF Rank, Log, rankerVars
  <2>2. /\ up /\ ~done /\ {rankerLog, resultsLog} \subseteq open
        /\ \A s \in Runs : logged[s] # "lost"
    BY <2>1 DEF Alone, LogsWhileAlone
  <2>3. IInv'
    BY LoggerSteps, LoggerNext, LoggerStutters
  <2>4. Kept'
    BY <2>1, <2>2, <2>3 DEF IInv, KeptUntilDone
  <2>5. logged' = [logged EXCEPT ![r] = "kept"]
    BY <1>6, <2>4 DEF Rank
  <2> QED BY <2>1, <2>2, <2>5
<1>7. ASSUME NEW r \in Runs, Execute(r) PROVE LogsWhileAlone'
  <2>1. /\ UNCHANGED <<news, hooks, rankerLog, resultsLog, open, done, up>>
        /\ logged' = [logged EXCEPT ![r] = "no"]
    BY <1>7 DEF Execute, vars
  <2> QED BY <1>2, <2>1 DEF LogsWhileAlone, Alone
<1>8. CASE UNCHANGED <<news, hooks, rankerLog, resultsLog, open, done, up, logged>>
  BY <1>2, <1>8 DEF LogsWhileAlone, Alone
<1>9. \/ Make \/ Others \/ StopLogger
      \/ \E r \in Runs : Rank(r) \/ Execute(r)
      \/ UNCHANGED <<news, hooks, rankerLog, resultsLog, open, done, up, logged>>
  BY DEF ProcessNext, Start, StopClose, StopRunner, Fires, Tick, Check, Answer, FetchFails,
         Return, Log, vars
<1> QED BY <1>3, <1>4, <1>5, <1>6, <1>7, <1>8, <1>9

\* The invariant of the process in the parts the lemmas are about.
LEMMA ProcessParts ==
    ProcessIInv <=> /\ IInv
                    /\ BeforeNew /\ LogsWhileAlone
                    /\ RankerTypes /\ LoggedTypes
                    /\ owner \in {"closing", "flushing"} => closed
BY DEF ProcessIInv, BeforeNew, LogsWhileAlone, RankerTypes, LoggedTypes

\* Nothing has been created, started or logged.
LEMMA ProcessStarts == ASSUME ProcessInit PROVE ProcessIInv
<1>1. IInv
  BY LoggerInit DEF ProcessInit
<1>2. news = 0 /\ hooks = <<>> /\ ~done /\ R!Init /\ logged = [r \in Runs |-> "no"]
  BY DEF ProcessInit, Init
<1>3. RankerTypes /\ LoggedTypes /\ BeforeNew /\ owner = "free"
  BY <1>2 DEF RankerTypes, LoggedTypes, BeforeNew, R!Init, R!Stages
<1>4. LogsWhileAlone
  BY <1>2 DEF LogsWhileAlone, Alone
<1> QED BY <1>1, <1>3, <1>4, ProcessParts

\* Only Rank and Execute change what is known of the rankings that were logged.
LEMMA LoggedKept == ASSUME LoggedTypes, ProcessNext PROVE LoggedTypes'
BY DEF LoggedTypes, ProcessNext, Make, Others, Start, StopClose, StopRunner, StopLogger, Fires,
       Tick, Check, Answer, FetchFails, Rank, Execute, Return

\* Every step of the process keeps its invariant.
LEMMA ProcessSteps == ASSUME ProcessIInv, [ProcessNext]_processVars PROVE ProcessIInv'
<1>1. CASE ProcessNext
  <2>1. IInv'
    BY <1>1, ProcessParts, LoggerSteps, LoggerNext, LoggerStutters
  <2>2. RankerTypes' /\ (owner' \in {"closing", "flushing"} => closed')
    BY <1>1, ProcessParts, RankerSteps, StagesKept, ClosedFirst
  <2>3. LoggedTypes'
    BY <1>1, ProcessParts, LoggedKept
  <2>4. BeforeNew'
    BY <1>1, ProcessParts, BeforeNewKept DEF IInv
  <2>5. LogsWhileAlone'
    BY <1>1, ProcessParts, LogsWhileAloneKept DEF LoggedTypes
  <2> QED BY <2>1, <2>2, <2>3, <2>4, <2>5
          DEF ProcessIInv, BeforeNew, LogsWhileAlone, RankerTypes, LoggedTypes
<1>2. CASE UNCHANGED processVars
  <2>1. IInv'
    BY <1>2, LoggerStutters DEF processVars, ProcessIInv
  <2> QED BY <1>2, <2>1 DEF processVars, vars, rankerVars, ProcessIInv, Alone
<1> QED BY <1>1, <1>2

\* The ranker and the logger together keep their invariant.
THEOREM ProcessInductive == ProcessSpec => []ProcessIInv
BY ProcessStarts, ProcessSteps, PTL DEF ProcessSpec

\* Only Check lets a run pass, and only while the channel is open.
LEMMA AdmittedOpen ==
    ASSUME RankerTypes, R!Next \/ UNCHANGED rankerVars, NEW r \in Runs,
           stage[r] = "spawned", stage'[r] = "fetching"
    PROVE  ~closed
<1> USE DEF RankerTypes, R!Stages
<1>1. CASE R!Start \/ R!StopClose \/ R!StopRunner \/ R!StopLogger \/ R!Tick
  BY <1>1 DEF R!Start, R!StopClose, R!StopRunner, R!StopLogger, R!Tick
<1>2. ASSUME NEW c \in R!Runners, R!Fire(c) PROVE ~closed
  BY <1>2 DEF R!Fire
<1>3. ASSUME NEW s \in Runs, R!RunStep(s) PROVE ~closed
  BY <1>3 DEF R!RunStep, R!Check, R!Terminated, R!Answer, R!Fail, R!Expire, R!Execute, R!Return,
              R!Finish
<1>4. CASE UNCHANGED rankerVars
  BY <1>4 DEF rankerVars
<1> QED BY <1>1, <1>2, <1>3, <1>4 DEF R!Next

\* Stop closes the channel before the logs: of a ranker that is alone in its
\* process no run begins a query once the logs are closed.
THEOREM AdmittedLogged == ProcessSpec => AdmittedWithLogs
<1> DEFINE Admitted == \A r \in Runs :
               Alone /\ stage[r] = "spawned" /\ stage'[r] = "fetching"
                   => {rankerLog, resultsLog} \subseteq open
<1>1. ASSUME ProcessIInv, [ProcessNext]_processVars PROVE [Admitted]_processVars
  <2>1. R!Next \/ UNCHANGED rankerVars
    BY <1>1, RankerSteps DEF processVars
  <2> QED BY <1>1, <2>1, ProcessParts, AdmittedOpen DEF LogsWhileAlone
<1> QED BY <1>1, ProcessInductive, PTL DEF ProcessSpec, AdmittedWithLogs

\* Only Execute of a run calls the receiver for it, once it has logged the ranking.
LEMMA DeliveredLogged ==
    ASSUME RankerTypes, ProcessNext, NEW r \in Runs,
           stage[r] = "executing", stage'[r] = "receiving"
    PROVE  logged[r] # "no"
<1> USE DEF RankerTypes, R!Stages
<1>1. CASE Make \/ Others
  BY <1>1 DEF Make, Others, rankerVars
<1>2. CASE Start \/ StopClose \/ StopRunner \/ StopLogger \/ Tick
  BY <1>2 DEF Start, StopClose, StopRunner, StopLogger, Tick,
              R!Start, R!StopClose, R!StopRunner, R!StopLogger, R!Tick
<1>3. CASE Fires
  BY <1>3 DEF Fires, R!Fire
<1>4. ASSUME NEW s \in Runs, Check(s) \/ Answer(s) \/ FetchFails(s) \/ Return(s)
      PROVE  FALSE
  BY <1>4 DEF Check, Answer, FetchFails, Return, R!Check, R!Answer, R!Fail, R!Expire, R!Return,
              R!Finish
<1>5. ASSUME NEW s \in Runs, Rank(s) PROVE FALSE
  BY <1>5 DEF Rank, rankerVars
<1>6. ASSUME NEW s \in Runs, Execute(s) PROVE logged[r] # "no"
  <2>1. s = r
    BY <1>6 DEF Execute, R!Execute, R!Finish
  <2> QED BY <1>6, <2>1 DEF Execute
<1> QED BY <1>1, <1>2, <1>3, <1>4, <1>5, <1>6 DEF ProcessNext

\* Until Stop closes the channel the results log of a ranker that is alone has every
\* ranking its receiver is called with: Run logs before it delivers, and nothing but
\* the last statement of Stop closes the log.
THEOREM DeliveredLogs == ProcessSpec => DeliveredWithLogs
<1> DEFINE Delivered == \A r \in Runs :
               Alone /\ ~closed /\ stage[r] = "executing" /\ stage'[r] = "receiving"
                   => logged[r] = "kept"
<1>1. ASSUME ProcessIInv, [ProcessNext]_processVars PROVE [Delivered]_processVars
  <2>1. ASSUME ProcessNext, NEW r \in Runs, Alone, ~closed,
               stage[r] = "executing", stage'[r] = "receiving"
        PROVE  logged[r] = "kept"
    <3>1. logged[r] # "no"
      BY <1>1, <2>1, ProcessParts, DeliveredLogged
    <3>2. logged[r] # "lost"
      BY <1>1, <2>1, ProcessParts DEF LogsWhileAlone
    <3> QED BY <1>1, <3>1, <3>2, ProcessParts DEF LoggedTypes
  <2> QED BY <1>1, <2>1
<1> QED BY <1>1, ProcessInductive, PTL DEF ProcessSpec, DeliveredWithLogs
=============================================================================
