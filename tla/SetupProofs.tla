----------------------------- MODULE SetupProofs -----------------------------
(***************************************************************************)
(* Proofs about Setup: what a call of Build and a call of New leave,       *)
(* however long their lists of options, and what rankers of strategies of  *)
(* their own may count on.                                                 *)
(***************************************************************************)
EXTENDS Setup, TLAPS

BuildFold == INSTANCE FoldProofs WITH Op <- StrategyOption
NewFold == INSTANCE FoldProofs WITH Op <- Option

-----------------------------------------------------------------------------
(* Options in a list.                                                      *)

\* Induction over the length of a prefix, as FoldProofs has it.
LEMMA NatInSet ==
    ASSUME NEW S, 0 \in S, \A n \in Nat : n \in S => n + 1 \in S
    PROVE  Nat \subseteq S
BY BuildFold!NatInSet

\* The greatest of a set of indices.
LEMMA MaxInSet ==
    ASSUME NEW n \in Nat, NEW t \in SUBSET (1 .. n), t # {}
    PROVE  Max(t) \in t /\ \A j \in t : Max(t) >= j
<1>1. Max(t) = BuildFold!Max(t)
  BY DEF Max, BuildFold!Max
<1>2. Max(t) \in t
  BY <1>1, BuildFold!MaxExists
<1>3. PICK k \in t : \A j \in t : k >= j
  BY BuildFold!MaxAbove
<1>4. Max(t) = k
  BY <1>1, <1>3, BuildFold!MaxIndex
<1> QED BY <1>2, <1>3, <1>4

\* The least of a set of indices.
LEMMA MinInSet ==
    ASSUME NEW n \in Nat, NEW t \in SUBSET (1 .. n), t # {}
    PROVE  Min(t) \in t
<1>1. Min(t) = BuildFold!Min(t)
  BY DEF Min, BuildFold!Min
<1> QED BY <1>1, BuildFold!MinExists

\* Among the first k options of s, i is the newest of its kind; none is of kind op.
Newest(s, op, k, i) ==
    i \in 1 .. k /\ s[i].op = op /\ \A j \in i + 1 .. k : s[j].op # op
NoneOf(s, op, k) == \A i \in 1 .. k : s[i].op # op

\* The option of a kind that counts is the newest of the whole list.
LEMMA LastIsNewest ==
    ASSUME NEW S, NEW s \in Seq(S), NEW op, Given(s, op) # {}
    PROVE  \E i \in 1 .. Len(s) : LastOption(s, op) = s[i] /\ Newest(s, op, Len(s), i)
<1> DEFINE i == Max(Given(s, op))
<1>1. Given(s, op) \in SUBSET (1 .. Len(s)) /\ Len(s) \in Nat
  BY DEF Given
<1>2. i \in Given(s, op) /\ \A j \in Given(s, op) : i >= j
  BY <1>1, MaxInSet
<1>3. LastOption(s, op) = s[i]
  BY DEF LastOption
<1> HIDE DEF i
<1>4. i \in 1 .. Len(s) /\ s[i].op = op
  BY <1>2 DEF Given
<1>5. ASSUME NEW j \in i + 1 .. Len(s) PROVE s[j].op # op
  <2>1. j \in 1 .. Len(s) /\ ~ i >= j
    BY <1>4
  <2>2. j \notin Given(s, op)
    BY <1>2, <2>1
  <2> QED BY <2>1, <2>2 DEF Given
<1> QED BY <1>3, <1>4, <1>5 DEF Newest

\* One option more: it is the newest of its kind, the others keep theirs.
LEMMA NewestNext ==
    ASSUME NEW s, NEW op, NEW k \in Nat
    PROVE  /\ NoneOf(s, op, k + 1) <=> NoneOf(s, op, k) /\ s[k + 1].op # op
           /\ \A i : Newest(s, op, k + 1, i) <=>
                  \/ i = k + 1 /\ s[k + 1].op = op
                  \/ s[k + 1].op # op /\ Newest(s, op, k, i)
<1>1. \A j : j \in 1 .. k + 1 <=> j \in 1 .. k \/ j = k + 1
  OBVIOUS
<1>2. NoneOf(s, op, k + 1) <=> NoneOf(s, op, k) /\ s[k + 1].op # op
  BY <1>1 DEF NoneOf
<1>3. ASSUME NEW i
      PROVE  Newest(s, op, k + 1, i) <=>
                  \/ i = k + 1 /\ s[k + 1].op = op
                  \/ s[k + 1].op # op /\ Newest(s, op, k, i)
  <2>1. i = k + 1 => (i + 1) .. (k + 1) = {}
    OBVIOUS
  <2>2. i \in 1 .. k => \A j : j \in i + 1 .. k + 1 <=> j \in i + 1 .. k \/ j = k + 1
    OBVIOUS
  <2>3. k + 1 \in 1 .. k + 1 /\ k + 1 \notin 1 .. k
    OBVIOUS
  <2> QED BY <1>1, <2>1, <2>2, <2>3, Zenon DEF Newest
<1> QED BY <1>2, <1>3

\* The newest of its kind, and one of another kind.
LEMMA NewestSame ==
    ASSUME NEW s, NEW op, NEW k \in Nat, s[k + 1].op = op
    PROVE  /\ ~NoneOf(s, op, k + 1)
           /\ \A i : Newest(s, op, k + 1, i) <=> i = k + 1
<1>1. k + 1 \in 1 .. k + 1 /\ k + 1 + 1 .. k + 1 = {}
  OBVIOUS
<1>2. \A i : i \in 1 .. k + 1 /\ i # k + 1 => k + 1 \in i + 1 .. k + 1
  OBVIOUS
<1> QED BY <1>1, <1>2, Zenon DEF NoneOf, Newest

\* An option of another kind leaves the newest of a kind what it was.
LEMMA NewestOther ==
    ASSUME NEW s, NEW op, NEW k \in Nat, s[k + 1].op # op
    PROVE  /\ NoneOf(s, op, k + 1) <=> NoneOf(s, op, k)
           /\ \A i : Newest(s, op, k + 1, i) <=> Newest(s, op, k, i)
BY NewestNext, Zenon

\* The first options leave nothing out.
LEMMA NewestNone ==
    ASSUME NEW s, NEW op
    PROVE  NoneOf(s, op, 0) /\ \A i : ~Newest(s, op, 0, i)
<1>1. 1 .. 0 = {}
  OBVIOUS
<1> QED BY <1>1, Zenon DEF NoneOf, Newest

-----------------------------------------------------------------------------
(* Build.                                                                  *)

\* The label of a type, once there is a matcher of it, whatever it was before.
LEMMA LabelType ==
    ASSUME NEW ms \in Seq(Matchers), NEW t, NEW old
    PROVE  \/ LabelOf(ms, t, old) = old /\ \A i \in DOMAIN ms : ms[i].type # t
           \/ LabelOf(ms, t, old) \in STRING /\ LabelOf(ms, t, old) = LabelOf(ms, t, Nil)
<1> DEFINE S == {i \in DOMAIN ms : ms[i].type = t}
<1>1. S \in SUBSET (1 .. Len(ms)) /\ Len(ms) \in Nat
  OBVIOUS
<1>2. CASE S = {}
  BY <1>2 DEF LabelOf
<1>3. CASE S # {}
  <2>1. Max(S) \in S
    BY <1>1, <1>3, MaxInSet
  <2>2. ms[Max(S)] \in Matchers
    BY <1>1, <2>1
  <2>3. LabelOf(ms, t, old) = ms[Max(S)].label /\ LabelOf(ms, t, Nil) = ms[Max(S)].label
    BY <1>3 DEF LabelOf
  <2> QED BY <2>2, <2>3 DEF Matchers
<1> QED BY <1>2, <1>3

\* The strategy st carries the labels of the matchers ms, and these.
LabelsAre(st, ms) ==
    /\ ms # Nil /\ st.matchers = ms
    /\ st.task = LabelOf(ms, "TaskID", Nil)
    /\ st.host = LabelOf(ms, "TaskHostname", Nil)

\* SetLabelMatchers leaves the receiver and the range alone, and sets the labels
\* unless it returns an error.
LEMMA SetLabelMatchersSets ==
    ASSUME NEW st \in Strategies, NEW ms \in Seq(Matchers), ms # Nil
    PROVE  LET l == SetLabelMatchers(st, ms)
           IN  /\ l.err \in BOOLEAN
               /\ l.strategy \in Strategies
               /\ l.strategy.receiver = st.receiver /\ l.strategy.range = st.range
               /\ ~l.err => LabelsAre(l.strategy, ms)
<1> DEFINE invalid == {i \in DOMAIN ms : ms[i].type = "invalid"}
           met == IF invalid = {} THEN ms ELSE SubSeq(ms, 1, Min(invalid) - 1)
           err == \/ invalid # {}
                  \/ \E t \in {"TaskID", "TaskHostname"} : \A i \in DOMAIN ms : ms[i].type # t
           new == [st EXCEPT !.task = LabelOf(met, "TaskID", @),
                             !.host = LabelOf(met, "TaskHostname", @),
                             !.matchers = IF err THEN @ ELSE ms]
           l == SetLabelMatchers(st, ms)
<1>1. l = [err |-> err, strategy |-> new]
  BY DEF SetLabelMatchers
<1>2. met \in Seq(Matchers)
  <2>1. CASE invalid = {}
    BY <2>1
  <2>2. CASE invalid # {}
    <3>1. invalid \in SUBSET (1 .. Len(ms)) /\ Len(ms) \in Nat
      OBVIOUS
    <3>2. Min(invalid) \in invalid
      BY <2>2, <3>1, MinInSet
    <3>3. Min(invalid) \in 1 .. Len(ms)
      BY <3>1, <3>2
    <3> HIDE DEF invalid
    <3>4. SubSeq(ms, 1, Min(invalid) - 1) \in Seq(Matchers)
      BY <3>1, <3>3
    <3> QED BY <2>2, <3>4
  <2> QED BY <2>1, <2>2
<1>3. ~err => /\ met = ms
              /\ ~ \A i \in DOMAIN ms : ms[i].type # "TaskID"
              /\ ~ \A i \in DOMAIN ms : ms[i].type # "TaskHostname"
  OBVIOUS
<1>4. err \in BOOLEAN
  OBVIOUS
<1> HIDE DEF met, err
<1>5. /\ LabelOf(met, "TaskID", st.task) \in STRING \cup {""}
      /\ LabelOf(met, "TaskHostname", st.host) \in STRING \cup {""}
  <2>1. st.task \in STRING \cup {""} /\ st.host \in STRING \cup {""}
    BY DEF Strategies
  <2> QED BY <1>2, <2>1, LabelType
<1>6. new \in Strategies /\ new.receiver = st.receiver /\ new.range = st.range
  BY <1>5 DEF Strategies
<1>7. ASSUME ~err PROVE LabelsAre(new, ms)
  <2>1. /\ LabelOf(ms, "TaskID", st.task) = LabelOf(ms, "TaskID", Nil)
        /\ LabelOf(ms, "TaskHostname", st.host) = LabelOf(ms, "TaskHostname", Nil)
    BY <1>3, <1>7, LabelType
  <2> QED BY <1>3, <1>7, <2>1 DEF LabelsAre, Strategies
<1> HIDE DEF new
<1> QED BY <1>1, <1>4, <1>6, <1>7

\* What the first k options of s have made of the strategy of name n: of each
\* kind the newest counts.
Configured(st, n, s, k) ==
    /\ \A i : Newest(s, "labels", k, i) => LabelsAre(st, s[i].matchers)
    /\ \A i : Newest(s, "receiver", k, i) => st.receiver = s[i].to /\ st.receiver # Nil
    /\ n = "cpuutil" \/ NoneOf(s, "range", k) => st.range = Instant
    /\ \A i : n # "cpuutil" /\ Newest(s, "range", k, i) =>
              st.range = [unit |-> s[i].unit, qty |-> s[i].qty]

Builds(n) == [name : {n}, err : BOOLEAN, strategy : Strategies]

Built(b, n, s, k) ==
    /\ b \in Builds(n)
    /\ ~b.err => Configured(b.strategy, n, s, k)

\* Build starts from a strategy that Init has reset.
LEMMA ResetBuilt ==
    ASSUME NEW n \in Names, NEW st \in Strategies, NEW s
    PROVE  Built([name |-> n, err |-> FALSE, strategy |-> Reset(st)], n, s, 0)
<1>1. Reset(st) \in Strategies /\ Reset(st).range = Instant
  BY DEF Reset, Strategies, Instant, Ranges
<1>2. Configured(Reset(st), n, s, 0)
  BY <1>1, NewestNone DEF Configured
<1> QED BY <1>1, <1>2 DEF Built, Builds

\* An option of Build sets what it is for and nothing else.
LEMMA StrategyOptionBuilt ==
    ASSUME NEW n \in Names, NEW s, NEW k \in Nat, NEW b, Built(b, n, s, k),
           s[k + 1] \in StrategyOptions
    PROVE  Built(StrategyOption(b, s[k + 1]), n, s, k + 1)
<1> DEFINE o == s[k + 1]
           c == StrategyOption(b, o)
<1>1. b \in Builds(n) /\ b.name = n /\ b.strategy \in Strategies
  BY DEF Built, Builds
<1>2. CASE b.err
  BY <1>1, <1>2 DEF Built, StrategyOption
<1>3. CASE ~b.err /\ o.op = "labels" /\ o.matchers = Nil
  BY <1>1, <1>3 DEF Built, Builds, StrategyOption
<1>4. CASE ~b.err /\ o.op = "labels" /\ o.matchers # Nil
  <2> DEFINE l == SetLabelMatchers(b.strategy, o.matchers)
  <2>1. o.matchers \in Seq(Matchers)
    BY <1>4 DEF StrategyOptions
  <2>2. /\ l.err \in BOOLEAN /\ l.strategy \in Strategies
        /\ l.strategy.receiver = b.strategy.receiver /\ l.strategy.range = b.strategy.range
        /\ ~l.err => LabelsAre(l.strategy, o.matchers)
    BY <1>1, <1>4, <2>1, SetLabelMatchersSets
  <2> HIDE DEF l
  <2>3. c = [b EXCEPT !.err = l.err, !.strategy = l.strategy]
    BY <1>4 DEF StrategyOption, l
  <2>6. c \in Builds(n) /\ c.err = l.err /\ c.strategy = l.strategy
    BY <1>1, <2>2, <2>3 DEF Builds
  <2>4. Configured(b.strategy, n, s, k)
    BY <1>4 DEF Built
  <2>5. ASSUME ~l.err PROVE Configured(l.strategy, n, s, k + 1)
    <3>1. /\ \A i : Newest(s, "labels", k + 1, i) => i = k + 1
          /\ \A i : Newest(s, "receiver", k + 1, i) => Newest(s, "receiver", k, i)
          /\ \A i : Newest(s, "range", k + 1, i) => Newest(s, "range", k, i)
          /\ NoneOf(s, "range", k + 1) => NoneOf(s, "range", k)
      <4>1. \A i : Newest(s, "labels", k + 1, i) <=> i = k + 1
        BY <1>4, NewestSame
      <4>2. s[k + 1].op # "receiver" /\ s[k + 1].op # "range"
        BY <1>4
      <4> QED BY <4>1, <4>2, NewestOther
    <3> QED BY <2>2, <2>4, <2>5, <3>1 DEF Configured
  <2> QED BY <2>5, <2>6 DEF Built
<1>5. CASE ~b.err /\ o.op = "receiver"
  <2>1. Configured(b.strategy, n, s, k)
    BY <1>5 DEF Built
  <2>2. CASE o.to = Nil
    BY <1>1, <1>5, <2>2 DEF Built, Builds, StrategyOption
  <2>3. CASE o.to # Nil
    <3> DEFINE st == SetReceiver(b.strategy, o.to)
    <3>1. c = [b EXCEPT !.strategy = st]
      BY <1>5, <2>3 DEF StrategyOption
    <3>2. o.to \in Receivers
      BY <1>5, <2>3 DEF StrategyOptions
    <3>3. /\ st \in Strategies /\ st.receiver = o.to /\ st.range = b.strategy.range
          /\ st.matchers = b.strategy.matchers /\ st.task = b.strategy.task
          /\ st.host = b.strategy.host
      BY <1>1, <2>3, <3>2 DEF SetReceiver, Strategies
    <3> HIDE DEF st
    <3>4. Configured(st, n, s, k + 1)
      <4>1. /\ \A i : Newest(s, "labels", k + 1, i) => Newest(s, "labels", k, i)
            /\ \A i : Newest(s, "range", k + 1, i) => Newest(s, "range", k, i)
            /\ NoneOf(s, "range", k + 1) => NoneOf(s, "range", k)
        <5>1. s[k + 1].op # "labels" /\ s[k + 1].op # "range"
          BY <1>5
        <5> QED BY <5>1, NewestOther
      <4>2. \A i : Newest(s, "receiver", k + 1, i) => i = k + 1
        BY <1>5, NewestSame
      <4> QED BY <2>1, <2>3, <3>3, <4>1, <4>2 DEF Configured, LabelsAre
    <3>5. c \in Builds(n) /\ c.strategy = st
      BY <1>1, <3>1, <3>3 DEF Builds
    <3> QED BY <3>4, <3>5 DEF Built
  <2> QED BY <2>2, <2>3
<1>6. CASE ~b.err /\ o.op = "range"
  <2>1. Configured(b.strategy, n, s, k)
    BY <1>6 DEF Built
  <2>2. CASE o.unit \notin ValidUnits \/ o.qty = 0
    BY <1>1, <1>6, <2>2 DEF Built, Builds, StrategyOption
  <2>3. CASE ~(o.unit \notin ValidUnits \/ o.qty = 0)
    <3> DEFINE st == SetRange(n, b.strategy, o.unit, o.qty)
    <3>1. c = [b EXCEPT !.strategy = st]
      BY <1>1, <1>6, <2>3 DEF StrategyOption
    <3>2. o.unit \in STRING /\ o.qty \in Nat
      BY <1>6 DEF StrategyOptions
    <3>3. /\ st \in Strategies /\ st.receiver = b.strategy.receiver
          /\ st.matchers = b.strategy.matchers /\ st.task = b.strategy.task
          /\ st.host = b.strategy.host
          /\ n = "cpuutil" => st.range = b.strategy.range
          /\ n # "cpuutil" => st.range = [unit |-> o.unit, qty |-> o.qty]
      BY <1>1, <2>3, <3>2 DEF SetRange, Strategies, Ranges
    <3> HIDE DEF st
    <3>4. /\ \A i : Newest(s, "labels", k + 1, i) => Newest(s, "labels", k, i)
          /\ \A i : Newest(s, "receiver", k + 1, i) => Newest(s, "receiver", k, i)
          /\ \A i : Newest(s, "range", k + 1, i) => i = k + 1
          /\ ~NoneOf(s, "range", k + 1)
      <4>1. /\ \A i : Newest(s, "range", k + 1, i) <=> i = k + 1
            /\ ~NoneOf(s, "range", k + 1)
        BY <1>6, NewestSame
      <4>2. s[k + 1].op # "receiver" /\ s[k + 1].op # "labels"
        BY <1>6
      <4> QED BY <4>1, <4>2, NewestOther
    <3>6. Configured(st, n, s, k + 1)
      BY <2>1, <3>3, <3>4 DEF Configured, LabelsAre
    <3>5. c \in Builds(n) /\ c.strategy = st
      BY <1>1, <3>1, <3>3 DEF Builds
    <3> QED BY <3>5, <3>6 DEF Built
  <2> QED BY <2>2, <2>3
<1>7. o.op \in {"labels", "receiver", "range"}
  BY DEF StrategyOptions
<1> QED BY <1>1, <1>2, <1>3, <1>4, <1>5, <1>6, <1>7

\* Build, whatever the list: unless it fails, the last option of each kind counts.
LEMMA BuildConfigures ==
    ASSUME NEW n \in Names, NEW st \in Strategies, NEW s \in Seq(StrategyOptions)
    PROVE  Built(Build(n, st, s), n, s, Len(s))
<1> DEFINE base == [name |-> n, err |-> FALSE, strategy |-> Reset(st)]
<1>1. Build(n, st, s) = BuildFold!Folded(base, s)
  BY DEF Build, FoldLeft, MapThenFoldSet, Max,
         BuildFold!Folded, BuildFold!FoldLeft, BuildFold!MapThenFoldSet, BuildFold!Max
<1>2. PICK f : /\ f[0] = base
               /\ \A k \in 1 .. Len(s) : f[k] = StrategyOption(f[k - 1], s[k])
               /\ BuildFold!Folded(base, s) = f[Len(s)]
  BY BuildFold!FoldLeftSteps
<1> DEFINE T == {k \in Nat : k <= Len(s) => Built(f[k], n, s, k)}
<1>5. 0 \in T
  BY <1>2, ResetBuilt
<1>6. ASSUME NEW k \in Nat, k \in T PROVE k + 1 \in T
  <2> SUFFICES ASSUME k + 1 <= Len(s) PROVE Built(f[k + 1], n, s, k + 1)
    OBVIOUS
  <2>1. Built(f[k], n, s, k) /\ k + 1 \in 1 .. Len(s) /\ (k + 1) - 1 = k
    BY <1>6
  <2>2. f[k + 1] = StrategyOption(f[k], s[k + 1]) /\ s[k + 1] \in StrategyOptions
    BY <1>2, <2>1
  <2> QED BY <2>1, <2>2, StrategyOptionBuilt
<1> HIDE DEF T
<1>7. Nat \subseteq T
  BY <1>5, <1>6, NatInSet
<1>8. Len(s) \in T /\ Len(s) \in Nat /\ Len(s) <= Len(s)
  BY <1>7
<1>9. Built(f[Len(s)], n, s, Len(s))
  BY <1>8 DEF T
<1> QED BY <1>1, <1>2, <1>9, Zenon

-----------------------------------------------------------------------------
(* New.                                                                    *)

Partial == [fetcher : Fetchers \cup {Nil}, strategy : Names \cup {Nil}, interval : Int,
            schedule : Schedules \cup {Nil}]
Works == [ranker : Partial, strategies : [Names -> Strategies],
          fetchers : [Fetchers -> DataFetchers \cup {Nil}], ends : {"no", "error", "panic"}]

\* SetStrategy leaves a data fetcher that queries what the strategy asks for.
LEMMA SetStrategySets ==
    ASSUME NEW f \in DataFetchers, NEW n \in Names, NEW st \in Strategies
    PROVE  /\ SetStrategy(f, n, st) \in DataFetchers
           /\ SetStrategy(f, n, st).strategy = n
           /\ SetStrategy(f, n, st).query = QueryOf(n, st)
<1>1. Metric(n) \in {Metric(m) : m \in Names}
  OBVIOUS
<1> HIDE DEF Metric
<1>2. QueryOf(n, st) \in Queries
  BY <1>1 DEF QueryOf, Queries, Strategies
<1> HIDE DEF QueryOf
<1> QED BY <1>2 DEF SetStrategy, DataFetchers

\* WithStrategyOptions of a known strategy: it is built, and the fetcher gets it
\* unless that fails; without a fetcher this panics.
LEMMA WithStrategyOptionsSets ==
    ASSUME NEW w \in Works, w.ends = "no", NEW n \in Names, NEW opts \in Seq(StrategyOptions),
           w.ranker.fetcher # Nil => w.fetchers[w.ranker.fetcher] \in DataFetchers
    PROVE  LET b == Build(n, w.strategies[n], opts)
               x == WithStrategyOptions(w, n, opts)
           IN  /\ x \in Works
               /\ x.ranker.fetcher = w.ranker.fetcher /\ x.ranker.interval = w.ranker.interval
               /\ x.ranker.strategy = n
               /\ x.strategies[n] = b.strategy
               /\ \A m \in Names \ {n} : x.strategies[m] = w.strategies[m]
               /\ x.ends = "panic" => w.ranker.fetcher = Nil
               /\ x.ends # "no" => x.fetchers = w.fetchers
               /\ x.ends = "no" =>
                     /\ ~b.err /\ w.ranker.fetcher # Nil
                     /\ \A f \in Fetchers \ {w.ranker.fetcher} : x.fetchers[f] = w.fetchers[f]
                     /\ x.fetchers[w.ranker.fetcher] \in DataFetchers
                     /\ x.fetchers[w.ranker.fetcher].strategy = n
                     /\ x.fetchers[w.ranker.fetcher].query = QueryOf(n, b.strategy)
<1> DEFINE b == Build(n, w.strategies[n], opts)
           v == [w EXCEPT !.ranker.strategy = n, !.strategies[n] = b.strategy]
           x == WithStrategyOptions(w, n, opts)
           g == w.ranker.fetcher
           u == SetStrategy(w.fetchers[g], n, b.strategy)
<1>1. w.strategies[n] \in Strategies
  BY DEF Works
<1>2. b \in Builds(n)
  BY <1>1, BuildConfigures DEF Built
<1> HIDE DEF b
<1>3. b.err \in BOOLEAN /\ b.strategy \in Strategies
  BY <1>2 DEF Builds
<1>4. /\ v \in Works /\ v.ends = "no" /\ v.fetchers = w.fetchers
      /\ v.ranker.fetcher = g /\ v.ranker.interval = w.ranker.interval
      /\ v.ranker.strategy = n
      /\ v.strategies[n] = b.strategy
      /\ \A m \in Names \ {n} : v.strategies[m] = w.strategies[m]
  BY <1>3 DEF Works, Partial
<1>5. x = CASE b.err -> [v EXCEPT !.ends = "error"]
            [] ~b.err /\ g = Nil -> [v EXCEPT !.ends = "panic"]
            [] OTHER -> [v EXCEPT !.fetchers[g] = u]
  BY <1>4 DEF WithStrategyOptions, b
<1> HIDE DEF v, x
<1>6. CASE b.err
  <2>1. x = [v EXCEPT !.ends = "error"]
    BY <1>5, <1>6
  <2> QED BY <1>4, <2>1 DEF Works, x, b
<1>7. CASE ~b.err /\ g = Nil
  <2>1. x = [v EXCEPT !.ends = "panic"]
    BY <1>5, <1>7
  <2> QED BY <1>4, <1>7, <2>1 DEF Works, x, b
<1>8. CASE ~b.err /\ g # Nil
  <2>1. x = [v EXCEPT !.fetchers[g] = u]
    BY <1>5, <1>8
  <2>2. g \in Fetchers
    BY <1>8 DEF Works, Partial
  <2>3. u \in DataFetchers /\ u.strategy = n /\ u.query = QueryOf(n, b.strategy)
    BY <1>3, <1>8, SetStrategySets
  <2> HIDE DEF u, g
  <2>4. /\ x \in Works /\ x.ends = "no" /\ x.ranker = v.ranker /\ x.strategies = v.strategies
        /\ x.fetchers[g] = u /\ \A f \in Fetchers \ {g} : x.fetchers[f] = w.fetchers[f]
    BY <1>4, <2>1, <2>2, <2>3 DEF Works
  <2> QED BY <1>4, <1>8, <2>3, <2>4 DEF x, b, g
<1> QED BY <1>6, <1>7, <1>8

\* A strategy of name n is among the first k options of s.
Named(s, k, n) == \E i \in 1 .. k : s[i].op = "strategy" /\ s[i].name = n

\* What the first k options have done to the objects New shares with other calls:
\* only strategies they name and data fetchers that were given them have changed,
\* and only a strategy without a fetcher has made it panic.
Shared(w, s, k) ==
    /\ w \in Works
    /\ \A n \in Names : w.strategies[n] = strategies[n] \/ Named(s, k, n)
    /\ \A f \in Fetchers :
          \/ w.fetchers[f] = fetchers[f]
          \/ /\ w.fetchers[f] \in DataFetchers
             /\ w.fetchers[f].strategy \in Names /\ Named(s, k, w.fetchers[f].strategy)
    /\ w.ranker.fetcher # Nil => w.fetchers[w.ranker.fetcher] \in DataFetchers
    /\ w.ends = "no" /\ w.ranker.strategy # Nil => w.ranker.fetcher # Nil
    /\ w.ends = "no" /\ w.ranker.fetcher = Nil => NoneOf(s, "fetcher", k)
    /\ w.ends = "panic" =>
          \E i \in 1 .. k : s[i].op = "strategy" /\ NoneOf(s, "fetcher", i - 1)

\* What they have made of the ranker, unless one has failed: of each kind the newest
\* counts, and the fetcher has the strategy if it came first.
Assembled(w, s, k) ==
    w.ends = "no" =>
        \A i : Newest(s, "strategy", k, i) =>
            /\ s[i].name \in Names /\ w.ranker.strategy = s[i].name
            /\ Configured(w.strategies[s[i].name], s[i].name, s[i].opts, Len(s[i].opts))
            /\ (\A j \in i + 1 .. k : s[j].op # "fetcher") =>
                  /\ w.fetchers[w.ranker.fetcher].strategy = s[i].name
                  /\ w.fetchers[w.ranker.fetcher].query =
                        QueryOf(s[i].name, w.strategies[s[i].name])

\* One option more does not unname a strategy.
LEMMA NamedNext ==
    ASSUME NEW s, NEW k \in Nat
    PROVE  /\ \A n : Named(s, k, n) => Named(s, k + 1, n)
           /\ s[k + 1].op = "strategy" => Named(s, k + 1, s[k + 1].name)
<1>1. \A i : i \in 1 .. k => i \in 1 .. k + 1
  OBVIOUS
<1>2. k + 1 \in 1 .. k + 1
  OBVIOUS
<1> QED BY <1>1, <1>2, Zenon DEF Named

\* What an option that is not of a strategy may do to what is shared.
LEMMA SharedNext ==
    ASSUME NEW s, NEW k \in Nat, NEW w, Shared(w, s, k), NEW x \in Works,
           x.strategies = w.strategies, x.fetchers = w.fetchers,
           x.ranker.fetcher # w.ranker.fetcher => x.fetchers[x.ranker.fetcher] \in DataFetchers,
           x.ends = "no" /\ x.ranker.strategy # Nil => x.ranker.fetcher # Nil,
           x.ends = "no" /\ x.ranker.fetcher = Nil => NoneOf(s, "fetcher", k + 1),
           x.ends = "panic" => w.ends = "panic"
    PROVE  Shared(x, s, k + 1)
<1>1. \A n \in Names : x.strategies[n] = strategies[n] \/ Named(s, k + 1, n)
  BY NamedNext DEF Shared
<1>2. \A f \in Fetchers :
          \/ x.fetchers[f] = fetchers[f]
          \/ /\ x.fetchers[f] \in DataFetchers
             /\ x.fetchers[f].strategy \in Names /\ Named(s, k + 1, x.fetchers[f].strategy)
  BY NamedNext DEF Shared
<1>3. x.ranker.fetcher # Nil => x.fetchers[x.ranker.fetcher] \in DataFetchers
  BY DEF Shared
<1>4. x.ends = "panic" =>
          \E i \in 1 .. k + 1 : s[i].op = "strategy" /\ NoneOf(s, "fetcher", i - 1)
  <2>1. \A i \in 1 .. k : i \in 1 .. k + 1
    OBVIOUS
  <2> QED BY <2>1, Zenon DEF Shared
<1> QED BY <1>1, <1>2, <1>3, <1>4 DEF Shared

\* An option of New does to the shared objects what it is for.
LEMMA OptionShared ==
    ASSUME NEW s, NEW k \in Nat, NEW w, Shared(w, s, k), s[k + 1] \in Options
    PROVE  Shared(Option(w, s[k + 1]), s, k + 1)
<1> DEFINE o == s[k + 1]
           x == Option(w, o)
<1>1. /\ w \in Works
      /\ w.ranker.fetcher # Nil => w.fetchers[w.ranker.fetcher] \in DataFetchers
      /\ w.ends = "no" /\ w.ranker.strategy # Nil => w.ranker.fetcher # Nil
      /\ w.ends = "no" /\ w.ranker.fetcher = Nil => NoneOf(s, "fetcher", k)
  BY DEF Shared
<1>2. CASE w.ends # "no"
  <2>1. x = w
    BY <1>2 DEF Option
  <2> QED BY <1>1, <1>2, <2>1, SharedNext
<1>3. CASE w.ends = "no" /\ o.op = "fetcher"
  <2>1. o.fetcher \in Fetchers
    BY <1>3 DEF Options
  <2>2. CASE w.fetchers[o.fetcher] = Nil
    <3>1. x = [w EXCEPT !.ends = "error"]
      BY <1>3, <2>2 DEF Option
    <3>2. /\ x \in Works /\ x.strategies = w.strategies /\ x.fetchers = w.fetchers
          /\ x.ranker = w.ranker /\ x.ends = "error"
      BY <1>1, <3>1 DEF Works
    <3> QED BY <3>2, SharedNext
  <2>3. CASE w.fetchers[o.fetcher] # Nil
    <3>1. x = [w EXCEPT !.ranker.fetcher = o.fetcher]
      BY <1>3, <2>3 DEF Option
    <3>2. /\ x \in Works /\ x.strategies = w.strategies /\ x.fetchers = w.fetchers
          /\ x.ranker.fetcher = o.fetcher /\ x.ends = "no"
      BY <1>1, <1>3, <2>1, <3>1 DEF Works, Partial
    <3>3. w.fetchers[o.fetcher] \in DataFetchers
      BY <1>1, <2>1, <2>3 DEF Works
    <3>4. o.fetcher # Nil
      BY <2>1, NilAssumption
    <3> QED BY <3>2, <3>3, <3>4, SharedNext
  <2> QED BY <2>2, <2>3
<1>4. CASE w.ends = "no" /\ o.op \in {"interval", "schedule"}
  <2>1. /\ x \in Works /\ x.strategies = w.strategies /\ x.fetchers = w.fetchers
        /\ x.ranker.fetcher = w.ranker.fetcher /\ x.ranker.strategy = w.ranker.strategy
        /\ x.ends \in {"no", "error"}
    <3>1. CASE o.op = "interval"
      <4>1. o.ms \in Int
        BY <3>1 DEF Options
      <4>2. x = IF o.ms = 0 THEN [w EXCEPT !.ends = "error"]
                ELSE [w EXCEPT !.ranker.interval = o.ms]
        BY <1>4, <3>1 DEF Option
      <4> QED BY <1>1, <1>4, <4>1, <4>2 DEF Works, Partial
    <3>2. CASE o.op = "schedule"
      <4>1. o.marks \in Schedules \cup {Nil}
        BY <3>2 DEF Options
      <4>2. x = IF o.marks = Nil THEN [w EXCEPT !.ends = "error"]
                ELSE [w EXCEPT !.ranker.schedule = o.marks]
        BY <1>4, <3>2 DEF Option
      <4> QED BY <1>1, <1>4, <4>1, <4>2 DEF Works, Partial
    <3> QED BY <1>4, <3>1, <3>2
  <2>2. s[k + 1].op # "fetcher"
    BY <1>4
  <2>3. NoneOf(s, "fetcher", k + 1) <=> NoneOf(s, "fetcher", k)
    BY <2>2, NewestOther
  <2> QED BY <1>1, <1>4, <2>1, <2>3, SharedNext
<1>5. CASE w.ends = "no" /\ o.op = "strategy"
  <2>1. o.opts \in Seq(StrategyOptions) /\ x = WithStrategyOptions(w, o.name, o.opts)
    BY <1>5 DEF Options, Option
  <2>2. CASE o.name \notin Names
    <3>1. x = [w EXCEPT !.ends = "error"]
      BY <2>1, <2>2 DEF WithStrategyOptions
    <3>2. /\ x \in Works /\ x.strategies = w.strategies /\ x.fetchers = w.fetchers
          /\ x.ranker = w.ranker /\ x.ends = "error"
      BY <1>1, <3>1 DEF Works
    <3> QED BY <3>2, SharedNext
  <2>3. CASE o.name \in Names
    <3> DEFINE b == Build(o.name, w.strategies[o.name], o.opts)
               g == w.ranker.fetcher
    <3>1. /\ x \in Works /\ x.ranker.fetcher = g
          /\ \A m \in Names \ {o.name} : x.strategies[m] = w.strategies[m]
          /\ x.ends = "panic" => g = Nil
          /\ x.ends # "no" => x.fetchers = w.fetchers
          /\ x.ends = "no" =>
                /\ g # Nil
                /\ \A f \in Fetchers \ {g} : x.fetchers[f] = w.fetchers[f]
                /\ x.fetchers[g] \in DataFetchers
                /\ x.fetchers[g].strategy = o.name
      BY <1>1, <1>5, <2>1, <2>3, WithStrategyOptionsSets
    <3> HIDE DEF x
    <3>2. Named(s, k + 1, o.name) /\ \A n : Named(s, k, n) => Named(s, k + 1, n)
      BY <1>5, NamedNext
    <3>3. \A n \in Names : x.strategies[n] = strategies[n] \/ Named(s, k + 1, n)
      BY <3>1, <3>2 DEF Shared
    <3>4. ASSUME NEW f \in Fetchers
          PROVE  \/ x.fetchers[f] = fetchers[f]
                 \/ /\ x.fetchers[f] \in DataFetchers
                    /\ x.fetchers[f].strategy \in Names
                    /\ Named(s, k + 1, x.fetchers[f].strategy)
      <4>1. CASE x.fetchers[f] = w.fetchers[f]
        BY <3>2, <4>1 DEF Shared
      <4>2. CASE x.fetchers[f] # w.fetchers[f]
        <5>1. x.ends = "no" /\ f = g
          BY <3>1, <4>2
        <5> QED BY <2>3, <3>1, <3>2, <5>1
      <4> QED BY <4>1, <4>2
    <3>5. g # Nil => x.fetchers[g] \in DataFetchers
      BY <1>1, <3>1
    <3>6. x.ends = "panic" =>
              \E i \in 1 .. k + 1 : s[i].op = "strategy" /\ NoneOf(s, "fetcher", i - 1)
      <4>1. k + 1 \in 1 .. k + 1 /\ (k + 1) - 1 = k
        OBVIOUS
      <4>2. x.ends = "panic" => NoneOf(s, "fetcher", k)
        BY <1>1, <1>5, <3>1
      <4> QED BY <1>5, <4>1, <4>2
    <3>7. /\ x.ranker.fetcher # Nil => x.fetchers[x.ranker.fetcher] \in DataFetchers
          /\ x.ends = "no" => x.ranker.fetcher # Nil
      BY <3>1, <3>5
    <3>8. x \in Works
      BY <3>1
    <3>9. Shared(x, s, k + 1)
      BY <3>3, <3>4, <3>6, <3>7, <3>8 DEF Shared
    <3> QED BY <3>9 DEF x
  <2> QED BY <2>2, <2>3
<1>6. o.op \in {"fetcher", "interval", "schedule", "strategy"}
  BY DEF Options
<1>7. w.ends \in {"no", "error", "panic"}
  BY <1>1 DEF Works
<1> QED BY <1>2, <1>3, <1>4, <1>5, <1>6

\* An option of New does to the ranker what it is for.
LEMMA OptionAssembled ==
    ASSUME NEW s, NEW k \in Nat, NEW w, Shared(w, s, k), Assembled(w, s, k),
           s[k + 1] \in Options
    PROVE  Assembled(Option(w, s[k + 1]), s, k + 1)
<1> DEFINE o == s[k + 1]
           x == Option(w, o)
           g == w.ranker.fetcher
<1>1. w \in Works /\ (g # Nil => w.fetchers[g] \in DataFetchers)
  BY DEF Shared
<1>2. CASE w.ends # "no"
  <2>1. x = w
    BY <1>2 DEF Option
  <2> QED BY <1>2, <2>1 DEF Assembled
<1>3. CASE w.ends = "no" /\ o.op # "strategy"
  <2>1. CASE x.ends # "no"
    BY <2>1 DEF Assembled
  <2>2. CASE x.ends = "no"
    <3>1. /\ x.strategies = w.strategies /\ x.fetchers = w.fetchers
          /\ x.ranker.strategy = w.ranker.strategy
          /\ o.op # "fetcher" => x.ranker.fetcher = g
      <4>1. CASE o.op = "fetcher"
        <5>1. x = IF w.fetchers[o.fetcher] = Nil THEN [w EXCEPT !.ends = "error"]
                  ELSE [w EXCEPT !.ranker.fetcher = o.fetcher]
          BY <1>3, <4>1 DEF Option
        <5> QED BY <1>1, <4>1, <5>1 DEF Works, Partial
      <4>2. CASE o.op = "interval"
        <5>1. x = IF o.ms = 0 THEN [w EXCEPT !.ends = "error"]
                  ELSE [w EXCEPT !.ranker.interval = o.ms]
          BY <1>3, <4>2 DEF Option
        <5>2. [w EXCEPT !.ends = "error"].ends = "error"
          BY <1>1 DEF Works
        <5>3. x = [w EXCEPT !.ranker.interval = o.ms]
          BY <2>2, <5>1, <5>2
        <5> QED BY <1>1, <4>2, <5>3 DEF Works, Partial
      <4>3. CASE o.op = "schedule"
        <5>1. x = IF o.marks = Nil THEN [w EXCEPT !.ends = "error"]
                  ELSE [w EXCEPT !.ranker.schedule = o.marks]
          BY <1>3, <4>3 DEF Option
        <5> QED BY <1>1, <4>3, <5>1 DEF Works, Partial
      <4>4. o.op \in {"fetcher", "interval", "schedule", "strategy"}
        BY DEF Options
      <4> QED BY <1>3, <4>1, <4>2, <4>3, <4>4
    <3> HIDE DEF x
    <3>3. ASSUME NEW i, Newest(s, "strategy", k + 1, i)
          PROVE  /\ s[i].name \in Names /\ x.ranker.strategy = s[i].name
                 /\ Configured(x.strategies[s[i].name], s[i].name, s[i].opts, Len(s[i].opts))
                 /\ (\A j \in i + 1 .. k + 1 : s[j].op # "fetcher") =>
                       /\ x.fetchers[x.ranker.fetcher].strategy = s[i].name
                       /\ x.fetchers[x.ranker.fetcher].query =
                             QueryOf(s[i].name, x.strategies[s[i].name])
      <4>1. Newest(s, "strategy", k, i)
        <5>1. s[k + 1].op # "strategy"
          BY <1>3
        <5> QED BY <3>3, <5>1, NewestOther
      <4>2. /\ s[i].name \in Names /\ w.ranker.strategy = s[i].name
            /\ Configured(w.strategies[s[i].name], s[i].name, s[i].opts, Len(s[i].opts))
            /\ (\A j \in i + 1 .. k : s[j].op # "fetcher") =>
                  /\ w.fetchers[g].strategy = s[i].name
                  /\ w.fetchers[g].query = QueryOf(s[i].name, w.strategies[s[i].name])
        BY <1>3, <4>1, Zenon DEF Assembled
      <4>3. i \in 1 .. k
        BY <4>1 DEF Newest
      <4>4. k + 1 \in i + 1 .. k + 1 /\ \A j \in i + 1 .. k : j \in i + 1 .. k + 1
        BY <4>3
      <4> HIDE DEF g
      <4> QED BY <3>1, <4>2, <4>4
    <3>4. Assembled(x, s, k + 1)
      BY <3>3 DEF Assembled
    <3> QED BY <3>4 DEF x
  <2> QED BY <2>1, <2>2
<1>4. CASE w.ends = "no" /\ o.op = "strategy"
  <2>1. o.opts \in Seq(StrategyOptions) /\ x = WithStrategyOptions(w, o.name, o.opts)
    BY <1>4 DEF Options, Option
  <2>2. CASE o.name \notin Names
    <3>1. x = [w EXCEPT !.ends = "error"]
      BY <2>1, <2>2 DEF WithStrategyOptions
    <3>2. x.ends = "error"
      BY <1>1, <3>1 DEF Works
    <3> QED BY <3>2 DEF Assembled
  <2>3. CASE o.name \in Names
    <3> DEFINE b == Build(o.name, w.strategies[o.name], o.opts)
    <3>1. /\ x.ranker.fetcher = g /\ x.ranker.strategy = o.name
          /\ x.strategies[o.name] = b.strategy
          /\ x.ends = "no" =>
                /\ ~b.err
                /\ x.fetchers[g].strategy = o.name
                /\ x.fetchers[g].query = QueryOf(o.name, b.strategy)
      BY <1>1, <1>4, <2>1, <2>3, WithStrategyOptionsSets
    <3>2. ~b.err => Configured(b.strategy, o.name, o.opts, Len(o.opts))
      <4>1. w.strategies[o.name] \in Strategies
        BY <1>1, <2>3 DEF Works
      <4> QED BY <2>1, <2>3, <4>1, BuildConfigures DEF Built
    <3> HIDE DEF x, b
    <3>4. \A i : Newest(s, "strategy", k + 1, i) => i = k + 1
      BY <1>4, NewestSame
    <3>5. Assembled(x, s, k + 1)
      BY <2>3, <3>1, <3>2, <3>4 DEF Assembled
    <3> QED BY <3>5 DEF x
  <2> QED BY <2>2, <2>3
<1> QED BY <1>2, <1>3, <1>4

\* What New starts from.
LEMMA BeginAssembled ==
    ASSUME NEW s, TypeOK
    PROVE  Shared(Begin, s, 0) /\ Assembled(Begin, s, 0)
<1>1. /\ Begin \in Works /\ Begin.strategies = strategies /\ Begin.fetchers = fetchers
      /\ Begin.ranker.fetcher = Nil /\ Begin.ranker.strategy = Nil /\ Begin.ends = "no"
  BY DEF Begin, Works, Partial, TypeOK
<1>2. NoneOf(s, "fetcher", 0) /\ \A op, i : ~Newest(s, op, 0, i)
  BY NewestNone
<1> HIDE DEF Begin
<1> QED BY <1>1, <1>2 DEF Shared, Assembled

\* All the options of New, however many there are.
Applied(s) == FoldLeft(Option, Begin, s)

\* Whatever the list, the shared objects and the ranker are what its options make of
\* them, unless one fails.
LEMMA OptionsApplied ==
    ASSUME NEW s \in Seq(Options), TypeOK
    PROVE  Shared(Applied(s), s, Len(s)) /\ Assembled(Applied(s), s, Len(s))
<1>1. Applied(s) = NewFold!Folded(Begin, s)
  BY DEF Applied, FoldLeft, MapThenFoldSet, Max,
         NewFold!Folded, NewFold!FoldLeft, NewFold!MapThenFoldSet, NewFold!Max
<1>2. PICK f : /\ f[0] = Begin
               /\ \A k \in 1 .. Len(s) : f[k] = Option(f[k - 1], s[k])
               /\ NewFold!Folded(Begin, s) = f[Len(s)]
  BY NewFold!FoldLeftSteps
<1> DEFINE T == {k \in Nat : k <= Len(s) => Shared(f[k], s, k) /\ Assembled(f[k], s, k)}
<1>5. 0 \in T
  BY <1>2, BeginAssembled
<1>6. ASSUME NEW k \in Nat, k \in T PROVE k + 1 \in T
  <2> SUFFICES ASSUME k + 1 <= Len(s)
               PROVE  Shared(f[k + 1], s, k + 1) /\ Assembled(f[k + 1], s, k + 1)
    OBVIOUS
  <2>1. /\ Shared(f[k], s, k) /\ Assembled(f[k], s, k)
        /\ k + 1 \in 1 .. Len(s) /\ (k + 1) - 1 = k
    BY <1>6
  <2>2. f[k + 1] = Option(f[k], s[k + 1]) /\ s[k + 1] \in Options
    BY <1>2, <2>1
  <2> QED BY <2>1, <2>2, OptionShared, OptionAssembled
<1> HIDE DEF T
<1>7. Nat \subseteq T
  BY <1>5, <1>6, NatInSet
<1>8. Len(s) \in T /\ Len(s) <= Len(s)
  BY <1>7
<1>9. Shared(f[Len(s)], s, Len(s)) /\ Assembled(f[Len(s)], s, Len(s))
  BY <1>8 DEF T
<1> QED BY <1>1, <1>2, <1>9, Zenon

\* A strategy the options of which include labels and a receiver has those that
\* were asked for last.
RangeAsked(n, opts) ==
    IF n = "cpuutil" \/ Given(opts, "range") = {} THEN Instant
    ELSE [unit |-> LastOption(opts, "range").unit, qty |-> LastOption(opts, "range").qty]

StrategyAsked(st, n, opts) ==
    LET ms == LastOption(opts, "labels").matchers
    IN  /\ st.matchers = ms
        /\ st.task = LabelOf(ms, "TaskID", Nil)
        /\ st.host = LabelOf(ms, "TaskHostname", Nil)
        /\ st.receiver = LastOption(opts, "receiver").to /\ st.receiver # Nil
        /\ st.range = RangeAsked(n, opts)

\* A strategy that was configured by a list with labels and a receiver is as asked.
LEMMA ConfiguredAsked ==
    ASSUME NEW st, NEW n, NEW opts \in Seq(StrategyOptions),
           Configured(st, n, opts, Len(opts)),
           Given(opts, "labels") # {}, Given(opts, "receiver") # {}
    PROVE  StrategyAsked(st, n, opts)
<1>1. PICK i \in 1 .. Len(opts) :
          LastOption(opts, "labels") = opts[i] /\ Newest(opts, "labels", Len(opts), i)
  BY LastIsNewest
<1>2. PICK j \in 1 .. Len(opts) :
          LastOption(opts, "receiver") = opts[j] /\ Newest(opts, "receiver", Len(opts), j)
  BY LastIsNewest
<1>3. LabelsAre(st, opts[i].matchers) /\ st.receiver = opts[j].to /\ st.receiver # Nil
  BY <1>1, <1>2 DEF Configured
<1>4. st.range = RangeAsked(n, opts)
  <2>1. CASE n = "cpuutil" \/ Given(opts, "range") = {}
    <3>1. Given(opts, "range") = {} => NoneOf(opts, "range", Len(opts))
      BY DEF Given, NoneOf
    <3> QED BY <2>1, <3>1 DEF Configured, RangeAsked
  <2>2. CASE n # "cpuutil" /\ Given(opts, "range") # {}
    <3>1. PICK k \in 1 .. Len(opts) :
              LastOption(opts, "range") = opts[k] /\ Newest(opts, "range", Len(opts), k)
      BY <2>2, LastIsNewest
    <3> QED BY <2>2, <3>1 DEF Configured, RangeAsked
  <2> QED BY <2>1, <2>2
<1> QED BY <1>1, <1>2, <1>3, <1>4 DEF StrategyAsked, LabelsAre

\* What a list of options written with care has.
LEMMA CareGives ==
    ASSUME NEW s, ~Careless(s)
    PROVE  LET asked == LastOption(s, "strategy")
           IN  /\ Given(s, "fetcher") # {} /\ Given(s, "strategy") # {}
               /\ ~FetcherLate(s)
               /\ Given(asked.opts, "labels") # {} /\ Given(asked.opts, "receiver") # {}
<1> DEFINE opts == LastOption(s, "strategy").opts
<1>1. /\ ~Lacks(s, {"fetcher", "strategy"}) /\ ~FetcherLate(s)
      /\ ~Lacks(opts, {"labels", "receiver"})
  BY DEF Careless
<1> HIDE DEF opts
<1>2. Given(s, "fetcher") # {} /\ Given(s, "strategy") # {}
  BY <1>1 DEF Lacks
<1>3. Given(opts, "labels") # {} /\ Given(opts, "receiver") # {}
  BY <1>1 DEF Lacks
<1> QED BY <1>1, <1>2, <1>3 DEF opts

\* What becomes of a list of options that was written with care.
RankerAsked(w, s) ==
    LET asked == LastOption(s, "strategy")
        n     == asked.name
        f     == w.fetchers[w.ranker.fetcher]
    IN  /\ n \in Names /\ w.ranker.strategy = n
        /\ StrategyAsked(w.strategies[n], n, asked.opts)
        /\ f.strategy = n
        /\ f.query = [metric |-> Metric(n),
                      matchers |-> LastOption(asked.opts, "labels").matchers,
                      range |-> RangeAsked(n, asked.opts)]

\* After the options of a list written with care the ranker has the strategy and the
\* fetcher it names, and these are as asked.
LEMMA AppliedAsked ==
    ASSUME NEW s \in Seq(Options), TypeOK, Applied(s).ends = "no", ~Careless(s)
    PROVE  RankerAsked(Applied(s), s)
<1> DEFINE w == Applied(s)
<1>1. Shared(w, s, Len(s)) /\ Assembled(w, s, Len(s))
  BY OptionsApplied
<1>2. /\ Given(s, "strategy") # {} /\ ~FetcherLate(s)
      /\ Given(LastOption(s, "strategy").opts, "labels") # {}
      /\ Given(LastOption(s, "strategy").opts, "receiver") # {}
  BY CareGives
<1> HIDE DEF w
<1>4. PICK j \in 1 .. Len(s) :
          LastOption(s, "strategy") = s[j] /\ Newest(s, "strategy", Len(s), j)
  BY <1>2, LastIsNewest
<1>5. j \in Given(s, "strategy") /\ s[j].op = "strategy" /\ s[j] \in Options
  BY <1>4 DEF Newest, Given
<1>6. s[j].opts \in Seq(StrategyOptions)
  BY <1>5 DEF Options
<1>7. \A k \in j + 1 .. Len(s) : s[k].op # "fetcher"
  <2> SUFFICES ASSUME NEW k \in j + 1 .. Len(s), s[k].op = "fetcher" PROVE FALSE
    OBVIOUS
  <2>1. k \in Given(s, "fetcher") /\ k > j
    BY DEF Given
  <2> QED BY <1>2, <1>5, <2>1 DEF FetcherLate
<1> DEFINE n == s[j].name
           opts == s[j].opts
<1>8. /\ n \in Names /\ w.ranker.strategy = n
      /\ Configured(w.strategies[n], n, opts, Len(opts))
      /\ w.fetchers[w.ranker.fetcher].strategy = n
      /\ w.fetchers[w.ranker.fetcher].query = QueryOf(n, w.strategies[n])
  BY <1>1, <1>4, <1>7 DEF Assembled, w
<1> HIDE DEF n, opts
<1>9. StrategyAsked(w.strategies[n], n, opts)
  BY <1>2, <1>4, <1>6, <1>8, ConfiguredAsked DEF opts
<1>10. QueryOf(n, w.strategies[n]) =
          [metric |-> Metric(n), matchers |-> LastOption(opts, "labels").matchers,
           range |-> RangeAsked(n, opts)]
  BY <1>9 DEF QueryOf, StrategyAsked
<1>11. RankerAsked(w, s)
  BY <1>4, <1>8, <1>9, <1>10 DEF RankerAsked, n, opts
<1> QED BY <1>11 DEF w

\* The rest of New changes the interval of the strategy, or how New ends.
LEMMA CompleteEnds ==
    ASSUME NEW w \in Works, NEW x, x = Complete(w),
           w.ends = "no" /\ w.ranker.strategy # Nil => w.ranker.fetcher # Nil
    PROVE  /\ x \in Works /\ x.fetchers = w.fetchers /\ x.ranker = w.ranker
           /\ \A n \in Names :
                 /\ x.strategies[n].task = w.strategies[n].task
                 /\ x.strategies[n].host = w.strategies[n].host
                 /\ x.strategies[n].receiver = w.strategies[n].receiver
           /\ x.ends = "no" =>
                 /\ w.ends = "no" /\ x.ranker \in TaskRankers
                 /\ ~Rejects(x.ranker) /\ InSeconds(x.ranker.interval) # 0
<1>1. CASE w.ends # "no"
  <2>1. x = w
    BY <1>1 DEF Complete
  <2> QED BY <1>1, <2>1
<1>2. CASE w.ends = "no" /\ Rejects(w.ranker)
  <2>1. x = [w EXCEPT !.ends = "error"]
    BY <1>2 DEF Complete, NewPanics
  <2>2. x \in Works /\ x.ends = "error" /\ x.fetchers = w.fetchers /\ x.ranker = w.ranker
        /\ x.strategies = w.strategies
    BY <2>1 DEF Works
  <2> QED BY <2>2
<1>3. CASE w.ends = "no" /\ ~Rejects(w.ranker) /\ NewPanics(w.ranker)
  <2>1. x = [w EXCEPT !.ends = "panic"]
    BY <1>3 DEF Complete
  <2>2. x \in Works /\ x.ends = "panic" /\ x.fetchers = w.fetchers /\ x.ranker = w.ranker
        /\ x.strategies = w.strategies
    BY <2>1 DEF Works
  <2> QED BY <1>3, <2>2
<1>4. CASE w.ends = "no" /\ ~Rejects(w.ranker) /\ ~NewPanics(w.ranker)
  <2> DEFINE n == w.ranker.strategy
         d == IF n = "cpuutil" THEN w.ranker.interval ELSE w.strategies[n].interval
  <2>1. x = [w EXCEPT !.strategies[n].interval = d]
    BY <1>4 DEF Complete
  <2>2. n # Nil /\ w.ranker.schedule # Nil
    BY <1>4 DEF NewPanics, Rejects
  <2>8. InSeconds(w.ranker.interval) # 0
    BY <1>4 DEF NewPanics
  <2>3. n \in Names /\ w.ranker.interval \in Int /\ w.ranker \in TaskRankers
    BY <1>4, <2>2 DEF Works, Partial, TaskRankers
  <2>4. w.strategies[n] \in Strategies
    BY <2>3 DEF Works
  <2>9. d \in Int
    BY <2>3, <2>4 DEF Strategies
  <2> HIDE DEF d
  <2>5. [w.strategies[n] EXCEPT !.interval = d] \in Strategies
    BY <2>4, <2>9 DEF Strategies
  <2> HIDE DEF n
  <2>6. /\ x \in Works /\ x.ends = "no" /\ x.fetchers = w.fetchers /\ x.ranker = w.ranker
        /\ x.strategies = [w.strategies EXCEPT ![n].interval = d]
    BY <1>4, <2>1, <2>3, <2>5 DEF Works
  <2>7. ASSUME NEW m \in Names
        PROVE  /\ x.strategies[m].task = w.strategies[m].task
               /\ x.strategies[m].host = w.strategies[m].host
               /\ x.strategies[m].receiver = w.strategies[m].receiver
    <3>1. CASE m = n
      <4>1. x.strategies[n] = [w.strategies[n] EXCEPT !.interval = d]
        BY <2>3, <2>6 DEF Works
      <4> QED BY <2>4, <3>1, <4>1 DEF Strategies
    <3>2. CASE m # n
      BY <2>6, <3>2 DEF Works
    <3> QED BY <3>1, <3>2
  <2> QED BY <1>4, <2>3, <2>6, <2>7, <2>8
<1> QED BY <1>1, <1>2, <1>3, <1>4

\* What a call of New leaves: it has changed no strategy it does not name, nor given
\* away a fetcher for one; what it returns is complete, and as asked if that was
\* done with care.
LEMMA ConstructLeaves ==
    ASSUME NEW s \in Seq(Options), TypeOK
    PROVE  LET x == Construct(s)
           IN  /\ x \in Works
               /\ \A n \in Names :
                     \/ Named(s, Len(s), n)
                     \/ /\ x.strategies[n].task = strategies[n].task
                        /\ x.strategies[n].host = strategies[n].host
                        /\ x.strategies[n].receiver = strategies[n].receiver
               /\ \A f \in Fetchers :
                     \/ x.fetchers[f] = fetchers[f]
                     \/ /\ x.fetchers[f] \in DataFetchers
                        /\ x.fetchers[f].strategy \in Names
                        /\ Named(s, Len(s), x.fetchers[f].strategy)
               /\ x.ends = "no" =>
                     /\ x.ranker \in TaskRankers
                     /\ ~Rejects(x.ranker) /\ InSeconds(x.ranker.interval) # 0
                     /\ x.fetchers[x.ranker.fetcher] \in DataFetchers
<1> DEFINE w == Applied(s)
           x == Construct(s)
<1>1. Shared(w, s, Len(s))
  BY OptionsApplied
<1>2. x = Complete(w)
  BY DEF Construct, Applied
<1> HIDE DEF w, x
<1>3. w \in Works /\ (w.ends = "no" /\ w.ranker.strategy # Nil => w.ranker.fetcher # Nil)
  BY <1>1 DEF Shared
<1>4. /\ x \in Works /\ x.fetchers = w.fetchers /\ x.ranker = w.ranker
      /\ \A n \in Names :
            /\ x.strategies[n].task = w.strategies[n].task
            /\ x.strategies[n].host = w.strategies[n].host
            /\ x.strategies[n].receiver = w.strategies[n].receiver
      /\ x.ends = "no" =>
            /\ w.ends = "no" /\ x.ranker \in TaskRankers
            /\ ~Rejects(x.ranker) /\ InSeconds(x.ranker.interval) # 0
  BY <1>2, <1>3, CompleteEnds
<1>5. ASSUME NEW n \in Names, ~Named(s, Len(s), n)
      PROVE  /\ x.strategies[n].task = strategies[n].task
             /\ x.strategies[n].host = strategies[n].host
             /\ x.strategies[n].receiver = strategies[n].receiver
  <2>1. w.strategies[n] = strategies[n]
    BY <1>1, <1>5 DEF Shared
  <2> QED BY <1>4, <2>1
<1>6. ASSUME NEW f \in Fetchers
      PROVE  \/ x.fetchers[f] = fetchers[f]
             \/ /\ x.fetchers[f] \in DataFetchers
                /\ x.fetchers[f].strategy \in Names
                /\ Named(s, Len(s), x.fetchers[f].strategy)
  BY <1>1, <1>4 DEF Shared
<1>7. ASSUME x.ends = "no" PROVE x.fetchers[x.ranker.fetcher] \in DataFetchers
  <2>1. x.ranker.fetcher # Nil
    BY <1>4, <1>7, NilAssumption DEF TaskRankers
  <2> QED BY <1>1, <1>4, <2>1 DEF Shared
<1> QED BY <1>4, <1>5, <1>6, <1>7 DEF x

\* ... and as asked if that was done with care.
LEMMA ConstructAsked ==
    ASSUME NEW s \in Seq(Options), TypeOK, Construct(s).ends = "no", ~Careless(s)
    PROVE  LET x == Construct(s)
               n == LastOption(s, "strategy").name
               opts == LastOption(s, "strategy").opts
               ms == LastOption(opts, "labels").matchers
               f == x.fetchers[x.ranker.fetcher]
           IN  /\ x.ranker.strategy = n
               /\ x.strategies[n].task = LabelOf(ms, "TaskID", Nil)
               /\ x.strategies[n].host = LabelOf(ms, "TaskHostname", Nil)
               /\ x.strategies[n].receiver = LastOption(opts, "receiver").to
               /\ x.strategies[n].receiver # Nil
               /\ f.strategy = n /\ n \in Names
               /\ f.query = [metric |-> Metric(n), matchers |-> ms, range |-> RangeAsked(n, opts)]
<1> DEFINE w == Applied(s)
           x == Construct(s)
           n == LastOption(s, "strategy").name
           opts == LastOption(s, "strategy").opts
<1>1. Shared(w, s, Len(s))
  BY OptionsApplied
<1>2. x = Complete(w)
  BY DEF Construct, Applied
<1> HIDE DEF w
<1>3. w \in Works /\ (w.ends = "no" /\ w.ranker.strategy # Nil => w.ranker.fetcher # Nil)
  BY <1>1 DEF Shared
<1>4. /\ x.fetchers = w.fetchers /\ x.ranker = w.ranker /\ w.ends = "no"
      /\ \A m \in Names :
            /\ x.strategies[m].task = w.strategies[m].task
            /\ x.strategies[m].host = w.strategies[m].host
            /\ x.strategies[m].receiver = w.strategies[m].receiver
  BY <1>2, <1>3, CompleteEnds
<1>5. RankerAsked(w, s)
  BY <1>4, AppliedAsked DEF w
<1> HIDE DEF x
<1>6. /\ n \in Names /\ w.ranker.strategy = n
      /\ StrategyAsked(w.strategies[n], n, opts)
      /\ w.fetchers[w.ranker.fetcher].strategy = n
      /\ w.fetchers[w.ranker.fetcher].query =
            [metric |-> Metric(n), matchers |-> LastOption(opts, "labels").matchers,
             range |-> RangeAsked(n, opts)]
  BY <1>5 DEF RankerAsked
<1> HIDE DEF n, opts
<1>7. /\ x.strategies[n].task = LabelOf(LastOption(opts, "labels").matchers, "TaskID", Nil)
      /\ x.strategies[n].host = LabelOf(LastOption(opts, "labels").matchers, "TaskHostname", Nil)
      /\ x.strategies[n].receiver = LastOption(opts, "receiver").to
      /\ x.strategies[n].receiver # Nil
  BY <1>4, <1>6 DEF StrategyAsked
<1> QED BY <1>4, <1>6, <1>7 DEF x, n, opts

-----------------------------------------------------------------------------
(* Types, and what New has validated.                                      *)

\* An error or a data fetcher: the last endpoint, or none.
LEMMA FetcherType ==
    ASSUME NEW es \in Endpoints, NEW answers \in BOOLEAN
    PROVE  Fetcher(es, answers) \in DataFetchers \cup {Nil}
<1>1. es \in Seq(STRING)
  BY EndpointsAssumption
<1>2. es # <<>> => Last(es) \in STRING
  BY <1>1 DEF Last
<1> DEFINE e == IF es = <<>> THEN "" ELSE Last(es)
<1>3. e \in STRING \cup {""}
  BY <1>2
<1>4. Fetcher(es, answers) \in {Nil, [endpoint |-> e, strategy |-> Nil, query |-> Nil]}
  BY DEF Fetcher
<1> HIDE DEF e
<1>5. [endpoint |-> e, strategy |-> Nil, query |-> Nil] \in DataFetchers
  BY <1>3 DEF DataFetchers
<1> QED BY <1>4, <1>5

\* In the beginning there is nothing but two strategies with empty fields.
LEMMA TypesInitially == Init => TypeOK /\ Validated
<1> SUFFICES ASSUME Init PROVE TypeOK /\ Validated
  OBVIOUS
<1>1. Unbuilt \in Strategies
  <2>1. [unit |-> "", qty |-> 0] \in Ranges
    BY DEF Ranges
  <2>2. <<>> \in Seq(Matchers)
    OBVIOUS
  <2>3. Nil \in Receivers \cup {Nil} /\ "" \in STRING \cup {""} /\ 0 \in Int
    OBVIOUS
  <2> QED BY <2>1, <2>2, <2>3, Zenon DEF Unbuilt, Strategies
<1>2. TypeOK
  BY <1>1 DEF Init, TypeOK
<1> QED BY <1>2 DEF Init, Validated

\* A data fetcher is made.
LEMMA NewDataFetcherTypes ==
    ASSUME TypeOK, Validated, NEW f \in Fetchers, NewDataFetcher(f)
    PROVE  TypeOK' /\ Validated'
<1>1. PICK d \in DataFetchers \cup {Nil} : fetchers' = [fetchers EXCEPT ![f] = d]
  BY FetcherType DEF NewDataFetcher
<1>2. UNCHANGED <<strategies, rankers, options, flight, delivered, crashed>>
  BY DEF NewDataFetcher
<1>3. fetchers[f] = Nil
  BY DEF NewDataFetcher
<1>4. TypeOK'
  BY <1>1, <1>2 DEF TypeOK
<1>5. ASSUME NEW r \in Rankers, rankers[r] # Nil
      PROVE  fetchers'[rankers[r].fetcher] \in DataFetchers
  <2>1. rankers[r].fetcher \in Fetchers /\ fetchers[rankers[r].fetcher] \in DataFetchers
    BY <1>5 DEF TypeOK, Validated, TaskRankers
  <2>2. CASE rankers[r].fetcher = f
    <3>1. Nil \in DataFetchers
      BY <1>3, <2>1, <2>2
    <3> QED BY <1>1, <2>2, <3>1 DEF TypeOK
  <2>3. CASE rankers[r].fetcher # f
    BY <1>1, <2>1, <2>3 DEF TypeOK
  <2> QED BY <2>2, <2>3
<1>6. Validated'
  BY <1>2, <1>5 DEF Validated
<1> QED BY <1>4, <1>6

\* New, seen from outside.
LEMMA NewDoes ==
    ASSUME TypeOK, NEW r \in Rankers, New(r)
    PROVE  \E s \in Calls[r], x \in Works :
               /\ s \in Seq(Options) /\ x = Construct(s)
               /\ rankers[r] = Nil /\ flight[r] = Nil /\ delivered[r] = Nil
               /\ strategies' = x.strategies /\ fetchers' = x.fetchers
               /\ rankers' = [rankers EXCEPT ![r] = IF x.ends = "no" THEN x.ranker ELSE Nil]
               /\ options' = [options EXCEPT ![r] = IF x.ends = "error" THEN <<>> ELSE s]
               /\ crashed' = IF x.ends = "panic" THEN r ELSE Nil
               /\ flight' = flight /\ delivered' = delivered
<1>1. PICK s \in Calls[r] :
          /\ strategies' = Construct(s).strategies /\ fetchers' = Construct(s).fetchers
          /\ rankers' = [rankers EXCEPT ![r] = IF Construct(s).ends = "no"
                                              THEN Construct(s).ranker ELSE Nil]
          /\ options' = [options EXCEPT ![r] = IF Construct(s).ends = "error" THEN <<>> ELSE s]
          /\ crashed' = IF Construct(s).ends = "panic" THEN r ELSE Nil
  BY DEF New
<1>2. s \in Seq(Options)
  BY CallsAssumption
<1>3. rankers[r] = Nil /\ flight[r] = Nil /\ delivered[r] = Nil
  BY DEF New, TypeOK
<1>4. flight' = flight /\ delivered' = delivered
  BY DEF New
<1>5. Construct(s) \in Works
  BY <1>2, ConstructLeaves
<1> QED BY <1>1, <1>2, <1>3, <1>4, <1>5

\* A ranker is made, or not.
LEMMA NewTypes ==
    ASSUME TypeOK, Validated, NEW r \in Rankers, New(r)
    PROVE  TypeOK' /\ Validated'
<1>1. PICK s \in Calls[r], x \in Works :
          /\ s \in Seq(Options) /\ x = Construct(s)
          /\ rankers[r] = Nil /\ flight[r] = Nil /\ delivered[r] = Nil
          /\ strategies' = x.strategies /\ fetchers' = x.fetchers
          /\ rankers' = [rankers EXCEPT ![r] = IF x.ends = "no" THEN x.ranker ELSE Nil]
          /\ options' = [options EXCEPT ![r] = IF x.ends = "error" THEN <<>> ELSE s]
          /\ crashed' = IF x.ends = "panic" THEN r ELSE Nil
          /\ flight' = flight /\ delivered' = delivered
  BY NewDoes
<1>2. /\ x \in Works
      /\ \A f \in Fetchers : x.fetchers[f] = fetchers[f] \/ x.fetchers[f] \in DataFetchers
      /\ x.ends = "no" =>
            /\ x.ranker \in TaskRankers
            /\ ~Rejects(x.ranker) /\ InSeconds(x.ranker.interval) # 0
            /\ x.fetchers[x.ranker.fetcher] \in DataFetchers
  BY <1>1, ConstructLeaves
<1>4. /\ x.strategies \in [Names -> Strategies]
      /\ x.fetchers \in [Fetchers -> DataFetchers \cup {Nil}]
      /\ x.ends \in {"no", "error", "panic"}
  BY <1>2 DEF Works
<1>5. /\ rankers \in [Rankers -> TaskRankers \cup {Nil}] /\ options \in [Rankers -> Seq(Options)]
      /\ \A q \in Rankers :
            /\ rankers[q] # Nil => options[q] \in Calls[q]
            /\ rankers[q] = Nil => flight[q] = Nil /\ delivered[q] = Nil
      /\ flight \in [Rankers -> Queries \cup {Nil}]
      /\ delivered \in [Rankers -> Deliveries \cup {Nil}]
  BY DEF TypeOK
<1>6. /\ \A q \in Rankers \ {r} : rankers'[q] = rankers[q] /\ options'[q] = options[q]
      /\ rankers'[r] = IF x.ends = "no" THEN x.ranker ELSE Nil
      /\ options'[r] = IF x.ends = "error" THEN <<>> ELSE s
  BY <1>1, <1>5
<1>7. TypeOK'
  <2>1. /\ rankers' \in [Rankers -> TaskRankers \cup {Nil}]
        /\ options' \in [Rankers -> Seq(Options)]
    BY <1>1, <1>2, <1>5
  <2>2. ASSUME NEW q \in Rankers
        PROVE  /\ rankers'[q] # Nil => options'[q] \in Calls[q]
               /\ rankers'[q] = Nil => flight'[q] = Nil /\ delivered'[q] = Nil
    BY <1>1, <1>5, <1>6
  <2>3. crashed' \in Rankers \cup {Nil}
    BY <1>1
  <2> QED BY <1>1, <1>4, <1>5, <2>1, <2>2, <2>3 DEF TypeOK
<1>8. ASSUME NEW q \in Rankers, rankers'[q] # Nil
      PROVE  /\ fetchers'[rankers'[q].fetcher] \in DataFetchers
             /\ ~Rejects(rankers'[q])
             /\ InSeconds(rankers'[q].interval) # 0
  <2>1. CASE q = r
    <3>1. x.ends = "no" /\ rankers'[q] = x.ranker
      BY <1>6, <1>8, <2>1
    <3> QED BY <1>1, <1>2, <3>1
  <2>2. CASE q # r
    <3>1. rankers'[q] = rankers[q] /\ rankers[q] # Nil
      BY <1>6, <1>8, <2>2
    <3>2. rankers[q].fetcher \in Fetchers
      BY <1>5, <3>1 DEF TaskRankers
    <3>3. /\ fetchers[rankers[q].fetcher] \in DataFetchers
          /\ ~Rejects(rankers[q])
          /\ InSeconds(rankers[q].interval) # 0
      BY <3>1 DEF Validated
    <3> QED BY <1>1, <1>2, <3>1, <3>2, <3>3
  <2> QED BY <2>1, <2>2
<1>9. Validated'
  BY <1>8 DEF Validated
<1> QED BY <1>7, <1>9

\* The data fetcher of a ranker a run of which is on.
LEMMA FetcherInUse ==
    ASSUME TypeOK, Validated, NEW r \in Rankers, rankers[r] # Nil
    PROVE  /\ rankers[r] \in TaskRankers /\ rankers[r].strategy \in Names
           /\ rankers[r].fetcher \in Fetchers
           /\ fetchers[rankers[r].fetcher].query \in Queries \cup {Nil}
           /\ ~FetcherTaken(r) => fetchers[rankers[r].fetcher].query \in Queries
<1>1. rankers[r] \in TaskRankers
  BY DEF TypeOK
<1>2. rankers[r].strategy \in Names /\ rankers[r].fetcher \in Fetchers
  BY <1>1 DEF TaskRankers
<1>3. fetchers[rankers[r].fetcher] \in DataFetchers
  BY DEF Validated
<1> DEFINE f == fetchers[rankers[r].fetcher]
<1>4. \/ f.strategy = Nil /\ f.query = Nil
      \/ f.query \in Queries
  BY <1>3 DEF DataFetchers
<1>5. f.strategy = rankers[r].strategy => f.strategy # Nil
  BY <1>2, NilAssumption
<1> QED BY <1>1, <1>2, <1>4, <1>5 DEF FetcherTaken

\* A run sends its query, gives up, or delivers.
LEMMA FetchTypes ==
    ASSUME TypeOK, Validated, NEW r \in Rankers, Fetch(r)
    PROVE  TypeOK' /\ Validated'
<1>1. UNCHANGED <<strategies, fetchers, rankers, options, delivered>> /\ rankers[r] # Nil
  BY DEF Fetch
<1> DEFINE q == fetchers[rankers[r].fetcher].query
<1>2. q \in Queries \cup {Nil}
  BY <1>1, FetcherInUse
<1>3. \/ crashed' = r /\ flight' = flight
      \/ crashed' = crashed /\ \E e \in {Nil, q} : flight' = [flight EXCEPT ![r] = e]
  BY DEF Fetch
<1> HIDE DEF q
<1>4. /\ crashed' \in Rankers \cup {Nil} /\ flight' \in [Rankers -> Queries \cup {Nil}]
      /\ \A p \in Rankers : p # r => flight'[p] = flight[p]
  BY <1>2, <1>3 DEF TypeOK
<1>5. TypeOK'
  BY <1>1, <1>4 DEF TypeOK
<1> QED BY <1>1, <1>5 DEF Validated

\* A run that has nothing to rank ends.
LEMMA IdleTypes ==
    ASSUME TypeOK, Validated, NEW r \in Rankers, Idle(r)
    PROVE  TypeOK' /\ Validated'
<1>1. /\ UNCHANGED <<strategies, fetchers, rankers, options, delivered, crashed>>
      /\ flight' = [flight EXCEPT ![r] = Nil]
  BY DEF Idle
<1>2. TypeOK'
  BY <1>1 DEF TypeOK
<1> QED BY <1>1, <1>2 DEF Validated

\* A run delivers to a receiver, or panics without one.
LEMMA ExecuteTypes ==
    ASSUME TypeOK, Validated, NEW r \in Rankers, Execute(r)
    PROVE  TypeOK' /\ Validated'
<1> DEFINE s == strategies[rankers[r].strategy]
           d == [to |-> s.receiver, task |-> s.task, host |-> s.host, query |-> flight[r]]
<1>1. /\ UNCHANGED <<strategies, fetchers, rankers, options>> /\ flight[r] # Nil
      /\ flight' = [flight EXCEPT ![r] = Nil]
      /\ \/ s.receiver = Nil /\ crashed' = r /\ delivered' = delivered
         \/ s.receiver # Nil /\ crashed' = crashed /\ delivered' = [delivered EXCEPT ![r] = d]
  BY DEF Execute
<1>2. rankers[r] # Nil /\ flight[r] \in Queries
  BY <1>1 DEF TypeOK
<1>3. s \in Strategies
  BY <1>2, FetcherInUse DEF TypeOK
<1>4. s.receiver # Nil => d \in Deliveries
  BY <1>2, <1>3 DEF Strategies, Deliveries
<1> HIDE DEF s, d
<1>5. /\ crashed' \in Rankers \cup {Nil} /\ delivered' \in [Rankers -> Deliveries \cup {Nil}]
      /\ flight' \in [Rankers -> Queries \cup {Nil}]
      /\ \A q \in Rankers : q # r => delivered'[q] = delivered[q] /\ flight'[q] = flight[q]
  BY <1>1, <1>4 DEF TypeOK
<1>6. TypeOK'
  BY <1>1, <1>2, <1>5 DEF TypeOK
<1> QED BY <1>1, <1>6 DEF Validated

\* Types, and what New has validated, are kept by every step.
LEMMA TypesKept == TypeOK /\ Validated /\ [Next]_vars => TypeOK' /\ Validated'
<1> SUFFICES ASSUME TypeOK, Validated, [Next]_vars PROVE TypeOK' /\ Validated'
  OBVIOUS
<1>1. CASE UNCHANGED vars
  BY <1>1 DEF vars, TypeOK, Validated
<1>2. ASSUME NEW f \in Fetchers, NewDataFetcher(f) PROVE TypeOK' /\ Validated'
  BY <1>2, NewDataFetcherTypes
<1>3. ASSUME NEW r \in Rankers, New(r) PROVE TypeOK' /\ Validated'
  BY <1>3, NewTypes
<1>4. ASSUME NEW r \in Rankers, Fetch(r) PROVE TypeOK' /\ Validated'
  BY <1>4, FetchTypes
<1>5. ASSUME NEW r \in Rankers, Idle(r) PROVE TypeOK' /\ Validated'
  BY <1>5, IdleTypes
<1>6. ASSUME NEW r \in Rankers, Execute(r) PROVE TypeOK' /\ Validated'
  BY <1>6, ExecuteTypes
<1>7. Halted => UNCHANGED vars
  BY DEF Halted
<1> QED BY <1>1, <1>2, <1>3, <1>4, <1>5, <1>6, <1>7 DEF Next

\* The state of every component of Setup has its type, whatever the options New is
\* called with: what is built from a list of any length is complete when New returns
\* it, and what it was validated against is never taken back.
THEOREM SetupTypes == Spec => [](TypeOK /\ Validated)
<1>1. Init => TypeOK /\ Validated
  BY TypesInitially
<1>2. TypeOK /\ Validated /\ [Next]_vars => TypeOK' /\ Validated'
  BY TypesKept
<1> QED BY <1>1, <1>2, PTL DEF Spec

-----------------------------------------------------------------------------
(* Rankers of strategies of their own.                                     *)

\* No strategy is named in the calls for two rankers.
LEMMA NamesApart ==
    ASSUME OwnStrategies(Calls), NEW r \in Rankers, NEW q \in Rankers, r # q,
           NEW s \in Calls[r], NEW t \in Calls[q], NEW n, Named(s, Len(s), n)
    PROVE  ~Named(t, Len(t), n)
<1>1. s \in Seq(Options) /\ t \in Seq(Options)
  BY CallsAssumption
<1> SUFFICES ASSUME Named(t, Len(t), n) PROVE FALSE
  OBVIOUS
<1>2. PICK i \in 1 .. Len(s) : s[i].op = "strategy" /\ s[i].name = n
  BY DEF Named
<1>3. PICK j \in 1 .. Len(t) : t[j].op = "strategy" /\ t[j].name = n
  BY DEF Named
<1>4. i \in Given(s, "strategy") /\ j \in Given(t, "strategy")
  BY <1>1, <1>2, <1>3 DEF Given
<1> QED BY <1>2, <1>3, <1>4, Zenon DEF OwnStrategies

\* A list written with care names the strategy it asks for.
LEMMA AskedNamed ==
    ASSUME NEW s \in Seq(Options), ~Careless(s)
    PROVE  Named(s, Len(s), LastOption(s, "strategy").name)
<1>1. Given(s, "strategy") # {}
  BY CareGives
<1>2. PICK i \in 1 .. Len(s) :
          LastOption(s, "strategy") = s[i] /\ Newest(s, "strategy", Len(s), i)
  BY <1>1, LastIsNewest
<1> QED BY <1>2 DEF Named, Newest

\* What a ranker made with care has: the strategy as asked for, and its fetcher the
\* query as asked for unless it was taken; even then it has one.
StrategyAsAsked(r) ==
    LET s == strategies[rankers[r].strategy]
    IN  /\ rankers[r].strategy = AskedStrategy(r).name
        /\ s.task = AskedLabel(r, "TaskID")
        /\ s.host = AskedLabel(r, "TaskHostname")
        /\ s.receiver = Asked(r, "receiver").to
        /\ s.receiver # Nil
QueryAsAsked(r) ==
    ~FetcherTaken(r) =>
        fetchers[rankers[r].fetcher].query =
            [metric |-> Metric(AskedStrategy(r).name),
             matchers |-> Asked(r, "labels").matchers, range |-> AskedRange(r)]
HasQuery(r) == fetchers[rankers[r].fetcher].strategy \in Names
AsAsked(r) == StrategyAsAsked(r) /\ QueryAsAsked(r) /\ HasQuery(r)
StrategiesAsAsked == \A r \in Made : StrategyAsAsked(r)

\* The call of New for r makes r as it was asked to ...
LEMMA NewMakesAsAsked ==
    ASSUME TypeOK, Validated, NEW r \in Rankers, New(r), r \in Made'
    PROVE  AsAsked(r)'
<1>1. PICK s \in Calls[r], x \in Works :
          /\ s \in Seq(Options) /\ x = Construct(s)
          /\ rankers[r] = Nil /\ flight[r] = Nil /\ delivered[r] = Nil
          /\ strategies' = x.strategies /\ fetchers' = x.fetchers
          /\ rankers' = [rankers EXCEPT ![r] = IF x.ends = "no" THEN x.ranker ELSE Nil]
          /\ options' = [options EXCEPT ![r] = IF x.ends = "error" THEN <<>> ELSE s]
          /\ crashed' = IF x.ends = "panic" THEN r ELSE Nil
          /\ flight' = flight /\ delivered' = delivered
  BY NewDoes
<1>2. rankers'[r] # Nil /\ ~Careless(options'[r])
  BY DEF Made
<1>3. /\ rankers'[r] = IF x.ends = "no" THEN x.ranker ELSE Nil
      /\ options'[r] = IF x.ends = "error" THEN <<>> ELSE s
  BY <1>1 DEF TypeOK
<1>4. x.ends = "no" /\ rankers'[r] = x.ranker /\ options'[r] = s
  BY <1>2, <1>3
<1> DEFINE asked == LastOption(s, "strategy")
           ms == LastOption(asked.opts, "labels").matchers
<1>5. /\ x.ranker.strategy = asked.name
      /\ x.strategies[asked.name].task = LabelOf(ms, "TaskID", Nil)
      /\ x.strategies[asked.name].host = LabelOf(ms, "TaskHostname", Nil)
      /\ x.strategies[asked.name].receiver = LastOption(asked.opts, "receiver").to
      /\ x.strategies[asked.name].receiver # Nil
      /\ x.fetchers[x.ranker.fetcher].strategy \in Names
      /\ x.fetchers[x.ranker.fetcher].query =
            [metric |-> Metric(asked.name), matchers |-> ms,
             range |-> RangeAsked(asked.name, asked.opts)]
  BY <1>1, <1>2, <1>4, ConstructAsked
<1>6. AskedStrategy(r)' = asked
  BY <1>4 DEF AskedStrategy
<1>7. \A op : Asked(r, op)' = LastOption(asked.opts, op)
  BY <1>6 DEF Asked
<1>8. StrategyAsAsked(r)'
  BY <1>1, <1>4, <1>5, <1>6, <1>7 DEF StrategyAsAsked, AskedLabel
<1>9. AskedRange(r)' = RangeAsked(asked.name, asked.opts)
  BY <1>6, <1>7 DEF AskedRange, RangeAsked
<1>10. QueryAsAsked(r)'
  BY <1>1, <1>4, <1>5, <1>6, <1>7, <1>9 DEF QueryAsAsked
<1>11. HasQuery(r)'
  BY <1>1, <1>4, <1>5 DEF HasQuery
<1> QED BY <1>8, <1>10, <1>11 DEF AsAsked

\* ... and leaves the others what they were asked to be: it may take their fetchers.
LEMMA NewKeepsOthers ==
    ASSUME OwnStrategies(Calls), TypeOK, Validated,
           NEW r \in Rankers, New(r), NEW q \in Made, q # r,
           AsAsked(q)
    PROVE  AsAsked(q)'
<1>1. PICK s \in Calls[r], x \in Works :
          /\ s \in Seq(Options) /\ x = Construct(s)
          /\ rankers[r] = Nil /\ flight[r] = Nil /\ delivered[r] = Nil
          /\ strategies' = x.strategies /\ fetchers' = x.fetchers
          /\ rankers' = [rankers EXCEPT ![r] = IF x.ends = "no" THEN x.ranker ELSE Nil]
          /\ options' = [options EXCEPT ![r] = IF x.ends = "error" THEN <<>> ELSE s]
          /\ crashed' = IF x.ends = "panic" THEN r ELSE Nil
          /\ flight' = flight /\ delivered' = delivered
  BY NewDoes
<1>2. q \in Rankers /\ rankers[q] # Nil /\ ~Careless(options[q])
  BY DEF Made
<1>3. options[q] \in Calls[q] /\ options[q] \in Seq(Options)
  BY <1>2, CallsAssumption DEF TypeOK
<1>4. rankers'[q] = rankers[q] /\ options'[q] = options[q]
  BY <1>1, <1>2 DEF TypeOK
<1> DEFINE n == AskedStrategy(q).name
           f == rankers[q].fetcher
<1>5. ~Named(s, Len(s), n)
  BY <1>2, <1>3, AskedNamed, NamesApart DEF AskedStrategy
<1>6. rankers[q].strategy = n /\ n \in Names /\ f \in Fetchers
  BY <1>2, FetcherInUse DEF StrategyAsAsked, AsAsked
<1>7. /\ x.strategies[n].task = strategies[n].task
      /\ x.strategies[n].host = strategies[n].host
      /\ x.strategies[n].receiver = strategies[n].receiver
  BY <1>1, <1>5, <1>6, ConstructLeaves
<1>8. \/ x.fetchers[f] = fetchers[f]
      \/ x.fetchers[f].strategy \in Names /\ x.fetchers[f].strategy # n
  BY <1>1, <1>5, <1>6, ConstructLeaves
<1>9. AskedStrategy(q)' = AskedStrategy(q) /\ \A op : Asked(q, op)' = Asked(q, op)
  BY <1>4 DEF AskedStrategy, Asked
<1>10. /\ AskedRange(q)' = AskedRange(q)
       /\ AskedLabel(q, "TaskID")' = AskedLabel(q, "TaskID")
       /\ AskedLabel(q, "TaskHostname")' = AskedLabel(q, "TaskHostname")
  BY <1>9 DEF AskedRange, AskedLabel
<1> HIDE DEF n, f
<1>11. StrategyAsAsked(q)'
  BY <1>1, <1>4, <1>6, <1>7, <1>9, <1>10 DEF StrategyAsAsked, AsAsked
<1>12. QueryAsAsked(q)'
  <2>1. CASE x.fetchers[f] = fetchers[f]
    BY <1>1, <1>4, <1>9, <1>10, <2>1 DEF QueryAsAsked, FetcherTaken, AsAsked, f
  <2>2. CASE x.fetchers[f].strategy # n
    BY <1>1, <1>4, <1>6, <2>2 DEF QueryAsAsked, FetcherTaken, f
  <2> QED BY <1>8, <2>1, <2>2
<1>13. HasQuery(q)'
  BY <1>1, <1>4, <1>8 DEF HasQuery, AsAsked, f
<1> QED BY <1>11, <1>12, <1>13 DEF AsAsked

Standing == TypeOK /\ Validated
AllAsAsked == \A r \in Made : AsAsked(r)

\* Every step leaves the rankers made with care as they were asked to be.
LEMMA AsAskedKept ==
    OwnStrategies(Calls) /\ Standing /\ AllAsAsked /\ [Next]_vars => AllAsAsked'
<1> SUFFICES ASSUME OwnStrategies(Calls), TypeOK, Validated, AllAsAsked, [Next]_vars,
                    NEW q \in Made'
             PROVE  AsAsked(q)'
  BY DEF AllAsAsked, Standing
<1>1. q \in Rankers
  BY DEF Made
<1>2. ASSUME UNCHANGED <<strategies, fetchers, rankers, options>>
      PROVE  AsAsked(q)'
  <2>1. q \in Made
    BY <1>2 DEF Made
  <2>2. AsAsked(q)
    BY <2>1 DEF AllAsAsked
  <2> QED BY <1>2, <2>2 DEF AsAsked, StrategyAsAsked, QueryAsAsked, HasQuery, FetcherTaken,
                            AskedStrategy, Asked, AskedLabel, AskedRange
<1>3. ASSUME NEW f \in Fetchers, NewDataFetcher(f)
      PROVE  AsAsked(q)'
  <2>1. /\ UNCHANGED <<strategies, rankers, options>> /\ fetchers[f] = Nil
        /\ \E d : fetchers' = [fetchers EXCEPT ![f] = d]
    BY <1>3 DEF NewDataFetcher
  <2>2. q \in Made
    BY <2>1 DEF Made
  <2>3. AsAsked(q)
    BY <2>2 DEF AllAsAsked
  <2>4. StrategyAsAsked(q)'
    BY <2>1, <2>3 DEF AsAsked, StrategyAsAsked, AskedStrategy, Asked, AskedLabel
  <2>5. QueryAsAsked(q)' /\ HasQuery(q)'
    <3>1. CASE rankers[q].fetcher # f
      <4>1. rankers[q].fetcher \in Fetchers
        BY <1>1, <2>2, FetcherInUse DEF Made
      <4>2. fetchers'[rankers[q].fetcher] = fetchers[rankers[q].fetcher]
        BY <2>1, <3>1, <4>1 DEF TypeOK
      <4> QED BY <2>1, <2>3, <4>2 DEF AsAsked, QueryAsAsked, HasQuery, FetcherTaken, AskedStrategy,
                                         Asked, AskedRange
    <3>2. CASE rankers[q].fetcher = f
      <4>1. fetchers[f] \in DataFetchers
        BY <1>1, <2>2, <3>2 DEF Made, Validated
      <4> QED BY <2>1, <4>1, NilAssumption
    <3> QED BY <3>1, <3>2
  <2> QED BY <2>4, <2>5 DEF AsAsked
<1>4. ASSUME NEW r \in Rankers, New(r)
      PROVE  AsAsked(q)'
  <2>1. CASE q = r
    BY <1>4, <2>1, NewMakesAsAsked
  <2>2. CASE q # r
    <3>1. rankers'[q] = rankers[q] /\ options'[q] = options[q]
      BY <1>1, <1>4, <2>2, NewDoes DEF TypeOK
    <3>2. q \in Made
      BY <3>1 DEF Made
    <3> QED BY <1>4, <2>2, <3>2, NewKeepsOthers DEF AllAsAsked
  <2> QED BY <2>1, <2>2
<1>5. ASSUME NEW r \in Rankers, Fetch(r) \/ Idle(r) \/ Execute(r)
      PROVE  UNCHANGED <<strategies, fetchers, rankers, options>>
  BY <1>5 DEF Fetch, Idle, Execute
<1>6. UNCHANGED vars => UNCHANGED <<strategies, fetchers, rankers, options>>
  BY DEF vars
<1> QED BY <1>2, <1>3, <1>4, <1>5, <1>6 DEF Next, Halted

-----------------------------------------------------------------------------
(* What the caller may count on.                                           *)

\* Delivered to the receiver asked for: a ranker delivers only once it has been made,
\* and then by its strategy.
LEMMA FeedsKept ==
    Standing /\ AllAsAsked /\ FeedsTheCaller /\ [Next]_vars => FeedsTheCaller'
<1> SUFFICES ASSUME TypeOK, Validated, AllAsAsked, FeedsTheCaller, [Next]_vars,
                    NEW q \in Made', delivered'[q] # Nil
             PROVE  /\ delivered'[q].to = Asked(q, "receiver")'.to
                    /\ delivered'[q].task = AskedLabel(q, "TaskID")'
                    /\ delivered'[q].host = AskedLabel(q, "TaskHostname")'
  BY DEF FeedsTheCaller, Standing
<1> DEFINE Fed == /\ delivered'[q].to = Asked(q, "receiver")'.to
                  /\ delivered'[q].task = AskedLabel(q, "TaskID")'
                  /\ delivered'[q].host = AskedLabel(q, "TaskHostname")'
<1>1. q \in Rankers
  BY DEF Made
<1>2. ASSUME rankers'[q] = rankers[q], options'[q] = options[q]
      PROVE  /\ q \in Made
             /\ Asked(q, "receiver")' = Asked(q, "receiver")
             /\ AskedLabel(q, "TaskID")' = AskedLabel(q, "TaskID")
             /\ AskedLabel(q, "TaskHostname")' = AskedLabel(q, "TaskHostname")
  BY <1>1, <1>2 DEF Made, Asked, AskedStrategy, AskedLabel
<1>3. ASSUME rankers'[q] = rankers[q], options'[q] = options[q], delivered'[q] = delivered[q]
      PROVE  Fed
  BY <1>2, <1>3 DEF FeedsTheCaller
<1>4. ASSUME NEW r \in Rankers, New(r) PROVE Fed
  <2>1. CASE q = r
    <3>1. delivered'[q] = Nil
      BY <1>4, <2>1, NewDoes
    <3> QED BY <3>1
  <2>2. CASE q # r
    <3>1. rankers'[q] = rankers[q] /\ options'[q] = options[q] /\ delivered'[q] = delivered[q]
      BY <1>1, <1>4, <2>2, NewDoes DEF TypeOK
    <3> QED BY <1>3, <3>1
  <2> QED BY <2>1, <2>2
<1>5. ASSUME NEW r \in Rankers, Execute(r) PROVE Fed
  <2>1. UNCHANGED <<rankers, options>>
    BY <1>5 DEF Execute
  <2>2. CASE q = r /\ delivered' # delivered
    <3> DEFINE s == strategies[rankers[r].strategy]
               d == [to |-> s.receiver, task |-> s.task, host |-> s.host, query |-> flight[r]]
    <3>1. delivered' = [delivered EXCEPT ![r] = d]
      BY <1>5, <2>2 DEF Execute
    <3>2. delivered'[q] = d
      BY <2>2, <3>1 DEF TypeOK
    <3>3. q \in Made
      BY <1>2, <2>1
    <3>4. StrategyAsAsked(q)
      BY <3>3 DEF AllAsAsked, AsAsked
    <3> QED BY <1>2, <2>1, <2>2, <3>2, <3>4 DEF StrategyAsAsked
  <2>3. CASE ~(q = r /\ delivered' # delivered)
    <3>1. delivered'[q] = delivered[q]
      BY <1>1, <1>5, <2>3 DEF Execute, TypeOK
    <3> QED BY <1>3, <2>1, <3>1
  <2> QED BY <2>2, <2>3
<1>6. ASSUME UNCHANGED <<rankers, options, delivered>> PROVE Fed
  BY <1>3, <1>6
<1>7. ASSUME NEW f \in Fetchers, NewDataFetcher(f) PROVE UNCHANGED <<rankers, options, delivered>>
  BY <1>7 DEF NewDataFetcher
<1>8. ASSUME NEW r \in Rankers, Fetch(r) \/ Idle(r)
      PROVE  UNCHANGED <<rankers, options, delivered>>
  BY <1>8 DEF Fetch, Idle
<1>9. UNCHANGED vars => UNCHANGED <<rankers, options, delivered>>
  BY DEF vars
<1> HIDE DEF Fed
<1>10. Fed
  BY <1>4, <1>5, <1>6, <1>7, <1>8, <1>9 DEF Next, Halted
<1> QED BY <1>10 DEF Fed

\* A run of a ranker made with care has a query and a receiver: what New took from it
\* since, it has replaced.
LEMMA PanicsKept ==
    Standing /\ AllAsAsked /\ RunsSurvive /\ [Next]_vars => RunsSurvive'
<1> SUFFICES ASSUME TypeOK, Validated, AllAsAsked, RunsSurvive, [Next]_vars
             PROVE  RunsSurvive'
  BY DEF Standing
<1>1. CASE UNCHANGED vars
  BY <1>1 DEF vars, RunsSurvive
<1>2. ASSUME crashed = Nil, NEW f \in Fetchers, NewDataFetcher(f) PROVE RunsSurvive'
  BY <1>2 DEF NewDataFetcher, RunsSurvive
<1>3. ASSUME crashed = Nil, NEW r \in Rankers, Idle(r) PROVE RunsSurvive'
  BY <1>3 DEF Idle, RunsSurvive
<1>4. ASSUME NEW r \in Rankers, New(r) PROVE RunsSurvive'
  <2>1. PICK x \in Works :
            /\ rankers' = [rankers EXCEPT ![r] = IF x.ends = "no" THEN x.ranker ELSE Nil]
            /\ crashed' = IF x.ends = "panic" THEN r ELSE Nil
    BY <1>4, NewDoes
  <2>2. crashed' # Nil => crashed' = r /\ rankers'[r] = Nil
    BY <2>1 DEF TypeOK
  <2> QED BY <2>2 DEF RunsSurvive
<1>5. ASSUME crashed = Nil, NEW r \in Rankers, Fetch(r) PROVE RunsSurvive'
  <2> DEFINE q == fetchers[rankers[r].fetcher].query
  <2>1. /\ UNCHANGED <<fetchers, rankers, options>> /\ rankers[r] # Nil
        /\ crashed' = Nil \/ (crashed' = r /\ BuildPanics(q))
    BY <1>5 DEF Fetch
  <2>2. ASSUME ~Careless(options[r]) PROVE q # Nil
    <3>1. r \in Made
      BY <2>1, <2>2 DEF Made
    <3>2. fetchers[rankers[r].fetcher].strategy \in Names
      BY <3>1 DEF AllAsAsked, AsAsked, HasQuery
    <3>3. fetchers[rankers[r].fetcher] \in DataFetchers
      BY <2>1 DEF Validated
    <3> QED BY <3>2, <3>3, NilAssumption DEF DataFetchers
  <2>3. CASE crashed' = Nil
    BY <2>3 DEF RunsSurvive
  <2>4. CASE crashed' = r /\ BuildPanics(q)
    <3>1. Careless(options[r]) \/ LacksOperator(q.matchers)
      BY <2>2, <2>4 DEF BuildPanics
    <3> QED BY <2>1, <2>4, <3>1 DEF RunsSurvive
  <2> QED BY <2>1, <2>3, <2>4
<1>6. ASSUME crashed = Nil, NEW r \in Rankers, Execute(r) PROVE RunsSurvive'
  <2>1. /\ UNCHANGED <<fetchers, rankers, options>> /\ flight[r] # Nil
        /\ \/ crashed' = Nil
           \/ crashed' = r /\ strategies[rankers[r].strategy].receiver = Nil
    BY <1>6 DEF Execute
  <2>2. rankers[r] # Nil
    BY <2>1 DEF TypeOK
  <2>3. CASE crashed' = Nil
    BY <2>3 DEF RunsSurvive
  <2>4. CASE crashed' = r /\ strategies[rankers[r].strategy].receiver = Nil
    <3>1. ASSUME ~Careless(options[r]) PROVE FALSE
      <4>1. r \in Made
        BY <2>2, <3>1 DEF Made
      <4>2. StrategyAsAsked(r)
        BY <4>1 DEF AllAsAsked, AsAsked
      <4> QED BY <2>4, <4>2 DEF StrategyAsAsked
    <3> QED BY <2>1, <2>4, <3>1 DEF RunsSurvive
  <2> QED BY <2>1, <2>3, <2>4
<1> QED BY <1>1, <1>2, <1>3, <1>4, <1>5, <1>6 DEF Next, Halted

\* BuiltAsAsked, ranker by ranker.
LEMMA BuiltAsAskedIs == BuiltAsAsked <=> Validated /\ StrategiesAsAsked
BY DEF BuiltAsAsked, StrategiesAsAsked, StrategyAsAsked

\* QueryAsConfigured, ranker by ranker.
LEMMA QueryAsConfiguredIs == QueryAsConfigured <=> \A r \in Made : QueryAsAsked(r)
BY DEF QueryAsConfigured, QueryAsAsked

\* The strengthened invariant: with strategies of their own, rankers stay what New has
\* made of them, and no later call of New reaches what their runs depend on but their
\* fetcher.
THEOREM SetupInductive == ASSUME OwnStrategies(Calls) PROVE Spec => []SetupIInv
<1>1. Init => Standing /\ AllAsAsked /\ FeedsTheCaller /\ RunsSurvive
  <2> SUFFICES ASSUME Init
               PROVE  Standing /\ AllAsAsked /\ FeedsTheCaller /\ RunsSurvive
    OBVIOUS
  <2>1. Made = {} /\ crashed = Nil
    BY DEF Init, Made
  <2> QED BY <2>1, TypesInitially DEF Standing, AllAsAsked, FeedsTheCaller, RunsSurvive
<1>2. /\ Standing /\ AllAsAsked /\ FeedsTheCaller /\ RunsSurvive
      /\ [Next]_vars
      => (Standing /\ AllAsAsked /\ FeedsTheCaller /\ RunsSurvive)'
  BY TypesKept, AsAskedKept, FeedsKept, PanicsKept DEF Standing
<1>3. Standing /\ AllAsAsked /\ FeedsTheCaller /\ RunsSurvive => SetupIInv
  BY BuiltAsAskedIs, QueryAsConfiguredIs
     DEF Standing, AllAsAsked, AsAsked, StrategiesAsAsked, SetupIInv
<1> QED BY <1>1, <1>2, <1>3, PTL DEF Spec

\* A ranker made with care has the strategy, the labels and the receiver it was made
\* with, for good: the object they are kept in is the factory's, which every call of
\* New may reach.
THEOREM StrategiesStayAsAsked == ASSUME OwnStrategies(Calls) PROVE Spec => []BuiltAsAsked
<1>1. SetupIInv => BuiltAsAsked
  BY DEF SetupIInv
<1> QED BY <1>1, SetupInductive, PTL

\* It queries what it was configured to until its fetcher goes to another.
THEOREM QueriesAsConfigured == ASSUME OwnStrategies(Calls) PROVE Spec => []QueryAsConfigured
<1>1. SetupIInv => QueryAsConfigured
  BY DEF SetupIInv
<1> QED BY <1>1, SetupInductive, PTL

\* What its runs rank goes to the receiver it was made with.
THEOREM ResultsReachTheCaller == ASSUME OwnStrategies(Calls) PROVE Spec => []FeedsTheCaller
<1>1. SetupIInv => FeedsTheCaller
  BY DEF SetupIInv
<1> QED BY <1>1, SetupInductive, PTL

\* No run of a ranker made with care ends the process, whatever calls of New have
\* failed half way on its strategy and whoever has its fetcher now, unless a query it
\* sends has a matcher without an operator.
THEOREM RunsOfCareSurvive == ASSUME OwnStrategies(Calls) PROVE Spec => []RunsSurvive
<1>1. SetupIInv => RunsSurvive
  BY DEF SetupIInv
<1> QED BY <1>1, SetupInductive, PTL

\* Types alone need nothing of the caller.
THEOREM SetupTypesHold == Spec => []TypeOK
BY SetupTypes, PTL

-----------------------------------------------------------------------------
(* Schedules.                                                              *)

\* The first activation of "?/k" after a second it fires at: k later, or at the
\* next full minute.
LEMMA ActivationEvery ==
    ASSUME NEW k \in Seconds \ {0}, NEW s \in Every(k)
    PROVE  Activation(Every(k), s) = IF s + k < Minute THEN s + k ELSE Minute
<1> DEFINE u == IF s + k < Minute THEN s + k ELSE Minute
<1>1. k \in 1 .. 59 /\ s \in 0 .. 59 /\ s % k = 0
  BY DEF Every, Seconds, Minute
<1>2. u \in s + 1 .. s + Minute
  BY <1>1 DEF Minute
<1>3. u % Minute \in Every(k)
  <2>1. CASE s + k < Minute
    <3>1. (s + k) % k = 0
      BY <1>1
    <3>2. s + k \in 0 .. 59 /\ u = s + k
      BY <1>1, <2>1 DEF Minute
    <3> HIDE DEF u
    <3>3. u % Minute = u
      BY <3>2 DEF Minute
    <3> QED BY <3>1, <3>2, <3>3 DEF Every, Seconds, Minute
  <2>2. CASE ~(s + k < Minute)
    <3>1. 0 % k = 0
      BY <1>1
    <3> QED BY <1>1, <2>2, <3>1 DEF Every, Seconds, Minute
  <2> QED BY <2>1, <2>2
<1>4. ASSUME NEW v \in s + 1 .. u - 1 PROVE v % Minute \notin Every(k)
  <2>1. v \in 1 .. 59 /\ v % Minute = v /\ v - s \in 1 .. k - 1
    BY <1>1 DEF Minute
  <2>2. v % k # 0
    BY <1>1, <2>1
  <2> QED BY <2>1, <2>2 DEF Every
<1> DEFINE Fires(v) == v % Minute \in Every(k)
           First(v) == Fires(v) /\ \A x \in s + 1 .. v - 1 : ~Fires(x)
<1>5. First(u)
  BY <1>3, <1>4
<1>6. Activation(Every(k), s) = CHOOSE v \in s + 1 .. s + Minute : First(v)
  BY DEF Activation
<1>7. u \in Int /\ s \in Int /\ Minute \in Int
  BY <1>1 DEF Minute
<1> HIDE DEF u, Fires
<1>8. ASSUME NEW v \in s + 1 .. s + Minute, First(v) PROVE v = u
  <2>1. v < u => v \in s + 1 .. u - 1
    BY <1>7
  <2>2. u < v => u \in s + 1 .. v - 1
    BY <1>2, <1>7
  <2>3. ~(v < u) /\ ~(u < v)
    BY <1>5, <1>8, <2>1, <2>2
  <2> QED BY <1>7, <2>3
<1> HIDE DEF First
<1>9. (CHOOSE v \in s + 1 .. s + Minute : First(v)) = u
  BY <1>2, <1>5, <1>8, Zenon
<1> QED BY <1>6, <1>9 DEF u

\* A divisor of the minute and of k divides the times between activations of "?/k".
LEMMA DivisorDivides ==
    ASSUME NEW L \in 1 .. 60, Minute % L = 0, NEW k \in Seconds \ {0}, k % L = 0,
           NEW s \in Every(k)
    PROVE  (Activation(Every(k), s) - s) % L = 0
<1>1. k \in 1 .. 59 /\ s \in 0 .. 59 /\ s % k = 0
  BY DEF Every, Seconds, Minute
<1>2. L \in {1, 2, 3, 4, 5, 6, 10, 12, 15, 20, 30, 60}
  BY DEF Minute
<1> DEFINE m == k \div L
           d == s \div k
<1>3. m \in Int /\ d \in Int /\ k = L * m /\ s = k * d
  BY <1>1
<1> HIDE DEF m, d
<1> DEFINE p == m * d
<1>4. p \in Int /\ s = L * p
  BY <1>2, <1>3
<1> HIDE DEF p
<1>5. s % L = 0 /\ (Minute - s) % L = 0
  BY <1>2, <1>4 DEF Minute
<1>6. Activation(Every(k), s) - s \in {k, Minute - s}
  <2>1. (s + k) - s = k
    BY <1>1
  <2> QED BY <2>1, ActivationEvery
<1> QED BY <1>5, <1>6

\* Of a schedule that fires every so many seconds the first activation is enough of a
\* test, if the interval divides a minute: whatever New has let through fires at
\* multiples of it.
THEOREM SteppedSchedulesAreRegular == Spec => []SteppedGapsAreMultiples
<1>1. ASSUME TypeOK, Validated PROVE SteppedGapsAreMultiples
  <2> SUFFICES ASSUME NEW r \in Made, NEW k \in rankers[r].schedule \ {0},
                      Minute % Length(InSeconds(rankers[r].interval)) = 0,
                      rankers[r].schedule = Every(k)
               PROVE  Regular(r)
    BY DEF SteppedGapsAreMultiples
  <2> DEFINE secs == InSeconds(rankers[r].interval)
             L == Length(secs)
  <2>1. r \in Rankers /\ rankers[r] # Nil /\ ~Careless(options[r])
    BY DEF Made
  <2>2. rankers[r] \in TaskRankers /\ ~Rejects(rankers[r])
    BY <2>1, <1>1, FetcherInUse DEF Validated
  <2>3. secs # 0
    BY <2>1, <1>1 DEF Validated
  <2>4. secs \in Int
    <3>1. rankers[r].interval \in Int
      BY <2>2 DEF TaskRankers
    <3> QED BY <3>1 DEF InSeconds
  <2>5. Activation(Every(k), 0) % L = 0
    BY <2>2, <2>3 DEF Rejects
  <2> HIDE DEF secs
  <2>6. L \in 1 .. 60
    <3>1. L \in Nat \ {0}
      BY <2>3, <2>4 DEF Length
    <3>2. Minute % L = 0
      BY DEF secs
    <3> HIDE DEF L
    <3>3. L > 60 => 60 % L = 60
      BY <3>1
    <3> QED BY <3>1, <3>2, <3>3 DEF Minute
  <2>7. k \in Seconds \ {0}
    BY DEF Every
  <2>8. Activation(Every(k), 0) = k
    <3>1. 0 \in Every(k) /\ k \in 1 .. 59
      BY <2>7 DEF Every, Seconds, Minute
    <3>2. 0 + k < Minute /\ 0 + k = k
      BY <3>1 DEF Minute
    <3> QED BY <2>7, <3>1, <3>2, ActivationEvery
  <2>9. ASSUME NEW s \in Every(k) PROVE (Activation(Every(k), s) - s) % L = 0
    <3>1. Minute % L = 0
      BY DEF secs
    <3> HIDE DEF L
    <3> QED BY <2>5, <2>6, <2>7, <2>8, <3>1, DivisorDivides
  <2> QED BY <2>9 DEF Regular, GapsOf, secs
<1> QED BY <1>1, SetupTypes, PTL
=============================================================================
