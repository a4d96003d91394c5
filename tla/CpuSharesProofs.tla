--------------------------- MODULE CpuSharesProofs ---------------------------
(***************************************************************************)
(* Proofs about CpuShares, for every result a query may return: the        *)
(* receiver gets every labelled series, in the order of the averages.      *)
(***************************************************************************)
EXTENDS CpuShares, FiniteSetTheorems, TLAPS

SortFacts == INSTANCE RankingProofs WITH Less <- Heavier

-----------------------------------------------------------------------------

\* Sums(f, s, n): f[k] is the sum of the first k samples of s, of the first n.
Sums(f, s, n) == f = [k \in 0 .. n |-> IF k = 0 THEN 0 ELSE f[k - 1] + s[k]]

\* The sums one after the other define a function.
LEMMA SumsExist ==
    ASSUME NEW s, NEW n \in Nat
    PROVE  \E f : Sums(f, s, n)
<1> DEFINE T == {m \in Nat : \E f : Sums(f, s, m)}
<1>1. 0 \in T
  <2> DEFINE g == [k \in 0 .. 0 |-> 0]
  <2>1. Sums(g, s, 0)
    BY DEF Sums
  <2> QED BY <2>1
<1>2. ASSUME NEW m \in Nat, m \in T PROVE m + 1 \in T
  <2>1. PICK f : Sums(f, s, m)
    BY <1>2
  <2> DEFINE g == [k \in 0 .. m + 1 |-> IF k = m + 1 THEN f[m] + s[m + 1] ELSE f[k]]
  <2>2. ASSUME NEW k \in 0 .. m + 1
        PROVE  g[k] = IF k = 0 THEN 0 ELSE g[k - 1] + s[k]
    <3>1. CASE k = m + 1
      BY <3>1
    <3>2. CASE k \in 0 .. m
      <4>1. f[k] = IF k = 0 THEN 0 ELSE f[k - 1] + s[k]
        BY <2>1, <3>2 DEF Sums
      <4> QED BY <4>1, <3>2
    <3> QED BY <3>1, <3>2
  <2>3. g = [k \in 0 .. m + 1 |-> IF k = 0 THEN 0 ELSE g[k - 1] + s[k]]
    BY <2>2, Zenon
  <2>4. Sums(g, s, m + 1)
    BY <2>3, Zenon DEF Sums
  <2>5. m + 1 \in Nat
    OBVIOUS
  <2> QED BY <2>4, <2>5, Zenon
<1>3. Nat \subseteq T
  <2> HIDE DEF T
  <2> QED BY <1>1, <1>2, SortFacts!NatInSet
<1> QED BY <1>3

\* The samples of a series have a sum.
LEMMA TotalNat == ASSUME NEW s \in Seq(Nat) PROVE Total(s) \in Nat
<1> DEFINE f == CHOOSE g : Sums(g, s, Len(s))
<1>1. Len(s) \in Nat
  OBVIOUS
<1>2. Sums(f, s, Len(s))
  BY <1>1, SumsExist, Zenon
<1>3. Total(s) = f[Len(s)]
  BY Zenon DEF Total, Sums
<1> HIDE DEF f
<1>4. f[0] = 0 /\ \A k \in 1 .. Len(s) : f[k] = f[k - 1] + s[k]
  <2>1. \A k \in 0 .. Len(s) : f[k] = IF k = 0 THEN 0 ELSE f[k - 1] + s[k]
    BY <1>2 DEF Sums
  <2> QED BY <1>1, <2>1
<1> DEFINE T == {k \in Nat : k <= Len(s) => f[k] \in Nat}
<1>5. 0 \in T
  BY <1>4
<1>6. ASSUME NEW k \in Nat, k \in T PROVE k + 1 \in T
  <2> SUFFICES ASSUME k + 1 <= Len(s) PROVE f[k + 1] \in Nat
    OBVIOUS
  <2>1. k + 1 \in 1 .. Len(s) /\ (k + 1) - 1 = k /\ s[k + 1] \in Nat /\ f[k] \in Nat
    BY <1>1, <1>6
  <2> QED BY <1>4, <2>1
<1>7. Nat \subseteq T
  <2> HIDE DEF T
  <2> QED BY <1>5, <1>6, SortFacts!NatInSet
<1> QED BY <1>1, <1>3, <1>7

-----------------------------------------------------------------------------

\* Weights that are averages: of at least one sample.
Averaged == {e \in Ranked : e.weight.count > 0}

\* What stands before what, by the averages.
Order == {e \in Averaged \X Averaged : ~Heavier(e[2], e[1])}

\* A product keeps an order if its factor is positive.
LEMMA Scaled ==
    ASSUME NEW m \in Nat, NEW n \in Nat, NEW k \in Nat \ {0}
    PROVE  m * k >= n * k <=> m >= n
  OBVIOUS

\* The averages are ordered: cross-multiplying is transitive.
LEMMA CrossTransitive ==
    ASSUME NEW a \in Nat, NEW b \in Nat, NEW c \in Nat,
           NEW x \in Nat \ {0}, NEW y \in Nat \ {0}, NEW z \in Nat \ {0},
           a * y >= b * x, b * z >= c * y
    PROVE  a * z >= c * x
<1>1. (a * y) * z >= (b * x) * z
  BY Scaled
<1>2. (b * z) * x >= (c * y) * x
  BY Scaled
<1>3. /\ (b * x) * z = (b * z) * x
      /\ (a * y) * z = (a * z) * y
      /\ (c * y) * x = (c * x) * y
  OBVIOUS
<1>4. (a * z) * y >= (c * x) * y
  <2>1. /\ (a * z) * y \in Nat /\ (c * x) * y \in Nat /\ (b * z) * x \in Nat
    OBVIOUS
  <2> QED BY <1>1, <1>2, <1>3, <2>1
<1> QED BY <1>4, Scaled

\* The order of the averages is total and transitive.
LEMMA OrderTotal ==
    /\ \A a, b \in Averaged : IF Heavier(a, b) THEN <<a, b>> \in Order ELSE <<b, a>> \in Order
    /\ \A a, b, c \in Averaged :
           <<a, b>> \in Order /\ <<b, c>> \in Order => <<a, c>> \in Order
<1>1. \A e \in Averaged : e.weight.sum \in Nat /\ e.weight.count \in Nat \ {0}
  BY DEF Averaged, Ranked
<1>2. \A a, b \in Averaged :
          /\ a.weight.sum * b.weight.count \in Nat /\ b.weight.sum * a.weight.count \in Nat
          /\ <<a, b>> \in Order <=>
                 a.weight.sum * b.weight.count >= b.weight.sum * a.weight.count
  <2> TAKE a, b \in Averaged
  <2>1. a.weight.sum * b.weight.count \in Nat /\ b.weight.sum * a.weight.count \in Nat
    BY <1>1
  <2>2. <<a, b>> \in Order <=> ~Heavier(b, a)
    BY DEF Order
  <2> QED BY <2>1, <2>2 DEF Heavier
<1>3. ASSUME NEW a \in Averaged, NEW b \in Averaged
      PROVE  IF Heavier(a, b) THEN <<a, b>> \in Order ELSE <<b, a>> \in Order
  <2>1. Heavier(a, b) <=> a.weight.sum * b.weight.count > b.weight.sum * a.weight.count
    BY DEF Heavier
  <2> QED BY <1>2, <2>1
<1>4. ASSUME NEW a \in Averaged, NEW b \in Averaged, NEW c \in Averaged,
             <<a, b>> \in Order, <<b, c>> \in Order
      PROVE  <<a, c>> \in Order
  <2>1. /\ a.weight.sum * b.weight.count >= b.weight.sum * a.weight.count
        /\ b.weight.sum * c.weight.count >= c.weight.sum * b.weight.count
    BY <1>2, <1>4
  <2>2. a.weight.sum * c.weight.count >= c.weight.sum * a.weight.count
    BY <1>1, <2>1, CrossTransitive
  <2> QED BY <1>2, <2>2
<1> QED BY <1>3, <1>4

\* Sorted, a list is heaviest first, and what does not outweigh each other is in
\* the order it was in.
LEMMA SortedShares ==
    ASSUME NEW s \in Seq(Averaged)
    PROVE  /\ Sort!SliceStable(s) \in Seq(Averaged)
           /\ Len(Sort!SliceStable(s)) = Len(s)
           /\ \E p \in [1 .. Len(s) -> 1 .. Len(s)] :
                  /\ \A k \in 1 .. Len(s) : \E i \in 1 .. Len(s) : p[i] = k
                  /\ \A i \in 1 .. Len(s) : Sort!SliceStable(s)[i] = s[p[i]]
                  /\ \A i, j \in 1 .. Len(s) : i < j =>
                         \/ Heavier(s[p[i]], s[p[j]])
                         \/ p[i] < p[j] /\ ~Heavier(s[p[j]], s[p[i]])
<1> DEFINE t == SortFacts!SliceStable(s)
<1>1. Sort!SliceStable(s) = t
  BY DEF Sort!SliceStable, Sort!Insert, SortFacts!SliceStable, SortFacts!Insert
<1>2. t \in Seq(Averaged) /\ Len(t) = Len(s)
  BY SortFacts!SliceStableArranges
<1>3. \E p : SortFacts!Places(p, t, s, Len(s))
  BY SortFacts!SliceStableArranges
<1>4. PICK p \in [1 .. Len(s) -> 1 .. Len(s)] :
          /\ \A k \in 1 .. Len(s) : \E i \in 1 .. Len(s) : p[i] = k
          /\ \A i \in 1 .. Len(s) : t[i] = s[p[i]]
          /\ \A i, j \in 1 .. Len(s) : i < j => p[i] < p[j] \/ Heavier(t[i], t[j])
  BY <1>3, Zenon DEF SortFacts!Places
<1>5. SortFacts!Ordered(t, Order)
  <2> HIDE DEF t
  <2> QED BY OrderTotal, SortFacts!SliceStableSorts DEF t
<1>6. ASSUME NEW i \in 1 .. Len(s), NEW j \in 1 .. Len(s), i < j
      PROVE  ~Heavier(t[j], t[i])
  <2> HIDE DEF t
  <2>1. <<t[i], t[j]>> \in Order
    BY <1>2, <1>5, <1>6 DEF SortFacts!Ordered
  <2> QED BY <2>1 DEF Order
<1> HIDE DEF t
<1>7. \A i, j \in 1 .. Len(s) : i < j =>
          \/ Heavier(s[p[i]], s[p[j]])
          \/ p[i] < p[j] /\ ~Heavier(s[p[j]], s[p[i]])
  BY <1>4, <1>6
<1> QED BY <1>1, <1>2, <1>4, <1>7

-----------------------------------------------------------------------------

\* The series of a result.
LEMMA ResultSeries ==
    ASSUME result \in Results
    PROVE  /\ Len(result) \in 0 .. MaxSeries /\ DOMAIN result = 1 .. Len(result)
           /\ \A i \in 1 .. Len(result) : result[i] \in Series
<1>1. PICK n \in 0 .. MaxSeries : result \in [1 .. n -> Series]
  BY DEF Results
<1>2. n \in Nat
  BY MaxSeriesAssumption
<1>3. Len(result) = n
  BY <1>1, <1>2
<1> QED BY <1>1, <1>3

\* A labelled series makes a task with the average of its samples.
LEMMA EntryAveraged ==
    ASSUME result \in Results, NEW i \in 1 .. Len(result), result[i].task # NoLabel
    PROVE  /\ Entry(i, result[i]) \in Averaged
           /\ Entry(i, result[i]).metric = i /\ Entry(i, result[i]).task = result[i].task
           /\ Entry(i, result[i]).weight.sum = Total(result[i].values)
           /\ Entry(i, result[i]).weight.count = Len(result[i].values)
<1>1. /\ result[i] \in Series /\ i \in 1 .. MaxSeries
  BY ResultSeries, MaxSeriesAssumption
<1>2. result[i].task \in Tasks /\ result[i].values \in Values
  BY <1>1 DEF Series
<1>3. result[i].values \in Seq(Nat) /\ result[i].values # <<>>
  BY <1>2, ValuesAssumption
<1>4. Total(result[i].values) \in Nat /\ Len(result[i].values) \in Nat \ {0}
  BY <1>3, TotalNat
<1> QED BY <1>1, <1>2, <1>4 DEF Entry, AvgCpuShare, Averaged, Ranked

\* The order of two entries is that of their series.
LEMMA EntriesBefore ==
    ASSUME result \in Results, NEW i \in 1 .. Len(result), NEW j \in 1 .. Len(result),
           result[i].task # NoLabel, result[j].task # NoLabel,
           \/ Heavier(Entry(i, result[i]), Entry(j, result[j]))
           \/ i < j /\ ~Heavier(Entry(j, result[j]), Entry(i, result[i]))
    PROVE  Before(result, i, j)
<1> DEFINE u == Total(result[i].values) * Len(result[j].values)
           v == Total(result[j].values) * Len(result[i].values)
<1>1. u \in Nat /\ v \in Nat
  BY EntryAveraged DEF Averaged, Ranked
<1>2. /\ Heavier(Entry(i, result[i]), Entry(j, result[j])) <=> u > v
      /\ Heavier(Entry(j, result[j]), Entry(i, result[i])) <=> v > u
  BY EntryAveraged DEF Heavier
<1>3. u > v \/ (u = v /\ i < j)
  BY <1>1, <1>2
<1> QED BY <1>3 DEF Before

\* The lists in the order of the result, sorted, are what the receiver may get.
LEMMA HostRanked ==
    ASSUME IInv, ~received.done, next > Len(result), NEW h \in DOMAIN tasks
    PROVE  /\ Sort!SliceStable(tasks[h]) \in Seq(Ranked)
           /\ Ranks(Sort!SliceStable(tasks[h]), result, h)
<1> DEFINE s == Sort!SliceStable(tasks[h])
           r == tasks[h]
           n == Len(r)
           of == SeriesOf(result, h, Len(result))
<1>1. /\ result \in Results /\ Len(result) \in Nat /\ DOMAIN result = 1 .. Len(result)
      /\ next = Len(result) + 1 /\ InOrder /\ r \in Seq(Ranked)
  BY ResultSeries DEF IInv, TypeOK
<1>2. /\ {r[k].metric : k \in DOMAIN r} = of
      /\ \A k \in DOMAIN r : r[k] = Entry(r[k].metric, result[r[k].metric])
      /\ \A k, l \in DOMAIN r : k < l => r[k].metric < r[l].metric
  <2>1. next - 1 = Len(result)
    BY <1>1
  <2> QED BY <1>1, <2>1 DEF InOrder, Lists
<1>3. n \in Nat /\ DOMAIN r = 1 .. n
  BY <1>1
<1> HIDE DEF r, n, of
<1>4. ASSUME NEW k \in 1 .. n
      PROVE  /\ r[k].metric \in of /\ r[k] = Entry(r[k].metric, result[r[k].metric]) /\ r[k] \in Averaged
             /\ r[k].metric \in 1 .. Len(result)
             /\ result[r[k].metric].task # NoLabel
             /\ r[k].task = result[r[k].metric].task
  <2>1. r[k].metric \in of /\ r[k] = Entry(r[k].metric, result[r[k].metric])
    BY <1>2, <1>3
  <2>2. r[k].metric \in 1 .. Len(result) /\ result[r[k].metric].task # NoLabel
    BY <1>1, <2>1 DEF of, SeriesOf
  <2> QED BY <1>1, <2>1, <2>2, EntryAveraged
<1>5. r \in Seq(Averaged)
  BY <1>1, <1>3, <1>4
<1>6. /\ s \in Seq(Averaged) /\ Len(s) = n
      /\ \E p \in [1 .. n -> 1 .. n] :
             /\ \A k \in 1 .. n : \E i \in 1 .. n : p[i] = k
             /\ \A i \in 1 .. n : s[i] = r[p[i]]
             /\ \A i, j \in 1 .. n : i < j =>
                    \/ Heavier(r[p[i]], r[p[j]])
                    \/ p[i] < p[j] /\ ~Heavier(r[p[j]], r[p[i]])
  BY <1>5, SortedShares DEF r, n
<1>7. PICK p \in [1 .. n -> 1 .. n] :
          /\ \A k \in 1 .. n : \E i \in 1 .. n : p[i] = k
          /\ \A i \in 1 .. n : s[i] = r[p[i]]
          /\ \A i, j \in 1 .. n : i < j =>
                 \/ Heavier(r[p[i]], r[p[j]])
                 \/ p[i] < p[j] /\ ~Heavier(r[p[j]], r[p[i]])
  BY <1>6
<1> HIDE DEF s
<1>8. DOMAIN s = 1 .. n
  BY <1>3, <1>6
<1>9. {s[k].metric : k \in DOMAIN s} = of
  <2>1. ASSUME NEW i \in of PROVE \E k \in 1 .. n : s[k].metric = i
    <3>1. PICK l \in 1 .. n : r[l].metric = i
      BY <1>2, <1>3
    <3>2. PICK k \in 1 .. n : p[k] = l
      BY <1>7
    <3> QED BY <1>7, <3>1, <3>2
  <2>2. ASSUME NEW k \in 1 .. n PROVE s[k].metric \in of
    <3>1. p[k] \in 1 .. n /\ s[k] = r[p[k]]
      BY <1>7
    <3> QED BY <1>4, <3>1
  <2> QED BY <1>8, <2>1, <2>2
<1>10. ASSUME NEW k \in 1 .. n PROVE s[k].task = result[s[k].metric].task
  <2>1. p[k] \in 1 .. n /\ s[k] = r[p[k]]
    BY <1>7
  <2> QED BY <1>4, <2>1
<1>11. ASSUME NEW k \in 1 .. n, NEW l \in 1 .. n, k < l
       PROVE  Before(result, s[k].metric, s[l].metric)
  <2> DEFINE x == r[p[k]]
             y == r[p[l]]
  <2>1. p[k] \in 1 .. n /\ p[l] \in 1 .. n
    OBVIOUS
  <2>2. s[k] = x /\ s[l] = y
    BY <1>7
  <2>3. Heavier(x, y) \/ (p[k] < p[l] /\ ~Heavier(y, x))
    BY <1>7, <1>11
  <2>4. p[k] < p[l] => x.metric < y.metric
    BY <1>2, <1>3, <2>1
  <2>5. /\ x = Entry(x.metric, result[x.metric]) /\ y = Entry(y.metric, result[y.metric])
        /\ x.metric \in 1 .. Len(result) /\ y.metric \in 1 .. Len(result)
        /\ result[x.metric].task # NoLabel /\ result[y.metric].task # NoLabel
    BY <1>4, <2>1
  <2> HIDE DEF x, y
  <2>6. Before(result, x.metric, y.metric)
    BY <1>1, <2>3, <2>4, <2>5, EntriesBefore
  <2> QED BY <2>2, <2>6
<1>12. n = Cardinality(of)
  <2> DEFINE f == [k \in 1 .. n |-> r[k].metric]
  <2>1. f \in [1 .. n -> of]
    BY <1>4
  <2>2. \A a, b \in 1 .. n : f[a] = f[b] => a = b
    <3>1. \A a, b \in 1 .. n : a < b => r[a].metric < r[b].metric
      BY <1>2, <1>3
    <3>2. \A a \in 1 .. n : r[a].metric \in Nat
      BY <1>4
    <3>3. \A a, b \in 1 .. n : a < b => f[a] # f[b]
      BY <3>1, <3>2
    <3>4. \A a, b \in 1 .. n : a = b \/ a < b \/ b < a
      BY <1>3
    <3> HIDE DEF f
    <3> QED BY <3>3, <3>4
  <2>3. \A i \in of : \E k \in 1 .. n : f[k] = i
    BY <1>2, <1>3
  <2>4. f \in Bijection(1 .. n, of)
    <3> HIDE DEF f
    <3> QED BY <2>1, <2>2, <2>3 DEF Bijection, Injection, Surjection, IsInjective
  <2>5. ExistsBijection(1 .. n, of)
    BY <2>4 DEF ExistsBijection
  <2> QED BY <1>3, <2>5, FS_CountingElements
<1>13. s \in Seq(Ranked)
  <2>1. Averaged \subseteq Ranked
    BY DEF Averaged
  <2> QED BY <1>6, <2>1
<1> QED BY <1>6, <1>8, <1>9, <1>10, <1>11, <1>12, <1>13 DEF s, of, Ranks

-----------------------------------------------------------------------------

\* Nothing is parsed yet.
LEMMA SharesInit == ASSUME Init PROVE IInv
<1>1. /\ result \in Results /\ next = 1 /\ tasks = NoTasks
      /\ received = [done |-> FALSE, tasks |-> NoTasks]
  BY DEF Init
<1>2. Len(result) \in Nat /\ DOMAIN tasks = {}
  BY <1>1, ResultSeries DEF NoTasks
<1>3. TypeOK
  BY <1>1, <1>2, MaxSeriesAssumption DEF TypeOK
<1>4. InOrder
  <2>1. 1 .. next - 1 = {}
    BY <1>1
  <2> QED BY <1>2, <2>1 DEF InOrder
<1> QED BY <1>1, <1>2, <1>3, <1>4 DEF IInv, RanksEverySeries

\* A series that is parsed is listed last, with its host.
LEMMA SharesAddEntry == ASSUME IInv, AddEntry PROVE IInv'
<1> DEFINE h   == result[next].host
           old == IF h \in DOMAIN tasks THEN tasks[h] ELSE <<>>
           new == IF result[next].task = NoLabel THEN old ELSE Append(old, Entry(next, result[next]))
<1>1. /\ next <= Len(result) /\ next' = next + 1
      /\ result' = result /\ received' = received
      /\ tasks' = IF h = NoLabel THEN tasks
                  ELSE [k \in DOMAIN tasks \cup {h} |-> IF k = h THEN new ELSE tasks[k]]
  BY DEF AddEntry
<1>2. /\ result \in Results /\ Len(result) \in 0 .. MaxSeries /\ TypeOK
      /\ next \in 1 .. Len(result) /\ next \in Nat /\ result[next] \in Series
  BY <1>1, ResultSeries DEF IInv
<1>3. ~received.done /\ InOrder
  BY <1>1, <1>2 DEF IInv
<1>4. h \in Hosts \cup {NoLabel} /\ DOMAIN tasks \subseteq Hosts /\ NoLabel \notin Hosts
  BY <1>2, LabelsAssumption DEF Series, TypeOK
<1> DEFINE Good(s, g, m) == s \in Seq(Ranked) /\ Lists(s, result, g, m)
<1>5. \A g \in DOMAIN tasks : Good(tasks[g], g, next - 1)
  BY <1>2, <1>3 DEF InOrder, TypeOK
<1>6. \A g : g \notin DOMAIN tasks => g = NoLabel \/ SeriesOf(result, g, next - 1) = {}
  BY <1>3 DEF InOrder, SeriesOf
<1>7. Good(old, h, next - 1) \/ h = NoLabel
  <2>1. CASE h \in DOMAIN tasks
    BY <1>5, <2>1
  <2>2. CASE h \notin DOMAIN tasks /\ h # NoLabel
    <3>1. old = <<>> /\ SeriesOf(result, h, next - 1) = {}
      BY <1>6, <2>2
    <3> HIDE DEF old
    <3> QED BY <3>1 DEF Lists
  <2> QED BY <2>1, <2>2
<1>8. ASSUME h # NoLabel PROVE Good(new, h, next)
  <2> HIDE DEF old
  <2>1. CASE result[next].task = NoLabel
    <3>1. SeriesOf(result, h, next) = SeriesOf(result, h, next - 1)
      BY <1>2, <2>1 DEF SeriesOf
    <3> HIDE DEF h
    <3> QED BY <1>7, <1>8, <2>1, <3>1 DEF Lists
  <2>2. CASE result[next].task # NoLabel
    <3> DEFINE e == Entry(next, result[next])
    <3>1. e \in Ranked /\ e.metric = next
      BY <1>2, <2>2, EntryAveraged DEF Averaged
    <3>2. SeriesOf(result, h, next) = SeriesOf(result, h, next - 1) \cup {next}
      BY <1>2, <2>2 DEF SeriesOf
    <3>3. Good(old, h, next - 1) /\ new = Append(old, e)
      BY <1>7, <1>8, <2>2
    <3>4. \A i \in SeriesOf(result, h, next - 1) : i \in Nat /\ i < next
      BY <1>2 DEF SeriesOf
    <3> HIDE DEF h, new
    <3>5. /\ old \in Seq(Ranked)
          /\ {old[k].metric : k \in DOMAIN old} = SeriesOf(result, h, next - 1)
          /\ \A k \in DOMAIN old : old[k] = Entry(old[k].metric, result[old[k].metric])
          /\ \A k, l \in DOMAIN old : k < l => old[k].metric < old[l].metric
      BY <3>3 DEF Lists
    <3>6. /\ new \in Seq(Ranked) /\ Len(new) = Len(old) + 1 /\ DOMAIN old = 1 .. Len(old)
          /\ Len(old) \in Nat /\ DOMAIN new = 1 .. Len(old) + 1
          /\ \A k \in 1 .. Len(old) : new[k] = old[k]
          /\ new[Len(old) + 1] = e
      BY <3>1, <3>3, <3>5
    <3> HIDE DEF e
    <3>7. \A k \in DOMAIN old : old[k].metric \in Nat /\ old[k].metric < next
      BY <3>4, <3>5
    <3>8. {new[k].metric : k \in DOMAIN new} = SeriesOf(result, h, next)
      <4>1. {new[k].metric : k \in DOMAIN new} = {old[k].metric : k \in DOMAIN old} \cup {e.metric}
        BY <3>6
      <4> QED BY <3>1, <3>2, <3>5, <4>1
    <3>9. \A k \in DOMAIN new : new[k] = Entry(new[k].metric, result[new[k].metric])
      BY <3>1, <3>5, <3>6 DEF e
    <3>10. \A k, l \in DOMAIN new : k < l => new[k].metric < new[l].metric
      BY <3>1, <3>5, <3>6, <3>7
    <3> QED BY <3>6, <3>8, <3>9, <3>10 DEF Lists
  <2> QED BY <2>1, <2>2
<1>9. ASSUME NEW g \in DOMAIN tasks, g # h PROVE Good(tasks[g], g, next)
  <2>1. SeriesOf(result, g, next) = SeriesOf(result, g, next - 1)
    BY <1>2, <1>9 DEF SeriesOf
  <2> QED BY <1>5, <2>1 DEF Lists
<1> HIDE DEF new
<1>10. DOMAIN tasks' = (DOMAIN tasks \cup {h}) \ {NoLabel}
  <2> HIDE DEF h
  <2> QED BY <1>1, <1>4
<1>11. \A g \in DOMAIN tasks' : Good(tasks'[g], g, next)
  <2> HIDE DEF Good, h
  <2> QED BY <1>1, <1>4, <1>8, <1>9, <1>10
<1>12. InOrder'
  <2>1. DOMAIN tasks' = {result[i].host : i \in 1 .. next} \ {NoLabel}
    <3>1. DOMAIN tasks = {result[i].host : i \in 1 .. next - 1} \ {NoLabel}
      BY <1>3 DEF InOrder
    <3>2. 1 .. next = (1 .. next - 1) \cup {next}
      BY <1>2
    <3> QED BY <1>10, <3>1, <3>2
  <2>2. next' - 1 = next
    BY <1>1, <1>2
  <2>3. \A g \in DOMAIN tasks' : Lists(tasks[g], result, g, next - 1)'
    BY <1>1, <1>11, <2>2
  <2> QED BY <1>1, <2>1, <2>2, <2>3 DEF InOrder
<1>13. TypeOK'
  <2>1. next' \in 1 .. MaxSeries + 1
    BY <1>1, <1>2, MaxSeriesAssumption
  <2>2. DOMAIN tasks' \subseteq Hosts
    BY <1>4, <1>10
  <2>3. \A g \in DOMAIN tasks' : tasks'[g] \in Seq(Ranked)
    BY <1>11
  <2> QED BY <1>1, <1>2, <2>1, <2>2, <2>3 DEF TypeOK
<1> QED BY <1>1, <1>2, <1>3, <1>12, <1>13 DEF IInv, RanksEverySeries

\* The lists of all hosts are sorted and received.
LEMMA SharesReceive == ASSUME IInv, Receive PROVE IInv'
<1>1. /\ next > Len(result) /\ ~received.done
      /\ tasks' = [h \in DOMAIN tasks |-> Sort!SliceStable(tasks[h])]
      /\ received' = [done |-> TRUE, tasks |-> tasks']
      /\ result' = result /\ next' = next
  BY DEF Receive
<1>2. /\ result \in Results /\ TypeOK /\ InOrder /\ next = Len(result) + 1
      /\ DOMAIN result = 1 .. Len(result) /\ Len(result) \in Nat
  BY <1>1, ResultSeries DEF IInv
<1>3. DOMAIN tasks = {result[i].host : i \in DOMAIN result} \ {NoLabel}
  BY <1>2 DEF InOrder
<1>4. /\ DOMAIN tasks' = DOMAIN tasks /\ received'.tasks = tasks' /\ received'.done = TRUE
      /\ \A h \in DOMAIN tasks : tasks'[h] \in Seq(Ranked) /\ Ranks(tasks'[h], result, h)
  BY <1>1, HostRanked
<1>5. TypeOK'
  BY <1>1, <1>2, <1>4 DEF TypeOK
<1>6. RanksEverySeries'
  BY <1>1, <1>3, <1>4 DEF RanksEverySeries
<1> QED BY <1>1, <1>2, <1>5, <1>6 DEF IInv

\* Each step of Execute keeps the invariant.
LEMMA SharesNext == ASSUME IInv, [Next]_vars PROVE IInv'
<1>1. ASSUME UNCHANGED vars PROVE IInv'
  <2>1. result' = result /\ next' = next /\ tasks' = tasks /\ received' = received
    BY <1>1 DEF vars
  <2>2. TypeOK'
    BY <2>1 DEF IInv, TypeOK
  <2>3. InOrder => InOrder'
    BY <2>1 DEF InOrder
  <2>4. RanksEverySeries'
    BY <2>1 DEF IInv, RanksEverySeries
  <2> QED BY <2>1, <2>2, <2>3, <2>4 DEF IInv
<1> QED BY <1>1, SharesAddEntry, SharesReceive DEF Next, Returned

\* Whatever the query returns, the lists are those of the series parsed so far.
THEOREM SharesInductive == Spec => []IInv
<1>1. Init => IInv
  BY SharesInit
<1>2. IInv /\ [Next]_vars => IInv'
  BY SharesNext
<1> QED BY <1>1, <1>2, PTL DEF Spec

\* Types: whatever is listed is a labelled task of a host.
THEOREM SharesTypes == Spec => []TypeOK
<1>1. IInv => TypeOK
  BY DEF IInv
<1> QED BY <1>1, SharesInductive, PTL

\* The receiver gets, of every host, exactly the series that name it and a task,
\* by the averages of their samples, ties in the order of the result.
THEOREM EverySeriesIsRanked == Spec => []RanksEverySeries
<1>1. IInv => RanksEverySeries
  BY DEF IInv
<1> QED BY <1>1, SharesInductive, PTL
=============================================================================
