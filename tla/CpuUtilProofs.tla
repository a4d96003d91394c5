---------------------------- MODULE CpuUtilProofs ----------------------------
(***************************************************************************)
(* Proofs about CpuUtil, for every cluster and every bound.                *)
(*                                                                         *)
(* First when runs do not overlap (see SlowScheduleNeverOverlaps in        *)
(* RankerProofs), no two queries have the same time and no other ranker is *)
(* made while a run executes: the strategy never crashes and weights are   *)
(* taken over windows that end later than they begin.                      *)
(*                                                                         *)
(* Then however many runs overlap, at whatever times, and whenever the     *)
(* strategy is built again: types hold, and what the receiver gets is well *)
(* formed.                                                                 *)
(***************************************************************************)
EXTENDS CpuUtil, TLAPS

\* One run after the other, at times of their own, and the strategy not built
\* again during one.
OneRun == \A r, q \in Runs : r = q
Serial == OneRun /\ ~BuildsInRuns /\ 0 \notin Intervals

-----------------------------------------------------------------------------

\* Rounding yields an integer, whatever the signs.
LEMMA RoundInt ==
    ASSUME NEW n \in Int, NEW d \in Int \ {0}
    PROVE  RoundDiv(n, d) \in Int
<1> DEFINE m == IF d < 0 THEN -n ELSE n
           e == IF d < 0 THEN -d ELSE d
<1>1. m \in Int /\ e \in Nat \ {0}
  OBVIOUS
<1>2. \A k \in Int : k \div (2 * e) \in Int
  <2> HIDE DEF e
  <2> QED
    BY <1>1
<1>3. /\ (2 * m + e) \in Int
      /\ (e - 2 * m) \in Int
  BY <1>1
<1>4. /\ (2 * m + e) \div (2 * e) \in Int
      /\ -((e - 2 * m) \div (2 * e)) \in Int
  BY <1>2, <1>3
<1> QED
  BY <1>4 DEF RoundDiv

\* A weight has its type over any window, be it backward or empty.
LEMMA WeightType ==
    ASSUME NEW base, NEW now,
           base.used \in Nat, now.used \in Nat, base.at \in Nat, now.at \in Nat
    PROVE  Weight(base, now) \in Weights
<1>1. CASE now.at = base.at
  <2> DEFINE used == now.used - base.used
  <2>1. now.at - base.at = 0
    BY <1>1
  <2>2. Weight(base, now) =
          [nan |-> used = 0, value |-> 0,
           inf |-> IF used > 0 THEN 1 ELSE IF used < 0 THEN -1 ELSE 0]
    BY <2>1 DEF Weight
  <2>3. (IF used > 0 THEN 1 ELSE IF used < 0 THEN -1 ELSE 0) \in -1 .. 1
    OBVIOUS
  <2>4. (used = 0) \in BOOLEAN
    OBVIOUS
  <2> HIDE DEF used
  <2> QED
    BY <2>2, <2>3, <2>4 DEF Weights
<1>2. CASE now.at # base.at
  <2>1. /\ Scale * (now.used - base.used) \in Int
        /\ now.at - base.at \in Int \ {0}
    BY <1>2, ScaleAssumption
  <2>2. Weight(base, now) = [nan |-> FALSE, inf |-> 0,
            value |-> RoundDiv(Scale * (now.used - base.used), now.at - base.at)]
    BY <2>1 DEF Weight
  <2>3. RoundDiv(Scale * (now.used - base.used), now.at - base.at) \in Int
    BY <2>1, RoundInt
  <2> QED
    BY <2>2, <2>3 DEF Weights
<1> QED
  BY <1>1, <1>2

-----------------------------------------------------------------------------

\* The initial state satisfies the inductive invariant.
LEMMA InitIInv == ASSUME Init PROVE IInv
<1>1. Types
  <2>1. MaxQueries \in Nat /\ MaxUsage \in Nat /\ MaxMetric \in Nat /\ MaxBuilds \in Nat
    BY BoundsAssumption
  <2>2. None \in Readings /\ NoEntry \in Entries
    BY <2>1 DEF None, Readings, NoEntry, Entries
  <2>3. clock \in Nat /\ sent \in 0 .. MaxQueries /\ builds \in 0 .. MaxBuilds
    BY <2>1 DEF Init
  <2>4. hosts \subseteq Hosts
    BY DEF Init
  <2>5. crashed \in BOOLEAN
    BY DEF Init
  <2>6. prev \in [Tasks -> Entries]
    BY <2>2 DEF Init
  <2>7. /\ stage \in [Runs -> Stages]
        /\ nth \in [Runs -> Nat]
        /\ at \in [Runs -> Nat]
        /\ vec \in [Runs -> [Containers -> Readings]]
        /\ todo \in [Runs -> SUBSET Containers]
        /\ half \in [Runs -> [task : Containers \cup {Nobody}, born : Nat]]
        /\ ranked \in [Runs -> [Hosts -> Seq(Rankings)]]
    BY <2>2 DEF Init, Stages
  <2> QED
    BY <2>3, <2>4, <2>5, <2>6, <2>7 DEF Types
<1>2. Sheltered /\ Latest
  BY DEF Init, Sheltered, Latest, NoEntry
<1>3. \A r \in Runs : Entered(r)
  BY DEF Init, Entered
<1>4. SuccessiveQueries
  BY DEF Init, SuccessiveQueries
<1> QED
  BY <1>1, <1>2, <1>3, <1>4 DEF IInv, NeverCrashes, Init

-----------------------------------------------------------------------------

\* A query finds some of the containers.
LEMMA QueryTypes == ASSUME Types, NEW r \in Runs, Query(r) PROVE Types'
<1>1. PICK d \in Intervals : clock' = clock + d
  BY DEF Query
<1>2. clock' \in Nat /\ sent' \in 0 .. MaxQueries /\ sent' \in Nat
  BY <1>1, IntervalsAssumption, BoundsAssumption DEF Types, Query
<1>3. PICK S \in SUBSET Containers :
          \E seen \in [S -> [metric : 1 .. MaxMetric, used : 0 .. MaxUsage]] :
             vec' = [vec EXCEPT ![r] =
                        [p \in Containers |-> IF p \in S THEN seen[p] ELSE None]]
  BY DEF Query
<1>4. PICK seen \in [S -> [metric : 1 .. MaxMetric, used : 0 .. MaxUsage]] :
          vec' = [vec EXCEPT ![r] =
                     [p \in Containers |-> IF p \in S THEN seen[p] ELSE None]]
  BY <1>3
<1>5. None \in Readings
  BY BoundsAssumption DEF None, Readings
<1>6. \A p \in Containers : (IF p \in S THEN seen[p] ELSE None) \in Readings
  BY <1>5, BoundsAssumption DEF Readings
<1>7. vec' \in [Runs -> [Containers -> Readings]]
  BY <1>4, <1>6 DEF Types
<1>8. /\ stage' = [stage EXCEPT ![r] = "fetching"]
      /\ at' = [at EXCEPT ![r] = clock'] /\ nth' = [nth EXCEPT ![r] = sent']
      /\ UNCHANGED <<builds, hosts, prev, todo, half, ranked, received, crashed>>
  BY DEF Query
<1>9. stage' \in [Runs -> Stages] /\ at' \in [Runs -> Nat] /\ nth' \in [Runs -> Nat]
  BY <1>2, <1>8 DEF Types, Stages
<1> QED
  BY <1>2, <1>7, <1>8, <1>9 DEF Types

\* A new query is later than every data point that is saved.
LEMMA QueryIInv ==
    ASSUME OneRun, 0 \notin Intervals, IInv, NEW r \in Runs, Query(r) PROVE IInv'
<1> USE DEF OneRun
<1>1. PICK d \in Intervals : clock' = clock + d
  BY DEF Query
<1>2. clock \in Nat /\ clock' \in Nat /\ clock < clock' /\ sent \in Nat /\ sent' > 0
  BY <1>1, IntervalsAssumption, BoundsAssumption DEF IInv, Types, Query
<1>3. Types'
  BY QueryTypes DEF IInv
<1>4. /\ stage[r] = "idle" /\ stage' = [stage EXCEPT ![r] = "fetching"]
      /\ at' = [at EXCEPT ![r] = clock'] /\ nth' = [nth EXCEPT ![r] = sent']
      /\ UNCHANGED <<builds, hosts, prev, todo, half, ranked, received, crashed>>
  BY DEF Query
<1>5. NeverCrashes' /\ Sheltered'
  BY <1>4 DEF IInv, NeverCrashes, Sheltered
<1>6. Latest'
  <2>1. \A p \in Tasks : prev[p].at \in Nat
    BY DEF IInv, Types, Entries
  <2>2. \A p \in Tasks : prev[p].at < clock'
    BY <1>2, <2>1 DEF IInv, Latest
  <2>3. at'[r] = clock' /\ clock' > 0 /\ nth'[r] > 0
    BY <1>2, <1>4 DEF IInv, Types
  <2> QED
    BY <1>2, <1>4, <2>1, <2>2, <2>3 DEF Latest
<1>7. Entered(r)'
  BY <1>4 DEF IInv, Types, Entered
<1>8. SuccessiveQueries'
  BY <1>4 DEF IInv, Entered, SuccessiveQueries
<1> QED
  BY <1>3, <1>5, <1>6, <1>7, <1>8 DEF IInv

\* The end of a run, with or without data, leaves no trace but the saved
\* data points.
LEMMA DoneIInv ==
    ASSUME OneRun, IInv, NEW r \in Runs, Done(r), half[r].task = Nobody,
           stage[r] # "idle",
           UNCHANGED <<clock, sent, builds, hosts, prev, todo, half, crashed>>
    PROVE  IInv'
<1> USE DEF OneRun, Done
<1>1. Types'
  <2>1. None \in Readings
    BY BoundsAssumption DEF None, Readings
  <2>2. /\ vec' \in [Runs -> [Containers -> Readings]]
        /\ at' \in [Runs -> Nat] /\ nth' \in [Runs -> Nat]
    BY <2>1 DEF IInv, Types
  <2>3. ranked' \in [Runs -> [Hosts -> Seq(Rankings)]]
    <3>1. [h \in Hosts |-> <<>>] \in [Hosts -> Seq(Rankings)]
      OBVIOUS
    <3> QED
      BY <3>1 DEF IInv, Types
  <2> QED
    BY <2>2, <2>3 DEF IInv, Types, Stages, Executing
<1>2. NeverCrashes' /\ Sheltered'
  BY DEF IInv, NeverCrashes, Sheltered
<1>3. Latest'
  BY DEF IInv, Types, Latest
<1>4. Entered(r)'
  BY DEF IInv, Types, Entered
<1>5. SuccessiveQueries'
  BY DEF IInv, Types, SuccessiveQueries
<1> QED
  BY <1>1, <1>2, <1>3, <1>4, <1>5 DEF IInv

\* The vector arrives: all its samples are still to be parsed.
LEMMA AnswerIInv == ASSUME OneRun, IInv, NEW r \in Runs, Answer(r) PROVE IInv'
<1> USE DEF OneRun, Answer
<1>1. Types'
  BY DEF IInv, Types, Stages, Executing, Samples
<1>2. NeverCrashes' /\ Sheltered'
  BY DEF IInv, NeverCrashes, Sheltered
<1>3. Samples(r)' = Samples(r)
  BY DEF Samples
<1>4. Latest'
  BY <1>3 DEF IInv, Types, Latest
<1>5. Entered(r)'
  BY <1>3 DEF IInv, Types, Entered
<1>6. SuccessiveQueries'
  BY DEF IInv, Types, SuccessiveQueries
<1> QED
  BY <1>1, <1>2, <1>4, <1>5, <1>6 DEF IInv

\* What the parsing loop leaves when it has done with a sample.
LEMMA ParsedFacts ==
    ASSUME Types, NEW r \in Runs, NEW p \in Containers, Parsed(r, p)
    PROVE  /\ stage' \in [Runs -> Stages] /\ stage'[r] = "parsing"
           /\ todo' \in [Runs -> SUBSET Containers] /\ todo'[r] = todo[r] \ {p}
           /\ half' \in [Runs -> [task : Containers \cup {Nobody}, born : Nat]]
           /\ half'[r].task = Nobody
<1>1. /\ stage' = [stage EXCEPT ![r] = "parsing"]
      /\ todo' = [todo EXCEPT ![r] = todo[r] \ {p}]
      /\ half' = [half EXCEPT ![r].task = Nobody]
  BY DEF Parsed
<1>2. "parsing" \in Stages
  BY DEF Stages, Executing
<1> QED
  BY <1>1, <1>2 DEF Types

\* A sample whose host is found is either on its way to its entry or done with.
LEMMA HostFoundFacts ==
    ASSUME Types, NEW r \in Runs, NEW p \in Containers, HostFound(r, p)
    PROVE  /\ stage' \in [Runs -> Stages] /\ todo' \in [Runs -> SUBSET Containers]
           /\ half' \in [Runs -> [task : Containers \cup {Nobody}, born : Nat]]
           /\ \/ /\ p \in Tasks /\ stage'[r] = "entering"
                 /\ half'[r].task = p /\ todo'[r] = todo[r]
              \/ /\ p \notin Tasks /\ stage'[r] = "parsing"
                 /\ half'[r].task = Nobody /\ todo'[r] = todo[r] \ {p}
<1>1. CASE p \in Tasks
  <2>1. /\ stage' = [stage EXCEPT ![r] = "entering"]
        /\ half' = [half EXCEPT ![r].task = p]
        /\ todo' = todo
    BY <1>1 DEF HostFound
  <2>2. "entering" \in Stages
    BY DEF Stages, Executing
  <2> QED
    BY <1>1, <2>1, <2>2 DEF Types
<1>2. CASE p \notin Tasks
  <2>1. Parsed(r, p)
    BY <1>2 DEF HostFound
  <2> QED
    BY <1>2, <2>1, ParsedFacts
<1> QED
  BY <1>1, <1>2

\* The host of a sample is known.
LEMMA FindHostIInv ==
    ASSUME OneRun, IInv, NEW r \in Runs, NEW p \in Containers, FindHost(r, p)
    PROVE  IInv'
<1> USE DEF OneRun
<1>1. /\ stage[r] = "parsing" /\ p \in todo[r] /\ p[1] \in hosts /\ HostFound(r, p)
      /\ UNCHANGED <<clock, sent, builds, hosts, prev, nth, at, vec, ranked,
                     received, crashed>>
  BY DEF FindHost
<1>2. Types
  BY DEF IInv
<1>3. Types'
  BY <1>1, <1>2, HostFoundFacts DEF Types
<1>4. NeverCrashes' /\ Sheltered'
  BY <1>1 DEF IInv, NeverCrashes, Sheltered
<1>5. Samples(r)' = Samples(r)
  BY <1>1 DEF Samples
<1>6. /\ stage'[r] \in {"entering", "parsing"}
      /\ todo'[r] \subseteq todo[r]
      /\ stage'[r] = "entering" => p \in todo'[r] \cap Tasks /\ half'[r].task = p
      /\ stage'[r] = "parsing" => half'[r].task = Nobody
      /\ (Samples(r) \cap Tasks) \ todo'[r] = (Samples(r) \cap Tasks) \ todo[r]
  BY <1>1, <1>2, HostFoundFacts
<1>7. Latest'
  BY <1>1, <1>5, <1>6 DEF IInv, Latest
<1>8. Entered(r)'
  BY <1>1, <1>5, <1>6 DEF IInv, Entered
<1>9. SuccessiveQueries'
  BY <1>1 DEF IInv, SuccessiveQueries
<1> QED
  BY <1>3, <1>4, <1>7, <1>8, <1>9 DEF IInv

\* The entry of a sample is there, or is found missing.
LEMMA FindEntryIInv ==
    ASSUME OneRun, IInv, NEW r \in Runs, FindEntry(r) PROVE IInv'
<1> USE DEF OneRun
<1> DEFINE p == half[r].task
<1>1. /\ stage[r] = "entering"
      /\ UNCHANGED <<clock, sent, builds, hosts, prev, nth, at, vec, ranked,
                     received, crashed>>
  BY DEF FindEntry
<1>2. /\ Types /\ p \in todo[r] \cap Tasks /\ p \in Containers /\ p[1] \in hosts
      /\ todo[r] \subseteq Samples(r)
  BY <1>1 DEF IInv, Entered, Tasks
<1>3. Samples(r)' = Samples(r)
  BY <1>1 DEF Samples
<1>4. NeverCrashes' /\ Sheltered'
  BY <1>1 DEF IInv, NeverCrashes, Sheltered
<1>5. SuccessiveQueries'
  BY <1>1 DEF IInv, SuccessiveQueries
<1>6. CASE prev[p] = NoEntry
  <2>1. stage' = [stage EXCEPT ![r] = "storing"] /\ UNCHANGED <<todo, half>>
    BY <1>6 DEF FindEntry
  <2>2. Types'
    BY <1>1, <1>2, <2>1 DEF Types, Stages, Executing
  <2>3. stage'[r] = "storing"
    BY <1>2, <2>1 DEF Types
  <2>4. Latest'
    BY <1>1, <1>3, <2>1, <2>3 DEF IInv, Latest
  <2>5. Entered(r)'
    BY <1>1, <1>2, <1>3, <1>6, <2>1, <2>3 DEF IInv, Entered
  <2> QED
    BY <1>4, <1>5, <2>2, <2>4, <2>5 DEF IInv
<1>7. CASE prev[p] # NoEntry
  <2>1. Parsed(r, p)
    BY <1>7 DEF FindEntry
  <2> HIDE DEF p
  <2>2. /\ stage'[r] = "parsing" /\ half'[r].task = Nobody /\ todo'[r] = todo[r] \ {p}
    BY <1>2, <2>1, ParsedFacts
  <2>3. Types'
    BY <1>1, <1>2, <2>1, ParsedFacts DEF Types
  <2>4. prev[p].born > 0
    BY <1>2, <1>7 DEF IInv, Sheltered
  <2>5. Latest'
    BY <1>1, <1>3, <2>2 DEF IInv, Latest
  <2>6. Entered(r)'
    BY <1>1, <1>2, <1>3, <2>2, <2>4 DEF IInv, Entered
  <2> QED
    BY <1>4, <1>5, <2>3, <2>5, <2>6 DEF IInv
<1> QED
  BY <1>6, <1>7

\* The entry of a sample that had none is stored, in the map of its host.
LEMMA StoreEntryIInv ==
    ASSUME OneRun, IInv, NEW r \in Runs, StoreEntry(r) PROVE IInv'
<1> USE DEF OneRun
<1> DEFINE p == half[r].task
<1>1. /\ stage[r] = "storing"
      /\ UNCHANGED <<clock, sent, builds, hosts, nth, at, vec, ranked, received>>
  BY DEF StoreEntry
<1>2. /\ Types /\ p \in todo[r] \cap Tasks /\ p \in Containers /\ p[1] \in hosts
      /\ todo[r] \subseteq Samples(r) /\ prev[p] = NoEntry
  BY <1>1 DEF IInv, Entered, Tasks
<1>3. prev' = [prev EXCEPT ![p] = Recorded(r, p)] /\ Parsed(r, p) /\ crashed' = crashed
  BY <1>2 DEF StoreEntry
<1> HIDE DEF p
<1>4. at[r] = clock /\ clock > 0 /\ clock \in Nat /\ nth[r] > 0 /\ nth[r] \in Nat
  BY <1>1 DEF IInv, Types, Latest
<1>5. vec[r][p] \in Readings
  BY <1>1, <1>2 DEF IInv, Types
<1>6. Recorded(r, p) \in Entries
  BY <1>4, <1>5, BoundsAssumption DEF Recorded, Entries, Readings
<1>7. prev'[p].born = nth[r] /\ prev'[p].at = 0
  BY <1>2, <1>3, <1>4, <1>5 DEF Recorded, Types
<1>8. \A q \in Tasks : q # p => prev'[q] = prev[q]
  BY <1>2, <1>3 DEF Types
<1>9. prev' \in [Tasks -> Entries]
  BY <1>2, <1>3, <1>6 DEF Types
<1>10. Types'
  BY <1>1, <1>2, <1>3, <1>9, ParsedFacts DEF Types
<1>11. /\ stage'[r] = "parsing" /\ half'[r].task = Nobody /\ todo'[r] = todo[r] \ {p}
  BY <1>2, <1>3, ParsedFacts
<1>12. NeverCrashes' /\ Sheltered'
  BY <1>1, <1>2, <1>3, <1>4, <1>7, <1>8 DEF IInv, NeverCrashes, Sheltered
<1>13. Samples(r)' = Samples(r)
  BY <1>1 DEF Samples
<1>14. Latest'
  <2>1. \A q \in Tasks : prev'[q].at < clock
    BY <1>1, <1>4, <1>7, <1>8 DEF IInv, Latest
  <2>2. \A q \in Tasks : prev'[q].at <= clock
    BY <1>4, <1>9, <2>1 DEF Entries
  <2>3. at'[r] = clock' /\ clock' > 0 /\ nth'[r] > 0
    BY <1>1, <1>4 DEF IInv, Latest
  <2> QED
    BY <1>1, <2>1, <2>2, <2>3 DEF Latest
<1>15. Entered(r)'
  BY <1>1, <1>2, <1>4, <1>7, <1>8, <1>11, <1>13 DEF IInv, Entered
<1>16. SuccessiveQueries'
  BY <1>1 DEF IInv, SuccessiveQueries
<1> QED
  BY <1>10, <1>12, <1>14, <1>15, <1>16 DEF IInv

\* A host is found missing.
LEMMA MissHostIInv ==
    ASSUME OneRun, IInv, NEW r \in Runs, NEW p \in Containers, MissHost(r, p)
    PROVE  IInv'
<1> USE DEF OneRun, MissHost
<1>1. half'[r].task = p /\ half'[r].born = half[r].born
  BY DEF IInv, Types
<1>2. Types'
  <2>1. half' \in [Runs -> [task : Containers \cup {Nobody}, born : Nat]]
    BY DEF IInv, Types
  <2> QED
    BY <2>1 DEF IInv, Types, Stages, Executing
<1>3. NeverCrashes' /\ Sheltered'
  BY DEF IInv, NeverCrashes, Sheltered
<1>4. Samples(r)' = Samples(r)
  BY DEF Samples
<1>5. Latest'
  BY <1>4 DEF IInv, Types, Latest
<1>6. Entered(r)'
  <2>1. /\ stage[r] = "parsing" /\ stage'[r] = "creating"
        /\ p \in todo[r] /\ p[1] \notin hosts
    BY DEF IInv, Types
  <2>2. /\ todo[r] \subseteq Samples(r)
        /\ \A q \in (Samples(r) \cap Tasks) \ todo[r] : prev[q].born > 0
        /\ \A h \in Hosts : ranked[r][h] = <<>>
    BY <2>1 DEF IInv, Entered
  <2>3. todo' = todo /\ prev' = prev /\ hosts' = hosts /\ ranked' = ranked
    OBVIOUS
  <2> HIDE DEF MissHost
  <2> QED
    BY <1>1, <1>4, <2>1, <2>2, <2>3 DEF Entered
<1>7. SuccessiveQueries'
  BY DEF IInv, SuccessiveQueries
<1> QED
  BY <1>2, <1>3, <1>5, <1>6, <1>7 DEF IInv

\* The empty map stored for a host replaces none: no entry is lost.
LEMMA CreateDropsNothing ==
    ASSUME IInv, NEW r \in Runs, CreateHost(r)
    PROVE  prev' = prev
<1> DEFINE c == half[r].task
<1>1. stage[r] = "creating" /\ prev' = [p \in Tasks |-> IF p[1] = c[1] THEN NoEntry ELSE prev[p]]
  BY DEF CreateHost
<1>2. c[1] \notin hosts
  BY <1>1 DEF IInv, Entered
<1> HIDE DEF c
<1>3. \A p \in Tasks : p[1] = c[1] => prev[p] = NoEntry
  BY <1>2 DEF IInv, Sheltered
<1>4. \A p \in Tasks : prev'[p] = prev[p]
  BY <1>1, <1>3
<1> QED
  BY <1>1, <1>4 DEF IInv, Types

\* Nor does the step that stores it disturb the invariant.
LEMMA CreateHostIInv ==
    ASSUME OneRun, IInv, NEW r \in Runs, CreateHost(r)
    PROVE  IInv'
<1> USE DEF OneRun
<1> DEFINE c == half[r].task
<1>1. /\ stage[r] = "creating" /\ hosts' = hosts \cup {c[1]} /\ HostFound(r, c)
      /\ prev' = [p \in Tasks |-> IF p[1] = c[1] THEN NoEntry ELSE prev[p]]
      /\ UNCHANGED <<clock, sent, builds, nth, at, vec, ranked, received,
                     crashed>>
  BY DEF CreateHost, WithHost
<1>2. /\ Types /\ c \in todo[r] /\ c \in Containers /\ c[1] \notin hosts /\ c[1] \in Hosts
  BY <1>1 DEF IInv, Types, Entered, Hosts
<1> HIDE DEF c
<1>3. prev' = prev
  BY CreateDropsNothing
<1>4. Types'
  <2>1. hosts' \subseteq Hosts
    BY <1>1, <1>2 DEF Types
  <2> QED
    BY <1>1, <1>2, <1>3, <2>1, HostFoundFacts DEF Types
<1>5. NeverCrashes' /\ Sheltered'
  BY <1>1, <1>3 DEF IInv, NeverCrashes, Sheltered
<1>6. Samples(r)' = Samples(r)
  BY <1>1 DEF Samples
<1>7. /\ stage'[r] \in {"entering", "parsing"}
      /\ todo'[r] \subseteq todo[r]
      /\ stage'[r] = "entering" => c \in todo'[r] \cap Tasks /\ half'[r].task = c
      /\ stage'[r] = "parsing" => half'[r].task = Nobody
      /\ (Samples(r) \cap Tasks) \ todo'[r] = (Samples(r) \cap Tasks) \ todo[r]
  BY <1>1, <1>2, HostFoundFacts
<1>8. Latest'
  BY <1>1, <1>3, <1>6, <1>7 DEF IInv, Latest
<1>9. Entered(r)'
  BY <1>1, <1>3, <1>6, <1>7 DEF IInv, Entered
<1>10. SuccessiveQueries'
  BY <1>1 DEF IInv, SuccessiveQueries
<1> QED
  BY <1>4, <1>5, <1>8, <1>9, <1>10 DEF IInv

\* Between two runs the strategy may lose all it has recorded: there is nothing
\* the invariant says of a run that does not execute yet.
LEMMA RebuildIInv == ASSUME Serial, IInv, Rebuild PROVE IInv'
<1>1. /\ \A r \in Runs : stage[r] \in {"idle", "fetching"}
      /\ builds' = builds + 1 /\ builds < MaxBuilds
      /\ hosts' = {} /\ prev' = [p \in Tasks |-> NoEntry]
      /\ UNCHANGED <<clock, sent, stage, nth, at, vec, todo, half, ranked,
                     received, crashed>>
  BY DEF Rebuild, Serial, local
<1>2. NoEntry \in Entries
  BY BoundsAssumption DEF NoEntry, Entries
<1>3. builds' \in 0 .. MaxBuilds
  BY <1>1, BoundsAssumption DEF IInv, Types
<1>4. Types'
  BY <1>1, <1>2, <1>3 DEF IInv, Types
<1>5. NeverCrashes' /\ Sheltered'
  BY <1>1 DEF IInv, NeverCrashes, Sheltered, NoEntry
<1>6. \A r \in Runs : Samples(r)' = Samples(r)
  BY <1>1 DEF Samples
<1>7. Latest'
  <2>1. clock \in Nat /\ \A p \in Tasks : prev'[p].at = 0
    BY <1>1 DEF IInv, Types, NoEntry
  <2> QED
    BY <1>1, <1>6, <2>1 DEF IInv, Latest
<1>8. \A r \in Runs : Entered(r)'
  BY <1>1, <1>6 DEF IInv, Entered
<1>9. SuccessiveQueries'
  BY <1>1 DEF IInv, SuccessiveQueries
<1> QED
  BY <1>4, <1>5, <1>7, <1>8, <1>9 DEF IInv

\* When the samples are parsed every task of them has its entry.
LEMMA ParsingDoneIInv ==
    ASSUME OneRun, IInv, NEW r \in Runs, ParsingDone(r)
    PROVE  IInv'
<1> USE DEF OneRun, ParsingDone
<1>1. Types'
  BY DEF IInv, Types, Stages, Executing, Samples
<1>2. NeverCrashes' /\ Sheltered'
  BY DEF IInv, NeverCrashes, Sheltered
<1>3. Samples(r)' = Samples(r)
  BY DEF Samples
<1>4. Latest'
  BY <1>3 DEF IInv, Types, Latest
<1>5. Entered(r)'
  BY <1>3 DEF IInv, Types, Entered
<1>6. SuccessiveQueries'
  BY DEF IInv, SuccessiveQueries
<1> QED
  BY <1>1, <1>2, <1>4, <1>5, <1>6 DEF IInv

\* A task is ranked over the window since its data point, which an earlier
\* query left.
LEMMA CalibrateIInv ==
    ASSUME OneRun, IInv, NEW r \in Runs, NEW p \in Containers, Calibrate(r, p)
    PROVE  IInv'
<1> USE DEF OneRun
<1>1. /\ stage[r] = "ranking" /\ p \in todo[r] /\ half[r].task = Nobody
      /\ UNCHANGED <<clock, sent, builds, hosts, stage, nth, at, vec, received>>
  BY DEF Calibrate
<1>2. p \in Samples(r) /\ p \in Tasks /\ prev[p].born > 0
  BY <1>1 DEF IInv, Entered
<1>3. /\ prev[p] \in Entries /\ vec[r][p] \in Readings
      /\ clock \in Nat /\ at[r] \in Nat
  BY <1>2 DEF IInv, Types
<1>4. prev[p] # NoEntry
  BY <1>2 DEF NoEntry
<1>5. /\ ranked' = IF prev[p].seen
                   THEN [ranked EXCEPT ![r][p[1]] = Append(@, Rank(r, p))]
                   ELSE ranked
      /\ prev' = [prev EXCEPT ![p].seen = TRUE, ![p].used = vec[r][p].used]
      /\ half' = [half EXCEPT ![r] = [task |-> p, born |-> prev[p].born]]
      /\ todo' = [todo EXCEPT ![r] = @ \ {p}]
      /\ crashed' = crashed
  BY <1>4 DEF Calibrate
<1>6. at[r] = clock /\ prev[p].at < clock
  BY <1>1, <1>2 DEF IInv, Latest
<1>7. /\ prev[p].used \in 0 .. MaxUsage /\ prev[p].used \in Nat /\ prev[p].at \in Nat
      /\ prev[p].metric \in 0 .. MaxMetric /\ prev[p].born \in Nat
      /\ vec[r][p].used \in 0 .. MaxUsage /\ vec[r][p].used \in Nat
  BY <1>3, BoundsAssumption DEF Entries, Readings
<1> DEFINE now == [used |-> vec[r][p].used, at |-> at[r]]
<1>8. Rank(r, p) = [task |-> p, metric |-> prev[p].metric,
                    weight |-> Weight(prev[p], now),
                    base |-> [used |-> prev[p].used, at |-> prev[p].at,
                              metric |-> prev[p].metric]]
  BY DEF Rank, DataPoint
<1>9. now.used = vec[r][p].used /\ now.at = clock
  BY <1>6
<1>10. Weight(prev[p], now) \in Weights
  <2>1. now.used \in Nat /\ now.at \in Nat
    BY <1>3, <1>7
  <2> HIDE DEF now
  <2> QED
    BY <1>7, <2>1, WeightType
<1>11. Rank(r, p) \in Rankings
  BY <1>2, <1>7, <1>8, <1>10 DEF Rankings
<1> HIDE DEF now
<1>12. \A q \in Tasks : q # p => prev'[q] = prev[q]
  BY <1>5 DEF IInv, Types
<1>13. /\ prev'[p].at = prev[p].at /\ prev'[p].born = prev[p].born
       /\ prev'[p].metric = prev[p].metric /\ prev'[p].used = vec[r][p].used
       /\ prev'[p] \in Entries
  BY <1>2, <1>3, <1>5, <1>7 DEF IInv, Types, Entries
<1>14. \A h \in Hosts : \A i \in DOMAIN ranked'[r][h] :
         \/ i \in DOMAIN ranked[r][h] /\ ranked'[r][h][i] = ranked[r][h][i]
         \/ ranked'[r][h][i] = Rank(r, p)
  <2> SUFFICES ASSUME NEW h \in Hosts, NEW i \in DOMAIN ranked'[r][h]
               PROVE  \/ i \in DOMAIN ranked[r][h] /\ ranked'[r][h][i] = ranked[r][h][i]
                      \/ ranked'[r][h][i] = Rank(r, p)
    OBVIOUS
  <2>1. ranked[r][h] \in Seq(Rankings)
    BY DEF IInv, Types
  <2>2. CASE prev[p].seen /\ h = p[1]
    <3>1. ranked'[r][h] = Append(ranked[r][h], Rank(r, p))
      BY <1>5, <2>2 DEF IInv, Types
    <3> QED
      BY <1>11, <2>1, <3>1
  <2>3. CASE ~(prev[p].seen /\ h = p[1])
    <3>1. ranked'[r][h] = ranked[r][h]
      BY <1>5, <2>3 DEF IInv, Types
    <3> QED
      BY <3>1
  <2> QED
    BY <2>2, <2>3
<1>15. Types'
  <2>1. ranked' \in [Runs -> [Hosts -> Seq(Rankings)]]
    <3>1. CASE prev[p].seen
      <4>1. p[1] \in Hosts
        BY DEF Hosts
      <4>2. ranked[r] \in [Hosts -> Seq(Rankings)]
        BY DEF IInv, Types
      <4>3. Append(ranked[r][p[1]], Rank(r, p)) \in Seq(Rankings)
        BY <1>11, <4>1, <4>2
      <4>4. ranked' = [ranked EXCEPT ![r] =
                          [ranked[r] EXCEPT ![p[1]] = Append(ranked[r][p[1]], Rank(r, p))]]
        BY <1>5, <3>1
      <4> QED
        BY <4>2, <4>3, <4>4 DEF IInv, Types
    <3>2. CASE ~prev[p].seen
      BY <1>5, <3>2 DEF IInv, Types
    <3> QED
      BY <3>1, <3>2
  <2>2. prev' \in [Tasks -> Entries]
    BY <1>5, <1>12, <1>13 DEF IInv, Types
  <2>3. half' \in [Runs -> [task : Containers \cup {Nobody}, born : Nat]]
    BY <1>5, <1>7 DEF IInv, Types
  <2>4. todo' \in [Runs -> SUBSET Containers]
    BY <1>5 DEF IInv, Types
  <2> QED
    BY <1>1, <1>5, <2>1, <2>2, <2>3, <2>4 DEF IInv, Types
<1>16. NeverCrashes' /\ Sheltered'
  BY <1>1, <1>2, <1>5, <1>12, <1>13 DEF IInv, NeverCrashes, Sheltered
<1>17. Samples(r)' = Samples(r)
  BY <1>1 DEF Samples
<1>18. todo'[r] = todo[r] \ {p} /\ half'[r].task = p
  BY <1>5 DEF IInv, Types
<1>19. Latest'
  <2>1. \A q \in Tasks : prev'[q].at = prev[q].at
    BY <1>12, <1>13
  <2> QED
    BY <1>1, <1>17, <1>18, <2>1 DEF IInv, Latest
<1>20. Entered(r)'
  BY <1>1, <1>2, <1>12, <1>13, <1>17, <1>18 DEF IInv, Entered
<1>21. SuccessiveQueries'
  <2>1. Rank(r, p).base.at < at[r]
    BY <1>6, <1>8
  <2> QED
    BY <1>1, <1>14, <2>1 DEF IInv, SuccessiveQueries
<1> QED
  BY <1>15, <1>16, <1>19, <1>20, <1>21 DEF IInv

\* The time of the query completes the data point: the task is not visited
\* again by this run, and the next query is later.
LEMMA StampIInv == ASSUME OneRun, IInv, NEW r \in Runs, Stamp(r) PROVE IInv'
<1> USE DEF OneRun
<1> DEFINE p == half[r].task
<1>1. /\ stage[r] = "ranking" /\ p # Nobody
      /\ prev' = IF prev[p].born = half[r].born
                 THEN [prev EXCEPT ![p] = Stamped(r, p)] ELSE prev
      /\ half' = [half EXCEPT ![r] = [task |-> Nobody, born |-> 0]]
      /\ UNCHANGED <<clock, sent, builds, hosts, stage, nth, at, vec, todo,
                     ranked, received, crashed>>
  BY DEF Stamp
<1>2. p \in Samples(r) /\ p \in Tasks
  BY <1>1 DEF IInv, Entered
<1> HIDE DEF p
<1>3. prev[p] \in Entries /\ at[r] \in Nat /\ at[r] = clock /\ clock \in Nat
  BY <1>1, <1>2 DEF IInv, Types, Latest
<1>4. \A q \in Tasks :
        /\ prev'[q].born = prev[q].born /\ prev'[q].metric = prev[q].metric
        /\ prev'[q].used = prev[q].used
        /\ prev'[q].at \in {prev[q].at, clock}
        /\ prev'[q] \in Entries
  BY <1>1, <1>2, <1>3 DEF IInv, Types, Stamped, Entries
<1>5. \A q \in Tasks : q # p => prev'[q] = prev[q]
  BY <1>1, <1>2 DEF IInv, Types
<1>6. half'[r].task = Nobody /\ Samples(r)' = Samples(r)
  BY <1>1 DEF IInv, Types, Samples
<1>7. Types'
  <2>1. prev' \in [Tasks -> Entries]
    BY <1>1, <1>4 DEF IInv, Types
  <2>2. half' \in [Runs -> [task : Containers \cup {Nobody}, born : Nat]]
    BY <1>1 DEF IInv, Types
  <2> QED
    BY <1>1, <2>1, <2>2 DEF IInv, Types
<1>8. NeverCrashes' /\ Sheltered'
  BY <1>1, <1>2, <1>4, <1>5 DEF IInv, NeverCrashes, Sheltered, Entered
<1>9. Latest'
  <2>1. \A q \in Tasks : prev'[q].at <= clock
    BY <1>3, <1>4 DEF IInv, Latest
  <2>2. p \notin todo[r]
    BY <1>1, ContainersAssumption DEF IInv, Entered, p
  <2>3. \A q \in todo[r] : q \in Tasks => prev'[q].at < clock
    BY <1>1, <1>5, <2>2 DEF IInv, Latest
  <2> QED
    BY <1>1, <1>6, <2>1, <2>3 DEF IInv, Latest
<1>10. Entered(r)'
  BY <1>1, <1>4, <1>6 DEF IInv, Entered
<1>11. SuccessiveQueries'
  BY <1>1 DEF IInv, SuccessiveQueries
<1> QED
  BY <1>7, <1>8, <1>9, <1>10, <1>11 DEF IInv

\* Every step of a single run keeps the inductive invariant.
LEMMA NextIInv == ASSUME Serial, IInv, [Next]_vars PROVE IInv'
<1> USE DEF Serial
<1>1. ASSUME NEW r \in Runs, FetchFails(r) PROVE IInv'
  <2>1. half[r].task = Nobody
    BY <1>1 DEF FetchFails, IInv, Entered
  <2> QED
    BY <1>1, <2>1, DoneIInv DEF FetchFails
<1>2. ASSUME NEW r \in Runs, Deliver(r) PROVE IInv'
  <2>1. Done(r) /\ UNCHANGED <<clock, sent, builds, hosts, prev, todo, half, crashed>>
    BY <1>2 DEF Deliver
  <2>2. half[r].task = Nobody /\ stage[r] # "idle"
    BY <1>2 DEF Deliver
  <2> QED
    BY <2>1, <2>2, DoneIInv
<1>3. ASSUME NEW r \in Runs, Execute(r) PROVE IInv'
  BY <1>2, <1>3, ParsingDoneIInv, CreateHostIInv, StampIInv, FindHostIInv,
     MissHostIInv, FindEntryIInv, StoreEntryIInv, CalibrateIInv DEF Execute
<1>4. ASSUME NEW r \in Runs, NEW q \in Runs, MapFault(r, q) PROVE IInv'
  BY <1>4 DEF MapFault, OneRun
<1>5. CASE UNCHANGED vars
  <2>1. Types' /\ NeverCrashes' /\ Sheltered'
    BY <1>5 DEF vars, IInv, Types, NeverCrashes, Sheltered
  <2>2. \A r \in Runs : Samples(r)' = Samples(r)
    BY <1>5 DEF vars, Samples
  <2>3. Latest'
    BY <1>5, <2>2 DEF vars, IInv, Latest
  <2>4. \A r \in Runs : Entered(r)'
    BY <1>5, <2>2 DEF vars, IInv, Entered
  <2>5. SuccessiveQueries'
    BY <1>5 DEF vars, IInv, SuccessiveQueries
  <2> QED
    BY <2>1, <2>3, <2>4, <2>5 DEF IInv
<1>6. CASE Next
  <2>1. CASE Halted
    BY <1>5, <2>1 DEF Halted
  <2>2. CASE \E r \in Runs : Query(r) \/ FetchFails(r) \/ Answer(r) \/ Execute(r)
    BY <1>1, <1>3, <2>2, QueryIInv, AnswerIInv
  <2>3. CASE \E r, q \in Runs : MapFault(r, q)
    BY <1>4, <2>3
  <2>4. CASE Rebuild
    BY <2>4, RebuildIInv
  <2> QED
    BY <1>6, <2>1, <2>2, <2>3, <2>4 DEF Next
<1> QED
  BY <1>5, <1>6

\* As long as runs do not overlap and no other ranker is made during one, the inductive invariant holds.
THEOREM Inductive == Serial => (Spec => []IInv)
<1>1. CASE Serial
  <2>1. Init => IInv
    BY InitIInv
  <2>2. IInv /\ [Next]_vars => IInv'
    BY <1>1, NextIInv
  <2> QED
    BY <2>1, <2>2, PTL DEF Spec
<1> QED
  BY <1>1

\* Execute never reads the data point of a task without an entry: whatever hosts
\* and tasks come and go between the queries, parsing has made the entry of
\* every sample by the time the ranking loop looks it up.
THEOREM SerialNeverCrashes == Serial => (Spec => []NeverCrashes)
<1>1. IInv => NeverCrashes
  BY DEF IInv
<1>2. CASE Serial
  BY <1>1, <1>2, Inductive, PTL
<1> QED
  BY <1>2

\* No weight of cpuUtil is taken over an empty or a backward window: the
\* divisor, the time between the two data points, is positive.
THEOREM WindowsGoForward == Serial => (Spec => []SuccessiveQueries)
<1>1. IInv => SuccessiveQueries
  BY DEF IInv
<1>2. CASE Serial
  BY <1>1, <1>2, Inductive, PTL
<1> QED
  BY <1>2

-----------------------------------------------------------------------------
(* However many runs overlap. *)

\* A ranked task has its type as soon as it is labelled.
LEMMA RankType ==
    ASSUME Types, NEW r \in Runs, NEW p \in Tasks
    PROVE  Rank(r, p) \in Rankings
<1>1. prev[p] \in Entries /\ vec[r][p] \in Readings /\ at[r] \in Nat
  BY DEF Types, Tasks
<1>2. /\ prev[p].used \in 0 .. MaxUsage /\ prev[p].used \in Nat /\ prev[p].at \in Nat
      /\ prev[p].metric \in 0 .. MaxMetric /\ vec[r][p].used \in Nat
  BY <1>1, BoundsAssumption DEF Entries, Readings
<1> DEFINE now == [used |-> vec[r][p].used, at |-> at[r]]
<1>3. now.used \in Nat /\ now.at \in Nat
  BY <1>1, <1>2
<1>4. Rank(r, p) = [task |-> p, metric |-> prev[p].metric,
                    weight |-> Weight(prev[p], now),
                    base |-> [used |-> prev[p].used, at |-> prev[p].at,
                              metric |-> prev[p].metric]]
  BY DEF Rank, DataPoint
<1> HIDE DEF now
<1>5. Weight(prev[p], now) \in Weights
  BY <1>2, <1>3, WeightType
<1> QED
  BY <1>2, <1>4, <1>5 DEF Rankings

-----------------------------------------------------------------------------

\* What holds of the loops of every run, whatever overlaps.
Placing == Types /\ \A r \in Runs : Placed(r)

\* Placed is only about a run's own place: it holds of the others after a step.
LEMMA PlacedKept ==
    ASSUME NEW q \in Runs, Placed(q),
           stage'[q] = stage[q], todo'[q] = todo[q], half'[q].task = half[q].task,
           ranked'[q] = ranked[q]
    PROVE  Placed(q)'
  BY DEF Placed

-----------------------------------------------------------------------------

\* Nothing has happened yet.
LEMMA PlaceInit == ASSUME Init PROVE Placing
<1>1. Types
  BY InitIInv DEF IInv
<1>2. \A r \in Runs : Placed(r)
  BY DEF Init, Placed
<1> QED
  BY <1>1, <1>2 DEF Placing

\* A query is sent.
LEMMA PlaceQuery == ASSUME Placing, NEW r \in Runs, Query(r) PROVE Placing'
<1>1. Types'
  BY QueryTypes DEF Placing
<1>2. /\ stage[r] = "idle" /\ stage' = [stage EXCEPT ![r] = "fetching"]
      /\ UNCHANGED <<todo, half, ranked>>
  BY DEF Query
<1>3. Placed(r)'
  BY <1>2 DEF Placing, Types, Placed
<1>4. ASSUME NEW q \in Runs, q # r PROVE Placed(q)'
  BY <1>2, <1>4, PlacedKept DEF Placing, Types
<1> QED
  BY <1>1, <1>3, <1>4 DEF Placing

\* A run that ends has nothing under way.
LEMMA PlaceDone ==
    ASSUME Placing, NEW r \in Runs, Done(r), half[r].task = Nobody,
           UNCHANGED <<clock, sent, builds, hosts, prev, todo, half, crashed>>
    PROVE  Placing'
<1>1. /\ stage' = [stage EXCEPT ![r] = "idle"]
      /\ nth' = [nth EXCEPT ![r] = 0]
      /\ at' = [at EXCEPT ![r] = 0]
      /\ vec' = [vec EXCEPT ![r] = [p \in Containers |-> None]]
      /\ ranked' = [ranked EXCEPT ![r] = [h \in Hosts |-> <<>>]]
  BY DEF Done
<1>2. Types'
  <2>1. None \in Readings
    BY BoundsAssumption DEF None, Readings
  <2>2. vec' \in [Runs -> [Containers -> Readings]]
    BY <1>1, <2>1 DEF Placing, Types
  <2>3. [h \in Hosts |-> <<>>] \in [Hosts -> Seq(Rankings)]
    OBVIOUS
  <2>4. /\ ranked' \in [Runs -> [Hosts -> Seq(Rankings)]]
        /\ at' \in [Runs -> Nat] /\ nth' \in [Runs -> Nat]
    BY <1>1, <2>3 DEF Placing, Types
  <2>5. stage' \in [Runs -> Stages]
    BY <1>1 DEF Placing, Types, Stages
  <2> QED
    BY <2>2, <2>4, <2>5 DEF Placing, Types
<1>3. /\ stage'[r] = "idle" /\ \A h \in Hosts : ranked'[r][h] = <<>>
      /\ \A q \in Runs : q # r =>
            stage'[q] = stage[q] /\ ranked'[q] = ranked[q]
  BY <1>1 DEF Placing, Types
<1>4. ASSUME NEW q \in Runs PROVE Placed(q)'
  <2>1. CASE q = r
    BY <1>3, <2>1 DEF Placed
  <2>2. CASE q # r
    BY <1>3, <2>2, PlacedKept DEF Placing
  <2> QED
    BY <2>1, <2>2
<1> QED
  BY <1>2, <1>4 DEF Placing

\* A step of a run that stays in the parsing loop, or enters or leaves it.
LEMMA PlaceParse ==
    ASSUME Placing, NEW r \in Runs, Types', UNCHANGED ranked,
           stage[r] \notin {"idle", "ranking"}, stage'[r] # "idle",
           \A q \in Runs : q # r =>
               stage'[q] = stage[q] /\ todo'[q] = todo[q] /\ half'[q] = half[q],
           stage'[r] \in {"fetching", "parsing"} => half'[r].task = Nobody,
           stage'[r] \in {"entering", "storing"} => half'[r].task \in Tasks,
           stage'[r] = "creating" => half'[r].task \in Containers,
           stage'[r] = "ranking" => todo'[r] \subseteq Tasks /\ half'[r].task = Nobody
    PROVE  Placing'
<1>1. ASSUME NEW q \in Runs, q # r PROVE Placed(q)'
  BY <1>1, PlacedKept DEF Placing
<1>2. Placed(r)'
  BY DEF Placing, Placed
<1> QED
  BY <1>1, <1>2 DEF Placing

\* The steps of the parsing loop.
LEMMA PlaceAnswer == ASSUME Placing, NEW r \in Runs, Answer(r) PROVE Placing'
<1>1. /\ stage[r] = "fetching" /\ stage' = [stage EXCEPT ![r] = "parsing"]
      /\ todo' = [todo EXCEPT ![r] = Samples(r)]
      /\ UNCHANGED <<clock, sent, builds, hosts, prev, nth, at, vec, half,
                     ranked, received, crashed>>
  BY DEF Answer
<1>2. Types'
  <2>1. stage' \in [Runs -> Stages]
    BY <1>1 DEF Placing, Types, Stages, Executing
  <2>2. todo' \in [Runs -> SUBSET Containers]
    BY <1>1 DEF Placing, Types, Samples
  <2> QED
    BY <1>1, <2>1, <2>2 DEF Placing, Types
<1>3. /\ stage'[r] = "parsing" /\ half'[r].task = Nobody
      /\ \A q \in Runs : q # r =>
             stage'[q] = stage[q] /\ todo'[q] = todo[q] /\ half'[q] = half[q]
  BY <1>1 DEF Placing, Types, Placed
<1> QED
  BY <1>1, <1>2, <1>3, PlaceParse

LEMMA PlaceFindHost ==
    ASSUME Placing, NEW r \in Runs, NEW p \in Containers, FindHost(r, p)
    PROVE  Placing'
<1>1. /\ stage[r] = "parsing" /\ HostFound(r, p)
      /\ UNCHANGED <<clock, sent, builds, hosts, prev, nth, at, vec, ranked,
                     received, crashed>>
  BY DEF FindHost
<1>2. Types
  BY DEF Placing
<1>3. Types'
  BY <1>1, <1>2, HostFoundFacts DEF Types
<1>4. /\ stage'[r] \in {"entering", "parsing"}
      /\ stage'[r] = "entering" => half'[r].task \in Tasks
      /\ stage'[r] = "parsing" => half'[r].task = Nobody
  BY <1>1, <1>2, HostFoundFacts
<1>5. \A q \in Runs : q # r =>
         stage'[q] = stage[q] /\ todo'[q] = todo[q] /\ half'[q] = half[q]
  BY <1>1, <1>2 DEF HostFound, Parsed, Types
<1> QED
  BY <1>1, <1>3, <1>4, <1>5, PlaceParse

LEMMA PlaceMissHost ==
    ASSUME Placing, NEW r \in Runs, NEW p \in Containers, MissHost(r, p)
    PROVE  Placing'
<1>1. /\ stage[r] = "parsing" /\ stage' = [stage EXCEPT ![r] = "creating"]
      /\ half' = [half EXCEPT ![r].task = p]
      /\ UNCHANGED <<clock, sent, builds, hosts, prev, nth, at, vec, todo,
                     ranked, received, crashed>>
  BY DEF MissHost
<1>2. Types'
  <2>1. stage' \in [Runs -> Stages]
    BY <1>1 DEF Placing, Types, Stages, Executing
  <2>2. half' \in [Runs -> [task : Containers \cup {Nobody}, born : Nat]]
    BY <1>1 DEF Placing, Types
  <2> QED
    BY <1>1, <2>1, <2>2 DEF Placing, Types
<1>3. /\ stage'[r] = "creating" /\ half'[r].task \in Containers
      /\ \A q \in Runs : q # r =>
             stage'[q] = stage[q] /\ todo'[q] = todo[q] /\ half'[q] = half[q]
  BY <1>1 DEF Placing, Types
<1> QED
  BY <1>1, <1>2, <1>3, PlaceParse

\* An empty map drops the entries of a host.
LEMMA PlaceCreateHost ==
    ASSUME Placing, NEW r \in Runs, CreateHost(r) PROVE Placing'
<1> DEFINE c == half[r].task
<1>1. /\ stage[r] = "creating" /\ hosts' = hosts \cup {c[1]} /\ HostFound(r, c)
      /\ prev' = [p \in Tasks |-> IF p[1] = c[1] THEN NoEntry ELSE prev[p]]
      /\ UNCHANGED <<clock, sent, builds, nth, at, vec, ranked, received,
                     crashed>>
  BY DEF CreateHost, WithHost
<1>2. Types /\ c \in Containers /\ c[1] \in Hosts
  BY <1>1 DEF Placing, Placed, Hosts
<1> HIDE DEF c
<1>3. Types'
  <2>1. hosts' \subseteq Hosts
    BY <1>1, <1>2 DEF Types
  <2>2. prev' \in [Tasks -> Entries]
    BY <1>1, <1>2, BoundsAssumption DEF Types, NoEntry, Entries
  <2> QED
    BY <1>1, <1>2, <2>1, <2>2, HostFoundFacts DEF Types
<1>4. /\ stage'[r] \in {"entering", "parsing"}
      /\ stage'[r] = "entering" => half'[r].task \in Tasks
      /\ stage'[r] = "parsing" => half'[r].task = Nobody
  BY <1>1, <1>2, HostFoundFacts
<1>5. \A q \in Runs : q # r =>
         stage'[q] = stage[q] /\ todo'[q] = todo[q] /\ half'[q] = half[q]
  BY <1>1, <1>2 DEF HostFound, Parsed, Types
<1> QED
  BY <1>1, <1>3, <1>4, <1>5, PlaceParse

LEMMA PlaceFindEntry ==
    ASSUME Placing, NEW r \in Runs, FindEntry(r) PROVE Placing'
<1> DEFINE p == half[r].task
<1>1. /\ stage[r] = "entering"
      /\ UNCHANGED <<clock, sent, builds, hosts, prev, nth, at, vec, ranked,
                     received, crashed>>
  BY DEF FindEntry
<1>2. Types /\ p \in Tasks /\ p \in Containers
  BY <1>1 DEF Placing, Placed, Tasks
<1>3. CASE prev[p] = NoEntry
  <2>1. stage' = [stage EXCEPT ![r] = "storing"] /\ UNCHANGED <<todo, half>>
    BY <1>3 DEF FindEntry
  <2>2. Types'
    BY <1>1, <1>2, <2>1 DEF Types, Stages, Executing
  <2>3. stage'[r] = "storing" /\ \A q \in Runs : q # r => stage'[q] = stage[q]
    BY <1>2, <2>1 DEF Types
  <2> QED
    BY <1>1, <1>2, <2>1, <2>2, <2>3, PlaceParse
<1>4. CASE prev[p] # NoEntry
  <2>1. Parsed(r, p)
    BY <1>4 DEF FindEntry
  <2> HIDE DEF p
  <2>2. stage'[r] = "parsing" /\ half'[r].task = Nobody
    BY <1>2, <2>1, ParsedFacts
  <2>3. Types'
    BY <1>1, <1>2, <2>1, ParsedFacts DEF Types
  <2>4. \A q \in Runs : q # r =>
           stage'[q] = stage[q] /\ todo'[q] = todo[q] /\ half'[q] = half[q]
    BY <1>2, <2>1 DEF Parsed, Types
  <2> QED
    BY <1>1, <2>2, <2>3, <2>4, PlaceParse
<1> QED
  BY <1>3, <1>4

\* The entry is stored; where the map is gone the process is.
LEMMA PlaceStoreEntry ==
    ASSUME Placing, NEW r \in Runs, StoreEntry(r) PROVE Placing'
<1> DEFINE p == half[r].task
<1>1. /\ stage[r] = "storing"
      /\ UNCHANGED <<clock, sent, builds, hosts, nth, at, vec, ranked, received>>
  BY DEF StoreEntry
<1>2. Types /\ p \in Tasks /\ p \in Containers
  BY <1>1 DEF Placing, Placed, Tasks
<1>3. CASE p[1] \in hosts
  <2>1. prev' = [prev EXCEPT ![p] = Recorded(r, p)] /\ Parsed(r, p) /\ crashed' = crashed
    BY <1>3 DEF StoreEntry
  <2> HIDE DEF p
  <2>2. Recorded(r, p) \in Entries
    <3>1. vec[r][p] \in Readings /\ nth[r] \in Nat
      BY <1>2 DEF Types
    <3> QED
      BY <3>1, BoundsAssumption DEF Recorded, Entries, Readings
  <2>3. prev' \in [Tasks -> Entries]
    BY <1>2, <2>1, <2>2 DEF Types
  <2>4. Types'
    BY <1>1, <1>2, <2>1, <2>3, ParsedFacts DEF Types
  <2>5. stage'[r] = "parsing" /\ half'[r].task = Nobody
    BY <1>2, <2>1, ParsedFacts
  <2>6. \A q \in Runs : q # r =>
           stage'[q] = stage[q] /\ todo'[q] = todo[q] /\ half'[q] = half[q]
    BY <1>2, <2>1 DEF Parsed, Types
  <2> QED
    BY <1>1, <2>4, <2>5, <2>6, PlaceParse
<1>4. CASE p[1] \notin hosts
  <2>1. crashed' = TRUE /\ UNCHANGED <<prev, stage, todo, half>>
    BY <1>4 DEF StoreEntry
  <2>2. Types'
    BY <1>1, <1>2, <2>1 DEF Types
  <2> QED
    BY <1>1, <1>2, <2>1, <2>2, PlaceParse
<1> QED
  BY <1>3, <1>4

LEMMA PlaceParsingDone ==
    ASSUME Placing, NEW r \in Runs, ParsingDone(r) PROVE Placing'
<1>1. /\ stage[r] = "parsing" /\ stage' = [stage EXCEPT ![r] = "ranking"]
      /\ todo' = [todo EXCEPT ![r] = Samples(r) \cap Tasks]
      /\ UNCHANGED <<clock, sent, builds, hosts, prev, nth, at, vec, half,
                     ranked, received, crashed>>
  BY DEF ParsingDone
<1>2. Types'
  <2>1. stage' \in [Runs -> Stages]
    BY <1>1 DEF Placing, Types, Stages, Executing
  <2>2. todo' \in [Runs -> SUBSET Containers]
    BY <1>1 DEF Placing, Types, Samples
  <2> QED
    BY <1>1, <2>1, <2>2 DEF Placing, Types
<1>3. /\ stage'[r] = "ranking" /\ todo'[r] \subseteq Tasks /\ half'[r].task = Nobody
      /\ \A q \in Runs : q # r =>
             stage'[q] = stage[q] /\ todo'[q] = todo[q] /\ half'[q] = half[q]
  BY <1>1 DEF Placing, Types, Placed
<1> QED
  BY <1>1, <1>2, <1>3, PlaceParse

-----------------------------------------------------------------------------

\* A run ranks a task it has not visited.
LEMMA PlaceCalibrate ==
    ASSUME Placing, NEW r \in Runs, NEW p \in Containers, Calibrate(r, p)
    PROVE  Placing'
<1>1. /\ stage[r] = "ranking" /\ p \in todo[r] /\ half[r].task = Nobody
      /\ UNCHANGED <<clock, sent, builds, hosts, stage, nth, at, vec, received>>
  BY DEF Calibrate
<1>2. Types /\ p \in Tasks
  BY <1>1 DEF Placing, Placed
<1>3. CASE prev[p] = NoEntry
  <2>1. crashed' = TRUE /\ UNCHANGED <<prev, todo, half, ranked>>
    BY <1>3 DEF Calibrate
  <2>2. Types'
    BY <1>1, <1>2, <2>1 DEF Types
  <2>3. ASSUME NEW q \in Runs PROVE Placed(q)'
    BY <1>1, <2>1, PlacedKept DEF Placing
  <2> QED
    BY <2>2, <2>3 DEF Placing
<1>4. CASE prev[p] # NoEntry
  <2>1. /\ ranked' = IF prev[p].seen
                     THEN [ranked EXCEPT ![r][p[1]] = Append(ranked[r][p[1]], Rank(r, p))]
                     ELSE ranked
        /\ prev' = [prev EXCEPT ![p].seen = TRUE, ![p].used = vec[r][p].used]
        /\ half' = [half EXCEPT ![r] = [task |-> p, born |-> prev[p].born]]
        /\ todo' = [todo EXCEPT ![r] = todo[r] \ {p}]
        /\ crashed' = crashed
    BY <1>4 DEF Calibrate
  <2>2. Rank(r, p) \in Rankings
    BY <1>2, RankType
  <2>3. \A q \in Tasks : prev'[q] \in Entries
    <3>1. prev[p] \in Entries /\ vec[r][p].used \in 0 .. MaxUsage
      BY <1>2 DEF Types, Readings
    <3> QED
      BY <1>2, <2>1, <3>1 DEF Types, Entries
  <2>4. ranked' \in [Runs -> [Hosts -> Seq(Rankings)]]
    <3>1. CASE prev[p].seen
      <4>1. p[1] \in Hosts /\ ranked[r] \in [Hosts -> Seq(Rankings)]
        BY <1>2 DEF Types, Hosts
      <4>2. Append(ranked[r][p[1]], Rank(r, p)) \in Seq(Rankings)
        BY <2>2, <4>1
      <4>3. ranked' = [ranked EXCEPT ![r] =
                          [ranked[r] EXCEPT ![p[1]] = Append(ranked[r][p[1]], Rank(r, p))]]
        BY <2>1, <3>1
      <4> QED
        BY <1>2, <4>1, <4>2, <4>3 DEF Types
    <3>2. CASE ~prev[p].seen
      BY <1>2, <2>1, <3>2 DEF Types
    <3> QED
      BY <3>1, <3>2
  <2>5. Types'
    <3>1. prev' \in [Tasks -> Entries]
      BY <1>2, <2>1, <2>3 DEF Types
    <3>2. prev[p].born \in Nat
      BY <1>2 DEF Types, Entries
    <3>3. half' \in [Runs -> [task : Containers \cup {Nobody}, born : Nat]]
      BY <1>2, <2>1, <3>2 DEF Types
    <3>4. todo' \in [Runs -> SUBSET Containers]
      BY <1>2, <2>1 DEF Types
    <3> QED
      BY <1>1, <1>2, <2>1, <2>4, <3>1, <3>3, <3>4 DEF Types
  <2>6. /\ todo'[r] = todo[r] \ {p} /\ half'[r].task = p
        /\ \A q \in Runs : q # r => todo'[q] = todo[q] /\ half'[q] = half[q]
    BY <1>2, <2>1 DEF Types
  <2>7. \A q \in Runs : q # r => ranked'[q] = ranked[q]
    BY <1>2, <2>1 DEF Types
  <2>8. ASSUME NEW q \in Runs, q # r PROVE Placed(q)'
    BY <1>1, <2>6, <2>7, <2>8, PlacedKept DEF Placing
  <2>9. Placed(r)'
    <3>1. Placed(r)
      BY DEF Placing
    <3> QED
      BY <1>1, <1>2, <2>6, <3>1 DEF Placed
  <2> QED
    BY <2>5, <2>8, <2>9 DEF Placing
<1> QED
  BY <1>3, <1>4

\* A run gives its time to the entry it has read.
LEMMA PlaceStamp == ASSUME Placing, NEW r \in Runs, Stamp(r) PROVE Placing'
<1> DEFINE p == half[r].task
<1>1. /\ stage[r] = "ranking" /\ p # Nobody
      /\ prev' = IF prev[p].born = half[r].born
                 THEN [prev EXCEPT ![p] = Stamped(r, p)] ELSE prev
      /\ half' = [half EXCEPT ![r] = [task |-> Nobody, born |-> 0]]
      /\ UNCHANGED <<clock, sent, builds, hosts, stage, nth, at, vec, todo,
                     ranked, received, crashed>>
  BY DEF Stamp
<1>2. Types /\ p \in Tasks /\ at[r] \in Nat
  BY <1>1 DEF Placing, Placed, Types
<1> HIDE DEF p
<1>3. \A q \in Tasks : prev'[q] \in Entries
  <2>1. prev \in [Tasks -> Entries] /\ p \in Tasks
    BY <1>2 DEF Types
  <2>2. Stamped(r, p) \in Entries
    BY <1>2, <2>1 DEF Stamped, Entries
  <2>3. CASE prev[p].born # half[r].born
    BY <1>1, <2>1, <2>3
  <2>4. CASE prev[p].born = half[r].born
    <3>1. prev' = [prev EXCEPT ![p] = Stamped(r, p)]
      BY <1>1, <2>4
    <3>2. \A q \in Tasks : prev'[q] = IF q = p THEN Stamped(r, p) ELSE prev[q]
      BY <2>1, <3>1
    <3> QED
      BY <2>1, <2>2, <3>2
  <2> QED
    BY <2>3, <2>4
<1>4. /\ half'[r].task = Nobody
      /\ \A q \in Runs : q # r => half'[q] = half[q]
  BY <1>1, <1>2 DEF Types
<1>5. Types'
  <2>1. prev' \in [Tasks -> Entries]
    BY <1>1, <1>2, <1>3 DEF Types
  <2>2. half' \in [Runs -> [task : Containers \cup {Nobody}, born : Nat]]
    BY <1>1, <1>2 DEF Types
  <2> QED
    BY <1>1, <1>2, <2>1, <2>2 DEF Types
<1>6. ASSUME NEW q \in Runs PROVE Placed(q)'
  <2>1. CASE q = r
    BY <1>1, <1>4, <2>1 DEF Placing, Placed
  <2>2. CASE q # r
    BY <1>1, <1>4, <2>2, PlacedKept DEF Placing
  <2> QED
    BY <2>1, <2>2
<1> QED
  BY <1>5, <1>6 DEF Placing

\* Building the strategy again drops every entry.
LEMMA PlaceRebuild == ASSUME Placing, Rebuild PROVE Placing'
<1>1. /\ builds' = builds + 1 /\ builds < MaxBuilds
      /\ hosts' = {} /\ prev' = [p \in Tasks |-> NoEntry]
      /\ UNCHANGED <<clock, sent, stage, nth, at, vec, todo, half, ranked,
                     received, crashed>>
  BY DEF Rebuild, local
<1>2. Types'
  <2>1. builds' \in 0 .. MaxBuilds
    BY <1>1, BoundsAssumption DEF Placing, Types
  <2>2. prev' \in [Tasks -> Entries]
    BY <1>1, BoundsAssumption DEF NoEntry, Entries
  <2> QED
    BY <1>1, <2>1, <2>2 DEF Placing, Types
<1>3. ASSUME NEW q \in Runs PROVE Placed(q)'
  BY <1>1, PlacedKept DEF Placing
<1> QED
  BY <1>2, <1>3 DEF Placing

\* Every step keeps the runs in their loops.
LEMMA PlaceNext == ASSUME Placing, [Next]_vars PROVE Placing'
<1>1. ASSUME NEW r \in Runs, FetchFails(r) PROVE Placing'
  <2>1. half[r].task = Nobody
    BY <1>1 DEF FetchFails, Placing, Placed
  <2> QED
    BY <1>1, <2>1, PlaceDone DEF FetchFails
<1>2. ASSUME NEW r \in Runs, Deliver(r) PROVE Placing'
  BY <1>2, PlaceDone DEF Deliver
<1>3. ASSUME NEW r \in Runs, Execute(r) PROVE Placing'
  BY <1>2, <1>3, PlaceParsingDone, PlaceCreateHost, PlaceStamp, PlaceFindHost,
     PlaceMissHost, PlaceFindEntry, PlaceStoreEntry, PlaceCalibrate DEF Execute
<1>4. ASSUME UNCHANGED <<clock, sent, builds, hosts, prev, local>>,
             crashed' \in BOOLEAN
      PROVE  Placing'
  <2>1. Types'
    BY <1>4 DEF Placing, Types, local
  <2>2. ASSUME NEW q \in Runs PROVE Placed(q)'
    BY <1>4, PlacedKept DEF Placing, local
  <2> QED
    BY <2>1, <2>2 DEF Placing
<1>5. ASSUME NEW r \in Runs, NEW q \in Runs, MapFault(r, q) PROVE Placing'
  BY <1>4, <1>5 DEF MapFault
<1>6. CASE UNCHANGED vars
  BY <1>4, <1>6 DEF vars, local, Placing, Types
<1>7. CASE Next
  <2>1. CASE Halted
    BY <1>6, <2>1 DEF Halted
  <2>2. CASE \E r \in Runs : Query(r) \/ FetchFails(r) \/ Answer(r) \/ Execute(r)
    BY <1>1, <1>3, <2>2, PlaceQuery, PlaceAnswer
  <2>3. CASE \E r, q \in Runs : MapFault(r, q)
    BY <1>5, <2>3
  <2>4. CASE Rebuild
    BY <2>4, PlaceRebuild
  <2> QED
    BY <1>7, <2>1, <2>2, <2>3, <2>4 DEF Next
<1> QED
  BY <1>6, <1>7

-----------------------------------------------------------------------------

SortFacts == INSTANCE RankingProofs WITH Less <- HeavierOrEqual

\* The ranked tasks whose weight is a number.
Weighed == {k \in Rankings : ~k.weight.nan}

\* p tells of every place in t whence in s its element comes.
Reorders(p, t, s) ==
    /\ p \in [1 .. Len(s) -> 1 .. Len(s)]
    /\ \A i, j \in 1 .. Len(s) : p[i] = p[j] => i = j
    /\ \A j \in 1 .. Len(s) : \E i \in 1 .. Len(s) : p[i] = j
    /\ \A i \in 1 .. Len(s) : t[i] = s[p[i]]

\* A sorted list is the ranked one in another order.
LEMMA SortedRankings ==
    ASSUME NEW s \in Seq(Rankings)
    PROVE  /\ Sort!SliceStable(s) \in Seq(Rankings)
           /\ Len(Sort!SliceStable(s)) = Len(s)
           /\ \E p : Reorders(p, Sort!SliceStable(s), s)
<1> DEFINE t == SortFacts!SliceStable(s)
<1>1. Sort!SliceStable(s) = t
  BY DEF Sort!SliceStable, Sort!Insert, SortFacts!SliceStable, SortFacts!Insert
<1>2. t \in Seq(Rankings) /\ Len(t) = Len(s)
  BY SortFacts!SliceStableArranges
<1>3. \E p : SortFacts!Places(p, t, s, Len(s))
  BY SortFacts!SliceStableArranges
<1>4. \E p : Reorders(p, t, s)
  BY <1>3, Zenon DEF SortFacts!Places, Reorders
<1> HIDE DEF t
<1> QED BY <1>1, <1>2, <1>4

\* If every weight is a number the heaviest comes first.
LEMMA SortedByWeight ==
    ASSUME NEW s \in Seq(Weighed)
    PROVE  NonIncreasing(Sort!SliceStable(s))
<1> DEFINE t == SortFacts!SliceStable(s)
           R == {e \in Weighed \X Weighed : AtLeast(e[1].weight, e[2].weight)}
<1>1. Sort!SliceStable(s) = t
  BY DEF Sort!SliceStable, Sort!Insert, SortFacts!SliceStable, SortFacts!Insert
<1>2. t \in Seq(Weighed)
  BY SortFacts!SliceStableArranges
<1>3. \A k \in Weighed : ~k.weight.nan /\ k.weight.inf \in Int /\ k.weight.value \in Int
  BY DEF Weighed, Rankings, Weights
<1>4. \A a, b \in Weighed : IF HeavierOrEqual(a, b) THEN <<a, b>> \in R ELSE <<b, a>> \in R
  BY <1>3 DEF HeavierOrEqual, AtLeast
<1>5. \A a, b, c \in Weighed : <<a, b>> \in R /\ <<b, c>> \in R => <<a, c>> \in R
  BY <1>3 DEF AtLeast
<1>6. SortFacts!Ordered(t, R)
  <2> HIDE DEF R, t
  <2> QED BY <1>4, <1>5, SortFacts!SliceStableSorts DEF t
<1>7. \A i, j \in 1 .. Len(t) : i < j => AtLeast(t[i].weight, t[j].weight)
  BY <1>6 DEF SortFacts!Ordered
<1>8. DOMAIN t = 1 .. Len(t)
  BY <1>2
<1> QED BY <1>1, <1>7, <1>8 DEF NonIncreasing

\* What a run has ranked stays listed while nothing is ranked, and once it has
\* forgotten it.
LEMMA ListedKept ==
    ASSUME NEW q \in Runs, Listed(q),
           \/ ranked'[q] = ranked[q] /\ todo'[q] \subseteq todo[q]
           \/ \A h \in Hosts : ranked'[q][h] = <<>>
    PROVE  Listed(q)'
<1>1. CASE ranked'[q] = ranked[q] /\ todo'[q] \subseteq todo[q]
  BY <1>1 DEF Listed
<1>2. CASE \A h \in Hosts : ranked'[q][h] = <<>>
  BY <1>2 DEF Listed
<1> QED
  BY <1>1, <1>2

\* A step that neither ranks nor delivers keeps the invariant of the feed.
LEMMA FeedKept ==
    ASSUME FeedIInv, Placing', received' = received,
           \A q \in Runs : \/ ranked'[q] = ranked[q] /\ todo'[q] \subseteq todo[q]
                           \/ \A h \in Hosts : ranked'[q][h] = <<>>
    PROVE  FeedIInv'
<1>1. TypeOK'
  BY DEF FeedIInv, TypeOK, Placing
<1>2. WellFormedFeed'
  BY DEF FeedIInv, WellFormedFeed
<1>3. \A q \in Runs : Listed(q)'
  BY ListedKept DEF FeedIInv
<1> QED
  BY <1>1, <1>2, <1>3 DEF FeedIInv, Placing

\* The run is over: what it has ranked is forgotten.
LEMMA DoneForgets ==
    ASSUME Types, NEW r \in Runs, Done(r), UNCHANGED todo
    PROVE  \A q \in Runs : \/ ranked'[q] = ranked[q] /\ todo'[q] \subseteq todo[q]
                           \/ \A h \in Hosts : ranked'[q][h] = <<>>
  BY DEF Types, Done

\* A loop begins before anything is ranked.
LEMMA FeedLoop ==
    ASSUME FeedIInv, Placing', NEW r \in Runs, stage[r] # "ranking",
           UNCHANGED <<ranked, received>>, \A q \in Runs \ {r} : todo'[q] = todo[q]
    PROVE  FeedIInv'
<1>1. \A h \in Hosts : ranked'[r][h] = <<>>
  BY DEF FeedIInv, Placing, Placed
<1> QED
  BY <1>1, FeedKept

\* The ranking loop appends a task it had not visited, to the list of its host.
LEMMA FeedCalibrate ==
    ASSUME FeedIInv, Placing', NEW r \in Runs, NEW p \in Containers, Calibrate(r, p)
    PROVE  FeedIInv'
<1>1. /\ stage[r] = "ranking" /\ p \in todo[r] /\ received' = received
  BY DEF Calibrate
<1>2. Types /\ Types' /\ Placed(r) /\ Listed(r)
  BY DEF FeedIInv, Placing, TypeOK
<1>3. p \in Tasks /\ p[1] \in Hosts
  BY <1>1, <1>2 DEF Placed, Tasks, Hosts
<1>4. CASE UNCHANGED <<todo, ranked>>
  BY <1>1, <1>4, FeedKept
<1>5. CASE todo' = [todo EXCEPT ![r] = @ \ {p}] /\ UNCHANGED ranked
  BY <1>1, <1>2, <1>5, FeedKept DEF Types
<1>6. CASE /\ todo' = [todo EXCEPT ![r] = @ \ {p}]
           /\ ranked' = [ranked EXCEPT ![r][p[1]] = Append(@, Rank(r, p))]
  <2> DEFINE k == Rank(r, p)
  <2>1. k \in Rankings /\ k.task = p
    BY <1>2, <1>3, RankType DEF Rank
  <2> HIDE DEF k
  <2>2. /\ \A q \in Runs \ {r} : ranked'[q] = ranked[q] /\ todo'[q] = todo[q]
        /\ \A h \in Hosts \ {p[1]} : ranked'[r][h] = ranked[r][h]
        /\ ranked'[r][p[1]] = Append(ranked[r][p[1]], k)
        /\ todo'[r] = todo[r] \ {p}
    BY <1>2, <1>3, <1>6 DEF Types, k
  <2>3. \A h \in Hosts : ranked[r][h] \in Seq(Rankings)
    BY <1>2 DEF Types
  <2>4. ASSUME NEW h \in Hosts, h # p[1], NEW i \in DOMAIN ranked'[r][h],
               NEW j \in DOMAIN ranked'[r][h]
        PROVE  /\ ranked'[r][h][i].task[1] = h
               /\ ranked'[r][h][i].task \notin todo'[r]
               /\ i # j => ranked'[r][h][i].task # ranked'[r][h][j].task
    BY <1>2, <2>2, <2>4 DEF Listed
  <2>5. ASSUME NEW i \in DOMAIN ranked'[r][p[1]], NEW j \in DOMAIN ranked'[r][p[1]]
        PROVE  /\ ranked'[r][p[1]][i].task[1] = p[1]
               /\ ranked'[r][p[1]][i].task \notin todo'[r]
               /\ i # j => ranked'[r][p[1]][i].task # ranked'[r][p[1]][j].task
    <3> DEFINE s == ranked[r][p[1]]
    <3>1. s \in Seq(Rankings)
      BY <1>3, <2>3
    <3>2. \A u, v \in DOMAIN s : /\ s[u].task[1] = p[1] /\ s[u].task \notin todo[r]
                                 /\ u # v => s[u].task # s[v].task
      BY <1>2, <1>3 DEF Listed
    <3>3. \A u \in DOMAIN s : s[u].task # p
      BY <1>1, <3>2
    <3> HIDE DEF s
    <3>4. \A u \in DOMAIN Append(s, k) :
              \/ u \in DOMAIN s /\ Append(s, k)[u] = s[u]
              \/ u = Len(s) + 1 /\ Append(s, k)[u] = k
      BY <2>1, <3>1
    <3>5. ranked'[r][p[1]] = Append(s, k)
      BY <2>2 DEF s
    <3> QED
      BY <2>1, <2>2, <3>1, <3>2, <3>3, <3>4, <3>5
  <2>6. Listed(r)'
    BY <2>4, <2>5 DEF Listed
  <2>7. \A q \in Runs : Listed(q)'
    BY <2>2, <2>6, ListedKept DEF FeedIInv
  <2>8. TypeOK' /\ WellFormedFeed'
    BY <1>1, <1>2 DEF FeedIInv, TypeOK, WellFormedFeed
  <2> QED
    BY <2>7, <2>8 DEF FeedIInv, Placing
<1> QED
  BY <1>4, <1>5, <1>6 DEF Calibrate

\* What is delivered is what was listed, sorted.
LEMMA FeedDeliver ==
    ASSUME FeedIInv, Placing', NEW r \in Runs, Deliver(r)
    PROVE  FeedIInv'
<1>1. Types /\ Types' /\ Listed(r) /\ WellFormedFeed /\ received \in [Hosts -> Seq(Rankings)]
  BY DEF FeedIInv, Placing, TypeOK
<1>2. \A q \in Runs : Listed(q)'
  BY <1>1, DoneForgets, ListedKept DEF Deliver, FeedIInv
<1>3. CASE received' = received
  BY <1>1, <1>2, <1>3 DEF FeedIInv, Placing, TypeOK, WellFormedFeed
<1>4. CASE received' = [h \in Hosts |-> Sort!SliceStable(ranked[r][h])]
  <2>1. ASSUME NEW h \in Hosts
        PROVE  /\ received'[h] \in Seq(Rankings)
               /\ (\A i \in DOMAIN received'[h] : ~received'[h][i].weight.nan) =>
                      NonIncreasing(received'[h])
               /\ \A i, j \in DOMAIN received'[h] :
                      /\ received'[h][i].task[1] = h
                      /\ i # j => received'[h][i].task # received'[h][j].task
    <3> DEFINE s == ranked[r][h]
               t == received'[h]
    <3>1. s \in Seq(Rankings)
      BY <1>1 DEF Types
    <3>2. t = Sort!SliceStable(s)
      BY <1>4
    <3>3. \A i, j \in DOMAIN s : s[i].task[1] = h /\ (i # j => s[i].task # s[j].task)
      BY <1>1 DEF Listed
    <3> HIDE DEF s, t
    <3>4. /\ t \in Seq(Rankings) /\ Len(t) = Len(s)
          /\ \E p : Reorders(p, t, s)
      BY <3>1, <3>2, SortedRankings
    <3>5. PICK p \in [1 .. Len(s) -> 1 .. Len(s)] :
              /\ \A i, j \in 1 .. Len(s) : p[i] = p[j] => i = j
              /\ \A j \in 1 .. Len(s) : \E i \in 1 .. Len(s) : p[i] = j
              /\ \A i \in 1 .. Len(s) : t[i] = s[p[i]]
      BY <3>4, Zenon DEF Reorders
    <3>6. DOMAIN s = 1 .. Len(s) /\ DOMAIN t = 1 .. Len(s)
      BY <3>1, <3>4
    <3>7. \A i, j \in DOMAIN t : t[i].task[1] = h /\ (i # j => t[i].task # t[j].task)
      <4> SUFFICES ASSUME NEW i \in DOMAIN t, NEW j \in DOMAIN t
                   PROVE  t[i].task[1] = h /\ (i # j => t[i].task # t[j].task)
        OBVIOUS
      <4>1. p[i] \in DOMAIN s /\ p[j] \in DOMAIN s /\ (i # j => p[i] # p[j])
        BY <3>5, <3>6
      <4>2. t[i] = s[p[i]] /\ t[j] = s[p[j]]
        BY <3>5, <3>6
      <4> QED
        BY <3>3, <4>1, <4>2
    <3>8. ASSUME \A i \in DOMAIN t : ~t[i].weight.nan PROVE NonIncreasing(t)
      <4>1. \A j \in DOMAIN s : s[j] \in Weighed
        BY <3>1, <3>5, <3>6, <3>8 DEF Weighed
      <4>2. s \in Seq(Weighed)
        BY <3>1, <4>1
      <4> QED
        BY <3>2, <4>2, SortedByWeight
    <3> QED
      BY <3>4, <3>7, <3>8 DEF t
  <2>2. received' \in [Hosts -> Seq(Rankings)]
    BY <1>4, <2>1
  <2>3. WellFormedFeed'
    BY <2>1 DEF WellFormedFeed
  <2> QED
    BY <1>1, <1>2, <2>2, <2>3 DEF FeedIInv, Placing, TypeOK
<1> QED
  BY <1>3, <1>4 DEF Deliver

\* Every step keeps the lists.
LEMMA FeedNext == ASSUME FeedIInv, [Next]_vars PROVE FeedIInv'
<1>1. Placing /\ Placing' /\ Types
  <2>1. Placing /\ Types
    BY DEF FeedIInv, TypeOK, Placing
  <2> QED
    BY <2>1, PlaceNext
<1>2. ASSUME UNCHANGED <<ranked, received, todo>> PROVE FeedIInv'
  BY <1>1, <1>2, FeedKept
<1>3. ASSUME NEW r \in Runs, FetchFails(r) PROVE FeedIInv'
  BY <1>1, <1>3, DoneForgets, FeedKept DEF FetchFails
<1>4. ASSUME NEW r \in Runs, Answer(r) \/ ParsingDone(r) PROVE FeedIInv'
  <2>1. stage[r] # "ranking" /\ \A q \in Runs \ {r} : todo'[q] = todo[q]
    BY <1>1, <1>4 DEF Answer, ParsingDone, Types
  <2> QED
    BY <1>1, <1>4, <2>1, FeedLoop DEF Answer, ParsingDone
<1>5. ASSUME NEW r \in Runs, NEW p, Parsed(r, p) \/ UNCHANGED todo, UNCHANGED <<ranked, received>>
      PROVE  FeedIInv'
  <2>1. ASSUME NEW q \in Runs PROVE todo'[q] \subseteq todo[q]
    <3>1. CASE UNCHANGED todo
      BY <3>1
    <3>2. CASE todo' = [todo EXCEPT ![r] = @ \ {p}]
      BY <1>1, <3>2 DEF Types
    <3> QED
      BY <1>5, <3>1, <3>2 DEF Parsed
  <2> QED
    BY <1>1, <1>5, <2>1, FeedKept
<1>6. ASSUME NEW r \in Runs, NEW p \in Containers, FindHost(r, p) \/ MissHost(r, p) PROVE FeedIInv'
  BY <1>5, <1>6 DEF FindHost, MissHost, HostFound
<1>7. ASSUME NEW r \in Runs, CreateHost(r) \/ FindEntry(r) \/ StoreEntry(r) \/ Stamp(r)
      PROVE  FeedIInv'
  BY <1>5, <1>7 DEF CreateHost, FindEntry, StoreEntry, Stamp, HostFound
<1>8. ASSUME NEW r \in Runs, Execute(r) PROVE FeedIInv'
  BY <1>1, <1>4, <1>6, <1>7, <1>8, FeedCalibrate, FeedDeliver DEF Execute
<1>9. CASE UNCHANGED vars
  BY <1>2, <1>9 DEF vars
<1>10. CASE Next
  <2>1. CASE Halted
    BY <1>9, <2>1 DEF Halted
  <2>2. CASE \E r \in Runs : Query(r) \/ FetchFails(r) \/ Answer(r) \/ Execute(r)
    BY <1>2, <1>3, <1>4, <1>8, <2>2 DEF Query
  <2>3. CASE \E r, q \in Runs : MapFault(r, q)
    BY <1>2, <2>3 DEF MapFault, local
  <2>4. CASE Rebuild
    BY <1>2, <2>4 DEF Rebuild, local
  <2> QED
    BY <1>10, <2>1, <2>2, <2>3, <2>4 DEF Next
<1> QED
  BY <1>9, <1>10

\* However runs overlap, what is ranked and delivered is listed.
THEOREM FeedInductive == Spec => []FeedIInv
<1>1. Init => FeedIInv
  <2> SUFFICES ASSUME Init PROVE FeedIInv
    OBVIOUS
  <2>1. received \in [Hosts -> Seq(Rankings)] /\ \A h \in Hosts : received[h] = <<>>
    BY DEF Init
  <2>2. TypeOK
    BY <2>1, PlaceInit DEF TypeOK, Placing
  <2>3. WellFormedFeed
    BY <2>1 DEF WellFormedFeed, NonIncreasing
  <2>4. \A r \in Runs : Listed(r)
    BY DEF Init, Listed
  <2> QED
    BY <2>2, <2>3, <2>4, PlaceInit DEF FeedIInv, Placing
<1>2. FeedIInv /\ [Next]_vars => FeedIInv'
  BY FeedNext
<1> QED
  BY <1>1, <1>2, PTL DEF Spec

\* Types, the lists that are ranked and delivered included.
THEOREM TypesHold == Spec => []TypeOK
<1>1. FeedIInv => TypeOK
  BY DEF FeedIInv
<1> QED
  BY <1>1, FeedInductive, PTL

\* Whatever goroutines share the map, and whenever it is replaced, the receiver
\* gets every host's tasks, each of them once and none of another host, and the
\* heaviest first if no weight is an empty window's 0 / 0.
THEOREM FeedIsWellFormed == Spec => []WellFormedFeed
<1>1. FeedIInv => WellFormedFeed
  BY DEF FeedIInv
<1> QED
  BY <1>1, FeedInductive, PTL
=============================================================================
