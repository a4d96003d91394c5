------------------------- MODULE CpuUtilFeedProofs -------------------------
(***************************************************************************)
(* Proofs that CpuUtil, one run after the other, implements UtilFeed: the  *)
(* maps, entries and data points of the strategy, written piece by piece,  *)
(* amount to one observation per query, and what is delivered ranks every  *)
(* task by its utilization since it was last observed.                     *)
(***************************************************************************)
EXTENDS CpuUtilProofs

-----------------------------------------------------------------------------
(* The data points *)

\* A query is later than all data points.
LEMMA ObservedQuery ==
    ASSUME Serial, ObservedIInv, NEW r \in Runs, Query(r)
    PROVE  Observed(r)'
<1>1. /\ Types /\ Types' /\ Latest /\ Observed(r) /\ \A p \in Tasks : prev[p] \in Entries
  BY QueryTypes DEF ObservedIInv, IInv, Types
<1>2. PICK d \in Intervals : clock' = clock + d
  BY DEF Query
<1>3. clock \in Nat /\ clock' \in Nat /\ clock < clock'
  BY <1>1, <1>2, IntervalsAssumption DEF Types, Serial
<1>4. /\ stage[r] = "idle" /\ stage'[r] = "fetching" /\ at'[r] = clock'
      /\ UNCHANGED <<prev, half>>
  BY <1>1 DEF Query, Types
<1>5. \A p \in Tasks : prev'[p].at < at'[r]
  BY <1>1, <1>3, <1>4 DEF Latest, Entries
<1> QED BY <1>1, <1>4, <1>5 DEF Observed

\* The end of a run leaves data points that are complete.
LEMMA ObservedDone ==
    ASSUME ObservedIInv, NEW r \in Runs, Done(r), half[r].task = Nobody, UNCHANGED <<prev, half>>
    PROVE  Observed(r)'
<1>1. Types /\ Observed(r)
  BY DEF ObservedIInv, IInv
<1>2. stage'[r] = "idle"
  BY <1>1 DEF Done, Types
<1>3. \A p \in Tasks : p # half[r].task
  BY ContainersAssumption DEF Tasks, Nobody
<1> QED BY <1>1, <1>2, <1>3 DEF Observed

\* Before the ranking loop nothing but new entries is written.
LEMMA ObservedParse ==
    ASSUME ObservedIInv, NEW r \in Runs, stage[r] \notin {"idle", "ranking"},
           stage'[r] \notin {"idle", "ranking"}, UNCHANGED <<prev, at, vec>>
    PROVE  Observed(r)'
<1>1. Observed(r)
  BY DEF ObservedIInv
<1>2. Samples(r)' = Samples(r)
  BY DEF Samples
<1> QED BY <1>1, <1>2 DEF Observed

\* A new entry is blank.
LEMMA ObservedStoreEntry ==
    ASSUME OneRun, ObservedIInv, NEW r \in Runs, StoreEntry(r)
    PROVE  Observed(r)'
<1> DEFINE p == half[r].task
<1>1. Types /\ Entered(r) /\ Observed(r) /\ stage[r] = "storing"
  BY DEF ObservedIInv, IInv, StoreEntry
<1>2. /\ p \in Tasks /\ p \in Samples(r) /\ p[1] \in hosts
  BY <1>1 DEF Entered
<1>3. prev' = [prev EXCEPT ![p] = Recorded(r, p)] /\ Parsed(r, p) /\ UNCHANGED <<at, vec>>
  BY <1>2 DEF StoreEntry
<1> HIDE DEF p
<1>4. stage'[r] = "parsing"
  BY <1>1, <1>3 DEF Parsed, Types
<1>5. ~prev'[p].seen /\ prev'[p].used = 0 /\ prev'[p].at = 0
  BY <1>1, <1>2, <1>3 DEF Recorded, Types
<1>6. \A q \in Tasks : q # p => prev'[q] = prev[q]
  BY <1>1, <1>3 DEF Types
<1>7. Samples(r)' = Samples(r)
  BY <1>3 DEF Samples
<1> QED BY <1>1, <1>2, <1>3, <1>4, <1>5, <1>6, <1>7 DEF Observed

\* The ranking loop begins with nothing visited and nothing ranked.
LEMMA ObservedParsingDone ==
    ASSUME ObservedIInv, NEW r \in Runs, ParsingDone(r)
    PROVE  Observed(r)'
<1>1. Types /\ Entered(r) /\ Observed(r) /\ stage[r] = "parsing"
  BY DEF ObservedIInv, IInv, ParsingDone
<1>2. /\ stage'[r] = "ranking" /\ todo'[r] = Samples(r) \cap Tasks
      /\ UNCHANGED <<prev, at, vec, half, ranked>>
  BY <1>1 DEF ParsingDone, Types
<1>3. Samples(r)' = Samples(r)
  BY <1>2 DEF Samples
<1>4. half[r].task = Nobody /\ \A h \in Hosts : ranked[r][h] = <<>>
  BY <1>1 DEF Entered
<1> QED BY <1>1, <1>2, <1>3, <1>4 DEF Observed

\* The strategy is built again before a run executes: no entry, no data point.
LEMMA ObservedRebuild ==
    ASSUME Serial, ObservedIInv, NEW r \in Runs, Rebuild
    PROVE  Observed(r)'
<1>1. Types /\ Latest /\ Observed(r)
  BY DEF ObservedIInv, IInv
<1>2. /\ stage[r] \in {"idle", "fetching"}
      /\ prev' = [p \in Tasks |-> NoEntry] /\ UNCHANGED <<stage, at, vec>>
  BY DEF Rebuild, Serial, local
<1>3. \A p \in Tasks : ~prev'[p].seen /\ prev'[p].used = 0 /\ prev'[p].at = 0
  BY <1>2 DEF NoEntry
<1>4. stage[r] # "idle" => 0 < at[r]
  BY <1>1 DEF Latest
<1> QED BY <1>2, <1>3, <1>4 DEF Observed

\* What the ranking loop does with a task: it is appended to the tasks of its
\* host if it has a data point, half of which is then the one of the query.
LEMMA CalibrateSaves ==
    ASSUME IInv, NEW r \in Runs, NEW p \in Containers, Calibrate(r, p)
    PROVE  /\ stage[r] = "ranking" /\ half[r].task = Nobody
           /\ \A q \in Tasks : prev'[q].metric = prev[q].metric
           /\ p \in todo[r] /\ p \in Samples(r) /\ p \in Tasks /\ p[1] \in Hosts
           /\ UNCHANGED <<stage, at, vec, received>>
           /\ todo'[r] = todo[r] \ {p}
           /\ half'[r].task = p /\ half'[r].born = prev'[p].born
           /\ prev'[p].seen /\ prev'[p].used = vec[r][p].used /\ prev'[p].at = prev[p].at
           /\ \A q \in Tasks : q # p => prev'[q] = prev[q]
           /\ \A h \in Hosts :
                  ranked'[r][h] = IF prev[p].seen /\ h = p[1]
                                  THEN Append(ranked[r][h], Rank(r, p)) ELSE ranked[r][h]
<1>1. /\ stage[r] = "ranking" /\ half[r].task = Nobody /\ p \in todo[r]
      /\ UNCHANGED <<stage, at, vec, received>>
  BY DEF Calibrate
<1>2. Types /\ p \in Samples(r) /\ p \in Tasks /\ prev[p].born > 0 /\ p[1] \in Hosts
  BY <1>1 DEF IInv, Entered, Hosts
<1>3. prev[p] # NoEntry
  BY <1>2 DEF NoEntry
<1>4. /\ ranked' = IF prev[p].seen
                   THEN [ranked EXCEPT ![r][p[1]] = Append(@, Rank(r, p))]
                   ELSE ranked
      /\ prev' = [prev EXCEPT ![p].seen = TRUE, ![p].used = vec[r][p].used]
      /\ half' = [half EXCEPT ![r] = [task |-> p, born |-> prev[p].born]]
      /\ todo' = [todo EXCEPT ![r] = @ \ {p}]
  BY <1>3 DEF Calibrate
<1>5. todo'[r] = todo[r] \ {p} /\ half'[r] = [task |-> p, born |-> prev[p].born]
  BY <1>2, <1>4 DEF Types
<1>6. /\ prev'[p].seen /\ prev'[p].used = vec[r][p].used
      /\ prev'[p].at = prev[p].at /\ prev'[p].born = prev[p].born
      /\ prev'[p].metric = prev[p].metric
      /\ \A q \in Tasks : q # p => prev'[q] = prev[q]
  <2>1. prev \in [Tasks -> Entries] /\ prev[p] \in Entries
    BY <1>2 DEF Types
  <2> QED BY <1>2, <1>4, <2>1 DEF Entries
<1>7. \A h \in Hosts :
          ranked'[r][h] = IF prev[p].seen /\ h = p[1]
                          THEN Append(ranked[r][h], Rank(r, p)) ELSE ranked[r][h]
  BY <1>2, <1>4 DEF Types
<1> QED BY <1>1, <1>2, <1>5, <1>6, <1>7

\* A task is ranked over the window since the data point it had, if it had one.
LEMMA ObservedCalibrate ==
    ASSUME ObservedIInv, NEW r \in Runs, NEW p \in Containers, Calibrate(r, p)
    PROVE  Observed(r)'
<1>1. IInv /\ Types /\ Observed(r)
  BY DEF ObservedIInv, IInv
<1>2. Samples(r)' = Samples(r)
  BY <1>1, CalibrateSaves DEF Samples
<1>3. \A q \in Tasks : q # Nobody /\ (prev[q].seen <=> prev[q].at # 0)
  <2>1. \A q \in Tasks : q # Nobody
    BY ContainersAssumption DEF Tasks, Nobody
  <2> QED BY <1>1, <2>1, CalibrateSaves DEF Observed
<1>4. \A q \in Tasks \ {p} : /\ ~prev'[q].seen => prev'[q].used = 0
                             /\ prev'[q].seen <=> prev'[q].at # 0
  BY <1>1, <1>3, CalibrateSaves DEF Observed
<1>5. \A q \in Tasks \ Samples(r)' : prev'[q].at < at'[r]
  BY <1>1, <1>2, CalibrateSaves DEF Observed
<1>6. \A q \in (Samples(r)' \cap Tasks) \ todo'[r] :
          /\ prev'[q].used = vec'[r][q].used
          /\ q # p => prev'[q].at = at'[r]
  BY <1>1, <1>2, <1>3, CalibrateSaves DEF Observed
<1>7. ASSUME NEW h \in Hosts, NEW i \in DOMAIN ranked'[r][h]
      PROVE  /\ ranked'[r][h][i].task \in Samples(r)
             /\ ranked'[r][h][i].base.at # 0
             /\ ranked'[r][h][i].metric = ranked'[r][h][i].base.metric
             /\ ranked'[r][h][i].metric = prev'[ranked'[r][h][i].task].metric
             /\ ranked'[r][h][i].weight =
                    Weight(ranked'[r][h][i].base,
                           [used |-> vec[r][ranked'[r][h][i].task].used, at |-> at[r]])
  <2> DEFINE s == ranked[r][h]
             k == Rank(r, p)
  <2>1. s \in Seq(Rankings)
    BY <1>1 DEF Types
  <2>2. \A u \in DOMAIN s :
            /\ s[u].task \in Samples(r) /\ s[u].base.at # 0
            /\ s[u].metric = s[u].base.metric /\ s[u].metric = prev'[s[u].task].metric
            /\ s[u].weight = Weight(s[u].base, [used |-> vec[r][s[u].task].used, at |-> at[r]])
    <3>1. stage[r] = "ranking"
      BY <1>1, CalibrateSaves
    <3>2. \A u \in DOMAIN s :
              /\ s[u].task \in Samples(r) /\ s[u].base.at # 0
              /\ s[u].metric = s[u].base.metric /\ s[u].metric = prev[s[u].task].metric
              /\ s[u].weight = Weight(s[u].base,
                                      [used |-> vec[r][s[u].task].used, at |-> at[r]])
      BY <1>1, <3>1, Zenon DEF Observed
    <3>3. \A u \in DOMAIN s : prev'[s[u].task].metric = prev[s[u].task].metric
      <4>1. \A u \in DOMAIN s : s[u] \in Rankings
        BY <2>1
      <4>2. \A u \in DOMAIN s : s[u].task \in Tasks
        BY <4>1 DEF Rankings
      <4> QED BY <1>1, <4>2, CalibrateSaves
    <3> QED BY <3>2, <3>3
  <2>3. prev[p].seen =>
            /\ k.task \in Samples(r) /\ k.base.at # 0
            /\ k.metric = k.base.metric /\ k.metric = prev'[k.task].metric
            /\ k.weight = Weight(k.base, [used |-> vec[r][k.task].used, at |-> at[r]])
    <3>1. /\ k.task = p /\ k.base = DataPoint(p) /\ k.metric = prev[p].metric
          /\ k.base.at = prev[p].at /\ k.base.metric = prev[p].metric
          /\ k.weight = Weight(prev[p], [used |-> vec[r][p].used, at |-> at[r]])
      BY DEF Rank, DataPoint
    <3>2. \A now : Weight(prev[p], now) = Weight(DataPoint(p), now)
      BY Zenon DEF Weight, DataPoint
    <3> HIDE DEF k
    <3> QED BY <1>1, <1>3, <3>1, <3>2, CalibrateSaves
  <2>4. ranked'[r][h] = IF prev[p].seen /\ h = p[1] THEN Append(s, k) ELSE s
    BY <1>1, CalibrateSaves
  <2> HIDE DEF s, k
  <2>5. CASE prev[p].seen /\ h = p[1]
    <3>1. (i \in DOMAIN s /\ ranked'[r][h][i] = s[i]) \/ ranked'[r][h][i] = k
      BY <2>1, <2>4, <2>5
    <3> QED BY <2>2, <2>3, <2>5, <3>1
  <2>6. CASE ~(prev[p].seen /\ h = p[1])
    BY <2>2, <2>4, <2>6
  <2> QED BY <2>5, <2>6
<1>8. /\ stage'[r] = "ranking" /\ half'[r].task = p /\ at' = at /\ vec' = vec
      /\ half'[r].born = prev'[p].born /\ prev'[p].seen
  BY <1>1, CalibrateSaves
<1> QED BY <1>2, <1>4, <1>5, <1>6, <1>7, <1>8 DEF Observed

\* The data point is that of the query, in the entry the task still has.
LEMMA ObservedStamp ==
    ASSUME OneRun, ObservedIInv, NEW r \in Runs, Stamp(r)
    PROVE  Observed(r)'
<1> DEFINE p == half[r].task
<1>1. /\ Types /\ Entered(r) /\ Observed(r) /\ Latest /\ stage[r] = "ranking" /\ p # Nobody
      /\ UNCHANGED <<stage, at, vec, todo, ranked>>
  BY DEF ObservedIInv, IInv, Stamp
<1>2. p \in Tasks /\ p \in Samples(r) /\ p \notin todo[r]
  BY <1>1 DEF Entered
<1>3. prev' = [prev EXCEPT ![p] = Stamped(r, p)]
  BY <1>1 DEF Stamp, Observed
<1>4. half'[r].task = Nobody
  BY <1>1 DEF Stamp, Types
<1> HIDE DEF p
<1>5. /\ prev'[p].at = at[r] /\ prev'[p].used = prev[p].used /\ prev'[p].seen = prev[p].seen
      /\ prev'[p].metric = prev[p].metric
      /\ \A q \in Tasks : q # p => prev'[q] = prev[q]
  <2>1. prev \in [Tasks -> Entries] /\ prev[p] \in Entries
    BY <1>1, <1>2 DEF Types
  <2> QED BY <1>2, <1>3, <2>1 DEF Stamped, Entries
<1>6. at[r] # 0
  <2>1. at[r] = clock /\ clock > 0 /\ clock \in Nat
    BY <1>1 DEF Latest, Types
  <2> QED BY <2>1
<1>7. prev[p].seen
  BY <1>1 DEF Observed, p
<1>8. Samples(r)' = Samples(r)
  BY <1>1 DEF Samples
<1>9. \A q \in Tasks : /\ ~prev'[q].seen => prev'[q].used = 0
                       /\ prev'[q].seen <=> prev'[q].at # 0
  BY <1>1, <1>5, <1>6, <1>7 DEF Observed, p
<1>10. \A q \in Tasks \ Samples(r)' : prev'[q].at < at'[r]
  BY <1>1, <1>2, <1>5, <1>8 DEF Observed
<1>11. \A q \in (Samples(r)' \cap Tasks) \ todo'[r] :
           prev'[q].used = vec'[r][q].used /\ prev'[q].at = at'[r]
  BY <1>1, <1>2, <1>5, <1>8 DEF Observed, p
<1>12. \A h \in Hosts : \A i \in DOMAIN ranked'[r][h] :
           LET k == ranked'[r][h][i]
           IN  /\ k.task \in Samples(r)'
               /\ k.base.at # 0
               /\ k.metric = k.base.metric /\ k.metric = prev'[k.task].metric
               /\ k.weight = Weight(k.base, [used |-> vec'[r][k.task].used, at |-> at'[r]])
  <2>1. \A h \in Hosts : \A i \in DOMAIN ranked[r][h] :
            LET k == ranked[r][h][i]
            IN  /\ k.task \in Samples(r)
                /\ k.base.at # 0
                /\ k.metric = k.base.metric /\ k.metric = prev[k.task].metric
                /\ k.weight = Weight(k.base, [used |-> vec[r][k.task].used, at |-> at[r]])
    BY <1>1, Zenon DEF Observed
  <2>2. \A h \in Hosts : \A i \in DOMAIN ranked[r][h] : ranked[r][h][i].task \in Tasks
    <3>1. \A h \in Hosts : ranked[r][h] \in Seq(Rankings)
      BY <1>1 DEF Types
    <3>2. \A h \in Hosts : \A i \in DOMAIN ranked[r][h] : ranked[r][h][i] \in Rankings
      BY <3>1
    <3> QED BY <3>2 DEF Rankings
  <2>3. \A q \in Tasks : prev'[q].metric = prev[q].metric
    BY <1>5
  <2> QED BY <1>1, <1>8, <2>1, <2>2, <2>3
<1> HIDE DEF p
<1>13. stage'[r] = "ranking"
  BY <1>1
<1> QED BY <1>4, <1>9, <1>10, <1>11, <1>12, <1>13, Zenon DEF Observed

\* Every step of a single run keeps the data points in line with the queries.
LEMMA ObservedNext == ASSUME Serial, ObservedIInv, [Next]_vars PROVE ObservedIInv'
<1>1. IInv /\ IInv' /\ Types /\ OneRun
  BY NextIInv DEF ObservedIInv, IInv, Serial
<1> SUFFICES ASSUME NEW r \in Runs PROVE Observed(r)'
  BY <1>1 DEF ObservedIInv
<1>2. \A q \in Runs : q = r
  BY <1>1 DEF OneRun
<1>3. ASSUME NEW p \in Containers, FindHost(r, p) \/ MissHost(r, p) PROVE Observed(r)'
  <2>1. /\ stage[r] = "parsing" /\ UNCHANGED <<prev, at, vec>>
        /\ stage'[r] \in {"creating", "entering", "parsing"}
    BY <1>1, <1>3 DEF FindHost, MissHost, HostFound, Parsed, Types
  <2> QED BY <2>1, ObservedParse
<1>4. CASE CreateHost(r)
  <2>1. /\ stage[r] = "creating" /\ UNCHANGED <<prev, at, vec>>
        /\ stage'[r] \in {"entering", "parsing"}
    BY <1>1, <1>4, CreateDropsNothing DEF CreateHost, HostFound, Parsed, Types
  <2> QED BY <2>1, ObservedParse
<1>5. CASE FindEntry(r)
  <2>1. /\ stage[r] = "entering" /\ UNCHANGED <<prev, at, vec>>
        /\ stage'[r] \in {"storing", "parsing"}
    BY <1>1, <1>5 DEF FindEntry, Parsed, Types
  <2> QED BY <2>1, ObservedParse
<1>6. CASE Answer(r)
  <2>1. /\ stage[r] = "fetching" /\ UNCHANGED <<prev, at, vec>> /\ stage'[r] = "parsing"
    BY <1>1, <1>6 DEF Answer, Types
  <2> QED BY <2>1, ObservedParse
<1>7. CASE FetchFails(r)
  <2>1. half[r].task = Nobody /\ UNCHANGED <<prev, half>> /\ Done(r)
    BY <1>1, <1>7 DEF FetchFails, IInv, Entered
  <2> QED BY <2>1, ObservedDone
<1>8. CASE Deliver(r)
  BY <1>8, ObservedDone DEF Deliver
<1>9. ASSUME Execute(r) PROVE Observed(r)'
  BY <1>1, <1>3, <1>4, <1>5, <1>8, <1>9, ObservedStoreEntry, ObservedParsingDone,
     ObservedCalibrate, ObservedStamp DEF Execute
<1>10. CASE UNCHANGED vars
  <2>1. Samples(r)' = Samples(r)
    BY <1>10 DEF vars, Samples
  <2> QED BY <1>10, <2>1 DEF vars, ObservedIInv, Observed
<1>11. CASE Next
  <2>1. CASE Halted
    BY <1>10, <2>1 DEF Halted
  <2>2. CASE \E q \in Runs : Query(q) \/ FetchFails(q) \/ Answer(q) \/ Execute(q)
    <3>1. Query(r) \/ FetchFails(r) \/ Answer(r) \/ Execute(r)
      BY <1>2, <2>2
    <3> QED BY <1>1, <1>6, <1>7, <1>9, <3>1, ObservedQuery
  <2>3. CASE \E q, u \in Runs : MapFault(q, u)
    BY <1>2, <2>3 DEF MapFault
  <2>4. CASE Rebuild
    BY <2>4, ObservedRebuild
  <2> QED BY <1>11, <2>1, <2>2, <2>3, <2>4 DEF Next
<1> QED BY <1>10, <1>11

\* One run after the other, the data points are those of the last query that saw
\* the task, and every weight is the utilization since then.
THEOREM ObservedInductive == Serial => (Spec => []ObservedIInv)
<1>1. CASE Serial
  <2>1. Init => ObservedIInv
    <3>1. Init => \A r \in Runs : Observed(r)
      BY DEF Init, Observed, NoEntry
    <3> QED BY <3>1, InitIInv DEF ObservedIInv
  <2>2. ObservedIInv /\ [Next]_vars => ObservedIInv'
    BY <1>1, ObservedNext
  <2> QED BY <2>1, <2>2, PTL DEF Spec
<1> QED BY <1>1

-----------------------------------------------------------------------------
(* The refinement mapping *)

\* What Last is: the data point of the entry of a task; but of one that a run has
\* visited the base of its weight, or nothing if it has none.
Mapping ==
    \A p \in Tasks :
        /\ (\A r \in Runs : ~Visited(r, p)) => Last[p] = Saved(p)
        /\ \A r \in Runs : Visited(r, p) =>
               /\ \A i \in DOMAIN ranked[r][p[1]] :
                      ranked[r][p[1]][i].task = p => Last[p] = ranked[r][p[1]][i].base
               /\ (\A i \in DOMAIN ranked[r][p[1]] : ranked[r][p[1]][i].task # p)
                      => Last[p] = Unobserved

\* The mapping holds where a task is listed once.
LEMMA MappingHolds ==
    ASSUME OneRun, \A r \in Runs : Listed(r)
    PROVE  Mapping
<1> SUFFICES ASSUME NEW p \in Tasks
             PROVE  /\ (\A r \in Runs : ~Visited(r, p)) =>
                           LastObservation(p) = Saved(p)
                    /\ \A r \in Runs : Visited(r, p) =>
                           /\ \A i \in DOMAIN ranked[r][p[1]] :
                                  ranked[r][p[1]][i].task = p
                                      => LastObservation(p) = ranked[r][p[1]][i].base
                           /\ (\A i \in DOMAIN ranked[r][p[1]] : ranked[r][p[1]][i].task # p)
                                  => LastObservation(p) = Unobserved
  BY DEF Mapping, Last
<1>1. ASSUME \A r \in Runs : ~Visited(r, p)
      PROVE  LastObservation(p) = Saved(p)
  BY <1>1 DEF LastObservation
<1>2. ASSUME NEW r \in Runs, Visited(r, p)
      PROVE  /\ \A i \in DOMAIN ranked[r][p[1]] :
                    ranked[r][p[1]][i].task = p => LastObservation(p) = ranked[r][p[1]][i].base
             /\ (\A i \in DOMAIN ranked[r][p[1]] : ranked[r][p[1]][i].task # p)
                    => LastObservation(p) = Unobserved
  <2>1. \A q \in Runs : Visited(q, p) <=> q = r
    BY <1>2 DEF OneRun
  <2>2. (CHOOSE q \in Runs : Visited(q, p)) = r
    BY <2>1
  <2>3. LastObservation(p) = Base(r, p)
    BY <1>2, <2>2, Zenon DEF LastObservation
  <2>4. ASSUME NEW i \in Positions(r, p) PROVE (CHOOSE j \in Positions(r, p) : TRUE) = i
    <3>1. p[1] \in Hosts
      BY DEF Hosts, Tasks
    <3>2. \A j \in Positions(r, p) : j = i
      BY <3>1 DEF Listed, Positions
    <3>3. (CHOOSE j \in Positions(r, p) : TRUE) \in Positions(r, p)
      BY Zenon
    <3> QED BY <3>2, <3>3
  <2>5. ASSUME NEW i \in DOMAIN ranked[r][p[1]], ranked[r][p[1]][i].task = p
        PROVE  LastObservation(p) = ranked[r][p[1]][i].base
    <3>1. i \in Positions(r, p)
      BY <2>5 DEF Positions
    <3> QED BY <2>3, <2>4, <3>1 DEF Base
  <2>6. ASSUME \A i \in DOMAIN ranked[r][p[1]] : ranked[r][p[1]][i].task # p
        PROVE  LastObservation(p) = Unobserved
    <3>1. Positions(r, p) = {}
      BY <2>6 DEF Positions
    <3> QED BY <2>3, <3>1 DEF Base
  <2> QED BY <2>5, <2>6
<1> QED BY <1>1, <1>2

\* The types of the last observations.
LEMMA LastType ==
    ASSUME IInv, Mapping
    PROVE  Last \in [Tasks -> [used : Nat, at : Nat, metric : Nat]]
<1>1. Types /\ MaxUsage \in Nat /\ MaxMetric \in Nat
  BY BoundsAssumption DEF IInv
<1> SUFFICES ASSUME NEW p \in Tasks PROVE Last[p] \in [used : Nat, at : Nat, metric : Nat]
  BY DEF Last
<1>2. prev[p].used \in Nat /\ prev[p].at \in Nat /\ prev[p].metric \in Nat
  BY <1>1 DEF Types, Entries
<1>3. CASE \A r \in Runs : ~Visited(r, p)
  <2>1. Last[p] = Saved(p)
    BY <1>3 DEF Mapping
  <2> QED BY <1>2, <2>1 DEF Saved, DataPoint, Unobserved
<1>4. ASSUME NEW r \in Runs, Visited(r, p) PROVE Last[p] \in [used : Nat, at : Nat, metric : Nat]
  <2>1. p[1] \in Hosts
    BY DEF Hosts, Tasks
  <2>2. \A i \in DOMAIN ranked[r][p[1]] : ranked[r][p[1]][i].base \in [used : Nat, at : Nat, metric : Nat]
    <3>1. ranked[r][p[1]] \in Seq(Rankings)
      BY <1>1, <2>1 DEF Types
    <3>2. \A i \in DOMAIN ranked[r][p[1]] : ranked[r][p[1]][i] \in Rankings
      BY <3>1
    <3>3. \A k \in Rankings : k.base \in [used : Nat, at : Nat, metric : Nat]
      BY <1>1 DEF Rankings
    <3> QED BY <3>2, <3>3
  <2>3. \/ \E i \in DOMAIN ranked[r][p[1]] : Last[p] = ranked[r][p[1]][i].base
        \/ Last[p] = Unobserved
    BY <1>4 DEF Mapping
  <2> QED BY <2>2, <2>3 DEF Unobserved
<1> QED BY <1>3, <1>4

\* What holds of every state of a strategy that runs alone.
FeedState ==
    FeedIInv /\ ObservedIInv /\ Mapping /\ Last \in [Tasks -> [used : Nat, at : Nat, metric : Nat]]

\* It does hold of every state.
LEMMA FeedStateHolds == Serial => (Spec => []FeedState)
<1>1. CASE Serial
  <2>1. FeedIInv /\ ObservedIInv => FeedState
    BY <1>1, MappingHolds, LastType DEF Serial, FeedState, FeedIInv, ObservedIInv
  <2>2. Spec => []ObservedIInv
    BY <1>1, ObservedInductive
  <2> QED BY <2>1, <2>2, FeedInductive, PTL
<1> QED BY <1>1

-----------------------------------------------------------------------------
(* The steps that leave the last observations as they are *)

\* A task that is not visited keeps its data point.
LEMMA UnvisitedKept ==
    ASSUME OneRun, FeedState, FeedState', NEW r \in Runs, NEW p \in Tasks,
           ~Visited(r, p), ~Visited(r, p)',
           Saved(p)' = Saved(p)
    PROVE  Last'[p] = Last[p]
<1>1. \A q \in Runs : q = r
  BY DEF OneRun
<1>2. Last[p] = Saved(p)
  BY <1>1 DEF FeedState, Mapping
<1>3. Last'[p] = Saved(p)'
  BY <1>1 DEF FeedState, Mapping
<1> QED BY <1>2, <1>3

\* What the mapping says of a task that is visited, after a step.
LEMMA VisitedMaps ==
    ASSUME FeedState', NEW r \in Runs, NEW p \in Tasks, Visited(r, p)'
    PROVE  /\ \A i \in DOMAIN ranked'[r][p[1]] :
                  ranked'[r][p[1]][i].task = p => Last'[p] = ranked'[r][p[1]][i].base
           /\ (\A i \in DOMAIN ranked'[r][p[1]] : ranked'[r][p[1]][i].task # p)
                  => Last'[p] = Unobserved
<1>1. Mapping'
  BY DEF FeedState
<1> QED BY <1>1, Zenon DEF Mapping

\* A task that is visited keeps the base of its weight.
LEMMA VisitedKept ==
    ASSUME FeedState, FeedState', NEW r \in Runs, NEW p \in Tasks,
           Visited(r, p), Visited(r, p)',
           \A i \in DOMAIN ranked'[r][p[1]] : ranked'[r][p[1]][i].task = p =>
               i \in DOMAIN ranked[r][p[1]] /\ ranked'[r][p[1]][i] = ranked[r][p[1]][i],
           \A i \in DOMAIN ranked[r][p[1]] :
               i \in DOMAIN ranked'[r][p[1]] /\ ranked'[r][p[1]][i] = ranked[r][p[1]][i]
    PROVE  Last'[p] = Last[p]
<1>1. CASE \E i \in DOMAIN ranked[r][p[1]] : ranked[r][p[1]][i].task = p
  <2>1. PICK i \in DOMAIN ranked[r][p[1]] : ranked[r][p[1]][i].task = p
    BY <1>1
  <2>2. Last[p] = ranked[r][p[1]][i].base
    BY <2>1 DEF FeedState, Mapping
  <2>3. i \in DOMAIN ranked'[r][p[1]] /\ ranked'[r][p[1]][i] = ranked[r][p[1]][i]
    BY <2>1
  <2>4. Last'[p] = ranked'[r][p[1]][i].base
    BY <2>1, <2>3, VisitedMaps
  <2> QED BY <2>2, <2>3, <2>4
<1>2. CASE \A i \in DOMAIN ranked[r][p[1]] : ranked[r][p[1]][i].task # p
  <2>1. Last[p] = Unobserved
    BY <1>2 DEF FeedState, Mapping
  <2>2. \A i \in DOMAIN ranked'[r][p[1]] : ranked'[r][p[1]][i].task # p
    BY <1>2
  <2>3. Last'[p] = Unobserved
    BY <2>2, VisitedMaps
  <2> QED BY <2>1, <2>3
<1> QED BY <1>1, <1>2

\* The last observations are those of the tasks.
LEMMA LastKept ==
    ASSUME FeedState, FeedState', \A p \in Tasks : Last'[p] = Last[p]
    PROVE  Last' = Last
  BY DEF FeedState

\* Before the ranking loop no data point is written.
LEMMA ParseKeeps ==
    ASSUME OneRun, FeedState, FeedState', NEW r \in Runs,
           stage[r] # "ranking" \/ todo[r] = Samples(r) \cap Tasks,
           stage'[r] # "ranking" \/ todo'[r] = Samples(r)' \cap Tasks,
           \A p \in Tasks : Saved(p)' = Saved(p)
    PROVE  Last' = Last
<1>1. \A p \in Tasks : ~Visited(r, p) /\ ~Visited(r, p)'
  BY DEF Visited
<1> QED BY <1>1, UnvisitedKept, LastKept

\* The task that is visited had the data point that its weight is based on, or
\* none if it has no weight.
LEMMA CalibrateKeeps ==
    ASSUME OneRun, FeedState, FeedState', NEW r \in Runs, NEW p \in Containers, Calibrate(r, p)
    PROVE  Last' = Last
<1>1. IInv /\ Types /\ Observed(r) /\ Listed(r)
  BY DEF FeedState, FeedIInv, ObservedIInv, IInv
<1> DEFINE s == ranked[r][p[1]]
           k == Rank(r, p)
<1>2. /\ stage[r] = "ranking" /\ half[r].task = Nobody /\ stage' = stage
      /\ p \in todo[r] /\ p \in Samples(r) /\ p \in Tasks /\ p[1] \in Hosts
      /\ todo'[r] = todo[r] \ {p}
      /\ \A q \in Tasks : q # p => prev'[q] = prev[q]
      /\ \A h \in Hosts :
             ranked'[r][h] = IF prev[p].seen /\ h = p[1] THEN Append(ranked[r][h], k)
                             ELSE ranked[r][h]
  BY <1>1, CalibrateSaves
<1>3. Samples(r)' = Samples(r)
  BY <1>1, CalibrateSaves DEF Samples
<1>4. k.task = p /\ k.base = DataPoint(p)
  BY DEF Rank
<1>5. s \in Seq(Rankings) /\ k \in Rankings
  BY <1>1, <1>2, RankType DEF Types
<1> HIDE DEF k
<1>6. ASSUME NEW q \in Tasks, q # p PROVE Last'[q] = Last[q]
  <2>1. CASE ~Visited(r, q)
    <3>1. ~Visited(r, q)'
      BY <1>2, <1>3, <1>6, <2>1 DEF Visited
    <3>2. Saved(q)' = Saved(q)
      BY <1>2, <1>6 DEF Saved, DataPoint
    <3> QED BY <2>1, <3>1, <3>2, UnvisitedKept
  <2>2. CASE Visited(r, q)
    <3>1. Visited(r, q)'
      BY <1>2, <1>3, <2>2 DEF Visited
    <3>2. q[1] \in Hosts
      BY DEF Hosts, Tasks
    <3> DEFINE u == ranked[r][q[1]]
               v == ranked'[r][q[1]]
    <3>3. u \in Seq(Rankings)
      BY <1>1, <3>2 DEF Types
    <3>4. v = Append(u, k) \/ v = u
      BY <1>2, <3>2
    <3> HIDE DEF u, v
    <3>5. CASE v = u
      BY <2>2, <3>1, <3>5, VisitedKept DEF u, v
    <3>6. CASE v = Append(u, k)
      <4>1. /\ DOMAIN u = 1 .. Len(u) /\ DOMAIN v = 1 .. Len(u) + 1 /\ Len(u) \in Nat
            /\ v[Len(u) + 1] = k
            /\ \A i \in 1 .. Len(u) : v[i] = u[i]
        BY <1>5, <3>3, <3>6
      <4>2. \A i \in DOMAIN v : v[i].task = q => i \in DOMAIN u /\ v[i] = u[i]
        BY <1>4, <1>6, <4>1
      <4>3. \A i \in DOMAIN u : i \in DOMAIN v /\ v[i] = u[i]
        BY <4>1
      <4> QED BY <2>2, <3>1, <4>2, <4>3, VisitedKept DEF u, v
    <3> QED BY <3>4, <3>5, <3>6
  <2> QED BY <2>1, <2>2
<1>7. Last'[p] = Last[p]
  <2>1. ~Visited(r, p) /\ Visited(r, p)'
    BY <1>2, <1>3 DEF Visited
  <2>2. Last[p] = Saved(p)
    BY <1>2, <2>1 DEF OneRun, FeedState, Mapping
  <2>3. CASE prev[p].seen
    <3> DEFINE v == ranked'[r][p[1]]
    <3>1. v = Append(s, k)
      BY <1>2, <2>3
    <3> HIDE DEF s, v
    <3>2. Len(s) + 1 \in DOMAIN v /\ v[Len(s) + 1] = k
      BY <1>5, <3>1
    <3>3. Last'[p] = k.base
      <4>1. \A i \in DOMAIN v : v[i].task = p => Last'[p] = v[i].base
        BY <1>2, <2>1, VisitedMaps DEF v
      <4> QED BY <1>4, <3>2, <4>1
    <3>4. prev[p].at # 0
      <4>1. p # Nobody
        BY <1>2, ContainersAssumption DEF Tasks, Nobody
      <4> QED BY <1>1, <1>2, <2>3, <4>1 DEF Observed
    <3> QED BY <1>4, <2>2, <3>3, <3>4 DEF Saved
  <2>4. CASE ~prev[p].seen
    <3>1. prev[p].used = 0 /\ prev[p].at = 0
      <4>1. p # Nobody
        BY <1>2, ContainersAssumption DEF Tasks, Nobody
      <4>2. prev[p].at \in Nat
        BY <1>1, <1>2 DEF Types, Entries
      <4> QED BY <1>1, <1>2, <2>4, <4>1, <4>2 DEF Observed
    <3>2. \A i \in DOMAIN ranked'[r][p[1]] : ranked'[r][p[1]][i].task # p
      <4>1. \A i \in DOMAIN s : s[i].task # p
        BY <1>1, <1>2 DEF Listed
      <4> QED BY <1>2, <2>4, <4>1
    <3>3. Last'[p] = Unobserved
      BY <1>2, <2>1, <3>2, VisitedMaps
    <3> QED BY <2>2, <3>1, <3>3 DEF Saved
  <2> QED BY <2>3, <2>4
<1> QED BY <1>6, <1>7, LastKept

\* The task whose data point is completed has been visited.
LEMMA StampKeeps ==
    ASSUME OneRun, FeedState, FeedState', NEW r \in Runs, Stamp(r)
    PROVE  Last' = Last
<1> DEFINE p == half[r].task
<1>1. Types /\ Entered(r) /\ stage[r] = "ranking" /\ p # Nobody
  BY DEF FeedState, ObservedIInv, IInv, Stamp
<1>2. p \in Tasks /\ Visited(r, p)
  BY <1>1 DEF Entered, Visited
<1>3. UNCHANGED <<stage, vec, todo, ranked>>
  BY DEF Stamp
<1>4. \A q \in Tasks : q # p => prev'[q] = prev[q]
  BY <1>1, <1>2 DEF Stamp, Types
<1>5. \A q \in Tasks : Visited(r, q)' = Visited(r, q)
  BY <1>3 DEF Visited, Samples
<1>6. ASSUME NEW q \in Tasks, Visited(r, q) PROVE Last'[q] = Last[q]
  <2>1. Visited(r, q)'
    BY <1>5, <1>6
  <2> QED BY <1>3, <1>6, <2>1, VisitedKept
<1>7. ASSUME NEW q \in Tasks, ~Visited(r, q) PROVE Last'[q] = Last[q]
  BY <1>2, <1>4, <1>5, <1>7, UnvisitedKept DEF Saved, DataPoint
<1> QED BY <1>6, <1>7, LastKept

-----------------------------------------------------------------------------
(* The step that observes *)

\* Sorting a list keeps its elements.
LEMMA SortedElements ==
    ASSUME NEW s \in Seq(Rankings)
    PROVE  /\ \A i \in 1 .. Len(s) : \E j \in 1 .. Len(s) : Sort!SliceStable(s)[i] = s[j]
           /\ \A j \in 1 .. Len(s) : \E i \in 1 .. Len(s) : Sort!SliceStable(s)[i] = s[j]
<1> DEFINE t == SortFacts!SliceStable(s)
<1>1. Sort!SliceStable(s) = t
  BY DEF Sort!SliceStable, Sort!Insert, SortFacts!SliceStable, SortFacts!Insert
<1>2. \E p : SortFacts!Places(p, t, s, Len(s))
  BY SortFacts!SliceStableArranges
<1>3. \E p : /\ p \in [1 .. Len(s) -> 1 .. Len(s)]
             /\ \A k \in 1 .. Len(s) : \E i \in 1 .. Len(s) : p[i] = k
             /\ \A i \in 1 .. Len(s) : t[i] = s[p[i]]
  BY <1>2, Zenon DEF SortFacts!Places
<1> HIDE DEF t
<1>4. PICK p : /\ p \in [1 .. Len(s) -> 1 .. Len(s)]
               /\ \A k \in 1 .. Len(s) : \E i \in 1 .. Len(s) : p[i] = k
               /\ \A i \in 1 .. Len(s) : t[i] = s[p[i]]
  BY <1>3
<1>5. \A i \in 1 .. Len(s) : \E j \in 1 .. Len(s) : t[i] = s[j]
  BY <1>4
<1>6. ASSUME NEW j \in 1 .. Len(s) PROVE \E i \in 1 .. Len(s) : t[i] = s[j]
  <2>1. PICK i \in 1 .. Len(s) : p[i] = j
    BY <1>4
  <2>2. t[i] = s[p[i]]
    BY <1>4
  <2> QED BY <2>1, <2>2
<1> QED BY <1>1, <1>5, <1>6

\* After the end of a run its query has been observed, and no observation before
\* was as late.
LEMMA DeliverObserves ==
    ASSUME OneRun, FeedState, FeedState', NEW r \in Runs, Deliver(r), NEW p \in Tasks
    PROVE  /\ p \notin Samples(r) => Last'[p] = Last[p]
           /\ p \in Samples(r) => /\ Last'[p].used = vec[r][p].used /\ Last'[p].at = at[r]
                                  /\ Last'[p].metric = prev[p].metric
           /\ Last[p].at < at[r]
<1>1. IInv /\ Types /\ Entered(r) /\ Latest /\ SuccessiveQueries /\ Observed(r)
  BY DEF FeedState, ObservedIInv, IInv
<1>2. /\ stage[r] = "ranking" /\ todo[r] = {} /\ half[r].task = Nobody
      /\ stage'[r] = "idle" /\ prev' = prev
  BY <1>1 DEF Deliver, Done, Types
<1>3. p # Nobody /\ p[1] \in Hosts
  BY ContainersAssumption DEF Tasks, Nobody, Hosts
<1>4. ~Visited(r, p)'
  BY <1>2 DEF Visited
<1>5. Last'[p] = Saved(p)
  <2>1. Last'[p] = Saved(p)'
    <3>1. Mapping'
      BY DEF FeedState
    <3>2. \A q \in Runs : ~Visited(q, p)'
      BY <1>4 DEF OneRun
    <3> QED BY <3>1, <3>2, Zenon DEF Mapping
  <2> QED BY <1>2, <2>1 DEF Saved, DataPoint
<1>6. CASE p \notin Samples(r)
  <2>1. ~Visited(r, p)
    BY <1>6 DEF Visited
  <2>2. Last[p] = Saved(p)
    BY <2>1 DEF OneRun, FeedState, Mapping
  <2>3. prev[p].at < at[r]
    BY <1>1, <1>2, <1>6 DEF Observed
  <2>4. prev[p].at \in Nat /\ at[r] \in Nat
    BY <1>1 DEF Types, Entries
  <2>5. 0 < at[r]
    BY <1>1, <1>2 DEF Latest
  <2> QED BY <1>5, <1>6, <2>2, <2>3, <2>4, <2>5 DEF Saved, DataPoint, Unobserved
<1>7. CASE p \in Samples(r)
  <2>1. Visited(r, p)
    BY <1>2, <1>7 DEF Visited
  <2>2. prev[p].used = vec[r][p].used /\ prev[p].at = at[r]
    BY <1>1, <1>2, <1>3, <1>7 DEF Observed
  <2>3. 0 < at[r]
    BY <1>1, <1>2 DEF Latest
  <2>4. \/ \E i \in DOMAIN ranked[r][p[1]] : Last[p] = ranked[r][p[1]][i].base
        \/ Last[p] = Unobserved
    BY <2>1 DEF FeedState, Mapping
  <2>5. Last[p].at < at[r]
    BY <1>1, <1>3, <2>3, <2>4 DEF SuccessiveQueries, Unobserved
  <2> QED BY <1>5, <1>7, <2>2, <2>3, <2>5 DEF Saved, DataPoint
<1> QED BY <1>6, <1>7

\* What a run has ranked at its end are the tasks known before, each by its
\* utilization since the last observation.
LEMMA DeliverRanked ==
    ASSUME OneRun, FeedState, FeedState', NEW r \in Runs, Deliver(r), NEW h \in Hosts
    PROVE  /\ {ranked[r][h][i].task : i \in DOMAIN ranked[r][h]} =
                  {p \in Samples(r) \cap Tasks : Last[p].at # 0 /\ p[1] = h}
           /\ \A i, j \in DOMAIN ranked[r][h] :
                  i # j => ranked[r][h][i].task # ranked[r][h][j].task
           /\ \A i \in DOMAIN ranked[r][h] :
                  /\ ranked[r][h][i].weight = Weight(Last[ranked[r][h][i].task],
                                                     Last'[ranked[r][h][i].task])
                  /\ ranked[r][h][i].metric = Last[ranked[r][h][i].task].metric
                  /\ ranked[r][h][i].metric = Last'[ranked[r][h][i].task].metric
                  /\ ~ranked[r][h][i].weight.nan
<1>1. IInv /\ Types /\ Observed(r) /\ Listed(r)
  BY DEF FeedState, FeedIInv, ObservedIInv, IInv
<1>2. stage[r] = "ranking" /\ todo[r] = {}
  BY DEF Deliver
<1> DEFINE s == ranked[r][h]
<1>3. s \in Seq(Rankings)
  BY <1>1 DEF Types
<1>4. ASSUME NEW i \in DOMAIN s
      PROVE  /\ s[i].task \in Samples(r) \cap Tasks
             /\ s[i].task[1] = h
             /\ Last[s[i].task] = s[i].base
             /\ Last[s[i].task].at # 0
             /\ s[i].weight = Weight(Last[s[i].task], Last'[s[i].task])
             /\ s[i].metric = Last[s[i].task].metric
             /\ s[i].metric = Last'[s[i].task].metric
             /\ ~s[i].weight.nan
  <2> DEFINE p == s[i].task
  <2>1. p \in Tasks
    <3>1. s[i] \in Rankings
      BY <1>3
    <3> QED BY <3>1 DEF Rankings
  <2>2. p[1] = h
    BY <1>1 DEF Listed
  <2>3. /\ p \in Samples(r) /\ s[i].base.at # 0
        /\ s[i].metric = s[i].base.metric /\ s[i].metric = prev[p].metric
        /\ s[i].weight = Weight(s[i].base, [used |-> vec[r][p].used, at |-> at[r]])
    BY <1>1, <1>2, Zenon DEF Observed
  <2>4. Visited(r, p)
    BY <1>2, <2>3 DEF Visited
  <2>5. Last[p] = s[i].base
    <3>1. Mapping
      BY DEF FeedState
    <3>2. \A j \in DOMAIN ranked[r][p[1]] :
              ranked[r][p[1]][j].task = p => Last[p] = ranked[r][p[1]][j].base
      BY <2>1, <2>4, <3>1, Zenon DEF Mapping
    <3> QED BY <2>2, <3>2
  <2>6. /\ Last'[p].used = vec[r][p].used /\ Last'[p].at = at[r]
        /\ Last'[p].metric = prev[p].metric
    BY <2>1, <2>3, DeliverObserves
  <2>6a. s[i].weight = Weight(s[i].base, Last'[p])
    BY <2>3, <2>6 DEF Weight
  <2>7. s[i].base.at \in Nat /\ at[r] \in Nat /\ s[i].base.at < at[r]
    <3>1. s[i] \in Rankings
      BY <1>3
    <3> QED BY <1>1, <3>1 DEF Rankings, IInv, Types, SuccessiveQueries
  <2>8. ~s[i].weight.nan
    BY <2>3, <2>7 DEF Weight
  <2> HIDE DEF s
  <2> QED BY <2>1, <2>2, <2>3, <2>5, <2>6, <2>6a, <2>8
<1>5. ASSUME NEW p \in Samples(r) \cap Tasks, Last[p].at # 0, p[1] = h
      PROVE  \E i \in DOMAIN s : s[i].task = p
  <2>1. Visited(r, p)
    BY <1>2 DEF Visited
  <2>2. Mapping
    BY DEF FeedState
  <2>3. (\A j \in DOMAIN ranked[r][p[1]] : ranked[r][p[1]][j].task # p)
            => Last[p] = Unobserved
    BY <2>1, <2>2, Zenon DEF Mapping
  <2> QED BY <1>5, <2>3 DEF Unobserved
<1>6. \A i, j \in DOMAIN s : i # j => s[i].task # s[j].task
  BY <1>1 DEF Listed
<1>7. {s[i].task : i \in DOMAIN s} =
          {p \in Samples(r) \cap Tasks : Last[p].at # 0 /\ p[1] = h}
  <2> HIDE DEF s
  <2> QED BY <1>4, <1>5
<1> QED BY <1>4, <1>6, <1>7

\* What is delivered of a host ranks the known of the tasks that the query saw.
LEMMA DeliveredRanks ==
    ASSUME OneRun, FeedState, FeedState', NEW r \in Runs, Deliver(r), NEW h \in Hosts,
           received'[h] = Sort!SliceStable(ranked[r][h])
    PROVE  Feed!Ranks(received'[h],
                      {p \in Samples(r) \cap Tasks : Last[p].at # 0 /\ p[1] = h})
<1> DEFINE s == ranked[r][h]
           t == received'[h]
           known == {p \in Samples(r) \cap Tasks : Last[p].at # 0 /\ p[1] = h}
<1>1. s \in Seq(Rankings)
  BY DEF FeedState, ObservedIInv, IInv, Types
<1>2. /\ {s[i].task : i \in DOMAIN s} = known
      /\ \A i, j \in DOMAIN s : i # j => s[i].task # s[j].task
      /\ \A i \in DOMAIN s : /\ s[i].weight = Weight(Last[s[i].task], Last'[s[i].task])
                            /\ s[i].metric = Last[s[i].task].metric
                            /\ ~s[i].weight.nan
  BY DeliverRanked
<1>3. t = Sort!SliceStable(s)
  OBVIOUS
<1> HIDE DEF s, t, known
<1>4. t \in Seq(Rankings) /\ NonIncreasing(t) /\ Len(t) = Len(s)
  <2>1. \A i \in DOMAIN s : s[i] \in Weighed
    BY <1>1, <1>2 DEF Weighed
  <2>2. s \in Seq(Weighed)
    BY <1>1, <2>1
  <2> QED BY <1>1, <1>3, <2>2, SortedRankings, SortedByWeight
<1>5. /\ \A i \in 1 .. Len(s) : \E j \in 1 .. Len(s) : t[i] = s[j]
      /\ \A j \in 1 .. Len(s) : \E i \in 1 .. Len(s) : t[i] = s[j]
  BY <1>1, <1>3, SortedElements
<1>6. DOMAIN s = 1 .. Len(s) /\ DOMAIN t = 1 .. Len(s)
  BY <1>1, <1>4
<1>7. ASSUME NEW i \in DOMAIN t
      PROVE  /\ t[i].task \in known /\ t[i].metric = Last[t[i].task].metric
             /\ t[i].weight = Weight(Last[t[i].task], Last'[t[i].task])
  <2>1. PICK j \in DOMAIN s : t[i] = s[j]
    BY <1>5, <1>6
  <2>2. s[j].task \in known
    BY <1>2
  <2>3. /\ s[j].weight = Weight(Last[s[j].task], Last'[s[j].task])
        /\ s[j].metric = Last[s[j].task].metric
    BY <1>2
  <2> QED BY <2>1, <2>2, <2>3
<1>8. ASSUME NEW p \in known PROVE \E i \in DOMAIN t : t[i].task = p
  <2>1. PICK j \in DOMAIN s : s[j].task = p
    BY <1>2
  <2> QED BY <1>5, <1>6, <2>1
<1>9. \A i, j \in DOMAIN t : i # j => t[i].task # t[j].task
  BY DEF FeedState, FeedIInv, WellFormedFeed, t
<1>10. {t[i].task : i \in DOMAIN t} = known
  BY <1>7, <1>8
<1>11. \A a, b : Feed!Weight(a, b) = Weight(a, b)
  BY DEF Feed!Weight, Feed!RoundDiv, Weight, RoundDiv
<1>12. Feed!NonIncreasing(t)
  BY <1>4 DEF Feed!NonIncreasing, NonIncreasing, Feed!AtLeast, AtLeast
<1>13. \A i \in DOMAIN t : t[i].weight = Feed!Weight(Last[t[i].task], Last'[t[i].task])
  BY <1>7, <1>11
<1>14. Feed!Ranks(t, known)
  BY <1>7, <1>9, <1>10, <1>12, <1>13 DEF Feed!Ranks
<1> QED BY <1>14 DEF t, known

\* A run that ends delivers one observation of the tasks that its query saw.
LEMMA DeliverIsObserve ==
    ASSUME OneRun, FeedState, FeedState', NEW r \in Runs, Deliver(r)
    PROVE  Feed!Observe(Samples(r) \cap Tasks)
<1> DEFINE S == Samples(r) \cap Tasks
           known == {p \in S : Last[p].at # 0}
<1>1. Last' \in [Tasks -> [used : Nat, at : Nat, metric : Nat]]
  BY DEF FeedState
<1>2. \A p \in Tasks \ S : Last'[p] = Last[p]
  BY DeliverObserves
<1>3. ASSUME NEW p \in S PROVE Last'[p].at = at[r]
  BY DeliverObserves
<1>4. \A p \in S : /\ \A q \in S : Last'[p].at = Last'[q].at
                   /\ \A q \in Tasks : Last'[p].at > Last[q].at
  <2>1. \A q \in Tasks : Last[q].at < at[r]
    BY DeliverObserves
  <2>2. at[r] \in Nat /\ \A q \in Tasks : Last[q].at \in Nat
    BY DEF FeedState, ObservedIInv, IInv, Types
  <2> HIDE DEF S
  <2> QED BY <1>3, <2>1, <2>2
<1>4a. ASSUME NEW p \in known PROVE Last'[p].metric = Last[p].metric
  <2>1. p[1] \in Hosts
    BY DEF Hosts, Tasks
  <2>2. PICK i \in DOMAIN ranked[r][p[1]] : ranked[r][p[1]][i].task = p
    <3>1. p \in {ranked[r][p[1]][i].task : i \in DOMAIN ranked[r][p[1]]}
      BY <2>1, DeliverRanked
    <3> QED BY <3>1
  <2> QED BY <2>1, <2>2, DeliverRanked
<1>5. CASE \E h \in Hosts : ranked[r][h] # <<>>
  <2>1. received' = [h \in Hosts |-> Sort!SliceStable(ranked[r][h])]
    BY <1>5 DEF Deliver
  <2>2. known # {}
    <3>1. PICK h \in Hosts : ranked[r][h] # <<>>
      BY <1>5
    <3>2. ranked[r][h] \in Seq(Rankings)
      BY DEF FeedState, ObservedIInv, IInv, Types
    <3>3. 1 \in DOMAIN ranked[r][h]
      BY <3>1, <3>2
    <3>4. ranked[r][h][1].task \in {p \in S : Last[p].at # 0 /\ p[1] = h}
      BY <3>3, DeliverRanked
    <3> QED BY <3>4
  <2>3. DOMAIN received' = Hosts
    BY <2>1
  <2>4. ASSUME NEW h \in Hosts
        PROVE  Feed!Ranks(received'[h], {p \in known : p[1] = h})
    <3>1. received'[h] = Sort!SliceStable(ranked[r][h])
      BY <2>1
    <3>2. {p \in known : p[1] = h} = {p \in S : Last[p].at # 0 /\ p[1] = h}
      OBVIOUS
    <3>3. Feed!Ranks(received'[h], {p \in S : Last[p].at # 0 /\ p[1] = h})
      BY <3>1, DeliveredRanks
    <3> QED BY <3>2, <3>3
  <2> HIDE DEF S
  <2>5. Feed!Observe(S)
    BY <1>1, <1>2, <1>4, <1>4a, <2>2, <2>3, <2>4 DEF Feed!Observe
  <2> QED BY <2>5 DEF S
<1>6. CASE \A h \in Hosts : ranked[r][h] = <<>>
  <2>1. received' = received
    BY <1>6 DEF Deliver
  <2>2. known = {}
    <3> SUFFICES ASSUME NEW p \in known PROVE FALSE
      OBVIOUS
    <3>1. p[1] \in Hosts
      BY DEF Hosts, Tasks
    <3>2. p \in {ranked[r][p[1]][i].task : i \in DOMAIN ranked[r][p[1]]}
      BY <3>1, DeliverRanked
    <3>3. DOMAIN ranked[r][p[1]] = {}
      BY <1>6, <3>1
    <3> QED BY <3>2, <3>3
  <2> HIDE DEF S
  <2>3. Feed!Observe(S)
    BY <1>1, <1>2, <1>4, <2>1, <2>2 DEF Feed!Observe
  <2> QED BY <2>3 DEF S
<1> QED BY <1>5, <1>6

-----------------------------------------------------------------------------
(* The refinement *)

\* No step before the ranking loop touches a data point.
LEMMA ParsingKeeps ==
    ASSUME Serial, FeedState, FeedState', NEW r \in Runs,
           \/ Query(r) \/ FetchFails(r) \/ Answer(r) \/ FindEntry(r) \/ ParsingDone(r)
           \/ CreateHost(r) \/ StoreEntry(r)
           \/ \E p \in Containers : FindHost(r, p) \/ MissHost(r, p)
    PROVE  Last' = Last
<1>1. IInv /\ Types /\ Entered(r) /\ OneRun
  BY DEF FeedState, ObservedIInv, IInv, Serial
<1>2. CASE Query(r) \/ FetchFails(r) \/ Answer(r)
  <2>1. stage[r] # "ranking" /\ stage'[r] # "ranking" /\ prev' = prev
    BY <1>1, <1>2 DEF Query, FetchFails, Answer, Done, Types
  <2> QED BY <1>1, <2>1, ParseKeeps DEF Saved, DataPoint
<1>3. CASE FindEntry(r) \/ \E p \in Containers : FindHost(r, p) \/ MissHost(r, p)
  <2>1. stage[r] # "ranking" /\ stage'[r] # "ranking" /\ prev' = prev
    BY <1>1, <1>3 DEF FindEntry, FindHost, MissHost, HostFound, Parsed, Types
  <2> QED BY <1>1, <2>1, ParseKeeps DEF Saved, DataPoint
<1>4. CASE CreateHost(r)
  <2>1. stage[r] # "ranking" /\ stage'[r] # "ranking"
    BY <1>1, <1>4 DEF CreateHost, HostFound, Parsed, Types
  <2>2. prev' = prev
    BY <1>1, <1>4, CreateDropsNothing
  <2> QED BY <1>1, <2>1, <2>2, ParseKeeps DEF Saved, DataPoint
<1>5. CASE ParsingDone(r)
  <2>1. stage[r] # "ranking" /\ todo'[r] = Samples(r) \cap Tasks /\ UNCHANGED <<prev, vec>>
    BY <1>1, <1>5 DEF ParsingDone, Types
  <2>2. Samples(r)' = Samples(r)
    BY <2>1 DEF Samples
  <2> QED BY <1>1, <2>1, <2>2, ParseKeeps DEF Saved, DataPoint
<1>6. CASE StoreEntry(r)
  <2> DEFINE p == half[r].task
  <2>1. p \in Tasks /\ p[1] \in hosts /\ prev[p] = NoEntry /\ stage[r] = "storing"
    BY <1>1, <1>6 DEF Entered, StoreEntry
  <2>2. prev' = [prev EXCEPT ![p] = Recorded(r, p)] /\ Parsed(r, p)
    BY <1>6, <2>1 DEF StoreEntry
  <2> HIDE DEF p
  <2>3. stage'[r] # "ranking"
    BY <1>1, <2>2 DEF Parsed, Types
  <2>4. \A q \in Tasks : Saved(q)' = Saved(q)
    BY <1>1, <2>1, <2>2 DEF Types, Recorded, NoEntry, Saved, DataPoint
  <2> QED BY <1>1, <2>1, <2>3, <2>4, ParseKeeps DEF Saved, DataPoint
<1> QED BY <1>2, <1>3, <1>4, <1>5, <1>6

\* A strategy that is built again has observed nothing.
LEMMA RebuildForgets ==
    ASSUME Serial, FeedState, FeedState', Rebuild
    PROVE  Feed!Forget
<1>1. /\ \A r \in Runs : stage[r] \in {"idle", "fetching"}
      /\ prev' = [p \in Tasks |-> NoEntry] /\ UNCHANGED <<stage, received>>
  BY DEF Rebuild, Serial, local
<1>2. \A p \in Tasks : \A r \in Runs : ~Visited(r, p)'
  BY <1>1 DEF Visited
<1>3. Mapping' /\ Last' \in [Tasks -> [used : Nat, at : Nat, metric : Nat]]
  BY DEF FeedState
<1>4. \A p \in Tasks : Last'[p] = Saved(p)'
  BY <1>2, <1>3, Zenon DEF Mapping
<1>5. \A p \in Tasks : Last'[p] = Unobserved
  BY <1>1, <1>4 DEF NoEntry, Saved, Unobserved
<1> QED BY <1>1, <1>3, <1>5 DEF Feed!Forget, Unobserved

\* Every step of a strategy that runs alone is one of the feed, or none.
LEMMA FeedStep ==
    ASSUME Serial, FeedState, FeedState', [Next]_vars
    PROVE  [Feed!Next]_(Feed!vars)
<1>1. OneRun
  BY DEF Serial
<1>2. ASSUME Last' = Last, received' = received PROVE [Feed!Next]_(Feed!vars)
  BY <1>2 DEF Feed!vars
<1>3. CASE UNCHANGED vars
  <2>1. UNCHANGED <<stage, vec, todo, ranked, prev>>
    BY <1>3 DEF vars
  <2>2. ASSUME NEW r \in Runs PROVE Last' = Last
    <3>1. \A p \in Tasks : Visited(r, p)' = Visited(r, p)
      BY <2>1 DEF Visited, Samples
    <3>2. ASSUME NEW p \in Tasks, Visited(r, p) PROVE Last'[p] = Last[p]
      <4>1. Visited(r, p)'
        BY <3>1, <3>2
      <4> QED BY <2>1, <3>2, <4>1, VisitedKept
    <3>3. ASSUME NEW p \in Tasks, ~Visited(r, p) PROVE Last'[p] = Last[p]
      BY <1>1, <2>1, <3>1, <3>3, UnvisitedKept DEF Saved, DataPoint
    <3> QED BY <3>2, <3>3, LastKept
  <2>3. ASSUME Runs = {} PROVE Last' = Last
    BY <2>1, <2>3 DEF Last, LastObservation, Saved, DataPoint
  <2> QED BY <1>2, <1>3, <2>2, <2>3 DEF vars
<1>4. CASE Halted
  BY <1>3, <1>4 DEF Halted
<1>5. ASSUME NEW r \in Runs, Deliver(r) PROVE [Feed!Next]_(Feed!vars)
  <2>1. Feed!Observe(Samples(r) \cap Tasks)
    BY <1>1, <1>5, DeliverIsObserve
  <2>2. Samples(r) \cap Tasks \in SUBSET Tasks
    OBVIOUS
  <2> QED BY <2>1, <2>2, Zenon DEF Feed!Next
<1>6. ASSUME NEW r \in Runs,
             \/ Query(r) \/ FetchFails(r) \/ Answer(r) \/ FindEntry(r) \/ ParsingDone(r)
             \/ CreateHost(r) \/ StoreEntry(r)
             \/ \E p \in Containers : FindHost(r, p) \/ MissHost(r, p)
      PROVE  [Feed!Next]_(Feed!vars)
  <2>1. received' = received
    BY <1>6 DEF Query, FetchFails, Answer, FindEntry, ParsingDone, CreateHost, StoreEntry,
                FindHost, MissHost
  <2> QED BY <1>2, <1>6, <2>1, ParsingKeeps
<1>7. ASSUME NEW r \in Runs, NEW p \in Containers, Calibrate(r, p)
      PROVE  [Feed!Next]_(Feed!vars)
  <2>1. received' = received
    BY <1>7 DEF Calibrate
  <2> QED BY <1>1, <1>2, <1>7, <2>1, CalibrateKeeps
<1>8. ASSUME NEW r \in Runs, Stamp(r) PROVE [Feed!Next]_(Feed!vars)
  <2>1. received' = received
    BY <1>8 DEF Stamp
  <2> QED BY <1>1, <1>2, <1>8, <2>1, StampKeeps
<1>9. CASE Rebuild
  BY <1>9, RebuildForgets DEF Feed!Next
<1>10. CASE \E r, q \in Runs : MapFault(r, q)
  BY <1>1, <1>10 DEF MapFault, OneRun
<1>11. ASSUME NEW r \in Runs, Execute(r) PROVE [Feed!Next]_(Feed!vars)
  BY <1>5, <1>6, <1>7, <1>8, <1>11 DEF Execute
<1> QED BY <1>3, <1>4, <1>6, <1>9, <1>10, <1>11 DEF Next

\* One run after the other, the strategy is the feed: what it writes piece by
\* piece amounts to one observation per query, and every task observed before is
\* ranked, among its colocated tasks, by its utilization since.
THEOREM StrategyIsFeed == Serial => (Spec => ImplementsFeed)
<1>1. CASE Serial
  <2>1. Init => Feed!Init
    <3> SUFFICES ASSUME Init PROVE Feed!Init
      OBVIOUS
    <3>1. \A p \in Tasks : \A r \in Runs : ~Visited(r, p)
      BY DEF Init, Visited
    <3>2. \A p \in Tasks : LastObservation(p) = Unobserved
      BY <3>1 DEF Init, LastObservation, Saved, NoEntry
    <3> QED BY <3>2 DEF Init, Feed!Init, Last, Unobserved
  <2>2. FeedState /\ FeedState' /\ [Next]_vars => [Feed!Next]_(Feed!vars)
    BY <1>1, FeedStep
  <2>3. Spec => []FeedState
    BY <1>1, FeedStateHolds
  <2> QED BY <2>1, <2>2, <2>3, PTL DEF Spec, Feed!Spec, ImplementsFeed
<1> QED BY <1>1
=============================================================================
