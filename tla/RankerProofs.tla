---------------------------- MODULE RankerProofs ----------------------------
(***************************************************************************)
(* Proofs about Ranker, for every schedule, deadline and number of starts: *)
(* type correctness, the bound on overlapping runs with the inductive      *)
(* invariant it rests on, the absence of overlap under a slow schedule,    *)
(* and that every step of the ranker is a step of the Admission gate.      *)
(***************************************************************************)
EXTENDS Ranker, TLAPS, FiniteSetTheorems

-----------------------------------------------------------------------------

\* The runners are a range that holds the first one.
LEMMA RunnersRange ==
    /\ 1 \in Runners
    /\ \A n \in 0 .. MaxStarts : n < MaxStarts => n + 1 \in Runners
    /\ Runners \subseteq Nat
BY StartsAssumption DEF Runners

\* The initial state satisfies the inductive invariant: nothing runs.
LEMMA InitIInv == ASSUME Init PROVE IInv
<1>1. TypeOK
  <2>1. started \in 0 .. MaxStarts /\ live \subseteq 1 .. started
    BY StartsAssumption DEF Init
  <2> QED
    BY <2>1, RunnersRange DEF Init, TypeOK, Stages
<1>2. Owned /\ Punctual /\ Spaced /\ Recent
  BY DEF Init, Owned, Punctual, Spaced, Recent
<1> QED
  BY <1>1, <1>2 DEF IInv

\* A goroutine that ends keeps the types.
LEMMA FinishTypeOK ==
    ASSUME TypeOK, NEW r \in Runs, Finish(r)
    PROVE  /\ stage' \in [Runs -> Stages]
           /\ by' \in [Runs -> Runners]
           /\ age' \in [Runs -> Nat]
           /\ left' \in [Runs -> Nat]
BY RunnersRange DEF TypeOK, Finish, Stages

\* Every step keeps the types.
LEMMA NextTypeOK == ASSUME TypeOK, Next PROVE TypeOK'
<1> USE DEF TypeOK
<1>1. CASE Start
  <2>1. started' \in 0 .. MaxStarts /\ live' \subseteq 1 .. started'
    BY <1>1, StartsAssumption DEF Start
  <2>2. due' \in [Runners -> Nat]
    <3>1. PICK g \in Gaps : \E wait \in 1 .. g : due' = [due EXCEPT ![started'] = wait]
      BY <1>1 DEF Start
    <3>2. \A wait \in 1 .. g : wait \in Nat
      BY <3>1, GapsAssumption
    <3> QED
      BY <3>1, <3>2
  <2> QED
    BY <1>1, <2>1, <2>2 DEF Start
<1>2. CASE StopClose
  BY <1>2 DEF StopClose
<1>3. CASE StopRunner
  <2>1. due' \in [Runners -> Nat] /\ live' \subseteq live
    BY <1>3 DEF StopRunner
  <2> QED
    BY <1>3, <2>1 DEF StopRunner
<1>4. CASE StopLogger
  BY <1>4 DEF StopLogger
<1>5. ASSUME NEW c \in Runners, Fire(c) PROVE TypeOK'
  <2>1. due' \in [Runners -> Nat]
    BY <1>5, GapsAssumption DEF Fire, Rearm
  <2>2. stage' \in [Runs -> Stages] /\ by' \in [Runs -> Runners]
    BY <1>5 DEF Fire, Stages
  <2> QED
    BY <1>5, <2>1, <2>2 DEF Fire, Rearm, caller
<1>6. ASSUME NEW r \in Runs, RunStep(r) PROVE TypeOK'
  <2>1. UNCHANGED <<caller, due>>
    BY <1>6 DEF RunStep, Check, Deadline, Answer, Fail, Expire, Execute, Return
  <2>2. CASE Finish(r)
    BY <2>1, <2>2, FinishTypeOK DEF caller
  <2>3. CASE ~Finish(r)
    <3>1. UNCHANGED <<by, age>>
      BY <1>6, <2>3 DEF RunStep, Check, Deadline, Answer, Fail, Expire, Execute, Return
    <3>2. stage' \in [Runs -> Stages] /\ left' \in [Runs -> Nat]
      BY <1>6, <2>3, TimesAssumption
      DEF RunStep, Check, Deadline, Answer, Fail, Expire, Execute, Return, Stages
    <3> QED
      BY <2>1, <3>1, <3>2 DEF caller
  <2> QED
    BY <2>2, <2>3
<1>7. CASE Tick
  <2>1. due' \in [Runners -> Nat]
    <3>1. live \subseteq Runners
      BY StartsAssumption DEF Runners
    <3>2. \A c \in Runners : c \in live => due[c] - 1 \in Nat
      BY <1>7, <3>1 DEF Tick
    <3> QED
      BY <1>7, <3>2 DEF Tick
  <2>2. age' \in [Runs -> Nat]
    BY <1>7 DEF Tick
  <2>3. left' \in [Runs -> Nat]
    BY <1>7 DEF Tick
  <2> QED
    BY <1>7, <2>1, <2>2, <2>3 DEF Tick, caller
<1> QED
  BY <1>1, <1>2, <1>3, <1>4, <1>5, <1>6, <1>7 DEF Next

-----------------------------------------------------------------------------

\* What the steps of a single run have in common: the other runs keep their
\* stage and age, this one keeps its runner and age unless it ends, and only
\* Fire makes a run of an idle goroutine.
LEMMA RunStepFrame ==
    ASSUME TypeOK, NEW r \in Runs, RunStep(r)
    PROVE  /\ UNCHANGED <<started, live, due>>
           /\ \A s \in Runs : s # r => /\ stage'[s] = stage[s]
                                       /\ by'[s] = by[s]
                                       /\ age'[s] = age[s]
                                       /\ left'[s] = left[s]
           /\ stage[r] # "idle"
           /\ stage'[r] # "idle" => by'[r] = by[r] /\ age'[r] = age[r]
<1> USE DEF TypeOK, Runners, Stages
<1>1. CASE Check(r)
  BY <1>1 DEF Check, Terminated, Deadline, Finish, caller
<1>2. CASE Answer(r)
  BY <1>2 DEF Answer, caller
<1>3. CASE Fail(r)
  BY <1>3 DEF Fail, Finish, caller
<1>4. CASE Expire(r)
  BY <1>4 DEF Expire, Finish, caller
<1>5. CASE Execute(r)
  BY <1>5 DEF Execute, Finish, caller
<1>6. CASE Return(r)
  BY <1>6 DEF Return, Finish, caller
<1> QED
  BY <1>1, <1>2, <1>3, <1>4, <1>5, <1>6 DEF RunStep

\* No step gives a run to a runner that does not exist.
LEMMA NextOwned == ASSUME TypeOK, Owned, Next PROVE Owned'
<1> USE StartsAssumption DEF TypeOK, Owned, Runners, Stages
<1>1. CASE Start \/ StopClose \/ StopRunner \/ StopLogger
  BY <1>1 DEF Start, StopClose, StopRunner, StopLogger
<1>2. ASSUME NEW c \in Runners, Fire(c) PROVE Owned'
  BY <1>2 DEF Fire, Rearm, caller
<1>3. ASSUME NEW r \in Runs, RunStep(r) PROVE Owned'
  BY <1>3, RunStepFrame
<1>4. CASE Tick
  BY <1>4 DEF Tick, caller
<1> QED
  BY <1>1, <1>2, <1>3, <1>4 DEF Next

\* Every stage starts within the deadlines and time stops at them.
LEMMA NextPunctual == ASSUME TypeOK, Punctual, Next PROVE Punctual'
<1> USE TimesAssumption DEF TypeOK, Punctual, Longest
<1>1. CASE Start \/ StopClose \/ StopRunner \/ StopLogger
  BY <1>1 DEF Start, StopClose, StopRunner, StopLogger
<1>2. ASSUME NEW c \in Runners, Fire(c) PROVE Punctual'
  <2>1. PICK n \in Runs : stage[n] = "idle" /\ stage' = [stage EXCEPT ![n] = "spawned"]
    BY <1>2 DEF Fire
  <2>2. age' = age /\ left' = left /\ age[n] = 0
    BY <1>2, <2>1 DEF Fire
  <2> QED
    BY <2>1, <2>2
<1>3. ASSUME NEW r \in Runs, RunStep(r) PROVE Punctual'
  <2> SUFFICES /\ stage'[r] \in {"idle", "spawned"} => age'[r] = 0
               /\ stage'[r] = "fetching" => age'[r] + left'[r] <= FetchTimeout
               /\ stage'[r] = "executing" => age'[r] <= FetchTimeout
               /\ stage'[r] = "receiving" => age'[r] + left'[r] <= Longest
    BY <1>3, RunStepFrame
  <2>1. CASE Check(r)
    BY <2>1 DEF Check, Terminated, Deadline, Finish
  <2>2. CASE Answer(r)
    BY <2>2 DEF Answer
  <2>3. CASE Fail(r)
    BY <2>3 DEF Fail, Finish
  <2>4. CASE Expire(r)
    BY <2>4 DEF Expire, Finish
  <2>5. CASE Execute(r)
    BY <2>5 DEF Execute, Finish
  <2>6. CASE Return(r)
    BY <2>6 DEF Return, Finish
  <2> QED
    BY <1>3, <2>1, <2>2, <2>3, <2>4, <2>5, <2>6 DEF RunStep
<1>4. CASE Tick
  <2>1. \A r \in Runs : stage[r] # "idle" =>
            /\ stage[r] \in {"fetching", "receiving"}
            /\ age'[r] = age[r] + 1
            /\ left'[r] = left[r] - 1
    BY <1>4 DEF Tick
  <2>2. stage' = stage /\ \A r \in Runs : stage[r] = "idle" => age'[r] = 0
    BY <1>4 DEF Tick
  <2> QED
    BY <2>1, <2>2
<1> QED
  BY <1>1, <1>2, <1>3, <1>4 DEF Next

\* Runs keep their distance: a new one is far from the others because the
\* activation that starts it is.
LEMMA NextSpaced == ASSUME IInv, Next PROVE Spaced'
<1> USE GapsAssumption DEF IInv, TypeOK
<1>1. CASE Start \/ StopClose \/ StopRunner \/ StopLogger
  BY <1>1 DEF Start, StopClose, StopRunner, StopLogger, Spaced
<1>2. ASSUME NEW c \in Runners, Fire(c) PROVE Spaced'
  <2>1. PICK n \in Runs : /\ stage[n] = "idle"
                          /\ stage' = [stage EXCEPT ![n] = "spawned"]
                          /\ by' = [by EXCEPT ![n] = c]
    BY <1>2 DEF Fire
  <2>2. age' = age /\ c \in live /\ due[c] = 0
    BY <1>2 DEF Fire
  <2>3. \A r \in Runs : stage[r] # "idle" /\ by[r] = c => age[r] >= MinGap
    BY <2>2 DEF Recent
  <2>4. age[n] = 0
    BY <2>1 DEF Punctual
  <2> SUFFICES ASSUME NEW r \in Runs, NEW s \in Runs, r # s,
                      stage'[r] # "idle", stage'[s] # "idle", by'[r] = by'[s]
               PROVE  Apart(age[r], age[s])
    BY <2>2 DEF Spaced
  <2>5. CASE r = n \/ s = n
    BY <2>1, <2>3, <2>4, <2>5 DEF Apart
  <2>6. CASE r # n /\ s # n
    BY <2>1, <2>6 DEF Spaced
  <2> QED
    BY <2>5, <2>6
<1>3. ASSUME NEW r \in Runs, RunStep(r) PROVE Spaced'
  BY <1>3, RunStepFrame DEF Spaced
<1>4. CASE Tick
  <2>1. stage' = stage /\ by' = by
    BY <1>4 DEF Tick
  <2>2. \A r \in Runs : stage[r] # "idle" => age'[r] = age[r] + 1
    BY <1>4 DEF Tick
  <2>3. \A r \in Runs : age[r] \in Nat
    OBVIOUS
  <2> SUFFICES ASSUME NEW r \in Runs, NEW s \in Runs, r # s,
                      stage[r] # "idle", stage[s] # "idle", by[r] = by[s]
               PROVE  Apart(age'[r], age'[s])
    BY <2>1 DEF Spaced
  <2>4. Apart(age[r], age[s])
    BY DEF Spaced
  <2> QED
    BY <2>2, <2>3, <2>4 DEF Apart
<1> QED
  BY <1>1, <1>2, <1>3, <1>4 DEF Next

\* The next activation stays a gap away from every run: it is set a gap ahead
\* of the run it starts, and then comes nearer as the run ages.
LEMMA NextRecent == ASSUME IInv, Next PROVE Recent'
<1> USE GapsAssumption, StartsAssumption DEF IInv, TypeOK, Recent
<1>1. CASE Start
  BY <1>1 DEF Start, Owned
<1>2. CASE StopClose \/ StopLogger
  BY <1>2 DEF StopClose, StopLogger
<1>3. CASE StopRunner
  BY <1>3 DEF StopRunner
<1>4. ASSUME NEW c \in Runners, Fire(c) PROVE Recent'
  <2>1. PICK n \in Runs : /\ stage[n] = "idle"
                          /\ stage' = [stage EXCEPT ![n] = "spawned"]
                          /\ by' = [by EXCEPT ![n] = c]
    BY <1>4 DEF Fire, Rearm
  <2>2. PICK g \in Gaps : due' = [due EXCEPT ![c] = g]
    BY <1>4 DEF Fire, Rearm
  <2>3. age' = age /\ live' = live
    BY <1>4 DEF Fire, Rearm, caller
  <2>4. g \in Nat /\ g >= MinGap /\ MinGap \in Nat
    BY <2>2
  <2> QED
    BY <2>1, <2>2, <2>3, <2>4
<1>5. ASSUME NEW r \in Runs, RunStep(r) PROVE Recent'
  <2>1. UNCHANGED <<live, due>>
    BY <1>5, RunStepFrame
  <2>2. \A s \in Runs : stage'[s] # "idle" =>
            stage[s] # "idle" /\ by'[s] = by[s] /\ age'[s] = age[s]
    BY <1>5, RunStepFrame
  <2> QED
    BY <2>1, <2>2
<1>6. CASE Tick
  BY <1>6 DEF Tick, caller
<1> QED
  BY <1>1, <1>2, <1>3, <1>4, <1>5, <1>6 DEF Next

\* The conjunction is inductive.
LEMMA NextIInv == ASSUME IInv, [Next]_vars PROVE IInv'
<1>1. CASE Next
  BY <1>1, NextTypeOK, NextOwned, NextPunctual, NextSpaced, NextRecent DEF IInv
<1>2. CASE UNCHANGED vars
  BY <1>2 DEF vars, IInv, TypeOK, Owned, Punctual, Spaced, Recent, Longest, Apart
<1> QED
  BY <1>1, <1>2

\* The inductive invariant holds in every reachable state.
THEOREM Inductive == Spec => []IInv
<1> QED
  BY InitIInv, NextIInv, PTL DEF Spec

\* Type correctness of the ranker's state.
THEOREM TypeCorrect == Spec => []TypeOK
<1>1. IInv => TypeOK
  BY DEF IInv
<1> QED
  BY <1>1, Inductive, PTL

-----------------------------------------------------------------------------

\* Two times at least a gap apart fall into different gaps.
LEMMA Buckets ==
    ASSUME NEW m \in Nat, NEW n \in Nat, NEW g \in Nat \ {0}, m - n >= g
    PROVE  m \div g # n \div g
OBVIOUS

\* A time up to l falls into one of the first l \div g + 1 gaps.
LEMMA BucketRange ==
    ASSUME NEW m \in Nat, NEW l \in Nat, NEW g \in Nat \ {0}, m <= l
    PROVE  m \div g \in 0 .. (l \div g)
OBVIOUS

\* The runs of a runner in flight are no more than the gaps their ages fall
\* into, because no two ages fall into the same gap.
LEMMA InFlightBound ==
    ASSUME IInv, NEW c \in Runners
    PROVE  Cardinality(InFlight(c)) <= Capacity
<1> USE GapsAssumption, TimesAssumption DEF IInv, TypeOK
<1> DEFINE l == Longest \div MinGap
           f == [r \in InFlight(c) |-> age[r] \div MinGap]
<1>1. Longest \in Nat /\ MinGap \in Nat \ {0} /\ l \in Nat
  BY DEF Longest
<1>2. \A r \in InFlight(c) : age[r] \in Nat /\ age[r] <= Longest
  BY DEF InFlight, Punctual, Longest, Stages
<1>3. f \in [InFlight(c) -> 0 .. l]
  BY <1>1, <1>2, BucketRange
<1>4. ASSUME NEW r \in InFlight(c), NEW s \in InFlight(c), r # s
      PROVE  f[r] # f[s]
  <2>1. Apart(age[r], age[s])
    BY <1>4 DEF InFlight, Spaced
  <2>2. CASE age[r] - age[s] >= MinGap
    BY <1>1, <1>2, <2>2, Buckets
  <2>3. CASE age[s] - age[r] >= MinGap
    BY <1>1, <1>2, <2>3, Buckets
  <2> QED
    BY <2>1, <2>2, <2>3 DEF Apart
<1>5. f \in Injection(InFlight(c), 0 .. l)
  BY <1>3, <1>4 DEF Injection, IsInjective
<1>6. IsFiniteSet(0 .. l) /\ Cardinality(0 .. l) = l + 1
  <2>1. ASSUME NEW k \in Nat
        PROVE  IsFiniteSet(0 .. k) /\ Cardinality(0 .. k) = k + 1
    <3>1. ~(0 > k) /\ k - 0 + 1 = k + 1 /\ 0 \in Int /\ k \in Int
      OBVIOUS
    <3>2. Cardinality(0 .. k) = IF 0 > k THEN 0 ELSE k - 0 + 1
      BY <3>1, FS_Interval
    <3> QED
      BY <3>1, <3>2, FS_Interval
  <2> QED
    BY <1>1, <2>1
<1>7. Cardinality(InFlight(c)) <= Cardinality(0 .. l)
  BY <1>5, <1>6, FS_Injection
<1> QED
  BY <1>6, <1>7 DEF Capacity

\* The bound on overlapping runs, for every schedule and deadline.
THEOREM OverlapBounded == Spec => []OverlapBound
<1>1. IInv => OverlapBound
  BY InFlightBound DEF OverlapBound
<1> QED
  BY <1>1, Inductive, PTL

\* A runner has one run in flight at most.
NoOverlap ==
    \A r, s \in Runs :
        stage[r] # "idle" /\ stage[s] # "idle" /\ by[r] = by[s] => r = s

\* Under a schedule slower than a run can be runs never overlap: only then is a
\* ranking computed from the one before it.
THEOREM SlowScheduleNeverOverlaps ==
    Longest < MinGap => (Spec => []NoOverlap)
<1>1. ASSUME Longest < MinGap, IInv PROVE NoOverlap
  <2>1. \A r \in Runs : age[r] \in Nat /\ (stage[r] # "idle" => age[r] <= Longest)
    BY <1>1, TimesAssumption DEF IInv, TypeOK, Punctual, Longest, Stages
  <2>2. Longest \in Nat /\ MinGap \in Nat
    BY GapsAssumption, TimesAssumption DEF Longest
  <2>3. \A m, n \in Nat : m <= Longest /\ n <= Longest => ~Apart(m, n)
    BY <1>1, <2>2 DEF Apart
  <2> QED
    BY <1>1, <2>1, <2>3 DEF IInv, Spaced, NoOverlap
<1>2. CASE Longest < MinGap
  <2>1. IInv => NoOverlap
    BY <1>1, <1>2
  <2> QED
    BY <2>1, Inductive, PTL
<1> QED
  BY <1>2

-----------------------------------------------------------------------------

\* The admitted runs of every runner, as the gate sees them.
admitted == [c \in Runners |-> AdmittedBy(c)]

\* A step that leaves the admitted runs alone is invisible at the gate.
LEMMA Invisible ==
    ASSUME UNCHANGED closed, \A c \in Runners : AdmittedBy(c)' = AdmittedBy(c)
    PROVE  UNCHANGED <<~closed, admitted>>
BY DEF admitted

\* A run that ends settles at the gate, if it had been admitted.
LEMMA FinishSettles ==
    ASSUME TypeOK, NEW r \in Runs, Finish(r), UNCHANGED closed,
           stage[r] \in {"fetching", "executing", "receiving"}
    PROVE  Gate!Next
<1> DEFINE c == by[r]
<1>1. c \in Runners /\ r \in AdmittedBy(c)
  BY DEF TypeOK, AdmittedBy
<1>2. \A d \in Runners : AdmittedBy(d)' = IF d = c THEN AdmittedBy(d) \ {r}
                                                   ELSE AdmittedBy(d)
  BY DEF TypeOK, AdmittedBy, Finish
<1>3. admitted' = [admitted EXCEPT ![c] = @ \ {r}]
  BY <1>1, <1>2 DEF admitted
<1>4. Gate!Settle(c, r)
  BY <1>1, <1>3 DEF Gate!Settle, admitted
<1> QED
  BY <1>1, <1>4 DEF Gate!Next

\* A run that passes the look at the open channel is admitted at the gate, and
\* there is room for it because it was counted among the runs in flight.
LEMMA CheckAdmits ==
    ASSUME IInv, NEW r \in Runs, Check(r), ~closed
    PROVE  Gate!Next
<1> USE DEF IInv, TypeOK
<1> DEFINE c == by[r]
<1>1. /\ c \in Runners
      /\ stage[r] = "spawned"
      /\ stage' = [stage EXCEPT ![r] = "fetching"]
      /\ UNCHANGED <<by, closed>>
  BY DEF Check, Terminated, Deadline, caller
<1>2. \A d \in Runners : r \notin AdmittedBy(d)
  BY <1>1 DEF AdmittedBy
<1>3. \A d \in Runners : AdmittedBy(d)' = IF d = c THEN AdmittedBy(d) \cup {r}
                                                   ELSE AdmittedBy(d)
  BY <1>1 DEF AdmittedBy
<1>4. Cardinality(AdmittedBy(c)) < Capacity
  <2>1. IsFiniteSet(InFlight(c))
    BY RunsAssumption, FS_Subset DEF InFlight
  <2>2. AdmittedBy(c) \subseteq InFlight(c) \ {r} /\ r \in InFlight(c)
    BY <1>1, <1>2 DEF AdmittedBy, InFlight
  <2>3. /\ IsFiniteSet(InFlight(c) \ {r})
        /\ Cardinality(InFlight(c) \ {r}) = Cardinality(InFlight(c)) - 1
    BY <2>1, <2>2, FS_RemoveElement
  <2>4. /\ IsFiniteSet(AdmittedBy(c))
        /\ Cardinality(AdmittedBy(c)) <= Cardinality(InFlight(c) \ {r})
    BY <2>2, <2>3, FS_Subset
  <2>5. Cardinality(InFlight(c)) <= Capacity
    BY <1>1, InFlightBound
  <2>6. /\ Cardinality(AdmittedBy(c)) \in Nat
        /\ Cardinality(InFlight(c)) \in Nat
    BY <2>1, <2>4, FS_CardinalityType
  <2>7. Capacity \in Int
    BY GapsAssumption, TimesAssumption DEF Capacity, Longest
  <2> QED
    BY <2>3, <2>4, <2>5, <2>6, <2>7
<1>5. admitted' = [admitted EXCEPT ![c] = @ \cup {r}]
  BY <1>1, <1>3 DEF admitted
<1>6. \A d \in Runners : admitted[d] = AdmittedBy(d)
  BY DEF admitted
<1>7. Gate!Admit(c, r)
  <2>1. \A d \in Runners : r \notin admitted[d]
    BY <1>2, <1>6
  <2>2. Cardinality(admitted[c]) < Capacity
    BY <1>1, <1>4, <1>6
  <2>3. admitted' = [admitted EXCEPT ![c] = admitted[c] \cup {r}]
    BY <1>5
  <2>4. (~closed)' = ~closed
    BY <1>1
  <2>5. Gate!Cardinality(admitted[c]) = Cardinality(admitted[c])
    BY DEF Gate!Cardinality, Cardinality
  <2>6. Gate!Cardinality(admitted[c]) < Capacity
    BY <2>2, <2>5
  <2> HIDE DEF c
  <2> QED
    BY <2>1, <2>6, <2>3, <2>4, Zenon DEF Gate!Admit, admitted
<1> QED
  BY <1>1, <1>7 DEF Gate!Next

\* Every step of the ranker is a step of the gate or invisible there.
LEMMA NextGate ==
    ASSUME IInv, [Next]_vars
    PROVE  Gate!Next \/ UNCHANGED <<~closed, admitted>>
<1> USE DEF IInv, TypeOK
<1>1. CASE Start \/ StopRunner \/ StopLogger
  BY <1>1, Invisible DEF Start, StopRunner, StopLogger, AdmittedBy
<1>2. CASE StopClose
  <2>1. closed' = TRUE /\ UNCHANGED admitted
    BY <1>2 DEF StopClose, admitted, AdmittedBy
  <2> QED
    BY <2>1 DEF Gate!Next, Gate!Close, admitted
<1>3. ASSUME NEW c \in Runners, Fire(c)
      PROVE  UNCHANGED <<~closed, admitted>>
  <2>1. \A d \in Runners : AdmittedBy(d)' = AdmittedBy(d)
    BY <1>3 DEF Fire, AdmittedBy
  <2> QED
    BY <1>3, <2>1, Invisible DEF Fire, Rearm, caller
<1>4. ASSUME NEW r \in Runs, RunStep(r)
      PROVE  Gate!Next \/ UNCHANGED <<~closed, admitted>>
  <2>1. CASE Check(r) /\ closed
    <3>1. \A d \in Runners : AdmittedBy(d)' = AdmittedBy(d)
      BY <2>1 DEF Check, Terminated, Deadline, Finish, AdmittedBy
    <3> QED
      BY <2>1, <3>1, Invisible DEF Check, Terminated, Deadline, caller
  <2>2. CASE Check(r) /\ ~closed
    BY <2>2, CheckAdmits
  <2>3. CASE Answer(r) \/ (Execute(r) /\ ~Finish(r))
    <3>1. \A d \in Runners : AdmittedBy(d)' = AdmittedBy(d)
      BY <2>3 DEF Answer, Execute, AdmittedBy
    <3> QED
      BY <2>3, <3>1, Invisible DEF Answer, Execute, caller
  <2>4. CASE Fail(r) \/ Expire(r) \/ Return(r) \/ (Execute(r) /\ Finish(r))
    BY <2>4, FinishSettles DEF Fail, Expire, Return, Execute, caller
  <2> QED
    BY <1>4, <2>1, <2>2, <2>3, <2>4 DEF RunStep
<1>5. CASE Tick
  <2>1. \A d \in Runners : AdmittedBy(d)' = AdmittedBy(d)
    BY <1>5 DEF Tick, AdmittedBy
  <2> QED
    BY <1>5, <2>1, Invisible DEF Tick, caller
<1>6. CASE UNCHANGED vars
  BY <1>6, Invisible DEF vars, AdmittedBy
<1> QED
  BY <1>1, <1>2, <1>3, <1>4, <1>5, <1>6 DEF Next

\* The ranker implements the safety part of the gate: no second Start and no
\* runner Stop leaves behind admits a run after the channel is closed, and no
\* runner admits more than Capacity runs at once.
THEOREM ImplementsGateSafety == Spec => Gate!Safety
<1>1. Init => Gate!Init
  BY DEF Init, Gate!Init, AdmittedBy
<1>2. IInv /\ [Next]_vars => [Gate!Next]_<<~closed, admitted>>
  BY NextGate
<1> QED
  BY <1>1, <1>2, Inductive, PTL DEF Spec, Gate!Safety, admitted
=============================================================================
