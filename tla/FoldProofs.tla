------------------------------ MODULE FoldProofs ------------------------------
(***************************************************************************)
(* What FoldLeft of the community modules returns, for a list of any       *)
(* length and every operation it may be handed.                            *)
(***************************************************************************)
EXTENDS SequencesExt, WellFoundedInduction, TLAPS

CONSTANT Op(_, _)

\* Induction over the numbers, for a set instead of a formula: a least number
\* that is not in S would follow one that is.
LEMMA NatInSet ==
    ASSUME NEW S, 0 \in S, \A n \in Nat : n \in S => n + 1 \in S
    PROVE  Nat \subseteq S
<1>1. SUFFICES ASSUME Nat \ S # {} PROVE FALSE
  OBVIOUS
<1>2. IsWellFoundedOn(OpToRel(<, Nat), Nat)
  BY NatLessThanWellFounded, Zenon
<1>3. PICK x \in Nat \ S : \A y \in Nat \ S : <<y, x>> \notin OpToRel(<, Nat)
  BY <1>1, <1>2, WFMin, Zenon
<1>4. x \in Nat /\ x \notin S /\ x - 1 \in Nat /\ x - 1 < x /\ (x - 1) + 1 = x
  OBVIOUS
<1>5. \A y, z \in Nat : y < z => <<y, z>> \in OpToRel(<, Nat)
  BY Zenon DEF OpToRel
<1>6. <<x - 1, x>> \in OpToRel(<, Nat)
  BY <1>4, <1>5, Zenon
<1>7. x - 1 \in S
  BY <1>3, <1>4, <1>6, Zenon
<1> QED BY <1>4, <1>7

\* Folds(f, base, s, n): f is defined on the sets of indices up to n, as the
\* definition of FoldLeft demands.
Folds(f, base, s, n) ==
    f = [t \in SUBSET (1 .. n) |->
            IF t = {} THEN base ELSE Op(f[t \ {Max(t)}], s[Max(t)])]

\* The greatest index.
LEMMA MaxIndex ==
    ASSUME NEW n \in Nat, NEW t \in SUBSET (1 .. n), NEW k \in t, \A j \in t : k >= j
    PROVE  Max(t) = k
<1>1. ASSUME NEW i \in t, \A j \in t : i >= j PROVE i = k
  <2>1. i \in Int /\ k \in Int /\ i >= k /\ k >= i
    BY <1>1
  <2> QED BY <2>1
<1> QED BY <1>1, Zenon DEF Max

\* A set of indices has a greatest one.
LEMMA MaxAbove ==
    ASSUME NEW n \in Nat, NEW t \in SUBSET (1 .. n), t # {}
    PROVE  \E k \in t : \A j \in t : k >= j
<1> DEFINE T == {m \in Nat : \A u \in SUBSET (1 .. m) :
                                 u # {} => \E k \in u : \A j \in u : k >= j}
<1>1. 0 \in T
  <2>1. \A u \in SUBSET (1 .. 0) : u = {}
    OBVIOUS
  <2> QED BY <2>1
<1>2. ASSUME NEW m \in Nat, m \in T PROVE m + 1 \in T
  <2> SUFFICES ASSUME NEW u \in SUBSET (1 .. m + 1), u # {}
               PROVE  \E k \in u : \A j \in u : k >= j
    OBVIOUS
  <2>1. CASE m + 1 \in u
    BY <2>1
  <2>2. CASE m + 1 \notin u
    <3>1. u \in SUBSET (1 .. m)
      BY <2>2
    <3> QED BY <1>2, <3>1
  <2> QED BY <2>1, <2>2
<1> HIDE DEF T
<1>3. Nat \subseteq T
  BY <1>1, <1>2, NatInSet
<1> QED BY <1>3 DEF T

\* It is the one Max chooses.
LEMMA MaxExists ==
    ASSUME NEW n \in Nat, NEW t \in SUBSET (1 .. n), t # {}
    PROVE  Max(t) \in t
BY MaxAbove DEF Max

\* A set of numbers has a least one.
LEMMA MinExists ==
    ASSUME NEW t \in SUBSET Nat, t # {}
    PROVE  Min(t) \in t
<1>1. IsWellFoundedOn(OpToRel(<, Nat), Nat)
  BY NatLessThanWellFounded, Zenon
<1>2. PICK x \in t : \A y \in t : <<y, x>> \notin OpToRel(<, Nat)
  BY <1>1, WFMin, Zenon
<1>3. \A y, z \in Nat : y < z => <<y, z>> \in OpToRel(<, Nat)
  BY Zenon DEF OpToRel
<1>4. ASSUME NEW y \in t PROVE x <= y
  <2>1. ~ y < x
    BY <1>2, <1>3, Zenon
  <2> QED BY <2>1
<1> QED BY <1>4 DEF Min

\* The definition of FoldLeft is one, however many indices there are.
LEMMA FoldsExist ==
    ASSUME NEW base, NEW s, NEW n \in Nat
    PROVE  \E f : Folds(f, base, s, n)
<1> DEFINE T == {m \in Nat : \E f : Folds(f, base, s, m)}
<1>1. 0 \in T
  <2> DEFINE g == [t \in SUBSET (1 .. 0) |-> base]
  <2>1. \A t \in SUBSET (1 .. 0) : t = {}
    OBVIOUS
  <2>2. Folds(g, base, s, 0)
    BY <2>1 DEF Folds
  <2> QED BY <2>2
<1>2. ASSUME NEW m \in Nat, m \in T PROVE m + 1 \in T
  <2>1. PICK f : Folds(f, base, s, m)
    BY <1>2
  <2> DEFINE g == [t \in SUBSET (1 .. m + 1) |->
                      IF m + 1 \in t THEN Op(f[t \ {m + 1}], s[m + 1]) ELSE f[t]]
  <2>2. ASSUME NEW t \in SUBSET (1 .. m + 1)
        PROVE  g[t] = IF t = {} THEN base ELSE Op(g[t \ {Max(t)}], s[Max(t)])
    <3>1. CASE m + 1 \in t
      <4>1. Max(t) = m + 1
        BY <3>1, MaxIndex
      <4>2. t \ {m + 1} \in SUBSET (1 .. m + 1) /\ m + 1 \notin t \ {m + 1}
        OBVIOUS
      <4>3. g[t \ {m + 1}] = f[t \ {m + 1}]
        BY <4>2
      <4>4. g[t] = Op(f[t \ {m + 1}], s[m + 1])
        BY <3>1
      <4> HIDE DEF g
      <4> QED BY <3>1, <4>1, <4>3, <4>4
    <3>2. CASE m + 1 \notin t
      <4>1. t \in SUBSET (1 .. m)
        BY <3>2
      <4>2. f[t] = IF t = {} THEN base ELSE Op(f[t \ {Max(t)}], s[Max(t)])
        BY <2>1, <4>1 DEF Folds
      <4>3. g[t] = f[t]
        BY <3>2
      <4>4. t # {} => g[t \ {Max(t)}] = f[t \ {Max(t)}]
        <5>1. t \ {Max(t)} \in SUBSET (1 .. m + 1) /\ m + 1 \notin t \ {Max(t)}
          BY <3>2
        <5> QED BY <5>1
      <4> HIDE DEF g
      <4> QED BY <4>2, <4>3, <4>4
    <3> QED BY <3>1, <3>2
  <2>3. g = [t \in SUBSET (1 .. m + 1) |->
                IF t = {} THEN base ELSE Op(g[t \ {Max(t)}], s[Max(t)])]
    BY <2>2, Zenon
  <2>4. Folds(g, base, s, m + 1)
    BY <2>3, Zenon DEF Folds
  <2> QED BY <2>4
<1> HIDE DEF T
<1>3. Nat \subseteq T
  BY <1>1, <1>2, NatInSet
<1> QED BY <1>3 DEF T

Folded(base, s) == FoldLeft(Op, base, s)

\* FoldLeft applies the operation to the elements one after the other.
THEOREM FoldLeftSteps ==
    ASSUME NEW base, NEW S, NEW s \in Seq(S)
    PROVE  \E f : /\ f[0] = base
                  /\ \A k \in 1 .. Len(s) : f[k] = Op(f[k - 1], s[k])
                  /\ Folded(base, s) = f[Len(s)]
<1> DEFINE n == Len(s)
           iter == CHOOSE f : Folds(f, base, s, n)
           f == [k \in 0 .. n |-> iter[1 .. k]]
<1>1. n \in Nat /\ DOMAIN s = 1 .. n
  OBVIOUS
<1>2. Folds(iter, base, s, n)
  BY <1>1, FoldsExist
<1>3. Folded(base, s) = iter[1 .. n]
  BY <1>1 DEF Folded, FoldLeft, MapThenFoldSet, Folds
<1> HIDE DEF iter
<1>4. f[0] = base
  <2>1. 1 .. 0 = {} /\ 1 .. 0 \in SUBSET (1 .. n)
    OBVIOUS
  <2> QED BY <1>1, <1>2, <2>1 DEF Folds
<1>5. ASSUME NEW k \in 1 .. n PROVE f[k] = Op(f[k - 1], s[k])
  <2> HIDE DEF n
  <2>1. /\ k \in Nat /\ k \in 1 .. k /\ \A j \in 1 .. k : k >= j /\ j \in 1 .. n
        /\ \A j \in Int : j \in (1 .. k) \ {k} <=> j \in 1 .. k - 1
    BY <1>1
  <2>2. (1 .. k) \ {k} = 1 .. k - 1 /\ 1 .. k # {} /\ 1 .. k \in SUBSET (1 .. n)
    <3>1. (1 .. k) \subseteq Int /\ (1 .. k - 1) \subseteq Int
      OBVIOUS
    <3> QED BY <2>1, <3>1
  <2>3. Max(1 .. k) = k
    BY <1>1, <2>1, <2>2, MaxIndex
  <2>4. iter[1 .. k] = Op(iter[1 .. k - 1], s[k])
    BY <1>2, <2>2, <2>3 DEF Folds
  <2>5. k \in 0 .. n /\ k - 1 \in 0 .. n
    BY <1>1
  <2> QED BY <2>4, <2>5
<1>6. Folded(base, s) = f[n]
  BY <1>1, <1>3
<1> HIDE DEF f
<1> QED BY <1>4, <1>5, <1>6
=============================================================================
