---------------------------- MODULE RankingProofs ----------------------------
(***************************************************************************)
(* What the insertion sort of Ranking returns, for every order it may be   *)
(* handed and a list of any length.                                        *)
(***************************************************************************)
EXTENDS Ranking, WellFoundedInduction, SequenceTheorems, TLAPS

\* Induction over the numbers, for a set instead of a formula: a least number
\* that is not in S would follow one that is.
LEMMA NatInSet ==
    ASSUME NEW S, 0 \in S, \A n \in Nat : n \in S => n + 1 \in S
    PROVE  Nat \subseteq S
<1>1. SUFFICES ASSUME Nat \ S # {} PROVE FALSE
  OBVIOUS
<1>2. IsWellFoundedOn(OpToRel(<, Nat), Nat)
  BY NatLessThanWellFounded
<1>3. PICK x \in Nat \ S : \A y \in Nat \ S : <<y, x>> \notin OpToRel(<, Nat)
  BY <1>1, <1>2, WFMin
<1>4. x \in Nat /\ x \notin S /\ x - 1 \in Nat /\ x - 1 < x /\ (x - 1) + 1 = x
  OBVIOUS
<1>5. \A y, z \in Nat : y < z => <<y, z>> \in OpToRel(<, Nat)
  BY Zenon DEF OpToRel
<1>6. <<x - 1, x>> \in OpToRel(<, Nat)
  BY <1>4, <1>5
<1>7. x - 1 \in S
  BY <1>3, <1>4, <1>6
<1> QED BY <1>4, <1>7

\* Insertions(f, s, n): f[k] is what the first k elements of s, of the first n, are sorted to.
Insertions(f, s, n) ==
    f = [k \in 0 .. n |-> IF k = 0 THEN <<>> ELSE Insert(f[k - 1], s[k])]

\* The insertions one after the other define a function, however many there are.
LEMMA InsertionsExist ==
    ASSUME NEW s, NEW n \in Nat
    PROVE  \E f : Insertions(f, s, n)
<1> DEFINE T == {m \in Nat : \E f : Insertions(f, s, m)}
<1>1. 0 \in T
  <2> DEFINE g == [k \in 0 .. 0 |-> <<>>]
  <2>1. Insertions(g, s, 0)
    BY DEF Insertions
  <2> QED BY <2>1
<1>2. ASSUME NEW m \in Nat, m \in T PROVE m + 1 \in T
  <2>1. PICK f : Insertions(f, s, m)
    BY <1>2
  <2> DEFINE g == [k \in 0 .. m + 1 |->
                      IF k = m + 1 THEN Insert(f[m], s[m + 1]) ELSE f[k]]
  <2>2. ASSUME NEW k \in 0 .. m + 1
        PROVE  g[k] = IF k = 0 THEN <<>> ELSE Insert(g[k - 1], s[k])
    <3>1. CASE k = m + 1
      BY <3>1
    <3>2. CASE k \in 0 .. m
      <4>1. f[k] = IF k = 0 THEN <<>> ELSE Insert(f[k - 1], s[k])
        BY <2>1, <3>2 DEF Insertions
      <4> QED BY <4>1, <3>2
    <3> QED BY <3>1, <3>2
  <2>3. g = [k \in 0 .. m + 1 |-> IF k = 0 THEN <<>> ELSE Insert(g[k - 1], s[k])]
    BY <2>2, Zenon
  <2>4. Insertions(g, s, m + 1)
    BY <2>3, Zenon DEF Insertions
  <2>5. m + 1 \in Nat
    OBVIOUS
  <2> QED BY <2>4, <2>5, Zenon
<1>3. Nat \subseteq T
  <2> HIDE DEF T
  <2> QED BY <1>1, <1>2, NatInSet
<1> QED BY <1>3

\* The sorted list is the outcome of as many insertions as there are elements.
LEMMA SliceStableInserts ==
    ASSUME NEW S, NEW s \in Seq(S)
    PROVE  \E f : /\ f[0] = <<>>
                  /\ \A k \in 1 .. Len(s) : f[k] = Insert(f[k - 1], s[k])
                  /\ SliceStable(s) = f[Len(s)]
<1> DEFINE f == CHOOSE g : Insertions(g, s, Len(s))
<1>1. Len(s) \in Nat
  OBVIOUS
<1>2. Insertions(f, s, Len(s))
  BY <1>1, InsertionsExist, Zenon
<1>3. SliceStable(s) = f[Len(s)]
  BY Zenon DEF SliceStable, Insertions
<1>4. \A k \in 0 .. Len(s) : f[k] = IF k = 0 THEN <<>> ELSE Insert(f[k - 1], s[k])
  <2> HIDE DEF f
  <2> QED BY <1>2 DEF Insertions
<1>5. f[0] = <<>> /\ \A k \in 1 .. Len(s) : f[k] = Insert(f[k - 1], s[k])
  <2> HIDE DEF f
  <2> QED BY <1>1, <1>4
<1> QED BY <1>3, <1>5, Zenon

\* A set of indices has a greatest one.
LEMMA GreatestIndex ==
    ASSUME NEW n \in Nat, NEW U \in SUBSET (1 .. n), U # {}
    PROVE  \E k \in U : \A j \in U : j <= k
<1> DEFINE T == {m \in Nat : \A V \in SUBSET (1 .. m) :
                                 V # {} => \E k \in V : \A j \in V : j <= k}
<1>1. 0 \in T
  <2>1. \A V \in SUBSET (1 .. 0) : V = {}
    OBVIOUS
  <2> QED BY <2>1
<1>2. ASSUME NEW m \in Nat, m \in T PROVE m + 1 \in T
  <2>1. ASSUME NEW V \in SUBSET (1 .. m + 1), V # {}
        PROVE  \E k \in V : \A j \in V : j <= k
    <3>1. CASE m + 1 \in V
      BY <3>1
    <3>2. CASE m + 1 \notin V
      <4>1. V \in SUBSET (1 .. m)
        BY <3>2
      <4> QED BY <1>2, <2>1, <4>1
    <3> QED BY <3>1, <3>2
  <2> QED BY <2>1
<1>3. Nat \subseteq T
  <2> HIDE DEF T
  <2> QED BY <1>1, <1>2, NatInSet
<1> QED BY <1>3

\* Insert puts x after the last element it is not less than.
LEMMA InsertPosition ==
    ASSUME NEW S, NEW s \in Seq(S), NEW x \in S
    PROVE  \E pos \in 0 .. Len(s) :
               /\ Insert(s, x) \in Seq(S)
               /\ Len(Insert(s, x)) = Len(s) + 1
               /\ \A k \in 1 .. Len(s) + 1 :
                      Insert(s, x)[k] = IF k <= pos THEN s[k]
                                        ELSE IF k = pos + 1 THEN x ELSE s[k - 1]
               /\ pos > 0 => ~Less(x, s[pos])
               /\ \A k \in pos + 1 .. Len(s) : Less(x, s[k])
<1> DEFINE stay == {k \in DOMAIN s : ~Less(x, s[k])}
           pos  == IF stay = {} THEN 0 ELSE CHOOSE k \in stay : \A j \in stay : j <= k
<1>1. Len(s) \in Nat /\ DOMAIN s = 1 .. Len(s)
  OBVIOUS
<1>2. \/ stay = {} /\ pos = 0
      \/ pos \in stay /\ \A j \in stay : j <= pos
  <2>1. CASE stay = {}
    BY <2>1
  <2>2. CASE stay # {}
    <3>1. \E k \in stay : \A j \in stay : j <= k
      BY <1>1, <2>2, GreatestIndex
    <3> QED BY <2>2, <3>1, Zenon
  <2> QED BY <2>1, <2>2
<1>3. /\ pos \in 0 .. Len(s)
      /\ pos > 0 => ~Less(x, s[pos])
      /\ \A k \in pos + 1 .. Len(s) : Less(x, s[k])
  <2> HIDE DEF pos
  <2> QED BY <1>1, <1>2
<1>4. Insert(s, x) = SubSeq(s, 1, pos) \o <<x>> \o SubSeq(s, pos + 1, Len(s))
  BY Zenon DEF Insert
<1>5. PICK p \in 0 .. Len(s) : /\ pos = p
                               /\ p > 0 => ~Less(x, s[p])
                               /\ \A k \in p + 1 .. Len(s) : Less(x, s[k])
  BY <1>3, Zenon
<1>6. Insert(s, x) = SubSeq(s, 1, p) \o <<x>> \o SubSeq(s, p + 1, Len(s))
  <2> HIDE DEF pos
  <2> QED BY <1>5, <1>4
<1> HIDE DEF pos, stay
<1> DEFINE left == SubSeq(s, 1, p)
           right == SubSeq(s, p + 1, Len(s))
<1>7. /\ left \in Seq(S) /\ Len(left) = p
      /\ \A k \in 1 .. p : left[k] = s[k]
  BY <1>1, SubSeqProperties
<1>8. /\ right \in Seq(S) /\ Len(right) = Len(s) - p
      /\ \A k \in 1 .. Len(s) - p : right[k] = s[p + k]
  <2>1. p + 1 \in Int /\ Len(s) \in Int /\ \A i \in p + 1 .. Len(s) : s[i] \in S
    BY <1>1
  <2>2. /\ right \in Seq(S)
        /\ Len(right) = IF p + 1 <= Len(s) THEN Len(s) - (p + 1) + 1 ELSE 0
        /\ \A k \in 1 .. Len(s) - (p + 1) + 1 : right[k] = s[(p + 1) + k - 1]
    BY <2>1, SubSeqProperties
  <2>3. Len(right) = Len(s) - p
    BY <1>1, <2>2
  <2>4. \A k \in 1 .. Len(s) - p : right[k] = s[p + k]
    <3> HIDE DEF right
    <3>1. ASSUME NEW k \in 1 .. Len(s) - p
          PROVE  k \in 1 .. Len(s) - (p + 1) + 1 /\ (p + 1) + k - 1 = p + k
      BY <1>1
    <3> QED BY <2>2, <3>1
  <2> QED BY <2>2, <2>3, <2>4
<1> HIDE DEF left, right
<1> DEFINE both == left \o <<x>>
<1>9. /\ both \in Seq(S) /\ Len(both) = p + 1
      /\ \A k \in 1 .. p : both[k] = s[k]
      /\ both[p + 1] = x
  BY <1>7
<1>10. Insert(s, x) = both \o right
  BY <1>6 DEF left, right
<1> HIDE DEF both
<1>11. /\ Insert(s, x) \in Seq(S)
       /\ Len(Insert(s, x)) = (p + 1) + (Len(s) - p)
       /\ \A k \in 1 .. (p + 1) + (Len(s) - p) :
              Insert(s, x)[k] = IF k <= p + 1 THEN both[k] ELSE right[k - (p + 1)]
  <2>1. /\ both \o right \in Seq(S)
        /\ Len(both \o right) = Len(both) + Len(right)
        /\ \A k \in 1 .. Len(both) + Len(right) :
               (both \o right)[k] = IF k <= Len(both) THEN both[k] ELSE right[k - Len(both)]
    BY <1>8, <1>9, ConcatProperties, Zenon
  <2> QED BY <1>8, <1>9, <1>10, <2>1
<1>12. (p + 1) + (Len(s) - p) = Len(s) + 1
  BY <1>1
<1>13. ASSUME NEW k \in 1 .. Len(s) + 1
       PROVE  Insert(s, x)[k] = IF k <= p THEN s[k]
                                ELSE IF k = p + 1 THEN x ELSE s[k - 1]
  <2>1. CASE k <= p + 1
    BY <1>9, <1>11, <1>12, <2>1
  <2>2. CASE k > p + 1
    <3>1. k - (p + 1) \in 1 .. Len(s) - p /\ p + (k - (p + 1)) = k - 1
      BY <1>1, <2>2
    <3>2. Insert(s, x)[k] = right[k - (p + 1)]
      BY <1>11, <1>12, <2>2
    <3> QED BY <1>8, <2>2, <3>1, <3>2
  <2> QED BY <1>1, <2>1, <2>2
<1> QED BY <1>5, <1>11, <1>12, <1>13

\* p tells of each element of t, the first n of s sorted, where it stood in s:
\* each of them is there once, and an element is in front of another only
\* because it was, or because it is less.
Places(p, t, s, n) ==
    /\ p \in [1 .. n -> 1 .. n]
    /\ \A i, j \in 1 .. n : p[i] = p[j] => i = j
    /\ \A k \in 1 .. n : \E i \in 1 .. n : p[i] = k
    /\ \A i \in 1 .. n : t[i] = s[p[i]]
    /\ \A i, j \in 1 .. n : i < j => p[i] < p[j] \/ Less(t[i], t[j])

\* t is in the order R from front to back.
Ordered(t, R) == \A i, j \in 1 .. Len(t) : i < j => <<t[i], t[j]>> \in R

\* One insertion keeps the elements in their places, and finds one for the next.
LEMMA InsertKeepsPlaces ==
    ASSUME NEW S, NEW s \in Seq(S), NEW n \in Nat, n + 1 <= Len(s),
           NEW t \in Seq(S), Len(t) = n, NEW p, Places(p, t, s, n)
    PROVE  \E q : Places(q, Insert(t, s[n + 1]), s, n + 1)
<1> DEFINE x == s[n + 1]
           u == Insert(t, x)
<1>1. x \in S
  OBVIOUS
<1>2. PICK pos \in 0 .. n :
          /\ u \in Seq(S) /\ Len(u) = n + 1
          /\ \A k \in 1 .. n + 1 :
                 u[k] = IF k <= pos THEN t[k] ELSE IF k = pos + 1 THEN x ELSE t[k - 1]
          /\ \A k \in pos + 1 .. n : Less(x, t[k])
  BY <1>1, InsertPosition
<1> DEFINE q == [k \in 1 .. n + 1 |-> IF k <= pos THEN p[k]
                                      ELSE IF k = pos + 1 THEN n + 1 ELSE p[k - 1]]
<1> HIDE DEF u
<1>3. /\ p \in [1 .. n -> 1 .. n]
      /\ \A i, j \in 1 .. n : p[i] = p[j] => i = j
      /\ \A k \in 1 .. n : \E i \in 1 .. n : p[i] = k
      /\ \A i \in 1 .. n : t[i] = s[p[i]]
      /\ \A i, j \in 1 .. n : i < j => p[i] < p[j] \/ Less(t[i], t[j])
  BY DEF Places
<1>4. /\ \A k \in 1 .. pos : k \in 1 .. n /\ q[k] = p[k] /\ q[k] \in 1 .. n
      /\ pos + 1 \in 1 .. n + 1 /\ q[pos + 1] = n + 1
      /\ \A k \in pos + 2 .. n + 1 :
             k - 1 \in pos + 1 .. n /\ k - 1 \in 1 .. n /\ q[k] = p[k - 1] /\ q[k] \in 1 .. n
  <2>1. ASSUME NEW k \in 1 .. pos PROVE k \in 1 .. n /\ q[k] = p[k] /\ q[k] \in 1 .. n
    <3>1. k \in 1 .. n /\ k \in 1 .. n + 1 /\ k <= pos
      OBVIOUS
    <3> QED BY <1>3, <3>1
  <2>2. pos + 1 \in 1 .. n + 1 /\ q[pos + 1] = n + 1
    OBVIOUS
  <2>3. ASSUME NEW k \in pos + 2 .. n + 1
        PROVE  k - 1 \in pos + 1 .. n /\ k - 1 \in 1 .. n /\ q[k] = p[k - 1] /\ q[k] \in 1 .. n
    <3>1. k - 1 \in pos + 1 .. n /\ k - 1 \in 1 .. n /\ k \in 1 .. n + 1 /\ k > pos + 1
      OBVIOUS
    <3> QED BY <1>3, <3>1
  <2> QED BY <2>1, <2>2, <2>3
<1>5. \A k \in 1 .. n + 1 : k \in 1 .. pos \/ k = pos + 1 \/ k \in pos + 2 .. n + 1
  OBVIOUS
<1>6. q \in [1 .. n + 1 -> 1 .. n + 1]
  <2>1. \A k \in 1 .. n + 1 : q[k] \in 1 .. n + 1
    <3> HIDE DEF q
    <3> SUFFICES ASSUME NEW k \in 1 .. n + 1 PROVE q[k] \in 1 .. n + 1
      OBVIOUS
    <3>1. q[k] \in 1 .. n \/ q[k] = n + 1
      BY <1>4, <1>5
    <3> QED BY <3>1
  <2> QED BY <2>1, Zenon
<1> HIDE DEF q
<1>7. ASSUME NEW k \in 1 .. n + 1
       PROVE  \/ k = pos + 1 /\ u[k] = x /\ q[k] = n + 1
              \/ \E o \in 1 .. n : /\ k = IF o <= pos THEN o ELSE o + 1
                                   /\ u[k] = t[o] /\ q[k] = p[o] /\ p[o] \in 1 .. n
  <2>1. CASE k \in 1 .. pos
    <3>1. k \in 1 .. n /\ k <= pos /\ u[k] = t[k]
      BY <1>2, <2>1
    <3> QED BY <1>4, <2>1, <3>1
  <2>2. CASE k = pos + 1
    BY <1>2, <1>4, <2>2
  <2>3. CASE k \in pos + 2 .. n + 1
    <3>1. k - 1 \in 1 .. n /\ q[k] = p[k - 1] /\ q[k] \in 1 .. n
      BY <1>4, <2>3
    <3>2. u[k] = t[k - 1] /\ k = IF k - 1 <= pos THEN k - 1 ELSE (k - 1) + 1
      BY <1>2, <2>3
    <3> QED BY <3>1, <3>2
  <2> QED BY <1>5, <2>1, <2>2, <2>3
<1>8. ASSUME NEW i \in 1 .. n + 1, NEW j \in 1 .. n + 1, q[i] = q[j] PROVE i = j
  <2>1. CASE q[i] = n + 1
    <3>1. i = pos + 1
      BY <1>7, <2>1
    <3>2. q[j] = n + 1
      BY <1>8, <2>1, Zenon
    <3>3. j = pos + 1
      BY <1>7, <3>2
    <3> QED BY <3>1, <3>3
  <2>2. CASE q[i] # n + 1
    <3>1. PICK o \in 1 .. n : i = (IF o <= pos THEN o ELSE o + 1) /\ q[i] = p[o]
      BY <1>7, <2>2
    <3>2. PICK l \in 1 .. n : j = (IF l <= pos THEN l ELSE l + 1) /\ q[j] = p[l]
      BY <1>8, <1>7, <2>2
    <3>3. p[o] = p[l]
      BY <1>8, <3>1, <3>2, Zenon
    <3>4. o = l
      BY <1>3, <3>3, Zenon
    <3> QED BY <3>1, <3>2, <3>4
  <2> QED BY <2>1, <2>2
<1>9. ASSUME NEW k \in 1 .. n + 1 PROVE \E i \in 1 .. n + 1 : q[i] = k
  <2>1. CASE k = n + 1
    BY <1>4, <2>1
  <2>2. CASE k # n + 1
    <3>1. k \in 1 .. n
      BY <2>2
    <3>2. PICK i \in 1 .. n : p[i] = k
      BY <1>3, <3>1
    <3>3. CASE i <= pos
      BY <1>4, <3>2, <3>3
    <3>4. CASE i > pos
      <4>1. i + 1 \in pos + 2 .. n + 1 /\ (i + 1) - 1 = i
        BY <3>4
      <4>2. q[i + 1] = k /\ i + 1 \in 1 .. n + 1
        BY <1>4, <3>2, <4>1
      <4> QED BY <4>2
    <3> QED BY <3>3, <3>4
  <2> QED BY <2>1, <2>2
<1>10. ASSUME NEW i \in 1 .. n + 1 PROVE u[i] = s[q[i]]
  <2>1. CASE i = pos + 1 /\ u[i] = x /\ q[i] = n + 1
    BY <2>1
  <2>2. ASSUME NEW o \in 1 .. n, u[i] = t[o], q[i] = p[o] PROVE u[i] = s[q[i]]
    BY <1>3, <2>2, Zenon
  <2> QED BY <1>7, <2>1, <2>2, Zenon
<1>11. ASSUME NEW i \in 1 .. n + 1, NEW j \in 1 .. n + 1, i < j
       PROVE  q[i] < q[j] \/ Less(u[i], u[j])
  <2>1. CASE j \in 1 .. pos
    <3>1. i \in 1 .. pos
      BY <1>11, <2>1
    <3>2. /\ i \in 1 .. n /\ q[i] = p[i] /\ u[i] = t[i]
          /\ j \in 1 .. n /\ q[j] = p[j] /\ u[j] = t[j]
      BY <1>2, <1>4, <2>1, <3>1
    <3> QED BY <1>3, <1>11, <3>2
  <2>2. CASE j = pos + 1
    <3>1. i \in 1 .. pos
      BY <1>11, <2>2
    <3> QED BY <1>4, <2>2, <3>1
  <2>3. CASE j \in pos + 2 .. n + 1 /\ i = pos + 1
    <3>1. u[i] = x /\ u[j] = t[j - 1]
      BY <1>2, <2>3
    <3> QED BY <1>2, <1>4, <2>3, <3>1
  <2>4. CASE j \in pos + 2 .. n + 1 /\ i \in 1 .. pos
    <3>1. i < j - 1 /\ u[i] = t[i] /\ u[j] = t[j - 1]
      BY <1>2, <2>4
    <3> QED BY <1>3, <1>4, <2>4, <3>1
  <2>5. CASE j \in pos + 2 .. n + 1 /\ i \in pos + 2 .. n + 1
    <3>1. i - 1 < j - 1 /\ u[i] = t[i - 1] /\ u[j] = t[j - 1]
      BY <1>2, <1>11, <2>5
    <3>2. i - 1 \in 1 .. n /\ j - 1 \in 1 .. n /\ q[i] = p[i - 1] /\ q[j] = p[j - 1]
      BY <1>4, <2>5
    <3>3. p[i - 1] < p[j - 1] \/ Less(t[i - 1], t[j - 1])
      BY <1>3, <3>1, <3>2
    <3> QED BY <3>1, <3>2, <3>3
  <2> QED BY <1>5, <2>1, <2>2, <2>3, <2>4, <2>5
<1>12. Places(q, u, s, n + 1)
  BY <1>6, <1>8, <1>9, <1>10, <1>11 DEF Places
<1> QED BY <1>12 DEF u

\* One insertion keeps an order, if being less is to precede in it, and if it is
\* total and transitive.
LEMMA InsertKeepsOrder ==
    ASSUME NEW S, NEW t \in Seq(S), NEW x \in S, NEW R,
           \A a, b \in S : IF Less(a, b) THEN <<a, b>> \in R ELSE <<b, a>> \in R,
           \A a, b, c \in S : <<a, b>> \in R /\ <<b, c>> \in R => <<a, c>> \in R,
           Ordered(t, R)
    PROVE  Ordered(Insert(t, x), R)
<1> DEFINE u == Insert(t, x)
           n == Len(t)
<1>1. PICK pos \in 0 .. n :
          /\ u \in Seq(S) /\ Len(u) = n + 1
          /\ \A k \in 1 .. n + 1 :
                 u[k] = IF k <= pos THEN t[k] ELSE IF k = pos + 1 THEN x ELSE t[k - 1]
          /\ pos > 0 => ~Less(x, t[pos])
          /\ \A k \in pos + 1 .. n : Less(x, t[k])
  BY InsertPosition
<1>2. n \in Nat /\ \A k \in 1 .. n : t[k] \in S
  OBVIOUS
<1>3. \A i, j \in 1 .. n : i < j => <<t[i], t[j]>> \in R
  BY DEF Ordered
<1> HIDE DEF u, n
<1>4. ASSUME NEW k \in 1 .. pos PROVE <<t[k], x>> \in R
  <2>1. k \in 1 .. n /\ pos \in 1 .. n /\ pos > 0
    BY <1>2
  <2>2. <<t[pos], x>> \in R
    BY <1>1, <1>2, <2>1
  <2>3. CASE k = pos
    BY <2>2, <2>3
  <2>4. CASE k < pos
    BY <1>2, <1>3, <2>1, <2>2, <2>4
  <2> QED BY <2>3, <2>4
<1>5. ASSUME NEW k \in pos + 1 .. n PROVE <<x, t[k]>> \in R
  <2>1. k \in 1 .. n
    BY <1>2
  <2> QED BY <1>1, <1>2, <2>1
<1>6. ASSUME NEW i \in 1 .. n + 1, NEW j \in 1 .. n + 1, i < j
      PROVE  <<u[i], u[j]>> \in R
  <2>1. CASE j <= pos
    <3>1. i \in 1 .. n /\ j \in 1 .. n /\ i <= pos
      BY <1>2, <1>6, <2>1
    <3> QED BY <1>1, <1>3, <1>6, <2>1, <3>1
  <2>2. CASE j = pos + 1
    <3>1. i \in 1 .. pos
      BY <1>6, <2>2
    <3> QED BY <1>1, <1>2, <1>4, <2>2, <3>1
  <2>3. CASE j > pos + 1 /\ i = pos + 1
    <3>1. j - 1 \in pos + 1 .. n
      BY <1>2, <2>3
    <3> QED BY <1>1, <1>2, <1>5, <2>3, <3>1
  <2>4. CASE j > pos + 1 /\ i <= pos
    <3>1. j - 1 \in 1 .. n /\ i \in 1 .. n /\ i < j - 1
      BY <1>2, <2>4
    <3>2. <<t[i], t[j - 1]>> \in R
      BY <1>3, <3>1
    <3>3. u[i] = t[i] /\ u[j] = t[j - 1]
      BY <1>1, <1>2, <2>4
    <3> QED BY <3>2, <3>3
  <2>5. CASE j > pos + 1 /\ i > pos + 1
    <3>1. j - 1 \in 1 .. n /\ i - 1 \in 1 .. n /\ i - 1 < j - 1
      BY <1>2, <1>6, <2>5
    <3>2. <<t[i - 1], t[j - 1]>> \in R
      BY <1>3, <3>1
    <3>3. u[i] = t[i - 1] /\ u[j] = t[j - 1]
      BY <1>1, <1>2, <2>5
    <3> QED BY <3>2, <3>3
  <2> QED BY <1>2, <2>1, <2>2, <2>3, <2>4, <2>5
<1> QED BY <1>1, <1>2, <1>6 DEF Ordered, u

\* SliceStable, whatever the order it is handed and however long the list: the
\* result is of the same elements, each of them once, and two elements change
\* places only if the one is less than the other.
THEOREM SliceStableArranges ==
    ASSUME NEW S, NEW s \in Seq(S)
    PROVE  /\ SliceStable(s) \in Seq(S)
           /\ Len(SliceStable(s)) = Len(s)
           /\ \E p : Places(p, SliceStable(s), s, Len(s))
<1>1. PICK f : /\ f[0] = <<>>
               /\ \A k \in 1 .. Len(s) : f[k] = Insert(f[k - 1], s[k])
               /\ SliceStable(s) = f[Len(s)]
  BY SliceStableInserts
<1> DEFINE T == {k \in Nat : k <= Len(s) => /\ f[k] \in Seq(S) /\ Len(f[k]) = k
                                            /\ \E p : Places(p, f[k], s, k)}
<1>2. 0 \in T
  <2>1. <<>> \in Seq(S) /\ Len(<<>>) = 0
    OBVIOUS
  <2>2. Places(<<>>, <<>>, s, 0)
    BY DEF Places
  <2> QED BY <1>1, <2>1, <2>2
<1>3. ASSUME NEW k \in Nat, k \in T PROVE k + 1 \in T
  <2> SUFFICES ASSUME k + 1 <= Len(s)
               PROVE  /\ f[k + 1] \in Seq(S) /\ Len(f[k + 1]) = k + 1
                      /\ \E p : Places(p, f[k + 1], s, k + 1)
    OBVIOUS
  <2>1. /\ f[k] \in Seq(S) /\ Len(f[k]) = k
        /\ \E p : Places(p, f[k], s, k)
    BY <1>3
  <2>2. k + 1 \in 1 .. Len(s) /\ (k + 1) - 1 = k /\ s[k + 1] \in S
    OBVIOUS
  <2>3. f[k + 1] = Insert(f[k], s[k + 1])
    BY <1>1, <2>2
  <2>4. f[k + 1] \in Seq(S) /\ Len(f[k + 1]) = k + 1
    <3> HIDE DEF T
    <3>1. \A r \in Seq(S), x \in S :
              Insert(r, x) \in Seq(S) /\ Len(Insert(r, x)) = Len(r) + 1
      BY InsertPosition
    <3> QED BY <2>1, <2>2, <2>3, <3>1
  <2> QED BY <2>1, <2>3, <2>4, InsertKeepsPlaces
<1>4. Nat \subseteq T
  <2> HIDE DEF T
  <2> QED BY <1>2, <1>3, NatInSet
<1>5. Len(s) \in T
  BY <1>4
<1> QED BY <1>1, <1>5

\* SliceStable sorts by every order in which to be less is to precede.
THEOREM SliceStableSorts ==
    ASSUME NEW S, NEW s \in Seq(S), NEW R,
           \A a, b \in S : IF Less(a, b) THEN <<a, b>> \in R ELSE <<b, a>> \in R,
           \A a, b, c \in S : <<a, b>> \in R /\ <<b, c>> \in R => <<a, c>> \in R
    PROVE  Ordered(SliceStable(s), R)
<1>1. PICK f : /\ f[0] = <<>>
               /\ \A k \in 1 .. Len(s) : f[k] = Insert(f[k - 1], s[k])
               /\ SliceStable(s) = f[Len(s)]
  BY SliceStableInserts
<1> DEFINE T == {k \in Nat : k <= Len(s) => f[k] \in Seq(S) /\ Ordered(f[k], R)}
<1>2. 0 \in T
  <2>1. <<>> \in Seq(S) /\ Len(<<>>) = 0
    OBVIOUS
  <2>2. Ordered(<<>>, R)
    BY <2>1 DEF Ordered
  <2> QED BY <1>1, <2>1, <2>2
<1>3. ASSUME NEW k \in Nat, k \in T PROVE k + 1 \in T
  <2> SUFFICES ASSUME k + 1 <= Len(s)
               PROVE  f[k + 1] \in Seq(S) /\ Ordered(f[k + 1], R)
    OBVIOUS
  <2>1. f[k] \in Seq(S) /\ Ordered(f[k], R)
    BY <1>3
  <2>2. k + 1 \in 1 .. Len(s) /\ (k + 1) - 1 = k /\ s[k + 1] \in S
    OBVIOUS
  <2>3. f[k + 1] = Insert(f[k], s[k + 1])
    BY <1>1, <2>2
  <2>4. f[k + 1] \in Seq(S)
    <3> HIDE DEF T
    <3>1. Insert(f[k], s[k + 1]) \in Seq(S)
      BY <2>1, <2>2, InsertPosition
    <3> QED BY <2>3, <3>1
  <2>5. Ordered(Insert(f[k], s[k + 1]), R)
    BY <2>1, <2>2, InsertKeepsOrder
  <2> QED BY <2>3, <2>4, <2>5
<1>4. Nat \subseteq T
  <2> HIDE DEF T
  <2> QED BY <1>2, <1>3, NatInSet
<1>5. Len(s) \in T
  BY <1>4
<1> QED BY <1>1, <1>5
=============================================================================
