--------------------------- MODULE VsClocksProofs ---------------------------
(***************************************************************************)
(* Proofs about the clock map, for lists of any length: what the sort and the *)
(* evaluation of the clocks keep, and that the evaluation ends.             *)
(***************************************************************************)
EXTENDS VsClocks, FunctionTheorems, FiniteSetTheorems, SequenceTheorems,
        NaturalsInduction, TLAPS

-----------------------------------------------------------------------------
(* Induction over numbers, stated for sets.                                 *)

\* Every non-empty set of natural numbers has a least element.
LEMMA Least ==
  ASSUME NEW S \in SUBSET Nat, S # {}
  PROVE  \E m \in S : \A n \in S : m <= n
<1>1. PICK m \in S : \A n \in S : ~(<<n, m>> \in OpToRel(<, Nat))
  BY NatLessThanWellFounded, WFMin, Zenon
<1>2. \A n \in S : ~(n < m)
  BY <1>1 DEF OpToRel
<1> QED
  BY <1>2

\* What holds of 0 and goes on from each number to the next holds up to N.
LEMMA Induction ==
  ASSUME NEW N \in Nat, NEW S, 0 \in S,
         \A n \in 1 .. N : n - 1 \in S => n \in S
  PROVE  0 .. N \subseteq S
<1> DEFINE Missing == (0 .. N) \ S
<1> SUFFICES ASSUME Missing # {} PROVE FALSE
  OBVIOUS
<1>1. PICK m \in Missing : \A n \in Missing : m <= n
  <2>1. Missing \in SUBSET Nat
    OBVIOUS
  <2> QED
    BY <2>1, Least, Zenon
<1>2. m \in 1 .. N /\ m - 1 \in 0 .. N /\ ~(m <= m - 1)
  BY <1>1
<1> QED
  BY <1>1, <1>2

\* f is the recursion that starts at a, up to N and as far as it stays in T.
Recurs(f, N, T, a, step) ==
  f[0] = a /\ \A n \in 1 .. N : f[n - 1] \in T => f[n] = step[n][f[n - 1]]

\* A recursion that stays in T has a function,
LEMMA Recursion ==
  ASSUME NEW N \in Nat, NEW T, NEW a \in T, NEW step \in [1 .. N -> [T -> T]]
  PROVE  \E f \in [0 .. N -> T] : Recurs(f, N, T, a, step)
<1> DEFINE Reached == {m \in 0 .. N : \E f \in [0 .. m -> T] : Recurs(f, m, T, a, step)}
<1>1. 0 \in Reached
  <2> DEFINE f == [n \in 0 .. 0 |-> a]
  <2>1. f \in [0 .. 0 -> T] /\ f[0] = a /\ 1 .. 0 = {}
    OBVIOUS
  <2> HIDE DEF f
  <2>2. Recurs(f, 0, T, a, step)
    BY <2>1 DEF Recurs
  <2> QED
    BY <2>1, <2>2
<1>2. ASSUME NEW m \in 1 .. N, m - 1 \in Reached
      PROVE  m \in Reached
  <2>1. PICK f \in [0 .. m - 1 -> T] : Recurs(f, m - 1, T, a, step)
    BY <1>2
  <2> DEFINE g == [n \in 0 .. m |-> IF n = m THEN step[m][f[m - 1]] ELSE f[n]]
  <2>2. f[m - 1] \in T /\ step[m][f[m - 1]] \in T
    OBVIOUS
  <2>3. g \in [0 .. m -> T]
    BY <2>2
  <2>4. g[0] = a
    BY <2>1 DEF Recurs
  <2>5. ASSUME NEW n \in 1 .. m PROVE g[n] = step[n][g[n - 1]]
    <3>1. g[n - 1] = f[n - 1]
      OBVIOUS
    <3>2. CASE n = m
      <4>1. g[m] = step[m][f[m - 1]]
        OBVIOUS
      <4> QED
        BY <3>1, <3>2, <4>1, Zenon
    <3>3. CASE n # m
      <4>1. n \in 1 .. m - 1 /\ g[n] = f[n] /\ f[n - 1] \in T
        BY <3>3
      <4> QED
        BY <2>1, <3>1, <4>1 DEF Recurs
    <3> QED
      BY <3>2, <3>3
  <2> HIDE DEF g
  <2> QED
    BY <2>3, <2>4, <2>5 DEF Recurs
<1>3. 0 .. N \subseteq Reached
  <2> HIDE DEF Reached
  <2> QED
    BY <1>1, <1>2, Induction
<1> QED
  BY <1>3

\* and any function that obeys it is that one.
LEMMA OneRecursion ==
  ASSUME NEW N \in Nat, NEW T, NEW a, NEW step, NEW f \in [0 .. N -> T], NEW g,
         Recurs(f, N, T, a, step), Recurs(g, N, T, a, step)
  PROVE  \A n \in 0 .. N : g[n] = f[n]
<1> DEFINE Same == {n \in 0 .. N : g[n] = f[n]}
<1>1. 0 \in Same
  BY DEF Recurs
<1>2. ASSUME NEW n \in 1 .. N, n - 1 \in Same PROVE n \in Same
  <2>1. n - 1 \in 0 .. N /\ g[n - 1] = f[n - 1] /\ f[n - 1] \in T
    BY <1>2
  <2>2. g[n] = step[n][g[n - 1]] /\ f[n] = step[n][f[n - 1]]
    BY <2>1, Zenon DEF Recurs
  <2>3. g[n] = f[n]
    BY <2>1, <2>2, Zenon
  <2> QED
    BY <2>3
<1>3. 0 .. N \subseteq Same
  <2> HIDE DEF Same
  <2> QED
    BY <1>1, <1>2, Induction
<1> QED
  BY <1>3

-----------------------------------------------------------------------------
(* The sort.                                                                *)

\* Every clock is in the list once.
Distinct(s) == \A i, j \in DOMAIN s : s[i].name = s[j].name => i = j

\* All clocks are enabled and in the order of their events.
Ordered(s) ==
  \A i, j \in DOMAIN s : i < j => s[i].enabled /\ s[j].enabled /\ s[i].next <= s[j].next

\* The enabled clocks are in the order of their events.
EnabledInOrder(s) ==
  \A i, j \in DOMAIN s : i < j /\ s[i].enabled /\ s[j].enabled => s[i].next <= s[j].next

\* A disabled clock has no event.
IdleAtZero(s) == \A c \in ToSet(s) : ~c.enabled => c.next = 0

\* The elements of a list and their places.
LEMMA ElementsOf ==
  ASSUME NEW s \in Seq(Clock)
  PROVE  /\ Len(s) \in Nat /\ DOMAIN s = 1 .. Len(s)
         /\ \A i \in 1 .. Len(s) : s[i] \in Clock /\ s[i] \in ToSet(s)
         /\ \A c \in ToSet(s) : c \in Clock /\ \E i \in 1 .. Len(s) : c = s[i]
  BY DEF ToSet

\* q is s with c put at place i, behind those of the places from "from" on that c does
\* not come before.
Placed(q, s, c, i, from) ==
  /\ q \in Seq(Clock) /\ Len(q) = Len(s) + 1
  /\ from \in 1 .. Len(s) + 1 /\ i \in from .. Len(s) + 1
  /\ \A j \in 1 .. Len(s) + 1 : q[j] = IF j < i THEN s[j] ELSE IF j = i THEN c ELSE s[j - 1]
  /\ \A j \in from .. i - 1 : ~Before(c, s[j])
  /\ i <= Len(s) => Before(c, s[i])

\* Placing a clock adds it and keeps the names apart; it keeps the enabled clocks in
\* order when none of those ahead of "from" is later than the clock.
LEMMA PlacedKeeps ==
  ASSUME NEW s \in Seq(Clock), NEW c \in Clock, NEW q, NEW i, NEW from,
         Placed(q, s, c, i, from)
  PROVE  /\ ToSet(q) = ToSet(s) \cup {c}
         /\ i \in DOMAIN q /\ q[i] = c
         /\ Distinct(s) /\ (\A d \in ToSet(s) : d.name # c.name) => Distinct(q)
         /\ (/\ EnabledInOrder(s) /\ IdleAtZero(s)
             /\ c.enabled => \A j \in 1 .. from - 1 : s[j].enabled => s[j].next <= c.next)
              => EnabledInOrder(q)
<1> DEFINE n == Len(s)
<1>1. /\ q \in Seq(Clock) /\ Len(q) = n + 1 /\ s \in Seq(Clock)
      /\ from \in Nat /\ i \in Nat /\ from <= i
  BY DEF Placed
<1>2. /\ \A j \in 1 .. n + 1 : q[j] = IF j < i THEN s[j] ELSE IF j = i THEN c ELSE s[j - 1]
      /\ \A j \in from .. i - 1 : ~Before(c, s[j])
      /\ i <= n => Before(c, s[i])
  BY DEF Placed
<1>3. n \in Nat /\ DOMAIN s = 1 .. n /\ DOMAIN q = 1 .. n + 1 /\ i \in 1 .. n + 1
  BY <1>1 DEF Placed
<1> HIDE DEF n
<1>4. ToSet(q) = ToSet(s) \cup {c}
  <2>1. ASSUME NEW j \in 1 .. n + 1 PROVE q[j] \in ToSet(s) \cup {c}
    BY <1>2, <1>3 DEF ToSet
  <2>2. ASSUME NEW j \in 1 .. n PROVE \E k \in 1 .. n + 1 : s[j] = q[k]
    <3>1. CASE j < i
      BY <1>2, <1>3, <3>1
    <3>2. CASE ~(j < i)
      <4>1. j + 1 \in 1 .. n + 1 /\ q[j + 1] = s[j]
        BY <1>2, <1>3, <3>2
      <4> QED
        BY <4>1
    <3> QED
      BY <3>1, <3>2
  <2>3. q[i] = c /\ i \in 1 .. n + 1
    BY <1>2, <1>3
  <2>4. ToSet(q) = {q[j] : j \in 1 .. n + 1} /\ ToSet(s) = {s[j] : j \in 1 .. n}
    BY <1>3, Zenon DEF ToSet
  <2> QED
    BY <2>1, <2>2, <2>3, <2>4
<1>5. ASSUME Distinct(s), \A d \in ToSet(s) : d.name # c.name
      PROVE  Distinct(q)
  <2>1. \A j \in 1 .. n : s[j].name # c.name
    BY <1>3, <1>5 DEF ToSet
  <2>2. ASSUME NEW j \in 1 .. n + 1, NEW k \in 1 .. n + 1, j < k, q[j].name = q[k].name
        PROVE  FALSE
    <3>1. CASE k < i
      BY <1>2, <1>3, <1>5, <2>2, <3>1 DEF Distinct
    <3>2. CASE k = i
      BY <1>2, <1>3, <2>1, <2>2, <3>2
    <3>3. CASE k > i /\ j < i
      <4>1. k - 1 \in 1 .. n /\ j \in 1 .. n /\ j # k - 1 /\ q[j] = s[j] /\ q[k] = s[k - 1]
        BY <1>2, <1>3, <2>2, <3>3
      <4> QED
        BY <1>3, <1>5, <2>2, <4>1 DEF Distinct
    <3>4. CASE k > i /\ j = i
      BY <1>2, <1>3, <2>1, <2>2, <3>4
    <3>5. CASE k > i /\ j > i
      <4>1. /\ k - 1 \in 1 .. n /\ j - 1 \in 1 .. n /\ j - 1 # k - 1
            /\ q[j] = s[j - 1] /\ q[k] = s[k - 1]
        BY <1>2, <1>3, <2>2, <3>5
      <4> QED
        BY <1>3, <1>5, <2>2, <4>1 DEF Distinct
    <3> QED
      BY <1>3, <3>1, <3>2, <3>3, <3>4, <3>5
  <2>3. ASSUME NEW j \in 1 .. n + 1, NEW k \in 1 .. n + 1, q[j].name = q[k].name
        PROVE  j = k
    <3>1. ~(j < k) /\ ~(k < j)
      BY <2>2, <2>3
    <3> QED
      BY <1>3, <3>1
  <2> QED
    BY <1>3, <2>3 DEF Distinct
<1>6. ASSUME EnabledInOrder(s), IdleAtZero(s),
             c.enabled => \A j \in 1 .. from - 1 : s[j].enabled => s[j].next <= c.next
      PROVE  EnabledInOrder(q)
  <2>1. /\ \A j \in 1 .. n : s[j].next \in Nat /\ (~s[j].enabled => s[j].next = 0)
        /\ \A j, k \in 1 .. n : j <= k /\ s[j].enabled /\ s[k].enabled =>
                                  s[j].next <= s[k].next
        /\ c.next \in Nat
    <3>1. \A d \in Clock : d.next \in Nat
      BY DEF Clock
    <3>2. \A j \in 1 .. n : s[j] \in Clock /\ s[j] \in ToSet(s)
      BY <1>3, ElementsOf
    <3>3. \A j \in 1 .. n : ~s[j].enabled => s[j].next = 0
      BY <1>6, <3>2 DEF IdleAtZero
    <3>4. \A j \in 1 .. n : s[j].next \in Nat
      BY <3>1, <3>2
    <3>5. ASSUME NEW j \in 1 .. n, NEW k \in 1 .. n, j <= k, s[j].enabled, s[k].enabled
          PROVE  s[j].next <= s[k].next
      <4>1. CASE j = k
        BY <3>4, <4>1
      <4>2. CASE j # k
        <5>1. j < k
          BY <1>3, <3>5, <4>2
        <5> QED
          BY <1>3, <1>6, <3>5, <5>1 DEF EnabledInOrder
      <4> QED
        BY <4>1, <4>2
    <3> QED
      BY <3>1, <3>3, <3>4, <3>5
  <2>2. /\ c.enabled => \A j \in 1 .. i - 1 : s[j].enabled => s[j].next <= c.next
        /\ i <= n => c.enabled /\ c.next < s[i].next /\ s[i].enabled
    <3>1. ASSUME c.enabled, NEW j \in 1 .. i - 1, s[j].enabled
          PROVE  s[j].next <= c.next
      <4>1. CASE j < from
        BY <1>1, <1>3, <1>6, <3>1, <4>1
      <4>2. CASE ~(j < from)
        BY <1>1, <1>2, <1>3, <2>1, <3>1, <4>2 DEF Before
      <4> QED
        BY <4>1, <4>2
    <3>2. i <= n => c.enabled /\ c.next < s[i].next /\ s[i].enabled
      BY <1>2, <1>3, <2>1 DEF Before
    <3> QED
      BY <3>1, <3>2
  <2>3. ASSUME NEW j \in 1 .. n + 1, NEW k \in 1 .. n + 1, j < k,
               q[j].enabled, q[k].enabled
        PROVE  q[j].next <= q[k].next
    <3>1. CASE k < i
      BY <1>2, <1>3, <2>1, <2>3, <3>1
    <3>2. CASE k = i
      BY <1>2, <1>3, <2>1, <2>2, <2>3, <3>2
    <3>3. CASE k > i /\ j < i
      BY <1>2, <1>3, <2>1, <2>3, <3>3
    <3>4. CASE k > i /\ j = i
      <4>1. i <= n /\ k - 1 \in 1 .. n /\ q[j] = c /\ q[k] = s[k - 1] /\ i <= k - 1
        BY <1>2, <1>3, <2>3, <3>4
      <4>2. s[i].next <= s[k - 1].next /\ c.next < s[i].next /\ s[i].next \in Nat
        BY <1>3, <2>1, <2>2, <2>3, <4>1
      <4> QED
        BY <2>1, <4>1, <4>2
    <3>5. CASE k > i /\ j > i
      <4>1. /\ k - 1 \in 1 .. n /\ j - 1 \in 1 .. n /\ j - 1 <= k - 1
            /\ q[j] = s[j - 1] /\ q[k] = s[k - 1]
        BY <1>2, <1>3, <2>3, <3>5
      <4> QED
        BY <2>1, <2>3, <4>1
    <3> QED
      BY <1>3, <3>1, <3>2, <3>3, <3>4, <3>5
  <2> QED
    BY <1>3, <2>3 DEF EnabledInOrder
<1>7. i \in DOMAIN q /\ q[i] = c
  BY <1>2, <1>3
<1> QED
  BY <1>4, <1>5, <1>6, <1>7

\* A merge under way: the list so far, and the place the walk along it has come to.
Merging == {m \in [list : Seq(Clock), from : Nat] : m.from \in 1 .. Len(m.list) + 1}

\* An insertion puts the clock at one place of what is left, behind those it does not
\* come before and ahead of one it comes before, and goes on behind it.
LEMMA Inserted ==
  ASSUME NEW m \in Merging, NEW c \in Clock
  PROVE  /\ Insert(m, c) \in Merging
         /\ Placed(Insert(m, c).list, m.list, c, Insert(m, c).from - 1, m.from)
<1> DEFINE s == m.list
           later == {i \in m.from .. Len(s) : Before(c, s[i])}
           at == IF later = {} THEN Len(s) + 1 ELSE Min(later)
<1>1. /\ s \in Seq(Clock) /\ Len(s) \in Nat /\ DOMAIN s = 1 .. Len(s)
      /\ m.from \in 1 .. Len(s) + 1 /\ later \in SUBSET Nat
  BY DEF Merging
<1>2. /\ at \in m.from .. Len(s) + 1 /\ at \in 1 .. Len(s) + 1
      /\ \A j \in m.from .. at - 1 : ~Before(c, s[j])
      /\ at <= Len(s) => Before(c, s[at])
  <2> HIDE DEF s
  <2>1. CASE later = {}
    BY <1>1, <2>1
  <2>2. CASE later # {}
    <3>1. \E k \in later : \A n \in later : k <= n
      BY <1>1, <2>2, Least
    <3>2. Min(later) \in later /\ \A n \in later : Min(later) <= n
      BY <3>1, Zenon DEF Min
    <3>3. at = Min(later)
      BY <2>2
    <3> HIDE DEF at
    <3>4. at \in m.from .. Len(s) /\ Before(c, s[at]) /\ \A n \in later : at <= n
      BY <1>1, <3>2, <3>3
    <3>5. ASSUME NEW j \in m.from .. at - 1, Before(c, s[j]) PROVE FALSE
      <4>1. j \in later /\ ~(at <= j)
        BY <1>1, <3>4, <3>5
      <4> QED
        BY <3>4, <4>1, Zenon
    <3> QED
      BY <1>1, <3>4, <3>5
  <2> QED
    BY <2>1, <2>2
<1>3. Insert(m, c) = [list |-> InsertAt(s, at, c), from |-> at + 1]
  BY Zenon DEF Insert
<1> HIDE DEF at
<1> DEFINE q == InsertAt(s, at, c)
           l == SubSeq(s, 1, at - 1)
           r == SubSeq(s, at, Len(s))
<1>4. q = l \o <<c>> \o r
  BY Zenon DEF InsertAt
<1> HIDE DEF q, s
<1>15. at \in 1 .. Len(s) + 1 /\ s \in Seq(Clock) /\ Len(s) \in Nat
  BY <1>1, <1>2
<1>5. /\ l \in Seq(Clock) /\ Len(l) = at - 1
      /\ r \in Seq(Clock) /\ Len(r) = Len(s) - at + 1
      /\ \A j \in 1 .. at - 1 : l[j] = s[j]
      /\ \A j \in 1 .. Len(s) - at + 1 : r[j] = s[at + j - 1]
  BY <1>15
<1> HIDE DEF l, r, later
<1> DEFINE k == l \o <<c>>
<1>6. /\ k \in Seq(Clock) /\ Len(k) = at
      /\ \A j \in 1 .. at : k[j] = IF j = at THEN c ELSE l[j]
  BY <1>15, <1>5
<1>7. q = k \o r
  BY <1>4
<1> HIDE DEF k
<1>8. /\ k \o r \in Seq(Clock) /\ Len(k \o r) = Len(s) + 1
      /\ \A j \in 1 .. Len(s) + 1 : (k \o r)[j] = IF j <= at THEN k[j] ELSE r[j - at]
  <2>1. /\ k \o r \in Seq(Clock) /\ Len(k \o r) = Len(k) + Len(r)
        /\ \A j \in 1 .. Len(k) + Len(r) :
             (k \o r)[j] = IF j <= Len(k) THEN k[j] ELSE r[j - Len(k)]
    BY <1>5, <1>6, ConcatProperties, Zenon
  <2>2. Len(k) = at /\ Len(k) + Len(r) = Len(s) + 1
    BY <1>1, <1>2, <1>5, <1>6
  <2> QED
    BY <2>1, <2>2, Zenon
<1>9. ASSUME NEW j \in 1 .. Len(s) + 1
      PROVE  (k \o r)[j] = IF j < at THEN s[j] ELSE IF j = at THEN c ELSE s[j - 1]
  <2>1. CASE j <= at
    BY <1>2, <1>5, <1>6, <1>8, <2>1
  <2>2. CASE ~(j <= at)
    <3>1. j - at \in 1 .. Len(s) - at + 1 /\ at + (j - at) - 1 = j - 1
      BY <1>1, <1>2, <2>2
    <3>2. r[j - at] = s[j - 1]
      BY <1>5, <3>1
    <3> QED
      BY <1>2, <1>8, <2>2, <3>2
  <2> QED
    BY <2>1, <2>2
<1>10. Insert(m, c).list = q /\ Insert(m, c).from = at + 1
  BY <1>3 DEF q
<1>11. Insert(m, c) \in Merging
  <2>1. q \in Seq(Clock) /\ Len(q) = Len(s) + 1 /\ at + 1 \in 1 .. Len(q) + 1 /\ at + 1 \in Nat
    BY <1>1, <1>2, <1>7, <1>8
  <2>2. Insert(m, c) = [list |-> q, from |-> at + 1]
    BY <1>3 DEF q
  <2> QED
    BY <2>1, <2>2 DEF Merging
<1>12. Len(q) = Len(s) + 1
       /\ \A j \in 1 .. Len(s) + 1 :
            q[j] = IF j < at THEN s[j] ELSE IF j = at THEN c ELSE s[j - 1]
  BY <1>7, <1>8, <1>9, Zenon
<1>13. Insert(m, c).from - 1 = at
  BY <1>10, <1>15
<1>14. Placed(q, s, c, at, m.from)
  <2>1. q \in Seq(Clock)
    BY <1>7, <1>8
  <2> QED
    BY <1>1, <1>2, <1>12, <2>1, Zenon DEF Placed
<1> QED
  BY <1>10, <1>11, <1>13, <1>14 DEF s

\* A merge inserts the clocks of the second list one after the other.
LEMMA MergeIs ==
  ASSUME NEW a \in Seq(Clock), NEW b \in Seq(Clock)
  PROVE  \E m \in [0 .. Len(b) -> Merging] :
           /\ m[0] = [list |-> a, from |-> 1]
           /\ \A n \in 1 .. Len(b) : m[n] = Insert(m[n - 1], b[n])
           /\ Merge(a, b) = m[Len(b)].list
<1> DEFINE N == Len(b)
           start == [list |-> a, from |-> 1]
           step == [n \in 1 .. N |-> [m \in Merging |-> Insert(m, b[n])]]
           merged == CHOOSE f : f = [n \in 0 .. N |-> IF n = 0 THEN start
                                                     ELSE Insert(f[n - 1], b[n])]
<1>1. N \in Nat /\ \A n \in 1 .. N : b[n] \in Clock
  OBVIOUS
<1>2. step \in [1 .. N -> [Merging -> Merging]]
  BY <1>1, Inserted
<1>3. \A n \in 1 .. N, m \in Merging : step[n][m] = Insert(m, b[n])
  OBVIOUS
<1>4. start \in Merging
  <2>1. Len(a) \in Nat /\ 1 \in 1 .. Len(a) + 1
    OBVIOUS
  <2> QED
    BY <2>1 DEF Merging
<1>5. Merge(a, b) = merged[N].list
  BY Zenon DEF Merge
<1> HIDE DEF step, N, start
<1>6. PICK m \in [0 .. N -> Merging] : Recurs(m, N, Merging, start, step)
  BY <1>1, <1>2, <1>4, Recursion
<1>7. m[0] = start /\ \A n \in 1 .. N : m[n] = Insert(m[n - 1], b[n])
  <2>1. \A n \in 1 .. N : m[n - 1] \in Merging
    BY <1>1
  <2> QED
    BY <1>3, <1>6, <2>1 DEF Recurs
<1>8. merged = [n \in 0 .. N |-> IF n = 0 THEN start ELSE Insert(merged[n - 1], b[n])]
  <2>1. m = [n \in 0 .. N |-> IF n = 0 THEN start ELSE Insert(m[n - 1], b[n])]
    BY <1>1, <1>6, <1>7
  <2> QED
    BY <2>1, Zenon
<1> HIDE DEF merged
<1>9. Recurs(merged, N, Merging, start, step)
  <2>1. \A n \in 0 .. N : merged[n] = IF n = 0 THEN start ELSE Insert(merged[n - 1], b[n])
    BY <1>8, Zenon
  <2>2. merged[0] = start /\ \A n \in 1 .. N : merged[n] = Insert(merged[n - 1], b[n])
    BY <1>1, <2>1
  <2> QED
    BY <1>3, <2>2 DEF Recurs
<1>10. merged[N] = m[N]
  <2>1. \A n \in 0 .. N : merged[n] = m[n]
    BY <1>1, <1>6, <1>9, OneRecursion
  <2> QED
    BY <1>1, <2>1
<1> QED
  BY <1>5, <1>6, <1>7, <1>10 DEF N, start

\* A merge keeps the clocks of both lists and their names apart.  It keeps the enabled
\* clocks in order when the second list is one clock, or has no disabled one.
LEMMA MergeKeeps ==
  ASSUME NEW a \in Seq(Clock), NEW b \in Seq(Clock)
  PROVE  /\ Merge(a, b) \in Seq(Clock)
         /\ ToSet(Merge(a, b)) = ToSet(a) \cup ToSet(b)
         /\ b = <<>> => Merge(a, b) = a
         /\ (/\ Distinct(a) /\ Distinct(b)
             /\ \A c \in ToSet(a), d \in ToSet(b) : c.name # d.name)
              => Distinct(Merge(a, b))
         /\ (/\ EnabledInOrder(a) /\ IdleAtZero(a) /\ IdleAtZero(b)
             /\ Len(b) <= 1 \/ (EnabledInOrder(b) /\ \A c \in ToSet(b) : c.enabled))
              => EnabledInOrder(Merge(a, b))
<1>1. PICK m \in [0 .. Len(b) -> Merging] :
        /\ m[0] = [list |-> a, from |-> 1]
        /\ \A n \in 1 .. Len(b) : m[n] = Insert(m[n - 1], b[n])
        /\ Merge(a, b) = m[Len(b)].list
  BY MergeIs
<1> DEFINE N == Len(b)
           Apart == /\ Distinct(a) /\ Distinct(b)
                    /\ \A c \in ToSet(a), d \in ToSet(b) : c.name # d.name
           Fit == /\ EnabledInOrder(a) /\ IdleAtZero(a) /\ IdleAtZero(b)
                  /\ N <= 1 \/ (EnabledInOrder(b) /\ \A c \in ToSet(b) : c.enabled)
           Kept(n) == /\ ToSet(m[n].list) = ToSet(a) \cup {b[i] : i \in 1 .. n}
                      /\ Apart => Distinct(m[n].list)
                      /\ n = 0 => m[n].from = 1
                      /\ n # 0 => /\ m[n].from - 1 \in DOMAIN m[n].list
                                  /\ m[n].list[m[n].from - 1] = b[n]
                      /\ Fit => EnabledInOrder(m[n].list)
<1>2. /\ N \in Nat /\ DOMAIN b = 1 .. N
      /\ \A i \in 1 .. N : b[i] \in Clock /\ b[i] \in ToSet(b)
      /\ ToSet(b) = {b[i] : i \in 1 .. N}
  BY ElementsOf DEF ToSet
<1>3. Kept(0)
  <2>1. m[0].list = a /\ m[0].from = 1
    BY <1>1
  <2>2. {b[i] : i \in 1 .. 0} = {}
    OBVIOUS
  <2> QED
    BY <2>1, <2>2
<1>4. ASSUME NEW n \in 1 .. N, Kept(n - 1) PROVE Kept(n)
  <2> DEFINE p == m[n - 1]
             s == p.list
             c == b[n]
             q == m[n].list
  <2>1. /\ n - 1 \in 0 .. N /\ n \in 0 .. N /\ p \in Merging /\ m[n] = Insert(p, c)
        /\ s \in Seq(Clock) /\ p.from \in 1 .. Len(s) + 1 /\ c \in Clock
    <3>1. n - 1 \in 0 .. N /\ n \in 0 .. N /\ c \in Clock
      BY <1>2
    <3>2. p \in Merging /\ m[n] = Insert(p, c)
      BY <1>1, <3>1
    <3> HIDE DEF p
    <3> QED
      BY <3>1, <3>2 DEF Merging
  <2>2. Kept(n - 1)
    BY <1>4
  <2>3. Placed(q, s, c, m[n].from - 1, p.from)
    BY <2>1, Inserted
  <2>4. /\ ToSet(s) = ToSet(a) \cup {b[i] : i \in 1 .. n - 1}
        /\ Apart => Distinct(s)
        /\ n = 1 => p.from = 1
        /\ n # 1 => p.from - 1 \in DOMAIN s /\ s[p.from - 1] = b[n - 1]
        /\ Fit => EnabledInOrder(s)
    BY <1>2, <2>2
  <2> HIDE DEF p, s, c, Apart, Fit
  <2>5. /\ ToSet(q) = ToSet(s) \cup {c}
        /\ m[n].from - 1 \in DOMAIN q /\ q[m[n].from - 1] = c
        /\ Distinct(s) /\ (\A d \in ToSet(s) : d.name # c.name) => Distinct(q)
        /\ (/\ EnabledInOrder(s) /\ IdleAtZero(s)
            /\ c.enabled => \A j \in 1 .. p.from - 1 : s[j].enabled => s[j].next <= c.next)
             => EnabledInOrder(q)
    BY <2>1, <2>3, PlacedKeeps
  <2>6. ToSet(q) = ToSet(a) \cup {b[i] : i \in 1 .. n}
    <3>1. 1 .. n = (1 .. n - 1) \cup {n}
      BY <1>2
    <3>2. {b[i] : i \in 1 .. n} = {b[i] : i \in 1 .. n - 1} \cup {c}
      BY <3>1 DEF c
    <3> QED
      BY <2>4, <2>5, <3>2
  <2>7. Apart => Distinct(q)
    <3> SUFFICES ASSUME Apart PROVE \A d \in ToSet(s) : d.name # c.name
      BY <2>4, <2>5
    <3>1. \A i \in 1 .. n - 1 : i \in DOMAIN b /\ n \in DOMAIN b /\ i # n
      <4>1. DOMAIN b = 1 .. N /\ N \in Nat
        OBVIOUS
      <4>2. n \in 1 .. N /\ \A i \in 1 .. n - 1 : i \in 1 .. N /\ i # n
        BY <4>1
      <4> QED
        BY <4>1, <4>2, Zenon
    <3>2. \A i \in 1 .. n - 1 : b[i].name # c.name
      BY <3>1, Zenon DEF Apart, Distinct, c
    <3>3. \A d \in ToSet(a) : d.name # c.name
      BY <1>2 DEF Apart, c
    <3> QED
      BY <2>4, <3>2, <3>3
  <2>8. Fit => EnabledInOrder(q)
    <3> SUFFICES ASSUME Fit
                 PROVE  /\ IdleAtZero(s)
                        /\ c.enabled => \A j \in 1 .. p.from - 1 :
                                          s[j].enabled => s[j].next <= c.next
      BY <2>4, <2>5
    <3>1. IdleAtZero(s)
      <4>1. \A i \in 1 .. n - 1 : b[i] \in ToSet(b)
        BY <1>2
      <4> QED
        BY <2>4, <4>1 DEF Fit, IdleAtZero
    <3>2. ASSUME c.enabled, NEW j \in 1 .. p.from - 1, s[j].enabled
          PROVE  s[j].next <= c.next
      <4>1. n # 1
        BY <2>1, <2>4, <3>2
      <4> DEFINE k == p.from - 1
                 d == b[n - 1]
      <4>2. k \in DOMAIN s /\ s[k] = d /\ d.enabled /\ d.next <= c.next
        <5>1. n - 1 \in DOMAIN b /\ n \in DOMAIN b /\ n - 1 < n /\ ~(N <= 1)
          BY <1>2, <4>1
        <5>2. d.enabled /\ c.enabled
          BY <1>2, <3>2, <5>1 DEF Fit
        <5> QED
          BY <2>4, <4>1, <5>1, <5>2 DEF Fit, EnabledInOrder, c
      <4>3. k \in Nat /\ j \in 1 .. k /\ DOMAIN s = 1 .. Len(s) /\ Len(s) \in Nat
        BY <2>1, <3>2
      <4> HIDE DEF k, d
      <4>4. s[j] \in Clock /\ d \in Clock /\ c \in Clock
        BY <2>1, <4>2, <4>3
      <4>5. s[j].next \in Nat /\ d.next \in Nat /\ c.next \in Nat
        BY <4>4 DEF Clock
      <4>6. s[j].next <= d.next
        <5>1. CASE j = k
          BY <4>2, <4>5, <5>1
        <5>2. CASE j # k
          <6>1. j < k /\ j \in DOMAIN s
            BY <4>2, <4>3, <5>2
          <6> QED
            BY <2>4, <3>2, <4>2, <6>1, Zenon DEF EnabledInOrder
        <5> QED
          BY <5>1, <5>2
      <4> QED
        BY <4>2, <4>5, <4>6
    <3> QED
      BY <3>1, <3>2
  <2>9. (n = 0 => m[n].from = 1) /\ n # 0
    BY <1>2
  <2> QED
    BY <2>5, <2>6, <2>7, <2>8, <2>9 DEF c
<1>5. Kept(N)
  <2> DEFINE S == {n \in 0 .. N : Kept(n)}
  <2> HIDE DEF Kept
  <2>1. 0 \in S
    BY <1>2, <1>3
  <2>2. ASSUME NEW n \in 1 .. N, n - 1 \in S PROVE n \in S
    BY <1>2, <1>4, <2>2
  <2>3. 0 .. N \subseteq S
    <3> HIDE DEF S, N
    <3> QED
      BY <1>2, <2>1, <2>2, Induction
  <2> QED
    BY <1>2, <2>3
<1>6. m[N] \in Merging /\ m[N].list \in Seq(Clock)
  BY <1>2 DEF Merging
<1>7. b = <<>> => m[N].list = a
  BY <1>1
<1> QED
  BY <1>1, <1>2, <1>5, <1>6, <1>7

\* r lists the runs of each pass of the sort.
Passes(r, list) ==
  /\ r \in [0 .. Len(list) -> [Nat -> Seq(Clock)]]
  /\ r[0] = Singles(list)
  /\ \A k \in 1 .. Len(list) : r[k] = Pairwise(r[k - 1])
  /\ Sorted(list) = r[Len(list)][0]

\* Single clocks are runs, and merging runs two by two makes runs.
LEMMA RunsType ==
  /\ \A list \in Seq(Clock) : Singles(list) \in [Nat -> Seq(Clock)]
  /\ \A runs \in [Nat -> Seq(Clock)] : Pairwise(runs) \in [Nat -> Seq(Clock)]
<1>1. ASSUME NEW list \in Seq(Clock) PROVE Singles(list) \in [Nat -> Seq(Clock)]
  <2>1. ASSUME NEW i \in Nat
        PROVE  (IF i < Len(list) THEN <<list[i + 1]>> ELSE <<>>) \in Seq(Clock)
    <3>1. i < Len(list) => list[i + 1] \in Clock
      OBVIOUS
    <3> QED
      BY <3>1
  <2> QED
    BY <2>1, Zenon DEF Singles
<1>2. ASSUME NEW runs \in [Nat -> Seq(Clock)] PROVE Pairwise(runs) \in [Nat -> Seq(Clock)]
  <2>1. ASSUME NEW i \in Nat PROVE Merge(runs[2 * i], runs[2 * i + 1]) \in Seq(Clock)
    <3>1. runs[2 * i] \in Seq(Clock) /\ runs[2 * i + 1] \in Seq(Clock)
      OBVIOUS
    <3> QED
      BY <3>1, MergeKeeps
  <2> QED
    BY <2>1, Zenon DEF Pairwise
<1> QED
  BY <1>1, <1>2

LEMMA SortedIs ==
  ASSUME NEW list \in Seq(Clock)
  PROVE  \E r : Passes(r, list)
<1> DEFINE N == Len(list)
           Runs == [Nat -> Seq(Clock)]
           start == Singles(list)
           step == [k \in 1 .. N |-> [runs \in Runs |-> Pairwise(runs)]]
           runs == CHOOSE f : f = [k \in 0 .. N |-> IF k = 0 THEN start
                                                   ELSE Pairwise(f[k - 1])]
<1>1. N \in Nat /\ start \in Runs
  <2>1. start \in Runs
    BY RunsType, Zenon
  <2> QED
    BY <2>1
<1>2. step \in [1 .. N -> [Runs -> Runs]]
  BY RunsType
<1>3. \A k \in 1 .. N, q \in Runs : step[k][q] = Pairwise(q)
  OBVIOUS
<1>4. Sorted(list) = runs[N][0]
  BY Zenon DEF Sorted
<1> HIDE DEF step, N, start, Runs
<1>5. PICK r \in [0 .. N -> Runs] : Recurs(r, N, Runs, start, step)
  BY <1>1, <1>2, Recursion
<1>6. r[0] = start /\ \A k \in 1 .. N : r[k] = Pairwise(r[k - 1])
  <2>1. \A k \in 1 .. N : r[k - 1] \in Runs
    BY <1>1
  <2> QED
    BY <1>3, <1>5, <2>1 DEF Recurs
<1>7. runs = [k \in 0 .. N |-> IF k = 0 THEN start ELSE Pairwise(runs[k - 1])]
  <2>1. r = [k \in 0 .. N |-> IF k = 0 THEN start ELSE Pairwise(r[k - 1])]
    BY <1>1, <1>5, <1>6
  <2> QED
    BY <2>1, Zenon
<1> HIDE DEF runs
<1>8. Recurs(runs, N, Runs, start, step)
  <2>1. \A k \in 0 .. N : runs[k] = IF k = 0 THEN start ELSE Pairwise(runs[k - 1])
    BY <1>7, Zenon
  <2>2. runs[0] = start /\ \A k \in 1 .. N : runs[k] = Pairwise(runs[k - 1])
    BY <1>1, <2>1
  <2> QED
    BY <1>3, <2>2 DEF Recurs
<1>9. runs[N] = r[N]
  <2>1. \A k \in 0 .. N : runs[k] = r[k]
    BY <1>1, <1>5, <1>8, OneRecursion
  <2> QED
    BY <1>1, <2>1
<1>10. Passes(r, list)
  BY <1>4, <1>5, <1>6, <1>9 DEF Passes, Runs, N, start
<1> QED
  BY <1>10, Zenon

\* The runs of the first pass are single clocks.
LEMMA FirstPass ==
  ASSUME NEW list \in Seq(Clock), NEW r, Passes(r, list), NEW i \in Nat
  PROVE  /\ 0 \in 0 .. Len(list) /\ Len(list) \in 0 .. Len(list)
         /\ i < Len(list) => r[0][i] = <<list[i + 1]>>
         /\ ~(i < Len(list)) => r[0][i] = <<>>
<1>1. Len(list) \in Nat
  OBVIOUS
<1>2. r[0] = Singles(list)
  BY DEF Passes
<1>3. r[0][i] = IF i < Len(list) THEN <<list[i + 1]>> ELSE <<>>
  BY <1>2 DEF Singles
<1> QED
  BY <1>1, <1>3

\* Each later pass merges the runs of the pass before two by two.
LEMMA PassMerges ==
  ASSUME NEW list \in Seq(Clock), NEW r, Passes(r, list),
         NEW k \in 1 .. Len(list), NEW i \in Nat
  PROVE  /\ k - 1 \in 0 .. Len(list) /\ 2 * i \in Nat /\ 2 * i + 1 \in Nat
         /\ r[k - 1][2 * i] \in Seq(Clock) /\ r[k - 1][2 * i + 1] \in Seq(Clock)
         /\ r[k] = Pairwise(r[k - 1])
<1>1. k - 1 \in 0 .. Len(list) /\ 2 * i \in Nat /\ 2 * i + 1 \in Nat
  OBVIOUS
<1>2. r \in [0 .. Len(list) -> [Nat -> Seq(Clock)]]
  BY DEF Passes
<1>3. r[k - 1][2 * i] \in Seq(Clock) /\ r[k - 1][2 * i + 1] \in Seq(Clock)
  BY <1>1, <1>2, Zenon
<1>4. r[k] = Pairwise(r[k - 1])
  BY DEF Passes
<1> QED
  BY <1>1, <1>3, <1>4

\* What each pass keeps: the clocks, and that no two runs share a name.  There are at
\* least half as many runs as before, which all but the first are used up in the end.
LEMMA PassKeeps ==
  ASSUME NEW list \in Seq(Clock), NEW r, Passes(r, list), NEW k \in 0 .. Len(list)
  PROVE  /\ \A i \in Nat : i >= 1 /\ i >= Len(list) - k => r[k][i] = <<>>
         /\ \A i \in Nat : ToSet(r[k][i]) \subseteq ToSet(list)
         /\ \A c \in ToSet(list) : \E i \in Nat : c \in ToSet(r[k][i])
         /\ Distinct(list) =>
              \A i \in Nat :
                /\ Distinct(r[k][i])
                /\ \A j \in Nat : i # j =>
                     \A c \in ToSet(r[k][i]), d \in ToSet(r[k][j]) : c.name # d.name
<1> DEFINE N == Len(list)
           Used(n) == \A i \in Nat : i >= 1 /\ i >= N - n => r[n][i] = <<>>
           Within(n) == \A i \in Nat : ToSet(r[n][i]) \subseteq ToSet(list)
           Covers(n) == \A c \in ToSet(list) : \E i \in Nat : c \in ToSet(r[n][i])
           Apart(n) == \A i, j \in Nat : i # j =>
                         \A c \in ToSet(r[n][i]), d \in ToSet(r[n][j]) : c.name # d.name
           Singly(n) == Distinct(list) => Apart(n) /\ \A i \in Nat : Distinct(r[n][i])
           Kept(n) == Used(n) /\ Within(n) /\ Covers(n) /\ Singly(n)
<1>1. N \in Nat /\ DOMAIN list = 1 .. N /\ ToSet(<<>>) = {}
  BY DEF ToSet
<1>2. Kept(0)
  <2>2. ASSUME NEW i \in Nat, i < N
        PROVE  /\ r[0][i] = <<list[i + 1]>> /\ ToSet(r[0][i]) = {list[i + 1]}
               /\ i + 1 \in DOMAIN list /\ DOMAIN r[0][i] = 1 .. 1
    <3>1. r[0][i] = <<list[i + 1]>>
      BY <2>2, FirstPass, Zenon
    <3>2. DOMAIN <<list[i + 1]>> = 1 .. 1 /\ ToSet(<<list[i + 1]>>) = {list[i + 1]}
      BY DEF ToSet
    <3>3. i + 1 \in DOMAIN list
      BY <1>1, <2>2
    <3> QED
      BY <3>1, <3>2, <3>3, Zenon
  <2>3. ASSUME NEW i \in Nat, ~(i < N)
        PROVE  r[0][i] = <<>> /\ ToSet(r[0][i]) = {} /\ DOMAIN r[0][i] = {}
    <3>1. r[0][i] = <<>>
      BY <2>3, FirstPass, Zenon
    <3>2. DOMAIN <<>> = {}
      OBVIOUS
    <3> QED
      BY <1>1, <3>1, <3>2
  <2> HIDE DEF N
  <2>4. Used(0)
    <3> SUFFICES ASSUME NEW i \in Nat, i >= N - 0 PROVE r[0][i] = <<>>
      OBVIOUS
    <3>1. ~(i < N)
      BY <1>1
    <3> QED
      BY <2>3, <3>1
  <2>5. Within(0)
    <3> SUFFICES ASSUME NEW i \in Nat PROVE ToSet(r[0][i]) \subseteq ToSet(list)
      OBVIOUS
    <3>1. CASE i < N
      <4>1. ToSet(r[0][i]) = {list[i + 1]} /\ list[i + 1] \in ToSet(list)
        BY <2>2, <3>1 DEF ToSet
      <4> QED
        BY <4>1
    <3>2. CASE ~(i < N)
      BY <2>3, <3>2
    <3> QED
      BY <3>1, <3>2
  <2>6. Covers(0)
    <3> SUFFICES ASSUME NEW c \in ToSet(list) PROVE \E i \in Nat : c \in ToSet(r[0][i])
      OBVIOUS
    <3>1. PICK i \in 1 .. N : c = list[i]
      BY <1>1 DEF ToSet
    <3>2. i - 1 \in Nat /\ i - 1 < N /\ i - 1 + 1 = i
      BY <1>1
    <3>3. c \in ToSet(r[0][i - 1])
      BY <2>2, <3>1, <3>2
    <3> QED
      BY <3>2, <3>3
  <2>7. ASSUME Distinct(list) PROVE Apart(0)
    <3> SUFFICES ASSUME NEW i \in Nat, NEW j \in Nat, i # j,
                        NEW c \in ToSet(r[0][i]), NEW d \in ToSet(r[0][j])
                 PROVE  c.name # d.name
      OBVIOUS
    <3>1. i < N /\ j < N
      BY <2>3
    <3>2. c = list[i + 1] /\ d = list[j + 1] /\ i + 1 \in DOMAIN list /\ j + 1 \in DOMAIN list
      BY <2>2, <3>1
    <3>3. i + 1 # j + 1
      OBVIOUS
    <3> QED
      BY <2>7, <3>2, <3>3, Zenon DEF Distinct
  <2>8. \A i \in Nat : Distinct(r[0][i])
    <3> SUFFICES ASSUME NEW i \in Nat PROVE Distinct(r[0][i])
      OBVIOUS
    <3>1. CASE i < N
      <4>1. DOMAIN r[0][i] = 1 .. 1
        BY <2>2, <3>1
      <4>2. \A x, y \in 1 .. 1 : x = y
        OBVIOUS
      <4> QED
        BY <4>1, <4>2, Zenon DEF Distinct
    <3>2. CASE ~(i < N)
      <4>1. DOMAIN r[0][i] = {}
        BY <2>3, <3>2
      <4> QED
        BY <4>1, Zenon DEF Distinct
    <3> QED
      BY <3>1, <3>2
  <2> QED
    BY <2>4, <2>5, <2>6, <2>7, <2>8
<1>3. ASSUME NEW n \in 1 .. N, Kept(n - 1) PROVE Kept(n)
  <2> DEFINE p == r[n - 1]
             q == r[n]
  <2>1. ASSUME NEW i \in Nat
        PROVE  /\ 2 * i \in Nat /\ 2 * i + 1 \in Nat
               /\ p[2 * i] \in Seq(Clock) /\ p[2 * i + 1] \in Seq(Clock)
               /\ q[i] = Merge(p[2 * i], p[2 * i + 1])
    <3>1. n \in 1 .. Len(list)
      OBVIOUS
    <3> HIDE DEF p, q, N
    <3>2. /\ n - 1 \in 0 .. Len(list) /\ 2 * i \in Nat /\ 2 * i + 1 \in Nat
          /\ r[n - 1][2 * i] \in Seq(Clock) /\ r[n - 1][2 * i + 1] \in Seq(Clock)
          /\ r[n] = Pairwise(r[n - 1])
      BY <3>1, PassMerges
    <3> QED
      BY <3>2 DEF p, q, Pairwise
  <2>2. ASSUME NEW i \in Nat
        PROVE  /\ ToSet(q[i]) = ToSet(p[2 * i]) \cup ToSet(p[2 * i + 1])
               /\ p[2 * i + 1] = <<>> => q[i] = p[2 * i]
    <3>1. /\ p[2 * i] \in Seq(Clock) /\ p[2 * i + 1] \in Seq(Clock)
          /\ q[i] = Merge(p[2 * i], p[2 * i + 1])
      BY <2>1
    <3> HIDE DEF p, q
    <3>2. /\ ToSet(Merge(p[2 * i], p[2 * i + 1])) = ToSet(p[2 * i]) \cup ToSet(p[2 * i + 1])
          /\ p[2 * i + 1] = <<>> => Merge(p[2 * i], p[2 * i + 1]) = p[2 * i]
      BY <3>1, MergeKeeps
    <3> QED
      BY <3>1, <3>2
  <2>3. /\ \A i \in Nat : i >= 1 /\ i >= N - (n - 1) => p[i] = <<>>
        /\ \A i \in Nat : ToSet(p[i]) \subseteq ToSet(list)
        /\ \A c \in ToSet(list) : \E i \in Nat : c \in ToSet(p[i])
        /\ Distinct(list) => Apart(n - 1) /\ \A i \in Nat : Distinct(p[i])
    BY <1>3
  <2>4. Used(n)
    <3> SUFFICES ASSUME NEW i \in Nat, i >= 1, i >= N - n PROVE q[i] = <<>>
      OBVIOUS
    <3> HIDE DEF p, q, N
    <3>1. /\ 2 * i \in Nat /\ 2 * i >= 1 /\ 2 * i >= N - (n - 1)
          /\ 2 * i + 1 \in Nat /\ 2 * i + 1 >= 1 /\ 2 * i + 1 >= N - (n - 1)
      BY <1>1
    <3>2. p[2 * i] = <<>> /\ p[2 * i + 1] = <<>>
      BY <2>3, <3>1
    <3> QED
      BY <2>2, <3>2
  <2>5. Within(n)
    <3> SUFFICES ASSUME NEW i \in Nat PROVE ToSet(q[i]) \subseteq ToSet(list)
      OBVIOUS
    <3>1. ToSet(p[2 * i]) \subseteq ToSet(list) /\ ToSet(p[2 * i + 1]) \subseteq ToSet(list)
      BY <2>1, <2>3, Zenon
    <3> HIDE DEF p, q
    <3> QED
      BY <2>2, <3>1
  <2>6. Covers(n)
    <3> SUFFICES ASSUME NEW c \in ToSet(list) PROVE \E i \in Nat : c \in ToSet(q[i])
      OBVIOUS
    <3>1. PICK j \in Nat : c \in ToSet(p[j])
      BY <2>3
    <3>2. PICK i \in Nat : j = 2 * i \/ j = 2 * i + 1
      <4>1. j \div 2 \in Nat /\ (j = 2 * (j \div 2) \/ j = 2 * (j \div 2) + 1)
        OBVIOUS
      <4> QED
        BY <4>1
    <3> QED
      BY <2>2, <3>1, <3>2
  <2>7. ASSUME Distinct(list) PROVE Apart(n)
    <3> SUFFICES ASSUME NEW i \in Nat, NEW j \in Nat, i # j,
                        NEW c \in ToSet(q[i]), NEW d \in ToSet(q[j])
                 PROVE  c.name # d.name
      OBVIOUS
    <3>1. PICK x \in {2 * i, 2 * i + 1} : c \in ToSet(p[x])
      BY <2>2
    <3>2. PICK y \in {2 * j, 2 * j + 1} : d \in ToSet(p[y])
      BY <2>2
    <3>3. x \in Nat /\ y \in Nat /\ x # y
      OBVIOUS
    <3> QED
      BY <2>3, <2>7, <3>1, <3>2, <3>3
  <2>8. ASSUME Distinct(list), NEW i \in Nat PROVE Distinct(q[i])
    <3>1. 2 * i # 2 * i + 1
      OBVIOUS
    <3>2. \A c \in ToSet(p[2 * i]), d \in ToSet(p[2 * i + 1]) : c.name # d.name
      BY <2>1, <2>3, <2>8, <3>1
    <3>3. Distinct(p[2 * i]) /\ Distinct(p[2 * i + 1])
      BY <2>1, <2>3, <2>8
    <3>4. /\ p[2 * i] \in Seq(Clock) /\ p[2 * i + 1] \in Seq(Clock)
          /\ q[i] = Merge(p[2 * i], p[2 * i + 1])
      BY <2>1
    <3> HIDE DEF p, q
    <3>5. Distinct(Merge(p[2 * i], p[2 * i + 1]))
      BY <3>2, <3>3, <3>4, MergeKeeps, Zenon
    <3> QED
      BY <3>4, <3>5, Zenon
  <2> HIDE DEF p, q
  <2> QED
    BY <2>4, <2>5, <2>6, <2>7, <2>8 DEF q
<1>4. Kept(k)
  <2> DEFINE S == {n \in 0 .. N : Kept(n)}
  <2> HIDE DEF Kept
  <2>1. 0 \in S
    BY <1>1, <1>2
  <2>2. ASSUME NEW n \in 1 .. N, n - 1 \in S PROVE n \in S
    BY <1>1, <1>3, <2>2
  <2>3. 0 .. N \subseteq S
    <3> HIDE DEF S, N
    <3> QED
      BY <1>1, <2>1, <2>2, Induction
  <2> QED
    BY <1>1, <2>3
<1> QED
  BY <1>4

\* A list in which every clock is once has as many entries as clocks.
LEMMA DistinctLength ==
  ASSUME NEW s \in Seq(Clock), Distinct(s)
  PROVE  Len(s) = Cardinality(ToSet(s))
<1> DEFINE N == Len(s)
           at == [i \in 1 .. N |-> s[i]]
<1>1. /\ N \in Nat /\ DOMAIN s = 1 .. N
      /\ \A i \in 1 .. N : s[i] \in ToSet(s)
      /\ \A c \in ToSet(s) : \E i \in 1 .. N : s[i] = c
  BY ElementsOf
<1>2. at \in Bijection(1 .. N, ToSet(s))
  <2>1. \A i, j \in 1 .. N : at[i] = at[j] => i = j
    BY <1>1 DEF Distinct
  <2>2. at \in [1 .. N -> ToSet(s)] /\ \A c \in ToSet(s) : \E i \in 1 .. N : at[i] = c
    BY <1>1
  <2> HIDE DEF at
  <2> QED
    BY <2>1, <2>2, Fun_IsBij
<1>3. ExistsBijection(1 .. N, ToSet(s))
  BY <1>2 DEF ExistsBijection
<1>4. IsFiniteSet(1 .. N) /\ Cardinality(1 .. N) = N
  BY <1>1, FS_Interval
<1>5. Cardinality(ToSet(s)) = Cardinality(1 .. N)
  <2> HIDE DEF N
  <2> QED
    BY <1>3, <1>4, FS_Bijection
<1> QED
  BY <1>4, <1>5

\* The sort keeps the clocks, and that each is in the list once.
THEOREM SortKeeps ==
  ASSUME NEW list \in Seq(Clock)
  PROVE  /\ Sorted(list) \in Seq(Clock)
         /\ ToSet(Sorted(list)) = ToSet(list)
         /\ Distinct(list) => /\ Distinct(Sorted(list))
                              /\ Len(Sorted(list)) = Len(list)
<1>1. PICK r : Passes(r, list)
  BY SortedIs
<1> DEFINE N == Len(list)
<1>2. N \in 0 .. N /\ 0 \in Nat /\ ToSet(<<>>) = {}
  BY DEF ToSet
<1>3. Sorted(list) = r[N][0] /\ Sorted(list) \in Seq(Clock)
  <2>1. Sorted(list) = r[N][0] /\ r \in [0 .. N -> [Nat -> Seq(Clock)]]
    BY <1>1 DEF Passes
  <2> QED
    BY <1>2, <2>1
<1>4. /\ \A i \in Nat : i >= 1 /\ i >= N - N => r[N][i] = <<>>
      /\ ToSet(r[N][0]) \subseteq ToSet(list)
      /\ \A c \in ToSet(list) : \E i \in Nat : c \in ToSet(r[N][i])
      /\ Distinct(list) => Distinct(r[N][0])
  BY <1>1, <1>2, PassKeeps
<1>5. ASSUME NEW c \in ToSet(list) PROVE c \in ToSet(r[N][0])
  <2>1. PICK i \in Nat : c \in ToSet(r[N][i])
    BY <1>4
  <2>2. ~(i >= 1)
    <3>1. N - N = 0
      BY <1>2
    <3>2. i >= 1 => r[N][i] = <<>>
      BY <1>4, <3>1
    <3> QED
      BY <1>2, <2>1, <3>2
  <2>3. i = 0
    BY <2>2
  <2> QED
    BY <2>1, <2>3
<1>6. ToSet(Sorted(list)) = ToSet(list)
  BY <1>3, <1>4, <1>5
<1>7. ASSUME Distinct(list)
      PROVE  Distinct(Sorted(list)) /\ Len(Sorted(list)) = Len(list)
  <2>1. Distinct(Sorted(list))
    BY <1>3, <1>4, <1>7
  <2> QED
    BY <1>3, <1>6, <1>7, <2>1, DistinctLength
<1> QED
  BY <1>3, <1>6, <1>7

\* The enabled clocks of a sorted list are in the order of their events when the list
\* has at most three clocks, whichever of them are disabled, or when none is disabled.
\* With four clocks a disabled one may keep the merge from looking further, and a later
\* event comes out first.
THEOREM SortOrders ==
  ASSUME NEW list \in Seq(Clock), IdleAtZero(list),
         Len(list) <= 3 \/ \A c \in ToSet(list) : c.enabled
  PROVE  EnabledInOrder(Sorted(list))
<1>1. PICK r : Passes(r, list)
  BY SortedIs
<1> DEFINE N == Len(list)
           Few(k) == \A i \in Nat : /\ i >= 1 => Len(r[k][i]) <= 1
                                    /\ i >= 3 => r[k][i] = <<>>
           Kept(k) == /\ N <= 3 => Few(k)
                      /\ \A i \in Nat : EnabledInOrder(r[k][i])
<1>2. N \in Nat /\ N \in 0 .. N /\ 0 \in 0 .. N
  OBVIOUS
<1>3. ASSUME NEW k \in 0 .. N, NEW i \in Nat
      PROVE  IdleAtZero(r[k][i]) /\ (N <= 3 \/ \A c \in ToSet(r[k][i]) : c.enabled)
  <2>1. ToSet(r[k][i]) \subseteq ToSet(list)
    BY <1>1, PassKeeps
  <2> QED
    BY <2>1 DEF IdleAtZero
<1>4. Kept(0)
  <2>1. ASSUME NEW i \in Nat
        PROVE  (i < N => r[0][i] = <<list[i + 1]>>) /\ (~(i < N) => r[0][i] = <<>>)
    BY <1>1, FirstPass
  <2>2. ASSUME NEW i \in Nat
        PROVE  /\ Len(r[0][i]) <= 1 /\ DOMAIN r[0][i] = 1 .. Len(r[0][i])
               /\ Len(r[0][i]) \in Nat
    <3>1. CASE i < N
      <4>1. Len(<<list[i + 1]>>) = 1 /\ DOMAIN <<list[i + 1]>> = 1 .. 1
        OBVIOUS
      <4>2. r[0][i] = <<list[i + 1]>>
        BY <2>1, <3>1, Zenon
      <4> QED
        BY <4>1, <4>2
    <3>2. CASE ~(i < N)
      <4>1. Len(<<>>) = 0 /\ DOMAIN <<>> = 1 .. 0
        OBVIOUS
      <4>2. r[0][i] = <<>>
        BY <2>1, <3>2, Zenon
      <4> QED
        BY <4>1, <4>2
    <3> QED
      BY <3>1, <3>2
  <2>3. N <= 3 => \A i \in Nat : i >= 3 => r[0][i] = <<>>
    <3> HIDE DEF N
    <3> SUFFICES ASSUME N <= 3, NEW i \in Nat, i >= 3 PROVE r[0][i] = <<>>
      OBVIOUS
    <3>1. ~(i < N)
      BY <1>2
    <3> QED
      BY <2>1, <3>1, Zenon
  <2>4. ASSUME NEW i \in Nat PROVE EnabledInOrder(r[0][i])
    <3>1. \A x, y \in DOMAIN r[0][i] : ~(x < y)
      BY <2>2
    <3> QED
      BY <3>1, Zenon DEF EnabledInOrder
  <2> QED
    BY <2>2, <2>3, <2>4
<1>5. ASSUME NEW k \in 1 .. N, Kept(k - 1) PROVE Kept(k)
  <2> DEFINE p == r[k - 1]
             q == r[k]
  <2>1. ASSUME NEW i \in Nat
        PROVE  /\ 2 * i \in Nat /\ 2 * i + 1 \in Nat /\ k - 1 \in 0 .. N
               /\ p[2 * i] \in Seq(Clock) /\ p[2 * i + 1] \in Seq(Clock)
               /\ q[i] = Merge(p[2 * i], p[2 * i + 1])
    <3>1. k \in 1 .. Len(list)
      OBVIOUS
    <3> HIDE DEF p, q, N
    <3>2. /\ k - 1 \in 0 .. Len(list) /\ 2 * i \in Nat /\ 2 * i + 1 \in Nat
          /\ r[k - 1][2 * i] \in Seq(Clock) /\ r[k - 1][2 * i + 1] \in Seq(Clock)
          /\ r[k] = Pairwise(r[k - 1])
      BY <1>1, <3>1, PassMerges
    <3> QED
      BY <3>2 DEF p, q, N, Pairwise
  <2>2. /\ N <= 3 => \A i \in Nat : /\ i >= 1 => Len(p[i]) <= 1
                                    /\ i >= 3 => p[i] = <<>>
        /\ \A i \in Nat : EnabledInOrder(p[i])
    BY <1>5
  <2>3. ASSUME N <= 3, NEW i \in Nat
        PROVE  /\ i >= 1 => Len(q[i]) <= 1
               /\ i >= 3 => q[i] = <<>>
    <3> SUFFICES ASSUME i >= 1
                 PROVE  Len(q[i]) <= 1 /\ (i >= 3 => q[i] = <<>>)
      OBVIOUS
    <3>1. /\ p[2 * i] \in Seq(Clock) /\ p[2 * i + 1] \in Seq(Clock)
          /\ q[i] = Merge(p[2 * i], p[2 * i + 1])
      BY <2>1
    <3>2. 2 * i \in Nat /\ 2 * i + 1 \in Nat /\ 2 * i >= 1 /\ 2 * i + 1 >= 3
          /\ (i >= 3 => 2 * i >= 3)
      OBVIOUS
    <3>3. p[2 * i + 1] = <<>> /\ Len(p[2 * i]) <= 1 /\ (i >= 3 => p[2 * i] = <<>>)
      BY <2>2, <2>3, <3>2, Zenon
    <3> HIDE DEF p, q
    <3>4. q[i] = p[2 * i]
      BY <3>1, <3>3, MergeKeeps, Zenon
    <3> QED
      BY <3>3, <3>4, Zenon
  <2>4. ASSUME NEW i \in Nat PROVE EnabledInOrder(q[i])
    <3> DEFINE a == p[2 * i]
               b == p[2 * i + 1]
    <3>1. /\ a \in Seq(Clock) /\ b \in Seq(Clock) /\ q[i] = Merge(a, b)
          /\ k - 1 \in 0 .. N /\ 2 * i \in Nat /\ 2 * i + 1 \in Nat
      BY <2>1, Zenon
    <3>2. EnabledInOrder(a) /\ EnabledInOrder(b)
      BY <2>2, <3>1, Zenon
    <3>3. IdleAtZero(a) /\ IdleAtZero(b) /\ (N <= 3 \/ \A c \in ToSet(b) : c.enabled)
      BY <1>3, <3>1
    <3>4. N <= 3 => Len(b) <= 1
      <4>1. 2 * i + 1 >= 1
        OBVIOUS
      <4> QED
        BY <2>2, <3>1, <4>1, Zenon
    <3> HIDE DEF a, b, q
    <3>6. Len(b) <= 1 \/ (EnabledInOrder(b) /\ \A c \in ToSet(b) : c.enabled)
      BY <3>2, <3>3, <3>4, Zenon
    <3>5. EnabledInOrder(Merge(a, b))
      BY <3>1, <3>2, <3>3, <3>6, MergeKeeps
    <3> QED
      BY <3>1, <3>5, Zenon
  <2> HIDE DEF p, q
  <2> QED
    BY <2>3, <2>4 DEF q
<1>6. Kept(N)
  <2> DEFINE S == {n \in 0 .. N : Kept(n)}
  <2> HIDE DEF Kept
  <2>1. 0 \in S
    BY <1>2, <1>4
  <2>2. ASSUME NEW n \in 1 .. N, n - 1 \in S PROVE n \in S
    BY <1>2, <1>5, <2>2
  <2>3. 0 .. N \subseteq S
    <3> HIDE DEF S, N
    <3> QED
      BY <1>2, <2>1, <2>2, Induction
  <2> QED
    BY <1>2, <2>3
<1>7. Sorted(list) = r[N][0] /\ 0 \in Nat
  BY <1>1 DEF Passes
<1> QED
  BY <1>6, <1>7

-----------------------------------------------------------------------------
(* The clock map.                                                           *)

\* A list with one clock of every name.
Complete(list) ==
  /\ list \in Seq(Clock) /\ Distinct(list)
  /\ {c.name : c \in ToSet(list)} = Clocks

\* A complete clock map has one entry per clock.
LEMMA CompleteLength ==
  ASSUME NEW list, Complete(list)
  PROVE  Len(list) = Cardinality(Clocks)
<1> DEFINE N == Len(list)
           name == [i \in 1 .. N |-> list[i].name]
<1>1. /\ N \in Nat /\ DOMAIN list = 1 .. N
      /\ \A i \in 1 .. N : list[i] \in ToSet(list) /\ list[i].name \in Clocks
      /\ \A n \in Clocks : \E i \in 1 .. N : list[i].name = n
  BY ElementsOf DEF Complete
<1>2. name \in [1 .. N -> Clocks]
  BY <1>1
<1>3. name \in Bijection(1 .. N, Clocks)
  <2>1. /\ \A i, j \in 1 .. N : name[i] = name[j] => i = j
        /\ \A n \in Clocks : \E i \in 1 .. N : name[i] = n
    BY <1>1 DEF Complete, Distinct
  <2> HIDE DEF name
  <2> QED
    BY <1>2, <2>1, Fun_IsBij
<1>4. ExistsBijection(1 .. N, Clocks)
  BY <1>3 DEF ExistsBijection
<1>5. IsFiniteSet(1 .. N) /\ Cardinality(1 .. N) = N
  BY <1>1, FS_Interval
<1>6. Cardinality(Clocks) = Cardinality(1 .. N)
  <2> HIDE DEF N
  <2> QED
    BY <1>4, <1>5, FS_Bijection
<1> QED
  BY <1>5, <1>6

\* The evaluation of a clock is a clock of the same name.
LEMMA EvalType ==
  ASSUME NEW c \in Clock, NEW t \in Nat
  PROVE  Eval(c, t) \in Clock /\ Eval(c, t).name = c.name
<1>1. /\ c.next + c.high \in Nat /\ c.next + c.low \in Nat
      /\ c \in Clock
  BY DEF Clock
<1>2. CASE ~IsDue(c, t)
  BY <1>1, <1>2 DEF Eval
<1>3. CASE IsDue(c, t) /\ c.value = 0
  <2>1. Eval(c, t) = [c EXCEPT !.value = 1, !.next = c.next + c.high]
    BY <1>3 DEF Eval
  <2> QED
    BY <1>1, <2>1 DEF Clock
<1>4. CASE IsDue(c, t) /\ c.value # 0 /\ c.waiting
  <2>1. Stopped(c) \in Clock /\ Stopped(c).name = c.name
    BY <1>1 DEF Stopped, Clock
  <2>2. Eval(c, t) = [Stopped(c) EXCEPT !.waiting = FALSE, !.value = 0]
    BY <1>4 DEF Eval
  <2> QED
    BY <2>1, <2>2 DEF Clock
<1>5. CASE IsDue(c, t) /\ c.value # 0 /\ ~c.waiting
  <2>1. Eval(c, t) = [c EXCEPT !.value = 0, !.next = c.next + c.low]
    BY <1>5 DEF Eval
  <2> QED
    BY <1>1, <2>1 DEF Clock
<1> QED
  BY <1>2, <1>3, <1>4, <1>5

\* A round replaces the head by its evaluation.
LEMMA RoundKeeps ==
  ASSUME NEW list, Complete(list), list # <<>>, NEW t \in Nat
  PROVE  /\ Complete(Round(list, t))
         /\ list[1] \in ToSet(list) /\ Head(list) = list[1]
         /\ ToSet(Round(list, t)) = (ToSet(list) \ {list[1]}) \cup {Eval(list[1], t)}
<1> DEFINE N == Len(list)
           q == [list EXCEPT ![1] = Eval(@, t)]
<1>1. /\ N \in Nat \ {0} /\ DOMAIN list = 1 .. N /\ 1 \in 1 .. N
      /\ \A i \in 1 .. N : list[i] \in Clock
      /\ list \in Seq(Clock) /\ Distinct(list) /\ Head(list) = list[1]
  BY DEF Complete
<1>2. Eval(list[1], t) \in Clock /\ Eval(list[1], t).name = list[1].name
  BY <1>1, EvalType
<1>3. q \in Seq(Clock) /\ Len(q) = N /\ DOMAIN q = 1 .. N
  BY <1>1, <1>2
<1>4. q[1] = Eval(list[1], t) /\ \A i \in 1 .. N : i # 1 => q[i] = list[i]
  BY <1>1, <1>2
<1>5. Round(list, t) = Sorted(q)
  BY Zenon DEF Round
<1> HIDE DEF q, N
<1>11. \A i \in 1 .. N : q[i].name = list[i].name
  BY <1>2, <1>4
<1>6. Distinct(q)
  BY <1>1, <1>3, <1>11 DEF Distinct
<1>7. ToSet(q) = (ToSet(list) \ {list[1]}) \cup {Eval(list[1], t)}
  <2>1. \A i \in 1 .. N : i # 1 => list[i] # list[1]
    BY <1>1 DEF Distinct
  <2>2. ToSet(list) \ {list[1]} = {list[i] : i \in 2 .. N}
    BY <1>1, <2>1 DEF ToSet
  <2>3. ToSet(q) = {list[i] : i \in 2 .. N} \cup {Eval(list[1], t)}
    BY <1>1, <1>3, <1>4 DEF ToSet
  <2> QED
    BY <2>2, <2>3
<1>8. {c.name : c \in ToSet(q)} = {c.name : c \in ToSet(list)}
  BY <1>1, <1>3, <1>11 DEF ToSet
<1>9. /\ Sorted(q) \in Seq(Clock) /\ ToSet(Sorted(q)) = ToSet(q)
      /\ Distinct(Sorted(q))
  BY <1>3, <1>6, SortKeeps
<1>10. list[1] \in ToSet(list)
  BY <1>1 DEF ToSet
<1> QED
  BY <1>1, <1>5, <1>7, <1>8, <1>9, <1>10 DEF Complete

\* Two clocks of a list with the same name are the same.
LEMMA OneOfAName ==
  ASSUME NEW list, Complete(list), NEW c \in ToSet(list), NEW d \in ToSet(list),
         c.name = d.name
  PROVE  c = d
  BY ElementsOf DEF Complete, Distinct

-----------------------------------------------------------------------------
(* The evaluation ends.                                                     *)

\* The toggles that are still to come at time t: a low clock may be due twice.
Pending(list, t) ==
  {p \in Clocks \X {1, 2} :
     \E c \in ToSet(list) : c.name = p[1] /\ IsDue(c, t) /\ (p[2] = 2 => c.value = 0)}

\* A clock that is due rises, or falls and is due no more.
LEMMA EvalDue ==
  ASSUME NEW c \in Clock, NEW t \in Nat, IsDue(c, t)
  PROVE  /\ c.value \in {0, 1}
         /\ c.value = 0 => Eval(c, t).value = 1
         /\ c.value = 1 => ~IsDue(Eval(c, t), t)
<1>1. c.next \in Nat /\ c.low \in Nat \ {0} /\ c.next = t /\ c.value \in {0, 1} /\ c \in Clock
  BY DEF Clock, IsDue
<1>2. CASE c.value = 0
  <2>1. Eval(c, t) = [c EXCEPT !.value = 1, !.next = c.next + c.high]
    BY <1>2 DEF Eval
  <2> QED
    BY <1>1, <1>2, <2>1 DEF Clock
<1>3. CASE c.value = 1 /\ c.waiting
  <2>1. Stopped(c) \in Clock /\ Stopped(c).enabled = FALSE
    BY <1>1 DEF Stopped, Clock
  <2>2. Eval(c, t) = [Stopped(c) EXCEPT !.waiting = FALSE, !.value = 0]
    BY <1>3 DEF Eval
  <2>3. Eval(c, t).enabled = FALSE
    BY <2>1, <2>2 DEF Clock
  <2> QED
    BY <1>3, <2>3 DEF IsDue
<1>4. CASE c.value = 1 /\ ~c.waiting
  <2>1. Eval(c, t) = [c EXCEPT !.value = 0, !.next = c.next + c.low]
    BY <1>4 DEF Eval
  <2>2. Eval(c, t).next = t + c.low
    BY <1>1, <2>1 DEF Clock
  <2> QED
    BY <1>1, <1>4, <2>2 DEF IsDue
<1> QED
  BY <1>1, <1>2, <1>3, <1>4

\* A round leaves strictly fewer toggles to come.
LEMMA RoundShrinks ==
  ASSUME NEW list, Complete(list), NEW t \in Nat, FrontDue(list, t)
  PROVE  /\ Complete(Round(list, t))
         /\ Pending(list, t) # {}
         /\ Pending(Round(list, t), t) \subseteq Pending(list, t)
         /\ Pending(Round(list, t), t) # Pending(list, t)
<1> DEFINE c == list[1]
           e == Eval(c, t)
           q == Round(list, t)
           p == <<c.name, IF c.value = 0 THEN 2 ELSE 1>>
<1>1. /\ Complete(q) /\ c \in ToSet(list) /\ IsDue(c, t)
      /\ ToSet(q) = (ToSet(list) \ {c}) \cup {e}
  BY RoundKeeps DEF FrontDue
<1>2. c \in Clock /\ c.name \in Clocks
  BY <1>1, ElementsOf DEF Complete
<1>3. e.name = c.name
  BY <1>2, EvalType
<1>4. c.value \in {0, 1} /\ (c.value = 0 => e.value = 1) /\ (c.value = 1 => ~IsDue(e, t))
  BY <1>1, <1>2, EvalDue
<1>5. \A d \in ToSet(q) : d.name = c.name => d = e
  BY <1>1, OneOfAName
<1> HIDE DEF c, e, q
<1>6. p \in Pending(list, t)
  <2>1. p \in Clocks \X {1, 2} /\ p[1] = c.name /\ (p[2] = 2 => c.value = 0)
    BY <1>2
  <2> QED
    BY <1>1, <2>1 DEF Pending
<1>7. p \notin Pending(q, t)
  BY <1>4, <1>5 DEF Pending
<1>8. ASSUME NEW x \in Pending(q, t) PROVE x \in Pending(list, t)
  <2>1. PICK d \in ToSet(q) : d.name = x[1] /\ IsDue(d, t) /\ (x[2] = 2 => d.value = 0)
    BY DEF Pending
  <2>2. CASE d = e
    <3>1. c.value = 0 /\ x[2] # 2
      BY <1>4, <2>1, <2>2
    <3> QED
      BY <1>1, <1>3, <2>1, <2>2, <3>1 DEF Pending
  <2>3. CASE d # e
    BY <1>1, <2>1, <2>3 DEF Pending
  <2> QED
    BY <2>2, <2>3
<1> QED
  BY <1>1, <1>6, <1>7, <1>8 DEF q

\* A round makes a list of clocks.
LEMMA RoundType ==
  ASSUME NEW list \in Seq(Clock), NEW t \in Nat
  PROVE  Round(list, t) \in Seq(Clock)
<1> DEFINE q == [list EXCEPT ![1] = Eval(@, t)]
<1>1. q \in Seq(Clock)
  <2>1. CASE list = <<>>
    <3>1. q = list
      BY <2>1
    <3> QED
      BY <3>1
  <2>2. CASE list # <<>>
    <3>1. Eval(list[1], t) \in Clock
      BY <2>2, EvalType
    <3> QED
      BY <2>2, <3>1
  <2> QED
    BY <2>1, <2>2
<1> HIDE DEF q
<1>2. Sorted(q) \in Seq(Clock)
  BY <1>1, SortKeeps
<1> QED
  BY <1>2 DEF Round, q

\* There are at most two toggles to come for each clock.
LEMMA AtMost ==
  ASSUME NEW list, Complete(list), NEW t \in Nat
  PROVE  /\ IsFiniteSet(Pending(list, t))
         /\ Cardinality(Pending(list, t)) \in Nat
         /\ Cardinality(Pending(list, t)) <= 2 * Cardinality(Clocks)
<1>1. IsFiniteSet(Clocks)
  BY ClocksAssumption
<1>2. IsFiniteSet(1 .. 2) /\ Cardinality(1 .. 2) = 2 /\ 1 .. 2 = {1, 2}
  <2>1. 1 \in Int /\ 2 \in Int
    OBVIOUS
  <2>2. IsFiniteSet(1 .. 2) /\ Cardinality(1 .. 2) = IF 1 > 2 THEN 0 ELSE 2 - 1 + 1
    BY <2>1, FS_Interval, Zenon
  <2> QED
    BY <2>2
<1>3. /\ IsFiniteSet(Clocks \X {1, 2})
      /\ Cardinality(Clocks \X {1, 2}) = Cardinality(Clocks) * Cardinality({1, 2})
  BY <1>1, <1>2, FS_Product, Zenon
<1>4. Cardinality(Clocks) \in Nat /\ Cardinality({1, 2}) = 2
  BY <1>1, <1>2, FS_CardinalityType, Zenon
<1>5. Cardinality(Clocks \X {1, 2}) = 2 * Cardinality(Clocks)
  BY <1>3, <1>4
<1>6. Pending(list, t) \in SUBSET (Clocks \X {1, 2})
  BY DEF Pending
<1>7. /\ IsFiniteSet(Pending(list, t))
      /\ Cardinality(Pending(list, t)) <= Cardinality(Clocks \X {1, 2})
  BY <1>3, <1>6, FS_Subset, Zenon
<1> QED
  BY <1>5, <1>7, FS_CardinalityType, Zenon

\* r lists what n rounds make of the list until its head is not due.
Rounds(r, n, list, t) ==
  /\ r[0] = list
  /\ \A m \in 1 .. n : FrontDue(r[m - 1], t) /\ r[m] = Round(r[m - 1], t)
  /\ ~FrontDue(r[n], t)
  /\ EvalAll(list, t) = Sorted(r[n])

\* The evaluation of a clock map ends after at most two rounds per clock.
THEOREM EvalAllIs ==
  ASSUME NEW list, Complete(list), NEW t \in Nat
  PROVE  \E n \in 0 .. 2 * Len(list) : \E r \in [0 .. n -> Seq(Clock)] : Rounds(r, n, list, t)
<1> DEFINE N == 2 * Len(list)
           step == [n \in 1 .. N |-> [l \in Seq(Clock) |-> Round(l, t)]]
           round == CHOOSE f : f = [n \in 0 .. N |-> IF n = 0 THEN list
                                                     ELSE Round(f[n - 1], t)]
           done == CHOOSE n \in 0 .. N :
                     ~FrontDue(round[n], t) /\ \A m \in 0 .. n - 1 : FrontDue(round[m], t)
<1>1. N \in Nat /\ list \in Seq(Clock) /\ N = 2 * Cardinality(Clocks)
  <2>1. Len(list) \in Nat /\ Len(list) = Cardinality(Clocks)
    BY CompleteLength DEF Complete
  <2> QED
    BY <2>1 DEF Complete
<1>2. step \in [1 .. N -> [Seq(Clock) -> Seq(Clock)]]
  BY RoundType
<1>3. \A n \in 1 .. N, l \in Seq(Clock) : step[n][l] = Round(l, t)
  OBVIOUS
<1>4. EvalAll(list, t) = Sorted(round[done])
  BY Zenon DEF EvalAll
<1> HIDE DEF step, N
<1>5. PICK r \in [0 .. N -> Seq(Clock)] : Recurs(r, N, Seq(Clock), list, step)
  BY <1>1, <1>2, Recursion
<1>6. r[0] = list /\ \A n \in 1 .. N : r[n] = Round(r[n - 1], t)
  <2>1. \A n \in 1 .. N : r[n - 1] \in Seq(Clock)
    BY <1>1
  <2> QED
    BY <1>3, <1>5, <2>1 DEF Recurs
<1>7. round = [n \in 0 .. N |-> IF n = 0 THEN list ELSE Round(round[n - 1], t)]
  <2>1. r = [n \in 0 .. N |-> IF n = 0 THEN list ELSE Round(r[n - 1], t)]
    BY <1>1, <1>6
  <2> QED
    BY <2>1, Zenon
<1> HIDE DEF round
<1>8. \A n \in 0 .. N : round[n] = r[n]
  <2>1. \A n \in 0 .. N : round[n] = IF n = 0 THEN list ELSE Round(round[n - 1], t)
    BY <1>7, Zenon
  <2>2. round[0] = list /\ \A n \in 1 .. N : round[n] = Round(round[n - 1], t)
    BY <1>1, <2>1
  <2>3. Recurs(round, N, Seq(Clock), list, step)
    BY <1>3, <2>2 DEF Recurs
  <2> HIDE DEF done
  <2> DEFINE T == Seq(Clock)
  <2>4. /\ N \in Nat /\ r \in [0 .. N -> T]
        /\ Recurs(r, N, T, list, step) /\ Recurs(round, N, T, list, step)
    BY <1>1, <1>5, <2>3
  <2> HIDE DEF T
  <2> QED
    BY <2>4, OneRecursion
<1> DEFINE Ends == {n \in 0 .. N : ~FrontDue(r[n], t)}
<1>9. Ends # {}
  <2> SUFFICES ASSUME \A n \in 0 .. N : FrontDue(r[n], t) PROVE FALSE
    OBVIOUS
  <2> DEFINE left(n) == Cardinality(Pending(r[n], t))
             Bounded == {n \in 0 .. N : Complete(r[n]) /\ left(n) <= N - n}
  <2>1. 0 \in Bounded
    BY <1>1, <1>6, AtMost
  <2>2. ASSUME NEW n \in 1 .. N, n - 1 \in Bounded PROVE n \in Bounded
    <3>1. /\ n - 1 \in 0 .. N /\ Complete(r[n - 1]) /\ left(n - 1) <= N - (n - 1)
          /\ FrontDue(r[n - 1], t) /\ r[n] = Round(r[n - 1], t)
      BY <1>1, <1>6, <2>2
    <3>2. /\ Complete(r[n]) /\ Pending(r[n], t) \subseteq Pending(r[n - 1], t)
          /\ Pending(r[n], t) # Pending(r[n - 1], t)
      BY <3>1, RoundShrinks
    <3>3. left(n) \in Nat /\ left(n - 1) \in Nat /\ IsFiniteSet(Pending(r[n - 1], t))
      BY <3>1, <3>2, AtMost
    <3>4. left(n) <= left(n - 1) /\ left(n) # left(n - 1)
      BY <3>2, <3>3, FS_Subset, Zenon
    <3> QED
      BY <1>1, <3>1, <3>2, <3>3, <3>4
  <2>3. 0 .. N \subseteq Bounded
    <3> HIDE DEF Bounded
    <3> QED
      BY <1>1, <2>1, <2>2, Induction
  <2>4. N \in 0 .. N /\ Complete(r[N]) /\ left(N) <= 0 /\ FrontDue(r[N], t)
    BY <1>1, <2>3
  <2>5. IsFiniteSet(Pending(r[N], t)) /\ left(N) \in Nat /\ Pending(r[N], t) # {}
    BY <2>4, AtMost, RoundShrinks
  <2>6. left(N) = 0
    BY <2>4, <2>5
  <2> QED
    BY <2>5, <2>6, FS_EmptySet, Zenon
<1>10. PICK n \in Ends : \A m \in Ends : n <= m
  <2>1. Ends \in SUBSET Nat
    BY <1>1
  <2> HIDE DEF Ends
  <2> QED
    BY <1>9, <2>1, Least
<1>11. /\ n \in 0 .. N /\ ~FrontDue(round[n], t)
       /\ \A m \in 0 .. n - 1 : FrontDue(round[m], t)
  <2>1. n \in 0 .. N /\ ~FrontDue(r[n], t)
    BY <1>10
  <2>2. ASSUME NEW m \in 0 .. n - 1 PROVE FrontDue(r[m], t)
    <3>1. m \in 0 .. N /\ ~(n <= m)
      BY <1>1, <2>1
    <3> QED
      BY <1>10, <3>1
  <2> QED
    BY <1>1, <1>8, <2>1, <2>2
<1>12. /\ done \in 0 .. N /\ ~FrontDue(round[done], t)
       /\ \A m \in 0 .. done - 1 : FrontDue(round[m], t)
  BY <1>11, Zenon
<1> HIDE DEF done
<1> DEFINE q == [m \in 0 .. done |-> r[m]]
<1>13. q \in [0 .. done -> Seq(Clock)]
  BY <1>1, <1>12
<1>14. /\ q[0] = list
       /\ \A m \in 1 .. done : FrontDue(q[m - 1], t) /\ q[m] = Round(q[m - 1], t)
       /\ ~FrontDue(q[done], t)
       /\ EvalAll(list, t) = Sorted(q[done])
  <2>1. q[0] = list /\ q[done] = round[done]
    BY <1>1, <1>6, <1>8, <1>12
  <2>2. ASSUME NEW m \in 1 .. done
        PROVE  FrontDue(q[m - 1], t) /\ q[m] = Round(q[m - 1], t)
    <3>1. /\ m - 1 \in 0 .. done - 1 /\ m - 1 \in 0 .. N /\ m \in 1 .. N
          /\ q[m - 1] = r[m - 1] /\ q[m] = r[m]
      BY <1>1, <1>12
    <3>2. FrontDue(r[m - 1], t)
      BY <1>8, <1>12, <3>1
    <3>3. r[m] = Round(r[m - 1], t)
      BY <1>6, <3>1
    <3> QED
      BY <3>1, <3>2, <3>3
  <2> QED
    BY <1>4, <1>12, <2>1, <2>2
<1> HIDE DEF q
<1>15. Rounds(q, done, list, t)
  BY <1>14, Zenon DEF Rounds
<1> QED
  BY <1>12, <1>13, <1>15, Zenon DEF N

-----------------------------------------------------------------------------
(* What the operations on the clock map keep.                               *)

\* Evaluation sorts a complete map in which each clock is as its own evaluation leaves
\* it, and one that is not due is as it was.
LEMMA EvalAllSorts ==
  ASSUME NEW list, Complete(list), NEW t \in Nat, NEW K,
         ToSet(list) \subseteq K, \A c \in K : Eval(c, t) \in K
  PROVE  \E l : /\ EvalAll(list, t) = Sorted(l)
                /\ Complete(l) /\ ToSet(l) \subseteq K
                /\ \A c \in ToSet(list) : ~IsDue(c, t) => c \in ToSet(l)
<1>1. PICK n \in 0 .. 2 * Len(list) :
        \E r \in [0 .. n -> Seq(Clock)] : Rounds(r, n, list, t)
  BY EvalAllIs
<1>0. n \in Nat
  BY ElementsOf DEF Complete
<1>2. PICK r \in [0 .. n -> Seq(Clock)] :
        /\ r[0] = list
        /\ \A m \in 1 .. n : FrontDue(r[m - 1], t) /\ r[m] = Round(r[m - 1], t)
        /\ ~FrontDue(r[n], t)
        /\ EvalAll(list, t) = Sorted(r[n])
  BY <1>1, Zenon DEF Rounds
<1> DEFINE Kept(l) == /\ Complete(l) /\ ToSet(l) \subseteq K
                      /\ \A c \in ToSet(list) : ~IsDue(c, t) => c \in ToSet(l)
           Good == {m \in 0 .. n : Kept(r[m])}
<1>3. 0 \in Good
  BY <1>2
<1>4. ASSUME NEW m \in 1 .. n, m - 1 \in Good PROVE m \in Good
  <2> DEFINE l == r[m - 1]
             q == r[m]
  <2>1. Kept(l) /\ FrontDue(l, t) /\ q = Round(l, t)
    BY <1>2, <1>4
  <2>2. /\ Complete(q) /\ l[1] \in ToSet(l) /\ IsDue(l[1], t)
        /\ ToSet(q) = (ToSet(l) \ {l[1]}) \cup {Eval(l[1], t)}
    BY <2>1, RoundKeeps DEF FrontDue
  <2> HIDE DEF l, q
  <2>3. Kept(q)
    BY <2>1, <2>2
  <2> QED
    BY <2>3 DEF q
<1>5. 0 .. n \subseteq Good
  <2> HIDE DEF Good
  <2> QED
    BY <1>0, <1>3, <1>4, Induction
<1>6. Kept(r[n])
  BY <1>0, <1>5
<1> QED
  BY <1>2, <1>6, Zenon

\* Evaluation keeps the map complete, keeps what each clock's own evaluation keeps,
\* and leaves a clock that is not due as it is.
THEOREM EvalAllKeeps ==
  ASSUME NEW list, Complete(list), NEW t \in Nat, NEW K,
         ToSet(list) \subseteq K, \A c \in K : Eval(c, t) \in K
  PROVE  /\ Complete(EvalAll(list, t)) /\ ToSet(EvalAll(list, t)) \subseteq K
         /\ \A c \in ToSet(list) : ~IsDue(c, t) => c \in ToSet(EvalAll(list, t))
<1>1. PICK l : /\ EvalAll(list, t) = Sorted(l)
               /\ Complete(l) /\ ToSet(l) \subseteq K
               /\ \A c \in ToSet(list) : ~IsDue(c, t) => c \in ToSet(l)
  BY EvalAllSorts
<1>2. Sorted(l) \in Seq(Clock) /\ Distinct(Sorted(l)) /\ ToSet(Sorted(l)) = ToSet(l)
  BY <1>1, SortKeeps DEF Complete
<1> QED
  BY <1>1, <1>2 DEF Complete

\* Clocks that cannot be overtaken by a disabled one: there is one at most, or all
\* are enabled and stay so.
Steady(list) ==
  Len(list) <= 1 \/ \A c \in ToSet(list) : c.enabled /\ ~c.waiting

\* After an evaluation the enabled clocks are in the order of their events, and none
\* of these is past unless it was before: with at most three clocks, or with any number
\* of them that are enabled and stay so.
THEOREM EvalAllOrders ==
  ASSUME NEW list, Complete(list), NEW t \in Nat, IdleAtZero(list),
         \A c \in ToSet(list) : c.enabled => c.next >= t,
         Len(list) <= 3 \/ Steady(list)
  PROVE  /\ EnabledInOrder(EvalAll(list, t)) /\ IdleAtZero(EvalAll(list, t))
         /\ \A c \in ToSet(EvalAll(list, t)) : c.enabled => c.next >= t
<1> DEFINE Held == \A c \in ToSet(list) : c.enabled /\ ~c.waiting
           K == {c \in Clock : /\ IF c.enabled THEN c.next >= t ELSE c.next = 0
                               /\ Held => c.enabled /\ ~c.waiting}
<1>0. Len(list) \in Nat /\ (Len(list) <= 3 \/ Held)
  BY ElementsOf DEF Complete, Steady
<1>2. ToSet(list) \subseteq K
  BY ElementsOf DEF Complete, IdleAtZero
<1> HIDE DEF Held
<1>1. ASSUME NEW c \in K PROVE Eval(c, t) \in K
  <2>1. Eval(c, t) \in Clock /\ c \in Clock
    BY EvalType
  <2>2. CASE ~IsDue(c, t)
    BY <2>2 DEF Eval
  <2>3. CASE IsDue(c, t) /\ c.value = 0
    <3>1. Eval(c, t) = [c EXCEPT !.value = 1, !.next = c.next + c.high]
      BY <2>3 DEF Eval
    <3>2. /\ Eval(c, t).enabled = c.enabled /\ Eval(c, t).next = c.next + c.high
          /\ Eval(c, t).waiting = c.waiting
      BY <2>1, <3>1 DEF Clock
    <3>3. c.enabled /\ c.next = t /\ c.high \in Nat
      BY <2>1, <2>3 DEF IsDue, Clock
    <3>4. Eval(c, t).enabled /\ Eval(c, t).next >= t
      BY <3>2, <3>3
    <3> QED
      BY <2>1, <3>2, <3>4
  <2>4. CASE IsDue(c, t) /\ c.value # 0 /\ c.waiting
    <3>1. Stopped(c) \in Clock /\ Stopped(c).enabled = FALSE /\ Stopped(c).next = 0
      BY <2>1 DEF Stopped, Clock
    <3>2. Eval(c, t) = [Stopped(c) EXCEPT !.waiting = FALSE, !.value = 0]
      BY <2>4 DEF Eval
    <3>3. Eval(c, t).enabled = FALSE /\ Eval(c, t).next = 0
      BY <3>1, <3>2 DEF Clock
    <3> QED
      BY <2>1, <2>4, <3>3
  <2>5. CASE IsDue(c, t) /\ c.value # 0 /\ ~c.waiting
    <3>1. Eval(c, t) = [c EXCEPT !.value = 0, !.next = c.next + c.low]
      BY <2>5 DEF Eval
    <3>2. /\ Eval(c, t).enabled = c.enabled /\ Eval(c, t).next = c.next + c.low
          /\ Eval(c, t).waiting = c.waiting
      BY <2>1, <3>1 DEF Clock
    <3>3. c.enabled /\ c.next = t /\ c.low \in Nat
      BY <2>1, <2>5 DEF IsDue, Clock
    <3>4. Eval(c, t).enabled /\ Eval(c, t).next >= t
      BY <3>2, <3>3
    <3> QED
      BY <2>1, <3>2, <3>4
  <2> QED
    BY <2>2, <2>3, <2>4, <2>5
<1> HIDE DEF K
<1>3. ToSet(EvalAll(list, t)) \subseteq K
  BY <1>1, <1>2, EvalAllKeeps
<1>4. IdleAtZero(EvalAll(list, t)) /\ \A c \in ToSet(EvalAll(list, t)) : c.enabled => c.next >= t
  BY <1>3 DEF IdleAtZero, K
<1>5. EnabledInOrder(EvalAll(list, t))
  <2>1. PICK l : EvalAll(list, t) = Sorted(l) /\ Complete(l) /\ ToSet(l) \subseteq K
    BY <1>1, <1>2, EvalAllSorts
  <2>2. l \in Seq(Clock) /\ IdleAtZero(l) /\ (Held => \A c \in ToSet(l) : c.enabled)
    BY <2>1 DEF Complete, IdleAtZero, K
  <2>3. Len(l) = Len(list)
    BY <2>1, CompleteLength
  <2>4. Len(l) <= 3 \/ \A c \in ToSet(l) : c.enabled
    BY <1>0, <2>2, <2>3
  <2> QED
    BY <2>1, <2>2, <2>4, SortOrders
<1> QED
  BY <1>4, <1>5

\* A sorted list is in order when it has one clock or all are enabled.
LEMMA SortedInOrder ==
  ASSUME NEW list \in Seq(Clock),
         Len(list) <= 1 \/ \A c \in ToSet(list) : c.enabled
  PROVE  Ordered(Sorted(list))
<1>1. CASE Len(list) <= 1
  <2>3. Distinct(list)
    <3>1. Len(list) \in Nat /\ DOMAIN list = 1 .. Len(list)
      OBVIOUS
    <3>2. \A i, j \in DOMAIN list : i = j
      BY <1>1, <3>1
    <3> QED
      BY <3>2, Zenon DEF Distinct
  <2>1. Sorted(list) \in Seq(Clock) /\ Len(Sorted(list)) <= 1
    BY <1>1, <2>3, SortKeeps
  <2>2. DOMAIN Sorted(list) = 1 .. Len(Sorted(list)) /\ Len(Sorted(list)) \in Nat
    BY <2>1
  <2> QED
    BY <2>1, <2>2 DEF Ordered
<1>2. CASE \A c \in ToSet(list) : c.enabled
  <2>1. EnabledInOrder(Sorted(list))
    BY <1>2, SortOrders DEF IdleAtZero
  <2>2. /\ Sorted(list) \in Seq(Clock)
        /\ \A i \in DOMAIN Sorted(list) : Sorted(list)[i] \in ToSet(list)
    BY SortKeeps, ElementsOf
  <2> QED
    BY <1>2, <2>1, <2>2 DEF Ordered, EnabledInOrder
<1> QED
  BY <1>1, <1>2

\* When the clocks are steady, evaluation leaves no event behind it.
THEOREM EvalAllPasses ==
  ASSUME NEW list, Complete(list), NEW t \in Nat, Ordered(list), Steady(list),
         \A c \in ToSet(list) : c.enabled => c.next >= t
  PROVE  /\ Ordered(EvalAll(list, t)) /\ Steady(EvalAll(list, t))
         /\ \A c \in ToSet(EvalAll(list, t)) : c.enabled => c.next > t
<1>1. PICK n \in 0 .. 2 * Len(list) :
        \E r \in [0 .. n -> Seq(Clock)] : Rounds(r, n, list, t)
  BY EvalAllIs
<1>0. n \in Nat
  BY ElementsOf DEF Complete
<1>2. PICK r \in [0 .. n -> Seq(Clock)] :
        /\ r[0] = list
        /\ \A m \in 1 .. n : FrontDue(r[m - 1], t) /\ r[m] = Round(r[m - 1], t)
        /\ ~FrontDue(r[n], t)
        /\ EvalAll(list, t) = Sorted(r[n])
  BY <1>1, Zenon DEF Rounds
<1> DEFINE Ahead(c) == c.enabled => c.next >= t
           Kept(l) == Complete(l) /\ Ordered(l) /\ Steady(l) /\ \A c \in ToSet(l) : Ahead(c)
           Good == {m \in 0 .. n : Kept(r[m])}
<1>3. ASSUME NEW c \in Clock, IsDue(c, t)
      PROVE  /\ Ahead(Eval(c, t))
             /\ ~c.waiting => Eval(c, t).enabled /\ ~Eval(c, t).waiting
  <2>1. /\ c.next \in Nat /\ c.low \in Nat /\ c.high \in Nat /\ c.next = t /\ c.enabled
        /\ c \in Clock
    BY <1>3 DEF Clock, IsDue
  <2>2. CASE c.value = 0
    <3>1. Eval(c, t) = [c EXCEPT !.value = 1, !.next = c.next + c.high]
      BY <1>3, <2>2 DEF Eval
    <3> QED
      BY <2>1, <3>1 DEF Clock
  <2>3. CASE c.value # 0 /\ ~c.waiting
    <3>1. Eval(c, t) = [c EXCEPT !.value = 0, !.next = c.next + c.low]
      BY <1>3, <2>3 DEF Eval
    <3> QED
      BY <2>1, <3>1 DEF Clock
  <2>4. CASE c.value # 0 /\ c.waiting
    <3>1. Stopped(c) \in Clock /\ Stopped(c).enabled = FALSE
      BY <2>1 DEF Stopped, Clock
    <3>2. Eval(c, t) = [Stopped(c) EXCEPT !.waiting = FALSE, !.value = 0]
      BY <1>3, <2>4 DEF Eval
    <3>3. Eval(c, t).enabled = FALSE
      BY <3>1, <3>2 DEF Clock
    <3> QED
      BY <2>4, <3>3
  <2> QED
    BY <2>2, <2>3, <2>4
<1>4. 0 \in Good
  BY <1>2
<1>5. ASSUME NEW m \in 1 .. n, m - 1 \in Good PROVE m \in Good
  <2> DEFINE l == r[m - 1]
             q == r[m]
  <2>1. Kept(l) /\ FrontDue(l, t) /\ q = Round(l, t) /\ l \in Seq(Clock)
    BY <1>2, <1>5
  <2>2. /\ Complete(q) /\ l[1] \in ToSet(l) /\ IsDue(l[1], t) /\ l # <<>>
        /\ ToSet(q) = (ToSet(l) \ {l[1]}) \cup {Eval(l[1], t)}
    BY <2>1, RoundKeeps DEF FrontDue
  <2>3. /\ l[1] \in Clock
        /\ Len(q) = Cardinality(Clocks) /\ Len(l) = Cardinality(Clocks)
    BY <2>1, <2>2, ElementsOf, CompleteLength
  <2> DEFINE p == [l EXCEPT ![1] = Eval(@, t)]
  <2>4. q = Sorted(p)
    BY <2>1 DEF Round
  <2>5. p \in Seq(Clock) /\ Len(p) = Len(l)
    <3>1. Eval(l[1], t) \in Clock
      BY <2>3, EvalType
    <3> QED
      BY <2>1, <2>2, <3>1
  <2> HIDE DEF l, q, p
  <2>6. ToSet(p) = ToSet(q) /\ Len(p) = Len(q)
    BY <2>3, <2>4, <2>5, SortKeeps
  <2>7. \A c \in ToSet(q) : Ahead(c)
    BY <1>3, <2>1, <2>2, <2>3
  <2>8. Steady(q)
    BY <1>3, <2>1, <2>2, <2>3 DEF Steady
  <2>9. Ordered(q)
    BY <2>4, <2>5, <2>6, <2>8, SortedInOrder DEF Steady
  <2>10. Kept(q)
    BY <2>2, <2>7, <2>8, <2>9
  <2> QED
    BY <2>10 DEF q
<1>6. 0 .. n \subseteq Good
  <2> HIDE DEF Good
  <2> QED
    BY <1>0, <1>4, <1>5, Induction
<1> DEFINE l == r[n]
<1>7. Kept(l) /\ ~FrontDue(l, t) /\ EvalAll(list, t) = Sorted(l) /\ l \in Seq(Clock)
  BY <1>0, <1>2, <1>6
<1> HIDE DEF l
<1>8. ToSet(Sorted(l)) = ToSet(l) /\ Len(Sorted(l)) = Len(l)
  BY <1>7, SortKeeps DEF Complete
<1>9. Ordered(Sorted(l)) /\ Steady(Sorted(l))
  BY <1>7, <1>8, SortedInOrder DEF Steady
<1>10. ASSUME NEW c \in ToSet(l), c.enabled PROVE c.next > t
  <2>1. PICK i \in 1 .. Len(l) : c = l[i]
    BY <1>7, ElementsOf
  <2>2. /\ Len(l) \in Nat /\ 1 \in 1 .. Len(l) /\ l # <<>> /\ Head(l) = l[1]
        /\ l[1] \in ToSet(l) /\ l[1] \in Clock /\ DOMAIN l = 1 .. Len(l) /\ c \in Clock
    BY <1>7, <2>1, ElementsOf
  <2>3. c.next \in Nat /\ l[1].next \in Nat
    BY <2>2 DEF Clock
  <2>4. l[1].enabled => l[1].next > t
    BY <1>7, <2>2, <2>3 DEF FrontDue, IsDue
  <2>5. CASE i = 1
    BY <1>10, <2>1, <2>4, <2>5
  <2>6. CASE i > 1
    <3>1. l[1].enabled /\ l[1].next <= l[i].next
      BY <1>7, <2>2, <2>6 DEF Ordered
    <3> QED
      BY <2>1, <2>3, <2>4, <3>1
  <2> QED
    BY <2>1, <2>5, <2>6
<1> QED
  BY <1>7, <1>8, <1>9, <1>10

\* get_clock finds the clock of a name.
LEMMA GetClock ==
  ASSUME NEW list, Complete(list), NEW n \in Clocks
  PROVE  /\ get_clock(list, n) \in ToSet(list) /\ get_clock(list, n) \in Clock
         /\ get_clock(list, n).name = n
<1>1. \E i \in DOMAIN list : list[i].name = n
  BY ElementsOf DEF Complete
<1> DEFINE i == CHOOSE i \in DOMAIN list : list[i].name = n
<1>2. i \in DOMAIN list /\ list[i].name = n
  BY <1>1, Zenon
<1>3. get_clock(list, n) = list[i]
  BY Zenon DEF get_clock
<1> HIDE DEF i
<1> QED
  BY <1>2, <1>3, ElementsOf DEF Complete

\* Putting a clock back replaces the one of its name; it stays in order when its
\* next event stays.
LEMMA PutKeeps ==
  ASSUME NEW list, Complete(list), NEW d \in Clock
  PROVE  /\ Complete(Put(list, d))
         /\ ToSet(Put(list, d)) = {c \in ToSet(list) : c.name # d.name} \cup {d}
         /\ Ordered(list) /\ (\A c \in ToSet(list) : c.name = d.name =>
                                  (c.enabled => d.enabled) /\ d.next = c.next)
              => Ordered(Put(list, d))
<1> DEFINE N == Len(list)
           q == Put(list, d)
<1>1. /\ N \in Nat /\ DOMAIN list = 1 .. N
      /\ \A i \in 1 .. N : list[i] \in Clock /\ list[i] \in ToSet(list)
      /\ list \in Seq(Clock) /\ Distinct(list)
  BY ElementsOf DEF Complete
<1>2. q = [i \in 1 .. N |-> IF list[i].name = d.name THEN d ELSE list[i]]
  BY <1>1 DEF Put
<1>3. q \in Seq(Clock) /\ DOMAIN q = 1 .. N
  BY <1>1, <1>2
<1> HIDE DEF q, N
<1>4. \A i \in 1 .. N : q[i] = IF list[i].name = d.name THEN d ELSE list[i]
  BY <1>2, Zenon
<1>5. \A i \in 1 .. N : q[i].name = list[i].name
  BY <1>4
<1>6. Distinct(q)
  BY <1>1, <1>3, <1>5 DEF Distinct
<1>7. {c.name : c \in ToSet(q)} = {c.name : c \in ToSet(list)}
  <2>1. ToSet(q) = {q[i] : i \in 1 .. N} /\ ToSet(list) = {list[i] : i \in 1 .. N}
    BY <1>1, <1>3 DEF ToSet
  <2> QED
    BY <1>5, <2>1
<1>8. \E i \in 1 .. N : list[i].name = d.name
  <2>1. d.name \in Clocks
    BY DEF Clock
  <2> QED
    BY <1>1, <2>1 DEF Complete, ToSet
<1>9. ToSet(q) = {c \in ToSet(list) : c.name # d.name} \cup {d}
  <2>1. \A i \in 1 .. N : q[i] \in {c \in ToSet(list) : c.name # d.name} \cup {d}
    BY <1>1, <1>4
  <2>2. d \in ToSet(q)
    BY <1>3, <1>4, <1>8 DEF ToSet
  <2>3. \A c \in ToSet(list) : c.name # d.name => c \in ToSet(q)
    BY <1>1, <1>3, <1>4 DEF ToSet
  <2> QED
    BY <1>3, <2>1, <2>2, <2>3 DEF ToSet
<1>10. ASSUME Ordered(list), \A c \in ToSet(list) : c.name = d.name =>
                               (c.enabled => d.enabled) /\ d.next = c.next
       PROVE  Ordered(q)
  <2>1. \A i \in 1 .. N : (list[i].enabled => q[i].enabled) /\ q[i].next = list[i].next
    BY <1>1, <1>4, <1>10
  <2> QED
    BY <1>1, <1>3, <1>10, <2>1 DEF Ordered
<1> QED
  BY <1>3, <1>6, <1>7, <1>9, <1>10 DEF q, Complete

\* A clock is added in front of the list, which is then sorted.
LEMMA AddKeeps ==
  ASSUME NEW list \in Seq(Clock), Distinct(list), NEW c \in Clock,
         \A d \in ToSet(list) : d.name # c.name
  PROVE  /\ AddClock(list, c) \in Seq(Clock) /\ Distinct(AddClock(list, c))
         /\ Len(AddClock(list, c)) = Len(list) + 1
         /\ ToSet(AddClock(list, c)) = ToSet(list) \cup {c}
         /\ (\A d \in ToSet(list) \cup {c} : d.enabled) => Ordered(AddClock(list, c))
<1> DEFINE N == Len(list)
           q == <<c>> \o list
<1>1. /\ N \in Nat /\ DOMAIN list = 1 .. N
      /\ \A i \in 1 .. N : list[i] \in Clock /\ list[i] \in ToSet(list)
  BY ElementsOf
<1>2. /\ q \in Seq(Clock) /\ Len(q) = N + 1 /\ DOMAIN q = 1 .. N + 1
      /\ \A i \in 1 .. N + 1 : q[i] = IF i = 1 THEN c ELSE list[i - 1]
  BY <1>1
<1> HIDE DEF q, N
<1>3. \A i \in 2 .. N + 1 : i - 1 \in 1 .. N /\ q[i] = list[i - 1]
  BY <1>1, <1>2
<1>4. Distinct(q)
  <2>1. ASSUME NEW i \in 1 .. N + 1, NEW j \in 1 .. N + 1, q[i].name = q[j].name
        PROVE  i = j
    <3>1. CASE i = 1 /\ j = 1
      BY <3>1
    <3>2. CASE (i = 1 /\ j # 1) \/ (i # 1 /\ j = 1)
      BY <1>1, <1>2, <1>3, <2>1, <3>2
    <3>3. CASE i # 1 /\ j # 1
      <4>1. i \in 2 .. N + 1 /\ j \in 2 .. N + 1
        BY <1>1, <3>3
      <4>2. /\ i - 1 \in DOMAIN list /\ j - 1 \in DOMAIN list
            /\ list[i - 1].name = list[j - 1].name
        BY <1>1, <1>3, <2>1, <4>1
      <4>3. i - 1 = j - 1
        BY <4>2, Zenon DEF Distinct
      <4> QED
        BY <1>1, <4>1, <4>3
    <3> QED
      BY <3>1, <3>2, <3>3
  <2>2. DOMAIN q = 1 .. N + 1
    BY <1>2
  <2> QED
    BY <2>1, <2>2, Zenon DEF Distinct
<1>5. ToSet(q) = ToSet(list) \cup {c}
  <2>1. \A i \in 1 .. N + 1 : q[i] \in ToSet(list) \cup {c}
    BY <1>1, <1>2, <1>3
  <2>2. q[1] = c /\ 1 \in 1 .. N + 1
    BY <1>1, <1>2
  <2>3. \A i \in 1 .. N : i + 1 \in 1 .. N + 1 /\ q[i + 1] = list[i]
    BY <1>1, <1>2
  <2>4. ToSet(q) = {q[i] : i \in 1 .. N + 1} /\ ToSet(list) = {list[i] : i \in 1 .. N}
    BY <1>1, <1>2, Zenon DEF ToSet
  <2> QED
    BY <2>1, <2>2, <2>3, <2>4
<1>6. /\ Sorted(q) \in Seq(Clock) /\ Len(Sorted(q)) = Len(q)
      /\ ToSet(Sorted(q)) = ToSet(q) /\ Distinct(Sorted(q))
  BY <1>2, <1>4, SortKeeps, Zenon
<1>7. (\A d \in ToSet(q) : d.enabled) => Ordered(Sorted(q))
  BY <1>2, SortedInOrder
<1>8. AddClock(list, c) = Sorted(q)
  BY Zenon DEF AddClock, q
<1> QED
  BY <1>2, <1>5, <1>6, <1>7, <1>8 DEF N
=============================================================================
