----------------------------- MODULE ListLemmas -----------------------------
(***************************************************************************)
(* Facts about the operators on sequences that model Python lists and the  *)
(* waiters of a lock: what they keep, what they drop, and that a list      *)
(* without repetition stays one.                                           *)
(***************************************************************************)
EXTENDS Integers, FiniteSets, SequencesExt, TLAPS, SequenceTheorems,
        WellFoundedInduction, FiniteSetTheorems

-----------------------------------------------------------------------------
(* Minima, list.remove and list.append *)

\* Min picks an element of any nonempty set of naturals.
LEMMA MinElement ==
  ASSUME NEW S \in SUBSET Nat, S # {}
  PROVE  Min(S) \in S /\ \A y \in S : Min(S) <= y
<1> DEFINE R == {ss \in Nat \X Nat : ss[1] < ss[2]}
<1>1. IsWellFoundedOn(R, Nat)
  BY NatLessThanWellFounded, Zenon DEF OpToRel
<1>2. PICK x \in S : \A y \in S : ~ (<<y, x>> \in R)
  <2> HIDE DEF R
  <2> QED
    BY <1>1, WFMin
<1>3. ASSUME NEW y \in S PROVE x <= y
  <2>1. x \in Nat /\ y \in Nat
    OBVIOUS
  <2>2. ASSUME y < x PROVE <<y, x>> \in R
    <3>1. <<y, x>>[1] < <<y, x>>[2] /\ <<y, x>> \in Nat \X Nat
      BY <2>1, <2>2
    <3> QED
      BY <3>1, Zenon
  <2>3. ~(y < x)
    <3> HIDE DEF R
    <3> QED
      BY <1>2, <2>2
  <2> QED
    BY <2>1, <2>3
<1> QED
  BY <1>3 DEF Min

\* Max picks an element of any nonempty set of naturals that has a bound.
LEMMA MaxElement ==
  ASSUME NEW n \in Nat, NEW S \in SUBSET (1 .. n), S # {}
  PROVE  Max(S) \in S /\ \A y \in S : y <= Max(S)
<1> DEFINE D == {n - y : y \in S}
<1>0. \A y \in S : y \in 1 .. n /\ n - y \in Nat
  OBVIOUS
<1>1. D \in SUBSET Nat /\ D # {}
  BY <1>0
<1>2. PICK k \in D : \A y \in D : k <= y
  <2> HIDE DEF D
  <2> QED
    BY <1>1, MinElement
<1>3. PICK x \in S : k = n - x
  OBVIOUS
<1>4. \A y \in S : x >= y
  <2> SUFFICES ASSUME NEW y \in S PROVE x >= y
    OBVIOUS
  <2>1. n - x <= n - y
    BY <1>2, <1>3
  <2> QED
    BY <2>1
<1>5. \E z \in S : \A y \in S : z >= y
  BY <1>4
<1>6. Max(S) \in S /\ \A y \in S : Max(S) >= y
  BY <1>5 DEF Max
<1> QED
  BY <1>6

\* A slice holds the elements from a to b.
PartOf(S, q, a, b) ==
  /\ SubSeq(q, a, b) \in Seq(S) /\ Len(SubSeq(q, a, b)) = b - a + 1
  /\ \A i \in 1 .. b - a + 1 : SubSeq(q, a, b)[i] = q[a + i - 1]

LEMMA SubSeqParts ==
  ASSUME NEW S, NEW q \in Seq(S), NEW a \in 1 .. Len(q) + 1, NEW b \in a - 1 .. Len(q)
  PROVE  PartOf(S, q, a, b)
<1>1. a \in Int /\ b \in Int /\ \A i \in a .. b : q[i] \in S
  OBVIOUS
<1>2. /\ SubSeq(q, a, b) \in Seq(S)
      /\ Len(SubSeq(q, a, b)) = IF a <= b THEN b - a + 1 ELSE 0
      /\ \A i \in 1 .. b - a + 1 : SubSeq(q, a, b)[i] = q[a + i - 1]
  BY <1>1, SubSeqProperties
<1>3. (IF a <= b THEN b - a + 1 ELSE 0) = b - a + 1
  BY <1>1
<1> QED
  BY <1>2, <1>3, Zenon DEF PartOf

\* list.remove drops one occurrence of e and nothing else.
LEMMA RemoveFirstSet ==
  ASSUME NEW S, NEW q \in Seq(S), NEW e
  PROVE  /\ RemoveFirst(q, e) \in Seq(S)
         /\ ToSet(RemoveFirst(q, e)) \subseteq ToSet(q)
         /\ ToSet(q) \ {e} \subseteq ToSet(RemoveFirst(q, e))
         /\ IsInjective(q) => IsInjective(RemoveFirst(q, e)) /\ e \notin ToSet(RemoveFirst(q, e))
<1> DEFINE I == {i \in 1 .. Len(q) : q[i] = e}
           k == Min(I)
           a == SubSeq(q, 1, k - 1)
           b == SubSeq(q, k + 1, Len(q))
<1>1. CASE I = {}
  <2>1. RemoveFirst(q, e) = q
    BY <1>1 DEF RemoveFirst
  <2>2. e \notin ToSet(q)
    BY <1>1 DEF ToSet
  <2> QED
    BY <2>1, <2>2
<1>2. CASE I # {}
  <2>1. SelectInSeq(q, LAMBDA v : v = e) = k
    BY <1>2, Zenon DEF SelectInSeq
  <2>2. RemoveFirst(q, e) = a \o b
    BY <1>2, <2>1, Zenon DEF RemoveFirst, RemoveAt
  <2>3. k \in 1 .. Len(q) /\ q[k] = e
    <3>1. I \in SUBSET Nat
      OBVIOUS
    <3>2. k \in I
      <4> HIDE DEF I
      <4> QED
        BY <1>2, <3>1, MinElement
    <3> QED
      BY <3>2
  <2> HIDE DEF k, I
  <2>4. /\ a \in Seq(S) /\ Len(a) = k - 1 /\ \A i \in 1 .. k - 1 : a[i] = q[i]
        /\ b \in Seq(S) /\ Len(b) = Len(q) - k /\ \A i \in 1 .. Len(q) - k : b[i] = q[k + i]
    BY <2>3
  <2> HIDE DEF a, b
  <2>5. /\ a \o b \in Seq(S) /\ Len(a \o b) = Len(q) - 1
        /\ \A i \in 1 .. Len(q) - 1 : (a \o b)[i] = IF i < k THEN q[i] ELSE q[i + 1]
    <3>1. /\ a \o b \in Seq(S) /\ Len(a \o b) = Len(a) + Len(b)
          /\ \A i \in 1 .. Len(a) + Len(b) :
               (a \o b)[i] = IF i <= Len(a) THEN a[i] ELSE b[i - Len(a)]
      BY <2>4, ConcatProperties
    <3>2. Len(a) + Len(b) = Len(q) - 1
      BY <2>3, <2>4
    <3>3. ASSUME NEW i \in 1 .. Len(q) - 1
          PROVE  (a \o b)[i] = IF i < k THEN q[i] ELSE q[i + 1]
      <4>1. CASE i < k
        BY <2>3, <2>4, <3>1, <3>2, <4>1
      <4>2. CASE ~(i < k)
        <5>1. i - (k - 1) \in 1 .. Len(q) - k /\ k + (i - (k - 1)) = i + 1 /\ ~(i <= k - 1)
          BY <2>3, <4>2
        <5> QED
          BY <2>4, <3>1, <3>2, <4>2, <5>1
      <4> QED
        BY <4>1, <4>2
    <3> QED
      BY <3>1, <3>2, <3>3
  <2>6. ASSUME NEW x \in ToSet(a \o b) PROVE x \in ToSet(q)
    <3>1. PICK i \in 1 .. Len(q) - 1 : (a \o b)[i] = x
      BY <2>5 DEF ToSet
    <3>2. i \in 1 .. Len(q) /\ i + 1 \in 1 .. Len(q) /\ DOMAIN q = 1 .. Len(q)
      BY <2>3
    <3> QED
      BY <2>5, <3>1, <3>2 DEF ToSet
  <2>7. ASSUME NEW x \in ToSet(q) \ {e} PROVE x \in ToSet(a \o b)
    <3>1. PICK i \in 1 .. Len(q) : q[i] = x
      BY DEF ToSet
    <3>2. i # k
      BY <2>3, <3>1
    <3>3. CASE i < k
      <4>1. i \in 1 .. Len(q) - 1
        BY <2>3, <3>3
      <4>2. (a \o b)[i] = x
        BY <2>5, <3>1, <3>3, <4>1
      <4> DEFINE w == a \o b
      <4>3. i \in DOMAIN w /\ w[i] = x
        BY <2>5, <4>1, <4>2
      <4> HIDE DEF w
      <4>4. x \in ToSet(w)
        BY <4>3 DEF ToSet
      <4> QED
        BY <4>4 DEF w
    <3>4. CASE i > k
      <4>1. i - 1 \in 1 .. Len(q) - 1 /\ ~(i - 1 < k) /\ (i - 1) + 1 = i
        BY <2>3, <3>4
      <4> DEFINE j == i - 1
                 w == a \o b
      <4>2. j \in 1 .. Len(q) - 1 /\ ~(j < k) /\ j + 1 = i
        BY <4>1
      <4>3. w \in Seq(S) /\ Len(w) = Len(q) - 1
        BY <2>5
      <4>4. w[j] = q[j + 1]
        <5>1. \A n \in 1 .. Len(q) - 1 : w[n] = IF n < k THEN q[n] ELSE q[n + 1]
          BY <2>5
        <5> HIDE DEF j, w
        <5> QED
          BY <4>2, <5>1
      <4> HIDE DEF j, w
      <4>5. w[j] = x /\ DOMAIN w = 1 .. Len(q) - 1
        BY <3>1, <4>2, <4>3, <4>4
      <4>6. x \in ToSet(w)
        BY <4>2, <4>5 DEF ToSet
      <4> QED
        BY <4>6 DEF w
    <3> QED
      BY <2>3, <3>2, <3>3, <3>4
  <2>8. ASSUME IsInjective(q) PROVE IsInjective(a \o b) /\ e \notin ToSet(a \o b)
    <3> DEFINE w == a \o b
               from(i) == IF i < k THEN i ELSE i + 1
    <3>1. \A i \in 1 .. Len(q) - 1 : from(i) \in 1 .. Len(q) /\ from(i) # k /\ w[i] = q[from(i)]
      BY <2>3, <2>5
    <3>2. \A i, j \in 1 .. Len(q) - 1 : from(i) = from(j) => i = j
      BY <2>3
    <3>3. DOMAIN w = 1 .. Len(q) - 1 /\ DOMAIN q = 1 .. Len(q)
      BY <2>5
    <3> HIDE DEF w, from
    <3>4. IsInjective(w)
      <4> SUFFICES ASSUME NEW i \in 1 .. Len(q) - 1, NEW j \in 1 .. Len(q) - 1, w[i] = w[j]
                   PROVE  i = j
        BY <3>3, Zenon DEF IsInjective
      <4>1. from(i) \in DOMAIN q /\ from(j) \in DOMAIN q /\ q[from(i)] = q[from(j)]
        BY <3>1, <3>3, Zenon
      <4>2. from(i) = from(j)
        BY <2>8, <4>1, Zenon DEF IsInjective
      <4> QED
        BY <3>2, <4>2, Zenon
    <3>5. \A i \in 1 .. Len(q) - 1 : w[i] # e
      BY <2>3, <2>8, <3>1, <3>3, Zenon DEF IsInjective
    <3>6. e \notin ToSet(w)
      BY <3>3, <3>5, Zenon DEF ToSet
    <3> QED
      BY <3>4, <3>6 DEF w
  <2> QED
    BY <2>2, <2>5, <2>6, <2>7, <2>8
<1> QED
  BY <1>1, <1>2

\* list.append adds one element.
LEMMA AppendSet ==
  ASSUME NEW S, NEW q \in Seq(S), NEW e \in S
  PROVE  /\ Append(q, e) \in Seq(S)
         /\ ToSet(Append(q, e)) = ToSet(q) \cup {e}
<1>1. /\ Append(q, e) \in Seq(S) /\ Len(Append(q, e)) = Len(q) + 1
      /\ DOMAIN Append(q, e) = 1 .. Len(q) + 1 /\ DOMAIN q = 1 .. Len(q)
      /\ \A i \in 1 .. Len(q) : Append(q, e)[i] = q[i]
      /\ Append(q, e)[Len(q) + 1] = e
      /\ Len(q) \in Nat
  OBVIOUS
<1>2. ToSet(q) \cup {e} \subseteq ToSet(Append(q, e))
  BY <1>1 DEF ToSet
<1>3. ToSet(Append(q, e)) \subseteq ToSet(q) \cup {e}
  BY <1>1 DEF ToSet
<1> QED
  BY <1>1, <1>2, <1>3

-----------------------------------------------------------------------------
(* Queues without repetition *)

\* A waiter joins the queue.
LEMMA AppendQueue ==
  ASSUME NEW S, NEW q \in Seq(S), NEW e \in S, IsInjective(q), e \notin ToSet(q)
  PROVE  IsInjective(Append(q, e))
<1>1. /\ DOMAIN Append(q, e) = 1 .. Len(q) + 1 /\ DOMAIN q = 1 .. Len(q)
      /\ \A i \in 1 .. Len(q) : Append(q, e)[i] = q[i]
      /\ Append(q, e)[Len(q) + 1] = e
      /\ Len(q) \in Nat
  OBVIOUS
<1>2. \A i \in 1 .. Len(q) : q[i] # e
  BY <1>1, Zenon DEF ToSet
<1> QED
  BY <1>1, <1>2 DEF IsInjective

\* The first waiter leaves the queue.
LEMMA TailQueue ==
  ASSUME NEW S, NEW q \in Seq(S), q # << >>, IsInjective(q)
  PROVE  /\ Tail(q) \in Seq(S) /\ IsInjective(Tail(q))
         /\ Head(q) \in ToSet(q) /\ ToSet(Tail(q)) = ToSet(q) \ {Head(q)}
         /\ \A i \in DOMAIN Tail(q) : i + 1 \in DOMAIN q /\ Tail(q)[i] = q[i + 1] /\ i \in Nat
<1>1. /\ Tail(q) \in Seq(S) /\ DOMAIN Tail(q) = 1 .. Len(q) - 1 /\ DOMAIN q = 1 .. Len(q)
      /\ \A i \in 1 .. Len(q) - 1 : Tail(q)[i] = q[i + 1]
      /\ Head(q) = q[1] /\ Len(q) \in Nat \ {0}
  OBVIOUS
<1>2. IsInjective(Tail(q))
  BY <1>1 DEF IsInjective
<1>3. Head(q) \in ToSet(q)
  BY <1>1 DEF ToSet
<1>4. ASSUME NEW e \in ToSet(Tail(q)) PROVE e \in ToSet(q) \ {Head(q)}
  <2>1. PICK i \in 1 .. Len(q) - 1 : e = Tail(q)[i]
    BY <1>1 DEF ToSet
  <2>2. i + 1 \in DOMAIN q /\ e = q[i + 1] /\ i + 1 # 1
    BY <1>1, <2>1
  <2> QED
    BY <1>1, <2>2 DEF ToSet, IsInjective
<1>5. ASSUME NEW e \in ToSet(q) \ {Head(q)} PROVE e \in ToSet(Tail(q))
  <2>1. PICK i \in 1 .. Len(q) : e = q[i]
    BY <1>1 DEF ToSet
  <2>2. i - 1 \in 1 .. Len(q) - 1 /\ Tail(q)[i - 1] = e
    BY <1>1, <2>1
  <2> QED
    BY <1>1, <2>2 DEF ToSet
<1> QED
  BY <1>1, <1>2, <1>3, <1>4, <1>5

\* Several waiters join the queue.
LEMMA ConcatQueue ==
  ASSUME NEW S, NEW q \in Seq(S), NEW r \in Seq(S), IsInjective(q), IsInjective(r),
         ToSet(q) \cap ToSet(r) = {}
  PROVE  /\ q \o r \in Seq(S) /\ IsInjective(q \o r) /\ ToSet(q \o r) = ToSet(q) \cup ToSet(r)
         /\ Len(q) \in Nat
         /\ \A i \in DOMAIN (q \o r) : \/ i \in DOMAIN q /\ (q \o r)[i] = q[i]
                                       \/ i > Len(q) /\ i \in Nat /\ (q \o r)[i] \in ToSet(r)
<1> DEFINE w == q \o r
<1>1. /\ w \in Seq(S) /\ DOMAIN w = 1 .. Len(q) + Len(r)
      /\ \A i \in 1 .. Len(q) + Len(r) : w[i] = IF i <= Len(q) THEN q[i] ELSE r[i - Len(q)]
      /\ Len(q) \in Nat /\ Len(r) \in Nat /\ DOMAIN q = 1 .. Len(q) /\ DOMAIN r = 1 .. Len(r)
  BY ConcatProperties
<1> HIDE DEF w
<1>2. ASSUME NEW i \in DOMAIN w
      PROVE  \/ i \in DOMAIN q /\ w[i] = q[i] /\ w[i] \in ToSet(q)
             \/ /\ i > Len(q) /\ i \in Nat /\ i - Len(q) \in DOMAIN r
                /\ w[i] = r[i - Len(q)] /\ w[i] \in ToSet(r)
  <2>1. CASE i <= Len(q)
    <3>1. i \in DOMAIN q /\ w[i] = q[i]
      BY <1>1, <2>1
    <3> QED
      BY <3>1 DEF ToSet
  <2>2. CASE ~(i <= Len(q))
    <3>1. i > Len(q) /\ i \in Nat /\ i - Len(q) \in DOMAIN r /\ w[i] = r[i - Len(q)]
      BY <1>1, <2>2
    <3> QED
      BY <3>1 DEF ToSet
  <2> QED
    BY <2>1, <2>2
<1>3. IsInjective(w)
  <2> SUFFICES ASSUME NEW i \in DOMAIN w, NEW j \in DOMAIN w, w[i] = w[j] PROVE i = j
    BY DEF IsInjective
  <2>1. CASE w[i] \in ToSet(q)
    <3>1. i \in DOMAIN q /\ j \in DOMAIN q /\ w[i] = q[i] /\ w[j] = q[j]
      BY <1>2, <2>1
    <3> QED
      BY <3>1 DEF IsInjective
  <2>2. CASE w[i] \in ToSet(r)
    <3>1. /\ i - Len(q) \in DOMAIN r /\ w[i] = r[i - Len(q)] /\ i \in Nat
          /\ j - Len(q) \in DOMAIN r /\ w[j] = r[j - Len(q)] /\ j \in Nat
      BY <1>2, <2>2
    <3>2. i - Len(q) = j - Len(q)
      BY <3>1 DEF IsInjective
    <3> QED
      BY <1>1, <3>1, <3>2
  <2> QED
    BY <1>2, <2>1, <2>2
<1>4. ToSet(w) \subseteq ToSet(q) \cup ToSet(r)
  BY <1>2 DEF ToSet
<1>5. ASSUME NEW e \in ToSet(q) PROVE e \in ToSet(w)
  <2>1. PICK i \in DOMAIN q : e = q[i]
    BY DEF ToSet
  <2>2. i \in DOMAIN w /\ w[i] = e
    BY <1>1, <2>1
  <2> QED
    BY <2>2 DEF ToSet
<1>6. ASSUME NEW e \in ToSet(r) PROVE e \in ToSet(w)
  <2>1. PICK i \in DOMAIN r : e = r[i]
    BY DEF ToSet
  <2> DEFINE k == i + Len(q)
  <2>2. k \in 1 .. Len(q) + Len(r) /\ ~(k <= Len(q)) /\ k - Len(q) = i
    BY <1>1, <2>1
  <2> HIDE DEF k
  <2>3. k \in DOMAIN w /\ w[k] = e
    BY <1>1, <2>1, <2>2
  <2> QED
    BY <2>3 DEF ToSet
<1> QED
  BY <1>1, <1>2, <1>3, <1>4, <1>5, <1>6 DEF w

\* A finite set in some order.
LEMMA SetToSeqQueue ==
  ASSUME NEW S, IsFiniteSet(S)
  PROVE  SetToSeq(S) \in Seq(S) /\ IsInjective(SetToSeq(S)) /\ ToSet(SetToSeq(S)) = S
<1> DEFINE n == Cardinality(S)
           f == SetToSeq(S)
<1>1. n \in Nat /\ ExistsBijection(1 .. n, S)
  BY FS_CardinalityType
<1>2. \E g \in [1 .. n -> S] : IsInjective(g)
  <2>1. PICK g \in Bijection(1 .. n, S) : TRUE
    BY <1>1 DEF ExistsBijection
  <2> QED
    BY <2>1 DEF Bijection, Injection, IsInjective
<1>3. f \in [1 .. n -> S] /\ IsInjective(f)
  BY <1>2 DEF SetToSeq
<1>4. f \in Injection(1 .. n, S)
  <2> HIDE DEF f, n
  <2> QED
    BY <1>3 DEF Injection, IsInjective
<1>5. IsFiniteSet(1 .. n) /\ Cardinality(1 .. n) = n
  BY <1>1, FS_Interval
<1> HIDE DEF f
<1>6. f \in Surjection(1 .. n, S)
  BY <1>4, <1>5, FS_Injection
<1>7. f \in Seq(S) /\ DOMAIN f = 1 .. n
  <2> HIDE DEF n
  <2> QED
    BY <1>1, <1>3, IsASeq
<1>8. ToSet(f) = S
  BY <1>3, <1>6, <1>7 DEF ToSet, Surjection
<1> QED
  BY <1>3, <1>7, <1>8 DEF f

-----------------------------------------------------------------------------
(* Counting up, and lists joined end to end *)

\* What holds at a and goes from k to k + 1 holds up to n.
LEMMA CountUp ==
  ASSUME NEW a \in Nat, NEW n \in Nat, NEW G, a \in G,
         \A k \in a .. n - 1 : k \in G => k + 1 \in G
  PROVE  a .. n \subseteq G
<1> DEFINE B == (a .. n) \ G
<1> SUFFICES ASSUME B # {}  PROVE FALSE
  OBVIOUS
<1>1. B \in SUBSET Nat
  OBVIOUS
<1>2. PICK m \in B : \A y \in B : m <= y
  <2> HIDE DEF B
  <2> QED
    BY <1>1, MinElement
<1>3. m \in a .. n /\ m \notin G /\ m # a
  OBVIOUS
<1>4. m - 1 \in a .. n - 1 /\ (m - 1) + 1 = m
  BY <1>3
<1>5. m - 1 \notin B
  <2> HIDE DEF B
  <2> QED
    BY <1>2, <1>3, <1>4
<1>6. m - 1 \in G
  BY <1>4, <1>5
<1> QED
  BY <1>3, <1>4, <1>6

\* The recursive function in FlattenSeq exists: its equation holds.
LEMMA FlattenEquation ==
  ASSUME NEW S, NEW ss \in Seq(Seq(S)), Len(ss) > 0
  PROVE  \E f \in [1 .. Len(ss) -> Seq(S)] :
           /\ FlattenSeq(ss) = f[Len(ss)]
           /\ f[1] = ss[1]
           /\ \A i \in 2 .. Len(ss) : f[i] = f[i - 1] \o ss[i]
<1> DEFINE N == Len(ss)
           T == Seq(S)
<1>1. N \in Nat /\ N >= 1 /\ \A i \in 1 .. N : ss[i] \in T
  OBVIOUS
<1> DEFINE Part(g, n) == g \in [1 .. n -> T] /\ g[1] = ss[1] /\ \A i \in 2 .. n : g[i] = g[i - 1] \o ss[i]
           G == {n \in 1 .. N : \E g : Part(g, n)}
<1>2. 1 \in G
  <2>1. Part([i \in 1 .. 1 |-> ss[1]], 1)
    BY <1>1
  <2>2. 1 \in 1 .. N
    BY <1>1
  <2>3. \E g : Part(g, 1)
    <3> HIDE DEF Part
    <3> QED
      BY <2>1
  <2> HIDE DEF Part, N
  <2> QED
    BY <2>2, <2>3
<1>3. ASSUME NEW k \in 1 .. N - 1, k \in G  PROVE k + 1 \in G
  <2>1. PICK g : Part(g, k)
    BY <1>3
  <2> DEFINE h == [i \in 1 .. k + 1 |-> IF i = k + 1 THEN g[k] \o ss[k + 1] ELSE g[i]]
  <2>2. k \in Nat /\ k >= 1 /\ k + 1 \in 1 .. N
    BY <1>1
  <2>3. g[k] \o ss[k + 1] \in T
    <3>1. g[k] \in T /\ ss[k + 1] \in T
      BY <1>1, <2>1, <2>2
    <3> QED
      BY <3>1, ConcatProperties
  <2>4. h \in [1 .. k + 1 -> T]
    <3> SUFFICES ASSUME NEW i \in 1 .. k + 1, i # k + 1 PROVE g[i] \in T
      BY <2>3
    <3>1. i \in 1 .. k
      BY <2>2
    <3> QED
      BY <2>1, <3>1
  <2>5. h[1] = ss[1]
    BY <2>1, <2>2
  <2>6. ASSUME NEW i \in 2 .. k + 1  PROVE h[i] = h[i - 1] \o ss[i]
    <3>1. CASE i = k + 1
      <4>0. i - 1 = k /\ k \in 1 .. k + 1 /\ k + 1 \in 1 .. k + 1 /\ k # k + 1
        BY <2>2, <3>1
      <4>1. i - 1 = k /\ h[i] = g[k] \o ss[k + 1] /\ h[k] = g[k]
        BY <3>1, <4>0
      <4> QED
        BY <3>1, <4>1
    <3>2. CASE i # k + 1
      <4>1. i \in 2 .. k /\ i - 1 \in 1 .. k + 1 /\ i \in 1 .. k + 1 /\ i - 1 # k + 1
        BY <2>2, <3>2
      <4>2. h[i] = g[i] /\ h[i - 1] = g[i - 1]
        BY <3>2, <4>1
      <4> QED
        BY <2>1, <4>1, <4>2
    <3> QED
      BY <3>1, <3>2
  <2>7. Part(h, k + 1)
    <3> HIDE DEF h, T
    <3> QED
      BY <2>4, <2>5, <2>6
  <2> QED
    BY <2>2, <2>7
<1>4. N \in G
  <2>1. 1 .. N \subseteq G
    <3> HIDE DEF G, N
    <3> QED
      BY <1>1, <1>2, <1>3, CountUp
  <2>2. N \in 1 .. N
    BY <1>1
  <2> HIDE DEF G, N
  <2> QED
    BY <2>1, <2>2
<1>5. PICK g : Part(g, N)
  BY <1>4
<1> DEFINE Eq(f) == f = [i \in 1 .. N |-> IF i = 1 THEN ss[i] ELSE f[i - 1] \o ss[i]]
           flat == CHOOSE f : Eq(f)
<1>6. Eq(g)
  <2>1. ASSUME NEW i \in 1 .. N PROVE g[i] = IF i = 1 THEN ss[i] ELSE g[i - 1] \o ss[i]
    <3>1. i = 1 \/ i \in 2 .. N
      BY <1>1
    <3> QED
      BY <1>5, <3>1
  <2>2. g \in [1 .. N -> T]
    BY <1>5
  <2> HIDE DEF N, T
  <2> QED
    BY <2>1, <2>2
<1>7. Eq(flat)
  <2> HIDE DEF Eq
  <2> QED
    BY <1>6
<1>8. FlattenSeq(ss) = flat[N]
  BY <1>1 DEF FlattenSeq
<1> HIDE DEF flat
<1>9. DOMAIN flat = 1 .. N /\ flat[1] = ss[1] /\ \A i \in 2 .. N : flat[i] = flat[i - 1] \o ss[i]
  <2>1. DOMAIN flat = 1 .. N
    BY <1>7
  <2>2. \A i \in 1 .. N : flat[i] = IF i = 1 THEN ss[i] ELSE flat[i - 1] \o ss[i]
    BY <1>7, Zenon
  <2>3. 1 \in 1 .. N /\ \A i \in 2 .. N : i \in 1 .. N /\ i # 1
    BY <1>1
  <2> HIDE DEF N
  <2> QED
    BY <2>1, <2>2, <2>3
<1>10. \A i \in 1 .. N : flat[i] \in T
  <2> DEFINE H == {i \in 1 .. N : flat[i] \in T}
  <2>1. 1 \in H
    BY <1>1, <1>9
  <2>2. ASSUME NEW k \in 1 .. N - 1, k \in H  PROVE k + 1 \in H
    <3>1. k + 1 \in 2 .. N /\ (k + 1) - 1 = k /\ k + 1 \in 1 .. N
      BY <1>1
    <3>2. flat[k + 1] = flat[k] \o ss[k + 1] /\ flat[k] \in T /\ ss[k + 1] \in T
      BY <1>1, <1>9, <2>2, <3>1
    <3>3. flat[k] \o ss[k + 1] \in T
      BY <3>2, ConcatProperties
    <3> QED
      BY <3>1, <3>2, <3>3
  <2>3. 1 .. N \subseteq H
    <3> HIDE DEF H, N
    <3> QED
      BY <1>1, <2>1, <2>2, CountUp
  <2> QED
    BY <2>3
<1>11. flat \in [1 .. N -> T]
  <2>1. flat = [i \in 1 .. N |-> flat[i]]
    BY <1>7
  <2> HIDE DEF N, T
  <2> QED
    BY <1>10, <2>1
<1> QED
  BY <1>8, <1>9, <1>11

\* What the list at place k holds lies in the joined list from off[k] on, where
\* off[k] is the length of all that comes before.
LEMMA FlattenPlaces ==
  ASSUME NEW S, NEW ss \in Seq(Seq(S))
  PROVE  /\ FlattenSeq(ss) \in Seq(S)
         /\ \E off \in [1 .. Len(ss) + 1 -> Nat] :
              /\ off[1] = 0
              /\ \A k \in 1 .. Len(ss) : off[k + 1] = off[k] + Len(ss[k])
              /\ off[Len(ss) + 1] = Len(FlattenSeq(ss))
              /\ \A k \in 1 .. Len(ss) : \A i \in 1 .. Len(ss[k]) : FlattenSeq(ss)[off[k] + i] = ss[k][i]
<1>1. CASE Len(ss) = 0
  <2>1. ss = << >>
    BY <1>1, EmptySeq
  <2>2. FlattenSeq(ss) = << >>
    BY <2>1 DEF FlattenSeq
  <2>3. FlattenSeq(ss) \in Seq(S) /\ Len(FlattenSeq(ss)) = 0
    BY <2>2
  <2> DEFINE off == [k \in 1 .. 1 |-> 0]
  <2>4. off \in [1 .. Len(ss) + 1 -> Nat] /\ off[1] = 0 /\ off[Len(ss) + 1] = 0
    BY <1>1
  <2>5. 1 .. Len(ss) = {}
    BY <1>1
  <2> HIDE DEF off
  <2> QED
    BY <2>3, <2>4, <2>5
<1>2. CASE Len(ss) > 0
  <2> DEFINE N == Len(ss)
             flat == FlattenSeq(ss)
  <2>1. PICK f \in [1 .. N -> Seq(S)] :
          /\ flat = f[N]
          /\ f[1] = ss[1]
          /\ \A i \in 2 .. N : f[i] = f[i - 1] \o ss[i]
    <3> HIDE DEF flat
    <3> QED
      BY <1>2, FlattenEquation DEF flat
  <2> DEFINE off == [k \in 1 .. N + 1 |-> IF k = 1 THEN 0 ELSE Len(f[k - 1])]
  <2>2. N \in Nat /\ N >= 1 /\ \A k \in 1 .. N : ss[k] \in Seq(S) /\ f[k] \in Seq(S)
    <3>1. \A k \in 1 .. N : ss[k] \in Seq(S)
      OBVIOUS
    <3>2. N \in Nat /\ N >= 1
      BY <1>2
    <3> HIDE DEF N, off
    <3> QED
      BY <2>1, <3>1, <3>2, Zenon
  <2> HIDE DEF flat, N
  <2>3. flat \in Seq(S)
    BY <2>1, <2>2
  <2>4. off \in [1 .. N + 1 -> Nat]
    <3> SUFFICES ASSUME NEW k \in 1 .. N + 1, k # 1 PROVE Len(f[k - 1]) \in Nat
      OBVIOUS
    <3>1. k - 1 \in 1 .. N
      BY <2>2
    <3> QED
      BY <2>2, <3>1, LenProperties
  <2>5. off[1] = 0 /\ off[N + 1] = Len(flat)
    <3>1. 1 \in 1 .. N + 1 /\ N + 1 \in 1 .. N + 1 /\ N + 1 # 1 /\ (N + 1) - 1 = N
      BY <2>2
    <3> QED
      BY <2>1, <3>1
  <2>6. ASSUME NEW k \in 1 .. N
        PROVE  /\ off[k + 1] = Len(f[k])
               /\ off[k + 1] = off[k] + Len(ss[k])
               /\ \A i \in 1 .. Len(ss[k]) : f[k][off[k] + i] = ss[k][i]
    <3>1. k + 1 \in 1 .. N + 1 /\ k + 1 # 1 /\ (k + 1) - 1 = k /\ k \in 1 .. N + 1
      BY <2>2
    <3>2. off[k + 1] = Len(f[k])
      BY <3>1
    <3>3. CASE k = 1
      <4>1. off[k] = 0 /\ f[k] = ss[k]
        BY <2>1, <3>1, <3>3
      <4>2. Len(ss[k]) \in Nat
        BY <2>2, LenProperties
      <4> HIDE DEF off
      <4> QED
        BY <3>2, <4>1, <4>2
    <3>4. CASE k # 1
      <4>1. k - 1 \in 1 .. N /\ k \in 2 .. N
        BY <2>2, <3>4
      <4>2. off[k] = Len(f[k - 1])
        BY <3>1, <3>4
      <4>3. f[k] = f[k - 1] \o ss[k]
        BY <2>1, <4>1
      <4>4. f[k - 1] \in Seq(S) /\ ss[k] \in Seq(S)
        BY <2>2, <4>1
      <4> HIDE DEF off
      <4>5. \A a, b \in Seq(S) :
              /\ Len(a \o b) = Len(a) + Len(b)
              /\ \A i \in 1 .. Len(b) : (a \o b)[Len(a) + i] = b[i]
        OBVIOUS
      <4>6. /\ Len(f[k - 1] \o ss[k]) = Len(f[k - 1]) + Len(ss[k])
            /\ \A i \in 1 .. Len(ss[k]) : (f[k - 1] \o ss[k])[Len(f[k - 1]) + i] = ss[k][i]
        BY <4>4, <4>5
      <4> QED
        BY <3>2, <4>2, <4>3, <4>6, Zenon
    <3> QED
      BY <3>3, <3>4
  <2> HIDE DEF off
  <2>7. ASSUME NEW k \in 1 .. N, NEW i \in 1 .. Len(ss[k])
        PROVE  flat[off[k] + i] = ss[k][i]
    <3> DEFINE j == off[k] + i
               G == {n \in k .. N : j <= Len(f[n]) /\ f[n][j] = ss[k][i]}
    <3>1. off[k] \in Nat /\ Len(ss[k]) \in Nat /\ i \in Nat /\ i >= 1 /\ j \in Nat /\ j >= 1
      <4>1. off[k] \in Nat
        BY <2>2, <2>4
      <4>2. Len(ss[k]) \in Nat
        BY <2>2, LenProperties
      <4> QED
        BY <4>1, <4>2
    <3>2. k \in G
      <4>1. j <= Len(f[k])
        <5>1. Len(f[k]) = off[k] + Len(ss[k])
          BY <2>6
        <5> QED
          BY <3>1, <5>1
      <4>2. k \in k .. N
        BY <2>2
      <4> QED
        BY <2>6, <4>1, <4>2
    <3>3. ASSUME NEW n \in k .. N - 1, n \in G  PROVE n + 1 \in G
      <4>1. n \in 1 .. N /\ n + 1 \in 2 .. N /\ (n + 1) - 1 = n /\ n + 1 \in k .. N
        BY <2>2
      <4>2. f[n + 1] = f[n] \o ss[n + 1]
        BY <2>1, <4>1
      <4>3. f[n] \in Seq(S) /\ ss[n + 1] \in Seq(S)
        BY <2>2, <4>1
      <4>4. j \in Nat /\ j >= 1 /\ j <= Len(f[n]) /\ f[n][j] = ss[k][i]
        BY <3>1, <3>3
      <4> HIDE DEF j
      <4>5. j <= Len(f[n + 1]) /\ f[n + 1][j] = ss[k][i]
        <5>1. \A a, b \in Seq(S) : \A x \in Nat : x >= 1 /\ x <= Len(a) =>
                x <= Len(a \o b) /\ (a \o b)[x] = a[x]
          OBVIOUS
        <5>2. j <= Len(f[n] \o ss[n + 1]) /\ (f[n] \o ss[n + 1])[j] = f[n][j]
          BY <4>3, <4>4, <5>1
        <5> QED
          BY <4>2, <4>4, <5>2, Zenon
      <4> QED
        BY <4>1, <4>5
    <3>4. k .. N \subseteq G
      <4> HIDE DEF G
      <4>1. k \in Nat
        BY <2>2
      <4> QED
        BY <2>2, <3>2, <3>3, <4>1, CountUp
    <3>5. N \in k .. N
      BY <2>2
    <3> QED
      BY <2>1, <3>4, <3>5
  <2>8. \E o \in [1 .. N + 1 -> Nat] :
          /\ o[1] = 0
          /\ \A k \in 1 .. N : o[k + 1] = o[k] + Len(ss[k])
          /\ o[N + 1] = Len(flat)
          /\ \A k \in 1 .. N : \A i \in 1 .. Len(ss[k]) : flat[o[k] + i] = ss[k][i]
    BY <2>4, <2>5, <2>6, <2>7, Zenon
  <2> QED
    BY <2>3, <2>8, Zenon DEF N, flat
<1>3. Len(ss) = 0 \/ Len(ss) > 0
  OBVIOUS
<1> QED
  BY <1>1, <1>2, <1>3, Zenon

\* What the joined list holds is what the lists in it hold.
LEMMA FlattenedSet ==
  ASSUME NEW S, NEW ss \in Seq(Seq(S))
  PROVE  ToSet(FlattenSeq(ss)) = UNION {ToSet(t) : t \in ToSet(ss)}
<1> DEFINE N == Len(ss)
           flat == FlattenSeq(ss)
           U == UNION {ToSet(t) : t \in ToSet(ss)}
<1>1. PICK off \in [1 .. N + 1 -> Nat] :
        /\ off[1] = 0
        /\ \A k \in 1 .. N : off[k + 1] = off[k] + Len(ss[k])
        /\ off[N + 1] = Len(flat)
        /\ \A k \in 1 .. N : \A i \in 1 .. Len(ss[k]) : flat[off[k] + i] = ss[k][i]
  BY FlattenPlaces
<1>2. N \in Nat /\ flat \in Seq(S) /\ \A k \in 1 .. N : ss[k] \in Seq(S) /\ Len(ss[k]) \in Nat
  BY FlattenPlaces
<1>3. /\ \A x : x \in U <=> \E k \in 1 .. N : x \in ToSet(ss[k])
      /\ \A k \in 1 .. N : \A x : x \in ToSet(ss[k]) <=> \E i \in 1 .. Len(ss[k]) : x = ss[k][i]
  <2>1. DOMAIN ss = 1 .. N /\ \A k \in 1 .. N : DOMAIN ss[k] = 1 .. Len(ss[k])
    BY <1>2
  <2>2. ToSet(ss) = {ss[k] : k \in 1 .. N}
    BY <2>1 DEF ToSet
  <2>3. \A k \in 1 .. N : ToSet(ss[k]) = {ss[k][i] : i \in 1 .. Len(ss[k])}
    BY <2>1 DEF ToSet
  <2> HIDE DEF N
  <2>4. U = UNION {ToSet(ss[k]) : k \in 1 .. N}
    BY <2>2
  <2> HIDE DEF U
  <2>5. \A x : x \in U <=> \E k \in 1 .. N : x \in ToSet(ss[k])
    BY <2>4
  <2>6. \A k \in 1 .. N : \A x : x \in ToSet(ss[k]) <=> \E i \in 1 .. Len(ss[k]) : x = ss[k][i]
    BY <2>3
  <2> QED
    BY <2>5, <2>6
<1>4. DOMAIN flat = 1 .. Len(flat) /\ Len(flat) \in Nat
  BY <1>2
<1>5. ToSet(flat) = {flat[i] : i \in 1 .. Len(flat)}
  BY <1>4, Zenon DEF ToSet
<1> HIDE DEF flat, N, U
<1> DEFINE Covered(j) == \E k \in 1 .. N : \E i \in 1 .. Len(ss[k]) : j = off[k] + i
           G == {k \in 1 .. N + 1 : \A j \in 1 .. off[k] : Covered(j)}
<1>6. 1 \in G
  <2>1. 1 \in 1 .. N + 1 /\ 1 .. off[1] = {}
    BY <1>1, <1>2
  <2> HIDE DEF Covered
  <2> QED
    BY <2>1
<1>7. ASSUME NEW k \in 1 .. (N + 1) - 1, k \in G PROVE k + 1 \in G
  <2>1. k \in 1 .. N /\ k + 1 \in 1 .. N + 1 /\ k \in 1 .. N + 1
    BY <1>2
  <2>2. off[k + 1] = off[k] + Len(ss[k]) /\ off[k] \in Nat /\ Len(ss[k]) \in Nat
    BY <1>1, <1>2, <2>1
  <2>3. ASSUME NEW j \in 1 .. off[k + 1] PROVE Covered(j)
    <3>1. CASE j <= off[k]
      <4>1. j \in 1 .. off[k]
        BY <2>2, <3>1
      <4> HIDE DEF Covered
      <4> QED
        BY <1>7, <4>1
    <3>2. CASE ~(j <= off[k])
      <4>1. j - off[k] \in 1 .. Len(ss[k]) /\ j = off[k] + (j - off[k])
        BY <2>2, <3>2
      <4> QED
        BY <2>1, <4>1
    <3> QED
      BY <3>1, <3>2
  <2> HIDE DEF Covered
  <2> QED
    BY <2>1, <2>3
<1>8. \A j \in 1 .. Len(flat) : Covered(j)
  <2>1. 1 .. N + 1 \subseteq G
    <3> HIDE DEF G
    <3>1. N + 1 \in Nat
      BY <1>2
    <3> QED
      BY <1>6, <1>7, <3>1, CountUp
  <2>2. N + 1 \in 1 .. N + 1
    BY <1>2
  <2> HIDE DEF Covered
  <2> QED
    BY <1>1, <2>1, <2>2
<1>9. ASSUME NEW x \in ToSet(flat) PROVE x \in U
  <2>1. PICK j \in 1 .. Len(flat) : x = flat[j]
    BY <1>5
  <2>2. PICK k \in 1 .. N : \E i \in 1 .. Len(ss[k]) : j = off[k] + i
    BY <1>8
  <2>3. PICK i \in 1 .. Len(ss[k]) : j = off[k] + i
    BY <2>2
  <2>4. x = ss[k][i]
    BY <1>1, <2>1, <2>3, Zenon
  <2> QED
    BY <1>3, <2>4
<1>10. ASSUME NEW x \in U PROVE x \in ToSet(flat)
  <2>1. PICK k \in 1 .. N : x \in ToSet(ss[k])
    BY <1>3
  <2>2. PICK i \in 1 .. Len(ss[k]) : x = ss[k][i]
    BY <1>3, <2>1
  <2>3. x = flat[off[k] + i]
    BY <1>1, <2>2
  <2> DEFINE H == {m \in k + 1 .. N + 1 : off[k] + i <= off[m]}
  <2>4. k \in Nat /\ k + 1 \in 1 .. N + 1 /\ k \in 1 .. N + 1 /\ off[k] \in Nat /\ Len(ss[k]) \in Nat
    <3>1. k \in Nat /\ k + 1 \in 1 .. N + 1 /\ k \in 1 .. N + 1
      BY <1>2
    <3> QED
      BY <1>1, <1>2, <3>1
  <2>5. k + 1 \in H
    <3>1. off[k + 1] = off[k] + Len(ss[k])
      BY <1>1
    <3>2. off[k] + i <= off[k + 1]
      BY <2>4, <3>1
    <3> QED
      BY <2>4, <3>2
  <2>6. ASSUME NEW m \in k + 1 .. (N + 1) - 1, m \in H PROVE m + 1 \in H
    <3>1. m \in 1 .. N /\ m + 1 \in k + 1 .. N + 1 /\ m \in 1 .. N + 1
      BY <1>2, <2>4
    <3>2. off[m + 1] = off[m] + Len(ss[m]) /\ off[m] \in Nat /\ Len(ss[m]) \in Nat
      BY <1>1, <1>2, <3>1
    <3>3. off[k] + i <= off[m]
      BY <2>6
    <3>4. off[k] + i <= off[m + 1]
      BY <2>4, <3>2, <3>3
    <3> QED
      BY <3>1, <3>4
  <2>7. k + 1 .. N + 1 \subseteq H
    <3> HIDE DEF H
    <3>1. N + 1 \in Nat /\ k + 1 \in Nat
      BY <1>2, <2>4
    <3> QED
      BY <2>5, <2>6, <3>1, CountUp
  <2>8. N + 1 \in k + 1 .. N + 1
    BY <1>2, <2>4
  <2>9. off[k] + i <= Len(flat)
    BY <1>1, <2>7, <2>8
  <2>10. off[k] + i \in 1 .. Len(flat)
    BY <1>4, <2>4, <2>9
  <2> QED
    BY <1>5, <2>3, <2>10
<1>11. ToSet(flat) = U
  BY <1>9, <1>10
<1> QED
  BY <1>11 DEF flat, U

\* A function that is defined by recursion on 0 .. N: it starts with r0, and
\* step[n] makes its value at n of the one before.
Steps(N, R) == [1 .. N -> [R -> R]]
CountedBy(g, N, R, r0, step) ==
  g \in [0 .. N -> R] /\ g[0] = r0 /\ \A n \in 1 .. N : g[n] = step[n][g[n - 1]]

\* Such a function exists.
LEMMA CountedRecursion ==
  ASSUME NEW N \in Nat, NEW R, NEW r0 \in R, NEW step \in Steps(N, R)
  PROVE  \E g : CountedBy(g, N, R, r0, step)
<1> DEFINE Part(g, m) == /\ g \in [0 .. N -> R] /\ g[0] = r0
                         /\ \A n \in 1 .. m : g[n] = step[n][g[n - 1]]
           G == {m \in 0 .. N : \E g : Part(g, m)}
<1>1. 0 \in G
  <2> DEFINE g == [n \in 0 .. N |-> r0]
  <2>1. g \in [0 .. N -> R] /\ g[0] = r0 /\ 1 .. 0 = {} /\ 0 \in 0 .. N
    OBVIOUS
  <2>2. Part(g, 0)
    <3> HIDE DEF g
    <3> QED
      BY <2>1
  <2> HIDE DEF Part, g
  <2> QED
    BY <2>1, <2>2
<1>2. ASSUME NEW m \in 0 .. N - 1, m \in G PROVE m + 1 \in G
  <2>1. PICK g : Part(g, m)
    BY <1>2
  <2> DEFINE r == step[m + 1][g[m]]
             h == [g EXCEPT ![m + 1] = r]
  <2>2. m + 1 \in 1 .. N /\ m + 1 \in 0 .. N /\ m \in 0 .. N
    OBVIOUS
  <2>3. g[m] \in R
    BY <2>1, <2>2
  <2>4. r \in R
    BY <2>2, <2>3 DEF Steps
  <2> HIDE DEF r
  <2>5. h \in [0 .. N -> R] /\ h[0] = r0 /\ h[m + 1] = r /\ \A n \in 0 .. N : n # m + 1 => h[n] = g[n]
    BY <2>1, <2>2, <2>4
  <2> HIDE DEF h
  <2>6. ASSUME NEW n \in 1 .. m + 1 PROVE h[n] = step[n][h[n - 1]]
    <3>1. CASE n = m + 1
      <4>1. n - 1 = m /\ m # m + 1
        BY <3>1
      <4>2. h[n - 1] = g[m]
        BY <2>2, <2>5, <4>1
      <4> QED
        BY <2>5, <3>1, <4>2 DEF r
    <3>2. CASE n # m + 1
      <4>1. n \in 1 .. m /\ n \in 0 .. N /\ n - 1 \in 0 .. N /\ n - 1 # m + 1
        BY <2>2, <3>2
      <4>2. h[n] = g[n] /\ h[n - 1] = g[n - 1]
        BY <2>5, <3>2, <4>1
      <4> QED
        BY <2>1, <4>1, <4>2
    <3> QED
      BY <3>1, <3>2
  <2>7. Part(h, m + 1)
    BY <2>5, <2>6
  <2> HIDE DEF Part
  <2> QED
    BY <2>2, <2>7
<1>3. 0 .. N \subseteq G
  <2> HIDE DEF G
  <2> QED
    BY <1>1, <1>2, CountUp
<1>4. PICK g : Part(g, N)
  <2>1. N \in 0 .. N
    OBVIOUS
  <2> HIDE DEF Part
  <2> QED
    BY <1>3, <2>1
<1> QED
  BY <1>4 DEF CountedBy

=============================================================================
