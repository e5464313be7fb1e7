----------------------------- MODULE SumTheorems -----------------------------
(***************************************************************************)
(* What Sum, over records numbered from 1, and SumFunctionOnSet, over a    *)
(* finite set of keys, do when one entry changes, when a record is added   *)
(* and when all entries are natural numbers; and that folds over finite    *)
(* sets and over lists exist.  The lemmas are proved by induction over Nat *)
(* in set form: NatSetInduction is derived from the                        *)
(* well-foundedness of < on Nat, which the library states for relations    *)
(* (WFMin), so no operator parameter has to be instantiated.               *)
(***************************************************************************)
EXTENDS Storage, Functions, FiniteSets, FiniteSetTheorems, TLAPS, WellFoundedInduction

\* Every non-empty set of natural numbers has a least element.
LEMMA NatLeast ==
  ASSUME NEW T, T \subseteq Nat, T # {}
  PROVE  \E x \in T : \A y \in T : x <= y
<1>1. IsWellFoundedOn(OpToRel(<, Nat), Nat)
  BY NatLessThanWellFounded
<1>2. PICK x \in T : \A y \in T : ~ (<<y, x>> \in OpToRel(<, Nat))
  BY <1>1, WFMin
<1>3. \A y \in T : ~(y < x)
  BY <1>2, Zenon DEF OpToRel
<1>4. QED
  <2>1. x \in T /\ T \subseteq Nat
    OBVIOUS
  <2>2. QED
    BY ONLY <1>3, <2>1

\* A set that holds 0 and is closed under successor holds every natural number.
LEMMA NatSetInduction ==
  ASSUME NEW S, 0 \in S, \A n \in Nat : n \in S => n + 1 \in S
  PROVE  Nat \subseteq S
<1>1. SUFFICES ASSUME NEW m \in Nat, m \notin S PROVE FALSE
  OBVIOUS
<1> DEFINE T == Nat \ S
<1>2. PICK x \in T : \A y \in T : x <= y
  <2>1. T \subseteq Nat /\ T # {} BY <1>1
  <2>2. QED BY <2>1, NatLeast
<1>3. x # 0 BY <1>2
<1>4. x - 1 \in Nat /\ x - 1 \notin T BY <1>2, <1>3
<1>5. QED BY <1>2, <1>4

\* Every non-empty set of natural numbers up to a bound has a greatest element.
LEMMA NatGreatest ==
  ASSUME NEW T, NEW b \in Nat, T \subseteq 0..b, T # {}
  PROVE  \E x \in T : \A y \in T : y <= x
<1> DEFINE D == {n \in Nat : b - n \in T}
<1>1. D \subseteq Nat /\ D # {}
  <2>1. PICK y \in T : TRUE
    OBVIOUS
  <2>2. y \in 0..b
    BY <2>1
  <2>3. b - y \in Nat /\ b - (b - y) = y
    BY <2>2
  <2>4. QED BY <2>3
<1>2. PICK n \in D : \A m \in D : n <= m
  <2> HIDE DEF D
  <2>1. QED BY <1>1, NatLeast
<1>3. ASSUME NEW y \in T PROVE y <= b - n
  <2>1. y \in 0..b
    OBVIOUS
  <2>2. b - y \in Nat /\ b - (b - y) = y
    BY <2>1
  <2>3. b - y \in D
    BY <2>2
  <2>4. n <= b - y /\ n \in Nat
    BY <1>2, <2>3
  <2>5. QED BY <2>1, <2>4
<1>4. QED BY <1>2, <1>3

\* s is the function of partial sums of f up to n.
IsPartial(f, s, n) == s = [i \in 0..n |-> IF i = 0 THEN 0 ELSE s[i-1] + f[i]]

\* The recursive function in the definition of Sum exists for every length.
LEMMA PartialExists ==
  ASSUME NEW f, NEW n \in Nat
  PROVE  \E s : IsPartial(f, s, n)
<1> DEFINE S == {m \in Nat : \E s : IsPartial(f, s, m)}
<1>1. 0 \in S
  <2>1. IsPartial(f, [i \in 0..0 |-> 0], 0)
    BY DEF IsPartial
  <2>2. QED BY <2>1
<1>2. ASSUME NEW m \in Nat, m \in S PROVE m + 1 \in S
  <2>1. PICK s : IsPartial(f, s, m) BY <1>2
  <2> DEFINE t == [i \in 0..(m+1) |-> IF i <= m THEN s[i] ELSE s[m] + f[m+1]]
  <2>2. \A i \in 0..(m+1) : t[i] = IF i = 0 THEN 0 ELSE t[i-1] + f[i]
    <3>1. TAKE i \in 0..(m+1)
    <3>2. CASE i <= m
      BY <2>1, <3>2 DEF IsPartial
    <3>3. CASE i = m + 1
      BY <2>1, <3>3 DEF IsPartial
    <3>4. QED BY <3>2, <3>3
  <2>3. IsPartial(f, t, m + 1)
    BY <2>2 DEF IsPartial
  <2>4. QED BY <2>3
<1>3. Nat \subseteq S
  <2> HIDE DEF S
  <2>1. QED BY <1>1, <1>2, NatSetInduction
<1>4. QED BY <1>3

\* Two functions that agree on 1..m have the same partial sum at m.
LEMMA PartialPrefix ==
  ASSUME NEW f, NEW g, NEW s, NEW t, NEW m \in Nat, NEW n \in Nat, m <= n,
         \A i \in 1..m : f[i] = g[i],
         IsPartial(f, s, m), IsPartial(g, t, n)
  PROVE  s[m] = t[m]
<1> DEFINE S == {i \in Nat : i <= m => s[i] = t[i]}
<1>1. 0 \in S BY DEF IsPartial
<1>2. ASSUME NEW i \in Nat, i \in S PROVE i + 1 \in S
  <2>1. SUFFICES ASSUME i + 1 <= m PROVE s[i+1] = t[i+1]
    OBVIOUS
  <2>2. s[i+1] = s[i] + f[i+1] BY <2>1 DEF IsPartial
  <2>3. t[i+1] = t[i] + g[i+1] BY <2>1 DEF IsPartial
  <2>4. s[i] = t[i] BY <1>2, <2>1
  <2>5. QED BY <2>1, <2>2, <2>3, <2>4
<1>3. Nat \subseteq S
  <2> HIDE DEF S
  <2>1. QED BY <1>1, <1>2, NatSetInduction
<1>4. QED BY <1>3

\* Sum is the last value of a function that satisfies the recursion.
LEMMA SumIsPartial ==
  ASSUME NEW f, NEW n \in Nat
  PROVE  \E s : IsPartial(f, s, n) /\ Sum(f, n) = s[n]
<1> DEFINE P == CHOOSE s : s = [i \in 0..n |-> IF i = 0 THEN 0 ELSE s[i-1] + f[i]]
<1>1. \E s : s = [i \in 0..n |-> IF i = 0 THEN 0 ELSE s[i-1] + f[i]]
  BY PartialExists DEF IsPartial
<1>2. P = [i \in 0..n |-> IF i = 0 THEN 0 ELSE P[i-1] + f[i]]
  BY <1>1
<1>3. Sum(f, n) = P[n] BY DEF Sum
<1>4. QED BY <1>2, <1>3 DEF IsPartial

\* The empty sum, of a contract that has no record yet, is 0.
LEMMA SumZero == ASSUME NEW f PROVE Sum(f, 0) = 0
<1>1. PICK s : IsPartial(f, s, 0) /\ Sum(f, 0) = s[0] BY SumIsPartial
<1>2. QED BY <1>1 DEF IsPartial

\* Appending a record adds its entry: the effect of a create call on a total.
LEMMA SumSucc ==
  ASSUME NEW f, NEW n \in Nat
  PROVE  Sum(f, n + 1) = Sum(f, n) + f[n + 1]
<1>1. PICK s : IsPartial(f, s, n) /\ Sum(f, n) = s[n] BY SumIsPartial
<1>2. PICK t : IsPartial(f, t, n + 1) /\ Sum(f, n + 1) = t[n + 1]
  BY SumIsPartial
<1>3. s[n] = t[n] BY <1>1, <1>2, PartialPrefix
<1>4. t[n + 1] = t[n] + f[n + 1] BY <1>2 DEF IsPartial
<1>5. QED BY <1>1, <1>2, <1>3, <1>4

\* Sum depends only on the entries 1..n: a call that touches none leaves the total.
LEMMA SumExt ==
  ASSUME NEW f, NEW g, NEW n \in Nat, \A i \in 1..n : f[i] = g[i]
  PROVE  Sum(f, n) = Sum(g, n)
<1>1. PICK s : IsPartial(f, s, n) /\ Sum(f, n) = s[n] BY SumIsPartial
<1>2. PICK t : IsPartial(g, t, n) /\ Sum(g, n) = t[n] BY SumIsPartial
<1>3. QED BY <1>1, <1>2, PartialPrefix

\* A sum of integers is an integer.
LEMMA SumType ==
  ASSUME NEW f, NEW n \in Nat, \A i \in 1..n : f[i] \in Int
  PROVE  Sum(f, n) \in Int
<1> DEFINE S == {m \in Nat : m <= n => Sum(f, m) \in Int}
<1>1. 0 \in S BY SumZero
<1>2. ASSUME NEW m \in Nat, m \in S PROVE m + 1 \in S BY <1>2, SumSucc
<1>3. Nat \subseteq S
  <2> HIDE DEF S
  <2>1. QED BY <1>1, <1>2, NatSetInduction
<1>4. QED BY <1>3

\* Changing entry k changes the sum by exactly the difference: the effect on a
\* total of a call that rewrites one stored record.
LEMMA SumUpdate ==
  ASSUME NEW f, NEW g, NEW n \in Nat, NEW k \in 1..n,
         \A i \in 1..n : f[i] \in Int /\ g[i] \in Int,
         \A i \in 1..n : i # k => f[i] = g[i]
  PROVE  Sum(g, n) = Sum(f, n) + g[k] - f[k]
<1> DEFINE S == {m \in Nat : m <= n =>
                   Sum(g, m) = Sum(f, m) + (IF k <= m THEN g[k] - f[k] ELSE 0)}
<1>0. \A m \in Nat : m <= n => Sum(f, m) \in Int /\ Sum(g, m) \in Int
  <2>1. TAKE m \in Nat
  <2>2. HAVE m <= n
  <2>3. \A i \in 1..m : f[i] \in Int /\ g[i] \in Int BY <2>2
  <2>4. QED BY <2>3, SumType
<1>1. 0 \in S BY SumZero
<1>2. ASSUME NEW m \in Nat, m \in S PROVE m + 1 \in S
  <2>1. SUFFICES ASSUME m + 1 <= n
                 PROVE Sum(g, m + 1) = Sum(f, m + 1) + (IF k <= m + 1 THEN g[k] - f[k] ELSE 0)
    OBVIOUS
  <2>2. Sum(g, m + 1) = Sum(g, m) + g[m + 1] BY SumSucc
  <2>3. Sum(f, m + 1) = Sum(f, m) + f[m + 1] BY SumSucc
  <2>4. Sum(g, m) = Sum(f, m) + (IF k <= m THEN g[k] - f[k] ELSE 0)
    BY <1>2, <2>1
  <2>5. Sum(g, m) \in Int /\ Sum(f, m) \in Int BY <1>0, <2>1
  <2>6. f[m+1] \in Int /\ g[m+1] \in Int /\ f[k] \in Int /\ g[k] \in Int BY <2>1
  <2>7. CASE k = m + 1 BY <2>2, <2>3, <2>4, <2>5, <2>6, <2>7
  <2>8. CASE k # m + 1
    <3>1. f[m+1] = g[m+1] BY <2>1, <2>8
    <3>2. k <= m + 1 <=> k <= m BY <2>8
    <3>3. QED BY <2>2, <2>3, <2>4, <2>5, <2>6, <3>1, <3>2
  <2>9. QED BY <2>7, <2>8
<1>3. Nat \subseteq S
  <2> HIDE DEF S
  <2>1. QED BY <1>1, <1>2, NatSetInduction
<1>4. n \in S BY <1>3
<1>5. Sum(f, n) \in Int BY <1>0
<1>6. QED BY <1>4, <1>5

\* A sum of natural numbers is at least each of its entries: no single record can
\* hold more than the total.
LEMMA SumMember ==
  ASSUME NEW f, NEW n \in Nat, NEW k \in 1..n,
         \A i \in 1..n : f[i] \in Nat
  PROVE  Sum(f, n) \in Nat /\ f[k] <= Sum(f, n)
<1> DEFINE S == {m \in Nat : m <= n =>
                   Sum(f, m) \in Nat /\ (k <= m => f[k] <= Sum(f, m))}
<1>1. 0 \in S BY SumZero
<1>2. ASSUME NEW m \in Nat, m \in S PROVE m + 1 \in S
  <2>1. SUFFICES ASSUME m + 1 <= n
                 PROVE /\ Sum(f, m + 1) \in Nat
                       /\ k <= m + 1 => f[k] <= Sum(f, m + 1)
    OBVIOUS
  <2>2. Sum(f, m + 1) = Sum(f, m) + f[m + 1] BY SumSucc
  <2>3. f[m + 1] \in Nat /\ f[k] \in Nat BY <2>1
  <2>4. Sum(f, m) \in Nat /\ (k <= m => f[k] <= Sum(f, m)) BY <1>2, <2>1
  <2>5. k <= m + 1 => k <= m \/ k = m + 1 OBVIOUS
  <2>6. QED BY <2>2, <2>3, <2>4, <2>5
<1>3. Nat \subseteq S
  <2> HIDE DEF S
  <2>1. QED BY <1>1, <1>2, NatSetInduction
<1>4. QED BY <1>3

\* A sum of zeros is zero: the total over records that hold nothing yet.
LEMMA SumOfZeros ==
  ASSUME NEW f, NEW n \in Nat, \A i \in 1..n : f[i] = 0
  PROVE  Sum(f, n) = 0
<1> DEFINE S == {m \in Nat : m <= n => Sum(f, m) = 0}
<1>1. 0 \in S BY SumZero
<1>2. ASSUME NEW m \in Nat, m \in S PROVE m + 1 \in S
  <2>1. SUFFICES ASSUME m + 1 <= n PROVE Sum(f, m + 1) = 0
    OBVIOUS
  <2>2. Sum(f, m + 1) = Sum(f, m) + f[m + 1] BY SumSucc
  <2>3. QED BY <1>2, <2>1, <2>2
<1>3. Nat \subseteq S
  <2> HIDE DEF S
  <2>1. QED BY <1>1, <1>2, NatSetInduction
<1>4. QED BY <1>3

\* A sum of parts is not negative and not more than the sum of the wholes.
LEMMA SumMonotone ==
  ASSUME NEW f, NEW g, NEW n \in Nat,
         \A i \in 1..n : f[i] \in Int /\ g[i] \in Int /\ 0 <= f[i] /\ f[i] <= g[i]
  PROVE  Sum(f, n) \in Int /\ Sum(g, n) \in Int /\ 0 <= Sum(f, n) /\ Sum(f, n) <= Sum(g, n)
<1> DEFINE S == {m \in Nat : m <= n =>
                   Sum(f, m) \in Int /\ Sum(g, m) \in Int /\ 0 <= Sum(f, m) /\ Sum(f, m) <= Sum(g, m)}
<1>1. 0 \in S BY SumZero
<1>2. ASSUME NEW m \in Nat, m \in S PROVE m + 1 \in S
  <2>1. SUFFICES ASSUME m + 1 <= n
                 PROVE  /\ Sum(f, m + 1) \in Int /\ Sum(g, m + 1) \in Int
                        /\ 0 <= Sum(f, m + 1) /\ Sum(f, m + 1) <= Sum(g, m + 1)
    OBVIOUS
  <2>2. Sum(f, m + 1) = Sum(f, m) + f[m + 1] /\ Sum(g, m + 1) = Sum(g, m) + g[m + 1] BY SumSucc
  <2>3. f[m + 1] \in Int /\ g[m + 1] \in Int /\ 0 <= f[m + 1] /\ f[m + 1] <= g[m + 1] BY <2>1
  <2>4. Sum(f, m) \in Int /\ Sum(g, m) \in Int /\ 0 <= Sum(f, m) /\ Sum(f, m) <= Sum(g, m)
    BY <1>2, <2>1
  <2>5. QED BY <2>2, <2>3, <2>4
<1>3. Nat \subseteq S
  <2> HIDE DEF S
  <2>1. QED BY <1>1, <1>2, NatSetInduction
<1>4. QED BY <1>3

-----------------------------------------------------------------------------
(* Sums over a finite set of keys (SumFunctionOnSet of the community modules) *)

\* g gives every subset s of S the sum of f over s, taking the elements in the order of CHOOSE.
IsSums(f, S, g) ==
    g = [s \in SUBSET S |-> IF s = {} THEN 0
                            ELSE f[CHOOSE x \in s : TRUE] + g[s \ {CHOOSE x \in s : TRUE}]]

LEMMA SumIsSums ==
  ASSUME NEW f, NEW S, NEW g, IsSums(f, S, g)
  PROVE  \E h : IsSums(f, S, h) /\ SumFunctionOnSet(f, S) = h[S]
<1> DEFINE P == CHOOSE h : IsSums(f, S, h)
<1>1. IsSums(f, S, P) BY DEF IsSums
<1>2. SumFunctionOnSet(f, S) = P[S]
  BY DEF SumFunctionOnSet, FoldFunctionOnSet, MapThenFoldSet, IsSums
<1>3. QED BY <1>1, <1>2

LEMMA SumsExist ==
  ASSUME NEW f, NEW S, IsFiniteSet(S)
  PROVE  \E g : IsSums(f, S, g)
<1> DEFINE B(n) == {s \in SUBSET S : Cardinality(s) <= n}
           Pick(s) == CHOOSE x \in s : TRUE
           Body(g, s) == IF s = {} THEN 0 ELSE f[Pick(s)] + g[s \ {Pick(s)}]
           T == {n \in Nat : \E g : g = [s \in B(n) |-> Body(g, s)]}
<1>0. \A s \in SUBSET S : /\ IsFiniteSet(s) /\ Cardinality(s) \in Nat
                          /\ Cardinality(s) <= Cardinality(S) /\ (Cardinality(s) = 0 <=> s = {})
  BY FS_Subset, FS_CardinalityType, FS_EmptySet
<1>1. 0 \in T
  <2> DEFINE g == [s \in B(0) |-> 0]
  <2>1. \A s \in B(0) : s = {}
    BY <1>0
  <2>2. \A s \in B(0) : Body(g, s) = 0
    BY <2>1
  <2>3. g = [s \in B(0) |-> Body(g, s)]
    BY <2>2
  <2>4. QED BY <2>3
<1>2. ASSUME NEW n \in Nat, n \in T PROVE n + 1 \in T
  <2>1. PICK g : g = [s \in B(n) |-> Body(g, s)]
    BY <1>2
  <2> DEFINE h == [s \in B(n + 1) |-> Body(g, s)]
  <2>2. ASSUME NEW s \in B(n + 1) PROVE Body(g, s) = Body(h, s)
    <3>1. CASE s = {}
      BY <3>1
    <3>2. CASE s # {}
      <4>1. Pick(s) \in s
        BY <3>2
      <4>2. Cardinality(s \ {Pick(s)}) = Cardinality(s) - 1
        BY <4>1, <1>0, FS_RemoveElement
      <4>3. s \ {Pick(s)} \in B(n) /\ s \ {Pick(s)} \in B(n + 1)
        BY <4>2, <1>0
      <4>4. g[s \ {Pick(s)}] = Body(g, s \ {Pick(s)})
        BY <2>1, <4>3
      <4>5. h[s \ {Pick(s)}] = Body(g, s \ {Pick(s)})
        BY <4>3
      <4> HIDE DEF h, Pick
      <4>6. QED BY <3>2, <4>4, <4>5
    <3>3. QED BY <3>1, <3>2
  <2>3. h = [s \in B(n + 1) |-> Body(h, s)]
    <3>1. h = [s \in B(n + 1) |-> Body(g, s)]
      OBVIOUS
    <3> HIDE DEF h, Body
    <3>2. QED BY <2>2, <3>1
  <2> HIDE DEF h, Body
  <2>4. \E e : e = [s \in B(n + 1) |-> Body(e, s)]
    BY <2>3, Zenon
  <2>5. n + 1 \in Nat
    OBVIOUS
  <2> HIDE DEF B
  <2>6. QED BY <2>4, <2>5, Zenon
<1>3. Cardinality(S) \in T
  <2>1. Cardinality(S) \in Nat
    BY FS_CardinalityType
  <2> HIDE DEF T
  <2>2. QED BY <1>1, <1>2, <2>1, NatSetInduction
<1>4. PICK g : g = [s \in B(Cardinality(S)) |-> Body(g, s)]
  BY <1>3
<1>5. B(Cardinality(S)) = SUBSET S
  BY <1>0
<1>6. IsSums(f, S, g)
  BY <1>4, <1>5 DEF IsSums
<1>7. QED BY <1>6

LEMMA SumsInt ==
  ASSUME NEW f, NEW S, NEW g, IsFiniteSet(S), \A x \in S : f[x] \in Int, IsSums(f, S, g)
  PROVE  \A s \in SUBSET S : g[s] \in Int
<1> DEFINE T == {n \in Nat : \A s \in SUBSET S : Cardinality(s) = n => g[s] \in Int}
<1>0. \A s \in SUBSET S : /\ IsFiniteSet(s) /\ Cardinality(s) \in Nat
                          /\ (Cardinality(s) = 0 <=> s = {})
                          /\ \A k \in s : Cardinality(s \ {k}) = Cardinality(s) - 1
  BY FS_Subset, FS_CardinalityType, FS_EmptySet, FS_RemoveElement
<1>1. 0 \in T
  BY <1>0 DEF IsSums
<1>2. ASSUME NEW n \in Nat, n \in T PROVE n + 1 \in T
  <2>1. ASSUME NEW s \in SUBSET S, Cardinality(s) = n + 1 PROVE g[s] \in Int
    <3>1. PICK k \in s : g[s] = f[k] + g[s \ {k}]
      <4>1. s # {}
        BY <1>0, <2>1
      <4>2. QED BY <4>1 DEF IsSums
    <3>2. s \ {k} \in SUBSET S /\ Cardinality(s \ {k}) = n
      BY <1>0, <2>1
    <3>3. g[s \ {k}] \in Int
      BY <1>2, <3>2
    <3>4. QED BY <3>1, <3>3
  <2>2. QED BY <2>1
<1> HIDE DEF T
<1>3. Nat \subseteq T
  BY <1>1, <1>2, NatSetInduction
<1>4. QED BY <1>0, <1>3 DEF T

\* The order does not matter: any element may be taken first.
LEMMA SumsSplit ==
  ASSUME NEW f, NEW S, NEW g, IsFiniteSet(S), \A x \in S : f[x] \in Int, IsSums(f, S, g)
  PROVE  \A s \in SUBSET S : \A k \in s : g[s] = f[k] + g[s \ {k}]
<1> DEFINE Pick(s) == CHOOSE x \in s : TRUE
           T == {n \in Nat : \A s \in SUBSET S : Cardinality(s) = n =>
                                 \A k \in s : g[s] = f[k] + g[s \ {k}]}
<1>0. \A s \in SUBSET S : /\ IsFiniteSet(s) /\ Cardinality(s) \in Nat
                          /\ (Cardinality(s) = 0 <=> s = {})
                          /\ \A k \in s : Cardinality(s \ {k}) = Cardinality(s) - 1
  BY FS_Subset, FS_CardinalityType, FS_EmptySet, FS_RemoveElement
<1>a. \A s \in SUBSET S : g[s] \in Int
  BY SumsInt
<1>b. ASSUME NEW s \in SUBSET S, s # {}
      PROVE  Pick(s) \in s /\ g[s] = f[Pick(s)] + g[s \ {Pick(s)}]
  BY <1>b DEF IsSums
<1> HIDE DEF Pick
<1>1. 0 \in T
  BY <1>0
<1>2. ASSUME NEW n \in Nat, n \in T PROVE n + 1 \in T
  <2>1. SUFFICES ASSUME NEW s \in SUBSET S, Cardinality(s) = n + 1, NEW k \in s
                 PROVE  g[s] = f[k] + g[s \ {k}]
    OBVIOUS
  <2> DEFINE x == Pick(s)
  <2>2. x \in s /\ g[s] = f[x] + g[s \ {x}]
    BY <1>b
  <2> HIDE DEF x
  <2>3. CASE k = x
    BY <2>2, <2>3
  <2>4. CASE k # x
    <3>1. /\ s \ {k} \in SUBSET S /\ Cardinality(s \ {k}) = n
          /\ s \ {x} \in SUBSET S /\ Cardinality(s \ {x}) = n
          /\ (s \ {k}) \ {x} = (s \ {x}) \ {k} /\ (s \ {x}) \ {k} \in SUBSET S
      BY <1>0, <2>1, <2>2
    <3>2. g[s \ {x}] = f[k] + g[(s \ {x}) \ {k}] /\ g[s \ {k}] = f[x] + g[(s \ {k}) \ {x}]
      BY <1>2, <2>2, <2>4, <3>1
    <3>3. f[x] \in Int /\ f[k] \in Int /\ g[(s \ {x}) \ {k}] \in Int
      BY <1>a, <2>2, <3>1
    <3>4. g[s] = f[x] + (f[k] + g[(s \ {x}) \ {k}])
      BY <2>2, <3>2, Zenon
    <3>5. g[s \ {k}] = f[x] + g[(s \ {x}) \ {k}]
      BY <3>1, <3>2, Zenon
    <3> DEFINE r == g[(s \ {x}) \ {k}]
    <3> HIDE DEF r
    <3>6. QED BY ONLY <3>3, <3>4, <3>5 DEF r
  <2>5. QED BY <2>3, <2>4
<1> HIDE DEF T
<1>3. Nat \subseteq T
  BY <1>1, <1>2, NatSetInduction
<1>4. QED BY <1>0, <1>3 DEF T

LEMMA SumsAgree ==
  ASSUME NEW f, NEW h, NEW S, NEW U, NEW g, NEW e,
         IsFiniteSet(S), IsSums(f, S, g), IsSums(h, U, e),
         NEW R, R \subseteq S, R \subseteq U, \A x \in R : f[x] = h[x]
  PROVE  g[R] = e[R]
<1> DEFINE T == {n \in Nat : \A s \in SUBSET S : Cardinality(s) = n =>
                                 (s \subseteq U /\ (\A x \in s : f[x] = h[x]) => g[s] = e[s])}
<1>0. \A s \in SUBSET S : /\ IsFiniteSet(s) /\ Cardinality(s) \in Nat
                          /\ (Cardinality(s) = 0 <=> s = {})
                          /\ \A k \in s : Cardinality(s \ {k}) = Cardinality(s) - 1
  BY FS_Subset, FS_CardinalityType, FS_EmptySet, FS_RemoveElement
<1>1. 0 \in T
  BY <1>0 DEF IsSums
<1>2. ASSUME NEW n \in Nat, n \in T PROVE n + 1 \in T
  <2>1. SUFFICES ASSUME NEW s \in SUBSET S, Cardinality(s) = n + 1, s \subseteq U,
                        \A x \in s : f[x] = h[x]
                 PROVE  g[s] = e[s]
    OBVIOUS
  <2> DEFINE x == CHOOSE k \in s : TRUE
  <2>2. s # {} /\ x \in s
    BY <1>0, <2>1
  <2>3. g[s] = f[x] + g[s \ {x}] /\ e[s] = h[x] + e[s \ {x}]
    <3>1. s \in SUBSET U
      BY <2>1
    <3>2. QED BY <2>2, <3>1 DEF IsSums
  <2> HIDE DEF x
  <2>4. s \ {x} \in SUBSET S /\ s \ {x} \subseteq U /\ Cardinality(s \ {x}) = n
    <3>1. s \ {x} \in SUBSET S /\ s \ {x} \subseteq U
      BY <2>1
    <3>2. Cardinality(s \ {x}) = (n + 1) - 1
      BY <1>0, <2>1, <2>2
    <3>3. QED BY <3>1, <3>2
  <2>5. g[s \ {x}] = e[s \ {x}]
    BY <1>2, <2>1, <2>4
  <2>6. QED BY <2>1, <2>2, <2>3, <2>5
<1> HIDE DEF T
<1>3. Nat \subseteq T
  BY <1>1, <1>2, NatSetInduction
<1>4. R \in SUBSET S
  OBVIOUS
<1>5. Cardinality(R) \in T
  BY <1>0, <1>3, <1>4
<1>6. QED BY <1>4, <1>5 DEF T

LEMMA SetSumEmpty == ASSUME NEW f PROVE SumFunctionOnSet(f, {}) = 0
<1>1. PICK g : IsSums(f, {}, g)
  BY FS_EmptySet, SumsExist
<1>2. PICK h : IsSums(f, {}, h) /\ SumFunctionOnSet(f, {}) = h[{}]
  BY <1>1, SumIsSums
<1>3. QED BY <1>2 DEF IsSums

LEMMA SetSumExt ==
  ASSUME NEW f, NEW g, NEW S, IsFiniteSet(S), \A x \in S : f[x] = g[x]
  PROVE  SumFunctionOnSet(f, S) = SumFunctionOnSet(g, S)
<1>1. PICK a : IsSums(f, S, a) /\ SumFunctionOnSet(f, S) = a[S]
  BY SumsExist, SumIsSums
<1>2. PICK b : IsSums(g, S, b) /\ SumFunctionOnSet(g, S) = b[S]
  BY SumsExist, SumIsSums
<1>3. a[S] = b[S]
  BY <1>1, <1>2, SumsAgree
<1>4. QED BY <1>1, <1>2, <1>3

\* One element is taken out.
LEMMA SetSumSplit ==
  ASSUME NEW f, NEW S, IsFiniteSet(S), \A x \in S : f[x] \in Int, NEW k \in S
  PROVE  SumFunctionOnSet(f, S) = f[k] + SumFunctionOnSet(f, S \ {k})
<1>1. PICK a : IsSums(f, S, a) /\ SumFunctionOnSet(f, S) = a[S]
  BY SumsExist, SumIsSums
<1>2. IsFiniteSet(S \ {k})
  BY FS_Subset
<1>3. PICK b : IsSums(f, S \ {k}, b) /\ SumFunctionOnSet(f, S \ {k}) = b[S \ {k}]
  BY <1>2, SumsExist, SumIsSums
<1>4. a[S] = f[k] + a[S \ {k}]
  BY <1>1, SumsSplit
<1>5. a[S \ {k}] = b[S \ {k}]
  BY <1>1, <1>3, SumsAgree
<1>6. QED BY <1>1, <1>3, <1>4, <1>5

LEMMA SetSumInt ==
  ASSUME NEW f, NEW S, IsFiniteSet(S), \A x \in S : f[x] \in Int
  PROVE  SumFunctionOnSet(f, S) \in Int
<1>1. PICK a : IsSums(f, S, a) /\ SumFunctionOnSet(f, S) = a[S]
  BY SumsExist, SumIsSums
<1>2. QED BY <1>1, SumsInt

\* One entry is added, changed or taken away; the others stay.
Summable(f, S) == IsFiniteSet(S) /\ \A x \in S : f[x] \in Int
OneChange(f, S, g, R, k) ==
    /\ Summable(f, S)
    /\ R \ {k} = S \ {k}
    /\ \A x \in S \ {k} : g[x] = f[x]
    /\ k \in R => g[k] \in Int

LEMMA SetSumChange ==
  ASSUME NEW f, NEW S, NEW g, NEW R, NEW k, OneChange(f, S, g, R, k)
  PROVE  /\ Summable(g, R)
         /\ SumFunctionOnSet(g, R) = SumFunctionOnSet(f, S)
                - (IF k \in S THEN f[k] ELSE 0) + (IF k \in R THEN g[k] ELSE 0)
<1> USE DEF Summable, OneChange
<1> DEFINE Q == S \ {k}
<1>1. IsFiniteSet(Q) /\ IsFiniteSet(Q \cup {k})
  BY FS_Subset, FS_AddElement
<1>2. IsFiniteSet(R)
  BY <1>1, FS_Subset
<1>3. \A x \in R : g[x] \in Int
  OBVIOUS
<1>4. SumFunctionOnSet(f, Q) = SumFunctionOnSet(g, Q) /\ SumFunctionOnSet(f, Q) \in Int
  BY <1>1, SetSumExt, SetSumInt
<1>5. k \in S => SumFunctionOnSet(f, S) = f[k] + SumFunctionOnSet(f, Q)
  BY SetSumSplit
<1>6. k \in R => SumFunctionOnSet(g, R) = g[k] + SumFunctionOnSet(g, Q)
  <2>1. ASSUME k \in R PROVE SumFunctionOnSet(g, R) = g[k] + SumFunctionOnSet(g, R \ {k})
    BY <1>2, <1>3, <2>1, SetSumSplit
  <2>2. R \ {k} = Q
    OBVIOUS
  <2>3. QED BY <2>1, <2>2
<1>7. k \notin S => Q = S
  OBVIOUS
<1>8. k \notin R => Q = R
  OBVIOUS
<1> HIDE DEF Q
<1>9. SumFunctionOnSet(g, R) = SumFunctionOnSet(f, S)
                - (IF k \in S THEN f[k] ELSE 0) + (IF k \in R THEN g[k] ELSE 0)
  <2>1. k \in S => f[k] \in Int
    OBVIOUS
  <2>2. QED BY ONLY <1>4, <1>5, <1>6, <1>7, <1>8, <2>1, k \in R => g[k] \in Int
<1>10. QED BY <1>2, <1>3, <1>9

\* Natural numbers sum to one that is no less than any of them.
LEMMA SetSumNat ==
  ASSUME NEW f, NEW S, IsFiniteSet(S), \A x \in S : f[x] \in Nat
  PROVE  SumFunctionOnSet(f, S) \in Nat /\ \A k \in S : f[k] <= SumFunctionOnSet(f, S)
<1> DEFINE T == {n \in Nat : \A s \in SUBSET S : Cardinality(s) = n => SumFunctionOnSet(f, s) \in Nat}
<1>0. \A s \in SUBSET S : /\ IsFiniteSet(s) /\ Cardinality(s) \in Nat
                          /\ (Cardinality(s) = 0 <=> s = {})
                          /\ \A k \in s : Cardinality(s \ {k}) = Cardinality(s) - 1
  BY FS_Subset, FS_CardinalityType, FS_EmptySet, FS_RemoveElement
<1>1. 0 \in T
  BY <1>0, SetSumEmpty
<1>2. ASSUME NEW n \in Nat, n \in T PROVE n + 1 \in T
  <2>1. ASSUME NEW s \in SUBSET S, Cardinality(s) = n + 1 PROVE SumFunctionOnSet(f, s) \in Nat
    <3>1. PICK k \in s : TRUE
      BY <1>0, <2>1
    <3>2. SumFunctionOnSet(f, s) = f[k] + SumFunctionOnSet(f, s \ {k})
      BY <1>0, SetSumSplit
    <3>3. SumFunctionOnSet(f, s \ {k}) \in Nat
      BY <1>0, <1>2, <2>1
    <3>4. QED BY <3>2, <3>3
  <2>2. QED BY <2>1
<1> HIDE DEF T
<1>3. Nat \subseteq T
  BY <1>1, <1>2, NatSetInduction
<1>4. \A s \in SUBSET S : SumFunctionOnSet(f, s) \in Nat
  BY <1>0, <1>3 DEF T
<1>5. ASSUME NEW k \in S PROVE f[k] <= SumFunctionOnSet(f, S)
  <2>1. SumFunctionOnSet(f, S) = f[k] + SumFunctionOnSet(f, S \ {k})
    BY SetSumSplit
  <2>2. SumFunctionOnSet(f, S \ {k}) \in Nat /\ f[k] \in Nat
    BY <1>4
  <2>3. QED BY <2>1, <2>2
<1>6. QED BY <1>4, <1>5

\* What holds of the empty set and of every set with one element more holds of a finite set.
LEMMA SubsetInduction ==
  ASSUME NEW S, NEW F, IsFiniteSet(S), {} \in F,
         \A s \in SUBSET S : \A x \in S \ s : s \in F => s \cup {x} \in F
  PROVE  S \in F
<1> DEFINE T == {n \in Nat : \A s \in SUBSET S : Cardinality(s) = n => s \in F}
<1>0. \A s \in SUBSET S : /\ IsFiniteSet(s) /\ Cardinality(s) \in Nat
                          /\ (Cardinality(s) = 0 <=> s = {})
                          /\ \A k \in s : Cardinality(s \ {k}) = Cardinality(s) - 1
  BY FS_Subset, FS_CardinalityType, FS_EmptySet, FS_RemoveElement
<1>1. 0 \in T
  BY <1>0
<1>2. ASSUME NEW n \in Nat, n \in T PROVE n + 1 \in T
  <2>1. ASSUME NEW s \in SUBSET S, Cardinality(s) = n + 1 PROVE s \in F
    <3>1. PICK x \in s : TRUE
      BY <1>0, <2>1
    <3>2. s \ {x} \in SUBSET S /\ Cardinality(s \ {x}) = (n + 1) - 1
      BY <1>0, <2>1
    <3>3. s \ {x} \in F
      BY <1>2, <3>2
    <3>4. x \in S \ (s \ {x}) /\ (s \ {x}) \cup {x} = s
      OBVIOUS
    <3>5. QED BY <3>2, <3>3, <3>4
  <2>2. QED BY <2>1
<1> HIDE DEF T
<1>3. Cardinality(S) \in T
  BY <1>0, <1>1, <1>2, NatSetInduction
<1>4. QED BY <1>3 DEF T

\* Sums add up term by term.
LEMMA SetSumAdd ==
  ASSUME NEW f, NEW g, NEW h, NEW S, Summable(f, S), Summable(g, S),
         \A x \in S : h[x] = f[x] + g[x]
  PROVE  SumFunctionOnSet(h, S) = SumFunctionOnSet(f, S) + SumFunctionOnSet(g, S)
<1> DEFINE F == {s \in SUBSET S : SumFunctionOnSet(h, s)
                                      = SumFunctionOnSet(f, s) + SumFunctionOnSet(g, s)}
<1>1. {} \in F
  BY SetSumEmpty
<1>2. ASSUME NEW s \in SUBSET S, NEW x \in S \ s, s \in F PROVE s \cup {x} \in F
  <2>1. (s \cup {x}) \ {x} = s /\ x \in s \cup {x} /\ IsFiniteSet(s \cup {x}) /\ IsFiniteSet(s)
    BY FS_Subset DEF Summable
  <2>2. \A y \in s \cup {x} : f[y] \in Int /\ g[y] \in Int /\ h[y] \in Int
    BY DEF Summable
  <2>3. SumFunctionOnSet(f, s \cup {x}) = f[x] + SumFunctionOnSet(f, s)
    BY <2>1, <2>2, SetSumSplit
  <2>4. SumFunctionOnSet(g, s \cup {x}) = g[x] + SumFunctionOnSet(g, s)
    BY <2>1, <2>2, SetSumSplit
  <2>5. SumFunctionOnSet(h, s \cup {x}) = h[x] + SumFunctionOnSet(h, s)
    BY <2>1, <2>2, SetSumSplit
  <2>6. SumFunctionOnSet(f, s) \in Int /\ SumFunctionOnSet(g, s) \in Int
    BY <2>1, <2>2, SetSumInt
  <2>7. SumFunctionOnSet(h, s) = SumFunctionOnSet(f, s) + SumFunctionOnSet(g, s)
    BY <1>2
  <2>8. f[x] \in Int /\ g[x] \in Int /\ h[x] = f[x] + g[x]
    BY <2>2
  <2>9. SumFunctionOnSet(h, s \cup {x})
            = SumFunctionOnSet(f, s \cup {x}) + SumFunctionOnSet(g, s \cup {x})
    BY ONLY <2>3, <2>4, <2>5, <2>6, <2>7, <2>8
  <2>10. QED BY <2>9
<1>3. IsFiniteSet(S)
  BY DEF Summable
<1>4. S \in F
  <2> HIDE DEF F
  <2>1. QED BY <1>1, <1>2, <1>3, SubsetInduction
<1>5. QED BY <1>4

\* Zeros add nothing.
LEMMA SetSumExtend ==
  ASSUME NEW f, NEW S, NEW R, Summable(f, R), S \subseteq R, \A x \in R \ S : f[x] = 0
  PROVE  SumFunctionOnSet(f, R) = SumFunctionOnSet(f, S)
<1> DEFINE F == {s \in SUBSET R : SumFunctionOnSet(f, s) = SumFunctionOnSet(f, s \cap S)}
<1>1. {} \in F
  <2>1. {} \cap S = {}
    OBVIOUS
  <2>2. QED BY <2>1
<1>2. ASSUME NEW s \in SUBSET R, NEW x \in R \ s, s \in F PROVE s \cup {x} \in F
  <2>1. (s \cup {x}) \ {x} = s /\ x \in s \cup {x} /\ IsFiniteSet(s \cup {x}) /\ IsFiniteSet(s)
        /\ IsFiniteSet((s \cup {x}) \cap S) /\ IsFiniteSet(s \cap S)
    BY FS_Subset DEF Summable
  <2>2. \A y \in s \cup {x} : f[y] \in Int
    BY DEF Summable
  <2>3. SumFunctionOnSet(f, s \cup {x}) = f[x] + SumFunctionOnSet(f, s)
    BY <2>1, <2>2, SetSumSplit
  <2>4. SumFunctionOnSet(f, s) = SumFunctionOnSet(f, s \cap S)
        /\ SumFunctionOnSet(f, s) \in Int
    BY <1>2, <2>1, <2>2, SetSumInt
  <2>5. CASE x \in S
    <3>1. ((s \cup {x}) \cap S) \ {x} = s \cap S /\ x \in (s \cup {x}) \cap S
      BY <2>5
    <3>2. \A y \in (s \cup {x}) \cap S : f[y] \in Int
      BY <2>2
    <3>3. SumFunctionOnSet(f, (s \cup {x}) \cap S) = f[x] + SumFunctionOnSet(f, s \cap S)
      BY <2>1, <3>1, <3>2, SetSumSplit
    <3>4. QED BY <2>3, <2>4, <3>3
  <2>6. CASE x \notin S
    <3>1. (s \cup {x}) \cap S = s \cap S /\ f[x] = 0
      BY <2>6
    <3>2. SumFunctionOnSet(f, s \cup {x}) = SumFunctionOnSet(f, s)
      <4>1. f[x] = 0
        BY <3>1
      <4>2. SumFunctionOnSet(f, s) \in Int
        BY <2>4
      <4>3. QED BY ONLY <2>3, <4>1, <4>2
    <3>3. QED BY <2>4, <3>1, <3>2
  <2>7. QED BY <2>5, <2>6
<1>3. IsFiniteSet(R)
  BY DEF Summable
<1>4. R \in F
  <2> HIDE DEF F
  <2>1. QED BY <1>1, <1>2, <1>3, SubsetInduction
<1>5. R \cap S = S
  OBVIOUS
<1>6. QED BY <1>4, <1>5

\* Terms may be grouped by a key first.
LEMMA SetSumGroup ==
  ASSUME NEW f, NEW S, NEW key, NEW K, NEW g, Summable(f, S), IsFiniteSet(K),
         \A x \in S : key[x] \in K,
         \A k \in K : g[k] = SumFunctionOnSet(f, {x \in S : key[x] = k})
  PROVE  Summable(g, K) /\ SumFunctionOnSet(g, K) = SumFunctionOnSet(f, S)
<1> DEFINE Part(s) == [k \in K |-> SumFunctionOnSet(f, {x \in s : key[x] = k})]
           F == {s \in SUBSET S : /\ Summable(Part(s), K)
                                  /\ SumFunctionOnSet(Part(s), K) = SumFunctionOnSet(f, s)}
<1>0. \A s \in SUBSET S : Summable(f, s) /\ Summable(Part(s), K)
  <2>1. ASSUME NEW s \in SUBSET S PROVE Summable(f, s)
    BY FS_Subset DEF Summable
  <2>2. ASSUME NEW s \in SUBSET S, NEW k \in K
        PROVE  SumFunctionOnSet(f, {x \in s : key[x] = k}) \in Int
    <3>1. Summable(f, {x \in s : key[x] = k})
      <4>1. {x \in s : key[x] = k} \in SUBSET S
        OBVIOUS
      <4>2. QED BY <2>1, <4>1
    <3>2. QED BY <3>1, SetSumInt DEF Summable
  <2>3. QED BY <2>1, <2>2 DEF Summable
<1>1. {} \in F
  <2>1. \A k \in K : Part({})[k] = 0
    <3>1. \A k : {x \in {} : key[x] = k} = {}
      OBVIOUS
    <3>2. QED BY <3>1, SetSumEmpty
  <2>2. {} \subseteq K /\ Summable(Part({}), K)
    BY <1>0
  <2>3. SumFunctionOnSet(Part({}), K) = SumFunctionOnSet(Part({}), {})
    <3> HIDE DEF Part
    <3>1. QED BY <2>1, <2>2, SetSumExtend
  <2>4. QED BY <1>0, <2>3, SetSumEmpty
<1>2. ASSUME NEW s \in SUBSET S, NEW x \in S \ s, s \in F PROVE s \cup {x} \in F
  <2> DEFINE r == s \cup {x}
  <2>1. r \in SUBSET S /\ r \ {x} = s /\ x \in r
    OBVIOUS
  <2>2. SumFunctionOnSet(f, r) = f[x] + SumFunctionOnSet(f, s)
    <3>1. Summable(f, r)
      BY <1>0, <2>1
    <3> HIDE DEF r
    <3>2. QED BY <2>1, <3>1, SetSumSplit DEF Summable
  <2>3. key[x] \in K
    OBVIOUS
  <2>4. ASSUME NEW k \in K, k # key[x] PROVE Part(r)[k] = Part(s)[k]
    <3>1. {y \in r : key[y] = k} = {y \in s : key[y] = k}
      BY <2>4
    <3>2. QED BY <3>1
  <2>5. Part(r)[key[x]] = f[x] + Part(s)[key[x]]
    <3> DEFINE A == {y \in r : key[y] = key[x]}
    <3>1. A \in SUBSET S /\ x \in A /\ A \ {x} = {y \in s : key[y] = key[x]}
      OBVIOUS
    <3>2. Summable(f, A)
      BY <1>0, <3>1
    <3>3. Part(r)[key[x]] = SumFunctionOnSet(f, A)
      BY <2>3
    <3>4. Part(s)[key[x]] = SumFunctionOnSet(f, A \ {x})
      BY <2>3, <3>1
    <3> HIDE DEF A, Part
    <3>5. SumFunctionOnSet(f, A) = f[x] + SumFunctionOnSet(f, A \ {x})
      BY <3>1, <3>2, SetSumSplit DEF Summable
    <3>6. QED BY <3>3, <3>4, <3>5
  <2>6. Summable(Part(s), K) /\ Summable(Part(r), K)
    BY <1>0, <2>1
  <2>7. SumFunctionOnSet(Part(s), K) = SumFunctionOnSet(f, s)
    BY <1>2
  <2> HIDE DEF Part
  <2>8. OneChange(Part(s), K, Part(r), K, key[x])
    BY <2>3, <2>4, <2>6 DEF OneChange, Summable
  <2>9. SumFunctionOnSet(Part(r), K) = SumFunctionOnSet(Part(s), K) - Part(s)[key[x]] + Part(r)[key[x]]
    BY <2>3, <2>8, SetSumChange
  <2>10. SumFunctionOnSet(f, s) \in Int /\ Part(s)[key[x]] \in Int /\ f[x] \in Int
    BY <1>0, <2>3, <2>6, SetSumInt DEF Summable
  <2> HIDE DEF r
  <2>11. SumFunctionOnSet(Part(r), K) = SumFunctionOnSet(f, r)
    BY ONLY <2>2, <2>5, <2>7, <2>9, <2>10
  <2>12. QED BY <2>1, <2>6, <2>11 DEF r
<1>3. IsFiniteSet(S)
  BY DEF Summable
<1>4. S \in F
  <2> HIDE DEF F
  <2>1. QED BY <1>1, <1>2, <1>3, SubsetInduction
<1>5. \A k \in K : g[k] = Part(S)[k]
  OBVIOUS
<1>6. Summable(Part(S), K) /\ SumFunctionOnSet(Part(S), K) = SumFunctionOnSet(f, S)
  BY <1>4
<1> HIDE DEF Part
<1>7. SumFunctionOnSet(g, K) = SumFunctionOnSet(Part(S), K)
  BY <1>5, SetSumExt
<1>8. QED BY <1>5, <1>6, <1>7 DEF Summable

-----------------------------------------------------------------------------
(* Folds *)

\* A fold over a finite set that takes the elements in a fixed order, each step within V.
IsFold(base, step, pick, S, g) ==
    g = [s \in SUBSET S |-> IF s = {} THEN base ELSE step[<<g[s \ {pick[s]}], pick[s]>>]]
Picks(pick, S) == \A s \in SUBSET S : s # {} => pick[s] \in s

LEMMA FoldExists ==
  ASSUME NEW S, NEW V, NEW base \in V, NEW step \in [V \X S -> V], NEW pick,
         IsFiniteSet(S), Picks(pick, S)
  PROVE  \E g \in [SUBSET S -> V] : IsFold(base, step, pick, S, g)
<1> DEFINE B(n) == {s \in SUBSET S : Cardinality(s) <= n}
           Body(g, s) == IF s = {} THEN base ELSE step[<<g[s \ {pick[s]}], pick[s]>>]
           T == {n \in Nat : \E g \in [B(n) -> V] : g = [s \in B(n) |-> Body(g, s)]}
<1>0. \A s \in SUBSET S : /\ IsFiniteSet(s) /\ Cardinality(s) \in Nat
                          /\ Cardinality(s) <= Cardinality(S) /\ (Cardinality(s) = 0 <=> s = {})
  BY FS_Subset, FS_CardinalityType, FS_EmptySet
<1>1. 0 \in T
  <2> DEFINE g == [s \in B(0) |-> base]
  <2>1. \A s \in B(0) : s = {}
    BY <1>0
  <2>2. \A s \in B(0) : Body(g, s) = base
    BY <2>1
  <2>3. g = [s \in B(0) |-> Body(g, s)] /\ g \in [B(0) -> V]
    BY <2>2
  <2>4. QED BY <2>3
<1>2. ASSUME NEW n \in Nat, n \in T PROVE n + 1 \in T
  <2>1. PICK g \in [B(n) -> V] : g = [s \in B(n) |-> Body(g, s)]
    BY <1>2
  <2> DEFINE h == [s \in B(n + 1) |-> Body(g, s)]
  <2>2. ASSUME NEW s \in B(n + 1) PROVE Body(g, s) = Body(h, s) /\ Body(g, s) \in V
    <3>1. CASE s = {}
      BY <3>1
    <3>2. CASE s # {}
      <4>1. pick[s] \in s
        BY <3>2 DEF Picks
      <4>2. Cardinality(s \ {pick[s]}) = Cardinality(s) - 1
        BY <4>1, <1>0, FS_RemoveElement
      <4>3. s \ {pick[s]} \in B(n) /\ s \ {pick[s]} \in B(n + 1)
        BY <4>2, <1>0
      <4>4. g[s \ {pick[s]}] = Body(g, s \ {pick[s]}) /\ g[s \ {pick[s]}] \in V
        BY <2>1, <4>3
      <4>5. h[s \ {pick[s]}] = Body(g, s \ {pick[s]})
        BY <4>3
      <4>6. pick[s] \in S
        BY <4>1
      <4> HIDE DEF h
      <4>7. step[<<g[s \ {pick[s]}], pick[s]>>] \in V
        BY <4>4, <4>6
      <4>8. QED BY <3>2, <4>4, <4>5, <4>7
    <3>3. QED BY <3>1, <3>2
  <2>3. h = [s \in B(n + 1) |-> Body(h, s)] /\ h \in [B(n + 1) -> V]
    <3>1. h = [s \in B(n + 1) |-> Body(g, s)]
      OBVIOUS
    <3> HIDE DEF h, Body
    <3>2. QED BY <2>2, <3>1
  <2> HIDE DEF h, Body
  <2>4. \E e \in [B(n + 1) -> V] : e = [s \in B(n + 1) |-> Body(e, s)]
    BY <2>3, Zenon
  <2>5. n + 1 \in Nat
    OBVIOUS
  <2> HIDE DEF B
  <2>6. QED BY <2>4, <2>5, Zenon
<1>3. Cardinality(S) \in T
  <2>1. Cardinality(S) \in Nat
    BY FS_CardinalityType
  <2> HIDE DEF T
  <2>2. QED BY <1>1, <1>2, <2>1, NatSetInduction
<1>4. B(Cardinality(S)) = SUBSET S
  BY <1>0
<1>5. PICK g \in [SUBSET S -> V] : g = [s \in SUBSET S |-> Body(g, s)]
  BY <1>3, <1>4
<1>6. IsFold(base, step, pick, S, g)
  BY <1>5 DEF IsFold
<1>7. QED BY <1>6

\* The greatest element, as the folds over lists pick it.
Top(set) == CHOOSE x \in set : \A y \in set : x >= y

LEMMA TopIn ==
  ASSUME NEW n \in Nat, NEW set \in SUBSET (1..n), set # {} PROVE Top(set) \in set
<1>1. PICK x \in set : \A y \in set : y <= x
  <2>1. set \subseteq 0..n
    OBVIOUS
  <2>2. QED BY <2>1, NatGreatest
<1>2. \A y \in set : x >= y
  <2>1. \A y \in set : y \in Nat /\ x \in Nat
    OBVIOUS
  <2>2. QED BY <1>1, <2>1
<1>3. QED BY <1>1, <1>2 DEF Top

LEMMA TopOfRange ==
  ASSUME NEW n \in Nat, NEW i \in 1..n
  PROVE  Top(1..i) = i /\ (1..i) \ {i} = 1..(i - 1) /\ 1..i # {} /\ 1..i \in SUBSET (1..n)
<1>1. Top(1..i) \in 1..i /\ \A y \in 1..i : Top(1..i) >= y
  <2>1. i \in 1..i /\ \A y \in 1..i : i >= y
    OBVIOUS
  <2>2. QED BY <2>1 DEF Top
<1>2. QED BY <1>1

IsListFold(base, step, n, g) ==
    g = [s \in SUBSET (1..n) |->
           IF s = {} THEN base ELSE step[<<g[s \ {Top(s)}], Top(s)>>]]

LEMMA FoldOverList ==
  ASSUME NEW n \in Nat, NEW V, NEW base \in V, NEW step \in [V \X (1..n) -> V]
  PROVE  \E g \in [SUBSET (1..n) -> V] : IsListFold(base, step, n, g)
<1> DEFINE pick == [s \in SUBSET (1..n) |-> Top(s)]
<1>1. Picks(pick, 1..n)
  BY TopIn DEF Picks
<1>2. IsFiniteSet(1..n)
  BY FS_Interval
<1>3. PICK g \in [SUBSET (1..n) -> V] : IsFold(base, step, pick, 1..n, g)
  <2> HIDE DEF pick
  <2>1. QED BY <1>1, <1>2, FoldExists
<1>4. g = [s \in SUBSET (1..n) |->
            IF s = {} THEN base ELSE step[<<g[s \ {Top(s)}], Top(s)>>]]
  <2>1. g = [s \in SUBSET (1..n) |->
               IF s = {} THEN base ELSE step[<<g[s \ {pick[s]}], pick[s]>>]]
    BY <1>3 DEF IsFold
  <2>2. \A s \in SUBSET (1..n) : pick[s] = Top(s)
    OBVIOUS
  <2> HIDE DEF pick
  <2>3. QED BY <2>1, <2>2
<1>5. QED BY <1>4 DEF IsListFold
=============================================================================
