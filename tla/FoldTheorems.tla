----------------------------- MODULE FoldTheorems -----------------------------
(* What the community modules compute over a set or a sequence: induction    *)
(* over its size, from the well-foundedness of < on Nat; the sum of a finite *)
(* set's numbers, which MapThenSumSet adds up in an order that it chooses;   *)
(* the folds of sequences; a set's elements in a sequence.                   *)
EXTENDS Integers, SequencesExt, FiniteSetTheorems, WellFoundedInduction, TLAPS

LEMMA NatSetInduction ==
  ASSUME NEW T \in SUBSET Nat, 0 \in T, \A n \in T : n + 1 \in T
  PROVE  T = Nat
<1>1. SUFFICES ASSUME Nat \ T # {} PROVE FALSE
  OBVIOUS
<1>2. PICK x \in Nat \ T : \A y \in Nat \ T : ~(<<y, x>> \in OpToRel(<, Nat))
  BY <1>1, WFMin, NatLessThanWellFounded
<1>3. \A y \in Nat \ T : ~(y < x)
  BY <1>2 DEF OpToRel
<1>4. x \in Nat /\ x # 0 /\ x \notin T
  BY <1>2
<1>5. x - 1 \in Nat /\ (x - 1) + 1 = x /\ x - 1 < x
  BY <1>4
<1>6. x - 1 \notin T
  BY <1>4, <1>5
<1>7. QED BY <1>3, <1>5, <1>6

\* g is the sum of the numbers f gives to the elements of S, and of each part of S:
\* the element c[s] of a part is added to the sum of the others.
Chooses(c, S) == \A s \in SUBSET S : s # {} => c[s] \in s
Adds(g, f, c, S) ==
  g = [s \in SUBSET S |-> IF s = {} THEN 0 ELSE f[c[s]] + g[s \ {c[s]}]]

\* One element fewer.
LEMMA SmallerSet ==
  ASSUME NEW S, IsFiniteSet(S), NEW s \in SUBSET S, NEW x \in s
  PROVE  /\ IsFiniteSet(s) /\ Cardinality(s) \in Nat \ {0} /\ s \ {x} \in SUBSET S
         /\ Cardinality(s \ {x}) = Cardinality(s) - 1 /\ s \ {x} # s
<1>1. IsFiniteSet(s) /\ Cardinality(s) \in Nat
  BY FS_Subset, FS_CardinalityType
<1>2. Cardinality(s) # 0
  BY <1>1, FS_EmptySet
<1>3. Cardinality(s \ {x}) = Cardinality(s) - 1
  BY <1>1, FS_RemoveElement
<1>4. QED BY <1>1, <1>2, <1>3

LEMMA AddsExists ==
  ASSUME NEW S, IsFiniteSet(S), NEW f \in [S -> Int], NEW c, Chooses(c, S)
  PROVE  \E g \in [SUBSET S -> Int] : Adds(g, f, c, S)
<1> DEFINE Sum(g, s) == IF s = {} THEN 0 ELSE f[c[s]] + g[s \ {c[s]}]
           Upto(g, n) == \A s \in SUBSET S : Cardinality(s) <= n => g[s] = Sum(g, s)
           T == {n \in Nat : \E g \in [SUBSET S -> Int] : Upto(g, n)}
<1>1. \A s \in SUBSET S : /\ IsFiniteSet(s) /\ Cardinality(s) \in Nat
                          /\ Cardinality(s) <= Cardinality(S)
                          /\ Cardinality(s) = 0 <=> s = {}
  BY FS_Subset, FS_CardinalityType, FS_EmptySet
<1>2. \A s \in SUBSET S : s # {} => /\ c[s] \in s /\ s \ {c[s]} \in SUBSET S
                                    /\ Cardinality(s \ {c[s]}) = Cardinality(s) - 1
  BY SmallerSet DEF Chooses
<1>3. 0 \in T
  <2> DEFINE z == [s \in SUBSET S |-> 0]
  <2>1. z \in [SUBSET S -> Int] /\ \A s \in SUBSET S : z[s] = 0
    OBVIOUS
  <2>2. Upto(z, 0)
    BY <1>1, <2>1
  <2>3. QED BY <2>1, <2>2
<1>4. ASSUME NEW n \in T PROVE n + 1 \in T
  <2>1. PICK g \in [SUBSET S -> Int] : Upto(g, n)
    OBVIOUS
  <2> DEFINE h == [s \in SUBSET S |-> IF Cardinality(s) = n + 1
                                        THEN f[c[s]] + g[s \ {c[s]}] ELSE g[s]]
  <2>2. n \in Nat
    OBVIOUS
  <2>3. h \in [SUBSET S -> Int]
    <3>1. ASSUME NEW s \in SUBSET S
          PROVE  (IF Cardinality(s) = n + 1 THEN f[c[s]] + g[s \ {c[s]}] ELSE g[s]) \in Int
      <4>1. CASE Cardinality(s) = n + 1
        <5>1. c[s] \in S /\ s \ {c[s]} \in SUBSET S
          BY <1>1, <1>2, <2>2, <4>1
        <5>2. f[c[s]] \in Int /\ g[s \ {c[s]}] \in Int
          BY <5>1
        <5>3. QED BY <4>1, <5>2
      <4>2. CASE Cardinality(s) # n + 1
        BY <4>2
      <4>3. QED BY <4>1, <4>2
    <3>2. QED BY <3>1
  <2>4. ASSUME NEW s \in SUBSET S, Cardinality(s) <= n + 1
        PROVE  h[s] = Sum(h, s)
    <3>1. CASE s = {}
      <4>1. Cardinality(s) = 0 /\ Cardinality(s) # n + 1 /\ Cardinality(s) <= n
        BY <1>1, <2>2, <3>1
      <4>2. h[s] = g[s] /\ g[s] = 0
        BY <2>1, <3>1, <4>1
      <4>3. QED BY <3>1, <4>2
    <3>2. CASE s # {}
      <4> DEFINE r == s \ {c[s]}
      <4>1. r \in SUBSET S /\ Cardinality(r) = Cardinality(s) - 1 /\ Cardinality(s) \in Nat
        BY <1>1, <1>2, <3>2
      <4>2. h[r] = g[r]
        BY <2>2, <2>4, <4>1
      <4>3. h[s] = f[c[s]] + g[r]
        <5>1. CASE Cardinality(s) = n + 1
          BY <5>1
        <5>2. CASE Cardinality(s) # n + 1
          <6>1. Cardinality(s) <= n
            BY <2>2, <2>4, <4>1, <5>2
          <6>2. h[s] = g[s] /\ g[s] = Sum(g, s)
            BY <2>1, <5>2, <6>1
          <6>3. QED BY <3>2, <6>2
        <5>3. QED BY <5>1, <5>2
      <4>4. QED BY <3>2, <4>2, <4>3
    <3>3. QED BY <3>1, <3>2
  <2> HIDE DEF h, Sum
  <2>5. QED BY <2>2, <2>3, <2>4
<1>5. Cardinality(S) \in T
  <2> HIDE DEF T
  <2>1. T = Nat
    BY <1>3, <1>4, NatSetInduction DEF T
  <2>2. QED BY <2>1, FS_CardinalityType
<1>6. PICK g \in [SUBSET S -> Int] : Upto(g, Cardinality(S))
  BY <1>5
<1>7. \A s \in SUBSET S : g[s] = Sum(g, s)
  BY <1>1, <1>6
<1>8. g = [s \in SUBSET S |-> Sum(g, s)]
  BY <1>7
<1>9. QED BY <1>8 DEF Adds

\* The sum does not depend on the order.
AnyOrder(g, f, S) ==
  /\ g[{}] = 0
  /\ \A s \in SUBSET S : g[s] \in Int
  /\ \A s \in SUBSET S : \A x \in s : g[s] = f[x] + g[s \ {x}]

LEMMA AddsAny ==
  ASSUME NEW S, IsFiniteSet(S), NEW f \in [S -> Int], NEW c, Chooses(c, S),
         NEW g, Adds(g, f, c, S)
  PROVE  AnyOrder(g, f, S)
<1> DEFINE Good(s) == g[s] \in Int /\ \A x \in s : g[s] = f[x] + g[s \ {x}]
           T == {n \in Nat : \A s \in SUBSET S : Cardinality(s) <= n => Good(s)}
<1>1. \A s \in SUBSET S : g[s] = IF s = {} THEN 0 ELSE f[c[s]] + g[s \ {c[s]}]
  BY DEF Adds
<1>2. g[{}] = 0
  BY <1>1
<1>3. \A s \in SUBSET S : Cardinality(s) \in Nat /\ (Cardinality(s) = 0 <=> s = {})
                          /\ Cardinality(s) <= Cardinality(S)
  BY FS_Subset, FS_CardinalityType, FS_EmptySet
<1>4. Good({})
  BY <1>2
<1>5. 0 \in T
  <2>1. \A s \in SUBSET S : Cardinality(s) <= 0 => s = {}
    BY <1>3
  <2> HIDE DEF Good
  <2>2. QED BY <1>4, <2>1
<1>6. ASSUME NEW n \in T PROVE n + 1 \in T
  <2>1. n \in Nat /\ \A s \in SUBSET S : Cardinality(s) <= n => Good(s)
    OBVIOUS
  <2> HIDE DEF T, Good
  <2>2. ASSUME NEW s \in SUBSET S, Cardinality(s) <= n + 1, s # {} PROVE Good(s)
    <3> DEFINE x0 == c[s]
    <3>1. x0 \in s /\ x0 \in S
      BY <2>2 DEF Chooses
    <3> HIDE DEF x0
    <3>2. /\ s \ {x0} \in SUBSET S /\ Cardinality(s \ {x0}) = Cardinality(s) - 1
          /\ Cardinality(s) \in Nat
      BY <3>1, SmallerSet
    <3>3. Good(s \ {x0})
      <4>1. Cardinality(s \ {x0}) <= n
        BY <2>1, <2>2, <3>2
      <4>2. QED BY <2>1, <3>2, <4>1
    <3>4. g[s] = f[x0] + g[s \ {x0}] /\ f[x0] \in Int
      BY <1>1, <2>2, <3>1 DEF x0
    <3>5. ASSUME NEW x \in s, x # x0 PROVE g[s] = f[x] + g[s \ {x}]
      <4>1. /\ s \ {x} \in SUBSET S /\ Cardinality(s \ {x}) = Cardinality(s) - 1 /\ x \in S
        BY SmallerSet
      <4>2. Good(s \ {x})
        <5>1. Cardinality(s \ {x}) <= n
          BY <2>1, <2>2, <3>2, <4>1
        <5>2. QED BY <2>1, <4>1, <5>1
      <4>3. (s \ {x}) \ {x0} = (s \ {x0}) \ {x} /\ x0 \in s \ {x} /\ x \in s \ {x0}
        BY <3>1, <3>5
      <4>4. g[s \ {x}] = f[x0] + g[(s \ {x0}) \ {x}]
        BY <4>2, <4>3 DEF Good
      <4>5. g[s \ {x0}] = f[x] + g[(s \ {x0}) \ {x}]
        BY <3>3, <4>3 DEF Good
      <4>6. g[(s \ {x0}) \ {x}] \in Int /\ f[x] \in Int
        <5>1. /\ (s \ {x0}) \ {x} \in SUBSET S
              /\ Cardinality((s \ {x0}) \ {x}) = Cardinality(s \ {x0}) - 1
          BY <3>2, <4>3, SmallerSet
        <5>2. Cardinality((s \ {x0}) \ {x}) <= n
          BY <2>1, <2>2, <3>2, <5>1
        <5>3. Good((s \ {x0}) \ {x})
          BY <2>1, <5>1, <5>2
        <5>4. QED BY <4>1, <5>3 DEF Good
      <4>7. QED BY <3>4, <4>4, <4>5, <4>6
    <3>6. g[s] \in Int
      BY <3>3, <3>4 DEF Good
    <3>7. QED BY <3>4, <3>5, <3>6 DEF Good
  <2>3. \A s \in SUBSET S : Cardinality(s) <= n + 1 => Good(s)
    BY <1>4, <2>2
  <2>4. QED BY <2>1, <2>3 DEF T
<1>7. ASSUME NEW s \in SUBSET S PROVE Good(s)
  <2> HIDE DEF Good
  <2>1. T = Nat
    BY <1>5, <1>6, NatSetInduction
  <2>2. Cardinality(s) \in T
    BY <1>3, <2>1
  <2>3. QED BY <1>3, <2>2
<1>8. QED BY <1>2, <1>7 DEF AnyOrder

\* When one number changes the sum changes by as much.
LEMMA AddsChange ==
  ASSUME NEW S, IsFiniteSet(S), NEW f \in [S -> Int], NEW h \in [S -> Int],
         NEW c, Chooses(c, S), NEW a, Adds(a, f, c, S), NEW d, Chooses(d, S), NEW b, Adds(b, h, d, S),
         NEW p \in S, \A r \in S : r # p => h[r] = f[r]
  PROVE  a[S] \in Int /\ b[S] \in Int /\ b[S] = a[S] - f[p] + h[p]
<1> DEFINE T == {n \in Nat : \A s \in SUBSET (S \ {p}) : Cardinality(s) <= n => a[s] = b[s]}
<1> HIDE DEF T
<1>1. /\ a[{}] = 0 /\ \A s \in SUBSET S : a[s] \in Int
      /\ \A s \in SUBSET S : \A x \in s : a[s] = f[x] + a[s \ {x}]
  <2>1. AnyOrder(a, f, S)
    BY AddsAny
  <2>2. QED BY <2>1 DEF AnyOrder
<1>2. /\ b[{}] = 0 /\ \A s \in SUBSET S : b[s] \in Int
      /\ \A s \in SUBSET S : \A x \in s : b[s] = h[x] + b[s \ {x}]
  <2>1. AnyOrder(b, h, S)
    BY AddsAny
  <2>2. QED BY <2>1 DEF AnyOrder
<1>3. \A s \in SUBSET S : Cardinality(s) \in Nat /\ (Cardinality(s) = 0 <=> s = {})
                          /\ Cardinality(s) <= Cardinality(S)
  BY FS_Subset, FS_CardinalityType, FS_EmptySet
<1>0. \A s \in SUBSET (S \ {p}) : s \in SUBSET S
  OBVIOUS
<1>4. 0 \in T
  <2>1. \A s \in SUBSET (S \ {p}) : Cardinality(s) <= 0 => s = {}
    BY <1>0, <1>3
  <2>2. QED BY <1>1, <1>2, <2>1 DEF T
<1>5. ASSUME NEW n \in T PROVE n + 1 \in T
  <2>1. n \in Nat /\ \A s \in SUBSET (S \ {p}) : Cardinality(s) <= n => a[s] = b[s]
    BY DEF T
  <2>2. ASSUME NEW s \in SUBSET (S \ {p}), Cardinality(s) <= n + 1, s # {} PROVE a[s] = b[s]
    <3>1. PICK x \in s : TRUE
      BY <2>2
    <3>2. /\ s \in SUBSET S /\ x \in S /\ x # p /\ s \ {x} \in SUBSET (S \ {p})
          /\ Cardinality(s \ {x}) = Cardinality(s) - 1 /\ Cardinality(s) \in Nat
      BY <1>3, SmallerSet
    <3>3. a[s \ {x}] = b[s \ {x}]
      <4>1. Cardinality(s \ {x}) <= n
        BY <2>1, <2>2, <3>2
      <4>2. QED BY <2>1, <3>2, <4>1
    <3>4. a[s] = f[x] + a[s \ {x}] /\ b[s] = h[x] + b[s \ {x}]
      BY <1>1, <1>2, <3>2
    <3>5. QED BY <3>2, <3>3, <3>4
  <2>3. \A s \in SUBSET (S \ {p}) : Cardinality(s) <= n + 1 => a[s] = b[s]
    BY <1>1, <1>2, <2>2
  <2>4. QED BY <2>1, <2>3 DEF T
<1>6. a[S \ {p}] = b[S \ {p}]
  <2>1. T = Nat
    BY <1>4, <1>5, NatSetInduction DEF T
  <2>2. S \ {p} \in SUBSET S /\ S \ {p} \in SUBSET (S \ {p})
    OBVIOUS
  <2>3. Cardinality(S \ {p}) \in T /\ Cardinality(S \ {p}) <= Cardinality(S \ {p})
    BY <1>3, <2>1, <2>2
  <2>4. QED BY <2>2, <2>3 DEF T
<1>7. a[S] = f[p] + a[S \ {p}] /\ b[S] = h[p] + b[S \ {p}] /\ a[S \ {p}] \in Int
      /\ a[S] \in Int /\ b[S] \in Int
  BY <1>1, <1>2
<1>8. QED BY <1>6, <1>7

\* A sum of natural numbers.
LEMMA AddsNat ==
  ASSUME NEW S, IsFiniteSet(S), NEW f \in [S -> Int], \A x \in S : f[x] >= 0,
         NEW c, Chooses(c, S), NEW g, Adds(g, f, c, S)
  PROVE  g[S] \in Nat
<1> DEFINE T == {n \in Nat : \A s \in SUBSET S : Cardinality(s) <= n => g[s] >= 0}
<1> HIDE DEF T
<1>1. AnyOrder(g, f, S)
  BY AddsAny
<1>2. /\ g[{}] = 0 /\ \A s \in SUBSET S : g[s] \in Int
      /\ \A s \in SUBSET S : \A x \in s : g[s] = f[x] + g[s \ {x}]
  BY <1>1 DEF AnyOrder
<1>3. \A s \in SUBSET S : Cardinality(s) \in Nat /\ (Cardinality(s) = 0 <=> s = {})
                          /\ Cardinality(s) <= Cardinality(S)
  BY FS_Subset, FS_CardinalityType, FS_EmptySet
<1>4. 0 \in T
  <2>1. \A s \in SUBSET S : Cardinality(s) <= 0 => s = {}
    BY <1>3
  <2>2. 0 \in Nat /\ 0 >= 0
    OBVIOUS
  <2>3. \A s \in SUBSET S : Cardinality(s) <= 0 => g[s] >= 0
    BY <1>2, <2>1, <2>2
  <2>4. QED BY <2>2, <2>3 DEF T
<1>5. ASSUME NEW n \in T PROVE n + 1 \in T
  <2>1. n \in Nat /\ \A s \in SUBSET S : Cardinality(s) <= n => g[s] >= 0
    BY DEF T
  <2>2. ASSUME NEW s \in SUBSET S, Cardinality(s) <= n + 1, s # {} PROVE g[s] >= 0
    <3>1. PICK x \in s : TRUE
      BY <2>2
    <3>2. /\ x \in S /\ s \ {x} \in SUBSET S /\ Cardinality(s \ {x}) = Cardinality(s) - 1
          /\ Cardinality(s) \in Nat
      BY SmallerSet
    <3>3. g[s \ {x}] >= 0
      <4>1. Cardinality(s \ {x}) <= n
        BY <2>1, <2>2, <3>2
      <4>2. QED BY <2>1, <3>2, <4>1
    <3>4. g[s] = f[x] + g[s \ {x}] /\ f[x] \in Int /\ f[x] >= 0 /\ g[s \ {x}] \in Int
      BY <1>2, <3>2
    <3>5. QED BY <3>3, <3>4
  <2>3. \A s \in SUBSET S : Cardinality(s) <= n + 1 => g[s] >= 0
    <3>1. g[{}] >= 0
      BY <1>2
    <3>2. QED BY <2>2, <3>1
  <2>4. QED BY <2>1, <2>3 DEF T
<1>6. T = Nat
  BY <1>4, <1>5, NatSetInduction DEF T
<1>7. Cardinality(S) \in T /\ Cardinality(S) <= Cardinality(S)
  BY <1>3, <1>6
<1>8. QED BY <1>2, <1>7 DEF T

\* A sum of noughts.
LEMMA AddsZero ==
  ASSUME NEW S, IsFiniteSet(S), NEW f \in [S -> Int], \A x \in S : f[x] = 0,
         NEW c, Chooses(c, S), NEW g, Adds(g, f, c, S)
  PROVE  g[S] = 0
<1> DEFINE h == [s \in SUBSET S |-> 0 - g[s]]
<1>1. AnyOrder(g, f, S)
  BY AddsAny
<1>2. \A s \in SUBSET S : g[s] \in Int
  BY <1>1 DEF AnyOrder
<1>3. \A s \in SUBSET S : g[s] = IF s = {} THEN 0 ELSE f[c[s]] + g[s \ {c[s]}]
  BY DEF Adds
<1>4. \A s \in SUBSET S : s # {} => c[s] \in S /\ s \ {c[s]} \in SUBSET S
  BY DEF Chooses
<1>5. \A s \in SUBSET S : 0 - g[s] = IF s = {} THEN 0 ELSE f[c[s]] + h[s \ {c[s]}]
  <2>1. SUFFICES ASSUME NEW s \in SUBSET S, s # {}
                 PROVE  0 - g[s] = f[c[s]] + h[s \ {c[s]}]
    <3>1. g[{}] = 0 /\ g[{}] \in Int
      BY <1>2, <1>3
    <3>2. 0 - g[{}] = 0
      BY <3>1
    <3>3. QED BY <3>2, <2>1
  <2>2. f[c[s]] = 0 /\ h[s \ {c[s]}] = 0 - g[s \ {c[s]}]
    BY <1>4, <2>1
  <2>3. g[s] = 0 + g[s \ {c[s]}] /\ g[s] \in Int /\ g[s \ {c[s]}] \in Int
    BY <1>2, <1>3, <1>4, <2>1, <2>2
  <2> HIDE DEF h
  <2>4. QED BY <2>2, <2>3
<1>6. Adds(h, f, c, S)
  BY <1>5 DEF Adds
<1>7. h[S] = 0 - g[S]
  OBVIOUS
<1> HIDE DEF h
<1>8. g[S] \in Nat /\ h[S] \in Nat
  BY <1>6, AddsNat
<1>9. QED BY <1>7, <1>8

\* The folds of sequences add on the other side.
AddsAfter(g, f, c, S) ==
  g = [s \in SUBSET S |-> IF s = {} THEN 0 ELSE g[s \ {c[s]}] + f[c[s]]]

LEMMA AddsRight ==
  ASSUME NEW S, IsFiniteSet(S), NEW f \in [S -> Int], NEW c, Chooses(c, S),
         NEW g, AddsAfter(g, f, c, S)
  PROVE  Adds(g, f, c, S)
<1> DEFINE T == {n \in Nat : \A s \in SUBSET S : Cardinality(s) <= n => g[s] \in Int}
<1> HIDE DEF T
<1>1. \A s \in SUBSET S : g[s] = IF s = {} THEN 0 ELSE g[s \ {c[s]}] + f[c[s]]
  BY DEF AddsAfter
<1>0. g[{}] \in Int
  <2>1. g[{}] = 0
    BY <1>1
  <2>2. QED BY <2>1
<1>2. \A s \in SUBSET S : Cardinality(s) \in Nat /\ (Cardinality(s) = 0 <=> s = {})
                          /\ Cardinality(s) <= Cardinality(S)
  BY FS_Subset, FS_CardinalityType, FS_EmptySet
<1>3. 0 \in T
  <2>1. \A s \in SUBSET S : Cardinality(s) <= 0 => s = {}
    BY <1>2
  <2>2. QED BY <1>0, <2>1 DEF T
<1>4. ASSUME NEW n \in T PROVE n + 1 \in T
  <2>1. n \in Nat /\ \A s \in SUBSET S : Cardinality(s) <= n => g[s] \in Int
    BY DEF T
  <2>2. ASSUME NEW s \in SUBSET S, Cardinality(s) <= n + 1, s # {} PROVE g[s] \in Int
    <3> DEFINE x == c[s]
    <3>1. x \in s /\ x \in S
      BY <2>2 DEF Chooses
    <3>2. g[s] = g[s \ {x}] + f[x]
      BY <1>1, <2>2
    <3> HIDE DEF x
    <3>3. /\ s \ {x} \in SUBSET S /\ Cardinality(s \ {x}) = Cardinality(s) - 1
          /\ Cardinality(s) \in Nat
      BY <3>1, SmallerSet
    <3>4. g[s \ {x}] \in Int
      <4>1. Cardinality(s \ {x}) <= n
        BY <2>1, <2>2, <3>3
      <4>2. QED BY <2>1, <3>3, <4>1
    <3>5. QED BY <3>1, <3>2, <3>4
  <2>3. \A s \in SUBSET S : Cardinality(s) <= n + 1 => g[s] \in Int
    BY <1>0, <2>2
  <2>4. QED BY <2>1, <2>3 DEF T
<1>5. ASSUME NEW s \in SUBSET S PROVE g[s] \in Int
  <2>1. T = Nat
    BY <1>3, <1>4, NatSetInduction DEF T
  <2>2. Cardinality(s) \in T /\ Cardinality(s) <= Cardinality(s)
    BY <1>2, <2>1
  <2>3. QED BY <2>2 DEF T
<1>6. ASSUME NEW s \in SUBSET S, s # {} PROVE g[s] = f[c[s]] + g[s \ {c[s]}]
  <2>1. c[s] \in S /\ s \ {c[s]} \in SUBSET S
    BY <1>6 DEF Chooses
  <2>2. g[s \ {c[s]}] \in Int /\ f[c[s]] \in Int
    BY <1>5, <2>1
  <2>3. g[s] = g[s \ {c[s]}] + f[c[s]]
    BY <1>1, <1>6
  <2>4. PICK a, b \in Int : a = g[s \ {c[s]}] /\ b = f[c[s]]
    BY <2>2
  <2>5. a + b = b + a
    OBVIOUS
  <2>6. QED BY <2>3, <2>4, <2>5, Zenon
<1>7. \A s \in SUBSET S : g[s] = IF s = {} THEN 0 ELSE f[c[s]] + g[s \ {c[s]}]
  BY <1>1, <1>6
<1>8. [s \in SUBSET S |-> IF s = {} THEN 0 ELSE g[s \ {c[s]}] + f[c[s]]]
      = [s \in SUBSET S |-> IF s = {} THEN 0 ELSE f[c[s]] + g[s \ {c[s]}]]
  BY <1>1, <1>7
<1>9. QED BY <1>8 DEF Adds, AddsAfter

LEMMA AddsAfterExists ==
  ASSUME NEW S, IsFiniteSet(S), NEW f \in [S -> Int], NEW c, Chooses(c, S)
  PROVE  \E g : AddsAfter(g, f, c, S)
<1>1. PICK g \in [SUBSET S -> Int] : Adds(g, f, c, S)
  BY AddsExists
<1>2. \A s \in SUBSET S : g[s] = IF s = {} THEN 0 ELSE f[c[s]] + g[s \ {c[s]}]
  BY <1>1 DEF Adds
<1>3. ASSUME NEW s \in SUBSET S, s # {} PROVE g[s] = g[s \ {c[s]}] + f[c[s]]
  <2>1. c[s] \in S /\ s \ {c[s]} \in SUBSET S
    BY <1>3 DEF Chooses
  <2>2. g[s] = f[c[s]] + g[s \ {c[s]}]
    BY <1>2, <1>3
  <2>3. PICK a, b \in Int : a = f[c[s]] /\ b = g[s \ {c[s]}]
    BY <2>1
  <2>4. a + b = b + a
    OBVIOUS
  <2>5. QED BY <2>2, <2>3, <2>4, Zenon
<1>4. \A s \in SUBSET S : g[s] = IF s = {} THEN 0 ELSE g[s \ {c[s]}] + f[c[s]]
  BY <1>2, <1>3
<1>5. g = [s \in SUBSET S |-> IF s = {} THEN 0 ELSE g[s \ {c[s]}] + f[c[s]]]
  BY <1>4
<1>6. QED BY <1>5 DEF AddsAfter

\* m names the elements of R by elements of S that have the same numbers.
Renames(m, f, S, e, R) ==
  /\ m \in [R -> S] /\ \A x \in R : e[x] = f[m[x]]
  /\ \A x, y \in R : m[x] = m[y] => x = y

Image(m, R) == {m[x] : x \in R}

\* A part of a sum whose numbers are those of another.
LEMMA AddsImage ==
  ASSUME NEW S, NEW R, IsFiniteSet(R), NEW f, NEW e, NEW m, Renames(m, f, S, e, R),
         NEW g, AnyOrder(g, f, S), NEW h, AnyOrder(h, e, R)
  PROVE  h[R] = g[Image(m, R)]
<1> DEFINE I(s) == Image(m, s)
           T == {n \in Nat : \A s \in SUBSET R : Cardinality(s) <= n => h[s] = g[I(s)]}
<1>r. /\ m \in [R -> S] /\ \A x \in R : e[x] = f[m[x]]
      /\ \A x, y \in R : m[x] = m[y] => x = y
  BY DEF Renames
<1>1. /\ h[{}] = 0
      /\ \A s \in SUBSET R : \A x \in s : h[s] = e[x] + h[s \ {x}]
      /\ g[{}] = 0
      /\ \A s \in SUBSET S : \A x \in s : g[s] = f[x] + g[s \ {x}]
  BY DEF AnyOrder
<1>2. \A s \in SUBSET R : Cardinality(s) \in Nat /\ (Cardinality(s) = 0 <=> s = {})
                          /\ Cardinality(s) <= Cardinality(R)
  BY FS_Subset, FS_CardinalityType, FS_EmptySet
<1>0. I({}) = {} /\ h[{}] = g[I({})]
  <2>1. I({}) = {}
    BY DEF Image
  <2> HIDE DEF I
  <2>2. QED BY <1>1, <2>1
<1> HIDE DEF T
<1>3. 0 \in T
  <2>1. \A s \in SUBSET R : Cardinality(s) <= 0 => s = {}
    BY <1>2
  <2> HIDE DEF I
  <2>2. QED BY <1>0, <2>1 DEF T
<1>4. ASSUME NEW n \in T PROVE n + 1 \in T
  <2>1. n \in Nat /\ \A s \in SUBSET R : Cardinality(s) <= n => h[s] = g[I(s)]
    BY DEF T
  <2>2. ASSUME NEW s \in SUBSET R, Cardinality(s) <= n + 1, s # {} PROVE h[s] = g[I(s)]
    <3>1. PICK x \in s : TRUE
      BY <2>2
    <3>2. /\ x \in R /\ s \ {x} \in SUBSET R /\ Cardinality(s \ {x}) = Cardinality(s) - 1
          /\ Cardinality(s) \in Nat
      BY SmallerSet
    <3>3. h[s \ {x}] = g[I(s \ {x})]
      <4>1. Cardinality(s \ {x}) <= n
        BY <2>1, <2>2, <3>2
      <4>2. QED BY <2>1, <3>2, <4>1
    <3>4. m[x] \in I(s) /\ I(s) \in SUBSET S /\ I(s \ {x}) = I(s) \ {m[x]}
      BY <1>r, <3>2 DEF Image
    <3> HIDE DEF I
    <3>5. h[s] = e[x] + h[s \ {x}] /\ g[I(s)] = f[m[x]] + g[I(s) \ {m[x]}]
      BY <1>1, <3>4
    <3>6. e[x] = f[m[x]]
      BY <1>r, <3>2
    <3>7. QED BY <3>3, <3>4, <3>5, <3>6
  <2> HIDE DEF I
  <2>3. \A s \in SUBSET R : Cardinality(s) <= n + 1 => h[s] = g[I(s)]
    BY <1>0, <2>2
  <2>4. QED BY <2>1, <2>3 DEF T
<1> HIDE DEF I
<1>5. T = Nat
  BY <1>3, <1>4, NatSetInduction DEF T
<1>6. Cardinality(R) \in T /\ Cardinality(R) <= Cardinality(R)
  BY <1>2, <1>5
<1>7. h[R] = g[I(R)]
  BY <1>6 DEF T
<1>8. QED BY <1>7 DEF I

\* Every set of numbers has a last one, and a first one.
LEMMA LastExists ==
  ASSUME NEW n \in Nat
  PROVE  \A s \in SUBSET (1..n) : s # {} => \E x \in s : \A y \in s : x >= y
<1> DEFINE Has(s) == \E x \in s : \A y \in s : x >= y
           T == {k \in Nat : \A s \in SUBSET (1..k) : s # {} => Has(s)}
<1>1. 0 \in T
  <2>1. \A s \in SUBSET (1..0) : s = {}
    OBVIOUS
  <2> HIDE DEF Has
  <2>2. QED BY <2>1
<1>2. ASSUME NEW k \in T PROVE k + 1 \in T
  <2>1. k \in Nat /\ \A s \in SUBSET (1..k) : s # {} => Has(s)
    OBVIOUS
  <2>2. ASSUME NEW s \in SUBSET (1..(k + 1)), s # {} PROVE Has(s)
    <3>1. CASE k + 1 \in s
      <4>1. \A y \in s : k + 1 >= y
        BY <2>1
      <4>2. QED BY <3>1, <4>1
    <3>2. CASE k + 1 \notin s
      <4>1. s \in SUBSET (1..k)
        BY <2>1, <3>2
      <4> HIDE DEF Has
      <4>2. QED BY <2>1, <2>2, <4>1
    <3>3. QED BY <3>1, <3>2
  <2> HIDE DEF Has
  <2>3. QED BY <2>1, <2>2
<1> HIDE DEF Has
<1>3. n \in T
  BY <1>1, <1>2, NatSetInduction
<1>4. QED BY <1>3 DEF Has

LEMMA FirstExists ==
  ASSUME NEW s \in SUBSET Nat, s # {}
  PROVE  \E x \in s : \A y \in s : x <= y
<1>1. PICK x \in s : \A y \in s : ~(<<y, x>> \in OpToRel(<, Nat))
  BY WFMin, NatLessThanWellFounded
<1>2. \A y \in s : ~(y < x)
  BY <1>1 DEF OpToRel
<1>3. \A y \in s : x <= y
  BY <1>2
<1>4. QED BY <1>3

\* The folds of sequences begin with the last element.
LEMMA LastChooses ==
  ASSUME NEW n \in Nat
  PROVE  Chooses([s \in SUBSET (1..n) |-> Max(s)], 1..n)
<1>1. \A s \in SUBSET (1..n) : s # {} => \E x \in s : \A y \in s : x >= y
  BY LastExists
<1>2. ASSUME NEW s \in SUBSET (1..n), s # {} PROVE Max(s) \in s
  BY <1>1, <1>2 DEF Max
<1> DEFINE c == [s \in SUBSET (1..n) |-> Max(s)]
<1>3. \A s \in SUBSET (1..n) : c[s] = Max(s)
  OBVIOUS
<1> HIDE DEF c
<1>4. Chooses(c, 1..n)
  BY <1>2, <1>3 DEF Chooses
<1>5. QED BY <1>4 DEF c

-----------------------------------------------------------------------------
(* FoldLeft, which takes the last element of a part of 1..n and folds the    *)
(* others before it: F[i] is what the i-th element makes of a value.         *)

Folds(g, F, b, n) ==
  g = [s \in SUBSET (1..n) |-> IF s = {} THEN b ELSE F[Max(s)][g[s \ {Max(s)}]]]

LEMMA LeftFoldExists ==
  ASSUME NEW n \in Nat, NEW V, NEW b \in V, NEW F \in [1..n -> [V -> V]]
  PROVE  \E g \in [SUBSET (1..n) -> V] : Folds(g, F, b, n)
<1> DEFINE S == 1..n
           c == [s \in SUBSET S |-> Max(s)]
           Fold(g, s) == IF s = {} THEN b ELSE F[c[s]][g[s \ {c[s]}]]
           Upto(g, k) == \A s \in SUBSET S : Cardinality(s) <= k => g[s] = Fold(g, s)
           T == {k \in Nat : \E g \in [SUBSET S -> V] : Upto(g, k)}
<1>0. IsFiniteSet(S) /\ Chooses(c, S)
  <2>1. IsFiniteSet(S)
    BY FS_Interval
  <2>2. Chooses(c, S)
    BY LastChooses, Zenon
  <2>3. QED BY <2>1, <2>2
<1>1. \A s \in SUBSET S : /\ IsFiniteSet(s) /\ Cardinality(s) \in Nat
                          /\ Cardinality(s) <= Cardinality(S)
                          /\ Cardinality(s) = 0 <=> s = {}
  BY <1>0, FS_Subset, FS_CardinalityType, FS_EmptySet
<1> HIDE DEF S, c
<1>2. \A s \in SUBSET S : s # {} => /\ c[s] \in s /\ s \ {c[s]} \in SUBSET S
                                    /\ Cardinality(s \ {c[s]}) = Cardinality(s) - 1
  BY <1>0, SmallerSet DEF Chooses
<1>3. 0 \in T
  <2> DEFINE z == [s \in SUBSET S |-> b]
  <2>1. z \in [SUBSET S -> V] /\ \A s \in SUBSET S : z[s] = b
    OBVIOUS
  <2>2. Upto(z, 0)
    BY <1>1, <2>1
  <2>3. QED BY <2>1, <2>2
<1>4. ASSUME NEW k \in T PROVE k + 1 \in T
  <2>1. PICK g \in [SUBSET S -> V] : Upto(g, k)
    OBVIOUS
  <2> DEFINE h == [s \in SUBSET S |-> IF Cardinality(s) = k + 1
                                        THEN F[c[s]][g[s \ {c[s]}]] ELSE g[s]]
  <2>2. k \in Nat
    OBVIOUS
  <2>3. h \in [SUBSET S -> V]
    <3>1. ASSUME NEW s \in SUBSET S
          PROVE  (IF Cardinality(s) = k + 1 THEN F[c[s]][g[s \ {c[s]}]] ELSE g[s]) \in V
      <4>1. CASE Cardinality(s) = k + 1
        <5>1. c[s] \in S /\ s \ {c[s]} \in SUBSET S
          <6>1. s # {}
            BY <1>1, <2>2, <4>1
          <6>2. QED BY <1>2, <6>1
        <5>2. F[c[s]] \in [V -> V] /\ g[s \ {c[s]}] \in V
          BY <5>1 DEF S
        <5>3. QED BY <4>1, <5>2
      <4>2. CASE Cardinality(s) # k + 1
        BY <4>2
      <4>3. QED BY <4>1, <4>2
    <3>2. QED BY <3>1
  <2>4. ASSUME NEW s \in SUBSET S, Cardinality(s) <= k + 1
        PROVE  h[s] = Fold(h, s)
    <3>1. CASE s = {}
      <4>1. Cardinality(s) = 0 /\ Cardinality(s) # k + 1 /\ Cardinality(s) <= k
        BY <1>1, <2>2, <3>1
      <4>2. h[s] = g[s] /\ g[s] = b
        BY <2>1, <3>1, <4>1
      <4>3. QED BY <3>1, <4>2
    <3>2. CASE s # {}
      <4> DEFINE r == s \ {c[s]}
      <4>1. r \in SUBSET S /\ Cardinality(r) = Cardinality(s) - 1 /\ Cardinality(s) \in Nat
        BY <1>1, <1>2, <3>2
      <4>2. h[r] = g[r]
        BY <2>2, <2>4, <4>1
      <4>3. h[s] = F[c[s]][g[r]]
        <5>1. CASE Cardinality(s) = k + 1
          BY <5>1
        <5>2. CASE Cardinality(s) # k + 1
          <6>1. Cardinality(s) <= k
            BY <2>2, <2>4, <4>1, <5>2
          <6>2. h[s] = g[s] /\ g[s] = Fold(g, s)
            BY <2>1, <5>2, <6>1
          <6>3. QED BY <3>2, <6>2
        <5>3. QED BY <5>1, <5>2
      <4>4. QED BY <3>2, <4>2, <4>3
    <3>3. QED BY <3>1, <3>2
  <2> HIDE DEF h, Fold
  <2>5. k + 1 \in Nat /\ Upto(h, k + 1)
    BY <2>2, <2>4
  <2>6. QED BY <2>3, <2>5
<1>5. Cardinality(S) \in T
  <2> HIDE DEF T
  <2>1. T = Nat
    BY <1>3, <1>4, NatSetInduction DEF T
  <2>2. QED BY <1>0, <2>1, FS_CardinalityType
<1>6. PICK g \in [SUBSET S -> V] : Upto(g, Cardinality(S))
  BY <1>5
<1>7. \A s \in SUBSET S : g[s] = Fold(g, s)
  BY <1>1, <1>6
<1>8. g = [s \in SUBSET S |-> Fold(g, s)]
  BY <1>7
<1>9. \A s \in SUBSET S : c[s] = Max(s)
  BY DEF c, S
<1>10. g = [s \in SUBSET S |-> IF s = {} THEN b ELSE F[Max(s)][g[s \ {Max(s)}]]]
  BY <1>7, <1>9
<1>11. QED BY <1>10 DEF S, Folds

\* g folds as F says, wherever it folds values of V.
Follows(g, F, V, b, n) ==
  /\ g[{}] = b
  /\ \A s \in SUBSET (1..n) :
       (s # {} /\ g[s \ {Max(s)}] \in V) => g[s] = F[Max(s)][g[s \ {Max(s)}]]

\* What the folds of the first elements are made of.
Steps(g, F, b, n) ==
  /\ g[1..0] = b
  /\ \A k \in 0..n : k > 0 => g[1..k] = F[k][g[1..(k - 1)]]

\* The last of the first k, and what is left without it.
LEMMA LastOfFirst ==
  ASSUME NEW n \in Nat, NEW k \in 0..n, k > 0
  PROVE  /\ 1..k \in SUBSET (1..n) /\ 1..k # {}
         /\ Max(1..k) = k /\ (1..k) \ {k} = 1..(k - 1)
<1>1. k \in Nat /\ k \in 1..k
  OBVIOUS
<1>2. \A y \in 1..k : k >= y
  OBVIOUS
<1>3. \A x \in 1..k : (\A y \in 1..k : x >= y) => x = k
  BY <1>1
<1>4. Max(1..k) = k
  BY <1>1, <1>2, <1>3 DEF Max
<1>5. (1..k) \ {k} = 1..(k - 1)
  BY <1>1
<1>6. QED BY <1>1, <1>4, <1>5

\* The fold of the first k elements is what the k-th makes of the fold before it.
LEMMA LeftFoldSteps ==
  ASSUME NEW n \in Nat, NEW V, NEW b \in V, NEW F \in [1..n -> [V -> V]],
         NEW g, Follows(g, F, V, b, n)
  PROVE  Steps(g, F, b, n) /\ \A k \in 0..n : g[1..k] \in V
<1>1. g[1..0] = b
  <2>1. 1..0 = {}
    OBVIOUS
  <2>2. QED BY <2>1 DEF Follows
<1>2. ASSUME NEW k \in 0..n, k > 0, g[1..(k - 1)] \in V
      PROVE  g[1..k] = F[k][g[1..(k - 1)]] /\ g[1..k] \in V
  <2>1. g[1..k] = F[k][g[1..(k - 1)]]
    BY <1>2, LastOfFirst DEF Follows
  <2>2. F[k] \in [V -> V]
    BY <1>2
  <2>3. QED BY <1>2, <2>1, <2>2
<1> DEFINE T == {k \in Nat : k <= n => g[1..k] \in V}
<1>3. 0 \in T
  BY <1>1
<1>4. ASSUME NEW k \in T PROVE k + 1 \in T
  <2>1. k \in Nat /\ (k + 1) - 1 = k
    OBVIOUS
  <2>2. SUFFICES ASSUME k + 1 <= n PROVE g[1..(k + 1)] \in V
    BY <2>1
  <2>3. k + 1 \in 0..n /\ k + 1 > 0 /\ g[1..((k + 1) - 1)] \in V
    BY <2>1, <2>2
  <2>4. QED BY <1>2, <2>3
<1>5. T = Nat
  <2> HIDE DEF T
  <2>1. QED BY <1>3, <1>4, NatSetInduction DEF T
<1>6. ASSUME NEW k \in 0..n PROVE g[1..k] \in V
  BY <1>5
<1>7. ASSUME NEW k \in 0..n, k > 0 PROVE g[1..k] = F[k][g[1..(k - 1)]]
  <2>1. k - 1 \in 0..n
    BY <1>7
  <2>2. QED BY <1>2, <1>6, <1>7, <2>1
<1>8. QED BY <1>1, <1>6, <1>7 DEF Steps

\* Two folds that begin alike and take the same steps agree.
LEMMA LeftFoldsAgree ==
  ASSUME NEW n \in Nat, NEW F, NEW H, NEW b, NEW g, NEW h,
         Steps(g, F, b, n), Steps(h, H, b, n), \A k \in 1..n : F[k] = H[k]
  PROVE  g[1..n] = h[1..n]
<1> DEFINE T == {k \in Nat : k <= n => g[1..k] = h[1..k]}
<1>1. 0 \in T
  BY DEF Steps
<1>2. ASSUME NEW k \in T PROVE k + 1 \in T
  <2>1. k \in Nat /\ (k + 1) - 1 = k
    OBVIOUS
  <2>2. SUFFICES ASSUME k + 1 <= n PROVE g[1..(k + 1)] = h[1..(k + 1)]
    BY <2>1
  <2>3. k + 1 \in 0..n /\ k + 1 \in 1..n /\ k + 1 > 0 /\ g[1..k] = h[1..k]
    BY <2>1, <2>2
  <2>4. /\ g[1..(k + 1)] = F[k + 1][g[1..((k + 1) - 1)]]
        /\ h[1..(k + 1)] = H[k + 1][h[1..((k + 1) - 1)]] /\ F[k + 1] = H[k + 1]
    BY <2>3 DEF Steps
  <2>5. QED BY <2>1, <2>3, <2>4
<1>3. T = Nat
  <2> HIDE DEF T
  <2>1. QED BY <1>1, <1>2, NatSetInduction DEF T
<1>4. QED BY <1>3

\* A finite set's elements in a sequence, each once.
LEMMA SetInSeq ==
  ASSUME NEW S, IsFiniteSet(S)
  PROVE  /\ SetToSeq(S) \in Seq(S) /\ IsInjective(SetToSeq(S))
         /\ DOMAIN SetToSeq(S) = 1..Cardinality(S) /\ Cardinality(S) \in Nat
         /\ Range(SetToSeq(S)) = S
<1> DEFINE C == Cardinality(S)
<1> DEFINE Chosen(f) == f \in [1..C -> S] /\ IsInjective(f)
<1>1. C \in Nat /\ ExistsBijection(1..C, S)
  BY FS_CardinalityType
<1>2. \E f : Chosen(f)
  BY <1>1 DEF ExistsBijection, Bijection, Injection
<1>3. SetToSeq(S) = CHOOSE f : Chosen(f)
  BY DEF SetToSeq
<1>4. Chosen(SetToSeq(S))
  <2> HIDE DEF Chosen
  <2> QED BY <1>2, <1>3
<1>5. SetToSeq(S) \in Injection(1..C, S)
  BY <1>4 DEF Injection
<1>6. SetToSeq(S) \in Surjection(1..C, S)
  BY <1>1, <1>5, FS_Injection, FS_Interval
<1>7. Range(SetToSeq(S)) = S
  BY <1>4, <1>6 DEF Range, Surjection
<1>8. SetToSeq(S) \in Seq(S)
  BY <1>1, <1>4
<1>9. QED BY <1>1, <1>4, <1>7, <1>8
=============================================================================
