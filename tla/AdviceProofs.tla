---------------------------- MODULE AdviceProofs ----------------------------
(***************************************************************************)
(* Theorems about the posture and the advice, for any inventory, plans,    *)
(* rules, files and dates.                                                 *)
(*                                                                         *)
(* Sums and recursive functions are reasoned about through a least         *)
(* counterexample, which needs no induction scheme: a set of numbers has a *)
(* least member, so a claim that fails somewhere fails at a smallest       *)
(* place, where its own step refutes it.  A sum is the count of the units  *)
(* of its terms, lifted above zero; that it does not depend on the order,  *)
(* and is bounded when its terms are, follows from facts on cardinality.   *)
(***************************************************************************)
EXTENDS Advice, Algos, FiniteSetTheorems, SequenceTheorems, WellFoundedInduction, TLAPS

-----------------------------------------------------------------------------
(* A set of numbers has a least one.                                       *)
LEMMA LeastNumber ==
  ASSUME NEW T \in SUBSET Nat, T # {}
  PROVE  \E x \in T : \A y \in T : x <= y
<1>1. IsWellFoundedOn(OpToRel(<, Nat), Nat)
  BY NatLessThanWellFounded
<1>2. PICK x \in T : \A y \in T : ~(<<y, x>> \in OpToRel(<, Nat))
  BY <1>1, WFMin
<1>3. \A y \in T : ~(y < x)
  BY <1>2 DEF OpToRel
<1>4. QED
  BY <1>3

(* Among sets of elements of a finite set there is one which is not left   *)
(* the others by taking an element out.                                    *)
LEMMA SmallestSet ==
  ASSUME NEW S, IsFiniteSet(S), NEW B \in SUBSET (SUBSET S), B # {}
  PROVE  \E s \in B : \A x \in s : s \ {x} \notin B
<1> DEFINE N == {Cardinality(s) : s \in B}
<1>1. \A s \in B : IsFiniteSet(s) /\ Cardinality(s) \in Nat
  BY FS_Subset, FS_CardinalityType
<1>2. N \in SUBSET Nat /\ N # {}
  BY <1>1
<1>3. PICK n \in N : \A m \in N : n <= m
  BY <1>2, LeastNumber
<1>4. PICK s \in B : Cardinality(s) = n
  OBVIOUS
<1>5. \A x \in s : s \ {x} \notin B
  <2> SUFFICES ASSUME NEW x \in s, s \ {x} \in B PROVE FALSE
    OBVIOUS
  <2>1. Cardinality(s \ {x}) = Cardinality(s) - 1
    BY <1>1, FS_RemoveElement
  <2>2. n <= Cardinality(s \ {x})
    BY <1>3
  <2>3. QED
    BY <1>1, <1>4, <2>1, <2>2
<1>6. QED
  BY <1>5

(* One pair for each unit of each value.                                   *)
Units(f, s) == {p \in s \X Nat : p[2] < f[p[1]]}

LEMMA UnitsStep ==
  ASSUME NEW f, NEW s, NEW x \in s, f[x] \in Nat, IsFiniteSet(Units(f, s \ {x}))
  PROVE  /\ IsFiniteSet(Units(f, s))
         /\ Cardinality(Units(f, s)) = f[x] + Cardinality(Units(f, s \ {x}))
<1> DEFINE A == Units(f, s \ {x})
           B == {x} \X (0..(f[x] - 1))
<1>1. Units(f, s) = A \union B
  <2>1. ASSUME NEW p \in Units(f, s) PROVE p \in A \union B
    <3>1. p \in s \X Nat /\ p[2] < f[p[1]] /\ p = <<p[1], p[2]>>
      BY DEF Units
    <3>2. CASE p[1] = x
      <4>1. p[2] \in 0..(f[x] - 1)
        BY <3>1, <3>2
      <4>2. QED
        BY <3>1, <3>2, <4>1
    <3>3. CASE p[1] # x
      BY <3>1, <3>3 DEF Units
    <3>4. QED
      BY <3>2, <3>3
  <2>2. ASSUME NEW p \in A PROVE p \in Units(f, s)
    BY DEF Units
  <2>3. ASSUME NEW p \in B PROVE p \in Units(f, s)
    <3>1. p = <<x, p[2]>> /\ p[2] \in 0..(f[x] - 1) /\ p[1] = x
      OBVIOUS
    <3>2. p[2] \in Nat /\ p[2] < f[x]
      BY <3>1
    <3>3. QED
      BY <3>1, <3>2 DEF Units
  <2>4. QED
    BY <2>1, <2>2, <2>3
<1>2. A \intersect B = {}
  BY DEF Units
<1>3. IsFiniteSet(0..(f[x] - 1)) /\ Cardinality(0..(f[x] - 1)) = f[x]
  <2>1. 0 \in Int /\ f[x] - 1 \in Int
    OBVIOUS
  <2>2. /\ IsFiniteSet(0..(f[x] - 1))
        /\ Cardinality(0..(f[x] - 1)) = IF 0 > f[x] - 1 THEN 0 ELSE (f[x] - 1) - 0 + 1
    BY <2>1, FS_Interval
  <2>3. QED
    BY <2>2
<1>4. IsFiniteSet({x}) /\ Cardinality({x}) = 1
  BY FS_Singleton
<1>5. IsFiniteSet(B) /\ Cardinality(B) = f[x]
  <2>1. IsFiniteSet(B) /\ Cardinality(B) = Cardinality({x}) * Cardinality(0..(f[x] - 1))
    BY <1>3, <1>4, FS_Product
  <2>2. QED
    BY <1>3, <1>4, <2>1
<1> HIDE DEF A, B
<1>6. /\ IsFiniteSet(A \union B)
      /\ Cardinality(A \union B) = Cardinality(A) + Cardinality(B) - Cardinality(A \intersect B)
  <2>1. IsFiniteSet(A)
    BY DEF A
  <2>2. QED
    BY <1>5, <2>1, FS_Union
<1>7. Cardinality(A) \in Nat /\ Cardinality(A \intersect B) = 0
  BY <1>2, FS_EmptySet, FS_CardinalityType DEF A
<1>8. QED
  BY <1>1, <1>5, <1>6, <1>7 DEF A

LEMMA UnitsFinite ==
  ASSUME NEW S, IsFiniteSet(S), NEW f, \A x \in S : f[x] \in Nat
  PROVE  \A s \in SUBSET S : IsFiniteSet(Units(f, s)) /\ Cardinality(Units(f, s)) \in Nat
<1> DEFINE B == {s \in SUBSET S : ~IsFiniteSet(Units(f, s))}
<1>1. Units(f, {}) = {}
  BY DEF Units
<1>2. B = {}
  <2> SUFFICES ASSUME B # {} PROVE FALSE
    OBVIOUS
  <2>1. PICK s \in B : \A x \in s : s \ {x} \notin B
    BY SmallestSet
  <2>2. s # {}
    BY <1>1, FS_EmptySet
  <2>3. PICK x \in s : TRUE
    BY <2>2
  <2>4. IsFiniteSet(Units(f, s \ {x}))
    BY <2>1
  <2>5. QED
    BY <2>4, UnitsStep
<1>3. QED
  BY <1>2, FS_CardinalityType

(* A function whose values on a set are integers.                          *)
Integral(f, S) == \A x \in S : f[x] \in Int

(* Finitely many integers can be lifted above zero.                        *)
LEMMA Lift ==
  ASSUME NEW S, IsFiniteSet(S), NEW f, Integral(f, S)
  PROVE  \E c \in Nat : \E g : \A x \in S : g[x] \in Nat /\ f[x] = g[x] - c
<1>0. \A x \in S : f[x] \in Int
  BY DEF Integral
<1> DEFINE Lifted(s) == \E c \in Nat : \A x \in s : f[x] + c \in Nat
           B == {s \in SUBSET S : ~Lifted(s)}
<1>1. B = {}
  <2> SUFFICES ASSUME B # {} PROVE FALSE
    OBVIOUS
  <2>1. PICK s \in B : \A x \in s : s \ {x} \notin B
    BY SmallestSet
  <2>2. s # {}
    <3>1. 0 \in Nat /\ \A x \in {} : f[x] + 0 \in Nat
      OBVIOUS
    <3>2. Lifted({})
      BY <3>1
    <3>3. QED
      BY <3>2
  <2>3. PICK x \in s : TRUE
    BY <2>2
  <2>4. PICK c \in Nat : \A y \in s \ {x} : f[y] + c \in Nat
    BY <2>1
  <2>5. PICK d \in Nat : f[x] + d \in Nat
    <3>1. f[x] \in Int
      BY <1>0
    <3>2. CASE f[x] >= 0
      BY <3>1, <3>2
    <3>3. CASE f[x] < 0
      <4>1. 0 - f[x] \in Nat /\ f[x] + (0 - f[x]) \in Nat
        BY <3>1, <3>3
      <4>2. QED
        BY <4>1
    <3>4. QED
      BY <3>1, <3>2, <3>3
  <2>6. \A y \in s : f[y] \in Int /\ f[y] + (c + d) \in Nat
    BY <1>0, <2>4, <2>5
  <2>7. Lifted(s)
    BY <2>6
  <2>8. QED
    BY <2>7
<1>2. PICK c \in Nat : \A x \in S : f[x] + c \in Nat
  BY <1>1
<1> DEFINE g == [x \in S |-> f[x] + c]
<1>3. \A x \in S : g[x] \in Nat /\ f[x] = g[x] - c
  BY <1>0, <1>2
<1> HIDE DEF g
<1>4. QED
  BY <1>3

LEMMA OneMore ==
  ASSUME NEW c \in Nat, NEW k \in Nat, NEW j, j = k - 1
  PROVE  c * k = c * j + c /\ c * j \in Int
  OBVIOUS

(* A sum counts the units of its terms, less what they were lifted by: the *)
(* recursive function behind SumFunctionOnSet has this solution, and no    *)
(* other.                                                                  *)
LEMMA SumIsCount ==
  ASSUME NEW S, IsFiniteSet(S), NEW f, NEW g, NEW c \in Nat,
         \A x \in S : g[x] \in Nat /\ f[x] = g[x] - c
  PROVE  SumFunctionOnSet(f, S) = Cardinality(Units(g, S)) - c * Cardinality(S)
<1> DEFINE pick(s) == CHOOSE x \in s : TRUE
           Body(h) == [s \in SUBSET S |-> IF s = {} THEN 0 ELSE f[pick(s)] + h[s \ {pick(s)}]]
           count == [s \in SUBSET S |-> Cardinality(Units(g, s)) - c * Cardinality(s)]
           sum == CHOOSE h : h = Body(h)
<1>1. SumFunctionOnSet(f, S) = sum[S]
  BY DEF SumFunctionOnSet, FoldFunctionOnSet, MapThenFoldSet
<1>2. \A s \in SUBSET S : s # {} => pick(s) \in s
  OBVIOUS
<1>3. count = Body(count)
  <2>1. ASSUME NEW s \in SUBSET S, s = {} PROVE count[s] = 0
    <3>1. Units(g, s) = {}
      BY <2>1 DEF Units
    <3>2. Cardinality(Units(g, s)) = 0 /\ Cardinality(s) = 0
      BY <2>1, <3>1, FS_EmptySet
    <3>3. QED
      BY <3>2
  <2>2. ASSUME NEW s \in SUBSET S, s # {} PROVE count[s] = f[pick(s)] + count[s \ {pick(s)}]
    <3> DEFINE x == pick(s)
               r == s \ {x}
    <3>1. x \in s /\ x \in S /\ g[x] \in Nat /\ f[x] = g[x] - c /\ r \in SUBSET S
      BY <1>2, <2>2
    <3> HIDE DEF x
    <3>2. IsFiniteSet(Units(g, r)) /\ Cardinality(Units(g, r)) \in Nat
      BY <3>1, UnitsFinite
    <3>3. Cardinality(Units(g, s)) = g[x] + Cardinality(Units(g, r))
      <4>1. x \in s /\ g[x] \in Nat /\ IsFiniteSet(Units(g, s \ {x}))
        BY <3>1, <3>2
      <4>2. QED
        BY ONLY <4>1, UnitsStep
    <3>4. Cardinality(r) = Cardinality(s) - 1 /\ Cardinality(s) \in Nat
      BY <3>1, FS_Subset, FS_CardinalityType, FS_RemoveElement
    <3>5. count[s] = Cardinality(Units(g, s)) - c * Cardinality(s)
      OBVIOUS
    <3>6. count[r] = Cardinality(Units(g, r)) - c * Cardinality(r)
      BY <3>1
    <3> HIDE DEF count, r
    <3>7. c * Cardinality(s) = c * Cardinality(r) + c /\ c * Cardinality(r) \in Int
      BY <3>4, OneMore
    <3>8. count[s] = f[x] + count[r]
      BY <3>1, <3>2, <3>3, <3>5, <3>6, <3>7
    <3>9. QED
      BY <3>8 DEF x, r
  <2> HIDE DEF pick
  <2>3. \A s \in SUBSET S : count[s] = IF s = {} THEN 0 ELSE f[pick(s)] + count[s \ {pick(s)}]
    BY <2>1, <2>2
  <2>4. QED
    BY <2>3
<1> HIDE DEF pick, count
<1>4. sum = Body(sum)
  <2>1. \E h : h = Body(h)
    BY <1>3
  <2> HIDE DEF Body
  <2>2. QED
    BY <2>1
<1> HIDE DEF sum
<1>5. \A s \in SUBSET S : sum[s] = IF s = {} THEN 0 ELSE f[pick(s)] + sum[s \ {pick(s)}]
  BY <1>4
<1>6. \A s \in SUBSET S : count[s] = IF s = {} THEN 0 ELSE f[pick(s)] + count[s \ {pick(s)}]
  BY <1>3
<1> DEFINE B == {s \in SUBSET S : sum[s] # count[s]}
<1>7. B = {}
  <2> SUFFICES ASSUME B # {} PROVE FALSE
    OBVIOUS
  <2>1. PICK s \in B : \A x \in s : s \ {x} \notin B
    BY SmallestSet
  <2>2. s # {}
    BY <1>5, <1>6
  <2>3. pick(s) \in s
    BY <1>2, <2>2
  <2>4. sum[s \ {pick(s)}] = count[s \ {pick(s)}]
    BY <2>1, <2>3
  <2>5. QED
    BY <1>5, <1>6, <2>2, <2>4
<1>8. QED
  BY <1>1, <1>7 DEF count

(* A sum, element by element.                                              *)
LEMMA SumStep ==
  ASSUME NEW S, IsFiniteSet(S), NEW f, Integral(f, S)
  PROVE  /\ \A s \in SUBSET S : SumFunctionOnSet(f, s) \in Int
         /\ SumFunctionOnSet(f, {}) = 0
         /\ \A s \in SUBSET S : \A x \in s :
              SumFunctionOnSet(f, s) = f[x] + SumFunctionOnSet(f, s \ {x})
<1>c. PICK c \in Nat : \E g : \A x \in S : g[x] \in Nat /\ f[x] = g[x] - c
  BY Lift
<1>0. PICK g : \A x \in S : g[x] \in Nat /\ f[x] = g[x] - c
  BY <1>c
<1> DEFINE C(s) == Cardinality(Units(g, s))
<1>1. \A s \in SUBSET S : IsFiniteSet(s) /\ Cardinality(s) \in Nat /\ IsFiniteSet(Units(g, s)) /\ C(s) \in Nat
  BY <1>0, FS_Subset, FS_CardinalityType, UnitsFinite
<1>2. \A s \in SUBSET S : SumFunctionOnSet(f, s) = C(s) - c * Cardinality(s)
  BY <1>0, <1>1, SumIsCount
<1>3. SumFunctionOnSet(f, {}) = 0
  <2>1. Units(g, {}) = {}
    BY DEF Units
  <2>2. C({}) = 0 /\ Cardinality({}) = 0
    BY <2>1, FS_EmptySet
  <2> HIDE DEF C
  <2>3. QED
    BY <1>2, <2>2
<1>4. ASSUME NEW s \in SUBSET S, NEW x \in s
      PROVE  SumFunctionOnSet(f, s) = f[x] + SumFunctionOnSet(f, s \ {x})
  <2>1. s \ {x} \in SUBSET S /\ g[x] \in Nat /\ f[x] = g[x] - c
    BY <1>0
  <2>2. C(s) = g[x] + C(s \ {x})
    <3>1. x \in s /\ g[x] \in Nat /\ IsFiniteSet(Units(g, s \ {x}))
      BY <1>1, <2>1
    <3>2. QED
      BY ONLY <3>1, UnitsStep
  <2> HIDE DEF C
  <2>3. Cardinality(s \ {x}) = Cardinality(s) - 1
    BY <1>1, FS_RemoveElement
  <2>4. c * Cardinality(s) = c * Cardinality(s \ {x}) + c /\ c * Cardinality(s \ {x}) \in Int
    BY <1>1, <2>1, <2>3, OneMore
  <2>5. /\ SumFunctionOnSet(f, s) = C(s) - c * Cardinality(s)
        /\ SumFunctionOnSet(f, s \ {x}) = C(s \ {x}) - c * Cardinality(s \ {x})
        /\ C(s \ {x}) \in Nat
    BY <1>1, <1>2, <2>1
  <2>6. QED
    BY <2>1, <2>2, <2>4, <2>5
<1>5. \A s \in SUBSET S : SumFunctionOnSet(f, s) \in Int
  <2> HIDE DEF C
  <2> SUFFICES ASSUME NEW s \in SUBSET S PROVE SumFunctionOnSet(f, s) \in Int
    OBVIOUS
  <2>1. C(s) \in Nat /\ c * Cardinality(s) \in Int
    BY <1>1
  <2>2. QED
    BY <1>2, <2>1
<1>6. QED
  BY <1>3, <1>4, <1>5

(* A sum of natural numbers is one.                                        *)
LEMMA SumIsNat ==
  ASSUME NEW S, IsFiniteSet(S), NEW f, \A x \in S : f[x] \in Nat
  PROVE  \A s \in SUBSET S : SumFunctionOnSet(f, s) \in Nat
<1> SUFFICES ASSUME NEW s \in SUBSET S PROVE SumFunctionOnSet(f, s) \in Nat
  OBVIOUS
<1>1. IsFiniteSet(s) /\ Cardinality(s) \in Nat /\ 0 \in Nat
  BY FS_Subset, FS_CardinalityType
<1>2. \A x \in s : f[x] \in Nat /\ f[x] = f[x] - 0
  OBVIOUS
<1>3. SumFunctionOnSet(f, s) = Cardinality(Units(f, s)) - 0 * Cardinality(s)
  BY <1>1, <1>2, SumIsCount
<1>4. Cardinality(Units(f, s)) \in Nat
  BY <1>1, <1>2, UnitsFinite
<1>5. QED
  BY <1>1, <1>3, <1>4

LEMMA SumAtLeast ==
  ASSUME NEW S, IsFiniteSet(S), NEW f, \A x \in S : f[x] \in Nat, NEW y \in S
  PROVE  f[y] <= SumFunctionOnSet(f, S)
<1>1. S \in SUBSET S /\ S \ {y} \in SUBSET S
  OBVIOUS
<1>2. /\ SumFunctionOnSet(f, S) = f[y] + SumFunctionOnSet(f, S \ {y})
      /\ SumFunctionOnSet(f, S \ {y}) \in Nat
  BY <1>1, SumStep, SumIsNat DEF Integral
<1>3. QED
  BY <1>2

(* What bounds every value up to a factor bounds the sum.                  *)
LEMMA SumBound ==
  ASSUME NEW S, IsFiniteSet(S), NEW f, NEW g, NEW c \in Nat,
         \A x \in S : f[x] \in Int /\ g[x] \in Int /\ f[x] <= c * g[x]
  PROVE  SumFunctionOnSet(f, S) <= c * SumFunctionOnSet(g, S)
<1> DEFINE F(s) == SumFunctionOnSet(f, s)
           G(s) == SumFunctionOnSet(g, s)
           B == {s \in SUBSET S : ~(F(s) <= c * G(s))}
<1>1. /\ F({}) = 0 /\ G({}) = 0
      /\ \A s \in SUBSET S : F(s) \in Int /\ G(s) \in Int
      /\ \A s \in SUBSET S : \A x \in s : F(s) = f[x] + F(s \ {x}) /\ G(s) = g[x] + G(s \ {x})
  <2>0. IsFiniteSet(S) /\ Integral(f, S)
    BY DEF Integral
  <2>1. IsFiniteSet(S) /\ Integral(g, S)
    BY DEF Integral
  <2>2. /\ F({}) = 0
        /\ \A s \in SUBSET S : F(s) \in Int
        /\ \A s \in SUBSET S : \A x \in s : F(s) = f[x] + F(s \ {x})
    BY ONLY <2>0, SumStep
  <2>3. /\ G({}) = 0
        /\ \A s \in SUBSET S : G(s) \in Int
        /\ \A s \in SUBSET S : \A x \in s : G(s) = g[x] + G(s \ {x})
    BY ONLY <2>1, SumStep
  <2> HIDE DEF F, G
  <2>4. QED
    BY <2>2, <2>3
<1> HIDE DEF F, G
<1>2. B = {}
  <2> SUFFICES ASSUME B # {} PROVE FALSE
    OBVIOUS
  <2>1. PICK s \in B : \A x \in s : s \ {x} \notin B
    BY SmallestSet
  <2>2. s # {}
    <3>1. 0 <= c * 0
      OBVIOUS
    <3>2. QED
      BY <1>1, <3>1
  <2>3. PICK x \in s : TRUE
    BY <2>2
  <2>4. F(s \ {x}) <= c * G(s \ {x})
    BY <2>1
  <2>5. /\ F(s) = f[x] + F(s \ {x}) /\ G(s) = g[x] + G(s \ {x})
        /\ F(s \ {x}) \in Int /\ G(s \ {x}) \in Int
        /\ f[x] \in Int /\ g[x] \in Int /\ f[x] <= c * g[x]
    BY <1>1
  <2>6. c * (g[x] + G(s \ {x})) = c * g[x] + c * G(s \ {x})
    BY <2>5
  <2>7. c * g[x] \in Int /\ c * G(s \ {x}) \in Int
    BY <2>5
  <2>8. F(s) <= c * G(s)
    BY <2>4, <2>5, <2>6, <2>7
  <2>9. QED
    BY <2>8
<1>3. QED
  BY <1>2 DEF F, G

(* The order does not matter, nor what the values are kept under.          *)
LEMMA SumPermuted ==
  ASSUME NEW S, NEW T, IsFiniteSet(S), NEW f, NEW g,
         Integral(f, S),
         NEW b \in Bijection(S, T), \A x \in S : g[b[x]] = f[x]
  PROVE  SumFunctionOnSet(f, S) = SumFunctionOnSet(g, T)
<1>1. /\ b \in [S -> T]
      /\ \A x, y \in S : b[x] = b[y] => x = y
      /\ \A y \in T : \E x \in S : b[x] = y
  BY DEF Bijection, Injection, Surjection, IsInjective
<1>2. IsFiniteSet(T) /\ Cardinality(S) = Cardinality(T)
  BY FS_Bijection DEF ExistsBijection
<1>c. PICK c \in Nat : \E u : \A x \in S : u[x] \in Nat /\ f[x] = u[x] - c
  BY Lift
<1>3. PICK u : \A x \in S : u[x] \in Nat /\ f[x] = u[x] - c
  BY <1>c
<1> DEFINE w == [y \in T |-> g[y] + c]
<1>4. /\ \A x \in S : w[b[x]] = u[x]
      /\ \A y \in T : w[y] \in Nat /\ g[y] = w[y] - c
  <2>1. \A x \in S : b[x] \in T /\ g[b[x]] = u[x] - c /\ u[x] \in Nat
    BY <1>1, <1>3
  <2>2. \A x \in S : w[b[x]] = u[x] /\ g[b[x]] = w[b[x]] - c
    BY <2>1
  <2> HIDE DEF w
  <2>3. QED
    BY <1>1, <1>3, <2>2
<1> HIDE DEF w
<1> DEFINE h == [p \in Units(u, S) |-> <<b[p[1]], p[2]>>]
<1>5. h \in Bijection(Units(u, S), Units(w, T))
  <2>1. ASSUME NEW p \in Units(u, S) PROVE h[p] \in Units(w, T)
    BY <1>1, <1>4 DEF Units
  <2>2. ASSUME NEW p \in Units(u, S), NEW q \in Units(u, S), h[p] = h[q] PROVE p = q
    <3>1. p = <<p[1], p[2]>> /\ q = <<q[1], q[2]>> /\ p[1] \in S /\ q[1] \in S
      BY DEF Units
    <3>2. b[p[1]] = b[q[1]] /\ p[2] = q[2]
      BY <2>2
    <3>3. QED
      BY <1>1, <3>1, <3>2
  <2>3. ASSUME NEW r \in Units(w, T) PROVE \E p \in Units(u, S) : h[p] = r
    <3>1. r = <<r[1], r[2]>> /\ r[1] \in T /\ r[2] \in Nat /\ r[2] < w[r[1]]
      BY DEF Units
    <3>2. PICK x \in S : b[x] = r[1]
      BY <1>1, <3>1
    <3>3. <<x, r[2]>> \in Units(u, S)
      BY <1>4, <3>1, <3>2 DEF Units
    <3>4. h[<<x, r[2]>>] = r
      BY <3>1, <3>2, <3>3
    <3>5. QED
      BY <3>3, <3>4
  <2>4. QED
    BY <2>1, <2>2, <2>3 DEF Bijection, Injection, Surjection, IsInjective
<1> HIDE DEF h
<1>6. Cardinality(Units(u, S)) = Cardinality(Units(w, T))
  <2>1. IsFiniteSet(Units(u, S))
    BY <1>3, UnitsFinite
  <2>2. QED
    BY <1>5, <2>1, FS_Bijection DEF ExistsBijection
<1>7. /\ SumFunctionOnSet(f, S) = Cardinality(Units(u, S)) - c * Cardinality(S)
      /\ SumFunctionOnSet(g, T) = Cardinality(Units(w, T)) - c * Cardinality(T)
  BY <1>2, <1>3, <1>4, SumIsCount
<1>8. QED
  BY <1>2, <1>6, <1>7

-----------------------------------------------------------------------------
(* A finite set of numbers that is not empty has a largest one.            *)
LEMMA MaxOfFinite ==
  ASSUME NEW S \in SUBSET Nat, IsFiniteSet(S), S # {}
  PROVE  Max(S) \in S /\ \A y \in S : y <= Max(S)
<1> DEFINE HasMax(s) == \E x \in s : \A y \in s : x >= y
           B == {s \in SUBSET S : s # {} /\ ~HasMax(s)}
<1>1. B = {}
  <2> SUFFICES ASSUME B # {} PROVE FALSE
    OBVIOUS
  <2>1. PICK s \in B : \A x \in s : s \ {x} \notin B
    BY SmallestSet
  <2>2. PICK x \in s : TRUE
    OBVIOUS
  <2>3. x \in Nat /\ \A y \in s : y \in Nat
    OBVIOUS
  <2>4. CASE s \ {x} = {}
    BY <2>3, <2>4
  <2>5. CASE s \ {x} # {}
    <3>1. PICK m \in s \ {x} : \A y \in s \ {x} : m >= y
      BY <2>1, <2>5
    <3>2. CASE m >= x
      BY <3>1, <3>2, <2>3
    <3>3. CASE x >= m
      <4>1. \A y \in s : x >= y
        BY <3>1, <3>3, <2>3
      <4>2. QED
        BY <4>1
    <3>4. QED
      BY <3>1, <3>2, <3>3, <2>3
  <2>6. QED
    BY <2>4, <2>5
<1>2. HasMax(S)
  BY <1>1
<1>3. Max(S) \in S /\ \A y \in S : Max(S) >= y
  BY <1>2 DEF Max
<1>4. QED
  BY <1>3

(* The values of a function on a finite set are finite.                    *)
LEMMA FiniteRange ==
  ASSUME NEW S, IsFiniteSet(S), NEW f, DOMAIN f = S, f = [x \in S |-> f[x]]
  PROVE  IsFiniteSet({f[x] : x \in S}) /\ Cardinality({f[x] : x \in S}) <= Cardinality(S)
<1> DEFINE T == {f[x] : x \in S}
<1>1. f \in Surjection(S, T)
  BY DEF Surjection
<1>2. QED
  BY <1>1, FS_Surjection

(* Of the levels of any evidence one is the most agile.                    *)
LEMMA MostAgile ==
  ASSUME NEW tagged, tagged # {}, \A t \in tagged : t.emit_level \in AgilityLevel
  PROVE  /\ aggregate_tagged_level(tagged) \in {t.emit_level : t \in tagged}
         /\ \A t \in tagged : Rank[t.emit_level] <= Rank[aggregate_tagged_level(tagged)]
<1> DEFINE L == {t.emit_level : t \in tagged}
           Best(l) == \A t \in tagged : ord_max(l, t.emit_level) = l
<1>1. L \subseteq AgilityLevel /\ L # {}
  OBVIOUS
<1>2. \A l \in AgilityLevel : Rank[l] \in 0..4
  BY DEF AgilityLevel, Rank
<1>3. \E l \in L : Best(l)
  <2> DEFINE R == {n \in Nat : \E l \in L : 4 - Rank[l] = n}
  <2>1. R \in SUBSET Nat /\ R # {}
    <3>1. PICK l \in L : TRUE
      BY <1>1
    <3>2. Rank[l] \in 0..4
      BY <1>1, <1>2
    <3>3. 4 - Rank[l] \in R
      BY <3>2
    <3>4. QED
      BY <3>3
  <2>2. PICK n \in R : \A k \in R : n <= k
    BY <2>1, LeastNumber
  <2>3. PICK l \in L : 4 - Rank[l] = n
    OBVIOUS
  <2>4. \A m \in L : Rank[l] >= Rank[m]
    <3> SUFFICES ASSUME NEW m \in L PROVE Rank[l] >= Rank[m]
      OBVIOUS
    <3>1. Rank[m] \in 0..4 /\ Rank[l] \in 0..4
      BY <1>1, <1>2
    <3>2. 4 - Rank[m] \in R
      BY <3>1
    <3>3. n <= 4 - Rank[m]
      BY <2>2, <3>2
    <3>4. QED
      BY <2>3, <3>1, <3>3
  <2>5. QED
    BY <2>4 DEF ord_max
<1>4. aggregate_tagged_level(tagged) = CHOOSE l \in L : Best(l)
  BY DEF aggregate_tagged_level
<1> DEFINE a == CHOOSE l \in L : Best(l)
<1>5. a \in L /\ Best(a)
  BY <1>3
<1> HIDE DEF a
<1>6. ASSUME NEW t \in tagged PROVE Rank[t.emit_level] <= Rank[a]
  <2>1. ord_max(a, t.emit_level) = a
    BY <1>5
  <2>2. Rank[t.emit_level] \in Int /\ Rank[a] \in Int
    BY <1>1, <1>2, <1>5
  <2>3. QED
    BY <2>1, <2>2 DEF ord_max
<1>7. QED
  BY <1>4, <1>5, <1>6 DEF a

(* The evidence, piece by piece.                                           *)
Found(f, r, n) ==
  [file |-> f.path, line |-> n, kind |-> r.evidence_kind, emit_level |-> r.emit_level]

Matches(f, r, n) ==
  /\ rule_applies(r.applies_to, classify_file(f.path), f.path)
  /\ n <= Len(f.lines) /\ r.pattern \in f.lines[n]

LEMMA TaggedIs ==
  ASSUME NEW files, NEW unreadable, NEW rules, NEW bytes, NEW lines
  PROVE  /\ \A t \in Tagged(files, unreadable, rules, bytes, lines) :
              \E f \in files, r \in rules, n \in 1..lines :
                t = Found(f, r, n) /\ Scanned(f, unreadable, bytes) /\ Matches(f, r, n)
         /\ \A f \in files, r \in rules, n \in 1..lines :
              Scanned(f, unreadable, bytes) /\ Matches(f, r, n) =>
                Found(f, r, n) \in Tagged(files, unreadable, rules, bytes, lines)
<1> DEFINE Hits(f, r) == {n \in 1..lines : Scanned(f, unreadable, bytes) /\ Matches(f, r, n)}
           Row(f, r) == {Found(f, r, n) : n \in Hits(f, r)}
<1>1. Tagged(files, unreadable, rules, bytes, lines) = UNION {Row(f, r) : f \in files, r \in rules}
  BY DEF Tagged, Found, Matches
<1>2. ASSUME NEW f \in files, NEW r \in rules, NEW n \in 1..lines,
             Scanned(f, unreadable, bytes), Matches(f, r, n)
      PROVE  Found(f, r, n) \in UNION {Row(g, q) : g \in files, q \in rules}
  <2>1. Found(f, r, n) \in Row(f, r)
    BY <1>2
  <2> HIDE DEF Row
  <2>2. QED
    BY <2>1
<1>3. ASSUME NEW t \in UNION {Row(f, r) : f \in files, r \in rules}
      PROVE  \E f \in files, r \in rules, n \in 1..lines :
                t = Found(f, r, n) /\ Scanned(f, unreadable, bytes) /\ Matches(f, r, n)
  <2>1. PICK f \in files, r \in rules : t \in Row(f, r)
    OBVIOUS
  <2>2. QED
    BY <2>1
<1> HIDE DEF Row
<1>4. QED
  BY <1>1, <1>2, <1>3

-----------------------------------------------------------------------------
(* What the scanner prints is a block of the schema.                       *)
LEMMA PrintedIsBlock ==
  ASSUME NEW b \in Printed
  PROVE  b.level \in AgilityLevel /\ b.level_score \in Int
<1>1. PICK dir \in RuleDirs, unreadable \in SUBSET Tree, bytes \in ByteCaps, lines \in LineCaps :
        b = scan_target(Tree, unreadable, load_ruleset(dir).rules, bytes, lines)
  BY DEF Printed
<1> DEFINE rules == load_ruleset(dir).rules
           found == Tagged(Tree, unreadable, rules, bytes, lines)
<1>2. \A r \in rules : r.emit_level \in AgilityLevel
  BY ScanAssumption DEF load_ruleset
<1>3. \A t \in found : t.emit_level \in AgilityLevel
  <2> HIDE DEF rules
  <2>1. \A t \in found : \E f \in Tree, r \in rules, n \in 1..lines : t = Found(f, r, n)
    BY TaggedIs
  <2>2. QED
    BY <1>2, <2>1 DEF Found
<1>4. b.level = aggregate_tagged_level(found) /\ b.level_score = score[b.level]
  BY <1>1 DEF scan_target
<1> HIDE DEF found
<1>5. b.level \in AgilityLevel
  <2>1. CASE found = {}
    BY <1>4, <2>1 DEF aggregate_tagged_level, AgilityLevel
  <2>2. CASE found # {}
    BY <1>3, <1>4, <2>2, MostAgile
  <2>3. QED
    BY <2>1, <2>2
<1>6. score[b.level] \in Int
  BY <1>5 DEF AgilityLevel, score
<1>7. QED
  BY <1>4, <1>5, <1>6

(* The inventory is finite and of the schema, its names are in the role    *)
(* that the rules expect, and a block comes from a scan.                   *)
InventoryOK ==
  /\ IsFiniteSet(latest)
  /\ latest \subseteq CryptoInventoryEvent
  /\ \A ev \in latest : \A i \in DOMAIN ev.primitives : Vocabulary(ev.primitives[i])

NoBlock == [level |-> "none", level_score |-> 0, evidence |-> {}]

AdvInv ==
  /\ InventoryOK
  /\ now \in Nat
  /\ block \in Printed \union {NoBlock}

LEMMA StoreKeeps ==
  ASSUME InventoryOK, NEW ev \in CryptoInventoryEvent, Store(ev),
         \A i \in DOMAIN ev.primitives : Vocabulary(ev.primitives[i])
  PROVE  InventoryOK'
<1> DEFINE rest == {e \in latest : Key(e) # Key(ev)}
<1>1. latest' = rest \union {ev}
  BY DEF Store
<1>2. IsFiniteSet(rest \union {ev})
  <2>1. IsFiniteSet(rest)
    BY FS_Subset DEF InventoryOK
  <2>2. QED
    BY <2>1, FS_AddElement
<1>3. \A e \in latest' : /\ e \in CryptoInventoryEvent
                         /\ \A i \in DOMAIN e.primitives : Vocabulary(e.primitives[i])
  BY <1>1 DEF InventoryOK
<1>4. QED
  BY <1>1, <1>2, <1>3 DEF InventoryOK

(* The invariant holds throughout.                                         *)
THEOREM AdvInvariant == Spec => []AdvInv
<1>1. Init => AdvInv
  BY FS_EmptySet, AdviceAssumption DEF Init, AdvInv, InventoryOK, NoBlock
<1>2. AdvInv /\ [Next]_vars => AdvInv'
  <2> SUFFICES ASSUME AdvInv, [Next]_vars PROVE AdvInv'
    OBVIOUS
  <2>0. Printed' = Printed
    BY DEF Printed
  <2>1. ASSUME NEW ev \in Seen, Observe(ev) PROVE AdvInv'
    <3>1. ev \in CryptoInventoryEvent /\ \A i \in DOMAIN ev.primitives : Vocabulary(ev.primitives[i])
      BY AdviceAssumption
    <3>2. InventoryOK' /\ now' = now /\ block' = block
      BY <2>1, <3>1, StoreKeeps DEF Observe, Store, AdvInv
    <3>3. QED
      BY <2>0, <3>2 DEF AdvInv
  <2>2. ASSUME NEW ev \in Wrapped, NEW agility \in External \union {LastScan},
               ObserveAgility(ev, agility)
        PROVE  AdvInv'
    <3> DEFINE e == [ev EXCEPT !.agility = agility]
    <3>0. agility \in AgilityBlock
      <4>1. CASE agility \in External
        BY <4>1, AdviceAssumption
      <4>2. CASE agility = LastScan /\ block \in Printed
        <5>1. block.level \in AgilityLevel /\ block.level_score \in Int
          BY <4>2, PrintedIsBlock
        <5>2. QED
          BY <4>2, <5>1 DEF LastScan, AgilityBlock
      <4>3. CASE agility = LastScan /\ block = NoBlock
        BY <2>2, <4>3 DEF LastScan, NoBlock, ObserveAgility, NoAgility
      <4>4. QED
        BY <4>1, <4>2, <4>3 DEF AdvInv
    <3>1. ev \in CryptoInventoryEvent /\ \A i \in DOMAIN ev.primitives : Vocabulary(ev.primitives[i])
      BY AdviceAssumption
    <3>2. e \in CryptoInventoryEvent /\ e.primitives = ev.primitives
      BY <3>0, <3>1 DEF CryptoInventoryEvent
    <3>3. Store(e)
      BY <2>2 DEF ObserveAgility
    <3> HIDE DEF e
    <3>4. InventoryOK' /\ now' = now /\ block' = block
      BY <3>1, <3>2, <3>3, StoreKeeps DEF Store, AdvInv
    <3>5. QED
      BY <2>0, <3>4 DEF AdvInv
  <2>3. CASE Tick
    BY <2>0, <2>3, AdviceAssumption DEF Tick, AdvInv, InventoryOK
  <2>4. ASSUME NEW printed \in Printed, Scan(printed) PROVE AdvInv'
    BY <2>0, <2>4 DEF Scan, AdvInv, InventoryOK
  <2>5. CASE UNCHANGED vars
    BY <2>0, <2>5 DEF vars, AdvInv, InventoryOK
  <2>6. QED
    BY <2>1, <2>2, <2>3, <2>4, <2>5 DEF Next
<1>3. QED
  BY <1>1, <1>2, PTL DEF Spec

-----------------------------------------------------------------------------
(* A scan that skips nothing finds all that another one found.             *)
LEMMA MoreIsFound ==
  ASSUME NEW rules, NEW unreadable, NEW bytes \in Nat, NEW lines \in Nat
  PROVE  Tagged(Tree, unreadable, rules, bytes, lines) \subseteq AllTagged(rules)
<1> DEFINE B == {f.bytes : f \in Tree}
           N == {Len(f.lines) : f \in Tree}
<1> SUFFICES ASSUME NEW t \in Tagged(Tree, unreadable, rules, bytes, lines)
             PROVE  t \in Tagged(Tree, {}, rules, Max(B), Max(N))
  BY DEF AllTagged
<1>1. PICK f \in Tree, r \in rules, n \in 1..lines :
        t = Found(f, r, n) /\ Scanned(f, unreadable, bytes) /\ Matches(f, r, n)
  BY TaggedIs
<1>2. IsFiniteSet(B) /\ IsFiniteSet(N)
  <2> DEFINE b == [g \in Tree |-> g.bytes]
             c == [g \in Tree |-> Len(g.lines)]
  <2>1. IsFiniteSet({b[g] : g \in Tree}) /\ IsFiniteSet({c[g] : g \in Tree})
    <3>1. DOMAIN b = Tree /\ DOMAIN c = Tree /\ b = [g \in Tree |-> b[g]] /\ c = [g \in Tree |-> c[g]]
      OBVIOUS
    <3> HIDE DEF b, c
    <3>2. QED
      BY <3>1, ScanAssumption, FiniteRange
  <2>2. {b[g] : g \in Tree} = B /\ {c[g] : g \in Tree} = N
    OBVIOUS
  <2>3. QED
    BY <2>1, <2>2
<1>3. B \in SUBSET Nat /\ N \in SUBSET Nat /\ B # {} /\ N # {}
  BY ScanAssumption
<1>4. f.bytes <= Max(B) /\ Len(f.lines) <= Max(N) /\ Max(B) \in Nat /\ Max(N) \in Nat
  <2>1. f.bytes \in B /\ Len(f.lines) \in N
    OBVIOUS
  <2> HIDE DEF B, N
  <2>2. QED
    BY <1>2, <1>3, <2>1, MaxOfFinite
<1>5. n \in 1..Max(N)
  <2>1. Len(f.lines) \in Nat
    BY ScanAssumption
  <2> HIDE DEF N
  <2>2. QED
    BY <1>1, <1>4, <2>1 DEF Matches
<1>6. Scanned(f, {}, Max(B))
  BY <1>1, <1>4 DEF Scanned
<1> HIDE DEF B, N
<1>7. QED
  BY <1>1, <1>5, <1>6, TaggedIs

(* A scan that had to skip files makes up neither its evidence nor its     *)
(* level (scan_target), for any tree, rules and limits.                    *)
THEOREM PartialScans == Spec => []PartialScanIsSupported
<1>1. AdvInv => PartialScanIsSupported
  <2> SUFFICES ASSUME AdvInv, block.level # "none"
               PROVE  \E dir \in {d \in RuleDirs : load_ruleset(d).ok} :
                        LET all == AllTagged(load_ruleset(dir).rules)
                        IN  /\ block.evidence \subseteq {Evidence(t) : t \in all}
                            /\ \/ block.evidence = {} /\ block.level = "pinned"
                               \/ \E t \in all : /\ Evidence(t) \in block.evidence
                                                 /\ block.level = t.emit_level
    BY DEF PartialScanIsSupported
  <2>1. block \in Printed
    BY DEF AdvInv, NoBlock
  <2>2. PICK dir \in RuleDirs, unreadable \in SUBSET Tree, bytes \in ByteCaps, lines \in LineCaps :
          /\ load_ruleset(dir).ok
          /\ block = scan_target(Tree, unreadable, load_ruleset(dir).rules, bytes, lines)
    BY <2>1 DEF Printed
  <2> DEFINE rules == load_ruleset(dir).rules
             found == Tagged(Tree, unreadable, rules, bytes, lines)
             all == AllTagged(rules)
  <2>3. found \subseteq all
    BY MoreIsFound, ScanAssumption
  <2>4. \A t \in found : t.emit_level \in AgilityLevel
    <3>1. \A r \in rules : r.emit_level \in AgilityLevel
      BY ScanAssumption DEF load_ruleset
    <3> HIDE DEF rules
    <3>2. \A t \in found : \E f \in Tree, r \in rules, n \in 1..lines : t = Found(f, r, n)
      BY TaggedIs
    <3>3. QED
      BY <3>1, <3>2 DEF Found
  <2>5. /\ block.level = aggregate_tagged_level(found)
        /\ block.evidence = {Evidence(t) : t \in found}
    BY <2>2 DEF scan_target
  <2> HIDE DEF found, all
  <2>6. block.evidence \subseteq {Evidence(t) : t \in all}
    BY <2>3, <2>5
  <2>7. \/ block.evidence = {} /\ block.level = "pinned"
        \/ \E t \in all : Evidence(t) \in block.evidence /\ block.level = t.emit_level
    <3>1. CASE found = {}
      BY <2>5, <3>1 DEF aggregate_tagged_level
    <3>2. CASE found # {}
      <4>1. PICK t \in found : aggregate_tagged_level(found) = t.emit_level
        BY <2>4, <3>2, MostAgile
      <4>2. QED
        BY <2>3, <2>5, <4>1
    <3>3. QED
      BY <3>1, <3>2
  <2>8. QED
    BY <2>2, <2>6, <2>7 DEF all
<1>2. QED
  BY <1>1, AdvInvariant, PTL

-----------------------------------------------------------------------------
LEMMA TimesUp ==
  ASSUME NEW x \in Nat, NEW a \in Nat, NEW b \in Nat, a <= b
  PROVE  x * a \in Nat /\ x * a <= x * b
<1>1. PICK d \in Nat : b = a + d
  <2>1. b - a \in Nat /\ b = a + (b - a)
    OBVIOUS
  <2>2. QED
    BY <2>1
<1>2. x * (a + d) = x * a + x * d /\ x * d \in Nat /\ x * a \in Nat
  OBVIOUS
<1>3. QED
  BY <1>1, <1>2

LEMMA TimesKeeps ==
  ASSUME NEW x \in Nat, NEW a \in Int, NEW b \in Int, a <= b
  PROVE  x * a <= x * b
<1>1. PICK d \in Nat : b = a + d
  <2>1. b - a \in Nat /\ b = a + (b - a)
    OBVIOUS
  <2>2. QED
    BY <2>1
<1>2. x * (a + d) = x * a + x * d /\ x * d \in Nat /\ x * a \in Int
  OBVIOUS
<1>3. QED
  BY <1>1, <1>2

LEMMA MeanBound ==
  ASSUME NEW a \in Nat, NEW b \in Nat, b >= 1, NEW u \in Nat, a <= u * b
  PROVE  a \div b \in 0..u
<1> DEFINE k == a \div b
<1>1. k \in Nat /\ b * k <= a
  BY Z3T(30)
<1> HIDE DEF k
<1>2. CASE k > u
  <2>1. b * (u + 1) <= b * k
    BY <1>1, <1>2, TimesUp
  <2>2. b * (u + 1) = u * b + b /\ u * b \in Nat /\ b * k \in Nat
    BY <1>1
  <2>3. QED
    BY <1>1, <2>1, <2>2
<1>3. QED
  BY <1>1, <1>2 DEF k

(* Every axis is between 0 and 1.                                          *)
LEMMA PrimitiveScore ==
  ASSUME NEW p \in AnyPrimitive
  PROVE  /\ RoleWeight[p.role] \in 1..4
         /\ primitive_a_score(p) \in 0..Unit
<1>1. p.role \in PrimitiveRole /\ p.pq \in Resistance
  BY DEF AnyPrimitive
<1>2. RoleWeight[p.role] \in 1..4
  BY <1>1 DEF PrimitiveRole, RoleWeight
<1>3. primitive_a_score(p) \in {Unit, (3 * Unit) \div 10, (4 * Unit) \div 10}
  BY <1>1 DEF Resistance, primitive_a_score
<1>4. QED
  BY <1>2, <1>3 DEF Unit

LEMMA AxisA ==
  ASSUME NEW prims \in Seq(AnyPrimitive)
  PROVE  axis_a(prims) \in 0..Unit
<1>1. CASE prims = <<>>
  BY <1>1 DEF axis_a, Unit
<1>2. CASE prims # <<>>
  <2> DEFINE S == DOMAIN prims
             W == [i \in S |-> RoleWeight[prims[i].role]]
             A == [i \in S |-> W[i] * primitive_a_score(prims[i])]
             w == SumFunctionOnSet(W, S)
             a == SumFunctionOnSet(A, S)
  <2>1. axis_a(prims) = a \div w
    BY <1>2 DEF axis_a, SumFunction
  <2>2. S = 1..Len(prims) /\ Len(prims) \in Nat /\ 1 \in S
    BY <1>2
  <2>3. IsFiniteSet(S)
    BY <2>2, FS_Interval
  <2>4. ASSUME NEW i \in S
        PROVE  W[i] \in Nat /\ W[i] >= 1 /\ A[i] \in Nat /\ A[i] <= Unit * W[i]
    <3>1. prims[i] \in AnyPrimitive
      BY <2>2
    <3>2. RoleWeight[prims[i].role] \in 1..4 /\ primitive_a_score(prims[i]) \in 0..Unit
      BY ONLY <3>1, PrimitiveScore, Zenon
    <3>3. W[i] = RoleWeight[prims[i].role] /\ A[i] = W[i] * primitive_a_score(prims[i])
      OBVIOUS
    <3> HIDE DEF W, A
    <3>4. W[i] \in 1..4 /\ primitive_a_score(prims[i]) \in 0..Unit /\ Unit \in Nat
      <4>1. W[i] \in 1..4
        BY ONLY <3>2, <3>3, Zenon
      <4>2. Unit \in Nat
        BY DEF Unit
      <4>3. QED
        BY ONLY <3>2, <4>1, <4>2, Zenon
    <3>5. W[i] * primitive_a_score(prims[i]) \in Nat
          /\ W[i] * primitive_a_score(prims[i]) <= W[i] * Unit
      BY <3>4, TimesUp
    <3>6. QED
      BY <3>4, <3>3, <3>5
  <2> HIDE DEF W, A, S
  <2>5. Unit \in Nat
    BY DEF Unit
  <2>6. a \in Nat /\ w \in Nat /\ a <= Unit * w
    <3>1. a \in Nat /\ w \in Nat
      BY <2>3, <2>4, SumIsNat
    <3>2. \A i \in S : A[i] \in Int /\ W[i] \in Int /\ A[i] <= Unit * W[i]
      BY <2>4
    <3>3. a <= Unit * w
      BY ONLY <2>3, <2>5, <3>2, SumBound
    <3>4. QED
      BY <3>1, <3>3
  <2>7. w >= 1
    <3>1. \A i \in S : W[i] \in Nat
      BY <2>4
    <3>2. W[1] <= w
      BY <2>2, <2>3, <3>1, SumAtLeast
    <3>3. QED
      BY <2>2, <2>4, <2>6, <3>2
  <2> HIDE DEF a, w
  <2>8. QED
    BY <2>1, <2>5, <2>6, <2>7, MeanBound
<1>3. QED
  BY <1>1, <1>2

(* The agility axis is what the sender of the block says.                  *)
LEMMA Axes ==
  ASSUME NEW ev \in CryptoInventoryEvent
  PROVE  /\ axis_a(ev.primitives) \in 0..Unit
         /\ axis_c(ev.channel) \in 0..Unit
         /\ axis_g(ev.agility) \in Int
<1>1. axis_a(ev.primitives) \in 0..Unit
  BY AxisA DEF CryptoInventoryEvent
<1>2. ev.channel.state \in ChannelState \union {"none"}
  BY DEF CryptoInventoryEvent, ChannelProtection, NoChannel
<1>3. axis_c(ev.channel) \in 0..Unit
  <2>1. 0 \in 0..Unit /\ Unit \in 0..Unit /\ (7 * Unit) \div 10 \in 0..Unit
    BY DEF Unit
  <2>2. CASE ev.channel.state \in {"none", "classical"}
    BY <2>1, <2>2 DEF axis_c
  <2>3. CASE ev.channel.state = "qkd_hybrid_psk"
    BY <2>1, <2>3 DEF axis_c
  <2>4. CASE ev.channel.state = "qkd_only"
    BY <2>1, <2>4 DEF axis_c
  <2>5. QED
    BY <1>2, <2>2, <2>3, <2>4 DEF ChannelState
<1>4. ev.agility \in AgilityBlock \union {NoAgility}
  BY DEF CryptoInventoryEvent
<1>5. axis_g(ev.agility) \in Int
  <2>1. Unit \div 100 \in Int
    BY DEF Unit
  <2>2. (IF ev.agility = NoAgility THEN score["pinned"] ELSE ev.agility.level_score) \in Int
    BY <1>4 DEF AgilityBlock, score
  <2>3. QED
    BY <2>1, <2>2 DEF axis_g
<1>6. QED
  BY <1>1, <1>3, <1>5

(* The weight of the agility shrinks as time goes by.                      *)
LEMMA Weights ==
  ASSUME NEW n \in Int
  PROVE  /\ Span \in Nat /\ Span >= 1
         /\ Gamma(n) \in 0..3 * Span
         /\ Total(n) = 7 * Span + Gamma(n)
         /\ \A m \in Int : n <= m => Gamma(m) <= Gamma(n)
<1>1. Span \in Nat /\ Span >= 1
  BY PostureAssumption DEF Span
<1>2. /\ deadline_tension(n) \in 0..Span
      /\ \A m \in Int : n <= m => /\ deadline_tension(n) <= deadline_tension(m)
                                  /\ deadline_tension(m) \in 0..Span
  BY PostureAssumption DEF Span, deadline_tension
<1>3. QED
  BY <1>1, <1>2 DEF Gamma, Total

(* A score is a number, and 1.0 is a positive one.                         *)
LEMMA ScoreRange ==
  ASSUME NEW ev \in CryptoInventoryEvent, NEW n \in Int
  PROVE  q_for_event(ev, n) \in Int /\ Whole(n) \in Nat
<1> DEFINE a == axis_a(ev.primitives)
           c == axis_c(ev.channel)
           g == axis_g(ev.agility)
           G == Gamma(n)
<1>1. a \in Int /\ c \in Int /\ g \in Int /\ Unit \in Nat
  <2>1. Unit \in Nat
    BY DEF Unit
  <2>2. a \in 0..Unit /\ c \in 0..Unit /\ g \in Int
    BY Axes
  <2>3. QED
    BY <2>1, <2>2
<1>2. Span \in Nat /\ G \in Nat /\ Total(n) = 7 * Span + G
  BY Weights
<1>3. q_for_event(ev, n) = Whole(n) - (5 * Span * a + 2 * Span * c + G * g)
  BY DEF q_for_event
<1>4. Whole(n) = (7 * Span + G) * Unit
  BY <1>2 DEF Whole
<1> HIDE DEF a, c, g, G
<1>5. Whole(n) \in Nat
  BY <1>1, <1>2, <1>4
<1>6. 5 * Span * a \in Int /\ 2 * Span * c \in Int /\ G * g \in Int
  BY <1>1, <1>2
<1>7. QED
  BY <1>3, <1>5, <1>6

LEMMA RiseIs ==
  ASSUME NEW s \in Int, NEW a \in Int, NEW c \in Int, NEW g \in Int, NEW u \in Int,
         NEW G \in Int, NEW H \in Int
  PROVE  ((7 * s + H) * u - (5 * s * a + 2 * s * c + H * g)) * (7 * s + G)
           - ((7 * s + G) * u - (5 * s * a + 2 * s * c + G * g)) * (7 * s + H)
         = ((G - H) * s) * (7 * g - (5 * a + 2 * c))
  OBVIOUS

LEMMA SameSign ==
  ASSUME NEW x \in Nat, NEW lean \in Int
  PROVE  (lean >= 0 => x * lean >= 0) /\ (lean <= 0 => x * lean <= 0)
  OBVIOUS

(* As the deadline nears, the risk of an asset moves against its agility,  *)
(* for any deadline, horizon and step of the clock (q_for_event).          *)
THEOREM RiskMoves == Spec => RiskMovesAgainstAgility
<1>1. ASSUME AdvInv, [Next]_vars, now' # now, NEW ev \in latest
      PROVE  LET rise == q_for_event(ev, now') * Total(now) - q_for_event(ev, now) * Total(now')
                 lean == 7 * axis_g(ev.agility) - (5 * axis_a(ev.primitives) + 2 * axis_c(ev.channel))
             IN  (lean >= 0 => rise >= 0) /\ (lean <= 0 => rise <= 0)
  <2> DEFINE a == axis_a(ev.primitives)
             c == axis_c(ev.channel)
             g == axis_g(ev.agility)
             G == Gamma(now)
             H == Gamma(now')
             lean == 7 * g - (5 * a + 2 * c)
             rise == q_for_event(ev, now') * Total(now) - q_for_event(ev, now) * Total(now')
  <2>1. Tick
    BY <1>1 DEF Next, Observe, ObserveAgility, Store, Scan, vars
  <2>2. now \in Int /\ now' \in Int /\ now <= now'
    BY <1>1, <2>1, AdviceAssumption DEF AdvInv, Tick
  <2>3. Unit \in Int
    BY DEF Unit
  <2>4. a \in Int /\ c \in Int /\ g \in Int
    <3>1. ev \in CryptoInventoryEvent
      BY <1>1 DEF AdvInv, InventoryOK
    <3>2. a \in 0..Unit /\ c \in 0..Unit /\ g \in Int
      BY <3>1, Axes
    <3>3. QED
      BY <3>2, <2>3
  <2>5. /\ Span \in Nat /\ G \in 0..3 * Span /\ H \in 0..3 * Span /\ H <= G
        /\ Total(now) = 7 * Span + G /\ Total(now') = 7 * Span + H
    BY <2>2, Weights
  <2>6. /\ q_for_event(ev, now) = (7 * Span + G) * Unit - (5 * Span * a + 2 * Span * c + G * g)
        /\ q_for_event(ev, now') = (7 * Span + H) * Unit - (5 * Span * a + 2 * Span * c + H * g)
    BY <2>5 DEF q_for_event, Whole
  <2>7. rise = ((7 * Span + H) * Unit - (5 * Span * a + 2 * Span * c + H * g)) * (7 * Span + G)
               - ((7 * Span + G) * Unit - (5 * Span * a + 2 * Span * c + G * g)) * (7 * Span + H)
    BY <2>5, <2>6
  <2> HIDE DEF a, c, g, G, H, rise
  <2>8. rise = ((G - H) * Span) * lean
    <3>1. Span \in Int /\ G \in Int /\ H \in Int
      BY <2>5
    <3>2. QED
      BY <2>3, <2>4, <2>7, <3>1, RiseIs
  <2>9. (G - H) * Span \in Nat
    BY <2>5
  <2>10. lean \in Int
    BY <2>4
  <2> HIDE DEF lean
  <2>11. (lean >= 0 => rise >= 0) /\ (lean <= 0 => rise <= 0)
    BY <2>8, <2>9, <2>10, SameSign
  <2>12. QED
    BY <2>11 DEF a, c, g, lean, rise
<1>2. AdvInv /\ [Next]_vars =>
        [now' # now => \A ev \in latest \intersect latest' :
           LET rise == q_for_event(ev, now') * Total(now) - q_for_event(ev, now) * Total(now')
               lean == 7 * axis_g(ev.agility) - (5 * axis_a(ev.primitives) + 2 * axis_c(ev.channel))
           IN  (lean >= 0 => rise >= 0) /\ (lean <= 0 => rise <= 0)]_vars
  BY <1>1
<1>3. QED
  BY <1>2, AdvInvariant, PTL DEF Spec, RiskMovesAgainstAgility

-----------------------------------------------------------------------------
(* A function on 1..n is a sequence of length n.                           *)
LEMMA LengthIs ==
  ASSUME NEW n \in Nat, NEW f, f = [i \in 1..n |-> f[i]]
  PROVE  DOMAIN f = 1..n /\ Len(f) = n /\ (n = 0 => f = <<>>)
<1> DEFINE R == {f[i] : i \in 1..n}
<1>1. DOMAIN f = 1..n
  OBVIOUS
<1>2. f \in [1..n -> R]
  OBVIOUS
<1>3. f \in Seq(R)
  BY <1>2
<1>4. Len(f) \in Nat /\ DOMAIN f = 1..Len(f)
  BY <1>3
<1>5. Len(f) = n
  <2>1. 1..n = 1..Len(f)
    BY <1>1, <1>4
  <2>2. CASE n < Len(f)
    BY <1>4, <2>1, <2>2
  <2>3. CASE n > Len(f)
    BY <1>4, <2>1, <2>3
  <2>4. QED
    BY <1>4, <2>2, <2>3
<1>6. n = 0 => f = <<>>
  BY <1>3, <1>5, EmptySeq
<1>7. QED
  BY <1>1, <1>5, <1>6

(* Milestones: which one comes before which (sort_by_key is stable).       *)
Before(plan, j, i) ==
  \/ plan[j].date < plan[i].date
  \/ plan[j].date = plan[i].date /\ j <= i

LEMMA PlaceStrict ==
  ASSUME NEW plan, NEW n \in Nat, DOMAIN plan = 1..n, \A i \in 1..n : plan[i].date \in Int
  PROVE  /\ \A i \in 1..n : Place(plan, i) \in 1..n
         /\ \A i, j \in 1..n : i # j /\ Before(plan, i, j) => Place(plan, i) < Place(plan, j)
<1> DEFINE Below(i) == {j \in 1..n : Before(plan, j, i)}
<1>1. \A i : Place(plan, i) = Cardinality(Below(i))
  BY DEF Place, Before
<1>2. IsFiniteSet(1..n) /\ Cardinality(1..n) = n
  BY FS_Interval
<1>3. \A i \in 1..n : /\ Below(i) \in SUBSET (1..n) /\ i \in Below(i)
                      /\ IsFiniteSet(Below(i)) /\ Cardinality(Below(i)) \in Nat
                      /\ Cardinality(Below(i)) <= n
  <2> SUFFICES ASSUME NEW i \in 1..n
               PROVE  /\ Below(i) \in SUBSET (1..n) /\ i \in Below(i)
                      /\ IsFiniteSet(Below(i)) /\ Cardinality(Below(i)) \in Nat
                      /\ Cardinality(Below(i)) <= n
    OBVIOUS
  <2>1. Below(i) \in SUBSET (1..n) /\ i \in Below(i)
    BY DEF Before
  <2> HIDE DEF Below
  <2>2. QED
    BY <1>2, <2>1, FS_Subset, FS_CardinalityType
<1>4. ASSUME NEW i \in 1..n, NEW j \in 1..n, i # j, Before(plan, i, j)
      PROVE  Cardinality(Below(i)) < Cardinality(Below(j))
  <2>1. Below(i) \in SUBSET Below(j)
    BY <1>4 DEF Before
  <2>2. j \in Below(j) /\ j \notin Below(i)
    BY <1>4 DEF Before
  <2> HIDE DEF Below
  <2>3. /\ Cardinality(Below(i)) <= Cardinality(Below(j))
        /\ Cardinality(Below(i)) # Cardinality(Below(j))
    BY <1>3, <2>1, <2>2, FS_Subset
  <2>4. QED
    BY <1>3, <2>3
<1>5. \A i \in 1..n : Cardinality(Below(i)) >= 1
  <2> SUFFICES ASSUME NEW i \in 1..n PROVE Cardinality(Below(i)) >= 1
    OBVIOUS
  <2>1. Below(i) # {}
    BY <1>3
  <2> HIDE DEF Below
  <2>2. Cardinality(Below(i)) # 0
    BY <1>3, <2>1, FS_EmptySet
  <2>3. QED
    BY <1>3, <2>2
<1> HIDE DEF Below
<1>6. \A i \in 1..n : Cardinality(Below(i)) \in 1..n
  <2> SUFFICES ASSUME NEW i \in 1..n PROVE Cardinality(Below(i)) \in 1..n
    OBVIOUS
  <2>1. Cardinality(Below(i)) \in Nat /\ Cardinality(Below(i)) >= 1 /\ Cardinality(Below(i)) <= n
    BY <1>3, <1>5, Zenon
  <2>2. QED
    BY <2>1
<1>7. \A i \in 1..n : Place(plan, i) \in 1..n
  BY <1>1, <1>6, Zenon
<1>8. \A i, j \in 1..n : i # j /\ Before(plan, i, j) => Place(plan, i) < Place(plan, j)
  BY <1>1, <1>4, Zenon
<1>9. QED
  BY <1>7, <1>8, Zenon

(* The milestones are in the order of their dates.                         *)
LEMMA SortedByDate ==
  ASSUME NEW plan, NEW n \in Nat, DOMAIN plan = 1..n, \A i \in 1..n : plan[i].date \in Int
  PROVE  /\ Sorted(plan) = [k \in 1..n |-> Sorted(plan)[k]]
         /\ \A k \in 1..n : Sorted(plan)[k] \in {plan[i] : i \in 1..n}
         /\ \A k \in 1..n - 1 : Sorted(plan)[k].date <= Sorted(plan)[k + 1].date
<1> DEFINE place == [i \in 1..n |-> Place(plan, i)]
           at(k) == CHOOSE i \in 1..n : Place(plan, i) = k
<1>1. \A i \in 1..n : Place(plan, i) \in 1..n
  BY PlaceStrict
<1>2. \A i, j \in 1..n : i # j /\ Before(plan, i, j) => Place(plan, i) < Place(plan, j)
  BY PlaceStrict
<1>3. place \in Injection(1..n, 1..n)
  <2>1. place \in [1..n -> 1..n]
    BY <1>1
  <2>2. ASSUME NEW i \in 1..n, NEW j \in 1..n, i # j PROVE place[i] # place[j]
    <3>1. Before(plan, i, j) \/ Before(plan, j, i)
      BY DEF Before
    <3>2. Place(plan, i) < Place(plan, j) \/ Place(plan, j) < Place(plan, i)
      BY <1>2, <2>2, <3>1
    <3>3. Place(plan, i) \in Int /\ Place(plan, j) \in Int
      BY <1>1
    <3>4. QED
      BY <3>2, <3>3
  <2>3. QED
    BY <2>1, <2>2 DEF Injection, IsInjective
<1>4. place \in Surjection(1..n, 1..n)
  <2>1. IsFiniteSet(1..n)
    BY FS_Interval
  <2>2. QED
    BY <1>3, <2>1, FS_Injection
<1>5. \A k \in 1..n : at(k) \in 1..n /\ Place(plan, at(k)) = k
  <2> SUFFICES ASSUME NEW k \in 1..n PROVE at(k) \in 1..n /\ Place(plan, at(k)) = k
    OBVIOUS
  <2>1. \E i \in 1..n : place[i] = k
    BY <1>4 DEF Surjection
  <2>2. \E i \in 1..n : Place(plan, i) = k
    BY <2>1
  <2>3. QED
    BY <2>2
<1>6. Sorted(plan) = [k \in 1..n |-> plan[at(k)]]
  BY DEF Sorted
<1> HIDE DEF at
<1>7. \A k \in 1..n : Sorted(plan)[k] = plan[at(k)]
  BY <1>6
<1>8. ASSUME NEW k \in 1..n - 1 PROVE plan[at(k)].date <= plan[at(k + 1)].date
  <2>1. k \in 1..n /\ k + 1 \in 1..n
    OBVIOUS
  <2>2. /\ at(k) \in 1..n /\ Place(plan, at(k)) = k
        /\ at(k + 1) \in 1..n /\ Place(plan, at(k + 1)) = k + 1
    BY <1>5, <2>1
  <2>3. CASE plan[at(k)].date > plan[at(k + 1)].date
    <3>1. Before(plan, at(k + 1), at(k)) /\ at(k + 1) # at(k)
      BY <2>2, <2>3 DEF Before
    <3>2. k + 1 < k
      BY <1>2, <2>2, <3>1
    <3>3. QED
      BY <3>2
  <2>4. QED
    BY <2>2, <2>3
<1>9. QED
  BY <1>5, <1>6, <1>7, <1>8

(* The states between the milestones: the recursion behind Trajectory has  *)
(* a solution, in which the last milestone that names an asset decides.    *)
LEMMA TrajectoryIs ==
  ASSUME NEW items, NEW plan, NEW whole, NEW n \in Nat,
         Sorted(plan) = [k \in 1..n |-> Sorted(plan)[k]]
  PROVE  \E st : /\ st[0] = WorkingCopy(items)
                 /\ \A k \in 1..n : st[k] = Migrated(st[k - 1], Sorted(plan)[k], whole)
                 /\ Trajectory(items, plan, whole)
                      = [k \in 1..n |-> Projection(Sorted(plan)[k], st[k - 1], st[k], whole)]
<1> DEFINE sorted == Sorted(plan)
           s0 == WorkingCopy(items)
           D == DOMAIN s0
           Body(s) == [k \in 0..n |-> IF k = 0 THEN s0 ELSE Migrated(s[k - 1], sorted[k], whole)]
           Hit(k, id) == {j \in 1..k : id \in Range(sorted[j].asset_ids)}
           Snap(id, m) == AssetSnapshot(id, whole \div 10, FALSE, m.target_primitives)
           closed == [k \in 0..n |-> [id \in D |-> IF Hit(k, id) = {} THEN s0[id]
                                                   ELSE Snap(id, sorted[Max(Hit(k, id))])]]
           state == CHOOSE s : s = Body(s)
<1>1. DOMAIN sorted = 1..n /\ Len(sorted) = n
  BY LengthIs
<1>2. s0 = [id \in D |-> s0[id]]
  BY DEF WorkingCopy
<1>3. Trajectory(items, plan, whole)
        = [k \in 1..n |-> Projection(sorted[k], state[k - 1], state[k], whole)]
  BY <1>1 DEF Trajectory
<1> HIDE DEF s0, sorted, D
<1>4. closed[0] = s0
  <2>1. \A id : Hit(0, id) = {}
    OBVIOUS
  <2> HIDE DEF Hit, Snap
  <2>2. closed[0] = [id \in D |-> IF Hit(0, id) = {} THEN s0[id]
                                  ELSE Snap(id, sorted[Max(Hit(0, id))])]
    OBVIOUS
  <2>3. closed[0] = [id \in D |-> s0[id]]
    BY <2>1, <2>2
  <2>4. QED
    BY <1>2, <2>3
<1>5. ASSUME NEW k \in 1..n PROVE closed[k] = Migrated(closed[k - 1], sorted[k], whole)
  <2>1. k \in 0..n /\ k - 1 \in 0..n
    OBVIOUS
  <2>2. DOMAIN closed[k - 1] = D /\ DOMAIN closed[k] = D
    BY <2>1
  <2>3. ASSUME NEW id \in D
        PROVE  closed[k][id] = IF id \in Range(sorted[k].asset_ids) THEN Snap(id, sorted[k])
                               ELSE closed[k - 1][id]
    <3>1. CASE id \in Range(sorted[k].asset_ids)
      <4>1. k \in Hit(k, id) /\ Hit(k, id) \in SUBSET Nat /\ \A j \in Hit(k, id) : k >= j
        BY <3>1
      <4>2. Max(Hit(k, id)) = k
        <5> HIDE DEF Hit
        <5> DEFINE m == Max(Hit(k, id))
        <5>1. m \in Hit(k, id) /\ \A j \in Hit(k, id) : m >= j
          BY <4>1 DEF Max
        <5> HIDE DEF m
        <5>2. m \in Nat /\ m >= k /\ k >= m
          BY <4>1, <5>1
        <5>3. m = k
          BY <5>2
        <5>4. QED
          BY <5>3 DEF m
      <4> HIDE DEF Hit, Snap
      <4>3. closed[k][id] = Snap(id, sorted[k])
        BY <2>1, <4>1, <4>2
      <4> HIDE DEF closed
      <4>4. QED
        BY <3>1, <4>3
    <3>2. CASE id \notin Range(sorted[k].asset_ids)
      <4>1. Hit(k, id) = Hit(k - 1, id)
        <5>1. \A j \in 1..k : j = k \/ j \in 1..k - 1
          OBVIOUS
        <5>2. \A j \in 1..k - 1 : j \in 1..k
          OBVIOUS
        <5>3. QED
          BY <3>2, <5>1, <5>2
      <4> HIDE DEF Hit, Snap
      <4>2. closed[k][id] = closed[k - 1][id]
        BY <2>1, <4>1
      <4> HIDE DEF closed
      <4>3. QED
        BY <3>2, <4>2
    <3>3. QED
      BY <3>1, <3>2
  <2>4. closed[k] = [id \in D |-> closed[k][id]]
    BY <2>1
  <2> HIDE DEF closed
  <2>5. Migrated(closed[k - 1], sorted[k], whole)
          = [id \in D |-> IF id \in Range(sorted[k].asset_ids) THEN Snap(id, sorted[k])
                          ELSE closed[k - 1][id]]
    BY <2>2 DEF Migrated
  <2> HIDE DEF Snap
  <2>6. QED
    BY <2>3, <2>4, <2>5
<1>6. closed = Body(closed)
  <2>1. \A k \in 0..n : k # 0 => k \in 1..n
    OBVIOUS
  <2>2. closed = [k \in 0..n |-> closed[k]]
    OBVIOUS
  <2> HIDE DEF closed
  <2>3. \A k \in 0..n : closed[k] = IF k = 0 THEN s0 ELSE Migrated(closed[k - 1], sorted[k], whole)
    BY <1>4, <1>5, <2>1
  <2>4. QED
    BY <2>2, <2>3
<1> HIDE DEF closed
<1>7. state = Body(state)
  <2>1. \E s : s = Body(s)
    BY <1>6
  <2> HIDE DEF Body
  <2>2. QED
    BY <2>1
<1> HIDE DEF state
<1>8. state[0] = s0 /\ \A k \in 1..n : state[k] = Migrated(state[k - 1], sorted[k], whole)
  <2>1. 0 \in 0..n /\ \A k \in 1..n : k \in 0..n /\ k # 0
    OBVIOUS
  <2>2. \A k \in 0..n : state[k] = IF k = 0 THEN s0 ELSE Migrated(state[k - 1], sorted[k], whole)
    BY <1>7
  <2>3. QED
    BY <2>1, <2>2
<1>9. QED
  BY <1>3, <1>8 DEF s0, sorted

LEMMA WorkingCopyIs ==
  ASSUME NEW items, NEW n \in Nat, items = [i \in 1..n |-> items[i]]
  PROVE  LET D == {items[i].identity : i \in 1..n}
         IN  /\ DOMAIN WorkingCopy(items) = D
             /\ IsFiniteSet(D)
             /\ \A id \in D : \E i \in 1..n : /\ WorkingCopy(items)[id] = items[i]
                                              /\ items[i].identity = id
<1> DEFINE D == {items[i].identity : i \in 1..n}
           At(id) == {i \in 1..n : items[i].identity = id}
<1>1. DOMAIN items = 1..n
  OBVIOUS
<1>2. WorkingCopy(items) = [id \in D |-> items[Max(At(id))]]
  BY <1>1 DEF WorkingCopy
<1>3. IsFiniteSet(1..n)
  BY FS_Interval
<1>4. IsFiniteSet(D)
  <2> DEFINE f == [i \in 1..n |-> items[i].identity]
  <2>1. DOMAIN f = 1..n /\ f = [i \in 1..n |-> f[i]] /\ {f[i] : i \in 1..n} = D
    OBVIOUS
  <2> HIDE DEF f, D
  <2>2. IsFiniteSet({f[i] : i \in 1..n})
    BY <1>3, <2>1, FiniteRange
  <2>3. QED
    BY <2>1, <2>2
<1>5. ASSUME NEW id \in D
      PROVE  \E i \in 1..n : WorkingCopy(items)[id] = items[i] /\ items[i].identity = id
  <2>1. At(id) \in SUBSET Nat /\ At(id) # {} /\ IsFiniteSet(At(id))
    BY <1>3, FS_Subset
  <2>2. Max(At(id)) \in At(id)
    <3> HIDE DEF At
    <3>1. QED
      BY <2>1, MaxOfFinite
  <2>3. WorkingCopy(items)[id] = items[Max(At(id))]
    BY <1>2
  <2>4. QED
    BY <2>2, <2>3
<1>6. QED
  BY <1>2, <1>4, <1>5

(* A run of milestones from a first state, and what holds after each: the  *)
(* identities are left alone, and no score is below 0.10 that was not.     *)
Chain(st, ms, n, whole) ==
  /\ \A id \in DOMAIN st[0] : st[0][id].q \in Int
  /\ \A k \in 1..n : st[k] = Migrated(st[k - 1], ms[k], whole)

High(s, whole) == \A id \in DOMAIN s : s[id].q >= whole \div 10

StateOK(s, first, whole) ==
  /\ DOMAIN s = DOMAIN first
  /\ \A id \in DOMAIN s : s[id].q \in Int
  /\ High(first, whole) => High(s, whole)

LEMMA StatesOK ==
  ASSUME NEW st, NEW ms, NEW n \in Nat, NEW whole \in Nat, Chain(st, ms, n, whole)
  PROVE  \A k \in 0..n : StateOK(st[k], st[0], whole)
<1> DEFINE OK(k) == StateOK(st[k], st[0], whole)
           B == {k \in 0..n : ~OK(k)}
<1>0. whole \div 10 \in Nat
  OBVIOUS
<1>1. OK(0)
  BY DEF Chain, StateOK
<1>2. ASSUME NEW k \in 1..n, OK(k - 1) PROVE OK(k)
  <2> DEFINE s == st[k - 1]
             t == st[k]
  <2>1. t = Migrated(s, ms[k], whole)
    BY DEF Chain
  <2> HIDE DEF s, t
  <2>2. DOMAIN t = DOMAIN s
    BY <2>1 DEF Migrated
  <2>3. ASSUME NEW id \in DOMAIN s PROVE t[id].q \in {whole \div 10, s[id].q}
    BY <2>1 DEF Migrated, AssetSnapshot
  <2>4. StateOK(s, st[0], whole)
    BY <1>2 DEF s
  <2>5. \A id \in DOMAIN t : t[id].q \in Int
    BY <1>0, <2>2, <2>3, <2>4 DEF StateOK
  <2>6. High(s, whole) => High(t, whole)
    BY <1>0, <2>2, <2>3 DEF High
  <2>7. StateOK(t, st[0], whole)
    BY <2>2, <2>4, <2>5, <2>6 DEF StateOK
  <2>8. QED
    BY <2>7 DEF t
<1>3. B = {}
  <2> SUFFICES ASSUME B # {} PROVE FALSE
    OBVIOUS
  <2>1. B \in SUBSET Nat
    OBVIOUS
  <2>2. PICK k \in B : \A j \in B : k <= j
    BY <2>1, LeastNumber
  <2> HIDE DEF OK
  <2>3. k \in 0..n /\ ~OK(k) /\ k # 0
    BY <1>1
  <2>4. k \in 1..n /\ k - 1 \in 0..n /\ ~(k <= k - 1)
    BY <2>3
  <2>5. OK(k - 1)
    BY <2>2, <2>4
  <2>6. QED
    BY <1>2, <2>3, <2>4, <2>5
<1>4. QED
  BY <1>3

(* A milestone adds neither blocked nor classical assets, and does not     *)
(* raise the mean of scores that are all above 0.10.                       *)
LEMMA MilestoneLowers ==
  ASSUME NEW s, NEW m, NEW whole \in Nat, whole >= 1, IsFiniteSet(DOMAIN s),
         \A id \in DOMAIN s : s[id].q \in Int
  PROVE  LET t == Migrated(s, m, whole)
         IN  /\ Blocked(t) <= Blocked(s)
             /\ Classical(t, whole) <= Classical(s, whole)
             /\ (\A id \in DOMAIN s : s[id].q >= whole \div 10)
                  => NoMoreThan(avg_q_state(t), avg_q_state(s))
<1> DEFINE D == DOMAIN s
           t == Migrated(s, m, whole)
<1>1. DOMAIN t = D /\ \A id \in D : t[id] = IF id \in Range(m.asset_ids)
                                             THEN AssetSnapshot(id, whole \div 10, FALSE, m.target_primitives)
                                             ELSE s[id]
  BY DEF Migrated
<1>2. \A id \in D : /\ t[id] = s[id] \/ (t[id].q = whole \div 10 /\ t[id].blocked = FALSE)
                    /\ t[id].q \in Int /\ s[id].q \in Int
  <2>1. whole \div 10 \in Nat
    OBVIOUS
  <2>2. QED
    BY <1>1, <2>1 DEF AssetSnapshot
<1>3. ~(10 * (whole \div 10) >= 3 * whole)
  OBVIOUS
<1> HIDE DEF t
<1>4. Blocked(t) <= Blocked(s)
  <2> DEFINE X == {id \in D : s[id].blocked}
             Y == {id \in D : t[id].blocked}
  <2>1. IsFiniteSet(X) /\ Y \in SUBSET X
    BY <1>2, FS_Subset
  <2>2. Blocked(s) = Cardinality(X) /\ Blocked(t) = Cardinality(Y)
    BY <1>1 DEF Blocked
  <2> HIDE DEF X, Y
  <2>3. QED
    BY <2>1, <2>2, FS_Subset
<1>5. Classical(t, whole) <= Classical(s, whole)
  <2> DEFINE X == {id \in D : 10 * s[id].q >= 3 * whole}
             Y == {id \in D : 10 * t[id].q >= 3 * whole}
  <2>1. IsFiniteSet(X) /\ Y \in SUBSET X
    BY <1>2, <1>3, FS_Subset
  <2>2. Classical(s, whole) = Cardinality(X) /\ Classical(t, whole) = Cardinality(Y)
    BY <1>1 DEF Classical
  <2> HIDE DEF X, Y
  <2>3. QED
    BY <2>1, <2>2, FS_Subset
<1>6. ASSUME \A id \in D : s[id].q >= whole \div 10
      PROVE  NoMoreThan(avg_q_state(t), avg_q_state(s))
  <2> DEFINE f == [id \in D |-> t[id].q]
             g == [id \in D |-> s[id].q]
             over == IF Cardinality(D) = 0 THEN 1 ELSE Cardinality(D)
             F == SumFunctionOnSet(f, D)
             G == SumFunctionOnSet(g, D)
  <2>1. /\ avg_q_state(t) = [sum |-> F, over |-> over]
        /\ avg_q_state(s) = [sum |-> G, over |-> over]
    BY <1>1 DEF avg_q_state, Mean, SumFunction
  <2>2. \A id \in D : f[id] \in Int /\ g[id] \in Int /\ f[id] <= 1 * g[id]
    BY <1>2, <1>6
  <2>3. over \in Nat
    BY FS_CardinalityType
  <2> HIDE DEF f, g, over
  <2>4. F \in Int /\ G \in Int
    <3>1. Integral(f, D) /\ Integral(g, D)
      BY <2>2 DEF Integral
    <3>2. QED
      BY <3>1, SumStep
  <2>5. F <= 1 * G
    BY <2>2, SumBound
  <2> HIDE DEF F, G
  <2>6. F * over <= G * over
    <3>1. F <= G
      BY <2>4, <2>5
    <3>2. over * F <= over * G
      BY <2>3, <2>4, <3>1, TimesKeeps
    <3>3. QED
      BY <2>3, <2>4, <3>2
  <2>7. QED
    BY <2>1, <2>6 DEF NoMoreThan
<1>7. QED
  BY <1>4, <1>5, <1>6 DEF t

(* When identities are unique, the working copy holds the same assets.     *)
LEMMA TodayIs ==
  ASSUME NEW items, NEW n \in Nat, items = [i \in 1..n |-> items[i]],
         \A i \in 1..n : items[i].q \in Int,
         \A i, j \in 1..n : items[i].identity = items[j].identity => i = j
  PROVE  /\ avg_q_state(WorkingCopy(items)) = avg_q(items)
         /\ Blocked(WorkingCopy(items)) = Cardinality({i \in DOMAIN items : items[i].blocked})
         /\ Cardinality(DOMAIN WorkingCopy(items)) = Len(items)
<1> DEFINE D == {items[i].identity : i \in 1..n}
           w == WorkingCopy(items)
           b == [i \in 1..n |-> items[i].identity]
<1>1. DOMAIN items = 1..n /\ Len(items) = n
  BY LengthIs
<1>2. DOMAIN w = D /\ IsFiniteSet(D)
  BY WorkingCopyIs
<1>3. \A i \in 1..n : w[items[i].identity] = items[i]
  <2>1. \A id \in D : \E i \in 1..n : w[id] = items[i] /\ items[i].identity = id
    BY WorkingCopyIs
  <2> HIDE DEF w
  <2>2. QED
    BY <2>1
<1>4. b \in Bijection(1..n, D)
  <2>1. \A i, j \in 1..n : items[i].identity = items[j].identity => i = j
    OBVIOUS
  <2>2. QED
    BY ONLY <2>1 DEF Bijection, Injection, Surjection, IsInjective
<1>5. IsFiniteSet(1..n) /\ Cardinality(1..n) = n
  <2>1. n \in Int /\ 1 \in Int /\ n \in Nat
    OBVIOUS
  <2>2. IsFiniteSet(1..n) /\ Cardinality(1..n) = IF 1 > n THEN 0 ELSE n - 1 + 1
    BY ONLY <2>1, FS_Interval
  <2>3. QED
    BY ONLY <2>1, <2>2
<1>6. Cardinality(D) = n
  BY <1>4, <1>5, FS_Bijection DEF ExistsBijection
<1> HIDE DEF w
<1>7. avg_q_state(w) = avg_q(items)
  <2> DEFINE f == [i \in 1..n |-> items[i].q]
             g == [id \in D |-> w[id].q]
  <2>0. Integral(f, 1..n)
    BY DEF Integral
  <2>1. \A i \in 1..n : g[b[i]] = f[i]
    BY <1>3
  <2>2. avg_q(items) = Mean(SumFunctionOnSet(f, 1..n), n)
    BY <1>1 DEF avg_q, SumFunction
  <2>3. avg_q_state(w) = Mean(SumFunctionOnSet(g, D), n)
    BY <1>2, <1>6 DEF avg_q_state, SumFunction
  <2> HIDE DEF f, g, b, D
  <2>4. SumFunctionOnSet(f, 1..n) = SumFunctionOnSet(g, D)
    <3> DEFINE I == 1..n
    <3>1. /\ IsFiniteSet(I) /\ b \in Bijection(I, D)
          /\ Integral(f, I)
          /\ \A i \in I : g[b[i]] = f[i]
      BY <1>4, <1>5, <2>0, <2>1
    <3> HIDE DEF I
    <3>2. SumFunctionOnSet(f, I) = SumFunctionOnSet(g, D)
      BY <3>1, SumPermuted
    <3>3. QED
      BY <3>2 DEF I
  <2>5. QED
    BY <2>2, <2>3, <2>4
<1>8. Blocked(w) = Cardinality({i \in DOMAIN items : items[i].blocked})
  <2> DEFINE X == {i \in 1..n : items[i].blocked}
             Y == {id \in D : w[id].blocked}
             h == [i \in X |-> items[i].identity]
  <2>1. h \in Bijection(X, Y)
    BY <1>3 DEF Bijection, Injection, Surjection, IsInjective
  <2>2. IsFiniteSet(X)
    BY <1>5, FS_Subset
  <2>3. Cardinality(Y) = Cardinality(X)
    <3> HIDE DEF X, Y, h
    <3>1. QED
      BY <2>1, <2>2, FS_Bijection DEF ExistsBijection
  <2>4. QED
    BY <1>1, <1>2, <2>3 DEF Blocked
<1>9. QED
  BY <1>1, <1>2, <1>6, <1>7, <1>8 DEF w

-----------------------------------------------------------------------------
(* An order of a finite set lists each member once.                        *)
LEMMA OrderIs ==
  ASSUME NEW rows, IsFiniteSet(rows), NEW s \in Orders(rows)
  PROVE  LET n == Cardinality(rows)
         IN  /\ n \in Nat
             /\ DOMAIN s = 1..n
             /\ s = [i \in 1..n |-> s[i]]
             /\ \A i \in 1..n : s[i] \in rows
             /\ \A r \in rows : \E i \in 1..n : s[i] = r
             /\ \A i, j \in 1..n : s[i] = s[j] => i = j
<1> DEFINE n == Cardinality(rows)
           I == 1..n
<1>1. n \in Nat
  BY FS_CardinalityType
<1>2. s \in [I -> rows] /\ Range(s) = rows
  BY DEF Orders
<1>3. IsFiniteSet(I) /\ Cardinality(I) = n
  BY <1>1, FS_Interval
<1>4. s \in Surjection(I, rows)
  BY <1>2 DEF Surjection, Range
<1> HIDE DEF I
<1>5. s \in Injection(I, rows)
  BY <1>3, <1>4, FS_SurjSameCardinalityImpliesInj
<1>6. \A i, j \in I : s[i] = s[j] => i = j
  BY <1>5 DEF Injection, IsInjective
<1>7. QED
  BY <1>1, <1>2, <1>4, <1>6 DEF Surjection, I

Snapshot(ev) == AssetSnapshot(ev.identity, q_for_event(ev, now), is_blocked(ev.agility), Names(ev))

Snapshots(order) == [i \in DOMAIN order |-> Snapshot(order[i])]

UniqueIdentities == \A e, f \in latest : e.identity = f.identity => e = f

LEMMA SnapshotsOK ==
  ASSUME AdvInv, NEW order \in Orders(latest)
  PROVE  LET items == Snapshots(order)
             n == Cardinality(latest)
         IN  /\ n \in Nat
             /\ items = [i \in 1..n |-> items[i]]
             /\ \A i \in 1..n : items[i].q \in Int
             /\ \A i \in 1..n : \E e \in latest : items[i].q = q_for_event(e, now)
             /\ UniqueIdentities =>
                  \A i, j \in 1..n : items[i].identity = items[j].identity => i = j
<1> DEFINE n == Cardinality(latest)
           items == Snapshots(order)
<1>1. IsFiniteSet(latest) /\ now \in Int
  BY DEF AdvInv, InventoryOK
<1>2. /\ n \in Nat /\ DOMAIN order = 1..n
      /\ \A i \in 1..n : order[i] \in latest
      /\ \A i, j \in 1..n : order[i] = order[j] => i = j
  BY <1>1, OrderIs
<1>3. items = [i \in 1..n |-> Snapshot(order[i])]
  BY <1>2 DEF Snapshots
<1>4. \A i \in 1..n : items[i].q = q_for_event(order[i], now) /\ items[i].identity = order[i].identity
  BY <1>3 DEF Snapshot, AssetSnapshot
<1>5. \A e \in latest : q_for_event(e, now) \in Int
  BY <1>1, ScoreRange DEF AdvInv, InventoryOK
<1>6. items = [i \in 1..n |-> items[i]]
  BY <1>3
<1> HIDE DEF items
<1>7. UniqueIdentities => \A i, j \in 1..n : items[i].identity = items[j].identity => i = j
  BY <1>2, <1>4 DEF UniqueIdentities
<1>8. QED
  BY <1>2, <1>4, <1>5, <1>6, <1>7 DEF items

LEMMA PlanIs ==
  ASSUME NEW plan \in Plans
  PROVE  LET n == Len(plan)
         IN  /\ n \in Nat
             /\ Sorted(plan) = [k \in 1..n |-> Sorted(plan)[k]]
             /\ \A k \in 1..n : Sorted(plan)[k].date \in Int
             /\ \A k \in 1..n - 1 : Sorted(plan)[k].date <= Sorted(plan)[k + 1].date
<1> DEFINE n == Len(plan)
<1>1. n \in Nat /\ DOMAIN plan = 1..n /\ \A i \in 1..n : plan[i].date \in Int
  BY PlansAssumption
<1> HIDE DEF n
<1>2. /\ Sorted(plan) = [k \in 1..n |-> Sorted(plan)[k]]
      /\ \A k \in 1..n : Sorted(plan)[k] \in {plan[i] : i \in 1..n}
      /\ \A k \in 1..n - 1 : Sorted(plan)[k].date <= Sorted(plan)[k + 1].date
  BY <1>1, SortedByDate
<1>3. QED
  BY <1>1, <1>2 DEF n

(* A trajectory hangs together, for any inventory and any plans            *)
(* (project_roadmap).                                                      *)
THEOREM Roadmaps == Spec => []RoadmapIsCoherent
<1>1. ASSUME AdvInv, NEW plan \in Plans, NEW order \in Orders(latest)
      PROVE  LET r == agility_roadmap(order, plan)
                 rows == r.projections
             IN  /\ (rows # <<>> /\ UniqueIdentities) =>
                      /\ SameMean(rows[1].org_q_before, r.today_org_q)
                      /\ rows[1].blocked_before = r.today_blocked
                 /\ \A n \in 1..Len(rows) - 1 :
                      /\ SameMean(rows[n + 1].org_q_before, rows[n].org_q_after)
                      /\ rows[n + 1].blocked_before = rows[n].blocked_after
                      /\ rows[n + 1].date >= rows[n].date
                      /\ rows[n + 1].assets_remaining_classical <= rows[n].assets_remaining_classical
                 /\ \A n \in DOMAIN rows :
                      /\ rows[n].blocked_after <= rows[n].blocked_before
                      /\ NoMoreThan(rows[n].org_q_after, rows[n].org_q_before)
                           \/ \E e \in latest : 10 * q_for_event(e, now) < Whole(now)
  <2> DEFINE r == agility_roadmap(order, plan)
             rows == r.projections
             items == Snapshots(order)
             ms == Sorted(plan)
             L == Len(plan)
             N == Cardinality(latest)
             whole == Whole(now)
             D == {items[i].identity : i \in 1..N}
  <2>1. /\ L \in Nat /\ ms = [k \in 1..L |-> ms[k]]
        /\ \A k \in 1..L : ms[k].date \in Int
        /\ \A k \in 1..L - 1 : ms[k].date <= ms[k + 1].date
    BY PlanIs
  <2>2. /\ N \in Nat /\ items = [i \in 1..N |-> items[i]]
        /\ \A i \in 1..N : items[i].q \in Int
        /\ \A i \in 1..N : \E e \in latest : items[i].q = q_for_event(e, now)
        /\ UniqueIdentities => \A i, j \in 1..N : items[i].identity = items[j].identity => i = j
    BY <1>1, SnapshotsOK
  <2>3. whole \in Nat /\ whole >= 1
    <3>1. now \in Int
      BY <1>1 DEF AdvInv
    <3>2. Span \in Nat /\ Span >= 1 /\ Gamma(now) \in Nat /\ Total(now) = 7 * Span + Gamma(now)
      BY <3>1, Weights
    <3>3. QED
      BY <3>2 DEF Whole, Unit
  <2>4. /\ rows = Trajectory(items, plan, whole)
        /\ r.today_org_q = avg_q(items)
        /\ r.today_blocked = Cardinality({i \in DOMAIN items : items[i].blocked})
    BY DEF agility_roadmap, project_roadmap, Snapshots, Snapshot
  <2> HIDE DEF r, rows, items, ms, L, N, whole
  <2>5. PICK st : /\ st[0] = WorkingCopy(items)
                  /\ \A k \in 1..L : st[k] = Migrated(st[k - 1], ms[k], whole)
                  /\ Trajectory(items, plan, whole)
                       = [k \in 1..L |-> Projection(ms[k], st[k - 1], st[k], whole)]
    BY <2>1, TrajectoryIs DEF ms
  <2>6. /\ DOMAIN st[0] = D /\ IsFiniteSet(D)
        /\ \A id \in D : \E i \in 1..N : st[0][id] = items[i] /\ items[i].identity = id
    <3>1. N \in Nat /\ items = [i \in 1..N |-> items[i]]
      BY <2>2
    <3>2. /\ DOMAIN WorkingCopy(items) = D /\ IsFiniteSet(D)
          /\ \A id \in D : \E i \in 1..N : WorkingCopy(items)[id] = items[i] /\ items[i].identity = id
      BY <3>1, WorkingCopyIs
    <3> HIDE DEF D
    <3>3. QED
      BY <2>5, <3>2
  <2> HIDE DEF D
  <2>7. \A id \in D : st[0][id].q \in Int /\ \E e \in latest : st[0][id].q = q_for_event(e, now)
    BY <2>2, <2>6
  <2>8. \A k \in 0..L :
          /\ DOMAIN st[k] = D
          /\ \A id \in D : st[k][id].q \in Int
          /\ (\A id \in D : st[0][id].q >= whole \div 10) => \A id \in D : st[k][id].q >= whole \div 10
    <3>1. L \in Nat /\ whole \in Nat
      BY <2>1, <2>3
    <3>2. Chain(st, ms, L, whole)
      BY <2>5, <2>6, <2>7 DEF Chain
    <3>3. \A k \in 0..L : StateOK(st[k], st[0], whole)
      BY <3>1, <3>2, StatesOK
    <3>4. QED
      BY <2>6, <3>3 DEF StateOK, High
  <2>9. rows = [k \in 1..L |-> Projection(ms[k], st[k - 1], st[k], whole)]
    BY <2>4, <2>5
  <2>10. DOMAIN rows = 1..L /\ Len(rows) = L /\ (L = 0 => rows = <<>>)
    <3>1. rows = [k \in 1..L |-> rows[k]]
      BY <2>9
    <3>2. QED
      BY <2>1, <3>1, LengthIs
  <2>11. \A k \in 1..L : /\ rows[k].org_q_before = avg_q_state(st[k - 1])
                         /\ rows[k].org_q_after = avg_q_state(st[k])
                         /\ rows[k].blocked_before = Blocked(st[k - 1])
                         /\ rows[k].blocked_after = Blocked(st[k])
                         /\ rows[k].date = ms[k].date
                         /\ rows[k].assets_remaining_classical = Classical(st[k], whole)
    BY <2>9 DEF Projection
  <2>12. ASSUME NEW k \in 1..L
         PROVE  /\ Blocked(st[k]) <= Blocked(st[k - 1])
                /\ Classical(st[k], whole) <= Classical(st[k - 1], whole)
                /\ (\A id \in D : st[k - 1][id].q >= whole \div 10)
                     => NoMoreThan(avg_q_state(st[k]), avg_q_state(st[k - 1]))
    <3>1. k - 1 \in 0..L /\ st[k] = Migrated(st[k - 1], ms[k], whole)
      BY <2>1, <2>5
    <3>2. DOMAIN st[k - 1] = D /\ \A id \in D : st[k - 1][id].q \in Int
      BY <2>8, <3>1
    <3> DEFINE s == st[k - 1]
    <3>3. IsFiniteSet(DOMAIN s) /\ \A id \in DOMAIN s : s[id].q \in Int
      BY <2>6, <3>2
    <3> HIDE DEF s
    <3>4. /\ Blocked(Migrated(s, ms[k], whole)) <= Blocked(s)
          /\ Classical(Migrated(s, ms[k], whole), whole) <= Classical(s, whole)
          /\ (\A id \in DOMAIN s : s[id].q >= whole \div 10)
               => NoMoreThan(avg_q_state(Migrated(s, ms[k], whole)), avg_q_state(s))
      BY <2>3, <3>3, MilestoneLowers
    <3>5. QED
      BY <3>1, <3>2, <3>4 DEF s
  <2>13. (rows # <<>> /\ UniqueIdentities) =>
            /\ SameMean(rows[1].org_q_before, r.today_org_q)
            /\ rows[1].blocked_before = r.today_blocked
    <3> SUFFICES ASSUME rows # <<>>, UniqueIdentities
                 PROVE  /\ SameMean(rows[1].org_q_before, r.today_org_q)
                        /\ rows[1].blocked_before = r.today_blocked
      OBVIOUS
    <3>1. 1 \in 1..L /\ 1 - 1 = 0
      BY <2>1, <2>10
    <3>2. /\ avg_q_state(WorkingCopy(items)) = avg_q(items)
          /\ Blocked(WorkingCopy(items)) = Cardinality({i \in DOMAIN items : items[i].blocked})
      BY <2>2, TodayIs
    <3>3. rows[1].org_q_before = r.today_org_q /\ rows[1].blocked_before = r.today_blocked
      BY <2>4, <2>5, <2>11, <3>1, <3>2
    <3>4. QED
      BY <3>3 DEF SameMean
  <2>14. ASSUME NEW n \in 1..Len(rows) - 1
         PROVE  /\ SameMean(rows[n + 1].org_q_before, rows[n].org_q_after)
                /\ rows[n + 1].blocked_before = rows[n].blocked_after
                /\ rows[n + 1].date >= rows[n].date
                /\ rows[n + 1].assets_remaining_classical <= rows[n].assets_remaining_classical
    <3>1. n \in 1..L /\ n + 1 \in 1..L /\ n \in 1..L - 1 /\ (n + 1) - 1 = n
      BY <2>1, <2>10
    <3>2. rows[n + 1].org_q_before = rows[n].org_q_after /\ rows[n + 1].blocked_before = rows[n].blocked_after
      BY <2>11, <3>1
    <3>3. rows[n + 1].date >= rows[n].date
      <4>1. ms[n].date <= ms[n + 1].date /\ ms[n].date \in Int /\ ms[n + 1].date \in Int
        BY <2>1, <3>1
      <4>2. rows[n + 1].date = ms[n + 1].date /\ rows[n].date = ms[n].date
        BY <2>11, <3>1
      <4>3. QED
        BY <4>1, <4>2
    <3>4. Classical(st[n + 1], whole) <= Classical(st[n], whole)
      BY <2>12, <3>1
    <3>5. rows[n + 1].assets_remaining_classical <= rows[n].assets_remaining_classical
      BY <2>11, <3>1, <3>4
    <3>6. QED
      BY <3>2, <3>3, <3>5 DEF SameMean
  <2>15. ASSUME NEW n \in DOMAIN rows
         PROVE  /\ rows[n].blocked_after <= rows[n].blocked_before
                /\ NoMoreThan(rows[n].org_q_after, rows[n].org_q_before)
                     \/ \E e \in latest : 10 * q_for_event(e, now) < whole
    <3>1. n \in 1..L /\ n - 1 \in 0..L
      BY <2>1, <2>10
    <3>2. rows[n].blocked_after <= rows[n].blocked_before
      BY <2>11, <2>12, <3>1
    <3>3. ASSUME ~ \E e \in latest : 10 * q_for_event(e, now) < whole
          PROVE  NoMoreThan(rows[n].org_q_after, rows[n].org_q_before)
      <4>1. ASSUME NEW id \in D PROVE st[0][id].q >= whole \div 10
        <5>1. PICK e \in latest : st[0][id].q = q_for_event(e, now)
          BY <2>7
        <5>2. ~(10 * st[0][id].q < whole) /\ st[0][id].q \in Int
          BY <2>7, <3>3, <5>1
        <5>3. QED
          BY <2>3, <5>2
      <4>2. \A id \in D : st[n - 1][id].q >= whole \div 10
        BY <2>8, <3>1, <4>1
      <4>3. QED
        BY <2>11, <2>12, <3>1, <4>2
    <3>4. QED
      BY <3>2, <3>3
  <2>16. QED
    BY <2>13, <2>14, <2>15 DEF r, rows, whole
<1>2. AdvInv => RoadmapIsCoherent
  BY <1>1 DEF RoadmapIsCoherent, UniqueIdentities
<1>3. QED
  BY <1>2, AdvInvariant, PTL

-----------------------------------------------------------------------------
(* The rules that a primitive calls for.                                   *)
Rules(p) ==
  CASE p.role = "sig"     -> recommend_for_sig(p)
    [] p.role = "encrypt" -> recommend_for_encrypt(p)
    [] OTHER              -> <<>>

(* The replacements depend on the rules only.                              *)
LEMMA SameRules ==
  ASSUME NEW ps, NEW qs, DOMAIN ps = DOMAIN qs, \A i \in DOMAIN ps : Rules(ps[i]) = Rules(qs[i])
  PROVE  recommend_for(ps) = recommend_for(qs)
<1> DEFINE ByCost(out) ==
             LET OfCost(c) == FlattenSeq([i \in DOMAIN out |-> IF out[i].cost = c THEN <<out[i]>> ELSE <<>>])
             IN  FlattenSeq([c \in DOMAIN Cost |-> OfCost(Cost[c])])
           Out(s) == [i \in DOMAIN s |-> Rules(s[i])]
<1>1. recommend_for(ps) = ByCost(FlattenSeq(Out(ps)))
  BY DEF recommend_for, Rules
<1>2. recommend_for(qs) = ByCost(FlattenSeq(Out(qs)))
  BY DEF recommend_for, Rules
<1>3. Out(ps) = Out(qs)
  OBVIOUS
<1> HIDE DEF Out, ByCost
<1>4. QED
  BY <1>1, <1>2, <1>3

CipherNames == {"AES-128", "AES-128-GCM", "DES", "3DES", "RC4", "AES-CBC"}

(* The command guesses the role of every name that a rule matches.         *)
LEMMA RoleIsGuessed ==
  ASSUME NEW p
  PROVE  /\ recommend_for_sig(p) # <<>> => classify_role(p.algorithm) = "sig"
         /\ recommend_for_encrypt(p) # <<>> => classify_role(p.algorithm) = "encrypt"
<1>1. DOMAIN TrailingBits = {"RSA-PKCS1-2048", "RSA-PKCS1-3072", "RSA-PKCS1-4096"}
  BY DEF TrailingBits
<1>2. FullNames \intersect (EncryptNames \union HashNames \union KexNames) = {}
  BY <1>1 DEF FullNames, RsaNames, EcdsaNames, EncryptNames, HashNames, KexNames
<1>3. recommend_for_sig(p) # <<>> => p.algorithm \in FullNames
  BY DEF recommend_for_sig, FullNames
<1>4. recommend_for_encrypt(p) # <<>> => p.algorithm \in CipherNames
  BY DEF recommend_for_encrypt, CipherNames
<1>5. CipherNames \subseteq EncryptNames
  BY DEF CipherNames, EncryptNames
<1>6. CipherNames \intersect (HashNames \union KexNames) = {}
  BY DEF CipherNames, HashNames, KexNames
<1>7. ASSUME p.algorithm \in FullNames PROVE classify_role(p.algorithm) = "sig"
  <2>1. p.algorithm \notin EncryptNames /\ p.algorithm \notin HashNames /\ p.algorithm \notin KexNames
    BY <1>2, <1>7
  <2>2. QED
    BY <2>1 DEF classify_role
<1>8. ASSUME p.algorithm \in CipherNames PROVE classify_role(p.algorithm) = "encrypt"
  <2>1. p.algorithm \in EncryptNames /\ p.algorithm \notin HashNames /\ p.algorithm \notin KexNames
    BY <1>5, <1>6, <1>8
  <2>2. QED
    BY <2>1 DEF classify_role
<1>9. QED
  BY <1>3, <1>4, <1>7, <1>8

LEMMA RulesAre ==
  ASSUME NEW p
  PROVE  /\ p.role = "sig" => Rules(p) = recommend_for_sig(p)
         /\ p.role = "encrypt" => Rules(p) = recommend_for_encrypt(p)
         /\ p.role \notin {"sig", "encrypt"} => Rules(p) = <<>>
<1>1. ASSUME p.role = "sig" PROVE Rules(p) = recommend_for_sig(p)
  <2>1. p.role = "sig" /\ ~(p.role = "encrypt")
    BY <1>1
  <2>2. QED
    BY <2>1 DEF Rules
<1>2. ASSUME p.role = "encrypt" PROVE Rules(p) = recommend_for_encrypt(p)
  <2>1. ~(p.role = "sig") /\ p.role = "encrypt"
    BY <1>2
  <2>2. QED
    BY <2>1 DEF Rules
<1>3. ASSUME p.role \notin {"sig", "encrypt"} PROVE Rules(p) = <<>>
  <2>1. ~(p.role = "sig") /\ ~(p.role = "encrypt")
    BY <1>3
  <2>2. QED
    BY <2>1 DEF Rules
<1>4. QED
  BY <1>1, <1>2, <1>3

Guessed(name) == Primitive(classify_role(name), name, "unknown")

LEMMA GuessedRules ==
  ASSUME NEW p, Vocabulary(p)
  PROVE  Rules(Guessed(p.algorithm)) = Rules(p)
<1> DEFINE g == Guessed(p.algorithm)
<1>1. g.algorithm = p.algorithm /\ g.role = classify_role(p.algorithm)
  BY DEF Guessed, Primitive
<1> HIDE DEF g
<1>2. recommend_for_sig(g) = recommend_for_sig(p)
  BY <1>1 DEF recommend_for_sig, Recommendation
<1>3. recommend_for_encrypt(g) = recommend_for_encrypt(p)
  BY <1>1 DEF recommend_for_encrypt, Recommendation
<1>4. /\ recommend_for_sig(p) # <<>> => p.role = "sig" /\ g.role = "sig"
      /\ recommend_for_encrypt(p) # <<>> => p.role = "encrypt" /\ g.role = "encrypt"
  BY <1>1, RoleIsGuessed DEF Vocabulary
<1>5. /\ p.role = "sig" => Rules(p) = recommend_for_sig(p)
      /\ p.role = "encrypt" => Rules(p) = recommend_for_encrypt(p)
      /\ p.role \notin {"sig", "encrypt"} => Rules(p) = <<>>
  BY RulesAre
<1>6. /\ g.role = "sig" => Rules(g) = recommend_for_sig(g)
      /\ g.role = "encrypt" => Rules(g) = recommend_for_encrypt(g)
      /\ g.role \notin {"sig", "encrypt"} => Rules(g) = <<>>
  BY RulesAre
<1>7. Rules(g) = Rules(p)
  <2>1. CASE recommend_for_sig(p) # <<>>
    BY <1>2, <1>4, <1>5, <1>6, <2>1
  <2>2. CASE recommend_for_encrypt(p) # <<>>
    BY <1>3, <1>4, <1>5, <1>6, <2>2
  <2>3. CASE recommend_for_sig(p) = <<>> /\ recommend_for_encrypt(p) = <<>>
    BY <1>2, <1>3, <1>5, <1>6, <2>3
  <2>4. QED
    BY <2>1, <2>2, <2>3
<1>8. QED
  BY <1>7 DEF g

(* A list of n assets, each once; two lists of the same assets have the    *)
(* same roadmap.                                                           *)
Listing(xs, n) ==
  /\ xs = [i \in 1..n |-> xs[i]]
  /\ \A i \in 1..n : xs[i].q \in Int
  /\ \A i, j \in 1..n : xs[i].identity = xs[j].identity => i = j

Within(xs, n, ys, m) == \A i \in 1..n : \E j \in 1..m : xs[i] = ys[j]

LEMMA SameRoadmap ==
  ASSUME NEW xs, NEW n \in Nat, Listing(xs, n), NEW ys, NEW m \in Nat, Listing(ys, m),
         Within(xs, n, ys, m), Within(ys, m, xs, n), NEW plan, NEW whole
  PROVE  project_roadmap(xs, plan, whole) = project_roadmap(ys, plan, whole)
<1> DEFINE v == WorkingCopy(xs)
           w == WorkingCopy(ys)
           D == {xs[i].identity : i \in 1..n}
           E == {ys[j].identity : j \in 1..m}
<1>0. /\ xs = [i \in 1..n |-> xs[i]] /\ ys = [i \in 1..m |-> ys[i]]
      /\ \A i \in 1..n : \E j \in 1..m : xs[i] = ys[j]
      /\ \A j \in 1..m : \E i \in 1..n : xs[i] = ys[j]
      /\ \A i, j \in 1..m : ys[i].identity = ys[j].identity => i = j
  BY DEF Listing, Within
<1>1. DOMAIN v = D /\ \A id \in D : \E i \in 1..n : v[id] = xs[i] /\ xs[i].identity = id
  <2>1. xs = [i \in 1..n |-> xs[i]]
    BY <1>0
  <2>2. QED
    BY <2>1, WorkingCopyIs
<1>2. DOMAIN w = E /\ \A id \in E : \E j \in 1..m : w[id] = ys[j] /\ ys[j].identity = id
  <2>1. ys = [j \in 1..m |-> ys[j]]
    BY <1>0
  <2>2. QED
    BY <2>1, WorkingCopyIs
<1>3. v = [id \in DOMAIN v |-> v[id]] /\ w = [id \in DOMAIN w |-> w[id]]
  BY DEF WorkingCopy
<1> HIDE DEF v, w
<1>4. D = E
  BY <1>0
<1>5. ASSUME NEW id \in D PROVE v[id] = w[id]
  <2>1. PICK i \in 1..n : v[id] = xs[i] /\ xs[i].identity = id
    BY <1>1
  <2>2. id \in E
    BY <1>4
  <2>3. PICK j \in 1..m : w[id] = ys[j] /\ ys[j].identity = id
    BY <1>2, <2>2
  <2>4. PICK k \in 1..m : xs[i] = ys[k]
    BY <1>0
  <2>5. k = j
    BY <1>0, <2>1, <2>3, <2>4
  <2>6. QED
    BY <2>1, <2>3, <2>4, <2>5
<1>6. v = w
  <2> HIDE DEF D, E
  <2>1. QED
    BY <1>1, <1>2, <1>3, <1>4, <1>5
<1>7. /\ avg_q(xs) = avg_q_state(v)
      /\ Cardinality({i \in DOMAIN xs : xs[i].blocked}) = Blocked(v)
      /\ Len(xs) = Cardinality(DOMAIN v)
  BY TodayIs DEF v, Listing
<1>8. /\ avg_q(ys) = avg_q_state(w)
      /\ Cardinality({i \in DOMAIN ys : ys[i].blocked}) = Blocked(w)
      /\ Len(ys) = Cardinality(DOMAIN w)
  BY TodayIs DEF w, Listing
<1>9. Trajectory(xs, plan, whole) = Trajectory(ys, plan, whole)
  <2> DEFINE T(first) ==
               LET sorted == Sorted(plan)
                   state[k \in 0..Len(sorted)] ==
                     IF k = 0 THEN first ELSE Migrated(state[k - 1], sorted[k], whole)
               IN  [k \in DOMAIN sorted |-> Projection(sorted[k], state[k - 1], state[k], whole)]
  <2>1. Trajectory(xs, plan, whole) = T(v) /\ Trajectory(ys, plan, whole) = T(w)
    BY DEF Trajectory, v, w
  <2> HIDE DEF T
  <2>2. QED
    BY <1>6, <2>1
<1>10. QED
  BY <1>6, <1>7, <1>8, <1>9 DEF project_roadmap

(* The table knows no stack called "none" and holds no verdict that it     *)
(* does not know.                                                          *)
Stacks == {"openssl-3.x", "boringssl", "rustls-post-quantum", "go-crypto-tls", "bouncycastle", "nss"}

LEMMA MatrixIs ==
  \A e \in build_matrix : e.stack \in Stacks /\ e.status # "unknown"
  BY DEF build_matrix, Entry, Stacks

LEMMA CompatAgrees ==
  ASSUME NEW s \in {e.stack : e \in build_matrix}, NEW a
  PROVE  /\ (agility_compat(s, a).status = 404) = (\E e \in run_compat(s, a) : e.status = "unknown")
         /\ agility_compat(s, a).items \subseteq agility_compat("none", "none").items
<1>1. s \in Stacks /\ s # "none"
  BY MatrixIs DEF Stacks
<1> DEFINE all == UNION {list_stack(x) : x \in Stacks}
<1>2. agility_compat("none", "none").items = all
  BY DEF agility_compat, Stacks
<1>3. list_stack(s) \subseteq all /\ lookup(s, a) \subseteq list_stack(s)
  BY <1>1 DEF lookup, list_stack
<1>4. \A e \in list_stack(s) : e.status # "unknown"
  BY MatrixIs DEF list_stack
<1> HIDE DEF all
<1>5. CASE a = "none"
  <2>1. agility_compat(s, a) = [status |-> 200, items |-> list_stack(s)]
    <3>1. ~(s = "none") /\ (s # "none" /\ a = "none")
      BY <1>1, <1>5
    <3>2. QED
      BY <3>1 DEF agility_compat
  <2>2. run_compat(s, a) = list_stack(s)
    <3>1. a = "none" /\ ~(a # "none" /\ lookup(s, a) # {})
      BY <1>5
    <3>2. QED
      BY <3>1 DEF run_compat
  <2>3. ~(agility_compat(s, a).status = 404) /\ ~(\E e \in run_compat(s, a) : e.status = "unknown")
    BY <1>4, <2>1, <2>2
  <2>4. agility_compat(s, a).items \subseteq agility_compat("none", "none").items
    BY <1>2, <1>3, <2>1
  <2>5. QED
    BY <2>3, <2>4, Zenon
<1>6. CASE a # "none"
  <2>1. agility_compat(s, a) = [status |-> IF lookup(s, a) = {} THEN 404 ELSE 200, items |-> lookup(s, a)]
    <3>1. ~(s = "none") /\ ~(s # "none" /\ a = "none")
      BY <1>1, <1>6
    <3>2. QED
      BY <3>1 DEF agility_compat
  <2>2. CASE lookup(s, a) = {}
    <3>1. ~(a = "none") /\ ~(a # "none" /\ lookup(s, a) # {})
      BY <1>6, <2>2
    <3>2. run_compat(s, a) = {Entry(s, a, stack_supports(s, a))}
      BY <3>1 DEF run_compat
    <3>3. Entry(s, a, stack_supports(s, a)).status = "unknown"
      BY <2>2 DEF stack_supports, Entry
    <3>4. agility_compat(s, a).status = 404 /\ \E e \in run_compat(s, a) : e.status = "unknown"
      BY <2>1, <2>2, <3>2, <3>3
    <3>5. agility_compat(s, a).items \subseteq agility_compat("none", "none").items
      BY <2>1, <2>2
    <3>6. QED
      BY <3>4, <3>5, Zenon
  <2>3. CASE lookup(s, a) # {}
    <3>1. ~(a = "none") /\ (a # "none" /\ lookup(s, a) # {})
      BY <1>6, <2>3
    <3>2. run_compat(s, a) = lookup(s, a)
      BY <3>1 DEF run_compat
    <3>3. ~(agility_compat(s, a).status = 404) /\ ~(\E e \in run_compat(s, a) : e.status = "unknown")
      BY <1>3, <1>4, <2>1, <2>3, <3>2
    <3>4. agility_compat(s, a).items \subseteq agility_compat("none", "none").items
      BY <1>2, <1>3, <2>1
    <3>5. QED
      BY <3>3, <3>4, Zenon
  <2>4. QED
    BY <2>2, <2>3
<1>7. QED
  BY <1>5, <1>6

Rows == {InventoryItem(ev) : ev \in latest}

(* What the command prints of an entry of the reply.                       *)
Line(r) ==
  [asset_kind |-> r.asset_kind, identity |-> r.identity, recommendations |-> r.recommendations]

LEMMA SameReplacements ==
  ASSUME AdvInv, NEW items, Range(items) = Rows
  PROVE  run_recommend(items, "none") = {Line(r) : r \in recommendations}
<1> DEFINE Prims(item) == [i \in DOMAIN item.primitives |-> Guessed(item.primitives[i])]
           Reply(item) == [asset_kind |-> item.asset_kind, identity |-> item.identity,
                           recommendations |-> recommend_for(Prims(item))]
<1>1. run_recommend(items, "none") = {Reply(item) : item \in {it \in Rows : recommend_for(Prims(it)) # <<>>}}
  <2>1. {item \in Range(items) : "none" \in {"none", item.asset_kind}} = Rows
    OBVIOUS
  <2>2. run_recommend(items, "none")
          = {Reply(item) : item \in {it \in {item \in Range(items) : "none" \in {"none", item.asset_kind}} :
                                       recommend_for(Prims(it)) # <<>>}}
    BY DEF run_recommend, Guessed
  <2> HIDE DEF Reply, Prims
  <2>3. QED
    BY <2>1, <2>2
<1>2. ASSUME NEW ev \in latest
      PROVE  /\ recommend_for(Prims(InventoryItem(ev))) = recommend_for(ev.primitives)
             /\ Reply(InventoryItem(ev)) = Line(RecommendationItem(ev))
  <2> DEFINE ps == Prims(InventoryItem(ev))
             qs == ev.primitives
  <2>1. InventoryItem(ev).primitives = [i \in DOMAIN qs |-> qs[i].algorithm]
    BY DEF InventoryItem, Names
  <2>2. DOMAIN ps = DOMAIN qs /\ \A i \in DOMAIN ps : ps[i] = Guessed(qs[i].algorithm)
    BY <2>1
  <2>3. \A i \in DOMAIN qs : Vocabulary(qs[i])
    BY DEF AdvInv, InventoryOK
  <2> HIDE DEF ps, qs
  <2>4. \A i \in DOMAIN ps : Rules(ps[i]) = Rules(qs[i])
    BY <2>2, <2>3, GuessedRules
  <2>5. recommend_for(ps) = recommend_for(qs)
    BY <2>2, <2>4, SameRules
  <2>6. QED
    BY <2>5 DEF ps, qs, InventoryItem, RecommendationItem, Line
<1>3. recommendations = {RecommendationItem(ev) : ev \in {e \in latest : recommend_for(e.primitives) # <<>>}}
  BY DEF recommendations
<1> HIDE DEF Reply, Prims
<1>4. QED
  BY <1>1, <1>2, <1>3 DEF Rows

LEMMA CliRoadmap ==
  ASSUME AdvInv, UniqueIdentities, NEW items \in Orders(Rows), NEW order \in Orders(latest), NEW plan
  PROVE  run_roadmap(items, plan) = agility_roadmap(order, plan)
<1> DEFINE n == Cardinality(Rows)
           m == Cardinality(latest)
           xs == [i \in DOMAIN items |-> AssetSnapshot(items[i].identity, items[i].q, items[i].blocked,
                                                       items[i].primitives)]
           ys == Snapshots(order)
<1>1. IsFiniteSet(latest) /\ now \in Int /\ latest \subseteq CryptoInventoryEvent
  BY DEF AdvInv, InventoryOK
<1>2. IsFiniteSet(Rows)
  <2> DEFINE f == [ev \in latest |-> InventoryItem(ev)]
  <2>1. DOMAIN f = latest /\ f = [ev \in latest |-> f[ev]] /\ {f[ev] : ev \in latest} = Rows
    BY DEF Rows
  <2> HIDE DEF f
  <2>2. IsFiniteSet({f[ev] : ev \in latest})
    BY <1>1, <2>1, FiniteRange
  <2>3. QED
    BY <2>1, <2>2
<1>3. /\ n \in Nat /\ DOMAIN items = 1..n
      /\ \A i \in 1..n : items[i] \in Rows
      /\ \A r \in Rows : \E i \in 1..n : items[i] = r
      /\ \A i, j \in 1..n : items[i] = items[j] => i = j
  BY <1>2, OrderIs
<1>4. /\ m \in Nat /\ DOMAIN order = 1..m
      /\ \A i \in 1..m : order[i] \in latest
      /\ \A r \in latest : \E i \in 1..m : order[i] = r
  BY <1>1, OrderIs
<1>5. /\ ys = [i \in 1..m |-> ys[i]]
      /\ \A i \in 1..m : ys[i].q \in Int
      /\ \A i, j \in 1..m : ys[i].identity = ys[j].identity => i = j
  BY SnapshotsOK
<1>6. \A i \in 1..m : ys[i] = Snapshot(order[i])
  BY <1>4 DEF Snapshots
<1>7. /\ xs = [i \in 1..n |-> xs[i]]
      /\ \A i \in 1..n : xs[i] = AssetSnapshot(items[i].identity, items[i].q, items[i].blocked,
                                               items[i].primitives)
  BY <1>3
<1>8. /\ run_roadmap(items, plan) = project_roadmap(xs, plan, Whole(now))
      /\ agility_roadmap(order, plan) = project_roadmap(ys, plan, Whole(now))
  BY DEF run_roadmap, agility_roadmap, Snapshots, Snapshot
<1> HIDE DEF xs, ys, n, m
<1>9. \A i \in 1..n : \E ev \in latest : items[i] = InventoryItem(ev) /\ xs[i] = Snapshot(ev)
  BY <1>3, <1>7 DEF Rows, InventoryItem, Snapshot
<1>10. \A ev \in latest : \E i \in 1..n : items[i] = InventoryItem(ev) /\ xs[i] = Snapshot(ev)
  BY <1>3, <1>7 DEF Rows, InventoryItem, Snapshot
<1>11. \A ev \in latest : Snapshot(ev).identity = ev.identity /\ Snapshot(ev).q \in Int
  BY <1>1, ScoreRange DEF Snapshot, AssetSnapshot
<1>12. \A i \in 1..n : xs[i].q \in Int
  BY <1>9, <1>11
<1>13. ASSUME NEW i \in 1..n, NEW j \in 1..n, xs[i].identity = xs[j].identity PROVE i = j
  <2>1. PICK e \in latest : items[i] = InventoryItem(e) /\ xs[i] = Snapshot(e)
    BY <1>9
  <2>2. PICK f \in latest : items[j] = InventoryItem(f) /\ xs[j] = Snapshot(f)
    BY <1>9
  <2>3. e = f
    BY <1>11, <1>13, <2>1, <2>2 DEF UniqueIdentities
  <2>4. QED
    BY <1>3, <2>1, <2>2, <2>3
<1>14. \A i \in 1..n : \E j \in 1..m : xs[i] = ys[j]
  BY <1>4, <1>6, <1>9
<1>15. \A j \in 1..m : \E i \in 1..n : xs[i] = ys[j]
  BY <1>4, <1>6, <1>10
<1>16. project_roadmap(xs, plan, Whole(now)) = project_roadmap(ys, plan, Whole(now))
  <2>1. Listing(xs, n) /\ n \in Nat
    BY <1>3, <1>7, <1>12, <1>13 DEF Listing
  <2>2. Listing(ys, m) /\ m \in Nat
    BY <1>4, <1>5 DEF Listing
  <2>3. Within(xs, n, ys, m) /\ Within(ys, m, xs, n)
    BY <1>14, <1>15 DEF Within
  <2>4. QED
    BY <2>1, <2>2, <2>3, SameRoadmap
<1>17. QED
  BY <1>8, <1>16

(* The commands say what the endpoints say, for any inventory whose names  *)
(* are in the role of their rules (run_recommend, run_roadmap, run_compat).*)
THEOREM CliAgrees == Spec => []CliAgreesWithServer
<1>1. AdvInv => CliAgreesWithServer
  <2> SUFFICES ASSUME AdvInv PROVE CliAgreesWithServer
    OBVIOUS
  <2>1. \A items \in inventory : items \in Orders(Rows) /\ Range(items) = Rows
    BY DEF inventory, Ranked, Orders, Rows
  <2>2. ASSUME NEW items \in inventory
        PROVE  /\ run_recommend(items, "none") = {Line(r) : r \in recommendations}
               /\ (\A e, f \in latest : e.identity = f.identity => e = f) =>
                    \A plan \in Plans, order \in Orders(latest) :
                      run_roadmap(items, plan) = agility_roadmap(order, plan)
    <3>1. items \in Orders(Rows) /\ Range(items) = Rows
      BY <2>1
    <3>2. run_recommend(items, "none") = {Line(r) : r \in recommendations}
      BY <3>1, SameReplacements
    <3>3. UniqueIdentities => \A plan \in Plans, order \in Orders(latest) :
                                run_roadmap(items, plan) = agility_roadmap(order, plan)
      BY <3>1, CliRoadmap
    <3>4. QED
      BY <3>2, <3>3 DEF UniqueIdentities
  <2>3. ASSUME NEW item \in recommendations, NEW i \in DOMAIN item.recommendations,
               NEW s \in {e.stack : e \in build_matrix}
        PROVE  LET a == item.recommendations[i].replacement
               IN  /\ (agility_compat(s, a).status = 404) =
                        (\E e \in run_compat(s, a) : e.status = "unknown")
                   /\ agility_compat(s, a).items \subseteq agility_compat("none", "none").items
    BY CompatAgrees
  <2>4. QED
    BY <2>2, <2>3 DEF CliAgreesWithServer, Line
<1>2. QED
  BY <1>1, AdvInvariant, PTL

-----------------------------------------------------------------------------
(* Flattening keeps every element: the recursion behind FlattenSeq has a   *)
(* solution up to every place, by least counterexample.                    *)
LEMMA FlattenKeeps ==
  ASSUME NEW seqs, NEW n \in Nat, seqs = [i \in 1..n |-> seqs[i]],
         NEW S, \A i \in 1..n : seqs[i] \in Seq(S)
  PROVE  /\ FlattenSeq(seqs) \in Seq(S)
         /\ \A i \in 1..n : \A j \in DOMAIN seqs[i] : \E k \in DOMAIN FlattenSeq(seqs) :
              FlattenSeq(seqs)[k] = seqs[i][j]
<1> DEFINE Body(g, k) == [i \in 1..k |-> IF i = 1 THEN seqs[i] ELSE g[i - 1] \o seqs[i]]
           flatten == CHOOSE g : g = Body(g, n)
<1>1. DOMAIN seqs = 1..n /\ Len(seqs) = n /\ (n = 0 => seqs = <<>>)
  BY LengthIs
<1>2. CASE n = 0
  <2>1. FlattenSeq(seqs) = <<>>
    BY <1>1, <1>2 DEF FlattenSeq
  <2>2. <<>> \in Seq(S) /\ \A i \in 1..n : FALSE
    BY <1>2
  <2>3. QED
    BY <2>1, <2>2
<1>3. CASE n # 0
  <2>1. FlattenSeq(seqs) = flatten[n]
    BY <1>1, <1>3 DEF FlattenSeq
  <2> DEFINE Solved(k) == \E g : g = Body(g, k)
             B == {k \in 0..n : ~Solved(k)}
  <2>2. Solved(0)
    <3> DEFINE e == [i \in 1..0 |-> i]
    <3>1. e = Body(e, 0)
      OBVIOUS
    <3>2. QED
      BY <3>1
  <2>3. ASSUME NEW k \in 0..n, k + 1 \in 0..n, Solved(k) PROVE Solved(k + 1)
    <3>1. PICK g : g = Body(g, k)
      BY <2>3
    <3> DEFINE h == [i \in 1..k + 1 |-> IF i <= k THEN g[i] ELSE IF i = 1 THEN seqs[i] ELSE g[k] \o seqs[i]]
    <3>2. \A i \in 1..k : g[i] = IF i = 1 THEN seqs[i] ELSE g[i - 1] \o seqs[i]
      BY <3>1
    <3>3. ASSUME NEW i \in 1..k + 1 PROVE h[i] = IF i = 1 THEN seqs[i] ELSE h[i - 1] \o seqs[i]
      <4>1. CASE i <= k
        <5>1. i \in 1..k /\ h[i] = g[i]
          BY <4>1
        <5>2. CASE i = 1
          BY <3>2, <5>1, <5>2
        <5>3. CASE i # 1
          <6>1. i - 1 \in 1..k + 1 /\ i - 1 <= k
            BY <4>1, <5>3
          <6>2. h[i - 1] = g[i - 1]
            BY <6>1
          <6> HIDE DEF h
          <6>3. QED
            BY <3>2, <5>1, <5>3, <6>2
        <5>4. QED
          BY <5>2, <5>3
      <4>2. CASE ~(i <= k)
        <5>1. i = k + 1
          BY <4>2
        <5>2. CASE i = 1
          BY <4>2, <5>2
        <5>3. CASE i # 1
          <6>1. h[i] = g[k] \o seqs[i]
            BY <4>2, <5>3
          <6>2. i - 1 = k /\ k \in 1..k + 1 /\ k <= k
            BY <5>1, <5>3
          <6>3. h[k] = g[k]
            BY <6>2
          <6> HIDE DEF h
          <6>4. QED
            BY <5>3, <6>1, <6>2, <6>3
        <5>4. QED
          BY <5>2, <5>3
      <4>3. QED
        BY <4>1, <4>2
    <3>4. h = [i \in 1..k + 1 |-> h[i]]
      OBVIOUS
    <3> HIDE DEF h
    <3>5. h = Body(h, k + 1)
      BY <3>3, <3>4
    <3>6. QED
      BY <3>5
  <2>4. B = {}
    <3> HIDE DEF Solved
    <3> SUFFICES ASSUME B # {} PROVE FALSE
      OBVIOUS
    <3>1. B \in SUBSET Nat
      OBVIOUS
    <3>2. PICK k \in B : \A j \in B : k <= j
      BY <3>1, LeastNumber
    <3>3. k \in 0..n /\ ~Solved(k) /\ k # 0
      BY <2>2
    <3>4. k - 1 \in 0..n /\ (k - 1) + 1 = k /\ ~(k <= k - 1)
      BY <3>3
    <3>5. Solved(k - 1)
      BY <3>2, <3>4
    <3>6. QED
      BY <2>3, <3>3, <3>4, <3>5
  <2>5. flatten = Body(flatten, n)
    <3>1. Solved(n)
      <4> HIDE DEF Solved
      <4>1. n \in 0..n
        OBVIOUS
      <4>2. QED
        BY <2>4, <4>1
    <3> HIDE DEF Body
    <3>2. QED
      BY <3>1
  <2> HIDE DEF flatten
  <2>6. /\ 1 \in 1..n /\ flatten[1] = seqs[1]
        /\ \A i \in 1..n : i # 1 => flatten[i] = flatten[i - 1] \o seqs[i]
    <3>1. \A i \in 1..n : flatten[i] = IF i = 1 THEN seqs[i] ELSE flatten[i - 1] \o seqs[i]
      BY <2>5
    <3>2. 1 \in 1..n
      BY <1>3
    <3>3. QED
      BY <3>1, <3>2
  <2> DEFINE Holds(k) == /\ flatten[k] \in Seq(S)
                         /\ \A i \in 1..k : \A j \in DOMAIN seqs[i] : \E l \in DOMAIN flatten[k] :
                              flatten[k][l] = seqs[i][j]
             C == {k \in 1..n : ~Holds(k)}
  <2>7. Holds(1)
    BY <2>6
  <2>8. ASSUME NEW k \in 1..n, k # 1, Holds(k - 1) PROVE Holds(k)
    <3> DEFINE a == flatten[k - 1]
               b == seqs[k]
               c == flatten[k]
    <3>1. a \in Seq(S) /\ b \in Seq(S) /\ c = a \o b
      BY <2>6, <2>8
    <3>2. \A i \in 1..k - 1 : \A j \in DOMAIN seqs[i] : \E l \in DOMAIN a : a[l] = seqs[i][j]
      BY <2>8
    <3> HIDE DEF a, b, c
    <3>3. /\ c \in Seq(S) /\ Len(c) = Len(a) + Len(b)
          /\ \A l \in 1..Len(a) : l \in 1..Len(c) /\ c[l] = a[l]
          /\ \A l \in 1..Len(b) : Len(a) + l \in 1..Len(c) /\ c[Len(a) + l] = b[l]
      BY <3>1
    <3>4. DOMAIN a = 1..Len(a) /\ DOMAIN b = 1..Len(b) /\ DOMAIN c = 1..Len(c)
      BY <3>1, <3>3
    <3>5. ASSUME NEW i \in 1..k, NEW j \in DOMAIN seqs[i]
          PROVE  \E l \in DOMAIN c : c[l] = seqs[i][j]
      <4>1. CASE i = k
        <5>1. j \in 1..Len(b) /\ seqs[i][j] = b[j]
          BY <3>4, <4>1 DEF b
        <5>2. QED
          BY <3>3, <3>4, <5>1
      <4>2. CASE i # k
        <5>1. i \in 1..k - 1
          BY <4>2
        <5>2. PICK l \in DOMAIN a : a[l] = seqs[i][j]
          BY <3>2, <5>1
        <5>3. QED
          BY <3>3, <3>4, <5>2
      <4>3. QED
        BY <4>1, <4>2
    <3>6. QED
      BY <3>3, <3>5 DEF c
  <2>9. C = {}
    <3> HIDE DEF Holds
    <3> SUFFICES ASSUME C # {} PROVE FALSE
      OBVIOUS
    <3>1. C \in SUBSET Nat
      OBVIOUS
    <3>2. PICK k \in C : \A j \in C : k <= j
      BY <3>1, LeastNumber
    <3>3. k \in 1..n /\ ~Holds(k) /\ k # 1
      BY <2>7
    <3>4. k - 1 \in 1..n /\ ~(k <= k - 1)
      BY <3>3
    <3>5. Holds(k - 1)
      BY <3>2, <3>4
    <3>6. QED
      BY <2>8, <3>3, <3>5
  <2>10. Holds(n)
    <3> HIDE DEF Holds
    <3>1. n \in 1..n
      BY <1>3
    <3>2. QED
      BY <2>9, <3>1
  <2>11. QED
    <3> DEFINE out == FlattenSeq(seqs)
    <3>1. out = flatten[n]
      BY <2>1
    <3>2. /\ flatten[n] \in Seq(S)
          /\ \A i \in 1..n : \A j \in DOMAIN seqs[i] : \E l \in DOMAIN flatten[n] :
               flatten[n][l] = seqs[i][j]
      BY <2>10
    <3> HIDE DEF out
    <3>3. /\ out \in Seq(S)
          /\ \A i \in 1..n : \A j \in DOMAIN seqs[i] : \E l \in DOMAIN out : out[l] = seqs[i][j]
      BY <3>1, <3>2
    <3>4. QED
      BY <3>3 DEF out
<1>4. QED
  BY <1>2, <1>3

(* What the rules put in the place of an algorithm, and their records.     *)
Modern ==
  {"ML-DSA-44", "ML-DSA-65", "ML-DSA-87", "SLH-DSA-SHA2-128s", "SLH-DSA-SHA2-192s", "FROST-PQ",
   "AES-256", "AES-256-GCM"}

Replacement ==
  [replaces : STRING, replacement : Modern, cost : {"low", "medium", "high"}]

(* Every rule gives a sequence of such records.                           *)
LEMMA RulesType ==
  ASSUME NEW p \in AnyPrimitive
  PROVE  Rules(p) \in Seq(Replacement)
<1>1. p.algorithm \in STRING
  BY DEF AnyPrimitive
<1>2. \A r \in Modern, c \in {"low", "medium", "high"} : Recommendation(p, r, c) \in Replacement
  BY <1>1 DEF Recommendation, Replacement
<1> DEFINE One(r, c) == <<Recommendation(p, r, c)>>
           Two(r, s) == <<Recommendation(p, r, "medium"), Recommendation(p, s, "high")>>
<1>3. \A r, s \in Modern : Two(r, s) \in Seq(Replacement)
  BY <1>2
<1>4. \A r \in Modern, c \in {"low", "medium", "high"} : One(r, c) \in Seq(Replacement)
  BY <1>2
<1>5. <<>> \in Seq(Replacement)
  OBVIOUS
<1>6. /\ nist_level_for_rsa(p.algorithm)[1] \in Modern
      /\ nist_level_for_rsa(p.algorithm)[2] \in Modern
  <2> DEFINE lowest == <<"ML-DSA-44", "SLH-DSA-SHA2-128s">>
             middle == <<"ML-DSA-65", "SLH-DSA-SHA2-192s">>
             highest == <<"ML-DSA-87", "SLH-DSA-SHA2-192s">>
  <2>1. /\ lowest[1] \in Modern /\ lowest[2] \in Modern
        /\ middle[1] \in Modern /\ middle[2] \in Modern
        /\ highest[1] \in Modern /\ highest[2] \in Modern
    BY DEF Modern
  <2> HIDE DEF lowest, middle, highest
  <2>2. nist_level_for_rsa(p.algorithm) \in {lowest, middle, highest}
    BY DEF nist_level_for_rsa, lowest, middle, highest
  <2>3. QED
    BY <2>1, <2>2
<1> DEFINE level == nist_level_for_rsa(p.algorithm)
<1>7. \/ recommend_for_sig(p) = Two(level[1], level[2])
      \/ recommend_for_sig(p) = One("ML-DSA-65", "medium")
      \/ recommend_for_sig(p) = One("FROST-PQ", "high")
      \/ recommend_for_sig(p) = <<>>
  <2> DEFINE rsa == p.algorithm \in RsaNames
             curve == p.algorithm \in EcdsaNames \union {"Ed25519", "Ed448"}
             schnorr == p.algorithm = "Schnorr-secp256k1"
  <2>1. recommend_for_sig(p) =
          CASE rsa     -> Two(level[1], level[2])
            [] curve   -> One("ML-DSA-65", "medium")
            [] schnorr -> One("FROST-PQ", "high")
            [] OTHER   -> <<>>
    BY DEF recommend_for_sig
  <2> HIDE DEF One, Two, level, rsa, curve, schnorr
  <2>2. QED
    BY <2>1
<1>8. \/ recommend_for_encrypt(p) = One("AES-256", "low")
      \/ recommend_for_encrypt(p) = One("AES-256-GCM", "low")
      \/ recommend_for_encrypt(p) = <<>>
  BY DEF recommend_for_encrypt
<1>9. recommend_for_sig(p) \in Seq(Replacement) /\ recommend_for_encrypt(p) \in Seq(Replacement)
  <2>1. Two(level[1], level[2]) \in Seq(Replacement)
    BY <1>3, <1>6
  <2>2. /\ One("ML-DSA-65", "medium") \in Seq(Replacement)
        /\ One("FROST-PQ", "high") \in Seq(Replacement)
        /\ One("AES-256", "low") \in Seq(Replacement)
        /\ One("AES-256-GCM", "low") \in Seq(Replacement)
    BY <1>4 DEF Modern
  <2> HIDE DEF One, Two, level
  <2>3. QED
    BY <1>5, <1>7, <1>8, <2>1, <2>2
<1>10. Rules(p) = recommend_for_sig(p) \/ Rules(p) = recommend_for_encrypt(p) \/ Rules(p) = <<>>
  BY DEF Rules
<1>11. QED
  BY <1>5, <1>9, <1>10

(* No replacement is lost when they are sorted by cost.                    *)
LEMMA NothingLost ==
  ASSUME NEW prims \in Seq(AnyPrimitive), NEW i \in DOMAIN prims, NEW j \in DOMAIN Rules(prims[i])
  PROVE  \E k \in DOMAIN recommend_for(prims) : recommend_for(prims)[k] = Rules(prims[i])[j]
<1> DEFINE n == Len(prims)
           parts == [x \in DOMAIN prims |-> Rules(prims[x])]
           out == FlattenSeq(parts)
           m == Len(out)
           Picked(c) == [x \in DOMAIN out |-> IF out[x].cost = c THEN <<out[x]>> ELSE <<>>]
           OfCost(c) == FlattenSeq(Picked(c))
           byCost == [c \in DOMAIN Cost |-> OfCost(Cost[c])]
           r == Rules(prims[i])[j]
<1>1. recommend_for(prims) = FlattenSeq(byCost)
  BY DEF recommend_for, Rules
<1>2. n \in Nat /\ DOMAIN prims = 1..n /\ \A x \in 1..n : prims[x] \in AnyPrimitive
  OBVIOUS
<1>3. /\ parts = [x \in 1..n |-> parts[x]] /\ parts[i] = Rules(prims[i])
      /\ \A x \in 1..n : parts[x] \in Seq(Replacement)
  BY <1>2, RulesType
<1> HIDE DEF n, parts
<1>4. out \in Seq(Replacement) /\ \E k \in DOMAIN out : out[k] = r
  <2>1. /\ FlattenSeq(parts) \in Seq(Replacement)
        /\ \A x \in 1..n : \A y \in DOMAIN parts[x] : \E k \in DOMAIN FlattenSeq(parts) :
             FlattenSeq(parts)[k] = parts[x][y]
    BY <1>2, <1>3, FlattenKeeps
  <2> HIDE DEF out
  <2>2. QED
    BY <1>2, <1>3, <2>1 DEF out
<1> HIDE DEF out
<1>5. PICK k \in DOMAIN out : out[k] = r
  BY <1>4
<1>6. m \in Nat /\ DOMAIN out = 1..m /\ \A x \in 1..m : out[x] \in Replacement
  BY <1>4
<1> HIDE DEF m
<1>7. \A c : /\ OfCost(c) \in Seq(Replacement)
             /\ out[k].cost = c => \E y \in DOMAIN OfCost(c) : OfCost(c)[y] = r
  <2> SUFFICES ASSUME NEW c
               PROVE  /\ OfCost(c) \in Seq(Replacement)
                      /\ out[k].cost = c => \E y \in DOMAIN OfCost(c) : OfCost(c)[y] = r
    OBVIOUS
  <2> DEFINE picked == Picked(c)
  <2>1. /\ picked = [x \in 1..m |-> picked[x]]
        /\ \A x \in 1..m : picked[x] \in Seq(Replacement)
        /\ out[k].cost = c => picked[k] = <<r>>
    BY <1>5, <1>6
  <2> HIDE DEF picked
  <2>2. /\ FlattenSeq(picked) \in Seq(Replacement)
        /\ \A x \in 1..m : \A y \in DOMAIN picked[x] : \E z \in DOMAIN FlattenSeq(picked) :
             FlattenSeq(picked)[z] = picked[x][y]
    BY <1>6, <2>1, FlattenKeeps
  <2> DEFINE flat == FlattenSeq(picked)
  <2>3. flat = OfCost(c)
    BY DEF picked
  <2> HIDE DEF flat, OfCost
  <2>4. ASSUME out[k].cost = c PROVE \E z \in DOMAIN flat : flat[z] = r
    <3>1. picked[k] = <<r>> /\ 1 \in DOMAIN picked[k] /\ picked[k][1] = r /\ k \in 1..m
      BY <1>6, <2>1, <2>4
    <3>2. QED
      BY <2>2, <3>1 DEF flat
  <2>5. flat \in Seq(Replacement)
    BY <2>2 DEF flat
  <2>6. QED
    BY <2>3, <2>4, <2>5
<1> HIDE DEF OfCost
<1>8. /\ byCost = [c \in 1..4 |-> byCost[c]]
      /\ \A c \in 1..4 : byCost[c] = OfCost(Cost[c]) /\ byCost[c] \in Seq(Replacement)
      /\ Cost[2] = "low" /\ Cost[3] = "medium" /\ Cost[4] = "high"
  BY <1>7 DEF Cost
<1>9. out[k].cost \in {"low", "medium", "high"}
  BY <1>6 DEF Replacement
<1>10. PICK c \in 1..4 : out[k].cost = Cost[c]
  BY <1>8, <1>9
<1>11. PICK y \in DOMAIN byCost[c] : byCost[c][y] = r
  BY <1>7, <1>8, <1>10
<1> HIDE DEF byCost
<1>12. \A x \in 1..4 : \A z \in DOMAIN byCost[x] : \E w \in DOMAIN FlattenSeq(byCost) :
         FlattenSeq(byCost)[w] = byCost[x][z]
  <2>1. 4 \in Nat /\ byCost = [x \in 1..4 |-> byCost[x]] /\ \A x \in 1..4 : byCost[x] \in Seq(Replacement)
    BY <1>8
  <2>2. QED
    BY <2>1, FlattenKeeps
<1>13. \E w \in DOMAIN FlattenSeq(byCost) : FlattenSeq(byCost)[w] = r
  BY <1>11, <1>12
<1>14. QED
  BY <1>1, <1>13

(* A classical signature goes without a replacement only when the agent    *)
(* names nothing but its family (recommend_for_sig), for any inventory in  *)
(* the vocabulary of the agents.                                           *)
THEOREM Unadvised == Spec => []UnadvisedOnlyIfUnruled
<1>1. AdvInv => UnadvisedOnlyIfUnruled
  <2> SUFFICES ASSUME AdvInv, NEW ev \in latest, NEW i \in DOMAIN ev.primitives,
                      ev.primitives[i].role = "sig", ev.primitives[i].pq = "no",
                      ev.primitives[i].algorithm \notin UnruledNames
               PROVE  \E r \in Range(recommend_for(ev.primitives)) : r.replaces = ev.primitives[i].algorithm
    BY DEF UnadvisedOnlyIfUnruled
  <2> DEFINE prims == ev.primitives
             p == prims[i]
  <2>1. prims \in Seq(AnyPrimitive)
    BY DEF AdvInv, InventoryOK, CryptoInventoryEvent
  <2>2. p.algorithm \in FullNames
    BY DEF AdvInv, InventoryOK, Vocabulary
  <2>3. Rules(p) = recommend_for_sig(p)
    BY RulesAre
  <2> HIDE DEF p
  <2>4. 1 \in DOMAIN recommend_for_sig(p) /\ recommend_for_sig(p)[1].replaces = p.algorithm
    <3> DEFINE level == nist_level_for_rsa(p.algorithm)
    <3>1. \/ recommend_for_sig(p) = <<Recommendation(p, level[1], "medium"), Recommendation(p, level[2], "high")>>
          \/ recommend_for_sig(p) = <<Recommendation(p, "ML-DSA-65", "medium")>>
          \/ recommend_for_sig(p) = <<Recommendation(p, "FROST-PQ", "high")>>
      BY <2>2 DEF recommend_for_sig, FullNames
    <3>2. \A r, c : Recommendation(p, r, c).replaces = p.algorithm
      BY DEF Recommendation
    <3> HIDE DEF level
    <3>3. QED
      BY <3>1, <3>2
  <2>5. \E k \in DOMAIN recommend_for(prims) : recommend_for(prims)[k] = Rules(p)[1]
    BY <2>1, <2>3, <2>4, NothingLost DEF p
  <2>6. QED
    BY <2>3, <2>4, <2>5 DEF Range, p
<1>2. QED
  BY <1>1, AdvInvariant, PTL

-----------------------------------------------------------------------------
(* The vocabulary is what the agents speak.  First, the ciphers for which  *)
(* there is a rule.                                                        *)
ReplacedCiphers == {"AES-128", "AES-128-GCM", "DES", "3DES", "RC4", "AES-CBC"}

LEMMA RuledNames ==
  ASSUME NEW p
  PROVE  /\ recommend_for_sig(p) # <<>> => p.algorithm \in FullNames
         /\ recommend_for_encrypt(p) # <<>> => p.algorithm \in ReplacedCiphers
BY DEF recommend_for_sig, recommend_for_encrypt, FullNames, ReplacedCiphers

(* What a primitive of each role has to be called.                         *)
Spoken(role, name, pq) ==
  \/ role = "sig" /\ name \notin ReplacedCiphers /\ (pq = "no" => name \in FullNames \union UnruledNames)
  \/ role = "encrypt" /\ name \notin FullNames
  \/ role \in {"kex", "hash"} /\ name \notin FullNames \union ReplacedCiphers

LEMMA SpokenIsVocabulary ==
  ASSUME NEW role, NEW name, NEW pq, Spoken(role, name, pq)
  PROVE  Vocabulary(Primitive(role, name, pq))
<1> DEFINE p == Primitive(role, name, pq)
<1>1. p.role = role /\ p.algorithm = name /\ p.pq = pq
  BY DEF Primitive
<1> HIDE DEF p
<1>2. Vocabulary(p)
  BY <1>1, RuledNames DEF Vocabulary, Spoken
<1>3. QED
  BY <1>2 DEF p

LEMMA AllSpeak ==
  ASSUME NEW a, Vocabulary(a), NEW b, Vocabulary(b), NEW c, Vocabulary(c), NEW d, Vocabulary(d)
  PROVE  /\ \A p \in Range(<<a>>) : Vocabulary(p)
         /\ \A p \in Range(<<a, b>>) : Vocabulary(p)
         /\ \A p \in Range(<<a, b, c, d>>) : Vocabulary(p)
<1>1. Range(<<a>>) = {a} /\ Range(<<a, b>>) = {a, b} /\ Range(<<a, b, c, d>>) = {a, b, c, d}
  BY DEF Range
<1>2. QED
  BY <1>1, Zenon

LEMMA NoHashIsRuled ==
  ASSUME NEW name \in {"SHA-1", "SHA-256", "SHA-384", "SHA-512", "Keccak-256", "MD5"}, NEW pq
  PROVE  Vocabulary(Hash(name, pq))
<1>1. Spoken("hash", name, pq)
  BY DEF Spoken, ReplacedCiphers, FullNames, RsaNames, EcdsaNames, TrailingBits
<1>2. QED
  BY <1>1, SpokenIsVocabulary DEF Hash

LEMMA SigsAreNamed ==
  ASSUME NEW name, NEW pq,
         \/ name \in FullNames \union UnruledNames
         \/ pq # "no" /\ name \notin ReplacedCiphers
  PROVE  Vocabulary(Sig(name, pq))
<1>1. name \notin ReplacedCiphers
  BY DEF ReplacedCiphers, FullNames, UnruledNames, RsaNames, EcdsaNames, TrailingBits
<1>2. Spoken("sig", name, pq)
  BY <1>1 DEF Spoken
<1>3. QED
  BY <1>2, SpokenIsVocabulary DEF Sig

LEMMA CiphersAreNamed ==
  ASSUME NEW name \in EncryptNames \union {"NULL"}, NEW pq
  PROVE  Vocabulary(Encrypt(name, pq))
<1>1. Spoken("encrypt", name, pq)
  BY DEF Spoken, EncryptNames, FullNames, RsaNames, EcdsaNames, TrailingBits
<1>2. QED
  BY <1>1, SpokenIsVocabulary DEF Encrypt

LEMMA KeysSpeak ==
  ASSUME NEW type \in DOMAIN KeyPrimitives
  PROVE  \A p \in Range(KeyPrimitives[type]) : Vocabulary(p)
<1> DEFINE Breakable == {"RSA-PKCS1", "RSA-PKCS1-2048", "RSA-PKCS1-3072", "RSA-PKCS1-4096", "ECDSA-P256",
                         "ECDSA-P384", "ECDSA-P521", "ECDSA-secp256k1", "Ed25519", "Ed448"}
           Others == {"ML-DSA-44", "ML-DSA-65", "ML-DSA-87", "SLH-DSA-SHA2-128s", "SLH-DSA-SHA2-192s",
                      "unknown:SM2"}
           Hashes == {"SHA-256", "SHA-384", "SHA-512"}
           All == {Sig(a, "no") : a \in Breakable} \union {Sig(a, "yes") : a \in Others}
                    \union {Sig(a, "unknown") : a \in Others} \union {Hash(a, "yes") : a \in Hashes}
                    \union {Encrypt("AES-128", "no"), Encrypt("AES-256", "yes")}
           k == KeyPrimitives[type]
<1>1. \A p \in All : Vocabulary(p)
  <2>1. Breakable \subseteq FullNames
    BY DEF FullNames, RsaNames, EcdsaNames, TrailingBits
  <2>2. \A a \in Others : a \notin ReplacedCiphers
    BY DEF ReplacedCiphers
  <2>3. "AES-128" \in EncryptNames /\ "AES-256" \in EncryptNames
    BY DEF EncryptNames
  <2>4. \A a \in Hashes : Vocabulary(Hash(a, "yes"))
    BY NoHashIsRuled
  <2>5. Vocabulary(Encrypt("AES-128", "no")) /\ Vocabulary(Encrypt("AES-256", "yes"))
    BY <2>3, CiphersAreNamed
  <2> HIDE DEF Breakable, Others, Hashes
  <2>6. \A a \in Breakable : Vocabulary(Sig(a, "no"))
    BY <2>1, SigsAreNamed
  <2>7. \A a \in Others : Vocabulary(Sig(a, "yes")) /\ Vocabulary(Sig(a, "unknown"))
    BY <2>2, SigsAreNamed
  <2>8. QED
    BY <2>4, <2>5, <2>6, <2>7
<1>2. k[1] \in All /\ (k = <<k[1]>> \/ (k = <<k[1], k[2]>> /\ k[2] \in All))
  <2>1. CASE type \in {"RSA", "RSA_2048", "RSA_3072", "RSA_4096", "ED25519", "ED448"}
    BY <2>1 DEF KeyPrimitives
  <2>2. CASE type \in {"ECC_NIST_P256", "ECC_NIST_P384", "ECC_NIST_P521", "ECC_SECG_P256K1"}
    BY <2>2 DEF KeyPrimitives
  <2>3. CASE type \in {"ML_DSA_44", "ML_DSA_65", "ML_DSA_87", "SLH_DSA_128S", "SLH_DSA_192S"}
    BY <2>3 DEF KeyPrimitives
  <2>4. CASE type \in {"AES_128", "AES", "SYMMETRIC_DEFAULT"}
    BY <2>4 DEF KeyPrimitives
  <2>5. CASE type \in {"HMAC_224", "HMAC_256", "HMAC_384", "HMAC_512", "SM2"}
    BY <2>5 DEF KeyPrimitives
  <2>6. QED
    BY <2>1, <2>2, <2>3, <2>4, <2>5 DEF KeyPrimitives
<1> HIDE DEF All
<1>3. QED
  <2> HIDE DEF k
  <2>1. \A p \in Range(k) : Vocabulary(p)
    BY <1>1, <1>2, AllSpeak
  <2>2. QED
    BY <2>1 DEF k

LEMMA CertsSpeak ==
  ASSUME NEW sig \in CertSig
  PROVE  \A p \in Range(CertPrimitives(sig)) : Vocabulary(p)
<1> DEFINE Hashes == {"SHA-1", "SHA-256", "SHA-384", "SHA-512"}
           first == decompose_sig(sig)
<1>1. Vocabulary(first)
  <2> DEFINE Breakable == {"RSA-PKCS1", "ECDSA", "RSA-PSS", "Ed25519", "Ed448", "unknown"}
             Lattice == {"ML-DSA-44", "ML-DSA-65", "ML-DSA-87"}
  <2>1. (\E a \in Breakable : first = Sig(a, "no")) \/ (\E a \in Lattice : first = Sig(a, "yes"))
    BY DEF decompose_sig, CertSig
  <2>2. Breakable \subseteq FullNames \union UnruledNames
    BY DEF FullNames, UnruledNames, RsaNames, EcdsaNames, TrailingBits
  <2>3. \A a \in Lattice : a \notin ReplacedCiphers
    BY DEF ReplacedCiphers
  <2>4. \A a \in Breakable : Vocabulary(Sig(a, "no"))
    BY <2>2, SigsAreNamed
  <2>5. \A a \in Lattice : Vocabulary(Sig(a, "yes"))
    BY <2>3, SigsAreNamed
  <2> HIDE DEF first, Breakable, Lattice
  <2>6. QED
    BY <2>1, <2>4, <2>5
<1>2. HashPart(sig) = <<>> \/ \E h \in Hashes : HashPart(sig) = <<Hash(h, "yes")>>
  BY DEF HashPart
<1>3. \A h \in Hashes : Vocabulary(Hash(h, "yes"))
  BY NoHashIsRuled
<1>4. CertPrimitives(sig) = <<first>> \/ \E h \in Hashes : CertPrimitives(sig) = <<first, Hash(h, "yes")>>
  <2>1. CertPrimitives(sig) = <<first>> \o HashPart(sig)
    BY DEF CertPrimitives
  <2> HIDE DEF first, Hashes
  <2>2. <<first>> \o <<>> = <<first>>
    OBVIOUS
  <2>3. ASSUME NEW x
        PROVE  <<first>> \o <<x>> = <<first, x>>
    <3> DEFINE T == {first, x}
               both == <<first>> \o <<x>>
    <3>1. <<first>> \in Seq(T) /\ <<x>> \in Seq(T) /\ <<first, x>> \in Seq(T)
      OBVIOUS
    <3>2. both \in Seq(T) /\ Len(both) = 2 /\ both[1] = first /\ both[2] = x
      BY <3>1, ConcatProperties
    <3> HIDE DEF both
    <3>3. both = <<first, x>>
      BY <3>1, <3>2, SeqEqual
    <3>4. QED
      BY <3>3 DEF both
  <2>4. QED
    BY <1>2, <2>1, <2>2, <2>3, Zenon
<1> HIDE DEF first, Hashes
<1>5. QED
  BY <1>1, <1>3, <1>4, AllSpeak

LEMMA ChainsSpeak ==
  ASSUME NEW script \in DOMAIN ChainPrimitives
  PROVE  \A p \in Range(ChainPrimitives[script]) : Vocabulary(p)
<1>1. /\ Vocabulary(Sig("Schnorr-secp256k1", "no")) /\ Vocabulary(Sig("ECDSA-secp256k1", "no"))
      /\ Vocabulary(Sig("XMSS", "yes"))
  <2>1. "Schnorr-secp256k1" \in FullNames /\ "ECDSA-secp256k1" \in FullNames /\ "XMSS" \notin ReplacedCiphers
    BY DEF FullNames, EcdsaNames, ReplacedCiphers
  <2>2. QED
    BY <2>1, SigsAreNamed
<1>2. Vocabulary(Hash("SHA-256", "yes")) /\ Vocabulary(Hash("Keccak-256", "yes"))
  BY NoHashIsRuled
<1> DEFINE k == ChainPrimitives[script]
<1>3. /\ k = <<k[1], k[2]>>
      /\ k[1] \in {Sig("Schnorr-secp256k1", "no"), Sig("ECDSA-secp256k1", "no"), Sig("XMSS", "yes")}
      /\ k[2] \in {Hash("SHA-256", "yes"), Hash("Keccak-256", "yes")}
  BY DEF ChainPrimitives
<1> HIDE DEF k
<1>4. Vocabulary(k[1]) /\ Vocabulary(k[2])
  BY <1>1, <1>2, <1>3, Zenon
<1>5. \A p \in Range(k) : Vocabulary(p)
  BY <1>3, <1>4, AllSpeak
<1>6. QED
  BY <1>5 DEF k

LEMMA SuitesSpeak ==
  ASSUME NEW name \in KnownSuite
  PROVE  \A p \in Range(SuitePrimitives(name)) : Vocabulary(p)
<1>1. CASE name \in DOMAIN Tls13Suite
  <2> DEFINE t == Tls13Suite[name]
  <2>1. t[1] \in EncryptNames /\ t[3] \in {"SHA-256", "SHA-384"}
    BY <1>1 DEF Tls13Suite, EncryptNames
  <2>2. SuitePrimitives(name) = <<Encrypt(t[1], t[2]), Hash(t[3], "yes")>>
    BY <1>1 DEF SuitePrimitives, primitives_from_tls13_ciphersuite
  <2> HIDE DEF t
  <2>3. Vocabulary(Encrypt(t[1], t[2]))
    BY <2>1, CiphersAreNamed
  <2>4. Vocabulary(Hash(t[3], "yes"))
    BY <2>1, NoHashIsRuled
  <2>5. QED
    BY <2>2, <2>3, <2>4, AllSpeak
<1>2. CASE name \notin DOMAIN Tls13Suite
  <2> DEFINE t == Tls12Suite[name]
             k == KexWord(t[1])
             s == SigWord(t[1])
             c == CipherWord(t[2])
             h == HashWord(t[3])
  <2>1. SuitePrimitives(name) = <<Kex(k, "no"), Sig(s, "no"), c, h>>
    BY <1>2 DEF SuitePrimitives, primitives_from_tls12_ciphersuite
  <2>2. Vocabulary(Kex(k, "no"))
    <3>1. k \in {"ECDHE", "DHE", "ECDH", "RSA-KEX"}
      BY DEF KexWord
    <3> HIDE DEF k
    <3>2. Spoken("kex", k, "no")
      BY <3>1 DEF Spoken, ReplacedCiphers, FullNames, RsaNames, EcdsaNames, TrailingBits
    <3>3. QED
      BY <3>2, SpokenIsVocabulary DEF Kex
  <2>3. Vocabulary(Sig(s, "no"))
    <3>1. s \in {"ECDSA", "RSA", "DSA", "anonymous"}
      BY DEF SigWord
    <3> HIDE DEF s
    <3>2. s \in UnruledNames
      BY <3>1 DEF UnruledNames
    <3>3. QED
      BY <3>2, SigsAreNamed
  <2>4. Vocabulary(c)
    <3>1. \E a \in {"AES-256-GCM", "AES-128-GCM", "AES-256-CBC", "AES-128-CBC", "ChaCha20-Poly1305", "3DES",
                    "RC4", "NULL"}, q \in {"no", "yes"} : c = Encrypt(a, q)
      BY DEF CipherWord
    <3> HIDE DEF c
    <3>2. {"AES-256-GCM", "AES-128-GCM", "AES-256-CBC", "AES-128-CBC", "ChaCha20-Poly1305", "3DES",
           "RC4", "NULL"} \subseteq EncryptNames \union {"NULL"}
      BY DEF EncryptNames
    <3>3. QED
      BY <3>1, <3>2, CiphersAreNamed
  <2>5. Vocabulary(h)
    <3>1. \E a \in {"SHA-384", "SHA-256", "SHA-1", "MD5"}, q \in {"no", "yes"} : h = Hash(a, q)
      BY DEF HashWord
    <3> HIDE DEF h
    <3>2. QED
      BY <3>1, NoHashIsRuled
  <2> HIDE DEF k, s, c, h
  <2>6. QED
    BY <2>1, <2>2, <2>3, <2>4, <2>5, AllSpeak
<1>3. QED
  BY <1>1, <1>2

LEMMA GroupsSpeak ==
  ASSUME NEW name \in KnownGroup
  PROVE  Vocabulary(primitive_from_supported_group[name])
<1> DEFINE GroupNames == {"ECDHE-P256", "ECDHE-P384", "ECDHE-P521", "X25519", "X448", "DHE-2048", "DHE-3072",
                          "DHE-4096", "ML-KEM-512", "ML-KEM-768", "ML-KEM-1024", "X25519+ML-KEM-768",
                          "ECDHE-P256+ML-KEM-768", "ECDHE-P384+ML-KEM-1024"}
<1>1. PICK a \in GroupNames, q \in {"no", "yes"} : primitive_from_supported_group[name] = Kex(a, q)
  BY DEF KnownGroup, primitive_from_supported_group
<1>2. Spoken("kex", a, q)
  <2>1. a \notin ReplacedCiphers
    BY DEF ReplacedCiphers
  <2>2. a \notin FullNames
    BY DEF FullNames, RsaNames, EcdsaNames, TrailingBits
  <2>3. QED
    BY <2>1, <2>2 DEF Spoken
<1>3. QED
  BY <1>1, <1>2, SpokenIsVocabulary DEF Kex

LEMMA SchemesSpeak ==
  /\ \A name \in KnownScheme : Vocabulary(primitive_from_signature_scheme[name])
  /\ \A name \in DOMAIN ZgrabSig : Vocabulary(ZgrabSig[name])
<1> DEFINE Breakable == {"RSA-PSS-SHA256", "RSA-PSS-SHA384", "RSA-PSS-SHA512", "RSA-PKCS1-SHA1",
                         "RSA-PKCS1-SHA256", "RSA-PKCS1-SHA384", "RSA-PKCS1-SHA512", "ECDSA-P256",
                         "ECDSA-P384", "ECDSA-P521", "Ed25519", "Ed448", "RSA-MD5"}
           Lattice == {"ML-DSA-44", "ML-DSA-65", "ML-DSA-87", "SLH-DSA-SHA2-128s", "SLH-DSA-SHA2-256s"}
           Sigs == {Sig(a, "no") : a \in Breakable} \union {Sig(a, "yes") : a \in Lattice}
<1>1. \A s \in Sigs : Vocabulary(s)
  <2>1. Breakable \subseteq FullNames \union UnruledNames
    BY DEF FullNames, UnruledNames, RsaNames, EcdsaNames, TrailingBits
  <2>2. \A a \in Lattice : a \notin ReplacedCiphers
    BY DEF ReplacedCiphers
  <2> HIDE DEF Breakable, Lattice
  <2>3. \A a \in Breakable : Vocabulary(Sig(a, "no"))
    BY <2>1, SigsAreNamed
  <2>4. \A a \in Lattice : Vocabulary(Sig(a, "yes"))
    BY <2>2, SigsAreNamed
  <2>5. QED
    BY <2>3, <2>4
<1>2. \A name \in KnownScheme : primitive_from_signature_scheme[name] \in Sigs
  BY DEF KnownScheme, primitive_from_signature_scheme
<1>3. \A name \in DOMAIN ZgrabSig : ZgrabSig[name] \in Sigs
  BY DEF ZgrabSig
<1> HIDE DEF Sigs
<1>4. QED
  BY <1>1, <1>2, <1>3

(* Every row of every table by which an agent makes primitives of what it  *)
(* sees is in the vocabulary that AdviceAssumption asks for (net: algos.rs,*)
(* tls/mod.rs, zgrab; cert.rs, decompose_sig; id: algos.rs; chain).        *)
THEOREM TablesAreVocabulary ==
  /\ \A type \in DOMAIN KeyPrimitives : \A p \in Range(KeyPrimitives[type]) : Vocabulary(p)
  /\ \A sig \in CertSig : \A p \in Range(CertPrimitives(sig)) : Vocabulary(p)
  /\ \A script \in DOMAIN ChainPrimitives : \A p \in Range(ChainPrimitives[script]) : Vocabulary(p)
  /\ \A name \in KnownSuite : \A p \in Range(SuitePrimitives(name)) : Vocabulary(p)
  /\ \A name \in KnownGroup : Vocabulary(primitive_from_supported_group[name])
  /\ \A name \in KnownScheme : Vocabulary(primitive_from_signature_scheme[name])
  /\ \A name \in DOMAIN ZgrabSig : Vocabulary(ZgrabSig[name])
BY KeysSpeak, CertsSpeak, ChainsSpeak, SuitesSpeak, GroupsSpeak, SchemesSpeak

=============================================================================
