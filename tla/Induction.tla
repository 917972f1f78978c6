------------------------------ MODULE Induction ------------------------------
(***************************************************************************)
(* Induction over numbers and finite sets, as facts about sets, and what   *)
(* follows for the sums of Functions.                                      *)
(***************************************************************************)
EXTENDS Integers, Sequences, FiniteSets, Functions, FiniteSetTheorems, SequenceTheorems, TLAPS

\* A sequence is a function on its positions.
LEMMA SeqIs ==
    ASSUME NEW S, NEW s \in Seq(S)
    PROVE  Len(s) \in Nat /\ DOMAIN s = 1..Len(s) /\ s \in [1..Len(s) -> S]
  BY LenProperties

LEMMA NatSetInduction ==
    ASSUME NEW G, 0 \in G, \A n \in Nat : n \in G => n + 1 \in G
    PROVE  Nat \subseteq G
  <1> SUFFICES ASSUME Nat \ G # {} PROVE FALSE
    OBVIOUS
  <1> DEFINE R == OpToRel(<, Nat)
  <1>1. \E x \in Nat \ G : \A y \in Nat \ G : ~(<<y, x>> \in R)
    <2>1. IsWellFoundedOn(R, Nat)
      BY NatLessThanWellFounded
    <2>2. Nat \ G \subseteq Nat
      OBVIOUS
    <2> HIDE DEF R
    <2>3. QED
      BY <2>1, <2>2, WFMin
  <1>2. PICK x \in Nat \ G : \A y \in Nat \ G : ~(<<y, x>> \in R)
    BY <1>1
  <1>3. x - 1 \in Nat /\ x - 1 < x
    OBVIOUS
  <1>4. <<x - 1, x>> \in R
    BY <1>3 DEF OpToRel
  <1>5. x - 1 \in G
    BY <1>2, <1>3, <1>4
  <1>6. (x - 1) + 1 \in G
    BY <1>3, <1>5
  <1>7. (x - 1) + 1 = x
    OBVIOUS
  <1>8. QED
    BY <1>2, <1>6, <1>7

\* What the empty set has, and a set has when it has it without any one element.
LEMMA SubsetInduction ==
    ASSUME NEW S, IsFiniteSet(S), NEW G, {} \in G,
           \A T \in SUBSET S : T # {} /\ (\A x \in T : T \ {x} \in G) => T \in G
    PROVE  S \in G
  <1> SUFFICES ASSUME S \notin G PROVE FALSE
    OBVIOUS
  <1> DEFINE B == (SUBSET S) \ G
             R == StrictSubsetOrdering(S)
  <1>1. IsWellFoundedOn(R, SUBSET S)
    <2>1. FiniteSubsetsOf(S) = SUBSET S
      BY FS_FiniteSubsetsOfFinite
    <2>2. IsWellFoundedOn(R, FiniteSubsetsOf(S))
      BY FS_StrictSubsetOrderingWellFounded
    <2> HIDE DEF R
    <2>3. QED
      BY <2>1, <2>2
  <1>2. B \subseteq SUBSET S /\ B # {}
    OBVIOUS
  <1>3. \E T \in B : \A U \in B : ~(<<U, T>> \in R)
    <2> HIDE DEF B, R
    <2>1. QED
      BY <1>1, <1>2, WFMin
  <1>4. PICK T \in B : \A U \in B : ~(<<U, T>> \in R)
    BY <1>3
  <1>5. ASSUME NEW x \in T PROVE T \ {x} \in G
    <2>1. <<T \ {x}, T>> \in R
      BY DEF StrictSubsetOrdering
    <2>2. QED
      BY <1>4, <2>1
  <1>6. QED
    BY <1>4, <1>5

-----------------------------------------------------------------------------
(* Sums.                                                                   *)

AnyOf(s) == CHOOSE y \in s : TRUE

\* The partial sums g of f over a family of sets.
Sums(g, f, D) ==
    g = [s \in D |-> IF s = {} THEN 0 ELSE f[AnyOf(s)] + g[s \ {AnyOf(s)}]]

\* What partial sums are like: their elements may be taken in any order.
Additive(g, f, S) ==
    \A T \in SUBSET S : /\ g[T] \in Int /\ (T = {} => g[T] = 0)
                        /\ \A x \in T : g[T] = f[x] + g[T \ {x}]

Integral(f, S) == \A x \in S : f[x] \in Int

LEMMA SumsExist ==
    ASSUME NEW f, NEW S, IsFiniteSet(S)
    PROVE  \E g : Sums(g, f, SUBSET S) /\ g[S] = SumFunctionOnSet(f, S)
  <1> DEFINE Value(h, s) == IF s = {} THEN 0 ELSE f[AnyOf(s)] + h[s \ {AnyOf(s)}]
             Small(n) == {s \in SUBSET S : Cardinality(s) <= n}
             Fixed(h, D) == h = [s \in D |-> Value(h, s)]
             G == {n \in Nat : \E h : Fixed(h, Small(n))}
             g == CHOOSE h : Fixed(h, SUBSET S)
  <1>1. \A s \in SUBSET S : /\ IsFiniteSet(s) /\ Cardinality(s) \in Nat
                            /\ Cardinality(s) <= Cardinality(S)
    BY FS_Subset, FS_CardinalityType
  <1>2. \A s \in SUBSET S : s # {} =>
           /\ AnyOf(s) \in s /\ s \ {AnyOf(s)} \in SUBSET S
           /\ Cardinality(s \ {AnyOf(s)}) = Cardinality(s) - 1
    BY <1>1, FS_RemoveElement DEF AnyOf
  <1>3. 0 \in G
    <2> DEFINE h == [s \in Small(0) |-> 0]
    <2>1. \A s \in Small(0) : s = {}
      BY <1>1, FS_EmptySet
    <2>2. Fixed(h, Small(0))
      BY <2>1
    <2>3. QED
      BY <2>2
  <1>4. ASSUME NEW n \in Nat, n \in G PROVE n + 1 \in G
    <2>1. PICK k : Fixed(k, Small(n))
      BY <1>4
    <2> DEFINE h == [s \in Small(n + 1) |-> Value(k, s)]
    <2>2. \A s \in Small(n) : h[s] = k[s]
      <3>1. Small(n) \subseteq Small(n + 1)
        BY <1>1
      <3> HIDE DEF Value, Small
      <3>2. QED
        BY <2>1, <3>1
    <2>3. \A s \in Small(n + 1) : s # {} => s \ {AnyOf(s)} \in Small(n)
      BY <1>1, <1>2
    <2>4. \A s \in Small(n + 1) : Value(k, s) = Value(h, s)
      <3> SUFFICES ASSUME NEW s \in Small(n + 1) PROVE Value(k, s) = Value(h, s)
        OBVIOUS
      <3>1. CASE s = {}
        BY <3>1
      <3>2. CASE s # {}
        <4>1. h[s \ {AnyOf(s)}] = k[s \ {AnyOf(s)}]
          <5> HIDE DEF h, Small
          <5>1. QED
            BY <2>2, <2>3, <3>2
        <4> HIDE DEF h
        <4>2. QED
          BY <4>1, <3>2
      <3>3. QED
        BY <3>1, <3>2
    <2>5. Fixed(h, Small(n + 1))
      <3> HIDE DEF Value, Small
      <3>1. QED
        BY <2>4
    <2>6. n + 1 \in Nat
      OBVIOUS
    <2> HIDE DEF h, Fixed, Small
    <2>7. QED
      BY <2>5, <2>6
  <1>5. Cardinality(S) \in G
    <2> HIDE DEF G
    <2>1. Nat \subseteq G
      BY <1>3, <1>4, NatSetInduction
    <2>2. QED
      BY <2>1, <1>1
  <1>6. Small(Cardinality(S)) = SUBSET S
    BY <1>1
  <1>7. Fixed(g, SUBSET S)
    <2>1. \E h : Fixed(h, SUBSET S)
      BY <1>5, <1>6
    <2> HIDE DEF Fixed
    <2>2. QED
      BY <2>1
  <1>8. g[S] = SumFunctionOnSet(f, S)
    BY DEF SumFunctionOnSet, FoldFunctionOnSet, MapThenFoldSet, AnyOf
  <1>9. Sums(g, f, SUBSET S)
    <2> HIDE DEF g
    <2>1. QED
      BY <1>7 DEF Sums
  <1> HIDE DEF g
  <1>10. QED
    BY <1>8, <1>9

\* Partial sums take their elements in any order.
LEMMA SumsAnyOrder ==
    ASSUME NEW f, NEW S, IsFiniteSet(S), Integral(f, S), NEW g, Sums(g, f, SUBSET S)
    PROVE  Additive(g, f, S)
  <1>0. \A s \in SUBSET S : g[s] = IF s = {} THEN 0 ELSE f[AnyOf(s)] + g[s \ {AnyOf(s)}]
    BY DEF Sums
  <1>1. g[{}] = 0 /\ \A s \in SUBSET S : s # {} => g[s] = f[AnyOf(s)] + g[s \ {AnyOf(s)}]
    <2>1. {} \in SUBSET S
      OBVIOUS
    <2>2. QED
      BY <1>0, <2>1
  <1>2. \A s \in SUBSET S : s # {} => AnyOf(s) \in s /\ s \ {AnyOf(s)} \in SUBSET S
    BY DEF AnyOf
  <1>3. \A T \in SUBSET S : g[T] \in Int
    <2> DEFINE G == {T \in SUBSET S : g[T] \in Int}
    <2>1. {} \in G
      BY <1>1
    <2>2. ASSUME NEW T \in SUBSET S, T # {}, \A x \in T : T \ {x} \in G PROVE T \in G
      <3>1. AnyOf(T) \in T /\ g[T \ {AnyOf(T)}] \in Int /\ f[AnyOf(T)] \in Int
        BY <1>2, <2>2 DEF Integral
      <3>2. g[T] = f[AnyOf(T)] + g[T \ {AnyOf(T)}]
        BY <1>1, <2>2
      <3>3. g[T] \in Int
        BY <3>1, <3>2
      <3>4. QED
        BY <3>3
    <2>3. ASSUME NEW T \in SUBSET S PROVE T \in G
      <3>1. IsFiniteSet(T)
        BY FS_Subset
      <3>2. \A U \in SUBSET T : U # {} /\ (\A x \in U : U \ {x} \in G) => U \in G
        <4> HIDE DEF G
        <4>1. QED
          BY <2>2
      <3> HIDE DEF G
      <3>3. QED
        BY <2>1, <3>1, <3>2, SubsetInduction
    <2>4. QED
      BY <2>3
  <1> DEFINE G == {T \in SUBSET S : \A x \in T : g[T] = f[x] + g[T \ {x}]}
  <1>4. {} \in G
    OBVIOUS
  <1>5. ASSUME NEW T \in SUBSET S, T # {}, \A x \in T : T \ {x} \in G
        PROVE  T \in G
    <2> DEFINE y == AnyOf(T)
    <2>1. y \in T /\ T \ {y} \in G /\ g[T] = f[y] + g[T \ {y}] /\ f[y] \in Int
      BY <1>1, <1>2, <1>5 DEF Integral
    <2> HIDE DEF y
    <2>2. ASSUME NEW x \in T, x # y PROVE g[T] = f[x] + g[T \ {x}]
      <3>1. x \in T \ {y} /\ y \in T \ {x} /\ (T \ {y}) \ {x} = (T \ {x}) \ {y}
        BY <2>1, <2>2
      <3>2. T \ {x} \in G /\ f[x] \in Int
        BY <1>5, <2>2 DEF Integral
      <3>3. g[T \ {y}] = f[x] + g[(T \ {y}) \ {x}]
        BY <2>1, <3>1
      <3>4. g[T \ {x}] = f[y] + g[(T \ {x}) \ {y}]
        BY <3>1, <3>2
      <3>5. g[(T \ {x}) \ {y}] \in Int /\ g[T \ {x}] \in Int /\ g[T \ {y}] \in Int /\ g[T] \in Int
        BY <1>3
      <3>6. g[T] = f[y] + (f[x] + g[(T \ {x}) \ {y}]) /\ f[x] \in Int /\ f[y] \in Int
        BY <2>1, <3>1, <3>2, <3>3
      <3> HIDE DEF G
      <3>7. f[y] + (f[x] + g[(T \ {x}) \ {y}]) = f[x] + (f[y] + g[(T \ {x}) \ {y}])
        BY <3>5, <3>6
      <3>8. QED
        BY <3>4, <3>6, <3>7
    <2>3. QED
      BY <2>1, <2>2
  <1>6. ASSUME NEW T \in SUBSET S PROVE T \in G
    <2>1. IsFiniteSet(T)
      BY FS_Subset
    <2> HIDE DEF G
    <2>2. \A U \in SUBSET T : U # {} /\ (\A x \in U : U \ {x} \in G) => U \in G
      BY <1>5
    <2>3. QED
      BY <1>4, <2>1, <2>2, SubsetInduction
  <1>7. QED
    BY <1>1, <1>3, <1>6 DEF Additive

\* Two families of partial sums agree where their functions do.
LEMMA SumsAgree ==
    ASSUME NEW f, NEW h, NEW S, IsFiniteSet(S), \A x \in S : f[x] = h[x],
           NEW R, S \subseteq R, NEW g, Additive(g, f, S), NEW k, Additive(k, h, R)
    PROVE  g[S] = k[S]
  <1> DEFINE G == {T \in SUBSET S : g[T] = k[T]}
  <1>1. \A T \in SUBSET S : (T = {} => g[T] = 0) /\ \A x \in T : g[T] = f[x] + g[T \ {x}]
    BY DEF Additive
  <1>2. \A T \in SUBSET R : (T = {} => k[T] = 0) /\ \A x \in T : k[T] = h[x] + k[T \ {x}]
    BY DEF Additive
  <1>3. {} \in G
    BY <1>1, <1>2
  <1>4. ASSUME NEW T \in SUBSET S, T # {}, \A x \in T : T \ {x} \in G
        PROVE  T \in G
    <2>1. PICK x \in T : TRUE
      BY <1>4
    <2>2. g[T \ {x}] = k[T \ {x}]
      BY <1>4, <2>1
    <2>3. T \in SUBSET R /\ x \in S
      BY <2>1
    <2>4. g[T] = f[x] + g[T \ {x}] /\ k[T] = h[x] + k[T \ {x}] /\ f[x] = h[x]
      BY <1>1, <1>2, <2>1, <2>3
    <2>5. QED
      BY <2>2, <2>4
  <1> HIDE DEF G
  <1>5. S \in G
    BY <1>3, <1>4, SubsetInduction
  <1> USE DEF G
  <1>6. QED
    BY <1>5

LEMMA SumIsAdditive ==
    ASSUME NEW f, NEW S, IsFiniteSet(S), Integral(f, S)
    PROVE  \E g : Additive(g, f, S) /\ g[S] = SumFunctionOnSet(f, S)
  <1>1. PICK g : Sums(g, f, SUBSET S) /\ g[S] = SumFunctionOnSet(f, S)
    BY SumsExist
  <1>2. Additive(g, f, S)
    BY <1>1, SumsAnyOrder
  <1>3. QED
    BY <1>1, <1>2

LEMMA SumType ==
    ASSUME NEW f, NEW S, IsFiniteSet(S), Integral(f, S)
    PROVE  SumFunctionOnSet(f, S) \in Int
  BY SumIsAdditive DEF Additive

LEMMA SumEmpty == ASSUME NEW f PROVE SumFunctionOnSet(f, {}) = 0
  <1>1. IsFiniteSet({}) /\ Integral(f, {})
    BY FS_EmptySet DEF Integral
  <1>2. QED
    BY <1>1, SumIsAdditive DEF Additive

\* The sum over a set is what any one element adds to the sum without it.
LEMMA SumWithout ==
    ASSUME NEW f, NEW S, IsFiniteSet(S), Integral(f, S), NEW x \in S
    PROVE  SumFunctionOnSet(f, S) = f[x] + SumFunctionOnSet(f, S \ {x})
  <1>1. IsFiniteSet(S \ {x}) /\ S \ {x} \subseteq S /\ Integral(f, S \ {x})
    BY FS_Subset DEF Integral
  <1>2. PICK g : Additive(g, f, S) /\ g[S] = SumFunctionOnSet(f, S)
    BY SumIsAdditive
  <1>3. PICK k : Additive(k, f, S \ {x}) /\ k[S \ {x}] = SumFunctionOnSet(f, S \ {x})
    BY <1>1, SumIsAdditive
  <1>4. k[S \ {x}] = g[S \ {x}]
    BY <1>1, <1>2, <1>3, SumsAgree
  <1>5. g[S] = f[x] + g[S \ {x}]
    BY <1>2 DEF Additive
  <1>6. QED
    BY <1>2, <1>3, <1>4, <1>5

LEMMA SumWith ==
    ASSUME NEW f, NEW S, IsFiniteSet(S), NEW x, x \notin S, Integral(f, S \union {x})
    PROVE  SumFunctionOnSet(f, S \union {x}) = f[x] + SumFunctionOnSet(f, S)
  <1>1. IsFiniteSet(S \union {x}) /\ (S \union {x}) \ {x} = S
    BY FS_AddElement
  <1>2. SumFunctionOnSet(f, S \union {x}) = f[x] + SumFunctionOnSet(f, (S \union {x}) \ {x})
    BY <1>1, SumWithout
  <1>3. QED
    BY <1>1, <1>2

\* The sum depends on the function over the set only.
LEMMA SumSame ==
    ASSUME NEW f, NEW h, NEW S, IsFiniteSet(S), Integral(f, S), \A x \in S : f[x] = h[x]
    PROVE  SumFunctionOnSet(f, S) = SumFunctionOnSet(h, S)
  <1>1. Integral(h, S)
    BY DEF Integral
  <1>2. PICK g : Additive(g, f, S) /\ g[S] = SumFunctionOnSet(f, S)
    BY SumIsAdditive
  <1>3. PICK k : Additive(k, h, S) /\ k[S] = SumFunctionOnSet(h, S)
    BY <1>1, SumIsAdditive
  <1>4. g[S] = k[S]
    BY <1>2, <1>3, SumsAgree
  <1>5. QED
    BY <1>2, <1>3, <1>4

\* One element more or less in a function.
LEMMA SumChange ==
    ASSUME NEW f, NEW h, NEW S, IsFiniteSet(S), NEW x \in S,
           Integral(f, S), h[x] \in Int, \A y \in S \ {x} : h[y] = f[y]
    PROVE  SumFunctionOnSet(h, S) = SumFunctionOnSet(f, S) + (h[x] - f[x])
  <1>1. IsFiniteSet(S \ {x}) /\ Integral(h, S) /\ Integral(f, S \ {x})
    BY FS_Subset DEF Integral
  <1>2. SumFunctionOnSet(f, S \ {x}) = SumFunctionOnSet(h, S \ {x})
    BY <1>1, SumSame
  <1>3. SumFunctionOnSet(f, S) = f[x] + SumFunctionOnSet(f, S \ {x})
    BY SumWithout
  <1>4. SumFunctionOnSet(h, S) = h[x] + SumFunctionOnSet(h, S \ {x})
    BY <1>1, SumWithout
  <1>5. SumFunctionOnSet(f, S \ {x}) \in Int /\ f[x] \in Int /\ h[x] \in Int
    BY <1>1, SumType DEF Integral
  <1>6. QED
    BY <1>2, <1>3, <1>4, <1>5

LEMMA SumZero ==
    ASSUME NEW f, NEW S, IsFiniteSet(S), \A x \in S : f[x] = 0
    PROVE  SumFunctionOnSet(f, S) = 0
  <1> DEFINE G == {T \in SUBSET S : SumFunctionOnSet(f, T) = 0}
  <1>1. {} \in G
    BY SumEmpty
  <1>2. ASSUME NEW T \in SUBSET S, T # {}, \A x \in T : T \ {x} \in G PROVE T \in G
    <2>1. PICK x \in T : TRUE
      BY <1>2
    <2>2. IsFiniteSet(T) /\ f[x] = 0 /\ Integral(f, T)
      BY <2>1, FS_Subset DEF Integral
    <2>3. SumFunctionOnSet(f, T) = f[x] + SumFunctionOnSet(f, T \ {x})
      BY <2>1, <2>2, SumWithout
    <2>4. SumFunctionOnSet(f, T \ {x}) = 0
      BY <1>2, <2>1
    <2>5. QED
      BY <2>2, <2>3, <2>4
  <1> HIDE DEF G
  <1>3. S \in G
    BY <1>1, <1>2, SubsetInduction
  <1> USE DEF G
  <1>4. QED
    BY <1>3

\* A larger set of naturals has a larger sum.
LEMMA SumGrows ==
    ASSUME NEW f, NEW S, IsFiniteSet(S), \A x \in S : f[x] \in Nat, NEW R \in SUBSET S
    PROVE  /\ SumFunctionOnSet(f, R) \in Nat /\ SumFunctionOnSet(f, S) \in Nat
           /\ SumFunctionOnSet(f, R) <= SumFunctionOnSet(f, S)
  <1> DEFINE G == {T \in SUBSET S : /\ SumFunctionOnSet(f, T) \in Nat
                                    /\ \A x \in T : SumFunctionOnSet(f, T \ {x}) <= SumFunctionOnSet(f, T)}
  <1>1. ASSUME NEW T \in SUBSET S, T # {}, \A x \in T : SumFunctionOnSet(f, T \ {x}) \in Nat
        PROVE  T \in G
    <2>1. IsFiniteSet(T) /\ Integral(f, T)
      BY FS_Subset DEF Integral
    <2>2. \A x \in T : SumFunctionOnSet(f, T) = f[x] + SumFunctionOnSet(f, T \ {x})
      BY <2>1, SumWithout
    <2>3. \A x \in T : /\ SumFunctionOnSet(f, T) \in Nat
                       /\ SumFunctionOnSet(f, T \ {x}) <= SumFunctionOnSet(f, T)
      <3> SUFFICES ASSUME NEW x \in T
                   PROVE  /\ SumFunctionOnSet(f, T) \in Nat
                          /\ SumFunctionOnSet(f, T \ {x}) <= SumFunctionOnSet(f, T)
        OBVIOUS
      <3>1. f[x] \in Nat /\ SumFunctionOnSet(f, T \ {x}) \in Nat
        BY <1>1
      <3>2. SumFunctionOnSet(f, T) = f[x] + SumFunctionOnSet(f, T \ {x})
        BY <2>2
      <3>3. QED
        BY <3>1, <3>2
    <2>4. QED
      BY <1>1, <2>3
  <1>2. {} \in G
    BY SumEmpty
  <1>3. ASSUME NEW T \in SUBSET S PROVE T \in G
    <2>1. IsFiniteSet(T)
      BY FS_Subset
    <2>2. \A U \in SUBSET T : U # {} /\ (\A x \in U : U \ {x} \in G) => U \in G
      BY <1>1
    <2> HIDE DEF G
    <2>3. QED
      BY <1>2, <2>1, <2>2, SubsetInduction
  <1> DEFINE H == {T \in SUBSET S : SumFunctionOnSet(f, R) <= SumFunctionOnSet(f, R \union T)}
  <1>4. {} \in H
    <2>1. R \union {} = R /\ SumFunctionOnSet(f, R) \in Nat
      BY <1>3
    <2>2. QED
      BY <2>1
  <1>5. ASSUME NEW T \in SUBSET S, T # {}, \A x \in T : T \ {x} \in H PROVE T \in H
    <2>1. PICK x \in T : TRUE
      BY <1>5
    <2>2. SumFunctionOnSet(f, R) <= SumFunctionOnSet(f, R \union (T \ {x}))
      BY <1>5, <2>1
    <2>3. /\ SumFunctionOnSet(f, R) \in Nat /\ SumFunctionOnSet(f, R \union (T \ {x})) \in Nat
          /\ SumFunctionOnSet(f, R \union T) \in Nat
      BY <1>3
    <2>4. CASE x \in R
      <3>1. R \union (T \ {x}) = R \union T
        BY <2>1, <2>4
      <3>2. QED
        BY <2>2, <3>1
    <2>5. CASE x \notin R
      <3>1. R \union (T \ {x}) = (R \union T) \ {x} /\ x \in R \union T
        BY <2>1, <2>5
      <3>2. SumFunctionOnSet(f, (R \union T) \ {x}) <= SumFunctionOnSet(f, R \union T)
        BY <1>3, <3>1
      <3>3. QED
        BY <2>2, <2>3, <3>1, <3>2
    <2>6. QED
      BY <2>4, <2>5
  <1> HIDE DEF H
  <1>6. S \in H
    BY <1>4, <1>5, SubsetInduction
  <1> USE DEF H
  <1>7. R \union S = S
    OBVIOUS
  <1>8. QED
    BY <1>3, <1>6, <1>7

\* A sum over a set is the sums over a part of it and over the rest.
LEMMA SumSplit ==
    ASSUME NEW f, NEW S, IsFiniteSet(S), Integral(f, S), NEW R \in SUBSET S
    PROVE  SumFunctionOnSet(f, S) = SumFunctionOnSet(f, R) + SumFunctionOnSet(f, S \ R)
  <1> DEFINE G == {T \in SUBSET R : SumFunctionOnSet(f, S) = SumFunctionOnSet(f, T) + SumFunctionOnSet(f, S \ T)}
  <1>1. {} \in G
    <2>1. S \ {} = S /\ SumFunctionOnSet(f, {}) = 0 /\ SumFunctionOnSet(f, S) \in Int
      BY SumEmpty, SumType
    <2>2. QED
      BY <2>1
  <1>2. ASSUME NEW T \in SUBSET R, T # {}, \A x \in T : T \ {x} \in G PROVE T \in G
    <2>1. PICK x \in T : TRUE
      BY <1>2
    <2>2. SumFunctionOnSet(f, S) = SumFunctionOnSet(f, T \ {x}) + SumFunctionOnSet(f, S \ (T \ {x}))
      BY <1>2, <2>1
    <2>3. /\ IsFiniteSet(T) /\ IsFiniteSet(T \ {x}) /\ IsFiniteSet(S \ T)
          /\ Integral(f, T) /\ Integral(f, T \ {x}) /\ Integral(f, S \ T)
      BY FS_Subset DEF Integral
    <2>4. S \ (T \ {x}) = (S \ T) \union {x} /\ x \notin S \ T /\ f[x] \in Int
      BY <2>1 DEF Integral
    <2>5. Integral(f, (S \ T) \union {x})
      BY <2>3, <2>4 DEF Integral
    <2> HIDE DEF G
    <2>6. SumFunctionOnSet(f, (S \ T) \union {x}) = f[x] + SumFunctionOnSet(f, S \ T)
      BY <2>3, <2>4, <2>5, SumWith
    <2>7. SumFunctionOnSet(f, T) = f[x] + SumFunctionOnSet(f, T \ {x})
      BY <2>1, <2>3, SumWithout
    <2>8. /\ SumFunctionOnSet(f, T) \in Int /\ SumFunctionOnSet(f, T \ {x}) \in Int
          /\ SumFunctionOnSet(f, S \ T) \in Int
      <3>1. SumFunctionOnSet(f, T) \in Int
        BY <2>3, SumType
      <3>2. SumFunctionOnSet(f, T \ {x}) \in Int
        BY <2>3, SumType
      <3>3. SumFunctionOnSet(f, S \ T) \in Int
        BY <2>3, SumType
      <3>4. QED
        BY <3>1, <3>2, <3>3
    <2>9. SumFunctionOnSet(f, S) = SumFunctionOnSet(f, T) + SumFunctionOnSet(f, S \ T)
      <3>1. SumFunctionOnSet(f, S) = SumFunctionOnSet(f, T \ {x}) + SumFunctionOnSet(f, (S \ T) \union {x})
        BY <2>2, <2>4
      <3>2. f[x] \in Int
        BY <2>4
      <3>3. QED
        BY <2>6, <2>7, <2>8, <3>1, <3>2
    <2>10. QED
      BY <2>9 DEF G
  <1>3. IsFiniteSet(R)
    BY FS_Subset
  <1> HIDE DEF G
  <1>4. R \in G
    BY <1>1, <1>2, <1>3, SubsetInduction
  <1>5. QED
    BY <1>4 DEF G

\* The same terms under other names: b names each element of S anew.
Renames(b, S) == \A x, y \in S : b[x] = b[y] => x = y

LEMMA SumMoved ==
    ASSUME NEW f, NEW h, NEW S, IsFiniteSet(S), Integral(f, S),
           NEW b, Renames(b, S), \A x \in S : h[b[x]] = f[x]
    PROVE  SumFunctionOnSet(h, {b[x] : x \in S}) = SumFunctionOnSet(f, S)
  <1> DEFINE Image(T) == {b[x] : x \in T}
             G == {T \in SUBSET S : IsFiniteSet(Image(T)) /\ SumFunctionOnSet(h, Image(T)) = SumFunctionOnSet(f, T)}
  <1>1. {} \in G
    <2>1. Image({}) = {}
      OBVIOUS
    <2>2. IsFiniteSet(Image({})) /\ SumFunctionOnSet(h, Image({})) = SumFunctionOnSet(f, {})
      BY <2>1, SumEmpty, FS_EmptySet
    <2>3. QED
      BY <2>2
  <1>2. ASSUME NEW T \in SUBSET S, T # {}, \A x \in T : T \ {x} \in G PROVE T \in G
    <2>1. PICK x \in T : TRUE
      BY <1>2
    <2>2. IsFiniteSet(Image(T \ {x})) /\ SumFunctionOnSet(h, Image(T \ {x})) = SumFunctionOnSet(f, T \ {x})
      BY <1>2, <2>1
    <2>3. Image(T) = Image(T \ {x}) \union {b[x]} /\ b[x] \notin Image(T \ {x})
      BY <2>1 DEF Renames
    <2>4. IsFiniteSet(T) /\ Integral(f, T)
      BY FS_Subset DEF Integral
    <2>5. h[b[x]] = f[x] /\ f[x] \in Int
      BY <2>1, <2>4 DEF Integral
    <2>6. Integral(h, Image(T \ {x}) \union {b[x]})
      <3>1. \A z \in T : h[b[z]] \in Int
        BY <2>4 DEF Integral
      <3>2. \A y \in Image(T) : \E z \in T : y = b[z]
        OBVIOUS
      <3> HIDE DEF Image
      <3>3. QED
        BY <2>3, <3>1, <3>2 DEF Integral
    <2> HIDE DEF G, Image
    <2>7. IsFiniteSet(Image(T))
      <3> DEFINE Q == Image(T \ {x})
      <3>1. IsFiniteSet(Q) /\ Image(T) = Q \union {b[x]}
        BY <2>2, <2>3
      <3> HIDE DEF Q
      <3>2. IsFiniteSet(Q \union {b[x]})
        BY <3>1, FS_AddElement
      <3>3. QED
        BY <3>1, <3>2
    <2>8. SumFunctionOnSet(h, Image(T \ {x}) \union {b[x]}) = h[b[x]] + SumFunctionOnSet(h, Image(T \ {x}))
      BY <2>2, <2>3, <2>6, SumWith
    <2>9. SumFunctionOnSet(f, T) = f[x] + SumFunctionOnSet(f, T \ {x})
      BY <2>1, <2>4, SumWithout
    <2>10. SumFunctionOnSet(h, Image(T)) = SumFunctionOnSet(f, T)
      BY <2>2, <2>3, <2>5, <2>8, <2>9
    <2>11. QED
      BY <2>7, <2>10 DEF G
  <1> HIDE DEF G
  <1>3. S \in G
    BY <1>1, <1>2, SubsetInduction
  <1>4. QED
    BY <1>3 DEF G

-----------------------------------------------------------------------------
(* Folds.                                                                  *)

\* What a fold by the step function op makes of each set of a family.
Folded(g, op, base, D) ==
    g = [s \in D |-> IF s = {} THEN base ELSE op[<<AnyOf(s), g[s \ {AnyOf(s)}]>>]]

\* A fold of steps that stay in Y exists, and stays in Y.
LEMMA FoldExists ==
    ASSUME NEW S, IsFiniteSet(S), NEW Y, NEW base \in Y, NEW op \in [S \X Y -> Y]
    PROVE  \E g \in [SUBSET S -> Y] : Folded(g, op, base, SUBSET S)
  <1> DEFINE Value(h, s) == IF s = {} THEN base ELSE op[<<AnyOf(s), h[s \ {AnyOf(s)}]>>]
             Small(n) == {s \in SUBSET S : Cardinality(s) <= n}
             Fixed(h, D) == h \in [D -> Y] /\ \A s \in D : h[s] = Value(h, s)
             G == {n \in Nat : \E h : Fixed(h, Small(n))}
  <1>1. \A s \in SUBSET S : /\ IsFiniteSet(s) /\ Cardinality(s) \in Nat
                            /\ Cardinality(s) <= Cardinality(S)
    BY FS_Subset, FS_CardinalityType
  <1>2. \A s \in SUBSET S : s # {} =>
           /\ AnyOf(s) \in s /\ AnyOf(s) \in S /\ s \ {AnyOf(s)} \in SUBSET S
           /\ Cardinality(s \ {AnyOf(s)}) = Cardinality(s) - 1
    BY <1>1, FS_RemoveElement DEF AnyOf
  <1>3. 0 \in G
    <2> DEFINE h == [s \in Small(0) |-> base]
    <2>1. \A s \in Small(0) : s = {}
      BY <1>1, FS_EmptySet
    <2>2. Fixed(h, Small(0))
      BY <2>1
    <2>3. QED
      BY <2>2
  <1>4. ASSUME NEW n \in Nat, n \in G PROVE n + 1 \in G
    <2>1. PICK k : Fixed(k, Small(n))
      BY <1>4
    <2> DEFINE h == [s \in Small(n + 1) |-> Value(k, s)]
    <2>2. \A s \in Small(n) : h[s] = k[s]
      <3>1. Small(n) \subseteq Small(n + 1)
        BY <1>1
      <3> HIDE DEF Value, Small
      <3>2. QED
        BY <2>1, <3>1
    <2>3. \A s \in Small(n + 1) : s # {} => s \ {AnyOf(s)} \in Small(n)
      BY <1>1, <1>2
    <2>4. \A s \in Small(n + 1) : Value(k, s) = Value(h, s) /\ Value(k, s) \in Y
      <3> SUFFICES ASSUME NEW s \in Small(n + 1) PROVE Value(k, s) = Value(h, s) /\ Value(k, s) \in Y
        OBVIOUS
      <3>1. CASE s = {}
        BY <3>1
      <3>2. CASE s # {}
        <4>1. /\ h[s \ {AnyOf(s)}] = k[s \ {AnyOf(s)}]
              /\ k[s \ {AnyOf(s)}] \in Y
          <5> HIDE DEF h, Small, Value
          <5>1. QED
            BY <2>1, <2>2, <2>3, <3>2
        <4>2. AnyOf(s) \in S
          BY <1>2, <3>2
        <4> HIDE DEF h
        <4>3. QED
          BY <4>1, <4>2, <3>2
      <3>3. QED
        BY <3>1, <3>2
    <2>5. Fixed(h, Small(n + 1))
      <3> HIDE DEF Value, Small
      <3>1. QED
        BY <2>4
    <2>6. n + 1 \in Nat
      OBVIOUS
    <2> HIDE DEF h, Fixed, Small
    <2>7. QED
      BY <2>5, <2>6
  <1>5. Cardinality(S) \in G
    <2> HIDE DEF G
    <2>1. Nat \subseteq G
      BY <1>3, <1>4, NatSetInduction
    <2>2. QED
      BY <2>1, <1>1, FS_CardinalityType
  <1>6. Small(Cardinality(S)) = SUBSET S
    BY <1>1
  <1>7. PICK g : Fixed(g, SUBSET S)
    <2> HIDE DEF Fixed, Small
    <2>1. QED
      BY <1>5, <1>6
  <1>8. Folded(g, op, base, SUBSET S)
    BY <1>7 DEF Folded
  <1>9. QED
    BY <1>7, <1>8

=============================================================================
