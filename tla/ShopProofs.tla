----------------------------- MODULE ShopProofs -----------------------------
(***************************************************************************)
(* Proofs about Shop, for any products, documents, machines and bodies:    *)
(* the types of its rows, its machines and its drawers, and then its       *)
(* books: the bills, their credit notes, the goods and the money they      *)
(* move.  The sums over documents are finite because a step stores at most *)
(* one.  What SumFunction of the community modules returns comes first:    *)
(* induction is over sets of naturals and of subsets, from the library's   *)
(* least-element theorem WFMin, so no lemma takes an operator as a         *)
(* parameter.                                                              *)
(***************************************************************************)
EXTENDS Shop, Functions, FiniteSetTheorems, WellFoundedInduction, TLAPS

-----------------------------------------------------------------------------
(* Finite sums *)

\* A set of numbers that holds zero and every successor holds every natural.
LEMMA Upward ==
  ASSUME NEW P, 0 \in P, \A n \in Nat : n \in P => n + 1 \in P
  PROVE  Nat \subseteq P
<1> DEFINE T == {n \in Nat : n \notin P}
<1> SUFFICES ASSUME T # {} PROVE FALSE
  OBVIOUS
<1>1. PICK x \in T : \A y \in T : ~ (<<y, x>> \in OpToRel(<, Nat))
  <2>1. T \subseteq Nat
    OBVIOUS
  <2> HIDE DEF T
  <2> QED BY <2>1, NatLessThanWellFounded, WFMin, Zenon
<1>2. x \in Nat /\ x # 0 /\ x - 1 \in Nat /\ x - 1 < x
  OBVIOUS
<1>3. x - 1 \notin T
  BY <1>1, <1>2 DEF OpToRel
<1>4. (x - 1) + 1 \in P
  BY <1>2, <1>3
<1> QED BY <1>4, <1>2

\* The sum of f over the finite subsets of S, one picked element at a time.
Picked(s) == CHOOSE x \in s : TRUE
Unfolds(f, D, g) ==
    g = [s \in D |-> IF s = {} THEN 0 ELSE f[Picked(s)] + g[s \ {Picked(s)}]]

\* The community definition, unfolded once.
LEMMA SumDef ==
  ASSUME NEW f, NEW S
  PROVE  SumFunctionOnSet(f, S) = (CHOOSE g : Unfolds(f, SUBSET S, g))[S]
BY DEF SumFunctionOnSet, FoldFunctionOnSet, MapThenFoldSet, Picked, Unfolds

\* The picked element is one of the set.
LEMMA PickedIn == \A s : s # {} => Picked(s) \in s
BY DEF Picked

\* The recursive equation of the sum has a solution.
LEMMA UnfoldsExists ==
  ASSUME NEW f, NEW S, IsFiniteSet(S)
  PROVE  \E g : Unfolds(f, SUBSET S, g)
<1> DEFINE D(n) == {s \in SUBSET S : Cardinality(s) <= n}
           P == {n \in Nat : \E g : Unfolds(f, D(n), g)}
<1>0. \A s \in SUBSET S : IsFiniteSet(s) /\ Cardinality(s) \in Nat
  BY FS_Subset, FS_CardinalityType
<1>1. 0 \in P
  <2>1. D(0) = {{}}
    BY <1>0, FS_EmptySet
  <2> DEFINE g == [s \in D(0) |-> 0]
  <2>2. Unfolds(f, D(0), g)
    <3> HIDE DEF D
    <3> QED BY <2>1 DEF Unfolds
  <2> QED BY <2>2
<1>2. ASSUME NEW n \in Nat, n \in P PROVE n + 1 \in P
  <2>1. PICK g : Unfolds(f, D(n), g)
    BY <1>2
  <2> DEFINE h == [s \in D(n + 1) |-> IF s = {} THEN 0 ELSE f[Picked(s)] + g[s \ {Picked(s)}]]
  <2>2. \A s \in D(n + 1) : s # {} => s \ {Picked(s)} \in D(n)
    <3> SUFFICES ASSUME NEW s \in D(n + 1), s # {} PROVE s \ {Picked(s)} \in D(n)
      OBVIOUS
    <3>1. Cardinality(s \ {Picked(s)}) = Cardinality(s) - 1
      BY <1>0, FS_RemoveElement, PickedIn
    <3> QED BY <3>1, <1>0
  <2>3. D(n) \subseteq D(n + 1)
    BY <1>0
  <2>4. \A s \in D(n) : g[s] = h[s]
    <3> HIDE DEF D
    <3> QED BY <2>1, <2>3 DEF Unfolds
  <2>5. Unfolds(f, D(n + 1), h)
    <3> HIDE DEF D
    <3> QED BY <2>2, <2>4 DEF Unfolds
  <2> HIDE DEF h
  <2> QED BY <2>5
<1>3. Nat \subseteq P
  <2> HIDE DEF P
  <2> QED BY <1>1, <1>2, Upward
<1>4. Cardinality(S) \in P
  BY <1>3, <1>0
<1>5. D(Cardinality(S)) = SUBSET S
  BY FS_Subset, <1>0
<1> QED BY <1>4, <1>5

\* Two solutions agree wherever both are defined.
LEMMA UnfoldsAgree ==
  ASSUME NEW f, NEW S, IsFiniteSet(S), NEW T \in SUBSET S
  PROVE  \A g, h : Unfolds(f, SUBSET S, g) /\ Unfolds(f, SUBSET T, h) => g[T] = h[T]
<1> SUFFICES ASSUME NEW g, Unfolds(f, SUBSET S, g), NEW h, Unfolds(f, SUBSET T, h)
             PROVE  g[T] = h[T]
  OBVIOUS
<1> DEFINE P == {n \in Nat : \A s \in SUBSET T : Cardinality(s) <= n => g[s] = h[s]}
<1>0. \A s \in SUBSET T : s \in SUBSET S /\ IsFiniteSet(s) /\ Cardinality(s) \in Nat
  BY FS_Subset, FS_CardinalityType
<1>1. 0 \in P
  <2>1. \A s \in SUBSET T : Cardinality(s) <= 0 => s = {}
    BY <1>0, FS_EmptySet
  <2>2. g[{}] = h[{}]
    BY DEF Unfolds
  <2> QED BY <2>1, <2>2
<1>2. ASSUME NEW n \in Nat, n \in P PROVE n + 1 \in P
  <2> SUFFICES ASSUME NEW s \in SUBSET T, Cardinality(s) <= n + 1 PROVE g[s] = h[s]
    OBVIOUS
  <2>0. CASE s = {}
    BY <2>0 DEF Unfolds
  <2> SUFFICES ASSUME s # {} PROVE g[s] = h[s]
    BY <2>0
  <2>1. Cardinality(s \ {Picked(s)}) = Cardinality(s) - 1
    BY <1>0, FS_RemoveElement, PickedIn
  <2>2. g[s \ {Picked(s)}] = h[s \ {Picked(s)}]
    BY <1>0, <1>2, <2>1
  <2>3. g[s] = f[Picked(s)] + g[s \ {Picked(s)}]
    BY <1>0 DEF Unfolds
  <2>4. h[s] = f[Picked(s)] + h[s \ {Picked(s)}]
    BY DEF Unfolds
  <2> QED BY <2>2, <2>3, <2>4
<1>3. Nat \subseteq P
  <2> HIDE DEF P
  <2> QED BY <1>1, <1>2, Upward
<1> QED BY <1>0, <1>3

\* The sum is the picked term and the sum of the rest.
LEMMA SumUnfolds ==
  ASSUME NEW f, NEW S, IsFiniteSet(S), S # {}
  PROVE  SumFunctionOnSet(f, S) = f[Picked(S)] + SumFunctionOnSet(f, S \ {Picked(S)})
<1> DEFINE T == S \ {Picked(S)}
           g == CHOOSE u : Unfolds(f, SUBSET S, u)
           h == CHOOSE u : Unfolds(f, SUBSET T, u)
<1>1. IsFiniteSet(T)
  BY FS_Subset
<1>2. Unfolds(f, SUBSET S, g) /\ Unfolds(f, SUBSET T, h)
  BY <1>1, UnfoldsExists
<1>3. g[S] = f[Picked(S)] + g[T]
  BY <1>2 DEF Unfolds
<1>4. g[T] = h[T]
  <2>1. T \in SUBSET S
    OBVIOUS
  <2> HIDE DEF g, h, T
  <2> QED BY <1>2, <2>1, UnfoldsAgree
<1> QED BY <1>3, <1>4, SumDef

\* The sum of nothing.
LEMMA SumEmpty ==
  ASSUME NEW f
  PROVE  SumFunctionOnSet(f, {}) = 0
<1>1. \E g : Unfolds(f, SUBSET {}, g)
  BY UnfoldsExists, FS_EmptySet
<1> DEFINE h == CHOOSE u : Unfolds(f, SUBSET {}, u)
<1>2. Unfolds(f, SUBSET {}, h)
  BY <1>1
<1>3. h[{}] = 0
  BY <1>2 DEF Unfolds
<1> QED BY <1>3, SumDef

\* It does not matter which element is taken out, and a sum of integers is one.
LEMMA SumTakes ==
  ASSUME NEW S, IsFiniteSet(S), NEW f, \A x \in S : f[x] \in Int
  PROVE  /\ SumFunctionOnSet(f, S) \in Int
         /\ \A x \in S : SumFunctionOnSet(f, S) = f[x] + SumFunctionOnSet(f, S \ {x})
<1> DEFINE Sum(s) == SumFunctionOnSet(f, s)
           Good(s) == Sum(s) \in Int /\ \A x \in s : Sum(s) = f[x] + Sum(s \ {x})
           P == {n \in Nat : \A s \in SUBSET S : Cardinality(s) <= n => Good(s)}
<1>0. \A s \in SUBSET S : IsFiniteSet(s) /\ Cardinality(s) \in Nat
  BY FS_Subset, FS_CardinalityType
<1>1. 0 \in P
  <2>1. \A s \in SUBSET S : Cardinality(s) <= 0 => s = {}
    BY <1>0, FS_EmptySet
  <2>2. Good({})
    BY SumEmpty
  <2> QED BY <2>1, <2>2
<1>2. ASSUME NEW n \in Nat, n \in P PROVE n + 1 \in P
  <2> SUFFICES ASSUME NEW s \in SUBSET S, Cardinality(s) <= n + 1, s # {} PROVE Good(s)
    BY SumEmpty
  <2> DEFINE c == Picked(s)
  <2>0. c \in s
    BY PickedIn
  <2>1. \A x \in s : s \ {x} \in SUBSET S /\ Cardinality(s \ {x}) <= n
    <3> TAKE x \in s
    <3>1. Cardinality(s \ {x}) = Cardinality(s) - 1
      BY <1>0, FS_RemoveElement
    <3> QED BY <3>1, <1>0
  <2>2. \A x \in s : Good(s \ {x})
    BY <1>2, <2>1
  <2>3. Sum(s) = f[c] + Sum(s \ {c})
    BY <1>0, SumUnfolds
  <2> HIDE DEF c, Sum
  <2>4. Sum(s) \in Int
    BY <2>0, <2>2, <2>3
  <2>5. ASSUME NEW x \in s PROVE Sum(s) = f[x] + Sum(s \ {x})
    <3>1. CASE x = c
      BY <2>3, <3>1
    <3>2. CASE x # c
      <4>1. Sum(s \ {c}) = f[x] + Sum((s \ {c}) \ {x})
        BY <2>0, <2>2, <3>2
      <4>2. Sum(s \ {x}) = f[c] + Sum((s \ {x}) \ {c})
        BY <2>0, <2>2, <3>2
      <4>3. (s \ {c}) \ {x} = (s \ {x}) \ {c}
        OBVIOUS
      <4>4. Sum((s \ {c}) \ {x}) \in Int
        <5>1. (s \ {c}) \ {x} \in SUBSET S /\ Cardinality((s \ {c}) \ {x}) <= n
          <6>1. Cardinality((s \ {c}) \ {x}) = Cardinality(s \ {c}) - 1
            BY <1>0, <2>0, <2>1, <3>2, FS_RemoveElement
          <6> QED BY <6>1, <2>0, <2>1, <1>0
        <5> QED BY <5>1, <1>2
      <4>5. f[x] \in Int /\ f[c] \in Int
        BY <2>0
      <4>6. Sum(s) = f[c] + (f[x] + Sum((s \ {c}) \ {x}))
        BY <2>3, <4>1
      <4>7. Sum(s \ {x}) = f[c] + Sum((s \ {c}) \ {x})
        BY <4>2, <4>3
      <4>8. \A i, j, k \in Int : i + (j + k) = j + (i + k)
        OBVIOUS
      <4> QED BY <4>4, <4>5, <4>6, <4>7, <4>8
    <3> QED BY <3>1, <3>2
  <2> QED BY <2>4, <2>5
<1>3. Nat \subseteq P
  <2> HIDE DEF P
  <2> QED BY <1>1, <1>2, Upward
<1> QED BY <1>0, <1>3

-----------------------------------------------------------------------------
\* Induction over a finite set, one element at a time.
LEMMA AddedOneByOne ==
  ASSUME NEW S, IsFiniteSet(S), NEW Q, {} \in Q,
         \A s \in SUBSET S : \A x \in S \ s : s \in Q => s \cup {x} \in Q
  PROVE  S \in Q
<1> DEFINE P == {n \in Nat : \A s \in SUBSET S : Cardinality(s) <= n => s \in Q}
<1>0. \A s \in SUBSET S : IsFiniteSet(s) /\ Cardinality(s) \in Nat
  BY FS_Subset, FS_CardinalityType
<1>1. 0 \in P
  <2>1. \A s \in SUBSET S : Cardinality(s) <= 0 => s = {}
    BY <1>0, FS_EmptySet
  <2> QED BY <2>1
<1>2. ASSUME NEW n \in Nat, n \in P PROVE n + 1 \in P
  <2> SUFFICES ASSUME NEW s \in SUBSET S, Cardinality(s) <= n + 1, s # {} PROVE s \in Q
    OBVIOUS
  <2>1. PICK x \in s : TRUE
    OBVIOUS
  <2>2. Cardinality(s \ {x}) = Cardinality(s) - 1
    BY <1>0, FS_RemoveElement
  <2>3. s \ {x} \in Q
    BY <1>0, <1>2, <2>2
  <2>4. (s \ {x}) \cup {x} = s
    OBVIOUS
  <2> QED BY <2>3, <2>4
<1>3. Nat \subseteq P
  <2> HIDE DEF P
  <2> QED BY <1>1, <1>2, Upward
<1> QED BY <1>0, <1>3

\* Two functions that agree on a set have the same sum over it.
LEMMA SumAgrees ==
  ASSUME NEW S, IsFiniteSet(S), NEW f, NEW g,
         \A x \in S : f[x] \in Int /\ g[x] = f[x]
  PROVE  SumFunctionOnSet(f, S) = SumFunctionOnSet(g, S)
<1> DEFINE Q == {s \in SUBSET S : SumFunctionOnSet(f, s) = SumFunctionOnSet(g, s)}
<1>1. {} \in Q
  BY SumEmpty
<1>2. ASSUME NEW s \in SUBSET S, NEW x \in S \ s, s \in Q PROVE s \cup {x} \in Q
  <2>1. IsFiniteSet(s \cup {x}) /\ (s \cup {x}) \ {x} = s
    BY FS_Subset
  <2>2. SumFunctionOnSet(f, s \cup {x}) = f[x] + SumFunctionOnSet(f, s)
    BY <2>1, SumTakes
  <2>3. SumFunctionOnSet(g, s \cup {x}) = g[x] + SumFunctionOnSet(g, s)
    BY <2>1, SumTakes
  <2> QED BY <1>2, <2>2, <2>3
<1> HIDE DEF Q
<1>3. S \in Q
  BY <1>1, <1>2, AddedOneByOne
<1> QED BY <1>3 DEF Q

-----------------------------------------------------------------------------
(* Sums of functions. *)

\* A sum of integers is an integer.
LEMMA SumType ==
  ASSUME NEW S, IsFiniteSet(S), NEW f \in [S -> Int]
  PROVE  SumFunction(f) \in Int
BY SumTakes DEF SumFunction

\* The sum of a function with no terms.
LEMMA SumNothing ==
  ASSUME NEW f \in [{} -> Int]
  PROVE  SumFunction(f) = 0
BY SumEmpty DEF SumFunction

\* A new term adds what it is.
LEMMA SumGrows ==
  ASSUME NEW S, IsFiniteSet(S), NEW x, x \notin S,
         NEW f \in [S -> Int], NEW g \in [S \cup {x} -> Int],
         \A y \in S : g[y] = f[y]
  PROVE  SumFunction(g) = SumFunction(f) + g[x]
<1>1. IsFiniteSet(S \cup {x}) /\ (S \cup {x}) \ {x} = S
  BY FS_AddElement
<1>2. SumFunctionOnSet(g, S \cup {x}) = g[x] + SumFunctionOnSet(g, S)
  BY <1>1, SumTakes
<1>3. SumFunctionOnSet(f, S) = SumFunctionOnSet(g, S)
  BY SumAgrees
<1>4. SumFunctionOnSet(f, S) \in Int
  BY SumTakes
<1> QED BY <1>2, <1>3, <1>4 DEF SumFunction

\* Term by term no more, and so in all; the sums are equal only if the terms are.
LEMMA SumBounded ==
  ASSUME NEW S, IsFiniteSet(S), NEW f \in [S -> Int], NEW g \in [S -> Int],
         \A x \in S : f[x] <= g[x]
  PROVE  /\ SumFunction(f) <= SumFunction(g)
         /\ SumFunction(f) = SumFunction(g) => f = g
<1> DEFINE F(s) == SumFunctionOnSet(f, s)
           G(s) == SumFunctionOnSet(g, s)
           Q == {s \in SUBSET S : /\ F(s) \in Int /\ G(s) \in Int /\ F(s) <= G(s)
                                  /\ F(s) = G(s) => \A x \in s : f[x] = g[x]}
<1>1. {} \in Q
  BY SumEmpty
<1>2. ASSUME NEW s \in SUBSET S, NEW x \in S \ s, s \in Q PROVE s \cup {x} \in Q
  <2>1. IsFiniteSet(s \cup {x}) /\ (s \cup {x}) \ {x} = s
    BY FS_Subset
  <2>2. F(s \cup {x}) = f[x] + F(s)
    BY <2>1, SumTakes
  <2>3. G(s \cup {x}) = g[x] + G(s)
    BY <2>1, SumTakes
  <2> HIDE DEF F, G
  <2>4. f[x] \in Int /\ g[x] \in Int /\ f[x] <= g[x]
    OBVIOUS
  <2>5. F(s) \in Int /\ G(s) \in Int /\ F(s) <= G(s)
    BY <1>2
  <2>6. F(s \cup {x}) \in Int /\ G(s \cup {x}) \in Int /\ F(s \cup {x}) <= G(s \cup {x})
    BY <2>2, <2>3, <2>4, <2>5
  <2>7. F(s \cup {x}) = G(s \cup {x}) => f[x] = g[x] /\ F(s) = G(s)
    BY <2>2, <2>3, <2>4, <2>5
  <2> QED BY <1>2, <2>6, <2>7
<1> HIDE DEF Q
<1>3. S \in Q
  BY <1>1, <1>2, AddedOneByOne
<1> QED BY <1>3 DEF Q, SumFunction

\* The sum of sums.
LEMMA SumPlus ==
  ASSUME NEW S, IsFiniteSet(S), NEW f \in [S -> Int], NEW g \in [S -> Int],
         NEW h \in [S -> Int], \A x \in S : h[x] = f[x] + g[x]
  PROVE  SumFunction(h) = SumFunction(f) + SumFunction(g)
<1> DEFINE F(s) == SumFunctionOnSet(f, s)
           G(s) == SumFunctionOnSet(g, s)
           H(s) == SumFunctionOnSet(h, s)
           Q == {s \in SUBSET S : F(s) \in Int /\ G(s) \in Int /\ H(s) = F(s) + G(s)}
<1>1. {} \in Q
  BY SumEmpty
<1>2. ASSUME NEW s \in SUBSET S, NEW x \in S \ s, s \in Q PROVE s \cup {x} \in Q
  <2>1. IsFiniteSet(s \cup {x}) /\ (s \cup {x}) \ {x} = s
    BY FS_Subset
  <2>2. F(s \cup {x}) = f[x] + F(s)
    BY <2>1, SumTakes, SMTT(30)
  <2>3. G(s \cup {x}) = g[x] + G(s)
    BY <2>1, SumTakes
  <2>0. \A y \in s \cup {x} : h[y] \in Int
    OBVIOUS
  <2>4. H(s \cup {x}) = h[x] + H(s)
    BY <2>0, <2>1, SumTakes
  <2> HIDE DEF F, G, H
  <2>5. f[x] \in Int /\ g[x] \in Int /\ h[x] = f[x] + g[x]
    OBVIOUS
  <2> QED BY <1>2, <2>2, <2>3, <2>4, <2>5
<1> HIDE DEF Q
<1>3. S \in Q
  BY <1>1, <1>2, AddedOneByOne
<1> QED BY <1>3 DEF Q, SumFunction

\* A sum of nothings is nothing.
LEMMA SumZero ==
  ASSUME NEW S, IsFiniteSet(S), NEW z \in [S -> Int], \A x \in S : z[x] = 0
  PROVE  SumFunction(z) = 0
<1>1. \A x \in S : z[x] = z[x] + z[x]
  OBVIOUS
<1>2. SumFunction(z) = SumFunction(z) + SumFunction(z)
  BY <1>1, SumPlus
<1>3. SumFunction(z) \in Int
  BY SumType
<1>4. \A i \in Int : i = i + i => i = 0
  OBVIOUS
<1> HIDE DEF SumFunction
<1> QED BY <1>2, <1>3, <1>4

\* A sum of naturals is a natural.
LEMMA SumNat ==
  ASSUME NEW S, IsFiniteSet(S), NEW f \in [S -> Nat]
  PROVE  SumFunction(f) \in Nat
<1> DEFINE z == [x \in S |-> 0]
<1>1. f \in [S -> Int] /\ z \in [S -> Int] /\ \A x \in S : z[x] = 0 /\ z[x] <= f[x]
  OBVIOUS
<1> HIDE DEF z
<1>2. SumFunction(f) \in Int /\ SumFunction(z) <= SumFunction(f)
  BY <1>1, SumBounded, SumType
<1>3. SumFunction(z) = 0
  BY <1>1, SumZero
<1> QED BY <1>2, <1>3

\* One term changes, and the sum by as much.
LEMMA SumChanges ==
  ASSUME NEW S, IsFiniteSet(S), NEW x \in S,
         NEW f \in [S -> Int], NEW g \in [S -> Int],
         \A y \in S : y # x => g[y] = f[y]
  PROVE  SumFunction(g) = SumFunction(f) - f[x] + g[x]
<1>1. SumFunctionOnSet(g, S) = g[x] + SumFunctionOnSet(g, S \ {x})
  BY SumTakes
<1>2. SumFunctionOnSet(f, S) = f[x] + SumFunctionOnSet(f, S \ {x})
  BY SumTakes
<1>3. IsFiniteSet(S \ {x})
  BY FS_Subset
<1>4. SumFunctionOnSet(f, S \ {x}) = SumFunctionOnSet(g, S \ {x})
  <2>1. \A y \in S \ {x} : f[y] \in Int /\ g[y] = f[y]
    OBVIOUS
  <2> QED BY <1>3, <2>1, SumAgrees
<1>5. SumFunctionOnSet(f, S \ {x}) \in Int
  BY <1>3, SumTakes
<1> QED BY <1>1, <1>2, <1>4, <1>5 DEF SumFunction

\* A term of nothing adds nothing.
LEMMA SumSkips ==
  ASSUME NEW S, IsFiniteSet(S), NEW x, x \notin S,
         NEW f \in [S -> Int], NEW g \in [S \cup {x} -> Int],
         \A y \in S : g[y] = f[y], g[x] = 0
  PROVE  SumFunction(g) = SumFunction(f)
<1>1. SumFunction(g) = SumFunction(f) + g[x]
  BY SumGrows
<1>2. SumFunction(f) \in Int
  BY SumType
<1> QED BY <1>1, <1>2

\* Terms that are nothing may be left out.
LEMMA SumOver ==
  ASSUME NEW S, IsFiniteSet(S), NEW T \in SUBSET S,
         NEW f \in [S -> Int], NEW g \in [T -> Int],
         \A x \in S : f[x] = IF x \in T THEN g[x] ELSE 0
  PROVE  SumFunction(g) = SumFunction(f)
<1> DEFINE k(s) == [x \in s \cup T |-> IF x \in T THEN g[x] ELSE 0]
           Q == {s \in SUBSET S : SumFunction(k(s)) = SumFunction(g)}
<1>1. {} \in Q
  <2>1. k({}) = g
    OBVIOUS
  <2> QED BY <2>1
<1>2. ASSUME NEW s \in SUBSET S, NEW x \in S \ s, s \in Q PROVE s \cup {x} \in Q
  <2>1. CASE x \in T
    <3>1. k(s \cup {x}) = k(s)
      BY <2>1
    <3> QED BY <1>2, <3>1
  <2>2. CASE x \notin T
    <3>1. IsFiniteSet(s \cup T)
      BY FS_Subset
    <3>2. (s \cup {x}) \cup T = (s \cup T) \cup {x} /\ x \notin s \cup T
      BY <2>2
    <3>3. k(s) \in [s \cup T -> Int] /\ k(s \cup {x}) \in [(s \cup T) \cup {x} -> Int]
      BY <3>2
    <3>4. (\A y \in s \cup T : k(s \cup {x})[y] = k(s)[y]) /\ k(s \cup {x})[x] = 0
      BY <2>2
    <3> DEFINE u == k(s)
               v == k(s \cup {x})
               R == s \cup T
    <3>5. IsFiniteSet(R) /\ x \notin R /\ u \in [R -> Int] /\ v \in [R \cup {x} -> Int]
      BY <3>1, <3>2, <3>3
    <3>6. (\A y \in R : v[y] = u[y]) /\ v[x] = 0
      BY <3>4
    <3>7. SumFunction(v) = SumFunction(u)
      <4> HIDE DEF u, v, R
      <4> QED BY <3>5, <3>6, SumSkips
    <3> QED BY <1>2, <3>7
  <2> QED BY <2>1, <2>2
<1>3. S \in Q
  <2> HIDE DEF Q
  <2> QED BY <1>1, <1>2, AddedOneByOne
<1>4. k(S) = f
  OBVIOUS
<1> QED BY <1>3, <1>4

-----------------------------------------------------------------------------
(* The inductive invariant *)

\* A drawer that was closed has its count.
ClosedIsCounted ==
    \A h \in Stored(shifts) : shifts[h].closed => shifts[h].counted # Nil

IInv ==
    /\ GoodsTyped
    /\ DocumentsTyped
    /\ DrawersTyped
    /\ LedgersTyped
    /\ ClosedIsCounted
    /\ DrawersOrderly
    /\ NoDayLost

-----------------------------------------------------------------------------
(* Sums of quantities are quantities. *)

LEMMA LinesFinite == IsFiniteSet(Lines)
BY CatalogueAssumption, FS_Product DEF Lines

\* Any quantities: a body's, or what came back of a bill.
LEMMA ItemSums ==
  ASSUME NEW items \in Items
  PROVE  /\ \A p \in Products : QtyOf(items, p) \in Nat
         /\ Units(items) \in Nat
         /\ Worth(items) \in Nat
<1>1. ASSUME NEW p \in Products PROVE QtyOf(items, p) \in Nat
  <2> DEFINE f == [c \in Prices |-> items[<<p, c>>]]
  <2>1. f \in [Prices -> Nat]
    BY DEF Items, Lines
  <2>2. QtyOf(items, p) = SumFunction(f)
    BY DEF QtyOf, Total
  <2> HIDE DEF f
  <2> QED BY <2>1, <2>2, SumNat, CatalogueAssumption
<1>2. Units(items) \in Nat
  <2> DEFINE f == [l \in Lines |-> items[l]]
  <2>1. f \in [Lines -> Nat]
    BY DEF Items
  <2>2. Units(items) = SumFunction(f)
    BY DEF Units, Total
  <2> HIDE DEF f
  <2> QED BY <2>1, <2>2, SumNat, LinesFinite
<1>3. Worth(items) \in Nat
  <2> DEFINE f == [l \in Lines |-> items[l] * l[2]]
  <2>0. \A l \in Lines : items[l] \in Nat /\ l[2] \in Nat
    BY BodiesAssumption DEF Items, Lines
  <2>1. f \in [Lines -> Nat]
    BY <2>0
  <2>2. Worth(items) = SumFunction(f)
    BY DEF Worth, Total
  <2> HIDE DEF f
  <2> QED BY <2>1, <2>2, SumNat, LinesFinite
<1> QED BY <1>1, <1>2, <1>3

LEMMA OrderedQtyNat == \A f \in Forms, p \in Products : OrderedQty(f, p) \in Nat
<1> TAKE f \in Forms, p \in Products
<1> DEFINE I == {i \in DOMAIN f : f[i].part = p}
           g == [i \in I |-> f[i].qty]
<1> DEFINE Row == [part : Products, qty : Nat \ {0}, cost : Nat]
<1>1. f \in Seq(Row)
  BY BodiesAssumption DEF Form
<1>2. IsFiniteSet(DOMAIN f) /\ \A i \in DOMAIN f : f[i] \in Row
  <2> HIDE DEF Row
  <2> QED BY <1>1, FS_Interval
<1>3. IsFiniteSet(I)
  BY <1>2, FS_Subset
<1>4. g \in [I -> Nat]
  BY <1>2
<1>5. OrderedQty(f, p) = SumFunction(g)
  BY DEF OrderedQty, Total
<1> HIDE DEF I, g
<1> QED BY <1>3, <1>4, <1>5, SumNat

LEMMA Quantities ==
    /\ \A b \in Bills, p \in Products : QtyOf(b.items, p) \in Nat
    /\ \A n \in Notes, p \in Products : QtyOf(n.items, p) \in Nat
    /\ \A n \in Notes : Worth(n.items) \in Nat
    /\ \A f \in Forms, p \in Products : OrderedQty(f, p) \in Nat
<1>1. \A b \in Bills : b.items \in Items
  BY BodiesAssumption DEF Bill
<1>2. \A n \in Notes : n.items \in Items
  BY BodiesAssumption DEF Note
<1> QED BY <1>1, <1>2, ItemSums, OrderedQtyNat

-----------------------------------------------------------------------------
\* The operations, named one by one: the case split of every step proof below.
LEMMA Steps ==
  ASSUME [Next]_vars
  PROVE  \/ \E d \in Devices, s \in SaleIds, b \in Bills, override, offline \in Flags :
              CreateSale(d, s, b, override, offline)
         \/ \E d \in Devices, s \in SaleIds, offline \in Flags : VoidSale(d, s, offline)
         \/ \E d \in Devices, r \in ReturnIds, s \in SaleIds, n \in Notes :
              CreateReturn(d, r, s, n)
         \/ \E d \in Devices, p \in PaymentIds, m \in Mechanics, amount \in Amounts,
               method \in {CASH, TRANSFER}, allow \in Flags :
              CreatePayment(d, p, m, amount, method, allow)
         \/ \E d \in Devices, h \in ShiftIds, cash \in Amounts : OpenShift(d, h, cash)
         \/ \E d \in Devices, cash \in Amounts : CloseShift(d, cash)
         \/ \E d \in Devices, e \in EntryIds, type \in {"in", "out"},
               amount \in Amounts, offline \in Flags : AddEntry(d, e, type, amount, offline)
         \/ \E d \in Devices : IssueDevice(d) \/ EnrolDevice(d)
         \/ \E d \in Devices, pending \in Flags : ReportUnsynced(d, pending)
         \/ \E d \in Devices, cash \in Amounts \cup {Nil}, force \in Flags :
              RetireDevice(d, cash, force)
         \/ \E d, e \in Devices, force \in Flags : ReplaceDevice(d, e, force)
         \/ \E o \in OrderIds, f \in Forms : CreateOrder(o, f)
         \/ \E o \in OrderIds : ReceiveOrder(o) \/ CancelOrder(o) \/ DeleteOrder(o)
         \/ \E p \in Products, delta \in Deltas : AdjustStock(p, delta)
         \/ \E p \in Products, c \in Costs : EditCost(p, c)
         \/ \E p \in Products : DeleteProduct(p)
         \/ UNCHANGED vars
<1>1. CASE UNCHANGED vars
  BY <1>1
<1>2. CASE Stockroom
  BY <1>2 DEF Stockroom
<1>3. ASSUME NEW d \in Devices, Counter(d)
      PROVE  \/ \E s \in SaleIds, b \in Bills, override, offline \in Flags :
                  CreateSale(d, s, b, override, offline)
             \/ \E s \in SaleIds, offline \in Flags : VoidSale(d, s, offline)
             \/ \E r \in ReturnIds, s \in SaleIds, n \in Notes : CreateReturn(d, r, s, n)
             \/ \E p \in PaymentIds, m \in Mechanics, amount \in Amounts,
                   method \in {CASH, TRANSFER}, allow \in Flags :
                  CreatePayment(d, p, m, amount, method, allow)
  BY <1>3 DEF Counter
<1>4. ASSUME NEW d \in Devices, Drawer(d)
      PROVE  \/ \E h \in ShiftIds, cash \in Amounts : OpenShift(d, h, cash)
             \/ \E cash \in Amounts : CloseShift(d, cash)
             \/ \E e \in EntryIds, type \in {"in", "out"}, amount \in Amounts,
                   offline \in Flags : AddEntry(d, e, type, amount, offline)
  BY <1>4 DEF Drawer
<1>5. ASSUME NEW d \in Devices, Machine(d)
      PROVE  \/ IssueDevice(d) \/ EnrolDevice(d)
             \/ \E pending \in Flags : ReportUnsynced(d, pending)
             \/ \E cash \in Amounts \cup {Nil}, force \in Flags : RetireDevice(d, cash, force)
             \/ \E e \in Devices, force \in Flags : ReplaceDevice(d, e, force)
  BY <1>5 DEF Machine
<1>6. CASE \E d \in Devices : Counter(d)
  BY <1>6, <1>3
<1>7. CASE \E d \in Devices : Drawer(d)
  BY <1>7, <1>4
<1>8. CASE \E d \in Devices : Machine(d)
  BY <1>8, <1>5
<1> QED BY <1>1, <1>2, <1>6, <1>7, <1>8 DEF Next

LEMMA InitIInv == Init => IInv
<1> SUFFICES ASSUME Init PROVE IInv
  OBVIOUS
<1>1. GoodsTyped
  BY OpeningAssumption DEF Init, GoodsTyped
<1>2. DocumentsTyped
  BY DEF Init, DocumentsTyped
<1>3. DrawersTyped
  BY DEF Init, DrawersTyped, Stages
<1>4. LedgersTyped
  BY DEF Init, LedgersTyped
<1>5. Stored(shifts) = {} /\ \A d \in Devices : devices[d] = "absent"
  BY DEF Init, Stored
<1>6. ClosedIsCounted /\ NoDayLost
  BY <1>5 DEF ClosedIsCounted, NoDayLost
<1>7. DrawersOrderly
  BY <1>5 DEF DrawersOrderly, ActiveShifts
<1> QED BY <1>1, <1>2, <1>3, <1>4, <1>6, <1>7 DEF IInv

-----------------------------------------------------------------------------
(* The stock. *)

LEMMA GoodsStep ==
  ASSUME GoodsTyped, DocumentsTyped, [Next]_vars
  PROVE  GoodsTyped'
<1> USE OpeningAssumption
<1>1. ASSUME NEW d \in Devices, NEW s \in SaleIds, NEW b \in Bills,
             NEW override \in Flags, NEW offline \in Flags,
             CreateSale(d, s, b, override, offline)
      PROVE  GoodsTyped'
  <2>1. \A p \in Products : QtyOf(b.items, p) \in Nat
    BY Quantities
  <2>2. \A p \in Products : QtyOf(b.items, p) <= stock[p]
    BY <1>1, <2>1 DEF CreateSale, ExistingSale, SaleRow, Deducted, InStock, GoodsTyped
  <2>3. \A p \in Products : stock[p] - QtyOf(b.items, p) \in 0..MaxStock
    BY <2>1, <2>2 DEF GoodsTyped
  <2> QED BY <1>1, <2>3 DEF CreateSale, ExistingSale, SaleRow, Deducted, GoodsTyped
<1>2. ASSUME NEW items, \A p \in Products : QtyOf(items, p) \in Nat,
             Fits(items), stock' = Restored(items), live' = live, adjusted' = adjusted
      PROVE  GoodsTyped'
  <2>1. \A p \in Products : stock[p] + QtyOf(items, p) \in 0..MaxStock
    BY <1>2 DEF Fits, GoodsTyped
  <2> QED BY <1>2, <2>1 DEF Restored, GoodsTyped
<1>3. ASSUME NEW d \in Devices, NEW s \in SaleIds, NEW offline \in Flags,
             VoidSale(d, s, offline)
      PROVE  GoodsTyped'
  <2>1. sales[s].bill \in Bills
    BY <1>3 DEF VoidSale, DocumentsTyped, Sale
  <2>2. \A p \in Products : QtyOf(sales[s].bill.items, p) \in Nat
    BY <2>1, Quantities
  <2> QED BY <1>3, <2>2, <1>2 DEF VoidSale
<1>4. ASSUME NEW d \in Devices, NEW r \in ReturnIds, NEW s \in SaleIds, NEW n \in Notes,
             CreateReturn(d, r, s, n)
      PROVE  GoodsTyped'
  <2>1. \A p \in Products : QtyOf(n.items, p) \in Nat
    BY Quantities
  <2> QED BY <1>4, <2>1, <1>2 DEF CreateReturn, ExistingReturn, LockSale, NoteRow
<1>5. ASSUME NEW o \in OrderIds, ReceiveOrder(o)
      PROVE  GoodsTyped'
  <2> DEFINE f == orders[o].form
  <2>1. f \in Forms
    BY <1>5 DEF ReceiveOrder, LockPo, DocumentsTyped, Order
  <2>2. \A p \in Products : Taken(f)[p] \in Nat
    BY <2>1, Quantities DEF Taken
  <2>3. /\ \A p \in Products : stock[p] + Taken(f)[p] <= MaxStock
        /\ stock' = [p \in Products |-> stock[p] + Taken(f)[p]]
        /\ UNCHANGED <<live, adjusted>>
    BY <1>5 DEF ReceiveOrder, LockPo
  <2> HIDE DEF f
  <2>4. \A p \in Products : stock[p] + Taken(f)[p] \in 0..MaxStock
    BY <2>2, <2>3 DEF GoodsTyped
  <2> QED BY <2>3, <2>4 DEF GoodsTyped
<1>6. ASSUME NEW p \in Products, NEW delta \in Deltas, AdjustStock(p, delta)
      PROVE  GoodsTyped'
  BY <1>6, BodiesAssumption DEF AdjustStock, AtLeastZero, GoodsTyped
<1>7. ASSUME NEW p \in Products, DeleteProduct(p)
      PROVE  GoodsTyped'
  BY <1>7 DEF DeleteProduct, GoodsTyped
<1>8. ASSUME UNCHANGED <<stock, live, adjusted>>
      PROVE  GoodsTyped'
  BY <1>8 DEF GoodsTyped
<1>9. ASSUME UNCHANGED documents
      PROVE  GoodsTyped'
  BY <1>8, <1>9 DEF documents, goods
<1>10. ASSUME NEW d \in Devices, NEW cash \in Amounts, CloseShift(d, cash)
       PROVE  GoodsTyped'
  BY <1>10, <1>9 DEF CloseShift
<1> QED
  BY Steps, <1>1, <1>3, <1>4, <1>5, <1>6, <1>7, <1>8, <1>9, <1>10
     DEF goods, EditCost, CreatePayment, ExistingPayment, OpenShift, AddEntry, FlagOverdrawn,
         IssueDevice, EnrolDevice,
         ReportUnsynced, RetireDevice, ReplaceDevice, CreateOrder, CancelOrder, DeleteOrder,
         vars, LockPo

-----------------------------------------------------------------------------
(* The drawers. *)

\* What archiving and retiring do to the row of a drawer.
LEMMA ArchivedShift ==
  ASSUME DrawersTyped, NEW h \in Stored(shifts)
  PROVE  /\ h \in ShiftIds
         /\ shifts[h] \in Shift
         /\ Archived(h) \in Shift
         /\ Archived(h).device = shifts[h].device
         /\ Archived(h).start = shifts[h].start
         /\ Archived(h).active = FALSE
         /\ Archived(h).closed = shifts[h].closed
         /\ Archived(h).counted = shifts[h].counted
         /\ ~ shifts[h].closed => Archived(h).auto
<1>1. h \in ShiftIds /\ shifts[h] \in Shift
  BY DEF DrawersTyped, Stored
<1> QED BY <1>1 DEF Archived, Shift

LEMMA RetiredShiftRow ==
  ASSUME DrawersTyped, NEW h \in Stored(shifts), NEW cash \in Amounts \cup {Nil}
  PROVE  /\ RetiredShift(h, cash) \in Shift
         /\ RetiredShift(h, cash).device = shifts[h].device
         /\ RetiredShift(h, cash).start = shifts[h].start
         /\ RetiredShift(h, cash).active = FALSE
         /\ RetiredShift(h, cash).closed = TRUE
         /\ RetiredShift(h, cash).counted
               = IF shifts[h].closed THEN shifts[h].counted ELSE cash
<1>1. h \in ShiftIds /\ shifts[h] \in Shift
  BY DEF DrawersTyped, Stored
<1>2. CASE shifts[h].closed
  BY <1>1, <1>2 DEF RetiredShift, Shift
<1>3. CASE ~ shifts[h].closed
  BY <1>1, <1>3 DEF RetiredShift, Shift
<1> QED BY <1>2, <1>3

LEMMA ClosedShiftRow ==
  ASSUME DrawersTyped, NEW h \in Stored(shifts), NEW cash \in Amounts,
         NEW row, row = [shifts[h] EXCEPT !.closed = TRUE, !.counted = cash]
  PROVE  /\ row \in Shift
         /\ row.device = shifts[h].device
         /\ row.start = shifts[h].start
         /\ row.active = shifts[h].active
         /\ row.closed = TRUE
         /\ row.counted = cash
<1>1. h \in ShiftIds /\ shifts[h] \in Shift
  BY DEF DrawersTyped, Stored
<1> QED BY <1>1 DEF Shift

LEMMA DrawersStep ==
  ASSUME DrawersTyped, [Next]_vars
  PROVE  DrawersTyped'
<1>1. ASSUME NEW d \in Devices, NEW h \in ShiftIds, NEW cash \in Amounts,
             OpenShift(d, h, cash)
      PROVE  DrawersTyped'
  <2>1. [device |-> d, start |-> cash, active |-> TRUE, closed |-> FALSE,
         auto |-> FALSE, counted |-> Nil] \in Shift
    BY DEF Shift
  <2>2. \A x \in ActiveShifts(d) : Archived(x) \in Shift
    BY ArchivedShift DEF ActiveShifts
  <2>3. shifts' \in [ShiftIds -> Shift \cup {Nil}]
    BY <1>1, <2>1, <2>2 DEF OpenShift, DrawersTyped
  <2> QED BY <1>1, <2>3 DEF OpenShift, people, DrawersTyped
<1>2. ASSUME NEW d \in Devices, NEW cash \in Amounts, CloseShift(d, cash)
      PROVE  DrawersTyped'
  <2>1. PICK h \in ActiveShifts(d) :
           shifts' = [shifts EXCEPT ![h] = [shifts[h] EXCEPT !.closed = TRUE,
                                                             !.counted = cash]]
    BY <1>2 DEF CloseShift
  <2>2. [shifts[h] EXCEPT !.closed = TRUE, !.counted = cash] \in Shift
    BY ClosedShiftRow DEF ActiveShifts
  <2>3. shifts' \in [ShiftIds -> Shift \cup {Nil}]
    BY <2>1, <2>2 DEF DrawersTyped
  <2> QED BY <1>2, <2>3 DEF CloseShift, people, DrawersTyped
<1>3. ASSUME NEW d \in Devices, IssueDevice(d) \/ EnrolDevice(d)
      PROVE  DrawersTyped'
  BY <1>3 DEF IssueDevice, EnrolDevice, DrawersTyped, Stages
<1>4. ASSUME NEW d \in Devices, NEW pending \in Flags, ReportUnsynced(d, pending)
      PROVE  DrawersTyped'
  BY <1>4, BodiesAssumption DEF ReportUnsynced, DrawersTyped
<1>5. ASSUME NEW d \in Devices, NEW cash \in Amounts \cup {Nil}, NEW force \in Flags,
             RetireDevice(d, cash, force)
      PROVE  DrawersTyped'
  <2>1. \A x \in ActiveShifts(d) : RetiredShift(x, cash) \in Shift
    BY RetiredShiftRow DEF ActiveShifts
  <2>2. shifts' \in [ShiftIds -> Shift \cup {Nil}]
    BY <1>5, <2>1 DEF RetireDevice, DrawersTyped
  <2> QED BY <1>5, <2>2 DEF RetireDevice, DrawersTyped, Stages
<1>6. ASSUME NEW d \in Devices, NEW e \in Devices, NEW force \in Flags,
             ReplaceDevice(d, e, force)
      PROVE  DrawersTyped'
  <2>1. \A x \in ActiveShifts(d) : Archived(x) \in Shift
    BY ArchivedShift DEF ActiveShifts
  <2>2. shifts' \in [ShiftIds -> Shift \cup {Nil}]
    BY <1>6, <2>1 DEF ReplaceDevice, DrawersTyped
  <2> QED BY <1>6, <2>2 DEF ReplaceDevice, DrawersTyped, Stages
<1>7. ASSUME UNCHANGED <<shifts, people>>
      PROVE  DrawersTyped'
  BY <1>7 DEF people, DrawersTyped
<1> QED
  BY Steps, <1>1, <1>2, <1>3, <1>4, <1>5, <1>6, <1>7
     DEF CreateSale, ExistingSale, SaleRow, Deducted, VoidSale, CreateReturn,
         ExistingReturn, LockSale, NoteRow, CreatePayment, ExistingPayment, AddEntry, FlagOverdrawn,
         CreateOrder, ReceiveOrder, LockPo, CancelOrder, DeleteOrder, AdjustStock,
         EditCost, DeleteProduct, counters, vars

-----------------------------------------------------------------------------
(* The documents. *)

\* Math.round of a quotient is an integer.
LEMMA RoundedInt == \A n \in Int, d \in Nat : d > 0 => Rounded(n, d) \in Int
<1> TAKE n \in Int, d \in Nat
<1> HAVE d > 0
<1>1. 2 * n + d \in Int /\ 2 * d \in Int /\ 2 * d > 0
  OBVIOUS
<1> QED BY <1>1 DEF Rounded

\* A refund is an integer of satang.
LEMMA RefundInt == \A b \in Bills, n \in Notes : RefundAmount(b, n.items) \in Int
<1> TAKE b \in Bills, n \in Notes
<1>1. b.discount \in Nat /\ b.subtotal \in Nat
  BY BodiesAssumption DEF Bill
<1>2. Worth(n.items) \in Nat
  BY Quantities
<1>3. Worth(n.items) * b.discount \in Int
  BY <1>1, <1>2
<1>4. b.subtotal > 0 => Rounded(Worth(n.items) * b.discount, b.subtotal) \in Int
  BY <1>1, <1>3, RoundedInt
<1> QED BY <1>2, <1>4 DEF RefundAmount

\* The row a credit note is stored as.
LEMMA ReturnRow ==
  ASSUME DocumentsTyped, DrawersTyped, NEW d \in Devices, NEW s \in SaleIds,
         NEW n \in Notes, sales[s] \in Sale, NEW h \in Stamps(d, n.method)
  PROVE  [sale |-> s, note |-> n, total |-> RefundAmount(sales[s].bill, n.items),
          shift |-> h] \in Return
<1>1. sales[s].bill \in Bills
  BY DEF Sale
<1>2. RefundAmount(sales[s].bill, n.items) \in Int
  BY <1>1, RefundInt
<1>3. h \in ShiftIds \cup {Nil}
  BY DEF Stamps, OpenShifts, Stored, DrawersTyped
<1> QED BY <1>2, <1>3 DEF Return

LEMMA DocumentsStep ==
  ASSUME DocumentsTyped, DrawersTyped, [Next]_vars
  PROVE  DocumentsTyped'
<1> USE BodiesAssumption
<1>1. \A d \in Devices : OpenShifts(d) \subseteq ShiftIds /\ ActiveShifts(d) \subseteq ShiftIds
  BY DEF OpenShifts, ActiveShifts, Stored, DrawersTyped
<1>2. ASSUME NEW d \in Devices, NEW s \in SaleIds, NEW b \in Bills,
             NEW override \in Flags, NEW offline \in Flags,
             CreateSale(d, s, b, override, offline)
      PROVE  DocumentsTyped'
  <2>1. PICK h \in OpenShifts(d) :
           sales' = [sales EXCEPT ![s] = [bill |-> b, points |-> PointsFor(b.total),
                                          shift |-> h, offline |-> offline,
                                          voided |-> FALSE]]
    BY <1>2 DEF CreateSale, ExistingSale, SaleRow, Deducted
  <2>2. b.total \in Nat
    BY DEF Bill
  <2>3. PointsFor(b.total) \in Nat
    BY <2>2, OpeningAssumption DEF PointsFor
  <2>4. [bill |-> b, points |-> PointsFor(b.total), shift |-> h, offline |-> offline,
         voided |-> FALSE] \in Sale
    BY <1>1, <2>3 DEF Sale
  <2> QED BY <1>2, <2>1, <2>4 DEF CreateSale, ExistingSale, SaleRow, Deducted,
                                  DocumentsTyped
<1>3. ASSUME NEW d \in Devices, NEW s \in SaleIds, NEW offline \in Flags,
             VoidSale(d, s, offline)
      PROVE  DocumentsTyped'
  <2>1. sales[s] \in Sale
    BY <1>3 DEF VoidSale, DocumentsTyped
  <2>2. [sales[s] EXCEPT !.voided = TRUE] \in Sale
    BY <2>1 DEF Sale
  <2> QED BY <1>3, <2>2 DEF VoidSale, DocumentsTyped
<1>4. ASSUME NEW d \in Devices, NEW r \in ReturnIds, NEW s \in SaleIds, NEW n \in Notes,
             CreateReturn(d, r, s, n)
      PROVE  DocumentsTyped'
  <2> DEFINE refund == RefundAmount(sales[s].bill, n.items)
             whole == ReturnedWhole(s, n.items)
  <2>1. sales[s] \in Sale
    BY <1>4 DEF CreateReturn, ExistingReturn, LockSale, NoteRow, DocumentsTyped
  <2>2. whole \in BOOLEAN
    BY DEF ReturnedWhole, Sold
  <2>4. PICK h \in Stamps(d, n.method) :
           returns' = [returns EXCEPT ![r] =
                          [sale |-> s, note |-> n, total |-> refund, shift |-> h]]
    BY <1>4 DEF CreateReturn, ExistingReturn, LockSale, NoteRow
  <2>5. [sale |-> s, note |-> n, total |-> refund, shift |-> h] \in Return
    BY <2>1, ReturnRow
  <2>6. sales' = [sales EXCEPT ![s] = [sales[s] EXCEPT !.voided = whole]]
    BY <1>4 DEF CreateReturn, ExistingReturn, LockSale, NoteRow
  <2> HIDE DEF refund, whole
  <2>8. [sales[s] EXCEPT !.voided = whole] \in Sale
    BY <2>1, <2>2 DEF Sale
  <2> QED BY <1>4, <2>4, <2>5, <2>6, <2>8 DEF CreateReturn, ExistingReturn, LockSale,
                                              NoteRow, DocumentsTyped
<1>5. ASSUME NEW d \in Devices, NEW p \in PaymentIds, NEW m \in Mechanics,
             NEW amount \in Amounts, NEW method \in {CASH, TRANSFER}, NEW allow \in Flags,
             CreatePayment(d, p, m, amount, method, allow)
      PROVE  DocumentsTyped'
  <2>1. PICK h \in OpenShifts(d) :
           payments' = [payments EXCEPT ![p] = [mech |-> m, amount |-> amount,
                                                method |-> method, shift |-> h]]
    BY <1>5 DEF CreatePayment, ExistingPayment
  <2>2. [mech |-> m, amount |-> amount, method |-> method, shift |-> h] \in Payment
    BY <1>1 DEF Payment
  <2> QED BY <1>5, <2>1, <2>2 DEF CreatePayment, ExistingPayment, documents, DocumentsTyped
<1>6. ASSUME NEW d \in Devices, NEW e \in EntryIds, NEW type \in {"in", "out"},
             NEW amount \in Amounts, NEW offline \in Flags,
             AddEntry(d, e, type, amount, offline)
      PROVE  DocumentsTyped'
  <2>1. PICK h \in ActiveShifts(d) :
           entries' = [entries EXCEPT ![e] = [shift |-> h, type |-> type,
                                              amount |-> amount]]
    BY <1>6 DEF AddEntry, FlagOverdrawn
  <2>2. [shift |-> h, type |-> type, amount |-> amount] \in Entry
    BY <1>1 DEF Entry
  <2> QED BY <1>6, <2>1, <2>2 DEF AddEntry, FlagOverdrawn, documents, DocumentsTyped
<1>7. ASSUME NEW o \in OrderIds, NEW f \in Forms, CreateOrder(o, f)
      PROVE  DocumentsTyped'
  <2>1. [form |-> f, status |-> "open", taken |-> [p \in Products |-> 0]] \in Order
    BY DEF Order
  <2> QED BY <1>7, <2>1 DEF CreateOrder, counters, DocumentsTyped
<1>8. ASSUME NEW o \in OrderIds, ReceiveOrder(o)
      PROVE  DocumentsTyped'
  <2> DEFINE f == orders[o].form
  <2>1. f \in Forms
    BY <1>8 DEF ReceiveOrder, LockPo, DocumentsTyped, Order
  <2>2. Taken(f) \in [Products -> Nat]
    BY <2>1, Quantities DEF Taken
  <2>3. orders' = [orders EXCEPT ![o] = [form |-> f, status |-> "received",
                                         taken |-> Taken(f)]]
    BY <1>8 DEF ReceiveOrder, LockPo
  <2>4. [form |-> f, status |-> "received", taken |-> Taken(f)] \in Order
    BY <2>1, <2>2 DEF Order
  <2> QED BY <1>8, <2>3, <2>4 DEF ReceiveOrder, LockPo, counters, DocumentsTyped
<1>9. ASSUME NEW o \in OrderIds, CancelOrder(o)
      PROVE  DocumentsTyped'
  <2>1. orders[o] \in Order
    BY <1>9 DEF CancelOrder, DocumentsTyped, LockPo
  <2>2. [orders[o] EXCEPT !.status = "cancelled"] \in Order
    BY <2>1 DEF Order
  <2> QED BY <1>9, <2>2 DEF CancelOrder, counters, DocumentsTyped, LockPo
<1>10. ASSUME NEW o \in OrderIds, DeleteOrder(o)
       PROVE  DocumentsTyped'
  BY <1>10 DEF DeleteOrder, counters, DocumentsTyped, LockPo
<1>11. ASSUME UNCHANGED <<sales, returns, payments, entries, orders>>
       PROVE  DocumentsTyped'
  BY <1>11 DEF DocumentsTyped
<1>12. ASSUME NEW d \in Devices, NEW cash \in Amounts, CloseShift(d, cash)
       PROVE  DocumentsTyped'
  BY <1>12, <1>11 DEF CloseShift, documents
<1> QED
  BY Steps, <1>2, <1>3, <1>4, <1>5, <1>6, <1>7, <1>8, <1>9, <1>10, <1>11, <1>12
     DEF OpenShift, IssueDevice, EnrolDevice, ReportUnsynced, RetireDevice, ReplaceDevice,
         AdjustStock, EditCost, DeleteProduct, documents, counters, vars

-----------------------------------------------------------------------------
(* The ledgers: every path that subtracts is floored at zero. *)

LEMMA AtLeastZeroNat == \A x \in Int : AtLeastZero(x) \in Nat
BY DEF AtLeastZero

LEMMA LedgersStep ==
  ASSUME LedgersTyped, DocumentsTyped, [Next]_vars
  PROVE  LedgersTyped'
<1> USE BodiesAssumption, AtLeastZeroNat
<1> DEFINE MechRow == [tab : Nat, sales : Nat, discount : Nat, markup : Nat]
           CustRow == [points : Nat, spend : Nat]
<1>1. ASSUME NEW b \in Bills
      PROVE  /\ b.total \in Nat
             /\ PointsFor(b.total) \in Nat
             /\ OnTab(b) \in Nat
             /\ DiscountOf(b) \in Nat
             /\ MarkupOf(b) \in Nat
             /\ b.discount \in Nat
             /\ b.subtotal \in Nat
  <2>1. b \in Bill
    OBVIOUS
  <2>2. b.total \in Nat /\ b.delta \in Int /\ b.discount \in Nat /\ b.subtotal \in Nat
    BY <2>1 DEF Bill
  <2>3. PointsFor(b.total) \in Nat
    BY <2>2, OpeningAssumption DEF PointsFor
  <2> QED BY <2>2, <2>3 DEF OnTab, DiscountOf, MarkupOf
<1>2. \A m \in Mechanics : /\ mechanics[m].tab \in Nat
                           /\ mechanics[m].sales \in Nat
                           /\ mechanics[m].discount \in Nat
                           /\ mechanics[m].markup \in Nat
  BY DEF LedgersTyped
<1>3. \A c \in Customers : customers[c].points \in Nat /\ customers[c].spend \in Nat
  BY DEF LedgersTyped
<1>4. ASSUME NEW d \in Devices, NEW s \in SaleIds, NEW b \in Bills,
             NEW override \in Flags, NEW offline \in Flags,
             CreateSale(d, s, b, override, offline)
      PROVE  LedgersTyped'
  <2>1. ApplyCustomer(b) \in [Customers -> CustRow]
    BY <1>1, <1>3 DEF ApplyCustomer, LedgersTyped
  <2>2. ApplyMechanic(b) \in [Mechanics -> MechRow]
    BY <1>1, <1>2 DEF ApplyMechanic, LedgersTyped
  <2>3. overrides' \subseteq SaleIds
    BY <1>4 DEF CreateSale, ExistingSale, SaleRow, Deducted, RecordOverride, LedgersTyped
  <2> QED BY <1>4, <2>1, <2>2, <2>3 DEF CreateSale, ExistingSale, SaleRow, Deducted,
                                        LedgersTyped
<1>5. ASSUME NEW d \in Devices, NEW s \in SaleIds, NEW offline \in Flags,
             VoidSale(d, s, offline)
      PROVE  LedgersTyped'
  <2>1. sales[s].bill \in Bills /\ sales[s].points \in Nat
    BY <1>5 DEF VoidSale, DocumentsTyped, Sale
  <2>2. UndoCustomer(sales[s]) \in [Customers -> CustRow]
    BY <1>1, <1>3, <2>1 DEF UndoCustomer, LedgersTyped
  <2>3. UndoMechanic(sales[s]) \in [Mechanics -> MechRow]
    BY <1>1, <1>2, <2>1 DEF UndoMechanic, LedgersTyped
  <2> QED BY <1>5, <2>2, <2>3 DEF VoidSale, LedgersTyped
<1>6. ASSUME NEW d \in Devices, NEW r \in ReturnIds, NEW s \in SaleIds, NEW n \in Notes,
             CreateReturn(d, r, s, n)
      PROVE  LedgersTyped'
  <2> DEFINE x == sales[s]
             b == x.bill
             refund == RefundAmount(b, n.items)
  <2>1. b \in Bills /\ x.points \in Nat
    BY <1>6 DEF CreateReturn, ExistingReturn, LockSale, NoteRow, DocumentsTyped, Sale
  <2>2. refund \in Int
    BY <2>1, RefundInt
  <2>3. /\ customers' = ReverseCustomer(x, refund)
        /\ mechanics' = ReverseMechanic(b, n, refund)
        /\ overrides' = overrides
    BY <1>6 DEF CreateReturn, ExistingReturn, LockSale, NoteRow
  <2> HIDE DEF refund, b
  <2>4. PointsToReverse(x, refund) \in Int
    <3>1. x.bill.total \in Nat /\ PointsFor(x.bill.total) \in Nat
      BY <1>1, <2>1 DEF b
    <3> DEFINE base == IF x.points > 0 THEN x.points ELSE PointsFor(x.bill.total)
    <3>2. base * refund \in Int
      BY <2>1, <2>2, <3>1
    <3>3. x.bill.total > 0 => (base * refund) \div x.bill.total \in Int
      BY <3>1, <3>2
    <3> QED BY <3>3 DEF PointsToReverse
  <2>5. ReverseCustomer(x, refund) \in [Customers -> CustRow]
    BY <1>3, <2>2, <2>4 DEF ReverseCustomer, LedgersTyped
  <2>6. \A amount \in Nat : InProportion(b, amount, refund) \in Int
    <3> TAKE amount \in Nat
    <3>1. amount * refund \in Int /\ b.total \in Nat
      BY <1>1, <2>1, <2>2
    <3> QED BY <3>1, RoundedInt DEF InProportion
  <2>7. /\ OffTab(b, n, refund) \in Int
        /\ InProportion(b, DiscountOf(b), refund) \in Int
        /\ InProportion(b, MarkupOf(b), refund) \in Int
    BY <1>1, <2>1, <2>2, <2>6 DEF OffTab
  <2>8. ReverseMechanic(b, n, refund) \in [Mechanics -> MechRow]
    BY <1>2, <2>2, <2>7, OpeningAssumption DEF ReverseMechanic, DiscountBase, LedgersTyped
  <2> QED BY <2>3, <2>5, <2>8 DEF LedgersTyped
<1>7. ASSUME NEW d \in Devices, NEW p \in PaymentIds, NEW m \in Mechanics,
             NEW amount \in Amounts, NEW method \in {CASH, TRANSFER}, NEW allow \in Flags,
             CreatePayment(d, p, m, amount, method, allow)
      PROVE  LedgersTyped'
  <2>1. AtLeastZero(mechanics[m].tab - amount) \in Nat
    <3>1. amount \in Nat /\ mechanics[m].tab \in Nat
      BY <1>2
    <3>2. mechanics[m].tab - amount \in Int
      BY <3>1
    <3> QED BY <3>2
  <2>2. [mechanics[m] EXCEPT !.tab = AtLeastZero(mechanics[m].tab - amount)] \in MechRow
    BY <2>1 DEF LedgersTyped
  <2> QED BY <1>7, <2>2 DEF CreatePayment, ExistingPayment, Reduced, LedgersTyped
<1>8. ASSUME UNCHANGED <<ledgers, overrides>>
      PROVE  LedgersTyped'
  BY <1>8 DEF ledgers, LedgersTyped
<1>9. ASSUME NEW d \in Devices, NEW cash \in Amounts, CloseShift(d, cash)
      PROVE  LedgersTyped'
  BY <1>9, <1>8 DEF CloseShift
<1> QED
  BY Steps, <1>4, <1>5, <1>6, <1>7, <1>8, <1>9
     DEF OpenShift, AddEntry, FlagOverdrawn, IssueDevice, EnrolDevice, ReportUnsynced, RetireDevice,
         ReplaceDevice, CreateOrder, ReceiveOrder, LockPo, CancelOrder, DeleteOrder,
         AdjustStock, EditCost, DeleteProduct, counters, vars

-----------------------------------------------------------------------------
(* One live machine, one current drawer. *)

\* A step that leaves the drawers and the machines alone keeps their order.
LEMMA OrderlyStutter ==
  ASSUME DrawersOrderly, UNCHANGED <<shifts, devices>>
  PROVE  DrawersOrderly'
BY DEF DrawersOrderly, ActiveShifts, Stored

LEMMA OrderlyStep ==
  ASSUME DrawersTyped, DrawersOrderly, [Next]_vars
  PROVE  DrawersOrderly'
<1> DEFINE Single(c) == \A g, h \in ActiveShifts(c) : g = h
           Idle(c) == devices[c] # "enrolled" => ActiveShifts(c) = {}
           Alone == \A c, e \in Devices :
               {devices[c], devices[e]} \subseteq {"issued", "enrolled"} => c = e
<1>0. \A c \in Devices : \A x \in ActiveShifts(c) : x \in Stored(shifts) /\ x \in ShiftIds
  BY DEF ActiveShifts, Stored, DrawersTyped
<1>1. ASSUME NEW d \in Devices, NEW h \in ShiftIds, NEW cash \in Amounts,
             OpenShift(d, h, cash)
      PROVE  DrawersOrderly'
  <2>1. /\ devices[d] = "enrolled"
        /\ shifts[h] = Nil
        /\ devices' = devices
        /\ \A x \in ShiftIds : shifts'[x] =
              IF x = h
              THEN [device |-> d, start |-> cash, active |-> TRUE,
                    closed |-> FALSE, auto |-> FALSE, counted |-> Nil]
              ELSE IF x \in ActiveShifts(d) THEN Archived(x) ELSE shifts[x]
        /\ DOMAIN shifts' = ShiftIds
    BY <1>1 DEF OpenShift, people
  <2>2. \A x \in ActiveShifts(d) : Archived(x).active = FALSE
    BY <1>0, ArchivedShift
  <2>3. ActiveShifts(d)' \subseteq {h}
    <3> SUFFICES ASSUME NEW x \in ActiveShifts(d)', x # h
                 PROVE  FALSE
      OBVIOUS
    <3>1. x \in ShiftIds /\ shifts'[x] # Nil /\ shifts'[x].device = d /\ shifts'[x].active
      BY <2>1 DEF ActiveShifts, Stored
    <3>2. CASE x \in ActiveShifts(d)
      BY <2>1, <2>2, <3>1, <3>2
    <3>3. CASE x \notin ActiveShifts(d)
      BY <2>1, <3>1, <3>3 DEF ActiveShifts, Stored, DrawersTyped
    <3> QED BY <3>2, <3>3
  <2>4. \A c \in Devices \ {d} : ActiveShifts(c)' \subseteq ActiveShifts(c)
    <3> SUFFICES ASSUME NEW c \in Devices \ {d}, NEW x \in ActiveShifts(c)'
                 PROVE  x \in ActiveShifts(c)
      OBVIOUS
    <3>1. x \in ShiftIds /\ shifts'[x] # Nil /\ shifts'[x].device = c /\ shifts'[x].active
      BY <2>1 DEF ActiveShifts, Stored
    <3>2. x # h
      BY <2>1, <3>1
    <3>3. x \notin ActiveShifts(d)
      BY <2>1, <2>2, <3>1, <3>2
    <3> QED BY <2>1, <3>1, <3>2, <3>3 DEF ActiveShifts, Stored, DrawersTyped
  <2>5. \A c \in Devices : Single(c)' /\ Idle(c)'
    BY <2>1, <2>3, <2>4 DEF DrawersOrderly
  <2> QED BY <2>1, <2>5 DEF DrawersOrderly
<1>2. ASSUME NEW d \in Devices, NEW cash \in Amounts, CloseShift(d, cash)
      PROVE  DrawersOrderly'
  <2>1. PICK h \in ActiveShifts(d) :
           /\ shifts' = [shifts EXCEPT ![h] = [shifts[h] EXCEPT !.closed = TRUE,
                                                                !.counted = cash]]
           /\ devices' = devices
    BY <1>2 DEF CloseShift, people
  <2> DEFINE row == [shifts[h] EXCEPT !.closed = TRUE, !.counted = cash]
  <2>2. row.device = shifts[h].device /\ row.active = shifts[h].active
    <3>1. shifts[h] \in Shift
      BY DEF ActiveShifts, Stored, DrawersTyped
    <3> QED BY <3>1 DEF Shift
  <2>3. DOMAIN shifts' = ShiftIds /\ \A x \in ShiftIds :
           shifts'[x] = IF x = h THEN row ELSE shifts[x]
    BY <2>1 DEF DrawersTyped
  <2> HIDE DEF row
  <2>4. \A c \in Devices : ActiveShifts(c)' \subseteq ActiveShifts(c)
    BY <1>0, <2>2, <2>3 DEF ActiveShifts, Stored, DrawersTyped
  <2>5. \A c \in Devices : Single(c)' /\ Idle(c)'
    BY <2>1, <2>4 DEF DrawersOrderly
  <2> QED BY <2>1, <2>5 DEF DrawersOrderly
<1>3. ASSUME NEW d \in Devices, NEW x, UNCHANGED shifts,
             devices' = [devices EXCEPT ![d] = x], devices[d] # "enrolled",
             \/ /\ devices[d] = "issued" /\ x = "enrolled"
             \/ x = "issued" /\ \A e \in Devices : devices[e] \in {"absent", "retired"}
      PROVE  DrawersOrderly'
  <2>1. \A c \in Devices : ActiveShifts(c)' = ActiveShifts(c)
    BY <1>3 DEF ActiveShifts, Stored
  <2>2. \A c \in Devices : devices'[c] = IF c = d THEN x ELSE devices[c]
    BY <1>3 DEF DrawersTyped
  <2>3. \A c \in Devices : Single(c)' /\ Idle(c)'
    BY <1>3, <2>1, <2>2 DEF DrawersOrderly
  <2>4. Alone'
    BY <1>3, <2>2 DEF DrawersOrderly
  <2> QED BY <2>3, <2>4 DEF DrawersOrderly
<1>4. ASSUME NEW d \in Devices, IssueDevice(d) \/ EnrolDevice(d)
      PROVE  DrawersOrderly'
  <2>1. CASE IssueDevice(d)
    BY <2>1, <1>3 DEF IssueDevice
  <2>2. CASE EnrolDevice(d)
    BY <2>2, <1>3 DEF EnrolDevice
  <2> QED BY <1>4, <2>1, <2>2
<1>5. ASSUME NEW d \in Devices, NEW cash \in Amounts \cup {Nil}, NEW force \in Flags,
             RetireDevice(d, cash, force)
      PROVE  DrawersOrderly'
  <2>1. \A x \in ActiveShifts(d) : RetiredShift(x, cash).active = FALSE
    BY <1>0, RetiredShiftRow
  <2>2. shifts' = [x \in ShiftIds |->
                     IF x \in ActiveShifts(d) THEN RetiredShift(x, cash) ELSE shifts[x]]
    BY <1>5 DEF RetireDevice
  <2>3. /\ ActiveShifts(d)' = {}
        /\ \A c \in Devices \ {d} : ActiveShifts(c)' \subseteq ActiveShifts(c)
    BY <2>1, <2>2 DEF ActiveShifts, Stored, DrawersTyped
  <2>4. \A c \in Devices : devices'[c] = IF c = d THEN "retired" ELSE devices[c]
    BY <1>5 DEF RetireDevice, DrawersTyped
  <2>5. \A c \in Devices : Single(c)' /\ Idle(c)'
    BY <2>3, <2>4 DEF DrawersOrderly
  <2>6. Alone'
    BY <2>4 DEF DrawersOrderly
  <2> QED BY <2>5, <2>6 DEF DrawersOrderly
<1>7. ASSUME NEW d \in Devices, NEW e \in Devices, NEW force \in Flags,
             ReplaceDevice(d, e, force)
      PROVE  DrawersOrderly'
  <2>1. \A x \in ActiveShifts(d) : Archived(x).active = FALSE
    BY <1>0, ArchivedShift
  <2>2. shifts' = [x \in ShiftIds |->
                     IF x \in ActiveShifts(d) THEN Archived(x) ELSE shifts[x]]
    BY <1>7 DEF ReplaceDevice
  <2>3. /\ ActiveShifts(d)' = {}
        /\ \A c \in Devices \ {d} : ActiveShifts(c)' \subseteq ActiveShifts(c)
    BY <2>1, <2>2 DEF ActiveShifts, Stored, DrawersTyped
  <2>4. devices[d] = "enrolled" /\ devices[e] = "absent" /\ d # e
    BY <1>7 DEF ReplaceDevice
  <2>5. \A c \in Devices : devices'[c] = IF c = d THEN "retired"
                                         ELSE IF c = e THEN "issued" ELSE devices[c]
    BY <1>7, <2>4 DEF ReplaceDevice, DrawersTyped
  <2>6. \A c \in Devices \ {d} : devices[c] \notin {"issued", "enrolled"}
    BY <2>4 DEF DrawersOrderly
  <2>7. \A c \in Devices : Single(c)' /\ Idle(c)'
    BY <2>3, <2>4, <2>5 DEF DrawersOrderly
  <2>8. Alone'
    BY <2>5, <2>6
  <2> QED BY <2>7, <2>8 DEF DrawersOrderly
<1> QED
  BY Steps, OrderlyStutter, <1>1, <1>2, <1>4, <1>5, <1>7
     DEF CreateSale, ExistingSale, SaleRow, Deducted, VoidSale, CreateReturn,
         ExistingReturn, LockSale, NoteRow, CreatePayment, ExistingPayment, AddEntry, FlagOverdrawn,
         ReportUnsynced, CreateOrder, ReceiveOrder, LockPo, CancelOrder, DeleteOrder,
         AdjustStock, EditCost, DeleteProduct, people, counters, vars

-----------------------------------------------------------------------------
(* No day is lost. *)

Told(h) == <<"shift_uncounted", h>> \in reviews

\* What ClosedIsCounted and NoDayLost say of one drawer.
Accounted(h) ==
    /\ shifts[h].closed => shifts[h].counted # Nil
    /\ ~ shifts[h].active =>
          \/ shifts[h].closed /\ shifts[h].counted # Nil
          \/ shifts[h].auto /\ Told(h)

LEMMA AccountedAll ==
  ClosedIsCounted /\ NoDayLost <=> \A h \in Stored(shifts) : Accounted(h)
<1>1. (\A h \in Stored(shifts) : Accounted(h)) => ClosedIsCounted
  BY DEF ClosedIsCounted, Accounted
<1>2. (\A h \in Stored(shifts) : Accounted(h)) => NoDayLost
  BY DEF NoDayLost, Accounted, Told
<1>3. ClosedIsCounted /\ NoDayLost => \A h \in Stored(shifts) : Accounted(h)
  BY DEF ClosedIsCounted, NoDayLost, Accounted, Told
<1> QED BY <1>1, <1>2, <1>3

LEMMA CountStep ==
  ASSUME DrawersTyped, ClosedIsCounted, NoDayLost, [Next]_vars
  PROVE  ClosedIsCounted' /\ NoDayLost'
<1>0. \A h \in Stored(shifts) : Accounted(h) /\ h \in ShiftIds
  BY AccountedAll DEF Stored, DrawersTyped
<1> SUFFICES \A h \in Stored(shifts)' : Accounted(h)'
  <2>1. ClosedIsCounted' /\ NoDayLost' <=> \A h \in Stored(shifts)' : Accounted(h)'
    BY DEF ClosedIsCounted, NoDayLost, Accounted, Told
  <2> QED BY <2>1
\* A drawer left as it was, when no item of the owner is taken away.
<1>1. ASSUME reviews \subseteq reviews',
             NEW h \in Stored(shifts), shifts'[h] = shifts[h]
      PROVE  Accounted(h)'
  BY <1>0, <1>1 DEF Accounted, Told
<1>2. ASSUME reviews \subseteq reviews', UNCHANGED shifts
      PROVE  \A h \in Stored(shifts)' : Accounted(h)'
  BY <1>1, <1>2 DEF Stored
\* An archived drawer: it was counted, or the owner is told.
<1>3. ASSUME NEW d \in Devices, NEW h \in ActiveShifts(d),
             Uncounted(ActiveShifts(d)) \subseteq reviews', shifts'[h] = Archived(h)
      PROVE  Accounted(h)'
  <2>1. h \in Stored(shifts)
    BY DEF ActiveShifts
  <2>2. /\ Archived(h).active = FALSE
        /\ Archived(h).closed = shifts[h].closed
        /\ Archived(h).counted = shifts[h].counted
        /\ ~ shifts[h].closed => Archived(h).auto
    BY <2>1, ArchivedShift
  <2>3. ~ shifts[h].closed => Told(h)'
    BY <1>3 DEF Uncounted, Told
  <2>4. shifts[h].closed => shifts[h].counted # Nil
    BY <1>0, <2>1 DEF Accounted
  <2>5. CASE shifts[h].closed
    BY <1>3, <2>2, <2>4, <2>5 DEF Accounted
  <2>6. CASE ~ shifts[h].closed
    BY <1>3, <2>2, <2>3, <2>6 DEF Accounted
  <2> QED BY <2>5, <2>6
<1>4. ASSUME NEW d \in Devices, NEW h \in ShiftIds, NEW cash \in Amounts,
             OpenShift(d, h, cash)
      PROVE  \A x \in Stored(shifts)' : Accounted(x)'
  <2>1. /\ reviews \subseteq reviews'
        /\ Uncounted(ActiveShifts(d)) \subseteq reviews'
        /\ DOMAIN shifts' = ShiftIds
    BY <1>4 DEF OpenShift
  <2> SUFFICES ASSUME NEW x \in Stored(shifts)'
               PROVE  Accounted(x)'
    OBVIOUS
  <2>2. x \in ShiftIds /\ shifts'[x] # Nil
    BY <2>1 DEF Stored
  <2>3. CASE x = h
    BY <1>4, <2>3 DEF OpenShift, Accounted
  <2>4. CASE x # h /\ x \in ActiveShifts(d)
    BY <1>3, <1>4, <2>1, <2>2, <2>4 DEF OpenShift
  <2>5. CASE x # h /\ x \notin ActiveShifts(d)
    <3>1. shifts'[x] = shifts[x] /\ x \in Stored(shifts)
      BY <1>4, <2>2, <2>5 DEF OpenShift, Stored, DrawersTyped
    <3> QED BY <1>1, <2>1, <3>1
  <2> QED BY <2>3, <2>4, <2>5
<1>5. ASSUME NEW d \in Devices, NEW cash \in Amounts, CloseShift(d, cash)
      PROVE  \A x \in Stored(shifts)' : Accounted(x)'
  <2>1. PICK h \in ActiveShifts(d) :
           /\ shifts' = [shifts EXCEPT ![h] = [shifts[h] EXCEPT !.closed = TRUE,
                                                                !.counted = cash]]
           /\ reviews' = reviews
    BY <1>5 DEF CloseShift
  <2> SUFFICES ASSUME NEW x \in Stored(shifts)'
               PROVE  Accounted(x)'
    OBVIOUS
  <2>2. x \in ShiftIds /\ shifts'[x] # Nil
    BY <2>1 DEF Stored, DrawersTyped
  <2>3. CASE x = h
    <3>1. shifts[h] \in Shift /\ shifts[h].active /\ h \in ShiftIds
      BY DEF ActiveShifts, Stored, DrawersTyped
    <3>2. shifts'[h] = [shifts[h] EXCEPT !.closed = TRUE, !.counted = cash]
      BY <2>1, <3>1 DEF DrawersTyped
    <3>3. shifts'[h].active /\ shifts'[h].counted = cash
      BY <3>1, <3>2 DEF Shift
    <3>4. cash # Nil
      BY NilAssumption
    <3> QED BY <2>3, <3>3, <3>4 DEF Accounted
  <2>4. CASE x # h
    <3>1. shifts'[x] = shifts[x] /\ x \in Stored(shifts)
      BY <2>1, <2>2, <2>4 DEF Stored, DrawersTyped
    <3> QED BY <1>1, <2>1, <3>1
  <2> QED BY <2>3, <2>4
<1>6. ASSUME NEW d \in Devices, NEW cash \in Amounts \cup {Nil}, NEW force \in Flags,
             RetireDevice(d, cash, force)
      PROVE  \A x \in Stored(shifts)' : Accounted(x)'
  <2>1. reviews \subseteq reviews' /\ DOMAIN shifts' = ShiftIds
    BY <1>6 DEF RetireDevice
  <2> SUFFICES ASSUME NEW x \in Stored(shifts)'
               PROVE  Accounted(x)'
    OBVIOUS
  <2>2. x \in ShiftIds /\ shifts'[x] # Nil
    BY <2>1 DEF Stored
  <2>3. CASE x \in ActiveShifts(d)
    <3>1. x \in Stored(shifts)
      BY <2>3 DEF ActiveShifts
    <3>2. shifts'[x] = RetiredShift(x, cash)
      BY <1>6, <2>2, <2>3 DEF RetireDevice
    <3>3. /\ RetiredShift(x, cash).closed = TRUE
          /\ RetiredShift(x, cash).counted
                = IF shifts[x].closed THEN shifts[x].counted ELSE cash
      BY <3>1, RetiredShiftRow
    <3>4. ~ shifts[x].closed => cash # Nil
      BY <1>6, <2>3 DEF RetireDevice, ActiveShifts, OpenShifts
    <3>5. shifts[x].closed => shifts[x].counted # Nil
      BY <1>0, <3>1 DEF Accounted
    <3>6. RetiredShift(x, cash).counted # Nil
      BY <3>3, <3>4, <3>5
    <3> QED BY <3>2, <3>3, <3>6 DEF Accounted
  <2>4. CASE x \notin ActiveShifts(d)
    <3>1. shifts'[x] = shifts[x] /\ x \in Stored(shifts)
      BY <1>6, <2>2, <2>4 DEF RetireDevice, Stored, DrawersTyped
    <3> QED BY <1>1, <2>1, <3>1
  <2> QED BY <2>3, <2>4
<1>7. ASSUME NEW d \in Devices, NEW e \in Devices, NEW force \in Flags,
             ReplaceDevice(d, e, force)
      PROVE  \A x \in Stored(shifts)' : Accounted(x)'
  <2>1. /\ reviews \subseteq reviews'
        /\ Uncounted(ActiveShifts(d)) \subseteq reviews'
        /\ DOMAIN shifts' = ShiftIds
    BY <1>7 DEF ReplaceDevice
  <2> SUFFICES ASSUME NEW x \in Stored(shifts)'
               PROVE  Accounted(x)'
    OBVIOUS
  <2>2. x \in ShiftIds /\ shifts'[x] # Nil
    BY <2>1 DEF Stored
  <2>3. CASE x \in ActiveShifts(d)
    BY <1>3, <1>7, <2>1, <2>2, <2>3 DEF ReplaceDevice
  <2>4. CASE x \notin ActiveShifts(d)
    <3>1. shifts'[x] = shifts[x] /\ x \in Stored(shifts)
      BY <1>7, <2>2, <2>4 DEF ReplaceDevice, Stored, DrawersTyped
    <3> QED BY <1>1, <2>1, <3>1
  <2> QED BY <2>3, <2>4
<1>8. ASSUME NEW d \in Devices, NEW s \in SaleIds, NEW b \in Bills,
             NEW override \in Flags, NEW offline \in Flags,
             CreateSale(d, s, b, override, offline)
      PROVE  \A x \in Stored(shifts)' : Accounted(x)'
  <2>1. reviews \subseteq reviews' /\ UNCHANGED shifts
    BY <1>8 DEF CreateSale, ExistingSale, SaleRow, Deducted, RecordOverride
  <2> QED BY <1>2, <2>1
<1>9. ASSUME NEW d \in Devices, NEW s \in SaleIds, NEW offline \in Flags,
             VoidSale(d, s, offline)
      PROVE  \A x \in Stored(shifts)' : Accounted(x)'
  <2>1. reviews \subseteq reviews' /\ UNCHANGED shifts
    BY <1>9 DEF VoidSale, FlagOfflineVoid
  <2> QED BY <1>2, <2>1
<1>10. ASSUME NEW d \in Devices, NEW e \in EntryIds, NEW type \in {"in", "out"},
              NEW amount \in Amounts, NEW offline \in Flags,
              AddEntry(d, e, type, amount, offline)
       PROVE  \A x \in Stored(shifts)' : Accounted(x)'
  <2>1. reviews \subseteq reviews' /\ UNCHANGED shifts
    BY <1>10 DEF AddEntry, FlagOverdrawn
  <2> QED BY <1>2, <2>1
<1>11. ASSUME UNCHANGED <<shifts, reviews>>
       PROVE  \A x \in Stored(shifts)' : Accounted(x)'
  BY <1>2, <1>11
<1> QED
  BY Steps, <1>4, <1>5, <1>6, <1>7, <1>8, <1>9, <1>10, <1>11
     DEF CreateReturn, ExistingReturn, LockSale, NoteRow, CreatePayment, ExistingPayment,
         IssueDevice, EnrolDevice, ReportUnsynced, CreateOrder, ReceiveOrder, LockPo,
         CancelOrder, DeleteOrder, AdjustStock, EditCost, DeleteProduct, counters, vars

-----------------------------------------------------------------------------
(* A counted drawer never changes. *)

\* The four parts of what a drawer took.
SalesOf(h) == {x \in Stored(sales) : sales[x].shift = h}
PaymentsOf(h) == {x \in Stored(payments) : payments[x].shift = h}
ReturnsOf(h) == {x \in Stored(returns) : returns[x].shift = h}
EntriesOf(h) == {x \in Stored(entries) : entries[x].shift = h}

CashOfSale(s) == IF sales[s].bill.pay = CASH /\ CountedSale(s)
                 THEN sales[s].bill.total ELSE 0
CashOfPayment(p) == IF payments[p].method = CASH THEN payments[p].amount ELSE 0
CashOfReturn(r) == IF returns[r].note.method = CASH THEN returns[r].total ELSE 0
CashOfEntry(e) == IF entries[e].type = "in" THEN entries[e].amount
                                            ELSE - entries[e].amount

\* A drawer none of whose documents changes its cash, and whose row keeps its
\* float and its count, is as it was.
LEMMA SameDrawer ==
  ASSUME NEW h,
         SalesOf(h)' = SalesOf(h),
         \A s \in SalesOf(h) : CashOfSale(s)' = CashOfSale(s),
         PaymentsOf(h)' = PaymentsOf(h),
         \A p \in PaymentsOf(h) : CashOfPayment(p)' = CashOfPayment(p),
         ReturnsOf(h)' = ReturnsOf(h),
         \A r \in ReturnsOf(h) : CashOfReturn(r)' = CashOfReturn(r),
         EntriesOf(h)' = EntriesOf(h),
         \A e \in EntriesOf(h) : CashOfEntry(e)' = CashOfEntry(e),
         shifts'[h].start = shifts[h].start
  PROVE  Takings(h)' = Takings(h) /\ ExpectedCash(h)' = ExpectedCash(h)
<1> DEFINE sold == [s \in SalesOf(h) |-> CashOfSale(s)]
           paid == [p \in PaymentsOf(h) |-> CashOfPayment(p)]
           refunded == [r \in ReturnsOf(h) |-> CashOfReturn(r)]
           moved == [e \in EntriesOf(h) |-> CashOfEntry(e)]
<1>1. Takings(h) = [sold |-> sold, paid |-> paid, refunded |-> refunded, moved |-> moved]
  BY DEF Takings, SalesOf, PaymentsOf, ReturnsOf, EntriesOf,
         CashOfSale, CashOfPayment, CashOfReturn, CashOfEntry
<1>2. Takings(h)' = [sold |-> sold', paid |-> paid', refunded |-> refunded', moved |-> moved']
  BY DEF Takings, SalesOf, PaymentsOf, ReturnsOf, EntriesOf,
         CashOfSale, CashOfPayment, CashOfReturn, CashOfEntry
<1>3. sold' = sold
  OBVIOUS
<1>4. paid' = paid
  OBVIOUS
<1>5. refunded' = refunded
  OBVIOUS
<1>6. moved' = moved
  OBVIOUS
<1>7. Takings(h)' = Takings(h)
  BY <1>1, <1>2, <1>3, <1>4, <1>5, <1>6
<1>8. ExpectedCash(h)' = ExpectedCash(h)
  BY <1>7 DEF ExpectedCash
<1> QED BY <1>7, <1>8

\* A drawer that is counted or archived: no handler finds it open.
Shut(h) == h \in Stored(shifts) /\ (shifts[h].closed \/ ~ shifts[h].active)

LEMMA ShutNotOpen ==
  ASSUME NEW h, Shut(h), NEW d
  PROVE  h \notin OpenShifts(d)
BY DEF Shut, OpenShifts

RowKept(h) == /\ shifts'[h].start = shifts[h].start
              /\ shifts'[h].counted = shifts[h].counted

SalesKept(h) == /\ SalesOf(h)' = SalesOf(h)
                /\ \A s \in SalesOf(h) : CashOfSale(s)' = CashOfSale(s)

PaymentsKept(h) == /\ PaymentsOf(h)' = PaymentsOf(h)
                   /\ \A p \in PaymentsOf(h) : CashOfPayment(p)' = CashOfPayment(p)

ReturnsKept(h) == /\ ReturnsOf(h)' = ReturnsOf(h)
                  /\ \A r \in ReturnsOf(h) : CashOfReturn(r)' = CashOfReturn(r)

EntriesKept(h) == /\ EntriesOf(h)' = EntriesOf(h)
                  /\ \A e \in EntriesOf(h) : CashOfEntry(e)' = CashOfEntry(e)

LEMMA RowStep ==
  ASSUME DrawersTyped, [Next]_vars, NEW h, Shut(h)
  PROVE  RowKept(h)
<1>0. h \in Stored(shifts) /\ h \in ShiftIds /\ shifts[h] # Nil /\ shifts[h] \in Shift
  BY DEF Shut, Stored, DrawersTyped
<1>1. Archived(h).start = shifts[h].start /\ Archived(h).counted = shifts[h].counted
  BY <1>0, ArchivedShift
<1>2. ASSUME NEW d \in Devices, NEW g \in ShiftIds, NEW cash \in Amounts,
             OpenShift(d, g, cash)
      PROVE  RowKept(h)
  <2>1. shifts'[h] = IF h \in ActiveShifts(d) THEN Archived(h) ELSE shifts[h]
    BY <1>0, <1>2 DEF OpenShift
  <2> QED BY <1>1, <2>1 DEF RowKept
<1>3. ASSUME NEW d \in Devices, NEW cash \in Amounts, CloseShift(d, cash)
      PROVE  RowKept(h)
  <2>1. PICK g \in ActiveShifts(d) :
           /\ ~ shifts[g].closed
           /\ shifts' = [shifts EXCEPT ![g] = [shifts[g] EXCEPT !.closed = TRUE,
                                                                !.counted = cash]]
    BY <1>3 DEF CloseShift
  <2>2. g # h
    BY <2>1 DEF ActiveShifts, Shut
  <2> QED BY <1>0, <2>1, <2>2 DEF RowKept, DrawersTyped
<1>4. ASSUME NEW d \in Devices, NEW cash \in Amounts \cup {Nil}, NEW force \in Flags,
             RetireDevice(d, cash, force)
      PROVE  RowKept(h)
  <2>1. shifts'[h] = IF h \in ActiveShifts(d) THEN RetiredShift(h, cash) ELSE shifts[h]
    BY <1>0, <1>4 DEF RetireDevice
  <2>2. CASE h \in ActiveShifts(d)
    <3>1. shifts[h].closed
      BY <2>2 DEF ActiveShifts, Shut
    <3>2. /\ RetiredShift(h, cash).start = shifts[h].start
          /\ RetiredShift(h, cash).counted = shifts[h].counted
      BY <1>0, <3>1, RetiredShiftRow
    <3> QED BY <2>1, <2>2, <3>2 DEF RowKept
  <2>3. CASE h \notin ActiveShifts(d)
    BY <2>1, <2>3 DEF RowKept
  <2> QED BY <2>2, <2>3
<1>5. ASSUME NEW d \in Devices, NEW e \in Devices, NEW force \in Flags,
             ReplaceDevice(d, e, force)
      PROVE  RowKept(h)
  <2>1. shifts'[h] = IF h \in ActiveShifts(d) THEN Archived(h) ELSE shifts[h]
    BY <1>0, <1>5 DEF ReplaceDevice
  <2> QED BY <1>1, <2>1 DEF RowKept
<1>6. ASSUME UNCHANGED shifts
      PROVE  RowKept(h)
  BY <1>6 DEF RowKept
<1> QED
  BY Steps, <1>2, <1>3, <1>4, <1>5, <1>6
     DEF CreateSale, ExistingSale, SaleRow, Deducted, VoidSale, CreateReturn,
         ExistingReturn, LockSale, NoteRow, CreatePayment, ExistingPayment, AddEntry, FlagOverdrawn,
         IssueDevice, EnrolDevice, ReportUnsynced, CreateOrder, ReceiveOrder, LockPo,
         CancelOrder, DeleteOrder, AdjustStock, EditCost, DeleteProduct, counters, vars

LEMMA PaymentsKeptStep ==
  ASSUME DocumentsTyped, [Next]_vars, NEW h, Shut(h)
  PROVE  PaymentsKept(h)
<1>1. ASSUME NEW d \in Devices, NEW p \in PaymentIds, NEW m \in Mechanics,
             NEW amount \in Amounts, NEW method \in {CASH, TRANSFER}, NEW allow \in Flags,
             CreatePayment(d, p, m, amount, method, allow)
      PROVE  PaymentsKept(h)
  <2>1. payments[p] = Nil
    BY <1>1 DEF CreatePayment, ExistingPayment
  <2>2. PICK g \in OpenShifts(d) :
           payments' = [payments EXCEPT ![p] = [mech |-> m, amount |-> amount,
                                                method |-> method, shift |-> g]]
    BY <1>1 DEF CreatePayment, ExistingPayment
  <2>3. g # h
    BY <2>2, ShutNotOpen
  <2>4. DOMAIN payments = PaymentIds /\ DOMAIN payments' = PaymentIds
    BY <2>2 DEF DocumentsTyped
  <2>5. payments'[p].shift = g /\ \A x \in PaymentIds \ {p} : payments'[x] = payments[x]
    BY <2>2, <2>4
  <2>6. p \notin PaymentsOf(h) /\ p \notin PaymentsOf(h)'
    BY <2>1, <2>3, <2>5 DEF PaymentsOf, Stored
  <2>7. PaymentsOf(h)' = PaymentsOf(h)
    BY <2>4, <2>5, <2>6 DEF PaymentsOf, Stored
  <2>8. \A x \in PaymentsOf(h) : payments'[x] = payments[x]
    BY <2>4, <2>5, <2>6 DEF PaymentsOf, Stored
  <2> QED BY <2>7, <2>8 DEF PaymentsKept, CashOfPayment
<1>2. ASSUME UNCHANGED payments
      PROVE  PaymentsKept(h)
  BY <1>2 DEF PaymentsKept, PaymentsOf, Stored, CashOfPayment
<1>3. ASSUME NEW d \in Devices, NEW cash \in Amounts, CloseShift(d, cash)
      PROVE  PaymentsKept(h)
  BY <1>2, <1>3 DEF CloseShift
<1> QED
  BY Steps, <1>1, <1>2, <1>3
     DEF CreateSale, ExistingSale, SaleRow, Deducted, VoidSale, CreateReturn,
         ExistingReturn, LockSale, NoteRow, OpenShift, AddEntry, FlagOverdrawn, IssueDevice, EnrolDevice,
         ReportUnsynced, RetireDevice, ReplaceDevice, CreateOrder, ReceiveOrder, LockPo,
         CancelOrder, DeleteOrder, AdjustStock, EditCost, DeleteProduct, counters, vars

LEMMA EntriesKeptStep ==
  ASSUME DocumentsTyped, [Next]_vars, NEW h, Shut(h)
  PROVE  EntriesKept(h)
<1>1. ASSUME NEW d \in Devices, NEW e \in EntryIds, NEW type \in {"in", "out"},
             NEW amount \in Amounts, NEW offline \in Flags,
             AddEntry(d, e, type, amount, offline)
      PROVE  EntriesKept(h)
  <2>1. entries[e] = Nil
    BY <1>1 DEF AddEntry, FlagOverdrawn
  <2>2. PICK g \in ActiveShifts(d) :
           /\ ~ shifts[g].closed
           /\ entries' = [entries EXCEPT ![e] = [shift |-> g, type |-> type,
                                                 amount |-> amount]]
    BY <1>1 DEF AddEntry, FlagOverdrawn
  <2>3. g # h
    BY <2>2 DEF Shut, ActiveShifts
  <2>4. DOMAIN entries = EntryIds /\ DOMAIN entries' = EntryIds
    BY <2>2 DEF DocumentsTyped
  <2>5. entries'[e].shift = g /\ \A x \in EntryIds \ {e} : entries'[x] = entries[x]
    BY <2>2, <2>4
  <2>6. e \notin EntriesOf(h) /\ e \notin EntriesOf(h)'
    BY <2>1, <2>3, <2>5 DEF EntriesOf, Stored
  <2>7. EntriesOf(h)' = EntriesOf(h)
    BY <2>4, <2>5, <2>6 DEF EntriesOf, Stored
  <2>8. \A x \in EntriesOf(h) : entries'[x] = entries[x]
    BY <2>4, <2>5, <2>6 DEF EntriesOf, Stored
  <2> QED BY <2>7, <2>8 DEF EntriesKept, CashOfEntry
<1>2. ASSUME UNCHANGED entries
      PROVE  EntriesKept(h)
  BY <1>2 DEF EntriesKept, EntriesOf, Stored, CashOfEntry
<1>3. ASSUME NEW d \in Devices, NEW cash \in Amounts, CloseShift(d, cash)
      PROVE  EntriesKept(h)
  BY <1>2, <1>3 DEF CloseShift
<1> QED
  BY Steps, <1>1, <1>2, <1>3
     DEF CreateSale, ExistingSale, SaleRow, Deducted, VoidSale, CreateReturn,
         ExistingReturn, LockSale, NoteRow, CreatePayment, ExistingPayment, OpenShift,
         IssueDevice, EnrolDevice, ReportUnsynced, RetireDevice, ReplaceDevice, CreateOrder,
         ReceiveOrder, LockPo, CancelOrder, DeleteOrder, AdjustStock, EditCost, DeleteProduct,
         counters, vars

LEMMA ReturnsKeptStep ==
  ASSUME DocumentsTyped, [Next]_vars, NEW h \in ShiftIds, Shut(h)
  PROVE  ReturnsKept(h)
<1>1. ASSUME NEW d \in Devices, NEW r \in ReturnIds, NEW s \in SaleIds, NEW n \in Notes,
             CreateReturn(d, r, s, n)
      PROVE  ReturnsKept(h)
  <2> DEFINE refund == RefundAmount(sales[s].bill, n.items)
  <2>1. returns[r] = Nil
    BY <1>1 DEF CreateReturn, ExistingReturn, LockSale, NoteRow
  <2>2. PICK g \in Stamps(d, n.method) :
           returns' = [returns EXCEPT ![r] =
                          [sale |-> s, note |-> n, total |-> refund, shift |-> g]]
    BY <1>1 DEF CreateReturn, ExistingReturn, LockSale, NoteRow
  <2> HIDE DEF refund
  <2>3. g # h
    BY <2>2, ShutNotOpen, NilAssumption DEF Stamps
  <2>4. DOMAIN returns = ReturnIds /\ DOMAIN returns' = ReturnIds
    BY <2>2 DEF DocumentsTyped
  <2>5. returns'[r].shift = g /\ \A x \in ReturnIds \ {r} : returns'[x] = returns[x]
    BY <2>2, <2>4
  <2>6. r \notin ReturnsOf(h) /\ r \notin ReturnsOf(h)'
    BY <2>1, <2>3, <2>5 DEF ReturnsOf, Stored
  <2>7. ReturnsOf(h)' = ReturnsOf(h)
    BY <2>4, <2>5, <2>6 DEF ReturnsOf, Stored
  <2>8. \A x \in ReturnsOf(h) : returns'[x] = returns[x]
    BY <2>4, <2>5, <2>6 DEF ReturnsOf, Stored
  <2> QED BY <2>7, <2>8 DEF ReturnsKept, CashOfReturn
<1>2. ASSUME UNCHANGED returns
      PROVE  ReturnsKept(h)
  BY <1>2 DEF ReturnsKept, ReturnsOf, Stored, CashOfReturn
<1>3. ASSUME NEW d \in Devices, NEW cash \in Amounts, CloseShift(d, cash)
      PROVE  ReturnsKept(h)
  BY <1>2, <1>3 DEF CloseShift, documents
<1> QED
  BY Steps, <1>1, <1>2, <1>3
     DEF CreateSale, ExistingSale, SaleRow, Deducted, VoidSale, CreatePayment,
         ExistingPayment, OpenShift, AddEntry, FlagOverdrawn, IssueDevice, EnrolDevice, ReportUnsynced,
         RetireDevice, ReplaceDevice, CreateOrder, ReceiveOrder, LockPo, CancelOrder,
         DeleteOrder, AdjustStock, EditCost, DeleteProduct, documents, counters, vars

\* The void of a bill by its last credit note does not uncount it: the note is there.
LEMMA SalesKeptStep ==
  ASSUME DocumentsTyped, DrawersTyped, [Next]_vars, NEW h \in ShiftIds, Shut(h)
  PROVE  SalesKept(h)
<1>0. DOMAIN sales = SaleIds /\ DOMAIN returns = ReturnIds
  BY DEF DocumentsTyped
<1>1. ASSUME NEW d \in Devices, NEW s \in SaleIds, NEW b \in Bills,
             NEW override \in Flags, NEW offline \in Flags,
             CreateSale(d, s, b, override, offline)
      PROVE  SalesKept(h)
  <2>1. sales[s] = Nil /\ returns' = returns
    BY <1>1 DEF CreateSale, ExistingSale, SaleRow, Deducted
  <2>2. PICK g \in OpenShifts(d) :
           sales' = [sales EXCEPT ![s] = [bill |-> b, points |-> PointsFor(b.total),
                                          shift |-> g, offline |-> offline,
                                          voided |-> FALSE]]
    BY <1>1 DEF CreateSale, ExistingSale, SaleRow, Deducted
  <2>3. g # h
    BY <2>2, ShutNotOpen
  <2>4. DOMAIN sales' = SaleIds
    BY <1>0, <2>2
  <2>5. sales'[s].shift = g /\ \A x \in SaleIds \ {s} : sales'[x] = sales[x]
    BY <1>0, <2>2
  <2>6. s \notin SalesOf(h) /\ s \notin SalesOf(h)'
    BY <2>1, <2>3, <2>5 DEF SalesOf, Stored
  <2>7. SalesOf(h)' = SalesOf(h)
    BY <1>0, <2>4, <2>5, <2>6 DEF SalesOf, Stored
  <2>8. \A x \in SalesOf(h) : sales'[x] = sales[x] /\ NotesOf(x)' = NotesOf(x)
    BY <1>0, <2>1, <2>5, <2>6 DEF SalesOf, Stored, NotesOf
  <2> QED BY <2>7, <2>8 DEF SalesKept, CashOfSale, CountedSale
<1>2. ASSUME NEW d \in Devices, NEW s \in SaleIds, NEW offline \in Flags,
             VoidSale(d, s, offline)
      PROVE  SalesKept(h)
  <2>1. /\ sales[s] \in Sale
        /\ sales[s].shift \in OpenShifts(d)
        /\ sales' = [sales EXCEPT ![s] = [sales[s] EXCEPT !.voided = TRUE]]
        /\ returns' = returns
    BY <1>2 DEF VoidSale, DocumentsTyped
  <2>2. sales[s].shift # h
    BY <2>1, ShutNotOpen
  <2>3. DOMAIN sales' = SaleIds
    BY <1>0, <2>1
  <2>4. sales'[s].shift # h /\ \A x \in SaleIds \ {s} : sales'[x] = sales[x]
    BY <1>0, <2>1, <2>2 DEF Sale
  <2>5. s \notin SalesOf(h) /\ s \notin SalesOf(h)'
    BY <2>2, <2>4 DEF SalesOf
  <2>6. SalesOf(h)' = SalesOf(h)
    BY <1>0, <2>3, <2>4, <2>5 DEF SalesOf, Stored
  <2>7. \A x \in SalesOf(h) : sales'[x] = sales[x] /\ NotesOf(x)' = NotesOf(x)
    BY <1>0, <2>1, <2>4, <2>5 DEF SalesOf, Stored, NotesOf
  <2> QED BY <2>6, <2>7 DEF SalesKept, CashOfSale, CountedSale
<1>3. ASSUME NEW d \in Devices, NEW r \in ReturnIds, NEW s \in SaleIds, NEW n \in Notes,
             CreateReturn(d, r, s, n)
      PROVE  SalesKept(h)
  <2> DEFINE refund == RefundAmount(sales[s].bill, n.items)
             whole == ReturnedWhole(s, n.items)
             row == [sales[s] EXCEPT !.voided = whole]
  <2>1. sales[s] \in Sale /\ ~ sales[s].voided /\ returns[r] = Nil
    BY <1>3 DEF CreateReturn, ExistingReturn, LockSale, NoteRow, DocumentsTyped
  <2>2. sales' = [sales EXCEPT ![s] = row]
    BY <1>3 DEF CreateReturn, ExistingReturn, LockSale, NoteRow
  <2>3. PICK g \in Stamps(d, n.method) :
           returns' = [returns EXCEPT ![r] =
                          [sale |-> s, note |-> n, total |-> refund, shift |-> g]]
    BY <1>3 DEF CreateReturn, ExistingReturn, LockSale, NoteRow
  <2>4. whole \in BOOLEAN
    BY DEF ReturnedWhole, Sold
  <2>note. [sale |-> s, note |-> n, total |-> refund, shift |-> g] # Nil
    BY <2>1, ReturnRow, NilAssumption
  <2> HIDE DEF refund, whole
  <2>5. row \in Sale /\ row.shift = sales[s].shift /\ row.bill = sales[s].bill
    BY <2>1, <2>4 DEF Sale
  <2>6. row # Nil
    BY <2>5, NilAssumption
  <2> HIDE DEF row
  <2>7. DOMAIN sales' = SaleIds /\ DOMAIN returns' = ReturnIds
    BY <1>0, <2>2, <2>3
  <2>8. sales'[s] = row /\ \A x \in SaleIds \ {s} : sales'[x] = sales[x]
    BY <1>0, <2>2
  <2>9. returns'[r].sale = s /\ returns'[r] # Nil /\ \A x \in ReturnIds \ {r} : returns'[x] = returns[x]
    BY <1>0, <2>3, <2>note
  <2>10. SalesOf(h)' = SalesOf(h)
    <3>1. sales[s] # Nil
      BY <2>1, NilAssumption
    <3> QED BY <1>0, <2>5, <2>6, <2>7, <2>8, <3>1 DEF SalesOf, Stored
  <2>11. \A x \in SaleIds \ {s} : NotesOf(x)' = NotesOf(x)
    BY <1>0, <2>1, <2>7, <2>9 DEF NotesOf, Stored
  <2>12. CountedSale(s)
    BY <2>1 DEF CountedSale
  <2>14. CountedSale(s)'
    <3>1. r \in NotesOf(s)'
      BY <2>7, <2>9 DEF NotesOf, Stored
    <3> QED BY <3>1 DEF CountedSale
  <2>15. \A x \in SalesOf(h) : CashOfSale(x)' = CashOfSale(x)
    <3> TAKE x \in SalesOf(h)
    <3>1. CASE x = s
      BY <2>5, <2>8, <2>12, <2>14, <3>1 DEF CashOfSale
    <3>2. CASE x # s
      <4>1. x \in SaleIds \ {s}
        BY <1>0, <3>2 DEF SalesOf, Stored
      <4> QED BY <2>8, <2>11, <4>1 DEF CashOfSale, CountedSale
    <3> QED BY <3>1, <3>2
  <2> QED BY <2>10, <2>15 DEF SalesKept
<1>4. ASSUME UNCHANGED <<sales, returns>>
      PROVE  SalesKept(h)
  BY <1>4 DEF SalesKept, SalesOf, Stored, CashOfSale, CountedSale, NotesOf
<1>5. ASSUME NEW d \in Devices, NEW cash \in Amounts, CloseShift(d, cash)
      PROVE  SalesKept(h)
  BY <1>4, <1>5 DEF CloseShift, documents
<1> QED
  BY Steps, <1>1, <1>2, <1>3, <1>4, <1>5
     DEF CreatePayment, ExistingPayment, OpenShift, AddEntry, FlagOverdrawn, IssueDevice, EnrolDevice,
         ReportUnsynced, RetireDevice, ReplaceDevice, CreateOrder, ReceiveOrder, LockPo,
         CancelOrder, DeleteOrder, AdjustStock, EditCost, DeleteProduct, documents, counters, vars

LEMMA FrozenStep ==
  ASSUME DocumentsTyped, DrawersTyped, [Next]_vars
  PROVE  KeepsClosedDrawers
<1> SUFFICES ASSUME NEW h \in Stored(shifts), shifts[h].closed \/ ~ shifts[h].active
             PROVE  /\ Takings(h)' = Takings(h)
                    /\ ExpectedCash(h)' = ExpectedCash(h)
                    /\ shifts'[h].counted = shifts[h].counted
  BY DEF KeepsClosedDrawers
<1>1. Shut(h) /\ h \in ShiftIds
  BY DEF Shut, Stored, DrawersTyped
<1>2. RowKept(h) /\ SalesKept(h) /\ PaymentsKept(h) /\ ReturnsKept(h) /\ EntriesKept(h)
  BY <1>1, RowStep, SalesKeptStep, PaymentsKeptStep, ReturnsKeptStep, EntriesKeptStep
<1>3. Takings(h)' = Takings(h) /\ ExpectedCash(h)' = ExpectedCash(h)
  BY <1>2, SameDrawer
     DEF RowKept, SalesKept, PaymentsKept, ReturnsKept, EntriesKept
<1> QED BY <1>2, <1>3 DEF RowKept

-----------------------------------------------------------------------------
LEMMA Inductive == IInv /\ [Next]_vars => IInv'
<1> SUFFICES ASSUME IInv, [Next]_vars
             PROVE  IInv'
  OBVIOUS
<1>1. GoodsTyped' /\ DocumentsTyped'
  BY GoodsStep, DocumentsStep DEF IInv
<1>2. DrawersTyped' /\ LedgersTyped'
  BY DrawersStep, LedgersStep DEF IInv
<1>3. DrawersOrderly'
  BY OrderlyStep DEF IInv
<1>4. ClosedIsCounted' /\ NoDayLost'
  BY CountStep DEF IInv
<1> QED BY <1>1, <1>2, <1>3, <1>4 DEF IInv

LEMMA Invariance == Spec => []IInv
BY InitIInv, Inductive, PTL DEF Spec

(* One live machine, at most one current drawer a machine, and none on a   *)
(* machine that is not enrolled (openIn, retireIn, closeForRetirementIn,   *)
(* replaceDevice).                                                         *)
THEOREM DrawersAreOrderly == Spec => []DrawersOrderly
<1>1. IInv => DrawersOrderly
  BY DEF IInv
<1> QED BY <1>1, Invariance, PTL

(* A drawer that is no longer current was counted, or the owner has an     *)
(* item saying it was not (archive, closeForRetirementIn, replaceDevice).  *)
THEOREM NoDayIsLost == Spec => []NoDayLost
<1>1. IInv => NoDayLost
  BY DEF IInv
<1> QED BY <1>1, Invariance, PTL

(* No step of any handler changes the documents, the expected cash or the  *)
(* count of a drawer that was closed or archived.                          *)
THEOREM ClosedDrawersAreFrozen == Spec => ClosedDrawerFrozen
<1>1. IInv /\ [Next]_vars => [KeepsClosedDrawers]_vars
  BY FrozenStep DEF IInv
<1> QED BY <1>1, Invariance, PTL DEF Spec, ClosedDrawerFrozen

-----------------------------------------------------------------------------
(* The books *)

\* Only so many documents were ever written.
FinitelyMany ==
    /\ IsFiniteSet(Stored(sales))
    /\ IsFiniteSet(Stored(returns))
    /\ IsFiniteSet(Stored(payments))
    /\ IsFiniteSet(Stored(orders))

\* A credit note is against a bill that is there.
NotesHaveBills == \A r \in Stored(returns) : sales[returns[r].sale] # Nil

\* What assertSaleTotals let through is what is stored.
BillsAddUp == \A s \in Stored(sales) : AssertTotals(sales[s].bill)

-----------------------------------------------------------------------------
(* What the three operations that write bills and credit notes do to them. *)

LEMMA SaleFacts ==
  ASSUME IInv, NEW d \in Devices, NEW s \in SaleIds, NEW b \in Bills,
         NEW override \in Flags, NEW offline \in Flags,
         CreateSale(d, s, b, override, offline)
  PROVE  /\ s \notin Stored(sales)
         /\ Stored(sales)' = Stored(sales) \cup {s}
         /\ sales'[s].bill = b /\ sales'[s].voided = FALSE
         /\ \A x \in Stored(sales) : sales'[x] = sales[x]
         /\ AssertTotals(b)
         /\ stock' = Deducted(b.items)
         /\ mechanics' = ApplyMechanic(b)
         /\ UNCHANGED <<returns, payments, orders, adjusted, cost, live>>
<1>1. sales[s] = Nil /\ DOMAIN sales = SaleIds
  BY DEF CreateSale, ExistingSale, IInv, DocumentsTyped
<1>2. PICK h \in OpenShifts(d) : sales' = [sales EXCEPT ![s] = SaleRow(b, h, offline)]
  BY DEF CreateSale
<1>3. h \in ShiftIds
  BY DEF OpenShifts, Stored, IInv, DrawersTyped
<1>4. b.total \in Nat
  BY BodiesAssumption DEF Bill
<1>5. PointsFor(b.total) \in Nat
  BY <1>4, OpeningAssumption DEF PointsFor
<1>6. SaleRow(b, h, offline) \in Sale
  BY <1>3, <1>5, BodiesAssumption DEF SaleRow, Sale
<1>7. SaleRow(b, h, offline).bill = b /\ SaleRow(b, h, offline).voided = FALSE
  BY DEF SaleRow
<1>8. SaleRow(b, h, offline) # Nil
  BY <1>6, NilAssumption
<1>9. /\ DOMAIN sales' = SaleIds
      /\ sales'[s] = SaleRow(b, h, offline)
      /\ \A x \in SaleIds \ {s} : sales'[x] = sales[x]
  BY <1>1, <1>2
<1>10. s \notin Stored(sales) /\ Stored(sales)' = Stored(sales) \cup {s}
  BY <1>1, <1>8, <1>9 DEF Stored
<1>11. \A x \in Stored(sales) : sales'[x] = sales[x]
  BY <1>1, <1>9, <1>10 DEF Stored
<1>12. UNCHANGED <<returns, payments, orders, adjusted, cost, live>>
  BY DEF CreateSale
<1>13. AssertTotals(b) /\ stock' = Deducted(b.items) /\ mechanics' = ApplyMechanic(b)
  BY DEF CreateSale
<1> QED BY <1>7, <1>9, <1>10, <1>11, <1>12, <1>13

LEMMA VoidFacts ==
  ASSUME IInv, NEW d \in Devices, NEW s \in SaleIds, NEW offline \in Flags,
         VoidSale(d, s, offline)
  PROVE  /\ s \in Stored(sales) /\ sales[s] \in Sale
         /\ ~ sales[s].voided /\ NotesOf(s) = {}
         /\ Stored(sales)' = Stored(sales)
         /\ sales'[s].bill = sales[s].bill /\ sales'[s].voided = TRUE
         /\ \A x \in Stored(sales) \ {s} : sales'[x] = sales[x]
         /\ stock' = Restored(sales[s].bill.items)
         /\ mechanics' = UndoMechanic(sales[s])
         /\ UNCHANGED <<returns, payments, orders, adjusted, cost, live>>
<1>1. sales[s] \in Sale /\ DOMAIN sales = SaleIds /\ sales[s] # Nil
  BY DEF VoidSale, IInv, DocumentsTyped
<1> DEFINE row == [sales[s] EXCEPT !.voided = TRUE]
<1>2. sales' = [sales EXCEPT ![s] = row]
  BY DEF VoidSale
<1>3. row \in Sale /\ row.bill = sales[s].bill /\ row.voided = TRUE
  BY <1>1 DEF Sale
<1>4. row # Nil
  BY <1>3, NilAssumption
<1> HIDE DEF row
<1>5. /\ DOMAIN sales' = SaleIds
      /\ sales'[s] = row
      /\ \A x \in SaleIds \ {s} : sales'[x] = sales[x]
  BY <1>1, <1>2
<1>6. Stored(sales)' = Stored(sales)
  BY <1>1, <1>4, <1>5 DEF Stored
<1>7. \A x \in Stored(sales) \ {s} : sales'[x] = sales[x]
  BY <1>1, <1>5 DEF Stored
<1>8. UNCHANGED <<returns, payments, orders, adjusted, cost, live>>
  BY DEF VoidSale
<1>9. /\ ~ sales[s].voided /\ NotesOf(s) = {}
      /\ stock' = Restored(sales[s].bill.items) /\ mechanics' = UndoMechanic(sales[s])
  BY DEF VoidSale
<1> QED BY <1>1, <1>3, <1>5, <1>6, <1>7, <1>8, <1>9 DEF Stored

LEMMA ReturnFacts ==
  ASSUME IInv, NEW d \in Devices, NEW r \in ReturnIds, NEW s \in SaleIds, NEW n \in Notes,
         CreateReturn(d, r, s, n)
  PROVE  /\ s \in Stored(sales) /\ sales[s] \in Sale /\ ~ sales[s].voided
         /\ r \notin Stored(returns)
         /\ Stored(returns)' = Stored(returns) \cup {r}
         /\ returns'[r].sale = s /\ returns'[r].note = n
         /\ returns'[r].total = RefundAmount(sales[s].bill, n.items)
         /\ \A x \in Stored(returns) : returns'[x] = returns[x]
         /\ Stored(sales)' = Stored(sales)
         /\ sales'[s].bill = sales[s].bill
         /\ sales'[s].voided = ReturnedWhole(s, n.items)
         /\ \A x \in Stored(sales) \ {s} : sales'[x] = sales[x]
         /\ Refundable(s, n.items)
         /\ n.method = DEDUCT_FROM_CREDIT => sales[s].bill.mech # Nil
         /\ stock' = Restored(n.items)
         /\ mechanics' = ReverseMechanic(sales[s].bill, n,
                                         RefundAmount(sales[s].bill, n.items))
         /\ UNCHANGED <<payments, orders, adjusted, cost, live>>
<1> DEFINE refund == RefundAmount(sales[s].bill, n.items)
           whole == ReturnedWhole(s, n.items)
           row == [sales[s] EXCEPT !.voided = whole]
<1>1. /\ sales[s] \in Sale /\ sales[s] # Nil /\ ~ sales[s].voided
      /\ returns[r] = Nil
      /\ DOMAIN sales = SaleIds /\ DOMAIN returns = ReturnIds
  BY DEF CreateReturn, ExistingReturn, LockSale, IInv, DocumentsTyped
<1>2. PICK h \in Stamps(d, n.method) :
         returns' = [returns EXCEPT ![r] = NoteRow(s, n, refund, h)]
  BY DEF CreateReturn
<1>3. sales' = [sales EXCEPT ![s] = row]
  BY DEF CreateReturn
<1>4. NoteRow(s, n, refund, h) \in Return
  BY <1>1, ReturnRow DEF NoteRow, IInv
<1>5. NoteRow(s, n, refund, h) # Nil
  BY <1>4, NilAssumption
<1>6. /\ NoteRow(s, n, refund, h).sale = s
      /\ NoteRow(s, n, refund, h).note = n
      /\ NoteRow(s, n, refund, h).total = refund
  BY DEF NoteRow
<1>7. whole \in BOOLEAN
  BY DEF ReturnedWhole
<1>8. /\ Refundable(s, n.items)
      /\ n.method = DEDUCT_FROM_CREDIT => sales[s].bill.mech # Nil
      /\ stock' = Restored(n.items)
      /\ mechanics' = ReverseMechanic(sales[s].bill, n, refund)
      /\ UNCHANGED <<payments, orders, adjusted, cost, live>>
  BY DEF CreateReturn
<1> HIDE DEF refund, whole
<1>9. row \in Sale /\ row.bill = sales[s].bill /\ row.voided = whole
  BY <1>1, <1>7 DEF Sale
<1>10. row # Nil
  BY <1>9, NilAssumption
<1> HIDE DEF row
<1>11. /\ DOMAIN sales' = SaleIds
       /\ sales'[s] = row
       /\ \A x \in SaleIds \ {s} : sales'[x] = sales[x]
  BY <1>1, <1>3
<1>12. /\ DOMAIN returns' = ReturnIds
       /\ returns'[r] = NoteRow(s, n, refund, h)
       /\ \A x \in ReturnIds \ {r} : returns'[x] = returns[x]
  BY <1>1, <1>2
<1>13. /\ s \in Stored(sales)
       /\ Stored(sales)' = Stored(sales)
       /\ \A x \in Stored(sales) \ {s} : sales'[x] = sales[x]
  BY <1>1, <1>10, <1>11 DEF Stored
<1>14. r \notin Stored(returns) /\ Stored(returns)' = Stored(returns) \cup {r}
  BY <1>1, <1>5, <1>12 DEF Stored
<1>15. \A x \in Stored(returns) : returns'[x] = returns[x]
  BY <1>1, <1>12, <1>14 DEF Stored
<1> QED BY <1>1, <1>6, <1>8, <1>9, <1>11, <1>12, <1>13, <1>14, <1>15 DEF refund, whole

\* Every other step leaves the bills and the credit notes alone.
LEMMA BookSteps ==
  ASSUME [Next]_vars
  PROVE  \/ \E d \in Devices, s \in SaleIds, b \in Bills, override, offline \in Flags :
              CreateSale(d, s, b, override, offline)
         \/ \E d \in Devices, s \in SaleIds, offline \in Flags : VoidSale(d, s, offline)
         \/ \E d \in Devices, r \in ReturnIds, s \in SaleIds, n \in Notes :
              CreateReturn(d, r, s, n)
         \/ UNCHANGED <<sales, returns>>
<1>1. ASSUME NEW d \in Devices, NEW cash \in Amounts, CloseShift(d, cash)
      PROVE  UNCHANGED <<sales, returns>>
  BY <1>1 DEF CloseShift, documents
<1> QED
  BY Steps, <1>1
     DEF CreatePayment, OpenShift, AddEntry, IssueDevice, EnrolDevice, ReportUnsynced,
         RetireDevice, ReplaceDevice, CreateOrder, ReceiveOrder, CancelOrder, DeleteOrder,
         AdjustStock, EditCost, DeleteProduct, documents, counters, vars

\* The notes of one bill.
LEMMA NotesStep ==
  ASSUME IInv, NotesHaveBills, [Next]_vars
  PROVE  /\ NotesHaveBills'
         /\ \A d \in Devices, s \in SaleIds, b \in Bills, override, offline \in Flags :
              CreateSale(d, s, b, override, offline) =>
                 NotesOf(s) = {} /\ \A x \in SaleIds : NotesOf(x)' = NotesOf(x)
         /\ \A d \in Devices, r \in ReturnIds, s \in SaleIds, n \in Notes :
              CreateReturn(d, r, s, n) =>
                 /\ r \notin NotesOf(s) /\ NotesOf(s)' = NotesOf(s) \cup {r}
                 /\ \A x \in SaleIds \ {s} : NotesOf(x)' = NotesOf(x)
<1>1. ASSUME NEW d \in Devices, NEW s \in SaleIds, NEW b \in Bills,
             NEW override \in Flags, NEW offline \in Flags,
             CreateSale(d, s, b, override, offline)
      PROVE  /\ NotesHaveBills'
             /\ NotesOf(s) = {} /\ \A x \in SaleIds : NotesOf(x)' = NotesOf(x)
  <2>1. /\ s \notin Stored(sales) /\ Stored(sales)' = Stored(sales) \cup {s}
        /\ returns' = returns
    BY <1>1, SaleFacts
  <2>2. \A x \in Stored(returns) : returns[x].sale \in Stored(sales)
    BY DEF NotesHaveBills, IInv, DocumentsTyped, Return, Stored
  <2>3. NotesOf(s) = {}
    BY <2>1, <2>2 DEF NotesOf
  <2>4. NotesHaveBills'
    BY <2>1, <2>2 DEF NotesHaveBills, Stored
  <2> QED BY <2>1, <2>3, <2>4 DEF NotesOf, Stored
<1>2. ASSUME NEW d \in Devices, NEW s \in SaleIds, NEW offline \in Flags,
             VoidSale(d, s, offline)
      PROVE  NotesHaveBills'
  <2>1. Stored(sales)' = Stored(sales) /\ returns' = returns
    BY <1>2, VoidFacts
  <2>2. \A x \in Stored(returns) : returns[x].sale \in Stored(sales)
    BY DEF NotesHaveBills, IInv, DocumentsTyped, Return, Stored
  <2> QED BY <2>1, <2>2 DEF NotesHaveBills, Stored
<1>3. ASSUME NEW d \in Devices, NEW r \in ReturnIds, NEW s \in SaleIds, NEW n \in Notes,
             CreateReturn(d, r, s, n)
      PROVE  /\ NotesHaveBills'
             /\ r \notin NotesOf(s) /\ NotesOf(s)' = NotesOf(s) \cup {r}
             /\ \A x \in SaleIds \ {s} : NotesOf(x)' = NotesOf(x)
  <2>1. /\ s \in Stored(sales) /\ Stored(sales)' = Stored(sales)
        /\ r \notin Stored(returns) /\ Stored(returns)' = Stored(returns) \cup {r}
        /\ returns'[r].sale = s
        /\ \A x \in Stored(returns) : returns'[x] = returns[x]
    BY <1>3, ReturnFacts
  <2>2. \A x \in Stored(returns) : returns[x].sale \in Stored(sales)
    BY DEF NotesHaveBills, IInv, DocumentsTyped, Return, Stored
  <2>3. \A x \in Stored(returns)' : returns'[x].sale \in Stored(sales)'
    BY <2>1, <2>2
  <2>4. NotesHaveBills'
    BY <2>3 DEF NotesHaveBills, Stored
  <2>5. r \notin NotesOf(s) /\ NotesOf(s)' = NotesOf(s) \cup {r}
    BY <2>1 DEF NotesOf
  <2>6. \A x \in SaleIds \ {s} : NotesOf(x)' = NotesOf(x)
    BY <2>1 DEF NotesOf
  <2> QED BY <2>4, <2>5, <2>6
<1>4. ASSUME UNCHANGED <<sales, returns>>
      PROVE  NotesHaveBills'
  BY <1>4 DEF NotesHaveBills, Stored
<1> QED BY BookSteps, <1>1, <1>2, <1>3, <1>4

\* The body a stored bill was made from.
LEMMA StoredBill ==
  ASSUME IInv, NEW s \in Stored(sales)
  PROVE  /\ s \in SaleIds /\ sales[s] \in Sale
         /\ sales[s].bill \in Bills /\ sales[s].bill \in Bill
         /\ sales[s].bill.items \in Items
         /\ sales[s].bill.discount <= sales[s].bill.subtotal
<1>1. s \in SaleIds /\ sales[s] \in Sale
  BY DEF Stored, IInv, DocumentsTyped
<1>2. sales[s].bill \in Bills
  BY <1>1 DEF Sale
<1>3. sales[s].bill \in Bill /\ sales[s].bill.discount <= sales[s].bill.subtotal
  BY <1>2, BodiesAssumption, ParsedAssumption DEF ParseCreateSale, AssertMoneyMakesSense
<1> QED BY <1>1, <1>2, <1>3 DEF Bill

LEMMA StoredNote ==
  ASSUME IInv, NEW r \in Stored(returns)
  PROVE  /\ r \in ReturnIds /\ returns[r] \in Return
         /\ returns[r].sale \in SaleIds /\ returns[r].total \in Int
         /\ returns[r].note \in Notes
         /\ returns[r].note.items \in Items
<1>1. r \in ReturnIds /\ returns[r] \in Return
  BY DEF Stored, IInv, DocumentsTyped
<1>2. returns[r].note \in Note
  BY <1>1, BodiesAssumption DEF Return
<1> QED BY <1>1, <1>2 DEF Return, Note

LEMMA AddUpStep ==
  ASSUME IInv, BillsAddUp, [Next]_vars
  PROVE  BillsAddUp'
<1>1. ASSUME NEW d \in Devices, NEW s \in SaleIds, NEW b \in Bills,
             NEW override \in Flags, NEW offline \in Flags,
             CreateSale(d, s, b, override, offline)
      PROVE  BillsAddUp'
  <2>1. /\ Stored(sales)' = Stored(sales) \cup {s} /\ sales'[s].bill = b /\ AssertTotals(b)
        /\ \A x \in Stored(sales) : sales'[x] = sales[x]
    BY <1>1, SaleFacts
  <2>2. ASSUME NEW x \in Stored(sales)' PROVE AssertTotals(sales'[x].bill)
    <3>1. CASE x = s
      BY <2>1, <3>1
    <3>2. CASE x \in Stored(sales)
      BY <2>1, <3>2 DEF BillsAddUp
    <3> QED BY <2>1, <2>2, <3>1, <3>2
  <2>3. (\A x \in Stored(sales) : AssertTotals(sales[x].bill))'
    BY <2>2 DEF AssertTotals
  <2> QED BY <2>3 DEF BillsAddUp
<1>2. ASSUME NEW d \in Devices, NEW s \in SaleIds, NEW offline \in Flags,
             VoidSale(d, s, offline)
      PROVE  BillsAddUp'
  BY <1>2, VoidFacts DEF BillsAddUp
<1>3. ASSUME NEW d \in Devices, NEW r \in ReturnIds, NEW s \in SaleIds, NEW n \in Notes,
             CreateReturn(d, r, s, n)
      PROVE  BillsAddUp'
  BY <1>3, ReturnFacts DEF BillsAddUp
<1>4. ASSUME UNCHANGED <<sales, returns>>
      PROVE  BillsAddUp'
  BY <1>4 DEF BillsAddUp, Stored
<1> QED BY BookSteps, <1>1, <1>2, <1>3, <1>4

LEMMA FinitelyStep ==
  ASSUME IInv, FinitelyMany, [Next]_vars
  PROVE  FinitelyMany'
<1>1. ASSUME NEW S, IsFiniteSet(S), NEW T, NEW x, T \subseteq S \cup {x}
      PROVE  IsFiniteSet(T)
  BY <1>1, FS_AddElement, FS_Subset
<1>2. IsFiniteSet(Stored(sales))' /\ IsFiniteSet(Stored(returns))'
  <2>1. ASSUME NEW d \in Devices, NEW s \in SaleIds, NEW b \in Bills,
               NEW override \in Flags, NEW offline \in Flags,
               CreateSale(d, s, b, override, offline)
        PROVE  IsFiniteSet(Stored(sales))' /\ IsFiniteSet(Stored(returns))'
    <3>1. Stored(sales)' = Stored(sales) \cup {s} /\ Stored(returns)' = Stored(returns)
      BY <2>1, SaleFacts DEF Stored
    <3> QED BY <3>1, FS_AddElement DEF FinitelyMany
  <2>2. ASSUME NEW d \in Devices, NEW s \in SaleIds, NEW offline \in Flags,
               VoidSale(d, s, offline)
        PROVE  IsFiniteSet(Stored(sales))' /\ IsFiniteSet(Stored(returns))'
    <3>1. Stored(sales)' = Stored(sales) /\ Stored(returns)' = Stored(returns)
      BY <2>2, VoidFacts DEF Stored
    <3> QED BY <3>1 DEF FinitelyMany
  <2>3. ASSUME NEW d \in Devices, NEW r \in ReturnIds, NEW s \in SaleIds, NEW n \in Notes,
               CreateReturn(d, r, s, n)
        PROVE  IsFiniteSet(Stored(sales))' /\ IsFiniteSet(Stored(returns))'
    <3>1. Stored(sales)' = Stored(sales) /\ Stored(returns)' = Stored(returns) \cup {r}
      BY <2>3, ReturnFacts
    <3> QED BY <3>1, FS_AddElement DEF FinitelyMany
  <2>4. ASSUME UNCHANGED <<sales, returns>>
        PROVE  IsFiniteSet(Stored(sales))' /\ IsFiniteSet(Stored(returns))'
    BY <2>4 DEF FinitelyMany, Stored
  <2> QED BY BookSteps, <2>1, <2>2, <2>3, <2>4
<1>3. IsFiniteSet(Stored(payments))'
  <2>1. ASSUME NEW d \in Devices, NEW p \in PaymentIds, NEW m \in Mechanics,
               NEW amount \in Amounts, NEW method \in {CASH, TRANSFER}, NEW allow \in Flags,
               CreatePayment(d, p, m, amount, method, allow)
        PROVE  IsFiniteSet(Stored(payments))'
    <3>1. \E row : payments' = [payments EXCEPT ![p] = row]
      BY <2>1 DEF CreatePayment
    <3>2. Stored(payments)' \subseteq Stored(payments) \cup {p}
      BY <3>1 DEF Stored
    <3> QED BY <1>1, <3>2 DEF FinitelyMany
  <2>2. ASSUME UNCHANGED payments
        PROVE  IsFiniteSet(Stored(payments))'
    BY <2>2 DEF FinitelyMany, Stored
  <2>3. ASSUME NEW d \in Devices, NEW cash \in Amounts, CloseShift(d, cash)
        PROVE  UNCHANGED payments
    BY <2>3 DEF CloseShift
  <2> QED
    BY Steps, <2>1, <2>2, <2>3
       DEF CreateSale, VoidSale, CreateReturn, OpenShift, AddEntry, IssueDevice, EnrolDevice,
           ReportUnsynced, RetireDevice, ReplaceDevice, CreateOrder, ReceiveOrder, CancelOrder,
           DeleteOrder, AdjustStock, EditCost, DeleteProduct, documents, counters, vars
<1>4. IsFiniteSet(Stored(orders))'
  <2>1. ASSUME NEW o \in OrderIds, NEW f \in Forms, CreateOrder(o, f)
        PROVE  IsFiniteSet(Stored(orders))'
    <3>1. \E row : orders' = [orders EXCEPT ![o] = row]
      BY <2>1 DEF CreateOrder
    <3>2. Stored(orders)' \subseteq Stored(orders) \cup {o}
      BY <3>1 DEF Stored
    <3> QED BY <1>1, <3>2 DEF FinitelyMany
  <2>2. ASSUME NEW o \in OrderIds, ReceiveOrder(o) \/ CancelOrder(o) \/ DeleteOrder(o)
        PROVE  IsFiniteSet(Stored(orders))'
    <3>1. \E row : orders' = [orders EXCEPT ![o] = row]
      BY <2>2 DEF ReceiveOrder, CancelOrder, DeleteOrder
    <3>2. Stored(orders)' \subseteq Stored(orders) \cup {o}
      BY <3>1 DEF Stored
    <3> QED BY <1>1, <3>2 DEF FinitelyMany
  <2>3. ASSUME UNCHANGED orders
        PROVE  IsFiniteSet(Stored(orders))'
    BY <2>3 DEF FinitelyMany, Stored
  <2>4. ASSUME NEW d \in Devices, NEW cash \in Amounts, CloseShift(d, cash)
        PROVE  UNCHANGED orders
    BY <2>4 DEF CloseShift, documents
  <2> QED
    BY Steps, <2>1, <2>2, <2>3, <2>4
       DEF CreateSale, VoidSale, CreateReturn, CreatePayment, OpenShift, AddEntry, IssueDevice,
           EnrolDevice, ReportUnsynced, RetireDevice, ReplaceDevice, AdjustStock,
           EditCost, DeleteProduct,
           documents, counters, vars
<1> QED BY <1>2, <1>3, <1>4 DEF FinitelyMany

-----------------------------------------------------------------------------
(* What came back of a bill. *)

Back(s) == [l \in Lines |-> Refunded(s, l)]

RefundTerms(s, l) == [r \in NotesOf(s) |-> returns[r].note.items[l]]

LEMMA RefundedSum ==
  ASSUME IInv, FinitelyMany, NEW s, NEW l \in Lines
  PROVE  /\ IsFiniteSet(NotesOf(s))
         /\ RefundTerms(s, l) \in [NotesOf(s) -> Nat]
         /\ Refunded(s, l) = SumFunction(RefundTerms(s, l))
         /\ Refunded(s, l) \in Nat
<1>1. IsFiniteSet(NotesOf(s))
  BY FS_Subset DEF NotesOf, FinitelyMany
<1>2. \A r \in NotesOf(s) : returns[r].note.items[l] \in Nat
  BY StoredNote DEF NotesOf, Items
<1>3. RefundTerms(s, l) \in [NotesOf(s) -> Nat]
  BY <1>2 DEF RefundTerms
<1>4. Refunded(s, l) = SumFunction(RefundTerms(s, l))
  BY DEF Refunded, Total, RefundTerms
<1> QED BY <1>1, <1>3, <1>4, SumNat

LEMMA BackItems ==
  ASSUME IInv, FinitelyMany, NEW s
  PROVE  Back(s) \in Items
BY RefundedSum DEF Back, Items

\* A bill with no note has had nothing back.
LEMMA BackNothing ==
  ASSUME NEW s, NotesOf(s) = {}, NEW l \in Lines
  PROVE  Refunded(s, l) = 0
<1>1. RefundTerms(s, l) \in [{} -> Int]
  BY DEF RefundTerms
<1>2. Refunded(s, l) = SumFunction(RefundTerms(s, l))
  BY DEF Refunded, Total, RefundTerms
<1> QED BY <1>1, <1>2, SumNothing

LEMMA RefundedQtyNat ==
  ASSUME IInv, FinitelyMany, NEW s, NEW p \in Products
  PROVE  RefundedQty(s, p) \in Nat
<1> DEFINE f == [c \in Prices |-> Refunded(s, <<p, c>>)]
<1>1. f \in [Prices -> Nat]
  BY RefundedSum DEF Lines
<1>2. RefundedQty(s, p) = SumFunction(f)
  BY DEF RefundedQty, Total
<1> HIDE DEF f
<1> QED BY <1>1, <1>2, SumNat, CatalogueAssumption

\* A credit note adds its items to what came back, and to no other bill.
LEMMA BackGrows ==
  ASSUME IInv, NotesHaveBills, FinitelyMany, [Next]_vars,
         NEW d \in Devices, NEW r \in ReturnIds, NEW s \in SaleIds, NEW n \in Notes,
         CreateReturn(d, r, s, n), NEW l \in Lines
  PROVE  /\ Refunded(s, l)' = Refunded(s, l) + n.items[l]
         /\ \A x \in SaleIds \ {s} : Refunded(x, l)' = Refunded(x, l)
<1>1. /\ r \notin NotesOf(s) /\ NotesOf(s)' = NotesOf(s) \cup {r}
      /\ \A x \in SaleIds \ {s} : NotesOf(x)' = NotesOf(x)
  BY NotesStep
<1>2. /\ returns'[r].note = n /\ r \notin Stored(returns)
      /\ \A x \in Stored(returns) : returns'[x] = returns[x]
  BY ReturnFacts
<1>3. n.items[l] \in Nat
  BY BodiesAssumption DEF Note, Items
<1>4. /\ IsFiniteSet(NotesOf(s))
      /\ RefundTerms(s, l) \in [NotesOf(s) -> Int]
      /\ Refunded(s, l) = SumFunction(RefundTerms(s, l))
  BY RefundedSum
<1>5. Refunded(s, l)' = SumFunction(RefundTerms(s, l)')
  BY DEF Refunded, Total, RefundTerms
<1>6. /\ \A y \in NotesOf(s) : RefundTerms(s, l)'[y] = RefundTerms(s, l)[y]
      /\ RefundTerms(s, l)'[r] = n.items[l]
  BY <1>1, <1>2 DEF RefundTerms, NotesOf
<1>7. RefundTerms(s, l)' \in [NotesOf(s) \cup {r} -> Int]
  <2>1. \A y \in NotesOf(s)' : RefundTerms(s, l)'[y] \in Int
    BY <1>1, <1>3, <1>4, <1>6
  <2> QED BY <1>1, <2>1 DEF RefundTerms
<1>8. SumFunction(RefundTerms(s, l)') = SumFunction(RefundTerms(s, l)) + n.items[l]
  <2> DEFINE f == RefundTerms(s, l)
             g == RefundTerms(s, l)'
             S == NotesOf(s)
  <2>1. /\ IsFiniteSet(S) /\ r \notin S /\ f \in [S -> Int] /\ g \in [S \cup {r} -> Int]
        /\ (\A y \in S : g[y] = f[y]) /\ g[r] = n.items[l]
    BY <1>1, <1>4, <1>6, <1>7
  <2> HIDE DEF f, g, S
  <2>2. SumFunction(g) = SumFunction(f) + n.items[l]
    BY <2>1, SumGrows
  <2> QED BY <2>2 DEF f, g
<1>9. ASSUME NEW x \in SaleIds \ {s} PROVE Refunded(x, l)' = Refunded(x, l)
  <2>1. RefundTerms(x, l)' = RefundTerms(x, l)
    BY <1>1, <1>2 DEF RefundTerms, NotesOf
  <2> QED BY <2>1 DEF Refunded, Total, RefundTerms
<1> QED BY <1>4, <1>5, <1>8, <1>9

\* A step that adds no note changes nothing of what came back.
LEMMA BackKept ==
  ASSUME UNCHANGED returns, NEW s, NEW l
  PROVE  NotesOf(s)' = NotesOf(s) /\ Refunded(s, l)' = Refunded(s, l)
BY DEF Refunded, Total, NotesOf, Stored

-----------------------------------------------------------------------------
(* No bill gives back more than it sold. *)

LEMMA WithinStep ==
  ASSUME IInv, NotesHaveBills, FinitelyMany, RefundsWithinBill, [Next]_vars
  PROVE  RefundsWithinBill'
<1> DEFINE Within(s) ==
             /\ \A l \in Lines : Refunded(s, l) <= sales[s].bill.items[l]
             /\ NotesOf(s) # {} =>
                  (sales[s].voided <=>
                     \A l \in Lines : Refunded(s, l) = sales[s].bill.items[l])
<1>0. \A s \in Stored(sales) : Within(s)
  BY DEF RefundsWithinBill
<1> SUFFICES \A s \in Stored(sales)' : Within(s)'
  BY DEF RefundsWithinBill
<1>1. ASSUME NEW s, UNCHANGED returns, Within(s),
             sales'[s].bill = sales[s].bill,
             sales'[s].voided = sales[s].voided \/ NotesOf(s) = {}
      PROVE  Within(s)'
  <2>1. NotesOf(s)' = NotesOf(s) /\ \A l \in Lines : Refunded(s, l)' = Refunded(s, l)
    BY <1>1, BackKept
  <2> QED BY <1>1, <2>1
<1>2. ASSUME NEW d \in Devices, NEW s \in SaleIds, NEW b \in Bills,
             NEW override \in Flags, NEW offline \in Flags,
             CreateSale(d, s, b, override, offline)
      PROVE  \A x \in Stored(sales)' : Within(x)'
  <2>1. /\ Stored(sales)' = Stored(sales) \cup {s} /\ sales'[s].bill = b
        /\ \A x \in Stored(sales) : sales'[x] = sales[x]
        /\ UNCHANGED returns
    BY <1>2, SaleFacts
  <2>2. NotesOf(s) = {} /\ NotesOf(s)' = {}
    BY <1>2, NotesStep
  <2>3. \A l \in Lines : Refunded(s, l)' = 0 /\ b.items[l] \in Nat
    BY <2>1, <2>2, BackNothing, BackKept, BodiesAssumption DEF Bill, Items
  <2>4. Within(s)'
    BY <2>1, <2>2, <2>3
  <2>5. \A x \in Stored(sales) : Within(x)'
    BY <1>0, <1>1, <2>1
  <2> QED BY <2>1, <2>4, <2>5
<1>3. ASSUME NEW d \in Devices, NEW s \in SaleIds, NEW offline \in Flags,
             VoidSale(d, s, offline)
      PROVE  \A x \in Stored(sales)' : Within(x)'
  <2>1. /\ s \in Stored(sales) /\ NotesOf(s) = {} /\ Stored(sales)' = Stored(sales)
        /\ sales'[s].bill = sales[s].bill
        /\ \A x \in Stored(sales) \ {s} : sales'[x] = sales[x]
        /\ UNCHANGED returns
    BY <1>3, VoidFacts
  <2> QED BY <1>0, <1>1, <2>1
<1>4. ASSUME NEW d \in Devices, NEW r \in ReturnIds, NEW s \in SaleIds, NEW n \in Notes,
             CreateReturn(d, r, s, n)
      PROVE  \A x \in Stored(sales)' : Within(x)'
  <2>1. /\ s \in Stored(sales) /\ Stored(sales)' = Stored(sales)
        /\ sales'[s].bill = sales[s].bill
        /\ sales'[s].voided = ReturnedWhole(s, n.items)
        /\ \A x \in Stored(sales) \ {s} : sales'[x] = sales[x]
        /\ Refundable(s, n.items)
    BY <1>4, ReturnFacts
  <2>2. /\ NotesOf(s)' # {}
        /\ \A x \in SaleIds \ {s} : NotesOf(x)' = NotesOf(x)
    BY <1>4, NotesStep
  <2>3. \A l \in Lines : /\ Refunded(s, l)' = Refunded(s, l) + n.items[l]
                         /\ \A x \in SaleIds \ {s} : Refunded(x, l)' = Refunded(x, l)
    BY <1>4, BackGrows
  <2>4. \A x \in Stored(sales) \ {s} : Within(x)'
    <3>1. Stored(sales) \subseteq SaleIds
      BY StoredBill
    <3> QED BY <1>0, <2>1, <2>2, <2>3, <3>1
  <2> DEFINE sold == sales[s].bill.items
             f == [l \in Lines |-> Refunded(s, l)]
             g == [l \in Lines |-> n.items[l]]
             h == [l \in Lines |-> Refunded(s, l)']
             k == [l \in Lines |-> sold[l]]
  <2>5. sold \in Items /\ n.items \in Items
    BY <2>1, StoredBill, BodiesAssumption DEF Note
  <2>6. \A l \in Lines : /\ Refunded(s, l) \in Nat /\ n.items[l] \in Nat
                         /\ sold[l] \in Nat
    BY <2>5, RefundedSum DEF Items
  <2>7. \A l \in Lines : Refunded(s, l) + n.items[l] <= sold[l]
    <3> TAKE l \in Lines
    <3>1. CASE n.items[l] = 0
      <4>1. Refunded(s, l) <= sold[l]
        BY <1>0, <2>1
      <4> QED BY <2>6, <3>1, <4>1
    <3>2. CASE n.items[l] > 0
      <4>1. n.items[l] <= Remaining(s, l)
        BY <2>1, <3>2 DEF Refundable
      <4>2. QtyOf(sold, l[1]) - RefundedQty(s, l[1]) \in Int
        BY <2>5, ItemSums, RefundedQtyNat DEF Lines
      <4>3. Remaining(s, l) <= sold[l] - Refunded(s, l)
        BY <2>6, <4>2 DEF Remaining, Least, Sold
      <4>4. Remaining(s, l) \in Int
        BY <2>6, <4>2 DEF Remaining, Least, Sold
      <4> QED BY <2>6, <4>1, <4>3, <4>4
    <3> QED BY <2>6, <3>1, <3>2
  <2>8. /\ f \in [Lines -> Int] /\ g \in [Lines -> Int] /\ h \in [Lines -> Int]
        /\ k \in [Lines -> Int]
        /\ \A l \in Lines : h[l] = f[l] + g[l] /\ h[l] <= k[l]
    BY <2>3, <2>6, <2>7
  <2>9. ReturnedWhole(s, n.items) <=> SumFunction(f) + SumFunction(g) >= SumFunction(k)
    BY DEF ReturnedWhole, Total, Units, Sold
  <2>10. (\A l \in Lines : Refunded(s, l)' = sold[l]) <=> h = k
    BY <2>6
  <2> HIDE DEF f, g, h, k
  <2>11. /\ SumFunction(f) \in Int /\ SumFunction(g) \in Int
         /\ SumFunction(h) \in Int /\ SumFunction(k) \in Int
    BY <2>8, LinesFinite, SumType
  <2>12. SumFunction(h) = SumFunction(f) + SumFunction(g)
    BY <2>8, LinesFinite, SumPlus
  <2>13. SumFunction(h) <= SumFunction(k) /\ (SumFunction(h) = SumFunction(k) => h = k)
    BY <2>8, LinesFinite, SumBounded
  <2>14. SumFunction(f) + SumFunction(g) >= SumFunction(k) <=> h = k
    <3>1. SumFunction(h) >= SumFunction(k) <=> h = k
      BY <2>11, <2>13
    <3> QED BY <2>12, <3>1, Zenon
  <2>15. Within(s)'
    <3>1. sales'[s].voided <=> h = k
      BY <2>1, <2>9, <2>14, Zenon
    <3> QED BY <2>1, <2>3, <2>7, <2>10, <3>1
  <2> QED BY <2>1, <2>4, <2>15
<1>5. ASSUME UNCHANGED <<sales, returns>>
      PROVE  \A x \in Stored(sales)' : Within(x)'
  <2>1. Stored(sales)' = Stored(sales)
    BY <1>5 DEF Stored
  <2> QED BY <1>0, <1>1, <1>5, <2>1
<1> QED BY BookSteps, <1>2, <1>3, <1>4, <1>5

-----------------------------------------------------------------------------
(* The bills that count, as they come and go. *)

CountedSales == {s \in Stored(sales) : CountedSale(s)}

LEMMA CountedBySale ==
  ASSUME IInv, NotesHaveBills, [Next]_vars,
         NEW d \in Devices, NEW s \in SaleIds, NEW b \in Bills,
         NEW override \in Flags, NEW offline \in Flags,
         CreateSale(d, s, b, override, offline)
  PROVE  /\ s \notin CountedSales /\ CountedSales' = CountedSales \cup {s}
         /\ sales'[s].bill = b
         /\ \A x \in CountedSales : sales'[x].bill = sales[x].bill
<1>1. /\ s \notin Stored(sales) /\ Stored(sales)' = Stored(sales) \cup {s}
      /\ sales'[s].bill = b /\ sales'[s].voided = FALSE
      /\ \A x \in Stored(sales) : sales'[x] = sales[x]
  BY SaleFacts
<1>2. \A x \in SaleIds : NotesOf(x)' = NotesOf(x)
  BY NotesStep
<1>3. CountedSale(s)'
  BY <1>1 DEF CountedSale
<1>4. \A x \in Stored(sales) : CountedSale(x)' <=> CountedSale(x)
  BY <1>1, <1>2, StoredBill DEF CountedSale
<1> QED BY <1>1, <1>3, <1>4 DEF CountedSales

LEMMA CountedByVoid ==
  ASSUME IInv, NEW d \in Devices, NEW s \in SaleIds, NEW offline \in Flags,
         VoidSale(d, s, offline)
  PROVE  /\ s \notin CountedSales' /\ CountedSales = CountedSales' \cup {s}
         /\ \A x \in CountedSales : sales'[x].bill = sales[x].bill
<1>1. /\ s \in Stored(sales) /\ Stored(sales)' = Stored(sales)
      /\ ~ sales[s].voided /\ NotesOf(s) = {}
      /\ sales'[s].bill = sales[s].bill /\ sales'[s].voided = TRUE
      /\ \A x \in Stored(sales) \ {s} : sales'[x] = sales[x]
      /\ UNCHANGED returns
  BY VoidFacts
<1>2. \A x : NotesOf(x)' = NotesOf(x)
  BY <1>1 DEF NotesOf, Stored
<1>3. CountedSale(s) /\ ~ CountedSale(s)'
  BY <1>1, <1>2 DEF CountedSale
<1>4. \A x \in Stored(sales) \ {s} : CountedSale(x)' <=> CountedSale(x)
  BY <1>1, <1>2 DEF CountedSale
<1> QED BY <1>1, <1>3, <1>4 DEF CountedSales

\* A bill voided by its last credit note still counts: the note does too.
LEMMA CountedByReturn ==
  ASSUME IInv, NotesHaveBills, [Next]_vars,
         NEW d \in Devices, NEW r \in ReturnIds, NEW s \in SaleIds, NEW n \in Notes,
         CreateReturn(d, r, s, n)
  PROVE  /\ CountedSales' = CountedSales
         /\ \A x \in Stored(sales) : sales'[x].bill = sales[x].bill
<1>1. /\ s \in Stored(sales) /\ Stored(sales)' = Stored(sales)
      /\ ~ sales[s].voided
      /\ sales'[s].bill = sales[s].bill
      /\ \A x \in Stored(sales) \ {s} : sales'[x] = sales[x]
  BY ReturnFacts
<1>2. NotesOf(s)' # {} /\ \A x \in SaleIds \ {s} : NotesOf(x)' = NotesOf(x)
  BY NotesStep
<1>3. CountedSale(s) /\ CountedSale(s)'
  BY <1>1, <1>2 DEF CountedSale
<1>4. \A x \in Stored(sales) \ {s} : CountedSale(x)' <=> CountedSale(x)
  BY <1>1, <1>2, StoredBill DEF CountedSale
<1> QED BY <1>1, <1>3, <1>4 DEF CountedSales

-----------------------------------------------------------------------------
(* The goods. *)

SoldTerms(p) == [s \in CountedSales |-> QtyOf(sales[s].bill.items, p)]
BackTerms(p) == [r \in Stored(returns) |-> QtyOf(returns[r].note.items, p)]
Received == {o \in Stored(orders) : orders[o].status = "received"}
OrderTerms(p) == [o \in Received |-> orders[o].taken[p]]

\* StockExplained, with its three sums named.
LEMMA StockEquation ==
  StockExplained <=>
    \A p \in Products :
        stock[p] = OpeningStock[p] + adjusted[p] + SumFunction(OrderTerms(p))
                     - SumFunction(SoldTerms(p)) + SumFunction(BackTerms(p))
BY DEF StockExplained, Total, SoldTerms, BackTerms, OrderTerms, CountedSales, Received

\* The three sums are of finitely many quantities.
GoodsTotals ==
    \A p \in Products :
        /\ IsFiniteSet(CountedSales) /\ IsFiniteSet(Received) /\ IsFiniteSet(Stored(returns))
        /\ SoldTerms(p) \in [CountedSales -> Int]
        /\ BackTerms(p) \in [Stored(returns) -> Int]
        /\ OrderTerms(p) \in [Received -> Int]
        /\ SumFunction(SoldTerms(p)) \in Int
        /\ SumFunction(BackTerms(p)) \in Int
        /\ SumFunction(OrderTerms(p)) \in Int

LEMMA GoodsSums == IInv /\ FinitelyMany => GoodsTotals
<1> SUFFICES ASSUME IInv, FinitelyMany, NEW p \in Products
             PROVE  /\ IsFiniteSet(CountedSales) /\ IsFiniteSet(Received)
                    /\ IsFiniteSet(Stored(returns))
                    /\ SoldTerms(p) \in [CountedSales -> Int]
                    /\ BackTerms(p) \in [Stored(returns) -> Int]
                    /\ OrderTerms(p) \in [Received -> Int]
                    /\ SumFunction(SoldTerms(p)) \in Int
                    /\ SumFunction(BackTerms(p)) \in Int
                    /\ SumFunction(OrderTerms(p)) \in Int
  BY DEF GoodsTotals
<1>1. IsFiniteSet(CountedSales) /\ IsFiniteSet(Received) /\ IsFiniteSet(Stored(returns))
  BY FS_Subset DEF CountedSales, Received, FinitelyMany
<1>2. \A s \in CountedSales : QtyOf(sales[s].bill.items, p) \in Nat
  BY StoredBill, ItemSums DEF CountedSales
<1>3. \A r \in Stored(returns) : QtyOf(returns[r].note.items, p) \in Nat
  BY StoredNote, ItemSums
<1>4. \A o \in Received : orders[o].taken[p] \in Nat
  BY DEF Received, Stored, IInv, DocumentsTyped, Order
<1>5. SoldTerms(p) \in [CountedSales -> Int]
  BY <1>2 DEF SoldTerms
<1>6. BackTerms(p) \in [Stored(returns) -> Int]
  BY <1>3 DEF BackTerms
<1>7. OrderTerms(p) \in [Received -> Int]
  BY <1>4 DEF OrderTerms
<1> QED BY <1>1, <1>5, <1>6, <1>7, SumType

LEMMA GoodsSumsNext == IInv' /\ FinitelyMany' => GoodsTotals'
BY GoodsSums, PTL

LEMMA StockStep ==
  ASSUME IInv, IInv', NotesHaveBills, FinitelyMany, FinitelyMany', StockExplained,
         [Next]_vars
  PROVE  StockExplained'
<1> DEFINE O(p) == SumFunction(OrderTerms(p))
           S(p) == SumFunction(SoldTerms(p))
           R(p) == SumFunction(BackTerms(p))
           Explained(p) == stock[p] = OpeningStock[p] + adjusted[p] + O(p) - S(p) + R(p)
<1>0. \A p \in Products : Explained(p)
  BY StockEquation
<1>t. \A p \in Products :
         /\ stock[p] \in Int /\ stock'[p] \in Int /\ OpeningStock[p] \in Int
         /\ adjusted[p] \in Int /\ adjusted'[p] \in Int
         /\ O(p) \in Int /\ S(p) \in Int /\ R(p) \in Int
         /\ O(p)' \in Int /\ S(p)' \in Int /\ R(p)' \in Int
  BY GoodsSums, GoodsSumsNext, OpeningAssumption DEF GoodsTotals, IInv, GoodsTyped
<1> SUFFICES ASSUME NEW p \in Products PROVE Explained(p)'
  BY DEF StockExplained, Total, SoldTerms, BackTerms, OrderTerms, CountedSales, Received
<1> HIDE DEF O, S, R
<1>k. UNCHANGED orders => O(p)' = O(p)
  BY DEF O, OrderTerms, Received, Stored
<1>1. ASSUME NEW d \in Devices, NEW s \in SaleIds, NEW b \in Bills,
             NEW override \in Flags, NEW offline \in Flags,
             CreateSale(d, s, b, override, offline)
      PROVE  Explained(p)'
  <2>1. /\ stock' = Deducted(b.items) /\ UNCHANGED <<returns, orders, adjusted>>
        /\ b.items \in Items
    BY <1>1, SaleFacts, BodiesAssumption DEF Bill
  <2>2. /\ s \notin CountedSales /\ CountedSales' = CountedSales \cup {s}
        /\ sales'[s].bill = b
        /\ \A x \in CountedSales : sales'[x].bill = sales[x].bill
    BY <1>1, CountedBySale
  <2>3. S(p)' = S(p) + QtyOf(b.items, p)
    <3>1. /\ \A x \in CountedSales : SoldTerms(p)'[x] = SoldTerms(p)[x]
          /\ SoldTerms(p)'[s] = QtyOf(b.items, p)
      BY <2>2 DEF SoldTerms
    <3> DEFINE f == SoldTerms(p)
               g == SoldTerms(p)'
               T == CountedSales
    <3>2. /\ IsFiniteSet(T) /\ f \in [T -> Int] /\ g \in [T \cup {s} -> Int] /\ s \notin T
          /\ (\A x \in T : g[x] = f[x]) /\ g[s] = QtyOf(b.items, p)
      BY <2>2, <3>1, GoodsSums, GoodsSumsNext DEF GoodsTotals
    <3> HIDE DEF f, g, T
    <3>3. SumFunction(g) = SumFunction(f) + QtyOf(b.items, p)
      BY <3>2, SumGrows
    <3> QED BY <3>3 DEF f, g, S
  <2>4. R(p)' = R(p)
    BY <2>1 DEF R, BackTerms, Stored
  <2>5. stock'[p] = stock[p] - QtyOf(b.items, p)
    BY <2>1 DEF Deducted
  <2>6. QtyOf(b.items, p) \in Int
    BY <2>1, ItemSums
  <2> QED BY <1>0, <1>t, <1>k, <2>1, <2>3, <2>4, <2>5, <2>6
<1>2. ASSUME NEW d \in Devices, NEW s \in SaleIds, NEW offline \in Flags,
             VoidSale(d, s, offline)
      PROVE  Explained(p)'
  <2> DEFINE q == QtyOf(sales[s].bill.items, p)
  <2>1. /\ s \in Stored(sales)
        /\ stock' = Restored(sales[s].bill.items) /\ UNCHANGED <<returns, orders, adjusted>>
    BY <1>2, VoidFacts
  <2>q. q \in Int
    BY <2>1, StoredBill, ItemSums
  <2>2. /\ s \notin CountedSales' /\ CountedSales = CountedSales' \cup {s}
        /\ \A x \in CountedSales : sales'[x].bill = sales[x].bill
    BY <1>2, CountedByVoid
  <2>3. S(p) = S(p)' + q
    <3>1. /\ \A x \in CountedSales' : SoldTerms(p)[x] = SoldTerms(p)'[x]
          /\ SoldTerms(p)[s] = q
      BY <2>2 DEF SoldTerms
    <3> DEFINE f == SoldTerms(p)'
               g == SoldTerms(p)
               T == CountedSales'
    <3>2. /\ IsFiniteSet(T) /\ f \in [T -> Int] /\ g \in [T \cup {s} -> Int] /\ s \notin T
          /\ (\A x \in T : g[x] = f[x]) /\ g[s] = q
      BY <2>2, <3>1, GoodsSums, GoodsSumsNext DEF GoodsTotals
    <3> HIDE DEF f, g, T, q
    <3>3. SumFunction(g) = SumFunction(f) + q
      BY <3>2, SumGrows
    <3> QED BY <3>3 DEF f, g, S
  <2>4. R(p)' = R(p)
    BY <2>1 DEF R, BackTerms, Stored
  <2>5. stock'[p] = stock[p] + q
    BY <2>1 DEF Restored
  <2> HIDE DEF q
  <2> QED BY <1>0, <1>t, <1>k, <2>1, <2>q, <2>3, <2>4, <2>5
<1>3. ASSUME NEW d \in Devices, NEW r \in ReturnIds, NEW s \in SaleIds, NEW n \in Notes,
             CreateReturn(d, r, s, n)
      PROVE  Explained(p)'
  <2>1. /\ stock' = Restored(n.items) /\ UNCHANGED <<orders, adjusted>>
        /\ r \notin Stored(returns) /\ Stored(returns)' = Stored(returns) \cup {r}
        /\ returns'[r].note = n
        /\ \A x \in Stored(returns) : returns'[x] = returns[x]
    BY <1>3, ReturnFacts
  <2>2. S(p)' = S(p)
    <3>1. /\ CountedSales' = CountedSales
          /\ \A x \in CountedSales : sales'[x].bill = sales[x].bill
      BY <1>3, CountedByReturn DEF CountedSales
    <3> QED BY <3>1 DEF S, SoldTerms
  <2>3. R(p)' = R(p) + QtyOf(n.items, p)
    <3>1. /\ \A x \in Stored(returns) : BackTerms(p)'[x] = BackTerms(p)[x]
          /\ BackTerms(p)'[r] = QtyOf(n.items, p)
      BY <2>1 DEF BackTerms
    <3> DEFINE f == BackTerms(p)
               g == BackTerms(p)'
               T == Stored(returns)
    <3>2. /\ IsFiniteSet(T) /\ f \in [T -> Int] /\ g \in [T \cup {r} -> Int] /\ r \notin T
          /\ (\A x \in T : g[x] = f[x]) /\ g[r] = QtyOf(n.items, p)
      BY <2>1, <3>1, GoodsSums, GoodsSumsNext DEF GoodsTotals
    <3> HIDE DEF f, g, T
    <3>3. SumFunction(g) = SumFunction(f) + QtyOf(n.items, p)
      BY <3>2, SumGrows
    <3> QED BY <3>3 DEF f, g, R
  <2>4. stock'[p] = stock[p] + QtyOf(n.items, p)
    BY <2>1 DEF Restored
  <2>5. QtyOf(n.items, p) \in Int
    BY Quantities
  <2> QED BY <1>0, <1>t, <1>k, <2>1, <2>2, <2>3, <2>4, <2>5
\* Every other step leaves the bills and the notes, and so their sums.
<1>k2. UNCHANGED <<sales, returns>> => S(p)' = S(p) /\ R(p)' = R(p)
  BY DEF S, R, SoldTerms, BackTerms, CountedSales, CountedSale, NotesOf, Stored
<1>4. ASSUME NEW o \in OrderIds, ReceiveOrder(o)
      PROVE  Explained(p)'
  <2> DEFINE f == orders[o].form
             row == [form |-> f, status |-> "received", taken |-> Taken(f)]
  <2>1. /\ orders[o] # Nil /\ orders[o].status = "open" /\ o \in DOMAIN orders
        /\ stock' = [x \in Products |-> stock[x] + Taken(f)[x]]
        /\ orders' = [orders EXCEPT ![o] = row]
        /\ UNCHANGED <<sales, returns, adjusted>>
    BY <1>4 DEF ReceiveOrder, LockPo, counters, IInv, DocumentsTyped
  <2>2. row.status = "received" /\ row.taken = Taken(f)
    OBVIOUS
  <2>3. row # Nil
    <3>1. f \in Forms
      BY <2>1 DEF IInv, DocumentsTyped, Order
    <3>2. Taken(f) \in [Products -> Nat]
      BY <3>1, Quantities DEF Taken
    <3>3. row \in Order
      BY <3>1, <3>2 DEF Order
    <3> QED BY <3>3, NilAssumption
  <2> HIDE DEF row
  <2>4. o \notin Received /\ Received' = Received \cup {o}
    BY <2>1, <2>2, <2>3 DEF Received, Stored
  <2>5. /\ \A x \in Received : OrderTerms(p)'[x] = OrderTerms(p)[x]
        /\ OrderTerms(p)'[o] = Taken(f)[p]
    BY <2>1, <2>2, <2>4 DEF OrderTerms
  <2>6. OrderTerms(p)' \in [Received \cup {o} -> Int]
    BY <2>4, GoodsSumsNext DEF GoodsTotals
  <2>7. O(p)' = O(p) + Taken(f)[p]
    <3> DEFINE u == OrderTerms(p)
               v == OrderTerms(p)'
               T == Received
    <3>1. /\ IsFiniteSet(T) /\ u \in [T -> Int] /\ v \in [T \cup {o} -> Int] /\ o \notin T
          /\ (\A x \in T : v[x] = u[x]) /\ v[o] = Taken(f)[p]
      BY <2>4, <2>5, <2>6, GoodsSums DEF GoodsTotals
    <3> HIDE DEF u, v, T, f
    <3>2. SumFunction(v) = SumFunction(u) + Taken(f)[p]
      BY <3>1, SumGrows
    <3> QED BY <3>2 DEF u, v, O
  <2>8. Taken(f)[p] \in Int
    BY <2>4, <2>5, <2>6
  <2>9. stock'[p] = stock[p] + Taken(f)[p]
    BY <2>1
  <2> HIDE DEF f
  <2> QED BY <1>0, <1>t, <1>k2, <2>1, <2>7, <2>8, <2>9
<1>5. ASSUME UNCHANGED <<sales, returns>>, UNCHANGED <<stock, adjusted>>,
             Received' = Received,
             \A o \in Received : orders'[o] = orders[o]
      PROVE  Explained(p)'
  <2>1. O(p)' = O(p)
    BY <1>5 DEF O, OrderTerms
  <2> QED BY <1>0, <1>t, <1>k2, <1>5, <2>1
<1>6. ASSUME NEW o \in OrderIds, NEW f \in Forms, CreateOrder(o, f)
      PROVE  Explained(p)'
  <2> DEFINE row == [form |-> f, status |-> "open", taken |-> [x \in Products |-> 0]]
  <2>1. /\ orders[o] = Nil /\ orders' = [orders EXCEPT ![o] = row]
        /\ UNCHANGED <<stock, adjusted, sales, returns>>
    BY <1>6 DEF CreateOrder, goods, counters
  <2>2. row.status = "open"
    OBVIOUS
  <2> HIDE DEF row
  <2>3. Received' = Received /\ \A x \in Received : orders'[x] = orders[x]
    BY <2>1, <2>2 DEF Received, Stored
  <2> QED BY <1>5, <2>1, <2>3
<1>7. ASSUME NEW o \in OrderIds, CancelOrder(o)
      PROVE  Explained(p)'
  <2> DEFINE row == [orders[o] EXCEPT !.status = "cancelled"]
  <2>1. /\ orders[o].status = "open" /\ orders[o] # Nil
        /\ orders' = [orders EXCEPT ![o] = row]
        /\ UNCHANGED <<stock, adjusted, sales, returns>>
    BY <1>7 DEF CancelOrder, LockPo, goods, counters
  <2>2. row.status = "cancelled"
    BY <2>1 DEF IInv, DocumentsTyped, Order
  <2> HIDE DEF row
  <2>3. Received' = Received /\ \A x \in Received : orders'[x] = orders[x]
    BY <2>1, <2>2 DEF Received, Stored
  <2> QED BY <1>5, <2>1, <2>3
<1>8. ASSUME NEW o \in OrderIds, DeleteOrder(o)
      PROVE  Explained(p)'
  <2>1. /\ orders[o].status # "received"
        /\ orders' = [orders EXCEPT ![o] = Nil]
        /\ UNCHANGED <<stock, adjusted, sales, returns>>
    BY <1>8 DEF DeleteOrder, goods, counters
  <2>2. Received' = Received /\ \A x \in Received : orders'[x] = orders[x]
    BY <2>1 DEF Received, Stored
  <2> QED BY <1>5, <2>1, <2>2
<1>9. ASSUME NEW q \in Products, NEW delta \in Deltas, AdjustStock(q, delta)
      PROVE  Explained(p)'
  <2>1. UNCHANGED <<sales, returns, orders>>
    BY <1>9 DEF AdjustStock, counters
  <2>2. stock'[p] - adjusted'[p] = stock[p] - adjusted[p]
    <3>1. AtLeastZero(stock[q] + delta) \in Int
      BY <1>t, BodiesAssumption, AtLeastZeroNat
    <3>2. CASE p = q
      BY <1>9, <1>t, <3>1, <3>2 DEF AdjustStock, IInv, GoodsTyped
    <3>3. CASE p # q
      BY <1>9, <1>t, <3>3 DEF AdjustStock, IInv, GoodsTyped
    <3> QED BY <3>2, <3>3
  <2> QED BY <1>0, <1>t, <1>k, <1>k2, <2>1, <2>2
<1>10. ASSUME UNCHANGED <<sales, returns, orders, stock, adjusted>>
       PROVE  Explained(p)'
  BY <1>0, <1>t, <1>k, <1>k2, <1>10
<1>11. ASSUME UNCHANGED documents
       PROVE  Explained(p)'
  BY <1>10, <1>11 DEF documents, goods
<1>12. ASSUME NEW d \in Devices, NEW cash \in Amounts, CloseShift(d, cash)
       PROVE  Explained(p)'
  BY <1>11, <1>12 DEF CloseShift
<1> QED
  BY Steps, <1>1, <1>2, <1>3, <1>4, <1>6, <1>7, <1>8, <1>9, <1>10, <1>11, <1>12
     DEF CreatePayment, OpenShift, AddEntry, IssueDevice, EnrolDevice, ReportUnsynced,
         RetireDevice, ReplaceDevice, EditCost, DeleteProduct, counters, goods, vars

-----------------------------------------------------------------------------
(* The tabs. *)

TabSales(m) == {s \in Stored(sales) : sales[s].bill.mech = m /\ CountedSale(s)}
Deductions(m) == {r \in Stored(returns) : /\ returns[r].note.method = DEDUCT_FROM_CREDIT
                                          /\ sales[returns[r].sale].bill.mech = m}
PaymentsBy(m) == {p \in Stored(payments) : payments[p].mech = m}

TabTerms(m) == [s \in TabSales(m) |-> OnTab(sales[s].bill)]
DeductTerms(m) == [r \in Deductions(m) |-> returns[r].total]
PaidTerms(m) == [p \in PaymentsBy(m) |-> payments[p].amount]

LEMMA OwedEquation ==
  ASSUME NEW m
  PROVE  Owed(m) = SumFunction(TabTerms(m)) - SumFunction(DeductTerms(m))
                     - SumFunction(PaidTerms(m))
BY DEF Owed, Total, TabTerms, DeductTerms, PaidTerms, TabSales, Deductions, PaymentsBy

TabTotals ==
    \A m \in Mechanics :
        /\ IsFiniteSet(TabSales(m)) /\ IsFiniteSet(Deductions(m)) /\ IsFiniteSet(PaymentsBy(m))
        /\ TabTerms(m) \in [TabSales(m) -> Int]
        /\ DeductTerms(m) \in [Deductions(m) -> Int]
        /\ PaidTerms(m) \in [PaymentsBy(m) -> Int]
        /\ SumFunction(TabTerms(m)) \in Int
        /\ SumFunction(DeductTerms(m)) \in Int
        /\ SumFunction(PaidTerms(m)) \in Int

LEMMA TabSums == IInv /\ FinitelyMany => TabTotals
<1> SUFFICES ASSUME IInv, FinitelyMany, NEW m \in Mechanics
             PROVE  /\ IsFiniteSet(TabSales(m)) /\ IsFiniteSet(Deductions(m))
                    /\ IsFiniteSet(PaymentsBy(m))
                    /\ TabTerms(m) \in [TabSales(m) -> Int]
                    /\ DeductTerms(m) \in [Deductions(m) -> Int]
                    /\ PaidTerms(m) \in [PaymentsBy(m) -> Int]
                    /\ SumFunction(TabTerms(m)) \in Int
                    /\ SumFunction(DeductTerms(m)) \in Int
                    /\ SumFunction(PaidTerms(m)) \in Int
  BY DEF TabTotals
<1>1. /\ IsFiniteSet(TabSales(m)) /\ IsFiniteSet(Deductions(m))
      /\ IsFiniteSet(PaymentsBy(m))
  BY FS_Subset DEF TabSales, Deductions, PaymentsBy, FinitelyMany
<1>2. \A s \in TabSales(m) : OnTab(sales[s].bill) \in Int
  <2>1. \A s \in TabSales(m) : sales[s].bill.total \in Nat
    BY StoredBill DEF TabSales, Bill
  <2> QED BY <2>1 DEF OnTab
<1>3. \A r \in Deductions(m) : returns[r].total \in Int
  BY StoredNote DEF Deductions
<1>4. \A p \in PaymentsBy(m) : payments[p].amount \in Int
  <2>1. \A p \in PaymentsBy(m) : payments[p] \in Payment
    BY DEF PaymentsBy, Stored, IInv, DocumentsTyped
  <2>2. \A p \in PaymentsBy(m) : payments[p].amount \in Amounts
    BY <2>1 DEF Payment
  <2>3. Amounts \subseteq Int
    BY BodiesAssumption
  <2> QED BY <2>2, <2>3
<1>5. TabTerms(m) \in [TabSales(m) -> Int]
  BY <1>2 DEF TabTerms
<1>6. DeductTerms(m) \in [Deductions(m) -> Int]
  BY <1>3 DEF DeductTerms
<1>7. PaidTerms(m) \in [PaymentsBy(m) -> Int]
  BY <1>4 DEF PaidTerms
<1> QED BY <1>1, <1>5, <1>6, <1>7, SumType

LEMMA TabSumsNext == IInv' /\ FinitelyMany' => TabTotals'
BY TabSums, PTL

\* The bills on a tab, and what they put there.
LEMMA TabSalesKept ==
  ASSUME NEW m, TabSales(m)' = TabSales(m),
         \A s \in TabSales(m) : sales'[s].bill = sales[s].bill
  PROVE  SumFunction(TabTerms(m))' = SumFunction(TabTerms(m))
BY DEF TabTerms

LEMMA DeductionsKept ==
  ASSUME NEW m, Deductions(m)' = Deductions(m),
         \A r \in Deductions(m) : returns'[r] = returns[r]
  PROVE  SumFunction(DeductTerms(m))' = SumFunction(DeductTerms(m))
BY DEF DeductTerms

LEMMA PaymentsByKept ==
  ASSUME UNCHANGED payments, NEW m
  PROVE  SumFunction(PaidTerms(m))' = SumFunction(PaidTerms(m))
BY DEF PaidTerms, PaymentsBy, Stored

TabFollows(m) == mechanics[m].tab' = AtLeastZero(mechanics[m].tab + Owed(m)' - Owed(m))

LEMMA TabStep ==
  ASSUME IInv, IInv', NotesHaveBills, FinitelyMany, FinitelyMany', [Next]_vars,
         NEW m \in Mechanics
  PROVE  TabFollows(m)
<1> DEFINE A == SumFunction(TabTerms(m))
           B == SumFunction(DeductTerms(m))
           C == SumFunction(PaidTerms(m))
           tab == mechanics[m].tab
<1>0. Owed(m) = A - B - C /\ Owed(m)' = A' - B' - C'
  <2>1. Owed(m)' = SumFunction(TabTerms(m))' - SumFunction(DeductTerms(m))'
                     - SumFunction(PaidTerms(m))'
    BY DEF Owed, Total, TabTerms, DeductTerms, PaidTerms, TabSales, Deductions, PaymentsBy
  <2> QED BY <2>1, OwedEquation
<1>t. /\ A \in Int /\ B \in Int /\ C \in Int /\ A' \in Int /\ B' \in Int /\ C' \in Int
      /\ tab \in Nat /\ tab' \in Nat
  BY TabSums, TabSumsNext DEF TabTotals, IInv, LedgersTyped
<1>z. \A i \in Nat : AtLeastZero(i) = i
  BY DEF AtLeastZero
<1> HIDE DEF A, B, C
\* A step that moves the tab as it moves the documents.
<1>a. ASSUME NEW q \in Int, tab' = AtLeastZero(tab + q), A' - B' - C' = A - B - C + q
      PROVE  TabFollows(m)
  BY <1>0, <1>t, <1>a DEF TabFollows
\* A step that moves neither.
<1>b. ASSUME tab' = tab, A' = A, B' = B, C' = C
      PROVE  TabFollows(m)
  <2>1. tab' = AtLeastZero(tab + 0) /\ A' - B' - C' = A - B - C + 0
    BY <1>t, <1>z, <1>b
  <2> QED BY <1>a, <2>1
<1>n. m # Nil
  BY NilAssumption
<1>1. ASSUME NEW d \in Devices, NEW s \in SaleIds, NEW b \in Bills,
             NEW override \in Flags, NEW offline \in Flags,
             CreateSale(d, s, b, override, offline)
      PROVE  TabFollows(m)
  <2>1. /\ s \notin Stored(sales) /\ Stored(sales)' = Stored(sales) \cup {s}
        /\ sales'[s].bill = b
        /\ \A x \in Stored(sales) : sales'[x] = sales[x]
        /\ mechanics' = ApplyMechanic(b) /\ UNCHANGED <<returns, payments>>
    BY <1>1, SaleFacts
  <2>2. CountedSales' = CountedSales \cup {s} /\ s \notin CountedSales
    BY <1>1, CountedBySale
  <2>3. C' = C
    BY <2>1, PaymentsByKept DEF C
  <2>4. B' = B
    <3>1. \A r \in Stored(returns) : returns[r].sale \in Stored(sales)
      BY StoredNote DEF NotesHaveBills, Stored, IInv, DocumentsTyped
    <3>2. Deductions(m)' = Deductions(m)
      BY <2>1, <3>1 DEF Deductions, Stored
    <3> QED BY <2>1, <3>2, DeductionsKept DEF B
  <2>5. TabSales(m) = {x \in CountedSales : sales[x].bill.mech = m}
    BY DEF TabSales, CountedSales
  <2>6. TabSales(m)' = {x \in CountedSales' : sales'[x].bill.mech = m}
    BY DEF TabSales, CountedSales
  <2>7. CASE b.mech # m
    <3>1. tab' = tab
      BY <2>1, <2>7 DEF ApplyMechanic
    <3>2. A' = A
      BY <2>1, <2>2, <2>5, <2>6, <2>7, TabSalesKept DEF A, CountedSales
    <3> QED BY <1>b, <2>3, <2>4, <3>1, <3>2
  <2>8. CASE b.mech = m
    <3>1. tab' = tab + OnTab(b)
      BY <2>1, <2>8 DEF ApplyMechanic
    <3>2. OnTab(b) \in Nat
      BY BodiesAssumption DEF Bill, OnTab
    <3>3. TabSales(m)' = TabSales(m) \cup {s} /\ s \notin TabSales(m)
      BY <2>1, <2>2, <2>5, <2>6, <2>8 DEF CountedSales
    <3> DEFINE f == TabTerms(m)
               g == TabTerms(m)'
               T == TabSales(m)
    <3>4. (\A x \in T : g[x] = f[x]) /\ g[s] = OnTab(b)
      BY <2>1, <2>8, <3>3 DEF TabTerms, TabSales
    <3>5. IsFiniteSet(T) /\ f \in [T -> Int] /\ g \in [T \cup {s} -> Int] /\ s \notin T
      BY <3>3, TabSums, TabSumsNext DEF TabTotals
    <3>6. A' = A + OnTab(b)
      <4> HIDE DEF f, g, T
      <4>1. SumFunction(g) = SumFunction(f) + OnTab(b)
        BY <3>4, <3>5, SumGrows
      <4> QED BY <4>1 DEF f, g, A
    <3>7. tab' = AtLeastZero(tab + OnTab(b)) /\ A' - B' - C' = A - B - C + OnTab(b)
      BY <1>t, <1>z, <2>3, <2>4, <3>1, <3>2, <3>6
    <3> QED BY <1>a, <3>2, <3>7
  <2> QED BY <2>7, <2>8
<1>2. ASSUME NEW d \in Devices, NEW s \in SaleIds, NEW offline \in Flags,
             VoidSale(d, s, offline)
      PROVE  TabFollows(m)
  <2> DEFINE b == sales[s].bill
  <2>1. /\ s \in Stored(sales) /\ Stored(sales)' = Stored(sales)
        /\ mechanics' = UndoMechanic(sales[s]) /\ UNCHANGED <<returns, payments>>
        /\ sales'[s].bill = b
        /\ \A x \in Stored(sales) \ {s} : sales'[x] = sales[x]
    BY <1>2, VoidFacts
  <2>2. CountedSales = CountedSales' \cup {s} /\ s \notin CountedSales'
    BY <1>2, CountedByVoid
  <2>3. C' = C
    BY <2>1, PaymentsByKept DEF C
  <2>4. B' = B
    <3>1. \A r \in Stored(returns) : returns[r].sale \in Stored(sales)
      BY StoredNote DEF NotesHaveBills, Stored, IInv, DocumentsTyped
    <3>2. Deductions(m)' = Deductions(m)
      BY <2>1, <3>1 DEF Deductions, Stored
    <3> QED BY <2>1, <3>2, DeductionsKept DEF B
  <2>5. TabSales(m) = {x \in CountedSales : sales[x].bill.mech = m}
    BY DEF TabSales, CountedSales
  <2>6. TabSales(m)' = {x \in CountedSales' : sales'[x].bill.mech = m}
    BY DEF TabSales, CountedSales
  <2>b. \A x \in Stored(sales) : sales'[x].bill = sales[x].bill
    BY <2>1
  <2>c. CountedSales \subseteq Stored(sales)
    BY DEF CountedSales
  <2>7. CASE b.mech # m
    <3>1. tab' = tab
      BY <2>1, <2>7 DEF UndoMechanic
    <3>2. A' = A
      <4>1. TabSales(m)' = TabSales(m)
        BY <2>2, <2>5, <2>6, <2>7, <2>b, <2>c
      <4> QED BY <2>5, <2>b, <2>c, <4>1, TabSalesKept DEF A
    <3> QED BY <1>b, <2>3, <2>4, <3>1, <3>2
  <2>8. CASE b.mech = m
    <3>1. tab' = AtLeastZero(tab - OnTab(b))
      BY <2>1, <2>8 DEF UndoMechanic
    <3>2. OnTab(b) \in Nat
      <4>1. b.total \in Nat
        BY <2>1, StoredBill DEF Bill
      <4> QED BY <4>1 DEF OnTab
    <3>3. TabSales(m) = TabSales(m)' \cup {s} /\ s \notin TabSales(m)'
      BY <2>2, <2>5, <2>6, <2>8, <2>b, <2>c
    <3> DEFINE f == TabTerms(m)'
               g == TabTerms(m)
               T == TabSales(m)'
    <3>4. (\A x \in T : g[x] = f[x]) /\ g[s] = OnTab(b)
      BY <2>1, <2>5, <2>8, <2>b, <2>c, <3>3 DEF TabTerms
    <3>5. IsFiniteSet(T) /\ f \in [T -> Int] /\ g \in [T \cup {s} -> Int] /\ s \notin T
      BY <3>3, TabSums, TabSumsNext DEF TabTotals
    <3> HIDE DEF b
    <3>6. A = A' + OnTab(b)
      <4> HIDE DEF f, g, T
      <4>1. SumFunction(g) = SumFunction(f) + OnTab(b)
        BY <3>4, <3>5, SumGrows
      <4> QED BY <4>1 DEF f, g, A
    <3>7. tab' = AtLeastZero(tab + (- OnTab(b))) /\ A' - B' - C' = A - B - C + (- OnTab(b))
      BY <1>t, <2>3, <2>4, <3>1, <3>2, <3>6
    <3> QED BY <1>a, <3>2, <3>7
  <2> QED BY <2>7, <2>8
<1>3. ASSUME NEW d \in Devices, NEW r \in ReturnIds, NEW s \in SaleIds, NEW n \in Notes,
             CreateReturn(d, r, s, n)
      PROVE  TabFollows(m)
  <2> DEFINE b == sales[s].bill
             refund == RefundAmount(b, n.items)
             Deducts == n.method = DEDUCT_FROM_CREDIT /\ b.mech = m
  <2>1. /\ s \in Stored(sales) /\ Stored(sales)' = Stored(sales)
        /\ mechanics' = ReverseMechanic(b, n, refund) /\ UNCHANGED payments
        /\ r \notin Stored(returns) /\ Stored(returns)' = Stored(returns) \cup {r}
        /\ returns'[r].sale = s /\ returns'[r].note = n /\ returns'[r].total = refund
        /\ \A x \in Stored(returns) : returns'[x] = returns[x]
    BY <1>3, ReturnFacts
  <2>2. /\ CountedSales' = CountedSales
        /\ \A x \in Stored(sales) : sales'[x].bill = sales[x].bill
    BY <1>3, CountedByReturn
  <2>r. refund \in Int
    BY <2>1, StoredBill, RefundInt
  <2>c. CountedSales \subseteq Stored(sales)
    BY DEF CountedSales
  <2> HIDE DEF refund
  <2>3. C' = C
    BY <2>1, PaymentsByKept DEF C
  <2>4. A' = A
    <3>1. TabSales(m) = {x \in CountedSales : sales[x].bill.mech = m}
      BY DEF TabSales, CountedSales
    <3>2. TabSales(m)' = {x \in CountedSales' : sales'[x].bill.mech = m}
      BY DEF TabSales, CountedSales
    <3>3. TabSales(m)' = TabSales(m)
      BY <2>2, <2>c, <3>1, <3>2
    <3> QED BY <2>2, <2>c, <3>1, <3>3, TabSalesKept DEF A
  <2>5. \A x \in Stored(returns) : returns[x].sale \in Stored(sales)
    BY StoredNote DEF NotesHaveBills, Stored, IInv, DocumentsTyped
  <2>6. Deductions(m)' = IF Deducts THEN Deductions(m) \cup {r} ELSE Deductions(m)
    <3>1. \A x \in Stored(returns) :
             sales'[returns'[x].sale].bill = sales[returns[x].sale].bill
      BY <2>1, <2>2, <2>5
    <3>2. sales'[returns'[r].sale].bill = b
      BY <2>1, <2>2
    <3> HIDE DEF b
    <3> QED BY <2>1, <3>1, <3>2 DEF Deductions
  <2>7. CASE ~ Deducts
    <3>1. B' = B
      BY <2>1, <2>6, <2>7, DeductionsKept DEF B, Deductions
    <3>2. tab' = tab
      <4>1. CASE b.mech # m
        BY <2>1, <4>1 DEF ReverseMechanic
      <4>2. CASE b.mech = m
        <5>1. OffTab(b, n, refund) = 0
          BY <2>7, <4>2 DEF OffTab
        <5>2. tab' = AtLeastZero(tab - OffTab(b, n, refund))
          BY <2>1, <4>2 DEF ReverseMechanic
        <5>3. tab - 0 = tab
          BY <1>t
        <5> QED BY <1>t, <1>z, <5>1, <5>2, <5>3
      <4> QED BY <4>1, <4>2
    <3> QED BY <1>b, <2>3, <2>4, <3>1, <3>2
  <2>8. CASE Deducts
    <3>1. tab' = AtLeastZero(tab - refund)
      <4>1. tab' = AtLeastZero(tab - OffTab(b, n, refund))
        BY <2>1, <2>8 DEF ReverseMechanic
      <4>2. OffTab(b, n, refund) = refund
        BY <2>8 DEF OffTab
      <4> QED BY <4>1, <4>2
    <3>2. Deductions(m)' = Deductions(m) \cup {r} /\ r \notin Deductions(m)
      BY <2>1, <2>6, <2>8 DEF Deductions
    <3> DEFINE f == DeductTerms(m)
               g == DeductTerms(m)'
               T == Deductions(m)
    <3>3. (\A x \in T : g[x] = f[x]) /\ g[r] = refund
      BY <2>1, <3>2 DEF DeductTerms, Deductions
    <3>4. IsFiniteSet(T) /\ f \in [T -> Int] /\ g \in [T \cup {r} -> Int] /\ r \notin T
      BY <3>2, TabSums, TabSumsNext DEF TabTotals
    <3>5. B' = B + refund
      <4> HIDE DEF f, g, T
      <4>1. SumFunction(g) = SumFunction(f) + refund
        BY <3>3, <3>4, SumGrows
      <4> QED BY <4>1 DEF f, g, B
    <3>6. - refund \in Int /\ tab - refund = tab + (- refund)
      BY <1>t, <2>r
    <3>7. A' - B' - C' = A - B - C + (- refund)
      BY <1>t, <2>r, <2>3, <2>4, <3>5
    <3>8. tab' = AtLeastZero(tab + (- refund))
      BY <3>1, <3>6
    <3> QED BY <1>a, <3>6, <3>7, <3>8
  <2> QED BY <2>7, <2>8
<1>4. ASSUME NEW d \in Devices, NEW p \in PaymentIds, NEW q \in Mechanics,
             NEW amount \in Amounts, NEW method \in {CASH, TRANSFER}, NEW allow \in Flags,
             CreatePayment(d, p, q, amount, method, allow)
      PROVE  TabFollows(m)
  <2>1. /\ payments[p] = Nil /\ UNCHANGED <<sales, returns>>
        /\ mechanics' = Reduced(q, amount)
    BY <1>4 DEF CreatePayment, ExistingPayment, documents
  <2>2. PICK h \in OpenShifts(d) :
           payments' = [payments EXCEPT ![p] = [mech |-> q, amount |-> amount,
                                                method |-> method, shift |-> h]]
    BY <1>4 DEF CreatePayment
  <2> DEFINE row == [mech |-> q, amount |-> amount, method |-> method, shift |-> h]
  <2>3. row # Nil /\ row.mech = q /\ row.amount = amount
    <3>1. row \in Payment
      BY DEF OpenShifts, Stored, IInv, DrawersTyped, Payment
    <3> QED BY <3>1, NilAssumption
  <2> HIDE DEF row
  <2>4. /\ payments'[p] = row
        /\ \A x \in Stored(payments) : payments'[x] = payments[x]
        /\ p \notin Stored(payments) /\ Stored(payments)' = Stored(payments) \cup {p}
    <3>1. DOMAIN payments = PaymentIds
      BY DEF IInv, DocumentsTyped
    <3>2. payments' = [payments EXCEPT ![p] = row]
      BY <2>2 DEF row
    <3>3. payments'[p] = row /\ \A x \in PaymentIds \ {p} : payments'[x] = payments[x]
      BY <3>1, <3>2
    <3>4. DOMAIN payments' = PaymentIds
      BY <3>1, <3>2
    <3> QED BY <2>1, <2>3, <3>1, <3>3, <3>4 DEF Stored
  <2>5. A' = A /\ B' = B
    BY <2>1 DEF A, B, TabTerms, TabSales, DeductTerms, Deductions, CountedSale, NotesOf, Stored
  <2>6. CASE q # m
    <3>1. tab' = tab
      BY <2>1, <2>6 DEF Reduced, IInv, LedgersTyped
    <3>2. PaymentsBy(m)' = PaymentsBy(m)
      BY <2>3, <2>4, <2>6 DEF PaymentsBy
    <3>3. C' = C
      BY <2>4, <3>2 DEF C, PaidTerms, PaymentsBy
    <3> QED BY <1>b, <2>5, <3>1, <3>3
  <2>7. CASE q = m
    <3>1. tab' = AtLeastZero(tab - amount)
      BY <2>1, <2>7 DEF Reduced, IInv, LedgersTyped
    <3>2. PaymentsBy(m)' = PaymentsBy(m) \cup {p} /\ p \notin PaymentsBy(m)
      BY <2>3, <2>4, <2>7 DEF PaymentsBy
    <3> DEFINE f == PaidTerms(m)
               g == PaidTerms(m)'
               T == PaymentsBy(m)
    <3>3. (\A x \in T : g[x] = f[x]) /\ g[p] = amount
      BY <2>3, <2>4, <3>2 DEF PaidTerms, PaymentsBy
    <3>4. IsFiniteSet(T) /\ f \in [T -> Int] /\ g \in [T \cup {p} -> Int] /\ p \notin T
      BY <3>2, TabSums, TabSumsNext DEF TabTotals
    <3>5. C' = C + amount
      <4> HIDE DEF f, g, T
      <4>1. SumFunction(g) = SumFunction(f) + amount
        BY <3>3, <3>4, SumGrows
      <4> QED BY <4>1 DEF f, g, C
    <3>6. amount \in Int /\ - amount \in Int /\ tab - amount = tab + (- amount)
      BY <1>t, BodiesAssumption
    <3>7. A' - B' - C' = A - B - C + (- amount)
      BY <1>t, <2>5, <3>5, <3>6
    <3> QED BY <1>a, <3>1, <3>6, <3>7
  <2> QED BY <2>6, <2>7
<1>5. ASSUME UNCHANGED <<sales, returns, payments, mechanics>>
      PROVE  TabFollows(m)
  BY <1>5, <1>b DEF A, B, C, TabTerms, TabSales, DeductTerms, Deductions, PaidTerms, PaymentsBy,
                    CountedSale, NotesOf, Stored
<1>6. ASSUME NEW d \in Devices, NEW cash \in Amounts, CloseShift(d, cash)
      PROVE  UNCHANGED <<sales, returns, payments, mechanics>>
  BY <1>6 DEF CloseShift, documents, ledgers
<1> QED
  BY Steps, <1>1, <1>2, <1>3, <1>4, <1>5, <1>6
     DEF OpenShift, AddEntry, IssueDevice, EnrolDevice, ReportUnsynced, RetireDevice,
         ReplaceDevice, CreateOrder, ReceiveOrder, CancelOrder, DeleteOrder, AdjustStock,
         EditCost, DeleteProduct, documents, ledgers, counters, vars

-----------------------------------------------------------------------------
(* The money.  The products of the rates are named, so that each leaf is    *)
(* linear.                                                                 *)

\* Math.round is off by half the divisor at most.
LEMMA RoundedClose ==
  ASSUME NEW n \in Nat, NEW d \in Nat \ {0}
  PROVE  /\ Rounded(n, d) \in Int
         /\ 2 * (d * Rounded(n, d)) - 2 * n <= d
         /\ 2 * n - 2 * (d * Rounded(n, d)) <= d
<1> DEFINE a == 2 * n + d
           c == 2 * d
           q == a \div c
<1>1. a \in Int /\ c \in Int /\ c > 0
  OBVIOUS
<1>2. q \in Int /\ c * q <= a /\ a < c * q + c
  <2> HIDE DEF a, c
  <2> QED BY <1>1
<1>3. c * q = 2 * (d * q)
  <2>1. \A x, y \in Int : (2 * x) * y = 2 * (x * y)
    OBVIOUS
  <2> HIDE DEF q
  <2> QED BY <1>2, <2>1
<1>4. d * q \in Int
  <2> HIDE DEF q
  <2> QED BY <1>2
<1>5. Rounded(n, d) = q
  BY DEF Rounded
<1> HIDE DEF q
<1>6. \A m \in Int : (2 * m <= a /\ a < 2 * m + c) => (2 * m - 2 * n <= d /\ 2 * n - 2 * m <= d)
  OBVIOUS
<1>7. 2 * (d * q) <= a /\ a < 2 * (d * q) + c
  BY <1>2, <1>3
<1> QED BY <1>2, <1>4, <1>5, <1>6, <1>7

\* A factor that is positive may be cancelled.
LEMMA Cancelled ==
  ASSUME NEW d \in Nat \ {0}, NEW x \in Int, NEW y \in Int, d * x <= d * y
  PROVE  x <= y
<1> SUFFICES ASSUME y < x PROVE FALSE
  OBVIOUS
<1>1. PICK z \in Nat : x = y + 1 + z
  <2>1. x - y - 1 \in Nat /\ x = y + 1 + (x - y - 1)
    OBVIOUS
  <2> QED BY <2>1
<1>2. d * x = d * y + d + d * z
  BY <1>1
<1>3. d * z \in Nat /\ d * y \in Int
  BY <1>1
<1> QED BY <1>2, <1>3

\* What came back is worth W, for which A was refunded in k notes.
Rated(b, W, A, k) ==
    IF b.subtotal > 0
    THEN /\ 2 * (b.subtotal * (W - A)) - 2 * (W * b.discount) <= k * b.subtotal
         /\ 2 * (W * b.discount) - 2 * (b.subtotal * (W - A)) <= k * b.subtotal
    ELSE A = W

\* One more note, refunded at the bill's rate, adds its rounding and no more.
LEMMA RatedStep ==
  ASSUME NEW b \in Bill, b.discount <= b.subtotal,
         NEW W \in Nat, NEW A \in Int, NEW k \in Nat, Rated(b, W, A, k),
         NEW items, Worth(items) \in Nat
  PROVE  Rated(b, W + Worth(items), A + RefundAmount(b, items), k + 1)
<1> DEFINE w == Worth(items)
           d == b.subtotal
           e == b.discount
           R == Rounded(w * e, d)
<1>1. d \in Nat /\ e \in Nat /\ w \in Nat /\ w * e \in Nat
  BY DEF Bill
<1> HIDE DEF w, d, e
<1>2. CASE d > 0
  <2>1. /\ R \in Int
        /\ 2 * (d * R) - 2 * (w * e) <= d
        /\ 2 * (w * e) - 2 * (d * R) <= d
    BY <1>1, <1>2, RoundedClose
  <2>2. RefundAmount(b, items) = w - R
    BY <1>2 DEF RefundAmount, w, d, e
  <2> HIDE DEF R
  <2>3. (W + w) - (A + (w - R)) = (W - A) + R
    BY <1>1, <2>1
  <2>4. /\ d * ((W - A) + R) = d * (W - A) + d * R
        /\ (W + w) * e = W * e + w * e
        /\ (k + 1) * d = k * d + d
    BY <1>1, <2>1
  <2>5. /\ d * (W - A) \in Int /\ d * R \in Int /\ W * e \in Int /\ w * e \in Int
        /\ k * d \in Int
    BY <1>1, <2>1
  <2>6. /\ 2 * (d * (W - A)) - 2 * (W * e) <= k * d
        /\ 2 * (W * e) - 2 * (d * (W - A)) <= k * d
    BY <1>2 DEF Rated, d, e
  <2>7. \A i, j, l, m, n \in Int :
           /\ 2 * i - 2 * j <= n /\ 2 * l - 2 * m <= d =>
                2 * (i + l) - 2 * (j + m) <= n + d
           /\ 2 * j - 2 * i <= n /\ 2 * m - 2 * l <= d =>
                2 * (j + m) - 2 * (i + l) <= n + d
    BY <1>1
  <2>8. /\ 2 * (d * (W - A) + d * R) - 2 * (W * e + w * e) <= k * d + d
        /\ 2 * (W * e + w * e) - 2 * (d * (W - A) + d * R) <= k * d + d
    BY <2>1, <2>5, <2>6, <2>7
  <2>9. /\ 2 * (d * ((W + w) - (A + (w - R)))) - 2 * ((W + w) * e) <= (k + 1) * d
        /\ 2 * ((W + w) * e) - 2 * (d * ((W + w) - (A + (w - R)))) <= (k + 1) * d
    BY <2>3, <2>4, <2>8, Zenon
  <2> QED BY <1>2, <2>2, <2>9 DEF Rated, w, d, e
<1>3. CASE ~ (d > 0)
  <2>1. RefundAmount(b, items) = w
    BY <1>1, <1>3 DEF RefundAmount, w, d
  <2> QED BY <1>3, <2>1 DEF Rated, w, d
<1> QED BY <1>2, <1>3

\* The rate, turned into the bill's own money.
LEMMA RatedMoney ==
  ASSUME NEW b \in Bill, b.discount <= b.subtotal, AssertTotals(b), Worth(b.items) \in Nat,
         NEW W \in Nat, NEW A \in Int, NEW k \in Nat, Rated(b, W, A, k), W <= Worth(b.items)
  PROVE  /\ 2 * (A - b.total) <= k + 4
         /\ W = Worth(b.items) => - (2 * (A - b.total)) <= k + 4
<1> DEFINE w == Worth(b.items)
           d == b.subtotal
           e == d - b.discount
           T == b.total
<1>1. /\ d \in Nat /\ w \in Nat /\ T \in Nat /\ e \in Nat /\ e <= d
      /\ b.discount \in Nat /\ b.discount = d - e
      /\ W <= w
  BY DEF Bill
<1>2. /\ w - d <= 1 /\ d - w <= 1
      /\ (w - (d - e)) - T <= 1 /\ T - (w - (d - e)) <= 1
  BY <1>1 DEF AssertTotals, Near
<1>r. IF d > 0
      THEN /\ 2 * (d * (W - A)) - 2 * (W * (d - e)) <= k * d
           /\ 2 * (W * (d - e)) - 2 * (d * (W - A)) <= k * d
      ELSE A = W
  BY <1>1 DEF Rated
<1> SUFFICES /\ 2 * (A - T) <= k + 4
             /\ W = w => - (2 * (A - T)) <= k + 4
  OBVIOUS
<1> HIDE DEF w, d, e, T
<1>3. CASE d = 0
  <2>1. e = 0 /\ A = W
    BY <1>1, <1>3, <1>r
  <2> QED BY <1>1, <1>2, <1>3, <2>1
<1>4. CASE d > 0
  <2>1. /\ d * (W - A) = d * W - d * A
        /\ W * (d - e) = d * W - W * e
    BY <1>1
  <2>2. /\ d * W \in Int /\ d * A \in Int /\ W * e \in Int /\ k * d \in Int /\ d * e \in Int
        /\ w * e \in Int
    BY <1>1
  <2>3. /\ 2 * (d * A) <= 2 * (W * e) + k * d
        /\ 2 * (W * e) <= 2 * (d * A) + k * d
    <3>1. /\ 2 * (d * W - d * A) - 2 * (d * W - W * e) <= k * d
          /\ 2 * (d * W - W * e) - 2 * (d * W - d * A) <= k * d
      BY <1>r, <1>4, <2>1
    <3>2. \A i, j, l, m \in Int :
             /\ 2 * (i - j) - 2 * (i - l) <= m => 2 * l <= 2 * j + m
             /\ 2 * (i - l) - 2 * (i - j) <= m => 2 * j <= 2 * l + m
      OBVIOUS
    <3> QED BY <2>2, <3>1, <3>2
  <2>4. W * e <= w * e
    <3>1. PICK z \in Nat : w = W + z
      <4>1. w - W \in Nat /\ w = W + (w - W)
        BY <1>1
      <4> QED BY <4>1
    <3>2. w * e = W * e + z * e /\ z * e \in Nat
      BY <1>1, <3>1
    <3> QED BY <2>2, <3>2
  \* In each case of w the factor d is cancelled on both sides.
  <2>5. ASSUME NEW x \in Int, 2 * (d * A) <= d * x PROVE 2 * A <= x
    <3>1. d * (2 * A) = 2 * (d * A) /\ 2 * A \in Int
      BY <1>1
    <3>2. d * (2 * A) <= d * x
      BY <2>5, <3>1
    <3> QED BY <1>1, <1>4, <3>1, <3>2, Cancelled
  <2>6. ASSUME NEW x \in Int, d * x <= 2 * (d * A) PROVE x <= 2 * A
    <3>1. d * (2 * A) = 2 * (d * A) /\ 2 * A \in Int
      BY <1>1
    <3>2. d * x <= d * (2 * A)
      BY <2>6, <3>1
    <3> QED BY <1>1, <1>4, <3>1, <3>2, Cancelled
  <2>7. /\ d * (2 * e + k) = 2 * (d * e) + k * d
        /\ d * (2 * e + k + 2) = 2 * (d * e) + k * d + 2 * d
        /\ d * (2 * e - k) = 2 * (d * e) - k * d
        /\ d * (2 * e - k - 2) = 2 * (d * e) - k * d - 2 * d
        /\ 2 * e + k \in Int /\ 2 * e + k + 2 \in Int /\ 2 * e - k \in Int /\ 2 * e - k - 2 \in Int
    BY <1>1
  <2>8. w = d + 1 \/ w = d \/ w = d - 1
    BY <1>1, <1>2
  <2>9. CASE w = d + 1
    <3>1. w * e = d * e + e
      BY <1>1, <2>9
    <3>2. 2 * A <= 2 * e + k + 2
      <4>1. 2 * (d * A) <= d * (2 * e + k + 2)
        BY <1>1, <2>2, <2>3, <2>4, <2>7, <3>1
      <4> QED BY <2>5, <2>7, <4>1
    <3>3. W = w => 2 * e - k <= 2 * A
      <4>1. W = w => d * (2 * e - k) <= 2 * (d * A)
        BY <1>1, <2>2, <2>3, <2>7, <3>1
      <4> QED BY <2>6, <2>7, <4>1
    <3> QED BY <1>1, <1>2, <2>9, <3>2, <3>3
  <2>10. CASE w = d
    <3>1. 2 * A <= 2 * e + k
      <4>1. 2 * (d * A) <= d * (2 * e + k)
        BY <1>1, <2>2, <2>3, <2>4, <2>7, <2>10
      <4> QED BY <2>5, <2>7, <4>1
    <3>2. W = w => 2 * e - k <= 2 * A
      <4>1. W = w => d * (2 * e - k) <= 2 * (d * A)
        BY <1>1, <2>2, <2>3, <2>7, <2>10
      <4> QED BY <2>6, <2>7, <4>1
    <3> QED BY <1>1, <1>2, <2>10, <3>1, <3>2
  <2>11. CASE w = d - 1
    <3>1. w * e = d * e - e
      BY <1>1, <2>11
    <3>2. 2 * A <= 2 * e + k
      <4>1. 2 * (d * A) <= d * (2 * e + k)
        BY <1>1, <2>2, <2>3, <2>4, <2>7, <3>1
      <4> QED BY <2>5, <2>7, <4>1
    <3>3. W = w => 2 * e - k - 2 <= 2 * A
      <4>1. W = w => d * (2 * e - k - 2) <= 2 * (d * A)
        BY <1>1, <2>2, <2>3, <2>7, <3>1
      <4> QED BY <2>6, <2>7, <4>1
    <3> QED BY <1>1, <1>2, <2>11, <3>2, <3>3
  <2> QED BY <2>8, <2>9, <2>10, <2>11
<1> QED BY <1>1, <1>3, <1>4

\* What the credit notes of a bill paid back, and what the notes took back is worth.
BackMoney(s) == [r \in NotesOf(s) |-> returns[r].total]

MoneyRated ==
    \A s \in Stored(sales) :
        Rated(sales[s].bill, Worth(Back(s)), SumFunction(BackMoney(s)),
              Cardinality(NotesOf(s)))

LEMMA BackMoneySum ==
  ASSUME IInv, FinitelyMany, NEW s
  PROVE  /\ IsFiniteSet(NotesOf(s)) /\ Cardinality(NotesOf(s)) \in Nat
         /\ BackMoney(s) \in [NotesOf(s) -> Int]
         /\ SumFunction(BackMoney(s)) \in Int
         /\ Worth(Back(s)) \in Nat
<1>1. IsFiniteSet(NotesOf(s)) /\ Cardinality(NotesOf(s)) \in Nat
  BY FS_Subset, FS_CardinalityType DEF NotesOf, FinitelyMany
<1>2. \A r \in NotesOf(s) : returns[r].total \in Int
  BY StoredNote DEF NotesOf
<1>3. BackMoney(s) \in [NotesOf(s) -> Int]
  BY <1>2 DEF BackMoney
<1> QED BY <1>1, <1>3, SumType, BackItems, ItemSums

\* Worth adds up, and grows with the quantities.
LEMMA WorthPlus ==
  ASSUME NEW x \in Items, NEW y \in Items, NEW z \in Items,
         \A l \in Lines : z[l] = x[l] + y[l]
  PROVE  Worth(z) = Worth(x) + Worth(y)
<1> DEFINE f == [l \in Lines |-> x[l] * l[2]]
           g == [l \in Lines |-> y[l] * l[2]]
           h == [l \in Lines |-> z[l] * l[2]]
<1>1. \A l \in Lines : l[2] \in Nat /\ x[l] \in Nat /\ y[l] \in Nat /\ z[l] \in Nat
  BY BodiesAssumption DEF Lines, Items
<1>2. \A l \in Lines : z[l] * l[2] = x[l] * l[2] + y[l] * l[2]
  <2>1. \A i, j, k \in Nat : (i + j) * k = i * k + j * k
    OBVIOUS
  <2> QED BY <1>1, <2>1
<1>3. \A l \in Lines : x[l] * l[2] \in Int /\ y[l] * l[2] \in Int /\ z[l] * l[2] \in Int
  BY <1>1
<1>4. /\ f \in [Lines -> Int] /\ g \in [Lines -> Int] /\ h \in [Lines -> Int]
      /\ \A l \in Lines : h[l] = f[l] + g[l]
  BY <1>2, <1>3
<1>5. Worth(x) = SumFunction(f) /\ Worth(y) = SumFunction(g) /\ Worth(z) = SumFunction(h)
  BY DEF Worth, Total
<1> HIDE DEF f, g, h
<1> QED BY <1>4, <1>5, SumPlus, LinesFinite

LEMMA WorthWithin ==
  ASSUME NEW x \in Items, NEW y \in Items, \A l \in Lines : x[l] <= y[l]
  PROVE  Worth(x) <= Worth(y)
<1> DEFINE z == [l \in Lines |-> y[l] - x[l]]
<1>1. z \in Items /\ \A l \in Lines : y[l] = x[l] + z[l]
  BY DEF Items
<1> HIDE DEF z
<1>2. Worth(y) = Worth(x) + Worth(z)
  BY <1>1, WorthPlus
<1> QED BY <1>1, <1>2, ItemSums

\* A bill with no credit note: nothing came back, and nothing was refunded.
LEMMA UnrefundedRated ==
  ASSUME IInv, FinitelyMany, NEW s, NotesOf(s) = {}, NEW b \in Bill
  PROVE  Rated(b, Worth(Back(s)), SumFunction(BackMoney(s)), Cardinality(NotesOf(s)))
<1>1. SumFunction(BackMoney(s)) = 0
  <2>1. BackMoney(s) \in [{} -> Int]
    BY DEF BackMoney
  <2> QED BY <2>1, SumNothing
<1>2. Worth(Back(s)) = 0
  <2> DEFINE z == [l \in Lines |-> Back(s)[l] * l[2]]
  <2>1. \A l \in Lines : Back(s)[l] = 0 /\ l[2] \in Nat
    BY BackNothing, BodiesAssumption DEF Back, Lines
  <2>2. z \in [Lines -> Int] /\ \A l \in Lines : z[l] = 0
    BY <2>1
  <2>3. Worth(Back(s)) = SumFunction(z)
    BY DEF Worth, Total
  <2> HIDE DEF z
  <2> QED BY <2>2, <2>3, SumZero, LinesFinite
<1>3. Cardinality(NotesOf(s)) = 0
  BY FS_EmptySet
<1>4. /\ 2 * (b.subtotal * (0 - 0)) - 2 * (0 * b.discount) <= 0 * b.subtotal
      /\ 2 * (0 * b.discount) - 2 * (b.subtotal * (0 - 0)) <= 0 * b.subtotal
  BY DEF Bill
<1> QED BY <1>1, <1>2, <1>3, <1>4 DEF Rated

LEMMA MoneyStep ==
  ASSUME IInv, IInv', NotesHaveBills, FinitelyMany, FinitelyMany', MoneyRated, [Next]_vars
  PROVE  MoneyRated'
<1> DEFINE Kept(s) == Rated(sales[s].bill, Worth(Back(s)), SumFunction(BackMoney(s)),
                            Cardinality(NotesOf(s)))
<1>0. \A s \in Stored(sales) : Kept(s)
  BY DEF MoneyRated
<1> SUFFICES \A s \in Stored(sales)' : Kept(s)'
  BY DEF MoneyRated
\* A bill whose notes are what they were.
<1>1. ASSUME NEW s \in Stored(sales), sales'[s].bill = sales[s].bill,
             NotesOf(s)' = NotesOf(s), \A r \in NotesOf(s) : returns'[r] = returns[r]
      PROVE  Kept(s)'
  <2>1. BackMoney(s)' = BackMoney(s)
    BY <1>1 DEF BackMoney
  <2>2. \A l \in Lines : Refunded(s, l)' = Refunded(s, l)
    <3> TAKE l \in Lines
    <3>1. RefundTerms(s, l)' = RefundTerms(s, l)
      BY <1>1 DEF RefundTerms
    <3> QED BY <3>1 DEF Refunded, Total, RefundTerms
  <2>3. Back(s)' = Back(s)
    BY <2>2 DEF Back
  <2>4. Worth(Back(s))' = Worth(Back(s))
    BY <2>3 DEF Worth, Total
  <2> QED BY <1>0, <1>1, <2>1, <2>4
<1>2. ASSUME NEW d \in Devices, NEW s \in SaleIds, NEW b \in Bills,
             NEW override \in Flags, NEW offline \in Flags,
             CreateSale(d, s, b, override, offline)
      PROVE  \A x \in Stored(sales)' : Kept(x)'
  <2>1. /\ Stored(sales)' = Stored(sales) \cup {s} /\ sales'[s].bill = b
        /\ \A x \in Stored(sales) : sales'[x] = sales[x]
        /\ UNCHANGED returns
    BY <1>2, SaleFacts
  <2>2. NotesOf(s) = {}
    BY <1>2, NotesStep
  <2>3. \A x : /\ NotesOf(x)' = NotesOf(x) /\ BackMoney(x)' = BackMoney(x)
               /\ Worth(Back(x))' = Worth(Back(x))
    BY <2>1 DEF NotesOf, BackMoney, Worth, Total, Back, Refunded, Stored
  <2>4. Kept(s)'
    <3>1. Rated(b, Worth(Back(s)), SumFunction(BackMoney(s)), Cardinality(NotesOf(s)))
      BY <2>2, UnrefundedRated, BodiesAssumption
    <3> QED BY <2>1, <2>3, <3>1
  <2>5. \A x \in Stored(sales) : Kept(x)'
    BY <1>0, <2>1, <2>3
  <2> QED BY <2>1, <2>4, <2>5
<1>3. ASSUME NEW d \in Devices, NEW s \in SaleIds, NEW offline \in Flags,
             VoidSale(d, s, offline)
      PROVE  \A x \in Stored(sales)' : Kept(x)'
  <2>1. /\ Stored(sales)' = Stored(sales)
        /\ \A x \in Stored(sales) : sales'[x].bill = sales[x].bill
        /\ UNCHANGED returns
    BY <1>3, VoidFacts
  <2>2. \A x \in Stored(sales) : NotesOf(x)' = NotesOf(x)
    BY <2>1 DEF NotesOf, Stored
  <2> QED BY <1>1, <2>1, <2>2
<1>4. ASSUME NEW d \in Devices, NEW r \in ReturnIds, NEW s \in SaleIds, NEW n \in Notes,
             CreateReturn(d, r, s, n)
      PROVE  \A x \in Stored(sales)' : Kept(x)'
  <2> DEFINE b == sales[s].bill
             refund == RefundAmount(b, n.items)
             S == NotesOf(s)
  <2>1. /\ s \in Stored(sales) /\ Stored(sales)' = Stored(sales)
        /\ \A x \in Stored(sales) : sales'[x].bill = sales[x].bill
        /\ r \notin Stored(returns)
        /\ returns'[r].total = refund
        /\ \A x \in Stored(returns) : returns'[x] = returns[x]
    BY <1>4, ReturnFacts
  <2>2. /\ r \notin S /\ NotesOf(s)' = S \cup {r}
        /\ \A x \in SaleIds \ {s} : NotesOf(x)' = NotesOf(x)
    BY <1>4, NotesStep
  <2>3. \A x \in Stored(sales) \ {s} : Kept(x)'
    <3>1. Stored(sales) \subseteq SaleIds
      BY StoredBill
    <3>2. \A x : NotesOf(x) \subseteq Stored(returns)
      BY DEF NotesOf
    <3> QED BY <1>1, <2>1, <2>2, <3>1, <3>2
  <2>4. b \in Bill /\ b.discount <= b.subtotal /\ n.items \in Items
    BY <2>1, StoredBill, BodiesAssumption DEF Note
  <2>5. Worth(n.items) \in Nat
    BY <2>4, ItemSums
  <2>6. /\ IsFiniteSet(S) /\ Cardinality(S) \in Nat
        /\ BackMoney(s) \in [S -> Int] /\ SumFunction(BackMoney(s)) \in Int
        /\ Worth(Back(s)) \in Nat
    BY BackMoneySum
  <2>7. Worth(Back(s))' = Worth(Back(s)) + Worth(n.items)
    <3> DEFINE u == Back(s)
               v == Back(s)'
    <3>1. \A l \in Lines : Refunded(s, l)' = Refunded(s, l) + n.items[l] /\ Refunded(s, l) \in Nat
      BY <1>4, BackGrows, RefundedSum
    <3>2. \A l \in Lines : v[l] = u[l] + n.items[l]
      BY <3>1 DEF Back
    <3>3. u \in Items
      BY BackItems
    <3>4. v \in Items
      BY <2>4, <3>1 DEF Back, Items
    <3>5. Worth(Back(s))' = Worth(v)
      BY DEF Worth, Total
    <3> HIDE DEF u, v
    <3>6. Worth(v) = Worth(u) + Worth(n.items)
      BY <2>4, <3>2, <3>3, <3>4, WorthPlus
    <3> QED BY <3>5, <3>6 DEF u
  <2>8. SumFunction(BackMoney(s))' = SumFunction(BackMoney(s)) + refund
    <3> DEFINE f == BackMoney(s)
               g == BackMoney(s)'
    <3>1. (\A x \in S : g[x] = f[x]) /\ g[r] = refund
      BY <2>1, <2>2 DEF BackMoney, NotesOf
    <3>2. refund \in Int
      BY <2>1, StoredBill, RefundInt
    <3>3. DOMAIN g = S \cup {r} /\ g = [x \in S \cup {r} |-> g[x]]
      BY <2>2 DEF BackMoney
    <3>4. f \in [S -> Int]
      BY <2>6
    <3> HIDE DEF f, refund, S
    <3>5. g \in [S \cup {r} -> Int]
      <4>1. \A x \in S \cup {r} : g[x] \in Int
        BY <3>1, <3>2, <3>4
      <4> HIDE DEF g
      <4> QED BY <3>3, <4>1
    <3>i. IsFiniteSet(S) /\ r \notin S
      BY <2>2, <2>6
    <3> HIDE DEF g
    <3>6. SumFunction(g) = SumFunction(f) + g[r]
      BY <3>1, <3>4, <3>5, <3>i, SumGrows
    <3>7. SumFunction(g) = SumFunction(f) + refund
      BY <3>1, <3>6
    <3> QED BY <3>7 DEF f, g
  <2>9. Cardinality(NotesOf(s))' = Cardinality(S) + 1
    <3>1. IsFiniteSet(S) /\ r \notin S /\ NotesOf(s)' = S \cup {r}
      BY <2>2, <2>6
    <3>2. Cardinality(S \cup {r}) = Cardinality(S) + 1
      <4> HIDE DEF S
      <4> QED BY <3>1, FS_AddElement
    <3> QED BY <3>1, <3>2
  <2>10. Kept(s)'
    <3>1. Rated(b, Worth(Back(s)), SumFunction(BackMoney(s)), Cardinality(S))
      BY <1>0, <2>1
    <3>2. Rated(b, Worth(Back(s)) + Worth(n.items), SumFunction(BackMoney(s)) + refund,
                Cardinality(S) + 1)
      <4> DEFINE W == Worth(Back(s))
                 A == SumFunction(BackMoney(s))
                 k == Cardinality(S)
      <4>1. W \in Nat /\ A \in Int /\ k \in Nat /\ Rated(b, W, A, k)
        BY <2>6, <3>1
      <4> HIDE DEF W, A, k, b
      <4> QED BY <2>4, <2>5, <4>1, RatedStep DEF W, A, k
    <3> QED BY <2>1, <2>7, <2>8, <2>9, <3>2
  <2> QED BY <2>1, <2>3, <2>10
<1>5. ASSUME UNCHANGED <<sales, returns>>
      PROVE  \A x \in Stored(sales)' : Kept(x)'
  <2>1. Stored(sales)' = Stored(sales) /\ \A x \in Stored(sales) : NotesOf(x)' = NotesOf(x)
    BY <1>5 DEF Stored, NotesOf
  <2> QED BY <1>1, <1>5, <2>1
<1> QED BY BookSteps, <1>2, <1>3, <1>4, <1>5

LEMMA MoneyMatches ==
  ASSUME IInv, FinitelyMany, BillsAddUp, RefundsWithinBill, MoneyRated
  PROVE  RefundedMoneyMatches
<1> SUFFICES ASSUME NEW s \in Stored(sales)
             PROVE  LET b == sales[s].bill
                        back == Total(NotesOf(s), LAMBDA r : returns[r].total)
                        drift == 2 * (back - b.total)
                        slack == Cardinality(NotesOf(s)) + 4
                    IN  /\ drift <= slack
                        /\ NotesOf(s) # {} /\ sales[s].voided => -drift <= slack
  BY DEF RefundedMoneyMatches
<1> DEFINE b == sales[s].bill
           W == Worth(Back(s))
           A == SumFunction(BackMoney(s))
           k == Cardinality(NotesOf(s))
<1>1. Total(NotesOf(s), LAMBDA r : returns[r].total) = A
  BY DEF Total, BackMoney
<1>2. /\ b \in Bill /\ b.discount <= b.subtotal /\ b.items \in Items
      /\ AssertTotals(b)
  BY StoredBill DEF BillsAddUp
<1>3. W \in Nat /\ A \in Int /\ k \in Nat /\ Rated(b, W, A, k)
  BY BackMoneySum DEF MoneyRated
<1>4. Worth(b.items) \in Nat
  BY <1>2, ItemSums
<1>5. W <= Worth(b.items)
  <2>1. \A l \in Lines : Back(s)[l] <= b.items[l]
    BY DEF RefundsWithinBill, Back
  <2> QED BY <1>2, <2>1, BackItems, WorthWithin
<1>6. NotesOf(s) # {} /\ sales[s].voided => W = Worth(b.items)
  <2>1. ASSUME NotesOf(s) # {}, sales[s].voided PROVE Back(s) = b.items
    <3>1. \A l \in Lines : Back(s)[l] = b.items[l]
      BY <2>1 DEF RefundsWithinBill, Back
    <3> QED BY <1>2, <3>1 DEF Back, Items
  <2> QED BY <2>1
<1>7. /\ 2 * (A - b.total) <= k + 4
      /\ W = Worth(b.items) => - (2 * (A - b.total)) <= k + 4
  <2> HIDE DEF b, W, A, k
  <2> QED BY <1>2, <1>3, <1>4, <1>5, RatedMoney
<1> QED BY <1>1, <1>6, <1>7

-----------------------------------------------------------------------------
(* The average cost. *)

\* A finite set of numbers has a smallest and a largest.
LEMMA Extremes ==
  ASSUME NEW S, IsFiniteSet(S), S \subseteq Int, S # {}
  PROVE  /\ Min(S) \in S /\ \A y \in S : Min(S) <= y
         /\ Max(S) \in S /\ \A y \in S : y <= Max(S)
<1> DEFINE Q == {s \in SUBSET S : s # {} => /\ \E x \in s : \A y \in s : x <= y
                                            /\ \E x \in s : \A y \in s : x >= y}
<1>1. {} \in Q
  OBVIOUS
<1>2. ASSUME NEW s \in SUBSET S, NEW z \in S \ s, s \in Q PROVE s \cup {z} \in Q
  <2>0. z \in Int /\ s \subseteq Int
    OBVIOUS
  <2>1. CASE s = {}
    BY <2>0, <2>1
  <2>2. CASE s # {}
    <3>1. PICK x \in s : \A y \in s : x <= y
      BY <1>2, <2>2
    <3>2. PICK w \in s : \A y \in s : w >= y
      BY <1>2, <2>2
    <3>3. \E u \in s \cup {z} : \A y \in s \cup {z} : u <= y
      <4>1. CASE x <= z
        BY <3>1, <4>1
      <4>2. CASE z <= x
        BY <2>0, <3>1, <4>2
      <4> QED BY <2>0, <4>1, <4>2
    <3>4. \E u \in s \cup {z} : \A y \in s \cup {z} : u >= y
      <4>1. CASE w >= z
        BY <3>2, <4>1
      <4>2. CASE z >= w
        BY <2>0, <3>2, <4>2
      <4> QED BY <2>0, <4>1, <4>2
    <3> QED BY <3>3, <3>4
  <2> QED BY <2>1, <2>2
<1>3. S \in Q
  <2> HIDE DEF Q
  <2> QED BY <1>1, <1>2, AddedOneByOne
<1>4. (\E x \in S : \A y \in S : x <= y) /\ (\E x \in S : \A y \in S : x >= y)
  BY <1>3
<1>5. Min(S) \in S /\ \A y \in S : Min(S) <= y
  BY <1>4 DEF Min
<1>6. Max(S) \in S /\ \A y \in S : Max(S) >= y
  BY <1>4 DEF Max
<1> QED BY <1>5, <1>6

\* A weighted average, rounded to the nearest, is between the two it averages.
LEMMA AverageBetween ==
  ASSUME NEW u \in Nat, NEW v \in Nat \ {0}, NEW a \in Nat, NEW b \in Nat,
         NEW lo \in Nat, NEW hi \in Nat, lo <= a, lo <= b, a <= hi, b <= hi
  PROVE  /\ Rounded(u * a + v * b, u + v) \in Nat
         /\ lo <= Rounded(u * a + v * b, u + v)
         /\ Rounded(u * a + v * b, u + v) <= hi
<1> DEFINE n == u * a + v * b
           d == u + v
           q == Rounded(n, d)
<1>1. n \in Nat /\ d \in Nat \ {0}
  OBVIOUS
<1>2. d * lo <= n /\ n <= d * hi
  <2>1. \A x, y, z \in Nat : y <= z => x * y <= x * z
    <3> TAKE x, y, z \in Nat
    <3> HAVE y <= z
    <3>1. z - y \in Nat /\ z = y + (z - y)
      OBVIOUS
    <3>2. x * z = x * y + x * (z - y) /\ x * (z - y) \in Nat
      BY <3>1
    <3> QED BY <3>2
  <2>2. u * lo <= u * a /\ u * a <= u * hi /\ v * lo <= v * b /\ v * b <= v * hi
    BY <2>1
  <2>3. d * lo = u * lo + v * lo /\ d * hi = u * hi + v * hi
    OBVIOUS
  <2> QED BY <2>2, <2>3
<1> HIDE DEF n, d
<1>3. /\ q \in Int
      /\ 2 * (d * q) - 2 * n <= d
      /\ 2 * n - 2 * (d * q) <= d
  BY <1>1, RoundedClose
<1> HIDE DEF q
<1>4. /\ d * (2 * q) = 2 * (d * q) /\ d * (2 * lo) = 2 * (d * lo) /\ d * (2 * hi) = 2 * (d * hi)
      /\ d * (2 * hi + 1) = 2 * (d * hi) + d
      /\ d * (2 * q + 1) = 2 * (d * q) + d
  BY <1>1, <1>3
<1>5. d * q \in Int /\ d * lo \in Int /\ d * hi \in Int
  BY <1>1, <1>3
<1>6. 2 * q <= 2 * hi + 1
  <2>1. d * (2 * q) <= d * (2 * hi + 1)
    BY <1>1, <1>2, <1>3, <1>4, <1>5
  <2>2. 2 * q \in Int /\ 2 * hi + 1 \in Int
    BY <1>3
  <2> QED BY <1>1, <2>1, <2>2, Cancelled
<1>7. 2 * lo <= 2 * q + 1
  <2>1. d * (2 * lo) <= d * (2 * q + 1)
    BY <1>1, <1>2, <1>3, <1>4, <1>5
  <2>2. 2 * lo \in Int /\ 2 * q + 1 \in Int
    BY <1>3
  <2> QED BY <1>1, <2>1, <2>2, Cancelled
<1>8. lo <= q /\ q <= hi
  BY <1>3, <1>6, <1>7
<1>9. q \in Nat /\ lo <= q /\ q <= hi
  BY <1>3, <1>8
<1> QED BY <1>9 DEF q, n, d

\* What the lines of a form make of a product's stock and cost, the first n of them.
Opening(p) == [stock |-> stock[p], cost |-> cost[p]]
Line(row, was) ==
    [stock |-> was.stock + row.qty,
     cost  |-> WeightedAverageCost(was.stock, was.cost, row.qty, row.cost)]
Applied(f, p, n, g) ==
    g = [i \in 0..n |-> IF i = 0 THEN Opening(p)
                        ELSE IF f[i].part # p THEN g[i - 1] ELSE Line(f[i], g[i - 1])]

LEMMA AfterDef ==
  ASSUME NEW f, NEW p
  PROVE  AfterLines(f, p) = (CHOOSE g : Applied(f, p, Len(f), g))[Len(f)]
BY DEF AfterLines, Applied, Opening, Line

\* The recursion over the lines has a solution.
LEMMA AppliedExists ==
  ASSUME NEW f, NEW p
  PROVE  \A n \in Nat : \E g : Applied(f, p, n, g)
<1> DEFINE P == {n \in Nat : \E g : Applied(f, p, n, g)}
<1>1. 0 \in P
  <2> DEFINE g == [i \in 0..0 |-> Opening(p)]
  <2>1. Applied(f, p, 0, g)
    BY DEF Applied
  <2> QED BY <2>1
<1>2. ASSUME NEW n \in Nat, n \in P PROVE n + 1 \in P
  <2>1. PICK g : Applied(f, p, n, g)
    BY <1>2
  <2> DEFINE h == [i \in 0..(n + 1) |-> IF i = 0 THEN Opening(p)
                     ELSE IF f[i].part # p THEN g[i - 1] ELSE Line(f[i], g[i - 1])]
  <2>2. \A i \in 0..n : g[i] = h[i]
    BY <2>1 DEF Applied
  <2>3. \A i \in 0..(n + 1) : i # 0 => i - 1 \in 0..n
    OBVIOUS
  <2>4. h = [i \in 0..(n + 1) |-> IF i = 0 THEN Opening(p)
               ELSE IF f[i].part # p THEN h[i - 1] ELSE Line(f[i], h[i - 1])]
    BY <2>2, <2>3
  <2>5. Applied(f, p, n + 1, h)
    <3> HIDE DEF h
    <3> QED BY <2>4 DEF Applied
  <2> QED BY <2>5
<1> HIDE DEF P
<1>3. Nat \subseteq P
  BY <1>1, <1>2, Upward
<1> QED BY <1>3 DEF P

\* The cost the lines lead to is between the costs they start from and bring.
LEMMA CostsBetween ==
  ASSUME NEW f \in Forms, NEW p \in Products, stock[p] \in Nat, cost[p] \in Nat,
         NEW B \in SUBSET Nat,
         \E lo, hi \in B : lo <= cost[p] /\ cost[p] <= hi,
         \A i \in DOMAIN f : f[i].part = p /\ f[i].cost > 0 => f[i].cost \in B
  PROVE  /\ AfterLines(f, p).cost \in Nat
         /\ \E lo, hi \in B : lo <= AfterLines(f, p).cost /\ AfterLines(f, p).cost <= hi
<1> DEFINE Row == [part : Products, qty : Nat \ {0}, cost : Nat]
           g == CHOOSE h : Applied(f, p, Len(f), h)
           Good(x) == /\ x.stock \in Nat /\ x.cost \in Nat
                      /\ \E lo, hi \in B : lo <= x.cost /\ x.cost <= hi
           P == {n \in Nat : n <= Len(f) => Good(g[n])}
<1>1. f \in Seq(Row)
  BY BodiesAssumption DEF Form
<1>2. Len(f) \in Nat /\ \A i \in 1..Len(f) : f[i] \in Row /\ i \in DOMAIN f
  <2> HIDE DEF Row
  <2> QED BY <1>1
<1>3. Applied(f, p, Len(f), g)
  BY <1>2, AppliedExists
<1>4. AfterLines(f, p) = g[Len(f)]
  BY AfterDef
<1>5. /\ g[0] = Opening(p)
      /\ \A i \in 1..Len(f) :
            g[i] = IF f[i].part # p THEN g[i - 1] ELSE Line(f[i], g[i - 1])
  <2> HIDE DEF g
  <2>1. 0 \in 0..Len(f) /\ \A i \in 1..Len(f) : i \in 0..Len(f) /\ i # 0
    BY <1>2
  <2> QED BY <1>3, <2>1 DEF Applied
<1> HIDE DEF g
<1>6. 0 \in P
  BY <1>5 DEF Opening
<1>7. ASSUME NEW n \in Nat, n \in P PROVE n + 1 \in P
  <2> SUFFICES ASSUME n + 1 <= Len(f) PROVE Good(g[n + 1])
    OBVIOUS
  <2> DEFINE was == g[n]
             row == f[n + 1]
  <2>1. n + 1 \in 1..Len(f) /\ (n + 1) - 1 = n /\ n <= Len(f)
    BY <1>2
  <2>2. Good(was)
    BY <1>7, <2>1
  <2>3. g[n + 1] = IF row.part # p THEN was ELSE Line(row, was)
    BY <1>5, <2>1
  <2>4. row.qty \in Nat \ {0} /\ row.cost \in Nat
    BY <1>2, <2>1
  <2>5. row.part = p /\ row.cost > 0 => row.cost \in B
    BY <1>2, <2>1
  <2>8. was.stock + row.qty \in Nat
    <3>1. was.stock \in Nat /\ row.qty \in Nat
      BY <2>2, <2>4
    <3> HIDE DEF was, row
    <3> QED BY <3>1
  <2> HIDE DEF was, row
  <2>6. CASE row.part # p
    BY <2>2, <2>3, <2>6
  <2>7. CASE row.part = p
    <3> DEFINE e == IF row.cost > 0 THEN row.cost ELSE was.cost
               c == Rounded(was.stock * was.cost + row.qty * e, was.stock + row.qty)
    <3>1. g[n + 1] = [stock |-> was.stock + row.qty, cost |-> c]
      BY <2>3, <2>7 DEF Line, WeightedAverageCost
    <3>2. PICK lo \in B, hi \in B : lo <= was.cost /\ was.cost <= hi
      BY <2>2
    <3>3. e \in Nat /\ \E x, y \in B : x <= e /\ e <= y
      BY <2>2, <2>4, <2>5, <2>7, <3>2, SMTT(30)
    <3> HIDE DEF e
    <3>4. PICK x \in B, y \in B : x <= e /\ e <= y
      BY <3>3
    <3>b. (lo <= x \/ x <= lo) /\ (hi <= y \/ y <= hi)
      OBVIOUS
    <3>5. PICK m \in B : m <= was.cost /\ m <= e
      <4>1. CASE lo <= x
        BY <2>2, <3>2, <3>3, <3>4, <4>1
      <4>2. CASE x <= lo
        BY <2>2, <3>2, <3>3, <3>4, <4>2
      <4> QED BY <3>b, <4>1, <4>2
    <3>6. PICK w \in B : was.cost <= w /\ e <= w
      <4>1. CASE hi <= y
        BY <2>2, <3>2, <3>3, <3>4, <4>1
      <4>2. CASE y <= hi
        BY <2>2, <3>2, <3>3, <3>4, <4>2
      <4> QED BY <3>b, <4>1, <4>2
    <3>7. c \in Nat /\ m <= c /\ c <= w
      BY <2>2, <2>4, <3>3, <3>5, <3>6, AverageBetween
    <3> HIDE DEF c
    <3>8. was.stock + row.qty \in Nat
      BY <2>8
    <3> QED BY <3>1, <3>7, <3>8
  <2> QED BY <2>6, <2>7
<1>8. Nat \subseteq P
  <2> HIDE DEF P
  <2> QED BY <1>6, <1>7, Upward
<1>9. Good(g[Len(f)])
  BY <1>2, <1>8
<1> QED BY <1>4, <1>9

CostTyped == cost \in [Products -> Nat]

\* The average lies between two of the prices it is made of.
CostBetween ==
    /\ boughtAt \in [Products -> SUBSET Nat]
    /\ \A p \in Products :
          /\ IsFiniteSet(boughtAt[p])
          /\ \E lo, hi \in boughtAt[p] : lo <= cost[p] /\ cost[p] <= hi

\* The prices of a form are finitely many.
LEMMA PricesFinite ==
  ASSUME NEW f \in Forms, NEW p \in Products
  PROVE  IsFiniteSet(PaidFor(f, p)) /\ PaidFor(f, p) \in SUBSET Nat
<1> DEFINE Row == [part : Products, qty : Nat \ {0}, cost : Nat]
           I == {j \in DOMAIN f : f[j].part = p /\ f[j].cost > 0}
           T == PaidFor(f, p)
           g == [i \in I |-> f[i].cost]
<1>1. f \in Seq(Row)
  BY BodiesAssumption DEF Form
<1>2. IsFiniteSet(DOMAIN f) /\ \A i \in DOMAIN f : f[i] \in Row
  <2> HIDE DEF Row
  <2> QED BY <1>1, FS_Interval
<1>3. IsFiniteSet(I) /\ I \subseteq DOMAIN f
  BY <1>2, FS_Subset
<1>4. T \subseteq Nat
  BY <1>2 DEF PaidFor
<1>5. g \in Surjection(I, T)
  BY DEF Surjection, PaidFor
<1> HIDE DEF I, g, T
<1>6. IsFiniteSet(T)
  BY <1>3, <1>5, FS_Surjection
<1> QED BY <1>4, <1>6 DEF T

\* What a received order leaves of a product's cost.
LEMMA ReceivedCost ==
  ASSUME IInv, CostTyped, CostBetween,
         NEW o \in OrderIds, ReceiveOrder(o), NEW p \in Products
  PROVE  /\ cost'[p] \in Nat
         /\ IsFiniteSet(boughtAt'[p]) /\ boughtAt'[p] \in SUBSET Nat
         /\ \E lo, hi \in boughtAt'[p] : lo <= cost'[p] /\ cost'[p] <= hi
<1> DEFINE f == orders[o].form
           C == boughtAt[p] \cup PaidFor(f, p)
<1>1. f \in Forms
  <2>1. orders[o] \in Order
    BY DEF ReceiveOrder, LockPo, IInv, DocumentsTyped
  <2> QED BY <2>1 DEF Order
<1>2. /\ cost' = [x \in Products |-> IF x \in live THEN AfterLines(f, x).cost ELSE cost[x]]
      /\ boughtAt' = [x \in Products |-> IF x \in live THEN boughtAt[x] \cup PaidFor(f, x) ELSE boughtAt[x]]
  BY DEF ReceiveOrder
<1>3. /\ IsFiniteSet(boughtAt[p]) /\ boughtAt[p] \in SUBSET Nat
      /\ \E lo, hi \in boughtAt[p] : lo <= cost[p] /\ cost[p] <= hi
  BY DEF CostBetween
<1>4. cost[p] \in Nat /\ stock[p] \in Nat
  BY DEF CostTyped, IInv, GoodsTyped
<1> HIDE DEF f
<1>5. CASE p \notin live
  <2>1. cost'[p] = cost[p] /\ boughtAt'[p] = boughtAt[p]
    BY <1>2, <1>5
  <2> QED BY <1>3, <1>4, <2>1
<1>6. CASE p \in live
  <2>1. cost'[p] = AfterLines(f, p).cost /\ boughtAt'[p] = C
    BY <1>2, <1>6
  <2>2. IsFiniteSet(PaidFor(f, p)) /\ PaidFor(f, p) \in SUBSET Nat
    BY <1>1, PricesFinite
  <2>3. IsFiniteSet(C)
    BY <1>3, <2>2, FS_Union
  <2>4. C \in SUBSET Nat /\ \E lo, hi \in C : lo <= cost[p] /\ cost[p] <= hi
    BY <1>3, <2>2
  <2>5. \A i \in DOMAIN f : f[i].part = p /\ f[i].cost > 0 => f[i].cost \in C
    BY DEF PaidFor
  <2> HIDE DEF C
  <2>6. /\ AfterLines(f, p).cost \in Nat
        /\ \E lo, hi \in C : lo <= AfterLines(f, p).cost /\ AfterLines(f, p).cost <= hi
    BY <1>1, <1>4, <2>3, <2>4, <2>5, CostsBetween
  <2> QED BY <2>1, <2>3, <2>4, <2>6
<1> QED BY <1>5, <1>6

LEMMA CostStep ==
  ASSUME IInv, CostTyped, CostBetween, [Next]_vars
  PROVE  CostTyped' /\ CostBetween'
<1>1. ASSUME NEW o \in OrderIds, ReceiveOrder(o) PROVE CostTyped' /\ CostBetween'
  <2>1. \A p \in Products :
           /\ cost'[p] \in Nat
           /\ IsFiniteSet(boughtAt'[p]) /\ boughtAt'[p] \in SUBSET Nat
           /\ \E lo, hi \in boughtAt'[p] : lo <= cost'[p] /\ cost'[p] <= hi
    BY <1>1, ReceivedCost
  <2>2. cost' = [p \in Products |-> cost'[p]] /\ boughtAt' = [p \in Products |-> boughtAt'[p]]
    BY <1>1 DEF ReceiveOrder
  <2> QED BY <2>1, <2>2 DEF CostTyped, CostBetween
<1>2. ASSUME NEW q \in Products, NEW c \in Costs, EditCost(q, c) PROVE CostTyped' /\ CostBetween'
  <2>1. /\ cost' = [cost EXCEPT ![q] = c] /\ boughtAt' = [boughtAt EXCEPT ![q] = {c}]
        /\ c \in Nat /\ IsFiniteSet({c})
    BY <1>2, BodiesAssumption, FS_Singleton DEF EditCost
  <2>2. CostTyped'
    BY <2>1 DEF CostTyped
  <2>3. boughtAt' \in [Products -> SUBSET Nat]
    BY <2>1 DEF CostBetween
  <2>4. ASSUME NEW p \in Products
        PROVE  IsFiniteSet(boughtAt'[p]) /\ \E lo, hi \in boughtAt'[p] : lo <= cost'[p] /\ cost'[p] <= hi
    <3>1. CASE p = q
      <4>1. cost'[p] = c /\ boughtAt'[p] = {c}
        BY <2>1, <3>1 DEF CostTyped, CostBetween
      <4>2. c <= c
        BY <2>1
      <4> QED BY <2>1, <4>1, <4>2
    <3>2. CASE p # q
      <4>1. cost'[p] = cost[p] /\ boughtAt'[p] = boughtAt[p]
        BY <2>1, <3>2 DEF CostTyped, CostBetween
      <4> QED BY <4>1 DEF CostBetween
    <3> QED BY <3>1, <3>2
  <2> QED BY <2>2, <2>3, <2>4 DEF CostBetween
<1>3. ASSUME UNCHANGED <<cost, boughtAt>> PROVE CostTyped' /\ CostBetween'
  BY <1>3 DEF CostTyped, CostBetween
<1>4. ASSUME NEW d \in Devices, NEW cash \in Amounts, CloseShift(d, cash)
      PROVE  UNCHANGED <<cost, boughtAt>>
  BY <1>4 DEF CloseShift, documents, goods
<1> QED
  BY Steps, <1>1, <1>2, <1>3, <1>4
     DEF CreateSale, VoidSale, CreateReturn, CreatePayment, OpenShift, AddEntry, IssueDevice,
         EnrolDevice, ReportUnsynced, RetireDevice, ReplaceDevice, CreateOrder, CancelOrder,
         DeleteOrder, AdjustStock, EditCost, DeleteProduct, documents, counters, goods, vars

-----------------------------------------------------------------------------
(* The books, kept together by every step. *)

BooksInv ==
    /\ IInv
    /\ FinitelyMany
    /\ NotesHaveBills
    /\ BillsAddUp
    /\ RefundsWithinBill
    /\ MoneyRated
    /\ CostTyped
    /\ CostBetween
    /\ StockExplained

\* The average cost is between extremes of what it is made of.
LEMMA BetweenExtremes == CostBetween /\ CostTyped => CostWithinPrices
<1> SUFFICES ASSUME CostBetween, CostTyped, NEW p \in Products
             PROVE  Min(boughtAt[p]) <= cost[p] /\ cost[p] <= Max(boughtAt[p])
  BY DEF CostWithinPrices
<1> DEFINE B == boughtAt[p]
<1>1. IsFiniteSet(B) /\ B \subseteq Int /\ cost[p] \in Int
  BY DEF CostBetween, CostTyped
<1>2. PICK lo \in B, hi \in B : lo <= cost[p] /\ cost[p] <= hi
  BY DEF CostBetween
<1> HIDE DEF B
<1>3. /\ Min(B) \in B /\ Min(B) <= lo
      /\ Max(B) \in B /\ hi <= Max(B)
  BY <1>1, <1>2, Extremes
<1>4. Min(B) \in Int /\ Max(B) \in Int /\ lo \in Int /\ hi \in Int
  BY <1>1, <1>2, <1>3
<1>5. Min(B) <= cost[p] /\ cost[p] <= Max(B)
  BY <1>1, <1>2, <1>3, <1>4
<1> QED BY <1>5 DEF B

LEMMA InitBooks == Init => BooksInv
<1> SUFFICES ASSUME Init PROVE BooksInv
  OBVIOUS
<1>1. IInv
  BY InitIInv
<1>2. Stored(sales) = {} /\ Stored(returns) = {} /\ Stored(payments) = {} /\ Stored(orders) = {}
  BY DEF Init, Stored
<1>3. FinitelyMany
  BY <1>2, FS_EmptySet DEF FinitelyMany
<1>4. NotesHaveBills /\ BillsAddUp /\ RefundsWithinBill /\ MoneyRated
  BY <1>2 DEF NotesHaveBills, BillsAddUp, RefundsWithinBill, MoneyRated
<1>5. CostTyped
  BY OpeningAssumption DEF Init, CostTyped
<1>6. CostBetween
  <2>1. boughtAt = [p \in Products |-> {OpeningCost[p]}] /\ cost = OpeningCost
    BY DEF Init
  <2>2. \A p \in Products : OpeningCost[p] \in Nat /\ OpeningCost[p] <= OpeningCost[p]
    BY OpeningAssumption
  <2>3. \A p \in Products : IsFiniteSet({OpeningCost[p]})
    BY FS_Singleton
  <2> QED BY <2>1, <2>2, <2>3 DEF CostBetween
<1>7. StockExplained
  <2> SUFFICES ASSUME NEW p \in Products
               PROVE  stock[p] = OpeningStock[p] + adjusted[p] + SumFunction(OrderTerms(p))
                                   - SumFunction(SoldTerms(p)) + SumFunction(BackTerms(p))
    BY StockEquation
  <2>1. CountedSales = {} /\ Received = {}
    BY <1>2 DEF CountedSales, Received
  <2>2. /\ SoldTerms(p) \in [{} -> Int] /\ BackTerms(p) \in [{} -> Int]
        /\ OrderTerms(p) \in [{} -> Int]
    BY <1>2, <2>1 DEF SoldTerms, BackTerms, OrderTerms
  <2>3. /\ SumFunction(SoldTerms(p)) = 0 /\ SumFunction(BackTerms(p)) = 0
        /\ SumFunction(OrderTerms(p)) = 0
    BY <2>2, SumNothing
  <2>4. stock[p] = OpeningStock[p] /\ adjusted[p] = 0 /\ OpeningStock[p] \in Int
    BY OpeningAssumption DEF Init
  <2> QED BY <2>3, <2>4
<1> QED BY <1>1, <1>3, <1>4, <1>5, <1>6, <1>7 DEF BooksInv

LEMMA BooksStep == BooksInv /\ [Next]_vars => BooksInv'
<1> SUFFICES ASSUME BooksInv, [Next]_vars PROVE BooksInv'
  OBVIOUS
<1>1. IInv /\ IInv'
  BY Inductive DEF BooksInv
<1>2. FinitelyMany /\ FinitelyMany'
  BY <1>1, FinitelyStep DEF BooksInv
<1>3. NotesHaveBills /\ NotesHaveBills'
  BY <1>1, NotesStep DEF BooksInv
<1>4. BillsAddUp'
  BY <1>1, AddUpStep DEF BooksInv
<1>5. RefundsWithinBill'
  BY <1>1, <1>2, <1>3, WithinStep DEF BooksInv
<1>6. MoneyRated'
  BY <1>1, <1>2, <1>3, MoneyStep DEF BooksInv
<1>7. CostTyped' /\ CostBetween'
  BY <1>1, CostStep DEF BooksInv
<1>8. StockExplained'
  BY <1>1, <1>2, <1>3, StockStep DEF BooksInv
<1> QED BY <1>1, <1>2, <1>3, <1>4, <1>5, <1>6, <1>7, <1>8 DEF BooksInv

LEMMA BooksKept == Spec => []BooksInv
BY InitBooks, BooksStep, PTL DEF Spec

-----------------------------------------------------------------------------
(* The theorems. *)

(* The rows of a shop keep the types of their columns, its average costs   *)
(* (weightedAverageCostSatang over the lines of a receipt) included.       *)
THEOREM ShopTyped == Spec => []TypeOK
<1>1. BooksInv => TypeOK
  BY DEF BooksInv, IInv, CostTyped, TypeOK
<1> QED BY <1>1, BooksKept, PTL

(* assertRefundable under lockSale: however many credit notes a bill gets, *)
(* they never take back more of a line than it sold, and autoVoid voids    *)
(* the bill with exactly the note that makes it whole.                     *)
THEOREM RefundsAreWithinBill == Spec => []RefundsWithinBill
<1>1. BooksInv => RefundsWithinBill
  BY DEF BooksInv
<1> QED BY <1>1, BooksKept, PTL

(* refundAmounts: rounding each note's share of the discount by itself     *)
(* costs at most half a satang a note, for bills and notes of any size.    *)
THEOREM RefundedMoneyIsMatched == Spec => []RefundedMoneyMatches
<1>1. BooksInv => RefundedMoneyMatches
  BY MoneyMatches DEF BooksInv
<1> QED BY <1>1, BooksKept, PTL

(* deduct, restoreStock, receivePO and adjustStock conserve goods: every   *)
(* unit on the shelf is accounted for by the documents that stand.         *)
THEOREM StockIsExplained == Spec => []StockExplained
<1>1. BooksInv => StockExplained
  BY DEF BooksInv
<1> QED BY <1>1, BooksKept, PTL

(* weightedAverageCostSatang: over any number of receipts of any number of *)
(* lines, the rounded average stays between the extremes of the cost that  *)
(* was last set (at the opening or by updateIn) and the prices paid since. *)
THEOREM CostIsWithinPrices == Spec => []CostWithinPrices
<1>1. BooksInv => CostWithinPrices
  BY BetweenExtremes DEF BooksInv
<1> QED BY <1>1, BooksKept, PTL

(* applyMechanic, reverseLedger, reverseMechanic and reduceBalance: every  *)
(* step moves a mechanic's tab by what it moves in his documents.          *)
THEOREM TabsFollowDocuments == Spec => TabFollowsDocuments
<1> DEFINE Follow == \A m \in Mechanics : TabFollows(m)
<1>1. BooksInv /\ BooksInv' /\ [Next]_vars => Follow
  BY TabStep DEF BooksInv
<1>2. Follow => [\A m \in Mechanics :
          mechanics[m].tab' = AtLeastZero(mechanics[m].tab + Owed(m)' - Owed(m))]_vars
  BY DEF TabFollows
<1> HIDE DEF Follow
<1> QED BY <1>1, <1>2, BooksKept, PTL DEF Spec, TabFollowsDocuments
=============================================================================
