-------------------------------- MODULE Sums --------------------------------
(***************************************************************************)
(* Sums of whole numbers over finite sets, as the Functions module's       *)
(* SumFunctionOnSet has them.  Induction takes the set of what is claimed  *)
(* to hold, not an operator: a strict subset relation and < are well       *)
(* founded, so the complement has no least element.                        *)
(***************************************************************************)
EXTENDS Functions, Integers, FiniteSets, FiniteSetTheorems, WellFoundedInduction, TLAPS

\* The element the fold takes off first.
Chosen(s) == CHOOSE x \in s : TRUE

\* g gives the sum of f over every subset of S.
IsIter(f, S, g) ==
  g = [s \in SUBSET S |-> IF s = {} THEN 0 ELSE f[Chosen(s)] + g[s \ {Chosen(s)}]]

Iter(f, S) == CHOOSE g : IsIter(f, S, g)

\* A sum is the library's fold, which takes a chosen element off at a time.
LEMMA SumIsIter ==
  ASSUME NEW f, NEW S
  PROVE  SumFunctionOnSet(f, S) = Iter(f, S)[S]
BY DEF SumFunctionOnSet, FoldFunctionOnSet, MapThenFoldSet, Iter, IsIter, Chosen

\* Induction on the subsets of a finite set: what holds of a subset when it
\* holds of all smaller ones holds of the set.
LEMMA SubsetsInduction ==
  ASSUME NEW S, IsFiniteSet(S), NEW T,
         \A s \in SUBSET S : (\A t \in SUBSET s : t # s => t \in T) => s \in T
  PROVE  S \in T
<1> SUFFICES ASSUME S \notin T PROVE FALSE
  OBVIOUS
<1> DEFINE Bad == {s \in SUBSET S : s \notin T}
<1>1. IsWellFoundedOn(StrictSubsetOrdering(S), SUBSET S)
  <2>1. FiniteSubsetsOf(S) = SUBSET S
    BY FS_FiniteSubsetsOfFinite
  <2>2. IsWellFoundedOn(StrictSubsetOrdering(S), FiniteSubsetsOf(S))
    BY FS_StrictSubsetOrderingWellFounded
  <2> QED BY <2>1, <2>2, Zenon
<1>2. PICK s \in Bad : \A t \in Bad : ~(<<t, s>> \in StrictSubsetOrdering(S))
  <2>1. Bad \subseteq SUBSET S /\ Bad # {}
    OBVIOUS
  <2> HIDE DEF Bad
  <2> QED BY <1>1, <2>1, WFMin
<1>3. ASSUME NEW t \in SUBSET s, t # s
      PROVE  t \in T
  <2>1. <<t, s>> \in StrictSubsetOrdering(S)
    BY <1>2, <1>3 DEF StrictSubsetOrdering
  <2> QED BY <1>2, <1>3, <2>1
<1> QED BY <1>2, <1>3

\* The same, one chosen element at a time.
LEMMA SubsetInduction ==
  ASSUME NEW S, IsFiniteSet(S), NEW T, {} \in T,
         \A s \in SUBSET S : s # {} /\ s \ {Chosen(s)} \in T => s \in T
  PROVE  S \in T
<1>1. ASSUME NEW s \in SUBSET S, \A t \in SUBSET s : t # s => t \in T
      PROVE  s \in T
  <2>1. CASE s = {}
    BY <2>1
  <2>2. CASE s # {}
    <3>1. Chosen(s) \in s
      BY <2>2 DEF Chosen
    <3>2. s \ {Chosen(s)} \in SUBSET s /\ s \ {Chosen(s)} # s
      BY <3>1
    <3>3. s \ {Chosen(s)} \in T
      BY <1>1, <3>2
    <3> QED BY <2>2, <3>3
  <2> QED BY <2>1, <2>2
<1> QED BY <1>1, SubsetsInduction

\* Induction on numbers.
LEMMA NumberInduction ==
  ASSUME NEW T, 0 \in T, \A n \in Nat : n \in T => n + 1 \in T
  PROVE  \A n \in Nat : n \in T
<1> SUFFICES ASSUME NEW n0 \in Nat, n0 \notin T PROVE FALSE
  OBVIOUS
<1> DEFINE Bad == {n \in Nat : n \notin T}
<1>1. PICK n \in Bad : \A m \in Bad : ~(<<m, n>> \in OpToRel(<, Nat))
  <2>1. Bad \subseteq Nat /\ Bad # {}
    OBVIOUS
  <2> HIDE DEF Bad
  <2> QED BY <2>1, NatLessThanWellFounded, WFMin
<1>2. n - 1 \in Bad /\ <<n - 1, n>> \in OpToRel(<, Nat)
  BY DEF OpToRel
<1> QED BY <1>1, <1>2

\* Two iterations agree where the functions they sum do.
LEMMA IterAgree ==
  ASSUME NEW f, NEW h, NEW S, NEW U, NEW V, IsFiniteSet(S), S \subseteq U, S \subseteq V,
         \A x \in S : f[x] = h[x],
         NEW g, IsIter(f, U, g), NEW k, IsIter(h, V, k)
  PROVE  g[S] = k[S]
<1> DEFINE T == {s \in SUBSET S : g[s] = k[s]}
<1>1. {} \in T
  BY DEF IsIter
<1>2. ASSUME NEW s \in SUBSET S, s # {}, s \ {Chosen(s)} \in T
      PROVE  s \in T
  <2>1. Chosen(s) \in s
    BY <1>2 DEF Chosen
  <2>2. g[s] = f[Chosen(s)] + g[s \ {Chosen(s)}]
    BY <1>2 DEF IsIter
  <2>3. k[s] = h[Chosen(s)] + k[s \ {Chosen(s)}]
    BY <1>2 DEF IsIter
  <2> QED BY <1>2, <2>1, <2>2, <2>3
<1> HIDE DEF T
<1>3. S \in T
  BY <1>1, <1>2, SubsetInduction
<1> QED BY <1>3 DEF T

\* The subsets with at most n elements.
Small(S, n) == {s \in SUBSET S : Cardinality(s) <= n}

\* There is an iteration: a sum over a finite set of whole numbers is defined.
LEMMA IterExists ==
  ASSUME NEW S, IsFiniteSet(S), NEW f, \A x \in S : f[x] \in Int
  PROVE  \E g \in [SUBSET S -> Int] : IsIter(f, S, g)
<1> DEFINE value(g, s) == IF s = {} THEN 0 ELSE f[Chosen(s)] + g[s \ {Chosen(s)}]
           T == {n \in Nat : \E g \in [Small(S, n) -> Int] :
                               \A s \in Small(S, n) : g[s] = value(g, s)}
<1>1. \A s \in SUBSET S : /\ IsFiniteSet(s) /\ Cardinality(s) \in Nat
                          /\ Cardinality(s) <= Cardinality(S)
                          /\ Cardinality(s) = 0 <=> s = {}
  BY FS_Subset, FS_CardinalityType, FS_EmptySet
<1>2. \A s \in SUBSET S : s # {} =>
        /\ Chosen(s) \in s /\ f[Chosen(s)] \in Int /\ s \ {Chosen(s)} \in SUBSET S
        /\ Cardinality(s \ {Chosen(s)}) = Cardinality(s) - 1
  <2> SUFFICES ASSUME NEW s \in SUBSET S, s # {}
               PROVE  /\ Chosen(s) \in s /\ f[Chosen(s)] \in Int /\ s \ {Chosen(s)} \in SUBSET S
                      /\ Cardinality(s \ {Chosen(s)}) = Cardinality(s) - 1
    OBVIOUS
  <2>1. Chosen(s) \in s
    BY DEF Chosen
  <2> QED BY <1>1, <2>1, FS_RemoveElement
<1>3. 0 \in T
  <2>1. Small(S, 0) = {{}}
    BY <1>1 DEF Small
  <2>2. [s \in Small(S, 0) |-> 0] \in [Small(S, 0) -> Int]
    OBVIOUS
  <2> QED BY <2>1, <2>2
<1>4. ASSUME NEW n \in Nat, n \in T
      PROVE  n + 1 \in T
  <2>1. PICK g \in [Small(S, n) -> Int] : \A s \in Small(S, n) : g[s] = value(g, s)
    BY <1>4
  <2> DEFINE next == [s \in Small(S, n + 1) |-> value(g, s)]
  <2>2. \A s \in Small(S, n + 1) : s # {} => s \ {Chosen(s)} \in Small(S, n) \cap Small(S, n + 1)
    BY <1>1, <1>2 DEF Small
  <2>3. next \in [Small(S, n + 1) -> Int]
    <3>1. \A s \in Small(S, n + 1) : value(g, s) \in Int
      BY <1>2, <2>2 DEF Small
    <3> QED BY <3>1
  <2>4. \A s \in Small(S, n) : s \in Small(S, n + 1) /\ next[s] = g[s]
    BY <1>1, <2>1 DEF Small
  <2>5. ASSUME NEW s \in Small(S, n + 1)
        PROVE  next[s] = value(next, s)
    <3>1. CASE s = {}
      BY <3>1
    <3>2. CASE s # {}
      BY <2>2, <2>4, <3>2
    <3> QED BY <3>1, <3>2
  <2> HIDE DEF next, value
  <2>6. \E h \in [Small(S, n + 1) -> Int] : \A s \in Small(S, n + 1) : h[s] = value(h, s)
    BY <2>3, <2>5
  <2> QED BY <2>6
<1>5. Cardinality(S) \in T
  <2> HIDE DEF T
  <2>1. Cardinality(S) \in Nat
    BY FS_CardinalityType
  <2> QED BY <1>3, <1>4, <2>1, NumberInduction
<1>6. Small(S, Cardinality(S)) = SUBSET S
  BY <1>1 DEF Small
<1>7. PICK g \in [SUBSET S -> Int] : \A s \in SUBSET S : g[s] = value(g, s)
  BY <1>5, <1>6
<1> QED BY <1>7 DEF IsIter

\* A sum is what any iteration over a larger set gives for its set.
LEMMA SumFrom ==
  ASSUME NEW S, IsFiniteSet(S), NEW f, \A x \in S : f[x] \in Int,
         NEW U, S \subseteq U, NEW g, IsIter(f, U, g)
  PROVE  SumFunctionOnSet(f, S) = g[S] /\ g[S] \in Int
<1>1. PICK k \in [SUBSET S -> Int] : IsIter(f, S, k)
  BY IterExists
<1>2. IsIter(f, S, Iter(f, S))
  BY <1>1 DEF Iter
<1>3. SumFunctionOnSet(f, S) = Iter(f, S)[S]
  BY SumIsIter
<1>4. Iter(f, S)[S] = k[S]
  BY <1>1, <1>2, IterAgree
<1>5. g[S] = k[S]
  BY <1>1, IterAgree
<1> QED BY <1>1, <1>3, <1>4, <1>5

\* A sum of whole numbers is a whole number.
LEMMA SumType ==
  ASSUME NEW S, IsFiniteSet(S), NEW f, \A x \in S : f[x] \in Int
  PROVE  SumFunctionOnSet(f, S) \in Int
<1>1. PICK g \in [SUBSET S -> Int] : IsIter(f, S, g)
  BY IterExists
<1> QED BY <1>1, SumFrom

\* A sum over nothing is 0.
LEMMA SumEmpty == \A f : SumFunctionOnSet(f, {}) = 0
<1> SUFFICES ASSUME NEW f PROVE SumFunctionOnSet(f, {}) = 0
  OBVIOUS
<1>1. PICK g \in [SUBSET {} -> Int] : IsIter(f, {}, g)
  BY IterExists, FS_EmptySet
<1>2. g[{}] = 0
  BY <1>1 DEF IsIter
<1> QED BY <1>1, <1>2, SumFrom, FS_EmptySet

\* Taking the chosen element off.
LEMMA SumChosen ==
  ASSUME NEW S, IsFiniteSet(S), NEW f, \A x \in S : f[x] \in Int, S # {}
  PROVE  SumFunctionOnSet(f, S) = f[Chosen(S)] + SumFunctionOnSet(f, S \ {Chosen(S)})
<1>1. PICK g \in [SUBSET S -> Int] : IsIter(f, S, g)
  BY IterExists
<1>2. g[S] = f[Chosen(S)] + g[S \ {Chosen(S)}]
  BY <1>1 DEF IsIter
<1>3. IsFiniteSet(S \ {Chosen(S)})
  BY FS_RemoveElement
<1>4. SumFunctionOnSet(f, S) = g[S]
  BY <1>1, SumFrom
<1>5. SumFunctionOnSet(f, S \ {Chosen(S)}) = g[S \ {Chosen(S)}]
  BY <1>1, <1>3, SumFrom
<1> QED BY <1>2, <1>4, <1>5

\* A sum depends only on what it adds up.
LEMMA SumSame ==
  ASSUME NEW S, IsFiniteSet(S), NEW f, NEW h,
         \A x \in S : f[x] \in Int /\ f[x] = h[x]
  PROVE  SumFunctionOnSet(f, S) = SumFunctionOnSet(h, S)
<1>1. PICK g \in [SUBSET S -> Int] : IsIter(f, S, g)
  BY IterExists
<1>2. PICK k \in [SUBSET S -> Int] : IsIter(h, S, k)
  <2>1. \A x \in S : h[x] \in Int
    OBVIOUS
  <2> QED BY <2>1, IterExists
<1>3. SumFunctionOnSet(f, S) = g[S] /\ SumFunctionOnSet(h, S) = k[S]
  BY <1>1, <1>2, SumFrom
<1>4. g[S] = k[S]
  BY <1>1, <1>2, IterAgree
<1> QED BY <1>3, <1>4

\* Taking any element off: the order does not matter.
LEMMA SumRemove ==
  ASSUME NEW S, IsFiniteSet(S), NEW f, \A x \in S : f[x] \in Int, NEW x \in S
  PROVE  SumFunctionOnSet(f, S) = f[x] + SumFunctionOnSet(f, S \ {x})
<1> DEFINE sum(s) == SumFunctionOnSet(f, s)
           T == {s \in SUBSET S : \A y \in s : sum(s) = f[y] + sum(s \ {y})}
<1>1. ASSUME NEW s \in SUBSET S, \A t \in SUBSET s : t # s => t \in T,
             NEW y \in s
      PROVE  sum(s) = f[y] + sum(s \ {y})
  <2> DEFINE c == Chosen(s)
  <2>1. c \in s
    BY DEF Chosen
  <2>2. \A u \in SUBSET s : IsFiniteSet(u) /\ sum(u) \in Int
    BY FS_Subset, SumType
  <2>3. sum(s) = f[c] + sum(s \ {c})
    BY <2>1, <2>2, SumChosen
  <2>4. CASE y = c
    BY <2>3, <2>4
  <2>5. CASE y # c
    <3> DEFINE rest == (s \ {c}) \ {y}
    <3>1. s \ {c} \in T /\ s \ {y} \in T
      BY <1>1, <2>1
    <3>2. sum(s \ {c}) = f[y] + sum(rest)
      BY <2>5, <3>1
    <3>3. (s \ {y}) \ {c} = rest
      OBVIOUS
    <3>4. sum(s \ {y}) = f[c] + sum(rest)
      BY <2>1, <2>5, <3>1, <3>3
    <3>5. f[c] \in Int /\ f[y] \in Int /\ sum(rest) \in Int
      BY <2>1, <2>2
    <3> HIDE DEF rest, c, sum
    <3> QED BY <2>3, <3>2, <3>4, <3>5
  <2> QED BY <2>4, <2>5
<1>2. S \in T
  <2>1. \A s \in SUBSET S : (\A t \in SUBSET s : t # s => t \in T) => s \in T
    BY <1>1
  <2> HIDE DEF T
  <2> QED BY <2>1, SubsetsInduction
<1> QED BY <1>2

\* Two disjoint sets.
LEMMA SumUnion ==
  ASSUME NEW A, NEW B, IsFiniteSet(A), IsFiniteSet(B), A \intersect B = {},
         NEW f, \A x \in A \union B : f[x] \in Int
  PROVE  SumFunctionOnSet(f, A \union B) = SumFunctionOnSet(f, A) + SumFunctionOnSet(f, B)
<1> DEFINE sum(s) == SumFunctionOnSet(f, s)
           T == {s \in SUBSET A : sum(s \union B) = sum(s) + sum(B)}
<1>1. sum(B) \in Int
  BY SumType
<1>2. {} \in T
  BY <1>1, SumEmpty
<1>3. ASSUME NEW s \in SUBSET A, s # {}, s \ {Chosen(s)} \in T
      PROVE  s \in T
  <2> DEFINE c == Chosen(s)
             r == s \ {c}
  <2>1. c \in s /\ c \notin B /\ f[c] \in Int
    BY <1>3 DEF Chosen
  <2>2. IsFiniteSet(s) /\ IsFiniteSet(r) /\ IsFiniteSet(s \union B)
    BY FS_Subset, FS_Union
  <2>3. sum(s) = f[c] + sum(r)
    BY <2>1, <2>2, SumRemove
  <2>4. (s \union B) \ {c} = r \union B /\ c \in s \union B
    BY <2>1
  <2>5. sum(s \union B) = f[c] + sum(r \union B)
    BY <2>2, <2>4, SumRemove
  <2>6. sum(r \union B) = sum(r) + sum(B)
    BY <1>3
  <2>7. sum(r) \in Int
    BY <2>2, SumType
  <2> HIDE DEF sum, c, r
  <2>8. sum(s \union B) = sum(s) + sum(B)
    BY <1>1, <2>1, <2>3, <2>5, <2>6, <2>7
  <2> QED BY <2>8 DEF sum
<1>4. A \in T
  <2> HIDE DEF T
  <2> QED BY <1>2, <1>3, SubsetInduction
<1> QED BY <1>4

\* Nothing but zeros.
LEMMA SumZero ==
  ASSUME NEW S, IsFiniteSet(S), NEW f, \A x \in S : f[x] = 0
  PROVE  SumFunctionOnSet(f, S) = 0
<1> DEFINE T == {s \in SUBSET S : SumFunctionOnSet(f, s) = 0}
<1>1. {} \in T
  BY SumEmpty
<1>2. ASSUME NEW s \in SUBSET S, s # {}, s \ {Chosen(s)} \in T
      PROVE  s \in T
  <2>1. Chosen(s) \in s /\ IsFiniteSet(s)
    BY <1>2, FS_Subset DEF Chosen
  <2>2. SumFunctionOnSet(f, s) = 0 + SumFunctionOnSet(f, s \ {Chosen(s)})
    BY <2>1, SumRemove
  <2> QED BY <1>2, <2>2
<1>3. S \in T
  <2> HIDE DEF T
  <2> QED BY <1>1, <1>2, SubsetInduction
<1> QED BY <1>3

\* A sum of sums.
LEMMA SumPlus ==
  ASSUME NEW S, IsFiniteSet(S), NEW f, NEW g, NEW h,
         \A x \in S : f[x] \in Int /\ g[x] \in Int /\ h[x] = f[x] + g[x]
  PROVE  SumFunctionOnSet(h, S) = SumFunctionOnSet(f, S) + SumFunctionOnSet(g, S)
<1> DEFINE T == {s \in SUBSET S :
                   SumFunctionOnSet(h, s) = SumFunctionOnSet(f, s) + SumFunctionOnSet(g, s)}
<1>1. {} \in T
  BY SumEmpty
<1>2. ASSUME NEW s \in SUBSET S, s # {}, s \ {Chosen(s)} \in T
      PROVE  s \in T
  <2> DEFINE c == Chosen(s)
             r == s \ {c}
  <2>1. c \in s
    BY <1>2 DEF Chosen
  <2>2. IsFiniteSet(s) /\ IsFiniteSet(r)
    BY FS_Subset
  <2>3. \A x \in s : f[x] \in Int /\ g[x] \in Int /\ h[x] \in Int
    OBVIOUS
  <2>4. /\ SumFunctionOnSet(f, s) = f[c] + SumFunctionOnSet(f, r)
        /\ SumFunctionOnSet(g, s) = g[c] + SumFunctionOnSet(g, r)
        /\ SumFunctionOnSet(h, s) = h[c] + SumFunctionOnSet(h, r)
    <3> HIDE DEF c
    <3> QED BY <2>1, <2>2, <2>3, SumRemove
  <2>5. SumFunctionOnSet(f, r) \in Int /\ SumFunctionOnSet(g, r) \in Int
    BY <2>2, <2>3, SumType
  <2>6. SumFunctionOnSet(h, r) = SumFunctionOnSet(f, r) + SumFunctionOnSet(g, r)
    BY <1>2
  <2>7. h[c] = f[c] + g[c] /\ f[c] \in Int /\ g[c] \in Int
    BY <2>1
  <2> HIDE DEF c, r
  <2> QED BY <2>4, <2>5, <2>6, <2>7
<1>3. S \in T
  <2> HIDE DEF T
  <2> QED BY <1>1, <1>2, SubsetInduction
<1> QED BY <1>3

Keyed(key, k, S) == {x \in S : key[x] = k}

\* Adding up by key and then over the keys is adding up.
LEMMA SumByKey ==
  ASSUME NEW S, IsFiniteSet(S), NEW K, IsFiniteSet(K), NEW key, \A x \in S : key[x] \in K,
         NEW f, \A x \in S : f[x] \in Int,
         NEW part, \A k \in K : part[k] = SumFunctionOnSet(f, Keyed(key, k, S))
  PROVE  SumFunctionOnSet(part, K) = SumFunctionOnSet(f, S)
<1> USE DEF Keyed
<1> DEFINE of(s, k) == {x \in s : key[x] = k}
           parts(s) == [k \in K |-> SumFunctionOnSet(f, of(s, k))]
           T == {s \in SUBSET S : SumFunctionOnSet(parts(s), K) = SumFunctionOnSet(f, s)}
<1>1. {} \in T
  <2>1. \A k \in K : of({}, k) = {}
    OBVIOUS
  <2>2. \A k \in K : parts({})[k] = 0
    BY <2>1, SumEmpty
  <2> HIDE DEF parts
  <2> QED BY <2>2, SumZero, SumEmpty
<1>2. \A s \in SUBSET S, k \in K :
        /\ IsFiniteSet(of(s, k)) /\ of(s, k) \subseteq S
        /\ SumFunctionOnSet(f, of(s, k)) \in Int
  <2> SUFFICES ASSUME NEW s \in SUBSET S, NEW k \in K
               PROVE  /\ IsFiniteSet(of(s, k)) /\ of(s, k) \subseteq S
                      /\ SumFunctionOnSet(f, of(s, k)) \in Int
    OBVIOUS
  <2>1. of(s, k) \in SUBSET S
    OBVIOUS
  <2> HIDE DEF of
  <2>2. IsFiniteSet(of(s, k))
    BY <2>1, FS_Subset
  <2> QED BY <2>1, <2>2, SumType
<1>3. ASSUME NEW s \in SUBSET S, s # {}, s \ {Chosen(s)} \in T
      PROVE  s \in T
  <2> DEFINE c == Chosen(s)
             r == s \ {c}
  <2>1. c \in s /\ key[c] \in K /\ f[c] \in Int
    BY <1>3 DEF Chosen
  <2>2. r \in SUBSET S /\ IsFiniteSet(s)
    BY FS_Subset
  <2>3. \A k \in K : parts(s)[k] \in Int /\ parts(r)[k] \in Int
    BY <1>2, <2>2
  <2>4. \A k \in K \ {key[c]} : parts(s)[k] = parts(r)[k]
    <3>1. \A k \in K \ {key[c]} : of(s, k) = of(r, k)
      OBVIOUS
    <3> HIDE DEF of
    <3> QED BY <3>1
  <2>5. parts(s)[key[c]] = f[c] + parts(r)[key[c]]
    <3>1. of(s, key[c]) \ {c} = of(r, key[c]) /\ c \in of(s, key[c])
      BY <2>1
    <3>2. \A x \in of(s, key[c]) : f[x] \in Int
      OBVIOUS
    <3> HIDE DEF of, c
    <3>3. SumFunctionOnSet(f, of(s, key[c])) = f[c] + SumFunctionOnSet(f, of(s, key[c]) \ {c})
      BY <1>2, <2>1, <3>1, <3>2, SumRemove
    <3> QED BY <2>1, <3>1, <3>3
  <2> HIDE DEF parts, of
  <2>6. IsFiniteSet(K \ {key[c]})
    BY FS_RemoveElement
  <2>7. SumFunctionOnSet(parts(s), K \ {key[c]}) = SumFunctionOnSet(parts(r), K \ {key[c]})
    BY <2>3, <2>4, <2>6, SumSame
  <2>8. /\ SumFunctionOnSet(parts(s), K) =
             parts(s)[key[c]] + SumFunctionOnSet(parts(s), K \ {key[c]})
        /\ SumFunctionOnSet(parts(r), K) =
             parts(r)[key[c]] + SumFunctionOnSet(parts(r), K \ {key[c]})
    BY <2>1, <2>3, SumRemove
  <2>9. SumFunctionOnSet(f, s) = f[c] + SumFunctionOnSet(f, r)
    BY <2>1, <2>2, SumRemove
  <2>10. SumFunctionOnSet(parts(r), K) = SumFunctionOnSet(f, r)
    BY <1>3
  <2>11. /\ SumFunctionOnSet(parts(r), K \ {key[c]}) \in Int
         /\ parts(r)[key[c]] \in Int
    BY <2>1, <2>3, <2>6, SumType
  <2> HIDE DEF c, r
  <2>12. SumFunctionOnSet(parts(s), K) = SumFunctionOnSet(f, s)
    BY <2>1, <2>5, <2>7, <2>8, <2>9, <2>10, <2>11
  <2> QED BY <2>12
<1>4. S \in T
  <2> HIDE DEF T
  <2> QED BY <1>1, <1>3, SubsetInduction
<1>5. \A k \in K : part[k] = parts(S)[k] /\ part[k] \in Int
  BY <1>2
<1>6. SumFunctionOnSet(part, K) = SumFunctionOnSet(parts(S), K)
  <2> HIDE DEF parts
  <2> QED BY <1>5, SumSame
<1> QED BY <1>4, <1>6
=============================================================================
