------------------------- MODULE MetricWindowsProofs -------------------------
(* Theorems about MetricWindows for every set of endpoints and samples and   *)
(* every bound.  The first part is about sums over finite sets, which are    *)
(* what the program's numbers are made of.                                   *)
EXTENDS MetricWindows, FiniteSetTheorems, WellFoundedInduction, TLAPS

----------------------------------------------------------------------------
(* Sums *)

(* A set of subsets that has each subset as soon as it has those with one    *)
(* element less has the whole set.                                           *)
LEMMA OneByOne ==
    ASSUME NEW S, IsFiniteSet(S), NEW Good,
           \A t \in SUBSET S : (\A x \in t : t \ {x} \in Good) => t \in Good
    PROVE  \A t \in SUBSET S : t \in Good
<1> DEFINE Bad == {t \in SUBSET S : t \notin Good}
           Smaller == StrictSubsetOrdering(S)
<1>1. SUFFICES ASSUME Bad # {} PROVE FALSE
  OBVIOUS
<1>2. IsWellFoundedOn(Smaller, FiniteSubsetsOf(S))
  BY FS_StrictSubsetOrderingWellFounded
<1>3. Bad \subseteq FiniteSubsetsOf(S)
  BY FS_FiniteSubsetsOfFinite
<1>4. PICK t \in Bad : \A u \in Bad : <<u, t>> \notin Smaller
  <2> HIDE DEF Bad, Smaller
  <2> QED
    BY <1>1, <1>2, <1>3, WFMin, Zenon
<1>5. ASSUME NEW x \in t PROVE t \ {x} \in Good
  <2>1. <<t \ {x}, t>> \in Smaller
    BY DEF StrictSubsetOrdering
  <2>2. t \ {x} \notin Bad
    BY <1>4, <2>1
  <2> QED
    BY <2>2
<1> QED
  BY <1>5

(* The element that a sum takes first.                                       *)
First(t) == CHOOSE x \in t : TRUE

(* F sums g over the subsets of S.                                           *)
Adds(F, g, S) ==
    F = [t \in SUBSET S |-> IF t = {} THEN 0 ELSE g[First(t)] + F[t \ {First(t)}]]

(* The sum of g over S.                                                      *)
Added(g, S) == (CHOOSE F : Adds(F, g, S))[S]

(* A non-empty set has a first element.                                      *)
LEMMA FirstIs == ASSUME NEW t, t # {} PROVE First(t) \in t
BY DEF First

(* What sums g over one set and over another agrees on their common subsets. *)
LEMMA AddsOnce ==
    ASSUME NEW S, IsFiniteSet(S), NEW R, NEW g, NEW F, Adds(F, g, S), NEW G, Adds(G, g, R)
    PROVE  \A t \in SUBSET S : t \subseteq R => F[t] = G[t]
<1> DEFINE Good == {t \in SUBSET S : t \subseteq R => F[t] = G[t]}
<1>1. ASSUME NEW t \in SUBSET S, \A x \in t : t \ {x} \in Good PROVE t \in Good
  <2>1. SUFFICES ASSUME t \subseteq R PROVE F[t] = G[t]
    OBVIOUS
  <2>2. CASE t = {}
    BY <2>1, <2>2 DEF Adds
  <2>3. CASE t # {}
    <3>1. First(t) \in t
      BY <2>3, FirstIs
    <3>2. F[t \ {First(t)}] = G[t \ {First(t)}]
      BY <1>1, <2>1, <3>1
    <3>3. F[t] = g[First(t)] + F[t \ {First(t)}]
      BY <2>3 DEF Adds
    <3>4. G[t] = g[First(t)] + G[t \ {First(t)}]
      BY <2>1, <2>3 DEF Adds
    <3> QED
      BY <3>2, <3>3, <3>4
  <2> QED
    BY <2>2, <2>3
<1> HIDE DEF Good
<1>2. \A t \in SUBSET S : t \in Good
  BY <1>1, OneByOne
<1> QED
  BY <1>2 DEF Good

(* The sum over a set is what any of them says.                              *)
LEMMA AddedIs ==
    ASSUME NEW S, NEW R, IsFiniteSet(R), R \subseteq S, NEW g, NEW F, Adds(F, g, S)
    PROVE  Added(g, R) = F[R]
<1> DEFINE H == [w \in SUBSET R |-> F[w]]
           K == [w \in SUBSET R |-> IF w = {} THEN 0 ELSE g[First(w)] + H[w \ {First(w)}]]
<1>1. ASSUME NEW w \in SUBSET R
      PROVE  H[w] = IF w = {} THEN 0 ELSE g[First(w)] + H[w \ {First(w)}]
  <2>1. F[w] = IF w = {} THEN 0 ELSE g[First(w)] + F[w \ {First(w)}]
    BY DEF Adds
  <2>2. H[w] = F[w] /\ H[w \ {First(w)}] = F[w \ {First(w)}]
    OBVIOUS
  <2> HIDE DEF H
  <2> QED
    BY <2>1, <2>2
<1>2. H = [w \in SUBSET R |-> H[w]]
  OBVIOUS
<1>3. H[R] = F[R]
  OBVIOUS
<1>4. Adds(H, g, R)
  <2> HIDE DEF H
  <2>1. H = K
    BY <1>1, <1>2
  <2> QED
    BY <2>1 DEF Adds
<1> HIDE DEF H
<1> DEFINE E == CHOOSE G : Adds(G, g, R)
<1>5. Adds(E, g, R)
  BY <1>4, Zenon
<1> HIDE DEF E
<1>6. E[R] = H[R]
  BY <1>4, <1>5, AddsOnce
<1> QED
  BY <1>3, <1>6 DEF Added, E

(* There is a function that sums g over the subsets of a finite set.         *)
LEMMA AddsSome ==
    ASSUME NEW S, IsFiniteSet(S), NEW g
    PROVE  \E F : Adds(F, g, S)
<1> DEFINE Good == {t \in SUBSET S : \E F : Adds(F, g, t)}
<1>1. ASSUME NEW t \in SUBSET S, \A x \in t : t \ {x} \in Good PROVE t \in Good
  <2> DEFINE Rest(u) == u \ {First(u)}
             F == [u \in SUBSET t |->
                     IF u = {} THEN 0 ELSE g[First(u)] + Added(g, Rest(u))]
  <2>1. ASSUME NEW x \in t, NEW u \in SUBSET (t \ {x})
        PROVE  Added(g, u) = IF u = {} THEN 0 ELSE g[First(u)] + Added(g, Rest(u))
    <3>1. PICK G : Adds(G, g, t \ {x})
      BY <1>1
    <3>2. ASSUME NEW v \in SUBSET (t \ {x}) PROVE Added(g, v) = G[v]
      <4>1. IsFiniteSet(v)
        BY FS_Subset
      <4> HIDE DEF F
      <4> QED
        BY <3>1, <4>1, AddedIs
    <3>3. Added(g, u) = G[u] /\ Added(g, Rest(u)) = G[Rest(u)]
      BY <3>2
    <3>4. G[u] = IF u = {} THEN 0 ELSE g[First(u)] + G[Rest(u)]
      BY <3>1 DEF Adds
    <3> QED
      BY <3>3, <3>4
  <2>2. ASSUME NEW u \in SUBSET t, u # {} PROVE F[Rest(u)] = Added(g, Rest(u))
    <3>1. First(u) \in t /\ Rest(u) \in SUBSET (t \ {First(u)})
      BY <2>2, FirstIs
    <3>2. Added(g, Rest(u)) =
            IF Rest(u) = {} THEN 0 ELSE g[First(Rest(u))] + Added(g, Rest(Rest(u)))
      BY <2>1, <3>1
    <3> QED
      BY <3>1, <3>2
  <2>3. ASSUME NEW u \in SUBSET t
        PROVE  F[u] = IF u = {} THEN 0 ELSE g[First(u)] + F[u \ {First(u)}]
    BY <2>2
  <2>4. F = [u \in SUBSET t |-> F[u]]
    OBVIOUS
  <2>5. Adds(F, g, t)
    <3> HIDE DEF F
    <3> QED
      BY <2>3, <2>4 DEF Adds
  <2> HIDE DEF F
  <2> QED
    BY <2>5
<1> HIDE DEF Good
<1>2. S \in Good
  BY <1>1, OneByOne
<1> QED
  BY <1>2 DEF Good

(* A sum adds its first element to the rest.                                 *)
LEMMA AddedStep ==
    ASSUME NEW S, IsFiniteSet(S), NEW g
    PROVE  /\ Added(g, {}) = 0
           /\ S # {} => Added(g, S) = g[First(S)] + Added(g, S \ {First(S)})
<1>1. PICK F : Adds(F, g, S)
  BY AddsSome
<1>2. \A R \in SUBSET S : Added(g, R) = F[R]
  <2>1. \A R \in SUBSET S : IsFiniteSet(R)
    BY FS_Subset
  <2> QED
    BY <1>1, <2>1, AddedIs
<1> QED
  BY <1>1, <1>2, FirstIs DEF Adds

(* The sum of nothing.                                                       *)
LEMMA AddedNone == ASSUME NEW g PROVE Added(g, {}) = 0
BY AddedStep, FS_EmptySet

(* Functions that agree on a set have the same sum.                          *)
LEMMA AddedSame ==
    ASSUME NEW S, IsFiniteSet(S), NEW g, NEW h, \A x \in S : g[x] = h[x]
    PROVE  Added(g, S) = Added(h, S)
<1> DEFINE Good == {t \in SUBSET S : Added(g, t) = Added(h, t)}
<1>1. ASSUME NEW t \in SUBSET S, \A x \in t : t \ {x} \in Good PROVE t \in Good
  <2>1. IsFiniteSet(t)
    BY FS_Subset
  <2>2. CASE t = {}
    BY <2>2, AddedNone
  <2>3. CASE t # {}
    <3>1. First(t) \in t
      BY <2>3, FirstIs
    <3>2. Added(g, t) = g[First(t)] + Added(g, t \ {First(t)})
      BY <2>1, <2>3, AddedStep
    <3>3. Added(h, t) = h[First(t)] + Added(h, t \ {First(t)})
      BY <2>1, <2>3, AddedStep
    <3> QED
      BY <1>1, <3>1, <3>2, <3>3
  <2> QED
    BY <2>2, <2>3
<1> HIDE DEF Good
<1>2. \A t \in SUBSET S : t \in Good
  BY <1>1, OneByOne, Zenon
<1> QED
  BY <1>2 DEF Good

(* Sums of integers are integers, of naturals naturals.                      *)
LEMMA AddedInt ==
    ASSUME NEW S, IsFiniteSet(S), NEW g, \A x \in S : g[x] \in Int
    PROVE  /\ Added(g, S) \in Int
           /\ (\A x \in S : g[x] >= 0) => Added(g, S) >= 0
<1> DEFINE Good ==
        {t \in SUBSET S : /\ Added(g, t) \in Int
                          /\ (\A x \in S : g[x] >= 0) => Added(g, t) >= 0}
<1>1. ASSUME NEW t \in SUBSET S, \A x \in t : t \ {x} \in Good PROVE t \in Good
  <2>1. IsFiniteSet(t)
    BY FS_Subset
  <2>2. CASE t = {}
    BY <2>2, AddedNone
  <2>3. CASE t # {}
    <3>1. First(t) \in t
      BY <2>3, FirstIs
    <3>2. Added(g, t) = g[First(t)] + Added(g, t \ {First(t)})
      BY <2>1, <2>3, AddedStep
    <3> QED
      BY <1>1, <3>1, <3>2
  <2> QED
    BY <2>2, <2>3
<1> HIDE DEF Good
<1>2. \A t \in SUBSET S : t \in Good
  BY <1>1, OneByOne, Zenon
<1> QED
  BY <1>2 DEF Good

(* The order of adding does not matter.                                      *)
LEMMA AddedAny ==
    ASSUME NEW S, IsFiniteSet(S), NEW g, \A x \in S : g[x] \in Int
    PROVE  \A x \in S : Added(g, S) = g[x] + Added(g, S \ {x})
<1> DEFINE Good ==
        {t \in SUBSET S : \A x \in t : Added(g, t) = g[x] + Added(g, t \ {x})}
<1>0. \A t \in SUBSET S : IsFiniteSet(t) /\ Added(g, t) \in Int
  <2> SUFFICES ASSUME NEW t \in SUBSET S PROVE IsFiniteSet(t) /\ Added(g, t) \in Int
    OBVIOUS
  <2>1. IsFiniteSet(t)
    BY FS_Subset
  <2> QED
    BY <2>1, AddedInt
<1>1. ASSUME NEW t \in SUBSET S, \A x \in t : t \ {x} \in Good PROVE t \in Good
  <2> SUFFICES ASSUME NEW x \in t PROVE Added(g, t) = g[x] + Added(g, t \ {x})
    OBVIOUS
  <2> DEFINE y == First(t)
  <2>1. y \in t /\ Added(g, t) = g[y] + Added(g, t \ {y})
    BY <1>0, AddedStep, FirstIs
  <2>2. CASE x # y
    <3> DEFINE rest == Added(g, (t \ {y}) \ {x})
    <3>1. Added(g, t \ {y}) = g[x] + rest
      BY <1>1, <2>1, <2>2
    <3>2. (t \ {y}) \ {x} = (t \ {x}) \ {y}
      OBVIOUS
    <3>3. Added(g, t \ {x}) = g[y] + Added(g, (t \ {x}) \ {y})
      BY <1>1, <2>1, <2>2
    <3>4. Added(g, t \ {x}) = g[y] + rest
      BY <3>2, <3>3
    <3>5. rest \in Int /\ g[x] \in Int /\ g[y] \in Int
      BY <1>0, <2>1
    <3>6. Added(g, t) = g[y] + Added(g, t \ {y})
      BY <2>1
    <3> HIDE DEF y, rest
    <3> QED
      BY <3>1, <3>4, <3>5, <3>6
  <2> QED
    BY <2>1, <2>2
<1> HIDE DEF Good
<1>2. \A t \in SUBSET S : t \in Good
  BY <1>1, OneByOne, Zenon
<1> QED
  BY <1>2 DEF Good

(* If each number of one sum has its own number, at least as large, in       *)
(* another of naturals, the other sum is at least as large.                  *)
LEMMA AddedInto ==
    ASSUME NEW S, IsFiniteSet(S), NEW T, IsFiniteSet(T), NEW g, NEW h,
           \A x \in S : g[x] \in Int, \A y \in T : h[y] \in Nat,
           NEW p, \A x \in S : p[x] \in T /\ g[x] <= h[p[x]],
           \A x, z \in S : p[x] = p[z] => x = z
    PROVE  Added(g, S) <= Added(h, T)
<1> DEFINE Good ==
        {t \in SUBSET S : \A U \in SUBSET T :
           (\A x \in t : p[x] \in U) => Added(g, t) <= Added(h, U)}
<1>1. ASSUME NEW t \in SUBSET S, \A x \in t : t \ {x} \in Good PROVE t \in Good
  <2> SUFFICES ASSUME NEW U \in SUBSET T, \A x \in t : p[x] \in U
               PROVE  Added(g, t) <= Added(h, U)
    OBVIOUS
  <2>1. IsFiniteSet(t) /\ IsFiniteSet(U)
    BY FS_Subset
  <2>2. CASE t = {}
    <3>1. Added(g, t) = 0
      BY <2>2, AddedNone
    <3>2. Added(h, U) \in Int /\ Added(h, U) >= 0
      BY <2>1, AddedInt
    <3> QED
      BY <3>1, <3>2
  <2>3. CASE t # {}
    <3>1. PICK x \in t : TRUE
      BY <2>3
    <3>2. Added(g, t) = g[x] + Added(g, t \ {x})
      BY <2>1, AddedAny
    <3>3. Added(h, U) = h[p[x]] + Added(h, U \ {p[x]})
      BY <2>1, AddedAny
    <3>4. Added(g, t \ {x}) <= Added(h, U \ {p[x]})
      BY <1>1, <3>1
    <3>5. Added(g, t \ {x}) \in Int /\ Added(h, U \ {p[x]}) \in Int
      <4>1. IsFiniteSet(t \ {x}) /\ IsFiniteSet(U \ {p[x]})
        BY <2>1, FS_Subset
      <4> QED
        BY <4>1, AddedInt
    <3>6. g[x] \in Int /\ h[p[x]] \in Int /\ g[x] <= h[p[x]]
      BY <3>1
    <3> QED
      BY <3>2, <3>3, <3>4, <3>5, <3>6
  <2> QED
    BY <2>2, <2>3
<1> HIDE DEF Good
<1>2. \A t \in SUBSET S : t \in Good
  BY <1>1, OneByOne, Zenon
<1> QED
  BY <1>2 DEF Good

(* Zeros add nothing.                                                        *)
LEMMA AddedZeros ==
    ASSUME NEW S, IsFiniteSet(S), NEW g, \A x \in S : g[x] \in Int,
           NEW R \in SUBSET S, \A x \in S \ R : g[x] = 0
    PROVE  Added(g, S) = Added(g, R)
<1> DEFINE Good == {t \in SUBSET S : Added(g, t) = Added(g, t \cap R)}
<1>1. ASSUME NEW t \in SUBSET S, \A x \in t : t \ {x} \in Good PROVE t \in Good
  <2>1. CASE t \subseteq R
    <3>1. t \cap R = t
      BY <2>1
    <3> QED
      BY <3>1
  <2>2. ASSUME NEW x \in t \ R PROVE t \in Good
    <3>1. IsFiniteSet(t)
      BY FS_Subset
    <3>2. Added(g, t) = g[x] + Added(g, t \ {x})
      BY <3>1, AddedAny
    <3>3. (t \ {x}) \cap R = t \cap R
      BY <2>2
    <3>4. Added(g, t \ {x}) = Added(g, t \cap R)
      BY <1>1, <3>3
    <3>5. g[x] = 0
      BY <2>2
    <3>6. Added(g, t \ {x}) \in Int
      BY <3>1, FS_Subset, AddedInt
    <3> QED
      BY <3>2, <3>4, <3>5, <3>6
  <2> QED
    BY <2>1, <2>2
<1> HIDE DEF Good
<1>2. \A t \in SUBSET S : t \in Good
  BY <1>1, OneByOne, Zenon
<1>3. S \cap R = R
  OBVIOUS
<1>4. Added(g, S) = Added(g, S \cap R)
  BY <1>2 DEF Good
<1> QED
  BY <1>3, <1>4

(* The sum of sums.                                                          *)
LEMMA AddedPlus ==
    ASSUME NEW S, IsFiniteSet(S), NEW f, NEW g, NEW h,
           \A x \in S : f[x] \in Int /\ g[x] \in Int /\ h[x] = f[x] + g[x]
    PROVE  Added(h, S) = Added(f, S) + Added(g, S)
<1> DEFINE Good == {t \in SUBSET S : Added(h, t) = Added(f, t) + Added(g, t)}
<1>1. ASSUME NEW t \in SUBSET S, \A x \in t : t \ {x} \in Good PROVE t \in Good
  <2>1. IsFiniteSet(t)
    BY FS_Subset
  <2>2. CASE t = {}
    <3>1. Added(f, t) = 0 /\ Added(g, t) = 0 /\ Added(h, t) = 0
      BY <2>2, AddedNone
    <3> QED
      BY <3>1
  <2>3. CASE t # {}
    <3> DEFINE x == First(t)
    <3>1. x \in t
      BY <2>3, FirstIs
    <3>2. Added(f, t) = f[x] + Added(f, t \ {x})
      BY <2>1, <2>3, AddedStep
    <3>3. Added(g, t) = g[x] + Added(g, t \ {x})
      BY <2>1, <2>3, AddedStep
    <3>4. Added(h, t) = h[x] + Added(h, t \ {x})
      BY <2>1, <2>3, AddedStep
    <3>5. IsFiniteSet(t \ {x})
      BY <2>1, FS_Subset
    <3>6. Added(f, t \ {x}) \in Int
      BY <3>5, AddedInt
    <3>7. Added(g, t \ {x}) \in Int
      BY <3>5, AddedInt
    <3>8. Added(h, t \ {x}) = Added(f, t \ {x}) + Added(g, t \ {x})
      BY <1>1, <3>1
    <3>9. f[x] \in Int /\ g[x] \in Int /\ h[x] = f[x] + g[x]
      BY <3>1
    <3> HIDE DEF x
    <3> QED
      BY <3>2, <3>3, <3>4, <3>6, <3>7, <3>8, <3>9
  <2> QED
    BY <2>2, <2>3
<1> HIDE DEF Good
<1>2. \A t \in SUBSET S : t \in Good
  BY <1>1, OneByOne, Zenon
<1> QED
  BY <1>2 DEF Good

(* A multiple of a sum.                                                      *)
LEMMA AddedTimes ==
    ASSUME NEW S, IsFiniteSet(S), NEW k \in Int, NEW g, NEW h,
           \A x \in S : g[x] \in Int /\ h[x] = k * g[x]
    PROVE  Added(h, S) = k * Added(g, S)
<1> DEFINE Good == {t \in SUBSET S : Added(h, t) = k * Added(g, t)}
<1>1. ASSUME NEW t \in SUBSET S, \A x \in t : t \ {x} \in Good PROVE t \in Good
  <2>1. IsFiniteSet(t)
    BY FS_Subset
  <2>2. CASE t = {}
    <3>1. Added(g, t) = 0 /\ Added(h, t) = 0
      BY <2>2, AddedNone
    <3> QED
      BY <3>1
  <2>3. CASE t # {}
    <3> DEFINE x == First(t)
    <3>1. x \in t
      BY <2>3, FirstIs
    <3>2. Added(g, t) = g[x] + Added(g, t \ {x})
      BY <2>1, <2>3, AddedStep
    <3>3. Added(h, t) = h[x] + Added(h, t \ {x})
      BY <2>1, <2>3, AddedStep
    <3>4. IsFiniteSet(t \ {x})
      BY <2>1, FS_Subset
    <3>5. Added(g, t \ {x}) \in Int
      BY <3>4, AddedInt
    <3>6. Added(h, t \ {x}) = k * Added(g, t \ {x})
      BY <1>1, <3>1
    <3>7. g[x] \in Int /\ h[x] = k * g[x]
      BY <3>1
    <3> HIDE DEF x
    <3> QED
      BY <3>2, <3>3, <3>5, <3>6, <3>7
  <2> QED
    BY <2>2, <2>3
<1> HIDE DEF Good
<1>2. \A t \in SUBSET S : t \in Good
  BY <1>1, OneByOne, Zenon
<1> QED
  BY <1>2 DEF Good

(* A table by rows m and by columns c, with the sums of the rows in f and    *)
(* those of the columns in g.                                                *)
SumsOfTable(m, c, f, g, S, T) ==
    /\ \A x \in S, y \in T : m[x][y] \in Int /\ c[y][x] = m[x][y]
    /\ \A x \in S : f[x] = Added(m[x], T)
    /\ \A y \in T : g[y] = Added(c[y], S)

(* Rows first or columns first.                                              *)
LEMMA AddedSwap ==
    ASSUME NEW S, IsFiniteSet(S), NEW T, IsFiniteSet(T), NEW m, NEW c, NEW f, NEW g,
           SumsOfTable(m, c, f, g, S, T)
    PROVE  Added(f, S) = Added(g, T)
<1> USE DEF SumsOfTable
<1> DEFINE Part(t) == [y \in T |-> Added(c[y], t)]
           Good == {t \in SUBSET S : Added(f, t) = Added(Part(t), T)}
<1>0. ASSUME NEW t \in SUBSET S, NEW y \in T PROVE IsFiniteSet(t) /\ Added(c[y], t) \in Int
  <2>1. IsFiniteSet(t)
    BY FS_Subset
  <2>2. \A x \in t : c[y][x] \in Int
    OBVIOUS
  <2> QED
    BY <2>1, <2>2, AddedInt
<1>1. ASSUME NEW t \in SUBSET S, \A x \in t : t \ {x} \in Good PROVE t \in Good
  <2>1. IsFiniteSet(t)
    BY FS_Subset
  <2>2. CASE t = {}
    <3> DEFINE z == Part(t)
    <3>1. \A y \in T : z[y] = 0
      BY <2>2, AddedNone
    <3> HIDE DEF z
    <3>2. Added(z, T) = Added(z, {})
      BY <3>1, AddedZeros
    <3>3. Added(z, {}) = 0 /\ Added(f, t) = 0
      BY <2>2, AddedNone
    <3> QED
      BY <3>2, <3>3 DEF z
  <2>3. CASE t # {}
    <3> DEFINE x == First(t)
               u == t \ {x}
               after == Part(t)
               before == Part(u)
    <3>1. x \in t
      BY <2>3, FirstIs
    <3>2. Added(f, t) = f[x] + Added(f, u)
      BY <2>1, <2>3, AddedStep
    <3>3. \A y \in T : Added(c[y], t) = c[y][x] + Added(c[y], u)
      BY <2>1, <2>3, AddedStep
    <3>4. \A y \in T : before[y] \in Int
      BY <1>0
    <3>5. \A y \in T : m[x][y] \in Int /\ after[y] = m[x][y] + before[y]
      BY <3>1, <3>3
    <3>6. Added(f, u) = Added(before, T)
      BY <1>1, <3>1
    <3>7. f[x] = Added(m[x], T)
      BY <3>1
    <3> HIDE DEF x, u, after, before
    <3>8. Added(after, T) = Added(m[x], T) + Added(before, T)
      BY <3>4, <3>5, AddedPlus
    <3>9. Added(f, t) = Added(after, T)
      BY <3>2, <3>6, <3>7, <3>8
    <3> QED
      BY <3>9 DEF after
  <2> QED
    BY <2>2, <2>3
<1> HIDE DEF Good
<1>2. \A t \in SUBSET S : t \in Good
  BY <1>1, OneByOne, Zenon
<1>3. Added(f, S) = Added(Part(S), T)
  BY <1>2 DEF Good
<1> DEFINE z == Part(S)
<1>4. \A y \in T : z[y] = g[y]
  OBVIOUS
<1> HIDE DEF z
<1>5. Added(z, T) = Added(g, T)
  BY <1>4, AddedSame
<1> QED
  BY <1>3, <1>5 DEF z

----------------------------------------------------------------------------
(* Bags *)

(* The program's sums are these sums.                                        *)
LEMMA TotalIs ==
    ASSUME NEW b, IsFiniteSet(DOMAIN b)
    PROVE  Total(b) = Added(b, DOMAIN b)
<1> DEFINE F == CHOOSE F : F = [t \in SUBSET DOMAIN b |->
                   IF t = {} THEN 0 ELSE b[CHOOSE x \in t : TRUE] + F[t \ {CHOOSE x \in t : TRUE}]]
<1>1. Total(b) = F[DOMAIN b]
  BY DEF Total, MapThenSumSet, MapThenFoldSet
<1>2. F = CHOOSE G : Adds(G, b, DOMAIN b)
  BY DEF Adds, First
<1> HIDE DEF F
<1> QED
  BY <1>1, <1>2 DEF Added

(* A finite bag of elements of S, some of them perhaps zero times.           *)
BagOver(b, S) == /\ IsFiniteSet(DOMAIN b) /\ DOMAIN b \subseteq S
                 /\ b \in [DOMAIN b -> Nat]

(* What a bag is worth, if w is what an element is worth.                    *)
Worth(b, w) == Added([x \in DOMAIN b |-> b[x] * w[x]], DOMAIN b)

(* The product of naturals.                                                  *)
LEMMA Product == \A i, j \in Nat : i * j \in Nat
OBVIOUS

(* The worth of a bag is a natural, no less than that of one of its elements.*)
LEMMA WorthIs ==
    ASSUME NEW S, NEW b, BagOver(b, S), NEW w \in [S -> Nat]
    PROVE  /\ Worth(b, w) \in Nat
           /\ \A x \in DOMAIN b : b[x] * w[x] <= Worth(b, w)
<1> DEFINE g == [x \in DOMAIN b |-> b[x] * w[x]]
<1>1. IsFiniteSet(DOMAIN b) /\ \A x \in DOMAIN b : g[x] \in Nat
  <2> SUFFICES ASSUME NEW x \in DOMAIN b PROVE g[x] \in Nat
    BY DEF BagOver
  <2>1. b[x] \in Nat /\ w[x] \in Nat
    BY DEF BagOver
  <2> QED
    BY <2>1, Product
<1>2. \A x \in DOMAIN b : g[x] = b[x] * w[x]
  OBVIOUS
<1> HIDE DEF g
<1>3. Added(g, DOMAIN b) \in Nat
  BY <1>1, AddedInt
<1>4. ASSUME NEW x \in DOMAIN b PROVE g[x] <= Added(g, DOMAIN b)
  <2>1. Added(g, DOMAIN b) = g[x] + Added(g, DOMAIN b \ {x})
    BY <1>1, AddedAny
  <2>2. Added(g, DOMAIN b \ {x}) \in Nat
    <3>1. IsFiniteSet(DOMAIN b \ {x})
      BY <1>1, FS_Subset
    <3> QED
      BY <1>1, <3>1, AddedInt
  <2> QED
    BY <1>1, <2>1, <2>2
<1> QED
  BY <1>2, <1>3, <1>4 DEF g, Worth

(* The sum of two bags.                                                      *)
LEMMA WorthPlus ==
    ASSUME NEW S, NEW b, BagOver(b, S), NEW c, BagOver(c, S), NEW w \in [S -> Nat]
    PROVE  /\ BagOver(b (+) c, S)
           /\ Worth(b (+) c, w) = Worth(b, w) + Worth(c, w)
<1> DEFINE D == DOMAIN b \cup DOMAIN c
           s == b (+) c
           gb == [x \in DOMAIN b |-> b[x] * w[x]]
           gc == [x \in DOMAIN c |-> c[x] * w[x]]
           eb == [x \in D |-> IF x \in DOMAIN b THEN b[x] * w[x] ELSE 0]
           ec == [x \in D |-> IF x \in DOMAIN c THEN c[x] * w[x] ELSE 0]
           gs == [x \in D |-> s[x] * w[x]]
<1>1. /\ IsFiniteSet(DOMAIN b) /\ IsFiniteSet(DOMAIN c)
      /\ \A x \in DOMAIN b : b[x] \in Nat
      /\ \A x \in DOMAIN c : c[x] \in Nat
      /\ D \subseteq S
  BY DEF BagOver
<1>2. DOMAIN s = D /\ IsFiniteSet(D)
  BY <1>1, FS_Union DEF (+)
<1>3. ASSUME NEW x \in D
      PROVE  s[x] = (IF x \in DOMAIN b THEN b[x] ELSE 0) + (IF x \in DOMAIN c THEN c[x] ELSE 0)
  BY DEF (+)
<1>4. \A x \in D : s[x] \in Nat
  BY <1>1, <1>3
<1>5. BagOver(s, S)
  <2>1. s = [x \in D |-> s[x]]
    BY DEF (+)
  <2> HIDE DEF s
  <2>2. s \in [D -> Nat]
    BY <1>4, <2>1
  <2> QED
    BY <1>1, <1>2, <2>2 DEF BagOver
<1>6. ASSUME NEW x \in D
      PROVE  eb[x] \in Int /\ ec[x] \in Int /\ gs[x] = eb[x] + ec[x]
  <2> DEFINE i == IF x \in DOMAIN b THEN b[x] ELSE 0
             j == IF x \in DOMAIN c THEN c[x] ELSE 0
             v == w[x]
  <2>1. i \in Int /\ j \in Int /\ v \in Int /\ s[x] = i + j
    BY <1>1, <1>3
  <2>2. eb[x] = i * v /\ ec[x] = j * v /\ gs[x] = s[x] * v
    <3>1. v \in Nat
      BY <1>1
    <3> QED
      BY <1>1, <3>1
  <2> HIDE DEF i, j, v, eb, ec, gs, s
  <2>3. (i + j) * v = i * v + j * v /\ i * v \in Int /\ j * v \in Int
    BY <2>1
  <2> QED
    BY <2>1, <2>2, <2>3
<1>7. \A x \in D \ DOMAIN b : eb[x] = 0
  OBVIOUS
<1>8. \A x \in D \ DOMAIN c : ec[x] = 0
  OBVIOUS
<1>9. /\ \A x \in DOMAIN b : eb[x] = gb[x]
      /\ \A x \in DOMAIN c : ec[x] = gc[x]
  OBVIOUS
<1>10. DOMAIN b \subseteq D /\ DOMAIN c \subseteq D
  OBVIOUS
<1>11. Worth(s, w) = Added(gs, D) /\ Worth(b, w) = Added(gb, DOMAIN b)
         /\ Worth(c, w) = Added(gc, DOMAIN c)
  BY <1>2 DEF Worth
<1> HIDE DEF D, s, gb, gc, eb, ec, gs
<1>12. Added(gs, D) = Added(eb, D) + Added(ec, D)
  BY <1>2, <1>6, AddedPlus
<1>13. Added(eb, D) = Added(eb, DOMAIN b)
  BY <1>2, <1>6, <1>7, <1>10, AddedZeros
<1>14. Added(ec, D) = Added(ec, DOMAIN c)
  BY <1>2, <1>6, <1>8, <1>10, AddedZeros
<1>15. Added(eb, DOMAIN b) = Added(gb, DOMAIN b)
  BY <1>1, <1>9, AddedSame
<1>16. Added(ec, DOMAIN c) = Added(gc, DOMAIN c)
  BY <1>1, <1>9, AddedSame
<1> QED
  BY <1>5, <1>11, <1>12, <1>13, <1>14, <1>15, <1>16 DEF s

----------------------------------------------------------------------------
(* Rows *)

(* What a row counts.                                                        *)
RequestsOf == [r \in Row |-> r.requests]
ErrorsOf == [r \in Row |-> r.errors]

(* A bag of rows, each there at least once and with no more errors than      *)
(* requests.                                                                 *)
RowBag(b) == /\ BagOver(b, Row)
             /\ \A r \in DOMAIN b : b[r] > 0 /\ r.errors <= r.requests

(* The fields of a row.                                                      *)
LEMMA RowHas ==
    ASSUME NEW r \in Row
    PROVE  /\ r.endpoint \in Endpoints \cup {None} /\ r.window \in Minutes
           /\ r.requests \in Nat /\ r.requests > 0 /\ r.errors \in Nat /\ r.p95 \in Nat
           /\ RequestsOf[r] = r.requests /\ ErrorsOf[r] = r.errors
BY DEF Row, RequestsOf, ErrorsOf

(* What rows count are naturals.                                             *)
LEMMA CountsAre == RequestsOf \in [Row -> Nat] /\ ErrorsOf \in [Row -> Nat]
BY RowHas DEF RequestsOf, ErrorsOf

(* The sums of the program are worths.                                       *)
LEMMA SumsAreWorths ==
    ASSUME NEW b, BagOver(b, Row)
    PROVE  Requests(b) = Worth(b, RequestsOf) /\ Errors(b) = Worth(b, ErrorsOf)
<1>1. IsFiniteSet(DOMAIN b) /\ DOMAIN b \subseteq Row
  BY DEF BagOver
<1> DEFINE f == [r \in DOMAIN b |-> b[r] * r.requests]
           g == [r \in DOMAIN b |-> b[r] * r.errors]
           h == [r \in DOMAIN b |-> b[r] * RequestsOf[r]]
           k == [r \in DOMAIN b |-> b[r] * ErrorsOf[r]]
<1>2. f = h /\ g = k
  BY <1>1, RowHas
<1>3. DOMAIN f = DOMAIN b /\ DOMAIN g = DOMAIN b
  OBVIOUS
<1>4. Requests(b) = Total(f) /\ Errors(b) = Total(g)
  BY DEF Requests, Errors
<1>5. Worth(b, RequestsOf) = Added(h, DOMAIN b) /\ Worth(b, ErrorsOf) = Added(k, DOMAIN b)
  BY DEF Worth
<1> HIDE DEF f, g, h, k
<1> QED
  BY <1>1, <1>2, <1>3, <1>4, <1>5, TotalIs

(* The rows a query finds.                                                   *)
Found(b, e, t) == {q \in DOMAIN b : q.endpoint = e /\ q.window * TicksPerMinute > t}

(* It finds each as often as it is there.                                    *)
LEMMA AggregatesAre ==
    ASSUME NEW b, NEW e, NEW t
    PROVE  /\ Aggregates(b, e, t) = [r \in Found(b, e, t) |-> b[r]]
           /\ DOMAIN Aggregates(b, e, t) = Found(b, e, t)
           /\ \A r \in Found(b, e, t) : Aggregates(b, e, t)[r] = b[r]
BY DEF Aggregates, Select, Found

(* Part of a bag of rows is one.                                             *)
LEMMA PartIsRowBag ==
    ASSUME NEW b, RowBag(b), NEW D \in SUBSET DOMAIN b
    PROVE  RowBag([r \in D |-> b[r]])
<1>1. IsFiniteSet(D)
  BY FS_Subset DEF RowBag, BagOver
<1> QED
  BY <1>1 DEF RowBag, BagOver

(* What a query finds is a bag of rows.                                      *)
LEMMA AggregatesAreRows ==
    ASSUME NEW b, RowBag(b), NEW e, NEW t
    PROVE  RowBag(Aggregates(b, e, t))
<1>1. RowBag([r \in Found(b, e, t) |-> b[r]])
  BY PartIsRowBag DEF Found
<1> QED
  BY <1>1, AggregatesAre

(* A query finds in a sum of bags what it finds in each.                     *)
LEMMA AggregatesPlus ==
    ASSUME NEW b, NEW c, NEW e, NEW t
    PROVE  Aggregates(b (+) c, e, t) = Aggregates(b, e, t) (+) Aggregates(c, e, t)
<1> DEFINE sb == [r \in Found(b, e, t) |-> b[r]]
           sc == [r \in Found(c, e, t) |-> c[r]]
           s == b (+) c
<1>1. DOMAIN s = DOMAIN b \cup DOMAIN c
  BY DEF (+)
<1>2. [r \in Found(s, e, t) |-> s[r]] = sb (+) sc
  <2>1. Found(s, e, t) = DOMAIN sb \cup DOMAIN sc
    BY <1>1 DEF Found
  <2>2. ASSUME NEW r \in DOMAIN sb \cup DOMAIN sc
        PROVE  s[r] = (IF r \in DOMAIN sb THEN sb[r] ELSE 0)
                        + (IF r \in DOMAIN sc THEN sc[r] ELSE 0)
    <3>1. (r \in DOMAIN b <=> r \in DOMAIN sb) /\ (r \in DOMAIN c <=> r \in DOMAIN sc)
      BY DEF Found
    <3>2. s[r] = (IF r \in DOMAIN b THEN b[r] ELSE 0) + (IF r \in DOMAIN c THEN c[r] ELSE 0)
      BY <1>1, <3>1 DEF (+)
    <3> HIDE DEF s
    <3> QED
      BY <3>1, <3>2
  <2> HIDE DEF s, sb, sc
  <2> QED
    BY <2>1, <2>2 DEF (+)
<1> QED
  BY <1>2, AggregatesAre

(* The sum of two bags of rows is one.                                       *)
LEMMA RowBagPlus ==
    ASSUME NEW b, RowBag(b), NEW c, RowBag(c)
    PROVE  RowBag(b (+) c)
<1>1. BagOver(b (+) c, Row)
  BY WorthPlus, CountsAre DEF RowBag
<1>2. ASSUME NEW r \in DOMAIN (b (+) c)
      PROVE  (b (+) c)[r] > 0 /\ r.errors <= r.requests
  BY DEF (+), RowBag, BagOver
<1> QED
  BY <1>1, <1>2 DEF RowBag

(* What a query counts in a sum of bags is what it counts in each.           *)
LEMMA CountsPlus ==
    ASSUME NEW b, RowBag(b), NEW c, RowBag(c), NEW e, NEW t, NEW w \in [Row -> Nat]
    PROVE  Worth(Aggregates(b (+) c, e, t), w) =
             Worth(Aggregates(b, e, t), w) + Worth(Aggregates(c, e, t), w)
<1> DEFINE p == Aggregates(b, e, t)
           q == Aggregates(c, e, t)
<1>1. BagOver(p, Row) /\ BagOver(q, Row)
  BY AggregatesAreRows DEF RowBag
<1>2. Aggregates(b (+) c, e, t) = p (+) q
  BY AggregatesPlus
<1> HIDE DEF p, q
<1> QED
  BY <1>1, <1>2, WorthPlus DEF p, q

----------------------------------------------------------------------------
(* Telemetry *)

(* What a sample counts for.                                                 *)
EventOf == [s \in Samples |-> 1]
ErrorOf == [s \in Samples |-> IF s.error THEN 1 ELSE 0]

(* The fields of a sample.                                                   *)
LEMMA SampleHas ==
    ASSUME NEW s \in Samples
    PROVE  s.endpoint \in Endpoints /\ s.latency \in Nat /\ s.error \in BOOLEAN
BY WindowsAssumption

(* Samples count for naturals.                                               *)
LEMMA WeightsAre == EventOf \in [Samples -> Nat] /\ ErrorOf \in [Samples -> Nat]
BY DEF EventOf, ErrorOf

(* The size of a bag of samples, and the errors in it.                       *)
LEMMA SizeIsWorth ==
    ASSUME NEW b, BagOver(b, Samples)
    PROVE  /\ Total(b) = Worth(b, EventOf)
           /\ Total([s \in DOMAIN b |-> IF s.error THEN b[s] ELSE 0]) = Worth(b, ErrorOf)
           /\ Worth(b, ErrorOf) <= Worth(b, EventOf)
<1>1. /\ IsFiniteSet(DOMAIN b) /\ DOMAIN b \subseteq Samples
      /\ \A s \in DOMAIN b : b[s] \in Nat
  BY DEF BagOver
<1> DEFINE f == [s \in DOMAIN b |-> b[s] * EventOf[s]]
           g == [s \in DOMAIN b |-> IF s.error THEN b[s] ELSE 0]
           h == [s \in DOMAIN b |-> b[s] * ErrorOf[s]]
           p == [s \in DOMAIN b |-> s]
<1>2. \A s \in DOMAIN b : b[s] = f[s] /\ g[s] = h[s] /\ h[s] <= f[s] /\ f[s] \in Nat /\ h[s] \in Nat
  BY <1>1 DEF EventOf, ErrorOf
<1>3. DOMAIN g = DOMAIN b
  OBVIOUS
<1>4. Worth(b, EventOf) = Added(f, DOMAIN b) /\ Worth(b, ErrorOf) = Added(h, DOMAIN b)
  BY DEF Worth
<1>5. \A s \in DOMAIN b : p[s] = s
  OBVIOUS
<1> HIDE DEF f, h, p
<1>6. Added(b, DOMAIN b) = Added(f, DOMAIN b)
  BY <1>1, <1>2, AddedSame
<1>7. Total(g) = Added(g, DOMAIN b)
  BY <1>1, <1>3, TotalIs
<1>8. Added(g, DOMAIN b) = Added(h, DOMAIN b)
  <2> HIDE DEF g
  <2> QED
    BY <1>1, <1>2, AddedSame
<1>9. Added(h, DOMAIN b) <= Added(f, DOMAIN b)
  BY <1>1, <1>2, <1>5, AddedInto
<1> QED
  BY <1>1, <1>4, <1>6, <1>7, <1>8, <1>9, TotalIs

(* It is a natural.                                                          *)
LEMMA SizeIs ==
    ASSUME NEW b, BagOver(b, Samples)
    PROVE  Total(b) \in Nat
<1>1. Worth(b, EventOf) \in Nat
  BY WorthIs, WeightsAre
<1> QED
  BY <1>1, SizeIsWorth

(* A row counts the samples it was calculated from.                          *)
LEMMA RowCounts ==
    ASSUME NEW b, BagOver(b, Samples), NEW e, NEW m
    PROVE  /\ CalculateMetrics(e, m, b).endpoint = e
           /\ CalculateMetrics(e, m, b).window = m
           /\ CalculateMetrics(e, m, b).requests = Worth(b, EventOf)
           /\ CalculateMetrics(e, m, b).errors = Worth(b, ErrorOf)
           /\ CalculateMetrics(e, m, b).p95 = P95(b)
BY SizeIsWorth DEF CalculateMetrics

(* The largest value of a function on a finite set.                          *)
LEMMA Largest ==
    ASSUME NEW S, IsFiniteSet(S), S # {}, NEW f, \A x \in S : f[x] \in Int
    PROVE  \E x \in S : \A y \in S : f[y] <= f[x]
<1> DEFINE Good == {t \in SUBSET S : t # {} => \E x \in t : \A y \in t : f[y] <= f[x]}
<1>1. ASSUME NEW t \in SUBSET S, \A x \in t : t \ {x} \in Good PROVE t \in Good
  <2> SUFFICES ASSUME NEW z \in t PROVE \E x \in t : \A y \in t : f[y] <= f[x]
    OBVIOUS
  <2>1. CASE t \ {z} = {}
    BY <2>1
  <2>2. CASE t \ {z} # {}
    <3>1. PICK x \in t \ {z} : \A y \in t \ {z} : f[y] <= f[x]
      BY <1>1, <2>2
    <3>2. f[x] \in Int /\ f[z] \in Int
      OBVIOUS
    <3>3. CASE f[z] <= f[x]
      BY <3>1, <3>3
    <3>4. CASE f[x] <= f[z]
      <4>1. \A y \in t : f[y] <= f[z]
        BY <3>1, <3>2, <3>4
      <4> QED
        BY <4>1
    <3> QED
      BY <3>2, <3>3, <3>4
  <2> QED
    BY <2>1, <2>2
<1> HIDE DEF Good
<1>2. \A t \in SUBSET S : t \in Good
  BY <1>1, OneByOne, Zenon
<1> QED
  BY <1>2 DEF Good

(* The minimum of naturals.                                                  *)
LEMMA LeastIs ==
    ASSUME NEW S \in SUBSET Nat, S # {}
    PROVE  Min(S) \in S /\ \A x \in S : Min(S) <= x
<1> DEFINE Less == OpToRel(<, Nat)
<1>1. Less = {p \in Nat \X Nat : p[1] < p[2]}
  BY DEF OpToRel
<1>2. IsWellFoundedOn(Less, Nat)
  BY NatLessThanWellFounded
<1> HIDE DEF Less
<1>3. PICK x \in S : \A y \in S : <<y, x>> \notin Less
  BY <1>2, WFMin, Zenon
<1>4. ASSUME NEW y \in S PROVE x <= y
  <2>1. y \in Nat /\ x \in Nat
    OBVIOUS
  <2>2. y < x => <<y, x>> \in Less
    BY <1>1, <2>1
  <2> QED
    BY <1>3, <2>1, <2>2
<1> QED
  BY <1>4 DEF Min

(* There is an i-th smallest latency, up to the size of the bag.             *)
LEMMA RankedIs ==
    ASSUME NEW b, BagOver(b, Samples), NEW i \in Int, 1 <= i, i <= Total(b)
    PROVE  Ranked(b, i) \in Nat
<1> DEFINE upTo(t) == [u \in DOMAIN b |-> IF u.latency <= t.latency THEN b[u] ELSE 0]
           S == {s.latency : s \in {t \in DOMAIN b : Total(upTo(t)) >= i}}
           latency == [s \in DOMAIN b |-> s.latency]
<1>1. /\ IsFiniteSet(DOMAIN b) /\ DOMAIN b \subseteq Samples
  BY DEF BagOver
<1>2. S \in SUBSET Nat
  BY <1>1, SampleHas
<1>3. DOMAIN b # {}
  <2>1. DOMAIN b = {} => Added(b, DOMAIN b) = 0
    BY AddedNone
  <2> QED
    BY <1>1, <2>1, TotalIs
<1>4. PICK t \in DOMAIN b : \A u \in DOMAIN b : u.latency <= t.latency
  <2>1. \A s \in DOMAIN b : latency[s] = s.latency /\ latency[s] \in Int
    BY <1>1, SampleHas
  <2> HIDE DEF latency
  <2>2. \E t \in DOMAIN b : \A u \in DOMAIN b : latency[u] <= latency[t]
    BY <1>1, <1>3, <2>1, Largest
  <2> QED
    BY <2>1, <2>2
<1>5. Total(upTo(t)) >= i
  <2> DEFINE g == upTo(t)
  <2>1. DOMAIN g = DOMAIN b /\ \A u \in DOMAIN b : g[u] = b[u]
    BY <1>4
  <2> HIDE DEF g
  <2>2. Total(g) = Total(b)
    BY <1>1, <2>1, AddedSame, TotalIs
  <2> QED
    BY <2>2 DEF g
<1>6. S # {}
  BY <1>5
<1>7. Ranked(b, i) = Min(S)
  BY DEF Ranked
<1> HIDE DEF S
<1> QED
  BY <1>2, <1>6, <1>7, LeastIs

(* The percentile of a bag with an event in it.                              *)
LEMMA PercentileIs ==
    ASSUME NEW b, BagOver(b, Samples), Total(b) > 0
    PROVE  P95(b) \in Nat
<1>1. Total(b) \in Nat
  BY SizeIs
<1> DEFINE n == Total(b)
           at == 19 * (n - 1)
           low == at \div 20 + 1
           high == IF low = n THEN low ELSE low + 1
<1>2. low \in Int /\ high \in Int /\ 1 <= low /\ low <= n /\ 1 <= high /\ high <= n
  BY <1>1
<1>3. at % 20 \in 0..19
  BY <1>1
<1>4. Ranked(b, low) \in Nat /\ Ranked(b, high) \in Nat
  BY <1>2, RankedIs
<1>5. P95(b) = (20 - (at % 20)) * Ranked(b, low) + (at % 20) * Ranked(b, high)
  BY DEF P95
<1> DEFINE i == at % 20
<1>6. 20 - i \in Nat /\ i \in Nat
  BY <1>3
<1> HIDE DEF n, at, low, high, i
<1> QED
  BY <1>4, <1>5, <1>6, Product DEF i

(* The telemetry of a minute, and of one endpoint in it.                     *)
LEMMA OfEndpointIs ==
    ASSUME NEW b \in [Samples -> Nat], NEW e
    PROVE  /\ BagOver(b, Samples) /\ BagOver(OfEndpoint(b, e), Samples)
           /\ DOMAIN OfEndpoint(b, e) = {s \in Samples : e \in {None, s.endpoint}}
           /\ \A s \in DOMAIN OfEndpoint(b, e) : OfEndpoint(b, e)[s] = b[s]
           /\ OfEndpoint(b, None) = b
<1> DEFINE D == {s \in Samples : e \in {None, s.endpoint}}
<1>1. OfEndpoint(b, e) = [s \in D |-> b[s]]
  BY DEF OfEndpoint
<1>2. IsFiniteSet(Samples) /\ IsFiniteSet(D)
  BY WindowsAssumption, FS_Subset
<1>3. BagOver([s \in D |-> b[s]], Samples)
  BY <1>2 DEF BagOver
<1>4. OfEndpoint(b, None) = b
  BY DEF OfEndpoint
<1>5. BagOver(b, Samples)
  BY <1>2 DEF BagOver
<1> QED
  BY <1>1, <1>3, <1>4, <1>5

(* Every event is one of some endpoint, and of no other.                     *)
LEMMA EndpointsShare ==
    ASSUME NEW b \in [Samples -> Nat], NEW w \in [Samples -> Nat], NEW f,
           \A e \in Endpoints : f[e] = Worth(OfEndpoint(b, e), w)
    PROVE  Worth(b, w) = Added(f, Endpoints)
<1> DEFINE g == [s \in Samples |-> b[s] * w[s]]
           c == [e \in Endpoints |-> [s \in Samples |-> IF s.endpoint = e THEN g[s] ELSE 0]]
           m == [s \in Samples |-> [e \in Endpoints |-> IF s.endpoint = e THEN g[s] ELSE 0]]
<1>1. IsFiniteSet(Samples) /\ IsFiniteSet(Endpoints)
  BY WindowsAssumption
<1>2. \A s \in Samples : g[s] \in Nat
  <2> SUFFICES ASSUME NEW s \in Samples PROVE g[s] \in Nat
    OBVIOUS
  <2>1. b[s] \in Nat /\ w[s] \in Nat
    OBVIOUS
  <2> QED
    BY <2>1, Product
<1>3. Worth(b, w) = Added(g, Samples)
  BY DEF Worth
<1>4. \A s \in Samples, e \in Endpoints :
        m[s][e] \in Int /\ c[e][s] = m[s][e] /\ m[s][e] = IF s.endpoint = e THEN g[s] ELSE 0
  <2> HIDE DEF g
  <2> QED
    BY <1>2
<1>5. ASSUME NEW s \in Samples PROVE g[s] = Added(m[s], Endpoints)
  <2> DEFINE h == m[s]
  <2>1. s.endpoint \in Endpoints /\ g[s] \in Nat
    BY SampleHas, <1>2
  <2>2. /\ \A e \in Endpoints : h[e] \in Int
        /\ h[s.endpoint] = g[s]
        /\ \A e \in Endpoints \ {s.endpoint} : h[e] = 0
    BY <1>4, <2>1
  <2> HIDE DEF h
  <2>3. Added(h, Endpoints) = h[s.endpoint] + Added(h, Endpoints \ {s.endpoint})
    BY <1>1, <2>1, <2>2, AddedAny
  <2>4. Added(h, Endpoints \ {s.endpoint}) = 0
    <3> DEFINE rest == Endpoints \ {s.endpoint}
    <3>1. IsFiniteSet(rest) /\ {} \in SUBSET rest
      BY <1>1, FS_Subset
    <3>2. \A e \in rest : h[e] \in Int
      BY <2>2
    <3>3. \A e \in rest \ {} : h[e] = 0
      BY <2>2
    <3> HIDE DEF rest
    <3>4. Added(h, rest) = Added(h, {})
      BY <3>1, <3>2, <3>3, AddedZeros
    <3> QED
      BY <3>4, AddedNone DEF rest
  <2> QED
    BY <2>1, <2>2, <2>3, <2>4 DEF h
<1>6. ASSUME NEW e \in Endpoints PROVE f[e] = Added(c[e], Samples)
  <2> DEFINE D == DOMAIN OfEndpoint(b, e)
             h == c[e]
             k == [s \in D |-> OfEndpoint(b, e)[s] * w[s]]
  <2>1. D = {s \in Samples : s.endpoint = e} /\ D \in SUBSET Samples /\ IsFiniteSet(D)
    <3>1. e # None
      BY WindowsAssumption
    <3>2. D = {s \in Samples : e \in {None, s.endpoint}}
      BY OfEndpointIs
    <3>3. D = {s \in Samples : s.endpoint = e}
      <4> HIDE DEF D
      <4> QED
        BY <3>1, <3>2
    <3> QED
      BY <1>1, <3>3, FS_Subset
  <2>2. /\ \A s \in Samples : h[s] \in Int
        /\ \A s \in Samples \ D : h[s] = 0
    BY <1>4, <2>1
  <2>3. ASSUME NEW s \in D PROVE h[s] = k[s]
    <3>1. OfEndpoint(b, e)[s] = b[s]
      BY OfEndpointIs
    <3>2. h[s] = g[s] /\ s \in Samples
      BY <1>4, <2>1
    <3> QED
      BY <3>1, <3>2
  <2>4. f[e] = Added(k, D)
    BY DEF Worth
  <2> HIDE DEF h, k, D
  <2>5. Added(h, Samples) = Added(h, D)
    BY <1>1, <2>1, <2>2, AddedZeros
  <2>6. Added(h, D) = Added(k, D)
    BY <2>1, <2>3, AddedSame
  <2> QED
    BY <2>4, <2>5, <2>6 DEF h
<1> HIDE DEF g, c, m
<1>7. \A s \in Samples, e \in Endpoints : m[s][e] \in Int /\ c[e][s] = m[s][e]
  BY <1>4
<1>8. \A s \in Samples : g[s] = Added(m[s], Endpoints)
  BY <1>5
<1>9. \A e \in Endpoints : f[e] = Added(c[e], Samples)
  BY <1>6
<1>10. SumsOfTable(m, c, g, f, Samples, Endpoints)
  BY <1>7, <1>8, <1>9 DEF SumsOfTable
<1>11. Added(g, Samples) = Added(f, Endpoints)
  BY <1>1, <1>10, AddedSwap
<1> QED
  BY <1>3, <1>11

(* The image of a finite set.                                                *)
LEMMA ImageIsFinite ==
    ASSUME NEW S, IsFiniteSet(S), NEW f
    PROVE  IsFiniteSet({f[x] : x \in S})
<1> DEFINE Good == {t \in SUBSET S : IsFiniteSet({f[x] : x \in t})}
<1>1. ASSUME NEW t \in SUBSET S, \A x \in t : t \ {x} \in Good PROVE t \in Good
  <2>1. CASE t = {}
    <3>1. {f[x] : x \in t} = {}
      BY <2>1
    <3> QED
      BY <3>1, FS_EmptySet
  <2>2. ASSUME NEW z \in t PROVE t \in Good
    <3> DEFINE rest == {f[x] : x \in t \ {z}}
    <3>1. IsFiniteSet(rest)
      BY <1>1
    <3>2. {f[x] : x \in t} = rest \cup {f[z]}
      OBVIOUS
    <3> HIDE DEF rest
    <3> QED
      BY <3>1, <3>2, FS_AddElement
  <2> QED
    BY <2>1, <2>2
<1> HIDE DEF Good
<1>2. \A t \in SUBSET S : t \in Good
  BY <1>1, OneByOne, Zenon
<1> QED
  BY <1>2 DEF Good

----------------------------------------------------------------------------
(* Minutes *)

(* The constants.                                                            *)
LEMMA Constants ==
    /\ TicksPerMinute \in Nat /\ TicksPerMinute > 0
    /\ SnapshotMinutes \in Nat /\ \A w \in WindowMinutes : w \in Nat /\ SnapshotMinutes <= w
    /\ RateScale \in Nat /\ RateScale > 0
    /\ PerMinute \in Nat /\ MaxTime \in Nat /\ MaxReads \in Nat
    /\ IsFiniteSet(Endpoints) /\ None \notin Endpoints /\ IsFiniteSet(Samples)
BY WindowsAssumption

(* Products with a positive number keep the order.                           *)
LEMMA ProductOrder ==
    ASSUME NEW i \in Int, NEW j \in Int, NEW n \in Nat, i <= j
    PROVE  i * n <= j * n
<1>1. j * n = i * n + (j - i) * n /\ i * n \in Int
  OBVIOUS
<1>2. (j - i) * n \in Nat
  <2>1. j - i \in Nat
    OBVIOUS
  <2> QED
    BY <2>1, Product
<1> QED
  BY <1>1, <1>2

(* The minute of a tick.                                                     *)
LEMMA MinuteIs ==
    ASSUME NEW t \in Int
    PROVE  /\ MinuteOf(t) \in Int
           /\ MinuteOf(t) * TicksPerMinute <= t
           /\ \A m \in Int : m <= MinuteOf(t) => m * TicksPerMinute <= t
           /\ \A m \in Int : m * TicksPerMinute > t => m > MinuteOf(t)
<1> DEFINE q == t \div TicksPerMinute
           n == TicksPerMinute
<1>1. q \in Int /\ q * n <= t
  BY Constants
<1>2. ASSUME NEW m \in Int, m <= q PROVE m * n <= t
  <2>1. n \in Nat
    BY Constants
  <2> HIDE DEF q, n
  <2>2. m * n <= q * n
    BY <1>1, <1>2, <2>1, ProductOrder
  <2>3. m * n \in Int /\ q * n \in Int
    BY <1>1, <2>1
  <2> QED
    BY <1>1, <2>2, <2>3
<1>3. ASSUME NEW m \in Int, m * n > t PROVE m > q
  <2>1. m * n \in Int
    BY Constants
  <2> HIDE DEF q, n
  <2> QED
    BY <1>1, <1>2, <1>3, <2>1
<1> QED
  BY <1>1, <1>2, <1>3 DEF MinuteOf

(* The minute after it has not begun.                                        *)
LEMMA MinuteAfter ==
    ASSUME NEW t \in Int, NEW m \in Int, m >= MinuteOf(t) + 1
    PROVE  m * TicksPerMinute > t
<1> DEFINE q == t \div TicksPerMinute
           n == TicksPerMinute
<1>1. q \in Int /\ n \in Nat /\ (q + 1) * n > t
  BY Constants
<1>2. q + 1 <= m
  BY DEF MinuteOf
<1> HIDE DEF q, n
<1>3. (q + 1) * n <= m * n /\ (q + 1) * n \in Int /\ m * n \in Int
  BY <1>1, <1>2, ProductOrder
<1> QED
  BY <1>1, <1>3 DEF n

(* The minutes of the model.                                                 *)
LEMMA MinutesAre ==
    /\ IsFiniteSet(Minutes)
    /\ \A m \in Minutes : m \in Nat /\ m * TicksPerMinute \in Nat
<1>1. MaxTime \div TicksPerMinute \in Int
  BY Constants
<1>2. IsFiniteSet(Minutes)
  BY <1>1, FS_Interval DEF Minutes
<1>3. ASSUME NEW m \in Minutes PROVE m \in Nat /\ m * TicksPerMinute \in Nat
  <2>1. m \in Nat
    BY <1>1 DEF Minutes
  <2> QED
    BY <2>1, Constants, Product
<1> QED
  BY <1>2, <1>3

(* Telemetry by minute.                                                      *)
Telemetry == [Minutes -> [Samples -> 0..PerMinute]]

(* No telemetry is of the future.                                            *)
InTime == \A m \in Minutes : \A s \in Samples : events[m][s] > 0 => m * TicksPerMinute <= now

(* The telemetry of a minute is a bag of samples.                            *)
LEMMA TelemetryIs ==
    ASSUME NEW v \in Telemetry, NEW m \in Minutes, NEW e
    PROVE  /\ v[m] \in [Samples -> Nat]
           /\ BagOver(v[m], Samples) /\ BagOver(OfEndpoint(v[m], e), Samples)
<1>1. v[m] \in [Samples -> Nat]
  BY Constants DEF Telemetry
<1> QED
  BY <1>1, OfEndpointIs

(* What a row counts, and the samples it counts.                             *)
Counting(f, w) == (f = RequestsOf /\ w = EventOf) \/ (f = ErrorsOf /\ w = ErrorOf)

(* It counts at most all of them.                                            *)
LEMMA CountingIs ==
    ASSUME NEW f, NEW w, Counting(f, w)
    PROVE  /\ f \in [Row -> Nat] /\ w \in [Samples -> Nat]
           /\ \A b : BagOver(b, Samples) => Worth(b, w) \in Nat /\ Worth(b, w) <= Total(b)
           /\ \A b, e, m :
                BagOver(b, Samples) /\ CalculateMetrics(e, m, b) \in Row
                  => f[CalculateMetrics(e, m, b)] = Worth(b, w)
<1>1. f \in [Row -> Nat] /\ w \in [Samples -> Nat]
  BY CountsAre, WeightsAre DEF Counting
<1>2. ASSUME NEW b, BagOver(b, Samples)
      PROVE  Worth(b, w) \in Nat /\ Worth(b, w) <= Total(b)
  <2>1. Worth(b, w) \in Nat /\ Worth(b, EventOf) \in Nat
    BY <1>1, <1>2, WeightsAre, WorthIs
  <2>2. Total(b) = Worth(b, EventOf) /\ Worth(b, ErrorOf) <= Worth(b, EventOf)
    BY <1>2, SizeIsWorth
  <2> QED
    BY <2>1, <2>2 DEF Counting
<1>3. ASSUME NEW b, NEW e, NEW m, BagOver(b, Samples), CalculateMetrics(e, m, b) \in Row
      PROVE  f[CalculateMetrics(e, m, b)] = Worth(b, w)
  BY <1>3, RowCounts, RowHas DEF Counting
<1> QED
  BY <1>1, <1>2, <1>3

(* The row that a read writes of a minute with events.                       *)
RowOf(e, m) == CalculateMetrics(e, m, OfEndpoint(events[m], e))

(* It is a row, and counts the events.                                       *)
LEMMA RowOfIs ==
    ASSUME events \in Telemetry, NEW e \in Endpoints \cup {None}, NEW m \in Minutes,
           Total(OfEndpoint(events[m], e)) > 0
    PROVE  /\ RowOf(e, m) \in Row
           /\ RowOf(e, m).endpoint = e /\ RowOf(e, m).window = m
           /\ RowOf(e, m).errors <= RowOf(e, m).requests
           /\ RowOf(e, m).requests = Total(OfEndpoint(events[m], e))
           /\ \A f, w : Counting(f, w) => f[RowOf(e, m)] = Worth(OfEndpoint(events[m], e), w)
<1> DEFINE b == OfEndpoint(events[m], e)
           r == RowOf(e, m)
<1>1. BagOver(b, Samples) /\ Total(b) > 0
  BY TelemetryIs
<1>2. r = CalculateMetrics(e, m, b)
  BY DEF RowOf
<1> HIDE DEF b, r
<1>3. /\ r.endpoint = e /\ r.window = m
      /\ r.requests = Worth(b, EventOf) /\ r.errors = Worth(b, ErrorOf) /\ r.p95 = P95(b)
  BY <1>1, <1>2, RowCounts
<1>4. Worth(b, EventOf) \in Nat /\ Worth(b, ErrorOf) \in Nat
  BY <1>1, WorthIs, WeightsAre
<1>5. Total(b) = Worth(b, EventOf) /\ Worth(b, ErrorOf) <= Worth(b, EventOf)
  BY <1>1, SizeIsWorth
<1>6. P95(b) \in Nat
  BY <1>1, PercentileIs
<1>7. r \in Row
  <2>1. r = [endpoint |-> r.endpoint, window |-> r.window, requests |-> r.requests,
             errors |-> r.errors, p95 |-> r.p95]
    BY <1>2 DEF CalculateMetrics
  <2> QED
    BY <1>1, <1>3, <1>4, <1>5, <1>6, <2>1 DEF Row
<1>8. \A f, w : Counting(f, w) => f[r] = Worth(b, w)
  BY <1>1, <1>2, <1>7, CountingIs
<1> QED
  BY <1>3, <1>5, <1>7, <1>8 DEF b, r

(* The rows a run of the loop writes.                                        *)
LEMMA NewRowsAre ==
    ASSUME events \in Telemetry, NEW e \in Endpoints \cup {None}
    PROVE  /\ NewRows(e) = {RowOf(e, m) : m \in Filled(e)}
           /\ IsFiniteSet(NewRows(e))
           /\ \A m \in Filled(e) : m \in Minutes /\ Total(OfEndpoint(events[m], e)) > 0
           /\ \A r \in NewRows(e) :
                /\ r \in Row /\ r.errors <= r.requests
                /\ r.endpoint = e /\ r.window \in Filled(e) /\ r = RowOf(e, r.window)
<1>1. NewRows(e) = {RowOf(e, m) : m \in Filled(e)}
  BY DEF NewRows, RowOf
<1>2. \A m \in Filled(e) : m \in Minutes /\ Total(OfEndpoint(events[m], e)) > 0
  BY DEF Filled
<1>3. IsFiniteSet(NewRows(e))
  <2> DEFINE f == [m \in Filled(e) |-> RowOf(e, m)]
  <2>1. IsFiniteSet(Filled(e))
    BY <1>2, MinutesAre, FS_Subset
  <2>2. NewRows(e) = {f[m] : m \in Filled(e)}
    BY <1>1
  <2> HIDE DEF f
  <2> QED
    BY <2>1, <2>2, ImageIsFinite
<1>4. ASSUME NEW r \in NewRows(e)
      PROVE  /\ r \in Row /\ r.errors <= r.requests
             /\ r.endpoint = e /\ r.window \in Filled(e) /\ r = RowOf(e, r.window)
  <2>1. PICK m \in Filled(e) : r = RowOf(e, m)
    BY <1>1
  <2> QED
    BY <1>2, <2>1, RowOfIs
<1> QED
  BY <1>1, <1>2, <1>3, <1>4

(* A finite set of rows as a bag.                                            *)
LEMMA SetIsRowBag ==
    ASSUME NEW S, IsFiniteSet(S), \A r \in S : r \in Row /\ r.errors <= r.requests
    PROVE  /\ RowBag(SetToBag(S)) /\ DOMAIN SetToBag(S) = S
           /\ \A r \in S : SetToBag(S)[r] = 1
BY DEF SetToBag, RowBag, BagOver

(* The minutes of a query.                                                   *)
MinutesAfter(t) == {m \in Minutes : m * TicksPerMinute > t}

(* The window of a read reaches back to a tick.                              *)
LEMMA SinceIs ==
    ASSUME now \in Int, width \in Nat
    PROVE  /\ Since \in Int /\ Since <= now
           /\ \A m \in Int : m * TicksPerMinute > Since => m >= FirstMinute
<1>1. width * TicksPerMinute \in Nat
  BY Constants, Product
<1>2. Since \in Int /\ Since <= now
  BY <1>1 DEF Since
<1>3. FirstMinute = MinuteOf(Since)
  BY DEF FirstMinute, Since
<1>4. ASSUME NEW m \in Int, m * TicksPerMinute > Since PROVE m >= FirstMinute
  <2> HIDE DEF Since
  <2> QED
    BY <1>2, <1>3, <1>4, MinuteIs
<1> QED
  BY <1>2, <1>4

(* Telemetry of a minute that a read looks at is in a filled window.         *)
LEMMA FilledIs ==
    ASSUME events \in Telemetry, now \in Int, width \in Nat, InTime, NEW e, NEW m \in Minutes,
           m * TicksPerMinute > Since, Total(OfEndpoint(events[m], e)) > 0
    PROVE  m \in Filled(e)
<1> DEFINE b == OfEndpoint(events[m], e)
<1>1. m \in Int /\ m >= FirstMinute
  BY MinutesAre, SinceIs
<1>2. BagOver(b, Samples) /\ \A s \in DOMAIN b : b[s] = events[m][s] /\ s \in Samples
  BY TelemetryIs, OfEndpointIs DEF BagOver
<1>3. \E s \in DOMAIN b : b[s] > 0
  <2> SUFFICES ASSUME \A s \in DOMAIN b : ~ (b[s] > 0) PROVE FALSE
    OBVIOUS
  <2>1. IsFiniteSet(DOMAIN b) /\ \A s \in DOMAIN b : b[s] \in Nat
    BY <1>2 DEF BagOver
  <2>2. \A s \in DOMAIN b : b[s] = 0
    BY <2>1
  <2>3. Total(b) = Added(b, DOMAIN b)
    BY <2>1, TotalIs
  <2> HIDE DEF b
  <2>4. Added(b, DOMAIN b) = Added(b, {})
    BY <2>1, <2>2, AddedZeros
  <2>5. Added(b, {}) = 0
    BY AddedNone
  <2> QED
    BY <2>3, <2>4, <2>5 DEF b
<1>4. m * TicksPerMinute <= now
  BY <1>2, <1>3 DEF InTime
<1> QED
  BY <1>1, <1>4 DEF Filled

(* The new rows of an endpoint count all its telemetry of the window.        *)
LEMMA EndpointRowsCount ==
    ASSUME events \in Telemetry, now \in Int, width \in Nat, InTime, NEW e \in Endpoints,
           NEW c, RowBag(c), NewRows(e) \subseteq DOMAIN c,
           NEW t \in Int, t >= Since, NEW f, NEW w, Counting(f, w), NEW g,
           \A m \in MinutesAfter(t) : g[m] = Worth(OfEndpoint(events[m], e), w)
    PROVE  Added(g, MinutesAfter(t)) <= Worth(Aggregates(c, e, t), f)
<1> DEFINE M == MinutesAfter(t)
           S == {m \in M : Total(OfEndpoint(events[m], e)) > 0}
           a == Aggregates(c, e, t)
           h == [r \in DOMAIN a |-> a[r] * f[r]]
           p == [m \in S |-> RowOf(e, m)]
<1>1. M \in SUBSET Minutes /\ S \in SUBSET M /\ IsFiniteSet(M) /\ IsFiniteSet(S)
  <2>1. M \in SUBSET Minutes /\ S \in SUBSET M
    BY DEF MinutesAfter
  <2>2. IsFiniteSet(M)
    BY <2>1, MinutesAre, FS_Subset
  <2> QED
    BY <2>1, <2>2, FS_Subset
<1>2. ASSUME NEW m \in M
      PROVE  g[m] \in Nat /\ g[m] <= Total(OfEndpoint(events[m], e))
  BY <1>1, TelemetryIs, CountingIs
<1>3. \A m \in M \ S : g[m] = 0
  <2> SUFFICES ASSUME NEW m \in M, ~ (Total(OfEndpoint(events[m], e)) > 0) PROVE g[m] = 0
    OBVIOUS
  <2>1. Total(OfEndpoint(events[m], e)) \in Nat
    BY <1>1, TelemetryIs, SizeIs
  <2> QED
    BY <1>2, <2>1
<1>4. RowBag(a) /\ IsFiniteSet(DOMAIN a)
  BY AggregatesAreRows DEF RowBag, BagOver
<1>5. ASSUME NEW m \in S
      PROVE  p[m] \in DOMAIN a /\ g[m] <= h[p[m]] /\ p[m].window = m
  <2> DEFINE r == RowOf(e, m)
  <2>1. m \in Minutes /\ m * TicksPerMinute > t /\ m * TicksPerMinute > Since
    <3>1. m \in Minutes /\ m * TicksPerMinute > t
      BY <1>1 DEF MinutesAfter
    <3>2. m * TicksPerMinute \in Int /\ Since \in Int
      BY <3>1, MinutesAre, SinceIs
    <3> QED
      BY <3>1, <3>2
  <2>2. m \in Filled(e)
    BY <2>1, FilledIs
  <2>3. r \in DOMAIN c /\ r.endpoint = e /\ r.window = m /\ f[r] = g[m]
    BY <2>1, <2>2, RowOfIs, NewRowsAre
  <2>4. r \in Found(c, e, t)
    BY <2>1, <2>3 DEF Found
  <2>5. r \in DOMAIN a
    BY <2>4, AggregatesAre
  <2>6. a[r] \in Nat /\ a[r] > 0
    BY <1>4, <2>5 DEF RowBag, BagOver
  <2>7. p[m] = r /\ h[r] = a[r] * f[r] /\ f[r] \in Nat
    BY <1>2, <2>3, <2>5
  <2>8. f[r] <= a[r] * f[r]
    <3> DEFINE i == a[r]
               j == f[r]
    <3>1. i \in Nat /\ i > 0 /\ j \in Nat
      BY <2>6, <2>7
    <3> HIDE DEF i, j
    <3>2. 1 * j <= i * j
      BY <3>1, ProductOrder
    <3> QED
      BY <3>1, <3>2 DEF i, j
  <2> QED
    BY <2>3, <2>5, <2>7, <2>8
<1>6. \A r \in DOMAIN a : h[r] \in Nat
  <2> SUFFICES ASSUME NEW r \in DOMAIN a PROVE h[r] \in Nat
    OBVIOUS
  <2>1. a[r] \in Nat /\ f[r] \in Nat
    BY <1>4, CountingIs DEF RowBag, BagOver
  <2> QED
    BY <2>1, Product
<1>7. Worth(a, f) = Added(h, DOMAIN a)
  BY DEF Worth
<1>8. \A m \in S : g[m] \in Int /\ p[m] \in DOMAIN a /\ g[m] <= h[p[m]]
  BY <1>1, <1>2, <1>5
<1>9. \A m, n \in S : p[m] = p[n] => m = n
  BY <1>5
<1> HIDE DEF M, S, a, h, p
<1>10. Added(g, M) = Added(g, S)
  BY <1>1, <1>2, <1>3, AddedZeros
<1>11. Added(g, S) <= Added(h, DOMAIN a)
  BY <1>1, <1>4, <1>6, <1>8, <1>9, AddedInto
<1> QED
  BY <1>7, <1>10, <1>11 DEF M, a

(* The rows of the service that a read has just written: one for a minute,   *)
(* of telemetry that is still there in v.                                    *)
ServiceRows(b, v) ==
    /\ \A r \in DOMAIN b : /\ r.endpoint = None /\ b[r] = 1
                           /\ r.requests <= Worth(v[r.window], EventOf)
                           /\ r.errors <= Worth(v[r.window], ErrorOf)
    /\ \A q, r \in DOMAIN b : q.window = r.window => q = r

(* They count no more than all telemetry of the window.                      *)
LEMMA ServiceRowsCount ==
    ASSUME events \in Telemetry, NEW b, RowBag(b), ServiceRows(b, events), NEW t \in Int,
           NEW f, NEW w, Counting(f, w), NEW g,
           \A m \in MinutesAfter(t) : g[m] = Worth(events[m], w)
    PROVE  Worth(Aggregates(b, None, t), f) <= Added(g, MinutesAfter(t))
<1> DEFINE M == MinutesAfter(t)
           a == Aggregates(b, None, t)
           h == [r \in DOMAIN a |-> a[r] * f[r]]
           p == [r \in DOMAIN a |-> r.window]
<1>1. M \in SUBSET Minutes /\ IsFiniteSet(M)
  BY MinutesAre, FS_Subset DEF MinutesAfter
<1>2. \A m \in M : g[m] \in Nat
  BY <1>1, TelemetryIs, CountingIs
<1>3. RowBag(a) /\ IsFiniteSet(DOMAIN a)
  BY AggregatesAreRows DEF RowBag, BagOver
<1>4. ASSUME NEW r \in DOMAIN a
      PROVE  h[r] \in Int /\ p[r] \in M /\ h[r] <= g[p[r]] /\ r \in DOMAIN b /\ p[r] = r.window
  <2>1. r \in Found(b, None, t) /\ a[r] = b[r]
    BY AggregatesAre
  <2>2. r \in DOMAIN b /\ r \in Row /\ r.window * TicksPerMinute > t /\ b[r] = 1
    BY <2>1 DEF Found, ServiceRows, RowBag, BagOver
  <2>3. r.window \in M
    BY <2>2, RowHas DEF MinutesAfter
  <2>4. f[r] \in Nat /\ f[r] <= Worth(events[r.window], w)
    BY <2>2, RowHas DEF Counting, ServiceRows
  <2>5. h[r] = f[r] /\ g[r.window] = Worth(events[r.window], w) /\ p[r] = r.window
    BY <2>1, <2>2, <2>3, <2>4
  <2> QED
    BY <2>2, <2>3, <2>4, <2>5
<1>5. \A q, r \in DOMAIN a : p[q] = p[r] => q = r
  BY <1>4 DEF ServiceRows
<1>6. Worth(a, f) = Added(h, DOMAIN a)
  BY DEF Worth
<1> HIDE DEF M, a, h, p
<1>7. Added(h, DOMAIN a) <= Added(g, M)
  BY <1>1, <1>2, <1>3, <1>4, <1>5, AddedInto
<1> QED
  BY <1>6, <1>7 DEF M, a

----------------------------------------------------------------------------
(* The invariant *)

(* What the endpoints' rows of a bag count, after t.                         *)
EndpointsCount(b, t, f) == Added([e \in Endpoints |-> Worth(Aggregates(b, e, t), f)], Endpoints)

(* The rows of the endpoints count at least what those of the service count, *)
(* in every window that begins at since or later.                            *)
Covered(b, since) ==
    \A t \in Int : t >= since =>
      \A f \in {RequestsOf, ErrorsOf} : Worth(Aggregates(b, None, t), f) <= EndpointsCount(b, t, f)

(* The rows that a read has written of the service count what it has seen.   *)
SeenIsCounted ==
    \A m \in Minutes :
      m * TicksPerMinute > Since /\ Total(seen[m]) > 0 =>
        \E r \in DOMAIN pending :
          r.endpoint = None /\ r.window = m /\ r.requests >= Total(seen[m])

(* What a read saw when it began is still there.                             *)
SeenIsThere ==
    /\ seen \in Telemetry
    /\ \A m \in Minutes : \A s \in Samples : seen[m][s] <= events[m][s]

(* The rows of the service count, each, some of the telemetry in v of a      *)
(* minute that has begun at t.                                               *)
ServiceParts(b, v, t) ==
    \A r \in DOMAIN b :
      r.endpoint = None =>
        /\ r.window * TicksPerMinute <= t
        /\ \E x \in [Samples -> Nat] :
             /\ \A s \in Samples : x[s] <= v[r.window][s]
             /\ r = CalculateMetrics(None, r.window, x)

(* The inductive invariant.                                                  *)
IInv ==
    /\ TypeOK
    /\ InTime
    /\ SeenIsThere
    /\ RowBag(rows) /\ RowBag(pending)
    /\ ServiceParts(rows, events, now) /\ ServiceParts(pending, events, now)
    /\ pc = "endpoints" => ServiceRows(pending, events)
    /\ pc = "report" => Covered(pending, Since)
    /\ pc \in {"endpoints", "report"} => SeenIsCounted

(* Types, for the steps.                                                     *)
LEMMA TypesAre ==
    ASSUME TypeOK
    PROVE  /\ now \in Int /\ now \in 0..MaxTime /\ events \in Telemetry
           /\ width \in Nat /\ Since \in Int
<1>1. now \in Int /\ now \in 0..MaxTime /\ events \in Telemetry
  BY DEF TypeOK, Telemetry
<1>2. width \in Nat
  BY Constants DEF TypeOK
<1> QED
  BY <1>1, <1>2, SinceIs

(* An empty bag of rows.                                                     *)
LEMMA EmptyIs ==
    /\ RowBag(EmptyBag) /\ DOMAIN EmptyBag = {}
    /\ \A e, t, f : Worth(Aggregates(EmptyBag, e, t), f) = 0
<1>1. RowBag(EmptyBag) /\ DOMAIN EmptyBag = {}
  BY SetIsRowBag, FS_EmptySet DEF EmptyBag
<1>2. ASSUME NEW e, NEW t, NEW f PROVE Worth(Aggregates(EmptyBag, e, t), f) = 0
  <2> DEFINE a == Aggregates(EmptyBag, e, t)
             h == [r \in DOMAIN a |-> a[r] * f[r]]
  <2>1. DOMAIN a = {}
    <3>1. DOMAIN a = Found(EmptyBag, e, t)
      BY AggregatesAre
    <3> HIDE DEF a
    <3> QED
      BY <1>1, <3>1 DEF Found
  <2>2. Worth(a, f) = Added(h, DOMAIN a)
    BY DEF Worth
  <2> HIDE DEF a, h
  <2> QED
    BY <2>1, <2>2, AddedNone DEF a
<1> QED
  BY <1>1, <1>2

(* What the endpoints' rows count is a natural.                              *)
LEMMA EndpointsCountIs ==
    ASSUME NEW b, RowBag(b), NEW t, NEW f \in [Row -> Nat]
    PROVE  /\ \A e : Worth(Aggregates(b, e, t), f) \in Nat
           /\ EndpointsCount(b, t, f) \in Nat
<1>1. ASSUME NEW e PROVE Worth(Aggregates(b, e, t), f) \in Nat
  BY AggregatesAreRows, WorthIs DEF RowBag
<1> DEFINE g == [e \in Endpoints |-> Worth(Aggregates(b, e, t), f)]
<1>2. \A e \in Endpoints : g[e] \in Nat
  BY <1>1
<1>3. EndpointsCount(b, t, f) = Added(g, Endpoints)
  BY DEF EndpointsCount
<1> HIDE DEF g
<1>4. Added(g, Endpoints) \in Nat
  BY <1>2, Constants, AddedInt
<1> QED
  BY <1>1, <1>3, <1>4

(* It is additive.                                                           *)
LEMMA EndpointsCountPlus ==
    ASSUME NEW b, RowBag(b), NEW c, RowBag(c), NEW t, NEW f \in [Row -> Nat]
    PROVE  EndpointsCount(b (+) c, t, f) = EndpointsCount(b, t, f) + EndpointsCount(c, t, f)
<1> DEFINE s == b (+) c
           gb == [e \in Endpoints |-> Worth(Aggregates(b, e, t), f)]
           gc == [e \in Endpoints |-> Worth(Aggregates(c, e, t), f)]
           gs == [e \in Endpoints |-> Worth(Aggregates(s, e, t), f)]
<1>1. ASSUME NEW e \in Endpoints
      PROVE  gb[e] \in Int /\ gc[e] \in Int /\ gs[e] = gb[e] + gc[e]
  <2>1. Worth(Aggregates(b, e, t), f) \in Nat /\ Worth(Aggregates(c, e, t), f) \in Nat
    BY EndpointsCountIs
  <2> QED
    BY <2>1, CountsPlus
<1>2. /\ EndpointsCount(b, t, f) = Added(gb, Endpoints)
      /\ EndpointsCount(c, t, f) = Added(gc, Endpoints)
      /\ EndpointsCount(s, t, f) = Added(gs, Endpoints)
  BY DEF EndpointsCount
<1> HIDE DEF s, gb, gc, gs
<1>3. Added(gs, Endpoints) = Added(gb, Endpoints) + Added(gc, Endpoints)
  BY <1>1, Constants, AddedPlus
<1> QED
  BY <1>2, <1>3 DEF s

(* All new rows of the endpoints.                                            *)
EndpointRows == UNION {NewRows(e) : e \in Endpoints}

(* They are rows, and each is of its endpoint.                               *)
LEMMA EndpointRowsAre ==
    ASSUME events \in Telemetry
    PROVE  /\ RowBag(SetToBag(EndpointRows)) /\ DOMAIN SetToBag(EndpointRows) = EndpointRows
           /\ \A r \in EndpointRows : r.endpoint \in Endpoints
<1> DEFINE f == [e \in Endpoints |-> NewRows(e)]
<1>1. {f[e] : e \in Endpoints} = {NewRows(e) : e \in Endpoints}
  OBVIOUS
<1> HIDE DEF f
<1>2. IsFiniteSet({f[e] : e \in Endpoints})
  BY Constants, ImageIsFinite
<1>3. \A e \in Endpoints : IsFiniteSet(NewRows(e))
  BY NewRowsAre
<1>4. IsFiniteSet(EndpointRows)
  <2> DEFINE all == {NewRows(e) : e \in Endpoints}
  <2>1. IsFiniteSet(all) /\ \A s \in all : IsFiniteSet(s)
    BY <1>1, <1>2, <1>3
  <2> HIDE DEF all
  <2>2. IsFiniteSet(UNION all)
    BY <2>1, FS_UNION
  <2> QED
    BY <2>2 DEF all, EndpointRows
<1>5. ASSUME NEW r \in EndpointRows
      PROVE  r \in Row /\ r.errors <= r.requests /\ r.endpoint \in Endpoints
  <2>1. PICK e \in Endpoints : r \in NewRows(e)
    BY DEF EndpointRows
  <2> QED
    BY <2>1, NewRowsAre
<1> QED
  BY <1>4, <1>5, SetIsRowBag

(* Aggregating the endpoints after the service covers the service: what has  *)
(* arrived in between is only in the endpoints' rows.                        *)
LEMMA EndpointsCover ==
    ASSUME TypeOK, InTime, RowBag(pending), ServiceRows(pending, events)
    PROVE  Covered(pending (+) SetToBag(EndpointRows), Since)
<1> DEFINE c == SetToBag(EndpointRows)
<1>0. events \in Telemetry /\ now \in Int /\ width \in Nat
  BY TypesAre
<1>1. RowBag(c) /\ DOMAIN c = EndpointRows /\ \A r \in EndpointRows : r.endpoint \in Endpoints
  BY <1>0, EndpointRowsAre
<1> HIDE DEF c
<1> SUFFICES ASSUME NEW t \in Int, t >= Since, NEW f \in {RequestsOf, ErrorsOf}
             PROVE  Worth(Aggregates(pending (+) c, None, t), f)
                      <= EndpointsCount(pending (+) c, t, f)
  BY DEF Covered, c
<1>2. PICK w : Counting(f, w)
  BY DEF Counting
<1>3. f \in [Row -> Nat] /\ w \in [Samples -> Nat]
  BY <1>2, CountingIs
<1> DEFINE M == MinutesAfter(t)
           m == [e \in Endpoints |-> [n \in M |-> Worth(OfEndpoint(events[n], e), w)]]
           k == [n \in M |-> [e \in Endpoints |-> Worth(OfEndpoint(events[n], e), w)]]
           g == [n \in M |-> Worth(events[n], w)]
           h == [e \in Endpoints |-> Added(m[e], M)]
           x == [e \in Endpoints |-> Worth(Aggregates(c, e, t), f)]
           id == [e \in Endpoints |-> e]
<1>4. M \in SUBSET Minutes /\ IsFiniteSet(M)
  BY MinutesAre, FS_Subset DEF MinutesAfter
<1>5. \A n \in M, e \in Endpoints : Worth(OfEndpoint(events[n], e), w) \in Nat
  BY <1>0, <1>2, <1>4, TelemetryIs, CountingIs
<1>6. ASSUME NEW n \in M PROVE g[n] = Added(k[n], Endpoints)
  <2> DEFINE b == events[n]
             row == k[n]
  <2>1. b \in [Samples -> Nat] /\ g[n] = Worth(b, w)
    BY <1>0, <1>4, TelemetryIs
  <2>2. \A e \in Endpoints : row[e] = Worth(OfEndpoint(b, e), w)
    OBVIOUS
  <2> HIDE DEF b, row, g
  <2> QED
    BY <1>3, <2>1, <2>2, EndpointsShare DEF row
<1>7. SumsOfTable(m, k, h, g, Endpoints, M)
  <2>1. \A e \in Endpoints, n \in M : m[e][n] \in Int /\ k[n][e] = m[e][n]
    BY <1>5
  <2>2. \A e \in Endpoints : h[e] = Added(m[e], M)
    OBVIOUS
  <2> HIDE DEF m, k, h, g
  <2> QED
    BY <1>6, <2>1, <2>2 DEF SumsOfTable
<1>8. Worth(Aggregates(pending, None, t), f) <= Added(g, M)
  <2>1. \A n \in MinutesAfter(t) : g[n] = Worth(events[n], w)
    OBVIOUS
  <2> HIDE DEF g
  <2> QED
    BY <1>0, <1>2, <2>1, ServiceRowsCount
<1>9. ASSUME NEW e \in Endpoints PROVE h[e] \in Int /\ h[e] <= x[e] /\ x[e] \in Nat
  <2> DEFINE row == m[e]
  <2>1. \A n \in MinutesAfter(t) : row[n] = Worth(OfEndpoint(events[n], e), w)
    OBVIOUS
  <2>2. NewRows(e) \subseteq DOMAIN c
    BY <1>1 DEF EndpointRows
  <2>3. h[e] = Added(row, MinutesAfter(t)) /\ x[e] = Worth(Aggregates(c, e, t), f)
    OBVIOUS
  <2>4. \A n \in M : row[n] \in Int
    BY <1>5
  <2> HIDE DEF row, h, x
  <2>5. Added(row, MinutesAfter(t)) <= Worth(Aggregates(c, e, t), f)
    BY <1>0, <1>1, <1>2, <2>1, <2>2, EndpointRowsCount
  <2>6. Added(row, M) \in Int
    BY <1>4, <2>4, AddedInt
  <2>7. Worth(Aggregates(c, e, t), f) \in Nat
    BY <1>1, <1>3, EndpointsCountIs
  <2> QED
    BY <2>3, <2>5, <2>6, <2>7
<1>10. EndpointsCount(c, t, f) = Added(x, Endpoints)
  BY DEF EndpointsCount
<1>11. \A e \in Endpoints : id[e] = e
  OBVIOUS
<1> HIDE DEF M, m, k, g, h, x, id
<1>12. Added(h, Endpoints) = Added(g, M)
  BY <1>4, <1>7, Constants, AddedSwap
<1>13. Added(h, Endpoints) <= Added(x, Endpoints)
  BY <1>9, <1>11, Constants, AddedInto
<1>14. Worth(Aggregates(c, None, t), f) = 0
  <2> DEFINE a == Aggregates(c, None, t)
             y == [r \in DOMAIN a |-> a[r] * f[r]]
  <2>1. DOMAIN a = {}
    <3>1. DOMAIN a = Found(c, None, t)
      BY AggregatesAre
    <3> QED
      BY <1>1, <3>1, Constants DEF Found
  <2>2. Worth(a, f) = Added(y, DOMAIN a)
    BY DEF Worth
  <2> HIDE DEF a, y
  <2> QED
    BY <2>1, <2>2, AddedNone DEF a
<1>15. Worth(Aggregates(pending (+) c, None, t), f)
         = Worth(Aggregates(pending, None, t), f) + Worth(Aggregates(c, None, t), f)
  BY <1>1, <1>3, CountsPlus
<1>16. EndpointsCount(pending (+) c, t, f) = EndpointsCount(pending, t, f) + EndpointsCount(c, t, f)
  BY <1>1, <1>3, EndpointsCountPlus
<1>17. /\ EndpointsCount(pending, t, f) \in Nat /\ EndpointsCount(c, t, f) \in Nat
       /\ Worth(Aggregates(pending, None, t), f) \in Nat
  BY <1>1, <1>3, EndpointsCountIs
<1>18. Added(h, Endpoints) \in Int
  BY <1>9, Constants, AddedInt
<1>19. Worth(Aggregates(pending, None, t), f) <= EndpointsCount(c, t, f)
  BY <1>8, <1>10, <1>12, <1>13, <1>17, <1>18
<1> QED
  BY <1>14, <1>15, <1>16, <1>17, <1>19

----------------------------------------------------------------------------
(* The steps *)

(* A later window is covered too.                                            *)
LEMMA CoveredLater ==
    ASSUME NEW b, NEW s \in Int, NEW t \in Int, s <= t, Covered(b, s)
    PROVE  Covered(b, t)
BY DEF Covered

(* More telemetry is worth more.                                             *)
LEMMA WorthGrows ==
    ASSUME NEW b \in [Samples -> Nat], NEW c \in [Samples -> Nat],
           \A s \in Samples : b[s] <= c[s], NEW w \in [Samples -> Nat]
    PROVE  Worth(b, w) <= Worth(c, w)
<1> DEFINE g == [s \in Samples |-> b[s] * w[s]]
           h == [s \in Samples |-> c[s] * w[s]]
           id == [s \in Samples |-> s]
<1>1. ASSUME NEW s \in Samples
      PROVE  g[s] \in Int /\ h[s] \in Nat /\ g[s] <= h[s] /\ id[s] = s
  <2> DEFINE i == b[s]
             j == c[s]
             n == w[s]
  <2>1. i \in Nat /\ j \in Nat /\ n \in Nat /\ i <= j
    OBVIOUS
  <2>2. g[s] = i * n /\ h[s] = j * n /\ id[s] = s
    OBVIOUS
  <2> HIDE DEF i, j, n, g, h, id
  <2>3. i * n \in Nat /\ j * n \in Nat /\ i * n <= j * n
    BY <2>1, Product, ProductOrder
  <2> QED
    BY <2>2, <2>3
<1>2. Worth(b, w) = Added(g, Samples) /\ Worth(c, w) = Added(h, Samples)
  BY DEF Worth
<1> HIDE DEF g, h, id
<1>3. Added(g, Samples) <= Added(h, Samples)
  BY <1>1, Constants, AddedInto
<1> QED
  BY <1>2, <1>3

(* Telemetry of a minute grows with its samples.                             *)
LEMMA TelemetryGrows ==
    ASSUME NEW u \in Telemetry, NEW v \in Telemetry, NEW m \in Minutes,
           \A s \in Samples : u[m][s] <= v[m][s]
    PROVE  /\ \A w \in [Samples -> Nat] : Worth(u[m], w) <= Worth(v[m], w)
           /\ Total(u[m]) <= Total(v[m])
<1>1. /\ u[m] \in [Samples -> Nat] /\ v[m] \in [Samples -> Nat]
      /\ BagOver(u[m], Samples) /\ BagOver(v[m], Samples)
  BY TelemetryIs
<1>2. \A w \in [Samples -> Nat] : Worth(u[m], w) <= Worth(v[m], w)
  BY <1>1, WorthGrows
<1> QED
  BY <1>1, <1>2, WeightsAre, SizeIsWorth

(* A sample is part of the size.                                             *)
LEMMA PartOfSize ==
    ASSUME NEW v \in Telemetry, NEW m \in Minutes, NEW s \in Samples
    PROVE  v[m][s] \in Nat /\ v[m][s] <= Total(v[m])
<1> DEFINE b == v[m]
<1>1. b \in [Samples -> Nat] /\ BagOver(b, Samples)
  BY TelemetryIs
<1> HIDE DEF b
<1>2. b[s] * EventOf[s] <= Worth(b, EventOf)
  BY <1>1, WorthIs, WeightsAre
<1>3. EventOf[s] = 1 /\ b[s] \in Nat
  BY <1>1 DEF EventOf
<1>4. Total(b) = Worth(b, EventOf)
  BY <1>1, SizeIsWorth
<1> QED
  BY <1>2, <1>3, <1>4 DEF b

(* Telemetry that is part of other telemetry has no more samples, and if it  *)
(* has as many it is the same.                                               *)
LEMMA PartIs ==
    ASSUME NEW b \in [Samples -> Nat], NEW c \in [Samples -> Nat],
           \A s \in Samples : b[s] <= c[s]
    PROVE  /\ Total(b) \in Nat /\ Total(c) \in Nat /\ Total(b) <= Total(c)
           /\ Total(b) = Total(c) => b = c
<1> DEFINE id == [s \in Samples |-> s]
<1>0. \A s \in Samples : id[s] = s
  OBVIOUS
<1>1. BagOver(b, Samples) /\ BagOver(c, Samples) /\ IsFiniteSet(Samples)
  BY Constants DEF BagOver
<1>2. Total(b) = Added(b, Samples) /\ Total(c) = Added(c, Samples)
  BY <1>1, TotalIs
<1>3. Total(b) \in Nat /\ Total(c) \in Nat
  BY <1>1, SizeIs
<1> HIDE DEF id
<1>4. Total(b) <= Total(c)
  <2>1. Added(b, Samples) <= Added(c, Samples)
    BY <1>0, <1>1, AddedInto
  <2> QED
    BY <1>2, <2>1
<1>5. ASSUME NEW s \in Samples, b[s] # c[s] PROVE Total(b) # Total(c)
  <2> DEFINE R == Samples \ {s}
  <2>1. IsFiniteSet(R) /\ R \subseteq Samples
    BY <1>1, FS_Subset
  <2>2. Added(b, Samples) = b[s] + Added(b, R) /\ Added(c, Samples) = c[s] + Added(c, R)
    BY <1>1, AddedAny
  <2> HIDE DEF R
  <2>3. Added(b, R) <= Added(c, R)
    BY <1>0, <2>1, AddedInto
  <2>4. Added(b, R) \in Int /\ Added(c, R) \in Int
    BY <2>1, AddedInt
  <2>5. b[s] \in Nat /\ c[s] \in Nat /\ b[s] < c[s]
    BY <1>5
  <2> QED
    BY <1>2, <2>2, <2>3, <2>4, <2>5
<1> QED
  BY <1>3, <1>4, <1>5

(* A part of the telemetry stays one when telemetry and time go on.          *)
LEMMA PartsLater ==
    ASSUME NEW b, RowBag(b), NEW u \in Telemetry, NEW v \in Telemetry,
           \A m \in Minutes : \A s \in Samples : u[m][s] <= v[m][s],
           NEW i \in Int, NEW j \in Int, i <= j, ServiceParts(b, u, i)
    PROVE  ServiceParts(b, v, j)
<1> SUFFICES ASSUME NEW r \in DOMAIN b, r.endpoint = None
             PROVE  /\ r.window * TicksPerMinute <= j
                    /\ \E x \in [Samples -> Nat] :
                         /\ \A s \in Samples : x[s] <= v[r.window][s]
                         /\ r = CalculateMetrics(None, r.window, x)
  BY DEF ServiceParts
<1>1. r.window \in Minutes
  BY RowHas DEF RowBag, BagOver
<1>2. r.window * TicksPerMinute <= j
  <2>1. r.window * TicksPerMinute <= i /\ r.window * TicksPerMinute \in Int
    BY <1>1, MinutesAre DEF ServiceParts
  <2> QED
    BY <2>1
<1>3. PICK x \in [Samples -> Nat] :
        /\ \A s \in Samples : x[s] <= u[r.window][s]
        /\ r = CalculateMetrics(None, r.window, x)
  BY DEF ServiceParts
<1>4. ASSUME NEW s \in Samples PROVE x[s] <= v[r.window][s]
  <2>1. /\ x[s] \in Nat /\ u[r.window][s] \in Nat /\ v[r.window][s] \in Nat
        /\ x[s] <= u[r.window][s] /\ u[r.window][s] <= v[r.window][s]
    BY <1>1, <1>3, PartOfSize
  <2> QED
    BY <2>1
<1> QED
  BY <1>2, <1>3, <1>4

(* No telemetry.                                                             *)
LEMMA NoEventsAre ==
    NoEvents \in Telemetry /\ \A m \in Minutes : \A s \in Samples : NoEvents[m][s] = 0
BY Constants DEF NoEvents, Telemetry

(* Init => IInv.                                                             *)
LEMMA InitHolds == Init => IInv
<1> SUFFICES ASSUME Init PROVE IInv
  OBVIOUS
<1> USE DEF Init
<1>1. /\ RowBag(EmptyBag) /\ DOMAIN EmptyBag = {}
      /\ ServiceParts(EmptyBag, events, now)
  BY EmptyIs DEF ServiceParts
<1>2. events \in Telemetry /\ \A m \in Minutes : \A s \in Samples : events[m][s] = 0
  BY NoEventsAre
<1>3. TypeOK
  BY <1>1, <1>2, Constants DEF TypeOK, Telemetry
<1>4. InTime
  BY <1>2 DEF InTime
<1>5. SeenIsThere
  BY <1>2 DEF SeenIsThere
<1> QED
  BY <1>1, <1>3, <1>4, <1>5 DEF IInv

(* What a read has written stays right when telemetry and time go on.        *)
LEMMA GoingOn ==
    ASSUME IInv, TypeOK', InTime',
           UNCHANGED <<rows, pending, pc, width, seen>>, now <= now',
           \A m \in Minutes : \A s \in Samples : events[m][s] <= events'[m][s]
    PROVE  IInv'
<1>1. /\ now \in Int /\ now' \in Int /\ events \in Telemetry /\ events' \in Telemetry
      /\ seen \in Telemetry /\ width \in Nat
  BY TypesAre DEF IInv, TypeOK, Telemetry, SeenIsThere
<1>2. Since \in Int /\ Since' \in Int /\ Since <= Since'
  <2>1. width * TicksPerMinute \in Int
    BY <1>1, Constants
  <2> QED
    BY <1>1, <2>1 DEF Since
<1>3. (pc = "report" => Covered(pending, Since))'
  BY <1>2, CoveredLater DEF IInv
<1>4. /\ RowBag(rows)' /\ RowBag(pending)'
      /\ ServiceParts(rows', events', now') /\ ServiceParts(pending', events', now')
  <2>1. /\ RowBag(rows) /\ RowBag(pending)
        /\ ServiceParts(rows, events, now) /\ ServiceParts(pending, events, now)
    BY DEF IInv
  <2>2. ServiceParts(rows, events', now') /\ ServiceParts(pending, events', now')
    BY <1>1, <2>1, PartsLater
  <2> QED
    BY <2>1, <2>2
<1>5. SeenIsThere'
  <2>1. \A m \in Minutes : \A s \in Samples : seen[m][s] <= events[m][s]
    BY DEF IInv, SeenIsThere
  <2>2. ASSUME NEW m \in Minutes, NEW s \in Samples PROVE seen[m][s] <= events'[m][s]
    <3>1. seen[m][s] \in Nat /\ events[m][s] \in Nat /\ events'[m][s] \in Nat
      BY <1>1, PartOfSize
    <3>2. seen[m][s] <= events[m][s] /\ events[m][s] <= events'[m][s]
      BY <2>1
    <3> QED
      BY <3>1, <3>2
  <2> QED
    BY <1>1, <2>2 DEF SeenIsThere
<1>6. ASSUME pc' = "endpoints" PROVE ServiceRows(pending', events')
  <2>1. ServiceRows(pending, events) /\ RowBag(pending)
    BY <1>6 DEF IInv
  <2>2. ASSUME NEW r \in DOMAIN pending
        PROVE  /\ r.requests <= Worth(events'[r.window], EventOf)
               /\ r.errors <= Worth(events'[r.window], ErrorOf)
    <3>1. r \in Row
      BY <2>1 DEF RowBag, BagOver
    <3>2. /\ r.requests <= Worth(events[r.window], EventOf)
          /\ r.errors <= Worth(events[r.window], ErrorOf)
      BY <2>1 DEF ServiceRows
    <3>3. r.window \in Minutes /\ r.requests \in Nat /\ r.errors \in Nat
      BY <3>1, RowHas
    <3>4. /\ Worth(events[r.window], EventOf) <= Worth(events'[r.window], EventOf)
          /\ Worth(events[r.window], ErrorOf) <= Worth(events'[r.window], ErrorOf)
      BY <1>1, <3>3, WeightsAre, TelemetryGrows
    <3>5. /\ BagOver(events[r.window], Samples) /\ BagOver(events'[r.window], Samples)
      BY <1>1, <3>3, TelemetryIs
    <3>6. /\ Worth(events[r.window], EventOf) \in Nat /\ Worth(events'[r.window], EventOf) \in Nat
          /\ Worth(events[r.window], ErrorOf) \in Nat /\ Worth(events'[r.window], ErrorOf) \in Nat
      BY <3>5, WeightsAre, WorthIs
    <3> QED
      BY <3>2, <3>3, <3>4, <3>6
  <2> QED
    BY <2>1, <2>2 DEF ServiceRows
<1>7. ASSUME pc' \in {"endpoints", "report"} PROVE SeenIsCounted'
  <2>1. SeenIsCounted
    BY <1>7 DEF IInv
  <2>2. ASSUME NEW m \in Minutes, m * TicksPerMinute > Since' PROVE m * TicksPerMinute > Since
    <3>1. m * TicksPerMinute \in Int
      BY MinutesAre
    <3> QED
      BY <1>2, <2>2, <3>1
  <2> QED
    BY <2>1, <2>2 DEF SeenIsCounted
<1> QED
  BY <1>3, <1>4, <1>5, <1>6, <1>7 DEF IInv

(* Telemetry arrives.                                                        *)
LEMMA ReceiveKeeps ==
    ASSUME IInv, NEW m \in Minutes, NEW s \in Samples, Receive(m, s)
    PROVE  IInv'
<1>1. /\ events \in Telemetry /\ now \in Int /\ now' = now
      /\ UNCHANGED <<rows, pending, pc, width, seen, reads>>
  BY TypesAre DEF IInv, Receive, read
<1>2. events' = [events EXCEPT ![m][s] = @ + 1]
  BY DEF Receive
<1>3. events[m][s] \in Nat /\ events[m][s] + 1 \in 0..PerMinute
  <2>1. events[m][s] \in Nat /\ events[m][s] <= Total(events[m])
    BY <1>1, PartOfSize
  <2>2. Total(events[m]) < PerMinute
    BY DEF Receive
  <2>3. Total(events[m]) \in Nat
    BY <1>1, TelemetryIs, SizeIs
  <2> QED
    BY <2>1, <2>2, <2>3, Constants
<1>4. events' \in Telemetry
  BY <1>1, <1>2, <1>3 DEF Telemetry
<1>5. ASSUME NEW n \in Minutes, NEW x \in Samples
      PROVE  /\ events[n][x] \in Nat /\ events[n][x] <= events'[n][x]
             /\ events'[n][x] # events[n][x] => n = m
  <2>1. events[n][x] \in Nat
    BY <1>1, PartOfSize
  <2>2. events'[n][x] = IF n = m /\ x = s THEN events[n][x] + 1 ELSE events[n][x]
    BY <1>1, <1>2 DEF Telemetry
  <2> QED
    BY <2>1, <2>2
<1>6. TypeOK'
  BY <1>1, <1>4 DEF IInv, TypeOK, Telemetry, Receive
<1>7. m * TicksPerMinute <= now
  <2>1. m \in Int /\ m <= MinuteOf(now)
    BY <1>1, MinutesAre, MinuteIs DEF Receive
  <2> QED
    BY <1>1, <2>1, MinuteIs
<1>8. InTime'
  BY <1>1, <1>5, <1>7 DEF IInv, InTime
<1> QED
  BY <1>1, <1>5, <1>6, <1>8, GoingOn

(* Time passes.                                                              *)
LEMMA TickKeeps == ASSUME IInv, Tick PROVE IInv'
<1>1. /\ events \in Telemetry /\ now \in Int /\ now' = now + 1
      /\ UNCHANGED <<events, rows, pending, pc, width, seen, reads>>
  BY TypesAre DEF IInv, Tick, read
<1>2. TypeOK'
  BY <1>1, Constants DEF IInv, TypeOK, Tick
<1>3. InTime'
  <2> SUFFICES ASSUME NEW m \in Minutes, NEW s \in Samples, events[m][s] > 0
               PROVE  m * TicksPerMinute <= now'
    BY <1>1 DEF InTime
  <2>1. m * TicksPerMinute <= now /\ m * TicksPerMinute \in Int
    BY MinutesAre DEF IInv, InTime
  <2> QED
    BY <1>1, <2>1
<1>4. \A m \in Minutes : \A s \in Samples : events[m][s] <= events'[m][s]
  BY <1>1, PartOfSize
<1>5. now <= now'
  BY <1>1
<1> QED
  BY <1>1, <1>2, <1>3, <1>4, <1>5, GoingOn

(* A read begins.                                                            *)
LEMMA BeginKeeps == ASSUME IInv, NEW w \in WindowMinutes, Begin(w) PROVE IInv'
<1>1. /\ events \in Telemetry /\ pc' = "service" /\ width' = w /\ seen' = events
      /\ pending = EmptyBag /\ UNCHANGED <<now, events, rows, pending>>
  BY TypesAre DEF IInv, TypeOK, Begin
<1>2. TypeOK'
  BY <1>1, Constants DEF IInv, TypeOK, Begin
<1>3. SeenIsThere'
  BY <1>1, PartOfSize DEF SeenIsThere
<1>4. /\ InTime'
      /\ ServiceParts(rows', events', now') /\ ServiceParts(pending', events', now')
  BY <1>1 DEF IInv, InTime
<1> QED
  BY <1>1, <1>2, <1>3, <1>4 DEF IInv

(* A read writes the rows of the service.                                    *)
LEMMA AggregateServiceKeeps == ASSUME IInv, AggregateService PROVE IInv'
<1>1. /\ events \in Telemetry /\ now \in Int /\ width \in Nat /\ InTime /\ SeenIsThere
      /\ pc = "service" /\ pc' = "endpoints" /\ pending' = SetToBag(NewRows(None))
      /\ UNCHANGED <<now, events, rows, width, seen, reads>> /\ verdict' = None
  BY TypesAre DEF IInv, AggregateService
<1>2. /\ IsFiniteSet(NewRows(None))
      /\ \A r \in NewRows(None) :
           /\ r \in Row /\ r.errors <= r.requests /\ r.endpoint = None
           /\ r.window \in Filled(None) /\ r = RowOf(None, r.window)
      /\ \A m \in Filled(None) :
           m \in Minutes /\ Total(OfEndpoint(events[m], None)) > 0 /\ RowOf(None, m) \in NewRows(None)
  BY <1>1, NewRowsAre
<1>3. RowBag(pending') /\ DOMAIN pending' = NewRows(None)
        /\ \A r \in NewRows(None) : pending'[r] = 1
  BY <1>1, <1>2, SetIsRowBag
<1>4. TypeOK'
  BY <1>1, <1>2, <1>3 DEF IInv, TypeOK
<1>5. ASSUME NEW m \in Filled(None)
      PROVE  /\ RowOf(None, m).window = m
             /\ RowOf(None, m).requests = Total(events[m])
             /\ RowOf(None, m).requests = Worth(events[m], EventOf)
             /\ RowOf(None, m).errors = Worth(events[m], ErrorOf)
  <2>1. m \in Minutes /\ Total(OfEndpoint(events[m], None)) > 0
    BY <1>2
  <2>2. events[m] \in [Samples -> Nat] /\ BagOver(events[m], Samples)
    BY <1>1, <2>1, TelemetryIs
  <2>3. OfEndpoint(events[m], None) = events[m]
    BY <2>2, OfEndpointIs
  <2>4. RowOf(None, m) = CalculateMetrics(None, m, events[m])
    BY <2>3 DEF RowOf
  <2>5. Total(events[m]) = Worth(events[m], EventOf)
    BY <2>2, SizeIsWorth
  <2> DEFINE b == events[m]
             x == RowOf(None, m)
  <2>6. BagOver(b, Samples) /\ x = CalculateMetrics(None, m, b) /\ Total(b) = Worth(b, EventOf)
    BY <2>2, <2>4, <2>5
  <2> HIDE DEF b, x
  <2>7. x.window = m /\ x.requests = Worth(b, EventOf) /\ x.errors = Worth(b, ErrorOf)
    BY <2>6, RowCounts
  <2> QED
    BY <2>6, <2>7 DEF b, x
<1>6. ServiceRows(pending', events')
  <2>1. ASSUME NEW r \in NewRows(None)
        PROVE  /\ r.endpoint = None /\ pending'[r] = 1
               /\ r.requests <= Worth(events[r.window], EventOf)
               /\ r.errors <= Worth(events[r.window], ErrorOf)
    <3>1. /\ r \in Row /\ r.window \in Filled(None) /\ r = RowOf(None, r.window)
      BY <1>2
    <3>2. /\ r.requests = Worth(events[r.window], EventOf)
          /\ r.errors = Worth(events[r.window], ErrorOf)
      BY <1>5, <3>1
    <3>3. r.requests \in Nat /\ r.errors \in Nat
      BY <3>1, RowHas
    <3> QED
      BY <1>2, <1>3, <3>2, <3>3
  <2>2. \A q, r \in NewRows(None) : q.window = r.window => q = r
    BY <1>2
  <2> QED
    BY <1>1, <1>3, <2>1, <2>2 DEF ServiceRows
<1>7. InTime' /\ SeenIsThere' /\ Since' = Since
  BY <1>1 DEF InTime, SeenIsThere, Since
<1>8. SeenIsCounted'
  <2> SUFFICES ASSUME NEW m \in Minutes, m * TicksPerMinute > Since, Total(seen[m]) > 0
               PROVE  \E r \in NewRows(None) :
                        r.endpoint = None /\ r.window = m /\ r.requests >= Total(seen[m])
    BY <1>1, <1>3, <1>7 DEF SeenIsCounted
  <2>1. Total(seen[m]) <= Total(events[m])
    BY <1>1, TelemetryGrows DEF SeenIsThere
  <2>2. Total(events[m]) \in Nat /\ Total(seen[m]) \in Nat
    BY <1>1, TelemetryIs, SizeIs DEF SeenIsThere
  <2>3. OfEndpoint(events[m], None) = events[m]
    BY <1>1, TelemetryIs, OfEndpointIs
  <2>4. m \in Filled(None)
    BY <1>1, <2>1, <2>2, <2>3, FilledIs
  <2> QED
    BY <1>2, <1>5, <2>1, <2>2, <2>4
<1>9. ServiceParts(rows', events', now') /\ ServiceParts(pending', events', now')
  <2>1. ASSUME NEW r \in NewRows(None)
        PROVE  /\ r.window * TicksPerMinute <= now
               /\ \E x \in [Samples -> Nat] :
                    /\ \A s \in Samples : x[s] <= events[r.window][s]
                    /\ r = CalculateMetrics(None, r.window, x)
    <3>1. /\ r.window \in Filled(None) /\ r.window \in Minutes /\ r = RowOf(None, r.window)
      BY <1>2
    <3>2. r.window * TicksPerMinute <= now
      BY <3>1 DEF Filled
    <3>3. events[r.window] \in [Samples -> Nat]
      BY <1>1, <3>1, TelemetryIs
    <3>4. r = CalculateMetrics(None, r.window, events[r.window])
      BY <3>1, <3>3, OfEndpointIs DEF RowOf
    <3>5. \A s \in Samples : events[r.window][s] <= events[r.window][s]
      BY <3>3
    <3> QED
      BY <3>2, <3>3, <3>4, <3>5
  <2>2. ServiceParts(pending', events, now)
    BY <1>3, <2>1 DEF ServiceParts
  <2> QED
    BY <1>1, <2>2 DEF IInv
<1> QED
  BY <1>1, <1>3, <1>4, <1>6, <1>7, <1>8, <1>9 DEF IInv

(* A read writes the rows of the endpoints.                                  *)
LEMMA AggregateEndpointsKeeps == ASSUME IInv, AggregateEndpoints PROVE IInv'
<1>1. /\ events \in Telemetry /\ now \in Int /\ InTime /\ SeenIsThere /\ RowBag(pending)
      /\ pc = "endpoints" /\ pc' = "report"
      /\ pending' = pending (+) SetToBag(EndpointRows)
      /\ UNCHANGED <<now, events, rows, width, seen, reads>> /\ verdict' = None
  BY TypesAre DEF IInv, AggregateEndpoints, EndpointRows
<1>2. RowBag(SetToBag(EndpointRows))
  BY <1>1, EndpointRowsAre
<1>3. RowBag(pending')
  BY <1>1, <1>2, RowBagPlus
<1>4. InTime' /\ SeenIsThere' /\ Since' = Since
  BY <1>1 DEF InTime, SeenIsThere, Since
<1>5. Covered(pending', Since')
  BY <1>1, <1>4, EndpointsCover DEF IInv
<1>6. TypeOK'
  <2>1. \A r \in DOMAIN rows \cup DOMAIN pending' : r \in Row /\ r.errors <= r.requests
    BY <1>3 DEF IInv, RowBag, BagOver
  <2> QED
    BY <1>1, <2>1 DEF IInv, TypeOK
<1>7. SeenIsCounted'
  <2>1. DOMAIN pending \subseteq DOMAIN pending'
    BY <1>1 DEF (+)
  <2> QED
    BY <1>1, <1>4, <2>1 DEF IInv, SeenIsCounted
<1>8. ServiceParts(rows', events', now') /\ ServiceParts(pending', events', now')
  <2>1. \A r \in DOMAIN pending' : r.endpoint = None => r \in DOMAIN pending
    <3>1. DOMAIN pending' = DOMAIN pending \cup EndpointRows
      BY <1>1, EndpointRowsAre DEF (+)
    <3> QED
      BY <1>1, <3>1, EndpointRowsAre, Constants
  <2>2. ServiceParts(pending, events, now) /\ ServiceParts(rows, events, now)
    BY DEF IInv
  <2>3. ServiceParts(pending', events, now)
    BY <2>1, <2>2 DEF ServiceParts
  <2> QED
    BY <1>1, <2>2, <2>3
<1> QED
  BY <1>1, <1>3, <1>4, <1>5, <1>6, <1>7, <1>8 DEF IInv

(* A read ends, and its rows are committed or forgotten.                     *)
LEMMA EndKeeps == ASSUME IInv, Answer \/ RollBack PROVE IInv'
<1>1. /\ pc' = "idle" /\ width' = 0 /\ pending' = EmptyBag /\ seen' = NoEvents
      /\ UNCHANGED <<now, events, reads>> /\ verdict' = None
      /\ events \in Telemetry
      /\ \/ rows' = rows
         \/ pc = "report" /\ rows' = rows (+) pending
  BY TypesAre DEF IInv, Answer, RollBack
<1>2. RowBag(EmptyBag) /\ DOMAIN EmptyBag = {}
  BY EmptyIs
<1>3. RowBag(rows') /\ ServiceParts(rows', events, now)
  <2>1. /\ RowBag(rows) /\ RowBag(pending)
        /\ ServiceParts(rows, events, now) /\ ServiceParts(pending, events, now)
    BY DEF IInv
  <2>2. CASE rows' = rows
    BY <2>1, <2>2
  <2>3. CASE rows' = rows (+) pending
    <3>1. DOMAIN rows' = DOMAIN rows \cup DOMAIN pending
      BY <2>3 DEF (+)
    <3>2. ServiceParts(rows', events, now)
      BY <2>1, <3>1 DEF ServiceParts
    <3> QED
      BY <2>1, <2>3, <3>2, RowBagPlus
  <2> QED
    BY <1>1, <2>2, <2>3
<1>4. TypeOK'
  <2>1. \A r \in DOMAIN rows' : r \in Row /\ r.errors <= r.requests
    BY <1>3 DEF RowBag, BagOver
  <2> QED
    BY <1>1, <1>2, <2>1 DEF IInv, TypeOK
<1>5. SeenIsThere'
  BY <1>1, NoEventsAre, PartOfSize DEF SeenIsThere
<1>6. InTime' /\ ServiceParts(pending', events', now')
  BY <1>1, <1>2 DEF IInv, InTime, ServiceParts
<1> QED
  BY <1>1, <1>2, <1>3, <1>4, <1>5, <1>6 DEF IInv

(* A severity is one of the four.                                            *)
LEMMA SeverityIs == ASSUME NEW b, NEW r, NEW forest PROVE Severity(b, r, forest) \in Severities
BY DEF Severity, Severities

(* A detection reads.                                                        *)
LEMMA DetectKeeps == ASSUME IInv, NEW r, NEW forest, Detect(r, forest) PROVE IInv'
<1>1. UNCHANGED <<now, events, rows, pending, pc, width, seen, reads>>
  BY DEF Detect, read
<1>2. verdict'.severity \in Severities
  <2>1. verdict'.severity = Severity(Baseline(r), r, forest)
    BY DEF Detect
  <2> QED
    BY <2>1, SeverityIs
<1>3. TypeOK'
  BY <1>1, <1>2 DEF IInv, TypeOK
<1>4. InTime'
  BY <1>1 DEF IInv, InTime
<1>5. now \in Int /\ events \in Telemetry
  BY TypesAre DEF IInv
<1>6. now <= now' /\ \A m \in Minutes : \A s \in Samples : events[m][s] <= events'[m][s]
  BY <1>1, <1>5, PartOfSize
<1> QED
  BY <1>1, <1>3, <1>4, <1>6, GoingOn

(* IInv /\ [Next]_vars => IInv'.                                             *)
LEMMA StepKeeps == IInv /\ [Next]_vars => IInv'
<1> SUFFICES ASSUME IInv, [Next]_vars PROVE IInv'
  OBVIOUS
<1>1. CASE UNCHANGED vars
  <2>1. UNCHANGED <<now, events, rows, pending, pc, width, seen, reads, verdict>>
    BY <1>1 DEF vars, read
  <2>2. TypeOK' /\ InTime'
    BY <2>1 DEF IInv, TypeOK, InTime
  <2>3. now \in Int /\ events \in Telemetry
    BY TypesAre DEF IInv
  <2>4. now <= now' /\ \A m \in Minutes : \A s \in Samples : events[m][s] <= events'[m][s]
    BY <2>1, <2>3, PartOfSize
  <2> QED
    BY <2>1, <2>2, <2>4, GoingOn
<1>2. CASE \E m \in Minutes, s \in Samples : Receive(m, s)
  BY <1>2, ReceiveKeeps
<1>3. CASE \E w \in WindowMinutes : Begin(w)
  BY <1>3, BeginKeeps
<1>4. CASE AggregateService
  BY <1>4, AggregateServiceKeeps
<1>5. CASE AggregateEndpoints
  BY <1>5, AggregateEndpointsKeeps
<1>6. CASE Answer \/ RollBack
  BY <1>6, EndKeeps
<1>7. CASE \E r \in DOMAIN rows, forest \in ForestScores : Detect(r, forest)
  BY <1>7, DetectKeeps
<1>8. CASE Tick
  BY <1>8, TickKeeps
<1> QED
  BY <1>1, <1>2, <1>3, <1>4, <1>5, <1>6, <1>7, <1>8 DEF Next

(* The invariant holds at every moment.                                      *)
LEMMA AlwaysHolds == Spec => []IInv
BY InitHolds, StepKeeps, PTL DEF Spec

(* Clock, telemetry, rows and verdicts keep their types: every row counts at *)
(* least one request, no more errors than requests, and has a percentile.    *)
THEOREM TypeCorrect == Spec => []TypeOK
<1>1. IInv => TypeOK
  BY DEF IInv
<1> QED
  BY AlwaysHolds, <1>1, PTL

(* What a read adds up.                                                      *)
LEMMA SummaryIs ==
    ASSUME NEW b, RowBag(b)
    PROVE  /\ Summary(b).requests = Worth(b, RequestsOf)
           /\ Summary(b).errors = Worth(b, ErrorsOf)
           /\ Worth(b, RequestsOf) \in Nat /\ Worth(b, ErrorsOf) \in Nat
<1>1. BagOver(b, Row)
  BY DEF RowBag
<1>2. Requests(b) = Worth(b, RequestsOf) /\ Errors(b) = Worth(b, ErrorsOf)
  BY <1>1, SumsAreWorths
<1>3. Summary(b).requests = Requests(b) /\ Summary(b).errors = Errors(b)
  BY DEF Summary
<1>4. Worth(b, RequestsOf) \in Nat /\ Worth(b, ErrorsOf) \in Nat
  BY <1>1, CountsAre, WorthIs
<1> QED
  BY <1>2, <1>3, <1>4

(* "aggregate_endpoints() is called after aggregate_service()": whatever     *)
(* window a read asks for, the rows it writes of the endpoints count at      *)
(* least the requests and the errors of those it writes of the service,      *)
(* whatever arrives between the two, and even if the window moves on.        *)
THEOREM EndpointsCoverTheService == Spec => []EndpointsCoverService
<1>1. IInv => EndpointsCoverService
  <2> DEFINE Own(e) == Aggregates(pending, e, Since)
  <2> SUFFICES ASSUME IInv, pc = "report"
               PROVE  /\ Total([e \in Endpoints |-> Requests(Own(e))]) >= Requests(Own(None))
                      /\ Total([e \in Endpoints |-> Errors(Own(e))]) >= Errors(Own(None))
    BY DEF EndpointsCoverService
  <2>1. RowBag(pending) /\ Covered(pending, Since) /\ Since \in Int
    BY TypesAre DEF IInv
  <2> DEFINE f == [e \in Endpoints |-> Requests(Own(e))]
             g == [e \in Endpoints |-> Errors(Own(e))]
             x == [e \in Endpoints |-> Worth(Own(e), RequestsOf)]
             y == [e \in Endpoints |-> Worth(Own(e), ErrorsOf)]
  <2>2. ASSUME NEW e
        PROVE  Requests(Own(e)) = Worth(Own(e), RequestsOf) /\ Errors(Own(e)) = Worth(Own(e), ErrorsOf)
    <3> DEFINE a == Own(e)
    <3>1. BagOver(a, Row)
      BY <2>1, AggregatesAreRows DEF RowBag
    <3> HIDE DEF a
    <3>2. Requests(a) = Worth(a, RequestsOf) /\ Errors(a) = Worth(a, ErrorsOf)
      BY <3>1, SumsAreWorths
    <3> QED
      BY <3>2 DEF a
  <2>3. \A e \in Endpoints : f[e] = x[e] /\ g[e] = y[e]
    BY <2>2
  <2>4. DOMAIN f = Endpoints /\ DOMAIN g = Endpoints
    OBVIOUS
  <2>5. /\ EndpointsCount(pending, Since, RequestsOf) = Added(x, Endpoints)
        /\ EndpointsCount(pending, Since, ErrorsOf) = Added(y, Endpoints)
    BY DEF EndpointsCount
  <2>6. /\ Worth(Own(None), RequestsOf) <= Added(x, Endpoints)
        /\ Worth(Own(None), ErrorsOf) <= Added(y, Endpoints)
    BY <2>1, <2>5 DEF Covered
  <2>7. /\ Added(x, Endpoints) \in Nat /\ Added(y, Endpoints) \in Nat
        /\ Worth(Own(None), RequestsOf) \in Nat /\ Worth(Own(None), ErrorsOf) \in Nat
    BY <2>1, <2>5, CountsAre, EndpointsCountIs
  <2>8. /\ Requests(Own(None)) = Worth(Own(None), RequestsOf)
        /\ Errors(Own(None)) = Worth(Own(None), ErrorsOf)
    BY <2>2
  <2> HIDE DEF f, g, x, y, Own
  <2>9. Total(f) = Added(x, Endpoints) /\ Total(g) = Added(y, Endpoints)
    <3>1. Total(f) = Added(f, Endpoints) /\ Total(g) = Added(g, Endpoints)
      BY <2>4, Constants, TotalIs
    <3>2. Added(f, Endpoints) = Added(x, Endpoints)
      BY <2>3, Constants, AddedSame
    <3>3. Added(g, Endpoints) = Added(y, Endpoints)
      BY <2>3, Constants, AddedSame
    <3> QED
      BY <3>1, <3>2, <3>3
  <2>10. Total(f) >= Requests(Own(None)) /\ Total(g) >= Errors(Own(None))
    BY <2>6, <2>7, <2>8, <2>9
  <2> QED
    BY <2>10 DEF f, g
<1> QED
  BY AlwaysHolds, <1>1, PTL

(* A row that a query finds is counted.                                      *)
LEMMA RowIsCounted ==
    ASSUME NEW b, RowBag(b), NEW r \in DOMAIN b
    PROVE  r.requests \in Nat /\ r.requests <= Worth(b, RequestsOf)
<1>1. BagOver(b, Row) /\ b[r] \in Nat /\ b[r] > 0 /\ r \in Row
  BY DEF RowBag, BagOver
<1>2. r.requests \in Nat /\ RequestsOf[r] = r.requests
  BY <1>1, RowHas
<1>3. b[r] * RequestsOf[r] <= Worth(b, RequestsOf) /\ Worth(b, RequestsOf) \in Nat
  BY <1>1, CountsAre, WorthIs
<1> DEFINE i == b[r]
           j == r.requests
<1>4. i \in Nat /\ i >= 1 /\ j \in Nat /\ i * j <= Worth(b, RequestsOf)
  BY <1>1, <1>2, <1>3
<1> HIDE DEF i, j
<1>5. 1 * j <= i * j /\ i * j \in Nat
  BY <1>4, Product, ProductOrder
<1> QED
  BY <1>3, <1>4, <1>5 DEF i, j

(* A read counts every request that was stored when it began and whose       *)
(* minute lies in the window asked for, in the series and in the current     *)
(* values: no request is lost at the edge of a window, in the minute that is *)
(* not over, or because time goes on during the read.                        *)
THEOREM NothingIsMissed == Spec => []ReadsMissNothing
<1>1. IInv => ReadsMissNothing
  <2> SUFFICES ASSUME IInv, pc = "report" PROVE ReadsMissNothing
    BY DEF ReadsMissNothing
  <2>1. /\ RowBag(rows) /\ RowBag(pending) /\ SeenIsCounted /\ seen \in Telemetry
        /\ now \in Int /\ Since \in Int
    BY TypesAre DEF IInv, SeenIsThere
  <2>2. RowBag(Visible) /\ DOMAIN pending \subseteq DOMAIN Visible
    BY <2>1, RowBagPlus DEF Visible, (+)
  <2>3. \A m \in Minutes : Total(seen[m]) \in Nat /\ m * TicksPerMinute \in Nat
    BY <2>1, TelemetryIs, SizeIs, MinutesAre
  <2>4. ASSUME NEW m \in Minutes, m * TicksPerMinute > Since, Total(seen[m]) > 0
        PROVE  m \in DOMAIN ProjectSeries /\ ProjectSeries[m].requests >= Total(seen[m])
    <3>1. PICK r \in DOMAIN pending :
            r.endpoint = None /\ r.window = m /\ r.requests >= Total(seen[m])
      BY <2>1, <2>4 DEF SeenIsCounted
    <3>2. RowBag(TimeSeries) /\ r \in DOMAIN TimeSeries
      <4>1. r \in Found(Visible, None, Since)
        BY <2>2, <2>4, <3>1 DEF Found
      <4> QED
        BY <2>2, <4>1, AggregatesAre, AggregatesAreRows DEF TimeSeries
    <3> DEFINE D == {q \in DOMAIN TimeSeries : q.window = m}
               a == [q \in D |-> TimeSeries[q]]
    <3>3. RowBag(a) /\ r \in DOMAIN a
      BY <3>1, <3>2, PartIsRowBag
    <3>4. ProjectSeries[m] = Summary(a) /\ m \in DOMAIN ProjectSeries
      BY <3>1, <3>2 DEF ProjectSeries, Select
    <3> HIDE DEF a
    <3>5. r.requests \in Nat /\ r.requests <= Worth(a, RequestsOf)
      BY <3>3, RowIsCounted
    <3>6. ProjectSeries[m].requests = Worth(a, RequestsOf) /\ Worth(a, RequestsOf) \in Nat
      BY <3>3, <3>4, SummaryIs
    <3> QED
      BY <2>3, <3>1, <3>4, <3>5, <3>6
  <2>5. Current.requests >=
          Total([m \in {n \in Minutes : n * TicksPerMinute > now - SnapshotMinutes * TicksPerMinute}
                   |-> Total(seen[m])])
    <3> DEFINE t == now - SnapshotMinutes * TicksPerMinute
               M == MinutesAfter(t)
               S == {m \in M : Total(seen[m]) > 0}
               g == [m \in M |-> Total(seen[m])]
               a == Aggregates(Visible, None, t)
               h == [r \in DOMAIN a |-> a[r] * RequestsOf[r]]
               Counts(r, m) == /\ r.endpoint = None /\ r.window = m
                               /\ r.requests >= Total(seen[m])
               p == [m \in S |-> CHOOSE r \in DOMAIN pending : Counts(r, m)]
    <3>1. t \in Int /\ t >= Since
      <4>1. width \in WindowMinutes /\ width \in Nat
        BY TypesAre DEF IInv, TypeOK
      <4>2. SnapshotMinutes * TicksPerMinute <= width * TicksPerMinute
        BY <4>1, Constants, ProductOrder
      <4>3. /\ SnapshotMinutes * TicksPerMinute \in Int
            /\ width * TicksPerMinute \in Int
        BY <4>1, Constants
      <4> QED
        BY <2>1, <4>2, <4>3 DEF Since
    <3> HIDE DEF t
    <3>2. M \in SUBSET Minutes /\ S \in SUBSET M /\ IsFiniteSet(M) /\ IsFiniteSet(S)
      <4>1. M \in SUBSET Minutes /\ S \in SUBSET M
        BY DEF MinutesAfter
      <4>2. IsFiniteSet(M)
        BY <4>1, MinutesAre, FS_Subset
      <4> QED
        BY <4>1, <4>2, FS_Subset
    <3>3. RowBag(a) /\ IsFiniteSet(DOMAIN a)
      BY <2>2, AggregatesAreRows DEF RowBag, BagOver
    <3>4. ASSUME NEW m \in S
          PROVE  p[m] \in DOMAIN a /\ p[m].window = m /\ g[m] \in Nat /\ g[m] <= h[p[m]]
      <4>1. m \in Minutes /\ m * TicksPerMinute > t /\ Total(seen[m]) > 0 /\ m \in M
        BY <3>2 DEF MinutesAfter
      <4>2. m * TicksPerMinute > Since
        BY <2>1, <2>3, <3>1, <4>1
      <4>3. \E r \in DOMAIN pending : Counts(r, m)
        BY <2>1, <4>1, <4>2 DEF SeenIsCounted
      <4> DEFINE r == p[m]
      <4>4. r \in DOMAIN pending /\ Counts(r, m)
        BY <4>3
      <4> HIDE DEF p
      <4>5. r \in Found(Visible, None, t)
        BY <2>2, <4>1, <4>4 DEF Found
      <4>6. r \in DOMAIN a
        BY <4>5, AggregatesAre
      <4>7. a[r] \in Nat /\ a[r] > 0 /\ r \in Row
        BY <3>3, <4>6 DEF RowBag, BagOver
      <4>8. RequestsOf[r] = r.requests /\ r.requests \in Nat
        BY <4>7, RowHas
      <4>9. h[r] = a[r] * r.requests
        BY <4>6, <4>8
      <4>10. g[m] = Total(seen[m]) /\ g[m] \in Nat /\ g[m] <= r.requests
        BY <2>3, <4>1, <4>4, <4>8
      <4> DEFINE i == a[r]
                 j == r.requests
      <4>11. i \in Nat /\ i >= 1 /\ j \in Nat /\ h[r] = i * j /\ g[m] <= j /\ g[m] \in Nat
        BY <4>7, <4>8, <4>9, <4>10
      <4> HIDE DEF i, j, h, g
      <4>12. 1 * j <= i * j /\ i * j \in Nat
        BY <4>11, Product, ProductOrder
      <4>13. g[m] <= h[r]
        BY <4>11, <4>12
      <4> QED
        BY <4>4, <4>6, <4>11, <4>13
    <3>5. \A m \in M : g[m] \in Int
      BY <2>3, <3>2
    <3>6. \A m \in M \ S : g[m] = 0
      <4> SUFFICES ASSUME NEW m \in M, ~ (Total(seen[m]) > 0) PROVE g[m] = 0
        OBVIOUS
      <4> QED
        BY <2>3, <3>2
    <3>7. \A r \in DOMAIN a : h[r] \in Nat
      <4> SUFFICES ASSUME NEW r \in DOMAIN a PROVE h[r] \in Nat
        OBVIOUS
      <4>1. a[r] \in Nat /\ RequestsOf[r] \in Nat
        BY <3>3, CountsAre DEF RowBag, BagOver
      <4> QED
        BY <4>1, Product
    <3>8. \A m, n \in S : p[m] = p[n] => m = n
      <4>1. \A m \in S : p[m].window = m
        BY <3>4
      <4> HIDE DEF p, S
      <4> QED
        BY <4>1
    <3>9. DOMAIN g = M /\ Worth(a, RequestsOf) = Added(h, DOMAIN a)
      BY DEF Worth
    <3>10. Current.requests = Worth(a, RequestsOf)
      <4>1. Current = Summary(a)
        BY DEF Current, t
      <4> HIDE DEF a
      <4> QED
        BY <3>3, <4>1, SummaryIs
    <3> DEFINE total == Total(g)
    <3>11. total = Total([m \in {n \in Minutes :
                                    n * TicksPerMinute > now - SnapshotMinutes * TicksPerMinute}
                            |-> Total(seen[m])])
      BY DEF MinutesAfter, t
    <3> HIDE DEF M, S, g, a, h, p
    <3>12. Added(g, M) = Added(g, S)
      BY <3>2, <3>5, <3>6, AddedZeros
    <3>13. Added(g, S) <= Added(h, DOMAIN a)
      BY <3>2, <3>3, <3>4, <3>7, <3>8, AddedInto
    <3>14. total = Added(g, M)
      BY <3>2, <3>9, TotalIs
    <3>15. Added(g, M) \in Int
      BY <3>2, <3>5, AddedInt
    <3>16. Added(h, DOMAIN a) \in Int
      BY <3>3, <3>7, AddedInt
    <3>17. Current.requests >= total
      BY <3>9, <3>10, <3>12, <3>13, <3>14, <3>15, <3>16
    <3> HIDE DEF total
    <3> QED
      BY <3>11, <3>17
  <2> QED
    BY <2>4, <2>5 DEF ReadsMissNothing
<1> QED
  BY AlwaysHolds, <1>1, PTL

----------------------------------------------------------------------------
(* Detection *)

(* The values that a detector compares.                                      *)
LEMMA ValueIs ==
    ASSUME NEW metric \in MetricNames, NEW r \in Row
    PROVE  Value(metric, r) \in Int
<1>1. r.p95 \in Int /\ r.requests \in Nat /\ r.requests > 0 /\ r.errors \in Nat
  BY RowHas
<1>2. ErrorRate(r) \in Int
  <2> DEFINE i == RateScale * r.errors
             j == r.requests
  <2>1. i \in Int /\ j \in Nat /\ j > 0
    BY <1>1, Constants
  <2>2. ErrorRate(r) \in {i \div j, i \div j + 1}
    BY DEF ErrorRate
  <2> HIDE DEF i, j
  <2>3. i \div j \in Int
    BY <2>1
  <2> QED
    BY <2>2, <2>3
<1> QED
  BY <1>1, <1>2 DEF Value, MetricNames

(* What a detector computes from them.                                       *)
LEMMA StatisticsAre ==
    ASSUME NEW b, RowBag(b), NEW metric \in MetricNames, NEW r \in Row
    PROVE  /\ Total(b) \in Nat /\ Sum(b, metric) \in Int
           /\ Off(metric, b, r) \in Int /\ Distance(metric, b, r) \in Int
<1>1. IsFiniteSet(DOMAIN b) /\ DOMAIN b \subseteq Row /\ \A q \in DOMAIN b : b[q] \in Nat
  BY DEF RowBag, BagOver
<1>2. Total(b) \in Nat
  BY <1>1, TotalIs, AddedInt
<1> DEFINE g == [q \in DOMAIN b |-> b[q] * Value(metric, q)]
<1>3. DOMAIN g = DOMAIN b /\ \A q \in DOMAIN b : g[q] \in Int
  <2> SUFFICES ASSUME NEW q \in DOMAIN b PROVE g[q] \in Int
    OBVIOUS
  <2>1. b[q] \in Int /\ Value(metric, q) \in Int
    BY <1>1, ValueIs
  <2> QED
    BY <2>1
<1>4. Sum(b, metric) = Total(g)
  BY DEF Sum
<1> HIDE DEF g
<1>5. Sum(b, metric) \in Int
  BY <1>1, <1>3, <1>4, TotalIs, AddedInt
<1>6. Off(metric, b, r) \in Int
  <2>1. Value(metric, r) \in Int
    BY ValueIs
  <2> QED
    BY <1>2, <1>5, <2>1 DEF Off
<1>7. Distance(metric, b, r) \in Int
  BY <1>6 DEF Distance
<1> QED
  BY <1>2, <1>5, <1>6, <1>7

(* The rows a detection compares, and the last of them.                      *)
LEMMA BaselineIs ==
    ASSUME RowBag(rows), NEW r \in LastRows
    PROVE  /\ r \in Row /\ r \in DOMAIN DetectionRows
           /\ RowBag(Baseline(r)) /\ DOMAIN Baseline(r) \subseteq DOMAIN DetectionRows
           /\ RowBag(DetectionRows) /\ \A q \in DOMAIN DetectionRows : q.endpoint = None
<1> DEFINE since == now - (BaselineWindows + 1 + SlackMinutes) * TicksPerMinute
           d == DetectionRows
<1>1. RowBag(d)
  BY AggregatesAreRows DEF DetectionRows
<1>2. \A q \in DOMAIN d : q.endpoint = None
  <2>1. DOMAIN Aggregates(rows, None, since) = Found(rows, None, since)
    BY AggregatesAre
  <2>2. d = Aggregates(rows, None, since)
    BY DEF DetectionRows
  <2> HIDE DEF d, since
  <2>3. DOMAIN d = Found(rows, None, since)
    BY <2>1, <2>2
  <2> QED
    BY <2>3 DEF Found
<1>3. r \in DOMAIN d /\ r \in Row
  BY <1>1 DEF LastRows, RowBag, BagOver
<1> DEFINE one == SetToBag({r})
           b == [q \in DOMAIN d |-> IF q \in DOMAIN one THEN d[q] - one[q] ELSE d[q]]
           D == {q \in DOMAIN b : b[q] > 0}
<1>4. Baseline(r) = [q \in D |-> b[q]]
  BY DEF Baseline, (-)
<1>5. DOMAIN one = {r} /\ one[r] = 1
  BY DEF SetToBag
<1>6. ASSUME NEW q \in D PROVE b[q] \in Nat /\ b[q] > 0 /\ q \in DOMAIN d
  <2>1. q \in DOMAIN d /\ b[q] > 0 /\ d[q] \in Nat
    BY <1>1 DEF RowBag, BagOver
  <2>2. b[q] = d[q] - 1 \/ b[q] = d[q]
    BY <1>5, <2>1
  <2> QED
    BY <2>1, <2>2
<1>7. IsFiniteSet(D)
  <2>1. D \in SUBSET DOMAIN d /\ IsFiniteSet(DOMAIN d)
    BY <1>1 DEF RowBag, BagOver
  <2> QED
    BY <2>1, FS_Subset
<1> HIDE DEF d, one, b, D
<1> DEFINE c == [q \in D |-> b[q]]
<1>8. RowBag(c) /\ DOMAIN c \subseteq DOMAIN d
  <2>1. c \in [D -> Nat] /\ DOMAIN c = D /\ \A q \in D : c[q] = b[q]
    BY <1>6
  <2> HIDE DEF c
  <2> QED
    BY <1>1, <1>6, <1>7, <2>1 DEF RowBag, BagOver
<1> QED
  BY <1>1, <1>2, <1>3, <1>4, <1>8 DEF d

(* What a detector that fires has found, beyond its floors.                  *)
LEMMA TriggeredIs ==
    ASSUME NEW b, RowBag(b), NEW r \in Row, NEW metric \in Triggered(b, r)
    PROVE  /\ metric \in MetricNames
           /\ Distance(metric, b, r) > 0
           /\ metric # "throughput" => Distance(metric, b, r) = Off(metric, b, r)
           /\ metric = "error_rate" => 1000 * Distance(metric, b, r) > 6 * RateScale * Total(b)
           /\ metric = "throughput" => 100 * Distance(metric, b, r) > 15 * Sum(b, metric)
           /\ metric = "latency" /\ StdIsZero(b) =>
                100 * Distance(metric, b, r) > 3 * Sum(b, metric)
<1> DEFINE n == Total(b)
           d == Distance(metric, b, r)
           s == Sum(b, metric)
<1>1. /\ metric \in MetricNames /\ d > 0
      /\ \A f \in Floors(metric, b) : d * f[2] > 3 * n * f[1]
  BY DEF Triggered
<1>2. n \in Nat /\ s \in Int /\ d \in Int
  BY <1>1, StatisticsAre
<1>3. metric # "throughput" => d = Off(metric, b, r)
  BY DEF Distance
<1>4. ASSUME NEW k \in Nat, <<k * s, 100 * n>> \in Floors(metric, b)
      PROVE  100 * d > 3 * (k * s)
  <2>1. d * (100 * n) > 3 * n * (k * s)
    <3> DEFINE f == <<k * s, 100 * n>>
    <3>1. f[1] = k * s /\ f[2] = 100 * n
      OBVIOUS
    <3>2. d * f[2] > 3 * n * f[1]
      BY <1>1, <1>4
    <3> QED
      BY <3>1, <3>2
  <2> DEFINE i == 100 * d
             j == 3 * (k * s)
  <2>2. i \in Int /\ j \in Int
    BY <1>2
  <2>3. d * (100 * n) = i * n /\ 3 * n * (k * s) = j * n
    BY <1>2
  <2> HIDE DEF d, n, s, i, j
  <2>4. i <= j => i * n <= j * n
    BY <1>2, <2>2, ProductOrder
  <2>5. i * n \in Int /\ j * n \in Int /\ i * n > j * n
    BY <1>2, <2>1, <2>2, <2>3
  <2>6. i > j
    BY <2>2, <2>4, <2>5
  <2> QED
    BY <2>6 DEF i, j
<1>5. metric = "error_rate" => 1000 * d > 6 * RateScale * n
  <2> SUFFICES ASSUME metric = "error_rate" PROVE 1000 * d > 6 * RateScale * n
    OBVIOUS
  <2> DEFINE f == <<RateScale, 500>>
             k == RateScale
  <2>1. f \in Floors(metric, b) /\ f[1] = k /\ f[2] = 500 /\ k \in Nat
    BY Constants DEF Floors
  <2>2. d * f[2] > 3 * n * f[1]
    BY <1>1, <2>1
  <2>3. d * 500 > 3 * n * k
    BY <2>1, <2>2
  <2> HIDE DEF d, n, f, k
  <2>4. n * k \in Int /\ 3 * n * k = 3 * (n * k) /\ 6 * k * n = 6 * (n * k)
    BY <1>2, <2>1
  <2>5. 1000 * d > 6 * k * n
    BY <1>2, <2>3, <2>4
  <2> QED
    BY <2>5 DEF k
<1>6. metric = "throughput" => 100 * d > 15 * s
  <2> SUFFICES ASSUME metric = "throughput" PROVE 100 * d > 15 * s
    OBVIOUS
  <2>1. <<5 * s, 100 * n>> \in Floors(metric, b)
    BY DEF Floors
  <2>2. 100 * d > 3 * (5 * s)
    BY <1>4, <2>1
  <2> HIDE DEF d, n, s
  <2> QED
    BY <1>2, <2>2
<1>7. metric = "latency" /\ StdIsZero(b) => 100 * d > 3 * s
  <2> SUFFICES ASSUME metric = "latency", StdIsZero(b) PROVE 100 * d > 3 * s
    OBVIOUS
  <2>1. <<1 * s, 100 * n>> \in Floors(metric, b)
    BY DEF Floors
  <2>2. 100 * d > 3 * (1 * s)
    BY <1>4, <2>1
  <2> HIDE DEF d, n, s
  <2> QED
    BY <1>2, <2>2
<1> QED
  BY <1>1, <1>3, <1>5, <1>6, <1>7

(* A critical anomaly needs both signals.                                    *)
LEMMA CriticalNeedsBoth ==
    ASSUME NEW b, NEW r, NEW forest \in ForestScores, Severity(b, r, forest) = "CRITICAL"
    PROVE  Triggered(b, r) # {} /\ ForestFires(forest)
<1>1. ScoresAtLeast(b, r, 64 - 9 * forest)
  BY DEF Severity
<1>2. forest \in 0..4
  BY WindowsAssumption
<1>3. ~ (64 - 9 * forest <= 0)
  BY <1>2
<1>4. 64 - 9 * forest <= 44 /\ Triggered(b, r) # {}
  BY <1>1, <1>3 DEF ScoresAtLeast
<1> QED
  BY <1>2, <1>4 DEF ForestFires

(* The step that says something is a detection.                              *)
LEMMA VerdictIsDetection ==
    ASSUME IInv, Next, verdict' # None
    PROVE  \E r \in LastRows, forest \in ForestScores :
             /\ verdict'.row = r /\ verdict'.metrics = Triggered(Baseline(r), r)
             /\ verdict'.forest = forest
             /\ verdict'.severity = Severity(Baseline(r), r, forest)
<1>1. PICK r \in DOMAIN rows, forest \in ForestScores : Detect(r, forest)
  BY DEF Next, Receive, Begin, AggregateService, AggregateEndpoints, Answer, RollBack, Tick
<1>2. /\ r \in LastRows
      /\ verdict' = [row |-> r, metrics |-> Triggered(Baseline(r), r), forest |-> forest,
                     severity |-> Severity(Baseline(r), r, forest)]
  BY <1>1 DEF Detect
<1> QED
  BY <1>2

(* An alarm has a real change behind it, however uniform the baseline is: an *)
(* error rate 0.6 points above the mean, a throughput 15 % off, a latency    *)
(* above the mean, and 3 % above it if the deviation of the baseline was     *)
(* computed to be 0; and a critical anomaly has both a triggered metric and  *)
(* an isolation forest that fires behind it.                                 *)
THEOREM AlarmsHaveReasons == Spec => AlarmsAreJustified
<1> DEFINE Reason(b, r, metric) ==
        CASE metric = "error_rate" -> 1000 * Off(metric, b, r) > 6 * RateScale * Total(b)
          [] metric = "throughput" -> 100 * Distance(metric, b, r) > 15 * Sum(b, metric)
          [] metric = "latency" ->
               /\ Off(metric, b, r) > 0
               /\ StdIsZero(b) => 100 * Off(metric, b, r) > 3 * Sum(b, metric)
           Reasons(v) ==
        /\ \A metric \in v.metrics : Reason(Baseline(v.row), v.row, metric)
        /\ v.severity = "CRITICAL" => v.metrics # {} /\ ForestFires(v.forest)
<1>1. ASSUME IInv, Next, verdict' # None PROVE Reasons(verdict')
  <2>1. PICK r \in LastRows, forest \in ForestScores :
          /\ verdict'.row = r /\ verdict'.metrics = Triggered(Baseline(r), r)
          /\ verdict'.forest = forest
          /\ verdict'.severity = Severity(Baseline(r), r, forest)
    BY <1>1, VerdictIsDetection
  <2> DEFINE b == Baseline(r)
  <2>2. r \in Row /\ RowBag(b)
    BY <1>1, BaselineIs DEF IInv
  <2>3. ASSUME NEW metric \in Triggered(b, r)
        PROVE  Reason(b, r, metric)
    <3> HIDE DEF b
    <3>1. /\ metric \in MetricNames
          /\ Distance(metric, b, r) > 0
          /\ metric # "throughput" => Distance(metric, b, r) = Off(metric, b, r)
          /\ metric = "error_rate" => 1000 * Distance(metric, b, r) > 6 * RateScale * Total(b)
          /\ metric = "throughput" => 100 * Distance(metric, b, r) > 15 * Sum(b, metric)
          /\ metric = "latency" /\ StdIsZero(b) =>
               100 * Distance(metric, b, r) > 3 * Sum(b, metric)
      BY <2>2, TriggeredIs
    <3>2. CASE metric = "error_rate"
      BY <3>1, <3>2
    <3>3. CASE metric = "throughput"
      BY <3>1, <3>3
    <3>4. CASE metric = "latency"
      BY <3>1, <3>4
    <3> QED
      BY <3>1, <3>2, <3>3, <3>4 DEF MetricNames
  <2>4. Severity(b, r, forest) = "CRITICAL" => Triggered(b, r) # {} /\ ForestFires(forest)
    BY CriticalNeedsBoth
  <2> HIDE DEF Reason
  <2> QED
    BY <2>1, <2>3, <2>4
<1>2. IInv /\ [Next]_vars => [verdict' # None => Reasons(verdict')]_vars
  BY <1>1
<1> QED
  BY AlwaysHolds, <1>2, PTL DEF Spec, AlarmsAreJustified


(* Rows that are all alike raise no alarm.                                   *)
LEMMA AlikeIsQuiet ==
    ASSUME NEW b, RowBag(b), NEW r \in Row, NEW metric \in MetricNames,
           \A q \in DOMAIN b : Value(metric, q) = Value(metric, r)
    PROVE  metric \notin Triggered(b, r)
<1> DEFINE v == Value(metric, r)
           S == DOMAIN b
           g == [q \in S |-> b[q] * Value(metric, q)]
<1>1. IsFiniteSet(S) /\ \A q \in S : b[q] \in Int
  BY DEF RowBag, BagOver
<1>2. v \in Int
  BY ValueIs
<1>3. \A q \in S : g[q] = v * b[q]
  <2> SUFFICES ASSUME NEW q \in S PROVE g[q] = v * b[q]
    OBVIOUS
  <2>1. g[q] = b[q] * v
    OBVIOUS
  <2> HIDE DEF g, v
  <2> QED
    BY <1>1, <1>2, <2>1
<1>4. Sum(b, metric) = Total(g) /\ DOMAIN g = S
  BY DEF Sum
<1> HIDE DEF g
<1>5. Sum(b, metric) = Added(g, S) /\ Total(b) = Added(b, S) /\ Total(b) \in Int
  <2>1. \A q \in S : g[q] \in Int
    BY <1>1, <1>2, <1>3
  <2> QED
    BY <1>1, <1>4, <2>1, TotalIs, AddedInt
<1>6. Added(g, S) = v * Added(b, S)
  BY <1>1, <1>2, <1>3, AddedTimes
<1>7. Off(metric, b, r) = 0
  <2>1. Off(metric, b, r) = Total(b) * v - Sum(b, metric)
    BY DEF Off
  <2> HIDE DEF v
  <2> QED
    BY <1>2, <1>5, <1>6, <2>1
<1>8. ~ (Distance(metric, b, r) > 0)
  BY <1>7 DEF Distance
<1> QED
  BY <1>8 DEF Triggered

(* The rows that a detection compares lie between the first of them and the  *)
(* minute of the clock, and each counts a part of its minute's telemetry.    *)
LEMMA ComparedAre ==
    ASSUME IInv, NEW q \in DOMAIN DetectionRows
    PROVE  /\ q \in Row /\ q.endpoint = None
           /\ q.window \in Minutes
           /\ q.window \in Min({r.window : r \in DOMAIN DetectionRows})..MinuteOf(now)
           /\ \E x \in [Samples -> Nat] :
                /\ \A s \in Samples : x[s] <= events[q.window][s]
                /\ q = CalculateMetrics(None, q.window, x)
<1> DEFINE since == now - (BaselineWindows + 1 + SlackMinutes) * TicksPerMinute
           d == DetectionRows
           W == {r.window : r \in DOMAIN d}
<1>1. now \in Int /\ RowBag(rows) /\ ServiceParts(rows, events, now)
  BY TypesAre DEF IInv
<1>2. RowBag(d)
  BY <1>1, AggregatesAreRows DEF DetectionRows
<1>3. DOMAIN d = Found(rows, None, since)
  BY AggregatesAre DEF DetectionRows
<1>4. q \in DOMAIN rows /\ q.endpoint = None
  BY <1>3 DEF Found
<1>5. \A r \in DOMAIN d : r \in Row /\ r.window \in Minutes /\ r.window \in Nat
  BY <1>2, RowHas, MinutesAre DEF RowBag, BagOver
<1>6. Min(W) \in Nat /\ Min(W) <= q.window
  <2>1. W \in SUBSET Nat /\ q.window \in W
    BY <1>5
  <2> HIDE DEF W
  <2> QED
    BY <2>1, LeastIs
<1>7. q.window * TicksPerMinute <= now
  BY <1>1, <1>4 DEF ServiceParts
<1>8. MinuteOf(now) \in Int /\ q.window <= MinuteOf(now)
  <2>1. /\ MinuteOf(now) \in Int
        /\ q.window > MinuteOf(now) => q.window >= MinuteOf(now) + 1
    BY <1>1, <1>5, MinuteIs
  <2>2. q.window >= MinuteOf(now) + 1 => q.window * TicksPerMinute > now
    BY <1>1, <1>5, <2>1, MinuteAfter
  <2>3. q.window * TicksPerMinute \in Int
    BY <1>5, MinutesAre
  <2> QED
    BY <1>1, <1>5, <1>7, <2>1, <2>2, <2>3
<1> QED
  BY <1>1, <1>4, <1>5, <1>6, <1>8 DEF ServiceParts

(* Of the same telemetry, the values do not depend on the minute.            *)
LEMMA SameRow ==
    ASSUME NEW metric \in MetricNames, NEW m, NEW n, NEW x
    PROVE  Value(metric, CalculateMetrics(None, m, x)) = Value(metric, CalculateMetrics(None, n, x))
<1> DEFINE C(k) == CalculateMetrics(None, k, x)
<1>1. C(m).requests = C(n).requests /\ C(m).errors = C(n).errors /\ C(m).p95 = C(n).p95
  BY DEF CalculateMetrics
<1> HIDE DEF C
<1>2. ErrorRate(C(m)) = ErrorRate(C(n))
  BY <1>1 DEF ErrorRate
<1>3. Value(metric, C(m)) = Value(metric, C(n))
  BY <1>1, <1>2 DEF Value, MetricNames
<1> QED
  BY <1>3 DEF C

(* If traffic was the same in every minute of the rows that are compared, a  *)
(* metric raises a statistical alarm only because one of those rows, written *)
(* before the last request of its minute was stored, lacks some of them and  *)
(* so has another value of that metric than the whole traffic.               *)
THEOREM SteadyAlarmsArePartial == Spec => SteadyAlarmsComeFromPartialRows
<1>1. ASSUME IInv, Next, verdict' # None, NEW metric \in verdict'.metrics,
             NEW traffic \in {events[m] : m \in Minutes}, Steady(traffic)
      PROVE  \E r \in DOMAIN DetectionRows : Partial(metric, traffic, r)
  <2> SUFFICES ASSUME \A q \in DOMAIN DetectionRows : ~ Partial(metric, traffic, q)
               PROVE  FALSE
    OBVIOUS
  <2>1. PICK r \in LastRows : verdict'.metrics = Triggered(Baseline(r), r)
    BY <1>1, VerdictIsDetection
  <2> DEFINE b == Baseline(r)
             whole(q) == CalculateMetrics(None, q.window, traffic)
  <2>2. /\ r \in Row /\ r \in DOMAIN DetectionRows
        /\ RowBag(b) /\ DOMAIN b \subseteq DOMAIN DetectionRows
    BY <1>1, BaselineIs DEF IInv
  <2>3. metric \in Triggered(b, r) /\ metric \in MetricNames
    BY <1>1, <2>1 DEF Triggered
  <2>4. events \in Telemetry /\ now \in Int /\ traffic \in [Samples -> Nat]
    <3>1. events \in Telemetry /\ now \in Int
      BY <1>1, TypesAre DEF IInv
    <3> QED
      BY <1>1, <3>1, TelemetryIs
  <2>5. ASSUME NEW q \in DOMAIN DetectionRows
        PROVE  Value(metric, q) = Value(metric, whole(q))
    <3> DEFINE first == Min({p.window : p \in DOMAIN DetectionRows})
    <3>1. /\ q \in Row /\ q.endpoint = None
          /\ q.window \in Minutes /\ q.window \in first..MinuteOf(now)
      BY <1>1, ComparedAre
    <3>2. PICK x \in [Samples -> Nat] :
            /\ \A s \in Samples : x[s] <= events[q.window][s]
            /\ q = CalculateMetrics(None, q.window, x)
      BY <1>1, ComparedAre
    <3>3. \A s \in Samples : events[q.window][s] <= traffic[s]
      <4>1. MinuteOf(now) \in Int
        BY <2>4, MinuteIs
      <4>2. /\ \A m \in first..(MinuteOf(now) - 1) : events[m] = traffic
            /\ \A s \in Samples : events[MinuteOf(now)][s] <= traffic[s]
        BY <1>1 DEF Steady
      <4>3. CASE q.window = MinuteOf(now)
        BY <4>2, <4>3
      <4>4. CASE q.window # MinuteOf(now)
        <5> HIDE DEF first
        <5>1. q.window \in first..(MinuteOf(now) - 1)
          BY <3>1, <4>1, <4>4
        <5> QED
          BY <2>4, <4>2, <5>1
      <4> QED
        BY <4>3, <4>4
    <3>4. \A s \in Samples : x[s] <= traffic[s]
      <4> SUFFICES ASSUME NEW s \in Samples PROVE x[s] <= traffic[s]
        OBVIOUS
      <4>1. x[s] \in Nat /\ events[q.window][s] \in Nat /\ traffic[s] \in Nat
        BY <2>4, <3>1, <3>2, PartOfSize
      <4> QED
        BY <3>2, <3>3, <4>1
    <3>5. /\ Total(x) \in Nat /\ Total(traffic) \in Nat /\ Total(x) <= Total(traffic)
          /\ Total(x) = Total(traffic) => x = traffic
      BY <2>4, <3>2, <3>4, PartIs
    <3>6. q.requests = Total(x)
      <4> DEFINE C == CalculateMetrics(None, q.window, x)
      <4>1. C.requests = Total(x)
        BY DEF CalculateMetrics
      <4> HIDE DEF C
      <4> QED
        BY <3>2, <4>1 DEF C
    <3>7. CASE Total(x) = Total(traffic)
      BY <3>2, <3>5, <3>7
    <3>8. CASE Total(x) < Total(traffic)
      BY <3>1, <3>6, <3>8 DEF Partial
    <3> QED
      BY <3>5, <3>7, <3>8
  <2>6. \A q \in DOMAIN b : Value(metric, q) = Value(metric, r)
    BY <2>2, <2>3, <2>5, SameRow
  <2> QED
    BY <2>2, <2>3, <2>6, AlikeIsQuiet
<1>2. IInv /\ [Next]_vars =>
        [verdict' # None =>
           \A metric \in verdict'.metrics, traffic \in {events[m] : m \in Minutes} :
             Steady(traffic) =>
               \E r \in DOMAIN DetectionRows : Partial(metric, traffic, r)]_vars
  BY <1>1
<1> QED
  BY AlwaysHolds, <1>2, PTL DEF Spec, SteadyAlarmsComeFromPartialRows
=============================================================================
