-------------------------------- MODULE Sums --------------------------------
(***************************************************************************)
(* What the proofs need to know of a sum over a finite set.  The models    *)
(* add quantities and amounts with SumFunction of the community modules, a *)
(* recursion over the subsets of the function's domain; the facts below    *)
(* (a sum exists, one term split off, one term changed, sums added and     *)
(* compared) hold for every function from a finite set to the integers.    *)
(* Each induction is an argument on a smallest counterexample among the    *)
(* subsets of the domain.                                                  *)
(***************************************************************************)
EXTENDS Integers, Functions, FiniteSetTheorems, WellFoundedInduction, TLAPS

(* The element the recursion of SumFunction takes from a set. *)
Some(s) == CHOOSE x \in s : TRUE

(* g is the table of the sums of f over the subsets of S. *)
Partial(f, g, S) ==
    g = [s \in SUBSET S |-> IF s = {} THEN 0 ELSE f[Some(s)] + g[s \ {Some(s)}]]

(* SumFunction reads such a table at the whole domain. *)
LEMMA Unfold ==
  ASSUME NEW f
  PROVE  SumFunction(f) = (CHOOSE g : Partial(f, g, DOMAIN f))[DOMAIN f]
BY DEF SumFunction, SumFunctionOnSet, FoldFunctionOnSet, MapThenFoldSet, Partial, Some

(* Among sets of subsets of a finite set there is a smallest. *)
LEMMA Minimal ==
  ASSUME NEW S, IsFiniteSet(S), NEW B \in SUBSET SUBSET S, B # {}
  PROVE  \E T \in B : \A U \in B : U \subseteq T => U = T
<1>1. IsWellFoundedOn(StrictSubsetOrdering(S), SUBSET S)
  BY FS_StrictSubsetOrderingWellFounded, FS_FiniteSubsetsOfFinite
<1>2. PICK T \in B : \A U \in B : <<U, T>> \notin StrictSubsetOrdering(S)
  BY <1>1, WFMin
<1>. QED
  BY <1>2 DEF StrictSubsetOrdering

LEMMA SomeIn ==
  ASSUME NEW s, s # {}
  PROVE  Some(s) \in s
BY DEF Some

(* One row of a table. *)
LEMMA Row ==
  ASSUME NEW f, NEW g, NEW S, Partial(f, g, S), NEW s \in SUBSET S
  PROVE  g[s] = IF s = {} THEN 0 ELSE f[Some(s)] + g[s \ {Some(s)}]
BY DEF Partial

(* Two tables of functions that agree are equal where both are defined. *)
LEMMA Agree ==
  ASSUME NEW S, IsFiniteSet(S), NEW T, NEW f, NEW h, NEW g, NEW k,
         S \subseteq T, Partial(f, g, S), Partial(h, k, T),
         \A x \in S : f[x] = h[x]
  PROVE  \A s \in SUBSET S : g[s] = k[s]
<1>. DEFINE B == {s \in SUBSET S : g[s] # k[s]}
<1>1. SUFFICES ASSUME B # {} PROVE FALSE
  OBVIOUS
<1>2. PICK s \in B : \A u \in B : u \subseteq s => u = s
  <2>1. B \in SUBSET SUBSET S
    OBVIOUS
  <2>. HIDE DEF B
  <2>. QED
    BY <1>1, <2>1, Minimal
<1>3. s # {}
  BY <1>2, Row
<1>. DEFINE u == s \ {Some(s)}
<1>4. Some(s) \in s /\ u # s /\ u \subseteq s
  BY <1>3, SomeIn
<1>5. g[u] = k[u]
  BY <1>2, <1>4
<1>6. g[s] = f[Some(s)] + g[u]
  <2>1. s \in SUBSET S
    BY <1>2
  <2>2. g[s] = IF s = {} THEN 0 ELSE f[Some(s)] + g[s \ {Some(s)}]
    BY <2>1, Row
  <2>. QED
    BY <2>2, <1>3
<1>7. k[s] = h[Some(s)] + k[u]
  <2>1. s \in SUBSET T
    BY <1>2
  <2>2. k[s] = IF s = {} THEN 0 ELSE h[Some(s)] + k[s \ {Some(s)}]
    BY <2>1, Row
  <2>. QED
    BY <2>2, <1>3
<1>8. f[Some(s)] = h[Some(s)]
  BY <1>4
<1>. QED
  BY <1>2, <1>5, <1>6, <1>7, <1>8

(* Every function on a finite set has a table. *)
LEMMA Exists ==
  ASSUME NEW S, IsFiniteSet(S), NEW f
  PROVE  \E g : Partial(f, g, S)
<1>. DEFINE B == {T \in SUBSET S : ~ \E g : Partial(f, g, T)}
<1>1. SUFFICES ASSUME B # {} PROVE FALSE
  OBVIOUS
<1>2. PICK T \in B : \A U \in B : U \subseteq T => U = T
  <2>1. B \in SUBSET SUBSET S
    OBVIOUS
  <2>. HIDE DEF B
  <2>. QED
    BY <1>1, <2>1, Minimal
<1>. DEFINE G(u) == CHOOSE g : Partial(f, g, u)
            w == [s \in SUBSET T |->
                    IF s = {} THEN 0
                    ELSE f[Some(s)] + G(s \ {Some(s)})[s \ {Some(s)}]]
<1>3. ASSUME NEW u \in SUBSET T, u # T
      PROVE  Partial(f, G(u), u)
  <2>1. \E g : Partial(f, g, u)
    BY <1>2, <1>3
  <2>. QED
    BY <2>1
<1>4. ASSUME NEW u \in SUBSET T, u # T
      PROVE  w[u] = G(u)[u]
  <2>1. Partial(f, G(u), u)
    BY <1>3, <1>4
  <2>. HIDE DEF G
  <2>2. CASE u = {}
    BY <2>1, <2>2, Row
  <2>3. CASE u # {}
    <3>. DEFINE v == u \ {Some(u)}
    <3>1. Some(u) \in u
      BY <2>3, SomeIn
    <3>2. v \in SUBSET T /\ v # T /\ v \subseteq u /\ IsFiniteSet(v)
      BY <3>1, <1>2, FS_Subset
    <3>3. Partial(f, G(v), v)
      BY <1>3, <3>2
    <3>4. G(v)[v] = G(u)[v]
      <4>. HIDE DEF v
      <4>. QED
        BY <3>2, <3>3, <2>1, Agree
    <3>5. G(u)[u] = f[Some(u)] + G(u)[v]
      BY <2>1, <2>3, Row
    <3>. QED
      BY <3>4, <3>5, <2>3
  <2>. QED
    BY <2>2, <2>3
<1>5. Partial(f, w, T)
  <2>1. ASSUME NEW s \in SUBSET T, s # {}
        PROVE  w[s \ {Some(s)}] = G(s \ {Some(s)})[s \ {Some(s)}]
    BY <2>1, <1>4, SomeIn
  <2>2. w = [s \in SUBSET T |-> IF s = {} THEN 0 ELSE f[Some(s)] + w[s \ {Some(s)}]]
    <3>. HIDE DEF G
    <3>. QED
      BY <2>1
  <2>. QED
    BY <2>2 DEF Partial
<1>. QED
  BY <1>2, <1>5

-----------------------------------------------------------------------------
(* The table a sum is read from, for a function to the integers: every sum
   of a subset is an integer, and any element can be the one split off. *)
SumTable(f, g, S) ==
    /\ g[{}] = 0
    /\ \A s \in SUBSET S : SumFunction([i \in s |-> f[i]]) = g[s]
    /\ \A s \in SUBSET S : g[s] \in Int
    /\ \A s \in SUBSET S : \A x \in s : g[s] = f[x] + g[s \ {x}]

LEMMA Table ==
  ASSUME NEW S, IsFiniteSet(S), NEW f \in [S -> Int]
  PROVE  \E g : SumTable(f, g, S)
<1>1. PICK g : Partial(f, g, S)
  BY Exists
<1>2. g[{}] = 0
  BY <1>1, Row
<1>3. ASSUME NEW s \in SUBSET S
      PROVE  SumFunction([i \in s |-> f[i]]) = g[s]
  <2>. DEFINE h == [i \in s |-> f[i]]
              k == CHOOSE k : Partial(h, k, s)
  <2>1. SumFunction(h) = k[s]
    <3>1. DOMAIN h = s
      OBVIOUS
    <3>. HIDE DEF h
    <3>. QED
      BY <3>1, Unfold
  <2>2. IsFiniteSet(s)
    BY FS_Subset
  <2>3. Partial(h, k, s)
    <3>. HIDE DEF h
    <3>. QED
      BY <2>2, Exists
  <2>4. \A x \in s : h[x] = f[x]
    OBVIOUS
  <2>. HIDE DEF h, k
  <2>5. \A u \in SUBSET s : k[u] = g[u]
    BY <2>2, <2>3, <2>4, <1>1, Agree
  <2>6. SumFunction(h) = g[s]
    BY <2>1, <2>5
  <2>. QED
    BY <2>6 DEF h
<1>4. ASSUME NEW s \in SUBSET S, s # {}
      PROVE  Some(s) \in s /\ g[s] = f[Some(s)] + g[s \ {Some(s)}]
  <2>1. g[s] = IF s = {} THEN 0 ELSE f[Some(s)] + g[s \ {Some(s)}]
    BY <1>1, Row
  <2>. QED
    BY <2>1, <1>4, SomeIn
<1>5. \A s \in SUBSET S : g[s] \in Int
  <2>. DEFINE B == {s \in SUBSET S : g[s] \notin Int}
  <2>1. SUFFICES ASSUME B # {} PROVE FALSE
    OBVIOUS
  <2>2. PICK s \in B : \A u \in B : u \subseteq s => u = s
    <3>1. B \in SUBSET SUBSET S
      OBVIOUS
    <3>. HIDE DEF B
    <3>. QED
      BY <2>1, <3>1, Minimal
  <2>3. s \in SUBSET S /\ g[s] \notin Int
    BY <2>2
  <2>4. \A u \in SUBSET S : u \subseteq s /\ u # s => g[u] \in Int
    BY <2>2
  <2>. HIDE DEF B
  <2>5. s # {}
    BY <2>3, <1>2
  <2>. DEFINE y == Some(s)
  <2>6. y \in s /\ g[s] = f[y] + g[s \ {y}]
    BY <2>3, <2>5, <1>4
  <2>. HIDE DEF y
  <2>7. g[s \ {y}] \in Int /\ f[y] \in Int
    BY <2>3, <2>4, <2>6
  <2>. QED
    BY <2>3, <2>6, <2>7
<1>6. \A s \in SUBSET S : \A x \in s : g[s] = f[x] + g[s \ {x}]
  <2>. DEFINE B == {s \in SUBSET S : \E x \in s : g[s] # f[x] + g[s \ {x}]}
  <2>1. SUFFICES ASSUME B # {} PROVE FALSE
    OBVIOUS
  <2>2. PICK s \in B : \A u \in B : u \subseteq s => u = s
    <3>1. B \in SUBSET SUBSET S
      OBVIOUS
    <3>. HIDE DEF B
    <3>. QED
      BY <2>1, <3>1, Minimal
  <2>3. PICK x \in s : g[s] # f[x] + g[s \ {x}]
    BY <2>2
  <2>. DEFINE y == Some(s)
  <2>4. y \in s /\ g[s] = f[y] + g[s \ {y}] /\ s \in SUBSET S
    BY <2>2, <2>3, <1>4
  <2>5. x # y
    BY <2>3, <2>4
  <2>. HIDE DEF y
  <2>6. g[s \ {y}] = f[x] + g[(s \ {y}) \ {x}]
    BY <2>2, <2>4, <2>5
  <2>7. g[s \ {x}] = f[y] + g[(s \ {x}) \ {y}]
    BY <2>2, <2>4, <2>5
  <2>8. (s \ {x}) \ {y} = (s \ {y}) \ {x}
    OBVIOUS
  <2>9. f[x] \in Int /\ f[y] \in Int /\ g[(s \ {x}) \ {y}] \in Int
    BY <2>4, <1>5
  <2>10. f[x] + (f[y] + g[(s \ {x}) \ {y}]) = f[y] + (f[x] + g[(s \ {x}) \ {y}])
    BY <2>9
  <2>. QED
    BY <2>3, <2>4, <2>6, <2>7, <2>8, <2>9, <2>10
<1>. QED
  BY <1>2, <1>3, <1>5, <1>6 DEF SumTable

(* A sum of integers is an integer. *)
LEMMA SumType ==
  ASSUME NEW S, IsFiniteSet(S), NEW f \in [S -> Int]
  PROVE  SumFunction(f) \in Int
<1>1. PICK g : SumTable(f, g, S)
  BY Table
<1>2. f = [i \in S |-> f[i]]
  OBVIOUS
<1>. QED
  BY <1>1, <1>2 DEF SumTable

(* The empty sum is zero. *)
LEMMA SumEmpty ==
  ASSUME NEW f \in [{} -> Int]
  PROVE  SumFunction(f) = 0
<1>1. IsFiniteSet({})
  BY FS_EmptySet
<1>2. PICK g : SumTable(f, g, {})
  BY <1>1, Table
<1>3. f = [i \in {} |-> f[i]]
  OBVIOUS
<1>. QED
  BY <1>2, <1>3 DEF SumTable

(* Any term can be split off. *)
LEMMA SumSplit ==
  ASSUME NEW S, IsFiniteSet(S), NEW f \in [S -> Int], NEW x \in S
  PROVE  SumFunction(f) = f[x] + SumFunction([i \in S \ {x} |-> f[i]])
<1>1. PICK g : SumTable(f, g, S)
  BY Table
<1>2. f = [i \in S |-> f[i]]
  OBVIOUS
<1>3. g[S] = f[x] + g[S \ {x}]
  BY <1>1 DEF SumTable
<1>4. SumFunction([i \in S \ {x} |-> f[i]]) = g[S \ {x}]
  BY <1>1 DEF SumTable
<1>5. SumFunction(f) = g[S]
  BY <1>1, <1>2 DEF SumTable
<1>. QED
  BY <1>3, <1>4, <1>5

(* A sum over one more element. *)
LEMMA SumExtend ==
  ASSUME NEW S, IsFiniteSet(S), NEW x, x \notin S,
         NEW f \in [S \cup {x} -> Int], NEW g \in [S -> Int],
         \A i \in S : f[i] = g[i]
  PROVE  SumFunction(f) = SumFunction(g) + f[x]
<1>1. IsFiniteSet(S \cup {x})
  BY FS_AddElement
<1>2. SumFunction(f) = f[x] + SumFunction([i \in (S \cup {x}) \ {x} |-> f[i]])
  BY <1>1, SumSplit
<1>3. g = [i \in (S \cup {x}) \ {x} |-> f[i]]
  BY Zenon
<1>4. SumFunction(g) \in Int /\ f[x] \in Int
  BY SumType
<1>. QED
  BY <1>2, <1>3, <1>4

(* A sum of which one term changes. *)
LEMMA SumChange ==
  ASSUME NEW S, IsFiniteSet(S), NEW f \in [S -> Int], NEW g \in [S -> Int],
         NEW x \in S, \A i \in S \ {x} : g[i] = f[i]
  PROVE  SumFunction(g) = SumFunction(f) - f[x] + g[x]
<1>. DEFINE r == [i \in S \ {x} |-> f[i]]
<1>1. r = [i \in S \ {x} |-> g[i]]
  OBVIOUS
<1>2. SumFunction(f) = f[x] + SumFunction(r)
  BY SumSplit
<1>3. SumFunction(g) = g[x] + SumFunction(r)
  <2>1. SumFunction(g) = g[x] + SumFunction([i \in S \ {x} |-> g[i]])
    BY SumSplit
  <2>. QED
    BY <1>1, <2>1
<1>4. SumFunction(r) \in Int /\ f[x] \in Int /\ g[x] \in Int
  <2>1. IsFiniteSet(S \ {x}) /\ r \in [S \ {x} -> Int]
    BY FS_Subset
  <2>. QED
    BY <2>1, SumType
<1>. QED
  BY <1>2, <1>3, <1>4

(* The sum of the terms of two functions is the sum of their sums. *)
LEMMA SumAdd ==
  ASSUME NEW S, IsFiniteSet(S), NEW f \in [S -> Int], NEW g \in [S -> Int]
  PROVE  SumFunction([i \in S |-> f[i] + g[i]]) = SumFunction(f) + SumFunction(g)
<1>. DEFINE h == [i \in S |-> f[i] + g[i]]
<1>1. PICK F : SumTable(f, F, S)
  BY Table
<1>2. PICK G : SumTable(g, G, S)
  BY Table
<1>3. PICK H : SumTable(h, H, S)
  <2>1. h \in [S -> Int]
    OBVIOUS
  <2>. HIDE DEF h
  <2>. QED
    BY <2>1, Table
<1>. DEFINE B == {s \in SUBSET S : H[s] # F[s] + G[s]}
<1>4. B = {}
  <2>1. SUFFICES ASSUME B # {} PROVE FALSE
    OBVIOUS
  <2>2. PICK s \in B : \A u \in B : u \subseteq s => u = s
    <3>1. B \in SUBSET SUBSET S
      OBVIOUS
    <3>. HIDE DEF B
    <3>. QED
      BY <2>1, <3>1, Minimal
  <2>3. s \in SUBSET S /\ H[s] # F[s] + G[s]
    BY <2>2
  <2>4. \A u \in SUBSET S : u \subseteq s /\ u # s => H[u] = F[u] + G[u]
    BY <2>2
  <2>. HIDE DEF B
  <2>5. s # {}
    <3>1. F[{}] = 0 /\ G[{}] = 0 /\ H[{}] = 0
      BY <1>1, <1>2, <1>3 DEF SumTable
    <3>2. H[{}] = F[{}] + G[{}]
      BY <3>1
    <3>. QED
      BY <2>3, <3>2
  <2>6. PICK x \in s : TRUE
    BY <2>5
  <2>. DEFINE u == s \ {x}
  <2>7. u \in SUBSET S /\ H[u] = F[u] + G[u]
    BY <2>3, <2>4, <2>6
  <2>8. h[x] = f[x] + g[x] /\ f[x] \in Int /\ g[x] \in Int
    BY <2>3, <2>6
  <2>. HIDE DEF h
  <2>9. H[s] = h[x] + H[u] /\ F[s] = f[x] + F[u] /\ G[s] = g[x] + G[u]
    BY <2>3, <2>6, <1>1, <1>2, <1>3 DEF SumTable
  <2>10. F[u] \in Int /\ G[u] \in Int
    BY <2>7, <1>1, <1>2 DEF SumTable
  <2>. HIDE DEF u
  <2>. QED
    BY <2>3, <2>7, <2>8, <2>9, <2>10
<1>5. H[S] = F[S] + G[S]
  BY <1>4
<1>6. f = [i \in S |-> f[i]] /\ g = [i \in S |-> g[i]] /\ h = [i \in S |-> h[i]]
  OBVIOUS
<1>7. SumFunction(f) = F[S] /\ SumFunction(g) = G[S]
  BY <1>1, <1>2, <1>6 DEF SumTable
<1>8. SumFunction(h) = H[S]
  <2>. HIDE DEF h
  <2>. QED
    BY <1>3, <1>6 DEF SumTable
<1>. QED
  BY <1>5, <1>7, <1>8

(* A sum whose terms are not below those of another is not below it. *)
LEMMA SumMonotone ==
  ASSUME NEW S, IsFiniteSet(S), NEW f \in [S -> Int], NEW g \in [S -> Int],
         \A i \in S : f[i] =< g[i]
  PROVE  SumFunction(f) =< SumFunction(g)
<1>1. PICK F : SumTable(f, F, S)
  BY Table
<1>2. PICK G : SumTable(g, G, S)
  BY Table
<1>. DEFINE B == {s \in SUBSET S : ~ (F[s] =< G[s])}
<1>4. B = {}
  <2>1. SUFFICES ASSUME B # {} PROVE FALSE
    OBVIOUS
  <2>2. PICK s \in B : \A u \in B : u \subseteq s => u = s
    <3>1. B \in SUBSET SUBSET S
      OBVIOUS
    <3>. HIDE DEF B
    <3>. QED
      BY <2>1, <3>1, Minimal
  <2>3. s \in SUBSET S /\ ~ (F[s] =< G[s])
    BY <2>2
  <2>4. \A u \in SUBSET S : u \subseteq s /\ u # s => F[u] =< G[u]
    BY <2>2
  <2>. HIDE DEF B
  <2>5. s # {}
    <3>1. F[{}] = 0 /\ G[{}] = 0
      BY <1>1, <1>2 DEF SumTable
    <3>. QED
      BY <2>3, <3>1
  <2>6. PICK x \in s : TRUE
    BY <2>5
  <2>. DEFINE u == s \ {x}
  <2>7. u \in SUBSET S /\ F[u] =< G[u]
    BY <2>3, <2>4, <2>6
  <2>8. f[x] =< g[x] /\ f[x] \in Int /\ g[x] \in Int
    BY <2>3, <2>6
  <2>9. F[s] = f[x] + F[u] /\ G[s] = g[x] + G[u]
    BY <2>3, <2>6, <1>1, <1>2 DEF SumTable
  <2>10. F[u] \in Int /\ G[u] \in Int
    BY <2>7, <1>1, <1>2 DEF SumTable
  <2>. HIDE DEF u
  <2>. QED
    BY <2>3, <2>7, <2>8, <2>9, <2>10
<1>5. F[S] =< G[S]
  BY <1>4
<1>6. f = [i \in S |-> f[i]] /\ g = [i \in S |-> g[i]]
  OBVIOUS
<1>. QED
  BY <1>1, <1>2, <1>5, <1>6 DEF SumTable

(* A sum of zeros is zero. *)
LEMMA SumZero ==
  ASSUME NEW S, IsFiniteSet(S), NEW f \in [S -> Int], \A i \in S : f[i] = 0
  PROVE  SumFunction(f) = 0
<1>. DEFINE s == SumFunction(f)
<1>1. f = [i \in S |-> f[i] + f[i]]
  OBVIOUS
<1>2. s \in Int
  BY SumType
<1>3. s = s + s
  BY <1>1, SumAdd
<1>. HIDE DEF s
<1>4. s = 0
  BY <1>2, <1>3
<1>. QED
  BY <1>4 DEF s

(* A sum of natural numbers is one, and not below any of its terms. *)
LEMMA SumNat ==
  ASSUME NEW S, IsFiniteSet(S), NEW f \in [S -> Nat]
  PROVE  SumFunction(f) \in Nat /\ \A x \in S : f[x] =< SumFunction(f)
<1>1. ASSUME NEW T, IsFiniteSet(T), NEW h \in [T -> Nat]
      PROVE  SumFunction(h) \in Nat
  <2>. DEFINE z == [i \in T |-> 0]
  <2>1. z \in [T -> Int] /\ h \in [T -> Int] /\ \A i \in T : z[i] = 0 /\ z[i] =< h[i]
    OBVIOUS
  <2>. HIDE DEF z
  <2>2. SumFunction(z) = 0
    BY <1>1, <2>1, SumZero
  <2>3. SumFunction(z) =< SumFunction(h)
    BY <1>1, <2>1, SumMonotone
  <2>4. SumFunction(h) \in Int
    BY <1>1, <2>1, SumType
  <2>. QED
    BY <2>2, <2>3, <2>4
<1>2. ASSUME NEW x \in S
      PROVE  f[x] =< SumFunction(f)
  <2>. DEFINE r == [i \in S \ {x} |-> f[i]]
  <2>1. f \in [S -> Int] /\ f[x] \in Nat
    OBVIOUS
  <2>2. SumFunction(f) = f[x] + SumFunction(r)
    BY <2>1, SumSplit
  <2>3. IsFiniteSet(S \ {x}) /\ r \in [S \ {x} -> Nat]
    BY FS_Subset
  <2>. HIDE DEF r
  <2>4. SumFunction(r) \in Nat
    BY <2>3, <1>1
  <2>. QED
    BY <2>1, <2>2, <2>4
<1>. QED
  BY <1>1, <1>2

(* Terms that are zero may be left out of a sum. *)
LEMMA SumSupport ==
  ASSUME NEW S, IsFiniteSet(S), NEW f \in [S -> Int],
         NEW T \in SUBSET S, \A i \in S \ T : f[i] = 0
  PROVE  SumFunction([i \in T |-> f[i]]) = SumFunction(f)
<1>1. PICK F : SumTable(f, F, S)
  BY Table
<1>. DEFINE B == {s \in SUBSET S : F[s] # F[s \cap T]}
<1>2. B = {}
  <2>1. SUFFICES ASSUME B # {} PROVE FALSE
    OBVIOUS
  <2>2. PICK s \in B : \A u \in B : u \subseteq s => u = s
    <3>1. B \in SUBSET SUBSET S
      OBVIOUS
    <3>. HIDE DEF B
    <3>. QED
      BY <2>1, <3>1, Minimal
  <2>3. s \in SUBSET S /\ F[s] # F[s \cap T]
    BY <2>2
  <2>4. \A u \in SUBSET S : u \subseteq s /\ u # s => F[u] = F[u \cap T]
    BY <2>2
  <2>. HIDE DEF B
  <2>5. PICK x \in s : x \notin T
    <3>1. s # s \cap T
      BY <2>3
    <3>. QED
      BY <3>1
  <2>. DEFINE u == s \ {x}
  <2>6. u \in SUBSET S /\ u \subseteq s /\ u # s /\ u \cap T = s \cap T
    BY <2>3, <2>5
  <2>7. f[x] = 0
    BY <2>3, <2>5
  <2>8. F[s] = f[x] + F[u] /\ F[u] \in Int
    BY <2>3, <2>5, <2>6, <1>1 DEF SumTable
  <2>. HIDE DEF u
  <2>. QED
    BY <2>3, <2>4, <2>6, <2>7, <2>8
<1>3. F[S] = F[T]
  <2>1. S \cap T = T
    OBVIOUS
  <2>. QED
    BY <1>2, <2>1
<1>4. f = [i \in S |-> f[i]]
  OBVIOUS
<1>. QED
  BY <1>1, <1>3, <1>4 DEF SumTable

(* A sum of natural numbers is not below that of some of its terms. *)
LEMMA SumSubset ==
  ASSUME NEW S, IsFiniteSet(S), NEW f \in [S -> Nat], NEW T \in SUBSET S
  PROVE  SumFunction([i \in T |-> f[i]]) =< SumFunction(f)
<1>. DEFINE h == [i \in S |-> IF i \in T THEN f[i] ELSE 0]
<1>1. /\ h \in [S -> Int] /\ f \in [S -> Int]
      /\ \A i \in S \ T : h[i] = 0
      /\ \A i \in S : h[i] =< f[i]
  OBVIOUS
<1>2. [i \in T |-> f[i]] = [i \in T |-> h[i]]
  OBVIOUS
<1>. HIDE DEF h
<1>3. SumFunction([i \in T |-> h[i]]) = SumFunction(h)
  BY <1>1, SumSupport
<1>4. SumFunction(h) =< SumFunction(f)
  BY <1>1, SumMonotone
<1>. QED
  BY <1>2, <1>3, <1>4

(* A sum of terms up to q is at most q for each of them. *)
LEMMA SumBound ==
  ASSUME NEW S, IsFiniteSet(S), NEW f \in [S -> Int], NEW q \in Nat,
         \A i \in S : f[i] =< q
  PROVE  SumFunction(f) =< Cardinality(S) * q
<1>1. PICK F : SumTable(f, F, S)
  BY Table
<1>. DEFINE B == {s \in SUBSET S : ~ (F[s] =< Cardinality(s) * q)}
<1>2. B = {}
  <2>1. SUFFICES ASSUME B # {} PROVE FALSE
    OBVIOUS
  <2>2. PICK s \in B : \A u \in B : u \subseteq s => u = s
    <3>1. B \in SUBSET SUBSET S
      OBVIOUS
    <3>. HIDE DEF B
    <3>. QED
      BY <2>1, <3>1, Minimal
  <2>3. s \in SUBSET S /\ ~ (F[s] =< Cardinality(s) * q)
    BY <2>2
  <2>4. \A u \in SUBSET S : u \subseteq s /\ u # s => F[u] =< Cardinality(u) * q
    BY <2>2
  <2>. HIDE DEF B
  <2>5. s # {}
    <3>1. F[{}] = 0
      BY <1>1 DEF SumTable
    <3>2. Cardinality({}) = 0
      BY FS_EmptySet
    <3>3. F[{}] =< Cardinality({}) * q
      BY <3>1, <3>2
    <3>. QED
      BY <2>3, <3>3
  <2>6. PICK x \in s : TRUE
    BY <2>5
  <2>. DEFINE u == s \ {x}
              c == Cardinality(u)
  <2>7. u \in SUBSET S /\ F[u] =< c * q
    BY <2>3, <2>4, <2>6
  <2>8. f[x] =< q /\ f[x] \in Int
    BY <2>3, <2>6
  <2>9. F[s] = f[x] + F[u]
    BY <2>3, <2>6, <1>1 DEF SumTable
  <2>10. F[u] \in Int
    BY <2>7, <1>1 DEF SumTable
  <2>11. c \in Nat /\ Cardinality(s) = c + 1
    <3>1. IsFiniteSet(s)
      BY <2>3, FS_Subset
    <3>2. IsFiniteSet(u) /\ Cardinality(u) = Cardinality(s) - 1
      BY <3>1, <2>6, FS_RemoveElement
    <3>. QED
      BY <3>1, <3>2, FS_CardinalityType
  <2>. HIDE DEF u, c
  <2>12. (c + 1) * q = c * q + q
    BY <2>11
  <2>13. c * q \in Int
    BY <2>11
  <2>14. F[s] =< c * q + q
    BY <2>7, <2>8, <2>9, <2>10, <2>13
  <2>. QED
    BY <2>3, <2>11, <2>12, <2>14
<1>3. F[S] =< Cardinality(S) * q
  BY <1>2
<1>4. f = [i \in S |-> f[i]]
  OBVIOUS
<1>. QED
  BY <1>1, <1>3, <1>4 DEF SumTable

(* The sum over the elements of a sequence, one more appended. *)
LEMMA SumAppend ==
  ASSUME NEW n \in Nat, NEW f \in [1..n -> Int], NEW g \in [1..n + 1 -> Int],
         \A i \in 1..n : g[i] = f[i]
  PROVE  SumFunction(g) = SumFunction(f) + g[n + 1]
<1>1. IsFiniteSet(1..n)
  BY FS_Interval
<1>. DEFINE S == 1..n
            x == n + 1
<1>2. 1..n + 1 = S \cup {x} /\ x \notin S
  OBVIOUS
<1>3. f \in [S -> Int] /\ g \in [S \cup {x} -> Int] /\ \A i \in S : g[i] = f[i]
  BY <1>2
<1>. HIDE DEF S, x
<1>4. SumFunction(g) = SumFunction(f) + g[x]
  BY <1>1, <1>2, <1>3, SumExtend DEF S
<1>. QED
  BY <1>4 DEF x
=============================================================================
