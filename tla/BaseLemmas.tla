----------------------------- MODULE BaseLemmas -----------------------------
(***************************************************************************)
(* Facts the proofs of all parts rest on: natural numbers, counting, sums  *)
(* over finite sets and functions defined by recursion; then lists, and    *)
(* the levels and the reachable nodes of directed graphs.                  *)
(***************************************************************************)
EXTENDS Digraphs, Partitions, FiniteSetsExt, FiniteSetTheorems, SequenceTheorems,
        WellFoundedInduction, TLAPS

(* A set of naturals has a least element, and Min returns it: the name a   *)
(* class of nodes gets in the model exists.                                *)
LEMMA MinOfNat ==
  ASSUME NEW S, S \subseteq Nat, S # {}
  PROVE  Min(S) \in S /\ \A y \in S : Min(S) <= y
<1>1. PICK x \in S : TRUE
  OBVIOUS
<1> DEFINE T == {0 .. y : y \in {z \in S : z <= x}}
<1>2. IsWellFoundedOn(StrictSubsetOrdering(0 .. x), FiniteSubsetsOf(0 .. x))
  BY FS_StrictSubsetOrderingWellFounded
<1>3. T \subseteq FiniteSubsetsOf(0 .. x)
  <2> SUFFICES ASSUME NEW y \in S, y <= x
               PROVE  0 .. y \in FiniteSubsetsOf(0 .. x)
    OBVIOUS
  <2>1. y \in Nat /\ x \in Nat
    OBVIOUS
  <2>2. IsFiniteSet(0 .. y)
    BY <2>1, FS_Interval
  <2>3. 0 .. y \subseteq 0 .. x
    BY <2>1
  <2> QED
    BY <2>2, <2>3 DEF FiniteSubsetsOf
<1>4. T # {}
  BY <1>1
<1>5. PICK I \in T : \A J \in T : <<J, I>> \notin StrictSubsetOrdering(0 .. x)
  BY <1>2, <1>3, <1>4, WFMin
<1>6. PICK m \in S : m <= x /\ I = 0 .. m
  BY <1>5
<1>7. \A y \in S : m <= y
  <2> SUFFICES ASSUME NEW y \in S, y < m PROVE FALSE
    OBVIOUS
  <2>1. 0 .. y \in T
    BY <1>6
  <2>2. <<0 .. y, I>> \in StrictSubsetOrdering(0 .. x)
    BY <1>6 DEF StrictSubsetOrdering
  <2> QED
    BY <2>1, <2>2, <1>5
<1> QED
  BY <1>7 DEF Min

(* Naming each class by its least member keeps classes apart.              *)
NamesLeast(S, key, class, p) ==
  /\ S \subseteq Nat
  /\ \A u \in S : class[u] \subseteq S
  /\ \A u, v \in S : v \in class[u] <=> key[u] = key[v]
  /\ \A u \in S : p[u] = Min(class[u])

LEMMA LeastNames ==
  ASSUME NEW S, NEW key, NEW class, NEW p, NamesLeast(S, key, class, p)
  PROVE  /\ \A u, v \in S : p[u] = p[v] <=> key[u] = key[v]
         /\ \A u \in S : p[u] \in S /\ key[p[u]] = key[u]
<1> USE DEF NamesLeast
<1>1. ASSUME NEW u \in S PROVE p[u] \in S /\ key[p[u]] = key[u]
  <2>1. class[u] \subseteq Nat /\ class[u] # {}
    OBVIOUS
  <2>2. p[u] \in class[u]
    BY <2>1, MinOfNat
  <2> QED
    BY <2>2
<1>2. ASSUME NEW u \in S, NEW v \in S, key[u] = key[v]
      PROVE  p[u] = p[v]
  <2>1. \A x \in S : x \in class[u] <=> x \in class[v]
    BY <1>2
  <2>2. class[u] = class[v]
    BY <2>1
  <2> QED
    BY <2>2
<1>3. ASSUME NEW u \in S, NEW v \in S, p[u] = p[v]
      PROVE  key[u] = key[v]
  BY <1>1, <1>3
<1> QED
  BY <1>1, <1>2, <1>3

(* Two batches b < c of M edges do not overlap.                            *)
LEMMA NextRange ==
  ASSUME NEW M \in Nat \ {0}, NEW b \in Nat, NEW c \in Nat, b < c
  PROVE  b * M + M <= c * M
<1>1. c * M - (b * M + M) = (c - b - 1) * M
  OBVIOUS
<1>2. c - b - 1 \in Nat
  OBVIOUS
<1>3. (c - b - 1) * M \in Nat
  BY <1>2
<1> QED
  BY <1>1, <1>3

(* b batches of M edges do not reach the end of a edges when b + 1 are     *)
(* needed.                                                                 *)
LEMMA LastRange ==
  ASSUME NEW M \in Nat \ {0}, NEW a \in Nat, NEW b \in Nat,
         b < (a + M - 1) \div M
  PROVE  b * M < a
<1> DEFINE c == (a + M - 1) \div M
<1>1. c \in Nat /\ c * M < a + M
  OBVIOUS
<1>2. b * M + M <= c * M
  BY <1>1, NextRange
<1>3. b * M \in Nat /\ c * M \in Nat
  BY <1>1
<1> HIDE DEF c
<1> QED
  BY <1>1, <1>2, <1>3

LEMMA CountInterval ==
  ASSUME NEW n \in Nat
  PROVE  IsFiniteSet(0 .. n - 1) /\ Cardinality(0 .. n - 1) = n
BY FS_Interval

LEMMA CountFromOne ==
  ASSUME NEW n \in Nat
  PROVE  IsFiniteSet(1 .. n) /\ Cardinality(1 .. n) = n
<1>1. /\ IsFiniteSet(1 .. n)
      /\ Cardinality(1 .. n) = IF 1 > n THEN 0 ELSE n - 1 + 1
  BY FS_Interval
<1> QED
  BY <1>1

(* A subset of an interval of naturals has at most as many elements.       *)
LEMMA CountInInterval ==
  ASSUME NEW n \in Nat, NEW S, S \subseteq 0 .. n - 1
  PROVE  IsFiniteSet(S) /\ Cardinality(S) \in Nat /\ Cardinality(S) <= n
<1>1. IsFiniteSet(0 .. n - 1) /\ Cardinality(0 .. n - 1) = n
  BY CountInterval
<1>2. IsFiniteSet(S) /\ Cardinality(S) <= n
  BY <1>1, FS_Subset
<1> QED
  BY <1>2, FS_CardinalityType

(* An element outside a part of a finite set makes that part smaller.      *)
LEMMA CountStrict ==
  ASSUME NEW S, IsFiniteSet(S), NEW T, T \subseteq S, NEW x \in S, x \notin T
  PROVE  /\ Cardinality(T) \in Nat
         /\ Cardinality(S) \in Nat
         /\ Cardinality(T) < Cardinality(S)
<1>1. IsFiniteSet(T) /\ Cardinality(T) <= Cardinality(S)
  BY FS_Subset
<1>2. Cardinality(T) # Cardinality(S)
  BY FS_Subset
<1> QED
  BY <1>1, <1>2, FS_CardinalityType

(* Each position of a finite set of naturals is the rank of one of them.   *)
LEMMA Ranks ==
  ASSUME NEW S, S \subseteq Nat, IsFiniteSet(S)
  PROVE  \A i \in 1 .. Cardinality(S) :
           \E x \in S : Cardinality({y \in S : y < x}) = i - 1
<1> DEFINE n == Cardinality(S)
           Below(x) == {y \in S : y < x}
           rank == [x \in S |-> Cardinality(Below(x))]
<1>1. n \in Nat
  BY FS_CardinalityType
<1>2. \A x \in S : Cardinality(Below(x)) \in 0 .. n - 1
  <2> TAKE x \in S
  <2>1. Below(x) \subseteq S /\ x \notin Below(x)
    OBVIOUS
  <2>2. Cardinality(Below(x)) \in Nat /\ Cardinality(Below(x)) < n
    BY <2>1, CountStrict
  <2> QED
    BY <2>2, <1>1
<1>3. \A x, y \in S : x < y => Cardinality(Below(x)) < Cardinality(Below(y))
  <2> SUFFICES ASSUME NEW x \in S, NEW y \in S, x < y
               PROVE  Cardinality(Below(x)) < Cardinality(Below(y))
    OBVIOUS
  <2>1. Below(x) \subseteq Below(y) /\ x \in Below(y) /\ x \notin Below(x)
    <3>1. \A z \in S : z \in Int
      OBVIOUS
    <3>2. \A z \in S : z < x => z < y
      BY <3>1
    <3>3. ~(x < x)
      BY <3>1
    <3> QED
      BY <3>2, <3>3
  <2>2. IsFiniteSet(Below(y))
    BY FS_Subset
  <2> QED
    BY <2>1, <2>2, CountStrict
<1>4. rank \in Injection(S, 0 .. n - 1)
  <2>1. rank \in [S -> 0 .. n - 1]
    BY <1>2
  <2>2. ASSUME NEW x \in S, NEW y \in S, rank[x] = rank[y] PROVE x = y
    <3>1. ~(x < y) /\ ~(y < x)
      BY <2>2, <1>2, <1>3
    <3> QED
      BY <3>1
  <2> HIDE DEF rank
  <2> QED
    BY <2>1, <2>2 DEF Injection, IsInjective
<1>5. rank \in Surjection(S, 0 .. n - 1)
  <2>1. IsFiniteSet(0 .. n - 1) /\ Cardinality(0 .. n - 1) = n
    <3> HIDE DEF n
    <3> QED
      BY <1>1, FS_Interval
  <2> HIDE DEF rank
  <2> QED
    BY <2>1, <1>4, FS_Injection
<1>6. \A i \in 1 .. n : \E x \in S : Cardinality(Below(x)) = i - 1
  <2> TAKE i \in 1 .. n
  <2>1. i - 1 \in 0 .. n - 1
    BY <1>1
  <2>2. PICK x \in S : rank[x] = i - 1
    <3> HIDE DEF rank
    <3> QED
      BY <2>1, <1>5 DEF Surjection
  <2> QED
    BY <2>2
<1> QED
  BY <1>6

-----------------------------------------------------------------------------
(* Sums modulo a word: a sum may be cut before or after it grows.          *)
LEMMA ModDef ==
  ASSUME NEW M \in Nat \ {0}, NEW a \in Nat
  PROVE /\ a % M \in 0 .. M - 1
        /\ a \div M \in Nat
        /\ a = M * (a \div M) + (a % M)
OBVIOUS

LEMMA ModShift ==
  ASSUME NEW M \in Nat \ {0}, NEW q \in Nat, NEW r \in 0 .. M - 1
  PROVE  (M * q + r) % M = r
OBVIOUS

LEMMA ModAdd ==
  ASSUME NEW M \in Nat \ {0}, NEW a \in Nat, NEW b \in Nat
  PROVE  ((a % M) + b) % M = (a + b) % M
<1> DEFINE q == a \div M  r == a % M
<1>1. r \in 0 .. M - 1 /\ q \in Nat /\ a = M * q + r
  OBVIOUS
<1> DEFINE p == (r + b) \div M  s == (r + b) % M
<1>2. s \in 0 .. M - 1 /\ p \in Nat /\ r + b = M * p + s
  BY <1>1
<1> HIDE DEF q, r, p, s
<1>3. a + b = M * (q + p) + s
  <2>1. M * (q + p) = M * q + M * p
    BY <1>1, <1>2
  <2>2. M * q \in Nat /\ M * p \in Nat
    BY <1>1, <1>2
  <2> QED
    BY <1>1, <1>2, <2>1, <2>2
<1>4. (M * (q + p) + s) % M = s
  <2>1. q + p \in Nat
    BY <1>1, <1>2
  <2> QED
    BY <1>2, <2>1, ModShift
<1> QED
  BY <1>3, <1>4 DEF s, r

-----------------------------------------------------------------------------
(* The function a sum over the parts of S is read from.                    *)
Sums(f, S, F) ==
  F = [s \in SUBSET S |->
         IF s = {} THEN 0
         ELSE f[CHOOSE x \in s : TRUE] + F[s \ {CHOOSE x \in s : TRUE}]]

LEMMA SumIsRead ==
  ASSUME NEW f, NEW S
  PROVE  SumFunctionOnSet(f, S) = (CHOOSE F : Sums(f, S, F))[S]
BY DEF SumFunctionOnSet, FoldFunctionOnSet, MapThenFoldSet, Sums

(* Induction on the parts of a finite set.                                 *)
LEMMA LeastPart ==
  ASSUME NEW S, IsFiniteSet(S), NEW T, T \subseteq SUBSET S, T # {}
  PROVE  \E s \in T : \A t \in T : t \subseteq s => t = s
<1>1. T \subseteq FiniteSubsetsOf(S)
  BY FS_Subset DEF FiniteSubsetsOf
<1>2. PICK s \in T : \A t \in T : <<t, s>> \notin StrictSubsetOrdering(S)
  BY <1>1, FS_StrictSubsetOrderingWellFounded, WFMin
<1> QED
  BY <1>2 DEF StrictSubsetOrdering

LEMMA SumsUnique ==
  ASSUME NEW S, IsFiniteSet(S), NEW f, NEW A, A \in SUBSET S, NEW B, B \in SUBSET S,
         NEW F, Sums(f, A, F), NEW G, Sums(f, B, G),
         NEW s \in SUBSET (A \cap B)
  PROVE  F[s] = G[s]
<1> DEFINE T == {t \in SUBSET (A \cap B) : F[t] # G[t]}
<1> SUFFICES ASSUME T # {} PROVE FALSE
  OBVIOUS
<1>1. PICK t \in T : \A u \in T : u \subseteq t => u = t
  <2>1. T \subseteq SUBSET S
    OBVIOUS
  <2> HIDE DEF T
  <2> QED
    BY <2>1, LeastPart
<1> DEFINE x == CHOOSE x \in t : TRUE
<1>2. t # {}
  <2> SUFFICES ASSUME t = {} PROVE FALSE
    OBVIOUS
  <2>1. {} \in SUBSET A /\ {} \in SUBSET B
    OBVIOUS
  <2> QED
    BY <2>1 DEF Sums
<1>3. x \in t /\ t \ {x} \in SUBSET (A \cap B) /\ t \in SUBSET A /\ t \in SUBSET B
  BY <1>2
<1>4. F[t \ {x}] = G[t \ {x}]
  BY <1>1, <1>3
<1>5. F[t] = f[x] + F[t \ {x}] /\ G[t] = f[x] + G[t \ {x}]
  BY <1>2, <1>3 DEF Sums
<1> QED
  BY <1>1, <1>4, <1>5

LEMMA SumsExist ==
  ASSUME NEW S, IsFiniteSet(S), NEW f
  PROVE  \E F : Sums(f, S, F)
<1> DEFINE T == {s \in SUBSET S : ~\E F : Sums(f, s, F)}
<1>1. T \subseteq SUBSET S
  OBVIOUS
<1> SUFFICES ASSUME T # {} PROVE FALSE
  OBVIOUS
<1>2. PICK s \in T : \A t \in T : t \subseteq s => t = s
  <2> HIDE DEF T
  <2> QED
    BY <1>1, LeastPart
<1> DEFINE p(t) == CHOOSE x \in t : TRUE
           G(t) == CHOOSE F : Sums(f, t, F)
           V(t) == IF t = {} THEN 0 ELSE f[p(t)] + G(t \ {p(t)})[t \ {p(t)}]
           F == [t \in SUBSET s |-> V(t)]
<1>3. \A t \in SUBSET s : t # {} => p(t) \in t
  OBVIOUS
<1>4. \A t \in SUBSET s : t # s => Sums(f, t, G(t))
  <2> SUFFICES ASSUME NEW t \in SUBSET s, t # s PROVE Sums(f, t, G(t))
    OBVIOUS
  <2>1. t \notin T /\ t \in SUBSET S
    BY <1>2
  <2>2. \E H : Sums(f, t, H)
    BY <2>1
  <2> QED
    BY <2>2
<1>5. ASSUME NEW t \in SUBSET s, t # s
      PROVE  G(t)[t] = V(t)
  <2>1. Sums(f, t, G(t)) /\ t \in SUBSET t
    BY <1>4, <1>5
  <2>2. CASE t = {}
    <3> HIDE DEF G, p
    <3> QED
      BY <2>1, <2>2 DEF Sums
  <2>3. CASE t # {}
    <3> DEFINE v == t \ {p(t)}
    <3>1. v \in SUBSET s /\ v # s /\ v \in SUBSET t
      BY <1>3, <2>3
    <3>2. Sums(f, v, G(v))
      BY <1>4, <3>1
    <3>3. G(t)[v] = G(v)[v]
      <4>1. t \in SUBSET S /\ v \in SUBSET S /\ v \in SUBSET (t \cap v)
        BY <3>1, <1>2
      <4> HIDE DEF G, v
      <4> QED
        BY <2>1, <3>2, <4>1, SumsUnique
    <3>4. G(t)[t] = f[p(t)] + G(t)[v]
      <4> HIDE DEF G
      <4> QED
        BY <2>1, <2>3 DEF Sums
    <3> QED
      BY <2>3, <3>3, <3>4
  <2> QED
    BY <2>2, <2>3
<1>6. ASSUME NEW t \in SUBSET s, t # {}
      PROVE  V(t) = f[p(t)] + F[t \ {p(t)}]
  <2>1. t \ {p(t)} \in SUBSET s /\ t \ {p(t)} # s
    BY <1>3, <1>6
  <2>2. F[t \ {p(t)}] = V(t \ {p(t)})
    <3> HIDE DEF V, p
    <3> QED
      BY <2>1
  <2>3. G(t \ {p(t)})[t \ {p(t)}] = V(t \ {p(t)})
    <3> HIDE DEF V, p, G
    <3> QED
      BY <2>1, <1>5
  <2> HIDE DEF F, p, G
  <2> QED
    BY <1>6, <2>2, <2>3
<1>7. F = [t \in SUBSET s |-> IF t = {} THEN 0 ELSE f[p(t)] + F[t \ {p(t)}]]
  <2>1. \A t \in SUBSET s :
          V(t) = IF t = {} THEN 0 ELSE f[p(t)] + F[t \ {p(t)}]
    <3> HIDE DEF F, p, G
    <3> QED
      BY <1>6
  <2> HIDE DEF V, p
  <2> QED
    BY <2>1
<1>8. Sums(f, s, F)
  <2> HIDE DEF F
  <2> QED
    BY <1>7 DEF Sums
<1> QED
  BY <1>2, <1>8

LEMMA SumDef ==
  ASSUME NEW S, IsFiniteSet(S), NEW f
  PROVE  \E F : Sums(f, S, F) /\ \A s \in SUBSET S : F[s] = SumFunctionOnSet(f, s)
<1>1. PICK F : Sums(f, S, F)
  BY SumsExist
<1>2. ASSUME NEW s \in SUBSET S PROVE F[s] = SumFunctionOnSet(f, s)
  <2> DEFINE G == CHOOSE G : Sums(f, s, G)
  <2>1. Sums(f, s, G)
    BY FS_Subset, SumsExist
  <2>2. SumFunctionOnSet(f, s) = G[s]
    BY SumIsRead
  <2>3. s \in SUBSET (S \cap s) /\ S \in SUBSET S
    OBVIOUS
  <2> HIDE DEF G
  <2> QED
    BY <1>1, <2>1, <2>2, <2>3, SumsUnique
<1> QED
  BY <1>1, <1>2

LEMMA SumEmpty ==
  ASSUME NEW f
  PROVE  SumFunctionOnSet(f, {}) = 0
<1>1. IsFiniteSet({})
  BY FS_EmptySet
<1>2. PICK F : Sums(f, {}, F) /\ \A s \in SUBSET {} : F[s] = SumFunctionOnSet(f, s)
  BY <1>1, SumDef
<1> QED
  BY <1>2 DEF Sums

LEMMA SumFirst ==
  ASSUME NEW S, IsFiniteSet(S), S # {}, NEW f
  PROVE  \E x \in S : SumFunctionOnSet(f, S) =
                        f[x] + SumFunctionOnSet(f, S \ {x})
<1>1. PICK F : Sums(f, S, F) /\ \A s \in SUBSET S : F[s] = SumFunctionOnSet(f, s)
  BY SumDef
<1> DEFINE x == CHOOSE x \in S : TRUE
<1>2. x \in S /\ S \ {x} \in SUBSET S /\ S \in SUBSET S
  OBVIOUS
<1>3. F[S] = f[x] + F[S \ {x}]
  BY <1>1, <1>2 DEF Sums
<1> QED
  BY <1>1, <1>2, <1>3

(* A sum of naturals is a natural, and the members may be taken in any     *)
(* order.                                                                  *)
LEMMA SumType ==
  ASSUME NEW S, IsFiniteSet(S), NEW f, \A x \in S : f[x] \in Nat
  PROVE  SumFunctionOnSet(f, S) \in Nat
<1> DEFINE T == {s \in SUBSET S : SumFunctionOnSet(f, s) \notin Nat}
<1>1. T \subseteq SUBSET S
  OBVIOUS
<1> SUFFICES ASSUME T # {} PROVE FALSE
  OBVIOUS
<1>2. PICK s \in T : \A t \in T : t \subseteq s => t = s
  <2> HIDE DEF T
  <2> QED
    BY <1>1, LeastPart
<1>3. s # {}
  <2> SUFFICES ASSUME s = {} PROVE FALSE
    OBVIOUS
  <2>1. SumFunctionOnSet(f, s) = 0
    BY SumEmpty
  <2> QED
    BY <1>2, <2>1
<1>4. PICK x \in s : SumFunctionOnSet(f, s) =
                       f[x] + SumFunctionOnSet(f, s \ {x})
  BY <1>2, <1>3, FS_Subset, SumFirst
<1>5. SumFunctionOnSet(f, s \ {x}) \in Nat
  BY <1>2, <1>4
<1> QED
  BY <1>2, <1>4, <1>5

LEMMA SumRemove ==
  ASSUME NEW S, IsFiniteSet(S), NEW f, \A x \in S : f[x] \in Nat, NEW y \in S
  PROVE  SumFunctionOnSet(f, S) = f[y] + SumFunctionOnSet(f, S \ {y})
<1> DEFINE T == {s \in SUBSET S :
                   \E x \in s : SumFunctionOnSet(f, s) #
                                  f[x] + SumFunctionOnSet(f, s \ {x})}
<1>1. T \subseteq SUBSET S
  OBVIOUS
<1> SUFFICES ASSUME T # {} PROVE FALSE
  OBVIOUS
<1>2. PICK s \in T : \A t \in T : t \subseteq s => t = s
  <2> HIDE DEF T
  <2> QED
    BY <1>1, LeastPart
<1>3. PICK x \in s : SumFunctionOnSet(f, s) #
                       f[x] + SumFunctionOnSet(f, s \ {x})
  BY <1>2
<1>4. PICK z \in s : SumFunctionOnSet(f, s) =
                       f[z] + SumFunctionOnSet(f, s \ {z})
  BY <1>2, <1>3, FS_Subset, SumFirst
<1> DEFINE rest == (s \ {x}) \ {z}
<1>5. x # z /\ rest = (s \ {z}) \ {x} /\ s \subseteq S
  BY <1>2, <1>3, <1>4
<1>6. s \ {x} \notin T /\ s \ {z} \notin T
  BY <1>2, <1>3, <1>4
<1>7. /\ SumFunctionOnSet(f, s \ {x}) = f[z] + SumFunctionOnSet(f, rest)
      /\ SumFunctionOnSet(f, s \ {z}) = f[x] + SumFunctionOnSet(f, rest)
  BY <1>4, <1>5, <1>6
<1>8. SumFunctionOnSet(f, rest) \in Nat /\ f[x] \in Nat /\ f[z] \in Nat
  BY <1>5, FS_Subset, SumType
<1> HIDE DEF T, rest
<1> QED
  BY <1>3, <1>4, <1>7, <1>8

LEMMA SumAdd ==
  ASSUME NEW S, IsFiniteSet(S), NEW f, NEW y, y \notin S,
         \A x \in S \cup {y} : f[x] \in Nat
  PROVE  SumFunctionOnSet(f, S \cup {y}) = f[y] + SumFunctionOnSet(f, S)
<1>1. IsFiniteSet(S \cup {y}) /\ (S \cup {y}) \ {y} = S
  BY FS_AddElement
<1> QED
  BY <1>1, SumRemove

(* Only the values that are summed matter.                                 *)
LEMMA SumSame ==
  ASSUME NEW S, IsFiniteSet(S), NEW f, NEW g,
         \A x \in S : f[x] \in Nat, \A x \in S : f[x] = g[x]
  PROVE  SumFunctionOnSet(f, S) = SumFunctionOnSet(g, S)
<1> DEFINE T == {s \in SUBSET S :
                   SumFunctionOnSet(f, s) # SumFunctionOnSet(g, s)}
<1>1. T \subseteq SUBSET S
  OBVIOUS
<1> SUFFICES ASSUME T # {} PROVE FALSE
  OBVIOUS
<1>2. PICK s \in T : \A t \in T : t \subseteq s => t = s
  <2> HIDE DEF T
  <2> QED
    BY <1>1, LeastPart
<1>3. s # {}
  BY <1>2, SumEmpty
<1>4. PICK x \in s : SumFunctionOnSet(f, s) =
                       f[x] + SumFunctionOnSet(f, s \ {x})
  BY <1>2, <1>3, FS_Subset, SumFirst
<1>5. SumFunctionOnSet(g, s) = g[x] + SumFunctionOnSet(g, s \ {x})
  <2>1. IsFiniteSet(s) /\ \A y \in s : g[y] \in Nat
    BY <1>2, FS_Subset
  <2> QED
    BY <2>1, SumRemove
<1>6. SumFunctionOnSet(f, s \ {x}) = SumFunctionOnSet(g, s \ {x})
  BY <1>2, <1>4
<1> QED
  BY <1>2, <1>4, <1>5, <1>6

LEMMA SumZero ==
  ASSUME NEW S, IsFiniteSet(S), NEW f, \A x \in S : f[x] = 0
  PROVE  SumFunctionOnSet(f, S) = 0
<1> DEFINE T == {s \in SUBSET S : SumFunctionOnSet(f, s) # 0}
<1>1. T \subseteq SUBSET S
  OBVIOUS
<1> SUFFICES ASSUME T # {} PROVE FALSE
  OBVIOUS
<1>2. PICK s \in T : \A t \in T : t \subseteq s => t = s
  <2> HIDE DEF T
  <2> QED
    BY <1>1, LeastPart
<1>3. s # {}
  <2> SUFFICES ASSUME s = {} PROVE FALSE
    OBVIOUS
  <2>1. SumFunctionOnSet(f, s) = 0
    BY SumEmpty
  <2> QED
    BY <1>2, <2>1
<1>4. PICK x \in s : SumFunctionOnSet(f, s) =
                       f[x] + SumFunctionOnSet(f, s \ {x})
  BY <1>2, <1>3, FS_Subset, SumFirst
<1>5. SumFunctionOnSet(f, s \ {x}) = 0 /\ f[x] = 0
  BY <1>2, <1>4
<1> QED
  BY <1>2, <1>4, <1>5

LEMMA SumAtMost ==
  ASSUME NEW S, IsFiniteSet(S), NEW f, NEW g,
         \A x \in S : f[x] \in Nat /\ g[x] \in Nat /\ f[x] <= g[x]
  PROVE  SumFunctionOnSet(f, S) <= SumFunctionOnSet(g, S)
<1> DEFINE T == {s \in SUBSET S :
                   ~(SumFunctionOnSet(f, s) <= SumFunctionOnSet(g, s))}
<1>1. T \subseteq SUBSET S
  OBVIOUS
<1> SUFFICES ASSUME T # {} PROVE FALSE
  OBVIOUS
<1>2. PICK s \in T : \A t \in T : t \subseteq s => t = s
  <2> HIDE DEF T
  <2> QED
    BY <1>1, LeastPart
<1>3. s # {}
  <2> SUFFICES ASSUME s = {} PROVE FALSE
    OBVIOUS
  <2>1. SumFunctionOnSet(f, s) = 0 /\ SumFunctionOnSet(g, s) = 0
    BY SumEmpty
  <2> QED
    BY <1>2, <2>1
<1>4. PICK x \in s : SumFunctionOnSet(f, s) =
                       f[x] + SumFunctionOnSet(f, s \ {x})
  BY <1>2, <1>3, FS_Subset, SumFirst
<1>5. SumFunctionOnSet(g, s) = g[x] + SumFunctionOnSet(g, s \ {x})
  <2>1. IsFiniteSet(s) /\ \A y \in s : g[y] \in Nat
    BY <1>2, FS_Subset
  <2> QED
    BY <2>1, SumRemove
<1>6. SumFunctionOnSet(f, s \ {x}) <= SumFunctionOnSet(g, s \ {x})
  BY <1>2, <1>4
<1>7. SumFunctionOnSet(f, s \ {x}) \in Nat /\ SumFunctionOnSet(g, s \ {x}) \in Nat
  <2> DEFINE R == s \ {x}
  <2>1. IsFiniteSet(R) /\ (\A y \in R : f[y] \in Nat) /\ \A y \in R : g[y] \in Nat
    BY <1>2, FS_Subset
  <2> HIDE DEF R
  <2>2. SumFunctionOnSet(f, R) \in Nat /\ SumFunctionOnSet(g, R) \in Nat
    BY <2>1, SumType
  <2> QED
    BY <2>2 DEF R
<1>8. f[x] \in Nat /\ g[x] \in Nat /\ f[x] <= g[x]
  BY <1>2
<1>9. SumFunctionOnSet(f, s) <= SumFunctionOnSet(g, s)
  BY <1>4, <1>5, <1>6, <1>7, <1>8
<1> QED
  BY <1>2, <1>9

(* One term changes.                                                       *)
LEMMA SumMoves ==
  ASSUME NEW S, IsFiniteSet(S), NEW f, NEW g,
         \A x \in S : f[x] \in Nat /\ g[x] \in Nat,
         NEW y \in S, \A x \in S \ {y} : f[x] = g[x]
  PROVE  /\ SumFunctionOnSet(f, S) \in Nat /\ SumFunctionOnSet(g, S) \in Nat
         /\ SumFunctionOnSet(g, S) + f[y] = SumFunctionOnSet(f, S) + g[y]
<1> DEFINE R == S \ {y}
<1>1. IsFiniteSet(R) /\ (\A x \in R : f[x] \in Nat) /\ \A x \in R : g[x] \in Nat
  BY FS_Subset
<1>2. /\ SumFunctionOnSet(f, S) = f[y] + SumFunctionOnSet(f, R)
      /\ SumFunctionOnSet(g, S) = g[y] + SumFunctionOnSet(g, R)
  BY SumRemove
<1>3. SumFunctionOnSet(f, R) = SumFunctionOnSet(g, R)
  <2>1. \A x \in R : f[x] = g[x]
    OBVIOUS
  <2> HIDE DEF R
  <2> QED
    BY <1>1, <2>1, SumSame
<1>4. SumFunctionOnSet(f, R) \in Nat
  <2> HIDE DEF R
  <2> QED
    BY <1>1, SumType
<1> QED
  BY <1>2, <1>3, <1>4

LEMMA SumUnion ==
  ASSUME NEW S, IsFiniteSet(S), NEW R, IsFiniteSet(R), S \cap R = {},
         NEW f, \A x \in S \cup R : f[x] \in Nat
  PROVE  SumFunctionOnSet(f, S \cup R) =
           SumFunctionOnSet(f, S) + SumFunctionOnSet(f, R)
<1> DEFINE T == {s \in SUBSET S :
                   SumFunctionOnSet(f, s \cup R) #
                     SumFunctionOnSet(f, s) + SumFunctionOnSet(f, R)}
<1>1. T \subseteq SUBSET S
  OBVIOUS
<1>0. SumFunctionOnSet(f, R) \in Nat
  BY SumType
<1> SUFFICES ASSUME T # {} PROVE FALSE
  OBVIOUS
<1>2. PICK s \in T : \A t \in T : t \subseteq s => t = s
  <2> HIDE DEF T
  <2> QED
    BY <1>1, LeastPart
<1>3. s # {}
  <2> SUFFICES ASSUME s = {} PROVE FALSE
    OBVIOUS
  <2>1. s \cup R = R /\ SumFunctionOnSet(f, s) = 0
    BY SumEmpty
  <2> QED
    BY <1>0, <1>2, <2>1
<1>4. PICK x \in s : TRUE
  BY <1>3
<1> DEFINE v == s \ {x}
<1>5. /\ v \subseteq S /\ v # s /\ v \subseteq s /\ s = v \cup {x}
      /\ s \cup R = (v \cup R) \cup {x} /\ x \notin v \cup R /\ x \in S
  BY <1>2, <1>4
<1>6. IsFiniteSet(v) /\ IsFiniteSet(v \cup R)
  BY <1>5, FS_Subset, FS_Union
<1> HIDE DEF v
<1>7. /\ SumFunctionOnSet(f, s) = f[x] + SumFunctionOnSet(f, v)
      /\ SumFunctionOnSet(f, s \cup R) = f[x] + SumFunctionOnSet(f, v \cup R)
  <2>1. \A u \in v \cup {x} : f[u] \in Nat
    BY <1>5
  <2>2. \A u \in (v \cup R) \cup {x} : f[u] \in Nat
    BY <1>5
  <2>3. x \notin v
    BY <1>5
  <2>4. SumFunctionOnSet(f, v \cup {x}) = f[x] + SumFunctionOnSet(f, v)
    BY <2>1, <2>3, <1>6, SumAdd
  <2>5. SumFunctionOnSet(f, (v \cup R) \cup {x}) =
          f[x] + SumFunctionOnSet(f, v \cup R)
    BY <2>2, <1>5, <1>6, SumAdd
  <2> QED
    BY <1>5, <2>4, <2>5
<1>8. SumFunctionOnSet(f, v \cup R) =
        SumFunctionOnSet(f, v) + SumFunctionOnSet(f, R)
  BY <1>2, <1>5
<1>9. SumFunctionOnSet(f, v) \in Nat /\ f[x] \in Nat
  BY <1>5, <1>6, SumType
<1>10. SumFunctionOnSet(f, s \cup R) #
         SumFunctionOnSet(f, s) + SumFunctionOnSet(f, R)
  BY <1>2
<1> HIDE DEF T
<1> QED
  BY <1>0, <1>7, <1>8, <1>9, <1>10

-----------------------------------------------------------------------------
(* A value for every number, each from the one before: the definition by   *)
(* recursion has a solution, and CHOOSE finds it.                          *)
Follows(S, b, f, n, h) ==
  /\ h \in [0 .. n -> S]
  /\ h[0] = b
  /\ \A d \in 1 .. n : h[d] = f[d][h[d - 1]]

LEMMA FollowsUnique ==
  ASSUME NEW S, NEW b, NEW f, NEW m \in Nat, NEW n \in Nat,
         NEW h, Follows(S, b, f, m, h), NEW k, Follows(S, b, f, n, k),
         NEW d \in Nat, d <= m, d <= n
  PROVE  h[d] = k[d]
<1> DEFINE T == {e \in Nat : e <= m /\ e <= n /\ h[e] # k[e]}
<1> SUFFICES ASSUME T # {} PROVE FALSE
  OBVIOUS
<1>1. Min(T) \in T /\ \A e \in T : Min(T) <= e
  BY MinOfNat
<1> DEFINE c == Min(T)
<1>2. c \in Nat /\ c <= m /\ c <= n /\ h[c] # k[c]
  BY <1>1
<1>3. c # 0
  BY <1>2 DEF Follows
<1>4. c - 1 \notin T /\ c - 1 \in Nat /\ c \in 1 .. m /\ c \in 1 .. n
  BY <1>1, <1>2, <1>3
<1> HIDE DEF c
<1>5. h[c - 1] = k[c - 1]
  BY <1>2, <1>4
<1> QED
  BY <1>2, <1>4, <1>5 DEF Follows

LEMMA FollowsExists ==
  ASSUME NEW S, NEW b \in S, NEW f \in [Nat -> [S -> S]], NEW n \in Nat
  PROVE  \E h : Follows(S, b, f, n, h)
<1> DEFINE T == {e \in Nat : ~\E h : Follows(S, b, f, e, h)}
<1> SUFFICES ASSUME T # {} PROVE FALSE
  OBVIOUS
<1>1. Min(T) \in T /\ \A e \in T : Min(T) <= e
  BY MinOfNat
<1> DEFINE c == Min(T)
<1>2. c \in Nat /\ ~\E h : Follows(S, b, f, c, h)
  BY <1>1
<1>3. c # 0
  <2>1. Follows(S, b, f, 0, [d \in 0 .. 0 |-> b])
    BY DEF Follows
  <2> QED
    BY <1>2, <2>1
<1>4. c - 1 \notin T /\ c - 1 \in Nat
  <2> HIDE DEF T
  <2>1. c \in Nat \ {0} /\ \A e \in T : c <= e
    BY <1>1, <1>2, <1>3
  <2> HIDE DEF c
  <2> QED
    BY <2>1
<1> HIDE DEF c
<1>5. PICK h : Follows(S, b, f, c - 1, h)
  BY <1>4
<1> DEFINE k == [d \in 0 .. c |-> IF d = c THEN f[c][h[c - 1]] ELSE h[d]]
<1>6. f[c][h[c - 1]] \in S
  <2>1. h[c - 1] \in S
    BY <1>4, <1>5 DEF Follows
  <2> QED
    BY <1>2, <2>1
<1>7. Follows(S, b, f, c, k)
  BY <1>2, <1>3, <1>4, <1>5, <1>6 DEF Follows
<1> QED
  BY <1>2, <1>7

Recursion(S, b, f, F) ==
  /\ F \in [Nat -> S]
  /\ F = [d \in Nat |-> IF d = 0 THEN b ELSE f[d][F[d - 1]]]

LEMMA RecursionSolved ==
  ASSUME NEW S, NEW b \in S, NEW f \in [Nat -> [S -> S]]
  PROVE  \E F : Recursion(S, b, f, F)
<1> DEFINE H(n) == CHOOSE h : Follows(S, b, f, n, h)
           F == [d \in Nat |-> H(d)[d]]
<1>1. \A n \in Nat : Follows(S, b, f, n, H(n))
  BY FollowsExists
<1> HIDE DEF H
<1>2. \A n \in Nat : F[n] \in S
  BY <1>1 DEF Follows
<1>3. ASSUME NEW d \in Nat, d # 0 PROVE F[d] = f[d][F[d - 1]]
  <2>1. d - 1 \in Nat /\ d \in 1 .. d /\ d - 1 <= d
    BY <1>3
  <2>2. Follows(S, b, f, d, H(d)) /\ Follows(S, b, f, d - 1, H(d - 1))
    BY <1>1, <2>1
  <2>3. H(d)[d - 1] = H(d - 1)[d - 1]
    BY <2>1, <2>2, FollowsUnique
  <2> QED
    BY <2>1, <2>2, <2>3 DEF Follows
<1>4. F[0] = b
  BY <1>1 DEF Follows
<1> HIDE DEF F
<1>5. F \in [Nat -> S]
  BY <1>2 DEF F
<1> QED
  BY <1>3, <1>4, <1>5 DEF Recursion

-----------------------------------------------------------------------------
(* The list of a finite set of naturals holds members of that set.         *)
LEMMA IncreasingLists ==
  ASSUME NEW S, S \subseteq Nat, IsFiniteSet(S)
  PROVE  Increasing(S) \in Seq(S)
<1>1. Increasing(S) \in [1 .. Cardinality(S) -> S]
  BY Ranks DEF Increasing
<1> QED
  BY <1>1, FS_CardinalityType

(* The list of a finite set of naturals has every member of it.            *)
LEMMA IncreasingAll ==
  ASSUME NEW S, S \subseteq Nat, IsFiniteSet(S)
  PROVE  ToSet(Increasing(S)) = S
<1> DEFINE n == Cardinality(S)
           Below(x) == {y \in S : y < x}
           r(x) == Cardinality(Below(x))
<1>1. n \in Nat
  BY FS_CardinalityType
<1>2. \A x \in S : r(x) \in Nat /\ r(x) < n
  BY CountStrict
<1>3. ASSUME NEW x \in S, NEW y \in S, x < y PROVE r(x) < r(y)
  <2>1. Below(x) \subseteq Below(y) /\ x \in Below(y) /\ x \notin Below(x)
    <3>1. \A z \in S : z \in Int
      OBVIOUS
    <3>2. \A z \in S : z < x => z < y
      BY <1>3, <3>1
    <3>3. ~(x < x)
      BY <3>1
    <3> QED
      BY <1>3, <3>2, <3>3
  <2>2. IsFiniteSet(Below(y))
    BY FS_Subset
  <2> QED
    BY <2>1, <2>2, CountStrict
<1> HIDE DEF n, r
<1>4. \A x, y \in S : r(x) = r(y) => x = y
  <2> SUFFICES ASSUME NEW x \in S, NEW y \in S, r(x) = r(y), x # y PROVE FALSE
    OBVIOUS
  <2>1. x < y \/ y < x
    OBVIOUS
  <2>2. r(x) \in Nat /\ r(y) \in Nat
    BY <1>2
  <2>3. ~(r(x) < r(y)) /\ ~(r(y) < r(x))
    BY <2>2
  <2> QED
    BY <1>3, <2>1, <2>3
<1>5. Increasing(S) = [i \in 1 .. n |-> CHOOSE x \in S : r(x) = i - 1]
  BY DEF Increasing, n, r
<1>6. ASSUME NEW x \in S PROVE x \in ToSet(Increasing(S))
  <2> DEFINE i == r(x) + 1
  <2>1. i \in 1 .. n /\ i - 1 = r(x)
    BY <1>1, <1>2
  <2> HIDE DEF i
  <2>2. Increasing(S)[i] = CHOOSE y \in S : r(y) = i - 1
    BY <1>5, <2>1
  <2>3. x = CHOOSE y \in S : r(y) = i - 1
    BY <1>4, <2>1
  <2>4. i \in DOMAIN Increasing(S)
    BY <1>5, <2>1
  <2> QED
    BY <2>2, <2>3, <2>4 DEF ToSet
<1>7. Increasing(S) \in Seq(S)
  BY IncreasingLists
<1>8. ToSet(Increasing(S)) \subseteq S
  BY <1>7 DEF ToSet
<1> QED
  BY <1>6, <1>8

(* And it has no member twice.                                             *)
LEMMA IncreasingInjective ==
  ASSUME NEW S, S \subseteq Nat, IsFiniteSet(S)
  PROVE  IsInjective(Increasing(S)) /\ Len(Increasing(S)) = Cardinality(S)
<1> DEFINE n == Cardinality(S)  q == Increasing(S)
<1>1. n \in Nat
  BY FS_CardinalityType
<1>2. q \in Seq(S) /\ ToSet(q) = S
  BY IncreasingLists, IncreasingAll
<1>3. DOMAIN q = 1 .. n
  BY DEF Increasing
<1> HIDE DEF q
<1>4. q \in [1 .. n -> S]
  <2>1. DOMAIN q = 1 .. Len(q) /\ q \in [1 .. Len(q) -> S]
    BY <1>2, LenProperties, ElementOfSeq
  <2> QED
    BY <1>3, <2>1
<1>5. q \in Surjection(1 .. n, S)
  BY <1>2, <1>3, <1>4 DEF Surjection, ToSet
<1>6. IsFiniteSet(1 .. n) /\ Cardinality(1 .. n) = n
  BY <1>1, CountFromOne
<1>7. q \in Injection(1 .. n, S)
  BY <1>5, <1>6, FS_Surjection
<1>8. Len(q) = n
  <2> HIDE DEF n
  <2> QED
    BY <1>1, <1>2, <1>3, LenProperties
<1> QED
  BY <1>7, <1>8 DEF Injection, q

(* The successors of a node, as the code lists them.                       *)
LEMMA SuccessorLists ==
  ASSUME NEW g, IsDigraph(g), NEW u \in DOMAIN g
  PROVE  /\ g[u] \subseteq DOMAIN g
         /\ Successors(g, u) \in Seq(g[u])
         /\ ToSet(Successors(g, u)) = g[u]
<1>1. IsFiniteSet(DOMAIN g) /\ DOMAIN g = 0 .. Cardinality(DOMAIN g) - 1
      /\ g[u] \subseteq DOMAIN g
  BY DEF IsDigraph
<1>2. DOMAIN g \subseteq Nat
  <2>1. Cardinality(DOMAIN g) \in Nat
    BY <1>1, FS_CardinalityType
  <2> QED
    BY <2>1, <1>1
<1>3. IsFiniteSet(g[u]) /\ g[u] \subseteq Nat
  BY <1>1, <1>2, FS_Subset
<1> QED
  BY <1>1, <1>3, IncreasingLists, IncreasingAll DEF Successors

(* The members of a list are its first and those of the rest.             *)
LEMMA ToSetTail ==
  ASSUME NEW S, NEW s \in Seq(S), s # << >>
  PROVE  ToSet(s) = {Head(s)} \cup ToSet(Tail(s))
<1>1. Len(s) \in Nat \ {0} /\ DOMAIN s = 1 .. Len(s) /\ Head(s) = s[1]
  BY EmptySeq, LenProperties
<1>2. Tail(s) \in Seq(S) /\ Len(Tail(s)) = Len(s) - 1
      /\ \A i \in 1 .. Len(Tail(s)) : Tail(s)[i] = s[i + 1]
  BY HeadTailProperties
<1>3. DOMAIN Tail(s) = 1 .. Len(s) - 1
  BY <1>2, LenProperties
<1>4. ASSUME NEW i \in 1 .. Len(s) PROVE s[i] \in {Head(s)} \cup ToSet(Tail(s))
  <2>1. CASE i = 1
    BY <1>1, <2>1
  <2>2. CASE i # 1
    <3>1. i - 1 \in 1 .. Len(s) - 1 /\ i - 1 + 1 = i
      BY <1>1, <2>2
    <3>2. Tail(s)[i - 1] = s[i]
      BY <1>2, <3>1
    <3> QED
      BY <1>3, <3>1, <3>2 DEF ToSet
  <2> QED
    BY <2>1, <2>2
<1>5. ASSUME NEW i \in 1 .. Len(s) - 1 PROVE Tail(s)[i] \in ToSet(s)
  <2>1. i + 1 \in 1 .. Len(s) /\ Tail(s)[i] = s[i + 1]
    BY <1>1, <1>2
  <2> QED
    BY <1>1, <2>1 DEF ToSet
<1>6. Head(s) \in ToSet(s)
  BY <1>1 DEF ToSet
<1> QED
  BY <1>1, <1>3, <1>4, <1>5, <1>6 DEF ToSet

-----------------------------------------------------------------------------
(* The levels by their definition: the roots that pass, then what arcs     *)
(* lead to that is not known and passes.                                   *)
Solves(g, s, o, a, M) ==
  M = [d \in Nat |->
        IF d = 0 THEN [now |-> {r \in s \ o : <<r, 0>> \in a}, all |-> o]
        ELSE LET above == M[d - 1]
                 all == above.all \cup above.now
             IN  [now |-> {x \in Image(g, above.now) \ all : <<x, d>> \in a},
                  all |-> all]]

LEMMA LevelsSolved ==
  ASSUME NEW g, IsDigraph(g), NEW s, s \subseteq DOMAIN g, NEW o, NEW a
  PROVE  \E M : Solves(g, s, o, a, M)
               /\ Levels(g, s, o, a) = [d \in 0 .. Cardinality(DOMAIN g) |-> M[d].now]
<1> DEFINE S == [now : SUBSET DOMAIN g, all : SUBSET (o \cup DOMAIN g)]
           b == [now |-> {r \in s \ o : <<r, 0>> \in a}, all |-> o]
           Below(d, m) ==
             [now |-> {x \in Image(g, m.now) \ (m.all \cup m.now) : <<x, d>> \in a},
              all |-> m.all \cup m.now]
           f == [d \in Nat |-> [m \in S |-> Below(d, m)]]
<1>1. b \in S
  OBVIOUS
<1>2. ASSUME NEW d \in Nat, NEW m \in S PROVE Below(d, m) \in S
  <2>1. m.now \subseteq DOMAIN g /\ m.all \subseteq o \cup DOMAIN g
    OBVIOUS
  <2>2. Image(g, m.now) \subseteq DOMAIN g
    BY <2>1 DEF Image, IsDigraph
  <2> QED
    BY <2>1, <2>2
<1>3. f \in [Nat -> [S -> S]]
  BY <1>2
<1> HIDE DEF S, f, b
<1>4. PICK F : Recursion(S, b, f, F)
  BY <1>1, <1>3, RecursionSolved
<1>5. ASSUME NEW d \in Nat, d # 0 PROVE f[d][F[d - 1]] = Below(d, F[d - 1])
  <2>1. F[d - 1] \in S
    BY <1>4, <1>5 DEF Recursion
  <2> QED
    BY <2>1 DEF f
<1>6. Solves(g, s, o, a, F)
  <2>1. F = [d \in Nat |-> IF d = 0 THEN b ELSE Below(d, F[d - 1])]
    BY <1>4, <1>5 DEF Recursion
  <2> QED
    BY <2>1 DEF Solves, b
<1> DEFINE M == CHOOSE M : Solves(g, s, o, a, M)
<1>7. Solves(g, s, o, a, M)
  BY <1>6
<1>8. Levels(g, s, o, a) = [d \in 0 .. Cardinality(DOMAIN g) |-> M[d].now]
  BY DEF Levels, Solves
<1> QED
  BY <1>7, <1>8

Before(L, d) == UNION {L[e] : e \in 0 .. d - 1}
LevelByLevel(g, s, o, a, L) ==
  /\ DOMAIN L = 0 .. Cardinality(DOMAIN g)
  /\ L[0] = {r \in s \ o : <<r, 0>> \in a}
  /\ \A d \in DOMAIN L \ {0} :
       L[d] = {x \in Image(g, L[d - 1]) \ (o \cup Before(L, d)) : <<x, d>> \in a}

LEMMA LevelsDef ==
  ASSUME NEW g, IsDigraph(g), NEW s, s \subseteq DOMAIN g, NEW o, NEW a, NEW L,
         L = Levels(g, s, o, a)
  PROVE  LevelByLevel(g, s, o, a, L)
<1> DEFINE N == Cardinality(DOMAIN g)
<1>1. N \in Nat
  BY FS_CardinalityType DEF IsDigraph
<1>2. PICK M : Solves(g, s, o, a, M) /\ L = [d \in 0 .. N |-> M[d].now]
  BY LevelsSolved
<1> HIDE DEF N
<1>3. \A d \in 0 .. N : L[d] = M[d].now
  BY <1>2
<1>4. M[0].now = {r \in s \ o : <<r, 0>> \in a} /\ M[0].all = o
  BY <1>2 DEF Solves
<1>5. ASSUME NEW d \in Nat, d # 0
      PROVE  /\ M[d].all = M[d - 1].all \cup M[d - 1].now
             /\ M[d].now = {x \in Image(g, M[d - 1].now) \ M[d].all : <<x, d>> \in a}
  <2> DEFINE all == M[d - 1].all \cup M[d - 1].now
  <2>1. M[d] = [now |-> {x \in Image(g, M[d - 1].now) \ all : <<x, d>> \in a},
                all |-> all]
    BY <1>2, <1>5, Zenon DEF Solves
  <2> HIDE DEF all
  <2>2. M[d].all = all
    BY <2>1
  <2> QED
    BY <2>1, <2>2 DEF all
<1>6. \A d \in 0 .. N : M[d].all = o \cup UNION {L[e] : e \in 0 .. d - 1}
  <2> DEFINE T == {d \in Nat : d <= N /\ M[d].all # o \cup UNION {L[e] : e \in 0 .. d - 1}}
  <2> SUFFICES ASSUME T # {} PROVE FALSE
    BY <1>1
  <2>1. Min(T) \in T /\ \A e \in T : Min(T) <= e
    BY MinOfNat
  <2> DEFINE c == Min(T)
  <2>2. c \in Nat /\ c <= N /\ M[c].all # o \cup UNION {L[e] : e \in 0 .. c - 1}
    BY <2>1
  <2>3. c # 0
    <3>1. {L[e] : e \in 0 .. 0 - 1} = {}
      OBVIOUS
    <3>2. M[0].all = o \cup UNION {L[e] : e \in 0 .. 0 - 1}
      BY <1>4, <3>1
    <3> QED
      BY <2>2, <3>2
  <2>4. c - 1 \notin T /\ c - 1 \in Nat
    <3> HIDE DEF T
    <3>1. c \in Nat \ {0} /\ \A e \in T : c <= e
      BY <2>1, <2>2, <2>3
    <3> HIDE DEF c
    <3> QED
      BY <3>1
  <2> HIDE DEF c
  <2>5. M[c - 1].all = o \cup UNION {L[e] : e \in 0 .. c - 2}
    BY <1>1, <2>2, <2>4
  <2>6. M[c].all = M[c - 1].all \cup L[c - 1]
    BY <1>1, <1>3, <1>5, <2>2, <2>3, <2>4
  <2>7. 0 .. c - 1 = (0 .. c - 2) \cup {c - 1}
    BY <2>2, <2>3
  <2> QED
    BY <2>2, <2>5, <2>6, <2>7
<1>7. ASSUME NEW d \in DOMAIN L \ {0}
      PROVE  L[d] = {x \in Image(g, L[d - 1]) \ (o \cup UNION {L[e] : e \in 0 .. d - 1}) :
                       <<x, d>> \in a}
  <2>1. d \in Nat /\ d # 0 /\ d \in 0 .. N /\ d - 1 \in 0 .. N
    BY <1>1, <1>2
  <2> QED
    BY <1>3, <1>5, <1>6, <2>1
<1> QED
  BY <1>1, <1>2, <1>3, <1>4, <1>7 DEF N, LevelByLevel, Before

(* Levels of a graph, whatever the roots, the filter and the nodes known.  *)
Layered(g, L) ==
  /\ L \in [0 .. Cardinality(DOMAIN g) -> SUBSET DOMAIN g]
  /\ \A d, e \in DOMAIN L : d # e => L[d] \cap L[e] = {}
  /\ \A d \in DOMAIN L \ {0} : L[d] \subseteq Image(g, L[d - 1])

LEMMA LevelsLayered ==
  ASSUME NEW g, IsDigraph(g), NEW s, s \subseteq DOMAIN g, NEW o, NEW a, NEW L,
         L = Levels(g, s, o, a)
  PROVE  Layered(g, L) /\ \A d \in DOMAIN L : L[d] \cap o = {}
<1> DEFINE N == Cardinality(DOMAIN g)
<1>1. N \in Nat
  BY FS_CardinalityType DEF IsDigraph
<1>2. /\ DOMAIN L = 0 .. N
      /\ L[0] = {r \in s \ o : <<r, 0>> \in a}
      /\ \A d \in DOMAIN L \ {0} :
           L[d] = {x \in Image(g, L[d - 1]) \ (o \cup Before(L, d)) : <<x, d>> \in a}
  <2>1. LevelByLevel(g, s, o, a, L)
    BY LevelsDef
  <2> QED
    BY <2>1 DEF LevelByLevel
<1>3. L = [d \in 0 .. N |-> L[d]]
  BY DEF Levels
<1> HIDE DEF N
<1>4. \A d \in 0 .. N : d # 0 => L[d] \subseteq Image(g, L[d - 1]) \ (o \cup Before(L, d))
  <2> SUFFICES ASSUME NEW d \in 0 .. N, d # 0
               PROVE  L[d] \subseteq Image(g, L[d - 1]) \ (o \cup Before(L, d))
    OBVIOUS
  <2>1. L[d] = {x \in Image(g, L[d - 1]) \ (o \cup Before(L, d)) : <<x, d>> \in a}
    BY <1>2
  <2> QED
    BY <2>1
<1>5. Image(g, DOMAIN g) \subseteq DOMAIN g
  BY DEF Image, IsDigraph
<1>6. \A d \in 0 .. N : L[d] \subseteq DOMAIN g
  <2> DEFINE T == {d \in Nat : d <= N /\ ~(L[d] \subseteq DOMAIN g)}
  <2> SUFFICES ASSUME T # {} PROVE FALSE
    BY <1>1
  <2>1. Min(T) \in T /\ \A e \in T : Min(T) <= e
    BY MinOfNat
  <2> DEFINE c == Min(T)
  <2>2. c \in Nat /\ c <= N /\ ~(L[c] \subseteq DOMAIN g)
    BY <2>1
  <2>3. c # 0
    BY <1>2, <2>2
  <2>4. c - 1 \notin T /\ c - 1 \in Nat
    <3> HIDE DEF T
    <3>1. c \in Nat \ {0} /\ \A e \in T : c <= e
      BY <2>1, <2>2, <2>3
    <3> HIDE DEF c
    <3> QED
      BY <3>1
  <2> HIDE DEF c
  <2>5. L[c - 1] \subseteq DOMAIN g
    BY <1>1, <2>2, <2>4
  <2>6. Image(g, L[c - 1]) \subseteq DOMAIN g
    BY <1>5, <2>5 DEF Image
  <2>7. c \in 0 .. N
    BY <1>1, <2>2
  <2> QED
    BY <1>4, <2>2, <2>3, <2>6, <2>7
<1>7. ASSUME NEW d \in 0 .. N, NEW e \in 0 .. N, e < d PROVE L[d] \cap L[e] = {}
  <2>1. d # 0 /\ e \in 0 .. d - 1
    BY <1>1, <1>7
  <2>2. L[e] \subseteq Before(L, d)
    BY <2>1 DEF Before
  <2> QED
    BY <1>4, <2>1, <2>2
<1>8. \A d, e \in 0 .. N : d # e => L[d] \cap L[e] = {}
  <2> SUFFICES ASSUME NEW d \in 0 .. N, NEW e \in 0 .. N, d # e
               PROVE  L[d] \cap L[e] = {}
    OBVIOUS
  <2>1. d < e \/ e < d
    BY <1>1
  <2>2. L[d] \cap L[e] = L[e] \cap L[d]
    OBVIOUS
  <2> QED
    BY <1>7, <2>1, <2>2
<1>9. \A d \in 0 .. N : L[d] \cap o = {}
  <2> SUFFICES ASSUME NEW d \in 0 .. N PROVE L[d] \cap o = {}
    OBVIOUS
  <2>1. CASE d = 0
    BY <1>2, <2>1
  <2>2. CASE d # 0
    BY <1>4, <2>2
  <2> QED
    BY <2>1, <2>2
<1>10. L \in [0 .. N -> SUBSET DOMAIN g]
  BY <1>3, <1>6
<1>11. \A d \in 0 .. N : d # 0 => L[d] \subseteq Image(g, L[d - 1])
  BY <1>4
<1> QED
  BY <1>2, <1>8, <1>9, <1>10, <1>11 DEF Layered, N

(* Without roots there are no levels.                                      *)
LEMMA NoLevels ==
  ASSUME NEW g, IsDigraph(g), NEW o, NEW a
  PROVE  Levels(g, {}, o, a) = [d \in 0 .. Cardinality(DOMAIN g) |-> {}]
<1> DEFINE N == Cardinality(DOMAIN g)
           L == Levels(g, {}, o, a)
<1>1. N \in Nat
  BY FS_CardinalityType DEF IsDigraph
<1>2. L = [d \in 0 .. N |-> L[d]]
  BY DEF Levels
<1>3. LevelByLevel(g, {}, o, a, L) /\ Layered(g, L)
  <2>1. {} \subseteq DOMAIN g /\ L = Levels(g, {}, o, a)
    OBVIOUS
  <2> HIDE DEF L
  <2> QED
    BY <2>1, LevelsDef, LevelsLayered
<1> HIDE DEF L, N
<1>4. /\ L[0] = {}
      /\ \A d \in 0 .. N : d # 0 => L[d] \subseteq Image(g, L[d - 1])
  BY <1>2, <1>3 DEF LevelByLevel, Layered
<1>5. \A d \in 0 .. N : L[d] = {}
  <2> DEFINE T == {d \in Nat : d <= N /\ L[d] # {}}
  <2> SUFFICES ASSUME T # {} PROVE FALSE
    BY <1>1
  <2>1. Min(T) \in T /\ \A e \in T : Min(T) <= e
    BY MinOfNat
  <2> DEFINE c == Min(T)
  <2>2. c \in Nat /\ c <= N /\ L[c] # {}
    BY <2>1
  <2>3. c # 0
    BY <1>4, <2>2
  <2>4. c - 1 \notin T /\ c - 1 \in Nat
    <3> HIDE DEF T
    <3>1. c \in Nat \ {0} /\ \A e \in T : c <= e
      BY <2>1, <2>2, <2>3
    <3> HIDE DEF c
    <3> QED
      BY <3>1
  <2> HIDE DEF c
  <2>5. L[c - 1] = {}
    BY <1>1, <2>2, <2>4
  <2>6. Image(g, L[c - 1]) = {}
    BY <2>5 DEF Image
  <2>7. c \in 0 .. N
    BY <1>1, <2>2
  <2> QED
    BY <1>4, <2>2, <2>3, <2>6, <2>7
<1> QED
  BY <1>2, <1>5 DEF L, N

(* As levels have no node in common, there is room below one that, like    *)
(* all above it, has a node.                                               *)
LEMMA LevelBelow ==
  ASSUME NEW g, IsDigraph(g), NEW L, Layered(g, L), NEW d \in DOMAIN L,
         \A e \in 0 .. d : L[e] # {}
  PROVE  d + 1 \in DOMAIN L
<1> DEFINE N == Cardinality(DOMAIN g)
           first == [e \in 0 .. d |-> CHOOSE x \in L[e] : TRUE]
<1>1. N \in Nat
  BY FS_CardinalityType DEF IsDigraph
<1>2. DOMAIN L = 0 .. N /\ d \in Nat /\ d <= N
      /\ (\A e \in 0 .. N : L[e] \subseteq DOMAIN g)
      /\ (\A c, e \in 0 .. N : c # e => L[c] \cap L[e] = {})
  BY <1>1 DEF Layered
<1>3. \A e \in 0 .. d : first[e] \in L[e] /\ e \in 0 .. N
  BY <1>1, <1>2
<1>4. first \in [0 .. d -> DOMAIN g]
  BY <1>2, <1>3
<1>5. ASSUME NEW c \in 0 .. d, NEW e \in 0 .. d, first[c] = first[e] PROVE c = e
  <2> HIDE DEF first
  <2> QED
    BY <1>2, <1>3, <1>5
<1>6. first \in Injection(0 .. d, DOMAIN g)
  <2> HIDE DEF first
  <2> QED
    BY <1>4, <1>5 DEF Injection, IsInjective
<1>7. IsFiniteSet(DOMAIN g)
  BY DEF IsDigraph
<1>8. Cardinality(0 .. d) <= N
  BY <1>6, <1>7, FS_Injection DEF ExistsInjection
<1>9. Cardinality(0 .. d) = d + 1
  BY <1>2, FS_Interval
<1> QED
  BY <1>1, <1>2, <1>8, <1>9

-----------------------------------------------------------------------------
(* What can be reached: the least set that holds the start and all that    *)
(* arcs from it lead to.                                                   *)
Widens(g, S, B) ==
  B = [d \in Nat |-> IF d = 0 THEN S ELSE LET A == B[d - 1] IN A \cup Image(g, A)]

LEMMA BallsWiden ==
  ASSUME NEW V, NEW g \in [V -> SUBSET V], NEW S, S \subseteq V
  PROVE  /\ Balls(g, S) \in [Nat -> SUBSET V]
         /\ Balls(g, S)[0] = S
         /\ \A d \in Nat : Balls(g, S)[d + 1] = Balls(g, S)[d] \cup Image(g, Balls(g, S)[d])
<1> DEFINE P == SUBSET V
           b == S
           f == [d \in Nat |-> [A \in P |-> A \cup Image(g, A)]]
<1>1. \A A \in P : A \cup Image(g, A) \in P
  BY DEF Image
<1>2. f \in [Nat -> [P -> P]]
  BY <1>1
<1>3. b \in P
  OBVIOUS
<1> HIDE DEF P, f, b
<1>4. PICK F : Recursion(P, b, f, F)
  BY <1>2, <1>3, RecursionSolved
<1>5. \A d \in Nat : d # 0 => f[d][F[d - 1]] = F[d - 1] \cup Image(g, F[d - 1])
  <2> SUFFICES ASSUME NEW d \in Nat, d # 0
               PROVE  f[d][F[d - 1]] = F[d - 1] \cup Image(g, F[d - 1])
    OBVIOUS
  <2>1. F[d - 1] \in P
    BY <1>4 DEF Recursion
  <2> QED
    BY <2>1 DEF f
<1>6. Widens(g, S, F)
  BY <1>4, <1>5 DEF Recursion, Widens, b
<1> DEFINE M == CHOOSE M : Widens(g, S, M)
<1>7. Widens(g, S, M)
  BY <1>6
<1>8. Balls(g, S) = M
  BY DEF Balls, Widens
<1> HIDE DEF M
<1>9. M[0] = S /\ \A d \in Nat : d # 0 => M[d] = M[d - 1] \cup Image(g, M[d - 1])
  BY <1>7 DEF Widens
<1>10. \A d \in Nat : M[d + 1] = M[d] \cup Image(g, M[d])
  <2> TAKE d \in Nat
  <2>1. d + 1 \in Nat /\ d + 1 # 0 /\ (d + 1) - 1 = d
    OBVIOUS
  <2> QED
    BY <1>9, <2>1
<1>11. \A d \in Nat : M[d] \in P
  <2> DEFINE T == {d \in Nat : M[d] \notin P}
  <2> SUFFICES ASSUME T # {} PROVE FALSE
    OBVIOUS
  <2>1. Min(T) \in T /\ \A e \in T : Min(T) <= e
    BY MinOfNat
  <2> DEFINE c == Min(T)
  <2>2. c \in Nat /\ M[c] \notin P /\ c # 0
    BY <1>3, <1>9, <2>1 DEF b
  <2>3. c - 1 \in Nat /\ c - 1 \notin T
    <3> HIDE DEF T
    <3>1. c \in Nat \ {0} /\ \A e \in T : c <= e
      BY <2>1, <2>2
    <3> HIDE DEF c
    <3> QED
      BY <3>1
  <2> HIDE DEF c
  <2>4. M[c - 1] \in P
    BY <2>3
  <2>5. M[c] = M[c - 1] \cup Image(g, M[c - 1])
    BY <1>9, <2>2
  <2> QED
    BY <1>1, <2>2, <2>4, <2>5 DEF P
<1>12. M = [d \in Nat |-> M[d]]
  <2>1. \E R : M = [d \in Nat |-> R[d]]
    <3>1. M = [d \in Nat |-> IF d = 0 THEN S ELSE M[d - 1] \cup Image(g, M[d - 1])]
      BY <1>7 DEF Widens
    <3>2. \A d \in Nat : M[d] = IF d = 0 THEN S ELSE M[d - 1] \cup Image(g, M[d - 1])
      BY <1>9
    <3>3. M = [d \in Nat |-> M[d]]
      BY <3>1, <3>2
    <3> QED
      BY <3>3
  <2> QED
    BY <2>1
<1> QED
  BY <1>8, <1>9, <1>10, <1>11, <1>12 DEF P

LEMMA ReachedLeast ==
  ASSUME NEW V, IsFiniteSet(V), NEW g \in [V -> SUBSET V], NEW S, NEW C,
         S \subseteq C, C \subseteq V, \A u \in C : g[u] \subseteq C
  PROVE  Reached(g, S) \subseteq C
<1> DEFINE B == Balls(g, S)
           T == {d \in Nat : ~(B[d] \subseteq C)}
<1>1. Cardinality(DOMAIN g) \in Nat
  BY FS_CardinalityType
<1>2. B[0] = S /\ \A d \in Nat : B[d + 1] = B[d] \cup Image(g, B[d])
  BY BallsWiden
<1> HIDE DEF B
<1> SUFFICES ASSUME T # {} PROVE FALSE
  BY <1>1 DEF Reached, B
<1>3. Min(T) \in T /\ \A e \in T : Min(T) <= e
  BY MinOfNat
<1> DEFINE c == Min(T)
<1>4. c \in Nat /\ c # 0 /\ ~(B[c] \subseteq C)
  BY <1>2, <1>3
<1>5. c - 1 \in Nat /\ c - 1 \notin T
  <2> HIDE DEF T
  <2>1. c \in Nat \ {0} /\ \A e \in T : c <= e
    BY <1>3, <1>4
  <2> HIDE DEF c
  <2> QED
    BY <2>1
<1> HIDE DEF c
<1>6. B[c - 1] \subseteq C /\ (c - 1) + 1 = c
  BY <1>4, <1>5
<1>7. Image(g, B[c - 1]) \subseteq C
  BY <1>6 DEF Image
<1> QED
  BY <1>2, <1>4, <1>5, <1>6, <1>7

LEMMA IncreasingChain ==
  ASSUME NEW B, \A d \in Nat : B[d] \subseteq B[d + 1]
  PROVE  \A c, d \in Nat : c <= d => B[c] \subseteq B[d]
<1> SUFFICES ASSUME NEW c \in Nat PROVE \A d \in Nat : c <= d => B[c] \subseteq B[d]
  OBVIOUS
<1> DEFINE T == {d \in Nat : c <= d /\ ~(B[c] \subseteq B[d])}
<1> SUFFICES ASSUME T # {} PROVE FALSE
  OBVIOUS
<1>1. Min(T) \in T /\ \A e \in T : Min(T) <= e
  BY MinOfNat
<1> DEFINE m == Min(T)
<1>2. m \in Nat /\ c <= m /\ ~(B[c] \subseteq B[m]) /\ m # c
  BY <1>1
<1>3. m - 1 \in Nat /\ m - 1 \notin T /\ c <= m - 1 /\ (m - 1) + 1 = m
  <2> HIDE DEF T
  <2>1. m \in Nat /\ c <= m /\ m # c /\ \A e \in T : m <= e
    BY <1>1, <1>2
  <2> HIDE DEF m
  <2> QED
    BY <2>1
<1> HIDE DEF m
<1>4. B[c] \subseteq B[m - 1]
  BY <1>3
<1>5. B[m - 1] \subseteq B[(m - 1) + 1]
  BY <1>3
<1> QED
  BY <1>2, <1>3, <1>4, <1>5

(* A ball that grows no more is the last: by then it has the size of its   *)
(* radius at least.                                                        *)
LEMMA ReachedClosed ==
  ASSUME NEW V, IsFiniteSet(V), NEW g \in [V -> SUBSET V], NEW S, S \subseteq V
  PROVE  /\ S \subseteq Reached(g, S) /\ Reached(g, S) \subseteq V
         /\ \A u \in Reached(g, S) : g[u] \subseteq Reached(g, S)
<1> DEFINE B == Balls(g, S)
           N == Cardinality(V)
           Grows(d) == ~(Image(g, B[d]) \subseteq B[d])
<1>1. N \in Nat /\ DOMAIN g = V
  BY FS_CardinalityType
<1>2. /\ B \in [Nat -> SUBSET V] /\ B[0] = S
      /\ \A d \in Nat : B[d + 1] = B[d] \cup Image(g, B[d])
  BY BallsWiden
<1> HIDE DEF B, N
<1>3. \A d \in Nat : S \subseteq B[d]
  <2> DEFINE T == {d \in Nat : ~(S \subseteq B[d])}
  <2> SUFFICES ASSUME T # {} PROVE FALSE
    OBVIOUS
  <2>1. Min(T) \in T /\ \A e \in T : Min(T) <= e
    BY MinOfNat
  <2> DEFINE c == Min(T)
  <2>2. c \in Nat /\ c # 0 /\ ~(S \subseteq B[c])
    BY <1>2, <2>1
  <2>3. c - 1 \in Nat /\ c - 1 \notin T
    <3> HIDE DEF T
    <3>1. c \in Nat \ {0} /\ \A e \in T : c <= e
      BY <2>1, <2>2
    <3> HIDE DEF c
    <3> QED
      BY <3>1
  <2> HIDE DEF c
  <2> QED
    BY <1>2, <2>2, <2>3
<1>4. \A d \in Nat : ~Grows(d) => ~Grows(d + 1)
  <2> TAKE d \in Nat
  <2>1. ~Grows(d) => B[d + 1] = B[d]
    BY <1>2
  <2> QED
    BY <2>1
<1>5. ~Grows(N)
  <2> SUFFICES ASSUME Grows(N) PROVE FALSE
    OBVIOUS
  <2>1. \A d \in 0 .. N : Grows(d)
    <3> DEFINE T == {e \in Nat : e <= N /\ ~Grows(N - e)}
    <3> SUFFICES ASSUME T # {} PROVE FALSE
      <4> SUFFICES ASSUME NEW d \in 0 .. N PROVE Grows(d)
        OBVIOUS
      <4>1. N - d \in Nat /\ N - d <= N /\ N - (N - d) = d
        BY <1>1
      <4> QED
        BY <4>1
    <3>1. Min(T) \in T /\ \A e \in T : Min(T) <= e
      BY MinOfNat
    <3> DEFINE c == Min(T)
    <3>2. c \in Nat /\ c <= N /\ ~Grows(N - c)
      BY <3>1
    <3>3. c # 0
      <4>1. N - 0 = N
        BY <1>1
      <4> QED
        BY <3>2, <4>1
    <3>4. c - 1 \in Nat /\ c - 1 \notin T
      <4> HIDE DEF T
      <4>1. c \in Nat \ {0} /\ \A e \in T : c <= e
        BY <3>1, <3>2, <3>3
      <4> HIDE DEF c
      <4> QED
        BY <4>1
    <3> HIDE DEF c
    <3> HIDE DEF Grows
    <3>5. N - c \in Nat /\ N - (c - 1) = (N - c) + 1 /\ c - 1 <= N
      BY <1>1, <3>2, <3>3
    <3> QED
      BY <1>4, <3>2, <3>4, <3>5
  <2> DEFINE new == [d \in 0 .. N |-> CHOOSE x \in Image(g, B[d]) : x \notin B[d]]
  <2>2. \A d \in 0 .. N : new[d] \in B[d + 1] /\ new[d] \notin B[d] /\ new[d] \in V
    <3> TAKE d \in 0 .. N
    <3>1. d \in Nat /\ d + 1 \in Nat
      BY <1>1
    <3>2. new[d] \in Image(g, B[d]) /\ new[d] \notin B[d]
      BY <2>1
    <3> HIDE DEF new
    <3> QED
      BY <1>2, <3>1, <3>2
  <2>3. \A c, d \in Nat : c <= d => B[c] \subseteq B[d]
    BY <1>2, <1>1, IncreasingChain
  <2>4. ASSUME NEW c \in 0 .. N, NEW d \in 0 .. N, new[c] = new[d] PROVE c = d
    <3>1. c \in Nat /\ d \in Nat /\ (c < d => c + 1 <= d) /\ (d < c => d + 1 <= c)
          /\ c + 1 \in Nat /\ d + 1 \in Nat /\ (c < d \/ d < c \/ c = d)
      BY <1>1
    <3> HIDE DEF new
    <3> QED
      BY <2>2, <2>3, <2>4, <3>1
  <2>5. new \in Injection(0 .. N, V)
    <3>1. new \in [0 .. N -> V]
      BY <2>2
    <3> HIDE DEF new
    <3> QED
      BY <2>4, <3>1 DEF Injection, IsInjective
  <2>6. Cardinality(0 .. N) <= N
    BY <2>5, FS_Injection DEF ExistsInjection, N
  <2>7. Cardinality(0 .. N) = N + 1
    BY <1>1, FS_Interval
  <2> QED
    BY <1>1, <2>6, <2>7
<1>6. Reached(g, S) = B[N]
  BY <1>1 DEF Reached, B, N
<1>7. \A u \in B[N] : g[u] \subseteq Image(g, B[N])
  BY DEF Image
<1> QED
  BY <1>1, <1>2, <1>3, <1>5, <1>6, <1>7

-----------------------------------------------------------------------------
(* Two blocks of one labelling that meet are the same block.               *)
LEMMA BlocksApart ==
  ASSUME NEW p, NEW B \in Blocks(p), NEW C \in Blocks(p), B \cap C # {}
  PROVE  B = C
<1>1. PICK b \in Range(p), c \in Range(p) : B = Block(p, b) /\ C = Block(p, c)
  BY DEF Blocks
<1> QED
  BY <1>1 DEF Block

LEMMA BlocksNotEmpty ==
  ASSUME NEW p, NEW B \in Blocks(p)
  PROVE  B # {}
BY DEF Blocks, Block, Range

(* Partitions that refine each other have the same blocks.                 *)
LEMMA RefinesAntisymmetric ==
  ASSUME NEW p, NEW q,
         Refines(Blocks(p), Blocks(q)), Refines(Blocks(q), Blocks(p))
  PROVE  Blocks(p) \subseteq Blocks(q)
<1> SUFFICES ASSUME NEW B \in Blocks(p) PROVE B \in Blocks(q)
  OBVIOUS
<1>1. PICK C \in Blocks(q) : B \subseteq C
  BY DEF Refines
<1>2. PICK D \in Blocks(p) : C \subseteq D
  BY DEF Refines
<1>3. B = D
  BY <1>1, <1>2, BlocksApart, BlocksNotEmpty
<1> QED
  BY <1>1, <1>2, <1>3

(* The block of a node, and refinement, in terms of labels.                *)
LEMMA BlockOfNode ==
  ASSUME NEW p, NEW u \in DOMAIN p
  PROVE  /\ Block(p, p[u]) \in Blocks(p) /\ u \in Block(p, p[u])
         /\ \A B \in Blocks(p) : u \in B => B = Block(p, p[u])
<1>1. Block(p, p[u]) \in Blocks(p) /\ u \in Block(p, p[u])
  BY DEF Blocks, Block, Range
<1> QED
  BY <1>1, BlocksApart

LEMMA RefinesByLabels ==
  ASSUME NEW p, NEW q, DOMAIN p = DOMAIN q
  PROVE  Refines(Blocks(p), Blocks(q)) <=>
           \A u, v \in DOMAIN p : p[u] = p[v] => q[u] = q[v]
<1>1. ASSUME Refines(Blocks(p), Blocks(q)),
             NEW u \in DOMAIN p, NEW v \in DOMAIN p, p[u] = p[v]
      PROVE  q[u] = q[v]
  <2>1. PICK C \in Blocks(q) : Block(p, p[u]) \subseteq C
    BY <1>1, BlockOfNode DEF Refines
  <2>2. u \in C /\ v \in C
    BY <2>1, <1>1 DEF Block
  <2> QED
    BY <2>1, <2>2 DEF Blocks, Block
<1>2. ASSUME \A u, v \in DOMAIN p : p[u] = p[v] => q[u] = q[v]
      PROVE  Refines(Blocks(p), Blocks(q))
  <2> SUFFICES ASSUME NEW B \in Blocks(p)
               PROVE  \E C \in Blocks(q) : B \subseteq C
    BY DEF Refines
  <2>1. PICK u \in DOMAIN p : B = Block(p, p[u])
    BY DEF Blocks, Range
  <2>2. B \subseteq Block(q, q[u])
    BY <1>2, <2>1 DEF Block
  <2> QED
    BY <2>1, <2>2, BlockOfNode
<1> QED
  BY <1>1, <1>2

(* A labelling has as many blocks as labels.                               *)
LEMMA CountBlocks ==
  ASSUME NEW p, IsFiniteSet(Range(p))
  PROVE  Cardinality(Blocks(p)) = Cardinality(Range(p))
<1> DEFINE f == [c \in Range(p) |-> Block(p, c)]
<1>1. f \in [Range(p) -> Blocks(p)]
  BY DEF Blocks
<1>2. ASSUME NEW c \in Range(p), NEW d \in Range(p), f[c] = f[d]
      PROVE  c = d
  <2>1. PICK u \in DOMAIN p : p[u] = c
    BY DEF Range
  <2>2. u \in Block(p, d)
    BY <1>2, <2>1 DEF Block
  <2> QED
    BY <2>1, <2>2 DEF Block
<1>3. \A B \in Blocks(p) : \E c \in Range(p) : f[c] = B
  BY DEF Blocks
<1> HIDE DEF f
<1>4. f \in Bijection(Range(p), Blocks(p))
  BY <1>1, <1>2, <1>3 DEF Bijection, Injection, Surjection, IsInjective
<1> QED
  BY <1>4, FS_Bijection DEF ExistsBijection

(* A refinement's labels determine the labels of what it refines.          *)
LEMMA LabelMap ==
  ASSUME NEW p, NEW q, DOMAIN p = DOMAIN q, Refines(Blocks(p), Blocks(q))
  PROVE  \E f \in Surjection(Range(p), Range(q)) :
           \A u \in DOMAIN p : p[u] \in Range(p) /\ f[p[u]] = q[u]
<1>1. \A u, v \in DOMAIN p : p[u] = p[v] => q[u] = q[v]
  BY RefinesByLabels
<1> DEFINE f == [c \in Range(p) |-> q[CHOOSE u \in DOMAIN p : p[u] = c]]
<1>2. \A u \in DOMAIN p : p[u] \in Range(p) /\ f[p[u]] = q[u]
  <2> SUFFICES ASSUME NEW u \in DOMAIN p
               PROVE  p[u] \in Range(p) /\ f[p[u]] = q[u]
    OBVIOUS
  <2>1. p[u] \in Range(p)
    BY DEF Range
  <2> DEFINE v == CHOOSE v \in DOMAIN p : p[v] = p[u]
  <2>2. v \in DOMAIN p /\ p[v] = p[u]
    OBVIOUS
  <2>3. f[p[u]] = q[v]
    BY <2>1
  <2> HIDE DEF v, f
  <2> QED
    BY <2>1, <2>2, <2>3, <1>1
<1>3. f \in Surjection(Range(p), Range(q))
  <2>1. \A c \in Range(p) : \E u \in DOMAIN p : p[u] = c
    BY DEF Range
  <2>2. \A c \in Range(p) : f[c] \in Range(q)
    <3> HIDE DEF f
    <3> QED
      BY <2>1, <1>2 DEF Range
  <2>3. \A d \in Range(q) : \E c \in Range(p) : f[c] = d
    <3> HIDE DEF f
    <3> QED
      BY <1>2 DEF Range
  <2>4. f \in [Range(p) -> Range(q)]
    BY <2>2
  <2> HIDE DEF f
  <2> QED
    BY <2>3, <2>4 DEF Surjection
<1> HIDE DEF f
<1> QED
  BY <1>2, <1>3

LEMMA RefinesCount ==
  ASSUME NEW p, NEW q, DOMAIN p = DOMAIN q, IsFiniteSet(Range(p)),
         Refines(Blocks(p), Blocks(q))
  PROVE  /\ Cardinality(Range(q)) \in Nat /\ Cardinality(Range(p)) \in Nat
         /\ Cardinality(Range(q)) <= Cardinality(Range(p))
<1>1. PICK f \in Surjection(Range(p), Range(q)) : TRUE
  BY LabelMap
<1> QED
  BY <1>1, FS_Surjection, FS_CardinalityType

(* A refinement with as many labels is the same partition.                 *)
LEMMA SameCount ==
  ASSUME NEW p, NEW q, DOMAIN p = DOMAIN q, IsFiniteSet(Range(p)),
         Refines(Blocks(p), Blocks(q)),
         Cardinality(Range(p)) = Cardinality(Range(q))
  PROVE  \A u, v \in DOMAIN p : p[u] = p[v] <=> q[u] = q[v]
<1>1. \A u, v \in DOMAIN p : p[u] = p[v] => q[u] = q[v]
  BY RefinesByLabels
<1>2. PICK f \in Surjection(Range(p), Range(q)) :
        \A u \in DOMAIN p : p[u] \in Range(p) /\ f[p[u]] = q[u]
  BY LabelMap
<1>3. f \in Injection(Range(p), Range(q))
  BY <1>2, FS_Surjection
<1>4. \A c, d \in Range(p) : f[c] = f[d] => c = d
  BY <1>3 DEF Injection, IsInjective
<1> QED
  BY <1>1, <1>2, <1>4

-----------------------------------------------------------------------------
(* The edges from u to the nodes of C of a graph given by arrays: their    *)
(* weights are what u sends, in words of m values.                         *)
HasWeights(g) ==
  g.edges \in Nat /\ \A k \in 0 .. g.edges - 1 : g.weight[k] \in Nat
EdgesTo(g, u, C) ==
  {k \in 0 .. g.edges - 1 : g.start[k] = u /\ g.end[k] \in C}
Sent(g, m, u, C) == SumFunctionOnSet(g.weight, EdgesTo(g, u, C)) % m

LEMMA EdgesToFinite ==
  ASSUME NEW g, HasWeights(g), NEW u, NEW C
  PROVE  /\ IsFiniteSet(EdgesTo(g, u, C))
         /\ \A k \in EdgesTo(g, u, C) : g.weight[k] \in Nat
         /\ SumFunctionOnSet(g.weight, EdgesTo(g, u, C)) \in Nat
<1>1. IsFiniteSet(0 .. g.edges - 1)
  <2>1. g.edges \in Nat
    BY DEF HasWeights
  <2> QED
    BY <2>1, FS_Interval
<1>2. IsFiniteSet(EdgesTo(g, u, C))
  BY <1>1, FS_Subset DEF EdgesTo
<1>3. \A k \in EdgesTo(g, u, C) : g.weight[k] \in Nat
  BY DEF EdgesTo, HasWeights
<1> QED
  BY <1>2, <1>3, SumType

(* Weights to sets apart add up.                                           *)
LEMMA SentUnion ==
  ASSUME NEW g, HasWeights(g), NEW m \in Nat \ {0}, NEW u, NEW C, NEW D, C \cap D = {}
  PROVE  Sent(g, m, u, C \cup D) =
           (Sent(g, m, u, C) + Sent(g, m, u, D)) % m
<1> DEFINE s(X) == SumFunctionOnSet(g.weight, EdgesTo(g, u, X))
<1>1. s(C) \in Nat /\ s(D) \in Nat
  BY EdgesToFinite
<1>2. s(C \cup D) = s(C) + s(D)
  <2>1. /\ EdgesTo(g, u, C \cup D) = EdgesTo(g, u, C) \cup EdgesTo(g, u, D)
        /\ EdgesTo(g, u, C) \cap EdgesTo(g, u, D) = {}
    BY DEF EdgesTo
  <2>2. /\ IsFiniteSet(EdgesTo(g, u, C)) /\ IsFiniteSet(EdgesTo(g, u, D))
        /\ \A k \in EdgesTo(g, u, C) \cup EdgesTo(g, u, D) : g.weight[k] \in Nat
    BY EdgesToFinite
  <2> DEFINE A == EdgesTo(g, u, C)  B == EdgesTo(g, u, D)
  <2>3. SumFunctionOnSet(g.weight, A \cup B) =
          SumFunctionOnSet(g.weight, A) + SumFunctionOnSet(g.weight, B)
    <3> HIDE DEF A, B
    <3> QED
      BY <2>1, <2>2, SumUnion DEF A, B
  <2> QED
    BY <2>1, <2>3
<1>3. /\ Sent(g, m, u, C) = s(C) % m
      /\ Sent(g, m, u, D) = s(D) % m
      /\ Sent(g, m, u, C \cup D) = s(C \cup D) % m
  BY DEF Sent
<1> HIDE DEF s
<1>4. s(D) % m \in Nat
  BY <1>1, ModDef
<1>5. ((s(C) % m) + (s(D) % m)) % m = (s(C) + (s(D) % m)) % m
  BY <1>1, <1>4, ModAdd
<1>6. ((s(D) % m) + s(C)) % m = (s(D) + s(C)) % m
  BY <1>1, ModAdd
<1>7. s(C) + (s(D) % m) = (s(D) % m) + s(C) /\ s(C) + s(D) = s(D) + s(C)
  BY <1>1, <1>4
<1> QED
  BY <1>2, <1>3, <1>5, <1>6, <1>7

(* Nodes that send the same weight to each of some sets apart send the     *)
(* same to all of them together.                                           *)
LEMMA SameSentUnion ==
  ASSUME NEW g, HasWeights(g), NEW m \in Nat \ {0}, NEW u, NEW v, NEW P, IsFiniteSet(P),
         \A C, D \in P : C # D => C \cap D = {},
         \A C \in P : Sent(g, m, u, C) = Sent(g, m, v, C)
  PROVE  Sent(g, m, u, UNION P) = Sent(g, m, v, UNION P)
<1> DEFINE T == {Q \in SUBSET P :
                   Sent(g, m, u, UNION Q) # Sent(g, m, v, UNION Q)}
<1>1. T \subseteq SUBSET P
  OBVIOUS
<1> SUFFICES ASSUME T # {} PROVE FALSE
  OBVIOUS
<1>2. PICK Q \in T : \A R \in T : R \subseteq Q => R = Q
  <2> HIDE DEF T
  <2> QED
    BY <1>1, LeastPart
<1>3. Q # {}
  <2> SUFFICES ASSUME Q = {} PROVE FALSE
    OBVIOUS
  <2>1. EdgesTo(g, u, UNION Q) = {} /\ EdgesTo(g, v, UNION Q) = {}
    BY DEF EdgesTo
  <2>2. Sent(g, m, u, UNION Q) = Sent(g, m, v, UNION Q)
    BY <2>1 DEF Sent
  <2> QED
    BY <1>2, <2>2
<1>4. PICK C \in Q : TRUE
  BY <1>3
<1> DEFINE R == Q \ {C}
<1>5. /\ R \subseteq P /\ R \subseteq Q /\ R # Q /\ C \in P
      /\ UNION Q = C \cup UNION R /\ C \cap UNION R = {}
  BY <1>2, <1>4
<1>6. Sent(g, m, u, UNION R) = Sent(g, m, v, UNION R)
  <2>1. R \in SUBSET P /\ R \notin T
    BY <1>2, <1>5
  <2> HIDE DEF R
  <2> QED
    BY <2>1
<1>7. Sent(g, m, u, C) = Sent(g, m, v, C)
  BY <1>5
<1>8. /\ Sent(g, m, u, UNION Q) =
           (Sent(g, m, u, C) + Sent(g, m, u, UNION R)) % m
      /\ Sent(g, m, v, UNION Q) =
           (Sent(g, m, v, C) + Sent(g, m, v, UNION R)) % m
  BY <1>5, SentUnion
<1>9. Sent(g, m, u, UNION Q) # Sent(g, m, v, UNION Q)
  BY <1>2
<1> QED
  BY <1>6, <1>7, <1>8, <1>9

(* In particular to the blocks of a coarser partition.                     *)
LEMMA SameSentCoarser ==
  ASSUME NEW g, HasWeights(g), NEW m \in Nat \ {0}, NEW q, NEW p, IsFiniteSet(DOMAIN q),
         DOMAIN p = DOMAIN q, Refines(Blocks(q), Blocks(p)), NEW u, NEW v,
         \A C \in Blocks(q) : Sent(g, m, u, C) = Sent(g, m, v, C),
         NEW c
  PROVE  Sent(g, m, u, Block(p, c)) = Sent(g, m, v, Block(p, c))
<1> DEFINE P == {C \in Blocks(q) : C \subseteq Block(p, c)}
<1>1. UNION P = Block(p, c)
  <2>1. ASSUME NEW x \in Block(p, c) PROVE \E C \in P : x \in C
    <3>1. x \in DOMAIN q /\ p[x] = c
      BY DEF Block
    <3>2. Block(q, q[x]) \in Blocks(q) /\ x \in Block(q, q[x])
      BY <3>1, BlockOfNode
    <3>3. Block(q, q[x]) \subseteq Block(p, c)
      BY <3>1, RefinesByLabels DEF Block
    <3> QED
      BY <3>2, <3>3
  <2> QED
    BY <2>1
<1>2. IsFiniteSet(P)
  <2>1. P \subseteq SUBSET (DOMAIN q)
    BY DEF Blocks, Block
  <2>2. IsFiniteSet(SUBSET (DOMAIN q))
    BY FS_SUBSET
  <2> HIDE DEF P
  <2> QED
    BY <2>1, <2>2, FS_Subset
<1>3. \A C, D \in P : C # D => C \cap D = {}
  BY BlocksApart
<1>4. \A C \in P : Sent(g, m, u, C) = Sent(g, m, v, C)
  OBVIOUS
<1>5. Sent(g, m, u, UNION P) = Sent(g, m, v, UNION P)
  <2> HIDE DEF P
  <2> QED
    BY <1>2, <1>3, <1>4, SameSentUnion
<1> QED
  BY <1>1, <1>5

-----------------------------------------------------------------------------
(* Reachability: what is reached from a node contains it, is closed under  *)
(* arcs and lies in every closed set with the node.                        *)
LEMMA Reaching ==
  ASSUME NEW g, IsDigraph(g), NEW u \in DOMAIN g
  PROVE  /\ u \in Reached(g, {u}) /\ Reached(g, {u}) \subseteq DOMAIN g
         /\ g[u] \subseteq Reached(g, {u})
         /\ \A v \in Reached(g, {u}) : g[v] \subseteq Reached(g, {u})
         /\ \A C \in SUBSET DOMAIN g :
              u \in C /\ (\A v \in C : g[v] \subseteq C) => Reached(g, {u}) \subseteq C
<1>1. IsFiniteSet(DOMAIN g) /\ g \in [DOMAIN g -> SUBSET DOMAIN g]
  BY DEF IsDigraph
<1>2. {u} \subseteq DOMAIN g
  OBVIOUS
<1>3. /\ {u} \subseteq Reached(g, {u}) /\ Reached(g, {u}) \subseteq DOMAIN g
      /\ \A v \in Reached(g, {u}) : g[v] \subseteq Reached(g, {u})
  BY <1>1, <1>2, ReachedClosed
<1>4. ASSUME NEW C \in SUBSET DOMAIN g, u \in C, \A v \in C : g[v] \subseteq C
      PROVE  Reached(g, {u}) \subseteq C
  BY <1>1, <1>4, ReachedLeast
<1> QED
  BY <1>3, <1>4

LEMMA ReachesFurther ==
  ASSUME NEW g, IsDigraph(g), NEW u \in DOMAIN g, NEW v \in Reached(g, {u})
  PROVE  v \in DOMAIN g /\ Reached(g, {v}) \subseteq Reached(g, {u})
<1>1. /\ Reached(g, {u}) \in SUBSET DOMAIN g
      /\ \A w \in Reached(g, {u}) : g[w] \subseteq Reached(g, {u})
  BY Reaching
<1>2. v \in DOMAIN g
  BY <1>1
<1>3. \A C \in SUBSET DOMAIN g :
        v \in C /\ (\A w \in C : g[w] \subseteq C) => Reached(g, {v}) \subseteq C
  BY <1>2, Reaching
<1> QED
  BY <1>1, <1>2, <1>3
=============================================================================
