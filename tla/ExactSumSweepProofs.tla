------------------------- MODULE ExactSumSweepProofs ------------------------
(***************************************************************************)
(* Theorems of ExactSumSweep: the bounds bracket the eccentricities        *)
(* whatever step is chosen, so that what a level returns is exact.         *)
(***************************************************************************)
EXTENDS ExactSumSweep, BaseLemmas

(***************************************************************************)
(* Distances.  A visit tells how many arcs lead to a node at least.        *)
(***************************************************************************)

LEMMA BallsWithin ==
  ASSUME NEW V, IsFiniteSet(V), NEW g \in [V -> SUBSET V], NEW S, S \subseteq V
  PROVE  /\ \A c, d \in Nat : c <= d => Balls(g, S)[c] \subseteq Balls(g, S)[d]
         /\ \A d \in Nat : Balls(g, S)[d] \subseteq Reached(g, S)
<1> DEFINE B == Balls(g, S)
<1>1. B[0] = S /\ \A d \in Nat : B[d + 1] = B[d] \cup Image(g, B[d])
  BY BallsWiden
<1> DEFINE R == Reached(g, S)
<1>2. S \subseteq R /\ \A u \in R : g[u] \subseteq R
  BY ReachedClosed
<1> HIDE DEF B, R
<1>3. \A c, d \in Nat : c <= d => B[c] \subseteq B[d]
  BY <1>1, IncreasingChain
<1>4. \A d \in Nat : B[d] \subseteq R
  <2> DEFINE T == {d \in Nat : ~(B[d] \subseteq R)}
  <2> SUFFICES ASSUME T # {} PROVE FALSE
    OBVIOUS
  <2>1. Min(T) \in T /\ \A e \in T : Min(T) <= e
    BY MinOfNat
  <2> DEFINE c == Min(T)
  <2>2. c \in Nat /\ c # 0 /\ ~(B[c] \subseteq R)
    BY <1>1, <1>2, <2>1
  <2>3. c - 1 \in Nat /\ c - 1 \notin T
    <3> HIDE DEF T
    <3>1. c \in Nat \ {0} /\ \A e \in T : c <= e
      BY <2>1, <2>2
    <3> HIDE DEF c
    <3> QED
      BY <3>1
  <2> HIDE DEF c
  <2>4. B[c - 1] \subseteq R /\ B[c] = B[c - 1] \cup Image(g, B[c - 1])
    <3>1. (c - 1) + 1 = c
      BY <2>2
    <3> QED
      BY <1>1, <2>3, <3>1
  <2>5. Image(g, B[c - 1]) \subseteq R
    BY <1>2, <2>4 DEF Image
  <2> QED
    BY <2>2, <2>4, <2>5
<1> QED
  BY <1>3, <1>4 DEF B, R

(* The ball of radius d around u holds the nodes at distance d at most.    *)
LEMMA VisitedBalls ==
  ASSUME NEW g, IsDigraph(g), NEW u \in DOMAIN g
  PROVE  /\ DOMAIN Visited(g, u) = Reached(g, {u})
         /\ DOMAIN Visited(g, u) \subseteq DOMAIN g
         /\ \A v \in DOMAIN Visited(g, u) :
              /\ Visited(g, u)[v] \in Nat
              /\ Visited(g, u)[v] <= Cardinality(DOMAIN g)
         /\ \A v, d : d \in Nat =>
              (v \in Balls(g, {u})[d] <=>
                 v \in DOMAIN Visited(g, u) /\ Visited(g, u)[v] <= d)
<1> DEFINE D == Visited(g, u)
           V == DOMAIN g
           B == Balls(g, {u})
           R == Reached(g, {u})
           N == Cardinality(V)
           Within(v) == {d \in 0 .. N : v \in B[d]}
<1>1. IsFiniteSet(V) /\ N \in Nat /\ {u} \subseteq V /\ \A x \in V : g[x] \subseteq V
  BY FS_CardinalityType DEF IsDigraph
<1>2. g \in [V -> SUBSET V]
  <2>1. g = [x \in V |-> g[x]]
    BY DEF IsDigraph
  <2> QED
    BY <1>1, <2>1
<1>3. R \subseteq V
  BY <1>1, <1>2, ReachedClosed
<1>4. /\ \A c, d \in Nat : c <= d => B[c] \subseteq B[d]
      /\ \A d \in Nat : B[d] \subseteq R
  BY <1>1, <1>2, BallsWithin
<1>5. R = B[N]
  BY DEF Reached
<1>6. D = [v \in R |-> Min(Within(v))]
  BY DEF Visited
<1> HIDE DEF D, V, B, R, N
<1>7. ASSUME NEW v \in R
      PROVE  /\ D[v] \in 0 .. N /\ v \in B[D[v]]
             /\ \A d \in 0 .. N : v \in B[d] => D[v] <= d
  <2>1. N \in Within(v) /\ Within(v) \subseteq Nat
    BY <1>1, <1>5
  <2> HIDE DEF Within
  <2>2. Min(Within(v)) \in Within(v) /\ \A d \in Within(v) : Min(Within(v)) <= d
    BY <2>1, MinOfNat
  <2>3. D[v] = Min(Within(v))
    BY <1>6
  <2> QED
    BY <2>2, <2>3 DEF Within
<1>8. ASSUME NEW v, NEW d \in Nat PROVE v \in B[d] <=> v \in R /\ D[v] <= d
  <2>1. ASSUME v \in B[d] PROVE v \in R /\ D[v] <= d
    <3>1. v \in R
      BY <1>4, <2>1
    <3>2. D[v] \in 0 .. N
      BY <1>7, <3>1
    <3>3. CASE d <= N
      <4>1. d \in 0 .. N
        BY <1>1, <3>3
      <4> QED
        BY <1>7, <2>1, <3>1, <4>1
    <3>4. CASE ~(d <= N)
      BY <1>1, <3>1, <3>2, <3>4
    <3> QED
      BY <3>3, <3>4
  <2>2. ASSUME v \in R, D[v] <= d PROVE v \in B[d]
    <3>1. D[v] \in Nat /\ v \in B[D[v]]
      BY <1>1, <1>7, <2>2
    <3> QED
      BY <1>4, <2>2, <3>1
  <2> QED
    BY <2>1, <2>2
<1>9. DOMAIN D = R /\ \A v \in R : D[v] \in Nat /\ D[v] <= N
  BY <1>1, <1>6, <1>7
<1> QED
  BY <1>3, <1>8, <1>9 DEF D, V, B, R, N

(* One arc further is one step further, and every node but the first was   *)
(* met along an arc.                                                       *)
LEMMA VisitedSteps ==
  ASSUME NEW g, IsDigraph(g), NEW u \in DOMAIN g
  PROVE  /\ u \in DOMAIN Visited(g, u) /\ Visited(g, u)[u] = 0
         /\ \A v \in DOMAIN Visited(g, u) : \A w \in g[v] :
              /\ w \in DOMAIN Visited(g, u)
              /\ Visited(g, u)[w] <= Visited(g, u)[v] + 1
         /\ \A w \in DOMAIN Visited(g, u) : w # u =>
              \E v \in DOMAIN Visited(g, u) :
                w \in g[v] /\ Visited(g, u)[w] = Visited(g, u)[v] + 1
<1> DEFINE D == Visited(g, u)
           V == DOMAIN g
           B == Balls(g, {u})
<1>1. IsFiniteSet(V) /\ {u} \subseteq V
  BY DEF IsDigraph
<1>2. g \in [V -> SUBSET V]
  <2>1. g = [x \in V |-> g[x]] /\ \A x \in V : g[x] \subseteq V
    BY DEF IsDigraph
  <2> QED
    BY <2>1
<1>3. B[0] = {u} /\ \A d \in Nat : B[d + 1] = B[d] \cup Image(g, B[d])
  BY <1>1, <1>2, BallsWiden
<1>4. /\ \A v \in DOMAIN D : D[v] \in Nat
      /\ \A v, d : d \in Nat => (v \in B[d] <=> v \in DOMAIN D /\ D[v] <= d)
  BY VisitedBalls
<1> HIDE DEF D, B
<1>5. u \in DOMAIN D /\ D[u] = 0 /\ \A v \in DOMAIN D : D[v] = 0 => v = u
  <2>1. u \in DOMAIN D /\ D[u] <= 0
    BY <1>3, <1>4
  <2>2. \A v \in DOMAIN D : D[v] = 0 => v \in B[0]
    BY <1>4
  <2> QED
    BY <1>3, <1>4, <2>1, <2>2
<1>6. ASSUME NEW v \in DOMAIN D, NEW w \in g[v]
      PROVE  w \in DOMAIN D /\ D[w] <= D[v] + 1
  <2>1. D[v] \in Nat /\ v \in B[D[v]]
    BY <1>4
  <2>2. w \in B[D[v] + 1]
    BY <1>3, <2>1 DEF Image
  <2> QED
    BY <1>4, <2>1, <2>2
<1>7. ASSUME NEW w \in DOMAIN D, w # u
      PROVE  \E v \in DOMAIN D : w \in g[v] /\ D[w] = D[v] + 1
  <2>1. D[w] \in Nat /\ D[w] # 0 /\ w \in B[D[w]]
    BY <1>4, <1>5, <1>7
  <2>2. PICK c \in Nat : D[w] = c + 1
    <3>1. D[w] - 1 \in Nat /\ D[w] = (D[w] - 1) + 1
      BY <2>1
    <3> QED
      BY <3>1
  <2>3. w \notin B[c]
    BY <1>4, <2>2
  <2>4. w \in Image(g, B[c])
    BY <1>3, <2>1, <2>2, <2>3
  <2>5. PICK v \in B[c] : w \in g[v]
    BY <2>4 DEF Image
  <2>6. v \in DOMAIN D /\ D[v] <= c
    BY <1>4, <2>5
  <2>7. D[w] <= D[v] + 1 /\ D[v] \in Nat
    BY <1>4, <1>6, <2>5, <2>6
  <2> QED
    BY <2>2, <2>5, <2>6, <2>7
<1> QED
  BY <1>5, <1>6, <1>7 DEF D

LEMMA Triangle ==
  ASSUME NEW g, IsDigraph(g), NEW u \in DOMAIN g, NEW v \in DOMAIN Visited(g, u),
         NEW w \in DOMAIN Visited(g, v)
  PROVE  /\ w \in DOMAIN Visited(g, u)
         /\ Visited(g, u)[w] <= Visited(g, u)[v] + Visited(g, v)[w]
<1> DEFINE D == Visited(g, u)
           E == Visited(g, v)
           Fine(x) == x \in DOMAIN D /\ D[x] <= D[v] + E[x]
           T == {d \in Nat : \E x \in DOMAIN E : E[x] = d /\ ~Fine(x)}
<1>1. v \in DOMAIN g
  BY VisitedBalls
<1>2. /\ \A x \in DOMAIN D : D[x] \in Nat
      /\ \A x \in DOMAIN D : \A y \in g[x] : y \in DOMAIN D /\ D[y] <= D[x] + 1
  BY <1>1, VisitedBalls, VisitedSteps
<1>3. /\ \A x \in DOMAIN E : E[x] \in Nat
      /\ v \in DOMAIN E /\ E[v] = 0
      /\ \A y \in DOMAIN E : y # v =>
           \E x \in DOMAIN E : y \in g[x] /\ E[y] = E[x] + 1
  BY <1>1, VisitedBalls, VisitedSteps
<1>4. v \in DOMAIN D
  OBVIOUS
<1>5. w \in DOMAIN E
  OBVIOUS
<1> HIDE DEF D, E
<1> SUFFICES ASSUME T # {} PROVE FALSE
  BY <1>3, <1>5 DEF D, E
<1>6. Min(T) \in T /\ \A e \in T : Min(T) <= e
  BY MinOfNat
<1>7. PICK y \in DOMAIN E : E[y] = Min(T) /\ ~Fine(y)
  BY <1>6
<1>8. y # v
  BY <1>2, <1>3, <1>4, <1>7
<1>9. PICK x \in DOMAIN E : y \in g[x] /\ E[y] = E[x] + 1
  BY <1>3, <1>8
<1>10. E[x] \notin T
  <2> HIDE DEF T
  <2> QED
    BY <1>3, <1>6, <1>7, <1>9
<1>11. Fine(x)
  BY <1>3, <1>10
<1> QED
  BY <1>2, <1>3, <1>4, <1>7, <1>9, <1>11

LEMMA TransposedIs ==
  ASSUME NEW g, IsDigraph(g)
  PROVE  /\ IsDigraph(Transposed(g)) /\ DOMAIN Transposed(g) = DOMAIN g
         /\ \A u, v \in DOMAIN g : v \in g[u] <=> u \in Transposed(g)[v]
         /\ Transposed(Transposed(g)) = g
<1>1. DOMAIN Transposed(g) = DOMAIN g
      /\ Transposed(g) \in [DOMAIN g -> SUBSET DOMAIN g]
      /\ \A v \in DOMAIN g : Transposed(g)[v] = {u \in DOMAIN g : v \in g[u]}
  BY DEF Transposed
<1>2. IsDigraph(Transposed(g))
  BY <1>1 DEF IsDigraph
<1>3. Transposed(Transposed(g)) = [v \in DOMAIN g |-> {u \in DOMAIN g : u \in g[v]}]
  <2>1. Transposed(Transposed(g)) =
          [v \in DOMAIN g |-> {u \in DOMAIN g : v \in Transposed(g)[u]}]
    BY <1>1 DEF Transposed
  <2> QED
    BY <1>1, <2>1
<1>4. g = [v \in DOMAIN g |-> g[v]] /\ \A v \in DOMAIN g : g[v] \subseteq DOMAIN g
  BY DEF IsDigraph
<1>5. \A v \in DOMAIN g : {u \in DOMAIN g : u \in g[v]} = g[v]
  BY <1>4
<1> QED
  BY <1>1, <1>2, <1>3, <1>4, <1>5

LEMMA BackwardAtMost ==
  ASSUME NEW g, IsDigraph(g), NEW u \in DOMAIN g, NEW v \in DOMAIN Visited(g, u)
  PROVE  /\ v \in DOMAIN g /\ u \in DOMAIN Visited(Transposed(g), v)
         /\ Visited(Transposed(g), v)[u] <= Visited(g, u)[v]
<1> DEFINE t == Transposed(g)
           D == Visited(g, u)
           Fine(x) == x \in DOMAIN g /\ u \in DOMAIN Visited(t, x) /\ Visited(t, x)[u] <= D[x]
           T == {d \in Nat : \E x \in DOMAIN D : D[x] = d /\ ~Fine(x)}
<1>1. IsDigraph(t) /\ DOMAIN t = DOMAIN g
      /\ \A x, y \in DOMAIN g : y \in g[x] <=> x \in t[y]
  BY TransposedIs
<1>3. /\ \A x \in DOMAIN D : x \in DOMAIN g /\ D[x] \in Nat
      /\ u \in DOMAIN D /\ D[u] = 0
      /\ \A y \in DOMAIN D : y # u =>
           \E x \in DOMAIN D : y \in g[x] /\ D[y] = D[x] + 1
  BY VisitedBalls, VisitedSteps
<1>4. v \in DOMAIN D
  OBVIOUS
<1> HIDE DEF D, t
<1> SUFFICES ASSUME T # {} PROVE FALSE
  BY <1>3, <1>4 DEF D, t
<1>5. Min(T) \in T /\ \A e \in T : Min(T) <= e
  BY MinOfNat
<1>6. PICK y \in DOMAIN D : D[y] = Min(T) /\ ~Fine(y)
  BY <1>5
<1>7. y # u
  <2>1. u \in DOMAIN Visited(t, u) /\ Visited(t, u)[u] = 0
    BY <1>1, VisitedSteps
  <2> QED
    BY <1>3, <1>6, <2>1
<1>8. PICK x \in DOMAIN D : y \in g[x] /\ D[y] = D[x] + 1
  BY <1>3, <1>7
<1>9. D[x] \notin T
  <2> HIDE DEF T
  <2> QED
    BY <1>3, <1>5, <1>6, <1>8
<1>10. Fine(x)
  BY <1>3, <1>9
<1>11. x \in DOMAIN g /\ y \in DOMAIN g /\ x \in t[y]
  BY <1>1, <1>3, <1>8
<1>12. x \in DOMAIN Visited(t, y) /\ Visited(t, y)[x] <= 1
  <2>1. y \in DOMAIN Visited(t, y) /\ Visited(t, y)[y] = 0
        /\ \A z \in DOMAIN Visited(t, y) : \A w \in t[z] :
             w \in DOMAIN Visited(t, y) /\ Visited(t, y)[w] <= Visited(t, y)[z] + 1
    BY <1>1, <1>11, VisitedSteps
  <2> QED
    BY <1>11, <2>1
<1>13. u \in DOMAIN Visited(t, y)
       /\ Visited(t, y)[u] <= Visited(t, y)[x] + Visited(t, x)[u]
  BY <1>1, <1>10, <1>11, <1>12, Triangle
<1>14. Visited(t, y)[u] \in Nat /\ Visited(t, y)[x] \in Nat /\ Visited(t, x)[u] \in Nat
  <2>1. \A z \in DOMAIN g : \A w \in DOMAIN Visited(t, z) :
          Visited(t, z)[w] \in Nat
    BY <1>1, VisitedBalls
  <2> QED
    BY <1>1, <1>10, <1>11, <1>12, <1>13, <2>1
<1> QED
  BY <1>3, <1>6, <1>8, <1>10, <1>11, <1>12, <1>13, <1>14

(* A backward visit tells the distances to its start.                      *)
LEMMA BackwardIs ==
  ASSUME NEW g, IsDigraph(g), NEW u \in DOMAIN g, NEW v \in DOMAIN g
  PROVE  /\ u \in DOMAIN Visited(Transposed(g), v) <=> v \in DOMAIN Visited(g, u)
         /\ v \in DOMAIN Visited(g, u) =>
              Visited(Transposed(g), v)[u] = Visited(g, u)[v]
<1> DEFINE t == Transposed(g)
<1>1. IsDigraph(t) /\ DOMAIN t = DOMAIN g /\ Transposed(t) = g
  BY TransposedIs
<1>3. ASSUME v \in DOMAIN Visited(g, u)
      PROVE  u \in DOMAIN Visited(t, v) /\ Visited(t, v)[u] <= Visited(g, u)[v]
  BY <1>3, BackwardAtMost
<1>4. ASSUME u \in DOMAIN Visited(t, v)
      PROVE  v \in DOMAIN Visited(g, u) /\ Visited(g, u)[v] <= Visited(t, v)[u]
  <2> HIDE DEF t
  <2>1. v \in DOMAIN Visited(Transposed(t), u)
        /\ Visited(Transposed(t), u)[v] <= Visited(t, v)[u]
    BY <1>1, <1>4, BackwardAtMost
  <2> QED
    BY <1>1, <2>1
<1>5. v \in DOMAIN Visited(g, u) => Visited(g, u)[v] \in Nat
  BY VisitedBalls
<1>6. u \in DOMAIN Visited(t, v) => Visited(t, v)[u] \in Nat
  <2> HIDE DEF t
  <2>1. \A x \in DOMAIN Visited(t, v) : Visited(t, v)[x] \in Nat
    BY <1>1, VisitedBalls
  <2> QED
    BY <1>1, <2>1
<1> QED
  BY <1>3, <1>4, <1>5, <1>6

(***************************************************************************)
(* What the choices of the model rest on: largest and first elements exist.*)
(***************************************************************************)

LEMMA LargestIs ==
  ASSUME NEW S, S \subseteq Nat, S # {}, NEW k \in Nat, \A x \in S : x <= k
  PROVE  Largest(S) \in S /\ \A y \in S : y <= Largest(S)
<1> DEFINE T == {k - x : x \in S}
<1>1. T \subseteq Nat /\ T # {}
  <2>1. \A x \in S : k - x \in Nat
    OBVIOUS
  <2> QED
    BY <2>1
<1>2. Min(T) \in T /\ \A t \in T : Min(T) <= t
  BY <1>1, MinOfNat
<1>3. PICK m \in S : Min(T) = k - m
  BY <1>2
<1>4. ASSUME NEW y \in S PROVE y <= m
  <2>1. k - y \in T
    OBVIOUS
  <2>2. k - m <= k - y /\ m \in Nat /\ y \in Nat
    BY <1>2, <1>3, <2>1
  <2> QED
    BY <2>2
<1>5. \E x \in S : \A y \in S : y <= x
  BY <1>4
<1> QED
  BY <1>5, Zenon DEF Largest

HasKeys(S, a, b, c) ==
  \A x \in S : a[x] \in Nat /\ b[x] \in Nat /\ c[x] \in Nat
ComesFirst(x, S, a, b, c) ==
  \A y \in S :
    \/ a[x] < a[y]
    \/ a[x] = a[y] /\ (b[x] < b[y] \/ (b[x] = b[y] /\ c[x] <= c[y]))

LEMMA LexLeast ==
  ASSUME NEW S, S # {}, NEW a, NEW b, NEW c, HasKeys(S, a, b, c)
  PROVE  \E x \in S : ComesFirst(x, S, a, b, c)
<1>0. \A x \in S : a[x] \in Nat /\ b[x] \in Nat /\ c[x] \in Nat
  BY DEF HasKeys
<1> DEFINE A == {a[x] : x \in S}
<1>1. Min(A) \in A /\ \A t \in A : Min(A) <= t
  <2>1. A \subseteq Nat /\ A # {}
    BY <1>0
  <2> HIDE DEF A
  <2> QED
    BY <2>1, MinOfNat
<1> DEFINE SA == {x \in S : a[x] = Min(A)}
           B == {b[x] : x \in SA}
<1>2. Min(B) \in B /\ \A t \in B : Min(B) <= t
  <2>1. SA # {}
    BY <1>1
  <2>2. B \subseteq Nat /\ B # {}
    BY <1>0, <2>1
  <2> HIDE DEF B
  <2> QED
    BY <2>2, MinOfNat
<1> DEFINE SB == {x \in SA : b[x] = Min(B)}
           C == {c[x] : x \in SB}
<1>3. Min(C) \in C /\ \A t \in C : Min(C) <= t
  <2>1. SB # {}
    BY <1>2
  <2>2. C \subseteq Nat /\ C # {}
    BY <1>0, <2>1
  <2> HIDE DEF C
  <2> QED
    BY <2>2, MinOfNat
<1>4. PICK x \in SB : c[x] = Min(C)
  BY <1>3
<1>5. ASSUME NEW y \in S
      PROVE  \/ a[x] < a[y]
             \/ a[x] = a[y] /\ (b[x] < b[y] \/ (b[x] = b[y] /\ c[x] <= c[y]))
  <2>1. x \in S /\ a[x] = Min(A) /\ b[x] = Min(B)
    OBVIOUS
  <2>2. a[y] \in A /\ a[x] <= a[y] /\ a[x] \in Nat /\ a[y] \in Nat
    BY <1>0, <1>1, <2>1
  <2>3. a[x] = a[y] => y \in SA
    BY <2>1
  <2>4. y \in SA => b[y] \in B
    OBVIOUS
  <2>5. y \in SA => b[x] <= b[y] /\ b[x] \in Nat /\ b[y] \in Nat
    <3> HIDE DEF B
    <3> QED
      BY <1>0, <1>2, <2>1, <2>4
  <2>6. y \in SA /\ b[x] = b[y] => y \in SB /\ c[y] \in C
    BY <2>1
  <2>7. y \in SB => c[x] <= c[y]
    <3>1. y \in SB => c[y] \in C
      OBVIOUS
    <3> HIDE DEF SB, C
    <3> QED
      BY <1>3, <1>4, <3>1
  <2> HIDE DEF A, SA, B, SB, C
  <2> QED
    BY <2>2, <2>3, <2>5, <2>6, <2>7
<1>6. x \in S
  OBVIOUS
<1> HIDE DEF A, SA, B, SB, C
<1> QED
  BY <1>5, <1>6 DEF ComesFirst

LEMMA ArgMinExists ==
  ASSUME NEW S, S \subseteq Nat, S # {}, NEW key, NEW p, NEW q, NEW k \in Nat,
         \A v \in S : /\ key[v] = <<p[v], q[v]>>
                      /\ p[v] \in Int /\ p[v] + k \in Nat
                      /\ q[v] \in Int /\ q[v] + k \in Nat
  PROVE  ArgMin(S, key) # {} /\ The(ArgMin(S, key)) \in S
<1> DEFINE a == [v \in S |-> p[v] + k]
           b == [v \in S |-> q[v] + k]
           c == [v \in S |-> v]
<1>1. \A x \in S : a[x] \in Nat /\ b[x] \in Nat /\ c[x] \in Nat
  OBVIOUS
<1>2. \A x \in S : a[x] = p[x] + k /\ b[x] = q[x] + k /\ c[x] = x
  OBVIOUS
<1> HIDE DEF a, b, c
<1>3. PICK x \in S : ComesFirst(x, S, a, b, c)
  <2>1. HasKeys(S, a, b, c)
    BY <1>1 DEF HasKeys
  <2> QED
    BY <2>1, LexLeast
<1>4. ASSUME NEW y \in S
      PROVE  Precedes(key[x], key[y]) \/ (key[x] = key[y] /\ x <= y)
  <2>1. key[x] = <<p[x], q[x]>> /\ key[y] = <<p[y], q[y]>>
    OBVIOUS
  <2>2. \/ p[x] < p[y]
        \/ p[x] = p[y] /\ (q[x] < q[y] \/ (q[x] = q[y] /\ x <= y))
    <3>1. p[x] \in Int /\ p[y] \in Int /\ q[x] \in Int /\ q[y] \in Int
      OBVIOUS
    <3>2. /\ a[x] = p[x] + k /\ b[x] = q[x] + k /\ c[x] = x
          /\ a[y] = p[y] + k /\ b[y] = q[y] + k /\ c[y] = y
      BY <1>2
    <3>3. \/ a[x] < a[y]
          \/ a[x] = a[y] /\ (b[x] < b[y] \/ (b[x] = b[y] /\ c[x] <= c[y]))
      BY <1>3 DEF ComesFirst
    <3> QED
      BY <3>1, <3>2, <3>3
  <2> QED
    BY <2>1, <2>2 DEF Precedes
<1>5. x \in ArgMin(S, key)
  BY <1>4 DEF ArgMin
<1>6. The(ArgMin(S, key)) \in ArgMin(S, key)
  BY <1>5 DEF The
<1> QED
  BY <1>5, <1>6 DEF ArgMin

LEMMA ArgMinWithin ==
  ASSUME NEW S, NEW key
  PROVE  ArgMin(S, key) \subseteq S
BY DEF ArgMin

(* Of the arcs between two components, one is taken.                       *)
LEMMA BestArcIs ==
  ASSUME NEW g, IsDigraph(g), NEW A, A \subseteq Arcs(g), A # {}
  PROVE  BestArc(g, A) \in A
<1> DEFINE n == Cardinality(DOMAIN g)
           a == [x \in A |-> 2 * n - arc_value(g, x)]
           b == [x \in A |-> x[1]]
           c == [x \in A |-> x[2]]
<1>1. IsFiniteSet(DOMAIN g) /\ n \in Nat /\ DOMAIN g \subseteq Nat
  <2>1. IsFiniteSet(DOMAIN g) /\ n \in Nat
    BY FS_CardinalityType DEF IsDigraph
  <2>2. DOMAIN g = 0 .. n - 1
    BY DEF IsDigraph
  <2> QED
    BY <2>1, <2>2
<1>2. \A x \in A : /\ x = <<x[1], x[2]>>
                   /\ x[1] \in DOMAIN g /\ x[2] \in DOMAIN g
  <2>1. \A u \in DOMAIN g : g[u] \subseteq DOMAIN g
    BY DEF IsDigraph
  <2> QED
    BY <2>1 DEF Arcs
<1>3. \A x \in A : arc_value(g, x) \in Nat /\ arc_value(g, x) <= 2 * n
  <2> TAKE x \in A
  <2>1. Transposed(g)[x[1]] \subseteq DOMAIN g /\ g[x[2]] \subseteq DOMAIN g
    BY <1>2 DEF Transposed, IsDigraph
  <2>2. \A T : T \subseteq DOMAIN g => Cardinality(T) \in Nat /\ Cardinality(T) <= n
    BY <1>1, FS_Subset, FS_CardinalityType
  <2>3. /\ Cardinality(Transposed(g)[x[1]]) \in Nat /\ Cardinality(Transposed(g)[x[1]]) <= n
        /\ Cardinality(g[x[2]]) \in Nat /\ Cardinality(g[x[2]]) <= n
    BY <2>1, <2>2
  <2> QED
    BY <1>1, <2>3 DEF arc_value
<1> HIDE DEF n
<1>4. \A x \in A : /\ a[x] = 2 * n - arc_value(g, x) /\ b[x] = x[1] /\ c[x] = x[2]
                   /\ a[x] \in Nat /\ b[x] \in Nat /\ c[x] \in Nat
  <2> TAKE x \in A
  <2>1. 2 * n - arc_value(g, x) \in Nat
    BY <1>1, <1>3
  <2> QED
    BY <1>1, <1>2, <2>1
<1> HIDE DEF a, b, c
<1>5. PICK x \in A : ComesFirst(x, A, a, b, c)
  <2>1. HasKeys(A, a, b, c)
    BY <1>4 DEF HasKeys
  <2> QED
    BY <2>1, LexLeast
<1>6. ASSUME NEW y \in A
      PROVE  \/ arc_value(g, x) > arc_value(g, y)
             \/ arc_value(g, x) = arc_value(g, y) /\ (x = y \/ Precedes(x, y))
  <2>1. \/ a[x] < a[y]
        \/ a[x] = a[y] /\ (b[x] < b[y] \/ (b[x] = b[y] /\ c[x] <= c[y]))
    BY <1>5 DEF ComesFirst
  <2>2. /\ a[x] = 2 * n - arc_value(g, x) /\ a[y] = 2 * n - arc_value(g, y)
        /\ arc_value(g, x) \in Nat /\ arc_value(g, y) \in Nat
    BY <1>3, <1>4
  <2>3. /\ b[x] = x[1] /\ c[x] = x[2] /\ b[y] = y[1] /\ c[y] = y[2]
        /\ b[x] \in Nat /\ b[y] \in Nat /\ c[x] \in Nat /\ c[y] \in Nat
    BY <1>4
  <2>4. x[1] = y[1] /\ x[2] = y[2] => x = y
    BY <1>2
  <2>5. a[x] < a[y] => arc_value(g, x) > arc_value(g, y)
    BY <1>1, <2>2
  <2>6. a[x] = a[y] => arc_value(g, x) = arc_value(g, y)
    BY <1>1, <2>2
  <2>7. b[x] < b[y] \/ (b[x] = b[y] /\ c[x] <= c[y]) => x = y \/ Precedes(x, y)
    BY <2>3, <2>4 DEF Precedes
  <2> QED
    BY <2>1, <2>5, <2>6, <2>7
<1> DEFINE P(z) == \A y \in A :
             \/ arc_value(g, z) > arc_value(g, y)
             \/ arc_value(g, z) = arc_value(g, y) /\ (z = y \/ Precedes(z, y))
<1>7. \E z \in A : P(z)
  BY <1>6
<1>8. BestArc(g, A) = CHOOSE z \in A : P(z)
  BY DEF BestArc
<1> HIDE DEF P
<1> QED
  BY <1>7, <1>8

(***************************************************************************)
(* What an input says: distances, and components linked by arcs.           *)
(***************************************************************************)

Leads(i, u, v) == v \in DOMAIN i.from[u]
Dist(i, u, v) == i.from[u][v]

HasDistances(i) ==
  /\ \A u \in DOMAIN i.graph :
       /\ DOMAIN i.from[u] \subseteq DOMAIN i.graph
       /\ DOMAIN i.to[u] \subseteq DOMAIN i.graph
       /\ Leads(i, u, u) /\ Dist(i, u, u) = 0
       /\ \A v \in DOMAIN i.graph :
            /\ u \in DOMAIN i.to[v] <=> Leads(i, u, v)
            /\ Leads(i, u, v) =>
                 /\ Dist(i, u, v) \in Nat /\ Dist(i, u, v) <= Cardinality(DOMAIN i.graph)
                 /\ i.to[v][u] = Dist(i, u, v)
  /\ \A u, v, w \in DOMAIN i.graph :
       Leads(i, u, v) /\ Leads(i, v, w) =>
         Leads(i, u, w) /\ Dist(i, u, w) <= Dist(i, u, v) + Dist(i, v, w)
  /\ \A u \in DOMAIN i.graph : \A v \in i.graph[u] :
       Leads(i, u, v) /\ Dist(i, u, v) <= 1
  /\ \A u, w \in DOMAIN i.graph : Leads(i, u, w) /\ w # u =>
       \E v \in DOMAIN i.graph :
         Leads(i, u, v) /\ w \in i.graph[v] /\ Dist(i, u, w) = Dist(i, u, v) + 1

LEMMA InputIs ==
  ASSUME NEW i \in Inputs
  PROVE  /\ IsDigraph(i.graph) /\ DOMAIN i.graph # {} /\ IsFiniteSet(DOMAIN i.graph)
         /\ Cardinality(DOMAIN i.graph) \in Nat \ {0}
         /\ Cardinality(DOMAIN i.graph) < Unbounded /\ Unbounded \in Nat
         /\ DOMAIN i.graph \subseteq Nat /\ 0 \in DOMAIN i.graph
         /\ i.radial = << >> \/ \E S \in SUBSET DOMAIN i.graph : i.radial = <<S>>
         /\ i.symm \in BOOLEAN
<1>1. IsInput(i) /\ Unbounded \in Nat
  BY SweepAssumption
<1>2. IsDigraph(i.graph) /\ DOMAIN i.graph # {}
  BY <1>1 DEF IsInput
<1>3. IsFiniteSet(DOMAIN i.graph) /\ DOMAIN i.graph = 0 .. Cardinality(DOMAIN i.graph) - 1
  BY <1>2 DEF IsDigraph
<1>4. Cardinality(DOMAIN i.graph) \in Nat
  BY <1>3, FS_CardinalityType
<1>5. Cardinality(DOMAIN i.graph) # 0
  BY <1>2, <1>3, FS_EmptySet
<1> QED
  BY <1>1, <1>2, <1>3, <1>4, <1>5 DEF IsInput

LEMMA InputFields ==
  ASSUME NEW i \in Inputs
  PROVE  /\ \A u \in DOMAIN i.graph : i.from[u] = Visited(i.graph, u)
         /\ \A u \in DOMAIN i.graph : i.to[u] = Visited(Transposed(i.graph), u)
         /\ \A c \in Range(i.scc) :
              i.scc_graph[c] = IF i.symm THEN {} ELSE Connections(i.graph, i.scc, c)
<1>1. i = Input(i.graph, i.scc, i.symm, i.radial)
  BY SweepAssumption DEF IsInput
<1>2. /\ i.from = [u \in DOMAIN i.graph |-> Visited(i.graph, u)]
      /\ i.to = [u \in DOMAIN i.graph |-> Visited(Transposed(i.graph), u)]
      /\ i.scc_graph = [c \in Range(i.scc) |->
           IF i.symm THEN {} ELSE Connections(i.graph, i.scc, c)]
  <2> DEFINE f == [u \in DOMAIN i.graph |-> Visited(i.graph, u)]
             t == [u \in DOMAIN i.graph |-> Visited(Transposed(i.graph), u)]
             h == [c \in Range(i.scc) |->
                     IF i.symm THEN {} ELSE Connections(i.graph, i.scc, c)]
  <2>1. i = [graph |-> i.graph, scc |-> i.scc, symm |-> i.symm, radial |-> i.radial,
             from |-> f, to |-> t, scc_graph |-> h]
    BY <1>1, Zenon DEF Input
  <2> HIDE DEF f, t, h
  <2>2. i.from = f /\ i.to = t /\ i.scc_graph = h
    BY <2>1
  <2> QED
    BY <2>2 DEF f, t, h
<1> QED
  BY <1>2

LEMMA InputDistances ==
  ASSUME NEW i \in Inputs
  PROVE  HasDistances(i)
<1> DEFINE g == i.graph
<1>1. IsDigraph(g)
  BY InputIs
<1>2. IsDigraph(Transposed(g)) /\ DOMAIN Transposed(g) = DOMAIN g
  BY <1>1, TransposedIs
<1>3. /\ \A u \in DOMAIN g : i.from[u] = Visited(g, u)
      /\ \A u \in DOMAIN g : i.to[u] = Visited(Transposed(g), u)
  BY InputFields
<1> HIDE DEF g
<1>4. ASSUME NEW u \in DOMAIN g
      PROVE  /\ DOMAIN i.from[u] \subseteq DOMAIN g
             /\ DOMAIN i.to[u] \subseteq DOMAIN g
             /\ Leads(i, u, u) /\ Dist(i, u, u) = 0
  <2>1. DOMAIN Visited(g, u) \subseteq DOMAIN g
        /\ DOMAIN Visited(Transposed(g), u) \subseteq DOMAIN g
    BY <1>1, <1>2, VisitedBalls
  <2>2. u \in DOMAIN Visited(g, u) /\ Visited(g, u)[u] = 0
    BY <1>1, VisitedSteps
  <2> QED
    BY <1>3, <2>1, <2>2 DEF Leads, Dist
<1>5. ASSUME NEW u \in DOMAIN g, NEW v \in DOMAIN g
      PROVE  /\ u \in DOMAIN i.to[v] <=> Leads(i, u, v)
             /\ Leads(i, u, v) =>
                  /\ Dist(i, u, v) \in Nat /\ Dist(i, u, v) <= Cardinality(DOMAIN g)
                  /\ i.to[v][u] = Dist(i, u, v)
  <2>1. /\ u \in DOMAIN Visited(Transposed(g), v) <=> v \in DOMAIN Visited(g, u)
        /\ v \in DOMAIN Visited(g, u) =>
             Visited(Transposed(g), v)[u] = Visited(g, u)[v]
    BY <1>1, BackwardIs
  <2>2. v \in DOMAIN Visited(g, u) =>
          /\ Visited(g, u)[v] \in Nat
          /\ Visited(g, u)[v] <= Cardinality(DOMAIN g)
    BY <1>1, VisitedBalls
  <2> QED
    BY <1>3, <2>1, <2>2 DEF Leads, Dist
<1>6. ASSUME NEW u \in DOMAIN g, NEW v \in DOMAIN g, NEW w \in DOMAIN g,
             Leads(i, u, v), Leads(i, v, w)
      PROVE  Leads(i, u, w) /\ Dist(i, u, w) <= Dist(i, u, v) + Dist(i, v, w)
  BY <1>1, <1>3, <1>6, Triangle DEF Leads, Dist
<1>7. ASSUME NEW u \in DOMAIN g, NEW v \in g[u]
      PROVE  Leads(i, u, v) /\ Dist(i, u, v) <= 1
  <2>1. u \in DOMAIN Visited(g, u) /\ Visited(g, u)[u] = 0
    BY <1>1, VisitedSteps
  <2>2. v \in DOMAIN Visited(g, u) /\ Visited(g, u)[v] <= Visited(g, u)[u] + 1
    BY <1>1, <2>1, VisitedSteps
  <2> QED
    BY <1>3, <2>1, <2>2 DEF Leads, Dist
<1>8. ASSUME NEW u \in DOMAIN g, NEW w \in DOMAIN g, Leads(i, u, w), w # u
      PROVE  \E v \in DOMAIN g :
               Leads(i, u, v) /\ w \in g[v] /\ Dist(i, u, w) = Dist(i, u, v) + 1
  <2>1. w \in DOMAIN Visited(g, u)
    BY <1>3, <1>8 DEF Leads
  <2>2. PICK v \in DOMAIN Visited(g, u) :
          w \in g[v] /\ Visited(g, u)[w] = Visited(g, u)[v] + 1
    BY <1>1, <1>8, <2>1, VisitedSteps
  <2>3. v \in DOMAIN g
    BY <1>1, VisitedBalls
  <2> QED
    BY <1>3, <2>2, <2>3 DEF Leads, Dist
<1> QED
  BY <1>4, <1>5, <1>6, <1>7, <1>8 DEF HasDistances, g

(* Components are numbered downwards, and whoever leads to another         *)
(* component leaves its own, and enters the other, along an arc.           *)
LEMMA InputComponents ==
  ASSUME NEW i \in Inputs
  PROVE  /\ \A u \in DOMAIN i.graph : i.scc[u] \in Range(i.scc) /\ i.scc[u] \in Nat
         /\ \E C \in Nat : C # 0 /\ Range(i.scc) = 0 .. C - 1
         /\ IsFiniteSet(Range(i.scc))
         /\ \A c \in Range(i.scc) : \E u \in DOMAIN i.graph : i.scc[u] = c
         /\ \A u, v \in DOMAIN i.graph :
              i.scc[u] = i.scc[v] => Leads(i, u, v) /\ Leads(i, v, u)
         /\ \A u, v \in DOMAIN i.graph :
              Leads(i, u, v) /\ Leads(i, v, u) => i.scc[u] = i.scc[v]
         /\ \A u \in DOMAIN i.graph : \A v \in i.graph[u] : i.scc[u] >= i.scc[v]
<1> DEFINE g == i.graph
           s == i.scc
<1>1. IsDigraph(g) /\ IsFiniteSet(DOMAIN g) /\ DOMAIN g # {}
  BY InputIs
<1>2. s \in [DOMAIN g -> Nat] /\ IsNumbering(g, s)
  BY SweepAssumption DEF IsInput
<1>3. \A u \in DOMAIN g : i.from[u] = Visited(g, u)
  BY InputFields
<1>4. \A u \in DOMAIN g : DOMAIN Visited(g, u) = Reached(g, {u})
  BY <1>1, VisitedBalls
<1> HIDE DEF g, s
<1>5. Range(s) = {s[u] : u \in DOMAIN g}
  BY <1>2 DEF Range
<1>6. IsFiniteSet(Range(s)) /\ Cardinality(Range(s)) \in Nat
  <2>1. s \in Surjection(DOMAIN g, Range(s))
    BY <1>2, <1>5 DEF Surjection
  <2> QED
    BY <1>1, <2>1, FS_Surjection, FS_CardinalityType
<1>7. Range(s) = 0 .. Cardinality(Range(s)) - 1
  BY <1>2 DEF IsNumbering
<1>8. Cardinality(Range(s)) # 0
  <2>1. Range(s) # {}
    BY <1>1, <1>5
  <2> QED
    BY <1>6, <1>7, <2>1
<1>9. \A u \in DOMAIN g : s[u] \in Range(s) /\ s[u] \in Nat
  BY <1>2, <1>5
<1>10. \A u, v \in DOMAIN g : s[u] = s[v] <=> Leads(i, u, v) /\ Leads(i, v, u)
  <2>1. \A u, v \in DOMAIN g : s[u] = s[v] <=> SameComponent(g, u, v)
    BY <1>2 DEF IsNumbering
  <2>2. \A u, v \in DOMAIN g : v \in Reached(g, {u}) <=> Leads(i, u, v)
    BY <1>3, <1>4 DEF Leads
  <2> QED
    BY <2>1, <2>2 DEF SameComponent
<1>11. \A u \in DOMAIN g : \A v \in g[u] : s[u] >= s[v]
  BY <1>2 DEF IsNumbering
<1> QED
  BY <1>5, <1>6, <1>7, <1>8, <1>9, <1>10, <1>11 DEF g, s

LEMMA LeavesAndEnters ==
  ASSUME NEW i \in Inputs, NEW u \in DOMAIN i.graph, NEW v \in DOMAIN i.graph,
         Leads(i, u, v), i.scc[u] # i.scc[v]
  PROVE  /\ \E x \in DOMAIN i.graph : \E y \in i.graph[x] :
              i.scc[x] = i.scc[u] /\ i.scc[y] # i.scc[u] /\ Leads(i, y, v)
         /\ \E x \in DOMAIN i.graph : \E y \in i.graph[x] :
              i.scc[y] = i.scc[v] /\ i.scc[x] # i.scc[v] /\ Leads(i, u, x)
<1> DEFINE V == DOMAIN i.graph
           s == i.scc
           Leaves(w) == \E x \in V : \E y \in i.graph[x] :
                          s[x] = s[u] /\ s[y] # s[u] /\ Leads(i, y, w)
           Enters(w) == \E x \in V : \E y \in i.graph[x] :
                          s[y] = s[w] /\ s[x] # s[w] /\ Leads(i, u, x)
           Fails(w) == w \in V /\ Leads(i, u, w) /\ s[u] # s[w] /\ ~(Leaves(w) /\ Enters(w))
           T == {d \in Nat : \E w \in V : Dist(i, u, w) = d /\ Fails(w)}
<1>1. HasDistances(i)
  BY InputDistances
<1>2. \A w \in V : Leads(i, u, w) => Dist(i, u, w) \in Nat
  BY <1>1 DEF HasDistances
<1> SUFFICES ASSUME T # {} PROVE FALSE
  <2>1. ~Fails(v)
    BY <1>2
  <2> QED
    BY <2>1
<1>3. Min(T) \in T /\ \A e \in T : Min(T) <= e
  BY MinOfNat
<1>4. PICK w \in V : Dist(i, u, w) = Min(T) /\ Fails(w)
  BY <1>3
<1>5. PICK x \in V : Leads(i, u, x) /\ w \in i.graph[x] /\ Dist(i, u, w) = Dist(i, u, x) + 1
  <2>1. w # u /\ w \in V /\ Leads(i, u, w)
    BY <1>4
  <2>2. \A b \in V : Leads(i, u, b) /\ b # u =>
          \E x \in V : Leads(i, u, x) /\ b \in i.graph[x]
                       /\ Dist(i, u, b) = Dist(i, u, x) + 1
    BY <1>1 DEF HasDistances
  <2> QED
    BY <2>1, <2>2
<1>6. Dist(i, u, x) \notin T /\ Dist(i, u, x) \in Nat
  <2> HIDE DEF T
  <2>1. Dist(i, u, x) \in Nat /\ Min(T) = Dist(i, u, x) + 1
    BY <1>2, <1>4, <1>5
  <2> QED
    BY <1>3, <2>1
<1>7. ~Fails(x)
  BY <1>6
<1>8. Leads(i, w, w) /\ Leads(i, x, w)
      /\ \A y \in V : Leads(i, y, x) => Leads(i, y, w)
  BY <1>1, <1>5 DEF HasDistances
<1>9. Leaves(w)
  <2>1. CASE s[x] = s[u]
    BY <1>4, <1>5, <1>8, <2>1
  <2>2. CASE s[x] # s[u]
    <3>1. Leaves(x)
      BY <1>5, <1>7, <2>2
    <3>2. PICK z \in V : \E y \in i.graph[z] :
            s[z] = s[u] /\ s[y] # s[u] /\ Leads(i, y, x)
      BY <3>1
    <3>3. PICK y \in i.graph[z] : s[z] = s[u] /\ s[y] # s[u] /\ Leads(i, y, x)
      BY <3>2
    <3>4. y \in V
      BY InputIs DEF IsDigraph
    <3>5. Leads(i, y, w)
      BY <1>8, <3>3, <3>4
    <3> QED
      BY <3>3, <3>5
  <2> QED
    BY <2>1, <2>2
<1>10. Enters(w)
  <2>1. CASE s[x] # s[w]
    BY <1>4, <1>5, <2>1
  <2>2. CASE s[x] = s[w]
    <3>1. Enters(x)
      BY <1>4, <1>5, <1>7, <2>2
    <3> QED
      BY <2>2, <3>1
  <2> QED
    BY <2>1, <2>2
<1> QED
  BY <1>4, <1>9, <1>10

(* The arcs chosen between components, one for each pair that has any.     *)
LEMMA ConnectionsAre ==
  ASSUME NEW i \in Inputs, NEW c \in Range(i.scc)
  PROVE  /\ \A con \in i.scc_graph[c] :
              /\ con.arc[1] \in DOMAIN i.graph /\ con.arc[2] \in i.graph[con.arc[1]]
              /\ con.arc[2] \in DOMAIN i.graph
              /\ i.scc[con.arc[1]] = c /\ i.scc[con.arc[2]] = con.target
              /\ con.target \in Range(i.scc) /\ con.target < c
         /\ \A x \in DOMAIN i.graph : \A y \in i.graph[x] :
              i.scc[x] = c /\ i.scc[y] # c =>
                \E con \in i.scc_graph[c] : con.target = i.scc[y]
<1> DEFINE g == i.graph
           s == i.scc
           Bridges(d) == {a \in Arcs(g) : s[a[1]] = c /\ s[a[2]] = d}
           Targets == {e \in Range(s) \ {c} : Bridges(e) # {}}
           Con(d) == [target |-> d, arc |-> BestArc(g, Bridges(d))]
<1>1. IsDigraph(g) /\ IsFiniteSet(Range(s)) /\ Range(s) \subseteq Int
  <2>1. PICK C \in Nat : Range(s) = 0 .. C - 1
    BY InputComponents
  <2> QED
    BY <2>1, InputIs, InputComponents
<1>2. i.scc_graph[c] = IF i.symm THEN {} ELSE Connections(g, s, c)
  BY InputFields
<1>3. Connections(g, s, c) = {Con(d) : d \in Targets}
  BY DEF Connections
<1>4. \A a \in Arcs(g) : a[1] \in DOMAIN g /\ a[2] \in g[a[1]] /\ a[2] \in DOMAIN g
  <2>1. \A u \in DOMAIN g : g[u] \subseteq DOMAIN g
    BY <1>1 DEF IsDigraph
  <2> QED
    BY <2>1 DEF Arcs
<1>5. ASSUME NEW con \in i.scc_graph[c]
      PROVE  /\ con.arc[1] \in DOMAIN g /\ con.arc[2] \in g[con.arc[1]]
             /\ con.arc[2] \in DOMAIN g
             /\ s[con.arc[1]] = c /\ s[con.arc[2]] = con.target
             /\ con.target \in Range(s) /\ con.target < c
  <2>1. con \in {Con(d) : d \in Targets}
    BY <1>2, <1>3
  <2>2. PICK d \in Targets : con = Con(d)
    BY <2>1
  <2>3. con.target = d /\ con.arc = BestArc(g, Bridges(d))
    BY <2>2
  <2>4. Bridges(d) \subseteq Arcs(g) /\ Bridges(d) # {} /\ d \in Range(s) \ {c}
    OBVIOUS
  <2>5. con.arc \in Bridges(d)
    <3> HIDE DEF Bridges
    <3> QED
      BY <1>1, <2>3, <2>4, BestArcIs
  <2>6. con.arc \in Arcs(g) /\ s[con.arc[1]] = c /\ s[con.arc[2]] = d
    BY <2>5
  <2>7. d <= c
    BY <1>4, <2>6, InputComponents
  <2> HIDE DEF Bridges, Targets, Con
  <2>8. con.arc[1] \in DOMAIN g /\ con.arc[2] \in g[con.arc[1]] /\ con.arc[2] \in DOMAIN g
    BY <1>4, <2>6
  <2>9. d < c /\ d \in Range(s)
    BY <1>1, <2>4, <2>7
  <2> QED
    BY <2>3, <2>6, <2>8, <2>9
<1>6. ASSUME NEW x \in DOMAIN g, NEW y \in g[x], s[x] = c, s[y] # c
      PROVE  \E con \in i.scc_graph[c] : con.target = s[y]
  <2>1. y \in DOMAIN g
    BY <1>1 DEF IsDigraph
  <2>2. ~i.symm
    <3> SUFFICES ASSUME i.symm PROVE FALSE
      BY InputIs
    <3>1. x \in g[y]
      BY <2>1, SweepAssumption DEF IsInput, Symmetric
    <3>2. Leads(i, x, y) /\ Leads(i, y, x)
      BY <2>1, <3>1, InputDistances DEF HasDistances
    <3> QED
      BY <1>6, <2>1, <3>2, InputComponents
  <2>3. <<x, y>> \in Bridges(s[y])
    BY <1>6 DEF Arcs
  <2>4. s[y] \in Targets
    BY <1>6, <2>1, <2>3, InputComponents
  <2> HIDE DEF Bridges, Targets, Con
  <2>5. Con(s[y]) \in i.scc_graph[c]
    BY <1>2, <1>3, <2>2, <2>4
  <2>6. Con(s[y]).target = s[y]
    BY DEF Con
  <2> QED
    BY <2>5, <2>6
<1> QED
  BY <1>5, <1>6 DEF g, s

(***************************************************************************)
(* The invariant.                                                          *)
(***************************************************************************)

Bounds == [Nodes -> 0 .. num_nodes]
Counts == [Nodes -> Nat]
bounding_pcs == {"bound_forward", "bound_backward", "refine"}
Pcs == {"radial", "sweep", "measure", "choose", "again", "done"} \cup bounding_pcs

StateTypes ==
  /\ input \in Inputs
  /\ forward_low \in Bounds /\ forward_high \in Bounds
  /\ backward_low \in Bounds /\ backward_high \in Bounds
  /\ forward_tot \in Counts /\ backward_tot \in Counts
  /\ diameter_low \in Nat /\ diameter_vertex \in Nodes
  /\ radius_high \in Nat /\ radial_vertices \subseteq Nodes
  /\ iterations \in Nat

ControlTypes ==
  /\ level \in Wanted
  /\ solved \in [AllParts -> Nat \cup {-1}]
  /\ points \in [0 .. 4 -> Nat] /\ missing_nodes \in Nat /\ step \in Nat
  /\ pc \in Pcs

Bracketed ==
  \A v \in Nodes :
    /\ forward_low[v] <= EccOf(v) /\ EccOf(v) <= forward_high[v]
    /\ backward_low[v] <= BackEccOf(v) /\ BackEccOf(v) <= backward_high[v]

DiameterInv ==
  /\ diameter_low \in {0, EccOf(diameter_vertex), BackEccOf(diameter_vertex)}
  /\ \A v \in Nodes : forward_low[v] <= diameter_low /\ backward_low[v] <= diameter_low

(* A radial node whose eccentricity is known has been taken into account,  *)
(* or asks for it at the lock.                                             *)
RadiusInv ==
  /\ radius_high # Unbounded =>
       radius_vertex \in radial_vertices /\ radius_high = EccOf(radius_vertex)
  /\ \A t \in told \cup claims : \E v \in radial_vertices : t = <<EccOf(v), v>>
  /\ \A v \in radial_vertices : forward_low[v] = forward_high[v] =>
       radius_high <= forward_low[v] \/ <<forward_low[v], v>> \in told \cup claims

Core == StateTypes /\ Bracketed /\ DiameterInv /\ RadiusInv

(* Nobody waits at the lock when the next step is chosen.                  *)
LockInv ==
  /\ pc \in {"radial", "choose", "done"} \cup bounding_pcs => Joined
  /\ pc = "radial" =>
       /\ step = 0 /\ radius_high = Unbounded
       /\ \A v \in Nodes : forward_low[v] # forward_high[v]

(* No more are missing than were when last measured.                       *)
MissingInv ==
  /\ pc \notin {"radial", "sweep"} \/ (pc = "sweep" /\ step # 0) => iterations # 0
  /\ pc \in {"choose", "again"} \cup bounding_pcs => LevelMissing <= missing_nodes
  /\ pc = "done" => LevelMissing = 0 /\ \A part \in Promises :
                      Missing[part] = 0 /\ solved[part] # -1

(* What the pivots bound: their own component, those dealt with before,    *)
(* and going downwards all that leads to an arc already crossed.           *)
Crossed(u, d) ==
  \E e \in Range(scc) : e > component /\ \E con \in successors(e) :
    con.target = d /\ Leads(input, u, pivot[e])
PivotInv ==
  pc \in bounding_pcs =>
    /\ pivot \in [Range(scc) -> Nodes] /\ \A c \in Range(scc) : scc[pivot[c]] = c
    /\ ecc_pivot_f \in [Range(scc) -> 0 .. num_nodes]
    /\ ecc_pivot_b \in [Range(scc) -> 0 .. num_nodes]
    /\ component \in Range(scc)
    /\ \A c \in Range(scc) : \A v \in Nodes :
         /\ Leads(input, pivot[c], v) /\ (scc[v] = c \/ c < component \/ pc # "bound_forward") =>
              Dist(input, pivot[c], v) <= ecc_pivot_f[c]
         /\ /\ Leads(input, v, pivot[c])
            /\ scc[v] = c \/ pc = "refine" \/ (pc = "bound_backward" /\ Crossed(v, c))
            => Dist(input, v, pivot[c]) <= ecc_pivot_b[c]

SweepInv == Core /\ ControlTypes /\ LockInv /\ MissingInv /\ PivotInv

(* What every step but the first one does to the bounds.                   *)
Advances ==
  /\ UNCHANGED <<input, radial_vertices>>
  /\ \A v \in Nodes :
       /\ forward_low[v] <= forward_low'[v] /\ forward_high'[v] <= forward_high[v]
       /\ backward_low[v] <= backward_low'[v] /\ backward_high'[v] <= backward_high[v]
  /\ diameter_low <= diameter_low' /\ radius_high' <= radius_high

(***************************************************************************)
(* A visit keeps the bounds.                                               *)
(***************************************************************************)

LEMMA EccentricityIs ==
  ASSUME NEW i \in Inputs, NEW v \in DOMAIN i.graph
  PROVE  /\ Eccentricity(i.from[v]) \in 0 .. Cardinality(DOMAIN i.graph)
         /\ \A w \in DOMAIN i.graph :
              Leads(i, v, w) => Dist(i, v, w) <= Eccentricity(i.from[v])
         /\ \E w \in DOMAIN i.graph :
              Leads(i, v, w) /\ Eccentricity(i.from[v]) = Dist(i, v, w)
         /\ Eccentricity(i.to[v]) \in 0 .. Cardinality(DOMAIN i.graph)
         /\ \A w \in DOMAIN i.graph :
              Leads(i, w, v) => Dist(i, w, v) <= Eccentricity(i.to[v])
         /\ \E w \in DOMAIN i.graph :
              Leads(i, w, v) /\ Eccentricity(i.to[v]) = Dist(i, w, v)
<1> DEFINE V == DOMAIN i.graph
           n == Cardinality(V)
<1>1. HasDistances(i) /\ n \in Nat
  BY InputDistances, InputIs
<1>2. /\ DOMAIN i.from[v] \subseteq V /\ DOMAIN i.to[v] \subseteq V
      /\ Leads(i, v, v)
      /\ \A w \in V : w \in DOMAIN i.from[v] <=> Leads(i, v, w)
      /\ \A w \in V : w \in DOMAIN i.to[v] <=> Leads(i, w, v)
      /\ \A w \in V : Leads(i, v, w) => Dist(i, v, w) \in Nat /\ Dist(i, v, w) <= n
      /\ \A w \in V : Leads(i, w, v) =>
           Dist(i, w, v) \in Nat /\ Dist(i, w, v) <= n /\ i.to[v][w] = Dist(i, w, v)
  BY <1>1 DEF HasDistances, Leads
<1> DEFINE F == {Dist(i, v, w) : w \in {x \in V : Leads(i, v, x)}}
           B == {Dist(i, w, v) : w \in {x \in V : Leads(i, x, v)}}
<1>3. Range(i.from[v]) = F /\ Range(i.to[v]) = B
  <2>1. Range(i.from[v]) = {i.from[v][w] : w \in DOMAIN i.from[v]}
        /\ Range(i.to[v]) = {i.to[v][w] : w \in DOMAIN i.to[v]}
    BY DEF Range
  <2>2. DOMAIN i.from[v] = {x \in V : Leads(i, v, x)}
        /\ DOMAIN i.to[v] = {x \in V : Leads(i, x, v)}
    BY <1>2
  <2>3. \A w : i.from[v][w] = Dist(i, v, w)
    BY DEF Dist
  <2> QED
    BY <1>2, <2>1, <2>2, <2>3
<1> HIDE DEF n
<1>4. F \subseteq Nat /\ F # {} /\ \A x \in F : x <= n
  BY <1>2
<1>5. B \subseteq Nat /\ B # {} /\ \A x \in B : x <= n
  BY <1>2
<1> DEFINE f == Largest(F)
           b == Largest(B)
<1>6. f \in F /\ \A y \in F : y <= f
  <2> HIDE DEF F
  <2> QED
    BY <1>1, <1>4, LargestIs
<1>7. b \in B /\ \A y \in B : y <= b
  <2> HIDE DEF B
  <2> QED
    BY <1>1, <1>5, LargestIs
<1>8. Eccentricity(i.from[v]) = f /\ Eccentricity(i.to[v]) = b
  BY <1>3 DEF Eccentricity
<1> HIDE DEF f, b
<1>9. /\ \A w \in V : Leads(i, v, w) => Dist(i, v, w) \in F
      /\ \A w \in V : Leads(i, w, v) => Dist(i, w, v) \in B
  OBVIOUS
<1>10. (\E w \in V : Leads(i, v, w) /\ f = Dist(i, v, w))
       /\ \E w \in V : Leads(i, w, v) /\ b = Dist(i, w, v)
  BY <1>6, <1>7
<1>11. f \in 0 .. n /\ b \in 0 .. n
  <2> HIDE DEF F, B
  <2> QED
    BY <1>1, <1>4, <1>5, <1>6, <1>7
<1> HIDE DEF F, B
<1> QED
  BY <1>6, <1>7, <1>8, <1>9, <1>10, <1>11 DEF n

(* The same of the input of a state.                                       *)
HasEccentricities ==
  /\ num_nodes \in Nat \ {0} /\ num_nodes < Unbounded /\ Unbounded \in Nat
  /\ IsFiniteSet(Nodes) /\ Nodes \subseteq Nat /\ 0 \in Nodes
  /\ HasDistances(input)
  /\ \A v \in Nodes :
       /\ EccOf(v) \in 0 .. num_nodes /\ BackEccOf(v) \in 0 .. num_nodes
       /\ \A w \in Nodes : Leads(input, v, w) =>
            /\ Dist(input, v, w) <= EccOf(v) /\ Dist(input, v, w) <= BackEccOf(w)
            /\ Dist(input, v, w) \in 0 .. num_nodes
       /\ \E w \in Nodes : Leads(input, v, w) /\ EccOf(v) = Dist(input, v, w)
       /\ \E w \in Nodes : Leads(input, w, v) /\ BackEccOf(v) = Dist(input, w, v)

LEMMA EccentricitiesHold ==
  ASSUME input \in Inputs
  PROVE  HasEccentricities
<1>1. Nodes = DOMAIN input.graph /\ num_nodes = Cardinality(DOMAIN input.graph)
  BY DEF Nodes, graph, num_nodes
<1>2. \A v : EccOf(v) = Eccentricity(input.from[v])
             /\ BackEccOf(v) = Eccentricity(input.to[v])
  BY DEF EccOf, BackEccOf
<1>3. HasDistances(input)
  BY InputDistances
<1>4. \A v, w \in Nodes : Leads(input, v, w) => Dist(input, v, w) \in 0 .. num_nodes
  <2>1. num_nodes \in Nat
    BY <1>1, InputIs
  <2> QED
    BY <1>1, <1>3, <2>1 DEF HasDistances
<1>5. ASSUME NEW v \in Nodes
      PROVE  /\ EccOf(v) \in 0 .. num_nodes /\ BackEccOf(v) \in 0 .. num_nodes
             /\ \A w \in Nodes : Leads(input, v, w) => Dist(input, v, w) <= EccOf(v)
             /\ \A w \in Nodes : Leads(input, w, v) => Dist(input, w, v) <= BackEccOf(v)
             /\ \E w \in Nodes : Leads(input, v, w) /\ EccOf(v) = Dist(input, v, w)
             /\ \E w \in Nodes : Leads(input, w, v) /\ BackEccOf(v) = Dist(input, w, v)
  BY <1>1, <1>2, EccentricityIs
<1>6. /\ num_nodes \in Nat \ {0} /\ num_nodes < Unbounded /\ Unbounded \in Nat
      /\ IsFiniteSet(Nodes) /\ Nodes \subseteq Nat /\ 0 \in Nodes
  BY <1>1, InputIs
<1> QED
  BY <1>3, <1>4, <1>5, <1>6 DEF HasEccentricities

LEMMA InputStays ==
  ASSUME input' = input
  PROVE  /\ Nodes' = Nodes /\ num_nodes' = num_nodes /\ scc' = scc
         /\ Bounds' = Bounds /\ Counts' = Counts
         /\ \A v : EccOf(v)' = EccOf(v) /\ BackEccOf(v)' = BackEccOf(v)
         /\ \A c : successors(c)' = successors(c)
<1>1. Nodes' = Nodes /\ num_nodes' = num_nodes
  BY DEF Nodes, graph, num_nodes
<1> QED
  BY <1>1 DEF scc, Bounds, Counts, EccOf, BackEccOf, successors

LEMMA RaisedIs ==
  ASSUME num_nodes \in Nat, NEW low \in Bounds, NEW high \in Bounds, NEW d,
         \A v \in DOMAIN d : d[v] \in 0 .. num_nodes
  PROVE  /\ Raised(low, high, d) \in Bounds
         /\ \A v \in Nodes :
              \/ Raised(low, high, d)[v] = low[v] /\ ~(v \in DOMAIN d /\ low[v] # high[v] /\ low[v] < d[v])
              \/ /\ Raised(low, high, d)[v] = d[v]
                 /\ v \in DOMAIN d /\ low[v] # high[v] /\ low[v] < d[v]
<1>1. \A v \in Nodes : low[v] \in 0 .. num_nodes
  BY DEF Bounds
<1>2. Raised(low, high, d) \in Bounds
  BY <1>1 DEF Raised, Bounds
<1> QED
  BY <1>2 DEF Raised

LEMMA AddedIs ==
  ASSUME NEW tot \in Counts, NEW d, \A v \in DOMAIN d : d[v] \in Nat
  PROVE  Added(tot, d) \in Counts
BY DEF Added, Counts

LEMMA NewDiameterIs ==
  ASSUME Core, NEW ecc \in Nat, NEW start \in Nodes,
         ecc \in {EccOf(start), BackEccOf(start)}, NewDiameter(ecc, start),
         input' = input
  PROVE  /\ diameter_low' \in Nat /\ diameter_vertex' \in Nodes
         /\ diameter_low' \in {0, EccOf(diameter_vertex'), BackEccOf(diameter_vertex')}
         /\ diameter_low <= diameter_low' /\ ecc <= diameter_low'
<1>1. diameter_low \in Nat /\ diameter_vertex \in Nodes
  BY DEF Core, StateTypes
<1>2. diameter_low \in {0, EccOf(diameter_vertex), BackEccOf(diameter_vertex)}
  BY DEF Core, DiameterInv
<1>3. CASE diameter_low < ecc
  BY <1>1, <1>3 DEF NewDiameter
<1>4. CASE ~(diameter_low < ecc)
  <2>1. diameter_low' = diameter_low /\ diameter_vertex' = diameter_vertex
    BY <1>4 DEF NewDiameter
  <2> QED
    BY <1>1, <1>2, <1>4, <2>1
<1> QED
  BY <1>3, <1>4

LEMMA ForwardKeeps ==
  ASSUME Core, Joined, NEW start \in Nodes, ForwardStep(start),
         UNCHANGED <<input, radial_vertices, claims>>
  PROVE  Core' /\ Advances /\ iterations' # 0 /\ claims' = {}
<1> DEFINE met == input.from[start]
           ecc == EccOf(start)
<1>1. StateTypes /\ Bracketed /\ DiameterInv /\ RadiusInv /\ told = {} /\ claims = {}
  BY DEF Core, Joined
<1>2. /\ input' = input /\ radial_vertices' = radial_vertices
      /\ claims' = {} /\ told' = {} /\ input \in Inputs
  BY <1>1 DEF ForwardStep, StateTypes
<1>3. HasEccentricities
  BY <1>2, EccentricitiesHold
<1>4. /\ Nodes' = Nodes /\ num_nodes' = num_nodes /\ Bounds' = Bounds /\ Counts' = Counts
      /\ \A v : EccOf(v)' = EccOf(v) /\ BackEccOf(v)' = BackEccOf(v)
  BY <1>2, InputStays
<1>5. /\ backward_low' = Raised(backward_low, backward_high, met)
      /\ backward_tot' = Added(backward_tot, met)
      /\ forward_low' = [forward_low EXCEPT ![start] = ecc]
      /\ forward_high' = [forward_high EXCEPT ![start] = ecc]
      /\ NewDiameter(ecc, start)
      /\ radius_high' = IF start \in radial_vertices /\ radius_high > ecc
                        THEN ecc ELSE radius_high
      /\ radius_vertex' = IF start \in radial_vertices /\ radius_high > ecc
                          THEN start ELSE radius_vertex
      /\ iterations' = iterations + 1
      /\ forward_tot' = forward_tot /\ backward_high' = backward_high
  BY DEF ForwardStep, EccOf
<1>6. /\ DOMAIN met \subseteq Nodes
      /\ \A v \in DOMAIN met : met[v] \in 0 .. num_nodes /\ met[v] <= ecc
                               /\ met[v] <= BackEccOf(v) /\ v \in Nodes
  <2>1. DOMAIN met \subseteq Nodes
    BY <1>3 DEF HasEccentricities, HasDistances, Nodes, graph
  <2>2. \A v \in DOMAIN met : Leads(input, start, v) /\ met[v] = Dist(input, start, v)
    BY DEF Leads, Dist
  <2> QED
    BY <1>3, <2>1, <2>2 DEF HasEccentricities
<1>7. ecc \in 0 .. num_nodes /\ num_nodes \in Nat /\ ecc \in Nat
  BY <1>3 DEF HasEccentricities
<1> HIDE DEF met, ecc
<1>8. /\ forward_low \in Bounds /\ forward_high \in Bounds
      /\ backward_low \in Bounds /\ backward_high \in Bounds
      /\ forward_tot \in Counts /\ backward_tot \in Counts
      /\ radius_high \in Nat /\ radial_vertices \subseteq Nodes /\ iterations \in Nat
  BY <1>1 DEF StateTypes
<1>9. \A v \in Nodes : /\ forward_low[v] \in Nat /\ forward_high[v] \in Nat
                       /\ backward_low[v] \in Nat /\ backward_high[v] \in Nat
  BY <1>7, <1>8 DEF Bounds
<1>10. /\ diameter_low' \in Nat /\ diameter_vertex' \in Nodes
       /\ diameter_low' \in {0, EccOf(diameter_vertex'), BackEccOf(diameter_vertex')}
       /\ diameter_low <= diameter_low' /\ ecc <= diameter_low' /\ diameter_low \in Nat
  BY <1>1, <1>2, <1>5, <1>7, NewDiameterIs DEF ecc, StateTypes
<1>11. /\ forward_low' \in Bounds /\ forward_high' \in Bounds
       /\ forward_low'[start] = ecc /\ forward_high'[start] = ecc
       /\ \A v \in Nodes : v # start =>
            forward_low'[v] = forward_low[v] /\ forward_high'[v] = forward_high[v]
  BY <1>5, <1>7, <1>8 DEF Bounds
<1>12. /\ backward_low' \in Bounds
       /\ \A v \in Nodes :
            \/ backward_low'[v] = backward_low[v]
            \/ backward_low'[v] = met[v] /\ v \in DOMAIN met /\ backward_low[v] < met[v]
  BY <1>5, <1>6, <1>7, <1>8, RaisedIs
<1>13. backward_tot' \in Counts
  BY <1>5, <1>6, <1>7, <1>8, AddedIs
<1>14. /\ forward_low[start] <= ecc /\ ecc <= forward_high[start]
       /\ \A v \in Nodes :
            /\ forward_low[v] <= EccOf(v) /\ EccOf(v) <= forward_high[v]
            /\ backward_low[v] <= BackEccOf(v) /\ BackEccOf(v) <= backward_high[v]
  BY <1>1 DEF Bracketed, ecc
<1>15. StateTypes'
  <2>1. radius_high' \in Nat
    BY <1>5, <1>7, <1>8
  <2>2. radial_vertices' \subseteq Nodes'
    BY <1>2, <1>4, <1>8
  <2>3. iterations' \in Nat
    BY <1>5, <1>8
  <2> QED
    BY <1>2, <1>4, <1>5, <1>8, <1>10, <1>11, <1>12, <1>13, <2>1, <2>2, <2>3 DEF StateTypes
<1>16. \A v \in Nodes :
         /\ forward_low'[v] <= EccOf(v) /\ EccOf(v) <= forward_high'[v]
         /\ backward_low'[v] <= BackEccOf(v) /\ BackEccOf(v) <= backward_high'[v]
  <2> TAKE v \in Nodes
  <2>1. forward_low'[v] <= EccOf(v) /\ EccOf(v) <= forward_high'[v]
    <3>1. CASE v = start
      BY <1>7, <1>11, <3>1 DEF ecc
    <3>2. CASE v # start
      BY <1>11, <1>14, <3>2
    <3> QED
      BY <3>1, <3>2
  <2>2. backward_low'[v] <= BackEccOf(v)
    BY <1>6, <1>12, <1>14
  <2> QED
    BY <1>5, <1>14, <2>1, <2>2
<1>17. Bracketed'
  BY <1>4, <1>16 DEF Bracketed
<1>18. DiameterInv'
  <2>1. ASSUME NEW v \in Nodes
        PROVE  forward_low'[v] <= diameter_low' /\ backward_low'[v] <= diameter_low'
    <3>1. forward_low[v] <= diameter_low /\ backward_low[v] <= diameter_low
      BY <1>1 DEF DiameterInv
    <3>2. forward_low'[v] <= diameter_low'
      BY <1>7, <1>9, <1>10, <1>11, <3>1
    <3>3. backward_low'[v] <= diameter_low'
      <4>1. CASE backward_low'[v] = backward_low[v]
        BY <1>9, <1>10, <3>1, <4>1
      <4>2. CASE backward_low'[v] = met[v] /\ v \in DOMAIN met
        BY <1>6, <1>7, <1>10, <4>2
      <4> QED
        BY <1>12, <4>1, <4>2
    <3> QED
      BY <3>2, <3>3
  <2> QED
    BY <1>4, <1>10, <2>1 DEF DiameterInv
<1>19. radius_high' <= radius_high /\ radius_high' \in Nat
       /\ (start \in radial_vertices => radius_high' <= ecc)
  BY <1>5, <1>7, <1>8
<1>20. RadiusInv'
  <2>1. radius_high' # Unbounded =>
          radius_vertex' \in radial_vertices /\ radius_high' = EccOf(radius_vertex')
    <3>1. radius_high # Unbounded =>
            radius_vertex \in radial_vertices /\ radius_high = EccOf(radius_vertex)
      BY <1>1 DEF RadiusInv
    <3>2. CASE start \in radial_vertices /\ radius_high > ecc
      BY <1>5, <3>2 DEF ecc
    <3>3. CASE ~(start \in radial_vertices /\ radius_high > ecc)
      <4>1. radius_high' = radius_high /\ radius_vertex' = radius_vertex
        BY <1>5, <3>3
      <4> QED
        BY <3>1, <4>1
    <3> QED
      BY <3>2, <3>3
  <2>2. ASSUME NEW v \in radial_vertices, forward_low'[v] = forward_high'[v]
        PROVE  radius_high' <= forward_low'[v]
    <3>1. CASE v = start
      BY <1>11, <1>19, <3>1
    <3>2. CASE v # start
      <4>1. forward_low'[v] = forward_low[v] /\ forward_low[v] = forward_high[v] /\ v \in Nodes
        BY <1>8, <1>11, <2>2, <3>2
      <4>2. radius_high <= forward_low[v]
        BY <1>1, <4>1 DEF RadiusInv
      <4> QED
        BY <1>8, <1>9, <1>19, <4>1, <4>2
    <3> QED
      BY <3>1, <3>2
  <2> QED
    BY <1>2, <1>4, <2>1, <2>2 DEF RadiusInv
<1>21. Advances
  <2>1. ASSUME NEW v \in Nodes
        PROVE  /\ forward_low[v] <= forward_low'[v] /\ forward_high'[v] <= forward_high[v]
               /\ backward_low[v] <= backward_low'[v]
               /\ backward_high'[v] <= backward_high[v]
    <3>1. forward_low[v] <= forward_low'[v] /\ forward_high'[v] <= forward_high[v]
      <4>1. CASE v = start
        BY <1>11, <1>14, <4>1
      <4>2. CASE v # start
        BY <1>9, <1>11, <4>2
      <4> QED
        BY <4>1, <4>2
    <3>2. backward_low[v] <= backward_low'[v]
      BY <1>6, <1>7, <1>9, <1>12
    <3> QED
      BY <1>5, <1>9, <3>1, <3>2
  <2> QED
    BY <1>2, <1>10, <1>19, <2>1 DEF Advances
<1>22. iterations' # 0
  BY <1>5, <1>8
<1> QED
  BY <1>2, <1>15, <1>17, <1>18, <1>20, <1>21, <1>22 DEF Core

LEMMA BackwardKeeps ==
  ASSUME Core, Joined, NEW start \in Nodes, BackwardStep(start),
         UNCHANGED <<input, radial_vertices, claims>>
  PROVE  Core' /\ Advances /\ iterations' # 0 /\ claims' = {}
<1> DEFINE met == input.to[start]
           ecc == BackEccOf(start)
<1>1. StateTypes /\ Bracketed /\ DiameterInv /\ RadiusInv /\ told = {} /\ claims = {}
  BY DEF Core, Joined
<1>2. /\ input' = input /\ radial_vertices' = radial_vertices
      /\ claims' = {} /\ input \in Inputs
  BY <1>1 DEF StateTypes
<1>3. HasEccentricities
  BY <1>2, EccentricitiesHold
<1>4. /\ Nodes' = Nodes /\ num_nodes' = num_nodes /\ Bounds' = Bounds /\ Counts' = Counts
      /\ \A v : EccOf(v)' = EccOf(v) /\ BackEccOf(v)' = BackEccOf(v)
  BY <1>2, InputStays
<1>5. /\ forward_low' = Raised(forward_low, forward_high, met)
      /\ forward_tot' = Added(forward_tot, met)
      /\ backward_low' = [backward_low EXCEPT ![start] = ecc]
      /\ backward_high' = [backward_high EXCEPT ![start] = ecc]
      /\ NewDiameter(ecc, start)
      /\ told' = {<<met[v], v>> : v \in
                    {u \in DOMAIN met \cap radial_vertices :
                       forward_low[u] < met[u] /\ met[u] = forward_high[u]}}
      /\ iterations' = iterations + 1
      /\ forward_high' = forward_high /\ backward_tot' = backward_tot
      /\ radius_high' = radius_high /\ radius_vertex' = radius_vertex
  BY DEF BackwardStep, BackEccOf, radius
<1>6. /\ DOMAIN met \subseteq Nodes
      /\ \A v \in DOMAIN met : met[v] \in 0 .. num_nodes /\ met[v] <= ecc
                               /\ met[v] <= EccOf(v) /\ v \in Nodes
  <2>1. DOMAIN met \subseteq Nodes
    BY <1>3 DEF HasEccentricities, HasDistances, Nodes, graph
  <2>2. \A v \in DOMAIN met : Leads(input, v, start) /\ met[v] = Dist(input, v, start)
    BY <1>3, <2>1 DEF HasEccentricities, HasDistances, Nodes, graph
  <2>3. ASSUME NEW v \in DOMAIN met
        PROVE  met[v] \in 0 .. num_nodes /\ met[v] <= ecc /\ met[v] <= EccOf(v) /\ v \in Nodes
    <3>1. v \in Nodes /\ Leads(input, v, start) /\ met[v] = Dist(input, v, start)
      BY <2>1, <2>2
    <3> HIDE DEF met
    <3>2. /\ Dist(input, v, start) <= EccOf(v) /\ Dist(input, v, start) <= BackEccOf(start)
          /\ Dist(input, v, start) \in 0 .. num_nodes
      BY <1>3, <3>1 DEF HasEccentricities
    <3> QED
      BY <3>1, <3>2
  <2> QED
    BY <2>1, <2>3
<1>7. ecc \in 0 .. num_nodes /\ num_nodes \in Nat /\ ecc \in Nat
  BY <1>3 DEF HasEccentricities
<1> HIDE DEF met, ecc
<1>8. /\ forward_low \in Bounds /\ forward_high \in Bounds
      /\ backward_low \in Bounds /\ backward_high \in Bounds
      /\ forward_tot \in Counts /\ backward_tot \in Counts
      /\ radius_high \in Nat /\ radial_vertices \subseteq Nodes /\ iterations \in Nat
  BY <1>1 DEF StateTypes
<1>9. \A v \in Nodes : /\ forward_low[v] \in Nat /\ forward_high[v] \in Nat
                       /\ backward_low[v] \in Nat /\ backward_high[v] \in Nat
  BY <1>7, <1>8 DEF Bounds
<1>10. /\ diameter_low' \in Nat /\ diameter_vertex' \in Nodes
       /\ diameter_low' \in {0, EccOf(diameter_vertex'), BackEccOf(diameter_vertex')}
       /\ diameter_low <= diameter_low' /\ ecc <= diameter_low' /\ diameter_low \in Nat
  BY <1>1, <1>2, <1>5, <1>7, NewDiameterIs DEF ecc, StateTypes
<1>11. /\ backward_low' \in Bounds /\ backward_high' \in Bounds
       /\ backward_low'[start] = ecc /\ backward_high'[start] = ecc
       /\ \A v \in Nodes : v # start =>
            backward_low'[v] = backward_low[v] /\ backward_high'[v] = backward_high[v]
  BY <1>5, <1>7, <1>8 DEF Bounds
<1>12. /\ forward_low' \in Bounds
       /\ \A v \in Nodes :
            \/ forward_low'[v] = forward_low[v]
            \/ /\ forward_low'[v] = met[v] /\ v \in DOMAIN met
               /\ forward_low[v] # forward_high[v] /\ forward_low[v] < met[v]
  BY <1>5, <1>6, <1>7, <1>8, RaisedIs
<1>13. forward_tot' \in Counts
  BY <1>5, <1>6, <1>7, <1>8, AddedIs
<1>14. /\ backward_low[start] <= ecc /\ ecc <= backward_high[start]
       /\ \A v \in Nodes :
            /\ forward_low[v] <= EccOf(v) /\ EccOf(v) <= forward_high[v]
            /\ backward_low[v] <= BackEccOf(v) /\ BackEccOf(v) <= backward_high[v]
  BY <1>1 DEF Bracketed, ecc
<1>15. StateTypes'
  <2>1. radial_vertices' \subseteq Nodes' /\ radius_high' \in Nat
    BY <1>2, <1>4, <1>5, <1>8
  <2>2. iterations' \in Nat
    BY <1>5, <1>8
  <2> QED
    BY <1>2, <1>4, <1>5, <1>8, <1>10, <1>11, <1>12, <1>13, <2>1, <2>2 DEF StateTypes
<1>16. \A v \in Nodes :
         /\ forward_low'[v] <= EccOf(v) /\ EccOf(v) <= forward_high'[v]
         /\ backward_low'[v] <= BackEccOf(v) /\ BackEccOf(v) <= backward_high'[v]
  <2> TAKE v \in Nodes
  <2>1. backward_low'[v] <= BackEccOf(v) /\ BackEccOf(v) <= backward_high'[v]
    <3>1. CASE v = start
      BY <1>7, <1>11, <3>1 DEF ecc
    <3>2. CASE v # start
      BY <1>11, <1>14, <3>2
    <3> QED
      BY <3>1, <3>2
  <2>2. forward_low'[v] <= EccOf(v)
    BY <1>6, <1>12, <1>14
  <2> QED
    BY <1>5, <1>14, <2>1, <2>2
<1>17. Bracketed'
  BY <1>4, <1>16 DEF Bracketed
<1>18. DiameterInv'
  <2>1. ASSUME NEW v \in Nodes
        PROVE  forward_low'[v] <= diameter_low' /\ backward_low'[v] <= diameter_low'
    <3>1. forward_low[v] <= diameter_low /\ backward_low[v] <= diameter_low
      BY <1>1 DEF DiameterInv
    <3>2. backward_low'[v] <= diameter_low'
      BY <1>7, <1>9, <1>10, <1>11, <3>1
    <3>3. forward_low'[v] <= diameter_low'
      <4>1. CASE forward_low'[v] = forward_low[v]
        BY <1>9, <1>10, <3>1, <4>1
      <4>2. CASE forward_low'[v] = met[v] /\ v \in DOMAIN met
        BY <1>6, <1>7, <1>10, <4>2
      <4> QED
        BY <1>12, <4>1, <4>2
    <3> QED
      BY <3>2, <3>3
  <2> QED
    BY <1>4, <1>10, <2>1 DEF DiameterInv
<1>19. RadiusInv'
  <2>1. radius_high' # Unbounded =>
          radius_vertex' \in radial_vertices /\ radius_high' = EccOf(radius_vertex')
    BY <1>1, <1>5 DEF RadiusInv
  <2>2. ASSUME NEW t \in told' PROVE \E v \in radial_vertices : t = <<EccOf(v), v>>
    <3>1. PICK v \in DOMAIN met \cap radial_vertices :
            t = <<met[v], v>> /\ met[v] = forward_high[v]
      BY <1>5, <2>2
    <3>2. met[v] = EccOf(v)
      <4>1. v \in Nodes /\ met[v] <= EccOf(v) /\ EccOf(v) <= forward_high[v]
            /\ met[v] \in 0 .. num_nodes
        BY <1>6, <1>14, <3>1
      <4>2. EccOf(v) \in 0 .. num_nodes
        BY <1>3, <4>1 DEF HasEccentricities
      <4> QED
        BY <1>7, <3>1, <4>1, <4>2
    <3> QED
      BY <3>1, <3>2
  <2>3. ASSUME NEW v \in radial_vertices, forward_low'[v] = forward_high'[v]
        PROVE  radius_high' <= forward_low'[v] \/ <<forward_low'[v], v>> \in told'
    <3>1. v \in Nodes
      BY <1>8
    <3>2. CASE forward_low'[v] = forward_low[v]
      <4>1. radius_high <= forward_low[v]
        BY <1>1, <1>5, <2>3, <3>2 DEF RadiusInv
      <4> QED
        BY <1>5, <3>2, <4>1
    <3>3. CASE forward_low'[v] # forward_low[v]
      <4>1. /\ forward_low'[v] = met[v] /\ v \in DOMAIN met /\ forward_low[v] < met[v]
            /\ met[v] = forward_high[v]
        BY <1>5, <1>12, <2>3, <3>1, <3>3
      <4>2. <<met[v], v>> \in told'
        BY <1>5, <4>1
      <4> QED
        BY <4>1, <4>2
    <3> QED
      BY <3>2, <3>3
  <2> QED
    BY <1>2, <1>4, <2>1, <2>2, <2>3 DEF RadiusInv
<1>20. Advances
  <2>1. ASSUME NEW v \in Nodes
        PROVE  /\ forward_low[v] <= forward_low'[v] /\ forward_high'[v] <= forward_high[v]
               /\ backward_low[v] <= backward_low'[v]
               /\ backward_high'[v] <= backward_high[v]
    <3>1. backward_low[v] <= backward_low'[v] /\ backward_high'[v] <= backward_high[v]
      <4>1. CASE v = start
        BY <1>11, <1>14, <4>1
      <4>2. CASE v # start
        BY <1>9, <1>11, <4>2
      <4> QED
        BY <4>1, <4>2
    <3>2. forward_low[v] <= forward_low'[v]
      BY <1>6, <1>7, <1>9, <1>12
    <3> QED
      BY <1>5, <1>9, <3>1, <3>2
  <2> QED
    BY <1>2, <1>5, <1>8, <1>10, <2>1 DEF Advances
<1>21. iterations' # 0
  BY <1>5, <1>8
<1> QED
  BY <1>2, <1>15, <1>17, <1>18, <1>19, <1>20, <1>21 DEF Core

(***************************************************************************)
(* The other steps keep the bounds too.                                    *)
(***************************************************************************)

LEMMA NothingMoves ==
  ASSUME Core, UNCHANGED <<input, forward, backward, diameter, radius, radial_vertices>>,
         told' \cup claims' = told \cup claims, iterations' \in Nat
  PROVE  Core' /\ Advances
<1>1. StateTypes /\ Bracketed /\ DiameterInv /\ RadiusInv
  BY DEF Core
<1>2. /\ input' = input /\ radial_vertices' = radial_vertices
      /\ forward_low' = forward_low /\ forward_high' = forward_high
      /\ backward_low' = backward_low /\ backward_high' = backward_high
      /\ forward_tot' = forward_tot /\ backward_tot' = backward_tot
      /\ diameter_low' = diameter_low /\ diameter_vertex' = diameter_vertex
      /\ radius_high' = radius_high /\ radius_vertex' = radius_vertex
  BY DEF forward, backward, diameter, radius
<1>3. /\ Nodes' = Nodes /\ num_nodes' = num_nodes /\ Bounds' = Bounds /\ Counts' = Counts
      /\ \A v : EccOf(v)' = EccOf(v) /\ BackEccOf(v)' = BackEccOf(v)
  BY <1>2, InputStays
<1>4. StateTypes'
  BY <1>1, <1>2, <1>3 DEF StateTypes
<1>5. Bracketed'
  BY <1>1, <1>2, <1>3 DEF Bracketed
<1>6. DiameterInv'
  BY <1>1, <1>2, <1>3 DEF DiameterInv
<1>7. RadiusInv'
  BY <1>1, <1>2, <1>3 DEF RadiusInv
<1>8. Advances
  <2>1. num_nodes \in Nat
    BY <1>1, EccentricitiesHold DEF StateTypes, HasEccentricities
  <2>2. \A v \in Nodes : /\ forward_low[v] \in Nat /\ forward_high[v] \in Nat
                         /\ backward_low[v] \in Nat /\ backward_high[v] \in Nat
    BY <1>1, <2>1 DEF StateTypes, Bounds
  <2>3. diameter_low \in Nat /\ radius_high \in Nat
    BY <1>1 DEF StateTypes
  <2> QED
    BY <1>2, <2>2, <2>3 DEF Advances
<1> QED
  BY <1>4, <1>5, <1>6, <1>7, <1>8 DEF Core

LEMMA StepKeeps ==
  ASSUME Core, Joined, NEW S, S \subseteq Nodes, NEW isForward \in BOOLEAN,
         StepSumSweep(S, isForward), UNCHANGED <<input, radial_vertices, claims>>
  PROVE  /\ Core' /\ Advances /\ claims' = {}
         /\ iterations # 0 \/ S # {} => iterations' # 0
<1>1. CASE S = {} /\ NoStep
  <2>1. /\ UNCHANGED <<forward, backward, diameter, radius, iterations, told>>
        /\ UNCHANGED <<input, radial_vertices, claims>>
    BY <1>1 DEF NoStep
  <2>2. iterations \in Nat /\ claims = {}
    BY DEF Core, StateTypes, Joined
  <2>3. Core' /\ Advances
    BY <2>1, <2>2, NothingMoves
  <2> QED
    BY <1>1, <2>1, <2>2, <2>3
<1>2. ASSUME NEW v \in S, IF isForward THEN ForwardStep(v) ELSE BackwardStep(v)
      PROVE  Core' /\ Advances /\ iterations' # 0 /\ claims' = {}
  <2>1. v \in Nodes
    OBVIOUS
  <2>2. CASE isForward
    BY <1>2, <2>1, <2>2, ForwardKeeps
  <2>3. CASE ~isForward
    BY <1>2, <2>1, <2>3, BackwardKeeps
  <2> QED
    BY <2>2, <2>3
<1> QED
  BY <1>1, <1>2 DEF StepSumSweep

(* At the lock the radius only falls, to an eccentricity that was told.    *)
LEMMA LockKeeps ==
  ASSUME Core, NEW t \in told \cup claims,
         UNCHANGED <<input, forward, backward, diameter, radial_vertices, iterations>>,
         told' \cup claims' \subseteq told \cup claims,
         \A r \in told \cup claims : r \in told' \cup claims' \/ (r = t /\ radius_high' <= r[1]),
         \/ UNCHANGED <<radius_high, radius_vertex>>
         \/ radius_high' = t[1] /\ radius_vertex' = t[2] /\ t[1] < radius_high
  PROVE  Core' /\ Advances
<1>1. StateTypes /\ Bracketed /\ DiameterInv /\ RadiusInv
  BY DEF Core
<1>2. /\ input' = input /\ radial_vertices' = radial_vertices /\ iterations' = iterations
      /\ forward_low' = forward_low /\ forward_high' = forward_high
      /\ backward_low' = backward_low /\ backward_high' = backward_high
      /\ forward_tot' = forward_tot /\ backward_tot' = backward_tot
      /\ diameter_low' = diameter_low /\ diameter_vertex' = diameter_vertex
  BY DEF forward, backward, diameter
<1>3. /\ Nodes' = Nodes /\ num_nodes' = num_nodes /\ Bounds' = Bounds /\ Counts' = Counts
      /\ \A v : EccOf(v)' = EccOf(v) /\ BackEccOf(v)' = BackEccOf(v)
  BY <1>2, InputStays
<1>4. HasEccentricities
  BY <1>1, EccentricitiesHold DEF StateTypes
<1>5. PICK u \in radial_vertices : t = <<EccOf(u), u>>
  BY <1>1 DEF RadiusInv
<1>6. u \in Nodes /\ t[1] = EccOf(u) /\ t[2] = u /\ t[1] \in Nat /\ radius_high \in Nat
  <2>1. u \in Nodes /\ radius_high \in Nat
    BY <1>1 DEF StateTypes
  <2>2. EccOf(u) \in Nat
    BY <1>4, <2>1 DEF HasEccentricities
  <2> QED
    BY <1>5, <2>1, <2>2
<1>7. radius_high' \in Nat /\ radius_high' <= radius_high
  BY <1>6
<1>8. StateTypes'
  BY <1>1, <1>2, <1>3, <1>7 DEF StateTypes
<1>9. Bracketed'
  BY <1>1, <1>2, <1>3 DEF Bracketed
<1>10. DiameterInv'
  BY <1>1, <1>2, <1>3 DEF DiameterInv
<1>11. RadiusInv'
  <2>1. radius_high' # Unbounded =>
          radius_vertex' \in radial_vertices /\ radius_high' = EccOf(radius_vertex')
    <3>1. radius_high # Unbounded =>
            radius_vertex \in radial_vertices /\ radius_high = EccOf(radius_vertex)
      BY <1>1 DEF RadiusInv
    <3>2. CASE UNCHANGED <<radius_high, radius_vertex>>
      BY <3>1, <3>2
    <3>3. CASE radius_high' = t[1] /\ radius_vertex' = t[2]
      BY <1>6, <3>3
    <3> QED
      BY <3>2, <3>3
  <2>2. \A r \in told' \cup claims' : \E v \in radial_vertices : r = <<EccOf(v), v>>
    BY <1>1 DEF RadiusInv
  <2>3. ASSUME NEW v \in radial_vertices, forward_low[v] = forward_high[v]
        PROVE  radius_high' <= forward_low[v] \/ <<forward_low[v], v>> \in told' \cup claims'
    <3>1. forward_low[v] \in Nat
      <4>1. v \in Nodes /\ forward_low \in Bounds /\ num_nodes \in Nat
        BY <1>1, <1>4 DEF StateTypes, HasEccentricities
      <4> QED
        BY <4>1 DEF Bounds
    <3>2. radius_high <= forward_low[v] \/ <<forward_low[v], v>> \in told \cup claims
      BY <1>1, <2>3 DEF RadiusInv
    <3>3. CASE radius_high <= forward_low[v]
      BY <1>6, <1>7, <3>1, <3>3
    <3>4. CASE <<forward_low[v], v>> \in told \cup claims
      BY <3>4
    <3> QED
      BY <3>2, <3>3, <3>4
  <2> QED
    BY <1>2, <1>3, <2>1, <2>2, <2>3 DEF RadiusInv
<1>12. Advances
  <2>1. num_nodes \in Nat
    BY <1>4 DEF HasEccentricities
  <2>2. \A v \in Nodes : /\ forward_low[v] \in Nat /\ forward_high[v] \in Nat
                         /\ backward_low[v] \in Nat /\ backward_high[v] \in Nat
    BY <1>1, <2>1 DEF StateTypes, Bounds
  <2>3. diameter_low \in Nat
    BY <1>1 DEF StateTypes
  <2> QED
    BY <1>2, <1>7, <2>2, <2>3 DEF Advances
<1> QED
  BY <1>8, <1>9, <1>10, <1>11, <1>12 DEF Core

LEMMA CompareKeeps ==
  ASSUME Core, NEW t \in told, Compare(t)
  PROVE  Core' /\ Advances
<1>1. /\ UNCHANGED <<input, forward, backward, diameter, radial_vertices, iterations>>
      /\ UNCHANGED <<radius_high, radius_vertex>>
      /\ told' = told \ {t}
      /\ claims' = IF t[1] < radius_high THEN claims \cup {t} ELSE claims
  BY DEF Compare, given, radius
<1>2. radius_high \in Nat /\ t[1] \in Nat
  <2>1. PICK u \in radial_vertices : t = <<EccOf(u), u>>
    BY DEF Core, RadiusInv
  <2>2. EccOf(u) \in Nat
    BY EccentricitiesHold DEF Core, StateTypes, HasEccentricities
  <2> QED
    BY <2>1, <2>2 DEF Core, StateTypes
<1>3. told' \cup claims' \subseteq told \cup claims
  BY <1>1
<1>4. \A r \in told \cup claims : r \in told' \cup claims' \/ (r = t /\ radius_high' <= r[1])
  BY <1>1, <1>2
<1> QED
  BY <1>1, <1>3, <1>4, LockKeeps

LEMMA ClaimKeeps ==
  ASSUME Core, NEW t \in claims, Claim(t)
  PROVE  Core' /\ Advances
<1>1. /\ UNCHANGED <<input, forward, backward, diameter, radial_vertices, iterations>>
      /\ claims' = claims \ {t} /\ told' = told
      /\ radius_high' = IF t[1] < radius_high THEN t[1] ELSE radius_high
      /\ radius_vertex' = IF t[1] < radius_high THEN t[2] ELSE radius_vertex
  BY DEF Claim, given, Wins
<1>2. radius_high \in Nat /\ t[1] \in Nat
  <2>1. PICK u \in radial_vertices : t = <<EccOf(u), u>>
    BY DEF Core, RadiusInv
  <2>2. EccOf(u) \in Nat
    BY EccentricitiesHold DEF Core, StateTypes, HasEccentricities
  <2> QED
    BY <2>1, <2>2 DEF Core, StateTypes
<1>3. \/ UNCHANGED <<radius_high, radius_vertex>>
      \/ radius_high' = t[1] /\ radius_vertex' = t[2] /\ t[1] < radius_high
  BY <1>1
<1>4. told' \cup claims' \subseteq told \cup claims
  BY <1>1
<1>5. \A r \in told \cup claims : r \in told' \cup claims' \/ (r = t /\ radius_high' <= r[1])
  BY <1>1, <1>2
<1> QED
  BY <1>1, <1>3, <1>4, <1>5, LockKeeps

LEMMA RefineKeeps ==
  ASSUME Core, PivotInv, Refine, Joined
  PROVE  Core' /\ Advances /\ iterations' # 0 /\ claims' = {}
<1> DEFINE P(v) == pivot[scc[v]]
<1>1. StateTypes /\ Bracketed /\ DiameterInv /\ RadiusInv /\ told = {} /\ claims = {}
  BY DEF Core, Joined
<1>2. /\ input' = input /\ radial_vertices' = radial_vertices /\ claims' = {}
      /\ forward_low' = forward_low /\ forward_tot' = forward_tot
      /\ backward_low' = backward_low /\ backward_tot' = backward_tot
      /\ diameter_low' = diameter_low /\ diameter_vertex' = diameter_vertex
      /\ radius_high' = radius_high /\ radius_vertex' = radius_vertex
      /\ iterations' = iterations + 3 /\ pc = "refine"
      /\ forward_high' = [v \in Nodes |->
           AtMost(forward_high[v], dist_pivot_b(v) + ecc_pivot_f[scc[v]])]
      /\ backward_high' = [v \in Nodes |->
           AtMost(backward_high[v], dist_pivot_f(v) + ecc_pivot_b[scc[v]])]
      /\ told' = {<<forward_low[v], v>> : v \in
                {u \in radial_vertices : forward_high'[u] = forward_low[u]}}
  BY <1>1 DEF Refine, given, diameter, radius
<1>3. HasEccentricities
  BY <1>1, EccentricitiesHold DEF StateTypes
<1>4. /\ Nodes' = Nodes /\ num_nodes' = num_nodes /\ Bounds' = Bounds /\ Counts' = Counts
      /\ \A v : EccOf(v)' = EccOf(v) /\ BackEccOf(v)' = BackEccOf(v)
  BY <1>2, InputStays
<1>5. num_nodes \in Nat /\ HasDistances(input) /\ input \in Inputs
      /\ Nodes = DOMAIN input.graph /\ scc = input.scc
  BY <1>1, <1>3 DEF HasEccentricities, StateTypes, Nodes, graph, scc
<1>6. /\ pivot \in [Range(scc) -> Nodes]
      /\ \A c \in Range(scc) : scc[pivot[c]] = c
      /\ ecc_pivot_f \in [Range(scc) -> 0 .. num_nodes]
      /\ ecc_pivot_b \in [Range(scc) -> 0 .. num_nodes]
      /\ \A c \in Range(scc) : \A v \in Nodes :
           /\ Leads(input, pivot[c], v) => Dist(input, pivot[c], v) <= ecc_pivot_f[c]
           /\ Leads(input, v, pivot[c]) => Dist(input, v, pivot[c]) <= ecc_pivot_b[c]
  BY <1>2 DEF PivotInv, bounding_pcs
<1>7. ASSUME NEW v \in Nodes
      PROVE  /\ scc[v] \in Range(scc) /\ P(v) \in Nodes
             /\ Leads(input, v, P(v)) /\ Leads(input, P(v), v)
             /\ dist_pivot_b(v) = Dist(input, v, P(v))
             /\ dist_pivot_f(v) = Dist(input, P(v), v)
             /\ ecc_pivot_f[scc[v]] \in Nat /\ ecc_pivot_b[scc[v]] \in Nat
             /\ Dist(input, v, P(v)) \in Nat /\ Dist(input, P(v), v) \in Nat
  <2>1. scc[v] \in Range(scc)
    BY <1>5, InputComponents
  <2>2. P(v) \in Nodes /\ scc[P(v)] = scc[v]
    BY <1>6, <2>1
  <2>3. Leads(input, v, P(v)) /\ Leads(input, P(v), v)
    BY <1>5, <2>2, InputComponents
  <2>4. dist_pivot_b(v) = Dist(input, v, P(v)) /\ dist_pivot_f(v) = Dist(input, P(v), v)
    <3>1. dist_pivot_f(v) = input.from[P(v)][v] /\ dist_pivot_b(v) = input.to[P(v)][v]
      BY DEF dist_pivot_f, dist_pivot_b
    <3> HIDE DEF P
    <3>2. input.to[P(v)][v] = Dist(input, v, P(v))
      BY <1>5, <2>2, <2>3 DEF HasDistances
    <3> QED
      BY <3>1, <3>2 DEF Dist
  <2>5. ecc_pivot_f[scc[v]] \in Nat /\ ecc_pivot_b[scc[v]] \in Nat
    BY <1>5, <1>6, <2>1
  <2> HIDE DEF P
  <2>6. Dist(input, v, P(v)) \in Nat /\ Dist(input, P(v), v) \in Nat
    BY <1>5, <2>2, <2>3 DEF HasDistances
  <2> QED
    BY <2>1, <2>2, <2>3, <2>4, <2>5, <2>6
<1>8. ASSUME NEW v \in Nodes
      PROVE  /\ EccOf(v) <= dist_pivot_b(v) + ecc_pivot_f[scc[v]]
             /\ BackEccOf(v) <= dist_pivot_f(v) + ecc_pivot_b[scc[v]]
  <2>1. /\ P(v) \in Nodes /\ scc[v] \in Range(scc)
        /\ Leads(input, v, P(v)) /\ Leads(input, P(v), v)
    BY <1>7
  <2>2. EccOf(v) <= dist_pivot_b(v) + ecc_pivot_f[scc[v]]
    <3>1. PICK w \in Nodes : Leads(input, v, w) /\ EccOf(v) = Dist(input, v, w)
      BY <1>3 DEF HasEccentricities
    <3>2. Dist(input, P(v), w) <= ecc_pivot_f[scc[v]] /\ Leads(input, P(v), w)
      <4>1. Leads(input, P(v), w)
        <5> HIDE DEF P
        <5> QED
          BY <1>5, <2>1, <3>1 DEF HasDistances
      <4> QED
        BY <1>6, <2>1, <4>1
    <3> HIDE DEF P
    <3>3. Dist(input, v, w) <= Dist(input, v, P(v)) + Dist(input, P(v), w)
      BY <1>5, <2>1, <3>1, <3>2 DEF HasDistances
    <3>4. Dist(input, v, w) \in Nat /\ Dist(input, P(v), w) \in Nat
      BY <1>5, <2>1, <3>1, <3>2 DEF HasDistances
    <3> QED
      BY <1>7, <3>1, <3>2, <3>3, <3>4
  <2>3. BackEccOf(v) <= dist_pivot_f(v) + ecc_pivot_b[scc[v]]
    <3>1. PICK w \in Nodes : Leads(input, w, v) /\ BackEccOf(v) = Dist(input, w, v)
      BY <1>3 DEF HasEccentricities
    <3>2. Dist(input, w, P(v)) <= ecc_pivot_b[scc[v]] /\ Leads(input, w, P(v))
      <4>1. Leads(input, w, P(v))
        <5> HIDE DEF P
        <5> QED
          BY <1>5, <2>1, <3>1 DEF HasDistances
      <4> QED
        BY <1>6, <2>1, <4>1
    <3> HIDE DEF P
    <3>3. Dist(input, w, v) <= Dist(input, w, P(v)) + Dist(input, P(v), v)
      BY <1>5, <2>1, <3>1, <3>2 DEF HasDistances
    <3>4. Dist(input, w, v) \in Nat /\ Dist(input, w, P(v)) \in Nat
      BY <1>5, <2>1, <3>1, <3>2 DEF HasDistances
    <3> QED
      BY <1>7, <3>1, <3>2, <3>3, <3>4
  <2> QED
    BY <2>2, <2>3
<1>9. /\ forward_low \in Bounds /\ forward_high \in Bounds
      /\ backward_low \in Bounds /\ backward_high \in Bounds
      /\ radial_vertices \subseteq Nodes /\ iterations \in Nat
      /\ diameter_low \in Nat /\ radius_high \in Nat
  BY <1>1 DEF StateTypes
<1>10. \A v \in Nodes :
         /\ forward_low[v] \in Nat /\ forward_high[v] \in 0 .. num_nodes
         /\ backward_low[v] \in Nat /\ backward_high[v] \in 0 .. num_nodes
         /\ EccOf(v) \in Nat /\ BackEccOf(v) \in Nat
         /\ forward_low[v] <= EccOf(v) /\ EccOf(v) <= forward_high[v]
         /\ backward_low[v] <= BackEccOf(v) /\ BackEccOf(v) <= backward_high[v]
  BY <1>1, <1>3, <1>5, <1>9 DEF Bounds, Bracketed, HasEccentricities
<1>11. ASSUME NEW v \in Nodes
       PROVE  /\ forward_high'[v] \in 0 .. num_nodes /\ forward_high'[v] <= forward_high[v]
              /\ backward_high'[v] \in 0 .. num_nodes /\ backward_high'[v] <= backward_high[v]
              /\ EccOf(v) <= forward_high'[v] /\ BackEccOf(v) <= backward_high'[v]
  <2>1. /\ forward_high'[v] = AtMost(forward_high[v], dist_pivot_b(v) + ecc_pivot_f[scc[v]])
        /\ backward_high'[v] = AtMost(backward_high[v], dist_pivot_f(v) + ecc_pivot_b[scc[v]])
    BY <1>2
  <2>2. /\ dist_pivot_b(v) + ecc_pivot_f[scc[v]] \in Nat
        /\ dist_pivot_f(v) + ecc_pivot_b[scc[v]] \in Nat
    BY <1>7
  <2>3. \A a \in 0 .. num_nodes : \A b, e \in Nat :
          /\ AtMost(a, b) \in 0 .. num_nodes /\ AtMost(a, b) <= a
          /\ e <= a /\ e <= b => e <= AtMost(a, b)
    BY <1>5 DEF AtMost
  <2> QED
    BY <1>8, <1>10, <2>1, <2>2, <2>3
<1>12. forward_high' \in Bounds /\ backward_high' \in Bounds
  BY <1>2, <1>11 DEF Bounds
<1>13. StateTypes'
  BY <1>1, <1>2, <1>4, <1>9, <1>12 DEF StateTypes
<1>14. Bracketed'
  BY <1>2, <1>4, <1>10, <1>11 DEF Bracketed
<1>15. DiameterInv'
  BY <1>1, <1>2, <1>4 DEF DiameterInv
<1>16. RadiusInv'
  <2>1. radius_high' # Unbounded =>
          radius_vertex' \in radial_vertices /\ radius_high' = EccOf(radius_vertex')
    BY <1>1, <1>2 DEF RadiusInv
  <2>2. ASSUME NEW t \in told' PROVE \E v \in radial_vertices : t = <<EccOf(v), v>>
    <3>1. PICK v \in radial_vertices :
            t = <<forward_low[v], v>> /\ forward_high'[v] = forward_low[v]
      BY <1>2, <2>2
    <3>2. forward_low[v] = EccOf(v)
      BY <1>9, <1>10, <1>11, <3>1
    <3> QED
      BY <3>1, <3>2
  <2>3. \A v \in radial_vertices : forward_low'[v] = forward_high'[v] =>
          <<forward_low'[v], v>> \in told'
    BY <1>2
  <2> QED
    BY <1>2, <1>4, <2>1, <2>2, <2>3 DEF RadiusInv
<1>17. Advances
  BY <1>2, <1>9, <1>10, <1>11 DEF Advances
<1>18. iterations' # 0
  BY <1>2, <1>9
<1> QED
  BY <1>2, <1>13, <1>14, <1>15, <1>16, <1>17, <1>18 DEF Core

(***************************************************************************)
(* What is missing only falls.                                             *)
(***************************************************************************)

OpenRadial == {v \in OpenForward \cap radial_vertices : forward_low[v] < radius_high}
OpenHigh == {v \in OpenForward : forward_high[v] > diameter_low}
OpenBack == {v \in OpenBackward : backward_high[v] > diameter_low}

MissingFacts ==
  /\ \A S : S \subseteq Nodes => IsFiniteSet(S) /\ Cardinality(S) \in Nat
  /\ Missing.radius = Cardinality(OpenRadial)
  /\ Missing.diameter = AtMost(Cardinality(OpenHigh), Cardinality(OpenBack))
  /\ Missing.forward = Cardinality(OpenForward)
  /\ Missing.all = Cardinality(OpenForward) + Cardinality(OpenBackward)
  /\ OpenRadial \subseteq OpenForward /\ OpenHigh \subseteq OpenForward
  /\ OpenBack \subseteq OpenBackward
  /\ OpenForward \subseteq Nodes /\ OpenBackward \subseteq Nodes

LEMMA MissingIs == Core => MissingFacts
<1> SUFFICES ASSUME Core PROVE MissingFacts
  OBVIOUS
<1>1. IsFiniteSet(Nodes)
  BY EccentricitiesHold DEF Core, StateTypes, HasEccentricities
<1>2. \A S : S \subseteq Nodes => IsFiniteSet(S) /\ Cardinality(S) \in Nat
  BY <1>1, FS_Subset, FS_CardinalityType
<1> QED
  BY <1>2 DEF MissingFacts, Missing, Count, OpenRadial, OpenHigh, OpenBack, OpenForward,
              OpenBackward

LEMMA MissingNat ==
  ASSUME Core, level \in Wanted
  PROVE  /\ \A part \in AllParts : Missing[part] \in Nat
         /\ LevelMissing \in Nat
         /\ LevelMissing = 0 => \A part \in Promises : Missing[part] = 0
         /\ Promises \subseteq AllParts
<1> DEFINE r == Cardinality(OpenRadial)
           h == Cardinality(OpenHigh)
           k == Cardinality(OpenBack)
           f == Cardinality(OpenForward)
           b == Cardinality(OpenBackward)
<1>1. /\ Missing.radius = r /\ Missing.diameter = AtMost(h, k)
      /\ Missing.forward = f /\ Missing.all = f + b
      /\ r \in Nat /\ h \in Nat /\ k \in Nat /\ f \in Nat /\ b \in Nat
  BY MissingIs DEF MissingFacts
<1>2. r <= f /\ h <= f /\ k <= b
  BY MissingIs, FS_Subset DEF MissingFacts
<1> HIDE DEF r, h, k, f, b
<1>3. AtMost(h, k) \in Nat /\ (f = 0 => AtMost(h, k) = 0)
  BY <1>1, <1>2 DEF AtMost
<1>4. \A part \in AllParts : Missing[part] \in Nat
  BY <1>1, <1>3 DEF AllParts
<1>5. level \in {"All", "AllForward", "RadiusDiameter", "Diameter", "Radius"}
  BY SweepAssumption
<1>6. LevelMissing \in Nat
  BY <1>1, <1>3, <1>5 DEF LevelMissing
<1>7. ASSUME LevelMissing = 0 PROVE \A part \in Promises : Missing[part] = 0
  <2>1. CASE level = "All" \/ (level = "AllForward" /\ input.symm)
    <3>1. Missing.all = 0
      BY <1>7, <2>1 DEF LevelMissing
    <3>2. f = 0 /\ b = 0 /\ r = 0
      BY <1>1, <1>2, <3>1
    <3> QED
      BY <1>1, <1>3, <3>1, <3>2, <2>1 DEF Promises, AllParts
  <2>2. CASE level = "AllForward" /\ ~input.symm
    <3>1. Missing.forward = 0
      BY <1>7, <2>2 DEF LevelMissing
    <3>2. f = 0 /\ r = 0
      BY <1>1, <1>2, <3>1
    <3> QED
      BY <1>1, <1>3, <3>1, <3>2, <2>2 DEF Promises, AllForwardParts
  <2>3. CASE level = "RadiusDiameter"
    <3>1. Missing.radius + Missing.diameter = 0
      BY <1>7, <2>3 DEF LevelMissing
    <3>2. Missing.radius = 0 /\ Missing.diameter = 0
      BY <1>1, <1>3, <3>1
    <3> QED
      BY <3>2, <2>3 DEF Promises, RadiusDiameterParts
  <2>4. CASE level = "Diameter"
    BY <1>7, <2>4 DEF LevelMissing, Promises, DiameterParts
  <2>5. CASE level = "Radius"
    BY <1>7, <2>5 DEF LevelMissing, Promises, RadiusParts
  <2> QED
    BY <1>5, <2>1, <2>2, <2>3, <2>4, <2>5
<1>8. Promises \subseteq AllParts
  BY <1>5 DEF Promises, AllParts, AllForwardParts, RadiusDiameterParts, DiameterParts,
              RadiusParts
<1> QED
  BY <1>4, <1>6, <1>7, <1>8

LevelCounts == LevelMissing \in Nat
LEMMA MissingNatural == Core /\ ControlTypes => LevelCounts
BY MissingNat DEF ControlTypes, LevelCounts

LEMMA FewerMissing ==
  ASSUME Core, Core', Advances, level \in Wanted, level' = level
  PROVE  LevelMissing' <= LevelMissing
<1>1. StateTypes /\ StateTypes' /\ Bracketed /\ Bracketed' /\ input' = input
      /\ radial_vertices' = radial_vertices
  BY DEF Core, Advances
<1>2. /\ Nodes' = Nodes /\ num_nodes' = num_nodes /\ Bounds' = Bounds
      /\ \A v : EccOf(v)' = EccOf(v) /\ BackEccOf(v)' = BackEccOf(v)
  BY <1>1, InputStays
<1>3. HasEccentricities
  BY <1>1, EccentricitiesHold DEF StateTypes
<1>4. ASSUME NEW v \in Nodes
      PROVE  /\ forward_low[v] \in Nat /\ forward_high[v] \in Nat
             /\ backward_low[v] \in Nat /\ backward_high[v] \in Nat
             /\ forward_low'[v] \in Nat /\ forward_high'[v] \in Nat
             /\ backward_low'[v] \in Nat /\ backward_high'[v] \in Nat
             /\ EccOf(v) \in Nat /\ BackEccOf(v) \in Nat
  BY <1>1, <1>2, <1>3 DEF StateTypes, Bounds, HasEccentricities
<1>5. ASSUME NEW v \in Nodes
      PROVE  /\ forward_low[v] <= forward_low'[v] /\ forward_low'[v] <= EccOf(v)
             /\ EccOf(v) <= forward_high'[v] /\ forward_high'[v] <= forward_high[v]
             /\ backward_low[v] <= backward_low'[v] /\ backward_low'[v] <= BackEccOf(v)
             /\ BackEccOf(v) <= backward_high'[v] /\ backward_high'[v] <= backward_high[v]
  BY <1>1, <1>2 DEF Advances, Bracketed
<1>6. /\ diameter_low \in Nat /\ diameter_low' \in Nat /\ diameter_low <= diameter_low'
      /\ radius_high \in Nat /\ radius_high' \in Nat /\ radius_high' <= radius_high
  BY <1>1 DEF StateTypes, Advances
<1>7. OpenForward' \subseteq OpenForward
  <2> SUFFICES ASSUME NEW v \in Nodes, forward_low'[v] # forward_high'[v]
               PROVE  forward_low[v] # forward_high[v]
    BY <1>2 DEF OpenForward, incomplete_forward
  <2> QED
    BY <1>4, <1>5
<1>8. OpenBackward' \subseteq OpenBackward
  <2> SUFFICES ASSUME NEW v \in Nodes, backward_low'[v] # backward_high'[v]
               PROVE  backward_low[v] # backward_high[v]
    BY <1>2 DEF OpenBackward, incomplete_backward
  <2> QED
    BY <1>4, <1>5
<1>9. OpenForward \subseteq Nodes /\ OpenBackward \subseteq Nodes
  BY MissingIs DEF MissingFacts
<1>10. OpenRadial' \subseteq OpenRadial
  <2> SUFFICES ASSUME NEW v \in OpenForward', v \in radial_vertices,
                      forward_low'[v] < radius_high'
               PROVE  v \in OpenForward /\ forward_low[v] < radius_high
    BY <1>1 DEF OpenRadial
  <2>1. v \in OpenForward /\ v \in Nodes
    BY <1>7, <1>9
  <2> QED
    BY <1>4, <1>5, <1>6, <2>1
<1>11. OpenHigh' \subseteq OpenHigh
  <2> SUFFICES ASSUME NEW v \in OpenForward', forward_high'[v] > diameter_low'
               PROVE  v \in OpenForward /\ forward_high[v] > diameter_low
    BY DEF OpenHigh
  <2>1. v \in OpenForward /\ v \in Nodes
    BY <1>7, <1>9
  <2> QED
    BY <1>4, <1>5, <1>6, <2>1
<1>12. OpenBack' \subseteq OpenBack
  <2> SUFFICES ASSUME NEW v \in OpenBackward', backward_high'[v] > diameter_low'
               PROVE  v \in OpenBackward /\ backward_high[v] > diameter_low
    BY DEF OpenBack
  <2>1. v \in OpenBackward /\ v \in Nodes
    BY <1>8, <1>9
  <2> QED
    BY <1>4, <1>5, <1>6, <2>1
<1> DEFINE r == Cardinality(OpenRadial)
           h == Cardinality(OpenHigh)
           k == Cardinality(OpenBack)
           f == Cardinality(OpenForward)
           b == Cardinality(OpenBackward)
           r2 == Cardinality(OpenRadial')
           h2 == Cardinality(OpenHigh')
           k2 == Cardinality(OpenBack')
           f2 == Cardinality(OpenForward')
           b2 == Cardinality(OpenBackward')
<1>13. /\ Missing.radius = r /\ Missing.diameter = AtMost(h, k)
       /\ Missing.forward = f /\ Missing.all = f + b
       /\ r \in Nat /\ h \in Nat /\ k \in Nat /\ f \in Nat /\ b \in Nat
  BY MissingIs DEF MissingFacts
<1>14. /\ Missing'.radius = r2 /\ Missing'.diameter = AtMost(h2, k2)
       /\ Missing'.forward = f2 /\ Missing'.all = f2 + b2
       /\ r2 \in Nat /\ h2 \in Nat /\ k2 \in Nat /\ f2 \in Nat /\ b2 \in Nat
  <2>1. MissingFacts'
    BY MissingIs, PTL
  <2> QED
    BY <1>2, <2>1 DEF MissingFacts
<1>15. r2 <= r /\ h2 <= h /\ k2 <= k /\ f2 <= f /\ b2 <= b
  <2>1. /\ IsFiniteSet(OpenRadial) /\ IsFiniteSet(OpenHigh) /\ IsFiniteSet(OpenBack)
        /\ IsFiniteSet(OpenForward) /\ IsFiniteSet(OpenBackward)
    BY MissingIs DEF MissingFacts
  <2> QED
    BY <1>7, <1>8, <1>10, <1>11, <1>12, <2>1, FS_Subset
<1> HIDE DEF r, h, k, f, b, r2, h2, k2, f2, b2
<1>16. AtMost(h2, k2) <= AtMost(h, k) /\ AtMost(h, k) \in Nat /\ AtMost(h2, k2) \in Nat
  BY <1>13, <1>14, <1>15 DEF AtMost
<1>17. level \in {"All", "AllForward", "RadiusDiameter", "Diameter", "Radius"}
  BY SweepAssumption
<1> QED
  BY <1>1, <1>13, <1>14, <1>15, <1>16, <1>17 DEF LevelMissing

(***************************************************************************)
(* Every step keeps the invariant.                                         *)
(***************************************************************************)

LEMMA NodesAre ==
  ASSUME input \in Inputs
  PROVE  /\ Nodes = 0 .. num_nodes - 1 /\ num_nodes \in Nat \ {0}
         /\ Nodes = DOMAIN input.graph /\ scc = input.scc
         /\ Range(scc) \subseteq Nat /\ Range(scc) # {}
         /\ \A c \in Range(scc) :
              /\ Members(c) \subseteq Nodes /\ Members(c) # {}
              /\ Cardinality(Members(c)) \in 0 .. num_nodes
<1>1. Nodes = 0 .. num_nodes - 1 /\ num_nodes \in Nat \ {0} /\ IsFiniteSet(Nodes)
  BY InputIs DEF Nodes, num_nodes, graph, IsDigraph
<1>2. Nodes = DOMAIN input.graph /\ scc = input.scc
  BY DEF Nodes, graph, scc
<1>3. Range(scc) \subseteq Nat /\ Range(scc) # {}
  <2>1. PICK C \in Nat : C # 0 /\ Range(scc) = 0 .. C - 1
    BY <1>2, InputComponents
  <2> QED
    BY <2>1
<1>4. ASSUME NEW c \in Range(scc)
      PROVE  /\ Members(c) \subseteq Nodes /\ Members(c) # {}
             /\ Cardinality(Members(c)) \in 0 .. num_nodes
  <2>1. Members(c) \subseteq Nodes
    BY DEF Members
  <2>2. Members(c) # {}
    <3>1. PICK u \in DOMAIN input.graph : input.scc[u] = c
      BY <1>2, InputComponents
    <3> QED
      BY <1>2, <3>1 DEF Members
  <2>3. Cardinality(Members(c)) \in Nat /\ Cardinality(Members(c)) <= Cardinality(Nodes)
    BY <1>1, <2>1, FS_Subset, FS_CardinalityType
  <2> QED
    BY <1>1, <2>1, <2>2, <2>3 DEF num_nodes
<1> QED
  BY <1>1, <1>2, <1>3, <1>4

LEMMA StartsBracketed == Init => SweepInv
<1> SUFFICES ASSUME Init PROVE SweepInv
  OBVIOUS
<1>1. /\ input \in Inputs /\ level \in Wanted
      /\ forward_low = [v \in Nodes |-> 0] /\ backward_low = [v \in Nodes |-> 0]
      /\ forward_high = [v \in Nodes |-> num_nodes]
      /\ backward_high = [v \in Nodes |-> num_nodes]
      /\ forward_tot = [v \in Nodes |-> 0] /\ backward_tot = [v \in Nodes |-> 0]
      /\ diameter_low = 0 /\ diameter_vertex = 0
      /\ radius_high = Unbounded /\ radius_vertex = 0
      /\ radial_vertices = IF input.radial = << >> THEN {} ELSE input.radial[1]
      /\ iterations = 0
      /\ solved = [part \in {"radius", "diameter", "forward", "all"} |-> -1]
      /\ points = [s \in 0 .. 4 |-> num_nodes * Unit]
      /\ missing_nodes = 0 /\ step = 0 /\ told = {} /\ claims = {} /\ pc = "radial"
  BY DEF Init
<1>2. HasEccentricities
  BY <1>1, EccentricitiesHold
<1>3. num_nodes \in Nat \ {0} /\ Unbounded \in Nat /\ 0 \in Nodes
      /\ \A v \in Nodes : EccOf(v) \in 0 .. num_nodes /\ BackEccOf(v) \in 0 .. num_nodes
  BY <1>2 DEF HasEccentricities
<1>4. radial_vertices \subseteq Nodes
  <2>1. CASE input.radial = << >>
    BY <1>1, <2>1
  <2>2. CASE input.radial # << >>
    <3>1. PICK S \in SUBSET DOMAIN input.graph : input.radial = <<S>>
      BY <1>1, <2>2, InputIs
    <3> QED
      BY <1>1, <2>2, <3>1 DEF Nodes, graph
  <2> QED
    BY <2>1, <2>2
<1>5. /\ forward_low \in Bounds /\ backward_low \in Bounds
      /\ forward_high \in Bounds /\ backward_high \in Bounds
      /\ forward_tot \in Counts /\ backward_tot \in Counts
  BY <1>1, <1>3 DEF Bounds, Counts
<1>6. StateTypes
  BY <1>1, <1>3, <1>4, <1>5 DEF StateTypes
<1>7. Bracketed
  BY <1>1, <1>3 DEF Bracketed
<1>8. DiameterInv
  BY <1>1, <1>3 DEF DiameterInv
<1>9. \A v \in Nodes : forward_low[v] # forward_high[v]
  BY <1>1, <1>3
<1>10. RadiusInv
  BY <1>1, <1>4, <1>9 DEF RadiusInv
<1>11. ControlTypes
  <2>1. num_nodes * Unit \in Nat
    BY <1>3 DEF Unit
  <2>2. points \in [0 .. 4 -> Nat]
    BY <1>1, <2>1
  <2> QED
    BY <1>1, <2>2 DEF ControlTypes, AllParts, Pcs
<1>12. LockInv
  BY <1>1, <1>9 DEF LockInv, Joined
<1>13. MissingInv /\ PivotInv
  BY <1>1 DEF MissingInv, PivotInv, bounding_pcs
<1> QED
  BY <1>6, <1>7, <1>8, <1>10, <1>11, <1>12, <1>13 DEF SweepInv, Core

LEMMA RadialKeeps ==
  ASSUME SweepInv, ComputeRadial
  PROVE  SweepInv'
<1>1. /\ StateTypes /\ Bracketed /\ DiameterInv /\ ControlTypes
      /\ Joined /\ step = 0 /\ radius_high = Unbounded
      /\ \A v \in Nodes : forward_low[v] # forward_high[v]
  BY DEF SweepInv, Core, LockInv, ComputeRadial
<1>2. /\ input' = input /\ level' = level
      /\ forward_low' = forward_low /\ forward_high' = forward_high
      /\ backward_low' = backward_low /\ backward_high' = backward_high
      /\ forward_tot' = forward_tot /\ backward_tot' = backward_tot
      /\ diameter_low' = diameter_low /\ diameter_vertex' = diameter_vertex
      /\ radius_high' = radius_high /\ iterations' = iterations /\ solved' = solved
      /\ points' = points /\ missing_nodes' = missing_nodes /\ step' = step
      /\ told' = told /\ claims' = claims /\ pc' = "sweep"
  BY DEF ComputeRadial, given, forward, backward, diameter, radius, choice
<1>3. /\ Nodes' = Nodes /\ num_nodes' = num_nodes /\ Bounds' = Bounds /\ Counts' = Counts
      /\ \A v : EccOf(v)' = EccOf(v) /\ BackEccOf(v)' = BackEccOf(v)
  BY <1>2, InputStays
<1>4. radial_vertices' \subseteq Nodes
  <2>1. CASE input.radial # << >>
    BY <1>1, <2>1 DEF ComputeRadial, StateTypes
  <2>2. CASE input.radial = << >>
    <3>1. input \in Inputs
      BY <1>1 DEF StateTypes
    <3> DEFINE S == Range(scc)
               C == The(LargestComponent)
               p == [c \in S |-> -Cardinality(Members(c))]
               q == [c \in S |-> 0]
               key == [c \in S |-> <<-Cardinality(Members(c)), 0>>]
    <3>2. S \subseteq Nat /\ S # {} /\ num_nodes \in Nat
      BY <3>1, NodesAre
    <3>3. \A c \in S : /\ key[c] = <<p[c], q[c]>>
                       /\ p[c] \in Int /\ p[c] + num_nodes \in Nat
                       /\ q[c] \in Int /\ q[c] + num_nodes \in Nat
      BY <3>1, NodesAre
    <3>4. C = The(ArgMin(S, key))
      BY DEF LargestComponent
    <3> HIDE DEF S, p, q, key, C
    <3>5. C \in S
      BY <3>2, <3>3, <3>4, ArgMinExists
    <3>6. Members(C) \subseteq Nodes /\ Members(C) # {} /\ Nodes = 0 .. num_nodes - 1
      BY <3>1, <3>5, NodesAre DEF S
    <3>7. Largest(Members(C)) \in Members(C)
      <4>1. Members(C) \subseteq Nat /\ \A x \in Members(C) : x <= num_nodes
        BY <3>2, <3>6
      <4> QED
        BY <3>2, <3>6, <4>1, LargestIs
    <3>8. radial_vertices' = DOMAIN input.to[Largest(Members(C))]
      BY <2>2 DEF ComputeRadial, C
    <3>9. Largest(Members(C)) \in DOMAIN input.graph
      BY <3>6, <3>7 DEF Nodes, graph
    <3>10. DOMAIN input.to[Largest(Members(C))] \subseteq DOMAIN input.graph
      BY <3>1, <3>9, InputDistances DEF HasDistances
    <3> QED
      BY <3>8, <3>10 DEF Nodes, graph
  <2> QED
    BY <2>1, <2>2
<1>5. StateTypes'
  BY <1>1, <1>2, <1>3, <1>4 DEF StateTypes
<1>6. Bracketed'
  BY <1>1, <1>2, <1>3 DEF Bracketed
<1>7. DiameterInv'
  BY <1>1, <1>2, <1>3 DEF DiameterInv
<1>8. RadiusInv'
  <2>1. told' = {} /\ claims' = {} /\ radius_high' = Unbounded
    BY <1>1, <1>2 DEF Joined
  <2>2. \A v \in radial_vertices' : forward_low'[v] # forward_high'[v]
    BY <1>1, <1>2, <1>4
  <2> QED
    BY <2>1, <2>2 DEF RadiusInv
<1>9. ControlTypes'
  BY <1>1, <1>2 DEF ControlTypes, Pcs
<1>10. LockInv' /\ PivotInv'
  BY <1>2 DEF LockInv, PivotInv, bounding_pcs
<1>11. MissingInv'
  BY <1>1, <1>2 DEF MissingInv, bounding_pcs
<1> QED
  BY <1>5, <1>6, <1>7, <1>8, <1>9, <1>10, <1>11 DEF SweepInv, Core

LEMMA StartsWithin ==
  ASSUME StateTypes
  PROVE  /\ SweepStart \subseteq Nodes
         /\ step = 0 => SweepStart # {}
<1> DEFINE key == [v \in Nodes |-> <<-Cardinality(graph[v]), 0>>]
           p == [v \in Nodes |-> -Cardinality(graph[v])]
           q == [v \in Nodes |-> 0]
<1>1. OpenForward \subseteq Nodes /\ OpenBackward \subseteq Nodes
  BY DEF OpenForward, OpenBackward
<1>2. SweepStart \subseteq Nodes
  <2>1. ArgMin(Nodes, key) \subseteq Nodes
    BY ArgMinWithin
  <2>2. \A value, tie : /\ ArgMax(OpenForward, value, tie) \subseteq OpenForward
                        /\ ArgMax(OpenBackward, value, tie) \subseteq OpenBackward
    BY ArgMinWithin DEF ArgMax
  <2> QED
    BY <1>1, <2>1, <2>2 DEF SweepStart
<1>3. ASSUME step = 0 PROVE SweepStart # {}
  <2>1. input \in Inputs
    BY DEF StateTypes
  <2>2. Nodes \subseteq Nat /\ Nodes # {} /\ num_nodes \in Nat
    BY <2>1, NodesAre
  <2>3. ASSUME NEW v \in Nodes
        PROVE  Cardinality(graph[v]) \in 0 .. num_nodes
    <3>1. graph[v] \subseteq Nodes /\ IsFiniteSet(Nodes)
      BY <2>1, InputIs DEF IsDigraph, Nodes, graph
    <3>2. Cardinality(graph[v]) \in Nat /\ Cardinality(graph[v]) <= num_nodes
      BY <3>1, FS_Subset, FS_CardinalityType DEF num_nodes
    <3> QED
      BY <2>2, <3>2
  <2>4. \A v \in Nodes : /\ key[v] = <<p[v], q[v]>>
                         /\ p[v] \in Int /\ p[v] + num_nodes \in Nat
                         /\ q[v] \in Int /\ q[v] + num_nodes \in Nat
    BY <2>2, <2>3
  <2>5. SweepStart = ArgMin(Nodes, key)
    BY <1>3 DEF SweepStart
  <2> HIDE DEF key, p, q
  <2> QED
    BY <2>2, <2>4, <2>5, ArgMinExists
<1> QED
  BY <1>2, <1>3

LEMMA SweepKeeps ==
  ASSUME SweepInv, Sweep
  PROVE  SweepInv'
<1>1. Core /\ ControlTypes /\ MissingInv /\ Joined /\ pc = "sweep"
  BY DEF SweepInv, Sweep
<1>2. /\ level' = level /\ UNCHANGED <<input, radial_vertices, claims>>
      /\ StepSumSweep(SweepStart, step % 2 = 0)
      /\ step' = (step + 1) % 6 /\ pc' \in {"measure", "sweep"}
      /\ solved' = solved /\ points' = points /\ missing_nodes' = missing_nodes
  BY DEF Sweep, given
<1>3. SweepStart \subseteq Nodes /\ (step = 0 => SweepStart # {})
  BY <1>1, StartsWithin DEF Core
<1>4. Core' /\ (iterations # 0 \/ SweepStart # {} => iterations' # 0)
  BY <1>1, <1>2, <1>3, StepKeeps
<1>5. iterations' # 0
  BY <1>1, <1>3, <1>4 DEF MissingInv
<1>6. ControlTypes'
  <2>1. step \in Nat
    BY <1>1 DEF ControlTypes
  <2>2. step' \in Nat
    BY <1>2, <2>1
  <2> QED
    BY <1>1, <1>2, <2>2 DEF ControlTypes, Pcs
<1>7. LockInv' /\ PivotInv' /\ MissingInv'
  BY <1>2, <1>5 DEF LockInv, PivotInv, MissingInv, bounding_pcs
<1> QED
  BY <1>4, <1>6, <1>7 DEF SweepInv


LEMMA MeasureKeeps ==
  ASSUME SweepInv, Measure
  PROVE  SweepInv'
<1>1. /\ Core /\ ControlTypes /\ MissingInv /\ Joined /\ pc \in {"measure", "again"}
      /\ claims = {} /\ level \in Wanted
  BY DEF SweepInv, Measure, Joined, ControlTypes
<1>2. /\ UNCHANGED <<input, forward, backward, diameter, radius, radial_vertices>>
      /\ iterations' = iterations /\ told' = told /\ claims' = claims
      /\ level' = level /\ step' = step
      /\ solved' = [part \in DOMAIN solved |->
           IF Missing[part] = 0 /\ (solved[part] = -1 \/ part = "all")
           THEN iterations ELSE solved[part]]
      /\ missing_nodes' = LevelMissing
      /\ points' = IF pc = "again" THEN Awarded(missing_nodes - LevelMissing) ELSE points
      /\ pc' = IF LevelMissing = 0 THEN "done" ELSE "choose"
  BY DEF Measure, given
<1>3. Core' /\ iterations \in Nat
  BY <1>1, <1>2, NothingMoves DEF Core, StateTypes
<1>4. iterations \in Nat \ {0}
  BY <1>1, <1>3 DEF MissingInv
<1>5. /\ LevelMissing \in Nat
      /\ LevelMissing = 0 => \A part \in Promises : Missing[part] = 0
      /\ Promises \subseteq AllParts
  BY <1>1, MissingNat
<1>6. Missing' = Missing /\ LevelMissing' = LevelMissing /\ Promises' = Promises
  <2>1. /\ input' = input /\ radial_vertices' = radial_vertices
        /\ forward_low' = forward_low /\ forward_high' = forward_high
        /\ backward_low' = backward_low /\ backward_high' = backward_high
        /\ diameter_low' = diameter_low /\ radius_high' = radius_high
    BY <1>2 DEF forward, backward, diameter, radius
  <2>2. OpenForward' = OpenForward /\ OpenBackward' = OpenBackward
    BY <2>1, InputStays DEF OpenForward, OpenBackward, incomplete_forward, incomplete_backward
  <2>3. Missing' = Missing
    BY <2>1, <2>2 DEF Missing, Count
  <2> QED
    BY <1>2, <2>1, <2>3 DEF LevelMissing, Promises
<1>7. /\ DOMAIN solved = AllParts /\ solved \in [AllParts -> Nat \cup {-1}]
      /\ points \in [0 .. 4 -> Nat] /\ missing_nodes \in Nat /\ step \in Nat
  BY <1>1 DEF ControlTypes
<1>8. solved' \in [AllParts -> Nat \cup {-1}]
  BY <1>2, <1>4, <1>7
<1>9. points' \in [0 .. 4 -> Nat]
  <2>1. CASE pc = "again"
    <3>1. missing_nodes - LevelMissing \in Nat
      BY <1>1, <1>5, <1>7, <2>1 DEF MissingInv
    <3>2. (2 * Unit) \div iterations \in Nat
      BY <1>4 DEF Unit
    <3>3. \A gain \in Nat : Awarded(gain) \in [0 .. 4 -> Nat]
      BY <1>7, <3>2 DEF Awarded, Unit
    <3> QED
      BY <1>2, <2>1, <3>1, <3>3
  <2> QED
    BY <1>2, <1>7, <2>1
<1>10. ControlTypes'
  BY <1>1, <1>2, <1>5, <1>7, <1>8, <1>9 DEF ControlTypes, Pcs
<1>11. LockInv' /\ PivotInv'
  BY <1>1, <1>2 DEF LockInv, Joined, PivotInv, bounding_pcs
<1>12. MissingInv'
  <2>1. ASSUME pc' = "done"
        PROVE  LevelMissing = 0 /\ \A part \in Promises : Missing[part] = 0 /\ solved'[part] # -1
    <3>1. LevelMissing = 0
      BY <1>2, <2>1
    <3>2. ASSUME NEW part \in Promises PROVE Missing[part] = 0 /\ solved'[part] # -1
      <4>1. part \in AllParts /\ Missing[part] = 0
        BY <1>5, <3>1, <3>2
      <4> QED
        BY <1>2, <1>4, <1>7, <4>1
    <3> QED
      BY <3>1, <3>2
  <2>2. pc' \in {"choose", "done"} /\ iterations' # 0
    BY <1>2, <1>4
  <2>3. LevelMissing' <= missing_nodes'
    BY <1>2, <1>5, <1>6
  <2> QED
    BY <1>6, <2>1, <2>2, <2>3 DEF MissingInv, bounding_pcs
<1> QED
  BY <1>3, <1>10, <1>11, <1>12 DEF SweepInv

LEMMA LockStepKeeps ==
  ASSUME SweepInv, Core', Advances, told # {} \/ claims # {},
         UNCHANGED <<level, iterations, solved, points, missing_nodes, step, pc>>
  PROVE  SweepInv'
<1>1. /\ Core /\ ControlTypes /\ LockInv /\ MissingInv /\ level \in Wanted
      /\ missing_nodes \in Nat /\ level' = level
  BY DEF SweepInv, ControlTypes
<1>2. pc \in {"sweep", "measure", "again"}
  BY <1>1 DEF LockInv, Joined, ControlTypes, Pcs
<1>3. ControlTypes'
  BY <1>1 DEF ControlTypes
<1>4. LockInv' /\ PivotInv'
  BY <1>2 DEF LockInv, PivotInv, bounding_pcs
<1>5. MissingInv'
  <2>1. LevelMissing' <= LevelMissing
    BY <1>1, FewerMissing
  <2>2. LevelMissing \in Nat /\ LevelMissing' \in Nat
    <3>1. LevelMissing' \in Nat
      <4>1. LevelCounts'
        BY <1>3, MissingNatural, PTL
      <4> QED
        BY <4>1 DEF LevelCounts
    <3> QED
      BY <1>1, <3>1, MissingNat
  <2>3. pc = "again" => LevelMissing' <= missing_nodes
    BY <1>1, <2>1, <2>2 DEF MissingInv
  <2> QED
    BY <1>1, <1>2, <2>3 DEF MissingInv, bounding_pcs
<1> QED
  BY <1>3, <1>4, <1>5 DEF SweepInv

LEMMA AtLockKeeps ==
  ASSUME SweepInv, \/ \E t \in told : Compare(t)
                   \/ \E t \in claims : Claim(t)
  PROVE  SweepInv'
<1>1. ASSUME NEW t \in told, Compare(t) PROVE SweepInv'
  <2>1. Core' /\ Advances
    BY <1>1, CompareKeeps DEF SweepInv
  <2>2. UNCHANGED <<level, iterations, solved, points, missing_nodes, step, pc>>
    BY <1>1 DEF Compare, given, choice
  <2> QED
    BY <1>1, <2>1, <2>2, LockStepKeeps
<1>2. ASSUME NEW t \in claims, Claim(t) PROVE SweepInv'
  <2>1. Core' /\ Advances
    BY <1>2, ClaimKeeps DEF SweepInv
  <2>2. UNCHANGED <<level, iterations, solved, points, missing_nodes, step, pc>>
    BY <1>2 DEF Claim, given, choice
  <2> QED
    BY <1>2, <2>1, <2>2, LockStepKeeps
<1> QED
  BY <1>1, <1>2

LEMMA BestIs ==
  ASSUME points \in [0 .. 4 -> Nat]
  PROVE  Best \in 0 .. 4
<1> DEFINE K == points[0] + points[1] + points[2] + points[3] + points[4]
           a == [s \in 0 .. 4 |-> K - points[s]]
           b == [s \in 0 .. 4 |-> s]
<1>1. \A s \in 0 .. 4 : points[s] \in Nat
  OBVIOUS
<1>2. K \in Nat /\ \A s \in 0 .. 4 : points[s] <= K
  BY <1>1
<1> HIDE DEF K
<1>3. \A s \in 0 .. 4 : a[s] = K - points[s] /\ b[s] = s /\ a[s] \in Nat /\ b[s] \in Nat
  BY <1>1, <1>2
<1> HIDE DEF a, b
<1>4. PICK x \in 0 .. 4 : ComesFirst(x, 0 .. 4, a, b, b)
  <2>1. HasKeys(0 .. 4, a, b, b)
    BY <1>3 DEF HasKeys
  <2> QED
    BY <2>1, LexLeast
<1>5. ASSUME NEW t \in 0 .. 4
      PROVE  points[x] > points[t] \/ (points[x] = points[t] /\ x <= t)
  <2>1. \/ a[x] < a[t]
        \/ a[x] = a[t] /\ (b[x] < b[t] \/ (b[x] = b[t] /\ b[x] <= b[t]))
    BY <1>4 DEF ComesFirst
  <2> QED
    BY <1>1, <1>2, <1>3, <2>1
<1>6. \E s \in 0 .. 4 : \A t \in 0 .. 4 :
         points[s] > points[t] \/ (points[s] = points[t] /\ s <= t)
  BY <1>5
<1> QED
  BY <1>6, Zenon DEF Best

LEMMA PivotsChosen ==
  ASSUME Core, ChoosePivots, input' = input, pc' = "bound_forward"
  PROVE  PivotInv'
<1> DEFINE R == Range(scc)
<1>1. StateTypes /\ input \in Inputs
  BY DEF Core, StateTypes
<1>2. HasEccentricities /\ HasDistances(input) /\ num_nodes \in Nat
  BY <1>1, EccentricitiesHold DEF HasEccentricities
<1>3. /\ Nodes = DOMAIN input.graph /\ scc = input.scc
      /\ R \subseteq Nat /\ Nodes \subseteq Nat
      /\ \A c \in R : Members(c) \subseteq Nodes /\ Members(c) # {}
  BY <1>1, NodesAre
<1>4. /\ pivot' = [c \in R |-> The(ArgMin(Members(c), PivotKey))]
      /\ ecc_pivot_f' = [c \in R |-> Largest({input.from[pivot'[c]][v] : v \in Members(c)})]
      /\ ecc_pivot_b' = [c \in R |-> Largest({input.to[pivot'[c]][v] : v \in Members(c)})]
      /\ component' = 0
  BY DEF ChoosePivots, find_best_pivot
<1>5. Nodes' = Nodes /\ num_nodes' = num_nodes /\ scc' = scc /\ input' = input
  BY InputStays
<1>6. 0 \in R
  <2>1. PICK C \in Nat : C # 0 /\ R = 0 .. C - 1
    BY <1>1, <1>3, InputComponents
  <2> QED
    BY <2>1
<1>7. ASSUME NEW c \in R
      PROVE  pivot'[c] \in Members(c)
  <2> DEFINE p == [v \in Nodes |-> backward_low[v] + forward_low[v]
                     + Settled(incomplete_forward(v)) + Settled(incomplete_backward(v))]
             q == [v \in Nodes |-> forward_tot[v] + backward_tot[v]]
  <2>1. ASSUME NEW v \in Nodes
        PROVE  /\ PivotKey[v] = <<p[v], q[v]>> /\ p[v] \in Nat /\ q[v] \in Nat
    <3>1. /\ forward_low[v] \in Nat /\ backward_low[v] \in Nat
          /\ forward_tot[v] \in Nat /\ backward_tot[v] \in Nat
      BY <1>1, <1>2 DEF StateTypes, Bounds, Counts
    <3>2. /\ Settled(incomplete_forward(v)) \in Nat
          /\ Settled(incomplete_backward(v)) \in Nat
      BY <1>2 DEF Settled
    <3>3. PivotKey[v] = <<p[v], q[v]>>
      BY DEF PivotKey
    <3> QED
      BY <3>1, <3>2, <3>3
  <2> HIDE DEF p, q
  <2>2. Members(c) \subseteq Nodes /\ Members(c) \subseteq Nat /\ Members(c) # {}
    BY <1>3
  <2>3. \A v \in Members(c) : /\ PivotKey[v] = <<p[v], q[v]>>
                              /\ p[v] \in Int /\ p[v] + 0 \in Nat
                              /\ q[v] \in Int /\ q[v] + 0 \in Nat
    BY <2>1, <2>2
  <2>4. The(ArgMin(Members(c), PivotKey)) \in Members(c)
    BY <2>2, <2>3, ArgMinExists
  <2> QED
    BY <1>4, <2>4
<1>8. ASSUME NEW c \in R
      PROVE  /\ pivot'[c] \in Nodes /\ scc[pivot'[c]] = c
             /\ ecc_pivot_f'[c] \in 0 .. num_nodes /\ ecc_pivot_b'[c] \in 0 .. num_nodes
             /\ \A v \in Nodes : scc[v] = c =>
                  /\ Dist(input, pivot'[c], v) <= ecc_pivot_f'[c]
                  /\ Dist(input, v, pivot'[c]) <= ecc_pivot_b'[c]
  <2> DEFINE u == pivot'[c]
  <2>1. u \in Nodes /\ scc[u] = c
    BY <1>7 DEF Members
  <2> HIDE DEF u
  <2>2. ASSUME NEW v \in Members(c)
        PROVE  /\ input.from[u][v] = Dist(input, u, v)
               /\ input.to[u][v] = Dist(input, v, u)
               /\ Dist(input, u, v) \in 0 .. num_nodes
               /\ Dist(input, v, u) \in 0 .. num_nodes
    <3>1. v \in Nodes /\ scc[v] = c
      BY DEF Members
    <3>2. Leads(input, u, v) /\ Leads(input, v, u)
      BY <1>1, <1>3, <2>1, <3>1, InputComponents
    <3>3. input.to[u][v] = Dist(input, v, u)
      BY <1>2, <1>3, <2>1, <3>1, <3>2 DEF HasDistances
    <3> QED
      BY <1>2, <2>1, <3>1, <3>2, <3>3 DEF HasEccentricities, Dist
  <2> DEFINE F == {input.from[u][v] : v \in Members(c)}
             B == {input.to[u][v] : v \in Members(c)}
  <2>3. F \subseteq Nat /\ F # {} /\ \A x \in F : x <= num_nodes
    BY <1>2, <1>3, <2>2
  <2>4. B \subseteq Nat /\ B # {} /\ \A x \in B : x <= num_nodes
    BY <1>2, <1>3, <2>2
  <2>5. ecc_pivot_f'[c] = Largest(F) /\ ecc_pivot_b'[c] = Largest(B)
    BY <1>4 DEF u
  <2>6. ASSUME NEW v \in Members(c)
        PROVE  Dist(input, u, v) \in F /\ Dist(input, v, u) \in B
    <3>1. input.from[u][v] \in F /\ input.to[u][v] \in B
      OBVIOUS
    <3> QED
      BY <2>2, <3>1
  <2> HIDE DEF F, B
  <2>7. Largest(F) \in F /\ \A y \in F : y <= Largest(F)
    BY <1>2, <2>3, LargestIs
  <2>8. Largest(B) \in B /\ \A y \in B : y <= Largest(B)
    BY <1>2, <2>4, LargestIs
  <2>9. ecc_pivot_f'[c] \in 0 .. num_nodes /\ ecc_pivot_b'[c] \in 0 .. num_nodes
    <3>1. Largest(F) \in 0 .. num_nodes
      <4>1. Largest(F) \in Nat /\ Largest(F) <= num_nodes
        BY <2>3, <2>7
      <4> HIDE DEF Largest
      <4> QED
        BY <1>2, <4>1
    <3>2. Largest(B) \in 0 .. num_nodes
      <4>1. Largest(B) \in Nat /\ Largest(B) <= num_nodes
        BY <2>4, <2>8
      <4> HIDE DEF Largest
      <4> QED
        BY <1>2, <4>1
    <3> QED
      BY <2>5, <3>1, <3>2
  <2>10. \A v \in Nodes : scc[v] = c =>
                  /\ Dist(input, u, v) <= ecc_pivot_f'[c]
                  /\ Dist(input, v, u) <= ecc_pivot_b'[c]
    BY <2>5, <2>6, <2>7, <2>8 DEF Members
  <2> QED
    BY <2>1, <2>9, <2>10 DEF u
<1>9. /\ pivot' \in [R -> Nodes]
      /\ ecc_pivot_f' \in [R -> 0 .. num_nodes] /\ ecc_pivot_b' \in [R -> 0 .. num_nodes]
  <2>1. /\ pivot' = [c \in R |-> pivot'[c]]
        /\ ecc_pivot_f' = [c \in R |-> ecc_pivot_f'[c]]
        /\ ecc_pivot_b' = [c \in R |-> ecc_pivot_b'[c]]
    BY <1>4
  <2> QED
    BY <1>8, <2>1
<1>10. \A c \in R : ~(c < component')
  BY <1>3, <1>4
<1> QED
  BY <1>4, <1>5, <1>6, <1>8, <1>9, <1>10 DEF PivotInv, bounding_pcs

LEMMA ChooseKeeps ==
  ASSUME SweepInv, Choose
  PROVE  SweepInv'
<1>1. /\ Core /\ ControlTypes /\ MissingInv /\ Joined /\ pc = "choose" /\ StateTypes
      /\ points \in [0 .. 4 -> Nat] /\ level \in Wanted /\ missing_nodes \in Nat
      /\ radial_vertices \subseteq Nodes
  BY DEF SweepInv, Choose, LockInv, ControlTypes, Core, StateTypes
<1>2. /\ level' = level /\ UNCHANGED <<input, radial_vertices, claims>>
      /\ solved' = solved /\ points' = points /\ missing_nodes' = missing_nodes
      /\ step' = Best
  BY DEF Choose, given
<1>3. iterations # 0 /\ LevelMissing <= missing_nodes
  BY <1>1 DEF MissingInv
<1>4. Best \in 0 .. 4
  BY <1>1, BestIs
<1>5. Core' /\ Advances /\ claims' = {} /\ iterations' # 0
  <2>1. \A value, tie : /\ ArgMax(OpenForward, value, tie) \subseteq Nodes
                        /\ ArgMax(OpenBackward, value, tie) \subseteq Nodes
    <3>1. OpenForward \subseteq Nodes /\ OpenBackward \subseteq Nodes
      BY DEF OpenForward, OpenBackward
    <3> QED
      BY <3>1, ArgMinWithin DEF ArgMax
  <2>2. \A key : ArgMin(radial_vertices, key) \subseteq Nodes
    BY <1>1, ArgMinWithin
  <2>3. \E S \in SUBSET Nodes : \E f \in BOOLEAN : StepSumSweep(S, f)
    <3>0. (CASE Best = 0 -> TRUE
           [] Best = 1 -> StepSumSweep(ArgMax(OpenForward, forward_high, forward_tot), TRUE)
           [] Best = 2 -> StepSumSweep(ArgMin(radial_vertices,
                    [v \in Nodes |-> <<forward_low[v], forward_tot[v]>>]), TRUE)
           [] Best = 3 -> StepSumSweep(ArgMax(OpenBackward, backward_high, backward_tot), FALSE)
           [] Best = 4 -> StepSumSweep(ArgMax(OpenBackward, backward_tot, backward_high), FALSE))
      BY DEF Choose
    <3>1. CASE Best = 0
      <4>1. StepSumSweep({}, TRUE)
        BY <3>1 DEF Choose, StepSumSweep
      <4> QED
        BY <4>1
    <3>2. CASE Best = 1
      <4>0. Best # 0 /\ Best # 2 /\ Best # 3 /\ Best # 4
        BY <3>2
      <4>1. StepSumSweep(ArgMax(OpenForward, forward_high, forward_tot), TRUE)
        BY <3>0, <3>2, <4>0
      <4> QED
        BY <2>1, <4>1
    <3>3. CASE Best = 2
      <4>0. Best # 0 /\ Best # 1 /\ Best # 3 /\ Best # 4
        BY <3>3
      <4>1. StepSumSweep(ArgMin(radial_vertices,
              [v \in Nodes |-> <<forward_low[v], forward_tot[v]>>]), TRUE)
        BY <3>0, <3>3, <4>0
      <4> QED
        BY <2>2, <4>1
    <3>4. CASE Best = 3
      <4>0. Best # 0 /\ Best # 1 /\ Best # 2 /\ Best # 4
        BY <3>4
      <4>1. StepSumSweep(ArgMax(OpenBackward, backward_high, backward_tot), FALSE)
        BY <3>0, <3>4, <4>0
      <4> QED
        BY <2>1, <4>1
    <3>5. CASE Best = 4
      <4>0. Best # 0 /\ Best # 1 /\ Best # 2 /\ Best # 3
        BY <3>5
      <4>1. StepSumSweep(ArgMax(OpenBackward, backward_tot, backward_high), FALSE)
        BY <3>0, <3>5, <4>0
      <4> QED
        BY <2>1, <4>1
    <3>6. Best \in {0, 1, 2, 3, 4}
      BY <1>4
    <3> QED
      BY <3>1, <3>2, <3>3, <3>4, <3>5, <3>6
  <2> QED
    BY <1>1, <1>2, <1>3, <2>3, StepKeeps
<1>6. pc' \in {"bound_forward", "again"} /\ (pc' = "bound_forward" => Best = 0)
  BY DEF Choose
<1>7. ControlTypes'
  BY <1>1, <1>2, <1>4, <1>6 DEF ControlTypes, Pcs, bounding_pcs
<1>8. LockInv'
  <2>1. pc' = "bound_forward" => told' = told
    BY <1>6 DEF Choose, NoStep
  <2> QED
    BY <1>1, <1>5, <1>6, <2>1 DEF LockInv, Joined, bounding_pcs
<1>9. MissingInv'
  <2>1. LevelMissing' <= LevelMissing
    BY <1>1, <1>2, <1>5, FewerMissing
  <2>2. LevelMissing \in Nat /\ LevelMissing' \in Nat
    <3>1. LevelCounts'
      BY <1>5, <1>7, MissingNatural, PTL
    <3> QED
      BY <1>1, <3>1, MissingNat DEF LevelCounts
  <2>3. LevelMissing' <= missing_nodes'
    BY <1>1, <1>2, <1>3, <2>1, <2>2
  <2> QED
    BY <1>5, <1>6, <2>3 DEF MissingInv
<1>10. PivotInv'
  <2>1. CASE pc' = "bound_forward"
    <3>1. ChoosePivots
      BY <1>6, <2>1 DEF Choose
    <3> QED
      BY <1>1, <1>2, <2>1, <3>1, PivotsChosen
  <2>2. CASE pc' = "again"
    BY <2>2 DEF PivotInv, bounding_pcs
  <2> QED
    BY <1>6, <2>1, <2>2
<1> QED
  BY <1>5, <1>7, <1>8, <1>9, <1>10 DEF SweepInv

(***************************************************************************)
(* Bounds through the pivots.                                              *)
(***************************************************************************)

PivotsIn ==
  pivot \in [Range(scc) -> Nodes] /\ \A c \in Range(scc) : scc[pivot[c]] = c

(* What it costs to cross from a pivot to the pivot of a component below.  *)
LEMMA CrossingIs ==
  ASSUME input \in Inputs, PivotsIn, NEW c \in Range(scc), NEW con \in successors(c)
  PROVE  /\ con.target \in Range(scc) /\ con.target < c
         /\ Crossing(con.arc) \in 0 .. 2 * num_nodes + 1
         /\ Leads(input, pivot[c], pivot[con.target])
         /\ Dist(input, pivot[c], pivot[con.target]) <= Crossing(con.arc)
<1> DEFINE d == con.target
           x == con.arc[1]
           y == con.arc[2]
           P == pivot[c]
           Q == pivot[con.target]
<1>1. HasDistances(input) /\ Nodes = DOMAIN input.graph /\ scc = input.scc
      /\ num_nodes \in Nat /\ num_nodes = Cardinality(DOMAIN input.graph)
  BY EccentricitiesHold, NodesAre DEF HasEccentricities, num_nodes
<1>2. /\ x \in Nodes /\ y \in Nodes /\ y \in input.graph[x]
      /\ scc[x] = c /\ scc[y] = d /\ d \in Range(scc) /\ d < c
  BY <1>1, ConnectionsAre DEF successors
<1>3. P \in Nodes /\ Q \in Nodes /\ scc[P] = c /\ scc[Q] = d
  BY <1>2 DEF PivotsIn
<1>4. Crossing(con.arc) = input.from[P][x] + 1 + input.to[Q][y]
  BY <1>2 DEF Crossing, dist_pivot_f, dist_pivot_b
<1> HIDE DEF d, x, y, P, Q
<1>5. Leads(input, P, x) /\ Leads(input, y, Q)
  BY <1>1, <1>2, <1>3, InputComponents
<1>6. Leads(input, x, y) /\ Dist(input, x, y) <= 1
  BY <1>1, <1>2 DEF HasDistances
<1>7. input.from[P][x] = Dist(input, P, x) /\ input.to[Q][y] = Dist(input, y, Q)
  BY <1>1, <1>2, <1>3, <1>5 DEF HasDistances, Dist
<1>8. /\ Dist(input, P, x) \in Nat /\ Dist(input, P, x) <= num_nodes
      /\ Dist(input, y, Q) \in Nat /\ Dist(input, y, Q) <= num_nodes
      /\ Dist(input, x, y) \in Nat
  BY <1>1, <1>2, <1>3, <1>5, <1>6 DEF HasDistances
<1>9. Leads(input, P, y) /\ Dist(input, P, y) <= Dist(input, P, x) + Dist(input, x, y)
  BY <1>1, <1>2, <1>3, <1>5, <1>6 DEF HasDistances
<1>10. Leads(input, P, Q) /\ Dist(input, P, Q) <= Dist(input, P, y) + Dist(input, y, Q)
  BY <1>1, <1>2, <1>3, <1>5, <1>9 DEF HasDistances
<1>11. Dist(input, P, y) \in Nat /\ Dist(input, P, Q) \in Nat
  BY <1>1, <1>2, <1>3, <1>9, <1>10 DEF HasDistances
<1>12. Crossing(con.arc) \in 0 .. 2 * num_nodes + 1
       /\ Dist(input, P, Q) <= Crossing(con.arc)
  BY <1>1, <1>4, <1>6, <1>7, <1>8, <1>9, <1>10, <1>11
<1> QED
  BY <1>2, <1>10, <1>12 DEF d, P, Q

(* A path into another component ends by an arc from one above it.         *)
LEMMA EntersFromAbove ==
  ASSUME input \in Inputs, PivotsIn, NEW v \in Nodes, NEW d \in Range(scc),
         Leads(input, v, pivot[d]), scc[v] # d
  PROVE  \E e \in Range(scc) : e > d /\ \E con \in successors(e) :
           con.target = d /\ Leads(input, v, pivot[e])
<1>1. HasDistances(input) /\ Nodes = DOMAIN input.graph /\ scc = input.scc
  BY EccentricitiesHold, NodesAre DEF HasEccentricities
<1>2. pivot[d] \in Nodes /\ scc[pivot[d]] = d
  BY DEF PivotsIn
<1>3. PICK x \in Nodes : \E y \in input.graph[x] :
        scc[y] = d /\ scc[x] # d /\ Leads(input, v, x)
  BY <1>1, <1>2, LeavesAndEnters
<1>4. PICK y \in input.graph[x] : scc[y] = d /\ scc[x] # d /\ Leads(input, v, x)
  BY <1>3
<1> DEFINE e == scc[x]
<1>5. e \in Range(scc) /\ e \in Nat /\ e >= d /\ e # d /\ d \in Nat
  <2>1. y \in Nodes
    BY <1>1, InputIs DEF IsDigraph
  <2> QED
    BY <1>1, <1>4, <2>1, InputComponents
<1>6. PICK con \in input.scc_graph[e] : con.target = d
  BY <1>1, <1>4, <1>5, ConnectionsAre
<1>7. Leads(input, v, pivot[e])
  <2>1. pivot[e] \in Nodes /\ scc[pivot[e]] = scc[x]
    BY <1>5 DEF PivotsIn
  <2>2. Leads(input, x, pivot[e])
    BY <1>1, <2>1, InputComponents
  <2> HIDE DEF e
  <2> QED
    BY <1>1, <1>4, <2>1, <2>2 DEF HasDistances
<1>8. e > d
  BY <1>5
<1>9. con \in successors(e)
  BY <1>6 DEF successors
<1> HIDE DEF e
<1> QED
  BY <1>5, <1>6, <1>7, <1>8, <1>9

LEMMA BoundForwardKeeps ==
  ASSUME Core, PivotInv, BoundForward
  PROVE  /\ PivotInv' /\ pc' \in bounding_pcs /\ pc \in bounding_pcs
<1> DEFINE R == Range(scc)
           c == component
           P == pivot[component]
<1>1. StateTypes /\ Bracketed /\ input \in Inputs /\ pc = "bound_forward"
  BY DEF Core, StateTypes, BoundForward
<1>2. HasEccentricities /\ HasDistances(input) /\ num_nodes \in Nat
      /\ Nodes = DOMAIN input.graph /\ scc = input.scc /\ R \subseteq Nat
  BY <1>1, EccentricitiesHold, NodesAre DEF HasEccentricities
<1>3. /\ PivotsIn /\ c \in R
      /\ ecc_pivot_f \in [R -> 0 .. num_nodes] /\ ecc_pivot_b \in [R -> 0 .. num_nodes]
      /\ \A d \in R : \A v \in Nodes :
           Leads(input, pivot[d], v) /\ (scc[v] = d \/ d < c) =>
             Dist(input, pivot[d], v) <= ecc_pivot_f[d]
      /\ \A d \in R : \A v \in Nodes : Leads(input, v, pivot[d]) /\ scc[v] = d =>
           Dist(input, v, pivot[d]) <= ecc_pivot_b[d]
  BY <1>1 DEF PivotInv, bounding_pcs, PivotsIn
<1>4. P \in Nodes /\ scc[P] = c
  BY <1>3 DEF PivotsIn
<1> DEFINE through == {Crossing(con.arc) + ecc_pivot_f[con.target] : con \in successors(c)}
           old == ecc_pivot_f[c]
           new == AtMost(forward_high[P], Largest(through \cup {old}))
<1>5. /\ input' = input /\ pivot' = pivot /\ ecc_pivot_b' = ecc_pivot_b
      /\ ecc_pivot_f' = IF through = {} THEN ecc_pivot_f
           ELSE [ecc_pivot_f EXCEPT ![c] = new]
      /\ \/ c + 1 \in R /\ component' = c + 1 /\ pc' = "bound_forward"
         \/ c + 1 \notin R /\ component' = c /\ pc' = "bound_backward"
  BY <1>1 DEF BoundForward, bounding, given
<1>6. Nodes' = Nodes /\ num_nodes' = num_nodes /\ scc' = scc
      /\ \A e : successors(e)' = successors(e)
  BY <1>5, InputStays
<1>7. /\ through \cup {old} \subseteq Nat
      /\ \A t \in through \cup {old} : t <= 3 * num_nodes + 1
      /\ old \in 0 .. num_nodes
  <2>1. old \in 0 .. num_nodes
    BY <1>3
  <2>2. ASSUME NEW con \in successors(c)
        PROVE  Crossing(con.arc) + ecc_pivot_f[con.target] \in 0 .. 3 * num_nodes + 1
    <3>1. con.target \in R /\ Crossing(con.arc) \in 0 .. 2 * num_nodes + 1
      BY <1>1, <1>3, CrossingIs
    <3>2. ecc_pivot_f[con.target] \in 0 .. num_nodes
      BY <1>3, <3>1
    <3> QED
      BY <1>2, <3>1, <3>2
  <2> QED
    BY <1>2, <2>1, <2>2
<1>8. Largest(through \cup {old}) \in Nat
      /\ \A t \in through \cup {old} : t <= Largest(through \cup {old})
  <2> HIDE DEF through, old
  <2>1. 3 * num_nodes + 1 \in Nat
    BY <1>2
  <2> QED
    BY <1>7, <2>1, LargestIs
<1>9. forward_high[P] \in 0 .. num_nodes /\ EccOf(P) <= forward_high[P] /\ EccOf(P) \in Nat
  BY <1>1, <1>2, <1>4 DEF StateTypes, Bounds, Bracketed, HasEccentricities
<1>10. new \in 0 .. num_nodes
       /\ \A k \in Nat : k <= EccOf(P) /\ k <= Largest(through \cup {old}) => k <= new
  <2> HIDE DEF through, old, P
  <2> QED
    BY <1>2, <1>8, <1>9 DEF AtMost
<1>11. ASSUME NEW v \in Nodes, Leads(input, P, v)
       PROVE  \/ Dist(input, P, v) <= old
              \/ \E t \in through : Dist(input, P, v) <= t
  <2>1. CASE scc[v] = c
    BY <1>3, <1>11, <2>1
  <2>2. CASE scc[v] # c
    <3>1. PICK x \in Nodes : \E y \in input.graph[x] :
            scc[x] = c /\ scc[y] # c /\ Leads(input, y, v)
      <4> HIDE DEF P
      <4> QED
        BY <1>1, <1>2, <1>4, <1>11, <2>2, LeavesAndEnters
    <3>2. PICK y \in input.graph[x] : scc[x] = c /\ scc[y] # c /\ Leads(input, y, v)
      BY <3>1
    <3>3. y \in Nodes
      BY <1>1, <1>2, InputIs DEF IsDigraph
    <3>4. PICK con \in successors(c) : con.target = scc[y]
      BY <1>1, <1>2, <1>3, <3>2, ConnectionsAre DEF successors
    <3> DEFINE d == con.target
               Q == pivot[con.target]
    <3>5. /\ d \in R /\ d < c /\ Leads(input, P, Q)
          /\ Dist(input, P, Q) <= Crossing(con.arc) /\ Crossing(con.arc) \in Nat
      BY <1>1, <1>2, <1>3, CrossingIs
    <3>6. Q \in Nodes /\ scc[Q] = scc[y]
      BY <1>3, <3>4, <3>5 DEF PivotsIn
    <3>7. Leads(input, Q, v)
      <4>1. Leads(input, Q, y)
        BY <1>1, <1>2, <3>3, <3>6, InputComponents
      <4> HIDE DEF Q
      <4> QED
        BY <1>2, <3>2, <3>3, <3>6, <4>1 DEF HasDistances
    <3>8. Dist(input, Q, v) <= ecc_pivot_f[d] /\ ecc_pivot_f[d] \in Nat
      BY <1>2, <1>3, <3>5, <3>7
    <3>9. Crossing(con.arc) + ecc_pivot_f[d] \in through
      OBVIOUS
    <3> HIDE DEF P, Q
    <3>10. Dist(input, P, v) <= Dist(input, P, Q) + Dist(input, Q, v)
      BY <1>2, <1>4, <3>5, <3>6, <3>7 DEF HasDistances
    <3>11. Dist(input, P, v) \in Nat /\ Dist(input, P, Q) \in Nat /\ Dist(input, Q, v) \in Nat
      BY <1>2, <1>4, <1>11, <3>5, <3>6, <3>7 DEF HasDistances
    <3>12. Dist(input, P, v) <= Crossing(con.arc) + ecc_pivot_f[d]
      BY <3>5, <3>8, <3>10, <3>11
    <3> QED
      BY <3>9, <3>12
  <2> QED
    BY <2>1, <2>2
<1>12. ASSUME NEW v \in Nodes, Leads(input, P, v)
       PROVE  Dist(input, P, v) <= ecc_pivot_f'[c]
  <2>1. CASE through = {}
    BY <1>5, <1>11, <1>12, <2>1
  <2>2. CASE through # {}
    <3>1. ecc_pivot_f'[c] = new
      BY <1>3, <1>5, <2>2
    <3>2. Dist(input, P, v) \in Nat /\ Dist(input, P, v) <= EccOf(P)
      <4> HIDE DEF P
      <4> QED
        BY <1>2, <1>4, <1>12 DEF HasEccentricities
    <3>3. Dist(input, P, v) <= Largest(through \cup {old})
      <4>1. PICK t \in through \cup {old} : Dist(input, P, v) <= t
        BY <1>11, <1>12
      <4> HIDE DEF through, old, P
      <4>2. t \in Nat /\ t <= Largest(through \cup {old})
        BY <1>7, <1>8
      <4>3. Largest(through \cup {old}) \in Nat
        BY <1>8
      <4> QED
        BY <3>2, <4>1, <4>2, <4>3
    <3> HIDE DEF through, old, P, new
    <3> QED
      BY <1>10, <3>1, <3>2, <3>3
  <2> QED
    BY <2>1, <2>2
<1>13. ecc_pivot_f' \in [R -> 0 .. num_nodes] /\ \A d \in R : d # c => ecc_pivot_f'[d] = ecc_pivot_f[d]
  <2> HIDE DEF through, new
  <2> QED
    BY <1>3, <1>5, <1>10
<1>14. \A d \in R : \A v \in Nodes : Leads(input, pivot[d], v) /\ (scc[v] = d \/ d <= c) =>
             Dist(input, pivot[d], v) <= ecc_pivot_f'[d]
  <2>1. \A d \in R : d <= c => d = c \/ d < c
    BY <1>2, <1>3
  <2> HIDE DEF through, new, old
  <2> QED
    BY <1>3, <1>12, <1>13, <2>1
<1>15. component' \in R /\ component' \in Nat /\ c \in Nat
  BY <1>2, <1>3, <1>5
<1>16. \A d \in R : d < component' \/ pc' # "bound_forward" => d <= c
  <2>1. PICK C \in Nat : R = 0 .. C - 1
    BY <1>1, <1>2, InputComponents
  <2> QED
    BY <1>3, <1>5, <2>1
<1>17. \A d \in R : pc' = "bound_backward" => ~(d > component')
  <2>1. pc' = "bound_backward" => component' = c
    BY <1>5
  <2> QED
    BY <1>2, <1>3, <1>16, <2>1
<1>18. ASSUME NEW d \in R, NEW v \in Nodes
       PROVE  ~(pc' = "bound_backward" /\ Crossed(v, d)') /\ pc' # "refine"
  BY <1>5, <1>6, <1>17 DEF Crossed
<1>19. PivotInv'
  <2>1. pivot' \in [R -> Nodes] /\ \A d \in R : scc[pivot'[d]] = d
    BY <1>3, <1>5 DEF PivotsIn
  <2>2. \A d \in R : \A v \in Nodes :
          Leads(input, pivot[d], v) /\ (scc[v] = d \/ d < component' \/ pc' # "bound_forward") =>
             Dist(input, pivot[d], v) <= ecc_pivot_f'[d]
    BY <1>14, <1>16
  <2> HIDE DEF through, new, old
  <2> QED
    BY <1>3, <1>5, <1>6, <1>13, <1>15, <1>18, <2>1, <2>2 DEF PivotInv
<1> QED
  BY <1>1, <1>5, <1>19 DEF bounding_pcs

LEMMA BoundBackwardKeeps ==
  ASSUME Core, PivotInv, BoundBackward
  PROVE  /\ PivotInv' /\ pc' \in bounding_pcs /\ pc \in bounding_pcs
<1> DEFINE R == Range(scc)
           c == component
           Through(con) == Crossing(con.arc) + ecc_pivot_b[c]
           Into(d) == {Through(con) : con \in {s \in successors(c) : s.target = d}}
           All(d) == {ecc_pivot_b[d]} \cup Into(d)
           new(d) == AtMost(backward_high[pivot[d]], Largest(All(d)))
<1>1. StateTypes /\ Bracketed /\ input \in Inputs /\ pc = "bound_backward"
  BY DEF Core, StateTypes, BoundBackward
<1>2. HasEccentricities /\ HasDistances(input) /\ num_nodes \in Nat
      /\ Nodes = DOMAIN input.graph /\ scc = input.scc /\ R \subseteq Nat
  BY <1>1, EccentricitiesHold, NodesAre DEF HasEccentricities
<1>3. /\ PivotsIn /\ c \in R
      /\ ecc_pivot_f \in [R -> 0 .. num_nodes] /\ ecc_pivot_b \in [R -> 0 .. num_nodes]
      /\ \A d \in R : \A v \in Nodes : Leads(input, pivot[d], v) =>
           Dist(input, pivot[d], v) <= ecc_pivot_f[d]
      /\ \A d \in R : \A v \in Nodes :
           Leads(input, v, pivot[d]) /\ (scc[v] = d \/ Crossed(v, d)) =>
             Dist(input, v, pivot[d]) <= ecc_pivot_b[d]
  BY <1>1 DEF PivotInv, bounding_pcs, PivotsIn
<1>4. \A d \in R : pivot[d] \in Nodes /\ scc[pivot[d]] = d
  BY <1>3 DEF PivotsIn
<1>5. /\ input' = input /\ pivot' = pivot /\ ecc_pivot_f' = ecc_pivot_f
      /\ ecc_pivot_b' = [d \in R |->
           IF \E con \in successors(c) : con.target = d THEN new(d) ELSE ecc_pivot_b[d]]
      /\ \/ c > 0 /\ component' = c - 1 /\ pc' = "bound_backward"
         \/ ~(c > 0) /\ component' = 0 /\ pc' = "refine"
  BY <1>1 DEF BoundBackward, bounding, given
<1>6. Nodes' = Nodes /\ num_nodes' = num_nodes /\ scc' = scc
      /\ \A e : successors(e)' = successors(e)
  BY <1>5, InputStays
<1>7. ASSUME NEW d \in R
      PROVE  /\ All(d) \subseteq Nat /\ \A t \in All(d) : t <= 3 * num_nodes + 1
             /\ ecc_pivot_b[d] \in 0 .. num_nodes
  <2>1. ecc_pivot_b[d] \in 0 .. num_nodes /\ ecc_pivot_b[c] \in 0 .. num_nodes
    BY <1>3
  <2>2. ASSUME NEW con \in successors(c) PROVE Through(con) \in 0 .. 3 * num_nodes + 1
    <3>1. Crossing(con.arc) \in 0 .. 2 * num_nodes + 1
      BY <1>1, <1>3, CrossingIs
    <3> QED
      BY <1>2, <2>1, <3>1
  <2>3. Into(d) \subseteq 0 .. 3 * num_nodes + 1
    BY <2>2
  <2> HIDE DEF Into
  <2> QED
    BY <1>2, <2>1, <2>3
<1>8. ASSUME NEW d \in R
      PROVE  Largest(All(d)) \in Nat /\ \A t \in All(d) : t <= Largest(All(d))
  <2>1. 3 * num_nodes + 1 \in Nat /\ All(d) # {}
    BY <1>2
  <2> HIDE DEF All
  <2> QED
    BY <1>7, <2>1, LargestIs
<1>9. ASSUME NEW d \in R
      PROVE  /\ new(d) \in 0 .. num_nodes
             /\ \A k \in Nat : \A t \in All(d) :
                  k <= BackEccOf(pivot[d]) /\ k <= t => k <= new(d)
  <2> DEFINE h == backward_high[pivot[d]]
             e == BackEccOf(pivot[d])
             m == Largest(All(d))
  <2>1. h \in 0 .. num_nodes /\ e <= h /\ e \in Nat
    <3>1. pivot[d] \in Nodes
      BY <1>4
    <3>2. \A v \in Nodes : /\ backward_high[v] \in 0 .. num_nodes
                           /\ BackEccOf(v) <= backward_high[v] /\ BackEccOf(v) \in Nat
      BY <1>1, <1>2 DEF StateTypes, Bounds, Bracketed, HasEccentricities
    <3> QED
      BY <3>1, <3>2
  <2>2. m \in Nat /\ \A t \in All(d) : t <= m /\ t \in Nat
    BY <1>7, <1>8
  <2>3. new(d) = AtMost(h, m)
    OBVIOUS
  <2> HIDE DEF h, e, m, new, All
  <2>4. AtMost(h, m) \in 0 .. num_nodes /\ \A k \in Nat : k <= h /\ k <= m => k <= AtMost(h, m)
    BY <1>2, <2>1, <2>2 DEF AtMost
  <2>5. \A k \in Nat : \A t \in All(d) : k <= e /\ k <= t => k <= h /\ k <= m
    BY <1>2, <2>1, <2>2
  <2> QED
    BY <2>3, <2>4, <2>5 DEF e
<1> HIDE DEF new
<1>10. ecc_pivot_b' \in [R -> 0 .. num_nodes]
  BY <1>3, <1>5, <1>9
<1>11. ASSUME NEW d \in R, NEW v \in Nodes, Leads(input, v, pivot[d])
       PROVE  Dist(input, v, pivot[d]) \in Nat /\ Dist(input, v, pivot[d]) <= BackEccOf(pivot[d])
  BY <1>2, <1>4, <1>11 DEF HasEccentricities
<1>12. ASSUME NEW d \in R, NEW v \in Nodes, Leads(input, v, pivot[d]),
              \E t \in All(d) : Dist(input, v, pivot[d]) <= t,
              \E con \in successors(c) : con.target = d
       PROVE  Dist(input, v, pivot[d]) <= ecc_pivot_b'[d]
  <2>1. ecc_pivot_b'[d] = new(d)
    BY <1>5, <1>12
  <2> HIDE DEF All
  <2> QED
    BY <1>9, <1>11, <1>12, <2>1
<1>13. ASSUME NEW d \in R, NEW v \in Nodes, Leads(input, v, pivot[d]),
              scc[v] = d \/ Crossed(v, d)
       PROVE  Dist(input, v, pivot[d]) <= ecc_pivot_b'[d]
  <2>1. Dist(input, v, pivot[d]) <= ecc_pivot_b[d]
    BY <1>3, <1>13
  <2>2. CASE \E con \in successors(c) : con.target = d
    <3>1. ecc_pivot_b[d] \in All(d)
      OBVIOUS
    <3> HIDE DEF All
    <3> QED
      BY <1>12, <1>13, <2>1, <2>2, <3>1
  <2>3. CASE ~ \E con \in successors(c) : con.target = d
    BY <1>5, <2>1, <2>3
  <2> QED
    BY <2>2, <2>3
<1>14. ASSUME NEW d \in R, NEW v \in Nodes, NEW con \in successors(c), con.target = d,
              Leads(input, v, pivot[c])
       PROVE  Leads(input, v, pivot[d]) /\ Dist(input, v, pivot[d]) <= ecc_pivot_b'[d]
  <2> DEFINE P == pivot[c]
             Q == pivot[d]
  <2>1. P \in Nodes /\ Q \in Nodes
    BY <1>3, <1>4
  <2>2. Dist(input, v, P) <= ecc_pivot_b[c] /\ ecc_pivot_b[c] \in Nat
    <3>1. scc[v] # c => Crossed(v, c)
      BY <1>1, <1>3, <1>14, EntersFromAbove DEF Crossed
    <3> QED
      BY <1>3, <1>14, <3>1
  <2>3. /\ Crossing(con.arc) \in 0 .. 2 * num_nodes + 1
        /\ Leads(input, P, Q) /\ Dist(input, P, Q) <= Crossing(con.arc)
    BY <1>1, <1>3, <1>14, CrossingIs
  <2>4. Through(con) \in All(d)
    BY <1>14
  <2> HIDE DEF P, Q
  <2>5. Leads(input, v, Q) /\ Dist(input, v, Q) <= Dist(input, v, P) + Dist(input, P, Q)
    BY <1>2, <1>14, <2>1, <2>3 DEF HasDistances, P
  <2>6. Dist(input, v, Q) \in Nat /\ Dist(input, v, P) \in Nat /\ Dist(input, P, Q) \in Nat
    BY <1>2, <1>14, <2>1, <2>3, <2>5 DEF HasDistances, P
  <2>7. Dist(input, v, Q) <= Through(con)
    BY <1>2, <2>2, <2>3, <2>5, <2>6
  <2> HIDE DEF All, Through
  <2>8. Dist(input, v, Q) <= ecc_pivot_b'[d]
    BY <1>12, <1>14, <2>4, <2>5, <2>7 DEF Q
  <2> QED
    BY <2>5, <2>8 DEF Q
<1>15. ASSUME NEW d \in R, NEW v \in Nodes, Leads(input, v, pivot[d]),
              NEW e \in R, e >= c, NEW con \in successors(e), con.target = d,
              Leads(input, v, pivot[e])
       PROVE  Dist(input, v, pivot[d]) <= ecc_pivot_b'[d]
  <2>1. CASE e = c
    BY <1>14, <1>15, <2>1
  <2>2. CASE e # c
    <3>1. e > c
      BY <1>2, <1>3, <1>15, <2>2
    <3>2. Crossed(v, d)
      BY <1>15, <3>1 DEF Crossed
    <3> QED
      BY <1>13, <1>15, <3>2
  <2> QED
    BY <2>1, <2>2
<1>16. component' \in R /\ component' \in Nat /\ c \in Nat
       /\ \A e \in R : e > component' \/ pc' = "refine" => e >= c
  <2>1. PICK C \in Nat : C # 0 /\ R = 0 .. C - 1
    BY <1>1, <1>2, InputComponents
  <2> QED
    BY <1>3, <1>5, <2>1
<1>17. ASSUME NEW d \in R, NEW v \in Nodes, Leads(input, v, pivot[d]),
              scc[v] = d \/ pc' = "refine" \/ (pc' = "bound_backward" /\ Crossed(v, d)')
       PROVE  Dist(input, v, pivot[d]) <= ecc_pivot_b'[d]
  <2>1. CASE scc[v] = d
    BY <1>13, <1>17, <2>1
  <2>2. CASE scc[v] # d /\ pc' = "refine"
    <3>1. PICK e \in R : e > d /\ \E con \in successors(e) :
            con.target = d /\ Leads(input, v, pivot[e])
      BY <1>1, <1>3, <1>17, <2>2, EntersFromAbove
    <3>2. e >= c
      BY <1>16, <2>2
    <3> QED
      BY <1>15, <1>17, <3>1, <3>2
  <2>3. CASE scc[v] # d /\ Crossed(v, d)'
    <3>1. PICK e \in R : e > component' /\ \E con \in successors(e) :
            con.target = d /\ Leads(input, v, pivot[e])
      BY <1>5, <1>6, <2>3 DEF Crossed
    <3>2. e >= c
      BY <1>16, <3>1
    <3> QED
      BY <1>15, <1>17, <3>1, <3>2
  <2> QED
    BY <1>17, <2>1, <2>2, <2>3
<1>18. PivotInv'
  <2>1. pivot' \in [R -> Nodes] /\ \A d \in R : scc[pivot'[d]] = d
    BY <1>3, <1>5 DEF PivotsIn
  <2> HIDE DEF All, Through, Into
  <2> QED
    BY <1>3, <1>5, <1>6, <1>10, <1>16, <1>17, <2>1 DEF PivotInv
<1> QED
  BY <1>1, <1>5, <1>18 DEF bounding_pcs

LEMMA BoundingKeeps ==
  ASSUME SweepInv, BoundForward \/ BoundBackward
  PROVE  SweepInv'
<1>1. /\ Core /\ ControlTypes /\ LockInv /\ MissingInv /\ PivotInv
      /\ level \in Wanted /\ missing_nodes \in Nat
  BY DEF SweepInv, ControlTypes
<1>2. PivotInv' /\ pc' \in bounding_pcs /\ pc \in bounding_pcs
  BY <1>1, BoundForwardKeeps, BoundBackwardKeeps
<1>3. /\ UNCHANGED <<input, forward, backward, diameter, radius, radial_vertices>>
      /\ UNCHANGED <<level, solved, points, missing_nodes, step>>
      /\ iterations' = iterations /\ told' = told /\ claims' = claims
  BY DEF BoundForward, BoundBackward, bounding, given, choice
<1>4. Joined /\ Joined'
  BY <1>1, <1>2, <1>3 DEF LockInv, Joined
<1>5. Core' /\ Advances
  BY <1>1, <1>3, NothingMoves DEF Core, StateTypes
<1>6. ControlTypes'
  BY <1>1, <1>2, <1>3 DEF ControlTypes, Pcs, bounding_pcs
<1>7. LockInv'
  BY <1>2, <1>4 DEF LockInv, bounding_pcs
<1>8. MissingInv'
  <2>1. LevelMissing' <= LevelMissing
    BY <1>1, <1>3, <1>5, FewerMissing
  <2>2. LevelMissing \in Nat /\ LevelMissing' \in Nat
    <3>1. LevelCounts'
      BY <1>5, <1>6, MissingNatural, PTL
    <3> QED
      BY <1>1, <3>1, MissingNat DEF LevelCounts
  <2>3. LevelMissing' <= missing_nodes' /\ iterations' # 0
    BY <1>1, <1>2, <1>3, <2>1, <2>2 DEF MissingInv, bounding_pcs
  <2> QED
    BY <1>2, <2>3 DEF MissingInv, bounding_pcs
<1> QED
  BY <1>2, <1>5, <1>6, <1>7, <1>8 DEF SweepInv

LEMMA RefineStepKeeps ==
  ASSUME SweepInv, Refine
  PROVE  SweepInv'
<1>1. /\ Core /\ ControlTypes /\ LockInv /\ MissingInv /\ PivotInv
      /\ level \in Wanted /\ missing_nodes \in Nat /\ pc = "refine"
  BY DEF SweepInv, ControlTypes, Refine
<1>2. Joined
  BY <1>1 DEF LockInv, bounding_pcs
<1>3. Core' /\ Advances /\ iterations' # 0
  BY <1>1, <1>2, RefineKeeps
<1>4. UNCHANGED <<level, solved, points, missing_nodes, step>> /\ pc' = "again"
  BY DEF Refine, given, choice
<1>5. ControlTypes'
  BY <1>1, <1>4 DEF ControlTypes, Pcs
<1>6. LockInv' /\ PivotInv'
  BY <1>4 DEF LockInv, PivotInv, bounding_pcs
<1>7. MissingInv'
  <2>1. LevelMissing' <= LevelMissing
    BY <1>1, <1>3, <1>4, FewerMissing
  <2>2. LevelMissing \in Nat /\ LevelMissing' \in Nat
    <3>1. LevelCounts'
      BY <1>3, <1>5, MissingNatural, PTL
    <3> QED
      BY <1>1, <3>1, MissingNat DEF LevelCounts
  <2>3. LevelMissing' <= missing_nodes'
    BY <1>1, <1>4, <2>1, <2>2 DEF MissingInv, bounding_pcs
  <2> QED
    BY <1>3, <1>4, <2>3 DEF MissingInv
<1> QED
  BY <1>3, <1>5, <1>6, <1>7 DEF SweepInv

LEMMA StutterKeeps ==
  ASSUME SweepInv, UNCHANGED vars
  PROVE  SweepInv'
<1>1. /\ Core /\ ControlTypes /\ LockInv /\ MissingInv /\ PivotInv
      /\ level \in Wanted /\ missing_nodes \in Nat
  BY DEF SweepInv, ControlTypes
<1>2. /\ UNCHANGED <<input, forward, backward, diameter, radius, radial_vertices>>
      /\ UNCHANGED <<level, solved, points, missing_nodes, step>>
      /\ iterations' = iterations /\ told' = told /\ claims' = claims /\ pc' = pc
      /\ pivot' = pivot /\ ecc_pivot_f' = ecc_pivot_f /\ ecc_pivot_b' = ecc_pivot_b
      /\ component' = component
  BY DEF vars, given, choice, pivots
<1>3. /\ input' = input /\ radial_vertices' = radial_vertices
      /\ forward_low' = forward_low /\ forward_high' = forward_high
      /\ backward_low' = backward_low /\ backward_high' = backward_high
      /\ diameter_low' = diameter_low /\ radius_high' = radius_high
  BY <1>2 DEF forward, backward, diameter, radius
<1>4. Core'
  BY <1>1, <1>2, NothingMoves DEF Core, StateTypes
<1>5. Nodes' = Nodes /\ num_nodes' = num_nodes /\ scc' = scc
      /\ \A e : successors(e)' = successors(e)
  BY <1>3, InputStays
<1>6. ControlTypes'
  BY <1>1, <1>2 DEF ControlTypes
<1>7. LockInv'
  BY <1>1, <1>2, <1>3, <1>5 DEF LockInv, Joined
<1>8. MissingInv'
  <2>1. OpenForward' = OpenForward /\ OpenBackward' = OpenBackward
    BY <1>3, <1>5 DEF OpenForward, OpenBackward, incomplete_forward, incomplete_backward
  <2>2. Missing' = Missing
    BY <1>3, <2>1 DEF Missing, Count
  <2>3. LevelMissing' = LevelMissing /\ Promises' = Promises
    BY <1>2, <1>3, <2>2 DEF LevelMissing, Promises
  <2> QED
    BY <1>1, <1>2, <2>2, <2>3 DEF MissingInv
<1>9. PivotInv'
  <2>1. \A u, d : Crossed(u, d)' = Crossed(u, d)
    BY <1>2, <1>3, <1>5 DEF Crossed
  <2> QED
    BY <1>1, <1>2, <1>3, <1>5, <2>1 DEF PivotInv
<1> QED
  BY <1>4, <1>6, <1>7, <1>8, <1>9 DEF SweepInv

LEMMA EveryStepKeeps == SweepInv /\ [Next]_vars => SweepInv'
<1> SUFFICES ASSUME SweepInv, [Next]_vars PROVE SweepInv'
  OBVIOUS
<1>1. CASE ComputeRadial
  BY <1>1, RadialKeeps
<1>2. CASE Sweep
  BY <1>2, SweepKeeps
<1>3. CASE Measure
  BY <1>3, MeasureKeeps
<1>4. CASE Choose
  BY <1>4, ChooseKeeps
<1>5. CASE BoundForward \/ BoundBackward
  BY <1>5, BoundingKeeps
<1>6. CASE Refine
  BY <1>6, RefineStepKeeps
<1>7. CASE (\E t \in told : Compare(t)) \/ (\E t \in claims : Claim(t))
  BY <1>7, AtLockKeeps
<1>8. CASE UNCHANGED vars
  BY <1>8, StutterKeeps
<1> QED
  BY <1>1, <1>2, <1>3, <1>4, <1>5, <1>6, <1>7, <1>8 DEF Next

(* No step breaks the invariant, in any order of the threads.              *)
LEMMA SweepInvariant == Spec => []SweepInv
BY StartsBracketed, EveryStepKeeps, PTL DEF Spec

(***************************************************************************)
(* What the computation is used for.                                       *)
(***************************************************************************)

(* The upper bounds stay in 0 .. n, and what waits at the lock of the      *)
(* radius is an eccentricity and its node.                                 *)
THEOREM TypeCorrect == Spec => []TypeOK
<1>1. SweepInv => TypeOK
  <2> SUFFICES ASSUME SweepInv PROVE TypeOK
    OBVIOUS
  <2>1. StateTypes /\ RadiusInv /\ HasEccentricities
    BY EccentricitiesHold DEF SweepInv, Core, StateTypes
  <2>2. told \cup claims \subseteq (0 .. num_nodes) \X Nodes
    <3> SUFFICES ASSUME NEW t \in told \cup claims PROVE t \in (0 .. num_nodes) \X Nodes
      OBVIOUS
    <3>1. PICK v \in radial_vertices : t = <<EccOf(v), v>>
      BY <2>1 DEF RadiusInv
    <3>2. v \in Nodes /\ EccOf(v) \in 0 .. num_nodes
      BY <2>1 DEF StateTypes, HasEccentricities
    <3> QED
      BY <3>1, <3>2
  <2> QED
    BY <2>1, <2>2 DEF TypeOK, StateTypes, Bounds
<1> QED
  BY SweepInvariant, <1>1, PTL

(* The lower and upper bounds of the eccentricities, of the diameter and   *)
(* of the radius are right after every visit, every refinement through     *)
(* pivots, and whatever order the threads take the lock of the radius in   *)
(* (step_sum_sweep, all_cc_upper_bound); no step leaves more nodes missing *)
(* than before, so that the subtraction which awards points is one of      *)
(* naturals (compute).                                                     *)
THEOREM BoundsTheorem == Spec => []BoundsBracket
<1>1. SweepInv => BoundsBracket
  <2> SUFFICES ASSUME SweepInv PROVE BoundsBracket
    OBVIOUS
  <2>1. Bracketed /\ DiameterInv /\ RadiusInv /\ points \in [0 .. 4 -> Nat]
    BY DEF SweepInv, Core, ControlTypes
  <2>2. \A s \in DOMAIN points : points[s] >= 0
    BY <2>1
  <2> QED
    BY <2>1, <2>2 DEF BoundsBracket, Bracketed, DiameterInv, RadiusInv
<1> QED
  BY SweepInvariant, <1>1, PTL

LEMMA ClosedIsExact ==
  ASSUME Core, NEW v \in Nodes
  PROVE  /\ forward_low[v] \in Nat /\ forward_high[v] \in Nat
         /\ backward_low[v] \in Nat /\ backward_high[v] \in Nat
         /\ EccOf(v) \in Nat /\ EccOf(v) <= num_nodes /\ BackEccOf(v) \in Nat
         /\ forward_low[v] <= EccOf(v) /\ EccOf(v) <= forward_high[v]
         /\ backward_low[v] <= BackEccOf(v) /\ BackEccOf(v) <= backward_high[v]
         /\ v \notin OpenForward => forward_low[v] = EccOf(v)
         /\ v \notin OpenBackward => backward_low[v] = BackEccOf(v) /\ backward_high[v] = BackEccOf(v)
<1>1. StateTypes /\ Bracketed /\ HasEccentricities /\ num_nodes \in Nat
  BY EccentricitiesHold DEF Core, StateTypes, HasEccentricities
<1>2. /\ forward_low[v] \in Nat /\ forward_high[v] \in Nat
      /\ backward_low[v] \in Nat /\ backward_high[v] \in Nat
      /\ EccOf(v) \in Nat /\ EccOf(v) <= num_nodes /\ BackEccOf(v) \in Nat
  BY <1>1 DEF StateTypes, Bounds, HasEccentricities
<1>3. /\ forward_low[v] <= EccOf(v) /\ EccOf(v) <= forward_high[v]
      /\ backward_low[v] <= BackEccOf(v) /\ BackEccOf(v) <= backward_high[v]
  BY <1>1 DEF Bracketed
<1>4. /\ v \notin OpenForward => forward_low[v] = forward_high[v]
      /\ v \notin OpenBackward => backward_low[v] = backward_high[v]
  BY DEF OpenForward, OpenBackward, incomplete_forward, incomplete_backward
<1> QED
  BY <1>2, <1>3, <1>4

LEMMA DiameterIsExact ==
  ASSUME Core, Missing.diameter = 0
  PROVE  diameter_low = Diameter
<1>1. StateTypes /\ DiameterInv /\ HasEccentricities /\ MissingFacts
  BY EccentricitiesHold, MissingIs DEF Core, StateTypes
<1>2. num_nodes \in Nat /\ 0 \in Nodes /\ diameter_low \in Nat /\ diameter_vertex \in Nodes
  BY <1>1 DEF HasEccentricities, StateTypes
<1>3. \A v \in Nodes : \E w \in Nodes : EccOf(v) <= BackEccOf(w)
  BY <1>1 DEF HasEccentricities
<1>4. \A v \in Nodes : \E w \in Nodes : BackEccOf(v) <= EccOf(w)
  BY <1>1 DEF HasEccentricities
<1>5. OpenHigh = {} \/ OpenBack = {}
  <2>1. Cardinality(OpenHigh) = 0 \/ Cardinality(OpenBack) = 0
    BY <1>1 DEF MissingFacts, AtMost
  <2>2. IsFiniteSet(OpenHigh) /\ IsFiniteSet(OpenBack)
    BY <1>1 DEF MissingFacts
  <2> QED
    BY <2>1, <2>2, FS_EmptySet
<1>6. ASSUME NEW v \in Nodes PROVE EccOf(v) <= diameter_low
  <2>1. CASE OpenHigh = {}
    <3>1. forward_low[v] <= diameter_low
      BY <1>1 DEF DiameterInv
    <3>2. v \in OpenForward => ~(forward_high[v] > diameter_low)
      BY <2>1 DEF OpenHigh
    <3> QED
      BY <1>2, <3>1, <3>2, ClosedIsExact
  <2>2. CASE OpenBack = {}
    <3>1. PICK w \in Nodes : EccOf(v) <= BackEccOf(w)
      BY <1>3
    <3>2. backward_low[w] <= diameter_low
      BY <1>1 DEF DiameterInv
    <3>3. w \in OpenBackward => ~(backward_high[w] > diameter_low)
      BY <2>2 DEF OpenBack
    <3>4. BackEccOf(w) <= diameter_low
      BY <1>2, <3>2, <3>3, ClosedIsExact
    <3> QED
      BY <1>2, <3>1, <3>4, ClosedIsExact
  <2> QED
    BY <1>5, <2>1, <2>2
<1> DEFINE E == {EccOf(v) : v \in Nodes}
<1>7. Largest(E) \in E /\ \A y \in E : y <= Largest(E)
  <2>1. E \subseteq Nat /\ E # {} /\ \A x \in E : x <= num_nodes
    BY <1>2, ClosedIsExact
  <2> HIDE DEF E
  <2> QED
    BY <1>2, <2>1, LargestIs
<1>8. PICK u \in Nodes : Largest(E) = EccOf(u)
  BY <1>7
<1>9. \A v \in Nodes : EccOf(v) <= Largest(E)
  BY <1>7
<1>10. diameter_low <= Largest(E)
  <2> HIDE DEF E
  <2>1. diameter_low \in {0, EccOf(diameter_vertex), BackEccOf(diameter_vertex)}
    BY <1>1 DEF DiameterInv
  <2>2. CASE diameter_low = 0
    BY <1>8, <2>2, ClosedIsExact
  <2>3. CASE diameter_low = EccOf(diameter_vertex)
    BY <1>2, <1>9, <2>3
  <2>4. CASE diameter_low = BackEccOf(diameter_vertex)
    <3>1. PICK w \in Nodes : BackEccOf(diameter_vertex) <= EccOf(w)
      BY <1>2, <1>4
    <3>2. EccOf(w) \in Nat /\ EccOf(u) \in Nat /\ EccOf(w) <= EccOf(u)
      BY <1>8, <1>9, ClosedIsExact
    <3> QED
      BY <1>2, <1>8, <2>4, <3>1, <3>2
  <2> QED
    BY <2>1, <2>2, <2>3, <2>4
<1>11. Largest(E) \in Nat /\ Largest(E) <= diameter_low
  <2> HIDE DEF E
  <2> QED
    BY <1>6, <1>8, ClosedIsExact
<1>12. Diameter = Largest(E)
  BY DEF Diameter
<1> HIDE DEF E
<1> QED
  BY <1>2, <1>10, <1>11, <1>12

LEMMA RadiusIsExact ==
  ASSUME Core, Joined, Missing.radius = 0
  PROVE  radius_high = RadiusOf(radial_vertices)
<1>1. StateTypes /\ RadiusInv /\ HasEccentricities /\ MissingFacts /\ told = {} /\ claims = {}
  BY EccentricitiesHold, MissingIs DEF Core, StateTypes, Joined
<1>2. /\ num_nodes \in Nat /\ num_nodes < Unbounded /\ Unbounded \in Nat
      /\ radius_high \in Nat /\ radial_vertices \subseteq Nodes
  BY <1>1 DEF HasEccentricities, StateTypes
<1>3. OpenRadial = {}
  <2>1. Cardinality(OpenRadial) = 0 /\ IsFiniteSet(OpenRadial)
    <3>1. OpenRadial \subseteq Nodes
      BY <1>1 DEF MissingFacts
    <3> QED
      BY <1>1, <3>1 DEF MissingFacts
  <2> QED
    BY <2>1, FS_EmptySet
<1>4. ASSUME NEW v \in radial_vertices PROVE radius_high <= EccOf(v)
  <2>1. v \in Nodes
    BY <1>2
  <2>2. CASE v \in OpenForward
    <3>1. ~(forward_low[v] < radius_high)
      BY <1>3, <2>2 DEF OpenRadial
    <3> QED
      BY <1>2, <2>1, <3>1, ClosedIsExact
  <2>3. CASE v \notin OpenForward
    <3>1. forward_low[v] = forward_high[v]
      BY <2>1, <2>3 DEF OpenForward, incomplete_forward
    <3>2. radius_high <= forward_low[v]
      BY <1>1, <3>1 DEF RadiusInv
    <3> QED
      BY <2>1, <2>3, <3>2, ClosedIsExact
  <2> QED
    BY <2>2, <2>3
<1> DEFINE T == {-EccOf(v) : v \in radial_vertices} \cup {-Unbounded}
<1>5. radius_high = Unbounded \/ \E v \in radial_vertices : radius_high = EccOf(v)
  BY <1>1 DEF RadiusInv
<1>6. radius_high <= Unbounded
  BY <1>2, <1>5, ClosedIsExact
<1>7. -radius_high \in T
  BY <1>5
<1>8. \A t \in T : t \in Int /\ t <= -radius_high
  <2>1. \A v \in radial_vertices : EccOf(v) \in Nat
    BY <1>2, ClosedIsExact
  <2> QED
    BY <1>2, <1>4, <1>6, <2>1
<1> HIDE DEF T
<1>9. Largest(T) \in T /\ \A t \in T : t <= Largest(T)
  <2>1. \E x \in T : \A y \in T : y <= x
    BY <1>7, <1>8
  <2> QED
    BY <2>1, Zenon DEF Largest
<1>10. Largest(T) = -radius_high
  BY <1>2, <1>7, <1>8, <1>9
<1>11. RadiusOf(radial_vertices) = -Largest(T)
  BY DEF RadiusOf, T
<1> QED
  BY <1>2, <1>10, <1>11

(* When the computation ends, what its level promises is exact: diameter,  *)
(* radius, eccentricities (the assertions of level.rs), on every graph     *)
(* with its components, for every choice of radial vertices and of steps.  *)
THEOREM AnswersTheorem == Spec => []AnswersExact
<1>1. SweepInv => AnswersExact
  <2> SUFFICES ASSUME SweepInv, pc = "done"
               PROVE  /\ \A part \in Promises : solved[part] # -1
                      /\ "diameter" \in Promises => diameter_low = Diameter
                      /\ "radius" \in Promises => radius_high = RadiusOf(radial_vertices)
                      /\ "forward" \in Promises => \A v \in Nodes : forward_low[v] = EccOf(v)
                      /\ "all" \in Promises => \A v \in Nodes : backward_high[v] = BackEccOf(v)
    BY DEF AnswersExact
  <2>1. Core /\ Joined /\ \A part \in Promises : Missing[part] = 0 /\ solved[part] # -1
    BY DEF SweepInv, LockInv, MissingInv
  <2>2. MissingFacts
    BY <2>1, MissingIs
  <2>3. IsFiniteSet(OpenForward) /\ IsFiniteSet(OpenBackward)
    BY <2>2 DEF MissingFacts
  <2>4. ASSUME "forward" \in Promises, NEW v \in Nodes PROVE forward_low[v] = EccOf(v)
    <3>1. Cardinality(OpenForward) = 0
      BY <2>1, <2>2, <2>4 DEF MissingFacts
    <3>2. OpenForward = {}
      BY <2>3, <3>1, FS_EmptySet
    <3> QED
      BY <2>1, <3>2, ClosedIsExact
  <2>5. ASSUME "all" \in Promises, NEW v \in Nodes PROVE backward_high[v] = BackEccOf(v)
    <3>1. Cardinality(OpenForward) + Cardinality(OpenBackward) = 0
      BY <2>1, <2>2, <2>5 DEF MissingFacts
    <3>2. Cardinality(OpenForward) \in Nat /\ Cardinality(OpenBackward) \in Nat
      BY <2>2 DEF MissingFacts
    <3>3. Cardinality(OpenBackward) = 0
      BY <3>1, <3>2
    <3>4. OpenBackward = {}
      BY <2>3, <3>3, FS_EmptySet
    <3> QED
      BY <2>1, <3>4, ClosedIsExact
  <2> QED
    BY <2>1, <2>4, <2>5, DiameterIsExact, RadiusIsExact
<1> QED
  BY SweepInvariant, <1>1, PTL

=============================================================================
