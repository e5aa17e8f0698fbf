----------------------------- MODULE DfsProofs ------------------------------
(***************************************************************************)
(* That parents on the stack, current node and bits of a depth-first visit *)
(* always describe one simple path of the graph, also where the visit was  *)
(* broken off, and that between previsit and postvisit of a node the nodes *)
(* are met that it could reach by unknown ones: for every graph, filter,   *)
(* list of roots and answer of the callback, over any number of visits of  *)
(* an object that is reset after an interruption.  On this stand: Tarjan's *)
(* algorithm, with timestamps given back and the early exit; top_sort and  *)
(* is_acyclic; the components of symm_seq and kosaraju, with their         *)
(* renumbering by size; and, by itself, the iterator over all nodes.       *)
(***************************************************************************)
EXTENDS DfsVisits, Tarjan, DfsAlgorithms, BaseLemmas

LEMMA GraphLists ==
  ASSUME NEW g, IsDigraph(g), NEW u \in DOMAIN g
  PROVE  /\ g[u] \subseteq DOMAIN g
         /\ Successors(g, u) \in Seq(g[u])
         /\ ToSet(Successors(g, u)) = g[u]
BY SuccessorLists

(* A list of members of a part of a set is a list of members of the set.   *)
LEMMA WiderLists ==
  ASSUME NEW S, NEW T, S \subseteq T, NEW s \in Seq(S)
  PROVE  s \in Seq(T)
<1>1. Len(s) \in Nat /\ s \in [1 .. Len(s) -> S]
  BY LenProperties
<1>2. s \in [1 .. Len(s) -> T]
  BY <1>1
<1> QED
  BY <1>1, <1>2

-----------------------------------------------------------------------------
(* The stack st goes along the path pa, whose nodes are in kn: each entry  *)
(* belongs to the node of the path at its place, has the node before it as *)
(* parent, and lists some of its successors.                               *)
Entry(g) == [succs : Seq(DOMAIN g), parent : DOMAIN g]
Along(g, st, pa, kn) ==
  /\ pa \in Seq(DOMAIN g) /\ st \in Seq(Entry(g))
  /\ Len(pa) = Len(st)
  /\ \A i \in 1 .. Len(pa) : pa[i] \in kn
  /\ \A i, j \in 1 .. Len(pa) : pa[i] = pa[j] => i = j
  /\ \A i \in 2 .. Len(pa) : pa[i] \in g[pa[i - 1]]
  /\ \A i \in 1 .. Len(pa) :
       /\ st[i].parent = IF i = 1 THEN pa[1] ELSE pa[i - 1]
       /\ st[i].succs \in Seq(g[pa[i]])

LEMMA AlongNothing ==
  ASSUME NEW g, NEW kn
  PROVE  Along(g, << >>, << >>, kn)
BY DEF Along, Entry

(* Taking a successor from the last entry.                                 *)
LEMMA AlongConsumed ==
  ASSUME NEW g, IsDigraph(g), NEW st, NEW pa, NEW kn, Along(g, st, pa, kn),
         st # << >>, st[Len(st)].succs # << >>
  PROVE  /\ Head(st[Len(st)].succs) \in g[pa[Len(pa)]]
         /\ g[pa[Len(pa)]] \subseteq DOMAIN g
         /\ Along(g, Append(SubSeq(st, 1, Len(st) - 1),
                            [st[Len(st)] EXCEPT !.succs = Tail(@)]), pa, kn)
<1> DEFINE n == Len(st)
           e == st[n]
           f == [e EXCEPT !.succs = Tail(@)]
           r == SubSeq(st, 1, n - 1)
           s == Append(r, f)
<1>1. st \in Seq(Entry(g)) /\ pa \in Seq(DOMAIN g) /\ Len(pa) = n
      /\ n \in Nat \ {0}
  <2>1. st \in Seq(Entry(g)) /\ pa \in Seq(DOMAIN g) /\ Len(pa) = n
    BY DEF Along
  <2> QED
    BY <2>1, EmptySeq, LenProperties
<1>2. e \in Entry(g) /\ pa[n] \in DOMAIN g
  BY <1>1, ElementOfSeq
<1>3. g[pa[n]] \subseteq DOMAIN g
  BY <1>2, GraphLists
<1>4. e.succs \in Seq(g[pa[n]]) /\ e.succs # << >>
  BY <1>1 DEF Along
<1>5. Head(e.succs) \in g[pa[n]] /\ Tail(e.succs) \in Seq(g[pa[n]])
  BY <1>4, HeadTailProperties
<1>6. Tail(e.succs) \in Seq(DOMAIN g)
  BY <1>5, <1>3, WiderLists
<1>7. f = [succs |-> Tail(e.succs), parent |-> e.parent]
  BY SMTT(30), <1>2 DEF Entry
<1>8. f \in Entry(g)
  BY <1>2, <1>6, <1>7 DEF Entry
<1>9. r \in Seq(Entry(g)) /\ Len(r) = n - 1
      /\ \A i \in 1 .. n - 1 : r[i] = st[i]
  BY <1>1, SubSeqProperties
<1>10. s \in Seq(Entry(g)) /\ Len(s) = n /\ s[n] = f
       /\ \A i \in 1 .. n - 1 : s[i] = st[i]
  <2> HIDE DEF r, f
  <2>1. Append(r, f) \in Seq(Entry(g)) /\ Len(Append(r, f)) = Len(r) + 1
        /\ \A i \in 1 .. Len(r) : Append(r, f)[i] = r[i]
        /\ Append(r, f)[Len(r) + 1] = f
    BY <1>8, <1>9, AppendProperties
  <2> QED
    BY <2>1, <1>1, <1>9
<1>11. \A i \in 1 .. n : /\ s[i].parent = st[i].parent
                         /\ s[i].succs \in Seq(g[pa[i]])
  <2> SUFFICES ASSUME NEW i \in 1 .. n
               PROVE  s[i].parent = st[i].parent /\ s[i].succs \in Seq(g[pa[i]])
    OBVIOUS
  <2> HIDE DEF s, f, r, e
  <2>1. CASE i = n
    BY <2>1, <1>5, <1>7, <1>10 DEF e
  <2>2. CASE i # n
    <3>1. i \in 1 .. n - 1
      BY <2>2, <1>1
    <3>2. s[i] = st[i]
      BY <3>1, <1>10
    <3> QED
      BY <3>2, <1>1 DEF Along
  <2> QED
    BY <2>1, <2>2
<1>12. Along(g, s, pa, kn)
  <2> HIDE DEF s, f, r, e
  <2>1. \A i \in 1 .. n : st[i].parent = IF i = 1 THEN pa[1] ELSE pa[i - 1]
    BY <1>1 DEF Along
  <2> QED
    BY <1>1, <1>10, <1>11, <2>1 DEF Along
<1> QED
  BY <1>1, <1>3, <1>5, <1>12

(* Entering a node that is not known.                                      *)
LEMMA AlongEntered ==
  ASSUME NEW g, IsDigraph(g), NEW st, NEW pa, NEW kn, Along(g, st, pa, kn),
         NEW u \in DOMAIN g, u \notin kn, NEW p \in DOMAIN g,
         pa = << >> => p = u,
         pa # << >> => p = pa[Len(pa)] /\ u \in g[p]
  PROVE  Along(g, Append(st, [succs |-> Successors(g, u), parent |-> p]),
               Append(pa, u), kn \cup {u})
<1> DEFINE n == Len(st)
           e == [succs |-> Successors(g, u), parent |-> p]
           s == Append(st, e)
           q == Append(pa, u)
<1>1. st \in Seq(Entry(g)) /\ pa \in Seq(DOMAIN g) /\ Len(pa) = n /\ n \in Nat
  <2>1. st \in Seq(Entry(g)) /\ pa \in Seq(DOMAIN g) /\ Len(pa) = n
    BY DEF Along
  <2> QED
    BY <2>1, LenProperties
<1>2. Successors(g, u) \in Seq(g[u]) /\ Successors(g, u) \in Seq(DOMAIN g)
  BY GraphLists, WiderLists
<1>3. e \in Entry(g)
  BY <1>2 DEF Entry
<1>4. /\ s \in Seq(Entry(g)) /\ Len(s) = n + 1 /\ s[n + 1] = e
      /\ \A i \in 1 .. n : s[i] = st[i]
  <2> HIDE DEF e
  <2> QED
    BY <1>1, <1>3, AppendProperties
<1>5. /\ q \in Seq(DOMAIN g) /\ Len(q) = n + 1 /\ q[n + 1] = u
      /\ \A i \in 1 .. n : q[i] = pa[i]
  BY <1>1, AppendProperties
<1>6. e.succs \in Seq(g[u]) /\ e.parent = p
  BY <1>2
<1> HIDE DEF n, e, s, q
<1>7. \A i \in 1 .. n + 1 : i = n + 1 \/ i \in 1 .. n
  BY <1>1
<1>8. \A i \in 1 .. n + 1 : q[i] \in kn \cup {u}
  BY <1>1, <1>5, <1>7 DEF Along
<1>9. \A i, j \in 1 .. n + 1 : q[i] = q[j] => i = j
  <2> SUFFICES ASSUME NEW i \in 1 .. n + 1, NEW j \in 1 .. n + 1, q[i] = q[j]
               PROVE  i = j
    OBVIOUS
  <2>1. \A k \in 1 .. n : q[k] = pa[k] /\ pa[k] \in kn
    BY <1>1, <1>5 DEF Along
  <2>2. CASE i \in 1 .. n /\ j \in 1 .. n
    BY <2>1, <2>2, <1>1 DEF Along
  <2>3. CASE i = n + 1 \/ j = n + 1
    BY <2>1, <2>3, <1>5, <1>7
  <2> QED
    BY <1>7, <2>2, <2>3
<1>10. \A i \in 2 .. n + 1 : q[i] \in g[q[i - 1]]
  <2> SUFFICES ASSUME NEW i \in 2 .. n + 1
               PROVE  q[i] \in g[q[i - 1]]
    OBVIOUS
  <2>1. i - 1 \in 1 .. n
    BY <1>1
  <2>2. CASE i \in 2 .. n
    <3>1. i \in 1 .. n /\ pa[i] \in g[pa[i - 1]]
      BY <2>2, <1>1 DEF Along
    <3> QED
      BY <3>1, <2>1, <1>5
  <2>3. CASE i = n + 1
    <3>1. n # 0 /\ pa # << >> /\ n \in 1 .. n
      BY <2>1, <2>3, <1>1
    <3>2. q[n] = pa[n] /\ u \in g[pa[n]]
      BY <3>1, <1>1, <1>5
    <3>3. i - 1 = n
      BY <2>3, <1>1
    <3> QED
      BY <3>2, <3>3, <2>3, <1>5
  <2> QED
    BY <2>2, <2>3, <1>1
<1>11. \A i \in 1 .. n + 1 :
         /\ s[i].parent = IF i = 1 THEN q[1] ELSE q[i - 1]
         /\ s[i].succs \in Seq(g[q[i]])
  <2> SUFFICES ASSUME NEW i \in 1 .. n + 1
               PROVE  /\ s[i].parent = IF i = 1 THEN q[1] ELSE q[i - 1]
                      /\ s[i].succs \in Seq(g[q[i]])
    OBVIOUS
  <2>1. CASE i \in 1 .. n
    <3>1. s[i] = st[i] /\ q[i] = pa[i]
      BY <2>1, <1>4, <1>5
    <3>2. /\ st[i].parent = IF i = 1 THEN pa[1] ELSE pa[i - 1]
          /\ st[i].succs \in Seq(g[pa[i]])
      BY <2>1, <1>1 DEF Along
    <3>3. i # 1 => i - 1 \in 1 .. n
      BY <2>1, <1>1
    <3> QED
      BY <3>1, <3>2, <3>3, <1>5
  <2>2. CASE i = n + 1
    <3>1. s[i].succs \in Seq(g[q[i]]) /\ s[i].parent = p
      BY <2>2, <1>4, <1>5, <1>6
    <3>2. CASE n = 0
      <4>1. pa = << >> /\ i = 1
        BY <2>2, <3>2, <1>1, EmptySeq
      <4> QED
        BY <4>1, <3>1, <2>2, <1>5
    <3>3. CASE n # 0
      <4>1. pa # << >> /\ i # 1 /\ i - 1 = n /\ n \in 1 .. n
        BY <2>2, <3>3, <1>1
      <4> QED
        BY <4>1, <3>1, <1>1, <1>5
    <3> QED
      BY <3>2, <3>3
  <2> QED
    BY <2>1, <2>2, <1>7
<1>12. Along(g, s, q, kn \cup {u})
  BY <1>4, <1>5, <1>8, <1>9, <1>10, <1>11 DEF Along
<1> QED
  BY <1>12 DEF s, q, e

(* Leaving the last node of the path.                                      *)
LEMMA AlongLeft ==
  ASSUME NEW g, IsDigraph(g), NEW st, NEW pa, NEW kn, Along(g, st, pa, kn),
         st # << >>
  PROVE  /\ pa # << >>
         /\ Along(g, SubSeq(st, 1, Len(st) - 1), Front(pa), kn)
         /\ Front(pa) # << >> => st[Len(st)].parent = Last(Front(pa))
         /\ ToSet(Front(pa)) = ToSet(pa) \ {Last(pa)}
<1> DEFINE n == Len(st)
           s == SubSeq(st, 1, n - 1)
           q == Front(pa)
<1>1. st \in Seq(Entry(g)) /\ pa \in Seq(DOMAIN g) /\ Len(pa) = n
      /\ n \in Nat \ {0}
  <2>1. st \in Seq(Entry(g)) /\ pa \in Seq(DOMAIN g) /\ Len(pa) = n
    BY DEF Along
  <2> QED
    BY <2>1, EmptySeq, LenProperties
<1>2. s \in Seq(Entry(g)) /\ Len(s) = n - 1
      /\ \A i \in 1 .. n - 1 : s[i] = st[i]
  BY <1>1, SubSeqProperties
<1>3. q \in Seq(DOMAIN g) /\ Len(q) = n - 1
      /\ \A i \in 1 .. n - 1 : q[i] = pa[i]
  BY <1>1, SubSeqProperties DEF Front
<1>4. pa # << >> /\ Last(pa) = pa[n]
  BY <1>1 DEF Last
<1>5. q # << >> => n - 1 \in 1 .. n - 1 /\ Last(q) = pa[n - 1]
  <2> HIDE DEF q
  <2>1. q # << >> => Len(q) # 0
    BY <1>3, EmptySeq
  <2> QED
    BY <2>1, <1>1, <1>3 DEF Last
<1> HIDE DEF n, s, q
<1>6. \A i \in 1 .. n - 1 : i \in 1 .. n
  BY <1>1
<1>7. \A i \in 1 .. n - 1 :
        /\ s[i].parent = IF i = 1 THEN q[1] ELSE q[i - 1]
        /\ s[i].succs \in Seq(g[q[i]])
  <2> TAKE i \in 1 .. n - 1
  <2>1. s[i] = st[i] /\ q[i] = pa[i]
    BY <1>2, <1>3
  <2>2. /\ st[i].parent = IF i = 1 THEN pa[1] ELSE pa[i - 1]
        /\ st[i].succs \in Seq(g[pa[i]])
    BY <1>1, <1>6 DEF Along
  <2>3. i # 1 => i - 1 \in 1 .. n - 1
    BY <1>1
  <2> QED
    BY <2>1, <2>2, <2>3, <1>3
<1>8. \A i \in 2 .. n - 1 : q[i] \in g[q[i - 1]]
  <2> TAKE i \in 2 .. n - 1
  <2>1. i \in 1 .. n - 1 /\ i - 1 \in 1 .. n - 1 /\ i \in 2 .. n
    BY <1>1
  <2>2. pa[i] \in g[pa[i - 1]]
    BY <2>1, <1>1 DEF Along
  <2> QED
    BY <2>1, <2>2, <1>3
<1>9. \A i, j \in 1 .. n : pa[i] = pa[j] => i = j
  BY <1>1 DEF Along
<1>10. \A i \in 1 .. n - 1 : q[i] \in kn
  BY <1>1, <1>3, <1>6 DEF Along
<1>11. \A i, j \in 1 .. n - 1 : q[i] = q[j] => i = j
  BY <1>3, <1>6, <1>9
<1>12. Along(g, s, q, kn)
  BY <1>2, <1>3, <1>7, <1>8, <1>10, <1>11 DEF Along
<1>13. q # << >> => st[n].parent = Last(q)
  <2>1. n \in 1 .. n /\ (n - 1 \in 1 .. n - 1 => n # 1)
    BY <1>1
  <2>2. st[n].parent = IF n = 1 THEN pa[1] ELSE pa[n - 1]
    BY <2>1, <1>1 DEF Along
  <2> QED
    BY <2>1, <2>2, <1>5
<1>14. ToSet(q) = ToSet(pa) \ {Last(pa)}
  <2>1. ToSet(q) = {q[i] : i \in 1 .. n - 1}
    BY <1>3 DEF ToSet
  <2>2. ToSet(pa) = {pa[i] : i \in 1 .. n}
    BY <1>1 DEF ToSet
  <2>3. \A i \in 1 .. n : i = n \/ i \in 1 .. n - 1
    BY <1>1
  <2>4. n \in 1 .. n /\ n \notin 1 .. n - 1
    BY <1>1
  <2> QED
    BY <2>1, <2>2, <2>3, <2>4, <1>3, <1>4, <1>6, <1>9
<1> QED
  BY <1>4, <1>12, <1>13, <1>14 DEF n, s, q

-----------------------------------------------------------------------------
(* While a visit is at work, or was broken off and not yet inspected, the  *)
(* stack goes along the path; at any other time in which a visit may begin *)
(* it is empty, since an interrupted visit is reset first.                 *)
Active == pc = "recurse" \/ (pc = "idle" /\ broke /\ path # << >>)
OnPath ==
  /\ Along(graph, stack, path, known)
  /\ path # << >> => curr = Last(path)
  /\ kind = "path" => on_stack = ToSet(path)

Shape ==
  /\ IsDigraph(graph) /\ roots \in Seq(Nodes) /\ broke \in BOOLEAN
  /\ pc \in {"idle", "roots", "previsit", "recurse", "order"}
  /\ pc # "idle" => ~broke
  /\ pc = "previsit" => root \in Nodes \ known
  /\ pc = "order" => kind = "nopred"
  /\ kind # "path" => on_stack = {}
Quiet ==
  /\ pc = "idle" /\ ~broke => stack = << >> /\ on_stack = {}
  /\ pc \in {"roots", "previsit"} =>
       stack = << >> /\ path = << >> /\ on_stack = {}

PathInv == Shape /\ Quiet /\ (Active => OnPath)

LEMMA InitPathInv ==
  ASSUME NEW graphs, NEW kinds, NEW filters, DfsInit(graphs, kinds, filters),
         \A g \in graphs : IsDigraph(g)
  PROVE  PathInv
<1>1. << >> \in Seq(Nodes)
  OBVIOUS
<1> QED
  BY <1>1 DEF DfsInit, PathInv, Shape, Quiet, Active

(* A list of roots or of nodes loses its first.                            *)
LEMMA RootsShape ==
  ASSUME Shape, roots # << >>
  PROVE  Head(roots) \in Nodes /\ Tail(roots) \in Seq(Nodes)
BY HeadTailProperties DEF Shape

(* What the last node of the path and the next arc are.                    *)
LEMMA NextArc ==
  ASSUME PathInv, AtArc
  PROVE  /\ Along(graph, stack, path, known)
         /\ Along(graph, Consumed, path, known)
         /\ path # << >> /\ curr = Last(path) /\ Last(path) = path[Len(path)]
         /\ Succ \in graph[curr] /\ Succ \in Nodes /\ curr \in Nodes
<1>1. IsDigraph(graph) /\ OnPath /\ stack # << >> /\ Top.succs # << >>
  BY DEF PathInv, Shape, Active, AtArc
<1>2. Along(graph, stack, path, known)
  BY <1>1 DEF OnPath
<1>3. /\ Succ \in graph[path[Len(path)]]
      /\ graph[path[Len(path)]] \subseteq Nodes
      /\ Along(graph, Consumed, path, known)
  <2>1. Len(path) = Len(stack)
    BY <1>2 DEF Along
  <2>2. /\ Head(stack[Len(stack)].succs) \in graph[path[Len(stack)]]
        /\ graph[path[Len(stack)]] \subseteq DOMAIN graph
    BY <1>1, <1>2, <2>1, AlongConsumed DEF Top, Depth
  <2>3. Along(graph, Append(SubSeq(stack, 1, Len(stack) - 1),
                [stack[Len(stack)] EXCEPT !.succs = Tail(@)]), path, known)
    BY <1>1, <1>2, AlongConsumed DEF Top, Depth
  <2> QED
    BY <2>1, <2>2, <2>3 DEF Succ, Top, Below, Depth, Nodes, Consumed
<1>4. path # << >> /\ path \in Seq(Nodes)
  BY <1>1, <1>2, AlongLeft DEF Along, Nodes
<1>5. Last(path) = path[Len(path)] /\ path[Len(path)] \in Nodes
  <2>1. Len(path) \in 1 .. Len(path)
    BY <1>4, EmptySeq, LenProperties
  <2> QED
    BY <2>1, <1>4, ElementOfSeq DEF Last
<1> QED
  BY <1>1, <1>2, <1>3, <1>4, <1>5 DEF OnPath

LEMMA AppendedSet ==
  ASSUME NEW S, NEW s \in Seq(S), NEW x \in S
  PROVE  ToSet(Append(s, x)) = ToSet(s) \cup {x} /\ Append(s, x) # << >>
         /\ Last(Append(s, x)) = x
<1>1. Len(s) \in Nat /\ Append(s, x) \in Seq(S)
      /\ Len(Append(s, x)) = Len(s) + 1
      /\ Append(s, x)[Len(s) + 1] = x
      /\ \A i \in 1 .. Len(s) : Append(s, x)[i] = s[i]
  BY AppendProperties, LenProperties
<1>2. \A i \in 1 .. Len(s) + 1 : i = Len(s) + 1 \/ i \in 1 .. Len(s)
  BY <1>1
<1>3. \A i \in 1 .. Len(s) : i \in 1 .. Len(s) + 1
  BY <1>1
<1>4. Len(s) + 1 \in 1 .. Len(s) + 1
  BY <1>1
<1>5. ToSet(Append(s, x)) = ToSet(s) \cup {x}
  <2>1. ToSet(Append(s, x)) = {Append(s, x)[i] : i \in 1 .. Len(s) + 1}
    BY <1>1 DEF ToSet
  <2>2. ToSet(s) = {s[i] : i \in 1 .. Len(s)}
    BY DEF ToSet
  <2> HIDE DEF ToSet
  <2> QED
    BY <2>1, <2>2, <1>1, <1>2, <1>3, <1>4
<1>6. Append(s, x) # << >>
  BY <1>1, EmptySeq
<1> QED
  BY <1>1, <1>5, <1>6 DEF Last

(* Entering a node: broken off in the previsit, the stack is what it was   *)
(* below; otherwise node, entry and bit are added together.                *)
LEMMA EnterPath ==
  ASSUME PathInv, NEW u \in Nodes, u \notin known, NEW p \in Nodes,
         NEW d, NEW below, Enter(u, p, d, below),
         Along(graph, below, path, known),
         path = << >> => p = u,
         path # << >> => p = path[Len(path)] /\ u \in graph[p]
                         /\ curr = Last(path),
         kind = "path" => on_stack = ToSet(path),
         UNCHANGED <<inputs, roots, root, visits>>
  PROVE  PathInv'
<1>1. IsDigraph(graph) /\ graph' = graph /\ kind' = kind /\ roots' = roots
  BY DEF PathInv, Shape, inputs
<1>2. known' = known \cup {u} /\ broke' \in BOOLEAN
      /\ pc' = IF broke' THEN "idle" ELSE "recurse"
  BY DEF Enter, Marked, Goes
<1>3. path \in Seq(Nodes)
  BY DEF Along, Nodes
<1>4. kind # "path" => on_stack' = {}
  BY DEF Enter, PathInv, Shape
<1>5. Shape'
  BY <1>1, <1>2, <1>4 DEF PathInv, Shape, Nodes
<1>6. Quiet'
  BY <1>2 DEF Quiet
<1>7. CASE broke'
  <2>1. stack' = below /\ path' = path /\ curr' = curr /\ on_stack' = on_stack
    BY <1>7 DEF Enter
  <2>2. Along(graph, below, path, known \cup {u})
    BY DEF Along
  <2>3. OnPath'
    BY <2>1, <2>2, <1>1, <1>2 DEF OnPath
  <2> QED
    BY <2>3, <1>5, <1>6 DEF PathInv
<1>8. CASE ~broke'
  <2>1. /\ stack' = Append(below, [succs |-> Successors(graph, u), parent |-> p])
        /\ on_stack' = IF kind = "path" THEN on_stack \cup {u} ELSE on_stack
        /\ curr' = u
        /\ path' = Append(path, u)
    BY <1>8 DEF Enter
  <2>2. Along(graph, stack', path', known')
    BY <2>1, <1>1, <1>2, AlongEntered DEF Nodes
  <2>3. ToSet(path') = ToSet(path) \cup {u} /\ Last(path') = u
    BY <2>1, <1>3, AppendedSet
  <2>4. OnPath'
    BY <2>1, <2>2, <2>3, <1>1 DEF OnPath
  <2> QED
    BY <2>4, <1>5, <1>6 DEF PathInv
<1> QED
  BY <1>7, <1>8

-----------------------------------------------------------------------------
(* One lemma for each kind of step.                                        *)

LEMMA RootStep ==
  ASSUME PathInv, SkipRoot \/ InitRoot \/ EndRoots
  PROVE  PathInv'
<1>1. pc = "roots" /\ stack = << >> /\ path = << >> /\ on_stack = {} /\ ~broke
      /\ UNCHANGED <<graph, kind, stack, path, on_stack>>
  BY DEF PathInv, Shape, Quiet, SkipRoot, InitRoot, EndRoots, inputs
<1>2. CASE SkipRoot
  <2>1. Tail(roots) \in Seq(Nodes)
    BY <1>2, RootsShape DEF SkipRoot, PathInv
  <2>2. Shape'
    BY <1>1, <1>2, <2>1 DEF SkipRoot, PathInv, Shape, Nodes
  <2> QED
    BY <1>1, <1>2, <2>2 DEF SkipRoot, PathInv, Quiet, Active
<1>3. CASE InitRoot
  <2>1. Head(roots) \in Nodes \ known /\ Tail(roots) \in Seq(Nodes)
    BY <1>3, RootsShape DEF InitRoot, PathInv
  <2>2. /\ root' = Head(roots) /\ roots' = Tail(roots) /\ broke' \in BOOLEAN
        /\ pc' = IF broke' THEN "idle" ELSE "previsit"
        /\ known' = known
    BY <1>3 DEF InitRoot, Goes
  <2>3. Shape'
    BY <1>1, <2>1, <2>2 DEF PathInv, Shape, Nodes
  <2> QED
    BY <1>1, <2>2, <2>3 DEF PathInv, Quiet, Active
<1>4. CASE EndRoots
  BY <1>1, <1>4 DEF EndRoots, PathInv, Shape, Quiet, Active, Nodes
<1> QED
  BY <1>2, <1>3, <1>4

LEMMA PrevisitRootStep ==
  ASSUME PathInv, PrevisitRoot
  PROVE  PathInv'
<1>1. pc = "previsit" /\ stack = << >> /\ path = << >> /\ on_stack = {}
      /\ root \in Nodes /\ root \notin known
  BY DEF PrevisitRoot, PathInv, Shape, Quiet
<1>2. Along(graph, stack, path, known)
  BY <1>1, AlongNothing
<1>3. ToSet(path) = {}
  BY <1>1 DEF ToSet
<1> QED
  BY <1>1, <1>2, <1>3, EnterPath DEF PrevisitRoot

LEMMA PrevisitStep ==
  ASSUME PathInv, Previsit
  PROVE  PathInv'
<1>1. AtArc /\ Succ \notin known /\ Enter(Succ, curr, Depth, Consumed)
      /\ UNCHANGED <<inputs, roots, root, visits>>
  BY DEF Previsit
<1>2. /\ Along(graph, Consumed, path, known)
      /\ path # << >> /\ curr = Last(path) /\ Last(path) = path[Len(path)]
      /\ Succ \in graph[curr] /\ Succ \in Nodes /\ curr \in Nodes
  BY <1>1, NextArc
<1>3. kind = "path" => on_stack = ToSet(path)
  BY <1>1 DEF AtArc, PathInv, Active, OnPath
<1> QED
  BY <1>1, <1>2, <1>3, EnterPath

LEMMA ArcStep ==
  ASSUME PathInv, Revisit \/ Ignore
  PROVE  PathInv'
<1>1. AtArc /\ stack' = Consumed /\ pc = "recurse"
      /\ UNCHANGED <<inputs, roots, root, curr, known, on_stack, path>>
  BY DEF Revisit, Ignore, AtArc
<1>2. broke' \in BOOLEAN /\ pc' = IF broke' THEN "idle" ELSE "recurse"
  BY <1>1 DEF Revisit, Ignore, Goes, PathInv, Shape
<1>3. Along(graph, Consumed, path, known) /\ OnPath
  BY <1>1, NextArc DEF PathInv, Active
<1>4. Shape' /\ Quiet'
  BY <1>1, <1>2 DEF PathInv, Shape, Quiet, Nodes, inputs
<1>5. OnPath'
  BY <1>1, <1>3 DEF OnPath, inputs
<1> QED
  BY <1>4, <1>5 DEF PathInv

LEMMA PostvisitStep ==
  ASSUME PathInv, Postvisit
  PROVE  PathInv'
<1>1. pc = "recurse" /\ stack # << >> /\ OnPath /\ IsDigraph(graph)
      /\ UNCHANGED <<inputs, roots, root, known>>
  BY DEF Postvisit, PathInv, Shape, Active
<1>2. broke' \in BOOLEAN /\ pc' = IF broke' THEN "idle" ELSE "recurse"
  BY DEF Postvisit, Goes
<1>3. on_stack' \in {on_stack, on_stack \ {curr}}
  BY DEF Postvisit
<1>4. Shape' /\ Quiet'
  BY <1>1, <1>2, <1>3 DEF PathInv, Shape, Quiet, Nodes, inputs
<1>5. CASE broke'
  <2>1. UNCHANGED <<on_stack, curr, stack, path>>
    BY <1>5 DEF Postvisit
  <2>2. OnPath'
    BY <1>1, <2>1 DEF OnPath, inputs
  <2> QED
    BY <1>4, <2>2 DEF PathInv
<1>6. CASE ~broke'
  <2>1. /\ path # << >>
        /\ Along(graph, SubSeq(stack, 1, Len(stack) - 1), Front(path), known)
        /\ Front(path) # << >> => stack[Len(stack)].parent = Last(Front(path))
        /\ ToSet(Front(path)) = ToSet(path) \ {Last(path)}
    BY <1>1, AlongLeft DEF OnPath
  <2>2. /\ on_stack' = on_stack \ {curr}
        /\ curr' = stack[Len(stack)].parent
        /\ stack' = SubSeq(stack, 1, Len(stack) - 1)
        /\ path' = Front(path)
    BY <1>6, <2>1 DEF Postvisit, Retreats, Top, Below, Depth
  <2>3. kind = "path" => on_stack' = ToSet(path')
    BY <1>1, <2>1, <2>2 DEF OnPath
  <2>4. OnPath'
    BY <1>1, <2>1, <2>2, <2>3 DEF OnPath, inputs
  <2> QED
    BY <1>4, <2>4 DEF PathInv
<1> QED
  BY <1>5, <1>6

LEMMA DoneRootStep ==
  ASSUME PathInv, DoneRoot
  PROVE  PathInv'
<1>1. pc = "recurse" /\ stack = << >> /\ OnPath
      /\ UNCHANGED <<inputs, roots, root, curr, stack, known, on_stack, path>>
  BY DEF DoneRoot, PathInv, Active
<1>2. broke' \in BOOLEAN /\ pc' = IF broke' THEN "idle" ELSE "roots"
  BY DEF DoneRoot, Goes
<1>3. path = << >>
  <2>1. path \in Seq(Nodes) /\ Len(path) = 0
    BY <1>1 DEF OnPath, Along, Nodes
  <2> QED
    BY <2>1, EmptySeq
<1>4. on_stack = {}
  <2>1. ToSet(path) = {}
    BY <1>3 DEF ToSet
  <2> QED
    BY <2>1, <1>1 DEF OnPath, PathInv, Shape
<1> QED
  BY <1>1, <1>2, <1>3, <1>4 DEF PathInv, Shape, Quiet, Active, Nodes, inputs

(* A visit starts on an object that is as new, or was reset.               *)
LEMMA StartPath ==
  ASSUME PathInv, ~broke, NEW rs \in Seq(Nodes), StartVisit(rs)
  PROVE  PathInv'
<1>1. pc = "idle" /\ stack = << >> /\ on_stack = {}
  BY DEF StartVisit, PathInv, Quiet
<1> QED
  BY <1>1 DEF StartVisit, PathInv, Shape, Quiet, Active, Nodes, inputs

(* Between two visits, and the iterator, which empties the stack.          *)
LEMMA BetweenStep ==
  ASSUME ReuseBroken = FALSE, graph \in Graphs, PathInv,
         \/ Visit \/ Restore \/ Inspect
         \/ StartOrder \/ OrderDeeper \/ OrderRestart \/ OrderNone
  PROVE  PathInv'
<1>1. CASE Visit
  <2>1. PICK rs \in RootLists : ToSet(rs) \subseteq Nodes /\ StartVisit(rs)
    BY <1>1 DEF Visit
  <2>2. rs \in Seq(Nodes)
    <3>1. rs \in Seq(Nat)
      BY <2>1, DfsVisitsAssumption
    <3>2. Len(rs) \in Nat /\ rs \in [1 .. Len(rs) -> Nat] /\ DOMAIN rs = 1 .. Len(rs)
      BY <3>1, LenProperties
    <3>3. rs \in [1 .. Len(rs) -> Nodes]
      BY <2>1, <3>2 DEF ToSet
    <3> QED
      BY <3>2, <3>3
  <2>3. ~broke
    BY <1>1 DEF Visit
  <2> QED
    BY <2>1, <2>2, <2>3, StartPath
<1>2. CASE Restore
  BY <1>2 DEF Restore, Reset, PathInv, Shape, Quiet, Active, Nodes, inputs
<1>3. CASE Inspect
  <2>1. pc = "idle" /\ Depth > 1 /\ path' = << >>
        /\ UNCHANGED <<inputs, pc, roots, root, on_stack, broke>>
    BY <1>3 DEF Inspect, TakeStack
  <2>2. broke
    <3>1. Len(<< >>) = 0 /\ ~(0 > 1)
      OBVIOUS
    <3> QED
      BY <2>1, <3>1 DEF Depth, PathInv, Quiet, Shape
  <2> QED
    BY <2>1, <2>2 DEF PathInv, Shape, Quiet, Active, Nodes, inputs
<1>4. CASE StartOrder
  <2>1. pc = "idle" /\ kind = "nopred" /\ pc' = "order" /\ broke' = FALSE
        /\ UNCHANGED <<inputs, roots, root, on_stack>>
    BY <1>4 DEF StartOrder
  <2> QED
    BY <2>1 DEF PathInv, Shape, Quiet, Active, Nodes, inputs
<1>5. CASE OrderDeeper \/ OrderRestart
  <2>1. pc = "order" /\ pc' = pc
        /\ UNCHANGED <<inputs, roots, root, on_stack, broke>>
    BY <1>5 DEF OrderDeeper, OrderRestart, ordering
  <2> QED
    BY <2>1 DEF PathInv, Shape, Quiet, Active, Nodes, inputs
<1>6. CASE OrderNone
  <2>1. pc = "order" /\ pc' = "idle" /\ stack' = << >>
        /\ UNCHANGED <<inputs, roots, root, on_stack, broke>>
    BY <1>6 DEF OrderNone, ordering
  <2> QED
    BY <2>1 DEF PathInv, Shape, Quiet, Active, Nodes, inputs
<1> QED
  BY <1>1, <1>2, <1>3, <1>4, <1>5, <1>6

(* Every step of a visit, whatever the callback answers.                   *)
LEMMA DfsStepPath ==
  ASSUME PathInv, DfsStep
  PROVE  PathInv'
BY RootStep, PrevisitRootStep, PrevisitStep, ArcStep, PostvisitStep,
   DoneRootStep DEF DfsStep

GivenInv == graph \in Graphs /\ PathInv

LEMMA NextPathInv ==
  ASSUME ReuseBroken = FALSE
  PROVE  GivenInv /\ [Next]_vars => GivenInv'
<1> SUFFICES ASSUME graph \in Graphs, PathInv, [Next]_vars PROVE GivenInv'
  BY DEF GivenInv
<1>1. graph' = graph
  BY DEF Next, Visit, StartVisit, Restore, Reset, Inspect, TakeStack, Step,
         DfsStep, SkipRoot, InitRoot, PrevisitRoot, EndRoots, Revisit, Ignore,
         Previsit, Postvisit, DoneRoot, StartOrder, OrderDeeper, OrderRestart,
         OrderNone, ordering, vars, dfsVars, inputs
<1>2. CASE Step
  BY <1>1, <1>2, DfsStepPath DEF Step, GivenInv
<1>3. CASE ~Step /\ Next
  BY <1>1, <1>3, BetweenStep DEF Next, GivenInv
<1>4. CASE UNCHANGED vars
  BY <1>4 DEF vars, dfsVars, inputs, PathInv, Shape, Quiet, Active, OnPath,
              Nodes, GivenInv
<1> QED
  BY <1>2, <1>3, <1>4

-----------------------------------------------------------------------------
LEMMA PathFromInv == PathInv => StackIsPath
<1> SUFFICES ASSUME PathInv, pc = "recurse" PROVE StackIsPath
  BY DEF StackIsPath
<1>1. OnPath /\ IsDigraph(graph)
  BY DEF PathInv, Active, Shape
<1>2. Along(graph, stack, path, known)
  BY <1>1 DEF OnPath
<1>3. /\ Len(path) = Len(stack)
      /\ \A i \in 2 .. Len(path) : path[i] \in graph[path[i - 1]]
      /\ stack \in Seq(Entry(graph))
      /\ \A i \in 1 .. Len(path) :
           stack[i].parent = IF i = 1 THEN path[1] ELSE path[i - 1]
  BY <1>2 DEF Along
<1>4. DOMAIN stack = 1 .. Len(path)
  BY <1>3, LenProperties
<1> QED
  BY <1>1, <1>3, <1>4 DEF OnPath, StackIsPath

(* The parents from the last entry up are the path but for its end, read   *)
(* backwards.                                                              *)
LEMMA BackwardsFromInv == PathInv => StackAfterBreak
<1> SUFFICES ASSUME PathInv, broke, path # << >>
             PROVE  StackNodes = Reverse(Front(path))
  BY DEF StackAfterBreak
<1> DEFINE n == Len(stack)
           q == Front(path)
<1>1. Along(graph, stack, path, known)
  BY DEF PathInv, Active, Shape, OnPath
<1>2. /\ path \in Seq(Nodes) /\ Len(path) = n /\ n \in Nat \ {0}
      /\ \A i \in 1 .. n :
           stack[i].parent = IF i = 1 THEN path[1] ELSE path[i - 1]
  <2>1. path \in Seq(Nodes) /\ Len(path) = n
        /\ \A i \in 1 .. Len(path) :
             stack[i].parent = IF i = 1 THEN path[1] ELSE path[i - 1]
    BY <1>1 DEF Along, Nodes
  <2>2. Len(path) \in Nat \ {0}
    BY <2>1, EmptySeq, LenProperties
  <2> QED
    BY <2>1, <2>2
<1>3. Len(q) = n - 1 /\ \A i \in 1 .. n - 1 : q[i] = path[i]
  BY <1>2, SubSeqProperties DEF Front
<1> HIDE DEF n, q
<1>4. StackNodes = [i \in 1 .. n - 1 |-> stack[n + 1 - i].parent]
  BY DEF StackNodes, Depth, n
<1>5. Reverse(q) = [i \in 1 .. n - 1 |-> q[n - 1 - i + 1]]
  BY <1>3 DEF Reverse
<1>6. \A i \in 1 .. n - 1 : stack[n + 1 - i].parent = q[n - 1 - i + 1]
  <2> TAKE i \in 1 .. n - 1
  <2>1. /\ n + 1 - i \in 1 .. n /\ n + 1 - i # 1 /\ n + 1 - i - 1 = n - i
        /\ n - 1 - i + 1 = n - i /\ n - i \in 1 .. n - 1
    BY <1>2
  <2>2. stack[n + 1 - i].parent = path[n - i]
    BY <2>1, <1>2
  <2> QED
    BY <2>1, <2>2, <1>3
<1> QED
  BY <1>4, <1>5, <1>6 DEF q

(* The depth told to the callback: every step that changes the path leaves *)
(* an event of its own.                                                    *)
LEMMA InitDepth == Init => DepthIsPathLength
<1>1. NoEvent.type = "none"
  BY DEF NoEvent
<1> QED
  BY <1>1 DEF Init, DfsInit, DepthIsPathLength

LEMMA OtherEvents ==
  ASSUME event'.type \notin {"Previsit", "Postvisit"}
  PROVE  DepthIsPathLength'
BY DEF DepthIsPathLength

LEMMA EnterDepth ==
  ASSUME NEW u, NEW p, NEW d, NEW below, Enter(u, p, d, below),
         path \in Seq(Nodes), u \in Nodes, d = Len(path)
  PROVE  DepthIsPathLength'
<1>1. event'.type = "Previsit" /\ event'.depth = d
  BY DEF Enter, Event
<1>2. ~broke' => path' = Append(path, u)
  BY DEF Enter
<1>3. ~broke' => Len(path') = Len(path) + 1 /\ Len(path) \in Nat
  BY <1>2, AppendProperties, LenProperties
<1>4. ~broke' => event'.depth = Len(path') - 1
  BY <1>1, <1>3
<1> QED
  BY <1>1, <1>4 DEF DepthIsPathLength

LEMMA NextDepth ==
  ASSUME PathInv, DepthIsPathLength, [Next]_vars
  PROVE  DepthIsPathLength'
<1>1. NoEvent.type = "none"
  BY DEF NoEvent
<1>2. CASE SkipRoot \/ Ignore \/ Visit \/ Restore \/ Inspect \/ StartOrder
  <2>1. event' = NoEvent
    BY <1>2 DEF SkipRoot, Ignore, Visit, StartVisit, Restore, Reset, Inspect,
                TakeStack, StartOrder
  <2> QED
    BY <1>1, <2>1, OtherEvents
<1>3. CASE InitRoot \/ EndRoots \/ DoneRoot
  <2>1. event'.type \in {"Init", "end", "Done"}
    BY <1>3 DEF InitRoot, EndRoots, DoneRoot
  <2> QED
    BY <2>1, OtherEvents
<1>4. CASE Revisit
  <2>1. event'.type = "Revisit"
    BY <1>4 DEF Revisit
  <2> QED
    BY <2>1, OtherEvents
<1>5. CASE PrevisitRoot
  <2>1. path = << >> /\ root \in Nodes
    BY <1>5 DEF PrevisitRoot, PathInv, Shape, Quiet
  <2>2. path \in Seq(Nodes) /\ 0 = Len(path)
    BY <2>1
  <2> QED
    BY <1>5, <2>1, <2>2, EnterDepth DEF PrevisitRoot
<1>6. CASE Previsit
  <2>1. Along(graph, stack, path, known) /\ Succ \in Nodes
    BY <1>6, NextArc DEF Previsit
  <2>2. path \in Seq(Nodes) /\ Depth = Len(path)
    BY <2>1 DEF Along, Depth, Nodes
  <2> QED
    BY <1>6, <2>1, <2>2, EnterDepth DEF Previsit
<1>7. CASE Postvisit
  <2>1. CASE kind = "nopred"
    <3>1. event' = NoEvent
      BY <1>7, <2>1 DEF Postvisit
    <3> QED
      BY <1>1, <3>1, OtherEvents
  <2>2. CASE kind # "nopred"
    <3>1. event'.type = "Postvisit" /\ event'.depth = Depth - 1
      BY <1>7, <2>2 DEF Postvisit, Event
    <3>2. Along(graph, stack, path, known) /\ stack # << >> /\ IsDigraph(graph)
      BY <1>7 DEF Postvisit, PathInv, Shape, Active, OnPath
    <3>3. path # << >>
      BY <3>2, AlongLeft
    <3>4. ~broke' => path' = Front(path)
      BY <1>7, <3>3 DEF Postvisit
    <3>5. Len(Front(path)) = Depth - 1
      <4>1. path \in Seq(Nodes) /\ Len(path) = Depth
        BY <3>2 DEF Along, Depth, Nodes
      <4>2. Len(path) \in Nat \ {0}
        BY <4>1, <3>3, EmptySeq, LenProperties
      <4>3. Len(Front(path)) = Len(path) - 1
        <5> HIDE DEF Nodes
        <5> QED
          BY <4>1, <4>2, SubSeqProperties DEF Front
      <4> QED
        BY <4>1, <4>3
    <3> QED
      BY <3>1, <3>4, <3>5 DEF DepthIsPathLength
  <2> QED
    BY <2>1, <2>2
<1>8. CASE OrderDeeper \/ OrderRestart \/ OrderNone
  BY <1>8 DEF OrderDeeper, OrderRestart, OrderNone, ordering, DepthIsPathLength
<1>9. CASE UNCHANGED vars
  BY <1>9 DEF vars, dfsVars, DepthIsPathLength
<1> QED
  BY <1>2, <1>3, <1>4, <1>5, <1>6, <1>7, <1>8, <1>9 DEF Next, Step, DfsStep

(* Current node, parents on the stack, bits and the depth told to the      *)
(* callback describe one path of the graph throughout a visit, and after   *)
(* an interruption the stack gives it backwards without its last node      *)
(* (seq.rs:206, :358-421), provided an interrupted visit is reset before   *)
(* it is used again.                                                       *)
THEOREM VisitFollowsPath ==
  ASSUME ReuseBroken = FALSE
  PROVE  Spec => []PathIsStacked
<1> DEFINE Inv == GivenInv /\ DepthIsPathLength
<1>1. Init => Inv
  BY InitPathInv, InitDepth, SeqDfsAssumption DEF Init, DfsInit, GivenInv
<1>2. Inv /\ [Next]_vars => Inv'
  BY NextPathInv, NextDepth DEF GivenInv
<1>3. Inv => PathIsStacked
  BY PathFromInv, BackwardsFromInv DEF PathIsStacked, GivenInv
<1> HIDE DEF Inv
<1> QED
  BY <1>1, <1>2, <1>3, PTL DEF Spec

-----------------------------------------------------------------------------
(* The white-path theorem.  Of every node on the path the visit has told   *)
(* just what could be reached from it by nodes not known when it was       *)
(* entered, as far as the arcs not taken yet allow; a known node that is   *)
(* not on the path has no arc left.  A filter may leave nodes out, and     *)
(* SeqNoPred tells of no postvisit.                                        *)
Within(g, S) == [u \in DOMAIN g |-> IF u \in S THEN g[u] \cap S ELSE {}]
Exhausted(g, pa, kn) == \A u \in kn : u \in ToSet(pa) \/ g[u] \subseteq kn
ArcsLeft(g, st, pa, kn) ==
  \A i \in 1 .. Len(pa) : g[pa[i]] \subseteq kn \cup ToSet(st[i].succs)
WhiteMet(g, pa, kn, wh) ==
  \A i \in 1 .. Len(pa) :
    /\ DOMAIN g \ kn \subseteq wh[pa[i]]
    /\ \A j \in 1 .. Len(pa) : pa[j] \in wh[pa[i]] <=> i <= j
    /\ kn \cap wh[pa[i]] \subseteq Reached(Within(g, wh[pa[i]]), {pa[i]})

Full == accept = NoFilter
MetSoFar ==
  /\ Exhausted(graph, path, known)
  /\ pc = "recurse" => /\ ArcsLeft(graph, stack, path, known)
                       /\ WhiteMet(graph, path, known, white)
  /\ pc # "recurse" => path = << >>
WhiteInv ==
  /\ white \in [Nodes -> SUBSET Nodes]
  /\ Full /\ ~broke => MetSoFar

LEMMA WithinGraph ==
  ASSUME NEW g, IsDigraph(g), NEW S
  PROVE  Within(g, S) \in [DOMAIN g -> SUBSET DOMAIN g] /\ IsFiniteSet(DOMAIN g)
BY DEF IsDigraph, Within

(* A path has no more nodes than the graph, so that a full filter refuses  *)
(* no arc.                                                                 *)
LEMMA PathFits ==
  ASSUME NEW g, IsDigraph(g), NEW st, NEW pa, NEW kn, Along(g, st, pa, kn)
  PROVE  Len(pa) \in 0 .. Cardinality(DOMAIN g)
<1>1. IsFiniteSet(DOMAIN g)
  BY DEF IsDigraph
<1>2. pa \in Seq(DOMAIN g) /\ \A i, j \in 1 .. Len(pa) : pa[i] = pa[j] => i = j
  BY DEF Along
<1>3. Len(pa) \in Nat /\ pa \in [1 .. Len(pa) -> DOMAIN g]
  BY <1>2, LenProperties
<1>4. pa \in Injection(1 .. Len(pa), DOMAIN g)
  BY <1>2, <1>3 DEF Injection, IsInjective
<1>5. Cardinality(1 .. Len(pa)) <= Cardinality(DOMAIN g)
  BY <1>1, <1>4, FS_Injection
<1>6. Cardinality(1 .. Len(pa)) = Len(pa)
  BY <1>3, CountFromOne
<1>7. Cardinality(DOMAIN g) \in Nat
  BY <1>1, FS_CardinalityType
<1> QED
  BY <1>3, <1>5, <1>6, <1>7

(* Taking an arc to a node that is known from then on.                     *)
LEMMA ArcsConsumed ==
  ASSUME NEW g, IsDigraph(g), NEW st, NEW pa, NEW kn, Along(g, st, pa, kn),
         st # << >>, st[Len(st)].succs # << >>, ArcsLeft(g, st, pa, kn)
  PROVE  ArcsLeft(g, Append(SubSeq(st, 1, Len(st) - 1),
                            [st[Len(st)] EXCEPT !.succs = Tail(@)]), pa,
                  kn \cup {Head(st[Len(st)].succs)})
<1> DEFINE n == Len(st)
           e == st[n]
           f == [e EXCEPT !.succs = Tail(@)]
           r == SubSeq(st, 1, n - 1)
           s == Append(r, f)
<1>1. st \in Seq(Entry(g)) /\ Len(pa) = n /\ n \in Nat \ {0}
  <2>1. st \in Seq(Entry(g)) /\ Len(pa) = n
    BY DEF Along
  <2> QED
    BY <2>1, EmptySeq, LenProperties
<1>2. e \in Entry(g)
  BY <1>1, ElementOfSeq
<1>3. f.succs = Tail(e.succs) /\ f \in [succs : {Tail(e.succs)}, parent : DOMAIN g]
  BY SMTT(30), <1>2 DEF Entry
<1>4. ToSet(e.succs) = {Head(e.succs)} \cup ToSet(f.succs)
  <2>1. e.succs \in Seq(DOMAIN g) /\ e.succs # << >>
    BY <1>2 DEF Entry
  <2>2. ToSet(e.succs) = {Head(e.succs)} \cup ToSet(Tail(e.succs))
    BY <2>1, ToSetTail
  <2> QED
    BY <2>2, <1>3
<1>5. r \in Seq(Entry(g)) /\ Len(r) = n - 1
      /\ \A i \in 1 .. n - 1 : r[i] = st[i]
  BY <1>1, SubSeqProperties
<1>6. s[n] = f /\ \A i \in 1 .. n - 1 : s[i] = st[i]
  <2> HIDE DEF f, r
  <2>1. r \in Seq(Entry(g) \cup {f}) /\ f \in Entry(g) \cup {f}
    BY <1>5, WiderLists
  <2>2. /\ \A i \in 1 .. Len(r) : Append(r, f)[i] = r[i]
        /\ Append(r, f)[Len(r) + 1] = f
    BY <2>1, AppendProperties
  <2> QED
    BY <2>2, <1>1, <1>5
<1> HIDE DEF s, f, r, e, n
<1>7. \A i \in 1 .. n :
        g[pa[i]] \subseteq kn \cup {Head(e.succs)} \cup ToSet(s[i].succs)
  <2> TAKE i \in 1 .. n
  <2>1. g[pa[i]] \subseteq kn \cup ToSet(st[i].succs)
    BY <1>1 DEF ArcsLeft
  <2>2. i = n \/ i \in 1 .. n - 1
    BY <1>1
  <2> QED
    BY <2>1, <2>2, <1>4, <1>6 DEF e
<1> QED
  BY <1>1, <1>7 DEF ArcsLeft, s, r, f, e, n

(* Entering a node: all its arcs are left.                                 *)
LEMMA ArcsEntered ==
  ASSUME NEW g, IsDigraph(g), NEW st, NEW pa, NEW kn, Along(g, st, pa, kn),
         NEW u \in DOMAIN g, NEW p, ArcsLeft(g, st, pa, kn \cup {u})
  PROVE  ArcsLeft(g, Append(st, [succs |-> Successors(g, u), parent |-> p]),
                  Append(pa, u), kn \cup {u})
<1> DEFINE n == Len(st)
           e == [succs |-> Successors(g, u), parent |-> p]
           s == Append(st, e)
           q == Append(pa, u)
<1>1. st \in Seq(Entry(g)) /\ pa \in Seq(DOMAIN g) /\ Len(pa) = n /\ n \in Nat
  <2>1. st \in Seq(Entry(g)) /\ pa \in Seq(DOMAIN g) /\ Len(pa) = n
    BY DEF Along
  <2> QED
    BY <2>1, LenProperties
<1>2. ToSet(e.succs) = g[u]
  BY GraphLists
<1>3. s[n + 1] = e /\ \A i \in 1 .. n : s[i] = st[i]
  <2> HIDE DEF e
  <2>1. st \in Seq(Entry(g) \cup {e}) /\ e \in Entry(g) \cup {e}
    BY <1>1, WiderLists
  <2> QED
    BY <2>1, AppendProperties
<1>4. /\ Len(q) = n + 1 /\ q[n + 1] = u
      /\ \A i \in 1 .. n : q[i] = pa[i]
  BY <1>1, AppendProperties
<1> HIDE DEF n, e, s, q
<1>5. \A i \in 1 .. n + 1 :
        g[q[i]] \subseteq kn \cup {u} \cup ToSet(s[i].succs)
  <2> TAKE i \in 1 .. n + 1
  <2>1. i = n + 1 \/ i \in 1 .. n
    BY <1>1
  <2>2. CASE i = n + 1
    BY <2>2, <1>2, <1>3, <1>4
  <2>3. CASE i \in 1 .. n
    <3>1. g[pa[i]] \subseteq kn \cup {u} \cup ToSet(st[i].succs)
      BY <2>3, <1>1 DEF ArcsLeft
    <3> QED
      BY <2>3, <3>1, <1>3, <1>4
  <2> QED
    BY <2>1, <2>2, <2>3
<1> QED
  BY <1>4, <1>5 DEF ArcsLeft, s, q, e

(* A node entered is reached, by unknown nodes, from every node of the     *)
(* path that it was white for.                                             *)
LEMMA MetEntered ==
  ASSUME NEW g, IsDigraph(g), NEW st, NEW pa, NEW kn, Along(g, st, pa, kn),
         NEW wh \in [DOMAIN g -> SUBSET DOMAIN g], WhiteMet(g, pa, kn, wh),
         NEW u \in DOMAIN g, u \notin kn, pa # << >> => u \in g[pa[Len(pa)]]
  PROVE  WhiteMet(g, Append(pa, u), kn \cup {u},
                  [wh EXCEPT ![u] = DOMAIN g \ kn])
<1> DEFINE n == Len(pa)
           q == Append(pa, u)
           k == kn \cup {u}
           w == [wh EXCEPT ![u] = DOMAIN g \ kn]
<1>1. pa \in Seq(DOMAIN g) /\ n \in Nat /\ \A i \in 1 .. n : pa[i] \in kn
  <2>1. pa \in Seq(DOMAIN g) /\ \A i \in 1 .. n : pa[i] \in kn
    BY DEF Along
  <2> QED
    BY <2>1, LenProperties
<1>2. \A i \in 1 .. n : pa[i] \in DOMAIN g
  BY <1>1, ElementOfSeq
<1>3. /\ Len(q) = n + 1 /\ q[n + 1] = u
      /\ \A i \in 1 .. n : q[i] = pa[i]
  BY <1>1, AppendProperties
<1>4. w[u] = DOMAIN g \ kn /\ \A i \in 1 .. n : w[pa[i]] = wh[pa[i]]
  BY <1>1, <1>2
<1>5. \A i \in 1 .. n :
        /\ DOMAIN g \ kn \subseteq wh[pa[i]]
        /\ \A j \in 1 .. n : pa[j] \in wh[pa[i]] <=> i <= j
        /\ kn \cap wh[pa[i]] \subseteq Reached(Within(g, wh[pa[i]]), {pa[i]})
  BY DEF WhiteMet
<1> HIDE DEF n, q, w
<1>6. ASSUME NEW i \in 1 .. n
      PROVE  /\ DOMAIN g \ k \subseteq w[q[i]]
             /\ \A j \in 1 .. n + 1 : q[j] \in w[q[i]] <=> i <= j
             /\ k \cap w[q[i]] \subseteq Reached(Within(g, w[q[i]]), {q[i]})
  <2> DEFINE S == wh[pa[i]]
             R == Reached(Within(g, S), {pa[i]})
  <2>1. q[i] = pa[i] /\ w[q[i]] = S /\ u \in S
    BY <1>3, <1>4, <1>5
  <2>2. \A j \in 1 .. n + 1 : q[j] \in S <=> i <= j
    <3> TAKE j \in 1 .. n + 1
    <3>1. CASE j = n + 1
      BY <3>1, <2>1, <1>1, <1>3
    <3>2. CASE j # n + 1
      <4>1. j \in 1 .. n
        BY <3>2, <1>1
      <4> QED
        BY <4>1, <1>3, <1>5
    <3> QED
      BY <3>1, <3>2
  <2>3. u \in R
    <3>1. n \in 1 .. n /\ i <= n /\ pa # << >>
      <4>1. n \in 1 .. n /\ i <= n /\ n # 0
        BY <1>1
      <4>2. Len(<< >>) = 0
        OBVIOUS
      <4> QED
        BY <4>1, <4>2 DEF n
    <3>2. u \in g[pa[n]]
      BY <3>1 DEF n
    <3>3. pa[n] \in S /\ pa[n] \in kn /\ pa[n] \in DOMAIN g
      BY <3>1, <1>1, <1>2, <1>5
    <3>4. pa[n] \in R
      BY <3>3, <1>5
    <3>5. u \in Within(g, S)[pa[n]]
      BY <3>2, <3>3, <2>1 DEF Within
    <3>6. {pa[i]} \subseteq DOMAIN g
      BY <1>2
    <3>7. Within(g, S) \in [DOMAIN g -> SUBSET DOMAIN g] /\ IsFiniteSet(DOMAIN g)
      BY WithinGraph
    <3> HIDE DEF R, S
    <3>8. \A v \in Reached(Within(g, S), {pa[i]}) :
            Within(g, S)[v] \subseteq Reached(Within(g, S), {pa[i]})
      BY <3>6, <3>7, ReachedClosed
    <3> QED
      BY <3>4, <3>5, <3>8 DEF R
  <2>4. kn \cap S \subseteq R
    BY <1>5
  <2> HIDE DEF R, S
  <2> QED
    BY <2>1, <2>2, <2>3, <2>4, <1>5 DEF R, S
<1>7. /\ DOMAIN g \ k \subseteq w[u]
      /\ \A j \in 1 .. n + 1 : q[j] \in w[u] <=> n + 1 <= j
      /\ k \cap w[u] \subseteq Reached(Within(g, w[u]), {u})
  <2>1. \A j \in 1 .. n + 1 : q[j] \in w[u] <=> n + 1 <= j
    <3> TAKE j \in 1 .. n + 1
    <3>1. CASE j = n + 1
      BY <3>1, <1>1, <1>3, <1>4
    <3>2. CASE j # n + 1
      <4>1. j \in 1 .. n /\ ~(n + 1 <= j)
        BY <3>2, <1>1
      <4> QED
        BY <4>1, <1>1, <1>3, <1>4
    <3> QED
      BY <3>1, <3>2
  <2>2. u \in Reached(Within(g, w[u]), {u})
    <3>1. Within(g, w[u]) \in [DOMAIN g -> SUBSET DOMAIN g] /\ IsFiniteSet(DOMAIN g)
      BY WithinGraph
    <3>2. {u} \subseteq DOMAIN g
      OBVIOUS
    <3>3. {u} \subseteq Reached(Within(g, w[u]), {u})
      BY <3>1, <3>2, ReachedClosed
    <3> QED
      BY <3>3
  <2>3. k \cap w[u] \subseteq {u}
    BY <1>4
  <2> QED
    BY <2>1, <2>2, <2>3, <1>4
<1>8. \A i \in 1 .. n + 1 :
        /\ DOMAIN g \ k \subseteq w[q[i]]
        /\ \A j \in 1 .. n + 1 : q[j] \in w[q[i]] <=> i <= j
        /\ k \cap w[q[i]] \subseteq Reached(Within(g, w[q[i]]), {q[i]})
  <2> SUFFICES ASSUME NEW i \in 1 .. n + 1
               PROVE  /\ DOMAIN g \ k \subseteq w[q[i]]
                      /\ \A j \in 1 .. n + 1 : q[j] \in w[q[i]] <=> i <= j
                      /\ k \cap w[q[i]] \subseteq Reached(Within(g, w[q[i]]), {q[i]})
    OBVIOUS
  <2>1. CASE i = n + 1
    <3>1. q[i] = u
      BY <2>1, <1>3
    <3> QED
      BY <2>1, <3>1, <1>7
  <2>2. CASE i # n + 1
    <3>1. i \in 1 .. n
      BY <2>2, <1>1
    <3> QED
      BY <3>1, <1>6
  <2> QED
    BY <2>1, <2>2
<1> QED
  BY <1>3, <1>8 DEF WhiteMet, q, w

(* The last node of the path is left without an arc.                       *)
LEMMA WhiteLeft ==
  ASSUME NEW g, IsDigraph(g), NEW st, NEW pa, NEW kn, Along(g, st, pa, kn),
         st # << >>, st[Len(st)].succs = << >>, NEW wh,
         Exhausted(g, pa, kn), ArcsLeft(g, st, pa, kn), WhiteMet(g, pa, kn, wh)
  PROVE  /\ Exhausted(g, Front(pa), kn)
         /\ ArcsLeft(g, SubSeq(st, 1, Len(st) - 1), Front(pa), kn)
         /\ WhiteMet(g, Front(pa), kn, wh)
<1> DEFINE n == Len(st)
           s == SubSeq(st, 1, n - 1)
           q == Front(pa)
<1>1. st \in Seq(Entry(g)) /\ pa \in Seq(DOMAIN g) /\ Len(pa) = n
      /\ n \in Nat \ {0}
  <2>1. st \in Seq(Entry(g)) /\ pa \in Seq(DOMAIN g) /\ Len(pa) = n
    BY DEF Along
  <2> QED
    BY <2>1, EmptySeq, LenProperties
<1>2. \A i \in 1 .. n - 1 : s[i] = st[i]
  BY <1>1, SubSeqProperties
<1>3. Len(q) = n - 1 /\ \A i \in 1 .. n - 1 : q[i] = pa[i]
  BY <1>1, SubSeqProperties DEF Front
<1>4. ToSet(q) = ToSet(pa) \ {pa[n]}
  BY <1>1, AlongLeft DEF Last
<1>5. g[pa[n]] \subseteq kn
  <2>1. n \in 1 .. n /\ ToSet(<< >>) = {}
    BY <1>1 DEF ToSet
  <2>2. g[pa[n]] \subseteq kn \cup ToSet(st[n].succs)
    BY <2>1, <1>1 DEF ArcsLeft
  <2> QED
    BY <2>1, <2>2
<1> HIDE DEF s, q
<1>6. \A i \in 1 .. n - 1 : i \in 1 .. n
  BY <1>1
<1> HIDE DEF n
<1>7. Exhausted(g, q, kn)
  BY <1>4, <1>5 DEF Exhausted
<1>8. ArcsLeft(g, s, q, kn)
  BY <1>1, <1>2, <1>3, <1>6 DEF ArcsLeft
<1>9. WhiteMet(g, q, kn, wh)
  BY <1>1, <1>3, <1>6 DEF WhiteMet
<1> QED
  BY <1>7, <1>8, <1>9 DEF s, q, n

LEMMA InitWhite ==
  ASSUME NEW graphs, NEW kinds, NEW filters, DfsInit(graphs, kinds, filters)
  PROVE  WhiteInv
<1>1. white = [u \in Nodes |-> {}] /\ known = {} /\ path = << >> /\ pc = "idle"
  BY DEF DfsInit
<1> QED
  BY <1>1 DEF WhiteInv, MetSoFar, Exhausted

(* Outside the loop over the arcs.                                         *)
LEMMA OutsideWhite ==
  ASSUME PathInv, WhiteInv,
         \/ ~broke /\ \E rs : StartVisit(rs)
         \/ Reset \/ TakeStack \/ SkipRoot \/ InitRoot \/ EndRoots \/ DoneRoot
  PROVE  WhiteInv'
<1>1. UNCHANGED <<inputs, white>> /\ Nodes' = Nodes
  BY DEF StartVisit, Reset, TakeStack, SkipRoot, InitRoot, EndRoots, DoneRoot,
         inputs, Nodes
<1>2. white' \in [Nodes' -> SUBSET Nodes'] /\ (Full' <=> Full)
  BY <1>1 DEF WhiteInv, Full, NoFilter, num_nodes, inputs
<1> SUFFICES ASSUME Full, ~broke' PROVE MetSoFar'
  BY <1>2 DEF WhiteInv
<1>3. CASE ~broke /\ \E rs : StartVisit(rs)
  <2>1. path' = << >> /\ pc' = "roots" /\ known' = known /\ ~broke /\ pc = "idle"
    BY <1>3 DEF StartVisit
  <2>2. Exhausted(graph, path, known) /\ path = << >>
    BY <2>1 DEF WhiteInv, MetSoFar
  <2> QED
    BY <1>1, <2>1, <2>2 DEF MetSoFar, inputs
<1>4. CASE Reset
  <2>1. path' = << >> /\ pc' = "idle" /\ known' = {}
    BY <1>4 DEF Reset
  <2> QED
    BY <2>1 DEF MetSoFar, Exhausted
<1>5. CASE TakeStack
  <2>1. path' = << >> /\ pc' = pc /\ known' = known /\ ~broke /\ pc = "idle"
    BY <1>5 DEF TakeStack
  <2>2. Exhausted(graph, path, known) /\ path = << >>
    BY <2>1 DEF WhiteInv, MetSoFar
  <2> QED
    BY <1>1, <2>1, <2>2 DEF MetSoFar, inputs
<1>6. CASE SkipRoot \/ InitRoot \/ EndRoots
  <2>1. path' = path /\ known' = known /\ pc = "roots"
        /\ pc' \in {"roots", "idle", "previsit"}
    BY <1>6 DEF SkipRoot, InitRoot, EndRoots, Goes
  <2>2. ~broke
    BY <2>1 DEF PathInv, Shape
  <2>3. Exhausted(graph, path, known) /\ path = << >>
    BY <2>1, <2>2 DEF WhiteInv, MetSoFar
  <2> QED
    BY <1>1, <2>1, <2>3 DEF MetSoFar, inputs
<1>7. CASE DoneRoot
  <2>1. /\ path' = path /\ known' = known /\ pc = "recurse"
        /\ pc' \in {"idle", "roots"} /\ stack = << >>
    BY <1>7 DEF DoneRoot, Goes
  <2>2. ~broke /\ OnPath
    BY <2>1 DEF PathInv, Shape, Active
  <2>3. Exhausted(graph, path, known)
    BY <2>2 DEF WhiteInv, MetSoFar
  <2>4. path = << >>
    <3>1. path \in Seq(Nodes) /\ Len(path) = Len(stack)
      BY <2>2 DEF OnPath, Along, Nodes
    <3>2. Len(<< >>) = 0
      OBVIOUS
    <3> QED
      BY <3>1, <3>2, <2>1, EmptySeq
  <2> QED
    BY <1>1, <2>1, <2>3, <2>4 DEF MetSoFar, inputs
<1> QED
  BY <1>3, <1>4, <1>5, <1>6, <1>7

(* Under a full filter every arc to a node that is not known is taken.     *)
LEMMA FullAccepts ==
  ASSUME PathInv, AtArc, Full
  PROVE  Accepts(Succ, Depth)
<1>1. /\ Along(graph, stack, path, known) /\ Succ \in Nodes /\ IsDigraph(graph)
  BY NextArc DEF PathInv, Shape
<1>2. Len(path) \in 0 .. Cardinality(Nodes) /\ Len(path) = Len(stack)
  BY <1>1, PathFits DEF Nodes, Along
<1> QED
  BY <1>1, <1>2 DEF Accepts, Depth, Full, NoFilter, num_nodes

(* Facts about a step from the loop over the arcs.                         *)
LEMMA WhiteAtWork ==
  ASSUME PathInv, WhiteInv, pc = "recurse", Full
  PROVE  /\ IsDigraph(graph) /\ ~broke
         /\ Along(graph, stack, path, known)
         /\ path # << >> => curr = Last(path)
         /\ Exhausted(graph, path, known)
         /\ ArcsLeft(graph, stack, path, known)
         /\ WhiteMet(graph, path, known, white)
BY DEF PathInv, Shape, Active, OnPath, WhiteInv, MetSoFar

LEMMA ArcWhite ==
  ASSUME PathInv, WhiteInv, Revisit \/ Ignore
  PROVE  WhiteInv'
<1>1. /\ UNCHANGED <<inputs, known, path, white>> /\ Nodes' = Nodes
      /\ AtArc /\ pc = "recurse" /\ stack' = Consumed
  BY DEF Revisit, Ignore, AtArc, inputs, Nodes
<1>2. white' \in [Nodes' -> SUBSET Nodes'] /\ (Full' <=> Full)
  BY <1>1 DEF WhiteInv, Full, NoFilter, num_nodes, inputs
<1> SUFFICES ASSUME Full, ~broke' PROVE MetSoFar'
  BY <1>2 DEF WhiteInv
<1>3. Revisit
  BY <1>1, FullAccepts DEF Ignore
<1>4. Succ \in known /\ pc' = "recurse"
  BY <1>3 DEF Revisit, Goes
<1>5. /\ IsDigraph(graph) /\ Along(graph, stack, path, known)
      /\ Exhausted(graph, path, known)
      /\ ArcsLeft(graph, stack, path, known)
      /\ WhiteMet(graph, path, known, white)
  BY <1>1, WhiteAtWork
<1>6. ArcsLeft(graph, Consumed, path, known \cup {Succ})
  BY <1>1, <1>5, ArcsConsumed DEF Consumed, Below, Top, Depth, Succ, AtArc
<1>7. known \cup {Succ} = known
  BY <1>4
<1> QED
  BY <1>1, <1>4, <1>5, <1>6, <1>7 DEF MetSoFar, inputs

(* Entering a node with the entries below.                                 *)
LEMMA EnterWhite ==
  ASSUME PathInv, WhiteInv, NEW u \in Nodes, u \notin known, NEW p, NEW d,
         NEW below, Enter(u, p, d, below), UNCHANGED inputs, ~broke,
         Along(graph, below, path, known),
         path # << >> => u \in graph[path[Len(path)]],
         Full => /\ ArcsLeft(graph, below, path, known \cup {u})
                 /\ WhiteMet(graph, path, known, white)
  PROVE  WhiteInv'
<1>1. /\ known' = known \cup {u} /\ white' = [white EXCEPT ![u] = Nodes \ known]
      /\ graph' = graph /\ Nodes' = Nodes /\ IsDigraph(graph)
      /\ white \in [Nodes -> SUBSET Nodes]
  BY DEF Enter, Marked, inputs, Nodes, PathInv, Shape, WhiteInv
<1>2. white' \in [Nodes' -> SUBSET Nodes'] /\ (Full' <=> Full)
  BY <1>1 DEF Full, NoFilter, num_nodes, inputs
<1> SUFFICES ASSUME Full, ~broke' PROVE MetSoFar'
  BY <1>2 DEF WhiteInv
<1>3. /\ stack' = Append(below, [succs |-> Successors(graph, u), parent |-> p])
      /\ path' = Append(path, u) /\ pc' = "recurse"
  BY DEF Enter, Goes
<1>4. ArcsLeft(graph, stack', path', known')
  BY <1>1, <1>3, ArcsEntered DEF Nodes
<1>5. WhiteMet(graph, path', known', white')
  BY <1>1, <1>3, MetEntered DEF Nodes
<1>6. Exhausted(graph, path', known')
  <2>1. Exhausted(graph, path, known)
    BY DEF WhiteInv, MetSoFar
  <2>2. path \in Seq(Nodes)
    BY DEF Along, Nodes
  <2>3. ToSet(path') = ToSet(path) \cup {u}
    BY <1>3, <2>2, AppendedSet
  <2> QED
    BY <2>1, <2>3, <1>1 DEF Exhausted
<1> QED
  BY <1>1, <1>3, <1>4, <1>5, <1>6 DEF MetSoFar

LEMMA PrevisitWhite ==
  ASSUME PathInv, WhiteInv, PrevisitRoot \/ Previsit
  PROVE  WhiteInv'
<1>1. CASE PrevisitRoot
  <2>1. pc = "previsit" /\ stack = << >> /\ path = << >> /\ ~broke
        /\ root \in Nodes /\ root \notin known /\ IsDigraph(graph)
    BY <1>1 DEF PrevisitRoot, PathInv, Shape, Quiet
  <2>2. Along(graph, stack, path, known)
    BY <2>1, AlongNothing
  <2>3. ArcsLeft(graph, stack, path, known \cup {root})
        /\ WhiteMet(graph, path, known, white)
    <3>1. Len(path) = 0 /\ 1 .. 0 = {}
      BY <2>1
    <3> QED
      BY <3>1 DEF ArcsLeft, WhiteMet
  <2> QED
    BY <1>1, <2>1, <2>2, <2>3, EnterWhite DEF PrevisitRoot
<1>2. CASE Previsit
  <2>1. AtArc /\ Succ \notin known /\ Enter(Succ, curr, Depth, Consumed)
        /\ UNCHANGED inputs /\ pc = "recurse" /\ ~broke /\ IsDigraph(graph)
    BY <1>2 DEF Previsit, AtArc, PathInv, Shape
  <2>2. /\ Along(graph, stack, path, known)
        /\ Along(graph, Consumed, path, known)
        /\ curr = path[Len(path)] /\ Succ \in graph[curr] /\ Succ \in Nodes
    BY <2>1, NextArc
  <2>3. ASSUME Full
        PROVE  /\ ArcsLeft(graph, Consumed, path, known \cup {Succ})
               /\ WhiteMet(graph, path, known, white)
    <3>1. /\ ArcsLeft(graph, stack, path, known)
          /\ WhiteMet(graph, path, known, white)
      BY <2>1, <2>3, WhiteAtWork
    <3> QED
      BY <3>1, <2>1, <2>2, ArcsConsumed
      DEF Consumed, Below, Top, Depth, Succ, AtArc
  <2> QED
    BY <2>1, <2>2, <2>3, EnterWhite
<1> QED
  BY <1>1, <1>2

LEMMA PostvisitWhite ==
  ASSUME PathInv, WhiteInv, Postvisit
  PROVE  WhiteInv'
<1>1. /\ UNCHANGED <<inputs, known, white>> /\ Nodes' = Nodes
      /\ pc = "recurse" /\ stack # << >> /\ Top.succs = << >>
  BY DEF Postvisit, inputs, Nodes
<1>2. white' \in [Nodes' -> SUBSET Nodes'] /\ (Full' <=> Full)
  BY <1>1 DEF WhiteInv, Full, NoFilter, num_nodes, inputs
<1> SUFFICES ASSUME Full, ~broke' PROVE MetSoFar'
  BY <1>2 DEF WhiteInv
<1>3. /\ IsDigraph(graph) /\ Along(graph, stack, path, known)
      /\ Exhausted(graph, path, known)
      /\ ArcsLeft(graph, stack, path, known)
      /\ WhiteMet(graph, path, known, white)
  BY <1>1, WhiteAtWork
<1>4. path # << >>
  BY <1>1, <1>3, AlongLeft
<1>5. stack' = SubSeq(stack, 1, Len(stack) - 1) /\ path' = Front(path)
      /\ pc' = "recurse"
  BY <1>4 DEF Postvisit, Below, Depth, Goes
<1>6. /\ Exhausted(graph, Front(path), known)
      /\ ArcsLeft(graph, SubSeq(stack, 1, Len(stack) - 1), Front(path), known)
      /\ WhiteMet(graph, Front(path), known, white)
  BY <1>1, <1>3, WhiteLeft DEF Top, Depth
<1> QED
  BY <1>1, <1>5, <1>6 DEF MetSoFar, inputs

LEMMA DfsStepWhite ==
  ASSUME PathInv, WhiteInv, DfsStep
  PROVE  WhiteInv'
BY OutsideWhite, ArcWhite, PrevisitWhite, PostvisitWhite DEF DfsStep

(* The iterator of SeqNoPred enters nodes without a path.                  *)
VisitsWhite ==
  /\ white \in [Nodes -> SUBSET Nodes]
  /\ kind # "nopred" => WhiteInv

LEMMA NextWhite ==
  ASSUME ReuseBroken = FALSE, GivenInv, VisitsWhite, [Next]_vars
  PROVE  VisitsWhite'
<1>1. PathInv
  BY DEF GivenInv
<1>2. CASE UNCHANGED vars
  <2>1. UNCHANGED <<graph, kind, accept, pc, stack, known, path, white, broke>>
    BY <1>2 DEF vars, dfsVars, inputs
  <2>2. Nodes' = Nodes /\ (Full' <=> Full) /\ (MetSoFar' <=> MetSoFar)
    BY <2>1 DEF Nodes, Full, NoFilter, num_nodes, MetSoFar
  <2> QED
    BY <2>1, <2>2 DEF WhiteInv, VisitsWhite
<1>3. CASE StartOrder \/ OrderDeeper \/ OrderRestart \/ OrderNone
  BY <1>1, <1>3 DEF StartOrder, OrderDeeper, OrderRestart, OrderNone, ordering,
     PathInv, Shape, inputs, Nodes, VisitsWhite
<1>4. CASE Visit \/ Step \/ Restore \/ Inspect
  <2>1. kind' = kind /\ graph' = graph /\ Nodes' = Nodes
    BY <1>4 DEF Visit, StartVisit, Restore, Reset, Inspect, TakeStack, Step,
       DfsStep, SkipRoot, InitRoot, PrevisitRoot, EndRoots, Revisit, Ignore,
       Previsit, Postvisit, DoneRoot, inputs, Nodes
  <2>2. white' \in [Nodes' -> SUBSET Nodes']
    BY <1>4, <2>1 DEF Visit, StartVisit, Restore, Reset, Inspect, TakeStack,
       Step, DfsStep, SkipRoot, InitRoot, PrevisitRoot, EndRoots, Revisit,
       Ignore, Previsit, Enter, Postvisit, DoneRoot, VisitsWhite
  <2>3. CASE Step
    BY <1>1, <2>1, <2>2, <2>3, DfsStepWhite DEF Step, VisitsWhite
  <2>4. CASE Visit
    <3>1. pc = "idle" /\ ~broke /\ \E rs : StartVisit(rs)
      BY <2>4 DEF Visit, StartVisit, PathInv, Shape
    <3> QED
      BY <1>1, <2>1, <2>2, <3>1, OutsideWhite DEF VisitsWhite
  <2>5. CASE Restore \/ Inspect
    BY <1>1, <2>1, <2>2, <2>5, OutsideWhite DEF Restore, Inspect, VisitsWhite
  <2> QED
    BY <1>4, <2>3, <2>4, <2>5
<1> QED
  BY <1>2, <1>3, <1>4 DEF Next

(* Only the last node of the path is left, and what it may have reached    *)
(* is closed under arcs: other nodes of the path were known before it.     *)
LEMMA WhiteAtPostvisit ==
  ASSUME PathInv, WhiteInv, Postvisit, Full
  PROVE  Nodes \ known = white[curr] \ Reached(Within(graph, white[curr]), {curr})
<1> DEFINE n == Len(path)
           S == white[curr]
           C == known \cap S
           W == Within(graph, S)
<1>1. /\ pc = "recurse" /\ stack # << >> /\ stack[Len(stack)].succs = << >>
  BY DEF Postvisit, Top, Depth
<1>2. /\ IsDigraph(graph) /\ Along(graph, stack, path, known)
      /\ Exhausted(graph, path, known)
      /\ ArcsLeft(graph, stack, path, known)
      /\ WhiteMet(graph, path, known, white)
      /\ path # << >> => curr = Last(path)
  BY <1>1, WhiteAtWork
<1>3. /\ path \in Seq(Nodes) /\ n = Len(stack) /\ n \in 1 .. n /\ curr = path[n]
      /\ curr \in Nodes /\ curr \in known
  <2>1. path \in Seq(Nodes) /\ n = Len(stack) /\ path # << >>
    BY <1>1, <1>2, AlongLeft DEF Along, Nodes
  <2>2. n \in 1 .. n
    BY <2>1, EmptySeq, LenProperties
  <2> QED
    BY <2>1, <2>2, <1>2, ElementOfSeq DEF Last, Along
<1>4. /\ Nodes \ known \subseteq S
      /\ \A j \in 1 .. n : path[j] \in S <=> n <= j
      /\ C \subseteq Reached(W, {curr})
  BY <1>2, <1>3 DEF WhiteMet, Nodes
<1>5. S \subseteq Nodes
  BY <1>3 DEF WhiteInv
<1>6. curr \in S
  BY <1>3, <1>4
<1>7. ASSUME NEW v \in C PROVE graph[v] \subseteq known
  <2>1. CASE v \in ToSet(path)
    <3>1. PICK j \in 1 .. n : path[j] = v
      <4>1. DOMAIN path = 1 .. n
        BY <1>3, LenProperties
      <4> QED
        BY <2>1, <4>1 DEF ToSet
    <3>2. j = n
      BY <3>1, <1>3, <1>4
    <3>3. ToSet(<< >>) = {}
      BY DEF ToSet
    <3>4. graph[path[n]] \subseteq known \cup ToSet(stack[n].succs)
      BY <1>2, <1>3 DEF ArcsLeft
    <3> QED
      BY <3>1, <3>2, <3>3, <3>4, <1>1, <1>3
  <2>2. CASE v \notin ToSet(path)
    BY <2>2, <1>2 DEF Exhausted
  <2> QED
    BY <2>1, <2>2
<1>8. W \in [Nodes -> SUBSET Nodes] /\ IsFiniteSet(Nodes)
  BY <1>2, WithinGraph DEF Nodes
<1>9. \A v \in C : W[v] \subseteq C
  BY <1>5, <1>7 DEF Within, Nodes
<1>10. {curr} \subseteq C /\ C \subseteq Nodes
  BY <1>3, <1>5, <1>6
<1> HIDE DEF W, C, S
<1>11. Reached(W, {curr}) \subseteq C
  BY <1>8, <1>9, <1>10, ReachedLeast
<1> QED
  BY <1>4, <1>5, <1>11 DEF C, S, W

(* Between previsit and postvisit of a node exactly the nodes are met that *)
(* it could reach by nodes not known when it was entered (seq.rs:396-421), *)
(* for every graph, list of roots and answer of the callback, over any     *)
(* number of visits.                                                       *)
THEOREM WhitePathTheorem ==
  ASSUME ReuseBroken = FALSE
  PROVE  Spec => WhitePaths
<1> DEFINE Inv == GivenInv /\ VisitsWhite
<1>1. Init => Inv
  BY InitPathInv, InitWhite, SeqDfsAssumption
  DEF Init, DfsInit, GivenInv, VisitsWhite, WhiteInv
<1>2. Inv /\ [Next]_vars => Inv'
  BY NextPathInv, NextWhite
<1>3. Inv /\ [Next]_vars => [MetWhite]_vars
  <2> SUFFICES ASSUME Inv, Next, event'.type = "Postvisit", event' # event,
                      accept = Nodes \X (0 .. Cardinality(Nodes))
               PROVE  LET u == event'.node
                      IN  Nodes \ known = white[u] \ Reached(Inside(white[u]), {u})
    BY DEF MetWhite, vars, dfsVars
  <2>1. NoEvent.type = "none"
    BY DEF NoEvent
  <2>2. Postvisit
    <3>1. ~(SkipRoot \/ Ignore \/ Visit \/ Restore \/ Inspect \/ StartOrder)
      BY <2>1 DEF SkipRoot, Ignore, Visit, StartVisit, Restore, Reset, Inspect,
                  TakeStack, StartOrder
    <3>2. ~(InitRoot \/ EndRoots \/ DoneRoot \/ Revisit)
      BY DEF InitRoot, EndRoots, DoneRoot, Revisit
    <3>3. ~(PrevisitRoot \/ Previsit)
      BY DEF PrevisitRoot, Previsit, Enter, Event
    <3>4. ~(OrderDeeper \/ OrderRestart \/ OrderNone)
      BY DEF OrderDeeper, OrderRestart, OrderNone, ordering
    <3> QED
      BY <3>1, <3>2, <3>3, <3>4 DEF Next, Step, DfsStep
  <2>3. kind # "nopred" /\ event' = Event("Postvisit", curr, Top.parent, Depth - 1)
    BY <2>1, <2>2 DEF Postvisit
  <2>4. event'.node = curr /\ Full
    BY <2>3 DEF Event, Full, NoFilter, num_nodes
  <2>5. Inside(white[curr]) = Within(graph, white[curr])
    BY DEF Inside, Within, Nodes
  <2> QED
    BY <2>2, <2>3, <2>4, <2>5, WhiteAtPostvisit DEF GivenInv, VisitsWhite
<1> HIDE DEF Inv
<1> QED
  BY <1>1, <1>2, <1>3, PTL DEF Spec, WhitePaths

-----------------------------------------------------------------------------
(* What is reached by nodes of a set only is reached.                      *)
LEMMA ReachesWithin ==
  ASSUME NEW g, IsDigraph(g), NEW S, NEW u \in DOMAIN g
  PROVE  Reached(Within(g, S), {u}) \subseteq Reached(g, {u})
<1> DEFINE C == Reached(g, {u})
<1>1. /\ u \in C /\ C \subseteq DOMAIN g
      /\ \A v \in C : g[v] \subseteq C
  BY Reaching
<1>2. \A v \in DOMAIN g : Within(g, S)[v] \subseteq g[v]
  BY DEF Within
<1>3. Within(g, S) \in [DOMAIN g -> SUBSET DOMAIN g] /\ IsFiniteSet(DOMAIN g)
  BY WithinGraph
<1>4. \A v \in C : Within(g, S)[v] \subseteq C
  BY <1>1, <1>2
<1> HIDE DEF C
<1>5. Reached(Within(g, S), {u}) \subseteq C
  BY <1>1, <1>3, <1>4, ReachedLeast
<1> QED
  BY <1>5 DEF C

LEMMA SameComponentClass ==
  ASSUME NEW g, IsDigraph(g), NEW u \in DOMAIN g, NEW v \in DOMAIN g,
         NEW w \in DOMAIN g, SameComponent(g, u, v), SameComponent(g, u, w)
  PROVE  SameComponent(g, v, w)
<1>1. v \in Reached(g, {u}) /\ u \in Reached(g, {v})
      /\ w \in Reached(g, {u}) /\ u \in Reached(g, {w})
  BY DEF SameComponent
<1>2. Reached(g, {u}) \subseteq Reached(g, {v})
      /\ Reached(g, {u}) \subseteq Reached(g, {w})
  BY <1>1, ReachesFurther
<1> QED
  BY <1>1, <1>2 DEF SameComponent

-----------------------------------------------------------------------------
(* The white sets of known nodes are a chain: of two known nodes one was   *)
(* white when the other was entered, and it saw fewer white nodes.         *)
WhiteChain ==
  /\ known \subseteq Nodes
  /\ \A u \in known : u \in white[u] /\ Nodes \ known \subseteq white[u]
  /\ \A u, v \in known : v \in white[u] => white[v] \subseteq white[u]
  /\ \A u, v \in known : u # v => (v \in white[u] <=> u \notin white[v])

LEMMA EnterChain ==
  ASSUME WhiteChain, white \in [Nodes -> SUBSET Nodes], NEW u \in Nodes, u \notin known,
         known' = known \cup {u}, white' = [white EXCEPT ![u] = Nodes \ known],
         Nodes' = Nodes
  PROVE  WhiteChain'
<1>1. white'[u] = Nodes \ known /\ \A v \in known : white'[v] = white[v]
  BY DEF WhiteChain
<1>2. \A v \in known' : v \in white'[v] /\ Nodes' \ known' \subseteq white'[v]
  BY <1>1 DEF WhiteChain
<1>3. ASSUME NEW v \in known', NEW w \in known', w \in white'[v]
      PROVE  white'[w] \subseteq white'[v]
  <2>1. CASE w = u /\ v # u
    BY <2>1, <1>1, <1>3 DEF WhiteChain
  <2>2. CASE v = u
    BY <2>2, <1>1, <1>3
  <2>3. CASE v # u /\ w # u
    BY <2>3, <1>1, <1>3 DEF WhiteChain
  <2> QED
    BY <2>1, <2>2, <2>3
<1>4. ASSUME NEW v \in known', NEW w \in known', v # w
      PROVE  w \in white'[v] <=> v \notin white'[w]
  <2>1. CASE w = u
    BY <2>1, <1>1, <1>4 DEF WhiteChain
  <2>2. CASE v = u
    BY <2>2, <1>1, <1>4 DEF WhiteChain
  <2>3. CASE v # u /\ w # u
    BY <2>3, <1>1, <1>4 DEF WhiteChain
  <2> QED
    BY <2>1, <2>2, <2>3
<1> QED
  BY <1>2, <1>3, <1>4 DEF WhiteChain

LEMMA ChainStep ==
  ASSUME PathInv, WhiteInv, WhiteChain, DfsStep
  PROVE  WhiteChain'
<1>1. Nodes' = Nodes /\ white \in [Nodes -> SUBSET Nodes]
  BY DEF DfsStep, SkipRoot, InitRoot, PrevisitRoot, EndRoots, Revisit, Ignore,
         Previsit, Postvisit, DoneRoot, inputs, Nodes, WhiteInv
<1>2. CASE PrevisitRoot \/ Previsit
  <2>1. PICK u \in Nodes : u \notin known /\ \E p, d, below : Enter(u, p, d, below)
    BY <1>2, NextArc DEF PrevisitRoot, Previsit, PathInv, Shape
  <2> QED
    BY <2>1, <1>1, EnterChain DEF Enter, Marked
<1>3. CASE ~(PrevisitRoot \/ Previsit)
  <2>1. UNCHANGED <<known, white>>
    BY <1>3 DEF DfsStep, SkipRoot, InitRoot, EndRoots, Revisit, Ignore,
         Postvisit, DoneRoot
  <2> QED
    BY <2>1, <1>1 DEF WhiteChain
<1> QED
  BY <1>2, <1>3

-----------------------------------------------------------------------------
(* The nodes not emitted yet, in the order of their timestamps: a node was *)
(* known before those that were white when it was entered.                 *)
Reaches(u, v) == v \in Reached(graph, {u})
Older(u) == {v \in Pending \ {u} : u \in white[v]}
Stamp(u) == num_nodes - Cardinality(Older(u))
Emitted == known \ Pending

PendingFits == WhiteChain /\ IsDigraph(graph) /\ Pending \subseteq known

LEMMA PendingCount ==
  ASSUME PendingFits
  PROVE  /\ IsFiniteSet(Nodes) /\ IsFiniteSet(Pending)
         /\ Cardinality(Pending) \in Nat /\ num_nodes \in Nat
         /\ Cardinality(Pending) <= num_nodes
         /\ \A u \in Pending : /\ IsFiniteSet(Older(u)) /\ Cardinality(Older(u)) \in Nat
                               /\ Cardinality(Older(u)) < Cardinality(Pending)
<1>1. IsFiniteSet(Nodes) /\ Pending \subseteq Nodes
  BY DEF PendingFits, IsDigraph, Nodes, WhiteChain
<1>2. IsFiniteSet(Pending) /\ Cardinality(Pending) <= num_nodes
  BY <1>1, FS_Subset DEF num_nodes
<1>3. Cardinality(Pending) \in Nat /\ num_nodes \in Nat
  BY <1>1, <1>2, FS_CardinalityType DEF num_nodes
<1>4. ASSUME NEW u \in Pending
      PROVE  /\ IsFiniteSet(Older(u)) /\ Cardinality(Older(u)) \in Nat
             /\ Cardinality(Older(u)) < Cardinality(Pending)
  <2>1. Older(u) \subseteq Pending /\ u \notin Older(u)
    BY DEF Older
  <2> QED
    BY <2>1, <1>2, CountStrict, FS_Subset
<1> QED
  BY <1>1, <1>2, <1>3, <1>4

(* Timestamps are above index, and the younger of two nodes has the lower. *)
LEMMA Stamps ==
  ASSUME PendingFits
  PROVE  /\ \A u \in Pending :
              /\ Stamp(u) \in Nat /\ num_nodes - Cardinality(Pending) < Stamp(u)
              /\ Stamp(u) <= num_nodes
         /\ \A u, v \in Pending : v \in white[u] <=> Stamp(v) <= Stamp(u)
         /\ \A u, v \in Pending : Stamp(u) = Stamp(v) => u = v
<1>1. \A u \in Pending : Stamp(u) \in Nat /\ Stamp(u) <= num_nodes
                         /\ num_nodes - Cardinality(Pending) < Stamp(u)
  BY PendingCount DEF Stamp
<1>2. ASSUME NEW u \in Pending, NEW v \in Pending, u # v, v \in white[u]
      PROVE  Stamp(v) < Stamp(u)
  <2>1. u \in Older(v) /\ u \notin Older(u)
    BY <1>2 DEF Older
  <2>2. Older(u) \subseteq Older(v)
    <3> SUFFICES ASSUME NEW w \in Older(u) PROVE w \in Older(v)
      OBVIOUS
    <3>1. w \in Pending /\ u \in white[w] /\ w # u
      BY DEF Older
    <3>2. v \in white[w]
      BY <3>1, <1>2 DEF PendingFits, WhiteChain
    <3>3. w # v
      BY <3>1, <1>2 DEF PendingFits, WhiteChain
    <3> QED
      BY <3>1, <3>2, <3>3 DEF Older
  <2>3. Cardinality(Older(u)) < Cardinality(Older(v))
    BY <2>1, <2>2, PendingCount, CountStrict
  <2> QED
    BY <2>3, PendingCount DEF Stamp
<1>3. ASSUME NEW u \in Pending, NEW v \in Pending
      PROVE  (v \in white[u] <=> Stamp(v) <= Stamp(u)) /\ (Stamp(u) = Stamp(v) => u = v)
  <2>1. CASE u = v
    BY <2>1, <1>1 DEF PendingFits, WhiteChain
  <2>2. CASE u # v
    <3>1. v \in white[u] <=> u \notin white[v]
      BY <2>2 DEF PendingFits, WhiteChain
    <3>2. Stamp(u) \in Nat /\ Stamp(v) \in Nat
      BY <1>1
    <3> QED
      BY <3>1, <3>2, <2>2, <1>2
  <2> QED
    BY <2>1, <2>2
<1> QED
  BY <1>1, <1>3

(* Following links that lead to older nodes of a set ends in the one.      *)
LEMMA LinksLeadTo ==
  ASSUME PendingFits, NEW S \in SUBSET Pending, NEW t \in Nodes,
         \A u \in S : \/ Reaches(u, t)
                      \/ \E w \in S : Stamp(u) < Stamp(w) /\ Reaches(u, w)
  PROVE  \A u \in S : Reaches(u, t)
<1> DEFINE Bad == {u \in S : ~Reaches(u, t)}
           N == {Cardinality(Older(u)) : u \in Bad}
<1> SUFFICES ASSUME Bad # {} PROVE FALSE
  OBVIOUS
<1>1. \A u \in Bad : Cardinality(Older(u)) \in Nat
  BY PendingCount
<1>2. N \subseteq Nat /\ N # {}
  BY <1>1
<1>3. PICK u \in Bad : \A v \in Bad : Cardinality(Older(u)) <= Cardinality(Older(v))
  <2> HIDE DEF N, Bad
  <2>1. Min(N) \in N /\ \A y \in N : Min(N) <= y
    BY <1>2, MinOfNat
  <2>2. PICK u \in Bad : Min(N) = Cardinality(Older(u))
    BY <2>1 DEF N
  <2> QED
    BY <2>1, <2>2 DEF N
<1>4. PICK w \in S : Stamp(u) < Stamp(w) /\ Reaches(u, w)
  OBVIOUS
<1>5. w \notin Bad
  BY <1>1, <1>3, <1>4, PendingCount DEF Stamp
<1>6. Reaches(w, t)
  BY <1>5
<1>7. u \in Nodes
  BY DEF PendingFits, WhiteChain
<1>8. Reaches(u, t)
  BY <1>4, <1>6, <1>7, ReachesFurther DEF Reaches, PendingFits, Nodes
<1> QED
  BY <1>8

(* The list of all nodes that the algorithms give to a visit.              *)
LEMMA AllNodesListed ==
  ASSUME IsDigraph(graph)
  PROVE  AllNodes \in Seq(Nodes) /\ ToSet(AllNodes) = Nodes
<1>1. num_nodes \in Nat /\ Nodes = 0 .. num_nodes - 1
  BY FS_CardinalityType DEF IsDigraph, Nodes, num_nodes
<1>2. AllNodes \in [1 .. num_nodes -> Nodes]
  BY <1>1 DEF AllNodes
<1>3. \A v \in Nodes : v + 1 \in 1 .. num_nodes /\ v = AllNodes[v + 1]
  BY <1>1 DEF AllNodes
<1> QED
  BY <1>1, <1>2, <1>3 DEF ToSet

LEMMA ListMembers ==
  ASSUME NEW S, NEW s \in Seq(S)
  PROVE  /\ Len(s) \in Nat /\ DOMAIN s = 1 .. Len(s)
         /\ ToSet(s) = {s[i] : i \in 1 .. Len(s)} /\ ToSet(s) \subseteq S
         /\ (s = << >>) <=> (Len(s) = 0)
<1>1. Len(s) \in Nat /\ DOMAIN s = 1 .. Len(s) /\ s \in [1 .. Len(s) -> S]
  BY LenProperties
<1> QED
  BY <1>1, EmptySeq DEF ToSet

PathNodes == 1 .. Len(path)

CellTypes ==
  /\ component_stack \in Seq(Nodes) /\ lead \in Seq(BOOLEAN)
  /\ high_link \in [Nodes -> Nat]
  /\ number_of_components \in Nat

(* What lies on the component stack was met after the nodes of the path it *)
(* belongs to; each node of the path finds its own on top.                 *)
StackInv ==
  /\ \A a, b \in DOMAIN component_stack :
       component_stack[a] = component_stack[b] => a = b
  /\ ToSet(component_stack) \cap ToSet(path) = {}
  /\ ToSet(component_stack) \subseteq known
  /\ \A i \in PathNodes : \A a, b \in DOMAIN component_stack :
       a < b /\ component_stack[a] \in white[path[i]] =>
         component_stack[b] \in white[path[i]]
  /\ IF path = << >> THEN component_stack = << >>
     ELSE ToSet(component_stack) \subseteq white[path[1]]

LeadInv ==
  /\ Len(lead) = Len(path) + 1 /\ lead[1] = TRUE
  /\ \A i \in PathNodes : lead[i + 1] <=> high_link[path[i]] = Stamp(path[i])

IndexInv ==
  /\ index = num_nodes - Cardinality(Pending)
  /\ number_of_components <= Cardinality(Emitted)
  /\ \A u \in Nodes \ known : high_link[u] = 0
  /\ pc \in {"previsit", "recurse"} => root_low_link = num_nodes

(* A link is the timestamp of a node that can be reached; those of nodes   *)
(* left behind lead further back.                                          *)
LinkInv ==
  /\ \A u \in Pending : \E w \in Pending :
       high_link[u] = Stamp(w) /\ Reaches(u, w) /\ Stamp(u) <= Stamp(w)
  /\ \A u \in ToSet(component_stack) : Stamp(u) < high_link[u]

(* Links are as high as arcs and descendants demand.                       *)
RaisedInv ==
  /\ \A u \in ToSet(component_stack) : \A x \in graph[u] \cap Pending :
       Stamp(x) <= high_link[u]
  /\ pc = "recurse" => \A i \in PathNodes :
       \A x \in (graph[path[i]] \ ToSet(stack[i].succs)) \cap Pending :
         Stamp(x) <= high_link[path[i]]
  /\ \A i \in PathNodes : \A v \in ToSet(component_stack) :
       v \in white[path[i]] /\ (i < Len(path) => v \notin white[path[i + 1]]) =>
         high_link[v] <= high_link[path[i]]

(* What has been emitted is closed and numbered.                           *)
Numbered(S) ==
  /\ \A u, v \in S : high_link[u] = high_link[v] <=> SameComponent(graph, u, v)
  /\ {high_link[u] : u \in S} = 0 .. number_of_components - 1
  /\ \A u \in S : \A v \in graph[u] : high_link[v] <= high_link[u]
EmittedInv ==
  /\ \A u \in Emitted : graph[u] \subseteq Emitted
  /\ Numbered(Emitted)

(* After an early exit all that is left lies on the path.                  *)
ExitInv ==
  /\ path # << >>
  /\ \A u, v \in Nodes : SameComponent(graph, u, v)
  /\ number_of_components = 0
  /\ \A u \in Nodes : high_link[u] = 0 \/ u \in ToSet(Front(path))

AtWork ==
  /\ StackInv /\ LeadInv /\ IndexInv /\ LinkInv /\ RaisedInv /\ EmittedInv
RootsLeft ==
  Nodes \subseteq known \cup (IF pc = "previsit" THEN {root} ELSE {})
                        \cup (IF pc = "idle" THEN {} ELSE ToSet(roots))

TarjanInv ==
  /\ CellTypes
  /\ phase \in {"start", "visit", "done"}
  /\ phase = "start" => pc = "idle" /\ ~broke /\ path = << >> /\ known = {}
       /\ component_stack = << >> /\ lead = <<TRUE>> /\ index = num_nodes
       /\ number_of_components = 0 /\ high_link = [u \in Nodes |-> 0]
  /\ phase = "visit" => IF broke THEN pc = "idle" /\ ExitInv
                        ELSE AtWork /\ RootsLeft
  /\ phase = "done" => ResultExact

(* A visit of all nodes by SeqPred, without a filter.                      *)
FullVisit == PathInv /\ WhiteInv /\ WhiteChain /\ Full /\ kind = "pred"
Working == FullVisit /\ CellTypes /\ AtWork /\ ~broke

LEMMA WorkingFits ==
  ASSUME Working
  PROVE  /\ PendingFits /\ IsDigraph(graph) /\ path \in Seq(Nodes)
         /\ \A i \in PathNodes : path[i] \in Pending /\ path[i] \in known
         /\ \A i, j \in PathNodes : path[i] = path[j] => i = j
         /\ Exhausted(graph, path, known)
         /\ \A u \in Emitted : high_link[u] < index
         /\ index \in Nat /\ Pending \subseteq Nodes
<1>1. /\ IsDigraph(graph) /\ Exhausted(graph, path, known)
      /\ pc # "recurse" => path = << >>
      /\ pc = "recurse" => Along(graph, stack, path, known)
  BY DEF Working, FullVisit, PathInv, Shape, WhiteInv, MetSoFar, Active, OnPath
<1>2. /\ path \in Seq(Nodes) /\ \A i \in PathNodes : path[i] \in known
      /\ \A i, j \in PathNodes : path[i] = path[j] => i = j
  <2>1. CASE pc = "recurse"
    BY <2>1, <1>1 DEF Along, Nodes, PathNodes
  <2>2. CASE pc # "recurse"
    <3>1. path = << >> /\ Len(<< >>) = 0 /\ 1 .. 0 = {}
      BY <2>2, <1>1
    <3>2. << >> \in Seq(Nodes)
      OBVIOUS
    <3> QED
      BY <3>1, <3>2 DEF PathNodes
  <2> QED
    BY <2>1, <2>2
<1>3. ToSet(path) = {path[i] : i \in PathNodes}
  BY <1>2, ListMembers DEF PathNodes
<1>4. Pending \subseteq known /\ \A i \in PathNodes : path[i] \in Pending
  BY <1>2, <1>3 DEF Pending, Working, AtWork, StackInv
<1>5. PendingFits
  BY <1>1, <1>4 DEF PendingFits, Working, FullVisit
<1>6. /\ IsFiniteSet(Pending) /\ IsFiniteSet(known) /\ IsFiniteSet(Emitted)
      /\ Cardinality(Pending) \in Nat /\ Cardinality(Emitted) \in Nat
      /\ Cardinality(Pending) + Cardinality(Emitted) <= num_nodes
      /\ num_nodes \in Nat
  <2>1. IsFiniteSet(known) /\ Cardinality(known) <= num_nodes
    BY <1>5, PendingCount, FS_Subset DEF PendingFits, WhiteChain, num_nodes
  <2>2. known \cap Pending = Pending
    BY <1>4
  <2>3. IsFiniteSet(Emitted) /\ Cardinality(Emitted) = Cardinality(known) - Cardinality(Pending)
    BY <2>1, <2>2, FS_Difference DEF Emitted
  <2> QED
    BY <2>1, <2>3, <1>5, PendingCount, FS_CardinalityType
<1>7. ASSUME NEW u \in Emitted PROVE high_link[u] < index
  <2>1. high_link[u] \in 0 .. number_of_components - 1
    BY DEF Working, AtWork, EmittedInv, Numbered
  <2>2. /\ number_of_components <= Cardinality(Emitted)
        /\ index = num_nodes - Cardinality(Pending)
        /\ number_of_components \in Nat
    BY DEF Working, AtWork, IndexInv, CellTypes
  <2> QED
    BY <2>1, <2>2, <1>6
<1>8. index \in Nat /\ Pending \subseteq Nodes
  BY <1>6, <1>5 DEF Working, AtWork, IndexInv, PendingFits, WhiteChain
<1> QED
  BY <1>1, <1>2, <1>4, <1>5, <1>7, <1>8

(* The path reaches what was met below it; its first node is the oldest.   *)
LEMMA PathFacts ==
  ASSUME Working, pc = "recurse", path # << >>
  PROVE  /\ Len(path) \in PathNodes /\ curr = path[Len(path)] /\ Len(stack) = Len(path)
         /\ curr \in Pending /\ 1 \in PathNodes
         /\ \A i \in PathNodes : \A v \in known \cap white[path[i]] :
              Reaches(path[i], v)
         /\ \A i, j \in PathNodes : path[j] \in white[path[i]] <=> i <= j
         /\ \A v \in Pending : v \in white[path[1]]
         /\ \A v \in Pending : Stamp(v) = num_nodes <=> v = path[1]
<1>1. /\ IsDigraph(graph) /\ Along(graph, stack, path, known)
      /\ curr = Last(path) /\ WhiteMet(graph, path, known, white)
  BY WhiteAtWork DEF Working, FullVisit
<1>2. PendingFits /\ path \in Seq(Nodes)
      /\ \A i \in PathNodes : path[i] \in Pending /\ path[i] \in known
  BY WorkingFits
<1>3. Len(path) \in Nat \ {0} /\ ToSet(path) = {path[i] : i \in PathNodes}
  BY <1>2, ListMembers DEF PathNodes
<1>4. Len(path) \in PathNodes /\ 1 \in PathNodes
  BY <1>3 DEF PathNodes
<1>5. curr = path[Len(path)] /\ Len(stack) = Len(path)
  BY <1>1, <1>2 DEF Last, Along
<1>6. ASSUME NEW i \in PathNodes, NEW v \in known \cap white[path[i]]
      PROVE  Reaches(path[i], v)
  <2>1. v \in Reached(Within(graph, white[path[i]]), {path[i]})
    BY <1>1 DEF WhiteMet, PathNodes
  <2>2. path[i] \in DOMAIN graph
    BY <1>2 DEF PendingFits, WhiteChain, Nodes
  <2> QED
    BY <2>1, <2>2, <1>1, ReachesWithin DEF Reaches
<1>7. \A i, j \in PathNodes : path[j] \in white[path[i]] <=> i <= j
  BY <1>1 DEF WhiteMet, PathNodes
<1>8. ASSUME NEW v \in Pending PROVE v \in white[path[1]]
  <2>1. CASE v \in ToSet(path)
    <3>1. PICK j \in PathNodes : v = path[j]
      BY <2>1, <1>3
    <3>2. 1 <= j
      BY <1>3 DEF PathNodes
    <3> QED
      BY <3>1, <3>2, <1>4, <1>7
  <2>2. CASE v \in ToSet(component_stack)
    BY <2>2 DEF Working, AtWork, StackInv
  <2> QED
    BY <2>1, <2>2 DEF Pending
<1>9. ASSUME NEW v \in Pending PROVE Stamp(v) = num_nodes <=> v = path[1]
  <2>1. path[1] \in Pending
    BY <1>2, <1>4
  <2>2. v = path[1] => Older(v) = {}
    BY <1>2, <1>8, <2>1 DEF Older, PendingFits, WhiteChain
  <2>3. v # path[1] => path[1] \in Older(v)
    BY <1>8, <2>1 DEF Older
  <2>4. IsFiniteSet(Older(v)) /\ Cardinality(Older(v)) \in Nat /\ num_nodes \in Nat
    BY <1>2, PendingCount
  <2>5. Cardinality(Older(v)) = 0 <=> Older(v) = {}
    BY <2>4, FS_EmptySet
  <2> QED
    BY <2>2, <2>3, <2>4, <2>5 DEF Stamp
<1> QED
  BY <1>2, <1>4, <1>5, <1>6, <1>7, <1>8, <1>9

RaisedArcs == pc = "recurse" => \A i \in PathNodes :
           \A x \in (graph[path[i]] \ ToSet(stack[i].succs)) \cap Pending :
             Stamp(x) <= high_link[path[i]]
LowLink == pc \in {"previsit", "recurse"} => root_low_link = num_nodes

(* A step of the visit that leaves nodes, path and cells alone.            *)
LEMMA SameCells ==
  ASSUME AtWork,
         UNCHANGED <<graph, known, path, white, component_stack, high_link, lead,
                     index, number_of_components>>,
         RaisedArcs', LowLink'
  PROVE  AtWork'
<1>1. Nodes' = Nodes /\ num_nodes' = num_nodes /\ Pending' = Pending /\ Emitted' = Emitted
      /\ PathNodes' = PathNodes
  BY DEF Nodes, num_nodes, Pending, Emitted, PathNodes
<1>2. \A u : Stamp(u)' = Stamp(u)
  BY <1>1 DEF Stamp, Older
<1>3. StackInv'
  BY <1>1 DEF AtWork, StackInv
<1>4. LeadInv'
  BY <1>1, <1>2 DEF AtWork, LeadInv
<1>5. IndexInv'
  BY <1>1 DEF AtWork, IndexInv, LowLink
<1>6. LinkInv'
  BY <1>1, <1>2 DEF AtWork, LinkInv, Reaches
<1>7. RaisedInv'
  BY <1>1, <1>2 DEF AtWork, RaisedInv, RaisedArcs
<1>8. EmittedInv'
  BY <1>1 DEF AtWork, EmittedInv, Numbered
<1> QED
  BY <1>3, <1>4, <1>5, <1>6, <1>7, <1>8 DEF AtWork

(* Between the nodes of a visit nothing is pending.                        *)
LEMMA NothingPending ==
  ASSUME Working, path = << >>
  PROVE  Pending = {} /\ index = num_nodes /\ ToSet(component_stack) = {}
<1>1. component_stack = << >>
  BY DEF Working, AtWork, StackInv
<1>2. ToSet(<< >>) = {}
  BY DEF ToSet
<1>3. Pending = {}
  BY <1>1, <1>2 DEF Pending
<1>4. num_nodes \in Nat
  BY WorkingFits, PendingCount
<1> QED
  BY <1>1, <1>2, <1>3, <1>4, FS_EmptySet DEF Working, AtWork, IndexInv

(* What the callback does not hear of, or leaves alone.                    *)
LEMMA RootsTarjan ==
  ASSUME Working, RootsLeft, SkipRoot \/ EndRoots \/ DoneRoot, UNCHANGED callback,
         ~broke'
  PROVE  AtWork' /\ RootsLeft' /\ CellTypes'
<1>1. UNCHANGED <<graph, known, path, white, component_stack, high_link, lead,
                  index, number_of_components>> /\ Nodes' = Nodes
      /\ pc' \in {"roots", "idle"} /\ accept' = accept
  BY DEF SkipRoot, EndRoots, DoneRoot, callback, inputs, Nodes, Goes
<1>2. AtWork'
  BY <1>1, SameCells DEF RaisedArcs, LowLink, Working
<1>3. CellTypes'
  BY <1>1 DEF Working, CellTypes
<1>4. RootsLeft'
  <2>1. CASE SkipRoot
    <3>1. pc = "roots" /\ pc' = "roots" /\ roots' = Tail(roots) /\ roots # << >>
      BY <2>1 DEF SkipRoot
    <3>2. roots \in Seq(Nodes) /\ Head(roots) \in Nodes
      BY <3>1, RootsShape DEF Working, FullVisit, PathInv, Shape
    <3>3. Accepts(Head(roots), 0)
      <4>1. num_nodes \in Nat
        BY WorkingFits, PendingCount
      <4>2. 0 \in 0 .. num_nodes
        BY <4>1
      <4> QED
        BY <3>2, <4>2 DEF Accepts, Working, FullVisit, Full, NoFilter
    <3>4. Head(roots) \in known
      BY <3>3, <2>1 DEF SkipRoot
    <3>5. ToSet(roots) = {Head(roots)} \cup ToSet(Tail(roots))
      BY <3>1, <3>2, ToSetTail
    <3> QED
      BY <1>1, <3>1, <3>4, <3>5 DEF RootsLeft
  <2>2. CASE EndRoots
    <3>1. pc = "roots" /\ pc' = "idle" /\ roots = << >> /\ ToSet(<< >>) = {}
      BY <2>2 DEF EndRoots, ToSet
    <3> QED
      BY <1>1, <3>1 DEF RootsLeft
  <2>3. CASE DoneRoot
    <3>1. pc = "recurse" /\ pc' = "roots" /\ roots' = roots
      BY <2>3 DEF DoneRoot, Goes
    <3> QED
      BY <1>1, <3>1 DEF RootsLeft
  <2> QED
    BY <2>1, <2>2, <2>3
<1> QED
  BY <1>2, <1>3, <1>4

LEMMA InitTarjan ==
  ASSUME Working, RootsLeft, InitRoot, OnInit
  PROVE  AtWork' /\ RootsLeft' /\ CellTypes'
<1>1. UNCHANGED <<graph, known, path, white, component_stack, high_link, lead,
                  index, number_of_components>> /\ Nodes' = Nodes
      /\ pc = "roots" /\ pc' = "previsit" /\ root_low_link' = index
      /\ num_nodes' = num_nodes
  BY DEF InitRoot, OnInit, inputs, Nodes, Goes, num_nodes
<1>2. path = << >>
  BY <1>1 DEF Working, FullVisit, PathInv, Quiet
<1>3. root_low_link' = num_nodes
  BY <1>1, <1>2, NothingPending
<1>4. AtWork'
  BY <1>1, <1>3, SameCells DEF RaisedArcs, LowLink, Working
<1>5. CellTypes'
  BY <1>1 DEF Working, CellTypes
<1>6. RootsLeft'
  <2>1. root' = Head(roots) /\ roots' = Tail(roots) /\ roots # << >>
        /\ roots \in Seq(Nodes)
    BY DEF InitRoot, Working, FullVisit, PathInv, Shape
  <2>2. ToSet(roots) = {Head(roots)} \cup ToSet(Tail(roots))
    BY <2>1, ToSetTail
  <2> QED
    BY <2>1, <2>2, <1>1 DEF RootsLeft
<1> QED
  BY <1>4, <1>5, <1>6

(* Entering a node gives it the next timestamp, below all others.          *)
LEMMA EnterTarjan ==
  ASSUME Working, NEW u \in Nodes, u \notin known, NEW p, NEW d, NEW below,
         Enter(u, p, d, below), UNCHANGED inputs,
         OnPrevisit,
         Len(below) = Len(path), below \in Seq(Entry(graph)),
         \A i \in PathNodes : pc = "recurse" /\
           ToSet(stack[i].succs) \subseteq ToSet(below[i].succs) \cup {u},
         pc \in {"previsit", "recurse"}
  PROVE  AtWork' /\ CellTypes'
<1> DEFINE n == Len(path)
<1>1. /\ known' = known \cup {u} /\ path' = Append(path, u) /\ pc' = "recurse"
      /\ stack' = Append(below, [succs |-> Successors(graph, u), parent |-> p])
      /\ graph' = graph /\ Nodes' = Nodes /\ num_nodes' = num_nodes
      /\ white' = [white EXCEPT ![u] = Nodes \ known]
      /\ high_link' = [high_link EXCEPT ![u] = index]
      /\ index' = index - 1 /\ lead' = Append(lead, TRUE)
      /\ UNCHANGED <<component_stack, root_low_link, number_of_components>>
  BY DEF OnPrevisit, Enter, Marked, Event, Goes, inputs, Nodes, num_nodes
<1>2. /\ PendingFits /\ path \in Seq(Nodes) /\ IsDigraph(graph)
      /\ \A i \in PathNodes : path[i] \in Pending /\ path[i] \in known
      /\ Exhausted(graph, path, known) /\ Pending \subseteq Nodes
      /\ index \in Nat
  BY WorkingFits
<1>3. /\ n \in Nat /\ PathNodes' = 1 .. n + 1 /\ PathNodes = 1 .. n
      /\ \A i \in 1 .. n : path'[i] = path[i]
      /\ path'[n + 1] = u /\ Len(path') = n + 1
      /\ path' # << >>
  <2>1. n \in Nat
    BY <1>2, ListMembers
  <2>2. path' \in Seq(Nodes) /\ Len(path') = n + 1 /\ path'[n + 1] = u
        /\ \A i \in 1 .. n : path'[i] = path[i]
    BY <1>1, <1>2, <2>1, AppendProperties
  <2> QED
    BY <2>1, <2>2, EmptySeq DEF PathNodes
<1>4. ToSet(path') = ToSet(path) \cup {u}
  BY <1>1, <1>2, AppendedSet
<1>5. Pending' = Pending \cup {u} /\ u \notin Pending /\ Emitted' = Emitted
      /\ ToSet(component_stack') = ToSet(component_stack)
      /\ ToSet(component_stack) \subseteq known
  BY <1>1, <1>2, <1>4 DEF Pending, PendingFits, Emitted
<1>6. white \in [Nodes -> SUBSET Nodes] /\ high_link \in [Nodes -> Nat]
  BY DEF Working, FullVisit, WhiteInv, CellTypes
<1>7. /\ white'[u] = Nodes \ known /\ \A v \in Nodes : v # u => white'[v] = white[v]
      /\ high_link'[u] = index /\ \A v \in Nodes : v # u => high_link'[v] = high_link[v]
  BY <1>1, <1>6
<1>8. \A v \in Pending : v \in Nodes /\ v # u /\ v \notin white'[u]
      /\ white'[v] = white[v] /\ high_link'[v] = high_link[v] /\ u \in white[v]
  BY <1>2, <1>5, <1>7 DEF PendingFits, WhiteChain
<1>9. \A v \in Pending : Stamp(v)' = Stamp(v)
  <2> SUFFICES ASSUME NEW v \in Pending PROVE Older(v)' = Older(v)
    BY <1>1 DEF Stamp
  <2> QED
    BY <1>5, <1>8 DEF Older
<1>10. Stamp(u)' = index
  <2>1. Older(u)' = Pending
    BY <1>5, <1>8 DEF Older
  <2> QED
    BY <2>1, <1>1 DEF Stamp, Working, AtWork, IndexInv
<1>11. \A v \in Pending : Stamp(v) \in Nat /\ index < Stamp(v) /\ Stamp(v) <= high_link[v]
                          /\ high_link[v] \in Nat
  <2>1. \A v \in Pending : Stamp(v) \in Nat /\ index < Stamp(v)
    BY <1>2, Stamps DEF Working, AtWork, IndexInv
  <2>2. \A v \in Pending : \E w \in Pending : high_link[v] = Stamp(w) /\ Stamp(v) <= Stamp(w)
    BY DEF Working, AtWork, LinkInv
  <2> QED
    BY <2>1, <2>2
<1>12. \A v \in ToSet(component_stack) : v \in Pending /\ v \in known
  BY <1>5 DEF Pending
<1> HIDE DEF n
<1>13. StackInv'
  <2>1. ASSUME NEW i \in PathNodes', NEW a \in DOMAIN component_stack,
               NEW b \in DOMAIN component_stack, a < b,
               component_stack[a] \in white'[path'[i]]
        PROVE  component_stack[b] \in white'[path'[i]]
    <3>1. component_stack[a] \in ToSet(component_stack)
      BY DEF ToSet
    <3>2. i # n + 1
      BY <3>1, <1>3, <1>8, <1>12, <2>1
    <3>3. i \in PathNodes
      BY <3>2, <1>3
    <3>4. path'[i] = path[i] /\ white'[path[i]] = white[path[i]]
      BY <3>3, <1>2, <1>3, <1>8
    <3> QED
      BY <3>3, <3>4, <2>1 DEF Working, AtWork, StackInv
  <2>2. ToSet(component_stack) \subseteq white'[path'[1]]
    <3>1. CASE path = << >>
      BY <3>1, NothingPending
    <3>2. CASE path # << >>
      <4>1. 1 \in PathNodes
        BY <3>2, <1>2, <1>3, ListMembers DEF PathNodes, n
      <4> QED
        BY <4>1, <3>2, <1>2, <1>3, <1>8 DEF Working, AtWork, StackInv
    <3> QED
      BY <3>1, <3>2
  <2>3. ToSet(component_stack) \cap ToSet(path') = {}
    BY <1>4, <1>12 DEF Working, AtWork, StackInv
  <2>4. \A a, b \in DOMAIN component_stack :
          component_stack[a] = component_stack[b] => a = b
    BY DEF Working, AtWork, StackInv
  <2> QED
    BY <2>1, <2>2, <2>3, <2>4, <1>1, <1>3, <1>5 DEF StackInv
<1>14. LeadInv' /\ lead' \in Seq(BOOLEAN)
  <2>1. lead \in Seq(BOOLEAN) /\ Len(lead) = n + 1 /\ lead[1] = TRUE
    BY DEF Working, AtWork, LeadInv, CellTypes, n
  <2>2. /\ lead' \in Seq(BOOLEAN) /\ Len(lead') = n + 2 /\ lead'[n + 2] = TRUE
        /\ \A i \in 1 .. n + 1 : lead'[i] = lead[i]
    <3>1. /\ lead' \in Seq(BOOLEAN) /\ Len(lead') = Len(lead) + 1
          /\ lead'[Len(lead) + 1] = TRUE
          /\ \A i \in 1 .. Len(lead) : lead'[i] = lead[i]
      <4>1. /\ Append(lead, TRUE) \in Seq(BOOLEAN)
            /\ Len(Append(lead, TRUE)) = Len(lead) + 1
            /\ Append(lead, TRUE)[Len(lead) + 1] = TRUE
            /\ \A i \in 1 .. Len(lead) : Append(lead, TRUE)[i] = lead[i]
        <5>1. TRUE \in BOOLEAN
          OBVIOUS
        <5> QED
          BY <5>1, <2>1, AppendProperties, Zenon
      <4> QED
        BY <4>1, <1>1
    <3>2. (n + 1) + 1 = n + 2
      BY <1>3
    <3> QED
      BY <3>1, <3>2, <2>1
  <2>3. ASSUME NEW i \in 1 .. n + 1
        PROVE  (lead[i + 1] <=> high_link[path[i]] = Stamp(path[i]))'
    <3>1. CASE i = n + 1
      <4>1. (n + 1) + 1 = n + 2
        BY <1>3
      <4> QED
        <5>1. Older(path[i])' = Pending
          BY <3>1, <1>3, <1>5, <1>8 DEF Older
        <5>2. Stamp(path[i])' = index
          BY <5>1, <1>1 DEF Stamp, Working, AtWork, IndexInv
        <5> QED
          BY <3>1, <4>1, <5>2, <2>2, <1>3, <1>7
    <3>2. CASE i # n + 1
      <4>1. i \in PathNodes /\ i + 1 \in 1 .. n + 1 /\ i \in 1 .. n
        BY <3>2, <1>3
      <4>2. path'[i] = path[i] /\ path[i] \in Pending /\ lead'[i + 1] = lead[i + 1]
        BY <4>1, <1>2, <1>3, <2>2
      <4>3. high_link'[path[i]] = high_link[path[i]]
        BY <4>2, <1>8
      <4>4. lead[i + 1] <=> high_link[path[i]] = Stamp(path[i])
        BY <4>1 DEF Working, AtWork, LeadInv
      <4>5. Older(path[i])' = Older(path[i])
        BY <4>2, <1>5, <1>8 DEF Older
      <4>6. Stamp(path[i])' = Stamp(path[i])
        BY <4>5, <1>1 DEF Stamp
      <4> QED
        BY <4>2, <4>3, <4>4, <4>6
    <3> QED
      BY <3>1, <3>2
  <2>4. 1 \in 1 .. n + 1 /\ n + 2 = (n + 1) + 1
    BY <1>3
  <2> QED
    BY <2>1, <2>2, <2>3, <2>4, <1>3 DEF LeadInv
<1>15. IndexInv'
  <2>1. Cardinality(Pending') = Cardinality(Pending) + 1
    BY <1>2, <1>5, PendingCount, FS_AddElement
  <2>2. Cardinality(Pending) \in Nat /\ num_nodes \in Nat
    BY <1>2, PendingCount
  <2>3. index' = num_nodes' - Cardinality(Pending')
    BY <2>1, <2>2, <1>1 DEF Working, AtWork, IndexInv
  <2>4. number_of_components' <= Cardinality(Emitted')
    BY <1>1, <1>5 DEF Working, AtWork, IndexInv
  <2>5. \A v \in Nodes' \ known' : high_link'[v] = 0
    BY <1>1, <1>7 DEF Working, AtWork, IndexInv
  <2>6. root_low_link' = num_nodes'
    BY <1>1 DEF Working, AtWork, IndexInv
  <2> QED
    BY <2>3, <2>4, <2>5, <2>6 DEF IndexInv
<1>16. LinkInv'
  <2>1. ASSUME NEW v \in Pending'
        PROVE  \E w \in Pending' : high_link'[v] = Stamp(w)' /\ Reaches(v, w)'
                                    /\ Stamp(v)' <= Stamp(w)'
    <3>1. CASE v = u
      <4>1. Reaches(v, v)'
        BY <3>1, <1>1, <1>2, Reaching DEF Reaches, Nodes
      <4> QED
        BY <4>1, <3>1, <1>5, <1>7, <1>10, <1>2
    <3>2. CASE v # u
      <4>1. v \in Pending
        BY <3>2, <1>5
      <4>2. PICK w \in Pending : high_link[v] = Stamp(w) /\ Reaches(v, w)
                                 /\ Stamp(v) <= Stamp(w)
        BY <4>1 DEF Working, AtWork, LinkInv
      <4>3. Reaches(v, w)'
        BY <4>2, <1>1 DEF Reaches
      <4> QED
        BY <4>1, <4>2, <4>3, <1>5, <1>8, <1>9
    <3> QED
      BY <3>1, <3>2
  <2>2. ASSUME NEW v \in ToSet(component_stack)
        PROVE  Stamp(v)' < high_link'[v]
    BY <1>8, <1>9, <1>12 DEF Working, AtWork, LinkInv
  <2> QED
    BY <2>1, <2>2, <1>5 DEF LinkInv
<1>17. RaisedInv'
  <2>1. ASSUME NEW v \in ToSet(component_stack), NEW x \in graph[v] \cap Pending'
        PROVE  Stamp(x)' <= high_link'[v]
    <3>1. v \notin ToSet(path)
      BY DEF Working, AtWork, StackInv
    <3>2. x \in known
      BY <3>1, <1>2, <1>12 DEF Exhausted
    <3>3. x \in graph[v] \cap Pending
      BY <3>2, <1>5
    <3>4. Stamp(x) <= high_link[v]
      BY <3>3 DEF Working, AtWork, RaisedInv
    <3> QED
      BY <3>3, <3>4, <1>8, <1>9, <1>12
  <2>2. ASSUME NEW i \in PathNodes',
               NEW x \in (graph'[path'[i]] \ ToSet(stack'[i].succs)) \cap Pending'
        PROVE  Stamp(x)' <= high_link'[path'[i]]
    <3>1. /\ \A j \in 1 .. n : stack'[j] = below[j]
          /\ stack'[n + 1] = [succs |-> Successors(graph, u), parent |-> p]
      BY <1>1, <1>3, AppendProperties DEF n
    <3>2. i # n + 1
      <4> SUFFICES ASSUME i = n + 1 PROVE FALSE
        OBVIOUS
      <4>1. stack'[i].succs = Successors(graph, u)
        BY <3>1
      <4>2. ToSet(stack'[i].succs) = graph[u]
        BY <4>1, <1>2, GraphLists DEF Nodes
      <4> QED
        BY <4>2, <1>1, <1>3
    <3>3. i \in PathNodes /\ i \in 1 .. n
      BY <3>2, <1>3
    <3>4. /\ path'[i] = path[i] /\ path[i] \in Pending
          /\ high_link'[path[i]] = high_link[path[i]] /\ stack'[i] = below[i]
      BY <3>1, <3>3, <1>2, <1>3, <1>8
    <3>5. CASE x = u
      BY <3>5, <3>4, <1>10, <1>11, <1>2
    <3>6. CASE x # u
      <4>1. x \in Pending /\ x \in graph[path[i]] \ ToSet(stack[i].succs)
        BY <3>6, <3>3, <3>4, <1>1, <1>5
      <4>2. Stamp(x) <= high_link[path[i]]
        BY <4>1, <3>3 DEF Working, AtWork, RaisedInv
      <4> QED
        BY <4>1, <4>2, <3>4, <1>9
    <3> QED
      BY <3>5, <3>6
  <2>3. ASSUME NEW i \in PathNodes', NEW v \in ToSet(component_stack),
               v \in white'[path'[i]],
               i < Len(path') => v \notin white'[path'[i + 1]]
        PROVE  high_link'[v] <= high_link'[path'[i]]
    <3>1. v \in Pending
      BY <1>12
    <3>2. i \in PathNodes /\ i \in 1 .. n
      BY <3>1, <2>3, <1>3, <1>8
    <3>3. /\ path'[i] = path[i] /\ path[i] \in Pending
          /\ high_link'[path[i]] = high_link[path[i]]
          /\ white'[path[i]] = white[path[i]]
      BY <3>2, <1>2, <1>3, <1>8
    <3>4. i < n => v \notin white[path[i + 1]]
      <4> SUFFICES ASSUME i < n PROVE v \notin white[path[i + 1]]
        OBVIOUS
      <4>1. i + 1 \in PathNodes /\ i + 1 \in 1 .. n /\ i < n + 1
        BY <3>2, <1>3
      <4>2. path'[i + 1] = path[i + 1] /\ white'[path[i + 1]] = white[path[i + 1]]
        BY <4>1, <1>2, <1>3, <1>8
      <4> QED
        BY <4>1, <4>2, <2>3, <1>3
    <3>5. high_link[v] <= high_link[path[i]]
      BY <3>2, <3>3, <3>4, <2>3 DEF Working, AtWork, RaisedInv, n
    <3> QED
      BY <3>1, <3>3, <3>5, <1>8
  <2> QED
    BY <2>1, <2>2, <2>3, <1>1, <1>5 DEF RaisedInv
<1>18. EmittedInv'
  <2>1. \A v \in Emitted : v \in Nodes /\ high_link'[v] = high_link[v]
    BY <1>2, <1>7 DEF Emitted, PendingFits, WhiteChain
  <2>2. /\ \A v \in Emitted : graph[v] \subseteq Emitted
        /\ Numbered(Emitted)
    BY DEF Working, AtWork, EmittedInv
  <2>3. \A v, w \in Emitted : high_link'[v] = high_link'[w] <=> SameComponent(graph, v, w)
    BY <2>1, <2>2 DEF Numbered
  <2>4. {high_link'[v] : v \in Emitted} = {high_link[v] : v \in Emitted}
    BY <2>1
  <2>5. \A v \in Emitted : \A w \in graph[v] : high_link'[w] <= high_link'[v]
    BY <2>1, <2>2 DEF Numbered
  <2> QED
    BY <2>2, <2>3, <2>4, <2>5, <1>1, <1>5 DEF EmittedInv, Numbered
<1>19. CellTypes'
  BY <1>1, <1>2, <1>6, <1>14 DEF CellTypes, Working
<1> QED
  BY <1>13, <1>14, <1>15, <1>16, <1>17, <1>18, <1>19 DEF AtWork

(* Taking a successor takes no other from any entry.                       *)
LEMMA ConsumedArcs ==
  ASSUME PathInv, AtArc
  PROVE  /\ Consumed \in Seq(Entry(graph)) /\ Len(Consumed) = Len(path)
         /\ Len(path) \in Nat \ {0}
         /\ \A i \in 1 .. Len(path) - 1 : Consumed[i] = stack[i]
         /\ \A i \in PathNodes :
              ToSet(stack[i].succs) \subseteq ToSet(Consumed[i].succs) \cup {Succ}
<1> DEFINE n == Len(stack)
           e == stack[n]
           f == [e EXCEPT !.succs = Tail(@)]
           s == SubSeq(stack, 1, n - 1)
<1>1. /\ Along(graph, stack, path, known) /\ Along(graph, Consumed, path, known)
      /\ path # << >> /\ path \in Seq(Nodes) /\ e.succs # << >>
  BY NextArc DEF Along, Nodes, AtArc, Top, Depth
<1>2. Len(path) \in Nat \ {0} /\ Len(path) = n /\ stack \in Seq(Entry(graph))
      /\ Consumed \in Seq(Entry(graph)) /\ Len(Consumed) = Len(path)
  BY <1>1, ListMembers DEF Along
<1>3. e \in Entry(graph) /\ e.succs \in Seq(DOMAIN graph)
  <2>1. n \in 1 .. n
    BY <1>2
  <2> QED
    BY <2>1, <1>2, ElementOfSeq DEF Entry
<1>4. f.succs = Tail(e.succs) /\ f \in Entry(graph)
  BY <1>1, <1>3, HeadTailProperties DEF Entry
<1>5. s \in Seq(Entry(graph)) /\ Len(s) = n - 1 /\ \A i \in 1 .. n - 1 : s[i] = stack[i]
  BY <1>2, SubSeqProperties
<1>6. Consumed = Append(s, f)
  BY DEF Consumed, Below, Top, Depth
<1>7. ToSet(e.succs) = {Succ} \cup ToSet(f.succs)
  BY <1>1, <1>3, <1>4, ToSetTail DEF Succ, Top, Depth
<1> HIDE DEF s, f, e, n
<1>8. Consumed[n] = f /\ \A i \in 1 .. n - 1 : Consumed[i] = stack[i]
  <2>1. /\ Consumed[n - 1 + 1] = f /\ \A i \in 1 .. n - 1 : Consumed[i] = s[i]
    BY <1>4, <1>5, <1>6, AppendProperties
  <2>2. n - 1 + 1 = n
    BY <1>2
  <2> QED
    BY <2>1, <2>2, <1>5
<1>9. ASSUME NEW i \in PathNodes
      PROVE  ToSet(stack[i].succs) \subseteq ToSet(Consumed[i].succs) \cup {Succ}
  <2>1. i = n \/ i \in 1 .. n - 1
    BY <1>2 DEF PathNodes
  <2>2. CASE i = n
    BY <2>2, <1>7, <1>8 DEF e
  <2>3. CASE i \in 1 .. n - 1
    BY <2>3, <1>8
  <2> QED
    BY <2>1, <2>2, <2>3
<1> QED
  BY <1>2, <1>8, <1>9

LEMMA PrevisitTarjan ==
  ASSUME Working, RootsLeft, PrevisitRoot \/ Previsit, OnPrevisit
  PROVE  AtWork' /\ RootsLeft' /\ CellTypes'
<1>1. CASE PrevisitRoot
  <2>1. /\ pc = "previsit" /\ stack = << >> /\ path = << >> /\ root \in Nodes
        /\ root \notin known
    BY <1>1 DEF PrevisitRoot, Working, FullVisit, PathInv, Shape, Quiet
  <2>2. Len(<< >>) = 0 /\ << >> \in Seq(Entry(graph)) /\ PathNodes = {}
    BY <2>1 DEF PathNodes
  <2>3. AtWork' /\ CellTypes'
    BY <1>1, <2>1, <2>2, EnterTarjan DEF PrevisitRoot
  <2>4. /\ known' = known \cup {root} /\ roots' = roots /\ pc' = "recurse"
        /\ Nodes' = Nodes
    BY <1>1 DEF PrevisitRoot, Enter, Marked, OnPrevisit, Goes, inputs, Nodes
  <2>5. RootsLeft'
    BY <2>1, <2>4 DEF RootsLeft
  <2> QED
    BY <2>3, <2>5
<1>2. CASE Previsit
  <2>1. /\ AtArc /\ pc = "recurse" /\ Succ \notin known /\ PathInv
        /\ Enter(Succ, curr, Depth, Consumed) /\ UNCHANGED inputs
    BY <1>2 DEF Previsit, AtArc, Working, FullVisit
  <2>2. Succ \in Nodes
    BY <2>1, NextArc
  <2>3. AtWork' /\ CellTypes'
    BY <2>1, <2>2, ConsumedArcs, EnterTarjan
  <2>4. /\ known \subseteq known' /\ roots' = roots /\ pc' = "recurse"
        /\ Nodes' = Nodes
    BY <1>2 DEF Previsit, Enter, Marked, OnPrevisit, Goes, inputs, Nodes
  <2>5. RootsLeft'
    BY <2>1, <2>4 DEF RootsLeft
  <2> QED
    BY <2>3, <2>5
<1> QED
  BY <1>1, <1>2

(* A link is between the timestamp of its node and the number of nodes.    *)
LEMMA LinkBounds ==
  ASSUME Working
  PROVE  \A v \in Pending :
           /\ Stamp(v) \in Nat /\ high_link[v] \in Nat
           /\ index < Stamp(v) /\ Stamp(v) <= high_link[v]
           /\ high_link[v] <= num_nodes
<1>1. PendingFits
  BY WorkingFits
<1>2. \A v \in Pending : Stamp(v) \in Nat /\ index < Stamp(v) /\ Stamp(v) <= num_nodes
  BY <1>1, Stamps DEF Working, AtWork, IndexInv
<1>3. \A v \in Pending : \E w \in Pending : high_link[v] = Stamp(w) /\ Stamp(v) <= Stamp(w)
  BY DEF Working, AtWork, LinkInv
<1> QED
  BY <1>2, <1>3

LEMMA FlagCleared ==
  ASSUME NEW s \in Seq(BOOLEAN), NEW k \in 1 .. Len(s)
  PROVE  /\ [s EXCEPT ![k] = FALSE] \in Seq(BOOLEAN)
         /\ Len([s EXCEPT ![k] = FALSE]) = Len(s)
         /\ [s EXCEPT ![k] = FALSE][k] = FALSE
         /\ \A j \in 1 .. Len(s) : j # k => [s EXCEPT ![k] = FALSE][j] = s[j]
<1>1. FALSE \in BOOLEAN
  OBVIOUS
<1>2. /\ [s EXCEPT ![k] = FALSE] \in Seq(BOOLEAN)
      /\ Len([s EXCEPT ![k] = FALSE]) = Len(s)
  <2> DEFINE B == BOOLEAN  b == FALSE
  <2>1. b \in B /\ s \in Seq(B)
    OBVIOUS
  <2> HIDE DEF B, b
  <2>2. [s EXCEPT ![k] = b] \in Seq(B) /\ Len([s EXCEPT ![k] = b]) = Len(s)
    BY <2>1, ExceptSeq
  <2> QED
    BY <2>2, Zenon DEF B, b
<1>3. s \in [1 .. Len(s) -> BOOLEAN]
  BY LenProperties, Zenon
<1>4. k \in DOMAIN s /\ \A j \in 1 .. Len(s) : j \in DOMAIN s
  BY <1>3, Zenon
<1>5. [s EXCEPT ![k] = FALSE][k] = FALSE
  BY <1>4, Zenon
<1>6. \A j \in 1 .. Len(s) : j # k => [s EXCEPT ![k] = FALSE][j] = s[j]
  BY <1>4, Zenon
<1> QED
  BY <1>2, <1>5, <1>6, Zenon

(* Raising the link of the last node of the path to that of a node it has  *)
(* an arc to, or leaving it because it is as high.                         *)
LEMMA RevisitRaised ==
  ASSUME Working, Revisit, ~broke', NEW l,
         high_link' = [high_link EXCEPT ![curr] = l],
         \/ l = high_link[curr] /\ high_link[Succ] <= l /\ lead' = lead
         \/ l = high_link[Succ] /\ high_link[curr] < l /\ lead' = LastUnset,
         UNCHANGED <<component_stack, index, root_low_link, number_of_components>>
  PROVE  AtWork' /\ CellTypes'
<1> DEFINE n == Len(path)
<1>1. /\ AtArc /\ pc = "recurse" /\ pc' = "recurse" /\ stack' = Consumed
      /\ UNCHANGED <<graph, known, path, white>> /\ Succ \in known /\ PathInv
  BY DEF Revisit, AtArc, Goes, inputs, Working, FullVisit
<1>2. /\ PendingFits /\ IsDigraph(graph) /\ path \in Seq(Nodes)
      /\ \A i \in PathNodes : path[i] \in Pending /\ path[i] \in known
      /\ \A i, j \in PathNodes : path[i] = path[j] => i = j
      /\ \A u \in Emitted : high_link[u] < index
      /\ index \in Nat /\ Pending \subseteq Nodes
  BY WorkingFits
<1>3. path # << >> /\ Succ \in graph[curr] /\ Succ \in Nodes /\ curr \in Nodes
  BY <1>1, NextArc
<1>4. n \in PathNodes /\ curr = path[n] /\ curr \in Pending /\ n \in Nat
  BY <1>1, <1>2, <1>3, PathFacts, ListMembers
<1>5. Nodes' = Nodes /\ num_nodes' = num_nodes /\ Pending' = Pending /\ Emitted' = Emitted
      /\ PathNodes' = PathNodes
  BY <1>1 DEF Nodes, num_nodes, Pending, Emitted, PathNodes
<1>6. \A v : Stamp(v)' = Stamp(v)
  BY <1>1, <1>5 DEF Stamp, Older
<1>7. high_link \in [Nodes -> Nat] /\ lead \in Seq(BOOLEAN) /\ Len(lead) = n + 1
      /\ lead[1] = TRUE
  BY DEF Working, CellTypes, AtWork, LeadInv
<1>8. high_link'[curr] = l /\ \A v \in Nodes : v # curr => high_link'[v] = high_link[v]
  BY <1>3, <1>7
<1>9. \A v \in Pending : /\ Stamp(v) \in Nat /\ high_link[v] \in Nat
                         /\ index < Stamp(v) /\ Stamp(v) <= high_link[v]
  BY LinkBounds
<1>10. Succ \in Pending \/ l = high_link[curr]
  <2>1. Succ \notin Pending => high_link[Succ] < index
    BY <1>1, <1>2 DEF Emitted
  <2>2. high_link[Succ] \in Nat
    BY <1>3, <1>7
  <2> QED
    BY <2>1, <2>2, <1>2, <1>4, <1>9
<1>11. /\ l \in Nat /\ high_link[curr] <= l /\ high_link[Succ] <= l
       /\ \A v \in Nodes : high_link'[v] \in Nat /\ high_link[v] <= high_link'[v]
  <2>1. l \in Nat /\ high_link[curr] <= l /\ high_link[Succ] <= l
    BY <1>3, <1>7
  <2> QED
    BY <2>1, <1>7, <1>8
<1>12. ToSet(component_stack') = ToSet(component_stack)
       /\ \A v \in ToSet(component_stack) : v \in Pending /\ v # curr
  <2>1. curr \in ToSet(path)
    BY <1>2, <1>4, ListMembers DEF PathNodes
  <2> QED
    BY <2>1 DEF Working, AtWork, StackInv, Pending
<1> HIDE DEF n
<1>13. StackInv'
  BY <1>1, <1>5 DEF Working, AtWork, StackInv
<1>14. LeadInv' /\ lead' \in Seq(BOOLEAN)
  <2>1. /\ lead' \in Seq(BOOLEAN) /\ Len(lead') = Len(lead)
        /\ \A i \in 1 .. n : lead'[i] = lead[i]
        /\ IF l = high_link[curr] THEN lead'[n + 1] = lead[n + 1] ELSE lead'[n + 1] = FALSE
    <3>1. CASE lead' = lead /\ l = high_link[curr]
      BY <3>1, <1>7, Zenon
    <3>2. CASE lead' = LastUnset /\ l # high_link[curr]
      <4>1. FALSE \in BOOLEAN /\ n + 1 \in 1 .. n + 1 /\ 1 .. n \subseteq 1 .. n + 1
            /\ n + 1 \notin 1 .. n
        BY <1>4
      <4>2. lead' = [lead EXCEPT ![n + 1] = FALSE]
        BY <3>2, <1>7 DEF LastUnset
      <4>3. lead' \in Seq(BOOLEAN) /\ Len(lead') = Len(lead) /\ lead'[n + 1] = FALSE
            /\ \A i \in 1 .. n + 1 : i # n + 1 => lead'[i] = lead[i]
        <5>1. n + 1 \in 1 .. Len(lead)
          BY <4>1, <1>7
        <5>2. lead \in Seq(BOOLEAN) /\ Len(lead) = n + 1
          BY <1>7
        <5> DEFINE t == [lead EXCEPT ![n + 1] = FALSE]
        <5>3. /\ t \in Seq(BOOLEAN) /\ Len(t) = Len(lead) /\ t[n + 1] = FALSE
              /\ \A j \in 1 .. Len(lead) : j # n + 1 => t[j] = lead[j]
          BY <5>1, <5>2, FlagCleared, Zenon
        <5>4. lead' = t
          BY <4>2
        <5> HIDE DEF t
        <5> QED
          BY <5>2, <5>3, <5>4, Zenon
      <4> QED
        BY <4>1, <4>3, <3>2, <1>7, Zenon
    <3>3. high_link[curr] < l => l # high_link[curr]
      BY <1>3, <1>7
    <3> QED
      BY <3>1, <3>2, <3>3, Zenon
  <2>2. ASSUME NEW i \in PathNodes
        PROVE  lead'[i + 1] <=> high_link'[path[i]] = Stamp(path[i])
    <3>1. lead[i + 1] <=> high_link[path[i]] = Stamp(path[i])
      BY DEF Working, AtWork, LeadInv
    <3>2. CASE i = n
      <4>1. CASE l = high_link[curr]
        <5>1. lead'[i + 1] = lead[i + 1]
          BY <3>2, <4>1, <2>1
        <5>2. high_link'[path[i]] = high_link[path[i]]
          BY <3>2, <4>1, <1>4, <1>8
        <5> QED
          BY <5>1, <5>2, <3>1, Zenon
      <4>2. CASE l # high_link[curr]
        BY <3>2, <4>2, <2>1, <1>4, <1>8, <1>9, <1>11
      <4> QED
        BY <4>1, <4>2
    <3>3. CASE i # n
      <4>1. i + 1 \in 1 .. n
        BY <3>3, <1>4 DEF PathNodes, n
      <4>2. path[i] # curr /\ path[i] \in Nodes
        BY <3>3, <1>2, <1>4
      <4> QED
        BY <4>1, <4>2, <3>1, <2>1, <1>8
    <3> QED
      BY <3>2, <3>3
  <2>3. lead'[1] = TRUE
    <3>1. 1 \in 1 .. n
      BY <1>4 DEF PathNodes, n
    <3> QED
      BY <3>1, <2>1, <1>7
  <2> QED
    BY <2>1, <2>2, <2>3, <1>1, <1>5, <1>6, <1>7 DEF LeadInv, n
<1>15. IndexInv'
  <2>1. \A v \in Nodes \ known : v # curr
    BY <1>2, <1>4
  <2> QED
    BY <2>1, <1>1, <1>5, <1>8 DEF Working, AtWork, IndexInv
<1>16. LinkInv'
  <2>1. ASSUME NEW v \in Pending
        PROVE  \E w \in Pending : high_link'[v] = Stamp(w) /\ Reaches(v, w)
                                  /\ Stamp(v) <= Stamp(w)
    <3>1. \A x \in Pending : \E w \in Pending :
            high_link[x] = Stamp(w) /\ Reaches(x, w) /\ Stamp(x) <= Stamp(w)
      BY DEF Working, AtWork, LinkInv
    <3>2. CASE high_link'[v] = high_link[v]
      BY <3>1, <3>2
    <3>3. CASE high_link'[v] # high_link[v]
      <4>1. v = curr /\ l # high_link[curr] /\ Succ \in Pending /\ l = high_link[Succ]
        BY <3>3, <1>2, <1>8, <1>10
      <4>2. PICK w \in Pending : high_link[Succ] = Stamp(w) /\ Reaches(Succ, w)
        BY <3>1, <4>1
      <4>3. Succ \in Reached(graph, {curr})
        BY <1>2, <1>3, Reaching DEF Nodes
      <4>4. Reaches(curr, w)
        BY <4>2, <4>3, <1>2, <1>3, ReachesFurther DEF Reaches, Nodes
      <4>5. Stamp(curr) <= Stamp(w)
        BY <4>1, <4>2, <1>4, <1>9, <1>11
      <4> QED
        BY <4>1, <4>2, <4>4, <4>5, <1>8
    <3> QED
      BY <3>2, <3>3
  <2>2. \A v \in ToSet(component_stack) : Stamp(v) < high_link'[v]
    BY <1>2, <1>8, <1>12 DEF Working, AtWork, LinkInv
  <2> QED
    BY <2>1, <2>2, <1>1, <1>5, <1>6, <1>12 DEF LinkInv, Reaches
<1>17. RaisedInv'
  <2>1. ASSUME NEW v \in ToSet(component_stack), NEW x \in graph[v] \cap Pending
        PROVE  Stamp(x) <= high_link'[v]
    BY <1>2, <1>8, <1>12 DEF Working, AtWork, RaisedInv
  <2>2. ASSUME NEW i \in PathNodes,
               NEW x \in (graph[path[i]] \ ToSet(Consumed[i].succs)) \cap Pending
        PROVE  Stamp(x) <= high_link'[path[i]]
    <3>1. x \notin ToSet(stack[i].succs) \/ x = Succ
      BY <1>1, ConsumedArcs
    <3>2. CASE x \notin ToSet(stack[i].succs)
      <4>1. Stamp(x) <= high_link[path[i]]
        BY <3>2, <1>1 DEF Working, AtWork, RaisedInv
      <4>2. path[i] \in Nodes /\ path[i] \in Pending
        BY <1>2
      <4> QED
        BY <4>1, <4>2, <1>7, <1>9, <1>11
    <3>3. CASE x = Succ /\ i = n
      BY <3>3, <1>4, <1>8, <1>9, <1>11
    <3>4. CASE x = Succ /\ i # n /\ x \in ToSet(stack[i].succs)
      <4>1. Consumed[i] = stack[i]
        <5>1. i \in 1 .. Len(stack) - 1
          BY <3>4, <1>1, <1>3, <1>4, PathFacts DEF PathNodes, n
        <5>2. stack \in Seq(Entry(graph)) /\ Len(stack) \in Nat
          BY <1>1, NextArc, LenProperties DEF Along
        <5>3. i \in 1 .. Len(SubSeq(stack, 1, Len(stack) - 1))
              /\ SubSeq(stack, 1, Len(stack) - 1)[i] = stack[i]
          BY <5>1, <5>2, SubSeqProperties
        <5>4. SubSeq(stack, 1, Len(stack) - 1) \in Seq(Entry(graph))
          BY <5>1, <5>2, SubSeqProperties
        <5>5. \A t : Append(SubSeq(stack, 1, Len(stack) - 1), t)[i] = stack[i]
          BY <5>3, <5>4
        <5> QED
          BY <5>5 DEF Consumed, Below, Depth
      <4> QED
        BY <4>1, <3>4
    <3> QED
      BY <3>1, <3>2, <3>3, <3>4
  <2>3. ASSUME NEW i \in PathNodes, NEW v \in ToSet(component_stack),
               v \in white[path[i]],
               i < Len(path) => v \notin white[path[i + 1]]
        PROVE  high_link'[v] <= high_link'[path[i]]
    <3>1. high_link[v] <= high_link[path[i]]
      BY <2>3 DEF Working, AtWork, RaisedInv
    <3>2. high_link'[v] = high_link[v] /\ path[i] \in Nodes /\ high_link[v] \in Nat
      BY <1>2, <1>7, <1>8, <1>12
    <3> QED
      BY <3>1, <3>2, <1>7, <1>11
  <2> QED
    BY <2>1, <2>2, <2>3, <1>1, <1>5, <1>6, <1>12 DEF RaisedInv
<1>18. EmittedInv'
  <2>1. \A v \in Emitted : v \in Nodes /\ high_link'[v] = high_link[v]
    BY <1>2, <1>4, <1>8 DEF Emitted, PendingFits, WhiteChain
  <2>2. /\ \A v \in Emitted : graph[v] \subseteq Emitted
        /\ Numbered(Emitted)
    BY DEF Working, AtWork, EmittedInv
  <2>3. \A v, w \in Emitted : high_link'[v] = high_link'[w] <=> SameComponent(graph, v, w)
    BY <2>1, <2>2 DEF Numbered
  <2>4. {high_link'[v] : v \in Emitted} = {high_link[v] : v \in Emitted}
    BY <2>1
  <2>5. \A v \in Emitted : \A w \in graph[v] : high_link'[w] <= high_link'[v]
    BY <2>1, <2>2 DEF Numbered
  <2> QED
    BY <2>2, <2>3, <2>4, <2>5, <1>1, <1>5 DEF EmittedInv, Numbered
<1>19. CellTypes'
  BY <1>1, <1>5, <1>7, <1>11, <1>14 DEF CellTypes, Working
<1> QED
  BY <1>13, <1>14, <1>15, <1>16, <1>17, <1>18, <1>19 DEF AtWork

(* With no number left all nodes are pending, and when a link leads to the *)
(* root all of them lie on a common cycle.                                 *)
LEMMA AllOneComponent ==
  ASSUME Working, pc = "recurse", path # << >>, index = 0,
         NEW x \in graph[curr] \cap known, high_link[x] = num_nodes
  PROVE  /\ Pending = Nodes /\ number_of_components = 0
         /\ \A u, v \in Nodes : SameComponent(graph, u, v)
<1>1. /\ PendingFits /\ IsDigraph(graph) /\ path \in Seq(Nodes)
      /\ \A i \in PathNodes : path[i] \in Pending /\ path[i] \in known
      /\ Pending \subseteq Nodes
  BY WorkingFits
<1>2. /\ Len(path) \in PathNodes /\ curr = path[Len(path)] /\ curr \in Pending
      /\ 1 \in PathNodes
      /\ \A i \in PathNodes : \A v \in known \cap white[path[i]] : Reaches(path[i], v)
      /\ \A i, j \in PathNodes : path[j] \in white[path[i]] <=> i <= j
      /\ \A v \in Pending : v \in white[path[1]]
      /\ \A v \in Pending : Stamp(v) = num_nodes <=> v = path[1]
  BY PathFacts
<1>3. /\ IsFiniteSet(Nodes) /\ IsFiniteSet(Pending) /\ Cardinality(Pending) \in Nat
      /\ num_nodes \in Nat
  BY <1>1, PendingCount
<1>4. Cardinality(Pending) = num_nodes
  BY <1>3 DEF Working, AtWork, IndexInv
<1>5. Pending = Nodes
  BY <1>1, <1>3, <1>4, FS_Subset DEF num_nodes
<1>6. Emitted = {} /\ Cardinality(Emitted) = 0 /\ known = Nodes
  <2>1. Emitted = {} /\ known = Nodes
    BY <1>1, <1>5 DEF Emitted, PendingFits, WhiteChain
  <2> QED
    BY <2>1, FS_EmptySet
<1>7. number_of_components = 0
  BY <1>6 DEF Working, AtWork, IndexInv, CellTypes
<1>8. Reaches(curr, path[1])
  <2>1. PICK w \in Pending : high_link[x] = Stamp(w) /\ Reaches(x, w)
    BY <1>5, <1>6 DEF Working, AtWork, LinkInv
  <2>2. w = path[1]
    BY <2>1, <1>2
  <2>3. x \in Reached(graph, {curr})
    BY <1>1, <1>2, Reaching DEF Nodes
  <2> QED
    BY <2>1, <2>2, <2>3, <1>1, <1>2, ReachesFurther DEF Reaches, Nodes
<1>9. \A v \in Nodes : Reaches(path[1], v)
  BY <1>2, <1>5, <1>6
<1>10. ASSUME NEW i \in PathNodes PROVE Reaches(path[i], path[1])
  <2>1. i <= Len(path)
    BY <1>2 DEF PathNodes
  <2>2. Reaches(path[i], curr)
    BY <2>1, <1>1, <1>2
  <2> QED
    BY <2>2, <1>1, <1>8, ReachesFurther DEF Reaches, Nodes
<1>11. \A v \in Pending : Reaches(v, path[1])
  <2>1. path[1] \in Nodes
    BY <1>1, <1>2
  <2>2. ASSUME NEW v \in Pending
        PROVE  \/ Reaches(v, path[1])
               \/ \E w \in Pending : Stamp(v) < Stamp(w) /\ Reaches(v, w)
    <3>1. CASE v \in ToSet(path)
      <4>1. PICK i \in PathNodes : v = path[i]
        BY <3>1, <1>1, ListMembers DEF PathNodes
      <4> QED
        BY <4>1, <1>10
    <3>2. CASE v \in ToSet(component_stack)
      BY <3>2 DEF Working, AtWork, LinkInv
    <3> QED
      BY <3>1, <3>2 DEF Pending
  <2> QED
    BY <2>1, <2>2, <1>1, LinksLeadTo
<1>12. ASSUME NEW u \in Nodes, NEW v \in Nodes PROVE SameComponent(graph, u, v)
  <2>1. Reaches(u, path[1]) /\ Reaches(v, path[1])
    BY <1>5, <1>11
  <2>2. Reaches(path[1], u) /\ Reaches(path[1], v)
    BY <1>9
  <2> QED
    BY <2>1, <2>2, <1>1, ReachesFurther DEF Reaches, Nodes, SameComponent
<1> QED
  BY <1>5, <1>7, <1>12

LEMMA RevisitTarjan ==
  ASSUME Working, RootsLeft, Revisit, OnRevisit
  PROVE  /\ CellTypes'
         /\ IF broke' THEN pc' = "idle" /\ ExitInv' ELSE AtWork' /\ RootsLeft'
<1> DEFINE l == high_link[Succ]
<1>1. /\ AtArc /\ pc = "recurse" /\ pc' = (IF broke' THEN "idle" ELSE "recurse")
      /\ UNCHANGED <<graph, known, path, white, roots>> /\ Succ \in known /\ PathInv
      /\ event'.pred = curr /\ event'.node = Succ /\ Nodes' = Nodes
  BY DEF Revisit, AtArc, Goes, inputs, Working, FullVisit, Nodes
<1>2. /\ UNCHANGED <<component_stack, index, root_low_link, number_of_components>>
      /\ IF high_link[curr] < l
         THEN /\ lead' = LastUnset /\ broke' = AllInOne(l)
              /\ high_link' =
                   [u \in Nodes |->
                      IF AllInOne(l) /\ (u = curr \/ u \in ToSet(component_stack))
                      THEN number_of_components
                      ELSE IF u = curr THEN l ELSE high_link[u]]
         ELSE broke' = FALSE /\ UNCHANGED <<lead, high_link>>
  BY <1>1 DEF OnRevisit
<1>3. path # << >> /\ Succ \in graph[curr] /\ Succ \in Nodes /\ curr \in Nodes
  BY <1>1, NextArc
<1>4. high_link \in [Nodes -> Nat] /\ lead \in Seq(BOOLEAN)
      /\ number_of_components \in Nat /\ component_stack \in Seq(Nodes)
  BY DEF Working, CellTypes
<1> HIDE DEF l
<1>5. CASE ~(high_link[curr] < l)
  <2>1. ~broke' /\ lead' = lead /\ high_link' = high_link
    BY <1>2, <1>5, Zenon
  <2>2. high_link' = [high_link EXCEPT ![curr] = high_link[curr]]
    BY <2>1, <1>4
  <2>3. high_link[Succ] <= high_link[curr]
    BY <1>3, <1>4, <1>5 DEF l
  <2>4. AtWork' /\ CellTypes'
    BY <2>1, <2>2, <2>3, <1>2, RevisitRaised
  <2>5. RootsLeft'
    BY <2>1, <1>1 DEF RootsLeft
  <2> QED
    BY <2>1, <2>4, <2>5
<1>6. CASE high_link[curr] < l /\ ~AllInOne(l)
  <2>1. ~broke' /\ lead' = LastUnset
        /\ high_link' = [u \in Nodes |-> IF u = curr THEN l ELSE high_link[u]]
    BY <1>2, <1>6
  <2>2. high_link' = [high_link EXCEPT ![curr] = l]
    BY <2>1, <1>4
  <2>3. AtWork' /\ CellTypes'
    BY <2>1, <2>2, <1>2, <1>6, RevisitRaised DEF l
  <2>4. RootsLeft'
    BY <2>1, <1>1 DEF RootsLeft
  <2> QED
    BY <2>1, <2>3, <2>4
<1>7. CASE high_link[curr] < l /\ AllInOne(l)
  <2>1. broke' /\ lead' = LastUnset
        /\ high_link' = [u \in Nodes |->
                           IF u = curr \/ u \in ToSet(component_stack)
                           THEN number_of_components ELSE high_link[u]]
    BY <1>2, <1>3, <1>7
  <2>2. index = 0 /\ l = num_nodes
    BY <1>1, <1>7 DEF AllInOne, Working, AtWork, IndexInv
  <2>3. /\ Pending = Nodes /\ number_of_components = 0
        /\ \A u, v \in Nodes : SameComponent(graph, u, v)
    BY <1>1, <1>3, <2>2, AllOneComponent DEF l
  <2>4. ToSet(Front(path)) = ToSet(path) \ {curr}
    <3>1. /\ Along(graph, stack, path, known) /\ IsDigraph(graph) /\ curr = Last(path)
          /\ stack # << >>
      BY <1>1, NextArc DEF Working, FullVisit, PathInv, Shape, AtArc
    <3> QED
      BY <3>1, AlongLeft
  <2>5. \A u \in Nodes : high_link'[u] = 0 \/ u \in ToSet(Front(path))
    BY <2>1, <2>3, <2>4 DEF Pending
  <2>6. ExitInv'
    BY <2>3, <2>5, <1>1, <1>2, <1>3 DEF ExitInv
  <2>7. CellTypes'
    <3>1. high_link' \in [Nodes -> Nat]
      BY <2>1, <1>4
    <3>2. Len(lead) \in 1 .. Len(lead)
      <4>1. path \in Seq(Nodes)
        BY WorkingFits
      <4>2. Len(path) \in Nat
        BY <4>1, ListMembers
      <4>3. Len(lead) = Len(path) + 1
        BY DEF Working, AtWork, LeadInv
      <4> QED
        BY <4>2, <4>3
    <3>3. lead' \in Seq(BOOLEAN)
      <4>1. [lead EXCEPT ![Len(lead)] = FALSE] \in Seq(BOOLEAN)
        BY <3>2, <1>4, FlagCleared, Zenon
      <4> QED
        BY <4>1, <2>1 DEF LastUnset
    <3> QED
      BY <3>1, <3>3, <1>1, <1>2, <1>4 DEF CellTypes
  <2> QED
    BY <2>1, <2>6, <2>7, <1>1
<1> QED
  BY <1>5, <1>6, <1>7

LEMMA FlagsPopped ==
  ASSUME NEW s \in Seq(BOOLEAN), NEW n \in Nat, Len(s) = n + 1
  PROVE  /\ Front(s) \in Seq(BOOLEAN) /\ Len(Front(s)) = n
         /\ \A i \in 1 .. n : Front(s)[i] = s[i]
         /\ Last(s) = s[n + 1]
<1> DEFINE B == BOOLEAN
<1>1. s \in Seq(B) /\ n + 1 - 1 = n
  OBVIOUS
<1> HIDE DEF B
<1>2. /\ SubSeq(s, 1, n) \in Seq(B) /\ Len(SubSeq(s, 1, n)) = n
      /\ \A i \in 1 .. n : SubSeq(s, 1, n)[i] = s[i]
  BY <1>1, SubSeqProperties
<1>3. Front(s) = SubSeq(s, 1, n) /\ Last(s) = s[n + 1]
  <2>1. Len(s) - 1 = n
    OBVIOUS
  <2> QED
    BY <2>1, Zenon DEF Front, Last
<1> QED
  BY <1>2, <1>3, Zenon DEF B

(* Leaving the last node of the path.                                      *)
LEMMA LeavesLast ==
  ASSUME Working, Postvisit, OnPostvisit, NEW n, n = Len(path)
  PROVE  /\ n \in Nat \ {0} /\ n \in PathNodes /\ curr = path[n]
         /\ pc = "recurse" /\ pc' = "recurse" /\ ~broke' /\ path # << >>
         /\ UNCHANGED <<graph, known, white, roots, accept, root_low_link>>
         /\ Nodes' = Nodes /\ num_nodes' = num_nodes
         /\ event'.node = curr
         /\ event'.pred = IF n = 1 THEN path[1] ELSE path[n - 1]
         /\ path' \in Seq(Nodes) /\ Len(path') = n - 1 /\ PathNodes' = 1 .. n - 1
         /\ ToSet(path') = ToSet(path) \ {curr}
         /\ \A i \in 1 .. n - 1 : i \in PathNodes /\ path'[i] = path[i] /\ stack'[i] = stack[i]
         /\ graph[curr] \subseteq known /\ stack[n].succs = << >>
         /\ PoppedLead \in Seq(BOOLEAN) /\ Len(PoppedLead) = n
         /\ \A i \in 1 .. n : PoppedLead[i] = lead[i]
         /\ Last(lead) <=> high_link[curr] = Stamp(curr)
<1>1. /\ pc = "recurse" /\ stack # << >> /\ stack[Len(stack)].succs = << >>
      /\ ~broke' /\ kind = "pred"
  BY DEF Postvisit, Top, Depth, OnPostvisit, Working, FullVisit
<1>2. /\ IsDigraph(graph) /\ Along(graph, stack, path, known)
      /\ ArcsLeft(graph, stack, path, known)
  BY <1>1, WhiteAtWork DEF Working, FullVisit
<1>3. path # << >> /\ ToSet(Front(path)) = ToSet(path) \ {Last(path)}
  BY <1>1, <1>2, AlongLeft
<1>4. /\ n \in PathNodes /\ curr = path[n] /\ Len(stack) = n
      /\ path \in Seq(Nodes) /\ n \in Nat \ {0}
  <2>1. path \in Seq(Nodes)
    BY WorkingFits
  <2> QED
    BY <2>1, <1>1, <1>3, PathFacts, ListMembers
<1>5. /\ pc' = "recurse" /\ path' = Front(path)
      /\ UNCHANGED <<graph, known, white, roots, accept, root_low_link>>
      /\ Nodes' = Nodes /\ num_nodes' = num_nodes
      /\ event'.node = curr /\ event'.pred = Top.parent
      /\ stack' = SubSeq(stack, 1, n - 1)
  <2>1. event' = Event("Postvisit", curr, Top.parent, Depth - 1)
    BY <1>1 DEF Postvisit
  <2>2. event'.node = curr /\ event'.pred = Top.parent
    BY <2>1 DEF Event
  <2> QED
    BY <2>2, <1>1, <1>3, <1>4 DEF Postvisit, OnPostvisit, Goes, inputs, Nodes, num_nodes, Below,
       Depth
<1>6. event'.pred = IF n = 1 THEN path[1] ELSE path[n - 1]
  BY <1>2, <1>4, <1>5 DEF Along, Top, Depth, PathNodes
<1>7. /\ path' \in Seq(Nodes) /\ Len(path') = n - 1
      /\ \A i \in 1 .. n - 1 : path'[i] = path[i]
  BY <1>4, <1>5, SubSeqProperties DEF Front
<1>8. \A i \in 1 .. n - 1 : stack'[i] = stack[i]
  <2>1. stack \in Seq(Entry(graph))
    BY <1>2 DEF Along
  <2> QED
    BY <2>1, <1>4, <1>5, SubSeqProperties
<1>9. ToSet(path') = ToSet(path) \ {curr}
  BY <1>3, <1>4, <1>5 DEF Last
<1>10. graph[curr] \subseteq known
  <2>1. ToSet(<< >>) = {}
    BY DEF ToSet
  <2> QED
    BY <2>1, <1>1, <1>2, <1>4 DEF ArcsLeft, PathNodes
<1>11. /\ lead \in Seq(BOOLEAN) /\ Len(lead) = n + 1
       /\ lead[n + 1] <=> high_link[curr] = Stamp(curr)
  <2>1. lead \in Seq(BOOLEAN) /\ Len(lead) = n + 1
    BY DEF Working, CellTypes, AtWork, LeadInv
  <2>2. lead[n + 1] <=> high_link[path[n]] = Stamp(path[n])
    BY <1>4 DEF Working, AtWork, LeadInv
  <2> QED
    BY <2>1, <2>2, <1>4, Zenon
<1>12. /\ PoppedLead \in Seq(BOOLEAN) /\ Len(PoppedLead) = n
       /\ \A i \in 1 .. n : PoppedLead[i] = lead[i]
       /\ Last(lead) = lead[n + 1]
  <2>1. n \in Nat
    BY <1>4
  <2> QED
    BY <2>1, <1>11, FlagsPopped, Zenon DEF PoppedLead
<1>13. PathNodes' = 1 .. n - 1 /\ \A i \in 1 .. n - 1 : i \in PathNodes
  BY <1>4, <1>7 DEF PathNodes
<1>14. Last(lead) <=> high_link[curr] = Stamp(curr)
  BY <1>11, <1>12, Zenon
<1> QED
  BY <1>1, <1>3, <1>4, <1>5, <1>6, <1>7, <1>8, <1>9, <1>10, <1>12, <1>13, <1>14

(* A node whose link leads further back stays, and hands its link on.      *)
LEMMA PostvisitKept ==
  ASSUME Working, Postvisit, OnPostvisit, ~Last(lead)
  PROVE  AtWork' /\ CellTypes'
<1> DEFINE n == Len(path)
           p == path[n - 1]
           l == high_link[curr]
<1>1. /\ n \in Nat \ {0} /\ n \in PathNodes /\ curr = path[n]
      /\ pc = "recurse" /\ pc' = "recurse" /\ ~broke' /\ path # << >>
      /\ UNCHANGED <<graph, known, white, roots, accept, root_low_link>>
      /\ Nodes' = Nodes /\ num_nodes' = num_nodes
      /\ event'.node = curr
      /\ event'.pred = IF n = 1 THEN path[1] ELSE path[n - 1]
      /\ path' \in Seq(Nodes) /\ Len(path') = n - 1 /\ PathNodes' = 1 .. n - 1
      /\ ToSet(path') = ToSet(path) \ {curr}
      /\ \A i \in 1 .. n - 1 : i \in PathNodes /\ path'[i] = path[i] /\ stack'[i] = stack[i]
      /\ graph[curr] \subseteq known /\ stack[n].succs = << >>
      /\ l # Stamp(curr)
  BY LeavesLast
<1>2. /\ PendingFits /\ IsDigraph(graph) /\ path \in Seq(Nodes)
      /\ \A i \in PathNodes : path[i] \in Pending /\ path[i] \in known
      /\ \A i, j \in PathNodes : path[i] = path[j] => i = j
      /\ index \in Nat /\ Pending \subseteq Nodes
  BY WorkingFits
<1>3. /\ \A i \in PathNodes : \A v \in known \cap white[path[i]] : Reaches(path[i], v)
      /\ \A i, j \in PathNodes : path[j] \in white[path[i]] <=> i <= j
      /\ \A v \in Pending : Stamp(v) = num_nodes <=> v = path[1]
  BY <1>1, PathFacts
<1>4. \A v \in Pending : /\ Stamp(v) \in Nat /\ high_link[v] \in Nat
                         /\ index < Stamp(v) /\ Stamp(v) <= high_link[v]
                         /\ high_link[v] <= num_nodes
  BY LinkBounds
<1>5. curr \in Pending /\ curr \in Nodes /\ curr \in known /\ Stamp(curr) < l /\ l \in Nat
  BY <1>1, <1>2, <1>4
<1>6. n # 1 /\ n - 1 \in 1 .. n - 1 /\ n - 1 \in PathNodes
  <2>1. n # 1
    <3> SUFFICES ASSUME n = 1 PROVE FALSE
      OBVIOUS
    <3>1. Stamp(curr) = num_nodes
      BY <1>1, <1>3, <1>5
    <3>2. l <= num_nodes
      BY <1>4, <1>5
    <3> QED
      BY <3>1, <3>2, <1>4, <1>5
  <2> QED
    BY <2>1, <1>1
<1>7. p \in Pending /\ p \in Nodes /\ p # curr /\ event'.pred = p
      /\ p \in known
  BY <1>1, <1>2, <1>6
<1>8. ToSet(component_stack) \cap ToSet(path) = {}
      /\ component_stack \in Seq(Nodes) /\ high_link \in [Nodes -> Nat]
      /\ number_of_components \in Nat
  BY DEF Working, AtWork, StackInv, CellTypes
<1>9. curr \in ToSet(path) /\ p \in ToSet(path)
  BY <1>1, <1>2, <1>6, ListMembers DEF PathNodes
<1>10. /\ component_stack' = Append(component_stack, curr)
       /\ UNCHANGED <<index, number_of_components>>
       /\ IF high_link[p] < l
          THEN /\ lead' = [PoppedLead EXCEPT ![Len(PoppedLead)] = FALSE]
               /\ high_link' = [high_link EXCEPT ![p] = l]
          ELSE lead' = PoppedLead /\ UNCHANGED high_link
  BY <1>1, <1>7, Zenon DEF OnPostvisit, l
<1>11. /\ \A v \in Nodes : v # p => high_link'[v] = high_link[v]
       /\ high_link' \in [Nodes -> Nat]
       /\ high_link[p] <= high_link'[p] /\ l <= high_link'[p]
       /\ high_link'[p] = high_link[p] \/ (high_link'[p] = l /\ high_link[p] < l)
       /\ \A v \in Nodes : high_link[v] <= high_link'[v]
  <2>1. high_link[p] \in Nat
    BY <1>7, <1>8
  <2>2. CASE high_link[p] < l
    <3>1. high_link' = [high_link EXCEPT ![p] = l]
      BY <2>2, <1>10
    <3> QED
      BY <2>1, <2>2, <3>1, <1>5, <1>7, <1>8
  <2>3. CASE ~(high_link[p] < l)
    <3>1. high_link' = high_link
      BY <2>3, <1>10
    <3> QED
      BY <2>1, <2>3, <3>1, <1>5, <1>7, <1>8
  <2> QED
    BY <2>2, <2>3
<1> HIDE DEF n, p, l
<1>12. /\ Len(component_stack) \in Nat
       /\ component_stack' \in Seq(Nodes)
       /\ DOMAIN component_stack = 1 .. Len(component_stack)
       /\ DOMAIN component_stack' = 1 .. Len(component_stack) + 1
       /\ \A a \in DOMAIN component_stack : component_stack'[a] = component_stack[a]
       /\ component_stack'[Len(component_stack) + 1] = curr
       /\ ToSet(component_stack') = ToSet(component_stack) \cup {curr}
  <2>1. component_stack' \in Seq(Nodes)
        /\ Len(component_stack') = Len(component_stack) + 1
        /\ component_stack'[Len(component_stack) + 1] = curr
        /\ \A a \in 1 .. Len(component_stack) : component_stack'[a] = component_stack[a]
    BY <1>5, <1>8, <1>10, AppendProperties
  <2>2. ToSet(component_stack') = ToSet(component_stack) \cup {curr}
    BY <1>5, <1>8, <1>10, AppendedSet
  <2>3. Len(component_stack) \in Nat /\ DOMAIN component_stack = 1 .. Len(component_stack)
    BY <1>8, ListMembers
  <2>4. DOMAIN component_stack' = 1 .. Len(component_stack')
    BY <2>1, ListMembers
  <2> QED
    BY <2>1, <2>2, <2>3, <2>4
<1>13. Pending' = Pending /\ Emitted' = Emitted
  BY <1>1, <1>9, <1>12 DEF Pending, Emitted
<1>14. \A v : Stamp(v)' = Stamp(v)
  BY <1>1, <1>13 DEF Stamp, Older
<1>15. /\ \A v \in ToSet(component_stack) : v \in Pending /\ v # p /\ v # curr
                                            /\ v \in Nodes /\ v \in known
       /\ high_link'[curr] = l
  BY <1>2, <1>5, <1>7, <1>8, <1>9, <1>11 DEF Pending, l, Working, AtWork, StackInv
<1>16. \A v \in ToSet(component_stack') : v \in Pending /\ v # p /\ high_link'[v] = high_link[v]
                                          /\ v \in Nodes
  BY <1>5, <1>7, <1>11, <1>12, <1>15
<1>17. StackInv'
  <2>1. \A a, b \in DOMAIN component_stack' :
          component_stack'[a] = component_stack'[b] => a = b
    <3>1. \A a \in DOMAIN component_stack :
            component_stack[a] \in ToSet(component_stack)
      BY DEF ToSet
    <3>2. \A a \in DOMAIN component_stack' :
            a \in DOMAIN component_stack \/ a = Len(component_stack) + 1
      BY <1>12
    <3>3. \A a, b \in DOMAIN component_stack :
            component_stack[a] = component_stack[b] => a = b
      BY DEF Working, AtWork, StackInv
    <3> SUFFICES ASSUME NEW a \in DOMAIN component_stack', NEW b \in DOMAIN component_stack',
                        component_stack'[a] = component_stack'[b]
                 PROVE  a = b
      OBVIOUS
    <3>4. CASE a \in DOMAIN component_stack /\ b \in DOMAIN component_stack
      <4>1. component_stack'[a] = component_stack[a] /\ component_stack'[b] = component_stack[b]
        BY <3>4, <1>12
      <4> QED
        BY <3>3, <3>4, <4>1
    <3>5. CASE a \notin DOMAIN component_stack \/ b \notin DOMAIN component_stack
      BY <3>1, <3>2, <3>5, <1>12, <1>15
    <3> QED
      BY <3>4, <3>5
  <2>2. ToSet(component_stack') \cap ToSet(path') = {}
    BY <1>1, <1>8, <1>12
  <2>3. ToSet(component_stack') \subseteq known
    BY <1>5, <1>12, <1>15
  <2>4. ASSUME NEW i \in 1 .. n - 1, NEW a \in DOMAIN component_stack',
               NEW b \in DOMAIN component_stack', a < b,
               component_stack'[a] \in white[path[i]]
        PROVE  component_stack'[b] \in white[path[i]]
    <3>1. a \in DOMAIN component_stack
      BY <2>4, <1>12
    <3>2. CASE b \in DOMAIN component_stack
      BY <3>1, <3>2, <2>4, <1>1, <1>12 DEF Working, AtWork, StackInv
    <3>3. CASE b = Len(component_stack) + 1
      <4>1. i <= n /\ i \in PathNodes
        BY <1>1
      <4> QED
        BY <4>1, <3>3, <1>1, <1>3, <1>12
    <3> QED
      BY <3>2, <3>3, <1>12
  <2>5. path' # << >> /\ path'[1] = path[1] /\ 1 \in 1 .. n - 1
    <3>1. Len(path') # 0 /\ 1 \in 1 .. n - 1
      BY <1>1, <1>6
    <3> QED
      BY <3>1, <1>1
  <2>6. ToSet(component_stack') \subseteq white[path[1]]
    <3>1. ToSet(component_stack) \subseteq white[path[1]]
      BY <1>1 DEF Working, AtWork, StackInv
    <3>2. curr \in white[path[1]]
      BY <2>5, <1>1, <1>3
    <3> QED
      BY <3>1, <3>2, <1>12
  <2> QED
    BY <2>1, <2>2, <2>3, <2>4, <2>5, <2>6, <1>1 DEF StackInv
<1>18. LeadInv' /\ lead' \in Seq(BOOLEAN)
  <2>1. /\ PoppedLead \in Seq(BOOLEAN) /\ Len(PoppedLead) = n
        /\ \A i \in 1 .. n : PoppedLead[i] = lead[i]
    BY LeavesLast DEF n
  <2>2. /\ lead' \in Seq(BOOLEAN) /\ Len(lead') = n
        /\ \A i \in 1 .. n : i # n => lead'[i] = lead[i]
        /\ IF high_link[p] < l THEN lead'[n] = FALSE ELSE lead'[n] = lead[n]
    <3>1. n \in 1 .. n
      BY <1>1
    <3>2. CASE high_link[p] < l
      <4> DEFINE t == [PoppedLead EXCEPT ![n] = FALSE]
      <4>1. n \in 1 .. Len(PoppedLead)
        BY <3>1, <2>1
      <4>2. /\ t \in Seq(BOOLEAN) /\ Len(t) = Len(PoppedLead) /\ t[n] = FALSE
            /\ \A i \in 1 .. Len(PoppedLead) : i # n => t[i] = PoppedLead[i]
        BY <4>1, <2>1, FlagCleared, Zenon
      <4>3. lead' = t
        BY <3>2, <2>1, <1>10
      <4> HIDE DEF t
      <4> QED
        BY <4>2, <4>3, <3>2, <2>1, Zenon
    <3>3. CASE ~(high_link[p] < l)
      <4>1. lead' = PoppedLead
        BY <3>3, <1>10, Zenon
      <4> QED
        BY <4>1, <3>1, <3>3, <2>1, Zenon
    <3> QED
      BY <3>2, <3>3
  <2>3. ASSUME NEW i \in 1 .. n - 1
        PROVE  lead'[i + 1] <=> high_link'[path[i]] = Stamp(path[i])
    <3>1. lead[i + 1] <=> high_link[path[i]] = Stamp(path[i])
      BY <1>1 DEF Working, AtWork, LeadInv
    <3>2. CASE i = n - 1 /\ high_link[p] < l
      <4>1. i + 1 = n /\ path[i] = p
        BY <3>2, <1>1 DEF p
      <4>2. lead'[n] = FALSE
        BY <3>2, <2>2
      <4>3. high_link'[p] # Stamp(p)
        BY <3>2, <1>4, <1>5, <1>7, <1>10, <1>11
      <4> QED
        BY <4>1, <4>2, <4>3, Zenon
    <3>3. CASE i # n - 1 \/ ~(high_link[p] < l)
      <4>1. lead'[i + 1] = lead[i + 1]
        <5>1. i + 1 \in 1 .. n /\ (i # n - 1 => i + 1 # n) /\ (i = n - 1 => i + 1 = n)
          BY <1>1
        <5> QED
          BY <5>1, <3>3, <2>2, Zenon
      <4>2. high_link'[path[i]] = high_link[path[i]]
        <5>1. CASE i # n - 1
          <6>1. path[i] # p /\ path[i] \in Nodes
            BY <5>1, <1>1, <1>2, <1>6 DEF p
          <6> QED
            BY <6>1, <1>11
        <5>2. CASE ~(high_link[p] < l)
          BY <5>2, <1>10
        <5> QED
          BY <5>1, <5>2, <3>3
      <4> QED
        BY <3>1, <4>1, <4>2, Zenon
    <3> QED
      BY <3>2, <3>3
  <2>4. lead'[1] = TRUE
    <3>1. 1 \in 1 .. n /\ 1 # n
      BY <1>1, <1>6
    <3>2. lead[1] = TRUE
      BY DEF Working, AtWork, LeadInv
    <3> QED
      BY <3>1, <3>2, <2>2, Zenon
  <2>5. \A i \in PathNodes' : (lead[i + 1] <=> high_link[path[i]] = Stamp(path[i]))'
    <3> SUFFICES ASSUME NEW i \in 1 .. n - 1
                 PROVE (lead[i + 1] <=> high_link[path[i]] = Stamp(path[i]))'
      BY <1>1
    <3>1. path'[i] = path[i]
      BY <1>1
    <3>2. Stamp(path[i])' = Stamp(path[i])
      BY <3>1, <1>1, <1>13 DEF Stamp, Older
    <3> QED
      BY <3>1, <3>2, <2>3
  <2>6. Len(lead') = Len(path') + 1
    BY <2>2, <1>1
  <2> QED
    BY <2>2, <2>4, <2>5, <2>6 DEF LeadInv
<1>19. IndexInv'
  <2>1. \A v \in Nodes \ known : v # p
    BY <1>7
  <2> QED
    BY <2>1, <1>1, <1>10, <1>11, <1>13 DEF Working, AtWork, IndexInv
<1>20. LinkInv'
  <2>1. ASSUME NEW v \in Pending
        PROVE  \E w \in Pending : high_link'[v] = Stamp(w) /\ Reaches(v, w)
                                  /\ Stamp(v) <= Stamp(w)
    <3>1. \A x \in Pending : \E w \in Pending :
            high_link[x] = Stamp(w) /\ Reaches(x, w) /\ Stamp(x) <= Stamp(w)
      BY DEF Working, AtWork, LinkInv
    <3>2. CASE high_link'[v] = high_link[v]
      BY <3>1, <3>2
    <3>3. CASE high_link'[v] # high_link[v]
      <4>1. v = p /\ high_link'[p] = l /\ high_link[p] < l
        BY <3>3, <1>2, <1>11
      <4>2. PICK w \in Pending : l = Stamp(w) /\ Reaches(curr, w)
        BY <3>1, <1>5 DEF l
      <4>3. Reaches(p, curr)
        <5>1. curr \in white[p]
          BY <1>1, <1>3, <1>6 DEF p
        <5> QED
          BY <5>1, <1>3, <1>5, <1>6 DEF p
      <4>4. Reaches(p, w)
        BY <4>2, <4>3, <1>2, <1>5, <1>7, ReachesFurther DEF Reaches, Nodes
      <4>5. Stamp(p) <= Stamp(w)
        BY <4>1, <4>2, <1>4, <1>5, <1>7
      <4> QED
        BY <4>1, <4>2, <4>4, <4>5
    <3> QED
      BY <3>2, <3>3
  <2>2. \A v \in ToSet(component_stack') : Stamp(v) < high_link'[v]
    BY <1>5, <1>12, <1>15, <1>16 DEF Working, AtWork, LinkInv
  <2> QED
    BY <2>1, <2>2, <1>1, <1>13, <1>14 DEF LinkInv, Reaches
<1>21. RaisedInv'
  <2>1. ASSUME NEW v \in ToSet(component_stack'), NEW x \in graph[v] \cap Pending
        PROVE  Stamp(x) <= high_link'[v]
    <3>1. CASE v \in ToSet(component_stack)
      BY <3>1, <1>15, <1>16 DEF Working, AtWork, RaisedInv
    <3>2. CASE v = curr
      <4>1. ToSet(stack[n].succs) = {}
        BY <1>1 DEF ToSet
      <4>2. x \in (graph[path[n]] \ ToSet(stack[n].succs)) \cap Pending
        BY <4>1, <3>2, <1>1
      <4>3. Stamp(x) <= high_link[path[n]]
        BY <4>2, <1>1 DEF Working, AtWork, RaisedInv
      <4> QED
        BY <4>3, <3>2, <1>1, <1>15 DEF l
    <3> QED
      BY <3>1, <3>2, <1>12
  <2>2. ASSUME NEW i \in 1 .. n - 1,
               NEW x \in (graph[path[i]] \ ToSet(stack[i].succs)) \cap Pending
        PROVE  Stamp(x) <= high_link'[path[i]]
    <3>1. Stamp(x) <= high_link[path[i]]
      BY <1>1 DEF Working, AtWork, RaisedInv
    <3>2. path[i] \in Nodes
      BY <1>1, <1>2
    <3> QED
      BY <3>1, <3>2, <1>4, <1>8, <1>11
  <2>3. ASSUME NEW i \in 1 .. n - 1, NEW v \in ToSet(component_stack'),
               v \in white[path[i]],
               i < n - 1 => v \notin white[path[i + 1]]
        PROVE  high_link'[v] <= high_link'[path[i]]
    <3>1. path[i] \in Nodes /\ i \in PathNodes
      BY <1>1, <1>2
    <3>2. CASE v = curr
      <4>1. i = n - 1
        <5> SUFFICES ASSUME i < n - 1 PROVE FALSE
          BY <1>1
        <5>1. i + 1 \in PathNodes /\ i + 1 <= n
          BY <1>1
        <5> QED
          BY <5>1, <3>2, <2>3, <1>1, <1>3
      <4> QED
        BY <4>1, <3>2, <1>11, <1>15 DEF p
    <3>3. CASE v \in ToSet(component_stack)
      <4>1. CASE i = n - 1 /\ v \in white[curr]
        <5>1. high_link[v] <= high_link[path[n]]
          BY <4>1, <3>3, <1>1 DEF Working, AtWork, RaisedInv, n
        <5> QED
          BY <5>1, <4>1, <1>1, <1>4, <1>5, <1>7, <1>8, <1>11, <1>15, <1>16 DEF p, l
      <4>2. CASE i < Len(path) => v \notin white[path[i + 1]]
        <5>1. high_link[v] <= high_link[path[i]]
          BY <4>2, <3>1, <3>3, <2>3 DEF Working, AtWork, RaisedInv
        <5> QED
          BY <5>1, <3>1, <1>8, <1>11, <1>15, <1>16
      <4>3. i = n - 1 \/ i < n - 1
        BY <1>1
      <4>4. i = n - 1 => i + 1 = n
        BY <1>1
      <4> QED
        BY <4>1, <4>2, <4>3, <4>4, <2>3, <1>1
    <3> QED
      BY <3>2, <3>3, <1>12
  <2> QED
    BY <2>1, <2>2, <2>3, <1>1, <1>13, <1>14 DEF RaisedInv
<1>22. EmittedInv'
  <2>1. \A v \in Emitted : v \in Nodes /\ high_link'[v] = high_link[v]
    BY <1>2, <1>7, <1>11 DEF Emitted, PendingFits, WhiteChain
  <2>2. /\ \A v \in Emitted : graph[v] \subseteq Emitted
        /\ Numbered(Emitted)
    BY DEF Working, AtWork, EmittedInv
  <2>3. \A v, w \in Emitted : high_link'[v] = high_link'[w] <=> SameComponent(graph, v, w)
    BY <2>1, <2>2 DEF Numbered
  <2>4. {high_link'[v] : v \in Emitted} = {high_link[v] : v \in Emitted}
    BY <2>1
  <2>5. \A v \in Emitted : \A w \in graph[v] : high_link'[w] <= high_link'[v]
    BY <2>1, <2>2 DEF Numbered
  <2> QED
    BY <2>2, <2>3, <2>4, <2>5, <1>1, <1>10, <1>13 DEF EmittedInv, Numbered
<1>23. CellTypes'
  BY <1>1, <1>8, <1>10, <1>11, <1>12, <1>18 DEF CellTypes
<1> QED
  BY <1>17, <1>18, <1>19, <1>20, <1>21, <1>22, <1>23 DEF AtWork

(* What a root of a component finds on top of the component stack are the  *)
(* pending nodes that were white when it was entered.                      *)
LEMMA KeptBelow ==
  ASSUME Working, pc = "recurse", path # << >>, high_link[curr] = Stamp(curr),
         NEW k, k = Kept(curr), NEW N, N = Len(component_stack)
  PROVE  /\ k \in 0 .. N /\ N \in Nat
         /\ \A i \in 1 .. N : component_stack[i] \in white[curr] <=> k < i
<1> DEFINE cs == component_stack
           above == {i \in DOMAIN cs : high_link[curr] < high_link[cs[i]]}
<1>1. /\ PendingFits /\ cs \in Seq(Nodes) /\ N \in Nat
      /\ DOMAIN cs = 1 .. N /\ ToSet(cs) \subseteq Pending
  BY WorkingFits, ListMembers DEF Working, CellTypes, Pending
<1>2. /\ Len(path) \in PathNodes /\ curr = path[Len(path)] /\ curr \in Pending
  BY PathFacts
<1>3. \A v \in Pending : /\ Stamp(v) \in Nat /\ high_link[v] \in Nat
                         /\ Stamp(v) <= high_link[v]
  BY LinkBounds
<1>4. ASSUME NEW i \in 1 .. N
      PROVE  i \in above <=> cs[i] \notin white[curr]
  <2>1. cs[i] \in ToSet(cs) /\ cs[i] \in Pending
    BY <1>1 DEF ToSet
  <2>2. CASE cs[i] \in white[curr]
    <3>1. ~(Len(path) < Len(path))
      BY <1>2 DEF PathNodes
    <3>2. high_link[cs[i]] <= high_link[curr]
      BY <3>1, <2>1, <2>2, <1>2 DEF Working, AtWork, RaisedInv
    <3> QED
      BY <3>2, <2>1, <2>2, <1>2, <1>3
  <2>3. CASE cs[i] \notin white[curr]
    <3>1. Stamp(curr) < Stamp(cs[i])
      BY <2>1, <2>3, <1>1, <1>2, <1>3, Stamps
    <3> QED
      BY <3>1, <2>1, <2>3, <1>1, <1>2, <1>3
  <2> QED
    BY <2>2, <2>3
<1>5. ASSUME NEW a \in 1 .. N, NEW b \in 1 .. N, a < b, b \in above
      PROVE  a \in above
  <2>1. cs[b] \notin white[curr]
    BY <1>4, <1>5
  <2>2. cs[a] \notin white[curr]
    BY <2>1, <1>1, <1>2, <1>5 DEF Working, AtWork, StackInv
  <2> QED
    BY <2>2, <1>4
<1>6. above \subseteq 1 .. N
  BY <1>1
<1>7. k = IF above = {} THEN 0 ELSE CHOOSE i \in above : \A j \in above : j <= i
  BY DEF Kept
<1> HIDE DEF above
<1>8. CASE above = {}
  BY <1>1, <1>4, <1>7, <1>8
<1>9. CASE above # {}
  <2> DEFINE R == {N - i : i \in above}
  <2>1. R \subseteq Nat /\ R # {}
    <3>1. \A i \in above : N - i \in Nat
      BY <1>1, <1>6
    <3> QED
      BY <3>1, <1>9
  <2> HIDE DEF R
  <2>2. Min(R) \in R /\ \A y \in R : Min(R) <= y
    BY <2>1, MinOfNat
  <2>3. \E i \in above : \A j \in above : j <= i
    <3>1. PICK i \in above : Min(R) = N - i
      BY <2>2 DEF R
    <3>2. \A j \in above : N - i <= N - j
      BY <2>2, <3>1 DEF R
    <3> QED
      BY <3>1, <3>2, <1>1, <1>6
  <2>4. k \in above /\ \A j \in above : j <= k
    BY <2>3, <1>7, <1>9
  <2>5. \A i \in 1 .. N : i \in above <=> ~(k < i)
    BY <2>4, <1>1, <1>5, <1>6
  <2> QED
    BY <2>4, <2>5, <1>1, <1>4, <1>6
<1> QED
  BY <1>8, <1>9

(* Such a root and those nodes are a component, with no arc to others that *)
(* are pending.                                                            *)
LEMMA RootOfComponent ==
  ASSUME Working, pc = "recurse", path # << >>, high_link[curr] = Stamp(curr),
         graph[curr] \subseteq known, stack[Len(path)].succs = << >>,
         NEW C, C = Pending \cap white[curr]
  PROVE  /\ curr \in C /\ C \subseteq Pending /\ C \subseteq ToSet(component_stack) \cup {curr}
         /\ \A u, v \in C : SameComponent(graph, u, v)
         /\ \A u \in C : graph[u] \subseteq Emitted \cup C
         /\ \A v \in Pending : v \in C <=> Stamp(v) <= Stamp(curr)
<1>1. /\ PendingFits /\ IsDigraph(graph) /\ path \in Seq(Nodes)
      /\ \A i \in PathNodes : path[i] \in Pending /\ path[i] \in known
      /\ Exhausted(graph, path, known) /\ Pending \subseteq Nodes
  BY WorkingFits
<1>2. /\ Len(path) \in PathNodes /\ curr = path[Len(path)] /\ curr \in Pending
      /\ \A i \in PathNodes : \A v \in known \cap white[path[i]] : Reaches(path[i], v)
      /\ \A i, j \in PathNodes : path[j] \in white[path[i]] <=> i <= j
  BY PathFacts
<1>3. \A v \in Pending : /\ Stamp(v) \in Nat /\ high_link[v] \in Nat
                         /\ Stamp(v) <= high_link[v]
  BY LinkBounds
<1>4. \A v \in Pending : v \in C <=> Stamp(v) <= Stamp(curr)
  BY <1>1, <1>2, Stamps
<1>5. curr \in C
  BY <1>2, <1>3, <1>4
<1>6. \A v \in C : v \in ToSet(path) => v = curr
  <2> SUFFICES ASSUME NEW v \in C, v \in ToSet(path) PROVE v = curr
    OBVIOUS
  <2>1. PICK j \in PathNodes : v = path[j]
    BY <1>1, ListMembers DEF PathNodes
  <2>2. Len(path) <= j
    BY <2>1, <1>2
  <2> QED
    BY <2>1, <2>2, <1>2 DEF PathNodes
<1>7. \A v \in C : v # curr => v \in ToSet(component_stack)
  BY <1>6 DEF Pending
<1>8. ASSUME NEW v \in C, v # curr
      PROVE  /\ high_link[v] <= Stamp(curr) /\ v \in ToSet(component_stack)
             /\ \E w \in C : Stamp(v) < Stamp(w) /\ Reaches(v, w)
  <2>1. v \in ToSet(component_stack) /\ v \in Pending
    BY <1>7, <1>8
  <2>2. high_link[v] <= high_link[curr]
    <3>1. ~(Len(path) < Len(path))
      BY <1>2 DEF PathNodes
    <3> QED
      BY <3>1, <2>1, <1>2 DEF Working, AtWork, RaisedInv
  <2>3. PICK w \in Pending : high_link[v] = Stamp(w) /\ Reaches(v, w)
    BY <2>1 DEF Working, AtWork, LinkInv
  <2>4. Stamp(v) < high_link[v]
    BY <2>1 DEF Working, AtWork, LinkInv
  <2>5. w \in C
    BY <2>2, <2>3, <1>3, <1>4
  <2> QED
    BY <2>1, <2>2, <2>3, <2>4, <2>5
<1>9. \A v \in C : Reaches(curr, v)
  BY <1>1, <1>2 DEF PendingFits
<1>10. \A v \in C : Reaches(v, curr)
  <2>1. curr \in Nodes /\ C \in SUBSET Pending
    BY <1>1, <1>2
  <2>2. \A v \in C : Reaches(v, curr) \/ \E w \in C : Stamp(v) < Stamp(w) /\ Reaches(v, w)
    BY <1>5, <1>8, <1>9
  <2> QED
    BY <2>1, <2>2, <1>1, LinksLeadTo
<1>11. ASSUME NEW u \in C, NEW v \in C PROVE SameComponent(graph, u, v)
  <2>1. SameComponent(graph, curr, u) /\ SameComponent(graph, curr, v)
    BY <1>9, <1>10 DEF SameComponent, Reaches
  <2> QED
    BY <2>1, <1>1, <1>5, SameComponentClass DEF Nodes
<1>12. ASSUME NEW u \in C, NEW x \in graph[u] PROVE x \in Emitted \cup C
  <2>1. x \in known
    <3>1. CASE u = curr
      BY <3>1
    <3>2. CASE u # curr
      <4>1. u \notin ToSet(path) /\ u \in known
        BY <3>2, <1>1, <1>6 DEF PendingFits
      <4> QED
        BY <4>1, <1>1 DEF Exhausted
    <3> QED
      BY <3>1, <3>2
  <2>2. CASE x \in Pending
    <3>1. Stamp(x) <= high_link[u]
      <4>1. CASE u = curr
        <5>1. ToSet(stack[Len(path)].succs) = {}
          BY DEF ToSet
        <5>2. x \in (graph[path[Len(path)]] \ ToSet(stack[Len(path)].succs)) \cap Pending
          BY <4>1, <5>1, <2>2, <1>2
        <5> QED
          BY <4>1, <5>2, <1>2 DEF Working, AtWork, RaisedInv
      <4>2. CASE u # curr
        BY <4>2, <2>2, <1>8 DEF Working, AtWork, RaisedInv
      <4> QED
        BY <4>1, <4>2
    <3>2. high_link[u] <= Stamp(curr)
      BY <1>2, <1>3, <1>8
    <3> QED
      BY <3>1, <3>2, <2>2, <1>2, <1>3, <1>4
  <2>3. CASE x \notin Pending
    BY <2>1, <2>3 DEF Emitted
  <2> QED
    BY <2>2, <2>3
<1> QED
  BY <1>4, <1>5, <1>7, <1>11, <1>12

(* A node whose link is its own timestamp is emitted with all that is      *)
(* pending and younger.                                                    *)
LEMMA PostvisitEmits ==
  ASSUME Working, Postvisit, OnPostvisit, Last(lead)
  PROVE  AtWork' /\ CellTypes'
<1> DEFINE n == Len(path)
           cs == component_stack
           N == Len(component_stack)
           k == Kept(curr)
           C == Pending \cap white[curr]
           noc == number_of_components
<1>1. /\ n \in Nat \ {0} /\ n \in PathNodes /\ curr = path[n]
      /\ pc = "recurse" /\ pc' = "recurse" /\ ~broke' /\ path # << >>
      /\ UNCHANGED <<graph, known, white, roots, accept, root_low_link>>
      /\ Nodes' = Nodes /\ num_nodes' = num_nodes
      /\ event'.node = curr
      /\ path' \in Seq(Nodes) /\ Len(path') = n - 1 /\ PathNodes' = 1 .. n - 1
      /\ ToSet(path') = ToSet(path) \ {curr}
      /\ \A i \in 1 .. n - 1 : i \in PathNodes /\ path'[i] = path[i] /\ stack'[i] = stack[i]
      /\ graph[curr] \subseteq known /\ stack[n].succs = << >>
      /\ high_link[curr] = Stamp(curr)
  BY LeavesLast
<1>2. /\ PendingFits /\ IsDigraph(graph) /\ path \in Seq(Nodes)
      /\ \A i \in PathNodes : path[i] \in Pending /\ path[i] \in known
      /\ \A i, j \in PathNodes : path[i] = path[j] => i = j
      /\ index \in Nat /\ Pending \subseteq Nodes
  BY WorkingFits
<1>3. /\ \A i, j \in PathNodes : path[j] \in white[path[i]] <=> i <= j
  BY <1>1, PathFacts
<1>4. \A v \in Pending : /\ Stamp(v) \in Nat /\ high_link[v] \in Nat
                         /\ index < Stamp(v) /\ Stamp(v) <= high_link[v]
  BY LinkBounds
<1>5. /\ k \in 0 .. N /\ N \in Nat
      /\ \A i \in 1 .. N : cs[i] \in white[curr] <=> k < i
  BY <1>1, KeptBelow
<1>6. /\ curr \in C /\ C \subseteq Pending /\ C \subseteq ToSet(cs) \cup {curr}
      /\ \A u, v \in C : SameComponent(graph, u, v)
      /\ \A u \in C : graph[u] \subseteq Emitted \cup C
      /\ \A v \in Pending : v \in C <=> Stamp(v) <= Stamp(curr)
  BY <1>1, RootOfComponent
<1>7. /\ cs \in Seq(Nodes) /\ high_link \in [Nodes -> Nat] /\ noc \in Nat
      /\ DOMAIN cs = 1 .. N /\ ToSet(cs) = {cs[i] : i \in 1 .. N}
      /\ ToSet(cs) \cap ToSet(path) = {} /\ ToSet(cs) \subseteq Pending
      /\ ToSet(path) \subseteq Pending /\ curr \in ToSet(path)
  <2>1. cs \in Seq(Nodes) /\ high_link \in [Nodes -> Nat] /\ noc \in Nat
        /\ ToSet(cs) \cap ToSet(path) = {}
    BY DEF Working, CellTypes, AtWork, StackInv
  <2>2. curr \in ToSet(path)
    BY <1>1, <1>2, ListMembers DEF PathNodes
  <2> QED
    BY <2>1, <2>2, ListMembers DEF Pending
<1>8. {cs[i] : i \in k + 1 .. N} \cup {curr} = C
  <2>1. ASSUME NEW i \in k + 1 .. N PROVE cs[i] \in C
    <3>1. i \in 1 .. N /\ k < i
      BY <1>5
    <3> QED
      BY <3>1, <1>5, <1>7
  <2>2. ASSUME NEW v \in C, v # curr PROVE \E i \in k + 1 .. N : v = cs[i]
    <3>1. PICK i \in 1 .. N : v = cs[i]
      BY <2>2, <1>6, <1>7
    <3>2. k < i
      BY <3>1, <2>2, <1>5
    <3>3. i \in k + 1 .. N
      BY <3>2, <1>5
    <3> QED
      BY <3>1, <3>3
  <2> HIDE DEF C, k, N, cs
  <2> QED
    BY <2>1, <2>2, <1>6
<1>9. /\ lead' = PoppedLead
      /\ cs' = SubSeq(cs, 1, k)
      /\ high_link' = [v \in Nodes |-> IF v \in C THEN noc ELSE high_link[v]]
      /\ index' = index + Cardinality(C)
      /\ noc' = noc + 1
  <2>1. /\ lead' = PoppedLead /\ cs' = SubSeq(cs, 1, k)
        /\ high_link' = [v \in Nodes |-> IF v \in {cs[i] : i \in k + 1 .. N} \cup {curr}
                                         THEN noc ELSE high_link[v]]
        /\ index' = GivenBack({cs[i] : i \in k + 1 .. N} \cup {curr})
        /\ noc' = noc + 1
    BY <1>1, Zenon DEF OnPostvisit
  <2> QED
    BY <2>1, <1>8 DEF GivenBack
<1>10. /\ cs' \in Seq(Nodes) /\ DOMAIN cs' = 1 .. k
       /\ \A i \in 1 .. k : cs'[i] = cs[i] /\ i \in 1 .. N
       /\ ToSet(cs') = ToSet(cs) \ C
  <2>1. cs' \in Seq(Nodes) /\ Len(cs') = k /\ \A i \in 1 .. k : cs'[i] = cs[i]
    BY <1>5, <1>7, <1>9, SubSeqProperties
  <2>2. DOMAIN cs' = 1 .. k /\ ToSet(cs') = {cs'[i] : i \in 1 .. k}
    BY <2>1, ListMembers
  <2>3. \A i \in 1 .. k : i \in 1 .. N
    BY <1>5
  <2>4. ASSUME NEW i \in 1 .. k PROVE cs[i] \in ToSet(cs) \ C
    <3>1. ~(k < i)
      BY <1>5
    <3> QED
      BY <3>1, <2>3, <1>5, <1>7
  <2>5. ASSUME NEW v \in ToSet(cs) \ C PROVE \E i \in 1 .. k : v = cs[i]
    <3>1. PICK i \in 1 .. N : v = cs[i]
      BY <1>7
    <3>2. ~(k < i)
      BY <3>1, <1>5, <1>7
    <3> QED
      BY <3>1, <3>2, <1>5
  <2> HIDE DEF C, k, N, cs
  <2> QED
    BY <2>1, <2>2, <2>3, <2>4, <2>5
<1> HIDE DEF n, k, N, C
<1>11. Pending' = Pending \ C /\ Emitted' = Emitted \cup C
  <2>1. ToSet(path') = ToSet(path) \ C
    BY <1>1, <1>6, <1>7
  <2>2. Pending' = Pending \ C
    BY <2>1, <1>10 DEF Pending
  <2> QED
    BY <2>2, <1>1, <1>2, <1>6 DEF Emitted, PendingFits
<1>12. \A v \in Pending' : v \in Pending /\ v \in Nodes /\ v \notin C
                           /\ high_link'[v] = high_link[v]
  BY <1>2, <1>9, <1>11
<1>13. \A v \in Pending' : Older(v)' = Older(v)
  <2> SUFFICES ASSUME NEW v \in Pending' PROVE Older(v)' = Older(v)
    OBVIOUS
  <2>1. ASSUME NEW w \in C, v \in white[w] PROVE FALSE
    <3>1. white[w] \subseteq white[curr]
      BY <2>1, <1>2, <1>6 DEF C, PendingFits, WhiteChain
    <3> QED
      BY <3>1, <2>1, <1>12 DEF C
  <2> QED
    BY <2>1, <1>1, <1>6, <1>11 DEF Older
<1>14. \A v \in Pending' : Stamp(v)' = Stamp(v)
  BY <1>1, <1>13 DEF Stamp
<1>15. \A i \in 1 .. n - 1 : path[i] \in Pending' /\ path[i] \in Nodes /\ path[i] \notin C
  <2> SUFFICES ASSUME NEW i \in 1 .. n - 1 PROVE path[i] \in Pending' /\ path[i] \in Nodes
    BY <1>12
  <2>1. path'[i] \in ToSet(path') /\ path'[i] = path[i]
    BY <1>1, ListMembers
  <2> QED
    BY <2>1, <1>12 DEF Pending
<1>16. StackInv'
  <2>1. \A a, b \in DOMAIN cs' : cs'[a] = cs'[b] => a = b
    BY <1>7, <1>10 DEF Working, AtWork, StackInv
  <2>2. ToSet(cs') \cap ToSet(path') = {} /\ ToSet(cs') \subseteq known'
    BY <1>1, <1>2, <1>7, <1>10 DEF PendingFits
  <2>3. ASSUME NEW i \in 1 .. n - 1, NEW a \in 1 .. k, NEW b \in 1 .. k, a < b,
               cs[a] \in white[path[i]]
        PROVE  cs[b] \in white[path[i]]
    BY <2>3, <1>1, <1>7, <1>10 DEF Working, AtWork, StackInv
  <2>4. CASE path' = << >>
    <3>1. n = 1
      BY <2>4, <1>1
    <3>2. ToSet(cs) \subseteq C
      BY <3>1, <1>1, <1>7 DEF C, Working, AtWork, StackInv
    <3>3. cs' = << >>
      <4>1. ToSet(cs') = {}
        BY <3>2, <1>10
      <4>2. \A i \in 1 .. k : cs'[i] \in ToSet(cs')
        BY <1>10 DEF ToSet
      <4>3. Len(cs') = 0
        <5>1. Len(cs') \in Nat /\ DOMAIN cs' = 1 .. Len(cs')
          BY <1>10, ListMembers
        <5>2. DOMAIN cs' = {}
          BY <4>1, <4>2, <1>10
        <5>3. 1 \notin 1 .. Len(cs')
          BY <5>1, <5>2
        <5> QED
          BY <5>1, <5>3
      <4> QED
        BY <4>3, <1>10, ListMembers
    <3> QED
      BY <2>1, <2>2, <2>3, <2>4, <3>3, <1>1, <1>10 DEF StackInv
  <2>5. CASE path' # << >>
    <3>1. 1 \in 1 .. n - 1
      <4>1. Len(path') # 0
        BY <2>5, <1>1, EmptySeq
      <4> QED
        BY <4>1, <1>1
    <3>2. ToSet(cs') \subseteq white[path[1]]
      BY <1>1, <1>10 DEF Working, AtWork, StackInv
    <3> QED
      BY <2>1, <2>2, <2>3, <2>5, <3>1, <3>2, <1>1, <1>10 DEF StackInv
  <2> QED
    BY <2>4, <2>5
<1>17. LeadInv' /\ lead' \in Seq(BOOLEAN)
  <2>1. /\ PoppedLead \in Seq(BOOLEAN) /\ Len(PoppedLead) = n
        /\ \A i \in 1 .. n : PoppedLead[i] = lead[i]
    BY LeavesLast DEF n
  <2>2. Len(lead') = Len(path') + 1 /\ lead' \in Seq(BOOLEAN)
    BY <2>1, <1>1, <1>9
  <2>3. lead'[1] = TRUE
    <3>1. 1 \in 1 .. n
      BY <1>1
    <3>2. lead[1] = TRUE
      BY DEF Working, AtWork, LeadInv
    <3> QED
      BY <3>1, <3>2, <2>1, <1>9, Zenon
  <2>4. ASSUME NEW i \in 1 .. n - 1
        PROVE  (lead[i + 1] <=> high_link[path[i]] = Stamp(path[i]))'
    <3>1. path'[i] = path[i] /\ i + 1 \in 1 .. n
      BY <1>1
    <3>2. Older(path[i])' = Older(path[i])
      <4>1. path[i] \in Pending'
        BY <1>15
      <4>2. \A w \in C : path[i] \notin white[w]
        <5> SUFFICES ASSUME NEW w \in C, path[i] \in white[w] PROVE FALSE
          OBVIOUS
        <5>1. white[w] \subseteq white[curr]
          BY <1>2, <1>6 DEF C, PendingFits, WhiteChain
        <5> QED
          BY <5>1, <4>1, <1>12 DEF C
      <4> QED
        BY <3>1, <4>2, <1>1, <1>6, <1>11 DEF Older
    <3>3. Stamp(path[i])' = Stamp(path[i])
      BY <3>2, <1>1 DEF Stamp
    <3>4. high_link'[path[i]] = high_link[path[i]]
      BY <1>12, <1>15
    <3>5. lead[i + 1] <=> high_link[path[i]] = Stamp(path[i])
      BY <1>1 DEF Working, AtWork, LeadInv
    <3>6. lead'[i + 1] = lead[i + 1]
      BY <3>1, <2>1, <1>9, Zenon
    <3> QED
      BY <3>1, <3>3, <3>4, <3>5, <3>6
  <2> QED
    BY <2>2, <2>3, <2>4, <1>1 DEF LeadInv
<1>18. /\ IsFiniteSet(C) /\ Cardinality(C) \in Nat \ {0}
       /\ Cardinality(Pending') = Cardinality(Pending) - Cardinality(C)
       /\ Cardinality(Emitted') = Cardinality(Emitted) + Cardinality(C)
       /\ Cardinality(Pending) \in Nat /\ Cardinality(Emitted) \in Nat
       /\ num_nodes \in Nat
  <2>1. /\ IsFiniteSet(Pending) /\ IsFiniteSet(known) /\ Cardinality(Pending) \in Nat
        /\ num_nodes \in Nat
    BY <1>2, PendingCount, FS_Subset DEF PendingFits, WhiteChain
  <2>2. IsFiniteSet(C) /\ IsFiniteSet(Emitted)
    BY <2>1, <1>6, FS_Subset DEF Emitted
  <2>3. Cardinality(C) \in Nat /\ Cardinality(Emitted) \in Nat /\ Cardinality(C) # 0
    BY <2>2, <1>6, FS_CardinalityType, FS_EmptySet
  <2>4. Pending \cap C = C /\ Emitted \cap C = {}
    BY <1>6 DEF Emitted
  <2>5. Cardinality(Pending \ C) = Cardinality(Pending) - Cardinality(C)
    BY <2>1, <2>4, FS_Difference
  <2>6. Cardinality(Emitted \cup C) = Cardinality(Emitted) + Cardinality(C)
    <3>1. Cardinality(Emitted \cup C) =
            Cardinality(Emitted) + Cardinality(C) - Cardinality(Emitted \cap C)
      BY <2>2, FS_Union
    <3>2. Cardinality(Emitted \cap C) = 0
      BY <2>4, FS_EmptySet
    <3> QED
      BY <3>1, <3>2, <2>3
  <2> QED
    BY <2>1, <2>2, <2>3, <2>5, <2>6, <1>11
<1>19. IndexInv'
  <2>1. index' = num_nodes' - Cardinality(Pending')
    BY <1>1, <1>9, <1>18 DEF Working, AtWork, IndexInv
  <2>2. noc' <= Cardinality(Emitted')
    BY <1>7, <1>9, <1>18 DEF Working, AtWork, IndexInv
  <2>3. \A v \in Nodes' \ known' : high_link'[v] = 0
    BY <1>1, <1>2, <1>6, <1>9 DEF Working, AtWork, IndexInv, PendingFits
  <2>4. root_low_link' = num_nodes'
    BY <1>1 DEF Working, AtWork, IndexInv
  <2> QED
    BY <2>1, <2>2, <2>3, <2>4 DEF IndexInv
<1>20. LinkInv'
  <2>1. ASSUME NEW v \in Pending'
        PROVE  \E w \in Pending' : high_link'[v] = Stamp(w)' /\ Reaches(v, w)'
                                   /\ Stamp(v)' <= Stamp(w)'
    <3>1. PICK w \in Pending : high_link[v] = Stamp(w) /\ Reaches(v, w)
                               /\ Stamp(v) <= Stamp(w)
      BY <1>12 DEF Working, AtWork, LinkInv
    <3>2. w \notin C
      <4>1. v \in Pending /\ ~(Stamp(v) <= Stamp(curr)) /\ curr \in Pending
        BY <1>6, <1>12
      <4>2. ~(Stamp(w) <= Stamp(curr))
        BY <3>1, <4>1, <1>4
      <4> QED
        BY <4>2, <3>1, <1>6
    <3>3. w \in Pending'
      BY <3>1, <3>2, <1>11
    <3>4. Reaches(v, w)'
      BY <3>1, <1>1 DEF Reaches
    <3> QED
      BY <3>1, <3>3, <3>4, <1>12, <1>14
  <2>2. ASSUME NEW v \in ToSet(cs') PROVE Stamp(v)' < high_link'[v]
    <3>1. v \in Pending' /\ v \in ToSet(cs)
      BY <1>10 DEF Pending
    <3> QED
      BY <3>1, <1>12, <1>14 DEF Working, AtWork, LinkInv
  <2> QED
    BY <2>1, <2>2 DEF LinkInv
<1>21. RaisedInv'
  <2>1. ASSUME NEW v \in ToSet(cs'), NEW x \in graph[v] \cap Pending'
        PROVE  Stamp(x)' <= high_link'[v]
    <3>1. v \in Pending' /\ v \in ToSet(cs)
      BY <1>10 DEF Pending
    <3>2. Stamp(x) <= high_link[v]
      BY <3>1, <1>12 DEF Working, AtWork, RaisedInv
    <3> QED
      BY <3>1, <3>2, <1>12, <1>14
  <2>2. ASSUME NEW i \in 1 .. n - 1,
               NEW x \in (graph[path[i]] \ ToSet(stack[i].succs)) \cap Pending'
        PROVE  Stamp(x)' <= high_link'[path[i]]
    <3>1. Stamp(x) <= high_link[path[i]]
      BY <1>1, <1>12 DEF Working, AtWork, RaisedInv
    <3> QED
      BY <3>1, <1>12, <1>14, <1>15
  <2>3. ASSUME NEW i \in 1 .. n - 1, NEW v \in ToSet(cs'),
               v \in white[path[i]],
               i < n - 1 => v \notin white[path[i + 1]]
        PROVE  high_link'[v] <= high_link'[path[i]]
    <3>1. v \in Pending' /\ v \in ToSet(cs) /\ v \in Pending /\ v \notin C
      BY <1>10, <1>12 DEF Pending
    <3>2. i < Len(path) => v \notin white[path[i + 1]]
      <4>1. v \notin white[path[n]]
        BY <3>1, <1>1 DEF C
      <4>2. i = n - 1 => i + 1 = n
        BY <1>1
      <4>3. i = n - 1 \/ i < n - 1
        BY <1>1
      <4> QED
        BY <4>1, <4>2, <4>3, <2>3
    <3>3. high_link[v] <= high_link[path[i]]
      BY <3>1, <3>2, <2>3, <1>1 DEF Working, AtWork, RaisedInv
    <3> QED
      BY <3>1, <3>3, <1>12, <1>15
  <2> QED
    BY <2>1, <2>2, <2>3, <1>1 DEF RaisedInv
<1>22. EmittedInv'
  <2>1. /\ \A v \in Emitted : graph[v] \subseteq Emitted
        /\ Numbered(Emitted)
    BY DEF Working, AtWork, EmittedInv
  <2>2. Emitted \cap C = {} /\ Emitted \subseteq Nodes /\ C \subseteq Nodes
    BY <1>2, <1>6 DEF Emitted, PendingFits, WhiteChain
  <2>3. \A v \in Emitted : high_link'[v] = high_link[v] /\ high_link[v] \in 0 .. noc - 1
    BY <2>1, <2>2, <1>9 DEF Numbered
  <2>4. \A v \in C : high_link'[v] = noc
    BY <2>2, <1>9
  <2>5. ASSUME NEW v \in Emitted, NEW w \in C PROVE ~SameComponent(graph, v, w)
                                                    /\ ~SameComponent(graph, w, v)
    <3>1. Reached(graph, {v}) \subseteq Emitted
      BY <2>1, <2>2, <1>2, Reaching DEF Nodes
    <3> QED
      BY <3>1, <2>2 DEF SameComponent
  <2>6. \A v \in Emitted \cup C : graph[v] \subseteq Emitted \cup C
    BY <2>1, <1>6
  <2>7. ASSUME NEW v \in Emitted \cup C, NEW w \in Emitted \cup C
        PROVE  high_link'[v] = high_link'[w] <=> SameComponent(graph, v, w)
    <3>1. CASE v \in Emitted /\ w \in Emitted
      BY <3>1, <2>1, <2>3 DEF Numbered
    <3>2. CASE v \in C /\ w \in C
      BY <3>2, <2>4, <1>6
    <3>3. CASE v \in Emitted /\ w \in C
      BY <3>3, <2>3, <2>4, <2>5, <1>7
    <3>4. CASE v \in C /\ w \in Emitted
      BY <3>4, <2>3, <2>4, <2>5, <1>7
    <3> QED
      BY <3>1, <3>2, <3>3, <3>4
  <2>8. {high_link'[v] : v \in Emitted \cup C} = 0 .. noc' - 1
    <3>1. {high_link'[v] : v \in Emitted \cup C} = {high_link[v] : v \in Emitted} \cup {noc}
      BY <2>3, <2>4, <1>6
    <3>2. {high_link[v] : v \in Emitted} = 0 .. noc - 1
      BY <2>1 DEF Numbered
    <3>3. 0 .. noc' - 1 = (0 .. noc - 1) \cup {noc}
      BY <1>7, <1>9
    <3> QED
      BY <3>1, <3>2, <3>3
  <2>9. ASSUME NEW v \in Emitted \cup C, NEW w \in graph[v]
        PROVE  high_link'[w] <= high_link'[v]
    <3>1. w \in Emitted \cup C
      BY <2>6
    <3>2. CASE v \in Emitted
      <4>1. w \in Emitted /\ high_link[w] <= high_link[v]
        BY <3>2, <2>1 DEF Numbered
      <4> QED
        BY <4>1, <3>2, <2>3
    <3>3. CASE v \in C
      BY <3>1, <3>3, <2>3, <2>4, <1>7
    <3> QED
      BY <3>2, <3>3
  <2> QED
    BY <2>6, <2>7, <2>8, <2>9, <1>1, <1>11 DEF EmittedInv, Numbered
<1>23. CellTypes'
  <2>1. high_link' \in [Nodes -> Nat] /\ noc' \in Nat
    BY <1>7, <1>9
  <2> QED
    BY <2>1, <1>1, <1>10, <1>17 DEF CellTypes
<1> QED
  BY <1>16, <1>17, <1>19, <1>20, <1>21, <1>22, <1>23 DEF AtWork

(* Every step of the visit with its callback.                              *)
LEMMA VisitStepTarjan ==
  ASSUME Working, RootsLeft, VisitTarjan
  PROVE  /\ CellTypes'
         /\ IF broke' THEN pc' = "idle" /\ ExitInv' ELSE AtWork' /\ RootsLeft'
<1>1. kind = "pred" /\ PathInv /\ Full
  BY DEF Working, FullVisit
<1>2. NoEvent.type = "none"
  BY DEF NoEvent
<1>3. CASE SkipRoot \/ EndRoots \/ DoneRoot
  <2>1. event'.type \in {"none", "end", "Done"}
    BY <1>2, <1>3 DEF SkipRoot, EndRoots, DoneRoot
  <2>2. ~broke' /\ UNCHANGED callback
    BY <2>1 DEF VisitTarjan, OnInit, OnPrevisit, OnRevisit, OnPostvisit, OnOther
  <2> QED
    BY <2>2, <1>3, RootsTarjan
<1>4. CASE InitRoot
  <2>1. event'.type = "Init"
    BY <1>4 DEF InitRoot
  <2>2. OnInit /\ ~broke'
    BY <2>1 DEF VisitTarjan, OnInit, OnPrevisit, OnRevisit, OnPostvisit, OnOther
  <2> QED
    BY <2>2, <1>4, InitTarjan
<1>5. CASE PrevisitRoot \/ Previsit
  <2>1. event'.type = "Previsit"
    BY <1>5 DEF PrevisitRoot, Previsit, Enter, Event
  <2>2. OnPrevisit /\ ~broke'
    BY <2>1 DEF VisitTarjan, OnInit, OnPrevisit, OnRevisit, OnPostvisit, OnOther
  <2> QED
    BY <2>2, <1>5, PrevisitTarjan
<1>6. CASE Revisit
  <2>1. event'.type = "Revisit"
    BY <1>6 DEF Revisit
  <2>2. OnRevisit
    BY <2>1 DEF VisitTarjan, OnInit, OnPrevisit, OnPostvisit, OnOther
  <2> QED
    BY <2>2, <1>6, RevisitTarjan
<1>7. CASE Ignore
  BY <1>1, <1>7, FullAccepts DEF Ignore
<1>8. CASE Postvisit
  <2>1. event'.type = "Postvisit"
    BY <1>1, <1>8 DEF Postvisit, Event
  <2>2. OnPostvisit /\ ~broke'
    BY <2>1 DEF VisitTarjan, OnInit, OnPrevisit, OnRevisit, OnPostvisit, OnOther
  <2>3. AtWork' /\ CellTypes'
    BY <2>2, <1>8, PostvisitKept, PostvisitEmits
  <2>4. RootsLeft'
    <3>1. pc = "recurse" /\ pc' = "recurse" /\ UNCHANGED <<roots, known>> /\ Nodes' = Nodes
      BY <1>8, <2>2, LeavesLast
    <3> QED
      BY <3>1 DEF RootsLeft
  <2> QED
    BY <2>2, <2>3, <2>4
<1> QED
  BY <1>3, <1>4, <1>5, <1>6, <1>7, <1>8 DEF VisitTarjan, DfsStep

(* The first step: nothing is known.                                       *)
LEMMA StartTarjanInv ==
  ASSUME FullVisit, TarjanInv, StartTarjan
  PROVE  TarjanInv'
<1>1. /\ pc = "idle" /\ ~broke /\ path = << >> /\ known = {}
      /\ component_stack = << >> /\ lead = <<TRUE>> /\ index = num_nodes
      /\ number_of_components = 0 /\ high_link = [u \in Nodes |-> 0]
      /\ CellTypes
  BY DEF TarjanInv, StartTarjan
<1>2. /\ pc' = "roots" /\ roots' = AllNodes /\ broke' = FALSE /\ path' = << >>
      /\ UNCHANGED <<graph, known, white>> /\ UNCHANGED callback /\ phase' = "visit"
      /\ Nodes' = Nodes /\ num_nodes' = num_nodes
  BY DEF StartTarjan, StartVisit, inputs, Nodes, num_nodes
<1>3. ToSet(<< >>) = {} /\ Len(<< >>) = 0 /\ 1 .. 0 = {} /\ DOMAIN << >> = {}
  BY EmptySeq DEF ToSet
<1>4. Pending' = {} /\ Emitted' = {} /\ PathNodes' = {}
      /\ IsDigraph(graph)
  BY <1>1, <1>2, <1>3 DEF Pending, Emitted, PathNodes, callback, FullVisit, PathInv, Shape
<1>5. num_nodes \in Nat /\ Cardinality({}) = 0
  BY <1>4, FS_CardinalityType, FS_EmptySet DEF IsDigraph, Nodes, num_nodes
<1>6. StackInv'
  BY <1>1, <1>2, <1>3, <1>4 DEF StackInv, callback
<1>7. LeadInv'
  <2>1. lead' = <<TRUE>> /\ Len(<<TRUE>>) = 1 /\ <<TRUE>>[1] = TRUE
    BY <1>1, <1>2 DEF callback
  <2>2. Len(lead') = Len(path') + 1
    BY <2>1, <1>2, <1>3
  <2> QED
    BY <2>1, <2>2, <1>4 DEF LeadInv
<1>8. IndexInv'
  BY <1>1, <1>2, <1>4, <1>5 DEF IndexInv, callback
<1>9. LinkInv' /\ RaisedInv'
  BY <1>1, <1>2, <1>3, <1>4 DEF LinkInv, RaisedInv, callback
<1>10. EmittedInv'
  <2>1. 0 .. 0 - 1 = {}
    OBVIOUS
  <2> QED
    BY <2>1, <1>1, <1>2, <1>4 DEF EmittedInv, Numbered, callback
<1>11. RootsLeft'
  BY <1>2, <1>4, AllNodesListed DEF RootsLeft
<1>12. CellTypes'
  BY <1>1, <1>2 DEF CellTypes, callback
<1> QED
  BY <1>2, <1>6, <1>7, <1>8, <1>9, <1>10, <1>11, <1>12 DEF TarjanInv, AtWork

LEMMA CompleteTarjanInv ==
  ASSUME FullVisit, TarjanInv, CompleteTarjan
  PROVE  TarjanInv'
<1>1. /\ phase = "visit" /\ pc = "idle" /\ phase' = "done" /\ CellTypes
      /\ UNCHANGED <<dfsVars, lead, component_stack>>
      /\ UNCHANGED graph /\ Nodes' = Nodes
  BY DEF CompleteTarjan, dfsVars, inputs, Nodes, TarjanInv
<1>2. CASE broke
  <2>1. /\ path # << >> /\ number_of_components = 0
        /\ \A u, v \in Nodes : SameComponent(graph, u, v)
        /\ \A u \in Nodes : high_link[u] = 0 \/ u \in ToSet(Front(path))
    BY <1>1, <1>2 DEF TarjanInv, ExitInv
  <2>2. /\ high_link' = [u \in Nodes |-> IF u \in Rest THEN number_of_components
                                         ELSE high_link[u]]
        /\ number_of_components' = number_of_components + 1
    BY <1>2 DEF CompleteTarjan
  <2>3. Along(graph, stack, path, known) /\ path \in Seq(Nodes)
    BY <1>1, <1>2, <2>1 DEF FullVisit, PathInv, Active, OnPath, Along, Nodes
  <2>4. Rest = ToSet(Front(path))
    <3>1. StackNodes = Reverse(Front(path))
      BY <1>2, <2>1, BackwardsFromInv DEF FullVisit, StackAfterBreak
    <3>2. Front(path) \in Seq(Nodes)
      <4>1. Len(path) - 1 \in Nat
        BY <2>1, <2>3, ListMembers
      <4> QED
        BY <4>1, <2>3, SubSeqProperties DEF Front
    <3> DEFINE s == Front(path)  m == Len(s)  r == Reverse(s)
    <3>3. /\ m \in Nat /\ DOMAIN s = 1 .. m /\ ToSet(s) = {s[i] : i \in 1 .. m}
      BY <3>2, ListMembers
    <3> HIDE DEF s, m
    <3>4. r = [i \in 1 .. m |-> s[m - i + 1]]
      BY DEF Reverse, m
    <3>5. \A i \in 1 .. m : m - i + 1 \in 1 .. m /\ m - (m - i + 1) + 1 = i
      BY <3>3
    <3>6. ToSet(r) = {r[i] : i \in 1 .. m}
      BY <3>4 DEF ToSet
    <3>7. ToSet(r) = ToSet(s)
      BY <3>3, <3>4, <3>5, <3>6
    <3> QED
      BY <3>1, <3>7 DEF Rest, s
  <2>5. \A u \in Nodes : high_link'[u] = 0
    BY <2>1, <2>2, <2>4
  <2>6. Range(high_link') = {0} /\ DOMAIN high_link' = Nodes
    <3>1. Nodes # {}
      <4>1. 1 \in 1 .. Len(path)
        BY <2>1, <2>3, ListMembers
      <4> QED
        BY <4>1, <2>3, ElementOfSeq
    <3> QED
      BY <3>1, <2>2, <2>5 DEF Range
  <2>7. number_of_components' - 1 = 0 /\ 0 .. 0 = {0}
    BY <2>1, <2>2
  <2>8. \A u \in Nodes : graph[u] \subseteq Nodes
    BY GraphLists DEF FullVisit, PathInv, Shape, Nodes
  <2>9. ResultExact'
    BY <2>1, <2>5, <2>6, <2>7, <2>8, <1>1 DEF ResultExact
  <2>10. CellTypes'
    BY <2>1, <2>2, <1>1 DEF CellTypes
  <2> QED
    BY <2>9, <2>10, <1>1 DEF TarjanInv
<1>3. CASE ~broke
  <2>1. AtWork /\ RootsLeft /\ UNCHANGED <<high_link, number_of_components>>
    BY <1>1, <1>3 DEF TarjanInv, CompleteTarjan
  <2>2. Nodes \subseteq known
    BY <2>1, <1>1 DEF RootsLeft
  <2>3. path = << >>
    BY <1>1, <1>3 DEF FullVisit, WhiteInv, MetSoFar
  <2>4. Pending = {}
    BY <2>1, <2>3, <1>1, <1>3, NothingPending DEF Working
  <2>5. Emitted = Nodes
    BY <2>2, <2>4 DEF Emitted, FullVisit, WhiteChain
  <2>6. Numbered(Nodes)
    BY <2>1, <2>5 DEF AtWork, EmittedInv
  <2>7. Range(high_link) = {high_link[u] : u \in Nodes}
    BY <1>1 DEF Range, CellTypes
  <2>8. ResultExact'
    BY <2>1, <2>6, <2>7, <1>1 DEF Numbered, ResultExact
  <2>9. CellTypes'
    BY <2>1, <1>1 DEF CellTypes
  <2> QED
    BY <2>8, <2>9, <1>1 DEF TarjanInv
<1> QED
  BY <1>2, <1>3

(* The inductive invariant of Tarjan's algorithm.                          *)
TarjanAll == graph \in Graphs /\ FullVisit /\ TarjanInv

LEMMA TarjanInitInv == TarjanInit => TarjanAll
<1> SUFFICES ASSUME TarjanInit PROVE TarjanAll
  OBVIOUS
<1>1. DfsInit(Graphs, {"pred"}, {NoFilter}) /\ graph \in Graphs
  BY DEF TarjanInit, DfsInit
<1>2. PathInv /\ WhiteInv /\ IsDigraph(graph)
  BY <1>1, InitPathInv, InitWhite, SeqDfsAssumption
<1>3. WhiteChain /\ Full /\ kind = "pred"
  BY <1>1 DEF DfsInit, WhiteChain, Full
<1>4. num_nodes \in Nat
  BY <1>2, FS_CardinalityType DEF IsDigraph, Nodes, num_nodes
<1>5. CellTypes
  <2>1. << >> \in Seq(Nodes) /\ high_link \in [Nodes -> Nat]
    BY DEF TarjanInit
  <2>2. <<TRUE>> \in Seq(BOOLEAN)
    OBVIOUS
  <2> QED
    BY <2>1, <2>2 DEF CellTypes, TarjanInit
<1>6. TarjanInv
  BY <1>1, <1>5 DEF TarjanInv, TarjanInit, DfsInit
<1> QED
  BY <1>1, <1>2, <1>3, <1>6 DEF TarjanAll, FullVisit

LEMMA TarjanNextInv == TarjanAll /\ [TarjanNext]_tarjanVars => TarjanAll'
<1> SUFFICES ASSUME TarjanAll, [TarjanNext]_tarjanVars PROVE TarjanAll'
  OBVIOUS
<1>1. FullVisit /\ TarjanInv /\ graph \in Graphs
  BY DEF TarjanAll
<1>2. CASE StartTarjan
  <2>1. phase = "start" /\ ~broke /\ \E rs : StartVisit(rs)
    BY <1>2, <1>1 DEF StartTarjan, TarjanInv
  <2>2. PathInv'
    <3>1. StartVisit(AllNodes) /\ AllNodes \in Seq(Nodes)
      BY <1>1, <1>2, SeqDfsAssumption, AllNodesListed DEF StartTarjan
    <3> QED
      BY <1>1, <2>1, <3>1, StartPath DEF FullVisit
  <2>3. WhiteInv'
    BY <1>1, <2>1, OutsideWhite DEF FullVisit
  <2>4. UNCHANGED <<inputs, graph, kind, accept, known, white>> /\ Nodes' = Nodes
    BY <2>1 DEF StartVisit, inputs, Nodes
  <2>5. WhiteChain' /\ Full' /\ kind' = "pred" /\ graph' \in Graphs
    BY <1>1, <2>4 DEF FullVisit, WhiteChain, Full, NoFilter, num_nodes
  <2> QED
    BY <1>1, <1>2, <2>2, <2>3, <2>5, StartTarjanInv DEF TarjanAll, FullVisit
<1>3. CASE VisitTarjan
  <2>1. phase = "visit" /\ phase' = "visit" /\ DfsStep
    BY <1>3 DEF VisitTarjan
  <2>2. pc # "idle"
    BY <2>1 DEF DfsStep, SkipRoot, InitRoot, PrevisitRoot, EndRoots, Revisit, Ignore,
         Previsit, Postvisit, DoneRoot, AtArc
  <2>3. ~broke /\ AtWork /\ RootsLeft /\ CellTypes
    BY <1>1, <2>1, <2>2 DEF TarjanInv
  <2>4. CellTypes' /\ IF broke' THEN pc' = "idle" /\ ExitInv' ELSE AtWork' /\ RootsLeft'
    BY <1>1, <1>3, <2>3, VisitStepTarjan DEF Working
  <2>5. TarjanInv'
    BY <2>1, <2>4 DEF TarjanInv
  <2>6. PathInv' /\ WhiteInv' /\ WhiteChain'
    BY <1>1, <2>1, DfsStepPath, DfsStepWhite, ChainStep DEF FullVisit
  <2>7. UNCHANGED <<graph, kind, accept>>
    BY <2>1 DEF DfsStep, SkipRoot, InitRoot, PrevisitRoot, EndRoots, Revisit, Ignore,
         Previsit, Postvisit, DoneRoot, inputs
  <2> QED
    BY <1>1, <2>5, <2>6, <2>7 DEF TarjanAll, FullVisit, Full, NoFilter, num_nodes, Nodes
<1>4. CASE CompleteTarjan
  <2>1. UNCHANGED dfsVars
    BY <1>4 DEF CompleteTarjan
  <2>2. TarjanInv'
    BY <1>1, <1>4, CompleteTarjanInv
  <2>3. FullVisit' /\ graph' \in Graphs
    BY <1>1, <2>1 DEF FullVisit, dfsVars, inputs, PathInv, Shape, Quiet, Active, OnPath,
       WhiteInv, MetSoFar, WhiteChain, Full, NoFilter, num_nodes, Nodes
  <2> QED
    BY <2>2, <2>3 DEF TarjanAll
<1>5. CASE UNCHANGED tarjanVars
  <2>1. UNCHANGED dfsVars /\ UNCHANGED <<phase, lead, component_stack, high_link, index,
                 root_low_link, number_of_components>>
    BY <1>5 DEF tarjanVars, callback
  <2>2. FullVisit' /\ graph' \in Graphs
    BY <1>1, <2>1 DEF FullVisit, dfsVars, inputs, PathInv, Shape, Quiet, Active, OnPath,
       WhiteInv, MetSoFar, WhiteChain, Full, NoFilter, num_nodes, Nodes
  <2>3. /\ UNCHANGED <<graph, pc, root, roots, broke, path, known, white, stack>> /\ Nodes' = Nodes
        /\ num_nodes' = num_nodes
    BY <2>1 DEF dfsVars, inputs, Nodes, num_nodes
  <2>4. CellTypes' /\ ResultExact' = ResultExact /\ ExitInv' = ExitInv /\ RootsLeft' = RootsLeft
    BY <1>1, <2>1, <2>3 DEF TarjanInv, CellTypes, ResultExact, ExitInv, RootsLeft
  <2>5. AtWork => AtWork'
    <3> SUFFICES ASSUME AtWork PROVE AtWork'
      OBVIOUS
    <3>1. Pending' = Pending /\ PathNodes' = PathNodes
      BY <2>1, <2>3 DEF Pending, PathNodes
    <3>2. \A u : Stamp(u)' = Stamp(u)
      BY <2>3, <3>1 DEF Stamp, Older
    <3>3. RaisedArcs' /\ LowLink'
      BY <2>1, <2>3, <3>1, <3>2 DEF AtWork, RaisedInv, IndexInv, RaisedArcs, LowLink
    <3> QED
      BY <2>1, <2>3, <3>3, SameCells
  <2>6. TarjanInv'
    BY <1>1, <2>1, <2>3, <2>4, <2>5 DEF TarjanInv
  <2> QED
    BY <2>2, <2>6 DEF TarjanAll
<1> QED
  BY <1>2, <1>3, <1>4, <1>5 DEF TarjanNext

LEMMA LinksAreInOrder == TarjanAll => LeadFollowsPath /\ LowerThanIndex
<1> SUFFICES ASSUME TarjanAll, phase = "visit", ~broke
             PROVE  /\ Len(lead) = Len(path) + 1
                    /\ \A u \in Nodes : IF u \in Pending THEN high_link[u] > index
                                        ELSE high_link[u] < index
  BY DEF LeadFollowsPath, LowerThanIndex
<1>1. Working
  BY DEF TarjanAll, TarjanInv, Working
<1>2. Len(lead) = Len(path) + 1
  BY <1>1 DEF Working, AtWork, LeadInv
<1>3. PendingFits /\ index \in Nat /\ \A u \in Emitted : high_link[u] < index
  BY <1>1, WorkingFits
<1>4. ASSUME NEW u \in Pending PROVE high_link[u] > index
  <2>1. Stamp(u) \in Nat /\ high_link[u] \in Nat /\ index < Stamp(u)
        /\ Stamp(u) <= high_link[u]
    BY <1>1, LinkBounds
  <2> QED
    BY <2>1, <1>3
<1>5. ASSUME NEW u \in Nodes \ known PROVE high_link[u] < index
  <2>1. high_link[u] = 0 /\ index = num_nodes - Cardinality(Pending)
    BY <1>1 DEF Working, AtWork, IndexInv
  <2>2. IsFiniteSet(Nodes) /\ Pending \subseteq Nodes /\ u \notin Pending
    BY <1>3, PendingCount DEF PendingFits, WhiteChain
  <2>3. Cardinality(Pending) < num_nodes /\ Cardinality(Pending) \in Nat /\ num_nodes \in Nat
    BY <2>2, CountStrict DEF num_nodes
  <2> QED
    BY <2>1, <2>3
<1> QED
  BY <1>2, <1>3, <1>4, <1>5 DEF Emitted

(* Tarjan's algorithm, with timestamps that are given back and with the    *)
(* early exit (scc/tarjan.rs), numbers the strongly connected components   *)
(* of every graph: two nodes get one number exactly when they lie on a     *)
(* common cycle, the numbers are dense, and arcs lead to lower ones.  At   *)
(* any time the flags follow the visit path, so that the unwraps of the    *)
(* callback are safe, and index lies between the links of emitted and of   *)
(* pending nodes, so that a single array can hold both.                    *)
THEOREM TarjanIsExact == TarjanSpec => []TarjanExact
<1>1. TarjanInit => TarjanAll
  BY TarjanInitInv
<1>2. TarjanAll /\ [TarjanNext]_tarjanVars => TarjanAll'
  BY TarjanNextInv
<1>3. TarjanAll => TarjanExact
  BY LinksAreInOrder DEF TarjanExact, TarjanAll, TarjanInv, ResultExact
<1> QED
  BY <1>1, <1>2, <1>3, PTL DEF TarjanSpec

-----------------------------------------------------------------------------
(* A visit of all nodes, whatever its kind.  What was left before a node   *)
(* was entered, and was known by then, has no arc to what was white.       *)
Left == known \ ToSet(path)
ApartInv ==
  ~broke => \A i \in PathNodes : \A x \in Left :
    x \in white[path[i]] \/ graph[x] \cap white[path[i]] = {}

(* The tree of a root: what was met since, and what was there before.      *)
TreeInv ==
  pc = "recurse" =>
    /\ root \in known /\ root \in Nodes
    /\ path # << >> => path[1] = root
    /\ known \cap white[root] \subseteq Reached(Within(graph, white[root]), {root})
    /\ \A u \in Nodes \ white[root] : u \in known /\ graph[u] \cap white[root] = {}

FullRun ==
  /\ PathInv /\ WhiteInv /\ WhiteChain /\ Full /\ pc # "order"
  /\ ApartInv /\ TreeInv

(* The roots are taken from a list of all nodes.                           *)
Turns == IF algorithm = "kosaraju" /\ stage = "label" THEN 1 ELSE 0
RootList == IF algorithm = "kosaraju" /\ stage = "label" THEN order ELSE AllNodes
Taken == num_nodes - Len(roots)
RootsTaken ==
  /\ Len(roots) \in 0 .. num_nodes
  /\ \A k \in 1 .. Len(roots) : roots[k] = RootList[Taken + k]
  /\ pc = "idle" => roots = << >>
  /\ pc \in {"idle", "roots"} => \A k \in 1 .. Taken : RootList[k] \in known
  /\ pc \in {"previsit", "recurse"} =>
       /\ Taken > 0 /\ root = RootList[Taken]
       /\ \A k \in 1 .. Taken - 1 : RootList[k] \in known
  /\ pc = "recurse" => \A k \in 1 .. Taken - 1 : RootList[k] \notin white[root]
ListsAll(s) ==
  /\ s \in [1 .. num_nodes -> Nodes]
  /\ \A u \in Nodes : \E k \in 1 .. num_nodes : s[k] = u
RootsInv ==
  /\ ListsAll(RootList)
  /\ IF visits = Turns THEN pc = "idle" /\ known = {} /\ ~broke /\ path = << >>
     ELSE visits = Turns + 1 /\ (~broke => RootsTaken)

-----------------------------------------------------------------------------
(* The order in which nodes are left, from the last place of order down.   *)
PlacedIn(s, n, V, g, k) ==
  /\ s \in [1 .. n -> V \cup {Unwritten}]
  /\ \A i, j \in k + 1 .. n : s[i] = s[j] => i = j
  /\ \A i \in k + 1 .. n : s[i] \in V
  /\ Acyclic(g) => \A i \in k + 1 .. n : \A v \in g[s[i]] : \E j \in i + 1 .. n : s[j] = v
  /\ \A i \in k + 1 .. n : \E W \in SUBSET V :
       /\ s[i] \in W
       /\ \A j \in i .. n : IF s[j] \in W THEN s[j] \in Reached(g, {s[i]})
                            ELSE g[s[j]] \cap W = {}
Placed(g, k) == PlacedIn(order, num_nodes, Nodes, g, k)
OrderInv ==
  /\ pos = num_nodes - Cardinality(Left)
  /\ {order[i] : i \in pos + 1 .. num_nodes} = Left
  /\ Placed(graph, pos)

(* What was left lies on no cycle.                                         *)
CycleInv ==
  IF broke THEN ~acyclic /\ ~Acyclic(graph)
  ELSE /\ acyclic
       /\ \A u \in Left : graph[u] \subseteq Left /\ u \notin Reached(graph, graph[u])
       /\ pc = "recurse" => \A i \in PathNodes :
            \A v \in graph[path[i]] \ ToSet(stack[i].succs) :
              v \in Left \/ (i < Len(path) /\ v = path[i + 1])

(* Trees that are complete have been numbered.                             *)
Labelled(S) ==
  /\ \A u, v \in S : components[u] = components[v] <=> SameComponent(input, u, v)
  /\ {components[u] : u \in S} = Components
  /\ \A u \in S : \A v \in graph[u] : components[v] <= components[u]
LabelInv ==
  /\ components \in [Nodes -> Nat \cup {Unwritten}] /\ num_components \in Nat
  /\ IF pc = "recurse"
     THEN /\ Labelled(Nodes \ white[root])
          /\ \A u \in known \cap white[root] : components[u] = num_components
     ELSE Labelled(known)

Frame ==
  /\ algorithm \in {"top_sort", "is_acyclic", "symm_seq", "kosaraju"}
  /\ stage \in {"order", "label", "done", "sorted"}
  /\ IsDigraph(input) /\ DOMAIN input = Nodes
  /\ stage = "order" => algorithm # "symm_seq" /\ graph = input
  /\ stage = "label" => algorithm \in {"symm_seq", "kosaraju"} /\ graph = Transposed(input)
  /\ stage = "label" /\ algorithm = "symm_seq" => graph = input
  /\ algorithm = "is_acyclic" => kind = "path"
  /\ stage = "order" /\ algorithm # "is_acyclic" => kind = "pred"
  /\ stage = "label" => kind = "nopred"
  /\ broke => algorithm = "is_acyclic"
  /\ stage = "sorted" => algorithm \in {"symm_seq", "kosaraju"}

AlgorithmInv ==
  /\ Frame /\ FullRun
  /\ stage \in {"order", "label"} => RootsInv
  /\ stage = "order" =>
       /\ components \in [Nodes -> Nat \cup {Unwritten}] /\ num_components = 0
       /\ algorithm = "is_acyclic" => CycleInv
       /\ algorithm # "is_acyclic" => OrderInv
  /\ stage = "label" => LabelInv /\ (algorithm = "kosaraju" => Placed(input, 0))
  /\ stage \in {"done", "sorted"} =>
       /\ visits > 0 /\ pc = "idle" /\ num_components \in Nat /\ DOMAIN components = Nodes
       /\ OrdersExact /\ SccsExact

-----------------------------------------------------------------------------
LEMMA FullFacts ==
  ASSUME FullRun, ~broke
  PROVE  /\ IsDigraph(graph) /\ IsFiniteSet(Nodes) /\ num_nodes \in Nat
         /\ path \in Seq(Nodes) /\ Len(path) \in Nat
         /\ ToSet(path) = {path[i] : i \in PathNodes}
         /\ \A i \in PathNodes : path[i] \in known /\ path[i] \in Nodes
         /\ \A i, j \in PathNodes : path[i] = path[j] => i = j
         /\ known \subseteq Nodes /\ Left \subseteq Nodes /\ known = Left \cup ToSet(path)
         /\ Exhausted(graph, path, known)
<1>1. /\ IsDigraph(graph) /\ Exhausted(graph, path, known) /\ known \subseteq Nodes
      /\ pc # "recurse" => path = << >>
      /\ pc = "recurse" => Along(graph, stack, path, known)
  BY DEF FullRun, PathInv, Shape, WhiteInv, MetSoFar, Active, OnPath, WhiteChain
<1>2. /\ path \in Seq(Nodes) /\ \A i \in PathNodes : path[i] \in known
      /\ \A i, j \in PathNodes : path[i] = path[j] => i = j
  <2>1. CASE pc = "recurse"
    BY <2>1, <1>1 DEF Along, Nodes, PathNodes
  <2>2. CASE pc # "recurse"
    <3>1. path = << >> /\ Len(<< >>) = 0 /\ 1 .. 0 = {}
      BY <2>2, <1>1
    <3>2. << >> \in Seq(Nodes)
      OBVIOUS
    <3> QED
      BY <3>1, <3>2 DEF PathNodes
  <2> QED
    BY <2>1, <2>2
<1>3. Len(path) \in Nat /\ ToSet(path) = {path[i] : i \in PathNodes}
  BY <1>2, ListMembers DEF PathNodes
<1>4. known = Left \cup ToSet(path)
  BY <1>2, <1>3 DEF Left
<1>5. IsFiniteSet(Nodes) /\ num_nodes \in Nat
  BY <1>1, FS_CardinalityType DEF IsDigraph, Nodes, num_nodes
<1> QED
  BY <1>1, <1>2, <1>3, <1>4, <1>5 DEF Left

(* A step into a node, or one that leaves the last node of the path, or    *)
(* one that changes neither path nor nodes.                                *)
Entered(u) ==
  /\ u \in Nodes \ known /\ ~broke' /\ pc' = "recurse"
  /\ path' = Append(path, u) /\ known' = known \cup {u} /\ Left' = Left
  /\ white' = [white EXCEPT ![u] = Nodes \ known]
  /\ Len(path') = Len(path) + 1 /\ path'[Len(path) + 1] = u
  /\ \A i \in PathNodes : path'[i] = path[i] /\ white'[path[i]] = white[path[i]]
  /\ root' = root

LEMMA StepEnters ==
  ASSUME FullRun, PrevisitRoot \/ Previsit, ~broke'
  PROVE  \E u \in Nodes : /\ Entered(u) /\ event'.type = "Previsit" /\ event'.node = u
                          /\ PrevisitRoot => u = root /\ path = << >>
                          /\ Previsit => u = Succ /\ path # << >>
<1>1. /\ graph' = graph /\ Nodes' = Nodes /\ root' = root
  BY DEF PrevisitRoot, Previsit, Enter, inputs, Nodes
<1>2. ~broke
  BY DEF PrevisitRoot, Previsit, AtArc, FullRun, PathInv, Shape
<1>3. PICK u \in Nodes : /\ u \notin known /\ \E p, d, below : Enter(u, p, d, below)
                         /\ PrevisitRoot => u = root /\ path = << >>
                         /\ Previsit => u = Succ /\ path # << >>
  <2>1. CASE PrevisitRoot
    <3>1. pc = "previsit" /\ root \in Nodes /\ root \notin known /\ path = << >>
          /\ Enter(root, root, 0, stack) /\ ~AtArc
      BY <2>1 DEF PrevisitRoot, FullRun, PathInv, Shape, Quiet, AtArc
    <3> QED
      BY <3>1 DEF Previsit
  <2>2. CASE Previsit
    <3>1. Succ \in Nodes /\ path # << >> /\ Succ \notin known /\ AtArc
          /\ Enter(Succ, curr, Depth, Consumed)
      BY <2>2, NextArc DEF FullRun, Previsit
    <3>2. ~PrevisitRoot
      BY <3>1 DEF PrevisitRoot, AtArc
    <3> QED
      BY <3>1, <3>2
  <2> QED
    BY <2>1, <2>2
<1>4. /\ known' = known \cup {u} /\ white' = [white EXCEPT ![u] = Nodes \ known]
      /\ path' = Append(path, u) /\ pc' = "recurse"
      /\ event'.type = "Previsit" /\ event'.node = u
  BY <1>3 DEF Enter, Marked, Goes, Event
<1>5. /\ path \in Seq(Nodes) /\ Len(path) \in Nat /\ ToSet(path) \subseteq known
      /\ \A i \in PathNodes : path[i] \in known /\ path[i] \in Nodes
  BY <1>2, FullFacts
<1>6. /\ Len(path') = Len(path) + 1 /\ path'[Len(path) + 1] = u
      /\ \A i \in PathNodes : path'[i] = path[i]
      /\ ToSet(path') = ToSet(path) \cup {u}
  BY <1>4, <1>5, AppendProperties, AppendedSet DEF PathNodes
<1>7. \A i \in PathNodes : white'[path[i]] = white[path[i]]
  BY <1>3, <1>4, <1>5 DEF FullRun, WhiteInv
<1>8. Left' = Left
  BY <1>3, <1>4, <1>6 DEF Left
<1> QED
  BY <1>1, <1>3, <1>4, <1>6, <1>7, <1>8 DEF Entered

LEMMA StepLeaves ==
  ASSUME FullRun, Postvisit, ~broke'
  PROVE  /\ path # << >> /\ Len(path) \in PathNodes /\ curr = path[Len(path)] /\ pc' = "recurse"
         /\ path' = Front(path) /\ UNCHANGED <<known, white, root, graph>>
         /\ curr \in Nodes \ Left /\ Left' = Left \cup {curr}
         /\ Len(path') = Len(path) - 1
         /\ \A i \in 1 .. Len(path) - 1 : path'[i] = path[i]
         /\ graph[curr] \subseteq known
         /\ ~broke
<1>1. /\ pc = "recurse" /\ stack # << >> /\ Top.succs = << >> /\ pc' = "recurse"
      /\ UNCHANGED <<known, white, root, graph>>
  BY DEF Postvisit, inputs, Goes
<1>2. /\ IsDigraph(graph) /\ ~broke /\ Along(graph, stack, path, known)
      /\ path # << >> => curr = Last(path)
      /\ ArcsLeft(graph, stack, path, known)
  BY <1>1, WhiteAtWork DEF FullRun
<1>3. path # << >> /\ Len(stack) = Len(path) /\ ToSet(Front(path)) = ToSet(path) \ {Last(path)}
  <2>1. path # << >> /\ ToSet(Front(path)) = ToSet(path) \ {Last(path)}
    BY <1>1, <1>2, AlongLeft
  <2> QED
    BY <1>2, <2>1 DEF Along
<1>4. /\ path \in Seq(Nodes) /\ Len(path) \in Nat /\ known = Left \cup ToSet(path)
      /\ ToSet(path) = {path[i] : i \in PathNodes}
      /\ \A i \in PathNodes : path[i] \in known /\ path[i] \in Nodes
  BY <1>2, FullFacts
<1>5. Len(path) \in PathNodes /\ Last(path) = path[Len(path)]
  BY <1>3, <1>4, EmptySeq DEF PathNodes, Last
<1>6. path' = Front(path)
  BY <1>3 DEF Postvisit
<1>7. /\ Len(Front(path)) = Len(path) - 1
      /\ \A i \in 1 .. Len(path) - 1 : Front(path)[i] = path[i]
  <2>1. Front(path) = SubSeq(path, 1, Len(path) - 1)
    BY DEF Front
  <2>2. Len(path) - 1 \in 0 .. Len(path) /\ (Len(path) - 1) - 1 + 1 = Len(path) - 1
        /\ \A i \in 1 .. Len(path) - 1 : 1 + i - 1 = i
    BY <1>4, <1>5 DEF PathNodes
  <2> QED
    BY <1>4, <2>1, <2>2, SubSeqProperties
<1>8. graph[curr] \subseteq known
  <2>1. stack[Len(path)].succs = << >> /\ ToSet(<< >>) = {}
    BY <1>1, <1>3 DEF Top, Depth, ToSet
  <2> QED
    BY <2>1, <1>2, <1>3, <1>5 DEF ArcsLeft, PathNodes
<1>9. curr \in ToSet(path)
  BY <1>2, <1>3, <1>4, <1>5
<1>10. curr \in Nodes \ Left /\ Left' = Left \cup {curr}
  BY <1>1, <1>2, <1>3, <1>4, <1>5, <1>6, <1>9 DEF Left
<1> QED
  BY <1>1, <1>2, <1>3, <1>5, <1>6, <1>7, <1>8, <1>10

LEMMA StepStays ==
  ASSUME FullRun, DfsStep, ~(PrevisitRoot \/ Previsit \/ Postvisit)
  PROVE  /\ UNCHANGED <<path, known, white, graph>> /\ Left' = Left /\ PathNodes' = PathNodes
         /\ pc' = "recurse" => pc = "recurse" /\ root' = root
         /\ ~broke
<1>1. /\ UNCHANGED <<path, known, white, graph>>
      /\ pc' = "recurse" => pc = "recurse" /\ root' = root
  BY DEF DfsStep, SkipRoot, InitRoot, EndRoots, Revisit, Ignore, DoneRoot, Goes, AtArc, inputs
<1>2. ~broke
  BY DEF DfsStep, SkipRoot, InitRoot, EndRoots, Revisit, Ignore, DoneRoot, AtArc, FullRun,
     PathInv, Shape
<1> QED
  BY <1>1, <1>2 DEF Left, PathNodes

LEMMA ApartStep ==
  ASSUME FullRun, DfsStep
  PROVE  ApartInv'
<1> SUFFICES ASSUME ~broke', NEW i \in PathNodes', NEW x \in Left'
             PROVE  x \in white'[path'[i]] \/ graph'[x] \cap white'[path'[i]] = {}
  BY DEF ApartInv
<1>1. ~broke /\ graph' = graph
  BY DEF DfsStep, SkipRoot, InitRoot, PrevisitRoot, EndRoots, Revisit, Ignore, Previsit,
     Postvisit, DoneRoot, AtArc, FullRun, PathInv, Shape, inputs
<1>2. CASE PrevisitRoot \/ Previsit
  <2>1. PICK u \in Nodes : Entered(u)
    BY <1>2, StepEnters
  <2>2. Len(path) \in Nat /\ Exhausted(graph, path, known) /\ Left \subseteq Nodes
    BY <1>1, FullFacts
  <2>3. CASE i \in PathNodes
    BY <2>1, <2>3, <1>1 DEF Entered, FullRun, ApartInv
  <2>4. CASE i = Len(path) + 1
    <3>1. white'[path'[i]] = Nodes \ known
      BY <2>1, <2>4 DEF Entered, FullRun, WhiteInv
    <3>2. graph[x] \subseteq known
      BY <2>1, <2>2 DEF Entered, Left, Exhausted
    <3> QED
      BY <3>1, <3>2, <1>1
  <2>5. i \in PathNodes \/ i = Len(path) + 1
    BY <2>1, <2>2 DEF Entered, PathNodes
  <2> QED
    BY <2>3, <2>4, <2>5
<1>3. CASE Postvisit
  <2>1. /\ Len(path) \in PathNodes /\ curr = path[Len(path)]
        /\ UNCHANGED <<known, white>> /\ Left' = Left \cup {curr}
        /\ Len(path') = Len(path) - 1
        /\ \A j \in 1 .. Len(path) - 1 : path'[j] = path[j]
    BY <1>3, StepLeaves
  <2>2. i \in 1 .. Len(path) - 1 /\ i \in PathNodes /\ path'[i] = path[i] /\ i <= Len(path)
    BY <2>1 DEF PathNodes
  <2>3. CASE x \in Left
    BY <2>1, <2>2, <2>3, <1>1 DEF FullRun, ApartInv
  <2>4. CASE x = curr
    <3>1. WhiteMet(graph, path, known, white)
      BY <1>3, WhiteAtWork DEF FullRun, Postvisit
    <3>2. curr \in white[path[i]]
      BY <3>1, <2>1, <2>2 DEF WhiteMet, PathNodes
    <3> QED
      BY <3>2, <2>1, <2>2, <2>4
  <2> QED
    BY <2>1, <2>3, <2>4
<1>4. CASE ~(PrevisitRoot \/ Previsit \/ Postvisit)
  BY <1>1, <1>4, StepStays DEF FullRun, ApartInv
<1> QED
  BY <1>2, <1>3, <1>4

LEMMA TreeStep ==
  ASSUME FullRun, DfsStep, WhiteInv', Full'
  PROVE  TreeInv'
<1> SUFFICES ASSUME pc' = "recurse"
             PROVE  /\ root' \in known' /\ root' \in Nodes'
                    /\ path' # << >> => path'[1] = root'
                    /\ known' \cap white'[root'] \subseteq
                         Reached(Within(graph', white'[root']), {root'})
                    /\ \A u \in Nodes' \ white'[root'] :
                         u \in known' /\ graph'[u] \cap white'[root'] = {}
  BY DEF TreeInv
<1>1. ~broke /\ graph' = graph /\ Nodes' = Nodes /\ ~broke'
  BY DEF DfsStep, SkipRoot, InitRoot, PrevisitRoot, EndRoots, Revisit, Ignore, Previsit,
     Enter, Goes, Postvisit, DoneRoot, AtArc, FullRun, PathInv, Shape, inputs, Nodes
<1>2. CASE PrevisitRoot
  <2>1. Entered(root) /\ path = << >> /\ root' = root
    BY <1>1, <1>2, StepEnters DEF Entered
  <2>2. /\ IsDigraph(graph) /\ known \subseteq Nodes /\ Exhausted(graph, path, known)
        /\ Left = known
    BY <1>1, <2>1, FullFacts DEF Left, ToSet
  <2>3. white'[root] = Nodes \ known /\ root \in Nodes /\ root \notin known
        /\ known' = known \cup {root}
    BY <2>1 DEF Entered, FullRun, WhiteInv
  <2>4. path'[1] = root
    <3>1. Len(<< >>) = 0 /\ 0 + 1 = 1
      OBVIOUS
    <3> QED
      BY <3>1, <2>1 DEF Entered
  <2>5. root \in Reached(Within(graph, Nodes \ known), {root})
    <3>1. Within(graph, Nodes \ known) \in [Nodes -> SUBSET Nodes] /\ IsFiniteSet(Nodes)
      BY <2>2, WithinGraph DEF Nodes
    <3>2. {root} \subseteq Nodes
      BY <2>3
    <3> QED
      BY <3>1, <3>2, ReachedClosed
  <2>6. \A u \in known : graph[u] \subseteq known
    BY <2>2 DEF Exhausted, Left
  <2> QED
    BY <1>1, <2>1, <2>2, <2>3, <2>4, <2>5, <2>6
<1>3. CASE Previsit
  <2>1. PICK u \in Nodes : Entered(u) /\ path # << >>
    BY <1>1, <1>3, StepEnters
  <2>2. pc = "recurse" /\ root' = root
    BY <1>3 DEF Previsit, AtArc
  <2>3. root \in known /\ root \in Nodes /\ path[1] = root
        /\ \A v \in Nodes \ white[root] : v \in known /\ graph[v] \cap white[root] = {}
    BY <2>1, <2>2 DEF FullRun, TreeInv
  <2>4. 1 \in PathNodes /\ 1 \in PathNodes'
    <3>1. Len(path) \in Nat /\ Len(path) # 0
      BY <1>1, <2>1, FullFacts, EmptySeq
    <3> QED
      BY <3>1, <2>1 DEF PathNodes, Entered
  <2>5. path'[1] = root /\ white'[root] = white[root] /\ known \subseteq known'
    BY <2>1, <2>3, <2>4 DEF Entered
  <2>6. WhiteMet(graph', path', known', white')
    BY <1>1 DEF WhiteInv, MetSoFar
  <2>7. known' \cap white'[root] \subseteq Reached(Within(graph', white'[root]), {root})
    BY <2>4, <2>5, <2>6 DEF WhiteMet, PathNodes
  <2> QED
    BY <1>1, <2>2, <2>3, <2>5, <2>7
<1>4. CASE Postvisit
  <2>1. /\ path # << >> /\ UNCHANGED <<known, white, root>>
        /\ Len(path') = Len(path) - 1 /\ pc = "recurse" /\ path' = Front(path)
        /\ \A j \in 1 .. Len(path) - 1 : path'[j] = path[j]
    BY <1>1, <1>4, StepLeaves DEF Postvisit
  <2>2. path' # << >> => path'[1] = path[1]
    <3> SUFFICES ASSUME path' # << >> PROVE path'[1] = path[1]
      OBVIOUS
    <3>1. path \in Seq(Nodes) /\ Len(path) \in Nat /\ Len(path) # 0
      BY <1>1, <2>1, FullFacts, EmptySeq
    <3>2. path' \in Seq(Nodes)
      BY <3>1, <2>1, SubSeqProperties DEF Front
    <3>3. Len(path') # 0
      BY <3>2, EmptySeq
    <3>4. 1 \in 1 .. Len(path) - 1
      BY <3>1, <3>3, <2>1
    <3> QED
      BY <3>4, <2>1
  <2> QED
    BY <1>1, <2>1, <2>2 DEF FullRun, TreeInv
<1>5. CASE ~(PrevisitRoot \/ Previsit \/ Postvisit)
  BY <1>1, <1>5, StepStays DEF FullRun, TreeInv
<1> QED
  BY <1>2, <1>3, <1>4, <1>5

LEMMA FullStep ==
  ASSUME FullRun, DfsStep
  PROVE  FullRun'
<1>1. UNCHANGED <<graph, kind, accept>> /\ Nodes' = Nodes
  BY DEF DfsStep, SkipRoot, InitRoot, PrevisitRoot, EndRoots, Revisit, Ignore, Previsit,
     Postvisit, DoneRoot, inputs, Nodes
<1>2. Full'
  BY <1>1 DEF FullRun, Full, NoFilter, num_nodes
<1>3. PathInv' /\ WhiteInv' /\ WhiteChain'
  BY DfsStepPath, DfsStepWhite, ChainStep DEF FullRun
<1>4. pc' # "order"
  BY DEF DfsStep, SkipRoot, InitRoot, PrevisitRoot, EndRoots, Revisit, Ignore, Previsit,
     Postvisit, DoneRoot, Enter, Goes, FullRun
<1> QED
  BY <1>2, <1>3, <1>4, ApartStep, TreeStep DEF FullRun

(* A visit begins, with nothing known, and a visit rests.                  *)
LEMMA FullStart ==
  ASSUME FullRun, known = {}, ~broke, NEW rs \in Seq(Nodes), StartVisit(rs)
  PROVE  FullRun'
<1>2. /\ UNCHANGED <<graph, kind, accept, known, white>> /\ Nodes' = Nodes
      /\ pc' = "roots" /\ path' = << >>
  BY DEF StartVisit, inputs, Nodes
<1>3. PathInv' /\ WhiteInv'
  BY StartPath, OutsideWhite DEF FullRun
<1>4. WhiteChain' /\ Full' /\ pc' # "order" /\ TreeInv'
  BY <1>2 DEF FullRun, WhiteChain, Full, NoFilter, num_nodes, TreeInv
<1>5. ApartInv'
  BY <1>2 DEF ApartInv, Left
<1> QED
  BY <1>3, <1>4, <1>5 DEF FullRun

(* A root is taken from the list.                                          *)
LEMMA RootTaken ==
  ASSUME FullRun, ~broke, RootsTaken, roots # << >>, roots' = Tail(roots),
         RootList' = RootList, num_nodes' = num_nodes
  PROVE  /\ Len(roots') \in 0 .. num_nodes' /\ Taken' = Taken + 1 /\ Taken \in Nat
         /\ \A k \in 1 .. Len(roots') : roots'[k] = RootList[Taken' + k]
         /\ Head(roots) = RootList[Taken'] /\ Head(roots) \in Nodes
         /\ Accepts(Head(roots), 0)
<1>1. roots \in Seq(Nodes) /\ Head(roots) \in Nodes
  BY RootsShape DEF FullRun, PathInv, Shape
<1>2. num_nodes \in Nat
  BY FullFacts
<1>3. /\ Len(roots) \in Nat \ {0} /\ Len(roots') = Len(roots) - 1
      /\ \A k \in 1 .. Len(roots') : roots'[k] = roots[k + 1]
      /\ Head(roots) = roots[1]
  BY <1>1, HeadTailProperties, EmptySeq
<1>4. Len(roots) <= num_nodes /\ \A k \in 1 .. Len(roots) : roots[k] = RootList[Taken + k]
  BY DEF RootsTaken
<1>5. Taken' = Taken + 1 /\ Taken \in Nat /\ Len(roots') \in 0 .. num_nodes'
  BY <1>2, <1>3, <1>4 DEF Taken
<1>6. Head(roots) = RootList[Taken + 1]
  BY <1>3, <1>4
<1>7. ASSUME NEW k \in 1 .. Len(roots') PROVE roots'[k] = RootList[Taken' + k]
  <2>1. k + 1 \in 1 .. Len(roots) /\ Taken + (k + 1) = Taken' + k
    BY <1>3, <1>5
  <2> QED
    BY <2>1, <1>3, <1>4
<1>8. Accepts(Head(roots), 0)
  <2>1. 0 \in 0 .. num_nodes
    BY <1>2
  <2> QED
    BY <1>1, <2>1 DEF Accepts, FullRun, Full, NoFilter
<1> QED
  BY <1>1, <1>5, <1>6, <1>7, <1>8

LEMMA RootsTakenStep ==
  ASSUME FullRun, RootsTaken, DfsStep, RootList' = RootList, ~broke'
  PROVE  RootsTaken'
<1>1. ~broke /\ graph' = graph /\ Nodes' = Nodes /\ num_nodes' = num_nodes
  BY DEF DfsStep, SkipRoot, InitRoot, PrevisitRoot, EndRoots, Revisit, Ignore, Previsit,
     Postvisit, DoneRoot, AtArc, FullRun, PathInv, Shape, inputs, Nodes, num_nodes
<1>2. num_nodes \in Nat /\ Len(roots) \in Nat /\ Taken \in Nat
  BY <1>1, FullFacts DEF RootsTaken, Taken
<1>3. CASE SkipRoot
  <2>1. /\ pc = "roots" /\ pc' = "roots" /\ roots # << >> /\ roots' = Tail(roots)
        /\ Head(roots) \in known \/ ~Accepts(Head(roots), 0)
        /\ known' = known
    BY <1>3 DEF SkipRoot
  <2>2. /\ Len(roots') \in 0 .. num_nodes' /\ Taken' = Taken + 1
        /\ \A k \in 1 .. Len(roots') : roots'[k] = RootList[Taken' + k]
        /\ RootList[Taken'] \in known
    BY <1>1, <2>1, RootTaken
  <2>3. \A k \in 1 .. Taken' : k \in 1 .. Taken \/ k = Taken'
    BY <1>2, <2>2
  <2> QED
    BY <2>1, <2>2, <2>3 DEF RootsTaken
<1>4. CASE InitRoot
  <2>1. /\ pc = "roots" /\ pc' = "previsit" /\ roots # << >> /\ roots' = Tail(roots)
        /\ root' = Head(roots) /\ known' = known
    BY <1>4 DEF InitRoot, Goes
  <2>2. /\ Len(roots') \in 0 .. num_nodes' /\ Taken' = Taken + 1
        /\ \A k \in 1 .. Len(roots') : roots'[k] = RootList[Taken' + k]
        /\ root' = RootList[Taken']
    BY <1>1, <2>1, RootTaken
  <2>3. Taken' > 0 /\ Taken' - 1 = Taken
    BY <1>2, <2>2
  <2> QED
    BY <2>1, <2>2, <2>3 DEF RootsTaken
<1>5. CASE PrevisitRoot
  <2>1. Entered(root) /\ pc = "previsit" /\ roots' = roots
    BY <1>1, <1>5, StepEnters DEF PrevisitRoot
  <2>2. /\ pc' = "recurse" /\ root' = root /\ white'[root] = Nodes \ known
        /\ known \subseteq known' /\ Taken' = Taken
    BY <1>1, <2>1 DEF Entered, FullRun, WhiteInv, Taken
  <2> QED
    BY <1>1, <2>1, <2>2 DEF RootsTaken
<1>6. CASE EndRoots
  <2>1. pc = "roots" /\ roots = << >> /\ pc' = "idle" /\ UNCHANGED <<roots, root, known>>
        /\ Taken' = Taken
    BY <1>1, <1>6 DEF EndRoots, Taken
  <2> QED
    BY <1>1, <2>1 DEF RootsTaken
<1>7. CASE DoneRoot
  <2>1. pc = "recurse" /\ pc' = "roots" /\ UNCHANGED <<roots, root, known>> /\ Taken' = Taken
    BY <1>1, <1>7 DEF DoneRoot, Goes, Taken
  <2>2. root \in known
    BY <2>1 DEF FullRun, TreeInv
  <2>3. \A k \in 1 .. Taken : k \in 1 .. Taken - 1 \/ k = Taken
    BY <1>2
  <2> QED
    BY <1>1, <2>1, <2>2, <2>3 DEF RootsTaken
<1>8. CASE Revisit \/ Ignore \/ Previsit \/ Postvisit
  <2>1. /\ pc = "recurse" /\ pc' = "recurse" /\ UNCHANGED <<roots, root>> /\ Taken' = Taken
    BY <1>1, <1>8 DEF Revisit, Ignore, Previsit, Enter, Postvisit, Goes, AtArc, Taken
  <2>2. known \subseteq known' /\ white'[root] = white[root]
    <3>1. root \in known
      BY <2>1 DEF FullRun, TreeInv
    <3>2. CASE Previsit
      <4>1. PICK u \in Nodes : Entered(u)
        BY <3>2, StepEnters
      <4> QED
        BY <4>1, <3>1 DEF Entered, FullRun, WhiteInv, WhiteChain
    <3>3. CASE ~Previsit
      BY <1>8, <3>3 DEF Revisit, Ignore, Postvisit
    <3> QED
      BY <3>2, <3>3
  <2> QED
    BY <1>1, <2>1, <2>2 DEF RootsTaken
<1> QED
  BY <1>3, <1>4, <1>5, <1>6, <1>7, <1>8 DEF DfsStep

LEMMA RootsStep ==
  ASSUME FullRun, RootsInv, DfsStep, RootList' = RootList, Turns' = Turns
  PROVE  RootsInv'
<1>1. visits' = visits /\ Nodes' = Nodes /\ num_nodes' = num_nodes /\ pc # "idle"
  BY DEF DfsStep, SkipRoot, InitRoot, PrevisitRoot, EndRoots, Revisit, Ignore, Previsit,
     Postvisit, DoneRoot, AtArc, inputs, Nodes, num_nodes
<1>2. visits = Turns + 1 /\ visits # Turns
  BY <1>1 DEF RootsInv, Turns
<1>3. ~broke
  BY <1>1 DEF FullRun, PathInv, Shape
<1>4. ~broke' => RootsTaken'
  BY <1>1, <1>2, <1>3, RootsTakenStep DEF RootsInv
<1> QED
  BY <1>1, <1>2, <1>4 DEF RootsInv, ListsAll

LEMMA RootsBegin ==
  ASSUME FullRun, RootsInv, visits = Turns, StartVisit(RootList), RootList' = RootList,
         Turns' = Turns
  PROVE  RootsInv'
<1>1. /\ visits' = visits + 1 /\ Nodes' = Nodes /\ num_nodes' = num_nodes /\ pc' = "roots"
      /\ roots' = RootList /\ ~broke
  BY DEF StartVisit, Nodes, num_nodes, inputs, RootsInv
<1>2. num_nodes \in Nat /\ RootList \in [1 .. num_nodes -> Nodes]
  BY <1>1, FullFacts DEF RootsInv, ListsAll
<1>3. Len(roots') = num_nodes /\ Taken' = 0 /\ Turns \in Nat
  BY <1>1, <1>2 DEF Taken, Turns
<1>4. RootsTaken'
  BY <1>1, <1>2, <1>3 DEF RootsTaken
<1> QED
  BY <1>1, <1>3, <1>4 DEF RootsInv, ListsAll

(* When a visit is over all nodes are known.                               *)
LEMMA AllKnown ==
  ASSUME FullRun, RootsInv, visits # Turns, pc = "idle", ~broke
  PROVE  known = Nodes /\ path = << >> /\ Left = Nodes
<1>1. RootsTaken /\ ListsAll(RootList)
  BY DEF RootsInv
<1>2. num_nodes \in Nat /\ known \subseteq Nodes
  BY FullFacts
<1>3. roots = << >> /\ Len(<< >>) = 0 /\ Taken = num_nodes
  BY <1>1, <1>2 DEF RootsTaken, Taken
<1>4. Nodes \subseteq known
  BY <1>1, <1>3 DEF RootsTaken, ListsAll
<1>5. path = << >> /\ ToSet(<< >>) = {}
  BY DEF FullRun, WhiteInv, MetSoFar, ToSet
<1> QED
  BY <1>2, <1>4, <1>5 DEF Left

-----------------------------------------------------------------------------
(* What top_sort has written.                                              *)
LEMMA ReachesBack ==
  ASSUME NEW g, IsDigraph(g), NEW u \in DOMAIN g, NEW v \in g[u],
         NEW w \in Reached(g, {v})
  PROVE  w \in Reached(g, g[u])
<1>1. IsFiniteSet(DOMAIN g) /\ g \in [DOMAIN g -> SUBSET DOMAIN g]
      /\ g[u] \in SUBSET DOMAIN g /\ v \in DOMAIN g
  BY DEF IsDigraph
<1>2. /\ g[u] \subseteq Reached(g, g[u]) /\ Reached(g, g[u]) \subseteq DOMAIN g
      /\ \A x \in Reached(g, g[u]) : g[x] \subseteq Reached(g, g[u])
  BY <1>1, ReachedClosed
<1>3. /\ Reached(g, g[u]) \in SUBSET DOMAIN g /\ v \in Reached(g, g[u])
  BY <1>1, <1>2
<1>4. \A C \in SUBSET DOMAIN g :
        v \in C /\ (\A x \in C : g[x] \subseteq C) => Reached(g, {v}) \subseteq C
  BY <1>1, Reaching
<1> QED
  BY <1>2, <1>3, <1>4

(* The path leads to its last node.                                        *)
LEMMA LastMet ==
  ASSUME FullRun, ~broke, pc = "recurse", path # << >>
  PROVE  /\ Len(path) \in PathNodes /\ curr = path[Len(path)] /\ curr \in Nodes
         /\ curr \in white[curr]
         /\ \A v \in known \cap white[curr] : v \in Reached(graph, {curr})
         /\ \A v \in ToSet(path) : curr \in Reached(graph, {v})
<1>1. /\ IsDigraph(graph) /\ curr = Last(path) /\ WhiteMet(graph, path, known, white)
  BY WhiteAtWork DEF FullRun
<1>2. /\ path \in Seq(Nodes) /\ Len(path) \in Nat /\ ToSet(path) = {path[i] : i \in PathNodes}
      /\ \A i \in PathNodes : path[i] \in known /\ path[i] \in Nodes
  BY FullFacts
<1>3. Len(path) \in PathNodes /\ curr = path[Len(path)]
  BY <1>1, <1>2, EmptySeq DEF PathNodes, Last
<1>4. ASSUME NEW i \in PathNodes, NEW v \in known \cap white[path[i]]
      PROVE  v \in Reached(graph, {path[i]})
  <2>1. v \in Reached(Within(graph, white[path[i]]), {path[i]})
    BY <1>1 DEF WhiteMet, PathNodes
  <2>2. path[i] \in DOMAIN graph
    BY <1>2 DEF Nodes
  <2> QED
    BY <2>1, <2>2, <1>1, ReachesWithin
<1>5. ASSUME NEW v \in ToSet(path) PROVE curr \in Reached(graph, {v})
  <2>1. PICK i \in PathNodes : v = path[i]
    BY <1>2
  <2>2. path[Len(path)] \in white[path[i]]
    <3>1. i <= Len(path)
      BY <1>2 DEF PathNodes
    <3> QED
      BY <3>1, <1>1, <1>3 DEF WhiteMet, PathNodes
  <2> QED
    BY <2>1, <2>2, <1>2, <1>3, <1>4
<1>6. curr \in white[curr]
  BY <1>2, <1>3 DEF FullRun, WhiteChain
<1> QED
  BY <1>2, <1>3, <1>4, <1>5, <1>6

(* The node that is left goes to the place before those of the nodes left. *)
LEMMA PlacedLeft ==
  ASSUME FullRun, OrderInv, Postvisit, ~broke', kind = "pred",
         pos' = pos - 1, order' = [order EXCEPT ![pos] = curr]
  PROVE  OrderInv'
<1>1. /\ path # << >> /\ Len(path) \in PathNodes /\ curr = path[Len(path)]
      /\ UNCHANGED <<known, white, graph>> /\ curr \in Nodes \ Left
      /\ Left' = Left \cup {curr} /\ graph[curr] \subseteq known /\ ~broke
  BY StepLeaves
<1>2. /\ IsDigraph(graph) /\ IsFiniteSet(Nodes) /\ num_nodes \in Nat
      /\ Left \subseteq Nodes /\ known = Left \cup ToSet(path)
  BY <1>1, FullFacts
<1>3. Nodes' = Nodes /\ num_nodes' = num_nodes
  BY <1>1 DEF Nodes, num_nodes
<1>4. /\ curr \in white[curr]
      /\ \A v \in known \cap white[curr] : v \in Reached(graph, {curr})
      /\ \A v \in ToSet(path) : curr \in Reached(graph, {v})
  BY <1>1, LastMet DEF Postvisit
<1>5. /\ IsFiniteSet(Left) /\ Cardinality(Left) \in Nat /\ Cardinality(Left) < num_nodes
      /\ Cardinality(Left') = Cardinality(Left) + 1
  <2>1. IsFiniteSet(Left) /\ Cardinality(Left) \in Nat /\ Cardinality(Left) < num_nodes
    BY <1>1, <1>2, CountStrict, FS_Subset, FS_CardinalityType DEF num_nodes
  <2> QED
    BY <2>1, <1>1, FS_AddElement
<1>6. /\ pos \in 1 .. num_nodes /\ pos' = num_nodes - Cardinality(Left') /\ pos' + 1 = pos
      /\ pos' + 1 .. num_nodes = {pos} \cup (pos + 1 .. num_nodes)
      /\ \A i \in pos + 1 .. num_nodes : i # pos /\ i \in 1 .. num_nodes
  BY <1>2, <1>5 DEF OrderInv
<1>7. Placed(graph, pos) /\ {order[i] : i \in pos + 1 .. num_nodes} = Left
  BY DEF OrderInv
<1>8. /\ order' \in [1 .. num_nodes -> Nodes \cup {Unwritten}]
      /\ order'[pos] = curr /\ \A i \in pos + 1 .. num_nodes : order'[i] = order[i]
  BY <1>1, <1>6, <1>7 DEF Placed, PlacedIn
<1>9. {order'[i] : i \in pos' + 1 .. num_nodes} = Left'
  BY <1>1, <1>6, <1>7, <1>8
<1>10. \A i, j \in pos' + 1 .. num_nodes : order'[i] = order'[j] => i = j
  <2>1. \A i \in pos + 1 .. num_nodes : order'[i] # curr
    BY <1>1, <1>7, <1>8
  <2>2. \A i, j \in pos + 1 .. num_nodes : order'[i] = order'[j] => i = j
    BY <1>7, <1>8 DEF Placed, PlacedIn
  <2> QED
    BY <2>1, <2>2, <1>6, <1>8
<1>11. \A i \in pos' + 1 .. num_nodes : order'[i] \in Nodes
  BY <1>1, <1>6, <1>7, <1>8 DEF Placed, PlacedIn
<1>12. ASSUME Acyclic(graph), NEW i \in pos' + 1 .. num_nodes, NEW v \in graph[order'[i]]
       PROVE  \E j \in i + 1 .. num_nodes : order'[j] = v
  <2>1. CASE i = pos
    <3>1. v \in known /\ v \in graph[curr]
      BY <2>1, <1>1, <1>8, <1>12
    <3>2. v \notin ToSet(path)
      <4> SUFFICES ASSUME v \in ToSet(path) PROVE FALSE
        OBVIOUS
      <4>1. curr \in Reached(graph, {v}) /\ curr \in DOMAIN graph
        BY <1>1, <1>4 DEF Nodes
      <4>2. curr \in Reached(graph, graph[curr])
        BY <3>1, <4>1, <1>2, ReachesBack
      <4> QED
        BY <4>1, <4>2, <1>12 DEF Acyclic
    <3>3. PICK j \in pos + 1 .. num_nodes : v = order[j]
      BY <3>1, <3>2, <1>2, <1>7
    <3> QED
      BY <3>3, <2>1, <1>8
  <2>2. CASE i \in pos + 1 .. num_nodes
    <3>1. PICK j \in i + 1 .. num_nodes : order[j] = v
      BY <2>2, <1>7, <1>8, <1>12 DEF Placed, PlacedIn
    <3>2. j \in pos + 1 .. num_nodes
      BY <2>2, <1>6
    <3> QED
      BY <3>1, <3>2, <1>8
  <2> QED
    BY <2>1, <2>2, <1>6
<1>13. ASSUME NEW i \in pos' + 1 .. num_nodes
       PROVE  \E W \in SUBSET Nodes :
                /\ order'[i] \in W
                /\ \A j \in i .. num_nodes : IF order'[j] \in W
                                             THEN order'[j] \in Reached(graph, {order'[i]})
                                             ELSE graph[order'[j]] \cap W = {}
  <2>1. CASE i = pos
    <3>1. white[curr] \in SUBSET Nodes
      BY <1>1 DEF FullRun, WhiteInv
    <3>2. ASSUME NEW j \in i .. num_nodes
          PROVE  IF order'[j] \in white[curr]
                 THEN order'[j] \in Reached(graph, {curr})
                 ELSE graph[order'[j]] \cap white[curr] = {}
      <4>1. CASE j = pos
        BY <4>1, <1>1, <1>2, <1>4, <1>8, Reaching DEF Nodes
      <4>2. CASE j \in pos + 1 .. num_nodes
        <5>1. order'[j] \in Left
          BY <4>2, <1>7, <1>8
        <5>2. order'[j] \in white[curr] \/ graph[order'[j]] \cap white[curr] = {}
          BY <5>1, <1>1 DEF FullRun, ApartInv
        <5>3. order'[j] \in known
          BY <5>1 DEF Left
        <5> QED
          BY <5>2, <5>3, <1>4
      <4> QED
        BY <4>1, <4>2, <2>1, <1>6
    <3>3. order'[i] = curr /\ order'[i] \in white[curr]
      BY <2>1, <1>4, <1>8
    <3>4. \A j \in i .. num_nodes : IF order'[j] \in white[curr]
                                    THEN order'[j] \in Reached(graph, {order'[i]})
                                    ELSE graph[order'[j]] \cap white[curr] = {}
      BY <3>2, <3>3
    <3> WITNESS white[curr] \in SUBSET Nodes
    <3> QED
      BY <3>3, <3>4
  <2>2. CASE i \in pos + 1 .. num_nodes
    <3>1. PICK W \in SUBSET Nodes :
            /\ order[i] \in W
            /\ \A j \in i .. num_nodes : IF order[j] \in W
                                         THEN order[j] \in Reached(graph, {order[i]})
                                         ELSE graph[order[j]] \cap W = {}
      BY <2>2, <1>7 DEF Placed, PlacedIn
    <3>2. \A j \in i .. num_nodes : j \in pos + 1 .. num_nodes
      BY <2>2, <1>6
    <3>3. order'[i] = order[i] /\ \A j \in i .. num_nodes : order'[j] = order[j]
      BY <2>2, <3>2, <1>8
    <3> QED
      BY <3>1, <3>3
  <2> QED
    BY <2>1, <2>2, <1>6
<1>14. Placed(graph, pos)'
  <2>1. graph' = graph /\ Nodes' = Nodes /\ num_nodes' = num_nodes
    BY <1>1, <1>3
  <2>2. order' \in [1 .. num_nodes' -> Nodes' \cup {Unwritten}]
    BY <1>8, <2>1
  <2>3. \A i, j \in pos' + 1 .. num_nodes' : order'[i] = order'[j] => i = j
    BY <1>10, <2>1
  <2>4. \A i \in pos' + 1 .. num_nodes' : order'[i] \in Nodes'
    BY <1>11, <2>1
  <2>5. Acyclic(graph') => \A i \in pos' + 1 .. num_nodes' : \A v \in graph'[order'[i]] :
                             \E j \in i + 1 .. num_nodes' : order'[j] = v
    BY <1>12, <2>1
  <2>6. \A i \in pos' + 1 .. num_nodes' : \E W \in SUBSET Nodes' :
          /\ order'[i] \in W
          /\ \A j \in i .. num_nodes' : IF order'[j] \in W
                                        THEN order'[j] \in Reached(graph', {order'[i]})
                                        ELSE graph'[order'[j]] \cap W = {}
    BY <1>13, <2>1
  <2> QED
    BY <2>2, <2>3, <2>4, <2>5, <2>6 DEF Placed, PlacedIn, Unwritten
<1> QED
  BY <1>3, <1>6, <1>9, <1>14 DEF OrderInv

LEMMA OrderSame ==
  ASSUME OrderInv, UNCHANGED <<order, pos, graph>>, Left' = Left
  PROVE  OrderInv'
<1>1. Nodes' = Nodes /\ num_nodes' = num_nodes
  BY DEF Nodes, num_nodes
<1>2. Placed(graph, pos) /\ {order[i] : i \in pos + 1 .. num_nodes} = Left
      /\ pos = num_nodes - Cardinality(Left)
  BY DEF OrderInv
<1>3. Placed(graph, pos)'
  BY <1>1, <1>2 DEF Placed
<1>4. {order'[i] : i \in pos' + 1 .. num_nodes'} = Left' /\ pos' = num_nodes' - Cardinality(Left')
  BY <1>1, <1>2
<1> QED
  BY <1>3, <1>4 DEF OrderInv

LEMMA OrderStep ==
  ASSUME FullRun, OrderInv, DfsStep, CallTopSort, kind = "pred"
  PROVE  OrderInv'
<1>1. ~broke'
  BY DEF CallTopSort
<1>2. CASE Postvisit
  <2>1. event'.type = "Postvisit" /\ event'.node = curr
    BY <1>2 DEF Postvisit, Event
  <2> QED
    BY <1>1, <1>2, <2>1, PlacedLeft DEF CallTopSort, Places
<1>3. CASE ~Postvisit
  <2>1. event'.type # "Postvisit"
    <3>1. event'.type \in {"none", "Init", "Previsit", "end", "Revisit", "Done"}
      BY <1>3 DEF DfsStep, SkipRoot, InitRoot, PrevisitRoot, EndRoots, Revisit, Ignore, Previsit,
         Enter, DoneRoot, NoEvent, Event
    <3> QED
      BY <3>1
  <2>2. pos' = pos /\ order' = order
    BY <2>1 DEF CallTopSort, Places
  <2>3. Left' = Left /\ graph' = graph
    <3>1. CASE PrevisitRoot \/ Previsit
      <4>1. PICK u \in Nodes : Entered(u)
        BY <3>1, <1>1, StepEnters
      <4>2. graph' = graph
        BY <3>1 DEF PrevisitRoot, Previsit, inputs
      <4> QED
        BY <4>1, <4>2 DEF Entered
    <3>2. CASE ~(PrevisitRoot \/ Previsit)
      BY <3>2, <1>3, StepStays
    <3> QED
      BY <3>1, <3>2
  <2> QED
    BY <2>2, <2>3, OrderSame
<1> QED
  BY <1>2, <1>3

-----------------------------------------------------------------------------
(* What is_acyclic knows.  The arcs taken so far from a node of the path   *)
(* lead to nodes left, or to the next node of the path.                    *)
Passed(g, st, pa, left) ==
  \A i \in 1 .. Len(pa) : \A v \in g[pa[i]] \ ToSet(st[i].succs) :
    v \in left \/ (i < Len(pa) /\ v = pa[i + 1])

LEMMA PassedEntered ==
  ASSUME IsDigraph(graph), NEW st, st \in Seq(Entry(graph)), path \in Seq(Nodes),
         Len(st) = Len(path), NEW u \in Nodes, NEW p,
         \A i \in PathNodes : \A v \in graph[path[i]] \ ToSet(st[i].succs) :
           v \in Left \/ (i < Len(path) /\ v = path[i + 1]) \/ (i = Len(path) /\ v = u)
  PROVE  Passed(graph, Append(st, [succs |-> Successors(graph, u), parent |-> p]),
                Append(path, u), Left)
<1> DEFINE n == Len(path)
           e == [succs |-> Successors(graph, u), parent |-> p]
           s == Append(st, e)
           q == Append(path, u)
<1>1. n \in Nat /\ Len(q) = n + 1 /\ q[n + 1] = u /\ \A i \in 1 .. n : q[i] = path[i]
  BY AppendProperties, LenProperties
<1>2. ToSet(e.succs) = graph[u]
  BY GraphLists DEF Nodes
<1>3. s[n + 1] = e /\ \A i \in 1 .. n : s[i] = st[i]
  <2> HIDE DEF e
  <2>1. st \in Seq(Entry(graph) \cup {e}) /\ e \in Entry(graph) \cup {e}
    BY WiderLists
  <2> QED
    BY <2>1, <1>1, AppendProperties
<1> HIDE DEF n, e, s, q
<1>4. ASSUME NEW i \in 1 .. n + 1, NEW v \in graph[q[i]] \ ToSet(s[i].succs)
      PROVE  v \in Left \/ (i < n + 1 /\ v = q[i + 1])
  <2>1. i # n + 1
    BY <1>1, <1>2, <1>3, <1>4
  <2>2. i \in 1 .. n /\ i < n + 1
    BY <2>1, <1>1
  <2>3. v \in graph[path[i]] \ ToSet(st[i].succs)
    BY <2>2, <1>1, <1>3, <1>4
  <2>4. v \in Left \/ (i < n /\ v = path[i + 1]) \/ (i = n /\ v = u)
    BY <2>2, <2>3 DEF PathNodes, n
  <2>5. i < n => i + 1 \in 1 .. n
    BY <2>2, <1>1
  <2> QED
    BY <2>2, <2>4, <2>5, <1>1
<1> QED
  BY <1>1, <1>4 DEF Passed, s, q, e

LEMMA PassedStep ==
  ASSUME FullRun, ~broke, pc = "recurse" => Passed(graph, stack, path, Left),
         DfsStep, kind = "path", ~broke', pc' = "recurse", event'.type = "Revisit" => ~event'.on_stack
  PROVE  Passed(graph, stack', path', Left')
<1>1. /\ IsDigraph(graph) /\ path \in Seq(Nodes) /\ Len(path) \in Nat
      /\ known = Left \cup ToSet(path)
  BY FullFacts
<1>2. CASE PrevisitRoot
  <2>1. /\ Entered(root) /\ path = << >> /\ root \in Nodes
    BY <1>2, StepEnters DEF Entered
  <2>2. /\ stack = << >> /\ stack' = Append(stack, [succs |-> Successors(graph, root), parent |-> root])
        /\ path' = Append(path, root) /\ Left' = Left
    BY <1>2, <2>1 DEF PrevisitRoot, Enter, FullRun, PathInv, Quiet, Entered
  <2>3. stack \in Seq(Entry(graph)) /\ Len(stack) = Len(path) /\ PathNodes = {}
    <3>1. << >> \in Seq(Entry(graph)) /\ Len(<< >>) = 0 /\ 1 .. 0 = {}
      OBVIOUS
    <3> QED
      BY <3>1, <2>1, <2>2 DEF PathNodes
  <2>4. Passed(graph, Append(stack, [succs |-> Successors(graph, root), parent |-> root]),
               Append(path, root), Left)
    BY <1>1, <2>1, <2>3, PassedEntered
  <2> QED
    BY <2>2, <2>4
<1>3. CASE AtArc /\ (Previsit \/ Revisit)
  <2>1. /\ Consumed \in Seq(Entry(graph)) /\ Len(Consumed) = Len(path)
        /\ Len(path) \in Nat \ {0}
        /\ \A i \in 1 .. Len(path) - 1 : Consumed[i] = stack[i]
        /\ \A i \in PathNodes :
             ToSet(stack[i].succs) \subseteq ToSet(Consumed[i].succs) \cup {Succ}
    BY <1>3, ConsumedArcs DEF FullRun
  <2>2. Succ \in Nodes
    BY <1>3, NextArc DEF FullRun
  <2>3. ASSUME NEW i \in PathNodes, NEW v \in graph[path[i]] \ ToSet(Consumed[i].succs)
        PROVE  v \in Left \/ (i < Len(path) /\ v = path[i + 1]) \/ (i = Len(path) /\ v = Succ)
    <3>1. i = Len(path) \/ i \in 1 .. Len(path) - 1
      BY <2>1 DEF PathNodes
    <3>2. v \in graph[path[i]] \ ToSet(stack[i].succs) \/ (i = Len(path) /\ v = Succ)
      BY <3>1, <2>1, <2>3
    <3>3. pc = "recurse"
      BY <1>3 DEF AtArc
    <3> QED
      BY <3>2, <3>3 DEF Passed, PathNodes
  <2>4. CASE Previsit
    <3>1. /\ stack' = Append(Consumed, [succs |-> Successors(graph, Succ), parent |-> curr])
          /\ path' = Append(path, Succ)
      BY <2>4 DEF Previsit, Enter
    <3>2. Left' = Left
      BY <2>4, StepEnters DEF Entered
    <3>3. Passed(graph, Append(Consumed, [succs |-> Successors(graph, Succ), parent |-> curr]),
                 Append(path, Succ), Left)
      BY <1>1, <2>1, <2>2, <2>3, PassedEntered
    <3> QED
      BY <3>1, <3>2, <3>3
  <2>5. CASE Revisit
    <3>1. stack' = Consumed /\ path' = path /\ Left' = Left /\ Succ \in known
      BY <2>5 DEF Revisit, Left
    <3>2. Succ \in Left
      <4>1. Succ \notin on_stack
        <5>1. event'.type = "Revisit" /\ event'.on_stack = (Succ \in on_stack)
          BY <2>5 DEF Revisit
        <5> QED
          BY <5>1
      <4>2. on_stack = ToSet(path)
        BY <1>3 DEF FullRun, PathInv, Active, OnPath, AtArc
      <4> QED
        BY <3>1, <4>1, <4>2, <1>1
    <3> QED
      BY <3>1, <3>2, <2>3 DEF Passed, PathNodes
  <2> QED
    BY <1>3, <2>4, <2>5
<1>4. CASE Postvisit
  <2>1. /\ path # << >> /\ Len(path) \in PathNodes /\ curr = path[Len(path)]
        /\ Left' = Left \cup {curr} /\ path' = Front(path) /\ Len(path') = Len(path) - 1
        /\ \A i \in 1 .. Len(path) - 1 : path'[i] = path[i]
    BY <1>4, StepLeaves
  <2>2. pc = "recurse" /\ stack' = Below /\ stack \in Seq(Entry(graph)) /\ Len(stack) = Len(path)
    <3>1. pc = "recurse" /\ stack' = Below
      BY <1>4 DEF Postvisit
    <3> QED
      BY <3>1 DEF FullRun, PathInv, Active, OnPath, Along
  <2>3. \A i \in 1 .. Len(path) - 1 : stack'[i] = stack[i]
    <3>1. Len(path) - 1 \in 0 .. Len(path) /\ (Len(path) - 1) - 1 + 1 = Len(path) - 1
          /\ \A i \in 1 .. Len(path) - 1 : 1 + i - 1 = i
      BY <1>1, <2>1 DEF PathNodes
    <3>2. Below = SubSeq(stack, 1, Len(path) - 1)
      BY <2>2 DEF Below, Depth
    <3> QED
      BY <2>2, <3>1, <3>2, SubSeqProperties
  <2>4. ASSUME NEW i \in 1 .. Len(path'), NEW v \in graph[path'[i]] \ ToSet(stack'[i].succs)
        PROVE  v \in Left' \/ (i < Len(path') /\ v = path'[i + 1])
    <3>1. i \in 1 .. Len(path) - 1 /\ i \in 1 .. Len(path) /\ i < Len(path)
      BY <1>1, <2>1
    <3>2. v \in Left \/ v = path[i + 1]
      BY <2>1, <2>2, <2>3, <2>4, <3>1 DEF Passed
    <3>3. i + 1 = Len(path) \/ (i + 1 \in 1 .. Len(path) - 1 /\ i < Len(path) - 1)
      BY <1>1, <3>1
    <3> QED
      BY <2>1, <3>2, <3>3
  <2> QED
    BY <2>4 DEF Passed
<1>5. CASE SkipRoot \/ InitRoot \/ EndRoots \/ Ignore \/ DoneRoot
  <2>1. Ignore
    BY <1>5 DEF SkipRoot, InitRoot, EndRoots, DoneRoot, Goes
  <2>2. AtArc /\ Succ \notin known /\ ~Accepts(Succ, Depth)
    BY <2>1 DEF Ignore
  <2>3. Accepts(Succ, Depth)
    <3>1. Along(graph, stack, path, known) /\ Succ \in Nodes
      BY <2>2, NextArc DEF FullRun
    <3>2. Depth \in 0 .. num_nodes
      BY <3>1, <1>1, PathFits DEF Along, Depth, num_nodes, Nodes
    <3> QED
      BY <3>1, <3>2 DEF Accepts, FullRun, Full, NoFilter
  <2> QED
    BY <2>2, <2>3
<1> QED
  BY <1>2, <1>3, <1>4, <1>5 DEF DfsStep, Revisit, Previsit

LEMMA CycleStep ==
  ASSUME FullRun, CycleInv, DfsStep, CallAcyclic, kind = "path"
  PROVE  CycleInv'
<1>1. ~broke
  BY DEF DfsStep, SkipRoot, InitRoot, PrevisitRoot, EndRoots, Revisit, Ignore, Previsit,
     Postvisit, DoneRoot, AtArc, FullRun, PathInv, Shape
<1>2. graph' = graph /\ acyclic' = ~broke'
  BY DEF DfsStep, SkipRoot, InitRoot, PrevisitRoot, EndRoots, Revisit, Ignore, Previsit,
     Postvisit, DoneRoot, inputs, CallAcyclic
<1>3. /\ IsDigraph(graph) /\ path \in Seq(Nodes) /\ known = Left \cup ToSet(path)
      /\ Left \subseteq Nodes
  BY <1>1, FullFacts
<1>4. CASE broke'
  <2>1. Revisit /\ Succ \in on_stack /\ AtArc
    <3>1. event'.type = "Revisit" /\ event'.on_stack
      BY <1>4 DEF CallAcyclic, FindsCycle
    <3>2. Revisit
      BY <3>1 DEF DfsStep, SkipRoot, InitRoot, PrevisitRoot, EndRoots, Ignore, Previsit,
         Enter, Postvisit, DoneRoot, NoEvent, Event
    <3> QED
      BY <3>1, <3>2 DEF Revisit
  <2>2. /\ Succ \in graph[curr] /\ curr \in Nodes /\ path # << >> /\ pc = "recurse"
    BY <2>1, NextArc DEF FullRun, AtArc
  <2>3. Succ \in ToSet(path)
    BY <2>1, <2>2 DEF FullRun, PathInv, Active, OnPath
  <2>4. curr \in Reached(graph, {Succ})
    BY <1>1, <2>2, <2>3, LastMet
  <2>5. curr \in Reached(graph, graph[curr])
    BY <1>3, <2>2, <2>4, ReachesBack DEF Nodes
  <2>6. ~Acyclic(graph)
    BY <2>2, <2>5 DEF Acyclic, Nodes
  <2> QED
    BY <1>2, <1>4, <2>6 DEF CycleInv
<1>5. CASE ~broke'
  <2>1. pc = "recurse" => Passed(graph, stack, path, Left)
    BY <1>1 DEF CycleInv, Passed, PathNodes
  <2>2. event'.type = "Revisit" => ~event'.on_stack
    BY <1>5 DEF CallAcyclic, FindsCycle
  <2>3. pc' = "recurse" => Passed(graph, stack', path', Left')
    BY <1>1, <1>5, <2>1, <2>2, PassedStep
  <2>4. ASSUME NEW u \in Left'
        PROVE  graph[u] \subseteq Left' /\ u \notin Reached(graph, graph[u])
    <3>1. Left' = Left \/ (Postvisit /\ Left' = Left \cup {curr})
      <4>1. CASE PrevisitRoot \/ Previsit
        BY <4>1, <1>5, StepEnters DEF Entered
      <4>2. CASE Postvisit
        BY <4>2, <1>5, StepLeaves
      <4> QED
        BY <4>1, <4>2, StepStays
    <3>2. CASE u \in Left
      BY <3>1, <3>2, <1>1 DEF CycleInv
    <3>3. CASE u \notin Left
      <4>1. Postvisit /\ u = curr /\ Left' = Left \cup {curr}
        BY <3>1, <3>3, <2>4
      <4>2. /\ Len(path) \in PathNodes /\ curr = path[Len(path)] /\ curr \in Nodes
            /\ stack # << >> /\ Top.succs = << >> /\ pc = "recurse"
        BY <4>1, <1>5, StepLeaves DEF Postvisit
      <4>3. stack[Len(path)].succs = << >> /\ ToSet(<< >>) = {}
        BY <4>2 DEF FullRun, PathInv, Active, OnPath, Along, Top, Depth, ToSet
      <4>4. graph[curr] \subseteq Left
        <5> SUFFICES ASSUME NEW v \in graph[curr] PROVE v \in Left
          OBVIOUS
        <5>1. v \in graph[path[Len(path)]] \ ToSet(stack[Len(path)].succs)
          BY <4>2, <4>3
        <5>2. ~(Len(path) < Len(path))
          BY <1>3, LenProperties
        <5> QED
          BY <5>1, <5>2, <2>1, <4>2 DEF Passed, PathNodes
      <4>5. Reached(graph, graph[curr]) \subseteq Left
        <5>1. \A v \in Left : graph[v] \subseteq Left
          BY <1>1 DEF CycleInv
        <5>2. graph \in [DOMAIN graph -> SUBSET DOMAIN graph] /\ IsFiniteSet(DOMAIN graph)
          BY <1>3 DEF IsDigraph
        <5> QED
          BY <5>1, <5>2, <4>4, <1>3, ReachedLeast DEF Nodes
      <4> QED
        BY <4>1, <4>4, <4>5, <3>3
    <3> QED
      BY <3>2, <3>3
  <2>5. acyclic' = TRUE
    BY <1>2, <1>5
  <2> QED
    BY <1>2, <1>5, <2>3, <2>4, <2>5 DEF CycleInv, Passed, PathNodes
<1> QED
  BY <1>4, <1>5

-----------------------------------------------------------------------------
(* The transposed graph is walked backwards.                               *)
LEMMA TransposedGraph ==
  ASSUME NEW g, IsDigraph(g)
  PROVE  /\ IsDigraph(Transposed(g)) /\ DOMAIN Transposed(g) = DOMAIN g
         /\ Transposed(Transposed(g)) = g
         /\ \A u, v \in DOMAIN g : v \in Transposed(g)[u] <=> u \in g[v]
<1>1. /\ DOMAIN Transposed(g) = DOMAIN g
      /\ Transposed(g) \in [DOMAIN g -> SUBSET DOMAIN g]
      /\ \A u, v \in DOMAIN g : v \in Transposed(g)[u] <=> u \in g[v]
  BY DEF Transposed
<1>2. IsDigraph(Transposed(g))
  BY <1>1 DEF IsDigraph
<1>3. g \in [DOMAIN g -> SUBSET DOMAIN g]
  BY DEF IsDigraph
<1>4. \A v \in DOMAIN g : Transposed(Transposed(g))[v] = g[v]
  <2> TAKE v \in DOMAIN g
  <2>1. Transposed(Transposed(g))[v] = {u \in DOMAIN g : v \in Transposed(g)[u]}
    BY <1>1 DEF Transposed
  <2>2. g[v] \subseteq DOMAIN g
    BY <1>3
  <2> QED
    BY <2>1, <2>2, <1>1
<1>5. Transposed(Transposed(g)) = [v \in DOMAIN g |-> Transposed(Transposed(g))[v]]
  BY <1>1 DEF Transposed
<1>6. g = [v \in DOMAIN g |-> g[v]]
  BY <1>3
<1>7. Transposed(Transposed(g)) = g
  BY <1>4, <1>5, <1>6
<1> QED
  BY <1>1, <1>2, <1>7

LEMMA ReachedBackwards ==
  ASSUME NEW g, IsDigraph(g), NEW u \in DOMAIN g, NEW v \in Reached(g, {u})
  PROVE  u \in Reached(Transposed(g), {v})
<1> DEFINE T == Transposed(g)
           C == {x \in DOMAIN g : u \in Reached(T, {x})}
<1>1. /\ IsDigraph(T) /\ DOMAIN T = DOMAIN g
      /\ \A x, y \in DOMAIN g : x \in T[y] <=> y \in g[x]
  BY TransposedGraph
<1> HIDE DEF T
<1>2. g \in [DOMAIN g -> SUBSET DOMAIN g]
  BY DEF IsDigraph
<1>3. u \in C
  BY <1>1, Reaching
<1>4. ASSUME NEW x \in C PROVE g[x] \subseteq C
  <2> SUFFICES ASSUME NEW y \in g[x] PROVE y \in C
    OBVIOUS
  <2>1. y \in DOMAIN g /\ x \in DOMAIN g /\ u \in Reached(T, {x})
    BY <1>2
  <2>2. x \in Reached(T, {y})
    BY <1>1, <2>1, Reaching
  <2>3. Reached(T, {x}) \subseteq Reached(T, {y})
    BY <1>1, <2>1, <2>2, ReachesFurther
  <2> QED
    BY <2>1, <2>3
<1>5. C \in SUBSET DOMAIN g
  OBVIOUS
<1> HIDE DEF C
<1>6. Reached(g, {u}) \subseteq C
  BY <1>3, <1>4, <1>5, Reaching
<1> QED
  BY <1>6 DEF C, T

(* A visit of the transposed graph, to number its trees.                   *)
Numbering ==
  /\ FullRun /\ RootsInv /\ LabelInv /\ ~broke
  /\ stage = "label" /\ algorithm \in {"symm_seq", "kosaraju"}
  /\ IsDigraph(input) /\ DOMAIN input = Nodes /\ graph = Transposed(input)
  /\ algorithm = "symm_seq" => graph = input
  /\ algorithm = "kosaraju" => Placed(input, 0)

LEMMA BothWays ==
  ASSUME Numbering, NEW u \in Nodes, NEW v \in Nodes
  PROVE  v \in Reached(input, {u}) <=> u \in Reached(graph, {v})
<1>1. IsDigraph(input) /\ graph = Transposed(input) /\ DOMAIN input = Nodes
      /\ IsDigraph(graph) /\ DOMAIN graph = Nodes /\ Transposed(graph) = input
  BY TransposedGraph DEF Numbering
<1> QED
  BY <1>1, ReachedBackwards

(* The tree of a root leads back to its root: the nodes of the tree were   *)
(* left before the root, and after it was met, when order was written.     *)
LEMMA TreeReached ==
  ASSUME Numbering, pc = "recurse", NEW u \in known \cap white[root]
  PROVE  u \in Reached(input, {root}) /\ root \in Reached(input, {u})
<1>1. /\ root \in Nodes /\ root \in white[root]
      /\ u \in Reached(Within(graph, white[root]), {root})
      /\ white[root] \subseteq Nodes
  BY DEF Numbering, FullRun, TreeInv, WhiteChain, WhiteInv
<1>2. /\ IsDigraph(graph) /\ IsDigraph(input) /\ DOMAIN graph = Nodes
      /\ graph = Transposed(input) /\ DOMAIN input = Nodes
  BY FullFacts DEF Numbering, Nodes
<1>3. u \in Reached(graph, {root}) /\ u \in Nodes
  BY <1>1, <1>2, ReachesWithin
<1>4. root \in Reached(input, {u})
  BY <1>1, <1>3, BothWays
<1>5. CASE algorithm = "symm_seq"
  BY <1>3, <1>4, <1>5 DEF Numbering
<1>6. CASE algorithm = "kosaraju"
  <2>1. /\ RootsTaken /\ ListsAll(order) /\ RootList = order
    <3>1. RootList = order /\ visits # Turns
      BY <1>6 DEF Numbering, RootList, RootsInv
    <3> QED
      BY <3>1 DEF Numbering, RootsInv
  <2>2. /\ Taken > 0 /\ root = order[Taken] /\ num_nodes \in Nat /\ Taken \in 1 .. num_nodes
        /\ \A k \in 1 .. Taken - 1 : order[k] \notin white[root]
    <3>1. num_nodes \in Nat /\ Len(roots) \in 0 .. num_nodes
      BY <2>1, FullFacts DEF Numbering, RootsTaken
    <3> QED
      BY <3>1, <2>1 DEF RootsTaken, Taken
  <2>3. PICK W \in SUBSET Nodes :
          /\ order[Taken] \in W
          /\ \A j \in Taken .. num_nodes : IF order[j] \in W
                                           THEN order[j] \in Reached(input, {order[Taken]})
                                           ELSE input[order[j]] \cap W = {}
    <3>1. Taken \in 0 + 1 .. num_nodes
      BY <2>2
    <3> QED
      BY <3>1, <1>6 DEF Numbering, Placed, PlacedIn
  <2>4. ASSUME NEW y \in white[root] PROVE \E j \in Taken .. num_nodes : order[j] = y
    <3>1. PICK j \in 1 .. num_nodes : order[j] = y
      BY <2>1, <1>1 DEF ListsAll
    <3>2. j \notin 1 .. Taken - 1
      BY <3>1, <2>2
    <3>3. j \in Taken .. num_nodes
      BY <3>2, <2>2
    <3> QED
      BY <3>1, <3>3
  <2> DEFINE C == W \cap white[root]
             H == Within(graph, white[root])
  <2>5. ASSUME NEW x \in C PROVE H[x] \subseteq C
    <3> SUFFICES ASSUME NEW y \in H[x] PROVE y \in C
      OBVIOUS
    <3>1. x \in Nodes /\ y \in graph[x] /\ y \in white[root] /\ y \in Nodes
      BY <1>1, <1>2 DEF Within
    <3>2. x \in input[y]
      BY <3>1, <1>2, TransposedGraph
    <3>3. PICK j \in Taken .. num_nodes : order[j] = y
      BY <2>4, <3>1
    <3> QED
      BY <3>1, <3>2, <3>3, <2>3
  <2>6. H \in [DOMAIN graph -> SUBSET DOMAIN graph] /\ IsFiniteSet(DOMAIN graph)
    BY <1>2, WithinGraph
  <2>7. root \in C /\ C \subseteq DOMAIN graph
    BY <1>1, <1>2, <2>2, <2>3
  <2>8. u \in Reached(H, {root})
    BY <1>1
  <2> HIDE DEF C, H
  <2>9. {root} \subseteq C
    BY <2>7
  <2>10. Reached(H, {root}) \subseteq C
    BY <2>5, <2>6, <2>7, <2>9, ReachedLeast
  <2>11. u \in W /\ u \in white[root]
    BY <2>8, <2>10 DEF C
  <2>12. PICK j \in Taken .. num_nodes : order[j] = u
    BY <2>4, <2>11
  <2> QED
    BY <2>2, <2>3, <2>11, <2>12, <1>4
<1> QED
  BY <1>5, <1>6 DEF Numbering

(* When a root is done its tree is a component of the graph.               *)
LEMMA TreeDone ==
  ASSUME Numbering, pc = "recurse", path = << >>, num_components' = num_components + 1,
         UNCHANGED <<components, known, graph, input>>
  PROVE  Labelled(known)'
<1> DEFINE S == Nodes \ white[root]
           T == known \cap white[root]
<1>1. /\ known = S \cup T /\ root \in T /\ S \cap T = {} /\ root \in Nodes
      /\ known \subseteq Nodes
      /\ \A u \in S : graph[u] \subseteq S
  <2>1. /\ IsDigraph(graph) /\ DOMAIN graph = Nodes /\ known \subseteq Nodes
        /\ root \in known /\ root \in Nodes /\ root \in white[root]
        /\ \A u \in S : u \in known /\ graph[u] \cap white[root] = {}
    BY FullFacts DEF Numbering, FullRun, TreeInv, WhiteChain, Nodes
  <2>2. \A u \in Nodes : graph[u] \subseteq Nodes
    BY <2>1 DEF IsDigraph
  <2> QED
    BY <2>1, <2>2
<1>2. /\ components \in [Nodes -> Nat \cup {Unwritten}] /\ num_components \in Nat
      /\ \A u \in T : components[u] = num_components
      /\ \A u, v \in S : components[u] = components[v] <=> SameComponent(input, u, v)
      /\ {components[u] : u \in S} = 0 .. num_components - 1
      /\ \A u \in S : \A v \in graph[u] : components[v] <= components[u]
  BY DEF Numbering, LabelInv, Labelled, Components
<1>3. \A u \in known : graph[u] \subseteq known
  <2>1. ToSet(<< >>) = {} /\ Exhausted(graph, path, known)
    BY FullFacts DEF Numbering, ToSet
  <2> QED
    BY <2>1 DEF Exhausted
<1>4. /\ \A u \in S : components[u] \in 0 .. num_components - 1
      /\ \A u \in S : components[u] \in Nat /\ components[u] < num_components
  <2>1. \A u \in S : components[u] \in 0 .. num_components - 1
    BY <1>2
  <2> QED
    BY <2>1, <1>2
<1>5. IsDigraph(input) /\ DOMAIN input = Nodes
  BY DEF Numbering
<1>6. \A u, v \in T : SameComponent(input, u, v)
  <2>1. \A u \in T : SameComponent(input, root, u)
    BY TreeReached DEF SameComponent
  <2> QED
    BY <2>1, <1>1, <1>5, SameComponentClass
<1>7. \A u \in T : \A v \in S : ~SameComponent(input, u, v) /\ ~SameComponent(input, v, u)
  <2> SUFFICES ASSUME NEW u \in T, NEW v \in S, v \in Reached(input, {u}) PROVE FALSE
    BY DEF SameComponent
  <2>1. u \in Reached(graph, {v}) /\ u \in Nodes /\ v \in Nodes
    BY <1>1, BothWays
  <2>2. S \in SUBSET DOMAIN graph /\ IsDigraph(graph) /\ v \in DOMAIN graph
    BY FullFacts DEF Numbering, Nodes
  <2> HIDE DEF S
  <2>3. Reached(graph, {v}) \subseteq S
    BY <2>2, <1>1, Reaching
  <2> QED
    BY <2>1, <2>3, <1>1
<1> HIDE DEF S, T
<1>8. \A u, v \in known : components[u] = components[v] <=> SameComponent(input, u, v)
  <2> SUFFICES ASSUME NEW u \in known, NEW v \in known
               PROVE  components[u] = components[v] <=> SameComponent(input, u, v)
    OBVIOUS
  <2>1. CASE u \in S /\ v \in S
    BY <2>1, <1>2
  <2>2. CASE u \in T /\ v \in T
    BY <2>2, <1>2, <1>6
  <2>3. CASE u \in S /\ v \in T
    BY <2>3, <1>2, <1>4, <1>7
  <2>4. CASE u \in T /\ v \in S
    BY <2>4, <1>2, <1>4, <1>7
  <2> QED
    BY <2>1, <2>2, <2>3, <2>4, <1>1
<1>9. {components[u] : u \in known} = 0 .. (num_components + 1) - 1
  <2>1. 0 .. (num_components + 1) - 1 = (0 .. num_components - 1) \cup {num_components}
    BY <1>2
  <2>2. {components[u] : u \in known} = {components[u] : u \in S} \cup {num_components}
    BY <1>1, <1>2
  <2> QED
    BY <2>1, <2>2, <1>2
<1>10. \A u \in known : \A v \in graph[u] : components[v] <= components[u]
  <2> SUFFICES ASSUME NEW u \in known, NEW v \in graph[u]
               PROVE  components[v] <= components[u]
    OBVIOUS
  <2>1. CASE u \in S
    BY <2>1, <1>2
  <2>2. CASE u \in T
    <3>1. v \in S \/ v \in T
      BY <1>1, <1>3
    <3> QED
      BY <2>2, <3>1, <1>2, <1>4
  <2> QED
    BY <2>1, <2>2, <1>1
<1> QED
  BY <1>8, <1>9, <1>10 DEF Labelled, Components

LEMMA SameLabels ==
  ASSUME Labelled(known), UNCHANGED <<components, num_components, known, graph, input>>
  PROVE  Labelled(known)'
BY DEF Labelled, Components

LEMMA EnteredLabels ==
  ASSUME Numbering, NEW u \in Nodes, Entered(u),
         components' = [components EXCEPT ![u] = num_components],
         num_components' = num_components, UNCHANGED <<graph, input>>,
         NEW S, S \subseteq Nodes, u \notin S, Labelled(S), \A x \in S : graph[x] \subseteq S,
         Nodes \ white'[root] = S,
         (known' \cap white'[root]) \ {u} = {x \in known \cap white[root] : pc = "recurse"}
  PROVE  LabelInv'
<1>1. /\ components \in [Nodes -> Nat \cup {Unwritten}] /\ num_components \in Nat
      /\ pc = "recurse" => \A x \in known \cap white[root] : components[x] = num_components
      /\ known \subseteq Nodes
  BY FullFacts DEF Numbering, LabelInv
<1>2. /\ components'[u] = num_components /\ \A x \in Nodes \ {u} : components'[x] = components[x]
      /\ components' \in [Nodes -> Nat \cup {Unwritten}] /\ Nodes' = Nodes
      /\ pc' = "recurse" /\ root' = root
  BY <1>1 DEF Entered, Nodes
<1>3. \A x \in S : components'[x] = components[x]
  BY <1>2
<1>4. ASSUME NEW x \in known' \cap white'[root] PROVE components'[x] = num_components
  <2>1. CASE x = u
    BY <2>1, <1>2
  <2>2. CASE x # u
    <3>1. x \in known \cap white[root] /\ pc = "recurse" /\ x \in Nodes \ {u}
      BY <2>2, <1>1
    <3> QED
      BY <3>1, <1>1, <1>2
  <2> QED
    BY <2>1, <2>2
<1>5. /\ \A x, y \in S : components'[x] = components'[y] <=> SameComponent(input, x, y)
      /\ {components'[x] : x \in S} = 0 .. num_components - 1
      /\ \A x \in S : \A y \in graph[x] : components'[y] <= components'[x]
  <2>1. /\ \A x, y \in S : components[x] = components[y] <=> SameComponent(input, x, y)
        /\ {components[x] : x \in S} = 0 .. num_components - 1
        /\ \A x \in S : \A y \in graph[x] : components[y] <= components[x]
    BY DEF Labelled, Components
  <2>2. \A x \in S : \A y \in graph[x] : y \in S
    OBVIOUS
  <2>3. {components'[x] : x \in S} = {components[x] : x \in S}
    BY <1>3
  <2> QED
    BY <2>1, <2>2, <2>3, <1>3
<1>6. Labelled(Nodes \ white[root])'
  <2>1. Nodes' \ white'[root'] = S
    BY <1>2
  <2> QED
    BY <2>1, <1>5 DEF Labelled, Components
<1> QED
  BY <1>1, <1>2, <1>4, <1>6 DEF LabelInv, Unwritten

LEMMA LabelStep ==
  ASSUME Numbering, DfsStep, CallLabel, kind = "nopred", UNCHANGED input
  PROVE  LabelInv'
<1>1. ~broke' /\ graph' = graph /\ Nodes' = Nodes
  BY DEF DfsStep, SkipRoot, InitRoot, PrevisitRoot, EndRoots, Revisit, Ignore, Previsit,
     Postvisit, DoneRoot, inputs, Nodes, CallLabel
<1>2. /\ components \in [Nodes -> Nat \cup {Unwritten}] /\ num_components \in Nat
      /\ known \subseteq Nodes /\ IsDigraph(graph) /\ Exhausted(graph, path, known)
      /\ \A x \in Nodes : graph[x] \subseteq Nodes
  BY FullFacts DEF Numbering, LabelInv, IsDigraph, Nodes
<1>3. CASE PrevisitRoot \/ Previsit
  <2>1. PICK u \in Nodes : /\ Entered(u) /\ event'.type = "Previsit" /\ event'.node = u
                           /\ PrevisitRoot => u = root /\ path = << >>
                           /\ Previsit => u = Succ /\ path # << >>
    BY <1>1, <1>3, StepEnters DEF Numbering
  <2>2. /\ components' = [components EXCEPT ![u] = num_components]
        /\ num_components' = num_components
    BY <2>1 DEF CallLabel
  <2>3. /\ u \notin known /\ known' = known \cup {u} /\ white' = [white EXCEPT ![u] = Nodes \ known]
        /\ white \in [Nodes -> SUBSET Nodes] /\ \A x \in known : Nodes \ known \subseteq white[x]
    BY <2>1 DEF Entered, Numbering, FullRun, WhiteInv, WhiteChain
  <2>4. CASE PrevisitRoot
    <3>1. u = root /\ white'[root] = Nodes \ known /\ pc = "previsit"
      BY <2>1, <2>3, <2>4 DEF PrevisitRoot
    <3>2. /\ Nodes \ white'[root] = known
          /\ (known' \cap white'[root]) \ {u} = {x \in known \cap white[root] : pc = "recurse"}
      BY <3>1, <2>3, <1>2
    <3>3. \A x \in known : graph[x] \subseteq known
      <4>1. path = << >> /\ ToSet(<< >>) = {}
        BY <2>1, <2>4 DEF ToSet
      <4> QED
        BY <4>1, <1>2 DEF Exhausted
    <3>4. Labelled(known)
      BY <3>1 DEF Numbering, LabelInv
    <3> QED
      BY <2>1, <2>2, <2>3, <3>2, <3>3, <3>4, <1>1, <1>2, EnteredLabels
  <2>5. CASE Previsit
    <3>1. pc = "recurse" /\ root \in known /\ root \in Nodes /\ root # u
          /\ \A x \in Nodes \ white[root] : x \in known /\ graph[x] \cap white[root] = {}
      BY <2>3, <2>5 DEF Previsit, AtArc, Numbering, FullRun, TreeInv
    <3>2. white'[root] = white[root] /\ u \in white[root]
      BY <2>1, <2>3, <3>1
    <3>3. /\ u \notin Nodes \ white[root] /\ \A x \in Nodes \ white[root] : graph[x] \subseteq Nodes \ white[root]
      BY <1>2, <3>1, <3>2
    <3>4. (known' \cap white'[root]) \ {u} = {x \in known \cap white[root] : pc = "recurse"}
      BY <2>3, <3>1, <3>2
    <3>5. Labelled(Nodes \ white[root])
      BY <3>1 DEF Numbering, LabelInv
    <3> QED
      BY <2>1, <2>2, <3>2, <3>3, <3>4, <3>5, <1>1, EnteredLabels
  <2> QED
    BY <1>3, <2>4, <2>5
<1>4. CASE DoneRoot
  <2>1. /\ pc = "recurse" /\ stack = << >> /\ event'.type = "Done" /\ pc' # "recurse"
        /\ known' = known
    BY <1>1, <1>4 DEF DoneRoot, Goes
  <2>2. components' = components /\ num_components' = num_components + 1
    BY <2>1 DEF CallLabel
  <2>3. path = << >>
    <3>1. Along(graph, stack, path, known)
      BY <2>1 DEF Numbering, FullRun, PathInv, Active, OnPath
    <3>2. path \in Seq(Nodes) /\ Len(path) = Len(<< >>) /\ Len(<< >>) = 0
      BY <2>1, <3>1 DEF Along, Nodes
    <3> QED
      BY <3>2, EmptySeq
  <2>4. Labelled(known)'
    BY <1>1, <2>1, <2>2, <2>3, TreeDone
  <2> QED
    BY <1>1, <1>2, <2>1, <2>2, <2>4 DEF LabelInv, Unwritten
<1>5. CASE Revisit \/ Ignore \/ Postvisit
  <2>1. /\ pc = "recurse" /\ pc' = "recurse" /\ UNCHANGED <<known, white, root>>
        /\ event'.type \notin {"Previsit", "Done"}
    <3>1. event'.type \in {"Revisit", "none"}
      BY <1>5 DEF Revisit, Ignore, Postvisit, NoEvent
    <3> QED
      BY <1>1, <1>5, <3>1 DEF Revisit, Ignore, Postvisit, AtArc, Goes
  <2>2. components' = components /\ num_components' = num_components
    BY <2>1 DEF CallLabel
  <2>3. Labelled(Nodes \ white[root])
    BY <2>1 DEF Numbering, LabelInv
  <2>4. Labelled(Nodes \ white[root])'
    BY <2>1, <2>2, <2>3, <1>1 DEF Labelled, Components
  <2> QED
    BY <1>1, <1>2, <2>1, <2>2, <2>4 DEF Numbering, LabelInv, Unwritten
<1>6. CASE SkipRoot \/ InitRoot \/ EndRoots
  <2>1. /\ pc # "recurse" /\ pc' # "recurse" /\ known' = known
        /\ event'.type \in {"none", "Init", "end"}
    BY <1>6 DEF SkipRoot, InitRoot, EndRoots, NoEvent, Goes
  <2>2. components' = components /\ num_components' = num_components
    BY <2>1 DEF CallLabel
  <2>3. Labelled(known)'
    BY <1>1, <2>1, <2>2, SameLabels DEF Numbering, LabelInv
  <2> QED
    BY <1>1, <1>2, <2>1, <2>2, <2>3 DEF LabelInv, Unwritten
<1> QED
  BY <1>3, <1>4, <1>5, <1>6 DEF DfsStep

-----------------------------------------------------------------------------
(* An arrangement of n numbers by decreasing size lies nowhere below       *)
(* another one: else too many numbers would be too large for it.           *)
LEMMA UpToPlace ==
  ASSUME NEW n \in Nat, NEW k \in 0 .. n - 1
  PROVE  /\ \A j \in 0 .. k : j \in 0 .. n - 1 /\ (j = k \/ j < k)
         /\ \A m \in 0 .. n - 1 : m \in 0 .. k - 1 \/ m = k \/ k < m
OBVIOUS

Falls(f, p, n) == \A i, j \in 0 .. n - 1 : i < j => f[p[i]] >= f[p[j]]
Onto(q, n) == \A c \in 0 .. n - 1 : \E i \in 0 .. n - 1 : q[i] = c

LEMMA FallsBefore ==
  ASSUME NEW n \in Nat, NEW f \in [0 .. n - 1 -> Nat],
         NEW p \in [0 .. n - 1 -> 0 .. n - 1], Falls(f, p, n),
         NEW k \in 0 .. n - 1, NEW j \in 0 .. k
  PROVE  f[p[j]] >= f[p[k]]
<1>1. j \in 0 .. n - 1 /\ (j = k \/ j < k)
  OBVIOUS
<1>2. j < k => f[p[j]] >= f[p[k]]
  BY <1>1 DEF Falls
<1>3. f[p[k]] \in Nat
  OBVIOUS
<1>4. f[p[k]] >= f[p[k]]
  BY <1>3
<1> QED
  BY <1>1, <1>2, <1>4

LEMMA FallsAfter ==
  ASSUME NEW n \in Nat, NEW f \in [0 .. n - 1 -> Nat],
         NEW p \in [0 .. n - 1 -> 0 .. n - 1], Falls(f, p, n),
         NEW k \in 0 .. n - 1, NEW m \in 0 .. n - 1, f[p[m]] > f[p[k]]
  PROVE  m \in 0 .. k - 1
<1>1. f[p[m]] \in Nat /\ f[p[k]] \in Nat
  OBVIOUS
<1>2. m # k
  BY <1>1
<1>3. ~(k < m)
  BY <1>1 DEF Falls
<1> QED
  BY <1>2, <1>3

LEMMA NotBelow ==
  ASSUME NEW n \in Nat, NEW f \in [0 .. n - 1 -> Nat],
         NEW p \in [0 .. n - 1 -> 0 .. n - 1], IsInjective(p),
         NEW q \in [0 .. n - 1 -> 0 .. n - 1], Onto(q, n),
         Falls(f, p, n), Falls(f, q, n), NEW k \in 0 .. n - 1
  PROVE  f[q[k]] >= f[p[k]]
<1> SUFFICES ASSUME f[q[k]] < f[p[k]] PROVE FALSE
  <2>1. f[q[k]] \in Nat /\ f[p[k]] \in Nat
    OBVIOUS
  <2> QED
    BY <2>1
<1> DEFINE place == [c \in 0 .. n - 1 |-> CHOOSE i \in 0 .. n - 1 : q[i] = c]
           h == [j \in 0 .. k |-> place[p[j]]]
<1>1. \A c \in 0 .. n - 1 : place[c] \in 0 .. n - 1 /\ q[place[c]] = c
  BY DEF Onto
<1>2. /\ \A j \in 0 .. k : j \in 0 .. n - 1 /\ (j = k \/ j < k)
      /\ \A m \in 0 .. n - 1 : m \in 0 .. k - 1 \/ m = k \/ k < m
  BY UpToPlace
<1>3. /\ \A j \in 0 .. n - 1 : p[j] \in 0 .. n - 1 /\ q[j] \in 0 .. n - 1 /\ f[p[j]] \in Nat /\ f[q[j]] \in Nat
      /\ \A i, j \in 0 .. n - 1 : p[i] = p[j] => i = j
  BY DEF IsInjective
<1> HIDE DEF place
<1>4. \A j \in 0 .. k : h[j] \in 0 .. n - 1 /\ q[h[j]] = p[j]
  BY <1>1, <1>2, <1>3
<1> HIDE DEF h
<1>5. ASSUME NEW j \in 0 .. k PROVE h[j] \in 0 .. k - 1
  <2>1. h[j] \in 0 .. n - 1 /\ q[h[j]] = p[j]
    BY <1>4
  <2>2. f[p[j]] >= f[p[k]]
    BY FallsBefore
  <2>3. p[j] \in 0 .. n - 1 /\ p[k] \in 0 .. n - 1 /\ q[k] \in 0 .. n - 1
    BY <1>2
  <2>4. f[p[j]] \in Nat /\ f[p[k]] \in Nat /\ f[q[k]] \in Nat
    BY <2>3
  <2>5. f[p[j]] > f[q[k]]
    <3>1. \A x, y, z \in Nat : x >= y /\ z < y => x > z
      OBVIOUS
    <3> QED
      BY <2>2, <2>4, <3>1
  <2>6. f[q[h[j]]] > f[q[k]]
    BY <2>1, <2>5
  <2> QED
    BY <2>1, <2>6, FallsAfter
<1>10. ASSUME NEW i \in 0 .. k, NEW j \in 0 .. k, h[i] = h[j] PROVE i = j
  <2>1. p[i] = p[j]
    BY <1>4, <1>10
  <2> QED
    BY <2>1, <1>2, <1>3
<1>6. h \in Injection(0 .. k, 0 .. k - 1)
  <2>1. h \in [0 .. k -> 0 .. k - 1]
    BY <1>5 DEF h
  <2>2. IsInjective(h)
    BY <2>1, <1>10 DEF IsInjective
  <2> QED
    BY <2>1, <2>2 DEF Injection
<1>7. k \in Nat /\ k + 1 \in Nat /\ (k + 1) - 1 = k
  <2>1. k \in 0 .. n - 1
    OBVIOUS
  <2> QED
    BY <2>1
<1>8. /\ IsFiniteSet(0 .. k - 1) /\ Cardinality(0 .. k - 1) = k
      /\ Cardinality(0 .. (k + 1) - 1) = k + 1
  BY <1>7, CountInterval
<1>9. Cardinality(0 .. k) <= Cardinality(0 .. k - 1)
  BY <1>6, <1>8, FS_Injection
<1> QED
  BY <1>7, <1>8, <1>9

LEMMA PermsOnto ==
  ASSUME NEW n \in Nat, NEW p \in [0 .. n - 1 -> 0 .. n - 1], IsInjective(p)
  PROVE  Onto(p, n)
<1>1. p \in Injection(0 .. n - 1, 0 .. n - 1)
  BY DEF Injection
<1>2. IsFiniteSet(0 .. n - 1)
  BY CountInterval
<1>3. p \in Surjection(0 .. n - 1, 0 .. n - 1)
  BY <1>1, <1>2, FS_Injection
<1> QED
  BY <1>3 DEF Surjection, Onto

LEMMA SameArrangement ==
  ASSUME NEW n \in Nat, NEW f \in [0 .. n - 1 -> Nat],
         NEW p \in [0 .. n - 1 -> 0 .. n - 1], IsInjective(p), NEW q \in [0 .. n - 1 -> 0 .. n - 1], IsInjective(q),
         Falls(f, p, n), Falls(f, q, n)
  PROVE  \A k \in 0 .. n - 1 : f[q[k]] = f[p[k]]
<1> TAKE k \in 0 .. n - 1
<1>1. f[q[k]] >= f[p[k]] /\ f[p[k]] >= f[q[k]]
  BY PermsOnto, NotBelow
<1>2. f[q[k]] \in Nat /\ f[p[k]] \in Nat
  OBVIOUS
<1> QED
  BY <1>1, <1>2

(* The components keep apart under their new numbers, which go by size.    *)
LEMMA SortedBySize ==
  ASSUME IsFiniteSet(Nodes), DOMAIN components = Nodes, num_components \in Nat,
         stage = "done", algorithm \in {"symm_seq", "kosaraju"},
         OrdersExact, SccsExact, SortBySize
  PROVE  /\ DOMAIN components' = Nodes' /\ num_components' \in Nat
         /\ OrdersExact' /\ SccsExact'
<1> DEFINE C == 0 .. num_components - 1
           f == [c \in C |-> SizeOf(c)]
<1>1. /\ UNCHANGED <<dfsVars, graph, algorithm, input, num_components, order>>
      /\ stage' = "sorted" /\ Nodes' = Nodes /\ Components = C /\ Components' = C
  BY DEF SortBySize, dfsVars, inputs, Nodes, Components
<1>2. PICK p \in SortPerms : components' = [u \in Nodes |-> Renumbering(p)[components[u]]]
  BY DEF SortBySize
<1>3. PICK q \in SortPerms : sizes' = [i \in 1 .. num_components |-> SizeOf(q[i - 1])]
  BY DEF SortBySize
<1>4. \A c \in C : SizeOf(c) \in Nat
  <2> TAKE c \in C
  <2>1. {u \in Nodes : components[u] = c} \subseteq Nodes
    OBVIOUS
  <2> QED
    BY <2>1, FS_Subset, FS_CardinalityType DEF SizeOf
<1>5. /\ p \in [C -> C] /\ IsInjective(p) /\ q \in [C -> C] /\ IsInjective(q)
      /\ \A i, j \in C : i < j => SizeOf(p[i]) >= SizeOf(p[j])
      /\ \A i, j \in C : i < j => SizeOf(q[i]) >= SizeOf(q[j])
  BY <1>1 DEF SortPerms, BySize
<1>6. /\ f \in [C -> Nat] /\ \A c \in C : f[c] = SizeOf(c)
  BY <1>4
<1> HIDE DEF f
<1>7. \A k \in C : SizeOf(q[k]) = SizeOf(p[k])
  <2>1. Falls(f, p, num_components) /\ Falls(f, q, num_components)
    BY <1>5, <1>6 DEF Falls
  <2>2. \A k \in C : f[q[k]] = f[p[k]]
    BY <1>5, <1>6, <2>1, SameArrangement
  <2> QED
    BY <2>2, <1>5, <1>6
<1>8. \A c \in C : \E i \in C : p[i] = c
  BY <1>5, PermsOnto DEF Onto
<1> DEFINE R == Renumbering(p)
<1>9. \A c \in C : R[c] \in C /\ p[R[c]] = c
  BY <1>8, <1>1 DEF Renumbering
<1> HIDE DEF R
<1>10. /\ \A u, v \in Nodes : components[u] = components[v] <=> SameComponent(input, u, v)
       /\ {components[u] : u \in Nodes} = C
  BY <1>1 DEF SccsExact, ComponentsExact, Finished, Range
<1>11. /\ \A u \in Nodes : components[u] \in C
       /\ \A u \in Nodes : components'[u] = R[components[u]]
       /\ DOMAIN components' = Nodes
  BY <1>2, <1>10 DEF R
<1>12. \A u \in Nodes : /\ components'[u] \in C /\ p[components'[u]] = components[u]
                        /\ \A c \in C : components'[u] = c <=> components[u] = p[c]
  <2> TAKE u \in Nodes
  <2>1. components'[u] \in C /\ p[components'[u]] = components[u]
    BY <1>9, <1>11
  <2>2. ASSUME NEW c \in C PROVE components'[u] = c <=> components[u] = p[c]
    BY <2>1, <1>5 DEF IsInjective
  <2> QED
    BY <2>1, <2>2
<1>13. \A u, v \in Nodes : components'[u] = components'[v] <=> SameComponent(input, u, v)
  <2> SUFFICES ASSUME NEW u \in Nodes, NEW v \in Nodes
               PROVE  components'[u] = components'[v] <=> components[u] = components[v]
    BY <1>10
  <2> QED
    BY <1>12, <1>11
<1>14. {components'[u] : u \in Nodes} = C
  <2>1. ASSUME NEW c \in C PROVE \E u \in Nodes : components'[u] = c
    <3>1. p[c] \in C
      BY <1>5
    <3>2. PICK u \in Nodes : components[u] = p[c]
      BY <3>1, <1>10
    <3> QED
      BY <3>2, <1>12
  <2> QED
    BY <2>1, <1>12
<1>15. ComponentsExact'
  <2>1. Range(components') = C
    BY <1>11, <1>14 DEF Range
  <2> QED
    BY <2>1, <1>1, <1>13 DEF ComponentsExact
<1>16. \A c \in C : SizeOf(c)' = SizeOf(p[c])
  <2> TAKE c \in C
  <2>1. {u \in Nodes : components'[u] = c} = {u \in Nodes : components[u] = p[c]}
    BY <1>12
  <2>2. SizeOf(c)' = Cardinality({u \in Nodes : components'[u] = c})
    BY <1>1 DEF SizeOf
  <2> QED
    BY <2>1, <2>2 DEF SizeOf
<1>17. SizesDecrease'
  <2>1. sizes' \in Seq(Nat) /\ Len(sizes') = num_components
    <3>1. ASSUME NEW i \in 1 .. num_components PROVE SizeOf(q[i - 1]) \in Nat
      <4>1. i - 1 \in C
        OBVIOUS
      <4> QED
        BY <4>1, <1>4, <1>5
    <3>2. sizes' \in [1 .. num_components -> Nat]
      BY <1>3, <3>1
    <3>3. sizes' \in Seq(Nat)
      BY <3>2
    <3> QED
      BY <3>2, <3>3, LenProperties
  <2>2. ASSUME NEW c \in C PROVE sizes'[c + 1] = SizeOf(q[c])
    <3>1. c + 1 \in 1 .. num_components /\ (c + 1) - 1 = c
      OBVIOUS
    <3> QED
      BY <3>1, <1>3
  <2>3. ASSUME NEW i \in 1 .. num_components - 1 PROVE sizes'[i] >= sizes'[i + 1]
    <3>1. i - 1 \in C /\ i \in C /\ (i - 1) + 1 = i /\ i - 1 < i
      OBVIOUS
    <3> QED
      BY <3>1, <2>2, <1>5
  <2>4. \A c \in C : sizes'[c + 1] = SizeOf(c)'
    BY <2>2, <1>7, <1>16
  <2> QED
    BY <2>1, <2>3, <2>4, <1>1 DEF SizesDecrease
<1>18. OrdersExact'
  <2>1. Unwritten \notin C
    BY DEF Unwritten
  <2>2. Range(components') = C
    BY <1>11, <1>14 DEF Range
  <2>3. AssumeInitSound'
    BY <2>1, <2>2, <1>1 DEF AssumeInitSound, Unwritten
  <2> QED
    BY <2>3, <1>1 DEF OrdersExact, TopologicalOrder, AcyclicExact
<1> QED
  BY <1>1, <1>11, <1>15, <1>17, <1>18 DEF SccsExact

-----------------------------------------------------------------------------
(* The list of all nodes.                                                  *)
LEMMA AllNodesLists ==
  ASSUME IsDigraph(graph)
  PROVE  ListsAll(AllNodes)
<1>1. num_nodes \in Nat /\ Nodes = 0 .. num_nodes - 1
  BY FS_CardinalityType DEF IsDigraph, Nodes, num_nodes
<1>2. AllNodes \in [1 .. num_nodes -> Nodes]
  BY <1>1 DEF AllNodes
<1>3. \A v \in Nodes : v + 1 \in 1 .. num_nodes /\ AllNodes[v + 1] = v
  BY <1>1 DEF AllNodes
<1> QED
  BY <1>2, <1>3 DEF ListsAll

LEMMA FullInit ==
  ASSUME NEW graphs, NEW kinds, DfsInit(graphs, kinds, {NoFilter}),
         \A g \in graphs : IsDigraph(g)
  PROVE  /\ FullRun /\ IsDigraph(graph) /\ Left = {} /\ known = {} /\ pc = "idle" /\ ~broke
         /\ path = << >> /\ visits = 0
<1>1. PathInv /\ WhiteInv
  BY InitPathInv, InitWhite
<1>2. /\ known = {} /\ path = << >> /\ pc = "idle" /\ Full /\ IsDigraph(graph) /\ ~broke
      /\ visits = 0
  BY DEF DfsInit, Full
<1>3. WhiteChain /\ ApartInv /\ TreeInv /\ Left = {}
  BY <1>2 DEF WhiteChain, ApartInv, TreeInv, Left
<1> QED
  BY <1>1, <1>2, <1>3 DEF FullRun

LEMMA NothingLabelled ==
  ASSUME num_components = 0
  PROVE  Labelled({})
<1>1. 0 .. num_components - 1 = {}
  OBVIOUS
<1> QED
  BY <1>1 DEF Labelled, Components

LEMMA AlgorithmInitInv == AlgorithmInit => AlgorithmInv
<1> SUFFICES ASSUME AlgorithmInit PROVE AlgorithmInv
  OBVIOUS
<1> DEFINE graphs == IF algorithm = "symm_seq" THEN SymmetricGraphs ELSE Graphs
<1>1. /\ algorithm \in {"top_sort", "is_acyclic", "symm_seq", "kosaraju"}
      /\ algorithm \in Algorithms /\ DfsInit(graphs, {KindFor(algorithm)}, {NoFilter})
  BY AlgorithmsAssumption DEF AlgorithmInit
<1>2. \A g \in graphs : IsDigraph(g)
  BY AlgorithmsAssumption, SeqDfsAssumption
<1> HIDE DEF graphs
<1>3. /\ FullRun /\ IsDigraph(graph) /\ Left = {} /\ known = {} /\ pc = "idle" /\ ~broke
      /\ path = << >> /\ visits = 0
  BY <1>1, <1>2, FullInit
<1>4. /\ graph \in graphs /\ kind = KindFor(algorithm)
  BY <1>1 DEF DfsInit
<1>5. num_nodes \in Nat /\ Nodes = DOMAIN graph
  BY <1>3, FS_CardinalityType DEF IsDigraph, Nodes, num_nodes
<1>6. algorithm = "symm_seq" => graph = Transposed(graph)
  <2> SUFFICES ASSUME algorithm = "symm_seq" PROVE graph = Transposed(graph)
    OBVIOUS
  <2>1. Symmetric(graph)
    BY <1>4, AlgorithmsAssumption DEF graphs
  <2>2. graph \in [DOMAIN graph -> SUBSET DOMAIN graph]
    BY <1>3 DEF IsDigraph
  <2>3. \A v \in DOMAIN graph : graph[v] = {u \in DOMAIN graph : v \in graph[u]}
    BY <2>1, <2>2 DEF Symmetric
  <2> QED
    BY <2>2, <2>3 DEF Transposed
<1>7. /\ input = graph /\ stage = FirstPhase(algorithm)
      /\ stage \in {"order", "label"} /\ (stage = "label" <=> algorithm = "symm_seq")
  BY <1>1 DEF AlgorithmInit, FirstPhase
<1>8. Frame
  <2>1. /\ algorithm = "is_acyclic" => kind = "path"
        /\ algorithm = "symm_seq" => kind = "nopred"
        /\ algorithm \in {"top_sort", "kosaraju"} => kind = "pred"
    BY <1>4 DEF KindFor
  <2> QED
    BY <1>1, <1>3, <1>5, <1>6, <1>7, <2>1 DEF Frame
<1>9. RootsInv
  <2>1. Turns = 0 /\ RootList = AllNodes
    BY <1>7 DEF Turns, RootList
  <2> QED
    BY <1>3, <2>1, AllNodesLists DEF RootsInv
<1>10. /\ num_components = 0 /\ components \in [Nodes -> Nat \cup {Unwritten}] /\ acyclic = TRUE
       /\ order = [i \in 1 .. num_nodes |-> Unwritten] /\ pos = num_nodes
  BY DEF AlgorithmInit
<1>11. OrderInv
  <2>1. Cardinality(Left) = 0 /\ pos = num_nodes - Cardinality(Left)
    BY <1>3, <1>5, <1>10, FS_EmptySet
  <2>2. pos + 1 .. num_nodes = {}
    BY <1>5, <1>10
  <2>3. order \in [1 .. num_nodes -> Nodes \cup {Unwritten}]
    BY <1>10
  <2> QED
    BY <1>3, <2>1, <2>2, <2>3 DEF OrderInv, Placed, PlacedIn
<1>12. CycleInv
  BY <1>3, <1>10 DEF CycleInv
<1>13. LabelInv
  BY <1>3, <1>10, NothingLabelled DEF LabelInv
<1> QED
  BY <1>3, <1>7, <1>8, <1>9, <1>10, <1>11, <1>12, <1>13 DEF AlgorithmInv

-----------------------------------------------------------------------------
LEMMA StartInv ==
  ASSUME AlgorithmInv, StartAlgorithm
  PROVE  AlgorithmInv'
<1>1. /\ visits = Turns /\ StartVisit(RootList) /\ UNCHANGED <<algorithm, input, stage, mine>>
      /\ pc = "idle"
  BY DEF StartAlgorithm, RootList, Turns, StartVisit
<1>2. /\ UNCHANGED <<order, pos, components, num_components, sizes, acyclic, graph, kind, known>>
      /\ Nodes' = Nodes /\ num_nodes' = num_nodes /\ pc' = "roots" /\ path' = << >> /\ ~broke'
  BY <1>1 DEF mine, StartVisit, inputs, Nodes, num_nodes
<1>3. stage \in {"order", "label"}
  <2>1. stage \notin {"done", "sorted"}
    BY <1>1 DEF AlgorithmInv, Turns
  <2> QED
    BY <2>1 DEF AlgorithmInv, Frame
<1>4. Frame /\ FullRun /\ RootsInv
  BY <1>3 DEF AlgorithmInv
<1>5. known = {} /\ ~broke /\ path = << >> /\ ListsAll(RootList) /\ Left = {} /\ Left' = {}
  BY <1>1, <1>2, <1>4 DEF RootsInv, Left
<1>6. RootList \in Seq(Nodes)
  <2>1. num_nodes \in Nat
    BY <1>4, <1>5, FullFacts
  <2> QED
    BY <2>1, <1>5 DEF ListsAll
<1>7. FullRun'
  BY <1>1, <1>4, <1>5, <1>6, FullStart
<1>8. RootsInv'
  <2>1. RootList' = RootList /\ Turns' = Turns
    BY <1>1, <1>2 DEF RootList, Turns, AllNodes
  <2> QED
    BY <1>1, <1>4, <2>1, RootsBegin
<1>9. Frame'
  BY <1>1, <1>2, <1>4 DEF Frame
<1>10. CASE stage = "order"
  <2>1. CycleInv => CycleInv'
    BY <1>2, <1>5 DEF CycleInv
  <2>2. OrderInv => OrderInv'
    BY <1>2, <1>5, OrderSame
  <2> QED
    BY <1>1, <1>2, <1>7, <1>8, <1>9, <1>10, <2>1, <2>2 DEF AlgorithmInv, Unwritten
<1>11. CASE stage = "label"
  <2>1. LabelInv /\ pc # "recurse" /\ Labelled(known)
    BY <1>1, <1>11 DEF AlgorithmInv, LabelInv
  <2>2. Labelled(known)'
    BY <1>1, <1>2, <2>1, SameLabels
  <2>3. LabelInv'
    BY <1>2, <2>1, <2>2 DEF LabelInv, Unwritten
  <2>4. algorithm = "kosaraju" => Placed(input, 0)'
    BY <1>1, <1>2, <1>11 DEF AlgorithmInv, Placed
  <2> QED
    BY <1>1, <1>7, <1>8, <1>9, <1>11, <2>3, <2>4 DEF AlgorithmInv
<1> QED
  BY <1>3, <1>10, <1>11

LEMMA VisitInv ==
  ASSUME AlgorithmInv, VisitAlgorithm
  PROVE  AlgorithmInv'
<1>1. /\ DfsStep
      /\ CallTopSort \/ CallAcyclic \/ CallLabel
      /\ UNCHANGED <<algorithm, input, stage>>
  BY DEF VisitAlgorithm
<1>2. /\ pc # "idle" /\ UNCHANGED <<graph, kind, accept>> /\ Nodes' = Nodes /\ num_nodes' = num_nodes
  BY <1>1 DEF DfsStep, SkipRoot, InitRoot, PrevisitRoot, EndRoots, Revisit, Ignore, Previsit,
     Postvisit, DoneRoot, AtArc, inputs, Nodes, num_nodes
<1>3. stage \in {"order", "label"}
  BY <1>2 DEF AlgorithmInv, Frame
<1>4. Frame /\ FullRun /\ RootsInv
  BY <1>3 DEF AlgorithmInv
<1>5. FullRun'
  BY <1>1, <1>4, FullStep
<1>6. ~broke
  BY <1>2, <1>4 DEF FullRun, PathInv, Shape
<1>7. stage = "label" => order' = order
  BY <1>1, <1>4 DEF CallTopSort, CallAcyclic, CallLabel, Frame
<1>8. RootsInv'
  <2>1. RootList' = RootList /\ Turns' = Turns
    BY <1>1, <1>2, <1>7 DEF RootList, Turns, AllNodes
  <2> QED
    BY <1>1, <1>4, <2>1, RootsStep
<1>9. Frame'
  <2>1. broke' => algorithm = "is_acyclic"
    BY <1>1 DEF CallTopSort, CallAcyclic, CallLabel
  <2> QED
    BY <1>1, <1>2, <1>4, <2>1 DEF Frame
<1>10. CASE stage = "order"
  <2>1. ~CallLabel /\ components' = components /\ num_components' = num_components
    BY <1>1, <1>10 DEF CallTopSort, CallAcyclic, CallLabel
  <2>2. CASE algorithm = "is_acyclic"
    <3>1. CycleInv /\ kind = "path" /\ CallAcyclic
      BY <1>1, <1>10, <2>1, <2>2 DEF AlgorithmInv, Frame, CallTopSort
    <3>2. CycleInv'
      BY <1>1, <1>4, <3>1, CycleStep
    <3> QED
      BY <1>1, <1>2, <1>5, <1>8, <1>9, <1>10, <2>1, <2>2, <3>2 DEF AlgorithmInv, Unwritten
  <2>3. CASE algorithm # "is_acyclic"
    <3>1. OrderInv /\ kind = "pred" /\ CallTopSort
      BY <1>1, <1>10, <2>1, <2>3 DEF AlgorithmInv, Frame, CallAcyclic
    <3>2. OrderInv'
      BY <1>1, <1>4, <3>1, OrderStep
    <3> QED
      BY <1>1, <1>2, <1>5, <1>8, <1>9, <1>10, <2>1, <2>3, <3>2 DEF AlgorithmInv, Unwritten
  <2> QED
    BY <2>2, <2>3
<1>11. CASE stage = "label"
  <2>1. CallLabel /\ kind = "nopred"
    BY <1>1, <1>4, <1>11 DEF Frame, CallTopSort, CallAcyclic
  <2>2. Numbering
    BY <1>4, <1>6, <1>11 DEF Numbering, AlgorithmInv, Frame
  <2>3. LabelInv'
    BY <1>1, <2>1, <2>2, LabelStep
  <2>4. algorithm = "kosaraju" => Placed(input, 0)'
    BY <1>1, <1>2, <1>7, <1>11 DEF AlgorithmInv, Placed
  <2> QED
    BY <1>1, <1>5, <1>8, <1>9, <1>11, <2>3, <2>4 DEF AlgorithmInv
<1> QED
  BY <1>3, <1>10, <1>11

(* The transpose is visited next, in the order that was written.           *)
LEMMA TurnInv ==
  ASSUME AlgorithmInv, Turn
  PROVE  AlgorithmInv'
<1>1. /\ pc = "idle" /\ visits > 0 /\ stage = "order" /\ algorithm = "kosaraju"
      /\ stage' = "label" /\ graph' = Transposed(graph) /\ kind' = "nopred"
      /\ known' = {} /\ on_stack' = {} /\ stack' = << >>
      /\ UNCHANGED <<accept, pc, roots, root, curr, broke, path, white, visits,
                     algorithm, input, order, pos, components, num_components, sizes, acyclic>>
  BY DEF Turn, VisitOver, Turned, mine
<1>2. Frame /\ FullRun /\ RootsInv /\ OrderInv
      /\ components \in [Nodes -> Nat \cup {Unwritten}] /\ num_components = 0
  BY <1>1 DEF AlgorithmInv
<1>3. ~broke /\ input = graph
  BY <1>1, <1>2 DEF Frame
<1>4. Turns = 0 /\ Turns' = 1 /\ RootList' = order'
  BY <1>1 DEF Turns, RootList
<1>5. known = Nodes /\ path = << >> /\ Left = Nodes /\ visits = 1
  BY <1>1, <1>2, <1>3, <1>4, AllKnown DEF RootsInv
<1>6. /\ IsDigraph(graph) /\ num_nodes \in Nat /\ IsFiniteSet(Nodes)
  BY <1>2, <1>3, FullFacts
<1>7. /\ IsDigraph(graph') /\ Nodes' = Nodes /\ num_nodes' = num_nodes
  <2>1. IsDigraph(graph') /\ DOMAIN graph' = DOMAIN graph
    BY <1>1, <1>6, TransposedGraph
  <2> QED
    BY <2>1 DEF Nodes, num_nodes
<1>8. pos = 0 /\ Placed(input, 0) /\ {order[i] : i \in 1 .. num_nodes} = Nodes
  <2>1. pos = 0
    BY <1>2, <1>5, <1>6 DEF OrderInv, num_nodes
  <2>2. pos + 1 = 1
    BY <2>1
  <2>3. Placed(graph, pos) /\ {order[i] : i \in pos + 1 .. num_nodes} = Left
    BY <1>2 DEF OrderInv
  <2> QED
    BY <2>1, <2>2, <2>3, <1>3, <1>5
<1>9. FullRun'
  <2>1. Shape' /\ Quiet' /\ Active' = FALSE
    <3>1. roots \in Seq(Nodes) /\ broke \in BOOLEAN
      BY <1>2 DEF FullRun, PathInv, Shape
    <3> QED
      BY <3>1, <1>1, <1>3, <1>7 DEF Shape, Quiet, Active
  <2>2. WhiteInv'
    <3>1. white \in [Nodes -> SUBSET Nodes]
      BY <1>2 DEF FullRun, WhiteInv
    <3> QED
      BY <3>1, <1>1, <1>5, <1>7 DEF WhiteInv, MetSoFar, Exhausted
  <2>3. WhiteChain' /\ ApartInv' /\ TreeInv'
    BY <1>1 DEF WhiteChain, ApartInv, TreeInv, Left
  <2>4. Full' /\ pc' # "order"
    BY <1>1, <1>2, <1>7 DEF FullRun, Full, NoFilter
  <2> QED
    BY <2>1, <2>2, <2>3, <2>4 DEF FullRun, PathInv
<1>10. ListsAll(order)'
  <2>1. \A i \in 0 + 1 .. num_nodes : order[i] \in Nodes
    BY <1>8 DEF Placed, PlacedIn
  <2>2. order \in [1 .. num_nodes -> Nodes \cup {Unwritten}]
    BY <1>8 DEF Placed, PlacedIn
  <2>3. order \in [1 .. num_nodes -> Nodes]
    BY <2>1, <2>2
  <2>4. \A u \in Nodes : \E k \in 1 .. num_nodes : order[k] = u
    BY <1>8
  <2> QED
    BY <2>3, <2>4, <1>1, <1>7 DEF ListsAll
<1>11. RootsInv'
  <2>1. ListsAll(RootList)'
    BY <1>4, <1>10 DEF ListsAll
  <2> QED
    BY <1>1, <1>3, <1>4, <1>5, <2>1 DEF RootsInv
<1>12. LabelInv'
  <2>1. Labelled({})
    BY <1>2, NothingLabelled
  <2>2. Labelled(known)'
    BY <2>1, <1>1 DEF Labelled, Components
  <2> QED
    BY <1>1, <1>2, <1>7, <2>2 DEF LabelInv, Unwritten
<1>13. Placed(input, 0)'
  BY <1>1, <1>7, <1>8 DEF Placed
<1>14. Frame'
  BY <1>1, <1>2, <1>3, <1>7 DEF Frame
<1> QED
  BY <1>1, <1>9, <1>11, <1>12, <1>13, <1>14 DEF AlgorithmInv

-----------------------------------------------------------------------------
(* What a finished visit has written.                                      *)
LEMMA PlacedOrder ==
  ASSUME num_nodes \in Nat, Placed(input, 0), {order[i] : i \in 1 .. num_nodes} = Nodes,
         DOMAIN input = Nodes, IsDigraph(input)
  PROVE  /\ Range(order) = Nodes
         /\ Acyclic(input) => \A u \in Nodes : \A v \in input[u] : Place(u) < Place(v)
<1>1. /\ order \in [1 .. num_nodes -> Nodes \cup {Unwritten}]
      /\ \A i, j \in 1 .. num_nodes : order[i] = order[j] => i = j
      /\ Acyclic(input) => \A i \in 1 .. num_nodes : \A v \in input[order[i]] :
                             \E j \in i + 1 .. num_nodes : order[j] = v
  BY DEF Placed, PlacedIn
<1>2. Range(order) = Nodes
  BY <1>1 DEF Range
<1>3. \A i \in 1 .. num_nodes : Place(order[i]) = i
  BY <1>1 DEF Place
<1>4. ASSUME Acyclic(input), NEW u \in Nodes, NEW v \in input[u] PROVE Place(u) < Place(v)
  <2>1. PICK i \in 1 .. num_nodes : order[i] = u
    OBVIOUS
  <2>2. PICK j \in i + 1 .. num_nodes : order[j] = v
    BY <1>1, <1>4, <2>1
  <2>3. j \in 1 .. num_nodes /\ i < j
    OBVIOUS
  <2> QED
    BY <1>3, <2>1, <2>2, <2>3
<1> QED
  BY <1>2, <1>4

LEMMA LabelsExact ==
  ASSUME Labelled(Nodes), DOMAIN components = Nodes, graph = Transposed(input),
         IsDigraph(input), DOMAIN input = Nodes
  PROVE  /\ \A u, v \in Nodes : components[u] = components[v] <=> SameComponent(input, u, v)
         /\ Range(components) = Components
         /\ \A u \in Nodes : \A v \in input[u] : components[u] <= components[v]
<1>1. /\ \A u, v \in Nodes : components[u] = components[v] <=> SameComponent(input, u, v)
      /\ {components[u] : u \in Nodes} = Components
      /\ \A u \in Nodes : \A v \in graph[u] : components[v] <= components[u]
  BY DEF Labelled
<1>2. Range(components) = Components
  BY <1>1 DEF Range
<1>3. ASSUME NEW u \in Nodes, NEW v \in input[u] PROVE components[u] <= components[v]
  <2>1. v \in Nodes
    BY DEF IsDigraph
  <2>2. u \in graph[v]
    BY <2>1, TransposedGraph
  <2> QED
    BY <1>1, <2>1, <2>2
<1> QED
  BY <1>1, <1>2, <1>3

LEMMA CyclesExact ==
  ASSUME CycleInv, ~broke => Left = Nodes, graph = input, DOMAIN input = Nodes
  PROVE  acyclic <=> Acyclic(input)
BY DEF CycleInv, Acyclic

(* A step that leaves the visit alone.                                     *)
LEMMA FullSame ==
  ASSUME FullRun, UNCHANGED dfsVars
  PROVE  FullRun'
BY DEF FullRun, dfsVars, inputs, PathInv, Shape, Quiet, Active, OnPath, WhiteInv, MetSoFar,
   WhiteChain, ApartInv, TreeInv, Left, PathNodes, Full, NoFilter, num_nodes, Nodes

LEMMA DoneInv ==
  ASSUME AlgorithmInv, CompleteAlgorithm
  PROVE  OrdersExact' /\ SccsExact' /\ DOMAIN components = Nodes /\ num_components \in Nat
<1>1. /\ pc = "idle" /\ visits > 0 /\ stage' = "done"
      /\ UNCHANGED <<graph, algorithm, input, order, components, num_components, acyclic>>
      /\ Nodes' = Nodes /\ num_nodes' = num_nodes
  BY DEF CompleteAlgorithm, VisitOver, dfsVars, inputs, mine, Nodes, num_nodes
<1>2. stage \in {"order", "label"} /\ visits # Turns
  <2>1. CASE stage = "order" /\ algorithm # "kosaraju"
    BY <2>1, <1>1 DEF Turns
  <2>2. CASE stage = "label" /\ (algorithm = "kosaraju" => visits = 2)
    BY <2>2, <1>1 DEF Turns
  <2> QED
    BY <2>1, <2>2 DEF CompleteAlgorithm
<1>3. Frame /\ FullRun /\ RootsInv
  BY <1>2 DEF AlgorithmInv
<1>4. IsDigraph(input) /\ DOMAIN input = Nodes
  BY <1>3 DEF Frame
<1>5. ~broke => known = Nodes /\ Left = Nodes
  BY <1>1, <1>2, <1>3, AllKnown
<1>6. broke => algorithm = "is_acyclic" /\ stage = "order"
  BY <1>2, <1>3 DEF Frame
<1>7. ~broke => num_nodes \in Nat /\ IsFiniteSet(Nodes)
  BY <1>3, FullFacts
<1>8. CASE stage = "order"
  <2>1. /\ algorithm \in {"top_sort", "is_acyclic"} /\ graph = input
    BY <1>3, <1>8 DEF CompleteAlgorithm, Frame
  <2>2. /\ components \in [Nodes -> Nat \cup {Unwritten}] /\ num_components = 0
    BY <1>8 DEF AlgorithmInv
  <2>3. algorithm = "is_acyclic" => (acyclic <=> Acyclic(input))
    <3> SUFFICES ASSUME algorithm = "is_acyclic" PROVE acyclic <=> Acyclic(input)
      OBVIOUS
    <3>1. CycleInv
      BY <1>8 DEF AlgorithmInv
    <3> QED
      BY <3>1, <1>4, <1>5, <2>1, CyclesExact
  <2>4. algorithm = "top_sort" =>
          /\ Range(order) = Nodes
          /\ Acyclic(input) => \A u \in Nodes : \A v \in input[u] : Place(u) < Place(v)
    <3> SUFFICES ASSUME algorithm = "top_sort"
                 PROVE  /\ Range(order) = Nodes
                        /\ Acyclic(input) => \A u \in Nodes : \A v \in input[u] :
                                               Place(u) < Place(v)
      OBVIOUS
    <3>1. OrderInv /\ Left = Nodes /\ num_nodes \in Nat
      BY <1>5, <1>6, <1>7, <1>8 DEF AlgorithmInv
    <3>2. pos = 0 /\ pos + 1 = 1
      BY <3>1 DEF OrderInv, num_nodes
    <3>3. Placed(input, 0) /\ {order[i] : i \in 1 .. num_nodes} = Nodes
      <4>1. Placed(graph, pos) /\ {order[i] : i \in pos + 1 .. num_nodes} = Left
        BY <3>1 DEF OrderInv
      <4> QED
        BY <4>1, <3>1, <3>2, <2>1
    <3> QED
      BY <3>1, <3>3, <1>4, PlacedOrder
  <2>5. \A u : Place(u)' = Place(u)
    BY <1>1 DEF Place
  <2>6. OrdersExact'
    BY <1>1, <2>1, <2>3, <2>4, <2>5 DEF OrdersExact, AssumeInitSound, TopologicalOrder, AcyclicExact
  <2>7. SccsExact'
    BY <1>1, <2>1 DEF SccsExact, ComponentsExact, SizesDecrease
  <2> QED
    BY <2>2, <2>6, <2>7
<1>9. CASE stage = "label"
  <2>1. /\ algorithm \in {"symm_seq", "kosaraju"} /\ graph = Transposed(input) /\ ~broke
        /\ algorithm = "symm_seq" => graph = input
    BY <1>3, <1>6, <1>9 DEF Frame
  <2>2. LabelInv
    BY <1>9 DEF AlgorithmInv
  <2>3. /\ Labelled(Nodes) /\ components \in [Nodes -> Nat \cup {Unwritten}] /\ num_components \in Nat
    BY <2>1, <2>2, <1>1, <1>5 DEF LabelInv
  <2>4. DOMAIN components = Nodes
    BY <2>3
  <2>5. /\ \A u, v \in Nodes : components[u] = components[v] <=> SameComponent(input, u, v)
        /\ Range(components) = Components
        /\ \A u \in Nodes : \A v \in input[u] : components[u] <= components[v]
    BY <2>1, <2>3, <2>4, <1>4, LabelsExact
  <2>6. Unwritten \notin Components /\ Components' = Components
    BY <1>1, <2>3 DEF Unwritten, Components
  <2>7. OrdersExact'
    BY <1>1, <2>1, <2>5, <2>6 DEF OrdersExact, AssumeInitSound, TopologicalOrder, AcyclicExact,
       Unwritten
  <2>8. ComponentsExact'
    BY <1>1, <2>5, <2>6 DEF ComponentsExact
  <2>9. SizesDecrease'
    BY <1>1 DEF SizesDecrease
  <2> QED
    BY <2>3, <2>4, <2>7, <2>8, <2>9 DEF SccsExact
<1> QED
  BY <1>2, <1>8, <1>9

LEMMA CompleteInv ==
  ASSUME AlgorithmInv, CompleteAlgorithm
  PROVE  AlgorithmInv'
<1>1. /\ pc = "idle" /\ visits > 0 /\ stage' = "done"
      /\ UNCHANGED <<dfsVars, graph, kind, broke, pc, visits, algorithm, input, components,
                     num_components>>
      /\ Nodes' = Nodes
  BY DEF CompleteAlgorithm, VisitOver, dfsVars, inputs, mine, Nodes
<1>2. Frame /\ FullRun
  BY DEF AlgorithmInv
<1>3. FullRun'
  BY <1>1, <1>2, FullSame
<1>4. Frame'
  BY <1>1, <1>2 DEF Frame
<1>5. OrdersExact' /\ SccsExact' /\ DOMAIN components = Nodes /\ num_components \in Nat
  BY DoneInv
<1> QED
  BY <1>1, <1>3, <1>4, <1>5 DEF AlgorithmInv

LEMMA SortInv ==
  ASSUME AlgorithmInv, SortBySize
  PROVE  AlgorithmInv'
<1>1. /\ stage = "done" /\ algorithm \in {"symm_seq", "kosaraju"} /\ stage' = "sorted"
      /\ UNCHANGED <<dfsVars, graph, kind, broke, pc, visits, algorithm, input>> /\ Nodes' = Nodes
  BY DEF SortBySize, dfsVars, inputs, Nodes
<1>2. /\ Frame /\ FullRun /\ visits > 0 /\ pc = "idle" /\ num_components \in Nat
      /\ DOMAIN components = Nodes /\ OrdersExact /\ SccsExact
  BY <1>1 DEF AlgorithmInv
<1>3. FullRun'
  BY <1>1, <1>2, FullSame
<1>4. Frame'
  BY <1>1, <1>2 DEF Frame
<1>5. IsFiniteSet(Nodes)
  <2>1. ~broke
    BY <1>1, <1>2 DEF Frame
  <2> QED
    BY <2>1, <1>2, FullFacts
<1>6. /\ DOMAIN components' = Nodes' /\ num_components' \in Nat /\ OrdersExact' /\ SccsExact'
  BY <1>1, <1>2, <1>5, SortedBySize
<1> QED
  BY <1>1, <1>2, <1>3, <1>4, <1>6 DEF AlgorithmInv

LEMMA StutterInv ==
  ASSUME AlgorithmInv, UNCHANGED algorithmVars
  PROVE  AlgorithmInv'
<1>1. /\ UNCHANGED <<dfsVars, algorithm, input, stage, order, pos, components, num_components,
                     sizes, acyclic>>
      /\ UNCHANGED <<graph, kind, known, broke, pc, visits, path, white, root, roots, stack>>
      /\ Nodes' = Nodes /\ num_nodes' = num_nodes /\ Left' = Left /\ PathNodes' = PathNodes
  BY DEF algorithmVars, mine, dfsVars, inputs, Nodes, num_nodes, Left, PathNodes
<1>2. Frame /\ FullRun
  BY DEF AlgorithmInv
<1>3. FullRun' /\ Frame'
  BY <1>1, <1>2, FullSame DEF Frame
<1>4. RootsInv => RootsInv'
  <2>1. RootList' = RootList /\ Turns' = Turns /\ Taken' = Taken
    BY <1>1 DEF RootList, Turns, Taken, AllNodes
  <2>2. ListsAll(RootList) => ListsAll(RootList)'
    BY <1>1, <2>1 DEF ListsAll
  <2>3. RootsTaken => RootsTaken'
    BY <1>1, <2>1 DEF RootsTaken
  <2> QED
    BY <1>1, <2>1, <2>2, <2>3 DEF RootsInv
<1>5. OrderInv => OrderInv'
  BY <1>1, OrderSame
<1>6. CycleInv => CycleInv'
  BY <1>1 DEF CycleInv
<1>7. LabelInv => LabelInv'
  <2> SUFFICES ASSUME LabelInv PROVE LabelInv'
    OBVIOUS
  <2>1. ASSUME Labelled(known) PROVE Labelled(known)'
    BY <1>1, <2>1, SameLabels
  <2>2. ASSUME Labelled(Nodes \ white[root]) PROVE Labelled(Nodes \ white[root])'
    BY <1>1, <2>2 DEF Labelled, Components
  <2>3. components' \in [Nodes' -> Nat \cup {Unwritten}] /\ num_components' \in Nat
    BY <1>1 DEF LabelInv, Unwritten
  <2>4. CASE pc = "recurse"
    BY <1>1, <2>2, <2>3, <2>4 DEF LabelInv
  <2>5. CASE pc # "recurse"
    BY <1>1, <2>1, <2>3, <2>5 DEF LabelInv
  <2> QED
    BY <2>4, <2>5
<1>8. Placed(input, 0) => Placed(input, 0)'
  BY <1>1 DEF Placed
<1>9. OrdersExact => OrdersExact'
  BY <1>1 DEF OrdersExact, AssumeInitSound, TopologicalOrder, AcyclicExact, Finished, Place
<1>10. SccsExact => SccsExact'
  BY <1>1 DEF SccsExact, ComponentsExact, SizesDecrease, Finished, Components, SizeOf
<1>11. /\ stage \in {"order", "label"} => RootsInv'
       /\ stage = "order" =>
            /\ components' \in [Nodes' -> Nat \cup {Unwritten}] /\ num_components' = 0
            /\ algorithm = "is_acyclic" => CycleInv'
            /\ algorithm # "is_acyclic" => OrderInv'
       /\ stage = "label" => LabelInv' /\ (algorithm = "kosaraju" => Placed(input, 0)')
       /\ stage \in {"done", "sorted"} =>
            /\ visits' > 0 /\ pc' = "idle" /\ num_components' \in Nat
            /\ DOMAIN components' = Nodes' /\ OrdersExact' /\ SccsExact'
  BY <1>1, <1>4, <1>5, <1>6, <1>7, <1>8, <1>9, <1>10 DEF AlgorithmInv
<1> QED
  BY <1>1, <1>3, <1>11 DEF AlgorithmInv, Unwritten

LEMMA AlgorithmNextInv ==
  ASSUME AlgorithmInv, [AlgorithmNext]_algorithmVars
  PROVE  AlgorithmInv'
BY StartInv, VisitInv, TurnInv, CompleteInv, SortInv, StutterInv DEF AlgorithmNext

LEMMA AlgorithmAlways == AlgorithmSpec => []AlgorithmInv
<1>1. AlgorithmInit => AlgorithmInv
  BY AlgorithmInitInv
<1>2. AlgorithmInv /\ [AlgorithmNext]_algorithmVars => AlgorithmInv'
  BY AlgorithmNextInv
<1> QED
  BY <1>1, <1>2, PTL DEF AlgorithmSpec

(* What top_sort and is_acyclic return is right for every graph            *)
(* (top_sort.rs, acyclicity.rs): when top_sort calls assume_init every     *)
(* place has been written, with each node once; on an acyclic graph every  *)
(* arc leads to a later place; is_acyclic is true of the acyclic graphs    *)
(* and of no other, though it stops at the first arc back to its path.     *)
(* symm_seq leaves no cell of its components unwritten either.             *)
THEOREM OrdersAreExact == AlgorithmSpec => []OrdersExact
<1>1. AlgorithmInv => OrdersExact
  <2> SUFFICES ASSUME AlgorithmInv PROVE OrdersExact
    OBVIOUS
  <2>1. CASE Finished
    BY <2>1 DEF Finished, AlgorithmInv
  <2>2. CASE ~Finished
    BY <2>2 DEF OrdersExact, AssumeInitSound, TopologicalOrder, AcyclicExact
  <2> QED
    BY <2>1, <2>2
<1> QED
  BY <1>1, AlgorithmAlways, PTL

(* symm_seq on every symmetric graph and kosaraju on every graph number    *)
(* the strongly connected components densely (symm_seq.rs, kosaraju.rs):   *)
(* two nodes have one number just when each reaches the other, kosaraju's  *)
(* numbers never fall along an arc, and sort_by_size (sccs/mod.rs) keeps   *)
(* the components, puts them by decreasing size and returns their sizes,   *)
(* whatever its unstable sorts do with equal sizes.                        *)
THEOREM ComponentsAreExact == AlgorithmSpec => []SccsExact
<1>1. AlgorithmInv => SccsExact
  <2> SUFFICES ASSUME AlgorithmInv PROVE SccsExact
    OBVIOUS
  <2>1. CASE Finished
    BY <2>1 DEF Finished, AlgorithmInv
  <2>2. CASE ~Finished
    BY <2>2 DEF SccsExact, ComponentsExact, SizesDecrease, Finished
  <2> QED
    BY <2>1, <2>2
<1> QED
  BY <1>1, AlgorithmAlways, PTL

-----------------------------------------------------------------------------
(* The iterator over all nodes.  What the node yielded as the i-th can     *)
(* reach by nodes not yielded before it:                                   *)
Reachable(g, y, i) == Reached(Within(g, DOMAIN g \ {y[k] : k \in 1 .. i - 1}), {y[i]})

(* is yielded in one piece, and either all yielded or still being yielded. *)
InPieces(g, y) ==
  \A i \in 1 .. Len(y) : \A j \in i .. Len(y) :
    y[j] \in Reachable(g, y, i) => \A k \in i .. j : y[k] \in Reachable(g, y, i)
PieceOver(g, y, i) == Reachable(g, y, i) \subseteq ToSet(y)
PieceOpen(g, y, i) == \A k \in i .. Len(y) : y[k] \in Reachable(g, y, i)
OverOrOpen(g, y) == \A i \in 1 .. Len(y) : PieceOver(g, y, i) \/ PieceOpen(g, y, i)

(* Stack entries belong to nodes in the order in which they were yielded.  *)
Shelf(g) == [succs : Seq(DOMAIN g), parent : {-1}]
Shelved(g, y, st, f) ==
  /\ f \in [1 .. Len(st) -> 1 .. Len(y)]
  /\ \A a, b \in 1 .. Len(st) : a <= b => f[a] <= f[b]
  /\ \A a \in 1 .. Len(st) : ToSet(st[a].succs) \subseteq g[y[f[a]]]
Unread(g, y, st, f) ==
  \A i \in 1 .. Len(y) : \A w \in g[y[i]] \ ToSet(y) :
    \E a \in 1 .. Len(st) : f[a] = i /\ w \in ToSet(st[a].succs)

LEMMA PieceFacts ==
  ASSUME NEW g, IsDigraph(g), NEW y \in Seq(DOMAIN g), NEW i \in 1 .. Len(y)
  PROVE  /\ y[i] \in Reachable(g, y, i)
         /\ \A x \in Reachable(g, y, i) :
              Within(g, DOMAIN g \ {y[k] : k \in 1 .. i - 1})[x] \subseteq Reachable(g, y, i)
         /\ \A C \in SUBSET DOMAIN g :
              /\ y[i] \in C
              /\ \A x \in C : Within(g, DOMAIN g \ {y[k] : k \in 1 .. i - 1})[x] \subseteq C
              => Reachable(g, y, i) \subseteq C
<1> DEFINE H == Within(g, DOMAIN g \ {y[k] : k \in 1 .. i - 1})
<1>1. H \in [DOMAIN g -> SUBSET DOMAIN g] /\ IsFiniteSet(DOMAIN g)
  BY WithinGraph
<1>2. y[i] \in DOMAIN g /\ {y[i]} \subseteq DOMAIN g
  BY ListMembers
<1>3. Reachable(g, y, i) = Reached(H, {y[i]})
  BY DEF Reachable
<1> HIDE DEF H
<1>4. /\ {y[i]} \subseteq Reached(H, {y[i]})
      /\ \A x \in Reached(H, {y[i]}) : H[x] \subseteq Reached(H, {y[i]})
  BY <1>1, <1>2, ReachedClosed
<1>5. ASSUME NEW C \in SUBSET DOMAIN g, y[i] \in C, \A x \in C : H[x] \subseteq C
      PROVE  Reached(H, {y[i]}) \subseteq C
  <2>1. {y[i]} \subseteq C
    BY <1>5
  <2> QED
    BY <1>1, <1>5, <2>1, ReachedLeast
<1> QED
  BY <1>3, <1>4, <1>5 DEF H

LEMMA SamePiece ==
  ASSUME NEW g, NEW y \in Seq(DOMAIN g), NEW u \in DOMAIN g, NEW i \in 1 .. Len(y)
  PROVE  Reachable(g, Append(y, u), i) = Reachable(g, y, i)
<1>1. Len(y) \in Nat /\ \A k \in 1 .. Len(y) : Append(y, u)[k] = y[k]
  BY ListMembers, AppendProperties
<1>2. \A k \in 1 .. i - 1 : k \in 1 .. Len(y)
  BY <1>1
<1>3. {Append(y, u)[k] : k \in 1 .. i - 1} = {y[k] : k \in 1 .. i - 1}
  BY <1>1, <1>2
<1> QED
  BY <1>1, <1>3 DEF Reachable

(* A node is yielded that each open piece can reach.                       *)
LEMMA PiecesGrow ==
  ASSUME NEW g, IsDigraph(g), NEW y \in Seq(DOMAIN g), IsInjective(y), InPieces(g, y),
         OverOrOpen(g, y), NEW u \in DOMAIN g \ ToSet(y),
         \A i \in 1 .. Len(y) : PieceOver(g, y, i) \/ u \in Reachable(g, y, i)
  PROVE  /\ Append(y, u) \in Seq(DOMAIN g) /\ IsInjective(Append(y, u))
         /\ InPieces(g, Append(y, u)) /\ OverOrOpen(g, Append(y, u))
<1> DEFINE z == Append(y, u)
           m == Len(y)
<1>1. /\ z \in Seq(DOMAIN g) /\ Len(z) = m + 1 /\ m \in Nat /\ z[m + 1] = u
      /\ \A k \in 1 .. m : z[k] = y[k]
      /\ DOMAIN z = 1 .. m + 1 /\ DOMAIN y = 1 .. m
  BY ListMembers, AppendProperties
<1>2. ToSet(z) = ToSet(y) \cup {u} /\ ToSet(y) = {y[k] : k \in 1 .. m}
  BY AppendedSet, ListMembers
<1>3. \A i \in 1 .. m : Reachable(g, z, i) = Reachable(g, y, i)
  BY SamePiece
<1>4. u \in Reachable(g, z, m + 1)
  <2>1. m + 1 \in 1 .. Len(z)
    BY <1>1
  <2> HIDE DEF z
  <2> QED
    BY <1>1, <2>1, PieceFacts
<1> HIDE DEF z, m
<1>5. \A k \in 1 .. m + 1 : k \in 1 .. m \/ k = m + 1
  BY <1>1
<1>6. IsInjective(z)
  <2> SUFFICES ASSUME NEW a \in 1 .. m + 1, NEW b \in 1 .. m + 1, z[a] = z[b] PROVE a = b
    BY <1>1 DEF IsInjective
  <2>1. \A k \in 1 .. m : z[k] # u
    BY <1>1, <1>2
  <2> QED
    BY <2>1, <1>1, <1>5 DEF IsInjective
<1>7. ASSUME NEW i \in 1 .. m, u \in Reachable(g, z, i)
      PROVE  \A k \in i .. m + 1 : z[k] \in Reachable(g, z, i)
  <2>1. PieceOpen(g, y, i)
    <3>1. ~PieceOver(g, y, i)
      BY <1>3, <1>7 DEF PieceOver
    <3> QED
      BY <3>1 DEF OverOrOpen, m
  <2>2. \A k \in i .. m : z[k] \in Reachable(g, z, i)
    <3>1. \A k \in i .. m : k \in 1 .. m
      BY <1>1
    <3> QED
      BY <3>1, <2>1, <1>1, <1>3 DEF PieceOpen, m
  <2>3. \A k \in i .. m + 1 : k \in i .. m \/ k = m + 1
    BY <1>1
  <2> QED
    BY <1>1, <1>7, <2>2, <2>3
<1>8. InPieces(g, z)
  <2> SUFFICES ASSUME NEW i \in 1 .. m + 1, NEW j \in i .. m + 1, z[j] \in Reachable(g, z, i),
                      NEW k \in i .. j
               PROVE  z[k] \in Reachable(g, z, i)
    BY <1>1 DEF InPieces
  <2>1. CASE i = m + 1
    <3>1. k = i
      BY <1>1, <2>1
    <3> QED
      BY <3>1, <2>1, <1>1, <1>4
  <2>2. CASE i \in 1 .. m /\ j = m + 1
    BY <2>2, <1>1, <1>7
  <2>3. CASE i \in 1 .. m /\ j \in i .. m
    <3>1. j \in 1 .. m /\ k \in 1 .. m
      BY <1>1, <2>3
    <3>2. y[j] \in Reachable(g, y, i)
      BY <3>1, <2>3, <1>1, <1>3
    <3>3. y[k] \in Reachable(g, y, i)
      BY <3>2, <2>3 DEF InPieces, m
    <3> QED
      BY <3>1, <3>3, <2>3, <1>1, <1>3
  <2>4. i = m + 1 \/ (i \in 1 .. m /\ (j = m + 1 \/ j \in i .. m))
    BY <1>1
  <2> QED
    BY <2>1, <2>2, <2>3, <2>4
<1>9. OverOrOpen(g, z)
  <2> SUFFICES ASSUME NEW i \in 1 .. m + 1 PROVE PieceOver(g, z, i) \/ PieceOpen(g, z, i)
    BY <1>1 DEF OverOrOpen
  <2>1. CASE i = m + 1
    <3>1. \A k \in i .. m + 1 : k = m + 1
      BY <1>1, <2>1
    <3> QED
      BY <3>1, <2>1, <1>1, <1>4 DEF PieceOpen
  <2>2. CASE i \in 1 .. m
    <3>1. CASE PieceOver(g, y, i)
      BY <3>1, <2>2, <1>2, <1>3 DEF PieceOver
    <3>2. CASE u \in Reachable(g, y, i)
      BY <3>2, <2>2, <1>1, <1>3, <1>7 DEF PieceOpen
    <3> QED
      BY <3>1, <3>2, <2>2 DEF m
  <2> QED
    BY <2>1, <2>2, <1>5
<1> QED
  BY <1>1, <1>6, <1>8, <1>9 DEF z

(* A node that is unread on top of the stack is one that every open piece  *)
(* can reach.                                                              *)
LEMMA DeeperReached ==
  ASSUME NEW g, IsDigraph(g), NEW y \in Seq(DOMAIN g), IsInjective(y), OverOrOpen(g, y),
         NEW st, Len(st) \in Nat, NEW f, Shelved(g, y, st, f), Unread(g, y, st, f),
         NEW t \in 1 .. Len(st),
         \A a \in 1 .. Len(st) : t < a => ToSet(st[a].succs) \subseteq ToSet(y),
         NEW u, u \in g[y[f[t]]], u \notin ToSet(y),
         NEW i \in 1 .. Len(y), ~PieceOver(g, y, i)
  PROVE  u \in Reachable(g, y, i)
<1> DEFINE W == DOMAIN g \ {y[k] : k \in 1 .. i - 1}
           H == Within(g, W)
           B == Reachable(g, y, i)
           C == B \cap ToSet(y)
<1>1. /\ ToSet(y) = {y[k] : k \in 1 .. Len(y)} /\ ToSet(y) \subseteq DOMAIN g /\ Len(y) \in Nat
      /\ DOMAIN y = 1 .. Len(y)
  BY ListMembers
<1>2. /\ y[i] \in B /\ \A x \in B : H[x] \subseteq B
      /\ \A D \in SUBSET DOMAIN g : y[i] \in D /\ (\A x \in D : H[x] \subseteq D) => B \subseteq D
  BY PieceFacts
<1>3. \A x \in DOMAIN g : \A w : w \in H[x] <=> x \in W /\ w \in g[x] /\ w \in W
  BY DEF Within
<1>4. \A k \in 1 .. i - 1 : k \in 1 .. Len(y) /\ k < i
  BY <1>1
<1>5. \A k \in 1 .. Len(y) : y[k] \in W <=> i <= k
  <2> TAKE k \in 1 .. Len(y)
  <2>1. CASE i <= k
    <3>1. \A l \in 1 .. i - 1 : l \in 1 .. Len(y) /\ l # k
      BY <2>1, <1>1
    <3>2. \A l \in 1 .. i - 1 : y[l] # y[k]
      BY <3>1, <1>1 DEF IsInjective
    <3> QED
      BY <2>1, <3>2, <1>1
  <2>2. CASE ~(i <= k)
    <3>1. k \in 1 .. i - 1
      BY <2>2, <1>1
    <3> QED
      BY <2>2, <3>1
  <2> QED
    BY <2>1, <2>2
<1>6. u \in W
  <2>1. f[t] \in 1 .. Len(y)
    BY DEF Shelved
  <2>2. u \in DOMAIN g
    BY <2>1, <1>1 DEF IsDigraph
  <2> QED
    BY <2>2, <1>1, <1>4
<1>7. ~(B \subseteq ToSet(y))
  BY DEF PieceOver
<1> HIDE DEF W, H, B
<1>8. PICK x \in C : ~(H[x] \subseteq C)
  <2> SUFFICES ASSUME \A x \in C : H[x] \subseteq C PROVE FALSE
    OBVIOUS
  <2>1. C \in SUBSET DOMAIN g /\ y[i] \in C
    BY <1>1, <1>2
  <2>2. B \subseteq C
    BY <1>2, <2>1
  <2> QED
    BY <2>2, <1>7
<1>9. PICK w : x \in W /\ w \in g[x] /\ w \notin ToSet(y)
  BY <1>1, <1>2, <1>3, <1>8
<1>10. PICK k \in 1 .. Len(y) : x = y[k]
  BY <1>1, <1>8
<1>11. PICK a \in 1 .. Len(st) : f[a] = k /\ w \in ToSet(st[a].succs)
  BY <1>9, <1>10 DEF Unread
<1>12. a <= t
  BY <1>9, <1>11
<1>13. k <= f[t] /\ f[t] \in 1 .. Len(y)
  BY <1>11, <1>12 DEF Shelved
<1>14. i <= k
  BY <1>5, <1>9, <1>10
<1>15. f[t] \in i .. Len(y)
  BY <1>13, <1>14, <1>1
<1>16. y[f[t]] \in B /\ y[f[t]] \in W /\ y[f[t]] \in DOMAIN g
  <2>1. PieceOpen(g, y, i)
    BY DEF OverOrOpen
  <2>2. y[f[t]] \in B
    BY <2>1, <1>15 DEF PieceOpen, B
  <2>3. y[f[t]] \in W
    BY <1>5, <1>13, <1>15
  <2> QED
    BY <2>2, <2>3, <1>1, <1>13
<1>17. u \in H[y[f[t]]]
  BY <1>3, <1>6, <1>16
<1> QED
  BY <1>2, <1>16, <1>17 DEF B

-----------------------------------------------------------------------------
LEMMA SuffixLength ==
  ASSUME NEW l \in Nat, NEW k \in 1 .. l
  PROVE  l - (k + 1) + 1 = l - k /\ (~(k + 1 <= l) => l - k = 0)
OBVIOUS

LEMMA ListSuffix ==
  ASSUME NEW S, NEW s \in Seq(S), NEW k \in 1 .. Len(s)
  PROVE  /\ SubSeq(s, k + 1, Len(s)) \in Seq(S)
         /\ ToSet(SubSeq(s, k + 1, Len(s))) = {s[j] : j \in k + 1 .. Len(s)}
<1>1. Len(s) \in Nat /\ k + 1 \in Nat /\ DOMAIN s = 1 .. Len(s) /\ \A j \in 1 .. Len(s) : s[j] \in S
  BY LenProperties
<1> DEFINE r == SubSeq(s, k + 1, Len(s))
           n == Len(s) - k
<1>2. /\ r \in Seq(S) /\ Len(r) = n
      /\ \A i \in 1 .. n : r[i] = s[k + i]
  <2>1. \A i \in k + 1 .. Len(s) : s[i] \in S
    BY <1>1
  <2>2. /\ r \in Seq(S)
        /\ Len(r) = IF k + 1 <= Len(s) THEN Len(s) - (k + 1) + 1 ELSE 0
        /\ \A i \in 1 .. Len(s) - (k + 1) + 1 : r[i] = s[(k + 1) + i - 1]
    BY <1>1, <2>1, SubSeqProperties
  <2> HIDE DEF r
  <2>3. Len(s) - (k + 1) + 1 = n /\ (~(k + 1 <= Len(s)) => n = 0)
    BY <1>1, SuffixLength
  <2>4. \A i \in 1 .. n : (k + 1) + i - 1 = k + i
    BY <1>1
  <2> HIDE DEF n
  <2> QED
    BY <2>2, <2>3, <2>4
<1> HIDE DEF r
<1>3. ToSet(r) = {r[i] : i \in 1 .. n}
  BY <1>2, ListMembers
<1>4. \A i \in 1 .. n : k + i \in k + 1 .. Len(s)
  BY <1>1
<1>5. \A j \in k + 1 .. Len(s) : j - k \in 1 .. n /\ k + (j - k) = j
  BY <1>1
<1> HIDE DEF n
<1>6. {r[i] : i \in 1 .. n} = {s[j] : j \in k + 1 .. Len(s)}
  <2>1. \A i \in 1 .. n : r[i] \in {s[j] : j \in k + 1 .. Len(s)}
    BY <1>2, <1>4
  <2>2. \A j \in k + 1 .. Len(s) : s[j] \in {r[i] : i \in 1 .. n}
    BY <1>2, <1>5
  <2> QED
    BY <2>1, <2>2
<1> QED
  BY <1>2, <1>3, <1>6 DEF r

LEMMA TwoOnTop ==
  ASSUME NEW S, NEW st \in Seq(S), NEW t \in 1 .. Len(st), NEW e \in S, NEW h \in S
  PROVE  LET z == Append(Append(SubSeq(st, 1, t - 1), e), h)
         IN  /\ z \in Seq(S) /\ Len(z) = t + 1 /\ z[t] = e /\ z[t + 1] = h
             /\ \A a \in 1 .. t - 1 : z[a] = st[a]
<1> DEFINE b == SubSeq(st, 1, t - 1)
           c == Append(b, e)
           z == Append(c, h)
<1>1. Len(st) \in Nat
  OBVIOUS
<1>2. b \in Seq(S) /\ Len(b) = t - 1 /\ \A a \in 1 .. t - 1 : b[a] = st[a]
  <2>1. t - 1 \in 0 .. Len(st) /\ t - 1 - 1 + 1 = t - 1 /\ \A a \in 1 .. t - 1 : 1 + a - 1 = a
    BY <1>1
  <2> QED
    BY <1>1, <2>1, SubSeqProperties
<1> HIDE DEF b
<1>3. c \in Seq(S) /\ Len(c) = (t - 1) + 1 /\ c[(t - 1) + 1] = e
      /\ \A a \in 1 .. t - 1 : c[a] = b[a]
  BY <1>2, AppendProperties
<1>4. (t - 1) + 1 = t /\ \A a \in 1 .. t - 1 : a \in 1 .. t
  BY <1>1
<1> HIDE DEF c
<1>5. /\ z \in Seq(S) /\ Len(z) = t + 1 /\ z[t + 1] = h
      /\ \A a \in 1 .. t : z[a] = c[a]
  BY <1>3, <1>4, AppendProperties
<1>6. z[t] = e /\ \A a \in 1 .. t - 1 : z[a] = st[a]
  <2>1. t \in 1 .. t
    BY <1>1
  <2> QED
    BY <2>1, <1>2, <1>3, <1>4, <1>5
<1> QED
  BY <1>5, <1>6 DEF z, c, b

(* The node is entered, its parent's list begins behind it.                *)
LEMMA ShelvedDeeper ==
  ASSUME NEW g, IsDigraph(g), NEW y \in Seq(DOMAIN g), NEW st \in Seq(Shelf(g)), NEW f,
         Shelved(g, y, st, f), Unread(g, y, st, f), NEW t \in 1 .. Len(st),
         \A a \in 1 .. Len(st) : t < a => ToSet(st[a].succs) \subseteq ToSet(y),
         NEW k \in 1 .. Len(st[t].succs), \A j \in 1 .. k - 1 : st[t].succs[j] \in ToSet(y),
         NEW u, u = st[t].succs[k], NEW z \in Seq(Shelf(g)), Len(z) = t + 1,
         \A a \in 1 .. t - 1 : z[a] = st[a],
         z[t].succs = SubSeq(st[t].succs, k + 1, Len(st[t].succs)),
         z[t + 1].succs = Successors(g, u)
  PROVE  \E h : Shelved(g, Append(y, u), z, h) /\ Unread(g, Append(y, u), z, h)
<1> DEFINE m == Len(y)
           Y == Append(y, u)
           h == [a \in 1 .. t + 1 |-> IF a <= t THEN f[a] ELSE m + 1]
           s == st[t].succs
<1>1. /\ f \in [1 .. Len(st) -> 1 .. m] /\ m \in Nat /\ Len(st) \in Nat
      /\ \A a, b \in 1 .. Len(st) : a <= b => f[a] <= f[b]
      /\ \A a \in 1 .. Len(st) : ToSet(st[a].succs) \subseteq g[y[f[a]]]
  <2>1. m \in Nat /\ Len(st) \in Nat
    BY LenProperties
  <2> HIDE DEF m
  <2> QED
    BY <2>1 DEF Shelved, m
<1>2. \A a \in 1 .. Len(st) : st[a].succs \in Seq(DOMAIN g)
  <2>1. \A a \in 1 .. Len(st) : st[a] \in Shelf(g)
    BY LenProperties
  <2> QED
    BY <2>1 DEF Shelf
<1>3. s \in Seq(DOMAIN g) /\ Len(s) \in Nat /\ k \in 1 .. Len(s)
      /\ ToSet(s) = {s[j] : j \in 1 .. Len(s)} /\ u = s[k] /\ u \in DOMAIN g
  <2>1. s \in Seq(DOMAIN g) /\ k \in 1 .. Len(s) /\ u = s[k]
    BY <1>2
  <2> HIDE DEF s
  <2>2. \A j \in 1 .. Len(s) : s[j] \in DOMAIN g
    BY <2>1, LenProperties
  <2> QED
    BY <2>1, <2>2, ListMembers
<1> HIDE DEF s
<1>4. /\ ToSet(z[t].succs) = {s[j] : j \in k + 1 .. Len(s)}
      /\ ToSet(z[t].succs) \subseteq ToSet(s)
  <2>1. ToSet(z[t].succs) = {s[j] : j \in k + 1 .. Len(s)}
    BY <1>3, ListSuffix DEF s
  <2>2. \A j \in k + 1 .. Len(s) : j \in 1 .. Len(s)
    BY <1>3
  <2> QED
    BY <2>1, <2>2, <1>3
<1>5. /\ Len(Y) = m + 1 /\ Y[m + 1] = u /\ \A a \in 1 .. m : Y[a] = y[a]
      /\ ToSet(Y) = ToSet(y) \cup {u}
  BY <1>1, <1>3, AppendProperties, AppendedSet
<1> HIDE DEF Y, m
<1>6. /\ h \in [1 .. t + 1 -> 1 .. m + 1] /\ h[t + 1] = m + 1
      /\ \A a \in 1 .. t : h[a] = f[a] /\ h[a] \in 1 .. m /\ a \in 1 .. Len(st)
  <2>1. \A a \in 1 .. t : f[a] \in 1 .. m /\ a \in 1 .. Len(st)
    BY <1>1
  <2>2. \A a \in 1 .. t + 1 : a \in 1 .. t \/ a = t + 1
    BY <1>1
  <2>3. t + 1 \in 1 .. t + 1 /\ ~(t + 1 <= t) /\ m + 1 \in 1 .. m + 1
        /\ \A a \in 1 .. t : a <= t /\ a \in 1 .. t + 1
    BY <1>1
  <2>4. \A x \in 1 .. m : x \in 1 .. m + 1
    BY <1>1
  <2> QED
    BY <2>1, <2>2, <2>3, <2>4
<1> HIDE DEF h
<1>7. \A a \in 1 .. t + 1 : a \in 1 .. t - 1 \/ a = t \/ a = t + 1
  BY <1>1
<1>8. t \in 1 .. t /\ t + 1 \in 1 .. t + 1 /\ t \in 1 .. t + 1
      /\ \A a \in 1 .. t - 1 : a \in 1 .. t /\ a \in 1 .. t + 1
  BY <1>1
<1>9. \A a, b \in 1 .. t + 1 : a <= b => h[a] <= h[b]
  <2> SUFFICES ASSUME NEW a \in 1 .. t + 1, NEW b \in 1 .. t + 1, a <= b PROVE h[a] <= h[b]
    OBVIOUS
  <2>1. CASE b = t + 1
    BY <2>1, <1>1, <1>6
  <2>2. CASE b # t + 1
    <3>1. a \in 1 .. t /\ b \in 1 .. t
      BY <2>2, <1>1
    <3> QED
      BY <3>1, <1>1, <1>6
  <2> QED
    BY <2>1, <2>2
<1>10. ToSet(Successors(g, u)) = g[u]
  BY <1>3, GraphLists
<1>11. \A a \in 1 .. t + 1 : ToSet(z[a].succs) \subseteq g[Y[h[a]]]
  <2> TAKE a \in 1 .. t + 1
  <2>1. CASE a \in 1 .. t - 1
    <3>1. z[a] = st[a] /\ h[a] = f[a] /\ f[a] \in 1 .. m /\ a \in 1 .. Len(st)
      BY <2>1, <1>6, <1>8
    <3>2. ToSet(st[a].succs) \subseteq g[y[f[a]]] /\ Y[f[a]] = y[f[a]]
      BY <3>1, <1>1, <1>5
    <3> QED
      BY <3>1, <3>2
  <2>2. CASE a = t
    <3>1. h[t] = f[t] /\ f[t] \in 1 .. m /\ ToSet(s) \subseteq g[y[f[t]]]
      BY <1>1, <1>6, <1>8 DEF s
    <3>2. Y[f[t]] = y[f[t]]
      BY <3>1, <1>5
    <3> QED
      BY <2>2, <3>1, <3>2, <1>4
  <2>3. CASE a = t + 1
    BY <2>3, <1>5, <1>6, <1>10
  <2> QED
    BY <2>1, <2>2, <2>3, <1>7
<1>12. Unread(g, Y, z, h)
  <2> SUFFICES ASSUME NEW i \in 1 .. m + 1, NEW w, w \in g[Y[i]], w \notin ToSet(Y)
               PROVE  \E a \in 1 .. t + 1 : h[a] = i /\ w \in ToSet(z[a].succs)
    BY <1>5 DEF Unread
  <2>1. CASE i = m + 1
    BY <2>1, <1>5, <1>6, <1>8, <1>10
  <2>2. CASE i \in 1 .. m
    <3>1. w \in g[y[i]] \ ToSet(y) /\ w # u
      BY <2>2, <1>5
    <3>2. PICK a \in 1 .. Len(st) : f[a] = i /\ w \in ToSet(st[a].succs)
      BY <3>1, <2>2 DEF Unread, m
    <3>3. ~(t < a)
      BY <3>1, <3>2
    <3>4. CASE a = t
      <4>1. PICK j \in 1 .. Len(s) : w = s[j]
        BY <3>2, <3>4, <1>3 DEF s
      <4>2. j \notin 1 .. k - 1 /\ j # k
        BY <4>1, <3>1, <1>3 DEF s
      <4>3. j \in k + 1 .. Len(s)
        BY <4>2, <1>3
      <4> QED
        BY <4>1, <4>3, <3>2, <3>4, <1>4, <1>6, <1>8
    <3>5. CASE a # t
      <4>1. a \in 1 .. t - 1
        BY <3>3, <3>5, <1>1
      <4> QED
        BY <4>1, <3>2, <1>6, <1>8
    <3> QED
      BY <3>4, <3>5
  <2>3. i = m + 1 \/ i \in 1 .. m
    BY <1>1
  <2> QED
    BY <2>1, <2>2, <2>3
<1>13. Shelved(g, Y, z, h)
  BY <1>5, <1>6, <1>9, <1>11 DEF Shelved
<1> QED
  BY <1>12, <1>13 DEF Y

(* Nothing on the stack is unread: what was yielded is closed under arcs.  *)
LEMMA NothingUnread ==
  ASSUME NEW g, IsDigraph(g), NEW y \in Seq(DOMAIN g), NEW st, NEW f,
         Shelved(g, y, st, f), Unread(g, y, st, f),
         \A a \in 1 .. Len(st) : ToSet(st[a].succs) \subseteq ToSet(y),
         NEW i \in 1 .. Len(y)
  PROVE  PieceOver(g, y, i)
<1>1. ToSet(y) = {y[k] : k \in 1 .. Len(y)} /\ ToSet(y) \in SUBSET DOMAIN g
  BY ListMembers
<1>2. \A x \in ToSet(y) : g[x] \subseteq ToSet(y)
  <2> SUFFICES ASSUME NEW k \in 1 .. Len(y), NEW w \in g[y[k]], w \notin ToSet(y) PROVE FALSE
    BY <1>1
  <2>1. PICK a \in 1 .. Len(st) : w \in ToSet(st[a].succs)
    BY DEF Unread
  <2> QED
    BY <2>1
<1>3. \A x \in ToSet(y) : Within(g, DOMAIN g \ {y[k] : k \in 1 .. i - 1})[x] \subseteq ToSet(y)
  BY <1>1, <1>2 DEF Within
<1>4. y[i] \in ToSet(y)
  BY <1>1
<1> QED
  BY <1>1, <1>3, <1>4, PieceFacts DEF PieceOver

LEMMA ShelvedRestart ==
  ASSUME NEW g, IsDigraph(g), NEW y \in Seq(DOMAIN g), NEW u \in DOMAIN g, NEW e,
         e.succs = Successors(g, u), \A i \in 1 .. Len(y) : g[y[i]] \subseteq ToSet(y)
  PROVE  \E h : Shelved(g, Append(y, u), <<e>>, h) /\ Unread(g, Append(y, u), <<e>>, h)
<1> DEFINE m == Len(y)
           Y == Append(y, u)
           h == [a \in 1 .. 1 |-> m + 1]
<1>1. /\ Len(Y) = m + 1 /\ Y[m + 1] = u /\ (\A a \in 1 .. m : Y[a] = y[a]) /\ m \in Nat
      /\ ToSet(Y) = ToSet(y) \cup {u}
  BY AppendProperties, AppendedSet
<1>2. ToSet(Successors(g, u)) = g[u]
  BY GraphLists
<1> HIDE DEF Y, m
<1>3. Len(<<e>>) = 1 /\ <<e>>[1] = e /\ m + 1 \in 1 .. m + 1 /\ \A a \in 1 .. 1 : a = 1
  BY <1>1
<1>4. Shelved(g, Y, <<e>>, h)
  BY <1>1, <1>2, <1>3 DEF Shelved
<1>5. Unread(g, Y, <<e>>, h)
  <2> SUFFICES ASSUME NEW i \in 1 .. m + 1, NEW w, w \in g[Y[i]], w \notin ToSet(Y)
               PROVE  \E a \in 1 .. 1 : h[a] = i /\ w \in ToSet(<<e>>[a].succs)
    BY <1>1, <1>3 DEF Unread
  <2>1. i \notin 1 .. m
    BY <1>1 DEF m
  <2>2. i = m + 1
    BY <2>1, <1>1
  <2> QED
    BY <2>2, <1>1, <1>2, <1>3
<1> QED
  BY <1>4, <1>5 DEF Y

-----------------------------------------------------------------------------
Iterating ==
  /\ known = ToSet(yielded) /\ at \in Nat /\ \A v \in Nodes : v < at => v \in known
  /\ stack \in Seq(Shelf(graph))
  /\ OverOrOpen(graph, yielded)
  /\ \E f : Shelved(graph, yielded, stack, f) /\ Unread(graph, yielded, stack, f)
IteratorInv ==
  /\ graph \in Graphs
  /\ yielded \in Seq(Nodes) /\ IsInjective(yielded) /\ InPieces(graph, yielded)
  /\ pc # "order" => (yielded = << >> /\ at = 0) \/ ToSet(yielded) = Nodes
  /\ pc = "order" => Iterating

LEMMA NothingYielded ==
  ASSUME NEW g
  PROVE  /\ << >> \in Seq(DOMAIN g) /\ IsInjective(<< >>) /\ InPieces(g, << >>)
         /\ OverOrOpen(g, << >>) /\ ToSet(<< >>) = {}
         /\ \E f : Shelved(g, << >>, << >>, f) /\ Unread(g, << >>, << >>, f)
<1>1. Len(<< >>) = 0 /\ 1 .. 0 = {} /\ DOMAIN << >> = {}
  OBVIOUS
<1>2. Shelved(g, << >>, << >>, [a \in {} |-> 0]) /\ Unread(g, << >>, << >>, [a \in {} |-> 0])
  BY <1>1 DEF Shelved, Unread
<1> QED
  BY <1>1, <1>2 DEF IsInjective, InPieces, OverOrOpen, ToSet

LEMMA Largest ==
  ASSUME NEW n \in Nat, NEW L \in SUBSET (1 .. n), L # {}
  PROVE  \E i \in L : \A j \in L : j <= i
<1> DEFINE T == {d \in Nat : \E i \in L : d = n - i}
<1>1. \A i \in L : n - i \in T
  OBVIOUS
<1>2. T # {} /\ T \in SUBSET Nat
  BY <1>1
<1>3. Min(T) \in T /\ \A e \in T : Min(T) <= e
  BY <1>2, MinOfNat
<1>4. PICK i \in L : Min(T) = n - i
  BY <1>3
<1>5. ASSUME NEW j \in L PROVE j <= i
  <2>1. n - i <= n - j
    BY <1>1, <1>3, <1>4
  <2> QED
    BY <2>1
<1> QED
  BY <1>5

(* The entry and the place that the iterator goes on from.                 *)
LEMMA DeeperFacts ==
  ASSUME IteratorInv, pc = "order", Live # {}
  PROVE  /\ TopLive \in 1 .. Len(stack) /\ NextUnmet \in 1 .. Len(stack[TopLive].succs)
         /\ \A a \in 1 .. Len(stack) : TopLive < a => ToSet(stack[a].succs) \subseteq known
         /\ stack[TopLive].succs \in Seq(Nodes)
         /\ stack[TopLive].succs[NextUnmet] \in Nodes \ known
         /\ \A j \in 1 .. NextUnmet - 1 : stack[TopLive].succs[j] \in known
<1>1. stack \in Seq(Shelf(graph))
  BY DEF IteratorInv, Iterating
<1>2. /\ Len(stack) \in Nat /\ DOMAIN stack = 1 .. Len(stack)
      /\ \A a \in 1 .. Len(stack) : stack[a] \in Shelf(graph)
  BY <1>1, LenProperties
<1>3. \A a \in 1 .. Len(stack) : stack[a].succs \in Seq(Nodes)
  BY <1>2 DEF Shelf, Nodes
<1>4. Live \in SUBSET (1 .. Len(stack))
  BY <1>2 DEF Live
<1>5. TopLive \in Live /\ \A j \in Live : j <= TopLive
  <2>1. \E i \in Live : \A j \in Live : j <= i
    BY <1>2, <1>4, Largest
  <2> QED
    BY <2>1 DEF TopLive
<1>6. TopLive \in 1 .. Len(stack)
  BY <1>4, <1>5
<1>7. ASSUME NEW a \in 1 .. Len(stack), TopLive < a
      PROVE  ToSet(stack[a].succs) \subseteq known
  <2>1. a \notin Live
    BY <1>5, <1>6, <1>7
  <2>2. Unmet(stack[a]) = {}
    BY <2>1, <1>2 DEF Live
  <2>3. \A k \in DOMAIN stack[a].succs : stack[a].succs[k] \in known
    BY <2>2 DEF Unmet
  <2> QED
    BY <2>3 DEF ToSet
<1> DEFINE s == stack[TopLive].succs
           U == Unmet(stack[TopLive])
<1>8. s \in Seq(Nodes) /\ Len(s) \in Nat /\ DOMAIN s = 1 .. Len(s)
      /\ \A j \in 1 .. Len(s) : s[j] \in Nodes
  <2>1. s \in Seq(Nodes)
    BY <1>3, <1>6
  <2> HIDE DEF s
  <2> QED
    BY <2>1, LenProperties
<1>9. U # {} /\ U = {k \in 1 .. Len(s) : s[k] \notin known}
  <2>1. U # {}
    BY <1>5 DEF Live
  <2> QED
    BY <2>1, <1>8 DEF Unmet
<1>10. NextUnmet = Min(U)
  BY DEF NextUnmet, Min
<1> HIDE DEF s, U
<1>11. U \in SUBSET Nat
  BY <1>8, <1>9
<1>12. NextUnmet \in U /\ \A j \in U : NextUnmet <= j
  BY <1>9, <1>10, <1>11, MinOfNat
<1>13. NextUnmet \in 1 .. Len(s) /\ s[NextUnmet] \in Nodes \ known
  BY <1>8, <1>9, <1>12
<1>14. ASSUME NEW j \in 1 .. NextUnmet - 1 PROVE s[j] \in known
  <2>1. j \in 1 .. Len(s) /\ ~(NextUnmet <= j)
    BY <1>8, <1>13
  <2> QED
    BY <2>1, <1>9, <1>12
<1> QED
  BY <1>6, <1>7, <1>8, <1>13, <1>14 DEF s

LEMMA DeeperInv ==
  ASSUME IteratorInv, OrderDeeper
  PROVE  IteratorInv'
<1> DEFINE t == TopLive
           k == NextUnmet
           u == stack[TopLive].succs[NextUnmet]
           e == After(NextUnmet, stack[TopLive])
           h == [succs |-> Successors(graph, u), parent |-> -1]
           z == Append(Append(SubSeq(stack, 1, t - 1), e), h)
<1>1. /\ pc = "order" /\ pc' = "order" /\ Live # {} /\ UNCHANGED <<graph, at>>
      /\ known' = known \cup {u} /\ yielded' = Append(yielded, u) /\ stack' = z
      /\ Nodes' = Nodes
  BY DEF OrderDeeper, Yield, ordering, inputs, Nodes
<1>2. /\ graph \in Graphs /\ IsDigraph(graph) /\ yielded \in Seq(Nodes) /\ IsInjective(yielded)
      /\ InPieces(graph, yielded) /\ Iterating
  BY <1>1, SeqDfsAssumption DEF IteratorInv
<1>3. PICK f : Shelved(graph, yielded, stack, f) /\ Unread(graph, yielded, stack, f)
  BY <1>2 DEF Iterating
<1>4. /\ known = ToSet(yielded) /\ stack \in Seq(Shelf(graph)) /\ OverOrOpen(graph, yielded)
      /\ Len(stack) \in Nat
  BY <1>2, LenProperties DEF Iterating
<1>5. /\ t \in 1 .. Len(stack) /\ k \in 1 .. Len(stack[t].succs)
      /\ \A a \in 1 .. Len(stack) : t < a => ToSet(stack[a].succs) \subseteq ToSet(yielded)
      /\ stack[t].succs \in Seq(Nodes) /\ u \in Nodes \ ToSet(yielded)
      /\ \A j \in 1 .. k - 1 : stack[t].succs[j] \in ToSet(yielded)
      /\ u = stack[t].succs[k]
  BY <1>1, <1>4, DeeperFacts
<1>6. stack[t] \in Shelf(graph)
  BY <1>4, <1>5, LenProperties
<1>7. e.succs = SubSeq(stack[t].succs, k + 1, Len(stack[t].succs)) /\ e \in Shelf(graph)
  <2>1. SubSeq(stack[t].succs, k + 1, Len(stack[t].succs)) \in Seq(Nodes)
    BY <1>5, ListSuffix
  <2> QED
    BY <2>1, <1>6 DEF After, Shelf, Nodes
<1>8. h \in Shelf(graph)
  <2>1. Successors(graph, u) \in Seq(graph[u]) /\ graph[u] \subseteq DOMAIN graph
    BY <1>2, <1>5, GraphLists DEF Nodes
  <2>2. Successors(graph, u) \in Seq(DOMAIN graph)
    BY <2>1, WiderLists
  <2> QED
    BY <2>2 DEF Shelf
<1>9. h.succs = Successors(graph, u)
  OBVIOUS
<1> HIDE DEF e, h, t, k, u
<1>10. /\ z \in Seq(Shelf(graph)) /\ Len(z) = t + 1 /\ z[t] = e /\ z[t + 1] = h
       /\ \A a \in 1 .. t - 1 : z[a] = stack[a]
  BY <1>4, <1>5, <1>7, <1>8, TwoOnTop
<1> HIDE DEF z
<1>11. \E c : Shelved(graph, Append(yielded, u), z, c) /\ Unread(graph, Append(yielded, u), z, c)
  BY <1>2, <1>3, <1>4, <1>5, <1>7, <1>9, <1>10, ShelvedDeeper DEF Nodes
<1>12. \A i \in 1 .. Len(yielded) : PieceOver(graph, yielded, i) \/ u \in Reachable(graph, yielded, i)
  <2>1. u \in graph[yielded[f[t]]]
    <3>1. u \in ToSet(stack[t].succs)
      BY <1>5, ListMembers
    <3> QED
      BY <3>1, <1>3, <1>5 DEF Shelved
  <2> QED
    BY <2>1, <1>2, <1>3, <1>4, <1>5, DeeperReached DEF Nodes
<1>13. /\ Append(yielded, u) \in Seq(Nodes) /\ IsInjective(Append(yielded, u))
       /\ InPieces(graph, Append(yielded, u)) /\ OverOrOpen(graph, Append(yielded, u))
  BY <1>2, <1>4, <1>5, <1>12, PiecesGrow DEF Nodes
<1>14. ToSet(Append(yielded, u)) = ToSet(yielded) \cup {u}
  BY <1>2, <1>5, AppendedSet
<1>15. Iterating'
  <2>1. at \in Nat /\ \A v \in Nodes : v < at => v \in known
    BY <1>2 DEF Iterating
  <2>2. known' = ToSet(yielded') /\ at' \in Nat /\ \A v \in Nodes' : v < at' => v \in known'
    BY <2>1, <1>1, <1>4, <1>14
  <2>3. stack' \in Seq(Shelf(graph')) /\ OverOrOpen(graph', yielded')
        /\ \E c : Shelved(graph', yielded', stack', c) /\ Unread(graph', yielded', stack', c)
    BY <1>1, <1>10, <1>11, <1>13
  <2> QED
    BY <2>2, <2>3 DEF Iterating
<1> QED
  BY <1>1, <1>2, <1>13, <1>15 DEF IteratorInv

LEMMA RestartInv ==
  ASSUME IteratorInv, OrderRestart
  PROVE  IteratorInv'
<1> DEFINE u == CHOOSE v \in Unknown : \A x \in Unknown : v <= x
           e == [succs |-> Successors(graph, u), parent |-> -1]
<1>1. /\ pc = "order" /\ pc' = "order" /\ Live = {} /\ Unknown # {} /\ UNCHANGED graph
      /\ known' = known \cup {u} /\ yielded' = Append(yielded, u) /\ stack' = Append(<< >>, e)
      /\ at' = u + 1 /\ Nodes' = Nodes
  BY DEF OrderRestart, Yield, ordering, inputs, Nodes
<1>2. /\ graph \in Graphs /\ IsDigraph(graph) /\ yielded \in Seq(Nodes) /\ IsInjective(yielded)
      /\ InPieces(graph, yielded) /\ Iterating
  BY <1>1, SeqDfsAssumption DEF IteratorInv
<1>3. PICK f : Shelved(graph, yielded, stack, f) /\ Unread(graph, yielded, stack, f)
  BY <1>2 DEF Iterating
<1>4. /\ known = ToSet(yielded) /\ stack \in Seq(Shelf(graph)) /\ OverOrOpen(graph, yielded)
      /\ Len(stack) \in Nat /\ DOMAIN stack = 1 .. Len(stack)
      /\ at \in Nat /\ \A v \in Nodes : v < at => v \in known
  BY <1>2, LenProperties DEF Iterating
<1>5. Nodes \subseteq Nat
  BY <1>2, FS_CardinalityType DEF IsDigraph, Nodes
<1>6. u \in Unknown /\ \A x \in Unknown : u <= x
  <2>1. Unknown \in SUBSET Nat /\ u = Min(Unknown)
    BY <1>5 DEF Unknown, Min
  <2> HIDE DEF u
  <2> QED
    BY <2>1, <1>1, MinOfNat
<1> HIDE DEF u
<1>7. u \in Nodes /\ u \notin known /\ u \in Nat /\ \A v \in Nodes : v < u => v \in known
  BY <1>4, <1>5, <1>6 DEF Unknown
<1>8. \A a \in 1 .. Len(stack) : ToSet(stack[a].succs) \subseteq ToSet(yielded)
  <2> TAKE a \in 1 .. Len(stack)
  <2>1. Unmet(stack[a]) = {}
    BY <1>1, <1>4 DEF Live
  <2> QED
    BY <2>1, <1>4 DEF Unmet, ToSet
<1>9. \A i \in 1 .. Len(yielded) : PieceOver(graph, yielded, i)
  BY <1>2, <1>3, <1>8, NothingUnread DEF Nodes
<1>10. /\ Append(yielded, u) \in Seq(Nodes) /\ IsInjective(Append(yielded, u))
       /\ InPieces(graph, Append(yielded, u)) /\ OverOrOpen(graph, Append(yielded, u))
  BY <1>2, <1>4, <1>7, <1>9, PiecesGrow DEF Nodes
<1>11. \A i \in 1 .. Len(yielded) : graph[yielded[i]] \subseteq ToSet(yielded)
  BY <1>3, <1>8 DEF Unread
<1>12. e \in Shelf(graph) /\ e.succs = Successors(graph, u)
  <2>1. Successors(graph, u) \in Seq(graph[u]) /\ graph[u] \subseteq DOMAIN graph
    BY <1>2, <1>7, GraphLists DEF Nodes
  <2>2. Successors(graph, u) \in Seq(DOMAIN graph)
    BY <2>1, WiderLists
  <2> QED
    BY <2>2 DEF Shelf
<1> HIDE DEF e
<1>13. stack' = <<e>> /\ <<e>> \in Seq(Shelf(graph))
  BY <1>1, <1>12
<1>14. \E c : Shelved(graph, Append(yielded, u), <<e>>, c) /\ Unread(graph, Append(yielded, u), <<e>>, c)
  BY <1>2, <1>7, <1>11, <1>12, ShelvedRestart DEF Nodes
<1>15. ToSet(Append(yielded, u)) = ToSet(yielded) \cup {u}
  BY <1>2, <1>7, AppendedSet
<1>16. \A v \in Nodes : v < u + 1 => v < u \/ v = u
  BY <1>5, <1>7
<1>17. Iterating'
  <2>1. known' = ToSet(yielded') /\ at' \in Nat /\ \A v \in Nodes' : v < at' => v \in known'
    <3>1. /\ known' = known \cup {u} /\ yielded' = Append(yielded, u) /\ at' = u + 1
          /\ Nodes' = Nodes
      BY <1>1
    <3>2. known' = ToSet(yielded')
      BY <3>1, <1>4, <1>15
    <3>3. \A v \in Nodes : v < u + 1 => v \in known \cup {u}
      BY <1>7, <1>16
    <3>4. at' \in Nat
      BY <3>1, <1>7
    <3>5. \A v \in Nodes' : v < at' => v \in known'
      BY <3>1, <3>3
    <3> QED
      BY <3>2, <3>4, <3>5
  <2>2. stack' \in Seq(Shelf(graph')) /\ OverOrOpen(graph', yielded')
        /\ \E c : Shelved(graph', yielded', stack', c) /\ Unread(graph', yielded', stack', c)
    BY <1>1, <1>10, <1>13, <1>14
  <2> QED
    BY <2>1, <2>2 DEF Iterating
<1> QED
  BY <1>1, <1>2, <1>10, <1>17 DEF IteratorInv

LEMMA IteratorInit == Init => IteratorInv
<1> SUFFICES ASSUME Init PROVE IteratorInv
  OBVIOUS
<1>1. graph \in Graphs /\ pc = "idle" /\ at = 0 /\ yielded = << >>
  BY DEF Init, DfsInit
<1> QED
  BY <1>1, NothingYielded DEF IteratorInv, Nodes

LEMMA IteratorBegins ==
  ASSUME IteratorInv, StartOrder
  PROVE  IteratorInv'
<1>1. /\ pc' = "order" /\ graph' = graph /\ Nodes' = Nodes /\ stack' = << >> /\ known' = {}
      /\ at' = 0 /\ yielded' = << >> /\ graph \in Graphs
  BY DEF StartOrder, inputs, Nodes, IteratorInv
<1>2. /\ << >> \in Seq(Nodes) /\ IsInjective(<< >>) /\ InPieces(graph, << >>)
      /\ OverOrOpen(graph, << >>) /\ ToSet(<< >>) = {}
      /\ \E f : Shelved(graph, << >>, << >>, f) /\ Unread(graph, << >>, << >>, f)
  BY NothingYielded DEF Nodes
<1>3. \A v \in Nodes : ~(v < 0)
  BY <1>1, SeqDfsAssumption, FS_CardinalityType DEF IsDigraph, Nodes
<1>4. Iterating'
  <2>1. << >> \in Seq(Shelf(graph))
    OBVIOUS
  <2> QED
    BY <1>1, <1>2, <1>3, <2>1 DEF Iterating
<1> QED
  BY <1>1, <1>2, <1>4 DEF IteratorInv

LEMMA IteratorEnds ==
  ASSUME IteratorInv, OrderNone
  PROVE  IteratorInv'
<1>1. /\ pc = "order" /\ pc' = "idle" /\ graph' = graph /\ Nodes' = Nodes /\ Unknown = {}
      /\ yielded' = yielded
  BY DEF OrderNone, ordering, inputs, Nodes
<1>2. /\ graph \in Graphs /\ yielded \in Seq(Nodes) /\ IsInjective(yielded)
      /\ InPieces(graph, yielded) /\ Iterating
  BY <1>1 DEF IteratorInv
<1>3. Nodes \subseteq Nat
  BY <1>2, SeqDfsAssumption, FS_CardinalityType DEF IsDigraph, Nodes
<1>4. at \in Nat /\ known = ToSet(yielded) /\ \A v \in Nodes : v < at => v \in known
  BY <1>2 DEF Iterating
<1>5. \A v \in Nodes : v \in known
  <2> TAKE v \in Nodes
  <2>1. v < at \/ v >= at
    BY <1>3, <1>4
  <2> QED
    BY <2>1, <1>1, <1>4 DEF Unknown
<1>6. ToSet(yielded) \subseteq Nodes
  BY <1>2, ListMembers
<1>7. ToSet(yielded') = Nodes'
  BY <1>1, <1>4, <1>5, <1>6
<1> QED
  BY <1>1, <1>2, <1>7 DEF IteratorInv

(* Other steps leave the iterator alone: it holds the visit.               *)
LEMMA OutsideIterator ==
  ASSUME IteratorInv, Visit \/ Step \/ Restore \/ Inspect \/ UNCHANGED vars
  PROVE  IteratorInv'
<1>1. UNCHANGED <<graph, at, yielded>> /\ Nodes' = Nodes
  BY DEF Visit, StartVisit, Step, DfsStep, SkipRoot, InitRoot, PrevisitRoot, EndRoots, Revisit,
     Ignore, Previsit, Postvisit, DoneRoot, Restore, Reset, Inspect, TakeStack, vars, dfsVars,
     inputs, Nodes
<1>2. CASE UNCHANGED vars
  <2>1. UNCHANGED <<pc, known, stack>>
    BY <1>2 DEF vars, dfsVars
  <2>2. Iterating => Iterating'
    BY <1>1, <2>1 DEF Iterating
  <2> QED
    BY <1>1, <2>1, <2>2 DEF IteratorInv
<1>3. CASE Visit \/ Step \/ Restore \/ Inspect
  <2>1. pc # "order" /\ pc' # "order"
    BY <1>3 DEF Visit, StartVisit, Step, DfsStep, SkipRoot, InitRoot, PrevisitRoot, EndRoots,
       Revisit, Ignore, Previsit, Postvisit, DoneRoot, Restore, Reset, Inspect, TakeStack, Enter,
       Goes, AtArc
  <2> QED
    BY <1>1, <2>1 DEF IteratorInv
<1> QED
  BY <1>2, <1>3

(* The iterator over all nodes (DfsOrder of seq.rs) is what it says, on    *)
(* every graph and whatever visits the object made before: no node is      *)
(* yielded twice, all are when it ends, and what a node can reach by nodes *)
(* not yielded before it is yielded in one piece that begins with it.      *)
THEOREM IteratorIsDfs == Spec => []OrderIsDfs
<1>1. Init => IteratorInv
  BY IteratorInit
<1>2. IteratorInv /\ [Next]_vars => IteratorInv'
  BY IteratorBegins, DeeperInv, RestartInv, IteratorEnds, OutsideIterator DEF Next
<1>3. IteratorInv => OrderIsDfs
  <2> SUFFICES ASSUME IteratorInv PROVE OrderIsDfs
    OBVIOUS
  <2>1. /\ yielded \in Seq(Nodes) /\ IsInjective(yielded) /\ InPieces(graph, yielded)
        /\ IsDigraph(graph)
    BY SeqDfsAssumption DEF IteratorInv
  <2>2. at = Cardinality(Nodes) /\ pc = "idle" => ToSet(yielded) = Nodes
    <3> SUFFICES ASSUME at = Cardinality(Nodes), pc = "idle", yielded = << >>, at = 0
                 PROVE  ToSet(yielded) = Nodes
      BY DEF IteratorInv
    <3>1. Nodes = {} /\ ToSet(<< >>) = {}
      BY <2>1, NothingYielded, FS_EmptySet DEF IsDigraph, Nodes
    <3> QED
      BY <3>1
  <2>3. ASSUME NEW i \in DOMAIN yielded, NEW j \in DOMAIN yielded, i < j, NEW k \in i .. j,
               yielded[j] \in Reached(Inside(Nodes \ {yielded[l] : l \in 1 .. i - 1}), {yielded[i]})
        PROVE  yielded[k] \in Reached(Inside(Nodes \ {yielded[l] : l \in 1 .. i - 1}), {yielded[i]})
    <3>1. DOMAIN yielded = 1 .. Len(yielded) /\ Len(yielded) \in Nat
      BY <2>1, LenProperties
    <3>2. i \in 1 .. Len(yielded) /\ j \in i .. Len(yielded)
      BY <2>3, <3>1
    <3>3. Reached(Inside(Nodes \ {yielded[l] : l \in 1 .. i - 1}), {yielded[i]})
            = Reachable(graph, yielded, i)
      BY DEF Reachable, Inside, Within, Nodes
    <3> HIDE DEF Reachable
    <3> QED
      BY <2>1, <2>3, <3>2, <3>3 DEF InPieces
  <2> QED
    BY <2>1, <2>2, <2>3 DEF OrderIsDfs
<1> QED
  BY <1>1, <1>2, <1>3, PTL DEF Spec
=============================================================================
